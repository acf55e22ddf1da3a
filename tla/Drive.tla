-------------------------------- MODULE Drive --------------------------------
(***************************************************************************)
(* What a drive.Drive (drive/drive.go) promises to the goroutines that     *)
(* share it, whatever it is made of: a life cycle, and that the file       *)
(* system is there for as long as anybody reads or writes it.              *)
(*                                                                         *)
(* BaseDrive and EncryptedDrive implement this specification.              *)
(***************************************************************************)
CONSTANT Procs     \* the goroutines that use the drive

VARIABLES
    state,         \* where the drive is in its life cycle
    users          \* the goroutines that read or write files on it

driveVars == <<state, users>>

States == {"unmounted", "mounted", "unmounting", "deleted"}

Init == state = "unmounted" /\ users = {}

Mount == state = "unmounted" /\ state' = "mounted" /\ UNCHANGED users

\* Files are read and written on a mounted drive that nobody unmounts.
BeginIO(p) ==
    /\ state = "mounted" /\ p \notin users
    /\ users' = users \cup {p}
    /\ UNCHANGED state

EndIO(p) == p \in users /\ users' = users \ {p} /\ UNCHANGED state

BeginUnmount == state = "mounted" /\ state' = "unmounting" /\ UNCHANGED users

\* Unmount lets its users finish first.
EndUnmount == state = "unmounting" /\ users = {} /\ state' = "unmounted" /\ UNCHANGED users

\* An Unmount that fails leaves the drive as it found it.
AbortUnmount == state = "unmounting" /\ users = {} /\ state' = "mounted" /\ UNCHANGED users

\* Delete is not atomic, so it may end in any state; it is final.
Delete == state # "deleted" /\ state' = "deleted" /\ UNCHANGED users

\* Only a deleted drive may make the program panic.
Panic == state = "deleted" /\ users' = {} /\ UNCHANGED state

Next ==
    \/ Mount \/ BeginUnmount \/ EndUnmount \/ AbortUnmount \/ Delete \/ Panic
    \/ \E p \in Procs : BeginIO(p) \/ EndIO(p)

Spec == Init /\ [][Next]_driveVars
=============================================================================
