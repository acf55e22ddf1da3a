---------------------------------- MODULE VM ----------------------------------
(***************************************************************************)
(* VM (vm/vm.go, vm/status.go, vm/drive.go): goroutines that call its       *)
(* operations, all of which hold v.lock, a sync.Mutex, from their first     *)
(* step to their return.                                                   *)
(*                                                                         *)
(* A sync.Mutex is not reentrant.  Start, Stop, the operations that add a   *)
(* drive, RemoveDrive and HotAddDrive call IsStarted, which locks v.lock    *)
(* itself: each of them goes on only when nobody holds the lock, its own    *)
(* caller included.                                                        *)
(*                                                                         *)
(* A drive is its ID.  Calls with an invalid drive return before the lock   *)
(* and are left out.                                                       *)
(***************************************************************************)

CONSTANTS
    Procs,      \* goroutines
    IDs,        \* drive IDs
    None

VARIABLES
    pc,         \* idle, at v.lock.Lock(), holding it, or at the Lock of IsStarted
    call,       \* the operation a goroutine is in
    drive,      \* the ID it was called with
    lock,       \* who holds v.lock
    drives,     \* IDs in v.hardware.Drives
    machine     \* external: what Firecracker would answer statusCheck

vars == <<pc, call, drive, lock, drives, machine>>

Operations == {"IsStarted", "Status", "Start", "Stop", "Cleanup", "AddDrive", "RemoveDrive",
               "HotAddDrive", "HotRemoveDrive"}
\* statusCheck never says STARTING or STOPPING.
Statuses == {"CREATED", "UNKNOWN", "STOPPED", "RUNNING"}

\* NewVM: the hardware may come with drives, and the file of its API socket may be
\* there already, left behind or in use.
Init ==
    /\ pc = [p \in Procs |-> "idle"]
    /\ call = [p \in Procs |-> "Status"]
    /\ drive \in [Procs -> IDs]
    /\ lock = None
    /\ drives \in SUBSET IDs
    /\ machine \in Statuses

IsStarted == machine = "RUNNING"

Goto(p, label) == pc' = [pc EXCEPT ![p] = label]
-----------------------------------------------------------------------------
Call(p) ==
    /\ pc[p] = "idle"
    /\ \E op \in Operations, d \in IDs :
        /\ call' = [call EXCEPT ![p] = op]
        /\ drive' = [drive EXCEPT ![p] = d]
    /\ Goto(p, "lock")
    /\ UNCHANGED <<lock, drives, machine>>

Lock(p) ==
    /\ pc[p] = "lock" /\ lock = None
    /\ lock' = p /\ Goto(p, "locked")
    /\ UNCHANGED <<call, drive, drives, machine>>

\* The deferred Unlock, and the return.
Return(p) == lock' = None /\ Goto(p, "idle") /\ UNCHANGED <<call, drive>>

In(p, op) == pc[p] = "locked" /\ call[p] = op

\* statusCheck under the lock that IsStarted or Status took for its caller.
Answer(p) ==
    /\ In(p, "IsStarted") \/ In(p, "Status")
    /\ Return(p) /\ UNCHANGED <<drives, machine>>

\* external: without a socket there is nothing to stop, and the answer stays CREATED.
StopVMM ==
    machine' \in IF machine = "CREATED" THEN {machine} ELSE {machine, "STOPPED", "CREATED"}

Cleanup(p) ==
    /\ In(p, "Cleanup")
    /\ StopVMM
    /\ Return(p) /\ UNCHANGED drives

\* HotRemoveDrive only looks the drive up.
HotRemoveDrive(p) ==
    /\ In(p, "HotRemoveDrive")
    /\ Return(p) /\ UNCHANGED <<drives, machine>>

UnknownDrive(p) ==
    /\ In(p, "RemoveDrive") /\ drive[p] \notin drives
    /\ Return(p) /\ UNCHANGED <<drives, machine>>

\* The operation calls IsStarted.
CallIsStarted(p) ==
    /\ \/ \E op \in {"Start", "Stop", "AddDrive", "HotAddDrive"} : In(p, op)
       \/ In(p, "RemoveDrive") /\ drive[p] \in drives
    /\ Goto(p, "relock")
    /\ UNCHANGED <<call, drive, lock, drives, machine>>

\* IsStarted locks v.lock, and unlocks it before it returns.
Checked(p, op) == pc[p] = "relock" /\ call[p] = op /\ lock = None

Start(p) ==
    /\ Checked(p, "Start")
    /\ IF IsStarted THEN UNCHANGED machine ELSE machine' \in Statuses
    /\ Return(p) /\ UNCHANGED drives

Stop(p) ==
    /\ Checked(p, "Stop")
    /\ IF IsStarted THEN StopVMM ELSE UNCHANGED machine
    /\ Return(p) /\ UNCHANGED drives

AddDrive(p) ==
    /\ Checked(p, "AddDrive")
    /\ drives' = IF IsStarted THEN drives ELSE drives \cup {drive[p]}
    /\ Return(p) /\ UNCHANGED machine

RemoveDrive(p) ==
    /\ Checked(p, "RemoveDrive")
    /\ drives' = IF IsStarted THEN drives ELSE drives \ {drive[p]}
    /\ Return(p) /\ UNCHANGED machine

HotAddDrive(p) ==
    /\ Checked(p, "HotAddDrive")
    /\ Return(p) /\ UNCHANGED <<drives, machine>>

\* external: whatever listens at a socket, or does not, changes its answer by itself.
MachineChanges ==
    /\ machine # "CREATED"
    /\ machine' \in Statuses
    /\ UNCHANGED <<pc, call, drive, lock, drives>>
-----------------------------------------------------------------------------
Proceed(p) ==
    \/ Lock(p) \/ Answer(p) \/ Cleanup(p) \/ HotRemoveDrive(p) \/ UnknownDrive(p)
    \/ CallIsStarted(p) \/ Start(p) \/ Stop(p) \/ AddDrive(p) \/ RemoveDrive(p)
    \/ HotAddDrive(p)

Next == (\E p \in Procs : Call(p) \/ Proceed(p)) \/ MachineChanges

Spec == Init /\ [][Next]_vars

\* A goroutine that can go on does, and a mutex does not starve one that waits.
FairSpec == Spec /\ \A p \in Procs : WF_vars(Proceed(p)) /\ SF_vars(Lock(p))
-----------------------------------------------------------------------------
(* Properties.                                                             *)

\* Every operation of a VM returns.  The comment of statusCheck says that it exists
\* to be called without a lock, so that the operations do not wait for each other.
CallsReturn == \A p \in Procs : pc[p] # "idle" ~> pc[p] = "idle"
=============================================================================
