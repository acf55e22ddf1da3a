------------------------------ MODULE BaseDrive ------------------------------
(***************************************************************************)
(* The lifecycle of a BaseDrive (drive/base_drive.go): Mount, Unmount,     *)
(* WriteToDrive, LoadFromDrive and Delete, called by any number of         *)
(* goroutines.  d.lock protects the fields but is released while files are *)
(* copied, while unmountFunc runs and between the parts of Delete, so an   *)
(* operation is several steps here: one per stretch of code under the lock *)
(* or per call that changes the host.  Calls that only return an error     *)
(* change nothing and are left out.                                        *)
(***************************************************************************)
CONSTANTS
    Procs,      \* the goroutines that use the drive
    Methods,    \* mount methods to consider; "luks" is that of module EncryptedDrive
    Ephemeral,  \* DriveOptions.Ephemeral
    ReadOnly,   \* DriveOptions.ReadOnly, or a squashfs
    Failures    \* host commands that may fail

HostCommands == {"mount", "umount", "detach", "rmdir", "rmimage"}

ASSUME DriveAssumption ==
    /\ Methods \subseteq {"guestmount", "loop", "luks"}
    /\ Ephemeral \in BOOLEAN /\ ReadOnly \in BOOLEAN
    /\ Failures \subseteq HostCommands

VARIABLES
    method,       \* params.MountMethod()
    params,       \* d.params is not nil (imagePath is cleared with it)
    mounted,      \* d.mounted (mountPoint is set and cleared with it)
    unmountFunc,  \* d.unmountFunc is not nil
    unMounting,   \* d.unMounting
    pc,           \* where each goroutine is
    op,           \* the operation whose Unmount it runs
    hasFunc,      \* the unmountFunc it read is not nil
    isEphemeral,  \* the ephemeral flag it read
    image,        \* host: the image file exists
    device,       \* host: a loop device is attached to the image
    autoclear,    \* host: the kernel detaches it when it is no longer in use
    hostMount,    \* host: the image is mounted on the mount point
    lost          \* history: umount succeeded in an Unmount that reported an error

vars == <<method, params, mounted, unmountFunc, unMounting, pc, op, hasFunc, isEphemeral,
          image, device, autoclear, hostMount, lost>>
driveVars == <<method, params, mounted, unmountFunc, unMounting>>
hostVars  == <<image, device, autoclear, hostMount, lost>>
snapVars  == <<op, hasFunc, isEphemeral>>

PCs == {"idle", "checked", "io", "wait", "snapshot", "run", "failed", "rmdir", "finish",
        "delSnapshot", "delImage", "delFinish", "crashed"}

\* The goroutines counted by ioWG, and those between the two ends of Unmount.
ioWG       == {p \in Procs : pc[p] = "io"}
Unmounters == {p \in Procs : pc[p] \in {"wait", "snapshot", "run", "failed", "rmdir", "finish"}}

CanFail(c) == c \in Failures

Init ==
    /\ method \in Methods
    /\ params = TRUE /\ mounted = FALSE /\ unmountFunc = FALSE /\ unMounting = FALSE
    /\ pc = [p \in Procs |-> "idle"]
    /\ op = [p \in Procs |-> "unmount"]
    /\ hasFunc = [p \in Procs |-> FALSE]
    /\ isEphemeral = [p \in Procs |-> FALSE]
    /\ image = TRUE /\ device = FALSE /\ autoclear = FALSE /\ hostMount = FALSE /\ lost = FALSE

Goto(p, l) == pc' = [pc EXCEPT ![p] = l]

\* A nil pointer is used: the program, with all its goroutines, is gone.
Panic   == pc' = [q \in Procs |-> "crashed"] /\ UNCHANGED <<driveVars, snapVars, hostVars>>
Crashed == \E p \in Procs : pc[p] = "crashed"
-----------------------------------------------------------------------------
(* Mount holds d.lock throughout.                                          *)

Mountable == ~mounted /\ ~unMounting

\* After Delete there are no params to read.
MountDeleted(p) ==
    /\ pc[p] = "idle" /\ Mountable /\ ~params
    /\ Panic

SetMounted ==
    /\ mounted' = TRUE /\ unmountFunc' = TRUE
    /\ UNCHANGED <<method, params, unMounting>>

mountWithGuestMount(p) ==
    /\ pc[p] = "idle" /\ Mountable /\ params /\ method = "guestmount"
    /\ image
    /\ hostMount' = TRUE
    /\ SetMounted
    /\ UNCHANGED <<pc, snapVars, image, device, autoclear, lost>>

\* losetup has attached the device; mount succeeds, or it fails and the device
\* is detached again, which may fail in turn.
mountWithLoopDevice(p) ==
    /\ pc[p] = "idle" /\ Mountable /\ params /\ method = "loop"
    /\ image
    /\ \/ SetMounted /\ hostMount' = TRUE /\ device' = TRUE
       \/ /\ CanFail("mount")
          /\ \E left \in BOOLEAN : (left => CanFail("detach")) /\ device' = (device \/ left)
          /\ UNCHANGED <<driveVars, hostMount>>
    /\ UNCHANGED <<pc, snapVars, image, autoclear, lost>>

Mount(p) == MountDeleted(p) \/ mountWithGuestMount(p) \/ mountWithLoopDevice(p)
-----------------------------------------------------------------------------
(* Unmount, on its own or as the first part of Delete.                     *)

\* Faulty variant: a second Unmount is let in while one is under way.
UnmountBeginTwice(p, o) ==
    /\ pc[p] = "idle"
    /\ mounted /\ unmountFunc
    /\ unMounting' = TRUE
    /\ op' = [op EXCEPT ![p] = o]
    /\ Goto(p, "wait")
    /\ UNCHANGED <<method, params, mounted, unmountFunc, hasFunc, isEphemeral, hostVars>>

\* The checks and the flag, under the lock.
UnmountBegin(p, o) ==
    /\ pc[p] = "idle"
    /\ mounted /\ ~unMounting /\ unmountFunc
    /\ unMounting' = TRUE
    /\ op' = [op EXCEPT ![p] = o]
    /\ Goto(p, "wait")
    /\ UNCHANGED <<method, params, mounted, unmountFunc, hasFunc, isEphemeral, hostVars>>

\* Faulty variant: Unmount does not wait for the reads and writes in progress.
UnmountNoWait(p) ==
    /\ pc[p] = "wait"
    /\ Goto(p, "snapshot")
    /\ UNCHANGED <<driveVars, snapVars, hostVars>>

UnmountWait(p) ==
    /\ pc[p] = "wait" /\ ioWG = {}
    /\ Goto(p, "snapshot")
    /\ UNCHANGED <<driveVars, snapVars, hostVars>>

UnmountSnapshot(p) ==
    /\ pc[p] = "snapshot"
    /\ hasFunc' = [hasFunc EXCEPT ![p] = unmountFunc]
    /\ isEphemeral' = [isEphemeral EXCEPT ![p] = params /\ Ephemeral]
    /\ Goto(p, "run")
    /\ UNCHANGED <<driveVars, op, hostVars>>

\* guestunmount succeeds, or fails and leaves the mount.
GuestUnmount(p) ==
    \/ /\ hostMount /\ hostMount' = FALSE /\ Goto(p, "rmdir")
       /\ UNCHANGED <<image, device, autoclear, lost>>
    \/ (~hostMount \/ CanFail("umount")) /\ Goto(p, "failed") /\ UNCHANGED hostVars

\* umount works; losetup -d then detaches the device, or fails: because it does, or
\* because the kernel has detached the device itself.
LoopUnmounted(p) ==
    /\ hostMount /\ hostMount' = FALSE /\ autoclear' = FALSE
    /\ \/ /\ ~autoclear /\ device' = FALSE
          /\ Goto(p, "rmdir") /\ UNCHANGED lost
       \/ /\ autoclear \/ CanFail("detach")
          /\ device' = (device /\ ~autoclear) /\ lost' = TRUE
          /\ Goto(p, "failed")

\* umount fails, and losetup -d follows all the same, its result ignored.  On a loop
\* device in use it succeeds and has the kernel detach the device at the last umount;
\* luksClose fails on a mapper in use.
LoopUnmountFails(p) ==
    /\ ~hostMount \/ CanFail("umount")
    /\ \/ hostMount /\ autoclear' = (method = "loop") /\ UNCHANGED device
       \/ ~hostMount /\ device' = FALSE /\ UNCHANGED autoclear
       \/ CanFail("detach") /\ UNCHANGED <<device, autoclear>>
    /\ Goto(p, "failed")
    /\ UNCHANGED <<hostMount, lost>>

LoopUnmount(p) == (LoopUnmounted(p) \/ LoopUnmountFails(p)) /\ UNCHANGED image

RunUnmountFunc(p) ==
    /\ pc[p] = "run" /\ hasFunc[p]
    /\ IF method = "guestmount" THEN GuestUnmount(p) ELSE LoopUnmount(p)
    /\ UNCHANGED <<driveVars, snapVars>>

\* A Delete has cleared the drive since Unmount began: unmountFunc is nil.
RunNilFunc(p) ==
    /\ pc[p] = "run" /\ ~hasFunc[p]
    /\ Panic

\* Faulty variant: the error return forgets the flag.
UnmountFailedStuck(p) ==
    /\ pc[p] = "failed"
    /\ Goto(p, "idle")
    /\ UNCHANGED <<driveVars, snapVars, hostVars>>

UnmountFailed(p) ==
    /\ pc[p] = "failed"
    /\ unMounting' = FALSE
    /\ Goto(p, "idle")
    /\ UNCHANGED <<method, params, mounted, unmountFunc, snapVars, hostVars>>

\* The mount point of an ephemeral drive is removed; when that fails Unmount
\* returns as it is.
RemoveMountPoint(p) ==
    /\ pc[p] = "rmdir"
    /\ \/ Goto(p, "finish")
       \/ isEphemeral[p] /\ CanFail("rmdir") /\ Goto(p, "idle")
    /\ UNCHANGED <<driveVars, snapVars, hostVars>>

UnmountFinish(p) ==
    /\ pc[p] = "finish"
    /\ mounted' = FALSE /\ unmountFunc' = FALSE /\ unMounting' = FALSE
    /\ Goto(p, IF op[p] = "unmount" THEN "idle" ELSE "delSnapshot")
    /\ UNCHANGED <<method, params, snapVars, hostVars>>

UnmountStep(p) ==
    \/ UnmountWait(p) \/ UnmountSnapshot(p) \/ RunUnmountFunc(p) \/ RunNilFunc(p)
    \/ UnmountFailed(p) \/ RemoveMountPoint(p) \/ UnmountFinish(p)
-----------------------------------------------------------------------------
(* Delete: Unmount, unless the drive is not mounted; then the rest.        *)

DeleteUnmounted(p) ==
    /\ pc[p] = "idle" /\ ~mounted
    /\ Goto(p, "delSnapshot")
    /\ UNCHANGED <<driveVars, snapVars, hostVars>>

DeleteSnapshot(p) ==
    /\ pc[p] = "delSnapshot"
    /\ isEphemeral' = [isEphemeral EXCEPT ![p] = params /\ Ephemeral]
    /\ Goto(p, "delImage")
    /\ UNCHANGED <<driveVars, op, hasFunc, hostVars>>

DeleteImage(p) ==
    /\ pc[p] = "delImage"
    /\ \/ image' = (image /\ ~isEphemeral[p]) /\ Goto(p, "delFinish")
       \/ isEphemeral[p] /\ CanFail("rmimage") /\ Goto(p, "idle") /\ UNCHANGED image
    /\ UNCHANGED <<driveVars, snapVars, device, autoclear, hostMount, lost>>

\* Faulty variant: the drive is left mounted in name.
DeleteFinishPartial(p) ==
    /\ pc[p] = "delFinish"
    /\ unmountFunc' = FALSE /\ unMounting' = FALSE /\ params' = FALSE
    /\ Goto(p, "idle")
    /\ UNCHANGED <<method, mounted, snapVars, hostVars>>

DeleteFinish(p) ==
    /\ pc[p] = "delFinish"
    /\ mounted' = FALSE /\ unmountFunc' = FALSE /\ unMounting' = FALSE /\ params' = FALSE
    /\ Goto(p, "idle")
    /\ UNCHANGED <<method, snapVars, hostVars>>

DeleteStep(p) == DeleteSnapshot(p) \/ DeleteImage(p) \/ DeleteFinish(p)
-----------------------------------------------------------------------------
(* WriteToDrive and LoadFromDrive.                                         *)

\* Validate takes and releases the lock.
IOValidate(p) ==
    /\ pc[p] = "idle" /\ params
    /\ Goto(p, "checked")
    /\ UNCHANGED <<driveVars, snapVars, hostVars>>

\* Faulty variant: the check of unMounting is missing.
LoadBeginLate(p) ==
    /\ pc[p] = "checked"
    /\ Goto(p, IF mounted THEN "io" ELSE "idle")
    /\ UNCHANGED <<driveVars, snapVars, hostVars>>

\* ioWG.Add(1) under the lock, unless the drive is not mounted or unmounting; ...
LoadBegin(p) ==
    /\ pc[p] = "checked"
    /\ Goto(p, IF mounted /\ ~unMounting THEN "io" ELSE "idle")
    /\ UNCHANGED <<driveVars, snapVars, hostVars>>

\* ... a write is refused on a read-only drive, too.
WriteBegin(p) ==
    /\ pc[p] = "checked"
    /\ Goto(p, IF mounted /\ ~unMounting /\ ~ReadOnly THEN "io" ELSE "idle")
    /\ UNCHANGED <<driveVars, snapVars, hostVars>>

IOBegin(p) == LoadBegin(p) \/ WriteBegin(p)

\* The copy ends, with or without an error; ioWG.Done().
IODone(p) ==
    /\ pc[p] = "io"
    /\ Goto(p, "idle")
    /\ UNCHANGED <<driveVars, snapVars, hostVars>>
-----------------------------------------------------------------------------
Start(p) ==
    \/ Mount(p) \/ UnmountBegin(p, "unmount") \/ UnmountBegin(p, "delete")
    \/ DeleteUnmounted(p) \/ IOValidate(p)
Continue(p) == UnmountStep(p) \/ DeleteStep(p) \/ IOBegin(p) \/ IODone(p)

Next == \E p \in Procs : Start(p) \/ Continue(p)

Spec == Init /\ [][Next]_vars

\* Calls under way go on; nobody has to make a call.
FairSpec == Spec /\ \A p \in Procs : WF_vars(Continue(p))
-----------------------------------------------------------------------------
(* The life cycle that users of the drive see.                             *)

LifeCycle ==
    IF ~params THEN "deleted"
    ELSE IF unMounting THEN "unmounting"
    ELSE IF mounted THEN "mounted" ELSE "unmounted"

Abstract == INSTANCE Drive WITH state <- LifeCycle, users <- ioWG
-----------------------------------------------------------------------------
(* Properties.                                                             *)

\* Every variable has its type.
TypeOK ==
    /\ method \in Methods
    /\ params \in BOOLEAN /\ mounted \in BOOLEAN
    /\ unmountFunc \in BOOLEAN /\ unMounting \in BOOLEAN
    /\ pc \in [Procs -> PCs]
    /\ op \in [Procs -> {"unmount", "delete"}]
    /\ hasFunc \in [Procs -> BOOLEAN]
    /\ isEphemeral \in [Procs -> BOOLEAN]
    /\ image \in BOOLEAN /\ device \in BOOLEAN /\ autoclear \in BOOLEAN
    /\ hostMount \in BOOLEAN /\ lost \in BOOLEAN

\* A mounted drive has its options and a way to unmount it: WriteToDrive, which
\* reads d.params after Validate has released the lock, never meets a nil.
MountedIsComplete == mounted => params /\ unmountFunc

\* No read or write is in progress while unmountFunc takes the file system away,
\* nor before Unmount has cleared the drive.
QuietUnmount ==
    \A p \in Procs : pc[p] \in {"snapshot", "run", "failed", "rmdir", "finish"} => ioWG = {}

\* One goroutine at a time is inside Unmount, whatever Mount, Delete and failed
\* unmounts happen meanwhile.
SingleUnmounter == \A p, q \in Unmounters : p = q

\* The unmounting flag is up only while somebody unmounts: a drive is never left
\* refusing every later Mount, Unmount, write and Delete.
UnmountingIsTemporary == unMounting => Unmounters # {}

\* A write or read that passed the checks works on the mounted image and not on
\* the bare directory under it, unless an Unmount took the image away and then
\* reported a failure, which leaves the drive mounted in name.
IOOnMountedImage == ioWG # {} => hostMount \/ lost

\* The program panics on a nil pointer only after a Delete.
PanicOnlyAfterDelete == Crashed => ~params

\* What BaseDrive does, step by step and with the lock released in between, is a
\* drive as module Drive has it: no operation is admitted in the wrong state, none
\* overtakes a read or write but Delete, and Delete is final.
ImplementsDrive == Abstract!Spec

\* Unmount returns: new reads and writes cannot keep it waiting.
UnmountReturns == \A p \in Procs : p \in Unmounters ~> p \notin Unmounters
=============================================================================
