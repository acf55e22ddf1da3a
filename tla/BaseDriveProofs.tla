--------------------------- MODULE BaseDriveProofs ---------------------------
(***************************************************************************)
(* Proofs about BaseDrive for any number of goroutines, every mount method *)
(* and every choice of host commands that fail.                            *)
(***************************************************************************)
EXTENDS BaseDrive, TLAPS

\* The fields of the drive agree with each other.
Fields ==
    /\ mounted => params /\ unmountFunc
    /\ unMounting => mounted

\* While a goroutine is inside Unmount the drive stays mounted and unmounting,
\* unless a Delete has cleared it; then it cannot be mounted again.
Claimed == \A p \in Unmounters : params => unMounting /\ mounted

\* An Unmount finds no unmountFunc only in a drive that was deleted.
FuncKnown == \A p \in Procs : pc[p] = "run" /\ ~hasFunc[p] => ~params

\* The inductive invariant.
IInv == TypeOK /\ Fields /\ Claimed /\ SingleUnmounter /\ QuietUnmount /\ FuncKnown
        /\ PanicOnlyAfterDelete

\* A new drive satisfies the invariant.
LEMMA InitIInv == Init => IInv
BY DriveAssumption DEF Init, IInv, TypeOK, Fields, Claimed, SingleUnmounter, QuietUnmount, FuncKnown,
       PanicOnlyAfterDelete, Unmounters, ioWG, Crashed, PCs

\* The first step of every operation keeps the types.
LEMMA TypeStart ==
    ASSUME TypeOK, NEW p \in Procs, Start(p)
    PROVE  TypeOK'
<1> USE DEF TypeOK, Goto, PCs, driveVars, snapVars, hostVars
<1>1. CASE MountDeleted(p)
  BY <1>1 DEF MountDeleted, Panic
<1>2. CASE mountWithGuestMount(p) \/ mountWithLoopDevice(p)
  <2>1. CASE mountWithGuestMount(p)
    BY <2>1, DriveAssumption DEF mountWithGuestMount, SetMounted
  <2>2. CASE mountWithLoopDevice(p)
    BY <2>2, DriveAssumption DEF mountWithLoopDevice, SetMounted
  <2> QED
    BY <1>2, <2>1, <2>2
<1>3. CASE UnmountBegin(p, "unmount") \/ UnmountBegin(p, "delete")
  BY <1>3 DEF UnmountBegin
<1>4. CASE DeleteUnmounted(p) \/ IOValidate(p)
  BY <1>4 DEF DeleteUnmounted, IOValidate
<1> QED
  BY <1>1, <1>2, <1>3, <1>4 DEF Start, Mount

\* So do the further steps, and the host commands they run.
LEMMA TypeContinue ==
    ASSUME TypeOK, NEW p \in Procs, Continue(p)
    PROVE  TypeOK'
<1> USE DEF TypeOK, Goto, PCs, driveVars, snapVars, hostVars
<1>1. CASE UnmountWait(p) \/ UnmountFailed(p) \/ RemoveMountPoint(p) \/ UnmountFinish(p)
  <2>1. CASE UnmountWait(p)
    BY <2>1 DEF UnmountWait
  <2>2. CASE UnmountFailed(p)
    BY <2>2 DEF UnmountFailed
  <2>3. CASE RemoveMountPoint(p)
    BY <2>3 DEF RemoveMountPoint
  <2>4. CASE UnmountFinish(p)
    BY <2>4 DEF UnmountFinish
  <2> QED
    BY <1>1, <2>1, <2>2, <2>3, <2>4
<1>2. CASE UnmountSnapshot(p) \/ DeleteSnapshot(p)
  BY <1>2 DEF UnmountSnapshot, DeleteSnapshot
<1>3. CASE RunUnmountFunc(p)
  <2>1. /\ UNCHANGED <<driveVars, snapVars, image>>
        /\ Goto(p, "rmdir") \/ Goto(p, "failed")
    BY <1>3 DEF RunUnmountFunc, GuestUnmount, LoopUnmount, LoopUnmounted, LoopUnmountFails
  <2>2. hostMount' \in BOOLEAN /\ lost' \in BOOLEAN
    BY <1>3, Zenon DEF RunUnmountFunc, GuestUnmount, LoopUnmount, LoopUnmounted, LoopUnmountFails
  <2>3. device' \in BOOLEAN /\ autoclear' \in BOOLEAN
    <3>1. (device /\ ~autoclear) \in BOOLEAN /\ (method = "loop") \in BOOLEAN
      OBVIOUS
    <3> QED
      BY <1>3, <3>1, Zenon
         DEF RunUnmountFunc, GuestUnmount, LoopUnmount, LoopUnmounted, LoopUnmountFails
  <2> QED
    BY <2>1, <2>2, <2>3
<1>4. CASE RunNilFunc(p)
  BY <1>4 DEF RunNilFunc, Panic
<1>5. CASE DeleteImage(p)
  <2>1. image' \in BOOLEAN
    BY <1>5, Zenon DEF DeleteImage
  <2>2. /\ UNCHANGED <<driveVars, snapVars, device, autoclear, hostMount, lost>>
        /\ Goto(p, "delFinish") \/ Goto(p, "idle")
    BY <1>5 DEF DeleteImage
  <2> QED
    BY <2>1, <2>2
<1>6. CASE DeleteFinish(p) \/ IOBegin(p) \/ IODone(p)
  <2>1. CASE DeleteFinish(p)
    BY <2>1 DEF DeleteFinish
  <2>2. CASE IOBegin(p)
    BY <2>2 DEF IOBegin, LoadBegin, WriteBegin
  <2>3. CASE IODone(p)
    BY <2>3 DEF IODone
  <2> QED
    BY <1>6, <2>1, <2>2, <2>3
<1> QED
  BY <1>1, <1>2, <1>3, <1>4, <1>5, <1>6 DEF Continue, UnmountStep, DeleteStep

\* The first step of every operation keeps the invariant.
LEMMA StartIInv ==
    ASSUME IInv, NEW p \in Procs, Start(p)
    PROVE  IInv'
<1> TypeOK'
  BY TypeStart DEF IInv
<1> USE DEF IInv, TypeOK, Fields, Claimed, SingleUnmounter, QuietUnmount, FuncKnown,
            PanicOnlyAfterDelete, Unmounters, ioWG, Crashed, Goto, driveVars, snapVars, hostVars
<1>1. CASE MountDeleted(p)
  BY <1>1 DEF MountDeleted, Mountable, Panic
<1>2. CASE mountWithGuestMount(p) \/ mountWithLoopDevice(p)
  BY <1>2 DEF mountWithGuestMount, mountWithLoopDevice, Mountable, SetMounted
<1>3. CASE UnmountBegin(p, "unmount") \/ UnmountBegin(p, "delete")
  BY <1>3 DEF UnmountBegin
<1>4. CASE DeleteUnmounted(p) \/ IOValidate(p)
  BY <1>4 DEF DeleteUnmounted, IOValidate
<1> QED
  BY <1>1, <1>2, <1>3, <1>4 DEF Start, Mount

\* So do the further steps.
LEMMA ContinueIInv ==
    ASSUME IInv, NEW p \in Procs, Continue(p)
    PROVE  IInv'
<1> TypeOK'
  BY TypeContinue DEF IInv
<1> USE DEF IInv, TypeOK, Fields, Claimed, SingleUnmounter, QuietUnmount, FuncKnown,
            PanicOnlyAfterDelete, Unmounters, ioWG, Crashed, Goto, driveVars, snapVars, hostVars
<1>1. CASE UnmountWait(p)
  BY <1>1 DEF UnmountWait
<1>2. CASE UnmountSnapshot(p)
  BY <1>2 DEF UnmountSnapshot
<1>3. CASE RunUnmountFunc(p)
  BY <1>3 DEF RunUnmountFunc, GuestUnmount, LoopUnmount, LoopUnmounted, LoopUnmountFails
<1>4. CASE RunNilFunc(p)
  BY <1>4 DEF RunNilFunc, Panic
<1>5. CASE UnmountFailed(p)
  BY <1>5 DEF UnmountFailed
<1>6. CASE RemoveMountPoint(p)
  BY <1>6 DEF RemoveMountPoint
<1>7. CASE UnmountFinish(p)
  BY <1>7 DEF UnmountFinish
<1>8. CASE DeleteSnapshot(p)
  BY <1>8 DEF DeleteSnapshot
<1>9. CASE DeleteImage(p)
  BY <1>9 DEF DeleteImage
<1>10. CASE DeleteFinish(p)
  BY <1>10 DEF DeleteFinish
<1>11. CASE IOBegin(p)
  BY <1>11 DEF IOBegin, LoadBegin, WriteBegin
<1>12. CASE IODone(p)
  BY <1>12 DEF IODone
<1> QED
  BY <1>1, <1>2, <1>3, <1>4, <1>5, <1>6, <1>7, <1>8, <1>9, <1>10, <1>11, <1>12
     DEF Continue, UnmountStep, DeleteStep

\* The invariant is inductive.
LEMMA NextIInv == IInv /\ [Next]_vars => IInv'
<1> SUFFICES ASSUME IInv, [Next]_vars PROVE IInv'
  OBVIOUS
<1>1. CASE UNCHANGED vars
  BY <1>1 DEF vars, IInv, TypeOK, Fields, Claimed, SingleUnmounter, QuietUnmount, FuncKnown,
              PanicOnlyAfterDelete, Unmounters, ioWG, Crashed
<1> QED
  BY <1>1, StartIInv, ContinueIInv DEF Next

-----------------------------------------------------------------------------
(* What failing host commands can and cannot do.                           *)

\* The image is mounted whenever the drive says so, until unmountFunc has taken it
\* away, be it with an error.
OnImage ==
    /\ mounted /\ ~unMounting => hostMount \/ lost
    /\ \A p \in Procs : pc[p] \in {"wait", "snapshot", "run", "failed", "io"} => hostMount \/ lost

\* Only losetup -d can spoil an umount that works: by failing, or, after an umount
\* that did not work, by having armed the kernel to detach the loop device.
LostWhy ==
    /\ autoclear => method = "loop" /\ CanFail("umount")
    /\ lost => CanFail("detach") \/ (method = "loop" /\ CanFail("umount"))

\* No step takes the image from under a mounted drive but an unmountFunc whose
\* error leaves the drive mounted in name.
LEMMA OnImageStep ==
    ASSUME IInv, OnImage, [Next]_vars
    PROVE  OnImage'
<1> USE DEF IInv, TypeOK, OnImage, SingleUnmounter, QuietUnmount, Unmounters, ioWG, Goto,
            driveVars, snapVars, hostVars
<1>1. ASSUME NEW p \in Procs, Start(p) PROVE OnImage'
  <2>1. CASE MountDeleted(p) \/ mountWithGuestMount(p) \/ mountWithLoopDevice(p)
    BY <2>1 DEF MountDeleted, Mountable, Panic, mountWithGuestMount, mountWithLoopDevice, SetMounted
  <2>2. CASE UnmountBegin(p, "unmount") \/ UnmountBegin(p, "delete")
    BY <2>2 DEF UnmountBegin
  <2>3. CASE DeleteUnmounted(p) \/ IOValidate(p)
    BY <2>3 DEF DeleteUnmounted, IOValidate
  <2> QED
    BY <1>1, <2>1, <2>2, <2>3 DEF Start, Mount
<1>2. ASSUME NEW p \in Procs, Continue(p) PROVE OnImage'
  <2>1. CASE UnmountWait(p) \/ UnmountSnapshot(p) \/ UnmountFailed(p)
    BY <2>1 DEF UnmountWait, UnmountSnapshot, UnmountFailed
  <2>2. CASE RunUnmountFunc(p)
    <3>1. (hostMount \/ lost) /\ \A q \in Procs \ {p} : pc[q] \notin {"wait", "snapshot", "run", "failed", "io"}
      BY <2>2 DEF RunUnmountFunc
    <3>2. params => unMounting
      BY <2>2 DEF RunUnmountFunc, Claimed
    <3>3. mounted => unMounting
      BY <3>2 DEF Fields
    <3>4. pc'[p] = "rmdir" \/ hostMount' \/ lost'
      BY <2>2, <3>1 DEF RunUnmountFunc, GuestUnmount, LoopUnmount, LoopUnmounted, LoopUnmountFails
    <3>5. \A q \in Procs \ {p} : pc'[q] = pc[q]
      BY <2>2 DEF RunUnmountFunc, GuestUnmount, LoopUnmount, LoopUnmounted, LoopUnmountFails
    <3> QED
      BY <2>2, <3>1, <3>3, <3>4, <3>5 DEF RunUnmountFunc
  <2>3. CASE RunNilFunc(p)
    BY <2>3 DEF RunNilFunc, Panic
  <2>4. CASE RemoveMountPoint(p) \/ UnmountFinish(p)
    BY <2>4 DEF RemoveMountPoint, UnmountFinish
  <2>5. CASE DeleteSnapshot(p) \/ DeleteImage(p) \/ DeleteFinish(p)
    BY <2>5 DEF DeleteSnapshot, DeleteImage, DeleteFinish
  <2>6. CASE IOBegin(p) \/ IODone(p)
    BY <2>6 DEF IOBegin, LoadBegin, WriteBegin, IODone
  <2> QED
    BY <1>2, <2>1, <2>2, <2>3, <2>4, <2>5, <2>6 DEF Continue, UnmountStep, DeleteStep
<1>3. CASE UNCHANGED vars
  BY <1>3 DEF vars
<1> QED
  BY <1>1, <1>2, <1>3 DEF Next

\* Nothing but unmountFunc loses the image.
LEMMA LostStep ==
    ASSUME IInv, LostWhy, [Next]_vars
    PROVE  LostWhy'
<1> USE DEF LostWhy, CanFail, driveVars, snapVars, hostVars
<1>1. ASSUME NEW p \in Procs, RunUnmountFunc(p) PROVE LostWhy'
  BY <1>1 DEF RunUnmountFunc, GuestUnmount, LoopUnmount, LoopUnmounted, LoopUnmountFails
<1>2. UNCHANGED <<method, autoclear, lost>> => LostWhy'
  OBVIOUS
<1>3. ASSUME NEW p \in Procs, Start(p) PROVE UNCHANGED <<method, autoclear, lost>>
  BY <1>3 DEF Start, Mount, MountDeleted, mountWithGuestMount, mountWithLoopDevice, SetMounted, Panic,
              UnmountBegin, DeleteUnmounted, IOValidate
<1>4. ASSUME NEW p \in Procs, Continue(p), ~RunUnmountFunc(p)
      PROVE  UNCHANGED <<method, autoclear, lost>>
  BY <1>4 DEF Continue, UnmountStep, UnmountWait, UnmountSnapshot, RunNilFunc, Panic, UnmountFailed,
              RemoveMountPoint, UnmountFinish, DeleteStep, DeleteSnapshot, DeleteImage, DeleteFinish,
              IOBegin, LoadBegin, WriteBegin, IODone
<1>5. CASE UNCHANGED vars
  BY <1>5 DEF vars
<1> QED
  BY <1>1, <1>2, <1>3, <1>4, <1>5 DEF Next

\* The flag is taken down by whoever leaves Unmount, if the mount point can be removed.
LEMMA TemporaryStep ==
    ASSUME IInv, UnmountingIsTemporary, "rmdir" \notin Failures, [Next]_vars
    PROVE  UnmountingIsTemporary'
<1> USE DEF IInv, TypeOK, UnmountingIsTemporary, SingleUnmounter, Unmounters, Goto, driveVars, snapVars,
            hostVars
<1>1. ASSUME NEW p \in Procs, Start(p) PROVE UnmountingIsTemporary'
  <2>1. CASE MountDeleted(p) \/ mountWithGuestMount(p) \/ mountWithLoopDevice(p)
    BY <2>1 DEF MountDeleted, Mountable, Panic, mountWithGuestMount, mountWithLoopDevice, SetMounted
  <2>2. CASE UnmountBegin(p, "unmount") \/ UnmountBegin(p, "delete")
    BY <2>2 DEF UnmountBegin
  <2>3. CASE DeleteUnmounted(p) \/ IOValidate(p)
    BY <2>3 DEF DeleteUnmounted, IOValidate
  <2> QED
    BY <1>1, <2>1, <2>2, <2>3 DEF Start, Mount
<1>2. ASSUME NEW p \in Procs, Continue(p) PROVE UnmountingIsTemporary'
  <2>1. CASE UnmountWait(p) \/ UnmountSnapshot(p) \/ UnmountFailed(p)
    BY <2>1 DEF UnmountWait, UnmountSnapshot, UnmountFailed
  <2>2. CASE RunUnmountFunc(p)
    BY <2>2 DEF RunUnmountFunc, GuestUnmount, LoopUnmount, LoopUnmounted, LoopUnmountFails
  <2>3. CASE RunNilFunc(p)
    BY <2>3 DEF RunNilFunc, Panic, FuncKnown, Fields
  <2>4. CASE RemoveMountPoint(p) \/ UnmountFinish(p)
    BY <2>4 DEF RemoveMountPoint, UnmountFinish, CanFail
  <2>5. CASE DeleteSnapshot(p) \/ DeleteImage(p) \/ DeleteFinish(p)
    BY <2>5 DEF DeleteSnapshot, DeleteImage, DeleteFinish
  <2>6. CASE IOBegin(p) \/ IODone(p)
    BY <2>6 DEF IOBegin, LoadBegin, WriteBegin, IODone
  <2> QED
    BY <1>2, <2>1, <2>2, <2>3, <2>4, <2>5, <2>6 DEF Continue, UnmountStep, DeleteStep
<1>3. CASE UNCHANGED vars
  BY <1>3 DEF vars
<1> QED
  BY <1>1, <1>2, <1>3 DEF Next

-----------------------------------------------------------------------------
(* BaseDrive implements Drive.                                             *)

\* A step that leaves the life cycle and the users of the drive alone stutters.
Stutters == UNCHANGED <<LifeCycle, ioWG>>

\* The first step of an operation is a step of the abstract drive, or none of its
\* business.
LEMMA StartImplements ==
    ASSUME IInv, NEW p \in Procs, Start(p)
    PROVE  Abstract!Next \/ Stutters
<1> USE DEF IInv, TypeOK, Fields, LifeCycle, ioWG, Goto, driveVars, snapVars, hostVars
<1>1. CASE MountDeleted(p)
  <2>1. Abstract!Panic
    BY <1>1 DEF MountDeleted, Panic, Abstract!Panic
  <2> QED
    BY <2>1 DEF Abstract!Next
<1>2. CASE mountWithGuestMount(p) \/ mountWithLoopDevice(p)
  <2>1. Abstract!Mount \/ Stutters
    BY <1>2 DEF mountWithGuestMount, mountWithLoopDevice, Mountable, SetMounted, Abstract!Mount,
                Stutters
  <2> QED
    BY <2>1 DEF Abstract!Next
<1>3. CASE UnmountBegin(p, "unmount") \/ UnmountBegin(p, "delete")
  <2>1. Abstract!BeginUnmount
    BY <1>3 DEF UnmountBegin, Abstract!BeginUnmount
  <2> QED
    BY <2>1 DEF Abstract!Next
<1>4. CASE DeleteUnmounted(p) \/ IOValidate(p)
  BY <1>4 DEF DeleteUnmounted, IOValidate, Stutters
<1> QED
  BY <1>1, <1>2, <1>3, <1>4 DEF Start, Mount

\* So are the further steps.
LEMMA ContinueImplements ==
    ASSUME IInv, NEW p \in Procs, Continue(p)
    PROVE  Abstract!Next \/ Stutters
<1> USE DEF IInv, TypeOK, Fields, LifeCycle, ioWG, Goto, driveVars, snapVars, hostVars
<1>1. CASE UnmountWait(p) \/ UnmountSnapshot(p) \/ RemoveMountPoint(p)
  BY <1>1 DEF UnmountWait, UnmountSnapshot, RemoveMountPoint, Stutters
<1>2. CASE RunUnmountFunc(p)
  BY <1>2 DEF RunUnmountFunc, GuestUnmount, LoopUnmount, LoopUnmounted, LoopUnmountFails, Stutters
<1>3. CASE RunNilFunc(p)
  <2>1. Abstract!Panic
    BY <1>3 DEF RunNilFunc, Panic, FuncKnown, Abstract!Panic
  <2> QED
    BY <2>1 DEF Abstract!Next
<1>4. CASE UnmountFailed(p)
  <2>1. ioWG = {} /\ (params => unMounting /\ mounted)
    BY <1>4 DEF UnmountFailed, QuietUnmount, Claimed, Unmounters
  <2>2. Abstract!AbortUnmount \/ Stutters
    BY <1>4, <2>1 DEF UnmountFailed, Abstract!AbortUnmount, Stutters
  <2> QED
    BY <2>2 DEF Abstract!Next
<1>5. CASE UnmountFinish(p)
  <2>1. ioWG = {} /\ (params => unMounting /\ mounted)
    BY <1>5 DEF UnmountFinish, QuietUnmount, Claimed, Unmounters
  <2>2. Abstract!EndUnmount \/ Stutters
    BY <1>5, <2>1 DEF UnmountFinish, Abstract!EndUnmount, Stutters
  <2> QED
    BY <2>2 DEF Abstract!Next
<1>6. CASE DeleteSnapshot(p) \/ DeleteImage(p)
  BY <1>6 DEF DeleteSnapshot, DeleteImage, Stutters
<1>7. CASE DeleteFinish(p)
  <2>1. Abstract!Delete \/ Stutters
    BY <1>7 DEF DeleteFinish, Abstract!Delete, Stutters
  <2> QED
    BY <2>1 DEF Abstract!Next
<1>8. CASE IOBegin(p)
  <2>1. Abstract!BeginIO(p) \/ Stutters
    BY <1>8 DEF IOBegin, LoadBegin, WriteBegin, Abstract!BeginIO, Stutters
  <2> QED
    BY <2>1 DEF Abstract!Next
<1>9. CASE IODone(p)
  <2>1. Abstract!EndIO(p)
    BY <1>9 DEF IODone, Abstract!EndIO
  <2> QED
    BY <2>1 DEF Abstract!Next
<1> QED
  BY <1>1, <1>2, <1>3, <1>4, <1>5, <1>6, <1>7, <1>8, <1>9
     DEF Continue, UnmountStep, DeleteStep

-----------------------------------------------------------------------------
(* The theorems.                                                           *)

\* Every reachable state of a drive satisfies the inductive invariant, whatever
\* fails and however many goroutines use the drive.
THEOREM Invariance == Spec => []IInv
BY InitIInv, NextIInv, PTL DEF Spec

\* A mounted drive always has its options and its unmountFunc.
THEOREM MountedComplete == Spec => []MountedIsComplete
<1>1. IInv => MountedIsComplete
  BY DEF IInv, Fields, MountedIsComplete
<1> QED
  BY <1>1, Invariance, PTL

\* Unmount runs unmountFunc only when no read or write is in progress, and none
\* begins before it is done.
THEOREM NoIODuringUnmount == Spec => []QuietUnmount
<1>1. IInv => QuietUnmount
  BY DEF IInv
<1> QED
  BY <1>1, Invariance, PTL

\* At most one goroutine is inside Unmount.
THEOREM OneUnmounter == Spec => []SingleUnmounter
<1>1. IInv => SingleUnmounter
  BY DEF IInv
<1> QED
  BY <1>1, Invariance, PTL

\* Nil pointers are met only by calls that overlap or follow a Delete.
THEOREM PanicNeedsDelete == Spec => []PanicOnlyAfterDelete
<1>1. IInv => PanicOnlyAfterDelete
  BY DEF IInv
<1> QED
  BY <1>1, Invariance, PTL

\* Every read and write works on the mounted image, unless an Unmount has taken it
\* away and reported an error.
THEOREM IOReachesImage == Spec => []IOOnMountedImage
<1>1. Init => OnImage
  BY DEF Init, OnImage
<1>2. IInv /\ OnImage /\ [Next]_vars => OnImage'
  BY OnImageStep
<1>3. OnImage => IOOnMountedImage
  BY DEF OnImage, IOOnMountedImage, ioWG
<1> QED
  BY <1>1, <1>2, <1>3, Invariance, PTL DEF Spec

\* A drive loses its image in this way only if losetup -d fails, or on a loop device
\* if umount does: then one failed Unmount is enough for a later one to succeed in
\* fact and fail in name, because its losetup -d finds the device detached.
THEOREM LostNeedsFailure ==
    Spec => [](lost => "detach" \in Failures \/ (method = "loop" /\ "umount" \in Failures))
<1>1. Init => LostWhy
  BY DEF Init, LostWhy
<1>2. IInv /\ LostWhy /\ [Next]_vars => LostWhy'
  BY LostStep
<1>3. LostWhy => (lost => "detach" \in Failures \/ (method = "loop" /\ "umount" \in Failures))
  BY DEF LostWhy, CanFail
<1> QED
  BY <1>1, <1>2, <1>3, Invariance, PTL DEF Spec

\* If the mount point can always be removed, the unmounting flag is down
\* whenever nobody unmounts.
THEOREM UnmountingEnds ==
    ASSUME "rmdir" \notin Failures
    PROVE  Spec => []UnmountingIsTemporary
<1>1. Init => UnmountingIsTemporary
  BY DEF Init, UnmountingIsTemporary
<1>2. IInv /\ UnmountingIsTemporary /\ [Next]_vars => UnmountingIsTemporary'
  BY TemporaryStep
<1> QED
  BY <1>1, <1>2, Invariance, PTL DEF Spec

\* Every behaviour of a BaseDrive, with any number of goroutines and any failures,
\* is one of the abstract drive.
THEOREM DriveImplemented == Spec => ImplementsDrive
<1>1. Init => Abstract!Init
  BY DEF Init, LifeCycle, ioWG, Abstract!Init
<1>2. IInv /\ [Next]_vars => [Abstract!Next]_(Abstract!driveVars)
  <2> SUFFICES ASSUME IInv, [Next]_vars
               PROVE  Abstract!Next \/ Stutters
    BY DEF Stutters, Abstract!driveVars
  <2>1. CASE UNCHANGED vars
    BY <2>1 DEF vars, Stutters, LifeCycle, ioWG
  <2> QED
    BY <2>1, StartImplements, ContinueImplements DEF Next
<1> QED
  BY <1>1, <1>2, Invariance, PTL DEF Spec, ImplementsDrive, Abstract!Spec
=============================================================================
