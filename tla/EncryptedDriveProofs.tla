------------------------- MODULE EncryptedDriveProofs -------------------------
(***************************************************************************)
(* Proofs about EncryptedDrive for any number of goroutines, every choice  *)
(* of cryptsetup, mkfs and mount commands that fail, and both kinds of     *)
(* key.  The relations between the fields of a drive are those of module   *)
(* BaseDriveProofs; the new part is what the goroutine that holds d.lock   *)
(* inside Mount may rely on.                                               *)
(***************************************************************************)
EXTENDS EncryptedDrive, BaseDriveProofs

EncTypeOK ==
    /\ method = "luks"
    /\ params \in BOOLEAN /\ mounted \in BOOLEAN
    /\ unmountFunc \in BOOLEAN /\ unMounting \in BOOLEAN
    /\ pc \in [Procs -> PCs \cup MountPCs]
    /\ op \in [Procs -> {"unmount", "delete"}]
    /\ hasFunc \in [Procs -> BOOLEAN]
    /\ isEphemeral \in [Procs -> BOOLEAN]
    /\ image \in BOOLEAN /\ device \in BOOLEAN /\ hostMount \in BOOLEAN /\ lost \in BOOLEAN
    /\ autoclear = FALSE
    /\ key \in {"reusable", "oneShot", "consumed", "nil"}
    /\ luks \in {"blank", "container", "ext4"}

\* d.lock is held by one Mount at a time, ...
LockHolder == \A p, q \in Procs : pc[p] \in MountPCs /\ pc[q] \in MountPCs => p = q

\* ... which works on a drive that has its options and that nobody has mounted or
\* begun to unmount meanwhile, ...
MountUndisturbed == \A p \in Procs : pc[p] \in MountPCs => params /\ ~mounted /\ ~unMounting

\* ... and formats only the blank file it has made itself.
FormatsBlank == \A p \in Procs : pc[p] = "format" => luks = "blank"

\* The inductive invariant.
EncIInv ==
    /\ EncTypeOK /\ Fields /\ Claimed /\ SingleUnmounter /\ QuietUnmount /\ FuncKnown
    /\ PanicOnlyAfterDelete /\ LockHolder /\ MountUndisturbed /\ FormatsBlank

\* A new drive is not mounted, and nobody holds its lock.
LEMMA EncInitIInv == EncInit => EncIInv
BY CryptAssumption DEF EncInit, EncIInv, EncTypeOK, Fields, Claimed, SingleUnmounter, QuietUnmount, FuncKnown,
       PanicOnlyAfterDelete, LockHolder, MountUndisturbed, FormatsBlank, Unmounters, ioWG, Crashed,
       PCs, MountPCs

\* The parts of EncNext by what they need: Mount, and the code shared with BaseDrive.
Shared(p) == EncUnmount(p) \/ EncIO(p) \/ EncDelete(p)

\* The steps of Mount keep the type.
LEMMA EncTypeMount ==
    ASSUME EncTypeOK, NEW p \in Procs, EncMount(p)
    PROVE  EncTypeOK'
<1> USE DEF EncTypeOK, Goto, Return, PCs, MountPCs, driveVars, snapVars, hostVars, cryptVars
<1>1. CASE MountBegin(p)
  BY <1>1 DEF MountBegin
<1>2. CASE MountNil(p)
  BY <1>2 DEF MountNil, MountDeleted, Panic
<1>3. CASE ensureExisting(p)
  BY <1>3 DEF ensureExisting
<1>4. CASE truncate(p)
  <2>1. pc' \in [Procs -> PCs \cup MountPCs]
    BY <1>4 DEF truncate
  <2>2. image' \in BOOLEAN /\ luks' \in {"blank", "container", "ext4"}
    BY <1>4 DEF truncate
  <2> QED
    BY <1>4, <2>1, <2>2 DEF truncate
<1>5. CASE luksFormat(p)
  BY <1>5 DEF luksFormat, WithReader
<1>6. ASSUME NEW here \in MountPCs, NEW next \in MountPCs, luksOpen(p, here, next)
      PROVE  EncTypeOK'
  <2>1. pc' \in [Procs -> PCs \cup MountPCs]
    BY <1>6 DEF luksOpen
  <2>2. device' \in BOOLEAN
    BY <1>6 DEF luksOpen
  <2>3. key' \in {"reusable", "oneShot", "consumed", "nil"}
    BY <1>6 DEF luksOpen, WithReader
  <2> QED
    BY <1>6, <2>1, <2>2, <2>3 DEF luksOpen
<1>7. CASE luksOpen(p, "formatOpen", "mkfs") \/ luksOpen(p, "luksOpen", "mount")
  BY <1>6, <1>7
<1>8. CASE mkfs(p)
  <2>1. device' \in BOOLEAN
    BY <1>8 DEF mkfs, CloseMapper
  <2>2. pc' \in [Procs -> PCs \cup MountPCs] /\ luks' \in {"blank", "container", "ext4"}
    BY <1>8 DEF mkfs
  <2> QED
    BY <1>8, <2>1, <2>2 DEF mkfs
<1>9. CASE mountMapper(p)
  <2>1. pc' \in [Procs -> PCs \cup MountPCs]
    BY <1>9 DEF mountMapper
  <2>2. device' \in BOOLEAN
    BY <1>9 DEF mountMapper, CloseMapper
  <2>3. mounted' \in BOOLEAN /\ unmountFunc' \in BOOLEAN /\ hostMount' \in BOOLEAN
        /\ UNCHANGED <<method, params, unMounting>>
    BY <1>9 DEF mountMapper, SetMounted
  <2> QED
    BY <1>9, <2>1, <2>2, <2>3 DEF mountMapper
<1> QED
  BY <1>1, <1>2, <1>3, <1>4, <1>5, <1>7, <1>8, <1>9 DEF EncMount

\* So does the code that is shared with BaseDrive.
LEMMA EncTypeShared ==
    ASSUME EncTypeOK, NEW p \in Procs, Shared(p)
    PROVE  EncTypeOK'
<1> USE DEF EncTypeOK, Goto, PCs, MountPCs, driveVars, snapVars, hostVars, cryptVars
<1>1. CASE EncUnmount(p)
  <2>1. CASE UnmountBegin(p, "unmount") \/ UnmountBegin(p, "delete")
    BY <1>1, <2>1 DEF EncUnmount, UnmountBegin
  <2>2. CASE UnmountWait(p)
    BY <1>1, <2>2 DEF EncUnmount, UnmountWait
  <2>3. CASE UnmountSnapshot(p)
    BY <1>1, <2>3 DEF EncUnmount, UnmountSnapshot
  <2>4. CASE RunUnmountFunc(p)
    <3>1. /\ UNCHANGED <<driveVars, snapVars, image, cryptVars>> /\ autoclear' = FALSE
          /\ Goto(p, "rmdir") \/ Goto(p, "failed")
      BY <1>1, <2>4 DEF EncUnmount, RunUnmountFunc, LoopUnmount, LoopUnmounted, LoopUnmountFails
    <3>2. device' \in BOOLEAN /\ hostMount' \in BOOLEAN /\ lost' \in BOOLEAN
      BY <2>4 DEF RunUnmountFunc, LoopUnmount, LoopUnmounted, LoopUnmountFails
    <3> QED
      BY <3>1, <3>2
  <2>5. CASE RunNilFunc(p)
    BY <1>1, <2>5 DEF EncUnmount, RunNilFunc, Panic
  <2>6. CASE UnmountFailed(p)
    BY <1>1, <2>6 DEF EncUnmount, UnmountFailed
  <2>7. CASE RemoveMountPoint(p)
    BY <1>1, <2>7 DEF EncUnmount, RemoveMountPoint
  <2>8. CASE UnmountFinish(p)
    BY <1>1, <2>8 DEF EncUnmount, UnmountFinish
  <2> QED
    BY <1>1, <2>1, <2>2, <2>3, <2>4, <2>5, <2>6, <2>7, <2>8 DEF EncUnmount
<1>2. CASE EncIO(p)
  BY <1>2 DEF EncIO, IOValidate, IOBegin, LoadBegin, WriteBegin, IODone
<1>3. CASE EncDelete(p)
  <2>1. CASE DeleteUnmounted(p) /\ UNCHANGED cryptVars
    BY <2>1 DEF DeleteUnmounted
  <2>2. CASE DeleteSnapshot(p) /\ UNCHANGED cryptVars
    BY <2>2 DEF DeleteSnapshot
  <2>3. CASE DeleteImage(p) /\ UNCHANGED cryptVars
    <3>1. image' \in BOOLEAN
      BY <2>3 DEF DeleteImage
    <3>2. pc' \in [Procs -> PCs \cup MountPCs]
      BY <2>3 DEF DeleteImage
    <3> QED
      BY <2>3, <3>1, <3>2 DEF DeleteImage
  <2>4. CASE DeleteFinish(p) /\ key' = "nil" /\ UNCHANGED luks
    BY <2>4 DEF DeleteFinish
  <2> QED
    BY <1>3, <2>1, <2>2, <2>3, <2>4 DEF EncDelete
<1> QED
  BY <1>1, <1>2, <1>3 DEF Shared

\* The steps of Mount keep the invariant.
LEMMA MountIInv ==
    ASSUME EncIInv, NEW p \in Procs, EncMount(p)
    PROVE  EncIInv'
<1> EncTypeOK'
  BY EncTypeMount DEF EncIInv
<1> USE DEF EncIInv, EncTypeOK, Fields, Claimed, SingleUnmounter, QuietUnmount, FuncKnown,
            PanicOnlyAfterDelete, LockHolder, MountUndisturbed, FormatsBlank, LockFree, MountPCs,
            Unmounters, ioWG, Crashed, Goto, Return, driveVars, snapVars, hostVars, cryptVars
<1>1. CASE MountBegin(p)
  BY <1>1 DEF MountBegin, Mountable
<1>2. CASE MountNil(p)
  BY <1>2 DEF MountNil, MountDeleted, Mountable, Panic
<1>3. CASE ensureExisting(p)
  BY <1>3 DEF ensureExisting
<1>4. CASE truncate(p)
  BY <1>4 DEF truncate
<1>5. CASE luksFormat(p)
  BY <1>5 DEF luksFormat, WithReader
<1>6. CASE luksOpen(p, "formatOpen", "mkfs") \/ luksOpen(p, "luksOpen", "mount")
  BY <1>6 DEF luksOpen, WithReader
<1>7. CASE mkfs(p)
  BY <1>7 DEF mkfs, CloseMapper
<1>8. CASE mountMapper(p)
  BY <1>8 DEF mountMapper, CloseMapper, SetMounted
<1> QED
  BY <1>1, <1>2, <1>3, <1>4, <1>5, <1>6, <1>7, <1>8 DEF EncMount

\* So does the code that is shared with BaseDrive, which runs beside a Mount.
LEMMA SharedIInv ==
    ASSUME EncIInv, NEW p \in Procs, Shared(p)
    PROVE  EncIInv'
<1> EncTypeOK'
  BY EncTypeShared DEF EncIInv
<1> USE DEF EncIInv, EncTypeOK, Fields, Claimed, SingleUnmounter, QuietUnmount, FuncKnown,
            PanicOnlyAfterDelete, LockHolder, MountUndisturbed, FormatsBlank, LockFree, MountPCs,
            Unmounters, ioWG, Crashed, Goto, driveVars, snapVars, hostVars, cryptVars
<1>1. CASE EncUnmount(p)
  <2> USE <1>1 DEF EncUnmount
  <2>1. CASE LockFree /\ (UnmountBegin(p, "unmount") \/ UnmountBegin(p, "delete"))
    BY <2>1 DEF UnmountBegin
  <2>2. CASE UnmountWait(p)
    BY <2>2 DEF UnmountWait
  <2>3. CASE UnmountSnapshot(p)
    BY <2>3 DEF UnmountSnapshot
  <2>4. CASE RunUnmountFunc(p)
    BY <2>4 DEF RunUnmountFunc, LoopUnmount, LoopUnmounted, LoopUnmountFails
  <2>5. CASE RunNilFunc(p)
    BY <2>5 DEF RunNilFunc, Panic
  <2>6. CASE LockFree /\ UnmountFailed(p)
    BY <2>6 DEF UnmountFailed
  <2>7. CASE RemoveMountPoint(p)
    BY <2>7 DEF RemoveMountPoint
  <2>8. CASE LockFree /\ UnmountFinish(p)
    BY <2>8 DEF UnmountFinish
  <2> QED
    BY <2>1, <2>2, <2>3, <2>4, <2>5, <2>6, <2>7, <2>8
<1>2. CASE EncIO(p)
  <2>1. CASE IOValidate(p)
    BY <1>2, <2>1 DEF EncIO, IOValidate
  <2>2. CASE IOBegin(p)
    BY <1>2, <2>2 DEF EncIO, IOBegin, LoadBegin, WriteBegin
  <2>3. CASE IODone(p)
    BY <1>2, <2>3 DEF EncIO, IODone
  <2> QED
    BY <1>2, <2>1, <2>2, <2>3 DEF EncIO
<1>3. CASE EncDelete(p)
  <2>1. CASE DeleteUnmounted(p) /\ UNCHANGED cryptVars
    BY <2>1 DEF DeleteUnmounted
  <2>2. CASE DeleteSnapshot(p) /\ UNCHANGED cryptVars
    BY <2>2 DEF DeleteSnapshot
  <2>3. CASE DeleteImage(p) /\ UNCHANGED cryptVars
    BY <2>3 DEF DeleteImage
  <2>4. CASE LockFree /\ DeleteFinish(p) /\ UNCHANGED luks
    BY <2>4 DEF DeleteFinish
  <2> QED
    BY <1>3, <2>1, <2>2, <2>3, <2>4 DEF EncDelete
<1> QED
  BY <1>1, <1>2, <1>3 DEF Shared

\* Every step keeps the invariant.
LEMMA EncNextIInv == EncIInv /\ [EncNext]_encVars => EncIInv'
<1> SUFFICES ASSUME EncIInv, [EncNext]_encVars PROVE EncIInv'
  OBVIOUS
<1>1. CASE UNCHANGED encVars
  BY <1>1 DEF encVars, vars, cryptVars, EncIInv, EncTypeOK, Fields, Claimed, SingleUnmounter,
              QuietUnmount, FuncKnown, PanicOnlyAfterDelete, LockHolder, MountUndisturbed,
              FormatsBlank, Unmounters, ioWG, Crashed
<1>2. ASSUME NEW p \in Procs, EncMount(p) \/ Shared(p) PROVE EncIInv'
  BY <1>2, MountIInv, SharedIInv
<1> QED
  BY <1>1, <1>2 DEF EncNext, Shared

-----------------------------------------------------------------------------
(* What failing commands can and cannot do to the host.                    *)

\* Whoever fails after luksOpen closes the mapper.
LEMMA MapperStep ==
    ASSUME EncIInv, MapperClosed, "detach" \notin Failures, [EncNext]_encVars
    PROVE  MapperClosed'
<1> USE DEF EncIInv, EncTypeOK, MapperClosed, MountPCs, Goto, Return, driveVars, snapVars, hostVars,
            cryptVars
<1>1. ASSUME NEW p \in Procs, EncMount(p) PROVE MapperClosed'
  <2>1. CASE MountBegin(p) \/ ensureExisting(p) \/ truncate(p) \/ luksFormat(p)
    BY <2>1 DEF MountBegin, ensureExisting, truncate, luksFormat
  <2>2. CASE MountNil(p)
    BY <2>2 DEF MountNil, MountDeleted, Panic, LockFree
  <2>3. CASE luksOpen(p, "formatOpen", "mkfs") \/ luksOpen(p, "luksOpen", "mount")
    BY <2>3 DEF luksOpen
  <2>4. CASE mkfs(p)
    BY <2>4 DEF mkfs, CloseMapper, CanFail
  <2>5. CASE mountMapper(p)
    BY <2>5 DEF mountMapper, CloseMapper, CanFail
  <2> QED
    BY <1>1, <2>1, <2>2, <2>3, <2>4, <2>5 DEF EncMount
<1>2. ASSUME NEW p \in Procs, Shared(p) PROVE MapperClosed'
  <2>1. CASE EncUnmount(p)
    <3> USE <2>1 DEF EncUnmount
    <3>1. CASE RunUnmountFunc(p)
      BY <3>1 DEF RunUnmountFunc, LoopUnmount, LoopUnmounted, LoopUnmountFails, CanFail
    <3>2. CASE RunNilFunc(p)
      BY <3>2 DEF RunNilFunc, Panic, FuncKnown, MountUndisturbed
    <3>3. CASE UnmountBegin(p, "unmount") \/ UnmountBegin(p, "delete") \/ UnmountWait(p)
               \/ UnmountSnapshot(p)
      BY <3>3 DEF UnmountBegin, UnmountWait, UnmountSnapshot
    <3>4. CASE UnmountFailed(p) \/ RemoveMountPoint(p) \/ UnmountFinish(p)
      BY <3>4 DEF UnmountFailed, RemoveMountPoint, UnmountFinish
    <3> QED
      BY <3>1, <3>2, <3>3, <3>4
  <2>2. CASE EncIO(p)
    BY <2>2 DEF EncIO, IOValidate, IOBegin, LoadBegin, WriteBegin, IODone
  <2>3. CASE EncDelete(p)
    BY <2>3 DEF EncDelete, DeleteUnmounted, DeleteSnapshot, DeleteImage, DeleteFinish
  <2> QED
    BY <1>2, <2>1, <2>2, <2>3 DEF Shared
<1>3. CASE UNCHANGED encVars
  BY <1>3 DEF encVars, vars
<1> QED
  BY <1>1, <1>2, <1>3 DEF EncNext, Shared

\* What is admitted to a mounted drive finds its file system mounted, unless an
\* Unmount has taken it away and reported an error.
LEMMA EncOnImageStep ==
    ASSUME EncIInv, OnImage, [EncNext]_encVars
    PROVE  OnImage'
<1> USE DEF EncIInv, EncTypeOK, OnImage, SingleUnmounter, QuietUnmount, MountPCs, Unmounters, ioWG,
            Goto, Return, driveVars, snapVars, hostVars, cryptVars
<1>1. ASSUME NEW p \in Procs, EncMount(p) PROVE OnImage'
  <2>1. CASE MountBegin(p) \/ ensureExisting(p) \/ truncate(p) \/ luksFormat(p)
    BY <2>1 DEF MountBegin, ensureExisting, truncate, luksFormat
  <2>2. CASE MountNil(p)
    BY <2>2 DEF MountNil, MountDeleted, Panic
  <2>3. CASE luksOpen(p, "formatOpen", "mkfs") \/ luksOpen(p, "luksOpen", "mount")
    BY <2>3 DEF luksOpen
  <2>4. CASE mkfs(p)
    BY <2>4 DEF mkfs
  <2>5. CASE mountMapper(p)
    BY <2>5 DEF mountMapper, SetMounted
  <2> QED
    BY <1>1, <2>1, <2>2, <2>3, <2>4, <2>5 DEF EncMount
<1>2. ASSUME NEW p \in Procs, Shared(p) PROVE OnImage'
  <2>1. CASE EncUnmount(p)
    <3> USE <2>1 DEF EncUnmount
    <3>1. CASE RunUnmountFunc(p)
      <4>1. (hostMount \/ lost) /\ \A q \in Procs \ {p} :
                           pc[q] \notin {"wait", "snapshot", "run", "failed", "io"}
        BY <3>1 DEF RunUnmountFunc
      <4>2. mounted => unMounting
        BY <3>1 DEF RunUnmountFunc, Claimed, Fields
      <4>3. pc'[p] = "rmdir" \/ hostMount' \/ lost'
        BY <3>1, <4>1 DEF RunUnmountFunc, LoopUnmount, LoopUnmounted, LoopUnmountFails
      <4>4. \A q \in Procs \ {p} : pc'[q] = pc[q]
        BY <3>1 DEF RunUnmountFunc, LoopUnmount, LoopUnmounted, LoopUnmountFails
      <4> QED
        BY <3>1, <4>1, <4>2, <4>3, <4>4 DEF RunUnmountFunc
    <3>2. CASE RunNilFunc(p)
      BY <3>2 DEF RunNilFunc, Panic
    <3>3. CASE UnmountBegin(p, "unmount") \/ UnmountBegin(p, "delete")
      BY <3>3 DEF UnmountBegin
    <3>4. CASE UnmountWait(p) \/ UnmountSnapshot(p) \/ UnmountFailed(p)
      BY <3>4 DEF UnmountWait, UnmountSnapshot, UnmountFailed
    <3>5. CASE RemoveMountPoint(p) \/ UnmountFinish(p)
      BY <3>5 DEF RemoveMountPoint, UnmountFinish
    <3> QED
      BY <3>1, <3>2, <3>3, <3>4, <3>5
  <2>2. CASE EncIO(p)
    BY <2>2 DEF EncIO, IOValidate, IOBegin, LoadBegin, WriteBegin, IODone
  <2>3. CASE EncDelete(p)
    BY <2>3 DEF EncDelete, DeleteUnmounted, DeleteSnapshot, DeleteImage, DeleteFinish
  <2> QED
    BY <1>2, <2>1, <2>2, <2>3 DEF Shared
<1>3. CASE UNCHANGED encVars
  BY <1>3 DEF encVars, vars
<1> QED
  BY <1>1, <1>2, <1>3 DEF EncNext, Shared

\* Only luksClose can spoil an umount that works.
EncLostWhy == lost => "detach" \in Failures

LEMMA EncLostStep ==
    ASSUME EncIInv, EncLostWhy, [EncNext]_encVars
    PROVE  EncLostWhy'
<1> USE DEF EncLostWhy, driveVars, snapVars, hostVars
<1>1. UNCHANGED lost => EncLostWhy'
  OBVIOUS
<1>2. ASSUME NEW p \in Procs, EncMount(p) PROVE UNCHANGED lost
  BY <1>2 DEF EncMount, MountBegin, MountNil, MountDeleted, Panic, ensureExisting, truncate, luksFormat,
              luksOpen, mkfs, mountMapper
<1>3. ASSUME NEW p \in Procs, RunUnmountFunc(p) PROVE EncLostWhy'
  BY <1>3 DEF RunUnmountFunc, LoopUnmount, LoopUnmounted, LoopUnmountFails, CanFail, EncIInv, EncTypeOK
<1>4. ASSUME NEW p \in Procs, EncUnmount(p), ~RunUnmountFunc(p) PROVE UNCHANGED lost
  BY <1>4 DEF EncUnmount, UnmountBegin, UnmountWait, UnmountSnapshot, RunNilFunc, Panic, UnmountFailed,
              RemoveMountPoint, UnmountFinish
<1>5. ASSUME NEW p \in Procs, EncIO(p) \/ EncDelete(p) PROVE UNCHANGED lost
  BY <1>5 DEF EncIO, IOValidate, IOBegin, LoadBegin, WriteBegin, IODone, EncDelete, DeleteUnmounted,
              DeleteSnapshot, DeleteImage, DeleteFinish
<1>6. CASE UNCHANGED encVars
  BY <1>6 DEF encVars, vars
<1> QED
  BY <1>1, <1>2, <1>3, <1>4, <1>5, <1>6 DEF EncNext

\* Only Mount writes to the image; it formats a blank file, and makes one only
\* where there is no image.
LEMMA DataStep ==
    ASSUME EncIInv, EncNext, image, image', luks = "ext4"
    PROVE  luks' = "ext4"
<1> USE DEF cryptVars
<1>1. ASSUME NEW p \in Procs, EncMount(p) PROVE luks' = "ext4"
  <2>1. CASE MountBegin(p) \/ MountNil(p) \/ ensureExisting(p)
    BY <2>1 DEF MountBegin, MountNil, ensureExisting
  <2>2. CASE truncate(p)
    BY <2>2 DEF truncate
  <2>3. CASE luksFormat(p)
    BY <2>3 DEF luksFormat, EncIInv, FormatsBlank
  <2>4. CASE luksOpen(p, "formatOpen", "mkfs") \/ luksOpen(p, "luksOpen", "mount")
    BY <2>4 DEF luksOpen
  <2>5. CASE mkfs(p) \/ mountMapper(p)
    BY <2>5 DEF mkfs, mountMapper
  <2> QED
    BY <1>1, <2>1, <2>2, <2>3, <2>4, <2>5 DEF EncMount
<1>2. ASSUME NEW p \in Procs, Shared(p) PROVE luks' = "ext4"
  BY <1>2 DEF Shared, EncUnmount, EncIO, EncDelete
<1> QED
  BY <1>1, <1>2 DEF EncNext, Shared

-----------------------------------------------------------------------------
(* EncryptedDrive implements Drive.                                        *)

\* Mount mounts the abstract drive with its last command, or meets a deleted one.
LEMMA MountImplements ==
    ASSUME EncIInv, NEW p \in Procs, EncMount(p)
    PROVE  Abstract!Next \/ Stutters
<1> USE DEF EncIInv, EncTypeOK, Fields, LifeCycle, ioWG, Goto, Return, MountPCs, driveVars, snapVars,
            hostVars, cryptVars
<1>1. CASE MountBegin(p) \/ ensureExisting(p) \/ truncate(p)
  BY <1>1 DEF MountBegin, ensureExisting, truncate, Stutters
<1>2. CASE MountNil(p)
  <2>1. Abstract!Panic
    BY <1>2 DEF MountNil, MountDeleted, Panic, Abstract!Panic
  <2> QED
    BY <2>1 DEF Abstract!Next
<1>3. CASE luksFormat(p)
  BY <1>3 DEF luksFormat, Stutters
<1>4. CASE luksOpen(p, "formatOpen", "mkfs") \/ luksOpen(p, "luksOpen", "mount")
  BY <1>4 DEF luksOpen, Stutters
<1>5. CASE mkfs(p)
  BY <1>5 DEF mkfs, Stutters
<1>6. CASE mountMapper(p)
  <2>1. params /\ ~mounted /\ ~unMounting
    BY <1>6 DEF mountMapper, MountUndisturbed
  <2>2. UNCHANGED ioWG
    BY <1>6 DEF mountMapper
  <2>3. SetMounted => Abstract!Mount
    BY <2>1, <2>2 DEF SetMounted, Abstract!Mount
  <2>4. UNCHANGED driveVars => Stutters
    BY <2>2 DEF Stutters
  <2> QED
    BY <1>6, <2>3, <2>4 DEF mountMapper, Abstract!Next
<1> QED
  BY <1>1, <1>2, <1>3, <1>4, <1>5, <1>6 DEF EncMount

\* Unmount, reads, writes and Delete are the steps of the abstract drive.
LEMMA SharedImplements ==
    ASSUME EncIInv, NEW p \in Procs, Shared(p)
    PROVE  Abstract!Next \/ Stutters
<1> USE DEF EncIInv, EncTypeOK, Fields, LifeCycle, ioWG, Goto, driveVars, snapVars, hostVars
<1>1. CASE UnmountBegin(p, "unmount") \/ UnmountBegin(p, "delete")
  <2>1. Abstract!BeginUnmount
    BY <1>1 DEF UnmountBegin, Abstract!BeginUnmount
  <2> QED
    BY <2>1 DEF Abstract!Next
<1>2. CASE UnmountWait(p) \/ UnmountSnapshot(p) \/ RemoveMountPoint(p)
  BY <1>2 DEF UnmountWait, UnmountSnapshot, RemoveMountPoint, Stutters
<1>3. CASE RunUnmountFunc(p)
  BY <1>3 DEF RunUnmountFunc, LoopUnmount, LoopUnmounted, LoopUnmountFails, Stutters
<1>4. CASE RunNilFunc(p)
  <2>1. Abstract!Panic
    BY <1>4 DEF RunNilFunc, Panic, FuncKnown, Abstract!Panic
  <2> QED
    BY <2>1 DEF Abstract!Next
<1>5. CASE UnmountFailed(p)
  <2>1. ioWG = {} /\ (params => unMounting /\ mounted)
    BY <1>5 DEF UnmountFailed, QuietUnmount, Claimed, Unmounters
  <2>2. Abstract!AbortUnmount \/ Stutters
    BY <1>5, <2>1 DEF UnmountFailed, Abstract!AbortUnmount, Stutters
  <2> QED
    BY <2>2 DEF Abstract!Next
<1>6. CASE UnmountFinish(p)
  <2>1. ioWG = {} /\ (params => unMounting /\ mounted)
    BY <1>6 DEF UnmountFinish, QuietUnmount, Claimed, Unmounters
  <2>2. Abstract!EndUnmount \/ Stutters
    BY <1>6, <2>1 DEF UnmountFinish, Abstract!EndUnmount, Stutters
  <2> QED
    BY <2>2 DEF Abstract!Next
<1>7. CASE DeleteUnmounted(p) \/ DeleteSnapshot(p) \/ DeleteImage(p) \/ IOValidate(p)
  BY <1>7 DEF DeleteUnmounted, DeleteSnapshot, DeleteImage, IOValidate, Stutters
<1>8. CASE DeleteFinish(p)
  <2>1. Abstract!Delete \/ Stutters
    BY <1>8 DEF DeleteFinish, Abstract!Delete, Stutters
  <2> QED
    BY <2>1 DEF Abstract!Next
<1>9. CASE IOBegin(p)
  <2>1. Abstract!BeginIO(p) \/ Stutters
    BY <1>9 DEF IOBegin, LoadBegin, WriteBegin, Abstract!BeginIO, Stutters
  <2> QED
    BY <2>1 DEF Abstract!Next
<1>10. CASE IODone(p)
  <2>1. Abstract!EndIO(p)
    BY <1>10 DEF IODone, Abstract!EndIO
  <2> QED
    BY <2>1 DEF Abstract!Next
<1> QED
  BY <1>1, <1>2, <1>3, <1>4, <1>5, <1>6, <1>7, <1>8, <1>9, <1>10
     DEF Shared, EncUnmount, EncIO, EncDelete

-----------------------------------------------------------------------------
(* The theorems.                                                           *)

\* Every reachable state of an encrypted drive satisfies the inductive invariant:
\* one Mount at a time holds d.lock, and although it runs up to six commands while
\* Unmount and Delete change the host without the lock, it finds the drive as it
\* left it.
THEOREM EncInvariance == EncSpec => []EncIInv
BY EncInitIInv, EncNextIInv, PTL DEF EncSpec

\* If luksClose works, no failed, cancelled or overtaken operation leaves the
\* decrypted device open without a mounted file system.
THEOREM MapperNeverLeaks ==
    ASSUME "detach" \notin Failures
    PROVE  EncSpec => []MapperClosed
<1>1. EncInit => MapperClosed
  BY DEF EncInit, MapperClosed
<1>2. EncIInv /\ MapperClosed /\ [EncNext]_encVars => MapperClosed'
  BY MapperStep
<1> QED
  BY <1>1, <1>2, EncInvariance, PTL DEF EncSpec

\* Failed mounts, consumed keys and interrupted creations never cost the data of
\* an encrypted drive whose image file exists.
THEOREM DataNeverReformatted == EncSpec => DataPreserved
<1>1. EncIInv /\ [EncNext]_encVars => [image /\ image' /\ luks = "ext4" => luks' = "ext4"]_encVars
  BY DataStep
<1> QED
  BY <1>1, EncInvariance, PTL DEF EncSpec, DataPreserved

\* Unmount of an encrypted drive runs unmountFunc only when no read or write is in
\* progress, and none begins before it is done.
THEOREM EncNoIODuringUnmount == EncSpec => []QuietUnmount
<1>1. EncIInv => QuietUnmount
  BY DEF EncIInv
<1> QED
  BY <1>1, EncInvariance, PTL

\* Every read and write of an encrypted drive works on the mounted image, unless
\* an Unmount has taken it away and reported an error; ...
THEOREM EncIOReachesImage == EncSpec => []IOOnMountedImage
<1>1. EncInit => OnImage
  BY DEF EncInit, OnImage
<1>2. EncIInv /\ OnImage /\ [EncNext]_encVars => OnImage'
  BY EncOnImageStep
<1>3. OnImage => IOOnMountedImage
  BY DEF OnImage, IOOnMountedImage, ioWG
<1> QED
  BY <1>1, <1>2, <1>3, EncInvariance, PTL DEF EncSpec

\* ... which it does only if luksClose fails on an unmounted file system: luksClose
\* of a mapper in use changes nothing, unlike losetup -d of a device in use.
THEOREM EncLostNeedsDetach == EncSpec => [](lost => "detach" \in Failures)
<1>1. EncInit => EncLostWhy
  BY DEF EncInit, EncLostWhy
<1>2. EncIInv /\ EncLostWhy /\ [EncNext]_encVars => EncLostWhy'
  BY EncLostStep
<1>3. EncLostWhy => (lost => "detach" \in Failures)
  BY DEF EncLostWhy
<1> QED
  BY <1>1, <1>2, <1>3, EncInvariance, PTL DEF EncSpec

\* Every behaviour of an EncryptedDrive, with any number of goroutines and any
\* failures, is one of the abstract drive.
THEOREM EncDriveImplemented == EncSpec => ImplementsDrive
<1>1. EncInit => Abstract!Init
  BY DEF EncInit, LifeCycle, ioWG, Abstract!Init
<1>2. EncIInv /\ [EncNext]_encVars => [Abstract!Next]_(Abstract!driveVars)
  <2> SUFFICES ASSUME EncIInv, [EncNext]_encVars
               PROVE  Abstract!Next \/ Stutters
    BY DEF Stutters, Abstract!driveVars
  <2>1. CASE UNCHANGED encVars
    BY <2>1 DEF encVars, vars, Stutters, LifeCycle, ioWG
  <2> QED
    BY <2>1, MountImplements, SharedImplements DEF EncNext, Shared
<1> QED
  BY <1>1, <1>2, EncInvariance, PTL DEF EncSpec, ImplementsDrive, Abstract!Spec
=============================================================================
