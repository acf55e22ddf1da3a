---------------------------- MODULE EncryptedDrive ----------------------------
(***************************************************************************)
(* EncryptedDrive (drive/encrypted_drive.go) and its Key (drive/key.go).   *)
(* Unmount, WriteToDrive, LoadFromDrive and Delete repeat the code of      *)
(* BaseDrive and are taken from its module, with the dm-crypt mapper as    *)
(* the device; Mount, which may have to create the image first, and the    *)
(* key are this module's own.                                              *)
(*                                                                         *)
(* Mount runs up to six host commands under d.lock.  Each is a step here,  *)
(* because the parts of Unmount and Delete that run without the lock can   *)
(* change the host between them.                                           *)
(***************************************************************************)
EXTENDS BaseDrive

CONSTANTS
    CryptFailures,  \* commands of Mount that may fail: subset of CryptCommands
    InitialImages,  \* whether the image exists at first
    InitialKeys     \* the kinds of key the caller may hand over

CryptCommands == {"truncate", "luksFormat", "luksOpen", "mkfs"}

ASSUME CryptAssumption ==
    /\ Methods = {"luks"}
    /\ CryptFailures \subseteq CryptCommands
    /\ InitialImages \subseteq BOOLEAN
    /\ InitialKeys \subseteq {"reusable", "oneShot"}

VARIABLES
    key,   \* d.key: "reusable", "oneShot", "consumed" (a used OneShotKey) or "nil"
    luks   \* host: what the image file holds: "blank", "container" or "ext4"

cryptVars == <<key, luks>>
encVars   == <<vars, cryptVars>>

\* A goroutine inside Mount holds d.lock.
MountPCs == {"ensure", "format", "formatOpen", "mkfs", "luksOpen", "mount"}
LockFree == \A p \in Procs : pc[p] \notin MountPCs

\* The image exists and holds a file system, or is to be created.
EncInit ==
    /\ method = "luks"
    /\ params = TRUE /\ mounted = FALSE /\ unmountFunc = FALSE /\ unMounting = FALSE
    /\ pc = [p \in Procs |-> "idle"]
    /\ op = [p \in Procs |-> "unmount"]
    /\ hasFunc = [p \in Procs |-> FALSE]
    /\ isEphemeral = [p \in Procs |-> FALSE]
    /\ image \in InitialImages /\ device = FALSE /\ autoclear = FALSE /\ hostMount = FALSE
    /\ lost = FALSE
    /\ key \in InitialKeys
    /\ luks = "ext4"
-----------------------------------------------------------------------------
(* Mount.                                                                  *)

\* WithReader hands the key out; a OneShotKey is consumed by it, whatever
\* cryptsetup then does.
WithReader == key' = IF key = "oneShot" THEN "consumed" ELSE key

MayFail(c)  == c \in CryptFailures
Return(p)   == Goto(p, "idle")

\* runCryptsetupWithKey succeeds only with a key and an image.
KeyWorks == key \in {"reusable", "oneShot"} /\ image

MountBegin(p) ==
    /\ pc[p] = "idle" /\ LockFree /\ Mountable /\ params
    /\ Goto(p, "ensure")
    /\ UNCHANGED <<driveVars, snapVars, hostVars, cryptVars>>

\* After Delete there are no params to read.
MountNil(p) ==
    /\ LockFree
    /\ MountDeleted(p)
    /\ UNCHANGED cryptVars

\* cryptsetup isLuks accepts the existing image, or Mount fails.
ensureExisting(p) ==
    /\ pc[p] = "ensure" /\ image
    /\ Goto(p, IF luks = "blank" THEN "idle" ELSE "luksOpen")
    /\ UNCHANGED <<driveVars, snapVars, hostVars, cryptVars>>

\* Faulty variant: the image is created whether or not there is one.
truncateAlways(p) ==
    /\ pc[p] = "ensure"
    /\ \/ image' = TRUE /\ luks' = "blank" /\ Goto(p, "format")
       \/ MayFail("truncate") /\ Return(p) /\ UNCHANGED <<image, luks>>
    /\ UNCHANGED <<driveVars, snapVars, device, autoclear, hostMount, lost, key>>

truncate(p) ==
    /\ pc[p] = "ensure" /\ ~image
    /\ \/ image' = TRUE /\ luks' = "blank" /\ Goto(p, "format")
       \/ MayFail("truncate") /\ Return(p) /\ UNCHANGED <<image, luks>>
    /\ UNCHANGED <<driveVars, snapVars, device, autoclear, hostMount, lost, key>>

luksFormat(p) ==
    /\ pc[p] = "format"
    /\ WithReader
    /\ \/ KeyWorks /\ luks' = "container" /\ Goto(p, "formatOpen")
       \/ (~KeyWorks \/ MayFail("luksFormat")) /\ Return(p) /\ UNCHANGED luks
    /\ UNCHANGED <<driveVars, snapVars, hostVars>>

\* luksOpen of the new container, to make a file system in it, and of any
\* container, to mount it.  It fails if the mapper exists already.
luksOpen(p, here, next) ==
    /\ pc[p] = here
    /\ WithReader
    /\ \/ KeyWorks /\ ~device /\ device' = TRUE /\ Goto(p, next)
       \/ (~KeyWorks \/ device \/ MayFail("luksOpen")) /\ Return(p) /\ UNCHANGED device
    /\ UNCHANGED <<driveVars, snapVars, image, autoclear, hostMount, lost, luks>>

\* luksClose whose result nobody looks at.
CloseMapper == device' = FALSE \/ (CanFail("detach") /\ UNCHANGED device)

\* mkfs.ext4; the deferred luksClose follows, success or not.
mkfs(p) ==
    /\ pc[p] = "mkfs"
    /\ \/ luks' = "ext4" /\ Goto(p, "luksOpen")
       \/ MayFail("mkfs") /\ Return(p) /\ UNCHANGED luks
    /\ CloseMapper
    /\ UNCHANGED <<driveVars, snapVars, image, autoclear, hostMount, lost, key>>

\* Faulty variant: a failed mount leaves the mapper open.
mountMapperLeaks(p) ==
    /\ pc[p] = "mount"
    /\ Return(p)
    /\ \/ luks = "ext4" /\ SetMounted /\ hostMount' = TRUE /\ UNCHANGED device
       \/ /\ luks # "ext4" \/ CanFail("mount")
          /\ UNCHANGED <<driveVars, hostMount, device>>
    /\ UNCHANGED <<snapVars, image, autoclear, lost, cryptVars>>

\* mount of the mapper; when it fails the mapper is closed again.
mountMapper(p) ==
    /\ pc[p] = "mount"
    /\ Return(p)
    /\ \/ luks = "ext4" /\ SetMounted /\ hostMount' = TRUE /\ UNCHANGED device
       \/ /\ luks # "ext4" \/ CanFail("mount")
          /\ CloseMapper /\ UNCHANGED <<driveVars, hostMount>>
    /\ UNCHANGED <<snapVars, image, autoclear, lost, cryptVars>>

EncMount(p) ==
    \/ MountBegin(p) \/ MountNil(p) \/ ensureExisting(p) \/ truncate(p) \/ luksFormat(p)
    \/ luksOpen(p, "formatOpen", "mkfs") \/ mkfs(p)
    \/ luksOpen(p, "luksOpen", "mount") \/ mountMapper(p)
-----------------------------------------------------------------------------
(* The code shared with BaseDrive: what needs d.lock, and what does not.   *)

EncUnmount(p) ==
    /\ \/ LockFree /\ \/ UnmountBegin(p, "unmount") \/ UnmountBegin(p, "delete")
                      \/ UnmountSnapshot(p) \/ UnmountFailed(p) \/ UnmountFinish(p)
       \/ UnmountWait(p) \/ RunUnmountFunc(p) \/ RunNilFunc(p) \/ RemoveMountPoint(p)
    /\ UNCHANGED cryptVars

EncIO(p) ==
    /\ \/ LockFree /\ (IOValidate(p) \/ IOBegin(p))
       \/ IODone(p)
    /\ UNCHANGED cryptVars

EncDelete(p) ==
    \/ LockFree /\ (DeleteUnmounted(p) \/ DeleteSnapshot(p)) /\ UNCHANGED cryptVars
    \/ DeleteImage(p) /\ UNCHANGED cryptVars
    \/ LockFree /\ DeleteFinish(p) /\ key' = "nil" /\ UNCHANGED luks

EncNext == \E p \in Procs : EncMount(p) \/ EncUnmount(p) \/ EncIO(p) \/ EncDelete(p)

EncSpec == EncInit /\ [][EncNext]_encVars
-----------------------------------------------------------------------------
(* Properties.                                                             *)

\* The decrypted device is open only under a mounted file system or while Mount
\* is at work: no failed, cancelled or overtaken operation leaves it behind
\* (as long as luksClose itself works).
MapperClosed ==
    device /\ ~hostMount => \E p \in Procs : pc[p] \in {"mkfs", "mount"}

\* As long as the image file exists nothing formats it again: failed mounts,
\* consumed keys and interrupted creations never cost the data of a drive.
DataPreserved == [][image /\ image' /\ luks = "ext4" => luks' = "ext4"]_encVars

\* When Delete has returned, the image of an ephemeral drive is gone
\* (drive/encrypted_drive_test.go, TestEncryptedDriveDeleteCleansStateAndDestroysKey).
EphemeralImageRemoved == Ephemeral /\ ~params => ~image
=============================================================================
