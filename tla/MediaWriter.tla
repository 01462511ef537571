----------------------------- MODULE MediaWriter -----------------------------
(***************************************************************************)
(* Writing a removable device: RemovableMediaWriter.write in               *)
(* macloader/removable/writer.py over LinuxRemovableAdapter and            *)
(* LinuxBlockDeviceBackend in macloader/removable/adapters.py, while the   *)
(* device, the source directory and the clock change underneath.           *)
(*                                                                         *)
(* Every attempt has a plan of its own, made for the files the source has  *)
(* then and for the bindings its caller names; a write that starts         *)
(* later finds them as they are by then.  A source directory holds one of  *)
(* the published bundles (EFI, Recovery and the contracts that bind them), *)
(* a bundle somebody edited, or a tree without a bootable layout, and      *)
(* possibly files the contracts say nothing of.  What the medium holds is  *)
(* told apart only as far as a boot would:                                 *)
(*   "old"    whatever it held before, untouched                           *)
(*   "torn"   a partition table or file system with files missing          *)
(*   "full"   every planned file                                           *)
(*   "bad"    every planned file, one of them damaged by the device        *)
(*   "blank"  both partition tables zeroed                                 *)
(***************************************************************************)
EXTENDS Integers

CONSTANTS
    Bundles,      \* published bundles: the trees their contracts describe
    MaxAttempts,  \* bound: calls of write
    Faults,       \* what may go wrong outside the program
    None

\* A command or system call fails, Ctrl-C or a timeout ends a command that had
\* done its work, the process is killed, the device stores wrong data.
AllFaults == {"command", "interrupt", "kill", "damage"}

ASSUME ConstantsAssumption ==
    /\ MaxAttempts \in Nat
    /\ Faults \subseteq AllFaults
    /\ {"edited", "broken"} \cap Bundles = {}
    /\ None \notin Bundles \cup {"edited", "broken", "ok", "refused", "failed",
                                 "uninvalidated", "killed"}

\* What a source directory may hold: a bundle as published, one whose files
\* were edited afterwards, a tree with a symlink or without a bootloader; and
\* whether it differs from that where no digest looks, by a further file in
\* Recovery or another layout of the JSON records.
Trees == [bundle : Bundles \cup {"edited", "broken"}, spare : BOOLEAN]

VARIABLES
    pc,         \* where write is
    attempts,   \* calls of write so far
    planned,    \* plan.expected_files: the tree they were listed from
    binding,    \* plan.bindings: the bundle whose contracts they name
    swapped,    \* the source changed between the reads of its validation
    stray,      \* history: a mount the backend made and never took note of
    source,     \* what source_dir holds
    snapshot,   \* what the immutable snapshot of the source holds
    device,     \* the planned device: "ready", "mounted" by somebody, "absent"
    locked,     \* backend._locked: the exclusive lock is held
    listed,     \* backend._mounts: the backend knows of its mount
    mount,      \* the backend's mount is there
    medium,     \* what is on the medium
    confirmed,  \* the confirmation has not expired
    cancelled,  \* cancel() returns True
    started,    \* destructive_started
    touched,    \* this attempt has changed the medium
    verified,   \* readback found every planned file
    result      \* how the last attempt ended

plan == <<attempts, planned, binding, swapped, stray>>
world == <<source, device, confirmed, cancelled>>
disk == <<locked, listed, mount, medium, touched>>
vars == <<pc, plan, snapshot, started, verified, result, world, disk>>

Goto(l) == pc' = l

\* The enumerated device is the planned one: present, once, and not mounted.
Matches == device = "ready" /\ ~mount

\* A command on the device may fail, and does when the device has gone.
MayFail == device = "absent" \/ "command" \in Faults
Works == device # "absent"

Init ==
    /\ pc = "idle"
    /\ attempts = 0
    /\ planned = None /\ binding = None /\ swapped = FALSE /\ stray = FALSE
    /\ source \in Trees /\ snapshot = None
    /\ device = "ready" /\ confirmed = TRUE /\ cancelled = FALSE
    /\ locked = FALSE /\ listed = FALSE /\ mount = FALSE
    /\ medium = "old" /\ touched = FALSE
    /\ started = FALSE /\ verified = FALSE
    /\ result = None

-----------------------------------------------------------------------------
(* write, before anything is destroyed *)

\* _validate_source: a directory without symlinks that has both bootloaders.
ValidLayout(t) == t.bundle # "broken"

\* _validate_published_artifacts: manifest, Recovery lock, evidence and state
\* agree with the plan's bindings, with each other and with the files they name.
ValidArtifacts(t, b) == t.bundle = b

\* dry_run made a plan for the files it found and the bindings it was given,
\* and a confirmation was typed for it.
Plan ==
    /\ pc = "idle"
    /\ attempts < MaxAttempts
    /\ ValidLayout(source)
    /\ attempts' = attempts + 1
    /\ planned' = source
    /\ binding' \in Bundles
    /\ swapped' = FALSE
    /\ confirmed' = TRUE
    /\ cancelled' = FALSE
    /\ started' = FALSE /\ verified' = FALSE /\ touched' = FALSE
    /\ snapshot' = None
    /\ result' = None
    /\ Goto("confirm")
    /\ UNCHANGED <<stray, source, device, locked, listed, mount, medium>>

Refuse ==
    /\ Goto("idle")
    /\ result' = "refused"
    /\ UNCHANGED <<plan, snapshot, started, verified, world, disk>>

\* The plan is complete and its confirmation valid now.
Confirm ==
    /\ pc = "confirm"
    /\ IF confirmed /\ ~cancelled
       THEN Goto("source") /\ UNCHANGED <<plan, snapshot, started, verified, result, world, disk>>
       ELSE Refuse

\* The source validates against the published contracts the plan names.
ValidateSource ==
    /\ pc = "source"
    /\ IF ValidLayout(source) /\ ValidArtifacts(source, binding)
       THEN Goto("manifest") /\ UNCHANGED <<plan, snapshot, started, verified, result, world, disk>>
       ELSE Refuse

\* _source_manifest reads the files a second time, those no contract names
\* included: they are the planned ones.
CompareSource ==
    /\ pc = "manifest"
    /\ IF source = planned
       THEN Goto("recheck") /\ UNCHANGED <<plan, snapshot, started, verified, result, world, disk>>
       ELSE Refuse

\* _recheck_device: the device is enumerated again and has not changed.
RecheckDevice ==
    /\ pc = "recheck"
    /\ IF Matches
       THEN Goto("snapshot") /\ UNCHANGED <<plan, snapshot, started, verified, result, world, disk>>
       ELSE Refuse

\* _copy_no_follow, file by file: a source that is written to meanwhile leaves
\* a mixture of trees, and a symlink in it is not followed.
CopiesOf(t) ==
    IF ValidLayout(t) THEN [bundle : {t.bundle, "edited"}, spare : BOOLEAN] ELSE {}

\* _immutable_source_snapshot copies the source as it is by now, or raises.
TakeSnapshot ==
    /\ pc = "snapshot"
    /\ \/ /\ snapshot' \in CopiesOf(source)
          /\ Goto("compare")
       \/ /\ CopiesOf(source) = {}
          /\ Goto("failed")
          /\ UNCHANGED snapshot
    /\ UNCHANGED <<plan, started, verified, result, world, disk>>

\* The snapshot has the planned files, and nobody has cancelled yet.
CompareSnapshot ==
    /\ pc = "compare"
    /\ IF snapshot = planned /\ ~cancelled
       THEN started' = TRUE /\ Goto("lock")
       ELSE started' = FALSE /\ Goto("failed")
    /\ UNCHANGED <<plan, snapshot, verified, result, world, disk>>

-----------------------------------------------------------------------------
(* LinuxBlockDeviceBackend.lock_and_dismount, write and flush *)

\* A plausible bug: the lock is asked for, but not held on to.
LockDropped ==
    /\ pc = "lock"
    /\ \/ /\ Matches /\ ~locked
          /\ Goto("relook")
       \/ /\ ~Matches \/ locked \/ "command" \in Faults
          /\ Goto("failed")
    /\ UNCHANGED <<plan, snapshot, started, verified, result, world, disk>>

\* The device still matches and its exclusive lock is free, or else it raises.
\* A lock that a former attempt could not give back is in the way.
Lock ==
    /\ pc = "lock"
    /\ \/ /\ Matches /\ ~locked
          /\ locked' = TRUE
          /\ Goto("relook")
       \/ /\ ~Matches \/ locked \/ "command" \in Faults
          /\ Goto("failed")
          /\ UNCHANGED locked
    /\ UNCHANGED <<plan, snapshot, started, verified, result, world, listed, mount, medium, touched>>

\* The second check under the lock; a mismatch gives the lock back.
Relook ==
    /\ pc = "relook"
    /\ IF Matches
       THEN Goto("partition") /\ UNCHANGED locked
       ELSE Goto("failed") /\ locked' = FALSE
    /\ UNCHANGED <<plan, snapshot, started, verified, result, world, listed, mount, medium, touched>>

\* A last look at the device before the first destructive command.
Partition ==
    /\ pc = "partition"
    /\ \/ Matches /\ Goto("table")
       \/ /\ ~Matches \/ "command" \in Faults
          /\ Goto("failed")
    /\ UNCHANGED <<plan, snapshot, started, verified, result, world, disk>>

\* sfdisk, blockdev and mkfs.vfat, on whatever has become of the device since.
WriteTable ==
    /\ pc = "table"
    /\ \/ /\ Works
          /\ medium' = "torn" /\ touched' = TRUE
          /\ Goto("mount") \/ (Goto("failed") /\ "command" \in Faults)
       \/ /\ MayFail
          /\ Goto("failed")
          /\ UNCHANGED <<medium, touched>>
    /\ UNCHANGED <<plan, snapshot, started, verified, result, world, locked, listed, mount>>

\* The mount command: it works and the backend takes note of the mount, or the
\* command ends by Ctrl-C or its timeout after mounting and nobody does.
Mounted ==
    \/ /\ Works
       /\ mount' = TRUE /\ listed' = TRUE
       /\ Goto(IF pc = "mount" THEN "copy" ELSE "verify")
       /\ UNCHANGED stray
    \/ /\ Works /\ "interrupt" \in Faults
       /\ mount' = TRUE /\ stray' = TRUE
       /\ Goto("failed")
       /\ UNCHANGED listed

NotMounted ==
    /\ Goto("failed")
    /\ UNCHANGED <<mount, listed, stray>>

\* mount the new partition and remember it.
MountWritable ==
    /\ pc = "mount"
    /\ Mounted \/ (MayFail /\ NotMounted)
    /\ UNCHANGED <<attempts, planned, binding, swapped, snapshot, started, verified, result>>
    /\ UNCHANGED <<world, locked, medium, touched>>

\* _copy_boot_layout and _sync_mount; the finally clause unmounts either way.
CopyFiles ==
    /\ pc = "copy"
    /\ \/ /\ Works
          /\ snapshot = planned
          /\ medium' \in {"full"} \cup (IF "damage" \in Faults THEN {"bad"} ELSE {})
          /\ Goto("unmount")
       \/ /\ MayFail \/ snapshot # planned
          /\ Goto("unmount_failed")
          /\ UNCHANGED medium
    /\ UNCHANGED <<plan, snapshot, started, verified, result, world, locked, listed, mount, touched>>

\* umount; when it fails the backend keeps its entry and raises.
Unmount ==
    /\ pc \in {"unmount", "unmount_failed", "unmount_read"}
    /\ \/ /\ mount' = FALSE /\ listed' = FALSE
          /\ Goto(CASE pc = "unmount" -> "flush"
                    [] pc = "unmount_failed" -> "failed"
                    [] pc = "unmount_read" -> IF verified THEN "eject" ELSE "failed")
       \/ /\ "command" \in Faults
          /\ Goto("failed")
          /\ UNCHANGED <<mount, listed>>
    /\ UNCHANGED <<plan, snapshot, started, verified, result, world, locked, medium, touched>>

\* flush, and the cancellation that is looked at after it.
Flush ==
    /\ pc = "flush"
    /\ \/ Works /\ ~cancelled /\ Goto("readback")
       \/ /\ MayFail \/ cancelled
          /\ Goto("failed")
    /\ UNCHANGED <<plan, snapshot, started, verified, result, world, disk>>

-----------------------------------------------------------------------------
(* readback and safe_eject *)

\* The device is checked again (its partitions may have changed) and mounted
\* read-only.
MountReadOnly ==
    /\ pc = "readback"
    /\ \/ Matches /\ Mounted
       \/ (~Matches \/ "command" \in Faults) /\ NotMounted
    /\ UNCHANGED <<attempts, planned, binding, swapped, snapshot, started, verified, result>>
    /\ UNCHANGED <<world, locked, medium, touched>>

\* A plausible bug: sizes are compared, contents are not.
VerifySizes ==
    /\ pc = "verify"
    /\ verified' = (medium \in {"full", "bad"} /\ Works)
    /\ Goto("unmount_read")
    /\ UNCHANGED <<plan, snapshot, started, result, world, disk>>

\* _verify_boot_layout: every planned file is there with its digest.
Verify ==
    /\ pc = "verify"
    /\ verified' = (medium = "full" /\ Works)
    /\ Goto("unmount_read")
    /\ UNCHANGED <<plan, snapshot, started, result, world, disk>>

\* safe_eject: flush, give the lock back, power the device off.  A failed
\* flush keeps the lock, a failed power-off does not.
Eject ==
    /\ pc = "eject"
    /\ \/ /\ Works
          /\ locked' = FALSE
          /\ Goto("idle")
          /\ result' = "ok"
       \/ /\ MayFail
          /\ locked' \in BOOLEAN
          /\ Goto("failed")
          /\ UNCHANGED result
    /\ UNCHANGED <<plan, snapshot, started, verified, world, listed, mount, medium, touched>>

-----------------------------------------------------------------------------
(* Failure *)

\* A plausible bug: an invalidation is only for media that failed readback.
InvalidateOnlyRead ==
    /\ pc = "failed"
    /\ Goto("idle")
    /\ result' = "failed"
    /\ UNCHANGED <<plan, snapshot, started, verified, world, disk>>

\* A plausible bug: the tables are zeroed although unmounting failed.
CleanMounted ==
    /\ Works
    /\ mount' \in {mount, mount /\ ~listed} /\ listed' = FALSE
    /\ medium' = "blank" /\ touched' = TRUE
    /\ locked' = FALSE

\* The backend's invalidation: unmount, zero both partition tables, give the
\* lock back, power the device off.  It stops at the first of them that fails.
Clean ==
    /\ Works
    /\ mount' = (mount /\ ~listed) /\ listed' = FALSE
    /\ medium' = "blank" /\ touched' = TRUE
    /\ locked' = FALSE

CleanPartly ==
    /\ MayFail
    /\ \/ UNCHANGED disk
       \/ /\ mount' = (mount /\ ~listed) /\ listed' = FALSE
          /\ \/ UNCHANGED <<medium, touched, locked>>
             \/ /\ Works
                /\ medium' = "blank" /\ touched' = TRUE
                /\ locked' \in {locked, FALSE}

\* A plausible bug: the medium is invalidated whether or not the lock was taken.
InvalidateUnlocked ==
    /\ pc = "failed"
    /\ Goto("idle")
    /\ \/ /\ ~started
          /\ result' = "failed"
          /\ UNCHANGED disk
       \/ /\ started
          /\ \/ Clean /\ result' = "failed"
             \/ CleanPartly /\ result' = "uninvalidated"
    /\ UNCHANGED <<plan, snapshot, started, verified, world>>

\* The except clause of write, and a readback that found a difference: the
\* medium is invalidated once destruction may have started; without a lock the
\* backend does nothing.
Invalidate ==
    /\ pc = "failed"
    /\ Goto("idle")
    /\ \/ /\ ~started \/ ~locked
          /\ result' = "failed"
          /\ UNCHANGED disk
       \/ /\ started /\ locked
          /\ \/ Clean /\ result' = "failed"
             \/ CleanPartly /\ result' = "uninvalidated"
    /\ UNCHANGED <<plan, snapshot, started, verified, world>>

-----------------------------------------------------------------------------
(* The environment *)

\* The process is killed: the kernel drops its lock, not its mount, and the
\* next attempt is made by a new process.
Kill ==
    /\ "kill" \in Faults
    /\ pc # "idle"
    /\ Goto("idle")
    /\ result' = "killed"
    /\ locked' = FALSE /\ listed' = FALSE
    /\ UNCHANGED <<plan, snapshot, started, verified, world, mount, medium, touched>>

\* The source directory is written to, replaced, or set right again.
ChangeSource ==
    /\ source' \in Trees \ {source}
    /\ swapped' = (swapped \/ pc = "manifest")
    /\ UNCHANGED <<pc, attempts, planned, binding, stray, snapshot, started, verified, result>>
    /\ UNCHANGED <<device, confirmed, cancelled, disk>>

\* The device is pulled, plugged in again, mounted or unmounted by the desktop.
ChangeDevice ==
    /\ device' \in {"ready", "mounted", "absent"} \ {device}
    /\ UNCHANGED <<pc, plan, snapshot, started, verified, result, source, confirmed, cancelled, disk>>

\* The lifetime of the confirmation ends.
Expire ==
    /\ confirmed
    /\ confirmed' = FALSE
    /\ UNCHANGED <<pc, plan, snapshot, started, verified, result, source, device, cancelled, disk>>

Cancel ==
    /\ pc # "idle"
    /\ ~cancelled
    /\ cancelled' = TRUE
    /\ UNCHANGED <<pc, plan, snapshot, started, verified, result, source, device, confirmed, disk>>

-----------------------------------------------------------------------------

Write ==
    \/ Confirm \/ ValidateSource \/ CompareSource \/ RecheckDevice \/ TakeSnapshot \/ CompareSnapshot
    \/ Lock \/ Relook \/ Partition \/ WriteTable \/ MountWritable \/ CopyFiles \/ Unmount \/ Flush
    \/ MountReadOnly \/ Verify \/ Eject \/ Invalidate

Environment == ChangeSource \/ ChangeDevice \/ Expire \/ Cancel \/ Kill

Next == Plan \/ Write \/ Environment

Spec == Init /\ [][Next]_vars

-----------------------------------------------------------------------------
(* Properties *)

Stages == {"idle", "confirm", "source", "manifest", "recheck", "snapshot", "compare", "lock", "relook",
           "partition", "table", "mount", "copy", "unmount", "unmount_failed", "flush",
           "readback", "verify", "unmount_read", "eject", "failed"}

\* Types; the backend only lists mounts that are there, and from the lock to
\* the ejection it holds the device.
TypeOK ==
    /\ pc \in Stages
    /\ attempts \in 0..MaxAttempts
    /\ planned \in Trees \cup {None} /\ binding \in Bundles \cup {None}
    /\ source \in Trees /\ snapshot \in Trees \cup {None}
    /\ device \in {"ready", "mounted", "absent"}
    /\ medium \in {"old", "torn", "full", "bad", "blank"}
    /\ locked \in BOOLEAN /\ listed \in BOOLEAN /\ mount \in BOOLEAN
    /\ swapped \in BOOLEAN /\ stray \in BOOLEAN /\ confirmed \in BOOLEAN /\ cancelled \in BOOLEAN
    /\ started \in BOOLEAN /\ touched \in BOOLEAN /\ verified \in BOOLEAN
    /\ result \in {None, "ok", "refused", "failed", "uninvalidated", "killed"}
    /\ listed => mount
    /\ pc \in {"relook", "partition", "table", "mount", "copy", "unmount", "unmount_failed",
               "flush", "readback", "verify", "unmount_read", "eject"} => locked

\* A write that returns has left every planned file on the medium, intact,
\* whatever happened to the source meanwhile, and has let go of the device.
\* The planned files are those of the published bundle the plan is bound to,
\* and possibly some no contract names, unless the source was changed between
\* the two reads of its validation.
SuccessIsComplete ==
    result = "ok" => /\ medium = "full"
                     /\ ~locked /\ ~mount
                     /\ swapped \/ planned.bundle = binding

\* A write that raises, without reporting that invalidating failed, has let go
\* of the device, and has not left a medium behind that looks bootable but was
\* never read back.
FailureIsUnbootable ==
    result = "failed" =>
        /\ started => ~locked /\ ~listed
        /\ touched => medium = "blank" \/ (medium = "full" /\ verified)

\* The medium changes only while its exclusive lock is held: a write that
\* failed before it had the lock does not invalidate what somebody else wrote.
TouchedOnlyLocked ==
    [][medium' # medium => locked]_vars

\* No partition table is written or zeroed beneath a file system this program
\* has mounted and not unmounted: neither beneath its own, when unmounting
\* fails, nor beneath one a killed process left behind.  Only a mount that was
\* made by a command that was then interrupted may be overlooked.
NeverUnderMount ==
    [][medium' \in {"torn", "blank"} /\ medium' # medium => ~mount' \/ stray]_vars
=============================================================================
