-------------------------- MODULE MediaWriterProofs --------------------------
(***************************************************************************)
(* Proofs about MediaWriter, for any number of attempts and any faults.    *)
(* WriterInv adds to the properties what they owe to the place where write *)
(* is: nothing is touched before the lock is held, a mount is only listed  *)
(* under the lock and between mounting and unmounting, and what is ejected *)
(* has been read back.                                                     *)
(***************************************************************************)
EXTENDS MediaWriter, TLAPS

Words ==
    /\ pc \in Stages
    /\ attempts \in 0..MaxAttempts
    /\ planned \in Trees \cup {None} /\ binding \in Bundles \cup {None}
    /\ source \in Trees /\ snapshot \in Trees \cup {None}
    /\ device \in {"ready", "mounted", "absent"}
    /\ medium \in {"old", "torn", "full", "bad", "blank"}
    /\ result \in {None, "ok", "refused", "failed", "uninvalidated", "killed"}

Flags ==
    /\ locked \in BOOLEAN /\ listed \in BOOLEAN /\ mount \in BOOLEAN
    /\ swapped \in BOOLEAN /\ stray \in BOOLEAN /\ confirmed \in BOOLEAN /\ cancelled \in BOOLEAN
    /\ started \in BOOLEAN /\ touched \in BOOLEAN /\ verified \in BOOLEAN

Before == {"confirm", "source", "manifest", "recheck", "snapshot", "compare"}
Holding == {"relook", "partition", "table", "mount", "copy", "unmount", "unmount_failed",
            "flush", "readback", "verify", "unmount_read", "eject"}
During == Holding \cup {"lock"}

\* What the backend holds.  A mount it does not know of, other than a stray
\* one, is a killed process's, and then the lock is not this process's.
Held ==
    /\ listed => mount
    /\ listed => locked
    /\ pc \in Holding => locked
    /\ pc \in {"relook", "partition", "table", "mount", "flush", "readback", "eject"} => ~listed
    /\ pc \in {"relook", "partition", "table"} => ~mount
    /\ locked /\ mount => listed \/ stray

\* What write has done by the time it is where it is.
Progress ==
    /\ pc # "idle" => result = None
    /\ pc \in Before => ~started
    /\ pc \in During => started
    /\ pc \in Before \cup {"lock", "relook", "partition", "table"} => ~touched
    /\ touched => started

\* What validation has established of the plan, if nobody changed the source
\* between its two reads.
Bound ==
    /\ pc = "manifest" => swapped \/ source.bundle = binding
    /\ pc \in {"recheck", "snapshot", "compare"} \cup During => swapped \/ planned.bundle = binding

\* What is known of the medium once it is read back.  An ejection that failed
\* may have given the lock back, and then nobody invalidates the medium.
ReadBack ==
    /\ pc = "unmount_read" /\ verified => medium = "full"
    /\ pc = "eject" => verified /\ medium = "full" /\ ~mount
    /\ pc = "failed" /\ touched /\ ~locked => medium = "full" /\ verified

WriterInv ==
    /\ Words
    /\ Flags
    /\ Held
    /\ Progress
    /\ Bound
    /\ ReadBack
    /\ SuccessIsComplete
    /\ FailureIsUnbootable

USE ConstantsAssumption DEF plan, world, disk, Goto

LEMMA InitWriter == Init => WriterInv
<1>1. Init => Words
  BY DEF Init, Words, Stages, Trees
<1>2. Init => Flags
  BY DEF Init, Flags
<1>3. Init => Held /\ Progress /\ Bound /\ ReadBack
  BY DEF Init, Held, Holding, Progress, Bound, Before, During, ReadBack
<1>4. Init => SuccessIsComplete /\ FailureIsUnbootable
  BY DEF Init, SuccessIsComplete, FailureIsUnbootable
<1> QED
  BY <1>1, <1>2, <1>3, <1>4 DEF WriterInv

\* The steps before anything is destroyed.
LEMMA PrepareStep ==
    ASSUME WriterInv,
           Plan \/ Confirm \/ ValidateSource \/ CompareSource \/ RecheckDevice
           \/ TakeSnapshot \/ CompareSnapshot
    PROVE  WriterInv'
<1>1. CASE Plan
  <2>1. Words'
    BY <1>1 DEF Plan, WriterInv, Words, Stages
  <2>2. Flags'
    BY <1>1 DEF Plan, WriterInv, Flags
  <2>3. Held'
    BY <1>1 DEF Plan, WriterInv, Held, Flags, Holding
  <2>4. Progress'
    BY <1>1 DEF Plan, WriterInv, Progress, Held, Flags, Before, During, Holding
  <2>5. ReadBack'
    BY <1>1 DEF Plan, WriterInv, ReadBack, Progress, Held, Flags, Before, During,
       Holding
  <2>6. SuccessIsComplete' /\ FailureIsUnbootable'
    BY <1>1 DEF Plan, WriterInv, SuccessIsComplete, FailureIsUnbootable, ReadBack,
       Progress, Held, Flags, Before, During, Holding
  <2>7. Bound'
    BY <1>1 DEF Plan, WriterInv, Bound, During, Holding
  <2> QED
    BY <2>1, <2>2, <2>3, <2>4, <2>5, <2>6, <2>7 DEF WriterInv
<1>2. CASE Confirm \/ ValidateSource \/ CompareSource \/ RecheckDevice
  <2>1. Words'
    BY <1>2 DEF Confirm, ValidateSource, CompareSource, RecheckDevice, Refuse, WriterInv, Words,
       Stages
  <2>2. Flags'
    BY <1>2 DEF Confirm, ValidateSource, CompareSource, RecheckDevice, Refuse, WriterInv, Flags
  <2>3. Held'
    BY <1>2 DEF Confirm, ValidateSource, CompareSource, RecheckDevice, Refuse, WriterInv, Held,
       Flags, Holding
  <2>4. Progress'
    BY <1>2 DEF Confirm, ValidateSource, CompareSource, RecheckDevice, Refuse, WriterInv,
       Progress, Held, Flags, Before, During, Holding
  <2>5. ReadBack'
    BY <1>2 DEF Confirm, ValidateSource, CompareSource, RecheckDevice, Refuse, WriterInv,
       ReadBack, Progress, Held, Flags, Before, During, Holding
  <2>6. SuccessIsComplete' /\ FailureIsUnbootable'
    BY <1>2 DEF Confirm, ValidateSource, CompareSource, RecheckDevice, Refuse, WriterInv,
       SuccessIsComplete, FailureIsUnbootable, ReadBack, Progress, Held, Flags,
       Before, During, Holding
  <2>7. Bound'
    <3>1. CASE Confirm \/ RecheckDevice
      BY <1>2, <3>1 DEF Confirm, RecheckDevice, Refuse, WriterInv, Bound, During, Holding
    <3>2. CASE ValidateSource
      BY <3>2 DEF ValidateSource, ValidArtifacts, Refuse, WriterInv, Bound, During, Holding
    <3>3. CASE CompareSource
      BY <3>3 DEF CompareSource, Refuse, WriterInv, Bound, During, Holding
    <3> QED
      BY <1>2, <3>1, <3>2, <3>3
  <2> QED
    BY <2>1, <2>2, <2>3, <2>4, <2>5, <2>6, <2>7 DEF WriterInv
<1>3. CASE TakeSnapshot \/ CompareSnapshot
  <2>1. Words'
    BY <1>3 DEF TakeSnapshot, CompareSnapshot, CopiesOf, Trees, WriterInv, Words, Stages
  <2>2. Flags'
    BY <1>3 DEF TakeSnapshot, CompareSnapshot, WriterInv, Flags
  <2>3. Held'
    BY <1>3 DEF TakeSnapshot, CompareSnapshot, WriterInv, Held, Flags, Holding
  <2>4. Progress'
    BY <1>3 DEF TakeSnapshot, CompareSnapshot, WriterInv, Progress, Held, Flags,
       Before, During, Holding
  <2>5. ReadBack'
    BY <1>3 DEF TakeSnapshot, CompareSnapshot, WriterInv, ReadBack, Progress, Held,
       Flags, Before, During, Holding
  <2>6. SuccessIsComplete' /\ FailureIsUnbootable'
    BY <1>3 DEF TakeSnapshot, CompareSnapshot, WriterInv, SuccessIsComplete,
       FailureIsUnbootable, ReadBack, Progress, Held, Flags, Before, During,
       Holding
  <2>7. Bound'
    BY <1>3 DEF TakeSnapshot, CompareSnapshot, WriterInv, Bound, During, Holding
  <2> QED
    BY <2>1, <2>2, <2>3, <2>4, <2>5, <2>6, <2>7 DEF WriterInv
<1> QED
  BY <1>1, <1>2, <1>3

\* The steps of lock_and_dismount, write and flush, of readback and of safe_eject.
LEMMA WriteStep ==
    ASSUME WriterInv,
           Lock \/ Partition \/ WriteTable \/ MountWritable \/ CopyFiles \/ Unmount
           \/ Flush \/ MountReadOnly \/ Verify \/ Eject
    PROVE  WriterInv'
<1>1. CASE Lock \/ Partition \/ WriteTable
  <2>1. Words'
    BY <1>1 DEF Lock, Partition, WriteTable, WriterInv, Words, Stages
  <2>2. Flags'
    BY <1>1 DEF Lock, Partition, WriteTable, WriterInv, Flags
  <2>3. Held'
    BY <1>1 DEF Lock, Partition, WriteTable, WriterInv, Held, Flags, Holding, Matches
  <2>4. Progress'
    BY <1>1 DEF Lock, Partition, WriteTable, WriterInv, Progress, Held, Flags, Before, During,
       Holding
  <2>5. ReadBack'
    BY <1>1 DEF Lock, Partition, WriteTable, WriterInv, ReadBack, Progress, Held, Flags, Before,
       During, Holding
  <2>6. SuccessIsComplete' /\ FailureIsUnbootable'
    BY <1>1 DEF Lock, Partition, WriteTable, WriterInv, SuccessIsComplete, FailureIsUnbootable,
       Bound, ReadBack, Progress, Held, Flags, Before, During, Holding
  <2>7. Bound'
    BY <1>1 DEF Lock, Partition, WriteTable, WriterInv, Bound, During, Holding
  <2> QED
    BY <2>1, <2>2, <2>3, <2>4, <2>5, <2>6, <2>7 DEF WriterInv
<1>2. CASE MountWritable \/ MountReadOnly
  <2>1. Words'
    BY <1>2 DEF MountWritable, MountReadOnly, Mounted, NotMounted, WriterInv, Words, Stages
  <2>2. Flags'
    BY <1>2 DEF MountWritable, MountReadOnly, Mounted, NotMounted, WriterInv, Flags
  <2>3. Held'
    BY <1>2 DEF MountWritable, MountReadOnly, Mounted, NotMounted, WriterInv, Held, Flags,
       Holding, Matches
  <2>4. Progress'
    BY <1>2 DEF MountWritable, MountReadOnly, Mounted, NotMounted, WriterInv, Progress, Held,
       Flags, Before, During, Holding
  <2>5. ReadBack'
    BY <1>2 DEF MountWritable, MountReadOnly, Mounted, NotMounted, WriterInv, ReadBack,
       Progress, Held, Flags, Before, During, Holding
  <2>6. SuccessIsComplete' /\ FailureIsUnbootable'
    BY <1>2 DEF MountWritable, MountReadOnly, Mounted, NotMounted, WriterInv, SuccessIsComplete,
       FailureIsUnbootable, Bound, ReadBack, Progress, Held, Flags, Before, During, Holding
  <2>7. Bound'
    BY <1>2 DEF MountWritable, MountReadOnly, Mounted, NotMounted, WriterInv, Bound, During,
       Holding
  <2> QED
    BY <2>1, <2>2, <2>3, <2>4, <2>5, <2>6, <2>7 DEF WriterInv
<1>3. CASE CopyFiles \/ Unmount \/ Flush
  <2>1. Words'
    BY <1>3 DEF CopyFiles, Unmount, Flush, WriterInv, Words, Stages
  <2>2. Flags'
    BY <1>3 DEF CopyFiles, Unmount, Flush, WriterInv, Flags
  <2>3. Held'
    BY <1>3 DEF CopyFiles, Unmount, Flush, WriterInv, Held, Flags, Holding, Matches
  <2>4. Progress'
    BY <1>3 DEF CopyFiles, Unmount, Flush, WriterInv, Progress, Held, Flags, Before, During,
       Holding
  <2>5. ReadBack'
    BY <1>3 DEF CopyFiles, Unmount, Flush, WriterInv, ReadBack, Progress, Held, Flags, Before,
       During, Holding
  <2>6. SuccessIsComplete' /\ FailureIsUnbootable'
    BY <1>3 DEF CopyFiles, Unmount, Flush, WriterInv, SuccessIsComplete, FailureIsUnbootable,
       Bound, ReadBack, Progress, Held, Flags, Before, During, Holding
  <2>7. Bound'
    BY <1>3 DEF CopyFiles, Unmount, Flush, WriterInv, Bound, During, Holding
  <2> QED
    BY <2>1, <2>2, <2>3, <2>4, <2>5, <2>6, <2>7 DEF WriterInv
<1>4. CASE Verify \/ Eject
  <2>1. Words'
    BY <1>4 DEF Verify, Eject, WriterInv, Words, Stages
  <2>2. Flags'
    BY <1>4 DEF Verify, Eject, WriterInv, Flags
  <2>3. Held'
    BY <1>4 DEF Verify, Eject, WriterInv, Held, Flags, Holding, Matches
  <2>4. Progress'
    BY <1>4 DEF Verify, Eject, WriterInv, Progress, Held, Flags, Before, During, Holding
  <2>5. ReadBack'
    BY <1>4 DEF Verify, Eject, WriterInv, ReadBack, Progress, Held, Flags, Before, During,
       Holding
  <2>6. SuccessIsComplete' /\ FailureIsUnbootable'
    BY <1>4 DEF Verify, Eject, WriterInv, SuccessIsComplete, FailureIsUnbootable, Bound,
       ReadBack, Progress, Held, Flags, Before, During, Holding
  <2>7. Bound'
    BY <1>4 DEF Verify, Eject, WriterInv, Bound, During, Holding
  <2> QED
    BY <2>1, <2>2, <2>3, <2>4, <2>5, <2>6, <2>7 DEF WriterInv
<1> QED
  BY <1>1, <1>2, <1>3, <1>4

\* The steps of the environment, and stuttering.
LEMMA EnvironmentStep ==
    ASSUME WriterInv,
           Environment \/ UNCHANGED vars
    PROVE  WriterInv'
<1>1. CASE Environment
  <2>1. Words'
    BY <1>1 DEF Environment, ChangeSource, ChangeDevice, Expire, Cancel, Kill,
       WriterInv, Words, Stages
  <2>2. Flags'
    BY <1>1 DEF Environment, ChangeSource, ChangeDevice, Expire, Cancel, Kill,
       WriterInv, Flags
  <2>3. Held'
    BY <1>1 DEF Environment, ChangeSource, ChangeDevice, Expire, Cancel, Kill,
       WriterInv, Held, Flags, Holding
  <2>4. Progress'
    BY <1>1 DEF Environment, ChangeSource, ChangeDevice, Expire, Cancel, Kill,
       WriterInv, Progress, Held, Flags, Before, During, Holding
  <2>5. ReadBack'
    BY <1>1 DEF Environment, ChangeSource, ChangeDevice, Expire, Cancel, Kill,
       WriterInv, ReadBack, Progress, Held, Flags, Before, During, Holding
  <2>6. SuccessIsComplete' /\ FailureIsUnbootable'
    BY <1>1 DEF Environment, ChangeSource, ChangeDevice, Expire, Cancel, Kill,
       WriterInv, SuccessIsComplete, FailureIsUnbootable, ReadBack, Progress, Held,
       Flags, Before, During, Holding
  <2>7. Bound'
    BY <1>1 DEF Environment, ChangeSource, ChangeDevice, Expire, Cancel, Kill,
       WriterInv, Bound, During, Holding
  <2> QED
    BY <2>1, <2>2, <2>3, <2>4, <2>5, <2>6, <2>7 DEF WriterInv
<1>2. CASE UNCHANGED vars
  <2>1. Words'
    BY <1>2 DEF vars, WriterInv, Words, Stages
  <2>2. Flags'
    BY <1>2 DEF vars, WriterInv, Flags
  <2>3. Held'
    BY <1>2 DEF vars, WriterInv, Held, Flags, Holding
  <2>4. Progress'
    BY <1>2 DEF vars, WriterInv, Progress, Held, Flags, Before, During, Holding
  <2>5. ReadBack'
    BY <1>2 DEF vars, WriterInv, ReadBack, Progress, Held, Flags, Before, During,
       Holding
  <2>6. SuccessIsComplete' /\ FailureIsUnbootable'
    BY <1>2 DEF vars, WriterInv, SuccessIsComplete, FailureIsUnbootable, ReadBack,
       Progress, Held, Flags, Before, During, Holding
  <2>7. Bound'
    BY <1>2 DEF vars, WriterInv, Bound, During, Holding
  <2> QED
    BY <2>1, <2>2, <2>3, <2>4, <2>5, <2>6, <2>7 DEF WriterInv
<1> QED
  BY <1>1, <1>2

\* The second check under the lock.
LEMMA RelookStep ==
    ASSUME WriterInv, Relook
    PROVE  WriterInv'
<1>1. Words'
  BY DEF Relook, WriterInv, Words, Stages
<1>2. Flags'
  BY DEF Relook, WriterInv, Flags
<1>3. Held' /\ Progress' /\ ReadBack'
  <2>1. CASE Matches
    <3>1. Held'
      BY <2>1 DEF Relook, WriterInv, Held, Flags, Holding
    <3>2. Progress' /\ ReadBack'
      BY <2>1 DEF Relook, WriterInv, Progress, ReadBack, Held, Flags, Before, During, Holding
    <3> QED
      BY <3>1, <3>2
  <2>2. CASE ~Matches
    <3>1. Held'
      BY <2>2 DEF Relook, WriterInv, Held, Flags, Holding
    <3>2. Progress' /\ ReadBack'
      BY <2>2 DEF Relook, WriterInv, Progress, ReadBack, Held, Flags, Before, During, Holding
    <3> QED
      BY <3>1, <3>2
  <2> QED
    BY <2>1, <2>2
<1>4. SuccessIsComplete' /\ FailureIsUnbootable'
  BY DEF Relook, WriterInv, Progress, SuccessIsComplete, FailureIsUnbootable
<1>5. Bound'
  BY DEF Relook, WriterInv, Bound, During, Holding
<1> QED
  BY <1>1, <1>2, <1>3, <1>4, <1>5 DEF WriterInv

\* An invalidation that is not due, one that works and one that fails.
LEMMA InvalidateStep ==
    ASSUME WriterInv, Invalidate
    PROVE  WriterInv'
<1>1. /\ pc = "failed" /\ pc' = "idle"
      /\ UNCHANGED <<started, verified, stray>>
      /\ result' \in {"failed", "uninvalidated"}
  BY DEF Invalidate
<1>2. Words'
  BY DEF Invalidate, Clean, CleanPartly, WriterInv, Words, Stages
<1>3. Flags'
  BY DEF Invalidate, Clean, CleanPartly, WriterInv, Flags
<1>4. ReadBack' /\ Bound' /\ SuccessIsComplete'
  BY <1>1 DEF ReadBack, Bound, During, Holding, SuccessIsComplete
<1>5. Held' /\ Progress' /\ FailureIsUnbootable'
  <2>1. CASE UNCHANGED disk
    <3>1. result' = "failed" => ~started \/ ~locked
      BY <2>1 DEF Invalidate, Clean, WriterInv, Flags
    <3>2. Held'
      BY <1>1, <2>1 DEF WriterInv, Held, Holding
    <3>3. Progress'
      BY <1>1, <2>1 DEF WriterInv, Progress, Before, During, Holding
    <3>4. FailureIsUnbootable'
      BY <1>1, <2>1, <3>1 DEF WriterInv, FailureIsUnbootable, Progress, Held, ReadBack
    <3> QED
      BY <3>2, <3>3, <3>4
  <2>2. CASE started /\ locked /\ Clean /\ result' = "failed"
    BY <1>1, <2>2
    DEF Clean, WriterInv, Held, Holding, Progress, Before, During, FailureIsUnbootable
  <2>3. CASE /\ started /\ locked
             /\ CleanPartly /\ ~UNCHANGED disk
             /\ result' = "uninvalidated"
    <3>1. listed' = FALSE
      BY <2>3 DEF CleanPartly
    <3> QED
      BY <1>1, <2>3, <3>1
      DEF CleanPartly, WriterInv, Held, Holding, Progress, Before, During, FailureIsUnbootable
  <2> QED
    BY <2>1, <2>2, <2>3 DEF Invalidate
<1> QED
  BY <1>2, <1>3, <1>4, <1>5 DEF WriterInv

\* Every reachable state satisfies the invariant.
LEMMA WriterInvariant == Spec => []WriterInv
<1>1. WriterInv /\ [Next]_vars => WriterInv'
  BY PrepareStep, WriteStep, RelookStep, InvalidateStep, EnvironmentStep DEF Next, Write
<1> QED
  BY InitWriter, <1>1, PTL DEF Spec

-----------------------------------------------------------------------------

\* TypeOK: types, and the backend holds the device from the lock to the
\* ejection (LinuxBlockDeviceBackend).
THEOREM TypeCorrect == Spec => []TypeOK
<1>1. WriterInv => TypeOK
  BY DEF WriterInv, TypeOK, Words, Flags, Held, Holding
<1> QED
  BY WriterInvariant, <1>1, PTL

\* SuccessIsComplete: a write that returns has left every planned file intact
\* on the medium and let go of the device.
THEOREM SuccessComplete == Spec => []SuccessIsComplete
<1>1. WriterInv => SuccessIsComplete
  BY DEF WriterInv
<1> QED
  BY WriterInvariant, <1>1, PTL

\* FailureIsUnbootable: a write that raises after it touched the medium has
\* zeroed it, or it was read back intact and only its ejection failed.
THEOREM FailureUnbootable == Spec => []FailureIsUnbootable
<1>1. WriterInv => FailureIsUnbootable
  BY DEF WriterInv
<1> QED
  BY WriterInvariant, <1>1, PTL

\* The steps that change what is on the medium.
LEMMA MediumChanges ==
    ASSUME Next, medium' # medium
    PROVE  \/ WriteTable /\ medium' = "torn"
           \/ CopyFiles /\ medium' \in {"full", "bad"}
           \/ Invalidate
<1>1. WriteTable \/ CopyFiles \/ Invalidate
  BY DEF Next, Write, Environment, Plan, Confirm, ValidateSource, CompareSource, RecheckDevice, Refuse,
         TakeSnapshot, CompareSnapshot, Lock, Relook, Partition, MountWritable, Unmount, Flush,
         MountReadOnly, Verify, Eject, Kill, ChangeSource, ChangeDevice, Expire, Cancel
<1> QED
  BY <1>1 DEF WriteTable, CopyFiles

\* TouchedOnlyLocked: the medium changes only under the exclusive lock.
THEOREM TouchesLocked == Spec => TouchedOnlyLocked
<1>1. WriterInv /\ [Next]_vars => [medium' # medium => locked]_vars
  <2> SUFFICES ASSUME WriterInv, Next, medium' # medium
               PROVE  locked
    OBVIOUS
  <2>1. pc \in {"table", "copy"} => locked
    BY DEF WriterInv, Held, Holding
  <2> QED
    BY <2>1, MediumChanges DEF WriteTable, CopyFiles, Invalidate
<1> QED
  BY WriterInvariant, <1>1, PTL DEF Spec, TouchedOnlyLocked

\* NeverUnderMount: no table is written or zeroed beneath a mount of this
\* program's (write, invalidate), unless its command was interrupted.
THEOREM NothingUnderMounts == Spec => NeverUnderMount
<1>1. WriterInv /\ [Next]_vars
      => [medium' \in {"torn", "blank"} /\ medium' # medium => ~mount' \/ stray]_vars
  <2> SUFFICES ASSUME WriterInv, Next, medium' \in {"torn", "blank"}, medium' # medium
               PROVE  ~mount' \/ stray
    OBVIOUS
  <2>1. CASE WriteTable
    BY <2>1 DEF WriteTable, WriterInv, Held
  <2>2. CASE Invalidate
    <3>1. locked /\ mount' = (mount /\ ~listed)
      BY <2>2 DEF Invalidate, Clean, CleanPartly
    <3> QED
      BY <3>1 DEF WriterInv, Held
  <2> QED
    BY <2>1, <2>2, MediumChanges
<1> QED
  BY WriterInvariant, <1>1, PTL DEF Spec, NeverUnderMount
=============================================================================
