----------------------------- MODULE ConfigStore -----------------------------
(***************************************************************************)
(* Revisioned storage of one configuration: ConfigurationStore.save and    *)
(* load (macloader/configuration/store.py) as WorkflowService calls them   *)
(* (macloader/workflow/service.py).  Editors are command line processes    *)
(* and TUI threads that share the configuration directory.  They read      *)
(* without a lock and save by compare-and-swap on the revision number,     *)
(* under one lock per configuration (an RLock plus flock); any of them may *)
(* be killed at any step.                                                  *)
(*                                                                         *)
(* A stored version is its revision and a serial number "ver", which is a  *)
(* history value: the program compares revisions only.  Of a draft, so are *)
(* "basis", the version that it comes from, and "stored", that a save of   *)
(* it has been published since.                                            *)
(***************************************************************************)
EXTENDS Integers

CONSTANTS
    Editors,    \* threads of control that edit the configuration
    MaxRev,     \* bound: largest revision a draft reaches
    NoEditor    \* the lock is free

ASSUME BoundAssumption == MaxRev \in Nat
ASSUME NoEditorAssumption == NoEditor \notin Editors

Missing == [rev |-> -1, ver |-> 0]
NoDraft == [tracked |-> FALSE, base |-> 0, rev |-> 0, basis |-> 0, fresh |-> FALSE,
            stored |-> FALSE]

VARIABLES
    pc,        \* where each editor is in save
    draft,     \* the draft an editor works on
    newrev,    \* revision of the configuration handed to store.save
    born,      \* the configuration's uuid has been drawn
    target,    \* <id>.json
    backup,    \* <id>.json.bak
    previous,  \* history: the version that target replaced
    author,    \* history: the editor whose save made target
    lock       \* the editor inside the transaction

vars == <<pc, draft, newrev, born, target, backup, previous, author, lock>>

HasDraft(e) == draft[e] # NoDraft

Versions == {Missing} \cup [rev : 0..MaxRev, ver : Nat \ {0}]
Drafts == [tracked : BOOLEAN, base : 0..MaxRev, rev : 0..MaxRev, basis : Nat, fresh : BOOLEAN,
           stored : BOOLEAN]

Init ==
    /\ pc = [e \in Editors |-> "idle"]
    /\ draft = [e \in Editors |-> NoDraft]
    /\ newrev = [e \in Editors |-> 0]
    /\ born = FALSE
    /\ target = Missing
    /\ backup = Missing
    /\ previous = Missing
    /\ author = NoEditor
    /\ lock = NoEditor

-----------------------------------------------------------------------------
(* Drafts *)

\* create (tracked, base 0) and import_as_new (no base revision): revision 0
\* under a uuid nobody else has.
New(e) ==
    /\ pc[e] = "idle"
    /\ ~born
    /\ born' = TRUE
    /\ \E tracked \in BOOLEAN :
         draft' = [draft EXCEPT ![e] = [tracked |-> tracked, base |-> 0, rev |-> 0,
                                        basis |-> 0, fresh |-> TRUE, stored |-> FALSE]]
    /\ UNCHANGED <<pc, newrev, target, backup, previous, author, lock>>

\* WorkflowService.load: no lock; os.replace makes the read whole.
Load(e) ==
    /\ pc[e] = "idle"
    /\ target # Missing
    /\ draft' = [draft EXCEPT ![e] = [tracked |-> TRUE, base |-> target.rev,
                                      rev |-> target.rev, basis |-> target.ver,
                                      fresh |-> FALSE, stored |-> FALSE]]
    /\ UNCHANGED <<pc, newrev, born, target, backup, previous, author, lock>>

\* set_target, set_option, add_evidence, acknowledge...: a new draft, revision + 1.
Edit(e) ==
    /\ pc[e] = "idle"
    /\ HasDraft(e)
    /\ draft[e].rev < MaxRev
    /\ draft' = [draft EXCEPT ![e] = [tracked |-> @.tracked, base |-> @.base, rev |-> @.rev + 1,
                                      basis |-> @.basis, fresh |-> FALSE,
                                      stored |-> @.stored]]
    /\ UNCHANGED <<pc, newrev, born, target, backup, previous, author, lock>>

\* The process exits or the user starts over.
Drop(e) ==
    /\ pc[e] = "idle"
    /\ HasDraft(e)
    /\ draft' = [draft EXCEPT ![e] = NoDraft]
    /\ UNCHANGED <<pc, newrev, born, target, backup, previous, author, lock>>

-----------------------------------------------------------------------------
(* Starting a save *)

Submit(e, rev) ==
    /\ newrev' = [newrev EXCEPT ![e] = rev]
    /\ pc' = [pc EXCEPT ![e] = "waiting"]
    /\ UNCHANGED <<draft, born, target, backup, previous, author, lock>>

\* WorkflowService.save: without a base revision only revision 0 is accepted.
Save(e) ==
    /\ pc[e] = "idle"
    /\ HasDraft(e)
    /\ draft[e].tracked \/ draft[e].rev = 0
    /\ Submit(e, draft[e].rev)

\* WorkflowService.save_revision: the loaded base plus one.
SaveRevision(e) ==
    /\ pc[e] = "idle"
    /\ HasDraft(e)
    /\ draft[e].tracked
    /\ draft[e].base < MaxRev
    /\ Submit(e, draft[e].base + 1)

-----------------------------------------------------------------------------
(* The transaction *)

\* save returns or raises.  "config new" saves its unedited draft and exits,
\* whatever the outcome.
Finish(e) ==
    /\ pc' = [pc EXCEPT ![e] = "idle"]
    /\ newrev' = [newrev EXCEPT ![e] = 0]
    /\ draft' = [draft EXCEPT ![e] = IF @.fresh /\ @.tracked /\ newrev[e] = 0 THEN NoDraft ELSE @]

\* A plausible bug: the transaction is entered while another one is running.
EnterUnlocked(e) ==
    /\ pc[e] = "waiting"
    /\ lock' = e
    /\ pc' = [pc EXCEPT ![e] = "locked"]
    /\ UNCHANGED <<draft, newrev, born, target, backup, previous, author>>

\* _transaction_lock.
Enter(e) ==
    /\ pc[e] = "waiting"
    /\ lock = NoEditor
    /\ lock' = e
    /\ pc' = [pc EXCEPT ![e] = "locked"]
    /\ UNCHANGED <<draft, newrev, born, target, backup, previous, author>>

\* msvcrt.locking gives up while another process holds the lock.
LockFails(e) ==
    /\ pc[e] = "waiting"
    /\ lock # NoEditor
    /\ Finish(e)
    /\ UNCHANGED <<born, target, backup, previous, author, lock>>

\* The stored revision, 0 when there is no file.
ActualRevision == IF target = Missing THEN 0 ELSE target.rev

\* A plausible bug: only "the revision must increase" is checked.
AcceptableIfNewer(e) == target # Missing => newrev[e] > target.rev

\* A plausible bug: the new revision may equal the stored one.
AcceptableSameBase(e) == ActualRevision = draft[e].base

\* A plausible bug: the new revision must be the next one.
AcceptableIfNext(e) == newrev[e] = ActualRevision + 1

\* What save demands of the stored version.
Acceptable(e) ==
    /\ ActualRevision = draft[e].base
    /\ target # Missing => newrev[e] > target.rev

\* A plausible bug: a conflict leaves the transaction without unlocking.
CheckKeepingLock(e) ==
    /\ pc[e] = "locked"
    /\ \/ /\ Acceptable(e)
          /\ pc' = [pc EXCEPT ![e] = "backup"]
          /\ UNCHANGED <<draft, newrev>>
       \/ /\ ~Acceptable(e)
          /\ Finish(e)
    /\ UNCHANGED <<born, target, backup, previous, author, lock>>

\* Load the current version and validate the request against it.
Check(e) ==
    /\ pc[e] = "locked"
    /\ \/ /\ Acceptable(e)
          /\ pc' = [pc EXCEPT ![e] = "backup"]
          /\ UNCHANGED <<draft, newrev, lock>>
       \/ /\ ~Acceptable(e)
          /\ Finish(e)
          /\ lock' = NoEditor
    /\ UNCHANGED <<born, target, backup, previous, author>>

\* A plausible bug: no copy of the version about to be replaced is made.
BackupForgotten(e) ==
    /\ pc[e] = "backup"
    /\ pc' = [pc EXCEPT ![e] = "publish"]
    /\ UNCHANGED <<draft, newrev, born, target, backup, previous, author, lock>>

\* The new version is in a temporary file; the current one is copied aside.
Backup(e) ==
    /\ pc[e] = "backup"
    /\ backup' = IF target = Missing THEN backup ELSE target
    /\ pc' = [pc EXCEPT ![e] = "publish"]
    /\ UNCHANGED <<draft, newrev, born, target, previous, author, lock>>

\* os.replace(temporary, target).
Publish(e) ==
    /\ pc[e] = "publish"
    /\ target' = [rev |-> newrev[e], ver |-> target.ver + 1]
    /\ previous' = target
    /\ author' = e
    /\ draft' = [draft EXCEPT ![e].stored = TRUE]
    /\ pc' = [pc EXCEPT ![e] = "sync"]
    /\ UNCHANGED <<newrev, born, backup, lock>>

\* Directory fsync; its failure is reported although the version is published.
Sync(e) ==
    /\ pc[e] = "sync"
    /\ Finish(e)
    /\ lock' = NoEditor
    /\ UNCHANGED <<born, target, backup, previous, author>>

\* Writing the temporary file, the backup or the replacement raises.
Fail(e) ==
    /\ pc[e] \in {"backup", "publish"}
    /\ Finish(e)
    /\ lock' = NoEditor
    /\ UNCHANGED <<born, target, backup, previous, author>>

\* The process is killed: its draft is gone, the kernel drops its flock.
Crash(e) ==
    /\ pc[e] # "idle"
    /\ pc' = [pc EXCEPT ![e] = "idle"]
    /\ draft' = [draft EXCEPT ![e] = NoDraft]
    /\ newrev' = [newrev EXCEPT ![e] = 0]
    /\ lock' = IF lock = e THEN NoEditor ELSE lock
    /\ UNCHANGED <<born, target, backup, previous, author>>

Transaction(e) == Check(e) \/ Backup(e) \/ Publish(e) \/ Sync(e) \/ Fail(e)

Step(e) ==
    \/ New(e) \/ Load(e) \/ Edit(e) \/ Drop(e) \/ Save(e) \/ SaveRevision(e)
    \/ Enter(e) \/ LockFails(e) \/ Transaction(e) \/ Crash(e)

Next == \E e \in Editors : Step(e)

Spec == Init /\ [][Next]_vars

\* A transaction that was entered runs on; flock serves its waiters in turn.
FairSpec ==
    Spec /\ \A e \in Editors : WF_vars(Transaction(e)) /\ SF_vars(Enter(e))

-----------------------------------------------------------------------------
(* Properties *)

\* Types, and the transaction lock belongs to the editor inside.
TypeOK ==
    /\ pc \in [Editors -> {"idle", "waiting", "locked", "backup", "publish", "sync"}]
    /\ draft \in [Editors -> Drafts]
    /\ newrev \in [Editors -> 0..MaxRev]
    /\ born \in BOOLEAN
    /\ target \in Versions
    /\ backup \in Versions
    /\ previous \in Versions
    /\ {author, lock} \subseteq Editors \cup {NoEditor}
    /\ \A e \in Editors : pc[e] \notin {"idle", "waiting"} <=> lock = e

\* A version is replaced only by a draft that comes from that very version:
\* equal revision numbers never hide another editor's save.
NoLostUpdate ==
    [][\A e \in Editors : pc[e] = "publish" /\ pc'[e] = "sync"
                            => draft[e].basis = target.ver]_vars

\* A stored configuration is replaced only by one with a larger revision.
RevisionIncreases ==
    [][target' # target => target'.rev > target.rev]_vars

\* The save of an edited draft is refused only when the version that the draft
\* comes from has been replaced: by somebody else, unless a save of this very
\* draft was published before it failed (the directory's fsync, store.py:69) or
\* its result was not loaded again.  Whatever fails before the publication can be
\* tried again.
NoSpuriousConflict ==
    [][\A e \in Editors :
         Check(e) /\ pc'[e] = "idle" /\ newrev[e] > draft[e].base
           => /\ draft[e].basis # target.ver
              /\ author # e \/ draft[e].stored]_vars

\* Once a configuration has been replaced, its backup is the version before,
\* or, when a save died between backup and publication, the current one.
BackupKeepsPredecessor ==
    target.ver > 1 => backup \in {previous, target}

\* Every save that asked for the lock ends.
SaveEnds ==
    \A e \in Editors : pc[e] = "waiting" ~> pc[e] = "idle"

\* The store implements the register that its editors rely on.
Register == INSTANCE RevisionRegister
    WITH current <- target, basis <- [e \in Editors |-> draft[e].basis]

Refinement == Register!RegisterSpec
=============================================================================
