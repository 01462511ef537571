-------------------------- MODULE ConfigStoreProofs --------------------------
(***************************************************************************)
(* Proofs about ConfigStore for any number of editors and revisions: its   *)
(* types, that a revision number identifies a version for every draft that *)
(* can still be saved, hence that no update is lost, and that the store    *)
(* implements RevisionRegister.                                            *)
(***************************************************************************)
EXTENDS ConfigStore, TLAPS

-----------------------------------------------------------------------------
(* Types *)

LEMMA Shapes == NoDraft \in Drafts /\ Missing \in Versions
BY BoundAssumption DEF NoDraft, Missing, Drafts, Versions

LEMMA TypeInit == Init => TypeOK
<1> SUFFICES ASSUME Init
             PROVE  TypeOK
  OBVIOUS
<1>1. draft \in [Editors -> Drafts]
  BY Shapes DEF Init
<1>2. target \in Versions /\ backup \in Versions /\ previous \in Versions
  BY Shapes DEF Init
<1>3. newrev \in [Editors -> 0..MaxRev]
  BY BoundAssumption DEF Init
<1> QED
  BY <1>1, <1>2, <1>3, NoEditorAssumption DEF Init, TypeOK

LEMMA FinishDraft ==
    ASSUME draft \in [Editors -> Drafts], newrev \in [Editors -> 0..MaxRev],
           NEW e \in Editors, Finish(e)
    PROVE  draft' \in [Editors -> Drafts] /\ newrev' \in [Editors -> 0..MaxRev]
BY Shapes, BoundAssumption DEF Finish

LEMMA TypeStep == TypeOK /\ [Next]_vars => TypeOK'
<1> SUFFICES ASSUME TypeOK, [Next]_vars
             PROVE  TypeOK'
  OBVIOUS
<1> USE BoundAssumption, NoEditorAssumption, Shapes DEF TypeOK
<1>1. CASE UNCHANGED vars
  BY <1>1 DEF vars
<1>2. ASSUME NEW e \in Editors, New(e)
      PROVE  TypeOK'
  <2>1. draft' \in [Editors -> Drafts]
    BY <1>2 DEF New, Drafts
  <2> QED
    BY <1>2, <2>1 DEF New
<1>3. ASSUME NEW e \in Editors, Load(e)
      PROVE  TypeOK'
  <2>1. target.rev \in 0..MaxRev /\ target.ver \in Nat
    BY <1>3 DEF Load, Versions
  <2>2. draft' \in [Editors -> Drafts]
    BY <1>3, <2>1 DEF Load, Drafts
  <2> QED
    BY <1>3, <2>2 DEF Load
<1>4. ASSUME NEW e \in Editors, Edit(e)
      PROVE  TypeOK'
  <2>1. draft' \in [Editors -> Drafts]
    BY <1>4 DEF Edit, Drafts
  <2> QED
    BY <1>4, <2>1 DEF Edit
<1>5. ASSUME NEW e \in Editors, Drop(e)
      PROVE  TypeOK'
  BY <1>5 DEF Drop
<1>6. ASSUME NEW e \in Editors, Save(e) \/ SaveRevision(e)
      PROVE  TypeOK'
  <2>1. draft[e].base \in 0..MaxRev /\ draft[e].rev \in 0..MaxRev
    BY DEF Drafts
  <2> QED
    BY <1>6, <2>1 DEF Save, SaveRevision, Submit
<1>7. ASSUME NEW e \in Editors, Enter(e)
      PROVE  TypeOK'
  BY <1>7 DEF Enter
<1>8. ASSUME NEW e \in Editors, LockFails(e) \/ Sync(e) \/ Fail(e) \/ Check(e)
      PROVE  TypeOK'
  <2>1. CASE Finish(e)
    BY <1>8, <2>1, FinishDraft DEF LockFails, Sync, Fail, Check, Finish
  <2>2. CASE ~Finish(e)
    BY <1>8, <2>2 DEF LockFails, Sync, Fail, Check
  <2> QED
    BY <2>1, <2>2
<1>9. ASSUME NEW e \in Editors, Backup(e)
      PROVE  TypeOK'
  BY <1>9 DEF Backup
<1>10. ASSUME NEW e \in Editors, Publish(e)
       PROVE  TypeOK'
  <2>1. target.ver \in Nat
    BY DEF Versions, Missing
  <2>2. target' \in Versions
    BY <1>10, <2>1 DEF Publish, Versions
  <2>3. draft' \in [Editors -> Drafts]
    BY <1>10 DEF Publish, Drafts
  <2> QED
    BY <1>10, <2>2, <2>3 DEF Publish
<1>11. ASSUME NEW e \in Editors, Crash(e)
       PROVE  TypeOK'
  BY <1>11 DEF Crash
<1> QED
  BY <1>1, <1>2, <1>3, <1>4, <1>5, <1>6, <1>7, <1>8, <1>9, <1>10, <1>11
     DEF Next, Step, Transaction

\* The variables of the store keep their types, and the lock belongs to the
\* editor inside the transaction.
THEOREM TypeCorrect == Spec => []TypeOK
BY TypeInit, TypeStep, PTL DEF Spec

-----------------------------------------------------------------------------
(* The invariant behind compare-and-swap on revision numbers *)

\* How a draft and the stored version relate.
BaseIdentifies(e) ==
    /\ draft[e].basis <= target.ver
    /\ draft[e].basis = 0 => draft[e].base = 0
    /\ draft[e].basis > 0 /\ draft[e].basis = target.ver => draft[e].base = target.rev
    /\ draft[e].basis > 0 /\ draft[e].basis < target.ver => draft[e].base < target.rev

\* The draft of a new configuration: revision 0 of the file and "no file" look
\* the same to save, but the creator never tries again with the same base.
CreatorOK(e) ==
    draft[e].basis = 0 =>
      /\ draft[e].tracked /\ draft[e].rev = 0 => draft[e].fresh
      /\ pc[e] # "idle" /\ draft[e].tracked /\ newrev[e] = 0 => draft[e].fresh
      /\ draft[e].tracked /\ target # Missing =>
           target.rev > 0 \/ (pc[e] = "sync" /\ newrev[e] = 0 /\ draft[e].fresh)

SavingOK(e) ==
    /\ pc[e] # "idle" => HasDraft(e)
    /\ pc[e] # "idle" /\ ~draft[e].tracked => newrev[e] = 0
    /\ pc[e] \in {"backup", "publish"} => Acceptable(e)
    /\ ~draft[e].tracked => draft[e].basis = 0

OneCreator ==
    /\ ~born => target = Missing /\ \A e \in Editors : ~HasDraft(e)
    /\ \A e, f \in Editors :
         HasDraft(e) /\ HasDraft(f) /\ draft[e].basis = 0 /\ draft[f].basis = 0 => e = f

\* A draft that has not been published leaves the replacement of its version to
\* others.
AuthorOK(e) ==
    HasDraft(e) /\ ~draft[e].stored /\ draft[e].basis # target.ver => author # e

EditorInv(e) == BaseIdentifies(e) /\ CreatorOK(e) /\ SavingOK(e) /\ AuthorOK(e)

StoreInv ==
    /\ TypeOK
    /\ OneCreator
    /\ \A e \in Editors : EditorInv(e)

LEMMA StoreInit == Init => StoreInv
<1> SUFFICES ASSUME Init
             PROVE  StoreInv
  OBVIOUS
<1>1. TypeOK
  BY TypeInit
<1>2. OneCreator
  BY DEF Init, OneCreator, HasDraft
<1>3. ASSUME NEW e \in Editors
      PROVE  EditorInv(e)
  <2>1. draft[e] = NoDraft /\ pc[e] = "idle" /\ target = Missing
    BY DEF Init
  <2> QED
    BY <2>1 DEF EditorInv, BaseIdentifies, CreatorOK, SavingOK, AuthorOK, HasDraft, NoDraft, Missing
<1> QED
  BY <1>1, <1>2, <1>3 DEF StoreInv

\* What a step that leaves the stored version and editor f alone preserves.
LEMMA Others ==
    ASSUME NEW f \in Editors, EditorInv(f), target' = target, author' = author, pc'[f] = pc[f],
           draft'[f] = draft[f], newrev'[f] = newrev[f]
    PROVE  EditorInv(f)'
BY DEF EditorInv, BaseIdentifies, CreatorOK, SavingOK, AuthorOK, HasDraft, Acceptable, ActualRevision

\* An editor without a draft that is not saving.
LEMMA Idle ==
    ASSUME TypeOK, NEW f \in Editors, pc'[f] = "idle", draft'[f] = NoDraft, target' = target
    PROVE  EditorInv(f)'
<1>1. target.ver \in Nat
  BY DEF TypeOK, Versions, Missing
<1> QED
  BY <1>1 DEF EditorInv, BaseIdentifies, CreatorOK, SavingOK, AuthorOK, HasDraft, NoDraft

\* Drafts of a new configuration stay unique while no other one is started.
LEMMA SameCreator ==
    ASSUME OneCreator, born' = born, ~born => target' = target,
           \A f \in Editors : HasDraft(f)' => HasDraft(f) /\ (draft'[f].basis = 0 => draft[f].basis = 0)
    PROVE  OneCreator'
BY DEF OneCreator

LEMMA StoreStep == StoreInv /\ [Next]_vars => StoreInv'
<1> SUFFICES ASSUME StoreInv, [Next]_vars
             PROVE  StoreInv'
  OBVIOUS
<1> USE BoundAssumption, NoEditorAssumption
<1>0. TypeOK /\ TypeOK' /\ OneCreator /\ \A e \in Editors : EditorInv(e)
  BY TypeStep DEF StoreInv
<1> DEFINE Goal == OneCreator' /\ \A f \in Editors : EditorInv(f)'
<1> SUFFICES Goal
  BY <1>0 DEF StoreInv
<1>1. CASE UNCHANGED vars
  <2>1. OneCreator'
    BY <1>0, <1>1 DEF vars, OneCreator, HasDraft
  <2> QED
    BY <1>0, <1>1, <2>1, Others DEF vars
<1>2. ASSUME NEW e \in Editors, New(e)
      PROVE  Goal
  <2>1. draft[e] = NoDraft /\ target = Missing /\ \A f \in Editors : draft[f] = NoDraft
    BY <1>0, <1>2 DEF New, OneCreator, HasDraft
  <2>2. OneCreator'
    BY <1>0, <1>2, <2>1 DEF New, OneCreator, HasDraft, TypeOK
  <2>3. ASSUME NEW tracked \in BOOLEAN,
               draft'[e] = [tracked |-> tracked, base |-> 0, rev |-> 0, basis |-> 0, fresh |-> TRUE,
                            stored |-> FALSE]
        PROVE  EditorInv(e)'
    BY <1>2, <2>1, <2>3 DEF New, EditorInv, BaseIdentifies, CreatorOK, SavingOK, AuthorOK, Missing
  <2>4. EditorInv(e)'
    BY <1>0, <1>2, <2>3 DEF New, TypeOK
  <2>5. ASSUME NEW f \in Editors, f # e
        PROVE  EditorInv(f)'
    BY <1>0, <1>2, <2>5, Others DEF New, TypeOK
  <2> QED
    BY <2>2, <2>4, <2>5
<1>3. ASSUME NEW e \in Editors, Load(e)
      PROVE  Goal
  <2>1. target.ver \in Nat /\ target.ver > 0 /\ target.rev \in Nat
    BY <1>0, <1>3 DEF Load, TypeOK, Versions
  <2>2. draft'[e] = [tracked |-> TRUE, base |-> target.rev, rev |-> target.rev,
                     basis |-> target.ver, fresh |-> FALSE, stored |-> FALSE]
    BY <1>0, <1>3 DEF Load, TypeOK
  <2>3. \A f \in Editors : f # e => draft'[f] = draft[f]
    BY <1>0, <1>3 DEF Load, TypeOK
  <2>4. OneCreator'
    BY <1>0, <1>3, <2>1, <2>2, <2>3 DEF Load, OneCreator, HasDraft
  <2>5. EditorInv(e)'
    BY <1>3, <2>1, <2>2 DEF Load, EditorInv, BaseIdentifies, CreatorOK, SavingOK, AuthorOK
  <2>6. ASSUME NEW f \in Editors, f # e
        PROVE  EditorInv(f)'
    BY <1>0, <1>3, <2>3, <2>6, Others DEF Load
  <2> QED
    BY <2>4, <2>5, <2>6
<1>4. ASSUME NEW e \in Editors, Edit(e)
      PROVE  Goal
  <2>1. draft'[e] = [tracked |-> draft[e].tracked, base |-> draft[e].base,
                     rev |-> draft[e].rev + 1, basis |-> draft[e].basis, fresh |-> FALSE,
                     stored |-> draft[e].stored]
    BY <1>0, <1>4 DEF Edit, TypeOK
  <2>2. \A f \in Editors : f # e => draft'[f] = draft[f]
    BY <1>0, <1>4 DEF Edit, TypeOK
  <2>3. OneCreator'
    <3>1. \A f \in Editors : HasDraft(f)' => HasDraft(f) /\ (draft'[f].basis = 0 => draft[f].basis = 0)
      BY <1>4, <2>1, <2>2 DEF Edit, HasDraft
    <3> QED
      BY <1>0, <1>4, <3>1, SameCreator DEF Edit
  <2>4. draft[e].rev \in Nat
    BY <1>0 DEF TypeOK, Drafts
  <2>5. EditorInv(e)'
    BY <1>0, <1>4, <2>1, <2>4
       DEF Edit, EditorInv, BaseIdentifies, CreatorOK, SavingOK, AuthorOK, HasDraft, NoDraft
  <2>6. ASSUME NEW f \in Editors, f # e
        PROVE  EditorInv(f)'
    BY <1>0, <1>4, <2>2, <2>6, Others DEF Edit
  <2> QED
    BY <2>3, <2>5, <2>6
<1>5. ASSUME NEW e \in Editors, target' = target, author' = author, born' = born,
             pc'[e] = "idle", draft'[e] = NoDraft,
             \A f \in Editors : f # e => pc'[f] = pc[f] /\ draft'[f] = draft[f] /\ newrev'[f] = newrev[f]
      PROVE  Goal
  <2>1. OneCreator'
    BY <1>0, <1>5, SameCreator DEF HasDraft
  <2> QED
    BY <1>0, <1>5, <2>1, Idle, Others
<1>6. ASSUME NEW e \in Editors, Drop(e) \/ Crash(e)
      PROVE  Goal
  BY <1>0, <1>5, <1>6 DEF Drop, Crash, TypeOK
<1>7. ASSUME NEW e \in Editors, target' = target, author' = author, born' = born, Finish(e)
      PROVE  Goal
  <2>1. pc'[e] = "idle" /\ newrev'[e] = 0 /\ author' = author
    BY <1>0, <1>7 DEF Finish, TypeOK
  <2>2. \A f \in Editors : f # e => pc'[f] = pc[f] /\ draft'[f] = draft[f] /\ newrev'[f] = newrev[f]
    BY <1>0, <1>7 DEF Finish, TypeOK
  <2>3. CASE draft[e].fresh /\ draft[e].tracked /\ newrev[e] = 0
    <3>1. draft'[e] = NoDraft
      BY <1>0, <1>7, <2>3 DEF Finish, TypeOK
    <3> QED
      BY <1>5, <1>7, <2>1, <2>2, <3>1
  <2>4. CASE ~(draft[e].fresh /\ draft[e].tracked /\ newrev[e] = 0)
    <3>1. draft'[e] = draft[e]
      BY <1>0, <1>7, <2>4 DEF Finish, TypeOK
    <3>2. OneCreator'
      BY <1>0, <1>7, <2>2, <3>1, SameCreator DEF HasDraft
    <3>3. EditorInv(e)'
      BY <1>0, <1>7, <2>1, <2>4, <3>1
         DEF EditorInv, BaseIdentifies, CreatorOK, SavingOK, AuthorOK, HasDraft
    <3> QED
      BY <1>0, <1>7, <2>2, <3>2, <3>3, Others
  <2> QED
    BY <2>3, <2>4
<1>8. ASSUME NEW e \in Editors, LockFails(e) \/ Sync(e) \/ Fail(e)
      PROVE  Goal
  BY <1>7, <1>8 DEF LockFails, Sync, Fail
<1>9. ASSUME NEW e \in Editors, target' = target, author' = author, born' = born, draft' = draft,
             \A f \in Editors : f # e => pc'[f] = pc[f] /\ newrev'[f] = newrev[f],
             EditorInv(e)'
      PROVE  Goal
  <2>1. OneCreator'
    BY <1>0, <1>9, SameCreator DEF HasDraft
  <2> QED
    BY <1>0, <1>9, <2>1, Others
<1>10. ASSUME NEW e \in Editors, Save(e) \/ SaveRevision(e)
       PROVE  Goal
  <2>1. /\ pc[e] = "idle" /\ pc'[e] = "waiting" /\ HasDraft(e)
        /\ draft' = draft /\ target' = target /\ author' = author
    BY <1>0, <1>10 DEF Save, SaveRevision, Submit, TypeOK
  <2>2. draft[e].base \in Nat /\ draft[e].rev \in Nat
    BY <1>0 DEF TypeOK, Drafts
  <2>3. newrev'[e] = draft[e].rev \/ (draft[e].tracked /\ newrev'[e] = draft[e].base + 1)
    BY <1>0, <1>10 DEF Save, SaveRevision, Submit, TypeOK
  <2>4. ~draft[e].tracked => newrev'[e] = 0
    BY <1>0, <1>10 DEF Save, SaveRevision, Submit, TypeOK
  <2>5. EditorInv(e)'
    BY <1>0, <2>1, <2>2, <2>3, <2>4
       DEF EditorInv, BaseIdentifies, CreatorOK, SavingOK, AuthorOK, HasDraft
  <2> QED
    BY <1>0, <1>9, <1>10, <2>5 DEF Save, SaveRevision, Submit, TypeOK
<1>11. ASSUME NEW e \in Editors, Enter(e)
       PROVE  Goal
  <2>1. /\ pc[e] = "waiting" /\ pc'[e] = "locked"
        /\ newrev' = newrev /\ draft' = draft /\ target' = target /\ author' = author
    BY <1>0, <1>11 DEF Enter, TypeOK
  <2>2. EditorInv(e)'
    BY <1>0, <2>1 DEF EditorInv, BaseIdentifies, CreatorOK, SavingOK, AuthorOK, HasDraft
  <2> QED
    BY <1>0, <1>9, <1>11, <2>2 DEF Enter, TypeOK
<1>12. ASSUME NEW e \in Editors, Check(e)
       PROVE  Goal
  <2>1. CASE Finish(e)
    BY <1>7, <1>12, <2>1 DEF Check
  <2>2. CASE ~Finish(e)
    <3>1. /\ pc[e] = "locked" /\ pc'[e] = "backup" /\ Acceptable(e)
          /\ newrev' = newrev /\ draft' = draft /\ target' = target /\ author' = author
      BY <1>0, <1>12, <2>2 DEF Check, TypeOK
    <3>2. EditorInv(e)'
      BY <1>0, <3>1
         DEF EditorInv, BaseIdentifies, CreatorOK, SavingOK, AuthorOK, HasDraft, Acceptable, ActualRevision
    <3> QED
      BY <1>0, <1>9, <1>12, <2>2, <3>2 DEF Check, TypeOK
  <2> QED
    BY <2>1, <2>2
<1>13. ASSUME NEW e \in Editors, Backup(e)
       PROVE  Goal
  <2>1. /\ pc[e] = "backup" /\ pc'[e] = "publish"
        /\ newrev' = newrev /\ draft' = draft /\ target' = target /\ author' = author
    BY <1>0, <1>13 DEF Backup, TypeOK
  <2>2. EditorInv(e)'
    BY <1>0, <2>1
       DEF EditorInv, BaseIdentifies, CreatorOK, SavingOK, AuthorOK, HasDraft, Acceptable, ActualRevision
  <2> QED
    BY <1>0, <1>9, <1>13, <2>2 DEF Backup, TypeOK
<1>14. ASSUME NEW e \in Editors, Publish(e)
       PROVE  Goal
  <2>1. /\ pc[e] = "publish" /\ pc'[e] = "sync" /\ newrev' = newrev /\ born' = born
        /\ \A f \in Editors : f # e => pc'[f] = pc[f] /\ draft'[f] = draft[f]
        /\ draft'[e].stored /\ author' = e
    BY <1>0, <1>14 DEF Publish, TypeOK, Drafts
  <2>14. \A f \in Editors : /\ draft'[f].tracked = draft[f].tracked
                            /\ draft'[f].base = draft[f].base
                            /\ draft'[f].rev = draft[f].rev
                            /\ draft'[f].basis = draft[f].basis
                            /\ draft'[f].fresh = draft[f].fresh
    BY <1>0, <1>14 DEF Publish, TypeOK, Drafts
  <2>15. \A f \in Editors : HasDraft(f)' = HasDraft(f)
    <3>1. HasDraft(e)
      BY <1>0, <2>1 DEF EditorInv, SavingOK
    <3>2. HasDraft(e)'
      BY <2>1 DEF HasDraft, NoDraft
    <3> QED
      BY <2>1, <3>1, <3>2 DEF HasDraft
  <2>2. target'.rev = newrev[e] /\ target'.ver = target.ver + 1
    BY <1>14 DEF Publish
  <2>3. target.ver \in Nat /\ (target = Missing \/ (target.rev \in Nat /\ target.ver > 0))
    BY <1>0 DEF TypeOK, Versions, Missing
  <2>4. \A f \in Editors : /\ newrev[f] \in Nat /\ draft[f].base \in Nat
                           /\ draft[f].basis \in Nat /\ draft[f].rev \in Nat
    BY <1>0 DEF TypeOK, Drafts
  <2>5. Acceptable(e) /\ HasDraft(e)
    BY <1>0, <2>1 DEF EditorInv, SavingOK
  <2>6. \A f \in Editors : f # e => pc[f] \in {"idle", "waiting"}
    BY <1>0, <2>1 DEF TypeOK
  <2>7. OneCreator'
    BY <1>0, <2>1, <2>5, <2>14, <2>15, SameCreator DEF OneCreator
  <2>8. target = Missing => target.ver = 0
    BY DEF Missing
  <2>9. ASSUME NEW f \in Editors
        PROVE  BaseIdentifies(f)'
    BY <1>0, <2>1, <2>2, <2>3, <2>4, <2>5, <2>8, <2>9, <2>14
       DEF EditorInv, BaseIdentifies, Acceptable, ActualRevision
  <2>10. target' # Missing
    BY <2>2, <2>3 DEF Missing
  <2>11. CreatorOK(e)'
    BY <1>0, <2>1, <2>2, <2>4, <2>14 DEF EditorInv, CreatorOK
  <2>12. ASSUME NEW f \in Editors, f # e
         PROVE  CreatorOK(f)'
    <3>1. CASE newrev[e] > 0
      BY <1>0, <2>1, <2>2, <2>4, <2>12, <3>1 DEF EditorInv, CreatorOK
    <3>2. CASE newrev[e] = 0
      <4>1. target = Missing
        BY <2>3, <2>5, <3>2 DEF Acceptable
      <4>2. draft[e].basis = 0
        BY <1>0, <2>4, <2>8, <4>1 DEF EditorInv, BaseIdentifies
      <4>3. ~(HasDraft(f) /\ draft[f].basis = 0)
        BY <1>0, <2>5, <2>12, <4>2 DEF OneCreator
      <4>4. draft[f].tracked => HasDraft(f)
        BY DEF HasDraft, NoDraft
      <4> QED
        BY <1>0, <2>1, <2>12, <4>3, <4>4 DEF EditorInv, CreatorOK, HasDraft, NoDraft
    <3> QED
      BY <2>4, <3>1, <3>2
  <2>13. ASSUME NEW f \in Editors
         PROVE  SavingOK(f)'
    BY <1>0, <2>1, <2>6, <2>13, <2>14, <2>15 DEF EditorInv, SavingOK
  <2>16. ASSUME NEW f \in Editors
         PROVE  AuthorOK(f)'
    BY <2>1, <2>16 DEF AuthorOK
  <2> QED
    BY <2>7, <2>9, <2>11, <2>12, <2>13, <2>16 DEF EditorInv
<1> QED
  BY <1>1, <1>2, <1>3, <1>4, <1>6, <1>8, <1>10, <1>11, <1>12, <1>13, <1>14
     DEF Next, Step, Transaction

LEMMA StoreInvariance == Spec => []StoreInv
BY StoreInit, StoreStep, PTL DEF Spec

-----------------------------------------------------------------------------
(* What the invariant gives *)

\* At publication the draft comes from the stored version, and its revision
\* is larger.
LEMMA PublishFromBasis ==
    ASSUME StoreInv, NEW e \in Editors, pc[e] = "publish"
    PROVE  /\ draft[e].basis = target.ver
           /\ newrev[e] > target.rev
           /\ newrev[e] \in 0..MaxRev
<1> USE BoundAssumption
<1>1. TypeOK /\ EditorInv(e) /\ Acceptable(e)
  BY DEF StoreInv, EditorInv, SavingOK
<1>2. newrev[e] \in 0..MaxRev /\ draft[e].basis \in Nat /\ draft[e].base \in Nat
  BY <1>1 DEF TypeOK, Drafts
<1>3. CASE target = Missing
  <2>1. target.ver = 0 /\ target.rev = -1
    BY <1>3 DEF Missing
  <2> QED
    BY <1>1, <1>2, <2>1 DEF EditorInv, BaseIdentifies
<1>4. CASE target # Missing
  <2>1. target.rev \in Nat /\ target.ver \in Nat /\ target.ver > 0
    BY <1>1, <1>4 DEF TypeOK, Versions
  <2>2. draft[e].base = target.rev /\ newrev[e] > target.rev
    BY <1>1, <1>4 DEF Acceptable, ActualRevision
  <2>3. draft[e].basis # 0
    <3>1. draft[e].tracked
      BY <1>1, <2>1, <2>2 DEF EditorInv, SavingOK
    <3> QED
      BY <1>1, <1>4, <2>1, <2>2, <3>1 DEF EditorInv, BaseIdentifies, CreatorOK
  <2> QED
    BY <1>1, <1>2, <2>1, <2>2, <2>3 DEF EditorInv, BaseIdentifies
<1> QED
  BY <1>3, <1>4

\* Only Publish replaces the stored version, and only it leads to "sync".
LEMMA OnlyPublish ==
    ASSUME TypeOK, [Next]_vars
    PROVE  /\ \A e \in Editors : pc[e] = "publish" /\ pc'[e] = "sync" => Publish(e)
           /\ target' # target => \E e \in Editors : Publish(e)
<1>1. CASE UNCHANGED vars
  BY <1>1 DEF vars
<1>2. ASSUME NEW f \in Editors, Step(f), ~Publish(f)
      PROVE  target' = target /\ \A e \in Editors : ~(pc[e] = "publish" /\ pc'[e] = "sync")
  BY <1>2 DEF TypeOK, Step, Transaction, New, Load, Edit, Drop, Save, SaveRevision, Submit,
              Enter, LockFails, Check, Backup, Sync, Fail, Crash, Finish
<1>3. ASSUME NEW f \in Editors, Publish(f)
      PROVE  \A e \in Editors : pc[e] = "publish" /\ pc'[e] = "sync" => e = f
  BY <1>3 DEF TypeOK, Publish
<1> QED
  BY <1>1, <1>2, <1>3 DEF Next

\* A version is replaced only by a draft that was loaded from that version:
\* the revision check of save suffices although it never looks at contents.
THEOREM LostUpdatesExcluded == Spec => NoLostUpdate
<1>1. StoreInv /\ [Next]_vars =>
        [\A e \in Editors : pc[e] = "publish" /\ pc'[e] = "sync" => draft[e].basis = target.ver]_vars
  BY OnlyPublish, PublishFromBasis DEF StoreInv, Publish
<1> QED
  BY <1>1, StoreInvariance, PTL DEF Spec, NoLostUpdate

\* Every replacement of the stored configuration raises its revision.
THEOREM RevisionsIncrease == Spec => RevisionIncreases
<1>1. ASSUME StoreInv, [Next]_vars, target' # target
      PROVE  target'.rev > target.rev
  <2>1. PICK e \in Editors : Publish(e)
    BY <1>1, OnlyPublish DEF StoreInv
  <2>2. newrev[e] > target.rev
    BY <1>1, <2>1, PublishFromBasis DEF Publish
  <2> QED
    BY <2>1, <2>2 DEF Publish
<1>2. StoreInv /\ [Next]_vars => [target' # target => target'.rev > target.rev]_vars
  BY <1>1
<1> QED
  BY <1>2, StoreInvariance, PTL DEF Spec, RevisionIncreases

\* An edited draft is refused only when the version that it comes from has been
\* replaced: by another editor, unless a save of this draft was published.
THEOREM ConflictsAreReal == Spec => NoSpuriousConflict
<1> DEFINE Real == \A e \in Editors :
             Check(e) /\ pc'[e] = "idle" /\ newrev[e] > draft[e].base
               => /\ draft[e].basis # target.ver
                  /\ author # e \/ draft[e].stored
<1>1. ASSUME StoreInv, NEW e \in Editors, Check(e), pc'[e] = "idle", newrev[e] > draft[e].base
      PROVE  draft[e].basis # target.ver
  <2>1. TypeOK /\ EditorInv(e)
    BY <1>1 DEF StoreInv
  <2>2. ~Acceptable(e)
    BY <1>1, <2>1 DEF Check, TypeOK
  <2>3. newrev[e] \in Nat /\ draft[e].base \in Nat /\ draft[e].basis \in Nat
    BY <2>1, BoundAssumption DEF TypeOK, Drafts
  <2>4. CASE target = Missing
    <3>1. target.ver = 0
      BY <2>4 DEF Missing
    <3> QED
      BY <2>1, <2>2, <2>3, <2>4, <3>1 DEF Acceptable, ActualRevision, EditorInv, BaseIdentifies
  <2>5. CASE target # Missing
    <3>1. target.rev \in Nat /\ target.ver \in Nat /\ target.ver > 0
      BY <2>1, <2>5, BoundAssumption DEF TypeOK, Versions
    <3> QED
      BY <1>1, <2>1, <2>2, <2>3, <2>5, <3>1
         DEF Acceptable, ActualRevision, EditorInv, BaseIdentifies
  <2> QED
    BY <2>4, <2>5
<1>3. ASSUME StoreInv, NEW e \in Editors, Check(e), draft[e].basis # target.ver
      PROVE  author # e \/ draft[e].stored
  BY <1>3 DEF StoreInv, EditorInv, AuthorOK, SavingOK, Check
<1>2. StoreInv /\ [Next]_vars => [Real]_vars
  BY <1>1, <1>3
<1> QED
  BY <1>2, StoreInvariance, PTL DEF Spec, NoSpuriousConflict

-----------------------------------------------------------------------------
(* The backup *)

\* Inductive: between the copy and the replacement, the backup is the target.
BackupInv ==
    /\ TypeOK
    /\ BackupKeepsPredecessor
    /\ \A e \in Editors : pc[e] = "publish" /\ target # Missing => backup = target

LEMMA BackupStep == BackupInv /\ [Next]_vars => BackupInv'
<1> SUFFICES ASSUME BackupInv, [Next]_vars
             PROVE  BackupInv'
  OBVIOUS
<1>0. TypeOK /\ TypeOK' /\ BackupKeepsPredecessor
  BY TypeStep DEF BackupInv
<1>1. CASE UNCHANGED vars
  BY <1>0, <1>1 DEF vars, BackupInv, BackupKeepsPredecessor
<1>2. ASSUME NEW e \in Editors, Backup(e)
      PROVE  BackupInv'
  <2>1. target = Missing => target.ver = 0
    BY DEF Missing
  <2> QED
    BY <1>0, <1>2, <2>1 DEF Backup, BackupInv, BackupKeepsPredecessor, TypeOK
<1>3. ASSUME NEW e \in Editors, Publish(e)
      PROVE  BackupInv'
  <2>1. \A f \in Editors : pc'[f] # "publish"
    BY <1>0, <1>3 DEF Publish, TypeOK
  <2>2. target'.ver = target.ver + 1 /\ previous' = target /\ backup' = backup
    BY <1>3 DEF Publish
  <2>3. target = Missing => target.ver = 0
    BY DEF Missing
  <2>4. target # Missing => backup = target
    BY <1>3 DEF Publish, BackupInv
  <2> QED
    BY <1>0, <2>1, <2>2, <2>3, <2>4 DEF BackupInv, BackupKeepsPredecessor
<1>4. ASSUME NEW e \in Editors, Step(e), ~Backup(e), ~Publish(e)
      PROVE  BackupInv'
  <2>1. target' = target /\ backup' = backup /\ previous' = previous
    BY <1>4 DEF Step, Transaction, New, Load, Edit, Drop, Save, SaveRevision, Submit, Enter,
                LockFails, Check, Sync, Fail, Crash, Finish
  <2>2. \A f \in Editors : pc'[f] = "publish" => pc[f] = "publish"
    BY <1>0, <1>4 DEF TypeOK, Step, Transaction, New, Load, Edit, Drop, Save, SaveRevision, Submit,
                Enter, LockFails, Check, Sync, Fail, Crash, Finish
  <2> QED
    BY <1>0, <2>1, <2>2 DEF BackupInv, BackupKeepsPredecessor
<1> QED
  BY <1>1, <1>2, <1>3, <1>4 DEF Next

\* The version before the current one can be restored from the backup, unless
\* a later save died between its backup and its publication.
THEOREM BackupCorrect == Spec => []BackupKeepsPredecessor
<1>1. Init => BackupInv
  BY TypeInit DEF Init, BackupInv, BackupKeepsPredecessor, Missing
<1> QED
  BY <1>1, BackupStep, PTL DEF Spec, BackupInv

-----------------------------------------------------------------------------
(* The store implements RevisionRegister *)

LEMMA RefineInit == Init => Register!RegisterInit
BY DEF Init, Register!RegisterInit, Missing, Register!Missing, NoDraft

LEMMA RefineStep == StoreInv /\ [Next]_vars => [Register!RegisterNext]_(Register!rvars)
<1> SUFFICES ASSUME StoreInv, [Next]_vars
             PROVE  [Register!RegisterNext]_(Register!rvars)
  OBVIOUS
<1> DEFINE b == [e \in Editors |-> draft[e].basis]
           Stutter == target' = target /\ b' = b
<1>0. TypeOK
  BY DEF StoreInv
<1>1. Stutter => UNCHANGED Register!rvars
  BY DEF Register!rvars
<1>2. CASE UNCHANGED vars
  BY <1>1, <1>2 DEF vars
<1>3. ASSUME NEW e \in Editors, target' = target,
             draft' = [draft EXCEPT ![e] = NoDraft]
      PROVE  Register!Forget(e)
  BY <1>0, <1>3 DEF TypeOK, Register!Forget, NoDraft
<1>4. ASSUME NEW e \in Editors, New(e)
      PROVE  Register!Forget(e)
  <2>1. PICK t \in BOOLEAN :
          draft' = [draft EXCEPT ![e] = [tracked |-> t, base |-> 0, rev |-> 0,
                                         basis |-> 0, fresh |-> TRUE, stored |-> FALSE]]
    BY <1>4 DEF New
  <2>2. draft'[e].basis = 0 /\ \A f \in Editors : f # e => draft'[f] = draft[f]
    BY <1>0, <2>1 DEF TypeOK
  <2> QED
    BY <1>4, <2>2 DEF New, Register!Forget
<1>5. ASSUME NEW e \in Editors, Load(e)
      PROVE  Register!Observe(e)
  BY <1>0, <1>5 DEF TypeOK, Load, Register!Observe, Missing, Register!Missing
<1>6. ASSUME NEW e \in Editors, Edit(e)
      PROVE  Stutter
  BY <1>0, <1>6 DEF TypeOK, Edit
<1>7. ASSUME NEW e \in Editors, target' = target, Finish(e)
      PROVE  Stutter \/ Register!Forget(e)
  <2>1. CASE draft[e].fresh /\ draft[e].tracked /\ newrev[e] = 0
    BY <1>3, <1>7, <2>1 DEF Finish
  <2>2. CASE ~(draft[e].fresh /\ draft[e].tracked /\ newrev[e] = 0)
    BY <1>0, <1>7, <2>2 DEF TypeOK, Finish
  <2> QED
    BY <2>1, <2>2
<1>8. ASSUME NEW e \in Editors, Publish(e)
      PROVE  Register!Replace(e)
  <2>1. draft[e].basis = target.ver /\ newrev[e] > target.rev /\ newrev[e] \in 0..MaxRev
    BY <1>8, PublishFromBasis DEF Publish
  <2>2. b' = b
    BY <1>0, <1>8 DEF Publish, TypeOK, Drafts
  <2> QED
    BY <1>8, <2>1, <2>2 DEF Publish, Register!Replace
<1>9. ASSUME NEW e \in Editors, Step(e)
      PROVE  Stutter \/ Register!Forget(e) \/ Register!Observe(e) \/ Register!Replace(e)
  <2>1. CASE Drop(e) \/ Crash(e)
    BY <1>3, <2>1 DEF Drop, Crash
  <2>2. CASE Save(e) \/ SaveRevision(e) \/ Enter(e) \/ Backup(e)
    BY <2>2 DEF Save, SaveRevision, Submit, Enter, Backup
  <2>3. CASE LockFails(e) \/ Sync(e) \/ Fail(e)
    BY <1>7, <2>3 DEF LockFails, Sync, Fail
  <2>4. CASE Check(e)
    BY <1>7, <2>4 DEF Check
  <2> QED
    BY <1>4, <1>5, <1>6, <1>8, <1>9, <2>1, <2>2, <2>3, <2>4 DEF Step, Transaction
<1> QED
  BY <1>1, <1>2, <1>9 DEF Next, Register!RegisterNext

\* The files, the lock and the revision numbers of the store implement a
\* register replaced only by editors that saw its current version.
THEOREM StoreRefinesRegister == Spec => Refinement
BY StoreInvariance, RefineInit, RefineStep, PTL DEF Spec, Refinement, Register!RegisterSpec
=============================================================================
