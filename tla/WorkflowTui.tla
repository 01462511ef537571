----------------------------- MODULE WorkflowTui -----------------------------
(***************************************************************************)
(* The terminal interface (WorkflowApp in macloader/ui/tui.py) between its *)
(* user and its worker threads.  Handlers run on the UI thread, one after  *)
(* the other; those that save and load again are two steps, since workers  *)
(* and other processes may save between the two.  A worker runs in a       *)
(* thread of its own and posts its result back with call_from_thread,      *)
(* where it is dropped unless its operation generation is still the        *)
(* current one.                                                            *)
(*                                                                         *)
(* What a configuration says is a number: equal numbers, equal semantic    *)
(* content.  An edit makes a number that was not used before, a negative   *)
(* one in another process.  Messages are left out, and with them the       *)
(* workers that have nothing else to show.                                 *)
(***************************************************************************)
EXTENDS Integers, FiniteSets

CONSTANTS
    MaxPresses,  \* bound: buttons the user presses
    MaxOthers,   \* bound: saves by other processes
    Faults,      \* {"io"}: reading and writing configurations may fail
    None         \* no draft, no configuration, no EFI

ASSUME ConstantsAssumption ==
    /\ MaxPresses \in Nat
    /\ MaxOthers \in Nat
    /\ Faults \subseteq {"io"}

\* loaded_base_revision is None.
Untracked == -1

\* The handlers that save and then load.
Reasons == {"save", "import", "evidence"}

ASSUME NoneAssumption ==
    /\ None \notin [id : Nat, content : Int, base : {Untracked} \cup Nat, rev : Nat, hw : Nat]
    /\ None \notin [id : Nat, why : Reasons]

VARIABLES
    fixture,   \* the app was started with a hardware fixture
    configId,  \* config_id: the configuration being resumed
    draft,     \* _draft
    snap,      \* _snapshot, 0 when there is none
    flag,      \* _cancel_requested
    gen,       \* _operation_generation
    efi,       \* _efi_manifest, _efi_output: what they were built from
    disc,      \* _recovery_result: the exact target has been discovered
    busy,      \* what the UI thread has saved and is about to load
    store,     \* the stored configurations
    recovery,  \* the build that the persisted Recovery result is bound to
    workers,   \* workers of the group "workflow-stage" that have not ended
    presses,   \* buttons pressed so far
    others,    \* saves by other processes so far
    last       \* the last number used for a content, snapshot or id

ui == <<configId, draft, snap, flag, gen, efi, disc, busy>>
vars == <<fixture, ui, store, recovery, workers, presses, others, last>>

\* Everything new gets a number of its own.
Fresh == last + 1

Stored(id) == id \in DOMAIN store

\* WorkflowService.load.
Loaded(id) ==
    [id |-> id, content |-> store[id].content, base |-> store[id].rev,
     rev |-> store[id].rev, hw |-> store[id].hw]

\* WorkflowService.create: a draft bound to the snapshot just taken.
Created(n) == [id |-> n, content |-> n, base |-> 0, rev |-> 0, hw |-> n]

\* set_target, set_option, acknowledge, set_identity_reference, add_evidence.
Edited(d) ==
    [id |-> d.id, content |-> Fresh, base |-> d.base, rev |-> d.rev + 1, hw |-> d.hw]

\* ConfigurationStore.save accepts d at revision r over the version of base b.
Accepts(d, b, r) ==
    IF Stored(d.id) THEN store[d.id].rev = b /\ r > store[d.id].rev ELSE b = 0

\* WorkflowService.save: an untracked draft may be saved at revision zero.
SaveAccepts(d) ==
    \/ d.base # Untracked /\ Accepts(d, d.base, d.rev)
    \/ d.base = Untracked /\ d.rev = 0 /\ Accepts(d, 0, 0)

Put(d, r) ==
    [i \in DOMAIN store \cup {d.id} |->
        IF i = d.id THEN [rev |-> r, content |-> d.content, hw |-> d.hw] ELSE store[i]]

\* worker.cancel() stops a worker whose thread has not started; the others go on.
Started == {w \in workers : w.stage # "queued"}

\* @work(exclusive=True): a new worker cancels those of its group.  It is passed
\* what its operation works on.  Importing a capture edits and saves the draft
\* as generating an identity does; a check leaves nothing to wait for.
Launch(kind, g) ==
    workers' = Started \cup IF kind = "check" THEN {} ELSE
        {[n |-> presses + 1, kind |-> IF kind = "acpi" THEN "identity" ELSE kind,
          stage |-> "queued", gen |-> g,
          draft |-> IF kind = "discover" THEN None ELSE draft,
          snap |-> IF kind \in {"efi", "recovery"} THEN snap ELSE 0,
          efi |-> IF kind = "recovery" THEN efi ELSE None,
          found |-> kind = "recovery" /\ disc]}

Press ==
    /\ busy = None
    /\ presses < MaxPresses
    /\ presses' = presses + 1
    /\ UNCHANGED <<fixture, others>>

\* A handler that has saved d has still to load it.
ToLoad(d, why) == busy' = [id |-> d.id, why |-> why]

\* on_mount refreshes before the first button can be pressed.
Button == gen > 0 /\ Press

Init ==
    /\ fixture \in BOOLEAN
    /\ \/ configId = None /\ store = [i \in {} |-> 0] /\ last = 0
       \/ configId = 1 /\ store = [i \in {1} |-> [rev |-> 1, content |-> 1, hw |-> 1]] /\ last = 1
    /\ draft = None
    /\ snap = 0
    /\ flag = FALSE
    /\ gen = 0
    /\ efi = None
    /\ disc = FALSE
    /\ busy = None
    /\ recovery = None
    /\ workers = {}
    /\ presses = 0
    /\ others = 0

-----------------------------------------------------------------------------
(* Handlers of the UI thread *)

\* action_refresh, also run when the app starts: load the configuration to
\* resume (its private snapshot may be missing), observe the hardware again
\* under a fixture, or start a new draft.
Refresh ==
    /\ Press
    /\ workers' = Started
    /\ gen' = gen + 1
    /\ flag' = FALSE
    /\ efi' = None
    /\ \/ /\ draft = None /\ configId # None
          /\ draft' = Loaded(configId)
          /\ last' = Fresh
          /\ \/ snap' = store[configId].hw
             \/ fixture /\ snap' = Fresh
             \/ /\ ~fixture \/ "io" \in Faults
                /\ UNCHANGED snap
       \/ /\ draft # None /\ fixture
          /\ snap' \in {snap, draft.hw, Fresh} \ {0}
          /\ last' = Fresh
          /\ UNCHANGED draft
       \/ /\ configId = None \/ draft # None
          /\ draft = None \/ ~fixture
          /\ draft' = Created(Fresh)
          /\ snap' = Fresh
          /\ last' = Fresh
       \/ "io" \in Faults /\ UNCHANGED <<draft, snap, last>>
    /\ UNCHANGED <<configId, disc, busy, store, recovery>>

\* A plausible bug: the saved draft gets its new base but is not loaded again.
SaveWithoutLoading ==
    /\ Button
    /\ draft # None
    /\ workers' = Started
    /\ gen' = gen + 1
    /\ flag' = FALSE
    /\ draft.base # Untracked
    /\ Accepts(draft, draft.base, draft.base + 1)
    /\ store' = Put(draft, draft.base + 1)
    /\ draft' = [draft EXCEPT !.base = draft.base + 1]
    /\ configId' = draft.id
    /\ UNCHANGED <<snap, efi, disc, busy, recovery, last>>

\* action_save: the private snapshot, then the next revision; the draft keeps
\* its base until it is loaded again.  A failure shows a message.
Save ==
    /\ Button
    /\ draft # None
    /\ workers' = Started
    /\ gen' = gen + 1
    /\ flag' = FALSE
    /\ \/ /\ snap \in {0, draft.hw}
          /\ draft.base # Untracked
          /\ Accepts(draft, draft.base, draft.base + 1)
          /\ store' = Put(draft, draft.base + 1)
          /\ ToLoad(draft, "save")
       \/ /\ \/ snap \notin {0, draft.hw}
             \/ draft.base = Untracked
             \/ ~Accepts(draft, draft.base, draft.base + 1)
             \/ "io" \in Faults
          /\ UNCHANGED <<store, busy>>
    /\ UNCHANGED <<configId, draft, snap, efi, disc, recovery, last>>

\* The end of action_save, _import_config_file and _import_evidence: whatever
\* is stored by now becomes the draft.  Only an import drops the snapshot and
\* the EFI of the former draft here.
Load ==
    /\ busy # None
    /\ busy' = None
    /\ \/ /\ draft' = Loaded(busy.id)
          /\ configId' = IF busy.why = "evidence" THEN configId ELSE busy.id
          /\ snap' = IF busy.why = "import" THEN 0 ELSE snap
          /\ efi' = IF busy.why = "import" THEN None ELSE efi
       \/ /\ "io" \in Faults
          /\ UNCHANGED <<draft, configId, snap, efi>>
    /\ UNCHANGED <<fixture, flag, gen, disc, store, recovery, workers, presses, others, last>>

\* action_cancel.
Cancel ==
    /\ Button
    /\ workers' = Started
    /\ gen' = gen + 1
    /\ flag' = TRUE
    /\ UNCHANGED <<configId, draft, snap, efi, disc, busy, store, recovery, last>>

\* A plausible bug: the operation generation is not raised by an edit.
EditKeepingGeneration ==
    /\ Button
    /\ draft # None
    /\ draft' = Edited(draft)
    /\ last' = Fresh
    /\ efi' = None
    /\ flag' = FALSE
    /\ UNCHANGED <<configId, snap, gen, disc, busy, store, recovery, workers>>

\* _apply_target, _set_option, _acknowledge, _set_identity, and the
\* evaluation they end with, which raises the generation once more after a
\* cancellation.
Edit ==
    /\ Button
    /\ draft # None
    /\ draft' = Edited(draft)
    /\ last' = Fresh
    /\ efi' = None
    /\ gen' = gen + (IF flag THEN 2 ELSE 1)
    /\ flag' = FALSE
    /\ UNCHANGED <<configId, snap, disc, busy, store, recovery, workers>>

\* _evaluate on its own: only a cancelled operation is left behind.
Evaluate ==
    /\ Button
    /\ flag
    /\ flag' = FALSE
    /\ gen' = gen + 1
    /\ UNCHANGED <<configId, draft, snap, efi, disc, busy, store, recovery, workers, last>>

\* _import_config_file: the imported draft gets an id of its own and is saved.
\* A malformed file changes nothing.
Import ==
    LET d == [id |-> Fresh, content |-> Fresh, base |-> Untracked, rev |-> 0, hw |-> Fresh] IN
    /\ Button
    /\ workers' = Started
    /\ gen' = gen + 1
    /\ flag' = FALSE
    /\ \/ /\ draft' = d
          /\ store' = Put(d, 0)
          /\ ToLoad(d, "import")
       \/ /\ "io" \in Faults
          /\ draft' = d
          /\ UNCHANGED <<store, busy>>
       \/ UNCHANGED <<draft, store, busy>>
    /\ last' = Fresh
    /\ UNCHANGED <<configId, snap, efi, disc, recovery>>

\* A plausible bug: imported evidence leaves the built EFI in place.
ImportEvidenceKeepingEfi ==
    /\ Button
    /\ draft # None
    /\ workers' = Started
    /\ gen' = gen + 1
    /\ flag' = FALSE
    /\ draft' = Edited(draft)
    /\ last' = Fresh
    /\ UNCHANGED <<configId, snap, efi, disc, busy, store, recovery>>

\* _import_evidence: the draft keeps the evidence even if saving it fails;
\* malformed evidence changes nothing.
ImportEvidence ==
    /\ Button
    /\ draft # None
    /\ workers' = Started
    /\ gen' = gen + 1
    /\ flag' = FALSE
    /\ LET d == Edited(draft) IN
         \/ /\ SaveAccepts(d)
            /\ draft' = d
            /\ efi' = None
            /\ store' = Put(d, d.rev)
            /\ ToLoad(d, "evidence")
         \/ /\ ~SaveAccepts(d) \/ "io" \in Faults
            /\ draft' = d
            /\ efi' = None
            /\ UNCHANGED <<store, busy>>
         \/ UNCHANGED <<draft, efi, store, busy>>
    /\ last' = Fresh
    /\ UNCHANGED <<configId, snap, disc, recovery>>

\* What an operation needs before its worker is started.
Ready(kind) ==
    CASE kind = "identity" -> draft # None /\ configId # None
      [] kind = "acpi"     -> draft # None /\ configId # None /\ snap # 0
      [] kind = "efi"      -> draft # None /\ snap # 0
      [] kind = "recovery" -> draft # None /\ snap # 0 /\ efi # None
      [] OTHER             -> TRUE

\* A plausible bug: an operation is started without a generation of its own.
OperateSameGeneration(kind) ==
    /\ Button
    /\ Ready(kind)
    /\ flag' = FALSE
    /\ efi' = IF kind = "efi" THEN None ELSE efi
    /\ Launch(kind, gen)
    /\ UNCHANGED <<configId, draft, snap, gen, disc, busy, store, recovery, last>>

\* _generate_identity, _import_acpi_capture, _build_efi, _acquire_recovery;
\* "check" stands for _run_preflight, _resolve_dependencies and
\* _verify_recovery, which show a message only.
Operate(kind) ==
    /\ Button
    /\ Ready(kind)
    /\ flag' = FALSE
    /\ gen' = gen + 1
    /\ efi' = IF kind = "efi" THEN None ELSE efi
    /\ Launch(kind, gen + 1)
    /\ UNCHANGED <<configId, draft, snap, disc, busy, store, recovery, last>>

\* _discover_recovery is a worker itself: the handler only launches it.
Discover ==
    /\ Button
    /\ Launch("discover", 0)
    /\ UNCHANGED <<ui, store, recovery, last>>

-----------------------------------------------------------------------------
(* Worker threads *)

Becomes(w, v) == workers' = (workers \ {w}) \cup {v}

\* The thread starts.
Begin(w) ==
    /\ w.stage = "queued"
    /\ Becomes(w, [w EXCEPT !.stage = IF w.kind = "discover" THEN "registering" ELSE "running"])
    /\ UNCHANGED <<fixture, ui, store, recovery, presses, others, last>>

\* A discovery registers in its own thread: it clears the flag, raises the
\* generation, and then reads the generation it is to have, which somebody
\* else may have raised by then.
ClearFlag(w) ==
    /\ w.stage = "registering"
    /\ flag' = FALSE
    /\ Becomes(w, [w EXCEPT !.stage = "raising"])
    /\ UNCHANGED <<fixture, configId, draft, snap, gen, efi, disc, busy>>
    /\ UNCHANGED <<store, recovery, presses, others, last>>

RaiseGeneration(w) ==
    /\ w.stage = "raising"
    /\ gen' = gen + 1
    /\ Becomes(w, [w EXCEPT !.stage = "taking"])
    /\ UNCHANGED <<fixture, configId, draft, snap, flag, efi, disc, busy>>
    /\ UNCHANGED <<store, recovery, presses, others, last>>

TakeGeneration(w) ==
    /\ w.stage = "taking"
    /\ Becomes(w, [w EXCEPT !.stage = "running", !.gen = gen])
    /\ UNCHANGED <<fixture, ui, store, recovery, presses, others, last>>

\* The service call returns.  A worker for an identity or a capture edits its
\* draft and saves it, whether or not they have been cancelled meanwhile.  Acquiring needs
\* a discovered target, and an EFI that derive_recovery_binding finds to be
\* the one of the worker's draft and snapshot.
Run(w) ==
    /\ w.stage = "running"
    /\ Becomes(w, [w EXCEPT !.stage = "posted"])
    /\ \/ /\ w.kind = "identity"
          /\ SaveAccepts(Edited(w.draft))
          /\ store' = Put(Edited(w.draft), Edited(w.draft).rev)
          /\ last' = Fresh
       \/ /\ w.kind \in {"efi", "discover"}
          /\ UNCHANGED <<store, last>>
       \/ /\ w.kind = "recovery"
          /\ w.found
          /\ w.efi = [content |-> w.draft.content, snap |-> w.snap]
          /\ UNCHANGED <<store, last>>
    /\ UNCHANGED <<fixture, ui, recovery, presses, others>>

\* It raises, or notices the cancellation.
Stop(w) ==
    /\ w.stage = "running"
    /\ workers' = workers \ {w}
    /\ UNCHANGED <<fixture, ui, store, recovery, presses, others, last>>

-----------------------------------------------------------------------------
(* Results on the UI thread *)

\* A plausible bug: results are published whatever happened meanwhile.
CurrentAlways(w) == w.stage = "posted"

\* generation == self._operation_generation
Current(w) == w.gen = gen

Publish(w) ==
    /\ busy = None
    /\ w.stage = "posted"
    /\ Current(w)
    /\ workers' = workers \ {w}
    /\ CASE w.kind = "identity" ->
              /\ draft' = Loaded(w.draft.id)
              /\ efi' = None
              /\ UNCHANGED <<disc, recovery>>
         [] w.kind = "efi" ->
              /\ efi' = [content |-> w.draft.content, snap |-> w.snap]
              /\ UNCHANGED <<draft, disc, recovery>>
         [] w.kind = "discover" ->
              /\ disc' = TRUE
              /\ UNCHANGED <<draft, efi, recovery>>
         [] OTHER ->
              /\ recovery' = w.efi
              /\ UNCHANGED <<draft, efi, disc>>
    /\ UNCHANGED <<fixture, configId, snap, flag, gen, busy, store, presses, others, last>>

\* The result is of a former generation, or loading or persisting it raises.
Ignore(w) ==
    /\ busy = None
    /\ w.stage = "posted"
    /\ ~Current(w) \/ (w.kind \in {"identity", "recovery"} /\ "io" \in Faults)
    /\ workers' = workers \ {w}
    /\ UNCHANGED <<fixture, ui, store, recovery, presses, others, last>>

\* Another process loads a configuration, edits and saves it.
OtherSaves(id) ==
    /\ others < MaxOthers
    /\ others' = others + 1
    /\ store' = [store EXCEPT ![id].rev = @ + 1, ![id].content = -Fresh]
    /\ last' = Fresh
    /\ UNCHANGED <<fixture, ui, recovery, workers, presses>>

-----------------------------------------------------------------------------

Kinds == {"identity", "acpi", "efi", "recovery", "check", "discover"}

Handler ==
    \/ Refresh \/ Save \/ Cancel \/ Edit \/ Evaluate \/ Import \/ ImportEvidence \/ Discover
    \/ \E kind \in Kinds \ {"discover"} : Operate(kind)

Worker(w) ==
    \/ Begin(w) \/ ClearFlag(w) \/ RaiseGeneration(w) \/ TakeGeneration(w)
    \/ Run(w) \/ Stop(w) \/ Publish(w) \/ Ignore(w)

Next ==
    \/ Handler \/ Load
    \/ \E w \in workers : Worker(w)
    \/ \E id \in DOMAIN store : OtherSaves(id)

Spec == Init /\ [][Next]_vars

-----------------------------------------------------------------------------
(* Properties *)

Numbers == 0..last
Contents == -last..last

\* Types; what is stored or shown has been numbered before, and a worker that
\* runs has a generation of its own.
TypeOK ==
    /\ fixture \in BOOLEAN /\ flag \in BOOLEAN /\ disc \in BOOLEAN
    /\ gen \in Nat /\ last \in Nat /\ presses \in 0..MaxPresses /\ others \in 0..MaxOthers
    /\ configId \in Numbers \cup {None}
    /\ configId # None => Stored(configId)
    /\ draft # None =>
         /\ draft.id \in Numbers /\ draft.content \in Contents /\ draft.hw \in Numbers
         /\ draft.base \in {Untracked} \cup Nat /\ draft.rev \in Nat /\ draft.base <= draft.rev
    /\ snap \in Numbers
    /\ busy # None => busy.why \in Reasons /\ Stored(busy.id) /\ draft # None
    /\ \A id \in DOMAIN store :
         id \in Numbers /\ store[id].content \in Contents /\ store[id].rev \in Nat
    /\ \A w \in workers :
         /\ w.kind \in {"identity", "efi", "recovery", "discover"}
         /\ w.stage \in {"queued", "registering", "raising", "taking", "running", "posted"}
         /\ w.stage \in {"running", "posted"} => w.gen \in 1..gen

\* _invalidate_efi: "A build is valid only for the exact current draft and
\* snapshot".  Between two events, the build that the app offers to acquire
\* Recovery for is of the draft and the snapshot on the screen; the one draft
\* that may have replaced them under it is what another process saved between
\* action_save's own save and its load.
EfiCurrent ==
    efi # None /\ busy = None =>
        /\ draft # None
        /\ efi.snap = snap
        /\ efi.content = draft.content \/ draft.content < 0

\* At most one operation that works on the draft can still publish its result:
\* what one such worker puts on the screen is never put there over the result
\* of a later one.  A discovery, which depends on no draft, may share its
\* generation.
OneCurrent ==
    \A v, w \in workers :
        v.kind # "discover" /\ w.kind # "discover" /\ v.gen = gen /\ w.gen = gen => v = w

\* A draft that a worker replaces is the draft the worker was started with:
\* edits made on the screen meanwhile are never thrown away.
WorkerKeepsEdits ==
    [][\A w \in workers :
         w.stage = "posted" /\ w \notin workers' /\ draft' # draft
             => draft.content = w.draft.content /\ draft.id = w.draft.id]_vars

\* A Recovery result is persisted only for the EFI that is on the screen, so
\* for the configuration and hardware that are there.
RecoveryForCurrentEfi ==
    [][recovery' # recovery =>
         /\ recovery' = efi
         /\ recovery' = [content |-> draft.content, snap |-> snap]]_vars
=============================================================================
