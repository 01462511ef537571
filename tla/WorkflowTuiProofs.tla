-------------------------- MODULE WorkflowTuiProofs --------------------------
(***************************************************************************)
(* Proofs about WorkflowTui, for any number of presses, workers and saves  *)
(* by other processes.  Everything rests on the operation generation: no   *)
(* two workers on the draft have the same one (Distinct), a worker of the  *)
(* current generation was started with what is still on the screen         *)
(* (OnScreen), and none is current while a handler has still to load what  *)
(* it has saved (Quiet).                                                   *)
(***************************************************************************)
EXTENDS WorkflowTui, TLAPS

USE ConstantsAssumption

Drafts ==
    [id : Numbers, content : Contents, base : {Untracked} \cup Nat, rev : Nat, hw : Numbers]
Versions == [rev : Nat, content : Contents, hw : Numbers]
Efis == [content : Contents, snap : Numbers] \cup {None}
Loads == [id : Numbers, why : Reasons]
Jobs ==
    [n : Nat, kind : {"identity", "efi", "recovery", "discover"},
     stage : {"queued", "registering", "raising", "taking", "running", "posted"}, gen : Nat,
     draft : Drafts \cup {None}, snap : Numbers, efi : Efis, found : BOOLEAN]

Counted ==
    /\ fixture \in BOOLEAN /\ flag \in BOOLEAN /\ disc \in BOOLEAN
    /\ gen \in Nat /\ last \in Nat /\ presses \in 0..MaxPresses /\ others \in 0..MaxOthers

\* What is on the screen, and what the UI thread has still to load.
Screen ==
    /\ configId \in Numbers \cup {None}
    /\ configId # None => Stored(configId)
    /\ draft \in Drafts \cup {None}
    /\ draft # None => draft.base <= draft.rev
    /\ snap \in Numbers
    /\ efi \in Efis
    /\ busy # None => busy \in Loads /\ Stored(busy.id) /\ draft # None

OnDisk == \A i \in DOMAIN store : i \in Numbers /\ store[i] \in Versions

\* What a worker knows about where it is: what its kind needs was there when it
\* was started.
Sound(w) ==
    /\ w \in Jobs
    /\ w.kind \in {"identity", "efi"} => w.draft # None
    /\ w.kind = "recovery" => w.efi # None
    /\ w.gen <= gen
    /\ w.kind # "discover" \/ w.stage \in {"running", "posted"} => w.gen > 0
    /\ w.stage \in {"registering", "raising", "taking"} => w.kind = "discover"
    /\ w.stage = "posted" =>
         /\ w.kind = "identity" => Stored(w.draft.id)
         /\ w.kind = "recovery" => w.efi = [content |-> w.draft.content, snap |-> w.snap]

Crew == /\ \A w \in workers : Sound(w)
        /\ workers # {} => gen > 0

\* A generation belongs to one worker, not counting discoveries.
Distinct ==
    \A v, w \in workers :
        v.kind # "discover" /\ w.kind # "discover" /\ v.gen = w.gen => v = w

\* A worker of the current generation works on what is on the screen.
UpToDate(w) ==
    w.gen = gen =>
        /\ w.kind # "discover" => w.draft = draft
        /\ w.kind \in {"efi", "recovery"} => w.snap = snap
        /\ w.kind = "recovery" => w.efi = efi

OnScreen == \A w \in workers : UpToDate(w)

\* While a handler has still to load what it saved, no worker on the draft is
\* current.
Quiet == busy # None => \A w \in workers : w.kind # "discover" => w.gen # gen

TuiInv == Counted /\ Screen /\ OnDisk /\ Crew /\ Distinct /\ OnScreen /\ Quiet

LEMMA InvTypes == TuiInv => TypeOK /\ OneCurrent
<1> SUFFICES ASSUME TuiInv PROVE TypeOK /\ OneCurrent
  OBVIOUS
<1>1. /\ Counted
      /\ Screen
      /\ OnDisk
      /\ Crew
  BY DEF TuiInv
<1>2. draft # None =>
         /\ draft.id \in Numbers /\ draft.content \in Contents /\ draft.hw \in Numbers
         /\ draft.base \in {Untracked} \cup Nat /\ draft.rev \in Nat /\ draft.base <= draft.rev
  BY <1>1 DEF Screen, Drafts
<1>3. \A id \in DOMAIN store :
          id \in Numbers /\ store[id].content \in Contents /\ store[id].rev \in Nat
  BY <1>1 DEF OnDisk, Versions
<1>4. \A w \in workers :
         /\ w.kind \in {"identity", "efi", "recovery", "discover"}
         /\ w.stage \in {"queued", "registering", "raising", "taking", "running", "posted"}
         /\ w.stage \in {"running", "posted"} => w.gen \in 1..gen
  <2> SUFFICES ASSUME NEW w \in workers
               PROVE  /\ w.kind \in {"identity", "efi", "recovery", "discover"}
                      /\ w.stage \in {"queued", "registering", "raising", "taking",
                                      "running", "posted"}
                      /\ w.stage \in {"running", "posted"} => w.gen \in 1..gen
    OBVIOUS
  <2>1. Sound(w) /\ w \in Jobs
    BY <1>1 DEF Crew, Sound
  <2>2. /\ w.gen \in Nat /\ w.kind \in {"identity", "efi", "recovery", "discover"}
        /\ w.stage \in {"queued", "registering", "raising", "taking", "running", "posted"}
    BY <2>1 DEF Jobs
  <2>3. w.gen <= gen /\ (w.stage \in {"running", "posted"} => w.gen > 0)
    BY <2>1 DEF Sound
  <2> QED
    BY <1>1, <2>2, <2>3 DEF Counted
<1>5. busy # None => busy.why \in Reasons /\ Stored(busy.id) /\ draft # None
  BY <1>1 DEF Screen, Loads
<1>6. TypeOK
  BY <1>1, <1>2, <1>3, <1>4, <1>5 DEF TypeOK, Counted, Screen
<1>7. OneCurrent
  BY DEF OneCurrent, TuiInv, Distinct
<1> QED
  BY <1>6, <1>7

LEMMA InitTui == Init => TuiInv
<1> SUFFICES ASSUME Init PROVE TuiInv
  OBVIOUS
<1>0. last \in Nat /\ gen = 0 /\ presses = 0 /\ others = 0
  BY DEF Init
<1>a. fixture \in BOOLEAN /\ flag \in BOOLEAN /\ disc \in BOOLEAN
  BY Zenon DEF Init
<1>1. Counted
  BY <1>0, <1>a DEF Counted
<1>b. store = [i \in {} |-> 0] => OnDisk
  BY DEF OnDisk
<1>c. store = [i \in {1} |-> [rev |-> 1, content |-> 1, hw |-> 1]] /\ last = 1 => OnDisk
  BY DEF OnDisk, Versions, Numbers, Contents
<1>2. OnDisk
  BY <1>b, <1>c DEF Init
<1>3. Screen
  BY DEF Init, Screen, Efis, Numbers, Stored
<1>4. Crew /\ Distinct /\ OnScreen /\ Quiet
  BY DEF Init, Crew, Distinct, OnScreen, Quiet
<1> QED
  BY <1>1, <1>2, <1>3, <1>4 DEF TuiInv

-----------------------------------------------------------------------------
(* Growth *)

LEMMA WiderRange == ASSUME NEW m \in Nat, NEW n \in Nat, m <= n PROVE -m..m \subseteq -n..n
  OBVIOUS

\* What has been numbered stays numbered.
LEMMA NumbersGrow ==
    ASSUME last \in Nat, last' \in Nat, last <= last'
    PROVE  /\ Numbers \subseteq Numbers'
           /\ Contents \subseteq Contents'
           /\ Drafts \subseteq Drafts'
           /\ Versions \subseteq Versions'
           /\ Efis \subseteq Efis'
           /\ Loads \subseteq Loads'
           /\ Jobs \subseteq Jobs'
<1>1. Numbers \subseteq Numbers' /\ Contents \subseteq Contents'
  <2>1. Numbers \subseteq Numbers'
    BY DEF Numbers
  <2>2. Contents \subseteq Contents'
    BY WiderRange DEF Contents
  <2> QED
    BY <2>1, <2>2
<1>2. Drafts \subseteq Drafts'
  BY <1>1 DEF Drafts
<1>3. Versions \subseteq Versions'
  BY <1>1 DEF Versions
<1>4. Efis \subseteq Efis' /\ Loads \subseteq Loads'
  BY <1>1 DEF Efis, Loads
<1>5. Jobs \subseteq Jobs'
  BY <1>1, <1>2, <1>4 DEF Jobs
<1> QED
  BY <1>1, <1>2, <1>3, <1>4, <1>5

\* What is numbered stays the same when nothing new is made.
LEMMA NumbersSame ==
    ASSUME last' = last
    PROVE  /\ Numbers' = Numbers /\ Contents' = Contents /\ Drafts' = Drafts
           /\ Versions' = Versions /\ Efis' = Efis /\ Loads' = Loads /\ Jobs' = Jobs
<1>1. Numbers' = Numbers /\ Contents' = Contents
  BY DEF Numbers, Contents
<1>2. Drafts' = Drafts /\ Versions' = Versions /\ Efis' = Efis /\ Loads' = Loads
  BY <1>1 DEF Drafts, Versions, Efis, Loads
<1>3. Jobs' = Jobs
  BY <1>1, <1>2 DEF Jobs
<1> QED
  BY <1>1, <1>2, <1>3

\* An edited draft has new content and the next revision.
LEMMA EditedDraft ==
    ASSUME NEW d \in Drafts, last \in Nat, last' = Fresh
    PROVE  /\ Edited(d) \in Drafts'
           /\ Edited(d).id = d.id
           /\ Edited(d).content = Fresh
           /\ Edited(d).base = d.base
           /\ Edited(d).rev = d.rev + 1
           /\ Edited(d).hw = d.hw
           /\ d.base <= d.rev => d.base <= d.rev + 1
  BY DEF Drafts, Edited, Fresh, Numbers, Contents, Untracked

\* Saving keeps the versions typed, and what was stored is stored.
LEMMA PutTyped ==
    ASSUME OnDisk, last \in Nat, last' \in Nat, last <= last',
           NEW d \in Drafts', NEW r \in Nat, store' = Put(d, r)
    PROVE  /\ OnDisk'
           /\ d.id \in DOMAIN store'
           /\ DOMAIN store \subseteq DOMAIN store'
<1>1. DOMAIN store' = DOMAIN store \cup {d.id}
  BY DEF Put
<1>2. DOMAIN store' \subseteq Numbers'
  BY <1>1, NumbersGrow DEF OnDisk, Drafts
<1>3. \A i \in DOMAIN store' : store'[i] \in Versions'
  <2> SUFFICES ASSUME NEW i \in DOMAIN store' PROVE store'[i] \in Versions'
    OBVIOUS
  <2>1. CASE i = d.id
    BY <1>1, <2>1 DEF Put, Versions, Drafts
  <2>2. CASE i # d.id
    <3>1. store'[i] = store[i] /\ store[i] \in Versions
      BY <1>1, <2>2 DEF Put, OnDisk
    <3> QED
      BY <3>1, NumbersGrow
  <2> QED
    BY <2>1, <2>2
<1> QED
  BY <1>1, <1>2, <1>3 DEF OnDisk

LEMMA StoreStays ==
    ASSUME OnDisk, last \in Nat, last' \in Nat, last <= last', UNCHANGED store
    PROVE  OnDisk'
  BY NumbersGrow DEF OnDisk

-----------------------------------------------------------------------------
(* Workers *)

\* A worker stays sound while numbers, the store and the generation grow.
LEMMA StaysSound ==
    ASSUME Counted, Counted', last <= last', gen <= gen', DOMAIN store \subseteq DOMAIN store',
           NEW w, Sound(w)
    PROVE  Sound(w)'
<1>1. w \in Jobs'
  BY NumbersGrow DEF Sound, Counted
<1>2. w.gen <= gen'
  BY DEF Sound, Counted, Jobs
<1>3. w.stage = "posted" /\ w.kind = "identity" => w.draft.id \in DOMAIN store'
  BY DEF Sound, Stored
<1> QED
  BY <1>1, <1>2, <1>3 DEF Sound, Stored

\* Once the generation is raised, no worker that was there is current.
LEMMA LeftBehind ==
    ASSUME TuiInv, Counted', last <= last', gen < gen', DOMAIN store \subseteq DOMAIN store',
           workers' \subseteq workers
    PROVE  Crew' /\ Distinct' /\ OnScreen' /\ Quiet'
<1>1. \A w \in workers : Sound(w) /\ Sound(w)'
  BY StaysSound DEF TuiInv, Crew, Counted
<1>2. Crew'
  BY <1>1 DEF Crew, TuiInv, Counted
<1>3. Distinct'
  BY DEF Distinct, TuiInv
<1>4. \A w \in workers' : w.gen # gen'
  <2>1. \A w \in workers : w.gen \in Nat /\ w.gen <= gen
    BY <1>1 DEF Sound, Jobs
  <2> QED
    BY <2>1 DEF TuiInv, Counted
<1>5. OnScreen' /\ Quiet'
  BY <1>4 DEF OnScreen, UpToDate, Quiet
<1> QED
  BY <1>2, <1>3, <1>5

\* Nothing that the workers refer to changes.
LEMMA CrewStays ==
    ASSUME TuiInv, Counted', last <= last', DOMAIN store \subseteq DOMAIN store',
           workers' \subseteq workers, UNCHANGED <<gen, draft, snap, efi, busy>>
    PROVE  Crew' /\ Distinct' /\ OnScreen' /\ Quiet'
<1>1. \A w \in workers : Sound(w)'
  BY StaysSound DEF TuiInv, Crew, Counted
<1>2. Crew'
  BY <1>1 DEF Crew, TuiInv
<1>3. Distinct'
  BY DEF Distinct, TuiInv
<1>4. OnScreen' /\ Quiet'
  BY DEF OnScreen, UpToDate, Quiet, TuiInv
<1> QED
  BY <1>2, <1>3, <1>4

-----------------------------------------------------------------------------
(* Handlers *)

LEMMA NumbersStep ==
    ASSUME Counted, [Next]_vars
    PROVE  /\ gen' \in Nat /\ last' \in Nat /\ presses' \in 0..MaxPresses /\ others' \in 0..MaxOthers
           /\ last <= last' /\ gen <= gen'
<1> USE DEF Counted, Fresh, ui
<1>1. CASE Refresh \/ Save \/ Cancel \/ Edit
  BY <1>1 DEF Refresh, Save, Cancel, Edit, Button, Press
<1>2. CASE Evaluate \/ Import \/ ImportEvidence \/ Discover
  BY <1>2 DEF Evaluate, Import, ImportEvidence, Discover, Button, Press
<1>3. ASSUME NEW kind \in Kinds, Operate(kind)
      PROVE  gen' \in Nat /\ last' \in Nat /\ presses' \in 0..MaxPresses
               /\ others' \in 0..MaxOthers /\ last <= last' /\ gen <= gen'
  BY <1>3 DEF Operate, Button, Press
<1>4. ASSUME NEW w \in workers, Worker(w)
      PROVE  gen' \in Nat /\ last' \in Nat /\ presses' \in 0..MaxPresses
               /\ others' \in 0..MaxOthers /\ last <= last' /\ gen <= gen'
  <2>1. CASE Begin(w) \/ ClearFlag(w) \/ RaiseGeneration(w) \/ TakeGeneration(w)
               \/ Stop(w) \/ Ignore(w)
    BY <2>1 DEF Begin, ClearFlag, RaiseGeneration, TakeGeneration, Stop, Ignore
  <2>2. CASE Run(w)
    BY <2>2 DEF Run
  <2>3. CASE Publish(w)
    BY <2>3 DEF Publish
  <2> QED
    BY <1>4, <2>1, <2>2, <2>3 DEF Worker
<1>5. ASSUME NEW id \in DOMAIN store, OtherSaves(id)
      PROVE  gen' \in Nat /\ last' \in Nat /\ presses' \in 0..MaxPresses
               /\ others' \in 0..MaxOthers /\ last <= last' /\ gen <= gen'
  BY <1>5 DEF OtherSaves
<1>6. CASE Load
  BY <1>6 DEF Load
<1>7. CASE UNCHANGED vars
  BY <1>7 DEF vars
<1> QED
  BY <1>1, <1>2, <1>3, <1>4, <1>5, <1>6, <1>7 DEF Next, Handler

LEMMA TogglesStep ==
    ASSUME fixture \in BOOLEAN, flag \in BOOLEAN, disc \in BOOLEAN, [Next]_vars
    PROVE  fixture' \in BOOLEAN /\ flag' \in BOOLEAN /\ disc' \in BOOLEAN
<1>1. fixture' = fixture
  BY Zenon DEF Next, Handler, Worker, Refresh, Save, Cancel, Edit, Evaluate, Import, ImportEvidence,
     Discover, Operate, Button, Press, Begin, ClearFlag, RaiseGeneration, TakeGeneration,
     Run, Stop, Publish, Ignore, Load, OtherSaves, vars
<1>2. flag' = flag \/ flag' = TRUE \/ flag' = FALSE
  BY Zenon DEF Next, Handler, Worker, Refresh, Save, Cancel, Edit, Evaluate, Import, ImportEvidence,
     Discover, Operate, Begin, ClearFlag, RaiseGeneration, TakeGeneration,
     Run, Stop, Publish, Ignore, Load, OtherSaves, vars, ui
<1>3. disc' = disc \/ disc' = TRUE
  BY Zenon DEF Next, Handler, Worker, Refresh, Save, Cancel, Edit, Evaluate, Import, ImportEvidence,
     Discover, Operate, Begin, ClearFlag, RaiseGeneration, TakeGeneration,
     Run, Stop, Publish, Ignore, Load, OtherSaves, vars, ui
<1> QED
  BY <1>1, <1>2, <1>3, Zenon

LEMMA CountedStep ==
    ASSUME Counted, [Next]_vars PROVE  Counted' /\ last <= last' /\ gen <= gen'
<1>1. fixture' \in BOOLEAN /\ flag' \in BOOLEAN /\ disc' \in BOOLEAN
  BY TogglesStep DEF Counted
<1> QED
  BY <1>1, NumbersStep DEF Counted

\* Loading and creating make typed drafts.
LEMMA LoadedDraft ==
    ASSUME OnDisk, NEW id \in DOMAIN store
    PROVE  /\ Loaded(id) \in Drafts
           /\ Loaded(id).base <= Loaded(id).rev
           /\ store[id].hw \in Numbers
  BY DEF OnDisk, Versions, Loaded, Drafts

LEMMA CreatedDraft ==
    ASSUME last \in Nat, last' = Fresh
    PROVE  Created(Fresh) \in Drafts' /\ Created(Fresh).base <= Created(Fresh).rev
  BY DEF Created, Drafts, Numbers, Contents, Fresh

LEMMA RefreshStep == ASSUME TuiInv, Refresh PROVE TuiInv'
<1>0. Counted' /\ last <= last'
  BY CountedStep DEF TuiInv, Next, Handler
<1>1. Counted' /\ last <= last' /\ gen < gen'
  BY <1>0 DEF TuiInv, Counted, Refresh
<1>2. OnDisk'
  BY <1>1, StoreStays DEF TuiInv, Counted, Refresh
<1>3. /\ Numbers \subseteq Numbers'
      /\ Drafts \subseteq Drafts'
      /\ Fresh <= last' => Fresh \in Numbers'
      /\ 0 \in Numbers
  BY <1>1, NumbersGrow DEF TuiInv, Counted, Fresh, Numbers
<1>4. draft' \in Drafts' \cup {None} /\ (draft' # None => draft'.base <= draft'.rev)
  <2>1. CASE draft' = draft
    BY <2>1, <1>3 DEF TuiInv, Screen
  <2>2. CASE configId # None /\ draft' = Loaded(configId)
    BY <2>2, <1>3, LoadedDraft DEF TuiInv, Screen, Stored
  <2>3. CASE draft' = Created(Fresh) /\ last' = Fresh
    BY <2>3, CreatedDraft DEF TuiInv, Counted
  <2> QED
    BY <2>1, <2>2, <2>3 DEF Refresh
<1>5. snap' \in Numbers'
  <2>1. CASE snap' = snap
    BY <2>1, <1>3 DEF TuiInv, Screen
  <2>2. CASE configId # None /\ snap' = store[configId].hw
    BY <2>2, <1>3, LoadedDraft DEF TuiInv, Screen, Stored
  <2>3. CASE snap' = Fresh /\ last' = Fresh
    BY <2>3, <1>3 DEF TuiInv, Counted, Fresh
  <2>4. CASE draft # None /\ snap' = draft.hw
    BY <2>4, <1>3 DEF TuiInv, Screen, Drafts
  <2> QED
    BY <2>1, <2>2, <2>3, <2>4 DEF Refresh
<1>6. Screen'
  BY <1>3, <1>4, <1>5 DEF TuiInv, Screen, Refresh, Press, Stored, Efis
<1>7. Crew' /\ Distinct' /\ OnScreen' /\ Quiet'
  BY <1>1, LeftBehind DEF Refresh, Started
<1> QED
  BY <1>1, <1>2, <1>6, <1>7 DEF TuiInv

LEMMA SaveStep == ASSUME TuiInv, Save PROVE TuiInv'
<1>0. Counted' /\ last <= last'
  BY CountedStep DEF TuiInv, Next, Handler
<1>1. Counted' /\ last' = last /\ gen < gen' /\ UNCHANGED <<configId, draft, snap, efi>>
  BY <1>0 DEF TuiInv, Counted, Save
<1>2. draft \in Drafts /\ draft # None
  BY DEF Save, TuiInv, Screen
<1>3. /\ Numbers' = Numbers /\ Drafts' = Drafts /\ Efis' = Efis /\ Loads' = Loads
  BY <1>1, NumbersSame
<1>4. /\ OnDisk' /\ DOMAIN store \subseteq DOMAIN store'
      /\ busy' # None => busy' \in Loads /\ busy'.id \in DOMAIN store'
  <2>1. CASE store' = store /\ busy' = busy
    BY <2>1, <1>1, StoreStays DEF Save, Button, Press, TuiInv, Counted
  <2>2. CASE draft.base # Untracked /\ store' = Put(draft, draft.base + 1) /\ ToLoad(draft, "save")
    <3>1. draft.base + 1 \in Nat
      BY <2>2, <1>2 DEF Drafts, Untracked
    <3>2. busy' \in Loads /\ busy'.id = draft.id
      BY <2>2, <1>2 DEF ToLoad, Loads, Reasons, Drafts
    <3> QED
      BY <2>2, <3>1, <3>2, <1>1, <1>2, <1>3, PutTyped DEF TuiInv, Counted
  <2> QED
    BY <2>1, <2>2 DEF Save
<1>5. Screen'
  BY <1>1, <1>2, <1>3, <1>4 DEF TuiInv, Screen, Stored
<1>6. Crew' /\ Distinct' /\ OnScreen' /\ Quiet'
  BY <1>1, <1>4, LeftBehind DEF Save, Started, TuiInv, Counted
<1> QED
  BY <1>1, <1>4, <1>5, <1>6 DEF TuiInv

\* Cancelling and evaluating only raise the generation.
LEMMA CancelStep == ASSUME TuiInv, Cancel \/ Evaluate PROVE TuiInv'
<1>0. Counted' /\ last <= last'
  BY CountedStep DEF TuiInv, Next, Handler
<1>1. Counted' /\ last' = last /\ gen < gen' /\ workers' \subseteq workers /\ UNCHANGED store
  BY <1>0 DEF TuiInv, Counted, Cancel, Evaluate, Started
<1>2. OnDisk'
  BY <1>1, StoreStays DEF TuiInv, Counted
<1>3. Numbers' = Numbers /\ Drafts' = Drafts /\ Efis' = Efis
  BY <1>1, NumbersSame
<1>4. Screen'
  BY <1>3 DEF TuiInv, Screen, Stored, Cancel, Evaluate, Button, Press
<1>5. Crew' /\ Distinct' /\ OnScreen' /\ Quiet'
  BY <1>1, LeftBehind DEF TuiInv, Counted
<1> QED
  BY <1>1, <1>2, <1>4, <1>5 DEF TuiInv

LEMMA EditStep == ASSUME TuiInv, Edit PROVE TuiInv'
<1>0. Counted' /\ last <= last'
  BY CountedStep DEF TuiInv, Next, Handler
<1>1. Counted' /\ last' = Fresh /\ gen < gen' /\ workers' \subseteq workers /\ UNCHANGED store
  BY <1>0 DEF TuiInv, Counted, Edit
<1>2. OnDisk'
  BY <1>0, <1>1, StoreStays DEF TuiInv, Counted
<1>3. draft' = Edited(draft) /\ draft \in Drafts /\ draft.base <= draft.rev
  BY DEF TuiInv, Screen, Edit
<1>4. draft' \in Drafts' /\ draft'.base <= draft'.rev
  BY <1>1, <1>3, EditedDraft DEF TuiInv, Counted
<1>5. Numbers \subseteq Numbers'
  BY <1>0, NumbersGrow DEF TuiInv, Counted
<1>6. Screen'
  BY <1>4, <1>5 DEF TuiInv, Screen, Stored, Edit, Button, Press, Efis
<1>7. Crew' /\ Distinct' /\ OnScreen' /\ Quiet'
  BY <1>0, <1>1, LeftBehind DEF TuiInv, Counted
<1> QED
  BY <1>1, <1>2, <1>6, <1>7 DEF TuiInv

LEMMA ImportStep == ASSUME TuiInv, Import PROVE TuiInv'
<1>0. Counted' /\ last <= last'
  BY CountedStep DEF TuiInv, Next, Handler
<1>1. /\ Counted' /\ last' = Fresh /\ gen < gen' /\ workers' \subseteq workers
      /\ busy = None /\ UNCHANGED <<configId, snap, efi>>
  BY <1>0 DEF TuiInv, Counted, Import, Button, Press, Started
<1>2. /\ Numbers \subseteq Numbers'
      /\ Drafts \subseteq Drafts'
      /\ Efis \subseteq Efis'
      /\ Fresh \in Numbers' /\ Fresh \in Contents'
  BY <1>0, <1>1, NumbersGrow DEF TuiInv, Counted, Fresh, Numbers, Contents
<1> DEFINE d == [id |-> Fresh, content |-> Fresh, base |-> Untracked, rev |-> 0, hw |-> Fresh]
<1>3. d \in Drafts' /\ d.base <= d.rev /\ d.id \in Numbers' /\ d # None
  <2>1. d \in Drafts' /\ d.base <= d.rev /\ d.id \in Numbers'
    BY <1>2 DEF Drafts, Untracked
  <2>2. d \in [id : Nat, content : Int, base : {Untracked} \cup Nat, rev : Nat, hw : Nat]
    BY <1>2 DEF Numbers, Untracked, TuiInv, Counted, Fresh
  <2> QED
    BY <2>1, <2>2, NoneAssumption
<1> HIDE DEF d
<1>4. /\ OnDisk' /\ DOMAIN store \subseteq DOMAIN store'
      /\ draft' \in {d, draft}
      /\ busy' # None => busy' \in Loads' /\ busy'.id \in DOMAIN store' /\ draft' = d
  <2>1. CASE store' = store /\ busy' = busy /\ draft' \in {d, draft}
    BY <2>1, <1>0, <1>1, StoreStays DEF TuiInv, Counted
  <2>2. CASE store' = Put(d, 0) /\ ToLoad(d, "import") /\ draft' = d
    <3>1. busy' \in Loads' /\ busy'.id = d.id
      BY <2>2, <1>3 DEF ToLoad, Loads, Reasons
    <3> QED
      BY <2>2, <3>1, <1>0, <1>1, <1>3, PutTyped DEF TuiInv, Counted
  <2> QED
    BY <2>1, <2>2 DEF Import, d
<1>5. Screen'
  BY <1>1, <1>2, <1>3, <1>4 DEF TuiInv, Screen, Stored
<1>6. Crew' /\ Distinct' /\ OnScreen' /\ Quiet'
  BY <1>0, <1>1, <1>4, LeftBehind
<1> QED
  BY <1>1, <1>4, <1>5, <1>6 DEF TuiInv

\* A typed draft is a draft.
LEMMA DraftIsSome == ASSUME Counted, NEW d \in Drafts PROVE d # None
<1>1. Numbers \subseteq Nat /\ Contents \subseteq Int
  BY DEF Numbers, Contents, Counted
<1>2. d \in [id : Nat, content : Int, base : {Untracked} \cup Nat, rev : Nat, hw : Nat]
  BY <1>1 DEF Drafts
<1> QED
  BY <1>2, NoneAssumption

LEMMA ImportEvidenceStep == ASSUME TuiInv, ImportEvidence PROVE TuiInv'
<1>0. Counted' /\ last <= last'
  BY CountedStep DEF TuiInv, Next, Handler
<1>1. /\ Counted' /\ last' = Fresh /\ gen < gen' /\ workers' \subseteq workers
      /\ busy = None /\ UNCHANGED <<configId, snap>>
  BY <1>0 DEF TuiInv, Counted, ImportEvidence, Button, Press, Started
<1>2. Numbers \subseteq Numbers' /\ Drafts \subseteq Drafts' /\ Efis \subseteq Efis'
  BY <1>0, <1>1, NumbersGrow DEF TuiInv, Counted
<1> DEFINE d == Edited(draft)
<1>3. draft \in Drafts /\ draft.base <= draft.rev
  BY DEF TuiInv, Screen, ImportEvidence
<1>4. d \in Drafts' /\ d.base <= d.rev /\ d.rev \in Nat /\ d.id \in Numbers' /\ d # None
  <2>1. d \in Drafts' /\ d.base <= d.rev
    BY <1>1, <1>3, EditedDraft DEF TuiInv, Counted
  <2>2. d.rev \in Nat /\ d.id \in Numbers'
    BY <2>1 DEF Drafts
  <2>3. d # None
    <3>1. d \in [id : Nat, content : Int, base : {Untracked} \cup Nat, rev : Nat, hw : Nat]
      BY <1>3 DEF Edited, Fresh, Drafts, Numbers, TuiInv, Counted
    <3> QED
      BY <3>1, NoneAssumption
  <2> QED
    BY <2>1, <2>2, <2>3
<1> HIDE DEF d
<1>5. /\ OnDisk' /\ DOMAIN store \subseteq DOMAIN store'
      /\ draft' \in {d, draft} /\ efi' \in {None, efi}
      /\ busy' # None => busy' \in Loads' /\ busy'.id \in DOMAIN store' /\ draft' = d
  <2>1. CASE store' = store /\ busy' = busy /\ draft' \in {d, draft} /\ efi' \in {None, efi}
    BY <2>1, <1>0, <1>1, StoreStays DEF TuiInv, Counted
  <2>2. CASE store' = Put(d, d.rev) /\ ToLoad(d, "evidence") /\ draft' = d /\ efi' = None
    <3>1. busy' \in Loads' /\ busy'.id = d.id
      BY <2>2, <1>4 DEF ToLoad, Loads, Reasons
    <3> QED
      BY <2>2, <3>1, <1>0, <1>1, <1>4, PutTyped DEF TuiInv, Counted
  <2> QED
    BY <2>1, <2>2 DEF ImportEvidence, d
<1>6. Screen'
  BY <1>1, <1>2, <1>3, <1>4, <1>5 DEF TuiInv, Screen, Stored, Efis
<1>7. Crew' /\ Distinct' /\ OnScreen' /\ Quiet'
  BY <1>0, <1>1, <1>5, LeftBehind
<1> QED
  BY <1>1, <1>5, <1>6, <1>7 DEF TuiInv

\* What was saved is loaded: no worker on the draft is current meanwhile.
LEMMA LoadStep == ASSUME TuiInv, Load PROVE TuiInv'
<1>0. Counted' /\ last <= last'
  BY CountedStep DEF TuiInv, Next
<1>1. /\ busy # None /\ busy \in Loads /\ Stored(busy.id) /\ draft # None /\ busy' = None
      /\ UNCHANGED <<last, gen, store, workers>>
  BY DEF Load, TuiInv, Screen
<1>2. Numbers' = Numbers /\ Drafts' = Drafts /\ Efis' = Efis
  BY <1>1, NumbersSame
<1>3. OnDisk'
  BY <1>0, <1>1, StoreStays DEF TuiInv, Counted
<1>4. draft' \in Drafts /\ draft'.base <= draft'.rev
  BY <1>1, LoadedDraft DEF Load, TuiInv, Screen, Stored
<1>5. /\ configId' \in Numbers \cup {None}
      /\ configId' # None => configId' \in DOMAIN store
      /\ snap' \in Numbers /\ efi' \in Efis
  BY <1>1 DEF Load, TuiInv, Screen, Stored, Loads, Efis, Numbers, Counted
<1>6. Screen'
  BY <1>1, <1>2, <1>4, <1>5 DEF Screen, Stored
<1>7. \A w \in workers : Sound(w)'
  BY <1>0, <1>1, StaysSound DEF TuiInv, Crew, Counted
<1>8. Crew' /\ Distinct'
  BY <1>1, <1>7 DEF TuiInv, Crew, Distinct
<1>9. OnScreen' /\ Quiet'
  BY <1>1 DEF TuiInv, Quiet, OnScreen, UpToDate
<1> QED
  BY <1>0, <1>3, <1>6, <1>8, <1>9 DEF TuiInv

\* The worker that a handler starts.
Job(kind, g) ==
    [n |-> presses + 1, kind |-> IF kind = "acpi" THEN "identity" ELSE kind,
     stage |-> "queued", gen |-> g,
     draft |-> IF kind = "discover" THEN None ELSE draft,
     snap |-> IF kind \in {"efi", "recovery"} THEN snap ELSE 0,
     efi |-> IF kind = "recovery" THEN efi ELSE None,
     found |-> kind = "recovery" /\ disc]

\* A new worker joins those whose threads have started.
LEMMA LaunchStep ==
    ASSUME TuiInv, Counted', UNCHANGED <<last, store, draft, snap, busy>>, busy = None,
           gen <= gen', gen' > 0,
           NEW kind \in Kinds, NEW g \in 0..gen', Launch(kind, g),
           kind # "discover" => g = gen' /\ gen' > gen,
           kind # "efi" => UNCHANGED efi,
           kind \in {"identity", "acpi", "efi"} => draft # None,
           kind = "recovery" => efi # None
    PROVE  Crew' /\ Distinct' /\ OnScreen' /\ Quiet'
<1>0. PICK w : w = Job(kind, g)
  OBVIOUS
<1>1. /\ workers' \subseteq workers \cup {w}
      /\ kind = "check" => workers' \subseteq workers
  BY <1>0 DEF Launch, Started, Job
<1>2. \A v \in workers : Sound(v) /\ Sound(v)'
  BY StaysSound DEF TuiInv, Crew, Counted
<1>3. /\ w.kind = IF kind = "acpi" THEN "identity" ELSE kind
      /\ w.stage = "queued" /\ w.gen = g
      /\ kind # "discover" => w.draft = draft
      /\ kind \in {"efi", "recovery"} => w.snap = snap
      /\ kind = "recovery" => w.efi = efi
  BY <1>0 DEF Job
<1>4. kind # "check" => w \in Jobs
  <2>1. /\ presses + 1 \in Nat /\ g \in Nat
        /\ kind # "check" => w.kind \in {"identity", "efi", "recovery", "discover"}
        /\ draft \in Drafts \cup {None} /\ snap \in Numbers /\ 0 \in Numbers
        /\ efi \in Efis /\ None \in Efis
    BY <1>3 DEF TuiInv, Screen, Counted, Numbers, Efis, Kinds
  <2>2. (kind = "recovery" /\ disc) \in BOOLEAN
    BY DEF TuiInv, Counted
  <2> QED
    BY <1>0, <2>1, <2>2 DEF Job, Jobs
<1>5. Jobs' = Jobs
  BY NumbersSame
<1>6. kind # "check" => Sound(w)'
  BY <1>3, <1>4, <1>5 DEF Sound, Counted
<1>7. Crew'
  BY <1>1, <1>2, <1>6 DEF Crew
<1>8. \A v \in workers : v.gen <= gen /\ v.gen \in Nat
  BY <1>2 DEF Sound, Jobs
<1>9. Distinct'
  BY <1>1, <1>3, <1>8 DEF Distinct, TuiInv, Counted
<1>10. UpToDate(w)'
  BY <1>3 DEF UpToDate
<1>11. \A v \in workers : UpToDate(v)'
  <2>1. CASE gen' = gen
    BY <2>1 DEF UpToDate, OnScreen, TuiInv
  <2>2. CASE gen' # gen
    BY <2>2, <1>8 DEF UpToDate, TuiInv, Counted
  <2> QED
    BY <2>1, <2>2
<1>12. OnScreen' /\ Quiet'
  BY <1>1, <1>10, <1>11 DEF OnScreen, Quiet
<1> QED
  BY <1>7, <1>9, <1>12

LEMMA OperateStep ==
    ASSUME TuiInv, NEW kind \in Kinds \ {"discover"}, Operate(kind) PROVE TuiInv'
<1>0. Counted'
  BY CountedStep DEF TuiInv, Next, Handler
<1>1. last' = last /\ gen' = gen + 1 /\ busy = None /\ UNCHANGED <<configId, draft, snap, busy, store>>
  BY DEF Operate, Button, Press
<1>2. OnDisk'
  BY <1>1, StoreStays DEF TuiInv, Counted
<1>3. Numbers' = Numbers /\ Drafts' = Drafts /\ Efis' = Efis
  BY <1>1, NumbersSame
<1>4. efi' \in {None, efi} /\ (kind # "efi" => efi' = efi)
  BY DEF Operate
<1>5. Screen'
  BY <1>1, <1>3, <1>4 DEF TuiInv, Screen, Stored, Efis
<1>6. /\ kind \in {"identity", "acpi", "efi"} => draft # None
      /\ kind = "recovery" => efi # None
  BY DEF Operate, Ready
<1>7. Launch(kind, gen + 1)
  BY DEF Operate
<1>8. Crew' /\ Distinct' /\ OnScreen' /\ Quiet'
  BY <1>0, <1>1, <1>4, <1>6, <1>7, LaunchStep DEF TuiInv, Counted
<1> QED
  BY <1>0, <1>2, <1>5, <1>8 DEF TuiInv

LEMMA DiscoverStep == ASSUME TuiInv, Discover PROVE TuiInv'
<1>0. Counted'
  BY CountedStep DEF TuiInv, Next, Handler
<1>1. /\ UNCHANGED <<last, gen, configId, draft, snap, efi, busy, store>>
      /\ gen > 0 /\ busy = None /\ Launch("discover", 0)
  BY DEF Discover, Button, Press, ui
<1>2. OnDisk'
  BY <1>1, StoreStays DEF TuiInv, Counted
<1>3. Numbers' = Numbers /\ Drafts' = Drafts /\ Efis' = Efis
  BY <1>1, NumbersSame
<1>4. Screen'
  BY <1>1, <1>3 DEF TuiInv, Screen, Stored
<1>5. Crew' /\ Distinct' /\ OnScreen' /\ Quiet'
  BY <1>0, <1>1, LaunchStep DEF TuiInv, Counted, Kinds
<1> QED
  BY <1>0, <1>2, <1>4, <1>5 DEF TuiInv

LEMMA OtherSavesStep == ASSUME TuiInv, NEW id \in DOMAIN store, OtherSaves(id) PROVE TuiInv'
<1>0. Counted' /\ last <= last'
  BY CountedStep DEF TuiInv, Next
<1>1. last' = Fresh /\ UNCHANGED <<gen, configId, draft, snap, efi, busy, workers>>
  BY DEF OtherSaves, ui
<1>2. /\ Numbers \subseteq Numbers' /\ Drafts \subseteq Drafts' /\ Efis \subseteq Efis'
      /\ Versions \subseteq Versions' /\ Loads \subseteq Loads'
  BY <1>0, NumbersGrow DEF TuiInv, Counted
<1>3. DOMAIN store' = DOMAIN store
  BY DEF OtherSaves
<1>4. \A i \in DOMAIN store : store'[i] \in Versions'
  <2> SUFFICES ASSUME NEW i \in DOMAIN store PROVE store'[i] \in Versions'
    OBVIOUS
  <2>1. store[i] \in Versions
    BY DEF TuiInv, OnDisk
  <2>2. CASE i = id
    <3>1. store'[i] = [store[i] EXCEPT !.rev = @ + 1, !.content = -Fresh]
      BY <2>2 DEF OtherSaves
    <3>2. -Fresh \in Contents' /\ store[i].rev + 1 \in Nat
      BY <1>1, <2>1 DEF Contents, Fresh, TuiInv, Counted, Versions
    <3>3. store[i] \in Versions'
      BY <1>2, <2>1
    <3> QED
      BY <3>1, <3>2, <3>3 DEF Versions
  <2>3. CASE i # id
    BY <1>2, <2>1, <2>3 DEF OtherSaves
  <2> QED
    BY <2>2, <2>3
<1>5. OnDisk'
  BY <1>2, <1>3, <1>4 DEF OnDisk, TuiInv
<1>6. Screen'
  BY <1>1, <1>2, <1>3 DEF TuiInv, Screen, Stored
<1>7. Crew' /\ Distinct' /\ OnScreen' /\ Quiet'
  BY <1>0, <1>1, <1>3, CrewStays
<1> QED
  BY <1>0, <1>5, <1>6, <1>7 DEF TuiInv

-----------------------------------------------------------------------------
(* Worker threads and their results *)

\* A worker takes the place of what it was; only a discovery gets another
\* generation.
LEMMA BecomesStep ==
    ASSUME TuiInv, Counted', last <= last', gen <= gen', DOMAIN store \subseteq DOMAIN store',
           UNCHANGED <<draft, snap, efi, busy>>,
           NEW w \in workers, NEW v, Becomes(w, v), Sound(v)',
           v.kind = w.kind, v.draft = w.draft, v.snap = w.snap, v.efi = w.efi,
           v.kind # "discover" => v.gen = w.gen
    PROVE  Crew' /\ Distinct' /\ OnScreen' /\ Quiet'
<1>1. workers' = (workers \ {w}) \cup {v}
  BY DEF Becomes
<1>2. \A x \in workers : Sound(x) /\ Sound(x)' /\ x.gen \in Nat /\ x.gen <= gen /\ gen > 0
  BY StaysSound DEF TuiInv, Crew, Counted, Sound, Jobs
<1>3. Crew'
  BY <1>1, <1>2 DEF Crew, Counted, TuiInv
<1>4. Distinct'
  BY <1>1 DEF Distinct, TuiInv
<1>5. \A x \in workers : UpToDate(x)'
  <2>1. CASE gen' = gen
    BY <2>1 DEF UpToDate, OnScreen, TuiInv
  <2>2. CASE gen' # gen
    BY <1>2, <2>2 DEF UpToDate, TuiInv, Counted
  <2> QED
    BY <2>1, <2>2
<1>6. UpToDate(v)'
  BY <1>5 DEF UpToDate
<1>7. OnScreen'
  BY <1>1, <1>5, <1>6 DEF OnScreen
<1>8. Quiet'
  <2>1. CASE gen' = gen
    BY <1>1, <2>1 DEF Quiet, TuiInv
  <2>2. CASE gen' # gen
    BY <1>1, <1>2, <2>2 DEF Quiet, TuiInv, Counted
  <2> QED
    BY <2>1, <2>2
<1> QED
  BY <1>3, <1>4, <1>7, <1>8

\* The screen and the store are as they were.
LEMMA ScreenStays ==
    ASSUME TuiInv, Counted', last <= last', UNCHANGED <<configId, draft, snap, efi, busy, store>>
    PROVE  Screen' /\ OnDisk'
<1>1. /\ Numbers \subseteq Numbers' /\ Drafts \subseteq Drafts' /\ Efis \subseteq Efis'
      /\ Loads \subseteq Loads'
  BY NumbersGrow DEF TuiInv, Counted
<1>2. Screen'
  BY <1>1 DEF TuiInv, Screen, Stored
<1>3. OnDisk'
  BY StoreStays DEF TuiInv, Counted
<1> QED
  BY <1>2, <1>3

\* A thread starts; a discovery registers.
LEMMA BeginStep ==
    ASSUME TuiInv, NEW w \in workers,
           Begin(w) \/ ClearFlag(w) \/ RaiseGeneration(w) \/ TakeGeneration(w)
    PROVE  TuiInv'
<1>0. Counted' /\ last <= last' /\ gen <= gen'
  BY CountedStep DEF TuiInv, Next, Worker
<1>1. UNCHANGED <<configId, draft, snap, efi, busy, store, last>>
  BY DEF Begin, ClearFlag, RaiseGeneration, TakeGeneration, ui
<1>2. Sound(w) /\ Sound(w)' /\ w \in Jobs
  BY <1>0, <1>1, StaysSound DEF TuiInv, Crew, Sound
<1>3. Jobs' = Jobs
  BY <1>1, NumbersSame
<1>4. gen \in Nat /\ gen > 0
  BY DEF TuiInv, Counted, Crew
<1>5. ASSUME NEW st \in {"raising", "taking", "running", "registering"}, NEW g \in Nat,
             Becomes(w, [w EXCEPT !.stage = st, !.gen = g]), g <= gen',
             w.kind # "discover" => g = w.gen /\ st = "running",
             st = "running" => g > 0
      PROVE  TuiInv'
  <2>1. PICK v : v = [w EXCEPT !.stage = st, !.gen = g]
    OBVIOUS
  <2>2. /\ v \in Jobs /\ v.stage = st /\ v.gen = g /\ v.kind = w.kind
        /\ v.draft = w.draft /\ v.snap = w.snap /\ v.efi = w.efi
    BY <1>2, <2>1 DEF Jobs
  <2>3. Sound(v)'
    BY <1>2, <1>3, <1>5, <2>2 DEF Sound
  <2>4. Crew' /\ Distinct' /\ OnScreen' /\ Quiet'
    BY <1>0, <1>1, <1>5, <2>1, <2>2, <2>3, BecomesStep
  <2> QED
    BY <1>0, <1>1, <2>4, ScreenStays DEF TuiInv
<1>6. w = [w EXCEPT !.gen = w.gen] /\ w.gen \in Nat /\ w.gen <= gen
  BY <1>2 DEF Jobs, Sound
<1>7. \A st : [w EXCEPT !.stage = st] = [w EXCEPT !.stage = st, !.gen = w.gen]
  BY <1>2 DEF Jobs
<1>8. CASE Begin(w)
  <2>0. w.gen <= gen'
    BY <1>0, <1>4, <1>6 DEF Counted
  <2>1. CASE w.kind = "discover"
    <3>1. Becomes(w, [w EXCEPT !.stage = "registering"])
      BY <1>8, <2>1, Zenon DEF Begin
    <3>2. Becomes(w, [w EXCEPT !.stage = "registering", !.gen = w.gen])
      BY <1>7, <3>1
    <3> QED
      BY <1>5, <1>6, <2>0, <2>1, <3>2
  <2>2. CASE w.kind # "discover"
    <3>1. w.gen > 0
      BY <1>2, <2>2 DEF Sound
    <3>2. Becomes(w, [w EXCEPT !.stage = "running"])
      BY <1>8, <2>2, Zenon DEF Begin
    <3>3. Becomes(w, [w EXCEPT !.stage = "running", !.gen = w.gen])
      BY <1>7, <3>2
    <3> QED
      BY <1>5, <1>6, <2>0, <2>2, <3>1, <3>3
  <2> QED
    BY <2>1, <2>2
<1>9. CASE ClearFlag(w) \/ RaiseGeneration(w)
  <2>1. w.kind = "discover"
    BY <1>2, <1>9 DEF ClearFlag, RaiseGeneration, Sound
  <2>2. \E st \in {"raising", "taking"} : Becomes(w, [w EXCEPT !.stage = st])
    BY <1>9 DEF ClearFlag, RaiseGeneration
  <2>3. w.gen <= gen'
    BY <1>0, <1>4, <1>6 DEF Counted
  <2> QED
    BY <1>5, <1>6, <1>7, <2>1, <2>2, <2>3
<1>10. CASE TakeGeneration(w)
  <2>1. w.kind = "discover"
    BY <1>2, <1>10 DEF TakeGeneration, Sound
  <2>2. gen' = gen
    BY <1>10 DEF TakeGeneration, ui
  <2>3. Becomes(w, [w EXCEPT !.stage = "running", !.gen = gen])
    BY <1>10 DEF TakeGeneration
  <2>4. gen <= gen' /\ gen \in Nat /\ gen > 0
    BY <1>4, <2>2
  <2> QED
    BY <1>5, <2>1, <2>3, <2>4, Zenon
<1> QED
  BY <1>8, <1>9, <1>10

LEMMA RunStep == ASSUME TuiInv, NEW w \in workers, Run(w) PROVE TuiInv'
<1>0. Counted' /\ last <= last' /\ gen <= gen'
  BY CountedStep DEF TuiInv, Next, Worker
<1>1. UNCHANGED <<configId, draft, snap, efi, busy, gen>>
  BY DEF Run, ui
<1>2. PICK v : v = [w EXCEPT !.stage = "posted"]
  OBVIOUS
<1>3. /\ Becomes(w, v) /\ w.stage = "running"
      /\ w.kind = "recovery" => w.efi = [content |-> w.draft.content, snap |-> w.snap]
  BY <1>2 DEF Run
<1>4. Sound(w) /\ w \in Jobs
  BY DEF TuiInv, Crew, Sound
<1>5. /\ OnDisk'
      /\ DOMAIN store \subseteq DOMAIN store'
      /\ w.kind = "identity" => w.draft.id \in DOMAIN store'
  <2>1. CASE /\ w.kind = "identity"
             /\ store' = Put(Edited(w.draft), Edited(w.draft).rev)
             /\ last' = Fresh
    <3>1. w.draft \in Drafts
      BY <1>4, <2>1 DEF Sound, Jobs
    <3>2. Edited(w.draft) \in Drafts' /\ Edited(w.draft).id = w.draft.id
      BY <2>1, <3>1, EditedDraft DEF TuiInv, Counted
    <3>3. Edited(w.draft).rev \in Nat
      BY <3>2 DEF Drafts
    <3> QED
      BY <1>0, <2>1, <3>2, <3>3, PutTyped DEF TuiInv, Counted
  <2>2. CASE w.kind \in {"efi", "discover", "recovery"} /\ UNCHANGED store
    BY <1>0, <2>2, StoreStays DEF TuiInv, Counted
  <2> QED
    BY <2>1, <2>2 DEF Run
<1>6. /\ Numbers \subseteq Numbers' /\ Drafts \subseteq Drafts' /\ Efis \subseteq Efis'
      /\ Loads \subseteq Loads'
  BY <1>0, NumbersGrow DEF TuiInv, Counted
<1>7. Screen'
  BY <1>1, <1>5, <1>6 DEF TuiInv, Screen, Stored
<1>8. Sound(w)'
  BY <1>0, <1>4, <1>5, StaysSound DEF TuiInv
<1>9. /\ v.stage = "posted" /\ v.gen = w.gen /\ v.kind = w.kind /\ v.draft = w.draft
      /\ v.snap = w.snap /\ v.efi = w.efi
  BY <1>2, <1>4 DEF Jobs
<1>10. v \in Jobs'
  <2>1. w \in Jobs'
    BY <1>8 DEF Sound
  <2> QED
    BY <1>2, <2>1 DEF Jobs
<1>11. Sound(v)'
  BY <1>3, <1>5, <1>8, <1>9, <1>10 DEF Sound, Stored
<1>12. Crew' /\ Distinct' /\ OnScreen' /\ Quiet'
  BY <1>0, <1>1, <1>3, <1>5, <1>9, <1>11, BecomesStep
<1> QED
  BY <1>0, <1>5, <1>7, <1>12 DEF TuiInv

\* Results that are not shown.
LEMMA StopStep == ASSUME TuiInv, NEW w \in workers, Stop(w) \/ Ignore(w) PROVE TuiInv'
<1>0. Counted' /\ last <= last'
  BY CountedStep DEF TuiInv, Next, Worker
<1>1. UNCHANGED <<configId, draft, snap, efi, busy, gen, store>> /\ workers' \subseteq workers
  BY DEF Stop, Ignore, ui
<1>2. Screen' /\ OnDisk'
  BY <1>0, <1>1, ScreenStays
<1>3. Crew' /\ Distinct' /\ OnScreen' /\ Quiet'
  BY <1>0, <1>1, CrewStays
<1> QED
  BY <1>0, <1>2, <1>3 DEF TuiInv

\* A result that is shown: no other worker on the draft is current, unless it is
\* a discovery, which leaves the draft and the EFI alone.
LEMMA PublishStep == ASSUME TuiInv, NEW w \in workers, Publish(w) PROVE TuiInv'
<1>0. Counted' /\ last <= last'
  BY CountedStep DEF TuiInv, Next, Worker
<1>1. /\ UNCHANGED <<configId, snap, gen, busy, store, last>> /\ workers' = workers \ {w}
      /\ busy = None
  BY DEF Publish
<1>2. Sound(w) /\ w \in Jobs /\ w.gen = gen /\ w.stage = "posted"
  BY DEF Publish, Current, TuiInv, Crew, Sound
<1>3. OnDisk'
  BY <1>0, <1>1, StoreStays DEF TuiInv, Counted
<1>4. Numbers' = Numbers /\ Drafts' = Drafts /\ Efis' = Efis
  BY <1>1, NumbersSame
<1>5. draft' \in Drafts \cup {None} /\ (draft' # None => draft'.base <= draft'.rev)
  <2>1. CASE draft' = draft
    BY <2>1 DEF TuiInv, Screen
  <2>2. CASE w.kind = "identity" /\ draft' = Loaded(w.draft.id)
    BY <1>2, <2>2, LoadedDraft DEF TuiInv, Sound, Stored
  <2> QED
    BY <2>1, <2>2 DEF Publish
<1>6. efi' \in Efis
  <2>1. CASE efi' \in {efi, None}
    BY <2>1 DEF TuiInv, Screen, Efis
  <2>2. CASE w.kind = "efi" /\ efi' = [content |-> w.draft.content, snap |-> w.snap]
    <3>1. w.draft \in Drafts /\ w.snap \in Numbers
      BY <1>2, <2>2 DEF Sound, Jobs
    <3>2. w.draft.content \in Contents
      BY <3>1 DEF Drafts
    <3> QED
      BY <2>2, <3>1, <3>2 DEF Efis
  <2> QED
    BY <2>1, <2>2 DEF Publish
<1>7. Screen'
  BY <1>1, <1>4, <1>5, <1>6 DEF TuiInv, Screen, Stored
<1>8. \A v \in workers : Sound(v)'
  BY <1>0, <1>1, StaysSound DEF TuiInv, Crew, Counted
<1>9. Crew'
  BY <1>1, <1>8 DEF Crew, TuiInv
<1>10. Distinct'
  BY <1>1 DEF Distinct, TuiInv
<1>11. OnScreen'
  <2>1. CASE w.kind = "discover"
    <3>1. UNCHANGED <<draft, efi>>
      BY <2>1 DEF Publish
    <3> QED
      BY <1>1, <3>1 DEF OnScreen, UpToDate, TuiInv
  <2>2. CASE w.kind # "discover"
    <3>1. \A v \in workers' : v.gen = gen => v.kind = "discover"
      BY <1>1, <1>2, <2>2 DEF Distinct, TuiInv
    <3> QED
      BY <1>1, <3>1 DEF OnScreen, UpToDate
  <2> QED
    BY <2>1, <2>2
<1>12. Quiet'
  BY <1>1 DEF Quiet
<1> QED
  BY <1>0, <1>3, <1>7, <1>9, <1>10, <1>11, <1>12 DEF TuiInv

LEMMA NextTui == ASSUME TuiInv, [Next]_vars PROVE TuiInv'
<1>1. CASE Handler
  BY <1>1, RefreshStep, SaveStep, CancelStep, EditStep, ImportStep, ImportEvidenceStep,
     DiscoverStep, OperateStep DEF Handler
<1>2. CASE Load
  BY <1>2, LoadStep
<1>3. ASSUME NEW w \in workers, Worker(w) PROVE TuiInv'
  BY <1>3, BeginStep, RunStep, StopStep, PublishStep DEF Worker
<1>4. CASE \E id \in DOMAIN store : OtherSaves(id)
  BY <1>4, OtherSavesStep
<1>5. CASE UNCHANGED vars
  <2>1. Counted' /\ last <= last'
    BY <1>5, CountedStep DEF TuiInv
  <2>2. UNCHANGED <<configId, draft, snap, efi, busy, gen, store, workers>>
    BY <1>5 DEF vars, ui
  <2> QED
    BY <2>1, <2>2, ScreenStays, CrewStays DEF TuiInv
<1> QED
  BY <1>1, <1>2, <1>3, <1>4, <1>5 DEF Next

\* The invariant that everything else follows from: no two workers on the draft
\* have the same generation, and one of the current generation works on what is
\* on the screen, however a discovery's registration interleaves with the UI.
THEOREM TuiInvariant == Spec => []TuiInv
<1>1. Init => TuiInv
  BY InitTui
<1>2. TuiInv /\ [Next]_vars => TuiInv'
  BY NextTui
<1> QED
  BY <1>1, <1>2, PTL DEF Spec

\* WorkflowApp's state keeps its types, however its workers interleave.
THEOREM TypeCorrect == Spec => []TypeOK
  BY TuiInvariant, InvTypes, PTL

\* At most one worker on the draft can still put its result on the screen.
THEOREM OneIsCurrent == Spec => []OneCurrent
  BY TuiInvariant, InvTypes, PTL

-----------------------------------------------------------------------------
(* What is on the screen *)

\* The build on the screen is of what is there, or of what action_save has just
\* stored and has still to load.
EfiFor ==
    efi # None /\ (busy = None \/ busy.why = "save") =>
        /\ draft # None
        /\ efi.snap = snap
        /\ efi.content = draft.content \/ draft.content < 0

\* No draft has a basis that is still to be stored.
Aged(d) == d # None => IF Stored(d.id) THEN d.base <= store[d.id].rev ELSE d.base <= 0

\* A worker that started from what was stored before cannot store over it now.
Overtaken(w) ==
    w.draft # None /\ w.draft.id = busy.id => w.draft.base < store[busy.id].rev

\* What action_save stored is still there when it is loaded, unless another
\* process has stored something else meanwhile.
Held ==
    busy # None /\ busy.why = "save" =>
        /\ store[busy.id].content = draft.content \/ store[busy.id].content < 0
        /\ \A w \in workers : Overtaken(w)

EfiInv ==
    /\ EfiFor
    /\ busy # None /\ busy.why = "evidence" => efi = None
    /\ Held
    /\ Aged(draft)
    /\ \A w \in workers : Aged(w.draft)

LEMMA AgedSame == ASSUME NEW x, Aged(x), UNCHANGED store PROVE Aged(x)'
  BY DEF Aged, Stored

\* A save of a later revision makes no draft younger than what is stored.
LEMMA PutAges ==
    ASSUME OnDisk, NEW d, NEW r \in Nat, store' = Put(d, r),
           Stored(d.id) => store[d.id].rev <= r,
           NEW x, x # None => x \in Drafts, Aged(x)
    PROVE  Aged(x)'
<1> SUFFICES ASSUME x # None
             PROVE  IF x.id \in DOMAIN store' THEN x.base <= store'[x.id].rev ELSE x.base <= 0
  BY DEF Aged, Stored
<1>1. x.base \in Int
  BY DEF Drafts, Untracked
<1>2. \A i \in DOMAIN store : store[i].rev \in Nat
  BY DEF OnDisk, Versions
<1>3. DOMAIN store' = DOMAIN store \cup {d.id} /\ store'[d.id].rev = r
      /\ \A i \in DOMAIN store : i # d.id => store'[i] = store[i]
  BY DEF Put
<1> QED
  BY <1>1, <1>2, <1>3 DEF Aged, Stored

\* What SaveAccepts accepts is not older than what is stored, and somebody who
\* has been overtaken is refused.
LEMMA AcceptedIsLater ==
    ASSUME OnDisk, NEW d, d.rev \in Nat, SaveAccepts(d)
    PROVE  /\ Stored(d.id) => store[d.id].rev < d.rev /\ d.base \in {store[d.id].rev}
<1>1. Stored(d.id) => store[d.id].rev \in Nat
  BY DEF OnDisk, Versions, Stored
<1> QED
  BY <1>1 DEF SaveAccepts, Accepts

\* Handlers that store nothing, or fail to: the EFI goes, or nothing changes.
LEMMA EfiHandlers ==
    ASSUME TuiInv, EfiInv, busy = None, busy' = None, UNCHANGED store,
           efi' = None \/ UNCHANGED <<efi, draft, snap>>,
           Aged(draft)', \A w \in workers' : w \in workers \/ w.draft \in {None, draft}
    PROVE  EfiInv'
<1>1. \A w \in workers : Aged(w.draft)'
  BY AgedSame DEF EfiInv
<1>2. Aged(None)'
  BY DEF Aged
<1>3. \A x \in {draft} : Aged(x)'
  BY AgedSame DEF EfiInv
<1>4. \A w \in workers' : Aged(w.draft)'
  BY <1>1, <1>2, <1>3
<1> QED
  BY <1>4 DEF EfiInv, EfiFor, Held

LEMMA EfiSaves ==
    ASSUME TuiInv, EfiInv, Save \/ Import \/ ImportEvidence, "io" \notin Faults
    PROVE  EfiInv'
<1>0. busy = None /\ workers' \subseteq workers
  BY DEF Save, Import, ImportEvidence, Button, Press, Started
<1>1. OnDisk /\ last \in Nat
  BY DEF TuiInv, Counted
<1>2. \A w \in workers : w.draft # None => w.draft \in Drafts
  BY DEF TuiInv, Crew, Sound, Jobs
<1>3. draft # None => draft \in Drafts
  BY DEF TuiInv, Screen
<1>4. CASE UNCHANGED <<draft, store, busy>>
  <2>1. Aged(draft)'
    BY <1>4, AgedSame DEF EfiInv, Aged, Stored
  <2>2. efi' = None \/ UNCHANGED <<efi, draft, snap>>
    BY <1>4 DEF Save, Import, ImportEvidence
  <2> QED
    BY <1>0, <1>4, <2>1, <2>2, EfiHandlers
<1>5. CASE Save /\ ~UNCHANGED <<draft, store, busy>>
  <2>1. /\ draft # None /\ draft.base # Untracked /\ Accepts(draft, draft.base, draft.base + 1)
        /\ store' = Put(draft, draft.base + 1) /\ busy' = [id |-> draft.id, why |-> "save"]
        /\ UNCHANGED <<draft, efi, snap>>
    BY <1>5 DEF Save, ToLoad
  <2>2. draft.base + 1 \in Nat /\ draft.base \in Nat
    BY <1>3, <2>1 DEF Drafts, Untracked
  <2>3. Stored(draft.id) => store[draft.id].rev <= draft.base + 1
    BY <2>1, <2>2 DEF Accepts
  <2>4. \A w \in workers : Aged(w.draft)'
    BY <1>1, <1>2, <2>1, <2>2, <2>3, PutAges DEF EfiInv
  <2>5. \A x \in {draft} : Aged(x)'
    BY <1>1, <1>3, <2>1, <2>2, <2>3, PutAges DEF EfiInv
  <2>6. store'[draft.id].rev = draft.base + 1 /\ store'[draft.id].content = draft.content
    BY <2>1 DEF Put
  <2>7. \A w \in workers : w.draft # None /\ w.draft.id = draft.id => w.draft.base < draft.base + 1
    <3> SUFFICES ASSUME NEW w \in workers, w.draft # None, w.draft.id = draft.id
                 PROVE  w.draft.base < draft.base + 1
      OBVIOUS
    <3>1. w.draft.base \in Int
      BY <1>2 DEF Drafts, Untracked
    <3>2. w.draft.base <= draft.base
      BY <2>1, <2>2, <3>1 DEF EfiInv, Aged, Accepts
    <3> QED
      BY <2>2, <3>1, <3>2
  <2>8. Held'
    BY <1>0, <2>1, <2>6, <2>7 DEF Held, Overtaken
  <2>9. EfiFor'
    BY <1>0, <2>1 DEF EfiInv, EfiFor
  <2> QED
    BY <1>0, <2>1, <2>4, <2>5, <2>8, <2>9 DEF EfiInv
<1>6. CASE Import /\ ~UNCHANGED <<draft, store, busy>>
  <2> DEFINE d == [id |-> Fresh, content |-> Fresh, base |-> Untracked, rev |-> 0, hw |-> Fresh]
  <2>1. draft' = d /\ store' = Put(d, 0) /\ busy' = [id |-> d.id, why |-> "import"]
    BY <1>6 DEF Import, ToLoad
  <2>2. ~Stored(d.id)
    BY <1>1 DEF OnDisk, Stored, Numbers, Fresh
  <2>3. \A w \in workers : Aged(w.draft)'
    <3> HIDE DEF d
    <3> QED
      BY <1>1, <1>2, <2>1, <2>2, PutAges DEF EfiInv
  <2>4. Aged(draft)'
    BY <2>1 DEF Aged, Stored, Put, Untracked
  <2>5. busy' # None
    BY <1>1, <2>1, NoneAssumption DEF Fresh, Reasons
  <2> QED
    BY <1>0, <2>1, <2>3, <2>4, <2>5 DEF EfiInv, EfiFor, Held
<1>7. CASE ImportEvidence /\ ~UNCHANGED <<draft, store, busy>>
  <2>1. draft # None /\ draft \in Drafts
    BY <1>3, <1>7 DEF ImportEvidence
  <2>2. /\ Edited(draft).id = draft.id /\ Edited(draft).base = draft.base
        /\ Edited(draft).rev = draft.rev + 1 /\ Edited(draft).rev \in Nat
        /\ Edited(draft) # None
    <3>1. Edited(draft) \in [id : Nat, content : Int, base : {Untracked} \cup Nat,
                             rev : Nat, hw : Nat]
      BY <1>1, <2>1 DEF Edited, Fresh, Drafts, Numbers
    <3> QED
      BY <2>1, <3>1, NoneAssumption DEF Edited, Drafts
  <2>3. draft' = Edited(draft) /\ efi' = None
    BY <1>7 DEF ImportEvidence
  <2>4. CASE UNCHANGED <<store, busy>>
    <3>1. Aged(draft)'
      BY <2>1, <2>2, <2>3, <2>4 DEF EfiInv, Aged, Stored
    <3> QED
      BY <1>0, <2>3, <2>4, <3>1, EfiHandlers
  <2>5. CASE ~UNCHANGED <<store, busy>>
    <3> DEFINE d == Edited(draft)
    <3>1. /\ store' = Put(d, d.rev) /\ busy' = [id |-> d.id, why |-> "evidence"]
          /\ SaveAccepts(d)
      BY <1>7, <2>5 DEF ImportEvidence, ToLoad
    <3> HIDE DEF d
    <3>2. Stored(d.id) => store[d.id].rev <= d.rev
      <4>1. Stored(d.id) => store[d.id].rev \in Nat
        BY <1>1 DEF OnDisk, Versions, Stored
      <4> QED
        BY <1>1, <2>2, <3>1, <4>1, AcceptedIsLater DEF d
    <3>3. \A w \in workers : Aged(w.draft)'
      BY <1>1, <1>2, <2>2, <3>1, <3>2, PutAges DEF EfiInv, d
    <3>4. \A x \in {draft} : Aged(x)'
      BY <1>1, <2>1, <2>2, <3>1, <3>2, PutAges DEF EfiInv, d
    <3>5. Aged(draft)'
      BY <2>1, <2>2, <2>3, <3>4 DEF Aged, Stored
    <3> QED
      BY <1>0, <2>3, <3>1, <3>3, <3>5 DEF EfiInv, EfiFor, Held
  <2> QED
    BY <2>4, <2>5
<1> QED
  BY <1>4, <1>5, <1>6, <1>7

LEMMA EfiLoad == ASSUME TuiInv, EfiInv, Load, "io" \notin Faults PROVE EfiInv'
<1>1. /\ busy # None /\ busy \in Loads /\ Stored(busy.id) /\ OnDisk /\ busy' = None
      /\ draft' = Loaded(busy.id) /\ UNCHANGED <<store, workers>>
      /\ snap' = IF busy.why = "import" THEN 0 ELSE snap
      /\ efi' = IF busy.why = "import" THEN None ELSE efi
  BY DEF Load, TuiInv, Screen
<1>2. Loaded(busy.id) \in Drafts
  BY <1>1, LoadedDraft DEF Stored
<1>3. Loaded(busy.id) # None
  BY <1>2, DraftIsSome DEF TuiInv
<1>4. \A w \in workers : Aged(w.draft)'
  BY <1>1, AgedSame DEF EfiInv
<1>5. Aged(draft)'
  <2>1. store[busy.id].rev \in Nat
    BY <1>1 DEF OnDisk, Versions, Stored
  <2> QED
    BY <1>1, <2>1 DEF Aged, Stored, Loaded
<1>6. EfiFor'
  <2>1. CASE busy.why = "save"
    <3>1. Loaded(busy.id).content = store[busy.id].content
      BY DEF Loaded
    <3> QED
      BY <1>1, <1>3, <2>1, <3>1 DEF EfiInv, EfiFor, Held
  <2>2. CASE busy.why = "import"
    BY <1>1, <2>2 DEF EfiFor
  <2>3. CASE busy.why = "evidence"
    BY <1>1, <2>3 DEF EfiInv, EfiFor
  <2> QED
    BY <1>1, <2>1, <2>2, <2>3 DEF Loads, Reasons
<1> QED
  BY <1>1, <1>4, <1>5, <1>6 DEF EfiInv, Held

\* Workers and other processes, which leave the draft on the screen alone.
LEMMA EfiBehind ==
    ASSUME TuiInv, TuiInv', EfiInv, UNCHANGED <<draft, snap, efi, busy>>,
           \A w \in workers' : \E v \in workers : w.draft = v.draft,
           \A x \in Drafts \cup {None} : Aged(x) => Aged(x)',
           busy # None /\ busy.why = "save" =>
               /\ store[busy.id].rev <= store'[busy.id].rev
               /\ store'[busy.id].content \in {store[busy.id].content, -Fresh}
    PROVE  EfiInv'
<1>1. \A w \in workers : w.draft \in Drafts \cup {None}
  BY DEF TuiInv, Crew, Sound, Jobs
<1>2. \A w \in workers' : Aged(w.draft)'
  BY <1>1 DEF EfiInv
<1>3. Aged(draft)'
  <2>1. \A x \in {draft} : Aged(x)'
    BY DEF TuiInv, Screen, EfiInv
  <2> QED
    BY <2>1 DEF Aged, Stored
<1>4. EfiFor'
  BY DEF EfiInv, EfiFor
<1>5. -Fresh < 0 /\ last \in Nat
  BY DEF Fresh, TuiInv, Counted
<1>6. ASSUME busy # None, busy.why = "save" PROVE Held'
  <2>1. Held /\ store[busy.id].content \in Int
    BY <1>6 DEF EfiInv, TuiInv, Screen, OnDisk, Stored, Versions, Contents, Counted
  <2>2. store'[busy.id].content = draft.content \/ store'[busy.id].content < 0
    BY <1>5, <1>6, <2>1 DEF Held
  <2>3. \A w \in workers' : w.draft # None /\ w.draft.id = busy.id => w.draft.base < store'[busy.id].rev
    <3> SUFFICES ASSUME NEW w \in workers, w.draft # None, w.draft.id = busy.id
                 PROVE  w.draft.base < store'[busy.id].rev
      OBVIOUS
    <3>1. w.draft.base < store[busy.id].rev /\ w.draft.base \in Int
      BY <1>1, <1>6, <2>1 DEF Held, Overtaken, Drafts, Untracked
    <3>2. store[busy.id].rev \in Nat /\ store'[busy.id].rev \in Nat
      BY <1>6 DEF TuiInv, Screen, OnDisk, Stored, Versions
    <3> QED
      BY <1>6, <3>1, <3>2
  <2> QED
    BY <2>2, <2>3 DEF Held, Overtaken
<1> QED
  BY <1>2, <1>3, <1>4, <1>6 DEF EfiInv, Held

\* A worker that still has to store is refused where action_save has just stored.
LEMMA RunsElsewhere ==
    ASSUME TuiInv, EfiInv, NEW w \in workers, w.draft \in Drafts, SaveAccepts(Edited(w.draft)),
           busy # None, busy.why = "save"
    PROVE  w.draft.id # busy.id
<1> SUFFICES ASSUME w.draft.id = busy.id PROVE FALSE
  OBVIOUS
<1>1. w.draft.base < store[busy.id].rev /\ w.draft.base \in Int
  BY DraftIsSome DEF EfiInv, Held, Overtaken, TuiInv, Drafts, Untracked
<1>2. Stored(busy.id) /\ store[busy.id].rev \in Nat
  BY DEF TuiInv, Screen, OnDisk, Stored, Versions
<1>3. Edited(w.draft).id = busy.id /\ Edited(w.draft).base = w.draft.base
  BY DEF Edited
<1> QED
  BY <1>1, <1>2, <1>3 DEF SaveAccepts, Accepts

LEMMA EfiWorkers ==
    ASSUME TuiInv, TuiInv', EfiInv, NEW w \in workers, Worker(w), "io" \notin Faults PROVE EfiInv'
<1>1. \A v \in workers : v.draft \in Drafts \cup {None}
  BY DEF TuiInv, Crew, Sound, Jobs
<1>2. \A v \in workers : v \in Jobs
  BY DEF TuiInv, Crew, Sound
<1>3. CASE Begin(w) \/ ClearFlag(w) \/ RaiseGeneration(w) \/ TakeGeneration(w) \/ Stop(w) \/ Ignore(w)
  <2>1. UNCHANGED <<draft, snap, efi, busy, store>>
    BY <1>3 DEF Begin, ClearFlag, RaiseGeneration, TakeGeneration, Stop, Ignore, ui
  <2>2. \A v \in workers' : \E x \in workers : v.draft = x.draft
    BY <1>2, <1>3 DEF Begin, ClearFlag, RaiseGeneration, TakeGeneration, Stop, Ignore, Becomes, Jobs
  <2>3. \A x \in Drafts \cup {None} : Aged(x) => Aged(x)'
    BY <2>1, AgedSame
  <2>4. busy # None /\ busy.why = "save" => store[busy.id].rev <= store'[busy.id].rev
    BY <2>1 DEF TuiInv, Screen, OnDisk, Stored, Versions
  <2> QED
    BY <2>1, <2>2, <2>3, <2>4, EfiBehind
<1>4. CASE Run(w)
  <2>1. UNCHANGED <<draft, snap, efi, busy>>
    BY <1>4 DEF Run, ui
  <2>2. \A v \in workers' : \E x \in workers : v.draft = x.draft
    BY <1>2, <1>4 DEF Run, Becomes, Jobs
  <2>3. CASE UNCHANGED store
    <3>1. \A x \in Drafts \cup {None} : Aged(x) => Aged(x)'
      BY <2>3, AgedSame
    <3>2. busy # None /\ busy.why = "save" => store[busy.id].rev <= store'[busy.id].rev
      BY <2>3 DEF TuiInv, Screen, OnDisk, Stored, Versions
    <3> QED
      BY <2>1, <2>2, <2>3, <3>1, <3>2, EfiBehind
  <2>4. CASE ~UNCHANGED store
    <3> DEFINE d == Edited(w.draft)
    <3>1. /\ w.kind = "identity" /\ SaveAccepts(d) /\ store' = Put(d, d.rev)
      BY <1>4, <2>4 DEF Run
    <3>2. w.draft \in Drafts
      BY <3>1 DEF TuiInv, Crew, Sound, Jobs
    <3>3. d.id = w.draft.id /\ d.rev \in Nat
      BY <3>2 DEF Edited, Drafts
    <3>4. busy # None /\ busy.why = "save" => d.id # busy.id
      BY <3>1, <3>2, <3>3, RunsElsewhere
    <3> HIDE DEF d
    <3>5. OnDisk
      BY DEF TuiInv
    <3>6. Stored(d.id) => store[d.id].rev <= d.rev
      <4>1. Stored(d.id) => store[d.id].rev \in Nat
        BY <3>5 DEF OnDisk, Versions, Stored
      <4> QED
        BY <3>1, <3>3, <3>5, <4>1, AcceptedIsLater
    <3>7. \A x \in Drafts \cup {None} : Aged(x) => Aged(x)'
      BY <3>1, <3>3, <3>5, <3>6, PutAges
    <3>8. busy # None /\ busy.why = "save" => store'[busy.id] = store[busy.id]
      BY <3>1, <3>4 DEF Put, TuiInv, Screen, Stored
    <3>9. busy # None /\ busy.why = "save" => store[busy.id].rev <= store'[busy.id].rev
      BY <3>8 DEF TuiInv, Screen, OnDisk, Stored, Versions
    <3> QED
      BY <2>1, <2>2, <3>7, <3>8, <3>9, EfiBehind
  <2> QED
    BY <2>3, <2>4
<1>5. CASE Publish(w)
  <2>1. busy = None /\ busy' = None /\ UNCHANGED <<snap, store>> /\ workers' \subseteq workers
    BY <1>5 DEF Publish
  <2>2. Sound(w) /\ w.gen = gen /\ UpToDate(w) /\ w.stage = "posted"
    BY <1>5 DEF Publish, Current, TuiInv, Crew, OnScreen
  <2>3. \A v \in workers' : Aged(v.draft)'
    BY <2>1, AgedSame DEF EfiInv
  <2>4. CASE w.kind = "identity"
    <3>1. draft' = Loaded(w.draft.id) /\ efi' = None /\ Stored(w.draft.id)
      BY <1>5, <2>2, <2>4 DEF Publish, Sound
    <3>2. store[w.draft.id].rev \in Nat
      BY <3>1 DEF TuiInv, OnDisk, Versions, Stored
    <3>3. Aged(draft)'
      BY <2>1, <3>1, <3>2 DEF Aged, Stored, Loaded
    <3> QED
      BY <2>1, <2>3, <3>1, <3>3 DEF EfiInv, EfiFor, Held
  <2>5. CASE w.kind # "identity"
    <3>1. UNCHANGED draft
      BY <1>5, <2>5 DEF Publish
    <3>2. Aged(draft)'
      BY <2>1, <3>1 DEF Aged, Stored, EfiInv
    <3>3. EfiFor'
      <4>1. CASE w.kind = "efi"
        BY <1>5, <2>1, <2>2, <3>1, <4>1 DEF Publish, Sound, UpToDate, EfiFor
      <4>2. CASE w.kind # "efi"
        BY <1>5, <2>1, <2>5, <3>1, <4>2 DEF Publish, EfiFor, EfiInv
      <4> QED
        BY <4>1, <4>2
    <3> QED
      BY <2>1, <2>3, <3>2, <3>3 DEF EfiInv, Held
  <2> QED
    BY <2>4, <2>5
<1> QED
  BY <1>3, <1>4, <1>5 DEF Worker

LEMMA EfiOthers ==
    ASSUME TuiInv, TuiInv', EfiInv, NEW id \in DOMAIN store, OtherSaves(id) PROVE EfiInv'
<1>1. UNCHANGED <<draft, snap, efi, busy, workers>>
  BY DEF OtherSaves, ui
<1>2. /\ DOMAIN store' = DOMAIN store
      /\ \A i \in DOMAIN store : i # id => store'[i] = store[i]
  BY DEF OtherSaves
<1>3. store[id].rev \in Nat /\ store[id] \in Versions
  BY DEF TuiInv, OnDisk, Versions
<1>4. store'[id].rev = store[id].rev + 1 /\ store'[id].content = -Fresh
  BY <1>3 DEF OtherSaves, Versions
<1>5. \A x \in Drafts \cup {None} : Aged(x) => Aged(x)'
  <2> SUFFICES ASSUME NEW x \in Drafts, Aged(x), x # None PROVE Aged(x)'
    BY DEF Aged
  <2>1. x.base \in Int
    BY DEF Drafts, Untracked
  <2> QED
    BY <1>2, <1>3, <1>4, <2>1 DEF Aged, Stored
<1>6. busy # None => /\ store[busy.id].rev <= store'[busy.id].rev
                     /\ store'[busy.id].content \in {store[busy.id].content, -Fresh}
  BY <1>2, <1>3, <1>4 DEF TuiInv, Screen, OnDisk, Stored, Versions
<1> QED
  BY <1>1, <1>5, <1>6, EfiBehind

LEMMA EfiStep ==
    ASSUME TuiInv, EfiInv, [Next]_vars, "io" \notin Faults PROVE EfiInv'
<1>0. TuiInv'
  BY NextTui
<1>1. CASE Save \/ Import \/ ImportEvidence
  BY <1>1, EfiSaves
<1>2. CASE Refresh
  <2>1. busy = None /\ busy' = None /\ efi' = None /\ UNCHANGED store /\ workers' \subseteq workers
    BY <1>2 DEF Refresh, Press, Started
  <2>2. \A i \in DOMAIN store : store[i].rev \in Nat
    BY DEF TuiInv, OnDisk, Versions
  <2>3. Aged(draft)'
    <3>1. CASE configId # None /\ draft' = Loaded(configId)
      BY <2>1, <2>2, <3>1 DEF Aged, Stored, Loaded, TuiInv, Screen
    <3>2. CASE draft' = Created(Fresh)
      BY <2>1, <2>2, <3>2 DEF Aged, Stored, Created
    <3>3. CASE draft' = draft
      BY <2>1, <3>3 DEF Aged, Stored, EfiInv
    <3> QED
      BY <1>2, <3>1, <3>2, <3>3 DEF Refresh
  <2> QED
    BY <2>1, <2>3, EfiHandlers
<1>3. CASE Edit
  <2>1. /\ busy = None /\ busy' = None /\ efi' = None /\ UNCHANGED <<store, workers>>
        /\ draft' = Edited(draft) /\ draft # None
    BY <1>3 DEF Edit, Button, Press
  <2>2. Aged(draft)'
    BY <2>1 DEF Aged, Stored, EfiInv, Edited
  <2> QED
    BY <2>1, <2>2, EfiHandlers
<1>4. CASE Cancel \/ Evaluate
  <2>1. /\ busy = None /\ busy' = None /\ UNCHANGED <<efi, draft, snap, store>>
        /\ workers' \subseteq workers
    BY <1>4 DEF Cancel, Evaluate, Button, Press, Started
  <2>2. Aged(draft)'
    BY <2>1 DEF Aged, Stored, EfiInv
  <2> QED
    BY <2>1, <2>2, EfiHandlers
<1>5. ASSUME NEW kind \in Kinds, NEW g, Launch(kind, g), Button,
             UNCHANGED <<draft, snap, busy, store>>, efi' \in {None, efi}
      PROVE  EfiInv'
  <2>1. busy = None
    BY <1>5 DEF Button, Press
  <2>2. \A w \in workers' : w \in workers \/ w.draft \in {None, draft}
    BY <1>5 DEF Launch, Started
  <2>3. Aged(draft)'
    BY <1>5 DEF Aged, Stored, EfiInv
  <2> QED
    BY <1>5, <2>1, <2>2, <2>3, EfiHandlers
<1>6. CASE Discover
  BY <1>5, <1>6 DEF Discover, ui, Kinds
<1>7. ASSUME NEW kind \in Kinds \ {"discover"}, Operate(kind) PROVE EfiInv'
  BY <1>5, <1>7 DEF Operate
<1>8. CASE Load
  BY <1>8, EfiLoad
<1>9. ASSUME NEW w \in workers, Worker(w) PROVE EfiInv'
  BY <1>0, <1>9, EfiWorkers
<1>10. ASSUME NEW id \in DOMAIN store, OtherSaves(id) PROVE EfiInv'
  BY <1>0, <1>10, EfiOthers
<1>11. CASE UNCHANGED vars
  BY <1>11 DEF vars, ui, EfiInv, EfiFor, Held, Overtaken, Aged, Stored
<1> QED
  BY <1>1, <1>2, <1>3, <1>4, <1>6, <1>7, <1>8, <1>9, <1>10, <1>11 DEF Next, Handler

\* _invalidate_efi: the build that the app offers is one of the draft and the
\* hardware on the screen, or of what another process has put in the place of
\* that draft, as long as reading and writing configurations works.
THEOREM EfiIsCurrent == ASSUME "io" \notin Faults PROVE Spec => []EfiCurrent
<1>1. Init => EfiInv
  BY DEF Init, EfiInv, EfiFor, Held, Aged
<1>2. TuiInv /\ EfiInv /\ [Next]_vars => EfiInv'
  BY EfiStep
<1>3. EfiInv => EfiCurrent
  BY DEF EfiInv, EfiFor, EfiCurrent
<1> QED
  BY <1>1, <1>2, <1>3, TuiInvariant, PTL DEF Spec

\* A worker's result never replaces a draft that was edited after the worker was
\* started, whatever fails.
THEOREM EditsAreKept == Spec => WorkerKeepsEdits
<1> DEFINE Keeps ==
        \A w \in workers :
            w.stage = "posted" /\ w \notin workers' /\ draft' # draft
                => draft.content = w.draft.content /\ draft.id = w.draft.id
<1>1. TuiInv /\ [Next]_vars => Keeps
  <2> SUFFICES ASSUME TuiInv, [Next]_vars, NEW w \in workers,
                      w.stage = "posted", w \notin workers', draft' # draft
               PROVE  draft.content = w.draft.content /\ draft.id = w.draft.id
    OBVIOUS
  <2>1. w \in Started
    BY DEF Started
  <2>2. CASE Handler
    BY <2>1, <2>2 DEF Handler, Refresh, Save, Cancel, Edit, Evaluate, Import, ImportEvidence,
       Discover, Operate, Launch, ui
  <2>3. ASSUME NEW v \in workers, Publish(v)
        PROVE  draft.content = w.draft.content /\ draft.id = w.draft.id
    <3>1. v = w /\ v.gen = gen /\ v.kind = "identity"
      BY <2>3 DEF Publish, Current
    <3>2. w.draft = draft
      BY <3>1 DEF TuiInv, OnScreen, UpToDate
    <3> QED
      BY <3>2
  <2>4. CASE \E v \in workers : Begin(v) \/ ClearFlag(v) \/ RaiseGeneration(v) \/ TakeGeneration(v)
                               \/ Run(v) \/ Stop(v) \/ Ignore(v)
    BY <2>4 DEF Begin, ClearFlag, RaiseGeneration, TakeGeneration, Run, Stop, Ignore, ui
  <2>5. CASE \E id \in DOMAIN store : OtherSaves(id)
    BY <2>5 DEF OtherSaves, ui
  <2>6. CASE Load
    BY <2>6 DEF Load
  <2>7. CASE UNCHANGED vars
    BY <2>7 DEF vars, ui
  <2> QED
    BY <2>2, <2>3, <2>4, <2>5, <2>6, <2>7 DEF Next, Worker
<1>2. TuiInv /\ [Next]_vars => [Keeps]_vars
  BY <1>1
<1> QED
  BY <1>2, TuiInvariant, PTL DEF Spec, WorkerKeepsEdits

\* Recovery is recorded for the build on the screen, which is the one of the
\* configuration and the hardware that are there, whatever fails.
THEOREM RecoveryIsForEfi == Spec => RecoveryForCurrentEfi
<1> DEFINE Binds ==
        recovery' # recovery =>
            /\ recovery' = efi
            /\ recovery' = [content |-> draft.content, snap |-> snap]
<1>1. TuiInv /\ [Next]_vars => Binds
  <2> SUFFICES ASSUME TuiInv, [Next]_vars, recovery' # recovery
               PROVE  recovery' = efi /\ recovery' = [content |-> draft.content, snap |-> snap]
    OBVIOUS
  <2>1. ~Handler
    BY DEF Handler, Refresh, Save, Cancel, Edit, Evaluate, Import, ImportEvidence, Discover, Operate
  <2>2. PICK w \in workers : Publish(w)
    BY <2>1 DEF Next, Worker, Load, Begin, ClearFlag, RaiseGeneration, TakeGeneration, Run, Stop,
       Ignore, OtherSaves, vars
  <2>3. Sound(w) /\ UpToDate(w) /\ w.gen = gen /\ w.stage = "posted"
    BY <2>2 DEF Publish, Current, TuiInv, Crew, OnScreen
  <2>4. w.kind \notin {"identity", "efi", "discover"}
    BY <2>2 DEF Publish
  <2>5. w.kind = "recovery"
    BY <2>3, <2>4 DEF Sound, Jobs, Kinds
  <2>6. recovery' = w.efi /\ w.efi = efi /\ w.draft = draft /\ w.snap = snap
    BY <2>2, <2>3, <2>5 DEF Publish, UpToDate
  <2>7. w.efi = [content |-> w.draft.content, snap |-> w.snap]
    BY <2>3, <2>5 DEF Sound
  <2> QED
    BY <2>6, <2>7
<1>2. TuiInv /\ [Next]_vars => [Binds]_vars
  BY <1>1
<1> QED
  BY <1>2, TuiInvariant, PTL DEF Spec, RecoveryForCurrentEfi
=============================================================================
