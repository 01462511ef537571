------------------------------ MODULE EfiBuild ------------------------------
(***************************************************************************)
(* Building an EFI for a machine: WorkflowService.build_efi_preview        *)
(* (workflow/service.py), the EFI builder behind it (build/efi.py,         *)
(* build/acpi.py) and derive_recovery_binding, which ties what was built   *)
(* to the draft that is current later.                                     *)
(*                                                                         *)
(* A build works on the draft that it was given and reads everything else  *)
(* again when it needs it: the captured ACPI tables, the tools, the stored *)
(* identities and the output directory.  Meanwhile the draft is edited,    *)
(* captures are imported, replaced and lost, and the tools are provisioned *)
(* or damaged.                                                             *)
(*                                                                         *)
(* Digests stand for what they are digests of.  The archives of the        *)
(* drivers are ArtifactCache's: a build leases verified ones or fails.     *)
(***************************************************************************)
EXTENDS DraftReview, ToolRoot

CONSTANTS
    Kexts,        \* the kernel extensions in the archive of each dependency
    KextNames,    \* the kernel extensions in the order of their names
    SmcNamed,     \* those whose names begin with "smc"
    Builders,     \* builds that may run at the same time, for one output
    Snapshots,    \* the hardware snapshot with each id
    Cases,        \* where it starts: [machine, draft, disk, tools]
    Captures,     \* directories of private captures
    Identities,   \* names of stored identities
    Tables,       \* contents of a set of ACPI tables
    ToolLosses,   \* bound: how tools are found that the world lost, "none" or "bad"
    MaxChanges    \* bound: what the user and the world do

\* Snapshots are found by their ids.  A case's draft may be acknowledged, as it
\* is, and may refer to a stored identity.
ASSUME SnapshotsAssumption == \A id \in DOMAIN Snapshots : Snapshots[id].id = id
ASSUME CasesAssumption ==
    \A c \in Cases :
        /\ c.machine \in DOMAIN Snapshots
        /\ c.tools \in [Tools -> ToolStates]
        /\ WellFormed(c.draft)
        /\ c.draft.identity \in Identities \cup {None}
        /\ \A a \in c.draft.acks : a.binding = AckBinding(c.draft)
ASSUME ChangesAssumption == MaxChanges \in Nat /\ ToolLosses \subseteq {"none", "bad"}
ASSUME KextsAssumption ==
    /\ KextNames \in Seq(ToSet(KextNames))
    /\ Kexts \in [Deps -> SUBSET ToSet(KextNames)]
    /\ SmcNamed \cap {"lilu", "virtualsmc", "applealc", "bluetoolfixup", "whatevergreen"} = {}

VARIABLES
    machine,      \* the id of the observed hardware's snapshot
    draft,        \* the user's configuration draft
    disk,         \* the private captures
    identities,   \* the private identities that are stored
    builder,      \* what each build has come to
    output,       \* the output directory: None or [tree, manifest]
    binding,      \* the Recovery binding derived last, with its inputs, or None
    asked,        \* auxiliary: the acknowledgements given, with what was shown
    changes       \* what the user and the world have done

worldVars == <<machine, draft, disk, identities, asked, changes>>
vars == <<worldVars, builder, output, binding, toolVars>>

Idle == [pc |-> "idle", plan |-> None, digest |-> None, tree |-> None]

\* What an acknowledgement is shown for.
Shown(d, o) == [option |-> o, options |-> d.options, evidence |-> d.evidence, target |-> d.target]

Init ==
    /\ ToolInit
    /\ \E c \in Cases :
        /\ machine = c.machine
        /\ draft = c.draft
        /\ disk = c.disk
        /\ tools = c.tools
        /\ asked = {Shown(c.draft, a.option) : a \in c.draft.acks}
    /\ identities = {i \in Identities : i = draft.identity}
    /\ builder = [b \in Builders |-> Idle]
    /\ output = None
    /\ binding = None
    /\ changes = 0

-----------------------------------------------------------------------------
(* A build *)

Goes(b, from, to) ==
    /\ builder[b].pc = from
    /\ builder' = [builder EXCEPT ![b].pc = to]

BuildOnly == UNCHANGED <<worldVars, output, binding, toolVars>>

\* The build is refused when the draft has an issue or its plan does not resolve
\* to a complete lock.
Start(b) ==
    /\ builder[b].pc = "idle"
    /\ \E plan \in {PlanOf(draft, Snapshots[machine], disk)} :
           /\ plan.accepted # None
           /\ Resolved(plan)
           /\ Open(plan) = {}
           /\ builder' = [builder EXCEPT ![b] = [Idle EXCEPT !.pc = "select", !.plan = plan]]
    /\ BuildOnly

\* The tools are there, or an online build's provisioning (ToolStep) has
\* brought them.
SelectTools(b) == Goes(b, "select", "expect") /\ Selectable /\ BuildOnly

AcpiRecords(d) == {r \in d.evidence : r.kind = "acpi"}

\* The digest of the capture as it is now: the one that the build expects.
Expect(b) ==
    /\ builder[b].pc = "expect"
    /\ \E r \in AcpiRecords(builder[b].plan.accepted) :
        LET digest == CaptureDigest(r.ref, machine, r.bios, disk)
        IN  /\ digest # None
            /\ builder' = [builder EXCEPT ![b].pc = "gate", ![b].digest = digest]
    /\ BuildOnly

\* The builder looks at everything again before it writes anything.
Gate(b) ==
    /\ Goes(b, "gate", "compile")
    /\ Selectable
    /\ LET plan == builder[b].plan
       IN  /\ plan.state \in Usable
           /\ plan.needs = {}
           /\ builder[b].digest \in plan.evidence
           /\ plan.model = Reviewed.model
           /\ plan.target = Reviewed.release
           /\ Resolved(plan)
    /\ output = None
    /\ BuildOnly

\* What is taken out of the archives, in the order of the lock.
Extracted(plan) ==
    [drivers |-> Locked(plan), kexts |-> <<>>, options |-> plan.options, identity |-> None]

\* The tables are read once more and are still the expected ones.
TablesStand(plan, digest) ==
    \E r \in AcpiRecords(plan.accepted) :
        CaptureDigest(r.ref, plan.machine, Reviewed.bios, disk) = digest

\* The drivers go into the staging tree, then the reviewed tables are compiled.
Compile(b) ==
    /\ builder[b].pc = "compile"
    /\ tools["iasl"] = "good"
    /\ LET plan == builder[b].plan
       IN  /\ TablesStand(plan, builder[b].digest)
           /\ builder' = [builder EXCEPT ![b].pc = "configure", ![b].tree = Extracted(plan)]
    /\ BuildOnly

\* The configuration does not keep the order of the lock: it has ranks for a few
\* names.
Rank(k) ==
    CASE k = "lilu" -> 0
      [] k = "virtualsmc" -> 1
      [] k \in {"applealc", "bluetoolfixup", "whatevergreen"} -> 2
      [] k \in SmcNamed -> 3
      [] OTHER -> 4

\* Two kernel extensions of one rank go by their names.
Position(k) == CHOOSE i \in DOMAIN KextNames : KextNames[i] = k

\* A plausible bug: the kernel extensions are sorted by their names alone.
PrecedesByName(j, k) == Position(j) < Position(k)

Precedes(j, k) ==
    \/ Rank(j) < Rank(k)
    \/ Rank(j) = Rank(k) /\ Position(j) < Position(k)

Preceding(k, kexts) == {j \in kexts : Precedes(j, k)}

\* The list that OpenCore loads: each has as many before it as precede it.
LoadOrder(kexts) ==
    LET place == [k \in kexts |-> Cardinality(Preceding(k, kexts)) + 1]
    IN  [i \in 1..Cardinality(kexts) |-> CHOOSE k \in kexts : place[k] = i]

KextsOf(drivers) == UNION {Kexts[d] : d \in ToSet(drivers)}

\* A stored identity that can be read and is complete.
Stored(ref) == ref \in identities

\* The configuration lists the kernel extensions and has the identity that the
\* draft refers to: without a reference, or without the identity, there is no
\* build.
Configure(b) ==
    /\ builder[b].pc = "configure"
    /\ Stored(builder[b].plan.accepted.identity)
    /\ builder' = [builder EXCEPT
            ![b].pc = "validate",
            ![b].tree.kexts = LoadOrder(KextsOf(builder[b].tree.drivers)),
            ![b].tree.identity = builder[b].plan.accepted.identity]
    /\ BuildOnly

\* The manifest is written and the tree validated with the trusted tools.
Validate(b) == Goes(b, "validate", "publish") /\ Selectable /\ BuildOnly

Manifest(b) ==
    [plan |-> builder[b].plan,
     evidence |-> builder[b].digest,
     tree |-> builder[b].tree]

\* A plausible bug: what is in the way is replaced.
PublishOver(b) ==
    /\ builder[b].pc = "publish"
    /\ output' = [tree |-> builder[b].tree, manifest |-> Manifest(b)]
    /\ builder' = [builder EXCEPT ![b] = Idle]
    /\ UNCHANGED <<worldVars, binding, toolVars>>

\* The staging directory becomes the output; it cannot replace another one.
Publish(b) ==
    /\ builder[b].pc = "publish"
    /\ output = None
    /\ output' = [tree |-> builder[b].tree, manifest |-> Manifest(b)]
    /\ builder' = [builder EXCEPT ![b] = Idle]
    /\ UNCHANGED <<worldVars, binding, toolVars>>

\* A plausible bug: what a failed build had made stays for the next one.
FailKeeps(b) ==
    /\ builder[b].pc # "idle"
    /\ builder' = [builder EXCEPT ![b].pc = "idle"]
    /\ BuildOnly

\* A check fails, a tool fails or times out, the user cancels or presses Ctrl-C:
\* the staging directory goes and the output is left alone.
Fail(b) ==
    /\ builder[b].pc # "idle"
    /\ builder' = [builder EXCEPT ![b] = Idle]
    /\ BuildOnly

-----------------------------------------------------------------------------
(* The Recovery binding *)

\* A plausible bug: the manifest is compared with the lock of the drivers alone.
CurrentLock(manifest, plan, digest) == manifest.tree.drivers = Locked(plan)

\* What the manifest says is what the current draft would build.
Current(manifest, plan, digest) ==
    /\ manifest.plan = plan
    /\ manifest.tree.drivers = Locked(plan)
    /\ manifest.tree.options = plan.options
    /\ manifest.evidence = digest

\* The digest of the tree is the one in its manifest.
Intact(built) == built.tree = built.manifest.tree

Bind ==
    /\ Selectable
    /\ output # None
    /\ Intact(output)
    /\ \E plan \in {PlanOf(draft, Snapshots[machine], disk)} :
           /\ plan.accepted # None
           /\ Resolved(plan)
           /\ Open(plan) = {}
           /\ \E r \in AcpiRecords(draft) :
                LET digest == CaptureDigest(r.ref, machine, r.bios, disk)
                IN  /\ digest # None
                    /\ Current(output.manifest, plan, digest)
                    /\ draft.identity \in {None, output.manifest.tree.identity}
                    /\ binding' = [draft |-> draft, digest |-> digest,
                                   evidence |-> output.manifest.evidence, tree |-> output.tree]
    /\ UNCHANGED <<worldVars, builder, output, toolVars>>

-----------------------------------------------------------------------------
(* The user and the world *)

Change ==
    /\ changes < MaxChanges
    /\ changes' = changes + 1
    /\ UNCHANGED <<machine, builder, binding>>

Edit(d) ==
    /\ Change
    /\ draft' = d
    /\ UNCHANGED <<output, toolVars>>

SelectOption(o, v) == Edit(WithOption(draft, o, v)) /\ UNCHANGED <<disk, identities, asked>>

SelectTarget(t) == Edit(WithTarget(draft, t)) /\ UNCHANGED <<disk, identities, asked>>

Acknowledge(o) ==
    /\ Edit(WithAck(draft, o))
    /\ asked' = asked \cup {Shown(draft, o)}
    /\ UNCHANGED <<disk, identities>>

\* macserial, a pinned tool, makes an identity, which is stored and referred to.
GenerateIdentity(i) ==
    /\ draft.target # None
    /\ draft.target.product = "sequoia"
    /\ Selectable
    /\ i \notin identities
    /\ identities' = identities \cup {i}
    /\ Edit(WithIdentity(draft, i))
    /\ UNCHANGED <<disk, asked>>

ReuseIdentity(i) ==
    /\ Stored(i)
    /\ Edit(WithIdentity(draft, i))
    /\ UNCHANGED <<disk, identities, asked>>

\* A capture of this machine's tables goes into a new directory, and its record
\* into the draft.
ImportCapture(ref, t) ==
    LET record == [kind |-> "acpi", machine |-> machine, bios |-> Reviewed.bios,
                   digest |-> <<ref, t>>, ref |-> ref, ports |-> FALSE]
        capture == [kind |-> "acpi", machine |-> machine, bios |-> Reviewed.bios,
                    digest |-> <<ref, t>>, tables |-> t]
    IN  /\ draft.machine = machine
        /\ Snapshots[machine].type = "20L8"
        /\ Snapshots[machine].bios = Reviewed.bios
        /\ disk[ref] = None
        /\ \A r \in draft.evidence : r.ref # ref
        /\ disk' = [disk EXCEPT ![ref] = capture]
        /\ Edit(WithEvidence(draft, record))
        /\ UNCHANGED <<identities, asked>>

\* The files of a capture are replaced behind the program's back, or lost.
RewriteCapture(ref, t) ==
    /\ disk[ref] # None
    /\ disk[ref].kind = "acpi"
    /\ Change
    /\ disk' = [disk EXCEPT ![ref].tables = t]
    /\ UNCHANGED <<draft, identities, asked, output, toolVars>>

LoseCapture(ref) ==
    /\ disk[ref] # None
    /\ Change
    /\ disk' = [disk EXCEPT ![ref] = None]
    /\ UNCHANGED <<draft, identities, asked, output, toolVars>>

\* Somebody takes a driver out of what was published, or removes it.
DamageTree ==
    /\ output # None
    /\ output.tree.drivers # <<>>
    /\ Change
    /\ output' = [output EXCEPT !.tree.drivers = Tail(@)]
    /\ UNCHANGED <<draft, disk, identities, asked, toolVars>>

RemoveOutput ==
    /\ output # None
    /\ Change
    /\ output' = None
    /\ UNCHANGED <<draft, disk, identities, asked, toolVars>>

ToolLost(t, s) ==
    /\ DamageTool(t, s)
    /\ Change
    /\ UNCHANGED <<draft, disk, identities, asked, output>>

Provision == ToolStep /\ UNCHANGED <<worldVars, builder, output, binding>>

-----------------------------------------------------------------------------

Build ==
    \E b \in Builders :
        \/ Start(b) \/ SelectTools(b) \/ Expect(b) \/ Gate(b)
        \/ Compile(b) \/ Configure(b) \/ Validate(b) \/ Publish(b) \/ Fail(b)

World ==
    \/ \E o \in DOMAIN Options : Acknowledge(o) \/ \E v \in Options[o].values : SelectOption(o, v)
    \/ \E t \in Releases : SelectTarget(t)
    \/ \E i \in Identities : GenerateIdentity(i) \/ ReuseIdentity(i)
    \/ \E ref \in Captures : LoseCapture(ref)
         \/ \E t \in Tables : ImportCapture(ref, t) \/ RewriteCapture(ref, t)
    \/ DamageTree
    \/ RemoveOutput
    \/ \E t \in Tools, s \in ToolLosses : ToolLost(t, s)

Next == Build \/ Bind \/ World \/ Provision

Spec == Init /\ [][Next]_vars

-----------------------------------------------------------------------------

TypeOK ==
    /\ ToolTypeOK
    /\ identities \subseteq Identities
    /\ draft.identity \in identities \cup {None}
    /\ \A b \in Builders :
        /\ builder[b].pc \in {"idle", "select", "expect", "gate", "compile",
                              "configure", "validate", "publish"}
        /\ builder[b].pc = "idle" => builder[b] = Idle
        /\ (builder[b].digest # None) =
               (builder[b].pc \in {"gate", "compile", "configure", "validate", "publish"})
        /\ builder[b].tree # None => builder[b].pc \in {"configure", "validate", "publish"}
    /\ changes \in 0..MaxChanges

\* Every device of the machine, with the category of its policy.
Observed(s) ==
    {<<"graphics", d>> : d \in {s.igpu} \ {None}}
    \cup {<<"graphics", d>> : d \in s.dgpus}
    \cup UNION {{<<i, d>> : d \in s.found[i]} : i \in Inventories}

Known(x, product) ==
    \E i \in 1..Len(Catalog) :
        /\ Matches(Catalog[i], x[1], x[2])
        /\ product \in DOMAIN Catalog[i].policy
        /\ Catalog[i].policy[product].state \in Usable

\* What is published was vetted: every device of the machine is known to the
\* database and usable on that macOS, and an inventory without devices is known
\* to be complete; the tables are among the accepted evidence; and whatever must
\* be acknowledged was acknowledged for exactly these options, this evidence and
\* this target (compatibility/engine.py, configuration/service.py:187-215, the
\* gate of build/efi.py).
PublishedVetted ==
    output # None =>
        LET plan == output.manifest.plan
            s == Snapshots[plan.machine]
        IN  /\ s.igpu # None
            /\ \A x \in Observed(s) : Known(x, plan.target.product)
            /\ \A i \in Inventories : s.found[i] = {} => i \in s.complete
            /\ output.manifest.evidence \in plan.evidence
            /\ \A o \in DOMAIN plan.options :
                   Options[o].acknowledged =>
                       [option |-> o, options |-> output.manifest.tree.options,
                        evidence |-> plan.accepted.evidence, target |-> plan.target] \in asked

\* The devices that do not work without a driver, and what they need on Sequoia.
\* HD 620 is not among them: the plan asks for nothing on its account.
Wanted(s) ==
    Base
    \cup (IF s.igpu # None /\ Component("graphics", s.igpu).id = "intel-uhd-620"
          THEN {"whatevergreen"} ELSE {})
    \cup (IF s.found["audio"] # {} THEN {"applealc"} ELSE {})
    \cup (IF s.found["ethernet"] # {} THEN {"intelmausi"} ELSE {})
    \cup (IF s.found["wifi"] # {} THEN {"itlwm"} ELSE {})
    \cup (IF s.found["bluetooth"] # {} THEN {"intel_bluetooth_firmware", "bluetoolfixup"} ELSE {})

\* What config.py's ranks have in common with the catalog: a dependency's kernel
\* extensions rank above those of what it needs (data/dependencies/catalog.yaml:
\* every prerequisite in it is Lilu).
ASSUME RanksAssumption ==
    /\ \A d \in Deps : \A p \in ToSet(Prerequisites[d]) :
           \A j \in Kexts[p], k \in Kexts[d] : Rank(j) < Rank(k)
    /\ "virtualsmc" \in Deps => "virtualsmc" \in Kexts["virtualsmc"]

\* OpenCore loads kernel extensions in the order in which config.plist lists
\* them.  The list has those of every device's driver, each once; those of what a
\* dependency needs come first, although the lock's order is not kept
\* (dependencies/graph.py:49-79, build/config.py:171-188, 232), and a plug-in of
\* VirtualSMC comes after it.
DriversInOrder ==
    output # None =>
        LET tree == output.manifest.tree
            listed == ToSet(tree.kexts)
            Loaded(i) == {tree.kexts[h] : h \in 1..(i - 1)}
        IN  /\ \A d \in Wanted(Snapshots[output.manifest.plan.machine]) : Kexts[d] \subseteq listed
            /\ IsInjective(tree.kexts)
            /\ \A i \in DOMAIN tree.kexts :
                /\ tree.kexts[i] \in SmcNamed => "virtualsmc" \in Loaded(i)
                /\ \A d \in ToSet(tree.drivers) :
                       tree.kexts[i] \in Kexts[d] =>
                           \A p \in ToSet(Prerequisites[d]) : Kexts[p] \subseteq Loaded(i)

\* Only somebody outside changes or removes what was published: a build neither
\* replaces nor cleans up the output of another one (build/efi.py:189, 408-416).
OutputStays ==
    [][(output # None /\ changes' = changes) => output' = output]_vars

\* A Recovery binding ties a draft to an EFI that was built for it: with its
\* options and its identity, from the tables that are its evidence at that time,
\* however the draft, the captures and the output changed since
\* (workflow/service.py:660-727).
BindingTruthful ==
    binding # None =>
        /\ binding.tree.options = binding.draft.options
        /\ binding.tree.identity = binding.draft.identity
        /\ binding.evidence = binding.digest
=============================================================================
