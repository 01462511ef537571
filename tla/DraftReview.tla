---------------------------- MODULE DraftReview ----------------------------
(***************************************************************************)
(* The review of a configuration draft against the observed machine, the   *)
(* policy and the private evidence: ConfigurationService.evaluate          *)
(* (configuration/service.py), and the edits that WorkflowService makes to *)
(* a draft (workflow/service.py), as operators.                            *)
(*                                                                         *)
(* A draft is [machine, policy, target, options, evidence, identity,       *)
(* acks]: the snapshot it was made for and the policy version, or None for *)
(* each of them, a release or None, the selected value of each option, a   *)
(* set of evidence records, a reference to a stored identity or None, and  *)
(* acknowledgements.  It stands for its digest, as an acknowledgement's    *)
(* binding does for the digest of the selections acknowledged.             *)
(*                                                                         *)
(* The snapshot of the machine has an id and a bios besides the fields     *)
(* that HardwarePolicy names; the id stands for its content as well.  An   *)
(* evidence record is [kind, machine, bios, digest, ref, ports]; disk[ref] *)
(* is None or the stored capture [kind, machine, bios, digest, tables],    *)
(* whose raw tables have content of their own, None when they do not pass  *)
(* their checksums.                                                        *)
(***************************************************************************)
EXTENDS DependencyPlan

CONSTANTS
    Options,   \* for each option [values, products, acknowledged, conflicts]
    Defaults,  \* the options that must have a value
    Releases,  \* the releases of the catalog, [product, version]
    Reviewed,  \* the reviewed EFI profile: [model, release, bios]
    Policy     \* the policy version

\* The reviewed profile is of Sequoia (data/profiles/t480s/p4-sequoia.yaml:4).
ASSUME ReviewedAssumption == Reviewed.release.product = "sequoia"

WellFormed(d) ==
    d = [machine |-> d.machine, policy |-> d.policy, target |-> d.target, options |-> d.options,
         evidence |-> d.evidence, identity |-> d.identity, acks |-> d.acks]

-----------------------------------------------------------------------------
(* The edits *)

WithOption(d, o, v) == [d EXCEPT !.options[o] = v, !.acks = {}]

WithTarget(d, t) == [d EXCEPT !.target = t, !.acks = {}]

WithIdentity(d, ref) == [d EXCEPT !.identity = ref, !.acks = {}]

\* Evidence of the same machine and kind is replaced; what was acknowledged
\* stays, bound to the former selections.
WithEvidence(d, r) ==
    [d EXCEPT !.evidence =
        {x \in @ : ~(x.kind = r.kind /\ x.machine = r.machine)} \cup {r}]

\* A plausible bug: the acknowledgement is bound to the option alone.
AckBindingNone(d) == None

\* What an acknowledgement is bound to: the draft but for its acknowledgements.
AckBinding(d) == [d EXCEPT !.acks = {}]

WithAck(d, o) == [d EXCEPT !.acks = @ \cup {[option |-> o, binding |-> AckBinding(d)]}]

-----------------------------------------------------------------------------
(* The issues *)

Acknowledged(d, o) == \E a \in d.acks : a.option = o /\ a.binding = AckBinding(d)

Raise(code, where, when) == IF when THEN {<<code, where>>} ELSE {}

OptionIssues(d) ==
    LET chosen == DOMAIN d.options
        known == chosen \cap DOMAIN Options
        Misapplied(o) == d.target # None /\ d.target.product \notin Options[o].products
    IN  {<<"OPTION_UNKNOWN", o>> : o \in chosen \ DOMAIN Options}
        \cup {<<"OPTION_REQUIRED", o>> : o \in Defaults \ chosen}
        \cup UNION {
            Raise("OPTION_VALUE_INVALID", o, d.options[o] \notin Options[o].values)
            \cup Raise("OPTION_NOT_APPLICABLE", o, Misapplied(o))
            \cup Raise("ACKNOWLEDGEMENT_REQUIRED", o, Options[o].acknowledged /\ ~Acknowledged(d, o))
            \cup Raise("OPTION_CONFLICT", o, Options[o].conflicts \cap chosen # {}) : o \in known}

\* What the stored capture says of itself is what the record says, of this
\* machine and this firmware.
Proven(r, s, disk) ==
    /\ disk[r.ref] # None
    /\ disk[r.ref].kind = r.kind
    /\ disk[r.ref].digest = r.digest
    /\ disk[r.ref].machine = s.id
    /\ disk[r.ref].bios = s.bios
    /\ r.bios = s.bios

EvidenceIssues(d, s, disk) ==
    {<<"EVIDENCE_SNAPSHOT_MISMATCH", r.kind>> : r \in {x \in d.evidence : x.machine # s.id}}
    \cup {<<"EVIDENCE_BIOS_MISMATCH", r.kind>> :
             r \in {x \in d.evidence : s.bios # None /\ x.bios # s.bios}}
    \cup {<<"EVIDENCE_SOURCE_INVALID", r.kind>> : r \in {x \in d.evidence : ~Proven(x, s, disk)}}
    \cup {i \in {<<"USB_PHYSICAL_EVIDENCE_REQUIRED", "usb">>, <<"BIOS_EVIDENCE_REQUIRED", "bios">>} :
             \/ i[2] = "usb" /\ ~\E r \in d.evidence : r.kind = "usb" /\ r.ports
             \/ i[2] = "bios" /\ s.bios = None}

\* The requirements that the reviewed profile settles, on Sequoia with its
\* graphics and one of its audio layouts selected.
Settled(d) ==
    IF /\ d.target # None
       /\ d.target.product = "sequoia"
       /\ "profile.graphics" \in DOMAIN d.options
       /\ d.options["profile.graphics"] = "kaby-lake-r-uhd620"
       /\ "profile.audio" \in DOMAIN d.options
       /\ d.options["profile.audio"] \in {"layout-11", "layout-86", "layout-97", "layout-99"}
    THEN {"framebuffer injection", "framebuffer connectors", "audio layout", "audio layout id"}
    ELSE {}

\* The report for the target of the draft, for Sequoia while it has none.
Compatibility(d, s) == Report(s, IF d.target = None THEN "sequoia" ELSE d.target.product)

Remaining(d, plan) == plan.needs \ Settled(d)

\* A draft without a policy version or a machine, as an imported one may be, is
\* not stale.
GeneralIssues(d, s, plan) ==
    LET Raised(code, when) == Raise(code, "draft", when)
        models == {m.id : m \in {x \in Models : s.type \in x.types}}
    IN  Raised("POLICY_STALE", d.policy \notin {None, Policy})
        \cup Raised("SNAPSHOT_STALE", d.machine \notin {None, s.id})
        \cup Raised("EXACT_TARGET_REQUIRED", d.target = None)
        \cup Raised("TARGET_NOT_IN_POLICY", d.target \notin Releases \cup {None})
        \cup Raised("MODEL_NOT_QUALIFIED", models # {Reviewed.model})
        \cup Raised("PROFILE_SCOPE_MISMATCH", d.target \notin {Reviewed.release, None})
        \cup Raised("UNRESOLVED_REQUIREMENT", Remaining(d, plan) # {})
        \cup Raised("COMPATIBILITY_BLOCKED", plan.state \in {"unknown", "blocked"})

Issues(d, s, disk, plan) ==
    GeneralIssues(d, s, plan) \cup OptionIssues(d) \cup EvidenceIssues(d, s, disk)

-----------------------------------------------------------------------------
(* The plan *)

\* The digest of a capture's raw tables, for a machine and its firmware; None
\* when it is missing, not of them, or fails its checksums.
CaptureDigest(ref, machine, bios, disk) ==
    IF disk[ref] = None \/ disk[ref].machine # machine \/ disk[ref].bios # bios
    THEN None
    ELSE disk[ref].tables

\* The plan of a draft, bound to what was reviewed: the machine, the target,
\* the options, the evidence as it is now and, when there is no issue, the
\* draft as accepted.
Bound(d, s, disk, plan, issues) ==
    [model |-> plan.model,
     product |-> plan.product,
     state |-> plan.state,
     capabilities |-> plan.capabilities,
     needs |-> (plan.needs \ Settled(d)) \cup {i[1] : i \in issues},
     machine |-> s.id,
     target |-> d.target,
     options |-> d.options,
     evidence |-> {r.digest : r \in d.evidence}
                  \cup ({disk[r.ref].tables : r \in {x \in d.evidence :
                             x.kind = "acpi" /\ disk[x.ref] # None}} \ {None}),
     accepted |-> IF issues = {} THEN d ELSE None]

PlanOf(d, s, disk) ==
    LET plan == BuildPlan(Compatibility(d, s))
    IN  Bound(d, s, disk, plan, Issues(d, s, disk, plan))
=============================================================================
