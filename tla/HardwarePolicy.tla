--------------------------- MODULE HardwarePolicy ---------------------------
(***************************************************************************)
(* What the compatibility database says of a probed machine: match_model   *)
(* (compatibility/model_matcher.py), CompatibilityEngine.evaluate and      *)
(* generate_build_plan (compatibility/engine.py), as operators.            *)
(*                                                                         *)
(* A snapshot s is a record:                                               *)
(*   vendor, type     the manufacturer and the machine type, None if absent*)
(*   named, products  whether it has product strings, and the models whose *)
(*                    aliases they match                                   *)
(*   cpu              None or [intel, generation]                          *)
(*   igpu, dgpus      None or a device, and a set of devices               *)
(*   found            the devices of each inventory                        *)
(*   complete         the inventories that the probe says are complete     *)
(* A device is [ids, kind, bus]: the PCI, USB and codec identifiers and    *)
(* the model patterns that a rule may name, its kind and its bus.          *)
(***************************************************************************)
EXTENDS Naturals, Sequences, FiniteSets

CONSTANTS
    Models,    \* [id, types, generations, mx150, status]
    Catalog,   \* sequence of [id, category, ids, kinds, buses, policy]
    OsStatus,  \* state of each macOS product
    None       \* nothing, no match

States == {"supported", "experimental", "conditional", "unknown", "blocked"}
Usable == {"supported", "experimental", "conditional"}
Products == DOMAIN OsStatus
Inventories == {"audio", "ethernet", "wifi", "bluetooth", "storage", "input"}

ASSUME PolicyAssumption ==
    /\ \A p \in Products : OsStatus[p] \in States
    /\ \A m \in Models : m.status \in [Products -> States]
    /\ \A i \in 1..Len(Catalog) : \A p \in DOMAIN Catalog[i].policy :
           p \in Products /\ Catalog[i].policy[p].state \in States
    /\ \A i \in 1..Len(Catalog) : Catalog[i].id = "samsung-pm981" =>
           Catalog[i].category = "storage" /\ "PM981" \in Catalog[i].ids
    /\ None \notin Models
    /\ Len(Catalog) \in Nat

-----------------------------------------------------------------------------
(* The model *)

MatchModel(s) ==
    LET typed == {m \in Models : s.type \in m.types}
        named == {m \in Models : m.id \in s.products}
        Is(m) == [model |-> m, state |-> "experimental"]
        Isnt(state) == [model |-> None, state |-> state]
        Contradicted == \/ s.type # None /\ typed = {}
                        \/ typed # {} /\ s.named /\ ~(typed \subseteq named)
    IN  IF s.vendor # "LENOVO" THEN Isnt("blocked")
        ELSE IF Contradicted THEN Isnt("unknown")
        ELSE IF typed # {} THEN Is(CHOOSE m \in typed : TRUE)
        ELSE IF Cardinality(named) = 1 THEN Is(CHOOSE m \in named : TRUE)
        ELSE Isnt(IF named = {} THEN "blocked" ELSE "unknown")

-----------------------------------------------------------------------------
(* The components *)

Matches(c, category, d) ==
    /\ c.category = category
    /\ CASE category = "input" -> d.kind \in c.kinds /\ (c.buses = {} \/ d.bus \in c.buses)
         [] category = "storage" -> d.ids \cap c.ids # {} \/ d.kind \in c.kinds
         [] OTHER -> d.ids \cap c.ids # {}

\* The first component of the catalog whose rules the device meets.  A PM981
\* is looked up by its id; a discrete GPU among the graphics components.
Component(category, d) ==
    LET shelf == IF category = "graphics_dgpu" THEN "graphics" ELSE category
        fit == {i \in 1..Len(Catalog) :
                    IF category = "storage" /\ "PM981" \in d.ids
                    THEN Catalog[i].id = "samsung-pm981"
                    ELSE Matches(Catalog[i], shelf, d)}
    IN  IF fit = {} THEN None ELSE Catalog[CHOOSE i \in fit : \A j \in fit : i <= j]

\* A plausible bug: a device that no policy covers is passed over.
VerdictKnown(c, category, product, m) ==
    IF c = None \/ product \notin DOMAIN c.policy
    THEN [category |-> category, component |-> None, state |-> "experimental", needs |-> {}]
    ELSE [category |-> category, component |-> c.id,
          state |-> c.policy[product].state, needs |-> c.policy[product].needs]

\* The verdict on a component: what its policy says, "unknown" when there is
\* none; an MX150 is refused by a model that does not declare the option.
Verdict(c, category, product, m) ==
    IF c = None \/ product \notin DOMAIN c.policy
    THEN [category |-> category, component |-> None, state |-> "unknown", needs |-> {}]
    ELSE [category |-> category, component |-> c.id,
          state |-> IF category = "graphics_dgpu" /\ c.id = "nvidia-geforce-mx150" /\ ~m.mx150
                    THEN "blocked" ELSE c.policy[product].state,
          needs |-> c.policy[product].needs]

Judged(category, d, product, m) == Verdict(Component(category, d), category, product, m)

Unknown(category) ==
    [category |-> category, component |-> None, state |-> "unknown", needs |-> {}]

JudgedCpu(s, m) ==
    IF s.cpu # None /\ s.cpu.intel /\ s.cpu.generation \in m.generations
    THEN [Unknown("cpu") EXCEPT !.state = "experimental"]
    ELSE Unknown("cpu")

\* A processor and graphics are always required; an empty inventory is
\* evidence of absence only when the probe says that it is complete.
Results(s, product, m) ==
    {JudgedCpu(s, m)}
    \cup {IF s.igpu = None THEN Unknown("graphics") ELSE Judged("graphics", s.igpu, product, m)}
    \cup {Judged("graphics_dgpu", d, product, m) : d \in s.dgpus}
    \cup (UNION {{Judged(i, d, product, m) : d \in s.found[i]} : i \in Inventories})
    \cup {Unknown(i) : i \in {j \in Inventories : s.found[j] = {} /\ j \notin s.complete}}

-----------------------------------------------------------------------------
(* The report and the plan *)

\* The state of the whole machine: the worst of the model's, of the macOS
\* profile's and of the components', conditional counting for the first and
\* the last only.
Overall(states, os) ==
    IF "blocked" \in states \cup {os} THEN "blocked"
    ELSE IF "unknown" \in states \cup {os} THEN "unknown"
    ELSE IF "conditional" \in states THEN "conditional"
    ELSE "experimental"

\* No model, no results.
Unmatched(state, product) ==
    [model |-> None, product |-> product, state |-> state, results |-> {}, needs |-> {}]

Matched(m, product, results) ==
    [model |-> m.id,
     product |-> product,
     state |-> Overall({r.state : r \in results} \cup {m.status[product]}, OsStatus[product]),
     results |-> results,
     needs |-> UNION {r.needs : r \in results}]

Evaluated(match, s, product) ==
    IF match.model = None
    THEN Unmatched(match.state, product)
    ELSE Matched(match.model, product, Results(s, product, match.model))

Report(s, product) == Evaluated(MatchModel(s), s, product)

\* What a component asks of the EFI.
Capability(r) ==
    CASE r.category = "graphics" /\ r.component = "intel-uhd-620" -> {"accelerated_intel_uhd_620"}
      [] r.category = "graphics_dgpu" -> {"disable_discrete_gpu"}
      [] r.category = "audio" -> {"alc257_audio"}
      [] r.category = "ethernet" -> {"intel_gigabit_ethernet"}
      [] r.category = "wifi" -> {"intel_wireless_lan"}
      [] r.category = "bluetooth" -> {"intel_bluetooth"}
      [] r.category = "storage" /\ r.component = "samsung-pm981" -> {"nvme_compatibility_fix"}
      [] r.category = "input" /\ r.component = "elan-touchscreen" -> {"i2c_touchscreen"}
      [] r.category = "input" /\ r.component = "thinkpad-trackpad-trackpoint" -> {"ps2_trackpad_trackpoint"}
      [] OTHER -> {}

\* What the plan itself leaves open.
Deferred(capabilities, product) ==
    {need \in {"framebuffer injection", "audio layout", "tahoe audio", "tahoe wireless"} :
        \/ need = "framebuffer injection" /\ "accelerated_intel_uhd_620" \in capabilities
        \/ need = "audio layout" /\ "alc257_audio" \in capabilities /\ product # "tahoe"
        \/ need = "tahoe audio" /\ "alc257_audio" \in capabilities /\ product = "tahoe"
        \/ need = "tahoe wireless" /\ "intel_wireless_lan" \in capabilities /\ product = "tahoe"}

PlanWith(report, capabilities) ==
    [model |-> report.model,
     product |-> report.product,
     state |-> report.state,
     capabilities |-> capabilities,
     needs |-> report.needs \cup Deferred(capabilities, report.product)]

\* An unknown component asks for nothing.
BuildPlan(report) ==
    PlanWith(report, UNION {Capability(r) : r \in {x \in report.results : x.state # "unknown"}})
=============================================================================
