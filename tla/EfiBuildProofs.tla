--------------------------- MODULE EfiBuildProofs ---------------------------
(***************************************************************************)
(* Proofs about EfiBuild, for every compatibility database, every machine  *)
(* and any number of builders.  The first part is about the tool directory.*)
(* The second is about the operators: a usable report knows every device,  *)
(* and a plan that is accepted has been vetted and asks for the driver of  *)
(* every device.  The third is about the order in which the configuration  *)
(* lists kernel extensions.  The fourth carries all of it from the draft   *)
(* through the plan of a build to the manifest of what it publishes.       *)
(***************************************************************************)
EXTENDS EfiBuild, DependencyPlanProofs

-----------------------------------------------------------------------------
(* The tool directory: ToolInv says of every tool where its former version *)
(* is, at every place where the provisioning may stop.                     *)

\* The former version of a tool is in the staging directory once the tool has
\* been moved aside or replaced, and in its place otherwise.  "none" is the
\* former version of a tool that there was not.
Kept(t) ==
    IF t \in published \/ aside[t] # "none"
    THEN aside[t] = former[t]
    ELSE tools[t] = former[t]

\* What a provisioning that runs owes to its end.
Running ==
    ppc # "idle" =>
        /\ installed = "running"
        /\ \A t \in Tools : Kept(t)

\* What is still to be put in place has not been, and is moved aside at most.
Publishing ==
    ppc = "publish" =>
        \A t \in todo : /\ t \notin published
                        /\ aside[t] # "none" => tools[t] = "none"

\* Nothing is under way when nobody provisions.
Resting == ppc = "idle" => published = {} /\ aside = NoTools /\ installed # "running"

ToolInv ==
    /\ ToolTypeOK
    /\ Running
    /\ Publishing
    /\ Resting
    /\ ToolsRestored

-----------------------------------------------------------------------------

LEMMA ToolInitInv == ToolInit => ToolInv
BY DEF ToolInit, ToolInv, ToolTypeOK, Running, Publishing, Resting, ToolsRestored,
       NoTools, ToolStates

\* An end keeps its promise when what it reports is so.
LEMMA EndInv ==
    ASSUME ToolInv, NEW result \in {"installed", "failed", "none"},
           EndProvision(result),
           result = "failed" => tools = former,
           result = "installed" => Selectable
    PROVE  ToolInv'
BY DEF EndProvision, ToolInv, ToolTypeOK, Running, Publishing, Resting, ToolsRestored,
       Selectable, NoTools, ToolStates

LEMMA StepInv == ToolInv /\ [ToolNext]_toolVars => ToolInv'
<1> SUFFICES ASSUME ToolInv, [ToolNext]_toolVars
             PROVE  ToolInv'
    OBVIOUS
<1> USE DEF ToolInv
<1>1. CASE FindTools
      BY <1>1 DEF FindTools, ToolTypeOK, Running, Publishing, Resting, ToolsRestored, Selectable
<1>2. CASE AcquireToolsFails
      BY <1>2 DEF AcquireToolsFails, ToolTypeOK, Running, Publishing, Resting, ToolsRestored
<1>3. CASE AcquireTools
      BY <1>3 DEF AcquireTools, ToolTypeOK, Running, Publishing, Resting, ToolsRestored, Kept,
                  NoTools
<1>4. ASSUME NEW t \in Tools, SetToolAside(t)
      PROVE  ToolInv'
  <2> USE <1>4 DEF SetToolAside, AtHand, KeepAside
  <2>1. ToolTypeOK'
        BY DEF ToolTypeOK, ToolStates
  <2>2. aside[t] = "none" /\ t \notin published
        BY DEF Publishing
  <2>3. Kept(t)'
        BY <2>2 DEF Kept, Running, ToolTypeOK
  <2>4. ASSUME NEW u \in Tools, u # t
        PROVE  Kept(u)'
        BY <2>1, <2>4 DEF Kept, Running, ToolTypeOK
  <2>5. Running'
        BY <2>3, <2>4 DEF Running
  <2>6. Publishing'
        BY DEF Publishing, ToolTypeOK
  <2> QED BY <2>1, <2>5, <2>6 DEF Resting, ToolsRestored, Running
<1>5. ASSUME NEW t \in Tools, PutTool(t)
      PROVE  ToolInv'
  <2> USE <1>5 DEF PutTool, AtHand
  <2>1. ToolTypeOK'
        BY DEF ToolTypeOK, ToolStates
  <2>2. t \notin published
        BY DEF Publishing
  <2>3. Kept(t)'
        BY <2>2 DEF Kept, Running, ToolTypeOK
  <2>4. ASSUME NEW u \in Tools, u # t
        PROVE  Kept(u)'
        BY <2>1, <2>4 DEF Kept, Running, ToolTypeOK
  <2>5. Running'
        BY <2>3, <2>4 DEF Running
  <2>6. Publishing'
        BY DEF Publishing, ToolTypeOK
  <2> QED BY <2>1, <2>5, <2>6 DEF Resting, ToolsRestored, Running
<1>6. ASSUME NEW t \in Tools, WithdrawTool(t)
      PROVE  ToolInv'
  <2> USE <1>6 DEF WithdrawTool
  <2>1. ToolTypeOK'
        BY DEF ToolTypeOK, ToolStates
  <2>2. Kept(t)'
        BY DEF Kept, Running, ToolTypeOK
  <2>3. ASSUME NEW u \in Tools, u # t
        PROVE  Kept(u)'
        BY <2>1, <2>3 DEF Kept, Running, ToolTypeOK
  <2>4. Running'
        BY <2>2, <2>3 DEF Running
  <2> QED BY <2>1, <2>4 DEF Publishing, Resting, ToolsRestored, Running
<1>7. ASSUME NEW t \in Tools, RestoreTool(t)
      PROVE  ToolInv'
  <2> USE <1>7 DEF RestoreTool
  <2>1. ToolTypeOK'
        BY DEF ToolTypeOK, ToolStates
  <2>2. Kept(t)'
        BY DEF Kept, Running, ToolTypeOK
  <2>3. ASSUME NEW u \in Tools, u # t
        PROVE  Kept(u)'
        BY <2>1, <2>3 DEF Kept, Running, ToolTypeOK
  <2>4. Running'
        BY <2>2, <2>3 DEF Running
  <2> QED BY <2>1, <2>4 DEF Publishing, Resting, ToolsRestored, Running
<1>8. CASE SelectProvisioned
      BY <1>8, EndInv DEF SelectProvisioned
<1>9. CASE PublishToolFails
      BY <1>9 DEF PublishToolFails, ToolTypeOK, Running, Publishing, Resting, ToolsRestored, Kept
<1>10. CASE RolledBack
  <2>1. \A t \in Tools : tools[t] = former[t]
        BY <1>10 DEF RolledBack, Running, Kept, NoTools
  <2>2. tools = former
        BY <2>1 DEF ToolTypeOK
  <2> QED BY <1>10, <2>2, EndInv DEF RolledBack
<1>11. CASE RollbackFails
       BY <1>11, EndInv DEF RollbackFails
<1>12. CASE InterruptProvision
       BY <1>12, EndInv DEF InterruptProvision
<1>13. ASSUME NEW t \in Tools, NEW s \in {"none", "bad"}, DamageTool(t, s)
       PROVE  ToolInv'
       BY <1>13 DEF DamageTool, ToolTypeOK, ToolStates, Running, Publishing, Resting, ToolsRestored
<1>14. CASE UNCHANGED toolVars
       BY <1>14 DEF toolVars, ToolTypeOK, Running, Publishing, Resting, ToolsRestored, Kept,
                    Selectable
<1> QED
    BY <1>1, <1>2, <1>3, <1>4, <1>5, <1>6, <1>7, <1>8, <1>9, <1>10, <1>11, <1>12, <1>13, <1>14
       DEF ToolNext, ToolStep

\* Types, and where the former version of every tool is.
THEOREM ToolRootInvariant == ToolSpec => []ToolInv
BY ToolInitInv, StepInv, PTL DEF ToolSpec

\* provision leaves the tool directory as it found it when it fails, and
\* selectable when it succeeds, wherever its publication or rollback stopped
\* (toolchain/loader.py), for every catalog.
THEOREM Restores == ToolSpec => []ToolsRestored
<1>1. ToolInv => ToolsRestored
      BY DEF ToolInv
<1> QED BY <1>1, ToolRootInvariant, PTL

-----------------------------------------------------------------------------
(* The policy *)

Shelf(category) == IF category = "graphics_dgpu" THEN "graphics" ELSE category

\* A component that is found is one of the catalog whose rules the device meets.
LEMMA ComponentMatches ==
    ASSUME NEW category, NEW d,
           category \in Inventories \cup {"graphics", "graphics_dgpu"},
           Component(category, d) # None
    PROVE  \E n \in 1..Len(Catalog) : /\ Component(category, d) = Catalog[n]
                                      /\ Matches(Catalog[n], Shelf(category), d)
<1> DEFINE fit == {i \in 1..Len(Catalog) :
                       IF category = "storage" /\ "PM981" \in d.ids
                       THEN Catalog[i].id = "samsung-pm981"
                       ELSE Matches(Catalog[i], Shelf(category), d)}
           n == CHOOSE i \in fit : \A j \in fit : i <= j
<1>1. Component(category, d) = IF fit = {} THEN None ELSE Catalog[n]
      BY DEF Component, Shelf
<1>2. fit # {} /\ fit \in SUBSET Nat
      BY <1>1, PolicyAssumption DEF PolicyAssumption
<1>3. n \in fit
      BY <1>2, Least
<1>4. Matches(Catalog[n], Shelf(category), d)
  <2>1. CASE category = "storage" /\ "PM981" \in d.ids
    <3>1. n \in 1..Len(Catalog) /\ Catalog[n].id = "samsung-pm981"
          BY <1>3, <2>1
    <3>2. Catalog[n].category = "storage" /\ "PM981" \in Catalog[n].ids
          BY <3>1, PolicyAssumption DEF PolicyAssumption
    <3> QED BY <2>1, <3>2 DEF Matches, Shelf
  <2>2. CASE ~(category = "storage" /\ "PM981" \in d.ids)
        BY <1>3, <2>2
  <2> QED BY <2>1, <2>2
<1> QED BY <1>1, <1>2, <1>3, <1>4

Good(state) == state \notin {"unknown", "blocked"}

\* A device with a good verdict is known to the database, and usable.
LEMMA JudgedKnown ==
    ASSUME NEW category, NEW d, NEW product, NEW m,
           category \in Inventories \cup {"graphics", "graphics_dgpu"},
           Good(Judged(category, d, product, m).state)
    PROVE  Known(<<Shelf(category), d>>, product)
<1> DEFINE c == Component(category, d)
<1>1. c # None /\ product \in DOMAIN c.policy /\ Good(c.policy[product].state)
      BY DEF Judged, Verdict, Good
<1>2. PICK n \in 1..Len(Catalog) : c = Catalog[n] /\ Matches(Catalog[n], Shelf(category), d)
      BY <1>1, ComponentMatches
<1>3. c.policy[product].state \in States
      BY <1>1, <1>2, PolicyAssumption DEF PolicyAssumption
<1>4. Catalog[n].policy[product].state \in Usable
      BY <1>1, <1>2, <1>3 DEF Good, States, Usable
<1> QED BY <1>1, <1>2, <1>4 DEF Known

\* No model, no usable state.
LEMMA ModelMatched ==
    ASSUME NEW s, Good(MatchModel(s).state)
    PROVE  MatchModel(s).model \in Models
<1> DEFINE typed == {m \in Models : s.type \in m.types}
           named == {m \in Models : m.id \in s.products}
<1>1. typed # {} => (CHOOSE m \in typed : TRUE) \in Models
      OBVIOUS
<1>2. Cardinality(named) = 1 => named # {}
      BY FS_EmptySet
<1>3. Cardinality(named) = 1 => (CHOOSE m \in named : TRUE) \in Models
      BY <1>2
<1> QED BY <1>1, <1>3 DEF MatchModel, Good

LEMMA OverallGood ==
    ASSUME NEW states, NEW os, Good(Overall(states, os))
    PROVE  "blocked" \notin states /\ "unknown" \notin states
BY DEF Overall, Good

\* What is vetted of a machine for a macOS product.
MachineVetted(s, product) ==
    /\ s.igpu # None
    /\ \A x \in Observed(s) : Known(x, product)
    /\ \A i \in Inventories : s.found[i] = {} => i \in s.complete

\* Behind a report that is good there is a model, and every result is good.
LEMMA ResultsGood ==
    ASSUME NEW s, NEW product, Good(Report(s, product).state)
    PROVE  LET m == MatchModel(s).model
           IN  /\ Report(s, product) = Matched(m, product, Results(s, product, m))
               /\ \A r \in Results(s, product, m) : Good(r.state)
<1> DEFINE m == MatchModel(s).model
           results == Results(s, product, m)
<1>1. m # None
  <2>1. CASE m = None
    <3>1. Good(MatchModel(s).state)
          BY <2>1 DEF Report, Evaluated, Unmatched
    <3> QED BY <2>1, <3>1, ModelMatched, PolicyAssumption DEF PolicyAssumption
  <2> QED BY <2>1
<1>2. Report(s, product) = Matched(m, product, results)
      BY <1>1 DEF Report, Evaluated
<1>3. ASSUME NEW r \in results
      PROVE  Good(r.state)
  <2> DEFINE states == {x.state : x \in results} \cup {m.status[product]}
  <2> HIDE DEF results, m
  <2>1. Report(s, product).state = Overall(states, OsStatus[product])
        BY <1>2 DEF Matched
  <2>2. r.state \in states
        OBVIOUS
  <2>3. Good(Overall(states, OsStatus[product]))
        BY <2>1
  <2> HIDE DEF states
  <2>4. "blocked" \notin states /\ "unknown" \notin states
        BY <2>3, OverallGood
  <2> QED BY <2>2, <2>4 DEF Good
<1> QED BY <1>2, <1>3

\* A report that is good knows every device of the machine, and knows that
\* there is none where it has seen none (compatibility/engine.py:60-404).
LEMMA ReportVetted ==
    ASSUME NEW s, NEW product, Good(Report(s, product).state)
    PROVE  MachineVetted(s, product)
<1> DEFINE m == MatchModel(s).model
           results == Results(s, product, m)
<1>1. ASSUME NEW r \in results
      PROVE  Good(r.state)
      BY ResultsGood
<1>2. s.igpu # None
  <2>1. CASE s.igpu = None
    <3>1. Unknown("graphics") \in results
          BY <2>1 DEF Results
    <3> QED BY <1>1, <3>1 DEF Unknown, Good
  <2> QED BY <2>1
<1>3. Known(<<"graphics", s.igpu>>, product)
  <2>1. Judged("graphics", s.igpu, product, m) \in results
        BY <1>2 DEF Results
  <2> QED BY <1>1, <2>1, JudgedKnown DEF Shelf
<1>4. ASSUME NEW d \in s.dgpus
      PROVE  Known(<<"graphics", d>>, product)
  <2>1. Judged("graphics_dgpu", d, product, m)
            \in {Judged("graphics_dgpu", x, product, m) : x \in s.dgpus}
        OBVIOUS
  <2>2. Judged("graphics_dgpu", d, product, m) \in results
        BY <2>1 DEF Results
  <2> QED BY <1>1, <2>2, JudgedKnown DEF Shelf
<1>5. ASSUME NEW i \in Inventories, NEW d \in s.found[i]
      PROVE  Known(<<i, d>>, product)
  <2>1. Judged(i, d, product, m)
            \in UNION {{Judged(j, x, product, m) : x \in s.found[j]} : j \in Inventories}
        OBVIOUS
  <2>3. Judged(i, d, product, m) \in results
        BY <2>1 DEF Results
  <2>2. Shelf(i) = i
        BY DEF Shelf, Inventories
  <2> QED BY <1>1, <2>2, <2>3, JudgedKnown
<1>6. ASSUME NEW i \in Inventories, s.found[i] = {}, i \notin s.complete
      PROVE  FALSE
  <2>1. Unknown(i) \in results
        BY <1>6 DEF Results
  <2> QED BY <1>1, <2>1 DEF Unknown, Good
<1> QED BY <1>2, <1>3, <1>4, <1>5, <1>6 DEF MachineVetted, Observed

\* Every result that is good asks for its driver.
LEMMA Asks ==
    ASSUME NEW plan, NEW report, NEW r \in report.results, Good(r.state),
           plan.capabilities = BuildPlan(report).capabilities,
           NEW c \in Capability(r)
    PROVE  Driver(c, plan.product) \subseteq Requested(plan)
<1>1. r \in {x \in report.results : x.state # "unknown"}
      BY DEF Good
<1>2. c \in UNION {Capability(x) : x \in {y \in report.results : y.state # "unknown"}}
      BY <1>1
<1>3. c \in plan.capabilities
      BY <1>2 DEF BuildPlan, PlanWith
<1> QED BY <1>3 DEF Requested

\* So does every device behind a good report that does not work without one.
LEMMA ReportDrives ==
    ASSUME NEW s, Good(Report(s, "sequoia").state), NEW plan, plan.product = "sequoia",
           plan.capabilities = BuildPlan(Report(s, "sequoia")).capabilities
    PROVE  Wanted(s) \subseteq Requested(plan)
<1> DEFINE m == MatchModel(s).model
           report == Report(s, "sequoia")
<1>1. report.results = Results(s, "sequoia", m)
  <2>1. report = Matched(m, "sequoia", Results(s, "sequoia", m))
        BY ResultsGood
  <2> HIDE DEF report
  <2> QED BY <2>1 DEF Matched
<1>2. \A r \in report.results : Good(r.state)
      BY <1>1, ResultsGood
<1>3. ASSUME NEW i \in Inventories, NEW d \in s.found[i]
      PROVE  /\ Judged(i, d, "sequoia", m) \in report.results
             /\ Judged(i, d, "sequoia", m).category = i
  <2>1. Judged(i, d, "sequoia", m)
            \in UNION {{Judged(j, x, "sequoia", m) : x \in s.found[j]} : j \in Inventories}
        OBVIOUS
  <2>2. Judged(i, d, "sequoia", m) \in Results(s, "sequoia", m)
        BY <2>1 DEF Results
  <2> QED BY <1>1, <2>2 DEF Judged, Verdict
<1>4. Base \subseteq Requested(plan)
      BY DEF Requested
<1>5. ASSUME s.igpu # None, Component("graphics", s.igpu).id = "intel-uhd-620"
      PROVE  "whatevergreen" \in Requested(plan)
  <2> DEFINE r == Judged("graphics", s.igpu, "sequoia", m)
  <2>1. r \in Results(s, "sequoia", m)
        BY <1>5 DEF Results
  <2>2. Good(r.state)
        BY <1>1, <1>2, <2>1
  <2>3. r.category = "graphics" /\ r.component = "intel-uhd-620"
        BY <1>5, <2>2 DEF Judged, Verdict, Good
  <2>4. Capability(r) = {"accelerated_intel_uhd_620"}
        BY <2>3 DEF Capability
  <2>5. Driver("accelerated_intel_uhd_620", plan.product) = {"whatevergreen"}
        BY DEF Driver
  <2> QED BY <1>1, <2>1, <2>2, <2>4, <2>5, Asks
<1>6. ASSUME NEW d \in s.found["audio"]
      PROVE  {"applealc"} \subseteq Requested(plan)
  <2> DEFINE r == Judged("audio", d, "sequoia", m)
  <2>1. r \in report.results /\ r.category = "audio" /\ Good(r.state)
        BY <1>2, <1>3 DEF Inventories
  <2>2. Capability(r) = {"alc257_audio"}
        BY <2>1 DEF Capability
  <2>3. Driver("alc257_audio", plan.product) = {"applealc"}
        BY DEF Driver
  <2> QED BY <2>1, <2>2, <2>3, Asks
<1>7. ASSUME NEW d \in s.found["ethernet"]
      PROVE  {"intelmausi"} \subseteq Requested(plan)
  <2> DEFINE r == Judged("ethernet", d, "sequoia", m)
  <2>1. r \in report.results /\ r.category = "ethernet" /\ Good(r.state)
        BY <1>2, <1>3 DEF Inventories
  <2>2. Capability(r) = {"intel_gigabit_ethernet"}
        BY <2>1 DEF Capability
  <2>3. Driver("intel_gigabit_ethernet", plan.product) = {"intelmausi"}
        BY DEF Driver
  <2> QED BY <2>1, <2>2, <2>3, Asks
<1>8. ASSUME NEW d \in s.found["wifi"]
      PROVE  {"itlwm"} \subseteq Requested(plan)
  <2> DEFINE r == Judged("wifi", d, "sequoia", m)
  <2>1. r \in report.results /\ r.category = "wifi" /\ Good(r.state)
        BY <1>2, <1>3 DEF Inventories
  <2>2. Capability(r) = {"intel_wireless_lan"}
        BY <2>1 DEF Capability
  <2>3. Driver("intel_wireless_lan", plan.product) = {"itlwm"}
        BY DEF Driver
  <2> QED BY <2>1, <2>2, <2>3, Asks
<1>9. ASSUME NEW d \in s.found["bluetooth"]
      PROVE  {"intel_bluetooth_firmware", "bluetoolfixup"} \subseteq Requested(plan)
  <2> DEFINE r == Judged("bluetooth", d, "sequoia", m)
  <2>1. r \in report.results /\ r.category = "bluetooth" /\ Good(r.state)
        BY <1>2, <1>3 DEF Inventories
  <2>2. Capability(r) = {"intel_bluetooth"}
        BY <2>1 DEF Capability
  <2>3. Driver("intel_bluetooth", plan.product) = {"intel_bluetooth_firmware", "bluetoolfixup"}
        BY DEF Driver
  <2> QED BY <2>1, <2>2, <2>3, Asks
<1>10. /\ (IF s.igpu # None /\ Component("graphics", s.igpu).id = "intel-uhd-620"
           THEN {"whatevergreen"} ELSE {}) \subseteq Requested(plan)
       /\ (IF s.found["audio"] # {} THEN {"applealc"} ELSE {}) \subseteq Requested(plan)
       /\ (IF s.found["ethernet"] # {} THEN {"intelmausi"} ELSE {}) \subseteq Requested(plan)
       /\ (IF s.found["wifi"] # {} THEN {"itlwm"} ELSE {}) \subseteq Requested(plan)
       /\ (IF s.found["bluetooth"] # {} THEN {"intel_bluetooth_firmware", "bluetoolfixup"} ELSE {})
              \subseteq Requested(plan)
       BY <1>5, <1>6, <1>7, <1>8, <1>9
<1> QED BY <1>4, <1>10 DEF Wanted

-----------------------------------------------------------------------------
(* The plan *)

\* What was reviewed when a plan is accepted, for the options, the evidence and
\* the target that it is bound to.
OptionsVetted(plan) ==
    \A o \in DOMAIN plan.options : Options[o].acknowledged =>
        [option |-> o, options |-> plan.options,
         evidence |-> plan.accepted.evidence, target |-> plan.target] \in asked

PlanVetted(plan) ==
    /\ MachineVetted(Snapshots[plan.machine], plan.target.product)
    /\ OptionsVetted(plan)

\* Whatever is acknowledged was asked for, as it was then.
Asked(d) == \A a \in d.acks : Shown(a.binding, a.option) \in asked

\* The review finds no issue.
Reviewable(d, s, captures) == Issues(d, s, captures, BuildPlan(Compatibility(d, s))) = {}

\* A plan with a draft is bound to it, and the review found no issue.
LEMMA PlanAccepted ==
    ASSUME NEW d, NEW s, NEW captures, PlanOf(d, s, captures).accepted # None
    PROVE  /\ PlanOf(d, s, captures).accepted = d
           /\ PlanOf(d, s, captures).options = d.options
           /\ PlanOf(d, s, captures).target = d.target
           /\ PlanOf(d, s, captures).machine = s.id
           /\ PlanOf(d, s, captures).state = Compatibility(d, s).state
           /\ PlanOf(d, s, captures).product = Compatibility(d, s).product
           /\ PlanOf(d, s, captures).capabilities = BuildPlan(Compatibility(d, s)).capabilities
           /\ Reviewable(d, s, captures)
<1> DEFINE plan == BuildPlan(Compatibility(d, s))
           issues == Issues(d, s, captures, plan)
<1>1. PlanOf(d, s, captures) = Bound(d, s, captures, plan, issues)
      BY DEF PlanOf
<1>2. plan.state = Compatibility(d, s).state /\ plan.product = Compatibility(d, s).product
      BY DEF BuildPlan, PlanWith
<1>3. plan.capabilities = BuildPlan(Compatibility(d, s)).capabilities
      OBVIOUS
<1> HIDE DEF plan, issues
<1>4. Bound(d, s, captures, plan, issues).accepted = IF issues = {} THEN d ELSE None
      BY DEF Bound
<1>5. issues = {}
      BY <1>1, <1>4
<1>6. /\ Bound(d, s, captures, plan, issues).options = d.options
      /\ Bound(d, s, captures, plan, issues).target = d.target
      /\ Bound(d, s, captures, plan, issues).machine = s.id
      /\ Bound(d, s, captures, plan, issues).state = plan.state
      /\ Bound(d, s, captures, plan, issues).product = plan.product
      /\ Bound(d, s, captures, plan, issues).capabilities = plan.capabilities
      BY DEF Bound
<1>7. Reviewable(d, s, captures)
      BY <1>5 DEF issues, plan, Reviewable
<1> QED BY <1>1, <1>2, <1>4, <1>5, <1>6, <1>3, <1>7

\* Without an issue the target is the reviewed one, and whatever must be is
\* acknowledged.
LEMMA NoIssues ==
    ASSUME NEW d, NEW s, NEW captures, Reviewable(d, s, captures)
    PROVE  /\ d.target # None
           /\ d.target = Reviewed.release
           /\ \A o \in DOMAIN d.options : Options[o].acknowledged => Acknowledged(d, o)
<1> DEFINE plan == BuildPlan(Compatibility(d, s))
<1>1. GeneralIssues(d, s, plan) = {} /\ OptionIssues(d) = {}
      BY DEF Reviewable, Issues
<1> HIDE DEF plan
<1>2. d.target # None
  <2>1. CASE d.target = None
    <3>1. <<"EXACT_TARGET_REQUIRED", "draft">> \in GeneralIssues(d, s, plan)
          BY <2>1 DEF GeneralIssues, Raise
    <3> QED BY <1>1, <3>1
  <2> QED BY <2>1
<1>3. d.target = Reviewed.release
  <2>1. CASE d.target \notin {Reviewed.release, None}
    <3>1. <<"PROFILE_SCOPE_MISMATCH", "draft">> \in GeneralIssues(d, s, plan)
          BY <2>1 DEF GeneralIssues, Raise
    <3> QED BY <1>1, <3>1
  <2> QED BY <1>2, <2>1
<1>4. ASSUME NEW o \in DOMAIN d.options
      PROVE  o \in DOMAIN Options
  <2>1. CASE o \notin DOMAIN Options
    <3>1. <<"OPTION_UNKNOWN", o>> \in OptionIssues(d)
          BY <2>1 DEF OptionIssues
    <3> QED BY <1>1, <3>1
  <2> QED BY <2>1
<1>5. ASSUME NEW o \in DOMAIN d.options, Options[o].acknowledged, ~Acknowledged(d, o)
      PROVE  FALSE
  <2>1. <<"ACKNOWLEDGEMENT_REQUIRED", o>>
            \in Raise("ACKNOWLEDGEMENT_REQUIRED", o, Options[o].acknowledged /\ ~Acknowledged(d, o))
        BY <1>5 DEF Raise
  <2>2. o \in DOMAIN d.options \cap DOMAIN Options
        BY <1>4
  <2>3. <<"ACKNOWLEDGEMENT_REQUIRED", o>> \in OptionIssues(d)
        BY <2>1, <2>2 DEF OptionIssues
  <2> QED BY <1>1, <2>3
<1> QED BY <1>2, <1>5, <1>3

\* A plan that is accepted and resolves was vetted.
LEMMA AcceptedVetted ==
    ASSUME NEW d, NEW id, NEW captures,
           Snapshots[id].id = id,
           WellFormed(d),
           Asked(d),
           PlanOf(d, Snapshots[id], captures).accepted # None,
           Resolved(PlanOf(d, Snapshots[id], captures))
    PROVE  PlanVetted(PlanOf(d, Snapshots[id], captures))
<1> DEFINE plan == PlanOf(d, Snapshots[id], captures)
<1>1. /\ plan.accepted = d /\ plan.options = d.options /\ plan.target = d.target
      /\ plan.machine = id
      /\ plan.state = Compatibility(d, Snapshots[id]).state
      /\ Reviewable(d, Snapshots[id], captures)
      BY PlanAccepted
<1>2. /\ d.target # None
      /\ \A o \in DOMAIN d.options : Options[o].acknowledged => Acknowledged(d, o)
      BY <1>1, NoIssues
<1> HIDE DEF plan
<1>3. Good(plan.state)
      BY DEF Resolved, Resolvable, Usable, Good, plan
<1>4. MachineVetted(Snapshots[id], d.target.product)
      BY <1>1, <1>2, <1>3, ReportVetted DEF Compatibility
<1>5. ASSUME NEW o \in DOMAIN d.options, Options[o].acknowledged
      PROVE  Shown(d, o) \in asked
  <2>1. PICK a \in d.acks : a.option = o /\ a.binding = AckBinding(d)
        BY <1>2, <1>5 DEF Acknowledged
  <2>2. Shown(AckBinding(d), o) = Shown(d, o)
        BY DEF Shown, AckBinding, WellFormed
  <2> QED BY <2>1, <2>2 DEF Asked
<1> QED BY <1>1, <1>4, <1>5 DEF PlanVetted, OptionsVetted, Shown, plan

\* What is known of the drivers of a plan: there is an order for all that it
\* requests, and it requests what the devices need.
PlanDriven(plan) ==
    /\ Requested(plan) \subseteq Deps
    /\ ~Cyclic(Requested(plan))
    /\ Wanted(Snapshots[plan.machine]) \subseteq Requested(plan)

LEMMA AcceptedDriven ==
    ASSUME NEW d, NEW id, NEW captures,
           Snapshots[id].id = id,
           PlanOf(d, Snapshots[id], captures).accepted # None,
           Resolved(PlanOf(d, Snapshots[id], captures))
    PROVE  PlanDriven(PlanOf(d, Snapshots[id], captures))
<1> DEFINE plan == PlanOf(d, Snapshots[id], captures)
           report == Report(Snapshots[id], "sequoia")
<1>1. /\ plan.machine = id
      /\ plan.state = Compatibility(d, Snapshots[id]).state
      /\ plan.product = Compatibility(d, Snapshots[id]).product
      /\ plan.capabilities = BuildPlan(Compatibility(d, Snapshots[id])).capabilities
      /\ Reviewable(d, Snapshots[id], captures)
      BY PlanAccepted
<1>2. d.target # None /\ d.target.product = "sequoia"
      BY <1>1, NoIssues, ReviewedAssumption DEF ReviewedAssumption
<1>3. Compatibility(d, Snapshots[id]) = report
      BY <1>2 DEF Compatibility
<1>4. Resolved(plan)
      OBVIOUS
<1> HIDE DEF plan
<1>5. Good(report.state)
      BY <1>1, <1>3, <1>4 DEF Resolved, Resolvable, Usable, Good
<1>6. plan.product = "sequoia"
  <2>1. report = Matched(MatchModel(Snapshots[id]).model, "sequoia",
                         Results(Snapshots[id], "sequoia", MatchModel(Snapshots[id]).model))
        BY <1>5, ResultsGood
  <2> HIDE DEF report
  <2> QED BY <1>1, <1>3, <2>1 DEF Matched
<1>7. Wanted(Snapshots[id]) \subseteq Requested(plan)
      BY <1>1, <1>3, <1>5, <1>6, ReportDrives
<1> QED BY <1>1, <1>4, <1>7 DEF PlanDriven, Resolved, plan

\* What is locked for such a plan: every device has its driver, and every driver
\* comes after what it depends on.
LEMMA LockedDrives ==
    ASSUME NEW plan, PlanDriven(plan)
    PROVE  /\ Wanted(Snapshots[plan.machine]) \subseteq ToSet(Locked(plan))
           /\ InOrder(Locked(plan), ToSet(Locked(plan)))
           /\ ToSet(Locked(plan)) \subseteq Deps
<1>1. Requested(plan) \in SUBSET Deps
      BY DEF PlanDriven
<1>2. InOrder(Locked(plan), Requested(plan))
      BY <1>1, OrderIsRight DEF PlanDriven, Locked
<1>3. ToSet(Locked(plan)) = Needed(Requested(plan))
      BY <1>2 DEF InOrder
<1>4. Requested(plan) \subseteq ToSet(Locked(plan))
      BY <1>1, <1>3, NeededIsClosure
<1>5. Needed(ToSet(Locked(plan))) = ToSet(Locked(plan))
      BY <1>1, <1>3, NeededAgain
<1>6. ToSet(Locked(plan)) \subseteq Deps
      BY <1>1, <1>3, NeededIsClosure
<1> QED BY <1>2, <1>4, <1>5, <1>6 DEF PlanDriven, InOrder

-----------------------------------------------------------------------------
(* The list of kernel extensions *)

LEMMA Ranks == \A k : Rank(k) \in 0..4
BY DEF Rank

LEMMA Positions ==
    ASSUME NEW k \in ToSet(KextNames)
    PROVE  Position(k) \in Int /\ KextNames[Position(k)] = k
<1>1. \E i \in DOMAIN KextNames : KextNames[i] = k
      BY DEF ToSet
<1>2. Position(k) \in DOMAIN KextNames /\ KextNames[Position(k)] = k
      BY <1>1 DEF Position
<1>3. DOMAIN KextNames = 1..Len(KextNames)
      BY KextsAssumption DEF KextsAssumption
<1> QED BY <1>2, <1>3

\* One of two kernel extensions precedes the other.
LEMMA Linear ==
    ASSUME NEW i \in ToSet(KextNames), NEW j \in ToSet(KextNames), NEW k \in ToSet(KextNames)
    PROVE  /\ ~Precedes(k, k)
           /\ Precedes(i, j) /\ Precedes(j, k) => Precedes(i, k)
           /\ j # k => Precedes(j, k) \/ Precedes(k, j)
<1>1. /\ Rank(i) \in Int /\ Rank(j) \in Int /\ Rank(k) \in Int
      /\ Position(i) \in Int /\ Position(j) \in Int /\ Position(k) \in Int
      BY Ranks, Positions
<1>2. j # k => Position(j) # Position(k)
      BY Positions
<1> QED BY <1>1, <1>2 DEF Precedes

\* Each has a place of its own, behind all that precede it.
LEMMA Places ==
    ASSUME NEW kexts \in SUBSET ToSet(KextNames),
           NEW place, place = [k \in kexts |-> Cardinality(Preceding(k, kexts)) + 1]
    PROVE  /\ Cardinality(kexts) \in Nat
           /\ place \in Surjection(kexts, 1..Cardinality(kexts))
           /\ \A j, k \in kexts : Precedes(j, k) => place[j] < place[k]
           /\ \A j, k \in kexts : place[j] = place[k] => j = k
<1> DEFINE n == Cardinality(kexts)
<1>1. IsFiniteSet(kexts)
  <2>1. IsFiniteSet(1..Len(KextNames)) /\ DOMAIN KextNames = 1..Len(KextNames)
        BY FS_Interval, KextsAssumption DEF KextsAssumption
  <2>2. KextNames \in Surjection(1..Len(KextNames), ToSet(KextNames))
        BY <2>1, KextsAssumption DEF KextsAssumption, Surjection, ToSet
  <2>3. IsFiniteSet(ToSet(KextNames))
        BY <2>1, <2>2, FS_Surjection
  <2> QED BY <2>3, FS_Subset
<1>2. n \in Nat
      BY <1>1, FS_CardinalityType
<1>3. ASSUME NEW k \in kexts
      PROVE  /\ IsFiniteSet(Preceding(k, kexts))
             /\ place[k] \in 1..n
  <2>1. Preceding(k, kexts) \in SUBSET (kexts \ {k})
        BY Linear DEF Preceding
  <2>2. IsFiniteSet(kexts \ {k}) /\ Cardinality(kexts \ {k}) = n - 1
        BY <1>1, FS_RemoveElement
  <2>3. /\ IsFiniteSet(Preceding(k, kexts))
        /\ Cardinality(Preceding(k, kexts)) <= n - 1
        BY <2>1, <2>2, FS_Subset
  <2>4. Cardinality(Preceding(k, kexts)) \in Nat
        BY <2>3, FS_CardinalityType
  <2> QED BY <1>2, <2>3, <2>4
<1>4. ASSUME NEW j \in kexts, NEW k \in kexts, Precedes(j, k)
      PROVE  place[j] < place[k]
  <2>1. Preceding(j, kexts) \in SUBSET Preceding(k, kexts)
        BY <1>4, Linear DEF Preceding
  <2>2. j \in Preceding(k, kexts) /\ j \notin Preceding(j, kexts)
        BY <1>4, Linear DEF Preceding
  <2>3. /\ Cardinality(Preceding(j, kexts)) <= Cardinality(Preceding(k, kexts))
        /\ Cardinality(Preceding(j, kexts)) # Cardinality(Preceding(k, kexts))
        BY <1>3, <2>1, <2>2, FS_Subset
  <2>4. Cardinality(Preceding(j, kexts)) \in Nat /\ Cardinality(Preceding(k, kexts)) \in Nat
        BY <1>3, FS_CardinalityType
  <2> QED BY <2>3, <2>4
<1>5. ASSUME NEW j \in kexts, NEW k \in kexts, place[j] = place[k]
      PROVE  j = k
      BY <1>3, <1>4, <1>5, Linear
<1>6. place \in Surjection(kexts, 1..n)
  <2>1. place \in [kexts -> 1..n]
        BY <1>3
  <2>2. place \in Injection(kexts, 1..n)
        BY <1>5, <2>1 DEF Injection, IsInjective
  <2>3. IsFiniteSet(1..n) /\ Cardinality(1..n) = n
        BY <1>2, FS_Interval
  <2> QED BY <2>2, <2>3, FS_Injection
<1> QED BY <1>2, <1>4, <1>5, <1>6

\* _ordered_kexts: every kernel extension is listed once, after all that precede
\* it by rank and name, whatever the set.
THEOREM LoadsInOrder ==
    ASSUME NEW kexts \in SUBSET ToSet(KextNames)
    PROVE  /\ ToSet(LoadOrder(kexts)) = kexts
           /\ IsInjective(LoadOrder(kexts))
           /\ \A i \in DOMAIN LoadOrder(kexts) : \A j \in kexts :
                  Precedes(j, LoadOrder(kexts)[i]) =>
                      \E h \in 1..(i - 1) : LoadOrder(kexts)[h] = j
<1> DEFINE n == Cardinality(kexts)
           place == [k \in kexts |-> Cardinality(Preceding(k, kexts)) + 1]
           order == [i \in 1..n |-> CHOOSE k \in kexts : place[k] = i]
<1>1. PICK p : p = place
      OBVIOUS
<1>2. LoadOrder(kexts) = order
      BY DEF LoadOrder
<1>3. /\ n \in Nat
      /\ p \in Surjection(kexts, 1..n)
      /\ \A j, k \in kexts : Precedes(j, k) => p[j] < p[k]
      /\ \A j, k \in kexts : p[j] = p[k] => j = k
      BY <1>1, Places
<1>4. order = [i \in 1..n |-> CHOOSE k \in kexts : p[k] = i]
      BY <1>1
<1>5. PICK o : o = order
      OBVIOUS
<1> HIDE DEF place, order
<1>6. \A k \in kexts : p[k] \in 1..n
      BY <1>3 DEF Surjection
<1>7. \A i \in 1..n : o[i] \in kexts /\ p[o[i]] = i
  <2>1. \A i \in 1..n : \E k \in kexts : p[k] = i
        BY <1>3 DEF Surjection
  <2> QED BY <1>4, <1>5, <2>1
<1>8. DOMAIN o = 1..n
      BY <1>4, <1>5
<1>9. \A k \in kexts : o[p[k]] = k
      BY <1>3, <1>6, <1>7
<1>10. ToSet(o) = kexts
       BY <1>6, <1>7, <1>8, <1>9 DEF ToSet
<1>11. IsInjective(o)
       BY <1>7, <1>8 DEF IsInjective
<1>12. ASSUME NEW i \in DOMAIN o, NEW j \in kexts, Precedes(j, o[i])
       PROVE  \E h \in 1..(i - 1) : o[h] = j
  <2>1. p[j] < i /\ p[j] \in 1..n /\ i \in 1..n
        BY <1>3, <1>6, <1>7, <1>8, <1>12
  <2> QED BY <1>9, <2>1
<1> QED BY <1>2, <1>5, <1>10, <1>11, <1>12

-----------------------------------------------------------------------------
(* The state *)

DraftInv ==
    /\ machine \in DOMAIN Snapshots
    /\ WellFormed(draft)
    /\ Asked(draft)
    /\ identities \subseteq Identities
    /\ draft.identity \in identities \cup {None}
    /\ changes \in 0..MaxChanges

Working == {"gate", "compile", "configure", "validate", "publish"}
WithTree == {"configure", "validate", "publish"}

\* What a build has come to: its plan is vetted and asks for the drivers; from
\* the gate on the tables that it expects are among the evidence of the plan; its
\* tree has the drivers and the options of the plan, then also its identity and
\* the list of the kernel extensions.
Builds(x) ==
    /\ x = [pc |-> x.pc, plan |-> x.plan, digest |-> x.digest, tree |-> x.tree]
    /\ x.pc \in {"idle", "select", "expect"} \cup Working
    /\ x.pc = "idle" => x = Idle
    /\ (x.digest # None) = (x.pc \in Working)
    /\ x.tree # None => x.pc \in WithTree
    /\ x.pc # "idle" => PlanVetted(x.plan) /\ PlanDriven(x.plan)
    /\ x.pc \in Working \ {"gate"} => x.digest \in x.plan.evidence
    /\ x.pc \in WithTree =>
           /\ x.tree = [drivers |-> Locked(x.plan), kexts |-> x.tree.kexts,
                        options |-> x.plan.options, identity |-> x.tree.identity]
           /\ x.pc # "configure" =>
                  /\ x.tree.identity = x.plan.accepted.identity
                  /\ x.tree.kexts = LoadOrder(KextsOf(Locked(x.plan)))

BuildersInv ==
    /\ builder = [b \in Builders |-> builder[b]]
    /\ \A b \in Builders : Builds(builder[b])

\* The same of what is published, whose manifest nobody changes.
OutputInv ==
    output # None =>
        LET m == output.manifest
        IN  /\ output = [tree |-> output.tree, manifest |-> m]
            /\ PlanVetted(m.plan) /\ PlanDriven(m.plan)
            /\ m.tree.drivers = Locked(m.plan)
            /\ m.tree.kexts = LoadOrder(KextsOf(Locked(m.plan)))
            /\ m.evidence \in m.plan.evidence
            /\ m.tree.options = m.plan.options
            /\ m.tree.identity = m.plan.accepted.identity

BuildInv ==
    /\ ToolInv
    /\ DraftInv
    /\ BuildersInv
    /\ OutputInv
    /\ BindingTruthful

LEMMA InitBuildInv == Init => BuildInv
<1> SUFFICES ASSUME Init
             PROVE  BuildInv
    OBVIOUS
<1>1. ToolInv
      BY ToolInitInv DEF Init
<1>2. DraftInv
  <2>1. PICK c \in Cases : /\ machine = c.machine
                           /\ draft = c.draft
                           /\ asked = {Shown(c.draft, a.option) : a \in c.draft.acks}
        BY DEF Init
  <2>2. ASSUME NEW a \in draft.acks
        PROVE  Shown(a.binding, a.option) \in asked
    <3>1. a.binding = AckBinding(draft)
          BY <2>1, CasesAssumption DEF CasesAssumption
    <3>2. Shown(AckBinding(draft), a.option) = Shown(draft, a.option)
          BY <2>1, CasesAssumption DEF CasesAssumption, Shown, AckBinding, WellFormed
    <3> QED BY <2>1, <3>1, <3>2
  <2> QED BY <2>1, <2>2, CasesAssumption, ChangesAssumption
          DEF CasesAssumption, ChangesAssumption, Init, DraftInv, Asked
<1>3. BuildersInv
      BY DEF Init, Idle, BuildersInv, Builds, Working, WithTree
<1> QED BY <1>1, <1>2, <1>3 DEF BuildInv, Init, OutputInv, BindingTruthful

-----------------------------------------------------------------------------
(* The steps *)

\* Edits keep what was asked for, and add to it.
LEMMA WorldDraft ==
    ASSUME DraftInv, World
    PROVE  DraftInv' /\ asked \subseteq asked'
<1>1. ASSUME NEW o, NEW v, SelectOption(o, v)
      PROVE  DraftInv' /\ asked \subseteq asked'
  <2>1. draft' = WithOption(draft, o, v)
        BY <1>1 DEF SelectOption, Edit
  <2>2. /\ draft' = [draft EXCEPT !.options = draft'.options, !.acks = {}]
        /\ draft'.identity = draft.identity /\ draft'.acks = {}
        BY <2>1 DEF WithOption, DraftInv, WellFormed
  <2>3. WellFormed(draft)' /\ Asked(draft)'
        BY <2>2 DEF DraftInv, WellFormed, Asked
  <2> QED BY <1>1, <2>2, <2>3, ChangesAssumption
          DEF SelectOption, Edit, Change, DraftInv, ChangesAssumption
<1>2. ASSUME NEW t, SelectTarget(t)
      PROVE  DraftInv' /\ asked \subseteq asked'
  <2>1. draft' = WithTarget(draft, t)
        BY <1>2 DEF SelectTarget, Edit
  <2>2. draft'.identity = draft.identity /\ draft'.acks = {} /\ WellFormed(draft)'
        BY <2>1 DEF WithTarget, DraftInv, WellFormed
  <2>3. Asked(draft)'
        BY <2>2 DEF Asked
  <2> QED BY <1>2, <2>2, <2>3, ChangesAssumption
          DEF SelectTarget, Edit, Change, DraftInv, ChangesAssumption
<1>3. ASSUME NEW o, Acknowledge(o)
      PROVE  DraftInv' /\ asked \subseteq asked'
  <2> DEFINE a == [option |-> o, binding |-> AckBinding(draft)]
  <2>1. draft' = WithAck(draft, o)
        BY <1>3 DEF Acknowledge, Edit
  <2>2. draft'.identity = draft.identity /\ WellFormed(draft)'
        BY <2>1 DEF WithAck, DraftInv, WellFormed
  <2>3. draft'.acks = draft.acks \cup {a}
        BY <2>1 DEF WithAck, DraftInv, WellFormed
  <2>4. Shown(a.binding, a.option) = Shown(draft, o)
        BY DEF Shown, AckBinding, DraftInv, WellFormed
  <2>5. Asked(draft)'
        BY <1>3, <2>3, <2>4 DEF Acknowledge, Asked, DraftInv
  <2> QED BY <1>3, <2>2, <2>5, ChangesAssumption
          DEF Acknowledge, Edit, Change, DraftInv, ChangesAssumption
<1>4. ASSUME NEW i \in Identities, GenerateIdentity(i) \/ ReuseIdentity(i)
      PROVE  DraftInv' /\ asked \subseteq asked'
  <2>1. draft' = WithIdentity(draft, i)
        BY <1>4 DEF GenerateIdentity, ReuseIdentity, Edit
  <2>2. draft'.identity = i /\ draft'.acks = {} /\ WellFormed(draft)'
        BY <2>1 DEF WithIdentity, DraftInv, WellFormed
  <2>3. Asked(draft)'
        BY <2>2 DEF Asked
  <2> QED BY <1>4, <2>2, <2>3, ChangesAssumption
          DEF GenerateIdentity, ReuseIdentity, Stored, Edit, Change, DraftInv, ChangesAssumption
<1>5. ASSUME NEW ref, NEW t, ImportCapture(ref, t)
      PROVE  DraftInv' /\ asked \subseteq asked'
  <2>1. PICK r : draft' = WithEvidence(draft, r)
        BY <1>5 DEF ImportCapture, Edit
  <2>2. /\ draft'.identity = draft.identity /\ draft'.acks = draft.acks
        /\ WellFormed(draft)'
        BY <2>1 DEF WithEvidence, DraftInv, WellFormed
  <2>3. asked' = asked /\ identities' = identities
        BY <1>5 DEF ImportCapture
  <2>4. Asked(draft)'
        BY <2>2, <2>3 DEF Asked, DraftInv
  <2>5. machine' = machine /\ changes' \in 0..MaxChanges
        BY <1>5, ChangesAssumption DEF ImportCapture, Edit, Change, DraftInv, ChangesAssumption
  <2> QED BY <2>2, <2>3, <2>4, <2>5 DEF DraftInv
<1>6. ASSUME \/ \E ref \in Captures : LoseCapture(ref)
             \/ \E ref \in Captures, t \in Tables : RewriteCapture(ref, t)
             \/ DamageTree
             \/ RemoveOutput
             \/ \E t \in Tools, s \in ToolLosses : ToolLost(t, s)
      PROVE  DraftInv' /\ asked \subseteq asked'
  <2>1. /\ UNCHANGED <<draft, identities, asked, machine>>
        /\ changes < MaxChanges /\ changes' = changes + 1
        BY <1>6 DEF LoseCapture, RewriteCapture, DamageTree, RemoveOutput, ToolLost, Change
  <2> QED BY <2>1, ChangesAssumption DEF DraftInv, Asked, WellFormed, ChangesAssumption
<1> QED BY <1>1, <1>2, <1>3, <1>4, <1>5, <1>6 DEF World

LEMMA VettedStays ==
    ASSUME NEW plan, PlanVetted(plan), asked \subseteq asked'
    PROVE  PlanVetted(plan)'
BY DEF PlanVetted, OptionsVetted

LEMMA BuildsStays ==
    ASSUME NEW x, Builds(x), asked \subseteq asked'
    PROVE  Builds(x)'
BY VettedStays DEF Builds

\* A step of one build leaves the others as they are.
LEMMA OneBuilds ==
    ASSUME BuildersInv, NEW b \in Builders, NEW x,
           builder' = [builder EXCEPT ![b] = x],
           Builds(x)', asked' = asked
    PROVE  BuildersInv'
<1>1. builder'[b] = x /\ \A c \in Builders : c # b => builder'[c] = builder[c]
      BY DEF BuildersInv
<1>2. ASSUME NEW c \in Builders
      PROVE  Builds(builder[c])'
  <2>1. CASE c = b
        BY <2>1, <1>1
  <2>2. CASE c # b
    <3>1. Builds(builder[c])
          BY DEF BuildersInv
    <3>2. builder'[c] = builder[c]
          BY <1>1, <2>2
    <3> QED BY <3>1, <3>2 DEF Builds, PlanVetted, OptionsVetted
  <2> QED BY <2>1, <2>2
<1> QED BY <1>2 DEF BuildersInv

\* The steps of a build but for its publication.
LEMMA BuildStep ==
    ASSUME BuildInv, NEW b \in Builders,
           \/ Start(b) \/ SelectTools(b) \/ Expect(b) \/ Gate(b)
           \/ Compile(b) \/ Configure(b) \/ Validate(b) \/ Fail(b)
    PROVE  BuildersInv' /\ BuildOnly
<1>1. BuildOnly
      BY DEF Start, SelectTools, Expect, Gate, Compile, Configure, Validate, Fail
<1>2. asked' = asked
      BY <1>1 DEF BuildOnly, worldVars
<1>3. PICK x : x = builder[b]
      OBVIOUS
<1>4. Builds(x) /\ BuildersInv
      BY <1>3 DEF BuildInv, BuildersInv
<1>5. PICK y : y = builder'[b]
      OBVIOUS
<1> SUFFICES Builds(y) /\ builder' = [builder EXCEPT ![b] = y]
    BY <1>1, <1>2, <1>4, BuildsStays, OneBuilds
<1> USE <1>3, <1>4, <1>5 DEF Working, WithTree
<1>6. CASE Start(b)
  <2>1. PICK plan : /\ plan = PlanOf(draft, Snapshots[machine], disk)
                    /\ plan.accepted # None /\ Resolved(plan)
                    /\ builder' = [builder EXCEPT ![b] = [Idle EXCEPT !.pc = "select", !.plan = plan]]
        BY <1>6 DEF Start
  <2>2. PlanVetted(plan)
        BY <2>1, AcceptedVetted, SnapshotsAssumption DEF BuildInv, DraftInv, SnapshotsAssumption
  <2>3. y = [pc |-> "select", plan |-> plan, digest |-> None, tree |-> None]
        BY <2>1 DEF Idle, BuildersInv
  <2>4. PlanDriven(plan)
        BY <2>1, AcceptedDriven, SnapshotsAssumption DEF BuildInv, DraftInv, SnapshotsAssumption
  <2>5. Builds(y)
        BY <2>2, <2>3, <2>4 DEF Builds
  <2> QED BY <2>1, <2>5 DEF BuildersInv
<1>7. CASE SelectTools(b)
  <2>1. x.pc = "select" /\ y = [x EXCEPT !.pc = "expect"]
        BY <1>7 DEF SelectTools, Goes, BuildersInv
  <2>2. y = [pc |-> "expect", plan |-> x.plan, digest |-> x.digest, tree |-> x.tree]
        BY <2>1 DEF Builds
  <2>3. Builds(y)
        BY <2>1, <2>2 DEF Builds
  <2> QED BY <1>7, <2>3 DEF SelectTools, Goes, BuildersInv
<1>8. CASE Expect(b)
  <2>1. PICK digest : /\ x.pc = "expect" /\ digest # None
                      /\ y = [x EXCEPT !.pc = "gate", !.digest = digest]
                      /\ builder' = [builder EXCEPT ![b].pc = "gate", ![b].digest = digest]
        BY <1>8 DEF Expect, BuildersInv
  <2> QED BY <2>1 DEF Builds, BuildersInv
<1>9. CASE Gate(b)
  <2>1. /\ x.pc = "gate" /\ y = [x EXCEPT !.pc = "compile"]
        /\ x.digest \in x.plan.evidence
        BY <1>9 DEF Gate, Goes, BuildersInv
  <2> QED BY <1>9, <2>1 DEF Builds, Gate, Goes
<1>10. CASE Compile(b)
  <2>1. /\ x.pc = "compile"
        /\ y = [x EXCEPT !.pc = "configure",
                         !.tree = [drivers |-> Locked(x.plan), kexts |-> <<>>,
                                   options |-> x.plan.options, identity |-> None]]
        BY <1>10 DEF Compile, Extracted, BuildersInv
  <2> QED BY <1>10, <2>1 DEF Builds, Compile
<1>11. CASE Configure(b)
  <2>1. /\ x.pc = "configure"
        /\ y = [x EXCEPT !.pc = "validate",
                         !.tree.kexts = LoadOrder(KextsOf(x.tree.drivers)),
                         !.tree.identity = x.plan.accepted.identity]
        BY <1>11 DEF Configure, BuildersInv
  <2>2. y = [pc |-> "validate", plan |-> x.plan, digest |-> x.digest, tree |-> y.tree]
        BY <2>1 DEF Builds
  <2> DEFINE listed == LoadOrder(KextsOf(x.tree.drivers))
  <2>5. PICK l : l = listed
        OBVIOUS
  <2> HIDE DEF listed
  <2>3. /\ y.tree = [drivers |-> x.tree.drivers, kexts |-> l, options |-> x.plan.options,
                     identity |-> x.plan.accepted.identity]
        /\ x.tree.drivers = Locked(x.plan)
    <3>1. x = [pc |-> x.pc, plan |-> x.plan, digest |-> x.digest, tree |-> x.tree]
          BY DEF Builds
    <3>2. y.tree = [x.tree EXCEPT !.kexts = l, !.identity = x.plan.accepted.identity]
          BY <2>1, <2>5, <3>1 DEF listed
    <3>3. x.tree = [drivers |-> Locked(x.plan), kexts |-> x.tree.kexts,
                    options |-> x.plan.options, identity |-> x.tree.identity]
          BY <2>1 DEF Builds
    <3>4. PICK t : t = x.tree
          OBVIOUS
    <3>5. PICK i : i = x.plan.accepted.identity
          OBVIOUS
    <3>6. y.tree = [t EXCEPT !.kexts = l, !.identity = i]
          BY <3>2, <3>4, <3>5
    <3>7. t = [drivers |-> t.drivers, kexts |-> t.kexts, options |-> t.options,
               identity |-> t.identity]
          BY <3>3, <3>4
    <3>8. y.tree = [drivers |-> t.drivers, kexts |-> l, options |-> t.options, identity |-> i]
          BY <3>6, <3>7
    <3>9. t.drivers = Locked(x.plan) /\ t.options = x.plan.options
          BY <3>3, <3>4
    <3> QED BY <3>4, <3>5, <3>8, <3>9
  <2>4. Builds(y)
        BY <2>1, <2>2, <2>3, <2>5 DEF Builds, listed
  <2> QED BY <1>11, <2>4 DEF Configure, BuildersInv
<1>12. CASE Validate(b)
  <2>1. x.pc = "validate" /\ y = [x EXCEPT !.pc = "publish"]
        BY <1>12 DEF Validate, Goes, BuildersInv
  <2> QED BY <1>12, <2>1 DEF Builds, Validate, Goes
<1>13. CASE Fail(b)
  <2>1. y = Idle /\ builder' = [builder EXCEPT ![b] = Idle]
        BY <1>13 DEF Fail, BuildersInv
  <2> QED BY <2>1 DEF Builds, Idle
<1> QED BY <1>6, <1>7, <1>8, <1>9, <1>10, <1>11, <1>12, <1>13

\* What is published is what the build has come to.
LEMMA PublishInv ==
    ASSUME BuildInv, NEW b \in Builders, Publish(b)
    PROVE  BuildersInv' /\ OutputInv'
<1>1. asked' = asked
      BY DEF Publish, worldVars
<1>2. PICK x : x = builder[b]
      OBVIOUS
<1>3. Builds(x) /\ BuildersInv /\ x.pc = "publish"
      BY <1>2 DEF BuildInv, BuildersInv, Publish
<1>4. Builds(Idle)'
      BY DEF Builds, Idle, Working, WithTree
<1>5. BuildersInv'
      BY <1>1, <1>3, <1>4, OneBuilds DEF Publish
<1>6. PlanVetted(x.plan)'
      BY <1>1, <1>3, VettedStays DEF Builds
<1>7. /\ x.digest \in x.plan.evidence
      /\ x.tree.options = x.plan.options
      /\ x.tree.identity = x.plan.accepted.identity
      /\ x.tree.drivers = Locked(x.plan)
      /\ x.tree.kexts = LoadOrder(KextsOf(Locked(x.plan)))
      /\ PlanDriven(x.plan)
      BY <1>3 DEF Builds, Working, WithTree
<1>8. output' = [tree |-> x.tree,
                 manifest |-> [plan |-> x.plan, evidence |-> x.digest, tree |-> x.tree]]
      BY <1>2 DEF Publish, Manifest
<1> QED BY <1>5, <1>6, <1>7, <1>8 DEF OutputInv

\* A step that leaves the manifest alone leaves what is known of it.
LEMMA OutputStep ==
    ASSUME BuildInv, asked \subseteq asked',
           output' # None => /\ output # None
                             /\ output' = [tree |-> output'.tree, manifest |-> output.manifest]
    PROVE  OutputInv'
<1> SUFFICES ASSUME output' # None
             PROVE  OutputInv'
    BY DEF OutputInv
<1>1. PICK m : m = output.manifest
      OBVIOUS
<1>2. /\ PlanVetted(m.plan) /\ PlanDriven(m.plan) /\ m.evidence \in m.plan.evidence
      /\ m.tree.drivers = Locked(m.plan)
      /\ m.tree.kexts = LoadOrder(KextsOf(Locked(m.plan)))
      /\ m.tree.options = m.plan.options
      /\ m.tree.identity = m.plan.accepted.identity
      BY <1>1 DEF BuildInv, OutputInv
<1>3. PlanVetted(m.plan)'
      BY <1>2, VettedStays
<1>4. output'.manifest = m /\ output' = [tree |-> output'.tree, manifest |-> m]
      BY <1>1
<1> QED BY <1>2, <1>3, <1>4 DEF OutputInv

LEMMA BindInv ==
    ASSUME BuildInv, Bind
    PROVE  BindingTruthful'
<1>1. PICK plan : /\ plan = PlanOf(draft, Snapshots[machine], disk)
                  /\ plan.accepted # None
                  /\ \E r \in AcpiRecords(draft) :
                        LET digest == CaptureDigest(r.ref, machine, r.bios, disk)
                        IN  /\ Current(output.manifest, plan, digest)
                            /\ binding' = [draft |-> draft, digest |-> digest,
                                           evidence |-> output.manifest.evidence,
                                           tree |-> output.tree]
      BY DEF Bind
<1>2. plan.accepted = draft /\ plan.options = draft.options
      BY <1>1, PlanAccepted
<1>3. PICK digest : /\ Current(output.manifest, plan, digest)
                    /\ binding' = [draft |-> draft, digest |-> digest,
                                   evidence |-> output.manifest.evidence, tree |-> output.tree]
      BY <1>1
<1>4. output # None /\ output.tree = output.manifest.tree
      BY DEF Bind, Intact
<1>5. output.manifest.tree.identity = output.manifest.plan.accepted.identity
      BY <1>4 DEF BuildInv, OutputInv
<1>6. /\ output.manifest.plan = plan
      /\ output.manifest.tree.options = plan.options
      /\ output.manifest.evidence = digest
      BY <1>3 DEF Current
<1> QED BY <1>2, <1>3, <1>4, <1>5, <1>6 DEF BindingTruthful

LEMMA ToolsStep == BuildInv /\ [Next]_vars => ToolInv' /\ [ToolNext]_toolVars
<1> SUFFICES ASSUME BuildInv, [Next]_vars
             PROVE  [ToolNext]_toolVars
    BY StepInv DEF BuildInv
<1>1. CASE Build
      BY <1>1 DEF Build, Start, SelectTools, Expect, Gate, Compile, Configure, Validate, Fail,
                  Publish, BuildOnly
<1>2. CASE Bind
      BY <1>2 DEF Bind
<1>3. CASE World
      BY <1>3, ChangesAssumption
         DEF World, SelectOption, SelectTarget, Acknowledge, GenerateIdentity,
                  ReuseIdentity, ImportCapture, RewriteCapture, LoseCapture, DamageTree,
                  RemoveOutput, ToolLost, Edit, Change, ToolNext, ChangesAssumption
<1>4. CASE Provision
      BY <1>4 DEF Provision, ToolNext
<1>5. CASE UNCHANGED vars
      BY <1>5 DEF vars, toolVars
<1> QED BY <1>1, <1>2, <1>3, <1>4, <1>5 DEF Next

\* What the user and the world do to the output.
LEMMA WorldOutput ==
    ASSUME BuildInv, World
    PROVE  /\ output' # None => /\ output # None
                                /\ output' = [tree |-> output'.tree, manifest |-> output.manifest]
           /\ UNCHANGED <<builder, binding>>
           /\ changes' = changes + 1
<1>1. CASE DamageTree
      BY <1>1 DEF DamageTree, Change, BuildInv, OutputInv
<1>2. CASE RemoveOutput
      BY <1>2 DEF RemoveOutput, Change
<1>3. CASE ~(DamageTree \/ RemoveOutput)
  <2>1. UNCHANGED <<output, builder, binding>> /\ changes' = changes + 1
        BY <1>3 DEF World, SelectOption, SelectTarget, Acknowledge, GenerateIdentity,
                    ReuseIdentity, ImportCapture, RewriteCapture, LoseCapture, ToolLost,
                    Edit, Change
  <2> QED BY <2>1 DEF BuildInv, OutputInv
<1> QED BY <1>1, <1>2, <1>3

LEMMA BuildStepInv == BuildInv /\ [Next]_vars => BuildInv'
<1> SUFFICES ASSUME BuildInv, [Next]_vars
             PROVE  DraftInv' /\ BuildersInv' /\ OutputInv' /\ BindingTruthful'
    BY ToolsStep DEF BuildInv
<1> DEFINE Still == UNCHANGED <<machine, draft, identities, asked, changes>>
<1>1. Still => DraftInv'
      BY DEF BuildInv, DraftInv, Asked, WellFormed
<1>2. asked \subseteq asked' /\ output' = output => OutputInv'
      BY OutputStep DEF BuildInv, OutputInv
<1>3. binding' = binding => BindingTruthful'
      BY DEF BuildInv, BindingTruthful
<1>4. asked \subseteq asked' /\ builder' = builder => BuildersInv'
      BY BuildsStays DEF BuildInv, BuildersInv
<1>5. ASSUME NEW b \in Builders,
             \/ Start(b) \/ SelectTools(b) \/ Expect(b) \/ Gate(b)
             \/ Compile(b) \/ Configure(b) \/ Validate(b) \/ Fail(b)
      PROVE  DraftInv' /\ BuildersInv' /\ OutputInv' /\ BindingTruthful'
      BY <1>1, <1>2, <1>3, <1>5, BuildStep DEF BuildOnly, worldVars
<1>6. ASSUME NEW b \in Builders, Publish(b)
      PROVE  DraftInv' /\ BuildersInv' /\ OutputInv' /\ BindingTruthful'
      BY <1>1, <1>3, <1>6, PublishInv DEF Publish, worldVars
<1>7. CASE Bind
      BY <1>1, <1>2, <1>4, <1>7, BindInv DEF Bind, worldVars
<1>8. CASE World
  <2>1. DraftInv' /\ asked \subseteq asked'
        BY <1>8, WorldDraft DEF BuildInv
  <2> QED BY <1>3, <1>4, <1>8, <2>1, WorldOutput, OutputStep
<1>9. CASE Provision
      BY <1>1, <1>2, <1>3, <1>4, <1>9 DEF Provision, worldVars
<1>10. CASE UNCHANGED vars
       BY <1>1, <1>2, <1>3, <1>4, <1>10 DEF vars, worldVars
<1> QED BY <1>5, <1>6, <1>7, <1>8, <1>9, <1>10 DEF Next, Build

-----------------------------------------------------------------------------
(* The theorems *)

\* What is known at every place of every build, for every database.
THEOREM BuildInvariant == Spec => []BuildInv
BY InitBuildInv, BuildStepInv, PTL DEF Spec

\* Types, and which part of a build there is at each of its steps.
THEOREM TypeCorrect == Spec => []TypeOK
<1>1. BuildInv => TypeOK
      BY DEF BuildInv, ToolInv, DraftInv, BuildersInv, Builds, Working, WithTree, TypeOK
<1> QED BY <1>1, BuildInvariant, PTL

\* An EFI is published only for a machine whose every device the database knows
\* and finds usable, from accepted evidence, and with every acknowledgement that
\* its options need given for exactly what was built.
THEOREM PublishesVetted == Spec => []PublishedVetted
<1>1. BuildInv => PublishedVetted
      BY DEF BuildInv, OutputInv, PlanVetted, MachineVetted, OptionsVetted, PublishedVetted
<1> QED BY <1>1, BuildInvariant, PTL

\* The configuration that is published lists the kernel extensions of the driver
\* of every device, each once, and those that a driver depends on before its own,
\* for every catalog that the ranks of the configuration agree with
\* (RanksAssumption).
THEOREM PublishesDrivers == Spec => []DriversInOrder
<1>1. BuildInv => DriversInOrder
  <2> SUFFICES ASSUME BuildInv, output # None
               PROVE  DriversInOrder
      BY DEF DriversInOrder
  <2>1. PICK m : m = output.manifest
        OBVIOUS
  <2>2. PICK locked : locked = ToSet(m.tree.drivers)
        OBVIOUS
  <2>3. PICK kexts : kexts = KextsOf(m.tree.drivers)
        OBVIOUS
  <2>4. PICK o : o = m.tree.kexts
        OBVIOUS
  <2>5. /\ PlanDriven(m.plan)
        /\ m.tree.drivers = Locked(m.plan)
        /\ o = LoadOrder(kexts)
        BY <2>1, <2>3, <2>4 DEF BuildInv, OutputInv
  <2>6. /\ Wanted(Snapshots[m.plan.machine]) \subseteq locked
        /\ InOrder(m.tree.drivers, locked)
        /\ locked \subseteq Deps
        BY <2>2, <2>5, LockedDrives
  <2>7. \A d \in locked : Kexts[d] \subseteq kexts
        BY <2>2, <2>3 DEF KextsOf
  <2>8. kexts \in SUBSET ToSet(KextNames)
        BY <2>2, <2>3, <2>6, KextsAssumption DEF KextsOf, KextsAssumption
  <2>9. /\ ToSet(o) = kexts
        /\ IsInjective(o)
        /\ \A i \in DOMAIN o : \A j \in kexts :
               Precedes(j, o[i]) => j \in {o[h] : h \in 1..(i - 1)}
        BY <2>5, <2>8, LoadsInOrder
  <2>10. \A d \in Wanted(Snapshots[m.plan.machine]) : Kexts[d] \subseteq ToSet(o)
         BY <2>6, <2>7, <2>9
  <2>11. ASSUME NEW i \in DOMAIN o, o[i] \in SmcNamed
         PROVE  "virtualsmc" \in {o[h] : h \in 1..(i - 1)}
    <3>1. "virtualsmc" \in locked
          BY <2>6 DEF Wanted, Base
    <3>2. "virtualsmc" \in kexts
          BY <2>6, <2>7, <3>1, RanksAssumption DEF RanksAssumption
    <3>3. Rank("virtualsmc") = 1
          BY KextsAssumption DEF Rank, KextsAssumption
    <3>4. Rank(o[i]) = 3
          BY <2>11, KextsAssumption DEF Rank, KextsAssumption
    <3> QED BY <2>9, <3>2, <3>3, <3>4 DEF Precedes
  <2>12. ASSUME NEW i \in DOMAIN o, NEW d \in locked, o[i] \in Kexts[d],
                NEW q \in ToSet(Prerequisites[d])
         PROVE  Kexts[q] \subseteq {o[h] : h \in 1..(i - 1)}
    <3>1. q \in locked
      <4>1. PICK l \in DOMAIN m.tree.drivers : m.tree.drivers[l] = d
            BY <2>2 DEF ToSet
      <4>2. PICK h \in 1..(l - 1) : m.tree.drivers[h] = q
            BY <2>6, <2>12, <4>1 DEF InOrder
      <4>3. Locked(m.plan) \in Seq(Deps)
            BY <2>5, OrderIsRight DEF PlanDriven, Locked
      <4>4. h \in DOMAIN m.tree.drivers
            BY <2>5, <4>1, <4>2, <4>3
      <4> QED BY <2>2, <4>2, <4>4 DEF ToSet
    <3>2. ASSUME NEW j \in Kexts[q]
          PROVE  j \in kexts /\ Precedes(j, o[i])
      <4>1. Rank(j) < Rank(o[i])
            BY <2>6, <2>12, <3>2, RanksAssumption DEF RanksAssumption
      <4> QED BY <2>7, <3>1, <4>1 DEF Precedes
    <3> QED BY <2>9, <3>2
  <2> QED BY <2>1, <2>2, <2>4, <2>9, <2>10, <2>11, <2>12 DEF DriversInOrder
<1> QED BY <1>1, BuildInvariant, PTL

\* A Recovery binding holds what was built for the draft that it ties.
THEOREM BindsTruthfully == Spec => []BindingTruthful
<1>1. BuildInv => BindingTruthful
      BY DEF BuildInv
<1> QED BY <1>1, BuildInvariant, PTL

\* No build replaces or removes what is published.
THEOREM OutputRemains == Spec => OutputStays
<1>1. BuildInv /\ [Next]_vars => [(output # None /\ changes' = changes) => output' = output]_vars
  <2> SUFFICES ASSUME BuildInv, [Next]_vars, output # None, changes' = changes
               PROVE  output' = output
      OBVIOUS
  <2>1. CASE World
        BY <2>1, WorldOutput, ChangesAssumption DEF BuildInv, DraftInv, ChangesAssumption
  <2>2. CASE ~World
        BY <2>2 DEF Next, Build, Start, SelectTools, Expect, Gate, Compile, Configure, Validate,
                    Fail, Publish, BuildOnly, Bind, Provision, vars
  <2> QED BY <2>1, <2>2
<1> QED BY <1>1, BuildInvariant, PTL DEF Spec, OutputStays

\* Building implements the tool directory's own specification: builds only read
\* it, and provisions come one at a time.
THEOREM ImplementsToolRoot == Spec => ToolSpec
<1>1. Init => ToolInit
      BY DEF Init
<1>2. BuildInv /\ [Next]_vars => [ToolNext]_toolVars
      BY ToolsStep
<1> QED BY <1>1, <1>2, BuildInvariant, PTL DEF Spec, ToolSpec

\* What ToolRoot promises of a provisioning holds while drafts are edited and
\* EFIs are built.
THEOREM BuildingRestores == Spec => []ToolsRestored
BY ImplementsToolRoot, Restores, PTL
=============================================================================
