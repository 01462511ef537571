--------------------------- MODULE DependencyPlan ---------------------------
(***************************************************************************)
(* The dependencies of a build plan and their order: DependencyResolver    *)
(* (dependencies/resolver.py) over DependencyGraph (dependencies/graph.py),*)
(* as operators.                                                           *)
(***************************************************************************)
EXTENDS HardwarePolicy, SequencesExt

CONSTANTS
    Prerequisites,  \* for each dependency of the catalog, the sequence of those
                    \* it needs
    Sorted          \* the dependencies in the order of their ids

Deps == DOMAIN Prerequisites

\* The catalog is finite, and a prerequisite that is not in it is refused when
\* it is loaded (database/schema.py:282-287).
ASSUME CatalogAssumption ==
    /\ IsFiniteSet(Deps)
    /\ Prerequisites \in [Deps -> Seq(Deps)]
    /\ Sorted \in Seq(Deps)
    /\ ToSet(Sorted) = Deps

Base == {"opencore", "virtualsmc"}

\* The driver that a capability calls for on a macOS product.
Driver(capability, product) ==
    CASE capability = "accelerated_intel_uhd_620" -> {"whatevergreen"}
      [] capability = "alc257_audio" /\ product \in {"sonoma", "sequoia"} -> {"applealc"}
      [] capability = "intel_gigabit_ethernet" -> {"intelmausi"}
      [] capability = "nvme_compatibility_fix" -> {"nvmefix"}
      [] capability = "intel_wireless_lan" ->
             {IF product = "sonoma" THEN "airportitlwm" ELSE "itlwm"}
      [] capability = "intel_bluetooth" -> {"intel_bluetooth_firmware", "bluetoolfixup"}
      [] capability = "i2c_touchscreen" -> {"voodooi2c"}
      [] capability = "ps2_trackpad_trackpoint" -> {"voodoops2"}
      [] OTHER -> {}

\* There is an audio driver for Sonoma and Sequoia only, which leaves the audio
\* of another macOS open.
Undriven(plan) ==
    IF "alc257_audio" \in plan.capabilities /\ plan.product \notin {"sonoma", "sequoia"}
    THEN {"analogue audio"} ELSE {}

-----------------------------------------------------------------------------
(* The graph *)

Grown(ids) == ids \cup UNION {ToSet(Prerequisites[d]) : d \in ids}

\* Everything that the wanted need, directly or not.
Needed(wanted) ==
    LET after[n \in Nat] == IF n = 0 THEN wanted ELSE Grown(after[n - 1])
    IN  after[Cardinality(Deps)]

\* The depth-first search: the dependencies being visited, the outermost first,
\* and those visited, in the order in which that ended.
NotEntered == [path |-> <<>>, ordered |-> <<>>]

\* Where it may go on: the ids in order outside, what d lists inside d.
Ahead(s) == IF s.path = <<>> THEN Sorted ELSE Prerequisites[Last(s.path)]

Unvisited(s, needed) ==
    {i \in DOMAIN Ahead(s) : Ahead(s)[i] \in needed /\ Ahead(s)[i] \notin ToSet(s.ordered)}

\* The first of them, which it visits or finds itself in.
Following(s, needed) ==
    Ahead(s)[CHOOSE i \in Unvisited(s, needed) : \A j \in Unvisited(s, needed) : i <= j]

Enter(s, d) == [path |-> Append(s.path, d), ordered |-> s.ordered]

\* The visit of the innermost one ends.
Leave(s) == [path |-> Front(s.path), ordered |-> Append(s.ordered, Last(s.path))]

\* One step.  It stays where it is when everything is visited, and when it comes
\* to a dependency that it is visiting, which is a cycle.
Dfs(s, needed) ==
    IF Unvisited(s, needed) = {} THEN IF s.path = <<>> THEN s ELSE Leave(s)
    ELSE IF Following(s, needed) \in ToSet(s.path) THEN s
    ELSE Enter(s, Following(s, needed))

\* It enters and leaves every dependency once, or has come to a cycle by then.
Search(wanted) ==
    LET needed == Needed(wanted)
        run[n \in Nat] == IF n = 0 THEN NotEntered ELSE Dfs(run[n - 1], needed)
    IN  run[2 * Cardinality(Deps)]

\* A dependency that needs itself, directly or not.
Cyclic(wanted) == Search(wanted).path # <<>>

\* The order in which what is needed comes first.
Order(wanted) == Search(wanted).ordered

-----------------------------------------------------------------------------
(* The resolution *)

\* A plan is refused when the machine is not usable, its model is unknown, or
\* macOS is not; then when the catalog lacks a dependency or has a cycle.
Resolvable(plan) ==
    /\ plan.state \in Usable
    /\ plan.model \in {m.id : m \in Models}
    /\ OsStatus[plan.product] \notin {"blocked", "unknown"}

Requested(plan) == Base \cup UNION {Driver(c, plan.product) : c \in plan.capabilities}

\* What the lock of a plan lists, in order, and what it leaves open.
Locked(plan) == Order(Requested(plan))

Open(plan) == plan.needs \cup Undriven(plan)

Resolved(plan) ==
    /\ Resolvable(plan)
    /\ Requested(plan) \subseteq Deps
    /\ ~Cyclic(Requested(plan))

-----------------------------------------------------------------------------
(* What an order must be *)

\* Every dependency once, all that is needed and nothing else, and what a
\* dependency needs before it.
InOrder(order, wanted) ==
    /\ ToSet(order) = Needed(wanted)
    /\ IsInjective(order)
    /\ \A i \in DOMAIN order : \A d \in ToSet(Prerequisites[order[i]]) :
           \E j \in 1..(i - 1) : order[j] = d
=============================================================================
