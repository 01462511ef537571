-------------------------- MODULE RevisionRegister --------------------------
(***************************************************************************)
(* What ConfigurationStore promises about one configuration, seen by the   *)
(* editors of its drafts: a register replaced only by an editor whose      *)
(* draft comes from the very version it replaces, with a larger revision.  *)
(* Versions carry a serial number that the program does not have; it tells *)
(* apart two versions that bear the same revision number.                  *)
(***************************************************************************)
EXTENDS Integers

CONSTANTS Editors, MaxRev

Missing == [rev |-> -1, ver |-> 0]

VARIABLES
    current,  \* the stored version: its revision and serial number
    basis     \* basis[e]: serial number of the version e's draft comes from

rvars == <<current, basis>>

RegisterInit ==
    /\ current = Missing
    /\ basis = [e \in Editors |-> 0]

\* e reads the stored version into a draft.
Observe(e) ==
    /\ current # Missing
    /\ basis' = [basis EXCEPT ![e] = current.ver]
    /\ UNCHANGED current

\* e starts from nothing, or gives its draft up.
Forget(e) ==
    /\ basis' = [basis EXCEPT ![e] = 0]
    /\ UNCHANGED current

\* e replaces the version its draft comes from.
Replace(e) ==
    /\ basis[e] = current.ver
    /\ \E r \in 0..MaxRev :
         /\ r > current.rev
         /\ current' = [rev |-> r, ver |-> current.ver + 1]
    /\ UNCHANGED basis

RegisterNext == \E e \in Editors : Observe(e) \/ Forget(e) \/ Replace(e)

RegisterSpec == RegisterInit /\ [][RegisterNext]_rvars
=============================================================================
