---------------------------- MODULE MCCacheLock ----------------------------
(* Instances of CacheLock for TLC. *)
EXTENDS CacheLock, TLC

CONSTANTS a, b, c, d, here, there, none

Two == {a, d}
Three == {a, b, d}
Four == {a, b, c, d}

OneHost == {here}
TwoHosts == {here, there}

AllHere == [p \in Procs |-> here]
\* d is on another machine that shares the directory.
Split == [p \in Procs |-> IF p = d THEN there ELSE here]

Once == [p \in Procs |-> 1]
\* a comes back after its first lock.
OnlyATwice == [p \in Procs |-> IF p = a THEN 2 ELSE 1]

OnlyD == {d}
Everybody == Procs

NoFaults == {}
\* Removing the lock file may fail when it is released.
UnlinkFaults == {"unlink"}
EveryFault == AllFaults

\* The processes that never die are interchangeable when they share a host
\* and come equally often.
Interchangeable == Permutations(Procs \ Mortal)
=============================================================================
