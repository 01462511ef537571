-------------------------------- MODULE Mutex --------------------------------
(***************************************************************************)
(* What the cache relies on when it takes a lock with _locked_file: one    *)
(* user at most is inside, it enters when nobody is, and it is out when it *)
(* left by itself or died.  CacheLock implements it with lock files, and   *)
(* the locks that ArtifactCache assumes are locks of this kind.            *)
(***************************************************************************)
CONSTANT Users

VARIABLE inside  \* the users inside the body of _locked_file

MutexInit == inside = {}

\* The "with" statement is entered.
Enter(p) == inside = {} /\ inside' = {p}

\* The body is left, or its process dies in it.
Leave(p) == inside = {p} /\ inside' = {}

MutexNext == \E p \in Users : Enter(p) \/ Leave(p)

MutexSpec == MutexInit /\ [][MutexNext]_inside
=============================================================================
