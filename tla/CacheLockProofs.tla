--------------------------- MODULE CacheLockProofs ---------------------------
(***************************************************************************)
(* Proofs about CacheLock.  Its types hold in every configuration.  When   *)
(* no process dies and no fault occurs, mutual exclusion, releases that    *)
(* only touch one's own file, and the absence of leaked files hold for     *)
(* every number of processes, hosts and uses.  When one process dies,      *)
(* mutual exclusion and releases are right as long as two others at most   *)
(* take the lock over.  In both cases the file implements Mutex.  Last,    *)
(* what a reclaimer has judged it throws away only if its owner is gone.   *)
(***************************************************************************)
EXTENDS CacheLock, TLAPS

\* What a token is, without the UNION that makes Tokens enumerable.
LEMMA TokenShape ==
    ASSUME NEW t
    PROVE  t \in Tokens <=> \E p \in Procs : \E n \in 1..MaxUses[p] : t = [owner |-> p, n |-> n]
BY DEF Tokens

\* The current token of a process that started is a token.
LEMMA TokInTokens ==
    ASSUME NEW p \in Procs, uses \in [Procs -> Nat],
           uses[p] > 0, uses[p] <= MaxUses[p]
    PROVE  Tok(p) \in Tokens
<1>1. uses[p] \in 1..MaxUses[p]
  BY ConstantsAssumption
<1> QED
  BY <1>1, TokenShape DEF Tok

\* A step of one process or of the environment keeps the types.
LEMMA TypeStep == TypeOK /\ [Next]_vars => TypeOK'
<1> SUFFICES ASSUME TypeOK, [Next]_vars
             PROVE  TypeOK'
  OBVIOUS
<1> USE DEF TypeOK, Goto, Labels
<1>1. CASE UNCHANGED vars
  BY <1>1 DEF vars
<1>2. ASSUME NEW p \in Procs, Start(p)
      PROVE  TypeOK'
  <2>1. MaxUses[p] \in Nat
    BY ConstantsAssumption
  <2>2. /\ uses' \in [Procs -> Nat]
        /\ \A q \in Procs : uses'[q] = IF q = p THEN uses[p] + 1 ELSE uses[q]
    BY <1>2 DEF Start
  <2>3. \A q \in Procs : uses'[q] <= MaxUses[q]
    BY <1>2, <2>1, <2>2 DEF Start
  <2>4. \A q \in Procs : pc'[q] = IF q = p THEN "loop" ELSE pc[q]
    BY <1>2 DEF Start
  <2>5. \A q \in Procs : pc'[q] \notin {"idle", "dead"} => uses'[q] > 0
    BY <2>2, <2>4
  <2> QED
    BY <1>2, <2>2, <2>3, <2>4, <2>5 DEF Start
<1>3. ASSUME NEW p \in Procs, Cancel(p) \/ TimeOut(p)
      PROVE  TypeOK'
  BY <1>3 DEF Cancel, TimeOut
<1>4. ASSUME NEW p \in Procs, Open(p)
      PROVE  TypeOK'
  <2>1. Tok(p) \in Tokens
    BY <1>4, TokInTokens DEF Open
  <2> QED
    BY <1>4, <2>1 DEF Open
<1>5. ASSUME NEW p \in Procs, Write(p) \/ WriteFails(p)
      PROVE  TypeOK'
  <2>1. Tok(p) \in Tokens
    BY <1>5, TokInTokens DEF Write, WriteFails
  <2> QED
    BY <1>5, <2>1 DEF Write, WriteFails
<1>6. ASSUME NEW p \in Procs, Read(p)
      PROVE  TypeOK'
  BY <1>6 DEF Read, Readable
<1>7. ASSUME NEW p \in Procs, Stat(p)
      PROVE  TypeOK'
  BY <1>7 DEF Stat
<1>8. ASSUME NEW p \in Procs, Judge(p)
      PROVE  TypeOK'
  BY <1>8 DEF Judge
<1>9. ASSUME NEW p \in Procs, MoveAside(p)
      PROVE  TypeOK'
  BY <1>9 DEF MoveAside
<1>10. ASSUME NEW p \in Procs, Discard(p) \/ Restore(p) \/ RestoreFails(p)
       PROVE  TypeOK'
  BY <1>10 DEF Discard, Restore, RestoreFails
<1>11. ASSUME NEW p \in Procs, ReadOwn(p) \/ Unlink(p) \/ UnlinkFails(p)
       PROVE  TypeOK'
  BY <1>11 DEF ReadOwn, Unlink, UnlinkFails
<1>12. ASSUME NEW p \in Procs, Die(p) \/ Deadline(p)
       PROVE  TypeOK'
  BY <1>12 DEF Die, Deadline
<1>13. ASSUME NEW t \in Tokens, Age(t) \/ Expire(t)
       PROVE  TypeOK'
  BY <1>13 DEF Age, Expire
<1> QED
  BY <1>1, <1>2, <1>3, <1>4, <1>5, <1>6, <1>7, <1>8, <1>9, <1>10, <1>11, <1>12, <1>13
     DEF Next, Step, Environment

\* The variables of the protocol always have their types, whatever faults and
\* deaths the configuration admits.
THEOREM TypeCorrect == Spec => []TypeOK
<1>1. Init => TypeOK
  BY ConstantsAssumption DEF Init, TypeOK, Labels
<1> QED
  BY <1>1, TypeStep, PTL DEF Spec

-----------------------------------------------------------------------------
(* The orderly system: no process dies and no fault occurs.  Nobody's lock is
   ever judged stale, so only creation and release touch the lock path. *)

Orderly == Mortal = {} /\ Faults = {}

\* The processes whose file must be at the lock path.
Owning(p) == pc[p] \in {"created", "held", "unlink"}

\* Nobody reclaims.
NoReclaim ==
    /\ \A p \in Procs : pc[p] \notin {"reclaim", "aside", "dead"}
    /\ aside = [p \in Procs |-> None]
    /\ expired = {}

\* The lock path names exactly the owning process.
PathIsOwner ==
    /\ \A p \in Procs : Owning(p) => path = Tok(p)
    /\ path # None => Owning(path.owner) /\ path = Tok(path.owner)

\* A file whose creator may still be writing it, or is yet to create it, does
\* not look old; nor does the file a contender is about to stat.
FreshFiles ==
    /\ \A t \in aged : t.n <= uses[t.owner]
    /\ \A p \in Procs : pc[p] \in {"loop", "read", "stat", "judge", "created"}
                           => Tok(p) \notin aged
    /\ \A p \in Procs : pc[p] \in {"held", "unlink"} => Tok(p) \in written
    /\ (\E p \in Procs : pc[p] = "stat") => path \notin aged

OrderlyInv == TypeOK /\ NoReclaim /\ PathIsOwner /\ FreshFiles

\* Tokens of different processes differ, and a process owns its token.
LEMMA TokOwner ==
    ASSUME NEW p \in Procs, NEW q \in Procs
    PROVE  Tok(p).owner = p /\ (Tok(p) = Tok(q) => p = q)
BY DEF Tok

LEMMA OrderlyInit == Init => OrderlyInv
BY ConstantsAssumption
   DEF Init, OrderlyInv, TypeOK, Labels, NoReclaim, PathIsOwner, FreshFiles, Owning

\* One step of the orderly system keeps its invariant.
LEMMA OrderlyStep ==
    ASSUME Orderly, OrderlyInv, [Next]_vars
    PROVE  NoReclaim' /\ PathIsOwner' /\ FreshFiles'
<1> USE DEF OrderlyInv, NoReclaim, PathIsOwner, FreshFiles, Owning, Goto
<1>0. TypeOK /\ TypeOK'
  BY TypeStep
<1>a. \A p \in Procs : pc[p] \in Labels /\ uses[p] \in Nat
  BY <1>0 DEF TypeOK
<1>b. \A t \in Tokens : t.owner \in Procs /\ t.n \in Nat /\ t = [owner |-> t.owner, n |-> t.n]
  BY TokenShape, ConstantsAssumption
<1>1. CASE UNCHANGED vars
  BY <1>1 DEF vars, Tok
<1>2. ASSUME NEW p \in Procs, Start(p)
      PROVE  NoReclaim' /\ PathIsOwner' /\ FreshFiles'
  <2>1. \A q \in Procs : uses'[q] = IF q = p THEN uses[p] + 1 ELSE uses[q]
    BY <1>0, <1>2 DEF Start, TypeOK
  <2>2. \A q \in Procs : pc'[q] = IF q = p THEN "loop" ELSE pc[q]
    BY <1>0, <1>2 DEF Start, TypeOK
  <2>3. \A q \in Procs : q # p => Tok(q)' = Tok(q)
    BY <2>1 DEF Tok
  <2>4. Tok(p)' \notin aged
    BY <1>a, <2>1 DEF Tok
  <2>5. \A t \in aged : t.n <= uses'[t.owner]
    BY <1>0, <1>a, <1>b, <2>1 DEF TypeOK
  <2>6. path # None => path.owner \in Procs /\ path.owner # p
    BY <1>0, <1>2, <1>b DEF TypeOK, Start
  <2> QED
    BY <1>2, <2>1, <2>2, <2>3, <2>4, <2>5, <2>6 DEF Start
<1>3. ASSUME NEW p \in Procs, Cancel(p) \/ TimeOut(p)
      PROVE  NoReclaim' /\ PathIsOwner' /\ FreshFiles'
  BY <1>0, <1>3, <1>b DEF Cancel, TimeOut, TypeOK, Tok
<1>4. ASSUME NEW p \in Procs, Open(p)
      PROVE  NoReclaim' /\ PathIsOwner' /\ FreshFiles'
  <2>1. \A q \in Procs : Tok(q)' = Tok(q)
    BY <1>4 DEF Open, Tok
  <2>2. CASE path = None
    <3>1. path' = Tok(p) /\ pc' = [pc EXCEPT ![p] = "created"] /\ pc[p] = "loop"
      BY <1>4, <2>2 DEF Open
    <3>2. \A q \in Procs : ~Owning(q)
      BY <2>2, <1>0, <1>4, TokInTokens, NoneAssumption DEF TypeOK
    <3>3. \A q \in Procs : pc'[q] = IF q = p THEN "created" ELSE pc[q]
      BY <1>0, <3>1 DEF TypeOK
    <3>4. Tok(p) \notin aged /\ Tok(p).owner = p
      BY <3>1 DEF Tok
    <3> QED
      BY <1>4, <2>1, <3>1, <3>2, <3>3, <3>4 DEF Open
  <2>3. CASE path # None
    BY <1>0, <1>4, <1>b, <2>1, <2>3 DEF Open, TypeOK
  <2> QED
    BY <2>2, <2>3
<1>5. ASSUME NEW p \in Procs, Write(p)
      PROVE  NoReclaim' /\ PathIsOwner' /\ FreshFiles'
  BY <1>0, <1>5, <1>b DEF Write, TypeOK, Tok
<1>6. ASSUME NEW p \in Procs, Read(p)
      PROVE  NoReclaim' /\ PathIsOwner' /\ FreshFiles'
  BY <1>0, <1>6, <1>b, NoneAssumption DEF Read, Readable, TypeOK, Tok
<1>7. ASSUME NEW p \in Procs, Stat(p)
      PROVE  NoReclaim' /\ PathIsOwner' /\ FreshFiles'
  BY <1>0, <1>7, <1>b DEF Stat, TypeOK, Tok
<1>8. ASSUME NEW p \in Procs, Judge(p)
      PROVE  NoReclaim' /\ PathIsOwner' /\ FreshFiles'
  <2>1. seen[p] \in Tokens
    BY <1>0, <1>8 DEF Judge, TypeOK
  <2>2. OwnerAlive(p, seen[p])
    BY <1>b, <2>1 DEF OwnerAlive, Alive
  <2> QED
    BY <1>0, <1>8, <1>b, <2>2 DEF Judge, TypeOK, Tok
<1>9. ASSUME NEW p \in Procs, ReadOwn(p) \/ Unlink(p)
      PROVE  NoReclaim' /\ PathIsOwner' /\ FreshFiles'
  BY <1>0, <1>9, <1>b, TokOwner, NoneAssumption DEF ReadOwn, Unlink, TypeOK, Tok
<1>10. ASSUME NEW p \in Procs, Deadline(p)
       PROVE  NoReclaim' /\ PathIsOwner' /\ FreshFiles'
  BY <1>10 DEF Deadline, Tok
<1>11. ASSUME NEW t \in Tokens, Age(t)
       PROVE  NoReclaim' /\ PathIsOwner' /\ FreshFiles'
  <2>1. t = path /\ t.owner \in Procs /\ t = Tok(t.owner) /\ Owning(t.owner)
    BY <1>11, <1>b DEF Age, Present
  <2>2. pc[t.owner] # "created" /\ \A p \in Procs : pc[p] # "stat"
    BY <1>11, <2>1 DEF Age, Orderly
  <2>3. \A p \in Procs : Tok(p) = t => p = t.owner
    BY DEF Tok
  <2> QED
    BY <1>0, <1>11, <2>1, <2>2, <2>3 DEF Age, TypeOK, Tok
<1>12. ASSUME NEW p \in Procs
       PROVE  ~WriteFails(p) /\ ~MoveAside(p) /\ ~Discard(p) /\ ~Restore(p)
              /\ ~RestoreFails(p) /\ ~UnlinkFails(p) /\ ~Die(p)
  BY DEF Orderly, WriteFails, MoveAside, Discard, Restore, RestoreFails, UnlinkFails, Die
<1>13. ASSUME NEW t \in Tokens
       PROVE  ~Expire(t)
  BY DEF Orderly, Expire
<1> QED
  BY <1>1, <1>2, <1>3, <1>4, <1>5, <1>6, <1>7, <1>8, <1>9, <1>10, <1>11, <1>12, <1>13
     DEF Next, Step, Environment

LEMMA OrderlyInvariance == Orderly => (Spec => []OrderlyInv)
<1> SUFFICES ASSUME Orderly
             PROVE  Spec => []OrderlyInv
  OBVIOUS
<1>1. OrderlyInv /\ [Next]_vars => OrderlyInv'
  BY OrderlyStep, TypeStep DEF OrderlyInv
<1> QED
  BY <1>1, OrderlyInit, PTL DEF Spec

\* Without deaths and faults the lock file is a mutex, for any number of
\* processes on any number of hosts.
THEOREM OrderlyMutualExclusion == Orderly => (Spec => []MutualExclusion)
<1>1. OrderlyInv => MutualExclusion
  BY TokOwner DEF OrderlyInv, PathIsOwner, Owning, MutualExclusion, Holding
<1> QED
  BY <1>1, OrderlyInvariance, PTL

\* Without deaths and faults no lock file is left behind.
THEOREM OrderlyNoLeakedLock == Orderly => (Spec => []NoLeakedLock)
<1>1. OrderlyInv => NoLeakedLock
  BY TokenShape DEF OrderlyInv, TypeOK, PathIsOwner, Owning, NoLeakedLock
<1> QED
  BY <1>1, OrderlyInvariance, PTL

-----------------------------------------------------------------------------
(* Taking over the lock of a dead process.  One process d may be killed,   *)
(* once, wherever it is but between its two system calls; two others, the  *)
(* survivors, may come back as often as they like, and their unlinks may   *)
(* fail.  Both may have judged d's file stale, and the slower one then     *)
(* moves the file of the faster one aside.  What saves them is that the    *)
(* only process that could create another file meanwhile is the owner of   *)
(* the file that was moved.                                                *)

\* At most two processes besides d, and d uses the lock once.
TwoSurvivors(d) ==
    /\ Mortal \subseteq {d}
    /\ MaxUses[d] = 1
    /\ \A p, q, r \in Procs \ {d} : p = q \/ q = r \/ p = r
    /\ Faults \subseteq {"unlink"}

\* The file d leaves behind.
Left(d) == [owner |-> d, n |-> 1]

OnDisk(t) == t # None /\ (t = path \/ \E p \in Procs : t = aside[p])

\* p is inside or about to be, or it is going to take a file away because it
\* looked corrupt.
Claims(p) == Owning(p) \/ (pc[p] = "reclaim" /\ expect[p] = None)

\* q moved something else than d's file aside and is going to put it back.
Parked(q, d) == pc[q] = "aside" /\ expect[q] = Left(d) /\ aside[q] # Left(d)

\* The lock path holds a file of p, or it will when q has put it back.
Guarded(p, d) ==
    \/ path # None /\ path.owner = p
    \/ \E q \in Procs : Parked(q, d) /\ aside[q].owner = p

\* Only d dies, no lease expires, and only a reclaimer has a file aside.
Calm(d) ==
    /\ \A p \in Procs : pc[p] = "dead" => p = d
    /\ expired = {}
    /\ \A p \in Procs : aside[p] # None => pc[p] = "aside"

\* Every file was created by a call that started; one without metadata is
\* being created now; one that looks old has metadata; a call that is still
\* waiting has not created its file.
Files(d) ==
    /\ \A t \in Tokens : OnDisk(t) => t.n <= uses[t.owner]
    /\ \A t \in Tokens : OnDisk(t) /\ t \notin written
                            => pc[t.owner] = "created" /\ t = Tok(t.owner)
    /\ \A t \in written : t.n <= uses[t.owner]
    /\ aged \subseteq written
    /\ \A p \in Procs : Waiting(p) /\ pc[p] # "created"
                           => ~OnDisk(Tok(p)) /\ Tok(p) \notin written

\* As long as d lives nothing is reclaimed.
Untouched(d) ==
    Alive(d) => /\ \A p \in Procs : pc[p] \notin {"reclaim", "aside"}
                /\ \A p \in Procs : pc[p] = "stat" => path \notin aged

\* Whoever has judged d's file, or is going to reclaim it, has no file.
Judged(d) ==
    \A p \in Procs :
        \/ pc[p] = "judge" /\ seen[p] = Left(d)
        \/ pc[p] \in {"reclaim", "aside"} /\ expect[p] = Left(d)
        => p # d /\ \A t \in Tokens : OnDisk(t) => t.owner # p

\* Reclaimers expect d's file or nothing; d's file goes for good; a file that
\* looks corrupt to a contender is one it has left there itself.
Reclaimers(d) ==
    /\ \A p \in Procs : pc[p] \in {"reclaim", "aside"} => expect[p] \in {None, Left(d)}
    /\ path = Left(d) => \A p \in Procs : aside[p] = None
    /\ \A p \in Procs : pc[p] = "stat" /\ path \in aged => path.owner = p

\* Claims are backed by a file, and a parked file is only ever in the way of
\* another file of its owner.
Backed(d) ==
    /\ \A p \in Procs : Claims(p) => Guarded(p, d)
    /\ \A q \in Procs : Parked(q, d) => path = None \/ path.owner = aside[q].owner

Protocol(d) ==
    Calm(d) /\ Files(d) /\ Untouched(d) /\ Judged(d) /\ Reclaimers(d) /\ Backed(d)

TakeoverInv(d) == TypeOK /\ Protocol(d)

\* What the parts are about, unfolded.
LEMMA TokenFacts ==
    ASSUME NEW d \in Procs, TwoSurvivors(d)
    PROVE  /\ None \notin Tokens /\ Left(d) \in Tokens /\ Left(d).owner = d
           /\ \A t \in Tokens : /\ t.owner \in Procs /\ t.n \in Nat /\ t.n >= 1
                                /\ t = [owner |-> t.owner, n |-> t.n]
                                /\ t.owner = d => t = Left(d)
<1>1. \A t \in Tokens : /\ t.owner \in Procs /\ t.n \in 1..MaxUses[t.owner]
                        /\ t = [owner |-> t.owner, n |-> t.n]
  BY TokenShape
<1>2. \A t \in Tokens : t.n \in Nat /\ t.n >= 1
  BY <1>1, ConstantsAssumption
<1>3. \A t \in Tokens : t.owner = d => t = Left(d)
  <2> SUFFICES ASSUME NEW t \in Tokens, t.owner = d
               PROVE  t = Left(d)
    OBVIOUS
  <2>1. t.n = 1
    BY <1>1, ConstantsAssumption DEF TwoSurvivors
  <2> QED
    BY <1>1, <2>1 DEF Left
<1>4. Left(d) \in Tokens /\ Left(d).owner = d
  BY TokenShape DEF Left, TwoSurvivors
<1> QED
  BY <1>1, <1>2, <1>3, <1>4, NoneAssumption

LEMMA TakeoverInit ==
    ASSUME NEW d \in Procs, TwoSurvivors(d), Init
    PROVE  TakeoverInv(d)
<1>1. TypeOK
  BY ConstantsAssumption DEF Init, TypeOK, Labels
<1> QED
  BY <1>1, TokenFacts
     DEF Init, TakeoverInv, Protocol, Calm, Files, Untouched, Judged, Reclaimers, Backed,
         OnDisk, Claims, Parked, Guarded, Owning, Waiting, Alive, Left

\* Steps that leave the files alone and only let p go on, or give up.
LEMMA QuietStep ==
    ASSUME NEW d \in Procs, TwoSurvivors(d), TakeoverInv(d), TypeOK', NEW p \in Procs,
           Cancel(p) \/ TimeOut(p) \/ ReadOwn(p) \/ UnlinkFails(p) \/ Deadline(p)
    PROVE  Protocol(d)'
<1> USE DEF TakeoverInv, Protocol
<1>1. /\ UNCHANGED <<uses, path, aside, written, aged, expired, seen, expect>>
      /\ pc' \in [Procs -> Labels]
      /\ \A q \in Procs : q # p => pc'[q] = pc[q]
      /\ \/ pc'[p] = pc[p]
         \/ pc[p] = "loop" /\ pc'[p] = "idle"
         \/ pc[p] = "held" /\ pc'[p] = "unlink"
         \/ pc[p] \in {"held", "unlink"} /\ pc'[p] = "idle"
  BY DEF Cancel, TimeOut, ReadOwn, UnlinkFails, Deadline, Goto, TypeOK
<1>2. Calm(d)' /\ Files(d)'
  BY <1>1, TokenFacts DEF Calm, Files, OnDisk, Waiting, Tok, TypeOK
<1>3. Untouched(d)' /\ Judged(d)'
  BY <1>1 DEF Untouched, Judged, OnDisk, Alive
<1>4. Reclaimers(d)' /\ Backed(d)'
  BY <1>1 DEF Reclaimers, Backed, Claims, Owning, Guarded, Parked
<1> QED
  BY <1>2, <1>3, <1>4

\* d is killed.
LEMMA DieStep ==
    ASSUME NEW d \in Procs, TwoSurvivors(d), TakeoverInv(d), TypeOK', NEW p \in Procs, Die(p)
    PROVE  Protocol(d)'
<1> USE DEF TakeoverInv, Protocol
<1>1. /\ UNCHANGED <<uses, path, aside, written, aged, expired, seen, expect>>
      /\ p = d /\ pc[d] # "created" /\ pc[d] # "dead" /\ pc'[d] = "dead"
      /\ \A q \in Procs : q # d => pc'[q] = pc[q]
  BY DEF Die, Goto, Alive, TypeOK, TwoSurvivors
<1>2. \A q \in Procs : pc[q] \notin {"reclaim", "aside"} /\ aside[q] = None
  BY <1>1 DEF Untouched, Calm, Alive
<1>3. Calm(d)' /\ Files(d)'
  BY <1>1, <1>2, TokenFacts DEF Calm, Files, OnDisk, Waiting, Tok, TypeOK
<1>4. Untouched(d)' /\ Judged(d)'
  BY <1>1, <1>2 DEF Untouched, Judged, OnDisk, Alive
<1>5. Reclaimers(d)' /\ Backed(d)'
  BY <1>1, <1>2 DEF Reclaimers, Backed, Claims, Owning, Guarded, Parked
<1> QED
  BY <1>3, <1>4, <1>5

\* A fresh call.
LEMMA StartStep ==
    ASSUME NEW d \in Procs, TwoSurvivors(d), TakeoverInv(d), TypeOK', NEW p \in Procs, Start(p)
    PROVE  Protocol(d)'
<1> USE DEF TakeoverInv, Protocol
<1>1. /\ UNCHANGED <<path, aside, written, aged, expired, seen, expect>>
      /\ pc[p] = "idle" /\ pc'[p] = "loop"
      /\ \A q \in Procs : q # p => pc'[q] = pc[q] /\ uses'[q] = uses[q]
      /\ uses[p] \in Nat /\ uses'[p] = uses[p] + 1
  BY DEF Start, Goto, TypeOK
<1>2. Tok(p)' = [owner |-> p, n |-> uses[p] + 1] /\ \A q \in Procs : q # p => Tok(q)' = Tok(q)
  BY <1>1 DEF Tok
<1>3. \A t \in Tokens : t.n <= uses[t.owner] => t.n <= uses'[t.owner] /\ t # Tok(p)'
  <2> SUFFICES ASSUME NEW t \in Tokens, t.n <= uses[t.owner]
               PROVE  t.n <= uses'[t.owner] /\ t # Tok(p)'
    OBVIOUS
  <2>1. t.owner \in Procs /\ t.n \in Nat /\ uses[t.owner] \in Nat
    BY TokenFacts DEF TypeOK
  <2>2. CASE t.owner = p
    BY <1>1, <1>2, <2>1, <2>2
  <2>3. CASE t.owner # p
    BY <1>1, <1>2, <2>1, <2>3
  <2> QED
    BY <2>2, <2>3
<1>4. written \subseteq Tokens /\ \A t : OnDisk(t) => t \in Tokens
  BY DEF OnDisk, TypeOK
<1>5. ~OnDisk(Tok(p)') /\ Tok(p)' \notin written
  BY <1>3, <1>4 DEF Files
<1>6. \A t : OnDisk(t)' <=> OnDisk(t)
  BY <1>1 DEF OnDisk
<1>7. Calm(d)'
  BY <1>1 DEF Calm
<1>8. Files(d)'
  <2>1. /\ \A t \in Tokens : OnDisk(t)' => t.n <= uses'[t.owner]
        /\ \A t \in Tokens : OnDisk(t)' /\ t \notin written'
                                => pc'[t.owner] = "created" /\ t = Tok(t.owner)'
        /\ \A t \in written' : t.n <= uses'[t.owner]
        /\ aged' \subseteq written'
    BY <1>1, <1>2, <1>3, <1>4, <1>6, TokenFacts DEF Files
  <2>2. \A q \in Procs : Waiting(q)' /\ pc'[q] # "created"
                            => ~OnDisk(Tok(q))' /\ Tok(q)' \notin written'
    BY <1>1, <1>2, <1>5, <1>6 DEF Files, Waiting, OnDisk
  <2> QED
    BY <2>1, <2>2 DEF Files
<1>9. Untouched(d)' /\ Judged(d)'
  BY <1>1, <1>6 DEF Untouched, Judged, Alive
<1>10. Reclaimers(d)' /\ Backed(d)'
  BY <1>1 DEF Reclaimers, Backed, Claims, Owning, Guarded, Parked
<1> QED
  BY <1>7, <1>8, <1>9, <1>10

\* O_EXCL creation: the path was free, so nobody has a claim.
LEMMA OpenStep ==
    ASSUME NEW d \in Procs, TwoSurvivors(d), TakeoverInv(d), TypeOK', NEW p \in Procs, Open(p)
    PROVE  Protocol(d)'
<1> USE DEF TakeoverInv, Protocol
<1>1. /\ UNCHANGED <<uses, aside, written, aged, expired, seen, expect>>
      /\ pc[p] = "loop" /\ \A q \in Procs : q # p => pc'[q] = pc[q]
      /\ \/ path = None /\ path' = Tok(p) /\ pc'[p] = "created"
         \/ path # None /\ path' = path /\ pc'[p] = "read"
  BY DEF Open, Goto, TypeOK
<1>2. \A q \in Procs : Tok(q)' = Tok(q)
  BY <1>1 DEF Tok
<1>3. /\ Tok(p) \in Tokens /\ Tok(p).owner = p /\ Tok(p).n = uses[p] /\ uses[p] \in Nat
      /\ Tok(p) \notin written /\ Tok(p) \notin aged
      /\ \A q \in Procs : Tok(q) = Tok(p) => q = p
  BY <1>1, TokInTokens DEF Tok, TypeOK, Files, Waiting
<1>4. CASE path # None
  <2>1. Calm(d)' /\ Files(d)'
    BY <1>1, <1>2, <1>4, TokenFacts DEF Calm, Files, OnDisk, Waiting
  <2>2. Untouched(d)' /\ Judged(d)'
    BY <1>1, <1>4 DEF Untouched, Judged, OnDisk, Alive
  <2>3. Reclaimers(d)' /\ Backed(d)'
    BY <1>1, <1>4 DEF Reclaimers, Backed, Claims, Owning, Guarded, Parked
  <2> QED
    BY <2>1, <2>2, <2>3
<1>5. CASE path = None
  <2>1. path' = Tok(p) /\ path' # None /\ pc'[p] = "created"
    BY <1>1, <1>3, <1>5, TokenFacts
  <2>2. \A t : OnDisk(t)' <=> OnDisk(t) \/ t = Tok(p)
    BY <1>1, <1>3, <1>5, <2>1, TokenFacts DEF OnDisk
  <2>3. Calm(d)'
    BY <1>1, <2>1 DEF Calm
  <2>4. Files(d)'
    BY <1>1, <1>2, <1>3, <2>1, <2>2, TokenFacts DEF Files, Waiting
  <2>5. Untouched(d)' /\ Judged(d)'
    BY <1>1, <1>3, <2>1, <2>2 DEF Untouched, Judged, Alive
  <2>6. \A q \in Procs : Parked(q, d) => aside[q].owner = p /\ q # p
    <3> SUFFICES ASSUME NEW q \in Procs, Parked(q, d)
                 PROVE  aside[q].owner = p /\ q # p
      OBVIOUS
    <3>1. q # p /\ q # d
      BY <1>1 DEF Parked, Judged
    <3>2. aside[q] \in Tokens /\ OnDisk(aside[q]) /\ aside[q] # Left(d)
      BY TokenFacts DEF Parked, TypeOK, OnDisk
    <3>3. aside[q].owner \in Procs /\ aside[q].owner # d /\ aside[q].owner # q
      BY <3>2, TokenFacts DEF Parked, Judged
    <3>4. pc[d] = "dead"
      BY DEF Untouched, Alive, Parked
    <3> QED
      BY <1>1, <3>1, <3>3, <3>4 DEF TwoSurvivors
  <2>7. \A q \in Procs : Claims(q) => FALSE
    <3> SUFFICES ASSUME NEW q \in Procs, Claims(q)
                 PROVE  FALSE
      OBVIOUS
    <3>1. PICK r \in Procs : Parked(r, d) /\ aside[r].owner = q
      BY <1>5 DEF Backed, Guarded
    <3>2. q = p
      BY <2>6, <3>1
    <3> QED
      BY <1>1, <3>2 DEF Claims, Owning
  <2>8. Reclaimers(d)'
    BY <1>1, <1>3, <2>1, <2>6, TokenFacts DEF Reclaimers, Untouched, Alive, Calm
  <2>9. Backed(d)'
    BY <1>1, <1>3, <2>1, <2>6, <2>7 DEF Backed, Claims, Owning, Guarded, Parked
  <2> QED
    BY <2>3, <2>4, <2>5, <2>8, <2>9
<1> QED
  BY <1>4, <1>5

\* The metadata is written.
LEMMA WriteStep ==
    ASSUME NEW d \in Procs, TwoSurvivors(d), TakeoverInv(d), TypeOK', NEW p \in Procs, Write(p)
    PROVE  Protocol(d)'
<1> USE DEF TakeoverInv, Protocol
<1>1. /\ UNCHANGED <<uses, path, aside, expired, seen, expect>>
      /\ written' = written \cup {Tok(p)} /\ aged' = aged \ {Tok(p)}
      /\ pc[p] = "created" /\ pc'[p] = "held"
      /\ \A q \in Procs : q # p => pc'[q] = pc[q]
  BY DEF Write, Goto, TypeOK
<1>2. /\ \A q \in Procs : Tok(q)' = Tok(q) /\ (Tok(q) = Tok(p) => q = p)
      /\ Tok(p).owner = p /\ Tok(p).n = uses[p] /\ uses[p] \in Nat
  BY <1>1 DEF Tok, TypeOK
<1>3. \A t : OnDisk(t)' <=> OnDisk(t)
  BY <1>1 DEF OnDisk
<1>4. Calm(d)'
  BY <1>1 DEF Calm
<1>5. \A t \in Tokens : OnDisk(t) /\ t \notin written /\ t # Tok(p) => t.owner # p
  BY TokenFacts DEF Files
<1>6. Files(d)'
  BY <1>1, <1>2, <1>3, <1>5, TokenFacts DEF Files, Waiting
<1>7. Untouched(d)' /\ Judged(d)'
  BY <1>1, <1>3 DEF Untouched, Judged, Alive
<1>8. Reclaimers(d)' /\ Backed(d)'
  BY <1>1 DEF Reclaimers, Backed, Claims, Owning, Guarded, Parked
<1> QED
  BY <1>4, <1>6, <1>7, <1>8

\* The file in the way is read; without metadata it is going to be looked at.
LEMMA ReadStep ==
    ASSUME NEW d \in Procs, TwoSurvivors(d), TakeoverInv(d), TypeOK', NEW p \in Procs, Read(p)
    PROVE  Protocol(d)'
<1> USE DEF TakeoverInv, Protocol
<1>1. /\ UNCHANGED <<uses, path, aside, written, aged, expired, expect>>
      /\ pc[p] = "read" /\ \A q \in Procs : q # p => pc'[q] = pc[q] /\ seen'[q] = seen[q]
      /\ \/ Readable(path) /\ pc'[p] = "judge" /\ seen'[p] = path
         \/ ~Readable(path) /\ pc'[p] = "stat"
  BY DEF Read, Goto, TypeOK
<1>2. ~Readable(path) => path \notin aged
  BY TokenFacts DEF Readable, Files, TypeOK
<1>3. \A t : OnDisk(t)' <=> OnDisk(t)
  BY <1>1 DEF OnDisk
<1>4. Calm(d)' /\ Files(d)'
  BY <1>1, <1>3, TokenFacts DEF Calm, Files, Waiting, Tok
<1>5. Untouched(d)'
  BY <1>1, <1>2 DEF Untouched, Alive
<1>6. Judged(d)'
  <2>1. path = Left(d) => p # d /\ \A t \in Tokens : OnDisk(t) => t.owner # p
    <3> SUFFICES ASSUME path = Left(d)
                 PROVE  p # d /\ \A t \in Tokens : OnDisk(t) => t.owner # p
      OBVIOUS
    <3>1. OnDisk(Left(d)) /\ \A t \in Tokens : OnDisk(t) => t = Left(d)
      BY TokenFacts DEF OnDisk, Reclaimers
    <3>2. ~OnDisk(Tok(p)) /\ uses[p] > 0 /\ uses[p] \in Nat /\ uses[p] <= MaxUses[p]
      BY <1>1 DEF Files, Waiting, TypeOK
    <3>3. p # d
      BY <3>1, <3>2 DEF Tok, Left, TwoSurvivors
    <3> QED
      BY <3>1, <3>3, TokenFacts
  <2> QED
    BY <1>1, <1>3, <2>1 DEF Judged
<1>7. Reclaimers(d)' /\ Backed(d)'
  BY <1>1, <1>2 DEF Reclaimers, Backed, Claims, Owning, Guarded, Parked
<1> QED
  BY <1>4, <1>5, <1>6, <1>7

\* A file that looks corrupt is the contender's own: taking it away is a claim
\* that the file itself backs.
LEMMA StatStep ==
    ASSUME NEW d \in Procs, TwoSurvivors(d), TakeoverInv(d), TypeOK', NEW p \in Procs, Stat(p)
    PROVE  Protocol(d)'
<1> USE DEF TakeoverInv, Protocol
<1>1. /\ UNCHANGED <<uses, path, aside, written, aged, expired, seen>>
      /\ pc[p] = "stat" /\ \A q \in Procs : q # p => pc'[q] = pc[q] /\ expect'[q] = expect[q]
      /\ \/ path # None /\ path \in aged /\ pc'[p] = "reclaim" /\ expect'[p] = None
         \/ pc'[p] = "loop" /\ expect' = expect
  BY DEF Stat, Goto, TypeOK
<1>2. None # Left(d)
  BY TokenFacts
<1>3. \A t : OnDisk(t)' <=> OnDisk(t)
  BY <1>1 DEF OnDisk
<1>4. \A q \in Procs : Parked(q, d)' <=> Parked(q, d)
  BY <1>1 DEF Parked
<1>5. Calm(d)' /\ Files(d)'
  BY <1>1, <1>3, TokenFacts DEF Calm, Files, Waiting, Tok
<1>6. Untouched(d)' /\ Judged(d)'
  BY <1>1, <1>2, <1>3 DEF Untouched, Judged, Alive
<1>7. Reclaimers(d)'
  BY <1>1 DEF Reclaimers
<1>8. \A q \in Procs : Claims(q)' => Claims(q) \/ (path # None /\ path.owner = q)
  <2> SUFFICES ASSUME NEW q \in Procs, Claims(q)', ~Claims(q)
               PROVE  path # None /\ path.owner = q
    OBVIOUS
  <2>1. q = p /\ pc'[p] = "reclaim"
    BY <1>1 DEF Claims, Owning
  <2> QED
    BY <1>1, <2>1 DEF Reclaimers
<1>9. Backed(d)'
  BY <1>1, <1>4, <1>8 DEF Backed, Guarded
<1> QED
  BY <1>5, <1>6, <1>7, <1>9

\* Only d's file is ever judged stale.
LEMMA JudgeStep ==
    ASSUME NEW d \in Procs, TwoSurvivors(d), TakeoverInv(d), TypeOK', NEW p \in Procs, Judge(p)
    PROVE  Protocol(d)'
<1> USE DEF TakeoverInv, Protocol
<1>1. /\ UNCHANGED <<uses, path, aside, written, aged, expired>>
      /\ pc[p] = "judge"
      /\ \A q \in Procs : q # p => /\ pc'[q] = pc[q] /\ seen'[q] = seen[q]
                                   /\ expect'[q] = expect[q]
      /\ \/ ~OwnerAlive(p, seen[p]) /\ pc'[p] = "reclaim" /\ expect'[p] = seen[p]
         \/ pc'[p] = "loop"
      /\ seen[p] \in Tokens
  BY DEF Judge, Goto, TypeOK
<1>2. ~OwnerAlive(p, seen[p]) => seen[p] = Left(d) /\ pc[d] = "dead"
  BY <1>1, TokenFacts DEF OwnerAlive, Alive, Calm
<1>3. None # Left(d)
  BY TokenFacts
<1>4. \A t : OnDisk(t)' <=> OnDisk(t)
  BY <1>1 DEF OnDisk
<1>5. \A q \in Procs : (Parked(q, d)' <=> Parked(q, d)) /\ (Claims(q)' => Claims(q))
  BY <1>1, <1>2, <1>3 DEF Parked, Claims, Owning
<1>6. Calm(d)' /\ Files(d)'
  BY <1>1, <1>4, TokenFacts DEF Calm, Files, Waiting, Tok
<1>7. Untouched(d)' /\ Judged(d)'
  BY <1>1, <1>2, <1>4 DEF Untouched, Judged, Alive
<1>8. Reclaimers(d)'
  BY <1>1, <1>2 DEF Reclaimers
<1>9. Backed(d)'
  BY <1>1, <1>5 DEF Backed, Guarded
<1> QED
  BY <1>6, <1>7, <1>8, <1>9

\* A file grows old; not while somebody looks at it or is writing it.
LEMMA AgeStep ==
    ASSUME NEW d \in Procs, TwoSurvivors(d), TakeoverInv(d), TypeOK', NEW t \in Tokens, Age(t)
    PROVE  Protocol(d)'
<1> USE DEF TakeoverInv, Protocol
<1>1. /\ UNCHANGED <<pc, uses, path, aside, written, expired, seen, expect>>
      /\ OnDisk(t) /\ aged' = aged \cup {t}
      /\ \A p \in Procs : pc[p] # "stat" /\ (pc[p] = "created" => t # Tok(p))
  BY DEF Age, TwoSurvivors, Present, OnDisk
<1>2. t \in written
  BY <1>1, TokenFacts DEF Files
<1>3. Calm(d)' /\ Files(d)'
  BY <1>1, <1>2 DEF Calm, Files, OnDisk, Waiting, Tok
<1>4. Untouched(d)' /\ Judged(d)'
  BY <1>1 DEF Untouched, Judged, OnDisk, Alive
<1>5. Reclaimers(d)' /\ Backed(d)'
  BY <1>1 DEF Reclaimers, Backed, Claims, Owning, Guarded, Parked
<1> QED
  BY <1>3, <1>4, <1>5

\* Two survivors never have a claim at once: the file at the path backs one
\* claim, and a parked file belongs to the other of them.
LEMMA OneClaim ==
    ASSUME NEW d \in Procs, TwoSurvivors(d), TakeoverInv(d),
           NEW p \in Procs, NEW q \in Procs, Claims(p), Claims(q)
    PROVE  p = q
<1> USE DEF TakeoverInv, Protocol
<1>1. \A r \in Procs : pc[r] = "aside" => ~Claims(r)
  BY DEF Claims, Owning
<1>2. \A r \in Procs : Parked(r, d) => r # d /\ pc[d] = "dead" /\ aside[r].owner # d
                                       /\ aside[r].owner \in Procs
  <2> SUFFICES ASSUME NEW r \in Procs, Parked(r, d)
               PROVE  r # d /\ pc[d] = "dead" /\ aside[r].owner # d /\ aside[r].owner \in Procs
    OBVIOUS
  <2>1. aside[r] \in Tokens /\ aside[r] # Left(d)
    BY DEF Parked, TypeOK
  <2> QED
    BY <2>1, TokenFacts DEF Parked, Judged, Untouched, Alive
<1>3. CASE \E r \in Procs : Parked(r, d)
  <2>1. PICK r \in Procs : Parked(r, d)
    BY <1>3
  <2>2. ~Claims(r) /\ ~Claims(d) /\ r # d
    BY <1>1, <1>2, <2>1 DEF Parked, Claims, Owning
  <2> QED
    BY <2>2 DEF TwoSurvivors
<1>4. CASE ~\E r \in Procs : Parked(r, d)
  BY <1>4 DEF Backed, Guarded
<1> QED
  BY <1>3, <1>4

\* Nobody else's file is at the path of a process that has a claim.
LEMMA OwnPath ==
    ASSUME NEW d \in Procs, TwoSurvivors(d), TakeoverInv(d), NEW p \in Procs, Claims(p)
    PROVE  path = None \/ path.owner = p
BY DEF TakeoverInv, Protocol, Backed, Guarded

\* os.replace away from the lock path.
LEMMA MoveAsideStep ==
    ASSUME NEW d \in Procs, TwoSurvivors(d), TakeoverInv(d), TypeOK', NEW p \in Procs, MoveAside(p)
    PROVE  Protocol(d)'
<1> USE DEF TakeoverInv, Protocol
<1>1. /\ UNCHANGED <<uses, written, aged, expired, seen>>
      /\ pc[p] = "reclaim" /\ aside[p] = None
      /\ \A q \in Procs : q # p => /\ pc'[q] = pc[q] /\ expect'[q] = expect[q]
                                   /\ aside'[q] = aside[q]
  BY DEF MoveAside, Goto, TypeOK, Calm
<1>2. pc[d] = "dead" /\ p # d
  BY <1>1 DEF Untouched, Alive
<1>3. CASE path = None
  <2>1. UNCHANGED <<path, aside>> /\ pc'[p] = "loop"
    BY <1>3 DEF MoveAside, Goto, TypeOK
  <2>2. Calm(d)' /\ Files(d)'
    BY <1>1, <2>1, TokenFacts DEF Calm, Files, OnDisk, Waiting, Tok
  <2>3. Untouched(d)' /\ Judged(d)'
    BY <1>1, <1>2, <2>1 DEF Untouched, Judged, OnDisk, Alive
  <2>4. Reclaimers(d)'
    BY <1>1, <2>1 DEF Reclaimers
  <2>5. \A q \in Procs : (Parked(q, d)' <=> Parked(q, d)) /\ (Claims(q)' => Claims(q))
    BY <1>1, <2>1 DEF Parked, Claims, Owning
  <2>6. Backed(d)'
    BY <2>1, <2>5 DEF Backed, Guarded
  <2> QED
    BY <2>2, <2>3, <2>4, <2>6
<1>4. CASE path # None
  <2>1. path' = None /\ aside'[p] = path /\ pc'[p] = "aside" /\ expect' = expect /\ path \in Tokens
    BY <1>4 DEF MoveAside, Goto, TypeOK
  <2>2. \A t : OnDisk(t)' <=> OnDisk(t)
    BY <1>1, <1>4, <2>1 DEF OnDisk
  <2>3. Calm(d)' /\ Files(d)'
    BY <1>1, <2>1, <2>2, TokenFacts DEF Calm, Files, Waiting, Tok
  <2>4. Untouched(d)' /\ Judged(d)'
    BY <1>1, <1>2, <2>1, <2>2 DEF Untouched, Judged, Alive
  <2>5. Reclaimers(d)'
    BY <1>1, <2>1, TokenFacts DEF Reclaimers, TypeOK
  <2>6. \A q \in Procs : Claims(q)' => Claims(q) /\ q # p
    BY <1>1, <2>1 DEF Claims, Owning
  <2>7. \A q \in Procs : q # p => (Parked(q, d)' <=> Parked(q, d))
    BY <1>1, <2>1 DEF Parked
  <2>8. \A q \in Procs : Claims(q)' => Guarded(q, d)'
    <3> SUFFICES ASSUME NEW q \in Procs, Claims(q)'
                 PROVE  Guarded(q, d)'
      OBVIOUS
    <3>1. Claims(q) /\ q # p /\ ~Claims(p) /\ Guarded(q, d) /\ path.owner = q
      BY <1>4, <2>6, OneClaim, OwnPath DEF Backed
    <3>2. expect[p] = Left(d)
      BY <1>1, <3>1 DEF Claims, Reclaimers
    <3>3. q # d
      BY <1>2, <3>1 DEF Claims, Owning
    <3>4. Parked(p, d)'
      BY <2>1, <3>1, <3>2, <3>3, TokenFacts DEF Parked, Left
    <3> QED
      BY <2>1, <3>1, <3>4 DEF Guarded
  <2>9. Backed(d)'
    BY <2>1, <2>8 DEF Backed
  <2> QED
    BY <2>3, <2>4, <2>5, <2>9
<1> QED
  BY <1>3, <1>4

\* The moved file is the one that was judged, or the contender's own: it goes.
LEMMA DiscardStep ==
    ASSUME NEW d \in Procs, TwoSurvivors(d), TakeoverInv(d), TypeOK', NEW p \in Procs, Discard(p)
    PROVE  Protocol(d)'
<1> USE DEF TakeoverInv, Protocol
<1>1. /\ UNCHANGED <<uses, path, written, aged, expired, seen>>
      /\ pc[p] = "aside" /\ pc'[p] = "loop" /\ aside'[p] = None
      /\ expect[p] = None \/ aside[p] = expect[p]
      /\ \A q \in Procs : q # p => /\ pc'[q] = pc[q] /\ expect'[q] = expect[q]
                                   /\ aside'[q] = aside[q]
  BY DEF Discard, TakenAsExpected, Goto, TypeOK
<1>2. pc[d] = "dead" /\ p # d
  BY <1>1 DEF Untouched, Alive
<1>3. \A t : OnDisk(t)' => OnDisk(t)
  BY <1>1 DEF OnDisk
<1>4. ~Parked(p, d)
  BY <1>1, TokenFacts DEF Parked
<1>5. \A q \in Procs : (Parked(q, d)' <=> Parked(q, d)) /\ (Claims(q)' => Claims(q))
  BY <1>1, <1>4 DEF Parked, Claims, Owning
<1>6. Calm(d)' /\ Files(d)'
  BY <1>1, <1>3, TokenFacts DEF Calm, Files, Waiting, Tok
<1>7. Untouched(d)' /\ Judged(d)'
  BY <1>1, <1>2, <1>3 DEF Untouched, Judged, Alive
<1>8. Reclaimers(d)'
  BY <1>1 DEF Reclaimers
<1>9. Backed(d)'
  BY <1>1, <1>4, <1>5 DEF Backed, Guarded, Parked
<1> QED
  BY <1>6, <1>7, <1>8, <1>9

\* The moved file is somebody else's: it goes back.
LEMMA RestoreStep ==
    ASSUME NEW d \in Procs, TwoSurvivors(d), TakeoverInv(d), TypeOK', NEW p \in Procs, Restore(p)
    PROVE  Protocol(d)'
<1> USE DEF TakeoverInv, Protocol
<1>1. /\ UNCHANGED <<uses, written, aged, expired, seen>>
      /\ pc[p] = "aside" /\ pc'[p] = "loop" /\ aside'[p] = None /\ path' = aside[p]
      /\ ~TakenAsExpected(p) /\ aside[p] \in Tokens
      /\ \A q \in Procs : q # p => /\ pc'[q] = pc[q] /\ expect'[q] = expect[q]
                                   /\ aside'[q] = aside[q]
  BY DEF Restore, Goto, TypeOK
<1>2. pc[d] = "dead" /\ p # d
  BY <1>1 DEF Untouched, Alive
<1>3. OnDisk(aside[p]) /\ \A t : OnDisk(t)' => OnDisk(t)
  BY <1>1, TokenFacts DEF OnDisk
<1>4. Parked(p, d)
  <2>1. expect[p] = Left(d)
    BY <1>1 DEF TakenAsExpected, Reclaimers
  <2>2. aside[p] = Left(d) => aside[p] \in written
    BY <1>1, <1>2, <1>3, TokenFacts DEF Files
  <2> QED
    BY <1>1, <2>1, <2>2 DEF Parked, TakenAsExpected
<1>5. aside[p].owner \in Procs \ {p, d}
  BY <1>1, <1>3, <1>4, TokenFacts DEF Parked, Judged
<1>6. \A q \in Procs : Claims(q)' => Claims(q)
  BY <1>1 DEF Claims, Owning
<1>7. \A q \in Procs : ~Parked(q, d)'
  <2> SUFFICES ASSUME NEW q \in Procs, Parked(q, d)'
               PROVE  FALSE
    OBVIOUS
  <2>1. q # p /\ Parked(q, d)
    BY <1>1 DEF Parked
  <2>2. aside[q] \in Tokens /\ OnDisk(aside[q])
    BY <2>1, TokenFacts DEF Parked, OnDisk, TypeOK
  <2>3. aside[q].owner \in Procs \ {q, d} /\ aside[q].owner # p /\ q # d
    BY <1>4, <2>1, <2>2, TokenFacts DEF Parked, Judged
  <2> QED
    BY <1>2, <2>1, <2>3 DEF TwoSurvivors
<1>8. Calm(d)' /\ Files(d)'
  BY <1>1, <1>3, TokenFacts DEF Calm, Files, Waiting, Tok
<1>9. Untouched(d)' /\ Judged(d)'
  BY <1>1, <1>2, <1>3 DEF Untouched, Judged, Alive
<1>10. Reclaimers(d)'
  <2>1. path' # Left(d)
    BY <1>1, <1>5, TokenFacts
  <2>2. \A q \in Procs : pc'[q] = "stat" => aside[p].owner = q
    BY <1>1, <1>2, <1>5 DEF TwoSurvivors
  <2> QED
    BY <1>1, <2>1, <2>2 DEF Reclaimers
<1>11. \A q \in Procs : Claims(q)' => path'.owner = q
  BY <1>1, <1>2, <1>5, <1>6 DEF TwoSurvivors, Claims, Owning
<1>12. Backed(d)'
  BY <1>1, <1>7, <1>11, TokenFacts DEF Backed, Guarded
<1> QED
  BY <1>8, <1>9, <1>10, <1>12

\* The owner takes its file away.
LEMMA UnlinkStep ==
    ASSUME NEW d \in Procs, TwoSurvivors(d), TakeoverInv(d), TypeOK', NEW p \in Procs, Unlink(p)
    PROVE  Protocol(d)'
<1> USE DEF TakeoverInv, Protocol
<1>1. /\ UNCHANGED <<uses, aside, written, aged, expired, seen, expect>>
      /\ pc[p] = "unlink" /\ pc'[p] = "idle" /\ path' = None
      /\ \A q \in Procs : q # p => pc'[q] = pc[q]
  BY DEF Unlink, Goto, TypeOK
<1>2. Claims(p) /\ \A q \in Procs : ~Claims(q)'
  BY <1>1, OneClaim DEF Claims, Owning
<1>3. \A t : OnDisk(t)' => OnDisk(t)
  BY <1>1 DEF OnDisk
<1>4. Calm(d)' /\ Files(d)'
  BY <1>1, <1>3, TokenFacts DEF Calm, Files, Waiting, Tok
<1>5. Untouched(d)' /\ Judged(d)'
  BY <1>1, <1>3, TokenFacts DEF Untouched, Judged, Alive, Files, TypeOK
<1>6. Reclaimers(d)'
  BY <1>1, TokenFacts DEF Reclaimers, Files, TypeOK
<1>7. Backed(d)'
  BY <1>1, <1>2 DEF Backed
<1> QED
  BY <1>4, <1>5, <1>6, <1>7

LEMMA TakeoverStep ==
    ASSUME NEW d \in Procs, TwoSurvivors(d), TakeoverInv(d), [Next]_vars
    PROVE  TakeoverInv(d)'
<1>1. TypeOK'
  BY TypeStep DEF TakeoverInv
<1>2. CASE UNCHANGED vars
  BY <1>1, <1>2
     DEF vars, TakeoverInv, Protocol, Calm, Files, Untouched, Judged, Reclaimers, Backed,
         OnDisk, Claims, Parked, Guarded, Owning, Waiting, Alive, Tok
<1>3. ASSUME NEW p \in Procs, Step(p)
      PROVE  Protocol(d)'
  <2>1. ~WriteFails(p) /\ ~RestoreFails(p)
    BY DEF TwoSurvivors, WriteFails, RestoreFails
  <2> QED
    BY <1>1, <1>3, <2>1, QuietStep, OpenStep, WriteStep, ReadStep, StatStep, JudgeStep,
       MoveAsideStep, DiscardStep, RestoreStep, UnlinkStep DEF Step
<1>4. ASSUME NEW p \in Procs, Start(p) \/ Cancel(p) \/ Die(p) \/ Deadline(p)
      PROVE  Protocol(d)'
  BY <1>1, <1>4, StartStep, QuietStep, DieStep
<1>5. ASSUME NEW t \in Tokens, Age(t) \/ Expire(t)
      PROVE  Protocol(d)'
  BY <1>1, <1>5, AgeStep DEF Expire, TwoSurvivors
<1> QED
  BY <1>1, <1>2, <1>3, <1>4, <1>5 DEF Next, Environment, TakeoverInv

LEMMA TakeoverInvariance ==
    ASSUME NEW d \in Procs, TwoSurvivors(d)
    PROVE  Spec => []TakeoverInv(d)
<1>1. Init => TakeoverInv(d)
  BY TakeoverInit
<1>2. TakeoverInv(d) /\ [Next]_vars => TakeoverInv(d)'
  BY TakeoverStep
<1> QED
  BY <1>1, <1>2, PTL DEF Spec

\* A process leaves the last step of its release only by that step.
LEMMA OnlyUnlink ==
    ASSUME TypeOK, Next, NEW p \in Procs, pc[p] = "unlink", pc'[p] = "idle"
    PROVE  Unlink(p) \/ UnlinkFails(p)
<1>1. ASSUME NEW q \in Procs, Step(q)
      PROVE  Unlink(p) \/ UnlinkFails(p)
  <2>1. q = p
    BY <1>1 DEF Step, Goto, TypeOK, TimeOut, Open, Write, WriteFails, Read, Stat, Judge,
       MoveAside, Discard, Restore, RestoreFails, ReadOwn, Unlink, UnlinkFails
  <2> QED
    BY <1>1, <2>1 DEF Step, TimeOut, Open, Write, WriteFails, Read, Stat, Judge,
       MoveAside, Discard, Restore, RestoreFails, ReadOwn
<1>2. ASSUME NEW q \in Procs, Start(q) \/ Cancel(q) \/ Die(q) \/ Deadline(q)
      PROVE  FALSE
  BY <1>2 DEF Start, Cancel, Die, Deadline, Goto, TypeOK
<1>3. ASSUME NEW t \in Tokens, Age(t) \/ Expire(t)
      PROVE  FALSE
  BY <1>3 DEF Age, Expire
<1> QED
  BY <1>1, <1>2, <1>3 DEF Next, Environment

\* MutualExclusion: while a dead owner's lock is taken over by at most two
\* processes, however often and on whatever hosts, one at most is inside.
THEOREM TakeoverMutualExclusion ==
    ASSUME NEW d \in Procs, TwoSurvivors(d)
    PROVE  Spec => []MutualExclusion
<1>1. TakeoverInv(d) => MutualExclusion
  BY OneClaim DEF MutualExclusion, Holding, Claims, Owning
<1> QED
  BY <1>1, TakeoverInvariance, PTL

\* FormerOwnerCannotRelease: nor does a release then hit the lock file of
\* another process, although the file it compared may have been moved since.
THEOREM TakeoverRelease ==
    ASSUME NEW d \in Procs, TwoSurvivors(d)
    PROVE  Spec => FormerOwnerCannotRelease
<1>1. TakeoverInv(d) /\ [Next]_vars
        => [\A p \in Procs :
              pc[p] = "unlink" /\ pc'[p] = "idle" /\ path' # path => path.owner = p]_vars
  <2> SUFFICES ASSUME TakeoverInv(d), Next, NEW p \in Procs,
                      pc[p] = "unlink", pc'[p] = "idle", path' # path
               PROVE  path.owner = p
    BY DEF TakeoverInv
  <2>1. path = None \/ path.owner = p
    BY OwnPath DEF Claims, Owning
  <2>2. Unlink(p) \/ UnlinkFails(p)
    BY OnlyUnlink DEF TakeoverInv
  <2>3. path # None
    BY <2>2 DEF Unlink, UnlinkFails
  <2> QED
    BY <2>1, <2>3
<1> QED
  BY <1>1, TakeoverInvariance, PTL DEF Spec, FormerOwnerCannotRelease

\* FormerOwnerCannotRelease without deaths and faults, for any number of
\* processes.
THEOREM OrderlyRelease == Orderly => (Spec => FormerOwnerCannotRelease)
<1> SUFFICES ASSUME Orderly
             PROVE  Spec => FormerOwnerCannotRelease
  OBVIOUS
<1>1. OrderlyInv => [\A p \in Procs :
        pc[p] = "unlink" /\ pc'[p] = "idle" /\ path' # path => path.owner = p]_vars
  BY TokOwner DEF OrderlyInv, PathIsOwner, Owning
<1> QED
  BY <1>1, OrderlyInvariance, PTL DEF FormerOwnerCannotRelease

-----------------------------------------------------------------------------
(* The lock file implements Mutex, where mutual exclusion holds *)

\* A step moves one process at most.
LEMMA OneMoves ==
    ASSUME TypeOK, [Next]_vars
    PROVE  pc' = pc \/ \E p \in Procs : \A q \in Procs : q # p => pc'[q] = pc[q]
<1>1. CASE UNCHANGED vars
  BY <1>1 DEF vars
<1>2. ASSUME NEW p \in Procs, Step(p)
      PROVE  \A q \in Procs : q # p => pc'[q] = pc[q]
  BY <1>2 DEF Step, Goto, TypeOK, TimeOut, Open, Write, WriteFails, Read, Stat, Judge,
       MoveAside, Discard, Restore, RestoreFails, ReadOwn, Unlink, UnlinkFails
<1>3. ASSUME NEW p \in Procs, Start(p) \/ Cancel(p) \/ Die(p) \/ Deadline(p)
      PROVE  \A q \in Procs : q # p => pc'[q] = pc[q]
  BY <1>3 DEF Start, Cancel, Die, Deadline, Goto, TypeOK
<1>4. ASSUME NEW t \in Tokens, Age(t) \/ Expire(t)
      PROVE  pc' = pc
  BY <1>4 DEF Age, Expire
<1> QED
  BY <1>1, <1>2, <1>3, <1>4 DEF Next, Environment

\* Where no two are inside, before a step and after it, the step is one of the
\* mutex or leaves it alone.
LEMMA MutexStep ==
    ASSUME TypeOK, MutualExclusion, MutualExclusion', [Next]_vars
    PROVE  [Lock!MutexNext]_({p \in Procs : Holding(p)})
<1> DEFINE h == {p \in Procs : Holding(p)}
<1>1. CASE pc' = pc
  BY <1>1 DEF Holding
<1>2. ASSUME NEW p \in Procs, \A q \in Procs : q # p => pc'[q] = pc[q]
      PROVE  [Lock!MutexNext]_h
  <2>1. \A q \in Procs : q # p => (q \in h' <=> q \in h)
    BY <1>2 DEF Holding
  <2>2. CASE p \in h <=> p \in h'
    <3>1. h' = h
      BY <2>1, <2>2
    <3> QED
      BY <3>1
  <2>3. CASE p \notin h /\ p \in h'
    <3>1. h' = {p}
      BY <2>3 DEF MutualExclusion
    <3>2. h = {}
      BY <2>1, <2>3, <3>1
    <3>3. Lock!Enter(p)
      BY <3>1, <3>2 DEF Lock!Enter
    <3> QED
      BY <3>3 DEF Lock!MutexNext
  <2>4. CASE p \in h /\ p \notin h'
    <3>1. h = {p}
      BY <2>4 DEF MutualExclusion
    <3>2. h' = {}
      BY <2>1, <2>4, <3>1
    <3>3. Lock!Leave(p)
      BY <3>1, <3>2 DEF Lock!Leave
    <3> QED
      BY <3>3 DEF Lock!MutexNext
  <2> QED
    BY <2>2, <2>3, <2>4
<1> QED
  BY <1>1, <1>2, OneMoves

LEMMA MutexFirst == Init => Lock!MutexInit
BY DEF Init, Holding, Lock!MutexInit

\* Without deaths and faults the lock file is a mutex that its users enter and
\* leave one at a time, however many they are.
THEOREM OrderlyRefinesMutex == Orderly => (Spec => Lock!MutexSpec)
<1> SUFFICES ASSUME Orderly
             PROVE  Spec => Lock!MutexSpec
  OBVIOUS
<1>1. TypeOK /\ MutualExclusion /\ MutualExclusion' /\ [Next]_vars
        => [Lock!MutexNext]_({p \in Procs : Holding(p)})
  BY MutexStep
<1> QED
  BY <1>1, MutexFirst, TypeCorrect, OrderlyMutualExclusion, PTL DEF Spec, Lock!MutexSpec

\* It is one, too, while two survivors at most take over the lock of a process
\* that died: nobody enters beside another, and only who is inside leaves.
THEOREM TakeoverRefinesMutex ==
    ASSUME NEW d \in Procs, TwoSurvivors(d)
    PROVE  Spec => Lock!MutexSpec
<1>1. TypeOK /\ MutualExclusion /\ MutualExclusion' /\ [Next]_vars
        => [Lock!MutexNext]_({p \in Procs : Holding(p)})
  BY MutexStep
<1> QED
  BY <1>1, MutexFirst, TypeCorrect, TakeoverMutualExclusion, PTL DEF Spec, Lock!MutexSpec

-----------------------------------------------------------------------------
(* What comparing the tokens is worth, for any number of processes: it does  *)
(* not keep two from being inside, but a file that was judged is thrown away *)
(* only when its owner is dead for good or its lease has run out.            *)

\* _atomic_reclaim puts the file it moved back, or its owner is gone.
ReclaimsOnlyDead ==
    [][\A p \in Procs :
         pc[p] = "aside" /\ expect[p] # None /\ aside'[p] = None
           => path' = aside[p] \/ ~OwnerAlive(p, aside[p])]_vars

\* Between its judgement and its comparison a reclaimer stays right.
JudgementsHold ==
    \A p \in Procs : pc[p] \in {"reclaim", "aside"} /\ expect[p] # None
                       => ~OwnerAlive(p, expect[p])

\* Neither the dead nor an expired lease come back.
LEMMA GoneForGood ==
    ASSUME TypeOK, [Next]_vars, NEW p \in Procs, NEW t \in Tokens, ~OwnerAlive(p, t)
    PROVE  ~OwnerAlive(p, t)'
<1>0. t.owner \in Procs
  BY TokenShape
<1>1. expired \subseteq expired'
  <2>1. ASSUME NEW q \in Procs, Step(q)
        PROVE  expired' = expired
    BY <2>1 DEF Step, TimeOut, Open, Write, WriteFails, Read, Stat, Judge, MoveAside, Discard,
         Restore, RestoreFails, ReadOwn, Unlink, UnlinkFails
  <2>2. ASSUME NEW q \in Procs, Start(q) \/ Cancel(q) \/ Die(q) \/ Deadline(q)
        PROVE  expired' = expired
    BY <2>2 DEF Start, Cancel, Die, Deadline
  <2>3. ASSUME NEW u \in Tokens, Age(u) \/ Expire(u)
        PROVE  expired \subseteq expired'
    BY <2>3 DEF Age, Expire
  <2>4. CASE UNCHANGED vars
    BY <2>4 DEF vars
  <2> QED
    BY <2>1, <2>2, <2>3, <2>4 DEF Next, Environment
<1>2. pc[t.owner] = "dead" => pc'[t.owner] = "dead"
  <2>1. ASSUME NEW q \in Procs, Step(q), pc[t.owner] = "dead"
        PROVE  pc'[t.owner] = "dead"
    BY <1>0, <2>1 DEF Step, Goto, TypeOK, TimeOut, Open, Write, WriteFails, Read, Stat, Judge,
         MoveAside, Discard, Restore, RestoreFails, ReadOwn, Unlink, UnlinkFails
  <2>2. ASSUME NEW q \in Procs, Start(q) \/ Cancel(q) \/ Die(q) \/ Deadline(q), pc[t.owner] = "dead"
        PROVE  pc'[t.owner] = "dead"
    BY <1>0, <2>2 DEF Start, Cancel, Die, Deadline, Goto, TypeOK
  <2>3. ASSUME NEW u \in Tokens, Age(u) \/ Expire(u)
        PROVE  pc' = pc
    BY <2>3 DEF Age, Expire
  <2>4. CASE UNCHANGED vars
    BY <2>4 DEF vars
  <2> QED
    BY <2>1, <2>2, <2>3, <2>4 DEF Next, Environment
<1> QED
  BY <1>1, <1>2 DEF OwnerAlive, Alive

LEMMA JudgementsStep == TypeOK /\ JudgementsHold /\ [Next]_vars => JudgementsHold'
<1> SUFFICES ASSUME TypeOK, JudgementsHold, [Next]_vars, NEW p \in Procs,
                    pc'[p] \in {"reclaim", "aside"}, expect'[p] # None
             PROVE  ~OwnerAlive(p, expect[p])'
  BY DEF JudgementsHold
\* It is judging, or it has.
<1>1. \/ pc[p] = "judge" /\ ~OwnerAlive(p, seen[p]) /\ expect'[p] = seen[p]
      \/ pc[p] \in {"reclaim", "aside"} /\ expect'[p] = expect[p]
  <2>1. CASE UNCHANGED vars
    BY <2>1 DEF vars
  <2>2. ASSUME NEW q \in Procs, q # p, Step(q)
        PROVE  pc'[p] = pc[p] /\ expect'[p] = expect[p]
    BY <2>2 DEF Step, Goto, TypeOK, TimeOut, Open, Write, WriteFails, Read, Stat, Judge,
         MoveAside, Discard, Restore, RestoreFails, ReadOwn, Unlink, UnlinkFails
  <2>3. CASE Judge(p)
    BY <2>3 DEF Judge, Goto, TypeOK
  <2>4. CASE MoveAside(p)
    BY <2>4 DEF MoveAside, Goto, TypeOK
  <2>5. CASE Stat(p)
    BY <2>5 DEF Stat, Goto, TypeOK
  <2>6. CASE TimeOut(p) \/ Open(p) \/ Write(p) \/ WriteFails(p) \/ Read(p)
    BY <2>6 DEF TimeOut, Open, Write, WriteFails, Read, Goto, TypeOK
  <2>7. CASE Discard(p) \/ Restore(p) \/ RestoreFails(p) \/ ReadOwn(p) \/ Unlink(p) \/ UnlinkFails(p)
    BY <2>7 DEF Discard, Restore, RestoreFails, ReadOwn, Unlink, UnlinkFails, Goto, TypeOK
  <2>8. ASSUME NEW q \in Procs, Start(q) \/ Cancel(q) \/ Die(q) \/ Deadline(q)
        PROVE  pc'[p] = pc[p] /\ expect'[p] = expect[p]
    BY <2>8 DEF Start, Cancel, Die, Deadline, Goto, TypeOK
  <2>9. ASSUME NEW u \in Tokens, Age(u) \/ Expire(u)
        PROVE  pc' = pc /\ expect' = expect
    BY <2>9 DEF Age, Expire
  <2> QED
    BY <2>1, <2>2, <2>3, <2>4, <2>5, <2>6, <2>7, <2>8, <2>9 DEF Next, Environment, Step
<1>2. PICK t \in Tokens : expect'[p] = t /\ ~OwnerAlive(p, t)
  BY <1>1 DEF JudgementsHold, TypeOK
<1>3. ~OwnerAlive(p, t)'
  BY <1>2, GoneForGood
<1> QED
  BY <1>2, <1>3 DEF OwnerAlive, Alive

\* _atomic_reclaim, with every fault but a restore that fails and however many
\* contenders: what it throws away on a judgement was judged rightly, although
\* it moved whatever lay at the path by then.
THEOREM ReclaimIsRight == ASSUME "restore" \notin Faults PROVE Spec => ReclaimsOnlyDead
<1>1. Init => JudgementsHold
  BY DEF Init, JudgementsHold
<1>2. TypeOK /\ JudgementsHold /\ [Next]_vars
        => [\A p \in Procs :
              pc[p] = "aside" /\ expect[p] # None /\ aside'[p] = None
                => path' = aside[p] \/ ~OwnerAlive(p, aside[p])]_vars
  <2> SUFFICES ASSUME TypeOK, JudgementsHold, Next, NEW p \in Procs,
                      pc[p] = "aside", expect[p] # None, aside'[p] = None
               PROVE  path' = aside[p] \/ ~OwnerAlive(p, aside[p])
    OBVIOUS
  <2>1. aside[p] # None
    BY DEF TypeOK
  <2>2. Discard(p) \/ Restore(p)
    <3>1. ASSUME NEW q \in Procs, q # p, Step(q)
          PROVE  aside'[p] = aside[p]
      BY <3>1 DEF Step, TypeOK, TimeOut, Open, Write, WriteFails, Read, Stat, Judge,
           MoveAside, Discard, Restore, RestoreFails, ReadOwn, Unlink, UnlinkFails
    <3>2. ASSUME NEW q \in Procs, Start(q) \/ Cancel(q) \/ Die(q) \/ Deadline(q)
          PROVE  aside' = aside
      BY <3>2 DEF Start, Cancel, Die, Deadline
    <3>3. ASSUME NEW u \in Tokens, Age(u) \/ Expire(u)
          PROVE  aside' = aside
      BY <3>3 DEF Age, Expire
    <3>4. Step(p)
      BY <2>1, <3>1, <3>2, <3>3 DEF Next, Environment
    <3> QED
      BY <3>4 DEF Step, TimeOut, Open, Write, WriteFails, Read, Stat, Judge, MoveAside,
           RestoreFails, ReadOwn, Unlink, UnlinkFails
  <2>3. CASE Restore(p)
    BY <2>3 DEF Restore
  <2>4. CASE Discard(p)
    BY <2>4 DEF Discard, TakenAsExpected, JudgementsHold
  <2> QED
    BY <2>2, <2>3, <2>4
<1>3. TypeOK /\ JudgementsHold /\ [Next]_vars => JudgementsHold'
  BY JudgementsStep
<1> QED
  BY <1>1, <1>2, <1>3, TypeCorrect, PTL DEF Spec, ReclaimsOnlyDead
=============================================================================
