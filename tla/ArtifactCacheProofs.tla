------------------------- MODULE ArtifactCacheProofs -------------------------
(***************************************************************************)
(* Proofs about ArtifactCache, for any number of processes, artifacts and  *)
(* operations and any limit.  Everything rests on who holds which lock     *)
(* (Secure): whoever works on an artifact holds its lock, whoever looks at *)
(* the whole cache holds the cache lock, and the oldest files that it has  *)
(* still to look at were there when it took the lock.  Locks are taken in  *)
(* an order (LocksOrdered), so nobody waits in a circle and leases are     *)
(* held to the end of a build.                                             *)
(***************************************************************************)
EXTENDS ArtifactCache, FiniteSetTheorems, WellFoundedInduction, TLAPS

USE CacheConstants

-----------------------------------------------------------------------------
(* Numbers and sequences *)

\* Well-foundedness of < and a set of numbers.
LEMMA LeastNatural == ASSUME NEW S \in SUBSET Nat, S # {} PROVE \E m \in S : \A x \in S : m <= x
<1> DEFINE R == {ss \in Nat \X Nat : ss[1] < ss[2]}
<1>1. IsWellFoundedOn(R, Nat)
  BY NatLessThanWellFounded DEF OpToRel
<1>2. PICK m \in S : \A x \in S : ~(<<x, m>> \in R)
  <2> HIDE DEF R
  <2> QED
    BY <1>1, WFMin
<1>3. ASSUME NEW x \in S PROVE m <= x
  <2>1. m \in Nat /\ x \in Nat
    OBVIOUS
  <2>2. x < m => <<x, m>> \in R
    BY <2>1
  <2> QED
    BY <1>2, <2>1, <2>2
<1> QED
  BY <1>2, <1>3

\* The element with the most elements below it.
LEMMA GreatestNatural ==
    ASSUME NEW S \in SUBSET Nat, S # {}, IsFiniteSet(S) PROVE \E m \in S : \A x \in S : m >= x
<1> DEFINE Below(x) == {y \in S : y <= x}
           rest(x) == Cardinality(S) - Cardinality(Below(x))
<1>1. \A x \in S : /\ IsFiniteSet(Below(x)) /\ Cardinality(Below(x)) \in Nat
                   /\ Cardinality(Below(x)) <= Cardinality(S)
  <2> TAKE x \in S
  <2>1. Below(x) \in SUBSET S
    OBVIOUS
  <2> HIDE DEF Below
  <2> QED
    BY <2>1, FS_Subset, FS_CardinalityType
<1>2. Cardinality(S) \in Nat /\ \A x \in S : rest(x) \in Nat
  <2>1. Cardinality(S) \in Nat
    BY FS_CardinalityType
  <2> HIDE DEF Below
  <2> QED
    BY <1>1, <2>1
<1>3. {rest(x) : x \in S} \in SUBSET Nat /\ {rest(x) : x \in S} # {}
  BY <1>1, <1>2
<1>4. PICK m \in S : \A x \in S : rest(m) <= rest(x)
  <2>1. PICK n \in {rest(x) : x \in S} : \A k \in {rest(x) : x \in S} : n <= k
    BY <1>3, LeastNatural
  <2> QED
    BY <2>1
<1>5. ASSUME NEW x \in S, ~(m >= x) PROVE FALSE
  <2>0. m \in Nat /\ x \in Nat /\ \A y \in S : y \in Nat
    OBVIOUS
  <2>1. m < x /\ \A y \in S : y <= m => y <= x
    BY <1>5, <2>0
  <2>2. x \in Below(x) /\ x \notin Below(m)
    BY <2>0, <2>1
  <2>3. Below(m) \subseteq Below(x)
    BY <2>1
  <2>4. Cardinality(Below(m)) <= Cardinality(Below(x)) /\ Cardinality(Below(m)) # Cardinality(Below(x))
    BY <1>1, <2>2, <2>3, FS_Subset
  <2> QED
    BY <1>1, <1>2, <1>4, <2>4
<1> QED
  BY <1>5

Once(s) == \A i, j \in 1..Len(s) : s[i] = s[j] => i = j

\* Removing an artifact from a sequence that has it at most once.
LEMMA WithoutLemma ==
    ASSUME NEW S, NEW s \in Seq(S), Once(s), NEW a
    PROVE  /\ Without(s, a) \in Seq(S)
           /\ Once(Without(s, a))
           /\ Entries(Without(s, a)) = Entries(s) \ {a}
           /\ Len(Without(s, a)) = IF a \in Entries(s) THEN Len(s) - 1 ELSE Len(s)
<1>1. CASE a \notin Entries(s)
  BY <1>1 DEF Without, Entries
<1>2. CASE a \in Entries(s)
  <2> DEFINE k == CHOOSE i \in 1..Len(s) : s[i] = a
             t == [i \in 1..(Len(s) - 1) |-> s[IF i < k THEN i ELSE i + 1]]
  <2>1. k \in 1..Len(s) /\ s[k] = a
    BY <1>2 DEF Entries
  <2>2. Without(s, a) = t
    BY <1>2 DEF Without
  <2> HIDE DEF k
  <2>3. Len(s) \in Nat \ {0} /\ \A i \in 1..Len(s) : s[i] \in S
    BY <2>1
  <2>4. t \in Seq(S) /\ Len(t) = Len(s) - 1
    BY <2>1, <2>3
  <2>5. \A i \in 1..Len(t) : t[i] = s[IF i < k THEN i ELSE i + 1]
    BY <2>4
  <2> HIDE DEF t
  <2>6. Once(t)
    BY <2>1, <2>3, <2>4, <2>5 DEF Once
  <2>7. Entries(t) \subseteq Entries(s) \ {a}
    BY <2>1, <2>3, <2>4, <2>5 DEF Once, Entries
  <2>8. ASSUME NEW b \in Entries(s) \ {a} PROVE b \in Entries(t)
    <3>1. PICK j \in 1..Len(s) : s[j] = b /\ j # k
      BY <2>1 DEF Entries
    <3>2. CASE j < k
      BY <2>1, <2>3, <2>4, <2>5, <3>1, <3>2 DEF Entries
    <3>3. CASE j > k
      <4>1. j - 1 \in 1..Len(t) /\ t[j - 1] = s[j]
        BY <2>1, <2>3, <2>4, <2>5, <3>1, <3>3
      <4> QED
        BY <3>1, <4>1 DEF Entries
    <3> QED
      BY <2>1, <3>1, <3>2, <3>3
  <2> QED
    BY <1>2, <2>2, <2>4, <2>6, <2>7, <2>8
<1> QED
  BY <1>1, <1>2

LEMMA AppendLemma ==
    ASSUME NEW S, NEW s \in Seq(S), Once(s), NEW a \in S, a \notin Entries(s)
    PROVE  /\ Append(s, a) \in Seq(S)
           /\ Once(Append(s, a))
           /\ Entries(Append(s, a)) = Entries(s) \cup {a}
           /\ Len(Append(s, a)) = Len(s) + 1
<1> DEFINE t == Append(s, a)
<1>1. /\ t \in Seq(S) /\ Len(t) = Len(s) + 1 /\ Len(s) \in Nat
      /\ \A i \in 1..Len(s) : t[i] = s[i]
      /\ t[Len(s) + 1] = a
  OBVIOUS
<1> HIDE DEF t
<1>2. Once(t)
  BY <1>1 DEF Once, Entries
<1>3. Entries(t) = Entries(s) \cup {a}
  <2>1. Entries(t) \subseteq Entries(s) \cup {a}
    BY <1>1 DEF Entries
  <2>2. Entries(s) \subseteq Entries(t)
    BY <1>1 DEF Entries
  <2>3. a \in Entries(t)
    BY <1>1 DEF Entries
  <2> QED
    BY <2>1, <2>2, <2>3
<1> QED
  BY <1>1, <1>2, <1>3 DEF t

LEMMA ConsLemma ==
    ASSUME NEW S, NEW s \in Seq(S), Once(s), NEW a \in S, a \notin Entries(s)
    PROVE  /\ <<a>> \o s \in Seq(S)
           /\ Once(<<a>> \o s)
           /\ Entries(<<a>> \o s) = Entries(s) \cup {a}
           /\ <<a>> \o s # <<>>
           /\ Head(<<a>> \o s) = a
<1> DEFINE t == <<a>> \o s
<1>1. /\ t \in Seq(S) /\ Len(t) = Len(s) + 1 /\ Len(s) \in Nat
      /\ t[1] = a
      /\ \A i \in 1..Len(s) : t[i + 1] = s[i]
  OBVIOUS
<1>2. t # <<>> /\ Head(t) = a
  BY <1>1
<1> HIDE DEF t
<1>3. \A i \in 1..Len(t) : i = 1 \/ (i - 1 \in 1..Len(s) /\ t[i] = s[i - 1])
  BY <1>1
<1>4. Once(t)
  <2>0. \A i \in 1..Len(s) : s[i] # a
    BY DEF Entries
  <2>1. \A i \in 2..Len(t) : t[i] # a
    BY <1>1, <1>3, <2>0
  <2>2. \A i, j \in 2..Len(t) : t[i] = t[j] => i = j
    BY <1>1, <1>3 DEF Once
  <2> QED
    BY <1>1, <2>1, <2>2 DEF Once
<1>5. Entries(t) = Entries(s) \cup {a}
  <2>1. Entries(t) \subseteq Entries(s) \cup {a}
    <3> SUFFICES ASSUME NEW i \in 1..Len(t) PROVE t[i] \in Entries(s) \cup {a}
      BY DEF Entries
    <3> QED
      BY <1>1, <1>3 DEF Entries
  <2>2. Entries(s) \subseteq Entries(t)
    BY <1>1 DEF Entries
  <2>3. a \in Entries(t)
    BY <1>1 DEF Entries
  <2> QED
    BY <2>1, <2>2, <2>3
<1> QED
  BY <1>1, <1>2, <1>4, <1>5 DEF t

LEMMA TailLemma ==
    ASSUME NEW S, NEW s \in Seq(S), Once(s), s # <<>>
    PROVE  /\ Tail(s) \in Seq(S)
           /\ Once(Tail(s))
           /\ Entries(Tail(s)) = Entries(s) \ {Head(s)}
           /\ Head(s) \in Entries(s) /\ Head(s) \in S
<1> DEFINE t == Tail(s)
<1>1. /\ t \in Seq(S) /\ Len(t) = Len(s) - 1 /\ Len(s) \in Nat \ {0}
      /\ Head(s) = s[1] /\ s[1] \in S
      /\ \A i \in 1..Len(t) : t[i] = s[i + 1]
  OBVIOUS
<1> HIDE DEF t
<1>2. Once(t)
  BY <1>1 DEF Once
<1>3. \A i \in 2..Len(s) : i - 1 \in 1..Len(t) /\ t[i - 1] = s[i]
  BY <1>1
<1>4. Entries(t) \subseteq Entries(s) \ {s[1]}
  BY <1>1 DEF Once, Entries
<1>5. Entries(s) \ {s[1]} \subseteq Entries(t)
  BY <1>1, <1>3 DEF Entries
<1>6. s[1] \in Entries(s)
  BY <1>1 DEF Entries
<1> QED
  BY <1>1, <1>2, <1>4, <1>5, <1>6 DEF t

-----------------------------------------------------------------------------
(* The invariant *)

Typed ==
    /\ pc \in [Procs -> Stages]
    /\ want \in [Procs -> SUBSET Artifacts]
    /\ todo \in [Procs -> SUBSET Artifacts]
    /\ art \in [Procs -> Artifacts \cup {None}]
    /\ queue \in [Procs -> Seq(Artifacts)]
    /\ total \in [Procs -> Int]
    /\ pruned \subseteq Procs
    /\ ops \in [Procs -> 0..MaxOps]
    /\ alive \subseteq Procs
    /\ owner \in [Artifacts -> Procs \cup {None}]
    /\ glock \in Procs \cup {None}
    /\ file \in [Artifacts -> {"absent", "good", "bad"}]
    /\ byAge \in Seq(Artifacts)
    /\ index \subseteq Artifacts

\* The files are listed by age, each of them once.
Listed == Once(byAge) /\ Entries(byAge) = {a \in Artifacts : file[a] # "absent"}

\* Where it works on the artifact it has locked, and on the whole cache.
AtArtifact(p) ==
    \/ pc[p] \in {"recheck", "download", "put", "index", "release"}
    \/ pc[p] \in {"prune", "unlink"} /\ ~Clearing(p)
AtCache(p) == pc[p] \in {"index", "list", "prune", "unlink"}

Secure(p) ==
    /\ AtArtifact(p) => art[p] \in Artifacts /\ owner[art[p]] = p
    /\ AtCache(p) => glock = p
    /\ pc[p] \in {"miss", "verify"} => art[p] \in Artifacts
    /\ pc[p] \in {"fetch", "miss", "recheck", "download", "put", "index", "release"} => ~Clearing(p)
    /\ pc[p] \in {"clear", "list"} => Clearing(p)

\* What it has still to look at and, while it prunes, its count of the bytes,
\* which is never too high.
Sighted(p) ==
    pc[p] \in {"prune", "unlink"} =>
        /\ Once(queue[p])
        /\ ~Clearing(p) => total[p] <= Len(byAge)
        /\ pc[p] = "unlink" => queue[p] # <<>> /\ (~Clearing(p) => total[p] > MaxFiles)

CacheInv ==
    /\ Typed
    /\ Listed
    /\ \A p \in alive : Secure(p) /\ Sighted(p)
    /\ NoRedundantDownload

LEMMA InvTypes == CacheInv => TypeOK
<1> SUFFICES ASSUME CacheInv PROVE TypeOK
  OBVIOUS
<1>1. \A p \in alive : pc[p] \in {"index", "list", "prune", "unlink"} => glock = p
  BY DEF CacheInv, Secure, AtCache
<1> QED
  BY <1>1 DEF CacheInv, Typed, Listed, TypeOK

LEMMA InitCache == Init => CacheInv
<1> SUFFICES ASSUME Init PROVE CacheInv
  OBVIOUS
<1>1. Typed
  BY DEF Init, Typed, Stages
<1>2. Len(byAge) = 0 /\ Listed
  BY DEF Init, Listed, Once, Entries
<1>3. \A p \in alive : Secure(p) /\ Sighted(p)
  BY DEF Init, Secure, AtArtifact, AtCache, Sighted
<1>4. NoRedundantDownload
  BY DEF Init, NoRedundantDownload
<1> QED
  BY <1>1, <1>2, <1>3, <1>4 DEF CacheInv

-----------------------------------------------------------------------------
(* Types *)

\* The oldest and the newest of some artifacts are among them.
LEMMA ChosenArtifact ==
    ASSUME NEW S \in SUBSET Artifacts, S # {}
    PROVE  Oldest(S) \in S /\ Newest(S) \in S
<1>1. S \in SUBSET Nat /\ IsFiniteSet(S)
  BY FS_Subset
<1>2. \E a \in S : \A b \in S : a <= b
  BY <1>1, LeastNatural
<1>3. \E a \in S : \A b \in S : a >= b
  BY <1>1, GreatestNatural
<1> QED
  BY <1>2, <1>3 DEF Oldest, Newest

USE DEF local, Goto

LEMMA FetchTyped ==
    ASSUME Typed, NEW p \in Procs,
           \/ FetchNext(p) \/ LockArtifact(p) \/ Recheck(p) \/ LockCache(p) \/ Release(p)
           \/ Fetched(p) \/ Verify(p) \/ Build(p) \/ GiveUp(p) \/ IndexFails(p)
           \/ UnlinkFails(p) \/ PruneFails(p)
    PROVE  Typed'
<1> USE DEF Typed, Stages
<1>1. CASE FetchNext(p)
  <2>1. PICK a \in todo[p] :
           \/ todo' = [todo EXCEPT ![p] = @ \ {a}] /\ UNCHANGED <<pc, art>>
           \/ /\ art' = [art EXCEPT ![p] = a]
              /\ pc' = [pc EXCEPT ![p] = "miss"]
              /\ UNCHANGED todo
    BY <1>1 DEF FetchNext
  <2>2. a \in Artifacts
    BY <2>1
  <2>a. todo[p] \ {a} \in SUBSET Artifacts
    OBVIOUS
  <2>b. pc' \in [Procs -> Stages]
    BY <2>1
  <2>c. todo' \in [Procs -> SUBSET Artifacts]
    BY <2>1, <2>a
  <2>4. art' \in [Procs -> Artifacts \cup {None}]
    <3>1. art' = art \/ art' = [art EXCEPT ![p] = a]
      BY <2>1
    <3> QED
      BY <2>2, <3>1
  <2> HIDE DEF Stages
  <2> QED
    BY <1>1, <2>b, <2>c, <2>4 DEF FetchNext
<1>2. CASE LockArtifact(p)
  BY <1>2 DEF LockArtifact
<1>3. CASE Recheck(p)
  BY <1>3 DEF Recheck
<1>4. CASE LockCache(p)
  BY <1>4 DEF LockCache
<1>5. CASE Release(p)
  BY <1>5 DEF Release
<1>6. CASE Fetched(p)
  <2>1. pc' \in [Procs -> Stages]
    BY <1>6 DEF Fetched
  <2>2. todo' \in [Procs -> SUBSET Artifacts]
    BY <1>6 DEF Fetched
  <2> HIDE DEF Stages
  <2> QED
    BY <1>6, <2>1, <2>2 DEF Fetched
<1>7. CASE Verify(p)
  <2>1. todo[p] \ {art[p]} \in SUBSET Artifacts
    OBVIOUS
  <2>2. pc' \in [Procs -> Stages]
    BY <1>7 DEF Verify
  <2>3. todo' \in [Procs -> SUBSET Artifacts]
    BY <1>7, <2>1 DEF Verify
  <2> HIDE DEF Stages
  <2> QED
    BY <1>7, <2>2, <2>3 DEF Verify
<1>8. CASE Build(p)
  BY <1>8 DEF Build
<1>9. CASE GiveUp(p)
  BY <1>9 DEF GiveUp
<1>10. CASE IndexFails(p)
  BY <1>10 DEF IndexFails
<1>11. CASE UnlinkFails(p) \/ PruneFails(p)
  <2>1. pruned' \subseteq Procs /\ pc' \in [Procs -> Stages]
    BY <1>11 DEF UnlinkFails, PruneFails
  <2> HIDE DEF Stages
  <2> QED
    BY <1>11, <2>1 DEF UnlinkFails, PruneFails
<1> QED
  BY <1>1, <1>2, <1>3, <1>4, <1>5, <1>6, <1>7, <1>8, <1>9, <1>10, <1>11

LEMMA StartTyped == ASSUME Typed, NEW p \in Procs, StartBuild(p) \/ StartClear(p) PROVE Typed'
<1>1. PICK S \in SUBSET Artifacts, l \in {"fetch", "clear"} : Start(p, S, l)
  BY DEF StartBuild, StartClear
<1>2. ops[p] + 1 \in 0..MaxOps
  BY <1>1 DEF Start, Typed
<1>3. ops' \in [Procs -> 0..MaxOps]
  BY <1>1, <1>2 DEF Start, Typed
<1>4. pc' \in [Procs -> Stages]
  BY <1>1 DEF Start, Typed, Stages
<1> QED
  BY <1>1, <1>3, <1>4 DEF Start, Typed

LEMMA DieTyped == ASSUME Typed, NEW p \in Procs, Die(p) PROVE Typed'
<1> USE DEF Typed
<1>1. queue' \in [Procs -> Seq(Artifacts)]
  <2>1. <<>> \in Seq(Artifacts) /\ queue' = [queue EXCEPT ![p] = <<>>]
    BY DEF Die
  <2> QED
    BY <2>1
<1>2. want' \in [Procs -> SUBSET Artifacts] /\ todo' \in [Procs -> SUBSET Artifacts]
  BY DEF Die
<1>3. art' \in [Procs -> Artifacts \cup {None}] /\ total' \in [Procs -> Int]
  BY DEF Die
<1> QED
  BY <1>1, <1>2, <1>3 DEF Die

LEMMA LeaseTyped == ASSUME Typed, NEW p \in Procs, Lease(p) PROVE Typed'
<1>1. Oldest(todo[p]) \in Artifacts
  BY ChosenArtifact DEF Lease, Typed
<1> QED
  BY <1>1 DEF Lease, Typed, Stages

LEMMA CloseTyped == ASSUME Typed, NEW p \in Procs, Close(p) PROVE Typed'
<1> USE DEF Typed
<1>1. CASE glock = p
  BY <1>1 DEF Close
<1>2. CASE glock # p /\ Held(p) # {}
  BY <1>2 DEF Close
<1>3. CASE glock # p /\ Held(p) = {}
  <2>1. pc' \in [Procs -> Stages]
    BY <1>3 DEF Close, Stages
  <2>2. want' \in [Procs -> SUBSET Artifacts] /\ todo' \in [Procs -> SUBSET Artifacts]
    BY <1>3 DEF Close
  <2>3. art' \in [Procs -> Artifacts \cup {None}]
    BY <1>3 DEF Close
  <2>4. queue' \in [Procs -> Seq(Artifacts)]
    <3>1. <<>> \in Seq(Artifacts) /\ queue' = [queue EXCEPT ![p] = <<>>]
      BY <1>3 DEF Close
    <3> QED
      BY <3>1
  <2>5. total' \in [Procs -> Int]
    BY <1>3 DEF Close
  <2> QED
    BY <1>3, <2>1, <2>2, <2>3, <2>4, <2>5 DEF Close
<1> QED
  BY <1>1, <1>2, <1>3

-----------------------------------------------------------------------------
(* Files and queues *)

LEMMA PublishFiles ==
    ASSUME Typed, Listed, NEW p \in Procs, art[p] \in Artifacts, Publish(p)
    PROVE  Typed' /\ Listed' /\ Len(byAge) <= Len(byAge')
<1> DEFINE a == art[p]
           rest == Without(byAge, a)
<1>1. byAge \in Seq(Artifacts) /\ Once(byAge) /\ Len(byAge) \in Nat
  BY DEF Typed, Listed
<1>2. /\ rest \in Seq(Artifacts) /\ Once(rest) /\ Entries(rest) = Entries(byAge) \ {a}
      /\ Len(rest) \in {Len(byAge), Len(byAge) - 1}
  BY <1>1, WithoutLemma
<1> HIDE DEF rest
<1>3. byAge' = Append(rest, a)
  BY DEF Publish, rest
<1>4. /\ byAge' \in Seq(Artifacts) /\ Once(byAge') /\ Entries(byAge') = Entries(byAge) \cup {a}
      /\ Len(byAge') = Len(rest) + 1
  BY <1>2, <1>3, AppendLemma
<1>5. Len(byAge) <= Len(byAge')
  BY <1>1, <1>2, <1>4
<1>6. /\ file' = [file EXCEPT ![a] = "good"]
      /\ file' \in [Artifacts -> {"absent", "good", "bad"}]
      /\ pc' \in [Procs -> Stages]
  BY DEF Publish, Typed, Stages
<1>7. Typed'
  BY <1>4, <1>6 DEF Publish, Typed
<1>8. {b \in Artifacts : file'[b] # "absent"} = {b \in Artifacts : file[b] # "absent"} \cup {a}
  BY <1>6 DEF Typed
<1>9. Entries(byAge') = {b \in Artifacts : file'[b] # "absent"}
  BY <1>4, <1>8 DEF Listed
<1> QED
  BY <1>4, <1>5, <1>7, <1>9 DEF Listed

LEMMA UnlinkFiles ==
    ASSUME Typed, Listed, NEW p \in Procs, pc[p] = "unlink", Sighted(p), Unlink(p)
    PROVE  /\ Typed'
           /\ Listed'
           /\ Len(byAge') \in {Len(byAge), Len(byAge) - 1}
           /\ Once(queue'[p])
           /\ Entries(queue'[p]) = Entries(queue[p]) \ {Head(queue[p])}
           /\ file' = [file EXCEPT ![Head(queue[p])] = "absent"]
           /\ Head(queue[p]) \in Entries(queue[p]) /\ Head(queue[p]) \in Artifacts
<1> DEFINE a == Head(queue[p])
<1>1. byAge \in Seq(Artifacts) /\ Once(byAge) /\ Len(byAge) \in Nat
  BY DEF Typed, Listed
<1>2. queue[p] \in Seq(Artifacts) /\ Once(queue[p]) /\ queue[p] # <<>>
  BY DEF Typed, Sighted
<1>3. /\ Tail(queue[p]) \in Seq(Artifacts) /\ Once(Tail(queue[p]))
      /\ Entries(Tail(queue[p])) = Entries(queue[p]) \ {a}
      /\ a \in Entries(queue[p]) /\ a \in Artifacts
  BY <1>2, TailLemma
<1> HIDE DEF a
<1>4. /\ byAge' = Without(byAge, a)
      /\ file' = [file EXCEPT ![a] = "absent"]
      /\ queue' = [queue EXCEPT ![p] = Tail(@)]
  BY DEF Unlink, a
<1>5. /\ byAge' \in Seq(Artifacts) /\ Once(byAge') /\ Entries(byAge') = Entries(byAge) \ {a}
      /\ Len(byAge') \in {Len(byAge), Len(byAge) - 1}
  BY <1>1, <1>4, WithoutLemma
<1>6. queue' \in [Procs -> Seq(Artifacts)] /\ queue'[p] = Tail(queue[p])
  BY <1>3, <1>4 DEF Typed
<1>7. file' \in [Artifacts -> {"absent", "good", "bad"}]
  BY <1>4 DEF Typed
<1>8. pc' \in [Procs -> Stages] /\ total' \in [Procs -> Int]
  BY DEF Unlink, Typed, Stages
<1>9. Typed'
  BY <1>5, <1>6, <1>7, <1>8 DEF Unlink, Typed
<1>10. {b \in Artifacts : file'[b] # "absent"} = {b \in Artifacts : file[b] # "absent"} \ {a}
  BY <1>3, <1>4 DEF Typed
<1>11. Listed'
  BY <1>5, <1>10 DEF Listed
<1> QED
  BY <1>3, <1>4, <1>5, <1>6, <1>9, <1>11 DEF a

\* A candidate is in the queue, and looking at it keeps the rest.
LEMMA InspectQueue ==
    ASSUME Typed, NEW p \in Procs, Sighted(p), Inspect(p)
    PROVE  /\ Typed'
           /\ Once(queue'[p])
           /\ Entries(queue'[p]) \subseteq Entries(queue[p])
           /\ pc'[p] = "unlink" =>
                /\ queue'[p] # <<>>
                /\ Head(queue'[p]) \in Artifacts
                /\ ~Leased(Head(queue'[p]))
                /\ ~Clearing(p) => total[p] > MaxFiles
<1>1. queue[p] \in Seq(Artifacts) /\ Once(queue[p]) /\ pc[p] = "prune"
  BY DEF Typed, Sighted, Inspect
<1>2. PICK a \in Candidates(p) :
         \/ Leased(a) /\ queue' = [queue EXCEPT ![p] = Without(@, a)] /\ UNCHANGED pc
         \/ /\ ~Leased(a)
            /\ queue' = [queue EXCEPT ![p] = <<a>> \o Without(@, a)]
            /\ pc' = [pc EXCEPT ![p] = "unlink"]
  BY DEF Inspect
<1>3. a \in Entries(queue[p]) /\ a \in Artifacts /\ (~Clearing(p) => total[p] > MaxFiles)
  <2>1. CASE Clearing(p)
    BY <1>1, <1>2, <2>1 DEF Candidates, Entries
  <2>2. CASE ~Clearing(p)
    <3>1. queue[p] # <<>> /\ ~(total[p] <= MaxFiles) /\ a = Head(queue[p])
      BY <1>2, <2>2 DEF Candidates
    <3>2. total[p] > MaxFiles
      BY <3>1 DEF Typed
    <3> QED
      BY <1>1, <3>1, <3>2, TailLemma
  <2> QED
    BY <2>1, <2>2
<1> DEFINE rest == Without(queue[p], a)
<1>4. rest \in Seq(Artifacts) /\ Once(rest) /\ Entries(rest) = Entries(queue[p]) \ {a}
  BY <1>1, WithoutLemma
<1> HIDE DEF rest
<1>5. /\ <<a>> \o rest \in Seq(Artifacts) /\ Once(<<a>> \o rest)
      /\ Entries(<<a>> \o rest) = Entries(queue[p])
      /\ <<a>> \o rest # <<>> /\ Head(<<a>> \o rest) = a
  BY <1>3, <1>4, ConsLemma
<1>6. \/ queue' = [queue EXCEPT ![p] = rest] /\ UNCHANGED pc
      \/ /\ queue' = [queue EXCEPT ![p] = <<a>> \o rest]
         /\ pc' = [pc EXCEPT ![p] = "unlink"]
         /\ ~Leased(a)
  BY <1>2 DEF rest
<1>7. queue' \in [Procs -> Seq(Artifacts)]
  <2>1. queue \in [Procs -> Seq(Artifacts)]
    BY DEF Typed
  <2>2. queue' = [queue EXCEPT ![p] = rest] \/ queue' = [queue EXCEPT ![p] = <<a>> \o rest]
    BY <1>6
  <2> QED
    BY <1>4, <1>5, <2>1, <2>2
<1>8. Typed'
  <2>1. pc' \in [Procs -> Stages]
    BY <1>6 DEF Typed, Stages
  <2> QED
    BY <1>7, <2>1 DEF Inspect, Typed
<1>9. \/ queue'[p] = rest /\ pc'[p] # "unlink"
      \/ queue'[p] = <<a>> \o rest /\ ~Leased(a)
  BY <1>1, <1>6 DEF Typed
<1> QED
  BY <1>3, <1>4, <1>5, <1>8, <1>9

LEMMA PruneTyped ==
    ASSUME Typed, NEW p \in Procs,
           \/ Index(p) /\ art[p] \in Artifacts
           \/ ListFiles(p)
           \/ PruneEnd(p)
    PROVE  Typed'
<1>1. byAge \in Seq(Artifacts) /\ Len(byAge) \in Int /\ <<>> \in Seq(Artifacts)
  BY DEF Typed
<1>2. pc' \in [Procs -> Stages]
  BY DEF Index, ListFiles, PruneEnd, Typed, Stages
<1>3. queue' \in [Procs -> Seq(Artifacts)]
  <2>1. queue \in [Procs -> Seq(Artifacts)]
    BY DEF Typed
  <2>2. queue' = [queue EXCEPT ![p] = byAge] \/ queue' = [queue EXCEPT ![p] = <<>>]
    BY DEF Index, ListFiles, PruneEnd
  <2> QED
    BY <1>1, <2>1, <2>2
<1>4. total' \in [Procs -> Int]
  BY <1>1 DEF Index, ListFiles, PruneEnd, Typed
<1>5. index' \subseteq Artifacts
  <2>1. index \subseteq Artifacts
    BY DEF Typed
  <2>2. \/ index' = index \cup {art[p]} /\ art[p] \in Artifacts
        \/ index' \subseteq index
    BY Zenon DEF Index, ListFiles, PruneEnd
  <2> QED
    BY <2>1, <2>2
<1> QED
  BY <1>2, <1>3, <1>4, <1>5 DEF Index, ListFiles, PruneEnd, Typed

LEMMA CorruptFiles == ASSUME Typed, Listed, NEW a \in Artifacts, Corrupt(a) PROVE Typed' /\ Listed'
<1>1. file' = [file EXCEPT ![a] = "bad"] /\ file[a] = "good" /\ UNCHANGED byAge
  BY DEF Corrupt
<1>2. Typed'
  BY <1>1 DEF Corrupt, Typed
<1>3. {b \in Artifacts : file'[b] # "absent"} = {b \in Artifacts : file[b] # "absent"}
  BY <1>1 DEF Typed
<1> QED
  BY <1>1, <1>2, <1>3 DEF Listed

-----------------------------------------------------------------------------
(* What a step of one process leaves to the others *)

Step(p) == Continue(p) \/ StartBuild(p) \/ StartClear(p) \/ GiveUp(p) \/ Die(p)

LEMMA OthersLocal ==
    ASSUME Typed, NEW p \in Procs, NEW q \in Procs, q # p, Step(p)
    PROVE  /\ pc'[q] = pc[q]
           /\ want'[q] = want[q]
           /\ todo'[q] = todo[q]
           /\ art'[q] = art[q]
           /\ queue'[q] = queue[q]
           /\ total'[q] = total[q]
<1> USE DEF Typed
<1>1. CASE FetchNext(p)
  BY <1>1 DEF FetchNext
<1>2. CASE LockArtifact(p) \/ Recheck(p) \/ Publish(p) \/ LockCache(p)
  BY <1>2 DEF LockArtifact, Recheck, Publish, LockCache
<1>3. CASE Index(p) \/ IndexFails(p) \/ Release(p) \/ ListFiles(p)
  BY <1>3 DEF Index, IndexFails, Release, ListFiles
<1>4. CASE Inspect(p)
  BY <1>4 DEF Inspect
<1>5. CASE Unlink(p)
  BY <1>5 DEF Unlink
<1>6. CASE PruneEnd(p) \/ UnlinkFails(p) \/ PruneFails(p)
  BY <1>6 DEF PruneEnd, UnlinkFails, PruneFails
<1>7. CASE Fetched(p) \/ Lease(p) \/ Build(p)
  BY <1>7 DEF Fetched, Lease, Build
<1>8. CASE Verify(p)
  BY <1>8 DEF Verify
<1>9. CASE Close(p)
  BY <1>9 DEF Close
<1>10. CASE StartBuild(p) \/ StartClear(p)
  BY <1>10 DEF StartBuild, StartClear, Start
<1>11. CASE GiveUp(p) \/ Die(p)
  BY <1>11 DEF GiveUp, Die
<1> QED
  BY <1>1, <1>2, <1>3, <1>4, <1>5, <1>6, <1>7, <1>8, <1>9, <1>10, <1>11 DEF Step, Continue

LEMMA AliveShrinks == ASSUME NEW p, Step(p) PROVE alive' \subseteq alive
<1>1. CASE FetchNext(p) \/ LockArtifact(p) \/ Recheck(p) \/ Publish(p) \/ LockCache(p) \/ Index(p)
           \/ IndexFails(p) \/ Release(p) \/ ListFiles(p) \/ Inspect(p) \/ Unlink(p)
  BY <1>1 DEF FetchNext, LockArtifact, Recheck, Publish, LockCache, Index, IndexFails, Release,
              ListFiles, Inspect, Unlink
<1>2. CASE PruneEnd(p) \/ UnlinkFails(p) \/ PruneFails(p) \/ Fetched(p) \/ Lease(p) \/ Verify(p)
           \/ Build(p)
           \/ Close(p) \/ GiveUp(p) \/ Die(p)
  BY <1>2 DEF PruneEnd, UnlinkFails, PruneFails, Fetched, Lease, Verify, Build, Close, GiveUp, Die
<1>3. CASE StartBuild(p) \/ StartClear(p)
  BY <1>3 DEF StartBuild, StartClear, Start
<1> QED
  BY <1>1, <1>2, <1>3 DEF Step, Continue

\* Nobody takes or frees an artifact's lock that another live process holds.
LEMMA OwnerKept ==
    ASSUME Typed, NEW p \in alive, Secure(p), Step(p),
           NEW q \in alive, q # p, NEW a \in Artifacts, owner[a] = q
    PROVE  owner'[a] = q
<1> USE DEF Typed
<1>0. p \in Procs /\ q \in Procs /\ q # None
  OBVIOUS
<1>1. CASE LockArtifact(p)
  BY <1>0, <1>1 DEF LockArtifact, Free
<1>2. CASE Release(p)
  BY <1>0, <1>2 DEF Release, Secure, AtArtifact
<1>3. CASE Lease(p)
  BY <1>0, <1>3 DEF Lease, Free
<1>4. CASE Close(p)
  <2>1. Held(p) # {} => Newest(Held(p)) \in Held(p)
    <3>1. Held(p) \in SUBSET Artifacts
      BY DEF Held
    <3> QED
      BY <3>1, ChosenArtifact
  <2> QED
    BY <1>0, <1>4, <2>1 DEF Close, Held
<1>5. CASE FetchNext(p) \/ Recheck(p) \/ Publish(p) \/ LockCache(p) \/ Index(p) \/ IndexFails(p)
           \/ ListFiles(p) \/ Inspect(p) \/ Unlink(p) \/ PruneEnd(p) \/ UnlinkFails(p)
           \/ PruneFails(p)
           \/ Fetched(p) \/ Verify(p) \/ Build(p)
  BY <1>5 DEF FetchNext, Recheck, Publish, LockCache, Index, IndexFails, ListFiles, Inspect,
              Unlink, PruneEnd, UnlinkFails, PruneFails, Fetched, Verify, Build
<1>6. CASE StartBuild(p) \/ StartClear(p) \/ GiveUp(p) \/ Die(p)
  BY <1>6 DEF StartBuild, StartClear, Start, GiveUp, Die
<1> QED
  BY <1>1, <1>2, <1>3, <1>4, <1>5, <1>6 DEF Step, Continue

\* Nor the cache lock.
LEMMA GlockKept ==
    ASSUME Typed, NEW p \in alive, Secure(p), Step(p), NEW q \in alive, q # p, glock = q
    PROVE  glock' = q
<1> USE DEF Typed
<1>0. p \in Procs /\ q \in Procs /\ q # None
  OBVIOUS
<1>1. CASE LockCache(p)
  BY <1>0, <1>1 DEF LockCache, Free
<1>2. CASE PruneEnd(p)
  BY <1>2 DEF PruneEnd, Secure, AtCache
<1>3. CASE Close(p)
  BY <1>3 DEF Close
<1>5. CASE FetchNext(p) \/ LockArtifact(p) \/ Recheck(p) \/ Publish(p) \/ Index(p) \/ IndexFails(p)
           \/ Release(p) \/ ListFiles(p) \/ Inspect(p) \/ Unlink(p) \/ UnlinkFails(p)
           \/ PruneFails(p)
           \/ Fetched(p) \/ Lease(p) \/ Verify(p) \/ Build(p)
  BY <1>5 DEF FetchNext, LockArtifact, Recheck, Publish, Index, IndexFails, Release, ListFiles,
              Inspect, Unlink, UnlinkFails, PruneFails, Fetched, Lease, Verify, Build
<1>6. CASE StartBuild(p) \/ StartClear(p) \/ GiveUp(p) \/ Die(p)
  BY <1>6 DEF StartBuild, StartClear, Start, GiveUp, Die
<1> QED
  BY <1>1, <1>2, <1>3, <1>5, <1>6 DEF Step, Continue

\* Only Publish and Unlink touch the files.
LEMMA FilesKept ==
    ASSUME NEW p, Step(p), ~Publish(p), ~Unlink(p) PROVE UNCHANGED <<file, byAge>>
<1>1. CASE FetchNext(p) \/ LockArtifact(p) \/ Recheck(p) \/ LockCache(p) \/ Index(p) \/ IndexFails(p)
           \/ Release(p) \/ ListFiles(p) \/ Inspect(p) \/ PruneEnd(p) \/ UnlinkFails(p)
           \/ PruneFails(p)
  BY <1>1 DEF FetchNext, LockArtifact, Recheck, LockCache, Index, IndexFails, Release, ListFiles,
              Inspect, PruneEnd, UnlinkFails, PruneFails
<1>2. CASE Fetched(p) \/ Lease(p) \/ Verify(p) \/ Build(p) \/ Close(p) \/ GiveUp(p) \/ Die(p)
  BY <1>2 DEF Fetched, Lease, Verify, Build, Close, GiveUp, Die
<1>3. CASE StartBuild(p) \/ StartClear(p)
  BY <1>3 DEF StartBuild, StartClear, Start
<1> QED
  BY <1>1, <1>2, <1>3 DEF Step, Continue

\* Only these operations change the cache lock or the index.
LEMMA GlockSteps ==
    ASSUME NEW p, Step(p), ~LockCache(p), ~PruneEnd(p), ~(glock = p /\ Close(p)) PROVE glock' = glock
<1>1. CASE FetchNext(p) \/ LockArtifact(p) \/ Recheck(p) \/ Publish(p) \/ Index(p)
           \/ IndexFails(p) \/ Release(p) \/ ListFiles(p) \/ Inspect(p) \/ Unlink(p)
  BY <1>1 DEF FetchNext, LockArtifact, Recheck, Publish, Index, IndexFails, Release,
              ListFiles, Inspect, Unlink
<1>2. CASE UnlinkFails(p) \/ PruneFails(p) \/ Fetched(p) \/ Lease(p) \/ Verify(p) \/ Build(p)
           \/ Close(p) \/ GiveUp(p) \/ Die(p)
  BY <1>2 DEF UnlinkFails, PruneFails, Fetched, Lease, Verify, Build, Close, GiveUp, Die
<1>3. CASE StartBuild(p) \/ StartClear(p)
  BY <1>3 DEF StartBuild, StartClear, Start
<1> QED
  BY <1>1, <1>2, <1>3 DEF Step, Continue

LEMMA IndexSteps == ASSUME NEW p, Step(p), ~Index(p), ~PruneEnd(p) PROVE index' = index
<1>1. CASE FetchNext(p) \/ LockArtifact(p) \/ Recheck(p) \/ Publish(p) \/ LockCache(p)
           \/ IndexFails(p) \/ Release(p) \/ ListFiles(p) \/ Inspect(p) \/ Unlink(p)
  BY <1>1 DEF FetchNext, LockArtifact, Recheck, Publish, LockCache, IndexFails, Release,
              ListFiles, Inspect, Unlink
<1>2. CASE UnlinkFails(p) \/ PruneFails(p) \/ Fetched(p) \/ Lease(p) \/ Verify(p) \/ Build(p)
           \/ Close(p) \/ GiveUp(p) \/ Die(p)
  BY <1>2 DEF UnlinkFails, PruneFails, Fetched, Lease, Verify, Build, Close, GiveUp, Die
<1>3. CASE StartBuild(p) \/ StartClear(p)
  BY <1>3 DEF StartBuild, StartClear, Start
<1> QED
  BY <1>1, <1>2, <1>3 DEF Step, Continue

\* Every step of a process keeps the types and the list of files.
LEMMA StepTyped ==
    ASSUME Typed, Listed, NEW p \in alive, Secure(p), Sighted(p), Step(p)
    PROVE  Typed' /\ Listed'
<1>0. p \in Procs
  BY DEF Typed
<1>1. CASE Publish(p)
  BY <1>0, <1>1, PublishFiles DEF Publish, Secure, AtArtifact
<1>2. CASE Unlink(p)
  BY <1>0, <1>2, UnlinkFiles DEF Unlink
<1>3. CASE ~Publish(p) /\ ~Unlink(p)
  <2>1. Listed'
    BY <1>3, FilesKept DEF Listed
  <2>2. CASE Inspect(p)
    BY <1>0, <2>1, <2>2, InspectQueue
  <2>3. CASE Index(p) \/ ListFiles(p) \/ PruneEnd(p)
    <3>1. Index(p) => art[p] \in Artifacts
      BY DEF Index, Secure, AtArtifact
    <3> QED
      BY <1>0, <2>1, <2>3, <3>1, PruneTyped
  <2>4. CASE Lease(p) \/ Close(p) \/ Die(p) \/ StartBuild(p) \/ StartClear(p)
    BY <1>0, <2>1, <2>4, LeaseTyped, CloseTyped, DieTyped, StartTyped
  <2>5. CASE FetchNext(p) \/ LockArtifact(p) \/ Recheck(p) \/ LockCache(p) \/ Release(p)
           \/ Fetched(p) \/ Verify(p) \/ Build(p) \/ GiveUp(p) \/ IndexFails(p)
           \/ UnlinkFails(p) \/ PruneFails(p)
    BY <1>0, <2>1, <2>5, FetchTyped
  <2> QED
    BY <1>3, <2>2, <2>3, <2>4, <2>5 DEF Step, Continue
<1> QED
  BY <1>1, <1>2, <1>3

\* The others keep their locks, and no file goes while they count.
LEMMA OthersSecure ==
    ASSUME CacheInv, NEW p \in alive, Step(p), NEW q \in alive, q # p
    PROVE  Secure(q)' /\ Sighted(q)'
<1>0. p \in Procs /\ q \in Procs /\ Typed /\ Listed
  BY DEF CacheInv, Typed
<1>1. Secure(p) /\ Secure(q) /\ Sighted(p) /\ Sighted(q)
  BY DEF CacheInv
<1>2. /\ pc'[q] = pc[q] /\ want'[q] = want[q] /\ art'[q] = art[q]
      /\ queue'[q] = queue[q] /\ total'[q] = total[q]
  BY <1>0, OthersLocal
<1>3. \A a \in Artifacts : owner[a] = q => owner'[a] = q
  BY <1>0, <1>1, OwnerKept
<1>4. glock = q => glock' = q
  BY <1>0, <1>1, GlockKept
<1>5. Secure(q)'
  BY <1>1, <1>2, <1>3, <1>4 DEF Secure, AtArtifact, AtCache, Clearing
<1>6. Len(byAge) \in Nat /\ Len(byAge') \in Nat
  BY <1>0, <1>1, StepTyped DEF Typed
<1>7. pc[q] \in {"prune", "unlink"} => Len(byAge) <= Len(byAge')
  <2>1. CASE Publish(p)
    BY <1>0, <1>1, <2>1, PublishFiles DEF Publish, Secure, AtArtifact
  <2>2. CASE Unlink(p)
    BY <1>1, <2>2 DEF Unlink, Secure, AtCache
  <2>3. CASE ~Publish(p) /\ ~Unlink(p)
    BY <1>6, <2>3, FilesKept
  <2> QED
    BY <2>1, <2>2, <2>3
<1>8. total[q] \in Int
  BY <1>0 DEF Typed
<1>9. Sighted(q)'
  BY <1>1, <1>2, <1>6, <1>7, <1>8 DEF Sighted, Clearing
<1> QED
  BY <1>5, <1>9

\* Which operation brings a process to some of its stages.
LEMMA Moves ==
    ASSUME Typed, NEW p \in Procs, Step(p)
    PROVE  /\ pc'[p] = "download" => Recheck(p) \/ Die(p)
           /\ pc'[p] = "put" => Publish(p) \/ Die(p)
           /\ pc'[p] = "index" => LockCache(p) \/ Die(p)
           /\ pc'[p] \in {"prune", "unlink"}
                => Index(p) \/ ListFiles(p) \/ Inspect(p) \/ Unlink(p) \/ Die(p)
<1> USE DEF Typed
<1>1. FetchNext(p) => pc'[p] \in {"fetch", "miss"}
  BY DEF FetchNext
<1>2. LockArtifact(p) \/ Release(p) => pc'[p] \in {"recheck", "fetch"}
  BY DEF LockArtifact, Release
<1>3. Recheck(p) => pc'[p] \in {"release", "download"}
  BY DEF Recheck
<1>4. Publish(p) => pc'[p] = "put"
  BY DEF Publish
<1>5. LockCache(p) => pc'[p] \in {"index", "list"}
  BY DEF LockCache
<1>6. Index(p) \/ ListFiles(p) => pc'[p] = "prune"
  BY DEF Index, ListFiles
<1>7. Inspect(p) \/ Unlink(p) => pc'[p] \in {"prune", "unlink"}
  BY DEF Inspect, Unlink
<1>8. IndexFails(p) \/ PruneEnd(p) \/ UnlinkFails(p) \/ PruneFails(p)
         => pc'[p] \in {"closing", "release"}
  BY DEF IndexFails, PruneEnd, UnlinkFails, PruneFails
<1>9. Fetched(p) \/ Lease(p) \/ Verify(p) \/ Build(p) \/ GiveUp(p)
         => pc'[p] \in {"lease", "verify", "closing"}
  BY DEF Fetched, Lease, Verify, Build, GiveUp
<1>10. Close(p) => pc'[p] \in {"closing", "idle"}
  BY DEF Close
<1>11. StartBuild(p) \/ StartClear(p) => pc'[p] \in {"fetch", "clear"}
  BY DEF StartBuild, StartClear, Start
<1> QED
  BY <1>1, <1>2, <1>3, <1>4, <1>5, <1>6, <1>7, <1>8, <1>9, <1>10, <1>11 DEF Step, Continue

\* What it does next finds the locks that it needs.
LEMMA OwnSecure ==
    ASSUME CacheInv, NEW p \in alive, p \in alive', Step(p) PROVE Secure(p)'
<1>0. p \in Procs /\ Typed /\ Secure(p) /\ Sighted(p)
  BY DEF CacheInv, Typed
<1> USE DEF Typed, Secure, AtArtifact, AtCache, Clearing
<1>1. CASE FetchNext(p)
  BY <1>0, <1>1 DEF FetchNext
<1>2. CASE LockArtifact(p)
  BY <1>0, <1>2 DEF LockArtifact
<1>3. CASE Recheck(p) \/ Publish(p)
  BY <1>0, <1>3 DEF Recheck, Publish
<1>4. CASE LockCache(p)
  BY <1>0, <1>4 DEF LockCache
<1>5. CASE Index(p) \/ ListFiles(p)
  BY <1>0, <1>5 DEF Index, ListFiles
<1>6. CASE Inspect(p)
  BY <1>0, <1>6 DEF Inspect
<1>7. CASE Unlink(p)
  BY <1>0, <1>7 DEF Unlink
<1>8. CASE PruneEnd(p)
  BY <1>0, <1>8 DEF PruneEnd
<1>9. CASE Release(p) \/ Fetched(p)
  BY <1>0, <1>9 DEF Release, Fetched
<1>10. CASE Lease(p)
  <2>1. Oldest(todo[p]) \in Artifacts
    BY <1>0, <1>10, ChosenArtifact DEF Lease
  <2> QED
    BY <1>0, <1>10, <2>1 DEF Lease
<1>11. CASE Verify(p)
  BY <1>0, <1>11 DEF Verify
<1>12. CASE IndexFails(p) \/ UnlinkFails(p) \/ PruneFails(p) \/ Build(p) \/ GiveUp(p)
  BY <1>0, <1>12 DEF IndexFails, UnlinkFails, PruneFails, Build, GiveUp
<1>13. CASE Close(p)
  BY <1>0, <1>13 DEF Close
<1>14. CASE StartBuild(p)
  BY <1>0, <1>14 DEF StartBuild, Start
<1>15. CASE StartClear(p)
  BY <1>0, <1>15 DEF StartClear, Start
<1>16. CASE Die(p)
  BY <1>16 DEF Die
<1> QED
  BY <1>1, <1>2, <1>3, <1>4, <1>5, <1>6, <1>7, <1>8, <1>9, <1>10, <1>11, <1>12, <1>13, <1>14,
     <1>15, <1>16 DEF Step, Continue

LEMMA OwnSighted ==
    ASSUME CacheInv, NEW p \in alive, p \in alive', Step(p) PROVE Sighted(p)'
<1>0. p \in Procs /\ Typed /\ Listed /\ Secure(p) /\ Sighted(p)
  BY DEF CacheInv, Typed
<1>1. Len(byAge) \in Nat /\ total[p] \in Int
  BY <1>0 DEF Typed
<1>2. CASE Index(p)
  BY <1>0, <1>1, <1>2 DEF Index, Sighted, Typed, Listed, Clearing
<1>3. CASE ListFiles(p)
  BY <1>0, <1>3 DEF ListFiles, Sighted, Typed, Listed, Secure, Clearing
<1>4. CASE Inspect(p)
  <2>1. /\ Once(queue'[p])
        /\ pc'[p] = "unlink" => queue'[p] # <<>> /\ (~Clearing(p) => total[p] > MaxFiles)
    BY <1>0, <1>4, InspectQueue
  <2>2. UNCHANGED <<want, total, byAge>> /\ pc[p] = "prune"
    BY <1>4 DEF Inspect
  <2> QED
    BY <1>0, <2>1, <2>2 DEF Sighted, Clearing
<1>5. CASE Unlink(p)
  <2>1. Once(queue'[p]) /\ Len(byAge') \in {Len(byAge), Len(byAge) - 1}
    BY <1>0, <1>5, UnlinkFiles DEF Unlink
  <2>2. /\ pc[p] = "unlink" /\ pc'[p] = "prune" /\ UNCHANGED want
        /\ ~Clearing(p) => total'[p] = total[p] - 1
    BY <1>0, <1>5 DEF Unlink, Typed
  <2>3. ~Clearing(p) => total'[p] <= Len(byAge')
    BY <1>0, <1>1, <2>1, <2>2 DEF Sighted
  <2> QED
    BY <2>1, <2>2, <2>3 DEF Sighted, Clearing
<1>6. CASE Die(p)
  BY <1>6 DEF Die
<1>7. pc'[p] \in {"prune", "unlink"} => Index(p) \/ ListFiles(p) \/ Inspect(p) \/ Unlink(p) \/ Die(p)
  BY <1>0, Moves
<1> QED
  BY <1>2, <1>3, <1>4, <1>5, <1>6, <1>7 DEF Sighted

\* An artifact is published only by the process that has its lock.
LEMMA StepDownloads ==
    ASSUME CacheInv, NEW p \in alive, Step(p) PROVE NoRedundantDownload'
<1>0. p \in Procs /\ Typed /\ NoRedundantDownload /\ Secure(p) /\ Sighted(p) /\ Listed
  BY DEF CacheInv, Typed
<1>a. Typed'
  BY <1>0, StepTyped
<1> SUFFICES ASSUME NEW q \in alive', pc'[q] = "download" PROVE file'[art'[q]] # "good"
  BY DEF NoRedundantDownload
<1>1. CASE q # p
  <2>1. q \in Procs /\ q \in alive /\ pc[q] = "download" /\ art'[q] = art[q]
    BY <1>0, <1>1, <1>a, OthersLocal, AliveShrinks DEF Typed
  <2>2. art[q] \in Artifacts /\ owner[art[q]] = q /\ file[art[q]] # "good"
    BY <1>0, <2>1 DEF CacheInv, Secure, AtArtifact, NoRedundantDownload
  <2>3. CASE Publish(p)
    <3>1. owner[art[p]] = p
      BY <1>0, <2>3 DEF Publish, Secure, AtArtifact
    <3>2. file'[art[q]] = file[art[q]]
      BY <1>0, <1>1, <2>2, <2>3, <3>1 DEF Publish, Typed
    <3> QED
      BY <2>1, <2>2, <3>2
  <2>4. CASE Unlink(p)
    <3>1. file' = [file EXCEPT ![Head(queue[p])] = "absent"]
      BY <2>4 DEF Unlink
    <3> QED
      BY <1>0, <2>1, <2>2, <3>1 DEF Typed
  <2>5. CASE ~Publish(p) /\ ~Unlink(p)
    BY <2>1, <2>2, <2>5, FilesKept
  <2> QED
    BY <2>3, <2>4, <2>5
<1>2. CASE q = p
  <2>1. CASE Recheck(p)
    BY <1>0, <1>2, <2>1 DEF Recheck, Typed
  <2>2. CASE Die(p)
    BY <1>0, <1>2, <2>2 DEF Die
  <2>3. pc'[p] = "download" => Recheck(p) \/ Die(p)
    BY <1>0, Moves
  <2> QED
    BY <1>2, <2>1, <2>2, <2>3
<1> QED
  BY <1>1, <1>2

LEMMA StepCache == ASSUME CacheInv, [Next]_vars PROVE CacheInv'
<1>1. ASSUME NEW p \in alive, Step(p) PROVE CacheInv'
  <2>1. Typed' /\ Listed' /\ alive' \subseteq alive
    <3>1. p \in Procs /\ Typed /\ Listed /\ Secure(p) /\ Sighted(p)
      BY DEF CacheInv, Typed
    <3>2. Typed' /\ Listed'
      BY <1>1, <3>1, StepTyped
    <3>3. alive' \subseteq alive
      BY <1>1, AliveShrinks
    <3> QED
      BY <3>2, <3>3
  <2>2. ASSUME NEW q \in alive' PROVE Secure(q)' /\ Sighted(q)'
    <3>1. CASE q = p
      BY <1>1, <3>1, OwnSecure, OwnSighted
    <3>2. CASE q # p
      BY <1>1, <2>1, <3>2, OthersSecure
    <3> QED
      BY <3>1, <3>2
  <2>3. NoRedundantDownload'
    BY <1>1, StepDownloads
  <2> QED
    BY <2>1, <2>2, <2>3 DEF CacheInv
<1>2. ASSUME NEW a \in Artifacts, Corrupt(a) PROVE CacheInv'
  <2>1. Typed' /\ Listed'
    BY <1>2, CorruptFiles DEF CacheInv
  <2>2. UNCHANGED <<pc, local, alive, owner, glock, byAge>> /\ file' = [file EXCEPT ![a] = "bad"]
    BY <1>2 DEF Corrupt
  <2>3. \A p \in alive' : Secure(p)' /\ Sighted(p)'
    BY <2>2 DEF CacheInv, Secure, Sighted, AtArtifact, AtCache, Clearing
  <2>4. NoRedundantDownload'
    <3> SUFFICES ASSUME NEW p \in alive, pc[p] = "download" PROVE file'[art[p]] # "good"
      BY <2>2 DEF NoRedundantDownload
    <3>1. art[p] \in Artifacts /\ file[art[p]] # "good"
      BY DEF CacheInv, Secure, AtArtifact, NoRedundantDownload
    <3> QED
      BY <2>2, <3>1 DEF CacheInv, Typed
  <2> QED
    BY <2>1, <2>3, <2>4 DEF CacheInv
<1>3. ASSUME UNCHANGED vars PROVE CacheInv'
  BY <1>3 DEF vars, CacheInv, Typed, Listed, Secure, Sighted, AtArtifact, AtCache, Clearing,
              NoRedundantDownload
<1> QED
  BY <1>1, <1>2, <1>3 DEF Next, Step

THEOREM CacheInvariant == Spec => []CacheInv
<1>1. Init => CacheInv
  BY InitCache
<1>2. CacheInv /\ [Next]_vars => CacheInv'
  BY StepCache
<1> QED
  BY <1>1, <1>2, PTL DEF Spec

\* The types, the list of files by age, and who has to hold the cache lock.
THEOREM TypeCorrect == Spec => []TypeOK
  BY CacheInvariant, InvTypes, PTL

\* acquire_artifact: concurrent misses of an artifact lead to one download,
\* whatever dies, is damaged or cannot be saved meanwhile.
THEOREM OneDownload == Spec => []NoRedundantDownload
<1>1. CacheInv => NoRedundantDownload
  BY DEF CacheInv
<1> QED
  BY <1>1, CacheInvariant, PTL

\* _prune_cache_locked removes files only while the cache is over its limit,
\* although it counts the bytes once and others publish meanwhile.
THEOREM EvictionNeeded == Spec => NoNeedlessEviction
<1> DEFINE Needed(p) == pc[p] = "unlink" /\ pc'[p] = "prune" /\ ~Clearing(p) => Len(byAge) > MaxFiles
<1>1. CacheInv /\ [Next]_vars => \A p \in Procs : Needed(p)
  <2> SUFFICES ASSUME CacheInv, [Next]_vars, NEW p \in Procs,
                      pc[p] = "unlink", pc'[p] = "prune", ~Clearing(p)
               PROVE  Len(byAge) > MaxFiles
    OBVIOUS
  <2>0. Typed
    BY DEF CacheInv
  <2>1. p \in alive
    <3>1. ~(UNCHANGED vars) /\ ~(\E a \in Artifacts : Corrupt(a))
      BY DEF vars, Corrupt
    <3>2. PICK q \in alive : Step(q)
      BY <3>1 DEF Next, Step
    <3>3. q = p
      BY <2>0, <3>2, OthersLocal DEF Typed
    <3> QED
      BY <3>2, <3>3
  <2>2. total[p] <= Len(byAge) /\ total[p] > MaxFiles
    BY <2>1 DEF CacheInv, Sighted
  <2>3. total[p] \in Int /\ Len(byAge) \in Nat
    BY <2>0 DEF Typed
  <2> QED
    BY <2>2, <2>3
<1>2. CacheInv /\ [Next]_vars
         => [\A p \in Procs : pc[p] = "unlink" /\ pc'[p] = "prune" /\ ~Clearing(p)
                                => Len(byAge) > MaxFiles]_vars
  BY <1>1
<1> QED
  BY <1>2, CacheInvariant, PTL DEF Spec, NoNeedlessEviction

-----------------------------------------------------------------------------
(* When nothing damages a cached file *)

\* Whatever is to be looked at is there, and what is about to be removed was
\* not published by a process that is still to enter it in the index.
Intact ==
    /\ \A a \in Artifacts : file[a] # "bad"
    /\ \A p \in alive : pc[p] \in {"prune", "unlink"} => \A a \in Entries(queue[p]) : file[a] = "good"
    /\ \A p, q \in alive : pc[p] = "unlink" /\ pc[q] \in {"put", "index"} => Head(queue[p]) # art[q]
    /\ PublishedStays

LEMMA InitIntact == Init => Intact
  BY DEF Init, Intact, PublishedStays

LEMMA StepIntact ==
    ASSUME "corrupt" \notin Faults, CacheInv, Intact, NEW p \in alive, Step(p) PROVE Intact'
<1>0. p \in Procs /\ Typed /\ Listed /\ Secure(p) /\ Sighted(p)
  BY DEF CacheInv, Typed
<1>a. Typed' /\ alive' \subseteq alive /\ alive \subseteq Procs
  BY <1>0, StepTyped, AliveShrinks DEF Typed
<1>b. \A q \in alive : q # p => /\ pc'[q] = pc[q] /\ art'[q] = art[q] /\ queue'[q] = queue[q]
  BY <1>0, <1>a, OthersLocal
<1>c. Die(p) => p \notin alive'
  BY DEF Die
<1>d. Publish(p) => file' = [file EXCEPT ![art[p]] = "good"] /\ art[p] \in Artifacts
  BY <1>0 DEF Publish, Secure, AtArtifact
<1>e. ASSUME Unlink(p)
      PROVE  /\ file' = [file EXCEPT ![Head(queue[p])] = "absent"]
             /\ Head(queue[p]) \in Artifacts
             /\ pc[p] = "unlink" /\ pc'[p] = "prune"
             /\ glock = p
             /\ Entries(queue'[p]) = Entries(queue[p]) \ {Head(queue[p])}
  <2>1. pc[p] = "unlink" /\ pc'[p] = "prune"
    BY <1>0, <1>e DEF Unlink, Typed
  <2> QED
    BY <1>0, <1>e, <2>1, UnlinkFiles DEF Secure, AtCache
<1>f. ~Publish(p) /\ ~Unlink(p) => file' = file
  BY FilesKept
<1>1. ASSUME NEW a \in Artifacts PROVE file'[a] # "bad"
  BY <1>0, <1>d, <1>e, <1>f DEF Typed, Intact
<1>2. ASSUME NEW q \in alive', pc'[q] \in {"prune", "unlink"}, NEW a \in Entries(queue'[q])
      PROVE  file'[a] = "good"
  <2>0. q \in alive /\ q \in Procs
    BY <1>a
  <2>1. CASE q # p
    <3>1. pc[q] \in {"prune", "unlink"} /\ a \in Entries(queue[q]) /\ glock = q
      BY <1>2, <1>b, <2>0, <2>1 DEF CacheInv, Secure, AtCache
    <3>2. file[a] = "good" /\ a \in Artifacts
      BY <2>0, <3>1 DEF Intact, CacheInv, Typed, Entries
    <3> QED
      BY <1>0, <1>d, <1>e, <1>f, <2>1, <3>1, <3>2 DEF Typed
  <2>2. CASE q = p
    <3>1. Index(p) \/ ListFiles(p) \/ Inspect(p) \/ Unlink(p)
      BY <1>0, <1>2, <1>c, <2>2, Moves
    <3>2. CASE Index(p) \/ ListFiles(p)
      <4>1. queue'[p] = byAge /\ file' = file
        BY <1>0, <3>2 DEF Index, ListFiles, Typed
      <4> QED
        BY <1>0, <1>2, <2>2, <4>1 DEF Listed, Intact, Typed
    <3>3. CASE Inspect(p)
      <4>1. Entries(queue'[p]) \subseteq Entries(queue[p]) /\ pc[p] = "prune" /\ file' = file
        BY <1>0, <3>3, InspectQueue DEF Inspect
      <4> QED
        BY <1>2, <2>2, <4>1 DEF Intact
    <3>4. CASE Unlink(p)
      <4>1. a \in Entries(queue[p]) /\ a # Head(queue[p])
        BY <1>2, <1>e, <2>2, <3>4
      <4>2. file[a] = "good" /\ a \in Artifacts
        BY <1>0, <1>e, <3>4, <4>1 DEF Intact, Typed, Entries
      <4> QED
        BY <1>0, <1>e, <3>4, <4>1, <4>2 DEF Typed
    <3> QED
      BY <3>1, <3>2, <3>3, <3>4
  <2> QED
    BY <2>1, <2>2
<1>3. ASSUME NEW q \in alive', NEW r \in alive', pc'[q] = "unlink", pc'[r] \in {"put", "index"}
      PROVE  Head(queue'[q]) # art'[r]
  <2>0. q \in alive /\ q \in Procs /\ r \in alive /\ r \in Procs /\ q # r
    BY <1>3, <1>a
  <2>1. CASE q = p
    <3>1. pc[r] \in {"put", "index"} /\ art'[r] = art[r]
      BY <1>3, <1>b, <2>0, <2>1
    <3>2. owner[art[r]] = r /\ art[r] \in Artifacts
      BY <2>0, <3>1 DEF CacheInv, Secure, AtArtifact
    <3>3. Inspect(p)
      <4>1. Index(p) => pc'[p] = "prune"
        BY <1>0 DEF Index, Typed
      <4>2. ListFiles(p) => pc'[p] = "prune"
        BY <1>0 DEF ListFiles, Typed
      <4> QED
        BY <1>0, <1>3, <1>c, <1>e, <2>1, <4>1, <4>2, Moves
    <3>4. ~Leased(Head(queue'[p]))
      BY <1>0, <1>3, <2>1, <3>3, InspectQueue
    <3>5. Leased(art[r])
      BY <2>0, <3>2 DEF Leased, Free
    <3> QED
      BY <2>1, <3>1, <3>4, <3>5
  <2>2. CASE r = p
    <3>1. pc[q] = "unlink" /\ queue'[q] = queue[q]
      BY <1>3, <1>b, <2>0, <2>2
    <3>2. CASE Publish(p)
      <4>1. art'[p] = art[p] /\ pc[p] = "download"
        BY <3>2 DEF Publish
      <4>2. file[art[p]] # "good"
        BY <4>1 DEF CacheInv, NoRedundantDownload
      <4>3. queue[q] \in Seq(Artifacts) /\ Once(queue[q]) /\ queue[q] # <<>>
        BY <1>0, <2>0, <3>1 DEF CacheInv, Typed, Sighted
      <4>4. file[Head(queue[q])] = "good"
        BY <2>0, <3>1, <4>3, TailLemma DEF Intact
      <4> QED
        BY <2>2, <3>1, <4>1, <4>2, <4>4
    <3>3. CASE LockCache(p)
      <4>1. art'[p] = art[p] /\ (pc'[p] \in {"put", "index"} => pc[p] = "put")
        BY <1>0, <3>3 DEF LockCache, Typed
      <4> QED
        BY <1>3, <2>0, <2>2, <3>1, <4>1 DEF Intact
    <3> QED
      BY <1>0, <1>3, <1>c, <2>2, <3>2, <3>3, Moves
  <2>3. CASE q # p /\ r # p
    BY <1>3, <1>b, <2>0, <2>3 DEF Intact
  <2> QED
    BY <2>1, <2>2, <2>3
<1>4. ASSUME NEW r \in alive', pc'[r] \in {"put", "index"} PROVE file'[art'[r]] = "good"
  <2>0. r \in alive /\ r \in Procs
    BY <1>a
  <2>1. CASE r # p
    <3>1. pc[r] \in {"put", "index"} /\ art'[r] = art[r]
      BY <1>4, <1>b, <2>0, <2>1
    <3>2. file[art[r]] = "good" /\ art[r] \in Artifacts
      BY <2>0, <3>1 DEF Intact, PublishedStays, CacheInv, Secure, AtArtifact
    <3>3. Unlink(p) => Head(queue[p]) # art[r]
      BY <1>e, <2>0, <3>1 DEF Intact
    <3> QED
      BY <1>0, <1>d, <1>e, <1>f, <3>1, <3>2, <3>3 DEF Typed
  <2>2. CASE r = p
    <3>1. CASE Publish(p)
      <4>1. art'[p] = art[p]
        BY <3>1 DEF Publish
      <4> QED
        BY <1>0, <1>d, <2>2, <3>1, <4>1 DEF Typed
    <3>2. CASE LockCache(p)
      <4>1. art'[p] = art[p] /\ file' = file /\ (pc'[p] \in {"put", "index"} => pc[p] = "put")
        BY <1>0, <3>2 DEF LockCache, Typed
      <4> QED
        BY <1>4, <2>0, <2>2, <4>1 DEF Intact, PublishedStays
    <3> QED
      BY <1>0, <1>4, <1>c, <2>2, <3>1, <3>2, Moves
  <2> QED
    BY <2>1, <2>2
<1> QED
  BY <1>1, <1>2, <1>3, <1>4 DEF Intact, PublishedStays

LEMMA NextIntact ==
    ASSUME "corrupt" \notin Faults, CacheInv, Intact, [Next]_vars PROVE Intact'
<1>1. ASSUME UNCHANGED vars PROVE Intact'
  BY <1>1 DEF vars, Intact, PublishedStays
<1>2. \A a \in Artifacts : ~Corrupt(a)
  BY DEF Corrupt
<1> QED
  BY <1>1, <1>2, StepIntact DEF Next, Step

\* put_artifact: unless a file is damaged, what was published is there when it
\* is hashed again, although others prune and clear.
THEOREM HashedAgain == ASSUME "corrupt" \notin Faults PROVE Spec => []PublishedStays
<1>1. Init => CacheInv /\ Intact
  BY InitCache, InitIntact
<1>2. CacheInv /\ Intact /\ [Next]_vars => (CacheInv /\ Intact)'
  BY StepCache, NextIntact
<1>3. Intact => PublishedStays
  BY DEF Intact
<1> QED
  BY <1>1, <1>2, <1>3, PTL DEF Spec

\* And when the index can always be written and files be removed: what a live
\* process has removed and not yet taken off the index, it is still at.
Indexed ==
    /\ pruned = {} => index \subseteq Entries(byAge)
    /\ \A p \in alive : p \in pruned => pc[p] \in {"prune", "unlink"}

LEMMA InitIndexed == Init => Indexed
  BY DEF Init, Indexed, Entries

\* Only these operations change who has removed files.
LEMMA PrunedSteps ==
    ASSUME NEW p, Step(p), ~Unlink(p), ~PruneEnd(p), ~UnlinkFails(p), ~PruneFails(p)
    PROVE  pruned' = pruned
<1>1. CASE FetchNext(p) \/ LockArtifact(p) \/ Recheck(p) \/ Publish(p) \/ LockCache(p) \/ Index(p)
           \/ IndexFails(p) \/ Release(p) \/ ListFiles(p) \/ Inspect(p)
  BY <1>1 DEF FetchNext, LockArtifact, Recheck, Publish, LockCache, Index, IndexFails, Release,
              ListFiles, Inspect
<1>2. CASE Fetched(p) \/ Lease(p) \/ Verify(p) \/ Build(p) \/ Close(p) \/ GiveUp(p) \/ Die(p)
  BY <1>2 DEF Fetched, Lease, Verify, Build, Close, GiveUp, Die
<1>3. CASE StartBuild(p) \/ StartClear(p)
  BY <1>3 DEF StartBuild, StartClear, Start
<1> QED
  BY <1>1, <1>2, <1>3 DEF Step, Continue

\* A process that has removed files and lives gets no further than where it
\* puts the index right.
LEMMA StepIndexed ==
    ASSUME "save" \notin Faults, "unlink" \notin Faults, CacheInv, Indexed,
           NEW p \in alive, Step(p)
    PROVE  Indexed'
<1>0. p \in Procs /\ Typed /\ Listed /\ Secure(p) /\ Sighted(p)
  BY DEF CacheInv, Typed
<1>a. Typed' /\ Listed' /\ alive' \subseteq alive /\ alive \subseteq Procs
  BY <1>0, StepTyped, AliveShrinks DEF Typed
<1>b. ~UnlinkFails(p) /\ ~PruneFails(p)
  BY DEF UnlinkFails, PruneFails
<1>1. ASSUME pruned' = {} PROVE index' \subseteq Entries(byAge')
  <2>1. CASE PruneEnd(p) /\ (Clearing(p) \/ p \in pruned)
    BY <2>1 DEF PruneEnd, Entries
  <2>2. CASE PruneEnd(p) /\ ~Clearing(p) /\ p \notin pruned
    BY <1>1, <2>2 DEF PruneEnd, Indexed
  <2>3. CASE ~PruneEnd(p)
    <3>1. ~Unlink(p)
      BY <1>1 DEF Unlink
    <3>2. index \subseteq Entries(byAge)
      BY <1>1, <1>b, <2>3, <3>1, PrunedSteps DEF Indexed
    <3>3. CASE Index(p)
      <4>1. art[p] \in Artifacts /\ file[art[p]] = "good"
        BY <1>0, <3>3 DEF Index, Secure, AtArtifact
      <4> QED
        BY <1>0, <3>2, <3>3, <4>1 DEF Index, Listed
    <3>4. CASE Publish(p)
      <4>1. file' = [file EXCEPT ![art[p]] = "good"] /\ index' = index
        BY <3>4 DEF Publish
      <4> QED
        BY <1>0, <1>a, <3>2, <4>1 DEF Listed, Typed
    <3>5. CASE ~Index(p) /\ ~Publish(p)
      BY <2>3, <3>1, <3>2, <3>5, IndexSteps, FilesKept
    <3> QED
      BY <3>3, <3>4, <3>5
  <2> QED
    BY <2>1, <2>2, <2>3
<1>2. ASSUME NEW q \in alive', q \in pruned' PROVE pc'[q] \in {"prune", "unlink"}
  <2>0. q \in alive /\ q \in Procs
    BY <1>a
  <2>1. CASE q # p
    <3>1. q \in pruned
      BY <1>2, <1>b, <2>1, PrunedSteps DEF Unlink, PruneEnd
    <3> QED
      BY <1>0, <2>0, <2>1, <3>1, OthersLocal DEF Indexed
  <2>2. CASE q = p /\ Unlink(p)
    BY <1>0, <2>2 DEF Unlink, Typed
  <2>3. CASE q = p /\ ~Unlink(p)
    <3>1. ~PruneEnd(p)
      BY <1>2, <2>3 DEF PruneEnd
    <3>2. pc[p] \in {"prune", "unlink"}
      BY <1>2, <1>b, <2>3, <3>1, PrunedSteps DEF Indexed
    <3>3. Inspect(p) \/ Die(p)
      <4>1. ~FetchNext(p) /\ ~LockArtifact(p) /\ ~Recheck(p) /\ ~Publish(p) /\ ~LockCache(p)
            /\ ~Index(p) /\ ~IndexFails(p) /\ ~Release(p) /\ ~ListFiles(p) /\ ~GiveUp(p)
        BY <3>2 DEF FetchNext, LockArtifact, Recheck, Publish, LockCache, Index, IndexFails,
                    Release, ListFiles, GiveUp
      <4>2. ~Fetched(p) /\ ~Lease(p) /\ ~Verify(p) /\ ~Build(p) /\ ~Close(p)
            /\ ~StartBuild(p) /\ ~StartClear(p)
        BY <3>2 DEF Fetched, Lease, Verify, Build, Close, StartBuild, StartClear, Start
      <4> QED
        BY <1>b, <2>3, <3>1, <4>1, <4>2 DEF Step, Continue
    <3>4. Inspect(p) => pc'[p] \in {"prune", "unlink"}
      BY <1>0 DEF Inspect, Typed
    <3>5. Die(p) => p \notin alive'
      BY DEF Die
    <3> QED
      BY <2>3, <3>3, <3>4, <3>5
  <2> QED
    BY <2>1, <2>2, <2>3
<1> QED
  BY <1>1, <1>2 DEF Indexed

\* Between operations on the cache, every entry of the index has its file, as
\* long as files can be removed, the index be written, and nobody is killed after
\* it has removed files; files may be damaged, and processes die anywhere else.
THEOREM IndexTrue ==
    ASSUME "save" \notin Faults, "unlink" \notin Faults PROVE Spec => []IndexTruthful
<1>1. Init => CacheInv /\ Indexed
  BY InitCache, InitIndexed
<1>2. CacheInv /\ Indexed /\ [Next]_vars => (CacheInv /\ Indexed)'
  <2> SUFFICES ASSUME CacheInv, Indexed, [Next]_vars PROVE Indexed'
    BY StepCache
  <2>1. ASSUME UNCHANGED vars PROVE Indexed'
    BY <2>1 DEF vars, Indexed
  <2>2. ASSUME NEW a \in Artifacts, Corrupt(a) PROVE Indexed'
    BY <2>2 DEF Corrupt, Indexed
  <2> QED
    BY <2>1, <2>2, StepIndexed DEF Next, Step
<1>3. CacheInv /\ Indexed => IndexTruthful
  <2> SUFFICES ASSUME CacheInv, Indexed, Free(glock), pruned \subseteq alive
               PROVE  \A a \in index : file[a] # "absent"
    BY DEF IndexTruthful
  <2>1. \A p \in alive : p \notin pruned
    BY DEF CacheInv, Typed, Secure, AtCache, Indexed, Free
  <2>2. pruned = {}
    BY <2>1
  <2> QED
    BY <2>2 DEF CacheInv, Listed, Indexed
<1> QED
  BY <1>1, <1>2, <1>3, PTL DEF Spec

-----------------------------------------------------------------------------
(* The locks the operations take are used as mutexes *)

\* A lock's owner stays, leaves by its own step or by its death, or enters when
\* nobody alive has the lock.
Proper(o, on, p) ==
    \/ on = o
    \/ Free(o) /\ on = p
    \/ o = p /\ on = None

LEMMA GlockProper ==
    ASSUME Typed, NEW p \in alive, Secure(p), Step(p) PROVE Proper(glock, glock', p)
<1>1. CASE LockCache(p)
  BY <1>1 DEF LockCache, Proper
<1>2. CASE PruneEnd(p)
  BY <1>2 DEF PruneEnd, Secure, AtCache, Proper
<1>3. CASE glock = p /\ Close(p)
  BY <1>3 DEF Close, Proper
<1> QED
  BY <1>1, <1>2, <1>3, GlockSteps DEF Proper

LEMMA OwnerProper ==
    ASSUME Typed, NEW p \in alive, Secure(p), Step(p), NEW a \in Artifacts
    PROVE  Proper(owner[a], owner'[a], p)
<1> USE DEF Typed, Proper
<1>1. CASE LockArtifact(p)
  BY <1>1 DEF LockArtifact
<1>2. CASE Release(p)
  BY <1>2 DEF Release, Secure, AtArtifact
<1>3. CASE Lease(p)
  BY <1>3 DEF Lease
<1>4. CASE Close(p)
  <2>1. Held(p) # {} => Newest(Held(p)) \in Held(p)
    <3>1. Held(p) \in SUBSET Artifacts
      BY DEF Held
    <3> QED
      BY <3>1, ChosenArtifact
  <2> QED
    BY <1>4, <2>1 DEF Close, Held
<1>5. CASE FetchNext(p) \/ Recheck(p) \/ Publish(p) \/ LockCache(p) \/ Index(p) \/ IndexFails(p)
           \/ ListFiles(p) \/ Inspect(p) \/ Unlink(p) \/ PruneEnd(p) \/ UnlinkFails(p)
           \/ PruneFails(p)
           \/ Fetched(p) \/ Verify(p) \/ Build(p)
  BY <1>5 DEF FetchNext, Recheck, Publish, LockCache, Index, IndexFails, ListFiles, Inspect,
              Unlink, PruneEnd, UnlinkFails, PruneFails, Fetched, Verify, Build
<1>6. CASE StartBuild(p) \/ StartClear(p) \/ GiveUp(p) \/ Die(p)
  BY <1>6 DEF StartBuild, StartClear, Start, GiveUp, Die
<1> QED
  BY <1>1, <1>2, <1>3, <1>4, <1>5, <1>6 DEF Step, Continue

\* Locks change hands only among the living, and nobody dies in the same step.
LEMMA Deaths ==
    ASSUME NEW p, Step(p)
    PROVE  alive' = alive \/ (alive' = alive \ {p} /\ UNCHANGED <<owner, glock>>)
<1>1. CASE FetchNext(p) \/ LockArtifact(p) \/ Recheck(p) \/ Publish(p) \/ LockCache(p) \/ Index(p)
           \/ IndexFails(p) \/ Release(p) \/ ListFiles(p) \/ Inspect(p) \/ Unlink(p)
  BY <1>1 DEF FetchNext, LockArtifact, Recheck, Publish, LockCache, Index, IndexFails, Release,
              ListFiles, Inspect, Unlink
<1>2. CASE PruneEnd(p) \/ UnlinkFails(p) \/ PruneFails(p) \/ Fetched(p) \/ Lease(p) \/ Verify(p)
           \/ Build(p)
           \/ Close(p) \/ GiveUp(p) \/ Die(p)
  BY <1>2 DEF PruneEnd, UnlinkFails, PruneFails, Fetched, Lease, Verify, Build, Close, GiveUp, Die
<1>3. CASE StartBuild(p) \/ StartClear(p)
  BY <1>3 DEF StartBuild, StartClear, Start
<1> QED
  BY <1>1, <1>2, <1>3 DEF Step, Continue

\* What that means for who is inside.
LEMMA ProperInside ==
    ASSUME NEW p \in alive, NEW o, NEW on, Proper(o, on, p), None \notin alive,
           alive' = alive \/ (alive' = alive \ {p} /\ on = o)
    PROVE  \/ {on} \cap alive' = {o} \cap alive
           \/ {o} \cap alive = {} /\ {on} \cap alive' = {p}
           \/ {o} \cap alive = {p} /\ {on} \cap alive' = {}
<1>1. CASE alive' = alive
  BY <1>1 DEF Proper, Free
<1>2. CASE alive' = alive \ {p} /\ on = o
  BY <1>2
<1> QED
  BY <1>1, <1>2

LEMMA GlockMutex == ASSUME CacheInv, [Next]_vars PROVE [CacheWideLock!MutexNext]_(Inside(glock))
<1>0. Typed /\ None \notin alive
  BY CacheConstants DEF CacheInv, Typed
<1>1. ASSUME NEW p \in alive, Step(p) PROVE [CacheWideLock!MutexNext]_(Inside(glock))
  <2>1. Proper(glock, glock', p)
    BY <1>0, <1>1, GlockProper DEF CacheInv
  <2>2. alive' = alive \/ (alive' = alive \ {p} /\ glock' = glock)
    BY <1>1, Deaths
  <2>3. \/ Inside(glock)' = Inside(glock)
        \/ CacheWideLock!Enter(p)
        \/ CacheWideLock!Leave(p)
    BY <1>0, <2>1, <2>2, ProperInside DEF Inside, CacheWideLock!Enter, CacheWideLock!Leave
  <2> QED
    BY <1>0, <2>3 DEF CacheWideLock!MutexNext, Typed
<1>2. CASE \E a \in Artifacts : Corrupt(a)
  BY <1>2 DEF Corrupt, Inside
<1>3. CASE UNCHANGED vars
  BY <1>3 DEF vars, Inside
<1> QED
  BY <1>1, <1>2, <1>3 DEF Next, Step

LEMMA OwnerMutex ==
    ASSUME CacheInv, [Next]_vars, NEW a \in Artifacts
    PROVE  [ArtifactLock(a)!MutexNext]_(Inside(owner[a]))
<1>0. Typed /\ None \notin alive
  BY CacheConstants DEF CacheInv, Typed
<1>1. ASSUME NEW p \in alive, Step(p) PROVE [ArtifactLock(a)!MutexNext]_(Inside(owner[a]))
  <2>1. Proper(owner[a], owner'[a], p)
    BY <1>0, <1>1, OwnerProper DEF CacheInv
  <2>2. alive' = alive \/ (alive' = alive \ {p} /\ owner'[a] = owner[a])
    BY <1>1, Deaths
  <2>3. \/ Inside(owner[a])' = Inside(owner[a])
        \/ ArtifactLock(a)!Enter(p)
        \/ ArtifactLock(a)!Leave(p)
    BY <1>0, <2>1, <2>2, ProperInside DEF Inside, ArtifactLock!Enter, ArtifactLock!Leave
  <2> QED
    BY <1>0, <2>3 DEF ArtifactLock!MutexNext, Typed
<1>2. CASE \E b \in Artifacts : Corrupt(b)
  BY <1>2 DEF Corrupt, Inside
<1>3. CASE UNCHANGED vars
  BY <1>3 DEF vars, Inside
<1> QED
  BY <1>1, <1>2, <1>3 DEF Next, Step

\* put_artifact and clear_cache use the lock of the cache as a mutex, whatever
\* dies: who takes it finds nobody alive inside, and only who has it frees it.
THEOREM CacheLockIsMutex == Spec => CacheWideLock!MutexSpec
<1>1. Init => CacheWideLock!MutexInit
  BY CacheConstants DEF Init, CacheWideLock!MutexInit, Inside
<1>2. CacheInv /\ [Next]_vars => [CacheWideLock!MutexNext]_(Inside(glock))
  BY GlockMutex
<1> QED
  BY <1>1, <1>2, CacheInvariant, PTL DEF Spec, CacheWideLock!MutexSpec

\* acquire_artifact and artifact_lease do the same with every artifact's lock.
THEOREM ArtifactLocksAreMutexes ==
    ASSUME NEW a \in Artifacts
    PROVE  Spec => ArtifactLock(a)!MutexSpec
<1>1. Init => ArtifactLock(a)!MutexInit
  BY CacheConstants DEF Init, ArtifactLock!MutexInit, Inside
<1>2. CacheInv /\ [Next]_vars => [ArtifactLock(a)!MutexNext]_(Inside(owner[a]))
  BY OwnerMutex
<1> QED
  BY <1>1, <1>2, CacheInvariant, PTL DEF Spec, ArtifactLock!MutexSpec

-----------------------------------------------------------------------------
(* No circular wait.  Whoever waits for the cache lock may hold the lock of  *)
(* the artifact that it has published, whoever waits for the lock of an      *)
(* artifact it misses holds none, and leases are taken in order.             *)

\* Which locks p may have, wherever it is.
Ordered(p) ==
    /\ \A a \in Artifacts : owner[a] = p =>
           \/ AtArtifact(p) /\ a = art[p]
           \/ pc[p] = "lease" /\ \A b \in todo[p] : a < b
           \/ pc[p] = "verify" /\ a <= art[p]
           \/ pc[p] = "closing"
    /\ pc[p] = "verify" =>
           owner[art[p]] = p /\ art[p] \in todo[p] /\ \A b \in todo[p] : art[p] <= b
    /\ pc[p] \in {"lease", "verify"} => \A a \in want[p] \ todo[p] : owner[a] = p
    /\ glock = p => AtCache(p) \/ pc[p] = "closing"

LocksOrdered == \A p \in alive : Ordered(p)

\* It waits for a lock that a live process has.
Blocked(p) ==
    \/ pc[p] = "miss" /\ ~Free(owner[art[p]])
    \/ pc[p] \in {"put", "clear"} /\ ~Free(glock)
    \/ pc[p] = "lease" /\ todo[p] # {} /\ ~Free(owner[Oldest(todo[p])])

\* While somebody waits, somebody is at work who does not.
SomebodyWorks ==
    \A p \in alive : Blocked(p) => \E q \in alive : pc[q] # "idle" /\ ~Blocked(q)

\* The first of some artifacts, and the last of them.
LEMMA Chosen ==
    ASSUME NEW S \in SUBSET Artifacts, S # {}
    PROVE  /\ Oldest(S) \in S /\ \A b \in S : Oldest(S) <= b
           /\ Newest(S) \in S /\ \A b \in S : Newest(S) >= b
<1>1. S \in SUBSET Nat /\ IsFiniteSet(S)
  BY FS_Subset
<1>2. \E a \in S : \A b \in S : a <= b
  BY <1>1, LeastNatural
<1>3. \E a \in S : \A b \in S : a >= b
  BY <1>1, GreatestNatural
<1> QED
  BY <1>2, <1>3 DEF Oldest, Newest

LEMMA InitOrdered == Init => LocksOrdered
  BY DEF Init, LocksOrdered, Ordered

\* Others take nothing away from it, and leave it nothing that they held.
LEMMA OthersOrdered ==
    ASSUME CacheInv, NEW p \in alive, Step(p), NEW q \in alive, q # p, Ordered(q)
    PROVE  Ordered(q)'
<1>0. p \in Procs /\ q \in Procs /\ q # None /\ p # None /\ Typed /\ Secure(p)
  BY DEF CacheInv, Typed
<1>1. pc'[q] = pc[q] /\ want'[q] = want[q] /\ art'[q] = art[q]
  BY <1>0, OthersLocal
<1>2. todo'[q] = todo[q]
  BY <1>0, OthersLocal
<1>3. \A a \in Artifacts : owner'[a] = q <=> owner[a] = q
  BY <1>0, OwnerKept, OwnerProper DEF Proper
<1>4. glock' = q <=> glock = q
  BY <1>0, GlockKept, GlockProper DEF Proper
<1>5. want[q] \subseteq Artifacts /\ todo[q] \subseteq Artifacts
  BY <1>0 DEF Typed
<1>6. pc[q] = "verify" => art[q] \in Artifacts
  BY DEF CacheInv, Secure
<1> QED
  BY <1>1, <1>2, <1>3, <1>4, <1>5, <1>6 DEF Ordered, AtArtifact, AtCache, Clearing

\* Its own steps take locks in order.
LEMMA OwnOrdered ==
    ASSUME CacheInv, NEW p \in alive, p \in alive', Ordered(p), Step(p)
    PROVE  Ordered(p)'
<1>0. p \in Procs /\ p # None /\ Typed /\ Secure(p)
  BY DEF CacheInv, Typed
<1> USE DEF Typed, Ordered
<1>1. CASE FetchNext(p)
  BY <1>0, <1>1 DEF FetchNext, AtArtifact, AtCache
<1>2. CASE LockArtifact(p)
  BY <1>0, <1>2 DEF LockArtifact, AtArtifact, AtCache
<1>3. CASE Recheck(p) \/ Publish(p)
  BY <1>0, <1>3 DEF Recheck, Publish, AtArtifact, AtCache
<1>4. CASE LockCache(p)
  BY <1>0, <1>4 DEF LockCache, AtArtifact, AtCache
<1>5. CASE Index(p) \/ ListFiles(p)
  BY <1>0, <1>5 DEF Index, ListFiles, AtArtifact, AtCache, Clearing, Secure
<1>6. CASE Inspect(p)
  BY <1>0, <1>6 DEF Inspect, AtArtifact, AtCache, Clearing
<1>7. CASE Unlink(p)
  BY <1>0, <1>7 DEF Unlink, AtArtifact, AtCache, Clearing
<1>8. CASE PruneEnd(p)
  BY <1>0, <1>8 DEF PruneEnd, AtArtifact, AtCache, Clearing
<1>9. CASE Release(p)
  BY <1>0, <1>9 DEF Release, AtArtifact, AtCache, Secure
<1>10. CASE Fetched(p)
  BY <1>0, <1>10 DEF Fetched, AtArtifact, AtCache
<1>11. CASE Lease(p)
  <2>1. Oldest(todo[p]) \in todo[p] /\ \A b \in todo[p] : Oldest(todo[p]) <= b
    BY <1>0, <1>11, Chosen DEF Lease
  <2>2. pc[p] = "lease" /\ pc'[p] = "verify" /\ todo' = todo /\ want' = want /\ glock' = glock
    BY <1>0, <1>11 DEF Lease
  <2>3. art'[p] = Oldest(todo[p]) /\ owner' = [owner EXCEPT ![Oldest(todo[p])] = p]
    BY <1>0, <1>11 DEF Lease
  <2> HIDE DEF Ordered
  <2>4. todo[p] \subseteq Artifacts /\ want[p] \subseteq Artifacts /\ Oldest(todo[p]) \in Artifacts
    BY <1>0, <2>1
  <2>5. glock # p
    BY <2>2 DEF Ordered, AtCache
  <2>6. \A a \in Artifacts : owner'[a] = p => a <= Oldest(todo[p])
    <3> TAKE a \in Artifacts
    <3>1. CASE a = Oldest(todo[p])
      <4>1. a <= a
        OBVIOUS
      <4> QED
        BY <3>1, <4>1
    <3>2. CASE a # Oldest(todo[p])
      <4>1. owner[a] = p => a < Oldest(todo[p])
        BY <2>1, <2>2 DEF Ordered, AtArtifact
      <4>2. owner'[a] = owner[a]
        BY <1>0, <2>3, <2>4, <3>2
      <4>3. a \in Nat /\ Oldest(todo[p]) \in Nat
        BY <2>4
      <4> QED
        BY <4>1, <4>2, <4>3
    <3> QED
      BY <3>1, <3>2
  <2>7. owner'[Oldest(todo[p])] = p /\ \A a \in want[p] \ todo[p] : owner'[a] = p
    BY <1>0, <2>2, <2>3, <2>4 DEF Ordered
  <2> QED
    BY <2>1, <2>2, <2>3, <2>5, <2>6, <2>7 DEF Ordered
<1>12. CASE Verify(p)
  <2>1. /\ pc[p] = "verify" /\ UNCHANGED <<want, art, owner, glock>>
        /\ \/ pc'[p] = "lease" /\ todo'[p] = todo[p] \ {art[p]}
           \/ pc'[p] = "closing"
    BY <1>0, <1>12 DEF Verify
  <2>2. art[p] \in Artifacts /\ todo[p] \subseteq Artifacts /\ glock # p
    BY <1>0, <2>1 DEF Secure, AtCache
  <2>3. \A a \in Artifacts : owner[a] = p => a <= art[p]
    BY <2>1 DEF AtArtifact
  <2>4. ASSUME NEW a \in Artifacts, NEW b \in todo[p] \ {art[p]}, owner[a] = p PROVE a < b
    <3>1. a <= art[p] /\ art[p] <= b /\ b # art[p]
      BY <2>1, <2>3, <2>4
    <3>2. a \in Nat /\ b \in Nat /\ art[p] \in Nat
      BY <2>2, <2>4
    <3> QED
      BY <3>1, <3>2
  <2> QED
    BY <2>1, <2>2, <2>4
<1>13. CASE IndexFails(p) \/ UnlinkFails(p) \/ PruneFails(p) \/ Build(p) \/ GiveUp(p)
  BY <1>0, <1>13 DEF IndexFails, UnlinkFails, PruneFails, Build, GiveUp
<1>14. CASE Close(p)
  BY <1>0, <1>14 DEF Close, Held, AtArtifact, AtCache
<1>15. CASE StartBuild(p) \/ StartClear(p)
  BY <1>0, <1>15 DEF StartBuild, StartClear, Start, AtArtifact, AtCache
<1>16. CASE Die(p)
  BY <1>16 DEF Die
<1> QED
  BY <1>1, <1>2, <1>3, <1>4, <1>5, <1>6, <1>7, <1>8, <1>9, <1>10, <1>11, <1>12, <1>13, <1>14,
     <1>15, <1>16 DEF Step, Continue

LEMMA NextOrdered == CacheInv /\ LocksOrdered /\ [Next]_vars => LocksOrdered'
<1> SUFFICES ASSUME CacheInv, LocksOrdered, [Next]_vars PROVE LocksOrdered'
  OBVIOUS
<1>1. ASSUME NEW p \in alive, Step(p) PROVE LocksOrdered'
  <2>1. alive' \subseteq alive
    BY <1>1, AliveShrinks
  <2>2. \A q \in alive' : Ordered(q)'
    BY <1>1, <2>1, OthersOrdered, OwnOrdered DEF LocksOrdered
  <2> QED
    BY <2>2 DEF LocksOrdered
<1>2. CASE \E a \in Artifacts : Corrupt(a)
  BY <1>2 DEF Corrupt, LocksOrdered, Ordered, AtArtifact, AtCache, Clearing
<1>3. CASE UNCHANGED vars
  BY <1>3 DEF vars, LocksOrdered, Ordered, AtArtifact, AtCache, Clearing
<1> QED
  BY <1>1, <1>2, <1>3 DEF Next, Step

\* Whoever has the cache lock goes on.
LEMMA HolderWorks ==
    ASSUME CacheInv, LocksOrdered, NEW p \in alive, pc[p] \in {"put", "clear"}, Blocked(p)
    PROVE  \E q \in alive : pc[q] # "idle" /\ ~Blocked(q)
<1>1. glock \in alive
  BY DEF Blocked, Free
<1>2. pc[glock] \in {"index", "list", "prune", "unlink", "closing"}
  BY <1>1 DEF LocksOrdered, Ordered, AtCache
<1> QED
  BY <1>1, <1>2 DEF Blocked

\* OperationsEnd rests on this: acquire_artifact, lease_dependencies and
\* clear_cache never wait for each other in a circle, for any number of
\* processes and artifacts and whatever dies, is damaged or cannot be saved.
THEOREM NoCircularWait == Spec => []SomebodyWorks
<1>1. Init => CacheInv /\ LocksOrdered
  BY InitCache, InitOrdered
<1>2. CacheInv /\ LocksOrdered /\ [Next]_vars => (CacheInv /\ LocksOrdered)'
  BY StepCache, NextOrdered
<1>3. CacheInv /\ LocksOrdered => SomebodyWorks
  <2> SUFFICES ASSUME CacheInv, LocksOrdered, NEW p \in alive, Blocked(p),
                      \A q \in alive : pc[q] # "idle" => Blocked(q)
               PROVE  FALSE
    BY DEF SomebodyWorks
  <2>0. Typed /\ alive \subseteq Procs
    BY DEF CacheInv, Typed
  <2>1. \A q \in alive : pc[q] \notin {"put", "clear"}
    BY HolderWorks DEF Blocked
  <2> DEFINE Leasing == {q \in alive : pc[q] = "lease" /\ todo[q] # {}}
             Wanted == {Oldest(todo[q]) : q \in Leasing}
  <2>2. \A q \in Leasing : /\ Oldest(todo[q]) \in todo[q] /\ Oldest(todo[q]) \in Artifacts
                           /\ owner[Oldest(todo[q])] \in alive
    BY <2>0, Chosen DEF Blocked, Free, Typed
  \* Who has what somebody waits for is leasing itself.
  <2>3. ASSUME NEW a \in Artifacts, owner[a] \in alive
        PROVE  owner[a] \in Leasing /\ \A b \in todo[owner[a]] : a < b
    <3>1. Blocked(owner[a])
      BY <2>3 DEF LocksOrdered, Ordered, AtArtifact
    <3> QED
      BY <2>1, <2>3, <3>1 DEF LocksOrdered, Ordered, AtArtifact, Blocked
  <2>4. Leasing # {}
    <3>1. CASE pc[p] = "miss"
      <4>1. art[p] \in Artifacts /\ owner[art[p]] \in alive
        BY <3>1 DEF Blocked, Free, CacheInv, Secure
      <4> QED
        BY <2>3, <4>1
    <3>2. CASE pc[p] = "lease"
      BY <3>2 DEF Blocked
    <3> QED
      BY <2>1, <3>1, <3>2 DEF Blocked
  <2>5. Wanted \in SUBSET Artifacts /\ Wanted # {}
    BY <2>2, <2>4
  <2>6. PICK q \in Leasing : \A a \in Wanted : Oldest(todo[q]) >= a
    <3>1. Newest(Wanted) \in Wanted /\ \A a \in Wanted : Newest(Wanted) >= a
      <4> HIDE DEF Wanted
      <4> QED
        BY <2>5, Chosen
    <3> QED
      BY <3>1
  <2> DEFINE m == Oldest(todo[q])
             r == owner[m]
  <2>7. r \in Leasing /\ \A b \in todo[r] : m < b
    BY <2>2, <2>3
  <2>8. Oldest(todo[r]) \in todo[r] /\ Oldest(todo[r]) \in Wanted
    BY <2>2, <2>7
  <2>9. m \in Nat /\ Oldest(todo[r]) \in Nat
    BY <2>2, <2>7
  <2> QED
    BY <2>6, <2>7, <2>8, <2>9
<1> QED
  BY <1>1, <1>2, <1>3, PTL DEF Spec

-----------------------------------------------------------------------------
(* What a lease is worth *)

\* artifact_lease: a pruner or clearer that looks at a leased file sees the
\* lease, so a lease is lost only to one that had looked before.
LeasesAreSeen ==
    [][\A p \in alive : \A a \in LeasedBy(p) : \A q \in Procs :
           pc[q] = "prune" /\ pc'[q] = "unlink" => Head(queue'[q]) # a]_vars

\* A build holds the lock of whatever it has leased, to the end of the build.
LEMMA LeaseIsHeld ==
    ASSUME CacheInv, LocksOrdered, NEW p \in alive, NEW a \in LeasedBy(p)
    PROVE  a \in Artifacts /\ owner[a] = p
<1>1. pc[p] \in {"lease", "verify"} /\ a \in want[p] \ todo[p]
  BY DEF LeasedBy
<1> QED
  BY <1>1 DEF LocksOrdered, Ordered, CacheInv, Typed

\* Which operations lead to the leases.
LEMMA LeaseMoves ==
    ASSUME Typed, NEW p \in Procs, Step(p), pc'[p] \in {"lease", "verify"}
    PROVE  Fetched(p) \/ Lease(p) \/ Verify(p) \/ Die(p)
<1> USE DEF Typed
<1>1. ~FetchNext(p) /\ ~LockArtifact(p) /\ ~Recheck(p) /\ ~Publish(p) /\ ~LockCache(p)
  BY DEF FetchNext, LockArtifact, Recheck, Publish, LockCache
<1>2. ~Index(p) /\ ~IndexFails(p) /\ ~Release(p) /\ ~ListFiles(p) /\ ~Inspect(p) /\ ~Unlink(p)
  BY DEF Index, IndexFails, Release, ListFiles, Inspect, Unlink
<1>3. ~PruneEnd(p) /\ ~UnlinkFails(p) /\ ~PruneFails(p) /\ ~Build(p) /\ ~GiveUp(p) /\ ~Close(p)
  BY DEF PruneEnd, UnlinkFails, PruneFails, Build, GiveUp, Close
<1>4. ~StartBuild(p) /\ ~StartClear(p)
  BY DEF StartBuild, StartClear, Start
<1> QED
  BY <1>1, <1>2, <1>3, <1>4 DEF Step, Continue

\* Whatever dies or is damaged, no lease is overlooked by who looks at it.
THEOREM LeasesSeen == Spec => LeasesAreSeen
<1>1. Init => CacheInv /\ LocksOrdered
  BY InitCache, InitOrdered
<1>2. CacheInv /\ LocksOrdered /\ [Next]_vars => (CacheInv /\ LocksOrdered)'
  BY StepCache, NextOrdered
<1>3. CacheInv /\ LocksOrdered /\ [Next]_vars
        => [\A p \in alive : \A a \in LeasedBy(p) : \A q \in Procs :
              pc[q] = "prune" /\ pc'[q] = "unlink" => Head(queue'[q]) # a]_vars
  <2> SUFFICES ASSUME CacheInv, LocksOrdered, Next,
                      NEW p \in alive, NEW a \in LeasedBy(p), NEW q \in Procs,
                      pc[q] = "prune", pc'[q] = "unlink"
               PROVE  Head(queue'[q]) # a
    OBVIOUS
  <2>0. Typed /\ Leased(a)
    BY LeaseIsHeld DEF CacheInv, Typed, Leased, Free
  <2>1. PICK x \in alive : Step(x)
    <3>1. \A b \in Artifacts : ~Corrupt(b)
      BY DEF Corrupt
    <3> QED
      BY <3>1 DEF Next, Step
  <2>2. x = q
    BY <2>0, <2>1, OthersLocal DEF Typed
  <2>3. Inspect(q)
    <3>1. Index(q) \/ ListFiles(q) \/ Inspect(q) \/ Unlink(q) \/ Die(q)
      BY <2>0, <2>1, <2>2, Moves
    <3> QED
      BY <3>1 DEF Index, ListFiles, Unlink, Die
  <2>4. PICK b \in Candidates(q) : ~Leased(b) /\ queue'[q] = <<b>> \o Without(queue[q], b)
    BY <2>0, <2>3 DEF Inspect, Typed
  <2>5. Once(queue[q]) /\ queue[q] \in Seq(Artifacts)
    BY <2>0, <2>1, <2>2 DEF CacheInv, Sighted, Typed
  <2>6. Head(queue'[q]) = b
    <3>1. Without(queue[q], b) \in Seq(Artifacts)
      BY <2>5, WithoutLemma
    <3> QED
      BY <2>4, <3>1
  <2> QED
    BY <2>0, <2>4, <2>6
<1> QED
  BY <1>1, <1>2, <1>3, PTL DEF Spec, LeasesAreSeen

\* LeaseProtects, where one process has the cache to itself: the publications
\* of a set evict one another before the leases are taken, and never after.
THEOREM LoneLease ==
    ASSUME \A p, q \in Procs : p = q, "corrupt" \notin Faults
    PROVE  Spec => []LeaseProtects
<1>1. Init => CacheInv /\ LeaseProtects
  BY InitCache DEF Init, LeaseProtects, LeasedBy
<1>2. CacheInv /\ LeaseProtects /\ [Next]_vars => (CacheInv /\ LeaseProtects)'
  <2> SUFFICES ASSUME CacheInv, LeaseProtects, [Next]_vars PROVE LeaseProtects'
    BY StepCache
  <2>0. Typed
    BY DEF CacheInv
  <2>1. ASSUME UNCHANGED vars PROVE LeaseProtects'
    BY <2>1 DEF vars, LeaseProtects, LeasedBy
  <2>2. ASSUME NEW p \in alive, Step(p) PROVE LeaseProtects'
    <3>0. p \in Procs /\ alive' \subseteq {p}
      BY <2>0, <2>2, AliveShrinks DEF Typed
    <3>1. CASE pc'[p] \notin {"lease", "verify"}
      BY <3>0, <3>1 DEF LeaseProtects, LeasedBy
    <3>2. CASE pc'[p] \in {"lease", "verify"}
      <4>1. Fetched(p) \/ Lease(p) \/ Verify(p) \/ Die(p)
        BY <2>0, <2>2, <3>0, <3>2, LeaseMoves
      <4>2. CASE Fetched(p)
        BY <2>0, <3>0, <4>2 DEF Fetched, LeaseProtects, LeasedBy, Typed
      <4>3. CASE Lease(p)
        BY <2>0, <3>0, <4>3 DEF Lease, LeaseProtects, LeasedBy, Typed
      <4>4. CASE Verify(p)
        <5>1. pc[p] = "verify" /\ want' = want /\ file' = file
          BY <4>4 DEF Verify
        <5>2. \/ file[art[p]] = "good" /\ todo'[p] = todo[p] \ {art[p]}
              \/ pc'[p] = "closing"
          BY <2>0, <3>0, <4>4 DEF Verify, Typed
        <5>3. \A a \in want[p] \ todo[p] : file[a] = "good"
          BY <5>1 DEF LeaseProtects, LeasedBy
        <5>4. \A a \in LeasedBy(p)' : file[a] = "good"
          BY <5>1, <5>2, <5>3 DEF LeasedBy
        <5> QED
          BY <3>0, <5>1, <5>4 DEF LeaseProtects
      <4>5. CASE Die(p)
        BY <3>0, <4>5 DEF Die, LeaseProtects, LeasedBy
      <4> QED
        BY <4>1, <4>2, <4>3, <4>4, <4>5
    <3> QED
      BY <3>1, <3>2
  <2>3. \A a \in Artifacts : ~Corrupt(a)
    BY DEF Corrupt
  <2> QED
    BY <2>1, <2>2, <2>3 DEF Next, Step
<1> QED
  BY <1>1, <1>2, PTL DEF Spec
=============================================================================
