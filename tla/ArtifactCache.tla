---------------------------- MODULE ArtifactCache ----------------------------
(***************************************************************************)
(* Contents of the dependency cache: CacheManager.acquire_artifact,        *)
(* put_artifact, artifact_lease, _prune_cache_locked and clear_cache       *)
(* (macloader/dependencies/cache.py) as Orchestrator.fetch_dependencies    *)
(* and lease_dependencies (macloader/orchestrator.py) drive them.          *)
(*                                                                         *)
(* Processes share one cache directory.  There is one lock per artifact    *)
(* and one for the whole cache; here they are ideal locks that a dead      *)
(* owner loses (CacheLock models the lock files themselves).  All files    *)
(* have size 1.  Artifacts are numbers in the order of their dependency    *)
(* ids.  Unfinished downloads (.part files) are left out: they live only   *)
(* under their artifact's lock and are published by one rename.            *)
(***************************************************************************)
EXTENDS Integers, Sequences, FiniteSets

CONSTANTS
    Procs,      \* processes sharing the cache
    Artifacts,  \* dependency artifacts, in the order of their ids
    MaxFiles,   \* max_cache_bytes
    MaxOps,     \* bound: operations that each process starts
    Faults,     \* faults that may happen, out of AllFaults
    None        \* a free lock

\* "die": a process is killed; "corrupt": a cached file is damaged on disk;
\* "save": writing the index fails; "unlink": removing a file while pruning or
\* clearing fails, or is interrupted with Ctrl-C.
AllFaults == {"die", "corrupt", "save", "unlink"}

ASSUME CacheConstants ==
    /\ Artifacts \subseteq Nat
    /\ IsFiniteSet(Artifacts)
    /\ MaxFiles \in Nat
    /\ MaxOps \in Nat
    /\ Faults \subseteq AllFaults
    /\ None \notin Procs

VARIABLES
    pc,     \* where each process is in its operation
    want,   \* artifacts its build needs; {} when it clears the cache
    todo,   \* those not yet fetched, later not yet leased
    art,    \* the artifact it is fetching
    queue,  \* files it still has to look at while it prunes or clears
    total,  \* its count of the cached bytes while it prunes
    pruned, \* processes that are pruning or clearing and have removed a file
    ops,    \* operations it has started
    alive,  \* processes that have not been killed
    owner,  \* owner of each artifact's lock
    glock,  \* owner of the cache lock
    file,   \* "absent", "good" (matches its SHA-256) or "bad"
    byAge,  \* the artifacts that have a file, oldest first
    index   \* artifacts listed in index.json

local == <<want, todo, art, queue, total, pruned>>
vars == <<pc, want, todo, art, queue, total, pruned, ops, alive, owner, glock, file, byAge, index>>

Goto(p, l) == pc' = [pc EXCEPT ![p] = l]

Oldest(S) == CHOOSE a \in S : \A b \in S : a <= b
Newest(S) == CHOOSE a \in S : \A b \in S : a >= b

Entries(s) == {s[i] : i \in 1..Len(s)}

\* s without a, which is in it once or not at all.
Without(s, a) ==
    IF a \notin Entries(s) THEN s
    ELSE LET k == CHOOSE i \in 1..Len(s) : s[i] = a
         IN  [i \in 1..(Len(s) - 1) |-> s[IF i < k THEN i ELSE i + 1]]

Free(o) == o = None \/ o \notin alive
Held(p) == {a \in Artifacts : owner[a] = p}
Clearing(p) == want[p] = {}

Init ==
    /\ pc = [p \in Procs |-> "idle"]
    /\ want = [p \in Procs |-> {}]
    /\ todo = [p \in Procs |-> {}]
    /\ art = [p \in Procs |-> None]
    /\ queue = [p \in Procs |-> <<>>]
    /\ total = [p \in Procs |-> 0]
    /\ pruned = {}
    /\ ops = [p \in Procs |-> 0]
    /\ alive = Procs
    /\ owner = [a \in Artifacts |-> None]
    /\ glock = None
    /\ file = [a \in Artifacts |-> "absent"]
    /\ byAge = <<>>
    /\ index = {}

-----------------------------------------------------------------------------
(* Operations start: a build fetches and leases what it needs; "deps cache   *)
(* --clear" clears.                                                          *)

Start(p, S, l) ==
    /\ pc[p] = "idle"
    /\ ops[p] < MaxOps
    /\ ops' = [ops EXCEPT ![p] = @ + 1]
    /\ want' = [want EXCEPT ![p] = S]
    /\ todo' = [todo EXCEPT ![p] = S]
    /\ Goto(p, l)
    /\ UNCHANGED <<art, queue, total, pruned, alive, owner, glock, file, byAge, index>>

StartBuild(p) == \E S \in (SUBSET Artifacts) \ {{}} : Start(p, S, "fetch")

StartClear(p) == Start(p, {}, "clear")

-----------------------------------------------------------------------------
(* fetch_dependencies and acquire_artifact *)

\* The next dependency (in the resolver's order, any here): a verified cache
\* hit needs no lock.
FetchNext(p) ==
    /\ pc[p] = "fetch"
    /\ \E a \in todo[p] :
         \/ /\ file[a] = "good"
            /\ todo' = [todo EXCEPT ![p] = @ \ {a}]
            /\ UNCHANGED <<pc, art>>
         \/ /\ file[a] # "good"
            /\ art' = [art EXCEPT ![p] = a]
            /\ Goto(p, "miss")
            /\ UNCHANGED todo
    /\ UNCHANGED <<want, queue, total, pruned, ops, alive, owner, glock, file, byAge, index>>

\* artifact_locked.
LockArtifact(p) ==
    /\ pc[p] = "miss"
    /\ Free(owner[art[p]])
    /\ owner' = [owner EXCEPT ![art[p]] = p]
    /\ Goto(p, "recheck")
    /\ UNCHANGED <<local, ops, alive, glock, file, byAge, index>>

\* A plausible bug: the miss seen before the lock is trusted.
RecheckForgotten(p) ==
    /\ pc[p] = "recheck"
    /\ Goto(p, "download")
    /\ UNCHANGED <<local, ops, alive, owner, glock, file, byAge, index>>

\* The cache is checked again under the lock.
Recheck(p) ==
    /\ pc[p] = "recheck"
    /\ Goto(p, IF file[art[p]] = "good" THEN "release" ELSE "download")
    /\ UNCHANGED <<local, ops, alive, owner, glock, file, byAge, index>>

\* download_artifact: the verified file replaces whatever is cached.
Publish(p) ==
    /\ pc[p] = "download"
    /\ file' = [file EXCEPT ![art[p]] = "good"]
    /\ byAge' = Append(Without(byAge, art[p]), art[p])
    /\ Goto(p, "put")
    /\ UNCHANGED <<local, ops, alive, owner, glock, index>>

\* A plausible bug: put_artifact and clear_cache go on without the cache lock.
LockCacheUnchecked(p) ==
    /\ pc[p] \in {"put", "clear"}
    /\ glock' = p
    /\ Goto(p, IF pc[p] = "put" THEN "index" ELSE "list")
    /\ UNCHANGED <<local, ops, alive, owner, file, byAge, index>>

\* put_artifact and clear_cache take the cache lock.
LockCache(p) ==
    /\ pc[p] \in {"put", "clear"}
    /\ Free(glock)
    /\ glock' = p
    /\ Goto(p, IF pc[p] = "put" THEN "index" ELSE "list")
    /\ UNCHANGED <<local, ops, alive, owner, file, byAge, index>>

\* put_artifact: hash the published file again, enter it in the index, and
\* list the files for pruning.
Index(p) ==
    /\ pc[p] = "index"
    /\ file[art[p]] = "good"
    /\ index' = index \cup {art[p]}
    /\ queue' = [queue EXCEPT ![p] = byAge]
    /\ total' = [total EXCEPT ![p] = Len(byAge)]
    /\ Goto(p, "prune")
    /\ UNCHANGED <<want, todo, art, pruned, ops, alive, owner, glock, file, byAge>>

\* The file is gone or differs, or the index cannot be written.
IndexFails(p) ==
    /\ pc[p] = "index"
    /\ file[art[p]] # "good" \/ "save" \in Faults
    /\ Goto(p, "closing")
    /\ UNCHANGED <<local, ops, alive, owner, glock, file, byAge, index>>

\* acquire_artifact returns: its lock is released.
Release(p) ==
    /\ pc[p] = "release"
    /\ owner' = [owner EXCEPT ![art[p]] = None]
    /\ todo' = [todo EXCEPT ![p] = @ \ {art[p]}]
    /\ art' = [art EXCEPT ![p] = None]
    /\ Goto(p, "fetch")
    /\ UNCHANGED <<want, queue, total, pruned, ops, alive, glock, file, byAge, index>>

-----------------------------------------------------------------------------
(* _prune_cache_locked and clear_cache, under the cache lock *)

ListFiles(p) ==
    /\ pc[p] = "list"
    /\ queue' = [queue EXCEPT ![p] = byAge]
    /\ Goto(p, "prune")
    /\ UNCHANGED <<want, todo, art, total, pruned, ops, alive, owner, glock, file, byAge, index>>

\* Pruning goes from the oldest file and stops within the limit; clearing
\* visits every file, in no particular order.
Candidates(p) ==
    IF Clearing(p) THEN Entries(queue[p])
    ELSE IF queue[p] = <<>> \/ total[p] <= MaxFiles THEN {}
    ELSE {Head(queue[p])}

\* _is_active_artifact_lease: a live owner protects the file.
Leased(a) == ~Free(owner[a])

\* A plausible bug: a file is removed whoever holds its lock.
InspectUnprotected(p) ==
    /\ pc[p] = "prune"
    /\ \E a \in Candidates(p) :
         /\ queue' = [queue EXCEPT ![p] = <<a>> \o Without(@, a)]
         /\ Goto(p, "unlink")
    /\ UNCHANGED <<want, todo, art, total, pruned, ops, alive, owner, glock, file, byAge, index>>

\* Look at the next file: skip it when it is leased, else go on to unlink it.
Inspect(p) ==
    /\ pc[p] = "prune"
    /\ \E a \in Candidates(p) :
         \/ /\ Leased(a)
            /\ queue' = [queue EXCEPT ![p] = Without(@, a)]
            /\ UNCHANGED pc
         \/ /\ ~Leased(a)
            /\ queue' = [queue EXCEPT ![p] = <<a>> \o Without(@, a)]
            /\ Goto(p, "unlink")
    /\ UNCHANGED <<want, todo, art, total, pruned, ops, alive, owner, glock, file, byAge, index>>

\* A plausible bug: the removed bytes are not counted down.
UnlinkUncounted(p) ==
    /\ pc[p] = "unlink"
    /\ LET a == Head(queue[p]) IN
         /\ file' = [file EXCEPT ![a] = "absent"]
         /\ byAge' = Without(byAge, a)
    /\ queue' = [queue EXCEPT ![p] = Tail(@)]
    /\ pruned' = pruned \cup {p}
    /\ Goto(p, "prune")
    /\ UNCHANGED <<want, todo, art, total, ops, alive, owner, glock, index>>

Unlink(p) ==
    /\ pc[p] = "unlink"
    /\ LET a == Head(queue[p]) IN
         /\ file' = [file EXCEPT ![a] = "absent"]
         /\ byAge' = Without(byAge, a)
    /\ queue' = [queue EXCEPT ![p] = Tail(@)]
    /\ total' = [total EXCEPT ![p] = IF Clearing(p) THEN @ ELSE @ - 1]
    /\ pruned' = pruned \cup {p}
    /\ Goto(p, "prune")
    /\ UNCHANGED <<want, todo, art, ops, alive, owner, glock, index>>

\* A plausible bug: pruned files stay in the index.
PruneEndKeepingIndex(p) ==
    /\ pc[p] = "prune"
    /\ Candidates(p) = {}
    /\ index' = IF Clearing(p) THEN {} ELSE index
    /\ pruned' = pruned \ {p}
    /\ glock' = None
    /\ queue' = [queue EXCEPT ![p] = <<>>]
    /\ total' = [total EXCEPT ![p] = 0]
    /\ Goto(p, IF Clearing(p) THEN "closing" ELSE "release")
    /\ UNCHANGED <<want, todo, art, ops, alive, owner, file, byAge>>

\* Clearing drops the whole index; pruning drops the entries of files that are
\* gone, but only if it has removed a file itself.  The cache lock is released.
PruneEnd(p) ==
    /\ pc[p] = "prune"
    /\ Candidates(p) = {}
    /\ index' = IF Clearing(p) THEN {}
                ELSE IF p \in pruned THEN index \cap Entries(byAge)
                ELSE index
    /\ pruned' = pruned \ {p}
    /\ glock' = None
    /\ queue' = [queue EXCEPT ![p] = <<>>]
    /\ total' = [total EXCEPT ![p] = 0]
    /\ Goto(p, IF Clearing(p) THEN "closing" ELSE "release")
    /\ UNCHANGED <<want, todo, art, ops, alive, owner, file, byAge>>

\* A file (or, while clearing, the index) cannot be removed: what was removed
\* before stays in the index.
UnlinkFails(p) ==
    /\ "unlink" \in Faults
    /\ pc[p] \in {"prune", "unlink"}
    /\ Goto(p, "closing")
    /\ pruned' = pruned \ {p}
    /\ UNCHANGED <<want, todo, art, queue, total, ops, alive, owner, glock, file, byAge, index>>

\* The index cannot be written after files were removed.
PruneFails(p) ==
    /\ pc[p] = "prune"
    /\ "save" \in Faults
    /\ Candidates(p) = {}
    /\ ~Clearing(p)
    /\ p \in pruned
    /\ ~(index \subseteq Entries(byAge))
    /\ Goto(p, "closing")
    /\ pruned' = pruned \ {p}
    /\ UNCHANGED <<want, todo, art, queue, total, ops, alive, owner, glock, file, byAge, index>>

-----------------------------------------------------------------------------
(* lease_dependencies *)

\* Everything is fetched: lease it all, in the order of the ids.
Fetched(p) ==
    /\ pc[p] = "fetch"
    /\ todo[p] = {}
    /\ todo' = [todo EXCEPT ![p] = want[p]]
    /\ Goto(p, "lease")
    /\ UNCHANGED <<want, art, queue, total, pruned, ops, alive, owner, glock, file, byAge, index>>

\* A plausible bug: the leases are taken in the order of the dependency set.
LeaseUnordered(p) ==
    /\ pc[p] = "lease"
    /\ \E a \in todo[p] :
         /\ Free(owner[a])
         /\ owner' = [owner EXCEPT ![a] = p]
         /\ art' = [art EXCEPT ![p] = a]
    /\ Goto(p, "verify")
    /\ UNCHANGED <<want, todo, queue, total, pruned, ops, alive, glock, file, byAge, index>>

Lease(p) ==
    /\ pc[p] = "lease"
    /\ todo[p] # {}
    /\ LET a == Oldest(todo[p]) IN
         /\ Free(owner[a])
         /\ owner' = [owner EXCEPT ![a] = p]
         /\ art' = [art EXCEPT ![p] = a]
    /\ Goto(p, "verify")
    /\ UNCHANGED <<want, todo, queue, total, pruned, ops, alive, glock, file, byAge, index>>

\* A leased file is verified again; it may have gone since it was fetched.
Verify(p) ==
    /\ pc[p] = "verify"
    /\ \/ /\ file[art[p]] = "good"
          /\ todo' = [todo EXCEPT ![p] = @ \ {art[p]}]
          /\ Goto(p, "lease")
       \/ /\ file[art[p]] # "good"
          /\ Goto(p, "closing")
          /\ UNCHANGED todo
    /\ UNCHANGED <<want, art, queue, total, pruned, ops, alive, owner, glock, file, byAge, index>>

\* Every lease is taken, and the build runs to its end.
Build(p) ==
    /\ pc[p] = "lease"
    /\ todo[p] = {}
    /\ Goto(p, "closing")
    /\ UNCHANGED <<local, ops, alive, owner, glock, file, byAge, index>>

-----------------------------------------------------------------------------
(* Leaving *)

\* Cancelled, offline, timed out on a lock, or the download failed.
GiveUp(p) ==
    /\ pc[p] \in {"fetch", "miss", "recheck", "download", "put", "clear", "lease"}
    /\ Goto(p, "closing")
    /\ UNCHANGED <<local, ops, alive, owner, glock, file, byAge, index>>

\* The locks are released, the last one taken first.
Close(p) ==
    /\ pc[p] = "closing"
    /\ \/ /\ glock = p
          /\ glock' = None
          /\ UNCHANGED <<pc, want, todo, art, queue, total, owner>>
       \/ /\ glock # p
          /\ Held(p) # {}
          /\ owner' = [owner EXCEPT ![Newest(Held(p))] = None]
          /\ UNCHANGED <<pc, want, todo, art, queue, total, glock>>
       \/ /\ glock # p
          /\ Held(p) = {}
          /\ want' = [want EXCEPT ![p] = {}]
          /\ todo' = [todo EXCEPT ![p] = {}]
          /\ art' = [art EXCEPT ![p] = None]
          /\ queue' = [queue EXCEPT ![p] = <<>>]
          /\ total' = [total EXCEPT ![p] = 0]
          /\ Goto(p, "idle")
          /\ UNCHANGED <<owner, glock>>
    /\ UNCHANGED <<pruned, ops, alive, file, byAge, index>>

\* The process is killed; its locks stay behind until somebody takes them.
Die(p) ==
    /\ "die" \in Faults
    /\ pc[p] # "idle"
    /\ alive' = alive \ {p}
    /\ want' = [want EXCEPT ![p] = {}]
    /\ todo' = [todo EXCEPT ![p] = {}]
    /\ art' = [art EXCEPT ![p] = None]
    /\ queue' = [queue EXCEPT ![p] = <<>>]
    /\ total' = [total EXCEPT ![p] = 0]
    /\ UNCHANGED <<pc, pruned, ops, owner, glock, file, byAge, index>>

\* A cached file is damaged outside the program.
Corrupt(a) ==
    /\ "corrupt" \in Faults
    /\ file[a] = "good"
    /\ file' = [file EXCEPT ![a] = "bad"]
    /\ UNCHANGED <<pc, local, ops, alive, owner, glock, byAge, index>>

\* What a process does once its operation has started.
Continue(p) ==
    \/ FetchNext(p) \/ LockArtifact(p) \/ Recheck(p) \/ Publish(p) \/ LockCache(p)
    \/ Index(p) \/ IndexFails(p) \/ Release(p) \/ ListFiles(p) \/ Inspect(p)
    \/ Unlink(p) \/ UnlinkFails(p) \/ PruneEnd(p) \/ PruneFails(p) \/ Fetched(p)
    \/ Lease(p) \/ Verify(p) \/ Build(p) \/ Close(p)

Next ==
    \/ \E p \in alive : Continue(p) \/ StartBuild(p) \/ StartClear(p) \/ GiveUp(p) \/ Die(p)
    \/ \E a \in Artifacts : Corrupt(a)

Spec == Init /\ [][Next]_vars

\* A process that can go on does; giving up is never relied on.
FairSpec == Spec /\ \A p \in Procs : WF_vars(p \in alive /\ Continue(p))

-----------------------------------------------------------------------------
(* Properties *)

Stages == {"idle", "fetch", "miss", "recheck", "download", "put", "index", "release", "clear",
           "list", "prune", "unlink", "lease", "verify", "closing"}

\* Types; files are listed by age, and whoever prunes or clears holds the
\* cache lock.
TypeOK ==
    /\ pc \in [Procs -> Stages]
    /\ want \in [Procs -> SUBSET Artifacts]
    /\ todo \in [Procs -> SUBSET Artifacts]
    /\ art \in [Procs -> Artifacts \cup {None}]
    /\ queue \in [Procs -> Seq(Artifacts)]
    /\ total \in [Procs -> Int]
    /\ pruned \subseteq Procs
    /\ ops \in [Procs -> 0..MaxOps]
    /\ alive \subseteq Procs
    /\ owner \in [Artifacts -> Procs \cup {None}]
    /\ glock \in Procs \cup {None}
    /\ file \in [Artifacts -> {"absent", "good", "bad"}]
    /\ byAge \in Seq(Artifacts)
    /\ index \subseteq Artifacts
    /\ Entries(byAge) = {a \in Artifacts : file[a] # "absent"}
    /\ \A p \in alive : pc[p] \in {"index", "list", "prune", "unlink"} => glock = p

\* Concurrent misses of an artifact lead to one download: nobody downloads
\* an artifact that is in the cache by then.
NoRedundantDownload ==
    \A p \in alive : pc[p] = "download" => file[art[p]] # "good"

\* What a process published is still there when put_artifact hashes it again:
\* nobody prunes or clears it meanwhile.
PublishedStays ==
    \A p \in alive : pc[p] \in {"put", "index"} => file[art[p]] = "good"

\* While nobody alive holds the cache lock, what the index lists is in the
\* cache, unless somebody was killed after it had removed files: the entries of
\* those stay until another process prunes a file itself, or clears.
IndexTruthful ==
    Free(glock) /\ pruned \subseteq alive => \A a \in index : file[a] # "absent"

\* Pruning never removes a file while the cache is within its limit, although
\* it counts the bytes once and others publish meanwhile.
NoNeedlessEviction ==
    [][\A p \in Procs : pc[p] = "unlink" /\ pc'[p] = "prune" /\ ~Clearing(p)
                          => Len(byAge) > MaxFiles]_vars

\* The files that a build has leased.
LeasedBy(p) == IF pc[p] \in {"lease", "verify"} THEN want[p] \ todo[p] ELSE {}

\* artifact_lease: "Keep a verified cache entry protected for the whole build."
LeaseProtects ==
    \A p \in alive : \A a \in LeasedBy(p) : file[a] = "good"

\* Every operation ends, without anybody's lock timing out.
OperationsEnd ==
    \A p \in Procs : pc[p] # "idle" ~> pc[p] = "idle" \/ p \notin alive

\* A lock that o owns keeps the others out as long as o is alive.
Inside(o) == {o} \cap alive

\* The locks taken here are those that CacheLock implements.
CacheWideLock == INSTANCE Mutex WITH Users <- Procs, inside <- Inside(glock)
ArtifactLock(a) == INSTANCE Mutex WITH Users <- Procs, inside <- Inside(owner[a])
=============================================================================
