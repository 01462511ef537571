------------------------------ MODULE CacheLock ------------------------------
(***************************************************************************)
(* The lock file of the dependency cache (CacheManager._locked_file in     *)
(* macloader/dependencies/cache.py): O_EXCL creation, metadata written in  *)
(* a second system call, reclaim of stale files through a rename, release  *)
(* by comparing the token.  One instance of this module is one lock path;  *)
(* the cache uses one for the whole store and one per artifact.            *)
(*                                                                         *)
(* A file is named by the acquisition that created it: the token           *)
(* [owner, n] stands for the inode opened by owner's n-th call, and        *)
(* "written" says whether that inode has its metadata yet.  A rename moves *)
(* the token from path to aside[p], the private ".reclaim.*.tmp" of p.     *)
(***************************************************************************)
EXTENDS Integers, FiniteSets

CONSTANTS
    Procs,      \* processes that use the lock; each has its own PID
    Hosts,      \* machines that share the cache directory
    Host,       \* Host[p]: the machine p runs on
    Mortal,     \* processes that may be killed
    MaxUses,    \* bound: MaxUses[p] acquisitions are started by p
    Faults,     \* environment faults the configuration admits
    None        \* no file, no token

AllFaults == {"torn", "write", "stall", "expire", "restore", "unlink"}

ASSUME ConstantsAssumption ==
    /\ MaxUses \in [Procs -> Nat]
    /\ Mortal \subseteq Procs
    /\ Faults \subseteq AllFaults
    /\ Host \in [Procs -> Hosts]

Tokens == UNION {[owner : {p}, n : 1..MaxUses[p]] : p \in Procs}

ASSUME NoneAssumption == None \notin Tokens

VARIABLES
    pc,        \* where each process is in _locked_file
    uses,      \* acquisitions started: the n of the current token
    path,      \* file at the lock path
    aside,     \* file at the reclaim path of each process
    written,   \* files whose metadata has been written
    aged,      \* files whose mtime is more than one second old
    expired,   \* tokens acquired_at more than remote_lease_seconds ago
    seen,      \* token read from the lock file by a contender
    expect,    \* expected_token passed to _atomic_reclaim
    tried,     \* first_attempt is False
    late       \* time.monotonic() >= deadline

vars == <<pc, uses, path, aside, written, aged, expired, seen, expect, tried, late>>

Tok(p) == [owner |-> p, n |-> uses[p]]

Alive(p) == pc[p] # "dead"

\* What is_process_alive / the remote lease says of the owner of a lock.
OwnerAlive(p, t) ==
    IF Host[t.owner] = Host[p] THEN Alive(t.owner) ELSE t \notin expired

\* _read_lock_meta returns None for a missing and for an empty file.
Readable(f) == f # None /\ f \in written

Goto(p, l) == pc' = [pc EXCEPT ![p] = l]

Present == {path} \cup {aside[p] : p \in Procs}

Labels == {"idle", "loop", "created", "read", "stat", "judge", "reclaim",
           "aside", "held", "unlink", "dead"}

Waiting(p) == pc[p] \in {"loop", "created", "read", "stat", "judge", "reclaim", "aside"}
Holding(p) == pc[p] \in {"held", "unlink"}

Init ==
    /\ pc = [p \in Procs |-> "idle"]
    /\ uses = [p \in Procs |-> 0]
    /\ path = None
    /\ aside = [p \in Procs |-> None]
    /\ written = {}
    /\ aged = {}
    /\ expired = {}
    /\ seen = [p \in Procs |-> None]
    /\ expect = [p \in Procs |-> None]
    /\ tried = {}
    /\ late = {}

-----------------------------------------------------------------------------
(* Acquisition *)

\* Enter _locked_file: a fresh token, a deadline, acquired_at taken now.
Start(p) ==
    /\ pc[p] = "idle"
    /\ uses[p] < MaxUses[p]
    /\ uses' = [uses EXCEPT ![p] = @ + 1]
    /\ tried' = tried \ {p}
    /\ late' = late \ {p}
    /\ Goto(p, "loop")
    /\ UNCHANGED <<path, aside, written, aged, expired, seen, expect>>

\* The cancel callback returns true at the head of the loop.
Cancel(p) ==
    /\ pc[p] = "loop"
    /\ Goto(p, "idle")
    /\ UNCHANGED <<uses, path, aside, written, aged, expired, seen, expect, tried, late>>

\* A plausible bug: the deadline is only looked at before the first attempt.
TimeOutOnlyFirst(p) ==
    /\ pc[p] = "loop"
    /\ p \notin tried
    /\ p \in late
    /\ Goto(p, "idle")
    /\ UNCHANGED <<uses, path, aside, written, aged, expired, seen, expect, tried, late>>

\* TimeoutError: never before the first attempt.
TimeOut(p) ==
    /\ pc[p] = "loop"
    /\ p \in tried
    /\ p \in late
    /\ Goto(p, "idle")
    /\ UNCHANGED <<uses, path, aside, written, aged, expired, seen, expect, tried, late>>

\* os.open(O_CREAT | O_EXCL): creates an empty file or fails with FileExistsError.
Open(p) ==
    /\ pc[p] = "loop"
    /\ p \notin tried \/ p \notin late
    /\ tried' = tried \cup {p}
    /\ \/ /\ path = None
          /\ path' = Tok(p)
          /\ Goto(p, "created")
       \/ /\ path # None
          /\ UNCHANGED path
          /\ Goto(p, "read")
    /\ UNCHANGED <<uses, aside, written, aged, expired, seen, expect, late>>

\* os.write(meta) through the open descriptor, wherever the inode is by now.
Write(p) ==
    /\ pc[p] = "created"
    /\ written' = written \cup {Tok(p)}
    /\ aged' = aged \ {Tok(p)}
    /\ Goto(p, "held")
    /\ UNCHANGED <<uses, path, aside, expired, seen, expect, tried, late>>

\* os.write raises: the error leaves _locked_file, the empty file stays.
WriteFails(p) ==
    /\ "write" \in Faults
    /\ pc[p] = "created"
    /\ Goto(p, "idle")
    /\ UNCHANGED <<uses, path, aside, written, aged, expired, seen, expect, tried, late>>

-----------------------------------------------------------------------------
(* Judging the file that is in the way *)

\* A plausible bug: the contender judges a file it could not read.
ReadUnchecked(p) ==
    /\ pc[p] = "read"
    /\ seen' = [seen EXCEPT ![p] = path]
    /\ Goto(p, "judge")
    /\ UNCHANGED <<uses, path, aside, written, aged, expired, expect, tried, late>>

\* _read_lock_meta of the lock path.
Read(p) ==
    /\ pc[p] = "read"
    /\ \/ /\ Readable(path)
          /\ seen' = [seen EXCEPT ![p] = path]
          /\ Goto(p, "judge")
       \/ /\ ~Readable(path)
          /\ Goto(p, "stat")
          /\ UNCHANGED seen
    /\ UNCHANGED <<uses, path, aside, written, aged, expired, expect, tried, late>>

\* No metadata: stat the path; older than one second means corrupt.
Stat(p) ==
    /\ pc[p] = "stat"
    /\ \/ /\ path # None
          /\ path \in aged
          /\ expect' = [expect EXCEPT ![p] = None]
          /\ Goto(p, "reclaim")
       \/ /\ path \notin aged
          /\ Goto(p, "loop")
          /\ UNCHANGED expect
    /\ UNCHANGED <<uses, path, aside, written, aged, expired, seen, tried, late>>

\* A plausible bug: the contender waits for every owner, dead or alive.
JudgeNeverReclaims(p) ==
    /\ pc[p] = "judge"
    /\ Goto(p, "loop")
    /\ UNCHANGED <<uses, path, aside, written, aged, expired, seen, expect, tried, late>>

\* Metadata read: reclaim a dead owner's lock, wait for a live one.
Judge(p) ==
    /\ pc[p] = "judge"
    /\ seen' = [seen EXCEPT ![p] = None]
    /\ \/ /\ ~OwnerAlive(p, seen[p])
          /\ expect' = [expect EXCEPT ![p] = seen[p]]
          /\ Goto(p, "reclaim")
       \/ /\ OwnerAlive(p, seen[p])
          /\ Goto(p, "loop")
          /\ UNCHANGED expect
    /\ UNCHANGED <<uses, path, aside, written, aged, expired, tried, late>>

-----------------------------------------------------------------------------
(* _atomic_reclaim *)

\* os.replace(lock path, reclaim path): takes whatever is there now.
MoveAside(p) ==
    /\ pc[p] = "reclaim"
    /\ \/ /\ path # None
          /\ aside' = [aside EXCEPT ![p] = path]
          /\ path' = None
          /\ Goto(p, "aside")
          /\ UNCHANGED expect
       \/ /\ path = None
          /\ expect' = [expect EXCEPT ![p] = None]
          /\ Goto(p, "loop")
          /\ UNCHANGED <<path, aside>>
    /\ UNCHANGED <<uses, written, aged, expired, seen, tried, late>>

\* A plausible bug: the moved file is deleted without comparing its token.
TakenUnchecked(p) == aside[p] # None

\* Nothing expected, or the file carries the token that was judged stale.
TakenAsExpected(p) ==
    expect[p] = None \/ (aside[p] \in written /\ aside[p] = expect[p])

\* The moved file is the expected one: delete it.
Discard(p) ==
    /\ pc[p] = "aside"
    /\ TakenAsExpected(p)
    /\ aside' = [aside EXCEPT ![p] = None]
    /\ expect' = [expect EXCEPT ![p] = None]
    /\ Goto(p, "loop")
    /\ UNCHANGED <<uses, path, written, aged, expired, seen, tried, late>>

\* It is someone else's: os.replace it back, over whatever is at the path now.
Restore(p) ==
    /\ pc[p] = "aside"
    /\ ~TakenAsExpected(p)
    /\ path' = aside[p]
    /\ aside' = [aside EXCEPT ![p] = None]
    /\ expect' = [expect EXCEPT ![p] = None]
    /\ Goto(p, "loop")
    /\ UNCHANGED <<uses, written, aged, expired, seen, tried, late>>

\* The replace raises OSError: the other owner's file is deleted.
RestoreFails(p) ==
    /\ "restore" \in Faults
    /\ pc[p] = "aside"
    /\ ~TakenAsExpected(p)
    /\ aside' = [aside EXCEPT ![p] = None]
    /\ expect' = [expect EXCEPT ![p] = None]
    /\ Goto(p, "loop")
    /\ UNCHANGED <<uses, path, written, aged, expired, seen, tried, late>>

-----------------------------------------------------------------------------
(* Release *)

\* The finally block reads the lock file and compares the token.
ReadOwn(p) ==
    /\ pc[p] = "held"
    /\ \/ /\ path = Tok(p)
          /\ Goto(p, "unlink")
       \/ /\ path # Tok(p)
          /\ Goto(p, "idle")
    /\ UNCHANGED <<uses, path, aside, written, aged, expired, seen, expect, tried, late>>

\* unlink(missing_ok=True) by name: whatever is at the path goes.
Unlink(p) ==
    /\ pc[p] = "unlink"
    /\ path' = None
    /\ Goto(p, "idle")
    /\ UNCHANGED <<uses, aside, written, aged, expired, seen, expect, tried, late>>

\* All five unlink attempts raise OSError: logged, the file stays.
UnlinkFails(p) ==
    /\ "unlink" \in Faults
    /\ pc[p] = "unlink"
    /\ Goto(p, "idle")
    /\ UNCHANGED <<uses, path, aside, written, aged, expired, seen, expect, tried, late>>

-----------------------------------------------------------------------------
(* The environment *)

\* The process is killed.  Its file stays; being killed between os.open and
\* os.write is the "torn" fault.
Die(p) ==
    /\ p \in Mortal
    /\ Alive(p)
    /\ pc[p] = "created" => "torn" \in Faults
    /\ Goto(p, "dead")
    /\ UNCHANGED <<uses, path, aside, written, aged, expired, seen, expect, tried, late>>

\* A file becomes older than one second.  Unless the system stalls, neither
\* the two system calls of a creation nor a contender's read and stat are that
\* far apart.
Age(t) ==
    /\ t \in Present \ {None}
    /\ t \notin aged
    /\ "stall" \in Faults \/
          /\ \A p \in Procs : pc[p] = "created" => t # Tok(p)
          /\ \A p \in Procs : pc[p] # "stat"
    /\ aged' = aged \cup {t}
    /\ UNCHANGED <<pc, uses, path, aside, written, expired, seen, expect, tried, late>>

\* The remote lease of a token runs out, whether or not its owner is done.
Expire(t) ==
    /\ "expire" \in Faults
    /\ t.n <= uses[t.owner]
    /\ t \notin expired
    /\ expired' = expired \cup {t}
    /\ UNCHANGED <<pc, uses, path, aside, written, aged, seen, expect, tried, late>>

\* The waiting time of p reaches its deadline.
Deadline(p) ==
    /\ Waiting(p)
    /\ p \notin late
    /\ late' = late \cup {p}
    /\ UNCHANGED <<pc, uses, path, aside, written, aged, expired, seen, expect, tried>>

-----------------------------------------------------------------------------

Step(p) ==
    \/ TimeOut(p) \/ Open(p) \/ Write(p) \/ WriteFails(p)
    \/ Read(p) \/ Stat(p) \/ Judge(p)
    \/ MoveAside(p) \/ Discard(p) \/ Restore(p) \/ RestoreFails(p)
    \/ ReadOwn(p) \/ Unlink(p) \/ UnlinkFails(p)

Environment ==
    \/ \E p \in Procs : Start(p) \/ Cancel(p) \/ Die(p) \/ Deadline(p)
    \/ \E t \in Tokens : Age(t) \/ Expire(t)

Next == Environment \/ \E p \in Procs : Step(p)

Spec == Init /\ [][Next]_vars

\* A live process keeps executing.  Nobody is obliged to ask for the lock, to
\* cancel, to die, and a deadline may be as far away as one likes.
FairSpec == Spec /\ \A p \in Procs : WF_vars(Step(p))

\* In addition monotonic time passes: every deadline comes.
TimedSpec == FairSpec /\ \A p \in Procs : WF_vars(Deadline(p))

-----------------------------------------------------------------------------
(* Properties *)

\* Types of all variables; a contender judges a token it read and settles a
\* file it moved.
TypeOK ==
    /\ pc \in [Procs -> Labels]
    /\ uses \in [Procs -> Nat]
    /\ \A p \in Procs : uses[p] <= MaxUses[p]
    /\ \A p \in Procs : pc[p] \notin {"idle", "dead"} => uses[p] > 0
    /\ path \in Tokens \cup {None}
    /\ aside \in [Procs -> Tokens \cup {None}]
    /\ written \subseteq Tokens
    /\ aged \subseteq Tokens
    /\ expired \subseteq Tokens
    /\ seen \in [Procs -> Tokens \cup {None}]
    /\ expect \in [Procs -> Tokens \cup {None}]
    /\ tried \subseteq Procs
    /\ late \subseteq Procs
    /\ \A p \in Procs : pc[p] = "judge" => seen[p] # None
    /\ \A p \in Procs : pc[p] = "aside" => aside[p] # None

\* At most one process is inside the body of _locked_file: what every user of
\* the cache relies on when it downloads, publishes, prunes or clears.
MutualExclusion ==
    \A p, q \in Procs : Holding(p) /\ Holding(q) => p = q

\* A release never removes the lock file of another process.
FormerOwnerCannotRelease ==
    [][\A p \in Procs :
         pc[p] = "unlink" /\ pc'[p] = "idle" /\ path' # path => path.owner = p]_vars

\* When every live process is outside the protocol, the lock path is free or
\* holds the file of a dead process: no lock of a live process is left behind.
NoLeakedLock ==
    (\A p \in Procs : pc[p] \in {"idle", "dead"})
        => (path = None \/ ~Alive(path.owner))

\* Every caller leaves the waiting loop: with the lock, with TimeoutError,
\* with a cancellation, or because it was killed.
WaitingEnds ==
    \A p \in Procs : Waiting(p) ~> ~Waiting(p)

\* A lock file of a dead process does not outlive the patience of a waiter on
\* its host: it is replaced before the waiter's deadline, or the deadline came.
DeadOwnerReclaimed ==
    \A p \in Procs, t \in Tokens :
        (/\ pc[p] = "loop" /\ p \notin late
         /\ path = t /\ t \in written
         /\ ~Alive(t.owner) /\ Host[t.owner] = Host[p])
        ~> (path # t \/ p \in late \/ ~Waiting(p))

\* The lock file implements the mutex its callers take it for.
Lock == INSTANCE Mutex WITH Users <- Procs, inside <- {p \in Procs : Holding(p)}
=============================================================================
