# TLA+ models of Libre Core MacLoader

This directory holds TLA+ specifications of the parts of `macloader/` whose
correctness depends on the order of events: processes that share a cache
directory, editors that share a configuration, worker threads that report to a
terminal interface, builds that race for one output, downloads that are resumed
after a crash, and a destructive write to a removable device.  TLC checks them
on small instances; TLAPS proves the safety properties for every value of the
constants.

Paths below are relative to the repository (`macloader/...`, `tests/...`).
`PROJECT.json` maps every definition to the lines it stands for, lists the
hazards, the runs, the bugs (mutants) every property is able to detect, and the
theorems.

## 1. The system

MacLoader turns the description of a machine into a verified OpenCore EFI
directory, fetches the matching macOS Recovery, and writes both to a removable
device.  Nothing runs as a server: the command line starts one process per
command, the terminal interface is one process with worker threads, and all of
them meet in directories on disk.

| Component | State it keeps | Operations | Interacts with |
|---|---|---|---|
| Dependency cache lock (`dependencies/cache.py`, `_locked_file`) | lock files with token, PID, host and time; reclaim files | acquire, wait, judge, reclaim, release | every process that uses the cache |
| Dependency cache contents (`dependencies/cache.py`, `orchestrator.py`) | artifact files, `index.json`, leases | acquire, put, lease, prune, clear | downloader, builder, lock |
| Configuration store (`configuration/store.py`, `workflow/service.py`) | `<id>.json`, `<id>.json.bak`, `<id>.lock` | create, load, edit, save, save_revision | command line, terminal interface |
| Terminal interface (`ui/tui.py`) | draft, snapshot, built EFI, cancel flag, operation generation, workers | 22 buttons, 8 kinds of worker, publication of results | workflow service |
| Removable media writer (`removable/writer.py`, `removable/adapters.py`) | plan, confirmation, snapshot of the source, device lock, mounts | plan, write, read back, eject, invalidate | device, desktop, kernel |
| Recovery acquisition (`recovery/acquirer.py`, `recovery/service.py`) | part files, resume metadata, published bundle, evidence | download, resume, verify, publish, persist | network, terminal interface |
| Recovery discovery (`recovery/discovery.py`) | none | query the catalogue for the exact target | network |
| Toolchain (`toolchain/loader.py`) | installed tools, manifest | provision, verify, roll back | builder, identity |
| EFI builder (`build/`) | staging directory, published EFI, manifest | stage, publish, clean up | cache, toolchain, identity |
| Resolver and graph (`dependencies/resolver.py`, `graph.py`) | none | resolve, sort, detect cycles | catalogue |
| Downloader, archives | part files | download, verify, extract | cache |
| Configuration evaluation (`configuration/service.py`, `policy.py`, `migrations.py`) | none | evaluate, acknowledge, migrate | compatibility engine |
| Compatibility engine and database | none | combine facts into a verdict | detection |
| Hardware detection, SMBIOS identity, evidence | private records | probe, generate, validate | workflow service |
| Workflow service, orchestrator, command line | none of their own | sequences of the above | all |

### What is hard about it

* **Concurrency between processes.** The cache lock is a plain file: creating
  it and writing its metadata are two system calls, taking it over from a dead
  owner is a rename followed by a comparison, releasing it is a comparison
  followed by an unlink.  Pruning looks at artifact locks that it does not hold.
* **Concurrency between threads.** The terminal interface hands the draft to a
  worker and goes on editing; the worker may save, or report, when everything
  has changed.
* **Failure between two steps.** A save writes a backup, then the version, then
  the directory.  A device is partitioned, formatted, mounted, filled, unmounted,
  read back and ejected, and any of these commands may be the one that fails.
* **Time.** Locks have deadlines, remote leases expire, confirmations expire.
* **Limits.** Pruning evicts by age until the cache is within its size.

### What makes each component correct

* *Lock*: one process inside; nobody removes a foreign lock file; the lock of a
  dead process is reclaimed; every wait ends.
* *Cache*: one download per miss; what was published or leased stays; the index
  lists what exists; eviction only above the limit; every operation ends.
* *Store*: no update is lost, no edit is refused without a reason, revisions
  grow, a backup of the predecessor exists, every save ends.
* *Terminal interface*: the EFI on the screen belongs to the draft and hardware
  on the screen; only one operation can still publish; no late result overwrites
  an edit; Recovery is recorded for the current EFI only.
* *Media writer*: success means complete media; failure means media that cannot
  be mistaken for complete; only the locked, confirmed and unmounted device is
  touched.
* *Recovery bundle*: what is published is whole, signed and of one generation,
  and survives a failed attempt to replace it; a success can be verified offline.
* *Toolchain*: a failed provisioning leaves the former tools, a successful one
  tools that can be selected.
* *EFI builder, with the review of the draft, the compatibility engine and the
  resolver*: only a configuration that the database knows, whose evidence was
  accepted and whose risks were acknowledged as they are, is published; with
  every driver, its kernel extensions listed after what they need; over nothing
  else; and Recovery is bound to the EFI that belongs to the draft.

## 2. Modules

| Module | Models | Used by |
|---|---|---|
| `Mutex` | abstract: what the cache takes its locks for | `CacheLock`, `ArtifactCache` (`INSTANCE`) |
| `CacheLock` | one lock path and its contenders | `MCCacheLock`, `CacheLockProofs` |
| `ArtifactCache` | the cache directory over ideal locks | `MCArtifactCache`, `ArtifactCacheProofs` |
| `RevisionRegister` | abstract: what the store promises its editors | `ConfigStore` (`INSTANCE`) |
| `ConfigStore` | the store and its editors | `MCConfigStore`, `ConfigStoreProofs` |
| `WorkflowTui` | handlers, workers and the store behind them | `MCWorkflowTui`, `WorkflowTuiProofs` |
| `MediaWriter` | the guarded writer over the Linux backend | `MCMediaWriter`, `MediaWriterProofs` |
| `RecoveryBundle` | acquisition of a Recovery bundle and its records | `MCRecoveryBundle`, `RecoveryBundleProofs` |
| `HardwarePolicy` | compatibility engine, as operators | `DependencyPlan` |
| `DependencyPlan` | resolver and graph, as operators | `DraftReview`, `DependencyPlanProofs` |
| `DraftReview` | edits and review of a draft, as operators | `EfiBuild` |
| `ToolRoot` | the tool directory and its provisioning | `EfiBuild`, `EfiBuildProofs` |
| `EfiBuild` | builds, edits, captures, Recovery binding; the four above composed | `MCEfiBuild`, `EfiBuildProofs` |

The `MC` modules only give the constants their values.  Next to some
definitions stands a variant that begins "A plausible bug": replacing the
definition by it must break a property, which `PROJECT.json` lists under
`mutants`.

### CacheLock

A lock file is named by the acquisition that created it, `[owner, n]`; the name
stands for the inode, so a rename moves it and a write goes to it wherever it
is.  `path` is what lies at the lock path and `aside[p]` what a reclaimer has
moved to its private name.  Each system call of `_locked_file` and
`_atomic_reclaim` is an action: `Open` (O_EXCL), `Write`, `Read`, `Stat`,
`Judge`, `MoveAside`, `Discard` or `Restore`, `ReadOwn`, `Unlink`.  Faults are
admitted one by one by the constant `Faults`: killed between open and write
("torn"), a failing write, a stall of more than a second in the middle of a step
("stall"), a remote lease running out ("expire"), a failing restore and a
failing unlink.  `Mortal` says who may be killed.

`Mutex` is what a caller expects of the lock: its users enter when nobody is
inside, and leave.  `Lock` is the refinement mapping of `CacheLock`, by who holds
the lock; for whom it holds is the subject of the proofs.

### ArtifactCache

The locks are ideal here and a dead owner loses them; what the real ones add is
the subject of `CacheLock`.  `CacheWideLock` and `ArtifactLock(a)` say that they are
locks of the kind that `CacheLock` implements: both map to `Mutex`.  Files have
size one, so `MaxFiles` is the cache limit, and `byAge` orders them by modification time.  A process builds
(`StartBuild`: fetch each dependency, then lease them in the order of their ids
and verify each) or clears.  Fetching is split where other processes can see a
difference: the look at the cache, the artifact lock, the second look, the
publication, the cache lock, the index with its hash, pruning one file at a time
(look at the lock, then unlink).  The index is rewritten at the end, and only by a
pruner that has removed a file itself (`pruned`), so what a killed one or a failing
unlink (`UnlinkFails`) leaves in it outlasts a publication that prunes nothing.

Left out: what the construction of a `CacheManager` cleans up, and `.part`
files, which live under the artifact's lock and are published by one rename.

### RevisionRegister and ConfigStore

The register replaces its value only for an editor whose draft comes from that
value, with a larger revision.  `ConfigStore` implements it: editors create,
load, edit and drop drafts without a lock; `Save` and `SaveRevision` hand a
revision to `ConfigurationStore.save`, whose steps are `Enter` (the transaction
lock), `Check`, `Backup`, `Publish` and `Sync`, with `Fail` and `Crash` in
between.  Versions carry a serial number `ver` that the program does not have;
it is what "the same version" means in the properties.  Two histories tell who made
the stored version (`author`) and whether a save of this draft has been published
although it was reported as failed (`stored`).  The refinement mapping takes the stored version for the register's value and the version a draft was
loaded from for its basis.

### WorkflowTui

Handlers run on the UI thread of Textual, one after the other.  Those that save and
then load what they saved are two steps, `Save` (or `Import`, `ImportEvidence`) and
`Load`, with `busy` in between, because another process or a worker may save there.
The others touch what other threads touch in one statement only: raising the generation
commutes with the discovery's own, and a worker that holds a smaller one is stale
before and after.  A worker is started
with copies of the draft, the snapshot, the EFI and the operation generation;
its thread begins, runs (a worker for an identity or a capture saves the draft it
edited itself), posts and is then published or ignored on the UI thread.  Starting
an exclusive worker cancels the others of its group, which stops those whose
thread has not begun and no others.  The discovery worker takes its generation in its
own thread, in three statements (`ClearFlag`, `RaiseGeneration`, `TakeGeneration`;
`ui/tui.py:509-511`), between which a press may raise it again: the discovery then
shares its generation with another worker.  What a configuration says is a number: equal numbers, equal
semantic content.  Buttons that only show something change no state and have no
action; preflight, dependency resolution and Recovery verification cancel what is
queued and raise the generation, but their workers are not kept, since a message is
all they show.  A capture is edited into the draft and saved as a new identity is, so
the two share one kind of worker.

`+= 1` on the generation is atomic here.  CPython does it in several byte codes;
with two threads it could lose an increment, which the model does not include.

### MediaWriter

One attempt is a walk through `RemovableMediaWriter.write`: confirmation,
source, device, snapshot, comparison, lock, second look, a last look, partition table
and file system, mount, copy, unmount, flush, read-only mount, comparison, unmount,
eject.  Underneath, the source directory changes, the device is pulled, mounted
by the desktop and put back, the confirmation expires, the user cancels and the
process is killed.  The medium is told apart as far as a boot would: old, torn,
full, bad (full with a file the device damaged), blank.  Every attempt has a new
plan for the files that the source has then and the bindings its caller names;
mounted or missing devices stand for every way of not matching the plan.  A source
holds one of the published bundles, an edited one, or a tree without a bootable
layout, and it may have further files where no digest looks (`spare`):
`_efi_payload_digest` leaves `Recovery/` out (`removable/writer.py:867`) and the
contracts name only some of its files, but the plan lists them all.  The artifacts are
validated by one read of it and its manifest compared by another, so a source that is
`swapped` in between passes both.  A `KeyboardInterrupt` is a failing command, or one
that had done its work ("interrupt"): then a mount exists that the backend has taken no
note of (`stray`, `removable/adapters.py:411-412`).  Elsewhere in the writer, as between
`flock` and the note of it, an interruption is not told apart from a failure.

Left out: `WindowsRemovableAdapter`, whose native backend does not exist in the
repository, and `DisposableImageAdapter`, which writes to ordinary files.

### RecoveryBundle

Attempts run one after another, each for a generation of the bundle that the
server has, with `--resume` (the staging directory is kept) or without (it is
private to the attempt).  A file is the sequence of its blocks, and a block is
the generation whose block it is, or `Bad`; a digest or a signature is a
comparison of those.  `AppleRecoveryAcquirer` is walked step by step: `Reuse` or
`Open` of a part file, `Continued` (206) or `Restarted` (200), `Receive`,
`Complete`, `Mismatch`, `Interrupted`, then `Verify`, `MoveAside`, `Publish`, and
for a failure `PublicationFails`, `Withdraw`, `RestoreImage`,
`RestoreChunklist`, any of which may fail in turn (`RollbackFails`, outcome "broken");
`CleanEntry` and `Clean` remove the staging directory entry by
entry; `WriteRecord` and `Readback` are `RecoveryService`'s three records.
`Crash` may come anywhere.  `prior` remembers what was published when the attempt
began, for the properties.

### HardwarePolicy, DependencyPlan, DraftReview

Pure code as operators.  `HardwarePolicy` matches the model (`MatchModel`),
judges each device by the first matching entry of the catalog (`Component`,
`Verdict`), takes the worst (`Overall`) and derives a build plan (`BuildPlan`).
`DependencyPlan` maps capabilities to drivers (`Driver`), closes them under
prerequisites (`Needed`) and sorts them depth first: the recursion of
`resolve_ordered_set` is a machine with the path of the visit and what is listed so
far, and `Dfs` its step (`Enter` a dependency, `Leave` it, or stay at a cycle);
`InOrder` is the reference that the order is compared with.
`DraftReview` has the edits (`WithOption` and the others, which say what becomes of acknowledgements) and the issues of
`ConfigurationService.evaluate`.  A digest stands for what it digests.

### ToolRoot

`TrustedToolchainLoader.provision`: every former tool is set aside and the new
one put in its place, tool by tool; a failure takes it all back in reverse
(`WithdrawTool`, `RestoreTool`), unless taking back fails too or Ctrl-C, which is
no `Exception`, ends the process: then what was set aside goes with the staging
directory.  `former` is the directory when it began.

### EfiBuild

`EfiBuild` EXTENDS the four modules above.  Each builder walks `build_efi_preview`:
`Start` (review and plan of the draft it was given), `SelectTools`, `Expect` (hash
of the capture), `Gate`, `Compile`, `Configure`, `Validate`, `Publish`, with `Fail`
everywhere.  The drivers come out of their archives in the order of the lock, but
`_ordered_kexts` discards it and sorts their kernel extensions by ranks for a few names,
then by name (`build/config.py:171-188, 232`): `Rank`, `Precedes` and `LoadOrder`.  The
list in `tree.kexts` is the one that OpenCore loads.  The UEFI drivers are sorted by
name alone (`:233`); nothing promises an order of them, and they are left out.  `Bind`
is `derive_recovery_binding` for whatever draft is current.
Meanwhile the user selects, acknowledges, imports and generates; and the world
rewrites or loses captures, damages or removes the output and loses tools; and
`ToolRoot` provisions.  `asked` is auxiliary: what was on the screen when an
acknowledgement was given.

## 3. Runs

Deadlock is checked in `bp_build`, where the tools can always be provisioned once
more.  In the other models the bounds let all actors stop, and users, editors
and processes are free to do nothing more.

| Run | Result | What it shows |
|---|---|---|
| `cl_takeover` | pass | Three processes on a host, one of them mortal, one survivor coming back, releases that may fail to unlink: never two inside, no release removes a foreign file, and the dead owner's file does not outlast a waiter's patience. |
| `cl_waiting` | pass | Two mortal processes on two hosts under all six faults: every wait ends (given that deadlines come). |
| `cl_reclaim_race` | violation | A fourth process breaks mutual exclusion, see below. |
| `cs_store` | pass | Two editors, revisions to 3, failure and crash at every step: the five safety properties, refinement of the register, and every save ends. |
| `ac_ends` | pass | Two processes, two artifacts, room for one, killed anywhere: published files stay, the index lists a missing file only after a killed pruner or clearer, and no build waits for another for ever although both take several locks. |
| `ac_faults` | pass | One operation by each of two processes on three artifacts with room for two, with killed processes, damaged files and failing unlinks and index writes: one download per miss, no needless eviction. |
| `ac_lease_race` | violation | A leased file is unlinked. |
| `wt_results` | pass | Five presses, any button each time, and a save by another process at any moment: late results never win over what the user has done since. |
| `mw_write` | pass | Three attempts with every fault, two bundles and any binding, a source damaged or swapped at any time: success is complete, failure is unbootable, the medium changes only under its lock and is never partitioned or zeroed beneath one of the program's mounts. |
| `rb_publish` | pass | Three attempts among three generations, one of them unsigned, resumed or not, with wrong blocks, lost connections, Ctrl-C, failing rollbacks and crashes: what is handed over is whole, what is published is signed and a pair, a failure leaves the former pair (its rollback having failed too, the backups that `--resume` keeps), a success passes `verify`. |
| `rb_prior_pair` | violation | A failing rename-aside destroys the former bundle. |
| `bp_build` | pass | Two builds for one output, a user, a world and a provisioning of two tools, from five kinds of machine: the five properties of `EfiBuild` and the one of `ToolRoot`. |

### The disagreements found

* **Reclaiming is not free of races** (`cl_reclaim_race`).  *d* dies in the lock.
  *a*, *b* and *c* all judge its file stale.  *a* reclaims it and takes the lock.
  *b*, still acting on the old judgement, moves *a*'s file aside; before *b* sees
  the token and restores it, *c* finds the path free and takes the lock as well.
  The docstring of `_atomic_reclaim` promises "without racing other processes".
  With two survivors the race does no harm (`cl_takeover`, and for any number of
  uses the theorem `TakeoverMutualExclusion`), if only one process dies and had used
  the lock once.  The boundary is sharp: TLC finds two inside with three survivors
  and also, with two, when the dead process had taken the lock before.  Nor does it
  mean that the lock is always freed: in the take-over a release may find its file
  moved aside and leave it behind.
* **A lease does not hold off a pruner that has already looked** (`ac_lease_race`).
  `_is_active_artifact_lease` and the unlink are two steps, and the artifact
  lock is not held in between.
* **A failed publication can destroy the bundle it should keep** (`rb_prior_pair`).
  The rollback of `_publish_bundle` unlinks both names before it restores what was
  moved aside.  When moving the former image aside is itself what failed, nothing
  has been moved, and the former image is unlinked.  Without `--resume` the staging
  directory is made in the system's temporary directory, so where that is another
  filesystem the rename always fails.  In every other case the former pair comes back
  if the rollback works (`rb_publish`, and the theorem `FailuresKeepPrior`).

Other things that the code does and a reader may not expect; no run checks them,
and the hazards in `PROJECT.json` name their lines:

* A cache hit does not renew the modification time by which pruning goes, so a
  fetch may evict a hit of its own set.
* Without a fixture, a second Refresh in the terminal interface replaces a draft
  that has unsaved edits.
* The lifetime of a media confirmation is looked at once, before the source is
  hashed and copied.
* When saving an imported draft fails, the EFI of the former draft stays current;
  the fault "io" of `WorkflowTui` has that step, and the runs leave it out.
* `action_save` saves and loads what is stored by then (`ui/tui.py:175-176`).  When
  another process saves in between, its content becomes the draft, and the EFI built
  for the former one stays on the screen; `EfiCurrent` allows this one case.  No
  Recovery is recorded for it: `derive_recovery_binding` compares the draft with the
  EFI's manifest, and `RecoveryForCurrentEfi` holds as it stands.
* The discovery worker may share its generation with a worker that was started between
  its `+= 1` and its read (`ui/tui.py:510-511`).  Its result is about the server, not
  the draft, so `OneCurrent` speaks of the workers on the draft.
* A save whose directory sync failed after publication is refused when it is repeated,
  because of its own version (`configuration/store.py:69-70`); `NoSpuriousConflict`
  counts that as the one other reason for a conflict.
* The index of the cache keeps the entries of files that a killed pruner or clearer
  removed, and of those removed before an unlink or the index write failed, until
  somebody else prunes a file or clears (`dependencies/cache.py:501-521`).
* A rollback of the Recovery publication that fails itself loses the former files with
  the private staging directory; with `--resume` they remain in it as backups that
  nothing puts back.
* The records of a Recovery bundle are three files; a crash between them leaves records
  that `verify` refuses.  `SuccessAccepted` speaks of attempts that returned.
* A capture that is rewritten after its import is accepted under the acknowledgements
  given for the imported one; `PublishedVetted` binds an EFI to the tables as they were
  compiled.
* Between the last check of the device and `sfdisk` a desktop may mount it
  (`removable/adapters.py:399-405`); the lock is advisory.
* `_ordered_kexts` says "Keep parent kexts before their bundled plug-ins and
  dependants." (`build/config.py:173`), but knows a few names only: of the archive of
  VoodooPS2 in the catalog, the plug-in `VoodooInput.kext` comes before
  `VoodooPS2Controller.kext`.  Nothing asks for that dependency yet.
* Two processes may provision one tool directory; there is no lock.
* A part file that is complete but was not renamed is resumed with an empty
  range, which a server refuses every time.
* A ThinkPad T480s with HD Graphics 620 is built without WhateverGreen.  The database
  accepts the machine and its graphics ("Supported via WhateverGreen with Kaby Lake
  native graphics.", `macloader/database/data/components/graphics.yaml:41`), but
  `generate_build_plan` asks for the driver only for `intel-uhd-620`
  (`macloader/compatibility/engine.py:529`), and the profile of the UHD 620 settles
  the open framebuffer requirement (`macloader/configuration/service.py:160`).
  `DriversInOrder` therefore asks for WhateverGreen with the UHD 620 only; the machine
  is the "older" one of `bp_build`.
* A media source that is swapped for another one between the validation of its
  artifacts and the comparison of its manifest passes both
  (`macloader/removable/writer.py:503-510`).  What is written is then the planned
  files all the same, but not those that the bindings name; `WriterInv` says so.

### Bounds, and why they are enough

* `MaxUses` (CacheLock): the races need one acquisition per contender; one
  process comes back, to meet its own earlier file.  `MaxRev = 3` (ConfigStore):
  a base, a competing save, and a draft that jumps over it.  `MaxFiles = 1` and
  two artifacts (`ac_ends`): every second publication prunes, and `MaxOps = 2`
  lets each process fetch what the other one cleared.  There, killing is the only
  fault: failing unlinks and index writes leave stale entries, as said above, and a
  damaged file may be lost.  A pruning that goes too far needs three artifacts and room for two (`ac_faults`).
* `MaxPresses = 5` (WorkflowTui): start, build, discover, acquire, and one more
  in any place; `MaxOthers = 1`: one competing save makes a saved draft stale.
  `wt_results` admits no input/output errors: when saving an imported draft fails,
  the code keeps the new draft next to the old EFI, and `EfiCurrent` does not
  hold.  The fault is in the module for that reason, with the name "io".
* `MaxAttempts = 3` (MediaWriter): an attempt that leaks its lock or mount, one
  that meets the leak, one that starts over.  Two bundles are enough for a plan
  with the files of one and the bindings of the other.
* `MaxAttempts = 3` (RecoveryBundle): an attempt that publishes, one that crashes
  while it replaces that and leaves its backups, one that resumes in the directory
  it left.  An image has two blocks, so that a part file can be neither empty nor
  whole; two signed generations can be mixed up, and an unsigned one can be offered.
* `bp_build`: two builders are what the test for an existing output has to hold
  apart; `MaxChanges = 2` puts two edits or accidents anywhere between their steps
  (import a capture and acknowledge again; rewrite the tables and lose a tool).  Two of
  the four tools of `toolchain/loader.py:371`: every provisioning publishes all of them,
  one after the other, so two are enough for one to be in its new place when the other
  fails.  `ToolLosses` says how a lost tool is found, as missing here; a damaged one is
  there from the start in one of the cases.  The machines are a whole one, one
  without wireless, one with older graphics, one with an unknown card and one whose
  probe was incomplete: usable, usable with other plans, and refused twice.  Of
  the usable drafts one has its identity already and the others may get theirs in one
  of the two changes; one names no machine and no policy, as an imported one may.

### Fairness

* CacheLock: `FairSpec` lets every live process take its next step (weak
  fairness of `Step(p)`): the loop of `_locked_file` polls with a sleep, without
  waiting for anybody.  `TimedSpec` adds that monotonic time passes.  Nobody has
  to start, cancel, die, or see a deadline in `FairSpec`.
* ConfigStore: a transaction once entered goes on (weak); the kernel serves
  `flock` waiters in turn (strong fairness of `Enter`).
* ArtifactCache: weak fairness of whatever a live process can do next.  Giving
  up on a lock is possible and never relied on.
* WorkflowTui, MediaWriter, RecoveryBundle, ToolRoot and EfiBuild state safety
  only: their progress rests on a person, a network or a device.

## 4. Proofs

| Module | Theorems |
|---|---|
| `CacheLockProofs` | `TypeCorrect`, `OrderlyMutualExclusion`, `OrderlyNoLeakedLock`, `OrderlyRelease`, `OrderlyRefinesMutex`, `TakeoverMutualExclusion`, `TakeoverRelease`, `TakeoverRefinesMutex`, `ReclaimIsRight` |
| `ConfigStoreProofs` | `TypeCorrect`, `LostUpdatesExcluded`, `RevisionsIncrease`, `ConflictsAreReal`, `BackupCorrect`, `StoreRefinesRegister` |
| `MediaWriterProofs` | `TypeCorrect`, `SuccessComplete`, `FailureUnbootable`, `TouchesLocked`, `NothingUnderMounts` |
| `ArtifactCacheProofs` | `CacheInvariant`, `TypeCorrect`, `OneDownload`, `EvictionNeeded`, `HashedAgain`, `IndexTrue`, `CacheLockIsMutex`, `ArtifactLocksAreMutexes`, `NoCircularWait`, `LeasesSeen`, `LoneLease` |
| `WorkflowTuiProofs` | `TuiInvariant`, `TypeCorrect`, `OneIsCurrent`, `EfiIsCurrent`, `EditsAreKept`, `RecoveryIsForEfi` |
| `RecoveryBundleProofs` | `TypeCorrect`, `BundleInvariant`, `DownloadsWhole`, `PublishesVerified`, `SucceedsAccepted`, `FailuresKeepPrior`, `PairsStay` |
| `DependencyPlanProofs` | `NeededIsClosure`, `OrderIsRight`, `CyclesAreReal` |
| `EfiBuildProofs` | `ToolRootInvariant`, `Restores`, `BuildInvariant`, `TypeCorrect`, `PublishesVetted`, `LoadsInOrder`, `PublishesDrivers`, `BindsTruthfully`, `OutputRemains`, `ImplementsToolRoot`, `BuildingRestores` |

The assumptions are those stated in the modules: bounds are natural numbers,
fault sets are subsets of the known faults, the "no value" constants are none of
the values they stand for, processes live on hosts, artifacts are numbers,
snapshots are found by their ids, the drafts that `EfiBuild` starts from are
well formed, the catalog is finite and closed (`CatalogAssumption`, which
`database/schema.py:282-287` checks when it is loaded), the reviewed release is
Sequoia (`ReviewedAssumption`, `database/data/profiles/t480s/p4-sequoia.yaml`), kernel
extensions have names (`KextsAssumption`), and the ranks of `_ordered_kexts` agree with
the catalog's prerequisites (`RanksAssumption`): the code hard-codes the ranks, and where
the two disagree, its list does not follow the catalog.
Some theorems exclude a fault, each with its reason:

* `FailuresKeepPrior` and `PairsStay` exclude "aside", because `rb_prior_pair`
  shows that they do not hold with it; they allow a failing rollback;
* `EfiIsCurrent` excludes "io", see the observations above;
* `HashedAgain` excludes "corrupt": somebody who damages files by hand is outside of
  what the locks can promise; `IndexTrue` excludes "save" and "unlink", since a pruner
  that cannot finish leaves entries of what it removed.  Both allow processes to be
  killed anywhere;
* the `Orderly...` theorems have no deaths and no faults, and the `Takeover...` ones
  `TwoSurvivors(d)`: only `d` dies, `d` uses the lock once, at most two others use it,
  as often as they like, and of the faults only a failing unlink happens.  Each of
  these is needed, see the first disagreement above; in a torn file nobody can tell
  whose it is, so a second reclaimer deletes the first one's;
* `ReclaimIsRight` excludes "restore", a reclaimer that cannot move back what it took by
  mistake, and is about files whose metadata could be read;
* `LoneLease` has one process and excludes "corrupt".  `ac_lease_race` shows that a
  second process is enough to lose a lease.

* **CacheLock.** `TypeOK` holds in every configuration.  Mutual exclusion does
  not (`cl_reclaim_race`), so it is proved for *orderly* histories, where
  `Mortal = {}` and `Faults = {}`, for any number of processes and uses.  The
  invariant says that then no file is ever aside, and that whoever created a
  file, or holds the lock, has its own file at the path, so two holders would
  have the same file.  It is needed because mutual exclusion alone says nothing
  of the file.  The same invariant excludes a leaked lock.

  The take-over needs more (`Protocol`).  Both survivors may have judged the dead
  owner's file stale, and the slower one then moves the faster one's new file aside.
  `Guarded` says that a process inside has a file at the path or parked by a reclaimer
  that is going to put it back; `Judged`, that whoever still acts on the old judgement
  has no file itself.  So while a file is parked, the only one who could create another
  is its owner, who is inside.  `Mutex` is implemented in both cases: every step of
  the lock enters an empty mutex, leaves it, or is none of its business.

  `ReclaimIsRight` says what the comparison of tokens in `_atomic_reclaim` is worth
  where mutual exclusion is lost.  Death and the end of a lease are final, so a judgement
  still holds when the file has been moved (`JudgementsHold`): what is thrown away is the
  file of an owner that is gone.  What a mistaken reclaimer does is take a live owner's
  file aside for a moment and put it back, over whatever others have created there.
* **ConfigStore.** That a draft's base revision equals the stored revision does
  not by itself mean that the draft comes from the stored version.  The
  strengthening says that it does for every draft that can be saved
  (`BaseIdentifies`): revisions only grow, hence one revision number never names
  two versions, and what can be confused with a missing file (base 0) belongs to
  the one creator of the id.  `NoLostUpdate` and the register's `Replace` follow.
  `BackupInv` relates the backup to where the saving editor is.
* **MediaWriter.** `WriterInv` adds to the properties what they owe to the place
  where `write` is: before the lock nothing is touched; from the lock to the
  ejection the backend holds the device; what is ejected has been read back; and
  a failure after the lock was given back can only be a failed ejection of a
  complete medium.  For `NothingUnderMounts` it says that a mount beneath the lock is
  listed, and unmounted before the tables are zeroed, or stray.  Three attempts in TLC, any
  number here.

* **ArtifactCache.** `CacheInv` says who holds which lock where (`Secure`), that
  the files are listed once each, and that a pruner's count is never above the real
  one (`Sighted`): others only add files while it holds the cache lock.  Since every
  publisher has its artifact's lock, `OneDownload` follows.  `Intact` adds that a
  file about to be unlinked is not one that was just published: its lock was free
  when the pruner looked, and whoever took it since finds the file good and does not
  download.  `Indexed` adds that a live owner of the cache lock is still at work on
  the cache, that the index lists a missing file only while somebody is in `pruned`, and
  that nobody alive is when the lock is free.  That its locks are mutexes
  in the sense of `Mutex`, also when owners die, joins the two models of the cache: what
  this one assumes of a lock is what `CacheLock` is proved to give.

  `LocksOrdered` says which locks a live process may have at each place: whoever waits
  for the cache lock has at most that of the artifact it has published, whoever waits for
  an artifact that it misses has none, and leases are taken in the order of the ids.  So
  nobody waits in a circle (`NoCircularWait`): the cache lock's owner waits for nobody,
  and the owner of the greatest artifact that a leasing process waits for could only wait
  for a greater one.  `Blocked` is what TLC finds to be the absence of an enabled
  `Continue`, so together with the fairness this is why `OperationsEnd` holds.  The lease
  also has its lock to the end of the build, hence whoever looks at a leased file sees
  the lease (`LeasesSeen`), and a lease is lost only to somebody that had looked before
  it was taken.  Without such a second process none is lost (`LoneLease`).
* **WorkflowTui.** No two workers on the draft have the same generation (`Distinct`),
  and one of the current generation was started with what is on the screen
  (`OnScreen`); while a handler has still to load, no such worker is (`Quiet`).  `EfiInv` follows the EFI through the two steps of the handlers that
  save: what is loaded is what they saved, or has been saved by another process since.
* **RecoveryBundle.** `BundleInv` gives, for each place of the attempt, what of the
  staging directory has been hashed and what the destination may hold; it holds
  under every fault.  `PriorInv` adds where each former file is, asset by asset,
  while they are moved aside, published, withdrawn and restored: in its place, or in the
  staging directory, which a rollback that stops half-way leaves where `--resume` keeps it.
* **DependencyPlan.** The prover has no induction over data; what replaces it is that
  a set of numbers has a least element (`Least`, from the well-foundedness of the
  numbers), from which follow that recursive functions exist and agree (`Iteration`,
  `SameIteration`).  `Needed` grows in every round or is complete, and there are no
  more rounds than dependencies.  The search keeps `Visits`: its path is a chain of
  prerequisites, and whatever is listed is listed once and after what it needs.  Every
  step raises a weight that is at most twice the number of dependencies, so it ends
  (`SearchEnds`), with an order (`OrderIsRight`) or at a cycle, and then no order
  exists (`CyclesAreReal`).
* **ToolRoot.** For each tool, its former version is in its place or aside
  (`Kept`), at every point where the provisioning may stop.
* **EfiBuild.** The first part of the module is about the operators: a report that
  is usable knows every device (`Overall` and `Verdict` taken apart), and an accepted
  plan has been vetted.  The second carries this through a build, with `Asked`: every
  acknowledgement that counts was given for what the draft still says.  `PlanDriven`
  follows each device from its verdict to a capability, a driver and the lock, which has
  what its entries need (`NeededIsClosure`).  `LoadsInOrder` is about `LoadOrder` alone:
  ranks and names are a linear order (`Linear`), so counting what precedes each kernel
  extension gives them places of their own (`Places`).  With `RanksAssumption` both make
  `PublishesDrivers`.
  `ImplementsToolRoot` shows that every step of the composition is a step of
  `ToolRoot` or leaves its variables alone, so its theorem carries over.

Only model-checked: liveness (`WaitingEnds`, `DeadOwnerReclaimed`, `SaveEnds`,
`OperationsEnd`), because it is beyond the prover; of `OperationsEnd` the half that is
safety is proved.  The properties that a run refutes, `MutualExclusion`, `LeaseProtects`
and `FailureKeepsPrior`, have theorems that say when they hold.

## 5. Not modelled, and the plan

* *Recovery discovery*: one exchange with a server, without state; `RecoveryBundle`
  starts from what it returned.
* *Detection, archives, the compatibility database, domain contracts, logging*:
  reading, parsing and validating data.  Their decisions depend on strings and
  formats; a model would have to repeat them.
* *Command line*: each command is a process that calls the services above in
  sequence; concurrent commands are the processes and editors of the models.
* *EFI builder*: the rest of `config.plist`, the AML and the work directory of `iasl`;
  what matters of them to the properties is a tree of drivers, the list of kernel
  extensions, options and identity.
* *Workflow service*: preflight, the snapshot files and the export of a support
  review change nothing that others read.
* *Windows adapter*: its native backend does not exist in the repository.
  *Disposable adapter*: writes to ordinary files.
* *Two acquisitions into one directory, two provisionings of one tool directory*:
  the code has no lock for either; the models have one process, and the hazard of
  the second is listed.
* *Downloader*: redirects and retries; `ArtifactCache` has its publication.

What is left to do, in this order: two concurrent provisionings in `ToolRoot`, to
say exactly what survives; the orphans that a `CacheManager` removes when it is
made; the lifetime of the confirmation in `MediaWriter` as a property of the
time of the first destructive command.
