--------------------------- MODULE RecoveryBundle ---------------------------
(***************************************************************************)
(* Acquisition of a macOS Recovery bundle, an image and its signed         *)
(* chunklist, into one destination directory (recovery/acquirer.py), and   *)
(* the three records that make it usable (recovery/service.py).            *)
(*                                                                         *)
(* The attempts run one after another, each for a generation of the        *)
(* bundle, with or without --resume.  An attempt may be cancelled, lose    *)
(* the connection, receive wrong bytes, fail while it publishes or while   *)
(* it takes that back, be interrupted by Ctrl-C, or crash; the next one    *)
(* finds what it left.                                                     *)
(*                                                                         *)
(* A file is the sequence of its blocks.  A block is the generation whose  *)
(* block at that place it is, or Bad.                                      *)
(***************************************************************************)
EXTENDS Naturals, Sequences

CONSTANTS
    Gens,         \* generations of the bundle that the server has had
    Authentic,    \* those whose chunklist Apple signed for their image
    Bad,          \* a block that is of no generation
    None,         \* no such file
    ImageSize,    \* blocks of an image
    MaxAttempts,  \* bound: attempts
    Faults        \* faults that may happen, out of AllFaults

AllFaults == {"crash", "bad", "aside", "rollback"}

ASSUME GensAssumption == /\ Authentic \subseteq Gens
                         /\ Bad \notin Gens
                         /\ None \notin Seq(Gens \cup {Bad})
                         /\ None \notin Gens
ASSUME SizeAssumption == ImageSize \in Nat \ {0}
ASSUME BoundAssumption == MaxAttempts \in Nat
ASSUME FaultsAssumption == Faults \subseteq AllFaults

Kinds == {"image", "chunklist"}

\* The staging directory that --resume keeps, and the private one that an
\* attempt without it makes.
Areas == {"kept", "private"}

Size(k) == IF k = "image" THEN ImageSize ELSE 1

Whole(k, g) == [i \in 1..Size(k) |-> g]

File == Seq(Gens \cup {Bad}) \cup {None}

NoFiles == [k \in Kinds |-> None]
NoParts == [k \in Kinds |-> [g \in Gens |-> None]]

VARIABLES
    pc,       \* what the attempt does next
    gen,      \* the generation it acquires
    area,     \* its staging directory
    kind,     \* the asset it is at
    seen,     \* the blocks it has hashed of the asset
    had,      \* the assets that were there before it published
    part,     \* area, asset, generation: the partial download
    meta,     \* asset, generation: kept parts whose metadata file matches
    staged,   \* area, asset: the finished download
    backup,   \* area, asset: the former file, moved aside
    dest,     \* asset: the published file
    record,   \* the generation in each of the three published records
    attempts, \* how many attempts there have been
    outcome,  \* how the last attempt ended
    prior     \* auxiliary: the published files when the attempt began

download == <<seen, part, meta>>
publication == <<staged, backup, dest, had>>
vars == <<pc, gen, area, kind, download, publication, record, attempts, outcome, prior>>

Records == {"state", "lock", "evidence"}

Init ==
    /\ pc = "idle"
    /\ gen = None
    /\ area = "kept"
    /\ kind = "image"
    /\ seen = <<>>
    /\ had = {}
    /\ part = [a \in Areas |-> NoParts]
    /\ meta = {}
    /\ staged = [a \in Areas |-> NoFiles]
    /\ backup = [a \in Areas |-> NoFiles]
    /\ dest = NoFiles
    /\ record = [r \in Records |-> None]
    /\ attempts = 0
    /\ outcome = "none"
    /\ prior = NoFiles

-----------------------------------------------------------------------------
(* The attempt *)

\* The lock is made, the space is there, the staging directory is made.
Start(g, a) ==
    /\ pc = "idle"
    /\ attempts < MaxAttempts
    /\ pc' = "open"
    /\ gen' = g
    /\ area' = a
    /\ kind' = "image"
    /\ attempts' = attempts + 1
    /\ outcome' = "running"
    /\ prior' = dest
    /\ UNCHANGED <<download, publication, record>>

\* The end of an attempt: the private staging directory goes, the kept one
\* stays.
End(result) ==
    /\ pc' = "idle"
    /\ outcome' = result
    /\ seen' = <<>>
    /\ had' = {}
    /\ UNCHANGED <<gen, area, kind, attempts, prior>>

Tidied(files, none) == [files EXCEPT !["private"] = none]

\* A plausible bug: the second asset goes on with the handles of the first.
AdvanceUnopened ==
    /\ pc' = IF kind = "image" THEN "request" ELSE "verify"
    /\ kind' = IF kind = "image" THEN "chunklist" ELSE kind
    /\ seen' = <<>>

\* The next asset, or the check of the two.
Advance ==
    /\ pc' = IF kind = "image" THEN "open" ELSE "verify"
    /\ kind' = IF kind = "image" THEN "chunklist" ELSE kind
    /\ seen' = <<>>

\* A plausible bug: a file of the right size is taken for the asset.
ReusableBySize ==
    area = "kept" /\ staged[area][kind] # None /\ Len(staged[area][kind]) = Size(kind)

\* A finished download that an earlier attempt left has the size and the
\* digest of the asset.
Reusable == area = "kept" /\ staged[area][kind] = Whole(kind, gen)

Reuse ==
    /\ pc = "open"
    /\ Reusable
    /\ Advance
    /\ UNCHANGED <<gen, area, part, meta, publication, record, attempts, outcome, prior>>

\* The partial download that is kept is of this asset, its metadata says.
ResumeMatches == area = "kept" /\ <<kind, gen>> \in meta

\* The partial download is opened: a kept one when its metadata says it is of
\* this asset, otherwise an empty one.
Open ==
    /\ pc = "open"
    /\ ~Reusable
    /\ pc' = "request"
    /\ staged' = [staged EXCEPT ![area][kind] = None]
    /\ part' = [part EXCEPT ![area][kind][gen] =
                    IF ResumeMatches /\ @ # None THEN @ ELSE <<>>]
    /\ meta' = IF area = "kept" THEN meta \cup {<<kind, gen>>} ELSE meta
    /\ UNCHANGED <<gen, area, kind, seen, backup, dest, had, record, attempts, outcome, prior>>

MyPart == part[area][kind][gen]

\* 206: the server goes on where the partial download ends, whose blocks are
\* hashed first.
Continued ==
    /\ pc = "request"
    /\ Len(MyPart) \in 1..Size(kind) - 1
    /\ pc' = "stream"
    /\ seen' = MyPart
    /\ UNCHANGED <<gen, area, kind, part, meta, publication, record, attempts, outcome, prior>>

\* 200: the whole asset.  A server may ignore the range, and the partial
\* download is truncated.
Restarted ==
    /\ pc = "request"
    /\ pc' = "stream"
    /\ seen' = <<>>
    /\ part' = [part EXCEPT ![area][kind][gen] = <<>>]
    /\ UNCHANGED <<gen, area, kind, meta, publication, record, attempts, outcome, prior>>

Receive(b) ==
    /\ pc = "stream"
    /\ Len(seen) < Size(kind)
    /\ seen' = Append(seen, b)
    /\ part' = [part EXCEPT ![area][kind][gen] = Append(@, b)]
    /\ UNCHANGED <<pc, gen, area, kind, meta, publication, record, attempts, outcome, prior>>

\* The digest matches: the partial download becomes the finished one.
Complete ==
    /\ pc = "stream"
    /\ Len(MyPart) = Size(kind)
    /\ seen = Whole(kind, gen)
    /\ Advance
    /\ staged' = [staged EXCEPT ![area][kind] = MyPart]
    /\ part' = [part EXCEPT ![area][kind][gen] = None]
    /\ meta' = meta \ {<<kind, gen>>}
    /\ UNCHANGED <<gen, area, backup, dest, had, record, attempts, outcome, prior>>

\* It does not: the partial download is thrown away, and the attempt fails.
Mismatch ==
    /\ pc = "stream"
    /\ Len(MyPart) = Size(kind)
    /\ seen # Whole(kind, gen)
    /\ End("failed")
    /\ part' = Tidied([part EXCEPT !["kept"][kind][gen] =
                            IF area = "kept" THEN None ELSE @], NoParts)
    /\ meta' = IF area = "kept" THEN meta \ {<<kind, gen>>} ELSE meta
    /\ staged' = Tidied(staged, NoFiles)
    /\ UNCHANGED <<backup, dest, record>>

\* The download is cancelled, runs out of time, loses its connection or gets
\* an answer it does not take, such as 416 for a range that is empty; what has
\* been received is kept for a resume.  Opening and verifying may be cut
\* short in the same way.
Interrupted ==
    /\ pc \in {"open", "request", "stream", "verify"}
    /\ End("failed")
    /\ part' = Tidied(part, NoParts)
    /\ staged' = Tidied(staged, NoFiles)
    /\ UNCHANGED <<meta, backup, dest, record>>

-----------------------------------------------------------------------------
(* Verification and publication *)

\* A plausible bug: the digest-only chunklists of the upstream tool pass.
GenuineUnsigned == \A k \in Kinds : staged[area][k] = Whole(k, gen)

\* Both files are read again: the chunklist is signed and the image is the
\* one it describes, chunk by chunk.
Genuine == /\ gen \in Authentic
           /\ \A k \in Kinds : staged[area][k] = Whole(k, gen)

Verify ==
    /\ pc = "verify"
    /\ Genuine
    /\ pc' = "aside"
    /\ kind' = "image"
    /\ had' = {k \in Kinds : dest[k] # None}
    /\ UNCHANGED <<gen, area, download, staged, backup, dest, record, attempts, outcome, prior>>

VerifyFails ==
    /\ pc = "verify"
    /\ ~Genuine
    /\ End("failed")
    /\ staged' = Tidied(staged, NoFiles)
    /\ part' = Tidied(part, NoParts)
    /\ UNCHANGED <<meta, backup, dest, record>>

\* The step after the one for the image is the one for the chunklist.
Follow(here, next) ==
    /\ pc' = IF kind = "image" THEN here ELSE next
    /\ kind' = IF kind = "image" THEN "chunklist" ELSE "image"

\* The former files are renamed into the staging directory, over what is there.
MoveAside ==
    /\ pc = "aside"
    /\ Follow("aside", "publish")
    /\ IF kind \in had
       THEN /\ backup' = [backup EXCEPT ![area][kind] = dest[kind]]
            /\ dest' = [dest EXCEPT ![kind] = None]
       ELSE UNCHANGED <<backup, dest>>
    /\ UNCHANGED <<gen, area, download, staged, had, record, attempts, outcome, prior>>

\* Ctrl-C may arrive when the rename is done and nothing has followed it yet.
Publish ==
    /\ pc = "publish"
    /\ \/ Follow("publish", "clean")
       \/ pc' = "withdraw" /\ kind' = "image"
    /\ dest' = [dest EXCEPT ![kind] = staged[area][kind]]
    /\ staged' = [staged EXCEPT ![area][kind] = None]
    /\ UNCHANGED <<gen, area, download, backup, had, record, attempts, outcome, prior>>

\* One of the renames raises, or Ctrl-C arrives.
PublicationFails ==
    /\ pc \in {"publish"} \cup (Faults \cap {"aside"})
    /\ pc' = "withdraw"
    /\ kind' = "image"
    /\ UNCHANGED <<gen, area, download, publication, record, attempts, outcome, prior>>

\* The rollback unlinks both names, one after the other ...
Withdraw ==
    /\ pc = "withdraw"
    /\ Follow("withdraw", "restore")
    /\ dest' = [dest EXCEPT ![kind] = None]
    /\ UNCHANGED <<gen, area, download, staged, backup, had, record, attempts, outcome, prior>>

\* A plausible bug: whatever backup the directory has is put back.
RestoredIfThere(k) == backup[area][k] # None

\* ... and renames back what was there, if the staging directory has it.
Restored(k) == k \in had /\ backup[area][k] # None

RestoreImage ==
    /\ pc = "restore"
    /\ kind = "image"
    /\ kind' = "chunklist"
    /\ IF Restored("image")
       THEN /\ dest' = [dest EXCEPT !["image"] = backup[area]["image"]]
            /\ backup' = [backup EXCEPT ![area]["image"] = None]
       ELSE UNCHANGED <<dest, backup>>
    /\ UNCHANGED <<pc, gen, area, download, staged, had, record, attempts, outcome, prior>>

RestoreChunklist ==
    /\ pc = "restore"
    /\ kind = "chunklist"
    /\ End("failed")
    /\ dest' = IF Restored("chunklist")
               THEN [dest EXCEPT !["chunklist"] = backup[area]["chunklist"]] ELSE dest
    /\ backup' = Tidied([backup EXCEPT ![area]["chunklist"] =
                             IF Restored("chunklist") THEN None ELSE @], NoFiles)
    /\ staged' = Tidied(staged, NoFiles)
    /\ part' = Tidied(part, NoParts)
    /\ UNCHANGED <<meta, record>>

\* A step of the rollback raises, and what follows it is left out; a private
\* staging directory goes all the same, with the former files in it.
RollbackFails ==
    /\ "rollback" \in Faults
    /\ pc \in {"withdraw", "restore"}
    /\ End("broken")
    /\ backup' = Tidied(backup, NoFiles)
    /\ staged' = Tidied(staged, NoFiles)
    /\ part' = Tidied(part, NoParts)
    /\ UNCHANGED <<meta, dest, record>>

\* Everything in the staging directory goes, one file after the other: backups,
\* and the parts of other generations with their metadata.
CleanEntry ==
    /\ pc = "clean"
    /\ \E k \in Kinds, g \in Gens :
        /\ backup' \in {backup, [backup EXCEPT ![area][k] = None]}
        /\ part' \in {part, [part EXCEPT ![area][k][g] = None]}
        /\ meta' \in {meta, meta \ {<<k, g>>}}
    /\ UNCHANGED <<pc, gen, area, kind, seen, staged, had, dest, record, attempts, outcome, prior>>

Clean ==
    /\ pc = "clean"
    /\ pc' = "state"
    /\ part' = [part EXCEPT ![area] = NoParts]
    /\ meta' = IF area = "kept" THEN {} ELSE meta
    /\ staged' = [staged EXCEPT ![area] = NoFiles]
    /\ backup' = [backup EXCEPT ![area] = NoFiles]
    /\ UNCHANGED <<gen, area, kind, seen, had, dest, record, attempts, outcome, prior>>

\* A plausible bug: a compatibility file that exists is left as it is.
RecordedOnce == [record EXCEPT ![pc] = IF @ = None THEN gen ELSE @]

Recorded == [record EXCEPT ![pc] = gen]

\* The three records are written one after the other, each by a rename.
WriteRecord ==
    /\ pc \in Records
    /\ record' = Recorded
    /\ pc' = CASE pc = "state" -> "lock"
               [] pc = "lock" -> "evidence"
               [] pc = "evidence" -> "readback"
    /\ UNCHANGED <<gen, area, kind, download, publication, attempts, outcome, prior>>

\* Staging that cannot be emptied, or a record that cannot be written or
\* read: the attempt fails although the bundle is there.
FinishFails ==
    /\ pc \in {"clean", "readback"} \cup Records
    /\ End("unfinished")
    /\ part' = Tidied(part, NoParts)
    /\ staged' = Tidied(staged, NoFiles)
    /\ backup' = Tidied(backup, NoFiles)
    /\ UNCHANGED <<meta, dest, record>>

\* The records are read back as one generation.
OneRecord(g) == \A r \in Records : record[r] = g

Readback ==
    /\ pc = "readback"
    /\ OneRecord(record["state"])
    /\ End("acquired")
    /\ UNCHANGED <<part, meta, staged, backup, dest, record>>

\* The process dies; nobody looks into its private staging directory again.
Crash ==
    /\ "crash" \in Faults
    /\ pc # "idle"
    /\ End("crashed")
    /\ part' = Tidied(part, NoParts)
    /\ staged' = Tidied(staged, NoFiles)
    /\ backup' = Tidied(backup, NoFiles)
    /\ UNCHANGED <<meta, dest, record>>

Next ==
    \/ \E g \in Gens, a \in Areas : Start(g, a)
    \/ Reuse \/ Open \/ Continued \/ Restarted
    \/ \E b \in {gen} \cup (IF "bad" \in Faults THEN {Bad} ELSE {}) : Receive(b)
    \/ Complete \/ Mismatch \/ Interrupted
    \/ Verify \/ VerifyFails \/ MoveAside \/ Publish
    \/ PublicationFails \/ Withdraw \/ RestoreImage \/ RestoreChunklist \/ RollbackFails
    \/ CleanEntry \/ Clean \/ WriteRecord \/ FinishFails \/ Readback
    \/ Crash

Spec == Init /\ [][Next]_vars

-----------------------------------------------------------------------------
(* Properties *)

Steps == {"idle", "open", "request", "stream", "verify", "aside", "publish", "withdraw",
          "restore", "clean", "readback"} \cup Records

\* Types of the variables; a stream's blocks are the end of its partial file.
TypeOK ==
    /\ pc \in Steps
    /\ gen \in Gens \cup {None}
    /\ pc # "idle" => gen \in Gens
    /\ area \in Areas
    /\ kind \in Kinds
    /\ seen \in Seq(Gens \cup {Bad})
    /\ had \subseteq Kinds
    /\ part \in [Areas -> [Kinds -> [Gens -> File]]]
    /\ pc \in {"request", "stream"} => MyPart # None
    /\ meta \subseteq Kinds \X Gens
    /\ staged \in [Areas -> [Kinds -> File]]
    /\ backup \in [Areas -> [Kinds -> File]]
    /\ dest \in [Kinds -> File]
    /\ record \in [Records -> Gens \cup {None}]
    /\ attempts \in 0..MaxAttempts
    /\ outcome \in {"none", "running", "failed", "broken", "crashed", "unfinished", "acquired"}
    /\ prior \in [Kinds -> File]

\* However often a download is interrupted, resumed from a part of another
\* attempt or restarted by the server, what it hands over is the whole asset.
DownloadedWhole ==
    pc = "verify" => \A k \in Kinds : staged[area][k] = Whole(k, gen)

\* A file of the destination is whole and of a generation that Apple signed,
\* whatever failed or crashed before.
PublishedVerified ==
    \A k \in Kinds : dest[k] # None => \E g \in Authentic : dest[k] = Whole(k, g)

\* The image and the chunklist of the destination are of one generation.
OneGeneration ==
    (\A k \in Kinds : dest[k] # None)
        => \E g \in Gens : \A k \in Kinds : dest[k] = Whole(k, g)

\* test_recovery_bundle_failure_preserves_prior_pair: an attempt that fails
\* before it has published leaves the former files as they were.  If its
\* rollback fails too, a kept staging directory still has what is not in its
\* place; a private one does not, and nothing is said of it.
FailureKeepsPrior ==
    /\ pc = "idle" /\ outcome = "failed" => dest = prior
    /\ pc = "idle" /\ outcome = "broken" /\ area = "kept" =>
           \A k \in Kinds : prior[k] # None => prior[k] \in {dest[k], backup["kept"][k]}

\* What load_lock and verify accept: three records of one generation, and its
\* two files.
Accepted(g) == /\ OneRecord(g)
               /\ \A k \in Kinds : dest[k] = Whole(k, g)

\* After an acquisition that reports success the bundle passes the offline
\* verification for the generation that was asked for.
SuccessAccepted ==
    pc = "idle" /\ outcome = "acquired" => Accepted(gen)
=============================================================================
