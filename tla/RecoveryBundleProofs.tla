------------------------ MODULE RecoveryBundleProofs ------------------------
(***************************************************************************)
(* Proofs about RecoveryBundle, for any generations, any size of the image *)
(* and any number of attempts.  BundleInv is what the destination owes to  *)
(* the place where the attempt is, whatever may fail; PriorInv adds where  *)
(* the former files are, as long as moving them aside does not fail.       *)
(***************************************************************************)
EXTENDS RecoveryBundle, TLAPS

Blocks == Gens \cup {Bad}

LEMMA FileFacts ==
    /\ None \in File /\ <<>> \in Seq(Blocks) /\ <<>> # None
    /\ \A f \in File : f # None => f \in Seq(Blocks)
    /\ \A f \in Seq(Blocks) : f \in File
    /\ \A f \in Seq(Blocks), b \in Blocks : Append(f, b) \in Seq(Blocks)
    /\ \A k \in Kinds, g \in Gens : Whole(k, g) \in Seq(Blocks)
<1>1. \A k \in Kinds : Size(k) \in Nat
      BY SizeAssumption DEF SizeAssumption, Size
<1>2. \A k \in Kinds, g \in Gens : Whole(k, g) \in Seq(Blocks)
      BY <1>1 DEF Whole, Blocks
<1>3. <<>> \in Seq(Gens \cup {Bad})
      OBVIOUS
<1>4. <<>> # None
      BY <1>3, GensAssumption DEF GensAssumption
<1> QED BY <1>2, <1>3, <1>4 DEF File, Blocks

\* No sequence of blocks is None.
LEMMA NotNone == \A f \in Seq(Blocks) : f # None
BY GensAssumption DEF GensAssumption, Blocks

LEMMA TidiedKeeps ==
    ASSUME NEW S, NEW files \in [Areas -> S], NEW none \in S
    PROVE  /\ Tidied(files, none) \in [Areas -> S]
           /\ Tidied(files, none)["kept"] = files["kept"]
           /\ Tidied(files, none)["private"] = none
BY DEF Tidied, Areas

Parts == [Areas -> [Kinds -> [Gens -> File]]]
Files == [Areas -> [Kinds -> File]]

LEMMA Empty == NoFiles \in [Kinds -> File] /\ NoParts \in [Kinds -> [Gens -> File]]
BY FileFacts DEF NoFiles, NoParts

LEMMA PutPart ==
    ASSUME NEW p \in Parts, NEW a \in Areas, NEW k \in Kinds, NEW g \in Gens, NEW f \in File
    PROVE  /\ [p EXCEPT ![a][k][g] = f] \in Parts
           /\ [p EXCEPT ![a][k][g] = f][a][k][g] = f
BY DEF Parts

LEMMA TakePart ==
    ASSUME NEW p \in Parts, NEW a \in Areas, NEW k \in Kinds, NEW g \in Gens
    PROVE  p[a][k][g] \in File
BY DEF Parts

LEMMA PutFile ==
    ASSUME NEW p \in Files, NEW a \in Areas, NEW k \in Kinds, NEW f \in File
    PROVE  /\ [p EXCEPT ![a][k] = f] \in Files
           /\ [p EXCEPT ![a][k] = f][a][k] = f
           /\ p[a][k] \in File
           /\ \A l \in Kinds : l # k => [p EXCEPT ![a][k] = f][a][l] = p[a][l]
           /\ \A c \in Areas : c # a => [p EXCEPT ![a][k] = f][c] = p[c]
BY DEF Files

\* The types of the files, and the rest.
FileTypes ==
    /\ seen \in Seq(Blocks)
    /\ part \in Parts
    /\ staged \in Files
    /\ backup \in Files
    /\ dest \in [Kinds -> File]
    /\ prior \in [Kinds -> File]

Words ==
    /\ pc \in Steps
    /\ gen \in Gens \cup {None}
    /\ pc # "idle" => gen \in Gens
    /\ area \in Areas
    /\ kind \in Kinds
    /\ had \subseteq Kinds
    /\ meta \subseteq Kinds \X Gens
    /\ record \in [Records -> Gens \cup {None}]
    /\ attempts \in 0..MaxAttempts
    /\ outcome \in {"none", "running", "failed", "broken", "crashed", "unfinished", "acquired"}

\* The blocks that a stream has hashed are those of its partial download.
Streaming ==
    /\ pc = "request" => MyPart # None
    /\ pc = "stream" => MyPart # None /\ seen = MyPart

Types == FileTypes /\ Words /\ Streaming

-----------------------------------------------------------------------------

LEMMA InitTypes == Init => Types
BY FileFacts, Empty, BoundAssumption
   DEF Init, Types, FileTypes, Words, Streaming, Parts, Files, Steps, Areas, Kinds,
       BoundAssumption

LEMMA StepTypes == Types /\ [Next]_vars => Types'
<1> SUFFICES ASSUME Types, [Next]_vars
             PROVE  Types'
    OBVIOUS
<1>0. /\ seen \in Seq(Blocks) /\ part \in Parts /\ staged \in Files /\ backup \in Files
      /\ dest \in [Kinds -> File] /\ prior \in [Kinds -> File]
      /\ area \in Areas /\ kind \in Kinds
      /\ pc # "idle" => gen \in Gens
      /\ "kept" \in Areas /\ "image" \in Kinds /\ "chunklist" \in Kinds
      BY DEF Types, FileTypes, Words, Areas, Kinds
<1>1. ASSUME NEW g \in Gens, NEW a \in Areas, Start(g, a)
      PROVE  Types'
      BY <1>1, BoundAssumption DEF Start, download, publication, BoundAssumption, MyPart, Kinds,
         Types, FileTypes, Words, Streaming, Steps
<1>2. CASE Reuse
      BY <1>2 DEF Reuse, Advance, publication, Kinds, Types, FileTypes, Words, Streaming, Steps
<1>3. CASE Open
  <2>1. gen \in Gens
        BY <1>0, <1>3 DEF Open
  <2>2. MyPart \in File
        BY <1>0, <2>1, TakePart DEF MyPart
  <2>3. PICK f \in File : f # None /\ part' = [part EXCEPT ![area][kind][gen] = f]
    <3> DEFINE f == IF ResumeMatches /\ MyPart # None
                    THEN MyPart ELSE <<>>
    <3>1. f \in File /\ f # None
          BY <2>2, FileFacts
    <3>2. part' = [part EXCEPT ![area][kind][gen] = f]
          BY <1>0, <1>3, <2>1 DEF Open, MyPart, Parts
    <3> QED BY <3>1, <3>2
  <2>4. /\ [part EXCEPT ![area][kind][gen] = f] \in Parts
        /\ [part EXCEPT ![area][kind][gen] = f][area][kind][gen] = f
        BY <1>0, <2>1, PutPart
  <2>5. part' \in Parts /\ MyPart' = f
        BY <1>3, <2>3, <2>4 DEF Open, MyPart
  <2>6. staged' \in Files
        BY <1>0, <1>3, FileFacts, PutFile DEF Open
  <2>7. meta' \subseteq Kinds \X Gens
        BY <1>0, <1>3, <2>1 DEF Open, Types, Words
  <2> QED BY <1>3, <2>3, <2>5, <2>6, <2>7 DEF Open, Types, FileTypes, Words, Streaming, Steps
<1>4. CASE Continued
  <2>1. MyPart \in File
        BY <1>0, <1>4, TakePart DEF Continued, MyPart
  <2>2. MyPart \in Seq(Blocks) /\ MyPart' = MyPart
        BY <1>4, <2>1, FileFacts DEF Continued, MyPart, Types, Streaming
  <2> QED BY <1>4, <2>2 DEF Continued, publication, Types, FileTypes, Words, Streaming, Steps,
             MyPart
<1>5. CASE Restarted
  <2>1. gen \in Gens /\ <<>> \in File
        BY <1>0, <1>5, FileFacts DEF Restarted
  <2>2. /\ [part EXCEPT ![area][kind][gen] = <<>>] \in Parts
        /\ [part EXCEPT ![area][kind][gen] = <<>>][area][kind][gen] = <<>>
        BY <1>0, <2>1, PutPart
  <2>3. part' \in Parts /\ MyPart' = <<>>
        BY <1>5, <2>2 DEF Restarted, MyPart
  <2> QED BY <1>5, <2>3, FileFacts
          DEF Restarted, publication, Types, FileTypes, Words, Streaming, Steps
<1>6. ASSUME NEW b \in Blocks, Receive(b)
      PROVE  Types'
  <2>1. MyPart = seen /\ gen \in Gens
        BY <1>0, <1>6 DEF Receive, Types, Streaming
  <2>2. PICK f : f = Append(seen, b)
        OBVIOUS
  <2>3. f \in Seq(Blocks) /\ f \in File
        BY <1>0, <2>2, FileFacts
  <2>4. part' = [part EXCEPT ![area][kind][gen] = f] /\ seen' = f
        BY <1>0, <1>6, <2>1, <2>2 DEF Receive, MyPart, Parts
  <2>5. /\ [part EXCEPT ![area][kind][gen] = f] \in Parts
        /\ [part EXCEPT ![area][kind][gen] = f][area][kind][gen] = f
        BY <1>0, <2>1, <2>3, PutPart
  <2>6. part' \in Parts /\ MyPart' = f
        BY <1>6, <2>4, <2>5 DEF Receive, MyPart
  <2> QED BY <1>6, <2>3, <2>4, <2>6, NotNone
          DEF Receive, publication, Types, FileTypes, Words, Streaming, Steps
<1>7. CASE Complete
  <2>1. gen \in Gens /\ None \in File
        BY <1>0, <1>7, FileFacts DEF Complete
  <2>2. MyPart \in File
        BY <1>0, <2>1, TakePart DEF MyPart
  <2>3. [part EXCEPT ![area][kind][gen] = None] \in Parts
        BY <1>0, <2>1, PutPart
  <2>4. [staged EXCEPT ![area][kind] = MyPart] \in Files
        BY <1>0, <2>2, PutFile
  <2>5. meta' \subseteq Kinds \X Gens
        BY <1>7 DEF Complete, Types, Words
  <2>6. seen' = <<>> /\ kind' \in Kinds /\ pc' \in {"open", "verify"}
        BY <1>0, <1>7 DEF Complete, Advance
  <2> QED BY <1>7, <2>1, <2>3, <2>4, <2>5, <2>6, FileFacts
          DEF Complete, Types, FileTypes, Words, Streaming, Steps
<1>8. CASE Mismatch
  <2>1. gen \in Gens /\ None \in File
        BY <1>0, <1>8, FileFacts DEF Mismatch
  <2>2. PICK f \in File : part' = Tidied([part EXCEPT !["kept"][kind][gen] = f], NoParts)
    <3> DEFINE f == IF area = "kept" THEN None ELSE part["kept"][kind][gen]
    <3>1. f \in File
          BY <1>0, <2>1, TakePart
    <3>2. part' = Tidied([part EXCEPT !["kept"][kind][gen] = f], NoParts)
          BY <1>0, <1>8, <2>1 DEF Mismatch, Parts
    <3> QED BY <3>1, <3>2
  <2>3. [part EXCEPT !["kept"][kind][gen] = f] \in Parts
        BY <1>0, <2>1, PutPart
  <2>4. part' \in Parts
        BY <2>2, <2>3, TidiedKeeps, Empty DEF Parts
  <2>5. staged' \in Files
        BY <1>0, <1>8, TidiedKeeps, Empty DEF Mismatch, Files
  <2>6. meta' \subseteq Kinds \X Gens
        BY <1>8 DEF Mismatch, Types, Words
  <2> QED BY <1>8, <2>1, <2>4, <2>5, <2>6, FileFacts
          DEF Mismatch, End, Types, FileTypes, Words, Streaming, Steps
<1>9. CASE Interrupted
  <2>1. part' \in Parts /\ staged' \in Files
        BY <1>0, <1>9, TidiedKeeps, Empty DEF Interrupted, Parts, Files
  <2> QED BY <1>9, <2>1, FileFacts
          DEF Interrupted, End, Types, FileTypes, Words, Streaming, Steps
<1>10. CASE Verify
       BY <1>10 DEF Verify, download, Kinds, Types, FileTypes, Words, Streaming, Steps
<1>11. CASE VerifyFails
  <2>1. part' \in Parts /\ staged' \in Files
        BY <1>0, <1>11, TidiedKeeps, Empty DEF VerifyFails, Parts, Files
  <2> QED BY <1>11, <2>1, FileFacts
          DEF VerifyFails, End, Types, FileTypes, Words, Streaming, Steps
<1>12. CASE MoveAside
  <2>1. dest[kind] \in File /\ None \in File
        BY <1>0, FileFacts
  <2>2. [backup EXCEPT ![area][kind] = dest[kind]] \in Files
        BY <1>0, <2>1, PutFile
  <2>3. backup' \in Files /\ dest' \in [Kinds -> File]
        BY <1>0, <1>12, <2>1, <2>2 DEF MoveAside
  <2> QED BY <1>12, <2>3
          DEF MoveAside, Follow, download, Kinds, Types, FileTypes, Words, Streaming, Steps
<1>13. CASE Publish
  <2>1. staged[area][kind] \in File /\ None \in File
        BY <1>0, PutFile, FileFacts
  <2>2. [staged EXCEPT ![area][kind] = None] \in Files
        BY <1>0, <2>1, PutFile
  <2>3. staged' \in Files /\ dest' \in [Kinds -> File]
        BY <1>0, <1>13, <2>1, <2>2 DEF Publish
  <2> QED BY <1>13, <2>3
          DEF Publish, Follow, download, Kinds, Types, FileTypes, Words, Streaming, Steps
<1>14. CASE PublicationFails
       BY <1>14 DEF PublicationFails, download, publication, Kinds, Types, FileTypes, Words,
          Streaming, Steps
<1>15. CASE Withdraw
       BY <1>0, <1>15, FileFacts DEF Withdraw, Follow, download, Kinds, Types, FileTypes, Words,
          Streaming, Steps
<1>16. CASE RestoreImage
  <2>1. backup[area]["image"] \in File /\ None \in File
        BY <1>0, PutFile, FileFacts
  <2>2. [backup EXCEPT ![area]["image"] = None] \in Files
        BY <1>0, <2>1, PutFile
  <2>3. backup' \in Files /\ dest' \in [Kinds -> File]
        BY <1>0, <1>16, <2>1, <2>2 DEF RestoreImage
  <2> QED BY <1>16, <2>3
          DEF RestoreImage, download, Kinds, Types, FileTypes, Words, Streaming, Steps
<1>17. CASE RestoreChunklist
  <2>1. backup[area]["chunklist"] \in File /\ None \in File
        BY <1>0, PutFile, FileFacts
  <2>2. PICK f \in File : backup' = Tidied([backup EXCEPT ![area]["chunklist"] = f], NoFiles)
    <3> DEFINE f == IF Restored("chunklist") THEN None ELSE backup[area]["chunklist"]
    <3>1. f \in File
          BY <2>1
    <3>2. backup' = Tidied([backup EXCEPT ![area]["chunklist"] = f], NoFiles)
          BY <1>0, <1>17 DEF RestoreChunklist, Files
    <3> QED BY <3>1, <3>2
  <2>3. [backup EXCEPT ![area]["chunklist"] = f] \in Files
        BY <1>0, PutFile
  <2>4. backup' \in Files
        BY <2>2, <2>3, TidiedKeeps, Empty DEF Files
  <2>5. staged' \in Files /\ part' \in Parts
        BY <1>0, <1>17, TidiedKeeps, Empty DEF RestoreChunklist, Files, Parts
  <2>6. dest' \in [Kinds -> File]
        BY <1>0, <1>17, <2>1 DEF RestoreChunklist
  <2> QED BY <1>17, <2>4, <2>5, <2>6, FileFacts
          DEF RestoreChunklist, End, Types, FileTypes, Words, Streaming, Steps
<1>18. CASE Clean
  <2>1. part' \in Parts
        BY <1>0, <1>18, Empty DEF Clean, Parts
  <2>2. staged' \in Files /\ backup' \in Files
        BY <1>0, <1>18, Empty DEF Clean, Files
  <2>3. meta' \subseteq Kinds \X Gens
        BY <1>18 DEF Clean, Types, Words
  <2> QED BY <1>18, <2>1, <2>2, <2>3
          DEF Clean, Types, FileTypes, Words, Streaming, Steps, Records
<1>19. CASE WriteRecord
  <2>1. record' \in [Records -> Gens \cup {None}]
        BY <1>0, <1>19 DEF WriteRecord, Recorded, Records, Types, Words
  <2>2. pc' \in {"lock", "evidence", "readback"}
        BY <1>19 DEF WriteRecord, Records
  <2> QED BY <1>0, <1>19, <2>1, <2>2
          DEF WriteRecord, download, publication, Records, Types, FileTypes, Words, Streaming, Steps
<1>20. CASE FinishFails
  <2>1. part' \in Parts /\ staged' \in Files /\ backup' \in Files
        BY <1>0, <1>20, TidiedKeeps, Empty DEF FinishFails, Parts, Files
  <2> QED BY <1>20, <2>1, FileFacts
          DEF FinishFails, End, Types, FileTypes, Words, Streaming, Steps, Records
<1>21. CASE Readback
       BY <1>21, FileFacts DEF Readback, End, Types, FileTypes, Words, Streaming, Steps
<1>22. CASE Crash
  <2>1. part' \in Parts /\ staged' \in Files /\ backup' \in Files
        BY <1>0, <1>22, TidiedKeeps, Empty DEF Crash, Parts, Files
  <2> QED BY <1>22, <2>1, FileFacts
          DEF Crash, End, Types, FileTypes, Words, Streaming, Steps
<1>23. CASE UNCHANGED vars
       BY <1>23 DEF vars, download, publication, MyPart, Types, FileTypes, Words, Streaming, Steps
<1>24. CASE CleanEntry
  <2>1. PICK k \in Kinds, g \in Gens :
            /\ backup' \in {backup, [backup EXCEPT ![area][k] = None]}
            /\ part' \in {part, [part EXCEPT ![area][k][g] = None]}
            /\ meta' \in {meta, meta \ {<<k, g>>}}
        BY <1>24 DEF CleanEntry
  <2>2. part' \in Parts /\ backup' \in Files
        BY <1>0, <2>1, FileFacts, PutPart, PutFile
  <2>3. meta' \subseteq Kinds \X Gens
        BY <2>1 DEF Types, Words
  <2> QED BY <1>24, <2>2, <2>3 DEF CleanEntry, Types, FileTypes, Words, Streaming, Steps
<1>25. CASE RollbackFails
  <2>1. part' \in Parts /\ staged' \in Files /\ backup' \in Files
        BY <1>0, <1>25, TidiedKeeps, Empty DEF RollbackFails, Parts, Files
  <2> QED BY <1>25, <2>1, FileFacts
          DEF RollbackFails, End, Types, FileTypes, Words, Streaming, Steps
<1>26. \A b \in {gen} \cup (IF "bad" \in Faults THEN {Bad} ELSE {}) : Receive(b) => b \in Blocks
       BY <1>0 DEF Receive, Blocks
<1> QED
    BY <1>1, <1>2, <1>3, <1>4, <1>5, <1>6, <1>7, <1>8, <1>9, <1>10, <1>11, <1>12, <1>13,
       <1>14, <1>15, <1>16, <1>17, <1>18, <1>19, <1>20, <1>21, <1>22, <1>23, <1>24, <1>25,
       <1>26 DEF Next

-----------------------------------------------------------------------------
(* The bundle *)

\* The first asset is whole when the second is downloaded, and both when they
\* are verified.
Downloading ==
    /\ pc \in {"open", "request", "stream"} /\ kind = "chunklist" =>
           staged[area]["image"] = Whole("image", gen)
    /\ pc = "verify" => kind = "chunklist"
    /\ DownloadedWhole

\* What is published is whole and signed, and is where it belongs step by step.
Publishing ==
    /\ pc \in {"aside", "publish"} => gen \in Authentic
    /\ pc = "aside" \/ (pc = "publish" /\ kind = "image") =>
           \A k \in Kinds : staged[area][k] = Whole(k, gen)
    /\ pc = "publish" /\ kind = "chunklist" =>
           /\ staged[area]["chunklist"] = Whole("chunklist", gen)
           /\ dest["image"] = Whole("image", gen)

\* The records follow the bundle.
Recording ==
    /\ pc \in {"clean", "readback"} \cup Records => \A k \in Kinds : dest[k] = Whole(k, gen)
    /\ pc \in {"lock", "evidence", "readback"} => record["state"] = gen
    /\ pc \in {"evidence", "readback"} => record["lock"] = gen
    /\ pc = "readback" => record["evidence"] = gen
    /\ pc # "idle" => outcome = "running"

\* Of the destination, and of what may be restored to it.
Vouched(k, f) == f # None => \E g \in Authentic : f = Whole(k, g)

AllVouched ==
    /\ \A k \in Kinds : Vouched(k, dest[k])
    /\ \A a \in Areas, k \in Kinds : Vouched(k, backup[a][k])

BundleInv == Types /\ Downloading /\ Publishing /\ Recording /\ AllVouched /\ SuccessAccepted

LEMMA InitBundle == Init => BundleInv
BY InitTypes DEF Init, BundleInv, Downloading, DownloadedWhole, Publishing, Recording, AllVouched,
   Vouched, SuccessAccepted, Records, NoFiles

\* Steps of the download: nothing outside of the staging directory changes.
LEMMA DownloadBundle ==
    ASSUME BundleInv, Types',
           Reuse \/ Open \/ Continued \/ Restarted \/ (\E b : Receive(b)) \/ Complete
    PROVE  BundleInv'
<1>0. /\ area' = area /\ gen' = gen /\ UNCHANGED <<backup, dest, record, outcome>>
      /\ pc \in {"open", "request", "stream"}
      /\ pc' \in {"open", "request", "stream", "verify"}
      BY DEF Reuse, Open, Continued, Restarted, Receive, Complete, Advance, publication
<1>1. Publishing' /\ Recording' /\ AllVouched' /\ SuccessAccepted'
      BY <1>0 DEF BundleInv, Publishing, Recording, AllVouched, Vouched, SuccessAccepted, Records
<1> SUFFICES Downloading'
    BY <1>1 DEF BundleInv
<1>2. /\ staged \in Files /\ area \in Areas /\ kind \in {"image", "chunklist"}
      BY DEF BundleInv, Types, FileTypes, Words, Kinds
<1>3. CASE Reuse
      BY <1>0, <1>2, <1>3
         DEF Reuse, Reusable, Advance, publication, BundleInv, Downloading, DownloadedWhole, Kinds
<1>4. CASE Open
  <2>1. staged'[area]["image"] = IF kind = "image" THEN None ELSE staged[area]["image"]
        BY <1>2, <1>4 DEF Open, Files, Kinds
  <2> QED BY <1>0, <1>4, <2>1 DEF Open, BundleInv, Downloading, DownloadedWhole
<1>5. CASE Continued \/ Restarted \/ \E b : Receive(b)
      BY <1>0, <1>5 DEF Continued, Restarted, Receive, publication, BundleInv, Downloading,
         DownloadedWhole
<1>6. CASE Complete
  <2>1. MyPart = Whole(kind, gen)
        BY <1>6 DEF Complete, BundleInv, Types, Streaming
  <2>2. /\ staged'[area][kind] = Whole(kind, gen)
        /\ kind = "chunklist" => staged'[area]["image"] = staged[area]["image"]
        BY <1>2, <1>6, <2>1 DEF Complete, Files, Kinds
  <2> QED BY <1>0, <1>2, <1>6, <2>2
          DEF Complete, Advance, BundleInv, Downloading, DownloadedWhole, Kinds
<1> QED BY <1>3, <1>4, <1>5, <1>6

\* The ends: the destination stays, and backups stay or go.
LEMMA EndBundle ==
    ASSUME BundleInv, Types',
           Mismatch \/ Interrupted \/ VerifyFails \/ RollbackFails \/ FinishFails \/ Readback \/ Crash
    PROVE  BundleInv'
<1>0. pc' = "idle" /\ gen' = gen /\ dest' = dest /\ record' = record
      BY DEF Mismatch, Interrupted, VerifyFails, RollbackFails, FinishFails, Readback, Crash, End
<1>1. \A a \in Areas : backup'[a] = backup[a] \/ backup'[a] = NoFiles
  <2>1. backup' = backup \/ backup' = Tidied(backup, NoFiles)
        BY DEF Mismatch, Interrupted, VerifyFails, RollbackFails, FinishFails, Readback, Crash
  <2>2. \A a \in Areas : Tidied(backup, NoFiles)[a] \in {backup[a], NoFiles}
        BY DEF Tidied, BundleInv, Types, FileTypes, Files, Areas
  <2> QED BY <2>1, <2>2
<1>2. AllVouched'
      BY <1>0, <1>1 DEF BundleInv, AllVouched, Vouched, NoFiles
<1>3. outcome' = "acquired" => Accepted(gen)'
  <2>1. outcome' = "acquired" => Readback
        BY DEF Mismatch, Interrupted, VerifyFails, RollbackFails, FinishFails, Crash, End
  <2>2. Readback => Accepted(gen)
        BY DEF Readback, BundleInv, Recording, Accepted, OneRecord, Records
  <2> QED BY <1>0, <2>1, <2>2 DEF Accepted, OneRecord
<1> QED BY <1>0, <1>2, <1>3 DEF BundleInv, Downloading, DownloadedWhole, Publishing, Recording,
           SuccessAccepted, Records

\* Verification and publication.
LEMMA PublishBundle ==
    ASSUME BundleInv, Types',
           Verify \/ MoveAside \/ Publish \/ PublicationFails \/ Withdraw \/ RestoreImage
    PROVE  BundleInv'
<1>0. /\ gen' = gen /\ area' = area /\ record' = record /\ outcome' = outcome
      /\ pc' \in {"aside", "publish", "clean", "withdraw", "restore"}
      /\ pc # "idle"
      BY DEF Verify, MoveAside, Publish, PublicationFails, Withdraw, RestoreImage, Follow
<1>1. Downloading' /\ SuccessAccepted'
      BY <1>0 DEF Downloading, DownloadedWhole, SuccessAccepted
<1> SUFFICES Publishing' /\ Recording' /\ AllVouched'
    BY <1>1 DEF BundleInv
<1>2. /\ staged \in Files /\ backup \in Files /\ dest \in [Kinds -> File]
      /\ area \in Areas /\ kind \in {"image", "chunklist"}
      BY DEF BundleInv, Types, FileTypes, Words, Kinds
<1>3. /\ Publishing /\ Recording /\ AllVouched
      BY DEF BundleInv
<1>4. CASE Verify
      BY <1>0, <1>3, <1>4 DEF Verify, Genuine, Publishing, Recording, AllVouched, Vouched, Records
<1>5. CASE MoveAside
  <2>1. Publishing'
        BY <1>0, <1>2, <1>3, <1>5 DEF MoveAside, Follow, Publishing, Kinds
  <2>2. Recording'
        BY <1>0, <1>3, <1>5 DEF MoveAside, Follow, Recording, Records
  <2>3. \A k \in Kinds : dest'[k] \in {dest[k], None}
        BY <1>2, <1>5 DEF MoveAside, Kinds
  <2>4. \A a \in Areas, k \in Kinds : backup'[a][k] \in {backup[a][k], dest[k]}
        BY <1>2, <1>5 DEF MoveAside, Files, Kinds
  <2> QED BY <1>3, <2>1, <2>2, <2>3, <2>4 DEF AllVouched, Vouched
<1>6. CASE Publish
  <2>1. gen \in Authentic /\ staged[area][kind] = Whole(kind, gen)
        BY <1>2, <1>3, <1>6 DEF Publish, Publishing, Kinds
  <2>2. dest' = [dest EXCEPT ![kind] = Whole(kind, gen)]
        BY <1>6, <2>1 DEF Publish
  <2>3. kind = "image" => /\ staged'[area]["chunklist"] = staged[area]["chunklist"]
                          /\ dest'["image"] = Whole("image", gen)
        BY <1>2, <1>6, <2>2 DEF Publish, Files, Kinds
  <2>4. kind = "chunklist" => \A k \in Kinds : dest'[k] = Whole(k, gen)
        BY <1>2, <1>3, <1>6, <2>2 DEF Publish, Publishing, Kinds
  <2>5. Publishing'
        BY <1>0, <1>2, <1>3, <1>6, <2>1, <2>3 DEF Publish, Follow, Publishing, Kinds
  <2>6. Recording'
        BY <1>0, <1>2, <1>3, <1>6, <2>4 DEF Publish, Follow, Recording, Records
  <2>7. \A k \in Kinds : dest'[k] = dest[k] \/ dest'[k] = Whole(k, gen)
        BY <1>2, <2>2
  <2>8. backup' = backup
        BY <1>6 DEF Publish
  <2> QED BY <1>3, <2>1, <2>5, <2>6, <2>7, <2>8 DEF AllVouched, Vouched
<1>7. CASE PublicationFails
      BY <1>0, <1>3, <1>7 DEF PublicationFails, publication, Publishing, Recording, AllVouched,
         Vouched, Records
<1>8. CASE Withdraw
  <2>1. Publishing' /\ Recording'
        BY <1>0, <1>3, <1>8 DEF Withdraw, Follow, Publishing, Recording, Records
  <2>2. \A k \in Kinds : dest'[k] \in {dest[k], None}
        BY <1>2, <1>8 DEF Withdraw
  <2> QED BY <1>3, <1>8, <2>1, <2>2 DEF Withdraw, AllVouched, Vouched
<1>9. CASE RestoreImage
  <2>1. Publishing' /\ Recording'
        BY <1>0, <1>3, <1>9 DEF RestoreImage, Publishing, Recording, Records
  <2>2. \A k \in Kinds : dest'[k] = dest[k] \/ dest'[k] = backup[area][k]
        BY <1>2, <1>9 DEF RestoreImage, Kinds
  <2>3. \A a \in Areas, k \in Kinds : backup'[a][k] \in {backup[a][k], None}
        BY <1>2, <1>9 DEF RestoreImage, Files, Kinds
  <2> QED BY <1>2, <1>3, <2>1, <2>2, <2>3 DEF AllVouched, Vouched
<1> QED BY <1>4, <1>5, <1>6, <1>7, <1>8, <1>9

\* The rollback's end and what follows a publication.
LEMMA FinishBundle ==
    ASSUME BundleInv, Types',
           RestoreChunklist \/ CleanEntry \/ Clean \/ WriteRecord
    PROVE  BundleInv'
<1>1. /\ backup \in Files /\ dest \in [Kinds -> File] /\ area \in Areas
      /\ record \in [Records -> Gens \cup {None}]
      /\ AllVouched /\ Recording
      BY DEF BundleInv, Types, FileTypes, Words
<1>2. CASE RestoreChunklist
  <2>1. \A k \in Kinds : dest'[k] = dest[k] \/ dest'[k] = backup[area][k]
        BY <1>1, <1>2 DEF RestoreChunklist, Kinds
  <2>2. \A a \in Areas, k \in Kinds : backup'[a][k] \in {backup[a][k], None}
        BY <1>1, <1>2 DEF RestoreChunklist, Tidied, NoFiles, Files, Areas, Kinds
  <2>3. AllVouched'
        BY <1>1, <2>1, <2>2 DEF AllVouched, Vouched
  <2>4. pc' = "idle" /\ outcome' = "failed"
        BY <1>2 DEF RestoreChunklist, End
  <2> QED BY <2>3, <2>4 DEF BundleInv, Downloading, DownloadedWhole, Publishing, Recording,
             SuccessAccepted, Records
<1>3. CASE Clean
  <2>1. \A a \in Areas, k \in Kinds : backup'[a][k] \in {backup[a][k], None}
        BY <1>1, <1>3 DEF Clean, NoFiles, Files
  <2>2. AllVouched'
        BY <1>1, <1>3, <2>1 DEF AllVouched, Vouched, Clean
  <2> QED BY <1>1, <1>3, <2>2 DEF Clean, BundleInv, Downloading, DownloadedWhole, Publishing,
             Recording, SuccessAccepted, Records
<1>4. CASE WriteRecord
  <2>1. /\ UNCHANGED <<gen, dest, backup, outcome>>
        /\ pc \in Records /\ record' = [record EXCEPT ![pc] = gen]
        BY <1>4 DEF WriteRecord, Recorded, publication
  <2>2. /\ pc = "state" => pc' = "lock"
        /\ pc = "lock" => pc' = "evidence"
        /\ pc = "evidence" => pc' = "readback"
        BY <1>4 DEF WriteRecord, Records
  <2>3. Recording'
        BY <1>1, <2>1, <2>2 DEF Recording, Records
  <2>4. AllVouched'
        BY <1>1, <2>1 DEF AllVouched, Vouched
  <2> QED BY <2>1, <2>2, <2>3, <2>4 DEF BundleInv, Downloading, DownloadedWhole, Publishing,
             SuccessAccepted, Records
<1>5. CASE CleanEntry
  <2>1. PICK l \in Kinds : backup' \in {backup, [backup EXCEPT ![area][l] = None]}
        BY <1>5 DEF CleanEntry
  <2>2. \A a \in Areas, k \in Kinds : backup'[a][k] \in {backup[a][k], None}
        BY <1>1, <2>1 DEF Files
  <2>3. AllVouched'
        BY <1>1, <1>5, <2>2 DEF AllVouched, Vouched, CleanEntry
  <2> QED BY <1>1, <1>5, <2>3 DEF CleanEntry, BundleInv, Downloading, DownloadedWhole, Publishing,
             Recording, SuccessAccepted, Records
<1> QED BY <1>2, <1>3, <1>4, <1>5

LEMMA StepBundle == BundleInv /\ [Next]_vars => BundleInv'
<1> SUFFICES ASSUME BundleInv, [Next]_vars
             PROVE  BundleInv'
    OBVIOUS
<1>1. Types'
      BY StepTypes DEF BundleInv
<1>2. ASSUME NEW g \in Gens, NEW a \in Areas, Start(g, a)
      PROVE  BundleInv'
      BY <1>1, <1>2 DEF Start, publication, BundleInv, Downloading, DownloadedWhole, Publishing,
         Recording, AllVouched, Vouched, SuccessAccepted, Records
<1>3. CASE UNCHANGED vars
      BY <1>1, <1>3 DEF vars, publication, BundleInv, Downloading, DownloadedWhole, Publishing,
         Recording, AllVouched, Vouched, SuccessAccepted, Accepted, OneRecord
<1> QED BY <1>1, <1>2, <1>3, DownloadBundle, EndBundle, PublishBundle, FinishBundle DEF Next

\* Types, and a stream whose blocks are those of its partial file.
THEOREM TypeCorrect == Spec => []TypeOK
<1>1. Types => TypeOK
      BY DEF Types, FileTypes, Words, Streaming, Parts, Files, Blocks, TypeOK
<1> QED BY <1>1, InitTypes, StepTypes, PTL DEF Spec

THEOREM BundleInvariant == Spec => []BundleInv
BY InitBundle, StepBundle, PTL DEF Spec

\* However a download is interrupted, resumed or restarted, what is verified is
\* the whole of what was asked for (recovery/acquirer.py:116-337).
THEOREM DownloadsWhole == Spec => []DownloadedWhole
<1>1. BundleInv => DownloadedWhole
      BY DEF BundleInv, Downloading
<1> QED BY <1>1, BundleInvariant, PTL

\* The destination never holds a file that is not whole or not signed, whatever
\* fails (recovery/acquirer.py:471-512).
THEOREM PublishesVerified == Spec => []PublishedVerified
<1>1. BundleInv => PublishedVerified
      BY DEF BundleInv, AllVouched, Vouched, PublishedVerified
<1> QED BY <1>1, BundleInvariant, PTL

\* An acquisition that reports success leaves a bundle that is accepted
\* (recovery/service.py:239-295).
THEOREM SucceedsAccepted == Spec => []SuccessAccepted
<1>1. BundleInv => SuccessAccepted
      BY DEF BundleInv
<1> QED BY <1>1, BundleInvariant, PTL

-----------------------------------------------------------------------------
(* The former files *)

Paired(f) == (\A k \in Kinds : f[k] # None)
                 => \E g \in Gens : \A k \in Kinds : f[k] = Whole(k, g)

Moving == {"aside", "publish", "withdraw", "restore"}

\* The backups are the former files.
BackedUp(ks) == \A k \in ks \cap had : backup[area][k] = prior[k]

\* Where the former files are at every step: in the destination, then aside one
\* after the other, and back.
PriorInv ==
    /\ pc \in {"open", "request", "stream", "verify"} => dest = prior
    /\ pc \in Moving => had = {k \in Kinds : prior[k] # None}
    /\ pc = "aside" /\ kind = "image" => dest = prior
    /\ pc = "aside" /\ kind = "chunklist" =>
           /\ dest["image"] = None /\ dest["chunklist"] = prior["chunklist"]
           /\ BackedUp({"image"})
    /\ pc \in {"publish", "withdraw"} => BackedUp(Kinds)
    /\ pc = "publish" => dest["chunklist"] = None /\ (kind = "image" => dest["image"] = None)
    /\ pc = "withdraw" /\ kind = "chunklist" => dest["image"] = None
    /\ pc = "restore" /\ kind = "image" => dest = NoFiles /\ BackedUp(Kinds)
    /\ pc = "restore" /\ kind = "chunklist" =>
           /\ dest["image"] = prior["image"] /\ dest["chunklist"] = None
           /\ BackedUp({"chunklist"})
    /\ FailureKeepsPrior
    /\ Paired(prior)
    /\ OneGeneration

LEMMA InitPrior == Init => PriorInv
BY DEF Init, PriorInv, Moving, FailureKeepsPrior, Paired, OneGeneration, NoFiles, Kinds

LEMMA StepPrior ==
    ASSUME "aside" \notin Faults, BundleInv, Types', PriorInv, [Next]_vars
    PROVE  PriorInv'
<1>0. /\ backup \in Files /\ staged \in Files
      /\ dest \in [Kinds -> File] /\ prior \in [Kinds -> File]
      /\ area \in Areas /\ kind \in {"image", "chunklist"} /\ Kinds = {"image", "chunklist"}
      /\ pc # "idle" => outcome = "running" /\ gen \in Gens
      BY DEF BundleInv, Types, FileTypes, Words, Recording, Kinds
<1>1. ASSUME NEW g \in Gens, NEW a \in Areas, Start(g, a)
      PROVE  PriorInv'
      BY <1>1 DEF Start, publication, PriorInv, Moving, FailureKeepsPrior, Paired, OneGeneration
<1>2. CASE Reuse \/ Open \/ Continued \/ Restarted \/ (\E b : Receive(b)) \/ Complete
  <2>1. /\ dest' = dest /\ prior' = prior
        /\ pc \in {"open", "request", "stream"}
        /\ pc' \in {"open", "request", "stream", "verify"}
        BY <1>2 DEF Reuse, Open, Continued, Restarted, Receive, Complete, Advance, publication
  <2> QED BY <2>1 DEF PriorInv, Moving, FailureKeepsPrior, Paired, OneGeneration
<1>3. CASE Mismatch \/ Interrupted \/ VerifyFails
  <2>1. /\ pc \in {"open", "request", "stream", "verify"} /\ pc' = "idle"
        /\ dest' = dest /\ prior' = prior /\ outcome' = "failed"
        BY <1>3 DEF Mismatch, Interrupted, VerifyFails, End
  <2> QED BY <2>1 DEF PriorInv, Moving, FailureKeepsPrior, Paired, OneGeneration
<1>4. CASE Crash \/ FinishFails \/ Readback
  <2>1. /\ pc' = "idle" /\ outcome' \notin {"failed", "broken"}
        /\ dest' = dest /\ prior' = prior
        BY <1>4 DEF Crash, FinishFails, Readback, End
  <2> QED BY <2>1 DEF PriorInv, Moving, FailureKeepsPrior, Paired, OneGeneration
<1>5. CASE Verify
  <2>1. /\ pc = "verify" /\ pc' = "aside" /\ kind' = "image"
        /\ had' = {k \in Kinds : dest[k] # None}
        /\ dest' = dest /\ prior' = prior
        BY <1>5 DEF Verify
  <2> QED BY <2>1 DEF PriorInv, Moving, FailureKeepsPrior, Paired, OneGeneration
<1>6. CASE MoveAside
  <2>1. /\ pc = "aside" /\ had' = had /\ prior' = prior /\ area' = area
        /\ had = {k \in Kinds : prior[k] # None}
        BY <1>6 DEF MoveAside, PriorInv, Moving
  <2>2. CASE kind = "image"
    <3>1. pc' = "aside" /\ kind' = "chunklist" /\ dest = prior
          BY <1>6, <2>1, <2>2 DEF MoveAside, Follow, PriorInv
    <3>2. dest'["image"] = None /\ dest'["chunklist"] = prior["chunklist"]
          BY <1>0, <1>6, <2>1, <2>2, <3>1 DEF MoveAside
    <3>3. "image" \in had => backup'[area]["image"] = prior["image"]
          BY <1>0, <1>6, <2>2, <3>1 DEF MoveAside, Files
    <3> QED BY <1>0, <2>1, <3>1, <3>2, <3>3
            DEF PriorInv, BackedUp, FailureKeepsPrior, Paired, OneGeneration
  <2>3. CASE kind = "chunklist"
    <3>1. /\ pc' = "publish" /\ kind' = "image"
          /\ dest["image"] = None /\ dest["chunklist"] = prior["chunklist"]
          /\ "image" \in had => backup[area]["image"] = prior["image"]
          BY <1>6, <2>1, <2>3 DEF MoveAside, Follow, PriorInv, BackedUp
    <3>2. dest'["image"] = None /\ dest'["chunklist"] = None
          BY <1>0, <1>6, <2>1, <2>3, <3>1 DEF MoveAside
    <3>3. /\ "image" \in had => backup'[area]["image"] = prior["image"]
          /\ "chunklist" \in had => backup'[area]["chunklist"] = prior["chunklist"]
          BY <1>0, <1>6, <2>3, <3>1 DEF MoveAside, Files
    <3> QED BY <1>0, <2>1, <3>1, <3>2, <3>3
            DEF PriorInv, BackedUp, FailureKeepsPrior, Paired, OneGeneration
  <2> QED BY <1>0, <2>2, <2>3
<1>7. CASE Publish
  <2>1. /\ pc = "publish" /\ UNCHANGED <<had, prior, area, backup, gen>>
        /\ gen \in Gens
        /\ \/ /\ pc' = IF kind = "image" THEN "publish" ELSE "clean"
              /\ kind' = IF kind = "image" THEN "chunklist" ELSE "image"
           \/ pc' = "withdraw" /\ kind' = "image"
        BY <1>0, <1>7 DEF Publish, Follow
  <2>2. BackedUp(Kinds)' /\ had' = {k \in Kinds : prior'[k] # None} /\ Paired(prior)'
        BY <2>1 DEF PriorInv, BackedUp, Paired, Moving
  <2>3. kind = "image" => dest'["chunklist"] = None
        BY <1>0, <1>7, <2>1 DEF Publish, PriorInv
  <2>4. kind = "chunklist" => \A k \in Kinds : dest'[k] = Whole(k, gen)
        BY <1>0, <1>7 DEF Publish, BundleInv, Publishing
  <2>5. OneGeneration'
        BY <1>0, <2>1, <2>3, <2>4 DEF OneGeneration
  <2> QED BY <1>0, <2>1, <2>2, <2>3, <2>5 DEF PriorInv, Moving, FailureKeepsPrior
<1>8. CASE PublicationFails
  <2>1. /\ pc = "publish" /\ pc' = "withdraw" /\ kind' = "image"
        /\ UNCHANGED <<had, prior, area, backup, dest>>
        BY <1>8 DEF PublicationFails, publication
  <2> QED BY <2>1 DEF PriorInv, BackedUp, Moving, FailureKeepsPrior, Paired, OneGeneration
<1>9. CASE Withdraw
  <2>1. /\ pc = "withdraw" /\ UNCHANGED <<had, prior, area, backup>>
        /\ pc' = IF kind = "image" THEN "withdraw" ELSE "restore"
        /\ kind' = IF kind = "image" THEN "chunklist" ELSE "image"
        /\ dest' = [dest EXCEPT ![kind] = None]
        BY <1>9 DEF Withdraw, Follow
  <2>2. /\ dest'[kind] = None
        /\ kind = "chunklist" => dest' = NoFiles
        BY <1>0, <2>1 DEF PriorInv, NoFiles
  <2>3. OneGeneration'
        BY <1>0, <2>2 DEF OneGeneration
  <2> QED BY <1>0, <2>1, <2>2, <2>3
          DEF PriorInv, BackedUp, Moving, FailureKeepsPrior, Paired
<1>10. CASE RestoreImage
  <2>1. /\ pc = "restore" /\ pc' = "restore" /\ kind = "image" /\ kind' = "chunklist"
        /\ UNCHANGED <<had, prior, area>>
        /\ dest = NoFiles /\ had = {k \in Kinds : prior[k] # None}
        /\ \A k \in had : backup[area][k] = prior[k]
        BY <1>0, <1>10 DEF RestoreImage, PriorInv, BackedUp, Moving
  <2>2. dest'["image"] = prior["image"] /\ dest'["chunklist"] = None
        BY <1>0, <1>10, <2>1 DEF RestoreImage, Restored, NoFiles
  <2>3. "chunklist" \in had => backup'[area]["chunklist"] = prior["chunklist"]
        BY <1>0, <1>10, <2>1 DEF RestoreImage, Files
  <2> QED BY <1>0, <2>1, <2>2, <2>3
          DEF PriorInv, BackedUp, Moving, FailureKeepsPrior, Paired, OneGeneration
<1>11. CASE RestoreChunklist
  <2>1. /\ pc = "restore" /\ pc' = "idle" /\ prior' = prior
        /\ had = {k \in Kinds : prior[k] # None}
        /\ dest["image"] = prior["image"] /\ dest["chunklist"] = None
        /\ "chunklist" \in had => backup[area]["chunklist"] = prior["chunklist"]
        BY <1>11 DEF RestoreChunklist, End, PriorInv, BackedUp, Moving
  <2>2. dest'["image"] = prior["image"] /\ dest'["chunklist"] = prior["chunklist"]
        BY <1>0, <1>11, <2>1 DEF RestoreChunklist, Restored
  <2>3. dest' \in [Kinds -> File]
        BY DEF Types, FileTypes
  <2>4. dest' = prior
        BY <1>0, <2>2, <2>3
  <2> QED BY <2>1, <2>4 DEF PriorInv, Moving, FailureKeepsPrior, Paired, OneGeneration
<1>12. CASE CleanEntry \/ Clean \/ WriteRecord
  <2>1. /\ pc' \in {"clean", "lock", "evidence", "readback", "state"} /\ UNCHANGED <<dest, prior>>
        BY <1>12 DEF CleanEntry, Clean, WriteRecord, publication, Records
  <2> QED BY <2>1 DEF PriorInv, Moving, FailureKeepsPrior, Paired, OneGeneration
<1>13. CASE UNCHANGED vars
       BY <1>13 DEF vars, publication, PriorInv, BackedUp, Moving, FailureKeepsPrior, Paired,
          OneGeneration
<1>14. CASE RollbackFails
  <2>1. /\ pc \in {"withdraw", "restore"} /\ pc' = "idle" /\ outcome' = "broken"
        /\ UNCHANGED <<dest, prior, area>> /\ had = {k \in Kinds : prior[k] # None}
        /\ backup' = Tidied(backup, NoFiles)
        BY <1>14 DEF RollbackFails, End, PriorInv, Moving
  <2>2. backup'["kept"] = backup["kept"]
        BY <1>0, <2>1 DEF Tidied, Files, Areas
  <2>3. area = "kept" =>
            \A k \in Kinds : prior[k] # None => prior[k] \in {dest[k], backup["kept"][k]}
        BY <1>0, <2>1 DEF PriorInv, BackedUp
  <2> QED BY <2>1, <2>2, <2>3 DEF PriorInv, Moving, FailureKeepsPrior, Paired, OneGeneration
<1> QED BY <1>1, <1>2, <1>3, <1>4, <1>5, <1>6, <1>7, <1>8, <1>9, <1>10, <1>11, <1>12, <1>13,
        <1>14 DEF Next

LEMMA PriorInvariant ==
    ASSUME "aside" \notin Faults
    PROVE  Spec => [](BundleInv /\ PriorInv)
<1>1. BundleInv /\ PriorInv /\ [Next]_vars => (BundleInv /\ PriorInv)'
      BY StepBundle, StepPrior DEF BundleInv
<1> QED BY <1>1, InitBundle, InitPrior, PTL DEF Spec

\* As long as a former file can be moved aside, an attempt that fails leaves the
\* bundle that was there, or, when its rollback fails too, has what is missing of
\* it in the kept staging directory (recovery/acquirer.py:476-510, and
\* test_recovery_bundle_failure_preserves_prior_pair).
THEOREM FailuresKeepPrior ==
    ASSUME "aside" \notin Faults
    PROVE  Spec => []FailureKeepsPrior
<1>1. PriorInv => FailureKeepsPrior
      BY DEF PriorInv
<1> QED BY <1>1, PriorInvariant, PTL

\* Then the image and the chunklist of the destination are of one generation,
\* wherever attempts crashed.
THEOREM PairsStay ==
    ASSUME "aside" \notin Faults
    PROVE  Spec => []OneGeneration
<1>1. PriorInv => OneGeneration
      BY DEF PriorInv
<1> QED BY <1>1, PriorInvariant, PTL
=============================================================================
