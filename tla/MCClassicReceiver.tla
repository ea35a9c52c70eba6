-------------------------- MODULE MCClassicReceiver --------------------------
(***************************************************************************)
(* The page of the classic receiver, and beside it what a classic transfer *)
(* is made of: the archive, its frames, and the connection test that binds *)
(* them, each checked over every small input.                              *)
(***************************************************************************)
EXTENDS ClassicReceiver

\* Bound: a bad frame counts as an act; no fair action needs either.
Spent == (MaxActs - budget.acts) + (MaxBad - budget.bad)
MCNext == ReceiverNext /\ Spent' <= MaxActs
MCSpec == ReceiverInit /\ [][MCNext]_receiverVars /\ ReceiverFairness

(***************************************************************************)
(* Archives                                                                *)
(***************************************************************************)
\* a and A are the same name on some destinations, con is none on others.
Zip == INSTANCE ZipArchive WITH
  Fold <- [ a |-> "a", A |-> "a", b |-> "b", con |-> "con" ],
  PortableNames <- { "a", "A", "b" }, Compressed <- { "b" },
  MaxDepth <- 2, MaxEntries <- 3, MaxExtracted <- 3
ASSUME ZipConstants == Zip!ZipArchiveAssumption

Bytes(n) == [ i \in 1 .. n |-> << "byte", i >> ]
Entry(path, directory, n) == [ path |-> path, directory |-> directory, bytes |-> Bytes(n) ]

Places == { << "a" >>, << "A" >>, << "b" >>, << "a", "b" >>, << "A", "a" >>, << "b", "con" >>,
            << "a", "b", "b" >> }
EntriesOf(places) ==
  { Entry(p, TRUE, 0) : p \in places } \cup { Entry(p, FALSE, n) : p \in places, n \in 0 .. 2 }
Given == UNION { [ 1 .. n -> EntriesOf(Places) ] : n \in 0 .. 2 }
         \cup [ 1 .. 3 -> EntriesOf({ << "a" >>, << "b" >>, << "a", "b" >>, << "b", "a" >> }) ]
Archived == { entries \in Given : Zip!CreateArchive(entries).ok }

Refused == { Zip!Refuse }
AsSet(result) == IF result.ok THEN Zip!ToSet(result.value) ELSE Refused
PathsIn(entries) == { entries[i].path : i \in DOMAIN entries }
Closure(entries) == UNION { Zip!Above(p) \cup { p } : p \in PathsIn(entries) }
SizeOf(entries) == Zip!Total(entries, LAMBDA e : Len(e.bytes))

\* An archive is made exactly of entries whose tree every destination can hold:
\* few and shallow enough, and no two things in it with one name to any of them
\* (archive.ts:1019).
ASSUME OnlyTreesAreArchived ==
  \A entries \in Given :
    entries \in Archived <=>
      /\ Cardinality(Closure(entries)) <= 3
      /\ \A p \in Closure(entries) : Len(p) <= 2 /\ "con" \notin Zip!ToSet(p)
      /\ Cardinality({ Zip!AliasOf(p) : p \in Closure(entries) }) = Cardinality(Closure(entries))
      /\ Cardinality(PathsIn(entries)) = Len(entries)
      /\ \A e \in Zip!ToSet(entries) : ~e.directory => \A p \in PathsIn(entries) : e.path \notin Zip!Above(p)

\* What was archived is extracted, with every directory above it, also the empty
\* ones, unless it is bigger than a receiver unpacks (archive.ts:460).
ASSUME EntriesComeBack ==
  \A entries \in Archived :
    LET directories == Closure(entries) \ { e.path : e \in { f \in Zip!ToSet(entries) : ~f.directory } } IN
    AsSet(Zip!ExtractArchive(Zip!CreateArchive(entries).value)) =
      IF SizeOf(entries) > 3 THEN Refused
      ELSE { e \in Zip!ToSet(entries) : ~e.directory } \cup { Zip!Directory(p) : p \in directories }

\* One thing that happened to a ZIP.
HeaderEdits(h) ==
  { [ h EXCEPT !.path = p ] : p \in { << "b" >>, << "b", "b" >> } }
  \cup { [ h EXCEPT !.slash = ~@ ], [ h EXCEPT !.compressed = @ + 1 ],
         [ h EXCEPT !.uncompressed = @ + 1 ], [ h EXCEPT !.uncompressed = 0 ],
         [ h EXCEPT !.crc32 = Zip!Checksum(Bytes(3)) ],
         [ h EXCEPT !.compression = IF @ = "stored" THEN "deflated" ELSE "stored" ] }
DataEdits(data) ==
  { Bytes(n) : n \in 0 .. 3 } \cup { << << "deflated", Bytes(n) >> >> : n \in 0 .. 3 }
Damaged(zip) ==
  { [ zip EXCEPT !.local[i].header = h ] : i \in DOMAIN zip.local,
      h \in UNION { HeaderEdits(zip.local[j].header) : j \in DOMAIN zip.local } }
  \cup { [ zip EXCEPT !.central[i].header = h ] : i \in DOMAIN zip.central,
      h \in UNION { HeaderEdits(zip.central[j].header) : j \in DOMAIN zip.central } }
  \cup { [ zip EXCEPT !.central[i].at = n ] : i \in DOMAIN zip.central, n \in 0 .. 3 }
  \cup { [ zip EXCEPT !.local[i].data = d ] : i \in DOMAIN zip.local,
      d \in UNION { DataEdits(zip.local[j].data) : j \in DOMAIN zip.local } }
  \cup { [ zip EXCEPT !.local = Zip!RemoveAt(@, i) ] : i \in DOMAIN zip.local }
  \cup { [ zip EXCEPT !.local = Append(@, @[i]) ] : i \in DOMAIN zip.local }
  \cup { [ zip EXCEPT !.central = Zip!RemoveAt(@, i) ] : i \in DOMAIN zip.central }
  \cup { [ zip EXCEPT !.central = Append(@, @[i]) ] : i \in DOMAIN zip.central }
  \cup { [ zip EXCEPT !.central = Zip!Reverse(@) ] }

\* Whatever single thing happens to a ZIP, the receiver extracts the same tree or
\* refuses it (archive.ts:1437).
ASSUME DamageIsNoticed ==
  \A entries \in { e \in Archived : Len(e) <= 2 /\ SizeOf(e) <= 3 } :
    LET zip == Zip!CreateArchive(entries).value IN
    \A damaged \in Damaged(zip) :
      AsSet(Zip!ExtractArchive(damaged)) \in { AsSet(Zip!ExtractArchive(zip)), Refused }

\* Two collections are reported equal exactly if they make the same tree
\* (archive.ts:599).
ASSUME ReportsAreExact ==
  \A one, other \in { e \in Archived : Len(e) <= 2 /\ SizeOf(e) <= 3 } :
    Zip!SameCollections(one, other)
      <=> AsSet(Zip!ExtractArchive(Zip!CreateArchive(one).value))
            = AsSet(Zip!ExtractArchive(Zip!CreateArchive(other).value))

\* A folder as the two pickers give it: every directory and file in it, or its
\* files with the folder's own name in front.
Walks == { entries \in Given :
             /\ Closure(entries) = PathsIn(entries) /\ Cardinality(PathsIn(entries)) = Len(entries)
             /\ \A e \in Zip!ToSet(entries) :
                  ~e.directory => \A p \in PathsIn(entries) : e.path \notin Zip!Above(p) }
FromHandle(entries, limit) ==
  Zip!CollectDirectoryHandle(
    [ i \in DOMAIN entries |->
        [ path |-> entries[i].path, directory |-> entries[i].directory,
          bytes |-> entries[i].bytes, size |-> Len(entries[i].bytes) ] ], limit, 3)
FromInput(entries, limit) ==
  LET files == SelectSeq(entries, LAMBDA e : ~e.directory) IN
  Zip!CollectInputFiles(
    [ i \in DOMAIN files |->
        [ relative |-> << "A" >> \o files[i].path, name |-> files[i].path[Len(files[i].path)],
          bytes |-> files[i].bytes, size |-> Len(files[i].bytes) ] ], limit)

\* Both pickers collect the same files, none beyond the limit, and the handle's
\* tree is the folder with its empty directories, which the input leaves out
\* (archive.ts:344). A folder that only the input takes has a directory without
\* files in it, and this is what the handle refuses or too many entries.
ASSUME PickersAgree ==
  \A entries \in Walks, limit \in { 2, 6 } :
    LET handle == FromHandle(entries, limit)
        input == FromInput(entries, limit)
        files == { e \in Zip!ToSet(entries) : ~e.directory }
        fits == SizeOf(entries) <= limit
    IN
    /\ handle.ok <=> entries \in Archived /\ fits /\ Len(entries) <= 3
    /\ handle.ok => AsSet(handle) = Zip!ToSet(entries)
    /\ handle.ok => input.ok /\ AsSet(input) = files
    /\ input.ok => fits /\ AsSet(input) = files /\ Zip!CreateArchive(input.value).ok

(***************************************************************************)
(* Frames                                                                  *)
(***************************************************************************)
Qrf2 == INSTANCE Qrf2Stream WITH MaxTotalChunks <- 4, MaxPayload <- 3, MaxArchiveBytes <- 4
Order == INSTANCE OpticalSchedule WITH MaxSafe <- 100
ASSUME FrameConstants == Qrf2!Qrf2StreamAssumption /\ Order!OpticalScheduleAssumption

Sent(n, size, transfer) ==
  Qrf2!PrepareTransfer(Bytes(n), size, "files", "c", transfer, "now")

\* What a pass shows, whatever its permutation.
Shows(plan, pass) ==
  LET numbers == Order!PassFrames(plan.totalChunks, pass, [ stride |-> 2, base |-> 1, phase |-> 3 ], 2) IN
  [ i \in DOMAIN numbers |->
      IF numbers[i] = Order!Manifest THEN plan.manifestFrame ELSE plan.dataFrames[numbers[i] + 1] ]

ReadAll(begun, frames, expected) ==
  Zip!FoldLeft(LAMBDA was, f : Qrf2!Ingest(was.acc, f, expected),
               Qrf2!Outcome(begun, "receiving"), frames)

\* Frames of other transfers, misread ones, and ones with a right checksum that the
\* sender never showed: of another archive under its number, behind the last chunk,
\* of another number of chunks.
Foreign(plan) ==
  LET other == Sent(3, 2, "u").value
      longer == Sent(plan.manifest.archiveLength + 1, plan.manifest.chunkSize, plan.transferId)
  IN other.dataFrames \o << other.manifestFrame >>
     \o (IF longer.ok THEN longer.value.dataFrames \o << longer.value.manifestFrame >> ELSE << >>)
Misread(plan) ==
  [ i \in DOMAIN plan.dataFrames |-> [ plan.dataFrames[i] EXCEPT !.payload = Bytes(Len(@) + 1) ] ]
Misfit(plan) ==
  [ n \in 0 .. 1 |-> Qrf2!EncodeFrame("data", plan.transferId, plan.totalChunks,
                                      plan.totalChunks + n, Bytes(plan.manifest.chunkSize)) ]
Forged(plan) ==
  { Qrf2!EncodeFrame("data", plan.transferId, i, plan.totalChunks, [ b \in 1 .. n |-> << "byte", 9 >> ])
      : i \in 0 .. plan.totalChunks - 1, n \in 1 .. 3 }

\* A transfer is prepared exactly if its chunks are few enough, and its frames hold
\* the archive once, at most chunkSize bytes in each.
ASSUME ChunksAreTheArchive ==
  \A n \in 0 .. 5, size \in 0 .. 4 :
    LET plan == Sent(n, size, "t") IN
    /\ plan.ok <=> size \in 1 .. 3 /\ n <= 4 * size
    /\ plan.ok =>
         /\ Zip!FlattenSeq([ i \in DOMAIN plan.value.dataFrames |-> plan.value.dataFrames[i].payload ]) = Bytes(n)
         /\ \A f \in Zip!ToSet(plan.value.dataFrames) :
              Len(f.payload) \in 1 .. size /\ Qrf2!ParseEncodedFrame(f).ok

\* A receiver that knows its transfer reads nothing else, and after any noise and
\* one forged chunk three passes are enough for the archive, however they are
\* ordered: a conflict is read again, a full set that is not the archive is given
\* up (protocol.ts:633, 683). An archive beyond its limit is never begun.
ASSUME ScansEndWithTheArchive ==
  \A n \in 0 .. 5, size \in 1 .. 3 : Sent(n, size, "t").ok =>
    LET plan == Sent(n, size, "t").value
        expected == { plan.manifestFrame }
        noise == Misread(plan) \o << Misfit(plan)[0], Misfit(plan)[1] >>
        noisy == ReadAll(Qrf2!Fresh, Foreign(plan) \o noise, expected)
        clean == ReadAll(noisy.acc, Shows(plan, 0), expected)
    IN
    /\ noisy.acc = Qrf2!Fresh
    /\ n > 4 => clean.acc = Qrf2!Fresh
    /\ n <= 4 =>
         /\ clean.acc.completed /\ Qrf2!VerifyCompleteArchive(clean.acc).value = Bytes(n)
         /\ \A forged \in Forged(plan), at \in 1 .. Len(Shows(plan, 0)) :
              LET shown == << plan.manifestFrame >> \o Foreign(plan) \o noise
                           \o Zip!InsertAt(Shows(plan, 0), at, forged) \o noise
                           \o Shows(plan, 1) \o noise \o Shows(plan, 2)
                  last == ReadAll(Qrf2!Fresh, shown, expected)
              IN last.acc.completed /\ Qrf2!VerifyCompleteArchive(last.acc).value = Bytes(n)

\* A receiver of a connection test takes the first transfer it can, and no frame of
\* another one, nor another manifest with its number, changes that.
ASSUME FirstManifestPins ==
  \A n \in 1 .. 4, size \in 1 .. 3 : Sent(n, size, "t").ok =>
    LET plan == Sent(n, size, "t").value
        others == SelectSeq(Foreign(plan), LAMBDA f : f.transferId = "u" \/ f.type = "manifest")
        any == Zip!ToSet(others) \cup { plan.manifestFrame }
        pinned == ReadAll(Qrf2!Fresh, << plan.manifestFrame >>, any).acc
    IN ReadAll(pinned, others \o Misread(plan), any).acc = pinned

(***************************************************************************)
(* Connection tests                                                        *)
(***************************************************************************)
Test == INSTANCE ConnectionTest WITH CodeLength <- 2
ASSUME TestConstants == Test!ConnectionTestAssumption

Transfers == [ transferId : 1 .. 2, archiveSha256 : { "x", "y" }, manifestFrame : { "m", "n" },
               connectionId : { "c", "d" }, purpose : { "files", "test" } ]
Bound == { t \in Transfers : t.purpose = "files" }
ProbesOf(t) == { p \in { Test!PrepareConnectionTest(Test!FilesBinding(t).value, id, noise)
                           : id \in 1 .. 3, noise \in { "r", "s" } } : p.ok }
Probes == UNION { { p.value : p \in ProbesOf(t) } : t \in Bound }

\* What a user types instead of a code: it in lower case or with blanks, with a
\* letter or a mark too much, or only a part of it.
Extra(kind) == [ kind |-> kind, of |-> kind, lower |-> FALSE ]
Typed(code) ==
  LET plain(lower) == [ i \in DOMAIN code |-> [ kind |-> code[i].kind, of |-> code[i].of, lower |-> lower ] ] IN
  [ same |-> { plain(TRUE), plain(FALSE), << Extra("space") >> \o plain(TRUE) \o << Extra("space") >> },
    marked |-> { << Extra("mark") >> \o plain(FALSE) },
    longer |-> { plain(FALSE) \o << Extra("letter") >>, plain(FALSE) \o plain(FALSE) },
    wrong |-> { SubSeq(plain(FALSE), 1, 1), << Extra("letter") >> \o plain(FALSE), << >>,
                << plain(FALSE)[2], plain(FALSE)[1] >> } ]

\* The receiver learns from a probe exactly what the sender bound, and shows the
\* code the sender expects; a probe read as another connection's or another
\* transfer's is refused, and so is one with a field changed (connection.ts:155).
ASSUME ProbesBindTheirFiles ==
  /\ \A t \in Transfers : Test!FilesBinding(t).ok <=> t \in Bound
  /\ \A p \in Probes, connection \in { "c", "d" }, id \in 1 .. 3 :
       LET verified == Test!VerifyConnectionTest(p.archive, connection, id) IN
       /\ verified.ok <=> connection = p.connectionId /\ id = p.transferId
       /\ verified.ok => verified.value = [ filesBinding |-> p.filesBinding, receiptCode |-> p.receiptCode ]
  /\ \A p \in Probes, q \in Probes :
       p # q => ~Test!VerifyConnectionTest(
                   << [ p.archive[1] EXCEPT !.bytes.content = q.archive[1].bytes.content ] >>,
                   q.connectionId, q.transferId).ok

\* A sender takes a code exactly if it is its own probe's, however it is typed, and
\* never another one's (connection.ts:229).
ASSUME ReceiptsAreOfOneProbe ==
  \A p, q \in Probes :
    LET takes(typed) == Test!ValidateReceipt(typed, p.connectionId, p.archive) IN
    /\ \A typed \in Typed(q.receiptCode).same : takes(typed) <=> p = q
    /\ \A typed \in Typed(q.receiptCode).marked \cup Typed(q.receiptCode).longer
                    \cup Typed(q.receiptCode).wrong : ~takes(typed)

Plans ==
  { [ manifestId |-> << "id", m >>, manifest |-> m ] :
      m \in [ purpose : { "files", "test" }, transferId : 1 .. 2,
              archiveSha256 : { Test!Digest([ tree |-> n ]) : n \in 1 .. 2 },
              connectionId : { "c", "d" }, transferLength : { 4, 5 }, blockSize : 1 .. 2,
              rootName : { "photos", "QRF3 Connection Test" } ] }
LargeProbes ==
  { Test!PrepareQrf3ConnectionTest(plan, 7, "r").value :
      plan \in { q \in Plans : q.manifest.purpose = "files" } }

\* The large test: a probe is accepted with its own manifest only, and the binding
\* in it matches the one plan that was bound (large-connection.ts:81, 119).
ASSUME LargeProbesBindTheirPlan ==
  /\ \A plan \in Plans :
       /\ Test!PrepareQrf3ConnectionTest(plan, 7, "r").ok <=> plan.manifest.purpose = "files"
       /\ ~Test!VerifyQrf3ConnectionTest(Test!EncodeProbe(plan.manifest, "r"), plan.manifest).ok
  /\ \A p, q \in LargeProbes :
       LET verified == Test!VerifyQrf3ConnectionTest(p.probe, q.manifest) IN
       /\ verified.ok <=> p = q
       /\ p = q => verified.value = [ filesBinding |-> p.filesBinding, receiptCode |-> p.receiptCode ]
  /\ \A p \in LargeProbes :
       Cardinality({ plan \in Plans :
         Test!MatchesQrf3FilesBinding(p.filesBinding, plan.manifest, plan.manifestId) }) = 1

\* The large sender takes its probe's code, and takes it also with other marks in
\* it and with anything typed behind it (large-connection.ts:146).
ASSUME LargeReceiptsArePrefixes ==
  \A p, q \in { r \in LargeProbes : r.manifest.connectionId = "c" } :
    LET takes(typed) == Test!ValidateQrf3Receipt(typed, p.receiptCode)
        typed == Typed(q.receiptCode)
    IN
    /\ \A t \in typed.same \cup typed.marked \cup typed.longer : takes(t) <=> p = q
    /\ \A t \in typed.wrong : ~takes(t)
=============================================================================
