-------------------------- MODULE MCOpticalReceiver --------------------------
(***************************************************************************)
(* The page of the optical receiver, and beside it what it takes a stream  *)
(* apart with: every small tree goes from the sender's disk through the    *)
(* virtual stream and the frames of a pass to the receiver's tree.         *)
(***************************************************************************)
EXTENDS OpticalReceiver

\* Six paths in the order of comparePaths: A, A/x, a, a/x, b and b/con; the first
\* four differ in case only, and no destination has to take the last.
TreeParents == << 0, 1, 0, 3, 0, 5 >>
TreeAliases == << 3, 4, 3, 4, 5, 6 >>

Tree == INSTANCE LargeTree WITH
  Parent <- TreeParents, Alias <- TreeAliases, Portable <- 1 .. 5,
  MaxEntries <- 3, MaxMetadata <- 4, ReadBytes <- 3
ASSUME TreeConstants == Tree!LargeTreeAssumption

\* The biggest stream below has fourteen bytes.
Qrf3 == INSTANCE Qrf3Stream WITH MaxBlocks <- 14, MaxBlockSize <- 4
ASSUME FrameConstants == Qrf3!Qrf3StreamAssumption

\* The n bytes of a path's file differ from all others.
Bytes(path, n) == [ i \in 1 .. n |-> Tree!FileByte(<< path, i >>) ]
Folder(path) == [ path |-> path, kind |-> "directory", content |-> << >>, stamp |-> 0 ]
File(path, n, stamp) ==
  [ path |-> path, kind |-> "file", content |-> Bytes(path, n), stamp |-> stamp ]

\* Whatever is on the disk of the sender: any number of picked files, also of the
\* same name, or a folder, in which every entry's parent is a directory.
EntriesAt(path) == { Folder(path) } \cup { File(path, n, 1) : n \in 0 .. 2 }
Picked ==
  UNION { UNION { [ 1 .. n -> UNION { EntriesAt(p) : p \in places } ]
                    : places \in { { 1, 3, 5 }, { 1, 2, 4 }, { 3, 4, 5 }, { 5, 6 } } } : n \in 0 .. 3 }
Walks == { entries \in Picked : \A i \in DOMAIN entries :
             TreeParents[entries[i].path] # 0 =>
               \E j \in DOMAIN entries :
                 entries[j] = Folder(TreeParents[entries[i].path]) }

Collected == { entries \in Walks : Tree!CollectLargeDirectory(entries).ok }
SelectionOf(entries) == Tree!CollectLargeDirectory(entries).value

\* The disk's files in the order of the selection.
SnapshotsOf(entries) ==
  LET files == SelectionOf(entries).files IN
  [ i \in DOMAIN files |-> CHOOSE e \in { entries[j] : j \in DOMAIN entries } :
                             e.kind = "file" /\ e.path = files[i].path ]
SourceOf(entries) == Tree!PrepareLargeSource(SelectionOf(entries), SnapshotsOf(entries))

Prepared == { entries \in Collected : SourceOf(entries).ok }

\* The bytes that the stream of a source stands for.
StreamOf(source) ==
  Tree!FoldLeft(LAMBDA bytes, file : bytes \o file.snapshot, << >>, source.files) \o source.trailer

\* A selection is refused exactly if it has too many entries, a name that not
\* every destination takes, or two entries that a destination could not keep
\* apart, wherever in the tree and in whatever order they are found
\* (large-transfer.ts:615).
ASSUME SelectionsAreKeptApart ==
  \A entries \in Walks :
    entries \in Collected <=>
      /\ Len(entries) <= 3 /\ \A i \in DOMAIN entries : entries[i].path # 6
      /\ \A i, j \in DOMAIN entries : i # j =>
           TreeAliases[entries[i].path] # TreeAliases[entries[j].path]

\* Every range that a page reads is the range of the stream, across empty files
\* and over the boundaries of files and trailer, and the stream's hash, which
\* shares its hasher with the first files, is of exactly these bytes
\* (large-transfer.ts:211, 278, 574).
ASSUME RangesAreOfTheStream ==
  \A entries \in Prepared :
    LET source == SourceOf(entries).value
        stream == StreamOf(source)
    IN
    /\ source.totalStreamBytes = Len(stream) /\ source.streamSha256 = Tree!Digest(stream)
    /\ \A i \in DOMAIN source.files : source.files[i].sha256 = Tree!Digest(source.files[i].snapshot)
    /\ \A offset \in 0 .. Len(stream), length \in 0 .. 3 :
         LET range == Tree!ReadPreparedLargeRange(source, offset, length) IN
         range = IF offset + length > Len(stream) THEN Tree!Refuse
                 ELSE Tree!Accept(Tree!SubSeq(stream, offset + 1, offset + length))

\* The receiver finds every file again, with its bytes, and takes no stream that
\* lost a byte anywhere (large-transfer.ts:346).
ASSUME TreesComeBack ==
  \A entries \in Prepared :
    LET source == SourceOf(entries).value
        stream == StreamOf(source)
        tree == Tree!ReadLargeTreeManifest(stream)
    IN
    /\ tree.ok /\ tree.value.directories = source.directories
    /\ tree.value.files = [ i \in DOMAIN source.files |->
         [ path |-> source.files[i].path, offset |-> source.files[i].offset,
           size |-> source.files[i].size, stamp |-> source.files[i].stamp,
           sha256 |-> source.files[i].sha256 ] ]
    /\ \A i \in DOMAIN source.files : LET file == tree.value.files[i] IN
         Tree!SubSeq(stream, file.offset + 1, file.offset + file.size) = source.files[i].snapshot
    /\ \A lost \in 1 .. Len(stream) :
         ~Tree!ReadLargeTreeManifest(Tree!RemoveAt(stream, lost)).ok

\* A source that changed since it was saved is not resumed, and one that did not
\* is, in whatever order the folder is walked (large-sender-resume.ts:171).
ASSUME OnlyTheSameSourceResumes ==
  \A saved, entries \in { e \in Collected : \A i \in DOMAIN e : e[i].path \in { 1, 2, 5 } } :
    Tree!RestoreSource(SourceOf(saved).value, entries, SnapshotsOf(entries)).ok
      <=> { saved[i] : i \in DOMAIN saved } = { entries[i] : i \in DOMAIN entries }

\* A file that changed between the walk and its turn, in length or in time, costs
\* the preparation (large-transfer.ts:209).
ASSUME EditsAreNoticed ==
  \A entries \in Prepared : \A i \in DOMAIN SelectionOf(entries).files :
    \A n \in 0 .. 3, stamp \in 1 .. 2 :
      LET was == SnapshotsOf(entries)[i]
          edited == [ SnapshotsOf(entries) EXCEPT ![i] = File(was.path, n, stamp) ]
      IN Tree!PrepareLargeSource(SelectionOf(entries), edited).ok
           <=> Len(was.content) = n /\ was.stamp = stamp

(***************************************************************************)
(* Frames                                                                  *)
(***************************************************************************)
PlanOf(source, transfer, size) ==
  Qrf3!CreateQrf3Transfer(
    Qrf3!ManifestOf(transfer, source.totalStreamBytes, source.streamSha256, size, "files", "c"))
DataFrames(source, plan) ==
  LET read == [ offset \in 0 .. source.totalStreamBytes, length \in 0 .. plan.manifest.blockSize |->
                  Tree!ReadPreparedLargeRange(source, offset, length) ] IN
  [ k \in 1 .. plan.blockCount |-> Qrf3!DataFrame(plan, read, k - 1).value ]

\* What a camera may make of a frame: fields of another one in it.
Misread(frame, other) ==
  SelectSeq(<< [ frame EXCEPT !.payload = other.payload ], [ frame EXCEPT !.offset = other.offset ],
               [ frame EXCEPT !.transferLength = @ + 1 ],
               [ frame EXCEPT !.manifestId = other.manifestId ] >>, LAMBDA f : f # frame)

\* Whatever a receiver scans in whatever order, frames of another plan and misread
\* ones among them, once it has all blocks they are the stream of its manifest,
\* and nothing else was written (stream-protocol.ts:552).
ASSUME FramesMakeTheStream ==
  \A entries \in { e \in Prepared : Len(e) = 2 }, size \in 1 .. 3 :
    LET source == SourceOf(entries).value
        plan == PlanOf(source, "t", size).value
        other == PlanOf(source, "t", (size % 3) + 1).value
        frames == DataFrames(source, plan)
        foreign == DataFrames(source, other)
        noise == foreign \o << Qrf3!ManifestFrame(plan) >>
                 \o Tree!FlattenSeq([ i \in DOMAIN frames |-> Misread(frames[i], foreign[1]) ])
        write(stored, frame) == Qrf3!WriteDataFrame(stored, frame, plan.manifest, plan.manifestId)
        scan(shown) == Tree!FoldLeft(write, [ k \in {} |-> << >> ], shown)
        whole == scan(noise \o frames \o noise \o Tree!Reverse(frames))
    IN
    /\ DOMAIN scan(noise) = {}
    /\ DOMAIN whole = 0 .. plan.blockCount - 1
    /\ Qrf3!Assembled(whole, plan.blockCount) = StreamOf(source)
    /\ Qrf3!ParseFrame(Qrf3!ManifestFrame(plan)).ok
=============================================================================
