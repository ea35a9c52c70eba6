------------------------------ MODULE LargeTree ------------------------------
(***************************************************************************)
(* A tree of files as one virtual stream (lib/large-transfer.ts): the bytes *)
(* of the files in canonical order, then the tree's metadata and a footer. *)
(* The sender reads ranges of it out of the files' snapshots, and the      *)
(* receiver finds the tree again from the stream's end.                    *)
(*                                                                         *)
(* A path is its place in the order of comparePaths, 0 is the root. A byte *)
(* of a file, of the metadata or of the footer is a tuple that says which  *)
(* of them it is; SHA-256 keeps different bytes apart.                     *)
(***************************************************************************)
EXTENDS Integers, Sequences, FiniteSets, SequencesExt

CONSTANTS
  Parent,        \* the directory a path is in
  Alias,         \* a path in NFC and lower case, as one of the paths that have it
  Portable,      \* paths whose names every destination takes
  MaxEntries,    \* MAX_LARGE_TREE_ENTRIES
  MaxMetadata,   \* MAX_LARGE_TREE_METADATA_BYTES
  ReadBytes      \* LARGE_TREE_READ_BYTES

\* Asserted where the module is instantiated.
LargeTreeAssumption ==
  /\ DOMAIN Alias = DOMAIN Parent /\ Portable \subseteq DOMAIN Parent
  /\ \A p \in DOMAIN Parent :
       p \in Nat \ { 0 } /\ Alias[p] \in DOMAIN Parent
       /\ Parent[p] \in { 0 } \cup { q \in DOMAIN Parent : q < p }
  /\ { MaxEntries, MaxMetadata } \subseteq Nat /\ ReadBytes \in Nat \ { 0 }

\* Every operation either returns a value or throws.
Accept(value) == [ ok |-> TRUE, value |-> value ]
Refuse == [ ok |-> FALSE ]

FileByte(b) == << "file", b >>
MetadataByte(i, tree) == << "tree", i, tree >>
Footer(length) == << << "length", length >>, << "magic", "QRF3END1" >> >>
FooterBytes == 2

Digest(bytes) == [ sha256 |-> bytes ]

Least(a, b) == IF a < b THEN a ELSE b

(***************************************************************************)
(* Paths                                                                   *)
(***************************************************************************)
\* The directories above a path.
Above[p \in DOMAIN Parent] ==
  IF Parent[p] = 0 THEN {} ELSE { Parent[p] } \cup Above[Parent[p]]

PathsOf(files) == [ i \in DOMAIN files |-> files[i].path ]

\* validatePortablePath: names that every destination takes, and no other path
\* that a destination may take for this one.
AllPortable(paths) == ToSet(paths) \subseteq Portable

MayCollide(paths) ==
  \E i, j \in DOMAIN paths : paths[i] # paths[j] /\ Alias[paths[i]] = Alias[paths[j]]

\* assertTreeConflicts
Conflict(files, directories) ==
  \/ Cardinality(ToSet(files)) # Len(files)
  \/ Cardinality(ToSet(directories)) # Len(directories)
  \/ ToSet(files) \cap ToSet(directories) # {}
  \/ \E p \in ToSet(files) : Above[p] \cap ToSet(files) # {}

SortedUnique(paths) == \A i \in 2 .. Len(paths) : paths[i - 1] < paths[i]

\* validateTreePaths
ValidTreePaths(files, directories) ==
  /\ AllPortable(files \o directories)
  /\ ~MayCollide(directories \o files)
  /\ ~Conflict(files, directories)
  /\ SortedUnique(files) /\ SortedUnique(directories)

(***************************************************************************)
(* The sender                                                              *)
(***************************************************************************)
\* The walk over the picked folder, or over picked files and folders, which may
\* have the same name: a file's entry is what getFile returned at that moment.
CollectLargeDirectory(entries) ==
  LET isFile(e) == e.kind = "file"
      before(e, f) == e.path < f.path
      files == SortSeq(SelectSeq(entries, isFile), before)
      directories == SortSeq(PathsOf(SelectSeq(entries, LAMBDA e : ~isFile(e))), <)
  IN
  IF \/ Len(entries) > MaxEntries
     \/ ~AllPortable(PathsOf(entries))
     \/ MayCollide(PathsOf(entries))
     \/ Conflict(PathsOf(files), directories)
  THEN Refuse
  ELSE Accept([ directories |-> directories,
                files |-> [ i \in DOMAIN files |->
                              [ path |-> files[i].path, size |-> Len(files[i].content),
                                stamp |-> files[i].stamp ] ],
                total |-> FoldLeft(LAMBDA sum, f : sum + Len(f.content), 0, files) ])

\* One canonical sequence of bytes for one tree.
EncodeMetadata(tree) ==
  [ i \in 1 .. 1 + Len(tree.directories) + Len(tree.files) |-> MetadataByte(i, tree) ]

\* encodeLargeTreeMetadata throws for anything else.
ValidTree(tree) ==
  /\ ValidTreePaths(PathsOf(tree.files), tree.directories)
  /\ Len(tree.files) + Len(tree.directories) <= MaxEntries
  /\ Len(EncodeMetadata(tree)) <= MaxMetadata

\* The hashing of the files one after the other. As long as the stream has no
\* bytes, its hasher also hashes the file, and a clone of it goes on.
Hashed(contents) ==
  LET hash[i \in 0 .. Len(contents)] ==
        IF i = 0 THEN [ stream |-> << >>, files |-> << >>, offsets |-> << >>, offset |-> 0 ]
        ELSE LET was == hash[i - 1]
                 sharesStreamPrefix == was.offset = 0
                 fileHasher == (IF sharesStreamPrefix THEN was.stream ELSE << >>) \o contents[i]
             IN [ stream |-> IF sharesStreamPrefix THEN fileHasher ELSE was.stream \o contents[i],
                  files |-> Append(was.files, Digest(fileHasher)),
                  offsets |-> Append(was.offsets, was.offset),
                  offset |-> was.offset + Len(contents[i]) ]
  IN hash[Len(contents)]

\* snapshots[i] is what getFile returned when the selection's i-th file had its
\* turn, which may be another state of the file than the selection saw.
PrepareLargeSource(selection, snapshots) ==
  LET files == selection.files
      hashed == Hashed([ i \in DOMAIN files |-> snapshots[i].content ])
      prepared == [ i \in DOMAIN files |->
                      [ path |-> files[i].path, size |-> files[i].size, stamp |-> files[i].stamp,
                        sha256 |-> hashed.files[i], offset |-> hashed.offsets[i],
                        snapshot |-> snapshots[i].content ] ]
      tree == [ directories |-> selection.directories,
                files |-> [ i \in DOMAIN files |->
                              [ path |-> files[i].path, size |-> files[i].size,
                                stamp |-> files[i].stamp, sha256 |-> hashed.files[i] ] ] ]
      trailer == EncodeMetadata(tree) \o Footer(Len(EncodeMetadata(tree)))
  IN
  IF \/ \E i \in DOMAIN files : Len(snapshots[i].content) # files[i].size
                                \/ snapshots[i].stamp # files[i].stamp
     \/ hashed.offset # selection.total
     \/ ~ValidTree(tree)
  THEN Refuse
  ELSE Accept([ files |-> prepared, directories |-> selection.directories,
                totalFileBytes |-> selection.total, trailer |-> trailer,
                totalStreamBytes |-> selection.total + Len(trailer),
                streamSha256 |-> Digest(hashed.stream \o trailer) ])

\* findFileAtOffset: the binary search over the files' ranges, empty ones included.
FindFileAtOffset(files, offset) ==
  LET search[low \in 1 .. Len(files) + 1, high \in 0 .. Len(files)] ==
        IF low > high THEN low
        ELSE LET middle == (low + high) \div 2
                 file == files[middle]
             IN IF offset < file.offset THEN search[low, middle - 1]
                ELSE IF offset >= file.offset + file.size THEN search[middle + 1, high]
                ELSE middle
  IN search[1, Len(files)]

\* readPreparedLargeRange: the range from file to file, then out of the trailer.
\* Reading a snapshot may also throw; what a page does then is in the models of
\* the pages.
ReadPreparedLargeRange(source, offset, length) ==
  LET from[done \in 0 .. length] ==
        LET cursor == offset + done IN
        IF done = length THEN << >>
        ELSE IF cursor < source.totalFileBytes
        THEN LET file == source.files[FindFileAtOffset(source.files, cursor)]
                 start == cursor - file.offset
                 take == Least(file.size - start, length - done)
             IN SubSeq(file.snapshot, start + 1, start + take) \o from[done + take]
        ELSE SubSeq(source.trailer, cursor - source.totalFileBytes + 1,
                    cursor - source.totalFileBytes + length - done)
  IN
  IF length > ReadBytes \/ offset + length > source.totalStreamBytes
  THEN Refuse ELSE Accept(from[0])

\* restoreLargeSenderSession: the same folder is walked and hashed again, and
\* must give the stream the record was saved with.
RestoreSource(saved, entries, snapshots) ==
  LET selection == CollectLargeDirectory(entries).value
      source == PrepareLargeSource(selection, snapshots)
  IN
  IF \/ ~CollectLargeDirectory(entries).ok
     \/ Len(selection.files) # Len(saved.files)
     \/ Len(selection.directories) # Len(saved.directories)
     \/ selection.total # saved.totalFileBytes
     \/ ~source.ok
     \/ source.value.totalStreamBytes # saved.totalStreamBytes
     \/ source.value.streamSha256 # saved.streamSha256
  THEN Refuse ELSE source

(***************************************************************************)
(* The receiver                                                            *)
(***************************************************************************)
\* parseLargeTreeMetadata: only the canonical bytes of a valid tree are taken.
ParseLargeTreeMetadata(bytes) ==
  LET tree == bytes[1][3]
      offsetOf[i \in 1 .. Len(tree.files) + 1] ==
        IF i = 1 THEN 0 ELSE offsetOf[i - 1] + tree.files[i - 1].size
  IN
  IF \/ Len(bytes) > MaxMetadata
     \/ bytes = << >> \/ bytes[1][1] # "tree"
     \/ ~ValidTree(tree)
     \/ bytes # EncodeMetadata(tree)
  THEN Refuse
  ELSE Accept([ directories |-> tree.directories,
                files |-> [ i \in DOMAIN tree.files |->
                              [ path |-> tree.files[i].path, offset |-> offsetOf[i],
                                size |-> tree.files[i].size, stamp |-> tree.files[i].stamp,
                                sha256 |-> tree.files[i].sha256 ] ],
                totalFileBytes |-> offsetOf[Len(tree.files) + 1] ])

\* The metadata is read in pieces of at most ReadBytes.
ReadInPieces(stream, offset, length) ==
  LET from[done \in 0 .. length] ==
        IF done = length THEN << >>
        ELSE LET take == Least(ReadBytes, length - done)
             IN SubSeq(stream, offset + done + 1, offset + done + take) \o from[done + take]
  IN from[0]

\* readLargeTreeManifest
ReadLargeTreeManifest(stream) ==
  LET footer == SubSeq(stream, Len(stream) - FooterBytes + 1, Len(stream))
      length == footer[1][2]
      start == Len(stream) - FooterBytes - length
      parsed == ParseLargeTreeMetadata(ReadInPieces(stream, start, length))
  IN
  IF \/ Len(stream) < FooterBytes
     \/ footer # Footer(length)
     \/ length > MaxMetadata \/ start < 0
     \/ ~parsed.ok
     \/ parsed.value.totalFileBytes # start
  THEN Refuse ELSE parsed
=============================================================================
