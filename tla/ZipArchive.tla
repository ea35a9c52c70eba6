------------------------------ MODULE ZipArchive ------------------------------
(***************************************************************************)
(* The archive of a classic transfer (lib/archive.ts): a picked folder or   *)
(* picked files become entries, the entries a ZIP, and the receiver turns   *)
(* the ZIP into entries again, or refuses it.                               *)
(*                                                                         *)
(* A path is the sequence of its names in canonical form. What the code     *)
(* sorts by comparePaths is a set here. CRC-32 and SHA-256 keep different   *)
(* bytes apart; a byte is a tuple that says whose it is, and a deflated     *)
(* member is one opaque byte that only inflating turns into its content.    *)
(***************************************************************************)
EXTENDS Integers, Sequences, FiniteSets, SequencesExt

CONSTANTS
  Fold,            \* a name in NFC and lower case
  PortableNames,   \* names that every destination takes
  Compressed,      \* names with the extension of a compressed format
  MaxDepth,        \* MAX_PATH_DEPTH
  MaxEntries,      \* MAX_ARCHIVE_ENTRIES
  MaxExtracted     \* MAX_EXTRACTED_BYTES

\* Asserted where the module is instantiated.
ZipArchiveAssumption ==
  /\ PortableNames \subseteq DOMAIN Fold /\ Compressed \subseteq DOMAIN Fold
  /\ { MaxDepth, MaxEntries, MaxExtracted } \subseteq Nat

\* Every operation either returns a value or throws.
Accept(value) == [ ok |-> TRUE, value |-> value ]
Refuse == [ ok |-> FALSE ]

Checksum(bytes) == [ crc32 |-> bytes ]
Digest(bytes) == [ sha256 |-> bytes ]
Total(entries, size(_)) == FoldLeft(LAMBDA sum, e : sum + size(e), 0, entries)

(***************************************************************************)
(* Entries                                                                 *)
(***************************************************************************)
Above(path) == { SubSeq(path, 1, n) : n \in 1 .. Len(path) - 1 }
AliasOf(path) == [ i \in DOMAIN path |-> Fold[path[i]] ]

\* validatePortablePathSet
PortablePathSet(paths) ==
  /\ \A p \in paths : Len(p) <= MaxDepth /\ ToSet(p) \subseteq PortableNames
  /\ \A p, q \in paths : AliasOf(p) = AliasOf(q) => p = q

Directory(path) == [ path |-> path, directory |-> TRUE, bytes |-> << >> ]

\* The tree of the given entries with all directories above them.
NormalizeEntries(entries, limit) ==
  LET given == { entries[i].path : i \in DOMAIN entries }
      files == { e \in ToSet(entries) : ~e.directory }
      above == UNION { Above(p) : p \in given }
      directories == above \cup { e.path : e \in ToSet(entries) \ files }
  IN
  IF \/ Len(entries) > limit
     \/ \E e \in ToSet(entries) : e.directory /\ e.bytes # << >>
     \/ Cardinality(given) # Len(entries)
     \/ ~PortablePathSet(given)
     \/ \E f \in files : f.path \in above
     \/ Cardinality(directories) + Cardinality(files) > limit
     \/ ~PortablePathSet(directories \cup given)
  THEN Refuse ELSE Accept([ directories |-> directories, files |-> files ])

\* The entries of a tree, directories first.
Entries(tree) ==
  SetToSeq({ Directory(p) : p \in tree.directories }) \o SetToSeq(tree.files)
Flat(tree) == IF tree.ok THEN Accept(Entries(tree.value)) ELSE Refuse

\* An entry of the picked folder also has the size that getFile returned before
\* its bytes were read.
CollectDirectoryHandle(children, maxTotalBytes, maxEntries) ==
  LET read == [ i \in DOMAIN children |->
                  [ path |-> children[i].path, directory |-> children[i].directory,
                    bytes |-> children[i].bytes ] ]
  IN
  IF \/ Len(children) > maxEntries
     \/ \E e \in ToSet(children) : Len(e.path) > MaxDepth \/ Last(e.path) \notin PortableNames
     \/ \E i \in DOMAIN children :
          Total(SubSeq(read, 1, i - 1), LAMBDA e : Len(e.bytes)) + children[i].size > maxTotalBytes
     \/ Total(read, LAMBDA e : Len(e.bytes)) > maxTotalBytes
  THEN Refuse ELSE Flat(NormalizeEntries(read, maxEntries))

\* Picked files: relative is webkitRelativePath, empty where files and not a folder
\* were picked. The name of the folder that all of them are in is taken off.
CollectInputFiles(picked, maxTotalBytes) ==
  LET hasPickerPaths == \A i \in DOMAIN picked : picked[i].relative # << >>
      commonPickerRoot == \A i \in DOMAIN picked : picked[i].relative[1] = picked[1].relative[1]
      path(file) ==
        IF ~hasPickerPaths THEN << file.name >>
        ELSE IF commonPickerRoot /\ Len(file.relative) > 1 THEN Tail(file.relative)
        ELSE file.relative
  IN
  IF picked = << >> THEN Accept(<< >>)
  ELSE IF \/ Len(picked) > MaxEntries
          \/ Total(picked, LAMBDA f : f.size) > maxTotalBytes
          \/ Total(picked, LAMBDA f : Len(f.bytes)) > maxTotalBytes
  THEN Refuse
  ELSE LET tree == NormalizeEntries(
                     [ i \in DOMAIN picked |->
                         [ path |-> path(picked[i]), directory |-> FALSE, bytes |-> picked[i].bytes ] ],
                     MaxEntries)
       IN IF tree.ok THEN Accept(SetToSeq(tree.value.files)) ELSE Refuse

(***************************************************************************)
(* The ZIP                                                                 *)
(***************************************************************************)
Pack(method, bytes) == IF method = "stored" THEN bytes ELSE << << "deflated", bytes >> >>
Unpack(method, data) ==
  IF method = "stored" THEN Accept(data)
  ELSE IF Len(data) = 1 /\ data[1][1] = "deflated" THEN Accept(data[1][2]) ELSE Refuse

CompressionLevelForPath(path) == IF Last(path) \in Compressed THEN "stored" ELSE "deflated"

\* zipSync: a header and the data of every member, and a directory at the end that
\* repeats each header and says where it is.
ZipSync(members) ==
  LET header(e) ==
        [ path |-> e.path, slash |-> e.directory, compression |-> e.level,
          crc32 |-> Checksum(e.bytes), compressed |-> Len(Pack(e.level, e.bytes)),
          uncompressed |-> Len(e.bytes) ]
  IN [ local |-> [ i \in DOMAIN members |->
                     [ header |-> header(members[i]),
                       data |-> Pack(members[i].level, members[i].bytes) ] ],
       central |-> [ i \in DOMAIN members |-> [ header |-> header(members[i]), at |-> i ] ] ]

CreateArchive(entries) ==
  LET tree == NormalizeEntries(entries, MaxEntries)
      level(e) == IF e.directory THEN "stored" ELSE CompressionLevelForPath(e.path)
      members == Entries(tree.value)
  IN
  IF ~tree.ok THEN Refuse
  ELSE Accept(ZipSync([ i \in DOMAIN members |->
                          [ path |-> members[i].path, directory |-> members[i].directory,
                            bytes |-> members[i].bytes, level |-> level(members[i]) ] ]))

\* The headers of the directory, if each is that of its member and they are a tree.
ReadCentralDirectory(zip) ==
  LET headers == [ i \in DOMAIN zip.central |-> zip.central[i].header ]
      paths == { headers[i].path : i \in DOMAIN headers }
      tree == NormalizeEntries(
                [ i \in DOMAIN headers |->
                    [ path |-> headers[i].path, directory |-> headers[i].slash, bytes |-> << >> ] ],
                MaxEntries)
  IN
  IF \/ Len(headers) > MaxEntries
     \/ Total(headers, LAMBDA h : h.uncompressed) > MaxExtracted
     \/ \E i \in DOMAIN headers :
          \/ zip.central[i].at \notin DOMAIN zip.local
          \/ zip.local[zip.central[i].at].header # headers[i]
     \/ Cardinality(paths) # Len(headers)
     \/ ~tree.ok
  THEN Refuse ELSE Accept(headers)

\* extractArchive: the members in the order they are in the ZIP, whether the
\* directory has them or not.
ExtractArchive(zip) ==
  LET headers == ReadCentralDirectory(zip)
      named(h) == { c \in ToSet(headers.value) : c.path = h.path /\ c.slash = h.slash }
      extract(found, member) ==
        LET h == member.header
            bytes == Unpack(h.compression, member.data)
        IN
        IF \/ ~found.ok
           \/ named(h) = {}
           \/ \E c \in named(h) :
                \/ << c.compression, c.compressed, c.uncompressed >>
                     # << h.compression, h.compressed, h.uncompressed >>
                \/ ~bytes.ok
                \/ Len(bytes.value) # c.uncompressed
                \/ Checksum(bytes.value) # c.crc32
                \/ h.slash /\ bytes.value # << >>
           \/ \E e \in ToSet(found.value) : e.path = h.path /\ e.directory = h.slash
        THEN Refuse
        ELSE Accept(Append(found.value,
                           [ path |-> h.path, directory |-> h.slash, bytes |-> bytes.value ]))
      extracted == FoldLeft(extract, Accept(<< >>), zip.local)
  IN
  IF ~headers.ok \/ ~extracted.ok \/ Len(extracted.value) # Len(headers.value)
  THEN Refuse ELSE Flat(NormalizeEntries(extracted.value, MaxEntries))

(***************************************************************************)
(* Comparison                                                              *)
(***************************************************************************)
\* verifyEntryCollections, of two collections that are trees.
SameCollections(expected, actual) ==
  LET e == NormalizeEntries(expected, MaxEntries).value
      a == NormalizeEntries(actual, MaxEntries).value
      paths(files) == { f.path : f \in files }
  IN
  /\ paths(e.files) = paths(a.files)
  /\ e.directories = a.directories
  /\ \A f \in e.files, g \in a.files : f.path = g.path => Digest(f.bytes) = Digest(g.bytes)
=============================================================================
