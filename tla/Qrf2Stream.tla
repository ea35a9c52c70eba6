------------------------------ MODULE Qrf2Stream ------------------------------
(***************************************************************************)
(* The frames of a classic transfer (lib/protocol.ts): the sender cuts an  *)
(* archive into chunks, and TransferAccumulator puts them together again   *)
(* from whatever the camera reads. What a page does around it while frames *)
(* are read is in ClassicReceiver; here are the lengths, the limits and    *)
(* the order of the checks.                                                *)
(*                                                                         *)
(* Base45 text, headers and manifests are canonical, so frames are records; *)
(* name and time of a manifest are one label. CRC-32 covers header and     *)
(* payload and keeps misread frames apart; a wrong frame may still have the *)
(* right checksum, if a sender made it. SHA-256 keeps archives apart.      *)
(***************************************************************************)
EXTENDS Integers, Sequences, FiniteSets

CONSTANTS
  MaxTotalChunks,    \* MAX_TOTAL_CHUNKS
  MaxPayload,        \* the largest unsigned 16-bit length
  MaxArchiveBytes    \* maxArchiveBytes of the receiver

\* Asserted where the module is instantiated.
Qrf2StreamAssumption ==
  { MaxTotalChunks, MaxPayload, MaxArchiveBytes } \subseteq Nat

Accept(value) == [ ok |-> TRUE, value |-> value ]
Refuse == [ ok |-> FALSE ]

Digest(content) == [ sha256 |-> content ]
CeilDivision(length, size) == (length + size - 1) \div size

\* What encodeManifest writes and parseManifest reads back.
ManifestOf(archive, chunkSize, purpose, connection, label) ==
  [ archiveLength |-> Len(archive), archiveSha256 |-> Digest(archive), chunkSize |-> chunkSize,
    purpose |-> purpose, connectionId |-> connection, label |-> label ]

(***************************************************************************)
(* Frames                                                                  *)
(***************************************************************************)
\* The checksum is taken over the frame with its field empty.
FrameCrc32(frame) == [ crc32 |-> [ frame EXCEPT !.crc32 = 0 ] ]

\* The header rules that sender and receiver share.
ValidHeader(frame) ==
  /\ frame.totalChunks <= MaxTotalChunks
  /\ frame.type = "manifest" => frame.chunkIndex = 0
  /\ frame.type = "data" => frame.chunkIndex < frame.totalChunks

EncodeFrame(type, transferId, chunkIndex, totalChunks, payload) ==
  LET frame == [ type |-> type, transferId |-> transferId, chunkIndex |-> chunkIndex,
                 totalChunks |-> totalChunks, payload |-> payload, crc32 |-> 0 ]
  IN [ frame EXCEPT !.crc32 = FrameCrc32(frame) ]

ParseEncodedFrame(frame) ==
  IF \/ frame.crc32 # FrameCrc32(frame)
     \/ ~ValidHeader(frame)
     \/ frame.type = "manifest" /\ frame.payload[1].chunkSize = 0
  THEN Refuse ELSE Accept(frame)

\* prepareTransfer: the manifest's frame and one frame per chunk.
PrepareTransfer(archive, chunkSize, purpose, connection, transferId, label) ==
  LET totalChunks == CeilDivision(Len(archive), chunkSize)
      manifest == ManifestOf(archive, chunkSize, purpose, connection, label)
      end(index) == IF (index + 1) * chunkSize < Len(archive)
                    THEN (index + 1) * chunkSize ELSE Len(archive)
  IN
  IF chunkSize \notin 1 .. MaxPayload \/ totalChunks > MaxTotalChunks
  THEN Refuse
  ELSE Accept(
    [ transferId |-> transferId, manifest |-> manifest, totalChunks |-> totalChunks,
      manifestFrame |-> EncodeFrame("manifest", transferId, 0, totalChunks, << manifest >>),
      dataFrames |-> [ i \in 1 .. totalChunks |->
                         EncodeFrame("data", transferId, i - 1, totalChunks,
                                     SubSeq(archive, (i - 1) * chunkSize + 1, end(i - 1))) ] ])

(***************************************************************************)
(* TransferAccumulator                                                     *)
(***************************************************************************)
NoManifest == [ archiveLength |-> -1 ]
NoChunks == [ c \in {} |-> << >> ]

Fresh ==
  [ transferId |-> "none", totalChunks |-> 0, manifest |-> NoManifest,
    chunks |-> NoChunks, completed |-> FALSE ]

Received(chunks) ==
  LET upTo[left \in SUBSET DOMAIN chunks] ==
        IF left = {} THEN 0
        ELSE LET c == CHOOSE d \in left : TRUE IN Len(chunks[c]) + upTo[left \ { c }]
  IN upTo[DOMAIN chunks]

\* The manifests that a receiver takes at all; expected are the ones it would take by
\* what it was told, only one of them once a connection test committed to it.
AcceptsManifest(frame, expected) ==
  LET manifest == frame.payload[1] IN
  /\ manifest.archiveLength <= MaxArchiveBytes
  /\ CeilDivision(manifest.archiveLength, manifest.chunkSize) = frame.totalChunks
  /\ frame \in expected

HasExpectedChunkLength(acc, index, length) ==
  length = IF index = acc.totalChunks - 1
           THEN acc.manifest.archiveLength - index * acc.manifest.chunkSize
           ELSE acc.manifest.chunkSize

\* The chunks one behind the other, if they are the archive of the manifest.
VerifyCompleteArchive(acc) ==
  LET upTo[n \in 0 .. acc.totalChunks] ==
        IF n = 0 THEN << >> ELSE upTo[n - 1] \o acc.chunks[n - 1]
      archive == upTo[acc.totalChunks]
  IN
  IF Len(archive) # acc.manifest.archiveLength \/ Digest(archive) # acc.manifest.archiveSha256
  THEN Refuse ELSE Accept(archive)

Outcome(acc, status) == [ acc |-> acc, status |-> status ]
Without(chunks, index) == [ c \in DOMAIN chunks \ { index } |-> chunks[c] ]
With(chunks, index, payload) ==
  [ c \in DOMAIN chunks \cup { index } |-> IF c = index THEN payload ELSE chunks[c] ]

\* What the frame leaves in the accumulator's chunks, once it is of its transfer.
Stored(acc, frame) ==
  LET index == frame.chunkIndex IN
  IF frame.type = "manifest" THEN Accept([ acc EXCEPT !.manifest = frame.payload[1] ])
  ELSE IF ~HasExpectedChunkLength(acc, index, Len(frame.payload)) THEN Refuse
  ELSE IF index \notin DOMAIN acc.chunks
  THEN IF Received(acc.chunks) + Len(frame.payload) > acc.manifest.archiveLength
       THEN Refuse
       ELSE Accept([ acc EXCEPT !.chunks = With(@, index, frame.payload) ])
  ELSE IF acc.chunks[index] = frame.payload THEN Accept(acc)
  ELSE Accept([ acc EXCEPT !.chunks = Without(@, index) ])

\* ingest, of a frame that nothing overtakes. A full set of chunks that is not the
\* archive is given up.
Ingest(acc, frame, expected) ==
  LET first == acc.transferId = "none"
      pinned == IF first
                THEN [ acc EXCEPT !.transferId = frame.transferId, !.totalChunks = frame.totalChunks ]
                ELSE acc
      stored == Stored(pinned, frame)
  IN
  IF \/ ~ParseEncodedFrame(frame).ok
     \/ frame.type = "manifest" /\ ~AcceptsManifest(frame, expected)
     \/ frame.type = "data" /\ first
     \/ frame.transferId # pinned.transferId
     \/ frame.totalChunks # pinned.totalChunks
  THEN Outcome(acc, "ignored")
  ELSE IF acc.completed THEN Outcome(acc, "complete")
  ELSE IF \/ frame.type = "manifest" /\ acc.manifest \notin { NoManifest, frame.payload[1] }
          \/ ~stored.ok
  THEN Outcome(pinned, "ignored")
  ELSE IF Cardinality(DOMAIN stored.value.chunks) # pinned.totalChunks
  THEN Outcome(stored.value, "receiving")
  ELSE IF VerifyCompleteArchive(stored.value).ok
  THEN Outcome([ stored.value EXCEPT !.completed = TRUE ], "complete")
  ELSE Outcome([ stored.value EXCEPT !.chunks = NoChunks ], "verification-failed")
=============================================================================
