------------------------------ MODULE Qrf3Stream ------------------------------
(***************************************************************************)
(* The frames of the large optical stream (lib/stream-protocol.ts): a plan *)
(* cuts a source into blocks, each frame commits to the manifest, to its   *)
(* place and to its bytes, and the receiver takes a block only at the place *)
(* the accepted manifest has for it.                                       *)
(*                                                                         *)
(* A frame and a manifest are records instead of bytes: their encodings    *)
(* are canonical, so that equal bytes are equal records. CRC-32 and the    *)
(* commitments are one digest that keeps different contents apart; what a  *)
(* camera misreads is a frame whose fields no longer agree with it.        *)
(***************************************************************************)
EXTENDS Integers, Sequences

CONSTANTS
  MaxBlocks,       \* MAX_BLOCK_STORE_BLOCKS
  MaxBlockSize     \* QRF3_MAX_BLOCK_SIZE

\* Asserted where the module is instantiated.
Qrf3StreamAssumption == MaxBlocks \in Nat /\ MaxBlockSize \in Nat \ { 0 }

Accept(value) == [ ok |-> TRUE, value |-> value ]
Refuse == [ ok |-> FALSE ]

Digest(content) == [ sha256 |-> content ]

CeilDivision(dividend, divisor) ==
  IF dividend = 0 THEN 0 ELSE (dividend - 1) \div divisor + 1

\* assertBlockSize
BlockSizes == 1 .. MaxBlockSize

(***************************************************************************)
(* The sender                                                              *)
(***************************************************************************)
\* encodeQrf3Manifest, and the identity of what it encodes.
ManifestOf(transfer, length, sha256, blockSize, purpose, connection) ==
  [ transferId |-> transfer, transferLength |-> length, archiveSha256 |-> sha256,
    blockSize |-> blockSize, purpose |-> purpose, connectionId |-> connection ]
ManifestId(manifest) == Digest(manifest)

\* createQrf3Transfer, of a source that was hashed before.
CreateQrf3Transfer(manifest) ==
  IF \/ manifest.blockSize \notin BlockSizes
     \/ CeilDivision(manifest.transferLength, manifest.blockSize) > MaxBlocks
  THEN Refuse
  ELSE Accept([ manifest |-> manifest, manifestId |-> ManifestId(manifest),
                blockCount |-> CeilDivision(manifest.transferLength, manifest.blockSize) ])

\* What the hash in a frame's header covers.
BlockCommitment(frame) ==
  Digest(<< frame.type, frame.transferId, frame.manifestId, frame.transferLength,
            frame.offset, frame.payload >>)

\* encodeQrf3FrameBinary: the manifest is a frame's payload like a block's bytes.
EncodeFrame(type, plan, offset, payload) ==
  LET frame == [ type |-> type, transferId |-> plan.manifest.transferId,
                 manifestId |-> plan.manifestId,
                 transferLength |-> plan.manifest.transferLength,
                 offset |-> offset, payload |-> payload, commitment |-> "none" ]
  IN [ frame EXCEPT !.commitment = BlockCommitment(frame) ]

ManifestFrame(plan) == EncodeFrame("manifest", plan, 0, << plan.manifest >>)

BlockLength(manifest, offset) ==
  IF manifest.blockSize < manifest.transferLength - offset
  THEN manifest.blockSize ELSE manifest.transferLength - offset

\* dataFrame, of a block in 0 .. blockCount - 1: read[offset, length] is the source's.
DataFrame(plan, read, block) ==
  LET offset == block * plan.manifest.blockSize
      length == BlockLength(plan.manifest, offset)
      bytes == read[offset, length]
  IN
  IF ~bytes.ok \/ Len(bytes.value) # length
  THEN Refuse ELSE Accept(EncodeFrame("data", plan, offset, bytes.value))

(***************************************************************************)
(* The receiver                                                            *)
(***************************************************************************)
\* assertRangeEnd
InRange(offset, length, transferLength) ==
  offset < transferLength /\ offset + length <= transferLength

\* parseQrf3EncodedFrame
ParseFrame(frame) ==
  LET manifest == frame.payload[1] IN
  IF \/ frame.commitment # BlockCommitment(frame)
     \/ frame.type = "manifest" /\ frame.offset # 0
     \/ frame.type = "data" /\ ( \/ frame.payload = << >>
                                 \/ Len(frame.payload) > MaxBlockSize
                                 \/ ~InRange(frame.offset, Len(frame.payload), frame.transferLength) )
     \/ frame.type = "manifest" /\ ( \/ manifest.blockSize \notin BlockSizes
                                     \/ frame.manifestId # ManifestId(manifest)
                                     \/ frame.transferId # manifest.transferId
                                     \/ frame.transferLength # manifest.transferLength )
  THEN Refuse ELSE Accept(frame)

\* validateQrf3DataFrame: the block that a parsed frame is of, under the accepted
\* manifest.
ValidateDataFrame(frame, manifest, manifestId) ==
  IF \/ frame.type # "data"
     \/ frame.transferId # manifest.transferId
     \/ frame.manifestId # manifestId
     \/ frame.transferLength # manifest.transferLength
     \/ frame.offset % manifest.blockSize # 0
     \/ Len(frame.payload) # BlockLength(manifest, frame.offset)
  THEN Refuse ELSE Accept(frame.offset \div manifest.blockSize)

\* A scanned frame is parsed, and its block written at its place or refused.
WriteDataFrame(stored, frame, manifest, manifestId) ==
  LET block == ValidateDataFrame(frame, manifest, manifestId) IN
  IF ~ParseFrame(frame).ok \/ ~block.ok THEN stored
  ELSE [ k \in DOMAIN stored \cup { block.value } |->
           IF k = block.value THEN frame.payload ELSE stored[k] ]

\* The stored blocks, one behind the other.
Assembled(stored, blockCount) ==
  LET upTo[n \in 0 .. blockCount] ==
        IF n = 0 THEN << >> ELSE upTo[n - 1] \o stored[n - 1]
  IN upTo[blockCount]
=============================================================================
