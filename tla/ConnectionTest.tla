---------------------------- MODULE ConnectionTest ----------------------------
(***************************************************************************)
(* The connection tests (lib/connection.ts and lib/large-connection.ts): a *)
(* probe carries which Files transfer follows it, and the receiver's user  *)
(* types a code into the sender that only the whole probe gives.           *)
(*                                                                         *)
(* A probe is a record of its fields, noise is its random rest. SHA-256 and *)
(* HMAC keep different contents apart, also in the fifty bits of the code.  *)
(* A code is a sequence of symbols, each made of its digest and its place.  *)
(* A user types characters: symbols, in either case, blanks and dashes,     *)
(* letters or digits that no code has, and any other marks.                 *)
(***************************************************************************)
EXTENDS Integers, Sequences, FiniteSets

CONSTANT CodeLength   \* RECEIPT_RAW_LENGTH

\* Asserted where the module is instantiated.
ConnectionTestAssumption == CodeLength \in Nat \ { 0 }

Accept(value) == [ ok |-> TRUE, value |-> value ]
Refuse == [ ok |-> FALSE ]

Digest(content) == [ sha256 |-> content ]

\* encodeReceiptBits
CodeOf(digest) == [ i \in 1 .. CodeLength |-> [ kind |-> "symbol", of |-> << digest, i >> ] ]

(***************************************************************************)
(* The classic test                                                        *)
(***************************************************************************)
\* createFilesTransferBinding
FilesBinding(transfer) ==
  IF transfer.purpose # "files" THEN Refuse
  ELSE Accept([ transferId |-> transfer.transferId, archiveSha256 |-> transfer.archiveSha256,
                manifestSha256 |-> Digest(transfer.manifestFrame),
                connectionId |-> transfer.connectionId ])

\* createDummyBytes: the file ends with its own hash.
DummyBytes(binding, probeTransferId, noise) ==
  LET content == [ magic |-> "QRF2", connectionId |-> binding.connectionId,
                   probeTransferId |-> probeTransferId, transferId |-> binding.transferId,
                   archiveSha256 |-> binding.archiveSha256,
                   manifestSha256 |-> binding.manifestSha256, noise |-> noise ]
  IN [ content |-> content, selfHash |-> Digest(content) ]

\* The one file of the probe's archive.
DummyArchive(dummy) == << [ path |-> "connection-test", directory |-> FALSE, bytes |-> dummy ] >>

\* parseDummyArchive, of the entries that were extracted.
ParseDummyArchive(entries) ==
  LET dummy == entries[1].bytes
      content == dummy.content
  IN
  IF \/ Len(entries) # 1
     \/ entries[1].directory \/ entries[1].path # "connection-test"
     \/ content.magic # "QRF2"
     \/ dummy.selfHash # Digest(content)
     \/ content.probeTransferId = content.transferId
  THEN Refuse
  ELSE Accept([ bytes |-> dummy, connectionId |-> content.connectionId,
                probeTransferId |-> content.probeTransferId,
                filesBinding |-> [ transferId |-> content.transferId,
                                   archiveSha256 |-> content.archiveSha256,
                                   manifestSha256 |-> content.manifestSha256,
                                   connectionId |-> content.connectionId ] ])

\* deriveReceiptFromDummy: a MAC under the hash of the file.
ReceiptFromDummy(connectionId, entries, parsed) ==
  CodeOf(Digest(<< Digest(parsed.bytes), connectionId, parsed.probeTransferId,
                   parsed.filesBinding.transferId, Digest(entries),
                   parsed.filesBinding.archiveSha256, parsed.filesBinding.manifestSha256 >>))

\* prepareConnectionTest
PrepareConnectionTest(binding, probeTransferId, noise) ==
  LET archive == DummyArchive(DummyBytes(binding, probeTransferId, noise))
      parsed == ParseDummyArchive(archive)
  IN
  IF probeTransferId = binding.transferId THEN Refuse
  ELSE Accept([ archive |-> archive, transferId |-> probeTransferId,
                connectionId |-> binding.connectionId, filesBinding |-> binding,
                receiptCode |-> ReceiptFromDummy(binding.connectionId, archive, parsed.value) ])

\* verifyConnectionTest, with what the probe's frames said of it.
VerifyConnectionTest(archive, connectionId, probeTransferId) ==
  LET parsed == ParseDummyArchive(archive) IN
  IF \/ ~parsed.ok
     \/ parsed.value.connectionId # connectionId
     \/ parsed.value.probeTransferId # probeTransferId
  THEN Refuse
  ELSE Accept([ filesBinding |-> parsed.value.filesBinding,
                receiptCode |-> ReceiptFromDummy(connectionId, archive, parsed.value) ])

\* formatConnectionReceiptCode: blanks and dashes go, everything else must be a
\* symbol of a code, and there must be the right number of them.
Upper(typed) == [ i \in DOMAIN typed |-> [ kind |-> typed[i].kind, of |-> typed[i].of ] ]
FormatReceipt(typed) ==
  LET compact == SelectSeq(Upper(typed), LAMBDA c : c.kind # "space") IN
  IF Len(compact) # CodeLength \/ \E i \in DOMAIN compact : compact[i].kind # "symbol"
  THEN Refuse ELSE Accept(compact)

\* validateConnectionReceiptCode
ValidateReceipt(typed, connectionId, archive) ==
  LET parsed == ParseDummyArchive(archive) IN
  /\ FormatReceipt(typed).ok
  /\ FormatReceipt(typed).value = ReceiptFromDummy(connectionId, archive, parsed.value)

(***************************************************************************)
(* The test of a large tree                                                *)
(***************************************************************************)
\* createQrf3FilesBinding
Qrf3FilesBinding(plan) ==
  IF plan.manifest.purpose # "files" THEN Refuse
  ELSE Accept([ transferId |-> plan.manifest.transferId, manifestId |-> plan.manifestId,
                streamSha256 |-> plan.manifest.archiveSha256,
                connectionId |-> plan.manifest.connectionId,
                transferLength |-> plan.manifest.transferLength,
                blockSize |-> plan.manifest.blockSize, rootName |-> plan.manifest.rootName ])

\* encodeProbe; decodeProbe gives the binding back if the marker is there.
EncodeProbe(binding, noise) == [ magic |-> "QRF3PRB1", binding |-> binding, noise |-> noise ]
DecodeProbe(probe) == IF probe.magic # "QRF3PRB1" THEN Refuse ELSE Accept(probe.binding)

\* deriveQrf3ReceiptCode
Qrf3ReceiptCode(probe, manifest) == CodeOf(Digest(<< "QRF3", probe, manifest.transferId >>))

\* The manifest that every probe has, with its own identity.
ProbeManifest(probe, transferId, blockSize, connectionId) ==
  [ purpose |-> "test", transferId |-> transferId, archiveSha256 |-> Digest(probe),
    connectionId |-> connectionId, transferLength |-> 4, blockSize |-> blockSize,
    rootName |-> "QRF3 Connection Test" ]

\* prepareQrf3ConnectionTest
PrepareQrf3ConnectionTest(plan, transferId, noise) ==
  LET binding == Qrf3FilesBinding(plan)
      probe == EncodeProbe(binding.value, noise)
      manifest == ProbeManifest(probe, transferId, binding.value.blockSize, binding.value.connectionId)
  IN
  IF ~binding.ok THEN Refuse
  ELSE Accept([ probe |-> probe, manifest |-> manifest, filesBinding |-> binding.value,
                receiptCode |-> Qrf3ReceiptCode(probe, manifest) ])

\* assertCanonicalQrf3ConnectionTestManifest
CanonicalProbeManifest(manifest) ==
  /\ manifest.purpose = "test"
  /\ manifest.transferLength = 4
  /\ manifest.rootName = "QRF3 Connection Test"

\* verifyQrf3ConnectionTest
VerifyQrf3ConnectionTest(probe, manifest) ==
  LET binding == DecodeProbe(probe) IN
  IF \/ ~CanonicalProbeManifest(manifest)
     \/ ~binding.ok
     \/ binding.value.connectionId # manifest.connectionId
     \/ binding.value.blockSize # manifest.blockSize
     \/ Digest(probe) # manifest.archiveSha256
  THEN Refuse
  ELSE Accept([ filesBinding |-> binding.value, receiptCode |-> Qrf3ReceiptCode(probe, manifest) ])

\* matchesQrf3FilesBinding
MatchesQrf3FilesBinding(binding, manifest, manifestId) ==
  /\ manifest.purpose = "files"
  /\ binding = [ transferId |-> manifest.transferId, manifestId |-> manifestId,
                 streamSha256 |-> manifest.archiveSha256, connectionId |-> manifest.connectionId,
                 transferLength |-> manifest.transferLength, blockSize |-> manifest.blockSize,
                 rootName |-> manifest.rootName ]

\* formatQrf3ReceiptCode: everything that is no letter or digit goes, and what is
\* behind the code's length.
FormatQrf3Receipt(typed) ==
  LET normalized == SelectSeq(Upper(typed), LAMBDA c : c.kind \in { "symbol", "letter" }) IN
  IF Len(normalized) > CodeLength THEN SubSeq(normalized, 1, CodeLength) ELSE normalized

\* validateQrf3ReceiptCode
ValidateQrf3Receipt(typed, expected) ==
  LET left == FormatQrf3Receipt(typed) IN Len(left) = CodeLength /\ left = expected
=============================================================================
