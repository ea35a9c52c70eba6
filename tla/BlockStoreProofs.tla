--------------------------- MODULE BlockStoreProofs ---------------------------
(***************************************************************************)
(* Proofs about BlockStore for any set of tabs, number of blocks, commit   *)
(* size and compaction threshold.                                          *)
(***************************************************************************)
EXTENDS BlockStore, TLAPS

-----------------------------------------------------------------------------
(* Type correctness.                                                       *)

LEMMA RecordType ==
  ASSUME NEW g \in Nat, NEW B \in SUBSET Blocks, NEW w \in BOOLEAN
  PROVE  [ gen |-> g, blocks |-> B, whole |-> w ] \in Record
  BY DEF Record

LEMMA SlotType ==
  ASSUME NEW g \in Nat, NEW B \in SUBSET Blocks
  PROVE  Good(g, B) \in Slot /\ Blank \in Slot /\ NoFile \in Slot
  BY DEF Good, Blank, NoFile, Slot, SlotStates

LEMMA PrefixType ==
  ASSUME NEW J \in Seq(Record), NEW n \in Nat, n <= Len(J)
  PROVE  /\ SubSeq(J, 1, n) \in Seq(Record)
         /\ Len(SubSeq(J, 1, n)) = n
         /\ \A k \in 1 .. n : SubSeq(J, 1, n)[k] = J[k]
  OBVIOUS

LEMMA ParityType ==
  ASSUME NEW n \in Nat
  PROVE  n % 2 \in 0 .. 1
  OBVIOUS

\* Whatever an interrupted step leaves behind is well typed.
LEMMA OutcomesType ==
  ASSUME TypeOK, NEW h \in Handles,
         slot' \in SlotOutcomes(h), journal' \in JournalOutcomes(h)
  PROVE  slot' \in [ 0 .. 1 -> Slot ] /\ journal' \in Seq(Record)
<1> USE DEF TypeOK
<1>1. slot' \in [ 0 .. 1 -> Slot ]
  <2>1. ASSUME NEW i \in 0 .. 1, NEW g \in Nat, NEW B \in SUBSET Blocks,
               NEW s \in SlotReplaced(i, g, B)
        PROVE  s \in [ 0 .. 1 -> Slot ]
    <3>1. \A x \in Slot : [ slot EXCEPT ![i] = x ] \in [ 0 .. 1 -> Slot ]
      OBVIOUS
    <3>2. [ slot EXCEPT ![i] = Good(g, B) ] \in [ 0 .. 1 -> Slot ]
      BY <3>1, SlotType
    <3>3. [ slot EXCEPT ![i] = Blank ] \in [ 0 .. 1 -> Slot ]
      BY <3>1, SlotType
    <3>4. s \in { slot, [ slot EXCEPT ![i] = Good(g, B) ], [ slot EXCEPT ![i] = Blank ] }
      BY <2>1 DEF SlotReplaced
    <3> QED
      BY <3>2, <3>3, <3>4
  <2>2. gen[h] \in Nat /\ gen[h] % 2 \in 0 .. 1
    BY ParityType
  <2>3. CASE pc[h] = "initial"
    <3>1. slot' \in SlotReplaced(1, 1, {})
      BY <2>3 DEF SlotOutcomes
    <3>2. 1 \in 0 .. 1 /\ 1 \in Nat /\ {} \in SUBSET Blocks
      OBVIOUS
    <3> QED
      BY <3>1, <3>2, <2>1
  <2>4. CASE pc[h] \in { "compact", "orphan" }
    <3>1. slot' \in SlotReplaced(gen[h] % 2, gen[h], bits[h])
      BY <2>4 DEF SlotOutcomes
    <3> QED
      BY <3>1, <2>1, <2>2
  <2>5. CASE pc[h] \notin { "initial", "compact", "orphan" }
    BY <2>5 DEF SlotOutcomes
  <2> QED
    BY <2>3, <2>4, <2>5
<1>2. journal' \in Seq(Record)
  <2>1. CASE pc[h] = "append"
    <3>1. \/ journal' = journal
          \/ \E w \in BOOLEAN :
               journal' = Append(journal, [ gen |-> gen[h], blocks |-> pend[h], whole |-> w ])
      BY <2>1 DEF JournalOutcomes
    <3>2. \A w \in BOOLEAN : [ gen |-> gen[h], blocks |-> pend[h], whole |-> w ] \in Record
      BY RecordType
    <3> HIDE DEF Record
    <3>3. ASSUME NEW r \in Record
          PROVE  Append(journal, r) \in Seq(Record)
      OBVIOUS
    <3> QED
      BY <3>1, <3>2, <3>3
  <2>2. CASE pc[h] \in { "truncate", "creating" }
    <3>1. journal' \in { journal, << >> }
      BY <2>2 DEF JournalOutcomes
    <3>2. << >> \in Seq(Record)
      OBVIOUS
    <3> QED
      BY <3>1, <3>2
  <2>3. CASE pc[h] = "opening" /\ pos[h] <= Len(journal)
    <3>1. journal' \in { journal, SubSeq(journal, 1, pos[h]) }
      BY <2>3 DEF JournalOutcomes
    <3> QED
      BY <3>1, <2>3, PrefixType
  <2>4. CASE /\ pc[h] \notin { "append", "truncate", "creating" }
             /\ ~ (pc[h] = "opening" /\ pos[h] <= Len(journal))
    <3>1. journal' = journal
      BY <2>4 DEF JournalOutcomes
    <3> QED
      BY <3>1
  <2> QED
    BY <2>1, <2>2, <2>3, <2>4
<1> QED
  BY <1>1, <1>2

LEMMA InterruptedType ==
  ASSUME TypeOK, NEW h \in Handles, Interrupted(h)
  PROVE  /\ slot' \in [ 0 .. 1 -> Slot ]
         /\ journal' \in Seq(Record)
         /\ written' \in SUBSET Blocks
         /\ stable' \in SUBSET written'
<1>1. slot' \in [ 0 .. 1 -> Slot ] /\ journal' \in Seq(Record)
  BY OutcomesType DEF Interrupted
<1>2. written' \in SUBSET Blocks /\ stable' \in SUBSET written'
  BY DEF Interrupted, TypeOK, PayloadOutcomes
<1> QED
  BY <1>1, <1>2

LEMMA EndSessionType ==
  ASSUME TypeOK, NEW h \in Handles, NEW p \in Phases, EndSession(h, p)
  PROVE  /\ owner' \in Handles \cup { NoHandle }
         /\ pc' \in [ Handles -> Phases ]
         /\ bits' \in [ Handles -> SUBSET Blocks ]
         /\ gen' \in [ Handles -> Nat ]
         /\ pos' \in [ Handles -> Nat ]
         /\ pend' \in [ Handles -> SUBSET Blocks ]
         /\ ending' \in [ Handles -> BOOLEAN ]
  BY DEF TypeOK, EndSession, Goto, ForgetSession, Release

LEMMA RemoveType ==
  ASSUME TypeOK, NEW gone \in SUBSET Files, Remove(gone)
  PROVE  /\ slot' \in [ 0 .. 1 -> Slot ]
         /\ journal' \in Seq(Record)
         /\ written' \in SUBSET Blocks
         /\ stable' \in SUBSET written'
         /\ told' \in SUBSET Blocks
  <1>1. NoFile \in Slot
    BY DEF NoFile, Slot, SlotStates
  <1> QED
    BY <1>1 DEF TypeOK, Remove

\* Every step of open().
LEMMA OpenType ==
  ASSUME TypeOK, NEW h \in Handles,
         \/ Open(h) \/ LoadNew(h) \/ LoadCorrupt(h) \/ LoadBest(h)
         \/ ResetFiles(h) \/ CreateCheckpoint(h)
         \/ ReplaySkip(h) \/ ReplayApply(h) \/ ReplayDone(h) \/ ReplayCorrupt(h)
         \/ OpenWorker(h) \/ OpenFails(h)
  PROVE  TypeOK'
<1> USE DEF Goto
<1>p. Phases' = Phases /\ Handles' = Handles
  OBVIOUS
<1>1. CASE Open(h)
  BY <1>1 DEF TypeOK, Open, disk, session, Phases
<1>2. CASE LoadNew(h)
  BY <1>2 DEF TypeOK, LoadNew, disk, session, Phases
<1>3. CASE LoadCorrupt(h)
  BY <1>3, EndSessionType, "closed" \in Phases DEF TypeOK, LoadCorrupt, disk, Phases
<1>4. CASE LoadBest(h)
  BY <1>4 DEF TypeOK, LoadBest, disk, Phases, Candidates, Slot
<1>5. CASE ResetFiles(h)
  BY <1>5 DEF TypeOK, ResetFiles, session, Phases
<1>6. CASE CreateCheckpoint(h)
  BY <1>6, SlotType DEF TypeOK, CreateCheckpoint, Phases
<1>7. CASE ReplaySkip(h)
  BY <1>7 DEF TypeOK, ReplaySkip, disk
<1>8. CASE ReplayApply(h)
  <2>1. journal[pos[h] + 1] \in Record
    BY <1>8 DEF TypeOK, ReplayApply, HasNext
  <2> QED
    BY <1>8, <2>1 DEF TypeOK, ReplayApply, disk, Record
<1>9. CASE ReplayDone(h)
  BY <1>9 DEF TypeOK, ReplayDone, disk, session, Phases
<1>10. CASE ReplayCorrupt(h)
  BY <1>10, EndSessionType, "closed" \in Phases DEF TypeOK, ReplayCorrupt, disk, Phases
<1>11. CASE OpenWorker(h)
  BY <1>11, PrefixType DEF TypeOK, OpenWorker, session, Phases
<1>12. CASE OpenFails(h)
  <2>1. "closed" \in Phases
    BY DEF Phases
  <2>2. Interrupted(h) /\ EndSession(h, "closed") /\ told' = told
    BY <1>12 DEF OpenFails
  <2>3. TypeOK'
    <3> HIDE DEF Goto
    <3>1. told' \in SUBSET Blocks
      BY <2>2 DEF TypeOK
    <3> QED
      BY <2>1, <2>2, <3>1, InterruptedType, EndSessionType DEF TypeOK
  <2> QED
    BY <2>3
<1> QED
  BY <1>1, <1>2, <1>3, <1>4, <1>5, <1>6, <1>7, <1>8, <1>9, <1>10, <1>11, <1>12

\* Every step of writeBlocks(), compaction and the failures in them.
LEMMA WriteType ==
  ASSUME TypeOK, NEW h \in Handles,
         \/ WriteBlocks(h) \/ TakeBlock(h) \/ StoreBlock(h) \/ EndOfBlocks(h)
         \/ BlocksFail(h) \/ FlushPayload(h) \/ AppendJournal(h)
         \/ WriteCheckpoint(h) \/ TruncateJournal(h) \/ Return(h)
         \/ CheckpointFails(h)
  PROVE  TypeOK'
<1> USE DEF Goto
<1>1. CASE WriteBlocks(h)
  BY <1>1 DEF TypeOK, WriteBlocks, disk, Phases
<1>2. CASE TakeBlock(h)
  BY <1>2 DEF TypeOK, TakeBlock, disk, Phases
<1>3. CASE StoreBlock(h)
  BY <1>3 DEF TypeOK, StoreBlock, session, Phases
<1>4. CASE EndOfBlocks(h)
  BY <1>4 DEF TypeOK, EndOfBlocks, disk, Phases
<1>5. CASE BlocksFail(h)
  BY <1>5 DEF TypeOK, BlocksFail, disk, Phases
<1>6. CASE FlushPayload(h)
  BY <1>6 DEF TypeOK, FlushPayload, Phases
<1>7. CASE AppendJournal(h)
  <2>1. [ gen |-> gen[h], blocks |-> pend[h], whole |-> TRUE ] \in Record
    BY RecordType DEF TypeOK
  <2> QED
    BY <1>7, <2>1 DEF TypeOK, AppendJournal, AfterCommit, Phases
<1>8. CASE WriteCheckpoint(h)
  <2>1. Good(gen[h], bits[h]) \in Slot
    BY SlotType DEF TypeOK
  <2> QED
    BY <1>8, <2>1 DEF TypeOK, WriteCheckpoint, session, Phases
<1>9. CASE TruncateJournal(h)
  BY <1>9 DEF TypeOK, TruncateJournal, AfterCommit, Phases
<1>10. CASE Return(h)
  BY <1>10 DEF TypeOK, Return, disk, session, Phases
<1>11. CASE CheckpointFails(h)
  <2>1. slot' \in [ 0 .. 1 -> Slot ]
    <3>1. pc[h] = "compact" /\ slot' \in SlotReplaced(gen[h] % 2, gen[h], bits[h])
      BY <1>11 DEF CheckpointFails, SlotOutcomes
    <3>2. Good(gen[h], bits[h]) \in Slot /\ Blank \in Slot
      BY SlotType DEF TypeOK
    <3> QED
      BY <3>1, <3>2 DEF TypeOK, SlotReplaced
  <2> QED
    BY <1>11, <2>1 DEF TypeOK, CheckpointFails, Phases
<1> QED
  BY <1>1, <1>2, <1>3, <1>4, <1>5, <1>6, <1>7, <1>8, <1>9, <1>10, <1>11

\* Every step that ends a session or removes files.
LEMMA EndType ==
  ASSUME TypeOK,
         \/ \E h \in Handles : WorkerFails(h) \/ TabDies(h) \/ Close(h)
         \/ PowerLoss
         \/ Removal
  PROVE  TypeOK'
<1>p. { "closed", "failed", "unlinked" } \subseteq Phases
  BY DEF Phases
<1>1. ASSUME NEW h \in Handles, WorkerFails(h) \/ TabDies(h)
      PROVE  TypeOK'
  <2>1. PICK p \in { "closed", "failed" } : EndSession(h, p)
    BY <1>1 DEF WorkerFails, TabDies
  <2>2. Interrupted(h) /\ told' = told
    BY <1>1 DEF WorkerFails, TabDies
  <2>3. told' \in SUBSET Blocks
    BY <2>2 DEF TypeOK
  <2> QED
    BY <1>p, <2>1, <2>2, <2>3, InterruptedType, EndSessionType DEF TypeOK
<1>2. ASSUME NEW h \in Handles, Close(h)
      PROVE  TypeOK'
  BY <1>p, <1>2, EndSessionType DEF Close, TypeOK, disk
<1>3. CASE PowerLoss
  <2>1. PICK h \in Handles :
          /\ slot' \in SlotOutcomes(h)
          /\ journal' \in JournalOutcomes(h)
          /\ \E out \in PayloadOutcomes(h) : written' \in SUBSET out[1]
    BY <1>3 DEF PowerLoss
  <2>2. slot' \in [ 0 .. 1 -> Slot ] /\ journal' \in Seq(Record)
    BY <2>1, OutcomesType
  <2>3. written' \in SUBSET Blocks
    BY <2>1 DEF TypeOK, PayloadOutcomes
  <2> QED
    BY <1>3, <1>p, <2>2, <2>3 DEF PowerLoss, TypeOK
<1>4. ASSUME NEW h \in Handles, Delete(h)
      PROVE  TypeOK'
  BY <1>p, <1>4, RemoveType, EndSessionType DEF Delete, TypeOK
<1>5. ASSUME NEW h \in Handles, DeleteFails(h)
      PROVE  TypeOK'
  <2>1. PICK gone \in SUBSET Files : Remove(gone)
    BY <1>5 DEF DeleteFails
  <2> QED
    BY <1>p, <1>5, <2>1, RemoveType DEF DeleteFails, TypeOK, Goto, ForgetSession
<1>6. CASE Discard
  <2>1. PICK gone \in SUBSET Files : Remove(gone)
    BY <1>6 DEF Discard
  <2> QED
    BY <1>6, <2>1, RemoveType DEF Discard, TypeOK, session
<1> QED
  BY <1>1, <1>2, <1>3, <1>4, <1>5, <1>6 DEF Removal

LEMMA TypeInit == Init => TypeOK
<1>1. NoFile \in Slot
  BY DEF NoFile, Slot, SlotStates
<1>2. << >> \in Seq(Record)
  OBVIOUS
<1> QED
  BY <1>1, <1>2 DEF Init, TypeOK, Phases

LEMMA TypeNext == TypeOK /\ [Next]_vars => TypeOK'
<1> SUFFICES ASSUME TypeOK, [Next]_vars
             PROVE  TypeOK'
  OBVIOUS
<1>1. CASE UNCHANGED vars
  BY <1>1 DEF TypeOK, vars, disk, session
<1>2. CASE Removal
  BY <1>2, EndType
<1>3. CASE PowerLoss
  BY <1>3, EndType
<1>4. ASSUME NEW h \in Handles, SessionStep(h)
      PROVE  TypeOK'
  BY <1>4, OpenType, WriteType, EndType DEF SessionStep
<1> QED
  BY <1>1, <1>2, <1>3, <1>4 DEF Next, StoreStep

\* Every variable of the store stays in its type.
THEOREM TypeCorrect == Spec => []TypeOK
  BY TypeInit, TypeNext, PTL DEF Spec

-----------------------------------------------------------------------------
(* Receipts are backed by flushed payload: the disk.                       *)

\* The second disjunct of DiskBacked.
Claims(S) ==
  /\ \A i \in 0 .. 1 : GoodSlot(i) => slot[i].bits \subseteq S
  /\ \A k \in 1 .. Len(journal) : Whole(k) => journal[k].blocks \subseteq S

\* While a session is live the disk claims nothing the session does not know.
LEMMA LiveClaims ==
  ASSUME BackedInv, NEW h \in Handles, pc[h] \in Live
  PROVE  Claims(stable)
  BY DEF BackedInv, SessionInv, KnowsSlots, KnowsJournal, Claims

\* Removing or blanking slots and cutting the journal keeps the chain.
LEMMA ChainShrinks ==
  ASSUME TypeOK, SlotParity, Chain,
         slot' \in [ 0 .. 1 -> Slot ],
         \A i \in 0 .. 1 : GoodSlot(i)' => slot'[i] = slot[i],
         NEW n \in 0 .. Len(journal),
         journal' = SubSeq(journal, 1, n)
  PROVE  /\ SlotParity' /\ Chain'
         /\ \A S \in SUBSET Blocks : Claims(S) => Claims(S)'
<1>1. /\ Len(journal') = n
      /\ \A k \in 1 .. n : journal'[k] = journal[k]
  BY PrefixType DEF TypeOK
<1>2. 1 .. n \subseteq 1 .. Len(journal)
  BY DEF TypeOK
<1>3. \A i \in 0 .. 1 : GoodSlot(i)' => GoodSlot(i)
  BY DEF GoodSlot
<1>4. \A k \in 1 .. n : Whole(k)' <=> Whole(k)
  BY <1>1 DEF Whole
<1>5. SlotParity'
  BY <1>3 DEF SlotParity
<1>6. Chain'
  BY <1>1, <1>2, <1>3, <1>4 DEF Chain
<1>7. \A S \in SUBSET Blocks : Claims(S) => Claims(S)'
  BY <1>1, <1>2, <1>3, <1>4 DEF Claims
<1> QED
  BY <1>5, <1>6, <1>7

LEMMA PrefixIsWhole ==
  ASSUME NEW J \in Seq(Record)
  PROVE  J = SubSeq(J, 1, Len(J)) /\ << >> = SubSeq(J, 1, 0)
  OBVIOUS

\* A session writes the checkpoint of what it knows.
LEMMA ChainCheckpoint ==
  ASSUME TypeOK, SlotParity, Chain, NEW h \in Handles,
         KnowsSlots(h), KnowsJournal(h, Len(journal)),
         slot' = [ slot EXCEPT ![gen[h] % 2] = Good(gen[h], bits[h]) ],
         journal' = journal
  PROVE  /\ SlotParity' /\ Chain'
         /\ \A S \in SUBSET Blocks : Claims(S) /\ bits[h] \subseteq S => Claims(S)'
<1> DEFINE x == gen[h] % 2
<1>1. gen[h] \in Nat /\ x \in 0 .. 1
  BY ParityType DEF TypeOK
<1>2. /\ slot'[x].st = "good" /\ slot'[x].gen = gen[h] /\ slot'[x].bits = bits[h]
      /\ \A i \in 0 .. 1 : i # x => slot'[i] = slot[i]
  BY <1>1 DEF TypeOK, Good
<1>3. \A i \in 0 .. 1 : i # x => (GoodSlot(i)' <=> GoodSlot(i))
  BY <1>2 DEF GoodSlot
<1>4. \A k : Whole(k)' <=> Whole(k)
  BY DEF Whole
<1>5. SlotParity'
  BY <1>1, <1>2, <1>3 DEF SlotParity
<1>6. ASSUME NEW i \in 0 .. 1, NEW j \in 0 .. 1, GoodSlot(i)', GoodSlot(j)',
             slot'[i].gen <= slot'[j].gen
      PROVE  slot'[i].bits \subseteq slot'[j].bits
  <2>1. CASE i = x /\ j = x
    BY <2>1
  <2>2. CASE i # x /\ j # x
    BY <2>2, <1>2, <1>3, <1>6 DEF Chain
  <2>3. CASE i # x /\ j = x
    BY <2>3, <1>2, <1>3, <1>6 DEF KnowsSlots
  <2>4. CASE i = x /\ j # x
    <3>1. GoodSlot(j) /\ slot[j].gen <= gen[h] /\ gen[h] <= slot[j].gen
      BY <2>4, <1>2, <1>3, <1>6 DEF KnowsSlots
    <3>2. slot[j].gen = gen[h]
      BY <3>1, <1>1 DEF TypeOK, Slot
    <3>3. slot[j].gen % 2 = j
      BY <3>1 DEF SlotParity
    <3> QED
      BY <3>2, <3>3, <2>4
  <2> QED
    BY <2>1, <2>2, <2>3, <2>4
<1>7. ASSUME NEW i \in 0 .. 1, NEW k \in 1 .. Len(journal), GoodSlot(i)', Whole(k),
             journal[k].gen <= slot'[i].gen
      PROVE  journal[k].blocks \subseteq slot'[i].bits
  <2>1. CASE i = x
    BY <2>1, <1>2, <1>7 DEF KnowsJournal
  <2>2. CASE i # x
    BY <2>2, <1>2, <1>3, <1>7 DEF Chain
  <2> QED
    BY <2>1, <2>2
<1>8. Chain'
  BY <1>4, <1>6, <1>7 DEF Chain
<1>9. \A S \in SUBSET Blocks : Claims(S) /\ bits[h] \subseteq S => Claims(S)'
  BY <1>2, <1>3, <1>4 DEF Claims
<1> QED
  BY <1>5, <1>8, <1>9

\* A session appends, whole or torn, the record of its next generation.
LEMMA ChainAppend ==
  ASSUME TypeOK, SlotParity, Chain, NEW h \in Handles,
         \A i \in 0 .. 1 : GoodSlot(i) => slot[i].gen < gen[h],
         \A k \in 1 .. Len(journal) : journal[k].gen < gen[h],
         slot' = slot,
         NEW w \in BOOLEAN,
         journal' = Append(journal, [ gen |-> gen[h], blocks |-> pend[h], whole |-> w ])
  PROVE  /\ SlotParity' /\ Chain'
         /\ \A S \in SUBSET Blocks : Claims(S) /\ pend[h] \subseteq S => Claims(S)'
<1> DEFINE n == Len(journal)
           r == [ gen |-> gen[h], blocks |-> pend[h], whole |-> w ]
<1>1. /\ gen[h] \in Nat /\ n \in Nat /\ r \in Record
      /\ \A k \in 1 .. n : journal[k] \in Record
      /\ \A i \in 0 .. 1 : slot[i].gen \in Nat
  <2>1. gen[h] \in Nat /\ n \in Nat /\ pend[h] \in SUBSET Blocks
    BY DEF TypeOK
  <2>2. r \in Record
    BY <2>1, RecordType
  <2>3. \A k \in 1 .. n : journal[k] \in Record
    BY DEF TypeOK
  <2>4. \A i \in 0 .. 1 : slot[i].gen \in Nat
    BY DEF TypeOK, Slot
  <2> QED
    BY <2>1, <2>2, <2>3, <2>4
<1>2. /\ Len(journal') = n + 1 /\ journal'[n + 1] = r
      /\ \A k \in 1 .. n : journal'[k] = journal[k]
  <2> HIDE DEF r
  <2> QED
    BY <1>1 DEF TypeOK, r
<1>3. \A k \in 1 .. n : journal[k].gen \in Nat
  BY <1>1 DEF Record
<1>4. \A i \in 0 .. 1 : GoodSlot(i)' <=> GoodSlot(i)
  BY DEF GoodSlot
<1>5. \A k \in 1 .. n : Whole(k)' <=> Whole(k)
  BY <1>2 DEF Whole
<1>6. \A k \in 1 .. n + 1 : k \in 1 .. n \/ k = n + 1
  BY <1>1
<1>7. r.gen = gen[h] /\ r.blocks = pend[h]
  OBVIOUS
<1> HIDE DEF n, r
<1>8. SlotParity'
  BY <1>4 DEF SlotParity
<1>9. ASSUME NEW i \in 0 .. 1, NEW k \in 1 .. n + 1, GoodSlot(i), Whole(k)',
             journal'[k].gen <= slot[i].gen
      PROVE  journal'[k].blocks \subseteq slot[i].bits
  <2>1. CASE k \in 1 .. n
    BY <2>1, <1>2, <1>5, <1>9 DEF Chain, n
  <2>2. CASE k = n + 1
    BY <2>2, <1>1, <1>2, <1>7, <1>9
  <2> QED
    BY <2>1, <2>2, <1>6
<1>10. ASSUME NEW k \in 1 .. n + 1, NEW m \in 1 .. n + 1, k < m, Whole(k)', Whole(m)'
       PROVE  journal'[k].gen < journal'[m].gen
  <2>0. k \in 1 .. n
    BY <1>1, <1>10
  <2>1. CASE m \in 1 .. n
    BY <2>0, <2>1, <1>2, <1>5, <1>10 DEF Chain, n
  <2>2. CASE m = n + 1
    BY <2>0, <2>2, <1>2, <1>7 DEF n
  <2> QED
    BY <2>1, <2>2, <1>6
<1>11. Chain'
  BY <1>2, <1>4, <1>9, <1>10 DEF Chain
<1>12. \A S \in SUBSET Blocks : Claims(S) /\ pend[h] \subseteq S => Claims(S)'
  BY <1>2, <1>4, <1>5, <1>6, <1>7 DEF Claims, n
<1> QED
  BY <1>8, <1>11, <1>12

\* What a step cut short at any point leaves on disk.
Cut(h) ==
  /\ slot' \in SlotOutcomes(h)
  /\ journal' \in JournalOutcomes(h)
  /\ \E out \in PayloadOutcomes(h) :
       out[2] \subseteq stable' /\ stable' \subseteq written' /\ written' \subseteq out[1]

DiskInv == SlotParity /\ Chain /\ DiskBacked

LEMMA DiskBackedIs == DiskBacked <=> (written = {} \/ Claims(stable))
  BY DEF DiskBacked, Claims

LEMMA CutChain ==
  ASSUME BackedInv, NEW h \in Handles,
         slot' \in SlotOutcomes(h), journal' \in JournalOutcomes(h)
  PROVE  /\ SlotParity' /\ Chain'
         /\ \A S \in SUBSET Blocks : stable \subseteq S /\ Claims(S) => Claims(S)'
<1>0. /\ TypeOK /\ SlotParity /\ Chain /\ SessionInv(h)
      /\ slot' \in [ 0 .. 1 -> Slot ]
      /\ Len(journal) \in Nat
  BY OutcomesType DEF BackedInv, TypeOK
\* Slots kept or blanked, journal cut: ChainShrinks applies.
<1>1. ASSUME slot' = slot \/ \E i \in 0 .. 1 : slot' = [ slot EXCEPT ![i] = Blank ],
             NEW n \in 0 .. Len(journal), journal' = SubSeq(journal, 1, n)
      PROVE  /\ SlotParity' /\ Chain'
             /\ \A S \in SUBSET Blocks : Claims(S) => Claims(S)'
  <2>1. \A i \in 0 .. 1 : GoodSlot(i)' => slot'[i] = slot[i]
    BY <1>0, <1>1 DEF GoodSlot, Blank, TypeOK
  <2> QED
    BY <1>0, <1>1, <2>1, ChainShrinks
<1>2. ASSUME slot' = slot \/ \E i \in 0 .. 1 : slot' = [ slot EXCEPT ![i] = Blank ],
             journal' = journal \/ journal' = << >>
      PROVE  /\ SlotParity' /\ Chain'
             /\ \A S \in SUBSET Blocks : Claims(S) => Claims(S)'
  <2>1. /\ journal = SubSeq(journal, 1, Len(journal)) /\ << >> = SubSeq(journal, 1, 0)
        /\ Len(journal) \in 0 .. Len(journal) /\ 0 \in 0 .. Len(journal)
    BY <1>0, PrefixIsWhole DEF TypeOK
  <2> QED
    BY <1>1, <1>2, <2>1
<1>3. CASE pc[h] = "initial"
  <2>1. /\ slot' \in SlotReplaced(1, 1, {}) /\ journal' = journal /\ journal = << >>
        /\ \A i \in 0 .. 1 : slot[i].st = "none"
    BY <1>0, <1>3 DEF SlotOutcomes, JournalOutcomes, SessionInv, Existing
  <2>2. CASE slot' = [ slot EXCEPT ![1] = Good(1, {}) ]
    <3>1. /\ slot'[1].st = "good" /\ slot'[1].gen = 1 /\ slot'[1].bits = {}
          /\ slot'[0].st = "none"
      BY <1>0, <2>1, <2>2 DEF Good, TypeOK
    <3>2. \A i \in 0 .. 1 : GoodSlot(i)' => i = 1
      BY <3>1 DEF GoodSlot
    <3>3. Len(journal') = 0
      BY <2>1
    <3> QED
      BY <3>1, <3>2, <3>3 DEF SlotParity, Chain, Claims
  <2>3. CASE slot' # [ slot EXCEPT ![1] = Good(1, {}) ]
    BY <2>1, <2>3, <1>2 DEF SlotReplaced
  <2> QED
    BY <2>2, <2>3
<1>4. CASE pc[h] = "compact"
  <2>1. /\ slot' \in SlotReplaced(gen[h] % 2, gen[h], bits[h]) /\ journal' = journal
        /\ gen[h] % 2 \in 0 .. 1
        /\ KnowsSlots(h) /\ KnowsJournal(h, Len(journal)) /\ bits[h] \subseteq stable
    BY <1>0, <1>4, ParityType
       DEF SlotOutcomes, JournalOutcomes, SessionInv, Live, TypeOK
  <2>2. CASE slot' = [ slot EXCEPT ![gen[h] % 2] = Good(gen[h], bits[h]) ]
    BY <1>0, <2>1, <2>2, ChainCheckpoint
  <2>3. CASE slot' # [ slot EXCEPT ![gen[h] % 2] = Good(gen[h], bits[h]) ]
    BY <2>1, <2>3, <1>2 DEF SlotReplaced
  <2> QED
    BY <2>2, <2>3
<1>5. CASE pc[h] = "append"
  <2>1. /\ slot' = slot
        /\ \/ journal' = journal
           \/ \E w \in BOOLEAN :
                journal' = Append(journal, [ gen |-> gen[h], blocks |-> pend[h], whole |-> w ])
    BY <1>5 DEF SlotOutcomes, JournalOutcomes
  <2>2. /\ pend[h] \subseteq stable
        /\ \A i \in 0 .. 1 : GoodSlot(i) => slot[i].gen < gen[h]
        /\ \A k \in 1 .. Len(journal) : journal[k].gen < gen[h]
    BY <1>0, <1>5 DEF SessionInv, Live
  <2>3. CASE journal' = journal
    BY <2>1, <2>3, <1>2
  <2>4. ASSUME NEW w \in BOOLEAN,
               journal' = Append(journal, [ gen |-> gen[h], blocks |-> pend[h], whole |-> w ])
        PROVE  /\ SlotParity' /\ Chain'
               /\ \A S \in SUBSET Blocks : stable \subseteq S /\ Claims(S) => Claims(S)'
    BY <1>0, <2>1, <2>2, <2>4, ChainAppend
  <2> QED
    BY <2>1, <2>3, <2>4
<1>6. CASE pc[h] = "opening" /\ pos[h] <= Len(journal)
  <2>1. slot' = slot /\ journal' \in { journal, SubSeq(journal, 1, pos[h]) }
    BY <1>6 DEF SlotOutcomes, JournalOutcomes
  <2>2. pos[h] \in 0 .. Len(journal)
    BY <1>0, <1>6 DEF TypeOK
  <2> QED
    BY <2>1, <2>2, <1>1, <1>2
<1>7. CASE /\ pc[h] \notin { "initial", "compact", "append" }
           /\ ~ (pc[h] = "opening" /\ pos[h] <= Len(journal))
  <2>1. pc[h] # "orphan"
    BY <1>0 DEF SessionInv
  <2>2. slot' = slot
    BY <1>7, <2>1 DEF SlotOutcomes
  <2>3. journal' \in { journal, << >> }
    BY <1>7 DEF JournalOutcomes
  <2> QED
    BY <2>2, <2>3, <1>2
<1> QED
  BY <1>3, <1>4, <1>5, <1>6, <1>7

\* The payload file after a cut: flushed blocks stay flushed unless the file
\* is being replaced by an empty one, and an empty file stays empty unless a
\* live session was writing.
LEMMA CutPayload ==
  ASSUME BackedInv, NEW h \in Handles,
         NEW out \in PayloadOutcomes(h),
         out[2] \subseteq stable', stable' \subseteq written', written' \subseteq out[1]
  PROVE  /\ stable \subseteq stable' \/ written' = {}
         /\ written = {} /\ pc[h] \notin Live => written' = {}
<1>1. CASE pc[h] = "store"
  BY <1>1 DEF PayloadOutcomes, Live
<1>2. CASE pc[h] # "store"
  BY <1>2 DEF PayloadOutcomes, BackedInv, TypeOK
<1> QED
  BY <1>1, <1>2

LEMMA CutDisk ==
  ASSUME BackedInv, NEW h \in Handles, Cut(h)
  PROVE  DiskInv'
<1>1. /\ SlotParity' /\ Chain'
      /\ \A S \in SUBSET Blocks : stable \subseteq S /\ Claims(S) => Claims(S)'
  BY CutChain DEF Cut
<1>2. /\ stable \subseteq stable' \/ written' = {}
      /\ written = {} /\ pc[h] \notin Live => written' = {}
  BY CutPayload DEF Cut
<1>3. stable' \in SUBSET Blocks
  <2>1. PICK out \in PayloadOutcomes(h) :
          stable' \subseteq written' /\ written' \subseteq out[1]
    BY DEF Cut
  <2>2. out[1] \in SUBSET Blocks
    BY DEF PayloadOutcomes, BackedInv, TypeOK
  <2> QED
    BY <2>1, <2>2
<1>4. written = {} \/ Claims(stable)
  BY DiskBackedIs DEF BackedInv
<1>5. CASE written' = {}
  BY <1>5, <1>1 DEF DiskInv, DiskBacked
<1>6. CASE written' # {}
  <2>1. Claims(stable)
    BY <1>2, <1>4, <1>6, LiveClaims
  <2>2. PICK S \in SUBSET Blocks : S = stable'
    BY <1>3
  <2>3. Claims(S) /\ stable \subseteq S
    BY <1>2, <1>6, <2>1, <2>2 DEF Claims
  <2>4. Claims(S)'
    BY <1>1, <2>3
  <2>5. DiskBacked'
    BY <2>2, <2>4 DEF Claims, DiskBacked
  <2> QED
    BY <1>1, <2>5 DEF DiskInv
<1> QED
  BY <1>5, <1>6

\* Any partial removal.
LEMMA RemoveDisk ==
  ASSUME BackedInv, NEW gone \in SUBSET Files, Remove(gone)
  PROVE  DiskInv'
<1>1. /\ TypeOK /\ SlotParity /\ Chain
      /\ slot' \in [ 0 .. 1 -> Slot ]
      /\ Len(journal) \in Nat
  BY RemoveType DEF BackedInv, TypeOK
<1>2. \A i \in 0 .. 1 : GoodSlot(i)' => slot'[i] = slot[i]
  BY DEF GoodSlot, Remove, NoFile
<1>3. PICK n \in 0 .. Len(journal) : journal' = SubSeq(journal, 1, n)
  <2>1. /\ journal = SubSeq(journal, 1, Len(journal)) /\ << >> = SubSeq(journal, 1, 0)
        /\ Len(journal) \in 0 .. Len(journal) /\ 0 \in 0 .. Len(journal)
    BY <1>1, PrefixIsWhole DEF TypeOK
  <2> QED
    BY <2>1 DEF Remove
<1>4. /\ SlotParity' /\ Chain'
      /\ \A S \in SUBSET Blocks : Claims(S) => Claims(S)'
  BY <1>1, <1>2, <1>3, ChainShrinks
<1>5. CASE written' = {}
  BY <1>4, <1>5 DEF DiskInv, DiskBacked
<1>6. CASE written' # {}
  <2>1. written' = written /\ stable' = stable
    BY <1>6 DEF Remove
  <2>2. Claims(stable)
    BY <2>1, <1>6, DiskBackedIs DEF BackedInv
  <2>3. PICK S \in SUBSET Blocks : S = stable
    BY <1>1 DEF TypeOK
  <2>4. Claims(S)'
    BY <1>4, <2>2, <2>3
  <2>5. DiskBacked'
    BY <2>1, <2>3, <2>4 DEF Claims, DiskBacked
  <2> QED
    BY <1>4, <2>5 DEF DiskInv
<1> QED
  BY <1>5, <1>6

-----------------------------------------------------------------------------
(* Receipts are backed by flushed payload: the sessions.                   *)

LEMMA QuietOthers ==
  ASSUME BackedInv, NEW h \in Handles, pc[h] \notin { "closed", "failed" }
  PROVE  /\ owner = h
         /\ \A k \in Handles \ { h } : pc[k] \in { "closed", "failed" }
  BY DEF BackedInv, OneSession, SessionInv

LEMMA QuietSession ==
  ASSUME NEW k \in Handles, pc'[k] \in { "closed", "failed", "unlinked" }, pend'[k] = {}
  PROVE  SessionInv(k)'
  BY DEF SessionInv, Live

LEMMA SameDisk ==
  ASSUME BackedInv, UNCHANGED disk
  PROVE  DiskInv'
<1>1. SlotParity'
  BY DEF BackedInv, disk, SlotParity, GoodSlot
<1>2. Chain'
  BY DEF BackedInv, disk, Chain, GoodSlot, Whole
<1>3. DiskBacked'
  BY DEF BackedInv, disk, DiskBacked, GoodSlot, Whole
<1> QED
  BY <1>1, <1>2, <1>3 DEF DiskInv

LEMMA SameSession ==
  ASSUME NEW k \in Handles, SessionInv(k), UNCHANGED disk,
         pc'[k] = pc[k], bits'[k] = bits[k], gen'[k] = gen[k],
         pos'[k] = pos[k], pend'[k] = pend[k]
  PROVE  SessionInv(k)'
  BY DEF SessionInv, disk, Existing, KnowsSlots, KnowsJournal, SkipsSafely,
         GoodSlot, Whole

\* A step of the running session that keeps the lock.
LEMMA MoveStep ==
  ASSUME BackedInv, TypeOK', DiskInv', NEW h \in Handles,
         pc[h] \notin { "closed", "failed" }, owner' = owner,
         NEW p, Goto(h, p),
         \A k \in Handles \ { h } : pend'[k] = pend[k],
         SessionInv(h)'
  PROVE  BackedInv'
<1>1. owner = h /\ \A k \in Handles \ { h } : pc[k] \in { "closed", "failed" }
  BY QuietOthers
<1>2. \A k \in Handles \ { h } : pc'[k] = pc[k]
  BY DEF BackedInv, TypeOK, Goto
<1>3. \A k \in Handles \ { h } : pend[k] = {}
  BY <1>1 DEF BackedInv, SessionInv, Committing
<1>4. \A k \in Handles : SessionInv(k)'
  BY <1>1, <1>2, <1>3, QuietSession
<1>5. OneSession'
  BY <1>1, <1>2 DEF OneSession
<1> QED
  BY <1>4, <1>5 DEF BackedInv, DiskInv

\* A step that ends the running session.
LEMMA EndStep ==
  ASSUME BackedInv, TypeOK', DiskInv', NEW h \in Handles,
         pc[h] \notin { "closed", "failed" },
         NEW p \in { "closed", "failed" }, EndSession(h, p)
  PROVE  BackedInv'
<1>1. owner = h /\ \A k \in Handles \ { h } : pc[k] \in { "closed", "failed" }
  BY QuietOthers
<1>2. /\ \A k \in Handles \ { h } : pc'[k] = pc[k] /\ pend'[k] = pend[k]
      /\ pc'[h] = p /\ pend'[h] = {}
  BY DEF BackedInv, TypeOK, EndSession, Goto, ForgetSession
<1>3. \A k \in Handles \ { h } : pend[k] = {}
  BY <1>1 DEF BackedInv, SessionInv, Committing
<1>4. \A k \in Handles : SessionInv(k)'
  BY <1>1, <1>2, <1>3, QuietSession
<1>5. OneSession'
  BY <1>1, <1>2 DEF OneSession
<1> QED
  BY <1>4, <1>5 DEF BackedInv, DiskInv

LEMMA OpenBacked ==
  ASSUME BackedInv, TypeOK', NEW h \in Handles,
         \/ Open(h) \/ LoadNew(h) \/ LoadCorrupt(h) \/ LoadBest(h)
         \/ ResetFiles(h) \/ CreateCheckpoint(h)
         \/ ReplaySkip(h) \/ ReplayApply(h) \/ ReplayDone(h) \/ ReplayCorrupt(h)
         \/ OpenWorker(h) \/ OpenFails(h)
  PROVE  BackedInv'
<1>0. /\ TypeOK /\ OneSession /\ SlotParity /\ Chain /\ DiskBacked
      /\ \A k \in Handles : SessionInv(k)
  BY DEF BackedInv
<1>1. CASE Open(h)
  <2>1. /\ pc[h] = "closed" /\ owner = NoHandle /\ owner' = h
        /\ pc' = [ pc EXCEPT ![h] = "loading" ]
        /\ UNCHANGED disk /\ pend' = pend
    BY <1>1 DEF Open, Goto, session
  <2>2. \A k \in Handles : pc[k] \in { "closed", "failed" }
    BY <1>0, <2>1, BlockStoreAssumption DEF OneSession, SessionInv
  <2>3. \A k \in Handles : pend[k] = {}
    BY <1>0, <2>2 DEF SessionInv, Committing
  <2>4. pc'[h] = "loading" /\ \A k \in Handles \ { h } : pc'[k] = pc[k]
    BY <1>0, <2>1 DEF TypeOK
  <2>5. SessionInv(h)'
    BY <2>1, <2>3, <2>4 DEF SessionInv, Live
  <2>6. \A k \in Handles : SessionInv(k)'
    BY <2>1, <2>2, <2>3, <2>4, <2>5, QuietSession
  <2>7. OneSession'
    BY <2>1, <2>2, <2>4 DEF OneSession
  <2> QED
    BY <2>1, <2>6, <2>7, SameDisk DEF BackedInv, DiskInv
<1>2. CASE LoadNew(h)
  <2>1. /\ pc[h] = "loading" /\ pc'[h] = "creating" /\ Goto(h, "creating")
        /\ owner' = owner /\ pend' = pend /\ UNCHANGED disk
        /\ Existing = {} /\ pend[h] = {}
    BY <1>0, <1>2 DEF LoadNew, Goto, TypeOK, session, SessionInv, Committing
  <2>2. SessionInv(h)'
    BY <2>1 DEF SessionInv, Live, Existing, disk
  <2> QED
    BY <2>1, <2>2, SameDisk, MoveStep
<1>3. CASE LoadCorrupt(h) \/ ReplayCorrupt(h)
  <2>1. /\ pc[h] \notin { "closed", "failed" } /\ EndSession(h, "closed")
        /\ UNCHANGED disk
    BY <1>3 DEF LoadCorrupt, ReplayCorrupt, ReplayStops
  <2> QED
    BY <2>1, SameDisk, EndStep
<1>4. CASE LoadBest(h)
  <2>1. PICK i \in 0 .. 1 :
          /\ GoodSlot(i)
          /\ \A j \in 0 .. 1 : GoodSlot(j) => slot[j].gen <= slot[i].gen
          /\ bits' = [ bits EXCEPT ![h] = slot[i].bits ]
          /\ gen' = [ gen EXCEPT ![h] = slot[i].gen ]
    BY <1>4 DEF LoadBest, Candidates, GoodSlot
  <2>2. /\ pc[h] = "loading" /\ Goto(h, "replaying") /\ pc'[h] = "replaying"
        /\ pos'[h] = 0 /\ bits'[h] = slot[i].bits /\ gen'[h] = slot[i].gen
        /\ owner' = owner /\ pend' = pend /\ UNCHANGED disk
        /\ pend[h] = {}
    <3>1. /\ pc[h] = "loading" /\ Goto(h, "replaying")
          /\ pos' = [ pos EXCEPT ![h] = 0 ]
          /\ owner' = owner /\ pend' = pend /\ UNCHANGED disk
      BY <1>4 DEF LoadBest
    <3>2. pc'[h] = "replaying" /\ pos'[h] = 0
      BY <1>0, <3>1 DEF Goto, TypeOK
    <3>3. bits'[h] = slot[i].bits /\ gen'[h] = slot[i].gen
      BY <1>0, <2>1 DEF TypeOK
    <3>4. pend[h] = {}
      BY <1>0, <3>1 DEF SessionInv, Committing
    <3> QED
      BY <3>1, <3>2, <3>3, <3>4
  <2>3. KnowsSlots(h)'
    BY <1>0, <2>1, <2>2 DEF KnowsSlots, Chain, GoodSlot, disk
  <2>4. SkipsSafely(h)'
    BY <1>0, <2>1, <2>2 DEF SkipsSafely, Chain, Whole, disk
  <2>5. bits'[h] \subseteq stable' \/ written' = {}
    BY <1>0, <2>1, <2>2 DEF DiskBacked, disk
  <2>6. Len(journal') \in Nat /\ KnowsJournal(h, 0)'
    BY <1>0, <2>2 DEF TypeOK, KnowsJournal, disk
  <2>7. SessionInv(h)'
    BY <2>2, <2>3, <2>4, <2>5, <2>6 DEF SessionInv, Live
  <2> QED
    BY <2>2, <2>7, SameDisk, MoveStep
<1>5. CASE ResetFiles(h)
  <2>1. /\ pc[h] = "creating" /\ Goto(h, "initial") /\ pc'[h] = "initial"
        /\ owner' = owner /\ pend' = pend /\ slot' = slot
        /\ journal' = << >> /\ written' = {} /\ Existing = {} /\ pend[h] = {}
    BY <1>0, <1>5 DEF ResetFiles, Goto, TypeOK, session, SessionInv, Committing
  <2>2. journal' = SubSeq(journal, 1, 0) /\ 0 \in 0 .. Len(journal)
    BY <1>0, <2>1, PrefixIsWhole DEF TypeOK
  <2>3. SlotParity' /\ Chain'
    BY <1>0, <2>1, <2>2, ChainShrinks DEF TypeOK
  <2>4. DiskInv'
    BY <2>1, <2>3 DEF DiskInv, DiskBacked
  <2>5. SessionInv(h)'
    BY <2>1 DEF SessionInv, Live, Existing
  <2> QED
    BY <2>1, <2>4, <2>5, MoveStep
<1>6. CASE CreateCheckpoint(h)
  <2>1. /\ pc[h] = "initial" /\ Goto(h, "opening") /\ pc'[h] = "opening"
        /\ owner' = owner /\ pend' = pend /\ pend[h] = {}
        /\ journal = << >> /\ journal' = journal /\ written' = written /\ written = {}
        /\ slot' = [ slot EXCEPT ![1] = Good(1, {}) ]
        /\ bits'[h] = {} /\ gen'[h] = 1 /\ pos'[h] = 0
        /\ \A i \in 0 .. 1 : slot[i].st = "none"
    BY <1>0, <1>6
       DEF CreateCheckpoint, Goto, TypeOK, SessionInv, Committing, Existing
  <2>2. /\ slot'[1].st = "good" /\ slot'[1].gen = 1 /\ slot'[1].bits = {}
        /\ slot'[0].st = "none"
    BY <1>0, <2>1 DEF Good, TypeOK
  <2>3. \A i \in 0 .. 1 : GoodSlot(i)' => i = 1
    BY <2>2 DEF GoodSlot
  <2>4. Len(journal') = 0
    BY <2>1
  <2>5. DiskInv'
    BY <2>1, <2>2, <2>3, <2>4 DEF DiskInv, SlotParity, Chain, DiskBacked
  <2>6. KnowsSlots(h)' /\ KnowsJournal(h, 0)'
    BY <2>1, <2>2, <2>3 DEF KnowsSlots, KnowsJournal
  <2>7. SessionInv(h)'
    BY <2>1, <2>4, <2>6 DEF SessionInv, Live
  <2> QED
    BY <2>1, <2>5, <2>7, MoveStep
<1>7. CASE ReplaySkip(h)
  <2>0. PICK n \in Nat : n = pos[h] + 1
    BY <1>0 DEF TypeOK
  <2>1. /\ pc[h] = "replaying" /\ pc' = pc /\ owner' = owner /\ pend' = pend
        /\ bits' = bits /\ gen' = gen /\ pos'[h] = n /\ UNCHANGED disk
        /\ n \in 1 .. Len(journal) /\ Skips(h, journal[n])
        /\ KnowsSlots(h) /\ KnowsJournal(h, pos[h]) /\ SkipsSafely(h)
        /\ pos[h] \in Nat /\ pend[h] = {}
        /\ (bits[h] \subseteq stable \/ written = {})
    <3>1. SessionInv(h) /\ pc[h] = "replaying"
      BY <1>0, <1>7 DEF ReplaySkip
    <3>2. /\ KnowsSlots(h) /\ KnowsJournal(h, pos[h]) /\ SkipsSafely(h)
          /\ pend[h] = {} /\ (bits[h] \subseteq stable \/ written = {})
      BY <3>1 DEF SessionInv, Committing
    <3>3. Skips(h, journal[n]) /\ n \in 1 .. Len(journal) /\ pos[h] \in Nat
      BY <1>0, <1>7, <2>0 DEF ReplaySkip, HasNext, TypeOK
    <3>4. /\ pc' = pc /\ owner' = owner /\ pend' = pend /\ UNCHANGED disk
          /\ bits' = bits /\ gen' = gen /\ pos'[h] = n
      BY <1>0, <1>7, <2>0 DEF ReplaySkip, TypeOK
    <3> QED
      BY <3>1, <3>2, <3>3, <3>4
  <2>2. Whole(n) /\ journal[n].gen <= gen[h] /\ journal[n].blocks \subseteq bits[h]
    BY <2>1 DEF Skips, SkipsSafely, Whole
  <2>3. \A k \in 1 .. n : k \in 1 .. pos[h] \/ k = n
    BY <2>0, <2>1
  <2>4. KnowsJournal(h, n)
    BY <2>1, <2>2, <2>3 DEF KnowsJournal
  <2>5. KnowsJournal(h, n)'
    BY <2>1, <2>4 DEF KnowsJournal, Whole, disk
  <2>6. KnowsSlots(h)' /\ SkipsSafely(h)'
    BY <2>1 DEF KnowsSlots, SkipsSafely, GoodSlot, Whole, disk
  <2>7. SessionInv(h)'
    BY <2>1, <2>5, <2>6 DEF SessionInv, Live, KnowsJournal, disk
  <2>8. Goto(h, "replaying")
    BY <1>0, <2>1 DEF Goto, TypeOK
  <2> QED
    BY <2>1, <2>7, <2>8, SameDisk, MoveStep
<1>8. CASE ReplayApply(h)
  <2>0. PICK n \in Nat, r \in Record : n = pos[h] + 1 /\ r = journal[n]
    <3>1. journal \in Seq(Record) /\ pos[h] \in Nat /\ pos[h] < Len(journal)
      BY <1>0, <1>8 DEF TypeOK, ReplayApply, HasNext
    <3>2. journal[pos[h] + 1] \in Record
      BY <3>1
    <3> QED
      BY <3>1, <3>2
  <2>1. /\ pc[h] = "replaying" /\ pc' = pc /\ owner' = owner /\ pend' = pend
        /\ bits'[h] = bits[h] \cup r.blocks /\ gen'[h] = r.gen /\ pos'[h] = n
        /\ UNCHANGED disk
        /\ n \in 1 .. Len(journal) /\ r.whole /\ r.gen = gen[h] + 1
        /\ KnowsSlots(h) /\ KnowsJournal(h, pos[h])
        /\ (bits[h] \subseteq stable \/ written = {})
        /\ pos[h] \in Nat /\ gen[h] \in Nat /\ Len(journal) \in Nat
        /\ pend[h] = {}
    <3>1. SessionInv(h) /\ pc[h] = "replaying"
      BY <1>0, <1>8 DEF ReplayApply
    <3>2. /\ KnowsSlots(h) /\ KnowsJournal(h, pos[h]) /\ pend[h] = {}
          /\ (bits[h] \subseteq stable \/ written = {})
      BY <3>1 DEF SessionInv, Committing
    <3>3. Applies(h, r) /\ n <= Len(journal)
      BY <1>0, <1>8, <2>0 DEF ReplayApply, HasNext, TypeOK
    <3>4. pos[h] \in Nat /\ gen[h] \in Nat /\ Len(journal) \in Nat
      BY <1>0 DEF TypeOK
    <3>5. /\ pc' = pc /\ owner' = owner /\ pend' = pend /\ UNCHANGED disk
          /\ bits'[h] = bits[h] \cup r.blocks /\ gen'[h] = r.gen /\ pos'[h] = n
      BY <1>0, <1>8, <2>0 DEF ReplayApply, TypeOK
    <3> QED
      BY <2>0, <3>1, <3>2, <3>3, <3>4, <3>5 DEF Applies
  <2>2. \A k \in 1 .. Len(journal) : journal[k].gen \in Nat
    <3>1. \A k \in 1 .. Len(journal) : journal[k] \in Record
      BY <1>0 DEF TypeOK
    <3> QED
      BY <3>1 DEF Record
  <2>3. \A i \in 0 .. 1 : slot[i].gen \in Nat
    BY <1>0 DEF TypeOK, Slot
  <2>4. \A k \in 1 .. n : k \in 1 .. pos[h] \/ k = n
    BY <2>0, <2>1
  <2>5. KnowsJournal(h, n)'
    <3>1. ASSUME NEW k \in 1 .. n
          PROVE  Whole(k) /\ journal[k].gen <= r.gen /\ journal[k].blocks \subseteq bits'[h]
      <4>1. CASE k \in 1 .. pos[h]
        <5>1. k \in 1 .. Len(journal)
          BY <2>0, <2>1, <4>1
        <5> QED
          BY <2>1, <2>2, <4>1, <5>1 DEF KnowsJournal
      <4>2. CASE k = n
        BY <2>0, <2>1, <2>2, <4>2 DEF Whole
      <4> QED
        BY <2>4, <4>1, <4>2
    <3> QED
      BY <2>1, <3>1 DEF KnowsJournal, Whole, disk
  <2>6. KnowsSlots(h)'
    BY <2>1, <2>3 DEF KnowsSlots, GoodSlot, disk
  <2>7. SkipsSafely(h)'
    <3>1. \A k \in 1 .. Len(journal) :
            Whole(k) /\ journal[k].gen <= r.gen => journal[k].blocks \subseteq bits'[h]
      <4> TAKE k \in 1 .. Len(journal)
      <4> HAVE Whole(k) /\ journal[k].gen <= r.gen
      <4>1. CASE k \in 1 .. pos[h]
        BY <2>1, <4>1 DEF KnowsJournal
      <4>2. CASE k = n
        BY <2>0, <2>1, <4>2
      <4>3. CASE k > n
        <5>1. Whole(n)
          BY <2>0, <2>1 DEF Whole
        <5>2. journal[n].gen < journal[k].gen
          BY <1>0, <2>1, <4>3, <5>1 DEF Chain
        <5> QED
          BY <2>0, <2>1, <2>2, <5>2
      <4> QED
        BY <2>0, <2>1, <4>1, <4>2, <4>3
    <3> QED
      BY <2>1, <3>1 DEF SkipsSafely, Whole, disk
  <2>8. bits'[h] \subseteq stable' \/ written' = {}
    <3>1. CASE written = {}
      BY <2>1, <3>1 DEF disk
    <3>2. CASE written # {}
      <4>1. Claims(stable)
        BY <1>0, <3>2, DiskBackedIs
      <4>2. journal[n].blocks \subseteq stable
        BY <2>0, <2>1, <4>1 DEF Claims, Whole
      <4> QED
        BY <2>0, <2>1, <3>2, <4>2 DEF disk
    <3> QED
      BY <3>1, <3>2
  <2>9. SessionInv(h)'
    <3>1. pos'[h] <= Len(journal') /\ KnowsJournal(h, pos[h])'
      BY <2>1, <2>5 DEF disk, KnowsJournal
    <3>2. pc'[h] = "replaying" /\ pend'[h] = {}
      BY <2>1
    <3> QED
      BY <3>1, <3>2, <2>6, <2>7, <2>8 DEF SessionInv, Live
  <2>10. Goto(h, "replaying")
    BY <1>0, <2>1 DEF Goto, TypeOK
  <2> QED
    BY <2>1, <2>9, <2>10, SameDisk, MoveStep
<1>9. CASE ReplayDone(h)
  <2>1. /\ pc[h] = "replaying" /\ Goto(h, "opening") /\ pc'[h] = "opening"
        /\ owner' = owner /\ session' = session /\ UNCHANGED disk
        /\ ~ PayloadTooShort(h)
        /\ pos[h] <= Len(journal) /\ KnowsSlots(h) /\ KnowsJournal(h, pos[h])
        /\ (bits[h] \subseteq stable \/ written = {}) /\ pend[h] = {}
    BY <1>0, <1>9 DEF ReplayDone, ReplayStops, Goto, TypeOK, SessionInv, Committing
  <2>2. bits[h] \subseteq stable
    BY <2>1 DEF PayloadTooShort
  <2>3. SessionInv(h)'
    BY <2>1, <2>2
       DEF SessionInv, Live, session, disk, KnowsSlots, KnowsJournal, GoodSlot, Whole
  <2>4. pend' = pend
    BY <2>1 DEF session
  <2> QED
    BY <2>1, <2>3, <2>4, SameDisk, MoveStep
<1>10. CASE OpenWorker(h)
  <2>0. SessionInv(h) /\ pc[h] = "opening" /\ pos[h] \in Nat
    BY <1>0, <1>10 DEF OpenWorker, TypeOK
  <2>1. /\ Goto(h, "idle") /\ pc'[h] = "idle"
        /\ owner' = owner /\ session' = session
        /\ written' = written /\ stable' = stable /\ slot' = slot
        /\ pos[h] \in 0 .. Len(journal) /\ journal' = SubSeq(journal, 1, pos[h])
    BY <1>0, <1>10, <2>0 DEF OpenWorker, Goto, TypeOK
  <2>2. /\ KnowsSlots(h) /\ KnowsJournal(h, pos[h])
        /\ bits[h] \subseteq stable /\ pend[h] = {}
    BY <2>0 DEF SessionInv, Committing
  <2>3. PICK n \in Nat : n = pos[h]
    BY <2>0
  <2>4. Len(journal') = n /\ \A k \in 1 .. n : journal'[k] = journal[k]
    BY <1>0, <2>1, <2>3, PrefixType DEF TypeOK
  <2>5. /\ bits' = bits /\ gen' = gen /\ pos' = pos /\ pend' = pend
    BY <2>1 DEF session
  <2>6. KnowsJournal(h, n)'
    BY <2>2, <2>3, <2>4, <2>5 DEF KnowsJournal, Whole
  <2>7. KnowsSlots(h)'
    BY <2>1, <2>2, <2>5 DEF KnowsSlots, GoodSlot
  <2>8. SessionInv(h)'
    BY <2>1, <2>2, <2>3, <2>4, <2>5, <2>6, <2>7 DEF SessionInv, Live, KnowsJournal
  <2>9. Cut(h)
    <3>1. slot' \in SlotOutcomes(h)
      BY <2>0, <2>1 DEF SlotOutcomes
    <3>2. journal' \in JournalOutcomes(h)
      BY <1>0, <2>0, <2>1 DEF JournalOutcomes, TypeOK
    <3>3. << written, stable >> \in PayloadOutcomes(h)
      BY <2>0 DEF PayloadOutcomes
    <3> QED
      BY <1>0, <2>1, <3>1, <3>2, <3>3 DEF Cut, TypeOK
  <2> QED
    BY <2>0, <2>1, <2>5, <2>8, <2>9, CutDisk, MoveStep
<1>11. CASE OpenFails(h)
  <2>1. pc[h] \notin { "closed", "failed" } /\ EndSession(h, "closed") /\ Cut(h)
    BY <1>0, <1>11, InterruptedType DEF OpenFails, Interrupted, Cut
  <2> QED
    BY <2>1, CutDisk, EndStep
<1> QED
  BY <1>1, <1>2, <1>3, <1>4, <1>5, <1>6, <1>7, <1>8, <1>9, <1>10, <1>11

\* A handle whose worker failed closes; another tab may have the lock.
LEMMA ClosesFailed ==
  ASSUME BackedInv, TypeOK', NEW h \in Handles, pc[h] = "failed",
         EndSession(h, "closed"), UNCHANGED disk
  PROVE  BackedInv'
<1>1. /\ pc'[h] = "closed" /\ pend'[h] = {}
      /\ \A k \in Handles \ { h } :
           /\ pc'[k] = pc[k] /\ bits'[k] = bits[k] /\ gen'[k] = gen[k]
           /\ pos'[k] = pos[k] /\ pend'[k] = pend[k]
  BY DEF BackedInv, TypeOK, EndSession, Goto, ForgetSession
<1>2. \A k \in Handles \ { h } : SessionInv(k)'
  BY <1>1, SameSession DEF BackedInv
<1>3. OneSession'
  BY <1>1 DEF BackedInv, OneSession, EndSession, Release
<1> QED
  BY <1>1, <1>2, <1>3, QuietSession, SameDisk DEF BackedInv, DiskInv

\* The session invariant of a live handle, in the parts its steps establish.
LEMMA LiveSession ==
  ASSUME NEW h \in Handles, pc'[h] \in Live,
         pos'[h] = Len(journal'), KnowsSlots(h)', KnowsJournal(h, Len(journal))',
         bits'[h] \subseteq stable',
         pc'[h] \notin Committing => pend'[h] = {},
         pc'[h] \in { "batching", "flush" } => pend'[h] \subseteq written',
         pc'[h] = "append" =>
           /\ pend'[h] \subseteq bits'[h]
           /\ \A i \in 0 .. 1 : GoodSlot(i)' => slot'[i].gen < gen'[h]
           /\ \A k \in 1 .. Len(journal') : journal'[k].gen < gen'[h]
  PROVE  SessionInv(h)'
  BY DEF SessionInv, Live, GoodSlot

\* What a live handle may rely on.
LEMMA LiveFacts ==
  ASSUME BackedInv, NEW h \in Handles, pc[h] \in Live
  PROVE  /\ TypeOK /\ pc[h] \notin { "closed", "failed" }
         /\ pos[h] = Len(journal) /\ pos[h] \in Nat
         /\ KnowsSlots(h) /\ KnowsJournal(h, Len(journal))
         /\ bits[h] \subseteq stable /\ bits[h] \in SUBSET Blocks
         /\ gen[h] \in Nat /\ pend[h] \in SUBSET Blocks
         /\ stable \subseteq written
  BY DEF BackedInv, TypeOK, SessionInv, Live

\* A step of a live session that leaves the disk and the receipts alone.
LEMMA LiveMove ==
  ASSUME BackedInv, TypeOK', NEW h \in Handles, pc[h] \in Live,
         UNCHANGED << disk, owner, bits, gen, pos >>,
         NEW p \in Live \ { "append" }, Goto(h, p),
         \A k \in Handles \ { h } : pend'[k] = pend[k],
         p \notin Committing => pend'[h] = {},
         p \in { "batching", "flush" } => pend'[h] \subseteq written
  PROVE  BackedInv'
<1>1. /\ TypeOK /\ pc[h] \notin { "closed", "failed" }
      /\ pos[h] = Len(journal) /\ KnowsSlots(h) /\ KnowsJournal(h, Len(journal))
      /\ bits[h] \subseteq stable
  BY LiveFacts
<1>2. pc'[h] = p
  BY <1>1 DEF TypeOK, Goto
<1>3. KnowsSlots(h)' /\ KnowsJournal(h, Len(journal))'
  BY <1>1 DEF KnowsSlots, KnowsJournal, GoodSlot, Whole, disk
<1>4. SessionInv(h)'
  BY <1>1, <1>2, <1>3, LiveSession DEF disk
<1> QED
  BY <1>1, <1>4, SameDisk, MoveStep

LEMMA WriteBacked ==
  ASSUME BackedInv, TypeOK', NEW h \in Handles,
         \/ WriteBlocks(h) \/ TakeBlock(h) \/ StoreBlock(h) \/ EndOfBlocks(h)
         \/ BlocksFail(h) \/ FlushPayload(h) \/ AppendJournal(h)
         \/ WriteCheckpoint(h) \/ TruncateJournal(h) \/ Return(h)
         \/ CheckpointFails(h)
  PROVE  BackedInv'
<1>0. pc[h] \in Live /\ SessionInv(h) /\ TypeOK
  BY DEF WriteBlocks, TakeBlock, StoreBlock, EndOfBlocks, BlocksFail, FlushPayload,
         AppendJournal, WriteCheckpoint, TruncateJournal, Return, CheckpointFails,
         Live, BackedInv
<1>f. /\ pc[h] \notin { "closed", "failed" }
      /\ pos[h] = Len(journal) /\ pos[h] \in Nat
      /\ KnowsSlots(h) /\ KnowsJournal(h, Len(journal))
      /\ bits[h] \subseteq stable /\ bits[h] \in SUBSET Blocks
      /\ gen[h] \in Nat /\ pend[h] \in SUBSET Blocks
      /\ stable \subseteq written
  BY <1>0, LiveFacts
<1>1. CASE WriteBlocks(h)
  BY <1>0, <1>1, LiveMove DEF WriteBlocks, SessionInv, Live, Committing
<1>2. CASE TakeBlock(h)
  <2>1. PICK p \in { "compact", "store" } : Goto(h, p)
    BY <1>2 DEF TakeBlock
  <2>2. \A k \in Handles \ { h } : pend'[k] = pend[k]
    BY <1>0, <1>2 DEF TakeBlock, TypeOK
  <2> QED
    BY <1>0, <1>2, <2>1, <2>2, LiveMove DEF TakeBlock, Live, Committing
<1>3. CASE EndOfBlocks(h)
  <2>1. /\ pend[h] \subseteq written /\ UNCHANGED << disk, owner, bits, gen, pos, pend >>
        /\ Goto(h, IF pend[h] = {} THEN "return" ELSE "flush")
    BY <1>0, <1>3 DEF EndOfBlocks, SessionInv
  <2>2. CASE pend[h] = {}
    BY <1>0, <2>1, <2>2, LiveMove DEF Live
  <2>3. CASE pend[h] # {}
    BY <1>0, <2>1, <2>3, LiveMove DEF Live, Committing
  <2> QED
    BY <2>2, <2>3
<1>4. CASE BlocksFail(h)
  <2>1. pend'[h] = {} /\ \A k \in Handles \ { h } : pend'[k] = pend[k]
    BY <1>0, <1>4 DEF BlocksFail, TypeOK
  <2> QED
    BY <1>0, <1>4, <2>1, LiveMove DEF BlocksFail, Live
<1>5. CASE Return(h)
  BY <1>0, <1>5, LiveMove DEF Return, SessionInv, session, Live, Committing
<1>6. CASE StoreBlock(h)
  <2>1. PICK p \in { "flush", "batching" } : Goto(h, p)
    BY <1>6 DEF StoreBlock
  <2>2. /\ pc[h] = "store" /\ written' = written \cup pend[h]
        /\ UNCHANGED << stable, slot, journal, owner, bits, gen, pos, pend >>
        /\ pc'[h] = p
    BY <1>0, <1>6, <2>1 DEF StoreBlock, session, TypeOK, Goto
  <2>3. Cut(h)
    <3>1. slot' \in SlotOutcomes(h) /\ journal' \in JournalOutcomes(h)
      BY <2>2 DEF SlotOutcomes, JournalOutcomes
    <3>2. << written \cup pend[h], stable >> \in PayloadOutcomes(h)
      BY <2>2 DEF PayloadOutcomes
    <3> QED
      BY <1>f, <2>2, <3>1, <3>2 DEF Cut
  <2>4. KnowsSlots(h)' /\ KnowsJournal(h, Len(journal))'
    BY <1>f, <2>2 DEF KnowsSlots, KnowsJournal, GoodSlot, Whole
  <2>5. SessionInv(h)'
    BY <1>f, <2>2, <2>4, LiveSession DEF Live, Committing
  <2> QED
    BY <1>f, <2>1, <2>2, <2>3, <2>5, CutDisk, MoveStep
<1>7. CASE FlushPayload(h)
  <2>1. /\ pc[h] = "flush" /\ stable' = written /\ Goto(h, "append") /\ pc'[h] = "append"
        /\ bits'[h] = bits[h] \cup pend[h] /\ gen'[h] = gen[h] + 1
        /\ UNCHANGED << written, slot, journal, owner, pos, pend >>
        /\ pend[h] \subseteq written
    BY <1>0, <1>7 DEF FlushPayload, TypeOK, Goto, SessionInv
  <2>2. Cut(h)
    <3>1. slot' \in SlotOutcomes(h) /\ journal' \in JournalOutcomes(h)
      BY <2>1 DEF SlotOutcomes, JournalOutcomes
    <3>2. << written, written >> \in PayloadOutcomes(h)
      BY <2>1 DEF PayloadOutcomes
    <3> QED
      BY <2>1, <3>1, <3>2 DEF Cut
  <2>3. \A i \in 0 .. 1 : slot[i].gen \in Nat
    BY <1>0 DEF TypeOK, Slot
  <2>4. \A k \in 1 .. Len(journal) : journal[k].gen \in Nat
    <3>1. \A k \in 1 .. Len(journal) : journal[k] \in Record
      BY <1>0 DEF TypeOK
    <3> QED
      BY <3>1 DEF Record
  <2>5. /\ KnowsSlots(h)'
        /\ \A i \in 0 .. 1 : GoodSlot(i)' => slot'[i].gen < gen'[h]
    BY <1>f, <2>1, <2>3 DEF KnowsSlots, GoodSlot
  <2>6. KnowsJournal(h, Len(journal))'
    BY <1>f, <2>1, <2>4 DEF KnowsJournal, Whole
  <2>7. \A k \in 1 .. Len(journal') : journal'[k].gen < gen'[h]
    BY <1>f, <2>1, <2>4 DEF KnowsJournal
  <2>8. SessionInv(h)'
    BY <1>f, <2>1, <2>5, <2>6, <2>7, LiveSession DEF Live, Committing
  <2> QED
    BY <1>f, <2>1, <2>2, <2>8, CutDisk, MoveStep
<1>8. CASE AppendJournal(h)
  <2>1. PICK p \in { "compact", "return", "batching" } : Goto(h, p)
    BY <1>8 DEF AppendJournal, AfterCommit
  <2>2. /\ pc[h] = "append" /\ pc'[h] = p /\ pos'[h] = pos[h] + 1 /\ pend'[h] = {}
        /\ \A k \in Handles \ { h } : pend'[k] = pend[k]
        /\ UNCHANGED << written, stable, slot, owner, bits, gen >>
        /\ pend[h] \subseteq bits[h]
        /\ \A k \in 1 .. Len(journal) : journal[k].gen < gen[h]
    BY <1>0, <1>8, <2>1 DEF AppendJournal, TypeOK, Goto, SessionInv
  <2>3. PICK r \in Record : /\ r = [ gen |-> gen[h], blocks |-> pend[h], whole |-> TRUE ]
                            /\ journal' = Append(journal, r)
    BY <1>f, <1>8 DEF AppendJournal, Record
  <2>4. PICK n \in Nat : n = Len(journal)
    BY <1>0 DEF TypeOK
  <2>5. /\ Len(journal') = n + 1 /\ journal'[n + 1] = r
        /\ \A k \in 1 .. n : journal'[k] = journal[k]
    BY <1>0, <2>3, <2>4 DEF TypeOK
  <2>6. Cut(h)
    <3>1. slot' \in SlotOutcomes(h) /\ journal' \in JournalOutcomes(h)
      BY <2>2, <2>3 DEF SlotOutcomes, JournalOutcomes
    <3>2. << written, stable >> \in PayloadOutcomes(h)
      BY <2>2 DEF PayloadOutcomes
    <3> QED
      BY <1>f, <2>2, <3>1, <3>2 DEF Cut
  <2>7. KnowsSlots(h)'
    BY <1>f, <2>2 DEF KnowsSlots, GoodSlot
  <2>8. KnowsJournal(h, n + 1)'
    <3>1. ASSUME NEW k \in 1 .. n + 1
          PROVE  /\ journal'[k].whole /\ journal'[k].gen <= gen[h]
                 /\ journal'[k].blocks \subseteq bits[h]
      <4>1. CASE k = n + 1
        BY <1>f, <2>2, <2>3, <2>5, <4>1
      <4>2. CASE k # n + 1
        <5>1. k \in 1 .. n
          BY <2>4, <4>2
        <5> QED
          BY <1>f, <2>4, <2>5, <5>1 DEF KnowsJournal, Whole
      <4> QED
        BY <4>1, <4>2
    <3> QED
      BY <2>2, <3>1 DEF KnowsJournal, Whole
  <2>9. SessionInv(h)'
    <3>1. KnowsJournal(h, Len(journal))'
      BY <2>5, <2>8 DEF KnowsJournal
    <3>2. pos'[h] = Len(journal') /\ pc'[h] \in Live /\ pc'[h] # "append"
      BY <1>f, <2>2, <2>4, <2>5 DEF Live
    <3> QED
      BY <1>f, <2>2, <2>7, <3>1, <3>2, LiveSession
  <2> QED
    BY <1>f, <2>1, <2>2, <2>6, <2>9, CutDisk, MoveStep
<1>9. CASE WriteCheckpoint(h)
  <2>1. /\ pc[h] = "compact" /\ Goto(h, "truncate") /\ pc'[h] = "truncate"
        /\ slot' = [ slot EXCEPT ![gen[h] % 2] = Good(gen[h], bits[h]) ]
        /\ UNCHANGED << written, stable, journal, owner, bits, gen, pos, pend >>
    BY <1>0, <1>9 DEF WriteCheckpoint, session, TypeOK, Goto
  <2>2. slot' \in SlotOutcomes(h)
    BY <2>1 DEF SlotOutcomes, SlotReplaced
  <2>3. Cut(h)
    <3>1. journal' \in JournalOutcomes(h)
      BY <2>1 DEF JournalOutcomes
    <3>2. << written, stable >> \in PayloadOutcomes(h)
      BY <2>1 DEF PayloadOutcomes
    <3> QED
      BY <1>f, <2>1, <2>2, <3>1, <3>2 DEF Cut
  <2>4. KnowsSlots(h)' /\ KnowsJournal(h, Len(journal))'
    <3>1. \A i \in 0 .. 1 : slot'[i] = slot[i] \/ slot'[i] = Good(gen[h], bits[h])
      BY <1>0, <2>1 DEF TypeOK
    <3>2. KnowsSlots(h)'
      BY <1>f, <2>1, <3>1 DEF KnowsSlots, GoodSlot, Good
    <3> QED
      BY <1>f, <2>1, <3>2 DEF KnowsJournal, Whole
  <2>5. SessionInv(h)'
    BY <1>f, <2>1, <2>4, LiveSession DEF Live, Committing
  <2> QED
    BY <1>f, <2>1, <2>3, <2>5, CutDisk, MoveStep
<1>10. CASE TruncateJournal(h)
  <2>1. PICK p \in { "store", "return", "batching" } : Goto(h, p)
    BY <1>10 DEF TruncateJournal, AfterCommit
  <2>2. /\ pc[h] = "truncate" /\ pc'[h] = p /\ pos'[h] = 0 /\ journal' = << >>
        /\ UNCHANGED << written, stable, slot, owner, bits, gen, pend >>
        /\ p # "store" => pend[h] = {}
    BY <1>0, <1>10, <2>1 DEF TruncateJournal, AfterCommit, TypeOK, Goto
  <2>3. Cut(h)
    <3>1. slot' \in SlotOutcomes(h) /\ journal' \in JournalOutcomes(h)
      BY <2>2 DEF SlotOutcomes, JournalOutcomes
    <3>2. << written, stable >> \in PayloadOutcomes(h)
      BY <2>2 DEF PayloadOutcomes
    <3> QED
      BY <1>f, <2>2, <3>1, <3>2 DEF Cut
  <2>4. KnowsSlots(h)' /\ KnowsJournal(h, Len(journal))' /\ Len(journal') = 0
    BY <1>f, <2>2 DEF KnowsSlots, KnowsJournal, GoodSlot
  <2>5. SessionInv(h)'
    BY <1>f, <2>2, <2>4, LiveSession DEF Live, Committing
  <2> QED
    BY <1>f, <2>1, <2>2, <2>3, <2>5, CutDisk, MoveStep
<1>11. CASE CheckpointFails(h)
  <2>1. /\ pc[h] = "compact" /\ Goto(h, "terminal") /\ pc'[h] = "terminal"
        /\ slot' \in SlotOutcomes(h) /\ pend'[h] = {}
        /\ \A k \in Handles \ { h } : pend'[k] = pend[k]
        /\ UNCHANGED << written, stable, journal, owner, bits, gen, pos >>
    BY <1>0, <1>11 DEF CheckpointFails, TypeOK, Goto
  <2>2. Cut(h)
    <3>1. journal' \in JournalOutcomes(h)
      BY <2>1 DEF JournalOutcomes
    <3>2. << written, stable >> \in PayloadOutcomes(h)
      BY <2>1 DEF PayloadOutcomes
    <3> QED
      BY <1>f, <2>1, <3>1, <3>2 DEF Cut
  <2>3. KnowsSlots(h)' /\ KnowsJournal(h, Len(journal))'
    <3>0. slot' \in SlotReplaced(gen[h] % 2, gen[h], bits[h])
      BY <2>1 DEF SlotOutcomes
    <3>1. \A i \in 0 .. 1 : \/ slot'[i] = slot[i]
                            \/ slot'[i] = Good(gen[h], bits[h])
                            \/ slot'[i] = Blank
      BY <1>0, <3>0 DEF TypeOK, SlotReplaced
    <3>2. KnowsSlots(h)'
      BY <1>f, <2>1, <3>1 DEF KnowsSlots, GoodSlot, Good, Blank
    <3> QED
      BY <1>f, <2>1, <3>2 DEF KnowsJournal, Whole
  <2>4. SessionInv(h)'
    BY <1>f, <2>1, <2>3, LiveSession DEF Live, Committing
  <2> QED
    BY <1>f, <2>1, <2>2, <2>4, CutDisk, MoveStep
<1> QED
  BY <1>1, <1>2, <1>3, <1>4, <1>5, <1>6, <1>7, <1>8, <1>9, <1>10, <1>11

\* A session with nothing open: its memory may be dropped at any time.
LEMMA QuietStep ==
  ASSUME BackedInv, TypeOK', DiskInv', OneSession',
         \A k \in Handles : pc'[k] \in { "closed", "failed", "unlinked" } /\ pend'[k] = {}
  PROVE  BackedInv'
  BY QuietSession DEF BackedInv, DiskInv

\* Crashes, failures, close and removal.
LEMMA EndBacked ==
  ASSUME BackedInv, TypeOK',
         \/ PowerLoss \/ Removal
         \/ \E h \in Handles : WorkerFails(h) \/ TabDies(h) \/ Close(h)
  PROVE  BackedInv'
<1>0. /\ TypeOK /\ OneSession /\ SlotParity /\ Chain /\ DiskBacked
      /\ \A k \in Handles : SessionInv(k)
  BY DEF BackedInv
<1>1. ASSUME NEW h \in Handles, WorkerFails(h)
      PROVE  BackedInv'
  <2>1. pc[h] \notin { "closed", "failed" } /\ EndSession(h, "failed") /\ Cut(h)
    BY <1>0, <1>1, InterruptedType DEF WorkerFails, WorkerPhases, Interrupted, Cut
  <2> QED
    BY <2>1, CutDisk, EndStep
<1>2. ASSUME NEW h \in Handles, TabDies(h)
      PROVE  BackedInv'
  <2>1. EndSession(h, "closed") /\ Cut(h)
    BY <1>0, <1>2, InterruptedType DEF TabDies, Interrupted, Cut
  <2>2. CASE pc[h] # "failed"
    BY <1>2, <2>1, <2>2, CutDisk, EndStep DEF TabDies
  <2>3. CASE pc[h] = "failed"
    <3>1. UNCHANGED disk
      BY <1>2, <2>3 DEF TabDies, Interrupted, SlotOutcomes, JournalOutcomes,
                        PayloadOutcomes, disk
    <3> QED
      BY <1>0, <2>1, <2>3, <3>1, SameDisk, ClosesFailed
  <2> QED
    BY <2>2, <2>3
<1>3. ASSUME NEW h \in Handles, Close(h)
      PROVE  BackedInv'
  <2>1. EndSession(h, "closed") /\ UNCHANGED disk
    BY <1>3 DEF Close
  <2>2. CASE pc[h] # "failed"
    BY <1>3, <2>1, <2>2, SameDisk, EndStep DEF Close
  <2>3. CASE pc[h] = "failed"
    BY <2>1, <2>3, ClosesFailed
  <2> QED
    BY <2>2, <2>3
<1>4. CASE PowerLoss
  <2>1. PICK h \in Handles : Cut(h)
    <3>1. PICK h \in Handles :
            /\ slot' \in SlotOutcomes(h)
            /\ journal' \in JournalOutcomes(h)
            /\ \E out \in PayloadOutcomes(h) :
                 /\ written' \in { W \in SUBSET out[1] : out[2] \subseteq W }
                 /\ stable' = written'
      BY <1>4 DEF PowerLoss
    <3> QED
      BY <3>1 DEF Cut
  <2>2. \A k \in Handles : pc'[k] = "closed" /\ pend'[k] = {}
    BY <1>4 DEF PowerLoss
  <2> QED
    BY <2>1, <2>2, CutDisk, QuietStep DEF OneSession
<1>5. ASSUME NEW h \in Handles, Delete(h)
      PROVE  BackedInv'
  <2>1. /\ pc[h] \notin { "closed", "failed" } /\ EndSession(h, "closed")
        /\ Remove(Files)
    BY <1>5 DEF Delete
  <2> QED
    BY <2>1, RemoveDisk, EndStep
<1>6. ASSUME NEW h \in Handles, DeleteFails(h)
      PROVE  BackedInv'
  <2>1. /\ pc[h] \notin { "closed", "failed" } /\ Goto(h, "unlinked") /\ owner' = owner
        /\ pc'[h] = "unlinked" /\ pend'[h] = {}
        /\ \A k \in Handles \ { h } : pend'[k] = pend[k]
    BY <1>0, <1>6 DEF DeleteFails, Goto, ForgetSession, TypeOK
  <2>2. DiskInv'
    BY <1>6, RemoveDisk DEF DeleteFails
  <2>3. SessionInv(h)'
    BY <2>1, QuietSession
  <2> QED
    BY <2>1, <2>2, <2>3, MoveStep
<1>7. CASE Discard
  <2>1. owner = NoHandle /\ UNCHANGED << owner, pc, session >> /\ DiskInv'
    BY <1>7, RemoveDisk DEF Discard
  <2>2. \A k \in Handles : pc[k] \in { "closed", "failed" }
    BY <1>0, <2>1, BlockStoreAssumption DEF OneSession, SessionInv
  <2>3. \A k \in Handles : pend[k] = {}
    BY <1>0, <2>2 DEF SessionInv, Committing
  <2> QED
    BY <1>0, <2>1, <2>2, <2>3, QuietStep DEF OneSession, session
<1> QED
  BY <1>1, <1>2, <1>3, <1>4, <1>5, <1>6, <1>7 DEF Removal

LEMMA BackedInit == Init => BackedInv
<1> SUFFICES ASSUME Init PROVE BackedInv
  OBVIOUS
<1>1. \A i \in 0 .. 1 : ~ GoodSlot(i)
  BY DEF Init, GoodSlot, NoFile
<1>2. Len(journal) = 0 /\ written = {}
  BY DEF Init
<1>3. SlotParity /\ Chain /\ DiskBacked
  BY <1>1, <1>2 DEF SlotParity, Chain, DiskBacked
<1>4. OneSession /\ \A h \in Handles : SessionInv(h)
  BY DEF Init, OneSession, SessionInv, Live
<1> QED
  BY <1>3, <1>4, TypeInit DEF BackedInv

LEMMA BackedNext == BackedInv /\ [Next]_vars => BackedInv'
<1> SUFFICES ASSUME BackedInv, [Next]_vars PROVE BackedInv'
  OBVIOUS
<1>1. TypeOK'
  BY TypeNext DEF BackedInv
<1>2. CASE UNCHANGED vars
  <2>1. /\ UNCHANGED disk /\ pc' = pc /\ owner' = owner /\ bits' = bits
        /\ gen' = gen /\ pos' = pos /\ pend' = pend
    BY <1>2 DEF vars, session
  <2>2. \A k \in Handles : SessionInv(k)'
    BY <2>1, SameSession DEF BackedInv
  <2>3. OneSession'
    BY <2>1 DEF BackedInv, OneSession
  <2> QED
    BY <1>1, <2>1, <2>2, <2>3, SameDisk DEF BackedInv, DiskInv
<1>3. CASE PowerLoss \/ Removal
  BY <1>1, <1>3, EndBacked
<1>4. ASSUME NEW h \in Handles, SessionStep(h)
      PROVE  BackedInv'
  BY <1>1, <1>4, OpenBacked, WriteBacked, EndBacked DEF SessionStep
<1> QED
  BY <1>2, <1>3, <1>4 DEF Next, StoreStep

THEOREM AlwaysBacked == Spec => []BackedInv
<1>1. Init => BackedInv
  BY BackedInit
<1>2. BackedInv /\ [Next]_vars => BackedInv'
  BY BackedNext
<1> QED
  BY <1>1, <1>2, PTL DEF Spec

\* A crash can never mark unwritten data as received: for any number of tabs,
\* blocks and commits, whatever fails, a receipt shown by a handle is flushed.
THEOREM ReceiptsAreBacked == Spec => []ReceiptsBacked
<1>1. BackedInv => ReceiptsBacked
  BY DEF BackedInv, SessionInv, ReceiptsBacked
<1> QED
  BY <1>1, AlwaysBacked, PTL

\* The Web Lock admits one session to the store's files.
THEOREM OneSessionAtATime == Spec => []OneSession
<1>1. BackedInv => OneSession
  BY DEF BackedInv
<1> QED
  BY <1>1, AlwaysBacked, PTL

\* The worker's append position check can never trip.
THEOREM JournalInPosition == Spec => []JournalPosition
<1>1. BackedInv => JournalPosition
  BY DEF BackedInv, SessionInv, JournalPosition
<1> QED
  BY <1>1, AlwaysBacked, PTL

(* acquireStoreLock and its releases exclude every second session, and all  *)
(* states in which they do are well typed.                                  *)
THEOREM SessionsExcludeEachOther == Spec => []SessionsExclude
  BY TypeCorrect, OneSessionAtATime, PTL DEF SessionsExclude
-----------------------------------------------------------------------------
(* What callers were told survives: the disk.                              *)

\* What the files of a store are known to be, in terms of naturals and records.
LEMMA DiskTypes ==
  ASSUME TypeOK
  PROVE  /\ Len(journal) \in Nat
         /\ \A k \in 1 .. Len(journal) :
              /\ journal[k] \in Record /\ journal[k].gen \in Nat
              /\ journal[k].blocks \in SUBSET Blocks /\ journal[k].whole \in BOOLEAN
         /\ \A i \in 0 .. 1 : slot[i].gen \in Nat /\ slot[i].bits \in SUBSET Blocks
         /\ journal = << >> <=> Len(journal) = 0
         /\ CompactAt \in Nat \ {0}
<1>1. Len(journal) \in Nat /\ (journal = << >> <=> Len(journal) = 0)
  BY DEF TypeOK
<1>2. \A k \in 1 .. Len(journal) : journal[k] \in Record
  BY DEF TypeOK
<1>3. \A i \in 0 .. 1 : slot[i] \in Slot
  BY DEF TypeOK
<1> QED
  BY <1>1, <1>2, <1>3, BlockStoreAssumption DEF Record, Slot

\* Removing checkpoints and emptying the journal keep it linear.
LEMMA LinearShrinks ==
  ASSUME TypeOK, JournalLinear,
         \A i \in 0 .. 1 : GoodSlot(i)' => GoodSlot(i) /\ slot'[i] = slot[i],
         journal' = journal \/ journal' = << >>
  PROVE  JournalLinear'
<1>1. CASE journal' = << >>
  <2>1. Len(journal') = 0
    BY <1>1
  <2> QED
    BY <1>1, <2>1 DEF JournalLinear
<1>2. CASE journal' = journal
  BY <1>2 DEF JournalLinear, Whole
<1> QED
  BY <1>1, <1>2

\* Cutting the journal behind a record that no checkpoint is ahead of, too.
LEMMA LinearCut ==
  ASSUME TypeOK, JournalLinear, slot' = slot,
         NEW n \in 0 .. Len(journal), journal' = SubSeq(journal, 1, n),
         n > 0 => Whole(n) /\ \A i \in 0 .. 1 : GoodSlot(i) => slot[i].gen <= journal[n].gen
  PROVE  JournalLinear'
<1>1. /\ Len(journal') = n
      /\ \A k \in 1 .. n : journal'[k] = journal[k]
      /\ Len(journal) \in Nat /\ 1 .. n \subseteq 1 .. Len(journal)
  BY PrefixType DEF TypeOK
<1>2. \A k \in 1 .. n : Whole(k)' <=> Whole(k)
  BY <1>1 DEF Whole
<1>3. \A i \in 0 .. 1 : GoodSlot(i)' <=> GoodSlot(i)
  BY DEF GoodSlot
<1>4. \A k \in 1 .. n : k < n =>
        k + 1 \in 1 .. n /\ Whole(k)' /\ journal'[k + 1].gen = journal'[k].gen + 1
  BY <1>1, <1>2 DEF JournalLinear
<1>5. \A k, m \in 1 .. n : k < m => journal'[k].blocks \cap journal'[m].blocks = {}
  BY <1>1 DEF JournalLinear
<1>6. \A i \in 0 .. 1 : \A k \in 1 .. n :
        GoodSlot(i)' /\ slot'[i].gen < journal'[k].gen
          => slot'[i].bits \cap journal'[k].blocks = {}
  BY <1>1, <1>3 DEF JournalLinear
<1>7. \A i \in 0 .. 1 : GoodSlot(i)' /\ n > 0 => Whole(n)' /\ slot'[i].gen <= journal'[n].gen
  BY <1>1, <1>2, <1>3
<1>8. journal' # << >> => n > 0
  BY <1>1
<1> QED
  BY <1>1, <1>4, <1>5, <1>6, <1>7, <1>8 DEF JournalLinear

\* The record of a commit reaches the journal, whole or torn.
Appends(h, w) ==
  journal' = Append(journal, [ gen |-> gen[h], blocks |-> pend[h], whole |-> w ])

\* A record of the next generation with new blocks continues the journal.
LEMMA LinearAppend ==
  ASSUME TypeOK, JournalLinear, NEW h \in Handles,
         \A k \in 1 .. Len(journal) : Whole(k),
         journal # << >> => journal[Len(journal)].gen = gen[h] - 1,
         \A i \in 0 .. 1 : GoodSlot(i) =>
           slot[i].gen < gen[h] /\ slot[i].bits \cap pend[h] = {},
         \A k \in 1 .. Len(journal) : journal[k].blocks \cap pend[h] = {},
         slot' = slot,
         NEW w \in BOOLEAN,
         Appends(h, w)
  PROVE  JournalLinear'
<1> DEFINE n == Len(journal)
           r == [ gen |-> gen[h], blocks |-> pend[h], whole |-> w ]
<1>0. /\ n \in Nat /\ gen[h] \in Nat /\ pend[h] \in SUBSET Blocks
      /\ \A k \in 1 .. n : journal[k].gen \in Nat
      /\ \A i \in 0 .. 1 : slot[i].gen \in Nat
      /\ journal = << >> <=> n = 0
  BY DiskTypes DEF TypeOK
<1>1. r \in Record /\ r.gen = gen[h] /\ r.blocks = pend[h] /\ r.whole = w
  BY <1>0, RecordType
<1> HIDE DEF r
<1>2. /\ Len(journal') = n + 1 /\ journal'[n + 1] = r
      /\ \A k \in 1 .. n : journal'[k] = journal[k]
  BY <1>1 DEF TypeOK, Appends, r
<1>3. /\ \A i \in 0 .. 1 : GoodSlot(i)' <=> GoodSlot(i)
      /\ \A k \in 1 .. n : Whole(k)' <=> Whole(k)
      /\ \A k \in 1 .. n + 1 : k \in 1 .. n \/ k = n + 1
      /\ journal' # << >>
  <2>1. \A i \in 0 .. 1 : GoodSlot(i)' <=> GoodSlot(i)
    BY DEF GoodSlot
  <2>2. \A k \in 1 .. n : Whole(k)' <=> Whole(k)
    BY <1>2 DEF Whole
  <2>3. /\ \A k \in 1 .. n + 1 : k \in 1 .. n \/ k = n + 1
        /\ journal' # << >>
    BY <1>0, <1>2
  <2> QED
    BY <2>1, <2>2, <2>3
<1> HIDE DEF n
<1>4. \A k \in 1 .. n + 1 : k < n + 1 =>
        Whole(k)' /\ journal'[k + 1].gen = journal'[k].gen + 1
  <2> TAKE k \in 1 .. n + 1
  <2> HAVE k < n + 1
  <2>1. k \in 1 .. n
    BY <1>3
  <2>2. CASE k = n
    <3>1. Whole(k) /\ Whole(k)' /\ journal[n].gen = gen[h] - 1 /\ journal[n].gen \in Nat
      BY <1>0, <1>3, <2>1, <2>2 DEF n
    <3>2. journal'[k] = journal[n] /\ journal'[k + 1] = r
      BY <1>2, <2>1, <2>2
    <3> QED
      BY <1>0, <1>1, <3>1, <3>2
  <2>3. CASE k < n
    <3>1. k + 1 \in 1 .. n
      BY <1>0, <2>1, <2>3
    <3> QED
      BY <1>2, <1>3, <2>1, <2>3, <3>1 DEF JournalLinear, n
  <2> QED
    BY <1>0, <2>1, <2>2, <2>3
<1>5. \A k, m \in 1 .. n + 1 : k < m => journal'[k].blocks \cap journal'[m].blocks = {}
  <2> TAKE k, m \in 1 .. n + 1
  <2> HAVE k < m
  <2>1. k \in 1 .. n
    BY <1>0, <1>3
  <2>2. CASE m \in 1 .. n
    BY <1>2, <2>1, <2>2 DEF JournalLinear, n
  <2>3. CASE m = n + 1
    BY <1>1, <1>2, <2>1, <2>3 DEF n
  <2> QED
    BY <1>3, <2>2, <2>3
<1>6. \A i \in 0 .. 1 : \A k \in 1 .. n + 1 :
        GoodSlot(i)' /\ slot'[i].gen < journal'[k].gen
          => slot'[i].bits \cap journal'[k].blocks = {}
  <2> TAKE i \in 0 .. 1
  <2> TAKE k \in 1 .. n + 1
  <2>1. CASE k \in 1 .. n
    BY <1>2, <1>3, <2>1 DEF JournalLinear, n
  <2>2. CASE k = n + 1
    BY <1>1, <1>2, <1>3, <2>2
  <2> QED
    BY <1>3, <2>1, <2>2
<1>7. \A i \in 0 .. 1 : GoodSlot(i)' => slot'[i].gen < journal'[n + 1].gen
  BY <1>1, <1>2, <1>3
<1>8. \A i \in 0 .. 1 : GoodSlot(i)' /\ journal' # << >> =>
        IF journal'[Len(journal')].whole
        THEN slot'[i].gen <= journal'[Len(journal')].gen
        ELSE slot'[i].gen < journal'[Len(journal')].gen
  <2> TAKE i \in 0 .. 1
  <2> HAVE GoodSlot(i)' /\ journal' # << >>
  <2>1. slot'[i].gen < gen[h] /\ slot'[i].gen \in Nat /\ gen[h] \in Nat
    BY <1>0, <1>3
  <2>2. journal'[Len(journal')].gen = gen[h]
    BY <1>1, <1>2
  <2> QED
    BY <2>1, <2>2
<1>9. \A k \in 1 .. Len(journal') : k < Len(journal') =>
        Whole(k)' /\ journal'[k + 1].gen = journal'[k].gen + 1
  BY <1>2, <1>4
<1> QED
  BY <1>2, <1>5, <1>6, <1>8, <1>9 DEF JournalLinear, Whole

\* The checkpoint of all that the journal leads to.
LEMMA LinearCheckpoint ==
  ASSUME TypeOK, JournalLinear, NEW h \in Handles,
         \A k \in 1 .. Len(journal) : Whole(k) /\ journal[k].gen <= gen[h],
         journal # << >> => journal[Len(journal)].gen = gen[h],
         slot' = [ slot EXCEPT ![gen[h] % 2] = Good(gen[h], bits[h]) ],
         journal' = journal
  PROVE  JournalLinear'
<1>1. /\ gen[h] \in Nat /\ gen[h] % 2 \in 0 .. 1
      /\ \A k \in 1 .. Len(journal) : journal[k].gen \in Nat
      /\ Len(journal) \in Nat /\ (journal = << >> <=> Len(journal) = 0)
  BY DiskTypes, ParityType DEF TypeOK
<1>2. \A i \in 0 .. 1 :
        \/ slot'[i] = slot[i]
        \/ slot'[i].gen = gen[h] /\ slot'[i].bits = bits[h]
  BY <1>1 DEF TypeOK, Good
<1>3. \A k \in 1 .. Len(journal) : Whole(k)'
  BY DEF Whole
<1>4. \A i \in 0 .. 1 : \A k \in 1 .. Len(journal) :
        GoodSlot(i)' /\ slot'[i].gen < journal[k].gen
          => slot'[i].bits \cap journal[k].blocks = {}
  BY <1>1, <1>2 DEF JournalLinear, GoodSlot
<1>5. journal # << >> => Len(journal) \in 1 .. Len(journal)
  BY <1>1
<1>6. \A i \in 0 .. 1 : GoodSlot(i)' /\ journal # << >> =>
        slot'[i].gen <= journal[Len(journal)].gen
  BY <1>1, <1>2, <1>5 DEF JournalLinear, GoodSlot
<1> QED
  BY <1>3, <1>4, <1>5, <1>6 DEF JournalLinear

\* What the invariant says of the session that a step is about.
LEMMA LosslessFacts ==
  ASSUME LosslessInv, NEW h \in Handles
  PROVE  /\ BackedInv /\ TypeOK /\ SessionInv(h) /\ HistoryInv(h)
         /\ JournalLinear /\ ToldHeld /\ Len(journal) <= CompactAt
  BY DEF LosslessInv, BackedInv

\* A session that has read the files knows the records it has read.
LEMMA KnownRecords ==
  ASSUME LosslessInv, NEW h \in Handles, NEW n \in 0 .. Len(journal), KnowsJournal(h, n),
         KnowsSlots(h), NEW i \in 0 .. 1, Newest(i), Reached(gen[h], i, n)
  PROVE  /\ \A k \in 1 .. n : Whole(k) /\ journal[k].gen <= gen[h]
         /\ n > 0 => Whole(n) /\ journal[n].gen = gen[h]
         /\ \A j \in 0 .. 1 : GoodSlot(j) => slot[j].gen <= gen[h]
  BY DiskTypes DEF LosslessInv, BackedInv, KnowsJournal, KnowsSlots, Reached

\* A step cut short leaves the journal linear and within its bound.
LEMMA CutLinear ==
  ASSUME LosslessInv, NEW h \in Handles,
         slot' \in SlotOutcomes(h), journal' \in JournalOutcomes(h)
  PROVE  JournalLinear' /\ Len(journal') <= CompactAt
<1>0. /\ BackedInv /\ TypeOK /\ SessionInv(h) /\ HistoryInv(h)
      /\ JournalLinear /\ Len(journal) <= CompactAt
      /\ Len(journal) \in Nat /\ CompactAt \in Nat \ {0} /\ gen[h] \in Nat
  BY LosslessFacts, DiskTypes DEF TypeOK
<1>1. ASSUME slot' = slot \/ \E i \in 0 .. 1 : slot' = [ slot EXCEPT ![i] = Blank ],
             journal' = journal \/ journal' = << >>
      PROVE  JournalLinear' /\ Len(journal') <= CompactAt
  <2>1. \A i \in 0 .. 1 : GoodSlot(i)' => GoodSlot(i) /\ slot'[i] = slot[i]
    BY <1>0, <1>1 DEF GoodSlot, Blank, TypeOK
  <2>2. Len(journal') <= CompactAt
    BY <1>0, <1>1
  <2> QED
    BY <1>0, <1>1, <2>1, <2>2, LinearShrinks
<1>2. CASE pc[h] = "initial"
  <2>1. journal' = journal /\ journal = << >> /\ Len(journal) = 0
    BY <1>0, <1>2 DEF JournalOutcomes, SessionInv
  <2> QED
    BY <1>0, <2>1 DEF JournalLinear
<1>3. CASE pc[h] = "compact"
  <2>1. /\ slot' \in SlotReplaced(gen[h] % 2, gen[h], bits[h]) /\ journal' = journal
        /\ gen[h] % 2 \in 0 .. 1
        /\ KnowsSlots(h) /\ KnowsJournal(h, Len(journal))
    BY <1>0, <1>3, ParityType DEF SlotOutcomes, JournalOutcomes, SessionInv, Live
  <2>2. PICK i \in 0 .. 1 : Newest(i) /\ Reached(gen[h], i, Len(journal))
    BY <1>0, <1>3 DEF HistoryInv, Live, RecoveredFrom
  <2>3. /\ \A k \in 1 .. Len(journal) : Whole(k) /\ journal[k].gen <= gen[h]
        /\ journal # << >> => journal[Len(journal)].gen = gen[h]
    BY <1>0, <2>1, <2>2, KnownRecords, DiskTypes
  <2>4. CASE slot' = [ slot EXCEPT ![gen[h] % 2] = Good(gen[h], bits[h]) ]
    BY <1>0, <2>1, <2>3, <2>4, LinearCheckpoint
  <2>5. CASE slot' # [ slot EXCEPT ![gen[h] % 2] = Good(gen[h], bits[h]) ]
    BY <2>1, <2>5, <1>1 DEF SlotReplaced
  <2> QED
    BY <2>4, <2>5
<1>4. CASE pc[h] = "append"
  <2>1. /\ slot' = slot
        /\ journal' = journal \/ \E w \in BOOLEAN : Appends(h, w)
    BY <1>4 DEF SlotOutcomes, JournalOutcomes, Appends
  <2>2. /\ \A i \in 0 .. 1 : GoodSlot(i) => slot[i].gen < gen[h]
        /\ KnowsJournal(h, Len(journal))
    BY <1>0, <1>4 DEF SessionInv, Live
  <2>3. PICK i \in 0 .. 1 : Reached(gen[h] - 1, i, Len(journal))
    BY <1>0, <1>4 DEF HistoryInv, AppendingTo
  <2>4. /\ \A j \in 0 .. 1 : GoodSlot(j) => slot[j].bits \cap pend[h] = {}
        /\ \A k \in 1 .. Len(journal) : journal[k].blocks \cap pend[h] = {}
        /\ Len(journal) < CompactAt
    BY <1>0, <1>4 DEF HistoryInv
  <2>5. CASE journal' = journal
    BY <2>1, <2>5, <1>1
  <2>6. ASSUME NEW w \in BOOLEAN, Appends(h, w)
        PROVE  JournalLinear' /\ Len(journal') <= CompactAt
    <3>1. \A k \in 1 .. Len(journal) : Whole(k)
      BY <2>2 DEF KnowsJournal
    <3>2. journal # << >> => journal[Len(journal)].gen = gen[h] - 1
      BY <1>0, <2>3, DiskTypes DEF Reached
    <3>3. JournalLinear'
      BY <1>0, <2>1, <2>2, <2>4, <2>6, <3>1, <3>2, LinearAppend
    <3>4. Len(journal') = Len(journal) + 1
      BY <1>0, <2>6 DEF TypeOK, Appends
    <3> QED
      BY <1>0, <2>4, <3>3, <3>4
  <2> QED
    BY <2>1, <2>5, <2>6
<1>5. CASE pc[h] = "opening" /\ pos[h] <= Len(journal)
  <2>1. slot' = slot /\ journal' \in { journal, SubSeq(journal, 1, pos[h]) }
    BY <1>5 DEF SlotOutcomes, JournalOutcomes
  <2>2. PICK n \in 0 .. Len(journal) : n = pos[h]
    BY <1>0, <1>5 DEF TypeOK
  <2>3. KnowsSlots(h) /\ KnowsJournal(h, n)
    BY <1>0, <1>5, <2>2 DEF SessionInv
  <2>4. PICK i \in 0 .. 1 : Newest(i) /\ Reached(gen[h], i, n)
    BY <1>0, <1>5, <2>2 DEF HistoryInv, RecoveredFrom
  <2>5. n > 0 => Whole(n) /\ \A j \in 0 .. 1 : GoodSlot(j) => slot[j].gen <= journal[n].gen
    BY <2>3, <2>4, KnownRecords
  <2>6. CASE journal' = SubSeq(journal, 1, n)
    <3>1. JournalLinear'
      BY <1>0, <2>1, <2>5, <2>6, LinearCut
    <3>2. Len(journal') = n
      BY <1>0, <2>6, PrefixType DEF TypeOK
    <3> QED
      BY <1>0, <3>1, <3>2
  <2> QED
    BY <1>1, <2>1, <2>2, <2>6
<1>6. CASE /\ pc[h] \notin { "initial", "compact", "append" }
           /\ ~ (pc[h] = "opening" /\ pos[h] <= Len(journal))
  <2>1. slot' = slot
    BY <1>0, <1>6 DEF SlotOutcomes, SessionInv
  <2>2. journal' \in { journal, << >> }
    BY <1>6 DEF JournalOutcomes
  <2> QED
    BY <1>1, <2>1, <2>2
<1> QED
  BY <1>2, <1>3, <1>4, <1>5, <1>6

\* Where what callers were told is held after a step.
LEMMA HeldAt ==
  ASSUME NEW i \in 0 .. 1, Newest(i)', told' \subseteq stable',
         Attached(i, Len(journal))', HeldBy(told, i, Len(journal))'
  PROVE  ToldHeld'
  BY DEF ToldHeld

\* The good checkpoints and the journal stay as they are.
LEMMA HeldStill ==
  ASSUME ToldHeld, told' = told, told \subseteq stable', journal' = journal,
         \A i \in 0 .. 1 : /\ GoodSlot(i)' <=> GoodSlot(i)
                           /\ GoodSlot(i) => slot'[i] = slot[i]
  PROVE  ToldHeld'
  BY DEF ToldHeld, Newest, Attached, HeldBy, GoodSlot, Whole

\* The record of a commit changes nothing in front of it.
LEMMA HeldAppend ==
  ASSUME TypeOK, ToldHeld, told' = told, told \subseteq stable', slot' = slot,
         NEW h \in Handles, NEW w \in BOOLEAN, Appends(h, w),
         journal = << >> => \E i \in 0 .. 1 : Newest(i) /\ gen[h] - 1 = slot[i].gen
  PROVE  ToldHeld'
<1>0. /\ Len(journal) \in Nat /\ (journal = << >> <=> Len(journal) = 0)
      /\ \A i \in 0 .. 1 : slot[i].gen \in Nat
      /\ gen[h] \in Nat /\ pend[h] \in SUBSET Blocks
  BY DiskTypes DEF TypeOK
<1>1. PICK r \in Record : /\ r = [ gen |-> gen[h], blocks |-> pend[h], whole |-> w ]
                          /\ journal' = Append(journal, r)
  BY <1>0, RecordType DEF Appends
<1>2. /\ Len(journal') = Len(journal) + 1
      /\ \A k \in 1 .. Len(journal) : journal'[k] = journal[k] /\ (Whole(k)' <=> Whole(k))
      /\ journal = << >> => journal'[1] = r
  BY <1>0, <1>1 DEF TypeOK, Whole
<1>3. CASE told = {}
  BY <1>3 DEF ToldHeld
<1>4. CASE told # {}
  <2>1. PICK i \in 0 .. 1 :
          Newest(i) /\ Attached(i, Len(journal)) /\ HeldBy(told, i, Len(journal))
    BY <1>4 DEF ToldHeld
  <2>2. Newest(i)'
    BY <2>1 DEF Newest, GoodSlot
  <2>3. Attached(i, Len(journal))'
    <3>1. CASE journal = << >>
      <4>1. PICK j \in 0 .. 1 : Newest(j) /\ gen[h] - 1 = slot[j].gen
        BY <3>1
      <4>2. slot[i].gen = slot[j].gen
        BY <1>0, <2>1, <4>1 DEF Newest
      <4> QED
        BY <1>0, <1>1, <1>2, <3>1, <4>1, <4>2 DEF Attached
    <3>2. CASE journal # << >>
      BY <1>0, <1>2, <2>1, <3>2 DEF Attached
    <3> QED
      BY <3>1, <3>2
  <2>4. HeldBy(told, i, Len(journal))'
    <3>1. \A k \in 1 .. Len(journal) : k \in 1 .. Len(journal')
      BY <1>0, <1>2
    <3> QED
      BY <1>2, <2>1, <3>1 DEF HeldBy
  <2> QED
    BY <2>2, <2>3, <2>4, HeldAt
<1> QED
  BY <1>3, <1>4

\* Whatever is cut short, what callers were told can still be recovered.
LEMMA CutHeld ==
  ASSUME LosslessInv, NEW h \in Handles, Cut(h), told' = told
  PROVE  ToldHeld'
<1> SUFFICES ASSUME told # {} PROVE ToldHeld'
  BY DEF ToldHeld
<1>0. /\ BackedInv /\ TypeOK /\ SessionInv(h) /\ HistoryInv(h)
      /\ JournalLinear /\ ToldHeld
      /\ Len(journal) \in Nat /\ (journal = << >> <=> Len(journal) = 0)
      /\ \A j \in 0 .. 1 : slot[j].gen \in Nat
      /\ \A k \in 1 .. Len(journal) : journal[k].gen \in Nat
  BY LosslessFacts, DiskTypes
<1>1. PICK i \in 0 .. 1 :
        /\ told \subseteq stable
        /\ Newest(i) /\ Attached(i, Len(journal)) /\ HeldBy(told, i, Len(journal))
  BY <1>0 DEF ToldHeld
<1>2. pc[h] \notin { "creating", "initial" }
  BY <1>0, <1>1 DEF SessionInv, Existing, Newest, GoodSlot
<1>3. told \subseteq stable'
  <2>1. PICK out \in PayloadOutcomes(h) : out[2] \subseteq stable'
    BY DEF Cut
  <2>2. stable \subseteq out[2]
    BY <1>0, <1>2, <2>1 DEF PayloadOutcomes, TypeOK
  <2> QED
    BY <1>1, <2>1, <2>2
<1>4. ASSUME slot' = slot \/ \E j \in 0 .. 1 :
                               slot[j].st = "none" /\ slot' = [ slot EXCEPT ![j] = Blank ],
             journal' = journal
      PROVE  ToldHeld'
  <2>1. \A j \in 0 .. 1 : /\ GoodSlot(j)' <=> GoodSlot(j)
                          /\ GoodSlot(j) => slot'[j] = slot[j]
    BY <1>0, <1>4 DEF GoodSlot, Blank, TypeOK
  <2> QED
    BY <1>0, <1>3, <1>4, <2>1, HeldStill
<1>5. CASE pc[h] = "compact"
  <2>1. PICK x \in 0 .. 1 :
          /\ x = gen[h] % 2 /\ journal' = journal
          /\ slot' \in SlotReplaced(x, gen[h], bits[h])
          /\ KnowsSlots(h) /\ KnowsJournal(h, Len(journal))
    BY <1>0, <1>5, ParityType
       DEF Cut, SlotOutcomes, JournalOutcomes, SessionInv, Live, TypeOK
  <2>2. told \subseteq bits[h]
    BY <1>0, <1>5 DEF HistoryInv, Live, RecoveredFrom
  <2>3. CASE slot' = [ slot EXCEPT ![x] = Good(gen[h], bits[h]) ]
    <3>1. /\ slot'[x].st = "good" /\ slot'[x].gen = gen[h] /\ slot'[x].bits = bits[h]
          /\ \A j \in 0 .. 1 : j # x => slot'[j] = slot[j]
          /\ gen[h] \in Nat
      BY <1>0, <2>3 DEF TypeOK, Good
    <3>2. Newest(x)'
      BY <2>1, <3>1 DEF Newest, GoodSlot, KnowsSlots
    <3>3. Attached(x, Len(journal))'
      BY <1>0, <2>1, <3>1 DEF Attached, KnowsJournal
    <3>4. HeldBy(told, x, Len(journal))'
      BY <2>2, <3>1 DEF HeldBy
    <3> QED
      BY <1>3, <3>2, <3>3, <3>4, HeldAt
  <2>4. CASE slot' # [ slot EXCEPT ![x] = Good(gen[h], bits[h]) ]
    BY <2>1, <2>4, <1>4 DEF SlotReplaced
  <2> QED
    BY <2>3, <2>4
<1>6. CASE pc[h] = "append"
  <2>1. slot' = slot /\ (journal' = journal \/ \E w \in BOOLEAN : Appends(h, w))
    BY <1>6 DEF Cut, SlotOutcomes, JournalOutcomes, Appends
  <2>2. journal = << >> => \E j \in 0 .. 1 : Newest(j) /\ gen[h] - 1 = slot[j].gen
    BY <1>0, <1>6 DEF HistoryInv, AppendingTo, Reached
  <2> QED
    BY <1>0, <1>3, <1>4, <2>1, <2>2, HeldAppend
<1>7. CASE pc[h] = "opening" /\ pos[h] <= Len(journal)
  <2>1. slot' = slot /\ journal' \in { journal, SubSeq(journal, 1, pos[h]) }
    BY <1>7 DEF Cut, SlotOutcomes, JournalOutcomes
  <2>2. PICK n \in 0 .. Len(journal) : n = pos[h]
    BY <1>0, <1>7 DEF TypeOK
  <2>3. PICK j \in 0 .. 1 : RecoveredFrom(h, j, n)
    BY <1>0, <1>7, <2>2 DEF HistoryInv
  <2>4. CASE journal' = SubSeq(journal, 1, n)
    <3>1. Len(journal') = n /\ \A k \in 1 .. n : journal'[k] = journal[k]
      BY <1>0, <2>4, PrefixType DEF TypeOK
    <3>2. Newest(j)'
      BY <2>1, <2>3 DEF RecoveredFrom, Newest, GoodSlot
    <3>3. Attached(j, Len(journal))'
      BY <2>1, <2>3, <3>1 DEF RecoveredFrom, Attached
    <3>4. HeldBy(told, j, Len(journal))'
      BY <2>1, <2>3, <3>1 DEF RecoveredFrom, HeldBy, Whole
    <3> QED
      BY <1>3, <3>2, <3>3, <3>4, HeldAt
  <2> QED
    BY <1>4, <2>1, <2>2, <2>4
<1>8. CASE pc[h] = "truncate"
  <2>1. slot' = slot /\ journal' \in { journal, << >> }
    BY <1>8 DEF Cut, SlotOutcomes, JournalOutcomes
  <2>2. PICK j \in 0 .. 1 : RecoveredFrom(h, j, Len(journal)) /\ FoldedInto(h, j)
    BY <1>0, <1>8 DEF HistoryInv, Live
  <2>3. CASE journal' = << >>
    <3>1. Newest(j)' /\ Attached(j, Len(journal))'
      BY <2>1, <2>2, <2>3 DEF RecoveredFrom, Newest, GoodSlot, Attached
    <3>2. HeldBy(told, j, Len(journal))'
      BY <2>1, <2>2 DEF RecoveredFrom, FoldedInto, HeldBy
    <3> QED
      BY <1>3, <3>1, <3>2, HeldAt
  <2> QED
    BY <1>4, <2>1, <2>3
<1>9. CASE /\ pc[h] \notin { "compact", "append", "truncate" }
           /\ ~ (pc[h] = "opening" /\ pos[h] <= Len(journal))
  <2>1. slot' = slot /\ journal' = journal
    BY <1>0, <1>2, <1>9 DEF Cut, SlotOutcomes, JournalOutcomes, SessionInv
  <2> QED
    BY <1>4, <2>1
<1> QED
  BY <1>5, <1>6, <1>7, <1>8, <1>9

-----------------------------------------------------------------------------
(* What callers were told survives: the sessions.                          *)

LEMMA QuietHistory ==
  ASSUME NEW k \in Handles,
         pc'[k] \in { "closed", "failed", "unlinked", "loading", "creating", "initial" }
  PROVE  HistoryInv(k)'
  BY DEF HistoryInv, Live, Committing

\* A step that leaves the disk alone is a cut at its beginning.
LEMMA SameCuts ==
  ASSUME TypeOK, NEW h \in Handles, UNCHANGED disk
  PROVE  Cut(h)
<1>1. slot' \in SlotOutcomes(h)
  BY DEF SlotOutcomes, SlotReplaced, disk
<1>2. journal' \in JournalOutcomes(h)
  BY DEF JournalOutcomes, disk
<1>3. << written, stable >> \in PayloadOutcomes(h)
  BY DEF PayloadOutcomes
<1>4. stable' = stable /\ written' = written /\ stable \subseteq written
  BY DEF TypeOK, disk
<1> QED
  BY <1>1, <1>2, <1>3, <1>4 DEF Cut

\* A step that writes is a cut at its end.
LEMMA WriteCuts ==
  ASSUME TypeOK, NEW h \in Handles,
         \/ ResetFiles(h) \/ CreateCheckpoint(h) \/ OpenWorker(h) \/ StoreBlock(h)
         \/ FlushPayload(h) \/ AppendJournal(h) \/ WriteCheckpoint(h)
         \/ TruncateJournal(h) \/ CheckpointFails(h)
  PROVE  Cut(h)
<1>0. stable \subseteq written
  BY DEF TypeOK
<1>1. CASE ResetFiles(h)
  <2>1. slot' \in SlotOutcomes(h) /\ journal' \in JournalOutcomes(h)
    BY <1>1 DEF ResetFiles, SlotOutcomes, JournalOutcomes
  <2>2. << {}, {} >> \in PayloadOutcomes(h) /\ written' = {} /\ stable' = {}
    BY <1>1 DEF ResetFiles, PayloadOutcomes
  <2> QED
    BY <2>1, <2>2 DEF Cut
<1>2. CASE CreateCheckpoint(h)
  <2>1. slot' \in SlotOutcomes(h) /\ journal' \in JournalOutcomes(h)
    BY <1>2 DEF CreateCheckpoint, SlotOutcomes, SlotReplaced, JournalOutcomes
  <2>2. << written, stable >> \in PayloadOutcomes(h) /\ UNCHANGED << written, stable >>
    BY <1>2 DEF CreateCheckpoint, PayloadOutcomes
  <2> QED
    BY <1>0, <2>1, <2>2 DEF Cut
<1>3. CASE OpenWorker(h)
  <2>1. slot' \in SlotOutcomes(h) /\ journal' \in JournalOutcomes(h)
    BY <1>3 DEF OpenWorker, SlotOutcomes, JournalOutcomes
  <2>2. << written, stable >> \in PayloadOutcomes(h) /\ UNCHANGED << written, stable >>
    BY <1>3 DEF OpenWorker, PayloadOutcomes
  <2> QED
    BY <1>0, <2>1, <2>2 DEF Cut
<1>4. CASE StoreBlock(h)
  <2>1. slot' \in SlotOutcomes(h) /\ journal' \in JournalOutcomes(h)
    BY <1>4 DEF StoreBlock, SlotOutcomes, JournalOutcomes
  <2>2. /\ << written \cup pend[h], stable >> \in PayloadOutcomes(h)
        /\ written' = written \cup pend[h] /\ stable' = stable
    BY <1>4 DEF StoreBlock, PayloadOutcomes
  <2> QED
    BY <1>0, <2>1, <2>2 DEF Cut
<1>5. CASE FlushPayload(h)
  <2>1. slot' \in SlotOutcomes(h) /\ journal' \in JournalOutcomes(h)
    BY <1>5 DEF FlushPayload, SlotOutcomes, JournalOutcomes
  <2>2. << written, written >> \in PayloadOutcomes(h) /\ written' = written /\ stable' = written
    BY <1>5 DEF FlushPayload, PayloadOutcomes
  <2> QED
    BY <2>1, <2>2 DEF Cut
<1>6. CASE AppendJournal(h)
  <2>1. slot' \in SlotOutcomes(h) /\ journal' \in JournalOutcomes(h)
    BY <1>6 DEF AppendJournal, SlotOutcomes, JournalOutcomes
  <2>2. << written, stable >> \in PayloadOutcomes(h) /\ UNCHANGED << written, stable >>
    BY <1>6 DEF AppendJournal, PayloadOutcomes
  <2> QED
    BY <1>0, <2>1, <2>2 DEF Cut
<1>7. CASE WriteCheckpoint(h)
  <2>1. slot' \in SlotOutcomes(h) /\ journal' \in JournalOutcomes(h)
    BY <1>7 DEF WriteCheckpoint, SlotOutcomes, SlotReplaced, JournalOutcomes
  <2>2. << written, stable >> \in PayloadOutcomes(h) /\ UNCHANGED << written, stable >>
    BY <1>7 DEF WriteCheckpoint, PayloadOutcomes
  <2> QED
    BY <1>0, <2>1, <2>2 DEF Cut
<1>8. CASE TruncateJournal(h)
  <2>1. slot' \in SlotOutcomes(h) /\ journal' \in JournalOutcomes(h)
    BY <1>8 DEF TruncateJournal, SlotOutcomes, JournalOutcomes
  <2>2. << written, stable >> \in PayloadOutcomes(h) /\ UNCHANGED << written, stable >>
    BY <1>8 DEF TruncateJournal, PayloadOutcomes
  <2> QED
    BY <1>0, <2>1, <2>2 DEF Cut
<1>9. CASE CheckpointFails(h)
  <2>1. slot' \in SlotOutcomes(h) /\ journal' \in JournalOutcomes(h)
    BY <1>9 DEF CheckpointFails, JournalOutcomes
  <2>2. << written, stable >> \in PayloadOutcomes(h) /\ UNCHANGED << written, stable >>
    BY <1>9 DEF CheckpointFails, PayloadOutcomes
  <2> QED
    BY <1>0, <2>1, <2>2 DEF Cut
<1> QED
  BY <1>1, <1>2, <1>3, <1>4, <1>5, <1>6, <1>7, <1>8, <1>9

\* A step of the running session that keeps the lock, told and the session's history.
LEMMA MoveLossless ==
  ASSUME LosslessInv, BackedInv', NEW h \in Handles,
         pc[h] \notin { "closed", "failed" }, NEW p, Goto(h, p),
         Cut(h), ToldHeld', HistoryInv(h)'
  PROVE  LosslessInv'
<1>1. \A k \in Handles \ { h } : pc[k] \in { "closed", "failed" }
  BY QuietOthers DEF LosslessInv
<1>2. \A k \in Handles \ { h } : pc'[k] = pc[k]
  BY DEF LosslessInv, BackedInv, TypeOK, Goto
<1>3. \A k \in Handles : HistoryInv(k)'
  BY <1>1, <1>2, QuietHistory
<1>4. JournalLinear' /\ Len(journal') <= CompactAt
  BY CutLinear DEF Cut
<1> QED
  BY <1>3, <1>4 DEF LosslessInv

\* Every session is over, or has not read anything.
LEMMA QuietLossless ==
  ASSUME LosslessInv, BackedInv', JournalLinear', Len(journal') <= CompactAt, ToldHeld',
         \A k \in Handles :
           \/ HistoryInv(k)'
           \/ pc'[k] \in { "closed", "failed", "unlinked", "loading", "creating", "initial" }
  PROVE  LosslessInv'
  BY QuietHistory DEF LosslessInv

\* While a session shows what it recovered, the disk holds what callers were told.
LEMMA LiveHeld ==
  ASSUME NEW h \in Handles, SessionInv(h)', HistoryInv(h)', pc'[h] \in Live \ { "append" }
  PROVE  ToldHeld'
<1>1. bits'[h] \subseteq stable'
  BY DEF SessionInv
<1>2. PICK i \in 0 .. 1 : RecoveredFrom(h, i, Len(journal))'
  BY DEF HistoryInv
<1>3. HeldBy(told, i, Len(journal))'
  BY <1>2 DEF RecoveredFrom, HeldBy
<1>4. Newest(i)' /\ Attached(i, Len(journal))' /\ told' \subseteq stable'
  BY <1>1, <1>2 DEF RecoveredFrom
<1> QED
  BY <1>3, <1>4, HeldAt

\* A replay that has begun, or may begin, stops only in front of a torn record.
LEMMA ReplayGoesOn ==
  ASSUME LosslessInv, NEW h \in Handles, ReplayStops(h),
         NEW i \in 0 .. 1, ReplayingFrom(h, i),
         NEW n \in Nat, n = pos[h], n < Len(journal),
         n = 0 => journal[1].gen <= slot[i].gen + 1
  PROVE  /\ ~ Whole(n + 1) /\ n + 1 = Len(journal)
<1>0. /\ TypeOK /\ SessionInv(h) /\ JournalLinear /\ Len(journal) <= CompactAt
      /\ Len(journal) \in Nat /\ CompactAt \in Nat /\ gen[h] \in Nat
      /\ \A j \in 0 .. 1 : slot[j].gen \in Nat
      /\ \A k \in 1 .. Len(journal) : journal[k].gen \in Nat
  BY LosslessFacts, DiskTypes DEF TypeOK
<1>1. n + 1 \in 1 .. Len(journal)
  BY <1>0
<1>2. HasNext(h)
  BY <1>0 DEF HasNext, MaxPrefix
<1>3. KnowsSlots(h) /\ KnowsJournal(h, n) /\ pc[h] = "replaying"
  BY <1>0 DEF ReplayStops, SessionInv
<1>4. ~ Skips(h, journal[n + 1]) /\ ~ Applies(h, journal[n + 1])
  BY <1>2 DEF ReplayStops
<1>5. ASSUME Whole(n + 1)
      PROVE  FALSE
  <2>1. journal[n + 1].gen > gen[h]
    BY <1>0, <1>1, <1>4, <1>5 DEF Skips, Whole
  <2>2. journal[n + 1].gen <= gen[h] + 1
    <3>1. CASE n = 0
      BY <1>0, <1>1, <3>1 DEF ReplayingFrom, Reached
    <3>2. CASE n > 0
      <4>1. n \in 1 .. Len(journal) /\ n \in 1 .. n
        BY <1>0, <3>2
      <4>2. journal[n + 1].gen = journal[n].gen + 1 /\ journal[n].gen <= gen[h]
        BY <1>0, <1>3, <4>1 DEF JournalLinear, KnowsJournal
      <4> QED
        BY <1>0, <4>1, <4>2
    <3> QED
      BY <3>1, <3>2
  <2>3. journal[n + 1].gen = gen[h] + 1
    BY <1>0, <1>1, <2>1, <2>2
  <2>4. PICK b \in bits[h] : b \in journal[n + 1].blocks
    BY <1>4, <1>5, <2>3 DEF Applies, Whole
  <2>5. CASE b \in slot[i].bits
    <3>1. GoodSlot(i) /\ slot[i].gen < journal[n + 1].gen
      BY <1>0, <1>3, <2>3 DEF ReplayingFrom, Newest, KnowsSlots
    <3> QED
      BY <1>0, <1>1, <2>4, <2>5, <3>1 DEF JournalLinear
  <2>6. ASSUME NEW k \in 1 .. n, b \in journal[k].blocks
        PROVE  FALSE
    <3>1. k \in 1 .. Len(journal) /\ k < n + 1
      BY <1>0
    <3>2. journal[k].blocks \cap journal[n + 1].blocks = {}
      BY <1>0, <1>1, <3>1 DEF JournalLinear
    <3> QED
      BY <2>4, <2>6, <3>2
  <2> QED
    BY <2>4, <2>5, <2>6 DEF ReplayingFrom, HeldBy
<1>6. n + 1 = Len(journal)
  BY <1>0, <1>1, <1>5 DEF JournalLinear
<1> QED
  BY <1>5, <1>6

\* The replay ends where the journal leads, and has found all that was told.
LEMMA ReplayFinds ==
  ASSUME LosslessInv, NEW h \in Handles, ReplayStops(h),
         NEW i \in 0 .. 1, ReplayingFrom(h, i)
  PROVE  RecoveredFrom(h, i, pos[h])
<1>0. /\ TypeOK /\ SessionInv(h) /\ JournalLinear /\ ToldHeld
      /\ Len(journal) \in Nat /\ gen[h] \in Nat
      /\ \A j \in 0 .. 1 : slot[j].gen \in Nat
      /\ \A k \in 1 .. Len(journal) : journal[k].gen \in Nat
      /\ journal = << >> <=> Len(journal) = 0
  BY LosslessFacts, DiskTypes DEF TypeOK
<1>1. PICK n \in 0 .. Len(journal) : n = pos[h]
  BY <1>0 DEF ReplayStops, SessionInv, TypeOK
<1>2. KnowsSlots(h) /\ KnowsJournal(h, n)
  BY <1>0, <1>1 DEF ReplayStops, SessionInv
<1>3. /\ Newest(i) /\ Attached(i, n) /\ HeldBy(bits[h], i, n)
      /\ gen[h] = slot[i].gen \/ Reached(gen[h], i, n)
  BY <1>1 DEF ReplayingFrom
<1>4. Reached(gen[h], i, n)
  <2>1. SUFFICES ASSUME n > 0, gen[h] = slot[i].gen
                 PROVE  slot[i].gen <= journal[n].gen
    <3>1. n > 0 => n \in 1 .. n /\ n \in 1 .. Len(journal)
      BY <1>0
    <3>2. n > 0 => journal[n].gen <= gen[h]
      BY <1>2, <3>1 DEF KnowsJournal
    <3> QED
      BY <1>0, <1>3, <2>1, <3>1, <3>2 DEF Reached
  <2>2. n \in 1 .. n /\ n \in 1 .. Len(journal) /\ GoodSlot(i) /\ journal # << >>
    BY <1>0, <1>3, <2>1 DEF Newest
  <2>3. CASE n = Len(journal)
    BY <1>0, <1>2, <2>2, <2>3 DEF JournalLinear, KnowsJournal
  <2>4. CASE n < Len(journal)
    <3>1. ~ Whole(n + 1) /\ n + 1 = Len(journal)
      BY <1>1, <2>1, <2>4, ReplayGoesOn
    <3>2. slot[i].gen < journal[n + 1].gen /\ journal[n + 1].gen = journal[n].gen + 1
      BY <1>0, <2>2, <2>4, <3>1 DEF JournalLinear
    <3> QED
      BY <1>0, <2>2, <3>2
  <2> QED
    BY <1>0, <2>3, <2>4
<1>5. told \subseteq bits[h]
  <2> SUFFICES ASSUME NEW b \in told PROVE b \in bits[h]
    OBVIOUS
  <2>1. PICK j \in 0 .. 1 :
          Newest(j) /\ Attached(j, Len(journal)) /\ HeldBy(told, j, Len(journal))
    BY <1>0 DEF ToldHeld
  <2>2. slot[i].gen = slot[j].gen
    BY <1>0, <1>3, <2>1 DEF Newest
  <2>3. CASE b \in slot[j].bits
    BY <1>2, <2>1, <2>3 DEF KnowsSlots, Newest
  <2>4. ASSUME NEW k \in 1 .. Len(journal), Whole(k), b \in journal[k].blocks
        PROVE  b \in bits[h]
    <3>1. CASE k \in 1 .. n
      BY <1>2, <2>4, <3>1 DEF KnowsJournal
    <3>2. CASE k > n
      <4>1. n < Len(journal) /\ Len(journal) > 0
        BY <1>0, <3>2
      <4>2. n = 0 => journal[1].gen <= slot[i].gen + 1
        BY <2>1, <2>2, <4>1 DEF Attached
      <4>3. ~ Whole(n + 1) /\ n + 1 = Len(journal)
        BY <1>1, <4>1, <4>2, ReplayGoesOn
      <4>4. k = n + 1
        BY <1>0, <3>2, <4>3
      <4> QED
        BY <2>4, <4>3, <4>4
    <3> QED
      BY <1>0, <3>1, <3>2
  <2> QED
    BY <2>1, <2>3, <2>4 DEF HeldBy
<1> QED
  BY <1>1, <1>3, <1>4, <1>5 DEF RecoveredFrom

\* Opening: the steps that read.
LEMMA OpenLossless ==
  ASSUME LosslessInv, BackedInv', NEW h \in Handles,
         \/ Open(h) \/ LoadNew(h) \/ LoadBest(h) \/ ResetFiles(h) \/ CreateCheckpoint(h)
         \/ ReplaySkip(h) \/ ReplayApply(h) \/ ReplayDone(h) \/ OpenWorker(h)
  PROVE  LosslessInv'
<1>0. /\ BackedInv /\ TypeOK /\ SessionInv(h) /\ HistoryInv(h)
      /\ JournalLinear /\ ToldHeld /\ Len(journal) <= CompactAt
      /\ Len(journal) \in Nat /\ gen[h] \in Nat /\ pos[h] \in Nat
      /\ \A j \in 0 .. 1 : slot[j].gen \in Nat
      /\ \A k \in 1 .. Len(journal) : journal[k].gen \in Nat
  BY LosslessFacts, DiskTypes DEF TypeOK
<1>1. CASE Open(h)
  <2>1. /\ pc'[h] = "loading" /\ \A k \in Handles \ { h } : pc'[k] = pc[k]
        /\ owner = NoHandle /\ UNCHANGED disk /\ told' = told
    BY <1>0, <1>1 DEF Open, Goto, TypeOK
  <2>2. \A k \in Handles : pc[k] \in { "closed", "failed" }
    BY <1>0, <2>1, BlockStoreAssumption DEF BackedInv, OneSession, SessionInv
  <2>3. Cut(h)
    BY <1>0, <2>1, SameCuts
  <2>4. JournalLinear' /\ Len(journal') <= CompactAt /\ ToldHeld'
    BY <2>1, <2>3, CutLinear, CutHeld DEF Cut
  <2> QED
    BY <2>1, <2>2, <2>4, QuietLossless
<1>2. CASE LoadNew(h)
  <2>1. /\ pc[h] = "loading" /\ Goto(h, "creating") /\ pc'[h] = "creating"
        /\ UNCHANGED disk /\ told' = told
    BY <1>0, <1>2 DEF LoadNew, Goto, TypeOK
  <2> QED
    BY <1>0, <2>1, SameCuts, CutHeld, QuietHistory, MoveLossless
<1>3. CASE LoadBest(h)
  <2>1. /\ pc[h] = "loading" /\ Goto(h, "replaying") /\ pc'[h] = "replaying"
        /\ pos'[h] = 0 /\ UNCHANGED disk /\ told' = told
    BY <1>0, <1>3 DEF LoadBest, Goto, TypeOK
  <2>2. PICK i \in 0 .. 1 : Newest(i) /\ bits'[h] = slot[i].bits /\ gen'[h] = slot[i].gen
    BY <1>0, <1>3 DEF LoadBest, Candidates, Newest, GoodSlot, TypeOK
  <2>3. ReplayingFrom(h, i)'
    BY <2>1, <2>2 DEF ReplayingFrom, Newest, GoodSlot, Attached, HeldBy, disk
  <2>4. HistoryInv(h)'
    BY <2>1, <2>3 DEF HistoryInv, Live, Committing
  <2> QED
    BY <1>0, <2>1, <2>4, SameCuts, CutHeld, MoveLossless
<1>4. CASE ResetFiles(h)
  <2>1. /\ pc[h] = "creating" /\ Goto(h, "initial") /\ pc'[h] = "initial" /\ told' = told
    BY <1>0, <1>4 DEF ResetFiles, Goto, TypeOK
  <2> QED
    BY <1>0, <1>4, <2>1, WriteCuts, CutHeld, QuietHistory, MoveLossless
<1>5. CASE CreateCheckpoint(h)
  <2>1. /\ pc[h] = "initial" /\ Goto(h, "opening") /\ pc'[h] = "opening" /\ told' = told
        /\ bits'[h] = {} /\ gen'[h] = 1 /\ pos'[h] = 0 /\ pend' = pend
        /\ slot' = [ slot EXCEPT ![1] = Good(1, {}) ]
        /\ \A j \in 0 .. 1 : slot[j].st = "none"
    BY <1>0, <1>5 DEF CreateCheckpoint, Goto, TypeOK, SessionInv, Existing
  <2>2. told = {}
    BY <1>0, <2>1 DEF ToldHeld, Newest, GoodSlot
  <2>3. slot'[1].st = "good" /\ slot'[1].gen = 1 /\ slot'[0].st = "none"
    BY <1>0, <2>1 DEF Good, TypeOK
  <2>4. Newest(1)'
    BY <2>3 DEF Newest, GoodSlot
  <2>5. RecoveredFrom(h, 1, 0)'
    BY <2>1, <2>2, <2>3, <2>4 DEF RecoveredFrom, Attached, HeldBy, Reached
  <2>6. RecoveredFrom(h, 1, pos[h])'
    BY <2>1, <2>5 DEF RecoveredFrom, Attached, HeldBy, Reached
  <2>7. HistoryInv(h)'
    BY <2>1, <2>6 DEF HistoryInv, Live, Committing
  <2> QED
    BY <1>0, <1>5, <2>1, <2>7, WriteCuts, CutHeld, MoveLossless
<1>6. CASE ReplaySkip(h)
  <2>1. PICK n \in 0 .. Len(journal) :
          /\ n = pos[h] /\ n + 1 \in 1 .. Len(journal) /\ Skips(h, journal[n + 1])
    BY <1>0, <1>6 DEF ReplaySkip, HasNext
  <2>2. /\ pc[h] = "replaying" /\ Goto(h, "replaying") /\ pc'[h] = "replaying"
        /\ pos'[h] = n + 1 /\ bits' = bits /\ gen' = gen /\ UNCHANGED disk /\ told' = told
    BY <1>0, <1>6, <2>1 DEF ReplaySkip, Goto, TypeOK
  <2>3. PICK i \in 0 .. 1 : ReplayingFrom(h, i)
    BY <1>0, <2>2 DEF HistoryInv
  <2>4. gen[h] = slot[i].gen
    <3>1. CASE n = 0
      BY <2>1, <2>3, <3>1 DEF ReplayingFrom, Reached
    <3>2. CASE n > 0
      <4>0. n \in 1 .. Len(journal) /\ n < Len(journal)
        BY <1>0, <2>1, <3>2
      <4>1. journal[n + 1].gen = journal[n].gen + 1
        BY <1>0, <4>0 DEF JournalLinear
      <4>2. journal[n + 1].gen <= gen[h]
        BY <2>1 DEF Skips
      <4>3. gen[h] # journal[n].gen
        BY <1>0, <4>0, <4>1, <4>2
      <4> QED
        BY <2>1, <2>3, <3>2, <4>3 DEF ReplayingFrom, Reached
    <3> QED
      BY <2>1, <3>1, <3>2
  <2>5. Attached(i, n + 1)
    BY <1>0, <2>1, <2>3, <2>4 DEF ReplayingFrom, Attached, Skips
  <2>6. HeldBy(bits[h], i, n + 1)
    BY <2>1, <2>3 DEF ReplayingFrom, HeldBy
  <2>7. ReplayingFrom(h, i)'
    BY <2>2, <2>3, <2>4, <2>5, <2>6
       DEF ReplayingFrom, Newest, GoodSlot, Attached, HeldBy, Whole, disk
  <2>8. HistoryInv(h)'
    BY <2>2, <2>7 DEF HistoryInv, Live, Committing
  <2> QED
    BY <1>0, <2>2, <2>8, SameCuts, CutHeld, MoveLossless
<1>7. CASE ReplayApply(h)
  <2>1. PICK n \in 0 .. Len(journal) :
          /\ n = pos[h] /\ n + 1 \in 1 .. Len(journal) /\ Applies(h, journal[n + 1])
    BY <1>0, <1>7 DEF ReplayApply, HasNext
  <2>2. /\ pc[h] = "replaying" /\ Goto(h, "replaying") /\ pc'[h] = "replaying"
        /\ bits'[h] = bits[h] \cup journal[n + 1].blocks /\ gen'[h] = journal[n + 1].gen
        /\ pos'[h] = n + 1 /\ UNCHANGED disk /\ told' = told
    BY <1>0, <1>7, <2>1 DEF ReplayApply, Goto, TypeOK
  <2>3. PICK i \in 0 .. 1 : ReplayingFrom(h, i)
    BY <1>0, <2>2 DEF HistoryInv
  <2>4. Whole(n + 1) /\ journal[n + 1].gen = gen[h] + 1
    BY <2>1 DEF Applies, Whole
  <2>5. Attached(i, n + 1)
    BY <1>0, <2>1, <2>3, <2>4 DEF ReplayingFrom, Attached, Reached
  <2>6. HeldBy(bits[h] \cup journal[n + 1].blocks, i, n + 1)
    BY <2>1, <2>3, <2>4 DEF ReplayingFrom, HeldBy
  <2>7. ReplayingFrom(h, i)'
    <3>1. Newest(i)' /\ Attached(i, n + 1)' /\ HeldBy(bits[h], i, n + 1)'
      BY <2>2, <2>3, <2>5, <2>6
         DEF ReplayingFrom, Newest, GoodSlot, Attached, HeldBy, Whole, disk
    <3>2. Reached(gen[h], i, n + 1)'
      BY <2>1, <2>2 DEF Reached, disk
    <3> QED
      BY <2>2, <3>1, <3>2 DEF ReplayingFrom, Attached, HeldBy, Reached
  <2>8. HistoryInv(h)'
    BY <2>2, <2>7 DEF HistoryInv, Live, Committing
  <2> QED
    BY <1>0, <2>2, <2>8, SameCuts, CutHeld, MoveLossless
<1>8. CASE ReplayDone(h)
  <2>1. /\ pc[h] = "replaying" /\ Goto(h, "opening") /\ pc'[h] = "opening"
        /\ ReplayStops(h) /\ session' = session /\ UNCHANGED disk /\ told' = told
    BY <1>0, <1>8 DEF ReplayDone, ReplayStops, Goto, TypeOK
  <2>2. PICK i \in 0 .. 1 : ReplayingFrom(h, i)
    BY <1>0, <2>1 DEF HistoryInv
  <2>3. RecoveredFrom(h, i, pos[h])
    BY <2>1, <2>2, ReplayFinds
  <2>4. RecoveredFrom(h, i, pos[h])'
    BY <2>1, <2>3
       DEF RecoveredFrom, Newest, GoodSlot, Attached, HeldBy, Reached, Whole, disk, session
  <2>5. HistoryInv(h)'
    BY <2>1, <2>4 DEF HistoryInv, Live, Committing
  <2> QED
    BY <1>0, <2>1, <2>5, SameCuts, CutHeld, MoveLossless
<1>9. CASE OpenWorker(h)
  <2>1. PICK n \in 0 .. Len(journal) : n = pos[h] /\ journal' = SubSeq(journal, 1, n)
    BY <1>0, <1>9 DEF OpenWorker
  <2>2. /\ pc[h] = "opening" /\ Goto(h, "idle") /\ pc'[h] = "idle"
        /\ bits' = bits /\ gen' = gen /\ slot' = slot /\ told' = told \cup bits[h]
    BY <1>0, <1>9 DEF OpenWorker, Goto, TypeOK, session
  <2>3. PICK i \in 0 .. 1 : RecoveredFrom(h, i, n)
    BY <1>0, <2>1, <2>2 DEF HistoryInv
  <2>4. Len(journal') = n /\ \A k \in 1 .. n : journal'[k] = journal[k]
    BY <1>0, <2>1, PrefixType DEF TypeOK
  <2>5. RecoveredFrom(h, i, Len(journal))'
    <3>1. Newest(i)' /\ told' \subseteq bits'[h]
      BY <2>2, <2>3 DEF RecoveredFrom, Newest, GoodSlot
    <3>2. Attached(i, n)' /\ Reached(gen[h], i, n)'
      BY <2>1, <2>2, <2>3, <2>4 DEF RecoveredFrom, Attached, Reached
    <3>3. HeldBy(bits[h], i, n)'
      BY <2>2, <2>3, <2>4 DEF RecoveredFrom, HeldBy, Whole
    <3> QED
      BY <2>4, <3>1, <3>2, <3>3 DEF RecoveredFrom, Attached, Reached, HeldBy
  <2>6. HistoryInv(h)'
    BY <2>2, <2>5 DEF HistoryInv, Live, Committing
  <2>7. ToldHeld'
    BY <2>2, <2>6, LiveHeld DEF Live, BackedInv
  <2> QED
    BY <1>0, <1>9, <2>2, <2>6, <2>7, WriteCuts, MoveLossless
<1> QED
  BY <1>1, <1>2, <1>3, <1>4, <1>5, <1>6, <1>7, <1>8, <1>9

\* A live session that keeps its receipts while the disk stays as it is.
LEMMA LiveStill ==
  ASSUME LosslessInv, BackedInv', NEW h \in Handles, pc[h] \in Live \ { "append", "truncate" },
         Cut(h), UNCHANGED << slot, journal, bits, gen >>, told' \subseteq told \cup bits[h],
         NEW p \in Live \ { "append", "truncate" }, Goto(h, p),
         p \in Committing => pend'[h] \cap bits[h] = {},
         p \in { "store", "flush" } => Len(journal) < CompactAt,
         p = "batching" /\ pend'[h] # {} => Len(journal) < CompactAt,
         p = "compact" => journal # << >>
  PROVE  LosslessInv'
<1>0. TypeOK /\ HistoryInv(h) /\ pc'[h] = p
  BY LosslessFacts DEF TypeOK, Goto
<1>1. PICK i \in 0 .. 1 : RecoveredFrom(h, i, Len(journal))
  BY <1>0 DEF HistoryInv
<1>2. RecoveredFrom(h, i, Len(journal))'
  BY <1>1 DEF RecoveredFrom, Newest, GoodSlot, Attached, HeldBy, Reached, Whole
<1>3. HistoryInv(h)'
  BY <1>0, <1>2 DEF HistoryInv, Live
<1>4. ToldHeld'
  BY <1>0, <1>3, LiveHeld DEF BackedInv
<1>5. pc[h] \notin { "closed", "failed" }
  BY DEF Live
<1> QED
  BY <1>3, <1>4, <1>5, MoveLossless

LEMMA WriteLossless ==
  ASSUME LosslessInv, BackedInv', NEW h \in Handles,
         \/ WriteBlocks(h) \/ TakeBlock(h) \/ StoreBlock(h) \/ EndOfBlocks(h)
         \/ BlocksFail(h) \/ FlushPayload(h) \/ AppendJournal(h)
         \/ WriteCheckpoint(h) \/ TruncateJournal(h) \/ Return(h)
         \/ CheckpointFails(h)
  PROVE  LosslessInv'
<1>0. /\ BackedInv /\ TypeOK /\ SessionInv(h) /\ HistoryInv(h)
      /\ JournalLinear /\ ToldHeld /\ Len(journal) <= CompactAt
      /\ Len(journal) \in Nat /\ (journal = << >> <=> Len(journal) = 0)
      /\ gen[h] \in Nat /\ CompactAt \in Nat \ {0}
      /\ \A j \in 0 .. 1 : slot[j].gen \in Nat
      /\ \A k \in 1 .. Len(journal) : journal[k].gen \in Nat
  BY LosslessFacts, DiskTypes DEF TypeOK
<1>f. /\ pc[h] \in Live /\ pc[h] \notin { "closed", "failed" }
      /\ pos[h] = Len(journal)
      /\ KnowsSlots(h) /\ KnowsJournal(h, Len(journal))
  <2>1. pc[h] \in Live
    BY DEF WriteBlocks, TakeBlock, StoreBlock, EndOfBlocks, BlocksFail, FlushPayload,
           AppendJournal, WriteCheckpoint, TruncateJournal, Return, CheckpointFails, Live
  <2> QED
    BY <1>0, <2>1, LiveFacts
<1>1. CASE WriteBlocks(h)
  <2>1. /\ pc[h] = "idle" /\ Goto(h, "batching") /\ pend' = pend /\ pend[h] = {}
        /\ UNCHANGED disk /\ UNCHANGED << bits, gen, told >>
    BY <1>0, <1>1 DEF WriteBlocks, SessionInv, Committing
  <2> QED
    BY <1>0, <2>1, SameCuts, LiveStill DEF Live, disk
<1>2. CASE TakeBlock(h)
  <2>1. PICK b \in Blocks \ (bits[h] \cup pend[h]) :
          pend' = [ pend EXCEPT ![h] = @ \cup { b } ]
    BY <1>2 DEF TakeBlock
  <2>2. /\ pc[h] = "batching" /\ UNCHANGED disk /\ UNCHANGED << bits, gen, told >>
        /\ pend'[h] = pend[h] \cup { b } /\ pend[h] \cap bits[h] = {}
        /\ Goto(h, IF pend[h] = {} /\ pos[h] >= CompactAt THEN "compact" ELSE "store")
    BY <1>0, <1>2, <2>1 DEF TakeBlock, TypeOK, HistoryInv, Committing
  <2>3. pend'[h] \cap bits[h] = {}
    BY <2>1, <2>2
  <2>4. Cut(h)
    BY <1>0, <2>2, SameCuts
  <2>5. CASE pend[h] = {} /\ pos[h] >= CompactAt
    <3>1. journal # << >> /\ Goto(h, "compact")
      BY <1>0, <1>f, <2>2, <2>5
    <3> QED
      BY <2>2, <2>3, <2>4, <3>1, LiveStill DEF Live, disk
  <2>6. CASE ~ (pend[h] = {} /\ pos[h] >= CompactAt)
    <3>1. Len(journal) < CompactAt
      BY <1>0, <1>f, <2>2, <2>6 DEF HistoryInv
    <3>2. Goto(h, "store")
      BY <2>2, <2>6
    <3> QED
      BY <2>2, <2>3, <2>4, <3>1, <3>2, LiveStill DEF Live, disk
  <2> QED
    BY <2>5, <2>6
<1>3. CASE StoreBlock(h)
  <2>1. PICK p \in { "flush", "batching" } : Goto(h, p)
    BY <1>3 DEF StoreBlock
  <2>2. /\ pc[h] = "store" /\ UNCHANGED << slot, journal, bits, gen, pend, told >>
        /\ Len(journal) < CompactAt /\ pend[h] \cap bits[h] = {} /\ Cut(h)
    BY <1>0, <1>3, WriteCuts DEF StoreBlock, session, HistoryInv, Committing
  <2> QED
    BY <2>1, <2>2, LiveStill DEF Live
<1>4. CASE EndOfBlocks(h)
  <2>1. /\ pc[h] = "batching" /\ UNCHANGED disk /\ UNCHANGED << bits, gen, pend, told >>
        /\ Goto(h, IF pend[h] = {} THEN "return" ELSE "flush")
        /\ pend[h] \cap bits[h] = {} /\ (pend[h] # {} => Len(journal) < CompactAt)
    BY <1>0, <1>4 DEF EndOfBlocks, HistoryInv, Committing
  <2>2. Cut(h)
    BY <1>0, <2>1, SameCuts
  <2>3. CASE pend[h] = {}
    BY <2>1, <2>2, <2>3, LiveStill DEF Live, disk
  <2>4. CASE pend[h] # {}
    BY <2>1, <2>2, <2>4, LiveStill DEF Live, disk
  <2> QED
    BY <2>3, <2>4
<1>5. CASE BlocksFail(h)
  <2>1. /\ pc[h] = "batching" /\ Goto(h, "idle") /\ UNCHANGED disk
        /\ UNCHANGED << bits, gen, told >>
    BY <1>5 DEF BlocksFail
  <2> QED
    BY <1>0, <2>1, SameCuts, LiveStill DEF Live, Committing, disk
<1>6. CASE Return(h)
  <2>1. /\ pc[h] = "return" /\ Goto(h, "idle") /\ UNCHANGED disk
        /\ UNCHANGED << bits, gen >> /\ told' = told \cup bits[h]
    BY <1>6 DEF Return, session
  <2> QED
    BY <1>0, <2>1, SameCuts, LiveStill DEF Live, Committing, disk
<1>7. CASE FlushPayload(h)
  <2>1. /\ pc[h] = "flush" /\ Goto(h, "append") /\ pc'[h] = "append"
        /\ bits'[h] = bits[h] \cup pend[h] /\ gen'[h] = gen[h] + 1
        /\ UNCHANGED << slot, journal, pend, told >>
        /\ pend[h] \cap bits[h] = {} /\ Len(journal) < CompactAt
    BY <1>0, <1>7 DEF FlushPayload, Goto, TypeOK, HistoryInv, Committing
  <2>2. PICK i \in 0 .. 1 : RecoveredFrom(h, i, Len(journal))
    BY <1>0, <2>1 DEF HistoryInv, Live
  <2>3. bits'[h] \ pend'[h] = bits[h] /\ gen'[h] - 1 = gen[h]
    BY <1>0, <2>1
  <2>4. AppendingTo(h, i)'
    BY <2>1, <2>2, <2>3
       DEF RecoveredFrom, AppendingTo, Newest, GoodSlot, Attached, HeldBy, Reached, Whole
  <2>5. \A j \in 0 .. 1 : GoodSlot(j)' => slot'[j].bits \cap pend'[h] = {}
    BY <1>f, <2>1 DEF KnowsSlots, GoodSlot
  <2>6. \A k \in 1 .. Len(journal') : journal'[k].blocks \cap pend'[h] = {}
    BY <1>f, <2>1 DEF KnowsJournal
  <2>7. HistoryInv(h)'
    BY <2>1, <2>4, <2>5, <2>6 DEF HistoryInv, Live, Committing
  <2> QED
    BY <1>0, <1>f, <1>7, <2>1, <2>7, WriteCuts, CutHeld, MoveLossless
<1>8. CASE AppendJournal(h)
  <2>1. PICK p \in { "compact", "return", "batching" } : Goto(h, p)
    BY <1>8 DEF AppendJournal, AfterCommit
  <2>2. /\ pc[h] = "append" /\ pc'[h] = p /\ pend'[h] = {}
        /\ UNCHANGED << slot, bits, gen, told >> /\ Appends(h, TRUE)
    BY <1>0, <1>8, <2>1 DEF AppendJournal, TypeOK, Goto, Appends
  <2>3. PICK i \in 0 .. 1 : AppendingTo(h, i)
    BY <1>0, <2>2 DEF HistoryInv
  <2>4. PICK n \in Nat : n = Len(journal)
    BY <1>0
  <2>5. /\ Len(journal') = n + 1
        /\ journal'[n + 1].gen = gen[h] /\ journal'[n + 1].blocks = pend[h]
        /\ journal'[n + 1].whole
        /\ \A k \in 1 .. n : journal'[k] = journal[k]
    <3>1. PICK r \in Record : /\ r = [ gen |-> gen[h], blocks |-> pend[h], whole |-> TRUE ]
                              /\ journal' = Append(journal, r)
      BY <1>0, <2>2, RecordType DEF Appends, TypeOK
    <3>2. r.gen = gen[h] /\ r.blocks = pend[h] /\ r.whole
      BY <3>1
    <3>3. /\ Len(journal') = n + 1 /\ journal'[n + 1] = r
          /\ \A k \in 1 .. n : journal'[k] = journal[k]
      BY <1>0, <2>4, <3>1 DEF TypeOK
    <3> QED
      BY <3>2, <3>3
  <2>6. Newest(i)' /\ told' \subseteq bits'[h]
    BY <2>2, <2>3 DEF AppendingTo, Newest, GoodSlot
  <2>7. Attached(i, n + 1)'
    <3>1. CASE n = 0
      BY <1>0, <2>2, <2>3, <2>4, <2>5, <3>1 DEF AppendingTo, Attached, Reached
    <3>2. CASE n > 0
      BY <2>2, <2>3, <2>4, <2>5, <3>2 DEF AppendingTo, Attached
    <3> QED
      BY <2>4, <3>1, <3>2
  <2>8. HeldBy(bits[h], i, n + 1)'
    <3> SUFFICES ASSUME NEW b \in bits[h]
                 PROVE  \/ b \in slot[i].bits
                        \/ \E k \in 1 .. n + 1 : journal'[k].whole /\ b \in journal'[k].blocks
      BY <2>2 DEF HeldBy, Whole
    <3>1. CASE b \in pend[h]
      BY <2>4, <2>5, <3>1
    <3>2. CASE b \notin pend[h]
      <4>1. \/ b \in slot[i].bits
            \/ \E k \in 1 .. n : journal[k].whole /\ b \in journal[k].blocks
        BY <2>3, <2>4, <3>2 DEF AppendingTo, HeldBy, Whole
      <4> QED
        BY <2>4, <2>5, <4>1
    <3> QED
      BY <3>1, <3>2
  <2>9. Reached(gen[h], i, n + 1)'
    BY <2>2, <2>4, <2>5 DEF Reached
  <2>10. RecoveredFrom(h, i, Len(journal))'
    BY <2>5, <2>6, <2>7, <2>8, <2>9 DEF RecoveredFrom, Attached, HeldBy, Reached
  <2>11. journal' # << >>
    BY <2>4, <2>5
  <2>12. HistoryInv(h)'
    BY <2>2, <2>10, <2>11 DEF HistoryInv, Live
  <2>13. ToldHeld'
    BY <2>2, <2>12, LiveHeld DEF BackedInv, Live
  <2> QED
    BY <1>0, <1>f, <1>8, <2>1, <2>12, <2>13, WriteCuts, MoveLossless
<1>9. CASE WriteCheckpoint(h)
  <2>1. PICK x \in 0 .. 1 :
          x = gen[h] % 2 /\ slot' = [ slot EXCEPT ![x] = Good(gen[h], bits[h]) ]
    BY <1>0, <1>9, ParityType DEF WriteCheckpoint
  <2>2. /\ pc[h] = "compact" /\ Goto(h, "truncate") /\ pc'[h] = "truncate"
        /\ UNCHANGED << journal, bits, gen, pend, told >>
        /\ pend[h] \cap bits[h] = {}
    BY <1>0, <1>9 DEF WriteCheckpoint, session, Goto, TypeOK, HistoryInv, Committing
  <2>3. /\ slot'[x].st = "good" /\ slot'[x].gen = gen[h] /\ slot'[x].bits = bits[h]
        /\ \A j \in 0 .. 1 : j # x => slot'[j] = slot[j]
    BY <1>0, <2>1 DEF TypeOK, Good
  <2>4. PICK i \in 0 .. 1 : RecoveredFrom(h, i, Len(journal))
    BY <1>0, <2>2 DEF HistoryInv, Live
  <2>5. Newest(x)'
    BY <1>0, <1>f, <2>1, <2>3 DEF Newest, GoodSlot, KnowsSlots
  <2>6. Attached(x, Len(journal))'
    BY <1>0, <1>f, <2>2, <2>3 DEF Attached, KnowsJournal
  <2>7. HeldBy(bits[h], x, Len(journal))' /\ told' \subseteq bits'[h]
    BY <2>2, <2>3, <2>4 DEF HeldBy, RecoveredFrom
  <2>8. Reached(gen[h], x, Len(journal))'
    BY <1>0, <2>2, <2>3, <2>4 DEF RecoveredFrom, Reached
  <2>9. RecoveredFrom(h, x, Len(journal))' /\ FoldedInto(h, x)'
    BY <2>2, <2>3, <2>5, <2>6, <2>7, <2>8 DEF RecoveredFrom, FoldedInto
  <2>10. HistoryInv(h)'
    BY <2>2, <2>9 DEF HistoryInv, Live, Committing
  <2> QED
    BY <1>0, <1>f, <1>9, <2>2, <2>10, WriteCuts, CutHeld, MoveLossless
<1>10. CASE TruncateJournal(h)
  <2>1. PICK p \in { "store", "return", "batching" } : Goto(h, p)
    BY <1>10 DEF TruncateJournal, AfterCommit
  <2>2. /\ pc[h] = "truncate" /\ pc'[h] = p /\ journal' = << >>
        /\ UNCHANGED << slot, bits, gen, pend, told >>
        /\ p # "store" => pend[h] = {}
        /\ pend[h] \cap bits[h] = {}
    BY <1>0, <1>10, <2>1
       DEF TruncateJournal, AfterCommit, TypeOK, Goto, HistoryInv, Committing
  <2>3. PICK i \in 0 .. 1 : RecoveredFrom(h, i, Len(journal)) /\ FoldedInto(h, i)
    BY <1>0, <2>2 DEF HistoryInv, Live
  <2>4. Len(journal') = 0 /\ Len(journal') < CompactAt
    BY <1>0, <2>2
  <2>5. RecoveredFrom(h, i, Len(journal))'
    BY <2>2, <2>3, <2>4
       DEF RecoveredFrom, FoldedInto, Newest, GoodSlot, Attached, HeldBy, Reached
  <2>6. HistoryInv(h)'
    BY <2>2, <2>4, <2>5 DEF HistoryInv, Live, Committing
  <2> QED
    BY <1>0, <1>f, <1>10, <2>1, <2>2, <2>6, WriteCuts, CutHeld, MoveLossless
<1>11. CASE CheckpointFails(h)
  <2>1. /\ pc[h] = "compact" /\ Goto(h, "terminal") /\ pc'[h] = "terminal"
        /\ slot' \in SlotReplaced(gen[h] % 2, gen[h], bits[h]) /\ gen[h] % 2 \in 0 .. 1
        /\ UNCHANGED << journal, bits, gen, told >>
    BY <1>0, <1>11, ParityType DEF CheckpointFails, Goto, TypeOK, SlotOutcomes
  <2>2. PICK i \in 0 .. 1 : RecoveredFrom(h, i, Len(journal))
    BY <1>0, <2>1 DEF HistoryInv, Live
  <2>3. PICK x \in 0 .. 1 : RecoveredFrom(h, x, Len(journal))'
    <3>1. CASE slot' = [ slot EXCEPT ![gen[h] % 2] = Good(gen[h], bits[h]) ]
      <4>1. PICK x \in 0 .. 1 : x = gen[h] % 2
        BY <2>1
      <4>2. /\ slot'[x].st = "good" /\ slot'[x].gen = gen[h] /\ slot'[x].bits = bits[h]
            /\ \A j \in 0 .. 1 : j # x => slot'[j] = slot[j]
        BY <1>0, <3>1, <4>1 DEF TypeOK, Good
      <4>3. Newest(x)'
        BY <1>0, <1>f, <4>2 DEF Newest, GoodSlot, KnowsSlots
      <4>4. Attached(x, Len(journal))'
        BY <1>0, <1>f, <2>1, <4>2 DEF Attached, KnowsJournal
      <4>5. HeldBy(bits[h], x, Len(journal))' /\ told' \subseteq bits'[h]
        BY <2>1, <2>2, <4>2 DEF HeldBy, RecoveredFrom
      <4>6. Reached(gen[h], x, Len(journal))'
        BY <1>0, <2>1, <2>2, <4>2 DEF RecoveredFrom, Reached
      <4> QED
        BY <4>3, <4>4, <4>5, <4>6 DEF RecoveredFrom
    <3>2. CASE slot' # [ slot EXCEPT ![gen[h] % 2] = Good(gen[h], bits[h]) ]
      <4>1. \A j \in 0 .. 1 : /\ GoodSlot(j)' <=> GoodSlot(j)
                              /\ GoodSlot(j) => slot'[j] = slot[j]
        <5>1. CASE slot' = slot
          BY <5>1 DEF GoodSlot
        <5>2. CASE slot' # slot
          <6>1. PICK x \in 0 .. 1 : x = gen[h] % 2
            BY <2>1
          <6>2. slot[x].st = "none" /\ slot' = [ slot EXCEPT ![x] = Blank ]
            BY <2>1, <3>2, <5>2, <6>1 DEF SlotReplaced
          <6>3. slot'[x].st = "blank" /\ \A j \in 0 .. 1 : j # x => slot'[j] = slot[j]
            BY <1>0, <6>2 DEF TypeOK, Blank
          <6> QED
            BY <6>2, <6>3 DEF GoodSlot
        <5> QED
          BY <5>1, <5>2
      <4>a. GoodSlot(i) /\ slot'[i] = slot[i]
        BY <2>2, <4>1 DEF RecoveredFrom, Newest
      <4>b. Newest(i)'
        BY <2>2, <4>1, <4>a DEF RecoveredFrom, Newest
      <4>c. Attached(i, Len(journal))' /\ Reached(gen[h], i, Len(journal))'
        BY <2>1, <2>2, <4>a DEF RecoveredFrom, Attached, Reached
      <4>d. HeldBy(bits[h], i, Len(journal))' /\ told' \subseteq bits'[h]
        BY <2>1, <2>2, <4>a DEF RecoveredFrom, HeldBy, Whole
      <4>2. RecoveredFrom(h, i, Len(journal))'
        BY <4>b, <4>c, <4>d DEF RecoveredFrom
      <4> QED
        BY <4>2
    <3> QED
      BY <3>1, <3>2
  <2>4. HistoryInv(h)'
    BY <2>1, <2>3 DEF HistoryInv, Live, Committing
  <2> QED
    BY <1>0, <1>f, <1>11, <2>1, <2>4, WriteCuts, CutHeld, MoveLossless
<1> QED
  BY <1>1, <1>2, <1>3, <1>4, <1>5, <1>6, <1>7, <1>8, <1>9, <1>10, <1>11

-----------------------------------------------------------------------------
(* Nothing told is lost: crashes, failures, close and removal.             *)

\* A session whose variables and files a step leaves alone.
LEMMA SameHistory ==
  ASSUME NEW k \in Handles, HistoryInv(k), UNCHANGED << disk, told >>,
         pc'[k] = pc[k], bits'[k] = bits[k], gen'[k] = gen[k],
         pos'[k] = pos[k], pend'[k] = pend[k]
  PROVE  HistoryInv(k)'
<1>1. \A i \in 0 .. 1 : Newest(i)' <=> Newest(i)
  BY DEF Newest, GoodSlot, disk
<1>2. \A i \in 0 .. 1 :
        /\ ReplayingFrom(k, i)' <=> ReplayingFrom(k, i)
        /\ AppendingTo(k, i)' <=> AppendingTo(k, i)
        /\ FoldedInto(k, i)' <=> FoldedInto(k, i)
        /\ RecoveredFrom(k, i, Len(journal))' <=> RecoveredFrom(k, i, Len(journal))
        /\ RecoveredFrom(k, i, pos[k])' <=> RecoveredFrom(k, i, pos[k])
  BY <1>1 DEF ReplayingFrom, AppendingTo, FoldedInto, RecoveredFrom, Attached, HeldBy,
              Reached, Whole, disk
<1> QED
  BY <1>2 DEF HistoryInv, GoodSlot, disk

\* A step that ends the running session, at whichever point it stood.
LEMMA EndCut ==
  ASSUME LosslessInv, BackedInv', NEW h \in Handles,
         pc[h] \notin { "closed", "failed" },
         NEW p \in { "closed", "failed" }, EndSession(h, p), Cut(h), told' = told
  PROVE  LosslessInv'
<1>1. \A k \in Handles \ { h } : pc[k] \in { "closed", "failed" }
  BY QuietOthers DEF LosslessInv
<1>2. pc'[h] = p /\ \A k \in Handles \ { h } : pc'[k] = pc[k]
  BY DEF LosslessInv, BackedInv, TypeOK, EndSession, Goto
<1>3. JournalLinear' /\ Len(journal') <= CompactAt /\ ToldHeld'
  BY CutLinear, CutHeld DEF Cut
<1> QED
  BY <1>1, <1>2, <1>3, QuietLossless

\* Closing a handle that has already failed touches nothing the others see.
LEMMA FailedCloses ==
  ASSUME LosslessInv, BackedInv', NEW h \in Handles, pc[h] = "failed",
         EndSession(h, "closed"), UNCHANGED << disk, told >>
  PROVE  LosslessInv'
<1>1. /\ pc'[h] = "closed"
      /\ \A k \in Handles \ { h } :
           /\ pc'[k] = pc[k] /\ bits'[k] = bits[k] /\ gen'[k] = gen[k]
           /\ pos'[k] = pos[k] /\ pend'[k] = pend[k]
  BY DEF LosslessInv, BackedInv, TypeOK, EndSession, Goto, ForgetSession
<1>2. \A k \in Handles \ { h } : HistoryInv(k)'
  BY <1>1, SameHistory DEF LosslessInv
<1>3. Cut(h)
  BY SameCuts DEF LosslessInv, BackedInv
<1>4. JournalLinear' /\ Len(journal') <= CompactAt /\ ToldHeld'
  BY <1>3, CutLinear, CutHeld DEF Cut
<1> QED
  BY <1>1, <1>2, <1>4, QuietLossless

\* A removal voids what was told, and leaves a journal that can still be read.
LEMMA RemoveLossless ==
  ASSUME LosslessInv, NEW gone \in SUBSET Files, Remove(gone)
  PROVE  JournalLinear' /\ Len(journal') <= CompactAt /\ ToldHeld'
<1>1. TypeOK /\ JournalLinear /\ Len(journal) <= CompactAt /\ CompactAt \in Nat \ {0}
  BY BlockStoreAssumption DEF LosslessInv, BackedInv
<1>2. \A i \in 0 .. 1 : GoodSlot(i)' => GoodSlot(i) /\ slot'[i] = slot[i]
  BY DEF GoodSlot, Remove, NoFile
<1>3. journal' = journal \/ journal' = << >>
  BY DEF Remove
<1>4. Len(journal') <= CompactAt
  BY <1>1, <1>3
<1>5. ToldHeld'
  BY DEF Remove, ToldHeld
<1> QED
  BY <1>1, <1>2, <1>3, <1>4, <1>5, LinearShrinks

LEMMA EndLossless ==
  ASSUME LosslessInv, BackedInv',
         \/ PowerLoss \/ Removal
         \/ \E h \in Handles :
              \/ LoadCorrupt(h) \/ ReplayCorrupt(h) \/ OpenFails(h)
              \/ WorkerFails(h) \/ TabDies(h) \/ Close(h)
  PROVE  LosslessInv'
<1>0. BackedInv /\ TypeOK
  BY DEF LosslessInv, BackedInv
<1>1. ASSUME NEW h \in Handles, NEW p \in { "closed", "failed" },
             pc[h] \notin { "closed", "failed" }, Interrupted(h), EndSession(h, p), told' = told
      PROVE  LosslessInv'
  <2>1. Cut(h)
    BY <1>0, <1>1, InterruptedType DEF Interrupted, Cut
  <2> QED
    BY <1>1, <2>1, EndCut
<1>2. ASSUME NEW h \in Handles, pc[h] # "closed", EndSession(h, "closed"),
             UNCHANGED << disk, told >>
      PROVE  LosslessInv'
  <2>1. CASE pc[h] = "failed"
    BY <1>2, <2>1, FailedCloses
  <2>2. CASE pc[h] # "failed"
    BY <1>0, <1>2, <2>2, SameCuts, EndCut
  <2> QED
    BY <2>1, <2>2
<1>3. ASSUME NEW h \in Handles, LoadCorrupt(h) \/ ReplayCorrupt(h) \/ Close(h)
      PROVE  LosslessInv'
  <2>1. pc[h] # "closed" /\ EndSession(h, "closed") /\ UNCHANGED << disk, told >>
    BY <1>3 DEF LoadCorrupt, ReplayCorrupt, ReplayStops, Close
  <2> QED
    BY <1>2, <2>1
<1>4. ASSUME NEW h \in Handles, OpenFails(h) \/ WorkerFails(h)
      PROVE  LosslessInv'
  <2>1. PICK p \in { "closed", "failed" } : EndSession(h, p)
    BY <1>4 DEF OpenFails, WorkerFails
  <2>2. pc[h] \notin { "closed", "failed" } /\ Interrupted(h) /\ told' = told
    BY <1>4 DEF OpenFails, WorkerFails, WorkerPhases
  <2> QED
    BY <1>1, <2>1, <2>2
<1>5. ASSUME NEW h \in Handles, TabDies(h)
      PROVE  LosslessInv'
  <2>1. pc[h] # "closed" /\ Interrupted(h) /\ EndSession(h, "closed") /\ told' = told
    BY <1>5 DEF TabDies
  <2>2. CASE pc[h] # "failed"
    BY <1>1, <2>1, <2>2
  <2>3. CASE pc[h] = "failed"
    <3>1. UNCHANGED disk
      BY <2>1, <2>3 DEF Interrupted, SlotOutcomes, JournalOutcomes, PayloadOutcomes, disk
    <3> QED
      BY <1>2, <2>1, <3>1
  <2> QED
    BY <2>2, <2>3
<1>6. CASE PowerLoss
  <2>1. PICK h \in Handles : Cut(h)
    <3>1. PICK h \in Handles :
            /\ slot' \in SlotOutcomes(h)
            /\ journal' \in JournalOutcomes(h)
            /\ \E out \in PayloadOutcomes(h) :
                 /\ written' \in { W \in SUBSET out[1] : out[2] \subseteq W }
                 /\ stable' = written'
      BY <1>6 DEF PowerLoss
    <3> QED
      BY <3>1 DEF Cut
  <2>2. told' = told /\ \A k \in Handles : pc'[k] = "closed"
    BY <1>6 DEF PowerLoss
  <2>3. JournalLinear' /\ Len(journal') <= CompactAt /\ ToldHeld'
    BY <2>1, <2>2, CutLinear, CutHeld DEF Cut
  <2> QED
    BY <2>2, <2>3, QuietLossless
<1>7. ASSUME NEW h \in Handles, NEW p \in { "closed", "unlinked" },
             pc[h] \notin { "closed", "failed" }, Goto(h, p),
             NEW gone \in SUBSET Files, Remove(gone)
      PROVE  LosslessInv'
  <2>1. \A k \in Handles \ { h } : pc[k] \in { "closed", "failed" }
    BY <1>0, <1>7, QuietOthers
  <2>2. \A k \in Handles : pc'[k] \in { "closed", "failed", "unlinked" }
    BY <1>0, <1>7, <2>1 DEF TypeOK, Goto
  <2> QED
    BY <1>7, <2>2, RemoveLossless, QuietLossless
<1>8. ASSUME NEW h \in Handles, Delete(h) \/ DeleteFails(h)
      PROVE  LosslessInv'
  <2>1. pc[h] \notin { "closed", "failed" } /\ \E p \in { "closed", "unlinked" } : Goto(h, p)
    BY <1>8 DEF Delete, DeleteFails, EndSession
  <2>2. \E gone \in SUBSET Files : Remove(gone)
    BY <1>8 DEF Delete, DeleteFails
  <2> QED
    BY <1>7, <2>1, <2>2
<1>9. CASE Discard
  <2>1. owner = NoHandle /\ pc' = pc /\ \E gone \in SUBSET Files : Remove(gone)
    BY <1>9 DEF Discard
  <2>2. \A k \in Handles : pc[k] \in { "closed", "failed" }
    BY <1>0, <2>1, BlockStoreAssumption DEF BackedInv, OneSession, SessionInv
  <2> QED
    BY <2>1, <2>2, RemoveLossless, QuietLossless
<1> QED
  BY <1>3, <1>4, <1>5, <1>6, <1>8, <1>9 DEF Removal

LEMMA LosslessInit == Init => LosslessInv
<1> SUFFICES ASSUME Init PROVE LosslessInv
  OBVIOUS
<1>1. Len(journal) = 0 /\ journal = << >> /\ told = {} /\ CompactAt \in Nat
  BY BlockStoreAssumption DEF Init
<1>2. \A k \in Handles : HistoryInv(k)
  BY DEF Init, HistoryInv, Live, Committing
<1>3. JournalLinear /\ ToldHeld
  BY <1>1 DEF JournalLinear, ToldHeld
<1> QED
  BY <1>1, <1>2, <1>3, BackedInit DEF LosslessInv

LEMMA LosslessNext == LosslessInv /\ [Next]_vars => LosslessInv'
<1> SUFFICES ASSUME LosslessInv, [Next]_vars PROVE LosslessInv'
  OBVIOUS
<1>1. BackedInv'
  BY BackedNext DEF LosslessInv
<1>2. CASE UNCHANGED vars
  <2>1. /\ UNCHANGED << disk, told >> /\ pc' = pc /\ bits' = bits
        /\ gen' = gen /\ pos' = pos /\ pend' = pend
    BY <1>2 DEF vars, session
  <2>2. \A k \in Handles : HistoryInv(k)'
    BY <2>1, SameHistory DEF LosslessInv
  <2>3. JournalLinear' /\ ToldHeld' /\ Len(journal') <= CompactAt
    BY <2>1 DEF LosslessInv, JournalLinear, ToldHeld, Newest, Attached, HeldBy,
                GoodSlot, Whole, disk
  <2> QED
    BY <1>1, <2>2, <2>3 DEF LosslessInv
<1>3. CASE PowerLoss \/ Removal
  BY <1>1, <1>3, EndLossless
<1>4. ASSUME NEW h \in Handles, SessionStep(h)
      PROVE  LosslessInv'
  BY <1>1, <1>4, OpenLossless, WriteLossless, EndLossless DEF SessionStep
<1> QED
  BY <1>2, <1>3, <1>4 DEF Next, StoreStep

\* In every reachable state a replay of the files finds what callers were told.
THEOREM AlwaysLossless == Spec => []LosslessInv
<1>1. Init => LosslessInv
  BY LosslessInit
<1>2. LosslessInv /\ [Next]_vars => LosslessInv'
  BY LosslessNext
<1> QED
  BY <1>1, <1>2, PTL DEF Spec

\* What a caller was told is received, every later session of the store still
\* has: no crash, worker failure or compaction takes a receipt back.
THEOREM ToldReceiptsSurvive == Spec => []ToldSurvives
<1>1. LosslessInv => ToldSurvives
  <2> SUFFICES ASSUME LosslessInv, NEW h \in Handles, pc[h] \in Live
               PROVE  told \subseteq bits[h]
    BY DEF ToldSurvives
  <2> QED
    BY LosslessFacts DEF HistoryInv, AppendingTo, RecoveredFrom
<1> QED
  BY <1>1, AlwaysLossless, PTL

\* The two refusals of loadOpfsState meet only stores that told nobody anything.
LEMMA RefusalFree ==
  ASSUME LosslessInv, NEW h \in Handles, LoadCorrupt(h) \/ ReplayCorrupt(h)
  PROVE  told = {}
<1>0. /\ TypeOK /\ SessionInv(h) /\ HistoryInv(h) /\ ToldHeld
      /\ stable \subseteq written /\ written \subseteq Blocks
  BY LosslessFacts DEF TypeOK
<1> SUFFICES ASSUME told # {} PROVE FALSE
  OBVIOUS
<1>1. CASE LoadCorrupt(h)
  BY <1>0, <1>1 DEF LoadCorrupt, ToldHeld, Newest, GoodSlot, Candidates
<1>2. CASE ReplayCorrupt(h)
  <2>1. pc[h] = "replaying" /\ PayloadTooShort(h)
    BY <1>2 DEF ReplayCorrupt, ReplayStops
  <2>2. told \subseteq stable /\ written # {}
    BY <1>0 DEF ToldHeld
  <2>3. bits[h] \subseteq written
    BY <1>0, <2>1, <2>2 DEF SessionInv
  <2>4. PICK b \in bits[h] : \A w \in written : w < b
    BY <2>1 DEF PayloadTooShort
  <2>5. b \in written
    BY <2>3, <2>4
  <2>6. b \in 0 .. NumBlocks - 1 /\ NumBlocks \in Nat
    BY <1>0, <2>5, BlockStoreAssumption DEF Blocks
  <2>7. ~ (b < b)
    BY <2>6
  <2> QED
    BY <2>4, <2>5, <2>7
<1> QED
  BY <1>1, <1>2

\* A store is never stuck on its own history: the journal can always be appended
\* to and read back, and a refusal as corrupt never costs anybody a receipt.
THEOREM StoreStaysUsable == Spec => StaysUsable
<1>1. LosslessInv => JournalUsable
  <2> SUFFICES ASSUME LosslessInv PROVE JournalUsable
    OBVIOUS
  <2>1. Len(journal) \in Nat /\ Len(journal) <= CompactAt /\ CompactAt \in Nat
    BY DiskTypes, BlockStoreAssumption DEF LosslessInv, BackedInv
  <2>2. JournalFitsPrefix
    BY <2>1 DEF JournalFitsPrefix, MaxPrefix
  <2>3. JournalPosition
    BY DEF LosslessInv, BackedInv, SessionInv, JournalPosition
  <2> QED
    BY <2>2, <2>3 DEF JournalUsable
<1>2. LosslessInv /\ [Next]_vars =>
        [\A h \in Handles : LoadCorrupt(h) \/ ReplayCorrupt(h) => told = {}]_vars
  BY RefusalFree
<1>3. Spec => []JournalUsable
  BY <1>1, AlwaysLossless, PTL
<1>4. Spec => RefusalLosesNothing
  BY <1>2, AlwaysLossless, PTL DEF Spec, RefusalLosesNothing
<1> QED
  BY <1>3, <1>4, PTL DEF StaysUsable
=============================================================================
