----------------------------- MODULE BlockStore -----------------------------
(***************************************************************************)
(* The durable receive store of src/lib/block-store.ts together with its   *)
(* synchronous-access worker src/lib/block-store.worker.ts.                *)
(*                                                                         *)
(* One store directory in the Origin Private File System holds a payload   *)
(* file (each block at its own offset), a receipt journal and two          *)
(* checkpoint slots.  Several tabs (Handles) may try to open it; the one   *)
(* that holds the store's Web Lock runs one session.  A session's          *)
(* operations are serial (the operation queue), so its control state is    *)
(* one phase per handle, and every await at which a crash, a worker        *)
(* failure or another tab can be observed is a phase of its own.           *)
(*                                                                         *)
(* Abstracted: bytes (a block's content is right or not there), checksums  *)
(* (a record or a slot is whole or not), record length (every journal      *)
(* record has length one), the identity of the stored transfer (all        *)
(* handles ask for the same configuration).                                *)
(***************************************************************************)
EXTENDS Integers, Sequences, FiniteSets

CONSTANTS
  Handles,       \* the tabs that may open the store
  NoHandle,      \* owner of the lock when it is free
  NumBlocks,     \* totalBlocks
  MaxCommit,     \* MAX_BLOCKS_PER_COMMIT
  CompactAt      \* journal length at which it is folded into a checkpoint

ASSUME BlockStoreAssumption ==
  /\ NoHandle \notin Handles
  /\ NumBlocks \in Nat
  /\ MaxCommit \in Nat \ {0}
  /\ CompactAt \in Nat \ {0}

Blocks == 0 .. NumBlocks - 1

Phases ==
  { "closed",                                          \* no session
    "loading", "creating", "initial", "replaying", "opening",  \* open()
    "idle",                                            \* queue empty
    "batching", "store", "flush", "append", "return",  \* writeBlocks()
    "compact", "truncate",                             \* compactJournal()
    "terminal", "failed", "orphan", "unlinked" }       \* after an error

SlotStates == { "none", "blank", "good" }
Slot   == [ st : SlotStates, gen : Nat, bits : SUBSET Blocks ]
Record == [ gen : Nat, blocks : SUBSET Blocks, whole : BOOLEAN ]

NoFile == [ st |-> "none",  gen |-> 0, bits |-> {} ]
Blank  == [ st |-> "blank", gen |-> 0, bits |-> {} ]
Good(g, B) == [ st |-> "good", gen |-> g, bits |-> B ]

VARIABLES
  written,   \* blocks whose payload bytes a reader of the payload file sees
  stable,    \* those of them that a power loss cannot take back
  slot,      \* the two checkpoint files
  journal,   \* the receipt journal
  owner,     \* the handle that holds the store's exclusive Web Lock
  pc,        \* phase of each handle
  bits,      \* state.bits of each handle
  gen,       \* state.generation of each handle
  pos,       \* journalBytes of each handle (replay offset while opening)
  pend,      \* pendingIndices of each handle
  ending,    \* has the caller's iterable ended?
  told       \* blocks some caller was told are received (history variable)

disk    == << written, stable, slot, journal >>
session == << bits, gen, pos, pend, ending >>
vars    == << disk, owner, pc, session, told >>

TypeOK ==
  /\ written \in SUBSET Blocks
  /\ stable \in SUBSET written
  /\ slot \in [ 0 .. 1 -> Slot ]
  /\ journal \in Seq(Record)
  /\ owner \in Handles \cup { NoHandle }
  /\ pc \in [ Handles -> Phases ]
  /\ bits \in [ Handles -> SUBSET Blocks ]
  /\ gen \in [ Handles -> Nat ]
  /\ pos \in [ Handles -> Nat ]
  /\ pend \in [ Handles -> SUBSET Blocks ]
  /\ ending \in [ Handles -> BOOLEAN ]
  /\ told \in SUBSET Blocks

Init ==
  /\ written = {} /\ stable = {}
  /\ slot = [ i \in 0 .. 1 |-> NoFile ]
  /\ journal = << >>
  /\ owner = NoHandle
  /\ pc = [ h \in Handles |-> "closed" ]
  /\ bits = [ h \in Handles |-> {} ]
  /\ gen = [ h \in Handles |-> 0 ]
  /\ pos = [ h \in Handles |-> 0 ]
  /\ pend = [ h \in Handles |-> {} ]
  /\ ending = [ h \in Handles |-> FALSE ]
  /\ told = {}

Goto(h, phase) == pc' = [ pc EXCEPT ![h] = phase ]

\* The session's memory is of no further use: the handle refuses every call.
ForgetSession(h) ==
  /\ bits' = [ bits EXCEPT ![h] = {} ]
  /\ gen' = [ gen EXCEPT ![h] = 0 ]
  /\ pos' = [ pos EXCEPT ![h] = 0 ]
  /\ pend' = [ pend EXCEPT ![h] = {} ]
  /\ ending' = [ ending EXCEPT ![h] = FALSE ]

\* lease.release() is memoized: it frees the lock only if this handle has it.
Release(h) == owner' = IF owner = h THEN NoHandle ELSE owner

EndSession(h, phase) == Goto(h, phase) /\ ForgetSession(h) /\ Release(h)

-----------------------------------------------------------------------------
(* Opening: OpfsBlockStore.open and loadOpfsState.                         *)

Existing   == { i \in 0 .. 1 : slot[i].st # "none" }
Candidates == { i \in 0 .. 1 : slot[i].st = "good" }

\* acquireStoreLock with ifAvailable: a second tab is told BUSY and changes
\* nothing.
Open(h) ==
  /\ pc[h] = "closed"
  /\ owner = NoHandle
  /\ owner' = h
  /\ Goto(h, "loading")
  /\ UNCHANGED << disk, session, told >>

\* No checkpoint file at all: a new store.
LoadNew(h) ==
  /\ pc[h] = "loading"
  /\ Existing = {}
  /\ Goto(h, "creating")
  /\ UNCHANGED << disk, owner, session, told >>

\* Checkpoint files exist and none decodes: CORRUPT_STORE.
LoadCorrupt(h) ==
  /\ pc[h] = "loading"
  /\ Existing # {} /\ Candidates = {}
  /\ EndSession(h, "closed")
  /\ UNCHANGED << disk, told >>

\* Replay starts from the whole checkpoint of the highest generation.
LoadBest(h) ==
  /\ pc[h] = "loading"
  /\ \E i \in Candidates :
       /\ \A j \in Candidates : slot[j].gen <= slot[i].gen
       /\ bits' = [ bits EXCEPT ![h] = slot[i].bits ]
       /\ gen' = [ gen EXCEPT ![h] = slot[i].gen ]
  /\ pos' = [ pos EXCEPT ![h] = 0 ]
  /\ Goto(h, "replaying")
  /\ UNCHANGED << disk, owner, pend, ending, told >>

\* Mutant: the payload of a removed copy is not emptied.
ResetFilesKeepingPayload(h) ==
  /\ pc[h] = "creating"
  /\ written' = {} /\ stable' = stable
  /\ journal' = << >>
  /\ Goto(h, "initial")
  /\ UNCHANGED << slot, owner, session, told >>

\* replaceFile(data, empty); replaceFile(journal, empty).
ResetFiles(h) ==
  /\ pc[h] = "creating"
  /\ written' = {} /\ stable' = {}
  /\ journal' = << >>
  /\ Goto(h, "initial")
  /\ UNCHANGED << slot, owner, session, told >>

\* writeCheckpoint(createInitialState(config)): generation 1, slot 1.
CreateCheckpoint(h) ==
  /\ pc[h] = "initial"
  /\ slot' = [ slot EXCEPT ![1] = Good(1, {}) ]
  /\ bits' = [ bits EXCEPT ![h] = {} ]
  /\ gen' = [ gen EXCEPT ![h] = 1 ]
  /\ pos' = [ pos EXCEPT ![h] = 0 ]
  /\ Goto(h, "opening")
  /\ UNCHANGED << written, stable, journal, owner, pend, ending, told >>

\* One record of replayJournal's loop, as judged at its turn.
Skips(h, rec)   == rec.whole /\ rec.gen <= gen[h]
Applies(h, rec) == rec.whole /\ rec.gen = gen[h] + 1 /\ rec.blocks \cap bits[h] = {}

\* The bounded prefix that is read back: a threshold and one more record.
MaxPrefix == CompactAt + 1

HasNext(h) == pos[h] < Len(journal) /\ pos[h] < MaxPrefix

ReplaySkip(h) ==
  /\ pc[h] = "replaying"
  /\ HasNext(h)
  /\ Skips(h, journal[pos[h] + 1])
  /\ pos' = [ pos EXCEPT ![h] = @ + 1 ]
  /\ UNCHANGED << disk, owner, pc, bits, gen, pend, ending, told >>

ReplayApply(h) ==
  /\ pc[h] = "replaying"
  /\ HasNext(h)
  /\ LET rec == journal[pos[h] + 1] IN
       /\ Applies(h, rec)
       /\ bits' = [ bits EXCEPT ![h] = @ \cup rec.blocks ]
       /\ gen' = [ gen EXCEPT ![h] = rec.gen ]
  /\ pos' = [ pos EXCEPT ![h] = @ + 1 ]
  /\ UNCHANGED << disk, owner, pc, pend, ending, told >>

ReplayStops(h) ==
  /\ pc[h] = "replaying"
  /\ HasNext(h) => LET rec == journal[pos[h] + 1]
                   IN  ~ Skips(h, rec) /\ ~ Applies(h, rec)

\* The payload file ends before the highest receipted block does.
PayloadTooShort(h) == \E b \in bits[h] : \A w \in written : w < b

ReplayDone(h) ==
  /\ ReplayStops(h)
  /\ ~ PayloadTooShort(h)
  /\ Goto(h, "opening")
  /\ UNCHANGED << disk, owner, session, told >>

\* CORRUPT_STORE: receipts without payload.
ReplayCorrupt(h) ==
  /\ ReplayStops(h)
  /\ PayloadTooShort(h)
  /\ EndSession(h, "closed")
  /\ UNCHANGED << disk, told >>

\* The worker opens both files and cuts the journal to its validated prefix.
\* The caller reads the recovered receipts from the new handle.
OpenWorker(h) ==
  /\ pc[h] = "opening"
  /\ pos[h] <= Len(journal)
  /\ journal' = SubSeq(journal, 1, pos[h])
  /\ told' = told \cup bits[h]
  /\ Goto(h, "idle")
  /\ UNCHANGED << written, stable, slot, owner, session >>
-----------------------------------------------------------------------------
(* writeBlocks(): one call, its blocks supplied one at a time.             *)

WriteBlocks(h) ==
  /\ pc[h] = "idle"
  /\ Goto(h, "batching")
  /\ ending' = [ ending EXCEPT ![h] = FALSE ]
  /\ UNCHANGED << disk, owner, bits, gen, pos, pend, told >>

\* Mutant: the inherited journal is not folded first.
TakeBlockWithoutFolding(h) ==
  /\ pc[h] = "batching"
  /\ \E b \in Blocks \ (bits[h] \cup pend[h]) :
       pend' = [ pend EXCEPT ![h] = @ \cup { b } ]
  /\ Goto(h, "store")
  /\ UNCHANGED << disk, owner, bits, gen, pos, ending, told >>

\* A block that is neither receipted nor pending (a duplicate changes
\* nothing).  The first one of a commit creates the batch writer, which
\* compacts an inherited journal that already reached the threshold.
TakeBlock(h) ==
  /\ pc[h] = "batching"
  /\ \E b \in Blocks \ (bits[h] \cup pend[h]) :
       pend' = [ pend EXCEPT ![h] = @ \cup { b } ]
  /\ Goto(h, IF pend[h] = {} /\ pos[h] >= CompactAt THEN "compact" ELSE "store")
  /\ UNCHANGED << disk, owner, bits, gen, pos, ending, told >>

\* worker.writePayload: visible, not yet durable.
StoreBlock(h) ==
  /\ pc[h] = "store"
  /\ written' = written \cup pend[h]
  /\ Goto(h, IF Cardinality(pend[h]) >= MaxCommit THEN "flush" ELSE "batching")
  /\ UNCHANGED << stable, slot, journal, owner, session, told >>

\* The iterable ends: commit what is pending, or return at once.
EndOfBlocks(h) ==
  /\ pc[h] = "batching"
  /\ ending' = [ ending EXCEPT ![h] = TRUE ]
  /\ Goto(h, IF pend[h] = {} THEN "return" ELSE "flush")
  /\ UNCHANGED << disk, owner, bits, gen, pos, pend, told >>

\* The iterable throws or yields an invalid block: abort the batch, reject.
BlocksFail(h) ==
  /\ pc[h] = "batching"
  /\ pend' = [ pend EXCEPT ![h] = {} ]
  /\ Goto(h, "idle")
  /\ UNCHANGED << disk, owner, bits, gen, pos, ending, told >>

\* Mutant: receipts follow the write without waiting for the flush.
FlushPayloadSkipped(h) ==
  /\ pc[h] = "flush"
  /\ bits' = [ bits EXCEPT ![h] = @ \cup pend[h] ]
  /\ gen' = [ gen EXCEPT ![h] = @ + 1 ]
  /\ Goto(h, "append")
  /\ UNCHANGED << disk, owner, pos, pend, ending, told >>

\* commit() flushed the payload; the receipt is set in memory.
FlushPayload(h) ==
  /\ pc[h] = "flush"
  /\ stable' = written
  /\ bits' = [ bits EXCEPT ![h] = @ \cup pend[h] ]
  /\ gen' = [ gen EXCEPT ![h] = @ + 1 ]
  /\ Goto(h, "append")
  /\ UNCHANGED << written, slot, journal, owner, pos, pend, ending, told >>

AfterCommit(h) == IF ending[h] THEN "return" ELSE "batching"

\* persistState: the worker checks the offset, appends the record, flushes.
AppendJournal(h) ==
  /\ pc[h] = "append"
  /\ Len(journal) = pos[h]
  /\ journal' = Append(journal, [ gen |-> gen[h], blocks |-> pend[h], whole |-> TRUE ])
  /\ pos' = [ pos EXCEPT ![h] = @ + 1 ]
  /\ pend' = [ pend EXCEPT ![h] = {} ]
  /\ Goto(h, IF pos[h] + 1 >= CompactAt THEN "compact" ELSE AfterCommit(h))
  /\ UNCHANGED << written, stable, slot, owner, bits, gen, ending, told >>

\* Mutant: the journal is emptied before the checkpoint is written.
WriteCheckpointLast(h) ==
  /\ pc[h] = "compact"
  /\ journal' = << >>
  /\ Goto(h, "truncate")
  /\ UNCHANGED << written, stable, slot, owner, session, told >>

\* compactJournal, first half.  The slot is chosen by the generation's parity
\* and its file is replaced atomically.
WriteCheckpoint(h) ==
  /\ pc[h] = "compact"
  /\ slot' = [ slot EXCEPT ![gen[h] % 2] = Good(gen[h], bits[h]) ]
  /\ Goto(h, "truncate")
  /\ UNCHANGED << written, stable, journal, owner, session, told >>

\* compactJournal, second half.  A block that waited for it is stored next.
TruncateJournal(h) ==
  /\ pc[h] = "truncate"
  /\ journal' = << >>
  /\ pos' = [ pos EXCEPT ![h] = 0 ]
  /\ Goto(h, IF pend[h] # {} THEN "store" ELSE AfterCommit(h))
  /\ UNCHANGED << written, stable, slot, owner, bits, gen, pend, ending, told >>

\* The call resolves: every receipt the handle shows is now relied upon.
Return(h) ==
  /\ pc[h] = "return"
  /\ told' = told \cup bits[h]
  /\ Goto(h, "idle")
  /\ UNCHANGED << disk, owner, session >>
-----------------------------------------------------------------------------
(* Errors, crashes and what an interrupted step leaves on disk.            *)

\* Mutant: the slot's file is overwritten in place.
SlotOverwritten(i, g, B) ==
  { slot, [ slot EXCEPT ![i] = Good(g, B) ], [ slot EXCEPT ![i] = Blank ] }

\* replaceFile on a slot: untouched, created but still empty, or replaced.
SlotReplaced(i, g, B) ==
  { slot, [ slot EXCEPT ![i] = Good(g, B) ] } \cup
  (IF slot[i].st = "none" THEN { [ slot EXCEPT ![i] = Blank ] } ELSE {})

SlotOutcomes(h) ==
  CASE pc[h] = "initial" -> SlotReplaced(1, 1, {})
    [] pc[h] \in { "compact", "orphan" } -> SlotReplaced(gen[h] % 2, gen[h], bits[h])
    [] OTHER -> { slot }

\* An interrupted append leaves nothing, a torn record or the whole record.
JournalOutcomes(h) ==
  CASE pc[h] = "append" ->
         { journal } \cup
         { Append(journal, [ gen |-> gen[h], blocks |-> pend[h], whole |-> w ]) :
             w \in BOOLEAN }
    [] pc[h] \in { "truncate", "creating" } -> { journal, << >> }
    [] pc[h] = "opening" /\ pos[h] <= Len(journal) ->
         { journal, SubSeq(journal, 1, pos[h]) }
    [] OTHER -> { journal }

PayloadOutcomes(h) ==
  CASE pc[h] = "store" -> { << written, stable >>, << written \cup pend[h], stable >> }
    [] pc[h] = "flush" -> { << written, stable >>, << written, written >> }
    [] pc[h] = "creating" -> { << written, stable >>, << {}, {} >> }
    [] OTHER -> { << written, stable >> }

Interrupted(h) ==
  /\ slot' \in SlotOutcomes(h)
  /\ journal' \in JournalOutcomes(h)
  /\ \E out \in PayloadOutcomes(h) : written' = out[1] /\ stable' = out[2]

WorkerPhases ==
  { "idle", "batching", "store", "flush", "append", "truncate", "return", "terminal" }

\* OpfsSyncWorkerClient.fail: an error response or a dead worker ends the
\* session for good and frees the lock.  The receipt set in memory before a
\* failed append goes with the session.  The worker has no request while a
\* checkpoint is written, so phase "compact" is not among these (but see
\* WorkerDiesInCheckpoint).
WorkerFails(h) ==
  /\ pc[h] \in WorkerPhases
  /\ Interrupted(h)
  /\ EndSession(h, "failed")
  /\ UNCHANGED told

\* createWritable, write or close of a checkpoint failed while the worker
\* lives: the receipt is durable, the session is terminal, the lock is kept.
CheckpointFails(h) ==
  /\ pc[h] = "compact"
  /\ slot' \in SlotOutcomes(h)
  /\ pend' = [ pend EXCEPT ![h] = {} ]
  /\ Goto(h, "terminal")
  /\ UNCHANGED << written, stable, journal, owner, bits, gen, pos, ending, told >>

\* Quota, I/O or worker error before the handle exists.
OpenFails(h) ==
  /\ pc[h] \in { "loading", "creating", "initial", "replaying", "opening" }
  /\ Interrupted(h)
  /\ EndSession(h, "closed")
  /\ UNCHANGED told

\* The tab dies: the browser frees its lock, the page cache survives.
TabDies(h) ==
  /\ pc[h] \notin { "closed", "orphan" }
  /\ Interrupted(h)
  /\ EndSession(h, "closed")
  /\ UNCHANGED told

\* Power loss: every session is gone, and payload that was not flushed may be.
\* A whole record that a dying worker left appended but not flushed is taken to
\* stay: only the interrupted append itself may leave none, part or all of it.
PowerLoss ==
  /\ \E h \in Handles :
       /\ \A k \in Handles \ { h } : pc[k] \in { "closed", "failed" }
       /\ slot' \in SlotOutcomes(h)
       /\ journal' \in JournalOutcomes(h)
       /\ \E out \in PayloadOutcomes(h) :
            /\ written' \in { W \in SUBSET out[1] : out[2] \subseteq W }
            /\ stable' = written'
  /\ owner' = NoHandle
  /\ pc' = [ h \in Handles |-> "closed" ]
  /\ bits' = [ h \in Handles |-> {} ]
  /\ gen' = [ h \in Handles |-> 0 ]
  /\ pos' = [ h \in Handles |-> 0 ]
  /\ pend' = [ h \in Handles |-> {} ]
  /\ ending' = [ h \in Handles |-> FALSE ]
  /\ UNCHANGED told

\* close(): waits for the queue, releases the lock once.
Close(h) ==
  /\ pc[h] \in { "idle", "terminal", "unlinked", "failed" }
  /\ EndSession(h, "closed")
  /\ UNCHANGED << disk, told >>
-----------------------------------------------------------------------------
(* Deletion.  A recursive removal that fails or is cut short may have       *)
(* removed any of the files.                                                *)

Files == { "payload", "journal", "slot0", "slot1" }

Remove(gone) ==
  /\ written' = IF "payload" \in gone THEN {} ELSE written
  /\ stable' = IF "payload" \in gone THEN {} ELSE stable
  /\ journal' = IF "journal" \in gone THEN << >> ELSE journal
  /\ slot' = [ i \in 0 .. 1 |->
                 IF (IF i = 0 THEN "slot0" ELSE "slot1") \in gone
                 THEN NoFile ELSE slot[i] ]
  /\ told' = {}

\* delete() by the live handle, under its lock.
Delete(h) ==
  /\ pc[h] \in { "idle", "terminal", "unlinked" }
  /\ Remove(Files)
  /\ EndSession(h, "closed")

\* Mutant: a finally block frees the lock although the removal must be retried.
DeleteFailsUnlocking(h) ==
  /\ pc[h] \in { "idle", "terminal", "unlinked" }
  /\ \E gone \in SUBSET Files : Remove(gone)
  /\ EndSession(h, "unlinked")

\* removeEntry failed: the worker is closed, the lock is kept for a retry.
DeleteFails(h) ==
  /\ pc[h] \in { "idle", "terminal", "unlinked" }
  /\ \E gone \in SUBSET Files : Remove(gone)
  /\ Goto(h, "unlinked")
  /\ ForgetSession(h)
  /\ UNCHANGED owner

\* discardOpfsBlockStore and deleteAllBlockStores: under the lock, no handle.
Discard ==
  /\ owner = NoHandle
  /\ \E gone \in SUBSET Files : Remove(gone)
  /\ UNCHANGED << owner, pc, session >>

Removal ==
  \/ \E h \in Handles : Delete(h) \/ DeleteFails(h)
  \/ Discard

SessionStep(h) ==
  \/ Open(h) \/ LoadNew(h) \/ LoadCorrupt(h) \/ LoadBest(h)
  \/ ResetFiles(h) \/ CreateCheckpoint(h)
  \/ ReplaySkip(h) \/ ReplayApply(h) \/ ReplayDone(h) \/ ReplayCorrupt(h)
  \/ OpenWorker(h) \/ OpenFails(h)
  \/ WriteBlocks(h) \/ TakeBlock(h) \/ StoreBlock(h) \/ EndOfBlocks(h)
  \/ BlocksFail(h) \/ FlushPayload(h) \/ AppendJournal(h)
  \/ WriteCheckpoint(h) \/ TruncateJournal(h) \/ Return(h)
  \/ WorkerFails(h) \/ CheckpointFails(h) \/ TabDies(h) \/ Close(h)

StoreStep == (\E h \in Handles : SessionStep(h)) \/ PowerLoss

Next == StoreStep \/ Removal

Spec == Init /\ [][Next]_vars
-----------------------------------------------------------------------------
(* The same store, never removed, when a worker may also die while the page *)
(* is inside createWritable: the lock is freed at once and the checkpoint   *)
(* write goes on.                                                           *)

WorkerDiesInCheckpoint(h) ==
  /\ pc[h] = "compact"
  /\ Goto(h, "orphan")
  /\ Release(h)
  /\ UNCHANGED << disk, session, told >>

OrphanCheckpoint(h) ==
  /\ pc[h] = "orphan"
  /\ slot' \in SlotOutcomes(h)
  /\ EndSession(h, "failed")
  /\ UNCHANGED << written, stable, journal, told >>

NextLate ==
  StoreStep \/ \E h \in Handles : WorkerDiesInCheckpoint(h) \/ OrphanCheckpoint(h)

SpecLate == Init /\ [][NextLate]_vars
-----------------------------------------------------------------------------
(* Properties.                                                             *)

\* A handle whose open() completed and that may still do I/O.
Live == { "idle", "batching", "store", "flush", "append", "return",
          "compact", "truncate", "terminal" }

\* A crash can never mark unwritten data as received (block-store.ts:6-8):
\* every receipt a live handle shows has its payload flushed, so reads,
\* acknowledgements and verification may rely on it.
ReceiptsBacked ==
  \A h \in Handles : pc[h] \in Live => bits[h] \subseteq stable

\* What a caller was told is received, a later session of the store still
\* has: no crash, worker failure or compaction at any point takes a receipt
\* back (only deletion voids it).
ToldSurvives ==
  \A h \in Handles : pc[h] \in Live => told \subseteq bits[h]

\* A store that held receipts a caller was told of is never refused as corrupt:
\* the two CORRUPT_STORE paths of loadOpfsState meet only stores that told
\* nobody anything (or that a removal has cut).
RefusalLosesNothing ==
  [][ \A h \in Handles : LoadCorrupt(h) \/ ReplayCorrupt(h) => told = {} ]_vars

\* The Web Lock: at most one handle has files open, and it is the owner.
OneSession ==
  \A h \in Handles : pc[h] \notin { "closed", "failed", "orphan" } => owner = h

\* Two sessions never have the files open together, in any well-typed state,
\* whichever one crashes, fails or loses its worker while it releases the lock.
SessionsExclude == TypeOK /\ OneSession

\* The offset a live session will pass to append-journal is the end of the
\* file, so the worker's position check (worker.ts:74-77) never trips.
JournalPosition ==
  \A h \in Handles : pc[h] \in Live => pos[h] = Len(journal)

\* Reopen-and-write loops never grow the journal beyond the prefix that
\* loadOpfsState reads back.
JournalFitsPrefix == Len(journal) <= MaxPrefix

\* Whatever crashes, reopenings and writes follow each other, the journal can be
\* appended to and read back.
JournalUsable == JournalPosition /\ JournalFitsPrefix

\* A store is never stuck on its own history: its journal stays usable, and a
\* refusal as corrupt never costs a caller anything it was told.
StaysUsable == []JournalUsable /\ RefusalLosesNothing

\* Folding the journal leaves the previous snapshot as a recovery point
\* (block-store.ts:8-10): a checkpoint write never replaces the newest one.
OtherSnapshotKept ==
  [][ \A h \in Handles : WriteCheckpoint(h) =>
        \E i \in Candidates :
           /\ \A j \in Candidates : slot[j].gen <= slot[i].gen
           /\ slot'[i] = slot[i] ]_vars
-----------------------------------------------------------------------------
(* The inductive invariant behind ReceiptsBacked.  Everything on disk is a  *)
(* snapshot of one growing set of receipts, ordered by generation.          *)

GoodSlot(i) == slot[i].st = "good"
Whole(k)    == journal[k].whole

\* A checkpoint lies in the slot of its generation's parity.
SlotParity == \A i \in 0 .. 1 : GoodSlot(i) => slot[i].gen % 2 = i

\* A younger snapshot holds every receipt of an older one.
Chain ==
  /\ \A i, j \in 0 .. 1 :
       GoodSlot(i) /\ GoodSlot(j) /\ slot[i].gen <= slot[j].gen
         => slot[i].bits \subseteq slot[j].bits
  /\ \A i \in 0 .. 1 : \A k \in 1 .. Len(journal) :
       GoodSlot(i) /\ Whole(k) /\ journal[k].gen <= slot[i].gen
         => journal[k].blocks \subseteq slot[i].bits
  /\ \A k, m \in 1 .. Len(journal) :
       k < m /\ Whole(k) /\ Whole(m) => journal[k].gen < journal[m].gen

\* What the disk claims is flushed, unless the payload file is gone.
DiskBacked ==
  \/ written = {}
  \/ /\ \A i \in 0 .. 1 : GoodSlot(i) => slot[i].bits \subseteq stable
     /\ \A k \in 1 .. Len(journal) : Whole(k) => journal[k].blocks \subseteq stable

\* A session that loaded a checkpoint knows at least what every slot knows.
KnowsSlots(h) ==
  \A i \in 0 .. 1 :
    GoodSlot(i) => slot[i].gen <= gen[h] /\ slot[i].bits \subseteq bits[h]

\* It knows the first n journal records.
KnowsJournal(h, n) ==
  \A k \in 1 .. n :
    Whole(k) /\ journal[k].gen <= gen[h] /\ journal[k].blocks \subseteq bits[h]

\* A record it has yet to replay and would skip tells it nothing new.
SkipsSafely(h) ==
  \A k \in 1 .. Len(journal) :
    Whole(k) /\ journal[k].gen <= gen[h] => journal[k].blocks \subseteq bits[h]

\* The phases in which a batch may be pending.
Committing == { "batching", "store", "flush", "append", "compact", "truncate" }

SessionInv(h) ==
  /\ pc[h] # "orphan"
  /\ pc[h] \in { "creating", "initial" } => Existing = {}
  /\ pc[h] = "initial" => written = {} /\ journal = << >>
  /\ pc[h] \in { "replaying", "opening" } =>
       pos[h] <= Len(journal) /\ KnowsSlots(h) /\ KnowsJournal(h, pos[h])
  /\ pc[h] = "replaying" =>
       SkipsSafely(h) /\ (bits[h] \subseteq stable \/ written = {})
  /\ pc[h] = "opening" => bits[h] \subseteq stable
  /\ pc[h] \in Live =>
       /\ pos[h] = Len(journal)
       /\ KnowsSlots(h)
       /\ KnowsJournal(h, Len(journal))
       /\ bits[h] \subseteq stable
  /\ pc[h] \notin Committing => pend[h] = {}
  /\ pc[h] \in { "batching", "flush" } => pend[h] \subseteq written
  /\ pc[h] = "append" =>
       /\ pend[h] \subseteq bits[h]
       /\ \A i \in 0 .. 1 : GoodSlot(i) => slot[i].gen < gen[h]
       /\ \A k \in 1 .. Len(journal) : journal[k].gen < gen[h]

BackedInv ==
  /\ TypeOK
  /\ OneSession
  /\ SlotParity
  /\ Chain
  /\ DiskBacked
  /\ \A h \in Handles : SessionInv(h)
-----------------------------------------------------------------------------
(* The inductive invariant behind ToldSurvives and StaysUsable.  The journal *)
(* continues the newest checkpoint record by record, so that a replay cannot *)
(* stop before it has found everything a caller was told of.                 *)

\* The checkpoint that a session opened now would start from.
Newest(i) == GoodSlot(i) /\ \A j \in 0 .. 1 : GoodSlot(j) => slot[j].gen <= slot[i].gen

\* Each commit left one record of the next generation and of new blocks, only the
\* last one can be torn, and no checkpoint is ahead of the journal.
JournalLinear ==
  /\ \A k \in 1 .. Len(journal) : k < Len(journal) =>
       Whole(k) /\ journal[k + 1].gen = journal[k].gen + 1
  /\ \A k, m \in 1 .. Len(journal) :
       k < m => journal[k].blocks \cap journal[m].blocks = {}
  /\ \A i \in 0 .. 1 : \A k \in 1 .. Len(journal) :
       GoodSlot(i) /\ slot[i].gen < journal[k].gen
         => slot[i].bits \cap journal[k].blocks = {}
  /\ \A i \in 0 .. 1 : GoodSlot(i) /\ journal # << >> =>
       IF Whole(Len(journal)) THEN slot[i].gen <= journal[Len(journal)].gen
                              ELSE slot[i].gen < journal[Len(journal)].gen

\* The first n records continue checkpoint i without a gap.
Attached(i, n) == n > 0 => journal[1].gen <= slot[i].gen + 1

\* Checkpoint i and the first n records together hold the receipts B.
HeldBy(B, i, n) ==
  \A b \in B : b \in slot[i].bits \/ \E k \in 1 .. n : Whole(k) /\ b \in journal[k].blocks

\* What a caller was told is flushed, and a replay of the files would find it.
ToldHeld ==
  told # {} =>
    /\ told \subseteq stable
    /\ \E i \in 0 .. 1 :
         Newest(i) /\ Attached(i, Len(journal)) /\ HeldBy(told, i, Len(journal))

\* The generation that checkpoint i and the first n records lead to.
Reached(g, i, n) == g = IF n = 0 THEN slot[i].gen ELSE journal[n].gen

\* Halfway through the replay: what is known is checkpoint i and the records so far.
ReplayingFrom(h, i) ==
  /\ Newest(i) /\ Attached(i, pos[h]) /\ HeldBy(bits[h], i, pos[h])
  /\ gen[h] = slot[i].gen \/ Reached(gen[h], i, pos[h])

\* The replay ended after n records and found what callers were told of.
RecoveredFrom(h, i, n) ==
  /\ Newest(i) /\ Attached(i, n) /\ HeldBy(bits[h], i, n) /\ Reached(gen[h], i, n)
  /\ told \subseteq bits[h]

\* After the flush the receipts of one more record are known, but not yet journaled.
AppendingTo(h, i) ==
  /\ Newest(i) /\ Attached(i, Len(journal))
  /\ HeldBy(bits[h] \ pend[h], i, Len(journal)) /\ Reached(gen[h] - 1, i, Len(journal))
  /\ told \subseteq bits[h] \ pend[h]

\* The checkpoint was written: the journal has become superfluous.
FoldedInto(h, i) == slot[i].gen = gen[h] /\ bits[h] \subseteq slot[i].bits

HistoryInv(h) ==
  /\ pc[h] = "replaying" => \E i \in 0 .. 1 : ReplayingFrom(h, i)
  /\ pc[h] = "opening" => \E i \in 0 .. 1 : RecoveredFrom(h, i, pos[h])
  /\ pc[h] \in Live \ { "append" } =>
       \E i \in 0 .. 1 : /\ RecoveredFrom(h, i, Len(journal))
                         /\ pc[h] = "truncate" => FoldedInto(h, i)
  /\ pc[h] = "append" =>
       /\ \E i \in 0 .. 1 : AppendingTo(h, i)
       /\ \A i \in 0 .. 1 : GoodSlot(i) => slot[i].bits \cap pend[h] = {}
       /\ \A k \in 1 .. Len(journal) : journal[k].blocks \cap pend[h] = {}
  /\ pc[h] \in Committing \ { "append" } => pend[h] \cap bits[h] = {}
  /\ pc[h] \in { "store", "flush", "append" } => Len(journal) < CompactAt
  /\ pc[h] = "batching" /\ pend[h] # {} => Len(journal) < CompactAt
  /\ pc[h] = "compact" => journal # << >>

LosslessInv ==
  /\ BackedInv
  /\ JournalLinear
  /\ Len(journal) <= CompactAt
  /\ ToldHeld
  /\ \A h \in Handles : HistoryInv(h)
=============================================================================
