--------------------------- MODULE ClassicReceiver ---------------------------
(***************************************************************************)
(* The classic QRF2 receiver (components/Receiver.tsx): one page that       *)
(* scans a connection test and then the Files stream it commits to, keeps  *)
(* every accepted frame in memory (TransferAccumulator of lib/protocol.ts) *)
(* and in IndexedDB (lib/resume.ts), and survives reloads.                 *)
(*                                                                         *)
(* A stream is named by the Files binding b that the sender prepared: its  *)
(* dummy archive and its Files archive have different purposes and         *)
(* transfer IDs.  A frame is <<purpose, b, position, payload>>; position 0 *)
(* is the manifest.  Checksums reject damaged frames before this module,   *)
(* so a "bad" payload is one that passed its CRC and is still not the      *)
(* sender's.                                                               *)
(*                                                                         *)
(* Promises of the code become tasks.  A generation or an accumulator that *)
(* the page replaced never comes back, so a task only remembers whether it *)
(* is still current: tasks of an old accumulator are dropped, queued       *)
(* writes turn stale.                                                      *)
(***************************************************************************)
EXTENDS Integers, Sequences, FiniteSets

CONSTANTS
  Bindings, NoBinding,   \* the streams a sender prepared; no binding
  Shown,                 \* the stream that stays on the sender's screen
  N,                     \* data frames of a Files archive
  MaxActs,               \* bound: user actions and reloads
  MaxBad,                \* bound: undetected bad frames
  MaxFailures,           \* bound: IndexedDB transactions that fail
  MaxWrites              \* bound: queued IndexedDB writes

ASSUME ReceiverAssumption ==
  /\ NoBinding \notin Bindings /\ Shown \in Bindings
  /\ N \in Nat \ {0}
  /\ {MaxActs, MaxBad, MaxFailures, MaxWrites} \subseteq Nat

VARIABLES
  ui,        \* phase and the other refs and states that are not below
  conn,      \* connectionRef: the verified Files binding
  acc,       \* accumulatorRef
  task,      \* the frame whose ingestion or completion awaits something
  queued,    \* ingestQueueRef: a decoded frame behind it
  camera,    \* a live scanner, and the startScanner() call under way
  persist,   \* persistenceQueueRef
  pend, failed, \* pendingCheckpointFramesRef, failedCheckpointFramesRef
  records,   \* the two IndexedDB stores: frames by checkpoint and position
  recency,   \* checkpoints by updatedAt, the newest last
  archive,   \* the archive offered to the user
  resetting, \* resetReceiver() behind its first await
  restoring, discarding, saving,
             \* restoreSavedCheckpoint(), discardSavedCheckpoint() and
             \* saveAndVerify() behind theirs, with what they took along
  overtaken, \* history: the user went on while one of these was pending
  budget     \* what is left of the bounds

calls == << resetting, restoring, discarding, saving, overtaken >>
memory == << ui, conn, acc, task, queued, camera, archive, calls >>
writes == << persist, pend, failed >>
database == << records, recency >>
receiverVars == << memory, writes, database, budget >>

Chunks(purpose) == IF purpose = "files" THEN 1 .. N ELSE { 1 }
Positions == 0 .. N
Payload == { "none", "good", "bad" }
Frames ==
  { f \in [ purpose : { "probe", "files" }, b : Bindings, pos : Positions, v : { "good", "bad" } ] :
      IF f.pos = 0 THEN f.v = "good" ELSE f.pos \in Chunks(f.purpose) }

(***************************************************************************)
(* TransferAccumulator                                                     *)
(***************************************************************************)
Accumulator ==
  [ purpose : { "probe", "files" },
    want : Bindings \cup { NoBinding },       \* the expected hashes and IDs
    b : Bindings \cup { NoBinding },          \* the accepted manifest
    slot : [ 1 .. N -> Payload ],
    done : BOOLEAN ]                     \* completedArchive

Empty == [ c \in 1 .. N |-> "none" ]
ProbeAccumulator ==
  [ purpose |-> "probe", want |-> NoBinding, b |-> NoBinding, slot |-> Empty, done |-> FALSE ]
FilesAccumulator(b) == [ ProbeAccumulator EXCEPT !.purpose = "files", !.want = b ]

\* A frame is ignored unless its manifest is the expected one, or the first,
\* and its transfer is the one of the accepted manifest.
Accepts(a, f) ==
  /\ f.purpose = a.purpose
  /\ IF f.pos = 0 THEN (a.want # NoBinding => f.b = a.want) /\ a.b \in { NoBinding, f.b }
                  ELSE a.b = f.b

Duplicate(a, f) ==
  a.done \/ IF f.pos = 0 THEN a.b # NoBinding ELSE a.slot[f.pos] = f.v
Conflict(a, f) ==
  ~a.done /\ f.pos # 0 /\ a.slot[f.pos] \notin { "none", f.v }

\* Mutant: of two payloads for one chunk the later one wins.
AbsorbLatest(a, f) ==
  IF a.done THEN a
  ELSE IF f.pos = 0 THEN [ a EXCEPT !.b = f.b ]
  ELSE [ a EXCEPT !.slot[f.pos] = f.v ]

\* Neither of two conflicting payloads is privileged: the slot is emptied.
Absorb(a, f) ==
  IF a.done THEN a
  ELSE IF f.pos = 0 THEN [ a EXCEPT !.b = f.b ]
  ELSE [ a EXCEPT !.slot[f.pos] = IF Conflict(a, f) THEN "none" ELSE f.v ]

Full(a) == a.b # NoBinding /\ \A c \in Chunks(a.purpose) : a.slot[c] # "none"

\* Mutant: a full set of chunks is an archive.
SoundWhenFull(a) == TRUE

\* The SHA-256 of the archive: only the sender's own chunks have it.
Sound(a) == \A c \in Chunks(a.purpose) : a.slot[c] = "good"

(***************************************************************************)
(* The page and its tasks                                                  *)
(***************************************************************************)
Phases ==
  { "idle", "starting", "testing", "test-verified", "scanning", "finalizing", "paused",
    "restoring", "archive-ready", "saving", "verified" }
Keys == Bindings \cup { NoBinding }

FreshUi ==
  [ phase |-> "idle", mode |-> "probe", status |-> "none", saved |-> NoBinding, active |-> NoBinding,
    proof |-> NoBinding,      \* pendingProofCheckpointKeyRef
    seen |-> FALSE,      \* lastAcceptedAtRef is not null
    handled |-> FALSE ]  \* completionHandledRef

NoCamera == [ live |-> FALSE, start |-> "no", opened |-> FALSE ]
NoTask == [ step |-> "none" ]
NoArchive == [ purpose |-> "none" ]
NoReset == [ key |-> NoBinding, left |-> -1 ]
NoFrames == [ p \in Positions |-> "none" ]
NoRestore == [ step |-> "no", b |-> NoBinding, fresh |-> FALSE, at |-> NoFrames ]
NoDiscard == [ step |-> "no", b |-> NoBinding ]
NoSave == [ pending |-> FALSE, key |-> NoBinding ]
NoRecord == [ kept |-> FALSE, at |-> NoFrames ]
ProofOnly == [ NoRecord EXCEPT !.kept = TRUE ]

Reading(f) == [ step |-> "hash", frame |-> f ]
Completing(kind) == [ step |-> kind ]

Op(kind, b, pos, v) == [ kind |-> kind, b |-> b, pos |-> pos, v |-> v, fresh |-> TRUE ]
Stale(q) == [ i \in DOMAIN q |-> [ q[i] EXCEPT !.fresh = FALSE ] ]

\* pendingCheckpointWritesRef: the proof is not counted.
Pending(q) == \E i \in DOMAIN q : q[i].kind \notin { "proof", "undo" }
Zero == [ p \in Positions |-> 0 ]

ReceiverTypeOK ==
  /\ ui \in [ phase : Phases, mode : { "probe", "files" },
              status : { "none", "saving", "saved", "error" },
              saved : Keys, active : Keys, proof : Keys, seen : BOOLEAN, handled : BOOLEAN ]
  /\ conn \in Keys
  /\ acc \in Accumulator
  /\ task.step \in { "none", "hash", "probe", "files", "proof" }
  /\ Len(queued) <= 1 /\ \A i \in DOMAIN queued : queued[i] \in Frames
  /\ camera \in [ live : BOOLEAN, start : { "no", "probe", "files" }, opened : BOOLEAN ]
  /\ \A i \in DOMAIN persist :
       persist[i] \in [ kind : { "frame", "drop", "clear", "delete", "proof", "undo" },
                        b : Bindings, pos : Positions, v : Payload, fresh : BOOLEAN ]
  /\ pend \in [ Positions -> Nat ] /\ failed \subseteq Positions
  /\ records \in [ Bindings -> [ kept : BOOLEAN, at : [ Positions -> Payload ] ] ]
  /\ { b \in Bindings : records[b].kept } = { recency[i] : i \in DOMAIN recency }
  /\ resetting.key \in Keys /\ resetting.left \in Int
  /\ restoring \in [ step : { "no", "load", "replay" }, b : Keys, fresh : BOOLEAN,
                     at : [ Positions -> Payload ] ]
  /\ discarding \in [ step : { "no", "delete", "list" }, b : Keys ]
  /\ saving \in [ pending : BOOLEAN, key : Keys ]
  /\ overtaken \in { "never", "now", "before" }
  /\ archive \in { NoArchive } \cup [ purpose : { "probe", "files" }, b : Bindings, slot : [ 1 .. N -> Payload ] ]

ReceiverInit ==
  /\ ui = FreshUi /\ conn = NoBinding /\ acc = ProbeAccumulator /\ task = NoTask
  /\ queued = << >> /\ camera = NoCamera /\ archive = NoArchive /\ resetting = NoReset
  /\ restoring = NoRestore /\ discarding = NoDiscard /\ saving = NoSave /\ overtaken = "never"
  /\ persist = << >> /\ pend = Zero /\ failed = {}
  /\ records = [ b \in Bindings |-> NoRecord ] /\ recency = << >>
  /\ budget = [ acts |-> MaxActs, bad |-> MaxBad, failures |-> MaxFailures ]

Acts == budget.acts > 0 /\ budget' = [ budget EXCEPT !.acts = @ - 1 ]

NothingPending ==
  resetting = NoReset /\ restoring = NoRestore /\ discarding = NoDiscard /\ saving = NoSave

\* A reset with nothing to write or delete is over before the next event.
Waiting == resetting = NoReset \/ resetting.left > 0 \/ resetting.key # NoBinding

\* An act of the user, whatever is still under way.
UserActs ==
  /\ Acts /\ Waiting
  /\ overtaken' = IF NothingPending THEN overtaken ELSE "now"

\* receiverGenerationRef moves on: queued frames, the scanner, an unfinished
\* start of one and a restore are of no effect any more; startScanner() begins a
\* new one.
NextGeneration(q, start) ==
  /\ restoring' = [ restoring EXCEPT !.fresh = FALSE ]
  /\ queued' = << >>
  /\ camera' = [ NoCamera EXCEPT !.start = start ]
  /\ persist' = q

(***************************************************************************)
(* Frames                                                                  *)
(***************************************************************************)
\* The accumulator of a connection test under the mode of a Files scan: the
\* transfer ID differs from the binding and the handler throws.
Torn == ui.mode = "files" /\ conn # NoBinding /\ acc.purpose = "probe"

\* queueCheckpointWrite and queueCheckpointConflictDelete: a duplicate is only
\* written when its write failed and none is pending.
Writes(f, dup, conflict) ==
  IF ui.mode # "files" \/ conn = NoBinding \/ Torn THEN << >>
  ELSE IF conflict THEN << Op("drop", conn, f.pos, "none") >>
  ELSE IF dup /\ ~(f.pos \in failed /\ pend[f.pos] = 0) THEN << >>
  ELSE << Op("frame", conn, f.pos, f.v) >>

Counted(q) == [ p \in Positions |->
  pend[p] + Cardinality({ i \in DOMAIN q : q[i].kind = "frame" /\ q[i].pos = p }) ]

Noted(q) ==
  IF q = << >> THEN [ ui EXCEPT !.seen = TRUE ]
  ELSE IF q[1].kind = "drop" THEN [ ui EXCEPT !.seen = TRUE, !.status = "saving" ]
  ELSE [ ui EXCEPT !.seen = TRUE, !.status = "saving", !.saved = conn, !.active = conn ]

\* accumulator.ingest and, unless the archive must be hashed first,
\* handleAccumulatorResult.
Ingest(f) ==
  LET a == Absorb(acc, f)
      q == Writes(f, Duplicate(acc, f), Conflict(acc, f))
  IN  IF ~Accepts(acc, f) THEN UNCHANGED << acc, task, persist, pend, ui >>
      ELSE /\ acc' = a
           /\ IF Full(a) /\ ~acc.done
              THEN task' = Reading(f) /\ UNCHANGED << persist, pend, ui >>
              ELSE /\ persist' = persist \o q
                   /\ pend' = Counted(q)
                   /\ ui' = Noted(q)
                   /\ UNCHANGED task

\* The camera decodes a frame; it waits behind the one being ingested.
Scan(f) ==
  /\ camera.live
  /\ Len(persist) < MaxWrites
  /\ f.v = "bad" => budget.bad > 0
  /\ budget' = IF f.v = "bad" THEN [ budget EXCEPT !.bad = @ - 1 ] ELSE budget
  /\ \/ /\ task = NoTask /\ queued = << >>
        /\ Ingest(f)
        /\ UNCHANGED queued
     \/ /\ task # NoTask /\ queued = << >>
        /\ queued' = << f >>
        /\ UNCHANGED << acc, task, persist, pend, ui >>
  /\ UNCHANGED << conn, camera, archive, calls, failed, database >>

IngestQueued ==
  /\ task = NoTask /\ queued # << >>
  /\ Ingest(Head(queued))
  /\ queued' = << >>
  /\ UNCHANGED << conn, camera, archive, calls, failed, database, budget >>

\* Mutant: an accumulator whose archive failed still counts as complete.
VerificationFailedStaysDone ==
  LET q == Writes(task.frame, FALSE, FALSE)
  IN  /\ task.step = "hash" /\ ~Sound(acc)
      /\ task' = NoTask
      /\ persist' = persist \o q /\ pend' = Counted(q)
      /\ acc' = [ acc EXCEPT !.slot = Empty, !.done = TRUE ]
      /\ ui' = [ Noted(q) EXCEPT !.handled = FALSE ]
      /\ UNCHANGED << conn, queued, camera, archive, calls, failed, database, budget >>

\* The archive does not have its SHA-256: scanning starts again with a new
\* accumulator, and the saved Files frames are to be cleared.
VerificationFailed ==
  LET q == Writes(task.frame, FALSE, FALSE)
      bound == ui.mode = "files" /\ conn # NoBinding
      u == Noted(q)
  IN  /\ task.step = "hash" /\ ~Sound(acc)
      /\ task' = NoTask
      /\ pend' = Counted(q)
      /\ IF Torn
         THEN /\ acc' = [ acc EXCEPT !.slot = Empty ]
              /\ ui' = u /\ UNCHANGED persist
         ELSE /\ acc' = IF bound THEN FilesAccumulator(conn) ELSE ProbeAccumulator
              /\ persist' = persist \o q \o
                   ( IF u.active = NoBinding THEN << >>
                     ELSE << Op(IF bound THEN "clear" ELSE "delete", u.active, 0, "none") >> )
              /\ ui' = [ u EXCEPT !.handled = FALSE,
                                  !.status = IF u.active = NoBinding THEN @ ELSE "saving" ]
      /\ UNCHANGED << conn, queued, camera, archive, calls, failed, database, budget >>

\* The archive has its SHA-256: finishConnectionTest or finishFilesTransfer
\* takes it over, by the mode of the scan, and stops the camera.
VerificationPassed ==
  LET q == Writes(task.frame, FALSE, FALSE)
      starts == ~Torn /\ ~ui.handled /\ (ui.mode = "probe" => acc.purpose = "probe")
  IN  /\ task.step = "hash" /\ Sound(acc)
      /\ acc' = [ acc EXCEPT !.done = TRUE ]
      /\ persist' = persist \o q /\ pend' = Counted(q)
      /\ IF starts
         THEN /\ task' = Completing(ui.mode)
              /\ ui' = [ Noted(q) EXCEPT !.handled = TRUE, !.phase = "finalizing" ]
              /\ camera' = [ camera EXCEPT !.live = FALSE ]
         ELSE task' = NoTask /\ ui' = Noted(q) /\ UNCHANGED camera
      /\ UNCHANGED << conn, queued, archive, calls, failed, database, budget >>

\* Behind the await of the camera: the archive is offered.
FinishFilesTransfer ==
  /\ task.step = "files"
  /\ task' = NoTask
  /\ archive' = [ purpose |-> acc.purpose, b |-> acc.b, slot |-> acc.slot ]
  /\ ui' = [ ui EXCEPT !.phase = "archive-ready" ]
  /\ UNCHANGED << conn, acc, queued, camera, calls, writes, database, budget >>

\* The dummy is genuine: its proof goes to the disk before it counts.
FinishConnectionTest ==
  /\ task.step = "probe"
  /\ task' = Completing("proof")
  /\ NextGeneration(Append(Stale(persist), Op("proof", acc.b, 0, "none")), "no")
  /\ ui' = [ ui EXCEPT !.proof = acc.b, !.status = "saving" ]
  /\ UNCHANGED << conn, acc, archive, resetting, discarding, saving, overtaken, pend, failed,
                  database, budget >>

\* verifyConnectionTest refuses the content of the dummy.
RefuseConnectionTest ==
  /\ task.step = "probe"
  /\ task' = NoTask /\ acc' = ProbeAccumulator
  /\ NextGeneration(Stale(persist), "no")
  /\ ui' = [ ui EXCEPT !.handled = FALSE, !.phase = "idle" ]
  /\ UNCHANGED << conn, archive, resetting, discarding, saving, overtaken, pend, failed,
                  database, budget >>

(***************************************************************************)
(* The queue of IndexedDB writes                                           *)
(***************************************************************************)
\* A key occurs once in the order.
Without(key) ==
  IF key \notin { recency[i] : i \in DOMAIN recency } THEN recency
  ELSE LET at == CHOOSE i \in DOMAIN recency : recency[i] = key IN
       [ i \in 1 .. Len(recency) - 1 |-> recency[IF i < at THEN i ELSE i + 1] ]

Stored(o) ==
  CASE o.kind = "frame" ->
         [ records EXCEPT ![o.b] =
             [ kept |-> TRUE, at |-> [ records[o.b].at EXCEPT ![o.pos] = o.v ] ] ]
    [] o.kind = "drop" -> [ records EXCEPT ![o.b].at[o.pos] = "none" ]
    [] o.kind \in { "clear", "proof" } -> [ records EXCEPT ![o.b] = ProofOnly ]
    [] o.kind \in { "delete", "undo" } -> [ records EXCEPT ![o.b] = NoRecord ]

StoredAt(o) ==
  CASE o.kind \in { "frame", "clear", "proof" } -> Append(Without(o.b), o.b)
    [] o.kind = "drop" -> recency
    [] o.kind \in { "delete", "undo" } -> Without(o.b)

\* decrementPendingCheckpointFrame
Settled(o) ==
  IF o.kind = "frame" /\ pend[o.pos] > 0 THEN [ pend EXCEPT ![o.pos] = @ - 1 ] ELSE pend

Popped == /\ persist' = Tail(persist)
          /\ resetting' = IF resetting.left > 0 THEN [ resetting EXCEPT !.left = @ - 1 ] ELSE resetting
          /\ UNCHANGED << restoring, discarding, saving, overtaken >>

Status(q, fails) ==
  IF fails # {} THEN "error" ELSE IF Pending(q) THEN "saving" ELSE "saved"

\* The page shows a verified connection and is ready for its Files frames.
Publish(b, stored) ==
  /\ conn' = b /\ acc' = FilesAccumulator(b) /\ task' = NoTask /\ queued' = << >>
  /\ ui' = [ ui EXCEPT !.mode = "files", !.handled = FALSE, !.seen = FALSE, !.proof = NoBinding,
               !.phase = "test-verified", !.status = IF stored THEN "saved" ELSE "error",
               !.saved = IF stored THEN b ELSE NoBinding, !.active = IF stored THEN b ELSE NoBinding ]

WriteCommits ==
  LET o == Head(persist) rest == Tail(persist) IN
  /\ persist # << >> /\ o.kind # "proof"
  /\ records' = Stored(o) /\ recency' = StoredAt(o)
  /\ Popped
  /\ pend' = IF o.kind = "clear" THEN Zero ELSE Settled(o)
  /\ failed' = IF o.kind = "clear" THEN {} ELSE IF o.kind \in { "frame", "drop" } THEN failed \ { o.pos } ELSE failed
  /\ ui' = IF ~o.fresh THEN ui
           ELSE IF o.kind = "delete" THEN [ ui EXCEPT !.active = NoBinding, !.saved = NoBinding, !.status = "none" ]
           ELSE IF o.kind = "clear" THEN [ ui EXCEPT !.active = o.b, !.saved = o.b, !.status = Status(rest, {}) ]
           ELSE [ ui EXCEPT !.status = Status(rest, failed') ]
  /\ UNCHANGED << conn, acc, task, queued, camera, archive, budget >>

WriteFails ==
  LET o == Head(persist) IN
  /\ persist # << >> /\ o.kind # "proof"
  /\ budget.failures > 0
  /\ budget' = [ budget EXCEPT !.failures = @ - 1 ]
  /\ Popped
  /\ pend' = Settled(o)
  /\ failed' = IF o.kind \in { "frame", "drop" } THEN failed \cup { o.pos } ELSE failed
  /\ ui' = IF o.fresh THEN [ ui EXCEPT !.status = "error" ] ELSE ui
  /\ UNCHANGED << conn, acc, task, queued, camera, archive, database >>

\* The proof is on the disk.  A reset may have won meanwhile: then the record
\* is deleted again by a second transaction and nothing is published.
ProofCommits ==
  LET o == Head(persist) IN
  /\ persist # << >> /\ o.kind = "proof"
  /\ records' = Stored(o) /\ recency' = StoredAt(o)
  /\ IF o.fresh
     THEN Popped /\ Publish(o.b, TRUE)
     ELSE /\ persist' = << [ o EXCEPT !.kind = "undo" ] >> \o Tail(persist)
          /\ UNCHANGED << ui, conn, acc, task, queued, calls >>
  /\ UNCHANGED << camera, archive, pend, failed, budget >>

\* The verified connection then lasts as long as the page.
ProofFails ==
  LET o == Head(persist) IN
  /\ persist # << >> /\ o.kind = "proof"
  /\ budget.failures > 0
  /\ budget' = [ budget EXCEPT !.failures = @ - 1 ]
  /\ Popped
  /\ IF o.fresh THEN Publish(o.b, FALSE) ELSE UNCHANGED << ui, conn, acc, task, queued >>
  /\ UNCHANGED << camera, archive, pend, failed, database >>

(***************************************************************************)
(* The user                                                                *)
(***************************************************************************)
\* startScanner, up to its first await.
StartScanner(mode) ==
  /\ ~ui.handled
  /\ NextGeneration(Stale(persist), mode)

\* "Start connection test"
StartConnectionTest ==
  /\ UserActs
  /\ conn = NoBinding /\ ui.saved = NoBinding
  /\ ui.phase = "idle" \/ (ui.phase = "paused" /\ ~ui.seen)
  /\ acc' = ProbeAccumulator /\ task' = NoTask
  /\ NextGeneration(Stale(persist), "probe")
  /\ pend' = Zero /\ failed' = {}
  /\ ui' = [ ui EXCEPT !.handled = FALSE, !.mode = "probe", !.seen = FALSE, !.phase = "starting" ]
  /\ UNCHANGED << conn, archive, resetting, discarding, saving, database >>

\* "Resume same connection test", "Receive verified files"
ResumeScanning ==
  /\ UserActs
  /\ \/ conn = NoBinding /\ ui.saved = NoBinding /\ ui.phase = "paused" /\ ui.seen /\ StartScanner("probe")
     \/ conn # NoBinding /\ ui.phase \in { "idle", "paused", "test-verified" } /\ StartScanner("files")
  /\ ui' = [ ui EXCEPT !.phase = "starting" ]
  /\ UNCHANGED << conn, acc, task, archive, resetting, discarding, saving, pend, failed, database >>

\* scanner.start() resolves: frames arrive while the cameras are listed.
CameraOpens ==
  /\ camera.start # "no" /\ ~camera.opened
  /\ camera' = [ camera EXCEPT !.live = TRUE, !.opened = TRUE ]
  /\ UNCHANGED << ui, conn, acc, task, queued, archive, calls, writes, database, budget >>

\* startScanner, behind its last await.
CameraReady ==
  /\ camera.opened
  /\ camera' = [ NoCamera EXCEPT !.live = camera.live ]
  /\ ui' = [ ui EXCEPT !.mode = camera.start, !.seen = TRUE,
                       !.phase = IF camera.start = "probe" THEN "testing" ELSE "scanning" ]
  /\ UNCHANGED << conn, acc, task, queued, archive, calls, writes, database, budget >>

CameraFails ==
  /\ camera.start # "no" /\ ~camera.opened
  /\ camera' = NoCamera
  /\ ui' = [ ui EXCEPT !.phase = IF conn # NoBinding \/ ui.seen THEN "paused" ELSE "idle" ]
  /\ UNCHANGED << conn, acc, task, queued, archive, calls, writes, database, budget >>

\* The user pauses the camera or leaves the view.
PauseScanner ==
  /\ Acts
  /\ ui.phase \in { "starting", "testing", "scanning" }
  /\ NextGeneration(Stale(persist), "no")
  /\ ui' = [ ui EXCEPT !.phase = IF ui.handled THEN @ ELSE "paused" ]
  /\ UNCHANGED << conn, acc, task, archive, resetting, discarding, saving, overtaken, pend,
                  failed, database >>

\* The receipt page has no button for a reset.
MayReset ==
  /\ ui.phase \notin { "starting", "restoring", "saving" }
  /\ ~(ui.phase = "test-verified" /\ conn # NoBinding)

\* Mutant: the checkpoint is deleted without waiting for the queued writes.
ResetWithoutWaiting ==
  /\ UserActs
  /\ resetting = NoReset /\ MayReset
  /\ acc' = ProbeAccumulator /\ task' = NoTask
  /\ NextGeneration(Stale(persist), "no")
  /\ ui' = [ ui EXCEPT !.handled = FALSE ]
  /\ resetting' = [ key |-> ui.active, left |-> 0 ]
  /\ UNCHANGED << conn, archive, discarding, saving, pend, failed, database >>

\* resetReceiver up to its first await: what is under way is cut off, except a
\* discard and a save.
ResetReceiver ==
  LET key == IF ui.active # NoBinding THEN ui.active
             ELSE IF ui.saved # NoBinding THEN ui.saved ELSE ui.proof
  IN
  /\ UserActs
  /\ resetting = NoReset /\ MayReset
  /\ acc' = ProbeAccumulator /\ task' = NoTask
  /\ NextGeneration(Stale(persist), "no")
  /\ ui' = [ ui EXCEPT !.handled = FALSE ]
  /\ resetting' = [ key |-> key, left |-> Len(persist) ]
  /\ UNCHANGED << conn, archive, discarding, saving, pend, failed, database >>

\* Behind the writes that were queued: the checkpoint goes, then the state,
\* whatever the user has begun since; the accumulator and the camera stay.
FinishReset ==
  /\ resetting.left = 0
  /\ resetting' = NoReset
  /\ \/ /\ resetting.key # NoBinding
        /\ records' = [ records EXCEPT ![resetting.key] = NoRecord ]
        /\ recency' = Without(resetting.key)
        /\ UNCHANGED budget
     \/ /\ resetting.key = NoBinding
        /\ UNCHANGED << database, budget >>
     \/ /\ resetting.key # NoBinding /\ budget.failures > 0
        /\ budget' = [ budget EXCEPT !.failures = @ - 1 ]
        /\ UNCHANGED database
  /\ pend' = Zero /\ failed' = {}
  /\ conn' = NoBinding /\ archive' = NoArchive
  /\ ui' = FreshUi
  /\ UNCHANGED << acc, task, queued, camera, restoring, discarding, saving, overtaken, persist >>

\* The card of a saved transfer.
Offered == ui.saved # NoBinding /\ conn = NoBinding /\ ui.phase = "idle"

\* restoreSavedCheckpoint, up to its first await.
RestoreSavedCheckpoint ==
  /\ UserActs
  /\ Offered /\ restoring = NoRestore
  /\ acc' = ProbeAccumulator /\ task' = NoTask /\ queued' = << >> /\ camera' = NoCamera
  /\ persist' = Stale(persist)
  /\ restoring' = [ NoRestore EXCEPT !.step = "load", !.b = ui.saved, !.fresh = TRUE ]
  /\ pend' = Zero /\ failed' = {}
  /\ ui' = [ ui EXCEPT !.handled = FALSE, !.phase = "restoring" ]
  /\ UNCHANGED << conn, archive, resetting, discarding, saving, database >>

\* The catch of a restore does not ask whose turn it is.
RestoreRefused ==
  /\ restoring' = NoRestore
  /\ ui' = [ ui EXCEPT !.phase = "idle", !.status = "error" ]
  /\ UNCHANGED << acc, conn, archive, task >>

RestoreIgnored == restoring' = NoRestore /\ UNCHANGED << ui, acc, conn, archive, task >>

\* The proof is verified and the saved frames are read: without a manifest they
\* are no transfer.
LoadFrames ==
  LET at == records[restoring.b].at
      headless == at[0] = "none" /\ at # NoFrames
  IN
  /\ restoring.step = "load"
  /\ \/ ~restoring.fresh /\ RestoreIgnored
     \/ restoring.fresh /\ headless /\ RestoreRefused
     \/ /\ restoring.fresh /\ ~headless
        /\ restoring' = [ restoring EXCEPT !.step = "replay", !.at = at ]
        /\ UNCHANGED << ui, acc, conn, archive, task >>
  /\ UNCHANGED << queued, camera, resetting, discarding, saving, overtaken, writes, database, budget >>

LoadFails ==
  /\ restoring.step = "load" /\ budget.failures > 0
  /\ budget' = [ budget EXCEPT !.failures = @ - 1 ]
  /\ RestoreRefused
  /\ UNCHANGED << queued, camera, resetting, discarding, saving, overtaken, writes, database >>

\* The frames went through a fresh accumulator: a full set must be sound.
ReplayFrames ==
  LET b == restoring.b
      slot == [ c \in 1 .. N |-> restoring.at[c] ]
      whole == \A c \in 1 .. N : slot[c] # "none"
      some == restoring.at[0] # "none"
      sound == whole => \A c \in 1 .. N : slot[c] = "good"
  IN
  /\ restoring.step = "replay"
  /\ \/ ~sound /\ RestoreRefused
     \/ sound /\ ~restoring.fresh /\ RestoreIgnored
     \/ /\ sound /\ restoring.fresh
        /\ restoring' = NoRestore
        /\ acc' = [ FilesAccumulator(b) EXCEPT !.b = IF some THEN b ELSE NoBinding,
                       !.slot = slot, !.done = whole ]
        /\ task' = NoTask
        /\ conn' = b
        /\ archive' = IF whole THEN [ purpose |-> "files", b |-> b, slot |-> slot ] ELSE NoArchive
        /\ ui' = [ ui EXCEPT !.mode = "files", !.handled = whole, !.active = b, !.status = "saved",
             !.seen = FALSE,
             !.phase = IF whole THEN "archive-ready" ELSE IF some THEN "paused" ELSE "test-verified" ]
  /\ UNCHANGED << queued, camera, resetting, discarding, saving, overtaken, writes, database, budget >>

\* "Discard": the checkpoint is deleted, then the next newest one is offered.
DiscardSavedCheckpoint ==
  /\ UserActs
  /\ Offered /\ discarding = NoDiscard
  /\ discarding' = [ step |-> "delete", b |-> ui.saved ]
  /\ UNCHANGED << ui, conn, acc, task, queued, camera, archive, resetting, restoring, saving,
                  writes, database >>

DeleteDiscarded ==
  /\ discarding.step = "delete"
  /\ discarding' = [ discarding EXCEPT !.step = "list" ]
  /\ records' = [ records EXCEPT ![discarding.b] = NoRecord ]
  /\ recency' = Without(discarding.b)
  /\ UNCHANGED << ui, conn, acc, task, queued, camera, archive, resetting, restoring, saving,
                  overtaken, writes, budget >>

ListRemaining ==
  /\ discarding.step = "list"
  /\ discarding' = NoDiscard
  /\ ui' = [ ui EXCEPT !.active = NoBinding, !.status = "none",
               !.saved = IF recency = << >> THEN NoBinding ELSE recency[Len(recency)] ]
  /\ UNCHANGED << conn, acc, task, queued, camera, archive, resetting, restoring, saving,
                  overtaken, writes, database, budget >>

\* Either transaction of a discard fails: the page shows an error and the offer.
DiscardFails ==
  /\ discarding # NoDiscard /\ budget.failures > 0
  /\ budget' = [ budget EXCEPT !.failures = @ - 1 ]
  /\ discarding' = NoDiscard
  /\ UNCHANGED << ui, conn, acc, task, queued, camera, archive, resetting, restoring, saving,
                  overtaken, writes, database >>

\* saveAndVerify: the destination itself is module Destination.
SaveArchive ==
  /\ UserActs
  /\ ui.phase = "archive-ready" /\ archive # NoArchive /\ saving = NoSave
  /\ saving' = [ pending |-> TRUE, key |-> ui.active ]
  /\ ui' = [ ui EXCEPT !.phase = "saving" ]
  /\ UNCHANGED << conn, acc, task, queued, camera, archive, resetting, restoring, discarding,
                  writes, database >>

SaveRefused ==
  /\ saving.pending
  /\ saving' = NoSave
  /\ ui' = [ ui EXCEPT !.phase = "archive-ready" ]
  /\ UNCHANGED << conn, acc, task, queued, camera, archive, resetting, restoring, discarding,
                  overtaken, writes, database, budget >>

\* Every file was read back: the checkpoint is not needed any more.
SaveVerified ==
  /\ saving.pending /\ persist = << >>
  /\ saving' = NoSave
  /\ \/ /\ records' = IF saving.key = NoBinding THEN records ELSE [ records EXCEPT ![saving.key] = NoRecord ]
        /\ recency' = Without(saving.key)
        /\ ui' = [ ui EXCEPT !.phase = "verified", !.saved = NoBinding, !.active = NoBinding, !.status = "none" ]
        /\ UNCHANGED budget
     \/ /\ saving.key # NoBinding /\ budget.failures > 0
        /\ budget' = [ budget EXCEPT !.failures = @ - 1 ]
        /\ ui' = [ ui EXCEPT !.phase = "verified", !.status = "error" ]
        /\ UNCHANGED database
  /\ UNCHANGED << conn, acc, task, queued, camera, archive, resetting, restoring, discarding,
                  overtaken, writes >>

\* The tab is reloaded or dies: only IndexedDB is left.
Reload ==
  /\ Acts
  /\ ui' = [ FreshUi EXCEPT !.saved = IF recency = << >> THEN NoBinding ELSE recency[Len(recency)] ]
  /\ conn' = NoBinding /\ acc' = ProbeAccumulator /\ task' = NoTask /\ queued' = << >>
  /\ camera' = NoCamera /\ archive' = NoArchive /\ resetting' = NoReset
  /\ restoring' = NoRestore /\ discarding' = NoDiscard /\ saving' = NoSave
  /\ overtaken' = IF overtaken = "now" THEN "before" ELSE overtaken
  /\ persist' = << >> /\ pend' = Zero /\ failed' = {}
  /\ UNCHANGED database

Page ==
  \/ IngestQueued \/ VerificationFailed \/ VerificationPassed
  \/ FinishFilesTransfer \/ FinishConnectionTest
  \/ WriteCommits \/ ProofCommits
  \/ CameraOpens \/ CameraReady \/ FinishReset
  \/ LoadFrames \/ ReplayFrames \/ DeleteDiscarded \/ ListRemaining

Mishap ==
  RefuseConnectionTest \/ WriteFails \/ ProofFails \/ CameraFails \/ LoadFails \/ DiscardFails

User ==
  \/ StartConnectionTest \/ ResumeScanning \/ PauseScanner \/ ResetReceiver
  \/ RestoreSavedCheckpoint \/ DiscardSavedCheckpoint
  \/ SaveArchive \/ SaveRefused \/ SaveVerified \/ Reload

ReceiverNext == (\E f \in Frames : Scan(f)) \/ Page \/ Mishap \/ User

ReceiverSpec == ReceiverInit /\ [][ReceiverNext]_receiverVars

\* The page gets to its own steps, and the sender shows every frame of its
\* stream again in each pass, so a scanning camera cannot miss one for ever.
ReceiverFairness ==
  /\ WF_receiverVars(Page)
  /\ \A p \in Positions :
       SF_receiverVars(Scan([ purpose |-> "files", b |-> Shown, pos |-> p, v |-> "good" ]))

(***************************************************************************)
(* Properties                                                              *)
(***************************************************************************)
\* Whatever is offered to the user as received has its SHA-256 and is one
\* stream's, whether the frames came from the camera, from a checkpoint or from
\* both, and it is the Files archive the verified dummy committed to, unless the
\* user went on while a reset, restore, discard or save was under way
\* (Receiver.tsx:1385, README.md:298).
ArchiveIsBound ==
  ReceiverTypeOK /\ (archive # NoArchive =>
    /\ \A c \in Chunks(archive.purpose) : archive.slot[c] = "good"
    /\ overtaken # "now" => conn # NoBinding /\ archive.purpose = "files" /\ archive.b = conn)

\* "Saved" is only shown when a reload at this moment would find every frame
\* that is held in memory and, if no storage call failed, nothing else: across
\* conflicts, failed and retried writes, failed
\* archives, pauses and restores (Receiver.tsx queueCheckpointWrite).  Not after
\* completion: a frame that trails it counts as a repetition unread and may be
\* what a failed write is retried with.
SavedCoversMemory ==
  /\ ui.status = "saved" /\ ui.mode = "files" /\ conn # NoBinding
  /\ task = NoTask /\ ~acc.done /\ resetting = NoReset /\ overtaken # "now"
  =>
    /\ acc.b # NoBinding => records[conn].at[0] = "good"
    /\ \A c \in 1 .. N :
         \/ acc.slot[c] = records[conn].at[c]
         \/ acc.slot[c] = "none" /\ budget.failures < MaxFailures

\* Without storage failures no checkpoint stays behind that the idle page does
\* not show: not the proof a reset overtook, not the one of a saved transfer
\* (Receiver.tsx finishConnectionTest, resetReceiver).
NoHiddenCheckpoint ==
  /\ budget.failures = MaxFailures /\ persist = << >> /\ overtaken = "never"
  /\ resetting = NoReset /\ discarding = NoDiscard
  /\ conn = NoBinding /\ ui.phase = "idle"
  => ui.saved = IF recency = << >> THEN NoBinding ELSE recency[Len(recency)]

\* What the page says of its checkpoints is what a reload finds.
CheckpointsAreTrue == SavedCoversMemory /\ NoHiddenCheckpoint

\* A camera that keeps looking at the sender's loop does not scan for ever:
\* conflicting slots are reacquired and a failed archive is collected again,
\* until the archive is verified (README.md:391, Receiver.tsx handleAccumulatorResult).
ScanEnds == []<>(ui.phase # "scanning" \/ conn # Shown \/ ui.handled)

\* "Files remain blocked until the complete dummy and its embedded binding pass
\* verification" (Receiver.tsx:1386).
FilesNeedTest == ui.phase = "archive-ready" => conn # NoBinding
=============================================================================
