--------------------------- MODULE OpticalReceiver ---------------------------
(***************************************************************************)
(* The optical QRF3 receiver: the page (components/LargeReceiver.tsx), the  *)
(* receiver object it drives (lib/large-receiver.ts) and the connection    *)
(* record (lib/large-receiver-resume.ts). Frames are taken one at a time   *)
(* into a block store on disk; a complete probe becomes the connection     *)
(* record and a receipt, a complete Files stream is written to a folder.   *)
(*                                                                         *)
(* A connection is a value: its probe, its Files stream, its receipt and   *)
(* its record are its own. A frame that is rejected only shows an error    *)
(* and is left out. start, pause, reset and save each have one run under   *)
(* way at most; a run of an old generation is only not fresh any more.     *)
(***************************************************************************)
EXTENDS Integers, Sequences, FiniteSets

CONSTANTS
  Connections,
  FileBlocks,    \* blocks of a Files stream; a probe is one block
  MaxQueue,      \* bound: frames waiting behind the one that is taken
  MaxBad,        \* bound: self-consistent frames with wrong bytes
  MaxActs,       \* bound: consequential user actions, and reloads
  MaxFailures    \* bound: storage, camera and destination calls that fail

ASSUME OpticalReceiverAssumption ==
  /\ { FileBlocks, MaxQueue, MaxBad, MaxActs, MaxFailures } \subseteq Nat /\ FileBlocks > 0
  /\ "none" \notin Connections    \* stands for no connection

VARIABLES
  stores,     \* the block stores in OPFS
  record,     \* the saved connection in IndexedDB
  page,       \* what the page shows and refers to
  receiver,   \* the receiver object in receiverRef
  task,       \* the frame that is being taken, up to its completion
  queue,      \* queueRef: the frames behind it
  start, pause, reset, save,   \* the runs under way
  probed,     \* history: connections whose whole probe had the right hash
  clean,      \* history: a discard succeeded and nothing was started since
  budget      \* what is left of the bounds

runs == << start, pause, reset, save >>
vars == << stores, record, page, receiver, task, queue, runs, probed, clean, budget >>

None == "none"
Kinds == { "probe", "files" }
Streams == Connections \X Kinds
NoStream == << None, None >>
Blocks(s) == IF s[2] = "probe" THEN { 1 } ELSE 1 .. FileBlocks

\* A store on disk; bad says that one of its blocks has the wrong bytes.
Absent == [ there |-> FALSE, got |-> {}, bad |-> FALSE ]
Store == [ there : BOOLEAN, got : SUBSET (1 .. FileBlocks), bad : BOOLEAN ]
Complete(s) == stores[s].there /\ stores[s].got = Blocks(s)

Frames == [ of : Streams, block : 0 .. FileBlocks, bad : BOOLEAN ]
Manifest(s) == [ of |-> s, block |-> 0, bad |-> FALSE ]
Data(s, i, bad) == [ of |-> s, block |-> i, bad |-> bad ]

\* receiver.ref is receiverRef; handle is its block store, which keeps the
\* store's lock while it is open.
NoReceiver ==
  [ ref |-> FALSE, mode |-> "probe", expect |-> None, of |-> NoStream, handle |-> "none" ]
NoTask == [ at |-> "idle", fresh |-> FALSE, frame |-> Manifest(NoStream) ]
Idle == [ at |-> "idle", fresh |-> FALSE ]
NoStart == [ at |-> "idle", fresh |-> FALSE, conn |-> None ]
NoReset == [ at |-> "idle", fresh |-> FALSE, error |-> FALSE ]
NoSave == [ at |-> "idle", fresh |-> FALSE, cut |-> FALSE ]    \* cut: aborted

FreshPage ==
  [ phase |-> "restoring", loading |-> TRUE, mode |-> "probe",
    conn |-> None,           \* connectionRef
    reader |-> NoStream,     \* readerRef: the verified stream
    camera |-> FALSE,        \* scannerRef: frames are delivered
    complete |-> FALSE ]     \* completionStartedRef

Phases ==
  { "restoring", "idle", "starting", "testing", "test-verified", "ready-files", "scanning",
    "paused", "verifying", "complete", "saving", "verified", "discarding", "failed" }

TypeOK ==
  /\ stores \in [ Streams -> Store ] /\ record \in Connections \cup { None }
  /\ page.phase \in Phases /\ page.mode \in Kinds
  /\ page.conn \in Connections \cup { None } /\ page.reader \in Streams \cup { NoStream }
  /\ receiver.of \in Streams \cup { NoStream }
  /\ receiver.handle \in { "none", "open", "closed", "deleted" }
  /\ task.at \in { "idle", "opening", "writing", "hashing", "deleting", "recording", "tree",
                   "discarding", "closing" }
  /\ \A i \in DOMAIN queue : queue[i] \in Frames
  /\ start.at \in { "idle", "waiting", "camera", "listing", "closing" } /\ pause.at \in { "idle", "waiting" }
  /\ reset.at \in { "idle", "waiting", "stores", "record" }
  /\ save.at \in { "idle", "writing", "deleting", "clearing" }
  /\ probed \subseteq Connections /\ clean \in BOOLEAN

Init ==
  /\ stores = [ s \in Streams |-> Absent ] /\ record = None
  /\ page = FreshPage /\ receiver = NoReceiver
  /\ task = NoTask /\ queue = << >>
  /\ start = NoStart /\ pause = Idle /\ reset = NoReset /\ save = NoSave
  /\ probed = {} /\ clean = FALSE
  /\ budget = [ bad |-> MaxBad, acts |-> MaxActs, failures |-> MaxFailures ]

Acts == budget.acts > 0 /\ budget' = [ budget EXCEPT !.acts = @ - 1 ]
Fails == budget.failures > 0 /\ budget' = [ budget EXCEPT !.failures = @ - 1 ]

\* What a step may do: succeed, or fail within the bound.
Outcome(ok) == IF ok THEN UNCHANGED budget ELSE Fails

Disk == << stores, record >>
History == << probed, clean >>
Stale(run) == [ run EXCEPT !.fresh = FALSE ]

(***************************************************************************)
(* The receiver object                                                     *)
(***************************************************************************)
\* What accept takes: the expected purpose and, in the Files stream, exactly
\* the connection that was verified; then only frames of the first manifest.
Accepts(f) ==
  /\ receiver.ref /\ f.of[2] = receiver.mode
  /\ receiver.expect # None => f.of[1] = receiver.expect
  /\ IF f.block = 0 THEN receiver.of \in { NoStream, f.of } ELSE receiver.of = f.of

\* close: afterwards a later delete through the same handle is refused.
Closed(r) == [ NoReceiver EXCEPT !.of = r.of, !.handle = IF r.handle = "open" THEN "closed" ELSE r.handle ]

\* delete
CanDelete(r) == r.handle # "closed"
Removed(s) == [ stores EXCEPT ![s] = Absent ]
Deletion(r) == IF r.of = NoStream THEN stores ELSE Removed(r.of)

(***************************************************************************)
(* Frames                                                                  *)
(***************************************************************************)
Shown ==
  { Manifest(s) : s \in Streams }
    \cup UNION { { Data(s, i, bad) : i \in Blocks(s), bad \in BOOLEAN } : s \in Streams }

\* ingest: a decoded frame joins the queue; one of an old generation is a no-op
\* there, so a new generation empties the queue.
Ingest(f) ==
  /\ page.camera /\ ~page.complete /\ Accepts(f) /\ Len(queue) < MaxQueue
  /\ f.bad => budget.bad > 0
  /\ budget' = [ budget EXCEPT !.bad = IF f.bad THEN @ - 1 ELSE @ ]
  /\ queue' = Append(queue, f)
  /\ UNCHANGED << Disk, page, receiver, task, runs, History >>

TakeFrame ==
  LET f == Head(queue) IN
  /\ task.at = "idle" /\ queue # << >>
  /\ queue' = Tail(queue)
  /\ IF ~page.complete /\ Accepts(f)
     THEN /\ task' = [ at |-> IF receiver.handle = "open" THEN "writing" ELSE "opening",
                       fresh |-> TRUE, frame |-> f ]
          /\ receiver' = [ receiver EXCEPT !.of = f.of ]
     ELSE UNCHANGED << task, receiver >>
  /\ UNCHANGED << Disk, page, runs, History, budget >>

\* ensureStore: the manifest stays accepted when the store cannot be opened.
OpenStore(ok) ==
  /\ task.at = "opening" /\ Outcome(ok)
  /\ IF ok
     THEN /\ stores' = [ stores EXCEPT ![receiver.of].there = TRUE ]
          /\ receiver' = [ receiver EXCEPT !.handle = "open" ]
          /\ task' = [ task EXCEPT !.at = "writing" ]
     ELSE task' = NoTask /\ UNCHANGED << stores, receiver >>
  /\ UNCHANGED << record, page, queue, runs, History >>

\* Every run under way belongs to an old generation.
Superseded ==
  start' = Stale(start) /\ pause' = Stale(pause) /\ reset' = Stale(reset) /\ save' = Stale(save)

\* Behind accept: a complete store stops the camera and starts a generation of
\* its own, which leaves a start that still waits for its camera behind.
Completing ==
  /\ page' = [ page EXCEPT !.complete = TRUE, !.phase = "verifying", !.camera = FALSE ]
  /\ task' = [ task EXCEPT !.at = "hashing" ]
  /\ queue' = << >> /\ Superseded

WriteBlock(result) ==
  LET s == receiver.of
      i == task.frame.block
      new == IF i = 0 \/ i \in stores[s].got THEN stores[s]
             ELSE [ stores[s] EXCEPT !.got = @ \cup { i }, !.bad = @ \/ task.frame.bad ]
  IN
  /\ task.at = "writing" /\ Outcome(result = "done")
  /\ stores' = [ stores EXCEPT ![s] = IF result = "failed" THEN @ ELSE new ]
  /\ CASE ~task.fresh \/ result = "failed" ->
            task' = NoTask /\ UNCHANGED << page, queue, runs >>
       [] task.fresh /\ result = "reopen" ->
            \* The block is durable, but the journal is at its limit.
            /\ task' = [ task EXCEPT !.at = "closing" ]
            /\ page' = [ page EXCEPT !.camera = FALSE ]
            /\ queue' = << >> /\ Superseded
       [] OTHER ->
            IF new.got = Blocks(s) THEN Completing
            ELSE task' = NoTask /\ UNCHANGED << page, queue, runs >>
  /\ UNCHANGED << record, receiver, History >>

Restartable == IF page.conn # None THEN "ready-files" ELSE "idle"

\* The old disk session is closed; capture starts again by hand.
CloseForReopen(ok) ==
  /\ task.at = "closing" /\ Outcome(ok)
  /\ receiver' = Closed(receiver)
  /\ page' = IF task.fresh THEN [ page EXCEPT !.phase = Restartable ] ELSE page
  /\ task' = NoTask
  /\ UNCHANGED << Disk, queue, runs, History >>

(***************************************************************************)
(* A complete stream                                                       *)
(***************************************************************************)
Then(at) == task' = [ task EXCEPT !.at = at ]
\* An AbortError of the current generation would end the task and leave the
\* phase: the page aborts only where it begins a new generation, and storage
\* calls are taken not to fail with one.
Failed == IF task.fresh THEN Then("discarding") ELSE task' = NoTask

\* Mutant: what was complete on disk is taken for right.
HashOfStored(ok) ==
  /\ task.at = "hashing" /\ Outcome(ok)
  /\ IF ok /\ task.fresh /\ receiver.handle = "open"
     THEN /\ Then(IF receiver.mode = "probe" THEN "deleting" ELSE "tree")
          /\ probed' = IF receiver.mode = "probe" THEN probed \cup { receiver.of[1] } ELSE probed
     ELSE Failed /\ UNCHANGED probed
  /\ UNCHANGED << Disk, page, receiver, queue, runs, clean >>

\* verifyComplete: a poisoned store is deleted there, or in the cleanup behind it.
Hash(ok) ==
  LET good == ok /\ receiver.handle = "open" /\ ~stores[receiver.of].bad IN
  /\ task.at = "hashing" /\ Outcome(ok)
  /\ IF good /\ task.fresh
     THEN /\ Then(IF receiver.mode = "probe" THEN "deleting" ELSE "tree")
          /\ probed' = IF receiver.mode = "probe" THEN probed \cup { receiver.of[1] } ELSE probed
     ELSE Failed /\ UNCHANGED probed
  /\ UNCHANGED << Disk, page, receiver, queue, runs, clean >>

\* The digest of a poisoned stream was there before the run was aborted.
LatePoison ==
  /\ task.at = "hashing" /\ ~task.fresh /\ receiver.handle = "open" /\ stores[receiver.of].bad
  /\ stores' = Deletion(receiver)
  /\ receiver' = [ receiver EXCEPT !.handle = "deleted" ]
  /\ task' = NoTask
  /\ UNCHANGED << record, page, queue, runs, History, budget >>

\* finishProbe: the probe's store goes before its record is written.
DeleteProbe(ok) ==
  /\ task.at = "deleting"
  /\ IF CanDelete(receiver) THEN Outcome(ok) ELSE ~ok /\ UNCHANGED budget
  /\ IF ok
     THEN /\ stores' = Deletion(receiver)
          /\ receiver' = [ receiver EXCEPT !.ref = FALSE, !.handle = "deleted" ]
          /\ IF task.fresh THEN Then("recording") ELSE task' = NoTask
     ELSE Failed /\ UNCHANGED << stores, receiver >>
  /\ UNCHANGED << record, page, queue, runs, History >>

\* Mutant: the receipt is shown although its record could not be saved.
RecordIfPossible(ok) ==
  /\ task.at = "recording" /\ Outcome(ok)
  /\ record' = IF ok THEN receiver.of[1] ELSE record
  /\ task' = NoTask
  /\ page' = IF task.fresh THEN [ page EXCEPT !.conn = receiver.of[1], !.phase = "test-verified" ]
             ELSE page
  /\ UNCHANGED << stores, receiver, queue, runs, History >>

Record(ok) ==
  /\ task.at = "recording" /\ Outcome(ok)
  /\ record' = IF ok THEN receiver.of[1] ELSE record
  /\ IF ok THEN task' = NoTask ELSE Failed
  /\ page' = IF ok /\ task.fresh
             THEN [ page EXCEPT !.conn = receiver.of[1], !.phase = "test-verified" ] ELSE page
  /\ UNCHANGED << stores, receiver, queue, runs, History >>

\* finishFiles: the binding and the canonical tree.
ReadTree(ok) ==
  LET good == ok /\ receiver.handle = "open" /\ receiver.of = << page.conn, "files" >> IN
  /\ task.at = "tree" /\ Outcome(ok)
  /\ IF good /\ task.fresh
     THEN /\ page' = [ page EXCEPT !.reader = receiver.of, !.phase = "complete" ]
          /\ task' = NoTask
     ELSE Failed /\ UNCHANGED page
  /\ UNCHANGED << Disk, receiver, queue, runs, History >>

\* Mutant: a completion that failed behind a lost receiver stays "verifying".
DiscardReceived(ok) ==
  /\ task.at = "discarding" /\ receiver.ref
  /\ IF CanDelete(receiver) THEN Outcome(ok) ELSE ~ok /\ UNCHANGED budget
  /\ stores' = IF ok THEN Deletion(receiver) ELSE stores
  /\ receiver' = IF ok THEN [ receiver EXCEPT !.ref = ~task.fresh, !.handle = "deleted" ] ELSE receiver
  /\ page' = IF task.fresh
             THEN [ page EXCEPT !.complete = FALSE, !.reader = NoStream,
                                !.phase = IF ok THEN Restartable ELSE "failed" ]
             ELSE page
  /\ task' = NoTask
  /\ UNCHANGED << record, queue, runs, History >>

\* The catch of ingest: what was received goes, and capture may start again.
Discard(ok) ==
  LET deletes == receiver.ref /\ receiver.of # NoStream IN
  /\ task.at = "discarding"
  /\ IF deletes /\ ~CanDelete(receiver) THEN ~ok /\ UNCHANGED budget ELSE Outcome(ok)
  /\ stores' = IF deletes /\ ok THEN Deletion(receiver) ELSE stores
  /\ receiver' = IF deletes /\ ok THEN [ receiver EXCEPT !.ref = ~task.fresh, !.handle = "deleted" ]
                 ELSE receiver
  /\ page' = IF task.fresh
             THEN [ page EXCEPT !.complete = FALSE, !.reader = NoStream,
                                !.phase = IF ok THEN Restartable ELSE "failed" ]
             ELSE page
  /\ task' = NoTask
  /\ UNCHANGED << record, queue, runs, History >>

(***************************************************************************)
(* start, pause and reset                                                  *)
(***************************************************************************)
\* What they share: the new generation.
Bump(p) == [ p EXCEPT !.complete = FALSE, !.camera = FALSE ]
NewGeneration == queue' = << >> /\ task' = Stale(task)
Quiet == task.at = "idle" /\ queue = << >>

Load(ok) ==
  /\ page.loading /\ Outcome(ok)
  /\ page' = [ page EXCEPT !.loading = FALSE,
                 !.conn = IF ok /\ record # None THEN record ELSE @,
                 !.phase = IF ~ok THEN "failed" ELSE IF record # None THEN "ready-files" ELSE "idle" ]
  /\ UNCHANGED << Disk, receiver, task, queue, runs, History >>

Continue ==
  /\ page.phase = "test-verified"
  /\ page' = [ page EXCEPT !.phase = "ready-files" ]
  /\ UNCHANGED << Disk, receiver, task, queue, runs, History, budget >>

\* The record that is read on load may show the start button during a discard:
\* those storage calls are taken to end before a capture could be complete.
StartClick ==
  /\ page.phase \in { "idle", "ready-files", "paused" } /\ start.at # "waiting"
  /\ ~page.loading /\ reset.at = "idle"
  /\ NewGeneration
  /\ page' = Bump(page)
  /\ start' = [ at |-> "waiting", fresh |-> TRUE, conn |-> page.conn ]
  /\ pause' = Stale(pause) /\ reset' = Stale(reset) /\ save' = Stale(save)
  /\ UNCHANGED << Disk, receiver, History, budget >>

\* Close what is open; the handle is closed in any case, the reference only
\* goes when the close succeeded.
CloseReceiver(ok) ==
  IF receiver.ref /\ ~ok THEN [ receiver EXCEPT !.handle = "closed" ] ELSE Closed(receiver)
CloseOutcome(ok) == IF receiver.ref /\ receiver.handle = "open" THEN Outcome(ok) ELSE ok /\ UNCHANGED budget

StartReceiver(ok) ==
  LET mode == IF start.conn = None THEN "probe" ELSE "files" IN
  /\ start.at = "waiting" /\ Quiet /\ CloseOutcome(ok)
  /\ IF ok /\ start.fresh
     THEN /\ receiver' = [ NoReceiver EXCEPT !.ref = TRUE, !.mode = mode, !.expect = start.conn ]
          /\ page' = [ page EXCEPT !.phase = "starting", !.mode = mode ]
          /\ start' = [ start EXCEPT !.at = "camera" ]
          /\ clean' = FALSE
     ELSE /\ receiver' = CloseReceiver(ok)
          /\ page' = IF start.fresh THEN [ page EXCEPT !.phase = "failed" ] ELSE page
          /\ start' = NoStart
          /\ UNCHANGED clean
  /\ UNCHANGED << Disk, task, queue, pause, reset, save, probed >>

\* The camera runs, and frames come in, before its choices are listed.
CameraStep(ok) ==
  /\ start.at \in { "camera", "listing" } /\ start.fresh /\ Outcome(ok)
  /\ IF ok
     THEN /\ page' = IF start.at = "camera" THEN [ page EXCEPT !.camera = TRUE ]
                     ELSE [ page EXCEPT !.phase = IF page.mode = "probe" THEN "testing" ELSE "scanning" ]
          /\ start' = IF start.at = "camera" THEN [ start EXCEPT !.at = "listing" ] ELSE NoStart
     ELSE /\ page' = [ page EXCEPT !.camera = FALSE ]
          /\ start' = [ start EXCEPT !.at = "closing" ]
  /\ UNCHANGED << Disk, receiver, task, queue, pause, reset, save, History >>

\* A start whose generation is over closes the receiver it had made.
StartOver ==
  /\ start.at \in { "camera", "listing" } /\ ~start.fresh
  /\ start' = [ start EXCEPT !.at = "closing" ]
  /\ receiver' = [ receiver EXCEPT !.handle = IF @ = "open" THEN "closed" ELSE @ ]
  /\ UNCHANGED << Disk, page, task, queue, pause, reset, save, History, budget >>

StartEnds(ok) ==
  /\ start.at = "closing" /\ task.at \notin { "opening", "writing" } /\ CloseOutcome(ok)
  /\ receiver' = CloseReceiver(ok)
  /\ start' = NoStart
  /\ page' = IF start.fresh THEN [ page EXCEPT !.phase = IF ok THEN Restartable ELSE "failed" ] ELSE page
  /\ UNCHANGED << Disk, task, queue, pause, reset, save, History >>

\* The button, or another view of the app is shown.
Pausing ==
  /\ NewGeneration
  /\ page' = Bump(page)
  /\ pause' = [ at |-> "waiting", fresh |-> TRUE ]
  /\ start' = Stale(start) /\ reset' = Stale(reset) /\ save' = Stale(save)
  /\ UNCHANGED << Disk, receiver, History >>

PauseClick ==
  page.phase \in { "testing", "scanning" } /\ pause.at = "idle" /\ Pausing /\ UNCHANGED budget

LeaveView ==
  /\ Acts
  /\ \/ page.phase \in { "starting", "testing", "scanning", "verifying" } /\ pause.at = "idle" /\ Pausing
     \/ /\ page.phase = "saving" /\ save.at # "idle"
        /\ save' = [ save EXCEPT !.cut = TRUE ]
        /\ UNCHANGED << Disk, page, receiver, task, queue, start, pause, reset, History >>

PauseEnds(ok) ==
  /\ pause.at = "waiting" /\ Quiet /\ CloseOutcome(ok)
  /\ receiver' = CloseReceiver(ok)
  /\ page' = IF pause.fresh THEN [ page EXCEPT !.phase = IF ok THEN "paused" ELSE "failed" ] ELSE page
  /\ pause' = Idle
  /\ UNCHANGED << Disk, task, queue, start, reset, save, History >>

ResetClick ==
  /\ Acts
  /\ page.phase # "discarding" /\ reset.at = "idle"
  /\ NewGeneration
  /\ page' = [ Bump(page) EXCEPT !.phase = "discarding" ]
  /\ reset' = [ at |-> "waiting", fresh |-> TRUE, error |-> FALSE ]
  /\ start' = Stale(start) /\ pause' = Stale(pause)
  /\ save' = [ Stale(save) EXCEPT !.cut = TRUE ]
  /\ UNCHANGED << Disk, receiver, History >>

\* Mutant: the frame that is being taken is not waited for.
ResetAtOnce(ok) ==
  LET deletes == receiver.ref /\ receiver.of # NoStream IN
  /\ reset.at = "waiting"
  /\ IF deletes /\ ~CanDelete(receiver) THEN ~ok /\ UNCHANGED budget ELSE Outcome(ok)
  /\ stores' = IF deletes /\ ok THEN Deletion(receiver) ELSE stores
  /\ receiver' = IF ok THEN [ NoReceiver EXCEPT !.of = receiver.of, !.handle = "deleted" ] ELSE receiver
  /\ reset' = [ reset EXCEPT !.at = "stores", !.error = ~ok ]
  /\ UNCHANGED << record, page, task, queue, start, pause, save, History >>

ResetReceiver(ok) ==
  LET deletes == receiver.ref /\ receiver.of # NoStream IN
  /\ reset.at = "waiting" /\ Quiet /\ save.at = "idle"
  /\ IF deletes /\ ~CanDelete(receiver) THEN ~ok /\ UNCHANGED budget ELSE Outcome(ok)
  /\ stores' = IF deletes /\ ok THEN Deletion(receiver) ELSE stores
  /\ receiver' = IF ok THEN [ NoReceiver EXCEPT !.of = receiver.of, !.handle = "deleted" ] ELSE receiver
  /\ reset' = [ reset EXCEPT !.at = "stores", !.error = ~ok ]
  /\ UNCHANGED << record, page, task, queue, start, pause, save, History >>

\* deleteAllBlockStores: refused while any store is open.
ResetStores(ok) ==
  /\ reset.at = "stores"
  /\ IF receiver.handle = "open" THEN ~ok /\ UNCHANGED budget ELSE Outcome(ok)
  /\ stores' = IF ok THEN [ s \in Streams |-> Absent ] ELSE stores
  /\ reset' = [ reset EXCEPT !.at = "record", !.error = @ \/ ~ok ]
  /\ UNCHANGED << record, page, receiver, task, queue, start, pause, save, History >>

ResetRecord(ok) ==
  LET error == reset.error \/ ~ok IN
  /\ reset.at = "record" /\ Outcome(ok)
  /\ record' = IF ok THEN None ELSE record
  /\ page' = IF reset.fresh
             THEN [ page EXCEPT !.conn = None, !.reader = NoStream, !.mode = "probe",
                                !.phase = IF error THEN "failed" ELSE "idle" ]
             ELSE page
  /\ clean' = (reset.fresh /\ ~error)
  /\ reset' = NoReset
  /\ UNCHANGED << stores, receiver, task, queue, start, pause, save, probed >>

(***************************************************************************)
(* save, and reloads                                                       *)
(***************************************************************************)
SaveClick ==
  /\ page.phase = "complete" /\ page.reader # NoStream /\ save.at = "idle"
  /\ page' = [ page EXCEPT !.phase = "saving" ]
  /\ save' = [ at |-> "writing", fresh |-> TRUE, cut |-> FALSE ]
  /\ UNCHANGED << Disk, receiver, task, queue, start, pause, reset, History, budget >>

SaveOver ==
  /\ save' = NoSave
  /\ page' = IF save.fresh THEN [ page EXCEPT !.phase = "complete" ] ELSE page

\* The destination is written and verified, or the picker or the writing failed.
SaveTree(ok) ==
  /\ save.at = "writing"
  /\ IF save.fresh /\ ~save.cut /\ receiver.handle = "open" THEN Outcome(ok) ELSE ~ok /\ UNCHANGED budget
  /\ IF ok THEN save' = [ save EXCEPT !.at = "deleting" ] /\ UNCHANGED page ELSE SaveOver
  /\ UNCHANGED << Disk, receiver, task, queue, start, pause, reset, History >>

\* The source is removed, and the connection with it; a failure is only noted.
SaveDelete(ok) ==
  LET deletes == receiver.ref /\ CanDelete(receiver) IN
  /\ save.at = "deleting"
  /\ IF deletes THEN Outcome(ok) ELSE ~ok /\ UNCHANGED budget
  /\ stores' = IF ok THEN Deletion(receiver) ELSE stores
  /\ receiver' = IF ok THEN [ receiver EXCEPT !.handle = "deleted" ] ELSE receiver
  /\ save' = [ save EXCEPT !.at = "clearing" ]
  /\ UNCHANGED << record, page, task, queue, start, pause, reset, History >>

SaveClear(ok) ==
  /\ save.at = "clearing" /\ Outcome(ok)
  /\ record' = IF ok THEN None ELSE record
  /\ IF save.fresh /\ ~save.cut
     THEN /\ save' = NoSave
          /\ page' = [ page EXCEPT !.phase = "verified", !.reader = NoStream, !.conn = None ]
          /\ receiver' = [ receiver EXCEPT !.ref = @ /\ receiver.handle # "deleted" ]
     ELSE SaveOver /\ UNCHANGED receiver
  /\ UNCHANGED << stores, task, queue, start, pause, reset, History >>

Reload ==
  /\ Acts
  /\ page' = FreshPage /\ receiver' = NoReceiver /\ task' = NoTask /\ queue' = << >>
  /\ start' = NoStart /\ pause' = Idle /\ reset' = NoReset /\ save' = NoSave
  /\ UNCHANGED << Disk, History >>

TaskStep ==
  \/ TakeFrame \/ LatePoison
  \/ \E result \in { "done", "failed", "reopen" } : WriteBlock(result)
  \/ \E ok \in BOOLEAN :
       \/ OpenStore(ok) \/ CloseForReopen(ok)
       \/ Hash(ok) \/ DeleteProbe(ok) \/ Record(ok) \/ ReadTree(ok) \/ Discard(ok)
StartStep == StartOver \/ \E ok \in BOOLEAN : StartReceiver(ok) \/ CameraStep(ok) \/ StartEnds(ok)
PauseStep == \E ok \in BOOLEAN : PauseEnds(ok)
ResetStep == \E ok \in BOOLEAN : ResetReceiver(ok) \/ ResetStores(ok) \/ ResetRecord(ok)
SaveStep == \E ok \in BOOLEAN : SaveTree(ok) \/ SaveDelete(ok) \/ SaveClear(ok)
LoadStep == \E ok \in BOOLEAN : Load(ok)

Next ==
  \/ (\E f \in Shown : Ingest(f))
  \/ TaskStep \/ StartStep \/ PauseStep \/ ResetStep \/ SaveStep \/ LoadStep
  \/ Continue \/ StartClick \/ PauseClick \/ LeaveView \/ ResetClick \/ SaveClick \/ Reload

\* What the browser was asked for ends; nothing is assumed of the user, the
\* camera's frames or what they show.
Fairness ==
  /\ WF_vars(TaskStep) /\ WF_vars(StartStep) /\ WF_vars(PauseStep)
  /\ WF_vars(ResetStep) /\ WF_vars(SaveStep) /\ WF_vars(LoadStep)

Spec == Init /\ [][Next]_vars /\ Fairness

(***************************************************************************)
(* Properties                                                              *)
(***************************************************************************)
\* The stream a destination is written from is the Files stream of a
\* connection whose whole probe was verified, it is complete, and no wrong
\* block is in it, over pauses, reloads, discards and poisoned frames
\* (large-receiver.ts verifyComplete, LargeReceiver.tsx finishFiles).
FilesExact ==
  /\ TypeOK
  /\ page.reader # NoStream =>
       /\ page.reader = << page.conn, "files" >> /\ page.conn \in probed
       /\ stores[page.reader].there => Complete(page.reader) /\ ~stores[page.reader].bad

\* "Its receiver stores the exact verified 4 KiB probe in IndexedDB before
\* showing the receipt" (README.md:343): while a receipt is on the screen, a
\* reload finds the connection it belongs to.
ReceiptIsStored ==
  page.phase = "test-verified" => page.conn # None /\ record = page.conn

\* "Discard controls on both sides remove these records and partial payloads"
\* (README.md:349): when a discard reported success, nothing is left and
\* nothing that was under way brings any of it back.
DiscardLeavesNothing ==
  clean => record = None /\ \A s \in Streams : stores[s] = Absent

\* What the page says of the disk is what a reload finds there.
DiskIsAsShown == ReceiptIsStored /\ DiscardLeavesNothing

\* No phase without a control that ends it stays, whichever run was overtaken
\* by which and whatever failed (LargeReceiver.tsx:603, 614).
Settles ==
  page.phase \in { "restoring", "discarding", "starting", "verifying", "saving" } ~>
    page.phase \notin { "restoring", "discarding", "starting", "verifying", "saving" }

\* "Destination writing was cancelled. The verified source remains available
\* to retry." (LargeReceiver.tsx:571)
SourceRemains ==
  page.phase = "complete" => stores[page.reader].there
=============================================================================
