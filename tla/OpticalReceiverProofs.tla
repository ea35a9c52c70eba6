------------------------ MODULE OpticalReceiverProofs ------------------------
(***************************************************************************)
(* Proofs about OpticalReceiver for any number of connections, blocks,      *)
(* queued frames and failures: what a destination is written from is exact, *)
(* and what the page says of the disk is so.                               *)
(***************************************************************************)
EXTENDS OpticalReceiver, TLAPS

USE OpticalReceiverAssumption
-----------------------------------------------------------------------------
(* The invariant.                                                          *)

\* What each variable holds.
Pages ==
  [ phase : Phases, loading : BOOLEAN, mode : Kinds, conn : Connections \cup { None },
    reader : Streams \cup { NoStream }, camera : BOOLEAN, complete : BOOLEAN ]
Receivers ==
  [ ref : BOOLEAN, mode : Kinds, expect : Connections \cup { None },
    of : Streams \cup { NoStream }, handle : { "none", "open", "closed", "deleted" } ]
Tasks ==
  [ at : { "idle", "opening", "writing", "hashing", "deleting", "recording", "tree",
           "discarding", "closing" },
    fresh : BOOLEAN, frame : Frames \cup { Manifest(NoStream) } ]
Starts ==
  [ at : { "idle", "waiting", "camera", "listing", "closing" }, fresh : BOOLEAN,
    conn : Connections \cup { None } ]
Pauses == [ at : { "idle", "waiting" }, fresh : BOOLEAN ]
Resets == [ at : { "idle", "waiting", "stores", "record" }, fresh : BOOLEAN, error : BOOLEAN ]
Saves == [ at : { "idle", "writing", "deleting", "clearing" }, fresh : BOOLEAN, cut : BOOLEAN ]

TypeInv ==
  /\ stores \in [ Streams -> Store ] /\ record \in Connections \cup { None }
  /\ page \in Pages /\ receiver \in Receivers
  /\ task \in Tasks /\ queue \in Seq(Frames)
  /\ start \in Starts /\ pause \in Pauses /\ reset \in Resets /\ save \in Saves
  /\ probed \subseteq Connections /\ clean \in BOOLEAN

\* No connection is remembered, on disk or on the page, but one whose whole
\* probe had the right hash.
ProbedInv ==
  /\ record # None => record \in probed
  /\ page.conn # None => page.conn \in probed
  /\ task.at \in { "deleting", "recording" } => receiver.of[1] \in probed

\* The frame that is taken has a stream, and what was hashed is what is stored.
TaskInv ==
  /\ task.at # "idle" => receiver.of \in Streams
  /\ task.at = "writing" \/ receiver.handle = "open" =>
       receiver.of \in Streams /\ stores[receiver.of].there
  /\ task.fresh /\ task.at \in { "hashing", "tree" } /\ receiver.handle = "open" =>
       Complete(receiver.of)
  /\ task.fresh /\ task.at = "tree" /\ receiver.handle = "open" => ~stores[receiver.of].bad

\* Nothing else goes on.
Still == queue = << >> /\ ~page.camera /\ ~start.fresh /\ ~pause.fresh

\* A completion that is not overtaken has overtaken everything else.
LateInv ==
  task.fresh /\ task.at \notin { "idle", "opening", "writing" } => Still

\* Before the record is read only a discard can have been asked for.
LoadingInv ==
  page.loading =>
    /\ task.at = "idle" /\ start.at = "idle" /\ pause.at = "idle" /\ save.at = "idle"
    /\ Still /\ page.reader = NoStream
    /\ page.phase \in { "restoring", "discarding", "idle", "failed" }

\* A verified stream is exact, and nothing that could change it goes on.
ReaderInv ==
  page.reader # NoStream =>
    /\ page.phase \in { "complete", "saving", "discarding" }
    /\ task.at = "idle" /\ Still
    /\ page.reader = << page.conn, "files" >> /\ page.conn \in probed
    /\ stores[page.reader].there => Complete(page.reader) /\ ~stores[page.reader].bad

ReceiptInv ==
  page.phase = "test-verified" =>
    /\ task.at = "idle" /\ Still
    /\ page.conn # None /\ record = page.conn

\* A save has its verified stream until a discard takes it away, which then waits
\* for the save.
SaveInv ==
  save.at # "idle" =>
    /\ task.at = "idle"
    /\ \/ page.phase = "saving" /\ save.fresh /\ page.reader # NoStream
       \/ reset.at = "waiting" /\ ~save.fresh

\* A discard is overtaken by nothing, and from its second step on it is alone.
ResetInv ==
  reset.at # "idle" =>
    /\ reset.fresh /\ ~task.fresh /\ Still
    /\ page.phase \in { "discarding", "idle", "ready-files", "failed" }
    /\ reset.at \in { "stores", "record" } => task.at = "idle"
    /\ reset.at = "record" /\ ~reset.error => \A s \in Streams : stores[s] = Absent

\* Behind a discard that succeeded only a new start can put anything on the disk.
CleanInv ==
  clean =>
    /\ record = None /\ \A s \in Streams : stores[s] = Absent
    /\ task.at = "idle" /\ queue = << >> /\ ~page.camera
    /\ start.at \in { "camera", "listing" } => ~start.fresh

OpticalInv ==
  /\ TypeInv /\ ProbedInv /\ TaskInv /\ LateInv /\ LoadingInv /\ ReaderInv /\ ReceiptInv
  /\ SaveInv /\ ResetInv /\ CleanInv
-----------------------------------------------------------------------------
(* What the parts say together.                                            *)

LEMMA Names ==
  /\ None \notin Connections /\ NoStream \notin Streams
  /\ \A s \in Streams : s = << s[1], s[2] >> /\ s[1] \in Connections /\ s[2] \in Kinds /\ s # NoStream
  /\ \A s \in Streams : s[1] # None
  BY DEF None, NoStream, Streams, Kinds

LEMMA ShownFrames == Shown \subseteq Frames
<1>1. ASSUME NEW s \in Streams PROVE Manifest(s) \in Frames
  BY <1>1 DEF Frames, Manifest
<1>2. ASSUME NEW s \in Streams, NEW i \in Blocks(s), NEW bad \in BOOLEAN
      PROVE  Data(s, i, bad) \in Frames
  <2>1. i \in 0 .. FileBlocks
    BY <1>2 DEF Blocks
  <2> QED
    BY <1>2, <2>1 DEF Frames, Data
<1> QED
  BY <1>1, <1>2 DEF Shown

\* While frames may come in or a run is still the newest, nothing was verified,
\* saved or discarded.
LEMMA NotStill ==
  ASSUME OpticalInv, ~Still
  PROVE  /\ reset.at = "idle" /\ save.at = "idle" /\ ~page.loading
         /\ page.reader = NoStream /\ page.phase # "test-verified"
         /\ task.fresh => task.at \in { "idle", "opening", "writing" }
  BY DEF OpticalInv, LateInv, LoadingInv, ReaderInv, ReceiptInv, SaveInv, ResetInv

\* So it is while a frame is taken, only that a discard may wait for its end.
LEMMA Busy ==
  ASSUME OpticalInv, task.at # "idle"
  PROVE  /\ receiver.of \in Streams
         /\ save.at = "idle" /\ ~page.loading /\ ~clean
         /\ page.reader = NoStream /\ page.phase # "test-verified"
         /\ reset.at \in { "idle", "waiting" }
         /\ task.fresh => reset.at = "idle"
  BY DEF OpticalInv, TypeInv, Resets, TaskInv, LoadingInv, ReaderInv, ReceiptInv, SaveInv, ResetInv, CleanInv

LEMMA StoresDeleted ==
  ASSUME TypeInv
  PROVE  /\ Deletion(receiver) \in [ Streams -> Store ]
         /\ \A s \in Streams : Deletion(receiver)[s] \in { stores[s], Absent }
         /\ receiver.of \in Streams => Deletion(receiver)[receiver.of] = Absent
<1>1. Absent \in Store
  BY DEF Absent, Store
<1>2. receiver.of \in Streams \cup { NoStream }
  BY DEF TypeInv, Receivers
<1> QED
  BY <1>1, <1>2, Names DEF TypeInv, Deletion, Removed

LEMMA ReceiverClosed ==
  ASSUME TypeInv, NEW ok \in BOOLEAN
  PROVE  /\ CloseReceiver(ok) \in Receivers
         /\ CloseReceiver(ok).of = receiver.of
         /\ CloseReceiver(ok).handle # "open"
<1>1. PICK r \in Receivers : r = receiver
  BY DEF TypeInv
<1>2. PICK h \in { "none", "closed", "deleted" } : h = IF r.handle = "open" THEN "closed" ELSE r.handle
  BY <1>1 DEF Receivers
<1>3. Closed(receiver) = [ NoReceiver EXCEPT !.of = r.of, !.handle = h ]
  BY <1>1, <1>2 DEF Closed
<1>4. Closed(receiver) \in Receivers /\ Closed(receiver).of = r.of /\ Closed(receiver).handle = h
  BY <1>1, <1>2, <1>3 DEF NoReceiver, Receivers, Kinds
<1>5. /\ [ r EXCEPT !.handle = "closed" ] \in Receivers
      /\ [ r EXCEPT !.handle = "closed" ].of = r.of
      /\ [ r EXCEPT !.handle = "closed" ].handle = "closed"
  BY <1>1 DEF Receivers
<1> QED
  BY <1>1, <1>2, <1>4, <1>5 DEF CloseReceiver

LEMMA StaleRuns ==
  ASSUME TypeInv
  PROVE  /\ Stale(start) \in Starts /\ Stale(start).at = start.at /\ ~Stale(start).fresh
         /\ Stale(pause) \in Pauses /\ Stale(pause).at = pause.at /\ ~Stale(pause).fresh
         /\ Stale(reset) \in Resets /\ Stale(reset).at = reset.at
         /\ Stale(save) \in Saves /\ Stale(save).at = save.at /\ ~Stale(save).fresh
         /\ Stale(task) \in Tasks /\ Stale(task).at = task.at /\ ~Stale(task).fresh
  BY DEF TypeInv, Stale, Starts, Pauses, Resets, Saves, Tasks

LEMMA Runs ==
  /\ NoTask \in Tasks /\ NoStart \in Starts /\ Idle \in Pauses
  /\ NoReset \in Resets /\ NoSave \in Saves
  /\ NoTask.at = "idle" /\ ~NoTask.fresh /\ NoStart.at = "idle" /\ ~NoStart.fresh
  /\ Idle.at = "idle" /\ ~Idle.fresh /\ NoReset.at = "idle" /\ NoSave.at = "idle"
<1>1. NoTask \in Tasks
  BY DEF NoTask, Tasks
<1> QED
  BY <1>1 DEF NoTask, NoStart, Starts, Idle, Pauses, NoReset, Resets, NoSave, Saves, None

LEMMA Bumped ==
  ASSUME TypeInv
  PROVE  /\ Bump(page) \in Pages /\ ~Bump(page).camera
         /\ Bump(page).phase = page.phase /\ Bump(page).loading = page.loading
         /\ Bump(page).conn = page.conn /\ Bump(page).reader = page.reader
  BY DEF TypeInv, Bump, Pages

\* The phases a page is set to.
LEMMA PageSet ==
  ASSUME TypeInv, NEW x \in Phases
  PROVE  /\ [ page EXCEPT !.phase = x ] \in Pages
         /\ [ page EXCEPT !.phase = x ].phase = x
         /\ [ page EXCEPT !.phase = x ].loading = page.loading
         /\ [ page EXCEPT !.phase = x ].conn = page.conn
         /\ [ page EXCEPT !.phase = x ].reader = page.reader
         /\ [ page EXCEPT !.phase = x ].camera = page.camera
  BY DEF TypeInv, Pages

LEMMA RestartablePhase == Restartable \in { "ready-files", "idle" } /\ Restartable \in Phases
  BY DEF Restartable, Phases
-----------------------------------------------------------------------------
(* Frames.                                                                 *)

LEMMA IngestKeeps ==
  ASSUME OpticalInv, NEW f \in Shown, Ingest(f)
  PROVE  OpticalInv'
<1>1. /\ page.camera /\ queue' = Append(queue, f) /\ f \in Frames
      /\ UNCHANGED << Disk, page, receiver, task, runs, History >>
  BY ShownFrames DEF Ingest
<1>2. TypeInv'
  BY <1>1 DEF OpticalInv, TypeInv, Disk, runs, History
<1>3. ProbedInv' /\ TaskInv' /\ LateInv' /\ LoadingInv'
  BY <1>1
  DEF OpticalInv, ProbedInv, TaskInv, LateInv, LoadingInv, Still, Complete, Disk, runs, History
<1>4. ReaderInv' /\ ReceiptInv' /\ SaveInv' /\ ResetInv' /\ CleanInv'
  BY <1>1
  DEF OpticalInv, ReaderInv, ReceiptInv, SaveInv, ResetInv, CleanInv, Still, Complete, Disk, runs, History
<1> QED
  BY <1>2, <1>3, <1>4 DEF OpticalInv

LEMMA TakeFrameKeeps ==
  ASSUME OpticalInv, TakeFrame
  PROVE  OpticalInv'
<1>1. /\ task.at = "idle" /\ queue # << >>
      /\ UNCHANGED << stores, record, page, start, pause, reset, save, probed, clean >>
  BY DEF TakeFrame, Disk, runs, History
<1>2. PICK f \in Frames : f = Head(queue)
  BY <1>1 DEF OpticalInv, TypeInv
<1>3. ~Still /\ ~clean
  BY <1>1 DEF OpticalInv, Still, CleanInv
<1>4. queue' \in Seq(Frames)
  BY <1>1 DEF OpticalInv, TypeInv, TakeFrame
<1>5. CASE ~page.complete /\ Accepts(f)
  <2>1. /\ task'.at \in { "opening", "writing" } /\ task'.fresh /\ task' \in Tasks
        /\ task'.at = "writing" => receiver.handle = "open"
    <3>1. PICK at \in { "opening", "writing" } :
            at = IF receiver.handle = "open" THEN "writing" ELSE "opening"
      OBVIOUS
    <3>2. task' = [ at |-> at, fresh |-> TRUE, frame |-> f ]
      BY <1>2, <1>5, <3>1 DEF TakeFrame
    <3> QED
      BY <1>2, <3>1, <3>2 DEF Tasks
  <2>2. /\ receiver' = [ receiver EXCEPT !.of = f.of ] /\ f.of \in Streams
    BY <1>2, <1>5 DEF TakeFrame, Frames
  <2>3. receiver' \in Receivers /\ receiver'.of = f.of /\ receiver'.handle = receiver.handle
    BY <2>2 DEF OpticalInv, TypeInv, Receivers
  <2>4. receiver.handle = "open" => f.of = receiver.of
    BY <1>5, Names DEF Accepts, OpticalInv, TaskInv
  <2>5. TypeInv'
    BY <1>1, <1>4, <2>1, <2>3 DEF OpticalInv, TypeInv
  <2>6. ProbedInv' /\ TaskInv'
    BY <1>1, <2>1, <2>2, <2>3, <2>4 DEF OpticalInv, ProbedInv, TaskInv, Complete
  <2>7. LateInv' /\ LoadingInv' /\ ReaderInv' /\ ReceiptInv' /\ SaveInv' /\ ResetInv' /\ CleanInv'
    BY <1>1, <1>3, <2>1, NotStill
    DEF LateInv, LoadingInv, ReaderInv, ReceiptInv, SaveInv, ResetInv, CleanInv
  <2> QED
    BY <2>5, <2>6, <2>7 DEF OpticalInv
<1>6. CASE ~(~page.complete /\ Accepts(f))
  <2>1. task' = task /\ receiver' = receiver
    BY <1>2, <1>6 DEF TakeFrame
  <2>2. TypeInv' /\ ProbedInv' /\ TaskInv'
    BY <1>1, <1>4, <2>1 DEF OpticalInv, TypeInv, ProbedInv, TaskInv, Complete
  <2>3. LateInv' /\ LoadingInv' /\ ReaderInv' /\ ReceiptInv' /\ SaveInv' /\ ResetInv' /\ CleanInv'
    BY <1>1, <1>3, <2>1, NotStill
    DEF LateInv, LoadingInv, ReaderInv, ReceiptInv, SaveInv, ResetInv, CleanInv
  <2> QED
    BY <2>2, <2>3 DEF OpticalInv
<1> QED
  BY <1>5, <1>6

LEMMA OpenStoreKeeps ==
  ASSUME OpticalInv, NEW ok \in BOOLEAN, OpenStore(ok)
  PROVE  OpticalInv'
<1>1. /\ task.at = "opening"
      /\ UNCHANGED << record, page, queue, start, pause, reset, save, probed, clean >>
  BY DEF OpenStore, runs, History
<1>2. receiver.of \in Streams /\ ~page.loading /\ page.reader = NoStream
      /\ page.phase # "test-verified" /\ ~clean /\ save.at = "idle"
      /\ reset.at \in { "idle", "waiting" } /\ (reset.at # "idle" => ~task.fresh)
  BY <1>1, Busy
<1>3. CASE ok
  <2>1. /\ stores' = [ stores EXCEPT ![receiver.of].there = TRUE ]
        /\ receiver' = [ receiver EXCEPT !.handle = "open" ]
        /\ task' = [ task EXCEPT !.at = "writing" ]
    BY <1>3 DEF OpenStore
  <2>2. stores' \in [ Streams -> Store ] /\ stores'[receiver.of].there
    BY <1>2, <2>1 DEF OpticalInv, TypeInv, Store
  <2>3. receiver' \in Receivers /\ receiver'.of = receiver.of
    BY <2>1 DEF OpticalInv, TypeInv, Receivers
  <2>4. task' \in Tasks /\ task'.at = "writing" /\ task'.fresh = task.fresh
    BY <2>1 DEF OpticalInv, TypeInv, Tasks
  <2>5. TypeInv' /\ ProbedInv' /\ TaskInv'
    BY <1>1, <1>2, <2>2, <2>3, <2>4 DEF OpticalInv, TypeInv, ProbedInv, TaskInv
  <2>6. LateInv' /\ LoadingInv' /\ ReaderInv' /\ ReceiptInv' /\ SaveInv' /\ CleanInv'
    BY <1>1, <1>2, <2>4 DEF LateInv, LoadingInv, ReaderInv, ReceiptInv, SaveInv, CleanInv
  <2>7. ResetInv'
    BY <1>1, <1>2, <2>4 DEF OpticalInv, ResetInv, Still
  <2> QED
    BY <2>5, <2>6, <2>7 DEF OpticalInv
<1>4. CASE ~ok
  <2>1. task' = NoTask /\ stores' = stores /\ receiver' = receiver
    BY <1>4 DEF OpenStore
  <2>2. TypeInv' /\ ProbedInv' /\ TaskInv'
    BY <1>1, <2>1, Runs DEF OpticalInv, TypeInv, ProbedInv, TaskInv
  <2>3. LateInv' /\ LoadingInv' /\ ReaderInv' /\ ReceiptInv' /\ SaveInv' /\ CleanInv'
    BY <1>1, <1>2, <2>1, Runs DEF LateInv, LoadingInv, ReaderInv, ReceiptInv, SaveInv, CleanInv
  <2>4. ResetInv'
    BY <1>1, <1>2, <2>1, Runs DEF OpticalInv, ResetInv, Still
  <2> QED
    BY <2>2, <2>3, <2>4 DEF OpticalInv
<1> QED
  BY <1>3, <1>4

\* What a generation of its own leaves of the runs of the ones before.
LEMMA SupersededKeeps ==
  ASSUME TypeInv, Superseded
  PROVE  /\ start' \in Starts /\ start'.at = start.at /\ ~start'.fresh
         /\ pause' \in Pauses /\ pause'.at = pause.at /\ ~pause'.fresh
         /\ reset' \in Resets /\ reset'.at = reset.at
         /\ save' \in Saves /\ save'.at = save.at
  BY StaleRuns DEF Superseded

\* What a block that is written leaves of the store.
LEMMA BlockWritten ==
  ASSUME OpticalInv, NEW result \in { "done", "failed", "reopen" }, WriteBlock(result)
  PROVE  /\ stores' \in [ Streams -> Store ]
         /\ stores'[receiver.of].there
<1>1. PICK s \in Streams : s = receiver.of /\ stores[s].there
  BY DEF OpticalInv, TaskInv, WriteBlock
<1>2. PICK old \in Store : old = stores[s]
  BY <1>1 DEF OpticalInv, TypeInv
<1>3. PICK i \in 0 .. FileBlocks, bad \in BOOLEAN : i = task.frame.block /\ bad = task.frame.bad
  <2>1. PICK frame \in Frames \cup { Manifest(NoStream) } : frame = task.frame
    BY DEF OpticalInv, TypeInv, Tasks
  <2>2. CASE frame \in Frames
    BY <2>1, <2>2 DEF Frames
  <2>3. CASE frame = Manifest(NoStream)
    <3>1. frame.block = 0 /\ frame.bad = FALSE
      BY <2>3 DEF Manifest
    <3>2. 0 \in 0 .. FileBlocks
      OBVIOUS
    <3> QED
      BY <2>1, <3>1, <3>2
  <2> QED
    BY <2>1, <2>2, <2>3
<1>4. PICK got \in SUBSET (1 .. FileBlocks) : i # 0 => got = old.got \cup { i }
  <2>1. old.got \subseteq 1 .. FileBlocks
    BY <1>2 DEF Store
  <2>2. i # 0 => old.got \cup { i } \subseteq 1 .. FileBlocks
    BY <1>3, <2>1
  <2> QED
    BY <2>1, <2>2
<1>5. PICK wrong \in BOOLEAN : wrong = (old.bad \/ bad)
  BY <1>2, <1>3 DEF Store
<1>6. PICK new \in Store :
        /\ new.there
        /\ new = IF i = 0 \/ i \in old.got THEN old ELSE [ old EXCEPT !.got = @ \cup { i }, !.bad = @ \/ bad ]
  <2>1. CASE i = 0 \/ i \in old.got
    BY <1>1, <1>2, <2>1
  <2>2. CASE ~(i = 0 \/ i \in old.got)
    <3>1. PICK n : n = [ old EXCEPT !.got = @ \cup { i }, !.bad = @ \/ bad ]
      OBVIOUS
    <3>2. n = [ old EXCEPT !.got = got, !.bad = wrong ]
      BY <3>1, <1>4, <1>5, <2>2
    <3>3. n \in Store /\ n.there
      BY <3>2, <1>1, <1>2 DEF Store
    <3> QED
      BY <3>1, <3>3, <2>2
  <2> QED
    BY <2>1, <2>2
<1>7. stores' = [ stores EXCEPT ![s] = IF result = "failed" THEN old ELSE new ]
  BY <1>1, <1>2, <1>3, <1>6 DEF WriteBlock
<1> QED
  BY <1>1, <1>2, <1>6, <1>7 DEF OpticalInv, TypeInv

LEMMA WriteBlockKeeps ==
  ASSUME OpticalInv, NEW result \in { "done", "failed", "reopen" }, WriteBlock(result)
  PROVE  OpticalInv'
<1>1. /\ task.at = "writing" /\ UNCHANGED << record, receiver, probed, clean >>
  BY DEF WriteBlock, History
<1>2. receiver.of \in Streams /\ ~page.loading /\ page.reader = NoStream
      /\ page.phase # "test-verified" /\ ~clean /\ save.at = "idle"
      /\ reset.at \in { "idle", "waiting" } /\ (reset.at # "idle" => ~task.fresh)
  BY <1>1, Busy
<1>3. /\ stores' \in [ Streams -> Store ] /\ stores'[receiver.of].there
  BY BlockWritten
<1>4. CASE UNCHANGED << page, queue, runs >> /\ task' = NoTask
  <2>1. UNCHANGED << start, pause, reset, save >>
    BY <1>4 DEF runs
  <2>2. TypeInv' /\ ProbedInv' /\ TaskInv'
    BY <1>1, <1>2, <1>3, <1>4, <2>1, Runs DEF OpticalInv, TypeInv, ProbedInv, TaskInv
  <2>3. LateInv' /\ LoadingInv' /\ ReaderInv' /\ ReceiptInv' /\ SaveInv' /\ CleanInv'
    BY <1>1, <1>2, <1>4, <2>1, Runs DEF LateInv, LoadingInv, ReaderInv, ReceiptInv, SaveInv, CleanInv
  <2>4. ResetInv'
    BY <1>1, <1>2, <1>4, <2>1, Runs DEF OpticalInv, ResetInv, Still
  <2> QED
    BY <2>2, <2>3, <2>4 DEF OpticalInv
<1>5. ASSUME task.fresh, Superseded, queue' = << >>, page' \in Pages, ~page'.camera, ~page'.loading,
             page'.reader = NoStream, page'.phase # "test-verified", page'.conn = page.conn,
             task' \in Tasks, task'.fresh,
             task'.at = "closing" \/ (task'.at = "hashing" /\ Complete(receiver.of)')
      PROVE  OpticalInv'
  <2>1. /\ start' \in Starts /\ ~start'.fresh /\ pause' \in Pauses /\ ~pause'.fresh
        /\ reset' \in Resets /\ reset'.at = "idle" /\ save' \in Saves /\ save'.at = "idle"
    BY <1>2, <1>5, SupersededKeeps DEF OpticalInv
  <2>2. TypeInv' /\ ProbedInv' /\ TaskInv'
    BY <1>1, <1>2, <1>3, <1>5, <2>1 DEF OpticalInv, TypeInv, ProbedInv, TaskInv, Complete
  <2>3. LateInv' /\ LoadingInv' /\ ReaderInv' /\ ReceiptInv' /\ SaveInv' /\ ResetInv' /\ CleanInv'
    BY <1>1, <1>2, <1>5, <2>1
    DEF LateInv, LoadingInv, ReaderInv, ReceiptInv, SaveInv, ResetInv, CleanInv, Still
  <2> QED
    BY <2>2, <2>3 DEF OpticalInv
<1>6. CASE task.fresh /\ result = "reopen"
  <2>1. /\ task' = [ task EXCEPT !.at = "closing" ] /\ page' = [ page EXCEPT !.camera = FALSE ]
        /\ queue' = << >> /\ Superseded
    BY <1>6 DEF WriteBlock
  <2>2. /\ page' \in Pages /\ ~page'.camera /\ page'.loading = page.loading
        /\ page'.reader = page.reader /\ page'.phase = page.phase /\ page'.conn = page.conn
    BY <2>1 DEF OpticalInv, TypeInv, Pages
  <2>3. task' \in Tasks /\ task'.fresh /\ task'.at = "closing"
    BY <1>6, <2>1 DEF OpticalInv, TypeInv, Tasks
  <2> QED
    BY <1>2, <1>5, <1>6, <2>1, <2>2, <2>3
<1>7. CASE Completing /\ task.fresh /\ Complete(receiver.of)'
  <2>1. /\ page' \in Pages /\ ~page'.camera /\ page'.loading = page.loading
        /\ page'.reader = page.reader /\ page'.phase = "verifying" /\ page'.conn = page.conn
    BY <1>7 DEF OpticalInv, TypeInv, Pages, Completing, Phases
  <2>2. task' \in Tasks /\ task'.fresh /\ task'.at = "hashing"
    BY <1>7 DEF OpticalInv, TypeInv, Tasks, Completing
  <2>3. queue' = << >> /\ Superseded
    BY <1>7 DEF Completing
  <2> QED
    BY <1>2, <1>5, <1>7, <2>1, <2>2, <2>3
<1>8. CASE task.fresh /\ result = "done"
  <2>1. PICK new :
          new = IF task.frame.block = 0 \/ task.frame.block \in stores[receiver.of].got
                THEN stores[receiver.of]
                ELSE [ stores[receiver.of] EXCEPT !.got = @ \cup { task.frame.block }, !.bad = @ \/ task.frame.bad ]
    OBVIOUS
  <2>2. /\ stores' = [ stores EXCEPT ![receiver.of] = new ]
        /\ IF new.got = Blocks(receiver.of) THEN Completing
           ELSE task' = NoTask /\ UNCHANGED << page, queue, runs >>
    BY <1>8, <2>1 DEF WriteBlock
  <2>3. stores'[receiver.of] = new
    BY <1>2, <2>2 DEF OpticalInv, TypeInv
  <2>4. Blocks(receiver.of)' = Blocks(receiver.of)
    BY <1>1 DEF Blocks
  <2>5. new.got = Blocks(receiver.of) => Complete(receiver.of)'
    BY <1>1, <1>3, <2>3, <2>4 DEF Complete
  <2> QED
    BY <1>4, <1>7, <1>8, <2>2, <2>5
<1>9. CASE ~task.fresh \/ result = "failed"
  BY <1>4, <1>9 DEF WriteBlock
<1> QED
  BY <1>6, <1>8, <1>9

LEMMA CloseForReopenKeeps ==
  ASSUME OpticalInv, NEW ok \in BOOLEAN, CloseForReopen(ok)
  PROVE  OpticalInv'
<1>1. /\ task.at = "closing" /\ receiver' = Closed(receiver) /\ task' = NoTask
      /\ page' = IF task.fresh THEN [ page EXCEPT !.phase = Restartable ] ELSE page
      /\ UNCHANGED << stores, record, queue, start, pause, reset, save, probed, clean >>
  BY DEF CloseForReopen, Disk, runs, History
<1>2. receiver.of \in Streams /\ ~page.loading /\ page.reader = NoStream
      /\ page.phase # "test-verified" /\ ~clean /\ save.at = "idle"
      /\ reset.at \in { "idle", "waiting" } /\ (reset.at # "idle" => ~task.fresh)
  BY <1>1, Busy
<1>3. /\ receiver' \in Receivers /\ receiver'.of = receiver.of /\ receiver'.handle # "open"
  BY <1>1, ReceiverClosed DEF OpticalInv, CloseReceiver
<1>4. /\ page' \in Pages /\ page'.loading = page.loading /\ page'.reader = page.reader
      /\ page'.phase # "test-verified" /\ page'.conn = page.conn /\ page'.camera = page.camera
      /\ ~task.fresh => page' = page
  BY <1>1, <1>2, PageSet, RestartablePhase DEF OpticalInv, TypeInv
<1>5. TypeInv' /\ ProbedInv' /\ TaskInv'
  BY <1>1, <1>3, <1>4, Runs DEF OpticalInv, TypeInv, ProbedInv, TaskInv
<1>6. LateInv' /\ LoadingInv' /\ ReaderInv' /\ ReceiptInv' /\ SaveInv' /\ CleanInv'
  BY <1>1, <1>2, <1>4, Runs DEF LateInv, LoadingInv, ReaderInv, ReceiptInv, SaveInv, CleanInv
<1>7. ResetInv'
  BY <1>1, <1>2, <1>4, Runs DEF OpticalInv, ResetInv, Still
<1> QED
  BY <1>5, <1>6, <1>7 DEF OpticalInv
-----------------------------------------------------------------------------
(* A complete stream.                                                      *)

\* A step of a frame under way that leaves the runs and the disk's record alone.
FrameStep ==
  /\ task.at # "idle" /\ task' \in Tasks /\ (task'.fresh => task.fresh)
  /\ UNCHANGED << queue, start, pause, reset, save, clean >>

LEMMA FrameStepKeeps ==
  ASSUME OpticalInv, FrameStep, page'.camera = page.camera,
         page'.loading = page.loading, page'.reader = page.reader, page'.phase # "test-verified",
         page' = page \/ task.fresh,
         task'.fresh /\ task'.at \notin { "idle", "opening", "writing" } =>
           task.at \notin { "idle", "opening", "writing" }
  PROVE  LateInv' /\ LoadingInv' /\ ReaderInv' /\ ReceiptInv' /\ SaveInv' /\ ResetInv' /\ CleanInv'
<1>1. /\ ~page.loading /\ page.reader = NoStream /\ ~clean /\ save.at = "idle"
      /\ reset.at \in { "idle", "waiting" } /\ (reset.at # "idle" => ~task.fresh)
  BY Busy DEF FrameStep
<1>2. LateInv' /\ LoadingInv' /\ ReaderInv' /\ ReceiptInv' /\ SaveInv' /\ CleanInv'
  BY <1>1
  DEF OpticalInv, FrameStep, LateInv, Still, LoadingInv, ReaderInv, ReceiptInv, SaveInv, CleanInv
<1>3. ResetInv'
  BY <1>1 DEF OpticalInv, FrameStep, ResetInv, Still
<1> QED
  BY <1>2, <1>3

LEMMA TaskFailed ==
  ASSUME TypeInv, Failed
  PROVE  /\ task' \in Tasks /\ task'.at \in { "idle", "discarding" }
         /\ (task'.at = "discarding" => task.fresh) /\ (task'.fresh => task.fresh)
<1>1. /\ [ task EXCEPT !.at = "discarding" ] \in Tasks
      /\ [ task EXCEPT !.at = "discarding" ].at = "discarding"
      /\ [ task EXCEPT !.at = "discarding" ].fresh = task.fresh
  BY DEF TypeInv, Tasks
<1> QED
  BY <1>1, Runs DEF Failed, Then

LEMMA TaskThen ==
  ASSUME TypeInv, NEW at \in { "hashing", "deleting", "recording", "tree", "discarding", "closing" },
         Then(at)
  PROVE  task' \in Tasks /\ task'.at = at /\ task'.fresh = task.fresh
  BY DEF TypeInv, Then, Tasks

LEMMA HashKeeps ==
  ASSUME OpticalInv, NEW ok \in BOOLEAN, Hash(ok)
  PROVE  OpticalInv'
<1>1. /\ task.at = "hashing"
      /\ UNCHANGED << stores, record, page, receiver, queue, start, pause, reset, save, clean >>
  BY DEF Hash, Disk, runs
<1>2. receiver.of \in Streams /\ page.phase # "test-verified"
  BY <1>1, Busy
<1>3. CASE ok /\ receiver.handle = "open" /\ ~stores[receiver.of].bad /\ task.fresh
  <2>1. PICK at \in { "deleting", "tree" } : at = IF receiver.mode = "probe" THEN "deleting" ELSE "tree"
    OBVIOUS
  <2>2. /\ Then(at)
        /\ probed' = IF receiver.mode = "probe" THEN probed \cup { receiver.of[1] } ELSE probed
    BY <1>3, <2>1 DEF Hash
  <2>3. task' \in Tasks /\ task'.at = at /\ task'.fresh = task.fresh
    BY <2>2, TaskThen DEF OpticalInv
  <2>4. /\ probed \subseteq probed' /\ probed' \subseteq Connections
        /\ at = "deleting" => receiver.of[1] \in probed'
    BY <1>2, <2>1, <2>2, Names DEF OpticalInv, TypeInv
  <2>5. TypeInv' /\ ProbedInv' /\ TaskInv'
    BY <1>1, <1>3, <2>3, <2>4 DEF OpticalInv, TypeInv, ProbedInv, TaskInv, Complete, Blocks
  <2>6. LateInv' /\ LoadingInv' /\ ReaderInv' /\ ReceiptInv' /\ SaveInv' /\ ResetInv' /\ CleanInv'
    BY <1>1, <1>2, <2>3, FrameStepKeeps DEF FrameStep
  <2> QED
    BY <2>5, <2>6 DEF OpticalInv
<1>4. CASE ~(ok /\ receiver.handle = "open" /\ ~stores[receiver.of].bad /\ task.fresh)
  <2>1. Failed /\ probed' = probed
    BY <1>4 DEF Hash
  <2>2. /\ task' \in Tasks /\ task'.at \in { "idle", "discarding" } /\ (task'.fresh => task.fresh)
    BY <2>1, TaskFailed DEF OpticalInv
  <2>3. TypeInv' /\ ProbedInv' /\ TaskInv'
    BY <1>1, <1>2, <2>1, <2>2 DEF OpticalInv, TypeInv, ProbedInv, TaskInv
  <2>4. LateInv' /\ LoadingInv' /\ ReaderInv' /\ ReceiptInv' /\ SaveInv' /\ ResetInv' /\ CleanInv'
    BY <1>1, <1>2, <2>2, FrameStepKeeps DEF FrameStep
  <2> QED
    BY <2>3, <2>4 DEF OpticalInv
<1> QED
  BY <1>3, <1>4

\* A store that is deleted is no longer complete, and it is closed.
LEMMA DeletedKeeps ==
  ASSUME OpticalInv, FrameStep, stores' = Deletion(receiver), receiver' \in Receivers,
         receiver'.of = receiver.of, receiver'.handle = "deleted",
         page' \in Pages, page'.conn = page.conn, record' = record, probed' = probed,
         task'.at \in { "idle", "recording" }, task'.at = "recording" => task.at = "deleting"
  PROVE  TypeInv' /\ ProbedInv' /\ TaskInv'
<1>1. receiver.of \in Streams
  BY Busy DEF FrameStep
<1>2. stores' \in [ Streams -> Store ]
  BY StoresDeleted DEF OpticalInv
<1>3. TypeInv'
  BY <1>2 DEF OpticalInv, TypeInv, FrameStep
<1>4. ProbedInv' /\ TaskInv'
  BY <1>1 DEF OpticalInv, ProbedInv, TaskInv, FrameStep
<1> QED
  BY <1>3, <1>4

LEMMA LatePoisonKeeps ==
  ASSUME OpticalInv, LatePoison
  PROVE  OpticalInv'
<1>1. /\ task.at = "hashing" /\ task' = NoTask /\ stores' = Deletion(receiver)
      /\ receiver' = [ receiver EXCEPT !.handle = "deleted" ]
      /\ UNCHANGED << record, page, queue, start, pause, reset, save, probed, clean >>
  BY DEF LatePoison, runs, History
<1>2. page.phase # "test-verified"
  BY <1>1, Busy
<1>3. receiver' \in Receivers /\ receiver'.of = receiver.of /\ receiver'.handle = "deleted"
  BY <1>1 DEF OpticalInv, TypeInv, Receivers
<1>4. FrameStep
  BY <1>1, Runs DEF FrameStep
<1>5. TypeInv' /\ ProbedInv' /\ TaskInv'
  BY <1>1, <1>3, <1>4, Runs, DeletedKeeps DEF OpticalInv, TypeInv
<1>6. LateInv' /\ LoadingInv' /\ ReaderInv' /\ ReceiptInv' /\ SaveInv' /\ ResetInv' /\ CleanInv'
  BY <1>1, <1>2, <1>4, Runs, FrameStepKeeps
<1> QED
  BY <1>5, <1>6 DEF OpticalInv

LEMMA DeleteProbeKeeps ==
  ASSUME OpticalInv, NEW ok \in BOOLEAN, DeleteProbe(ok)
  PROVE  OpticalInv'
<1>1. /\ task.at = "deleting"
      /\ UNCHANGED << record, page, queue, start, pause, reset, save, probed, clean >>
  BY DEF DeleteProbe, runs, History
<1>2. page.phase # "test-verified" /\ receiver.of \in Streams
  BY <1>1, Busy
<1>3. CASE ok
  <2>1. /\ stores' = Deletion(receiver)
        /\ receiver' = [ receiver EXCEPT !.ref = FALSE, !.handle = "deleted" ]
        /\ IF task.fresh THEN Then("recording") ELSE task' = NoTask
    BY <1>3 DEF DeleteProbe
  <2>2. receiver' \in Receivers /\ receiver'.of = receiver.of /\ receiver'.handle = "deleted"
    BY <2>1 DEF OpticalInv, TypeInv, Receivers
  <2>3. task' \in Tasks /\ task'.at \in { "idle", "recording" } /\ (task'.fresh => task.fresh)
    BY <2>1, TaskThen, Runs DEF OpticalInv
  <2>4. FrameStep
    BY <1>1, <2>3 DEF FrameStep
  <2>5. TypeInv' /\ ProbedInv' /\ TaskInv'
    BY <1>1, <2>1, <2>2, <2>3, <2>4, DeletedKeeps DEF OpticalInv, TypeInv
  <2>6. LateInv' /\ LoadingInv' /\ ReaderInv' /\ ReceiptInv' /\ SaveInv' /\ ResetInv' /\ CleanInv'
    BY <1>1, <1>2, <2>3, <2>4, FrameStepKeeps
  <2> QED
    BY <2>5, <2>6 DEF OpticalInv
<1>4. CASE ~ok
  <2>1. Failed /\ stores' = stores /\ receiver' = receiver
    BY <1>4 DEF DeleteProbe
  <2>2. /\ task' \in Tasks /\ task'.at \in { "idle", "discarding" } /\ (task'.fresh => task.fresh)
    BY <2>1, TaskFailed DEF OpticalInv
  <2>3. TypeInv' /\ ProbedInv' /\ TaskInv'
    BY <1>1, <1>2, <2>1, <2>2 DEF OpticalInv, TypeInv, ProbedInv, TaskInv
  <2>4. LateInv' /\ LoadingInv' /\ ReaderInv' /\ ReceiptInv' /\ SaveInv' /\ ResetInv' /\ CleanInv'
    BY <1>1, <1>2, <2>2, FrameStepKeeps DEF FrameStep
  <2> QED
    BY <2>3, <2>4 DEF OpticalInv
<1> QED
  BY <1>3, <1>4

LEMMA RecordKeeps ==
  ASSUME OpticalInv, NEW ok \in BOOLEAN, Record(ok)
  PROVE  OpticalInv'
<1>1. /\ task.at = "recording" /\ record' = IF ok THEN receiver.of[1] ELSE record
      /\ UNCHANGED << stores, receiver, queue, start, pause, reset, save, probed, clean >>
  BY DEF Record, runs, History
<1>2. PICK c \in Connections : c = receiver.of[1] /\ c \in probed /\ c # None
  BY <1>1, Busy, Names DEF OpticalInv, ProbedInv
<1>3. /\ receiver.of \in Streams /\ ~page.loading /\ page.reader = NoStream
      /\ page.phase # "test-verified" /\ ~clean /\ save.at = "idle"
      /\ reset.at \in { "idle", "waiting" } /\ (reset.at # "idle" => ~task.fresh)
  BY <1>1, Busy
<1>4. CASE ok /\ task.fresh
  <2>1. task' = NoTask /\ page' = [ page EXCEPT !.conn = c, !.phase = "test-verified" ]
    BY <1>2, <1>4 DEF Record
  <2>2. /\ page' \in Pages /\ page'.conn = c /\ page'.phase = "test-verified"
        /\ page'.loading = page.loading /\ page'.reader = page.reader /\ page'.camera = page.camera
    BY <2>1 DEF OpticalInv, TypeInv, Pages, Phases
  <2>3. Still
    BY <1>1, <1>4 DEF OpticalInv, LateInv
  <2>4. TypeInv' /\ ProbedInv' /\ TaskInv'
    BY <1>1, <1>2, <1>4, <2>1, <2>2, Runs DEF OpticalInv, TypeInv, ProbedInv, TaskInv
  <2>5. LateInv' /\ LoadingInv' /\ ReaderInv' /\ ReceiptInv'
    BY <1>1, <1>2, <1>3, <1>4, <2>1, <2>2, <2>3, Runs
    DEF LateInv, LoadingInv, ReaderInv, ReceiptInv, Still
  <2>6. SaveInv' /\ ResetInv' /\ CleanInv'
    BY <1>1, <1>3, <1>4 DEF SaveInv, ResetInv, CleanInv
  <2> QED
    BY <2>4, <2>5, <2>6 DEF OpticalInv
<1>5. CASE ~(ok /\ task.fresh)
  <2>1. page' = page
    BY <1>5 DEF Record
  <2>2. /\ task' \in Tasks /\ task'.at \in { "idle", "discarding" } /\ (task'.fresh => task.fresh)
    BY TaskFailed, Runs DEF OpticalInv, Record
  <2>3. TypeInv' /\ ProbedInv' /\ TaskInv'
    BY <1>1, <1>2, <1>3, <2>1, <2>2 DEF OpticalInv, TypeInv, ProbedInv, TaskInv
  <2>4. LateInv' /\ LoadingInv' /\ ReaderInv' /\ ReceiptInv' /\ SaveInv' /\ ResetInv' /\ CleanInv'
    BY <1>1, <1>3, <2>1, <2>2, FrameStepKeeps DEF FrameStep
  <2> QED
    BY <2>3, <2>4 DEF OpticalInv
<1> QED
  BY <1>4, <1>5

LEMMA ReadTreeKeeps ==
  ASSUME OpticalInv, NEW ok \in BOOLEAN, ReadTree(ok)
  PROVE  OpticalInv'
<1>1. /\ task.at = "tree"
      /\ UNCHANGED << stores, record, receiver, queue, start, pause, reset, save, probed, clean >>
  BY DEF ReadTree, Disk, runs, History
<1>2. /\ receiver.of \in Streams /\ ~page.loading /\ page.reader = NoStream
      /\ page.phase # "test-verified" /\ ~clean /\ save.at = "idle"
      /\ reset.at \in { "idle", "waiting" } /\ (reset.at # "idle" => ~task.fresh)
  BY <1>1, Busy
<1>3. CASE ok /\ receiver.handle = "open" /\ receiver.of = << page.conn, "files" >> /\ task.fresh
  <2>1. PICK s \in Streams : s = receiver.of
    BY <1>2
  <2>2. task' = NoTask /\ page' = [ page EXCEPT !.reader = s, !.phase = "complete" ]
    BY <1>3, <2>1 DEF ReadTree
  <2>3. /\ page' \in Pages /\ page'.reader = s /\ page'.phase = "complete"
        /\ page'.loading = page.loading /\ page'.conn = page.conn /\ page'.camera = page.camera
    BY <2>1, <2>2 DEF OpticalInv, TypeInv, Pages, Phases
  <2>4. s = << page.conn, "files" >> /\ page.conn \in probed
    <3>1. page.conn = s[1]
      BY <1>3, <2>1
    <3> QED
      BY <1>3, <2>1, <3>1, Names DEF OpticalInv, ProbedInv
  <2>5. Complete(s) /\ ~stores[s].bad
    BY <1>1, <1>3, <2>1 DEF OpticalInv, TaskInv
  <2>6. Complete(s)'
    BY <1>1, <2>5 DEF Complete, Blocks
  <2>7. Still
    BY <1>1, <1>3 DEF OpticalInv, LateInv
  <2>8. TypeInv' /\ ProbedInv' /\ TaskInv'
    BY <1>1, <1>3, <2>2, <2>3, Runs DEF OpticalInv, TypeInv, ProbedInv, TaskInv
  <2>9. ReaderInv'
    <3>1. Complete(page.reader)'
      BY <2>3, <2>6 DEF Complete, Blocks
    <3> QED
      BY <1>1, <2>2, <2>3, <2>4, <2>5, <2>7, <3>1, Runs DEF ReaderInv, Still
  <2>10. LateInv' /\ LoadingInv' /\ ReceiptInv' /\ SaveInv' /\ ResetInv' /\ CleanInv'
    BY <1>1, <1>2, <1>3, <2>2, <2>3, Runs DEF LateInv, LoadingInv, ReceiptInv, SaveInv, ResetInv, CleanInv
  <2> QED
    BY <2>8, <2>9, <2>10 DEF OpticalInv
<1>4. CASE ~(ok /\ receiver.handle = "open" /\ receiver.of = << page.conn, "files" >> /\ task.fresh)
  <2>1. Failed /\ page' = page
    BY <1>4 DEF ReadTree
  <2>2. /\ task' \in Tasks /\ task'.at \in { "idle", "discarding" } /\ (task'.fresh => task.fresh)
    BY <2>1, TaskFailed DEF OpticalInv
  <2>3. TypeInv' /\ ProbedInv' /\ TaskInv'
    BY <1>1, <1>2, <2>1, <2>2 DEF OpticalInv, TypeInv, ProbedInv, TaskInv
  <2>4. LateInv' /\ LoadingInv' /\ ReaderInv' /\ ReceiptInv' /\ SaveInv' /\ ResetInv' /\ CleanInv'
    BY <1>1, <1>2, <2>1, <2>2, FrameStepKeeps DEF FrameStep
  <2> QED
    BY <2>3, <2>4 DEF OpticalInv
<1> QED
  BY <1>3, <1>4

LEMMA DiscardKeeps ==
  ASSUME OpticalInv, NEW ok \in BOOLEAN, Discard(ok)
  PROVE  OpticalInv'
<1>1. /\ task.at = "discarding" /\ task' = NoTask
      /\ UNCHANGED << record, queue, start, pause, reset, save, probed, clean >>
  BY DEF Discard, runs, History
<1>2. /\ receiver.of \in Streams /\ ~page.loading /\ page.reader = NoStream
      /\ page.phase # "test-verified" /\ ~clean /\ save.at = "idle"
      /\ reset.at \in { "idle", "waiting" } /\ (reset.at # "idle" => ~task.fresh)
  BY <1>1, Busy
<1>3. /\ page' \in Pages /\ page'.conn = page.conn /\ page'.loading = page.loading
      /\ page'.reader = NoStream /\ page'.camera = page.camera /\ page'.phase # "test-verified"
      /\ page' = page \/ task.fresh
  <2>1. PICK x \in Phases : x = (IF ok THEN Restartable ELSE "failed") /\ x # "test-verified"
    BY RestartablePhase DEF Phases
  <2>2. page' = IF task.fresh THEN [ page EXCEPT !.complete = FALSE, !.reader = NoStream, !.phase = x ]
                ELSE page
    BY <2>1 DEF Discard
  <2>3. CASE task.fresh
    BY <2>1, <2>2, <2>3 DEF OpticalInv, TypeInv, Pages
  <2>4. CASE ~task.fresh
    BY <1>2, <2>2, <2>4 DEF OpticalInv, TypeInv
  <2> QED
    BY <2>3, <2>4
<1>4. FrameStep
  BY <1>1, Runs DEF FrameStep
<1>5. TypeInv' /\ ProbedInv' /\ TaskInv'
  <2>1. CASE receiver.ref /\ receiver.of # NoStream /\ ok
    <3>1. PICK ref \in BOOLEAN : ref = ~task.fresh
      BY DEF OpticalInv, TypeInv, Tasks
    <3>2. /\ stores' = Deletion(receiver)
          /\ receiver' = [ receiver EXCEPT !.ref = ref, !.handle = "deleted" ]
      BY <2>1, <3>1 DEF Discard
    <3>3. receiver' \in Receivers /\ receiver'.of = receiver.of /\ receiver'.handle = "deleted"
      BY <3>2 DEF OpticalInv, TypeInv, Receivers
    <3> QED
      BY <1>1, <1>3, <1>4, <3>2, <3>3, Runs, DeletedKeeps
  <2>2. CASE ~(receiver.ref /\ receiver.of # NoStream /\ ok)
    <3>1. stores' = stores /\ receiver' = receiver
      BY <2>2 DEF Discard
    <3> QED
      BY <1>1, <1>2, <1>3, <3>1, Runs DEF OpticalInv, TypeInv, ProbedInv, TaskInv
  <2> QED
    BY <2>1, <2>2
<1>6. LateInv' /\ LoadingInv' /\ ReaderInv' /\ ReceiptInv' /\ SaveInv' /\ ResetInv' /\ CleanInv'
  BY <1>1, <1>2, <1>3, <1>4, Runs, FrameStepKeeps
<1> QED
  BY <1>5, <1>6 DEF OpticalInv
-----------------------------------------------------------------------------
(* start and pause.                                                        *)

LEMMA LoadKeeps ==
  ASSUME OpticalInv, NEW ok \in BOOLEAN, Load(ok)
  PROVE  OpticalInv'
<1>1. /\ page.loading
      /\ UNCHANGED << stores, record, receiver, task, queue, start, pause, reset, save, probed, clean >>
  BY DEF Load, Disk, runs, History
<1>2. /\ task.at = "idle" /\ save.at = "idle" /\ Still /\ page.reader = NoStream
  BY <1>1 DEF OpticalInv, LoadingInv
<1>3. PICK c \in Connections \cup { None } :
        c = (IF ok /\ record # None THEN record ELSE page.conn) /\ (c # None => c \in probed)
  BY DEF OpticalInv, TypeInv, ProbedInv, Pages
<1>4. PICK x \in { "failed", "ready-files", "idle" } :
        x = IF ~ok THEN "failed" ELSE IF record # None THEN "ready-files" ELSE "idle"
  OBVIOUS
<1>5. page' = [ page EXCEPT !.loading = FALSE, !.conn = c, !.phase = x ]
  BY <1>3, <1>4 DEF Load
<1>6. /\ page' \in Pages /\ ~page'.loading /\ page'.conn = c /\ page'.phase = x
      /\ page'.reader = page.reader /\ page'.camera = page.camera
  BY <1>5 DEF OpticalInv, TypeInv, Pages, Phases
<1>7. TypeInv' /\ ProbedInv' /\ TaskInv' /\ CleanInv'
  BY <1>1, <1>3, <1>6 DEF OpticalInv, TypeInv, ProbedInv, TaskInv, Complete, CleanInv
<1>8. LateInv' /\ LoadingInv' /\ ReaderInv' /\ ReceiptInv' /\ SaveInv'
  BY <1>1, <1>2, <1>6 DEF LateInv, LoadingInv, ReaderInv, ReceiptInv, SaveInv
<1>9. ResetInv'
  BY <1>1, <1>6 DEF OpticalInv, ResetInv, Still
<1> QED
  BY <1>7, <1>8, <1>9 DEF OpticalInv

LEMMA ContinueKeeps ==
  ASSUME OpticalInv, Continue
  PROVE  OpticalInv'
<1>1. /\ page.phase = "test-verified" /\ page' = [ page EXCEPT !.phase = "ready-files" ]
      /\ UNCHANGED << stores, record, receiver, task, queue, start, pause, reset, save, probed, clean >>
  BY DEF Continue, Disk, runs, History
<1>2. /\ page' \in Pages /\ page'.loading = page.loading /\ page'.conn = page.conn
      /\ page'.phase = "ready-files" /\ page'.reader = page.reader /\ page'.camera = page.camera
  BY <1>1, PageSet DEF OpticalInv, Phases
<1>3. ~page.loading /\ page.reader = NoStream /\ reset.at = "idle" /\ save.at = "idle"
  BY <1>1 DEF OpticalInv, LoadingInv, ReaderInv, ResetInv, SaveInv
<1>4. TypeInv' /\ ProbedInv' /\ TaskInv' /\ CleanInv'
  BY <1>1, <1>2 DEF OpticalInv, TypeInv, ProbedInv, TaskInv, Complete, CleanInv
<1>5. LateInv' /\ LoadingInv' /\ ReaderInv' /\ ReceiptInv' /\ SaveInv' /\ ResetInv'
  BY <1>1, <1>2, <1>3
  DEF OpticalInv, LateInv, Still, LoadingInv, ReaderInv, ReceiptInv, SaveInv, ResetInv
<1> QED
  BY <1>4, <1>5 DEF OpticalInv

LEMMA StartClickKeeps ==
  ASSUME OpticalInv, StartClick
  PROVE  OpticalInv'
<1>1. /\ page.phase \in { "idle", "ready-files", "paused" } /\ ~page.loading /\ reset.at = "idle"
      /\ queue' = << >> /\ task' = Stale(task) /\ page' = Bump(page)
      /\ pause' = Stale(pause) /\ reset' = Stale(reset) /\ save' = Stale(save)
      /\ UNCHANGED << stores, record, receiver, probed, clean >>
  BY DEF StartClick, NewGeneration, Disk, History
<1>2. start' \in Starts /\ start'.at = "waiting"
  <2>1. PICK c \in Connections \cup { None } : c = page.conn
    BY DEF OpticalInv, TypeInv, Pages
  <2>2. start' = [ at |-> "waiting", fresh |-> TRUE, conn |-> c ]
    BY <2>1 DEF StartClick
  <2> QED
    BY <2>2 DEF Starts
<1>3. page.reader = NoStream /\ save.at = "idle"
  BY <1>1 DEF OpticalInv, ReaderInv, SaveInv
<1>4. TypeInv' /\ ProbedInv' /\ TaskInv'
  BY <1>1, <1>2, StaleRuns, Bumped DEF OpticalInv, TypeInv, ProbedInv, TaskInv
<1>5. LateInv' /\ LoadingInv' /\ ReaderInv' /\ ReceiptInv' /\ SaveInv' /\ ResetInv'
  BY <1>1, <1>3, StaleRuns, Bumped
  DEF OpticalInv, LateInv, LoadingInv, ReaderInv, ReceiptInv, SaveInv, ResetInv
<1>6. CleanInv'
  BY <1>1, <1>2, StaleRuns, Bumped DEF OpticalInv, CleanInv
<1> QED
  BY <1>4, <1>5, <1>6 DEF OpticalInv

\* The page of a run that ended in a phase of its own, or that was overtaken.
LEMMA RunEnds ==
  ASSUME OpticalInv, page' \in Pages, page' = page \/ ~Still,
         page'.phase # "test-verified" \/ page' = page, page'.loading = page.loading,
         page'.conn = page.conn, page'.reader = page.reader, page'.camera = page.camera,
         receiver' \in Receivers, receiver'.of = receiver.of, receiver'.handle # "open",
         start' = start \/ start' = NoStart, pause' = pause \/ pause' = Idle,
         task.at # "writing",
         UNCHANGED << stores, record, task, queue, reset, save, probed, clean >>
  PROVE  OpticalInv'
<1>1. /\ start' \in Starts /\ (start'.fresh => start.fresh)
      /\ (start'.at = start.at \/ start'.at = "idle")
      /\ (start'.at # "idle" => start' = start)
  BY Runs DEF OpticalInv, TypeInv
<1>2. /\ pause' \in Pauses /\ (pause'.fresh => pause.fresh)
      /\ (pause'.at = pause.at \/ pause'.at = "idle")
  BY Runs DEF OpticalInv, TypeInv
<1>3. Still => Still' /\ page' = page
  BY <1>1, <1>2 DEF Still
<1>4. TypeInv' /\ ProbedInv' /\ TaskInv'
  BY <1>1, <1>2 DEF OpticalInv, TypeInv, ProbedInv, TaskInv
<1>5. LateInv' /\ LoadingInv'
  BY <1>1, <1>2, <1>3 DEF OpticalInv, LateInv, LoadingInv
<1>6. ReaderInv' /\ ReceiptInv'
  BY <1>3, NotStill DEF OpticalInv, ReaderInv, ReceiptInv, Complete, Blocks
<1>7. SaveInv' /\ ResetInv' /\ CleanInv'
  BY <1>1, <1>3, NotStill DEF OpticalInv, SaveInv, ResetInv, CleanInv
<1> QED
  BY <1>4, <1>5, <1>6, <1>7 DEF OpticalInv

LEMMA StartReceiverKeeps ==
  ASSUME OpticalInv, NEW ok \in BOOLEAN, StartReceiver(ok)
  PROVE  OpticalInv'
<1>1. /\ start.at = "waiting" /\ task.at = "idle" /\ queue = << >>
      /\ UNCHANGED << stores, record, task, queue, pause, reset, save, probed >>
  BY DEF StartReceiver, Quiet, Disk
<1>2. CASE ok /\ start.fresh
  <2>1. PICK mode \in Kinds : mode = IF start.conn = None THEN "probe" ELSE "files"
    BY DEF Kinds
  <2>2. PICK c \in Connections \cup { None } : c = start.conn
    BY DEF OpticalInv, TypeInv, Starts
  <2>3. /\ receiver' = [ NoReceiver EXCEPT !.ref = TRUE, !.mode = mode, !.expect = c ]
        /\ page' = [ page EXCEPT !.phase = "starting", !.mode = mode ]
        /\ start' = [ start EXCEPT !.at = "camera" ] /\ clean' = FALSE
    BY <1>2, <2>1, <2>2 DEF StartReceiver
  <2>4. receiver' \in Receivers /\ receiver'.handle # "open"
    BY <2>3 DEF NoReceiver, Receivers
  <2>5. /\ page' \in Pages /\ page'.phase = "starting" /\ page'.loading = page.loading
        /\ page'.conn = page.conn /\ page'.reader = page.reader /\ page'.camera = page.camera
    BY <2>3 DEF OpticalInv, TypeInv, Pages, Phases
  <2>6. start' \in Starts /\ start'.at = "camera"
    BY <2>3 DEF OpticalInv, TypeInv, Starts
  <2>7. /\ reset.at = "idle" /\ save.at = "idle" /\ ~page.loading /\ page.reader = NoStream
    BY <1>2, NotStill DEF Still
  <2>8. TypeInv' /\ ProbedInv' /\ TaskInv'
    <3>1. TypeInv'
      BY <1>1, <2>3, <2>4, <2>5, <2>6 DEF OpticalInv, TypeInv
    <3>2. ProbedInv'
      BY <1>1, <2>5 DEF OpticalInv, ProbedInv
    <3>3. TaskInv'
      BY <1>1, <2>4 DEF TaskInv
    <3> QED
      BY <3>1, <3>2, <3>3
  <2>9. LateInv' /\ LoadingInv' /\ ReaderInv' /\ ReceiptInv' /\ SaveInv' /\ ResetInv' /\ CleanInv'
    BY <1>1, <2>3, <2>5, <2>7
    DEF LateInv, LoadingInv, ReaderInv, ReceiptInv, SaveInv, ResetInv, CleanInv
  <2> QED
    BY <2>8, <2>9 DEF OpticalInv
<1>3. CASE ~(ok /\ start.fresh)
  <2>1. /\ receiver' = CloseReceiver(ok) /\ start' = NoStart /\ clean' = clean
        /\ page' = IF start.fresh THEN [ page EXCEPT !.phase = "failed" ] ELSE page
    BY <1>3 DEF StartReceiver
  <2>2. /\ page' \in Pages /\ (page'.phase # "test-verified" \/ page' = page)
        /\ page'.loading = page.loading /\ page'.conn = page.conn
        /\ page'.reader = page.reader /\ page'.camera = page.camera /\ (page' = page \/ ~Still)
    BY <2>1, PageSet DEF OpticalInv, TypeInv, Phases, Still
  <2> QED
    BY <1>1, <2>1, <2>2, ReceiverClosed, RunEnds DEF OpticalInv
<1> QED
  BY <1>2, <1>3

LEMMA CameraStepKeeps ==
  ASSUME OpticalInv, NEW ok \in BOOLEAN, CameraStep(ok)
  PROVE  OpticalInv'
<1>1. /\ start.at \in { "camera", "listing" } /\ start.fresh
      /\ UNCHANGED << stores, record, receiver, task, queue, pause, reset, save, probed, clean >>
  BY DEF CameraStep, Disk, History
<1>2. /\ reset.at = "idle" /\ save.at = "idle" /\ ~page.loading
      /\ page.reader = NoStream /\ page.phase # "test-verified"
      /\ task.fresh => task.at \in { "idle", "opening", "writing" }
  BY <1>1, NotStill DEF Still
<1>3. ~clean
  BY <1>1 DEF OpticalInv, CleanInv
<1>4. /\ page' \in Pages /\ page'.phase # "test-verified" /\ page'.loading = page.loading
      /\ page'.conn = page.conn /\ page'.reader = page.reader
  <2>1. CASE ok /\ start.at = "camera"
    BY <1>2, <2>1 DEF CameraStep, OpticalInv, TypeInv, Pages
  <2>2. CASE ok /\ start.at # "camera"
    <3>1. PICK x \in Phases : x = (IF page.mode = "probe" THEN "testing" ELSE "scanning") /\ x # "test-verified"
      BY DEF Phases
    <3>2. page' = [ page EXCEPT !.phase = x ]
      BY <2>2, <3>1 DEF CameraStep
    <3> QED
      BY <3>1, <3>2, PageSet DEF OpticalInv
  <2>3. CASE ~ok
    BY <1>2, <2>3 DEF CameraStep, OpticalInv, TypeInv, Pages
  <2> QED
    BY <2>1, <2>2, <2>3
<1>5. start' \in Starts
  BY Runs DEF CameraStep, OpticalInv, TypeInv, Starts
<1>6. TypeInv' /\ ProbedInv' /\ TaskInv'
  BY <1>1, <1>4, <1>5 DEF OpticalInv, TypeInv, ProbedInv, TaskInv, Complete, Blocks
<1>7. LateInv' /\ LoadingInv' /\ ReaderInv' /\ ReceiptInv' /\ SaveInv' /\ ResetInv' /\ CleanInv'
  BY <1>1, <1>2, <1>3, <1>4
  DEF LateInv, LoadingInv, ReaderInv, ReceiptInv, SaveInv, ResetInv, CleanInv
<1> QED
  BY <1>6, <1>7 DEF OpticalInv

LEMMA StartOverKeeps ==
  ASSUME OpticalInv, StartOver
  PROVE  OpticalInv'
<1>1. /\ start' = [ start EXCEPT !.at = "closing" ] /\ ~start.fresh /\ start.at \in { "camera", "listing" }
      /\ UNCHANGED << stores, record, page, task, queue, pause, reset, save, probed, clean >>
  BY DEF StartOver, Disk, History
<1>2. start' \in Starts /\ start'.at = "closing" /\ start'.fresh = start.fresh
  BY <1>1 DEF OpticalInv, TypeInv, Starts
<1>3. receiver' \in Receivers /\ receiver'.of = receiver.of /\ receiver'.handle # "open"
  <2>1. PICK h \in { "none", "closed", "deleted" } :
          h = IF receiver.handle = "open" THEN "closed" ELSE receiver.handle
    BY DEF OpticalInv, TypeInv, Receivers
  <2>2. receiver' = [ receiver EXCEPT !.handle = h ]
    BY <2>1 DEF StartOver
  <2> QED
    BY <2>2 DEF OpticalInv, TypeInv, Receivers
<1>4. TypeInv' /\ ProbedInv' /\ TaskInv'
  BY <1>1, <1>2, <1>3 DEF OpticalInv, TypeInv, ProbedInv, TaskInv
<1>5. LateInv' /\ LoadingInv' /\ ReaderInv' /\ ReceiptInv'
  BY <1>1, <1>2
  DEF OpticalInv, LateInv, Still, LoadingInv, ReaderInv, ReceiptInv, Complete, Blocks
<1>6. SaveInv' /\ ResetInv' /\ CleanInv'
  BY <1>1, <1>2 DEF OpticalInv, SaveInv, ResetInv, CleanInv, Still
<1> QED
  BY <1>4, <1>5, <1>6 DEF OpticalInv

LEMMA StartEndsKeeps ==
  ASSUME OpticalInv, NEW ok \in BOOLEAN, StartEnds(ok)
  PROVE  OpticalInv'
<1>1. /\ task.at # "writing" /\ receiver' = CloseReceiver(ok) /\ start' = NoStart
      /\ page' = IF start.fresh THEN [ page EXCEPT !.phase = IF ok THEN Restartable ELSE "failed" ] ELSE page
      /\ UNCHANGED << stores, record, task, queue, pause, reset, save, probed, clean >>
  BY DEF StartEnds, Disk, History
<1>2. PICK x \in Phases : x = (IF ok THEN Restartable ELSE "failed") /\ x # "test-verified"
  BY RestartablePhase DEF Phases
<1>3. /\ page' \in Pages /\ (page'.phase # "test-verified" \/ page' = page)
      /\ page'.loading = page.loading /\ page'.conn = page.conn
      /\ page'.reader = page.reader /\ page'.camera = page.camera /\ (page' = page \/ ~Still)
  BY <1>1, <1>2, PageSet DEF OpticalInv, TypeInv, Still
<1> QED
  BY <1>1, <1>3, ReceiverClosed, RunEnds DEF OpticalInv

LEMMA PausingKeeps ==
  ASSUME OpticalInv, page.phase \in { "starting", "testing", "scanning", "verifying" }, Pausing
  PROVE  OpticalInv'
<1>1. /\ queue' = << >> /\ task' = Stale(task) /\ page' = Bump(page)
      /\ pause' = [ at |-> "waiting", fresh |-> TRUE ]
      /\ start' = Stale(start) /\ reset' = Stale(reset) /\ save' = Stale(save)
      /\ UNCHANGED << stores, record, receiver, probed, clean >>
  BY DEF Pausing, NewGeneration, Disk, History
<1>2. pause' \in Pauses
  BY <1>1 DEF Pauses
<1>3. ~page.loading /\ page.reader = NoStream /\ reset.at = "idle" /\ save.at = "idle"
  BY DEF OpticalInv, LoadingInv, ReaderInv, ResetInv, SaveInv
<1>4. TypeInv' /\ ProbedInv' /\ TaskInv'
  BY <1>1, <1>2, StaleRuns, Bumped DEF OpticalInv, TypeInv, ProbedInv, TaskInv
<1>5. LateInv' /\ LoadingInv' /\ ReaderInv' /\ ReceiptInv' /\ SaveInv' /\ ResetInv'
  BY <1>1, <1>3, StaleRuns, Bumped
  DEF OpticalInv, LateInv, LoadingInv, ReaderInv, ReceiptInv, SaveInv, ResetInv
<1>6. CleanInv'
  BY <1>1, StaleRuns, Bumped DEF OpticalInv, CleanInv
<1> QED
  BY <1>4, <1>5, <1>6 DEF OpticalInv

LEMMA PauseEndsKeeps ==
  ASSUME OpticalInv, NEW ok \in BOOLEAN, PauseEnds(ok)
  PROVE  OpticalInv'
<1>1. /\ task.at = "idle" /\ receiver' = CloseReceiver(ok) /\ pause' = Idle
      /\ page' = IF pause.fresh THEN [ page EXCEPT !.phase = IF ok THEN "paused" ELSE "failed" ] ELSE page
      /\ UNCHANGED << stores, record, task, queue, start, reset, save, probed, clean >>
  BY DEF PauseEnds, Quiet, Disk, History
<1>2. PICK x \in Phases : x = (IF ok THEN "paused" ELSE "failed") /\ x # "test-verified"
  BY DEF Phases
<1>3. /\ page' \in Pages /\ (page'.phase # "test-verified" \/ page' = page)
      /\ page'.loading = page.loading /\ page'.conn = page.conn
      /\ page'.reader = page.reader /\ page'.camera = page.camera /\ (page' = page \/ ~Still)
  BY <1>1, <1>2, PageSet DEF OpticalInv, TypeInv, Still
<1> QED
  BY <1>1, <1>3, ReceiverClosed, RunEnds DEF OpticalInv
-----------------------------------------------------------------------------
(* reset, save and reloads.                                                *)

LEMMA ResetClickKeeps ==
  ASSUME OpticalInv, ResetClick
  PROVE  OpticalInv'
<1>1. /\ reset.at = "idle" /\ queue' = << >> /\ task' = Stale(task)
      /\ page' = [ Bump(page) EXCEPT !.phase = "discarding" ]
      /\ reset' = [ at |-> "waiting", fresh |-> TRUE, error |-> FALSE ]
      /\ start' = Stale(start) /\ pause' = Stale(pause)
      /\ save' = [ Stale(save) EXCEPT !.cut = TRUE ]
      /\ UNCHANGED << stores, record, receiver, probed, clean >>
  BY DEF ResetClick, NewGeneration, Disk, History
<1>2. /\ page' \in Pages /\ page'.phase = "discarding" /\ page'.loading = page.loading
      /\ page'.conn = page.conn /\ page'.reader = page.reader /\ ~page'.camera
  BY <1>1, Bumped DEF OpticalInv, Pages, Phases
<1>3. reset' \in Resets /\ reset'.at = "waiting" /\ reset'.fresh
  BY <1>1 DEF Resets
<1>4. save' \in Saves /\ save'.at = save.at /\ ~save'.fresh
  BY <1>1, StaleRuns DEF OpticalInv, Saves
<1>5. TypeInv' /\ ProbedInv' /\ TaskInv'
  BY <1>1, <1>2, <1>3, <1>4, StaleRuns DEF OpticalInv, TypeInv, ProbedInv, TaskInv, Complete, Blocks
<1>6. Still'
  BY <1>1, <1>2, StaleRuns DEF OpticalInv, Still
<1>7. LateInv' /\ LoadingInv' /\ ReceiptInv' /\ SaveInv' /\ ResetInv'
  BY <1>1, <1>2, <1>3, <1>4, <1>6, StaleRuns
  DEF OpticalInv, LateInv, LoadingInv, ReceiptInv, SaveInv, ResetInv
<1>8. ReaderInv'
  BY <1>1, <1>2, <1>6, StaleRuns DEF OpticalInv, ReaderInv, Complete, Blocks
<1>9. CleanInv'
  BY <1>1, <1>2, StaleRuns DEF OpticalInv, CleanInv
<1> QED
  BY <1>5, <1>7, <1>8, <1>9 DEF OpticalInv

\* Stores that are deleted leave what was verified exact or gone.
LEMMA DeletedStays ==
  ASSUME OpticalInv, task.at = "idle", stores' \in [ Streams -> Store ],
         \A s \in Streams : stores'[s] \in { stores[s], Absent },
         receiver' \in Receivers, receiver'.handle # "open" \/ UNCHANGED << stores, receiver >>,
         record' \in { record, None },
         UNCHANGED << page, task, queue, start, pause, probed, clean >>
  PROVE  /\ stores' \in [ Streams -> Store ] /\ record' \in Connections \cup { None }
         /\ ProbedInv' /\ TaskInv' /\ LateInv' /\ ReaderInv' /\ CleanInv'
<1>1. ~Absent.there
  BY DEF Absent
<1>2. ProbedInv' /\ TaskInv' /\ LateInv' /\ CleanInv'
  BY DEF OpticalInv, ProbedInv, TaskInv, LateInv, CleanInv, Still
<1>3. ReaderInv'
  <2> SUFFICES ASSUME page.reader # NoStream
               PROVE  ReaderInv'
    BY DEF ReaderInv
  <2>1. page.reader \in Streams
    BY DEF OpticalInv, TypeInv, Pages
  <2>2. stores'[page.reader].there => stores'[page.reader] = stores[page.reader]
    BY <1>1, <2>1
  <2> QED
    BY <2>2 DEF OpticalInv, ReaderInv, Still, Complete, Blocks
<1> QED
  BY <1>2, <1>3 DEF OpticalInv, TypeInv

LEMMA ResetReceiverKeeps ==
  ASSUME OpticalInv, NEW ok \in BOOLEAN, ResetReceiver(ok)
  PROVE  OpticalInv'
<1>1. /\ reset.at = "waiting" /\ task.at = "idle" /\ save.at = "idle"
      /\ stores' = (IF receiver.ref /\ receiver.of # NoStream /\ ok THEN Deletion(receiver) ELSE stores)
      /\ reset' = [ reset EXCEPT !.at = "stores", !.error = ~ok ]
      /\ UNCHANGED << record, page, task, queue, start, pause, save, probed, clean >>
  BY DEF ResetReceiver, Quiet, History
<1>2. /\ stores' \in [ Streams -> Store ]
      /\ \A s \in Streams : stores'[s] \in { stores[s], Absent }
      /\ ~ok => stores' = stores
  BY <1>1, StoresDeleted DEF OpticalInv, TypeInv
<1>3. receiver' \in Receivers /\ (receiver'.handle # "open" \/ (~ok /\ receiver' = receiver))
  <2>1. CASE ok
    <3>1. PICK of \in Streams \cup { NoStream } : of = receiver.of
      BY DEF OpticalInv, TypeInv, Receivers
    <3>2. receiver' = [ NoReceiver EXCEPT !.of = of, !.handle = "deleted" ]
      BY <2>1, <3>1 DEF ResetReceiver
    <3> QED
      BY <3>2 DEF NoReceiver, Receivers, Kinds
  <2>2. CASE ~ok
    BY <2>2 DEF ResetReceiver, OpticalInv, TypeInv
  <2> QED
    BY <2>1, <2>2
<1>4. reset' \in Resets /\ reset'.at = "stores" /\ reset'.fresh = reset.fresh
  <2>1. PICK error \in BOOLEAN : error = ~ok
    OBVIOUS
  <2>2. reset' = [ reset EXCEPT !.at = "stores", !.error = error ]
    BY <1>1, <2>1
  <2> QED
    BY <2>2 DEF OpticalInv, TypeInv, Resets
<1>5. /\ stores' \in [ Streams -> Store ] /\ record' \in Connections \cup { None }
      /\ ProbedInv' /\ TaskInv' /\ LateInv' /\ ReaderInv' /\ CleanInv'
  BY <1>1, <1>2, <1>3, DeletedStays
<1>6. TypeInv' /\ LoadingInv' /\ ReceiptInv' /\ SaveInv'
  BY <1>1, <1>3, <1>4, <1>5 DEF OpticalInv, TypeInv, LoadingInv, ReceiptInv, SaveInv, Still
<1>7. ResetInv'
  BY <1>1, <1>4 DEF OpticalInv, ResetInv, Still
<1> QED
  BY <1>5, <1>6, <1>7 DEF OpticalInv

LEMMA ResetStoresKeeps ==
  ASSUME OpticalInv, NEW ok \in BOOLEAN, ResetStores(ok)
  PROVE  OpticalInv'
<1>1. /\ reset.at = "stores" /\ stores' = (IF ok THEN [ s \in Streams |-> Absent ] ELSE stores)
      /\ UNCHANGED << record, page, receiver, task, queue, start, pause, save, probed, clean >>
  BY DEF ResetStores, History
<1>2. task.at = "idle" /\ save.at = "idle" /\ (ok => receiver.handle # "open")
  BY <1>1 DEF OpticalInv, ResetInv, SaveInv, ResetStores
<1>3. Absent \in Store
  BY DEF Absent, Store
<1>4. /\ stores' \in [ Streams -> Store ]
      /\ \A s \in Streams : stores'[s] \in { stores[s], Absent }
      /\ IF ok THEN \A s \in Streams : stores'[s] = Absent ELSE stores' = stores
  BY <1>1, <1>3 DEF OpticalInv, TypeInv
<1>5. reset' \in Resets /\ reset'.at = "record" /\ reset'.fresh = reset.fresh /\ (~ok => reset'.error)
  <2>1. PICK error \in BOOLEAN : error = (reset.error \/ ~ok)
    BY DEF OpticalInv, TypeInv, Resets
  <2>2. reset' = [ reset EXCEPT !.at = "record", !.error = error ]
    BY <2>1 DEF ResetStores
  <2> QED
    BY <2>1, <2>2 DEF OpticalInv, TypeInv, Resets
<1>6. /\ stores' \in [ Streams -> Store ] /\ record' \in Connections \cup { None }
      /\ ProbedInv' /\ TaskInv' /\ LateInv' /\ ReaderInv' /\ CleanInv'
  <2>1. receiver' \in Receivers
    BY <1>1 DEF OpticalInv, TypeInv
  <2> QED
    BY <1>1, <1>2, <1>4, <2>1, DeletedStays
<1>7. TypeInv' /\ LoadingInv' /\ ReceiptInv' /\ SaveInv'
  BY <1>1, <1>2, <1>5, <1>6 DEF OpticalInv, TypeInv, LoadingInv, ReceiptInv, SaveInv, Still
<1>8. ResetInv'
  BY <1>1, <1>2, <1>4, <1>5 DEF OpticalInv, ResetInv, Still
<1> QED
  BY <1>6, <1>7, <1>8 DEF OpticalInv

LEMMA ResetRecordKeeps ==
  ASSUME OpticalInv, NEW ok \in BOOLEAN, ResetRecord(ok)
  PROVE  OpticalInv'
<1>1. /\ reset.at = "record" /\ record' = (IF ok THEN None ELSE record) /\ reset' = NoReset
      /\ UNCHANGED << stores, receiver, task, queue, start, pause, save, probed >>
  BY DEF ResetRecord
<1>2. /\ reset.fresh /\ ~task.fresh /\ task.at = "idle" /\ save.at = "idle" /\ Still
      /\ ~reset.error => \A s \in Streams : stores[s] = Absent
  BY <1>1 DEF OpticalInv, ResetInv, SaveInv
<1>3. PICK x \in { "failed", "idle" } : x = IF reset.error \/ ~ok THEN "failed" ELSE "idle"
  OBVIOUS
<1>4. page' = [ page EXCEPT !.conn = None, !.reader = NoStream, !.mode = "probe", !.phase = x ]
  BY <1>2, <1>3 DEF ResetRecord
<1>5. /\ page' \in Pages /\ page'.conn = None /\ page'.reader = NoStream /\ page'.phase = x
      /\ page'.loading = page.loading /\ page'.camera = page.camera
  BY <1>4 DEF OpticalInv, TypeInv, Pages, Kinds, Phases
<1>6. clean' \in BOOLEAN /\ (clean' => ok /\ ~reset.error)
  BY DEF ResetRecord
<1>7. TypeInv' /\ ProbedInv' /\ TaskInv'
  BY <1>1, <1>2, <1>5, <1>6, Runs DEF OpticalInv, TypeInv, ProbedInv, TaskInv
<1>8. LateInv' /\ LoadingInv' /\ ReaderInv' /\ ReceiptInv' /\ SaveInv' /\ ResetInv'
  BY <1>1, <1>2, <1>5, Runs
  DEF OpticalInv, LateInv, LoadingInv, ReaderInv, ReceiptInv, SaveInv, ResetInv, Still
<1>9. CleanInv'
  BY <1>1, <1>2, <1>5, <1>6 DEF CleanInv, Still
<1> QED
  BY <1>7, <1>8, <1>9 DEF OpticalInv

LEMMA SaveClickKeeps ==
  ASSUME OpticalInv, SaveClick
  PROVE  OpticalInv'
<1>1. /\ page.phase = "complete" /\ page.reader # NoStream
      /\ page' = [ page EXCEPT !.phase = "saving" ]
      /\ save' = [ at |-> "writing", fresh |-> TRUE, cut |-> FALSE ]
      /\ UNCHANGED << stores, record, receiver, task, queue, start, pause, reset, probed, clean >>
  BY DEF SaveClick, Disk, History
<1>2. /\ page' \in Pages /\ page'.phase = "saving" /\ page'.loading = page.loading
      /\ page'.conn = page.conn /\ page'.reader = page.reader /\ page'.camera = page.camera
  BY <1>1, PageSet DEF OpticalInv, Phases
<1>3. save' \in Saves /\ save'.at = "writing" /\ save'.fresh
  BY <1>1 DEF Saves
<1>4. task.at = "idle" /\ ~page.loading /\ reset.at = "idle"
  BY <1>1 DEF OpticalInv, ReaderInv, LoadingInv, ResetInv
<1>5. TypeInv' /\ ProbedInv' /\ TaskInv'
  BY <1>1, <1>2, <1>3 DEF OpticalInv, TypeInv, ProbedInv, TaskInv, Complete, Blocks
<1>6. LateInv' /\ LoadingInv' /\ ReceiptInv' /\ SaveInv' /\ ResetInv' /\ CleanInv'
  BY <1>1, <1>2, <1>3, <1>4
  DEF OpticalInv, LateInv, LoadingInv, ReceiptInv, SaveInv, ResetInv, CleanInv
<1>7. ReaderInv'
  BY <1>1, <1>2 DEF OpticalInv, ReaderInv, Complete, Blocks, Still
<1> QED
  BY <1>5, <1>6, <1>7 DEF OpticalInv

\* A save that is under way goes on, or it is over and shows so.
LEMMA SaveOn ==
  ASSUME OpticalInv, save.at # "idle", save' \in Saves, page' \in Pages,
         \/ page' = page /\ save'.at # "idle" /\ save'.fresh = save.fresh
         \/ /\ save'.at = "idle"
            /\ page'.reader = page.reader /\ page'.loading = page.loading /\ page'.conn = page.conn
            /\ page'.camera = page.camera
            /\ page'.phase = IF save.fresh THEN "complete" ELSE page.phase,
         UNCHANGED << stores, receiver, task, queue, start, pause, reset, probed, clean >>,
         record' \in { record, None }
  PROVE  OpticalInv'
<1>1. /\ task.at = "idle" /\ ~page.loading /\ page.phase # "test-verified"
      /\ \/ page.phase = "saving" /\ save.fresh /\ page.reader # NoStream /\ reset.at = "idle"
         \/ reset.at = "waiting" /\ ~save.fresh
  BY DEF OpticalInv, SaveInv, LoadingInv, ReceiptInv, ResetInv
<1>2. TypeInv' /\ ProbedInv' /\ TaskInv' /\ CleanInv'
  BY <1>1 DEF OpticalInv, TypeInv, ProbedInv, TaskInv, Complete, Blocks, CleanInv
<1>3. LateInv' /\ LoadingInv' /\ ReceiptInv' /\ SaveInv'
  BY <1>1 DEF OpticalInv, LateInv, LoadingInv, ReceiptInv, SaveInv
<1>4. ReaderInv'
  BY <1>1 DEF OpticalInv, ReaderInv, Complete, Blocks, Still
<1>5. ResetInv'
  BY <1>1 DEF OpticalInv, ResetInv, Still
<1> QED
  BY <1>2, <1>3, <1>4, <1>5 DEF OpticalInv

LEMMA SaveOverShown ==
  ASSUME OpticalInv, SaveOver
  PROVE  /\ save' \in Saves /\ save'.at = "idle" /\ page' \in Pages
         /\ page'.reader = page.reader /\ page'.loading = page.loading /\ page'.conn = page.conn
         /\ page'.camera = page.camera
         /\ page'.phase = IF save.fresh THEN "complete" ELSE page.phase
<1>1. "complete" \in Phases
  BY DEF Phases
<1> QED
  BY <1>1, Runs, PageSet DEF OpticalInv, TypeInv, SaveOver

LEMMA SaveCutKeeps ==
  ASSUME OpticalInv, save.at # "idle", save' = [ save EXCEPT !.cut = TRUE ],
         UNCHANGED << stores, record, page, receiver, task, queue, start, pause, reset, probed, clean >>
  PROVE  OpticalInv'
<1>1. save' \in Saves /\ save'.at # "idle" /\ save'.fresh = save.fresh
  BY DEF OpticalInv, TypeInv, Saves
<1> QED
  BY <1>1, SaveOn DEF OpticalInv, TypeInv

LEMMA SaveTreeKeeps ==
  ASSUME OpticalInv, NEW ok \in BOOLEAN, SaveTree(ok)
  PROVE  OpticalInv'
<1>1. /\ save.at = "writing"
      /\ UNCHANGED << stores, record, receiver, task, queue, start, pause, reset, probed, clean >>
  BY DEF SaveTree, Disk, History
<1>2. CASE ok
  <2>1. save' = [ save EXCEPT !.at = "deleting" ] /\ page' = page
    BY <1>2 DEF SaveTree
  <2>2. save' \in Saves /\ save'.at # "idle" /\ save'.fresh = save.fresh
    BY <2>1 DEF OpticalInv, TypeInv, Saves
  <2> QED
    BY <1>1, <2>1, <2>2, SaveOn DEF OpticalInv, TypeInv
<1>3. CASE ~ok
  <2>1. SaveOver
    BY <1>3 DEF SaveTree
  <2> QED
    BY <1>1, <2>1, SaveOverShown, SaveOn
<1> QED
  BY <1>2, <1>3

LEMMA SaveDeleteKeeps ==
  ASSUME OpticalInv, NEW ok \in BOOLEAN, SaveDelete(ok)
  PROVE  OpticalInv'
<1>1. /\ save.at = "deleting" /\ save' = [ save EXCEPT !.at = "clearing" ]
      /\ stores' = (IF ok THEN Deletion(receiver) ELSE stores)
      /\ receiver' = (IF ok THEN [ receiver EXCEPT !.handle = "deleted" ] ELSE receiver)
      /\ UNCHANGED << record, page, task, queue, start, pause, reset, probed, clean >>
  BY DEF SaveDelete, History
<1>2. /\ task.at = "idle" /\ reset.at # "record"
      /\ reset.at # "idle" => ~save.fresh
  BY <1>1 DEF OpticalInv, SaveInv, ResetInv
<1>3. /\ stores' \in [ Streams -> Store ]
      /\ \A s \in Streams : stores'[s] \in { stores[s], Absent }
      /\ ~ok => stores' = stores
  BY <1>1, StoresDeleted DEF OpticalInv, TypeInv
<1>4. receiver' \in Receivers /\ (receiver'.handle # "open" \/ (~ok /\ receiver' = receiver))
  BY <1>1 DEF OpticalInv, TypeInv, Receivers
<1>5. save' \in Saves /\ save'.at = "clearing" /\ save'.fresh = save.fresh
  BY <1>1 DEF OpticalInv, TypeInv, Saves
<1>6. /\ stores' \in [ Streams -> Store ] /\ record' \in Connections \cup { None }
      /\ ProbedInv' /\ TaskInv' /\ LateInv' /\ ReaderInv' /\ CleanInv'
  BY <1>1, <1>2, <1>3, <1>4, DeletedStays
<1>7. TypeInv' /\ LoadingInv' /\ ReceiptInv' /\ SaveInv'
  BY <1>1, <1>4, <1>5, <1>6 DEF OpticalInv, TypeInv, LoadingInv, ReceiptInv, SaveInv, Still
<1>8. ResetInv'
  BY <1>1, <1>2 DEF OpticalInv, ResetInv, Still
<1> QED
  BY <1>6, <1>7, <1>8 DEF OpticalInv

LEMMA SaveClearKeeps ==
  ASSUME OpticalInv, NEW ok \in BOOLEAN, SaveClear(ok)
  PROVE  OpticalInv'
<1>1. /\ save.at = "clearing" /\ record' = (IF ok THEN None ELSE record)
      /\ UNCHANGED << stores, task, queue, start, pause, reset, probed, clean >>
  BY DEF SaveClear, History
<1>2. CASE save.fresh /\ ~save.cut
  <2>1. /\ save' = NoSave
        /\ page' = [ page EXCEPT !.phase = "verified", !.reader = NoStream, !.conn = None ]
    BY <1>2 DEF SaveClear
  <2>2. /\ page' \in Pages /\ page'.phase = "verified" /\ page'.reader = NoStream
        /\ page'.conn = None /\ page'.loading = page.loading /\ page'.camera = page.camera
    BY <2>1 DEF OpticalInv, TypeInv, Pages, Phases
  <2>3. receiver' \in Receivers /\ receiver'.of = receiver.of /\ receiver'.handle = receiver.handle
    <3>1. PICK ref \in BOOLEAN : ref = (receiver.ref /\ receiver.handle # "deleted")
      BY DEF OpticalInv, TypeInv, Receivers
    <3>2. receiver' = [ receiver EXCEPT !.ref = ref ]
      BY <1>2, <3>1 DEF SaveClear
    <3> QED
      BY <3>2 DEF OpticalInv, TypeInv, Receivers
  <2>4. task.at = "idle" /\ reset.at = "idle" /\ ~page.loading
    BY <1>1, <1>2 DEF OpticalInv, SaveInv, ResetInv, LoadingInv
  <2>5. TypeInv' /\ ProbedInv' /\ TaskInv'
    BY <1>1, <2>1, <2>2, <2>3, Runs DEF OpticalInv, TypeInv, ProbedInv, TaskInv, Complete, Blocks
  <2>6. LateInv' /\ LoadingInv' /\ ReaderInv' /\ ReceiptInv' /\ SaveInv' /\ ResetInv' /\ CleanInv'
    BY <1>1, <2>1, <2>2, <2>4, Runs
    DEF OpticalInv, LateInv, LoadingInv, ReaderInv, ReceiptInv, SaveInv, ResetInv, CleanInv
  <2> QED
    BY <2>5, <2>6 DEF OpticalInv
<1>3. CASE ~(save.fresh /\ ~save.cut)
  <2>1. SaveOver /\ receiver' = receiver
    BY <1>3 DEF SaveClear
  <2> QED
    BY <1>1, <2>1, SaveOverShown, SaveOn
<1> QED
  BY <1>2, <1>3

LEMMA ReloadKeeps ==
  ASSUME OpticalInv, Reload
  PROVE  OpticalInv'
<1>1. /\ page' = FreshPage /\ receiver' = NoReceiver /\ task' = NoTask /\ queue' = << >>
      /\ start' = NoStart /\ pause' = Idle /\ reset' = NoReset /\ save' = NoSave
      /\ UNCHANGED << stores, record, probed, clean >>
  BY DEF Reload, Disk, History
<1>2. FreshPage \in Pages /\ NoReceiver \in Receivers
  BY DEF FreshPage, Pages, Phases, Kinds, NoReceiver, Receivers
<1>3. TypeInv' /\ ProbedInv' /\ TaskInv'
  BY <1>1, <1>2, Runs DEF OpticalInv, TypeInv, ProbedInv, TaskInv, FreshPage, NoReceiver
<1>4. LateInv' /\ LoadingInv' /\ ReaderInv' /\ ReceiptInv' /\ SaveInv' /\ ResetInv' /\ CleanInv'
  BY <1>1, Runs
  DEF OpticalInv, LateInv, LoadingInv, ReaderInv, ReceiptInv, SaveInv, ResetInv, CleanInv, Still, FreshPage
<1> QED
  BY <1>3, <1>4 DEF OpticalInv
-----------------------------------------------------------------------------
(* The theorems.                                                           *)

LEMMA OpticalInit ==
  ASSUME Init
  PROVE  OpticalInv
<1>1. Absent \in Store
  BY DEF Absent, Store
<1>2. FreshPage \in Pages /\ NoReceiver \in Receivers
  BY DEF FreshPage, Pages, Phases, Kinds, NoReceiver, Receivers
<1>3. TypeInv
  <2>1. stores \in [ Streams -> Store ]
    BY <1>1 DEF Init
  <2>2. << >> \in Seq(Frames) /\ {} \subseteq Connections
    OBVIOUS
  <2> QED
    BY <1>2, <2>1, <2>2, Runs DEF Init, TypeInv
<1>4. ProbedInv /\ TaskInv
  BY Runs DEF Init, ProbedInv, TaskInv, FreshPage, NoReceiver
<1>5. LateInv /\ LoadingInv /\ ReaderInv /\ ReceiptInv /\ SaveInv /\ ResetInv /\ CleanInv
  BY Runs
  DEF Init, LateInv, LoadingInv, ReaderInv, ReceiptInv, SaveInv, ResetInv, CleanInv, Still, FreshPage
<1> QED
  BY <1>3, <1>4, <1>5 DEF OpticalInv

LEMMA TaskStepKeeps ==
  ASSUME OpticalInv, TaskStep
  PROVE  OpticalInv'
  BY TakeFrameKeeps, LatePoisonKeeps, WriteBlockKeeps, OpenStoreKeeps, CloseForReopenKeeps,
     HashKeeps, DeleteProbeKeeps, RecordKeeps, ReadTreeKeeps, DiscardKeeps
  DEF TaskStep

LEMMA RunStepKeeps ==
  ASSUME OpticalInv, StartStep \/ PauseStep \/ ResetStep \/ SaveStep \/ LoadStep
  PROVE  OpticalInv'
  BY StartOverKeeps, StartReceiverKeeps, CameraStepKeeps, StartEndsKeeps, PauseEndsKeeps,
     ResetReceiverKeeps, ResetStoresKeeps, ResetRecordKeeps,
     SaveTreeKeeps, SaveDeleteKeeps, SaveClearKeeps, LoadKeeps
  DEF StartStep, PauseStep, ResetStep, SaveStep, LoadStep

LEMMA UserStepKeeps ==
  ASSUME OpticalInv,
         Continue \/ StartClick \/ PauseClick \/ LeaveView \/ ResetClick \/ SaveClick \/ Reload
  PROVE  OpticalInv'
<1>1. PauseClick => OpticalInv'
  BY PausingKeeps DEF PauseClick
<1>2. LeaveView => OpticalInv'
  BY PausingKeeps, SaveCutKeeps DEF LeaveView, Disk, History
<1> QED
  BY <1>1, <1>2, ContinueKeeps, StartClickKeeps, ResetClickKeeps, SaveClickKeeps, ReloadKeeps

LEMMA OpticalStep ==
  ASSUME OpticalInv, [Next]_vars
  PROVE  OpticalInv'
<1>1. CASE UNCHANGED vars
  <2>1. UNCHANGED << stores, record, page, receiver, task, queue, start, pause, reset, save, probed, clean >>
    BY <1>1 DEF vars, runs
  <2>2. TypeInv' /\ ProbedInv' /\ TaskInv' /\ LateInv' /\ LoadingInv'
    BY <2>1
    DEF OpticalInv, TypeInv, ProbedInv, TaskInv, LateInv, LoadingInv, Still, Complete, Blocks
  <2>3. ReaderInv' /\ ReceiptInv' /\ SaveInv' /\ ResetInv' /\ CleanInv'
    BY <2>1
    DEF OpticalInv, ReaderInv, ReceiptInv, SaveInv, ResetInv, CleanInv, Still, Complete, Blocks
  <2> QED
    BY <2>2, <2>3 DEF OpticalInv
<1>2. CASE Next
  BY <1>2, IngestKeeps, TaskStepKeeps, RunStepKeeps, UserStepKeeps DEF Next
<1> QED
  BY <1>1, <1>2

LEMMA OpticalAlways == Spec => []OpticalInv
<1>1. Init => OpticalInv
  BY OpticalInit
<1>2. OpticalInv /\ [Next]_vars => OpticalInv'
  BY OpticalStep
<1> QED
  BY <1>1, <1>2, PTL DEF Spec

LEMMA Typed ==
  ASSUME OpticalInv
  PROVE  TypeOK
<1>1. \A i \in DOMAIN queue : queue[i] \in Frames
  BY DEF OpticalInv, TypeInv
<1>2. /\ page.phase \in Phases /\ page.mode \in Kinds
      /\ page.conn \in Connections \cup { None } /\ page.reader \in Streams \cup { NoStream }
  BY DEF OpticalInv, TypeInv, Pages
<1>3. /\ receiver.of \in Streams \cup { NoStream }
      /\ receiver.handle \in { "none", "open", "closed", "deleted" }
  BY DEF OpticalInv, TypeInv, Receivers
<1>4. /\ task.at \in { "idle", "opening", "writing", "hashing", "deleting", "recording", "tree",
                       "discarding", "closing" }
      /\ start.at \in { "idle", "waiting", "camera", "listing", "closing" }
      /\ pause.at \in { "idle", "waiting" }
      /\ reset.at \in { "idle", "waiting", "stores", "record" }
      /\ save.at \in { "idle", "writing", "deleting", "clearing" }
  BY DEF OpticalInv, TypeInv, Tasks, Starts, Pauses, Resets, Saves
<1> QED
  BY <1>1, <1>2, <1>3, <1>4 DEF OpticalInv, TypeInv, TypeOK

\* The stream that a destination is written from is the Files stream of a
\* connection whose whole probe had the right hash, and while it is on disk it is
\* complete and has no wrong block, whatever frames, pauses, discards, failures and
\* reloads came before (large-receiver.ts verifyComplete, LargeReceiver.tsx finishFiles).
THEOREM FilesAlwaysExact == Spec => []FilesExact
<1>1. OpticalInv => FilesExact
  BY Typed DEF OpticalInv, ReaderInv, FilesExact
<1> QED
  BY <1>1, OpticalAlways, PTL

\* A receipt on the screen belongs to the connection that a reload finds, and
\* behind a discard that reported success nothing is left on the disk or comes
\* back to it before the next start (README.md:343, 349).
THEOREM DiskAlwaysAsShown == Spec => []DiskIsAsShown
<1>1. OpticalInv => DiskIsAsShown
  BY DEF OpticalInv, ReceiptInv, CleanInv, DiskIsAsShown, ReceiptIsStored, DiscardLeavesNothing
<1> QED
  BY <1>1, OpticalAlways, PTL
=============================================================================
