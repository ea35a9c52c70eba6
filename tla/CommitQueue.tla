----------------------------- MODULE CommitQueue -----------------------------
(***************************************************************************)
(* The state of one DurableReceiveQueue (src/lib/webrtc-receive-queue.ts)  *)
(* and what each of its methods makes of it.  The module has no variables: *)
(* ReceiveQueue checks the queue alone, OfflineTransfer puts it between a  *)
(* connection and a store.                                                 *)
(*                                                                         *)
(* The commit task (active) is running exactly while batch is not empty:   *)
(* schedule() starts it and it takes its first batch in the same turn of   *)
(* the event loop, and it ends in the turn in which it finds nothing more  *)
(* to take.  Message sizes are equal, so bytes retained follow from blocks.*)
(***************************************************************************)
EXTENDS Integers, Sequences

CONSTANTS
  BatchBlocks,   \* RECEIVE_BATCH_BLOCKS
  MaxRetained    \* RECEIVE_MAX_PENDING_BLOCKS

ASSUME CommitQueueAssumption ==
  /\ BatchBlocks \in Nat \ {0}
  /\ MaxRetained \in Nat \ {0}

Queue(Block) ==
  [ pending : Seq(Block),      \* waiting messages
    batch : Seq(Block),        \* messages of the active commit
    retained : Nat,            \* retainedBlocks
    flush : BOOLEAN,           \* flushRequested
    timer : BOOLEAN,           \* the commit interval timer is set
    completing : BOOLEAN,
    stopped : BOOLEAN,
    error : BOOLEAN ]

NewQueue ==
  [ pending |-> << >>, batch |-> << >>, retained |-> 0, flush |-> FALSE,
    timer |-> FALSE, completing |-> FALSE, stopped |-> FALSE, error |-> FALSE ]

Active(q) == q.batch # << >>

\* What the queue holds, in the order of arrival.
Line(q) == q.batch \o q.pending

\* There is reason to commit what is pending now.
Ready(q) == q.flush \/ q.completing \/ Len(q.pending) >= BatchBlocks

\* The head of drain()'s loop: take one batch and hand it to acceptBatch.
Splice(q) ==
  LET n == IF Len(q.pending) < BatchBlocks THEN Len(q.pending) ELSE BatchBlocks
  IN  [ q EXCEPT !.flush = FALSE, !.timer = FALSE,
                 !.batch = SubSeq(q.pending, 1, n),
                 !.pending = SubSeq(q.pending, n + 1, Len(q.pending)) ]

\* schedule(), with the start of the commit task.
Schedule(q) ==
  CASE q.stopped \/ q.pending = << >> -> [ q EXCEPT !.timer = FALSE ]
    [] ~ q.stopped /\ q.pending # << >> /\ Ready(q) ->
         IF Active(q) THEN [ q EXCEPT !.timer = FALSE ] ELSE Splice(q)
    [] OTHER -> [ q EXCEPT !.timer = TRUE ]

Accepts(q) == ~ q.stopped /\ ~ q.completing /\ q.retained < MaxRetained

\* enqueue() of a message that it accepts.
Enqueued(q, b) ==
  LET p == Append(q.pending, b)
  IN  Schedule([ q EXCEPT !.pending = p, !.retained = @ + 1,
                          !.flush = @ \/ Len(p) >= BatchBlocks ])

TimerFired(q) == Schedule([ q EXCEPT !.timer = FALSE, !.flush = TRUE ])

\* finish(), up to its first await.
Finishing(q) == Schedule([ q EXCEPT !.completing = TRUE, !.flush = TRUE ])

\* Mutant: only a queue that is not stopped resumes its caller.
FinishedUnlessStopped(q) == q.completing /\ ~ Active(q) /\ ~ q.stopped

\* finish() returns or throws once no commit is active.
Finished(q) == q.completing /\ ~ Active(q)

\* Mutant: the buffers of the active commit are given back here as well.
StopQueueTwice(q) ==
  [ q EXCEPT !.stopped = TRUE, !.timer = FALSE, !.pending = << >>,
             !.retained = @ - Len(q.pending) - Len(q.batch) ]

\* stop(): what is pending is dropped, an active commit is left to settle.
StopQueue(q) ==
  [ q EXCEPT !.stopped = TRUE, !.timer = FALSE, !.pending = << >>,
             !.retained = @ - Len(q.pending) ]

\* Mutant: the commit task ends after one batch and schedules nothing.
SettledOnce(q) == [ q EXCEPT !.retained = @ - Len(q.batch), !.batch = << >> ]

\* acceptBatch() returned: the loop goes on or the task ends.
Settled(q) == Schedule([ q EXCEPT !.retained = @ - Len(q.batch), !.batch = << >> ])

\* Mutant: only a successful commit gives its buffers back.
BrokenKeepingBuffers(q) ==
  StopQueue([ q EXCEPT !.batch = << >>, !.error = TRUE ])

\* acceptBatch() or the acknowledgement threw: the queue stops for good.
Broken(q) ==
  StopQueue([ q EXCEPT !.retained = @ - Len(q.batch), !.batch = << >>, !.error = TRUE ])
=============================================================================
