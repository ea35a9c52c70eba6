---------------------------- MODULE ReceiveQueue ----------------------------
(***************************************************************************)
(* One DurableReceiveQueue and its surroundings: messages that arrive in   *)
(* order, a store whose commits succeed or fail after any delay, the       *)
(* completion marker, and a stop at any time.                              *)
(***************************************************************************)
EXTENDS CommitQueue, SequencesExt

CONSTANT NumMessages   \* messages the connection delivers, block i as the i-th

ASSUME ReceiveQueueAssumption == NumMessages \in Nat

Messages == 1 .. NumMessages

VARIABLES
  queue,     \* the queue
  arrived,   \* messages delivered so far
  flushed,   \* has the active commit reached the disk?
  durable,   \* blocks receipted on disk
  acked,     \* blocks passed to onCommitted
  finish     \* the call of finish(): "none", "waiting", "done" or "thrown"

queueVars == << queue, arrived, flushed, durable, acked, finish >>

QueueTypeOK ==
  /\ queue \in Queue(Messages)
  /\ arrived \in 0 .. NumMessages
  /\ flushed \in BOOLEAN
  /\ durable \in SUBSET Messages
  /\ acked \in SUBSET Messages
  /\ finish \in { "none", "waiting", "done", "thrown" }

QueueInit ==
  /\ queue = NewQueue
  /\ arrived = 0
  /\ flushed = FALSE
  /\ durable = {} /\ acked = {}
  /\ finish = "none"

BatchSet == ToSet(queue.batch)

\* A message within the window reaches enqueue().
Enqueue ==
  /\ arrived < NumMessages
  /\ Accepts(queue)
  /\ arrived' = arrived + 1
  /\ queue' = Enqueued(queue, arrived + 1)
  /\ UNCHANGED << flushed, durable, acked, finish >>

\* enqueue() throws: the caller fails the connection, which stops the queue.
EnqueueThrows ==
  /\ arrived < NumMessages
  /\ ~ Accepts(queue) /\ ~ queue.stopped
  /\ queue' = StopQueue(queue)
  /\ UNCHANGED << arrived, flushed, durable, acked, finish >>

Timer ==
  /\ queue.timer
  /\ queue' = TimerFired(queue)
  /\ UNCHANGED << arrived, flushed, durable, acked, finish >>

\* writeBlocks() makes the whole batch durable.
BatchCommits ==
  /\ Active(queue) /\ ~ flushed
  /\ flushed' = TRUE
  /\ durable' = durable \cup BatchSet
  /\ UNCHANGED << queue, arrived, acked, finish >>

\* Mutant: the acknowledgement does not look at stopped.
BatchReturnsAnyway ==
  /\ Active(queue) /\ flushed
  /\ flushed' = FALSE
  /\ acked' = acked \cup BatchSet
  /\ queue' = Settled(queue)
  /\ UNCHANGED << arrived, durable, finish >>

\* acceptBatch() returns; a stopped queue acknowledges nothing.
BatchReturns ==
  /\ Active(queue) /\ flushed
  /\ flushed' = FALSE
  /\ acked' = IF queue.stopped THEN acked ELSE acked \cup BatchSet
  /\ queue' = Settled(queue)
  /\ UNCHANGED << arrived, durable, finish >>

\* The batch is invalid, the store failed, or the acknowledgement threw.
BatchThrows ==
  /\ Active(queue)
  /\ flushed' = FALSE
  /\ queue' = Broken(queue)
  /\ UNCHANGED << arrived, durable, acked, finish >>

\* Mutant: the completion marker does not ask for a flush of a small rest.
FinishWithoutFlush ==
  /\ finish = "none" /\ ~ queue.stopped
  /\ queue' = [ queue EXCEPT !.completing = TRUE ]
  /\ finish' = "waiting"
  /\ UNCHANGED << arrived, flushed, durable, acked >>

Finish ==
  /\ finish = "none" /\ ~ queue.stopped
  /\ queue' = Finishing(queue)
  /\ finish' = "waiting"
  /\ UNCHANGED << arrived, flushed, durable, acked >>

FinishResolves ==
  /\ finish = "waiting" /\ Finished(queue)
  /\ finish' = IF queue.stopped THEN "thrown" ELSE "done"
  /\ UNCHANGED << queue, arrived, flushed, durable, acked >>

Stop ==
  /\ ~ queue.stopped
  /\ queue' = StopQueue(queue)
  /\ UNCHANGED << arrived, flushed, durable, acked, finish >>

QueueNext ==
  \/ Enqueue \/ EnqueueThrows \/ Timer
  \/ BatchCommits \/ BatchReturns \/ BatchThrows
  \/ Finish \/ FinishResolves \/ Stop

\* Timers fire, commits end one way or the other, promises are resumed.
Fairness ==
  /\ WF_queueVars(Timer)
  /\ WF_queueVars(BatchCommits)
  /\ WF_queueVars(BatchReturns)
  /\ WF_queueVars(FinishResolves)

QueueSpec == QueueInit /\ [][QueueNext]_queueVars /\ Fairness
-----------------------------------------------------------------------------
\* Memory accounting: the counter behind the receive window is what the queue
\* really holds, also across stop() and a commit that fails or settles late.
RetainedIsHeld == queue.retained = Len(queue.pending) + Len(queue.batch)

\* It must not ACK after cancellation (webrtc-receive-queue.ts:84-85).
NoAckAfterStop == [][ queue.stopped => acked' = acked ]_queueVars

\* finish() returns only when all that arrived is durable and acknowledged.
FinishMeansAll ==
  finish = "done" => acked = 1 .. arrived /\ acked \subseteq durable

\* In every well-typed state, and whichever of timer, stop(), finish() and the end
\* of a commit came first, memory is accounted for and finish() told the truth.
QueueAccount == QueueTypeOK /\ RetainedIsHeld /\ FinishMeansAll

\* A message that was taken is acknowledged in the end, unless the queue stops.
EveryMessageSettles ==
  \A m \in Messages : arrived >= m ~> (m \in acked \/ queue.stopped)

\* finish() does not hang.
FinishEnds == finish = "waiting" ~> finish # "waiting"

\* No interleaving of arrivals with the end of a commit leaves a message with
\* neither a timer nor a commit, or finish() behind a commit that is gone
\* (webrtc-receive-queue.ts:71-77, 103-107).
QueueSettles == EveryMessageSettles /\ FinishEnds
-----------------------------------------------------------------------------
(* The inductive invariant behind QueueAccount: a message that arrived is    *)
(* acknowledged, in the active commit or waiting, until the queue stops.    *)

\* The messages a queue that goes on has taken are all accounted for.
NoneLost == ~ queue.stopped => acked \cup ToSet(Line(queue)) = 1 .. arrived

\* A commit that has reached the disk, and what was acknowledged after one.
AckedIsDurable ==
  /\ acked \subseteq durable
  /\ flushed => Active(queue) /\ BatchSet \subseteq durable

\* A queue that completes has put everything it held into a commit.
CompletingCommits ==
  /\ queue.stopped => queue.pending = << >>
  /\ queue.completing /\ ~ Active(queue) => queue.pending = << >>

FinishInv ==
  /\ finish # "none" => queue.completing
  /\ finish = "done" => ~ Active(queue) /\ acked = 1 .. arrived

AccountInv ==
  /\ QueueTypeOK /\ RetainedIsHeld
  /\ NoneLost /\ AckedIsDurable /\ CompletingCommits /\ FinishInv
=============================================================================
