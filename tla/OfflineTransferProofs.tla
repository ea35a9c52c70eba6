------------------------ MODULE OfflineTransferProofs ------------------------
(***************************************************************************)
(* Proofs about the receive queue and the session that runs on it.          *)
(*                                                                         *)
(* First what each method of a DurableReceiveQueue does to the line of     *)
(* messages it holds, and with it the memory account and the promise of    *)
(* finish(), for every batch size, every window and any number of messages *)
(* (QueueSpec). Then OfflineTransfer, whose queue is driven by the same     *)
(* methods, for any number of blocks and failures, any window that fits    *)
(* the receive queue and any batch size (Spec): its invariant has a part   *)
(* per concern, the channel, the sender, the queue, the resume report, and *)
(* what the two ends agree on.                                             *)
(***************************************************************************)
EXTENDS OfflineTransfer, ReceiveQueue, SequenceTheorems, FiniteSetTheorems, WellFoundedInduction, TLAPS

-----------------------------------------------------------------------------
(* The receive queue.                                                      *)

\* The elements of a sequence, as its steps change them.
LEMMA SetOfConcat ==
  ASSUME NEW S, NEW u \in Seq(S), NEW v \in Seq(S)
  PROVE  ToSet(u \o v) = ToSet(u) \cup ToSet(v)
<1>1. \A w : ToSet(w) = Range(w)
  BY DEF Range, ToSet
<1>2. Range(u \o v) = Range(u) \cup Range(v)
  BY RangeConcatenation
<1> QED
  BY <1>1, <1>2

LEMMA SetOfEmpty == ToSet(<< >>) = {}
  BY DEF ToSet

LEMMA SetOfAppend ==
  ASSUME NEW S, NEW u \in Seq(S), NEW e \in S
  PROVE  ToSet(Append(u, e)) = ToSet(u) \cup { e }
<1>1. Append(u, e) = u \o << e >> /\ << e >> \in Seq(S)
  BY AppendIsConcat
<1>2. ToSet(<< e >>) = { e }
  BY DEF ToSet
<1>3. PICK v \in Seq(S) : v = << e >>
  BY <1>1
<1>4. ToSet(u \o v) = ToSet(u) \cup ToSet(v)
  BY SetOfConcat
<1> QED
  BY <1>1, <1>2, <1>3, <1>4

LEMMA SetOfTail ==
  ASSUME NEW S, NEW u \in Seq(S), u # << >>
  PROVE  ToSet(u) = { Head(u) } \cup ToSet(Tail(u))
<1>1. Head(u) \in S /\ Tail(u) \in Seq(S) /\ << Head(u) >> \in Seq(S)
      /\ Len(u) \in Nat /\ Len(Tail(u)) = Len(u) - 1
      /\ \A i \in 1 .. Len(Tail(u)) : Tail(u)[i] = u[i + 1]
  BY HeadTailProperties
<1>3. u = << Head(u) >> \o Tail(u)
  <2>1. << Head(u) >> \o Tail(u) \in Seq(S) /\ Len(<< Head(u) >> \o Tail(u)) = Len(u)
    BY <1>1
  <2>2. \A i \in 1 .. Len(u) : u[i] = (<< Head(u) >> \o Tail(u))[i]
    BY <1>1
  <2> QED
    BY <2>1, <2>2, SeqEqual
<1>2. ToSet(<< Head(u) >>) = { Head(u) }
  BY DEF ToSet
<1>4. PICK v, w \in Seq(S) : v = << Head(u) >> /\ w = Tail(u)
  BY <1>1
<1>5. ToSet(v \o w) = ToSet(v) \cup ToSet(w)
  BY SetOfConcat
<1> QED
  BY <1>2, <1>3, <1>4, <1>5

LEMMA SetOfType ==
  ASSUME NEW S, NEW u \in Seq(S)
  PROVE  ToSet(u) \subseteq S /\ (ToSet(u) = {} <=> u = << >>)
<1>1. DOMAIN u = 1 .. Len(u) /\ Len(u) \in Nat /\ \A i \in 1 .. Len(u) : u[i] \in S
  BY LenProperties, ElementOfSeq
<1>2. u # << >> => u[1] \in ToSet(u)
  BY <1>1, EmptySeq DEF ToSet
<1>3. u = << >> => ToSet(u) = {}
  BY SetOfEmpty
<1> QED
  BY <1>1, <1>2, <1>3 DEF ToSet

-----------------------------------------------------------------------------
(* The methods.                                                            *)

\* The fields of a queue, and its line.
LEMMA QueueFields ==
  ASSUME NEW B, NEW rq \in Queue(B)
  PROVE  /\ rq.pending \in Seq(B) /\ rq.batch \in Seq(B) /\ rq.retained \in Nat
         /\ rq.flush \in BOOLEAN /\ rq.timer \in BOOLEAN /\ rq.completing \in BOOLEAN
         /\ rq.stopped \in BOOLEAN /\ rq.error \in BOOLEAN
         /\ Line(rq) \in Seq(B) /\ Len(Line(rq)) = Len(rq.batch) + Len(rq.pending)
         /\ ToSet(Line(rq)) = ToSet(rq.batch) \cup ToSet(rq.pending)
<1>1. /\ rq.pending \in Seq(B) /\ rq.batch \in Seq(B) /\ rq.retained \in Nat
      /\ rq.flush \in BOOLEAN /\ rq.timer \in BOOLEAN /\ rq.completing \in BOOLEAN
      /\ rq.stopped \in BOOLEAN /\ rq.error \in BOOLEAN
  BY DEF Queue
<1> QED
  BY <1>1, SetOfConcat, ConcatProperties DEF Line

LEMMA EmptyLine ==
  ASSUME NEW B, NEW rq \in Queue(B)
  PROVE  Line(rq) = << >> <=> ~ Active(rq) /\ rq.pending = << >>
<1>1. rq.batch \in Seq(B) /\ rq.pending \in Seq(B)
  BY DEF Queue
<1> QED
  BY <1>1, ConcatEqualIffEmpty DEF Line, Active

\* Taking a batch off the front reorders nothing.
LEMMA SpliceKeeps ==
  ASSUME NEW B, NEW rq \in Queue(B), rq.batch = << >>, rq.pending # << >>
  PROVE  /\ Splice(rq) \in Queue(B) /\ Line(Splice(rq)) = Line(rq) /\ Active(Splice(rq))
         /\ Splice(rq).retained = rq.retained /\ Splice(rq).stopped = rq.stopped
         /\ Splice(rq).completing = rq.completing /\ Splice(rq).error = rq.error
<1> DEFINE L == Len(rq.pending)
           n == IF L < BatchBlocks THEN L ELSE BatchBlocks
<1>1. rq.pending \in Seq(B) /\ rq.batch \in Seq(B) /\ L \in Nat \ {0}
  BY QueueFields, EmptySeq
<1>2. n \in 1 .. L
  BY <1>1, CommitQueueAssumption
<1> HIDE DEF n, L
<1>3. /\ SubSeq(rq.pending, 1, n) \in Seq(B) /\ Len(SubSeq(rq.pending, 1, n)) = n
      /\ SubSeq(rq.pending, n + 1, L) \in Seq(B)
      /\ SubSeq(rq.pending, 1, n) \o SubSeq(rq.pending, n + 1, L) = rq.pending
  <2>1. SubSeq(rq.pending, 1, n) \in Seq(B) /\ Len(SubSeq(rq.pending, 1, n)) = n
    BY <1>1, <1>2 DEF L
  <2>2. SubSeq(rq.pending, n + 1, L) \in Seq(B)
    <3>1. \A i \in n + 1 .. L : rq.pending[i] \in B
      BY <1>1, <1>2, ElementOfSeq DEF L
    <3> QED
      BY <1>1, <1>2, <3>1, SubSeqProperties
  <2>3. 1 \in 1 .. L + 1 /\ n \in 1 - 1 .. L /\ L \in n .. L
    BY <1>1, <1>2
  <2>4. SubSeq(rq.pending, 1, n) \o SubSeq(rq.pending, n + 1, L) = SubSeq(rq.pending, 1, L)
    <3>1. PICK p \in Seq(B) : p = rq.pending
      BY <1>1
    <3>2. SubSeq(p, 1, n) \o SubSeq(p, n + 1, L) = SubSeq(p, 1, L)
      BY <2>3, <3>1, ConcatAdjacentSubSeq, Zenon DEF L
    <3> QED
      BY <3>1, <3>2
  <2> QED
    BY <1>1, <2>1, <2>2, <2>4, SubSeqFull DEF L
<1>4. Splice(rq) = [ rq EXCEPT !.flush = FALSE, !.timer = FALSE,
                              !.batch = SubSeq(rq.pending, 1, n),
                              !.pending = SubSeq(rq.pending, n + 1, L) ]
  BY DEF Splice, n, L
<1>5. /\ Splice(rq).batch = SubSeq(rq.pending, 1, n)
      /\ Splice(rq).pending = SubSeq(rq.pending, n + 1, L)
      /\ Splice(rq) \in Queue(B)
      /\ Splice(rq).retained = rq.retained /\ Splice(rq).stopped = rq.stopped
      /\ Splice(rq).completing = rq.completing /\ Splice(rq).error = rq.error
  BY <1>3, <1>4 DEF Queue
<1>6. Line(rq) = rq.pending
  BY <1>1, ConcatEmptySeq DEF Line
<1>7. Splice(rq).batch # << >>
  <2>1. Len(Splice(rq).batch) = n /\ n # 0
    BY <1>2, <1>3, <1>5
  <2> QED
    BY <2>1, EmptySeq
<1> QED
  BY <1>3, <1>5, <1>6, <1>7 DEF Line, Active

\* schedule() never loses or reorders a message, leaves an active commit alone,
\* and once the queue is completing leaves nothing without a commit.
LEMMA ScheduleKeeps ==
  ASSUME NEW B, NEW rq \in Queue(B)
  PROVE  /\ Schedule(rq) \in Queue(B) /\ Line(Schedule(rq)) = Line(rq)
         /\ Schedule(rq).retained = rq.retained /\ Schedule(rq).stopped = rq.stopped
         /\ Schedule(rq).completing = rq.completing /\ Schedule(rq).error = rq.error
         /\ rq.stopped \/ Active(rq) =>
              Schedule(rq).batch = rq.batch /\ Schedule(rq).pending = rq.pending
         /\ rq.completing /\ ~ rq.stopped /\ ~ Active(Schedule(rq))
              => Schedule(rq).pending = << >>
<1> DEFINE Quiet == [ rq EXCEPT !.timer = FALSE ]
           Waits == [ rq EXCEPT !.timer = TRUE ]
<1>1. /\ Quiet \in Queue(B) /\ Waits \in Queue(B)
      /\ Quiet.pending = rq.pending /\ Waits.pending = rq.pending
      /\ Quiet.batch = rq.batch /\ Waits.batch = rq.batch
      /\ Quiet.retained = rq.retained /\ Waits.retained = rq.retained
      /\ Quiet.stopped = rq.stopped /\ Waits.stopped = rq.stopped
      /\ Quiet.completing = rq.completing /\ Waits.completing = rq.completing
      /\ Quiet.error = rq.error /\ Waits.error = rq.error
  BY DEF Queue
<1> HIDE DEF Quiet, Waits
<1>2. CASE rq.stopped \/ rq.pending = << >>
  <2>1. Schedule(rq) = Quiet
    BY <1>2 DEF Schedule, Quiet
  <2> QED
    BY <1>1, <1>2, <2>1 DEF Line
<1>3. CASE ~ rq.stopped /\ rq.pending # << >> /\ Ready(rq) /\ Active(rq)
  <2>1. Schedule(rq) = Quiet
    BY <1>3 DEF Schedule, Quiet
  <2> QED
    BY <1>1, <1>3, <2>1 DEF Line, Active
<1>4. CASE ~ rq.stopped /\ rq.pending # << >> /\ Ready(rq) /\ ~ Active(rq)
  <2>1. Schedule(rq) = Splice(rq)
    BY <1>4 DEF Schedule
  <2> QED
    BY <1>4, <2>1, SpliceKeeps DEF Active
<1>5. CASE ~ rq.stopped /\ rq.pending # << >> /\ ~ Ready(rq)
  <2>1. Schedule(rq) = Waits
    BY <1>5 DEF Schedule, Waits
  <2> QED
    BY <1>1, <1>5, <2>1 DEF Line, Ready
<1> QED
  BY <1>2, <1>3, <1>4, <1>5

\* enqueue() of a message it accepts puts it at the end of the line.
LEMMA EnqueuedKeeps ==
  ASSUME NEW B, NEW rq \in Queue(B), NEW b \in B
  PROVE  /\ Enqueued(rq, b) \in Queue(B) /\ Line(Enqueued(rq, b)) = Append(Line(rq), b)
         /\ Enqueued(rq, b).retained = rq.retained + 1
         /\ Enqueued(rq, b).stopped = rq.stopped
         /\ Enqueued(rq, b).completing = rq.completing
         /\ Active(rq) => Enqueued(rq, b).batch = rq.batch
         /\ rq.completing /\ ~ rq.stopped /\ ~ Active(Enqueued(rq, b))
              => Enqueued(rq, b).pending = << >>
<1> DEFINE p == Append(rq.pending, b)
           r == [ rq EXCEPT !.pending = p, !.retained = @ + 1,
                           !.flush = @ \/ Len(p) >= BatchBlocks ]
<1>1. p \in Seq(B) /\ rq.pending \in Seq(B) /\ rq.batch \in Seq(B)
  BY QueueFields, AppendProperties
<1>2. Enqueued(rq, b) = Schedule(r)
  BY DEF Enqueued
<1>3. /\ r \in Queue(B) /\ r.pending = p /\ r.batch = rq.batch
      /\ r.retained = rq.retained + 1 /\ r.stopped = rq.stopped
      /\ r.completing = rq.completing
  <2>0. rq.retained \in Nat
    BY DEF Queue
  <2>1. PICK m \in Nat : m = rq.retained + 1
    BY <2>0
  <2>2. PICK f \in BOOLEAN : f = (rq.flush \/ Len(p) >= BatchBlocks)
    OBVIOUS
  <2>3. r = [ rq EXCEPT !.pending = p, !.retained = m, !.flush = f ]
    BY <2>1, <2>2
  <2> HIDE DEF p, r
  <2> QED
    BY <1>1, <2>1, <2>3 DEF Queue
<1>4. Line(r) = Append(Line(rq), b)
  <2>1. PICK u, v \in Seq(B) : u = rq.batch /\ v = rq.pending
    BY <1>1
  <2>2. u \o Append(v, b) = Append(u \o v, b)
    <3>1. Append(v, b) = v \o << b >> /\ << b >> \in Seq(B) /\ u \o v \in Seq(B)
      BY AppendIsConcat
    <3>2. Append(u \o v, b) = (u \o v) \o << b >>
      BY <3>1, AppendIsConcat
    <3>3. PICK w \in Seq(B) : w = << b >>
      BY <3>1
    <3>4. (u \o v) \o w = u \o (v \o w)
      BY ConcatAssociative
    <3> QED
      BY <3>1, <3>2, <3>3, <3>4
  <2> QED
    BY <1>3, <2>1, <2>2 DEF Line
<1> HIDE DEF r, p
<1> QED
  BY <1>2, <1>3, <1>4, ScheduleKeeps DEF Active

\* The timer, and finish() up to its first await, only ask for a commit.
LEMMA AskedKeeps ==
  ASSUME NEW B, NEW rq \in Queue(B), NEW r, r = TimerFired(rq) \/ r = Finishing(rq)
  PROVE  /\ r \in Queue(B) /\ Line(r) = Line(rq) /\ r.retained = rq.retained
         /\ r.stopped = rq.stopped
         /\ r.completing <=> rq.completing \/ r = Finishing(rq)
         /\ rq.stopped \/ Active(rq) => r.batch = rq.batch /\ r.pending = rq.pending
         /\ (rq.completing \/ r = Finishing(rq)) /\ ~ rq.stopped /\ ~ Active(r)
              => r.pending = << >>
<1> DEFINE t == [ rq EXCEPT !.timer = FALSE, !.flush = TRUE ]
           f == [ rq EXCEPT !.completing = TRUE, !.flush = TRUE ]
<1>1. /\ t \in Queue(B) /\ f \in Queue(B) /\ Line(t) = Line(rq) /\ Line(f) = Line(rq)
      /\ t.batch = rq.batch /\ f.batch = rq.batch
      /\ t.retained = rq.retained /\ f.retained = rq.retained
      /\ t.stopped = rq.stopped /\ f.stopped = rq.stopped
      /\ t.completing = rq.completing /\ f.completing = TRUE /\ rq.completing \in BOOLEAN
  BY DEF Queue, Line
<1>2. TimerFired(rq) = Schedule(t) /\ Finishing(rq) = Schedule(f)
  BY DEF TimerFired, Finishing
<1> HIDE DEF t, f
<1>3. (Active(t) <=> Active(rq)) /\ (Active(f) <=> Active(rq))
      /\ t.pending = rq.pending /\ f.pending = rq.pending
  BY <1>1 DEF Active, t, f, Queue
<1>4. CASE r = Finishing(rq)
  <2>1. PICK p \in Queue(B) : p = f
    BY <1>1
  <2>2. /\ r \in Queue(B) /\ Line(r) = Line(p) /\ r.retained = p.retained
        /\ r.stopped = p.stopped /\ r.completing = p.completing
        /\ p.stopped \/ Active(p) => r.batch = p.batch /\ r.pending = p.pending
        /\ p.completing /\ ~ p.stopped /\ ~ Active(r) => r.pending = << >>
    BY <1>2, <1>4, <2>1, ScheduleKeeps
  <2> QED
    BY <1>1, <1>3, <1>4, <2>1, <2>2
<1>5. CASE r = TimerFired(rq) /\ r # Finishing(rq)
  <2>1. PICK p \in Queue(B) : p = t
    BY <1>1
  <2>2. /\ r \in Queue(B) /\ Line(r) = Line(p) /\ r.retained = p.retained
        /\ r.stopped = p.stopped /\ r.completing = p.completing
        /\ p.stopped \/ Active(p) => r.batch = p.batch /\ r.pending = p.pending
        /\ p.completing /\ ~ p.stopped /\ ~ Active(r) => r.pending = << >>
    BY <1>2, <1>5, <2>1, ScheduleKeeps
  <2> QED
    <3>1. r.completing = rq.completing /\ r.stopped = rq.stopped /\ r.retained = rq.retained
          /\ Line(r) = Line(rq) /\ r \in Queue(B)
      BY <1>1, <2>1, <2>2
    <3>2. rq.stopped \/ Active(rq) => r.batch = rq.batch /\ r.pending = rq.pending
      BY <1>1, <1>3, <2>1, <2>2
    <3>3. rq.completing /\ ~ rq.stopped /\ ~ Active(r) => r.pending = << >>
      BY <1>1, <2>1, <2>2
    <3> QED
      BY <1>1, <1>5, <3>1, <3>2, <3>3
<1> QED
  BY <1>4, <1>5

\* stop() drops what is pending and gives its buffers back, once.
LEMMA StopKeeps ==
  ASSUME NEW B, NEW rq \in Queue(B), rq.retained = Len(rq.pending) + Len(rq.batch)
  PROVE  /\ StopQueue(rq) \in Queue(B) /\ StopQueue(rq).batch = rq.batch
         /\ StopQueue(rq).pending = << >> /\ Line(StopQueue(rq)) = rq.batch
         /\ StopQueue(rq).retained = Len(rq.batch) /\ StopQueue(rq).stopped
         /\ StopQueue(rq).completing = rq.completing
<1>0. rq.pending \in Seq(B) /\ rq.batch \in Seq(B)
  BY DEF Queue
<1>1. rq.pending \in Seq(B) /\ rq.batch \in Seq(B) /\ Len(rq.batch) \in Nat
      /\ Len(rq.pending) \in Nat /\ << >> \in Seq(B)
  BY <1>0
<1>2. PICK n \in Nat : n = Len(rq.batch) /\ rq.retained - Len(rq.pending) = n
  BY <1>1
<1>r. StopQueue(rq) = [ rq EXCEPT !.stopped = TRUE, !.timer = FALSE, !.pending = << >>,
                                !.retained = n ]
  BY <1>2 DEF StopQueue
<1>3. /\ StopQueue(rq).batch = rq.batch /\ StopQueue(rq).pending = << >>
      /\ StopQueue(rq).retained = Len(rq.batch) /\ StopQueue(rq).stopped
      /\ StopQueue(rq).completing = rq.completing /\ StopQueue(rq) \in Queue(B)
  BY <1>1, <1>2, <1>r DEF Queue
<1> QED
  BY <1>1, <1>3, ConcatEmptySeq DEF Line

\* A commit that returned takes its batch off the line.
LEMMA SettledKeeps ==
  ASSUME NEW B, NEW rq \in Queue(B), rq.retained = Len(rq.pending) + Len(rq.batch)
  PROVE  /\ Settled(rq) \in Queue(B) /\ Line(Settled(rq)) = rq.pending
         /\ Settled(rq).retained = Len(rq.pending) /\ Settled(rq).stopped = rq.stopped
         /\ Settled(rq).completing = rq.completing
         /\ rq.stopped => Settled(rq).batch = << >> /\ Settled(rq).pending = rq.pending
         /\ rq.completing /\ ~ rq.stopped /\ ~ Active(Settled(rq))
              => Settled(rq).pending = << >>
<1> DEFINE r == [ rq EXCEPT !.retained = @ - Len(rq.batch), !.batch = << >> ]
<1>0. rq.pending \in Seq(B) /\ rq.batch \in Seq(B)
  BY DEF Queue
<1>1. rq.pending \in Seq(B) /\ rq.batch \in Seq(B) /\ Len(rq.batch) \in Nat
      /\ Len(rq.pending) \in Nat /\ << >> \in Seq(B)
  BY <1>0
<1>2. PICK n \in Nat : n = Len(rq.pending) /\ rq.retained - Len(rq.batch) = n
  BY <1>1
<1>r. r = [ rq EXCEPT !.retained = n, !.batch = << >> ]
  BY <1>2
<1>5. Settled(rq) = Schedule(r)
  BY DEF Settled
<1> HIDE DEF r
<1>3. /\ r \in Queue(B) /\ r.batch = << >> /\ r.pending = rq.pending
      /\ r.retained = Len(rq.pending) /\ r.stopped = rq.stopped
      /\ r.completing = rq.completing
  BY <1>1, <1>2, <1>r DEF Queue
<1>4. Line(r) = rq.pending
  BY <1>1, <1>3, ConcatEmptySeq DEF Line
<1> QED
  BY <1>3, <1>4, <1>5, ScheduleKeeps

\* A commit that failed stops the queue and leaves it empty.
LEMMA BrokenKeeps ==
  ASSUME NEW B, NEW rq \in Queue(B), rq.retained = Len(rq.pending) + Len(rq.batch)
  PROVE  /\ Broken(rq) \in Queue(B) /\ Broken(rq).batch = << >> /\ Broken(rq).pending = << >>
         /\ Line(Broken(rq)) = << >> /\ Broken(rq).retained = 0 /\ Broken(rq).stopped
         /\ Broken(rq).completing = rq.completing
<1> DEFINE r == [ rq EXCEPT !.retained = @ - Len(rq.batch), !.batch = << >>, !.error = TRUE ]
<1>0. rq.pending \in Seq(B) /\ rq.batch \in Seq(B)
  BY DEF Queue
<1>1. rq.pending \in Seq(B) /\ rq.batch \in Seq(B) /\ Len(rq.batch) \in Nat
      /\ Len(rq.pending) \in Nat /\ << >> \in Seq(B) /\ Len(<< >>) = 0
  BY <1>0
<1>2. PICK n \in Nat : n = Len(rq.pending) /\ rq.retained - Len(rq.batch) = n
  BY <1>1
<1>r. r = [ rq EXCEPT !.retained = n, !.batch = << >>, !.error = TRUE ]
  BY <1>2
<1>4. Broken(rq) = StopQueue(r)
  BY DEF Broken
<1> HIDE DEF r
<1>3. /\ r \in Queue(B) /\ r.batch = << >> /\ r.pending = rq.pending
      /\ r.retained = n /\ r.completing = rq.completing
  <2>1. PICK empty \in Seq(B) : empty = << >>
    BY <1>1
  <2>2. r = [ rq EXCEPT !.retained = n, !.batch = empty, !.error = TRUE ]
    BY <1>r, <2>1
  <2>3. /\ r \in Queue(B) /\ r.batch = empty /\ r.pending = rq.pending
        /\ r.retained = n /\ r.completing = rq.completing
    BY <2>2 DEF Queue
  <2> QED
    BY <2>1, <2>3
<1>5. r.retained = Len(r.pending) + Len(r.batch)
  BY <1>1, <1>2, <1>3
<1> QED
  BY <1>1, <1>3, <1>4, <1>5, StopKeeps

\* The counter follows the line.
LEMMA RetainedIsLine ==
  ASSUME NEW B, NEW r \in Queue(B)
  PROVE  /\ Len(r.pending) \in Nat /\ Len(r.batch) \in Nat
         /\ Len(Line(r)) = Len(r.pending) + Len(r.batch)
<1>1. r.pending \in Seq(B) /\ r.batch \in Seq(B)
  BY DEF Queue
<1>2. Len(r.pending) \in Nat /\ Len(r.batch) \in Nat
  BY <1>1
<1>3. Len(Line(r)) = Len(r.batch) + Len(r.pending)
  BY QueueFields
<1>4. PICK m, n \in Nat : m = Len(r.batch) /\ n = Len(r.pending)
  BY <1>2
<1>5. m + n = n + m
  OBVIOUS
<1> QED
  BY <1>2, <1>3, <1>4, <1>5

-----------------------------------------------------------------------------
(* The queue between its caller and a store that may fail.                 *)

LEMMA AccountFacts ==
  ASSUME AccountInv
  PROVE  /\ queue \in Queue(Messages) /\ arrived \in 0 .. NumMessages /\ flushed \in BOOLEAN
         /\ durable \subseteq Messages /\ acked \subseteq Messages
         /\ queue.retained = Len(queue.pending) + Len(queue.batch)
         /\ NoneLost /\ AckedIsDurable /\ CompletingCommits /\ FinishInv
         /\ BatchSet \subseteq Messages
         /\ ToSet(Line(queue)) = BatchSet \cup ToSet(queue.pending)
<1>1. queue \in Queue(Messages)
  BY DEF AccountInv, QueueTypeOK
<1>2. queue.batch \in Seq(Messages) /\ ToSet(Line(queue)) = BatchSet \cup ToSet(queue.pending)
  BY <1>1, QueueFields DEF BatchSet
<1> QED
  BY <1>1, <1>2, SetOfType DEF AccountInv, QueueTypeOK, RetainedIsHeld, BatchSet

\* A message arrives.
LEMMA EnqueueKeeps == ASSUME AccountInv, Enqueue PROVE AccountInv'
<1>0. /\ queue \in Queue(Messages) /\ arrived \in 0 .. NumMessages /\ NoneLost
      /\ AckedIsDurable /\ CompletingCommits /\ FinishInv
      /\ queue.retained = Len(queue.pending) + Len(queue.batch)
  BY AccountFacts
<1>1. PICK m \in Messages : m = arrived + 1
  BY <1>0, ReceiveQueueAssumption DEF Enqueue, Messages
<1>2. /\ queue' = Enqueued(queue, m) /\ arrived' = m /\ ~ queue.stopped /\ ~ queue.completing
      /\ UNCHANGED << flushed, durable, acked, finish >>
  BY <1>1 DEF Enqueue, Accepts
<1>3. /\ queue' \in Queue(Messages) /\ Line(queue') = Append(Line(queue), m)
      /\ queue'.retained = queue.retained + 1 /\ ~ queue'.stopped /\ queue'.completing = queue.completing
      /\ Active(queue) => queue'.batch = queue.batch
  <2>1. PICK r \in Queue(Messages) : r = queue
    BY <1>0
  <2>2. /\ Enqueued(r, m) \in Queue(Messages)
        /\ Line(Enqueued(r, m)) = Append(Line(r), m)
        /\ Enqueued(r, m).retained = r.retained + 1
        /\ Enqueued(r, m).stopped = r.stopped
        /\ Enqueued(r, m).completing = r.completing
        /\ Active(r) => Enqueued(r, m).batch = r.batch
    BY EnqueuedKeeps
  <2> QED
    BY <1>2, <2>1, <2>2
<1>4. QueueTypeOK'
  BY <1>0, <1>1, <1>2, <1>3 DEF AccountInv, QueueTypeOK, Messages
<1>5. RetainedIsHeld'
  <2>1. Line(queue) \in Seq(Messages)
    BY <1>0, QueueFields
  <2>2. Len(Line(queue')) = Len(Line(queue)) + 1 /\ Len(Line(queue)) \in Nat
    BY <1>3, <2>1
  <2> QED
    BY <1>0, <1>3, <2>2, RetainedIsLine DEF RetainedIsHeld
<1>6. NoneLost'
  <2>1. ToSet(Line(queue')) = ToSet(Line(queue)) \cup { m }
    <3>1. PICK u \in Seq(Messages) : u = Line(queue)
      BY <1>0, QueueFields
    <3>2. ToSet(Append(u, m)) = ToSet(u) \cup { m }
      BY SetOfAppend
    <3> QED
      BY <1>3, <3>1, <3>2
  <2>2. 1 .. m = (1 .. arrived) \cup { m }
    BY <1>0, <1>1
  <2> QED
    BY <1>0, <1>2, <1>3, <2>1, <2>2 DEF NoneLost
<1>7. AckedIsDurable'
  BY <1>0, <1>2, <1>3 DEF AckedIsDurable, Active, BatchSet
<1>8. CompletingCommits' /\ FinishInv'
  BY <1>0, <1>2, <1>3 DEF CompletingCommits, FinishInv
<1> QED
  BY <1>4, <1>5, <1>6, <1>7, <1>8 DEF AccountInv

\* The timer fires, or the completion marker arrives.
LEMMA AskKeeps == ASSUME AccountInv, Timer \/ Finish PROVE AccountInv'
<1>0. /\ queue \in Queue(Messages) /\ NoneLost /\ AckedIsDurable /\ CompletingCommits
      /\ FinishInv /\ queue.retained = Len(queue.pending) + Len(queue.batch)
  BY AccountFacts
<1>1. /\ UNCHANGED << arrived, flushed, durable, acked >>
      /\ \/ finish' = finish /\ queue' = TimerFired(queue)
         \/ finish' = "waiting" /\ queue' = Finishing(queue)
      /\ finish' # finish => finish = "none"
  BY DEF Timer, Finish
<1>2. /\ queue' \in Queue(Messages) /\ Line(queue') = Line(queue) /\ queue'.retained = queue.retained
      /\ queue'.stopped = queue.stopped
      /\ queue'.completing <=> queue.completing \/ queue' = Finishing(queue)
      /\ queue.stopped \/ Active(queue) => queue'.batch = queue.batch /\ queue'.pending = queue.pending
      /\ (queue.completing \/ queue' = Finishing(queue)) /\ ~ queue.stopped /\ ~ Active(queue')
           => queue'.pending = << >>
  BY <1>0, <1>1, AskedKeeps
<1>3. QueueTypeOK'
  BY <1>1, <1>2 DEF AccountInv, QueueTypeOK
<1>4. RetainedIsHeld'
  BY <1>0, <1>2, RetainedIsLine DEF RetainedIsHeld
<1>5. NoneLost' /\ AckedIsDurable'
  BY <1>0, <1>1, <1>2 DEF NoneLost, AckedIsDurable, Active, BatchSet
<1>6. CompletingCommits'
  <2>1. queue'.stopped => queue'.pending = << >>
    BY <1>0, <1>2 DEF CompletingCommits
  <2>2. queue'.completing /\ ~ Active(queue') /\ ~ queue'.stopped => queue'.pending = << >>
    BY <1>2
  <2> QED
    BY <2>1, <2>2 DEF CompletingCommits
<1>7. FinishInv'
  <2>1. CASE finish' = "done"
    <3>1. finish = "done" /\ ~ Active(queue) /\ queue.completing /\ acked = 1 .. arrived
      BY <1>0, <1>1, <2>1 DEF FinishInv
    <3>2. Line(queue) = << >>
      BY <1>0, <3>1, EmptyLine DEF CompletingCommits
    <3>3. ~ Active(queue')
      BY <1>2, <3>2, EmptyLine
    <3> QED
      BY <1>1, <1>2, <3>1, <3>3 DEF FinishInv, Active
  <2>2. CASE finish' # "done"
    BY <1>0, <1>1, <1>2, <2>2 DEF FinishInv
  <2> QED
    BY <2>1, <2>2
<1> QED
  BY <1>3, <1>4, <1>5, <1>6, <1>7 DEF AccountInv

\* The store makes the batch durable.
LEMMA BatchKeeps == ASSUME AccountInv, BatchCommits PROVE AccountInv'
<1>0. /\ durable \subseteq Messages /\ BatchSet \subseteq Messages
      /\ acked \subseteq durable /\ Active(queue)
  BY AccountFacts DEF AckedIsDurable, BatchCommits
<1>1. /\ flushed' = TRUE /\ durable' = durable \cup BatchSet
      /\ UNCHANGED << queue, arrived, acked, finish >>
  BY DEF BatchCommits
<1>2. QueueTypeOK'
  BY <1>0, <1>1 DEF AccountInv, QueueTypeOK
<1>3. AckedIsDurable'
  BY <1>0, <1>1 DEF AckedIsDurable, Active, BatchSet
<1>4. RetainedIsHeld' /\ NoneLost' /\ CompletingCommits' /\ FinishInv'
  BY <1>1 DEF AccountInv, RetainedIsHeld, NoneLost, CompletingCommits, FinishInv, Active
<1> QED
  BY <1>2, <1>3, <1>4 DEF AccountInv

\* The commit returns: what it acknowledged leaves the line.
LEMMA BatchReturnKeeps == ASSUME AccountInv, BatchReturns PROVE AccountInv'
<1>0. /\ queue \in Queue(Messages) /\ NoneLost /\ AckedIsDurable /\ CompletingCommits
      /\ FinishInv /\ queue.retained = Len(queue.pending) + Len(queue.batch)
      /\ acked \subseteq Messages /\ BatchSet \subseteq Messages
      /\ ToSet(Line(queue)) = BatchSet \cup ToSet(queue.pending)
  BY AccountFacts
<1>1. /\ Active(queue) /\ flushed /\ flushed' = FALSE /\ queue' = Settled(queue)
      /\ acked' = IF queue.stopped THEN acked ELSE acked \cup BatchSet
      /\ UNCHANGED << arrived, durable, finish >>
  BY DEF BatchReturns
<1>2. /\ queue' \in Queue(Messages) /\ Line(queue') = queue.pending /\ queue'.retained = Len(queue.pending)
      /\ queue'.stopped = queue.stopped /\ queue'.completing = queue.completing
      /\ queue.stopped => queue'.batch = << >> /\ queue'.pending = queue.pending
      /\ queue.completing /\ ~ queue.stopped /\ ~ Active(queue') => queue'.pending = << >>
  <2>1. PICK r \in Queue(Messages) : r = queue
    BY <1>0
  <2>2. /\ Settled(r) \in Queue(Messages) /\ Line(Settled(r)) = r.pending
        /\ Settled(r).retained = Len(r.pending) /\ Settled(r).stopped = r.stopped
        /\ Settled(r).completing = r.completing
        /\ r.stopped => Settled(r).batch = << >> /\ Settled(r).pending = r.pending
        /\ r.completing /\ ~ r.stopped /\ ~ Active(Settled(r)) => Settled(r).pending = << >>
    BY <1>0, <2>1, SettledKeeps
  <2> QED
    BY <1>1, <2>1, <2>2
<1>3. QueueTypeOK'
  BY <1>0, <1>1, <1>2 DEF AccountInv, QueueTypeOK
<1>4. RetainedIsHeld'
  BY <1>2, RetainedIsLine DEF RetainedIsHeld
<1>5. NoneLost'
  BY <1>0, <1>1, <1>2 DEF NoneLost
<1>6. AckedIsDurable'
  BY <1>0, <1>1 DEF AckedIsDurable
<1>7. CompletingCommits'
  BY <1>0, <1>2 DEF CompletingCommits
<1>8. FinishInv'
  BY <1>0, <1>1, <1>2 DEF FinishInv
<1> QED
  BY <1>3, <1>4, <1>5, <1>6, <1>7, <1>8 DEF AccountInv

\* The commit fails, or the queue is stopped.
LEMMA StopsKeep ==
  ASSUME AccountInv, BatchThrows \/ Stop \/ EnqueueThrows
  PROVE  AccountInv'
<1>0. /\ queue \in Queue(Messages) /\ AckedIsDurable /\ CompletingCommits
      /\ FinishInv /\ queue.retained = Len(queue.pending) + Len(queue.batch)
  BY AccountFacts
<1>1. /\ UNCHANGED << arrived, durable, acked, finish >> /\ flushed' \in BOOLEAN
      /\ \/ queue' = Broken(queue) /\ Active(queue) /\ flushed' = FALSE
         \/ queue' = StopQueue(queue) /\ flushed' = flushed
  BY DEF BatchThrows, Stop, EnqueueThrows, AccountInv, QueueTypeOK
<1>2. /\ queue' \in Queue(Messages) /\ queue'.pending = << >> /\ queue'.stopped
      /\ queue'.retained = Len(queue'.batch) /\ queue'.completing = queue.completing
      /\ \/ queue'.batch = << >> /\ flushed' = FALSE
         \/ queue'.batch = queue.batch /\ flushed' = flushed
      /\ Active(queue') => Active(queue)
  <2>1. PICK r \in Queue(Messages) : r = queue
    BY <1>0
  <2>2. /\ StopQueue(r) \in Queue(Messages) /\ StopQueue(r).batch = r.batch
        /\ StopQueue(r).pending = << >> /\ StopQueue(r).stopped
        /\ StopQueue(r).retained = Len(r.batch)
        /\ StopQueue(r).completing = r.completing
    BY <1>0, <2>1, StopKeeps
  <2>3. /\ Broken(r) \in Queue(Messages) /\ Broken(r).batch = << >>
        /\ Broken(r).pending = << >> /\ Broken(r).stopped /\ Broken(r).retained = 0
        /\ Broken(r).completing = r.completing
    BY <1>0, <2>1, BrokenKeeps
  <2>4. Len(<< >>) = 0
    OBVIOUS
  <2>5. CASE queue' = Broken(queue) /\ Active(queue) /\ flushed' = FALSE
    BY <2>1, <2>3, <2>4, <2>5 DEF Active
  <2>6. CASE queue' = StopQueue(queue) /\ flushed' = flushed
    BY <2>1, <2>2, <2>6 DEF Active
  <2> QED
    BY <1>1, <2>5, <2>6
<1>3. QueueTypeOK'
  BY <1>1, <1>2 DEF AccountInv, QueueTypeOK
<1>4. RetainedIsHeld'
  <2>1. Len(queue'.batch) \in Nat /\ Len(queue'.pending) = 0
    BY <1>2, RetainedIsLine
  <2> QED
    BY <1>2, <2>1 DEF RetainedIsHeld
<1>5. NoneLost' /\ CompletingCommits'
  BY <1>2 DEF NoneLost, CompletingCommits
<1>6. AckedIsDurable'
  BY <1>0, <1>1, <1>2 DEF AckedIsDurable, Active, BatchSet
<1>7. FinishInv'
  BY <1>0, <1>1, <1>2 DEF FinishInv
<1> QED
  BY <1>3, <1>4, <1>5, <1>6, <1>7 DEF AccountInv

\* finish() is resumed.
LEMMA FinishResolvesKeeps == ASSUME AccountInv, FinishResolves PROVE AccountInv'
<1>0. /\ queue \in Queue(Messages) /\ NoneLost /\ CompletingCommits /\ FinishInv
  BY AccountFacts
<1>1. /\ UNCHANGED << queue, arrived, flushed, durable, acked >>
      /\ queue.completing /\ ~ Active(queue)
      /\ finish' = IF queue.stopped THEN "thrown" ELSE "done"
  BY DEF FinishResolves, Finished
<1>2. ~ queue.stopped => acked = 1 .. arrived
  <2>1. Line(queue) = << >>
    BY <1>0, <1>1, EmptyLine DEF CompletingCommits
  <2> QED
    BY <1>0, <2>1, SetOfEmpty DEF NoneLost
<1>3. QueueTypeOK'
  BY <1>1 DEF AccountInv, QueueTypeOK
<1>4. FinishInv'
  BY <1>1, <1>2 DEF FinishInv, Active
<1>5. RetainedIsHeld' /\ NoneLost' /\ AckedIsDurable' /\ CompletingCommits'
  BY <1>1 DEF AccountInv, RetainedIsHeld, NoneLost, AckedIsDurable, CompletingCommits,
              Active, BatchSet
<1> QED
  BY <1>3, <1>4, <1>5 DEF AccountInv

LEMMA AccountInit == QueueInit => AccountInv
<1> SUFFICES ASSUME QueueInit PROVE AccountInv
  OBVIOUS
<1>1. /\ queue = NewQueue /\ arrived = 0 /\ flushed = FALSE /\ durable = {} /\ acked = {}
      /\ finish = "none" /\ Len(<< >>) = 0 /\ << >> \in Seq(Messages)
  BY DEF QueueInit
<1>2. queue \in Queue(Messages) /\ queue.pending = << >> /\ queue.batch = << >> /\ queue.retained = 0
      /\ queue.completing = FALSE /\ queue.stopped = FALSE
  BY <1>1 DEF NewQueue, Queue
<1>3. Line(queue) = << >>
  BY <1>2, EmptyLine DEF Active
<1>4. 1 .. 0 = {} /\ 0 \in 0 .. NumMessages
  BY ReceiveQueueAssumption
<1>t. QueueTypeOK
  BY <1>1, <1>2, <1>4 DEF QueueTypeOK
<1>r. RetainedIsHeld
  <2>1. Len(queue.pending) = 0 /\ Len(queue.batch) = 0 /\ queue.retained = 0
    BY <1>1, <1>2
  <2> QED
    BY <2>1 DEF RetainedIsHeld
<1>5. QueueTypeOK /\ RetainedIsHeld
  BY <1>t, <1>r
<1>6. NoneLost
  BY <1>1, <1>3, <1>4, SetOfEmpty DEF NoneLost
<1>7. AckedIsDurable /\ CompletingCommits /\ FinishInv
  BY <1>1, <1>2 DEF AckedIsDurable, CompletingCommits, FinishInv
<1> QED
  BY <1>5, <1>6, <1>7 DEF AccountInv

LEMMA AccountNext == AccountInv /\ [QueueNext]_queueVars => AccountInv'
<1> SUFFICES ASSUME AccountInv, [QueueNext]_queueVars PROVE AccountInv'
  OBVIOUS
<1>1. CASE UNCHANGED queueVars
  BY <1>1, Zenon DEF queueVars, AccountInv, QueueTypeOK, RetainedIsHeld, NoneLost, AckedIsDurable,
              CompletingCommits, FinishInv, Active, BatchSet
<1>2. CASE QueueNext
  BY <1>2, EnqueueKeeps, AskKeeps, BatchKeeps, BatchReturnKeeps, StopsKeep,
     FinishResolvesKeeps DEF QueueNext
<1> QED
  BY <1>1, <1>2

\* However arrivals, timers, commits and stops interleave, no message is lost from
\* sight: it is acknowledged, in the active commit or waiting.
THEOREM AlwaysAccounted == QueueSpec => []AccountInv
<1>1. QueueInit => AccountInv
  BY AccountInit
<1>2. AccountInv /\ [QueueNext]_queueVars => AccountInv'
  BY AccountNext
<1> QED
  BY <1>1, <1>2, PTL DEF QueueSpec

\* For every number and order of arrivals, timers, failures and stops, the memory
\* counter is what the queue holds, and finish() returns only when everything that
\* arrived is durable and acknowledged.
THEOREM QueueIsAccounted == QueueSpec => []QueueAccount
<1>1. AccountInv => QueueAccount
  BY DEF AccountInv, QueueAccount, AckedIsDurable, FinishInv, FinishMeansAll
<1> QED
  BY <1>1, AlwaysAccounted, PTL

\* A queue that was stopped acknowledges nothing, not even the commit that was
\* under way when it stopped.
THEOREM StoppedAcknowledgesNothing == QueueSpec => NoAckAfterStop
<1>1. [QueueNext]_queueVars => [queue.stopped => acked' = acked]_queueVars
  BY DEF QueueNext, Enqueue, EnqueueThrows, Timer, BatchCommits, BatchReturns, BatchThrows,
         Finish, FinishResolves, Stop, queueVars
<1> QED
  BY <1>1, PTL DEF QueueSpec, NoAckAfterStop

-----------------------------------------------------------------------------
(* The session.                                                            *)

USE TransferAssumption
-----------------------------------------------------------------------------
(* Sets of blocks.                                                         *)

LEMMA NatMinimum ==
  ASSUME NEW T, T \subseteq Nat, T # {}
  PROVE  \E x \in T : \A y \in T : x <= y
<1>1. PICK x \in T : \A y \in T : ~ (<< y, x >> \in OpToRel(<, Nat))
  BY NatLessThanWellFounded, WFMin, Zenon
<1>2. \A y \in T : ~ (y < x)
  BY <1>1 DEF OpToRel
<1> QED
  BY <1>2

LEMMA MinOfBlocks ==
  ASSUME NEW T, T \subseteq Blocks, T # {}
  PROVE  Min(T) \in T /\ \A y \in T : Min(T) <= y
<1>1. T \subseteq Nat
  BY DEF Blocks
<1>2. \E x \in T : \A y \in T : x =< y
  BY <1>1, NatMinimum
<1> QED
  BY <1>2 DEF Min

LEMMA MaxOfBlocks ==
  ASSUME NEW T, T \subseteq Blocks, T # {}
  PROVE  Max(T) \in T /\ \A y \in T : Max(T) >= y
<1> DEFINE Below == { n \in Nat : \E y \in T : n = NumBlocks - y }
<1>1. \A y \in T : NumBlocks - y \in Below /\ y \in Int
  BY DEF Blocks
<1>2. Below \subseteq Nat /\ Below # {}
  BY <1>1
<1>3. PICK n \in Below : \A k \in Below : n <= k
  BY <1>2, NatMinimum
<1>4. PICK x \in T : n = NumBlocks - x
  OBVIOUS
<1>5. \A y \in T : x >= y
  BY <1>1, <1>3, <1>4
<1>6. \E z \in T : \A y \in T : z >= y
  BY <1>5
<1> QED
  BY <1>6 DEF Max

LEMMA BlocksFinite ==
  ASSUME NEW T, T \subseteq Blocks
  PROVE  IsFiniteSet(T) /\ Cardinality(T) \in Nat
<1>1. IsFiniteSet(Blocks)
  BY FS_Interval DEF Blocks
<1> QED
  BY <1>1, FS_Subset, FS_CardinalityType

LEMMA SmallerSet ==
  ASSUME NEW T, T \subseteq Blocks, NEW U, U \subseteq T
  PROVE  Cardinality(U) <= Cardinality(T)
BY BlocksFinite, FS_Subset

LEMMA OneMore ==
  ASSUME NEW T, T \subseteq Blocks, NEW b \in Blocks
  PROVE  Cardinality(T \cup {b}) = IF b \in T THEN Cardinality(T) ELSE Cardinality(T) + 1
BY BlocksFinite, FS_AddElement

\* A line in which nothing occurs twice is as long as its set is large.
LEMMA LengthOfDistinct ==
  ASSUME NEW u \in Seq(Blocks), \A i, j \in 1 .. Len(u) : i # j => u[i] # u[j]
  PROVE  Len(u) <= Cardinality(ToSet(u))
<1>1. /\ Len(u) \in Nat /\ ToSet(u) \subseteq Blocks
      /\ \A i \in 1 .. Len(u) : u[i] \in ToSet(u)
  BY LenProperties, ElementOfSeq DEF ToSet
<1>2. IsFiniteSet(1 .. Len(u)) /\ Cardinality(1 .. Len(u)) = Len(u)
  <2>1. PICK n \in Int : n = Len(u) /\ n >= 0
    BY <1>1
  <2>2. IsFiniteSet(1 .. n) /\ Cardinality(1 .. n) = IF 1 > n THEN 0 ELSE n - 1 + 1
    BY FS_Interval
  <2> QED
    BY <2>1, <2>2
<1>3. IsFiniteSet(ToSet(u)) /\ Cardinality(ToSet(u)) \in Nat
  BY <1>1, BlocksFinite
<1>4. ASSUME Cardinality(ToSet(u)) < Cardinality(1 .. Len(u))
      PROVE  FALSE
  <2> DEFINE f == [ i \in 1 .. Len(u) |-> u[i] ]
  <2>1. f \in [ 1 .. Len(u) -> ToSet(u) ]
    BY <1>1
  <2>2. \E x, y \in 1 .. Len(u) : x # y /\ f[x] = f[y]
    <3> HIDE DEF f
    <3> QED
      BY <1>2, <1>3, <1>4, <2>1, FS_PigeonHole
  <2> QED
    BY <2>2
<1> QED
  BY <1>1, <1>2, <1>3, <1>4
-----------------------------------------------------------------------------
(* The channel.                                                            *)

LEMMA MessageTypes ==
  /\ Closed \in Message /\ Closed.type = "closed" /\ Closed.blocks = {}
  /\ \A type \in { "manifest", "data", "sender-complete", "resume-ranges",
                   "resume-complete", "ack", "receiver-complete", "closed" } :
       \A blocks \in SUBSET Blocks :
         /\ Msg(type, blocks) \in Message
         /\ Msg(type, blocks).type = type /\ Msg(type, blocks).blocks = blocks
BY DEF Closed, Msg, Message

LEMMA SameMessage ==
  ASSUME NEW m \in Message, NEW n \in Message, m.type = n.type, m.blocks = n.blocks
  PROVE  m = n
BY DEF Message

LEMMA InChannel ==
  ASSUME NEW chan \in Seq(Message)
  PROVE  /\ Len(chan) \in Nat /\ ToSet(chan) \subseteq Message
         /\ \A i \in 1 .. Len(chan) : chan[i] \in ToSet(chan)
         /\ \A m \in ToSet(chan) : \E i \in 1 .. Len(chan) : chan[i] = m
BY LenProperties, ElementOfSeq DEF ToSet

\* The new channel holds nothing but what the old one held, and the end.
Kept(new, chan) ==
  /\ new \in Seq(Message) /\ ToSet(new) \subseteq ToSet(chan) \cup {Closed}
  /\ Distinct(chan) => Distinct(new)
  /\ Ordered(chan) => Ordered(new)

LEMMA EndIsInOrder ==
  ASSUME NEW m \in Message
  PROVE  InOrder(m, Closed) /\ InOrder(Closed, m)
BY MessageTypes DEF InOrder

LEMMA SameKeeps ==
  ASSUME NEW chan \in Seq(Message)
  PROVE  Kept(chan, chan)
BY DEF Kept

LEMMA NothingKeeps ==
  ASSUME NEW chan \in Seq(Message)
  PROVE  Kept(<< >>, chan)
<1>1. << >> \in Seq(Message) /\ Len(<< >>) = 0 /\ ToSet(<< >>) = {}
  BY EmptySeq, SetOfEmpty
<1> QED
  BY <1>1 DEF Kept, Distinct, Ordered

\* A new channel whose messages are, in order, messages of the old or the end.
LEMMA PartKeeps ==
  ASSUME NEW chan \in Seq(Message), NEW new \in Seq(Message), NEW k \in { 0, 1 },
         \A i \in 1 .. Len(new) :
           new[i] = Closed \/ (i + k \in 1 .. Len(chan) /\ new[i] = chan[i + k])
  PROVE  Kept(new, chan)
<1>1. ToSet(new) \subseteq ToSet(chan) \cup {Closed}
  <2> SUFFICES ASSUME NEW m \in ToSet(new) PROVE m \in ToSet(chan) \cup {Closed}
    OBVIOUS
  <2>1. PICK i \in 1 .. Len(new) : new[i] = m
    BY InChannel
  <2> QED
    BY <2>1, InChannel
<1>2. Distinct(chan) => Distinct(new)
  <2> SUFFICES ASSUME Distinct(chan), NEW i \in 1 .. Len(new), NEW j \in 1 .. Len(new),
                      i # j, new[i] # Closed
               PROVE  new[i] # new[j]
    BY DEF Distinct
  <2>1. i + k \in 1 .. Len(chan) /\ new[i] = chan[i + k]
    OBVIOUS
  <2>2. CASE new[j] = Closed
    BY <2>2
  <2>3. CASE new[j] # Closed
    <3>1. j + k \in 1 .. Len(chan) /\ new[j] = chan[j + k] /\ i + k # j + k
      BY <2>3, InChannel
    <3> QED
      BY <2>1, <3>1 DEF Distinct
  <2> QED
    BY <2>2, <2>3
<1>3. Ordered(chan) => Ordered(new)
  <2> SUFFICES ASSUME Ordered(chan), NEW i \in 1 .. Len(new), NEW j \in 1 .. Len(new), i < j
               PROVE  InOrder(new[i], new[j])
    BY DEF Ordered
  <2>1. new[i] \in Message /\ new[j] \in Message
    BY InChannel
  <2>2. CASE new[i] = Closed \/ new[j] = Closed
    BY <2>1, <2>2, EndIsInOrder
  <2>3. CASE new[i] # Closed /\ new[j] # Closed
    <3>1. i + k \in 1 .. Len(chan) /\ new[i] = chan[i + k]
      BY <2>3
    <3>2. j + k \in 1 .. Len(chan) /\ new[j] = chan[j + k]
      BY <2>3
    <3>3. i + k < j + k
      BY InChannel
    <3> QED
      BY <3>1, <3>2, <3>3 DEF Ordered
  <2> QED
    BY <2>2, <2>3
<1> QED
  BY <1>1, <1>2, <1>3 DEF Kept

LEMMA TailKeeps ==
  ASSUME NEW chan \in Seq(Message), chan # << >>
  PROVE  /\ Kept(Tail(chan), chan) /\ Tail(chan) \in Seq(Message)
         /\ Head(chan) \in Message /\ ToSet(chan) = { Head(chan) } \cup ToSet(Tail(chan))
         /\ Distinct(chan) /\ Head(chan) # Closed => Head(chan) \notin ToSet(Tail(chan))
         /\ Ordered(chan) => \A n \in ToSet(Tail(chan)) : InOrder(Head(chan), n)
<1>1. /\ Head(chan) = chan[1] /\ Head(chan) \in Message /\ Tail(chan) \in Seq(Message)
      /\ Len(Tail(chan)) = Len(chan) - 1 /\ Len(chan) \in Nat /\ Len(chan) # 0
      /\ \A i \in 1 .. Len(Tail(chan)) : Tail(chan)[i] = chan[i + 1]
  BY HeadTailProperties, EmptySeq, LenProperties
<1>2. \A i \in 1 .. Len(Tail(chan)) : i + 1 \in 1 .. Len(chan) /\ i + 1 # 1 /\ 1 < i + 1
  BY <1>1
<1>3. Kept(Tail(chan), chan)
  BY <1>1, <1>2, PartKeeps
<1>4. \A m \in ToSet(Tail(chan)) : \E i \in 1 .. Len(Tail(chan)) : Tail(chan)[i] = m
  BY <1>1, InChannel
<1>5. 1 \in 1 .. Len(chan)
  BY <1>1
<1>6. \A m \in ToSet(Tail(chan)) : \E i \in 1 .. Len(chan) : i # 1 /\ 1 < i /\ chan[i] = m
  BY <1>1, <1>2, <1>4
<1>7. Distinct(chan) /\ Head(chan) # Closed => Head(chan) \notin ToSet(Tail(chan))
  BY <1>1, <1>5, <1>6 DEF Distinct
<1>8. Ordered(chan) => \A n \in ToSet(Tail(chan)) : InOrder(Head(chan), n)
  BY <1>1, <1>5, <1>6 DEF Ordered
<1> QED
  BY <1>1, <1>3, <1>7, <1>8, SetOfTail

LEMMA AppendKeeps ==
  ASSUME NEW chan \in Seq(Message), NEW m \in Message
  PROVE  /\ Append(chan, m) \in Seq(Message) /\ ToSet(Append(chan, m)) = ToSet(chan) \cup {m}
         /\ Distinct(chan) /\ m \notin ToSet(chan) => Distinct(Append(chan, m))
         /\ Ordered(chan) /\ (\A n \in ToSet(chan) : InOrder(n, m)) => Ordered(Append(chan, m))
<1> DEFINE new == Append(chan, m)
<1>1. /\ new \in Seq(Message) /\ Len(new) = Len(chan) + 1 /\ Len(chan) \in Nat
      /\ new[Len(chan) + 1] = m
      /\ \A i \in 1 .. Len(chan) : new[i] = chan[i]
  BY AppendProperties, LenProperties
<1>2. \A i \in 1 .. Len(new) : i \in 1 .. Len(chan) \/ i = Len(chan) + 1
  BY <1>1
<1>3. \A i \in 1 .. Len(chan) : new[i] = chan[i] /\ chan[i] \in ToSet(chan)
  BY <1>1, InChannel
<1>4. ToSet(new) = ToSet(chan) \cup {m}
  BY SetOfAppend
<1>5. ASSUME Distinct(chan), m \notin ToSet(chan) PROVE Distinct(new)
  BY <1>1, <1>2, <1>3, <1>5 DEF Distinct
<1>6. ASSUME Ordered(chan), \A n \in ToSet(chan) : InOrder(n, m) PROVE Ordered(new)
  <2> SUFFICES ASSUME NEW i \in 1 .. Len(new), NEW j \in 1 .. Len(new), i < j
               PROVE  InOrder(new[i], new[j])
    BY DEF Ordered
  <2>1. i \in 1 .. Len(chan)
    BY <1>1
  <2> QED
    BY <1>1, <1>2, <1>3, <1>6, <2>1 DEF Ordered
<1> QED
  BY <1>1, <1>4, <1>5, <1>6

LEMMA SentKeeps ==
  ASSUME NEW chan, NEW m, NEW up \in BOOLEAN
  PROVE  IF up /\ Closed \notin ToSet(chan)
         THEN Sent(chan, m, up) = Append(chan, m)
         ELSE Sent(chan, m, up) = chan
BY DEF Sent

LEMMA CutKeeps ==
  ASSUME NEW chan \in Seq(Message), NEW up \in BOOLEAN, NEW new \in CutShort(chan, up)
  PROVE  /\ Kept(new, chan)
         /\ ~ up => new = << >>
         /\ up => Closed \in ToSet(new)
<1>1. CASE ~ up
  BY <1>1, NothingKeeps DEF CutShort
<1>2. CASE up /\ Closed \in ToSet(chan)
  BY <1>2, SameKeeps DEF CutShort
<1>3. CASE up /\ Closed \notin ToSet(chan)
  <2>1. PICK n \in 0 .. Len(chan) : new = Append(SubSeq(chan, 1, n), Closed)
    BY <1>3 DEF CutShort
  <2>2. Len(chan) \in Nat /\ \A i \in 1 .. n : chan[i] \in Message
    BY LenProperties, ElementOfSeq
  <2>3. /\ SubSeq(chan, 1, n) \in Seq(Message)
        /\ Len(SubSeq(chan, 1, n)) = IF 1 <= n THEN n - 1 + 1 ELSE 0
        /\ \A i \in 1 .. n - 1 + 1 : SubSeq(chan, 1, n)[i] = chan[1 + i - 1]
    BY <2>2, SubSeqProperties
  <2>4. PICK u \in Seq(Message) : u = SubSeq(chan, 1, n)
    BY <2>3
  <2>5. Len(u) = n /\ \A i \in 1 .. n : u[i] = chan[i]
    BY <2>2, <2>3, <2>4
  <2>6. Closed \in Message
    BY MessageTypes
  <2>7. /\ new \in Seq(Message) /\ Len(new) = n + 1 /\ new[n + 1] = Closed
        /\ \A i \in 1 .. n : new[i] = u[i]
    BY <2>1, <2>4, <2>5, <2>6, AppendProperties
  <2>8. ToSet(new) = ToSet(u) \cup {Closed}
    <3>1. ToSet(Append(u, Closed)) = ToSet(u) \cup {Closed}
      BY <2>6, SetOfAppend
    <3> QED
      BY <2>1, <2>4, <3>1
  <2>9. PICK k \in { 0, 1 } : k = 0
    OBVIOUS
  <2>10. \A i \in 1 .. Len(new) :
           new[i] = Closed \/ (i + k \in 1 .. Len(chan) /\ new[i] = chan[i + k])
    BY <2>2, <2>5, <2>7, <2>9
  <2>11. Kept(new, chan)
    BY <2>7, <2>10, PartKeeps
  <2> QED
    BY <1>3, <2>8, <2>11
<1> QED
  BY <1>1, <1>2, <1>3

LEMMA CarriedIs ==
  ASSUME NEW chan, NEW type, NEW b
  PROVE  b \in Carried(chan, type) <=> \E m \in ToSet(chan) : m.type = type /\ b \in m.blocks
BY DEF Carried
-----------------------------------------------------------------------------
(* The sender's loop.                                                      *)

SenderPcs == { "off", "waiting", "read", "wait", "drain", "done", "complete" }

LEMMA SenderFields ==
  ASSUME NEW snd \in Sender
  PROVE  /\ snd.pc \in SenderPcs /\ snd.cursor \in 1 .. NumBlocks + 1 /\ snd.cursor \in Int
         /\ snd.receipts \subseteq Blocks /\ snd.inFlight \subseteq Blocks
         /\ snd.resumeEnd \in 1 .. NumBlocks + 1 /\ snd.paused \in BOOLEAN
         /\ snd.armed \in BOOLEAN
BY DEF Sender, SenderPcs

LEMMA NewSenderFields ==
  ASSUME NEW pc \in SenderPcs
  PROVE  /\ NewSender(pc) \in Sender /\ NewSender(pc).pc = pc /\ NewSender(pc).cursor = 1
         /\ NewSender(pc).receipts = {} /\ NewSender(pc).inFlight = {}
         /\ NewSender(pc).resumeEnd = 1 /\ NewSender(pc).paused = FALSE
BY DEF NewSender, Sender, SenderPcs

LEMMA NewSenderKeeps ==
  ASSUME NEW pc \in { "off", "waiting", "complete" }
  PROVE  SenderAs(NewSender(pc))
<1>1. Cardinality({}) = 0
  BY FS_EmptySet
<1> QED
  BY <1>1 DEF NewSender, SenderAs

\* run() has dealt with what lies before its cursor, and keeps to the window.
LoopInv(snd) ==
  /\ snd.inFlight \subseteq 1 .. snd.cursor - 1
  /\ 1 .. snd.cursor - 1 \subseteq snd.receipts \cup snd.inFlight
  /\ Cardinality(snd.inFlight) <= Window

\* The sender at another index of run()'s loop.
At(snd, c) == [ snd EXCEPT !.cursor = c, !.armed = FALSE ]

LEMMA AtFields ==
  ASSUME NEW snd \in Sender, NEW c \in 1 .. NumBlocks + 1
  PROVE  /\ At(snd, c) \in Sender /\ At(snd, c).cursor = c /\ ~ At(snd, c).armed
         /\ At(snd, c).receipts = snd.receipts /\ At(snd, c).inFlight = snd.inFlight
         /\ At(snd, c).resumeEnd = snd.resumeEnd /\ At(snd, c).paused = snd.paused
BY DEF At, Sender

\* How Advance leaves the fields it does not name.
LEMMA AtAwait ==
  ASSUME NEW snd \in Sender, NEW c \in 1 .. NumBlocks + 1, NEW pc \in SenderPcs,
         NEW n, n = Wait(At(snd, c), pc) \/ n = [ At(snd, c) EXCEPT !.pc = pc ]
  PROVE  /\ n \in Sender /\ n.pc = pc /\ n.cursor = c
         /\ n.receipts = snd.receipts /\ n.inFlight = snd.inFlight
         /\ n.resumeEnd = snd.resumeEnd /\ n.paused = snd.paused
         /\ n.paused => ~ n.armed
<1>1. PICK x \in Sender :
        /\ x = At(snd, c) /\ x.cursor = c /\ ~ x.armed
        /\ x.receipts = snd.receipts /\ x.inFlight = snd.inFlight
        /\ x.resumeEnd = snd.resumeEnd /\ x.paused = snd.paused
  BY AtFields
<1>2. CASE n = [ x EXCEPT !.pc = pc ]
  <2>1. /\ n \in Sender /\ n.pc = pc /\ n.cursor = c /\ n.armed = x.armed
        /\ n.receipts = snd.receipts /\ n.inFlight = snd.inFlight
        /\ n.resumeEnd = snd.resumeEnd /\ n.paused = snd.paused
    BY <1>1, <1>2 DEF Sender, SenderPcs
  <2> QED
    BY <1>1, <2>1
<1>3. CASE n = Wait(x, pc)
  <2>1. PICK a \in BOOLEAN : a = ~ x.paused
    OBVIOUS
  <2>2. n = [ x EXCEPT !.pc = pc, !.armed = a ]
    BY <1>3, <2>1 DEF Wait
  <2>3. /\ n \in Sender /\ n.pc = pc /\ n.cursor = c /\ n.armed = a
        /\ n.receipts = snd.receipts /\ n.inFlight = snd.inFlight
        /\ n.resumeEnd = snd.resumeEnd /\ n.paused = snd.paused
    BY <1>1, <2>2 DEF Sender, SenderPcs
  <2> QED
    BY <1>1, <2>1, <2>3
<1> QED
  BY <1>1, <1>2, <1>3

LEMMA AdvanceKeeps ==
  ASSUME NEW snd \in Sender, LoopInv(snd)
  PROVE  LET n == Advance(snd)
         IN  /\ n \in Sender /\ SenderAs(n)
             /\ n.pc \in { "read", "wait", "drain", "done" }
             /\ n.receipts = snd.receipts /\ n.inFlight = snd.inFlight
             /\ n.resumeEnd = snd.resumeEnd /\ n.paused = snd.paused
<1> DEFINE n == Advance(snd)
           missing == MissingFrom(snd)
<1> USE SenderFields DEF SenderPcs
<1>1. /\ missing \subseteq Blocks
      /\ \A b \in missing : b >= snd.cursor /\ b \notin snd.receipts
      /\ \A b \in Blocks : b >= snd.cursor /\ b \notin missing => b \in snd.receipts
  BY DEF MissingFrom, Blocks
<1>2. Cardinality(snd.inFlight) \in Nat
  BY BlocksFinite
<1>3. CASE missing # {}
  <2>1. PICK m \in Blocks : m = Min(missing)
    BY <1>1, <1>3, MinOfBlocks
  <2>2. m \in missing /\ \A b \in missing : m <= b
    BY <1>1, <1>3, <2>1, MinOfBlocks
  <2>3. m \in 1 .. NumBlocks + 1 /\ m \in Int
    BY DEF Blocks
  <2>4. PICK pc \in { "read", "wait" } :
          /\ n = Wait(At(snd, m), pc) \/ n = [ At(snd, m) EXCEPT !.pc = pc ]
          /\ pc = "read" => ~ (Cardinality(snd.inFlight) >= Window)
    <3>1. At(snd, m).paused = snd.paused /\ At(snd, m).inFlight = snd.inFlight
      BY <2>3, AtFields
    <3>2. CASE snd.paused \/ Cardinality(snd.inFlight) >= Window
      BY <1>3, <2>1, <3>2 DEF Advance, At
    <3>3. CASE ~ (snd.paused \/ Cardinality(snd.inFlight) >= Window)
      BY <1>3, <2>1, <3>3 DEF Advance, At
    <3> QED
      BY <3>2, <3>3
  <2>5. /\ n \in Sender /\ n.pc = pc /\ n.cursor = m
        /\ n.receipts = snd.receipts /\ n.inFlight = snd.inFlight
        /\ n.resumeEnd = snd.resumeEnd /\ n.paused = snd.paused
        /\ n.paused => ~ n.armed
    <3>1. pc \in SenderPcs
      BY DEF SenderPcs
    <3> HIDE DEF n
    <3> QED
      BY <2>3, <2>4, <3>1, AtAwait
  <2>6. 1 .. m - 1 \subseteq snd.receipts \cup snd.inFlight
    <3> SUFFICES ASSUME NEW b \in 1 .. m - 1 PROVE b \in snd.receipts \cup snd.inFlight
      OBVIOUS
    <3>1. CASE b < snd.cursor
      BY <2>3, <3>1 DEF LoopInv
    <3>2. CASE b >= snd.cursor
      BY <1>1, <2>2, <2>3, <3>2 DEF Blocks
    <3> QED
      BY <2>3, <3>1, <3>2
  <2>7. snd.inFlight \subseteq 1 .. m - 1
    BY <1>1, <2>2, <2>3 DEF LoopInv
  <2>8. SenderAs(n)
    <3> HIDE DEF n, missing
    <3>1. n.inFlight \subseteq 1 .. n.cursor - 1
      BY <2>5, <2>7
    <3>2. 1 .. n.cursor - 1 \subseteq n.receipts \cup n.inFlight
      BY <2>5, <2>6
    <3>3. Cardinality(n.inFlight) <= Window
      BY <2>5 DEF LoopInv
    <3>4. n.pc = "read" => n.cursor \in Blocks \ n.receipts /\ Cardinality(n.inFlight) < Window
      BY <1>1, <1>2, <2>2, <2>4, <2>5
    <3>5. n.pc # "done" /\ (n.paused => ~ n.armed)
      BY <2>5
    <3> QED
      BY <3>1, <3>2, <3>3, <3>4, <3>5 DEF SenderAs
  <2> QED
    BY <2>4, <2>5, <2>8
<1>4. CASE missing = {}
  <2>1. PICK c \in 1 .. NumBlocks + 1 : c = NumBlocks + 1
    OBVIOUS
  <2>2. PICK pc \in { "drain", "done" } :
          /\ n = Wait(At(snd, c), pc) \/ n = [ At(snd, c) EXCEPT !.pc = pc ]
          /\ pc = "done" => snd.inFlight = {}
    BY <1>4, <2>1 DEF Advance, At
  <2>3. /\ n \in Sender /\ n.pc = pc /\ n.cursor = c
        /\ n.receipts = snd.receipts /\ n.inFlight = snd.inFlight
        /\ n.resumeEnd = snd.resumeEnd /\ n.paused = snd.paused
        /\ n.paused => ~ n.armed
    <3>1. pc \in SenderPcs
      BY DEF SenderPcs
    <3> HIDE DEF n
    <3> QED
      BY <2>2, <3>1, AtAwait
  <2>4. 1 .. c - 1 \subseteq snd.receipts \cup snd.inFlight
    BY <1>1, <1>4, <2>1 DEF LoopInv, Blocks
  <2>5. snd.inFlight \subseteq 1 .. c - 1
    BY <2>1 DEF Blocks
  <2>6. SenderAs(n)
    <3> HIDE DEF n, missing
    <3>1. n.inFlight \subseteq 1 .. n.cursor - 1
      BY <2>3, <2>5
    <3>2. 1 .. n.cursor - 1 \subseteq n.receipts \cup n.inFlight
      BY <2>3, <2>4
    <3>3. Cardinality(n.inFlight) <= Window
      BY <2>3 DEF LoopInv
    <3>4. n.pc # "read" /\ (n.pc = "done" => n.cursor = NumBlocks + 1 /\ n.inFlight = {})
      BY <2>1, <2>2, <2>3
    <3>5. n.paused => ~ n.armed
      BY <2>3
    <3> QED
      BY <3>1, <3>2, <3>3, <3>4, <3>5 DEF SenderAs
  <2> QED
    BY <2>2, <2>3, <2>6
<1> QED
  BY <1>3, <1>4
-----------------------------------------------------------------------------
(* Facts the steps share.                                                  *)

LEMMA KeptCarries ==
  ASSUME NEW chan, NEW new, Kept(new, chan), NEW type, type # "closed"
  PROVE  Carried(new, type) \subseteq Carried(chan, type)
<1> SUFFICES ASSUME NEW b \in Carried(new, type) PROVE b \in Carried(chan, type)
  OBVIOUS
<1>1. PICK m \in ToSet(new) : m.type = type /\ b \in m.blocks
  BY CarriedIs
<1>2. m # Closed
  BY <1>1, MessageTypes
<1>3. m \in ToSet(chan)
  BY <1>2 DEF Kept
<1> QED
  BY <1>1, <1>3, CarriedIs

LEMMA CarriedType ==
  ASSUME NEW chan \in Seq(Message), NEW type
  PROVE  Carried(chan, type) \subseteq Blocks
<1> SUFFICES ASSUME NEW b \in Carried(chan, type) PROVE b \in Blocks
  OBVIOUS
<1>1. PICK m \in ToSet(chan) : b \in m.blocks
  BY CarriedIs
<1>2. m \in Message
  BY InChannel
<1> QED
  BY <1>1, <1>2 DEF Message

LEMMA NothingCarried ==
  ASSUME NEW type
  PROVE  Carried(<< >>, type) = {}
BY SetOfEmpty DEF Carried

LEMMA QueuedIsLine ==
  ASSUME TypeOK
  PROVE  /\ q \in Queue(Blocks) /\ Line(q) \in Seq(Blocks)
         /\ ToSet(Line(q)) = Queued /\ Queued \subseteq Blocks
         /\ Line(q) = << >> => Queued = {} /\ ~ Active(q) /\ q.pending = << >>
<1>1. q \in Queue(Blocks)
  BY DEF TypeOK
<1>2. Line(q) \in Seq(Blocks) /\ ToSet(Line(q)) = Queued
  BY <1>1, QueueFields DEF Queued
<1> QED
  BY <1>1, <1>2, SetOfType, EmptyLine

LEMMA WireTypes ==
  ASSUME TypeOK
  PROVE  DataOnWire \subseteq Blocks /\ AcksOnWire \subseteq Blocks /\ Queued \subseteq Blocks
<1>1. toR \in Seq(Message) /\ toS \in Seq(Message)
  BY DEF TypeOK
<1> QED
  BY <1>1, CarriedType, QueuedIsLine DEF DataOnWire, AcksOnWire

LEMMA FailsCounted ==
  ASSUME TypeOK, Fails
  PROVE  failures' \in 0 .. MaxFailures
BY DEF TypeOK, Fails

LEMMA UpIsBoolean == SenderUp \in BOOLEAN /\ ReceiverUp \in BOOLEAN
BY DEF SenderUp, ReceiverUp

\* The queue and what depends on it are left alone.
LEMMA QueueAlone ==
  ASSUME QueueInv, UNCHANGED << rPc, q, stored, handle >>, disk'.durable = disk.durable
  PROVE  QueueInv'
<1>1. /\ Line(q)' = Line(q) /\ ReceiverUp' = ReceiverUp /\ Active(q)' = Active(q)
      /\ ToSet(q.batch)' = ToSet(q.batch)
  BY DEF Line, ReceiverUp, Active
<1> QED
  BY <1>1 DEF QueueInv

\* What QueueInv says of the queue itself.
LEMMA QueueItself ==
  ASSUME QueueInv, UNCHANGED << q, stored, disk >>
  PROVE  /\ q'.retained = Len(q'.pending) + Len(q'.batch)
         /\ \A i, j \in 1 .. Len(Line(q')) : i # j => Line(q')[i] # Line(q')[j]
         /\ stored' => Active(q') /\ ToSet(q'.batch) \subseteq disk'.durable
         /\ q'.completing /\ ~ q'.stopped /\ ~ Active(q') => q'.pending = << >>
         /\ Line(q') = Line(q)
BY DEF QueueInv, Line, Active

LEMMA QueuedAlone ==
  ASSUME q' = q
  PROVE  Queued' = Queued
BY DEF Queued

\* The sender is gone: its peer finds some of what it had sent, and the end.
LEMMA SenderGone ==
  ASSUME TransferInv, NEW pc \in { "off", "complete" }, SenderEnds(pc),
         pc = "complete" => verified, failures' \in 0 .. MaxFailures,
         UNCHANGED << rPc, report, q, stored, disk, handle, verified, fault >>
  PROVE  TransferInv'
<1>1. /\ s' = NewSender(pc) /\ s' \in Sender /\ s'.pc = pc
      /\ s'.resumeEnd = 1 /\ toS' = << >> /\ SenderAs(s')
  BY NewSenderFields, NewSenderKeeps DEF SenderEnds, SenderPcs
<1>2. /\ Kept(toR', toR) /\ (~ ReceiverUp => toR' = << >>)
  BY CutKeeps, UpIsBoolean DEF SenderEnds, TransferInv, TypeOK
<1>3. ~ SenderUp'
  BY <1>1 DEF SenderUp, Sending
<1>4. Queued' = Queued /\ (ReceiverUp' <=> ReceiverUp)
  BY QueuedAlone DEF ReceiverUp
<1>5. TypeOK'
  BY <1>1, <1>2, EmptySeq DEF TransferInv, TypeOK, Kept
<1>6. ChannelInv'
  <2>1. \A m \in ToSet(toR') : ForReceiver(m)'
    <3> SUFFICES ASSUME NEW m \in ToSet(toR') PROVE ForReceiver(m)'
      OBVIOUS
    <3>1. CASE m = Closed
      BY <3>1 DEF ForReceiver
    <3>2. CASE m # Closed
      <4>1. ForReceiver(m)
        BY <1>2, <3>2 DEF Kept, TransferInv, ChannelInv
      <4> QED
        BY <1>3, <1>4, <4>1 DEF ForReceiver
    <3> QED
      BY <3>1, <3>2
  <2>2. Distinct(toR')
    BY <1>2 DEF TransferInv, ChannelInv, Kept
  <2>3. ToSet(toS') = {} /\ Ordered(toS')
    BY <1>1, SetOfEmpty, EmptySeq DEF Ordered
  <2> QED
    BY <1>1, <1>2, <1>3, <1>4, <2>1, <2>2, <2>3 DEF ChannelInv, Both
<1>7. SenderInv'
  BY <1>1 DEF SenderInv
<1>8. QueueInv'
  BY QueueAlone DEF TransferInv
<1>9. ReportInv'
  <2>1. Carried(toS', "resume-ranges") = {}
    BY <1>1, NothingCarried
  <2>2. \A b \in report : 1 <= b
    BY DEF TransferInv, TypeOK, Blocks
  <2> QED
    BY <1>1, <2>1, <2>2 DEF TransferInv, ReportInv
<1>10. AgreeInv'
  <2>1. DataOnWire' \subseteq DataOnWire
    BY <1>2, KeptCarries DEF DataOnWire
  <2>2. Cardinality(DataOnWire' \cup Queued') <= Cardinality(DataOnWire \cup Queued)
    BY <1>4, <2>1, WireTypes, SmallerSet DEF TransferInv
  <2>3. /\ DataOnWire' \cup Queued' \subseteq Blocks /\ DataOnWire \cup Queued \subseteq Blocks
    BY <1>4, <2>1, WireTypes DEF TransferInv
  <2>4. /\ Cardinality(DataOnWire' \cup Queued') \in Nat
        /\ Cardinality(DataOnWire \cup Queued) \in Nat
    BY <2>3, BlocksFinite
  <2>5. ReceiverUp' => Cardinality(DataOnWire' \cup Queued') <= Window
    BY <1>4, <2>2, <2>4 DEF TransferInv, AgreeInv
  <2> QED
    BY <1>3, <2>5 DEF TransferInv, AgreeInv, Both
<1> QED
  BY <1>5, <1>6, <1>7, <1>8, <1>9, <1>10 DEF TransferInv
\* The line of the receive queue: nothing twice, taken apart and added to.
NoneTwice(u) == \A i, j \in 1 .. Len(u) : i # j => u[i] # u[j]

LEMMA PartsOfLine ==
  ASSUME NEW u \in Seq(Blocks), NEW v \in Seq(Blocks), NoneTwice(u \o v)
  PROVE  NoneTwice(u) /\ NoneTwice(v) /\ ToSet(u) \cap ToSet(v) = {}
<1>1. /\ Len(u) \in Nat /\ Len(v) \in Nat /\ Len(u \o v) = Len(u) + Len(v)
      /\ \A i \in 1 .. Len(u) + Len(v) :
           (u \o v)[i] = IF i <= Len(u) THEN u[i] ELSE v[i - Len(u)]
  BY LenProperties, ConcatProperties
<1>2. \A i \in 1 .. Len(u) : i \in 1 .. Len(u \o v) /\ (u \o v)[i] = u[i]
  BY <1>1
<1>3. \A i \in 1 .. Len(v) : /\ i + Len(u) \in 1 .. Len(u \o v) /\ (u \o v)[i + Len(u)] = v[i]
                             /\ i + Len(u) \notin 1 .. Len(u)
  BY <1>1
<1>4. NoneTwice(u)
  BY <1>2 DEF NoneTwice
<1>5. NoneTwice(v)
  <2> SUFFICES ASSUME NEW i \in 1 .. Len(v), NEW j \in 1 .. Len(v), i # j PROVE v[i] # v[j]
    BY DEF NoneTwice
  <2>1. i + Len(u) # j + Len(u)
    BY <1>1
  <2> QED
    BY <1>3, <2>1 DEF NoneTwice
<1>6. ToSet(u) \cap ToSet(v) = {}
  <2> SUFFICES ASSUME NEW i \in 1 .. Len(u), NEW j \in 1 .. Len(v) PROVE u[i] # v[j]
    BY DEF ToSet
  <2> QED
    BY <1>2, <1>3 DEF NoneTwice
<1> QED
  BY <1>4, <1>5, <1>6

LEMMA LineWithOneMore ==
  ASSUME NEW u \in Seq(Blocks), NEW b \in Blocks, NoneTwice(u), b \notin ToSet(u)
  PROVE  NoneTwice(Append(u, b))
<1>1. /\ Len(u) \in Nat /\ Len(Append(u, b)) = Len(u) + 1 /\ Append(u, b)[Len(u) + 1] = b
      /\ \A i \in 1 .. Len(u) : Append(u, b)[i] = u[i]
  BY LenProperties, AppendProperties
<1>2. \A i \in 1 .. Len(u) : u[i] \in ToSet(u)
  BY DEF ToSet
<1>3. \A i \in 1 .. Len(u) + 1 : i \in 1 .. Len(u) \/ i = Len(u) + 1
  BY <1>1
<1> QED
  BY <1>1, <1>2, <1>3 DEF NoneTwice

\* The invariant of the queue in the phase of the receiver.
LEMMA QueueFacts ==
  ASSUME TransferInv
  PROVE  /\ q \in Queue(Blocks) /\ q.pending \in Seq(Blocks) /\ q.batch \in Seq(Blocks)
         /\ q.retained = Len(q.pending) + Len(q.batch)
         /\ NoneTwice(Line(q)) /\ NoneTwice(q.pending) /\ NoneTwice(q.batch)
         /\ ToSet(q.batch) \cap ToSet(q.pending) = {}
         /\ Queued = ToSet(q.batch) \cup ToSet(q.pending)
<1>1. q \in Queue(Blocks) /\ q.pending \in Seq(Blocks) /\ q.batch \in Seq(Blocks)
  BY QueueFields DEF TransferInv, TypeOK
<1>2. NoneTwice(Line(q)) /\ q.retained = Len(q.pending) + Len(q.batch)
  BY DEF TransferInv, QueueInv, NoneTwice
<1>3. NoneTwice(q.batch \o q.pending)
  BY <1>2 DEF Line
<1> QED
  BY <1>1, <1>2, <1>3, PartsOfLine DEF Queued

\* The queue is stopped with the connection.
LEMMA QueueStopped ==
  ASSUME TransferInv, rPc' = "failed", q' = StopQueue(q), stored' = stored,
         stored => disk.durable \subseteq disk'.durable,
         handle' = handle \/ Line(q) = << >>
  PROVE  QueueInv' /\ q' \in Queue(Blocks)
<1>1. /\ StopQueue(q) \in Queue(Blocks) /\ StopQueue(q).batch = q.batch
      /\ StopQueue(q).pending = << >> /\ Line(StopQueue(q)) = q.batch
      /\ StopQueue(q).retained = Len(q.batch) /\ StopQueue(q).stopped
  BY QueueFacts, StopKeeps
<1>2. Len(<< >>) + Len(q.batch) = Len(q.batch)
  BY QueueFacts, LenProperties, EmptySeq
<1>3. \A i, j \in 1 .. Len(q.batch) : i # j => q.batch[i] # q.batch[j]
  BY QueueFacts DEF NoneTwice
<1>4. handle' # "open" => q.batch = << >>
  BY QueueFacts, EmptyLine DEF TransferInv, QueueInv, Active
<1> QED
  BY <1>1, <1>2, <1>3, <1>4 DEF QueueInv, TransferInv, ReceiverUp, Active

\* A commit has failed.
LEMMA QueueBroken ==
  ASSUME TransferInv, rPc' = "failed" \/ (rPc' = rPc /\ ~ ReceiverUp), q' = Broken(q),
         stored' = FALSE, handle' = handle
  PROVE  QueueInv' /\ q' \in Queue(Blocks)
<1>1. /\ Broken(q) \in Queue(Blocks) /\ Broken(q).batch = << >> /\ Broken(q).pending = << >>
      /\ Line(Broken(q)) = << >> /\ Broken(q).retained = 0 /\ Broken(q).stopped
  BY QueueFacts, BrokenKeeps
<1>2. Len(<< >>) = 0
  BY EmptySeq
<1> QED
  BY <1>1, <1>2 DEF QueueInv, TransferInv, ReceiverUp, Active

\* What is left for the sender of a receiver that is gone.
LEMMA LeftForSender ==
  ASSUME TransferInv, Kept(toS', toS), ~ SenderUp => toS' = << >>, s' = s, verified' = verified,
         rPc' \in { "off", "failed", "complete" }
  PROVE  toS' \in Seq(Message) /\ Ordered(toS') /\ \A m \in ToSet(toS') : ForSender(m)'
<1>1. ~ ReceiverUp'
  BY DEF ReceiverUp
<1>2. ASSUME NEW m \in ToSet(toS') PROVE ForSender(m)'
  <2>1. CASE m = Closed
    BY <2>1 DEF ForSender
  <2>2. CASE m # Closed
    <3>1. ForSender(m)
      BY <1>2, <2>2 DEF Kept, TransferInv, ChannelInv
    <3> QED
      BY <1>1, <3>1 DEF ForSender, Opening
  <2> QED
    BY <2>1, <2>2
<1> QED
  BY <1>2 DEF Kept, TransferInv, ChannelInv

\* The receiver is gone, or stays away.
LEMMA ReceiverGone ==
  ASSUME TransferInv, rPc' \in { "off", "failed", "complete" }, report' = {}, toR' = << >>,
         UNCHANGED << s, fault >>,
         toS' \in Seq(Message) /\ Ordered(toS') /\ \A m \in ToSet(toS') : ForSender(m)',
         ~ SenderUp => toS' = << >>, verified => verified',
         QueueInv', q' \in Queue(Blocks), stored' \in BOOLEAN,
         disk' \in [ durable : SUBSET Blocks, bad : SUBSET Blocks ],
         handle' \in { "closed", "opening", "open" }, verified' \in BOOLEAN,
         failures' \in 0 .. MaxFailures
  PROVE  TransferInv'
<1>1. ~ ReceiverUp' /\ (SenderUp' <=> SenderUp)
  BY DEF ReceiverUp, SenderUp, Sending
<1>2. TypeOK'
  BY EmptySeq DEF TransferInv, TypeOK, ReceiverPhases
<1>3. ChannelInv'
  <2>1. ToSet(toR') = {} /\ Distinct(toR')
    BY SetOfEmpty, EmptySeq DEF Distinct
  <2> QED
    BY <1>1, <2>1 DEF ChannelInv, Both
<1>4. SenderInv'
  BY DEF TransferInv, SenderInv
<1>5. ReportInv'
  BY DEF ReportInv
<1>6. AgreeInv'
  BY <1>1 DEF AgreeInv, Both
<1> QED
  BY <1>2, <1>3, <1>4, <1>5, <1>6 DEF TransferInv
-----------------------------------------------------------------------------
(* Steps that begin or end a connection, or touch none.                    *)

LEMMA ConnectKeeps ==
  ASSUME TransferInv, Connect
  PROVE  TransferInv'
<1> DEFINE manifest == Msg("manifest", {})
<1>1. /\ s' = NewSender("waiting") /\ rPc = "off" /\ rPc' = "paired" /\ toR' = << manifest >>
      /\ toS' = << >> /\ q' = NewQueue /\ verified' = FALSE
      /\ UNCHANGED << report, stored, disk, handle, fault, failures >>
  BY DEF Connect
<1>2. /\ s' \in Sender /\ s'.pc = "waiting" /\ s'.resumeEnd = 1 /\ s'.receipts = {}
      /\ s'.inFlight = {} /\ SenderAs(s')
  BY <1>1, NewSenderFields, NewSenderKeeps DEF SenderPcs
<1>3. manifest \in Message /\ manifest.type = "manifest" /\ manifest.blocks = {}
  BY MessageTypes
<1>4. toR' \in Seq(Message) /\ ToSet(toR') = { manifest } /\ Len(toR') = 1
  <2>1. PICK m \in Message : m = manifest
    BY <1>3
  <2>2. << m >> \in Seq(Message) /\ Len(<< m >>) = 1 /\ ToSet(<< m >>) = { m }
    BY DEF ToSet
  <2> QED
    BY <1>1, <2>1, <2>2
<1>5. /\ q' \in Queue(Blocks) /\ q'.pending = << >> /\ q'.batch = << >> /\ q'.retained = 0
      /\ ~ q'.stopped /\ ~ q'.completing /\ ~ Active(q') /\ Line(q') = << >>
  <2>1. q' \in Queue(Blocks)
    BY <1>1, EmptySeq DEF NewQueue, Queue
  <2>2. /\ q'.pending = << >> /\ q'.batch = << >> /\ q'.retained = 0
        /\ ~ q'.stopped /\ ~ q'.completing /\ ~ Active(q')
    BY <1>1 DEF NewQueue, Active
  <2> QED
    BY <2>1, <2>2, EmptyLine
<1>6. ~ stored /\ handle = "closed" /\ report = {}
  BY <1>1, EmptyLine, QueueFacts DEF TransferInv, QueueInv, ReportInv
<1>7. TypeOK'
  BY <1>1, <1>2, <1>4, <1>5, EmptySeq DEF TransferInv, TypeOK, ReceiverPhases
<1>8. Queued' = {}
  BY <1>5, SetOfEmpty DEF Queued
<1>9. ChannelInv'
  <2>1. \A m \in ToSet(toR') : ForReceiver(m)'
    BY <1>1, <1>4 DEF ForReceiver
  <2>2. ToSet(toS') = {} /\ Ordered(toS')
    BY <1>1, SetOfEmpty, EmptySeq DEF Ordered
  <2>3. Distinct(toR')
    BY <1>4 DEF Distinct
  <2>4. Closed \notin ToSet(toR')
    BY <1>3, <1>4, MessageTypes
  <2> QED
    BY <1>1, <1>2, <2>1, <2>2, <2>3, <2>4 DEF ChannelInv, ReceiverUp, SenderUp
<1>10. SenderInv'
  BY <1>2 DEF SenderInv
<1>11. QueueInv'
  <2>1. Len(<< >>) = 0
    BY EmptySeq
  <2> QED
    BY <1>1, <1>5, <1>6, <2>1 DEF QueueInv, ReceiverUp
<1>12. ReportInv'
  BY <1>1, <1>2, <1>6 DEF ReportInv
<1>13. AgreeInv'
  <2>1. DataOnWire' = {}
    <3>1. \A m \in ToSet(toR') : m.type # "data"
      BY <1>3, <1>4
    <3> QED
      BY <3>1 DEF DataOnWire, Carried
  <2>2. Cardinality(DataOnWire' \cup Queued') = 0
    BY <1>8, <2>1, FS_EmptySet
  <2> QED
    BY <1>1, <1>2, <1>8, <2>2 DEF AgreeInv, Opening
<1> QED
  BY <1>1, <1>7, <1>9, <1>10, <1>11, <1>12, <1>13 DEF TransferInv

LEMMA ConnectionLostKeeps ==
  ASSUME TransferInv, ConnectionLost
  PROVE  TransferInv'
<1>1. /\ Both /\ UNCHANGED << s, rPc, report, q, stored, disk, handle, verified, fault >>
      /\ failures' \in 0 .. MaxFailures
  BY FailsCounted DEF ConnectionLost, receiver, store, Both, TransferInv
<1>2. /\ Kept(toR', toR) /\ Closed \in ToSet(toR')
      /\ Kept(toS', toS) /\ Closed \in ToSet(toS')
  BY CutKeeps DEF ConnectionLost, TransferInv, TypeOK
<1>3. Both' /\ SenderUp' /\ ReceiverUp' /\ SenderUp /\ ReceiverUp /\ Queued' = Queued
  BY <1>1, QueuedAlone DEF Both, SenderUp, ReceiverUp, Sending
<1>4. TypeOK'
  BY <1>1, <1>2 DEF TransferInv, TypeOK, Kept
<1>5. ChannelInv'
  <2>1. ASSUME NEW m \in ToSet(toR') PROVE ForReceiver(m)'
    <3>1. m = Closed \/ ForReceiver(m)
      BY <1>2 DEF Kept, TransferInv, ChannelInv
    <3> QED
      BY <1>1, <1>3, <3>1 DEF ForReceiver
  <2>2. ASSUME NEW m \in ToSet(toS') PROVE ForSender(m)'
    <3>1. m = Closed \/ ForSender(m)
      BY <1>2 DEF Kept, TransferInv, ChannelInv
    <3> QED
      BY <1>1, <1>3, <3>1 DEF ForSender, Opening
  <2> QED
    BY <1>2, <1>3, <2>1, <2>2 DEF ChannelInv, Kept, TransferInv
<1>6. SenderInv' /\ QueueInv'
  BY <1>1, QueueAlone DEF TransferInv, SenderInv
<1>7. Carried(toS', "resume-ranges") \subseteq Carried(toS, "resume-ranges")
  BY <1>2, KeptCarries
<1>8. ReportInv'
  BY <1>1, <1>7 DEF ReportInv, TransferInv
<1>9. AgreeInv'
  <2>1. DataOnWire' \subseteq DataOnWire
    BY <1>2, KeptCarries DEF DataOnWire
  <2>2. /\ DataOnWire' \cup Queued' \subseteq Blocks /\ DataOnWire \cup Queued \subseteq Blocks
    BY <1>3, <2>1, WireTypes DEF TransferInv
  <2>3. /\ Cardinality(DataOnWire' \cup Queued') \in Nat
        /\ Cardinality(DataOnWire \cup Queued) \in Nat
        /\ Cardinality(DataOnWire' \cup Queued') <= Cardinality(DataOnWire \cup Queued)
    BY <1>3, <2>1, <2>2, BlocksFinite, SmallerSet
  <2>4. Cardinality(DataOnWire' \cup Queued') <= Window
    BY <1>3, <2>3 DEF TransferInv, AgreeInv
  <2>5. ~ Open'
    BY <1>2 DEF Open
  <2> QED
    BY <1>1, <1>3, <2>4, <2>5 DEF TransferInv, AgreeInv
<1> QED
  BY <1>1, <1>4, <1>5, <1>6, <1>8, <1>9 DEF TransferInv

\* SenderStops, SilentTimeout, SenderClosed and a ReceiverComplete in time.
LEMMA SenderEndsKeeps ==
  ASSUME TransferInv, SenderStops \/ SilentTimeout \/ SenderClosed
  PROVE  TransferInv'
<1>1. failures' \in 0 .. MaxFailures
  BY FailsCounted DEF SenderStops, SilentTimeout, SenderClosed, TransferInv, TypeOK
<1>2. /\ SenderEnds("off")
      /\ UNCHANGED << rPc, report, q, stored, disk, handle, verified, fault >>
  BY DEF SenderStops, SilentTimeout, SenderClosed, receiver, store
<1> QED
  BY <1>1, <1>2, SenderGone

LEMMA HeadOfS ==
  ASSUME TransferInv, toS # << >>
  PROVE  /\ SenderUp /\ ForSender(Head(toS)) /\ Head(toS) \in Message
         /\ Kept(Tail(toS), toS) /\ Tail(toS) \in Seq(Message)
         /\ ToSet(toS) = { Head(toS) } \cup ToSet(Tail(toS))
         /\ \A n \in ToSet(Tail(toS)) : InOrder(Head(toS), n) /\ ForSender(n) /\ n \in Message
<1>1. toS \in Seq(Message)
  BY DEF TransferInv, TypeOK
<1>2. SenderUp /\ Ordered(toS) /\ \A m \in ToSet(toS) : ForSender(m)
  BY DEF TransferInv, ChannelInv
<1> QED
  BY <1>1, <1>2, TailKeeps, InChannel

LEMMA HeadOfR ==
  ASSUME TransferInv, toR # << >>
  PROVE  /\ ReceiverUp /\ ForReceiver(Head(toR)) /\ Head(toR) \in Message
         /\ Kept(Tail(toR), toR) /\ Tail(toR) \in Seq(Message)
         /\ ToSet(toR) = { Head(toR) } \cup ToSet(Tail(toR))
         /\ Head(toR) # Closed => Head(toR) \notin ToSet(Tail(toR))
         /\ \A n \in ToSet(Tail(toR)) : ForReceiver(n) /\ n \in Message
<1>1. toR \in Seq(Message)
  BY DEF TransferInv, TypeOK
<1>2. ReceiverUp /\ Distinct(toR) /\ \A m \in ToSet(toR) : ForReceiver(m)
  BY DEF TransferInv, ChannelInv
<1> QED
  BY <1>1, <1>2, TailKeeps, InChannel

LEMMA ReceiverCompleteKeeps ==
  ASSUME TransferInv, ReceiverComplete
  PROVE  TransferInv'
<1>1. s.pc = "done" /\ verified
  BY HeadOfS, MessageTypes DEF ReceiverComplete, GetS, ForSender, Msg
<1>2. /\ SenderEnds("complete")
      /\ UNCHANGED << rPc, report, q, stored, disk, handle, verified, fault, failures >>
  BY <1>1 DEF ReceiverComplete, receiver, store
<1> QED
  BY <1>1, <1>2, SenderGone DEF TransferInv, TypeOK
\* The connection is terminated by the receiver, with its queue stopped.
LEMMA ReceiverStopped ==
  ASSUME TransferInv, ReceiverEnds("failed", StopQueue(q)),
         UNCHANGED << s, stored, verified, fault >>, failures' \in 0 .. MaxFailures,
         disk' = disk \/ (disk' = [ durable |-> {}, bad |-> {} ] /\ Line(q) = << >>),
         handle' = handle \/ (handle' = "closed" /\ Line(q) = << >>)
  PROVE  TransferInv'
<1>1. /\ rPc' = "failed" /\ report' = {} /\ q' = StopQueue(q) /\ toR' = << >>
      /\ toS' \in CutShort(toS, SenderUp)
  BY DEF ReceiverEnds
<1>2. Kept(toS', toS) /\ (~ SenderUp => toS' = << >>)
  BY <1>1, CutKeeps, UpIsBoolean DEF TransferInv, TypeOK
<1>3. toS' \in Seq(Message) /\ Ordered(toS') /\ \A m \in ToSet(toS') : ForSender(m)'
  BY <1>1, <1>2, LeftForSender
<1>4. disk' \in [ durable : SUBSET Blocks, bad : SUBSET Blocks ]
  BY DEF TransferInv, TypeOK
<1>5. stored => disk.durable \subseteq disk'.durable
  <2>1. Line(q) = << >> => ~ stored
    BY QueueFacts, EmptyLine DEF TransferInv, QueueInv
  <2> QED
    BY <2>1
<1>6. QueueInv' /\ q' \in Queue(Blocks)
  BY <1>1, <1>5, QueueStopped
<1>7. /\ stored' \in BOOLEAN /\ verified' \in BOOLEAN
      /\ handle' \in { "closed", "opening", "open" }
  BY DEF TransferInv, TypeOK
<1> QED
  BY <1>1, <1>2, <1>3, <1>4, <1>6, <1>7, ReceiverGone

LEMMA ReceiverEndsKeeps ==
  ASSUME TransferInv, ReceiverStops \/ ReceiverClosed \/ VerifyMismatch \/ VerifyMismatchStays
  PROVE  TransferInv'
<1>1. failures' \in 0 .. MaxFailures
  BY FailsCounted
    DEF ReceiverStops, ReceiverClosed, VerifyMismatch, VerifyMismatchStays, TransferInv, TypeOK
<1>2. /\ ReceiverEnds("failed", StopQueue(q)) /\ UNCHANGED << s, stored, verified, fault >>
      /\ \/ disk' = disk /\ handle' = handle
         \/ rPc = "verifying" /\ disk' = [ durable |-> {}, bad |-> {} ] /\ handle' = "closed"
  BY DEF ReceiverStops, ReceiverClosed, VerifyMismatch, VerifyMismatchStays
<1>3. rPc = "verifying" => Line(q) = << >>
  BY DEF TransferInv, QueueInv
<1> QED
  BY <1>1, <1>2, <1>3, ReceiverStopped

LEMMA ReceiverDiesKeeps ==
  ASSUME TransferInv, ReceiverDies
  PROVE  TransferInv'
<1>1. /\ rPc' = "off" /\ report' = {} /\ q' = NewQueue /\ toR' = << >>
      /\ toS' \in CutShort(toS, SenderUp) /\ stored' = FALSE /\ handle' = "closed"
      /\ UNCHANGED << s, verified, fault >> /\ failures' \in 0 .. MaxFailures
  BY FailsCounted DEF ReceiverDies, ReceiverEnds, TransferInv
<1>2. Kept(toS', toS) /\ (~ SenderUp => toS' = << >>)
  BY <1>1, CutKeeps, UpIsBoolean DEF TransferInv, TypeOK
<1>3. toS' \in Seq(Message) /\ Ordered(toS') /\ \A m \in ToSet(toS') : ForSender(m)'
  BY <1>1, <1>2, LeftForSender
<1>4. disk' \in [ durable : SUBSET Blocks, bad : SUBSET Blocks ]
  <2>1. PICK n \in 0 .. Len(q.batch) :
          disk' = [ disk EXCEPT !.durable = @ \cup ToSet(SubSeq(q.batch, 1, n)) ]
    BY DEF ReceiverDies
  <2>2. q.batch \in Seq(Blocks) /\ Len(q.batch) \in Nat
    BY QueueFacts, LenProperties
  <2>3. \A i \in 1 .. n : q.batch[i] \in Blocks
    BY <2>2, ElementOfSeq
  <2>4. SubSeq(q.batch, 1, n) \in Seq(Blocks)
    BY <2>2, <2>3, SubSeqProperties
  <2>5. PICK D \in SUBSET Blocks : D = ToSet(SubSeq(q.batch, 1, n))
    <3>1. PICK u \in Seq(Blocks) : u = SubSeq(q.batch, 1, n)
      BY <2>4
    <3>2. ToSet(u) \subseteq Blocks
      BY SetOfType
    <3> QED
      BY <3>1, <3>2
  <2>6. PICK d \in [ durable : SUBSET Blocks, bad : SUBSET Blocks ] : d = disk
    BY DEF TransferInv, TypeOK
  <2>7. disk' = [ d EXCEPT !.durable = @ \cup D ]
    BY <2>1, <2>5, <2>6, Zenon
  <2> QED
    BY <2>7
<1>5. /\ q' \in Queue(Blocks) /\ q'.pending = << >> /\ q'.batch = << >> /\ q'.retained = 0
      /\ ~ Active(q') /\ Line(q') = << >>
  <2>1. q' \in Queue(Blocks)
    BY <1>1, EmptySeq DEF NewQueue, Queue
  <2>2. q'.pending = << >> /\ q'.batch = << >> /\ q'.retained = 0 /\ ~ Active(q')
    BY <1>1 DEF NewQueue, Active
  <2> QED
    BY <2>1, <2>2, EmptyLine
<1>6. QueueInv'
  <2>1. Len(<< >>) = 0
    BY EmptySeq
  <2> QED
    BY <1>1, <1>5, <2>1 DEF QueueInv, ReceiverUp
<1>7. verified' \in BOOLEAN
  BY <1>1 DEF TransferInv, TypeOK
<1> QED
  BY <1>1, <1>2, <1>3, <1>4, <1>5, <1>6, <1>7, ReceiverGone

\* VerifyOk finds every block, and its last message fits the sender.
LEMMA VerifyOkKeeps ==
  ASSUME TransferInv, VerifyOk
  PROVE  TransferInv'
<1> DEFINE last == Msg("receiver-complete", {})
           sent == Sent(toS, last, SenderUp)
<1>1. /\ rPc = "verifying" /\ rPc' = "complete" /\ verified' = TRUE /\ toR' = << >>
      /\ toS' \in CutShort(sent, SenderUp)
      /\ UNCHANGED << s, report, q, stored, disk, handle, fault, failures >>
  BY DEF VerifyOk, TransferInv, AgreeInv, store
<1>2. SenderUp => s.pc = "done"
  BY <1>1 DEF TransferInv, AgreeInv, Both, ReceiverUp
<1>3. last \in Message /\ last.type = "receiver-complete"
  BY MessageTypes
<1>4. toS \in Seq(Message) /\ Ordered(toS) /\ (~ SenderUp => toS = << >>)
  BY DEF TransferInv, TypeOK, ChannelInv
<1>5. \A m \in ToSet(toS) : InOrder(m, last)
  BY <1>3 DEF InOrder
<1>6. sent \in Seq(Message) /\ Ordered(sent) /\ ToSet(sent) \subseteq ToSet(toS) \cup { last }
  <2>1. sent = toS \/ sent = Append(toS, last)
    BY DEF Sent
  <2> HIDE DEF last, sent
  <2> QED
    BY <1>3, <1>4, <1>5, <2>1, AppendKeeps
<1>7. Kept(toS', sent) /\ (~ SenderUp => toS' = << >>)
  <2> HIDE DEF sent
  <2> QED
    BY <1>1, <1>6, CutKeeps, UpIsBoolean
<1>8. ASSUME NEW m \in ToSet(toS') PROVE ForSender(m)'
  <2>1. CASE m = Closed
    BY <2>1 DEF ForSender
  <2>2. CASE m = last
    <3>1. SenderUp
      BY <1>7, <1>8, SetOfEmpty
    <3> QED
      BY <1>1, <1>2, <2>2, <3>1 DEF ForSender
  <2>3. CASE m # Closed /\ m # last
    <3>1. ForSender(m)
      BY <1>6, <1>7, <1>8, <2>3 DEF Kept, TransferInv, ChannelInv
    <3> QED
      BY <1>1, <3>1 DEF ForSender, ReceiverUp, Opening
  <2> QED
    BY <2>1, <2>2, <2>3
<1>9. toS' \in Seq(Message) /\ Ordered(toS')
  BY <1>6, <1>7 DEF Kept
<1>10. QueueInv'
  BY <1>1 DEF TransferInv, QueueInv, ReceiverUp, Line, Active
<1>11. report' = {}
  BY <1>1 DEF TransferInv, ReportInv
<1> QED
  BY <1>1, <1>7, <1>8, <1>9, <1>10, <1>11, ReceiverGone DEF TransferInv, TypeOK

\* A receiver that is away and stays away, and the store it leaves behind.
LEMMA AwayKeeps ==
  ASSUME TransferInv, ~ ReceiverUp, rPc' \in { "off", "failed", "complete" },
         UNCHANGED << s, toR, toS, report, verified, fault >>,
         QueueInv', q' \in Queue(Blocks), stored' \in BOOLEAN,
         disk' \in [ durable : SUBSET Blocks, bad : SUBSET Blocks ],
         handle' \in { "closed", "opening", "open" }, failures' \in 0 .. MaxFailures
  PROVE  TransferInv'
<1>1. toR = << >> /\ report = {} /\ (~ SenderUp => toS = << >>) /\ toS \in Seq(Message)
  BY DEF TransferInv, TypeOK, ChannelInv, ReportInv, ReceiverUp
<1>2. Kept(toS', toS)
  BY <1>1, SameKeeps
<1>3. toS' \in Seq(Message) /\ Ordered(toS') /\ \A m \in ToSet(toS') : ForSender(m)'
  BY <1>1, <1>2, LeftForSender
<1> QED
  BY <1>1, <1>3, ReceiverGone DEF TransferInv, TypeOK

LEMMA AwayPhases ==
  ASSUME TransferInv
  PROVE  ReceiverUp \/ rPc \in { "off", "failed", "complete" }
BY DEF TransferInv, TypeOK, ReceiverPhases, ReceiverUp

LEMMA ResetKeeps ==
  ASSUME TransferInv, Reset \/ SaveAndReset
  PROVE  TransferInv'
<1>1. /\ ~ ReceiverUp /\ rPc' = "off" /\ handle' = "closed" /\ Line(q) = << >>
      /\ UNCHANGED << s, toR, toS, report, q, stored, verified, fault, failures >>
      /\ disk' = disk \/ disk' = [ durable |-> {}, bad |-> {} ]
  BY DEF Reset, SaveAndReset, store, ReceiverUp, TransferInv, QueueInv
<1>2. ~ Active(q) /\ ~ stored
  BY <1>1, EmptyLine, QueueFacts DEF TransferInv, QueueInv
<1>3. QueueInv'
  <2>1. Line(q') = Line(q) /\ (Active(q') <=> Active(q))
    BY <1>1 DEF Line, Active
  <2> QED
    BY <1>1, <1>2, <2>1 DEF TransferInv, QueueInv, ReceiverUp
<1> QED
  BY <1>1, <1>3, AwayKeeps DEF TransferInv, TypeOK

LEMMA CommitThrowsKeeps ==
  ASSUME TransferInv, CommitThrows
  PROVE  TransferInv'
<1>1. /\ stored' = FALSE /\ failures' \in 0 .. MaxFailures
      /\ UNCHANGED << s, disk, handle, verified, fault >>
  BY FailsCounted DEF CommitThrows, TransferInv
<1>2. CASE ReceiverUp
  <2>1. /\ rPc' = "failed" /\ report' = {} /\ q' = Broken(q) /\ toR' = << >>
        /\ toS' \in CutShort(toS, SenderUp)
    BY <1>2 DEF CommitThrows, ReceiverEnds
  <2>2. Kept(toS', toS) /\ (~ SenderUp => toS' = << >>)
    BY <2>1, CutKeeps, UpIsBoolean DEF TransferInv, TypeOK
  <2>3. toS' \in Seq(Message) /\ Ordered(toS') /\ \A m \in ToSet(toS') : ForSender(m)'
    BY <1>1, <2>1, <2>2, LeftForSender
  <2>4. QueueInv' /\ q' \in Queue(Blocks)
    BY <1>1, <2>1, QueueBroken
  <2> QED
    BY <1>1, <2>1, <2>2, <2>3, <2>4, ReceiverGone DEF TransferInv, TypeOK
<1>3. CASE ~ ReceiverUp
  <2>1. q' = Broken(q) /\ UNCHANGED << toR, toS, rPc, report >>
    BY <1>3 DEF CommitThrows
  <2>2. QueueInv' /\ q' \in Queue(Blocks)
    BY <1>1, <1>3, <2>1, QueueBroken
  <2> QED
    BY <1>1, <1>3, <2>1, <2>2, AwayPhases, AwayKeeps DEF TransferInv, TypeOK
<1> QED
  BY <1>2, <1>3
-----------------------------------------------------------------------------
(* Steps of the queue and the store that say nothing to the peer.          *)

LEMMA QuietKeeps ==
  ASSUME TransferInv, UNCHANGED << s, toR, toS, rPc, report, verified, fault >>,
         QueueInv', q' \in Queue(Blocks), stored' \in BOOLEAN,
         disk' \in [ durable : SUBSET Blocks, bad : SUBSET Blocks ],
         handle' \in { "closed", "opening", "open" }, failures' \in 0 .. MaxFailures,
         Queued' = Queued, disk.durable \subseteq disk'.durable,
         disk'.durable \subseteq disk.durable \cup Queued
  PROVE  TransferInv'
<1>1. /\ SenderUp' <=> SenderUp
      /\ ReceiverUp' <=> ReceiverUp
      /\ Both' <=> Both
      /\ Open' <=> Open
      /\ DataOnWire' = DataOnWire /\ AcksOnWire' = AcksOnWire
      /\ Carried(toS', "resume-ranges") = Carried(toS, "resume-ranges")
  BY DEF SenderUp, Sending, ReceiverUp, Both, Open, DataOnWire, AcksOnWire
<1>2. disk'.durable \subseteq Blocks
  OBVIOUS
<1>3. TypeOK'
  BY DEF TransferInv, TypeOK
<1>4. ChannelInv'
  <2>1. ASSUME NEW m \in ToSet(toR') PROVE ForReceiver(m)'
    <3>1. ForReceiver(m)
      BY <2>1 DEF TransferInv, ChannelInv
    <3>2. CASE m.type = "data" /\ rPc = "receiving" /\ m # Closed
      <4>1. /\ SenderUp => m.blocks \subseteq s.inFlight
            /\ \E b \in Blocks : m.blocks = {b} /\ b \notin disk.durable \cup Queued
        BY <3>1, <3>2, MessageTypes DEF ForReceiver, Msg
      <4> QED
        BY <1>1, <3>2, <4>1 DEF ForReceiver
    <3>3. CASE ~ (m.type = "data" /\ rPc = "receiving" /\ m # Closed)
      BY <1>1, <1>2, <3>1, <3>3 DEF ForReceiver
    <3> QED
      BY <3>2, <3>3
  <2>2. ASSUME NEW m \in ToSet(toS') PROVE ForSender(m)'
    <3>1. ForSender(m)
      BY <2>2 DEF TransferInv, ChannelInv
    <3> QED
      BY <1>1, <3>1 DEF ForSender, Opening
  <2> QED
    BY <1>1, <2>1, <2>2 DEF TransferInv, ChannelInv
<1>5. SenderInv'
  BY DEF TransferInv, SenderInv
<1>6. ReportInv'
  BY <1>1 DEF TransferInv, ReportInv
<1>7. AgreeInv'
  BY <1>1, <1>2 DEF TransferInv, AgreeInv, Opening
<1> QED
  BY <1>3, <1>4, <1>5, <1>6, <1>7 DEF TransferInv

LEMMA RotKeeps ==
  ASSUME TransferInv, Rot
  PROVE  TransferInv'
<1>1. /\ UNCHANGED << s, toR, toS, rPc, report, q, stored, handle, verified, fault >>
      /\ failures' \in 0 .. MaxFailures
  BY FailsCounted DEF Rot, TransferInv
<1>2. /\ disk' \in [ durable : SUBSET Blocks, bad : SUBSET Blocks ]
      /\ disk'.durable = disk.durable
  BY DEF Rot, TransferInv, TypeOK
<1>3. QueueInv' /\ Queued' = Queued
  BY <1>1, <1>2, QueueAlone, QueuedAlone DEF TransferInv
<1> QED
  BY <1>1, <1>2, <1>3, QuietKeeps DEF TransferInv, TypeOK

LEMMA CloseStoreKeeps ==
  ASSUME TransferInv, CloseStore
  PROVE  TransferInv'
<1>1. /\ rPc = "failed" /\ ~ Active(q) /\ handle' = "closed"
      /\ UNCHANGED << s, toR, toS, rPc, report, q, stored, disk, verified, fault, failures >>
  BY DEF CloseStore
<1>2. Line(q) = << >>
  BY <1>1, QueueFacts, EmptyLine DEF TransferInv, QueueInv
<1>3. QueueInv' /\ Queued' = Queued
  <2>1. Line(q') = Line(q) /\ (Active(q') <=> Active(q))
    BY <1>1 DEF Line, Active
  <2> QED
    BY <1>1, <1>2, <2>1, QueuedAlone DEF TransferInv, QueueInv, ReceiverUp
<1> QED
  BY <1>1, <1>3, QuietKeeps DEF TransferInv, TypeOK

LEMMA CommitTimerKeeps ==
  ASSUME TransferInv, CommitTimer
  PROVE  TransferInv'
<1>1. /\ q' = TimerFired(q)
      /\ UNCHANGED << s, toR, toS, rPc, report, stored, disk, handle, verified, fault, failures >>
  BY DEF CommitTimer
<1>2. PICK r : r = q'
  OBVIOUS
<1>3. /\ r \in Queue(Blocks) /\ Line(r) = Line(q) /\ r.retained = q.retained
      /\ r.stopped = q.stopped
      /\ r.completing <=> q.completing \/ r = Finishing(q)
      /\ q.stopped \/ Active(q) => r.batch = q.batch /\ r.pending = q.pending
      /\ (q.completing \/ r = Finishing(q)) /\ ~ q.stopped /\ ~ Active(r) => r.pending = << >>
  BY <1>1, <1>2, QueueFacts, AskedKeeps
<1>4. r.completing = q.completing
  <2>1. PICK x \in Queue(Blocks) : x = [ q EXCEPT !.timer = FALSE, !.flush = TRUE ]
    BY QueueFacts DEF Queue
  <2>2. x.completing = q.completing
    BY <2>1, QueueFacts DEF Queue
  <2>3. Schedule(x).completing = x.completing
    BY ScheduleKeeps
  <2> QED
    BY <1>1, <1>2, <2>1, <2>2, <2>3 DEF TimerFired
<1>5. r.retained = Len(r.pending) + Len(r.batch)
  <2>1. Len(Line(r)) = Len(r.pending) + Len(r.batch) /\ Len(Line(q)) = Len(q.pending) + Len(q.batch)
    BY <1>3, QueueFacts, RetainedIsLine
  <2> QED
    BY <1>3, <2>1, QueueFacts
<1>6. Queued' = Queued
  <2>1. TypeOK'
    BY <1>1, <1>2, <1>3 DEF TransferInv, TypeOK
  <2>2. ToSet(Line(q')) = Queued'
    BY <2>1, QueueFields DEF Queued, TypeOK
  <2> QED
    BY <1>2, <1>3, <2>2, QueuedIsLine DEF TransferInv
<1>7. QueueInv'
  <2>1. stored => Active(r) /\ ToSet(r.batch) \subseteq disk.durable
    BY <1>3 DEF TransferInv, QueueInv, Active
  <2>2. r.completing /\ ~ r.stopped /\ ~ Active(r) => r.pending = << >>
    BY <1>3, <1>4
  <2>3. ReceiverUp' <=> ReceiverUp
    BY <1>1 DEF ReceiverUp
  <2>4. rPc = "failed" => r.stopped /\ r.pending = << >>
    BY <1>3 DEF TransferInv, QueueInv
  <2>5. \A i, j \in 1 .. Len(Line(r)) : i # j => Line(r)[i] # Line(r)[j]
    BY <1>3 DEF TransferInv, QueueInv
  <2>6. ReceiverUp => ~ r.stopped /\ (r.completing <=> rPc \in { "finishing", "verifying" })
    BY <1>3, <1>4 DEF TransferInv, QueueInv
  <2>7. /\ rPc \notin { "receiving", "finishing", "failed" } => Line(r) = << >>
        /\ handle # "open" => Line(r) = << >>
    BY <1>3 DEF TransferInv, QueueInv
  <2>8. /\ rPc \in { "off", "paired" } => handle = "closed"
        /\ rPc = "opening" => handle = "opening"
        /\ rPc \in { "reporting", "receiving", "finishing", "verifying", "complete" }
             => handle = "open"
    BY DEF TransferInv, QueueInv
  <2> QED
    BY <1>1, <1>2, <1>5, <2>1, <2>2, <2>3, <2>4, <2>5, <2>6, <2>7, <2>8 DEF QueueInv
<1> QED
  BY <1>1, <1>2, <1>3, <1>6, <1>7, QuietKeeps DEF TransferInv, TypeOK

LEMMA StoreCommitsKeeps ==
  ASSUME TransferInv, StoreCommits
  PROVE  TransferInv'
<1>1. /\ Active(q) /\ stored' = TRUE
      /\ disk' = [ disk EXCEPT !.durable = @ \cup ToSet(q.batch) ]
      /\ UNCHANGED << s, toR, toS, rPc, report, q, handle, verified, fault, failures >>
  BY DEF StoreCommits
<1>2. ToSet(q.batch) \subseteq Blocks /\ ToSet(q.batch) \subseteq Queued
  BY QueueFacts, SetOfType
<1>3. /\ disk' \in [ durable : SUBSET Blocks, bad : SUBSET Blocks ]
      /\ disk'.durable = disk.durable \cup ToSet(q.batch)
  BY <1>1, <1>2 DEF TransferInv, TypeOK
<1>4. QueueInv' /\ Queued' = Queued
  <2>1. Line(q') = Line(q) /\ (Active(q') <=> Active(q))
    BY <1>1 DEF Line, Active
  <2> QED
    BY <1>1, <1>3, <2>1, QueuedAlone DEF TransferInv, QueueInv, ReceiverUp
<1> QED
  BY <1>1, <1>2, <1>3, <1>4, QuietKeeps DEF TransferInv, TypeOK
-----------------------------------------------------------------------------
(* Steps of a receiver that is up.                                         *)

LEMMA SentFacts ==
  ASSUME NEW chan \in Seq(Message), NEW m \in Message, m.type # "closed",
         NEW up \in BOOLEAN, NEW new, new = Sent(chan, m, up)
  PROVE  /\ new \in Seq(Message) /\ ToSet(chan) \subseteq ToSet(new)
         /\ ToSet(new) \subseteq ToSet(chan) \cup {m}
         /\ up /\ Closed \notin ToSet(chan) => ToSet(new) = ToSet(chan) \cup {m}
         /\ ~ up \/ Closed \in ToSet(chan) => new = chan
         /\ Closed \in ToSet(new) <=> Closed \in ToSet(chan)
         /\ Distinct(chan) /\ m \notin ToSet(chan) => Distinct(new)
         /\ Ordered(chan) /\ (\A n \in ToSet(chan) : InOrder(n, m)) => Ordered(new)
<1>1. CASE up /\ Closed \notin ToSet(chan)
  <2>1. new = Append(chan, m)
    BY <1>1 DEF Sent
  <2>2. /\ new \in Seq(Message) /\ ToSet(new) = ToSet(chan) \cup {m}
        /\ Distinct(chan) /\ m \notin ToSet(chan) => Distinct(new)
        /\ Ordered(chan) /\ (\A n \in ToSet(chan) : InOrder(n, m)) => Ordered(new)
    BY <2>1, AppendKeeps
  <2>3. Closed # m
    BY MessageTypes
  <2> QED
    BY <1>1, <2>2, <2>3
<1>2. CASE ~ (up /\ Closed \notin ToSet(chan))
  <2>1. new = chan
    BY <1>2 DEF Sent
  <2> QED
    BY <1>2, <2>1
<1> QED
  BY <1>1, <1>2

LEMMA SentCarries ==
  ASSUME NEW chan, NEW new, NEW m, ToSet(chan) \subseteq ToSet(new),
         ToSet(new) \subseteq ToSet(chan) \cup {m}, NEW type
  PROVE  /\ type # m.type => Carried(new, type) = Carried(chan, type)
         /\ type = m.type => /\ Carried(chan, type) \subseteq Carried(new, type)
                             /\ Carried(new, type) \subseteq Carried(chan, type) \cup m.blocks
                             /\ m \in ToSet(new) => m.blocks \subseteq Carried(new, type)
BY DEF Carried

LEMMA SettledQueue ==
  ASSUME TransferInv, Active(q), q' = Settled(q), stored' = FALSE, UNCHANGED << rPc, handle >>
  PROVE  QueueInv' /\ q' \in Queue(Blocks) /\ Queued' = ToSet(q.pending)
<1>1. PICK r : r = q'
  OBVIOUS
<1>2. /\ r \in Queue(Blocks) /\ Line(r) = q.pending /\ r.retained = Len(q.pending)
      /\ r.stopped = q.stopped /\ r.completing = q.completing
      /\ q.stopped => r.batch = << >> /\ r.pending = q.pending
      /\ q.completing /\ ~ q.stopped /\ ~ Active(r) => r.pending = << >>
  BY <1>1, QueueFacts, SettledKeeps
<1>3. r.retained = Len(r.pending) + Len(r.batch)
  BY <1>2, RetainedIsLine
<1>4. \A i, j \in 1 .. Len(Line(r)) : i # j => Line(r)[i] # Line(r)[j]
  BY <1>2, QueueFacts DEF NoneTwice
<1>5. /\ rPc \in { "receiving", "finishing", "failed" } /\ handle = "open"
  BY QueueFacts, EmptyLine DEF TransferInv, QueueInv
<1>6. ReceiverUp => ~ r.stopped /\ (r.completing <=> rPc \in { "finishing", "verifying" })
  BY <1>2 DEF TransferInv, QueueInv
<1>7. rPc = "failed" => r.stopped /\ r.pending = << >>
  BY <1>2 DEF TransferInv, QueueInv
<1>8. QueueInv'
  <2>1. /\ q'.retained = Len(q'.pending) + Len(q'.batch)
        /\ \A i, j \in 1 .. Len(Line(q')) : i # j => Line(q')[i] # Line(q')[j]
        /\ q'.completing /\ ~ q'.stopped /\ ~ Active(q') => q'.pending = << >>
    BY <1>1, <1>2, <1>3, <1>4
  <2>2. ReceiverUp' => ~ q'.stopped /\ (q'.completing <=> rPc' \in { "finishing", "verifying" })
    BY <1>1, <1>6 DEF ReceiverUp
  <2>3. rPc' = "failed" => q'.stopped /\ q'.pending = << >>
    BY <1>1, <1>7
  <2>4. ~ stored' /\ rPc' \in { "receiving", "finishing", "failed" } /\ handle' = "open"
    BY <1>5
  <2> QED
    BY <2>1, <2>2, <2>3, <2>4 DEF QueueInv
<1>9. ToSet(Line(r)) = ToSet(r.batch) \cup ToSet(r.pending)
  BY <1>2, QueueFields
<1> QED
  BY <1>1, <1>2, <1>8, <1>9 DEF Queued

LEMMA CommitReturnsKeeps ==
  ASSUME TransferInv, CommitReturns
  PROVE  TransferInv'
<1> DEFINE ack == Msg("ack", ToSet(q.batch))
<1>1. /\ Active(q) /\ stored /\ stored' = FALSE /\ q' = Settled(q)
      /\ UNCHANGED << s, toR, rPc, report, disk, handle, verified, fault, failures >>
      /\ toS' = IF q.stopped THEN toS ELSE Sent(toS, ack, SenderUp)
  BY DEF CommitReturns
<1>2. QueueInv' /\ q' \in Queue(Blocks) /\ Queued' = ToSet(q.pending)
  BY <1>1, SettledQueue
<1>3. CASE q.stopped
  <2>1. ~ ReceiverUp
    BY <1>3 DEF TransferInv, QueueInv
  <2> QED
    BY <1>1, <1>2, <1>3, <2>1, AwayPhases, AwayKeeps DEF TransferInv, TypeOK
<1>4. CASE ~ q.stopped
  <2>1. ReceiverUp /\ rPc \in { "receiving", "finishing" }
    BY <1>1, <1>4, QueueFacts, EmptyLine DEF TransferInv, QueueInv, ReceiverUp
  <2>2. /\ ToSet(q.batch) \subseteq Blocks /\ ToSet(q.batch) \subseteq disk.durable
        /\ Queued = ToSet(q.batch) \cup Queued' /\ ToSet(q.batch) \cap Queued' = {}
    BY <1>1, <1>2, QueueFacts, SetOfType DEF TransferInv, QueueInv
  <2>3. ack \in Message /\ ack.type = "ack" /\ ack.blocks = ToSet(q.batch)
    BY <2>2, MessageTypes
  <2>4. PICK a \in Message : a = ack
    BY <2>3
  <2>5. a.type = "ack" /\ a.blocks = ToSet(q.batch) /\ toS' = Sent(toS, a, SenderUp)
    BY <1>1, <1>4, <2>3, <2>4
  <2> HIDE DEF ack
  <2>6. toS \in Seq(Message) /\ Ordered(toS) /\ \A n \in ToSet(toS) : ForSender(n)
    BY DEF TransferInv, TypeOK, ChannelInv
  <2>7. ASSUME NEW n \in ToSet(toS), n.type = "ack" PROVE n.blocks \subseteq disk.durable \ Queued
    BY <2>1, <2>6, <2>7, MessageTypes DEF ForSender, Msg
  <2>8. \A n \in ToSet(toS) : InOrder(n, a)
    BY <2>2, <2>5, <2>7 DEF InOrder
  <2>9. /\ toS' \in Seq(Message) /\ ToSet(toS') \subseteq ToSet(toS) \cup {a} /\ Ordered(toS')
        /\ ~ SenderUp => toS' = toS
        /\ Closed \in ToSet(toS') <=> Closed \in ToSet(toS)
        /\ Carried(toS', "resume-ranges") = Carried(toS, "resume-ranges")
        /\ AcksOnWire \subseteq AcksOnWire'
        /\ SenderUp /\ Closed \notin ToSet(toS) => a.blocks \subseteq AcksOnWire'
    <3>1. /\ toS' \in Seq(Message) /\ ToSet(toS') \subseteq ToSet(toS) \cup {a} /\ Ordered(toS')
          /\ ~ SenderUp => toS' = toS
          /\ Closed \in ToSet(toS') <=> Closed \in ToSet(toS)
          /\ ToSet(toS) \subseteq ToSet(toS')
          /\ SenderUp /\ Closed \notin ToSet(toS) => a \in ToSet(toS')
      BY <2>5, <2>6, <2>8, UpIsBoolean, SentFacts
    <3>2. Carried(toS', "resume-ranges") = Carried(toS, "resume-ranges")
      BY <2>5, <3>1, SentCarries
    <3>3. /\ Carried(toS, "ack") \subseteq Carried(toS', "ack")
          /\ a \in ToSet(toS') => a.blocks \subseteq Carried(toS', "ack")
      BY <2>5, <3>1, SentCarries
    <3> QED
      BY <3>1, <3>2, <3>3 DEF AcksOnWire
  <2>10. /\ SenderUp' <=> SenderUp
         /\ ReceiverUp' <=> ReceiverUp
         /\ Both' <=> Both
         /\ Open' <=> Open
         /\ DataOnWire' = DataOnWire
    BY <1>1, <2>9 DEF SenderUp, Sending, ReceiverUp, Both, Open, DataOnWire
  <2>11. TypeOK'
    BY <1>1, <1>2, <2>9 DEF TransferInv, TypeOK
  <2>12. ChannelInv'
    <3>1. ASSUME NEW m \in ToSet(toR') PROVE ForReceiver(m)'
      <4>1. ForReceiver(m)
        BY <1>1, <3>1 DEF TransferInv, ChannelInv
      <4> QED
        BY <1>1, <2>2, <2>10, <4>1 DEF ForReceiver
    <3>2. ASSUME NEW m \in ToSet(toS') PROVE ForSender(m)'
      <4>1. CASE m \in ToSet(toS)
        <5>1. ForSender(m)
          BY <2>6, <4>1
        <5> QED
          BY <1>1, <2>2, <2>10, <5>1 DEF ForSender, Opening
      <4>2. CASE m \notin ToSet(toS)
        <5>1. m = a /\ SenderUp
          BY <2>9, <3>2, <4>2
        <5>2. a.blocks \subseteq s.inFlight
          BY <2>1, <2>2, <2>5, <5>1 DEF TransferInv, AgreeInv, Both
        <5> QED
          BY <1>1, <2>2, <2>5, <5>1, <5>2 DEF ForSender
      <4> QED
        BY <4>1, <4>2
    <3> QED
      BY <1>1, <2>9, <2>10, <3>1, <3>2 DEF TransferInv, ChannelInv
  <2>13. SenderInv'
    BY <1>1 DEF TransferInv, SenderInv
  <2>14. ReportInv'
    BY <1>1, <2>9 DEF TransferInv, ReportInv
  <2>15. AgreeInv'
    <3>1. Cardinality(DataOnWire' \cup Queued') <= Window
      <4>1. /\ DataOnWire' \cup Queued' \subseteq DataOnWire \cup Queued
            /\ DataOnWire \cup Queued \subseteq Blocks
        BY <2>2, <2>10, WireTypes DEF TransferInv
      <4>2. /\ Cardinality(DataOnWire' \cup Queued') <= Cardinality(DataOnWire \cup Queued)
            /\ Cardinality(DataOnWire' \cup Queued') \in Nat
            /\ Cardinality(DataOnWire \cup Queued) \in Nat
        BY <4>1, SmallerSet, BlocksFinite
      <4> QED
        BY <2>1, <4>2 DEF TransferInv, AgreeInv
    <3>2. Both /\ Open => s.inFlight \subseteq DataOnWire' \cup Queued' \cup AcksOnWire'
      <4> SUFFICES ASSUME Both, Open
                   PROVE  s.inFlight \subseteq DataOnWire' \cup Queued' \cup AcksOnWire'
        OBVIOUS
      <4>1. s.inFlight \subseteq DataOnWire \cup Queued \cup AcksOnWire
        BY DEF TransferInv, AgreeInv
      <4>2. a.blocks \subseteq AcksOnWire'
        BY <2>9 DEF Both, Open
      <4> QED
        BY <2>2, <2>5, <2>9, <2>10, <4>1, <4>2
    <3> QED
      BY <1>1, <2>2, <2>9, <2>10, <3>1, <3>2 DEF TransferInv, AgreeInv, Opening
  <2> QED
    BY <1>1, <1>2, <2>11, <2>12, <2>13, <2>14, <2>15 DEF TransferInv
<1> QED
  BY <1>3, <1>4
LEMMA FinishReturnsKeeps ==
  ASSUME TransferInv, FinishReturns
  PROVE  TransferInv'
<1>1. /\ rPc = "finishing" /\ rPc' = "verifying" /\ q.completing /\ ~ Active(q)
      /\ UNCHANGED << s, toR, toS, report, q, stored, disk, handle, verified, fault, failures >>
  BY DEF FinishReturns, Finished, store
<1>2. /\ SenderUp' <=> SenderUp
      /\ ReceiverUp' /\ ReceiverUp
      /\ Both' <=> Both
      /\ Open' <=> Open
      /\ DataOnWire' = DataOnWire /\ AcksOnWire' = AcksOnWire /\ Queued' = Queued
      /\ Line(q') = Line(q) /\ (Active(q') <=> Active(q))
  BY <1>1 DEF SenderUp, Sending, ReceiverUp, Both, Open, DataOnWire, AcksOnWire, Queued, Line, Active
<1>3. Line(q) = << >>
  <2>1. ~ q.stopped /\ q.pending = << >>
    BY <1>1, <1>2 DEF TransferInv, QueueInv
  <2> QED
    BY <1>1, <2>1, QueueFacts, EmptyLine
<1>4. disk.durable = Blocks
  BY <1>1 DEF TransferInv, AgreeInv
<1>5. TypeOK'
  BY <1>1 DEF TransferInv, TypeOK, ReceiverPhases
<1>6. ChannelInv'
  <2>1. ASSUME NEW m \in ToSet(toR') PROVE ForReceiver(m)'
    <3>1. ForReceiver(m)
      BY <1>1, <2>1 DEF TransferInv, ChannelInv
    <3> QED
      BY <1>1, <1>2, <3>1 DEF ForReceiver
  <2>2. ASSUME NEW m \in ToSet(toS') PROVE ForSender(m)'
    <3>1. ForSender(m)
      BY <1>1, <2>2 DEF TransferInv, ChannelInv
    <3> QED
      BY <1>1, <1>2, <3>1 DEF ForSender, Opening
  <2> QED
    BY <1>1, <1>2, <2>1, <2>2 DEF TransferInv, ChannelInv
<1>7. SenderInv' /\ ReportInv'
  BY <1>1 DEF TransferInv, SenderInv, ReportInv
<1>8. QueueInv'
  BY <1>1, <1>2, <1>3 DEF TransferInv, QueueInv, ReceiverUp
<1>9. AgreeInv'
  BY <1>1, <1>2, <1>4 DEF TransferInv, AgreeInv, Opening
<1> QED
  BY <1>1, <1>5, <1>6, <1>7, <1>8, <1>9 DEF TransferInv

\* The marker comes when every block is on disk, so no data can follow it.
LEMMA SenderCompleteKeeps ==
  ASSUME TransferInv, SenderComplete
  PROVE  TransferInv'
<1>1. /\ rPc \in { "receiving", "finishing", "verifying" } /\ disk.durable = Blocks
      /\ SenderUp => s.pc = "done"
  BY HeadOfR, MessageTypes DEF SenderComplete, GetR, ForReceiver, Msg
<1>2. /\ toR # << >> /\ toR' = Tail(toR)
      /\ UNCHANGED << s, toS, report, stored, disk, handle, verified, fault, failures >>
      /\ \/ rPc = "receiving" /\ rPc' = "finishing" /\ q' = Finishing(q)
         \/ rPc \in { "finishing", "verifying" } /\ rPc' = rPc /\ q' = q
  BY <1>1 DEF SenderComplete, GetR, KeepR
<1>3. /\ Kept(toR', toR) /\ toR' \in Seq(Message)
      /\ \A m \in ToSet(toR') : m \in Message /\ ForReceiver(m)
      /\ Head(toR) \in Message /\ Head(toR).type = "sender-complete"
      /\ ToSet(toR) = { Head(toR) } \cup ToSet(toR')
  BY <1>2, HeadOfR DEF SenderComplete, GetR
<1>4. \A m \in ToSet(toR) : m.type # "data"
  <2> SUFFICES ASSUME NEW m \in ToSet(toR), m.type = "data" PROVE FALSE
    OBVIOUS
  <2>1. ForReceiver(m)
    BY DEF TransferInv, ChannelInv
  <2>2. \E b \in Blocks : b \notin disk.durable
    BY <2>1, MessageTypes DEF ForReceiver, Msg
  <2> QED
    BY <1>1, <2>2
<1>5. DataOnWire = {} /\ DataOnWire' = {}
  BY <1>3, <1>4 DEF DataOnWire, Carried
<1>6. Closed \in ToSet(toR') <=> Closed \in ToSet(toR)
  BY <1>3, MessageTypes
<1>7. PICK r : r = q'
  OBVIOUS
<1>8. /\ r \in Queue(Blocks) /\ Line(r) = Line(q) /\ r.retained = q.retained
      /\ r.stopped = q.stopped /\ r.completing
      /\ Active(q) => Active(r) /\ r.batch = q.batch
      /\ ~ q.stopped /\ ~ Active(r) => r.pending = << >>
  <2>1. CASE rPc \in { "finishing", "verifying" } /\ q' = q
    <3>1. q.completing /\ ~ q.stopped /\ (~ Active(q) => q.pending = << >>)
      BY <2>1 DEF TransferInv, QueueInv, ReceiverUp
    <3> QED
      BY <1>7, <2>1, <3>1, QueueFacts
  <2>2. CASE q' = Finishing(q)
    BY <1>7, <2>2, QueueFacts, AskedKeeps DEF Active
  <2> QED
    BY <1>2, <2>1, <2>2
<1>9. /\ SenderUp' <=> SenderUp
      /\ ReceiverUp' /\ ReceiverUp
      /\ Both' <=> Both
      /\ Open' <=> Open
      /\ AcksOnWire' = AcksOnWire
  BY <1>1, <1>2, <1>6 DEF SenderUp, Sending, ReceiverUp, Both, Open, AcksOnWire
<1>10. TypeOK'
  BY <1>2, <1>3, <1>7, <1>8 DEF TransferInv, TypeOK, ReceiverPhases
<1>11. Queued' = Queued
  <2>1. ToSet(Line(q')) = Queued'
    BY <1>10, QueueFields DEF Queued, TypeOK
  <2> QED
    BY <1>7, <1>8, <2>1, QueuedIsLine DEF TransferInv
<1>12. ChannelInv'
  <2>1. ASSUME NEW m \in ToSet(toR') PROVE ForReceiver(m)'
    <3>1. ForReceiver(m) /\ m.type # "data"
      BY <1>3, <1>4, <2>1
    <3> QED
      BY <1>1, <1>2, <1>9, <3>1 DEF ForReceiver
  <2>2. ASSUME NEW m \in ToSet(toS') PROVE ForSender(m)'
    <3>1. ForSender(m)
      BY <1>2, <2>2 DEF TransferInv, ChannelInv
    <3> QED
      BY <1>1, <1>2, <1>9, <1>11, <3>1 DEF ForSender, Opening
  <2> QED
    BY <1>2, <1>3, <1>6, <1>9, <2>1, <2>2 DEF TransferInv, ChannelInv, Kept
<1>13. SenderInv' /\ ReportInv'
  BY <1>1, <1>2 DEF TransferInv, SenderInv, ReportInv
<1>14. QueueInv'
  <2>1. r.retained = Len(r.pending) + Len(r.batch)
    BY <1>8, QueueFacts, RetainedIsLine
  <2>2. \A i, j \in 1 .. Len(Line(r)) : i # j => Line(r)[i] # Line(r)[j]
    BY <1>8 DEF TransferInv, QueueInv
  <2>3. stored => Active(r) /\ ToSet(r.batch) \subseteq disk.durable
    BY <1>8 DEF TransferInv, QueueInv
  <2>4. ~ r.stopped
    BY <1>8, <1>9 DEF TransferInv, QueueInv
  <2>5. rPc' \in { "finishing", "verifying" } /\ handle' = "open"
    BY <1>2 DEF TransferInv, QueueInv
  <2>6. rPc' = "verifying" => Line(r) = << >>
    BY <1>2, <1>8 DEF TransferInv, QueueInv
  <2>7. stored' = stored /\ disk' = disk
    BY <1>2
  <2>8. ~ Active(r) => r.pending = << >>
    BY <1>8, <2>4
  <2>9. r.completing = TRUE
    BY <1>8 DEF Queue
  <2> QED
    BY <1>7, <2>1, <2>2, <2>3, <2>4, <2>5, <2>6, <2>7, <2>8, <2>9 DEF QueueInv
<1>15. AgreeInv'
  <2>1. Cardinality(DataOnWire' \cup Queued') <= Window
    BY <1>5, <1>9, <1>11 DEF TransferInv, AgreeInv
  <2>2. Both' /\ Open' => s'.inFlight \subseteq DataOnWire' \cup Queued' \cup AcksOnWire'
    BY <1>2, <1>5, <1>9, <1>11 DEF TransferInv, AgreeInv
  <2>3. Both' => s'.receipts \subseteq disk'.durable /\ Queued' \subseteq s'.inFlight
    BY <1>2, <1>9, <1>11 DEF TransferInv, AgreeInv
  <2>4. Both' /\ Open' => disk'.durable \subseteq
          s'.receipts \cup s'.inFlight \cup Carried(toS', "resume-ranges") \cup report'
    BY <1>1, <1>2, <1>9 DEF TransferInv, AgreeInv
  <2>5. rPc' \in { "finishing", "verifying" } /\ disk'.durable = Blocks /\ (SenderUp' => s'.pc = "done")
    BY <1>1, <1>2, <1>9
  <2> QED
    BY <2>1, <2>2, <2>3, <2>4, <2>5 DEF AgreeInv, Opening, Both
<1> QED
  BY <1>2, <1>10, <1>12, <1>13, <1>14, <1>15 DEF TransferInv

LEMMA ManifestKeeps ==
  ASSUME TransferInv, Manifest
  PROVE  TransferInv'
<1>1. /\ toR # << >> /\ toR' = Tail(toR) /\ rPc' = "opening" /\ handle' = "opening"
      /\ UNCHANGED << s, toS, report, q, stored, disk, verified, fault, failures >>
      /\ Head(toR).type = "manifest"
  BY DEF Manifest, GetR
<1>2. rPc = "paired" /\ Head(toR) = Msg("manifest", {})
  BY <1>1, HeadOfR, MessageTypes DEF ForReceiver, Msg
<1>3. /\ Kept(toR', toR) /\ toR' \in Seq(Message) /\ ToSet(toR) = { Head(toR) } \cup ToSet(toR')
      /\ Head(toR) \notin ToSet(toR') /\ Head(toR) # Closed
      /\ \A m \in ToSet(toR') : ForReceiver(m)
  BY <1>1, HeadOfR, MessageTypes
<1>4. \A m \in ToSet(toR') : m = Closed
  BY <1>2, <1>3 DEF ForReceiver
<1>5. /\ SenderUp' <=> SenderUp
      /\ ReceiverUp' /\ ReceiverUp
      /\ Both' <=> Both
      /\ Open' <=> Open
      /\ AcksOnWire' = AcksOnWire /\ Queued' = Queued
      /\ Line(q') = Line(q) /\ (Active(q') <=> Active(q))
  BY <1>1, <1>2, <1>3
    DEF SenderUp, Sending, ReceiverUp, Both, Open, AcksOnWire, Queued, Line, Active
<1>6. DataOnWire = {} /\ DataOnWire' = {}
  <2>1. \A m \in ToSet(toR) : m.type # "data"
    BY <1>1, <1>3, <1>4, MessageTypes
  <2> QED
    BY <1>3, <2>1 DEF DataOnWire, Carried
<1>7. TypeOK'
  BY <1>1, <1>3 DEF TransferInv, TypeOK, ReceiverPhases
<1>8. ChannelInv'
  <2>1. ASSUME NEW m \in ToSet(toS') PROVE ForSender(m)'
    <3>1. ForSender(m)
      BY <1>1, <2>1 DEF TransferInv, ChannelInv
    <3> QED
      BY <1>1, <1>2, <1>5, <3>1 DEF ForSender, Opening
  <2>2. \A m \in ToSet(toR') : ForReceiver(m)'
    BY <1>4 DEF ForReceiver
  <2> QED
    BY <1>1, <1>3, <1>5, <2>1, <2>2 DEF TransferInv, ChannelInv, Kept
<1>9. SenderInv' /\ ReportInv'
  BY <1>1, <1>2 DEF TransferInv, SenderInv, ReportInv
<1>10. QueueInv'
  <2>1. rPc' = "opening" /\ handle' = "opening" /\ Line(q) = << >>
    BY <1>1, <1>2 DEF TransferInv, QueueInv
  <2>2. ReceiverUp' => ~ q'.stopped /\ (q'.completing <=> rPc' \in { "finishing", "verifying" })
    BY <1>1, <1>2, <1>5, <2>1 DEF TransferInv, QueueInv
  <2>3. /\ q'.retained = Len(q'.pending) + Len(q'.batch)
        /\ \A i, j \in 1 .. Len(Line(q')) : i # j => Line(q')[i] # Line(q')[j]
        /\ stored' => Active(q') /\ ToSet(q'.batch) \subseteq disk'.durable
        /\ q'.completing /\ ~ q'.stopped /\ ~ Active(q') => q'.pending = << >>
        /\ Line(q') = << >>
    BY <1>1, <2>1, QueueItself DEF TransferInv
  <2> QED
    BY <2>1, <2>2, <2>3 DEF QueueInv
<1>11. AgreeInv'
  BY <1>1, <1>2, <1>5, <1>6 DEF TransferInv, AgreeInv, Opening
<1> QED
  BY <1>1, <1>7, <1>8, <1>9, <1>10, <1>11 DEF TransferInv
LEMMA StoreOpenedKeeps ==
  ASSUME TransferInv, StoreOpened
  PROVE  TransferInv'
<1>1. /\ handle = "opening"
      /\ UNCHANGED << s, toR, toS, q, stored, disk, verified, fault, failures >>
  BY DEF StoreOpened
<1>2. Line(q) = << >>
  BY <1>1 DEF TransferInv, QueueInv
<1>3. CASE rPc # "opening"
  <2>1. handle' = "closed" /\ UNCHANGED << rPc, report >>
    BY <1>3 DEF StoreOpened
  <2>2. rPc \in { "off", "failed", "complete" } /\ ~ ReceiverUp
    BY <1>1, <1>3, AwayPhases DEF TransferInv, QueueInv, ReceiverUp
  <2>3. QueueInv'
    <3>1. Line(q') = Line(q) /\ (Active(q') <=> Active(q))
      BY <1>1 DEF Line, Active
    <3> QED
      BY <1>1, <1>2, <2>1, <2>2, <3>1 DEF TransferInv, QueueInv, ReceiverUp
  <2> QED
    BY <1>1, <2>1, <2>2, <2>3, AwayKeeps DEF TransferInv, TypeOK
<1>4. CASE rPc = "opening"
  <2>1. handle' = "open" /\ rPc' = "reporting" /\ report' = disk.durable
    BY <1>4 DEF StoreOpened
  <2>2. /\ SenderUp' <=> SenderUp
        /\ ReceiverUp' /\ ReceiverUp
        /\ Both' <=> Both
        /\ Open' <=> Open
        /\ DataOnWire' = DataOnWire /\ AcksOnWire' = AcksOnWire /\ Queued' = Queued
        /\ Line(q') = Line(q) /\ (Active(q') <=> Active(q))
    BY <1>1, <1>4, <2>1
      DEF SenderUp, Sending, ReceiverUp, Both, Open, DataOnWire, AcksOnWire, Queued, Line, Active
  <2>3. TypeOK'
    BY <1>1, <2>1 DEF TransferInv, TypeOK, ReceiverPhases
  <2>4. \A m \in ToSet(toR) : m = Closed
    BY <1>4 DEF TransferInv, ChannelInv, ForReceiver
  <2>5. ChannelInv'
    <3>1. ASSUME NEW m \in ToSet(toS') PROVE ForSender(m)'
      <4>1. ForSender(m)
        BY <1>1, <3>1 DEF TransferInv, ChannelInv
      <4> QED
        BY <1>1, <1>4, <2>1, <2>2, <4>1 DEF ForSender, Opening
    <3>2. \A m \in ToSet(toR') : ForReceiver(m)'
      BY <1>1, <2>4 DEF ForReceiver
    <3> QED
      BY <1>1, <2>2, <3>1, <3>2 DEF TransferInv, ChannelInv
  <2>6. Carried(toS, "resume-ranges") = {}
    <3>1. \A m \in ToSet(toS) : m.type # "resume-ranges"
      BY <1>4, MessageTypes DEF TransferInv, ChannelInv, ForSender, Msg
    <3> QED
      BY <3>1 DEF Carried
  <2>7. ReportInv'
    <3>1. s.resumeEnd = 1 /\ \A b \in disk.durable : 1 <= b
      BY <1>4 DEF TransferInv, ReportInv, TypeOK, Blocks
    <3> QED
      BY <1>1, <2>1, <2>6, <3>1 DEF ReportInv
  <2>8. SenderInv'
    BY <1>1 DEF TransferInv, SenderInv
  <2>9. QueueInv'
    <3>1. ReceiverUp' => ~ q'.stopped /\ (q'.completing <=> rPc' \in { "finishing", "verifying" })
      BY <1>1, <1>4, <2>1, <2>2 DEF TransferInv, QueueInv
    <3>2. /\ q'.retained = Len(q'.pending) + Len(q'.batch)
          /\ \A i, j \in 1 .. Len(Line(q')) : i # j => Line(q')[i] # Line(q')[j]
          /\ stored' => Active(q') /\ ToSet(q'.batch) \subseteq disk'.durable
          /\ q'.completing /\ ~ q'.stopped /\ ~ Active(q') => q'.pending = << >>
          /\ Line(q') = << >>
      BY <1>1, <1>2, QueueItself DEF TransferInv
    <3> QED
      BY <2>1, <3>1, <3>2 DEF QueueInv
  <2>10. AgreeInv'
    BY <1>1, <1>4, <2>1, <2>2 DEF TransferInv, AgreeInv, Opening
  <2> QED
    BY <1>1, <2>3, <2>5, <2>7, <2>8, <2>9, <2>10 DEF TransferInv
<1> QED
  BY <1>3, <1>4

LEMMA LowestRange ==
  ASSUME NEW T, T \subseteq Blocks, T # {}
  PROVE  /\ FirstRange(T) \subseteq T /\ FirstRange(T) # {}
         /\ \A x \in FirstRange(T), y \in T \ FirstRange(T) : x < y
<1>1. PICK b \in T : b = Min(T) /\ \A y \in T : b <= y
  BY MinOfBlocks
<1>2. FirstRange(T) = { c \in T : b .. c \subseteq T }
  BY <1>1 DEF FirstRange
<1>3. \A y \in T : y \in Int
  BY DEF Blocks
<1>4. b \in FirstRange(T)
  <2>1. b .. b \subseteq T
    BY <1>3
  <2> QED
    BY <1>2, <2>1
<1>5. ASSUME NEW x \in FirstRange(T), NEW y \in T \ FirstRange(T), ~ (x < y) PROVE FALSE
  <2>1. b .. y \subseteq b .. x
    BY <1>2, <1>3, <1>5
  <2>2. y \in FirstRange(T)
    BY <1>2, <2>1
  <2> QED
    BY <2>2
<1> QED
  BY <1>2, <1>4, <1>5

LEMMA SendResumeStateKeeps ==
  ASSUME TransferInv, SendResumeState
  PROVE  TransferInv'
<1>1. /\ rPc = "reporting"
      /\ UNCHANGED << s, toR, q, stored, disk, handle, verified, fault, failures >>
  BY DEF SendResumeState, store
<1>2. PICK m \in Message :
        /\ toS' = Sent(toS, m, SenderUp)
        /\ report' \subseteq report /\ report \subseteq report' \cup m.blocks
        /\ \/ /\ m.type = "resume-ranges" /\ m.blocks # {} /\ m.blocks \subseteq report
              /\ rPc' = "reporting"
              /\ \A x \in m.blocks, y \in report' : x < y
           \/ /\ m = Msg("resume-complete", {}) /\ m.type = "resume-complete" /\ m.blocks = {}
              /\ rPc' = "receiving" /\ report' = {}
  <2>1. report \subseteq Blocks
    BY DEF TransferInv, TypeOK
  <2>2. CASE report # {}
    <3>1. /\ FirstRange(report) \subseteq report /\ FirstRange(report) # {}
          /\ \A x \in FirstRange(report), y \in report \ FirstRange(report) : x < y
      BY <2>1, <2>2, LowestRange
    <3>2. /\ toS' = Sent(toS, Msg("resume-ranges", FirstRange(report)), SenderUp)
          /\ report' = report \ FirstRange(report) /\ rPc' = "reporting"
      BY <1>1, <2>2 DEF SendResumeState
    <3>3. FirstRange(report) \in SUBSET Blocks
      BY <2>1, <3>1
    <3>4. PICK m \in Message : /\ m = Msg("resume-ranges", FirstRange(report))
                               /\ m.type = "resume-ranges" /\ m.blocks = FirstRange(report)
      BY <3>3, MessageTypes
    <3> QED
      BY <3>1, <3>2, <3>4
  <2>3. CASE report = {}
    <3>1. /\ toS' = Sent(toS, Msg("resume-complete", {}), SenderUp)
          /\ rPc' = "receiving" /\ report' = {}
      BY <2>3 DEF SendResumeState
    <3>2. PICK m \in Message : /\ m = Msg("resume-complete", {})
                               /\ m.type = "resume-complete" /\ m.blocks = {}
      BY MessageTypes
    <3> QED
      BY <2>3, <3>1, <3>2
  <2> QED
    BY <2>2, <2>3
<1>3. toS \in Seq(Message) /\ Ordered(toS) /\ \A n \in ToSet(toS) : ForSender(n) /\ n \in Message
  BY InChannel DEF TransferInv, TypeOK, ChannelInv
<1>4. \A n \in ToSet(toS) : n.type # "resume-complete"
  BY <1>1, <1>3, MessageTypes DEF ForSender, Opening, Msg
<1>5. \A n \in ToSet(toS) : n.type = "resume-ranges" => \A x \in n.blocks, y \in report : x < y
  BY <1>3, CarriedIs DEF TransferInv, ReportInv
<1>6. \A n \in ToSet(toS) : InOrder(n, m)
  BY <1>2, <1>4, <1>5 DEF InOrder
<1>7. /\ toS' \in Seq(Message) /\ ToSet(toS) \subseteq ToSet(toS')
      /\ ToSet(toS') \subseteq ToSet(toS) \cup {m} /\ Ordered(toS')
      /\ ~ SenderUp => toS' = toS
      /\ Closed \in ToSet(toS') <=> Closed \in ToSet(toS)
      /\ SenderUp /\ Closed \notin ToSet(toS) => m \in ToSet(toS')
  <2>1. m.type # "closed"
    BY <1>2
  <2> QED
    BY <1>2, <1>3, <1>6, <2>1, UpIsBoolean, SentFacts
<1>8. Carried(toS', "ack") = Carried(toS, "ack")
  BY <1>2, <1>7, SentCarries
<1>9. /\ Carried(toS', "resume-ranges") \subseteq Carried(toS, "resume-ranges") \cup m.blocks
      /\ Carried(toS, "resume-ranges") \subseteq Carried(toS', "resume-ranges")
      /\ m \in ToSet(toS') => m.blocks \subseteq Carried(toS', "resume-ranges")
  <2>1. CASE m.type = "resume-ranges"
    BY <1>7, <2>1, SentCarries
  <2>2. CASE m.type # "resume-ranges"
    <3>1. Carried(toS', "resume-ranges") = Carried(toS, "resume-ranges")
      BY <1>7, <2>2, SentCarries
    <3> QED
      BY <1>2, <2>2, <3>1
  <2> QED
    BY <2>1, <2>2
<1>10. /\ SenderUp' <=> SenderUp
       /\ ReceiverUp' /\ ReceiverUp
       /\ Both' <=> Both
       /\ Open' <=> Open
       /\ DataOnWire' = DataOnWire /\ AcksOnWire' = AcksOnWire /\ Queued' = Queued
       /\ Line(q') = Line(q) /\ (Active(q') <=> Active(q))
  BY <1>1, <1>2, <1>7, <1>8
    DEF SenderUp, Sending, ReceiverUp, Both, Open, DataOnWire, AcksOnWire, Queued, Line, Active
<1>11. TypeOK'
  BY <1>1, <1>2, <1>7 DEF TransferInv, TypeOK, ReceiverPhases
<1>12. \A n \in ToSet(toR) : n = Closed
  BY <1>1 DEF TransferInv, ChannelInv, ForReceiver
<1>13. ChannelInv'
  <2>1. \A n \in ToSet(toR') : ForReceiver(n)'
    BY <1>1, <1>12 DEF ForReceiver
  <2>2. ASSUME NEW n \in ToSet(toS') PROVE ForSender(n)'
    <3>1. CASE n \in ToSet(toS)
      <4>1. ForSender(n) /\ n.type # "resume-complete"
        BY <1>3, <1>4, <3>1
      <4> QED
        BY <1>1, <1>2, <1>10, <4>1 DEF ForSender, Opening, Msg
    <3>2. CASE n \notin ToSet(toS)
      <4>1. n = m /\ Both
        BY <1>7, <1>10, <2>2, <3>2 DEF Both
      <4>2. s.pc = "waiting"
        BY <1>1, <4>1 DEF TransferInv, AgreeInv, Opening
      <4>3. report \subseteq disk.durable /\ \A b \in report : s.resumeEnd <= b
        BY DEF TransferInv, ReportInv
      <4> QED
        BY <1>1, <1>2, <4>1, <4>2, <4>3 DEF ForSender, Opening
    <3> QED
      BY <3>1, <3>2
  <2> QED
    BY <1>1, <1>7, <1>10, <2>1, <2>2 DEF TransferInv, ChannelInv
<1>14. SenderInv'
  BY <1>1 DEF TransferInv, SenderInv
<1>15. ReportInv'
  <2>1. \A x \in Carried(toS', "resume-ranges"), y \in report' : x < y
    BY <1>2, <1>9 DEF TransferInv, ReportInv
  <2> QED
    BY <1>1, <1>2, <2>1 DEF TransferInv, ReportInv
<1>16. QueueInv'
  <2>1. rPc' \in { "reporting", "receiving" } /\ Line(q) = << >>
    BY <1>1, <1>2 DEF TransferInv, QueueInv
  <2>2. ReceiverUp' => ~ q'.stopped /\ (q'.completing <=> rPc' \in { "finishing", "verifying" })
    BY <1>1, <1>10, <2>1 DEF TransferInv, QueueInv
  <2>3. handle' = "open"
    BY <1>1 DEF TransferInv, QueueInv
  <2>4. /\ q'.retained = Len(q'.pending) + Len(q'.batch)
        /\ \A i, j \in 1 .. Len(Line(q')) : i # j => Line(q')[i] # Line(q')[j]
        /\ stored' => Active(q') /\ ToSet(q'.batch) \subseteq disk'.durable
        /\ q'.completing /\ ~ q'.stopped /\ ~ Active(q') => q'.pending = << >>
        /\ Line(q') = << >>
    BY <1>1, <2>1, QueueItself DEF TransferInv
  <2> QED
    BY <2>1, <2>2, <2>3, <2>4 DEF QueueInv
<1>17. AgreeInv'
  <2>1. Both' /\ Open' => disk'.durable \subseteq
          s'.receipts \cup s'.inFlight \cup Carried(toS', "resume-ranges") \cup report'
    <3> SUFFICES ASSUME Both, Open
                 PROVE  disk.durable \subseteq
                          s.receipts \cup s.inFlight \cup Carried(toS', "resume-ranges") \cup report'
      BY <1>1, <1>10
    <3>1. disk.durable \subseteq
            s.receipts \cup s.inFlight \cup Carried(toS, "resume-ranges") \cup report
      BY <1>1 DEF TransferInv, AgreeInv
    <3>2. m.blocks \subseteq Carried(toS', "resume-ranges")
      BY <1>7, <1>9 DEF Both, Open
    <3> QED
      BY <1>2, <1>9, <3>1, <3>2
  <2>2. rPc' \notin { "finishing", "verifying" } /\ (Both' /\ rPc' \in Opening => s'.pc = "waiting")
    BY <1>1, <1>2, <1>10 DEF TransferInv, AgreeInv, Opening
  <2>3. Both' => s'.receipts \subseteq disk'.durable /\ Queued' \subseteq s'.inFlight
    BY <1>1, <1>10 DEF TransferInv, AgreeInv
  <2>4. Both' /\ Open' => s'.inFlight \subseteq DataOnWire' \cup Queued' \cup AcksOnWire'
    BY <1>1, <1>10 DEF TransferInv, AgreeInv
  <2>5. Cardinality(DataOnWire' \cup Queued') <= Window
    BY <1>10 DEF TransferInv, AgreeInv
  <2> QED
    BY <2>1, <2>2, <2>3, <2>4, <2>5 DEF AgreeInv
<1> QED
  BY <1>1, <1>11, <1>13, <1>14, <1>15, <1>16, <1>17 DEF TransferInv

-----------------------------------------------------------------------------
(* Steps of the sender.                                                    *)

\* A step of a sender that stays: what is left to show of it.
LEMMA SenderStays ==
  ASSUME TransferInv, SenderUp, SenderUp', s' \in Sender, SenderAs(s'),
         UNCHANGED << rPc, report, q, stored, disk, handle, verified, fault, failures >>,
         toR' \in Seq(Message), Distinct(toR'), ~ ReceiverUp => toR' = << >>,
         Closed \in ToSet(toR') <=> Closed \in ToSet(toR),
         \A m \in ToSet(toR') : ForReceiver(m)',
         toS' \in Seq(Message), Ordered(toS'),
         Closed \in ToSet(toS') <=> Closed \in ToSet(toS),
         \A m \in ToSet(toS') : ForSender(m)',
         ReceiverUp /\ rPc \in Opening => s'.pc = "waiting",
         ReceiverUp /\ rPc \in { "finishing", "verifying" } => s'.pc = "done",
         ReportInv',
         ReceiverUp => s'.receipts \subseteq disk.durable /\ Queued \subseteq s'.inFlight,
         Both /\ Open =>
           /\ s'.inFlight \subseteq DataOnWire' \cup Queued \cup AcksOnWire'
           /\ rPc \notin { "paired", "opening" } =>
                disk.durable \subseteq
                  s'.receipts \cup s'.inFlight \cup Carried(toS', "resume-ranges") \cup report
  PROVE  TransferInv'
<1>1. TypeOK'
  BY DEF TransferInv, TypeOK
<1>2. /\ Queued' = Queued /\ (ReceiverUp' <=> ReceiverUp) /\ (Both' <=> ReceiverUp)
      /\ (Both <=> ReceiverUp)
  BY QueuedAlone DEF ReceiverUp, Both
<1>3. ReceiverUp => (Open' <=> Open)
  BY <1>2 DEF Open
<1>4. ChannelInv'
  <2>1. Both' => (Closed \in ToSet(toR') <=> Closed \in ToSet(toS'))
    BY <1>2 DEF TransferInv, ChannelInv
  <2> QED
    BY <1>2, <2>1 DEF ChannelInv
<1>5. SenderInv'
  <2>1. s'.pc # "complete"
    BY DEF SenderUp, Sending
  <2> QED
    BY <2>1 DEF SenderInv
<1>6. QueueInv'
  BY QueueAlone DEF TransferInv
<1>7. AgreeInv'
  <2>1. ReceiverUp' => Cardinality(DataOnWire' \cup Queued') <= Window
    <3> SUFFICES ASSUME ReceiverUp PROVE Cardinality(DataOnWire' \cup Queued) <= Window
      BY <1>2
    <3>1. DataOnWire' \subseteq s'.inFlight
      <4>1. \A m \in ToSet(toR') : m.type = "data" => m.blocks \subseteq s'.inFlight
        BY MessageTypes DEF ForReceiver, Msg
      <4> QED
        BY <4>1 DEF DataOnWire, Carried
    <3>2. PICK T : T = DataOnWire' \cup Queued
      OBVIOUS
    <3>3. PICK F : F = s'.inFlight
      OBVIOUS
    <3>4. F \subseteq Blocks /\ T \subseteq F /\ Cardinality(F) <= Window
      BY <3>1, <3>2, <3>3, SenderFields DEF SenderAs
    <3>5. Cardinality(T) <= Cardinality(F) /\ Cardinality(T) \in Nat /\ Cardinality(F) \in Nat
      BY <3>4, SmallerSet, BlocksFinite
    <3> QED
      BY <3>2, <3>4, <3>5
  <2>2. Both' /\ Open' =>
          /\ s'.inFlight \subseteq DataOnWire' \cup Queued' \cup AcksOnWire'
          /\ rPc' \notin { "paired", "opening" } =>
               disk'.durable \subseteq
                 s'.receipts \cup s'.inFlight \cup Carried(toS', "resume-ranges") \cup report'
    BY <1>2, <1>3
  <2>3. rPc' \in { "finishing", "verifying" } => disk'.durable = Blocks
    BY DEF TransferInv, AgreeInv
  <2> QED
    BY <1>2, <2>1, <2>2, <2>3 DEF AgreeInv
<1> QED
  BY <1>1, <1>4, <1>5, <1>6, <1>7 DEF TransferInv

\* Marker: the completion marker is sent at the end of run() only.
LEMMA MarkerFacts ==
  ASSUME NEW chan \in Seq(Message), Distinct(chan), NEW n \in Sender,
         Msg("sender-complete", {}) \notin ToSet(chan), NEW new, new = Marker(n, chan)
  PROVE  /\ new \in Seq(Message) /\ Distinct(new)
         /\ ToSet(chan) \subseteq ToSet(new)
         /\ \A m \in ToSet(new) :
              \/ m \in ToSet(chan)
              \/ m = Msg("sender-complete", {}) /\ n.pc = "done" /\ ReceiverUp
         /\ ~ ReceiverUp => new = chan
         /\ Closed \in ToSet(new) <=> Closed \in ToSet(chan)
         /\ Carried(new, "data") = Carried(chan, "data")
<1>1. PICK m \in Message : /\ m = Msg("sender-complete", {})
                           /\ m.type = "sender-complete" /\ m.blocks = {}
  BY MessageTypes
<1>2. CASE n.pc = "done"
  <2>1. new = Sent(chan, m, ReceiverUp)
    BY <1>1, <1>2 DEF Marker
  <2>2. /\ new \in Seq(Message) /\ ToSet(chan) \subseteq ToSet(new)
        /\ ToSet(new) \subseteq ToSet(chan) \cup {m}
        /\ ~ ReceiverUp \/ Closed \in ToSet(chan) => new = chan
        /\ Closed \in ToSet(new) <=> Closed \in ToSet(chan)
        /\ Distinct(new)
    <3>1. m.type # "closed" /\ m \notin ToSet(chan)
      BY <1>1
    <3> QED
      BY <2>1, <3>1, UpIsBoolean, SentFacts
  <2>3. Carried(new, "data") = Carried(chan, "data")
    <3>1. "data" # m.type
      BY <1>1
    <3> QED
      BY <2>2, <3>1 DEF Carried
  <2> QED
    BY <1>1, <1>2, <2>2, <2>3
<1>3. CASE n.pc # "done"
  BY <1>3 DEF Marker
<1> QED
  BY <1>2, <1>3

\* run() goes on after its wait, in a connection that is past the resume report.
LEMMA WokenKeeps ==
  ASSUME TransferInv, SenderUp, s.pc # "done", ReceiverUp => rPc \notin Opening,
         NEW snd \in Sender, LoopInv(snd), Woken(snd), snd.resumeEnd = s.resumeEnd,
         UNCHANGED << rPc, report, q, stored, disk, handle, verified, fault, failures >>,
         toS' \in Seq(Message), Ordered(toS'),
         Closed \in ToSet(toS') <=> Closed \in ToSet(toS),
         \A m \in ToSet(toS') :
           \/ m = Closed
           \/ ForSender(m) /\ m.type = "ack" /\ m.blocks \subseteq snd.inFlight,
         \A m \in ToSet(toS) : m.type # "resume-ranges",
         ReceiverUp => /\ snd.receipts \subseteq disk.durable
                       /\ Queued \cup DataOnWire \subseteq snd.inFlight,
         Both /\ Open => snd.inFlight \subseteq DataOnWire \cup Queued \cup AcksOnWire',
         s.receipts \cup s.inFlight \subseteq snd.receipts \cup snd.inFlight
  PROVE  TransferInv'
<1>1. PICK n \in Sender :
        /\ s' = n /\ toR' = Marker(n, toR) /\ SenderAs(n)
        /\ n.pc \in { "read", "wait", "drain", "done" }
        /\ n.receipts = snd.receipts /\ n.inFlight = snd.inFlight /\ n.resumeEnd = s.resumeEnd
  BY AdvanceKeeps DEF Woken
<1>2. SenderUp' /\ Queued' = Queued /\ (ReceiverUp' <=> ReceiverUp) /\ (Both <=> ReceiverUp)
  BY <1>1, QueuedAlone DEF SenderUp, Sending, ReceiverUp, Both
<1>3. ReceiverUp => rPc = "receiving"
  BY DEF TransferInv, AgreeInv, ReceiverUp, Opening, Both
<1>4. /\ toR \in Seq(Message) /\ Distinct(toR) /\ (~ ReceiverUp => toR = << >>)
      /\ \A m \in ToSet(toR) : ForReceiver(m) /\ m \in Message
  BY InChannel DEF TransferInv, TypeOK, ChannelInv
<1>5. Msg("sender-complete", {}) \notin ToSet(toR)
  <2>1. ~ ForReceiver(Msg("sender-complete", {}))
    <3>1. /\ Msg("sender-complete", {}).type = "sender-complete"
          /\ Msg("manifest", {}).type = "manifest" /\ Closed.type = "closed"
      BY MessageTypes
    <3> QED
      BY <3>1 DEF ForReceiver
  <2> QED
    BY <1>4, <2>1
<1>6. /\ toR' \in Seq(Message) /\ Distinct(toR')
      /\ \A m \in ToSet(toR') :
           \/ m \in ToSet(toR)
           \/ m = Msg("sender-complete", {}) /\ n.pc = "done" /\ ReceiverUp
      /\ ~ ReceiverUp => toR' = toR
      /\ Closed \in ToSet(toR') <=> Closed \in ToSet(toR)
      /\ Carried(toR', "data") = Carried(toR, "data")
  <2>1. PICK new : new = toR'
    OBVIOUS
  <2>2. new = Marker(n, toR)
    BY <1>1, <2>1
  <2>3. /\ new \in Seq(Message) /\ Distinct(new)
        /\ \A m \in ToSet(new) :
             \/ m \in ToSet(toR)
             \/ m = Msg("sender-complete", {}) /\ n.pc = "done" /\ ReceiverUp
        /\ ~ ReceiverUp => new = toR
        /\ Closed \in ToSet(new) <=> Closed \in ToSet(toR)
        /\ Carried(new, "data") = Carried(toR, "data")
    BY <1>4, <1>5, <2>2, MarkerFacts
  <2> QED
    BY <2>1, <2>3
<1>7. DataOnWire' = DataOnWire
  BY <1>6 DEF DataOnWire
<1>8. ASSUME NEW m \in ToSet(toR') PROVE ForReceiver(m)'
  <2>1. CASE m \in ToSet(toR)
    <3>1. ForReceiver(m) /\ (m.type = "data" => m.blocks \subseteq DataOnWire)
      BY <1>4, <2>1 DEF DataOnWire, Carried
    <3>2. ReceiverUp
      BY <1>4, <2>1, SetOfEmpty
    <3>3. m # Msg("sender-complete", {})
      BY <1>5, <2>1
    <3> QED
      BY <1>1, <1>2, <1>3, <3>1, <3>2, <3>3 DEF ForReceiver
  <2>2. CASE m \notin ToSet(toR)
    <3>1. m = Msg("sender-complete", {}) /\ n.pc = "done" /\ rPc = "receiving" /\ ReceiverUp
      BY <1>3, <1>6, <1>8, <2>2
    <3>2. disk.durable = Blocks
      <4>1. Blocks \subseteq n.receipts
        BY <1>1, <3>1 DEF SenderAs, Blocks
      <4>2. disk.durable \subseteq Blocks
        BY DEF TransferInv, TypeOK
      <4> QED
        BY <1>1, <3>1, <4>1, <4>2
    <3> QED
      BY <1>1, <3>1, <3>2 DEF ForReceiver
  <2> QED
    BY <2>1, <2>2
<1>9. ASSUME NEW m \in ToSet(toS') PROVE ForSender(m)'
  <2>1. CASE m = Closed
    BY <2>1 DEF ForSender
  <2>2. CASE m # Closed
    <3>1. ForSender(m) /\ m.type = "ack" /\ m.blocks \subseteq n.inFlight
      BY <1>1, <1>9, <2>2
    <3>2. ReceiverUp => m.blocks \subseteq disk.durable \ Queued
      BY <3>1, MessageTypes DEF ForSender, Msg
    <3> QED
      BY <1>1, <1>2, <3>1, <3>2 DEF ForSender
  <2> QED
    BY <2>1, <2>2
<1>10. Carried(toS', "resume-ranges") = {} /\ Carried(toS, "resume-ranges") = {}
  <2>1. \A m \in ToSet(toS') : m.type # "resume-ranges"
    BY MessageTypes
  <2> QED
    BY <2>1 DEF Carried
<1>11. ReportInv'
  BY <1>1, <1>10 DEF TransferInv, ReportInv
<1>12. Both /\ Open =>
         /\ s'.inFlight \subseteq DataOnWire' \cup Queued \cup AcksOnWire'
         /\ rPc \notin { "paired", "opening" } =>
              disk.durable \subseteq
                s'.receipts \cup s'.inFlight \cup Carried(toS', "resume-ranges") \cup report
  <2> SUFFICES ASSUME Both, Open
               PROVE  /\ s'.inFlight \subseteq DataOnWire' \cup Queued \cup AcksOnWire'
                      /\ disk.durable \subseteq
                           s'.receipts \cup s'.inFlight
                             \cup Carried(toS', "resume-ranges") \cup report
    OBVIOUS
  <2>1. s'.inFlight \subseteq DataOnWire' \cup Queued \cup AcksOnWire'
    BY <1>1, <1>7
  <2>2. disk.durable \subseteq s.receipts \cup s.inFlight \cup report
    BY <1>2, <1>3, <1>10 DEF TransferInv, AgreeInv
  <2> QED
    BY <1>1, <2>1, <2>2
<1>13. /\ ReceiverUp /\ rPc \in Opening => s'.pc = "waiting"
       /\ ReceiverUp /\ rPc \in { "finishing", "verifying" } => s'.pc = "done"
       /\ ReceiverUp => s'.receipts \subseteq disk.durable /\ Queued \subseteq s'.inFlight
  BY <1>1, <1>3
<1>14. ~ ReceiverUp => toR' = << >>
  BY <1>4, <1>6
<1> QED
  BY <1>1, <1>2, <1>6, <1>8, <1>9, <1>11, <1>12, <1>13, <1>14, SenderStays

\* What a sender that has begun finds on its channel.
LEMMA SendingHears ==
  ASSUME TransferInv, SenderUp, s.pc # "waiting", NEW m \in ToSet(toS)
  PROVE  /\ m.type \notin { "resume-ranges", "resume-complete" }
         /\ s.pc # "done" => m = Closed \/ m.type = "ack"
         /\ m.type = "ack" => m.blocks \subseteq s.inFlight
<1>1. ForSender(m)
  BY DEF TransferInv, ChannelInv
<1> QED
  BY <1>1, MessageTypes DEF ForSender, Msg

LEMMA DataInFlight ==
  ASSUME TransferInv, SenderUp
  PROVE  DataOnWire \subseteq s.inFlight
<1>1. \A m \in ToSet(toR) : m.type = "data" => m.blocks \subseteq s.inFlight
  BY MessageTypes DEF TransferInv, ChannelInv, ForReceiver, Msg
<1> QED
  BY <1>1 DEF DataOnWire, Carried

LEMMA SetPausedKeeps ==
  ASSUME TransferInv, SetPaused
  PROVE  TransferInv'
<1>1. /\ Sending /\ toS' = toS
      /\ UNCHANGED << rPc, report, q, stored, disk, handle, verified, fault, failures >>
  BY DEF SetPaused, receiver, store
<1>2. PICK snd \in Sender :
        /\ snd = [ s EXCEPT !.paused = ~ @ ] /\ snd.pc = s.pc /\ snd.cursor = s.cursor
        /\ snd.receipts = s.receipts /\ snd.inFlight = s.inFlight
        /\ snd.resumeEnd = s.resumeEnd
  <2>1. PICK b \in BOOLEAN : b = ~ s.paused
    OBVIOUS
  <2>2. PICK snd : snd = [ s EXCEPT !.paused = b ]
    OBVIOUS
  <2>3. s \in Sender
    BY DEF TransferInv, TypeOK
  <2>4. /\ snd \in Sender /\ snd.pc = s.pc /\ snd.cursor = s.cursor
        /\ snd.receipts = s.receipts /\ snd.inFlight = s.inFlight
        /\ snd.resumeEnd = s.resumeEnd
    BY <2>2, <2>3 DEF Sender
  <2> QED
    BY <2>1, <2>2, <2>4
<1>3. SenderUp /\ s.pc \in { "read", "wait", "drain" } /\ (Both <=> ReceiverUp)
  BY <1>1 DEF SenderUp, Sending, Both
<1>4. /\ toS' \in Seq(Message) /\ Ordered(toS')
      /\ \A m \in ToSet(toS) : ForSender(m)
  <2>1. toS \in Seq(Message) /\ Ordered(toS) /\ \A m \in ToSet(toS) : ForSender(m)
    BY DEF TransferInv, TypeOK, ChannelInv
  <2> QED
    BY <1>1, <2>1
<1>5. ReceiverUp => /\ snd.receipts \subseteq disk.durable
                    /\ Queued \cup DataOnWire \subseteq snd.inFlight
  BY <1>2, <1>3, DataInFlight DEF TransferInv, AgreeInv
<1>6. AcksOnWire' = AcksOnWire
  BY <1>1 DEF AcksOnWire
<1>7. CASE s.pc = "read"
  <2>1. s' = snd /\ toR' = toR
    BY <1>2, <1>7 DEF SetPaused
  <2>2. /\ SenderUp' /\ (ReceiverUp' <=> ReceiverUp) /\ Queued' = Queued
        /\ DataOnWire' = DataOnWire
    BY <1>1, <1>2, <1>7, <2>1
      DEF SenderUp, Sending, ReceiverUp, Queued, DataOnWire
  <2>3. \A m \in ToSet(toR') : ForReceiver(m)'
    <3>1. \A m \in ToSet(toR) : ForReceiver(m)
      BY DEF TransferInv, ChannelInv
    <3> QED
      BY <1>1, <1>2, <1>3, <2>1, <2>2, <3>1 DEF ForReceiver
  <2>4. \A m \in ToSet(toS') : ForSender(m)'
    BY <1>1, <1>2, <1>4, <2>1, <2>2 DEF ForSender
  <2>5. SenderAs(s')
    BY <1>2, <1>7, <2>1 DEF TransferInv, SenderInv, SenderAs
  <2>6. ReportInv'
    BY <1>1, <1>2, <2>1 DEF TransferInv, ReportInv
  <2>7. /\ toR' \in Seq(Message) /\ Distinct(toR') /\ (~ ReceiverUp => toR' = << >>)
    BY <2>1 DEF TransferInv, TypeOK, ChannelInv
  <2>8. /\ ReceiverUp /\ rPc \in Opening => s'.pc = "waiting"
        /\ ReceiverUp /\ rPc \in { "finishing", "verifying" } => s'.pc = "done"
    BY <1>2, <1>3, <2>1 DEF TransferInv, AgreeInv
  <2>9. Both /\ Open =>
         /\ s'.inFlight \subseteq DataOnWire' \cup Queued \cup AcksOnWire'
         /\ rPc \notin { "paired", "opening" } =>
              disk.durable \subseteq
                s'.receipts \cup s'.inFlight \cup Carried(toS', "resume-ranges") \cup report
    BY <1>1, <1>2, <1>6, <2>1, <2>2 DEF TransferInv, AgreeInv
  <2> QED
    BY <1>1, <1>2, <1>3, <1>4, <1>5,
       <2>1, <2>2, <2>3, <2>4, <2>5, <2>6, <2>7, <2>8, <2>9, SenderStays
<1>8. CASE s.pc # "read"
  <2>1. Woken(snd)
    BY <1>2, <1>8 DEF SetPaused
  <2>2. LoopInv(snd)
    BY <1>2 DEF TransferInv, SenderInv, SenderAs, LoopInv
  <2>3. ReceiverUp => rPc \notin Opening
    BY <1>3 DEF TransferInv, AgreeInv
  <2>4. \A m \in ToSet(toS') :
           \/ m = Closed
           \/ ForSender(m) /\ m.type = "ack" /\ m.blocks \subseteq snd.inFlight
    BY <1>1, <1>2, <1>3, <1>4, SendingHears
  <2>5. \A m \in ToSet(toS) : m.type # "resume-ranges"
    BY <1>3, SendingHears
  <2>6. Both /\ Open => snd.inFlight \subseteq DataOnWire \cup Queued \cup AcksOnWire'
    BY <1>2, <1>6 DEF TransferInv, AgreeInv
  <2> QED
    BY <1>1, <1>2, <1>3, <1>4, <1>5, <2>1, <2>2, <2>3, <2>4, <2>5, <2>6, WokenKeeps
<1> QED
  BY <1>7, <1>8

LEMMA ResumeCompleteKeeps ==
  ASSUME TransferInv, ResumeComplete
  PROVE  TransferInv'
<1>1. /\ toS # << >> /\ Head(toS).type = "resume-complete" /\ toS' = Tail(toS)
      /\ UNCHANGED << rPc, report, q, stored, disk, handle, verified, fault, failures >>
  BY DEF ResumeComplete, GetS, KeepS, receiver, store
<1>2. /\ SenderUp /\ ForSender(Head(toS)) /\ Head(toS) \in Message
      /\ Kept(Tail(toS), toS) /\ Tail(toS) \in Seq(Message)
      /\ ToSet(toS) = { Head(toS) } \cup ToSet(Tail(toS))
      /\ \A n \in ToSet(Tail(toS)) : InOrder(Head(toS), n) /\ ForSender(n) /\ n \in Message
  BY <1>1, HeadOfS
<1>3. s.pc = "waiting" /\ rPc \notin Opening
  BY <1>1, <1>2, MessageTypes DEF ForSender, Msg
<1>4. Woken(s)
  BY <1>3 DEF ResumeComplete
<1>5. s \in Sender /\ LoopInv(s)
  BY DEF TransferInv, TypeOK, SenderInv, SenderAs, LoopInv
<1>6. Ordered(toS') /\ (Closed \in ToSet(toS') <=> Closed \in ToSet(toS))
  <2>1. Closed # Head(toS)
    BY <1>1, MessageTypes
  <2> QED
    BY <1>1, <1>2, <2>1 DEF TransferInv, ChannelInv, Kept
<1>7. \A n \in ToSet(toS') :
        \/ n = Closed
        \/ ForSender(n) /\ n.type = "ack" /\ n.blocks \subseteq s.inFlight
  <2>1. \A n \in ToSet(toS') : n.type \notin { "resume-ranges", "resume-complete" }
    BY <1>1, <1>2 DEF InOrder
  <2> QED
    BY <1>1, <1>2, <1>3, <2>1, MessageTypes DEF ForSender, Msg
<1>8. \A n \in ToSet(toS) : n.type # "resume-ranges"
  BY <1>1, <1>2 DEF InOrder
<1>9. Both <=> ReceiverUp
  BY <1>2 DEF Both
<1>10. ReceiverUp => /\ s.receipts \subseteq disk.durable
                     /\ Queued \cup DataOnWire \subseteq s.inFlight
  BY <1>2, <1>9, DataInFlight DEF TransferInv, AgreeInv
<1>11. AcksOnWire' = AcksOnWire
  BY <1>1, <1>2 DEF AcksOnWire, Carried
<1>12. Both /\ Open => s.inFlight \subseteq DataOnWire \cup Queued \cup AcksOnWire'
  BY <1>11 DEF TransferInv, AgreeInv
<1> QED
  BY <1>1, <1>2, <1>3, <1>4, <1>5, <1>6, <1>7, <1>8, <1>10, <1>12, WokenKeeps

LEMMA AckKeeps ==
  ASSUME TransferInv, Ack
  PROVE  TransferInv'
<1>1. /\ toS # << >> /\ Head(toS).type = "ack"
      /\ UNCHANGED << rPc, report, q, stored, disk, handle, verified, failures >>
  BY DEF Ack, GetS, KeepS, SenderFault, receiver, store
<1>2. /\ SenderUp /\ ForSender(Head(toS)) /\ Head(toS) \in Message
      /\ Kept(Tail(toS), toS) /\ Tail(toS) \in Seq(Message)
      /\ ToSet(toS) = { Head(toS) } \cup ToSet(Tail(toS))
      /\ \A n \in ToSet(Tail(toS)) : InOrder(Head(toS), n) /\ ForSender(n) /\ n \in Message
  BY <1>1, HeadOfS
<1>3. PICK known \in SUBSET Blocks : known = Head(toS).blocks
  BY <1>2 DEF Message
<1>4. known \subseteq s.inFlight /\ (ReceiverUp => known \subseteq disk.durable \ Queued)
  BY <1>1, <1>2, <1>3, MessageTypes DEF ForSender, Msg
<1>5. PICK snd \in Sender :
        /\ snd = [ s EXCEPT !.inFlight = @ \ known, !.receipts = @ \cup known ]
        /\ snd.pc = s.pc /\ snd.cursor = s.cursor /\ snd.resumeEnd = s.resumeEnd
        /\ snd.paused = s.paused /\ snd.armed = s.armed
        /\ snd.inFlight = s.inFlight \ known /\ snd.receipts = s.receipts \cup known
  <2>1. s \in Sender
    BY DEF TransferInv, TypeOK
  <2>2. PICK i \in SUBSET Blocks : i = s.inFlight \ known
    BY <2>1, SenderFields
  <2>3. PICK r \in SUBSET Blocks : r = s.receipts \cup known
    BY <2>1, SenderFields
  <2>4. PICK snd : snd = [ s EXCEPT !.inFlight = i, !.receipts = r ]
    OBVIOUS
  <2>5. /\ snd \in Sender
        /\ snd.pc = s.pc /\ snd.cursor = s.cursor /\ snd.resumeEnd = s.resumeEnd
        /\ snd.paused = s.paused /\ snd.armed = s.armed
        /\ snd.inFlight = i /\ snd.receipts = r
    BY <2>1, <2>4 DEF Sender
  <2> QED
    BY <2>2, <2>3, <2>4, <2>5
<1>6. /\ toS' = Tail(toS) /\ fault' = fault
      /\ IF s.pc \in { "wait", "drain" } /\ snd # s THEN Woken(snd) ELSE s' = snd /\ toR' = toR
  BY <1>3, <1>4, <1>5 DEF Ack, KeepS, receiver, store
<1>7. (Both <=> ReceiverUp) /\ (ReceiverUp' <=> ReceiverUp) /\ Queued' = Queued
  BY <1>1, <1>2, QueuedAlone DEF Both, ReceiverUp
<1>8. /\ toS' \in Seq(Message) /\ Ordered(toS')
      /\ Closed \in ToSet(toS') <=> Closed \in ToSet(toS)
      /\ \A n \in ToSet(toS') : n \in ToSet(toS) /\ ForSender(n) /\ n \in Message
  <2>1. Closed # Head(toS)
    BY <1>1, MessageTypes
  <2> QED
    BY <1>2, <1>6, <2>1 DEF TransferInv, ChannelInv, Kept
<1>9. ASSUME NEW n \in ToSet(toS'), n.type = "ack" PROVE n.blocks \subseteq snd.inFlight
  <2>1. n.blocks \subseteq s.inFlight
    BY <1>8, <1>9, MessageTypes DEF ForSender, Msg
  <2>2. known \cap n.blocks = {}
    BY <1>1, <1>2, <1>3, <1>6, <1>9 DEF InOrder
  <2> QED
    BY <1>5, <2>1, <2>2
<1>10. ReceiverUp => /\ snd.receipts \subseteq disk.durable
                     /\ Queued \cup DataOnWire \subseteq snd.inFlight
  <2> SUFFICES ASSUME ReceiverUp
               PROVE  /\ snd.receipts \subseteq disk.durable
                      /\ Queued \cup DataOnWire \subseteq snd.inFlight
    OBVIOUS
  <2>1. s.receipts \subseteq disk.durable /\ Queued \subseteq s.inFlight
    BY <1>7 DEF TransferInv, AgreeInv
  <2>2. DataOnWire \cap disk.durable = {}
    <3>1. \A m \in ToSet(toR) : m.type = "data" => m.blocks \cap disk.durable = {}
      BY MessageTypes DEF TransferInv, ChannelInv, ForReceiver, Msg
    <3> QED
      BY <3>1 DEF DataOnWire, Carried
  <2>3. DataOnWire \subseteq s.inFlight
    BY <1>2, DataInFlight
  <2> QED
    BY <1>4, <1>5, <2>1, <2>2, <2>3
<1>11. AcksOnWire \subseteq known \cup AcksOnWire'
  BY <1>2, <1>3, <1>6 DEF AcksOnWire, Carried
<1>12. Both /\ Open => snd.inFlight \subseteq DataOnWire \cup Queued \cup AcksOnWire'
  <2>1. Both /\ Open => s.inFlight \subseteq DataOnWire \cup Queued \cup AcksOnWire
    BY DEF TransferInv, AgreeInv
  <2> QED
    BY <1>5, <1>11, <2>1
<1>13. LoopInv(snd) /\ Cardinality(snd.inFlight) <= Cardinality(s.inFlight)
  <2>1. s.inFlight \subseteq Blocks /\ Cardinality(s.inFlight) <= Window
    BY SenderFields DEF TransferInv, TypeOK, SenderInv, SenderAs
  <2>2. PICK F : F = s.inFlight
    OBVIOUS
  <2>3. PICK G : G = snd.inFlight
    OBVIOUS
  <2>4. /\ Cardinality(G) <= Cardinality(F)
        /\ Cardinality(G) \in Nat /\ Cardinality(F) \in Nat
    <3>1. F \subseteq Blocks /\ G \subseteq F
      BY <1>5, <2>1, <2>2, <2>3
    <3> QED
      BY <3>1, SmallerSet, BlocksFinite
  <2>5. Cardinality(snd.inFlight) <= Window
    BY <2>1, <2>2, <2>3, <2>4
  <2> QED
    BY <1>5, <2>2, <2>3, <2>4, <2>5 DEF TransferInv, SenderInv, SenderAs, LoopInv
<1>14. CASE s.pc \in { "wait", "drain" } /\ snd # s
  <2>1. ReceiverUp => rPc \notin Opening
    BY <1>7, <1>14 DEF TransferInv, AgreeInv
  <2>2. \A m \in ToSet(toS') :
           \/ m = Closed
           \/ ForSender(m) /\ m.type = "ack" /\ m.blocks \subseteq snd.inFlight
    BY <1>2, <1>8, <1>9, <1>14, SendingHears
  <2>3. \A m \in ToSet(toS) : m.type # "resume-ranges"
    BY <1>2, <1>14, SendingHears
  <2>4. s.receipts \cup s.inFlight \subseteq snd.receipts \cup snd.inFlight
    BY <1>5
  <2>5. Woken(snd) /\ s.pc # "done" /\ snd.resumeEnd = s.resumeEnd
    BY <1>5, <1>6, <1>14
  <2> QED
    BY <1>1, <1>2, <1>6, <1>8, <1>10, <1>12, <1>13, <2>1, <2>2, <2>3, <2>4, <2>5, WokenKeeps
<1>15. CASE ~ (s.pc \in { "wait", "drain" } /\ snd # s)
  <2>1. s' = snd /\ toR' = toR
    BY <1>6, <1>15
  <2>2. SenderUp' /\ DataOnWire' = DataOnWire
    BY <1>2, <1>5, <2>1 DEF SenderUp, Sending, DataOnWire
  <2>3. /\ toR' \in Seq(Message) /\ Distinct(toR') /\ (~ ReceiverUp => toR' = << >>)
    BY <2>1 DEF TransferInv, TypeOK, ChannelInv
  <2>4. ASSUME NEW m \in ToSet(toR') PROVE ForReceiver(m)'
    <3>1. ForReceiver(m) /\ (m.type = "data" => m.blocks \subseteq DataOnWire)
      BY <2>1 DEF TransferInv, ChannelInv, DataOnWire, Carried
    <3>2. ReceiverUp
      BY <2>1, <2>3, SetOfEmpty
    <3> QED
      BY <1>1, <1>2, <1>5, <1>7, <1>10, <2>1, <2>2, <3>1, <3>2 DEF ForReceiver
  <2>5. ASSUME NEW m \in ToSet(toS') PROVE ForSender(m)'
    BY <1>1, <1>5, <1>7, <1>8, <1>9, <2>1 DEF ForSender
  <2>6. SenderAs(s')
    <3>1. SenderAs(s)
      BY DEF TransferInv, SenderInv
    <3>2. LoopInv(s')
      BY <1>13, <2>1
    <3>3. s'.pc = "read" => s'.cursor \in Blocks \ s'.receipts
      BY <1>4, <1>5, <2>1, <3>1 DEF SenderAs, Blocks
    <3>4. s'.pc = "read" => Cardinality(s'.inFlight) < Window
      <4>1. PICK F : F = s.inFlight
        OBVIOUS
      <4>2. PICK G : G = snd.inFlight
        OBVIOUS
      <4>3. F \subseteq Blocks /\ G \subseteq Blocks /\ Cardinality(G) <= Cardinality(F)
        BY <1>5, <1>13, <4>1, <4>2, SenderFields DEF TransferInv, TypeOK
      <4>4. Cardinality(F) \in Nat /\ Cardinality(G) \in Nat
        BY <4>3, BlocksFinite
      <4>5. s.pc = "read" => Cardinality(F) < Window
        BY <3>1, <4>1 DEF SenderAs
      <4> QED
        BY <1>5, <2>1, <4>2, <4>3, <4>4, <4>5
    <3>5. /\ s'.pc = "done" => s'.cursor = NumBlocks + 1 /\ s'.inFlight = {}
          /\ s'.pc \in { "wait", "drain" } /\ s'.paused => ~ s'.armed
      BY <1>5, <2>1, <3>1 DEF SenderAs
    <3> QED
      BY <3>2, <3>3, <3>4, <3>5 DEF SenderAs, LoopInv
  <2>7. Carried(toS', "resume-ranges") = Carried(toS, "resume-ranges")
    BY <1>1, <1>2, <1>6 DEF Carried
  <2>8. ReportInv'
    BY <1>1, <1>5, <2>1, <2>7 DEF TransferInv, ReportInv
  <2>9. /\ ReceiverUp /\ rPc \in Opening => s'.pc = "waiting"
        /\ ReceiverUp /\ rPc \in { "finishing", "verifying" } => s'.pc = "done"
    BY <1>5, <1>7, <2>1 DEF TransferInv, AgreeInv
  <2>10. Both /\ Open =>
          /\ s'.inFlight \subseteq DataOnWire' \cup Queued \cup AcksOnWire'
          /\ rPc \notin { "paired", "opening" } =>
               disk.durable \subseteq
                 s'.receipts \cup s'.inFlight \cup Carried(toS', "resume-ranges") \cup report
    <3>1. Both /\ Open /\ rPc \notin { "paired", "opening" } =>
            disk.durable \subseteq
              s.receipts \cup s.inFlight \cup Carried(toS, "resume-ranges") \cup report
      BY DEF TransferInv, AgreeInv
    <3>2. s.receipts \cup s.inFlight \subseteq s'.receipts \cup s'.inFlight
      BY <1>5, <2>1
    <3> QED
      BY <1>12, <2>1, <2>2, <2>7, <3>1, <3>2
  <2>11. ReceiverUp => s'.receipts \subseteq disk.durable /\ Queued \subseteq s'.inFlight
    BY <1>10, <2>1
  <2>12. s' \in Sender /\ (Closed \in ToSet(toR') <=> Closed \in ToSet(toR))
    BY <2>1
  <2> QED
    BY <1>1, <1>2, <1>6, <1>8,
       <2>2, <2>3, <2>4, <2>5, <2>6, <2>8, <2>9, <2>10, <2>11, <2>12, SenderStays
<1> QED
  BY <1>14, <1>15

LEMMA ResumeRangeKeeps ==
  ASSUME TransferInv, ResumeRange
  PROVE  TransferInv'
<1>1. /\ toS # << >> /\ Head(toS).type = "resume-ranges"
      /\ UNCHANGED << rPc, report, q, stored, disk, handle, verified, failures >>
  BY DEF ResumeRange, GetS, KeepS, SenderFault, receiver, store
<1>2. /\ SenderUp /\ ForSender(Head(toS)) /\ Head(toS) \in Message
      /\ Kept(Tail(toS), toS) /\ Tail(toS) \in Seq(Message)
      /\ ToSet(toS) = { Head(toS) } \cup ToSet(Tail(toS))
      /\ \A n \in ToSet(Tail(toS)) : InOrder(Head(toS), n) /\ ForSender(n) /\ n \in Message
  BY <1>1, HeadOfS
<1>3. PICK range \in SUBSET Blocks : range = Head(toS).blocks
  BY <1>2 DEF Message
<1>4. /\ s.pc = "waiting" /\ range # {} /\ rPc \notin { "paired", "opening" }
      /\ \A b \in range : s.resumeEnd <= b
      /\ ReceiverUp => range \subseteq disk.durable
  BY <1>1, <1>2, <1>3, MessageTypes DEF ForSender, Msg
<1>5. PICK top \in Blocks :
        top = Max(range) /\ (\A y \in range : top >= y) /\ top \in range
  BY <1>4, MaxOfBlocks
<1>6. ~ (Min(range) < s.resumeEnd)
  <2>1. PICK low \in Blocks : low = Min(range) /\ low \in range
    BY <1>4, MinOfBlocks
  <2>2. low \in Int /\ s.resumeEnd \in Int
    BY SenderFields DEF Blocks, TransferInv, TypeOK
  <2> QED
    BY <1>4, <2>1, <2>2
<1>7. PICK snd \in Sender :
        /\ snd = [ s EXCEPT !.receipts = @ \cup range, !.resumeEnd = Max(range) + 1 ]
        /\ snd.pc = s.pc /\ snd.cursor = s.cursor /\ snd.paused = s.paused
        /\ snd.armed = s.armed /\ snd.inFlight = s.inFlight
        /\ snd.receipts = s.receipts \cup range /\ snd.resumeEnd = top + 1
  <2>1. s \in Sender
    BY DEF TransferInv, TypeOK
  <2>2. PICK r \in SUBSET Blocks : r = s.receipts \cup range
    BY <2>1, SenderFields
  <2>3. PICK e \in 1 .. NumBlocks + 1 : e = top + 1
    BY DEF Blocks
  <2>4. PICK snd : snd = [ s EXCEPT !.receipts = r, !.resumeEnd = e ]
    OBVIOUS
  <2>5. /\ snd \in Sender
        /\ snd.pc = s.pc /\ snd.cursor = s.cursor /\ snd.paused = s.paused
        /\ snd.armed = s.armed /\ snd.inFlight = s.inFlight
        /\ snd.receipts = r /\ snd.resumeEnd = e
    BY <2>1, <2>4 DEF Sender
  <2> QED
    BY <1>5, <2>2, <2>3, <2>4, <2>5
<1>8. s' = snd /\ toR' = toR /\ toS' = Tail(toS) /\ fault' = fault
  BY <1>3, <1>4, <1>6, <1>7 DEF ResumeRange, KeepS
<1>9. (Both <=> ReceiverUp) /\ (ReceiverUp' <=> ReceiverUp) /\ Queued' = Queued
      /\ SenderUp' /\ DataOnWire' = DataOnWire
  BY <1>1, <1>2, <1>4, <1>7, <1>8, QueuedAlone
    DEF Both, ReceiverUp, SenderUp, Sending, DataOnWire
<1>10. /\ toS' \in Seq(Message) /\ Ordered(toS')
       /\ Closed \in ToSet(toS') <=> Closed \in ToSet(toS)
       /\ \A n \in ToSet(toS') : ForSender(n) /\ InOrder(Head(toS), n)
  <2>1. Closed # Head(toS)
    BY <1>1, MessageTypes
  <2> QED
    BY <1>2, <1>8, <2>1 DEF TransferInv, ChannelInv, Kept
<1>11. ASSUME NEW n \in ToSet(toS') PROVE ForSender(n)'
  <2>1. n.type = "resume-ranges" => \A b \in n.blocks : snd.resumeEnd <= b
    <3> SUFFICES ASSUME n.type = "resume-ranges", NEW b \in n.blocks PROVE top + 1 <= b
      BY <1>7
    <3>1. top < b
      BY <1>1, <1>3, <1>5, <1>10, <1>11 DEF InOrder
    <3>2. b \in Int /\ top \in Int
      BY <1>2, <1>8, <1>11 DEF Message, Blocks
    <3> QED
      BY <3>1, <3>2
  <2>2. ForSender(n)
    BY <1>10, <1>11
  <2> QED
    BY <1>1, <1>4, <1>7, <1>8, <1>9, <2>1, <2>2, MessageTypes DEF ForSender, Msg
<1>12. \A m \in ToSet(toR') : ForReceiver(m)'
  <2>1. \A m \in ToSet(toR) : ForReceiver(m)
    BY DEF TransferInv, ChannelInv
  <2> QED
    BY <1>1, <1>2, <1>7, <1>8, <1>9, <2>1 DEF ForReceiver
<1>13. SenderAs(s')
  BY <1>4, <1>7, <1>8 DEF TransferInv, SenderInv, SenderAs
<1>14. /\ Carried(toS', "resume-ranges") \subseteq Carried(toS, "resume-ranges")
       /\ range \subseteq Carried(toS, "resume-ranges")
       /\ Carried(toS, "resume-ranges") \subseteq range \cup Carried(toS', "resume-ranges")
       /\ AcksOnWire' = AcksOnWire
  BY <1>1, <1>2, <1>3, <1>8 DEF Carried, AcksOnWire
<1>15. ReportInv'
  <2>1. \A b \in report : s'.resumeEnd <= b
    <3> SUFFICES ASSUME NEW b \in report PROVE top + 1 <= b
      BY <1>7, <1>8
    <3>1. top < b
      BY <1>5, <1>14 DEF TransferInv, ReportInv
    <3>2. b \in Int /\ top \in Int
      BY DEF TransferInv, TypeOK, Blocks
    <3> QED
      BY <3>1, <3>2
  <2> QED
    BY <1>1, <1>4, <1>14, <2>1 DEF TransferInv, ReportInv
<1>16. /\ ReceiverUp /\ rPc \in Opening => s'.pc = "waiting"
       /\ ReceiverUp /\ rPc \in { "finishing", "verifying" } => s'.pc = "done"
       /\ ReceiverUp => s'.receipts \subseteq disk.durable /\ Queued \subseteq s'.inFlight
  BY <1>4, <1>7, <1>8, <1>9 DEF TransferInv, AgreeInv
<1>17. Both /\ Open =>
         /\ s'.inFlight \subseteq DataOnWire' \cup Queued \cup AcksOnWire'
         /\ rPc \notin { "paired", "opening" } =>
              disk.durable \subseteq
                s'.receipts \cup s'.inFlight \cup Carried(toS', "resume-ranges") \cup report
  <2>1. Both /\ Open =>
         /\ s.inFlight \subseteq DataOnWire \cup Queued \cup AcksOnWire
         /\ rPc \notin { "paired", "opening" } =>
              disk.durable \subseteq
                s.receipts \cup s.inFlight \cup Carried(toS, "resume-ranges") \cup report
    BY DEF TransferInv, AgreeInv
  <2> QED
    BY <1>7, <1>8, <1>9, <1>14, <2>1
<1>18. /\ s' \in Sender /\ (Closed \in ToSet(toR') <=> Closed \in ToSet(toR))
       /\ toR' \in Seq(Message) /\ Distinct(toR') /\ (~ ReceiverUp => toR' = << >>)
  BY <1>7, <1>8 DEF TransferInv, TypeOK, ChannelInv
<1> QED
  BY <1>1, <1>2, <1>8, <1>9, <1>10, <1>11, <1>12, <1>13, <1>15, <1>16, <1>17, <1>18,
     SenderStays

LEMMA ReadDoneKeeps ==
  ASSUME TransferInv, ReadDone
  PROVE  TransferInv'
<1>1. /\ s.pc = "read" /\ toS' = toS
      /\ UNCHANGED << rPc, report, q, stored, disk, handle, verified, fault, failures >>
  BY DEF ReadDone, receiver, store
<1>2. PICK c : c = s.cursor
  OBVIOUS
<1>3. /\ s \in Sender /\ s.inFlight \subseteq 1 .. c - 1 /\ c \in Blocks \ s.receipts
      /\ 1 .. c - 1 \subseteq s.receipts \cup s.inFlight
      /\ Cardinality(s.inFlight) < Window
  BY <1>1, <1>2 DEF TransferInv, TypeOK, SenderInv, SenderAs
<1>4. c \in Int /\ c \notin s.inFlight
  BY <1>3 DEF Blocks
<1>5. PICK snd \in Sender :
        /\ snd = [ s EXCEPT !.inFlight = @ \cup {s.cursor}, !.cursor = @ + 1 ]
        /\ snd.inFlight = s.inFlight \cup {c} /\ snd.cursor = c + 1
        /\ snd.receipts = s.receipts /\ snd.resumeEnd = s.resumeEnd
  <2>1. PICK i \in SUBSET Blocks : i = s.inFlight \cup {c}
    BY <1>3, SenderFields
  <2>2. PICK d \in 1 .. NumBlocks + 1 : d = c + 1
    BY <1>3 DEF Blocks
  <2>3. PICK snd : snd = [ s EXCEPT !.inFlight = i, !.cursor = d ]
    OBVIOUS
  <2>4. /\ snd \in Sender /\ snd.inFlight = i /\ snd.cursor = d
        /\ snd.receipts = s.receipts /\ snd.resumeEnd = s.resumeEnd
    BY <1>3, <2>3 DEF Sender
  <2> QED
    BY <1>2, <2>1, <2>2, <2>3, <2>4
<1>6. LoopInv(snd)
  <2>1. PICK F \in SUBSET Blocks : F = s.inFlight
    BY <1>3, SenderFields
  <2>2. Cardinality(F \cup {c}) = Cardinality(F) + 1 /\ Cardinality(F) \in Nat
    BY <1>3, <1>4, <2>1, OneMore, BlocksFinite
  <2>3. Cardinality(snd.inFlight) <= Window
    <3>1. Cardinality(snd.inFlight) = Cardinality(F) + 1 /\ Cardinality(F) < Window
      <4>1. snd.inFlight = F \cup {c}
        BY <1>5, <2>1
      <4> QED
        BY <1>3, <2>1, <2>2, <4>1
    <3> QED
      BY <2>2, <3>1
  <2> QED
    BY <1>3, <1>4, <1>5, <2>3 DEF LoopInv, Blocks
<1>7. PICK n \in Sender :
        /\ n = Advance(snd) /\ SenderAs(n)
        /\ n.pc \in { "read", "wait", "drain" }
        /\ n.receipts = s.receipts /\ n.inFlight = s.inFlight \cup {c}
        /\ n.resumeEnd = s.resumeEnd
  <2>1. PICK n \in Sender :
          /\ n = Advance(snd) /\ SenderAs(n)
          /\ n.pc \in { "read", "wait", "drain", "done" }
          /\ n.receipts = snd.receipts /\ n.inFlight = snd.inFlight
          /\ n.resumeEnd = snd.resumeEnd
    BY <1>6, AdvanceKeeps
  <2>2. n.pc # "done"
    BY <1>5, <2>1 DEF SenderAs
  <2> QED
    BY <1>5, <2>1, <2>2
<1>8. PICK m \in Message : m = Msg("data", {c}) /\ m.type = "data" /\ m.blocks = {c}
  <2>1. {c} \in SUBSET Blocks
    BY <1>3
  <2> QED
    BY <2>1, MessageTypes
<1>9. s' = n /\ toR' = Sent(toR, m, ReceiverUp)
  <2>1. s' = n
    BY <1>5, <1>7 DEF ReadDone
  <2>2. toR' = Marker(n, Sent(toR, m, ReceiverUp))
    BY <1>2, <1>5, <1>7, <1>8 DEF ReadDone
  <2> QED
    BY <1>7, <2>1, <2>2 DEF Marker
<1>10. /\ SenderUp /\ SenderUp' /\ (Both <=> ReceiverUp) /\ (ReceiverUp' <=> ReceiverUp)
       /\ Queued' = Queued
  BY <1>1, <1>7, <1>9, QueuedAlone DEF SenderUp, Sending, Both, ReceiverUp
<1>11. ReceiverUp => rPc = "receiving"
  BY <1>1, <1>10 DEF TransferInv, AgreeInv, ReceiverUp, Opening
<1>12. /\ toR \in Seq(Message) /\ Distinct(toR) /\ (~ ReceiverUp => toR = << >>)
       /\ \A k \in ToSet(toR) : ForReceiver(k) /\ k \in Message
  BY InChannel DEF TransferInv, TypeOK, ChannelInv
<1>13. m \notin ToSet(toR)
  <2>1. ~ ForReceiver(m)
    BY <1>4, <1>8, <1>10, MessageTypes DEF ForReceiver, Msg
  <2> QED
    BY <1>12, <2>1
<1>14. /\ toR' \in Seq(Message) /\ ToSet(toR) \subseteq ToSet(toR')
       /\ ToSet(toR') \subseteq ToSet(toR) \cup {m} /\ Distinct(toR')
       /\ ReceiverUp /\ Closed \notin ToSet(toR) => ToSet(toR') = ToSet(toR) \cup {m}
       /\ ~ ReceiverUp \/ Closed \in ToSet(toR) => toR' = toR
       /\ Closed \in ToSet(toR') <=> Closed \in ToSet(toR)
  <2>1. m.type # "closed"
    BY <1>8
  <2> QED
    BY <1>9, <1>12, <1>13, <2>1, UpIsBoolean, SentFacts
<1>15. /\ DataOnWire \subseteq DataOnWire'
       /\ ReceiverUp /\ Closed \notin ToSet(toR) => c \in DataOnWire'
  BY <1>8, <1>14 DEF DataOnWire, Carried
<1>16. Carried(toS, "resume-ranges") = {} /\ Carried(toS', "resume-ranges") = {}
  <2>1. \A k \in ToSet(toS) : k.type # "resume-ranges"
    BY <1>1, <1>10, SendingHears
  <2> QED
    BY <1>1, <2>1 DEF Carried
<1>17. ReceiverUp /\ Closed \notin ToSet(toR) => c \notin disk.durable
  <2> SUFFICES ASSUME ReceiverUp, Closed \notin ToSet(toR) PROVE c \notin disk.durable
    OBVIOUS
  <2>1. Both /\ Open
    BY <1>10 DEF Open, TransferInv, ChannelInv
  <2>2. report = {} /\ rPc = "receiving"
    BY <1>11 DEF TransferInv, ReportInv
  <2>3. disk.durable \subseteq s.receipts \cup s.inFlight
    BY <1>16, <2>1, <2>2 DEF TransferInv, AgreeInv
  <2> QED
    BY <1>3, <1>4, <2>3
<1>18. ReceiverUp => s.receipts \subseteq disk.durable /\ Queued \subseteq s.inFlight
  BY <1>10 DEF TransferInv, AgreeInv
<1>19. ASSUME NEW k \in ToSet(toR') PROVE ForReceiver(k)'
  <2>1. CASE k \in ToSet(toR)
    <3>1. ForReceiver(k) /\ s.pc # "done"
      BY <1>1, <1>12, <2>1
    <3> QED
      BY <1>1, <1>7, <1>9, <1>10, <3>1 DEF ForReceiver
  <2>2. CASE k \notin ToSet(toR)
    <3>1. k = m /\ ReceiverUp /\ Closed \notin ToSet(toR)
      BY <1>14, <1>19, <2>2
    <3>2. c \notin disk.durable \cup Queued
      BY <1>4, <1>17, <1>18, <3>1
    <3> QED
      BY <1>1, <1>3, <1>7, <1>8, <1>9, <1>10, <1>11, <3>1, <3>2 DEF ForReceiver
  <2> QED
    BY <2>1, <2>2
<1>20. ASSUME NEW k \in ToSet(toS') PROVE ForSender(k)'
  <2>1. ForSender(k)
    BY <1>1, <1>20 DEF TransferInv, ChannelInv
  <2> QED
    BY <1>1, <1>7, <1>9, <1>10, <2>1 DEF ForSender
<1>21. ReportInv'
  BY <1>1, <1>7, <1>9, <1>16 DEF TransferInv, ReportInv
<1>22. /\ ReceiverUp /\ rPc \in Opening => s'.pc = "waiting"
       /\ ReceiverUp /\ rPc \in { "finishing", "verifying" } => s'.pc = "done"
       /\ ReceiverUp => s'.receipts \subseteq disk.durable /\ Queued \subseteq s'.inFlight
  BY <1>7, <1>9, <1>11, <1>18 DEF Opening
<1>23. Both /\ Open =>
         /\ s'.inFlight \subseteq DataOnWire' \cup Queued \cup AcksOnWire'
         /\ rPc \notin { "paired", "opening" } =>
              disk.durable \subseteq
                s'.receipts \cup s'.inFlight \cup Carried(toS', "resume-ranges") \cup report
  <2>1. Both /\ Open =>
         /\ s.inFlight \subseteq DataOnWire \cup Queued \cup AcksOnWire
         /\ rPc \notin { "paired", "opening" } =>
              disk.durable \subseteq
                s.receipts \cup s.inFlight \cup Carried(toS, "resume-ranges") \cup report
    BY DEF TransferInv, AgreeInv
  <2>2. AcksOnWire' = AcksOnWire
    BY <1>1 DEF AcksOnWire
  <2>3. Open => Closed \notin ToSet(toR)
    BY DEF Open
  <2> QED
    BY <1>7, <1>9, <1>10, <1>15, <1>16, <2>1, <2>2, <2>3
<1>24. /\ toS' \in Seq(Message) /\ Ordered(toS')
       /\ Closed \in ToSet(toS') <=> Closed \in ToSet(toS)
  BY <1>1 DEF TransferInv, TypeOK, ChannelInv
<1>25. s' \in Sender /\ SenderAs(s') /\ (~ ReceiverUp => toR' = << >>)
  BY <1>7, <1>9, <1>12, <1>14
<1> QED
  BY <1>1, <1>10, <1>14, <1>19, <1>20, <1>21, <1>22, <1>23, <1>24, <1>25, SenderStays

-----------------------------------------------------------------------------
(* A block arrives.                                                        *)

\* What has not arrived leaves room for it in the queue.
LEMMA RoomForBlock ==
  ASSUME TransferInv, ReceiverUp, NEW b \in Blocks, b \in DataOnWire, b \notin Queued
  PROVE  q.retained < MaxRetained
<1>1. PICK T \in SUBSET Blocks : T = Queued
  BY WireTypes DEF TransferInv
<1>2. PICK U \in SUBSET Blocks : U = DataOnWire \cup Queued
  BY WireTypes DEF TransferInv
<1>3. PICK V \in SUBSET Blocks : V = T \cup {b}
  OBVIOUS
<1>4. /\ Cardinality(V) = Cardinality(T) + 1
      /\ Cardinality(T) \in Nat /\ Cardinality(U) \in Nat /\ Cardinality(V) \in Nat
  BY <1>1, <1>3, OneMore, BlocksFinite
<1>5. Cardinality(V) <= Cardinality(U)
  BY <1>1, <1>2, <1>3, SmallerSet
<1>6. Cardinality(U) <= Window
  BY <1>2 DEF TransferInv, AgreeInv
<1>7. PICK u \in Seq(Blocks) :
        /\ u = Line(q) /\ ToSet(u) = T
        /\ \A i, j \in 1 .. Len(u) : i # j => u[i] # u[j]
  BY <1>1, QueuedIsLine DEF TransferInv, QueueInv
<1>8. Len(u) <= Cardinality(T)
  BY <1>7, LengthOfDistinct
<1>9. q.retained = Len(u) /\ q.retained \in Nat
  BY <1>7, QueueFacts, RetainedIsLine, QueueFields
<1> QED
  BY <1>4, <1>5, <1>6, <1>8, <1>9, WindowAssumption, CommitQueueAssumption

LEMMA DataKeeps ==
  ASSUME TransferInv, Data
  PROVE  TransferInv'
<1>1. /\ toR # << >> /\ Head(toR).type = "data"
  BY DEF Data, GetR
<1>2. /\ ReceiverUp /\ ForReceiver(Head(toR)) /\ Head(toR) \in Message
      /\ Kept(Tail(toR), toR) /\ Tail(toR) \in Seq(Message)
      /\ ToSet(toR) = { Head(toR) } \cup ToSet(Tail(toR))
      /\ Head(toR) # Closed => Head(toR) \notin ToSet(Tail(toR))
      /\ \A n \in ToSet(Tail(toR)) : ForReceiver(n) /\ n \in Message
  BY <1>1, HeadOfR
<1>3. PICK b \in Blocks :
        /\ Head(toR).blocks = {b} /\ b \notin disk.durable /\ b \notin Queued
        /\ rPc = "receiving" /\ (SenderUp => b \in s.inFlight)
  BY <1>1, <1>2, MessageTypes DEF ForReceiver, Msg
<1>4. Accepts(q)
  <2>1. b \in DataOnWire
    BY <1>1, <1>2, <1>3 DEF DataOnWire, Carried
  <2>2. ~ q.stopped /\ ~ q.completing
    BY <1>2, <1>3 DEF TransferInv, QueueInv
  <2> QED
    BY <1>2, <1>3, <2>1, <2>2, RoomForBlock DEF Accepts
<1>5. /\ q' = Enqueued(q, b) /\ toR' = Tail(toR)
      /\ UNCHANGED << s, toS, rPc, report, stored, disk, handle, verified, fault, failures >>
  BY <1>3, <1>4 DEF Data, KeepR
<1>6. PICK r : r = q'
  OBVIOUS
<1>7. /\ r \in Queue(Blocks) /\ Line(r) = Append(Line(q), b)
      /\ r.retained = q.retained + 1 /\ r.stopped = q.stopped
      /\ r.completing = q.completing /\ (Active(q) => r.batch = q.batch)
  BY <1>5, <1>6, QueueFacts, EnqueuedKeeps
<1>8. TypeOK'
  BY <1>2, <1>5, <1>6, <1>7 DEF TransferInv, TypeOK
<1>9. Queued' = Queued \cup {b}
  <2>1. ToSet(Line(q')) = Queued'
    BY <1>8, QueueFields DEF Queued, TypeOK
  <2>2. ToSet(Append(Line(q), b)) = ToSet(Line(q)) \cup {b}
    BY QueuedIsLine, SetOfAppend DEF TransferInv
  <2> QED
    BY <1>6, <1>7, <2>1, <2>2, QueuedIsLine DEF TransferInv
<1>10. /\ DataOnWire = DataOnWire' \cup {b} /\ AcksOnWire' = AcksOnWire
       /\ DataOnWire' \cup Queued' = DataOnWire \cup Queued
  <2>1. DataOnWire = DataOnWire' \cup {b}
    BY <1>1, <1>2, <1>3, <1>5 DEF DataOnWire, Carried
  <2> QED
    BY <1>5, <1>9, <2>1 DEF AcksOnWire
<1>11. /\ Closed \in ToSet(toR') <=> Closed \in ToSet(toR)
       /\ Distinct(toR') /\ toR' \in Seq(Message)
  <2>1. Closed # Head(toR)
    BY <1>1, MessageTypes
  <2> QED
    BY <1>2, <1>5, <2>1 DEF TransferInv, ChannelInv, Kept
<1>12. /\ SenderUp' <=> SenderUp
       /\ ReceiverUp' /\ ReceiverUp
       /\ Both' <=> Both
       /\ Open' <=> Open
  BY <1>2, <1>5, <1>11 DEF SenderUp, Sending, ReceiverUp, Both, Open
<1>13. ChannelInv'
  <2>1. ASSUME NEW m \in ToSet(toR') PROVE ForReceiver(m)'
    <3>1. ForReceiver(m) /\ m \in Message
      BY <1>2, <1>5, <2>1
    <3>2. m.type = "data" => m.blocks # {b}
      <4>1. m # Head(toR)
        BY <1>1, <1>2, <1>5, <2>1, MessageTypes
      <4> QED
        BY <1>1, <1>2, <1>3, <3>1, <4>1, SameMessage
    <3> QED
      BY <1>5, <1>9, <1>12, <3>1, <3>2 DEF ForReceiver
  <2>2. ASSUME NEW m \in ToSet(toS') PROVE ForSender(m)'
    <3>1. ForSender(m)
      BY <1>5, <2>2 DEF TransferInv, ChannelInv
    <3> QED
      BY <1>3, <1>5, <1>9, <1>12, <3>1 DEF ForSender
  <2>3. Ordered(toS') /\ (Closed \in ToSet(toS') <=> Closed \in ToSet(toS))
    BY <1>5 DEF TransferInv, ChannelInv
  <2>4. ~ SenderUp' => toS' = << >>
    BY <1>5, <1>12 DEF TransferInv, ChannelInv
  <2>5. Both' => (Closed \in ToSet(toR') <=> Closed \in ToSet(toS'))
    BY <1>11, <1>12, <2>3 DEF TransferInv, ChannelInv
  <2> QED
    BY <1>11, <1>12, <2>1, <2>2, <2>3, <2>4, <2>5 DEF ChannelInv
<1>14. SenderInv' /\ ReportInv'
  BY <1>5 DEF TransferInv, SenderInv, ReportInv
<1>15. QueueInv'
  <2>1. r.retained = Len(r.pending) + Len(r.batch)
    <3>1. Len(Append(Line(q), b)) = Len(Line(q)) + 1
      BY QueuedIsLine DEF TransferInv
    <3>2. /\ Len(Line(r)) = Len(r.pending) + Len(r.batch)
          /\ Len(Line(q)) = Len(q.pending) + Len(q.batch)
      BY <1>7, QueueFacts, RetainedIsLine
    <3> QED
      BY <1>7, <3>1, <3>2, QueueFacts
  <2>2. NoneTwice(Line(r))
    BY <1>3, <1>7, QueueFacts, QueuedIsLine, LineWithOneMore DEF TransferInv
  <2>3. stored => Active(r) /\ ToSet(r.batch) \subseteq disk.durable
    BY <1>7 DEF TransferInv, QueueInv, Active
  <2>4. ~ r.stopped /\ ~ r.completing
    BY <1>2, <1>3, <1>7 DEF TransferInv, QueueInv
  <2>5. rPc' = "receiving" /\ handle' = "open" /\ stored' = stored /\ disk' = disk
    BY <1>3, <1>5 DEF TransferInv, QueueInv
  <2>6. r.completing = FALSE
    BY <1>7, <2>4 DEF Queue
  <2> QED
    BY <1>6, <2>1, <2>2, <2>3, <2>4, <2>5, <2>6 DEF QueueInv, NoneTwice
<1>16. AgreeInv'
  <2>1. Cardinality(DataOnWire' \cup Queued') <= Window
    BY <1>2, <1>10 DEF TransferInv, AgreeInv
  <2>2. Both' /\ Open' => s'.inFlight \subseteq DataOnWire' \cup Queued' \cup AcksOnWire'
    BY <1>5, <1>10, <1>12 DEF TransferInv, AgreeInv
  <2>3. Both' => s'.receipts \subseteq disk'.durable /\ Queued' \subseteq s'.inFlight
    BY <1>3, <1>5, <1>9, <1>12 DEF TransferInv, AgreeInv, Both
  <2>4. Both' /\ Open' => disk'.durable \subseteq
          s'.receipts \cup s'.inFlight \cup Carried(toS', "resume-ranges") \cup report'
    BY <1>3, <1>5, <1>12 DEF TransferInv, AgreeInv
  <2>5. rPc' = "receiving"
    BY <1>3, <1>5
  <2> QED
    BY <2>1, <2>2, <2>3, <2>4, <2>5 DEF AgreeInv, Opening
<1> QED
  BY <1>8, <1>13, <1>14, <1>15, <1>16, <1>5 DEF TransferInv

-----------------------------------------------------------------------------
(* The invariant and what follows from it.                                 *)

LEMMA TransferInit == Init => TransferInv
<1> SUFFICES ASSUME Init PROVE TransferInv
  OBVIOUS
<1>1. /\ s = NewSender("off") /\ toR = << >> /\ toS = << >>
      /\ rPc = "off" /\ report = {} /\ q = NewQueue /\ stored = FALSE
      /\ disk = [ durable |-> {}, bad |-> {} ] /\ disk.durable = {}
      /\ handle = "closed" /\ verified = FALSE /\ fault = {} /\ failures = 0
  BY DEF Init
<1>2. s \in Sender /\ s.pc = "off" /\ SenderAs(s)
  BY <1>1, NewSenderFields, NewSenderKeeps DEF SenderPcs
<1>3. /\ NewQueue \in Queue(Blocks) /\ ~ Active(NewQueue)
      /\ NewQueue.pending = << >> /\ NewQueue.batch = << >> /\ NewQueue.retained = 0
      /\ ~ NewQueue.completing
  BY EmptySeq DEF NewQueue, Queue, Active
<1>4. Line(q) = << >> /\ Len(<< >>) = 0
  BY <1>1, <1>3, EmptyLine, EmptySeq
<1>5. << >> \in Seq(Message) /\ ToSet(<< >>) = {}
  BY EmptySeq, SetOfEmpty
<1>6. TypeOK
  <2>1. disk \in [ durable : SUBSET Blocks, bad : SUBSET Blocks ]
    BY <1>1
  <2>2. 0 \in 0 .. MaxFailures
    OBVIOUS
  <2>3. toR \in Seq(Message) /\ toS \in Seq(Message) /\ q \in Queue(Blocks)
    BY <1>1, <1>3, <1>5
  <2> QED
    BY <1>1, <1>2, <2>1, <2>2, <2>3 DEF TypeOK, ReceiverPhases
<1>7. ~ ReceiverUp /\ ~ SenderUp
  BY <1>1, <1>2 DEF ReceiverUp, SenderUp, Sending
<1>8. ChannelInv
  BY <1>1, <1>4, <1>5, <1>7 DEF ChannelInv, Distinct, Ordered, Both
<1>9. SenderInv /\ ReportInv
  BY <1>1, <1>2 DEF SenderInv, ReportInv
<1>10. QueueInv
  BY <1>1, <1>3, <1>4, <1>7 DEF QueueInv
<1>11. AgreeInv
  BY <1>1, <1>7 DEF AgreeInv, Both
<1> QED
  BY <1>1, <1>6, <1>8, <1>9, <1>10, <1>11 DEF TransferInv

LEMMA TransferStutters ==
  ASSUME TransferInv, UNCHANGED vars
  PROVE  TransferInv'
<1>1. UNCHANGED << s, toR, toS, rPc, report, q, stored, disk, handle, verified, fault, failures >>
  BY DEF vars
<1>2. /\ SenderUp' <=> SenderUp
      /\ ReceiverUp' <=> ReceiverUp
      /\ Both' <=> Both
      /\ Open' <=> Open
      /\ DataOnWire' = DataOnWire /\ AcksOnWire' = AcksOnWire /\ Queued' = Queued
  BY <1>1 DEF SenderUp, Sending, ReceiverUp, Both, Open, DataOnWire, AcksOnWire, Queued
<1>3. TypeOK'
  BY <1>1 DEF TransferInv, TypeOK
<1>4. ChannelInv'
  <2>1. ASSUME NEW m PROVE ForReceiver(m) => ForReceiver(m)'
    BY <1>1, <1>2 DEF ForReceiver
  <2>2. ASSUME NEW m PROVE ForSender(m) => ForSender(m)'
    BY <1>1, <1>2 DEF ForSender
  <2>3. ChannelInv
    BY DEF TransferInv
  <2>4. \A m \in ToSet(toR') : ForReceiver(m)'
    BY <1>1, <2>1, <2>3 DEF ChannelInv
  <2>5. \A m \in ToSet(toS') : ForSender(m)'
    BY <1>1, <2>2, <2>3 DEF ChannelInv
  <2>6. Distinct(toR') /\ Ordered(toS')
    BY <1>1, <2>3 DEF ChannelInv
  <2> QED
    BY <1>1, <1>2, <2>3, <2>4, <2>5, <2>6 DEF ChannelInv
<1>5. SenderInv' /\ ReportInv'
  BY <1>1 DEF TransferInv, SenderInv, ReportInv
<1>6. QueueInv'
  BY <1>1, QueueAlone DEF TransferInv
<1>7. AgreeInv'
  BY <1>1, <1>2 DEF TransferInv, AgreeInv
<1> QED
  BY <1>1, <1>3, <1>4, <1>5, <1>6, <1>7 DEF TransferInv

LEMMA TransferNext == TransferInv /\ [Next]_vars => TransferInv'
<1> SUFFICES ASSUME TransferInv, [Next]_vars PROVE TransferInv'
  OBVIOUS
<1>1. CASE SenderStep
  BY <1>1, ReadDoneKeeps, SetPausedKeeps, SenderEndsKeeps, ResumeRangeKeeps,
     ResumeCompleteKeeps, AckKeeps, ReceiverCompleteKeeps DEF SenderStep
<1>2. CASE ReceiverStep
  <2>1. CASE Manifest \/ StoreOpened \/ SendResumeState \/ Data
    BY <2>1, ManifestKeeps, StoreOpenedKeeps, SendResumeStateKeeps, DataKeeps
  <2>2. CASE CommitTimer \/ StoreCommits \/ CommitReturns \/ CommitThrows
    BY <2>2, CommitTimerKeeps, StoreCommitsKeeps, CommitReturnsKeeps, CommitThrowsKeeps
  <2>3. CASE SenderComplete \/ FinishReturns \/ VerifyOk
    BY <2>3, SenderCompleteKeeps, FinishReturnsKeeps, VerifyOkKeeps
  <2>4. CASE VerifyMismatch \/ VerifyMismatchStays \/ ReceiverClosed
    BY <2>4, ReceiverEndsKeeps
  <2>5. CASE CloseStore \/ Reset \/ SaveAndReset
    BY <2>5, CloseStoreKeeps, ResetKeeps
  <2> QED
    BY <1>2, <2>1, <2>2, <2>3, <2>4, <2>5 DEF ReceiverStep
<1>3. CASE Connect \/ ConnectionLost \/ SenderStops \/ ReceiverStops \/ ReceiverDies \/ Rot
  BY <1>3, ConnectKeeps, ConnectionLostKeeps, SenderEndsKeeps, ReceiverEndsKeeps,
     ReceiverDiesKeeps, RotKeeps
<1>4. CASE UNCHANGED vars
  BY <1>4, TransferStutters
<1> QED
  BY <1>1, <1>2, <1>3, <1>4 DEF Next

\* Whatever is lost, stopped, timed out, crashed or rotten, and whatever the number of
\* blocks, the two ends stay in step: what each may still find on the channel, how far
\* each is, and which blocks are on the wire, in the queue or on their way back.
THEOREM AlwaysInStep == Spec => []TransferInv
<1>1. Init => TransferInv
  BY TransferInit
<1>2. TransferInv /\ [Next]_vars => TransferInv'
  BY TransferNext
<1> QED
  BY <1>1, <1>2, PTL DEF Spec

\* The sender holds a receipt, and is sent an acknowledgement, only for a block whose
\* receipt is on the receiver's disk, and it shows "verified" only after the receiver
\* has matched the stream hash.
THEOREM SenderKnowsOnlyWhatIsDurable == Spec => []SenderKnowsOnlyDurable
<1>1. TransferInv => SenderKnowsOnlyDurable
  <2> SUFFICES ASSUME TransferInv PROVE SenderKnowsOnlyDurable
    OBVIOUS
  <2>1. ASSUME SenderUp, ReceiverUp PROVE s.receipts \cup AcksOnWire \subseteq disk.durable
    <3>1. s.receipts \subseteq disk.durable
      BY <2>1 DEF TransferInv, AgreeInv, Both
    <3>2. \A m \in ToSet(toS) : m.type = "ack" => m.blocks \subseteq disk.durable
      BY <2>1, MessageTypes DEF TransferInv, ChannelInv, ForSender, Msg
    <3> QED
      BY <3>1, <3>2 DEF AcksOnWire, Carried
  <2> QED
    BY <2>1 DEF TransferInv, SenderInv, SenderKnowsOnlyDurable
<1> QED
  BY <1>1, AlwaysInStep, PTL

\* No block drops out of the window's account: while the connection is up the blocks in
\* flight are those on the wire, in the receive queue or on their way back.
THEOREM WindowIsAccounted == Spec => []WindowAccount
<1>1. TransferInv => WindowAccount
  <2> SUFFICES ASSUME TransferInv, SenderUp, ReceiverUp,
                      Closed \notin ToSet(toR) \cup ToSet(toS)
               PROVE  s.inFlight = DataOnWire \cup Queued \cup AcksOnWire
    BY DEF WindowAccount
  <2>1. /\ Queued \subseteq s.inFlight
        /\ s.inFlight \subseteq DataOnWire \cup Queued \cup AcksOnWire
    BY DEF TransferInv, AgreeInv, Both, Open
  <2>2. DataOnWire \subseteq s.inFlight
    BY DataInFlight
  <2>3. \A m \in ToSet(toS) : m.type = "ack" => m.blocks \subseteq s.inFlight
    BY MessageTypes DEF TransferInv, ChannelInv, ForSender, Msg
  <2> QED
    BY <2>1, <2>2, <2>3 DEF AcksOnWire, Carried
<1> QED
  BY <1>1, AlwaysInStep, PTL

\* Two ends that follow the code never accuse each other, whatever happens to their
\* connections: no message comes too early, twice or beyond the receive window; and
\* the sender's timer never runs while it is paused.
THEOREM NoFaultEver == Spec => []NoProtocolFault
<1>1. TransferInv => NoProtocolFault
  <2> SUFFICES ASSUME TransferInv PROVE NoProtocolFault
    OBVIOUS
  <2>1. \A m \in ToSet(toR) :
          m.type = "data" => m.blocks \cap (disk.durable \cup Queued) = {}
    BY MessageTypes DEF TransferInv, ChannelInv, ForReceiver, Msg
  <2>2. DataOnWire \cap (disk.durable \cup Queued) = {}
    BY <2>1 DEF DataOnWire, Carried
  <2> QED
    BY <2>2 DEF TransferInv, SenderInv, SenderAs, NoProtocolFault
<1> QED
  BY <1>1, AlwaysInStep, PTL

\* A store that is closed, which another session may have opened since, has no commit
\* under way that could still write to it.
THEOREM ClosedStoreIsQuiet == Spec => []NoWriteAfterClose
<1>1. TransferInv => NoWriteAfterClose
  <2> SUFFICES ASSUME TransferInv, handle = "closed" PROVE ~ Active(q)
    BY DEF NoWriteAfterClose
  <2>1. Line(q) = << >>
    BY DEF TransferInv, QueueInv
  <2> QED
    BY <2>1, QueuedIsLine DEF TransferInv
<1> QED
  BY <1>1, AlwaysInStep, PTL
=============================================================================
