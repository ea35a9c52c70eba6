--------------------------- MODULE OfflineTransfer ---------------------------
(***************************************************************************)
(* One folder sent over direct connections until it has arrived.           *)
(*   sender     OfflineSourceSender (src/lib/webrtc-transfer.ts) and its   *)
(*              message handler in WebRtcSender.tsx                        *)
(*   receiver   OfflineDestinationReceiver, DurableReceiveQueue and the    *)
(*              message handler in WebRtcReceiver.tsx                      *)
(*   toR, toS   the ordered data channel, one sequence per direction       *)
(*   disk       the receive store, which outlives every connection         *)
(* A connection starts when both users have confirmed the device code.     *)
(* Code between two awaits runs to completion, so an action goes from one  *)
(* await to the next.  An "error" or "cancel" message only announces the   *)
(* close that follows it and is folded into the Closed marker.  The byte   *)
(* limits on buffered messages never bind before the block window does     *)
(* (96 blocks of 60 KiB and 44 bytes are less than 8 MiB) and are left out.*)
(***************************************************************************)
EXTENDS CommitQueue, FiniteSetsExt, SequencesExt

CONSTANTS
  NumBlocks,     \* totalBlocks of the manifest
  Window,        \* MAX_IN_FLIGHT_BLOCKS
  MaxFailures    \* bound: losses, stops, timeouts, crashes, rotten blocks

ASSUME TransferAssumption ==
  /\ NumBlocks \in Nat \ {0}
  /\ Window \in Nat \ {0}
  /\ MaxFailures \in Nat

\* 96 blocks in flight, room for 192 in the receive queue.
ASSUME WindowAssumption == Window <= MaxRetained

Blocks == 1 .. NumBlocks

VARIABLES
  s,          \* the sender, a record of type Sender
  toR, toS,   \* messages on their way to the receiver and to the sender
  rPc,        \* the receiver's phase
  report,     \* received blocks still to be reported
  q,          \* the receive queue
  stored,     \* has the active commit reached the disk?
  disk,       \* receipts on disk, and those of them whose payload has rotted
  handle,     \* the receiver's store: "closed", "opening" or "open"
  verified,   \* did the receiver verify the stream on this connection?
  fault,      \* protocol errors one side accused the other of
  failures

vars == << s, toR, toS, rPc, report, q, stored, disk, handle, verified, fault, failures >>
store == << q, stored, disk, handle >>
receiver == << rPc, report, store, verified >>

Sender ==
  [ pc : { "off", "waiting", "read", "wait", "drain", "done", "complete" },
    cursor : 1 .. NumBlocks + 1,     \* next index of run()'s loop
    receipts : SUBSET Blocks,
    inFlight : SUBSET Blocks,
    resumeEnd : 1 .. NumBlocks + 1,  \* first index a later range may start at
    paused : BOOLEAN,
    armed : BOOLEAN ]                \* the two-minute timer of waitForWake is set

NewSender(pc) ==
  [ pc |-> pc, cursor |-> 1, receipts |-> {}, inFlight |-> {}, resumeEnd |-> 1,
    paused |-> FALSE, armed |-> FALSE ]

Msg(type, blocks) == [ type |-> type, blocks |-> blocks ]
Closed == Msg("closed", {})
Message ==
  [ type : { "manifest", "data", "sender-complete", "resume-ranges",
             "resume-complete", "ack", "receiver-complete", "closed" },
    blocks : SUBSET Blocks ]

Faults == { "resume", "ack", "completion", "data", "window", "incomplete" }

ReceiverPhases ==
  { "off", "paired", "opening", "reporting", "receiving", "finishing",
    "verifying", "complete", "failed" }

TypeOK ==
  /\ s \in Sender
  /\ toR \in Seq(Message) /\ toS \in Seq(Message)
  /\ rPc \in ReceiverPhases
  /\ report \in SUBSET Blocks
  /\ q \in Queue(Blocks)
  /\ stored \in BOOLEAN
  /\ disk \in [ durable : SUBSET Blocks, bad : SUBSET Blocks ]
  /\ handle \in { "closed", "opening", "open" }
  /\ verified \in BOOLEAN
  /\ fault \in SUBSET Faults
  /\ failures \in 0 .. MaxFailures

Init ==
  /\ s = NewSender("off")
  /\ toR = << >> /\ toS = << >>
  /\ rPc = "off" /\ report = {}
  /\ q = NewQueue /\ stored = FALSE
  /\ disk = [ durable |-> {}, bad |-> {} ]
  /\ handle = "closed"
  /\ verified = FALSE
  /\ fault = {} /\ failures = 0
-----------------------------------------------------------------------------
(* The channel.                                                            *)

Sending == s.pc \in { "read", "wait", "drain" }
SenderUp == s.pc = "waiting" \/ Sending \/ s.pc = "done"
ReceiverUp ==
  rPc \in { "paired", "opening", "reporting", "receiving", "finishing", "verifying" }

\* channel.send(): nothing more gets through once either end has closed.
Sent(chan, m, peerUp) ==
  IF peerUp /\ Closed \notin ToSet(chan) THEN Append(chan, m) ELSE chan

\* What a closing end leaves for its peer: some of what it had sent, then the
\* end.  close() of the peer connection does not wait for buffered messages.
CutShort(chan, peerUp) ==
  CASE ~ peerUp -> { << >> }
    [] peerUp /\ Closed \in ToSet(chan) -> { chan }
    [] OTHER -> { Append(SubSeq(chan, 1, n), Closed) : n \in 0 .. Len(chan) }

SenderEnds(pc) ==
  /\ s' = NewSender(pc)
  /\ toS' = << >>
  /\ toR' \in CutShort(toR, ReceiverUp)

\* terminateConnection() of the receiver, with what the queue becomes.
ReceiverEnds(phase, stopped) ==
  /\ rPc' = phase
  /\ report' = {}
  /\ q' = stopped
  /\ toR' = << >>
  /\ toS' \in CutShort(toS, SenderUp)

Fails == failures < MaxFailures /\ failures' = failures + 1
-----------------------------------------------------------------------------
(* Connecting, and what goes wrong with connections.                       *)

\* Both ends paired and confirmed: maybeAuthorize() sends the manifest.
Connect ==
  /\ s.pc \in { "off", "complete" } /\ rPc = "off"
  /\ s' = NewSender("waiting")
  /\ rPc' = "paired"
  /\ toR' = << Msg("manifest", {}) >> /\ toS' = << >>
  /\ q' = NewQueue
  /\ verified' = FALSE
  /\ UNCHANGED << report, stored, disk, handle, fault, failures >>

ConnectionLost ==
  /\ SenderUp /\ ReceiverUp /\ Fails
  /\ toR' \in CutShort(toR, TRUE)
  /\ toS' \in CutShort(toS, TRUE)
  /\ UNCHANGED << s, receiver, fault >>

\* Stop and reconnect, a failed read of the source, or the tab is gone.
SenderStops ==
  /\ SenderUp /\ Fails
  /\ SenderEnds("off")
  /\ UNCHANGED << receiver, fault >>

\* The user resets, the store cannot be opened, the tree is not valid.
ReceiverStops ==
  /\ ReceiverUp /\ Fails
  /\ ReceiverEnds("failed", StopQueue(q))
  /\ UNCHANGED << s, stored, disk, handle, verified, fault >>

\* The receiver's tab dies; of a batch being committed a part may survive.
ReceiverDies ==
  /\ rPc # "off" /\ Fails
  /\ ReceiverEnds("off", NewQueue)
  /\ stored' = FALSE
  /\ handle' = "closed"
  /\ \E n \in 0 .. Len(q.batch) :
       disk' = [ disk EXCEPT !.durable = @ \cup ToSet(SubSeq(q.batch, 1, n)) ]
  /\ UNCHANGED << s, verified, fault >>

\* A stored block no longer reads back as it was received.
Rot ==
  /\ Fails
  /\ \E b \in disk.durable : disk' = [ disk EXCEPT !.bad = @ \cup {b} ]
  /\ UNCHANGED << s, toR, toS, rPc, report, q, stored, handle, verified, fault >>
-----------------------------------------------------------------------------
(* The sender.  run() is a loop with an await in waitUntilWritable, in the  *)
(* read of the source and in the final wait for acknowledgements; Advance   *)
(* takes it from one await to the next.                                     *)

\* Mutant: run() sends every block again.
MissingFromStart(snd) == snd.cursor .. NumBlocks

\* The blocks run() has yet to send.
MissingFrom(snd) == { b \in snd.cursor .. NumBlocks : b \notin snd.receipts }

\* Mutant: no timer is set.
WaitUnarmed(snd, pc) == [ snd EXCEPT !.pc = pc, !.armed = FALSE ]

\* waitForWake(): the timer is not set during a pause.
Wait(snd, pc) == [ snd EXCEPT !.pc = pc, !.armed = ~ snd.paused ]

Advance(snd) ==
  LET next == MissingFrom(snd)
      at(c) == [ snd EXCEPT !.cursor = c, !.armed = FALSE ]
  IN  IF next # {}
      THEN IF snd.paused \/ Cardinality(snd.inFlight) >= Window
           THEN Wait(at(Min(next)), "wait")
           ELSE [ at(Min(next)) EXCEPT !.pc = "read" ]
      ELSE IF snd.inFlight # {}
           THEN Wait(at(NumBlocks + 1), "drain")
           ELSE [ at(NumBlocks + 1) EXCEPT !.pc = "done" ]

\* The messages run() sends on the way: the completion marker at its end.
Marker(snd, chan) ==
  IF snd.pc = "done" THEN Sent(chan, Msg("sender-complete", {}), ReceiverUp) ELSE chan

\* A waiter was woken, which resumes run().
Woken(snd) ==
  LET next == Advance(snd)
  IN  /\ s' = next
      /\ toR' = Marker(next, toR)

\* The source read is finished: send the block, go on.
ReadDone ==
  /\ s.pc = "read"
  /\ LET snd == [ s EXCEPT !.inFlight = @ \cup {s.cursor}, !.cursor = @ + 1 ]
         next == Advance(snd)
     IN  /\ s' = next
         /\ toR' = Marker(next, Sent(toR, Msg("data", {s.cursor}), ReceiverUp))
  /\ UNCHANGED << toS, receiver, fault, failures >>

\* Mutant: the flag is set but nobody is woken.
SetPausedSilently ==
  /\ Sending
  /\ s' = [ s EXCEPT !.paused = ~ @ ]
  /\ toR' = toR
  /\ UNCHANGED << toS, receiver, fault, failures >>

SetPaused ==
  /\ Sending
  /\ LET snd == [ s EXCEPT !.paused = ~ @ ]
     IN  IF s.pc = "read" THEN s' = snd /\ toR' = toR ELSE Woken(snd)
  /\ UNCHANGED << toS, receiver, fault, failures >>

\* Two minutes without a wake-up.
SilentTimeout ==
  /\ s.pc \in { "wait", "drain" } /\ s.armed /\ Fails
  /\ SenderEnds("off")
  /\ UNCHANGED << receiver, fault >>

GetS(type) == toS # << >> /\ Head(toS).type = type

\* Handlers that take a message and leave the connection up.
KeepS == toS' = Tail(toS) /\ UNCHANGED << receiver, fault, failures >>

\* A handler threw: the sender accuses the receiver and closes.
SenderFault(name) ==
  /\ fault' = fault \cup {name}
  /\ SenderEnds("off")
  /\ UNCHANGED << receiver, failures >>

ResumeRange ==
  /\ GetS("resume-ranges")
  /\ LET range == Head(toS).blocks IN
       IF s.pc # "waiting" \/ Min(range) < s.resumeEnd
       THEN SenderFault("resume")
       ELSE /\ s' = [ s EXCEPT !.receipts = @ \cup range, !.resumeEnd = Max(range) + 1 ]
            /\ toR' = toR /\ KeepS

\* beginSending(); a second one is ignored.
ResumeComplete ==
  /\ GetS("resume-complete")
  /\ IF s.pc = "waiting" THEN Woken(s) ELSE UNCHANGED << s, toR >>
  /\ KeepS

\* Mutant: the acknowledged blocks are noted, the waiter is not woken.
AckWithoutWake ==
  /\ GetS("ack")
  /\ LET acked == Head(toS).blocks IN
       /\ s' = [ s EXCEPT !.inFlight = @ \ acked, !.receipts = @ \cup acked ]
       /\ toR' = toR /\ KeepS

\* acknowledge(): blocks in flight become receipts, known ones are skipped.
Ack ==
  /\ GetS("ack")
  /\ LET acked == Head(toS).blocks
         snd == [ s EXCEPT !.inFlight = @ \ acked, !.receipts = @ \cup acked ]
     IN  IF ~ acked \subseteq s.inFlight \cup s.receipts
         THEN SenderFault("ack")
         ELSE /\ IF s.pc \in { "wait", "drain" } /\ snd # s
                 THEN Woken(snd)
                 ELSE s' = snd /\ toR' = toR
              /\ KeepS

ReceiverComplete ==
  /\ GetS("receiver-complete")
  /\ IF s.pc # "done"
     THEN SenderFault("completion")
     ELSE SenderEnds("complete") /\ UNCHANGED << receiver, fault, failures >>

SenderClosed ==
  /\ GetS("closed")
  /\ SenderEnds("off")
  /\ UNCHANGED << receiver, fault, failures >>
-----------------------------------------------------------------------------
(* The receiver.                                                           *)

GetR(type) == toR # << >> /\ Head(toR).type = type
KeepR == toR' = Tail(toR) /\ UNCHANGED << s, stored, disk, handle, verified, fault, failures >>

ReceiverFault(name) ==
  /\ fault' = fault \cup {name}
  /\ ReceiverEnds("failed", StopQueue(q))
  /\ UNCHANGED << s, stored, disk, handle, verified, failures >>

\* acceptManifest() starts to open the store named after the manifest.
Manifest ==
  /\ GetR("manifest")
  /\ rPc' = "opening" /\ handle' = "opening"
  /\ toR' = Tail(toR)
  /\ UNCHANGED << s, toS, report, q, stored, disk, verified, fault, failures >>

\* Mutant: a range includes its exclusive end.
FirstRangePastEnd(blocks) ==
  LET range == { c \in blocks : Min(blocks) .. c \subseteq blocks }
  IN  range \cup { Max(range) + 1 }

\* iterateReceiptRanges() takes the ranges of the receipts from the lowest up;
\* receiptBitsToRangePages() puts one range on a page.
FirstRange(blocks) == { c \in blocks : Min(blocks) .. c \subseteq blocks }

\* The store is open; a connection that ended meanwhile closes it again.
StoreOpened ==
  /\ handle = "opening"
  /\ IF rPc = "opening"
     THEN handle' = "open" /\ rPc' = "reporting" /\ report' = disk.durable
     ELSE handle' = "closed" /\ UNCHANGED << rPc, report >>
  /\ UNCHANGED << s, toR, toS, q, stored, disk, verified, fault, failures >>

\* Mutant: the end of the report is sent before the last page.
SendResumeStateEndFirst ==
  /\ rPc = "reporting"
  /\ IF report \ FirstRange(report) # {}
     THEN /\ toS' = Sent(toS, Msg("resume-ranges", FirstRange(report)), SenderUp)
          /\ report' = report \ FirstRange(report) /\ rPc' = rPc
     ELSE /\ toS' = toS \o << Msg("resume-complete", {}), Msg("resume-ranges", report) >>
          /\ rPc' = "receiving" /\ report' = {}
  /\ UNCHANGED << s, toR, store, verified, fault, failures >>

\* sendResumeState(): a page at a time, then the end of the report.
SendResumeState ==
  /\ rPc = "reporting"
  /\ IF report # {}
     THEN /\ toS' = Sent(toS, Msg("resume-ranges", FirstRange(report)), SenderUp)
          /\ report' = report \ FirstRange(report) /\ rPc' = rPc
     ELSE /\ toS' = Sent(toS, Msg("resume-complete", {}), SenderUp)
          /\ rPc' = "receiving" /\ report' = report
  /\ UNCHANGED << s, toR, store, verified, fault, failures >>

Data ==
  /\ GetR("data")
  /\ CASE rPc # "receiving" -> ReceiverFault("data")
       [] rPc = "receiving" /\ ~ Accepts(q) -> ReceiverFault("window")
       [] OTHER ->
            /\ \E b \in Head(toR).blocks : q' = Enqueued(q, b)
            /\ KeepR
            /\ UNCHANGED << toS, rPc, report >>

CommitTimer ==
  /\ q.timer
  /\ q' = TimerFired(q)
  /\ UNCHANGED << s, toR, toS, rPc, report, stored, disk, handle, verified, fault, failures >>

\* writeBlocks() made the whole batch durable.
StoreCommits ==
  /\ Active(q) /\ ~ stored
  /\ stored' = TRUE
  /\ disk' = [ disk EXCEPT !.durable = @ \cup ToSet(q.batch) ]
  /\ UNCHANGED << s, toR, toS, rPc, report, q, handle, verified, fault, failures >>

\* Mutant: the acknowledgement does not wait for the store.
CommitReturnsEarly ==
  /\ Active(q)
  /\ stored' = FALSE
  /\ toS' = IF q.stopped THEN toS ELSE Sent(toS, Msg("ack", ToSet(q.batch)), SenderUp)
  /\ q' = Settled(q)
  /\ UNCHANGED << s, toR, rPc, report, disk, handle, verified, fault, failures >>

\* Mutant: a commit acknowledges its last block only.
CommitReturnsLastOnly ==
  /\ Active(q) /\ stored
  /\ stored' = FALSE
  /\ toS' = IF q.stopped THEN toS ELSE Sent(toS, Msg("ack", {Last(q.batch)}), SenderUp)
  /\ q' = Settled(q)
  /\ UNCHANGED << s, toR, rPc, report, disk, handle, verified, fault, failures >>

\* acceptBatch() returned: onCommitted() acknowledges unless stopped.
CommitReturns ==
  /\ Active(q) /\ stored
  /\ stored' = FALSE
  /\ toS' = IF q.stopped THEN toS ELSE Sent(toS, Msg("ack", ToSet(q.batch)), SenderUp)
  /\ q' = Settled(q)
  /\ UNCHANGED << s, toR, rPc, report, disk, handle, verified, fault, failures >>

\* The store failed or the channel refused the acknowledgement: onError().
CommitThrows ==
  /\ Active(q) /\ Fails
  /\ stored' = FALSE
  /\ IF ReceiverUp
     THEN ReceiverEnds("failed", Broken(q))
     ELSE q' = Broken(q) /\ UNCHANGED << toR, toS, rPc, report >>
  /\ UNCHANGED << s, disk, handle, verified, fault >>

\* verifyTransfer() up to the end of finish(); a second marker is ignored.
SenderComplete ==
  /\ GetR("sender-complete")
  /\ CASE rPc = "receiving" ->
            /\ q' = Finishing(q)
            /\ rPc' = "finishing"
            /\ KeepR /\ UNCHANGED << toS, report >>
       [] rPc \in { "finishing", "verifying" } ->
            KeepR /\ UNCHANGED << toS, rPc, report, q >>
       [] OTHER -> ReceiverFault("completion")

FinishReturns ==
  /\ rPc = "finishing" /\ Finished(q)
  /\ rPc' = "verifying"
  /\ UNCHANGED << s, toR, toS, report, store, verified, fault, failures >>

\* verify() of an incomplete store throws.  A stream hash that matches is
\* reported, and the connection is closed at once.
VerifyOk ==
  /\ rPc = "verifying"
  /\ IF disk.durable # Blocks
     THEN ReceiverFault("incomplete")
     ELSE /\ disk.bad = {}
          /\ rPc' = "complete"
          /\ verified' = TRUE
          /\ toR' = << >>
          /\ toS' \in CutShort(Sent(toS, Msg("receiver-complete", {}), SenderUp), SenderUp)
          /\ UNCHANGED << s, report, store, fault, failures >>

\* The hash differs: the store is deleted, then the receive fails.
VerifyMismatch ==
  /\ rPc = "verifying" /\ disk.durable = Blocks /\ disk.bad # {}
  /\ disk' = [ durable |-> {}, bad |-> {} ]
  /\ handle' = "closed"
  /\ ReceiverEnds("failed", StopQueue(q))
  /\ UNCHANGED << s, stored, verified, fault, failures >>

\* The hash differs and the deletion fails, having removed all or nothing.
VerifyMismatchStays ==
  /\ rPc = "verifying" /\ disk.durable = Blocks /\ disk.bad # {} /\ Fails
  /\ ReceiverEnds("failed", StopQueue(q))
  /\ UNCHANGED << s, stored, disk, handle, verified, fault >>

ReceiverClosed ==
  /\ GetR("closed")
  /\ ReceiverEnds("failed", StopQueue(q))
  /\ UNCHANGED << s, stored, disk, handle, verified, fault, failures >>

\* Mutant: the store is closed without waiting for the commit.
CloseStoreAtOnce ==
  /\ rPc = "failed" /\ handle = "open"
  /\ handle' = "closed"
  /\ UNCHANGED << s, toR, toS, rPc, report, q, stored, disk, verified, fault, failures >>

\* fail(): the store is closed once queue and commit have settled.
CloseStore ==
  /\ rPc = "failed" /\ handle = "open" /\ ~ Active(q)
  /\ handle' = "closed"
  /\ UNCHANGED << s, toR, toS, rPc, report, q, stored, disk, verified, fault, failures >>

\* reset() of a receive that failed: back to pairing.
Reset ==
  /\ rPc = "failed" /\ handle = "closed"
  /\ rPc' = "off"
  /\ UNCHANGED << s, toR, toS, report, store, verified, fault, failures >>

\* Files are saved, the store is deleted, the user starts anew.
SaveAndReset ==
  /\ rPc = "complete"
  /\ rPc' = "off" /\ handle' = "closed"
  /\ disk' = [ durable |-> {}, bad |-> {} ]
  /\ UNCHANGED << s, toR, toS, report, q, stored, verified, fault, failures >>
-----------------------------------------------------------------------------
SenderStep ==
  \/ ReadDone \/ SetPaused \/ SilentTimeout
  \/ ResumeRange \/ ResumeComplete \/ Ack \/ ReceiverComplete \/ SenderClosed

ReceiverStep ==
  \/ Manifest \/ StoreOpened \/ SendResumeState \/ Data
  \/ CommitTimer \/ StoreCommits \/ CommitReturns \/ CommitThrows
  \/ SenderComplete \/ FinishReturns
  \/ VerifyOk \/ VerifyMismatch \/ VerifyMismatchStays
  \/ ReceiverClosed \/ CloseStore \/ Reset \/ SaveAndReset

Next ==
  \/ Connect \/ ConnectionLost \/ SenderStops \/ ReceiverStops \/ ReceiverDies \/ Rot
  \/ SenderStep \/ ReceiverStep

\* The browser delivers messages and finishes reads, commits and timers.
SenderFairness ==
  /\ WF_vars(ReadDone)
  /\ WF_vars(ResumeRange \/ ResumeComplete \/ Ack \/ ReceiverComplete \/ SenderClosed)

ReceiverFairness ==
  /\ WF_vars(Manifest \/ Data \/ SenderComplete \/ ReceiverClosed)
  /\ WF_vars(StoreOpened) /\ WF_vars(SendResumeState)
  /\ WF_vars(CommitTimer) /\ WF_vars(StoreCommits) /\ WF_vars(CommitReturns)
  /\ WF_vars(FinishReturns) /\ WF_vars(CloseStore)
  /\ WF_vars(VerifyOk \/ VerifyMismatch)

\* The users connect again after a failure and end a pause.
UserFairness ==
  WF_vars(Connect) /\ WF_vars(Reset) /\ WF_vars(s.paused /\ SetPaused)

Spec == Init /\ [][Next]_vars

\* The sender's browser works; the receiver may hang at any point.
LiveSpec == Spec /\ SenderFairness
-----------------------------------------------------------------------------
Carried(chan, type) == UNION { m.blocks : m \in { n \in ToSet(chan) : n.type = type } }
DataOnWire == Carried(toR, "data")
AcksOnWire == Carried(toS, "ack")
Queued == ToSet(q.pending) \cup ToSet(q.batch)

\* A block counts as received for the sender, or is reported or acknowledged
\* to it, only while the receiver's disk holds its receipt; and the sender shows
\* "verified" only if the receiver matched the stream hash on this connection.
SenderKnowsOnlyDurable ==
  /\ TypeOK
  /\ SenderUp /\ ReceiverUp => s.receipts \cup AcksOnWire \subseteq disk.durable
  /\ s.pc = "complete" => verified

\* While both ends are up, the in-flight set is exactly what is on the wire,
\* in the receive queue or on its way back: no block drops out of the window's
\* account, so the window can not fill up with blocks nobody works on.
WindowAccount ==
  SenderUp /\ ReceiverUp /\ Closed \notin ToSet(toR) \cup ToSet(toS)
    => s.inFlight = DataOnWire \cup Queued \cup AcksOnWire

\* The two ends never accuse each other of a protocol error: not of a resume
\* report after the start, an acknowledgement of what was not sent, data beyond
\* the receive window or after the end, or completion before all has arrived;
\* a connection sends only what the receiver does not hold already, and the
\* sender's timer never runs out on a pause (README.md:80-83).
NoProtocolFault ==
  /\ fault = {}
  /\ ReceiverUp => DataOnWire \cap (disk.durable \cup Queued) = {}
  /\ s.pc \in { "wait", "drain" } /\ s.paused => ~ s.armed

\* A closed store, which another session may own, is never written to.
NoWriteAfterClose == handle = "closed" => ~ Active(q)

\* Whatever is lost, stopped, timed out, crashed or rotten (as often as the bound
\* allows), if the receiver's browser works too and its users keep reconnecting,
\* they end with a verified receive.
Delivered == ReceiverFairness /\ UserFairness => <>(rPc = "complete")

\* A sender that waits does not wait for ever, even for a receiver that hangs:
\* pausing and resuming at any moment leave its timer right, and as long as the
\* timer fires the sender gets on, is paused, or times out.
WaitEnds ==
  WF_vars(SilentTimeout) =>
    (s.pc \in { "wait", "drain" } /\ ~ s.paused
       ~> s.pc \notin { "wait", "drain" } \/ s.paused \/ failures = MaxFailures)
-----------------------------------------------------------------------------
(* What holds between any two steps, and the properties above follow from. *)

\* No message but the end is on the channel twice.
Distinct(chan) ==
  \A i, j \in 1 .. Len(chan) : i # j /\ chan[i] # Closed => chan[i] # chan[j]

Both == SenderUp /\ ReceiverUp
Open == Closed \notin ToSet(toR) \cup ToSet(toS)

\* Phases of the receiver before the end of its resume report.
Opening == { "paired", "opening", "reporting" }

\* What the receiver may find on the channel.
ForReceiver(m) ==
  \/ m = Msg("manifest", {}) /\ rPc = "paired"
  \/ /\ m.type = "data" /\ rPc = "receiving"
     /\ \E b \in Blocks : m.blocks = {b} /\ b \notin disk.durable \cup Queued
     /\ SenderUp => m.blocks \subseteq s.inFlight
  \/ /\ m = Msg("sender-complete", {}) /\ rPc \in { "receiving", "finishing", "verifying" }
     /\ disk.durable = Blocks
     /\ SenderUp => s.pc = "done"
  \/ m = Closed

\* What the sender may find on the channel.
ForSender(m) ==
  \/ /\ m.type = "resume-ranges" /\ s.pc = "waiting" /\ m.blocks # {}
     /\ rPc \notin { "paired", "opening" }
     /\ \A b \in m.blocks : s.resumeEnd <= b
     /\ ReceiverUp => m.blocks \subseteq disk.durable
  \/ /\ m = Msg("resume-complete", {}) /\ s.pc = "waiting"
     /\ rPc \notin Opening
  \/ /\ m.type = "ack" /\ m.blocks \subseteq s.inFlight
     /\ ReceiverUp => m.blocks \subseteq disk.durable \ Queued
  \/ m = Msg("receiver-complete", {}) /\ s.pc = "done" /\ verified
  \/ m = Closed

\* Two messages to the sender, m sent before n.
InOrder(m, n) ==
  /\ m.type = "resume-ranges" /\ n.type = "resume-ranges"
       => \A x \in m.blocks, y \in n.blocks : x < y
  /\ m.type = "resume-complete" => n.type \notin { "resume-ranges", "resume-complete" }
  /\ m.type = "ack" /\ n.type = "ack" => m.blocks \cap n.blocks = {}

Ordered(chan) == \A i, j \in 1 .. Len(chan) : i < j => InOrder(chan[i], chan[j])

\* Nothing is on the channel of an end that is gone; what is there its reader
\* may get, no message to the receiver twice, those to the sender in order.
ChannelInv ==
  /\ ~ ReceiverUp => toR = << >>
  /\ ~ SenderUp => toS = << >>
  /\ \A m \in ToSet(toR) : ForReceiver(m)
  /\ \A m \in ToSet(toS) : ForSender(m)
  /\ Distinct(toR) /\ Ordered(toS)
  /\ Both => (Closed \in ToSet(toR) <=> Closed \in ToSet(toS))

\* run() has dealt with every block before its cursor, and with no other.
SenderAs(snd) ==
  /\ snd.inFlight \subseteq 1 .. snd.cursor - 1
  /\ 1 .. snd.cursor - 1 \subseteq snd.receipts \cup snd.inFlight
  /\ Cardinality(snd.inFlight) <= Window
  /\ snd.pc = "read" =>
       /\ snd.cursor \in Blocks \ snd.receipts
       /\ Cardinality(snd.inFlight) < Window
  /\ snd.pc = "done" => snd.cursor = NumBlocks + 1 /\ snd.inFlight = {}
  /\ snd.pc \in { "wait", "drain" } /\ snd.paused => ~ snd.armed

SenderInv == SenderAs(s) /\ (s.pc = "complete" => verified)

\* The receive queue is open while the receiver is, and drained outside.
QueueInv ==
  /\ q.retained = Len(q.pending) + Len(q.batch)
  /\ \A i, j \in 1 .. Len(Line(q)) : i # j => Line(q)[i] # Line(q)[j]
  /\ stored => Active(q) /\ ToSet(q.batch) \subseteq disk.durable
  /\ ReceiverUp => ~ q.stopped /\ (q.completing <=> rPc \in { "finishing", "verifying" })
  /\ q.completing /\ ~ q.stopped /\ ~ Active(q) => q.pending = << >>
  /\ rPc \notin { "receiving", "finishing", "failed" } => Line(q) = << >>
  /\ rPc = "failed" => q.stopped /\ q.pending = << >>
  /\ handle # "open" => Line(q) = << >>
  /\ rPc \in { "off", "paired" } => handle = "closed"
  /\ rPc = "opening" => handle = "opening"
  /\ rPc \in { "reporting", "receiving", "finishing", "verifying", "complete" } => handle = "open"

\* What is still to be reported comes after all that was reported.
ReportInv ==
  /\ rPc \in { "paired", "opening" } => s.resumeEnd = 1
  /\ rPc # "reporting" => report = {}
  /\ report \subseteq disk.durable
  /\ \A b \in report : s.resumeEnd <= b
  /\ \A x \in Carried(toS, "resume-ranges"), y \in report : x < y

\* The two ends agree on how far they are and on the blocks in between; the
\* sender learns of every receipt before it sends.
AgreeInv ==
  /\ Both /\ rPc \in Opening => s.pc = "waiting"
  /\ Both /\ rPc \in { "finishing", "verifying" } => s.pc = "done"
  /\ rPc \in { "finishing", "verifying" } => disk.durable = Blocks
  /\ Both => s.receipts \subseteq disk.durable /\ Queued \subseteq s.inFlight
  /\ Both /\ Open =>
       /\ s.inFlight \subseteq DataOnWire \cup Queued \cup AcksOnWire
       /\ rPc \notin { "paired", "opening" } =>
            disk.durable \subseteq
              s.receipts \cup s.inFlight \cup Carried(toS, "resume-ranges") \cup report
  /\ ReceiverUp => Cardinality(DataOnWire \cup Queued) <= Window

TransferInv ==
  /\ TypeOK /\ fault = {}
  /\ ChannelInv /\ SenderInv /\ QueueInv /\ ReportInv /\ AgreeInv
=============================================================================
