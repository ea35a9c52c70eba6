-------------------------- MODULE ReceivedArchiveProofs --------------------------
(* Proofs about the two ends of a classic transfer's archive in the         *)
(* browser.  ClassicReceiver: what the page offers as received is an        *)
(* archive that was verified, the one its dummy committed to, and what it   *)
(* says of its saved checkpoints is what a reload finds, for any number of  *)
(* streams, frames, acts at any moment, bad frames, failures and writes.    *)
(* ArchiveDestination: what the marker records was made by the transfer it  *)
(* belongs to, only that is written, a save that reports success leaves the *)
(* exact tree, and a save goes on with the unfinished work of its transfer, *)
(* for any number of tabs, transfers, files, faults and edits.              *)
EXTENDS ClassicReceiver, ArchiveDestination, FiniteSetTheorems, TLAPS

(* -------------------------- ClassicReceiver --------------------------- *)

(* What the assumption on the constants says.                             *)
LEMMA Bounds ==
  NoBinding \notin Bindings /\ N \in Nat \ { 0 } /\ MaxFailures \in Nat
  BY ReceiverAssumption
-----------------------------------------------------------------------------
(* The invariant of the classic receiver's page.                           *)

Ops ==
  [ kind : { "frame", "drop", "clear", "delete", "proof", "undo" }, b : Bindings, pos : Positions,
    v : Payload, fresh : BOOLEAN ]
Tasks ==
  { NoTask } \cup { Reading(f) : f \in Frames }
  \cup { Completing(kind) : kind \in { "probe", "files", "proof" } }
Uis ==
  [ phase : Phases, mode : { "probe", "files" }, status : { "none", "saving", "saved", "error" },
    saved : Keys, active : Keys, proof : Keys, seen : BOOLEAN, handled : BOOLEAN ]
Cameras == [ live : BOOLEAN, start : { "no", "probe", "files" }, opened : BOOLEAN ]
Archives == [ purpose : { "probe", "files" }, b : Bindings, slot : [ 1 .. N -> Payload ] ]

PageType ==
  /\ ui \in Uis /\ conn \in Keys /\ acc \in Accumulator /\ task \in Tasks
  /\ queued = << >> \/ \E f \in Frames : queued = << f >>
  /\ camera \in Cameras /\ (camera.opened => camera.start # "no")
  /\ archive = NoArchive \/ archive \in Archives
  /\ resetting \in [ key : Keys, left : Int ]

Restores ==
  [ step : { "no", "load", "replay" }, b : Keys, fresh : BOOLEAN, at : [ Positions -> Payload ] ]

CallsType ==
  /\ restoring \in Restores
  /\ restoring.step # "no" => restoring.b \in Bindings
  /\ restoring.step = "replay" /\ restoring.at[0] = "none" => restoring.at = NoFrames
  /\ discarding \in [ step : { "no", "delete", "list" }, b : Keys ]
  /\ discarding.step # "no" => discarding.b \in Bindings
  /\ saving \in [ pending : BOOLEAN, key : Keys ]
  /\ overtaken \in { "never", "now", "before" }

WritesType ==
  /\ persist \in Seq(Ops)
  /\ \A i \in DOMAIN persist :
       persist[i].kind = "frame" /\ persist[i].pos = 0 => persist[i].v = "good"
  /\ pend \in [ Positions -> Nat ] /\ failed \subseteq Positions

DiskType ==
  /\ records \in [ Bindings -> [ kept : BOOLEAN, at : [ Positions -> Payload ] ] ]
  /\ \A b \in Bindings : records[b].at[0] # "bad"
  /\ recency \in Seq(Bindings)
  /\ \A i, j \in DOMAIN recency : recency[i] = recency[j] => i = j
  /\ { b \in Bindings : records[b].kept } = { recency[i] : i \in DOMAIN recency }

BudgetType == budget \in [ acts : Nat, bad : Nat, failures : 0 .. MaxFailures ]
NoneFailed == budget.failures = MaxFailures => failed = {}

TypeInv == PageType /\ CallsType /\ WritesType /\ DiskType /\ BudgetType /\ NoneFailed

\* Whatever the user overtook: only a verified accumulator counts as complete, and
\* what is offered was taken from one.
SoundInv ==
  /\ task.step = "hash" => Full(acc) /\ ~acc.done
  /\ task.step \in { "probe", "files", "proof" } => acc.done
  /\ acc.done => acc.b # NoBinding /\ Sound(acc)
  /\ archive # NoArchive => \A c \in Chunks(archive.purpose) : archive.slot[c] = "good"

AlwaysInv == TypeInv /\ SoundInv

\* The rest holds while nothing pending was overtaken.

SlotsSound == \A c \in 1 .. N : acc.slot[c] = "good"

\* The page scans for Files exactly when it has a connection.
ModeInv ==
  /\ conn # NoBinding <=> ui.mode = "files"
  /\ camera.start = "files" => conn # NoBinding
  /\ camera.start = "probe" => conn = NoBinding
  /\ acc.purpose = "files" => conn # NoBinding /\ acc.want = conn /\ acc.b \in { NoBinding, conn }
  /\ conn # NoBinding /\ resetting = NoReset => acc.purpose = "files"

\* A reset is overtaken by nothing but the writes it waits for.
ResetInv ==
  resetting # NoReset =>
    /\ task = NoTask /\ queued = << >> /\ camera = NoCamera /\ acc = ProbeAccumulator
    /\ resetting.left = Len(persist)
    /\ \A i \in DOMAIN persist : ~persist[i].fresh
    /\ ui.phase \notin { "restoring", "saving", "starting" }

\* Nor is a restore, a discard or a save.
RestoreInv ==
  /\ ui.phase = "restoring" <=> restoring # NoRestore
  /\ restoring # NoRestore =>
       /\ task = NoTask /\ queued = << >> /\ camera = NoCamera /\ resetting = NoReset
       /\ persist = << >> /\ conn = NoBinding
       /\ restoring.fresh /\ restoring.step # "no" /\ ui.saved = restoring.b
       /\ restoring.step = "replay" => restoring.at = records[restoring.b].at

DiscardInv ==
  discarding # NoDiscard =>
    /\ conn = NoBinding /\ ui.phase = "idle" /\ resetting = NoReset
    /\ discarding.step # "no" /\ ui.saved = discarding.b

SavingInv ==
  saving # NoSave =>
    saving.pending /\ conn # NoBinding /\ task = NoTask /\ acc.done /\ resetting = NoReset

TaskInv ==
  /\ task.step = "files" => acc.purpose = "files"
  /\ task.step \in { "probe", "proof" } =>
       conn = NoBinding /\ ui.seen /\ ui.handled /\ ui.phase # "idle"
  /\ task.step = "proof" => camera = NoCamera
  /\ \A i \in DOMAIN persist : persist[i].kind = "proof" /\ persist[i].fresh => task.step = "proof"

\* While a checkpoint is offered the page does nothing else.
OfferedInv ==
  conn = NoBinding /\ ui.saved # NoBinding =>
    task = NoTask /\ queued = << >> /\ camera = NoCamera /\ persist = << >>

ArchiveInv ==
  archive # NoArchive =>
    conn # NoBinding /\ archive.purpose = "files" /\ archive.b = conn

\* A connection's writes are of its own checkpoint; before there is one the only
\* write is the one of its proof.
QueueInv ==
  /\ conn # NoBinding => \A i \in DOMAIN persist :
       persist[i].kind \in { "frame", "drop", "clear" } /\ persist[i].b = conn
  /\ conn = NoBinding =>
       /\ Len(persist) <= 1 /\ failed = {} /\ ui.active = NoBinding
       /\ \A i \in DOMAIN persist : persist[i].kind \in { "proof", "undo" }
       /\ persist # << >> => task.step = "proof" \/ resetting # NoReset

SavedInv ==
  ui.status = "saved" /\ conn # NoBinding => persist = << >> /\ failed = {}

\* What the last queued write that touches a position leaves there.
Touches(o, p) == o.kind = "clear" \/ (o.kind \in { "frame", "drop" } /\ o.pos = p)
Brings(o) == IF o.kind = "frame" THEN o.v ELSE "none"
Untouched(q, p) == \A i \in DOMAIN q : ~Touches(q[i], p)
Ends(q, p, F) ==
  \A i \in DOMAIN q :
    Touches(q[i], p) /\ (\A j \in DOMAIN q : j > i => ~Touches(q[j], p)) => Brings(q[i]) \in F

\* What a checkpoint may hold at a position, by what the memory does.
Wanted(p) ==
  IF p # 0 THEN { acc.slot[p] } ELSE IF acc.b = NoBinding THEN Payload ELSE { "good" }

\* What is in memory is queued to be written, is on the disk, or failed to be.
Covered(p) ==
  /\ Ends(persist, p, Wanted(p))
  /\ Untouched(persist, p) /\ p \notin failed =>
       \/ records[conn].at[p] \in Wanted(p)
       \/ "none" \in Wanted(p) /\ budget.failures < MaxFailures

Collecting == conn # NoBinding /\ task = NoTask /\ ~acc.done /\ resetting = NoReset
CoverInv == Collecting => \A p \in Positions : Covered(p)

DoneInv ==
  ui.phase \in { "archive-ready", "saving" } /\ resetting = NoReset =>
    acc.done /\ task = NoTask /\ conn # NoBinding

\* As long as no storage call fails there is at most one checkpoint, of the
\* connection, the proof under way or the offer, and a reset knows it.
HiddenInv ==
  budget.failures = MaxFailures /\ overtaken = "never" =>
    /\ conn # NoBinding =>
         /\ recency = << >> \/ recency = << conn >>
         /\ \/ ui.active = conn
            \/ /\ ui.active = NoBinding /\ recency = << >> /\ persist = << >>
               /\ acc.done \/ resetting # NoReset
         /\ resetting # NoReset => resetting.key = conn \/ (recency = << >> /\ persist = << >>)
         /\ saving # NoSave => saving.key = conn \/ (recency = << >> /\ persist = << >>)
    /\ conn = NoBinding =>
         /\ persist = << >> => recency = IF ui.saved = NoBinding \/ discarding.step = "list"
                                       THEN << >> ELSE << ui.saved >>
         /\ \A i \in DOMAIN persist :
              /\ ui.saved = NoBinding
              /\ recency = IF persist[i].kind = "proof" THEN << >> ELSE << persist[i].b >>
         /\ resetting # NoReset /\ ui.saved # NoBinding => resetting.key = ui.saved

PageInv == AlwaysInv /\ ModeInv /\ ResetInv /\ RestoreInv /\ DiscardInv /\ SavingInv /\ TaskInv
           /\ OfferedInv /\ ArchiveInv /\ QueueInv /\ SavedInv /\ CoverInv /\ DoneInv /\ HiddenInv
-----------------------------------------------------------------------------
(* Values.                                                                 *)

LEMMA PositionFacts ==
  /\ 0 \in Positions /\ 1 .. N \subseteq Positions /\ 1 \in 1 .. N
  /\ \A p \in Positions : p # 0 => p \in 1 .. N
  /\ \A purpose : Chunks(purpose) \subseteq 1 .. N
  BY Bounds DEF Positions, Chunks

LEMMA FrameFacts ==
  ASSUME NEW f \in Frames
  PROVE  /\ f.purpose \in { "probe", "files" } /\ f.b \in Bindings /\ f.pos \in Positions
         /\ f.v \in { "good", "bad" } /\ f.v \in Payload /\ f.v # "none"
         /\ f.pos = 0 => f.v = "good"
         /\ f.pos # 0 => f.pos \in 1 .. N
<1>1. /\ f \in [ purpose : { "probe", "files" }, b : Bindings, pos : Positions, v : { "good", "bad" } ]
      /\ f.pos = 0 => f.v = "good"
  BY DEF Frames
<1> QED
  BY <1>1, PositionFacts DEF Payload

LEMMA FreshValues ==
  /\ Empty \in [ 1 .. N -> Payload ] /\ (\A c \in 1 .. N : Empty[c] = "none")
  /\ ProbeAccumulator \in Accumulator
  /\ ProbeAccumulator.purpose = "probe" /\ ProbeAccumulator.b = NoBinding
  /\ ProbeAccumulator.slot = Empty /\ ~ProbeAccumulator.done
  /\ Zero \in [ Positions -> Nat ]
  /\ FreshUi \in Uis /\ NoCamera \in Cameras /\ NoTask \in Tasks
  /\ NoCamera.start = "no" /\ ~NoCamera.opened /\ ~NoCamera.live
  /\ NoReset \in [ key : Keys, left : Int ] /\ NoReset.left = -1
<1>1. Empty \in [ 1 .. N -> Payload ] /\ \A c \in 1 .. N : Empty[c] = "none"
  BY DEF Empty, Payload
<1>2. ProbeAccumulator \in Accumulator
  BY <1>1 DEF ProbeAccumulator, Accumulator
<1>3. FreshUi \in Uis
  BY DEF FreshUi, Uis, Phases, Keys
<1>4. NoReset \in [ key : Keys, left : Int ] /\ NoReset.left = -1
  BY DEF NoReset, Keys
<1>5. /\ NoCamera.start = "no" /\ ~NoCamera.opened /\ ~NoCamera.live
      /\ NoCamera \in Cameras /\ Zero \in [ Positions -> Nat ] /\ NoTask \in Tasks
  BY DEF NoCamera, Cameras, Zero, Tasks
<1> QED
  BY <1>1, <1>2, <1>3, <1>4, <1>5 DEF ProbeAccumulator

LEMMA FilesAccumulatorFacts ==
  ASSUME NEW b \in Bindings
  PROVE  /\ FilesAccumulator(b) \in Accumulator
         /\ FilesAccumulator(b).purpose = "files" /\ FilesAccumulator(b).want = b
         /\ FilesAccumulator(b).b = NoBinding /\ FilesAccumulator(b).slot = Empty
         /\ ~FilesAccumulator(b).done
<1>1. Empty \in [ 1 .. N -> Payload ]
  BY FreshValues
<1> QED
  BY <1>1 DEF FilesAccumulator, ProbeAccumulator, Accumulator

LEMMA TaskFacts ==
  /\ NoTask.step = "none"
  /\ \A f \in Frames : Reading(f).step = "hash" /\ Reading(f).frame = f /\ Reading(f) \in Tasks
  /\ \A kind \in { "probe", "files", "proof" } :
       Completing(kind).step = kind /\ Completing(kind) \in Tasks
  /\ \A t \in Tasks :
       /\ t.step \in { "none", "hash", "probe", "files", "proof" }
       /\ t.step = "none" <=> t = NoTask
       /\ t.step = "hash" => t.frame \in Frames
<1>1. NoTask.step = "none" /\ \A f : Reading(f).step = "hash" /\ Reading(f).frame = f
  BY DEF NoTask, Reading
<1>2. \A kind : Completing(kind).step = kind
  BY DEF Completing
<1>3. /\ \A f \in Frames : Reading(f) \in Tasks
      /\ \A kind \in { "probe", "files", "proof" } : Completing(kind) \in Tasks
  BY DEF Tasks
<1>4. ASSUME NEW t \in Tasks
      PROVE  /\ t.step \in { "none", "hash", "probe", "files", "proof" }
             /\ t.step = "none" <=> t = NoTask
             /\ t.step = "hash" => t.frame \in Frames
  <2>1. CASE t = NoTask
    BY <2>1, <1>1
  <2>2. ASSUME NEW f \in Frames, t = Reading(f) PROVE t.step = "hash" /\ t.frame \in Frames
    BY <2>2, <1>1
  <2>3. ASSUME NEW kind \in { "probe", "files", "proof" }, t = Completing(kind)
        PROVE  t.step = kind
    BY <2>3, <1>2
  <2>4. t = NoTask \/ (\E f \in Frames : t = Reading(f))
        \/ \E kind \in { "probe", "files", "proof" } : t = Completing(kind)
    BY DEF Tasks
  <2> QED
    BY <1>1, <2>1, <2>2, <2>3, <2>4
<1> QED
  BY <1>1, <1>2, <1>3, <1>4

LEMMA OpFacts ==
  ASSUME NEW kind \in { "frame", "drop", "clear", "delete", "proof", "undo" }, NEW b \in Bindings,
         NEW p \in Positions, NEW v \in Payload
  PROVE  /\ Op(kind, b, p, v) \in Ops /\ Op(kind, b, p, v).kind = kind
         /\ Op(kind, b, p, v).b = b /\ Op(kind, b, p, v).pos = p /\ Op(kind, b, p, v).v = v
         /\ Op(kind, b, p, v).fresh
  BY DEF Op, Ops

LEMMA OpsFacts ==
  ASSUME NEW o \in Ops
  PROVE  /\ o.kind \in { "frame", "drop", "clear", "delete", "proof", "undo" } /\ o.b \in Bindings
         /\ o.pos \in Positions /\ o.v \in Payload /\ o.fresh \in BOOLEAN
  BY DEF Ops

\* What the type invariant says of the fields.
LEMMA PageFields ==
  ASSUME TypeInv
  PROVE  /\ ui.phase \in Phases /\ ui.mode \in { "probe", "files" }
         /\ ui.status \in { "none", "saving", "saved", "error" }
         /\ ui.saved \in Keys /\ ui.active \in Keys /\ ui.proof \in Keys
         /\ ui.seen \in BOOLEAN /\ ui.handled \in BOOLEAN
         /\ acc.purpose \in { "probe", "files" } /\ acc.want \in Keys /\ acc.b \in Keys
         /\ acc.slot \in [ 1 .. N -> Payload ] /\ acc.done \in BOOLEAN
         /\ camera.live \in BOOLEAN /\ camera.start \in { "no", "probe", "files" }
         /\ camera.opened \in BOOLEAN
         /\ resetting.key \in Keys /\ resetting.left \in Int
         /\ conn \in Keys /\ task \in Tasks
  BY DEF TypeInv, PageType, Uis, Accumulator, Cameras, Keys

LEMMA BudgetFields ==
  ASSUME BudgetType
  PROVE  budget.acts \in Nat /\ budget.bad \in Nat /\ budget.failures \in 0 .. MaxFailures
  BY DEF BudgetType
-----------------------------------------------------------------------------
(* The queue of writes.                                                    *)

LEMMA StaleOps ==
  ASSUME NEW q \in Seq(Ops)
  PROVE  /\ Stale(q) \in Seq(Ops) /\ Len(Stale(q)) = Len(q) /\ DOMAIN Stale(q) = DOMAIN q
         /\ \A i \in DOMAIN q :
              /\ ~Stale(q)[i].fresh /\ Stale(q)[i].kind = q[i].kind /\ Stale(q)[i].b = q[i].b
              /\ Stale(q)[i].pos = q[i].pos /\ Stale(q)[i].v = q[i].v
         /\ q = << >> => Stale(q) = << >>
<1>1. DOMAIN q = 1 .. Len(q) /\ Len(q) \in Nat /\ \A i \in 1 .. Len(q) : q[i] \in Ops
  OBVIOUS
<1>2. Stale(q) = [ i \in 1 .. Len(q) |-> [ q[i] EXCEPT !.fresh = FALSE ] ]
  BY <1>1 DEF Stale
<1>3. ASSUME NEW o \in Ops
      PROVE  /\ [ o EXCEPT !.fresh = FALSE ] \in Ops
             /\ ~[ o EXCEPT !.fresh = FALSE ].fresh
             /\ [ o EXCEPT !.fresh = FALSE ].kind = o.kind /\ [ o EXCEPT !.fresh = FALSE ].b = o.b
             /\ [ o EXCEPT !.fresh = FALSE ].pos = o.pos /\ [ o EXCEPT !.fresh = FALSE ].v = o.v
  BY DEF Ops
<1>4. \A i \in 1 .. Len(q) :
        /\ Stale(q)[i] \in Ops
        /\ ~Stale(q)[i].fresh /\ Stale(q)[i].kind = q[i].kind /\ Stale(q)[i].b = q[i].b
        /\ Stale(q)[i].pos = q[i].pos /\ Stale(q)[i].v = q[i].v
  BY <1>1, <1>2, <1>3
<1>5. DOMAIN Stale(q) = 1 .. Len(q) /\ Stale(q) = [ i \in 1 .. Len(q) |-> Stale(q)[i] ]
  BY <1>2
<1>6. Stale(q) \in Seq(Ops) /\ Len(Stale(q)) = Len(q)
  BY <1>1, <1>4, <1>5
<1>7. q = << >> => Stale(q) = << >>
  BY <1>6
<1> QED
  BY <1>1, <1>4, <1>5, <1>6, <1>7

LEMMA OneMore ==
  ASSUME NEW S, NEW q \in Seq(S), NEW o \in S
  PROVE  /\ q \o << o >> \in Seq(S) /\ Len(q \o << o >>) = Len(q) + 1
         /\ \A i \in 1 .. Len(q) : (q \o << o >>)[i] = q[i]
         /\ (q \o << o >>)[Len(q) + 1] = o
         /\ DOMAIN (q \o << o >>) = 1 .. Len(q) + 1
  OBVIOUS

LEMMA OneLess ==
  ASSUME NEW S, NEW q \in Seq(S), q # << >>
  PROVE  /\ Tail(q) \in Seq(S) /\ Len(Tail(q)) = Len(q) - 1 /\ Len(q) \in Nat \ { 0 }
         /\ Head(q) \in S /\ Head(q) = q[1] /\ 1 \in DOMAIN q /\ DOMAIN q = 1 .. Len(q)
         /\ DOMAIN Tail(q) = 1 .. Len(q) - 1
         /\ \A i \in 1 .. Len(q) - 1 : Tail(q)[i] = q[i + 1] /\ i + 1 \in DOMAIN q
  OBVIOUS

\* What the last write leaves, when one is queued behind.
LEMMA EndsWithMore ==
  ASSUME NEW q \in Seq(Ops), NEW o \in Ops, NEW p, NEW F,
         Ends(q, p, F) \/ Touches(o, p), Touches(o, p) => Brings(o) \in F
  PROVE  /\ Ends(q \o << o >>, p, F)
         /\ Untouched(q \o << o >>, p) => Untouched(q, p) /\ ~Touches(o, p)
<1> DEFINE r == q \o << o >>
<1>1. /\ Len(r) = Len(q) + 1 /\ DOMAIN r = 1 .. Len(q) + 1 /\ DOMAIN q = 1 .. Len(q)
      /\ Len(q) \in Nat /\ r[Len(q) + 1] = o /\ \A i \in 1 .. Len(q) : r[i] = q[i]
  BY OneMore
<1> HIDE DEF r
<1>2. ASSUME NEW i \in DOMAIN r, Touches(r[i], p), \A j \in DOMAIN r : j > i => ~Touches(r[j], p)
      PROVE  Brings(r[i]) \in F
  <2>1. CASE i = Len(q) + 1
    BY <2>1, <1>1, <1>2
  <2>2. CASE i # Len(q) + 1
    <3>1. i \in DOMAIN q /\ r[i] = q[i]
      BY <2>2, <1>1
    <3>2. ~Touches(o, p)
      BY <1>1, <1>2, <2>2
    <3>3. \A j \in DOMAIN q : j > i => ~Touches(q[j], p)
      BY <1>1, <1>2
    <3> QED
      BY <3>1, <3>2, <3>3, <1>2 DEF Ends
  <2> QED
    BY <2>1, <2>2
<1>3. Untouched(r, p) => Untouched(q, p) /\ ~Touches(o, p)
  BY <1>1 DEF Untouched
<1> QED
  BY <1>2, <1>3 DEF Ends, r

\* And when the first one is done.
LEMMA EndsWithLess ==
  ASSUME NEW q \in Seq(Ops), q # << >>, NEW p, NEW F, Ends(q, p, F)
  PROVE  /\ Ends(Tail(q), p, F)
         /\ Untouched(Tail(q), p) 
              => Untouched(q, p) \/ (Brings(Head(q)) \in F /\ Touches(Head(q), p))
<1> DEFINE r == Tail(q)
<1>1. /\ DOMAIN r = 1 .. Len(q) - 1 /\ DOMAIN q = 1 .. Len(q) /\ Len(q) \in Nat \ { 0 }
      /\ Head(q) = q[1]
      /\ \A i \in DOMAIN r : r[i] = q[i + 1] /\ i + 1 \in DOMAIN q
  BY OneLess
<1> HIDE DEF r
<1>a. \A j \in DOMAIN q : j # 1 => j - 1 \in DOMAIN r /\ r[j - 1] = q[j]
  <2>1. ASSUME NEW j \in DOMAIN q, j # 1 PROVE j - 1 \in DOMAIN r /\ j - 1 + 1 = j
    BY <2>1, <1>1
  <2> QED
    BY <2>1, <1>1
<1>2. ASSUME NEW i \in DOMAIN r, Touches(r[i], p), \A j \in DOMAIN r : j > i => ~Touches(r[j], p)
      PROVE  Brings(r[i]) \in F
  <2>1. i + 1 \in DOMAIN q /\ r[i] = q[i + 1]
    BY <1>1
  <2>2. ASSUME NEW j \in DOMAIN q, j > i + 1 PROVE ~Touches(q[j], p)
    <3>1. j - 1 \in DOMAIN r /\ r[j - 1] = q[j] /\ j - 1 > i
      BY <2>2, <1>1, <1>a
    <3> QED
      BY <3>1, <1>2
  <2> QED
    BY <2>1, <2>2, <1>2 DEF Ends
<1>3. ASSUME Untouched(r, p), ~Untouched(q, p)
      PROVE  Brings(Head(q)) \in F /\ Touches(Head(q), p)
  <2>1. PICK i \in DOMAIN q : Touches(q[i], p)
    BY <1>3 DEF Untouched
  <2>2. \A j \in DOMAIN q : j # 1 => ~Touches(q[j], p)
    BY <1>a, <1>3 DEF Untouched
  <2>3. i = 1
    BY <2>1, <2>2
  <2>4. \A j \in DOMAIN q : j > 1 => ~Touches(q[j], p)
    BY <2>2
  <2>5. 1 \in DOMAIN q /\ Touches(q[1], p)
    BY <2>1, <2>3
  <2>6. Brings(q[1]) \in F
    BY <2>4, <2>5 DEF Ends
  <2> QED
    BY <2>5, <2>6, <1>1
<1>4. Ends(r, p, F)
  BY <1>2 DEF Ends
<1> QED
  BY <1>3, <1>4 DEF r

LEMMA EndsWhenStale ==
  ASSUME NEW q \in Seq(Ops), NEW p
  PROVE  /\ \A F : Ends(q, p, F) => Ends(Stale(q), p, F)
         /\ Untouched(Stale(q), p) => Untouched(q, p)
<1>1. /\ DOMAIN Stale(q) = DOMAIN q
      /\ \A i \in DOMAIN q : Stale(q)[i].kind = q[i].kind /\ Stale(q)[i].pos = q[i].pos
                             /\ Stale(q)[i].v = q[i].v
  BY StaleOps
<1>2. \A i \in DOMAIN q : /\ Touches(Stale(q)[i], p) <=> Touches(q[i], p)
                          /\ Brings(Stale(q)[i]) = Brings(q[i])
  BY <1>1 DEF Touches, Brings
<1> QED
  BY <1>1, <1>2 DEF Ends, Untouched

LEMMA NothingQueued ==
  ASSUME NEW q, q = << >>, NEW p
  PROVE  Untouched(q, p) /\ \A F : Ends(q, p, F)
  BY DEF Untouched, Ends
-----------------------------------------------------------------------------
(* The order of the checkpoints.                                           *)

LEMMA WithoutKey ==
  ASSUME DiskType, NEW k \in Keys
  PROVE  /\ Without(k) \in Seq(Bindings)
         /\ { Without(k)[i] : i \in DOMAIN Without(k) }
              = { recency[i] : i \in DOMAIN recency } \ { k }
         /\ \A i, j \in DOMAIN Without(k) : Without(k)[i] = Without(k)[j] => i = j
<1>1. /\ recency \in Seq(Bindings) /\ Len(recency) \in Nat /\ DOMAIN recency = 1 .. Len(recency)
      /\ \A i, j \in DOMAIN recency : recency[i] = recency[j] => i = j
  BY DEF DiskType
<1>2. CASE k \notin { recency[i] : i \in DOMAIN recency }
  BY <1>1, <1>2 DEF Without
<1>3. CASE k \in { recency[i] : i \in DOMAIN recency }
  <2> DEFINE at == CHOOSE i \in DOMAIN recency : recency[i] = k
             w == [ i \in 1 .. Len(recency) - 1 |-> recency[IF i < at THEN i ELSE i + 1] ]
  <2>1. at \in DOMAIN recency /\ recency[at] = k
    BY <1>3
  <2>2. Without(k) = w
    BY <1>3 DEF Without
  <2>3. at \in 1 .. Len(recency) /\ at \in Int
    BY <2>1, <1>1
  <2> HIDE DEF at
  <2>4. ASSUME NEW i \in 1 .. Len(recency) - 1
        PROVE  /\ w[i] = recency[IF i < at THEN i ELSE i + 1]
               /\ (IF i < at THEN i ELSE i + 1) \in DOMAIN recency \ { at }
    BY <1>1, <2>3
  <2>5. DOMAIN w = 1 .. Len(recency) - 1 /\ Len(recency) - 1 \in Nat
    BY <1>1, <2>1
  <2> HIDE DEF w
  <2>6. ASSUME NEW i \in 1 .. Len(recency) - 1 PROVE w[i] \in Bindings \ { k }
    BY <2>4, <2>1, <1>1
  <2>7. w \in Seq(Bindings) /\ Len(w) = Len(recency) - 1
    <3>1. w = [ i \in 1 .. Len(recency) - 1 |-> w[i] ]
      BY <2>5 DEF w
    <3> QED
      BY <3>1, <2>5, <2>6
  <2>8. ASSUME NEW j \in DOMAIN recency, recency[j] # k
        PROVE  \E i \in DOMAIN w : w[i] = recency[j]
    <3>1. CASE j < at
      <4>1. j \in 1 .. Len(recency) - 1
        BY <3>1, <2>1, <1>1
      <4> QED
        BY <4>1, <3>1, <2>4, <2>5
    <3>2. CASE j > at
      <4>1. j - 1 \in 1 .. Len(recency) - 1 /\ ~(j - 1 < at) /\ j - 1 + 1 = j
        BY <3>2, <2>1, <1>1
      <4> QED
        BY <4>1, <2>4, <2>5
    <3> QED
      BY <3>1, <3>2, <2>8, <2>1, <1>1
  <2>9. ASSUME NEW i \in DOMAIN w, NEW j \in DOMAIN w, w[i] = w[j] PROVE i = j
    <3>1. (IF i < at THEN i ELSE i + 1) = (IF j < at THEN j ELSE j + 1)
      BY <2>9, <2>4, <2>5, <1>1
    <3> QED
      BY <3>1, <2>5, <2>3, <1>1
  <2>10. { w[i] : i \in DOMAIN w } = { recency[i] : i \in DOMAIN recency } \ { k }
    BY <2>5, <2>6, <2>4, <2>8
  <2>11. { Without(k)[i] : i \in DOMAIN Without(k) } = { recency[i] : i \in DOMAIN recency } \ { k }
    BY <2>2, <2>10, Zenon
  <2>12. \A i, j \in DOMAIN Without(k) : Without(k)[i] = Without(k)[j] => i = j
    BY <2>2, <2>9, Zenon
  <2> QED
    BY <2>2, <2>7, <2>11, <2>12
<1> QED
  BY <1>2, <1>3

\* A key made the newest one.
LEMMA NewestKey ==
  ASSUME DiskType, NEW k \in Bindings, recency' = Append(Without(k), k)
  PROVE  /\ recency' \in Seq(Bindings)
         /\ { recency'[i] : i \in DOMAIN recency' } = { recency[i] : i \in DOMAIN recency } \cup { k }
         /\ \A i, j \in DOMAIN recency' : recency'[i] = recency'[j] => i = j
<1>0. k \in Keys
  BY DEF Keys
<1>1. PICK w \in Seq(Bindings) :
        /\ w = Without(k)
        /\ { w[i] : i \in DOMAIN w } = { recency[i] : i \in DOMAIN recency } \ { k }
        /\ \A i, j \in DOMAIN w : w[i] = w[j] => i = j
  BY <1>0, WithoutKey
<1>w. Append(w, k) \in Seq(Bindings)
  OBVIOUS
<1>2. recency' \in Seq(Bindings) /\ recency' = Append(w, k)
  BY <1>w, <1>1
<1>3. /\ Len(w) \in Nat /\ DOMAIN w = 1 .. Len(w) /\ DOMAIN recency' = 1 .. Len(w) + 1
      /\ recency'[Len(w) + 1] = k /\ \A i \in 1 .. Len(w) : recency'[i] = w[i]
  BY <1>2
<1>4. \A i \in DOMAIN w : w[i] # k
  BY <1>1
<1>5. ASSUME NEW i \in DOMAIN recency', NEW j \in DOMAIN recency', recency'[i] = recency'[j] PROVE i = j
  <2>1. CASE i \in DOMAIN w /\ j \in DOMAIN w
    BY <2>1, <1>1, <1>3, <1>5
  <2>2. CASE i \notin DOMAIN w \/ j \notin DOMAIN w
    BY <2>2, <1>3, <1>4, <1>5
  <2> QED
    BY <2>1, <2>2
<1>6. { recency'[i] : i \in DOMAIN recency' } = { w[i] : i \in DOMAIN w } \cup { k }
  BY <1>3
<1>7. { recency'[i] : i \in DOMAIN recency' } = { recency[i] : i \in DOMAIN recency } \cup { k }
  BY <1>1, <1>6
<1> QED
  BY <1>2, <1>5, <1>7, Zenon

\* At most one key is in the order.
LEMMA OneKey ==
  ASSUME DiskType, NEW k \in Bindings, NEW r, r = Append(Without(k), k)
  PROVE  /\ recency = << k >> => Without(k) = << >>
         /\ recency = << >> => \A x : Without(x) = << >>
         /\ recency = << >> \/ recency = << k >> => Append(Without(k), k) = << k >>
<1>1. ASSUME recency = << >>, NEW x PROVE Without(x) = << >>
  BY <1>1 DEF Without
<1>2. ASSUME recency = << k >> PROVE Without(k) = << >>
  <2>1. Len(recency) = 1 /\ DOMAIN recency = { 1 } /\ recency[1] = k
    BY <1>2
  <2>2. k \in { recency[i] : i \in DOMAIN recency }
    BY <2>1
  <2>3. k \in Keys /\ { recency[i] : i \in DOMAIN recency } \ { k } = {}
    BY <2>1 DEF Keys
  <2>w. Without(k) \in Seq(Bindings) /\ { Without(k)[i] : i \in DOMAIN Without(k) } = {}
    BY <2>3, WithoutKey
  <2>4. PICK w \in Seq(Bindings) : w = Without(k) /\ { w[i] : i \in DOMAIN w } = {}
    BY <2>w, Zenon
  <2>5. Len(w) \in Nat /\ DOMAIN w = 1 .. Len(w) /\ DOMAIN w = {}
    BY <2>4
  <2> QED
    BY <2>4, <2>5
<1>3. ASSUME recency = << >> \/ recency = << k >> PROVE Append(Without(k), k) = << k >>
  <2>1. Without(k) = << >>
    BY <1>1, <1>2, <1>3
  <2> QED
    BY <2>1
<1> QED
  BY <1>1, <1>2, <1>3
-----------------------------------------------------------------------------
(* What a step that leaves some of the state alone keeps.                  *)

LEMMA DatabaseStill ==
  ASSUME DiskType, UNCHANGED database
  PROVE  DiskType'
  BY DEF DiskType, database

LEMMA WritesStill ==
  ASSUME WritesType, UNCHANGED writes
  PROVE  WritesType'
  BY DEF WritesType, writes

LEMMA CallsStill ==
  ASSUME CallsType, UNCHANGED << restoring, discarding, saving, overtaken >>
  PROVE  CallsType'
  BY DEF CallsType

LEMMA SoundStill ==
  ASSUME SoundInv, UNCHANGED << acc, task, archive >>
  PROVE  SoundInv'
  BY DEF SoundInv, Full, Sound

\* Nothing is complete in a new accumulator.
LEMMA SoundFresh ==
  ASSUME SoundInv, task' = NoTask, ~acc'.done, archive' \in { archive, NoArchive }
  PROVE  SoundInv'
  BY TaskFacts DEF SoundInv

LEMMA SpentActs ==
  ASSUME BudgetType, Acts
  PROVE  BudgetType' /\ budget'.failures = budget.failures
<1>1. PICK n \in Nat : n = budget.acts - 1
  BY DEF BudgetType, Acts
<1>2. budget' = [ budget EXCEPT !.acts = n ]
  BY <1>1 DEF Acts
<1> QED
  BY <1>2 DEF BudgetType

LEMMA SpentFailure ==
  ASSUME BudgetType, budget.failures > 0, budget' = [ budget EXCEPT !.failures = @ - 1 ]
  PROVE  BudgetType' /\ budget'.failures < MaxFailures /\ budget'.failures # MaxFailures
<1>1. budget.failures \in 0 .. MaxFailures /\ MaxFailures \in Nat
  BY Bounds DEF BudgetType
<1>2. PICK n \in 0 .. MaxFailures : n = budget.failures - 1 /\ n < MaxFailures
  BY <1>1
<1>3. budget' = [ budget EXCEPT !.failures = n ]
  BY <1>2
<1>4. budget' \in [ acts : Nat, bad : Nat, failures : 0 .. MaxFailures ] /\ budget'.failures = n
  BY <1>3 DEF BudgetType
<1> QED
  BY <1>1, <1>2, <1>4 DEF BudgetType

\* What the bounds allow costs an act or a failure, or nothing.
Fails == budget.failures > 0 /\ budget' = [ budget EXCEPT !.failures = @ - 1 ]
Spends == UNCHANGED budget \/ Acts \/ Fails

LEMMA Spent ==
  ASSUME BudgetType, NoneFailed, failed' \in { failed, {} }, Spends
  PROVE  BudgetType' /\ NoneFailed'
<1>1. CASE UNCHANGED budget
  BY <1>1 DEF BudgetType, NoneFailed
<1>2. CASE Acts
  BY <1>2, SpentActs DEF NoneFailed
<1>3. CASE Fails
  BY <1>3, SpentFailure DEF NoneFailed, Fails
<1> QED
  BY <1>1, <1>2, <1>3 DEF Spends

LEMMA PageTyped ==
  ASSUME AlwaysInv, UNCHANGED << writes, database >>, Spends, PageType', CallsType', SoundInv'
  PROVE  AlwaysInv'
<1>1. WritesType' /\ DiskType'
  BY WritesStill, DatabaseStill DEF AlwaysInv, TypeInv
<1>2. BudgetType' /\ NoneFailed'
  BY Spent DEF AlwaysInv, TypeInv, writes
<1> QED
  BY <1>1, <1>2 DEF AlwaysInv, TypeInv

LEMMA UiPhase ==
  ASSUME PageType, NEW phase \in Phases, NEW v, v = [ ui EXCEPT !.phase = phase ]
  PROVE  /\ v \in Uis /\ v.phase = phase /\ v.mode = ui.mode /\ v.status = ui.status
         /\ v.saved = ui.saved /\ v.active = ui.active /\ v.seen = ui.seen /\ v.handled = ui.handled
  BY DEF PageType, Uis
-----------------------------------------------------------------------------
(* Whatever the user overtook: the page and its calls.                     *)

LEMMA CameraOpensTyped ==
  ASSUME AlwaysInv, CameraOpens
  PROVE  AlwaysInv'
<1>1. camera' \in Cameras
  BY DEF CameraOpens, AlwaysInv, TypeInv, PageType, Cameras
<1>2. PageType'
  BY <1>1 DEF CameraOpens, AlwaysInv, TypeInv, PageType, calls
<1>3. CallsType' /\ SoundInv'
  BY CallsStill, SoundStill DEF CameraOpens, AlwaysInv, TypeInv, calls
<1> QED
  BY <1>2, <1>3, PageTyped DEF CameraOpens, Spends

LEMMA CameraReadyTyped ==
  ASSUME AlwaysInv, CameraReady
  PROVE  AlwaysInv'
<1>1. camera.start \in { "probe", "files" } /\ camera.live \in BOOLEAN
  BY PageFields DEF CameraReady, AlwaysInv, TypeInv, PageType
<1>2. PICK phase \in { "testing", "scanning" } :
        ui' = [ ui EXCEPT !.mode = camera.start, !.seen = TRUE, !.phase = phase ]
  BY DEF CameraReady
<1>3. ui' \in Uis
  BY <1>1, <1>2 DEF AlwaysInv, TypeInv, PageType, Uis, Phases
<1>4. camera' \in Cameras /\ ~camera'.opened
  BY <1>1 DEF CameraReady, NoCamera, Cameras
<1>5. PageType'
  BY <1>3, <1>4 DEF CameraReady, AlwaysInv, TypeInv, PageType, calls
<1>6. CallsType' /\ SoundInv'
  BY CallsStill, SoundStill DEF CameraReady, AlwaysInv, TypeInv, calls
<1> QED
  BY <1>5, <1>6, PageTyped DEF CameraReady, Spends

LEMMA CameraFailsTyped ==
  ASSUME AlwaysInv, CameraFails
  PROVE  AlwaysInv'
<1>1. PICK phase \in { "paused", "idle" } : ui' = [ ui EXCEPT !.phase = phase ]
  BY DEF CameraFails
<1>2. ui' \in Uis
  BY <1>1, UiPhase DEF AlwaysInv, TypeInv, Phases
<1>3. PageType'
  BY <1>2, FreshValues DEF CameraFails, AlwaysInv, TypeInv, PageType, calls
<1>4. CallsType' /\ SoundInv'
  BY CallsStill, SoundStill DEF CameraFails, AlwaysInv, TypeInv, calls
<1> QED
  BY <1>3, <1>4, PageTyped DEF CameraFails, Spends

LEMMA FinishFilesTyped ==
  ASSUME AlwaysInv, FinishFilesTransfer
  PROVE  AlwaysInv'
<1>1. acc.done /\ acc.b \in Bindings /\ Sound(acc)
  BY PageFields DEF FinishFilesTransfer, AlwaysInv, SoundInv, Keys
<1>2. /\ archive' \in Archives /\ archive'.purpose = acc.purpose /\ archive'.slot = acc.slot
  BY <1>1, PageFields DEF FinishFilesTransfer, Archives, AlwaysInv
<1>3. ui' \in Uis
  BY UiPhase DEF FinishFilesTransfer, AlwaysInv, TypeInv, Phases
<1>4. PageType'
  BY <1>2, <1>3, TaskFacts DEF FinishFilesTransfer, AlwaysInv, TypeInv, PageType, calls, Tasks
<1>5. CallsType'
  BY CallsStill DEF FinishFilesTransfer, AlwaysInv, TypeInv, calls
<1>6. SoundInv'
  BY <1>1, <1>2, TaskFacts DEF FinishFilesTransfer, AlwaysInv, SoundInv, Sound
<1> QED
  BY <1>4, <1>5, <1>6, PageTyped DEF FinishFilesTransfer, Spends

LEMMA ActsTyped ==
  ASSUME CallsType, UserActs
  PROVE  overtaken' \in { "never", "now", "before" } /\ Spends
  BY DEF UserActs, CallsType, Spends

LEMMA SaveArchiveTyped ==
  ASSUME AlwaysInv, SaveArchive
  PROVE  AlwaysInv'
<1>1. ui' \in Uis
  BY UiPhase DEF SaveArchive, AlwaysInv, TypeInv, Phases
<1>2. PageType'
  BY <1>1 DEF SaveArchive, AlwaysInv, TypeInv, PageType
<1>3. saving' \in [ pending : BOOLEAN, key : Keys ]
  BY PageFields DEF SaveArchive, AlwaysInv
<1>4. CallsType'
  BY <1>3, ActsTyped DEF SaveArchive, AlwaysInv, TypeInv, CallsType
<1>5. SoundInv'
  BY SoundStill DEF SaveArchive, AlwaysInv
<1> QED
  BY <1>2, <1>4, <1>5, ActsTyped, PageTyped DEF SaveArchive, AlwaysInv, TypeInv

LEMMA SaveRefusedTyped ==
  ASSUME AlwaysInv, SaveRefused
  PROVE  AlwaysInv'
<1>1. ui' \in Uis
  BY UiPhase DEF SaveRefused, AlwaysInv, TypeInv, Phases
<1>2. PageType'
  BY <1>1 DEF SaveRefused, AlwaysInv, TypeInv, PageType
<1>3. CallsType'
  BY DEF SaveRefused, AlwaysInv, TypeInv, CallsType, NoSave, Keys
<1>4. SoundInv'
  BY SoundStill DEF SaveRefused, AlwaysInv
<1> QED
  BY <1>2, <1>3, <1>4, PageTyped DEF SaveRefused, Spends

LEMMA DiscardTyped ==
  ASSUME AlwaysInv, DiscardSavedCheckpoint
  PROVE  AlwaysInv'
<1>1. PageType'
  BY DEF DiscardSavedCheckpoint, AlwaysInv, TypeInv, PageType
<1>2. discarding' \in [ step : { "no", "delete", "list" }, b : Keys ] /\ discarding'.b \in Bindings
  BY PageFields DEF DiscardSavedCheckpoint, Offered, AlwaysInv, Keys
<1>3. CallsType'
  BY <1>2, ActsTyped DEF DiscardSavedCheckpoint, AlwaysInv, TypeInv, CallsType
<1>4. SoundInv'
  BY SoundStill DEF DiscardSavedCheckpoint, AlwaysInv
<1> QED
  BY <1>1, <1>3, <1>4, ActsTyped, PageTyped DEF DiscardSavedCheckpoint, AlwaysInv, TypeInv

\* The newest checkpoint is a stream's.
LEMMA Newest ==
  ASSUME DiskType
  PROVE  (IF recency = << >> THEN NoBinding ELSE recency[Len(recency)]) \in Keys
<1>1. recency \in Seq(Bindings)
  BY DEF DiskType
<1>2. recency # << >> => recency[Len(recency)] \in Bindings
  BY <1>1
<1> QED
  BY <1>2 DEF Keys

LEMMA ListTyped ==
  ASSUME AlwaysInv, ListRemaining
  PROVE  AlwaysInv'
<1>1. PICK b \in Keys : ui' = [ ui EXCEPT !.active = NoBinding, !.status = "none", !.saved = b ]
  BY Newest DEF ListRemaining, AlwaysInv, TypeInv
<1>2. ui' \in Uis
  BY <1>1 DEF AlwaysInv, TypeInv, PageType, Uis, Keys
<1>3. PageType'
  BY <1>2 DEF ListRemaining, AlwaysInv, TypeInv, PageType
<1>4. CallsType'
  BY DEF ListRemaining, AlwaysInv, TypeInv, CallsType, NoDiscard, Keys
<1>5. SoundInv'
  BY SoundStill DEF ListRemaining, AlwaysInv
<1> QED
  BY <1>3, <1>4, <1>5, PageTyped DEF ListRemaining, Spends

LEMMA DiscardFailsTyped ==
  ASSUME AlwaysInv, DiscardFails
  PROVE  AlwaysInv'
<1>1. PageType'
  BY DEF DiscardFails, AlwaysInv, TypeInv, PageType
<1>2. CallsType'
  BY DEF DiscardFails, AlwaysInv, TypeInv, CallsType, NoDiscard, Keys
<1>3. SoundInv'
  BY SoundStill DEF DiscardFails, AlwaysInv
<1> QED
  BY <1>1, <1>2, <1>3, PageTyped DEF DiscardFails, Spends, Fails

LEMMA RefusedTyped ==
  ASSUME AlwaysInv, RestoreRefused, UNCHANGED << queued, camera, resetting, discarding, saving,
         overtaken, writes, database >>, Spends
  PROVE  AlwaysInv'
<1>1. ui' \in Uis
  BY DEF RestoreRefused, AlwaysInv, TypeInv, PageType, Uis, Phases
<1>2. PageType'
  BY <1>1 DEF RestoreRefused, AlwaysInv, TypeInv, PageType
<1>3. NoFrames \in [ Positions -> Payload ]
  BY DEF NoFrames, Payload
<1>4. CallsType'
  BY <1>3 DEF RestoreRefused, AlwaysInv, TypeInv, CallsType, Restores, NoRestore, Keys
<1>5. SoundInv'
  BY SoundStill DEF RestoreRefused, AlwaysInv
<1> QED
  BY <1>2, <1>4, <1>5, PageTyped

LEMMA IgnoredTyped ==
  ASSUME AlwaysInv, RestoreIgnored, UNCHANGED << queued, camera, resetting, discarding, saving,
         overtaken, writes, database, budget >>
  PROVE  AlwaysInv'
<1>2. PageType'
  BY DEF RestoreIgnored, AlwaysInv, TypeInv, PageType
<1>3. NoFrames \in [ Positions -> Payload ]
  BY DEF NoFrames, Payload
<1>4. CallsType'
  BY <1>3 DEF RestoreIgnored, AlwaysInv, TypeInv, CallsType, Restores, NoRestore, Keys
<1>5. SoundInv'
  BY SoundStill DEF RestoreIgnored, AlwaysInv
<1> QED
  BY <1>2, <1>4, <1>5, PageTyped DEF Spends

LEMMA LoadTyped ==
  ASSUME AlwaysInv, LoadFrames
  PROVE  AlwaysInv'
<1>1. CASE ~restoring.fresh /\ RestoreIgnored
  BY <1>1, IgnoredTyped DEF LoadFrames
<1>2. CASE RestoreRefused
  BY <1>2, RefusedTyped DEF LoadFrames, Spends
<1>3. CASE UNCHANGED << ui, acc, conn, archive, task >>
           /\ restoring' = [ restoring EXCEPT !.step = "replay", !.at = records[restoring.b].at ]
           /\ ~(records[restoring.b].at[0] = "none" /\ records[restoring.b].at # NoFrames)
  <2>1. PageType'
    BY <1>3 DEF LoadFrames, AlwaysInv, TypeInv, PageType
  <2>2. restoring \in Restores /\ restoring.b \in Bindings
    BY DEF LoadFrames, AlwaysInv, TypeInv, CallsType
  <2>3. PICK at \in [ Positions -> Payload ] : at = records[restoring.b].at
    BY <2>2 DEF AlwaysInv, TypeInv, DiskType
  <2>4. restoring' = [ restoring EXCEPT !.step = "replay", !.at = at ]
    BY <1>3, <2>3
  <2>5. /\ restoring' \in Restores /\ restoring'.b = restoring.b /\ restoring'.at = at
    BY <2>2, <2>4 DEF Restores
  <2>6. at[0] = "none" => at = NoFrames
    BY <1>3, <2>3
  <2>7. CallsType'
    BY <2>2, <2>5, <2>6 DEF LoadFrames, AlwaysInv, TypeInv, CallsType
  <2>8. SoundInv'
    BY <1>3, SoundStill DEF AlwaysInv
  <2> QED
    BY <2>1, <2>7, <2>8, PageTyped DEF LoadFrames, Spends
<1> QED
  BY <1>1, <1>2, <1>3 DEF LoadFrames

LEMMA LoadFailsTyped ==
  ASSUME AlwaysInv, LoadFails
  PROVE  AlwaysInv'
  BY RefusedTyped DEF LoadFails, Spends, Fails

\* What a restore puts into memory: a whole set of chunks is a sound one.
Slots == [ c \in 1 .. N |-> restoring.at[c] ]
Whole == \A c \in 1 .. N : Slots[c] # "none"
Replayed ==
  /\ restoring' = NoRestore /\ task' = NoTask
  /\ \E some \in BOOLEAN :
       /\ some <=> restoring.at[0] # "none"
       /\ acc' = [ FilesAccumulator(restoring.b) EXCEPT
                     !.b = IF some THEN restoring.b ELSE NoBinding, !.slot = Slots, !.done = Whole ]
       /\ ui' = [ ui EXCEPT !.mode = "files", !.handled = Whole, !.active = restoring.b,
                    !.status = "saved", !.seen = FALSE,
                    !.phase = IF Whole THEN "archive-ready"
                              ELSE IF some THEN "paused" ELSE "test-verified" ]
  /\ conn' = restoring.b
  /\ archive' = IF Whole THEN [ purpose |-> "files", b |-> restoring.b, slot |-> Slots ] ELSE NoArchive

LEMMA ReplayedFacts ==
  ASSUME AlwaysInv, restoring.step = "replay", Replayed, Whole => \A c \in 1 .. N : Slots[c] = "good"
  PROVE  /\ restoring.b \in Bindings /\ Slots \in [ 1 .. N -> Payload ]
         /\ \A c \in 1 .. N : Slots[c] = restoring.at[c]
         /\ acc' \in Accumulator /\ acc'.purpose = "files" /\ acc'.want = restoring.b
         /\ acc'.b = IF restoring.at[0] # "none" THEN restoring.b ELSE NoBinding
         /\ acc'.slot = Slots /\ (acc'.done <=> Whole)
         /\ Whole => acc'.b = restoring.b
         /\ ui' \in Uis /\ ui'.mode = "files" /\ (ui'.handled <=> Whole) /\ ui'.status = "saved"
         /\ ui'.active = restoring.b /\ ui'.saved = ui.saved
         /\ ui'.phase \in { "archive-ready", "paused", "test-verified" }
         /\ ui'.phase = "archive-ready" <=> Whole
         /\ archive' # NoArchive => Whole /\ archive' \in Archives /\ archive'.purpose = "files"
                                     /\ archive'.b = restoring.b /\ archive'.slot = Slots
         /\ archive' = NoArchive \/ archive' \in Archives
<1>1. restoring.b \in Bindings /\ restoring.at \in [ Positions -> Payload ]
  BY DEF AlwaysInv, TypeInv, CallsType, Restores
<1>2. Slots \in [ 1 .. N -> Payload ] /\ \A c \in 1 .. N : Slots[c] = restoring.at[c]
  BY <1>1, PositionFacts DEF Slots
<1>3. PICK some \in BOOLEAN :
       /\ some <=> restoring.at[0] # "none"
       /\ acc' = [ FilesAccumulator(restoring.b) EXCEPT
                     !.b = IF some THEN restoring.b ELSE NoBinding, !.slot = Slots, !.done = Whole ]
       /\ ui' = [ ui EXCEPT !.mode = "files", !.handled = Whole, !.active = restoring.b,
                    !.status = "saved", !.seen = FALSE,
                    !.phase = IF Whole THEN "archive-ready"
                              ELSE IF some THEN "paused" ELSE "test-verified" ]
  BY DEF Replayed
<1>4. PICK whole \in BOOLEAN : whole <=> Whole
  BY DEF Whole
<1>5. Whole => some
  <2>1. ASSUME ~some PROVE restoring.at[1] = "none"
    <3>1. restoring.at = NoFrames
      BY <1>3, <2>1 DEF AlwaysInv, TypeInv, CallsType
    <3> QED
      BY <3>1, PositionFacts DEF NoFrames
  <2> QED
    BY <1>2, <2>1, PositionFacts DEF Whole
<1>6. PICK bound \in Keys : bound = IF some THEN restoring.b ELSE NoBinding
  BY <1>1 DEF Keys
<1>7. PICK fresh \in Accumulator :
        /\ fresh.purpose = "files" /\ fresh.want = restoring.b
        /\ acc' = [ fresh EXCEPT !.b = bound, !.slot = Slots, !.done = whole ]
  BY <1>1, <1>3, <1>4, <1>6, FilesAccumulatorFacts DEF Whole
<1>8. /\ acc' \in Accumulator /\ acc'.purpose = "files" /\ acc'.want = restoring.b
      /\ acc'.b = bound /\ acc'.slot = Slots /\ acc'.done = whole
  BY <1>2, <1>7 DEF Accumulator, Keys
<1>9. PICK phase \in Phases :
        /\ phase = IF Whole THEN "archive-ready" ELSE IF some THEN "paused" ELSE "test-verified"
  BY DEF Phases
<1>10. ui' = [ ui EXCEPT !.mode = "files", !.handled = whole, !.active = restoring.b,
                    !.status = "saved", !.seen = FALSE, !.phase = phase ]
  BY <1>3, <1>4, <1>9 DEF Whole
<1>11. /\ ui' \in Uis /\ ui'.mode = "files" /\ ui'.handled = whole /\ ui'.status = "saved"
       /\ ui'.active = restoring.b /\ ui'.saved = ui.saved /\ ui'.phase = phase
  BY <1>1, <1>10 DEF AlwaysInv, TypeInv, PageType, Uis, Keys
<1>12. /\ archive' # NoArchive => Whole /\ archive' \in Archives /\ archive'.purpose = "files"
                                  /\ archive'.b = restoring.b /\ archive'.slot = Slots
  BY <1>1, <1>2 DEF Replayed, Archives
<1> QED
  BY <1>1, <1>2, <1>3, <1>4, <1>5, <1>6, <1>8, <1>9, <1>11, <1>12

LEMMA ReplayTyped ==
  ASSUME AlwaysInv, ReplayFrames
  PROVE  AlwaysInv'
<1>1. CASE RestoreRefused
  BY <1>1, RefusedTyped DEF ReplayFrames, Spends
<1>2. CASE RestoreIgnored
  BY <1>2, IgnoredTyped DEF ReplayFrames
<1>3. CASE restoring.fresh /\ Replayed /\ (Whole => \A c \in 1 .. N : Slots[c] = "good")
  <2>1. restoring.step = "replay"
    BY DEF ReplayFrames
  <2>2. PageType'
    BY <1>3, <2>1, ReplayedFacts, TaskFacts DEF ReplayFrames, Replayed, AlwaysInv, TypeInv, PageType,
       Keys, Tasks
  <2>3. NoFrames \in [ Positions -> Payload ]
    BY DEF NoFrames, Payload
  <2>4. CallsType'
    BY <1>3, <2>3 DEF ReplayFrames, Replayed, AlwaysInv, TypeInv, CallsType, Restores, NoRestore, Keys
  <2>5. SoundInv'
    <3>1. task'.step = "none"
      BY <1>3, TaskFacts DEF Replayed
    <3>2. acc'.done => acc'.b # NoBinding /\ Sound(acc')
      BY <1>3, <2>1, ReplayedFacts, Bounds DEF Sound, Chunks
    <3>3. archive' # NoArchive => \A c \in Chunks(archive'.purpose) : archive'.slot[c] = "good"
      BY <1>3, <2>1, ReplayedFacts DEF Chunks
    <3> QED
      BY <3>1, <3>2, <3>3 DEF SoundInv, Sound
  <2> QED
    BY <2>2, <2>4, <2>5, PageTyped DEF ReplayFrames, Spends
<1> QED
  BY <1>1, <1>2, <1>3 DEF ReplayFrames, Replayed, Slots, Whole
-----------------------------------------------------------------------------
(* Whatever the user overtook: what is cut off, and what is forgotten.     *)

LEMMA StaleWrites ==
  ASSUME WritesType, persist' = Stale(persist)
  PROVE  /\ persist' \in Seq(Ops) /\ Len(persist') = Len(persist)
         /\ DOMAIN persist' = DOMAIN persist
         /\ \A i \in DOMAIN persist : ~persist'[i].fresh /\ persist'[i].kind = persist[i].kind
                                      /\ persist'[i].b = persist[i].b
         /\ \A i \in DOMAIN persist' :
              persist'[i].kind = "frame" /\ persist'[i].pos = 0 => persist'[i].v = "good"
         /\ persist' = << >> <=> persist = << >>
<1>1. persist \in Seq(Ops)
  BY DEF WritesType
<1>2. /\ persist' \in Seq(Ops) /\ Len(persist') = Len(persist)
      /\ DOMAIN persist' = DOMAIN persist
      /\ \A i \in DOMAIN persist :
           /\ ~persist'[i].fresh /\ persist'[i].kind = persist[i].kind
           /\ persist'[i].b = persist[i].b /\ persist'[i].pos = persist[i].pos
           /\ persist'[i].v = persist[i].v
      /\ persist = << >> => persist' = << >>
  BY <1>1, StaleOps
<1>3. persist' = << >> => persist = << >>
  BY <1>1, <1>2
<1>4. \A i \in DOMAIN persist :
        persist[i].kind = "frame" /\ persist[i].pos = 0 => persist[i].v = "good"
  BY DEF WritesType
<1> QED
  BY <1>2, <1>3, <1>4

LEMMA CutOff ==
  ASSUME AlwaysInv, NEW q \in Seq(Ops), NEW start \in { "no", "probe", "files" },
         NextGeneration(q, start), UNCHANGED << discarding, saving, database >>,
         \A i \in DOMAIN q : q[i].kind = "frame" /\ q[i].pos = 0 => q[i].v = "good",
         overtaken' \in { "never", "now", "before" }, ui' \in Uis, conn' \in Keys,
         acc' \in Accumulator, task' \in Tasks, archive' = archive,
         resetting' \in [ key : Keys, left : Int ], pend' \in [ Positions -> Nat ],
         failed' \in { failed, {} }, Spends, SoundInv'
  PROVE  AlwaysInv'
<1>1. /\ camera' \in Cameras /\ ~camera'.opened
  BY DEF NextGeneration, NoCamera, Cameras
<1>2. PageType'
  BY <1>1 DEF NextGeneration, AlwaysInv, TypeInv, PageType
<1>3. /\ restoring' \in Restores /\ restoring'.step = restoring.step /\ restoring'.b = restoring.b
      /\ restoring'.at = restoring.at
  BY DEF NextGeneration, AlwaysInv, TypeInv, CallsType, Restores
<1>4. CallsType'
  BY <1>3 DEF AlwaysInv, TypeInv, CallsType
<1>5. WritesType'
  BY DEF NextGeneration, AlwaysInv, TypeInv, WritesType
<1>6. DiskType' /\ BudgetType' /\ NoneFailed'
  BY Spent, DatabaseStill DEF AlwaysInv, TypeInv
<1> QED
  BY <1>2, <1>4, <1>5, <1>6 DEF AlwaysInv, TypeInv

\* The usual case: every queued write turns stale.
LEMMA CutOffStale ==
  ASSUME AlwaysInv, NEW start \in { "no", "probe", "files" },
         NextGeneration(Stale(persist), start), UNCHANGED << conn, archive, discarding, saving, database >>,
         overtaken' \in { "never", "now", "before" }, ui' \in Uis,
         \/ UNCHANGED << acc, task >>
         \/ acc' = ProbeAccumulator /\ task' = NoTask,
         resetting' \in [ key : Keys, left : Int ], pend' \in { pend, Zero },
         failed' \in { failed, {} }, Spends
  PROVE  AlwaysInv'
<1>1. PICK q \in Seq(Ops) :
        /\ q = Stale(persist) /\ \A i \in DOMAIN q : q[i].kind = "frame" /\ q[i].pos = 0 => q[i].v = "good"
  <2>1. persist' = Stale(persist)
    BY DEF NextGeneration
  <2> QED
    BY <2>1, StaleWrites DEF AlwaysInv, TypeInv
<1>2. NextGeneration(q, start)
  BY <1>1
<1>3. pend' \in [ Positions -> Nat ] /\ acc' \in Accumulator /\ task' \in Tasks /\ conn' \in Keys
  BY FreshValues, PageFields DEF AlwaysInv, TypeInv, PageType, WritesType
<1>4. SoundInv'
  <2>1. CASE UNCHANGED << acc, task >>
    BY <2>1, SoundStill DEF AlwaysInv
  <2>2. CASE acc' = ProbeAccumulator /\ task' = NoTask
    BY <2>2, SoundFresh, FreshValues DEF AlwaysInv
  <2> QED
    BY <2>1, <2>2
<1> QED
  BY <1>1, <1>2, <1>3, <1>4, CutOff

LEMMA StartTestTyped ==
  ASSUME AlwaysInv, StartConnectionTest
  PROVE  AlwaysInv'
<1>1. ui' \in Uis
  BY DEF StartConnectionTest, AlwaysInv, TypeInv, PageType, Uis, Phases
<1>2. overtaken' \in { "never", "now", "before" } /\ Spends
  BY ActsTyped DEF StartConnectionTest, AlwaysInv, TypeInv
<1>3. resetting' \in [ key : Keys, left : Int ]
  BY DEF StartConnectionTest, AlwaysInv, TypeInv, PageType
<1> QED
  BY <1>1, <1>2, <1>3, CutOffStale DEF StartConnectionTest

LEMMA ResumeTyped ==
  ASSUME AlwaysInv, ResumeScanning
  PROVE  AlwaysInv'
<1>1. ui' \in Uis
  BY UiPhase DEF ResumeScanning, AlwaysInv, TypeInv, Phases
<1>2. overtaken' \in { "never", "now", "before" } /\ Spends
  BY ActsTyped DEF ResumeScanning, AlwaysInv, TypeInv
<1>3. resetting' \in [ key : Keys, left : Int ]
  BY DEF ResumeScanning, AlwaysInv, TypeInv, PageType
<1>4. PICK start \in { "probe", "files" } : NextGeneration(Stale(persist), start)
  BY DEF ResumeScanning, StartScanner
<1> QED
  BY <1>1, <1>2, <1>3, <1>4, CutOffStale DEF ResumeScanning

LEMMA PauseTyped ==
  ASSUME AlwaysInv, PauseScanner
  PROVE  AlwaysInv'
<1>1. PICK phase \in Phases : ui' = [ ui EXCEPT !.phase = phase ]
  BY PageFields DEF PauseScanner, AlwaysInv, Phases
<1>2. ui' \in Uis
  BY <1>1, UiPhase DEF AlwaysInv, TypeInv
<1>3. overtaken' \in { "never", "now", "before" } /\ Spends
  BY DEF PauseScanner, AlwaysInv, TypeInv, CallsType, Spends
<1>4. resetting' \in [ key : Keys, left : Int ]
  BY DEF PauseScanner, AlwaysInv, TypeInv, PageType
<1> QED
  BY <1>2, <1>3, <1>4, CutOffStale DEF PauseScanner

LEMMA ResetTyped ==
  ASSUME AlwaysInv, ResetReceiver
  PROVE  AlwaysInv'
<1>1. ui' \in Uis
  BY DEF ResetReceiver, AlwaysInv, TypeInv, PageType, Uis
<1>2. overtaken' \in { "never", "now", "before" } /\ Spends
  BY ActsTyped DEF ResetReceiver, AlwaysInv, TypeInv
<1>3. resetting' \in [ key : Keys, left : Int ]
  <2>1. Len(persist) \in Int
    BY DEF AlwaysInv, TypeInv, WritesType
  <2>2. PICK key \in Keys : resetting' = [ key |-> key, left |-> Len(persist) ]
    BY PageFields DEF ResetReceiver, AlwaysInv
  <2> QED
    BY <2>1, <2>2
<1> QED
  BY <1>1, <1>2, <1>3, CutOffStale DEF ResetReceiver

LEMMA RefuseTyped ==
  ASSUME AlwaysInv, RefuseConnectionTest
  PROVE  AlwaysInv'
<1>1. ui' \in Uis
  BY DEF RefuseConnectionTest, AlwaysInv, TypeInv, PageType, Uis, Phases
<1>2. overtaken' \in { "never", "now", "before" } /\ Spends
  BY DEF RefuseConnectionTest, AlwaysInv, TypeInv, CallsType, Spends
<1>3. resetting' \in [ key : Keys, left : Int ]
  BY DEF RefuseConnectionTest, AlwaysInv, TypeInv, PageType
<1> QED
  BY <1>1, <1>2, <1>3, CutOffStale DEF RefuseConnectionTest

LEMMA FinishTestTyped ==
  ASSUME AlwaysInv, FinishConnectionTest
  PROVE  AlwaysInv'
<1>1. acc.done /\ acc.b \in Bindings
  BY PageFields DEF FinishConnectionTest, AlwaysInv, SoundInv, Keys
<1>2. PICK o \in Ops : o = Op("proof", acc.b, 0, "none") /\ o.kind = "proof"
  BY <1>1, OpFacts, PositionFacts DEF Payload
<1>3. PICK r \in Seq(Ops) :
        /\ r = Stale(persist) /\ \A i \in DOMAIN r : r[i].kind = "frame" /\ r[i].pos = 0 => r[i].v = "good"
  <2>1. persist \in Seq(Ops)
    BY DEF AlwaysInv, TypeInv, WritesType
  <2> QED
    BY <2>1, StaleOps DEF AlwaysInv, TypeInv, WritesType
<1>4. PICK q \in Seq(Ops) :
        /\ q = Append(r, o) /\ \A i \in DOMAIN q : q[i] = o \/ \E j \in DOMAIN r : q[i] = r[j]
  <2>1. /\ Append(r, o) \in Seq(Ops) /\ DOMAIN Append(r, o) = 1 .. Len(r) + 1 /\ DOMAIN r = 1 .. Len(r)
        /\ Len(r) \in Nat /\ Append(r, o)[Len(r) + 1] = o /\ \A i \in 1 .. Len(r) : Append(r, o)[i] = r[i]
    OBVIOUS
  <2>2. \A i \in 1 .. Len(r) + 1 : i = Len(r) + 1 \/ i \in 1 .. Len(r)
    BY <2>1
  <2> QED
    BY <2>1, <2>2
<1>11. \A i \in DOMAIN q : q[i].kind = "frame" /\ q[i].pos = 0 => q[i].v = "good"
  BY <1>2, <1>3, <1>4
<1>5. NextGeneration(q, "no")
  BY <1>2, <1>3, <1>4 DEF FinishConnectionTest
<1>6. PICK b \in Keys : ui' = [ ui EXCEPT !.proof = b, !.status = "saving" ]
  BY <1>1 DEF FinishConnectionTest, Keys
<1>7. ui' \in Uis
  BY <1>6 DEF AlwaysInv, TypeInv, PageType, Uis
<1>8. task' \in Tasks /\ task'.step = "proof"
  BY TaskFacts DEF FinishConnectionTest
<1>9. SoundInv'
  BY <1>1, <1>8 DEF FinishConnectionTest, AlwaysInv, SoundInv, Sound
<1>10. /\ overtaken' \in { "never", "now", "before" } /\ Spends /\ conn' \in Keys /\ acc' \in Accumulator
       /\ resetting' \in [ key : Keys, left : Int ] /\ pend' \in [ Positions -> Nat ]
  BY DEF FinishConnectionTest, AlwaysInv, TypeInv, CallsType, PageType, WritesType, Spends
<1> QED
  BY <1>5, <1>7, <1>8, <1>9, <1>10, <1>11, CutOff DEF FinishConnectionTest

LEMMA RestoreTyped ==
  ASSUME AlwaysInv, RestoreSavedCheckpoint
  PROVE  AlwaysInv'
<1>1. ui' \in Uis
  BY DEF RestoreSavedCheckpoint, AlwaysInv, TypeInv, PageType, Uis, Phases
<1>2. PageType'
  BY <1>1, FreshValues DEF RestoreSavedCheckpoint, AlwaysInv, TypeInv, PageType
<1>3. ui.saved \in Bindings /\ NoFrames \in [ Positions -> Payload ]
  BY PageFields DEF RestoreSavedCheckpoint, Offered, AlwaysInv, Keys, NoFrames, Payload
<1>4. /\ restoring' \in Restores /\ restoring'.step = "load" /\ restoring'.b = ui.saved
  BY <1>3 DEF RestoreSavedCheckpoint, Restores, NoRestore, Keys
<1>5. CallsType' /\ Spends
  BY <1>3, <1>4, ActsTyped DEF RestoreSavedCheckpoint, AlwaysInv, TypeInv, CallsType
<1>6. WritesType'
  BY StaleWrites, FreshValues DEF RestoreSavedCheckpoint, AlwaysInv, TypeInv, WritesType
<1>7. DiskType' /\ BudgetType' /\ NoneFailed'
  BY <1>5, Spent, DatabaseStill DEF RestoreSavedCheckpoint, AlwaysInv, TypeInv
<1>8. SoundInv'
  BY SoundFresh, FreshValues DEF RestoreSavedCheckpoint, AlwaysInv
<1> QED
  BY <1>2, <1>5, <1>6, <1>7, <1>8 DEF AlwaysInv, TypeInv

LEMMA Forgets ==
  ASSUME DiskType, NEW k \in Bindings, records' = [ records EXCEPT ![k] = NoRecord ],
         recency' = Without(k)
  PROVE  DiskType'
<1>1. /\ records \in [ Bindings -> [ kept : BOOLEAN, at : [ Positions -> Payload ] ] ]
      /\ \A b \in Bindings : records[b].at[0] # "bad"
      /\ { b \in Bindings : records[b].kept } = { recency[i] : i \in DOMAIN recency }
  BY DEF DiskType
<1>2. /\ NoRecord \in [ kept : BOOLEAN, at : [ Positions -> Payload ] ] /\ ~NoRecord.kept
      /\ NoRecord.at[0] = "none"
  BY PositionFacts DEF NoRecord, NoFrames, Payload
<1>3. /\ records' \in [ Bindings -> [ kept : BOOLEAN, at : [ Positions -> Payload ] ] ]
      /\ \A b \in Bindings : records'[b].at[0] # "bad"
  BY <1>1, <1>2
<1>4. { b \in Bindings : records'[b].kept } = { b \in Bindings : records[b].kept } \ { k }
  BY <1>1, <1>2
<1>5. /\ recency' \in Seq(Bindings)
      /\ { recency'[i] : i \in DOMAIN recency' } = { recency[i] : i \in DOMAIN recency } \ { k }
      /\ \A i, j \in DOMAIN recency' : recency'[i] = recency'[j] => i = j
  <2>1. k \in Keys
    BY DEF Keys
  <2> QED
    BY <2>1, WithoutKey
<1>6. { b \in Bindings : records'[b].kept } = { recency'[i] : i \in DOMAIN recency' }
  BY <1>1, <1>4, <1>5
<1> QED
  BY <1>3, <1>5, <1>6 DEF DiskType

\* No checkpoint, or one less.
LEMMA Deleted ==
  ASSUME DiskType, NEW k \in Keys,
         records' = IF k = NoBinding THEN records ELSE [ records EXCEPT ![k] = NoRecord ],
         recency' = Without(k)
  PROVE  DiskType'
<1>1. CASE k = NoBinding
  <2>1. NoBinding \notin { recency[i] : i \in DOMAIN recency }
    BY Bounds DEF DiskType
  <2>2. recency' = recency
    BY <1>1, <2>1 DEF Without
  <2> QED
    BY <1>1, <2>2 DEF DiskType
<1>2. CASE k # NoBinding
  BY <1>2, Forgets DEF Keys
<1> QED
  BY <1>1, <1>2

LEMMA DeleteTyped ==
  ASSUME AlwaysInv, DeleteDiscarded
  PROVE  AlwaysInv'
<1>1. discarding.b \in Bindings
  BY DEF DeleteDiscarded, AlwaysInv, TypeInv, CallsType
<1>2. DiskType'
  BY <1>1, Forgets DEF DeleteDiscarded, AlwaysInv, TypeInv
<1>3. CallsType'
  BY <1>1 DEF DeleteDiscarded, AlwaysInv, TypeInv, CallsType
<1>4. PageType' /\ SoundInv' /\ WritesType'
  BY SoundStill, WritesStill DEF DeleteDiscarded, AlwaysInv, TypeInv, PageType
<1>5. BudgetType' /\ NoneFailed'
  BY DEF DeleteDiscarded, AlwaysInv, TypeInv, BudgetType, NoneFailed, writes
<1> QED
  BY <1>2, <1>3, <1>4, <1>5 DEF AlwaysInv, TypeInv

LEMMA FinishResetTyped ==
  ASSUME AlwaysInv, FinishReset
  PROVE  AlwaysInv'
<1>1. PageType'
  BY FreshValues DEF FinishReset, AlwaysInv, TypeInv, PageType, Keys
<1>2. CallsType'
  BY CallsStill DEF FinishReset, AlwaysInv, TypeInv
<1>3. WritesType'
  BY FreshValues DEF FinishReset, AlwaysInv, TypeInv, WritesType
<1>4. BudgetType' /\ NoneFailed'
  BY Spent DEF FinishReset, AlwaysInv, TypeInv, Spends, Fails
<1>5. DiskType'
  <2>1. CASE UNCHANGED database
    BY <2>1, DatabaseStill DEF AlwaysInv, TypeInv
  <2>2. CASE /\ resetting.key # NoBinding
             /\ records' = [ records EXCEPT ![resetting.key] = NoRecord ]
             /\ recency' = Without(resetting.key)
    BY <2>2, Forgets, PageFields DEF AlwaysInv, TypeInv, Keys
  <2> QED
    BY <2>1, <2>2 DEF FinishReset
<1>6. SoundInv'
  BY DEF FinishReset, AlwaysInv, SoundInv, Full, Sound
<1> QED
  BY <1>1, <1>2, <1>3, <1>4, <1>5, <1>6 DEF AlwaysInv, TypeInv

LEMMA SaveVerifiedTyped ==
  ASSUME AlwaysInv, SaveVerified
  PROVE  AlwaysInv'
<1>1. ui' \in Uis
  <2>1. ui \in Uis /\ "verified" \in Phases /\ NoBinding \in Keys
    BY DEF AlwaysInv, TypeInv, PageType, Phases, Keys
  <2>2. [ ui EXCEPT !.phase = "verified", !.saved = NoBinding, !.active = NoBinding, !.status = "none" ] \in Uis
    BY <2>1 DEF Uis
  <2>3. [ ui EXCEPT !.phase = "verified", !.status = "error" ] \in Uis
    BY <2>1 DEF Uis
  <2> QED
    BY <2>2, <2>3 DEF SaveVerified
<1>2. PageType'
  BY <1>1 DEF SaveVerified, AlwaysInv, TypeInv, PageType
<1>3. CallsType'
  BY DEF SaveVerified, AlwaysInv, TypeInv, CallsType, NoSave, Keys
<1>4. BudgetType' /\ NoneFailed' /\ WritesType'
  BY Spent, WritesStill DEF SaveVerified, AlwaysInv, TypeInv, Spends, Fails, writes
<1>5. DiskType'
  <2>1. CASE UNCHANGED database
    BY <2>1, DatabaseStill DEF AlwaysInv, TypeInv
  <2>2. CASE /\ records' = IF saving.key = NoBinding THEN records
                            ELSE [ records EXCEPT ![saving.key] = NoRecord ]
             /\ recency' = Without(saving.key)
    <3>1. saving.key \in Keys
      BY DEF AlwaysInv, TypeInv, CallsType
    <3> QED
      BY <2>2, <3>1, Deleted DEF AlwaysInv, TypeInv
  <2> QED
    BY <2>1, <2>2 DEF SaveVerified
<1>6. SoundInv'
  BY SoundStill DEF SaveVerified, AlwaysInv
<1> QED
  BY <1>2, <1>3, <1>4, <1>5, <1>6 DEF AlwaysInv, TypeInv

LEMMA ReloadTyped ==
  ASSUME AlwaysInv, Reload
  PROVE  AlwaysInv'
<1>1. PICK k \in Keys : ui' = [ FreshUi EXCEPT !.saved = k ]
  BY Newest DEF Reload, AlwaysInv, TypeInv
<1>2. ui' \in Uis
  BY <1>1, FreshValues DEF Uis
<1>3. PageType'
  BY <1>2, FreshValues DEF Reload, PageType, Keys
<1>4. NoFrames \in [ Positions -> Payload ]
  BY DEF NoFrames, Payload
<1>5. CallsType'
  BY <1>4 DEF Reload, AlwaysInv, TypeInv, CallsType, Restores, NoRestore, NoDiscard, NoSave, Keys
<1>6. WritesType'
  <2>1. << >> \in Seq(Ops) /\ DOMAIN << >> = {}
    OBVIOUS
  <2> QED
    BY <2>1, FreshValues DEF Reload, WritesType
<1>7. DiskType' /\ BudgetType' /\ NoneFailed'
  BY DatabaseStill, Spent DEF Reload, AlwaysInv, TypeInv, Spends
<1>8. SoundInv'
  BY FreshValues, TaskFacts, SoundFresh DEF Reload, AlwaysInv
<1> QED
  BY <1>3, <1>5, <1>6, <1>7, <1>8 DEF AlwaysInv, TypeInv
-----------------------------------------------------------------------------
(* Whatever the user overtook: frames and the queue of writes.             *)

LEMMA CountedFacts ==
  ASSUME WritesType, NEW q, q = << >> \/ \E o \in Ops : q = << o >>
  PROVE  Counted(q) \in [ Positions -> Nat ]
<1>1. ASSUME NEW p \in Positions
      PROVE  Cardinality({ i \in DOMAIN q : q[i].kind = "frame" /\ q[i].pos = p }) \in Nat
  <2> DEFINE S == { i \in DOMAIN q : q[i].kind = "frame" /\ q[i].pos = p }
  <2>1. DOMAIN q \subseteq { 1 }
    <3>1. DOMAIN << >> = {} /\ \A o : DOMAIN << o >> = { 1 }
      OBVIOUS
    <3> QED
      BY <3>1
  <2>2. S = {} \/ S = { 1 }
    BY <2>1
  <2> HIDE DEF S
  <2>3. Cardinality(S) \in Nat
    <3>1. Cardinality({}) = 0 /\ Cardinality({ 1 }) = 1
      BY FS_EmptySet, FS_Singleton
    <3>2. CASE S = {}
      BY <3>1, <3>2
    <3>3. CASE S = { 1 }
      BY <3>1, <3>3
    <3> QED
      BY <2>2, <3>2, <3>3
  <2> QED
    BY <2>3 DEF S
<1>2. \A p \in Positions : pend[p] \in Nat
  BY DEF WritesType
<1>3. \A p \in Positions :
        pend[p] + Cardinality({ i \in DOMAIN q : q[i].kind = "frame" /\ q[i].pos = p }) \in Nat
  BY <1>1, <1>2
<1> QED
  BY <1>3 DEF Counted

LEMMA NotedFacts ==
  ASSUME TypeInv, NEW q, q = << >> \/ \E o \in Ops : q = << o >>, NEW v, v = Noted(q)
  PROVE  /\ v \in Uis /\ v.phase = ui.phase /\ v.mode = ui.mode /\ v.seen /\ v.handled = ui.handled
         /\ q = << >> => v.saved = ui.saved /\ v.active = ui.active /\ v.status = ui.status
         /\ q # << >> => v.status = "saving"
         /\ \A o \in Ops : q = << o >> /\ o.kind = "drop"
              => v.saved = ui.saved /\ v.active = ui.active
         /\ \A o \in Ops : q = << o >> /\ o.kind # "drop" => v.saved = conn /\ v.active = conn
<1>0. ui \in Uis /\ conn \in Keys
  BY PageFields DEF TypeInv, PageType
<1>1. CASE q = << >>
  <2>1. v = [ ui EXCEPT !.seen = TRUE ] /\ \A o : << >> # << o >>
    BY <1>1 DEF Noted
  <2> QED
    BY <1>0, <1>1, <2>1 DEF Uis
<1>2. ASSUME NEW o \in Ops, q = << o >>, o.kind = "drop"
      PROVE  /\ v \in Uis /\ v.phase = ui.phase /\ v.mode = ui.mode /\ v.seen /\ v.handled = ui.handled
             /\ v.status = "saving" /\ v.saved = ui.saved /\ v.active = ui.active
  <2>1. q # << >> /\ q[1] = o
    BY <1>2
  <2>2. v = [ ui EXCEPT !.seen = TRUE, !.status = "saving" ]
    BY <1>2, <2>1 DEF Noted
  <2> QED
    BY <1>0, <2>2 DEF Uis
<1>3. ASSUME NEW o \in Ops, q = << o >>, o.kind # "drop"
      PROVE  /\ v \in Uis /\ v.phase = ui.phase /\ v.mode = ui.mode /\ v.seen /\ v.handled = ui.handled
             /\ v.status = "saving" /\ v.saved = conn /\ v.active = conn
  <2>1. q # << >> /\ q[1] = o
    BY <1>3
  <2>2. v = [ ui EXCEPT !.seen = TRUE, !.status = "saving", !.saved = conn, !.active = conn ]
    BY <1>3, <2>1 DEF Noted
  <2> QED
    BY <1>0, <2>2 DEF Uis
<1>4. \A o, r \in Ops : << o >> = << r >> => o = r
  <2>1. \A o : << o >>[1] = o
    OBVIOUS
  <2> QED
    BY <2>1
<1>5. ASSUME NEW r \in Ops, q = << r >>
      PROVE  /\ v \in Uis /\ v.phase = ui.phase /\ v.mode = ui.mode /\ v.seen /\ v.handled = ui.handled
             /\ q # << >> /\ v.status = "saving"
             /\ \A o \in Ops : q = << o >> => o = r
  <2>1. q # << >>
    BY <1>5
  <2>2. \A o \in Ops : q = << o >> => o = r
    BY <1>4, <1>5
  <2>3. r.kind = "drop" \/ r.kind # "drop"
    OBVIOUS
  <2> QED
    BY <2>1, <2>2, <2>3, <1>2, <1>3, <1>5
<1>6. CASE \E r \in Ops : q = << r >>
  BY <1>2, <1>3, <1>5, <1>6
<1> QED
  BY <1>1, <1>6

LEMMA AbsorbFacts ==
  ASSUME TypeInv, NEW f \in Frames, NEW a, a = Absorb(acc, f), Accepts(acc, f)
  PROVE  /\ a \in Accumulator /\ a.purpose = acc.purpose /\ a.want = acc.want /\ a.done = acc.done
         /\ acc.done => a = acc
         /\ ~acc.done => a.b = (IF f.pos = 0 THEN f.b ELSE acc.b)
         /\ acc.b # NoBinding => a.b = acc.b
         /\ \A c \in 1 .. N : c # f.pos => a.slot[c] = acc.slot[c]
         /\ f.pos \in 1 .. N /\ ~acc.done
              => a.slot[f.pos] = IF Conflict(acc, f) THEN "none" ELSE f.v
<1>0. acc \in Accumulator
  BY DEF TypeInv, PageType
<1>1. CASE acc.done
  BY <1>0, <1>1 DEF Absorb
<1>2. CASE ~acc.done /\ f.pos = 0
  <2>1. PICK b \in Keys : b = f.b
    BY FrameFacts DEF Keys
  <2>2. a = [ acc EXCEPT !.b = b ]
    BY <1>2, <2>1 DEF Absorb
  <2>3. a \in Accumulator /\ a.purpose = acc.purpose /\ a.want = acc.want /\ a.done = acc.done
        /\ a.b = b /\ a.slot = acc.slot
    BY <1>0, <2>2 DEF Accumulator, Keys
  <2>4. acc.b # NoBinding => f.b = acc.b
    BY <1>2 DEF Accepts
  <2> QED
    BY <1>2, <2>1, <2>3, <2>4, Bounds, PositionFacts
<1>3. CASE ~acc.done /\ f.pos # 0
  <2>1. f.pos \in 1 .. N /\ f.v \in Payload /\ acc.slot \in [ 1 .. N -> Payload ]
    BY <1>3, FrameFacts, PageFields
  <2>2. PICK v \in Payload : v = IF Conflict(acc, f) THEN "none" ELSE f.v
    BY <2>1 DEF Payload
  <2>3. PICK slot \in [ 1 .. N -> Payload ] : slot = [ acc.slot EXCEPT ![f.pos] = v ]
    BY <2>1
  <2>4. a = [ acc EXCEPT !.slot = slot ]
    BY <1>3, <2>2, <2>3 DEF Absorb
  <2>5. a \in Accumulator /\ a.purpose = acc.purpose /\ a.want = acc.want /\ a.done = acc.done
        /\ a.b = acc.b /\ a.slot = slot
    BY <1>0, <2>4 DEF Accumulator
  <2>6. slot[f.pos] = v /\ \A c \in 1 .. N : c # f.pos => slot[c] = acc.slot[c]
    BY <2>1, <2>3
  <2> QED
    BY <1>3, <2>2, <2>5, <2>6
<1> QED
  BY <1>1, <1>2, <1>3, PageFields

LEMMA SettledFacts ==
  ASSUME WritesType, NEW o \in Ops
  PROVE  Settled(o) \in [ Positions -> Nat ]
<1>1. pend \in [ Positions -> Nat ] /\ o.pos \in Positions
  BY OpsFacts DEF WritesType
<1>2. CASE o.kind = "frame" /\ pend[o.pos] > 0
  <2>1. PICK n \in Nat : n = pend[o.pos] - 1
    BY <1>1, <1>2
  <2>2. Settled(o) = [ pend EXCEPT ![o.pos] = n ]
    BY <1>2, <2>1 DEF Settled
  <2> QED
    BY <1>1, <2>2
<1>3. CASE ~(o.kind = "frame" /\ pend[o.pos] > 0)
  BY <1>1, <1>3 DEF Settled
<1> QED
  BY <1>2, <1>3

\* What a committed write leaves on the disk.
LEMMA StoredFacts ==
  ASSUME DiskType, NEW o \in Ops, o.kind = "frame" /\ o.pos = 0 => o.v = "good",
         records' = Stored(o), recency' = StoredAt(o)
  PROVE  /\ DiskType'
         /\ \A p \in Positions : Touches(o, p) => records'[o.b].at[p] = Brings(o)
         /\ \A p \in Positions :
              o.kind \in { "frame", "drop" } /\ ~Touches(o, p)
                => records'[o.b].at[p] = records[o.b].at[p]
         /\ o.kind = "proof" => \A p \in Positions : records'[o.b].at[p] = "none"
         /\ recency = << >> \/ recency = << o.b >> =>
              /\ o.kind \in { "frame", "clear", "proof" } => recency' = << o.b >>
              /\ o.kind = "drop" => recency' = recency
              /\ o.kind \in { "delete", "undo" } => recency' = << >>
<1> DEFINE R == [ kept : BOOLEAN, at : [ Positions -> Payload ] ]
           old == records[o.b]
<1>1. /\ o.kind \in { "frame", "drop", "clear", "delete", "proof", "undo" } /\ o.b \in Bindings
      /\ o.pos \in Positions /\ o.v \in Payload
  BY OpsFacts
<1>2. /\ records \in [ Bindings -> R ] /\ old \in R /\ old.at \in [ Positions -> Payload ]
      /\ old.kept \in BOOLEAN /\ old.at[0] # "bad" /\ (\A b \in Bindings : records[b].at[0] # "bad")
      /\ { b \in Bindings : records[b].kept } = { recency[i] : i \in DOMAIN recency }
      /\ recency \in Seq(Bindings)
      /\ \A i, j \in DOMAIN recency : recency[i] = recency[j] => i = j
  BY <1>1 DEF DiskType
<1>3. PICK r \in R :
        /\ records' = [ records EXCEPT ![o.b] = r ]
        /\ r.at[0] # "bad"
        /\ o.kind \in { "frame", "clear", "proof" } => r.kept
        /\ o.kind = "drop" => r.kept = old.kept
        /\ o.kind \in { "delete", "undo" } => ~r.kept
        /\ \A p \in Positions : Touches(o, p) => r.at[p] = Brings(o)
        /\ \A p \in Positions :
              o.kind \in { "frame", "drop" } /\ ~Touches(o, p) => r.at[p] = old.at[p]
        /\ o.kind = "proof" => \A p \in Positions : r.at[p] = "none"
  <2>1. "none" \in Payload /\ 0 \in Positions
    BY PositionFacts DEF Payload
  <2>2. /\ NoRecord \in R /\ ~NoRecord.kept /\ \A p \in Positions : NoRecord.at[p] = "none"
    BY <2>1 DEF NoRecord, NoFrames
  <2>3. /\ ProofOnly \in R /\ ProofOnly.kept /\ \A p \in Positions : ProofOnly.at[p] = "none"
    BY <2>2 DEF ProofOnly
  <2>4. CASE o.kind = "frame"
    <3>1. PICK at \in [ Positions -> Payload ] : at = [ old.at EXCEPT ![o.pos] = o.v ]
      BY <1>1, <1>2
    <3>2. PICK r \in R : r = [ kept |-> TRUE, at |-> at ]
      OBVIOUS
    <3>3. records' = [ records EXCEPT ![o.b] = r ]
      BY <2>4, <3>1, <3>2 DEF Stored
    <3>4. r.kept /\ r.at[o.pos] = o.v /\ \A p \in Positions : p # o.pos => r.at[p] = old.at[p]
      BY <1>1, <1>2, <3>1, <3>2
    <3>5. r.at[0] # "bad"
      BY <1>2, <2>1, <2>4, <3>4
    <3> QED
      BY <2>4, <3>3, <3>4, <3>5 DEF Touches, Brings
  <2>5. CASE o.kind = "drop"
    <3>1. PICK at \in [ Positions -> Payload ] : at = [ old.at EXCEPT ![o.pos] = "none" ]
      BY <1>1, <1>2, <2>1
    <3>2. PICK r \in R : r = [ old EXCEPT !.at = at ]
      BY <1>2
    <3>3. records' = [ records EXCEPT ![o.b] = r ]
      BY <2>5, <3>1, <3>2 DEF Stored
    <3>4. /\ r.kept = old.kept /\ r.at[o.pos] = "none"
          /\ \A p \in Positions : p # o.pos => r.at[p] = old.at[p]
      BY <1>1, <1>2, <3>1, <3>2
    <3>5. r.at[0] # "bad"
      BY <1>2, <2>1, <3>4
    <3> QED
      BY <2>5, <3>3, <3>4, <3>5 DEF Touches, Brings
  <2>6. CASE o.kind \in { "clear", "proof" }
    <3>1. records' = [ records EXCEPT ![o.b] = ProofOnly ]
      BY <2>6 DEF Stored
    <3> QED
      BY <2>1, <2>3, <2>6, <3>1 DEF Touches, Brings
  <2>7. CASE o.kind \in { "delete", "undo" }
    <3>1. records' = [ records EXCEPT ![o.b] = NoRecord ]
      BY <2>7 DEF Stored
    <3> QED
      BY <2>1, <2>2, <2>7, <3>1 DEF Touches, Brings
  <2> QED
    BY <1>1, <2>4, <2>5, <2>6, <2>7
<1>4. /\ records' \in [ Bindings -> R ] /\ records'[o.b] = r
      /\ \A b \in Bindings : b # o.b => records'[b] = records[b]
  BY <1>1, <1>2, <1>3
<1>5. /\ o.kind \in { "frame", "clear", "proof" } => recency' = Append(Without(o.b), o.b)
      /\ o.kind = "drop" => recency' = recency
      /\ o.kind \in { "delete", "undo" } => recency' = Without(o.b)
  BY DEF StoredAt
<1>6. /\ recency' \in Seq(Bindings)
      /\ \A i, j \in DOMAIN recency' : recency'[i] = recency'[j] => i = j
      /\ { b \in Bindings : records'[b].kept } = { recency'[i] : i \in DOMAIN recency' }
  <2> DEFINE S == { recency[i] : i \in DOMAIN recency }
  <2>1. CASE o.kind \in { "frame", "clear", "proof" }
    <3>1. /\ recency' \in Seq(Bindings) /\ { recency'[i] : i \in DOMAIN recency' } = S \cup { o.b }
          /\ \A i, j \in DOMAIN recency' : recency'[i] = recency'[j] => i = j
      <4>1. recency' = Append(Without(o.b), o.b)
        BY <1>5, <2>1
      <4>2. o.b \in Bindings
        BY <1>1
      <4> QED
        BY <4>1, <4>2, NewestKey
    <3>2. { b \in Bindings : records'[b].kept } = { b \in Bindings : records[b].kept } \cup { o.b }
      BY <1>1, <1>3, <1>4, <2>1
    <3> QED
      BY <1>2, <3>1, <3>2, Zenon
  <2>2. CASE o.kind = "drop"
    <3>1. { b \in Bindings : records'[b].kept } = { b \in Bindings : records[b].kept }
      BY <1>1, <1>3, <1>4, <2>2
    <3>2. recency' = recency
      BY <1>5, <2>2
    <3> QED
      BY <1>2, <3>1, <3>2
  <2>3. CASE o.kind \in { "delete", "undo" }
    <3>1. o.b \in Keys
      BY <1>1 DEF Keys
    <3>2. /\ recency' \in Seq(Bindings) /\ { recency'[i] : i \in DOMAIN recency' } = S \ { o.b }
          /\ \A i, j \in DOMAIN recency' : recency'[i] = recency'[j] => i = j
      <4>1. recency' = Without(o.b)
        BY <1>5, <2>3
      <4> QED
        BY <3>1, <4>1, WithoutKey
    <3>3. { b \in Bindings : records'[b].kept } = { b \in Bindings : records[b].kept } \ { o.b }
      BY <1>1, <1>3, <1>4, <2>3
    <3> QED
      BY <1>2, <3>2, <3>3, Zenon
  <2> QED
    BY <1>1, <2>1, <2>2, <2>3
<1>7. \A b \in Bindings : records'[b].at[0] # "bad"
  BY <1>2, <1>3, <1>4
<1>8. DiskType'
  BY <1>4, <1>6, <1>7 DEF DiskType
<1>9. recency = << >> \/ recency = << o.b >> =>
        /\ o.kind \in { "frame", "clear", "proof" } => recency' = << o.b >>
        /\ o.kind = "drop" => recency' = recency
        /\ o.kind \in { "delete", "undo" } => recency' = << >>
  BY <1>1, <1>5, OneKey
<1> QED
  BY <1>3, <1>4, <1>8, <1>9

LEMMA StatusFacts ==
  ASSUME NEW q, NEW fails
  PROVE  /\ Status(q, fails) \in { "none", "saving", "saved", "error" }
         /\ Status(q, fails) = "saved" => fails = {} /\ ~Pending(q)
  BY DEF Status

\* What a frame is for a position of the checkpoint.
LEMMA FrameOp ==
  ASSUME TypeInv, conn # NoBinding, NEW f \in Frames, NEW o,
         \/ o = Op("drop", conn, f.pos, "none") \/ o = Op("frame", conn, f.pos, f.v)
  PROVE  /\ o \in Ops /\ o.b = conn /\ o.kind \in { "frame", "drop" } /\ o.pos = f.pos
         /\ o.kind = "frame" /\ o.pos = 0 => o.v = "good"
         /\ \A p : Touches(o, p) <=> p = f.pos
         /\ o = Op("drop", conn, f.pos, "none") => o.kind = "drop" /\ Brings(o) = "none"
         /\ o = Op("frame", conn, f.pos, f.v) => o.kind = "frame" /\ Brings(o) = f.v
<1>1. conn \in Bindings /\ f.pos \in Positions /\ f.v \in Payload /\ "none" \in Payload
      /\ (f.pos = 0 => f.v = "good")
  BY PageFields, FrameFacts DEF Keys, Payload
<1>2. CASE o = Op("drop", conn, f.pos, "none")
  <2>1. o \in Ops /\ o.b = conn /\ o.kind = "drop" /\ o.pos = f.pos
    BY <1>1, <1>2, OpFacts
  <2>2. o # Op("frame", conn, f.pos, f.v)
    BY <1>1, <2>1, OpFacts
  <2> QED
    BY <1>2, <2>1, <2>2 DEF Touches, Brings
<1>3. CASE o = Op("frame", conn, f.pos, f.v)
  <2>1. o \in Ops /\ o.b = conn /\ o.kind = "frame" /\ o.pos = f.pos /\ o.v = f.v
    BY <1>1, <1>3, OpFacts
  <2>2. o # Op("drop", conn, f.pos, "none")
    BY <1>1, <2>1, OpFacts
  <2> QED
    BY <1>1, <1>3, <2>1, <2>2 DEF Touches, Brings
<1> QED
  BY <1>2, <1>3

LEMMA MoreOps ==
  ASSUME NEW q \in Seq(Ops),
         \A i \in DOMAIN q : q[i].kind = "frame" /\ q[i].pos = 0 => q[i].v = "good",
         NEW o \in Ops, o.kind = "frame" /\ o.pos = 0 => o.v = "good",
         NEW r, r = q \o << o >>
  PROVE  /\ r \in Seq(Ops) /\ r # << >>
         /\ \A i \in DOMAIN r : i \in DOMAIN q \/ r[i] = o
         /\ \A i \in DOMAIN q : i \in DOMAIN r /\ r[i] = q[i]
         /\ \A i \in DOMAIN r : r[i].kind = "frame" /\ r[i].pos = 0 => r[i].v = "good"
         /\ Len(r) = Len(q) + 1
<1>1. Len(q) \in Nat /\ DOMAIN q = 1 .. Len(q)
  OBVIOUS
<1>2. /\ r \in Seq(Ops) /\ Len(r) = Len(q) + 1
      /\ \A i \in 1 .. Len(q) : r[i] = q[i]
      /\ r[Len(q) + 1] = o /\ DOMAIN r = 1 .. Len(q) + 1
  BY OneMore
<1>3. r # << >>
  BY <1>1, <1>2
<1>4. \A i \in DOMAIN r : i \in DOMAIN q \/ r[i] = o
  BY <1>1, <1>2
<1>5. \A i \in DOMAIN q : i \in DOMAIN r /\ r[i] = q[i]
  BY <1>1, <1>2
<1>6. \A i \in DOMAIN r : r[i].kind = "frame" /\ r[i].pos = 0 => r[i].v = "good"
  BY <1>4, <1>5
<1> QED
  BY <1>2, <1>3, <1>4, <1>5, <1>6

\* A queue of writes; at most one write of a frame.
GoodOps(r) == r \in Seq(Ops) /\ \A i \in DOMAIN r : r[i].kind = "frame" /\ r[i].pos = 0 => r[i].v = "good"
OneWrite(q) ==
  \/ q = << >>
  \/ \E o \in Ops : q = << o >> /\ (o.kind = "frame" /\ o.pos = 0 => o.v = "good")

LEMMA MoreTyped ==
  ASSUME NEW r, GoodOps(r), NEW q, OneWrite(q)
  PROVE  GoodOps(r \o q)
<1>1. CASE q = << >>
  <2>1. r \o q = r
    BY <1>1 DEF GoodOps
  <2> QED
    BY <2>1
<1>2. ASSUME NEW o \in Ops, q = << o >>, o.kind = "frame" /\ o.pos = 0 => o.v = "good"
      PROVE  GoodOps(r \o q)
  BY <1>2, MoreOps DEF GoodOps
<1> QED
  BY <1>1, <1>2 DEF OneWrite

LEMMA WritesTyped ==
  ASSUME TypeInv, NEW f \in Frames, NEW dup, NEW conflict, NEW q, q = Writes(f, dup, conflict)
  PROVE  /\ OneWrite(q) /\ GoodOps(persist \o q) /\ Counted(q) \in [ Positions -> Nat ]
         /\ Noted(q) \in Uis
<1>1. \/ q = << >>
      \/ conn # NoBinding /\ (q = << Op("drop", conn, f.pos, "none") >> \/ q = << Op("frame", conn, f.pos, f.v) >>)
  BY DEF Writes
<1>2. OneWrite(q)
  BY <1>1, FrameOp DEF OneWrite
<1>3. GoodOps(persist)
  BY DEF GoodOps, TypeInv, WritesType
<1>4. GoodOps(persist \o q)
  BY <1>2, <1>3, MoreTyped
<1>5. WritesType /\ (q = << >> \/ \E o \in Ops : q = << o >>)
  BY <1>2 DEF OneWrite, TypeInv
<1>6. Counted(q) \in [ Positions -> Nat ]
  BY <1>5, CountedFacts
<1>7. PICK v : v = Noted(q)
  OBVIOUS
<1>8. v \in Uis
  BY <1>5, <1>7, NotedFacts
<1> QED
  BY <1>2, <1>4, <1>6, <1>7, <1>8

LEMMA IngestTyped ==
  ASSUME AlwaysInv, NEW f \in Frames, Ingest(f), task = NoTask,
         UNCHANGED << conn, camera, archive, calls, failed, database >>,
         queued' = << >> \/ \E g \in Frames : queued' = << g >>,
         BudgetType', budget'.failures = budget.failures
  PROVE  AlwaysInv'
<1>0. TypeInv /\ SoundInv /\ NoTask.step = "none"
  BY TaskFacts DEF AlwaysInv
<1>1. CallsType' /\ DiskType' /\ NoneFailed'
  BY CallsStill, DatabaseStill DEF AlwaysInv, TypeInv, calls, NoneFailed
<1>2. CASE ~Accepts(acc, f)
  <2>1. UNCHANGED << acc, task, persist, pend, ui >>
    BY <1>2 DEF Ingest
  <2>2. PageType'
    BY <2>1 DEF AlwaysInv, TypeInv, PageType, calls
  <2>3. SoundInv' /\ WritesType'
    BY <1>0, <2>1, SoundStill, WritesStill DEF TypeInv, writes
  <2> QED
    BY <1>1, <2>2, <2>3 DEF AlwaysInv, TypeInv
<1>3. CASE Accepts(acc, f)
  <2>1. PICK a : a = Absorb(acc, f)
    OBVIOUS
  <2>2. a \in Accumulator /\ a.done = acc.done /\ (acc.done => a = acc)
    BY <1>0, <1>3, <2>1, AbsorbFacts
  <2>3. acc' = a
    BY <1>3, <2>1 DEF Ingest
  <2>4. CASE Full(a) /\ ~acc.done
    <3>1. task' = Reading(f) /\ UNCHANGED << persist, pend, ui >>
      BY <1>3, <2>1, <2>4 DEF Ingest
    <3>2. task'.step = "hash" /\ task' \in Tasks
      BY <3>1, TaskFacts
    <3>3. PageType'
      BY <2>2, <2>3, <3>1, <3>2 DEF AlwaysInv, TypeInv, PageType, calls
    <3>4. WritesType'
      BY <1>0, <3>1, WritesStill DEF TypeInv, writes
    <3>5. SoundInv'
      BY <1>0, <2>2, <2>3, <2>4, <3>2 DEF SoundInv, Full
    <3> QED
      BY <1>1, <3>3, <3>4, <3>5 DEF AlwaysInv, TypeInv
  <2>5. CASE ~(Full(a) /\ ~acc.done)
    <3>1. PICK q : q = Writes(f, Duplicate(acc, f), Conflict(acc, f))
      OBVIOUS
    <3>2. persist' = persist \o q /\ pend' = Counted(q) /\ ui' = Noted(q) /\ UNCHANGED task
      BY <1>3, <2>1, <2>5, <3>1 DEF Ingest
    <3>3. GoodOps(persist') /\ pend' \in [ Positions -> Nat ] /\ ui' \in Uis
      BY <1>0, <3>1, <3>2, WritesTyped
    <3>4. PageType'
      BY <2>2, <2>3, <3>2, <3>3 DEF AlwaysInv, TypeInv, PageType, calls
    <3>5. WritesType'
      BY <1>0, <3>3 DEF GoodOps, TypeInv, WritesType
    <3>6. SoundInv'
      BY <1>0, <2>2, <2>3, <3>2 DEF SoundInv, Sound
    <3> QED
      BY <1>1, <3>4, <3>5, <3>6 DEF AlwaysInv, TypeInv
  <2> QED
    BY <2>4, <2>5
<1> QED
  BY <1>2, <1>3

LEMMA IngestQueuedTyped ==
  ASSUME AlwaysInv, IngestQueued
  PROVE  AlwaysInv'
<1>1. PICK f \in Frames : f = Head(queued)
  BY DEF IngestQueued, AlwaysInv, TypeInv, PageType
<1>2. BudgetType' /\ budget'.failures = budget.failures
  BY DEF IngestQueued, AlwaysInv, TypeInv, BudgetType
<1> QED
  BY <1>1, <1>2, IngestTyped DEF IngestQueued

LEMMA ScanBudget ==
  ASSUME BudgetType, NEW f, Scan(f)
  PROVE  BudgetType' /\ budget'.failures = budget.failures
<1>1. CASE f.v = "bad"
  <2>1. PICK n \in Nat : n = budget.bad - 1
    BY <1>1 DEF Scan, BudgetType
  <2>2. budget' = [ budget EXCEPT !.bad = n ]
    BY <1>1, <2>1 DEF Scan
  <2> QED
    BY <2>2 DEF BudgetType
<1>2. CASE f.v # "bad"
  BY <1>2 DEF Scan, BudgetType
<1> QED
  BY <1>1, <1>2

LEMMA ScanTyped ==
  ASSUME AlwaysInv, NEW f \in Frames, Scan(f)
  PROVE  AlwaysInv'
<1>1. BudgetType' /\ budget'.failures = budget.failures
  BY ScanBudget DEF AlwaysInv, TypeInv
<1>2. UNCHANGED << conn, camera, archive, calls, failed, database >>
  BY DEF Scan
<1>3. CASE task = NoTask /\ queued = << >> /\ Ingest(f) /\ UNCHANGED queued
  BY <1>1, <1>2, <1>3, IngestTyped
<1>4. CASE queued' = << f >> /\ UNCHANGED << acc, task, persist, pend, ui >>
  <2>1. PageType'
    BY <1>2, <1>4 DEF AlwaysInv, TypeInv, PageType, calls
  <2>2. CallsType' /\ DiskType' /\ NoneFailed'
    BY <1>1, <1>2, CallsStill, DatabaseStill DEF AlwaysInv, TypeInv, calls, NoneFailed
  <2>3. SoundInv' /\ WritesType'
    BY <1>2, <1>4, SoundStill, WritesStill DEF AlwaysInv, TypeInv, writes
  <2> QED
    BY <1>1, <2>1, <2>2, <2>3 DEF AlwaysInv, TypeInv
<1> QED
  BY <1>3, <1>4 DEF Scan

LEMMA PassedTyped ==
  ASSUME AlwaysInv, VerificationPassed
  PROVE  AlwaysInv'
<1>1. task.step = "hash" /\ task.frame \in Frames /\ TypeInv /\ Full(acc) /\ Sound(acc)
  BY TaskFacts, PageFields DEF VerificationPassed, AlwaysInv, SoundInv
<1>2. PICK q : q = Writes(task.frame, FALSE, FALSE)
  OBVIOUS
<1>3. /\ GoodOps(persist \o q) /\ Counted(q) \in [ Positions -> Nat ] /\ Noted(q) \in Uis
  BY <1>1, <1>2, WritesTyped
<1>4. persist' = persist \o q /\ pend' = Counted(q) /\ acc' = [ acc EXCEPT !.done = TRUE ]
      /\ UNCHANGED << conn, queued, archive, calls, failed, database, budget >>
  BY <1>2 DEF VerificationPassed
<1>5. /\ acc' \in Accumulator /\ acc'.done /\ acc'.purpose = acc.purpose /\ acc'.b = acc.b
      /\ acc'.slot = acc.slot
  BY <1>1, <1>4 DEF TypeInv, PageType, Accumulator
<1>6. /\ ui' \in Uis /\ task' \in Tasks /\ camera' \in Cameras
      /\ camera'.opened = camera.opened /\ camera'.start = camera.start /\ task'.step # "hash"
  <2>1. camera \in Cameras /\ ui.mode \in { "probe", "files" }
    BY <1>1, PageFields DEF TypeInv, PageType
  <2>2. CASE /\ task' = Completing(ui.mode)
             /\ ui' = [ Noted(q) EXCEPT !.handled = TRUE, !.phase = "finalizing" ]
             /\ camera' = [ camera EXCEPT !.live = FALSE ]
    <3>1. PICK u \in Uis : u = Noted(q)
      BY <1>3
    <3>2. ui' \in Uis
      BY <2>2, <3>1 DEF Uis, Phases
    <3>3. camera' \in Cameras /\ camera'.opened = camera.opened /\ camera'.start = camera.start
      BY <2>1, <2>2 DEF Cameras
    <3> QED
      BY <2>1, <2>2, <3>2, <3>3, TaskFacts
  <2>3. CASE task' = NoTask /\ ui' = Noted(q) /\ UNCHANGED camera
    BY <1>3, <2>1, <2>3, TaskFacts DEF Tasks
  <2> QED
    BY <1>2, <2>2, <2>3 DEF VerificationPassed
<1>7. PageType'
  BY <1>4, <1>5, <1>6 DEF AlwaysInv, TypeInv, PageType, calls
<1>8. CallsType' /\ DiskType' /\ BudgetType' /\ NoneFailed'
  BY <1>1, <1>4, CallsStill, DatabaseStill DEF TypeInv, calls, BudgetType, NoneFailed
<1>9. WritesType'
  BY <1>1, <1>3, <1>4 DEF GoodOps, TypeInv, WritesType
<1>10. SoundInv'
  BY <1>1, <1>4, <1>5, <1>6 DEF AlwaysInv, SoundInv, Full, Sound
<1> QED
  BY <1>7, <1>8, <1>9, <1>10 DEF AlwaysInv, TypeInv

LEMMA FailedTyped ==
  ASSUME AlwaysInv, VerificationFailed
  PROVE  AlwaysInv'
<1>1. /\ task.step = "hash" /\ task.frame \in Frames /\ TypeInv /\ ~acc.done
      /\ acc \in Accumulator /\ conn \in Keys
  BY TaskFacts, PageFields DEF VerificationFailed, AlwaysInv, SoundInv, TypeInv, PageType
<1>2. PICK q : q = Writes(task.frame, FALSE, FALSE)
  OBVIOUS
<1>3. /\ GoodOps(persist \o q) /\ Counted(q) \in [ Positions -> Nat ] /\ Noted(q) \in Uis
  BY <1>1, <1>2, WritesTyped
<1>4. PICK u \in Uis : u = Noted(q)
  BY <1>3
<1>5. /\ pend' = Counted(q) /\ task' = NoTask
      /\ UNCHANGED << conn, queued, camera, archive, calls, failed, database, budget >>
  BY <1>2 DEF VerificationFailed
<1>6. acc' \in Accumulator /\ ~acc'.done /\ ui' \in Uis /\ GoodOps(persist')
  <2>1. CASE Torn
    <3>1. acc' = [ acc EXCEPT !.slot = Empty ] /\ ui' = u /\ UNCHANGED persist
      BY <1>2, <1>4, <2>1 DEF VerificationFailed
    <3>2. Empty \in [ 1 .. N -> Payload ]
      BY FreshValues
    <3> QED
      BY <1>1, <3>1, <3>2 DEF Accumulator, TypeInv, WritesType, GoodOps
  <2>2. CASE ~Torn
    <3>1. PICK kind \in { "clear", "delete" } :
            persist' = persist \o q \o ( IF u.active = NoBinding THEN << >>
                                         ELSE << Op(kind, u.active, 0, "none") >> )
      BY <1>2, <1>4, <2>2 DEF VerificationFailed
    <3>2. acc' \in { FilesAccumulator(conn), ProbeAccumulator }
          /\ (acc' = FilesAccumulator(conn) => conn # NoBinding \/ acc' = ProbeAccumulator)
      BY <2>2 DEF VerificationFailed
    <3>3. PICK status \in { "none", "saving", "saved", "error" } :
            ui' = [ u EXCEPT !.handled = FALSE, !.status = status ]
      <4>1. u.status \in { "none", "saving", "saved", "error" }
        BY DEF Uis
      <4>2. ui' = [ u EXCEPT !.handled = FALSE,
                        !.status = IF u.active = NoBinding THEN u.status ELSE "saving" ]
        BY <1>2, <1>4, <2>2 DEF VerificationFailed
      <4> QED
        BY <4>1, <4>2
    <3>4. PICK d : d = ( IF u.active = NoBinding THEN << >>
                                         ELSE << Op(kind, u.active, 0, "none") >> )
      OBVIOUS
    <3>5. OneWrite(d)
      <4>1. CASE u.active = NoBinding
        BY <3>4, <4>1 DEF OneWrite
      <4>2. CASE u.active # NoBinding
        <5>1. u.active \in Bindings /\ "none" \in Payload
          BY <4>2 DEF Uis, Keys, Payload
        <5>2. PICK o \in Ops : o = Op(kind, u.active, 0, "none") /\ o.kind = kind
          BY <5>1, OpFacts, PositionFacts
        <5> QED
          BY <3>4, <4>2, <5>2 DEF OneWrite
      <4> QED
        BY <4>1, <4>2
    <3>6. PICK r : r = persist \o q
      OBVIOUS
    <3>7. GoodOps(r \o d)
      BY <1>3, <3>5, <3>6, MoreTyped
    <3>8. acc' \in Accumulator /\ ~acc'.done
      BY <1>1, <3>2, FilesAccumulatorFacts, FreshValues DEF Keys
    <3>9. ui' \in Uis
      BY <3>3 DEF Uis
    <3> QED
      BY <3>1, <3>4, <3>6, <3>7, <3>8, <3>9
  <2> QED
    BY <2>1, <2>2
<1>7. PageType'
  BY <1>5, <1>6, FreshValues DEF AlwaysInv, TypeInv, PageType, calls
<1>8. CallsType' /\ DiskType' /\ BudgetType' /\ NoneFailed'
  BY <1>1, <1>5, CallsStill, DatabaseStill DEF TypeInv, calls, BudgetType, NoneFailed
<1>9. WritesType'
  BY <1>1, <1>3, <1>5, <1>6 DEF GoodOps, TypeInv, WritesType
<1>10. SoundInv'
  BY <1>5, <1>6, SoundFresh DEF AlwaysInv
<1> QED
  BY <1>7, <1>8, <1>9, <1>10 DEF AlwaysInv, TypeInv
-----------------------------------------------------------------------------
(* Whatever the user overtook: the first queued write is done or fails.    *)

LEMMA HeadTyped ==
  ASSUME TypeInv, persist # << >>
  PROVE  /\ Head(persist) \in Ops
         /\ Head(persist).kind = "frame" /\ Head(persist).pos = 0 => Head(persist).v = "good"
         /\ GoodOps(Tail(persist))
<1>1. /\ persist \in Seq(Ops)
      /\ \A i \in DOMAIN persist :
           persist[i].kind = "frame" /\ persist[i].pos = 0 => persist[i].v = "good"
  BY DEF TypeInv, WritesType
<1>2. /\ Tail(persist) \in Seq(Ops)
      /\ Head(persist) \in Ops /\ Head(persist) = persist[1] /\ 1 \in DOMAIN persist
      /\ DOMAIN Tail(persist) = 1 .. Len(persist) - 1
      /\ \A i \in 1 .. Len(persist) - 1 :
           Tail(persist)[i] = persist[i + 1] /\ i + 1 \in DOMAIN persist
  BY <1>1, OneLess
<1>3. Head(persist).kind = "frame" /\ Head(persist).pos = 0 => Head(persist).v = "good"
  BY <1>1, <1>2
<1>4. \A i \in DOMAIN Tail(persist) :
        Tail(persist)[i].kind = "frame" /\ Tail(persist)[i].pos = 0 => Tail(persist)[i].v = "good"
  BY <1>1, <1>2
<1> QED
  BY <1>2, <1>3, <1>4 DEF GoodOps

LEMMA PoppedTyped ==
  ASSUME TypeInv, persist # << >>, Popped
  PROVE  /\ GoodOps(persist') /\ persist' = Tail(persist)
         /\ resetting' \in [ key : Keys, left : Int ] /\ CallsType'
<1>1. GoodOps(persist') /\ persist' = Tail(persist)
  BY HeadTyped DEF Popped
<1>2. CallsType'
  BY CallsStill DEF Popped, TypeInv
<1>3. resetting \in [ key : Keys, left : Int ]
  BY DEF TypeInv, PageType
<1>4. CASE resetting.left > 0
  <2>1. PICK n \in Int : n = resetting.left - 1
    BY <1>3
  <2>2. resetting' = [ resetting EXCEPT !.left = n ]
    BY <1>4, <2>1 DEF Popped
  <2> QED
    BY <1>1, <1>2, <1>3, <2>2
<1>5. CASE ~(resetting.left > 0)
  BY <1>1, <1>2, <1>3, <1>5 DEF Popped
<1> QED
  BY <1>4, <1>5

LEMMA WriteCommitsTyped ==
  ASSUME AlwaysInv, WriteCommits
  PROVE  AlwaysInv'
<1>1. PICK o, rest : o = Head(persist) /\ rest = Tail(persist)
  OBVIOUS
<1>2. /\ persist # << >> /\ o.kind # "proof" /\ records' = Stored(o) /\ recency' = StoredAt(o)
      /\ Popped /\ UNCHANGED << conn, acc, task, queued, camera, archive, budget >>
      /\ pend' = IF o.kind = "clear" THEN Zero ELSE Settled(o)
      /\ failed' = IF o.kind = "clear" THEN {}
                   ELSE IF o.kind \in { "frame", "drop" } THEN failed \ { o.pos } ELSE failed
  BY <1>1 DEF WriteCommits
<1>3. o \in Ops /\ (o.kind = "frame" /\ o.pos = 0 => o.v = "good") /\ TypeInv /\ SoundInv
  BY <1>1, <1>2, HeadTyped DEF AlwaysInv
<1>4. GoodOps(persist') /\ resetting' \in [ key : Keys, left : Int ] /\ CallsType'
  BY <1>2, <1>3, PoppedTyped
<1>5. DiskType'
  BY <1>2, <1>3, StoredFacts DEF TypeInv
<1>6. ui \in Uis /\ o.b \in Bindings /\ WritesType
  BY <1>3, OpsFacts DEF TypeInv, PageType
<1>7. pend' \in [ Positions -> Nat ]
  BY <1>2, <1>3, <1>6, SettledFacts, FreshValues
<1>8. failed' \subseteq failed /\ failed' \subseteq Positions
  BY <1>2, <1>6 DEF WritesType
<1>9. ui' \in Uis
  <2>1. CASE ~o.fresh
    <3>1. ui' = ui
      BY <1>1, <2>1 DEF WriteCommits
    <3> QED
      BY <1>6, <3>1
  <2>2. CASE o.fresh /\ o.kind = "delete"
    <3>1. ui' = [ ui EXCEPT !.active = NoBinding, !.saved = NoBinding, !.status = "none" ]
      BY <1>1, <2>2 DEF WriteCommits
    <3> QED
      BY <1>6, <3>1 DEF Uis, Keys
  <2>3. CASE o.fresh /\ o.kind = "clear"
    <3>1. PICK s \in { "none", "saving", "saved", "error" } : s = Status(rest, {})
      BY StatusFacts
    <3>2. ui' = [ ui EXCEPT !.active = o.b, !.saved = o.b, !.status = Status(rest, {}) ]
      BY <1>1, <2>3 DEF WriteCommits
    <3>3. ui' = [ ui EXCEPT !.active = o.b, !.saved = o.b, !.status = s ]
      BY <3>1, <3>2
    <3> QED
      BY <1>6, <3>3 DEF Uis, Keys
  <2>4. CASE o.fresh /\ o.kind \notin { "delete", "clear" }
    <3>1. PICK s \in { "none", "saving", "saved", "error" } : s = Status(rest, failed')
      BY StatusFacts
    <3>2. ui' = [ ui EXCEPT !.status = Status(rest, failed') ]
      BY <1>1, <2>4 DEF WriteCommits
    <3>3. ui' = [ ui EXCEPT !.status = s ]
      BY <3>1, <3>2
    <3> QED
      BY <1>6, <3>3 DEF Uis
  <2> QED
    BY <2>1, <2>2, <2>3, <2>4
<1>10. PageType'
  BY <1>2, <1>3, <1>4, <1>9 DEF TypeInv, PageType
<1>11. WritesType'
  BY <1>4, <1>7, <1>8 DEF GoodOps, WritesType
<1>12. BudgetType' /\ NoneFailed' /\ SoundInv'
  BY <1>2, <1>3, <1>8, SoundStill DEF TypeInv, BudgetType, NoneFailed
<1> QED
  BY <1>4, <1>5, <1>10, <1>11, <1>12 DEF AlwaysInv, TypeInv

LEMMA WriteFailsTyped ==
  ASSUME AlwaysInv, WriteFails
  PROVE  AlwaysInv'
<1>1. PICK o : o = Head(persist)
  OBVIOUS
<1>2. /\ persist # << >> /\ Popped
      /\ UNCHANGED << conn, acc, task, queued, camera, archive, database >>
      /\ pend' = Settled(o)
      /\ failed' = IF o.kind \in { "frame", "drop" } THEN failed \cup { o.pos } ELSE failed
      /\ ui' = IF o.fresh THEN [ ui EXCEPT !.status = "error" ] ELSE ui
  BY <1>1 DEF WriteFails
<1>3. o \in Ops /\ TypeInv /\ SoundInv
  BY <1>1, <1>2, HeadTyped DEF AlwaysInv
<1>4. GoodOps(persist') /\ resetting' \in [ key : Keys, left : Int ] /\ CallsType'
  BY <1>2, <1>3, PoppedTyped
<1>5. WritesType /\ ui \in Uis /\ o.pos \in Positions
  BY <1>3, OpsFacts DEF TypeInv, PageType
<1>6. pend' \in [ Positions -> Nat ] /\ failed' \subseteq Positions
  BY <1>2, <1>3, <1>5, SettledFacts DEF WritesType
<1>7. ui' \in Uis
  BY <1>2, <1>5 DEF Uis
<1>8. PageType'
  BY <1>2, <1>3, <1>4, <1>7 DEF TypeInv, PageType
<1>9. WritesType'
  BY <1>4, <1>6 DEF GoodOps, WritesType
<1>10. BudgetType' /\ NoneFailed'
  BY <1>3, SpentFailure DEF WriteFails, TypeInv, NoneFailed
<1>11. DiskType' /\ SoundInv'
  BY <1>2, <1>3, DatabaseStill, SoundStill DEF TypeInv
<1> QED
  BY <1>4, <1>8, <1>9, <1>10, <1>11 DEF AlwaysInv, TypeInv

\* The page shows the connection.
LEMMA PublishTyped ==
  ASSUME TypeInv, SoundInv, NEW b \in Bindings, NEW stored \in BOOLEAN, Publish(b, stored),
         UNCHANGED << camera, archive >>, resetting' \in [ key : Keys, left : Int ]
  PROVE  PageType' /\ SoundInv'
<1>1. /\ conn' = b /\ acc' = FilesAccumulator(b) /\ task' = NoTask /\ queued' = << >>
      /\ conn' \in Keys
  BY DEF Publish, Keys
<1>2. PICK s \in { "saved", "error" }, k \in Keys :
        /\ s = (IF stored THEN "saved" ELSE "error") /\ k = (IF stored THEN b ELSE NoBinding)
  BY DEF Keys
<1>3. ui' = [ ui EXCEPT !.mode = "files", !.handled = FALSE, !.seen = FALSE, !.proof = NoBinding,
                !.phase = "test-verified", !.status = s, !.saved = k, !.active = k ]
  BY <1>2 DEF Publish
<1>4. ui' \in Uis
  BY <1>3 DEF TypeInv, PageType, Uis, Phases, Keys
<1>5. acc' \in Accumulator /\ ~acc'.done
  BY <1>1, FilesAccumulatorFacts
<1>6. PageType'
  BY <1>1, <1>4, <1>5, FreshValues DEF TypeInv, PageType
<1>7. SoundInv'
  BY <1>1, <1>5, SoundFresh
<1> QED
  BY <1>6, <1>7

LEMMA ProofCommitsTyped ==
  ASSUME AlwaysInv, ProofCommits
  PROVE  AlwaysInv'
<1>1. PICK o : o = Head(persist)
  OBVIOUS
<1>2. /\ persist # << >> /\ o.kind = "proof" /\ records' = Stored(o) /\ recency' = StoredAt(o)
      /\ UNCHANGED << camera, archive, pend, failed, budget >>
  BY <1>1 DEF ProofCommits
<1>3. o \in Ops /\ o.b \in Bindings /\ o.kind # "frame" /\ TypeInv /\ SoundInv
  BY <1>1, <1>2, HeadTyped, OpsFacts DEF AlwaysInv
<1>4. DiskType'
  BY <1>2, <1>3, StoredFacts DEF TypeInv
<1>5. BudgetType' /\ NoneFailed'
  BY <1>2, <1>3 DEF TypeInv, BudgetType, NoneFailed
<1>6. GoodOps(persist') /\ CallsType' /\ PageType' /\ SoundInv'
  <2>1. CASE o.fresh
    <3>1. Popped /\ Publish(o.b, TRUE)
      BY <1>1, <2>1 DEF ProofCommits
    <3>2. GoodOps(persist') /\ resetting' \in [ key : Keys, left : Int ] /\ CallsType'
      BY <1>2, <1>3, <3>1, PoppedTyped
    <3> QED
      BY <1>2, <1>3, <3>1, <3>2, PublishTyped
  <2>2. CASE ~o.fresh
    <3>1. PICK u : u = [ o EXCEPT !.kind = "undo" ]
      OBVIOUS
    <3>2. u \in Ops /\ u.kind = "undo"
      BY <1>3, <3>1 DEF Ops
    <3>3. PICK rest : rest = Tail(persist)
      OBVIOUS
    <3>4. /\ persist' = << u >> \o rest
          /\ UNCHANGED << ui, conn, acc, task, queued, calls >>
      BY <1>1, <2>2, <3>1, <3>3 DEF ProofCommits
    <3>5. GoodOps(rest)
      BY <1>2, <1>3, <3>3, HeadTyped
    <3>6. /\ persist' \in Seq(Ops) /\ DOMAIN persist' = 1 .. Len(rest) + 1 /\ persist'[1] = u
          /\ \A i \in DOMAIN persist' : i # 1 => i - 1 \in DOMAIN rest /\ persist'[i] = rest[i - 1]
      <4>1. rest \in Seq(Ops)
        BY <3>5 DEF GoodOps
      <4> QED
        BY <3>2, <3>4, <4>1
    <3>7. GoodOps(persist')
      BY <3>2, <3>5, <3>6 DEF GoodOps
    <3>8. PageType' /\ CallsType' /\ SoundInv'
      BY <1>2, <1>3, <3>4, CallsStill, SoundStill DEF TypeInv, PageType, calls
    <3> QED
      BY <3>7, <3>8
  <2> QED
    BY <2>1, <2>2
<1>7. WritesType'
  BY <1>2, <1>3, <1>6 DEF GoodOps, TypeInv, WritesType
<1> QED
  BY <1>4, <1>5, <1>6, <1>7 DEF AlwaysInv, TypeInv

LEMMA ProofFailsTyped ==
  ASSUME AlwaysInv, ProofFails
  PROVE  AlwaysInv'
<1>1. PICK o : o = Head(persist)
  OBVIOUS
<1>2. persist # << >> /\ Popped /\ UNCHANGED << camera, archive, pend, failed, database >>
  BY DEF ProofFails
<1>3. o.b \in Bindings /\ TypeInv /\ SoundInv
  BY <1>1, <1>2, HeadTyped, OpsFacts DEF AlwaysInv
<1>4. GoodOps(persist') /\ resetting' \in [ key : Keys, left : Int ] /\ CallsType'
  BY <1>2, <1>3, PoppedTyped
<1>5. BudgetType' /\ NoneFailed' /\ DiskType'
  BY <1>2, <1>3, SpentFailure, DatabaseStill DEF ProofFails, TypeInv, NoneFailed
<1>6. PageType' /\ SoundInv'
  <2>1. CASE o.fresh
    <3>1. Publish(o.b, FALSE)
      BY <1>1, <2>1 DEF ProofFails
    <3> QED
      BY <1>2, <1>3, <1>4, <3>1, PublishTyped
  <2>2. CASE ~o.fresh
    <3>1. UNCHANGED << ui, conn, acc, task, queued >>
      BY <1>1, <2>2 DEF ProofFails
    <3> QED
      BY <1>2, <1>3, <1>4, <3>1, SoundStill DEF TypeInv, PageType
  <2> QED
    BY <2>1, <2>2
<1>7. WritesType'
  BY <1>2, <1>3, <1>4 DEF GoodOps, TypeInv, WritesType
<1> QED
  BY <1>4, <1>5, <1>6, <1>7 DEF AlwaysInv, TypeInv

LEMMA AlwaysStill ==
  ASSUME AlwaysInv, UNCHANGED receiverVars
  PROVE  AlwaysInv'
<1>1. PageType' /\ WritesType' /\ DiskType'
  BY WritesStill, DatabaseStill DEF AlwaysInv, TypeInv, PageType, receiverVars, memory, calls
<1>2. CallsType' /\ BudgetType' /\ NoneFailed'
  BY CallsStill DEF AlwaysInv, TypeInv, BudgetType, NoneFailed, receiverVars, memory, calls, writes
<1>3. SoundInv'
  BY SoundStill DEF AlwaysInv, receiverVars, memory
<1> QED
  BY <1>1, <1>2, <1>3 DEF AlwaysInv, TypeInv

LEMMA AlwaysKeeps ==
  ASSUME AlwaysInv, ReceiverNext
  PROVE  AlwaysInv'
<1>1. CASE \E f \in Frames : Scan(f)
  BY <1>1, ScanTyped
<1>2. CASE Page
  BY <1>2, IngestQueuedTyped, FailedTyped, PassedTyped, FinishFilesTyped, FinishTestTyped,
     WriteCommitsTyped, ProofCommitsTyped, CameraOpensTyped, CameraReadyTyped, FinishResetTyped,
     LoadTyped, ReplayTyped, DeleteTyped, ListTyped DEF Page
<1>3. CASE Mishap
  BY <1>3, RefuseTyped, WriteFailsTyped, ProofFailsTyped, CameraFailsTyped, LoadFailsTyped,
     DiscardFailsTyped DEF Mishap
<1>4. CASE User
  BY <1>4, StartTestTyped, ResumeTyped, PauseTyped, ResetTyped, RestoreTyped, DiscardTyped,
     SaveArchiveTyped, SaveRefusedTyped, SaveVerifiedTyped, ReloadTyped DEF User
<1> QED
  BY <1>1, <1>2, <1>3, <1>4 DEF ReceiverNext
-----------------------------------------------------------------------------
(* As long as nothing pending is overtaken: the page.                      *)

LEMMA CoverStill ==
  ASSUME CoverInv, UNCHANGED << conn, persist, failed, records >>, acc'.b = acc.b,
         acc'.slot = acc.slot, budget'.failures = budget.failures, Collecting' => Collecting
  PROVE  CoverInv'
<1>1. \A p : Wanted(p)' = Wanted(p)
  BY DEF Wanted
<1>2. ASSUME NEW p \in Positions, Covered(p) PROVE Covered(p)'
  BY <1>1, <1>2 DEF Covered, Ends, Untouched
<1> QED
  BY <1>2 DEF CoverInv

LEMMA HiddenStill ==
  ASSUME HiddenInv, UNCHANGED << conn, persist, recency, resetting >>,
         ui'.active = ui.active, ui'.saved = ui.saved, acc.done => acc'.done,
         budget'.failures = budget.failures, overtaken' = "never" => overtaken = "never",
         saving' \in { saving, NoSave } \/ saving'.key = ui.active,
         discarding'.step = "list" <=> discarding.step = "list"
  PROVE  HiddenInv'
<1>1. SUFFICES ASSUME budget.failures = MaxFailures, overtaken = "never" PROVE HiddenInv'
  BY DEF HiddenInv
<1>2. CASE conn # NoBinding
  <2>1. /\ recency = << >> \/ recency = << conn >>
        /\ \/ ui.active = conn
           \/ /\ ui.active = NoBinding /\ recency = << >> /\ persist = << >>
              /\ acc.done \/ resetting # NoReset
        /\ resetting # NoReset => resetting.key = conn \/ (recency = << >> /\ persist = << >>)
        /\ saving # NoSave => saving.key = conn \/ (recency = << >> /\ persist = << >>)
    BY <1>1, <1>2 DEF HiddenInv
  <2>2. saving' # NoSave => saving'.key = conn \/ (recency = << >> /\ persist = << >>)
    BY <2>1
  <2> QED
    BY <1>2, <2>1, <2>2 DEF HiddenInv
<1>3. CASE conn = NoBinding
  BY <1>1, <1>3 DEF HiddenInv
<1> QED
  BY <1>2, <1>3

LEMMA QueueStill ==
  ASSUME QueueInv, UNCHANGED << conn, persist, failed, resetting >>,
         ui'.active = ui.active, task.step = "proof" => task'.step = "proof"
  PROVE  QueueInv'
  BY DEF QueueInv

\* A step of the page alone: it changes neither the writes nor the disk.
LEMMA PageStep ==
  ASSUME PageInv, UNCHANGED << conn, writes, database, calls >>,
         ui'.active = ui.active, ui'.saved = ui.saved, acc'.b = acc.b, acc'.slot = acc.slot,
         acc.done => acc'.done, task.step = "proof" => task'.step = "proof",
         budget'.failures = budget.failures, Collecting' => Collecting
  PROVE  CoverInv' /\ HiddenInv' /\ QueueInv'
<1>1. CoverInv'
  BY CoverStill DEF PageInv, writes, database
<1>2. HiddenInv' /\ QueueInv'
  BY HiddenStill, QueueStill DEF PageInv, writes, database, calls
<1> QED
  BY <1>1, <1>2

\* A restore or a discard under way is the only thing under way.
LEMMA Busy ==
  ASSUME PageInv, camera # NoCamera \/ task # NoTask \/ queued # << >> \/ persist # << >>
                  \/ conn # NoBinding
  PROVE  restoring = NoRestore /\ discarding = NoDiscard /\ ui.phase # "restoring"
<1>1. restoring = NoRestore
  BY DEF PageInv, RestoreInv
<1>2. ASSUME discarding # NoDiscard PROVE FALSE
  <2>1. conn = NoBinding /\ discarding.step # "no" /\ ui.saved = discarding.b
    BY <1>2 DEF PageInv, DiscardInv
  <2>2. ui.saved # NoBinding
    BY <2>1, Bounds DEF PageInv, AlwaysInv, TypeInv, CallsType
  <2> QED
    BY <2>1, <2>2 DEF PageInv, OfferedInv
<1>3. ui.phase # "restoring"
  BY <1>1 DEF PageInv, RestoreInv
<1> QED
  BY <1>1, <1>2, <1>3

LEMMA CallsKept ==
  ASSUME SavingInv, restoring' = NoRestore, discarding' = NoDiscard, ui'.phase # "restoring",
         saving' \in { saving, NoSave },
         saving # NoSave /\ saving' # NoSave =>
           conn' # NoBinding /\ task' = NoTask /\ acc'.done /\ resetting' = NoReset
  PROVE  RestoreInv' /\ DiscardInv' /\ SavingInv'
  BY DEF RestoreInv, DiscardInv, SavingInv

LEMMA CalmActs ==
  ASSUME AlwaysInv, UserActs, overtaken' # "now"
  PROVE  /\ resetting = NoReset /\ restoring = NoRestore /\ discarding = NoDiscard /\ saving = NoSave
         /\ overtaken' = overtaken /\ budget'.failures = budget.failures
<1>1. NothingPending /\ overtaken' = overtaken
  BY DEF UserActs
<1>2. budget'.failures = budget.failures
  BY SpentActs DEF UserActs, AlwaysInv, TypeInv
<1> QED
  BY <1>1, <1>2 DEF NothingPending

LEMMA CameraOpensKeeps ==
  ASSUME PageInv, AlwaysInv', CameraOpens
  PROVE  PageInv'
<1>1. camera' \in Cameras /\ camera'.start = camera.start /\ camera.start # "no"
  BY DEF CameraOpens, PageInv, AlwaysInv, TypeInv, PageType, Cameras
<1>2. camera # NoCamera
  BY <1>1 DEF NoCamera
<1>3. CoverInv' /\ HiddenInv' /\ QueueInv'
  BY PageStep DEF CameraOpens, PageInv, AlwaysInv, Collecting, calls
<1>5. ModeInv' /\ ResetInv' /\ TaskInv' /\ OfferedInv'
  BY <1>1, <1>2 DEF CameraOpens, PageInv, ModeInv, ResetInv, TaskInv, OfferedInv,
      writes, calls
<1>6. ArchiveInv' /\ SavedInv' /\ DoneInv'
  BY DEF CameraOpens, PageInv, ArchiveInv, SavedInv, DoneInv, writes, calls
<1>20. restoring = NoRestore /\ discarding = NoDiscard /\ ui.phase # "restoring"
  BY <1>2, Busy
<1>21. RestoreInv' /\ DiscardInv' /\ SavingInv'
  BY <1>20, CallsKept DEF CameraOpens, PageInv, SavingInv, calls
<1> QED
  BY <1>21, <1>3, <1>5, <1>6 DEF PageInv

LEMMA CameraReadyKeeps ==
  ASSUME PageInv, AlwaysInv', CameraReady
  PROVE  PageInv'
<1>0. camera.start \in { "probe", "files" } /\ camera.live \in BOOLEAN /\ camera # NoCamera
  BY PageFields DEF CameraReady, PageInv, AlwaysInv, TypeInv, PageType, NoCamera
<1>1. PICK m \in { "probe", "files" }, phase \in { "testing", "scanning" } :
        m = camera.start /\ ui' = [ ui EXCEPT !.mode = m, !.seen = TRUE, !.phase = phase ]
  BY <1>0 DEF CameraReady
<1>2. /\ ui' \in Uis /\ ui'.mode = m /\ ui'.phase = phase /\ ui'.seen /\ ui'.status = ui.status
      /\ ui'.saved = ui.saved /\ ui'.active = ui.active /\ ui'.handled = ui.handled
  BY <1>1 DEF PageInv, AlwaysInv, TypeInv, PageType, Uis, Phases
<1>3. camera' \in Cameras /\ camera'.start = "no" /\ ~camera'.opened
  BY <1>0 DEF CameraReady, NoCamera, Cameras
<1>4. CoverInv' /\ HiddenInv' /\ QueueInv'
  BY <1>2, PageStep DEF CameraReady, PageInv, AlwaysInv, Collecting, calls
<1>6. conn # NoBinding <=> m = "files"
  BY <1>1 DEF PageInv, ModeInv
<1>7. ModeInv' /\ ResetInv' /\ OfferedInv'
  BY <1>0, <1>1, <1>2, <1>3, <1>6 DEF CameraReady, PageInv, ModeInv, ResetInv,
     OfferedInv, writes, calls
<1>8. TaskInv'
  BY <1>0, <1>1, <1>2, <1>3 DEF CameraReady, PageInv, TaskInv, writes
<1>9. ArchiveInv' /\ SavedInv' /\ DoneInv'
  BY <1>1, <1>2 DEF CameraReady, PageInv, ArchiveInv, SavedInv, DoneInv, writes
<1>20. restoring = NoRestore /\ discarding = NoDiscard /\ ui.phase # "restoring"
  BY <1>0, Busy
<1>21. RestoreInv' /\ DiscardInv' /\ SavingInv'
  BY <1>1, <1>2, <1>20, CallsKept DEF CameraReady, PageInv, SavingInv, calls
<1> QED
  BY <1>21, <1>4, <1>7, <1>8, <1>9 DEF PageInv

LEMMA CameraFailsKeeps ==
  ASSUME PageInv, AlwaysInv', CameraFails
  PROVE  PageInv'
<1>0. camera # NoCamera /\ NoCamera.start = "no" /\ ~NoCamera.opened
  BY DEF CameraFails, NoCamera
<1>1. PICK phase \in { "paused", "idle" } :
        ui' = [ ui EXCEPT !.phase = phase ] /\ (phase = "idle" => conn = NoBinding /\ ~ui.seen)
  BY PageFields DEF CameraFails, PageInv, AlwaysInv
<1>2. /\ ui' \in Uis /\ ui'.mode = ui.mode /\ ui'.phase = phase /\ ui'.seen = ui.seen
      /\ ui'.status = ui.status /\ ui'.saved = ui.saved /\ ui'.active = ui.active
      /\ ui'.handled = ui.handled
  BY <1>1, UiPhase DEF PageInv, AlwaysInv, TypeInv, Phases
<1>3. camera' = NoCamera /\ camera' \in Cameras
  BY FreshValues DEF CameraFails
<1>4. CoverInv' /\ HiddenInv' /\ QueueInv'
  BY <1>2, PageStep DEF CameraFails, PageInv, AlwaysInv, Collecting, calls
<1>7. ModeInv' /\ ResetInv' /\ OfferedInv'
  BY <1>0, <1>1, <1>2, <1>3 DEF CameraFails, PageInv, ModeInv, ResetInv,
     OfferedInv, writes, calls
<1>8. TaskInv'
  BY <1>0, <1>1, <1>2, <1>3 DEF CameraFails, PageInv, TaskInv, writes
<1>9. ArchiveInv' /\ SavedInv' /\ DoneInv'
  BY <1>1, <1>2 DEF CameraFails, PageInv, ArchiveInv, SavedInv, DoneInv, writes
<1>20. restoring = NoRestore /\ discarding = NoDiscard /\ ui.phase # "restoring"
  BY <1>0, Busy
<1>21. RestoreInv' /\ DiscardInv' /\ SavingInv'
  BY <1>1, <1>2, <1>20, CallsKept DEF CameraFails, PageInv, SavingInv, calls
<1> QED
  BY <1>21, <1>4, <1>7, <1>8, <1>9 DEF PageInv

LEMMA SaveArchiveKeeps ==
  ASSUME PageInv, AlwaysInv', overtaken' # "now", SaveArchive
  PROVE  PageInv'
<1>1. /\ ui'.mode = ui.mode /\ ui'.phase = "saving" /\ ui'.seen = ui.seen
      /\ ui'.status = ui.status /\ ui'.saved = ui.saved /\ ui'.active = ui.active
      /\ ui'.handled = ui.handled
  BY UiPhase DEF SaveArchive, PageInv, AlwaysInv, TypeInv, Phases
<1>2. /\ resetting = NoReset /\ restoring = NoRestore /\ discarding = NoDiscard /\ saving = NoSave
      /\ overtaken' = overtaken /\ budget'.failures = budget.failures
  BY CalmActs DEF SaveArchive, PageInv
<1>3. /\ UNCHANGED << conn, acc, task, queued, camera, archive, resetting, restoring, discarding,
                      writes, database >>
      /\ saving' = [ pending |-> TRUE, key |-> ui.active ] /\ ui.phase = "archive-ready"
  BY DEF SaveArchive
<1>4. CoverInv'
  BY <1>2, <1>3, CoverStill DEF PageInv, writes, database, Collecting
<1>5. HiddenInv' /\ QueueInv'
  BY <1>1, <1>2, <1>3, HiddenStill, QueueStill DEF PageInv, writes, database
<1>6. acc.done /\ task = NoTask /\ conn # NoBinding
  BY <1>2, <1>3 DEF PageInv, DoneInv
<1>7. ModeInv' /\ ResetInv' /\ OfferedInv'
  BY <1>1, <1>2, <1>3 DEF PageInv, ModeInv, ResetInv, OfferedInv, writes, calls
<1>8. TaskInv'
  BY <1>1, <1>3 DEF PageInv, TaskInv, writes
<1>9. ArchiveInv' /\ SavedInv' /\ DoneInv'
  BY <1>1, <1>3, <1>6 DEF PageInv, ArchiveInv, SavedInv, DoneInv, writes
<1>10. RestoreInv' /\ DiscardInv' /\ SavingInv'
  BY <1>1, <1>2, <1>3, <1>6 DEF RestoreInv, DiscardInv, SavingInv
<1> QED
  BY <1>4, <1>5, <1>7, <1>8, <1>9, <1>10 DEF PageInv

LEMMA SaveRefusedKeeps ==
  ASSUME PageInv, AlwaysInv', SaveRefused
  PROVE  PageInv'
<1>1. /\ ui'.mode = ui.mode /\ ui'.phase = "archive-ready" /\ ui'.seen = ui.seen
      /\ ui'.status = ui.status /\ ui'.saved = ui.saved /\ ui'.active = ui.active
      /\ ui'.handled = ui.handled
  BY UiPhase DEF SaveRefused, PageInv, AlwaysInv, TypeInv, Phases
<1>2. /\ UNCHANGED << conn, acc, task, queued, camera, archive, resetting, restoring, discarding,
                      overtaken, writes, database, budget >>
      /\ saving' = NoSave
  BY DEF SaveRefused
<1>3. saving # NoSave
  BY DEF SaveRefused, NoSave
<1>4. CoverInv'
  BY <1>2, CoverStill DEF PageInv, writes, database, Collecting
<1>5. HiddenInv' /\ QueueInv'
  BY <1>1, <1>2, HiddenStill, QueueStill DEF PageInv, writes, database
<1>6. acc.done /\ task = NoTask /\ conn # NoBinding /\ resetting = NoReset
  BY <1>3 DEF PageInv, SavingInv
<1>7. ModeInv' /\ ResetInv' /\ OfferedInv'
  BY <1>1, <1>2, <1>6 DEF PageInv, ModeInv, ResetInv, OfferedInv, writes, calls
<1>8. TaskInv'
  BY <1>1, <1>2 DEF PageInv, TaskInv, writes
<1>9. ArchiveInv' /\ SavedInv' /\ DoneInv'
  BY <1>1, <1>2, <1>6 DEF PageInv, ArchiveInv, SavedInv, DoneInv, writes
<1>10. RestoreInv' /\ DiscardInv' /\ SavingInv'
  BY <1>1, <1>2, <1>6, Busy, CallsKept DEF PageInv
<1> QED
  BY <1>4, <1>5, <1>7, <1>8, <1>9, <1>10 DEF PageInv

\* The hash is right: what is offered is the archive of the connection.
LEMMA FinishFilesKeeps ==
  ASSUME PageInv, AlwaysInv', FinishFilesTransfer
  PROVE  PageInv'
<1>0. task \in Tasks /\ task # NoTask /\ task' = NoTask /\ NoTask.step = "none" /\ task.step = "files"
  BY TaskFacts, FreshValues, PageFields DEF FinishFilesTransfer, PageInv, AlwaysInv
<1>1. /\ ui'.mode = ui.mode /\ ui'.phase = "archive-ready" /\ ui'.seen = ui.seen
      /\ ui'.status = ui.status /\ ui'.saved = ui.saved /\ ui'.active = ui.active
      /\ ui'.handled = ui.handled
  BY UiPhase DEF FinishFilesTransfer, PageInv, AlwaysInv, TypeInv, Phases
<1>2. /\ acc.purpose = "files" /\ acc.done /\ acc.b = conn /\ conn # NoBinding
      /\ resetting = NoReset
  BY <1>0 DEF PageInv, AlwaysInv, SoundInv, TaskInv, ModeInv, ResetInv
<1>3. archive'.purpose = "files" /\ archive'.b = conn /\ archive'.slot = acc.slot
  BY <1>2 DEF FinishFilesTransfer
<1>4. /\ UNCHANGED << conn, acc, queued, camera, calls, writes, database, budget >>
  BY DEF FinishFilesTransfer
<1>5. CoverInv' /\ HiddenInv' /\ QueueInv'
  BY <1>0, <1>1, <1>2, <1>4, PageStep DEF Collecting
<1>6. ModeInv' /\ ResetInv' /\ OfferedInv'
  BY <1>0, <1>1, <1>2, <1>4 DEF PageInv, ModeInv, ResetInv, OfferedInv, writes, calls
<1>7. TaskInv'
  BY <1>0, <1>1, <1>4 DEF PageInv, TaskInv, writes
<1>8. ArchiveInv' /\ SavedInv' /\ DoneInv'
  BY <1>0, <1>1, <1>2, <1>3, <1>4 DEF PageInv, ArchiveInv, SavedInv, DoneInv, writes
<1>9. restoring = NoRestore /\ discarding = NoDiscard /\ ui.phase # "restoring" /\ saving = NoSave
  BY <1>0, Busy DEF PageInv, SavingInv
<1>10. RestoreInv' /\ DiscardInv' /\ SavingInv'
  BY <1>1, <1>4, <1>9, CallsKept DEF PageInv, calls
<1> QED
  BY <1>5, <1>6, <1>7, <1>8, <1>10 DEF PageInv
-----------------------------------------------------------------------------
(* As long as nothing pending is overtaken: what is cut off.               *)

LEMMA StaleCover ==
  ASSUME CoverInv, WritesType, persist' = Stale(persist), UNCHANGED << conn, failed, records >>,
         acc'.b = acc.b, acc'.slot = acc.slot, budget'.failures = budget.failures,
         Collecting' => Collecting
  PROVE  CoverInv'
<1>1. \A p : Wanted(p)' = Wanted(p)
  BY DEF Wanted
<1>2. ASSUME NEW p \in Positions, Covered(p) PROVE Covered(p)'
  <2>1. /\ Ends(persist, p, Wanted(p)) => Ends(Stale(persist), p, Wanted(p))
        /\ Untouched(Stale(persist), p) => Untouched(persist, p)
    BY EndsWhenStale DEF WritesType
  <2>2. /\ Ends(persist, p, Wanted(p))
        /\ Untouched(persist, p) /\ p \notin failed =>
             \/ records[conn].at[p] \in Wanted(p)
             \/ "none" \in Wanted(p) /\ budget.failures < MaxFailures
    BY <1>2 DEF Covered
  <2>3. Ends(persist', p, Wanted(p)')
    BY <1>1, <2>1, <2>2, Zenon
  <2>4. Untouched(persist', p) => Untouched(persist, p)
    BY <2>1
  <2>5. Untouched(persist', p) /\ p \notin failed' =>
             \/ records'[conn'].at[p] \in Wanted(p)'
             \/ "none" \in Wanted(p)' /\ budget'.failures < MaxFailures
    BY <2>2, <2>4, <1>1
  <2>6. Ends(persist, p, Wanted(p))' /\ (Untouched(persist, p)' <=> Untouched(persist', p))
    BY <2>3 DEF Ends, Untouched
  <2> QED
    BY <2>5, <2>6 DEF Covered
<1> QED
  BY <1>2 DEF CoverInv

LEMMA StaleHidden ==
  ASSUME HiddenInv, WritesType, persist' = Stale(persist),
         UNCHANGED << conn, recency, resetting, discarding, saving >>,
         ui'.active = ui.active, ui'.saved = ui.saved, acc.done => acc'.done,
         budget'.failures = budget.failures, overtaken' = "never" => overtaken = "never"
  PROVE  HiddenInv'
<1>1. /\ DOMAIN persist' = DOMAIN persist /\ (persist' = << >> <=> persist = << >>)
      /\ \A i \in DOMAIN persist : persist'[i].kind = persist[i].kind /\ persist'[i].b = persist[i].b
  BY StaleWrites
<1>2. SUFFICES ASSUME budget.failures = MaxFailures, overtaken = "never" PROVE HiddenInv'
  BY DEF HiddenInv
<1>3. CASE conn # NoBinding
  BY <1>1, <1>2, <1>3 DEF HiddenInv
<1>4. CASE conn = NoBinding
  BY <1>1, <1>2, <1>4 DEF HiddenInv
<1> QED
  BY <1>3, <1>4

LEMMA StaleQueue ==
  ASSUME QueueInv, WritesType, persist' = Stale(persist), UNCHANGED << conn, failed >>,
         ui'.active = ui.active,
         task.step = "proof" \/ resetting # NoReset => task'.step = "proof" \/ resetting' # NoReset
  PROVE  QueueInv'
<1>1. /\ DOMAIN persist' = DOMAIN persist /\ (persist' = << >> <=> persist = << >>)
      /\ Len(persist') = Len(persist)
      /\ \A i \in DOMAIN persist : persist'[i].kind = persist[i].kind /\ persist'[i].b = persist[i].b
  BY StaleWrites
<1> QED
  BY <1>1 DEF QueueInv

LEMMA NoRestoreStill ==
  ASSUME restoring = NoRestore, restoring' = [ restoring EXCEPT !.fresh = FALSE ]
  PROVE  restoring' = NoRestore
  BY DEF NoRestore

LEMMA PauseKeeps ==
  ASSUME PageInv, AlwaysInv', PauseScanner
  PROVE  PageInv'
<1>0. /\ queued' = << >> /\ camera' = [ NoCamera EXCEPT !.start = "no" ]
      /\ persist' = Stale(persist) /\ restoring' = [ restoring EXCEPT !.fresh = FALSE ]
      /\ UNCHANGED << conn, acc, task, archive, resetting, discarding, saving, overtaken, pend,
                      failed, database >>
  BY DEF PauseScanner, NextGeneration
<1>1. camera' = NoCamera
  BY <1>0 DEF NoCamera
<1>2. PICK phase \in Phases : ui' = [ ui EXCEPT !.phase = phase ] /\ phase \in { "paused", ui.phase }
  BY PageFields DEF PauseScanner, PageInv, AlwaysInv, Phases
<1>3. /\ ui'.mode = ui.mode /\ ui'.phase = phase /\ ui'.seen = ui.seen
      /\ ui'.status = ui.status /\ ui'.saved = ui.saved /\ ui'.active = ui.active
      /\ ui'.handled = ui.handled
  BY <1>2, UiPhase DEF PageInv, AlwaysInv, TypeInv
<1>4. /\ persist' \in Seq(Ops) /\ DOMAIN persist' = DOMAIN persist /\ Len(persist') = Len(persist)
      /\ \A i \in DOMAIN persist : ~persist'[i].fresh
      /\ persist' = << >> <=> persist = << >>
  BY <1>0, StaleWrites DEF PageInv, AlwaysInv, TypeInv
<1>5. budget'.failures = budget.failures
  BY SpentActs DEF PauseScanner, PageInv, AlwaysInv, TypeInv
<1>6. ui.phase \in { "starting", "testing", "scanning" }
  BY DEF PauseScanner
<1>7. CoverInv' /\ HiddenInv' /\ QueueInv'
  BY <1>0, <1>3, <1>5, StaleCover, StaleHidden, StaleQueue DEF PageInv, AlwaysInv, TypeInv,
     database, Collecting
<1>9. ModeInv' /\ ResetInv' /\ OfferedInv'
  BY <1>0, <1>1, <1>2, <1>3, <1>4 DEF PageInv, ModeInv, ResetInv, OfferedInv, NoCamera
<1>10. TaskInv'
  BY <1>0, <1>1, <1>2, <1>3, <1>4 DEF PageInv, TaskInv
<1>11. ArchiveInv' /\ SavedInv' /\ DoneInv'
  BY <1>0, <1>2, <1>3, <1>4 DEF PageInv, ArchiveInv, SavedInv, DoneInv
<1>12. restoring = NoRestore /\ discarding = NoDiscard
  BY <1>6 DEF PageInv, RestoreInv, DiscardInv
<1>13. restoring' = NoRestore /\ ui'.phase # "restoring"
  BY <1>0, <1>2, <1>3, <1>6, <1>12, NoRestoreStill
<1>14. RestoreInv' /\ DiscardInv' /\ SavingInv'
  BY <1>0, <1>12, <1>13, CallsKept DEF PageInv, SavingInv
<1> QED
  BY <1>7, <1>9, <1>10, <1>11, <1>14 DEF PageInv

LEMMA ResumeKeeps ==
  ASSUME PageInv, AlwaysInv', overtaken' # "now", ResumeScanning
  PROVE  PageInv'
<1>0. PICK mode \in { "probe", "files" } :
        /\ ~ui.handled /\ queued' = << >> /\ camera' = [ NoCamera EXCEPT !.start = mode ]
        /\ persist' = Stale(persist) /\ restoring' = [ restoring EXCEPT !.fresh = FALSE ]
        /\ mode = "probe" => conn = NoBinding /\ ui.saved = NoBinding
        /\ mode = "files" => conn # NoBinding
  BY DEF ResumeScanning, StartScanner, NextGeneration
<1>1. camera'.start = mode /\ ~camera'.opened /\ ~camera'.live
  BY <1>0 DEF NoCamera, Cameras
<1>2. /\ ui' = [ ui EXCEPT !.phase = "starting" ] /\ "starting" \in Phases
      /\ UNCHANGED << conn, acc, task, archive, resetting, discarding, saving, pend, failed, database >>
  BY DEF ResumeScanning, Phases
<1>3. /\ ui'.mode = ui.mode /\ ui'.phase = "starting" /\ ui'.seen = ui.seen
      /\ ui'.status = ui.status /\ ui'.saved = ui.saved /\ ui'.active = ui.active
      /\ ui'.handled = ui.handled
  BY <1>2, UiPhase DEF PageInv, AlwaysInv, TypeInv
<1>4. /\ persist' \in Seq(Ops) /\ DOMAIN persist' = DOMAIN persist
      /\ \A i \in DOMAIN persist : ~persist'[i].fresh
      /\ persist' = << >> <=> persist = << >>
  BY <1>0, StaleWrites DEF PageInv, AlwaysInv, TypeInv
<1>5. /\ resetting = NoReset /\ restoring = NoRestore /\ discarding = NoDiscard /\ saving = NoSave
      /\ overtaken' = overtaken /\ budget'.failures = budget.failures
  BY CalmActs DEF ResumeScanning, PageInv
<1>7. CoverInv' /\ HiddenInv' /\ QueueInv'
  BY <1>0, <1>2, <1>3, <1>5, StaleCover, StaleHidden, StaleQueue DEF PageInv, AlwaysInv, TypeInv,
     database, Collecting
<1>9. ModeInv' /\ ResetInv' /\ OfferedInv'
  BY <1>0, <1>1, <1>2, <1>3, <1>4, <1>5 DEF PageInv, ModeInv, ResetInv, OfferedInv
<1>10. TaskInv'
  BY <1>0, <1>1, <1>2, <1>3, <1>4 DEF ResumeScanning, PageInv, TaskInv
<1>11. ArchiveInv' /\ SavedInv' /\ DoneInv'
  BY <1>2, <1>3, <1>4 DEF PageInv, ArchiveInv, SavedInv, DoneInv
<1>12. RestoreInv' /\ DiscardInv' /\ SavingInv'
  BY <1>0, <1>2, <1>3, <1>5, NoRestoreStill, CallsKept DEF PageInv
<1> QED
  BY <1>7, <1>9, <1>10, <1>11, <1>12 DEF PageInv

\* Without a connection only a proof is ever queued.
LEMMA NothingToWrite ==
  ASSUME PageInv, conn = NoBinding, resetting = NoReset, task.step # "proof"
  PROVE  persist = << >> /\ Stale(persist) = << >>
<1>1. persist = << >>
  BY DEF PageInv, QueueInv
<1> QED
  BY <1>1, StaleOps DEF PageInv, AlwaysInv, TypeInv, WritesType

LEMMA TasksNotReset ==
  ASSUME PageInv, task.step # "none"
  PROVE  resetting = NoReset
  BY TaskFacts DEF PageInv, ResetInv

\* The page starts over without a connection.
LEMMA StartsOver ==
  ASSUME PageInv, AlwaysInv', conn = NoBinding, resetting = NoReset, task.step # "proof",
         UNCHANGED << conn, archive, resetting, records, recency, discarding, saving, overtaken >>,
         discarding = NoDiscard, saving = NoSave,
         acc' = ProbeAccumulator, task' = NoTask, queued' = << >>, persist' = << >>, failed' = {},
         ui'.mode = ui.mode, ui'.saved = ui.saved, ui'.active = ui.active,
         ui'.phase \notin { "archive-ready", "saving" },
         camera'.start # "files", ui.saved # NoBinding => camera' = NoCamera,
         \/ ui'.phase # "restoring" /\ restoring' = NoRestore
         \/ /\ ui'.phase = "restoring" /\ ui.saved # NoBinding
            /\ restoring' # NoRestore /\ restoring'.step = "load" /\ restoring'.fresh
            /\ restoring'.b = ui.saved,
         budget'.failures = budget.failures
  PROVE  PageInv'
<1>1. persist = << >>
  BY NothingToWrite
<1>2. DOMAIN persist' = {} /\ Len(persist') = 0
  <2>1. DOMAIN << >> = {} /\ Len(<< >>) = 0
    OBVIOUS
  <2> QED
    BY <2>1
<1>3. NoTask.step = "none" /\ ProbeAccumulator.purpose = "probe"
  BY TaskFacts, FreshValues
<1>6. ModeInv' /\ ResetInv' /\ TaskInv' /\ OfferedInv'
  BY <1>2, <1>3 DEF PageInv, ModeInv, ResetInv, TaskInv, OfferedInv
<1>7. ArchiveInv' /\ SavedInv' /\ DoneInv' /\ CoverInv'
  BY DEF PageInv, ArchiveInv, SavedInv, DoneInv, CoverInv, Collecting
<1>8. QueueInv'
  BY <1>2 DEF PageInv, QueueInv
<1>9. HiddenInv'
  BY <1>1, <1>2 DEF PageInv, HiddenInv
<1>10. RestoreInv' /\ DiscardInv' /\ SavingInv'
  BY DEF RestoreInv, DiscardInv, SavingInv
<1> QED
  BY <1>6, <1>7, <1>8, <1>9, <1>10 DEF PageInv

LEMMA StartTestKeeps ==
  ASSUME PageInv, AlwaysInv', overtaken' # "now", StartConnectionTest
  PROVE  PageInv'
<1>1. /\ resetting = NoReset /\ restoring = NoRestore /\ discarding = NoDiscard /\ saving = NoSave
      /\ overtaken' = overtaken /\ budget'.failures = budget.failures
  BY CalmActs DEF StartConnectionTest, PageInv
<1>2. conn = NoBinding /\ ui.saved = NoBinding /\ task.step # "proof"
  BY DEF StartConnectionTest, PageInv, TaskInv
<1>3. /\ queued' = << >> /\ persist' = Stale(persist)
      /\ camera' = [ NoCamera EXCEPT !.start = "probe" ]
      /\ restoring' = [ restoring EXCEPT !.fresh = FALSE ]
  BY DEF StartConnectionTest, NextGeneration
<1>4. persist' = << >> /\ restoring' = NoRestore
  BY <1>1, <1>2, <1>3, NothingToWrite, NoRestoreStill
<1>5. camera'.start = "probe"
  BY <1>3 DEF NoCamera, Cameras
<1>6. /\ ui'.mode = ui.mode /\ ui'.saved = ui.saved /\ ui'.active = ui.active
      /\ ui'.phase = "starting"
  <2>1. ui \in Uis /\ ui.mode = "probe"
    BY <1>2, PageFields DEF PageInv, AlwaysInv, TypeInv, PageType, ModeInv
  <2> QED
    BY <2>1 DEF StartConnectionTest, Uis, Phases
<1> QED
  BY <1>1, <1>2, <1>3, <1>4, <1>5, <1>6, StartsOver DEF StartConnectionTest, database

LEMMA RestoreKeeps ==
  ASSUME PageInv, AlwaysInv', overtaken' # "now", RestoreSavedCheckpoint
  PROVE  PageInv'
<1>1. /\ resetting = NoReset /\ restoring = NoRestore /\ discarding = NoDiscard /\ saving = NoSave
      /\ overtaken' = overtaken /\ budget'.failures = budget.failures
  BY CalmActs DEF RestoreSavedCheckpoint, PageInv
<1>2. conn = NoBinding /\ ui.saved # NoBinding /\ task.step # "proof"
  BY DEF RestoreSavedCheckpoint, Offered, PageInv, TaskInv
<1>3. /\ queued' = << >> /\ persist' = Stale(persist) /\ camera' = NoCamera
      /\ restoring' = [ NoRestore EXCEPT !.step = "load", !.b = ui.saved, !.fresh = TRUE ]
  BY DEF RestoreSavedCheckpoint
<1>4. persist' = << >> /\ camera'.start = "no"
  BY <1>1, <1>2, <1>3, NothingToWrite, FreshValues
<1>5. /\ restoring'.step = "load" /\ restoring'.b = ui.saved /\ restoring'.fresh
      /\ restoring' # NoRestore
  BY <1>3 DEF NoRestore
<1>6. /\ ui'.mode = ui.mode /\ ui'.saved = ui.saved /\ ui'.active = ui.active
      /\ ui'.phase = "restoring"
  BY DEF RestoreSavedCheckpoint, Uis, Phases, PageInv, AlwaysInv, TypeInv, PageType
<1> QED
  BY <1>1, <1>2, <1>3, <1>4, <1>5, <1>6, StartsOver DEF RestoreSavedCheckpoint, database

LEMMA RefuseKeeps ==
  ASSUME PageInv, AlwaysInv', RefuseConnectionTest
  PROVE  PageInv'
<1>1. conn = NoBinding /\ resetting = NoReset /\ failed' = {} /\ task # NoTask
  BY TasksNotReset, TaskFacts DEF RefuseConnectionTest, PageInv, TaskInv, QueueInv
<1>2. /\ queued' = << >> /\ persist' = Stale(persist)
      /\ camera' = [ NoCamera EXCEPT !.start = "no" ]
      /\ restoring' = [ restoring EXCEPT !.fresh = FALSE ]
  BY DEF RefuseConnectionTest, NextGeneration
<1>3. persist' = << >>
  BY <1>1, <1>2, NothingToWrite DEF RefuseConnectionTest
<1>4. camera' = NoCamera /\ camera'.start = "no"
  BY <1>2 DEF NoCamera, Cameras
<1>5. /\ ui'.mode = ui.mode /\ ui'.saved = ui.saved /\ ui'.active = ui.active
      /\ ui'.phase = "idle"
  BY DEF RefuseConnectionTest, Uis, Phases, PageInv, AlwaysInv, TypeInv, PageType
<1>6. discarding = NoDiscard /\ restoring' = NoRestore /\ saving = NoSave
  BY <1>1, <1>2, Busy, NoRestoreStill DEF PageInv, SavingInv
<1> QED
  BY <1>1, <1>2, <1>3, <1>4, <1>5, <1>6, StartsOver DEF RefuseConnectionTest, database

\* The dummy is verified: its proof is the one write.
LEMMA FinishTestKeeps ==
  ASSUME PageInv, AlwaysInv', FinishConnectionTest
  PROVE  PageInv'
<1>1. /\ conn = NoBinding /\ resetting = NoReset /\ failed = {} /\ acc.b \in Bindings
      /\ ui.seen /\ ui.handled /\ ui.phase # "idle" /\ ui.active = NoBinding /\ task # NoTask
  BY TasksNotReset, TaskFacts, PageFields DEF FinishConnectionTest, PageInv, AlwaysInv, SoundInv,
     TaskInv, QueueInv, Keys
<1>2. persist = << >> /\ Stale(persist) = << >>
  BY <1>1, NothingToWrite DEF FinishConnectionTest
<1>3. PICK o \in Ops : o = Op("proof", acc.b, 0, "none") /\ o.kind = "proof" /\ o.b = acc.b
  BY <1>1, OpFacts, PositionFacts DEF Payload
<1>4. /\ queued' = << >> /\ persist' = Append(Stale(persist), o)
      /\ camera' = [ NoCamera EXCEPT !.start = "no" ]
      /\ restoring' = [ restoring EXCEPT !.fresh = FALSE ]
      /\ UNCHANGED << conn, acc, archive, resetting, discarding, saving, overtaken, pend, failed,
                      database, budget >>
  BY <1>3 DEF FinishConnectionTest, NextGeneration
<1>5. persist' = << o >>
  BY <1>2, <1>4
<1>6. persist' \in Seq(Ops) /\ DOMAIN persist' = { 1 } /\ persist'[1] = o /\ Len(persist') = 1
  BY <1>5
<1>7. camera' = NoCamera /\ camera'.start = "no"
  BY <1>4 DEF NoCamera, Cameras
<1>8. PICK b \in Keys : ui' = [ ui EXCEPT !.proof = b, !.status = "saving" ]
  BY <1>1 DEF FinishConnectionTest, Keys
<1>9. /\ ui'.mode = ui.mode /\ ui'.phase = ui.phase /\ ui'.seen = ui.seen
      /\ ui'.saved = ui.saved /\ ui'.active = ui.active /\ ui'.handled = ui.handled
  BY <1>8 DEF PageInv, AlwaysInv, TypeInv, PageType, Uis
<1>10. /\ ui.saved = NoBinding /\ ui.phase # "restoring" /\ restoring' = NoRestore
       /\ discarding = NoDiscard /\ saving = NoSave
  BY <1>1, <1>4, Busy, NoRestoreStill DEF PageInv, OfferedInv, SavingInv
<1>11. task' = Completing("proof") /\ task'.step = "proof"
  BY TaskFacts DEF FinishConnectionTest
<1>14. ModeInv' /\ ResetInv' /\ TaskInv' /\ OfferedInv'
  BY <1>1, <1>4, <1>6, <1>7, <1>9, <1>10, <1>11 DEF PageInv, ModeInv, ResetInv, TaskInv, OfferedInv
<1>15. ArchiveInv' /\ SavedInv' /\ DoneInv' /\ CoverInv'
  BY <1>1, <1>4, <1>9, <1>11, TaskFacts DEF PageInv, ArchiveInv, SavedInv, DoneInv,
     CoverInv, Collecting
<1>16. QueueInv'
  BY <1>1, <1>3, <1>4, <1>6, <1>9, <1>11 DEF QueueInv
<1>17. HiddenInv'
  BY <1>1, <1>2, <1>3, <1>4, <1>6, <1>9, <1>10 DEF PageInv, HiddenInv, database, NoDiscard
<1>18. RestoreInv' /\ DiscardInv' /\ SavingInv'
  BY <1>4, <1>9, <1>10, CallsKept DEF PageInv
<1> QED
  BY <1>14, <1>15, <1>16, <1>17, <1>18 DEF PageInv

LEMMA ResetKeeps ==
  ASSUME PageInv, AlwaysInv', overtaken' # "now", ResetReceiver
  PROVE  PageInv'
<1>0. /\ queued' = << >> /\ camera' = [ NoCamera EXCEPT !.start = "no" ]
      /\ persist' = Stale(persist) /\ restoring' = [ restoring EXCEPT !.fresh = FALSE ]
      /\ UNCHANGED << conn, archive, discarding, saving, pend, failed, database >>
  BY DEF ResetReceiver, NextGeneration
<1>1. camera' = NoCamera
  BY <1>0 DEF NoCamera
<1>2. ui' = [ ui EXCEPT !.handled = FALSE ]
  BY DEF ResetReceiver
<1>3. /\ ui'.mode = ui.mode /\ ui'.phase = ui.phase
      /\ ui'.status = ui.status /\ ui'.saved = ui.saved /\ ui'.active = ui.active
  BY <1>2 DEF PageInv, AlwaysInv, TypeInv, PageType, Uis
<1>4. /\ persist' \in Seq(Ops) /\ DOMAIN persist' = DOMAIN persist /\ Len(persist') = Len(persist)
      /\ Len(persist) \in Nat
      /\ \A i \in DOMAIN persist : ~persist'[i].fresh /\ persist'[i].kind = persist[i].kind
                                   /\ persist'[i].b = persist[i].b
      /\ persist' = << >> <=> persist = << >>
  <2>1. persist \in Seq(Ops)
    BY DEF PageInv, AlwaysInv, TypeInv, WritesType
  <2> QED
    BY <1>0, <2>1, StaleWrites DEF PageInv, AlwaysInv, TypeInv
<1>5. /\ resetting = NoReset /\ restoring = NoRestore /\ discarding = NoDiscard /\ saving = NoSave
      /\ overtaken' = overtaken /\ budget'.failures = budget.failures
      /\ ui.phase \notin { "restoring", "saving", "starting" }
  BY CalmActs DEF ResetReceiver, MayReset, PageInv
<1>6. PICK key \in Keys :
        /\ resetting' = [ key |-> key, left |-> Len(persist) ]
        /\ ui.active # NoBinding => key = ui.active
        /\ ui.active = NoBinding /\ ui.saved # NoBinding => key = ui.saved
  BY PageFields DEF ResetReceiver, PageInv, AlwaysInv
<1>7. /\ resetting' \in [ key : Keys, left : Int ] /\ resetting' # NoReset
      /\ resetting'.key = key /\ resetting'.left = Len(persist')
  BY <1>4, <1>6, FreshValues
<1>8. task' = NoTask /\ task'.step = "none" /\ acc' = ProbeAccumulator /\ acc'.purpose = "probe"
  BY TaskFacts, FreshValues DEF ResetReceiver
<1>11. ModeInv' /\ ResetInv' /\ OfferedInv'
  BY <1>0, <1>1, <1>3, <1>4, <1>5, <1>7, <1>8 DEF PageInv, ModeInv, ResetInv, OfferedInv, NoCamera
<1>12. TaskInv'
  BY <1>4, <1>8 DEF TaskInv
<1>13. ArchiveInv' /\ SavedInv' /\ DoneInv' /\ CoverInv'
  BY <1>0, <1>3, <1>4, <1>7 DEF PageInv, ArchiveInv, SavedInv, DoneInv, CoverInv, Collecting
<1>14. QueueInv'
  BY <1>0, <1>3, <1>7, StaleQueue DEF PageInv, AlwaysInv, TypeInv
<1>15. HiddenInv'
  <2>1. conn = NoBinding => ui.active = NoBinding
    BY DEF PageInv, QueueInv
  <2> QED
    BY <1>0, <1>3, <1>4, <1>5, <1>6, <1>7, <2>1 DEF PageInv, HiddenInv, database, NoDiscard
<1>16. RestoreInv' /\ DiscardInv' /\ SavingInv'
  BY <1>0, <1>3, <1>5, NoRestoreStill, CallsKept DEF PageInv
<1> QED
  BY <1>11, <1>12, <1>13, <1>14, <1>15, <1>16 DEF PageInv
-----------------------------------------------------------------------------
(* As long as nothing pending is overtaken: what is forgotten.             *)

LEMMA AtMostOne ==
  ASSUME PageInv, budget.failures = MaxFailures, overtaken = "never"
  PROVE  recency = << >> \/ \E k \in Bindings : recency = << k >>
<1>1. /\ conn \in Keys /\ ui.saved \in Keys /\ persist \in Seq(Ops)
      /\ persist # << >> => 1 \in DOMAIN persist /\ persist[1].b \in Bindings
  <2>1. persist \in Seq(Ops)
    BY DEF PageInv, AlwaysInv, TypeInv, WritesType
  <2>2. persist # << >> => 1 \in DOMAIN persist /\ persist[1] \in Ops
    BY <2>1
  <2> QED
    BY <2>1, <2>2, OpsFacts, PageFields DEF PageInv, AlwaysInv
<1>2. CASE conn # NoBinding
  BY <1>1, <1>2 DEF PageInv, HiddenInv, Keys
<1>3. CASE conn = NoBinding /\ persist = << >>
  BY <1>1, <1>3 DEF PageInv, HiddenInv, Keys
<1>4. CASE conn = NoBinding /\ persist # << >>
  BY <1>1, <1>4 DEF PageInv, HiddenInv
<1> QED
  BY <1>2, <1>3, <1>4

\* A page that knows nothing but the checkpoint it offers.
LEMMA FreshPage ==
  ASSUME AlwaysInv', NEW k \in Keys, ui' = [ FreshUi EXCEPT !.saved = k ],
         conn' = NoBinding, acc' = ProbeAccumulator, task' = NoTask, queued' = << >>,
         camera' = NoCamera, archive' = NoArchive, resetting' = NoReset, restoring' = NoRestore,
         discarding' = NoDiscard, saving' = NoSave, persist' = << >>, failed' = {},
         budget'.failures = MaxFailures /\ overtaken' = "never"
           => recency' = IF k = NoBinding THEN << >> ELSE << k >>
  PROVE  PageInv'
<1>1. /\ ui'.mode = "probe" /\ ui'.saved = k /\ ui'.active = NoBinding
      /\ ui'.phase = "idle" /\ ui'.status = "none"
  BY DEF FreshUi, Uis, Phases, Keys
<1>2. DOMAIN persist' = {} /\ Len(persist') = 0
  <2>1. DOMAIN << >> = {} /\ Len(<< >>) = 0
    OBVIOUS
  <2> QED
    BY <2>1
<1>3. NoTask.step = "none" /\ ProbeAccumulator.purpose = "probe" /\ NoCamera.start = "no"
  BY TaskFacts, FreshValues
<1>4. ModeInv' /\ ResetInv' /\ RestoreInv' /\ DiscardInv' /\ SavingInv' /\ TaskInv' /\ OfferedInv'
  BY <1>1, <1>2, <1>3 DEF ModeInv, ResetInv, RestoreInv, DiscardInv, SavingInv, TaskInv, OfferedInv
<1>5. ArchiveInv' /\ SavedInv' /\ DoneInv' /\ CoverInv' /\ QueueInv'
  BY <1>1, <1>2 DEF ArchiveInv, SavedInv, DoneInv, CoverInv, Collecting, QueueInv
<1>6. HiddenInv'
  BY <1>1, <1>2 DEF HiddenInv, NoDiscard
<1> QED
  BY <1>4, <1>5, <1>6 DEF PageInv

\* A reload forgets whatever was overtaken.
LEMMA ReloadKeeps ==
  ASSUME AlwaysInv, overtaken # "now" => PageInv, AlwaysInv', Reload
  PROVE  PageInv'
<1>1. PICK k \in Keys : k = IF recency = << >> THEN NoBinding ELSE recency[Len(recency)]
  BY Newest DEF AlwaysInv, TypeInv
<1>2. budget'.failures = budget.failures /\ (overtaken' = "never" => overtaken = "never")
  BY SpentActs DEF Reload, AlwaysInv, TypeInv
<1>3. ASSUME budget'.failures = MaxFailures, overtaken' = "never"
      PROVE  recency' = IF k = NoBinding THEN << >> ELSE << k >>
  <2>1. CASE recency = << >>
    BY <2>1, <1>1 DEF Reload, database
  <2>2. ASSUME NEW x \in Bindings, recency = << x >>
        PROVE  recency' = IF k = NoBinding THEN << >> ELSE << k >>
    <3>1. recency # << >> /\ Len(recency) = 1 /\ recency[1] = x
      BY <2>2
    <3>2. k = x /\ k # NoBinding
      BY <1>1, <3>1, Bounds
    <3> QED
      BY <2>2, <3>2 DEF Reload, database
  <2> QED
    BY <2>1, <2>2, <1>2, <1>3, AtMostOne
<1> QED
  BY <1>1, <1>3, FreshPage DEF Reload

LEMMA FinishResetKeeps ==
  ASSUME PageInv, AlwaysInv', FinishReset
  PROVE  PageInv'
<1>1. resetting # NoReset /\ resetting.left = 0
  BY FreshValues DEF FinishReset
<1>2. /\ persist = << >> /\ task = NoTask /\ queued = << >> /\ camera = NoCamera
      /\ acc = ProbeAccumulator /\ restoring = NoRestore /\ discarding = NoDiscard /\ saving = NoSave
  <2>1. persist \in Seq(Ops) /\ Len(persist) = 0
    BY <1>1 DEF PageInv, AlwaysInv, TypeInv, WritesType, ResetInv
  <2> QED
    BY <1>1, <2>1 DEF PageInv, ResetInv, RestoreInv, DiscardInv, SavingInv
<1>3. resetting.key \in Keys
  BY PageFields DEF PageInv, AlwaysInv
<1>5. ASSUME budget'.failures = MaxFailures, overtaken' = "never" PROVE recency' = << >>
  <2>1. ~(budget.failures > 0 /\ budget' = [ budget EXCEPT !.failures = @ - 1 ])
    BY <1>5, SpentFailure DEF PageInv, AlwaysInv, TypeInv
  <2>2. /\ UNCHANGED << budget, overtaken >>
        /\ \/ resetting.key # NoBinding /\ recency' = Without(resetting.key)
           \/ resetting.key = NoBinding /\ recency' = recency
    BY <2>1 DEF FinishReset, database
  <2>3. recency = << >> \/ (recency = << resetting.key >> /\ resetting.key # NoBinding)
    <3>1. conn \in Keys /\ ui.saved \in Keys /\ budget.failures = MaxFailures /\ overtaken = "never"
      BY <2>2, <1>5, PageFields DEF PageInv, AlwaysInv
    <3>2. CASE conn # NoBinding
      BY <3>1, <3>2, <1>1, <1>2 DEF PageInv, HiddenInv
    <3>3. CASE conn = NoBinding
      BY <3>1, <3>3, <1>1, <1>2 DEF PageInv, HiddenInv
    <3> QED
      BY <3>2, <3>3
  <2>4. DiskType
    BY DEF PageInv, AlwaysInv, TypeInv
  <2>5. CASE recency = << >>
    <3>1. resetting.key \in Bindings => Without(resetting.key) = << >>
      BY <2>4, <2>5, OneKey
    <3> QED
      BY <3>1, <2>2, <2>5, <1>3 DEF Keys
  <2>6. CASE recency = << resetting.key >> /\ resetting.key # NoBinding
    <3>1. resetting.key \in Bindings
      BY <1>3, <2>6 DEF Keys
    <3>2. Without(resetting.key) = << >>
      BY <2>4, <2>6, <3>1, OneKey
    <3> QED
      BY <3>2, <2>2, <2>6
  <2> QED
    BY <2>3, <2>5, <2>6
<1>6. ui' = [ FreshUi EXCEPT !.saved = NoBinding ] /\ NoBinding \in Keys
  <2>1. FreshUi = [ FreshUi EXCEPT !.saved = NoBinding ]
    <3>1. PICK v \in Uis : v = FreshUi
      BY FreshValues
    <3>2. v.saved = NoBinding
      BY <3>1 DEF FreshUi
    <3>3. v = [ v EXCEPT !.saved = NoBinding ]
      BY <3>2 DEF Uis
    <3> QED
      BY <3>1, <3>3
  <2>2. ui' = FreshUi
    BY DEF FinishReset
  <2>3. NoBinding \in Keys
    BY DEF Keys
  <2> QED
    BY <2>1, <2>2, <2>3, Zenon
<1>7. /\ conn' = NoBinding /\ acc' = ProbeAccumulator /\ task' = NoTask /\ queued' = << >>
      /\ camera' = NoCamera /\ archive' = NoArchive /\ resetting' = NoReset /\ restoring' = NoRestore
      /\ discarding' = NoDiscard /\ saving' = NoSave /\ persist' = << >> /\ failed' = {}
  BY <1>2 DEF FinishReset
<1> QED
  BY <1>5, <1>6, <1>7, FreshPage
-----------------------------------------------------------------------------
(* As long as nothing pending is overtaken: discarding and saving.         *)

\* The card of a saved transfer: nothing else is under way.
LEMMA OfferFacts ==
  ASSUME PageInv, conn = NoBinding, ui.saved # NoBinding, resetting = NoReset
  PROVE  /\ task = NoTask /\ queued = << >> /\ camera = NoCamera /\ persist = << >> /\ failed = {}
         /\ ui.active = NoBinding /\ saving = NoSave /\ archive = NoArchive
         /\ budget.failures = MaxFailures /\ overtaken = "never" /\ discarding.step # "list"
              => recency = << ui.saved >>
         /\ budget.failures = MaxFailures /\ overtaken = "never" /\ discarding.step = "list"
              => recency = << >>
<1>1. task = NoTask /\ queued = << >> /\ camera = NoCamera /\ persist = << >>
  BY DEF PageInv, OfferedInv
<1>2. failed = {} /\ ui.active = NoBinding /\ saving = NoSave /\ archive = NoArchive
  BY DEF PageInv, QueueInv, SavingInv, ArchiveInv
<1> QED
  BY <1>1, <1>2 DEF PageInv, HiddenInv

\* A step of a page that offers a saved transfer.
LEMMA OfferStep ==
  ASSUME PageInv, AlwaysInv', conn = NoBinding, ui.saved # NoBinding, resetting = NoReset,
         UNCHANGED << conn, acc, task, queued, camera, archive, resetting, saving, writes >>,
         ui'.mode = ui.mode, ui'.active = NoBinding, ui'.phase \notin { "archive-ready", "saving" },
         RestoreInv', DiscardInv', HiddenInv'
  PROVE  PageInv'
<1>1. /\ task = NoTask /\ queued = << >> /\ camera = NoCamera /\ persist = << >> /\ failed = {}
      /\ saving = NoSave /\ archive = NoArchive
  BY OfferFacts
<1>2. DOMAIN persist' = {} /\ persist' = << >> /\ failed' = {} /\ Len(persist') = 0
  <2>1. DOMAIN << >> = {} /\ Len(<< >>) = 0
    OBVIOUS
  <2> QED
    BY <1>1, <2>1 DEF writes
<1>3. NoTask.step = "none" /\ NoCamera.start = "no"
  BY TaskFacts, FreshValues
<1>4. ModeInv' /\ ResetInv' /\ TaskInv' /\ OfferedInv' /\ SavingInv'
  BY <1>1, <1>2, <1>3 DEF PageInv, ModeInv, ResetInv, TaskInv, OfferedInv, SavingInv
<1>5. ArchiveInv' /\ SavedInv' /\ DoneInv' /\ CoverInv' /\ QueueInv'
  BY <1>1, <1>2 DEF ArchiveInv, SavedInv, DoneInv, CoverInv, Collecting, QueueInv
<1> QED
  BY <1>4, <1>5 DEF PageInv

LEMMA DiscardKeeps ==
  ASSUME PageInv, AlwaysInv', overtaken' # "now", DiscardSavedCheckpoint
  PROVE  PageInv'
<1>1. /\ resetting = NoReset /\ restoring = NoRestore /\ discarding = NoDiscard /\ saving = NoSave
      /\ overtaken' = overtaken /\ budget'.failures = budget.failures
  BY CalmActs DEF DiscardSavedCheckpoint, PageInv
<1>2. /\ conn = NoBinding /\ ui.saved # NoBinding /\ ui.phase = "idle"
      /\ UNCHANGED << ui, conn, acc, task, queued, camera, archive, resetting, restoring, saving,
                      writes, database >>
      /\ discarding' = [ step |-> "delete", b |-> ui.saved ]
  BY DEF DiscardSavedCheckpoint, Offered
<1>3. ui.active = NoBinding
  BY <1>1, <1>2, OfferFacts
<1>4. RestoreInv' /\ DiscardInv'
  BY <1>1, <1>2 DEF RestoreInv, DiscardInv
<1>5. HiddenInv'
  BY <1>1, <1>2, HiddenStill DEF PageInv, database, writes, NoDiscard
<1> QED
  BY <1>1, <1>2, <1>3, <1>4, <1>5, OfferStep

\* What a discard under way holds.
LEMMA Discarding ==
  ASSUME PageInv, discarding # NoDiscard
  PROVE  /\ conn = NoBinding /\ ui.saved # NoBinding /\ ui.saved \in Bindings
         /\ ui.saved = discarding.b /\ ui.phase = "idle" /\ resetting = NoReset
         /\ restoring = NoRestore /\ saving = NoSave /\ ui.active = NoBinding
<1>1. /\ conn = NoBinding /\ ui.phase = "idle" /\ resetting = NoReset /\ discarding.step # "no"
      /\ ui.saved = discarding.b
  BY DEF PageInv, DiscardInv
<1>2. ui.saved \in Bindings /\ ui.saved # NoBinding
  BY <1>1, Bounds DEF PageInv, AlwaysInv, TypeInv, CallsType
<1>3. restoring = NoRestore
  BY <1>1 DEF PageInv, RestoreInv
<1> QED
  BY <1>1, <1>2, <1>3, OfferFacts

LEMMA DeleteKeeps ==
  ASSUME PageInv, AlwaysInv', DeleteDiscarded
  PROVE  PageInv'
<1>1. discarding # NoDiscard /\ discarding.step = "delete"
  BY DEF DeleteDiscarded, NoDiscard
<1>2. /\ conn = NoBinding /\ ui.saved # NoBinding /\ ui.saved \in Bindings
      /\ ui.saved = discarding.b /\ ui.phase = "idle" /\ resetting = NoReset
      /\ restoring = NoRestore /\ saving = NoSave /\ ui.active = NoBinding
  BY <1>1, Discarding
<1>3. /\ UNCHANGED << ui, conn, acc, task, queued, camera, archive, resetting, restoring, saving,
                      overtaken, writes, budget >>
      /\ discarding' = [ discarding EXCEPT !.step = "list" ] /\ recency' = Without(ui.saved)
  BY <1>2 DEF DeleteDiscarded
<1>4. /\ discarding'.step = "list" /\ discarding'.b = ui.saved
  BY <1>2, <1>3 DEF PageInv, AlwaysInv, TypeInv, CallsType
<1>5. RestoreInv' /\ DiscardInv'
  BY <1>2, <1>3, <1>4 DEF RestoreInv, DiscardInv
<1>6. HiddenInv'
  <2>1. SUFFICES ASSUME budget.failures = MaxFailures, overtaken = "never" PROVE HiddenInv'
    BY <1>3 DEF HiddenInv
  <2>2. recency = << ui.saved >> /\ persist = << >>
    BY <1>1, <1>2, <2>1, OfferFacts
  <2>3. recency' = << >>
    BY <1>2, <1>3, <2>2, OneKey DEF PageInv, AlwaysInv, TypeInv
  <2>4. persist' = << >> /\ DOMAIN persist' = {}
    BY <1>3, <2>2 DEF writes
  <2> QED
    BY <1>2, <1>3, <1>4, <2>3, <2>4 DEF HiddenInv
<1> QED
  BY <1>2, <1>3, <1>5, <1>6, OfferStep

LEMMA ListKeeps ==
  ASSUME PageInv, AlwaysInv', ListRemaining
  PROVE  PageInv'
<1>1. discarding # NoDiscard /\ discarding.step = "list"
  BY DEF ListRemaining, NoDiscard
<1>2. /\ conn = NoBinding /\ ui.saved # NoBinding /\ ui.phase = "idle" /\ resetting = NoReset
      /\ restoring = NoRestore
  BY <1>1, Discarding
<1>3. PICK b \in Keys :
        /\ b = IF recency = << >> THEN NoBinding ELSE recency[Len(recency)]
        /\ ui' = [ ui EXCEPT !.active = NoBinding, !.status = "none", !.saved = b ]
  BY Newest DEF ListRemaining, PageInv, AlwaysInv, TypeInv
<1>4. /\ ui'.mode = ui.mode /\ ui'.phase = ui.phase /\ ui'.saved = b /\ ui'.active = NoBinding
  BY <1>3 DEF PageInv, AlwaysInv, TypeInv, PageType, Uis
<1>5. /\ UNCHANGED << conn, acc, task, queued, camera, archive, resetting, restoring, saving,
                      overtaken, writes, database, budget >>
      /\ discarding' = NoDiscard
  BY DEF ListRemaining
<1>6. RestoreInv' /\ DiscardInv'
  BY <1>2, <1>4, <1>5 DEF RestoreInv, DiscardInv
<1>7. HiddenInv'
  <2>1. SUFFICES ASSUME budget.failures = MaxFailures, overtaken = "never" PROVE HiddenInv'
    BY <1>5 DEF HiddenInv
  <2>2. recency = << >> /\ persist = << >>
    BY <1>1, <1>2, <2>1, OfferFacts
  <2>3. recency' = << >> /\ persist' = << >> /\ DOMAIN persist' = {} /\ b = NoBinding
    BY <1>3, <1>5, <2>2 DEF writes, database
  <2> QED
    BY <1>2, <1>4, <1>5, <2>3 DEF HiddenInv
<1> QED
  BY <1>2, <1>4, <1>5, <1>6, <1>7, OfferStep

LEMMA DiscardFailsKeeps ==
  ASSUME PageInv, AlwaysInv', DiscardFails
  PROVE  PageInv'
<1>1. /\ conn = NoBinding /\ ui.saved # NoBinding /\ ui.phase = "idle" /\ resetting = NoReset
      /\ restoring = NoRestore /\ ui.active = NoBinding
  BY Discarding DEF DiscardFails
<1>2. /\ UNCHANGED << ui, conn, acc, task, queued, camera, archive, resetting, restoring, saving,
                      overtaken, writes, database >>
      /\ discarding' = NoDiscard
  BY DEF DiscardFails
<1>3. RestoreInv' /\ DiscardInv'
  BY <1>1, <1>2 DEF RestoreInv, DiscardInv
<1>4. HiddenInv'
  BY SpentFailure DEF DiscardFails, HiddenInv, PageInv, AlwaysInv, TypeInv
<1> QED
  BY <1>1, <1>2, <1>3, <1>4, OfferStep

\* The archive is saved and its checkpoint goes.
LEMMA SaveVerifiedKeeps ==
  ASSUME PageInv, AlwaysInv', SaveVerified
  PROVE  PageInv'
<1>1. saving # NoSave /\ persist = << >>
  BY DEF SaveVerified, NoSave
<1>2. /\ resetting = NoReset /\ acc.done /\ task = NoTask /\ conn # NoBinding
      /\ restoring = NoRestore /\ discarding = NoDiscard
  BY <1>1, Busy DEF PageInv, SavingInv
<1>3. /\ UNCHANGED << conn, acc, task, queued, camera, archive, resetting, restoring, discarding,
                      overtaken, writes >>
      /\ saving' = NoSave
  BY DEF SaveVerified
<1>4. /\ ui'.mode = ui.mode /\ ui'.phase = "verified" /\ ui'.seen = ui.seen /\ ui'.status # "saved"
      /\ ui'.handled = ui.handled /\ ui'.active \in { NoBinding, ui.active }
  BY DEF SaveVerified, PageInv, AlwaysInv, TypeInv, PageType, Uis
<1>5. ASSUME budget'.failures = MaxFailures
      PROVE  recency' = Without(saving.key) /\ ui'.active = NoBinding /\ UNCHANGED budget
  <2>1. ~(budget.failures > 0 /\ budget' = [ budget EXCEPT !.failures = @ - 1 ])
    BY <1>5, SpentFailure DEF PageInv, AlwaysInv, TypeInv
  <2> QED
    BY <2>1 DEF SaveVerified, PageInv, AlwaysInv, TypeInv, PageType, Uis
<1>6. ModeInv' /\ ResetInv' /\ TaskInv' /\ OfferedInv'
  BY <1>1, <1>2, <1>3, <1>4, TaskFacts DEF PageInv, ModeInv, ResetInv, TaskInv, OfferedInv, writes
<1>7. ArchiveInv' /\ SavedInv' /\ DoneInv' /\ CoverInv' /\ QueueInv'
  BY <1>2, <1>3, <1>4 DEF PageInv, ArchiveInv, SavedInv, DoneInv, CoverInv, Collecting, QueueInv,
     writes
<1>8. RestoreInv' /\ DiscardInv' /\ SavingInv'
  BY <1>2, <1>3, <1>4, CallsKept DEF PageInv
<1>9. HiddenInv'
  <2>1. SUFFICES ASSUME budget'.failures = MaxFailures, overtaken = "never" PROVE HiddenInv'
    BY <1>3 DEF HiddenInv
  <2>2. recency' = Without(saving.key) /\ ui'.active = NoBinding /\ budget.failures = MaxFailures
    BY <1>5, <2>1
  <2>3. recency = << >> \/ (recency = << conn >> /\ saving.key = conn)
    BY <1>1, <1>2, <2>1, <2>2 DEF PageInv, HiddenInv
  <2>4. conn \in Bindings /\ DiskType /\ saving.key \in Keys
    BY <1>2, PageFields DEF PageInv, AlwaysInv, TypeInv, CallsType, Keys
  <2>5. CASE recency = << >>
    <3>1. Without(saving.key) = << >>
      BY <2>5 DEF Without
    <3> QED
      BY <1>1, <1>2, <1>3, <1>4, <2>2, <3>1 DEF HiddenInv, writes
  <2>6. CASE recency = << conn >> /\ saving.key = conn
    <3>1. Without(saving.key) = << >>
      BY <2>4, <2>6, OneKey
    <3> QED
      BY <1>1, <1>2, <1>3, <1>4, <2>2, <3>1 DEF HiddenInv, writes
  <2> QED
    BY <2>3, <2>5, <2>6
<1> QED
  BY <1>6, <1>7, <1>8, <1>9 DEF PageInv
-----------------------------------------------------------------------------
(* As long as nothing pending is overtaken: the restore.                   *)

\* A restore is under way: nothing else is.
LEMMA WhileRestoring ==
  ASSUME PageInv, restoring # NoRestore
  PROVE  /\ task = NoTask /\ queued = << >> /\ camera = NoCamera /\ resetting = NoReset
         /\ persist = << >> /\ conn = NoBinding /\ discarding = NoDiscard /\ saving = NoSave
         /\ archive = NoArchive /\ failed = {} /\ ui.active = NoBinding /\ ui.phase = "restoring"
         /\ restoring.fresh /\ restoring.b = ui.saved /\ restoring.b \in Bindings
         /\ task.step = "none" /\ DOMAIN persist = {}
<1>1. /\ task = NoTask /\ queued = << >> /\ camera = NoCamera /\ resetting = NoReset
      /\ persist = << >> /\ conn = NoBinding /\ ui.phase = "restoring"
      /\ restoring.fresh /\ restoring.b = ui.saved /\ restoring.step # "no"
  BY DEF PageInv, RestoreInv
<1>2. discarding = NoDiscard /\ saving = NoSave /\ archive = NoArchive
  BY <1>1 DEF PageInv, DiscardInv, SavingInv, ArchiveInv
<1>3. failed = {} /\ ui.active = NoBinding
  BY <1>1 DEF PageInv, QueueInv
<1>4. restoring.b \in Bindings
  BY <1>1 DEF PageInv, AlwaysInv, TypeInv, CallsType
<1>5. DOMAIN persist = {}
  <2>1. DOMAIN << >> = {}
    OBVIOUS
  <2> QED
    BY <2>1, <1>1
<1> QED
  BY <1>1, <1>2, <1>3, <1>4, <1>5, TaskFacts

LEMMA RestoreRefusedKeeps ==
  ASSUME PageInv, AlwaysInv', restoring # NoRestore, RestoreRefused,
         UNCHANGED << queued, camera, resetting, discarding, saving, overtaken, writes, database >>,
         budget'.failures = budget.failures \/ budget'.failures # MaxFailures
  PROVE  PageInv'
<1>1. /\ task = NoTask /\ queued = << >> /\ camera = NoCamera /\ resetting = NoReset
      /\ persist = << >> /\ conn = NoBinding /\ discarding = NoDiscard /\ saving = NoSave
      /\ archive = NoArchive /\ failed = {} /\ ui.active = NoBinding
      /\ task.step = "none" /\ DOMAIN persist = {}
  BY WhileRestoring
<1>2. /\ restoring' = NoRestore /\ UNCHANGED << acc, conn, archive, task >>
      /\ ui' = [ ui EXCEPT !.phase = "idle", !.status = "error" ]
  BY DEF RestoreRefused
<1>3. UNCHANGED << persist, failed, records, recency >>
  BY DEF writes, database
<1>4. /\ ui'.mode = ui.mode /\ ui'.phase = "idle" /\ ui'.status = "error"
      /\ ui'.saved = ui.saved /\ ui'.active = ui.active
  BY <1>2 DEF PageInv, AlwaysInv, TypeInv, PageType, Uis, Phases
<1>5. ModeInv' /\ ResetInv' /\ OfferedInv'
  BY <1>1, <1>2, <1>3, <1>4 DEF PageInv, ModeInv, ResetInv, OfferedInv
<1>6. TaskInv'
  BY <1>1, <1>2, <1>3 DEF TaskInv
<1>7. ArchiveInv' /\ SavedInv' /\ DoneInv' /\ CoverInv'
  BY <1>1, <1>2, <1>4 DEF ArchiveInv, SavedInv, DoneInv, CoverInv, Collecting
<1>8. QueueInv'
  BY <1>1, <1>2, <1>3, <1>4 DEF PageInv, QueueInv
<1>9. HiddenInv'
  BY <1>1, <1>2, <1>3, <1>4 DEF PageInv, HiddenInv
<1>10. RestoreInv' /\ DiscardInv' /\ SavingInv'
  BY <1>1, <1>2, <1>4 DEF RestoreInv, DiscardInv, SavingInv
<1> QED
  BY <1>5, <1>6, <1>7, <1>8, <1>9, <1>10 DEF PageInv

LEMMA LoadFailsKeeps ==
  ASSUME PageInv, AlwaysInv', LoadFails
  PROVE  PageInv'
<1>1. restoring # NoRestore
  BY DEF LoadFails, NoRestore
<1>2. budget'.failures # MaxFailures
  BY SpentFailure DEF LoadFails, PageInv, AlwaysInv, TypeInv
<1> QED
  BY <1>1, <1>2, RestoreRefusedKeeps DEF LoadFails

LEMMA LoadKeeps ==
  ASSUME PageInv, AlwaysInv', LoadFrames
  PROVE  PageInv'
<1>1. restoring # NoRestore /\ restoring.step = "load"
  BY DEF LoadFrames, NoRestore
<1>2. /\ task = NoTask /\ queued = << >> /\ camera = NoCamera /\ resetting = NoReset
      /\ persist = << >> /\ conn = NoBinding /\ discarding = NoDiscard /\ saving = NoSave
      /\ restoring.fresh /\ restoring.b = ui.saved /\ ui.phase = "restoring"
  BY <1>1, WhileRestoring
<1>3. CASE RestoreRefused
  BY <1>1, <1>3, RestoreRefusedKeeps DEF LoadFrames
<1>4. CASE /\ restoring' = [ restoring EXCEPT !.step = "replay", !.at = records[restoring.b].at ]
           /\ UNCHANGED << ui, acc, conn, archive, task >>
  <2>1. restoring \in Restores
    BY DEF PageInv, AlwaysInv, TypeInv, CallsType
  <2>2. /\ restoring'.step = "replay" /\ restoring'.b = restoring.b
        /\ restoring'.at = records[restoring.b].at /\ restoring'.fresh
    BY <1>2, <1>4, <2>1 DEF Restores
  <2>3. UNCHANGED << ui, conn, acc, task, queued, camera, archive, resetting, discarding, saving,
                     overtaken, persist, pend, failed, records, recency, budget >>
    BY <1>4 DEF LoadFrames, writes, database
  <2>4. restoring' # NoRestore
    BY <2>2 DEF NoRestore
  <2>5. RestoreInv'
    BY <1>2, <2>2, <2>3, <2>4 DEF RestoreInv
  <2>6. ModeInv' /\ ResetInv' /\ TaskInv' /\ OfferedInv' /\ DiscardInv' /\ SavingInv'
    BY <2>3 DEF PageInv, ModeInv, ResetInv, TaskInv, OfferedInv, DiscardInv, SavingInv
  <2>7. ArchiveInv' /\ SavedInv' /\ DoneInv' /\ CoverInv'
    BY <1>2, <2>3 DEF PageInv, ArchiveInv, SavedInv, DoneInv, CoverInv, Collecting
  <2>8. QueueInv' /\ HiddenInv'
    BY <2>3 DEF PageInv, QueueInv, HiddenInv
  <2> QED
    BY <2>5, <2>6, <2>7, <2>8 DEF PageInv
<1> QED
  BY <1>2, <1>3, <1>4 DEF LoadFrames

\* The saved checkpoint comes back into memory.
LEMMA ReplayedKeeps ==
  ASSUME PageInv, AlwaysInv', restoring.step = "replay", Replayed,
         Whole => \A c \in 1 .. N : Slots[c] = "good",
         UNCHANGED << queued, camera, resetting, discarding, saving, overtaken, writes, database,
                      budget >>
  PROVE  PageInv'
<1>0. restoring # NoRestore
  BY DEF NoRestore
<1>1. /\ task = NoTask /\ queued = << >> /\ camera = NoCamera /\ resetting = NoReset
      /\ persist = << >> /\ conn = NoBinding /\ discarding = NoDiscard /\ saving = NoSave
      /\ failed = {} /\ restoring.b = ui.saved /\ DOMAIN persist = {}
  BY <1>0, WhileRestoring
<1>2. /\ restoring.b \in Bindings /\ (\A c \in 1 .. N : Slots[c] = restoring.at[c])
      /\ acc'.purpose = "files" /\ acc'.want = restoring.b
      /\ acc'.b = IF restoring.at[0] # "none" THEN restoring.b ELSE NoBinding
      /\ acc'.slot = Slots /\ (acc'.done <=> Whole)
      /\ ui'.mode = "files" /\ ui'.active = restoring.b /\ ui'.saved = ui.saved
      /\ ui'.phase \in { "archive-ready", "paused", "test-verified" }
      /\ ui'.phase = "archive-ready" <=> Whole
      /\ archive' # NoArchive => archive'.purpose = "files" /\ archive'.b = restoring.b
  BY ReplayedFacts DEF PageInv
<1>3. restoring' = NoRestore /\ task' = NoTask /\ task'.step = "none" /\ conn' = restoring.b
  BY TaskFacts DEF Replayed
<1>4. conn' # NoBinding
  BY <1>2, <1>3, Bounds
<1>5. UNCHANGED << persist, failed, records, recency, budget >>
  BY DEF writes, database
<1>6. restoring.at = records[restoring.b].at /\ restoring.at[0] # "bad"
      /\ restoring.at \in [ Positions -> Payload ]
  BY <1>0, <1>2 DEF PageInv, RestoreInv, AlwaysInv, TypeInv, DiskType
<1>7. ASSUME NEW p \in Positions PROVE records'[conn'].at[p] \in Wanted(p)'
  <2>1. CASE p # 0
    BY <2>1, <1>2, <1>3, <1>5, <1>6, PositionFacts DEF Wanted
  <2>2. CASE p = 0
    BY <2>2, <1>2, <1>3, <1>4, <1>5, <1>6, PositionFacts DEF Wanted, Payload
  <2> QED
    BY <2>1, <2>2
<1>8. CoverInv'
  <2>1. ASSUME NEW p \in Positions PROVE Covered(p)'
    <3>1. Ends(persist, p, Wanted(p))'
      BY <1>1, <1>5 DEF Ends
    <3> QED
      BY <3>1, <1>7 DEF Covered
  <2> QED
    BY <2>1 DEF CoverInv
<1>9. ModeInv'
  BY <1>1, <1>2, <1>3, <1>4, FreshValues DEF ModeInv
<1>10. ResetInv' /\ OfferedInv' /\ TaskInv'
  BY <1>1, <1>3, <1>4, <1>5 DEF ResetInv, OfferedInv, TaskInv
<1>11. ArchiveInv' /\ SavedInv' /\ DoneInv'
  BY <1>1, <1>2, <1>3, <1>4, <1>5 DEF ArchiveInv, SavedInv, DoneInv
<1>12. QueueInv'
  BY <1>1, <1>4, <1>5 DEF QueueInv
<1>13. RestoreInv' /\ DiscardInv' /\ SavingInv'
  BY <1>1, <1>2, <1>3 DEF RestoreInv, DiscardInv, SavingInv
<1>14. HiddenInv'
  <2>1. SUFFICES ASSUME budget.failures = MaxFailures, overtaken = "never" PROVE HiddenInv'
    BY <1>5 DEF HiddenInv
  <2>2. recency = << restoring.b >>
    BY <1>1, <1>2, <2>1, Bounds DEF PageInv, HiddenInv, NoDiscard
  <2> QED
    BY <1>1, <1>2, <1>3, <1>4, <1>5, <2>2 DEF HiddenInv
<1> QED
  BY <1>8, <1>9, <1>10, <1>11, <1>12, <1>13, <1>14 DEF PageInv

LEMMA ReplayKeeps ==
  ASSUME PageInv, AlwaysInv', ReplayFrames
  PROVE  PageInv'
<1>1. restoring # NoRestore /\ restoring.step = "replay"
  BY DEF ReplayFrames, NoRestore
<1>2. restoring.fresh
  BY <1>1, WhileRestoring
<1>3. CASE RestoreRefused
  BY <1>1, <1>3, RestoreRefusedKeeps DEF ReplayFrames
<1>4. CASE Replayed /\ (Whole => \A c \in 1 .. N : Slots[c] = "good")
  BY <1>1, <1>4, ReplayedKeeps DEF ReplayFrames
<1> QED
  BY <1>2, <1>3, <1>4 DEF ReplayFrames, Replayed, Slots, Whole
-----------------------------------------------------------------------------
(* As long as nothing pending is overtaken: frames.                        *)

\* With a connection every frame is written, unless it is there already.
LEMMA WritesFacts ==
  ASSUME PageInv, resetting = NoReset, NEW f \in Frames, NEW dup \in BOOLEAN, NEW conflict \in BOOLEAN,
         NEW q, q = Writes(f, dup, conflict)
  PROVE  /\ \/ q = << >> /\ (conn = NoBinding \/ (dup /\ ~conflict))
            \/ conn # NoBinding /\ conflict /\ q = << Op("drop", conn, f.pos, "none") >>
            \/ conn # NoBinding /\ ~conflict /\ q = << Op("frame", conn, f.pos, f.v) >>
         /\ q # << >> /\ dup /\ ~conflict => failed # {}
<1>1. CASE conn = NoBinding
  BY <1>1 DEF Writes
<1>2. CASE conn # NoBinding
  <2>1. ui.mode = "files" /\ ~Torn
    BY <1>2 DEF PageInv, ModeInv, Torn
  <2> QED
    BY <1>2, <2>1 DEF Writes
<1> QED
  BY <1>1, <1>2

LEMMA CoverMore ==
  ASSUME WritesType, NEW o \in Ops, persist' = persist \o << o >>,
         \A p \in Positions : Covered(p),
         UNCHANGED << conn, failed, records >>, budget'.failures = budget.failures,
         \A p \in Positions : /\ Touches(o, p) => Brings(o) \in Wanted(p)'
                              /\ ~Touches(o, p) => Wanted(p)' = Wanted(p)
  PROVE  \A p \in Positions : Covered(p)'
<1>1. ASSUME NEW p \in Positions PROVE Covered(p)'
  <2> DEFINE F == Wanted(p)'
  <2>1. persist \in Seq(Ops)
    BY DEF WritesType
  <2>2. Ends(persist, p, Wanted(p))
    BY DEF Covered
  <2>3. Ends(persist, p, F) \/ Touches(o, p)
    BY <2>2, <1>1
  <2>4. /\ Ends(persist \o << o >>, p, F)
        /\ Untouched(persist \o << o >>, p) => Untouched(persist, p) /\ ~Touches(o, p)
    <3> HIDE DEF F
    <3>1. Touches(o, p) => Brings(o) \in F
      BY <1>1 DEF F
    <3> QED
      BY <2>1, <2>3, <3>1, EndsWithMore
  <2>5. /\ Ends(persist', p, F)
        /\ Untouched(persist', p) => Untouched(persist, p) /\ Wanted(p)' = Wanted(p)
    BY <2>4, <1>1
  <2>6. Untouched(persist', p) /\ p \notin failed' =>
             \/ records'[conn'].at[p] \in F
             \/ "none" \in F /\ budget'.failures < MaxFailures
    BY <2>5, <1>1 DEF Covered
  <2>7. Ends(persist, p, Wanted(p))' /\ (Untouched(persist, p)' <=> Untouched(persist', p))
    BY <2>5 DEF Ends, Untouched
  <2> QED
    BY <2>6, <2>7 DEF Covered
<1> QED
  BY <1>1

LEMMA SameSlots ==
  ASSUME NEW S, NEW u \in [ 1 .. N -> S ], NEW w \in [ 1 .. N -> S ], \A c \in 1 .. N : u[c] = w[c]
  PROVE  u = w
<1>1. u = [ c \in 1 .. N |-> u[c] ] /\ w = [ c \in 1 .. N |-> w[c] ]
  OBVIOUS
<1>2. [ c \in 1 .. N |-> u[c] ] = [ c \in 1 .. N |-> w[c] ]
  OBVIOUS
<1> QED
  BY <1>1, <1>2, Zenon

\* A frame is taken in.
LEMMA IngestKeeps ==
  ASSUME PageInv, AlwaysInv', NEW f \in Frames, Ingest(f), task = NoTask, resetting = NoReset,
         ui.phase # "restoring", restoring = NoRestore, discarding = NoDiscard,
         conn = NoBinding => ui.saved = NoBinding,
         UNCHANGED << conn, camera, archive, calls, failed, database >>,
         budget'.failures = budget.failures
  PROVE  PageInv'
<1>0. /\ WritesType /\ TypeInv /\ NoTask.step = "none"
      /\ UNCHANGED << resetting, restoring, discarding, saving, overtaken, records, recency >>
      /\ saving # NoSave => conn # NoBinding /\ acc.done
  BY TaskFacts DEF PageInv, AlwaysInv, TypeInv, calls, database, SavingInv
<1>1. CASE ~Accepts(acc, f)
  <2>1. UNCHANGED << acc, task, persist, pend, ui >>
    BY <1>1 DEF Ingest
  <2>2. CoverInv' /\ HiddenInv' /\ QueueInv'
    BY <2>1, PageStep DEF writes, Collecting, calls
  <2>4. ModeInv' /\ ResetInv' /\ TaskInv' /\ OfferedInv'
    BY <1>0, <2>1 DEF PageInv, ModeInv, ResetInv, TaskInv, OfferedInv
  <2>5. ArchiveInv' /\ SavedInv' /\ DoneInv'
    BY <1>0, <2>1 DEF PageInv, ArchiveInv, SavedInv, DoneInv
  <2>6. RestoreInv' /\ DiscardInv' /\ SavingInv'
    BY <1>0, <2>1, CallsKept DEF PageInv
  <2> QED
    BY <2>2, <2>4, <2>5, <2>6 DEF PageInv
<1>2. CASE Accepts(acc, f)
  <2>1. PICK a : a = Absorb(acc, f)
    OBVIOUS
  <2>2. /\ a \in Accumulator /\ a.purpose = acc.purpose /\ a.want = acc.want /\ a.done = acc.done
        /\ acc.done => a = acc
        /\ ~acc.done => a.b = (IF f.pos = 0 THEN f.b ELSE acc.b)
        /\ acc.b # NoBinding => a.b = acc.b
        /\ \A c \in 1 .. N : c # f.pos => a.slot[c] = acc.slot[c]
        /\ f.pos \in 1 .. N /\ ~acc.done
             => a.slot[f.pos] = IF Conflict(acc, f) THEN "none" ELSE f.v
    BY <1>0, <1>2, <2>1, AbsorbFacts
  <2>3. acc' = a
    BY <1>2, <2>1 DEF Ingest
  <2>4. acc.purpose = "files" => a.want = conn /\ a.b \in { NoBinding, conn }
    BY <1>2, <2>2 DEF PageInv, ModeInv, Accepts
  <2>6. ArchiveInv'
    BY DEF PageInv, ArchiveInv
  <2>7. CASE Full(a) /\ ~acc.done
    <3>1. task' = Reading(f) /\ UNCHANGED << persist, pend, ui >>
      BY <1>2, <2>1, <2>7 DEF Ingest
    <3>2. task'.step = "hash"
      BY <3>1, TaskFacts
    <3>3. HiddenInv' /\ QueueInv'
      BY <1>0, <2>2, <2>3, <3>1, HiddenStill, QueueStill DEF PageInv
    <3>5. ModeInv' /\ ResetInv' /\ OfferedInv'
      BY <1>0, <2>2, <2>3, <2>4, <3>1 DEF PageInv, ModeInv, ResetInv, OfferedInv
    <3>6. TaskInv'
      BY <1>0, <3>1, <3>2 DEF PageInv, TaskInv
    <3>7. SavedInv' /\ DoneInv' /\ CoverInv'
      BY <1>0, <2>2, <2>7, <3>1, <3>2 DEF PageInv, SavedInv, DoneInv, CoverInv, Collecting
    <3>8. RestoreInv' /\ DiscardInv' /\ SavingInv'
      BY <1>0, <2>7, <3>1, CallsKept DEF PageInv
    <3> QED
      BY <2>6, <3>3, <3>5, <3>6, <3>7, <3>8 DEF PageInv
  <2>8. CASE ~(Full(a) /\ ~acc.done)
    <3>d. PICK dup \in BOOLEAN : dup = Duplicate(acc, f)
      <4>1. Duplicate(acc, f) \in BOOLEAN
        BY <1>0, PageFields DEF Duplicate
      <4> QED
        BY <4>1, Zenon
    <3>c. PICK conflict \in BOOLEAN : conflict = Conflict(acc, f)
      <4>1. Conflict(acc, f) \in BOOLEAN
        BY <1>0, PageFields DEF Conflict
      <4> QED
        BY <4>1, Zenon
    <3>q. PICK q : q = Writes(f, dup, conflict)
      OBVIOUS
    <3>1. /\ dup <=> Duplicate(acc, f)
          /\ conflict <=> Conflict(acc, f)
          /\ q = Writes(f, dup, conflict)
          /\ q = Writes(f, Duplicate(acc, f), Conflict(acc, f))
      BY <3>d, <3>c, <3>q, Zenon
    <3>2. persist' = persist \o q /\ pend' = Counted(q) /\ ui' = Noted(q) /\ UNCHANGED task
      BY <1>2, <2>1, <2>8, <3>1 DEF Ingest
    <3>3. /\ \/ q = << >> /\ (conn = NoBinding \/ (dup /\ ~conflict))
             \/ conn # NoBinding /\ conflict /\ q = << Op("drop", conn, f.pos, "none") >>
             \/ conn # NoBinding /\ ~conflict /\ q = << Op("frame", conn, f.pos, f.v) >>
          /\ q # << >> /\ dup /\ ~conflict => failed # {}
      BY <3>1, WritesFacts
    <3>4. CASE q = << >>
      <4>1. persist' = persist
        BY <1>0, <3>2, <3>4 DEF WritesType
      <4>2. /\ ui'.phase = ui.phase /\ ui'.mode = ui.mode /\ ui'.seen
            /\ ui'.handled = ui.handled
            /\ ui'.saved = ui.saved /\ ui'.active = ui.active /\ ui'.status = ui.status
        BY <1>0, <3>2, <3>4, NotedFacts
      <4>5. HiddenInv' /\ QueueInv'
        BY <1>0, <2>2, <2>3, <3>2, <4>1, <4>2, HiddenStill, QueueStill DEF PageInv
      <4>6. CoverInv'
        <5>1. ASSUME conn # NoBinding, ~acc.done PROVE a.b = acc.b /\ a.slot = acc.slot
          <6>1. dup /\ ~conflict
            BY <3>3, <3>4, <5>1
          <6>2. f.pos = 0 => acc.b # NoBinding
            BY <3>1, <5>1, <6>1 DEF Duplicate
          <6>3. f.pos # 0 => acc.slot[f.pos] = f.v /\ f.pos \in 1 .. N
            BY <3>1, <5>1, <6>1, FrameFacts DEF Duplicate
          <6>4. \A c \in 1 .. N : a.slot[c] = acc.slot[c]
            BY <2>2, <3>1, <5>1, <6>1, <6>3, PositionFacts
          <6>5. a.slot \in [ 1 .. N -> Payload ] /\ acc.slot \in [ 1 .. N -> Payload ]
            BY <1>0, <2>2, PageFields DEF Accumulator
          <6>6. a.slot = acc.slot
            BY <6>4, <6>5, SameSlots
          <6> QED
            BY <2>2, <5>1, <6>2, <6>6
        <5>2. ASSUME Collecting' PROVE Collecting
          BY <1>0, <2>2, <2>3, <3>2, <5>2 DEF Collecting
        <5>3. CASE Collecting
          BY <1>0, <2>3, <4>1, <5>1, <5>2, <5>3, CoverStill DEF PageInv, Collecting
        <5> QED
          BY <5>2, <5>3 DEF CoverInv
      <4>8. ModeInv' /\ ResetInv' /\ OfferedInv' /\ TaskInv'
        BY <1>0, <2>2, <2>3, <2>4, <3>2, <4>1, <4>2 DEF PageInv, ModeInv, ResetInv,
           OfferedInv, TaskInv
      <4>9. SavedInv' /\ DoneInv'
        BY <1>0, <2>2, <2>3, <3>2, <4>1, <4>2 DEF PageInv, SavedInv, DoneInv
      <4>10. RestoreInv' /\ DiscardInv' /\ SavingInv'
        BY <1>0, <2>2, <2>3, <3>2, <4>2, CallsKept DEF PageInv
      <4> QED
        BY <2>6, <4>5, <4>6, <4>8, <4>9, <4>10 DEF PageInv
    <3>5. CASE q # << >>
      <4>1. PICK o : /\ q = << o >> /\ conn # NoBinding
                     /\ \/ conflict /\ o = Op("drop", conn, f.pos, "none")
                        \/ ~conflict /\ o = Op("frame", conn, f.pos, f.v)
        BY <3>3, <3>5
      <4>2. /\ o \in Ops /\ o.b = conn /\ o.kind \in { "frame", "drop" } /\ o.pos = f.pos
            /\ o.kind = "frame" /\ o.pos = 0 => o.v = "good"
            /\ \A p : Touches(o, p) <=> p = f.pos
            /\ o.kind = "drop" => conflict
            /\ conflict => Brings(o) = "none"
            /\ ~conflict => Brings(o) = f.v
        BY <1>0, <4>1, FrameOp
      <4>3. persist' = persist \o << o >>
        BY <3>2, <4>1
      <4>4. /\ persist' \in Seq(Ops) /\ persist' # << >>
            /\ \A i \in DOMAIN persist' : i \in DOMAIN persist \/ persist'[i] = o
            /\ \A i \in DOMAIN persist : i \in DOMAIN persist' /\ persist'[i] = persist[i]
        BY <1>0, <4>2, <4>3, MoreOps DEF WritesType
      <4>5. /\ ui'.phase = ui.phase /\ ui'.mode = ui.mode /\ ui'.seen
            /\ ui'.handled = ui.handled /\ ui'.status = "saving"
            /\ o.kind = "drop" => ui'.saved = ui.saved /\ ui'.active = ui.active
            /\ o.kind # "drop" => ui'.saved = conn /\ ui'.active = conn
        <5>1. PICK v : v = Noted(q)
          OBVIOUS
        <5>2. /\ v \in Uis /\ v.phase = ui.phase /\ v.mode = ui.mode /\ v.seen
              /\ v.handled = ui.handled /\ v.status = "saving"
              /\ o.kind = "drop" => v.saved = ui.saved /\ v.active = ui.active
              /\ o.kind # "drop" => v.saved = conn /\ v.active = conn
          <6>1. TypeInv /\ q # << >> /\ o \in Ops /\ q = << o >>
            BY <1>0, <3>5, <4>1, <4>2
          <6> QED
            BY <5>1, <6>1, NotedFacts
        <5>3. ui' = v
          BY <3>2, <5>1
        <5> QED
          BY <5>2, <5>3
      <4>7. conflict => ~acc.done /\ f.pos # 0
        BY <3>1 DEF Conflict
      <4>9. CoverInv'
        <5>1. ASSUME Collecting' PROVE Collecting
          BY <1>0, <2>2, <2>3, <3>2, <5>1 DEF Collecting
        <5>2. CASE Collecting
          <6>1. ~acc.done /\ \A p \in Positions : Covered(p)
            BY <5>2 DEF PageInv, CoverInv, Collecting
          <6>2. ASSUME NEW p \in Positions, p # f.pos PROVE Wanted(p)' = Wanted(p)
            BY <2>2, <2>3, <6>1, <6>2, PositionFacts DEF Wanted
          <6>3. Brings(o) \in Wanted(f.pos)'
            <7>1. CASE f.pos = 0
              BY <2>3, <4>2, <4>7, <7>1, FrameFacts DEF Wanted
            <7>2. CASE f.pos # 0
              BY <2>2, <2>3, <3>1, <4>2, <6>1, <7>2, FrameFacts DEF Wanted
            <7> QED
              BY <7>1, <7>2
          <6>5. \A p \in Positions : Covered(p)'
            BY <1>0, <4>2, <4>3, <6>1, <6>2, <6>3, CoverMore
          <6> QED
            BY <6>5 DEF CoverInv
        <5> QED
          BY <5>1, <5>2 DEF CoverInv
      <4>10. HiddenInv'
        <5>1. SUFFICES ASSUME budget.failures = MaxFailures, overtaken = "never" PROVE HiddenInv'
          BY <1>0 DEF HiddenInv
        <5>2. /\ recency = << >> \/ recency = << conn >>
              /\ \/ ui.active = conn
                 \/ ui.active = NoBinding /\ recency = << >> /\ persist = << >> /\ acc.done
          BY <4>1, <5>1 DEF PageInv, HiddenInv
        <5>3. failed = {}
          BY <1>0, <5>1 DEF TypeInv, NoneFailed
        <5>4. acc.done => dup
          BY <3>1 DEF Duplicate
        <5>5. ~acc.done
          BY <3>3, <3>5, <4>7, <5>3, <5>4
        <5>6. ui'.active = conn
          BY <4>5, <5>2, <5>5
        <5>7. saving = NoSave
          BY <1>0, <5>5
        <5> QED
          BY <1>0, <4>1, <5>2, <5>6, <5>7 DEF HiddenInv
      <4>11. QueueInv'
        BY <4>1, <4>2, <4>4 DEF PageInv, QueueInv
      <4>13. ModeInv' /\ ResetInv' /\ OfferedInv'
        BY <1>0, <2>2, <2>3, <2>4, <3>2, <4>1, <4>5 DEF PageInv, ModeInv, ResetInv,
           OfferedInv
      <4>14. TaskInv'
        BY <1>0, <3>2, <4>2, <4>4 DEF PageInv, TaskInv
      <4>15. SavedInv' /\ DoneInv'
        BY <1>0, <2>2, <2>3, <3>2, <4>1, <4>5 DEF PageInv, SavedInv, DoneInv
      <4>16. RestoreInv' /\ DiscardInv' /\ SavingInv'
        BY <1>0, <2>2, <2>3, <3>2, <4>5, CallsKept DEF PageInv
      <4> QED
        BY <2>6, <4>9, <4>10, <4>11, <4>13, <4>14, <4>15, <4>16 DEF PageInv
    <3> QED
      BY <3>4, <3>5
  <2> QED
    BY <2>7, <2>8
<1> QED
  BY <1>1, <1>2

LEMMA IngestQueuedKeeps ==
  ASSUME PageInv, AlwaysInv', IngestQueued
  PROVE  PageInv'
<1>1. /\ queued # << >> /\ task = NoTask /\ Ingest(Head(queued)) /\ queued' = << >>
      /\ UNCHANGED << conn, camera, archive, calls, failed, database, budget >>
  BY DEF IngestQueued
<1>2. PICK f \in Frames : f = Head(queued)
  BY <1>1 DEF PageInv, AlwaysInv, TypeInv, PageType
<1>3. /\ resetting = NoReset /\ ui.phase # "restoring" /\ (conn = NoBinding => ui.saved = NoBinding)
      /\ restoring = NoRestore /\ discarding = NoDiscard
  BY <1>1, Busy DEF PageInv, ResetInv, OfferedInv
<1> QED
  BY <1>1, <1>2, <1>3, IngestKeeps

LEMMA ScanKeeps ==
  ASSUME PageInv, AlwaysInv', NEW f \in Frames, Scan(f)
  PROVE  PageInv'
<1>1. camera # NoCamera
  BY DEF Scan, NoCamera
<1>2. /\ resetting = NoReset /\ ui.phase # "restoring" /\ (conn = NoBinding => ui.saved = NoBinding)
      /\ restoring = NoRestore /\ discarding = NoDiscard
  BY <1>1, Busy DEF PageInv, ResetInv, OfferedInv
<1>3. budget'.failures = budget.failures
  BY ScanBudget DEF PageInv, AlwaysInv, TypeInv
<1>4. UNCHANGED << conn, camera, archive, calls, failed, database >>
  BY DEF Scan
<1>5. CASE task = NoTask /\ queued = << >> /\ Ingest(f) /\ UNCHANGED queued
  BY <1>2, <1>3, <1>4, <1>5, IngestKeeps
<1>6. CASE task # NoTask /\ queued = << >> /\ queued' = << f >>
           /\ UNCHANGED << acc, task, persist, pend, ui >>
  <2>0. UNCHANGED << resetting, restoring, discarding, saving, overtaken, records, recency >>
    BY <1>4 DEF calls, database
  <2>1. CoverInv' /\ HiddenInv' /\ QueueInv'
    BY <1>3, <1>4, <1>6, PageStep DEF writes, Collecting, calls
  <2>3. ModeInv' /\ ResetInv' /\ TaskInv' /\ OfferedInv'
    BY <1>1, <1>2, <1>4, <1>6, <2>0 DEF PageInv, ModeInv, ResetInv, TaskInv, OfferedInv
  <2>4. ArchiveInv' /\ SavedInv' /\ DoneInv'
    BY <1>4, <1>6, <2>0 DEF PageInv, ArchiveInv, SavedInv, DoneInv
  <2>5. RestoreInv' /\ DiscardInv' /\ SavingInv'
    BY <1>2, <1>4, <1>6, <2>0, CallsKept DEF PageInv, SavingInv
  <2> QED
    BY <2>1, <2>3, <2>4, <2>5 DEF PageInv
<1> QED
  BY <1>5, <1>6 DEF Scan
-----------------------------------------------------------------------------
(* As long as nothing pending is overtaken: the hash of an archive is known. *)

\* The frame that completed the archive is written behind its hash.
WrittenBehind(q, v, r) ==
  /\ resetting = NoReset /\ ui.phase # "restoring" /\ ~Torn
  /\ restoring = NoRestore /\ discarding = NoDiscard /\ saving = NoSave
  /\ conn = NoBinding => ui.saved = NoBinding /\ ui.active = NoBinding
  /\ v \in Uis /\ v.phase = ui.phase /\ v.mode = ui.mode /\ v.seen /\ v.handled = ui.handled
  /\ r \in Seq(Ops)
  /\ \A i \in DOMAIN r : r[i].kind = "frame" /\ r[i].pos = 0 => r[i].v = "good"
  /\ conn = NoBinding
       => r = persist /\ v.saved = ui.saved /\ v.active = ui.active /\ v.status = ui.status
  /\ conn # NoBinding
       => r # << >> /\ v.saved = conn /\ v.active = conn /\ v.status = "saving"
  /\ conn # NoBinding => \A i \in DOMAIN r :
       r[i].kind \in { "frame", "drop", "clear" } /\ r[i].b = conn
  /\ \A i \in DOMAIN r : ~(r[i].kind = "proof" /\ r[i].fresh)

MoreOf(q, o, r) ==
  /\ r \in Seq(Ops) /\ r # << >>
  /\ \A i \in DOMAIN r : i \in DOMAIN q \/ r[i] = o
  /\ \A i \in DOMAIN q : i \in DOMAIN r /\ r[i] = q[i]
  /\ \A i \in DOMAIN r : r[i].kind = "frame" /\ r[i].pos = 0 => r[i].v = "good"

LEMMA MoreOfFacts ==
  ASSUME NEW q \in Seq(Ops),
         \A i \in DOMAIN q : q[i].kind = "frame" /\ q[i].pos = 0 => q[i].v = "good",
         NEW o \in Ops, o.kind = "frame" /\ o.pos = 0 => o.v = "good",
         NEW r, r = q \o << o >>
  PROVE  MoreOf(q, o, r)
<1> QED
  BY MoreOps DEF MoreOf

LEMMA FrameBehindHash ==
  ASSUME PageInv, task.step = "hash", NEW q, q = Writes(task.frame, FALSE, FALSE),
         NEW v, v = Noted(q), NEW r, r = persist \o q
  PROVE  WrittenBehind(q, v, r)
<1>1. task.frame \in Frames /\ task # NoTask
  BY TaskFacts, PageFields DEF PageInv, AlwaysInv
<1>2. PICK f \in Frames : f = task.frame
  BY <1>1
<1>3. /\ resetting = NoReset /\ ui.phase # "restoring"
      /\ restoring = NoRestore /\ discarding = NoDiscard /\ saving = NoSave
  BY <1>1, Busy DEF PageInv, ResetInv, SavingInv
<1>4. conn = NoBinding => ui.saved = NoBinding /\ ui.active = NoBinding
  BY <1>1 DEF PageInv, OfferedInv, QueueInv
<1>5. ~Torn
  BY <1>3 DEF PageInv, ModeInv, Torn
<1>6. /\ conn = NoBinding => q = << >>
      /\ conn # NoBinding => q = << Op("frame", conn, f.pos, f.v) >>
  <2>1. q = Writes(f, FALSE, FALSE)
    BY <1>2
  <2> QED
    BY <2>1, <1>3, WritesFacts
<1>7. WritesType /\ TypeInv
  BY DEF PageInv, AlwaysInv, TypeInv
<1>8. \A i \in DOMAIN persist : ~(persist[i].kind = "proof" /\ persist[i].fresh)
  BY DEF PageInv, TaskInv
<1>9. CASE conn = NoBinding
  <2>1. q = << >> /\ r = persist
    <3>1. q = << >>
      BY <1>6, <1>9, Zenon
    <3>2. persist \in Seq(Ops)
      BY <1>7 DEF WritesType
    <3>3. persist \o << >> = persist
      BY <3>2
    <3>4. r = persist \o << >>
      BY <3>1, Zenon
    <3> QED
      BY <3>1, <3>3, <3>4, Zenon
  <2>3. /\ v \in Uis /\ v.phase = ui.phase /\ v.mode = ui.mode /\ v.seen
        /\ v.handled = ui.handled
        /\ v.saved = ui.saved /\ v.active = ui.active /\ v.status = ui.status
    BY <1>7, <2>1, NotedFacts
  <2> QED
    BY <1>3, <1>4, <1>5, <1>7, <1>8, <1>9, <2>1, <2>3 DEF WritesType, WrittenBehind
<1>10. CASE conn # NoBinding
  <2>1. PICK o : o = Op("frame", conn, f.pos, f.v)
    OBVIOUS
  <2>2. q = << o >> /\ r = persist \o << o >> /\ q # << >>
    <3>1. q = << Op("frame", conn, f.pos, f.v) >>
      BY <1>6, <1>10, Zenon
    <3>2. q = << o >> /\ r = persist \o << o >>
      BY <2>1, <3>1, Zenon
    <3>3. << o >> # << >>
      OBVIOUS
    <3> QED
      BY <3>2, <3>3, Zenon
  <2>3. /\ o \in Ops /\ o.b = conn /\ o.kind = "frame"
        /\ o.kind = "frame" /\ o.pos = 0 => o.v = "good"
    BY <1>7, <1>10, <2>1, FrameOp
  <2>5. /\ v \in Uis /\ v.phase = ui.phase /\ v.mode = ui.mode /\ v.seen
        /\ v.handled = ui.handled
        /\ v.saved = conn /\ v.active = conn /\ v.status = "saving"
    BY <1>7, <2>2, <2>3, NotedFacts
  <2>6. /\ r \in Seq(Ops) /\ r # << >>
        /\ \A i \in DOMAIN r : i \in DOMAIN persist \/ r[i] = o
        /\ \A i \in DOMAIN persist : i \in DOMAIN r /\ r[i] = persist[i]
        /\ \A i \in DOMAIN r : r[i].kind = "frame" /\ r[i].pos = 0 => r[i].v = "good"
    <3>1. r = persist \o << o >> /\ (o.kind = "frame" /\ o.pos = 0 => o.v = "good")
      BY <2>2, <2>3, Zenon
    <3>2. /\ persist \in Seq(Ops)
          /\ \A i \in DOMAIN persist :
               persist[i].kind = "frame" /\ persist[i].pos = 0 => persist[i].v = "good"
      BY <1>7 DEF WritesType
    <3>3. persist \in Seq(Ops) /\ o \in Ops
      BY <2>3, <3>2, Zenon
    <3>4. MoreOf(persist, o, r)
      BY <3>1, <3>2, <3>3, MoreOfFacts, Zenon
    <3> QED
      BY <3>4, Zenon DEF MoreOf
  <2>7. /\ \A i \in DOMAIN r : r[i].kind \in { "frame", "drop", "clear" } /\ r[i].b = conn
        /\ \A i \in DOMAIN r : ~(r[i].kind = "proof" /\ r[i].fresh)
    BY <1>8, <1>10, <2>3, <2>6 DEF PageInv, QueueInv
  <2> QED
    BY <1>3, <1>5, <1>10, <2>5, <2>6, <2>7 DEF WrittenBehind
<1> QED
  BY <1>9, <1>10

LEMMA VerificationPassedKeeps ==
  ASSUME PageInv, AlwaysInv', VerificationPassed
  PROVE  PageInv'
<1>1. PICK q, u : q = Writes(task.frame, FALSE, FALSE) /\ u = Noted(q)
  OBVIOUS
<1>2. /\ task.step = "hash" /\ Sound(acc) /\ acc' = [ acc EXCEPT !.done = TRUE ]
      /\ persist' = persist \o q
      /\ UNCHANGED << conn, queued, archive, calls, failed, database, budget >>
  BY <1>1 DEF VerificationPassed
<1>c. /\ UNCHANGED << resetting, restoring, discarding, saving, overtaken, records, recency >>
      /\ TypeInv
  BY <1>2 DEF calls, database, PageInv, AlwaysInv
<1>3. /\ resetting = NoReset /\ ui.phase # "restoring" /\ ~Torn
      /\ restoring = NoRestore /\ discarding = NoDiscard /\ saving = NoSave
      /\ conn = NoBinding => ui.saved = NoBinding /\ ui.active = NoBinding
      /\ u \in Uis /\ u.phase = ui.phase /\ u.mode = ui.mode /\ u.seen /\ u.handled = ui.handled
      /\ persist' \in Seq(Ops)
      /\ conn = NoBinding
           => persist' = persist /\ u.saved = ui.saved /\ u.active = ui.active /\ u.status = ui.status
      /\ conn # NoBinding
           => persist' # << >> /\ u.saved = conn /\ u.active = conn /\ u.status = "saving"
      /\ conn # NoBinding => \A i \in DOMAIN persist' :
           persist'[i].kind \in { "frame", "drop", "clear" } /\ persist'[i].b = conn
      /\ \A i \in DOMAIN persist' : ~(persist'[i].kind = "proof" /\ persist'[i].fresh)
  <2>1. PICK r : r = persist \o q
    OBVIOUS
  <2>2. WrittenBehind(q, u, r)
    BY <1>1, <1>2, <2>1, FrameBehindHash, Zenon
  <2>3. persist' = r
    BY <1>2, <2>1, Zenon
  <2> QED
    BY <2>2, <2>3 DEF WrittenBehind
<1>4. /\ acc'.purpose = acc.purpose /\ acc'.want = acc.want
      /\ acc'.b = acc.b /\ acc'.slot = acc.slot /\ acc'.done
  BY <1>2, <1>c DEF TypeInv, PageType, Accumulator
<1>6. task # NoTask /\ acc.b # NoBinding
  BY <1>2, TaskFacts DEF PageInv, AlwaysInv, SoundInv, Full
<1>7. ui.phase \notin { "archive-ready", "saving" }
  BY <1>3, <1>6 DEF PageInv, DoneInv
<1>8. /\ ui'.mode = u.mode /\ ui'.seen /\ ui'.saved = u.saved
      /\ ui'.active = u.active /\ ui'.status = u.status
      /\ ui'.phase \in { ui.phase, "finalizing" }
      /\ camera'.start = camera.start /\ (camera = NoCamera => camera' = NoCamera)
      /\ \/ /\ task' = Completing(ui.mode) /\ ui'.handled /\ ui'.phase = "finalizing"
            /\ ui.mode = "probe" => acc.purpose = "probe"
         \/ task' = NoTask
  <2>1. camera \in Cameras
    BY <1>c DEF TypeInv, PageType
  <2>2. CASE /\ task' = Completing(ui.mode) /\ (ui.mode = "probe" => acc.purpose = "probe")
             /\ ui' = [ u EXCEPT !.handled = TRUE, !.phase = "finalizing" ]
             /\ camera' = [ camera EXCEPT !.live = FALSE ]
    <3>1. /\ ui'.mode = u.mode /\ ui'.seen = u.seen /\ ui'.saved = u.saved
          /\ ui'.active = u.active /\ ui'.status = u.status
          /\ ui'.phase = "finalizing" /\ ui'.handled
      BY <1>3, <2>2 DEF Uis, Phases
    <3>2. camera'.start = camera.start
      BY <2>1, <2>2 DEF Cameras
    <3>3. ASSUME camera = NoCamera PROVE camera' = NoCamera
      <4>1. camera.live = FALSE /\ camera.start = "no" /\ camera.opened = FALSE
        BY <3>3 DEF NoCamera
      <4>2. /\ camera' \in Cameras /\ camera'.live = FALSE
            /\ camera'.start = "no" /\ camera'.opened = FALSE
        BY <2>1, <2>2, <4>1 DEF Cameras
      <4> QED
        BY <4>2 DEF Cameras, NoCamera
    <3> QED
      BY <1>3, <2>2, <3>1, <3>2, <3>3
  <2>3. CASE task' = NoTask /\ ui' = u /\ UNCHANGED camera
    BY <1>3, <2>1, <2>3
  <2> QED
    BY <1>1, <2>2, <2>3 DEF VerificationPassed
<1>9. task'.step \in { "none", "probe", "files" }
  BY <1>8, <1>c, TaskFacts, FreshValues, PageFields
<1>10. /\ task'.step = "files" => ui.mode = "files"
       /\ task'.step = "probe" => ui.mode = "probe"
       /\ task'.step # "none" => ui'.handled /\ ui'.phase = "finalizing"
  BY <1>8, <1>c, TaskFacts, PageFields
<1>12. ModeInv' /\ ResetInv' /\ OfferedInv'
  BY <1>2, <1>3, <1>4, <1>8, <1>c DEF PageInv, ModeInv, ResetInv, OfferedInv
<1>13. TaskInv'
  <2>1. task'.step = "files" => acc.purpose = "files"
    BY <1>3, <1>10 DEF PageInv, ModeInv
  <2>3. task'.step = "probe" => conn = NoBinding
    BY <1>10 DEF PageInv, ModeInv
  <2> QED
    BY <1>2, <1>3, <1>4, <1>8, <1>9, <1>10, <2>1, <2>3 DEF TaskInv
<1>14. ArchiveInv' /\ SavedInv' /\ DoneInv' /\ CoverInv'
  BY <1>2, <1>3, <1>4, <1>7, <1>8 DEF PageInv, ArchiveInv, SavedInv, DoneInv, CoverInv, Collecting
<1>p. conn = NoBinding => persist = << >>
  BY <1>2, <1>3, NothingToWrite
<1>15. QueueInv'
  BY <1>2, <1>3, <1>8, <1>c, <1>p DEF PageInv, QueueInv
<1>16. HiddenInv'
  <2>1. SUFFICES ASSUME budget.failures = MaxFailures, overtaken = "never" PROVE HiddenInv'
    BY <1>2, <1>c DEF HiddenInv
  <2>2. CASE conn # NoBinding
    BY <1>2, <1>3, <1>8, <1>c, <2>1, <2>2 DEF PageInv, HiddenInv
  <2>3. CASE conn = NoBinding
    BY <1>2, <1>3, <1>8, <1>c, <1>p, <2>1, <2>3 DEF PageInv, HiddenInv
  <2> QED
    BY <2>2, <2>3
<1>17. RestoreInv' /\ DiscardInv' /\ SavingInv'
  BY <1>3, <1>8, <1>c, CallsKept DEF PageInv
<1> QED
  BY <1>12, <1>13, <1>14, <1>15, <1>16, <1>17 DEF PageInv

LEMMA VerificationFailedKeeps ==
  ASSUME PageInv, AlwaysInv', VerificationFailed
  PROVE  PageInv'
<1>1. PICK q, u, r : q = Writes(task.frame, FALSE, FALSE) /\ u = Noted(q) /\ r = persist \o q
  OBVIOUS
<1>2. /\ task.step = "hash" /\ task' = NoTask
      /\ UNCHANGED << conn, queued, camera, archive, calls, failed, database, budget >>
  BY <1>1 DEF VerificationFailed
<1>c. /\ UNCHANGED << resetting, restoring, discarding, saving, overtaken, records, recency >>
      /\ TypeInv
  BY <1>2 DEF calls, database, PageInv, AlwaysInv
<1>3. /\ resetting = NoReset /\ ui.phase # "restoring" /\ ~Torn
      /\ restoring = NoRestore /\ discarding = NoDiscard /\ saving = NoSave
      /\ conn = NoBinding => ui.saved = NoBinding /\ ui.active = NoBinding
      /\ u \in Uis /\ u.phase = ui.phase /\ u.mode = ui.mode /\ u.seen /\ u.handled = ui.handled
      /\ r \in Seq(Ops)
      /\ \A i \in DOMAIN r : r[i].kind = "frame" /\ r[i].pos = 0 => r[i].v = "good"
      /\ conn = NoBinding
           => r = persist /\ u.saved = ui.saved /\ u.active = ui.active /\ u.status = ui.status
      /\ conn # NoBinding
           => r # << >> /\ u.saved = conn /\ u.active = conn /\ u.status = "saving"
      /\ conn # NoBinding => \A i \in DOMAIN r :
           r[i].kind \in { "frame", "drop", "clear" } /\ r[i].b = conn
      /\ \A i \in DOMAIN r : ~(r[i].kind = "proof" /\ r[i].fresh)
  <2>1. WrittenBehind(q, u, r)
    BY <1>1, <1>2, FrameBehindHash, Zenon
  <2> QED
    BY <2>1 DEF WrittenBehind
<1>4. ui.mode = "files" <=> conn # NoBinding
  BY DEF PageInv, ModeInv
<1>5. /\ task # NoTask /\ task'.step = "none"
      /\ ui.phase \notin { "archive-ready", "saving" }
  BY <1>2, <1>3, TaskFacts, FreshValues DEF PageInv, DoneInv
<1>6. ArchiveInv'
  BY <1>2 DEF PageInv, ArchiveInv
<1>7. CASE conn = NoBinding
  <2>1. u.active = NoBinding /\ acc' = ProbeAccumulator /\ persist' = r \o << >>
        /\ ui' = [ u EXCEPT !.handled = FALSE, !.status = u.status ]
    BY <1>1, <1>3, <1>4, <1>7 DEF VerificationFailed
  <2>2. persist' = persist /\ persist = << >>
    <3>1. r \o << >> = r
      BY <1>3
    <3> QED
      BY <1>2, <1>3, <1>7, <2>1, <3>1, NothingToWrite
  <2>3. /\ ui'.mode = ui.mode /\ ui'.phase = ui.phase /\ ui'.saved = ui.saved
        /\ ui'.active = ui.active
    BY <1>3, <1>7, <2>1 DEF Uis
  <2>6. ModeInv' /\ ResetInv' /\ OfferedInv'
    BY <1>2, <1>3, <1>7, <1>c, <2>1, <2>3, FreshValues DEF PageInv, ModeInv, ResetInv,
       OfferedInv
  <2>7. TaskInv'
    BY <1>3, <1>5, <1>7, <2>2 DEF TaskInv
  <2>8. SavedInv' /\ DoneInv' /\ CoverInv' /\ QueueInv'
    BY <1>2, <1>3, <1>5, <1>7, <2>2, <2>3 DEF PageInv, SavedInv, DoneInv, CoverInv, Collecting,
       QueueInv
  <2>9. HiddenInv'
    BY <1>2, <1>7, <1>c, <2>2, <2>3 DEF PageInv, HiddenInv
  <2>10. RestoreInv' /\ DiscardInv' /\ SavingInv'
    BY <1>3, <1>c, <2>3, CallsKept DEF PageInv
  <2> QED
    BY <1>6, <2>6, <2>7, <2>8, <2>9, <2>10 DEF PageInv
<1>8. CASE conn # NoBinding
  <2>0. conn \in Bindings
    BY <1>8, <1>c, PageFields DEF Keys
  <2>1. PICK o : o = Op("clear", conn, 0, "none")
    OBVIOUS
  <2>2. acc' = FilesAccumulator(conn) /\ persist' = r \o << o >>
        /\ ui' = [ u EXCEPT !.handled = FALSE, !.status = "saving" ]
    <3>1. ~Torn /\ ui.mode = "files" /\ conn # NoBinding /\ u.active = conn /\ u.active # NoBinding
      BY <1>3, <1>4, <1>8
    <3>2. acc' = FilesAccumulator(conn)
      BY <1>1, <3>1 DEF VerificationFailed
    <3>3. persist' = persist \o q \o << Op("clear", u.active, 0, "none") >>
      BY <1>1, <3>1 DEF VerificationFailed
    <3>4. ui' = [ u EXCEPT !.handled = FALSE, !.status = "saving" ]
      BY <1>1, <3>1 DEF VerificationFailed
    <3>5. persist' = r \o << o >>
      BY <1>1, <2>1, <3>1, <3>3
    <3> QED
      BY <3>2, <3>4, <3>5
  <2>3. o \in Ops /\ o.kind = "clear" /\ o.b = conn
    BY <2>0, <2>1, OpFacts, PositionFacts DEF Payload
  <2>4. /\ persist' \in Seq(Ops) /\ persist' # << >>
        /\ \A i \in DOMAIN persist' : i \in DOMAIN r \/ persist'[i] = o
        /\ \A i \in DOMAIN r : i \in DOMAIN persist' /\ persist'[i] = r[i]
    BY <1>3, <2>2, <2>3, MoreOps
  <2>5. \A i \in DOMAIN persist' :
          /\ persist'[i].kind \in { "frame", "drop", "clear" } /\ persist'[i].b = conn
          /\ ~(persist'[i].kind = "proof" /\ persist'[i].fresh)
    BY <1>3, <1>8, <2>3, <2>4
  <2>6. /\ ui'.mode = ui.mode /\ ui'.phase = ui.phase /\ ui'.saved = conn
        /\ ui'.active = conn /\ ui'.status = "saving"
    BY <1>3, <1>8, <2>2 DEF Uis
  <2>7. /\ acc'.purpose = "files" /\ acc'.want = conn
        /\ acc'.b = NoBinding /\ acc'.slot = Empty
    BY <2>0, <2>2, FilesAccumulatorFacts
  <2>9. ModeInv' /\ ResetInv' /\ OfferedInv'
    BY <1>2, <1>3, <1>8, <1>c, <2>6, <2>7 DEF PageInv, ModeInv, ResetInv, OfferedInv
  <2>10. TaskInv'
    BY <1>5, <2>5 DEF TaskInv
  <2>11. SavedInv' /\ DoneInv' /\ QueueInv'
    BY <1>2, <1>5, <1>8, <2>5, <2>6 DEF PageInv, SavedInv, DoneInv, QueueInv
  <2>12. HiddenInv'
    BY <1>2, <1>3, <1>8, <1>c, <2>6 DEF PageInv, HiddenInv
  <2>13. CoverInv'
    <3>1. ASSUME NEW p \in Positions PROVE Covered(p)'
      <4>1. "none" \in Wanted(p)'
        BY <2>7, FreshValues, PositionFacts DEF Wanted, Payload
      <4>2. PICK F : F = Wanted(p)'
        OBVIOUS
      <4>3. Touches(o, p) /\ Brings(o) \in F
        BY <2>3, <4>1, <4>2 DEF Touches, Brings
      <4>4. Ends(persist', p, F) /\ ~Untouched(persist', p)
        BY <1>3, <2>2, <2>3, <4>3, EndsWithMore
      <4>5. Ends(persist, p, Wanted(p))' /\ ~Untouched(persist, p)'
        BY <4>2, <4>4 DEF Ends, Untouched
      <4> QED
        BY <4>5 DEF Covered
    <3> QED
      BY <3>1 DEF CoverInv
  <2>14. RestoreInv' /\ DiscardInv' /\ SavingInv'
    BY <1>3, <1>c, <2>6, CallsKept DEF PageInv
  <2> QED
    BY <1>6, <2>9, <2>10, <2>11, <2>12, <2>13, <2>14 DEF PageInv
<1> QED
  BY <1>7, <1>8
-----------------------------------------------------------------------------
(* As long as nothing pending is overtaken: the writes.                    *)

LEMMA HeadFacts ==
  ASSUME PageInv, persist # << >>
  PROVE  /\ Head(persist) \in Ops /\ Head(persist) = persist[1] /\ 1 \in DOMAIN persist
         /\ Head(persist).kind = "frame" /\ Head(persist).pos = 0 => Head(persist).v = "good"
         /\ Tail(persist) \in Seq(Ops)
         /\ \A i \in DOMAIN Tail(persist) :
              i + 1 \in DOMAIN persist /\ Tail(persist)[i] = persist[i + 1]
         /\ Len(persist) \in Nat \ { 0 } /\ Len(Tail(persist)) = Len(persist) - 1
         /\ conn # NoBinding
              => Head(persist).kind \in { "frame", "drop", "clear" } /\ Head(persist).b = conn
         /\ conn = NoBinding
              => /\ Head(persist).kind \in { "proof", "undo" } /\ Tail(persist) = << >>
                 /\ Len(persist) = 1 /\ failed = {} /\ ui.saved = NoBinding
                 /\ ui.active = NoBinding
         /\ ui.phase # "restoring" /\ restoring = NoRestore /\ discarding = NoDiscard
<1>1. /\ persist \in Seq(Ops)
      /\ \A i \in DOMAIN persist :
           persist[i].kind = "frame" /\ persist[i].pos = 0 => persist[i].v = "good"
  BY DEF PageInv, AlwaysInv, TypeInv, WritesType
<1>2. /\ Tail(persist) \in Seq(Ops) /\ Len(Tail(persist)) = Len(persist) - 1
      /\ Len(persist) \in Nat \ { 0 }
      /\ Head(persist) \in Ops /\ Head(persist) = persist[1] /\ 1 \in DOMAIN persist
      /\ DOMAIN Tail(persist) = 1 .. Len(persist) - 1
      /\ \A i \in 1 .. Len(persist) - 1 :
           Tail(persist)[i] = persist[i + 1] /\ i + 1 \in DOMAIN persist
  BY <1>1, OneLess
<1>3. conn # NoBinding => persist[1].kind \in { "frame", "drop", "clear" } /\ persist[1].b = conn
  BY <1>2 DEF PageInv, QueueInv
<1>4. conn = NoBinding => /\ persist[1].kind \in { "proof", "undo" } /\ Len(persist) <= 1
                          /\ failed = {} /\ ui.saved = NoBinding /\ ui.active = NoBinding
  BY <1>2 DEF PageInv, QueueInv, OfferedInv
<1>5. conn = NoBinding => Len(persist) = 1 /\ Tail(persist) = << >>
  BY <1>2, <1>4
<1>6. ui.phase # "restoring" /\ restoring = NoRestore /\ discarding = NoDiscard
  BY Busy
<1> QED
  BY <1>1, <1>2, <1>3, <1>4, <1>5, <1>6

LEMMA PoppedFacts ==
  ASSUME PageInv, persist # << >>, Popped
  PROVE  /\ persist' = Tail(persist)
         /\ resetting' \in [ key : Keys, left : Int ] /\ resetting'.key = resetting.key
         /\ resetting' = NoReset <=> resetting = NoReset
         /\ resetting # NoReset => resetting'.left = Len(persist')
         /\ resetting = NoReset => resetting' = resetting
         /\ UNCHANGED << restoring, discarding, saving, overtaken >>
<1>0. UNCHANGED << restoring, discarding, saving, overtaken >>
  BY DEF Popped
<1>1. /\ persist' = Tail(persist) /\ Len(persist) \in Nat \ { 0 }
      /\ Len(Tail(persist)) = Len(persist) - 1 /\ resetting \in [ key : Keys, left : Int ]
  BY HeadFacts DEF Popped, PageInv, AlwaysInv, TypeInv, PageType
<1>2. CASE resetting = NoReset
  BY <1>0, <1>1, <1>2, FreshValues DEF Popped
<1>3. CASE resetting # NoReset
  <2>1. resetting.left = Len(persist)
    BY <1>3 DEF PageInv, ResetInv
  <2>a. resetting.left \in Nat \ { 0 }
    BY <1>1, <2>1
  <2>2. PICK n \in Nat : n = resetting.left - 1
    BY <2>a
  <2>3. resetting' = [ resetting EXCEPT !.left = n ]
    BY <1>1, <2>1, <2>2 DEF Popped
  <2>4. /\ resetting' \in [ key : Keys, left : Int ] /\ resetting'.key = resetting.key
        /\ resetting'.left = n
    BY <1>1, <2>3
  <2>5. resetting' # NoReset
    BY <2>4, FreshValues
  <2> QED
    BY <1>0, <1>1, <1>3, <2>1, <2>2, <2>4, <2>5
<1> QED
  BY <1>2, <1>3

LEMMA PoppedKeeps ==
  ASSUME PageInv, persist # << >>, Popped, UNCHANGED << conn, acc, task, queued, camera, archive >>,
         ui'.phase = ui.phase, ui'.mode = ui.mode, ui'.seen = ui.seen, ui'.handled = ui.handled,
         conn = NoBinding => ui'.saved = ui.saved /\ ui'.active = ui.active,
         conn = NoBinding => failed' = {}
  PROVE  /\ ModeInv' /\ ResetInv' /\ RestoreInv' /\ DiscardInv' /\ SavingInv' /\ TaskInv'
         /\ OfferedInv' /\ ArchiveInv' /\ QueueInv' /\ DoneInv'
<1>1. /\ persist' = Tail(persist) /\ persist' \in Seq(Ops)
      /\ \A i \in DOMAIN persist' : i + 1 \in DOMAIN persist /\ persist'[i] = persist[i + 1]
      /\ Len(persist) \in Nat \ { 0 } /\ Len(persist') = Len(persist) - 1
      /\ conn = NoBinding => persist' = << >> /\ ui.saved = NoBinding
                             /\ Len(persist') = 0 /\ ui.active = NoBinding
      /\ ui.phase # "restoring" /\ restoring = NoRestore /\ discarding = NoDiscard
  BY HeadFacts, PoppedFacts
<1>2. /\ resetting'.key = resetting.key /\ (resetting' = NoReset <=> resetting = NoReset)
      /\ resetting # NoReset => resetting'.left = Len(persist')
      /\ UNCHANGED << restoring, discarding, saving, overtaken >>
  BY PoppedFacts
<1>3. ModeInv'
  BY <1>2 DEF PageInv, ModeInv
<1>4. ResetInv'
  BY <1>1, <1>2 DEF PageInv, ResetInv
<1>5. RestoreInv' /\ DiscardInv' /\ SavingInv'
  BY <1>1, <1>2, CallsKept DEF PageInv, SavingInv
<1>6. TaskInv'
  BY <1>1 DEF PageInv, TaskInv
<1>7. ArchiveInv' /\ DoneInv' /\ OfferedInv'
  BY <1>1, <1>2 DEF PageInv, ArchiveInv, DoneInv, OfferedInv
<1>8. QueueInv'
  <2>1. conn = NoBinding => DOMAIN persist' = {}
    BY <1>1
  <2> QED
    BY <1>1, <1>2, <2>1 DEF PageInv, QueueInv
<1> QED
  BY <1>3, <1>4, <1>5, <1>6, <1>7, <1>8

LEMMA CoverLess ==
  ASSUME PageInv, persist # << >>, NEW o, o = Head(persist), persist' = Tail(persist),
         UNCHANGED << conn, acc >>, o.kind \in { "frame", "drop", "clear" },
         budget'.failures <= budget.failures, budget.failures \in Int,
         NEW p \in Positions, Covered(p), MaxFailures \in Int,
         p \notin failed' => p \notin failed \/ Touches(o, p),
         p \notin failed' /\ Touches(o, p)
           => records'[conn].at[p] = Brings(o)
              \/ (Brings(o) = "none" /\ budget'.failures < MaxFailures),
         budget'.failures \in Int,
         p \notin failed' /\ ~Touches(o, p) => records'[conn].at[p] = records[conn].at[p]
  PROVE  Covered(p)'
<1> DEFINE F == Wanted(p)
<1>1. Wanted(p)' = F
  BY DEF Wanted
<1> HIDE DEF F
<1>2. persist \in Seq(Ops)
  BY DEF PageInv, AlwaysInv, TypeInv, WritesType
<1>3. /\ Ends(persist, p, F)
      /\ Untouched(persist, p) /\ p \notin failed =>
           \/ records[conn].at[p] \in F
           \/ "none" \in F /\ budget.failures < MaxFailures
  BY DEF Covered, F
<1>4. /\ Ends(persist', p, F)
      /\ Untouched(persist', p) => Untouched(persist, p) \/ (Brings(o) \in F /\ Touches(o, p))
  BY <1>2, <1>3, EndsWithLess
<1>5. Untouched(persist, p) => ~Touches(o, p)
  <2>1. 1 \in DOMAIN persist /\ o = persist[1]
    BY <1>2, OneLess
  <2> QED
    BY <2>1 DEF Untouched
<1>6. Untouched(persist', p) /\ p \notin failed' =>
        \/ records'[conn'].at[p] \in F
        \/ "none" \in F /\ budget'.failures < MaxFailures
  BY <1>3, <1>4, <1>5
<1>7. Ends(persist, p, Wanted(p))' /\ (Untouched(persist, p)' <=> Untouched(persist', p))
  BY <1>1, <1>4 DEF Ends, Untouched
<1> QED
  BY <1>1, <1>6, <1>7 DEF Covered

LEMMA WriteCommitsKeeps ==
  ASSUME PageInv, AlwaysInv', WriteCommits
  PROVE  PageInv'
<1>1. PICK o, rest : o = Head(persist) /\ rest = Tail(persist)
  OBVIOUS
<1>2. /\ persist # << >> /\ o.kind # "proof" /\ records' = Stored(o) /\ recency' = StoredAt(o)
      /\ Popped /\ UNCHANGED << conn, acc, task, queued, camera, archive, budget >>
      /\ pend' = IF o.kind = "clear" THEN Zero ELSE Settled(o)
      /\ failed' = IF o.kind = "clear" THEN {}
                   ELSE IF o.kind \in { "frame", "drop" } THEN failed \ { o.pos } ELSE failed
  BY <1>1 DEF WriteCommits
<1>3. /\ o \in Ops /\ o = persist[1] /\ 1 \in DOMAIN persist
      /\ o.kind = "frame" /\ o.pos = 0 => o.v = "good"
      /\ rest \in Seq(Ops)
      /\ \A i \in DOMAIN rest : i + 1 \in DOMAIN persist /\ rest[i] = persist[i + 1]
      /\ conn # NoBinding => o.kind \in { "frame", "drop", "clear" } /\ o.b = conn
      /\ conn = NoBinding => /\ o.kind \in { "proof", "undo" } /\ rest = << >>
                             /\ failed = {} /\ ui.saved = NoBinding /\ ui.active = NoBinding
  BY <1>1, <1>2, HeadFacts
<1>4. /\ persist' = rest /\ resetting'.key = resetting.key
      /\ resetting' = NoReset <=> resetting = NoReset
      /\ UNCHANGED << restoring, discarding, saving, overtaken >> /\ discarding = NoDiscard
  BY <1>1, <1>2, PoppedFacts, HeadFacts
<1>5. /\ DiskType'
      /\ \A p \in Positions : Touches(o, p) => records'[o.b].at[p] = Brings(o)
      /\ \A p \in Positions :
           o.kind \in { "frame", "drop" } /\ ~Touches(o, p)
             => records'[o.b].at[p] = records[o.b].at[p]
      /\ recency = << >> \/ recency = << o.b >> =>
           /\ o.kind \in { "frame", "clear", "proof" } => recency' = << o.b >>
           /\ o.kind = "drop" => recency' = recency
           /\ o.kind \in { "delete", "undo" } => recency' = << >>
  BY <1>2, <1>3, StoredFacts DEF PageInv, AlwaysInv, TypeInv
<1>6. WritesType /\ ui \in Uis /\ conn \in Keys /\ o.b \in Bindings
  BY <1>3, OpsFacts DEF PageInv, AlwaysInv, TypeInv, PageType
<1>8. conn = NoBinding => failed' = {}
  BY <1>2, <1>3
<1>9. /\ ui' \in Uis /\ ui'.phase = ui.phase /\ ui'.mode = ui.mode /\ ui'.seen = ui.seen
      /\ ui'.handled = ui.handled
      /\ \/ ui'.saved = ui.saved /\ ui'.active = ui.active
         \/ conn # NoBinding /\ ui'.saved = conn /\ ui'.active = conn
      /\ ui'.status = "saved" => ui.status = "saved" \/ (failed' = {} /\ ~Pending(rest))
  <2>1. CASE ~o.fresh
    <3>1. ui' = ui
      BY <1>1, <2>1 DEF WriteCommits
    <3> QED
      BY <1>6, <3>1
  <2>2. CASE o.fresh /\ o.kind = "clear"
    <3>1. PICK s \in { "none", "saving", "saved", "error" } :
            s = Status(rest, {}) /\ (s = "saved" => ~Pending(rest))
      BY StatusFacts
    <3>2. o.kind # "delete" /\ failed' = {} /\ conn # NoBinding /\ o.b = conn
      BY <1>2, <1>3, <2>2
    <3>3. ui' = [ ui EXCEPT !.active = o.b, !.saved = o.b, !.status = Status(rest, {}) ]
      BY <1>1, <2>2, <3>2 DEF WriteCommits
    <3>4. ui' = [ ui EXCEPT !.active = conn, !.saved = conn, !.status = s ]
      BY <3>1, <3>2, <3>3
    <3> QED
      BY <1>6, <3>1, <3>2, <3>4 DEF Uis
  <2>3. CASE o.fresh /\ o.kind # "clear"
    <3>1. PICK s \in { "none", "saving", "saved", "error" } :
            s = Status(rest, failed') /\ (s = "saved" => failed' = {} /\ ~Pending(rest))
      BY StatusFacts
    <3>2. o.kind # "delete"
      BY <1>3
    <3>3. ui' = [ ui EXCEPT !.status = Status(rest, failed') ]
      BY <1>1, <2>3, <3>2 DEF WriteCommits
    <3>4. ui' = [ ui EXCEPT !.status = s ]
      BY <3>1, <3>3
    <3> QED
      BY <1>6, <3>1, <3>4 DEF Uis
  <2> QED
    BY <2>1, <2>2, <2>3
<1>10. /\ ModeInv' /\ ResetInv' /\ RestoreInv' /\ DiscardInv' /\ SavingInv' /\ TaskInv'
       /\ OfferedInv' /\ ArchiveInv' /\ QueueInv' /\ DoneInv'
  BY <1>2, <1>8, <1>9, PoppedKeeps
<1>12. SavedInv'
  <2>1. ASSUME conn # NoBinding, ui'.status = "saved" PROVE persist' = << >> /\ failed' = {}
    <3>1. ui.status # "saved"
      BY <1>2, <2>1 DEF PageInv, SavedInv
    <3>2. failed' = {} /\ ~Pending(rest)
      BY <1>9, <2>1, <3>1
    <3>3. \A i \in DOMAIN rest : rest[i].kind \in { "frame", "drop", "clear" }
      BY <1>3, <2>1 DEF PageInv, QueueInv
    <3>4. DOMAIN rest = {}
      BY <3>2, <3>3 DEF Pending
    <3>5. rest = << >>
      BY <1>3, <3>4
    <3> QED
      BY <1>4, <3>2, <3>5
  <2> QED
    BY <1>2, <2>1 DEF SavedInv
<1>13. CoverInv'
  <2>1. ASSUME Collecting' PROVE Collecting /\ conn # NoBinding
    BY <1>2, <1>4, <2>1 DEF Collecting
  <2>2. ASSUME Collecting, NEW p \in Positions PROVE Covered(p)'
    <3>1. Covered(p) /\ conn # NoBinding
      BY <2>2 DEF PageInv, CoverInv, Collecting
    <3>2. o.kind \in { "frame", "drop", "clear" } /\ o.b = conn
      BY <1>3, <3>1
    <3>3. p \notin failed' => p \notin failed \/ Touches(o, p)
      BY <1>2, <3>2 DEF Touches
    <3>4. Touches(o, p) => records'[conn].at[p] = Brings(o)
      BY <1>5, <3>2
    <3>5. ~Touches(o, p) => records'[conn].at[p] = records[conn].at[p]
      BY <1>5, <3>2 DEF Touches
    <3>6. budget'.failures <= budget.failures /\ budget.failures \in Int /\ budget'.failures \in Int
          /\ MaxFailures \in Int
      BY <1>2, BudgetFields, Bounds DEF PageInv, AlwaysInv, TypeInv
    <3>7. persist' = Tail(persist)
      BY <1>1, <1>4
    <3> QED
      BY <1>1, <1>2, <3>1, <3>2, <3>3, <3>4, <3>5, <3>6, <3>7, CoverLess
  <2> QED
    BY <2>1, <2>2 DEF CoverInv
<1>14. HiddenInv'
  <2>1. SUFFICES ASSUME budget.failures = MaxFailures, overtaken = "never" PROVE HiddenInv'
    BY <1>2, <1>4 DEF HiddenInv
  <2>2. CASE conn # NoBinding
    <3>1. /\ o.kind \in { "frame", "drop", "clear" } /\ o.b = conn
          /\ recency = << >> \/ recency = << conn >>
          /\ ui.active = conn /\ (resetting # NoReset => resetting.key = conn)
          /\ saving # NoSave => saving.key = conn
      BY <1>2, <1>3, <2>1, <2>2 DEF PageInv, HiddenInv
    <3>2. recency' = << >> \/ recency' = << conn >>
      BY <1>5, <3>1
    <3> QED
      BY <1>2, <1>4, <1>9, <2>2, <3>1, <3>2 DEF HiddenInv
  <2>3. CASE conn = NoBinding
    <3>1. o.kind = "undo" /\ ui.saved = NoBinding /\ recency = << o.b >>
      BY <1>2, <1>3, <2>1, <2>3 DEF PageInv, HiddenInv
    <3>2. recency' = << >> /\ persist' = << >> /\ ui'.saved = NoBinding
      BY <1>3, <1>4, <1>5, <1>9, <2>3, <3>1
    <3>3. DOMAIN persist' = {}
      BY <3>2
    <3> QED
      BY <1>2, <2>3, <3>2, <3>3 DEF HiddenInv
  <2> QED
    BY <2>2, <2>3
<1> QED
  BY <1>10, <1>12, <1>13, <1>14 DEF PageInv

LEMMA WriteFailsKeeps ==
  ASSUME PageInv, AlwaysInv', WriteFails
  PROVE  PageInv'
<1>1. PICK o : o = Head(persist)
  OBVIOUS
<1>2. /\ persist # << >> /\ o.kind # "proof" /\ Popped
      /\ UNCHANGED << conn, acc, task, queued, camera, archive, database >>
      /\ pend' = Settled(o)
      /\ failed' = IF o.kind \in { "frame", "drop" } THEN failed \cup { o.pos } ELSE failed
      /\ ui' = IF o.fresh THEN [ ui EXCEPT !.status = "error" ] ELSE ui
  BY <1>1 DEF WriteFails
<1>3. /\ o \in Ops
      /\ conn # NoBinding => o.kind \in { "frame", "drop", "clear" } /\ o.b = conn
      /\ conn = NoBinding => o.kind \in { "proof", "undo" } /\ failed = {}
  BY <1>1, <1>2, HeadFacts
<1>4. /\ persist' = Tail(persist) /\ (resetting' = NoReset <=> resetting = NoReset)
  BY <1>2, PoppedFacts
<1>5. budget'.failures < MaxFailures
  BY SpentFailure DEF WriteFails, PageInv, AlwaysInv, TypeInv
<1>6. WritesType /\ ui \in Uis /\ o.pos \in Positions
  BY <1>3, OpsFacts DEF PageInv, AlwaysInv, TypeInv, PageType
<1>8. conn = NoBinding => failed' = {}
  BY <1>2, <1>3
<1>9. /\ ui' \in Uis /\ ui'.phase = ui.phase /\ ui'.mode = ui.mode /\ ui'.seen = ui.seen
      /\ ui'.handled = ui.handled /\ ui'.saved = ui.saved /\ ui'.active = ui.active
      /\ ui'.status = "saved" => ui.status = "saved"
  <2>1. CASE o.fresh
    BY <1>2, <1>6, <2>1 DEF Uis
  <2>2. CASE ~o.fresh
    BY <1>2, <1>6, <2>2
  <2> QED
    BY <2>1, <2>2
<1>10. /\ ModeInv' /\ ResetInv' /\ RestoreInv' /\ DiscardInv' /\ SavingInv' /\ TaskInv'
       /\ OfferedInv' /\ ArchiveInv' /\ QueueInv' /\ DoneInv'
  BY <1>2, <1>8, <1>9, PoppedKeeps
<1>12. SavedInv'
  BY <1>2, <1>9 DEF PageInv, SavedInv
<1>13. CoverInv'
  <2>1. ASSUME Collecting' PROVE Collecting /\ conn # NoBinding
    BY <1>2, <1>4, <2>1 DEF Collecting
  <2>2. ASSUME Collecting, NEW p \in Positions PROVE Covered(p)'
    <3>1. Covered(p) /\ conn # NoBinding
      BY <2>2 DEF PageInv, CoverInv, Collecting
    <3>2. o.kind \in { "frame", "drop", "clear" }
      BY <1>3, <3>1
    <3>3. p \notin failed' => p \notin failed
      BY <1>2
    <3>4. p \notin failed' /\ Touches(o, p) => Brings(o) = "none"
      BY <1>2, <3>2 DEF Touches, Brings
    <3>5. records' = records
      BY <1>2 DEF database
    <3>6. budget'.failures <= budget.failures /\ budget.failures \in Int /\ budget'.failures \in Int
          /\ MaxFailures \in Int
      <4>1. budget.failures \in 0 .. MaxFailures /\ budget'.failures \in 0 .. MaxFailures
        BY <1>5 DEF BudgetType, PageInv, AlwaysInv, TypeInv
      <4>2. budget' = [ budget EXCEPT !.failures = @ - 1 ]
        BY DEF WriteFails
      <4>3. budget'.failures = budget.failures - 1
        BY <4>2 DEF BudgetType, PageInv, AlwaysInv, TypeInv
      <4> QED
        BY <4>1, <4>3, Bounds
    <3> QED
      BY <1>1, <1>2, <1>4, <1>5, <3>1, <3>2, <3>3, <3>4, <3>5, <3>6, CoverLess
  <2> QED
    BY <2>1, <2>2 DEF CoverInv
<1>14. HiddenInv'
  BY <1>5, Bounds DEF HiddenInv, BudgetType
<1> QED
  BY <1>10, <1>12, <1>13, <1>14 DEF PageInv
-----------------------------------------------------------------------------
(* As long as nothing pending is overtaken: the proof of a connection test. *)

LEMMA ProofHead ==
  ASSUME PageInv, persist # << >>, NEW o, o = Head(persist), o.kind = "proof"
  PROVE  /\ o \in Ops /\ o.b \in Bindings /\ o.b # NoBinding /\ conn = NoBinding
         /\ Tail(persist) = << >> /\ Len(persist) = 1 /\ failed = {}
         /\ ui.saved = NoBinding /\ ui.active = NoBinding /\ archive = NoArchive
         /\ restoring = NoRestore /\ discarding = NoDiscard /\ saving = NoSave
         /\ o.fresh \in BOOLEAN
         /\ o.fresh => task.step = "proof" /\ resetting = NoReset /\ camera = NoCamera
         /\ budget.failures = MaxFailures /\ overtaken = "never" => recency = << >>
<1>1. /\ o \in Ops /\ o = persist[1] /\ 1 \in DOMAIN persist
      /\ conn # NoBinding => o.kind \in { "frame", "drop", "clear" }
      /\ conn = NoBinding
              => /\ Tail(persist) = << >> /\ Len(persist) = 1 /\ failed = {}
                 /\ ui.saved = NoBinding /\ ui.active = NoBinding
      /\ restoring = NoRestore /\ discarding = NoDiscard
  BY HeadFacts
<1>2. conn = NoBinding
  BY <1>1
<1>3. archive = NoArchive /\ saving = NoSave
  BY <1>2 DEF PageInv, ArchiveInv, SavingInv
<1>4. ASSUME o.fresh PROVE task.step = "proof" /\ resetting = NoReset /\ camera = NoCamera
  <2>1. task.step = "proof"
    BY <1>1, <1>4 DEF PageInv, TaskInv
  <2> QED
    BY <2>1, TasksNotReset DEF PageInv, TaskInv
<1>5. budget.failures = MaxFailures /\ overtaken = "never" => recency = << >>
  BY <1>1, <1>2 DEF PageInv, HiddenInv
<1> QED
  BY <1>1, <1>2, <1>3, <1>4, <1>5, OpsFacts, Bounds

\* The page shows the connection.
LEMMA PublishKeeps ==
  ASSUME PageInv, AlwaysInv', conn = NoBinding, archive = NoArchive, failed = {}, resetting = NoReset,
         camera = NoCamera, NEW b \in Bindings, NEW stored \in BOOLEAN, Publish(b, stored),
         persist' = << >>, restoring = NoRestore, discarding = NoDiscard, saving = NoSave,
         UNCHANGED << restoring, discarding, saving >>,
         UNCHANGED << camera, archive, pend, failed, resetting >>,
         \A p \in Positions : records'[b].at[p] = "none" \/ budget'.failures < MaxFailures,
         budget'.failures = MaxFailures /\ overtaken' = "never" => stored /\ recency' = << b >>
  PROVE  PageInv'
<1>1. /\ conn' = b /\ acc' = FilesAccumulator(b) /\ task' = NoTask /\ queued' = << >>
      /\ conn' \in Bindings /\ conn' \in Keys /\ conn' # NoBinding
  BY Bounds DEF Publish, Keys
<1>2. PICK s \in { "saved", "error" }, k \in Keys :
        /\ s = (IF stored THEN "saved" ELSE "error") /\ k = (IF stored THEN b ELSE NoBinding)
  BY DEF Keys
<1>3. ui' = [ ui EXCEPT !.mode = "files", !.handled = FALSE, !.seen = FALSE, !.proof = NoBinding,
                !.phase = "test-verified", !.status = s, !.saved = k, !.active = k ]
  BY <1>2 DEF Publish
<1>4. /\ ui'.mode = "files" /\ ui'.phase = "test-verified" /\ ui'.active = k /\ ui'.saved = k
  BY <1>3 DEF PageInv, AlwaysInv, TypeInv, PageType, Uis
<1>5. /\ acc' \in Accumulator /\ acc'.purpose = "files" /\ acc'.want = b
      /\ acc'.b = NoBinding /\ acc'.slot = Empty
  BY <1>1, FilesAccumulatorFacts
<1>6. DOMAIN persist' = {} /\ persist' \in Seq(Ops)
  <2>1. << >> \in Seq(Ops) /\ DOMAIN << >> = {}
    OBVIOUS
  <2> QED
    BY <2>1
<1>7. NoTask.step = "none" /\ NoCamera.start = "no" /\ ~NoCamera.opened
  BY TaskFacts DEF NoCamera
<1>9. RestoreInv' /\ DiscardInv' /\ SavingInv'
  BY <1>4, CallsKept DEF PageInv
<1>10. ModeInv' /\ ResetInv' /\ TaskInv' /\ OfferedInv'
  BY <1>1, <1>4, <1>5, <1>6, <1>7 DEF ModeInv, ResetInv, TaskInv, OfferedInv
<1>11. ArchiveInv' /\ SavedInv' /\ DoneInv' /\ QueueInv'
  BY <1>1, <1>4, <1>6 DEF ArchiveInv, SavedInv, DoneInv, QueueInv
<1>12. CoverInv'
  <2>1. ASSUME NEW p \in Positions PROVE Covered(p)'
    <3>1. "none" \in Wanted(p)'
      BY <1>5, FreshValues, PositionFacts DEF Wanted, Payload
    <3>2. Ends(persist, p, Wanted(p))'
      BY <1>6 DEF Ends
    <3> QED
      BY <1>1, <3>1, <3>2 DEF Covered
  <2> QED
    BY <2>1 DEF CoverInv
<1>13. HiddenInv'
  BY <1>1, <1>2, <1>4 DEF HiddenInv
<1> QED
  BY <1>9, <1>10, <1>11, <1>12, <1>13 DEF PageInv

LEMMA ProofCommitsKeeps ==
  ASSUME PageInv, AlwaysInv', ProofCommits
  PROVE  PageInv'
<1>1. PICK o : o = Head(persist)
  OBVIOUS
<1>2. /\ persist # << >> /\ o.kind = "proof" /\ records' = Stored(o) /\ recency' = StoredAt(o)
      /\ UNCHANGED << camera, archive, pend, failed, budget >>
  BY <1>1 DEF ProofCommits
<1>3. /\ o \in Ops /\ o.b \in Bindings /\ o.b # NoBinding /\ conn = NoBinding
      /\ Tail(persist) = << >> /\ Len(persist) = 1 /\ failed = {}
      /\ ui.saved = NoBinding /\ ui.active = NoBinding /\ archive = NoArchive
      /\ restoring = NoRestore /\ discarding = NoDiscard /\ saving = NoSave
      /\ o.fresh \in BOOLEAN
      /\ o.fresh => task.step = "proof" /\ resetting = NoReset /\ camera = NoCamera
      /\ budget.failures = MaxFailures /\ overtaken = "never" => recency = << >>
  BY <1>1, <1>2, ProofHead
<1>4. /\ (\A p \in Positions : records'[o.b].at[p] = "none")
      /\ recency = << >> => recency' = << o.b >>
  BY <1>2, <1>3, StoredFacts DEF PageInv, AlwaysInv, TypeInv
<1>5. budget'.failures = budget.failures
  BY <1>2 DEF PageInv, AlwaysInv, TypeInv, BudgetType
<1>6. CASE o.fresh
  <2>1. Popped /\ Publish(o.b, TRUE)
    BY <1>1, <1>6 DEF ProofCommits
  <2>2. persist' = << >> /\ UNCHANGED << resetting, restoring, discarding, saving, overtaken >>
    BY <1>2, <1>3, <1>6, <2>1, PoppedFacts
  <2> QED
    BY <1>2, <1>3, <1>4, <1>5, <1>6, <2>1, <2>2, PublishKeeps
<1>7. CASE ~o.fresh
  <2>0. PICK u : u = [ o EXCEPT !.kind = "undo" ]
    OBVIOUS
  <2>1. u \in Ops /\ u.kind = "undo" /\ u.b = o.b /\ ~u.fresh
    BY <1>3, <1>7, <2>0 DEF Ops
  <2>2. /\ persist' = << u >> \o << >>
        /\ UNCHANGED << ui, conn, acc, task, queued, resetting, restoring, discarding, saving, overtaken >>
    BY <1>1, <1>3, <1>7, <2>0 DEF ProofCommits, calls
  <2>3. /\ persist' \in Seq(Ops) /\ DOMAIN persist' = { 1 } /\ persist'[1] = u /\ Len(persist') = 1
        /\ persist' # << >>
    <3>1. u \in Ops
      BY <2>1
    <3>2. << u >> \o << >> = << u >>
      BY <3>1
    <3>3. persist' = << u >>
      BY <2>2, <3>2
    <3> QED
      BY <3>1, <3>3
  <2>4. RestoreInv' /\ DiscardInv' /\ SavingInv'
    <3>1. ui'.phase # "restoring"
      BY <1>3, <2>2 DEF PageInv, RestoreInv
    <3> QED
      BY <1>3, <2>2, <3>1, CallsKept DEF PageInv
  <2>5. ModeInv' /\ ResetInv' /\ OfferedInv'
    BY <1>2, <1>3, <2>1, <2>2, <2>3 DEF PageInv, ModeInv, ResetInv, OfferedInv
  <2>6. TaskInv'
    BY <1>2, <1>3, <2>1, <2>2, <2>3 DEF PageInv, TaskInv
  <2>7. ArchiveInv' /\ SavedInv' /\ DoneInv' /\ CoverInv'
    BY <1>2, <1>3, <2>2 DEF PageInv, ArchiveInv, SavedInv, DoneInv, CoverInv, Collecting
  <2>8. QueueInv'
    BY <1>2, <1>3, <2>1, <2>2, <2>3 DEF PageInv, QueueInv
  <2>9. HiddenInv'
    <3>1. SUFFICES ASSUME budget'.failures = MaxFailures, overtaken' = "never" PROVE HiddenInv'
      BY DEF HiddenInv
    <3>2. recency' = << o.b >>
      BY <1>3, <1>4, <1>5, <2>2, <3>1
    <3>3. recency' = << u.b >>
      BY <2>1, <3>2
    <3>4. conn' = NoBinding /\ ui'.saved = NoBinding
      BY <1>3, <2>2
    <3>5. ASSUME NEW i \in DOMAIN persist'
          PROVE  ui'.saved = NoBinding /\ persist'[i].kind # "proof" /\ recency' = << persist'[i].b >>
      BY <2>1, <2>3, <3>3, <3>4
    <3> QED
      BY <2>3, <3>4, <3>5 DEF HiddenInv
  <2> QED
    BY <2>4, <2>5, <2>6, <2>7, <2>8, <2>9 DEF PageInv
<1> QED
  BY <1>3, <1>6, <1>7

LEMMA ProofFailsKeeps ==
  ASSUME PageInv, AlwaysInv', ProofFails
  PROVE  PageInv'
<1>1. PICK o : o = Head(persist)
  OBVIOUS
<1>2. /\ persist # << >> /\ o.kind = "proof" /\ Popped
      /\ UNCHANGED << camera, archive, pend, failed, database >>
  BY <1>1 DEF ProofFails
<1>3. /\ o \in Ops /\ o.b \in Bindings /\ o.b # NoBinding /\ conn = NoBinding
      /\ Tail(persist) = << >> /\ failed = {} /\ archive = NoArchive
      /\ restoring = NoRestore /\ discarding = NoDiscard /\ saving = NoSave
      /\ o.fresh => task.step = "proof" /\ resetting = NoReset /\ camera = NoCamera
  BY <1>1, <1>2, ProofHead
<1>4. budget'.failures < MaxFailures /\ budget'.failures # MaxFailures
  <2>1. budget'.failures < MaxFailures
    BY SpentFailure DEF ProofFails, PageInv, AlwaysInv, TypeInv
  <2> QED
    BY <2>1, Bounds DEF BudgetType
<1>6. persist' = << >> /\ (resetting = NoReset => resetting' = resetting)
      /\ (resetting' = NoReset <=> resetting = NoReset)
      /\ UNCHANGED << restoring, discarding, saving, overtaken >>
  BY <1>2, <1>3, PoppedFacts
<1>7. CASE o.fresh
  <2>1. Publish(o.b, FALSE)
    BY <1>1, <1>7 DEF ProofFails
  <2> QED
    BY <1>2, <1>3, <1>4, <1>6, <1>7, <2>1, PublishKeeps
<1>8. CASE ~o.fresh
  <2>1. UNCHANGED << ui, conn, acc, task, queued >>
    BY <1>1, <1>8 DEF ProofFails
  <2>3. /\ ModeInv' /\ ResetInv' /\ RestoreInv' /\ DiscardInv' /\ SavingInv' /\ TaskInv'
        /\ OfferedInv' /\ ArchiveInv' /\ QueueInv' /\ DoneInv'
    BY <1>2, <1>3, <2>1, PoppedKeeps
  <2>4. SavedInv' /\ CoverInv'
    BY <1>3, <2>1 DEF SavedInv, CoverInv, Collecting
  <2>5. HiddenInv'
    BY <1>4 DEF HiddenInv
  <2> QED
    BY <2>3, <2>4, <2>5 DEF PageInv
<1> QED
  BY <1>7, <1>8
-----------------------------------------------------------------------------
(* The invariant: part of it always holds, the rest until the user goes on  *)
(* while a reset, a restore, a discard or a save is pending.                *)

FullInv == AlwaysInv /\ (overtaken # "now" => PageInv)

\* Only a reload ends that.
LEMMA NowStays ==
  ASSUME ReceiverNext, ~Reload, overtaken = "now"
  PROVE  overtaken' = "now"
<1>1. ASSUME UserActs PROVE overtaken' = "now"
  BY <1>1 DEF UserActs
<1>2. CASE \E f \in Frames : Scan(f)
  BY <1>2 DEF Scan, calls
<1>3. CASE Page
  BY <1>3 DEF Page, IngestQueued, VerificationFailed, VerificationPassed, FinishFilesTransfer,
     FinishConnectionTest, WriteCommits, ProofCommits, Popped, CameraOpens, CameraReady,
     FinishReset, LoadFrames, ReplayFrames, DeleteDiscarded, ListRemaining, calls
<1>4. CASE Mishap
  BY <1>4 DEF Mishap, RefuseConnectionTest, WriteFails, ProofFails, Popped, CameraFails,
     LoadFails, DiscardFails, calls
<1>5. CASE User
  BY <1>1, <1>5 DEF User, StartConnectionTest, ResumeScanning, PauseScanner, ResetReceiver,
     RestoreSavedCheckpoint, DiscardSavedCheckpoint, SaveArchive, SaveRefused, SaveVerified
<1> QED
  BY <1>2, <1>3, <1>4, <1>5 DEF ReceiverNext

LEMMA PageInit ==
  ASSUME ReceiverInit
  PROVE  PageInv
<1>1. /\ ui = FreshUi /\ conn = NoBinding /\ acc = ProbeAccumulator /\ task = NoTask
      /\ queued = << >> /\ camera = NoCamera /\ archive = NoArchive /\ resetting = NoReset
      /\ restoring = NoRestore /\ discarding = NoDiscard /\ saving = NoSave /\ overtaken = "never"
      /\ persist = << >> /\ pend = Zero /\ failed = {}
      /\ records = [ b \in Bindings |-> NoRecord ] /\ recency = << >>
      /\ budget = [ acts |-> MaxActs, bad |-> MaxBad, failures |-> MaxFailures ]
  BY DEF ReceiverInit
<1>2. NoTask.step = "none" /\ FreshUi.mode = "probe" /\ FreshUi.phase = "idle"
      /\ FreshUi.saved = NoBinding /\ FreshUi.active = NoBinding /\ FreshUi.status = "none"
  BY DEF NoTask, FreshUi
<1>3. /\ persist \in Seq(Ops) /\ DOMAIN persist = {} /\ recency \in Seq(Bindings)
      /\ DOMAIN recency = {} /\ Len(persist) = 0
  <2>1. << >> \in Seq(Ops) /\ << >> \in Seq(Bindings) /\ DOMAIN << >> = {} /\ Len(<< >>) = 0
    OBVIOUS
  <2> QED
    BY <1>1, <2>1
<1>4. PageType
  BY <1>1, FreshValues DEF PageType, Keys
<1>5. CallsType
  <2>1. NoFrames \in [ Positions -> Payload ]
    BY DEF NoFrames, Payload
  <2> QED
    BY <1>1, <2>1 DEF CallsType, Restores, NoRestore, NoDiscard, NoSave, Keys
<1>6. WritesType
  BY <1>1, <1>3, FreshValues DEF WritesType
<1>7. DiskType
  <2>1. NoRecord \in [ kept : BOOLEAN, at : [ Positions -> Payload ] ] /\ ~NoRecord.kept
    BY DEF NoRecord, NoFrames, Payload
  <2>2. NoRecord.at[0] # "bad"
    BY PositionFacts DEF NoRecord, NoFrames
  <2>3. \A b \in Bindings : records[b] = NoRecord
    BY <1>1
  <2>4. records \in [ Bindings -> [ kept : BOOLEAN, at : [ Positions -> Payload ] ] ]
    BY <1>1, <2>1
  <2>5. { b \in Bindings : records[b].kept } = {} /\ { recency[i] : i \in DOMAIN recency } = {}
    BY <1>3, <2>1, <2>3
  <2> QED
    BY <1>3, <2>2, <2>3, <2>4, <2>5 DEF DiskType
<1>8. BudgetType /\ NoneFailed
  BY <1>1, ReceiverAssumption DEF BudgetType, NoneFailed
<1>9. SoundInv
  BY <1>1, <1>2, FreshValues DEF SoundInv
<1>10. ModeInv /\ ResetInv
  BY <1>1, <1>2, FreshValues DEF ModeInv, ResetInv
<1>11. RestoreInv /\ DiscardInv /\ SavingInv
  BY <1>1, <1>2 DEF RestoreInv, DiscardInv, SavingInv
<1>12. TaskInv /\ OfferedInv /\ ArchiveInv /\ DoneInv
  BY <1>1, <1>2, <1>3 DEF TaskInv, OfferedInv, ArchiveInv, DoneInv
<1>13. QueueInv /\ SavedInv /\ CoverInv
  BY <1>1, <1>2, <1>3 DEF QueueInv, SavedInv, CoverInv, Collecting
<1>14. HiddenInv
  BY <1>1, <1>2, <1>3 DEF HiddenInv
<1> QED
  BY <1>4, <1>5, <1>6, <1>7, <1>8, <1>9, <1>10, <1>11, <1>12, <1>13, <1>14
  DEF PageInv, AlwaysInv, TypeInv

LEMMA PageStill ==
  ASSUME PageInv, UNCHANGED receiverVars
  PROVE  PageInv'
<1>1. /\ UNCHANGED << ui, conn, acc, task, queued, camera, archive >>
      /\ UNCHANGED << resetting, restoring, discarding, saving, overtaken, calls >>
      /\ UNCHANGED << writes, database, budget, persist, failed >>
  BY DEF receiverVars, memory, writes, calls
<1>2. AlwaysInv'
  BY AlwaysStill DEF PageInv
<1>3. CoverInv' /\ HiddenInv' /\ QueueInv'
  BY <1>1, PageStep DEF Collecting
<1>4. ModeInv' /\ ResetInv' /\ RestoreInv' /\ DiscardInv' /\ SavingInv'
  BY <1>1, <1>2 DEF PageInv, ModeInv, ResetInv, RestoreInv, DiscardInv, SavingInv, database
<1>5. TaskInv' /\ OfferedInv' /\ ArchiveInv' /\ SavedInv' /\ DoneInv'
  BY <1>1 DEF PageInv, TaskInv, OfferedInv, ArchiveInv, SavedInv, DoneInv
<1> QED
  BY <1>2, <1>3, <1>4, <1>5 DEF PageInv

LEMMA PageKeeps ==
  ASSUME PageInv, AlwaysInv', overtaken' # "now", ReceiverNext, ~Reload
  PROVE  PageInv'
<1>1. CASE \E f \in Frames : Scan(f)
  BY <1>1, ScanKeeps
<1>2. CASE Page
  BY <1>2, IngestQueuedKeeps, VerificationFailedKeeps, VerificationPassedKeeps, FinishFilesKeeps,
     FinishTestKeeps, WriteCommitsKeeps, ProofCommitsKeeps, CameraOpensKeeps, CameraReadyKeeps,
     FinishResetKeeps, LoadKeeps, ReplayKeeps, DeleteKeeps, ListKeeps DEF Page
<1>3. CASE Mishap
  BY <1>3, RefuseKeeps, WriteFailsKeeps, ProofFailsKeeps, CameraFailsKeeps, LoadFailsKeeps,
     DiscardFailsKeeps DEF Mishap
<1>4. CASE User
  BY <1>4, StartTestKeeps, ResumeKeeps, PauseKeeps, ResetKeeps, RestoreKeeps, DiscardKeeps,
     SaveArchiveKeeps, SaveRefusedKeeps, SaveVerifiedKeeps DEF User
<1> QED
  BY <1>1, <1>2, <1>3, <1>4 DEF ReceiverNext

LEMMA FullKeeps ==
  ASSUME FullInv, [ReceiverNext]_receiverVars
  PROVE  FullInv'
<1>1. AlwaysInv'
  BY AlwaysKeeps, AlwaysStill DEF FullInv
<1>2. CASE UNCHANGED receiverVars
  <2>1. overtaken' = overtaken
    BY <1>2 DEF receiverVars, memory, calls
  <2> QED
    BY <1>1, <1>2, <2>1, PageStill DEF FullInv
<1>3. CASE Reload
  BY <1>1, <1>3, ReloadKeeps DEF FullInv
<1>4. CASE ReceiverNext /\ ~Reload
  <2>1. ASSUME overtaken' # "now" PROVE overtaken # "now"
    BY <1>4, <2>1, NowStays
  <2> QED
    BY <1>1, <1>4, <2>1, PageKeeps DEF FullInv
<1> QED
  BY <1>2, <1>3, <1>4

LEMMA PageAlways == ReceiverSpec => []FullInv
<1>1. ReceiverInit => FullInv
  BY PageInit DEF FullInv, PageInv
<1>2. FullInv /\ [ReceiverNext]_receiverVars => FullInv'
  BY FullKeeps
<1> QED
  BY <1>1, <1>2, PTL DEF ReceiverSpec

\* The invariant says what the properties say.
LEMMA ReceiverTyped ==
  ASSUME AlwaysInv
  PROVE  ReceiverTypeOK
<1>0. TypeInv
  BY DEF AlwaysInv
<1>1. /\ ui \in Uis /\ conn \in Keys /\ acc \in Accumulator /\ camera \in Cameras
      /\ archive = NoArchive \/ archive \in Archives
  BY <1>0 DEF TypeInv, PageType
<1>2. task.step \in { "none", "hash", "probe", "files", "proof" }
  BY <1>0, TaskFacts, PageFields
<1>3. Len(queued) <= 1 /\ \A i \in DOMAIN queued : queued[i] \in Frames
  <2>1. CASE queued = << >>
    BY <2>1
  <2>2. ASSUME NEW f \in Frames, queued = << f >>
        PROVE  Len(queued) <= 1 /\ \A i \in DOMAIN queued : queued[i] \in Frames
    BY <2>2
  <2> QED
    BY <1>0, <2>1, <2>2 DEF TypeInv, PageType
<1>4. /\ \A i \in DOMAIN persist :
           persist[i] \in [ kind : { "frame", "drop", "clear", "delete", "proof", "undo" },
                            b : Bindings, pos : Positions, v : Payload, fresh : BOOLEAN ]
      /\ pend \in [ Positions -> Nat ] /\ failed \subseteq Positions
  <2>1. persist \in Seq(Ops) /\ pend \in [ Positions -> Nat ] /\ failed \subseteq Positions
    BY <1>0 DEF TypeInv, WritesType
  <2>2. \A i \in DOMAIN persist : persist[i] \in Ops
    BY <2>1
  <2> QED
    BY <2>1, <2>2 DEF Ops
<1>5. /\ records \in [ Bindings -> [ kept : BOOLEAN, at : [ Positions -> Payload ] ] ]
      /\ { b \in Bindings : records[b].kept } = { recency[i] : i \in DOMAIN recency }
  BY <1>0 DEF TypeInv, DiskType
<1>6. resetting.key \in Keys /\ resetting.left \in Int
  BY <1>0 DEF TypeInv, PageType
<1>7. /\ restoring \in [ step : { "no", "load", "replay" }, b : Keys, fresh : BOOLEAN,
                         at : [ Positions -> Payload ] ]
      /\ discarding \in [ step : { "no", "delete", "list" }, b : Keys ]
      /\ saving \in [ pending : BOOLEAN, key : Keys ]
      /\ overtaken \in { "never", "now", "before" }
  BY <1>0 DEF TypeInv, CallsType, Restores
<1> QED
  BY <1>1, <1>2, <1>3, <1>4, <1>5, <1>6, <1>7 DEF ReceiverTypeOK, Uis, Cameras, Archives

\* What the page offers as received has its SHA-256, whatever the user does, and
\* is the archive its verified dummy committed to as long as the user has not
\* gone on while a reset, restore, discard or save was pending: for every number
\* of streams, frames and repetitions (Receiver.tsx finishFilesTransfer,
\* restoreSavedCheckpoint).
THEOREM ArchiveIsTheBoundOne == ReceiverSpec => []ArchiveIsBound
<1>1. ASSUME FullInv PROVE ArchiveIsBound
  <2>1. ReceiverTypeOK
    BY <1>1, ReceiverTyped DEF FullInv
  <2>2. archive # NoArchive => \A c \in Chunks(archive.purpose) : archive.slot[c] = "good"
    BY <1>1 DEF FullInv, AlwaysInv, SoundInv
  <2>3. archive # NoArchive /\ overtaken # "now"
          => conn # NoBinding /\ archive.purpose = "files" /\ archive.b = conn
    BY <1>1 DEF FullInv, PageInv, ArchiveInv
  <2> QED
    BY <2>1, <2>2, <2>3 DEF ArchiveIsBound
<1> QED
  BY <1>1, PageAlways, PTL

\* What the page says of its checkpoints is what a reload finds: saved means
\* that every frame in memory is on the disk, and without a failed storage call
\* no checkpoint stays behind unseen (Receiver.tsx queueCheckpointWrite,
\* resetReceiver).
THEOREM CheckpointsStayTrue == ReceiverSpec => []CheckpointsAreTrue
<1>1. ASSUME FullInv PROVE SavedCoversMemory
  <2>1. SUFFICES ASSUME ui.status = "saved", conn # NoBinding, Collecting, overtaken # "now"
                 PROVE  /\ acc.b # NoBinding => records[conn].at[0] = "good"
                        /\ \A c \in 1 .. N :
                             \/ acc.slot[c] = records[conn].at[c]
                             \/ acc.slot[c] = "none" /\ budget.failures < MaxFailures
    BY DEF SavedCoversMemory, Collecting
  <2>0. PageInv
    BY <1>1, <2>1 DEF FullInv
  <2>2. persist = << >> /\ failed = {}
    BY <2>0, <2>1 DEF PageInv, SavedInv
  <2>3. ASSUME NEW p \in Positions
        PROVE  \/ records[conn].at[p] \in Wanted(p)
               \/ "none" \in Wanted(p) /\ budget.failures < MaxFailures
    <3>1. Covered(p)
      BY <2>0, <2>1 DEF PageInv, CoverInv
    <3> QED
      BY <2>2, <3>1, NothingQueued DEF Covered
  <2>4. acc.b # NoBinding => records[conn].at[0] = "good"
    BY <2>3, PositionFacts DEF Wanted
  <2>5. ASSUME NEW c \in 1 .. N
        PROVE  \/ acc.slot[c] = records[conn].at[c]
               \/ acc.slot[c] = "none" /\ budget.failures < MaxFailures
    <3>1. c \in Positions /\ c # 0
      BY PositionFacts
    <3> QED
      BY <2>3, <3>1 DEF Wanted
  <2> QED
    BY <2>4, <2>5
<1>2. ASSUME FullInv PROVE NoHiddenCheckpoint
  <2>1. SUFFICES ASSUME budget.failures = MaxFailures, persist = << >>, conn = NoBinding,
                        overtaken = "never", discarding = NoDiscard
                 PROVE  ui.saved = IF recency = << >> THEN NoBinding ELSE recency[Len(recency)]
    BY DEF NoHiddenCheckpoint
  <2>0. HiddenInv /\ discarding.step # "list"
    <3>1. overtaken # "now"
      BY <2>1
    <3>2. PageInv
      BY <1>2, <3>1 DEF FullInv
    <3>3. discarding.step = "no"
      BY <2>1 DEF NoDiscard
    <3> QED
      BY <3>2, <3>3 DEF PageInv
  <2>2. recency = IF ui.saved = NoBinding THEN << >> ELSE << ui.saved >>
    BY <2>0, <2>1 DEF HiddenInv
  <2>3. CASE ui.saved = NoBinding
    BY <2>2, <2>3
  <2>4. CASE ui.saved # NoBinding
    <3>1. PICK k : k = ui.saved /\ recency = << k >>
      BY <2>2, <2>4
    <3>2. recency # << >> /\ Len(recency) = 1 /\ recency[1] = k
      BY <3>1
    <3> QED
      BY <3>1, <3>2
  <2> QED
    BY <2>3, <2>4
<1>3. ASSUME FullInv PROVE CheckpointsAreTrue
  BY <1>1, <1>2, <1>3 DEF CheckpointsAreTrue
<1> QED
  BY <1>3, PageAlways, PTL
-----------------------------------------------------------------------------
(* ------------------------- ArchiveDestination ------------------------- *)

USE ArchiveDestinationAssumption DEF Turns

(* ------------------------- a step of one tab's save --------------------- *)

(* The run of a tab that goes on to a phase.                                *)
Moved(t, phase) == [tab[t] EXCEPT !.phase = phase]

LEMMA MovedIsRun ==
  ASSUME tab \in [Tabs -> Run], NEW t \in Tabs, NEW phase \in Stopped \cup Holding
  PROVE  /\ Moved(t, phase) \in Run
         /\ Moved(t, phase).phase = phase
         /\ Moved(t, phase).at = tab[t].at
         /\ Moved(t, phase).claimed = tab[t].claimed
         /\ Moved(t, phase).created = tab[t].created
         /\ Moved(t, phase).looked = tab[t].looked
         /\ Moved(t, phase).unmarked = tab[t].unmarked
  BY DEF Moved, Run

(* What a step of tab t may change, and what it has to leave behind: other  *)
(* tabs do not hold the lock, or see the folder they saw before.            *)
Steps(t, run) ==
  /\ tab' = [tab EXCEPT ![t] = run]
  /\ lock' = IF run.phase \in Holding THEN t ELSE Free(t)
  /\ run.phase \in Holding => lock \in {t, None}
  /\ lock = t \/ UNCHANGED <<disk, stranger, marker, touched>>
  /\ UNCHANGED <<holds, edits>>

(* The folder stays well typed and its marker true.                         *)
FolderKept ==
  /\ disk' \in [Files -> Contents] /\ stranger' \in BOOLEAN
  /\ marker' \in Markers /\ marker'.created \subseteq marker'.claimed
  /\ touched' \subseteq Files
  /\ MadeBy(marker.owner, marker.created)'

LEMMA StepKeeps ==
  ASSUME SaveInv, NEW t \in Tabs, NEW r \in Run, Steps(t, r), FolderKept,
         r.created \subseteq r.claimed, RunInv(t, r)'
  PROVE  SaveInv'
<1>1. tab' \in [Tabs -> Run] /\ tab'[t] = r /\ \A u \in Tabs \ {t} : tab'[u] = tab[u]
  BY DEF SaveInv, Steps
<1>2. ASSUME NEW u \in Tabs
      PROVE  lock' = u <=> tab'[u].phase \in Holding
  <2>1. CASE u = t
    BY <2>1, <1>1 DEF Steps, Free
  <2>2. CASE u # t
    <3>1. lock = u <=> tab'[u].phase \in Holding
      BY <2>2, <1>1 DEF SaveInv, TypeOK
    <3> QED
      BY <2>2, <3>1 DEF Steps, Free
  <2> QED
    BY <2>1, <2>2
<1>3. TypeOK'
  <2>1. holds' \in [Tabs -> Transfers]
    BY DEF SaveInv, TypeOK, Steps
  <2>2. ASSUME NEW u \in Tabs
        PROVE  /\ tab'[u].phase \in Stopped \cup Holding /\ tab'[u].at \in 1 .. NumFiles + 1
               /\ tab'[u].created \subseteq tab'[u].claimed /\ tab'[u].claimed \subseteq Files
    <3>1. tab'[u] \in Run
      BY <1>1
    <3>2. tab'[u].created \subseteq tab'[u].claimed
      BY <1>1 DEF SaveInv, TypeOK
    <3> QED
      BY <3>1, <3>2 DEF Run
  <2> QED
    BY <1>2, <2>1, <2>2 DEF TypeOK, FolderKept, Markers
<1>4. ASSUME NEW u \in Tabs
      PROVE  RunInv(u, tab[u])'
  <2>1. CASE u = t
    BY <2>1, <1>1
  <2>2. CASE u # t /\ lock = t
    <3>1. tab'[u] = tab[u] /\ tab'[u].phase \notin Holding
      BY <2>2, <1>1 DEF SaveInv, TypeOK
    <3>2. tab'[u].unmarked <= edits'
      BY <3>1 DEF SaveInv, RunInv, CompareInv, Steps
    <3> QED
      BY <3>1, <3>2 DEF RunInv, TurnInv, CompareInv, Writing, Holding
  <2>3. CASE u # t /\ UNCHANGED <<disk, stranger, marker, touched>>
    <3>1. tab'[u] = tab[u] /\ RunInv(u, tab[u])
      BY <2>3, <1>1 DEF SaveInv
    <3> QED
      BY <2>3, <3>1 DEF RunInv, TurnInv, CompareInv, MadeBy, Matching, Mine, Journal, NoMarker, Steps
  <2> QED
    BY <2>1, <2>2, <2>3 DEF Steps
<1> QED
  BY <1>1, <1>3, <1>4 DEF SaveInv, FolderKept, Steps

LEMMA FolderStays ==
  ASSUME SaveInv, UNCHANGED <<folder, touched>>
  PROVE  FolderKept
  BY DEF SaveInv, TypeOK, FolderKept, folder, MadeBy

(* The save ends or waits for the lock.                                     *)
LEMMA StopKeeps ==
  ASSUME SaveInv, NEW t \in Tabs, NEW phase \in Stopped, Goto(t, phase), lock' = Free(t),
         lock = t \/ UNCHANGED <<disk, stranger, marker, touched>>,
         FolderKept, UNCHANGED <<holds, edits>>
  PROVE  SaveInv'
<1>1. PICK r : r = Moved(t, phase)
  OBVIOUS
<1>2. r \in Run /\ r.phase = phase /\ r.created = tab[t].created /\ r.claimed = tab[t].claimed
      /\ r.unmarked = tab[t].unmarked
  BY <1>1, MovedIsRun DEF SaveInv
<1>3. r.phase \notin Holding
  BY <1>2 DEF Stopped, Holding
<1>4. Steps(t, r)
  BY <1>1, <1>3 DEF Steps, Goto, Moved
<1>5. RunInv(t, r)'
  <2>1. r.unmarked <= edits
    BY <1>2 DEF SaveInv, RunInv, CompareInv
  <2> QED
    BY <1>3, <2>1 DEF RunInv, TurnInv, CompareInv, Writing, Holding
<1>6. r.created \subseteq r.claimed
  BY <1>2 DEF SaveInv, TypeOK
<1> QED
  BY <1>2, <1>4, <1>5, <1>6, StepKeeps

(* The save goes on in the folder as it is.                                 *)
LEMMA QuietKeeps ==
  ASSUME SaveInv, NEW t \in Tabs, lock = t, NEW r \in Run, r.phase \in Holding,
         tab' = [tab EXCEPT ![t] = r], UNCHANGED <<folder, lock, outside>>,
         r.created \subseteq r.claimed, RunInv(t, r)
  PROVE  SaveInv'
<1>1. FolderKept
  BY FolderStays DEF outside
<1>2. Steps(t, r)
  BY DEF Steps, outside
<1>3. RunInv(t, r)'
  BY DEF RunInv, TurnInv, CompareInv, MadeBy, Matching, Mine, Journal, NoMarker, folder, outside
<1> QED
  BY <1>1, <1>2, <1>3, StepKeeps

LEMMA HolderSaves ==
  ASSUME SaveInv, NEW t \in Tabs
  PROVE  /\ tab[t] \in Run /\ tab[t].created \subseteq tab[t].claimed
         /\ lock = t <=> tab[t].phase \in Holding
         /\ RunInv(t, tab[t]) /\ Mine(t) \in Transfers
  BY DEF SaveInv, TypeOK, Mine

(* ------------------------------ the actions ----------------------------- *)

LEMMA SaveKeeps ==
  ASSUME SaveInv, NEW t \in Tabs, Save(t)
  PROVE  SaveInv'
<1>1. lock # t
  BY HolderSaves DEF Save, Holding
<1> QED
  BY <1>1, StopKeeps, FolderStays DEF Save, Stopped, Free, folder, outside

LEMMA AcquireKeeps ==
  ASSUME SaveInv, NEW t \in Tabs, Acquire(t)
  PROVE  SaveInv'
<1>1. PICK r : r = [Idle EXCEPT !.phase = "open"]
  OBVIOUS
<1>2. /\ r \in Run /\ r.phase = "open" /\ r.created = {} /\ r.claimed = {}
      /\ r.unmarked = 0
  <2>1. Idle \in Run
    BY DEF Idle, Run, Stopped
  <2> QED
    BY <1>1, <2>1 DEF Idle, Run, Holding
<1>3. Steps(t, r)
  BY <1>1, <1>2 DEF Acquire, Steps, Holding, folder, outside
<1>4. FolderKept
  BY FolderStays DEF Acquire, outside
<1>5. RunInv(t, r)'
  <2>1. 0 <= edits'
    BY DEF SaveInv, Acquire, outside
  <2> QED
    BY <1>2, <2>1 DEF RunInv, TurnInv, CompareInv, MadeBy, Writing
<1> QED
  BY <1>2, <1>3, <1>4, <1>5, StepKeeps

LEMMA MarkersExist ==
  /\ NoMarker \in Markers /\ NoMarker.created = {} /\ NoMarker.claimed = {}
  /\ \A x \in Transfers :
       /\ Unfilled(x) \in Markers /\ Unfilled(x).created = {} /\ Unfilled(x).claimed = {}
       /\ ~Unfilled(x).whole
  BY DEF NoMarker, Unfilled, Journal, Markers

(* A marker that records nothing is true.                                   *)
LEMMA EmptyMarkerKept ==
  ASSUME SaveInv, NEW m \in Markers, m.created = {}, marker' = m, UNCHANGED <<disk, stranger, touched>>
  PROVE  FolderKept
  BY DEF SaveInv, TypeOK, FolderKept, MadeBy

LEMMA OpenFolderKeeps ==
  ASSUME SaveInv, NEW t \in Tabs, OpenFolder(t)
  PROVE  SaveInv'
<1>1. lock = t /\ tab[t] \in Run /\ RunInv(t, tab[t]) /\ tab[t].created \subseteq tab[t].claimed
  BY HolderSaves DEF OpenFolder, At, Holding
<1>2. FolderKept
  <2>1. CASE OnlyUnfilledMarker(t)
    BY <2>1, MarkersExist, EmptyMarkerKept DEF OpenFolder, outside
  <2>2. CASE ~OnlyUnfilledMarker(t)
    BY <2>2, FolderStays DEF OpenFolder, folder, outside
  <2> QED
    BY <2>1, <2>2
<1>0. /\ FolderEmpty => ~Matching(t) /\ ~OnlyUnfilledMarker(t)
      /\ Matching(t) => ~OnlyUnfilledMarker(t)
  BY HolderSaves DEF FolderEmpty, Matching, OnlyUnfilledMarker, NoMarker, Unfilled, Journal
<1>3. CASE Matching(t)
  <2>1. PICK r : r = [tab[t] EXCEPT !.phase = "survey", !.claimed = marker.claimed,
                                    !.created = marker.created]
    OBVIOUS
  <2>2. /\ r \in Run /\ r.phase = "survey" /\ r.created = marker.created
        /\ r.claimed = marker.claimed /\ r.unmarked = tab[t].unmarked
    BY <1>1, <2>1 DEF Run, Holding, SaveInv, Markers
  <2>3. tab' = [tab EXCEPT ![t] = r]
    BY <1>3, <1>0, <2>1 DEF OpenFolder
  <2>4. UNCHANGED folder
    BY <1>3, <1>0 DEF OpenFolder, folder
  <2>5. marker = Journal(Mine(t), r.claimed, r.created)
    BY <1>3, <2>2 DEF SaveInv, Markers, Matching, Journal
  <2>6. RunInv(t, r)
    BY <1>1, <1>3, <2>2, <2>5 DEF RunInv, TurnInv, CompareInv, SaveInv, Matching
  <2>7. r.created \subseteq r.claimed
    BY <2>2 DEF SaveInv, TypeOK
  <2>8. r.phase \in Holding /\ UNCHANGED <<lock, outside>>
    BY <2>2 DEF Holding, OpenFolder
  <2> QED
    BY <1>1, <2>2, <2>3, <2>4, <2>6, <2>7, <2>8, QuietKeeps DEF folder
<1>4. ASSUME NEW r \in Run, r.phase \in {"create", "compare"}, r.created = tab[t].created,
             r.claimed = tab[t].claimed, r.unmarked = tab[t].unmarked,
             tab' = [tab EXCEPT ![t] = r]
      PROVE  SaveInv'
  <2>1. Steps(t, r)
    BY <1>1, <1>4 DEF Steps, OpenFolder, outside, Holding
  <2>2. RunInv(t, r)'
    BY <1>1, <1>4 DEF RunInv, TurnInv, CompareInv, MadeBy, Mine, Writing, OpenFolder, outside, At, Holding
  <2> QED
    BY <1>1, <1>2, <1>4, <2>1, <2>2, StepKeeps
<1>5. CASE FolderEmpty
  <2>1. PICK r : r = [tab[t] EXCEPT !.phase = "create", !.guarded = TRUE]
    OBVIOUS
  <2>2. /\ r \in Run /\ r.phase = "create" /\ r.created = tab[t].created
        /\ r.claimed = tab[t].claimed /\ r.unmarked = tab[t].unmarked
    BY <1>1, <2>1 DEF Run, Holding
  <2>3. tab' = [tab EXCEPT ![t] = r]
    BY <1>5, <1>0, <2>1 DEF OpenFolder
  <2> QED
    BY <2>2, <2>3, <1>4
<1>6. CASE ~FolderEmpty /\ ~Matching(t)
  <2>1. PICK phase \in {"create", "compare"} : tab' = [tab EXCEPT ![t] = Moved(t, phase)]
    BY <1>6 DEF OpenFolder, Moved
  <2>2. PICK r : r = Moved(t, phase)
    OBVIOUS
  <2>3. /\ r \in Run /\ r.phase = phase /\ r.created = tab[t].created
        /\ r.claimed = tab[t].claimed /\ r.unmarked = tab[t].unmarked
    BY <2>2, MovedIsRun DEF SaveInv, Holding
  <2> QED
    BY <2>1, <2>2, <2>3, <1>4
<1> QED
  BY <1>3, <1>5, <1>6

(* A journal of files that this transfer made is true.                      *)
LEMMA JournalKept ==
  ASSUME SaveInv, NEW t \in Tabs, NEW C \in SUBSET Files, NEW D \in SUBSET C,
         MadeBy(Mine(t), D), marker' = Journal(Mine(t), C, D),
         UNCHANGED <<disk, stranger, touched>>
  PROVE  FolderKept
<1>1. PICK m : m = Journal(Mine(t), C, D)
  OBVIOUS
<1>2. m \in Markers /\ m.owner = Mine(t) /\ m.claimed = C /\ m.created = D
  BY <1>1, HolderSaves DEF Journal, Markers
<1>3. MadeBy(marker.owner, marker.created)'
  BY <1>1, <1>2 DEF MadeBy
<1> QED
  BY <1>1, <1>2, <1>3 DEF FolderKept, SaveInv, TypeOK

(* Creation or removal of a marker that records nothing.                    *)
LEMMA BlankMarkerKept ==
  ASSUME SaveInv, NEW t \in Tabs, marker' \in {marker, NoMarker, Unfilled(Mine(t))},
         UNCHANGED <<disk, stranger, touched>>
  PROVE  FolderKept
<1>1. CASE marker' = marker
  BY <1>1, FolderStays DEF folder
<1>2. CASE marker' # marker
  BY <1>2, HolderSaves, MarkersExist, EmptyMarkerKept
<1> QED
  BY <1>1, <1>2

(* The save goes on to a phase that has no conditions of its own.           *)
LEMMA GoKeeps ==
  ASSUME SaveInv, NEW t \in Tabs, lock = t,
         NEW phase \in {"compare", "create", "fill", "restore", "refill"}, Goto(t, phase),
         FolderKept, UNCHANGED <<disk, stranger, lock, outside>>
  PROVE  SaveInv'
<1>1. PICK r : r = Moved(t, phase)
  OBVIOUS
<1>2. /\ r \in Run /\ r.phase = phase /\ r.created = tab[t].created
      /\ r.claimed = tab[t].claimed /\ r.unmarked = tab[t].unmarked
  BY <1>1, MovedIsRun DEF SaveInv, Holding
<1>3. Steps(t, r)
  BY <1>1, <1>2 DEF Steps, Goto, Moved, Holding, outside
<1>4. RunInv(t, r)'
  <2>1. RunInv(t, tab[t]) /\ tab[t].phase \in Holding
    BY HolderSaves
  <2> QED
    BY <1>2, <2>1 DEF RunInv, TurnInv, CompareInv, MadeBy, Mine, Writing, outside
<1>5. r.created \subseteq r.claimed
  BY <1>2, HolderSaves
<1> QED
  BY <1>2, <1>3, <1>4, <1>5, StepKeeps

LEMMA CreateMarkerKeeps ==
  ASSUME SaveInv, NEW t \in Tabs, CreateMarker(t)
  PROVE  SaveInv'
<1>1. lock = t
  BY HolderSaves DEF CreateMarker, Holding
<1>2. FolderKept
  BY BlankMarkerKept DEF CreateMarker, outside
<1> QED
  BY <1>1, <1>2, GoKeeps DEF CreateMarker, At

(* The save goes on with its file, its marker being its journal.            *)
LEMMA TurnKeeps ==
  ASSUME SaveInv, NEW t \in Tabs, lock = t, NEW r \in Run, r.phase \in Writing,
         tab' = [tab EXCEPT ![t] = r], r.created \subseteq r.claimed,
         marker' = Journal(Mine(t), r.claimed, r.created),
         MadeBy(Mine(t), r.created), r.unmarked = tab[t].unmarked,
         r.phase \in Turns => r.at \in Files /\ (r.phase = "claim" <=> r.at \notin r.claimed),
         r.phase \in Turns \ {"make", "write"} => r.at \notin r.created,
         r.phase = "record" => r.at \in touched \/ disk[r.at] = "blank",
         r.phase = "write" => r.at \in r.created,
         UNCHANGED <<disk, stranger, lock, outside>>
  PROVE  SaveInv'
<1>1. r.claimed \in SUBSET Files /\ r.phase \in Holding
  BY DEF Run, Writing, Holding
<1>2. FolderKept
  BY <1>1, JournalKept DEF outside
<1>3. Steps(t, r)
  BY <1>1 DEF Steps, outside
<1>4. RunInv(t, r)'
  <2>1. r.unmarked <= edits
    BY HolderSaves DEF RunInv, CompareInv
  <2> QED
    BY <2>1 DEF RunInv, TurnInv, CompareInv, MadeBy, Mine, Writing, outside
<1> QED
  BY <1>2, <1>3, <1>4, StepKeeps

(* A turn that goes on without a word in the journal.                       *)
LEMMA TurnStays ==
  ASSUME SaveInv, NEW t \in Tabs, tab[t].phase \in Writing
  PROVE  /\ lock = t /\ tab[t] \in Run /\ marker = Journal(Mine(t), tab[t].claimed, tab[t].created)
         /\ MadeBy(Mine(t), tab[t].created) /\ tab[t].created \subseteq tab[t].claimed
<1>1. tab[t].phase \in Holding
  BY DEF Writing, Holding
<1> QED
  BY <1>1, HolderSaves DEF RunInv, TurnInv

LEMMA FillMarkerKeeps ==
  ASSUME SaveInv, NEW t \in Tabs, FillMarker(t)
  PROVE  SaveInv'
<1>1. /\ lock = t /\ tab[t].phase \in Holding /\ MadeBy(Mine(t), tab[t].created)
      /\ tab[t] \in Run /\ tab[t].created \subseteq tab[t].claimed
  BY HolderSaves DEF FillMarker, Holding, RunInv
<1>2. marker' = Journal(Mine(t), tab[t].claimed, tab[t].created)
  BY DEF FillMarker, Encoded
<1>3. CASE At(t, "fill")
  <2>1. PICK r : r = Moved(t, "survey")
    OBVIOUS
  <2>2. /\ r \in Run /\ r.phase = "survey" /\ r.created = tab[t].created
        /\ r.claimed = tab[t].claimed /\ r.unmarked = tab[t].unmarked
    BY <2>1, MovedIsRun DEF SaveInv, Holding
  <2>3. tab' = [tab EXCEPT ![t] = r]
    BY <1>3, <2>1 DEF FillMarker, Goto, Moved
  <2>4. r.phase \in Writing /\ UNCHANGED <<disk, stranger, lock, outside>>
    BY <1>3, <2>2 DEF FillMarker, Writing
  <2> QED
    BY <1>1, <1>2, <2>2, <2>3, <2>4, TurnKeeps
<1>4. CASE ~At(t, "fill")
  <2>1. FolderKept
    BY <1>1, <1>2, JournalKept DEF FillMarker, Run, outside
  <2>2. Goto(t, "idle") /\ lock' = Free(t) /\ UNCHANGED <<holds, edits>>
    BY <1>4 DEF FillMarker, Leave, outside
  <2> QED
    BY <1>1, <2>1, <2>2, StopKeeps DEF Stopped
<1> QED
  BY <1>3, <1>4

LEMMA MarkerFailsKeeps ==
  ASSUME SaveInv, NEW t \in Tabs, MarkerFails(t)
  PROVE  SaveInv'
<1>1. lock = t
  BY HolderSaves DEF MarkerFails, Holding
<1>2. FolderKept
  BY BlankMarkerKept DEF MarkerFails, outside
<1> QED
  BY <1>1, <1>2, StopKeeps DEF MarkerFails, Leave, Stopped, outside

LEMMA GoTurnKeeps ==
  ASSUME SaveInv, NEW t \in Tabs, tab[t].phase \in Writing,
         NEW phase \in Turns \cup {"file"}, Goto(t, phase),
         UNCHANGED <<folder, lock, outside>>,
         phase # "file" => /\ tab[t].at \in Files
                           /\ phase = "claim" <=> tab[t].at \notin tab[t].claimed,
         phase \notin {"file", "make", "write"} => tab[t].at \notin tab[t].created,
         phase = "record" => disk[tab[t].at] = "blank",
         phase = "write" => tab[t].at \in tab[t].created
  PROVE  SaveInv'
<1>1. PICK r : r = Moved(t, phase)
  OBVIOUS
<1>2. /\ r \in Run /\ r.phase = phase /\ r.at = tab[t].at /\ r.created = tab[t].created
      /\ r.claimed = tab[t].claimed /\ r.unmarked = tab[t].unmarked
  BY <1>1, MovedIsRun DEF SaveInv, Holding
<1>3. tab' = [tab EXCEPT ![t] = r] /\ r.phase \in Writing
  BY <1>1, <1>2 DEF Goto, Moved, Writing
<1>4. marker' = Journal(Mine(t), r.claimed, r.created)
  BY <1>2, TurnStays DEF folder
<1> QED
  BY <1>2, <1>3, <1>4, TurnStays, TurnKeeps DEF folder

LEMMA SurveyKeeps ==
  ASSUME SaveInv, NEW t \in Tabs, Survey(t)
  PROVE  SaveInv'
<1>1. tab[t].phase \in Writing
  BY DEF Survey, At, Writing
<1>2. CASE stranger
  <2>1. FolderKept
    BY BlankMarkerKept DEF Survey, outside
  <2> QED
    BY <1>1, <1>2, <2>1, TurnStays, StopKeeps DEF Survey, Leave, Stopped, outside
<1>3. CASE ~stranger
  BY <1>1, <1>3, GoTurnKeeps DEF Survey, folder
<1> QED
  BY <1>2, <1>3

LEMMA SurveyFailsKeeps ==
  ASSUME SaveInv, NEW t \in Tabs, SurveyFails(t)
  PROVE  SaveInv'
<1>1. lock = t
  BY HolderSaves DEF SurveyFails, At, Holding
<1>2. FolderKept
  BY BlankMarkerKept DEF SurveyFails, outside
<1>3. PICK phase \in Stopped : Leave(t, phase)
  BY DEF SurveyFails, Stopped
<1> QED
  BY <1>1, <1>2, <1>3, StopKeeps DEF SurveyFails, Leave, outside

(* What the runs that a file's turn leads to keep of the one before.        *)
LEMMA RunsOfATurn ==
  ASSUME SaveInv, NEW t \in Tabs, tab[t].at \in Files
  PROVE  /\ \A x \in Run :
              x.at \in Files =>
                /\ NextFile(t, x) \in Run /\ NextFile(t, x).phase = "file"
                /\ NextFile(t, x).claimed = x.claimed /\ NextFile(t, x).created = x.created
                /\ NextFile(t, x).unmarked = x.unmarked
         /\ AsCreated(t) \in Run /\ AsCreated(t).phase = "write" /\ AsCreated(t).at = tab[t].at
         /\ AsCreated(t).created = tab[t].created \cup {tab[t].at}
         /\ AsCreated(t).claimed = tab[t].claimed /\ AsCreated(t).unmarked = tab[t].unmarked
         /\ WithClaim(t) \in Run /\ WithClaim(t).at = tab[t].at /\ WithClaim(t).phase = "recheck"
         /\ WithClaim(t).claimed = tab[t].claimed \cup {tab[t].at}
         /\ WithClaim(t).created = tab[t].created /\ WithClaim(t).unmarked = tab[t].unmarked
         /\ WithoutClaim(t) \in Run /\ WithoutClaim(t).at = tab[t].at
         /\ tab[t].claimed \ {tab[t].at} \subseteq WithoutClaim(t).claimed
         /\ WithoutClaim(t).created = tab[t].created /\ WithoutClaim(t).unmarked = tab[t].unmarked
<1>1. tab[t] \in Run
  BY HolderSaves
<1>2. ASSUME NEW x \in Run, x.at \in Files
      PROVE  /\ NextFile(t, x) \in Run /\ NextFile(t, x).phase = "file"
             /\ NextFile(t, x).claimed = x.claimed /\ NextFile(t, x).created = x.created
             /\ NextFile(t, x).unmarked = x.unmarked
  <2>1. x.at + 1 \in 1 .. NumFiles + 1
    BY <1>2 DEF Files
  <2> QED
    BY <1>2, <2>1 DEF NextFile, Run, Holding
<1>3. /\ AsCreated(t) \in Run /\ AsCreated(t).phase = "write" /\ AsCreated(t).at = tab[t].at
      /\ AsCreated(t).created = tab[t].created \cup {tab[t].at}
      /\ AsCreated(t).claimed = tab[t].claimed /\ AsCreated(t).unmarked = tab[t].unmarked
  BY <1>1 DEF AsCreated, Run, Holding
<1>4. /\ WithClaim(t) \in Run /\ WithClaim(t).at = tab[t].at /\ WithClaim(t).phase = "recheck"
      /\ WithClaim(t).claimed = tab[t].claimed \cup {tab[t].at}
      /\ WithClaim(t).created = tab[t].created /\ WithClaim(t).unmarked = tab[t].unmarked
  BY <1>1 DEF WithClaim, Run, Holding
<1>5. /\ WithoutClaim(t) \in Run /\ WithoutClaim(t).at = tab[t].at
      /\ tab[t].claimed \ {tab[t].at} \subseteq WithoutClaim(t).claimed
      /\ WithoutClaim(t).created = tab[t].created /\ WithoutClaim(t).unmarked = tab[t].unmarked
  BY <1>1 DEF WithoutClaim, Run
<1> QED
  BY <1>2, <1>3, <1>4, <1>5

(* The file is right: its turn ends.                                        *)
LEMMA NextKeeps ==
  ASSUME SaveInv, NEW t \in Tabs, tab[t].phase \in Writing, tab[t].at \in Files,
         NEW x \in Run, x.at = tab[t].at, x.created = tab[t].created,
         x.created \subseteq x.claimed, x.unmarked = tab[t].unmarked,
         tab' = [tab EXCEPT ![t] = NextFile(t, x)],
         marker' = Journal(Mine(t), x.claimed, x.created),
         UNCHANGED <<disk, stranger, lock, outside>>
  PROVE  SaveInv'
<1>1. PICK r : r = NextFile(t, x)
  OBVIOUS
<1>2. /\ r \in Run /\ r.phase = "file" /\ r.created = x.created
      /\ r.claimed = x.claimed /\ r.unmarked = x.unmarked
  BY <1>1, RunsOfATurn
<1>3. r.phase \in Writing
  BY <1>2 DEF Writing
<1>4. MadeBy(Mine(t), r.created) /\ lock = t
  BY <1>2, TurnStays
<1> QED
  BY <1>1, <1>2, <1>3, <1>4, TurnKeeps

(* A file that was empty when it was read is recorded as created.           *)
LEMMA RecordKeeps ==
  ASSUME SaveInv, NEW t \in Tabs, Record(t)
  PROVE  SaveInv'
<1>1. /\ tab[t].phase = "record" /\ tab[t].phase \in Writing /\ tab[t].at \in Files
      /\ Update(t, AsCreated(t)) /\ UNCHANGED <<disk, stranger, lock, outside>>
  BY DEF Record, OnFile, At, Writing
<1>2. tab[t].at \in tab[t].claimed /\ (tab[t].at \in touched \/ disk[tab[t].at] = "blank")
  BY <1>1, HolderSaves DEF RunInv, TurnInv
<1>3. PICK r : r = AsCreated(t)
  OBVIOUS
<1>4. /\ r \in Run /\ r.phase = "write" /\ r.at = tab[t].at
      /\ r.created = tab[t].created \cup {tab[t].at}
      /\ r.claimed = tab[t].claimed /\ r.unmarked = tab[t].unmarked
  BY <1>1, <1>3, RunsOfATurn
<1>5. r.phase \in Writing /\ r.created \subseteq r.claimed
  BY <1>1, <1>2, <1>4, TurnStays DEF Writing
<1>6. MadeBy(Mine(t), r.created) /\ lock = t
  BY <1>1, <1>2, <1>4, TurnStays DEF MadeBy
<1>7. tab' = [tab EXCEPT ![t] = r] /\ marker' = Journal(Mine(t), r.claimed, r.created)
  BY <1>1, <1>3 DEF Update
<1> QED
  BY <1>1, <1>2, <1>4, <1>5, <1>6, <1>7, TurnKeeps

(* A save that ends in its file's turn leaves the folder as it is.          *)
LEMMA LeaveKeeps ==
  ASSUME SaveInv, NEW t \in Tabs, tab[t].phase \in Writing,
         NEW phase \in Stopped, Leave(t, phase), UNCHANGED <<folder, outside>>
  PROVE  SaveInv'
<1>1. FolderKept
  BY FolderStays DEF outside
<1> QED
  BY <1>1, TurnStays, StopKeeps DEF Leave, outside

LEMMA LookKeeps ==
  ASSUME SaveInv, NEW t \in Tabs, Look(t)
  PROVE  SaveInv'
<1>1. /\ tab[t].phase \in Writing /\ tab[t].at \in Files /\ tab[t].created \subseteq tab[t].claimed
      /\ UNCHANGED <<folder, outside>>
  BY HolderSaves DEF Look, OnFile, At, Writing
<1>2. CASE tab' = [tab EXCEPT ![t] = NextFile(t, tab[t])] /\ UNCHANGED lock
  BY <1>1, <1>2, TurnStays, NextKeeps DEF folder
<1>3. CASE Goto(t, IF Claimed(t) THEN "make" ELSE "claim") /\ UNCHANGED lock
  BY <1>1, <1>3, GoTurnKeeps DEF Claimed
<1>4. CASE Created(t) /\ Goto(t, "write") /\ UNCHANGED lock
  BY <1>1, <1>4, GoTurnKeeps DEF Created
<1>5. CASE /\ ~Created(t) /\ Claimed(t) /\ disk[tab[t].at] = "blank"
           /\ Goto(t, "record") /\ UNCHANGED lock
  BY <1>1, <1>5, GoTurnKeeps DEF Created, Claimed
<1>6. CASE Leave(t, "refused")
  BY <1>1, <1>6, LeaveKeeps DEF Stopped
<1> QED
  BY <1>2, <1>3, <1>4, <1>5, <1>6 DEF Look

LEMMA ClaimKeeps ==
  ASSUME SaveInv, NEW t \in Tabs, Claim(t)
  PROVE  SaveInv'
<1>1. /\ tab[t].phase = "claim" /\ tab[t].phase \in Writing /\ tab[t].at \in Files
      /\ Update(t, WithClaim(t)) /\ UNCHANGED <<disk, stranger, lock, outside>>
  BY DEF Claim, OnFile, At, Writing
<1>2. tab[t].at \notin tab[t].created
  BY <1>1, HolderSaves DEF RunInv, TurnInv
<1>3. PICK r : r = WithClaim(t)
  OBVIOUS
<1>4. /\ r \in Run /\ r.phase = "recheck" /\ r.at = tab[t].at
      /\ r.created = tab[t].created /\ r.claimed = tab[t].claimed \cup {tab[t].at}
      /\ r.unmarked = tab[t].unmarked
  BY <1>1, <1>3, RunsOfATurn
<1>5. r.phase \in Writing /\ r.created \subseteq r.claimed
  BY <1>1, <1>4, TurnStays DEF Writing
<1>6. MadeBy(Mine(t), r.created) /\ lock = t
  BY <1>1, <1>4, TurnStays
<1>7. tab' = [tab EXCEPT ![t] = r] /\ marker' = Journal(Mine(t), r.claimed, r.created)
  BY <1>1, <1>3 DEF Update
<1> QED
  BY <1>1, <1>2, <1>4, <1>5, <1>6, <1>7, TurnKeeps

(* Somebody else's file: the claim is taken back and the save refused.      *)
LEMMA RefusedKeeps ==
  ASSUME SaveInv, NEW t \in Tabs, tab[t].phase \in Writing, tab[t].at \in Files \ tab[t].created,
         Update(t, [WithoutClaim(t) EXCEPT !.phase = "refused"]), lock' = Free(t),
         UNCHANGED <<disk, stranger, outside>>
  PROVE  SaveInv'
<1>1. PICK w \in Run : w = WithoutClaim(t)
  BY RunsOfATurn
<1>2. w.created = tab[t].created /\ w.created \subseteq w.claimed /\ w.unmarked = tab[t].unmarked
  BY <1>1, RunsOfATurn, TurnStays
<1>3. PICK r : r = [w EXCEPT !.phase = "refused"]
  OBVIOUS
<1>4. /\ r \in Run /\ r.phase = "refused" /\ r.created = w.created
      /\ r.claimed = w.claimed /\ r.unmarked = w.unmarked
  BY <1>3 DEF Run, Stopped
<1>5. tab' = [tab EXCEPT ![t] = r] /\ marker' = Journal(Mine(t), r.claimed, r.created)
  BY <1>1, <1>3 DEF Update
<1>6. FolderKept
  BY <1>2, <1>4, <1>5, TurnStays, JournalKept DEF Run, outside
<1>7. Steps(t, r)
  BY <1>4, <1>5, TurnStays DEF Steps, Holding, outside
<1>8. RunInv(t, r)'
  <2>1. r.unmarked <= edits
    BY <1>2, <1>4, HolderSaves DEF RunInv, CompareInv
  <2> QED
    BY <1>4, <2>1 DEF RunInv, TurnInv, CompareInv, Writing, Holding, outside
<1> QED
  BY <1>2, <1>4, <1>6, <1>7, <1>8, StepKeeps

(* The folder is looked at in a file's turn.                                *)
LEMMA RecheckKeeps ==
  ASSUME SaveInv, NEW t \in Tabs, Recheck(t)
  PROVE  SaveInv'
<1>1. /\ tab[t].phase = "recheck" /\ tab[t].phase \in Writing /\ tab[t].at \in Files
      /\ UNCHANGED <<folder, lock, outside>>
  BY DEF Recheck, OnFile, At, Writing
<1>2. tab[t].at \in tab[t].claimed \ tab[t].created
  BY <1>1, HolderSaves DEF RunInv, TurnInv
<1>3. PICK phase \in {"make", "skip", "unclaim"} : Goto(t, phase)
  BY DEF Recheck
<1> QED
  BY <1>1, <1>2, <1>3, GoTurnKeeps

(* The claim of a file that appeared is taken back.                         *)
LEMMA UnclaimKeeps ==
  ASSUME SaveInv, NEW t \in Tabs, Unclaim(t)
  PROVE  SaveInv'
<1>1. /\ tab[t].phase \in {"skip", "unclaim"} /\ tab[t].phase \in Writing /\ tab[t].at \in Files
      /\ UNCHANGED <<disk, stranger, outside>>
  BY DEF Unclaim, OnFile, At, Writing
<1>2. tab[t].at \in tab[t].claimed \ tab[t].created
  BY <1>1, HolderSaves DEF RunInv, TurnInv
<1>3. CASE Update(t, NextFile(t, WithoutClaim(t))) /\ UNCHANGED lock
  <2>1. PICK w \in Run : w = WithoutClaim(t)
    BY <1>1, RunsOfATurn
  <2>2. /\ w.at = tab[t].at /\ w.created = tab[t].created /\ w.created \subseteq w.claimed
        /\ w.unmarked = tab[t].unmarked
    BY <1>1, <1>2, <2>1, RunsOfATurn, TurnStays
  <2>3. PICK r : r = NextFile(t, w)
    OBVIOUS
  <2>4. r.claimed = w.claimed /\ r.created = w.created
    BY <1>1, <2>2, <2>3, RunsOfATurn
  <2>5. tab' = [tab EXCEPT ![t] = NextFile(t, w)] /\ marker' = Journal(Mine(t), w.claimed, w.created)
    BY <1>3, <2>1, <2>3, <2>4 DEF Update
  <2> QED
    BY <1>1, <1>3, <2>2, <2>5, NextKeeps
<1>4. CASE Update(t, [WithoutClaim(t) EXCEPT !.phase = "refused"]) /\ lock' = Free(t)
  BY <1>1, <1>2, <1>4, RefusedKeeps
<1> QED
  BY <1>3, <1>4 DEF Unclaim

LEMMA InspectKeeps ==
  ASSUME SaveInv, NEW t \in Tabs, Inspect(t)
  PROVE  SaveInv'
<1>1. /\ tab[t].phase = "inspect" /\ tab[t].phase \in Writing /\ tab[t].at \in Files
      /\ UNCHANGED <<folder, outside>>
  BY DEF Inspect, OnFile, At, Writing
<1>2. tab[t].at \in tab[t].claimed \ tab[t].created
  BY <1>1, HolderSaves DEF RunInv, TurnInv
<1>3. CASE disk[tab[t].at] = "blank" /\ Goto(t, "record") /\ UNCHANGED lock
  BY <1>1, <1>2, <1>3, GoTurnKeeps
<1>4. CASE Goto(t, "unclaim") /\ UNCHANGED lock
  BY <1>1, <1>2, <1>4, GoTurnKeeps
<1>5. CASE \E phase \in {"idle", "refused"} : Leave(t, phase)
  BY <1>1, <1>5, LeaveKeeps DEF Stopped
<1> QED
  BY <1>3, <1>4, <1>5 DEF Inspect

LEMMA MakeKeeps ==
  ASSUME SaveInv, NEW t \in Tabs, Make(t)
  PROVE  SaveInv'
<1>1. tab[t].phase = "make" /\ tab[t].phase \in Writing /\ tab[t].at \in Files
  BY DEF Make, OnFile, At, Writing
<1>2. tab[t].at \in tab[t].claimed
  BY <1>1, HolderSaves DEF RunInv, TurnInv
<1>3. disk \in [Files -> Contents] /\ disk' \in [Files -> Contents]
  BY DEF SaveInv, TypeOK, Make, Contents
<1>4. \A i \in Files : disk'[i] = disk[i] \/ disk'[i] = "blank"
  BY <1>1, <1>3 DEF Make
<1>5. FolderKept
  BY <1>3, <1>4 DEF FolderKept, SaveInv, TypeOK, MadeBy, Make, outside
<1>6. PICK r : r = Moved(t, IF Created(t) THEN "write" ELSE "inspect")
  OBVIOUS
<1>7. /\ r \in Run /\ r.phase = IF Created(t) THEN "write" ELSE "inspect"
      /\ r.at = tab[t].at /\ r.created = tab[t].created
      /\ r.claimed = tab[t].claimed /\ r.unmarked = tab[t].unmarked
  BY <1>6, MovedIsRun DEF SaveInv, Holding
<1>8. Steps(t, r)
  BY <1>1, <1>6, <1>7, TurnStays DEF Steps, Make, Goto, Moved, Holding, outside
<1>9. RunInv(t, r)'
  <2>1. TurnInv(t, r)'
    BY <1>1, <1>2, <1>7, TurnStays DEF TurnInv, Created, Mine, Make, outside
  <2>2. CompareInv(t, r)'
    BY <1>7, HolderSaves DEF RunInv, CompareInv, Make, outside
  <2>3. MadeBy(Mine(t), tab[t].created)
    BY <1>1, TurnStays
  <2>4. MadeBy(Mine(t), r.created)'
    BY <1>3, <1>4, <1>7, <2>3 DEF MadeBy, Mine, Make, outside, Run
  <2> QED
    BY <2>1, <2>2, <2>4 DEF RunInv
<1> QED
  BY <1>1, <1>5, <1>7, <1>8, <1>9, TurnStays, StepKeeps

LEMMA WriteKeeps ==
  ASSUME SaveInv, NEW t \in Tabs, Write(t)
  PROVE  SaveInv'
<1>1. tab[t].phase = "write" /\ tab[t].phase \in Writing /\ tab[t].at \in Files
  BY DEF Write, OnFile, At, Writing
<1>2. CASE disk[tab[t].at] = "absent"
  <2>1. FolderKept
    BY <1>2, FolderStays DEF Write, folder
  <2> QED
    BY <1>1, <1>2, <2>1, TurnStays, StopKeeps DEF Write, Leave, Stopped
<1>3. CASE disk[tab[t].at] # "absent"
  <2>1. PICK r : r = NextFile(t, tab[t])
    OBVIOUS
  <2>2. /\ r \in Run /\ r.phase = "file" /\ r.created = tab[t].created
        /\ r.claimed = tab[t].claimed /\ r.unmarked = tab[t].unmarked
    BY <1>1, <2>1, RunsOfATurn, HolderSaves
  <2>3. disk' = [disk EXCEPT ![tab[t].at] = Mine(t)] /\ disk \in [Files -> Contents]
    BY <1>3 DEF Write, SaveInv, TypeOK
  <2>4. disk' \in [Files -> Contents]
    BY <2>3, HolderSaves DEF Contents
  <2>5. MadeBy(Mine(t), tab[t].created) /\ marker = Journal(Mine(t), tab[t].claimed, tab[t].created)
    BY <1>1, TurnStays
  <2>6. tab[t].created \subseteq Files
    BY HolderSaves DEF Run
  <2>7. touched' = touched \ {tab[t].at} /\ Mine(t)' = Mine(t)
    BY <1>3 DEF Write, Mine
  <2>8. MadeBy(Mine(t), tab[t].created)'
    <3>1. \A i \in tab[t].created \ touched' : disk'[i] \in {"blank", Mine(t)}
      BY <1>1, <2>3, <2>5, <2>6, <2>7 DEF MadeBy
    <3>2. tab'[t].created = tab[t].created
      BY <1>3, <2>1, <2>2 DEF Write, SaveInv
    <3> QED
      BY <2>7, <3>1, <3>2 DEF MadeBy
  <2>9. MadeBy(Mine(t), r.created)' /\ MadeBy(marker.owner, marker.created)'
    <3>1. tab'[t].created = tab[t].created
      BY <1>3, <2>1, <2>2 DEF Write, SaveInv
    <3>2. marker'.owner = Mine(t) /\ marker'.created = tab[t].created
      BY <2>5 DEF Write, Journal
    <3> QED
      BY <2>2, <2>7, <2>8, <3>1, <3>2 DEF MadeBy
  <2>10. FolderKept
    BY <2>4, <2>7, <2>9 DEF FolderKept, SaveInv, TypeOK, Write
  <2>11. Steps(t, r)
    BY <1>1, <1>3, <2>1, <2>2, TurnStays DEF Steps, Write, Holding
  <2>12. RunInv(t, r)'
    <3>1. TurnInv(t, r)'
      BY <2>2, <2>5, <2>7 DEF TurnInv, Write
    <3>2. CompareInv(t, r)'
      BY <2>2, HolderSaves DEF RunInv, CompareInv, Write
    <3> QED
      BY <2>9, <3>1, <3>2 DEF RunInv
  <2> QED
    BY <1>1, <2>2, <2>10, <2>11, <2>12, TurnStays, StepKeeps
<1> QED
  BY <1>2, <1>3

LEMMA CompareKeeps ==
  ASSUME SaveInv, NEW t \in Tabs, Compare(t)
  PROVE  SaveInv'
<1>1. lock = t
  BY HolderSaves DEF Compare, At, Holding
<1>2. FolderKept
  BY FolderStays DEF Compare, outside
<1> QED
  BY <1>1, <1>2, GoKeeps DEF Compare, folder

LEMMA DisprovedKeeps ==
  ASSUME SaveInv, NEW t \in Tabs, lock = t, Disproved(t), UNCHANGED <<folder, outside>>
  PROVE  SaveInv'
<1>1. FolderKept
  BY FolderStays DEF outside
<1>2. CASE Goto(t, "restore") /\ UNCHANGED lock
  BY <1>1, <1>2, GoKeeps DEF folder
<1>3. CASE \E phase \in Stopped : Leave(t, phase)
  BY <1>1, <1>3, StopKeeps DEF Leave, outside
<1> QED
  BY <1>2, <1>3 DEF Disproved, Stopped

LEMMA EnumerateKeeps ==
  ASSUME SaveInv, NEW t \in Tabs, Enumerate(t)
  PROVE  SaveInv'
<1>1. lock = t /\ tab[t] \in Run /\ RunInv(t, tab[t]) /\ tab[t].created \subseteq tab[t].claimed
  BY HolderSaves DEF Enumerate, At, Holding
<1>2. CASE Disproved(t)
  BY <1>1, <1>2, DisprovedKeeps DEF Enumerate, outside
<1>3. CASE ~Unexpected(t) /\ tab' = [tab EXCEPT ![t].phase = "read", ![t].at = 1, ![t].looked = edits]
           /\ UNCHANGED lock
  <2>1. PICK r : r = [tab[t] EXCEPT !.phase = "read", !.at = 1, !.looked = edits]
    OBVIOUS
  <2>2. /\ r \in Run /\ r.phase = "read" /\ r.at = 1 /\ r.looked = edits
        /\ r.created = tab[t].created /\ r.claimed = tab[t].claimed
        /\ r.unmarked = tab[t].unmarked
    <3>1. 1 \in 1 .. NumFiles + 1 /\ edits \in Nat
      BY DEF SaveInv
    <3> QED
      BY <1>1, <2>1, <3>1 DEF Run, Holding
  <2>3. tab' = [tab EXCEPT ![t] = r]
    BY <1>1, <1>3, <2>1 DEF SaveInv
  <2>4. CompareInv(t, r)
    BY <1>1, <1>3, <2>2 DEF CompareInv, RunInv, Unexpected, SaveInv, Files
  <2>5. RunInv(t, r) /\ r.phase \in Holding
    BY <1>1, <2>2, <2>4 DEF RunInv, TurnInv, Writing, Holding, Enumerate, At
  <2> QED
    BY <1>1, <1>3, <2>2, <2>3, <2>5, QuietKeeps DEF Enumerate, outside
<1> QED
  BY <1>2, <1>3 DEF Enumerate

LEMMA ReadFileKeeps ==
  ASSUME SaveInv, NEW t \in Tabs, ReadFile(t)
  PROVE  SaveInv'
<1>1. /\ lock = t /\ tab[t] \in Run /\ RunInv(t, tab[t]) /\ tab[t].created \subseteq tab[t].claimed
      /\ tab[t].phase = "read" /\ tab[t].at \in Files
  BY HolderSaves DEF ReadFile, OnFile, At, Holding
<1>2. CASE Disproved(t)
  BY <1>1, <1>2, DisprovedKeeps DEF ReadFile, outside
<1>3. CASE disk[tab[t].at] = Mine(t) /\ tab' = [tab EXCEPT ![t].at = @ + 1] /\ UNCHANGED lock
  <2>1. PICK r : r = [tab[t] EXCEPT !.at = @ + 1]
    OBVIOUS
  <2>2. /\ r \in Run /\ r.phase = "read" /\ r.at = tab[t].at + 1 /\ r.looked = tab[t].looked
        /\ r.created = tab[t].created /\ r.claimed = tab[t].claimed
        /\ r.unmarked = tab[t].unmarked
    <3>1. tab[t].at + 1 \in 1 .. NumFiles + 1
      BY <1>1 DEF Files
    <3> QED
      BY <1>1, <2>1, <3>1 DEF Run
  <2>3. tab' = [tab EXCEPT ![t] = r]
    BY <1>3, <2>1 DEF SaveInv
  <2>4. \A i \in Files : i < r.at => i < tab[t].at \/ i = tab[t].at
    BY <1>1, <2>2 DEF Files
  <2>5. CompareInv(t, r)
    BY <1>1, <1>3, <2>2, <2>4 DEF CompareInv, RunInv
  <2>6. RunInv(t, r) /\ r.phase \in Holding
    BY <1>1, <2>2, <2>5 DEF RunInv, TurnInv, Writing, Holding
  <2> QED
    BY <1>1, <1>3, <2>2, <2>3, <2>6, QuietKeeps DEF ReadFile, outside
<1> QED
  BY <1>2, <1>3 DEF ReadFile

LEMMA VerifiedKeeps ==
  ASSUME SaveInv, NEW t \in Tabs, Verified(t)
  PROVE  SaveInv'
<1>1. lock = t /\ tab[t] \in Run /\ RunInv(t, tab[t]) /\ tab[t].created \subseteq tab[t].claimed
      /\ tab[t].phase \in Holding
  BY HolderSaves DEF Verified, At, Holding
<1>2. CASE Matching(t)
  <2>1. PICK r : r = [tab[t] EXCEPT !.phase = "compare", !.round = "after", !.unmarked = edits]
    OBVIOUS
  <2>2. /\ r \in Run /\ r.phase = "compare" /\ r.unmarked = edits
        /\ r.created = tab[t].created /\ r.claimed = tab[t].claimed
    BY <1>1, <2>1 DEF Run, Holding, SaveInv
  <2>3. tab' = [tab EXCEPT ![t] = r]
    BY <1>2, <2>1 DEF Verified, SaveInv
  <2>4. FolderKept
    BY <1>2, BlankMarkerKept DEF Verified, outside
  <2>5. Steps(t, r)
    BY <1>1, <1>2, <2>2, <2>3 DEF Steps, Verified, Holding, outside
  <2>6. RunInv(t, r)'
    <3>1. edits' \in Nat /\ r.unmarked = edits'
      BY <2>2 DEF SaveInv, Verified, outside
    <3> QED
      BY <1>1, <2>2, <3>1
      DEF RunInv, TurnInv, CompareInv, MadeBy, Mine, Writing, Verified, outside
  <2> QED
    BY <1>1, <2>2, <2>4, <2>5, <2>6, StepKeeps
<1>3. CASE ~Matching(t)
  <2>1. FolderKept
    BY <1>3, FolderStays DEF Verified, folder, outside
  <2> QED
    BY <1>1, <1>3, <2>1, StopKeeps DEF Verified, Leave, Stopped, outside
<1> QED
  BY <1>2, <1>3

LEMMA FailKeeps ==
  ASSUME SaveInv, NEW t \in Tabs, Fail(t)
  PROVE  SaveInv'
<1>1. CASE tab[t].phase \in {"compare", "read"}
  <2>1. lock = t
    BY <1>1, HolderSaves DEF Holding
  <2> QED
    BY <1>1, <2>1, DisprovedKeeps DEF Fail
<1>2. CASE tab[t].phase \notin {"compare", "read"}
  <2>1. FolderKept
    BY FolderStays DEF Fail, outside
  <2> QED
    BY <1>2, <2>1, StopKeeps DEF Fail, Leave, Stopped, folder, outside
<1> QED
  BY <1>1, <1>2

LEMMA DieKeeps ==
  ASSUME SaveInv, NEW t \in Tabs, Die(t)
  PROVE  SaveInv'
<1>1. PICK r : r = Idle
  OBVIOUS
<1>2. r \in Run /\ r.phase = "idle" /\ r.created = {} /\ r.claimed = {} /\ r.unmarked = 0
  BY <1>1 DEF Idle, Run, Stopped
<1>3. r.phase \notin Holding
  BY <1>2 DEF Holding
<1>4. Steps(t, r)
  BY <1>1, <1>3 DEF Die, Steps, folder, outside
<1>5. FolderKept
  BY FolderStays DEF Die, outside
<1>6. RunInv(t, r)'
  <2>1. 0 <= edits'
    BY DEF SaveInv, Die, outside
  <2> QED
    BY <1>2, <1>3, <2>1 DEF RunInv, TurnInv, CompareInv, Writing, Holding
<1> QED
  BY <1>2, <1>4, <1>5, <1>6, StepKeeps

(* Whatever is changed from outside under a record is remembered.           *)
LEMMA TouchedStays ==
  ASSUME SaveInv, Edit, NEW i \in Files, Recorded(i)
  PROVE  touched \subseteq touched' /\ (i \in touched' \/ disk'[i] = disk[i])
<1>1. disk \in [Files -> Contents]
  BY DEF SaveInv, TypeOK
<1>2. CASE UNCHANGED <<disk, touched>>
  BY <1>2
<1>3. CASE ~UNCHANGED <<disk, touched>>
  BY <1>1, <1>3 DEF Edit
<1> QED
  BY <1>2, <1>3

LEMMA EditKeeps ==
  ASSUME SaveInv, Edit
  PROVE  SaveInv'
<1>1. edits \in Nat /\ edits' = edits + 1 /\ UNCHANGED <<marker, lock, holds, tab>>
  BY DEF SaveInv, Edit
<1>2. ASSUME NEW x, NEW D \in SUBSET Files, MadeBy(x, D), \A i \in D : Recorded(i)
      PROVE  \A i \in D \ touched' : disk'[i] \in {"blank", x}
  <2>1. CASE UNCHANGED <<disk, touched>>
    BY <1>2, <2>1 DEF MadeBy
  <2>2. CASE ~UNCHANGED <<disk, touched>>
    <3>1. PICK i \in Files, content \in Contents :
            /\ disk' = [disk EXCEPT ![i] = content]
            /\ touched' = IF Recorded(i) THEN touched \cup {i} ELSE touched
      BY <2>2 DEF Edit
    <3>2. disk \in [Files -> Contents]
      BY DEF SaveInv, TypeOK
    <3> QED
      BY <1>2, <3>1, <3>2 DEF MadeBy
  <2> QED
    BY <2>1, <2>2
<1>3. disk' \in [Files -> Contents] /\ stranger' \in BOOLEAN /\ touched' \subseteq Files
  BY DEF SaveInv, TypeOK, Edit
<1>4. TypeOK'
  <2>1. TypeOK
    BY DEF SaveInv
  <2>2. ASSUME NEW t \in Tabs
        PROVE  /\ tab'[t].phase \in Stopped \cup Holding /\ tab'[t].at \in 1 .. NumFiles + 1
               /\ tab'[t].created \subseteq tab'[t].claimed /\ tab'[t].claimed \subseteq Files
               /\ lock' = t <=> tab'[t].phase \in Holding
    BY <1>1, <2>1 DEF TypeOK
  <2> QED
    BY <1>1, <1>3, <2>1, <2>2 DEF TypeOK
<1>5. MadeBy(marker.owner, marker.created)'
  <2>1. \A i \in marker.created : Recorded(i)
    BY DEF Recorded
  <2> QED
    BY <1>1, <1>2, <2>1 DEF SaveInv, TypeOK, MadeBy
<1>6. ASSUME NEW t \in Tabs
      PROVE  RunInv(t, tab[t])'
  <2>1. tab[t] \in Run /\ RunInv(t, tab[t]) /\ Mine(t)' = Mine(t)
    BY <1>1, HolderSaves DEF Mine
  <2>2. TurnInv(t, tab[t])'
    <3>1. CASE tab[t].phase = "record"
      <4>1. lock = t /\ tab[t].at \in Files /\ TurnInv(t, tab[t])
        BY <2>1, <3>1, HolderSaves DEF RunInv, TurnInv, Holding
      <4>2. Recorded(tab[t].at)
        BY <3>1, <4>1 DEF Recorded, At
      <4>3. tab[t].at \in touched' \/ disk'[tab[t].at] = "blank"
        BY <4>1, <3>1, <4>2, TouchedStays DEF TurnInv
      <4> QED
        BY <1>1, <2>1, <3>1, <4>1, <4>3 DEF TurnInv
    <3>2. CASE tab[t].phase # "record"
      BY <1>1, <2>1, <3>2 DEF RunInv, TurnInv
    <3> QED
      BY <3>1, <3>2
  <2>3. CompareInv(t, tab[t])'
    BY <1>1, <2>1 DEF RunInv, CompareInv, Matching, Run
  <2>4. CASE tab[t].phase \in Holding
    <3>1. lock = t
      BY <2>4, HolderSaves
    <3>2. \A i \in tab[t].created : Recorded(i)
      BY <3>1 DEF Recorded
    <3>3. MadeBy(Mine(t), tab[t].created)'
      BY <1>1, <1>2, <2>1, <2>4, <3>2 DEF RunInv, MadeBy, Run
    <3> QED
      BY <2>2, <2>3, <3>3 DEF RunInv
  <2>5. CASE tab[t].phase \notin Holding
    BY <1>1, <2>2, <2>3, <2>5 DEF RunInv
  <2> QED
    BY <2>4, <2>5
<1> QED
  BY <1>1, <1>4, <1>5, <1>6 DEF SaveInv

(* -------------------------------- theorems ------------------------------ *)

LEMMA InitSaves ==
  ASSUME Init
  PROVE  SaveInv
<1>1. Idle \in Run /\ Idle.phase = "idle" /\ Idle.created = {} /\ Idle.claimed = {}
      /\ Idle.at = 1 /\ Idle.unmarked = 0
  BY DEF Idle, Run, Stopped
<1>2. tab \in [Tabs -> Run] /\ \A t \in Tabs : tab[t] = Idle
  BY <1>1 DEF Init
<1>3. Idle.phase \in Stopped \ Holding
  BY <1>1 DEF Stopped, Holding
<1>4. marker \in Markers /\ marker.created = {} /\ marker.claimed = {}
  BY MarkersExist DEF Init
<1>5. TypeOK
  <2>1. disk \in [Files -> Contents]
    BY DEF Init, Contents
  <2>2. 1 \in 1 .. NumFiles + 1
    OBVIOUS
  <2> QED
    BY <1>1, <1>2, <1>3, <1>4, <2>1, <2>2 DEF Init, TypeOK, Markers
<1>6. ASSUME NEW t \in Tabs
      PROVE  RunInv(t, tab[t])
  <2>1. tab[t].phase = "idle" /\ tab[t].phase \notin Holding
    BY <1>1, <1>2, <1>3
  <2>2. tab[t].unmarked <= edits
    BY <1>1, <1>2 DEF Init
  <2> QED
    BY <2>1, <2>2 DEF RunInv, TurnInv, CompareInv, Writing
<1> QED
  BY <1>2, <1>4, <1>5, <1>6 DEF SaveInv, MadeBy, Init

LEMMA NextSaves ==
  ASSUME SaveInv, [Next]_vars
  PROVE  SaveInv'
<1>1. CASE UNCHANGED vars
  BY <1>1 DEF vars, SaveInv, TypeOK, MadeBy, RunInv, TurnInv, CompareInv, Matching, Mine
<1>2. ASSUME NEW t \in Tabs, Work(t)
      PROVE  SaveInv'
  BY <1>2, OpenFolderKeeps, CreateMarkerKeeps, FillMarkerKeeps, SurveyKeeps, LookKeeps,
     ClaimKeeps, RecheckKeeps, UnclaimKeeps, MakeKeeps, InspectKeeps, RecordKeeps, WriteKeeps,
     CompareKeeps,
     EnumerateKeeps, ReadFileKeeps, VerifiedKeeps DEF Work
<1>3. ASSUME NEW t \in Tabs, Faulty(t)
      PROVE  SaveInv'
  BY <1>3, MarkerFailsKeeps, SurveyFailsKeeps, FailKeeps, DieKeeps DEF Faulty
<1> QED
  BY <1>1, <1>2, <1>3, EditKeeps, SaveKeeps, AcquireKeeps DEF Next

(* Whatever fails, dies or is edited, the marker of a save that writes is   *)
(* its journal, and what is recorded was made by the transfer it names.     *)
THEOREM AlwaysJournaled == Spec => []SaveInv
<1>1. Init => SaveInv
  BY InitSaves
<1>2. SaveInv /\ [Next]_vars => SaveInv'
  BY NextSaves
<1> QED
  BY <1>1, <1>2, PTL DEF Spec

(* What a marker records as created is this transfer's own work, and may be *)
(* overwritten by a later attempt without asking.                           *)
THEOREM RecordsAreTrue == Spec => []RecordedIsOurs
<1>1. SaveInv => RecordedIsOurs
  BY DEF SaveInv, RecordedIsOurs, MadeBy
<1> QED
  BY <1>1, AlwaysJournaled, PTL

(* A step changes files of the tree only by creating one, by writing one,   *)
(* or from outside.                                                         *)
LEMMA OnlyTwoWrite ==
  ASSUME SaveInv, [Next]_vars, edits' = edits, disk' # disk
  PROVE  \E t \in Tabs : Make(t) \/ Write(t)
<1>1. ~Edit
  BY DEF Edit, SaveInv
<1>2. PICK t \in Tabs : Save(t) \/ Acquire(t) \/ Work(t) \/ Faulty(t)
  BY <1>1 DEF Next, vars
<1>3. ~(Save(t) \/ Acquire(t) \/ Faulty(t))
  BY DEF Save, Acquire, Faulty, MarkerFails, SurveyFails, Fail, Die, folder
<1>4. Work(t)
  BY <1>2, <1>3
<1>5. ~(OpenFolder(t) \/ CreateMarker(t) \/ FillMarker(t) \/ Survey(t))
  BY DEF OpenFolder, CreateMarker, FillMarker, Survey
<1>6. ~(Look(t) \/ Claim(t) \/ Recheck(t) \/ Unclaim(t) \/ Inspect(t) \/ Record(t))
  BY DEF Look, Claim, Recheck, Unclaim, Inspect, Record, folder
<1>7. ~(Compare(t) \/ Enumerate(t) \/ ReadFile(t) \/ Verified(t))
  BY DEF Compare, Enumerate, ReadFile, Verified, folder
<1> QED
  BY <1>4, <1>5, <1>6, <1>7 DEF Work

(* A folder of the user is never modified but for the files that the marker *)
(* of this very transfer records, and bytes found in them stay.             *)
THEOREM OnlyRecordsAreWritten == Spec => OnlyRecordedWritten
<1>1. ASSUME SaveInv, [Next]_vars
      PROVE  edits' = edits =>
               \A i \in Files : disk'[i] # disk[i] =>
                 /\ \E t \in Tabs : lock = t /\ Matching(t)
                 /\ \/ disk[i] = "absent" /\ i \in marker.claimed
                    \/ i \in marker.created
                 /\ disk[i] \notin {"absent", "blank"} => i \in touched
  <2> SUFFICES ASSUME edits' = edits, NEW i \in Files, disk'[i] # disk[i]
               PROVE  /\ \E t \in Tabs : lock = t /\ Matching(t)
                      /\ \/ disk[i] = "absent" /\ i \in marker.claimed
                         \/ i \in marker.created
                      /\ disk[i] \notin {"absent", "blank"} => i \in touched
    OBVIOUS
  <2>1. PICK t \in Tabs : Make(t) \/ Write(t)
    BY <1>1, OnlyTwoWrite
  <2>2. /\ tab[t].phase \in {"make", "write"} /\ tab[t].phase \in Writing
        /\ tab[t].phase = "make" <=> Make(t)
    BY <2>1 DEF Make, Write, OnFile, At, Writing
  <2>3. disk \in [Files -> Contents] /\ i = tab[t].at
    BY <1>1, <2>1 DEF SaveInv, TypeOK, Make, Write
  <2>4. lock = t /\ marker = Journal(Mine(t), tab[t].claimed, tab[t].created)
    BY <1>1, <2>2, TurnStays
  <2>5. Matching(t) /\ marker.claimed = tab[t].claimed /\ marker.created = tab[t].created
    BY <2>4 DEF Matching, Journal
  <2>6. CASE Make(t)
    <3>1. disk[i] = "absent"
      BY <2>3, <2>6 DEF Make
    <3>2. i \in tab[t].claimed
      BY <1>1, <2>2, <2>3, <2>6, HolderSaves DEF RunInv, TurnInv
    <3> QED
      BY <2>4, <2>5, <3>1, <3>2
  <2>7. CASE Write(t)
    <3>1. disk'[i] = Mine(t)
      BY <2>3, <2>7 DEF Write
    <3>2. i \in tab[t].created
      BY <1>1, <2>2, <2>3, <2>7, HolderSaves DEF RunInv, TurnInv, Write, OnFile, At
    <3>3. disk[i] \in {"blank", Mine(t)} \/ i \in touched
      BY <1>1, <2>2, <3>2, TurnStays DEF MadeBy
    <3> QED
      BY <2>4, <2>5, <3>1, <3>2, <3>3
  <2> QED
    BY <2>1, <2>6, <2>7
<1> QED
  BY <1>1, AlwaysJournaled, PTL DEF Spec, OnlyRecordedWritten

(* Only a comparison that held, in a folder without our marker, succeeds.   *)
LEMMA OneSuccess ==
  ASSUME SaveInv, [Next]_vars, NEW t \in Tabs,
         tab[t].phase # "saved", tab'[t].phase = "saved"
  PROVE  Verified(t) /\ ~Matching(t) /\ tab'[t].looked = tab[t].looked
         /\ tab'[t].unmarked = tab[t].unmarked
<1>1. PICK u \in Tabs : Save(u) \/ Acquire(u) \/ Work(u) \/ Faulty(u)
  BY DEF Next, Edit, vars
<1>2. tab \in [Tabs -> Run] /\ tab[t] \in Run
  BY DEF SaveInv
<1>3. \A x : tab' = [tab EXCEPT ![u] = x] => x.phase = "saved"
  BY <1>2
<1>4. ASSUME NEW phase, phase # "saved"
      PROVE  ~Goto(u, phase) /\ ~Leave(u, phase)
  <2>1. PICK r : r = Moved(u, phase)
    OBVIOUS
  <2>2. r.phase = phase
    BY <1>2, <2>1 DEF Moved, Run
  <2>3. tab' # [tab EXCEPT ![u] = r]
    BY <1>2, <1>4, <2>2
  <2> QED
    BY <2>1, <2>3 DEF Goto, Leave, Moved
<1>5. ~Disproved(u)
  BY <1>4 DEF Disproved
<1>6. Idle \in Run /\ Idle.phase = "idle"
  BY DEF Idle, Run, Stopped
<1>7. ~(Save(u) \/ Acquire(u))
  <2>1. ~Save(u)
    BY <1>4 DEF Save
  <2>2. PICK x : x = [Idle EXCEPT !.phase = "open"]
    OBVIOUS
  <2>3. x \in Run /\ x.phase = "open"
    BY <1>6, <2>2 DEF Run, Holding
  <2> QED
    BY <1>3, <2>1, <2>2, <2>3 DEF Acquire
<1>8. ~Faulty(u)
  BY <1>3, <1>4, <1>5, <1>6 DEF Faulty, MarkerFails, SurveyFails, Fail, Die
<1>9. ~(OpenFolder(u) \/ CreateMarker(u) \/ FillMarker(u) \/ Survey(u))
  <2>1. ~OpenFolder(u)
    <3> SUFFICES ASSUME OpenFolder(u) PROVE FALSE
      OBVIOUS
    <3>1. PICK create : create = [tab[u] EXCEPT !.phase = "create", !.guarded = TRUE]
      OBVIOUS
    <3>2. PICK survey : survey = [tab[u] EXCEPT !.phase = "survey", !.claimed = marker.claimed,
                                                !.created = marker.created]
      OBVIOUS
    <3>3. create.phase = "create" /\ survey.phase = "survey"
      BY <1>2, <3>1, <3>2 DEF Run
    <3>4. \/ tab' = [tab EXCEPT ![u] = create] \/ tab' = [tab EXCEPT ![u] = survey]
          \/ Goto(u, "create") \/ Goto(u, "compare")
      BY <3>1, <3>2 DEF OpenFolder, Goto
    <3> QED
      BY <1>3, <1>4, <3>3, <3>4
  <2> QED
    BY <1>4, <2>1 DEF CreateMarker, FillMarker, Survey
<1>10. ~(Look(u) \/ Claim(u) \/ Recheck(u) \/ Unclaim(u) \/ Inspect(u) \/ Record(u))
  <2> SUFFICES ASSUME Look(u) \/ Claim(u) \/ Recheck(u) \/ Unclaim(u) \/ Inspect(u) \/ Record(u),
                      tab[u].at \in Files
               PROVE  FALSE
    BY DEF Look, Claim, Recheck, Unclaim, Inspect, Record, OnFile
  <2>1. WithoutClaim(u) \in Run /\ WithoutClaim(u).at \in Files /\ tab[u] \in Run
    BY <1>2, RunsOfATurn
  <2>2. /\ NextFile(u, tab[u]).phase = "file" /\ NextFile(u, WithoutClaim(u)).phase = "file"
        /\ AsCreated(u).phase = "write" /\ WithClaim(u).phase = "recheck"
    BY <2>1, RunsOfATurn
  <2>3. PICK r : r = [WithoutClaim(u) EXCEPT !.phase = "refused"]
    OBVIOUS
  <2>4. r.phase = "refused"
    BY <2>1, <2>3 DEF Run
  <2>5. \/ tab' = [tab EXCEPT ![u] = NextFile(u, tab[u])]
        \/ tab' = [tab EXCEPT ![u] = NextFile(u, WithoutClaim(u))]
        \/ tab' = [tab EXCEPT ![u] = AsCreated(u)]
        \/ tab' = [tab EXCEPT ![u] = WithClaim(u)]
        \/ tab' = [tab EXCEPT ![u] = r]
        \/ \E phase \in Turns \cup {"idle", "refused"} : Goto(u, phase)
    BY <2>3 DEF Look, Claim, Recheck, Unclaim, Inspect, Record, Update, Leave
  <2> QED
    BY <1>3, <1>4, <2>2, <2>4, <2>5
<1>11. ~(Make(u) \/ Write(u) \/ Compare(u))
  <2>1. ~Write(u)
    <3> SUFFICES ASSUME Write(u), tab[u].at \in Files PROVE FALSE
      BY DEF Write, OnFile
    <3>1. NextFile(u, tab[u]) \in Run /\ NextFile(u, tab[u]).phase = "file"
      BY <1>2, RunsOfATurn
    <3> QED
      BY <1>3, <1>4, <3>1 DEF Write
  <2> QED
    BY <1>4, <2>1 DEF Make, Compare
<1>12. ~(Enumerate(u) \/ ReadFile(u))
  <2> SUFFICES ASSUME Enumerate(u) \/ ReadFile(u) PROVE FALSE
    OBVIOUS
  <2>1. u = t /\ tab[t].phase \in {"compare", "read"}
    BY <1>2, <1>5 DEF Enumerate, ReadFile, OnFile, At
  <2> QED
    BY <1>2, <1>5, <2>1 DEF Enumerate, ReadFile, Run
<1>13. Verified(u)
  BY <1>1, <1>7, <1>8, <1>9, <1>10, <1>11, <1>12 DEF Work
<1>14. u = t
  BY <1>2, <1>13 DEF Verified, Leave, Goto
<1>15. ~Matching(t)
  BY <1>2, <1>13, <1>14 DEF Verified, Run
<1>16. tab'[t].looked = tab[t].looked /\ tab'[t].unmarked = tab[t].unmarked
  BY <1>2, <1>13, <1>14, <1>15 DEF Verified, Leave, Goto, Run
<1> QED
  BY <1>13, <1>14, <1>15, <1>16

(* What is reported as saved was compared file by file, and nothing edited  *)
(* it since the listing, or since the marker was taken away.                *)
THEOREM SavedFoldersAreExact == Spec => SavedIsExact
<1>1. ASSUME SaveInv, [Next]_vars
      PROVE  \A t \in Tabs :
               /\ tab[t].phase # "saved" /\ tab'[t].phase = "saved"
               /\ edits \in {tab'[t].looked, tab'[t].unmarked}
               => Exact(Mine(t)) /\ marker' = NoMarker
  <2> SUFFICES ASSUME NEW t \in Tabs, tab[t].phase # "saved", tab'[t].phase = "saved",
                      edits \in {tab'[t].looked, tab'[t].unmarked}
               PROVE  Exact(Mine(t)) /\ marker' = NoMarker
    OBVIOUS
  <2>1. /\ Verified(t) /\ ~Matching(t) /\ tab'[t].looked = tab[t].looked
        /\ tab'[t].unmarked = tab[t].unmarked
    BY <1>1, OneSuccess
  <2>2. tab[t].phase = "read" /\ tab[t].at \notin Files /\ marker' = marker
    BY <2>1 DEF Verified, At
  <2>3. tab[t] \in Run /\ CompareInv(t, tab[t]) /\ edits \in Nat
    BY <1>1, HolderSaves DEF RunInv, SaveInv
  <2>4. tab[t].at = NumFiles + 1
    BY <2>2, <2>3 DEF Run, Files
  <2>5. tab[t].looked = edits
    BY <2>1, <2>2, <2>3 DEF CompareInv, Run
  <2> QED
    BY <2>1, <2>2, <2>3, <2>4, <2>5 DEF CompareInv, Exact, Files
<1> QED
  BY <1>1, AlwaysJournaled, PTL DEF Spec, SavedIsExact

(* -------------------- the transfer's own unfinished work ---------------- *)

LEMMA ContentsDiffer ==
  /\ \A x \in Transfers : x \notin {"absent", "blank", "users", None}
  BY DEF Files

(* Phases in which a save relies on nothing in the folder.                  *)
LEMMA NothingReliedOn ==
  ASSUME NEW t \in Tabs, NEW r, r.phase \in Stopped \cup {"file", "write"}
  PROVE  PathInv(t, r)
  BY DEF Stopped, PathInv, Beginning, Missing

(* A step that leaves the folder alone.                                     *)
LEMMA QuietOwn ==
  ASSUME SaveInv, OwnInv, NEW t \in Tabs, NEW r \in Run, tab' = [tab EXCEPT ![t] = r],
         UNCHANGED <<folder, outside>>, edits = 0 => PathInv(t, r)
  PROVE  OwnInv'
<1>1. MarkerInv' /\ (edits = 0 => TreeInv')
  BY DEF OwnInv, MarkerInv, TreeInv, NoFiles, Complete, folder, outside
<1>2. ASSUME edits = 0, NEW u \in Tabs
      PROVE  PathInv(u, tab[u])'
  <2>1. PathInv(u, tab'[u])
    BY <1>2 DEF OwnInv, SaveInv
  <2>2. PICK run : run = tab'[u]
    OBVIOUS
  <2>3. PathInv(u, run)'
    BY <2>1, <2>2
    DEF PathInv, NoFiles, Complete, Mine, Matching, FolderEmpty, OnlyUnfilledMarker, folder, outside
  <2> QED
    BY <2>2, <2>3
<1> QED
  BY <1>1, <1>2 DEF OwnInv, outside

LEMMA StopOwn ==
  ASSUME SaveInv, OwnInv, NEW t \in Tabs, NEW phase \in Stopped \cup {"file", "write"},
         Goto(t, phase), UNCHANGED <<folder, outside>>
  PROVE  OwnInv'
<1>1. PICK r : r = Moved(t, phase)
  OBVIOUS
<1>2. r \in Run /\ r.phase = phase
  BY <1>1, MovedIsRun DEF SaveInv, Holding
<1> QED
  BY <1>1, <1>2, NothingReliedOn, QuietOwn DEF Goto, Moved

(* A step in the folder: the holder of the lock alone relies on it.         *)
LEMMA FolderOwn ==
  ASSUME SaveInv, OwnInv, NEW t \in Tabs, lock = t, NEW r \in Run, tab' = [tab EXCEPT ![t] = r],
         UNCHANGED <<edits, holds>>, MarkerInv', edits = 0 => TreeInv' /\ PathInv(t, r)'
  PROVE  OwnInv'
<1>1. ASSUME edits = 0, NEW u \in Tabs
      PROVE  PathInv(u, tab[u])'
  <2>1. CASE u = t
    BY <1>1, <2>1 DEF SaveInv
  <2>2. CASE u # t
    <3>1. tab'[u] = tab[u] /\ tab[u].phase \in Stopped
      BY <2>2, HolderSaves DEF SaveInv, Run
    <3> QED
      BY <3>1 DEF PathInv, Beginning, Missing, Stopped
  <2> QED
    BY <2>1, <2>2
<1> QED
  BY <1>1 DEF OwnInv

(* The marker becomes the journal of the save.                              *)
LEMMA JournalOwn ==
  ASSUME SaveInv, OwnInv, NEW t \in Tabs, lock = t, NEW r \in Run, tab' = [tab EXCEPT ![t] = r],
         UNCHANGED <<edits, holds>>, NEW C, NEW D, marker' = Journal(Mine(t), C, D),
         edits = 0 => PathInv(t, r)' /\ \A i \in Files : disk'[i] = "blank" => i \in C
  PROVE  OwnInv'
<1>1. marker'.owner # None /\ marker'.whole /\ marker'.claimed = C
  BY HolderSaves, ContentsDiffer DEF Journal
<1>2. marker' # NoMarker
  BY <1>1 DEF NoMarker, Journal
<1>3. MarkerInv' /\ (edits = 0 => TreeInv')
  BY <1>1, <1>2 DEF MarkerInv, TreeInv
<1> QED
  BY <1>3, FolderOwn

(* The marker is created or goes, where nothing was begun or all is done.   *)
LEMMA BlankMarkerOwn ==
  ASSUME SaveInv, OwnInv, NEW t \in Tabs, lock = t, NEW r \in Run, tab' = [tab EXCEPT ![t] = r],
         UNCHANGED <<disk, stranger, outside>>, marker' \in {marker, NoMarker, Unfilled(Mine(t))},
         edits = 0 => (NoFiles \/ Complete(Mine(t))) /\ PathInv(t, r)'
  PROVE  OwnInv'
<1>1. Mine(t) \in Transfers /\ Mine(t) # None
  BY HolderSaves, ContentsDiffer
<1>2. MarkerInv'
  <2>1. CASE marker' = marker
    BY <2>1 DEF OwnInv, MarkerInv
  <2>2. CASE marker' = NoMarker
    BY <2>2 DEF MarkerInv, NoMarker, Journal
  <2>3. CASE marker' = Unfilled(Mine(t))
    BY <1>1, <2>3 DEF MarkerInv, Unfilled, Journal
  <2> QED
    BY <2>1, <2>2, <2>3
<1>3. ASSUME edits = 0
      PROVE  TreeInv'
  <2>1. \A i \in Files : disk'[i] # "blank"
    BY <1>1, <1>3, ContentsDiffer DEF NoFiles, Complete
  <2>2. NoFiles' \/ Complete(Mine(t))'
    BY <1>3 DEF NoFiles, Complete, Mine, outside
  <2>3. Mine(t)' \in Transfers
    BY <1>1 DEF Mine, outside
  <2> QED
    BY <2>1, <2>2, <2>3 DEF TreeInv
<1> QED
  BY <1>2, <1>3, FolderOwn DEF outside

LEMMA OpenFolderOwn ==
  ASSUME SaveInv, OwnInv, NEW t \in Tabs, OpenFolder(t)
  PROVE  OwnInv'
<1>1. lock = t /\ tab[t] \in Run /\ Mine(t) \in Transfers
  BY HolderSaves DEF OpenFolder, At, Holding
<1>2. /\ FolderEmpty => ~Matching(t) /\ ~OnlyUnfilledMarker(t)
      /\ Matching(t) => ~OnlyUnfilledMarker(t)
  BY <1>1, ContentsDiffer DEF FolderEmpty, Matching, OnlyUnfilledMarker, NoMarker, Unfilled, Journal
<1>3. CASE FolderEmpty
  <2>1. PICK r : r = [tab[t] EXCEPT !.phase = "create", !.guarded = TRUE]
    OBVIOUS
  <2>2. r \in Run /\ r.phase = "create"
    BY <1>1, <2>1 DEF Run, Holding
  <2>3. tab' = [tab EXCEPT ![t] = r] /\ UNCHANGED folder
    BY <1>2, <1>3, <2>1 DEF OpenFolder, folder
  <2>4. PathInv(t, r)
    BY <1>3, <2>2 DEF PathInv, Beginning, Missing, FolderEmpty
  <2> QED
    BY <2>2, <2>3, <2>4, QuietOwn DEF OpenFolder
<1>4. CASE Matching(t)
  <2>1. PICK r : r = [tab[t] EXCEPT !.phase = "survey", !.claimed = marker.claimed,
                                    !.created = marker.created]
    OBVIOUS
  <2>2. r \in Run /\ r.phase = "survey" /\ r.guarded = tab[t].guarded
    BY <1>1, <2>1 DEF Run, Holding, SaveInv, Markers
  <2>3. tab' = [tab EXCEPT ![t] = r] /\ UNCHANGED folder
    BY <1>2, <1>4, <2>1 DEF OpenFolder, folder
  <2>4. edits = 0 => ~tab[t].guarded
    BY DEF OwnInv, PathInv, OpenFolder, At
  <2>5. edits = 0 => PathInv(t, r)
    BY <2>2, <2>4 DEF PathInv, Beginning, Missing
  <2> QED
    BY <2>2, <2>3, <2>5, QuietOwn DEF OpenFolder
<1>5. CASE OnlyUnfilledMarker(t)
  <2>1. PICK r : r = Moved(t, "create")
    OBVIOUS
  <2>2. r \in Run /\ r.phase = "create"
    BY <2>1, MovedIsRun DEF SaveInv, Holding
  <2>3. tab' = [tab EXCEPT ![t] = r] /\ marker' = NoMarker
    BY <1>2, <1>5, <2>1 DEF OpenFolder, Moved
  <2>4. NoFiles /\ NoFiles'
    BY <1>5 DEF OnlyUnfilledMarker, NoFiles, OpenFolder
  <2>5. PathInv(t, r)'
    BY <2>2, <2>4 DEF PathInv, Beginning, Missing
  <2> QED
    BY <1>1, <2>2, <2>3, <2>4, <2>5, BlankMarkerOwn DEF OpenFolder
<1>6. CASE ~FolderEmpty /\ ~Matching(t) /\ ~OnlyUnfilledMarker(t)
  <2>1. PICK r : r = Moved(t, "compare")
    OBVIOUS
  <2>2. r \in Run /\ r.phase = "compare" /\ r.round = tab[t].round
    BY <1>1, <2>1, MovedIsRun DEF SaveInv, Holding, Moved, Run
  <2>3. tab' = [tab EXCEPT ![t] = r] /\ UNCHANGED folder
    BY <1>6, <2>1 DEF OpenFolder, Moved, folder
  <2>4. edits = 0 => tab[t].round = "before"
    BY DEF OwnInv, PathInv, OpenFolder, At
  <2>5. edits = 0 => PathInv(t, r)
    BY <1>6, <2>2, <2>4 DEF PathInv, Beginning, Missing
  <2> QED
    BY <2>2, <2>3, <2>5, QuietOwn DEF OpenFolder
<1> QED
  BY <1>3, <1>4, <1>5, <1>6

LEMMA AcquireOwn ==
  ASSUME SaveInv, OwnInv, NEW t \in Tabs, Acquire(t)
  PROVE  OwnInv'
<1>1. PICK r : r = [Idle EXCEPT !.phase = "open"]
  OBVIOUS
<1>2. r \in Run /\ r.phase = "open" /\ ~r.guarded /\ r.round = "before"
  <2>1. Idle \in Run /\ ~Idle.guarded /\ Idle.round = "before"
    BY DEF Idle, Run, Stopped
  <2> QED
    BY <1>1, <2>1 DEF Run, Holding
<1>3. PathInv(t, r)
  BY <1>2 DEF PathInv, Beginning, Missing
<1> QED
  BY <1>1, <1>2, <1>3, QuietOwn DEF Acquire

LEMMA DieOwn ==
  ASSUME SaveInv, OwnInv, NEW t \in Tabs, Die(t)
  PROVE  OwnInv'
<1>1. Idle \in Run /\ Idle.phase = "idle"
  BY DEF Idle, Run, Stopped
<1>2. PathInv(t, Idle)
  BY <1>1, NothingReliedOn DEF Stopped
<1> QED
  BY <1>1, <1>2, QuietOwn DEF Die

(* What the folder holds while the marker is created or restored.           *)
LEMMA CreateMarkerOwn ==
  ASSUME SaveInv, OwnInv, NEW t \in Tabs, CreateMarker(t)
  PROVE  OwnInv'
<1>1. lock = t
  BY HolderSaves DEF CreateMarker, Holding
<1>2. PICK phase \in {"fill", "refill"} :
        Goto(t, phase) /\ (phase = "fill" <=> At(t, "create"))
  BY DEF CreateMarker
<1>3. PICK r : r = Moved(t, phase)
  OBVIOUS
<1>4. r \in Run /\ r.phase = phase
  BY <1>3, MovedIsRun DEF SaveInv, Holding
<1>5. edits = 0 => IF phase = "fill" THEN NoFiles ELSE Complete(Mine(t))
  BY <1>2 DEF OwnInv, PathInv, Beginning, CreateMarker, At
<1>6. edits = 0 => IF phase = "fill" THEN NoFiles' ELSE Complete(Mine(t))'
  BY <1>5 DEF NoFiles, Complete, Mine, CreateMarker, outside
<1>7. edits = 0 => PathInv(t, r)'
  BY <1>2, <1>4, <1>6 DEF PathInv, Beginning, Missing
<1> QED
  BY <1>1, <1>2, <1>3, <1>4, <1>5, <1>7, BlankMarkerOwn DEF CreateMarker, Goto, Moved

LEMMA FillMarkerOwn ==
  ASSUME SaveInv, OwnInv, NEW t \in Tabs, FillMarker(t)
  PROVE  OwnInv'
<1>1. lock = t
  BY HolderSaves DEF FillMarker, Holding
<1>2. PICK phase \in {"survey", "idle"} :
        Goto(t, phase) /\ (phase = "survey" <=> At(t, "fill"))
  BY DEF FillMarker, Leave
<1>3. PICK r : r = Moved(t, phase)
  OBVIOUS
<1>4. r \in Run /\ r.phase = phase
  BY <1>2, <1>3, MovedIsRun DEF SaveInv, Holding, Stopped
<1>5. edits = 0 => IF phase = "survey" THEN NoFiles' ELSE Complete(Mine(t))'
  BY <1>2 DEF OwnInv, PathInv, Beginning, FillMarker, At, NoFiles, Complete, Mine, outside
<1>6. edits = 0 => \A i \in Files : disk'[i] # "blank"
  BY <1>5, HolderSaves, ContentsDiffer DEF NoFiles, Complete, Mine, FillMarker, outside
<1>7. edits = 0 => PathInv(t, r)'
  BY <1>2, <1>4, <1>5 DEF PathInv, Beginning, Missing
<1>8. marker' = Journal(Mine(t), tab[t].claimed, tab[t].created)
  BY DEF FillMarker, Encoded
<1>9. tab' = [tab EXCEPT ![t] = r] /\ UNCHANGED <<edits, holds>>
  BY <1>2, <1>3 DEF Goto, Moved, FillMarker, outside
<1> QED
  BY <1>1, <1>4, <1>6, <1>7, <1>8, <1>9, JournalOwn

(* The save stops and may take the marker with it.                          *)
LEMMA DropOwn ==
  ASSUME SaveInv, OwnInv, NEW t \in Tabs, lock = t, NEW phase \in Stopped, Goto(t, phase),
         UNCHANGED <<disk, stranger, outside>>, marker' \in {marker, NoMarker},
         marker' = NoMarker /\ edits = 0 => NoFiles \/ Complete(Mine(t))
  PROVE  OwnInv'
<1>1. PICK r : r = Moved(t, phase)
  OBVIOUS
<1>2. r \in Run /\ r.phase = phase
  BY <1>1, MovedIsRun DEF SaveInv
<1>3. tab' = [tab EXCEPT ![t] = r]
  BY <1>1 DEF Goto, Moved
<1>4. CASE marker' = marker
  BY <1>4, StopOwn DEF folder
<1>5. CASE marker' = NoMarker
  <2>1. PathInv(t, r)'
    BY <1>2 DEF Stopped, PathInv, Beginning, Missing
  <2> QED
    BY <1>2, <1>3, <1>5, <2>1, BlankMarkerOwn
<1> QED
  BY <1>4, <1>5

LEMMA MarkerFailsOwn ==
  ASSUME SaveInv, OwnInv, NEW t \in Tabs, MarkerFails(t)
  PROVE  OwnInv'
<1>1. lock = t
  BY HolderSaves DEF MarkerFails, Holding
<1>2. edits = 0 => NoFiles \/ Complete(Mine(t))
  BY DEF OwnInv, PathInv, Beginning, MarkerFails
<1> QED
  BY <1>1, <1>2, DropOwn DEF MarkerFails, Leave, Stopped

LEMMA SurveyOwn ==
  ASSUME SaveInv, OwnInv, NEW t \in Tabs, Survey(t) \/ SurveyFails(t)
  PROVE  OwnInv'
<1>1. lock = t
  BY HolderSaves DEF Survey, SurveyFails, At, Holding
<1>2. edits = 0 /\ tab[t].guarded => NoFiles
  BY DEF OwnInv, PathInv, Beginning, Survey, SurveyFails, At
<1>3. CASE \E phase \in Stopped : Goto(t, phase) /\ marker' \in {marker} \cup (IF tab[t].guarded THEN {NoMarker} ELSE {})
  <2>1. marker' = NoMarker /\ marker' # marker => tab[t].guarded
    BY <1>3
  <2>2. CASE marker' = marker
    BY <1>3, <2>2, StopOwn DEF Survey, SurveyFails, folder
  <2>3. CASE marker' # marker
    BY <1>1, <1>2, <1>3, <2>1, <2>3, DropOwn DEF Survey, SurveyFails
  <2> QED
    BY <2>2, <2>3
<1>4. CASE Goto(t, "file") /\ UNCHANGED marker
  BY <1>4, StopOwn DEF Survey, SurveyFails, folder
<1> QED
  BY <1>3, <1>4 DEF Survey, SurveyFails, Leave, Stopped

(* In its turn a save has claimed every empty file.                         *)
LEMMA EmptyIsClaimed ==
  ASSUME SaveInv, OwnInv, NEW t \in Tabs, tab[t].phase \in Writing, edits = 0
  PROVE  \A i \in Files : disk[i] = "blank" => i \in tab[t].claimed
<1>1. marker.claimed = tab[t].claimed
  BY TurnStays DEF Journal
<1> QED
  BY <1>1 DEF OwnInv, TreeInv

(* A file's turn ends, or goes on to its writing, with a journal that       *)
(* claims no less.                                                          *)
LEMMA TurnOwn ==
  ASSUME SaveInv, OwnInv, NEW t \in Tabs, tab[t].phase \in Writing, NEW r \in Run,
         r.phase \in {"file", "write", "refused"}, Update(t, r),
         edits = 0 => tab[t].claimed \subseteq r.claimed,
         UNCHANGED <<disk, stranger, outside>>
  PROVE  OwnInv'
<1>1. PathInv(t, r)'
  BY DEF PathInv, Beginning, Missing
<1>2. edits = 0 => \A i \in Files : disk'[i] = "blank" => i \in r.claimed
  BY EmptyIsClaimed
<1> QED
  BY <1>1, <1>2, TurnStays, JournalOwn DEF Update, outside

(* The file's turn ends.                                                    *)
LEMMA NextOwn ==
  ASSUME SaveInv, OwnInv, NEW t \in Tabs, tab[t].at \in Files,
         tab' = [tab EXCEPT ![t] = NextFile(t, tab[t])], UNCHANGED <<folder, outside>>
  PROVE  OwnInv'
<1>1. PICK r : r = NextFile(t, tab[t])
  OBVIOUS
<1>2. r \in Run /\ r.phase = "file"
  BY <1>1, RunsOfATurn, HolderSaves
<1> QED
  BY <1>1, <1>2, NothingReliedOn, QuietOwn

(* The turn goes on with the folder as it is.                               *)
LEMMA GoOwn ==
  ASSUME SaveInv, OwnInv, NEW t \in Tabs, tab[t].phase \in Writing,
         NEW phase \in Turns, Goto(t, phase), UNCHANGED <<folder, outside>>,
         edits = 0 => /\ phase \notin {"skip", "unclaim"}
                      /\ phase \in {"claim", "recheck", "make"} => disk[tab[t].at] = "absent"
                      /\ phase \in {"inspect", "record"} => disk[tab[t].at] = "blank"
  PROVE  OwnInv'
<1>1. PICK r : r = Moved(t, phase)
  OBVIOUS
<1>2. r \in Run /\ r.phase = phase /\ r.at = tab[t].at
  BY <1>1, MovedIsRun DEF SaveInv, Holding
<1>3. edits = 0 => PathInv(t, r)
  BY <1>2 DEF PathInv, Beginning, Missing
<1> QED
  BY <1>1, <1>2, <1>3, QuietOwn DEF Goto, Moved

LEMMA LookOwn ==
  ASSUME SaveInv, OwnInv, NEW t \in Tabs, Look(t)
  PROVE  OwnInv'
<1>1. tab[t].phase \in Writing /\ tab[t].at \in Files /\ UNCHANGED <<folder, outside>>
  BY DEF Look, OnFile, At, Writing
<1>2. CASE tab' = [tab EXCEPT ![t] = NextFile(t, tab[t])]
  BY <1>1, <1>2, NextOwn
<1>3. CASE \E phase \in {"write", "refused"} : Goto(t, phase)
  BY <1>1, <1>3, StopOwn DEF Stopped
<1>4. CASE disk[tab[t].at] = "absent" /\ \E phase \in {"make", "claim"} : Goto(t, phase)
  BY <1>1, <1>4, GoOwn
<1>5. CASE disk[tab[t].at] = "blank" /\ Goto(t, "record")
  BY <1>1, <1>5, GoOwn
<1> QED
  BY <1>2, <1>3, <1>4, <1>5 DEF Look, Leave

LEMMA ClaimOwn ==
  ASSUME SaveInv, OwnInv, NEW t \in Tabs, Claim(t)
  PROVE  OwnInv'
<1>1. /\ tab[t].phase = "claim" /\ tab[t].phase \in Writing /\ tab[t].at \in Files
      /\ Update(t, WithClaim(t)) /\ UNCHANGED <<disk, stranger, outside>>
  BY DEF Claim, OnFile, At, Writing
<1>2. edits = 0 => disk[tab[t].at] = "absent"
  BY <1>1 DEF OwnInv, PathInv, Missing
<1>3. PICK r : r = WithClaim(t)
  OBVIOUS
<1>4. /\ r \in Run /\ r.phase = "recheck" /\ r.at = tab[t].at
      /\ r.claimed = tab[t].claimed \cup {tab[t].at}
  BY <1>1, <1>3, RunsOfATurn
<1>5. edits = 0 => PathInv(t, r)'
  BY <1>1, <1>2, <1>4 DEF PathInv, Beginning, Missing
<1>6. edits = 0 => \A i \in Files : disk'[i] = "blank" => i \in r.claimed
  BY <1>1, <1>4, EmptyIsClaimed
<1>7. tab' = [tab EXCEPT ![t] = r] /\ marker' = Journal(Mine(t), r.claimed, r.created)
  BY <1>1, <1>3 DEF Update
<1> QED
  BY <1>1, <1>4, <1>5, <1>6, <1>7, TurnStays, JournalOwn DEF outside

LEMMA RecordOwn ==
  ASSUME SaveInv, OwnInv, NEW t \in Tabs, Record(t)
  PROVE  OwnInv'
<1>1. /\ tab[t].phase \in Writing /\ tab[t].at \in Files
      /\ Update(t, AsCreated(t)) /\ UNCHANGED <<disk, stranger, outside>>
  BY DEF Record, OnFile, At, Writing
<1>2. PICK r : r = AsCreated(t)
  OBVIOUS
<1>3. r \in Run /\ r.phase = "write" /\ r.claimed = tab[t].claimed
  BY <1>1, <1>2, RunsOfATurn
<1> QED
  BY <1>1, <1>2, <1>3, TurnOwn

(* The claim of a file that appeared in between is taken back: somebody     *)
(* edited the folder.                                                       *)
LEMMA WithdrawOwn ==
  ASSUME SaveInv, OwnInv, NEW t \in Tabs, tab[t].phase \in Writing, tab[t].at \in Files,
         edits # 0, UNCHANGED <<disk, stranger, outside>>,
         \/ Update(t, NextFile(t, WithoutClaim(t)))
         \/ Update(t, [WithoutClaim(t) EXCEPT !.phase = "refused"])
  PROVE  OwnInv'
<1>1. PICK w \in Run : w = WithoutClaim(t) /\ w.at = tab[t].at
  BY RunsOfATurn
<1>2. CASE Update(t, NextFile(t, w))
  <2>1. PICK r : r = NextFile(t, w)
    OBVIOUS
  <2>2. r \in Run /\ r.phase = "file"
    BY <1>1, <2>1, RunsOfATurn
  <2> QED
    BY <1>2, <2>1, <2>2, TurnOwn
<1>3. CASE Update(t, [w EXCEPT !.phase = "refused"])
  <2>1. PICK r : r = [w EXCEPT !.phase = "refused"]
    OBVIOUS
  <2>2. r \in Run /\ r.phase = "refused"
    BY <1>1, <2>1 DEF Run, Stopped
  <2> QED
    BY <1>3, <2>1, <2>2, TurnOwn
<1> QED
  BY <1>1, <1>2, <1>3

LEMMA UnclaimOwn ==
  ASSUME SaveInv, OwnInv, NEW t \in Tabs, Unclaim(t)
  PROVE  OwnInv'
<1>1. /\ tab[t].phase \in {"skip", "unclaim"} /\ tab[t].phase \in Writing /\ tab[t].at \in Files
      /\ UNCHANGED <<disk, stranger, outside>>
  BY DEF Unclaim, OnFile, At, Writing
<1>2. edits # 0
  BY <1>1 DEF OwnInv, PathInv
<1> QED
  BY <1>1, <1>2, WithdrawOwn DEF Unclaim

LEMMA RecheckOwn ==
  ASSUME SaveInv, OwnInv, NEW t \in Tabs, Recheck(t)
  PROVE  OwnInv'
<1>1. /\ tab[t].phase = "recheck" /\ tab[t].phase \in Writing
      /\ UNCHANGED <<folder, outside>>
  BY DEF Recheck, OnFile, At, Writing
<1>2. edits = 0 => disk[tab[t].at] = "absent"
  BY <1>1 DEF OwnInv, PathInv, Missing
<1>3. CASE disk[tab[t].at] = "absent"
  <2>1. Goto(t, "make")
    BY <1>3, HolderSaves, ContentsDiffer DEF Recheck
  <2> QED
    BY <1>1, <1>3, <2>1, GoOwn
<1>4. CASE disk[tab[t].at] # "absent"
  <2>1. \E phase \in {"skip", "unclaim"} : Goto(t, phase)
    BY <1>4 DEF Recheck
  <2> QED
    BY <1>1, <1>2, <1>4, <2>1, GoOwn
<1> QED
  BY <1>3, <1>4

LEMMA InspectOwn ==
  ASSUME SaveInv, OwnInv, NEW t \in Tabs, Inspect(t)
  PROVE  OwnInv'
<1>1. /\ tab[t].phase = "inspect" /\ tab[t].phase \in Writing
      /\ UNCHANGED <<folder, outside>>
  BY DEF Inspect, OnFile, At, Writing
<1>2. edits = 0 => disk[tab[t].at] = "blank"
  BY <1>1 DEF OwnInv, PathInv
<1>3. CASE disk[tab[t].at] = "blank" /\ Goto(t, "record")
  BY <1>1, <1>3, GoOwn
<1>4. CASE disk[tab[t].at] # "blank" /\ Goto(t, "unclaim")
  BY <1>1, <1>2, <1>4, GoOwn
<1>5. CASE \E phase \in {"idle", "refused"} : Goto(t, phase)
  BY <1>1, <1>5, StopOwn DEF Stopped
<1> QED
  BY <1>3, <1>4, <1>5 DEF Inspect, Leave

LEMMA MakeOwn ==
  ASSUME SaveInv, OwnInv, NEW t \in Tabs, Make(t)
  PROVE  OwnInv'
<1>1. tab[t].phase = "make" /\ tab[t].phase \in Writing /\ tab[t].at \in Files
  BY DEF Make, OnFile, At, Writing
<1>2. PICK phase \in {"write", "inspect"} :
        Goto(t, phase) /\ (phase = "inspect" => ~Created(t))
  BY DEF Make
<1>3. PICK r : r = Moved(t, phase)
  OBVIOUS
<1>4. r \in Run /\ r.phase = phase /\ r.at = tab[t].at
  BY <1>3, MovedIsRun DEF SaveInv, Holding
<1>5. disk \in [Files -> Contents] /\ tab[t].at \in tab[t].claimed
  BY <1>1, HolderSaves DEF SaveInv, TypeOK, RunInv, TurnInv
<1>6. edits = 0 /\ phase = "inspect" => disk'[tab[t].at] = "blank"
  BY <1>1, <1>2, <1>5 DEF OwnInv, PathInv, Missing, Created, Make
<1>7. edits = 0 => PathInv(t, r)'
  BY <1>4, <1>6 DEF PathInv, Beginning, Missing
<1>8. edits = 0 => \A i \in Files : disk'[i] = "blank" => i \in tab[t].claimed
  BY <1>1, <1>5, EmptyIsClaimed DEF Make
<1>9. marker' = Journal(Mine(t), tab[t].claimed, tab[t].created)
  BY <1>1, TurnStays DEF Make
<1>10. tab' = [tab EXCEPT ![t] = r] /\ UNCHANGED <<edits, holds>>
  BY <1>2, <1>3 DEF Goto, Moved, Make, outside
<1> QED
  BY <1>1, <1>4, <1>7, <1>8, <1>9, <1>10, TurnStays, JournalOwn

LEMMA WriteOwn ==
  ASSUME SaveInv, OwnInv, NEW t \in Tabs, Write(t)
  PROVE  OwnInv'
<1>1. tab[t].phase = "write" /\ tab[t].phase \in Writing /\ tab[t].at \in Files
  BY DEF Write, OnFile, At, Writing
<1>2. CASE disk[tab[t].at] = "absent"
  BY <1>2, StopOwn DEF Write, Leave, Stopped, folder, outside
<1>3. CASE disk[tab[t].at] # "absent"
  <2>1. PICK r : r = NextFile(t, tab[t])
    OBVIOUS
  <2>2. r \in Run /\ r.phase = "file"
    BY <1>1, <2>1, RunsOfATurn, HolderSaves
  <2>3. PathInv(t, r)'
    BY <2>2 DEF PathInv, Beginning, Missing
  <2>4. disk' = [disk EXCEPT ![tab[t].at] = Mine(t)] /\ disk \in [Files -> Contents]
    BY <1>3 DEF Write, SaveInv, TypeOK
  <2>5. Mine(t) # "blank"
    BY HolderSaves, ContentsDiffer
  <2>6. edits = 0 => \A i \in Files : disk'[i] = "blank" => i \in tab[t].claimed
    BY <1>1, <2>4, <2>5, EmptyIsClaimed
  <2>7. marker' = Journal(Mine(t), tab[t].claimed, tab[t].created)
    BY <1>1, TurnStays DEF Write
  <2>8. tab' = [tab EXCEPT ![t] = r] /\ UNCHANGED <<edits, holds>>
    BY <1>3, <2>1 DEF Write
  <2> QED
    BY <1>1, <2>2, <2>3, <2>6, <2>7, <2>8, TurnStays, JournalOwn
<1> QED
  BY <1>2, <1>3

LEMMA CompareOwn ==
  ASSUME SaveInv, OwnInv, NEW t \in Tabs, Compare(t)
  PROVE  OwnInv'
<1>1. Matching(t)
  <2>1. tab[t].phase \in Writing
    BY DEF Compare, At, Writing
  <2> QED
    BY <2>1, TurnStays DEF Matching, Journal
<1>2. PICK r : r = Moved(t, "compare")
  OBVIOUS
<1>3. r \in Run /\ r.phase = "compare"
  BY <1>2, MovedIsRun DEF SaveInv, Holding
<1>4. PathInv(t, r)
  BY <1>1, <1>3 DEF PathInv, Beginning, Missing
<1> QED
  BY <1>2, <1>3, <1>4, QuietOwn DEF Compare, Goto, Moved

(* The marker that is restored was removed from a complete tree.            *)
LEMMA DisprovedOwn ==
  ASSUME SaveInv, OwnInv, NEW t \in Tabs, tab[t].phase \in {"compare", "read"}, Disproved(t),
         UNCHANGED <<folder, outside>>
  PROVE  OwnInv'
<1>1. CASE ~Matching(t) /\ tab[t].round = "after" /\ Goto(t, "restore")
  <2>1. edits = 0 => Complete(Mine(t))
    BY <1>1 DEF OwnInv, PathInv
  <2>2. PICK r : r = Moved(t, "restore")
    OBVIOUS
  <2>3. r \in Run /\ r.phase = "restore"
    BY <2>2, MovedIsRun DEF SaveInv, Holding
  <2>4. edits = 0 => PathInv(t, r)
    BY <2>1, <2>3 DEF PathInv, Beginning, Missing
  <2> QED
    BY <1>1, <2>2, <2>3, <2>4, QuietOwn DEF Goto, Moved
<1>2. CASE \E phase \in {"idle", "refused"} : Leave(t, phase)
  BY <1>2, StopOwn DEF Leave, Stopped
<1> QED
  BY <1>1, <1>2 DEF Disproved

(* The comparison goes on.                                                  *)
LEMMA ReadingOwn ==
  ASSUME SaveInv, OwnInv, NEW t \in Tabs, tab[t].phase \in {"compare", "read"}, NEW r \in Run,
         r.phase = "read", r.round = tab[t].round, tab' = [tab EXCEPT ![t] = r],
         UNCHANGED <<folder, outside>>
  PROVE  OwnInv'
<1>1. edits = 0 => PathInv(t, r)
  BY DEF OwnInv, PathInv, Beginning, Missing
<1> QED
  BY <1>1, QuietOwn

LEMMA EnumerateOwn ==
  ASSUME SaveInv, OwnInv, NEW t \in Tabs, Enumerate(t)
  PROVE  OwnInv'
<1>1. tab[t] \in Run /\ tab[t].phase = "compare" /\ UNCHANGED <<folder, outside>>
  BY HolderSaves DEF Enumerate, At
<1>2. CASE Disproved(t)
  BY <1>1, <1>2, DisprovedOwn
<1>3. CASE tab' = [tab EXCEPT ![t].phase = "read", ![t].at = 1, ![t].looked = edits]
  <2>1. PICK r : r = [tab[t] EXCEPT !.phase = "read", !.at = 1, !.looked = edits]
    OBVIOUS
  <2>2. r \in Run /\ r.phase = "read" /\ r.round = tab[t].round
    <3>1. 1 \in 1 .. NumFiles + 1 /\ edits \in Nat
      BY DEF SaveInv
    <3> QED
      BY <1>1, <2>1, <3>1 DEF Run, Holding
  <2>3. tab' = [tab EXCEPT ![t] = r]
    BY <1>1, <1>3, <2>1 DEF SaveInv
  <2> QED
    BY <1>1, <2>2, <2>3, ReadingOwn
<1> QED
  BY <1>2, <1>3 DEF Enumerate

LEMMA ReadFileOwn ==
  ASSUME SaveInv, OwnInv, NEW t \in Tabs, ReadFile(t)
  PROVE  OwnInv'
<1>1. /\ tab[t] \in Run /\ tab[t].phase = "read" /\ tab[t].at \in Files
      /\ UNCHANGED <<folder, outside>>
  BY HolderSaves DEF ReadFile, OnFile, At
<1>2. CASE Disproved(t)
  BY <1>1, <1>2, DisprovedOwn
<1>3. CASE tab' = [tab EXCEPT ![t].at = @ + 1]
  <2>1. PICK r : r = [tab[t] EXCEPT !.at = @ + 1]
    OBVIOUS
  <2>2. r \in Run /\ r.phase = "read" /\ r.round = tab[t].round
    <3>1. tab[t].at + 1 \in 1 .. NumFiles + 1
      BY <1>1 DEF Files
    <3> QED
      BY <1>1, <2>1, <3>1 DEF Run
  <2>3. tab' = [tab EXCEPT ![t] = r]
    BY <1>3, <2>1 DEF SaveInv
  <2> QED
    BY <1>1, <2>2, <2>3, ReadingOwn
<1> QED
  BY <1>2, <1>3 DEF ReadFile

LEMMA VerifiedOwn ==
  ASSUME SaveInv, OwnInv, NEW t \in Tabs, Verified(t)
  PROVE  OwnInv'
<1>1. /\ lock = t /\ tab[t] \in Run /\ CompareInv(t, tab[t]) /\ edits \in Nat
      /\ tab[t].phase = "read" /\ tab[t].at = NumFiles + 1
  <2>1. tab[t].at \in 1 .. NumFiles + 1 /\ tab[t].at \notin Files
    BY HolderSaves DEF Verified, Run
  <2> QED
    BY <2>1, HolderSaves DEF Verified, At, Holding, RunInv, SaveInv, Files
<1>2. CASE Matching(t)
  <2>1. edits = 0 => Complete(Mine(t))
    <3>1. edits = 0 => tab[t].looked = edits
      BY <1>1 DEF CompareInv, Run
    <3>2. \A i \in Files : i < NumFiles + 1
      BY DEF Files
    <3> QED
      BY <1>1, <3>1, <3>2 DEF CompareInv, Complete
  <2>2. PICK r : r = [tab[t] EXCEPT !.phase = "compare", !.round = "after", !.unmarked = edits]
    OBVIOUS
  <2>3. r \in Run /\ r.phase = "compare" /\ r.round = "after"
    BY <1>1, <2>2 DEF Run, Holding
  <2>4. tab' = [tab EXCEPT ![t] = r] /\ marker' = NoMarker
    BY <1>2, <2>2 DEF Verified, SaveInv
  <2>5. edits = 0 => Complete(Mine(t))'
    BY <2>1 DEF Complete, Mine, Verified, outside
  <2>6. edits = 0 => PathInv(t, r)'
    BY <2>3, <2>5 DEF PathInv, Beginning, Missing
  <2> QED
    BY <1>1, <2>1, <2>3, <2>4, <2>6, BlankMarkerOwn DEF Verified
<1>3. CASE ~Matching(t)
  BY <1>3, StopOwn DEF Verified, Leave, Stopped, folder
<1> QED
  BY <1>2, <1>3

LEMMA FailOwn ==
  ASSUME SaveInv, OwnInv, NEW t \in Tabs, Fail(t)
  PROVE  OwnInv'
<1>1. CASE tab[t].phase \in {"compare", "read"}
  BY <1>1, DisprovedOwn DEF Fail
<1>2. CASE tab[t].phase \notin {"compare", "read"}
  BY <1>2, StopOwn DEF Fail, Leave, Stopped
<1> QED
  BY <1>1, <1>2

LEMMA InitOwn ==
  ASSUME Init
  PROVE  OwnInv
<1>1. Idle.phase = "idle" /\ \A t \in Tabs : tab[t] = Idle
  BY DEF Idle, Init
<1>2. \A t \in Tabs : PathInv(t, tab[t])
  BY <1>1, NothingReliedOn DEF Stopped
<1>3. MarkerInv
  BY DEF Init, MarkerInv, NoMarker, Journal
<1>4. TreeInv
  <2>1. \A i \in Files : disk[i] \in {"absent", "users"}
    BY DEF Init
  <2> QED
    BY <2>1 DEF TreeInv, NoFiles
<1> QED
  BY <1>2, <1>3, <1>4 DEF OwnInv

LEMMA NextOwns ==
  ASSUME SaveInv, OwnInv, [Next]_vars
  PROVE  OwnInv'
<1>1. CASE UNCHANGED vars
  BY <1>1 DEF vars, OwnInv, MarkerInv, TreeInv, PathInv, NoFiles, Complete, Mine, Matching,
     FolderEmpty, OnlyUnfilledMarker
<1>2. CASE Edit
  <2>1. edits' # 0 /\ marker' = marker
    BY <1>2 DEF Edit, SaveInv
  <2> QED
    BY <2>1 DEF OwnInv, MarkerInv
<1>3. ASSUME NEW t \in Tabs, Save(t)
      PROVE  OwnInv'
  BY <1>3, StopOwn DEF Save, Stopped
<1>4. ASSUME NEW t \in Tabs, Work(t)
      PROVE  OwnInv'
  BY <1>4, OpenFolderOwn, CreateMarkerOwn, FillMarkerOwn, SurveyOwn, LookOwn, ClaimOwn,
     RecheckOwn, UnclaimOwn, MakeOwn, InspectOwn, RecordOwn, WriteOwn, CompareOwn, EnumerateOwn, ReadFileOwn,
     VerifiedOwn DEF Work
<1>5. ASSUME NEW t \in Tabs, Faulty(t)
      PROVE  OwnInv'
  BY <1>5, MarkerFailsOwn, SurveyOwn, FailOwn, DieOwn DEF Faulty
<1> QED
  BY <1>1, <1>2, <1>3, <1>4, <1>5, AcquireOwn DEF Next

(* While nobody edits the folder, a save finds in it what earlier saves of  *)
(* this transfer, or nobody, have left.                                     *)
THEOREM AlwaysOwn == Spec => []OwnInv
<1>1. Init => OwnInv
  BY InitOwn
<1>2. SaveInv /\ OwnInv /\ [Next]_vars => OwnInv'
  BY NextOwns
<1> QED
  BY <1>1, <1>2, AlwaysJournaled, PTL DEF Spec

LEMMA FaultsAreCounted == Spec => [](faults \in Nat)
<1>1. Init => faults \in Nat
  BY DEF Init
<1>2. faults \in Nat /\ [Next]_vars => (faults \in Nat)'
  <2> SUFFICES ASSUME faults \in Nat, [Next]_vars PROVE faults' \in Nat
    OBVIOUS
  <2>1. ASSUME NEW t \in Tabs, Save(t) \/ Acquire(t) \/ Work(t)
        PROVE  faults' = faults
    <3>1. OpenFolder(t) \/ CreateMarker(t) \/ FillMarker(t) \/ Survey(t) => faults' = faults
      BY DEF OpenFolder, CreateMarker, FillMarker, Survey
    <3>2. Look(t) \/ Claim(t) \/ Recheck(t) \/ Unclaim(t) \/ Make(t) => faults' = faults
      BY DEF Look, Claim, Recheck, Unclaim, Make
    <3>3. Inspect(t) \/ Record(t) \/ Write(t) \/ Compare(t) => faults' = faults
      BY DEF Inspect, Record, Write, Compare
    <3>4. Enumerate(t) \/ ReadFile(t) \/ Verified(t) => faults' = faults
      BY DEF Enumerate, ReadFile, Verified
    <3> QED
      BY <2>1, <3>1, <3>2, <3>3, <3>4 DEF Save, Acquire, Work
  <2>2. ASSUME NEW t \in Tabs, Faulty(t)
        PROVE  faults' = faults + 1
    BY <2>2 DEF Faulty, MarkerFails, SurveyFails, Fail, Die, Fault
  <2> QED
    BY <2>1, <2>2 DEF Next, Edit, vars
<1> QED
  BY <1>1, <1>2, PTL DEF Spec

(* The run of a tab changes in its own steps only.                          *)
LEMMA OwnSteps ==
  ASSUME SaveInv, [Next]_vars, NEW t \in Tabs, tab'[t] # tab[t]
  PROVE  Save(t) \/ Acquire(t) \/ Work(t) \/ Faulty(t)
<1>1. PICK u \in Tabs : Save(u) \/ Acquire(u) \/ Work(u) \/ Faulty(u)
  BY DEF Next, Edit, vars
<1>2. tab \in [Tabs -> Run]
  BY DEF SaveInv
<1>3. \A r : tab' = [tab EXCEPT ![u] = r] => u = t
  BY <1>2
<1>4. \A phase : Goto(u, phase) \/ Leave(u, phase) => u = t
  BY <1>2 DEF Goto, Leave
<1>5. Disproved(u) => u = t
  BY <1>4 DEF Disproved
<1>6. \A r : Update(u, r) => u = t
  BY <1>3 DEF Update
<1>7. Save(u) \/ Acquire(u) \/ Faulty(u) => u = t
  BY <1>3, <1>4, <1>5
  DEF Save, Acquire, Faulty, MarkerFails, SurveyFails, Fail, Die
<1>8. OpenFolder(u) \/ CreateMarker(u) \/ FillMarker(u) \/ Survey(u) => u = t
  BY <1>3, <1>4 DEF OpenFolder, CreateMarker, FillMarker, Survey
<1>9. Look(u) \/ Claim(u) \/ Recheck(u) \/ Unclaim(u) => u = t
  BY <1>3, <1>4, <1>6 DEF Look, Claim, Recheck, Unclaim
<1>10. Make(u) \/ Inspect(u) \/ Record(u) \/ Write(u) \/ Compare(u) => u = t
  BY <1>3, <1>4, <1>6 DEF Make, Inspect, Record, Write, Compare
<1>11. Enumerate(u) \/ ReadFile(u) \/ Verified(u) => u = t
  BY <1>2, <1>4, <1>5 DEF Enumerate, ReadFile, Verified
<1> QED
  BY <1>1, <1>7, <1>8, <1>9, <1>10, <1>11 DEF Work

LEMMA NotRefused ==
  ASSUME SaveInv, NEW t \in Tabs, tab'[t].phase = "refused"
  PROVE  /\ \A r : tab' = [tab EXCEPT ![t] = r] => r.phase = "refused"
         /\ \A phase : Goto(t, phase) \/ Leave(t, phase) => phase = "refused"
<1>1. tab \in [Tabs -> Run] /\ tab[t] \in Run
  BY DEF SaveInv
<1>2. ASSUME NEW phase, Goto(t, phase) \/ Leave(t, phase)
      PROVE  phase = "refused"
  BY <1>1, <1>2 DEF Goto, Leave, Run
<1> QED
  BY <1>1, <1>2

(* In its turn, a save that finds the work of its transfer alone goes on.   *)
LEMMA TurnsGoOn ==
  ASSUME SaveInv, OwnInv, NEW t \in Tabs, Only(Mine(t)), tab'[t].phase = "refused",
         \/ Look(t) \/ Claim(t) \/ Recheck(t) \/ Unclaim(t)
         \/ Make(t) \/ Inspect(t) \/ Record(t) \/ Write(t)
  PROVE  FALSE
<1>1. tab[t].phase \in Writing /\ tab[t].at \in Files /\ tab[t] \in Run
  BY HolderSaves DEF Look, Claim, Recheck, Unclaim, Make, Inspect, Record, Write, OnFile, At, Writing
<1>2. edits = 0 /\ disk[tab[t].at] \in {"absent", "blank", Mine(t)} /\ PathInv(t, tab[t])
  BY <1>1 DEF Only, OwnInv
<1>3. /\ NextFile(t, tab[t]).phase # "refused" /\ AsCreated(t).phase # "refused"
      /\ WithClaim(t).phase # "refused"
  BY <1>1, RunsOfATurn
<1>4. /\ tab' # [tab EXCEPT ![t] = NextFile(t, tab[t])] /\ ~Update(t, AsCreated(t))
      /\ ~Update(t, WithClaim(t))
  BY <1>3, NotRefused DEF Update
<1>5. ~Look(t)
  <2>1. disk[tab[t].at] = "blank" => Claimed(t)
    BY <1>1, <1>2, EmptyIsClaimed DEF Claimed
  <2> QED
    BY <1>2, <1>4, <2>1, NotRefused DEF Look
<1>6. ~Claim(t) /\ ~Record(t)
  BY <1>4 DEF Claim, Record
<1>7. ~Recheck(t)
  BY NotRefused DEF Recheck
<1>8. ~Unclaim(t)
  BY <1>2 DEF PathInv, Unclaim, OnFile, At
<1>9. ~Inspect(t)
  <2>1. Inspect(t) => disk[tab[t].at] = "blank"
    BY <1>2 DEF PathInv, Inspect, OnFile, At
  <2> QED
    BY <2>1, NotRefused DEF Inspect
<1>10. ~Make(t) /\ ~Write(t)
  BY <1>4, NotRefused DEF Make, Write
<1> QED
  BY <1>5, <1>6, <1>7, <1>8, <1>9, <1>10

(* Where the work of this transfer alone is disproved, its marker was not   *)
(* restored.                                                                *)
LEMMA OwnIsDisproved ==
  ASSUME SaveInv, OwnInv, NEW t \in Tabs, Only(Mine(t)), tab'[t].phase = "refused",
         Enumerate(t) \/ ReadFile(t)
  PROVE  HalfRestored
<1>1. /\ tab[t].phase \in {"compare", "read"} /\ tab[t] \in Run /\ PathInv(t, tab[t])
      /\ edits = 0 /\ ~stranger /\ Mine(t) \in Transfers /\ lock = t
  BY HolderSaves DEF Enumerate, ReadFile, OnFile, At, Only, OwnInv, Holding
<1>2. Disproved(t)
  <2>1. tab[t].phase # "refused" /\ tab \in [Tabs -> Run]
    BY <1>1 DEF SaveInv
  <2> QED
    BY <1>1, <2>1 DEF Enumerate, ReadFile, Run
<1>3. ~Matching(t) /\ tab[t].round # "after"
  BY <1>2, NotRefused DEF Disproved
<1>4. ~FolderEmpty /\ ~OnlyUnfilledMarker(t)
  BY <1>1, <1>3 DEF PathInv
<1>5. CASE marker = NoMarker
  <2>1. ~NoFiles /\ ~\E i \in Files : disk[i] = "users"
    BY <1>1, <1>4, <1>5, ContentsDiffer DEF FolderEmpty, Only
  <2>2. PICK x \in Transfers : Complete(x)
    BY <1>1, <1>5, <2>1 DEF OwnInv, TreeInv
  <2>3. PICK i \in Files : disk[i] # "absent"
    BY <2>1 DEF NoFiles
  <2>4. x = Mine(t)
    BY <2>2, <2>3, ContentsDiffer DEF Only, Complete
  <2>5. ~Unexpected(t) /\ \A j \in Files : disk[j] = Mine(t) /\ disk[j] # "absent"
    BY <1>1, <1>5, <2>2, <2>4, ContentsDiffer DEF Unexpected, Complete
  <2>6. ~ReadFile(t)
    <3>1. tab'[t].phase # "refused" \/ ~(tab' = [tab EXCEPT ![t].at = @ + 1])
      BY <1>1 DEF SaveInv, Run
    <3> QED
      BY <2>5, <3>1 DEF ReadFile, OnFile
  <2>7. ~Enumerate(t)
    <3>1. tab'[t].phase # "refused" \/ ~(tab' = [tab EXCEPT ![t].phase = "read", ![t].at = 1, ![t].looked = edits])
      BY <1>1 DEF SaveInv, Run
    <3> QED
      BY <2>5, <3>1 DEF Enumerate
  <2> QED
    BY <2>6, <2>7
<1>6. CASE marker # NoMarker
  <2>1. marker.owner = Mine(t) /\ ~marker.whole
    BY <1>3, <1>6 DEF OwnInv, MarkerInv, Only, Matching
  <2>2. marker = Unfilled(Mine(t))
    BY <2>1 DEF OwnInv, MarkerInv
  <2> QED
    BY <1>1, <1>4, <2>1, <2>2 DEF OnlyUnfilledMarker, NoFiles, HalfRestored
<1> QED
  BY <1>5, <1>6

(* Whatever failed or died before, the next attempt of the same transfer is *)
(* refused its own work only where the restoration of the marker stopped    *)
(* half-way.                                                                *)
THEOREM OwnWorkIsResumed == Spec => NeverRefusesItself
<1>1. ASSUME SaveInv, OwnInv, faults \in Nat, [Next]_vars
      PROVE  \A t \in Tabs : Refuses(t) /\ Only(Mine(t)) => HalfRestored
  <2> SUFFICES ASSUME NEW t \in Tabs, Refuses(t), Only(Mine(t)) PROVE HalfRestored
    OBVIOUS
  <2>1. tab'[t].phase = "refused" /\ tab[t].phase # "refused" /\ faults' = faults
    BY DEF Refuses
  <2>2. Save(t) \/ Acquire(t) \/ Work(t) \/ Faulty(t)
    BY <1>1, <2>1, OwnSteps
  <2>3. ~Faulty(t)
    BY <1>1, <2>1 DEF Faulty, MarkerFails, SurveyFails, Fail, Die, Fault
  <2>4. ~Save(t) /\ ~Acquire(t)
    <3>1. PICK r : r = [Idle EXCEPT !.phase = "open"]
      OBVIOUS
    <3>2. r.phase = "open"
      BY <3>1 DEF Idle
    <3> QED
      BY <1>1, <2>1, <3>1, <3>2, NotRefused DEF Save, Acquire
  <2>5. ~OpenFolder(t)
    <3>1. tab[t] \in Run
      BY <1>1, HolderSaves
    <3>2. PICK create : create = [tab[t] EXCEPT !.phase = "create", !.guarded = TRUE]
      OBVIOUS
    <3>3. PICK survey : survey = [tab[t] EXCEPT !.phase = "survey", !.claimed = marker.claimed,
                                                !.created = marker.created]
      OBVIOUS
    <3>4. create.phase = "create" /\ survey.phase = "survey"
      BY <3>1, <3>2, <3>3 DEF Run
    <3>5. OpenFolder(t) =>
            \/ tab' = [tab EXCEPT ![t] = create] \/ tab' = [tab EXCEPT ![t] = survey]
            \/ Goto(t, "create") \/ Goto(t, "compare")
      BY <3>2, <3>3 DEF OpenFolder, Goto
    <3> QED
      BY <1>1, <2>1, <3>4, <3>5, NotRefused
  <2>6. ~(CreateMarker(t) \/ FillMarker(t) \/ Survey(t) \/ Compare(t))
    BY <1>1, <2>1, NotRefused DEF CreateMarker, FillMarker, Survey, Compare, Only
  <2>7. ~Verified(t)
    <3>1. tab \in [Tabs -> Run] /\ tab[t] \in Run
      BY <1>1 DEF SaveInv
    <3>2. tab'[t].phase # "refused"
          \/ ~(tab' = [tab EXCEPT ![t].phase = "compare", ![t].round = "after", ![t].unmarked = edits])
      BY <3>1 DEF Run
    <3> QED
      BY <1>1, <2>1, <3>2, NotRefused DEF Verified
  <2>8. CASE Enumerate(t) \/ ReadFile(t)
    BY <1>1, <2>1, <2>8, OwnIsDisproved
  <2> QED
    BY <1>1, <2>1, <2>2, <2>3, <2>4, <2>5, <2>6, <2>7, <2>8, TurnsGoOn DEF Work
<1> QED
  BY <1>1, AlwaysJournaled, AlwaysOwn, FaultsAreCounted, PTL DEF Spec, NeverRefusesItself
===============================================================================
