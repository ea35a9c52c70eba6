-------------------------- MODULE OpticalSenderProofs --------------------------
(***************************************************************************)
(* Proofs about OpticalSender for any set of tabs, any number of sources   *)
(* and any bound on the acts of users and on failures.  The invariant has  *)
(* three parts: what a page may show (PageIssued), what its loop may draw  *)
(* from (Steady, Drawing), and where the records of a page are (Backed).   *)
(***************************************************************************)
EXTENDS OpticalSender, TLAPS

USE OpticalSenderAssumption

-----------------------------------------------------------------------------
(* The invariant.                                                           *)

Phases == { "idle", "scanning", "selected", "preparing", "testing", "verified" }

Pages ==
  [ phase : Phases, sel : BOOLEAN, loading : BOOLEAN, cand : Records, session : Records,
    plan : Streams \cup { 0 }, active : Plans, play : { "no", "yes", "paused" },
    job : { "none", "scan", "prepare", "restore" }, from : Records, key : Streams \cup { 0 },
    ref : Plans, loop : Loops, queue : Seq(Operations), gone : SUBSET Streams,
    overtaken : BOOLEAN ]

TypeInv ==
  /\ page \in [ Tabs -> Pages ]
  /\ db \in [ Streams -> Records ]
  /\ newest \in Seq(Streams)
  /\ \A i, j \in DOMAIN newest : newest[i] = newest[j] => i = j
  /\ { k \in Streams : db[k] # NoRecord } = { newest[i] : i \in DOMAIN newest }
  /\ issued \subseteq Streams
  /\ held \in [ Streams -> SUBSET Tabs ]
  /\ next \in [ stream : Nat \ { 0 }, revision : Nat \ { 0 } ]
  /\ budget \in [ acts : Nat, failures : Nat ]

(* The storage calls of a page: only the first one can have its answer.    *)
Saves(op) == op.then \in { "prepare", "verify" }
Awaits(op) == Saves(op) /\ op.result = "none"
Preparation(op) == op.then = "prepare" /\ op.fresh

OpOk(p, op) ==
  /\ op.rec # NoRecord
  /\ op.kind = "save" <=> Saves(op)
  /\ op.then = "verify" => op.rec.phase = "verified"
  /\ Preparation(op) => p.job = "prepare"
  /\ op.then = "cleanup" => op.rec.key \in p.gone

Apart(a, b) ==
  /\ Awaits(a) /\ Awaits(b) => a.rec.rev # b.rec.rev
  /\ ~(Preparation(a) /\ Preparation(b))

QueueOk(p) ==
  /\ \A i \in DOMAIN p.queue : OpOk(p, p.queue[i]) /\ (i # 1 => p.queue[i].result = "none")
  /\ \A i, j \in DOMAIN p.queue : i # j => Apart(p.queue[i], p.queue[j])

(* What a page is about, whatever overtook it.                              *)
Shape(p) ==
  /\ p.phase = "testing" => p.plan # 0 /\ (p.session # NoRecord => p.session.key = p.plan)
  /\ p.job = "restore" <=> p.from # NoRecord
  /\ p.session # NoRecord => p.key = p.session.key
  /\ p.job \in { "scan", "restore" } \/ p.phase = "scanning" => ~p.sel

(* A page that no storage call overtook is about one source at a time, and  *)
(* its loop, its iterator and its playback agree on the plan.               *)
Ours(p) == { NoPlan, p.active }

Steady(p) ==
  /\ ~p.sel => p.plan = 0 /\ p.active = NoPlan
  /\ p.phase \notin { "testing", "verified" } => p.plan = 0 /\ p.active = NoPlan
  /\ p.job = "prepare" => p.sel /\ p.plan = 0 /\ p.active = NoPlan
  /\ p.job \in { "prepare", "restore" } => p.loop = NoLoop
  /\ (p.phase = "testing" \/ p.play # "no") /\ p.active # NoPlan =>
       p.ref \in Ours(p) /\ p.loop.plan \in Ours(p)

Drawing(p) ==
  /\ p.loop.plan = NoPlan => p.loop = NoLoop
  /\ p.loop.fresh /\ ~p.overtaken =>
       p.ref \in { NoPlan, p.loop.plan } /\ p.loop.using \in { NoPlan, p.loop.plan }
  /\ p.overtaken \/ Steady(p)

PageOk(p) == QueueOk(p) /\ Shape(p) /\ Drawing(p)

(* The records a page knows, and the revisions that only its saves carry.   *)
Known(p) == { p.session, p.cand, p.from } \cup { p.queue[i].rec : i \in DOMAIN p.queue }
Awaited(p) == { p.queue[i].rec.rev : i \in { j \in DOMAIN p.queue : Awaits(p.queue[j]) } }

(* Only its receipt makes a record say that a source is verified, and puts  *)
(* its Files plan into a page.                                              *)
RecordOk(r) ==
  /\ r.rev < next.revision /\ (r # NoRecord => r.rev # 0)
  /\ r.phase = "verified" => r.key \in issued

Entitled(plan) == plan.kind = "files" => plan.of \in issued

PageIssued(p) ==
  /\ \A r \in Known(p) : RecordOk(r)
  /\ Entitled(p.active) /\ Entitled(p.ref) /\ Entitled(p.loop.plan) /\ Entitled(p.loop.using)

DbOk ==
  \A k \in Streams :
    /\ RecordOk(db[k])
    /\ db[k] # NoRecord => db[k].key = k
    /\ \A t \in Tabs : db[k].rev \notin Awaited(page[t])

Cross == \A t, u \in Tabs : t # u =>
  \A r \in Known(page[u]) : r.rev \notin Awaited(page[t])

(* Whoever knows the revision in the database is counted as its holder.     *)
Holders == \A t \in Tabs : \A r \in Known(page[t]) :
  r # NoRecord /\ db[r.key].rev = r.rev => t \in held[r.key]

(* A record that nobody else had is where its page expects it, unless the   *)
(* answer of the call that changed it is still to come.                     *)
Alone(t, p, r) == r # NoRecord /\ held[r.key] \subseteq { t } /\ r.key \notin p.gone

Answering(p, k) ==
  /\ p.queue # << >> /\ p.queue[1].result = "done" /\ p.queue[1].rec.key = k
  /\ p.queue[1].then # "cleanup"

There(t, p, r) == Alone(t, p, r) => db[r.key] = r \/ Answering(p, r.key)

Backed(t, p) ==
  /\ ~p.overtaken =>
       There(t, p, p.session) /\ There(t, p, p.from) /\ (~p.sel => There(t, p, p.cand))
  /\ p.queue # << >> /\ p.queue[1].result = "done" /\ Saves(p.queue[1]) /\ Alone(t, p, p.queue[1].rec) =>
       db[p.queue[1].rec.key] = p.queue[1].rec

PagesOk == \A t \in Tabs : PageOk(page[t]) /\ PageIssued(page[t])
AllBacked == \A t \in Tabs : Backed(t, page[t])

SenderInv == TypeInv /\ PagesOk /\ DbOk /\ Cross /\ Holders /\ AllBacked
-----------------------------------------------------------------------------
(* Sequences of operations and of keys.                                     *)

LEMMA AppendFacts ==
  ASSUME NEW S, NEW q \in Seq(S), NEW x \in S
  PROVE  /\ Append(q, x) \in Seq(S) /\ DOMAIN Append(q, x) = 1 .. Len(q) + 1
         /\ Len(Append(q, x)) = Len(q) + 1 /\ DOMAIN q = 1 .. Len(q)
         /\ \A i \in DOMAIN q : Append(q, x)[i] = q[i]
         /\ Append(q, x)[Len(q) + 1] = x
         /\ Len(q) \in Nat /\ Append(q, x) # << >>
  OBVIOUS

LEMMA AppendMembers ==
  ASSUME NEW S, NEW q \in Seq(S), NEW x \in S
  PROVE  /\ \A i \in DOMAIN q : i \in DOMAIN Append(q, x) /\ Append(q, x)[i] = q[i]
         /\ \A i \in DOMAIN Append(q, x) :
              Append(q, x)[i] = x \/ (i \in DOMAIN q /\ Append(q, x)[i] = q[i])
  BY AppendFacts

LEMMA TailFacts ==
  ASSUME NEW S, NEW q \in Seq(S), q # << >>
  PROVE  /\ Tail(q) \in Seq(S) /\ DOMAIN Tail(q) = 1 .. Len(q) - 1 /\ Len(Tail(q)) = Len(q) - 1
         /\ DOMAIN q = 1 .. Len(q) /\ 1 \in DOMAIN q /\ Head(q) = q[1] /\ Head(q) \in S
         /\ \A i \in DOMAIN Tail(q) : i + 1 \in DOMAIN q /\ Tail(q)[i] = q[i + 1]
         /\ \A i \in DOMAIN q : i = 1 \/ (i - 1 \in DOMAIN Tail(q) /\ Tail(q)[i - 1] = q[i])
         /\ Len(q) \in Nat \ { 0 }
  OBVIOUS

LEMMA NothingLeft ==
  ASSUME NEW S, NEW q \in Seq(S), Len(q) = 0
  PROVE  q = << >>
  OBVIOUS

LEMMA SequenceOver ==
  ASSUME NEW S, NEW D, NEW n \in Nat, D = 1 .. n, NEW q, q = [ i \in D |-> q[i] ],
         \A i \in D : q[i] \in S
  PROVE  q \in Seq(S)
  OBVIOUS

LEMMA WithoutFacts ==
  ASSUME TypeInv, NEW k \in Streams
  PROVE  /\ Without(k) \in Seq(Streams)
         /\ { Without(k)[i] : i \in DOMAIN Without(k) } = { newest[i] : i \in DOMAIN newest } \ { k }
         /\ \A i, j \in DOMAIN Without(k) : Without(k)[i] = Without(k)[j] => i = j
<1>1. newest \in Seq(Streams) /\ Len(newest) \in Nat /\ DOMAIN newest = 1 .. Len(newest)
      /\ \A i, j \in DOMAIN newest : newest[i] = newest[j] => i = j
  BY DEF TypeInv
<1>2. CASE k \notin { newest[i] : i \in DOMAIN newest }
  BY <1>1, <1>2 DEF Without
<1>3. CASE k \in { newest[i] : i \in DOMAIN newest }
  <2> DEFINE at == CHOOSE i \in DOMAIN newest : newest[i] = k
             w == [ i \in 1 .. Len(newest) - 1 |-> newest[IF i < at THEN i ELSE i + 1] ]
  <2>1. at \in DOMAIN newest /\ newest[at] = k
    BY <1>3
  <2>2. Without(k) = w
    BY <1>3 DEF Without
  <2>a. at \in 1 .. Len(newest) /\ at \in Int
    BY <2>1, <1>1
  <2> HIDE DEF at
  <2>3. ASSUME NEW i \in 1 .. Len(newest) - 1
        PROVE  /\ w[i] = newest[IF i < at THEN i ELSE i + 1]
               /\ (IF i < at THEN i ELSE i + 1) \in DOMAIN newest \ { at }
    BY <1>1, <2>a
  <2>4. DOMAIN w = 1 .. Len(newest) - 1 /\ Len(newest) - 1 \in Nat
    BY <1>1, <2>1
  <2> HIDE DEF w
  <2>5. ASSUME NEW i \in 1 .. Len(newest) - 1 PROVE w[i] \in Streams \ { k }
    BY <2>3, <2>1, <1>1
  <2>6. w \in Seq(Streams) /\ Len(w) = Len(newest) - 1
    <3>1. w = [ i \in 1 .. Len(newest) - 1 |-> w[i] ]
      BY <2>4 DEF w
    <3> QED
      BY <3>1, <2>4, <2>5
  <2>7. ASSUME NEW j \in DOMAIN newest, newest[j] # k
        PROVE  \E i \in DOMAIN w : w[i] = newest[j]
    <3>1. CASE j < at
      <4>1. j \in 1 .. Len(newest) - 1
        BY <3>1, <2>1, <1>1
      <4> QED
        BY <4>1, <3>1, <2>3, <2>4
    <3>2. CASE j > at
      <4>1. j - 1 \in 1 .. Len(newest) - 1 /\ ~(j - 1 < at) /\ j - 1 + 1 = j
        BY <3>2, <2>1, <1>1
      <4> QED
        BY <4>1, <2>3, <2>4
    <3> QED
      BY <3>1, <3>2, <2>7, <2>1, <1>1
  <2>8. ASSUME NEW i \in DOMAIN w, NEW j \in DOMAIN w, w[i] = w[j] PROVE i = j
    <3>1. (IF i < at THEN i ELSE i + 1) = (IF j < at THEN j ELSE j + 1)
      BY <2>8, <2>3, <2>4, <1>1
    <3> QED
      BY <3>1, <2>4, <2>a, <1>1
  <2>9. { w[i] : i \in DOMAIN w } = { newest[i] : i \in DOMAIN newest } \ { k }
    BY <2>4, <2>5, <2>3, <2>7
  <2> QED
    BY <2>2, <2>6, <2>8, <2>9
<1> QED
  BY <1>2, <1>3

-----------------------------------------------------------------------------
(* One page.                                                                *)

LEMMA RecordFacts ==
  /\ NoRecord \in Records /\ NoRecord.key = 0 /\ NoRecord.rev = 0 /\ NoRecord.phase = "none"
  /\ \A r \in Records : /\ r.key \in Streams \cup { 0 } /\ r.key \in Nat /\ r.rev \in Nat
                        /\ r # NoRecord => r.key \in Streams /\ r.phase \in { "testing", "verified" }
  /\ Streams \subseteq Nat \ { 0 } /\ 0 \notin Streams
  BY DEF NoRecord, Records, Streams

LEMMA OperationFacts ==
  ASSUME NEW op \in Operations
  PROVE  /\ op.kind \in { "save", "delete" } /\ op.rec \in Records /\ op.over \in Nat
         /\ op.then \in { "prepare", "verify", "discard", "cleanup" }
         /\ op.fresh \in BOOLEAN /\ op.result \in { "none", "done", "changed", "failed" }
  BY DEF Operations

LEMMA PlanFacts ==
  /\ NoPlan \in Plans /\ NoPlan.kind = "none" /\ NoLoop \in Loops
  /\ NoLoop.plan = NoPlan /\ NoLoop.using = NoPlan /\ NoLoop.fresh = FALSE
  /\ \A s \in Streams : /\ Probe(s) \in Plans /\ Probe(s).kind = "probe" /\ Probe(s).of = s
                         /\ Files(s) \in Plans /\ Files(s).kind = "files" /\ Files(s).of = s
                         /\ Probe(s) # NoPlan /\ Files(s) # NoPlan
  /\ \A plan \in Plans : plan.kind \in { "probe", "files" } => plan.of \in Streams
  /\ Entitled(NoPlan)
<1>1. /\ NoPlan \in Plans /\ NoPlan.kind = "none" /\ NoLoop.plan = NoPlan /\ NoLoop.using = NoPlan
      /\ NoLoop.fresh = FALSE
  BY DEF NoPlan, Plans, NoLoop
<1>2. NoLoop \in Loops
  BY <1>1 DEF NoLoop, Loops
<1>3. ASSUME NEW s \in Streams
      PROVE  /\ Probe(s) \in Plans /\ Probe(s).kind = "probe" /\ Probe(s).of = s
             /\ Files(s) \in Plans /\ Files(s).kind = "files" /\ Files(s).of = s
  BY DEF Plans, Probe, Files
<1>4. ASSUME NEW plan \in Plans, plan.kind \in { "probe", "files" } PROVE plan.of \in Streams
  BY <1>4 DEF NoPlan, Plans, Probe, Files
<1> QED
  BY <1>1, <1>2, <1>3, <1>4 DEF Entitled

LEMMA StoppedLoop ==
  ASSUME NEW l \in Loops, l.fresh = FALSE
  PROVE  [ l EXCEPT !.fresh = FALSE ] = l
  BY DEF Loops

LEMMA PageFacts ==
  ASSUME NEW p \in Pages
  PROVE  /\ p.phase \in Phases /\ p.sel \in BOOLEAN /\ p.loading \in BOOLEAN
         /\ p.cand \in Records /\ p.session \in Records /\ p.from \in Records
         /\ p.plan \in Streams \cup { 0 } /\ p.active \in Plans /\ p.ref \in Plans
         /\ p.play \in { "no", "yes", "paused" } /\ p.key \in Streams \cup { 0 }
         /\ p.job \in { "none", "scan", "prepare", "restore" } /\ p.overtaken \in BOOLEAN
         /\ p.loop \in Loops /\ p.queue \in Seq(Operations) /\ p.gone \subseteq Streams
         /\ p.loop.plan \in Plans /\ p.loop.using \in Plans /\ p.loop.fresh \in BOOLEAN
         /\ DOMAIN p.queue = 1 .. Len(p.queue) /\ Len(p.queue) \in Nat
         /\ \A i \in DOMAIN p.queue : p.queue[i] \in Operations
<1>1. /\ p.loop \in Loops /\ p.queue \in Seq(Operations)
  BY DEF Pages
<1>2. /\ DOMAIN p.queue = 1 .. Len(p.queue) /\ Len(p.queue) \in Nat
      /\ \A i \in DOMAIN p.queue : p.queue[i] \in Operations
  BY <1>1
<1>3. p.loop.plan \in Plans /\ p.loop.using \in Plans /\ p.loop.fresh \in BOOLEAN
  BY <1>1 DEF Loops
<1> QED
  BY <1>1, <1>2, <1>3 DEF Pages

(* The queue of a page stays in order while the page changes around it.     *)
LEMMA QueueKept ==
  ASSUME NEW b, NEW p, QueueOk(b), p.queue = b.queue, b.gone \subseteq p.gone,
         b.job = "prepare" =>
           p.job = "prepare" \/ \A i \in DOMAIN b.queue : ~Preparation(b.queue[i])
  PROVE  QueueOk(p)
  BY DEF QueueOk, OpOk

(* What two pages have in common whose queues and jobs may differ.          *)
Alike(a, b) ==
  /\ a.phase = b.phase /\ a.sel = b.sel /\ a.cand = b.cand /\ a.session = b.session
  /\ a.plan = b.plan /\ a.active = b.active /\ a.play = b.play /\ a.key = b.key
  /\ a.ref = b.ref /\ a.gone = b.gone /\ a.overtaken = b.overtaken

SameJob(a, b) == a.job = b.job /\ a.from = b.from /\ a.loop = b.loop

(* One more storage call waits for its turn.                                *)
IsEnqueued(e, p, op) ==
  /\ e \in Pages /\ Alike(e, p) /\ SameJob(e, p) /\ QueueOk(e) /\ e.queue # << >>
  /\ \A i \in DOMAIN p.queue : i \in DOMAIN e.queue /\ e.queue[i] = p.queue[i]
  /\ p.queue # << >> => e.queue[1] = p.queue[1] /\ 1 \in DOMAIN p.queue
  /\ p.queue = << >> => e.queue[1] = op
  /\ Known(e) = Known(p) \cup { op.rec }
  /\ Awaited(e) = Awaited(p) \cup (IF Awaits(op) THEN { op.rec.rev } ELSE {})

LEMMA EnqueueOk ==
  ASSUME NEW p \in Pages, QueueOk(p), NEW op \in Operations, OpOk(p, op), op.result = "none",
         \A i \in DOMAIN p.queue : Apart(p.queue[i], op) /\ Apart(op, p.queue[i])
  PROVE  IsEnqueued(Enqueue(p, op), p, op)
<1>1. PICK e : e = Enqueue(p, op)
  OBVIOUS
<1>2. e.queue = Append(p.queue, op) /\ Alike(e, p) /\ SameJob(e, p)
  BY <1>1 DEF Enqueue, Pages, Alike, SameJob
<1>3. PICK q \in Seq(Operations) : q = p.queue
  BY PageFacts
<1>4. /\ DOMAIN e.queue = 1 .. Len(q) + 1 /\ DOMAIN q = 1 .. Len(q) /\ Len(q) \in Nat
      /\ \A i \in DOMAIN q : e.queue[i] = q[i]
      /\ e.queue[Len(q) + 1] = op /\ e.queue # << >> /\ e.queue \in Seq(Operations)
  BY <1>2, <1>3, AppendFacts
<1>5. \A i \in DOMAIN e.queue :
        \/ i \in DOMAIN q /\ e.queue[i] = q[i]
        \/ i = Len(q) + 1 /\ e.queue[i] = op
  BY <1>4
<1>6. /\ \A i \in DOMAIN q : i \in DOMAIN e.queue /\ e.queue[i] = q[i]
      /\ \E i \in DOMAIN e.queue : e.queue[i] = op
  BY <1>4
<1>7. e \in Pages
  BY <1>1, <1>4 DEF Enqueue, Pages
<1>8. /\ q # << >> => 1 \in DOMAIN q /\ e.queue[1] = q[1]
      /\ q = << >> => e.queue[1] = op
  <2>1. q # << >> => 1 \in DOMAIN q
    BY TailFacts
  <2>2. q = << >> => Len(q) + 1 = 1
    OBVIOUS
  <2> QED
    BY <1>4, <2>1, <2>2
<1>9. QueueOk(e)
  <2>1. ASSUME NEW i \in DOMAIN e.queue
        PROVE  OpOk(e, e.queue[i]) /\ (i # 1 => e.queue[i].result = "none")
    BY <1>2, <1>3, <1>5 DEF QueueOk, OpOk, Alike, SameJob
  <2>2. ASSUME NEW i \in DOMAIN e.queue, NEW j \in DOMAIN e.queue, i # j
        PROVE  Apart(e.queue[i], e.queue[j])
    BY <1>3, <1>5, <2>2 DEF QueueOk
  <2> QED
    BY <2>1, <2>2 DEF QueueOk
<1>10. Known(e) = Known(p) \cup { op.rec }
  <2>1. { e.queue[i].rec : i \in DOMAIN e.queue } = { p.queue[i].rec : i \in DOMAIN p.queue } \cup { op.rec }
    BY <1>3, <1>5, <1>6
  <2> QED
    BY <2>1, <1>2 DEF Known, Alike, SameJob
<1>11. Awaited(e) = Awaited(p) \cup (IF Awaits(op) THEN { op.rec.rev } ELSE {})
  BY <1>3, <1>5, <1>6 DEF Awaited
<1>12. IsEnqueued(e, p, op)
  BY <1>2, <1>3, <1>4, <1>6, <1>7, <1>8, <1>9, <1>10, <1>11 DEF IsEnqueued
<1> QED
  BY <1>1, <1>12

(* A new generation of the page's work: no preparation will be published.   *)
IsBumped(c, p) ==
  /\ c \in Pages /\ Alike(c, p) /\ QueueOk(c)
  /\ c.job = "none" /\ c.from = NoRecord
  /\ c.loop.plan = p.loop.plan /\ c.loop.using = p.loop.using /\ c.loop.fresh = FALSE
  /\ p.loop = NoLoop => c.loop = NoLoop
  /\ DOMAIN c.queue = DOMAIN p.queue /\ (c.queue = << >> <=> p.queue = << >>)
  /\ \A i \in DOMAIN p.queue :
       /\ c.queue[i].kind = p.queue[i].kind /\ c.queue[i].rec = p.queue[i].rec
       /\ c.queue[i].then = p.queue[i].then /\ c.queue[i].result = p.queue[i].result
       /\ ~Preparation(c.queue[i])
  /\ p.queue # << >> => 1 \in DOMAIN p.queue
  /\ Known(c) \subseteq Known(p) \cup { NoRecord } /\ Awaited(c) = Awaited(p)

LEMMA BumpOk ==
  ASSUME NEW p \in Pages, QueueOk(p)
  PROVE  IsBumped(Bump(p), p)
<1>1. PICK c : c = Bump(p)
  OBVIOUS
<1>2. PICK u \in Seq(Operations) : u = p.queue
  BY PageFacts
<1> DEFINE q == [ i \in DOMAIN u |-> Outdated(u[i]) ]
<1>3. /\ DOMAIN u = 1 .. Len(u) /\ Len(u) \in Nat /\ \A i \in DOMAIN u : u[i] \in Operations
  BY <1>2, PageFacts
<1>4. \A i \in DOMAIN u : q[i] = [ u[i] EXCEPT !.fresh = u[i].fresh /\ u[i].then # "prepare" ]
  BY DEF Outdated
<1>5. ASSUME NEW i \in DOMAIN u
      PROVE  /\ q[i].kind = u[i].kind /\ q[i].rec = u[i].rec /\ q[i].then = u[i].then
             /\ q[i].over = u[i].over
             /\ q[i].result = u[i].result /\ q[i].fresh = (u[i].fresh /\ u[i].then # "prepare")
  <2>1. u[i] \in Operations
    BY <1>3
  <2> QED
    BY <2>1, <1>4 DEF Operations
<1>6. \A i \in DOMAIN u : q[i] \in Operations
  <2> SUFFICES ASSUME NEW i \in DOMAIN u PROVE q[i] \in Operations
    OBVIOUS
  <2>1. u[i] \in Operations /\ (u[i].fresh /\ u[i].then # "prepare") \in BOOLEAN
    BY <1>3
  <2> QED
    BY <2>1, <1>4 DEF Operations
<1>7. q \in Seq(Operations) /\ DOMAIN q = DOMAIN u
  BY <1>3, <1>6, SequenceOver
<1>8. /\ c.queue = q /\ c.job = "none" /\ c.from = NoRecord
      /\ c.loop = [ p.loop EXCEPT !.fresh = FALSE ] /\ Alike(c, p)
  <2>1. c = [ p EXCEPT !.job = "none", !.from = NoRecord,
                       !.loop = [ p.loop EXCEPT !.fresh = FALSE ], !.queue = q ]
    BY <1>1, <1>2 DEF Bump, Pages
  <2> HIDE DEF q
  <2> QED
    BY <2>1 DEF Pages, Alike
<1> HIDE DEF q
<1>9. c \in Pages
  <2>1. [ p.loop EXCEPT !.fresh = FALSE ] \in Loops
    BY PageFacts DEF Loops
  <2>2. /\ c.job \in { "none", "scan", "prepare", "restore" } /\ c.from \in Records
        /\ c.queue \in Seq(Operations) /\ c.loop \in Loops
    BY <1>7, <1>8, <2>1, RecordFacts
  <2>3. c = [ p EXCEPT !.job = c.job, !.from = c.from, !.loop = c.loop, !.queue = c.queue ]
    BY <1>1 DEF Bump, Pages
  <2> QED
    BY <2>2, <2>3 DEF Pages
<1>10. /\ c.loop.plan = p.loop.plan /\ c.loop.using = p.loop.using /\ c.loop.fresh = FALSE
       /\ p.loop = NoLoop => c.loop = NoLoop
  <2>1. p.loop \in Loops
    BY PageFacts
  <2>2. p.loop = NoLoop => c.loop = NoLoop
    BY <1>8, <2>1, PlanFacts, StoppedLoop
  <2> QED
    BY <1>8, <2>1, <2>2 DEF Loops
<1>11. ASSUME NEW i \in DOMAIN u PROVE ~Preparation(q[i])
  BY <1>5 DEF Preparation
<1>12. QueueOk(c)
  <2>1. ASSUME NEW i \in DOMAIN u PROVE OpOk(c, q[i]) /\ (i # 1 => q[i].result = "none")
    <3>1. OpOk(p, u[i]) /\ (i # 1 => u[i].result = "none")
      BY <1>2 DEF QueueOk
    <3> QED
      BY <3>1, <1>5, <1>8, <1>11 DEF OpOk, Saves, Alike
  <2>2. ASSUME NEW i \in DOMAIN u, NEW j \in DOMAIN u, i # j PROVE Apart(q[i], q[j])
    <3>1. Apart(u[i], u[j])
      BY <1>2, <2>2 DEF QueueOk
    <3> QED
      BY <3>1, <1>5, <1>11 DEF Apart, Awaits, Saves
  <2> QED
    BY <1>7, <1>8, <2>1, <2>2 DEF QueueOk
<1>13. Known(c) \subseteq Known(p) \cup { NoRecord }
  <2>1. \A i \in DOMAIN q : i \in DOMAIN u /\ q[i].rec = u[i].rec
    BY <1>5, <1>7
  <2> QED
    BY <2>1, <1>2, <1>8 DEF Known, Alike
<1>14. Awaited(c) = Awaited(p)
  BY <1>2, <1>5, <1>7, <1>8 DEF Awaited, Awaits, Saves
<1>15. /\ q = << >> <=> u = << >>
       /\ u # << >> => 1 \in DOMAIN u
  <2>1. u # << >> => 1 \in DOMAIN u
    BY TailFacts
  <2>2. q # << >> => 1 \in DOMAIN q
    BY <1>7, TailFacts
  <2>3. DOMAIN << >> = {}
    OBVIOUS
  <2> QED
    BY <1>7, <2>1, <2>2, <2>3
<1>16. IsBumped(c, p)
  BY <1>2, <1>5, <1>7, <1>8, <1>9, <1>10, <1>11, <1>12, <1>13, <1>14, <1>15 DEF IsBumped
<1> QED
  BY <1>1, <1>16

(* The queue without its first storage call, which has returned.            *)
Tailed(p) == [ p EXCEPT !.queue = Tail(@) ]

IsTailed(r, p) ==
  /\ r \in Pages /\ Alike(r, p) /\ SameJob(r, p) /\ QueueOk(r) /\ r.queue = Tail(p.queue)
  /\ 1 \in DOMAIN p.queue /\ Head(p.queue) = p.queue[1] /\ Head(p.queue) \in Operations
  /\ OpOk(p, Head(p.queue)) /\ Head(p.queue).rec \in Known(p)
  /\ \A i \in DOMAIN r.queue :
       /\ Apart(Head(p.queue), r.queue[i]) /\ Apart(r.queue[i], Head(p.queue))
       /\ r.queue[i].result = "none"
  /\ r.queue # << >> => 1 \in DOMAIN r.queue
  /\ Known(r) \subseteq Known(p) /\ Awaited(r) \subseteq Awaited(p)

LEMMA TailOk ==
  ASSUME NEW p \in Pages, QueueOk(p), p.queue # << >>
  PROVE  IsTailed(Tailed(p), p)
<1>1. PICK r : r = Tailed(p)
  OBVIOUS
<1>2. Alike(r, p) /\ SameJob(r, p) /\ r.queue = Tail(p.queue)
  BY <1>1 DEF Tailed, Pages, Alike, SameJob
<1>3. PICK q \in Seq(Operations) : q = p.queue
  BY PageFacts
<1>4. /\ Tail(q) \in Seq(Operations) /\ 1 \in DOMAIN q /\ Head(q) = q[1] /\ Head(q) \in Operations
      /\ \A i \in DOMAIN Tail(q) : /\ i + 1 \in DOMAIN q /\ Tail(q)[i] = q[i + 1]
                                   /\ i + 1 # 1 /\ i \in Int
  BY <1>3, TailFacts
<1>5. r \in Pages
  BY <1>1, <1>3, <1>4 DEF Tailed, Pages
<1>6. \A i, j \in DOMAIN Tail(q) : i # j => i + 1 # j + 1
  BY <1>4
<1>7. \A i \in DOMAIN q : OpOk(p, q[i]) /\ (i # 1 => q[i].result = "none")
  BY <1>3 DEF QueueOk
<1>8. \A i, j \in DOMAIN q : i # j => Apart(q[i], q[j])
  BY <1>3 DEF QueueOk
<1>9. \A i \in DOMAIN Tail(q) : OpOk(r, Tail(q)[i]) /\ Tail(q)[i].result = "none"
  BY <1>2, <1>4, <1>7 DEF OpOk, Alike, SameJob
<1>10. \A i, j \in DOMAIN Tail(q) : i # j => Apart(Tail(q)[i], Tail(q)[j])
  BY <1>4, <1>6, <1>8
<1>11. QueueOk(r)
  BY <1>2, <1>3, <1>9, <1>10 DEF QueueOk
<1>12. \A i \in DOMAIN Tail(q) : Apart(Head(q), Tail(q)[i]) /\ Apart(Tail(q)[i], Head(q))
  BY <1>4, <1>8
<1>13. Known(r) \subseteq Known(p)
  BY <1>2, <1>3, <1>4 DEF Known, Alike, SameJob
<1>14. Awaited(r) \subseteq Awaited(p)
  BY <1>2, <1>3, <1>4 DEF Awaited
<1>15. OpOk(p, Head(q)) /\ Head(q).rec \in Known(p)
  BY <1>3, <1>4, <1>7 DEF Known
<1>16. Tail(q) # << >> => 1 \in DOMAIN Tail(q)
  BY <1>4, TailFacts
<1>17. IsTailed(r, p)
  BY <1>2, <1>3, <1>4, <1>5, <1>9, <1>11, <1>12, <1>13, <1>14, <1>15, <1>16 DEF IsTailed
<1> QED
  BY <1>1, <1>17

(* The first storage call has its answer.                                   *)
Settled(p, result) == [ p EXCEPT !.queue[1].result = result ]

IsSettled(s, p, result) ==
  /\ s \in Pages /\ Alike(s, p) /\ SameJob(s, p) /\ QueueOk(s) /\ s.queue # << >>
  /\ DOMAIN s.queue = DOMAIN p.queue
  /\ \A i \in DOMAIN p.queue :
       /\ s.queue[i].kind = p.queue[i].kind /\ s.queue[i].rec = p.queue[i].rec
       /\ s.queue[i].then = p.queue[i].then
       /\ s.queue[i].result = IF i = 1 THEN result ELSE p.queue[i].result
  /\ Known(s) = Known(p) /\ Awaited(s) \subseteq Awaited(p)
  /\ Saves(p.queue[1]) => /\ p.queue[1].rec.rev \notin Awaited(s)
                          /\ p.queue[1].rec.rev \in Awaited(p)

LEMMA SettleOk ==
  ASSUME NEW o \in Pages, QueueOk(o), o.queue # << >>, o.queue[1].result = "none",
         NEW result \in { "done", "changed", "failed" }
  PROVE  IsSettled(Settled(o, result), o, result)
<1>1. PICK q \in Seq(Operations) : q = o.queue
  BY PageFacts
<1>2. /\ DOMAIN q = 1 .. Len(q) /\ Len(q) \in Nat /\ 1 \in DOMAIN q
      /\ \A i \in DOMAIN q : q[i] \in Operations
  BY <1>1, TailFacts
<1>3. PICK r : r = [ q EXCEPT ![1] = [ q[1] EXCEPT !.result = result ] ]
  OBVIOUS
<1>4. [ q[1] EXCEPT !.result = result ] \in Operations
  BY <1>2 DEF Operations
<1>5. r \in Seq(Operations) /\ DOMAIN r = DOMAIN q
  <2>1. DOMAIN r = DOMAIN q /\ \A i \in DOMAIN q : r[i] \in Operations
    BY <1>2, <1>3, <1>4
  <2>2. r = [ i \in DOMAIN q |-> r[i] ]
    BY <1>3
  <2> QED
    BY <1>2, <2>1, <2>2, SequenceOver
<1>6. ASSUME NEW i \in DOMAIN q
      PROVE  /\ r[i].kind = q[i].kind /\ r[i].rec = q[i].rec /\ r[i].then = q[i].then
             /\ r[i].fresh = q[i].fresh /\ r[i].result = IF i = 1 THEN result ELSE q[i].result
  <2>1. r[i] = IF i = 1 THEN [ q[i] EXCEPT !.result = result ] ELSE q[i]
    BY <1>3
  <2> QED
    BY <1>2, <2>1 DEF Operations
<1>7. PICK p : p = Settled(o, result)
  OBVIOUS
<1>8. Alike(p, o) /\ SameJob(p, o) /\ p.queue = r
  BY <1>1, <1>3, <1>7 DEF Settled, Pages, Alike, SameJob
<1>9. p \in Pages
  BY <1>1, <1>3, <1>5, <1>7 DEF Settled, Pages
<1>10. r # << >>
  BY <1>2, <1>5
<1>11. \A i \in DOMAIN q : Awaits(r[i]) => Awaits(q[i]) /\ i # 1
  BY <1>6 DEF Awaits, Saves
<1>12. QueueOk(p)
  <2>1. \A i \in DOMAIN q : OpOk(p, r[i]) /\ (i # 1 => r[i].result = "none")
    <3>1. \A i \in DOMAIN q : OpOk(o, q[i]) /\ (i # 1 => q[i].result = "none")
      BY <1>1 DEF QueueOk
    <3> QED
      BY <3>1, <1>6, <1>8 DEF OpOk, Saves, Preparation, Alike, SameJob
  <2>2. \A i, j \in DOMAIN q : i # j => Apart(r[i], r[j])
    <3>1. \A i, j \in DOMAIN q : i # j => Apart(q[i], q[j])
      BY <1>1 DEF QueueOk
    <3> QED
      BY <3>1, <1>6, <1>11 DEF Apart, Preparation
  <2> QED
    BY <1>5, <1>8, <2>1, <2>2 DEF QueueOk
<1>13. Known(p) = Known(o)
  BY <1>1, <1>5, <1>6, <1>8 DEF Known, Alike, SameJob
<1>14. Awaited(p) \subseteq Awaited(o)
  BY <1>1, <1>5, <1>6, <1>8, <1>11 DEF Awaited
<1>15. ASSUME Saves(q[1])
       PROVE  q[1].rec.rev \notin Awaited(p) /\ q[1].rec.rev \in Awaited(o)
  <2>1. Awaits(q[1])
    BY <1>1, <1>15 DEF Awaits
  <2>2. \A i \in DOMAIN q : i # 1 /\ Awaits(q[i]) => q[i].rec.rev # q[1].rec.rev
    BY <1>1, <1>2, <2>1 DEF QueueOk, Apart
  <2>3. q[1].rec.rev \in Awaited(o)
    BY <1>1, <1>2, <2>1 DEF Awaited
  <2>4. ASSUME NEW i \in DOMAIN r, Awaits(r[i]) PROVE r[i].rec.rev # q[1].rec.rev
    BY <1>5, <1>6, <1>11, <2>2, <2>4
  <2> QED
    BY <1>8, <2>3, <2>4 DEF Awaited
<1>16. IsSettled(p, o, result)
  BY <1>1, <1>5, <1>6, <1>8, <1>9, <1>10, <1>12, <1>13, <1>14, <1>15 DEF IsSettled
<1> QED
  BY <1>7, <1>16

-----------------------------------------------------------------------------
(* A step of one page that leaves the database alone.                       *)

LEMMA TabFacts ==
  ASSUME SenderInv, NEW t \in Tabs
  PROVE  /\ page[t] \in Pages /\ PageIssued(page[t]) /\ Backed(t, page[t])
         /\ PageOk(page[t]) /\ QueueOk(page[t]) /\ Shape(page[t]) /\ Drawing(page[t])
         /\ NoRecord \in Records /\ db \in [ Streams -> Records ]
  BY RecordFacts DEF SenderInv, TypeInv, PagesOk, AllBacked, PageOk

LEMMA KnownIsRecord ==
  ASSUME NEW p \in Pages, NEW r \in Known(p)
  PROVE  r \in Records
  BY PageFacts, OperationFacts DEF Known

LEMMA AwaitedIsKnown ==
  ASSUME SenderInv, NEW t \in Tabs, NEW v \in Awaited(page[t])
  PROVE  /\ \E r \in Known(page[t]) : r # NoRecord /\ r.rev = v
         /\ v \in Nat /\ v # 0 /\ v < next.revision
<1>1. page[t] \in Pages /\ QueueOk(page[t]) /\ PageIssued(page[t])
  BY TabFacts
<1>2. PICK i \in DOMAIN page[t].queue : page[t].queue[i].rec.rev = v
  BY DEF Awaited
<1>3. OpOk(page[t], page[t].queue[i]) /\ page[t].queue[i] \in Operations
  BY <1>1, PageFacts DEF QueueOk
<1>4. page[t].queue[i].rec \in Known(page[t]) /\ page[t].queue[i].rec # NoRecord
  BY <1>3 DEF Known, OpOk
<1>5. RecordOk(page[t].queue[i].rec) /\ v \in Nat
  BY <1>1, <1>2, <1>3, <1>4, OperationFacts, RecordFacts DEF PageIssued
<1> QED
  BY <1>2, <1>4, <1>5 DEF RecordOk

PageStep(t, p) ==
  /\ page' = [ page EXCEPT ![t] = p ] /\ UNCHANGED << db, newest >>
  /\ held' \in [ Streams -> SUBSET Tabs ] /\ \A k \in Streams : held[k] \subseteq held'[k]
  /\ issued \subseteq issued' /\ issued' \subseteq Streams
  /\ next' \in [ stream : Nat \ { 0 }, revision : Nat \ { 0 } ]
  /\ next.revision <= next'.revision
  /\ budget' \in [ acts : Nat, failures : Nat ]

(* Where the records of a page may come from, and how old they are.         *)
Familiar(t, r) ==
  \/ r \in Known(page[t]) \cup { NoRecord } \/ r.rev = next.revision
  \/ \E k \in Streams : r = db[k] /\ t \in held'[k]

LEMMA FewerAlone ==
  ASSUME NEW t \in Tabs, NEW p, NEW r \in Records,
         \A k \in Streams : held[k] \subseteq held'[k], Alone(t, p, r)'
  PROVE  Alone(t, p, r)
  BY RecordFacts DEF Alone

LEMMA PageStepKeeps ==
  ASSUME SenderInv, NEW t \in Tabs, NEW p \in Pages, PageStep(t, p),
         PageOk(p), PageIssued(p)', Backed(t, p)',
         \A r \in Known(p) : Familiar(t, r),
         \A v \in Awaited(p) : v \in Awaited(page[t]) \/ v = next.revision
  PROVE  SenderInv'
<1>1. /\ page' \in [ Tabs -> Pages ] /\ page'[t] = p
      /\ \A u \in Tabs \ { t } : page'[u] = page[u]
      /\ db' = db /\ newest' = newest /\ db \in [ Streams -> Records ] /\ page \in [ Tabs -> Pages ]
  BY DEF PageStep, SenderInv, TypeInv
<1>2. TypeInv'
  BY <1>1 DEF TypeInv, PageStep, SenderInv
<1>3. ASSUME NEW r \in Records, RecordOk(r) PROVE RecordOk(r)'
  <2>1. r.rev \in Nat /\ next.revision \in Nat /\ next'.revision \in Nat
    BY RecordFacts DEF PageStep, SenderInv, TypeInv
  <2> QED
    BY <1>3, <2>1 DEF RecordOk, PageStep
<1>4. PagesOk'
  <2> SUFFICES ASSUME NEW u \in Tabs PROVE PageOk(page'[u]) /\ PageIssued(page[u])'
    BY DEF PagesOk
  <2>1. CASE u = t
    BY <2>1, <1>1 DEF PageIssued, Known
  <2>2. CASE u # t
    <3>1. page'[u] = page[u] /\ PageOk(page[u]) /\ PageIssued(page[u]) /\ page[u] \in Pages
      BY <2>2, <1>1 DEF SenderInv, PagesOk
    <3>2. PICK o \in Pages : o = page[u]
      BY <3>1
    <3>3. PageIssued(o)'
      <4>1. \A r \in Known(o) : RecordOk(r)'
        BY <1>3, <3>1, <3>2, KnownIsRecord DEF PageIssued
      <4>2. issued \subseteq issued'
        BY DEF PageStep
      <4> QED
        BY <4>1, <4>2, <3>1, <3>2 DEF PageIssued, Entitled
    <3> QED
      BY <3>1, <3>2, <3>3 DEF PageIssued, Known
  <2> QED
    BY <2>1, <2>2
<1>5. /\ next.revision \in Nat
      /\ \A k \in Streams : RecordOk(db[k]) /\ db[k] \in Records /\ db[k].rev # next.revision
  BY <1>1, RecordFacts DEF SenderInv, TypeInv, DbOk, RecordOk
<1>6. ASSUME NEW u \in Tabs, NEW r \in Known(page[u]) PROVE r.rev # next.revision
  <2>1. RecordOk(r) /\ r \in Records
    BY <1>1, KnownIsRecord DEF SenderInv, PagesOk, PageIssued
  <2> QED
    BY <2>1, <1>5, RecordFacts DEF RecordOk
<1>7. \A v \in Awaited(p) : v \in Awaited(page[t]) \/ v = next.revision
  OBVIOUS
<1>8. DbOk'
  <2>1. ASSUME NEW k \in Streams, NEW u \in Tabs PROVE db[k].rev \notin Awaited(page'[u])
    <3>1. db[k].rev \notin Awaited(page[u]) /\ db[k].rev \notin Awaited(page[t])
      BY DEF SenderInv, DbOk
    <3> QED
      BY <3>1, <1>1, <1>5, <1>7
  <2>2. \A k \in Streams : RecordOk(db[k])'
    <3>1. ASSUME NEW k \in Streams PROVE RecordOk(db[k])'
      <4>1. PICK r \in Records : r = db[k]
        BY <1>5
      <4>2. RecordOk(r)'
        BY <4>1, <1>3, <1>5
      <4> QED
        BY <4>1, <4>2, <1>1 DEF RecordOk
    <3> QED
      BY <3>1
  <2> QED
    BY <2>1, <2>2, <1>1 DEF DbOk, SenderInv, Awaited
<1>9. Cross'
  <2> SUFFICES ASSUME NEW u \in Tabs, NEW w \in Tabs, u # w, NEW r \in Known(page'[w])
               PROVE  r.rev \notin Awaited(page'[u])
    BY DEF Cross, Known, Awaited
  <2>1. CASE u # t /\ w # t
    BY <2>1, <1>1 DEF SenderInv, Cross
  <2>2. CASE u = t
    <3>1. r \in Known(page[w]) /\ r.rev \notin Awaited(page[t])
      BY <2>2, <1>1 DEF SenderInv, Cross
    <3> QED
      BY <3>1, <2>2, <1>1, <1>6, <1>7
  <2>3. CASE w = t
    <3>1. Awaited(page'[u]) = Awaited(page[u]) /\ Familiar(t, r)
      BY <2>3, <1>1
    <3>2. CASE r \in Known(page[t])
      BY <3>2, <3>1, <2>3 DEF SenderInv, Cross
    <3>3. CASE r = NoRecord \/ r.rev = next.revision
      <4>1. next.revision \in Nat
        BY <1>5
      <4> QED
        BY <3>1, <3>3, <4>1, AwaitedIsKnown, RecordFacts
    <3>4. CASE \E k \in Streams : r = db[k]
      BY <3>1, <3>4 DEF SenderInv, DbOk
    <3> QED
      BY <3>1, <3>2, <3>3, <3>4 DEF Familiar
  <2> QED
    BY <2>1, <2>2, <2>3
<1>10. Holders'
  <2> SUFFICES ASSUME NEW u \in Tabs, NEW r \in Known(page'[u]), r # NoRecord,
                      db[r.key].rev = r.rev
               PROVE  u \in held'[r.key]
    BY <1>1 DEF Holders, Known
  <2>1. r \in Records /\ r.key \in Streams
    BY <1>1, KnownIsRecord, RecordFacts
  <2>2. held[r.key] \subseteq held'[r.key]
    BY <2>1 DEF PageStep
  <2>3. CASE u # t \/ r \in Known(page[t])
    <3>1. r \in Known(page[u])
      BY <2>3, <1>1
    <3> QED
      BY <3>1, <2>2 DEF SenderInv, Holders
  <2>4. CASE u = t /\ r.rev = next.revision
    BY <2>4, <2>1, <1>5
  <2>5. CASE u = t /\ \E k \in Streams : r = db[k] /\ t \in held'[k]
    BY <2>5 DEF SenderInv, DbOk
  <2> QED
    BY <2>3, <2>4, <2>5, <1>1 DEF Familiar
<1>11. AllBacked'
  <2> SUFFICES ASSUME NEW u \in Tabs PROVE Backed(u, page[u])'
    BY DEF AllBacked
  <2>1. CASE u = t
    BY <2>1, <1>1 DEF Backed, There, Alone, Answering
  <2>2. CASE u # t
    <3>1. PICK o \in Pages : o = page[u]
      BY <1>1
    <3>2. page'[u] = o /\ Backed(u, o) /\ QueueOk(o)
      BY <2>2, <3>1, <1>1, TabFacts DEF SenderInv, AllBacked
    <3>3. ASSUME NEW r \in Records PROVE Alone(u, o, r)' => Alone(u, o, r)
      BY FewerAlone DEF PageStep
    <3>4. o.session \in Records /\ o.from \in Records /\ o.cand \in Records
      BY PageFacts
    <3>5. ASSUME NEW r \in Records, There(u, o, r) PROVE There(u, o, r)'
      BY <3>5, <3>3, <1>1 DEF There
    <3>6. o.queue # << >> => o.queue[1].rec \in Records
      <4>1. o.queue # << >> => 1 \in DOMAIN o.queue
        BY PageFacts, TailFacts
      <4> QED
        BY <4>1, PageFacts, OperationFacts
    <3>7. Backed(u, o)'
      BY <3>2, <3>3, <3>4, <3>5, <3>6, <1>1 DEF Backed
    <3> QED
      BY <3>2, <3>7 DEF Backed, There, Alone, Answering
  <2> QED
    BY <2>1, <2>2
<1> QED
  BY <1>2, <1>4, <1>8, <1>9, <1>10, <1>11 DEF SenderInv

(* Most steps touch nothing but the page: what it becomes is fine.          *)
Fine(t, p) ==
  /\ p \in Pages /\ PageOk(p) /\ PageIssued(p) /\ Backed(t, p)
  /\ Known(p) \subseteq Known(page[t]) \cup { NoRecord } /\ Awaited(p) \subseteq Awaited(page[t])

Turns(t, p) ==
  /\ page' = [ page EXCEPT ![t] = p ] /\ UNCHANGED << Storage, issued, next >>
  /\ UNCHANGED budget \/ Acts \/ Fails

LEMMA TurnKeeps ==
  ASSUME SenderInv, NEW t \in Tabs, NEW p, Fine(t, p), Turns(t, p)
  PROVE  SenderInv'
<1>1. budget' \in [ acts : Nat, failures : Nat ]
  BY DEF SenderInv, TypeInv, Turns, Acts, Fails
<1>2. PageStep(t, p)
  BY <1>1 DEF PageStep, SenderInv, TypeInv, Storage, Turns
<1>3. PageIssued(p)'
  BY DEF Fine, PageIssued, RecordOk, Entitled, Turns
<1>4. Backed(t, p)'
  BY DEF Fine, Backed, There, Alone, Turns, Storage
<1>5. p \in Pages /\ PageOk(p)
  BY DEF Fine
<1>6. \A r \in Known(p) : Familiar(t, r)
  BY DEF Fine, Familiar
<1>7. \A v \in Awaited(p) : v \in Awaited(page[t])
  BY DEF Fine
<1> QED
  BY <1>2, <1>3, <1>4, <1>5, <1>6, <1>7, PageStepKeeps

LEMMA PageIsFine ==
  ASSUME SenderInv, NEW t \in Tabs
  PROVE  Fine(t, page[t])
  BY TabFacts DEF Fine

(* What a page may become by itself.                                        *)
Keeps(p, b) ==
  /\ p.queue = b.queue /\ b.gone \subseteq p.gone /\ p.overtaken = b.overtaken
  /\ p.session \in { b.session, b.from, NoRecord }
  /\ p.cand \in { b.cand, NoRecord } /\ (~p.sel => ~b.sel \/ p.cand = NoRecord)
  /\ p.from \in { b.from, NoRecord } \/ (p.from = b.cand /\ ~b.sel)
  /\ b.job = "prepare" =>
       p.job = "prepare" \/ \A i \in DOMAIN b.queue : ~Preparation(b.queue[i])

Shows(p) == /\ Entitled(p.active) /\ Entitled(p.ref)
            /\ Entitled(p.loop.plan) /\ Entitled(p.loop.using)

LEMMA NoRecordOk ==
  ASSUME SenderInv
  PROVE  RecordOk(NoRecord)
  BY RecordFacts DEF RecordOk, SenderInv, TypeInv

LEMMA ThereKept ==
  ASSUME NEW t, NEW b, NEW p, NEW r, There(t, b, r), p.queue = b.queue, b.gone \subseteq p.gone
  PROVE  There(t, p, r)
  BY DEF There, Alone, Answering

LEMMA NothingThere ==
  ASSUME NEW t, NEW p
  PROVE  There(t, p, NoRecord)
  BY DEF There, Alone

LEMMA ChangedFine ==
  ASSUME SenderInv, NEW t \in Tabs, NEW b, Fine(t, b), NEW p \in Pages, Keeps(p, b),
         Shape(p), Drawing(p), Shows(p)
  PROVE  Fine(t, p)
<1>1. /\ p.queue = b.queue /\ b.gone \subseteq p.gone /\ p.overtaken = b.overtaken
      /\ p.session \in { b.session, b.from, NoRecord } /\ p.cand \in { b.cand, NoRecord }
      /\ p.from \in { b.from, b.cand, NoRecord }
  BY DEF Keeps
<1>2. QueueOk(p)
  BY QueueKept DEF Keeps, Fine, PageOk
<1>3. Known(p) \subseteq Known(b) \cup { NoRecord }
  BY <1>1 DEF Known
<1>4. Awaited(p) = Awaited(b)
  BY <1>1 DEF Awaited
<1>5. PageIssued(p)
  BY <1>3, NoRecordOk DEF Fine, PageIssued, Shows
<1>6. Backed(t, p)
  <2>1. Backed(t, b)
    BY DEF Fine
  <2>2. \A r : There(t, b, r) => There(t, p, r)
    BY <1>1, ThereKept
  <2>3. There(t, p, NoRecord)
    BY NothingThere
  <2>4. ASSUME ~p.overtaken
        PROVE  There(t, p, p.session) /\ There(t, p, p.from) /\ (~p.sel => There(t, p, p.cand))
    <3>1. There(t, b, b.session) /\ There(t, b, b.from) /\ (~b.sel => There(t, b, b.cand))
      BY <2>1, <2>4, <1>1 DEF Backed
    <3> QED
      BY <3>1, <2>2, <2>3 DEF Keeps
  <2>5. \A r : Alone(t, p, r) => Alone(t, b, r)
    BY <1>1 DEF Alone
  <2> QED
    BY <2>1, <2>4, <2>5, <1>1 DEF Backed
<1> QED
  BY <1>2, <1>3, <1>4, <1>5, <1>6 DEF Fine, PageOk

(* Nothing under way may publish: the page stays what it is about.          *)
LEMMA BumpFine ==
  ASSUME SenderInv, NEW t \in Tabs, NEW o, Fine(t, o)
  PROVE  Fine(t, Bump(o)) /\ IsBumped(Bump(o), o)
<1>1. PICK c : c = Bump(o)
  OBVIOUS
<1>2. IsBumped(c, o)
  BY <1>1, BumpOk DEF Fine, PageOk
<1>3. o \in Pages /\ Shape(o) /\ Drawing(o) /\ PageIssued(o) /\ Backed(t, o)
  BY DEF Fine, PageOk
<1>4. Shape(c)
  BY <1>2, <1>3 DEF Shape, IsBumped, Alike
<1>5. Drawing(c)
  <2>1. c.loop.plan = NoPlan => c.loop = NoLoop
    BY <1>2, <1>3 DEF Drawing, IsBumped
  <2>2. c.overtaken \/ Steady(c)
    BY <1>2, <1>3 DEF Drawing, Steady, Ours, IsBumped, Alike
  <2> QED
    BY <1>2, <2>1, <2>2 DEF Drawing, IsBumped
<1>6. PageIssued(c)
  BY <1>2, <1>3, NoRecordOk DEF PageIssued, IsBumped, Alike
<1>7. Backed(t, c)
  <2>1. \A k : Answering(o, k) => Answering(c, k)
    BY <1>2 DEF IsBumped, Answering
  <2>2. \A r : There(t, o, r) => There(t, c, r)
    BY <1>2, <2>1 DEF There, Alone, IsBumped, Alike
  <2>3. There(t, c, NoRecord)
    BY NothingThere
  <2>4. \A r : Alone(t, c, r) => Alone(t, o, r)
    BY <1>2 DEF Alone, IsBumped, Alike
  <2> QED
    BY <1>2, <1>3, <2>2, <2>3, <2>4 DEF Backed, Saves, IsBumped, Alike
<1>8. Known(c) \subseteq Known(o) \cup { NoRecord } /\ Awaited(c) = Awaited(o)
  BY <1>2 DEF IsBumped
<1>9. c \in Pages /\ QueueOk(c)
  BY <1>2 DEF IsBumped
<1>10. Fine(t, c)
  BY <1>4, <1>5, <1>6, <1>7, <1>8, <1>9 DEF Fine, PageOk
<1> QED
  BY <1>1, <1>2, <1>10

(* The effect that follows what a page shows.                               *)
IsRendered(n, p) ==
  /\ n \in Pages
  /\ n.phase = p.phase /\ n.sel = p.sel /\ n.cand = p.cand /\ n.session = p.session
  /\ n.plan = p.plan /\ n.active = p.active /\ n.play = p.play /\ n.key = p.key
  /\ n.job = p.job /\ n.from = p.from /\ n.queue = p.queue /\ n.gone = p.gone
  /\ n.overtaken = p.overtaken
  /\ \/ n.loop = p.loop /\ n.ref = p.ref
     \/ n.loop = NoLoop /\ n.ref = p.ref
     \/ /\ Wanted(p) # NoPlan /\ n.loop.plan = Wanted(p)
        /\ n.ref = (IF p.ref = NoPlan THEN Wanted(p) ELSE p.ref) /\ n.loop.using = n.ref

LEMMA RenderedOk ==
  ASSUME NEW p \in Pages
  PROVE  IsRendered(Rendered(p), p)
<1>1. PICK n : n = Rendered(p)
  OBVIOUS
<1>2. CASE Wanted(p) = p.loop.plan
  BY <1>1, <1>2 DEF Rendered, IsRendered
<1>3. CASE Wanted(p) # p.loop.plan /\ Wanted(p) = NoPlan
  <2>1. n = [ p EXCEPT !.loop = NoLoop ]
    BY <1>1, <1>3 DEF Rendered
  <2> QED
    BY <1>1, <2>1, PlanFacts DEF IsRendered, Pages
<1>4. CASE Wanted(p) # p.loop.plan /\ Wanted(p) # NoPlan
  <2>1. PICK q : q = [ p EXCEPT !.loop.plan = Wanted(p), !.loop.fresh = TRUE ]
    OBVIOUS
  <2>2. n = Frame(q)
    BY <1>1, <1>4, <2>1 DEF Rendered
  <2>3. Wanted(p) \in Plans
    BY PageFacts, PlanFacts DEF Wanted
  <2>4. p.loop \in Loops
    BY PageFacts
  <2>5. PICK l : l = [ p.loop EXCEPT !.plan = Wanted(p), !.fresh = TRUE ]
    OBVIOUS
  <2>6. l \in Loops /\ l.plan = Wanted(p) /\ l.fresh = TRUE
    BY <2>3, <2>4, <2>5 DEF Loops
  <2>7. q = [ p EXCEPT !.loop = l ]
    BY <2>1, <2>5 DEF Pages
  <2>8. q \in Pages /\ q.loop = l /\ q.ref = p.ref
    BY <2>6, <2>7 DEF Pages
  <2>9. PICK plan : plan = (IF p.ref = NoPlan THEN Wanted(p) ELSE p.ref)
    OBVIOUS
  <2>10. plan \in Plans
    BY <2>3, <2>9, PageFacts
  <2>11. PICK m : m = [ l EXCEPT !.using = plan ]
    OBVIOUS
  <2>12. m \in Loops /\ m.plan = Wanted(p) /\ m.using = plan
    BY <2>6, <2>10, <2>11 DEF Loops
  <2>13. n = [ q EXCEPT !.ref = plan, !.loop = m ]
    BY <2>2, <2>6, <2>8, <2>9, <2>11 DEF Frame, Pages
  <2>14. n = [ p EXCEPT !.ref = plan, !.loop = m ]
    BY <2>7, <2>13 DEF Pages
  <2>15. n \in Pages /\ n.loop = m /\ n.ref = plan
    BY <2>10, <2>12, <2>14 DEF Pages
  <2>16. /\ n.phase = p.phase /\ n.sel = p.sel /\ n.cand = p.cand /\ n.session = p.session
         /\ n.plan = p.plan /\ n.active = p.active /\ n.play = p.play /\ n.key = p.key
         /\ n.job = p.job /\ n.from = p.from /\ n.queue = p.queue /\ n.gone = p.gone
         /\ n.overtaken = p.overtaken
    BY <2>14 DEF Pages
  <2> QED
    BY <1>1, <1>4, <2>9, <2>12, <2>15, <2>16 DEF IsRendered
<1> QED
  BY <1>2, <1>3, <1>4

LEMMA RenderedFine ==
  ASSUME SenderInv, NEW t \in Tabs, NEW p, Fine(t, p)
  PROVE  Fine(t, Rendered(p))
<1>1. PICK n : n = Rendered(p)
  OBVIOUS
<1>2. IsRendered(n, p)
  BY <1>1, RenderedOk DEF Fine
<1>3. p \in Pages /\ Shape(p) /\ Drawing(p) /\ PageIssued(p)
  BY DEF Fine, PageOk
<1>4. /\ n \in Pages
      /\ n.phase = p.phase /\ n.sel = p.sel /\ n.cand = p.cand /\ n.session = p.session
      /\ n.plan = p.plan /\ n.active = p.active /\ n.play = p.play /\ n.key = p.key
      /\ n.job = p.job /\ n.from = p.from /\ n.queue = p.queue /\ n.gone = p.gone
      /\ n.overtaken = p.overtaken
  BY <1>2 DEF IsRendered
<1>5. Keeps(n, p)
  BY <1>4 DEF Keeps
<1>6. Shape(n)
  BY <1>3, <1>4 DEF Shape
<1>7. CASE n.loop = p.loop /\ n.ref = p.ref
  BY <1>1, <1>3, <1>4, <1>5, <1>6, <1>7, ChangedFine
     DEF Drawing, Steady, Ours, Shows, PageIssued
<1>8. CASE n.loop = NoLoop /\ n.ref = p.ref
  <2>1. Steady(p) => Steady(n)
    BY <1>4, <1>8, PlanFacts DEF Steady, Ours
  <2>2. Drawing(n)
    BY <1>3, <1>4, <1>8, <2>1, PlanFacts DEF Drawing
  <2>3. Shows(n)
    BY <1>3, <1>4, <1>8, PlanFacts DEF PageIssued, Shows
  <2> QED
    BY <1>1, <1>4, <1>5, <1>6, <2>2, <2>3, ChangedFine
<1>9. CASE /\ Wanted(p) # NoPlan /\ n.loop.plan = Wanted(p)
           /\ n.ref = (IF p.ref = NoPlan THEN Wanted(p) ELSE p.ref) /\ n.loop.using = n.ref
  <2>1. p.play = "yes" /\ Wanted(p) = p.active /\ p.active # NoPlan
    BY <1>9 DEF Wanted
  <2>2. Steady(p) => p.ref \in { NoPlan, p.active } /\ p.sel /\ p.job # "prepare"
    BY <2>1 DEF Steady, Ours
  <2>3. Steady(p) => n.ref = p.active /\ p.job \notin { "prepare", "restore" }
    BY <1>3, <1>9, <2>1, <2>2 DEF Shape
  <2>4. Steady(p) => Steady(n)
    BY <1>4, <1>9, <2>1, <2>3 DEF Steady, Ours
  <2>5. Drawing(n)
    BY <1>3, <1>4, <1>9, <2>1, <2>3, <2>4 DEF Drawing
  <2>6. Shows(n)
    BY <1>3, <1>4, <1>9, <2>1 DEF PageIssued, Shows
  <2> QED
    BY <1>1, <1>4, <1>5, <1>6, <2>5, <2>6, ChangedFine
<1> QED
  BY <1>2, <1>7, <1>8, <1>9 DEF IsRendered

(* A click finds the loop running that its page wants.                      *)
LEMMA CalmFacts ==
  ASSUME SenderInv, NEW t \in Tabs, Calm(t), NEW o, o = page[t]
  PROVE  /\ o.loop.plan = Wanted(o)
         /\ o.active = NoPlan => o.loop = NoLoop
<1>1. o \in Pages /\ Drawing(o) /\ Rendered(o) = o
  BY TabFacts DEF Calm
<1>2. o.loop.plan = Wanted(o)
  <2>1. CASE Wanted(o) = NoPlan /\ Wanted(o) # o.loop.plan
    <3>1. [ o EXCEPT !.loop = NoLoop ] = o
      BY <1>1, <2>1 DEF Rendered
    <3>2. o.loop = NoLoop
      BY <1>1, <3>1 DEF Pages
    <3> QED
      BY <2>1, <3>2, PlanFacts
  <2>2. CASE Wanted(o) # NoPlan /\ Wanted(o) # o.loop.plan
    <3>1. Frame([ o EXCEPT !.loop.plan = Wanted(o), !.loop.fresh = TRUE ]) = o
      BY <1>1, <2>2 DEF Rendered
    <3>2. Frame([ o EXCEPT !.loop.plan = Wanted(o), !.loop.fresh = TRUE ]).loop.plan = Wanted(o)
      BY <1>1 DEF Frame, Pages, Loops
    <3> QED
      BY <3>1, <3>2
  <2> QED
    BY <2>1, <2>2
<1>3. o.active = NoPlan => o.loop = NoLoop
  BY <1>1, <1>2 DEF Wanted, Drawing
<1> QED
  BY <1>2, <1>3

-----------------------------------------------------------------------------
(* The steps of a page that touch nothing else.                             *)

LEMMA ChangeKeeps ==
  ASSUME SenderInv, NEW t \in Tabs, NEW b, Fine(t, b), NEW p \in Pages, Keeps(p, b),
         Shape(p), Drawing(p), Shows(p), Turns(t, p)
  PROVE  SenderInv'
  BY ChangedFine, TurnKeeps

LEMMA PickFolderKeeps ==
  ASSUME SenderInv, NEW t \in Tabs, PickFolder(t)
  PROVE  SenderInv'
<1>1. PICK o \in Pages : o = page[t]
  BY TabFacts
<1>2. PICK b : b = Bump(o)
  OBVIOUS
<1>3. Fine(t, b) /\ IsBumped(b, o)
  BY <1>1, <1>2, PageIsFine, BumpFine
<1>4. b \in Pages /\ Shape(b) /\ Drawing(b) /\ PageIssued(b) /\ ~b.sel
  BY <1>1, <1>3 DEF Fine, PageOk, PickFolder, IsBumped, Alike
<1>5. PICK p : p = [ b EXCEPT !.phase = "scanning", !.job = "scan" ]
  OBVIOUS
<1>6. /\ p \in Pages /\ p.phase = "scanning" /\ p.job = "scan"
      /\ p.sel = b.sel /\ p.cand = b.cand /\ p.session = b.session /\ p.plan = b.plan
      /\ p.active = b.active /\ p.play = b.play /\ p.from = b.from /\ p.key = b.key
      /\ p.ref = b.ref /\ p.loop = b.loop /\ p.queue = b.queue /\ p.gone = b.gone
      /\ p.overtaken = b.overtaken
  BY <1>4, <1>5 DEF Pages, Phases
<1>7. b.from = NoRecord /\ b.job = "none" /\ b.loop.fresh = FALSE
  BY <1>3 DEF IsBumped
<1>8. Keeps(p, b)
  BY <1>6, <1>7 DEF Keeps
<1>9. Shape(p)
  BY <1>4, <1>6, <1>7 DEF Shape
<1>10. Drawing(p)
  BY <1>4, <1>6, <1>7 DEF Drawing, Steady, Ours
<1>11. Shows(p)
  BY <1>4, <1>6 DEF Shows, PageIssued
<1>12. Turns(t, p)
  BY <1>1, <1>2, <1>5 DEF Turns, PickFolder, Becomes
<1> QED
  BY <1>3, <1>6, <1>8, <1>9, <1>10, <1>11, <1>12, ChangeKeeps

LEMMA ScannedKeeps ==
  ASSUME SenderInv, NEW t \in Tabs, Scanned(t)
  PROVE  SenderInv'
<1>1. PICK o \in Pages : o = page[t]
  BY TabFacts
<1>2. Fine(t, o) /\ Shape(o) /\ Drawing(o) /\ PageIssued(o) /\ o.job = "scan"
  BY <1>1, PageIsFine, TabFacts DEF Scanned
<1>3. PICK p : p = [ o EXCEPT !.sel = TRUE, !.plan = 0, !.active = NoPlan, !.job = "none",
                              !.phase = "selected" ]
  OBVIOUS
<1>4. /\ p.phase = "selected" /\ p.job = "none" /\ p.sel = TRUE /\ p.plan = 0
      /\ p.active = NoPlan /\ p.cand = o.cand /\ p.session = o.session /\ p.play = o.play
      /\ p.from = o.from /\ p.key = o.key /\ p.ref = o.ref /\ p.loop = o.loop
      /\ p.queue = o.queue /\ p.gone = o.gone /\ p.overtaken = o.overtaken
  BY <1>3 DEF Pages
<1>5. p \in Pages
  BY <1>3, PlanFacts DEF Pages, Phases
<1>6. Keeps(p, o)
  BY <1>2, <1>4 DEF Keeps
<1>7. Shape(p)
  BY <1>2, <1>4 DEF Shape
<1>8. Drawing(p)
  BY <1>2, <1>4 DEF Drawing, Steady
<1>9. Shows(p)
  BY <1>2, <1>4, PlanFacts DEF Shows, PageIssued
<1>10. Turns(t, p)
  BY <1>1, <1>3 DEF Turns, Scanned, Becomes
<1> QED
  BY <1>2, <1>5, <1>6, <1>7, <1>8, <1>9, <1>10, ChangeKeeps

LEMMA ScanFailsKeeps ==
  ASSUME SenderInv, NEW t \in Tabs, ScanFails(t)
  PROVE  SenderInv'
<1>1. PICK o \in Pages : o = page[t]
  BY TabFacts
<1>2. Fine(t, o) /\ Shape(o) /\ Drawing(o) /\ PageIssued(o) /\ o.job = "scan" /\ ~o.sel
  BY <1>1, PageIsFine, TabFacts DEF ScanFails, Shape
<1>3. PICK p : p = [ o EXCEPT !.job = "none", !.phase = "idle" ]
  OBVIOUS
<1>4. /\ p \in Pages /\ p.phase = "idle" /\ p.job = "none" /\ p.sel = o.sel /\ p.plan = o.plan
      /\ p.active = o.active /\ p.cand = o.cand /\ p.session = o.session /\ p.play = o.play
      /\ p.from = o.from /\ p.key = o.key /\ p.ref = o.ref /\ p.loop = o.loop
      /\ p.queue = o.queue /\ p.gone = o.gone /\ p.overtaken = o.overtaken
  BY <1>3 DEF Pages, Phases
<1>5. Keeps(p, o)
  BY <1>2, <1>4 DEF Keeps
<1>6. Shape(p)
  BY <1>2, <1>4 DEF Shape
<1>7. Drawing(p)
  BY <1>2, <1>4 DEF Drawing, Steady, Ours
<1>8. Shows(p)
  BY <1>2, <1>4 DEF Shows, PageIssued
<1>9. Turns(t, p)
  BY <1>1, <1>2, <1>3 DEF Turns, ScanFails, Becomes
<1> QED
  BY <1>2, <1>4, <1>5, <1>6, <1>7, <1>8, <1>9, ChangeKeeps

LEMMA PrepareKeeps ==
  ASSUME SenderInv, NEW t \in Tabs, Prepare(t)
  PROVE  SenderInv'
<1>1. PICK o \in Pages : o = page[t]
  BY TabFacts
<1>2. PICK b : b = Bump(o)
  OBVIOUS
<1>3. Fine(t, b) /\ IsBumped(b, o)
  BY <1>1, <1>2, PageIsFine, BumpFine
<1>4. /\ b \in Pages /\ Shape(b) /\ Drawing(b) /\ PageIssued(b) /\ b.sel /\ b.phase = "selected"
      /\ b.from = NoRecord /\ b.job = "none" /\ b.loop.fresh = FALSE /\ b.active = o.active
      /\ o.loop = NoLoop => b.loop = NoLoop
  BY <1>1, <1>3 DEF Fine, PageOk, Prepare, IsBumped, Alike
<1>5. PICK p : p = [ b EXCEPT !.phase = "preparing", !.job = "prepare" ]
  OBVIOUS
<1>6. /\ p \in Pages /\ p.phase = "preparing" /\ p.job = "prepare"
      /\ p.sel = b.sel /\ p.cand = b.cand /\ p.session = b.session /\ p.plan = b.plan
      /\ p.active = b.active /\ p.play = b.play /\ p.from = b.from /\ p.key = b.key
      /\ p.ref = b.ref /\ p.loop = b.loop /\ p.queue = b.queue /\ p.gone = b.gone
      /\ p.overtaken = b.overtaken
  BY <1>4, <1>5 DEF Pages, Phases
<1>7. Keeps(p, b)
  BY <1>4, <1>6 DEF Keeps
<1>8. Shape(p)
  BY <1>4, <1>6 DEF Shape
<1>9. o.active = NoPlan => o.loop = NoLoop
  BY <1>1, CalmFacts DEF Prepare
<1>10. Steady(b) => Steady(p)
  BY <1>4, <1>6, <1>9 DEF Steady
<1>11. Drawing(p)
  BY <1>4, <1>6, <1>10 DEF Drawing
<1>12. Shows(p)
  BY <1>4, <1>6 DEF Shows, PageIssued
<1>13. Turns(t, p)
  BY <1>1, <1>2, <1>5 DEF Turns, Prepare, Becomes
<1> QED
  BY <1>3, <1>6, <1>7, <1>8, <1>11, <1>12, <1>13, ChangeKeeps

LEMMA PrepareFailsKeeps ==
  ASSUME SenderInv, NEW t \in Tabs, PrepareFails(t)
  PROVE  SenderInv'
<1>1. PICK o \in Pages : o = page[t]
  BY TabFacts
<1>2. /\ Fine(t, o) /\ Shape(o) /\ Drawing(o) /\ PageIssued(o) /\ o.job = "prepare"
      /\ \A i \in DOMAIN o.queue : ~Preparation(o.queue[i])
  BY <1>1, PageIsFine, TabFacts DEF PrepareFails, Building, Preparation
<1>3. PICK p : p = [ o EXCEPT !.job = "none", !.phase = "selected" ]
  OBVIOUS
<1>4. /\ p \in Pages /\ p.phase = "selected" /\ p.job = "none" /\ p.sel = o.sel
      /\ p.plan = o.plan
      /\ p.active = o.active /\ p.cand = o.cand /\ p.session = o.session /\ p.play = o.play
      /\ p.from = o.from /\ p.key = o.key /\ p.ref = o.ref /\ p.loop = o.loop
      /\ p.queue = o.queue /\ p.gone = o.gone /\ p.overtaken = o.overtaken
  BY <1>3 DEF Pages, Phases
<1>5. Keeps(p, o)
  BY <1>2, <1>4 DEF Keeps
<1>6. Shape(p)
  BY <1>2, <1>4 DEF Shape
<1>7. Drawing(p)
  BY <1>2, <1>4 DEF Drawing, Steady, Ours
<1>8. Shows(p)
  BY <1>2, <1>4 DEF Shows, PageIssued
<1>9. Turns(t, p)
  BY <1>1, <1>2, <1>3 DEF Turns, PrepareFails, Becomes
<1> QED
  BY <1>2, <1>4, <1>5, <1>6, <1>7, <1>8, <1>9, ChangeKeeps

LEMMA RestoreSavedKeeps ==
  ASSUME SenderInv, NEW t \in Tabs, RestoreSaved(t)
  PROVE  SenderInv'
<1>1. PICK o \in Pages : o = page[t]
  BY TabFacts
<1>2. PICK b : b = Bump(o)
  OBVIOUS
<1>3. Fine(t, b) /\ IsBumped(b, o)
  BY <1>1, <1>2, PageIsFine, BumpFine
<1>4. /\ b \in Pages /\ Shape(b) /\ Drawing(b) /\ PageIssued(b) /\ ~b.sel
      /\ b.cand = o.cand /\ o.cand # NoRecord /\ o.cand \in Records
      /\ b.from = NoRecord /\ b.job = "none" /\ b.loop.fresh = FALSE /\ b.active = o.active
      /\ o.loop = NoLoop => b.loop = NoLoop
  BY <1>1, <1>3, PageFacts DEF Fine, PageOk, RestoreSaved, IsBumped, Alike
<1>5. PICK p : p = [ b EXCEPT !.job = "restore", !.from = o.cand ]
  OBVIOUS
<1>6. /\ p \in Pages /\ p.phase = b.phase /\ p.job = "restore" /\ p.from = o.cand
      /\ p.sel = b.sel /\ p.cand = b.cand /\ p.session = b.session /\ p.plan = b.plan
      /\ p.active = b.active /\ p.play = b.play /\ p.key = b.key
      /\ p.ref = b.ref /\ p.loop = b.loop /\ p.queue = b.queue /\ p.gone = b.gone
      /\ p.overtaken = b.overtaken
  BY <1>4, <1>5 DEF Pages
<1>7. Keeps(p, b)
  BY <1>4, <1>6 DEF Keeps
<1>8. Shape(p)
  BY <1>4, <1>6 DEF Shape
<1>9. o.active = NoPlan => o.loop = NoLoop
  BY <1>1, CalmFacts DEF RestoreSaved
<1>10. Steady(b) => Steady(p)
  BY <1>4, <1>6, <1>9 DEF Steady
<1>11. Drawing(p)
  BY <1>4, <1>6, <1>10 DEF Drawing
<1>12. Shows(p)
  BY <1>4, <1>6 DEF Shows, PageIssued
<1>13. Turns(t, p)
  BY <1>1, <1>2, <1>5 DEF Turns, RestoreSaved, Becomes
<1> QED
  BY <1>3, <1>6, <1>7, <1>8, <1>11, <1>12, <1>13, ChangeKeeps

LEMMA RestoredKeeps ==
  ASSUME SenderInv, NEW t \in Tabs, Restored(t)
  PROVE  SenderInv'
<1>1. PICK o \in Pages : o = page[t]
  BY TabFacts
<1>2. Fine(t, o) /\ Shape(o) /\ Drawing(o) /\ PageIssued(o) /\ o.job = "restore"
  BY <1>1, PageIsFine, TabFacts DEF Restored
<1>3. /\ o.from \in Records /\ o.from # NoRecord /\ o.from.key \in Streams /\ RecordOk(o.from)
      /\ o.from.phase \in { "testing", "verified" } /\ o.from.key # 0
  BY <1>2, PageFacts, RecordFacts DEF Shape, PageIssued, Known
<1>4. PICK play : play = IF o.from.phase = "testing" THEN "yes" ELSE "no"
  OBVIOUS
<1>5. PICK active : active = ActiveOf(o.from)
  OBVIOUS
<1>6. active \in Plans /\ Entitled(active)
  BY <1>3, <1>5, PlanFacts DEF ActiveOf, Entitled, RecordOk
<1>7. PICK p : p = [ o EXCEPT !.job = "none", !.from = NoRecord, !.session = o.from,
                       !.key = o.from.key, !.cand = NoRecord, !.sel = TRUE, !.plan = o.from.key,
                       !.active = active, !.phase = o.from.phase, !.play = play, !.ref = NoPlan ]
  OBVIOUS
<1>8. /\ p.phase = o.from.phase /\ p.job = "none" /\ p.sel = TRUE /\ p.plan = o.from.key
      /\ p.active = active /\ p.cand = NoRecord /\ p.session = o.from /\ p.play = play
      /\ p.from = NoRecord /\ p.key = o.from.key /\ p.ref = NoPlan /\ p.loop = o.loop
      /\ p.queue = o.queue /\ p.gone = o.gone /\ p.overtaken = o.overtaken
  BY <1>7 DEF Pages
<1>9. p \in Pages
  BY <1>3, <1>4, <1>6, <1>7, RecordFacts, PlanFacts DEF Pages, Phases
<1>10. Keeps(p, o)
  BY <1>2, <1>8 DEF Keeps
<1>11. Shape(p)
  BY <1>3, <1>8 DEF Shape
<1>12. Steady(o) => o.loop = NoLoop
  BY <1>2 DEF Steady
<1>13. Steady(o) => Steady(p)
  BY <1>3, <1>8, <1>12, PlanFacts DEF Steady, Ours
<1>14. Drawing(p)
  BY <1>2, <1>8, <1>12, <1>13, PlanFacts DEF Drawing
<1>15. Shows(p)
  BY <1>2, <1>6, <1>8, PlanFacts DEF Shows, PageIssued
<1>16. Turns(t, p)
  BY <1>1, <1>4, <1>5, <1>7 DEF Turns, Restored, Becomes
<1> QED
  BY <1>2, <1>9, <1>10, <1>11, <1>14, <1>15, <1>16, ChangeKeeps

LEMMA RestoreFailsKeeps ==
  ASSUME SenderInv, NEW t \in Tabs, RestoreFails(t)
  PROVE  SenderInv'
<1>1. PICK o \in Pages : o = page[t]
  BY TabFacts
<1>2. Fine(t, o) /\ Shape(o) /\ Drawing(o) /\ PageIssued(o) /\ o.job = "restore"
  BY <1>1, PageIsFine, TabFacts DEF RestoreFails
<1>3. PICK p : p = [ o EXCEPT !.job = "none", !.from = NoRecord ]
  OBVIOUS
<1>4. /\ p \in Pages /\ p.phase = o.phase /\ p.job = "none" /\ p.from = NoRecord /\ p.sel = o.sel
      /\ p.plan = o.plan
      /\ p.active = o.active /\ p.cand = o.cand /\ p.session = o.session /\ p.play = o.play
      /\ p.key = o.key /\ p.ref = o.ref /\ p.loop = o.loop
      /\ p.queue = o.queue /\ p.gone = o.gone /\ p.overtaken = o.overtaken
  BY <1>3, RecordFacts DEF Pages
<1>5. Keeps(p, o)
  BY <1>2, <1>4 DEF Keeps
<1>6. Shape(p)
  BY <1>2, <1>4 DEF Shape
<1>7. Drawing(p)
  BY <1>2, <1>4 DEF Drawing, Steady, Ours
<1>8. Shows(p)
  BY <1>2, <1>4 DEF Shows, PageIssued
<1>9. Turns(t, p)
  BY <1>1, <1>2, <1>3 DEF Turns, RestoreFails, Becomes
<1> QED
  BY <1>2, <1>4, <1>5, <1>6, <1>7, <1>8, <1>9, ChangeKeeps

(* What a page shows changes, and nothing it knows.                         *)
Replayed(o, play, ref) == [ o EXCEPT !.play = play, !.ref = ref ]

LEMMA ReplayedFine ==
  ASSUME SenderInv, NEW t \in Tabs, NEW o, Fine(t, o),
         NEW play \in { "no", "yes", "paused" }, NEW ref \in { o.ref, NoPlan },
         play # "no" /\ o.phase # "testing" /\ o.active # NoPlan =>
           o.play # "no" \/ (ref = NoPlan /\ o.loop.plan = NoPlan)
  PROVE  Fine(t, Replayed(o, play, ref))
<1>1. PICK p : p = Replayed(o, play, ref)
  OBVIOUS
<1>2. o \in Pages /\ Shape(o) /\ Drawing(o) /\ PageIssued(o)
  BY DEF Fine, PageOk
<1>3. /\ p.phase = o.phase /\ p.job = o.job /\ p.from = o.from /\ p.sel = o.sel
      /\ p.plan = o.plan /\ p.active = o.active /\ p.cand = o.cand /\ p.session = o.session
      /\ p.play = play /\ p.key = o.key /\ p.ref = ref /\ p.loop = o.loop
      /\ p.queue = o.queue /\ p.gone = o.gone /\ p.overtaken = o.overtaken
  BY <1>1, <1>2 DEF Replayed, Pages
<1>4. p \in Pages
  <2>1. ref \in Plans
    BY <1>2, PageFacts, PlanFacts
  <2> QED
    BY <1>1, <1>2, <2>1 DEF Replayed, Pages
<1>5. Keeps(p, o)
  BY <1>3 DEF Keeps
<1>6. Shape(p)
  BY <1>2, <1>3 DEF Shape
<1>7. Steady(o) => Steady(p)
  BY <1>3 DEF Steady, Ours
<1>8. Drawing(p)
  BY <1>2, <1>3, <1>7 DEF Drawing
<1>9. Shows(p)
  BY <1>2, <1>3, PlanFacts DEF Shows, PageIssued
<1> QED
  BY <1>1, <1>4, <1>5, <1>6, <1>8, <1>9, ChangedFine

LEMMA SameView ==
  ASSUME NEW o \in Pages, NEW play
  PROVE  [ o EXCEPT !.play = play ] = Replayed(o, play, o.ref)
  BY DEF Replayed, Pages

LEMMA PlayKeeps ==
  ASSUME SenderInv, NEW t \in Tabs, Play(t)
  PROVE  SenderInv'
<1>1. PICK o \in Pages : o = page[t]
  BY TabFacts
<1>2. /\ Fine(t, o) /\ o.play = "no" /\ Calm(t) /\ UNCHANGED << Storage, issued, next, budget >>
  BY <1>1, PageIsFine DEF Play
<1>3. CASE o.phase = "testing" /\ Becomes(t, Rendered([ o EXCEPT !.play = "yes" ]))
  <2>1. Fine(t, Replayed(o, "yes", o.ref))
    BY <1>2, <1>3, ReplayedFine
  <2>2. Fine(t, Rendered(Replayed(o, "yes", o.ref)))
    BY <2>1, RenderedFine
  <2>3. Turns(t, Rendered(Replayed(o, "yes", o.ref)))
    BY <1>2, <1>3, SameView DEF Turns, Becomes
  <2> QED
    BY <2>2, <2>3, TurnKeeps
<1>4. CASE o.phase = "verified" /\ Becomes(t, Rendered([ o EXCEPT !.play = "yes", !.ref = NoPlan ]))
  <2>1. o.loop.plan = NoPlan
    BY <1>1, <1>2, CalmFacts DEF Wanted
  <2>2. Fine(t, Replayed(o, "yes", NoPlan))
    BY <1>2, <2>1, ReplayedFine
  <2>3. Fine(t, Rendered(Replayed(o, "yes", NoPlan)))
    BY <2>2, RenderedFine
  <2>4. Turns(t, Rendered(Replayed(o, "yes", NoPlan)))
    BY <1>2, <1>4 DEF Turns, Becomes, Replayed
  <2> QED
    BY <2>3, <2>4, TurnKeeps
<1> QED
  BY <1>1, <1>3, <1>4 DEF Play

LEMMA PauseKeeps ==
  ASSUME SenderInv, NEW t \in Tabs, Pause(t)
  PROVE  SenderInv'
<1>1. PICK o \in Pages : o = page[t]
  BY TabFacts
<1>2. /\ Fine(t, o) /\ o.play # "no" /\ UNCHANGED << Storage, issued, next, budget >>
  BY <1>1, PageIsFine DEF Pause
<1>3. PICK play \in { "no", "yes", "paused" } : Becomes(t, Rendered([ o EXCEPT !.play = play ]))
  BY <1>1 DEF Pause
<1>4. Fine(t, Rendered(Replayed(o, play, o.ref)))
  BY <1>2, ReplayedFine, RenderedFine
<1>5. Turns(t, Rendered(Replayed(o, play, o.ref)))
  BY <1>2, <1>3, SameView DEF Turns, Becomes
<1> QED
  BY <1>4, <1>5, TurnKeeps

LEMMA RenderKeeps ==
  ASSUME SenderInv, NEW t \in Tabs, Render(t)
  PROVE  SenderInv'
<1>1. Fine(t, Rendered(page[t]))
  BY PageIsFine, RenderedFine
<1>2. Turns(t, Rendered(page[t]))
  BY DEF Turns, Render, Becomes
<1> QED
  BY <1>1, <1>2, TurnKeeps

LEMMA LeaveViewKeeps ==
  ASSUME SenderInv, NEW t \in Tabs, LeaveView(t)
  PROVE  SenderInv'
<1>1. PICK o \in Pages : o = page[t]
  BY TabFacts
<1>2. PICK v : v = IF o.play = "yes" THEN [ o EXCEPT !.play = "paused" ] ELSE o
  OBVIOUS
<1>3. Fine(t, o)
  BY <1>1, PageIsFine
<1>4. Fine(t, v)
  <2>1. CASE o.play = "yes"
    <3>1. Fine(t, Replayed(o, "paused", o.ref))
      BY <1>3, <2>1, ReplayedFine
    <3> QED
      BY <1>2, <2>1, <3>1, SameView
  <2>2. CASE o.play # "yes"
    BY <1>2, <1>3, <2>2
  <2> QED
    BY <2>1, <2>2
<1>5. PICK b : b = Bump(v)
  OBVIOUS
<1>6. Fine(t, b) /\ IsBumped(b, v)
  BY <1>4, <1>5, BumpFine
<1>7. PICK phase : phase = IF v.sel THEN "selected" ELSE "idle"
  OBVIOUS
<1>8. PICK p : p = [ b EXCEPT !.phase = phase ]
  OBVIOUS
<1>9. CASE v.phase \in { "scanning", "preparing" } \/ v.job = "restore"
  <2>1. /\ b \in Pages /\ Shape(b) /\ Drawing(b) /\ PageIssued(b)
        /\ v \in Pages /\ Shape(v) /\ Drawing(v) /\ b.from = NoRecord /\ b.job = "none"
        /\ b.loop.fresh = FALSE /\ b.sel = v.sel /\ b.active = v.active /\ b.phase = v.phase
        /\ b.plan = v.plan /\ b.overtaken = v.overtaken
    BY <1>4, <1>6 DEF Fine, PageOk, IsBumped, Alike
  <2>2. /\ p.phase = phase /\ p.job = "none"
        /\ p.sel = b.sel /\ p.cand = b.cand /\ p.session = b.session /\ p.plan = b.plan
        /\ p.active = b.active /\ p.play = b.play /\ p.from = b.from /\ p.key = b.key
        /\ p.ref = b.ref /\ p.loop = b.loop /\ p.queue = b.queue /\ p.gone = b.gone
        /\ p.overtaken = b.overtaken /\ p \in Pages /\ phase \in { "selected", "idle" }
    BY <1>7, <1>8, <2>1 DEF Pages, Phases
  <2>3. Keeps(p, b)
    BY <2>1, <2>2 DEF Keeps
  <2>4. Shape(p)
    BY <2>1, <2>2 DEF Shape
  <2>5. Steady(v) => v.active = NoPlan /\ v.plan = 0
    BY <1>9, <2>1 DEF Steady, Shape
  <2>6. Steady(v) /\ Steady(b) => Steady(p)
    BY <2>1, <2>2, <2>5 DEF Steady
  <2>7. Drawing(p)
    BY <2>1, <2>2, <2>6 DEF Drawing
  <2>8. Shows(p)
    BY <2>1, <2>2 DEF Shows, PageIssued
  <2>9. Fine(t, Rendered(p))
    BY <1>6, <2>2, <2>3, <2>4, <2>7, <2>8, ChangedFine, RenderedFine
  <2>10. Turns(t, Rendered(p))
    BY <1>1, <1>2, <1>5, <1>7, <1>8, <1>9 DEF Turns, LeaveView, Becomes
  <2> QED
    BY <2>9, <2>10, TurnKeeps
<1>10. CASE ~(v.phase \in { "scanning", "preparing" } \/ v.job = "restore")
  <2>1. Fine(t, Rendered(v))
    BY <1>4, RenderedFine
  <2>2. Turns(t, Rendered(v))
    BY <1>1, <1>2, <1>10 DEF Turns, LeaveView, Becomes
  <2> QED
    BY <2>1, <2>2, TurnKeeps
<1> QED
  BY <1>9, <1>10

LEMMA TickKeeps ==
  ASSUME SenderInv, NEW t \in Tabs, Tick(t)
  PROVE  SenderInv'
<1>1. PICK o \in Pages : o = page[t]
  BY TabFacts
<1>2. /\ Fine(t, o) /\ Shape(o) /\ Drawing(o) /\ PageIssued(o) /\ o.loop.using # NoPlan
      /\ o.loop \in Loops
  BY <1>1, PageIsFine, TabFacts, PageFacts DEF Tick
<1>3. PICK plan : plan = IF o.ref = NoPlan THEN o.loop.plan ELSE o.ref
  OBVIOUS
<1>4. plan \in Plans
  BY <1>3, PageFacts
<1>5. PICK l : l = [ o.loop EXCEPT !.using = IF o.loop.fresh THEN plan ELSE NoPlan ]
  OBVIOUS
<1>6. /\ l \in Loops /\ l.plan = o.loop.plan /\ l.fresh = o.loop.fresh
      /\ l.using = IF o.loop.fresh THEN plan ELSE NoPlan
  BY <1>2, <1>4, <1>5, PlanFacts DEF Loops
<1>7. PICK p : p = [ o EXCEPT !.ref = plan, !.loop = l ]
  OBVIOUS
<1>8. /\ p.phase = o.phase /\ p.job = o.job /\ p.from = o.from /\ p.sel = o.sel
      /\ p.plan = o.plan /\ p.active = o.active /\ p.cand = o.cand /\ p.session = o.session
      /\ p.play = o.play /\ p.key = o.key /\ p.ref = plan /\ p.loop = l
      /\ p.queue = o.queue /\ p.gone = o.gone /\ p.overtaken = o.overtaken
  BY <1>7 DEF Pages
<1>9. p \in Pages
  BY <1>4, <1>6, <1>7 DEF Pages
<1>10. Keeps(p, o)
  BY <1>8 DEF Keeps
<1>11. Shape(p)
  BY <1>2, <1>8 DEF Shape
<1>12. o.loop # NoLoop
  BY <1>2, PlanFacts
<1>13. Steady(o) => Steady(p)
  BY <1>3, <1>6, <1>8, <1>12 DEF Steady, Ours
<1>14. Drawing(p)
  BY <1>2, <1>3, <1>6, <1>8, <1>12, <1>13, PlanFacts DEF Drawing
<1>15. Shows(p)
  BY <1>2, <1>3, <1>6, <1>8, PlanFacts DEF Shows, PageIssued
<1>16. Turns(t, p)
  <2>1. p = Frame(o)
    BY <1>3, <1>5, <1>7 DEF Frame, Pages
  <2> QED
    BY <1>1, <2>1 DEF Turns, Tick, Becomes
<1> QED
  BY <1>2, <1>9, <1>10, <1>11, <1>14, <1>15, <1>16, ChangeKeeps

LEMMA DrawFailsKeeps ==
  ASSUME SenderInv, NEW t \in Tabs, DrawFails(t)
  PROVE  SenderInv'
<1>1. PICK o \in Pages : o = page[t]
  BY TabFacts
<1>2. /\ Fine(t, o) /\ Shape(o) /\ Drawing(o) /\ PageIssued(o) /\ o.loop.using # NoPlan
      /\ o.loop \in Loops
  BY <1>1, PageIsFine, TabFacts, PageFacts, PlanFacts DEF DrawFails
<1>3. PICK l : l = [ o.loop EXCEPT !.using = NoPlan ]
  OBVIOUS
<1>4. l \in Loops /\ l.plan = o.loop.plan /\ l.fresh = o.loop.fresh /\ l.using = NoPlan
  BY <1>2, <1>3, PlanFacts DEF Loops
<1>5. PICK p : p = [ o EXCEPT !.play = "no", !.loop = l ]
  OBVIOUS
<1>6. /\ p.phase = o.phase /\ p.job = o.job /\ p.from = o.from /\ p.sel = o.sel
      /\ p.plan = o.plan /\ p.active = o.active /\ p.cand = o.cand /\ p.session = o.session
      /\ p.play = "no" /\ p.key = o.key /\ p.ref = o.ref /\ p.loop = l
      /\ p.queue = o.queue /\ p.gone = o.gone /\ p.overtaken = o.overtaken /\ p \in Pages
  BY <1>4, <1>5 DEF Pages
<1>7. Keeps(p, o)
  BY <1>6 DEF Keeps
<1>8. Shape(p)
  BY <1>2, <1>6 DEF Shape
<1>9. o.loop # NoLoop
  BY <1>2, PlanFacts
<1>10. Steady(o) => Steady(p)
  BY <1>4, <1>6, <1>9 DEF Steady, Ours
<1>11. Drawing(p)
  BY <1>2, <1>4, <1>6, <1>9, <1>10 DEF Drawing
<1>12. Shows(p)
  BY <1>2, <1>4, <1>6, PlanFacts DEF Shows, PageIssued
<1>13. Turns(t, p)
  <2>1. p = [ o EXCEPT !.loop.using = NoPlan, !.play = "no" ]
    BY <1>3, <1>5 DEF Pages
  <2> QED
    BY <1>1, <2>1 DEF Turns, DrawFails, Becomes
<1> QED
  BY <1>2, <1>6, <1>7, <1>8, <1>11, <1>12, <1>13, ChangeKeeps

-----------------------------------------------------------------------------
(* The steps that ask the storage for something, or hear of something.      *)

LEMMA LongerBacked ==
  ASSUME NEW t, NEW b, NEW e, NEW op, IsEnqueued(e, b, op), op.result = "none", Backed(t, b)
  PROVE  Backed(t, e)
<1>1. \A k : Answering(b, k) => Answering(e, k)
  BY DEF IsEnqueued, Answering
<1>2. \A r : There(t, b, r) => There(t, e, r)
  BY <1>1 DEF There, Alone, IsEnqueued, Alike
<1>3. /\ e.session = b.session /\ e.from = b.from /\ e.cand = b.cand /\ e.sel = b.sel
      /\ e.overtaken = b.overtaken /\ e.gone = b.gone
  BY DEF IsEnqueued, Alike, SameJob
<1>4. ASSUME e.queue # << >>, e.queue[1].result = "done"
      PROVE  b.queue # << >> /\ e.queue[1] = b.queue[1]
  BY <1>4 DEF IsEnqueued
<1>5. \A r : Alone(t, e, r) => Alone(t, b, r)
  BY <1>3 DEF Alone
<1> QED
  BY <1>2, <1>3, <1>4, <1>5 DEF Backed

LEMMA ShownLonger ==
  ASSUME NEW b, NEW e, NEW op, IsEnqueued(e, b, op), Shape(b), Drawing(b)
  PROVE  Shape(e) /\ Drawing(e)
<1>1. Shape(e)
  BY DEF Shape, IsEnqueued, Alike, SameJob
<1>2. Steady(b) => Steady(e)
  BY DEF Steady, Ours, IsEnqueued, Alike, SameJob
<1>3. Drawing(e)
  BY <1>2 DEF Drawing, IsEnqueued, Alike, SameJob
<1> QED
  BY <1>1, <1>3

(* A deletion joins the queue.                                              *)
IsDeletion(op, rec, then) ==
  /\ op \in Operations /\ op.kind = "delete" /\ op.rec = rec /\ op.then = then
  /\ op.result = "none"

LEMMA DeletionOk ==
  ASSUME NEW rec \in Records, NEW then \in { "discard", "cleanup" }
  PROVE  IsDeletion(Deletion(rec, then), rec, then)
  BY DEF IsDeletion, Deletion, Op, Operations

LEMMA DeletionFine ==
  ASSUME SenderInv, NEW t \in Tabs, NEW b, Fine(t, b), NEW rec \in Known(page[t]),
         rec # NoRecord, NEW then \in { "discard", "cleanup" },
         then = "cleanup" => rec.key \in b.gone
  PROVE  Fine(t, Enqueue(b, Deletion(rec, then)))
<1>1. PICK op : op = Deletion(rec, then)
  OBVIOUS
<1>2. rec \in Records
  BY KnownIsRecord, TabFacts
<1>3. op \in Operations /\ op.kind = "delete" /\ op.rec = rec /\ op.then = then /\ op.result = "none"
  BY <1>1, <1>2, DeletionOk DEF IsDeletion
<1>4. ~Saves(op) /\ ~Awaits(op) /\ ~Preparation(op)
  BY <1>3 DEF Saves, Awaits, Preparation
<1>5. OpOk(b, op)
  BY <1>3, <1>4 DEF OpOk
<1>6. \A i \in DOMAIN b.queue : Apart(b.queue[i], op) /\ Apart(op, b.queue[i])
  BY <1>4 DEF Apart
<1>7. PICK e : e = Enqueue(b, op)
  OBVIOUS
<1>8. IsEnqueued(e, b, op)
  BY <1>3, <1>5, <1>6, <1>7, EnqueueOk DEF Fine, PageOk
<1>9. e \in Pages /\ PageOk(e)
  <2>1. Shape(e) /\ Drawing(e)
    BY <1>8, ShownLonger DEF Fine, PageOk
  <2> QED
    BY <1>8, <2>1 DEF IsEnqueued, PageOk
<1>10. Backed(t, e)
  BY <1>3, <1>8, LongerBacked DEF Fine
<1>11. Known(e) = Known(b) \cup { rec } /\ Awaited(e) = Awaited(b)
  BY <1>3, <1>4, <1>8 DEF IsEnqueued
<1>12. PageIssued(e)
  <2>1. RecordOk(rec)
    BY TabFacts DEF PageIssued
  <2>2. Shows(b) /\ \A r \in Known(b) : RecordOk(r)
    BY DEF Fine, PageIssued, Shows
  <2>3. Shows(e)
    BY <1>8, <2>2 DEF Shows, IsEnqueued, Alike, SameJob
  <2> QED
    BY <1>11, <2>1, <2>2, <2>3 DEF PageIssued, Shows
<1>13. Fine(t, e)
  BY <1>9, <1>10, <1>11, <1>12 DEF Fine
<1> QED
  BY <1>1, <1>7, <1>13

(* What is known of a page that was cleared.                                *)
LEMMA ClearedFine ==
  ASSUME SenderInv, NEW t \in Tabs, NEW b, Fine(t, b), b.job = "none", b.loop.fresh = FALSE,
         NEW gone, b.gone \subseteq gone, gone \subseteq Streams
  PROVE  Fine(t, [ Cleared(b) EXCEPT !.gone = gone ])
<1>1. PICK p : p = [ Cleared(b) EXCEPT !.gone = gone ]
  OBVIOUS
<1>2. b \in Pages /\ Shape(b) /\ Drawing(b) /\ PageIssued(b) /\ b.from = NoRecord
  BY DEF Fine, PageOk, Shape
<1>3. /\ p.phase = "idle" /\ p.sel = FALSE /\ p.cand = NoRecord /\ p.session = NoRecord
      /\ p.key = 0 /\ p.plan = 0 /\ p.active = NoPlan /\ p.play = "no" /\ p.ref = NoPlan
      /\ p.job = b.job /\ p.from = b.from /\ p.loop = b.loop /\ p.queue = b.queue
      /\ p.gone = gone /\ p.overtaken = b.overtaken
  BY <1>1, <1>2 DEF Cleared, Pages
<1>4. p \in Pages
  BY <1>1, <1>2, RecordFacts, PlanFacts DEF Cleared, Pages, Phases
<1>5. Keeps(p, b)
  BY <1>3 DEF Keeps
<1>6. Shape(p)
  BY <1>2, <1>3 DEF Shape
<1>7. Drawing(p)
  BY <1>2, <1>3 DEF Drawing, Steady
<1>8. Shows(p)
  BY <1>2, <1>3, PlanFacts DEF Shows, PageIssued
<1> QED
  BY <1>1, <1>4, <1>5, <1>6, <1>7, <1>8, ChangedFine

LEMMA DiscardKeeps ==
  ASSUME SenderInv, NEW t \in Tabs, Discard(t)
  PROVE  SenderInv'
<1>1. PICK o \in Pages : o = page[t]
  BY TabFacts
<1>2. PICK b : b = Bump(o)
  OBVIOUS
<1>3. Fine(t, b) /\ IsBumped(b, o)
  BY <1>1, <1>2, PageIsFine, BumpFine
<1>4. PICK rec : rec = IF b.session # NoRecord THEN b.session ELSE b.cand
  OBVIOUS
<1>5. CASE rec = NoRecord
  <2>1. PICK gone : gone = b.gone \cup ({ b.plan } \ { 0 })
    OBVIOUS
  <2>2. b.gone \subseteq gone /\ gone \subseteq Streams
    BY <1>3, <2>1, PageFacts DEF IsBumped
  <2>3. PICK p : p = [ Cleared(b) EXCEPT !.gone = gone ]
    OBVIOUS
  <2>4. Fine(t, p)
    BY <1>3, <2>2, <2>3, ClearedFine DEF IsBumped
  <2>5. p = [ Cleared(b) EXCEPT !.gone = @ \cup ({ b.plan } \ { 0 }) ]
    BY <1>3, <2>1, <2>3 DEF Cleared, IsBumped, Pages
  <2>6. Turns(t, Rendered(p))
    BY <1>1, <1>2, <1>4, <1>5, <2>5 DEF Turns, Discard, Becomes
  <2> QED
    BY <2>4, <2>6, RenderedFine, TurnKeeps
<1>6. CASE rec # NoRecord
  <2>1. rec \in Known(page[t])
    <3>1. b.session = o.session /\ b.cand = o.cand
      BY <1>3 DEF IsBumped, Alike
    <3> QED
      BY <1>1, <1>4, <3>1 DEF Known
  <2>2. Fine(t, Enqueue(b, Deletion(rec, "discard")))
    BY <1>3, <1>6, <2>1, DeletionFine
  <2>3. Turns(t, Enqueue(b, Deletion(rec, "discard")))
    BY <1>1, <1>2, <1>4, <1>6 DEF Turns, Discard, Becomes
  <2> QED
    BY <2>2, <2>3, TurnKeeps
<1> QED
  BY <1>5, <1>6

LEMMA LoadKeeps ==
  ASSUME SenderInv, NEW t \in Tabs, Load(t)
  PROVE  SenderInv'
<1>1. PICK o \in Pages : o = page[t]
  BY TabFacts
<1>2. Fine(t, o) /\ Shape(o) /\ Drawing(o) /\ PageIssued(o) /\ QueueOk(o)
  BY <1>1, PageIsFine, TabFacts
<1>3. PICK k : k = LoadLargeSenderSession(o.key)
  OBVIOUS
<1>4. k \in Streams \cup { 0 }
  <2>1. o.key \in Streams \cup { 0 }
    BY PageFacts
  <2>2. newest # << >> => newest[Len(newest)] \in Streams
    BY DEF SenderInv, TypeInv
  <2> QED
    BY <1>3, <2>1, <2>2 DEF LoadLargeSenderSession
<1>5. CASE k = 0 \/ db[k] = NoRecord
  <2>1. PICK p : p = [ o EXCEPT !.loading = FALSE ]
    OBVIOUS
  <2>2. /\ p.phase = o.phase /\ p.job = o.job /\ p.from = o.from /\ p.sel = o.sel
        /\ p.plan = o.plan /\ p.active = o.active /\ p.cand = o.cand /\ p.session = o.session
        /\ p.play = o.play /\ p.key = o.key /\ p.ref = o.ref /\ p.loop = o.loop
        /\ p.queue = o.queue /\ p.gone = o.gone /\ p.overtaken = o.overtaken /\ p \in Pages
    BY <2>1 DEF Pages
  <2>3. Keeps(p, o)
    BY <2>2 DEF Keeps
  <2>4. Shape(p)
    BY <1>2, <2>2 DEF Shape
  <2>5. Steady(o) => Steady(p)
    BY <2>2 DEF Steady, Ours
  <2>6. Drawing(p)
    BY <1>2, <2>2, <2>5 DEF Drawing
  <2>7. Shows(p)
    BY <1>2, <2>2 DEF Shows, PageIssued
  <2>8. Turns(t, p)
    BY <1>1, <1>3, <1>5, <2>1 DEF Turns, Load, Becomes, Storage
  <2> QED
    BY <1>2, <2>2, <2>3, <2>4, <2>6, <2>7, <2>8, ChangeKeeps
<1>6. CASE ~(k = 0 \/ db[k] = NoRecord)
  <2>1. PICK r \in Records : r = db[k]
    BY <1>4, <1>6, TabFacts
  <2>2. k \in Streams /\ r # NoRecord /\ r.key = k /\ RecordOk(r)
    BY <1>4, <1>6, <2>1 DEF SenderInv, DbOk
  <2>3. PICK p : p = [ o EXCEPT !.loading = FALSE, !.cand = r ]
    OBVIOUS
  <2>4. /\ p.phase = o.phase /\ p.job = o.job /\ p.from = o.from /\ p.sel = o.sel
        /\ p.plan = o.plan /\ p.active = o.active /\ p.cand = r /\ p.session = o.session
        /\ p.play = o.play /\ p.key = o.key /\ p.ref = o.ref /\ p.loop = o.loop
        /\ p.queue = o.queue /\ p.gone = o.gone /\ p.overtaken = o.overtaken /\ p \in Pages
    BY <2>3 DEF Pages
  <2>5. /\ page' = [ page EXCEPT ![t] = p ] /\ held' = [ held EXCEPT ![k] = held[k] \cup { t } ]
        /\ UNCHANGED << db, newest, issued, next, budget >>
    <3>1. held' = [ held EXCEPT ![k] = @ \cup { t } ]
      BY <1>1, <1>3, <1>6 DEF Load
    <3> QED
      BY <1>1, <1>3, <1>6, <2>1, <2>3, <3>1 DEF Load, Becomes
  <2>6. QueueOk(p)
    BY <1>2, <2>4, QueueKept
  <2>7. Shape(p)
    BY <1>2, <2>4 DEF Shape
  <2>8. Steady(o) => Steady(p)
    BY <2>4 DEF Steady, Ours
  <2>9. Drawing(p)
    BY <1>2, <2>4, <2>8 DEF Drawing
  <2>10. Known(p) \subseteq Known(o) \cup { r } /\ Awaited(p) = Awaited(o)
    BY <2>4 DEF Known, Awaited
  <2>11. PageIssued(p)
    BY <1>2, <2>2, <2>4, <2>10 DEF PageIssued
  <2>12. PageIssued(p)'
    BY <2>5, <2>11 DEF PageIssued, RecordOk, Entitled
  <2>13. held \in [ Streams -> SUBSET Tabs ]
    BY DEF SenderInv, TypeInv
  <2>14. held' \in [ Streams -> SUBSET Tabs ] /\ \A s \in Streams : held[s] \subseteq held'[s]
    BY <2>2, <2>5, <2>13
  <2>15. PageStep(t, p)
    BY <2>5, <2>14 DEF PageStep, SenderInv, TypeInv
  <2>16. Backed(t, p)'
    <3>1. Backed(t, o)
      BY <1>2 DEF Fine
    <3>2. ASSUME NEW s \in Records PROVE Alone(t, p, s)' => Alone(t, o, s)
      BY <2>4, <2>14, FewerAlone DEF Alone
    <3>3. ASSUME NEW s \in Records, There(t, o, s) PROVE There(t, p, s)'
      BY <2>4, <2>5, <3>2, <3>3 DEF There, Answering
    <3>4. There(t, p, r)'
      BY <2>1, <2>2, <2>5 DEF There
    <3>5. o.session \in Records /\ o.from \in Records
      BY PageFacts
    <3>6. o.queue # << >> => o.queue[1].rec \in Records
      <4>1. o.queue # << >> => 1 \in DOMAIN o.queue
        BY PageFacts, TailFacts
      <4> QED
        BY <4>1, PageFacts, OperationFacts
    <3> QED
      BY <2>4, <2>5, <3>1, <3>2, <3>3, <3>4, <3>5, <3>6 DEF Backed
  <2>17. \A s \in Known(p) : Familiar(t, s)
    <3>1. t \in held'[k]
      BY <2>2, <2>5, <2>13
    <3> QED
      BY <1>1, <2>1, <2>2, <2>10, <3>1 DEF Familiar
  <2> QED
    BY <1>1, <2>4, <2>6, <2>7, <2>9, <2>10, <2>12, <2>15, <2>16, <2>17, PageStepKeeps DEF PageOk
<1> QED
  BY <1>5, <1>6

LEMMA ShowReceiptKeeps ==
  ASSUME SenderInv, NEW t \in Tabs, ShowReceipt(t)
  PROVE  SenderInv'
<1>1. PICK o \in Pages : o = page[t]
  BY TabFacts
<1>2. PageIssued(o) /\ PageOk(o) /\ Backed(t, o)
  BY <1>1, TabFacts
<1>3. /\ page' = page /\ issued' = issued \cup { o.loop.using.of }
      /\ UNCHANGED << db, newest, held, next, budget >>
  BY <1>1 DEF ShowReceipt, Storage
<1>4. o.loop.using.of \in Streams
  BY <1>1, PageFacts, PlanFacts DEF ShowReceipt
<1>5. PageStep(t, o)
  <2>1. page \in [ Tabs -> Pages ]
    BY DEF SenderInv, TypeInv
  <2>2. page = [ page EXCEPT ![t] = page[t] ]
    BY <2>1
  <2> QED
    BY <1>1, <1>3, <1>4, <2>2 DEF PageStep, SenderInv, TypeInv
<1>6. PageIssued(o)'
  BY <1>2, <1>3 DEF PageIssued, RecordOk, Entitled
<1>7. Backed(t, o)'
  BY <1>2, <1>3 DEF Backed, There, Alone
<1>8. \A r \in Known(o) : Familiar(t, r)
  BY <1>1 DEF Familiar
<1> QED
  BY <1>1, <1>2, <1>5, <1>6, <1>7, <1>8, PageStepKeeps

LEMMA ReloadKeeps ==
  ASSUME SenderInv, NEW t \in Tabs, Reload(t)
  PROVE  SenderInv'
<1>1. PICK o \in Pages : o = page[t]
  BY TabFacts
<1>2. PICK p : p = FreshPage(o.key)
  OBVIOUS
<1>3. /\ p.phase = "idle" /\ p.sel = FALSE /\ p.cand = NoRecord /\ p.session = NoRecord
      /\ p.plan = 0 /\ p.active = NoPlan /\ p.play = "no" /\ p.job = "none" /\ p.from = NoRecord
      /\ p.key = o.key /\ p.ref = NoPlan /\ p.loop = NoLoop /\ p.queue = << >>
      /\ p.gone = {} /\ p.overtaken = FALSE
  BY <1>2 DEF FreshPage
<1>4. p \in Pages
  <2>1. o.key \in Streams \cup { 0 }
    BY PageFacts
  <2> QED
    BY <1>2, <2>1, RecordFacts, PlanFacts DEF FreshPage, Pages, Phases
<1>5. DOMAIN p.queue = {}
  BY <1>3
<1>6. PageOk(p)
  BY <1>3, <1>5, PlanFacts DEF PageOk, QueueOk, Shape, Drawing, Steady
<1>7. Known(p) = { NoRecord } /\ Awaited(p) = {}
  BY <1>3, <1>5 DEF Known, Awaited
<1>8. PageIssued(p)
  BY <1>3, <1>7, NoRecordOk, PlanFacts DEF PageIssued
<1>9. Backed(t, p)
  BY <1>3, NothingThere DEF Backed
<1>10. Fine(t, p)
  BY <1>4, <1>6, <1>7, <1>8, <1>9 DEF Fine
<1>11. Turns(t, p)
  BY <1>1, <1>2 DEF Turns, Reload, Becomes
<1> QED
  BY <1>10, <1>11, TurnKeeps

(* A save joins the queue under a revision nobody has seen.                 *)
Saving(t, op) ==
  /\ op \in Operations /\ OpOk(page[t], op) /\ op.result = "none"
  /\ op.rec.rev = next.revision
  /\ Preparation(op) => \A i \in DOMAIN page[t].queue : ~Preparation(page[t].queue[i])
  /\ op.rec.phase = "verified" => op.rec.key \in issued
  /\ page' = [ page EXCEPT ![t] = Enqueue(page[t], op) ] /\ UNCHANGED << Storage, issued >>
  /\ next' \in [ stream : Nat \ { 0 }, revision : Nat \ { 0 } ]
  /\ next'.revision = next.revision + 1
  /\ budget' \in [ acts : Nat, failures : Nat ]

LEMMA SaveKeeps ==
  ASSUME SenderInv, NEW t \in Tabs, NEW op, Saving(t, op)
  PROVE  SenderInv'
<1>1. PICK o \in Pages : o = page[t]
  BY TabFacts
<1>2. /\ QueueOk(o) /\ Shape(o) /\ Drawing(o) /\ PageIssued(o) /\ Backed(t, o)
      /\ next.revision \in Nat \ { 0 } /\ next'.revision = next.revision + 1
  BY <1>1, TabFacts DEF SenderInv, TypeInv, Saving
<1>3. op \in Operations /\ OpOk(o, op) /\ op.result = "none" /\ op.rec.rev = next.revision
  BY <1>1 DEF Saving
<1>4. \A i \in DOMAIN o.queue : o.queue[i].rec.rev # next.revision
  <2> SUFFICES ASSUME NEW i \in DOMAIN o.queue PROVE o.queue[i].rec.rev # next.revision
    OBVIOUS
  <2>1. o.queue[i].rec \in Known(o) /\ o.queue[i].rec \in Records
    BY PageFacts, OperationFacts DEF Known
  <2>2. RecordOk(o.queue[i].rec) /\ o.queue[i].rec.rev \in Nat
    BY <1>2, <2>1, RecordFacts DEF PageIssued
  <2> QED
    BY <1>2, <2>2 DEF RecordOk
<1>5. \A i \in DOMAIN o.queue : Apart(o.queue[i], op) /\ Apart(op, o.queue[i])
  BY <1>1, <1>3, <1>4 DEF Apart, Saving
<1>6. PICK e : e = Enqueue(o, op)
  OBVIOUS
<1>7. IsEnqueued(e, o, op)
  BY <1>2, <1>3, <1>5, <1>6, EnqueueOk
<1>8. e \in Pages /\ PageOk(e)
  <2>1. Shape(e) /\ Drawing(e)
    BY <1>2, <1>7, ShownLonger
  <2> QED
    BY <1>7, <2>1 DEF IsEnqueued, PageOk
<1>9. Backed(t, e)
  BY <1>2, <1>3, <1>7, LongerBacked
<1>10. Known(e) = Known(o) \cup { op.rec } /\ Awaited(e) \subseteq Awaited(o) \cup { next.revision }
  BY <1>3, <1>7 DEF IsEnqueued
<1>11. Shows(e)
  BY <1>2, <1>7 DEF PageIssued, Shows, IsEnqueued, Alike, SameJob
<1>12. PageIssued(e)'
  <2>1. RecordOk(op.rec)'
    BY <1>2, <1>3, RecordFacts DEF RecordOk, Saving
  <2>2. ASSUME NEW r \in Known(o) PROVE RecordOk(r)'
    <3>1. r \in Records /\ RecordOk(r)
      BY <1>2, KnownIsRecord DEF PageIssued
    <3>2. r.rev \in Nat
      BY <3>1, RecordFacts
    <3> QED
      BY <1>2, <3>1, <3>2 DEF RecordOk, Saving
  <2>3. Shows(e)'
    BY <1>11 DEF Shows, Entitled, Saving
  <2> QED
    BY <1>10, <2>1, <2>2, <2>3 DEF PageIssued, Shows
<1>13. Backed(t, e)'
  BY <1>9 DEF Backed, There, Alone, Saving, Storage
<1>14. PageStep(t, e)
  BY <1>1, <1>2, <1>6 DEF PageStep, Saving, Storage, SenderInv, TypeInv
<1>15. \A r \in Known(e) : Familiar(t, r)
  BY <1>1, <1>3, <1>10 DEF Familiar
<1>16. \A v \in Awaited(e) : v \in Awaited(page[t]) \/ v = next.revision
  BY <1>1, <1>10
<1> QED
  BY <1>8, <1>12, <1>13, <1>14, <1>15, <1>16, PageStepKeeps

(* What a save is made of.                                                  *)
IsSave(op, rec, then) ==
  /\ op \in Operations /\ op.kind = "save" /\ op.rec = rec /\ op.then = then
  /\ op.result = "none" /\ op.fresh = TRUE

LEMMA SaveFacts ==
  ASSUME NEW rec \in Records, NEW over \in Nat, NEW then \in { "prepare", "verify" }
  PROVE  IsSave(Op("save", rec, over, then), rec, then)
  BY DEF IsSave, Op, Operations

LEMMA NextFacts ==
  ASSUME SenderInv
  PROVE  /\ next.stream \in Nat \ { 0 } /\ next.revision \in Nat \ { 0 }
         /\ next \in [ stream : Nat \ { 0 }, revision : Nat \ { 0 } ]
         /\ budget \in [ acts : Nat, failures : Nat ]
  BY DEF SenderInv, TypeInv

LEMMA BuiltKeeps ==
  ASSUME SenderInv, NEW t \in Tabs, Built(t)
  PROVE  SenderInv'
<1>1. PICK rec : rec = [ key |-> next.stream, rev |-> next.revision, phase |-> "testing" ]
  OBVIOUS
<1>2. next.stream \in Streams /\ MaxStreams \in Nat
  BY NextFacts DEF Built, Streams
<1>3. /\ rec \in Records /\ rec # NoRecord /\ rec.rev = next.revision /\ rec.phase = "testing"
  BY <1>1, <1>2, NextFacts DEF Records, NoRecord
<1>4. PICK op : op = Op("save", rec, 0, "prepare")
  OBVIOUS
<1>5. /\ op \in Operations /\ op.kind = "save" /\ op.rec = rec /\ op.then = "prepare"
      /\ op.result = "none" /\ op.fresh = TRUE
  <2>1. IsSave(op, rec, "prepare")
    BY <1>3, <1>4, SaveFacts
  <2> QED
    BY <2>1 DEF IsSave
<1>6. OpOk(page[t], op)
  BY <1>3, <1>5 DEF OpOk, Saves, Built, Building
<1>7. \A i \in DOMAIN page[t].queue : ~Preparation(page[t].queue[i])
  BY DEF Built, Building, Preparation
<1>8. /\ next' \in [ stream : Nat \ { 0 }, revision : Nat \ { 0 } ]
      /\ next'.revision = next.revision + 1 /\ budget' \in [ acts : Nat, failures : Nat ]
  BY NextFacts DEF Built
<1>9. page' = [ page EXCEPT ![t] = Enqueue(page[t], op) ] /\ UNCHANGED << Storage, issued >>
  BY <1>1, <1>4 DEF Built, Becomes
<1>10. Saving(t, op)
  BY <1>3, <1>5, <1>6, <1>7, <1>8, <1>9 DEF Saving
<1> QED
  BY <1>10, SaveKeeps

LEMMA UnlockFine ==
  ASSUME SenderInv, NEW t \in Tabs, NEW o, Fine(t, o), o.plan # 0, o.plan \in issued
  PROVE  Fine(t, Unlock(o, o.plan))
<1>1. PICK p : p = Unlock(o, o.plan)
  OBVIOUS
<1>2. o \in Pages /\ Shape(o) /\ Drawing(o) /\ PageIssued(o) /\ o.plan \in Streams
  BY PageFacts DEF Fine, PageOk
<1>3. /\ p.phase = "verified" /\ p.active = Files(o.plan) /\ p.play = "no" /\ p.ref = NoPlan
      /\ p.sel = o.sel /\ p.cand = o.cand /\ p.session = o.session
      /\ p.key = o.key /\ p.plan = o.plan
      /\ p.job = o.job /\ p.from = o.from /\ p.loop = o.loop /\ p.queue = o.queue
      /\ p.gone = o.gone /\ p.overtaken = o.overtaken
  BY <1>1, <1>2 DEF Unlock, Pages
<1>4. p \in Pages
  BY <1>1, <1>2, PlanFacts DEF Unlock, Pages, Phases
<1>5. Keeps(p, o)
  BY <1>3 DEF Keeps
<1>6. Shape(p)
  BY <1>2, <1>3 DEF Shape
<1>7. Steady(o) => Steady(p)
  BY <1>2, <1>3 DEF Steady, Shape
<1>8. Drawing(p)
  BY <1>2, <1>3, <1>7 DEF Drawing
<1>9. Shows(p)
  BY <1>2, <1>3, PlanFacts DEF Shows, PageIssued, Entitled
<1> QED
  BY <1>1, <1>4, <1>5, <1>6, <1>8, <1>9, ChangedFine

LEMMA EnterReceiptKeeps ==
  ASSUME SenderInv, NEW t \in Tabs, NEW code \in issued, EnterReceipt(t, code)
  PROVE  SenderInv'
<1>1. PICK o \in Pages : o = page[t]
  BY TabFacts
<1>2. /\ Fine(t, o) /\ Shape(o) /\ o.phase = "testing" /\ o.plan # 0 /\ o.plan \in issued
      /\ Acts /\ UNCHANGED << Storage, issued >> /\ o.session \in Records
  BY <1>1, PageIsFine, TabFacts, PageFacts DEF EnterReceipt
<1>3. CASE o.session = NoRecord
  <2>1. Fine(t, Rendered(Unlock(o, o.plan)))
    BY <1>2, UnlockFine, RenderedFine
  <2>2. Turns(t, Rendered(Unlock(o, o.plan)))
    BY <1>1, <1>2, <1>3 DEF Turns, EnterReceipt, Becomes
  <2> QED
    BY <2>1, <2>2, TurnKeeps
<1>4. CASE o.session # NoRecord
  <2>1. PICK rec : rec = [ o.session EXCEPT !.rev = next.revision, !.phase = "verified" ]
    OBVIOUS
  <2>2. o.session.key = o.plan /\ o.session.key \in Streams /\ o.session.rev \in Nat
    BY <1>2, <1>4, RecordFacts DEF Shape
  <2>3. PICK s \in [ key : Streams, rev : Nat, phase : { "testing", "verified" } ] : s = o.session
    BY <1>2, <1>4 DEF Records
  <2>a. /\ rec \in [ key : Streams, rev : Nat, phase : { "testing", "verified" } ]
        /\ rec.rev = next.revision /\ rec.phase = "verified" /\ rec.key = o.plan
    BY <2>1, <2>2, <2>3, NextFacts
  <2>4. /\ rec \in Records /\ rec # NoRecord /\ rec.rev = next.revision
        /\ rec.phase = "verified" /\ rec.key = o.plan
    BY <2>a, RecordFacts DEF Records
  <2>5. PICK op : op = Op("save", rec, o.session.rev, "verify")
    OBVIOUS
  <2>6. /\ op \in Operations /\ op.kind = "save" /\ op.rec = rec /\ op.then = "verify"
        /\ op.result = "none" /\ op.fresh = TRUE
    <3>1. IsSave(op, rec, "verify")
      BY <2>2, <2>4, <2>5, SaveFacts
    <3> QED
      BY <3>1 DEF IsSave
  <2>7. OpOk(page[t], op) /\ ~Preparation(op)
    BY <2>4, <2>6 DEF OpOk, Saves, Preparation
  <2>8. next' = [ next EXCEPT !.revision = @ + 1 ]
    BY <1>1, <1>4 DEF EnterReceipt
  <2>9. /\ next' \in [ stream : Nat \ { 0 }, revision : Nat \ { 0 } ]
        /\ next'.revision = next.revision + 1
    BY <2>8, NextFacts
  <2>10. budget' \in [ acts : Nat, failures : Nat ]
    BY <1>2, NextFacts DEF Acts
  <2>11. page' = [ page EXCEPT ![t] = Enqueue(page[t], op) ]
    BY <1>1, <1>4, <2>1, <2>5 DEF EnterReceipt, Becomes
  <2>12. Saving(t, op)
    BY <1>2, <2>4, <2>6, <2>7, <2>9, <2>10, <2>11 DEF Saving
  <2> QED
    BY <2>12, SaveKeeps
<1> QED
  BY <1>3, <1>4

-----------------------------------------------------------------------------
(* The transaction of the first storage call ends.                          *)

LEMMA PendingFacts ==
  ASSUME SenderInv, NEW t \in Tabs, Pending(t), NEW o, o = page[t]
  PROVE  /\ o \in Pages /\ Fine(t, o) /\ QueueOk(o) /\ o.queue # << >> /\ 1 \in DOMAIN o.queue
         /\ Head(o.queue) = o.queue[1] /\ o.queue[1].result = "none"
         /\ o.queue[1] \in Operations /\ OpOk(o, o.queue[1])
         /\ o.queue[1].rec \in Records /\ o.queue[1].rec.key \in Streams
         /\ o.queue[1].rec # NoRecord /\ o.queue[1].rec \in Known(o)
         /\ RecordOk(o.queue[1].rec)
<1>1. /\ o \in Pages /\ QueueOk(o) /\ PageIssued(o) /\ o.queue # << >>
      /\ Head(o.queue).result = "none" /\ Fine(t, o)
  BY TabFacts, PageIsFine DEF Pending
<1>2. PICK q \in Seq(Operations) : q = o.queue
  BY <1>1, PageFacts
<1>3. 1 \in DOMAIN q /\ Head(q) = q[1] /\ q[1] \in Operations
  BY <1>1, <1>2, TailFacts
<1>4. OpOk(o, q[1]) /\ q[1].rec \in Records
  BY <1>1, <1>2, <1>3, OperationFacts DEF QueueOk
<1>5. q[1].rec # NoRecord /\ q[1].rec \in Known(o)
  BY <1>2, <1>3, <1>4 DEF OpOk, Known
<1>6. RecordOk(q[1].rec) /\ q[1].rec.key \in Streams
  BY <1>1, <1>4, <1>5, RecordFacts DEF PageIssued
<1> QED
  BY <1>1, <1>2, <1>3, <1>4, <1>5, <1>6

(* No answer has come: what is there is there.                              *)
LEMMA NoAnswerYet ==
  ASSUME NEW t, NEW o, NEW r, o.queue[1].result # "done", There(t, o, r), Alone(t, o, r)
  PROVE  db[r.key] = r
  BY DEF There, Answering

LEMMA ShownSettled ==
  ASSUME NEW o, NEW p, NEW result, IsSettled(p, o, result), Shape(o), Drawing(o), PageIssued(o)
  PROVE  Shape(p) /\ Drawing(p) /\ PageIssued(p) /\ PageOk(p)
<1>1. Shape(p)
  BY DEF Shape, IsSettled, Alike, SameJob
<1>2. Steady(o) => Steady(p)
  BY DEF Steady, Ours, IsSettled, Alike, SameJob
<1>3. Drawing(p)
  BY <1>2 DEF Drawing, IsSettled, Alike, SameJob
<1>4. PageIssued(p)
  BY DEF PageIssued, IsSettled, Alike, SameJob
<1> QED
  BY <1>1, <1>3, <1>4 DEF PageOk, IsSettled

(* It did not change the records.                                           *)
LEMMA QuietSettleKeeps ==
  ASSUME SenderInv, NEW t \in Tabs, Pending(t), NEW result \in { "changed", "failed" },
         Settle(t, result), UNCHANGED << Storage, issued, next >>, UNCHANGED budget \/ Fails
  PROVE  SenderInv'
<1>1. PICK o \in Pages : o = page[t]
  BY TabFacts
<1>2. /\ Fine(t, o) /\ QueueOk(o) /\ o.queue # << >> /\ 1 \in DOMAIN o.queue
      /\ o.queue[1].result = "none" /\ Shape(o) /\ Drawing(o) /\ PageIssued(o) /\ Backed(t, o)
  BY <1>1, PendingFacts, TabFacts
<1>3. PICK p : p = Settled(o, result)
  OBVIOUS
<1>4. IsSettled(p, o, result)
  BY <1>2, <1>3, SettleOk
<1>5. PageOk(p) /\ PageIssued(p)
  BY <1>2, <1>4, ShownSettled
<1>6. /\ p \in Pages /\ p.session = o.session /\ p.from = o.from /\ p.cand = o.cand
      /\ p.sel = o.sel /\ p.overtaken = o.overtaken /\ p.gone = o.gone
      /\ p.queue[1].result # "done" /\ Known(p) = Known(o) /\ Awaited(p) \subseteq Awaited(o)
  BY <1>2, <1>4 DEF IsSettled, Alike, SameJob
<1>7. \A r : There(t, o, r) => There(t, p, r)
  BY <1>2, <1>6, NoAnswerYet DEF There, Alone
<1>8. Backed(t, p)
  BY <1>2, <1>6, <1>7 DEF Backed
<1>9. Fine(t, p)
  BY <1>1, <1>5, <1>6, <1>8 DEF Fine
<1>10. Turns(t, p)
  BY <1>1, <1>3 DEF Turns, Settle, Becomes, Settled
<1> QED
  BY <1>9, <1>10, TurnKeeps

LEMMA TransactionFailsKeeps ==
  ASSUME SenderInv, NEW t \in Tabs, TransactionFails(t)
  PROVE  SenderInv'
<1>1. /\ Pending(t) /\ Fails /\ Settle(t, "failed") /\ UNCHANGED << Storage, issued, next >>
  BY DEF TransactionFails
<1> QED
  BY <1>1, QuietSettleKeeps

(* A save or a deletion that the database accepted.                         *)
Stores(t, op, stored) ==
  /\ \/ op.kind = "save" /\ stored = op.rec /\ held' = [ held EXCEPT ![op.rec.key] = { t } ]
     \/ /\ op.kind = "delete" /\ stored = NoRecord /\ held' = held
        /\ db[op.rec.key] = NoRecord \/ db[op.rec.key].rev = op.rec.rev
  /\ db' = [ db EXCEPT ![op.rec.key] = stored ]

(* What it does to another tab: nothing that this tab had for itself.       *)
LEMMA OthersUnharmed ==
  ASSUME SenderInv, NEW t \in Tabs, Pending(t), NEW op, op = page[t].queue[1],
         NEW stored, Stores(t, op, stored),
         NEW u \in Tabs, u # t, NEW o, NEW r \in Records, Alone(u, o, r)'
  PROVE  Alone(u, o, r) /\ (db[r.key] = r => db'[r.key] = r)
<1>1. /\ op.rec.key \in Streams /\ op.rec \in Known(page[t]) /\ op.rec # NoRecord
  BY PendingFacts
<1>2. /\ r # NoRecord /\ r.key \in Streams /\ held'[r.key] \subseteq { u } /\ r.key \notin o.gone
  BY RecordFacts DEF Alone
<1>3. held \in [ Streams -> SUBSET Tabs ] /\ db \in [ Streams -> Records ]
  BY DEF SenderInv, TypeInv
<1>4. CASE r.key # op.rec.key
  <2>1. held'[r.key] = held[r.key] /\ db'[r.key] = db[r.key]
    BY <1>1, <1>2, <1>3, <1>4 DEF Stores
  <2> QED
    BY <1>2, <2>1 DEF Alone
<1>5. CASE r.key = op.rec.key
  <2>1. CASE op.kind = "save"
    <3>1. held'[r.key] = { t }
      BY <1>1, <1>3, <1>5, <2>1 DEF Stores
    <3> QED
      BY <1>2, <3>1
  <2>2. CASE op.kind # "save"
    <3>1. held' = held /\ (db[op.rec.key] = NoRecord \/ db[op.rec.key].rev = op.rec.rev)
      BY <2>2 DEF Stores
    <3>2. ASSUME db[r.key] = r PROVE FALSE
      <4>1. db[op.rec.key].rev = op.rec.rev
        BY <1>2, <1>5, <3>1, <3>2
      <4>2. t \in held[op.rec.key]
        BY <1>1, <4>1 DEF SenderInv, Holders
      <4> QED
        BY <1>2, <1>5, <3>1, <4>2
    <3> QED
      BY <1>2, <3>1, <3>2 DEF Alone
  <2> QED
    BY <2>1, <2>2
<1> QED
  BY <1>4, <1>5

LEMMA OthersBacked ==
  ASSUME SenderInv, NEW t \in Tabs, Pending(t), NEW op, op = page[t].queue[1],
         NEW stored, Stores(t, op, stored),
         NEW u \in Tabs, u # t, NEW o \in Pages, Backed(u, o)
  PROVE  Backed(u, o)'
<1>1. ASSUME NEW r \in Records, There(u, o, r) PROVE There(u, o, r)'
  <2>1. ASSUME Alone(u, o, r)', ~Answering(o, r.key) PROVE db'[r.key] = r
    <3>1. Alone(u, o, r) /\ (db[r.key] = r => db'[r.key] = r)
      BY <2>1, OthersUnharmed
    <3> QED
      BY <1>1, <2>1, <3>1 DEF There
  <2> QED
    BY <2>1 DEF There
<1>2. o.session \in Records /\ o.from \in Records /\ o.cand \in Records
  BY PageFacts
<1>3. ASSUME o.queue # << >>, o.queue[1].result = "done", Saves(o.queue[1]),
             Alone(u, o, o.queue[1].rec)'
      PROVE  db'[o.queue[1].rec.key] = o.queue[1].rec
  <2>1. 1 \in DOMAIN o.queue
    BY <1>3, PageFacts, TailFacts
  <2>2. PICK r \in Records : r = o.queue[1].rec
    BY <2>1, PageFacts, OperationFacts
  <2>3. Alone(u, o, r)'
    BY <1>3, <2>2 DEF Alone
  <2>4. Alone(u, o, r) /\ (db[r.key] = r => db'[r.key] = r)
    BY <2>3, OthersUnharmed
  <2> QED
    BY <1>3, <2>2, <2>4 DEF Backed
<1> QED
  BY <1>1, <1>2, <1>3 DEF Backed

(* What it does to its own tab: the answer that is to come says it.         *)
LEMMA OwnBacked ==
  ASSUME SenderInv, NEW t \in Tabs, Pending(t), NEW op, op = page[t].queue[1],
         NEW stored, Stores(t, op, stored),
         NEW o \in Pages, o = page[t], NEW p, IsSettled(p, o, "done")
  PROVE  Backed(t, p)'
<1>1. /\ op.rec.key \in Streams /\ OpOk(o, op) /\ op = o.queue[1] /\ op.result = "none"
      /\ 1 \in DOMAIN o.queue /\ op \in Operations
  BY PendingFacts
<1>2. held \in [ Streams -> SUBSET Tabs ] /\ db \in [ Streams -> Records ] /\ Backed(t, o)
  BY TabFacts DEF SenderInv, TypeInv
<1>3. /\ p.session = o.session /\ p.from = o.from /\ p.cand = o.cand /\ p.sel = o.sel
      /\ p.overtaken = o.overtaken /\ p.gone = o.gone /\ p.queue # << >>
      /\ p.queue[1].result = "done" /\ p.queue[1].rec = op.rec /\ p.queue[1].then = op.then
  BY <1>1 DEF IsSettled, Alike, SameJob
<1>4. ASSUME NEW r \in Records, There(t, o, r) PROVE There(t, p, r)'
  <2> SUFFICES ASSUME Alone(t, p, r)' PROVE db'[r.key] = r \/ Answering(p, r.key)
    BY DEF There
  <2>1. r # NoRecord /\ r.key \in Streams /\ held'[r.key] \subseteq { t } /\ r.key \notin o.gone
    BY <1>3, RecordFacts DEF Alone
  <2>2. CASE r.key = op.rec.key
    <3>1. op.then # "cleanup"
      BY <1>1, <2>1, <2>2 DEF OpOk
    <3> QED
      BY <1>3, <2>2, <3>1 DEF Answering
  <2>3. CASE r.key # op.rec.key
    <3>1. held'[r.key] = held[r.key] /\ db'[r.key] = db[r.key]
      BY <1>1, <1>2, <2>1, <2>3 DEF Stores
    <3>2. Alone(t, o, r)
      BY <2>1, <3>1 DEF Alone
    <3>3. db[r.key] = r
      BY <1>1, <1>4, <3>2, NoAnswerYet
    <3> QED
      BY <3>1, <3>3
  <2> QED
    BY <2>2, <2>3
<1>5. o.session \in Records /\ o.from \in Records /\ o.cand \in Records
  BY PageFacts
<1>6. ASSUME Saves(p.queue[1]) PROVE db'[op.rec.key] = op.rec
  <2>1. op.kind = "save"
    BY <1>1, <1>3, <1>6 DEF OpOk, Saves
  <2> QED
    BY <1>1, <1>2, <2>1 DEF Stores
<1> QED
  BY <1>2, <1>3, <1>4, <1>5, <1>6 DEF Backed

LEMMA StoreKeeps ==
  ASSUME SenderInv, NEW t \in Tabs, Pending(t), Settle(t, "done"),
         NEW stored, Stores(t, page[t].queue[1], stored),
         newest' \in Seq(Streams),
         \A i, j \in DOMAIN newest' : newest'[i] = newest'[j] => i = j,
         { k \in Streams : db'[k] # NoRecord } = { newest'[i] : i \in DOMAIN newest' },
         UNCHANGED << issued, next, budget >>
  PROVE  SenderInv'
<1>1. PICK o \in Pages : o = page[t]
  BY TabFacts
<1>2. PICK op : op = o.queue[1]
  OBVIOUS
<1>3. /\ QueueOk(o) /\ o.queue # << >> /\ 1 \in DOMAIN o.queue /\ op.result = "none"
      /\ op \in Operations /\ OpOk(o, op) /\ op.rec \in Records /\ op.rec.key \in Streams
      /\ op.rec # NoRecord /\ op.rec \in Known(o) /\ RecordOk(op.rec)
  BY <1>1, <1>2, PendingFacts
<1>4. Stores(t, op, stored)
  BY <1>1, <1>2
<1>5. PICK p : p = Settled(o, "done")
  OBVIOUS
<1>6. IsSettled(p, o, "done")
  BY <1>2, <1>3, <1>5, SettleOk
<1>7. Shape(p) /\ Drawing(p) /\ PageIssued(p) /\ PageOk(p)
  BY <1>1, <1>6, TabFacts, ShownSettled
<1>8. p \in Pages /\ Known(p) = Known(o) /\ Awaited(p) \subseteq Awaited(o)
  BY <1>6 DEF IsSettled
<1>9. /\ held \in [ Streams -> SUBSET Tabs ] /\ db \in [ Streams -> Records ]
      /\ page \in [ Tabs -> Pages ]
  BY DEF SenderInv, TypeInv
<1>10. /\ page' = [ page EXCEPT ![t] = p ] /\ page'[t] = p /\ page' \in [ Tabs -> Pages ]
       /\ \A u \in Tabs \ { t } : page'[u] = page[u]
  <2>1. page' = [ page EXCEPT ![t] = p ]
    BY <1>1, <1>5 DEF Settle, Becomes, Settled
  <2> QED
    BY <1>8, <1>9, <2>1
<1>11. /\ stored \in Records /\ RecordOk(stored) /\ (stored # NoRecord => stored = op.rec)
       /\ stored # NoRecord => op.kind = "save"
  BY <1>3, <1>4, NoRecordOk, RecordFacts DEF Stores
<1>12. /\ db' \in [ Streams -> Records ] /\ db'[op.rec.key] = stored
       /\ \A k \in Streams \ { op.rec.key } : db'[k] = db[k]
       /\ held' \in [ Streams -> SUBSET Tabs ]
       /\ \A k \in Streams \ { op.rec.key } : held'[k] = held[k]
       /\ op.kind = "save" => held'[op.rec.key] = { t }
  <2>1. /\ db' = [ db EXCEPT ![op.rec.key] = stored ]
        /\ held' = [ held EXCEPT ![op.rec.key] = { t } ] \/ held' = held
        /\ op.kind = "save" => held' = [ held EXCEPT ![op.rec.key] = { t } ]
    BY <1>4 DEF Stores
  <2>2. /\ db' \in [ Streams -> Records ] /\ db'[op.rec.key] = stored
        /\ \A k \in Streams \ { op.rec.key } : db'[k] = db[k]
    BY <1>3, <1>9, <1>11, <2>1
  <2>3. /\ held' \in [ Streams -> SUBSET Tabs ]
        /\ \A k \in Streams \ { op.rec.key } : held'[k] = held[k]
    <3>1. CASE held' = held
      BY <1>9, <3>1
    <3>2. CASE held' = [ held EXCEPT ![op.rec.key] = { t } ]
      <4>1. { t } \in SUBSET Tabs
        OBVIOUS
      <4> QED
        BY <1>3, <1>9, <3>2, <4>1
    <3> QED
      BY <2>1, <3>1, <3>2
  <2>4. op.kind = "save" => held'[op.rec.key] = { t }
    BY <1>3, <1>9, <2>1
  <2> QED
    BY <2>2, <2>3, <2>4
<1>13. TypeInv'
  BY <1>10, <1>12 DEF TypeInv, SenderInv
<1>14. PagesOk'
  <2> SUFFICES ASSUME NEW u \in Tabs PROVE PageOk(page'[u]) /\ PageIssued(page[u])'
    BY DEF PagesOk
  <2>1. CASE u = t
    BY <2>1, <1>7, <1>10 DEF PageIssued, Known, RecordOk, Entitled
  <2>2. CASE u # t
    <3>1. page'[u] = page[u] /\ PageOk(page[u]) /\ PageIssued(page[u])
      BY <2>2, <1>10, TabFacts
    <3> QED
      BY <3>1 DEF PageIssued, Known, RecordOk, Entitled
  <2> QED
    BY <2>1, <2>2
<1>15. \A u \in Tabs : Known(page'[u]) = Known(page[u]) /\ Awaited(page'[u]) \subseteq Awaited(page[u])
  BY <1>1, <1>8, <1>10
<1>16. Saves(op) => /\ op.rec.rev \in Awaited(page[t])
                    /\ \A u \in Tabs : op.rec.rev \notin Awaited(page'[u])
  <2> SUFFICES ASSUME Saves(op), NEW u \in Tabs
               PROVE  op.rec.rev \in Awaited(page[t]) /\ op.rec.rev \notin Awaited(page'[u])
    BY <1>9
  <2>1. op.rec.rev \notin Awaited(p) /\ op.rec.rev \in Awaited(o)
    BY <1>2, <1>6 DEF IsSettled
  <2>2. u # t => op.rec.rev \notin Awaited(page[u])
    BY <1>1, <1>3 DEF SenderInv, Cross
  <2> QED
    BY <1>1, <1>10, <1>15, <2>1, <2>2
<1>17. op.kind = "save" <=> Saves(op)
  BY <1>3 DEF OpOk
<1>18. DbOk'
  <2>1. ASSUME NEW k \in Streams, NEW u \in Tabs PROVE db'[k].rev \notin Awaited(page'[u])
    <3>1. CASE k # op.rec.key
      <4>1. db'[k] = db[k] /\ db[k].rev \notin Awaited(page[u])
        BY <3>1, <1>12 DEF SenderInv, DbOk
      <4> QED
        BY <4>1, <1>15
    <3>2. CASE k = op.rec.key /\ stored = NoRecord
      <4>1. 0 \notin Awaited(page[u])
        BY AwaitedIsKnown
      <4> QED
        BY <3>2, <4>1, <1>12, <1>15, RecordFacts
    <3>3. CASE k = op.rec.key /\ stored # NoRecord
      BY <3>3, <1>11, <1>12, <1>16, <1>17
    <3> QED
      BY <3>1, <3>2, <3>3
  <2>2. ASSUME NEW k \in Streams
        PROVE  RecordOk(db[k])' /\ (db'[k] # NoRecord => db'[k].key = k)
    <3>1. PICK r : r = db'[k]
      OBVIOUS
    <3>2. RecordOk(r) /\ (r # NoRecord => r.key = k)
      BY <3>1, <1>11, <1>12 DEF SenderInv, DbOk
    <3>3. RecordOk(r)'
      BY <3>2 DEF RecordOk
    <3> QED
      BY <3>1, <3>2, <3>3 DEF RecordOk
  <2> QED
    BY <2>1, <2>2 DEF DbOk, Awaited
<1>19. Cross'
  <2> SUFFICES ASSUME NEW u \in Tabs, NEW w \in Tabs, u # w, NEW r \in Known(page'[w])
               PROVE  r.rev \notin Awaited(page'[u])
    BY DEF Cross, Known, Awaited
  <2>1. r \in Known(page[w]) /\ r.rev \notin Awaited(page[u])
    BY <1>15 DEF SenderInv, Cross
  <2> QED
    BY <2>1, <1>15
<1>20. Holders'
  <2> SUFFICES ASSUME NEW u \in Tabs, NEW r \in Known(page'[u]), r # NoRecord,
                      db'[r.key].rev = r.rev
               PROVE  u \in held'[r.key]
    BY DEF Holders, Known
  <2>1. r \in Known(page[u]) /\ page[u] \in Pages /\ PageIssued(page[u])
    BY <1>15, TabFacts
  <2>2. r \in Records /\ RecordOk(r) /\ r.key \in Streams
    BY <2>1, KnownIsRecord, RecordFacts DEF PageIssued
  <2>3. CASE r.key # op.rec.key
    BY <2>1, <2>2, <2>3, <1>12 DEF SenderInv, Holders
  <2>4. CASE r.key = op.rec.key /\ stored = NoRecord
    BY <2>2, <2>4, <1>12, RecordFacts DEF RecordOk
  <2>5. CASE r.key = op.rec.key /\ stored # NoRecord
    <3>1. r.rev = op.rec.rev /\ Saves(op) /\ op.kind = "save"
      BY <2>5, <1>11, <1>12, <1>17
    <3>2. u = t
      BY <2>1, <3>1, <1>16 DEF SenderInv, Cross
    <3> QED
      BY <2>5, <3>1, <3>2, <1>12
  <2> QED
    BY <2>3, <2>4, <2>5
<1>21. AllBacked'
  <2> SUFFICES ASSUME NEW u \in Tabs PROVE Backed(u, page[u])'
    BY DEF AllBacked
  <2>1. CASE u = t
    <3>1. Backed(t, p)'
      BY <1>1, <1>2, <1>4, <1>6, OwnBacked
    <3> QED
      BY <2>1, <3>1, <1>10 DEF Backed, There, Alone, Answering
  <2>2. CASE u # t
    <3>1. PICK v \in Pages : v = page[u]
      BY <1>9
    <3>2. page'[u] = v /\ Backed(u, v)
      BY <2>2, <3>1, <1>10, TabFacts
    <3>3. Backed(u, v)'
      BY <1>1, <1>2, <1>4, <2>2, <3>2, OthersBacked
    <3> QED
      BY <3>2, <3>3 DEF Backed, There, Alone, Answering
  <2> QED
    BY <2>1, <2>2
<1> QED
  BY <1>13, <1>14, <1>18, <1>19, <1>20, <1>21 DEF SenderInv

LEMMA TransactionKeeps ==
  ASSUME SenderInv, NEW t \in Tabs, Transaction(t)
  PROVE  SenderInv'
<1>1. PICK op \in Operations : op = page[t].queue[1]
  BY PendingFacts DEF Transaction
<1>2. PICK k \in Streams : k = op.rec.key
  BY <1>1, PendingFacts DEF Transaction
<1>3. /\ Pending(t) /\ UNCHANGED << issued, next, budget >>
      /\ op = Head(page[t].queue) /\ op.rec \in Records /\ op.rec # NoRecord
      /\ IF op.kind = "save" THEN SaveTransaction(t, op) ELSE DeleteTransaction(t, op)
  BY <1>1, PendingFacts DEF Transaction
<1>4. /\ op.kind \in { "save", "delete" } /\ db \in [ Streams -> Records ]
      /\ { j \in Streams : db[j] # NoRecord } = { newest[i] : i \in DOMAIN newest }
  BY OperationFacts DEF SenderInv, TypeInv
<1>5. PICK w \in Seq(Streams) :
        /\ w = Without(k)
        /\ { w[i] : i \in DOMAIN w } = { j \in Streams : db[j] # NoRecord } \ { k }
        /\ \A i, j \in DOMAIN w : w[i] = w[j] => i = j
  <2>1. TypeInv
    BY DEF SenderInv
  <2> QED
    BY <1>4, <2>1, WithoutFacts
<1>6. CASE op.kind = "save" /\ ~(op.over = 0 \/ db[k].rev = op.over)
  <2>1. Settle(t, "failed") /\ UNCHANGED << Storage, issued, next >> /\ UNCHANGED budget
    BY <1>2, <1>3, <1>6 DEF SaveTransaction
  <2> QED
    BY <1>3, <2>1, QuietSettleKeeps
<1>7. CASE op.kind = "delete" /\ ~(db[k] = NoRecord \/ db[k].rev = op.rec.rev)
  <2>1. Settle(t, "changed") /\ UNCHANGED << Storage, issued, next >> /\ UNCHANGED budget
    BY <1>2, <1>3, <1>7 DEF DeleteTransaction
  <2> QED
    BY <1>3, <2>1, QuietSettleKeeps
<1>8. CASE op.kind = "save" /\ (op.over = 0 \/ db[k].rev = op.over)
  <2>1. /\ db' = [ db EXCEPT ![k] = op.rec ] /\ held' = [ held EXCEPT ![k] = { t } ]
        /\ newest' = Append(w, k) /\ Settle(t, "done")
    BY <1>2, <1>3, <1>5, <1>8 DEF SaveTransaction
  <2>2. Stores(t, page[t].queue[1], op.rec)
    BY <1>1, <1>2, <1>8, <2>1 DEF Stores
  <2>4. /\ newest' \in Seq(Streams) /\ DOMAIN newest' = 1 .. Len(w) + 1 /\ DOMAIN w = 1 .. Len(w)
        /\ Len(w) \in Nat /\ newest'[Len(w) + 1] = k /\ \A i \in DOMAIN w : newest'[i] = w[i]
    BY <2>1, AppendFacts
  <2>5. \A i \in DOMAIN newest' : (i \in DOMAIN w /\ newest'[i] = w[i] /\ w[i] # k)
                                  \/ (i = Len(w) + 1 /\ newest'[i] = k)
    BY <1>5, <2>4
  <2>6. \A i, j \in DOMAIN newest' : newest'[i] = newest'[j] => i = j
    BY <1>5, <2>5
  <2>7. { j \in Streams : db'[j] # NoRecord } = { newest'[i] : i \in DOMAIN newest' }
    <3>1. { j \in Streams : db'[j] # NoRecord } = { j \in Streams : db[j] # NoRecord } \cup { k }
      BY <1>3, <1>4, <2>1
    <3>2. { newest'[i] : i \in DOMAIN newest' } = { w[i] : i \in DOMAIN w } \cup { k }
      <4>1. DOMAIN w \subseteq DOMAIN newest' /\ Len(w) + 1 \in DOMAIN newest'
        BY <2>4
      <4> QED
        BY <2>4, <2>5, <4>1
    <3> QED
      BY <1>5, <3>1, <3>2
  <2> QED
    BY <1>3, <2>1, <2>2, <2>4, <2>6, <2>7, StoreKeeps
<1>9. CASE op.kind = "delete" /\ (db[k] = NoRecord \/ db[k].rev = op.rec.rev)
  <2>1. /\ db' = [ db EXCEPT ![k] = NoRecord ] /\ held' = held
        /\ newest' = w /\ Settle(t, "done")
    BY <1>2, <1>3, <1>5, <1>9 DEF DeleteTransaction, Deleted
  <2>2. Stores(t, page[t].queue[1], NoRecord)
    BY <1>1, <1>2, <1>9, <2>1 DEF Stores
  <2>4. { j \in Streams : db'[j] # NoRecord } = { newest'[i] : i \in DOMAIN newest' }
    BY <1>4, <1>5, <2>1
  <2>5. /\ newest' \in Seq(Streams)
        /\ \A i, j \in DOMAIN newest' : newest'[i] = newest'[j] => i = j
    BY <1>5, <2>1
  <2> QED
    BY <1>3, <2>1, <2>2, <2>4, <2>5, StoreKeeps
<1> QED
  BY <1>4, <1>6, <1>7, <1>8, <1>9

-----------------------------------------------------------------------------
(* The page goes on when its first storage call returns.                    *)

Returned(t, o, op, r) ==
  /\ o = page[t] /\ o \in Pages /\ Shape(o) /\ Drawing(o) /\ PageIssued(o) /\ Backed(t, o)
  /\ o.queue # << >> /\ 1 \in DOMAIN o.queue /\ op = o.queue[1]
  /\ op \in Operations /\ OpOk(o, op) /\ op.result # "none"
  /\ op.rec \in Records /\ op.rec # NoRecord /\ op.rec.key \in Streams /\ op.rec \in Known(o)
  /\ RecordOk(op.rec)
  /\ r \in Pages /\ QueueOk(r) /\ Alike(r, o) /\ SameJob(r, o)
  /\ r.queue # << >> => 1 \in DOMAIN r.queue
  /\ \A i \in DOMAIN r.queue : Apart(op, r.queue[i]) /\ r.queue[i].result = "none"
  /\ Known(r) \subseteq Known(o) /\ Awaited(r) \subseteq Awaited(o)

LEMMA ReturnFacts ==
  ASSUME SenderInv, NEW t \in Tabs, page[t].queue # << >>, Head(page[t].queue).result # "none",
         NEW o, o = page[t], NEW op, op = Head(o.queue), NEW r, r = Tailed(o)
  PROVE  Returned(t, o, op, r)
<1>1. /\ o \in Pages /\ Shape(o) /\ Drawing(o) /\ PageIssued(o) /\ Backed(t, o) /\ QueueOk(o)
  BY TabFacts
<1>2. IsTailed(r, o)
  BY <1>1, TailOk
<1>3. 1 \in DOMAIN o.queue /\ op = o.queue[1] /\ op \in Operations /\ OpOk(o, op)
  BY <1>2 DEF IsTailed
<1>4. op.rec \in Records /\ op.rec # NoRecord /\ op.rec.key \in Streams /\ op.rec \in Known(o)
  BY <1>2, <1>3, OperationFacts, RecordFacts DEF IsTailed, OpOk
<1>5. RecordOk(op.rec)
  BY <1>1, <1>4 DEF PageIssued
<1> QED
  BY <1>1, <1>2, <1>3, <1>4, <1>5 DEF IsTailed, Returned

(* What a page may become when a storage call has returned: no answer is    *)
(* there any more, so its records are where it expects them.                *)
After(t, o, r, p) ==
  /\ p \in Pages /\ p.queue = r.queue /\ r.gone \subseteq p.gone
  /\ { p.session, p.cand, p.from } \subseteq Known(o) \cup { NoRecord }
  /\ r.job = "prepare" =>
       p.job = "prepare" \/ \A i \in DOMAIN r.queue : ~Preparation(r.queue[i])
  /\ Shape(p) /\ Drawing(p) /\ Shows(p)
  /\ ~p.overtaken =>
       There(t, p, p.session) /\ There(t, p, p.from) /\ (~p.sel => There(t, p, p.cand))

LEMMA AfterReturn ==
  ASSUME SenderInv, NEW t \in Tabs, NEW o, NEW op, NEW r, Returned(t, o, op, r),
         NEW p, After(t, o, r, p)
  PROVE  Fine(t, p)
<1>1. QueueOk(p)
  BY QueueKept DEF Returned, After
<1>2. Known(p) \subseteq Known(o) \cup { NoRecord }
  <2>1. { p.queue[i].rec : i \in DOMAIN p.queue } \subseteq Known(o)
    BY DEF Known, After, Returned
  <2> QED
    BY <2>1 DEF Known, After
<1>3. Awaited(p) \subseteq Awaited(o)
  <2>1. Awaited(p) = Awaited(r)
    BY DEF Awaited, After
  <2> QED
    BY <2>1 DEF Returned
<1>4. PageIssued(p)
  BY <1>2, NoRecordOk DEF PageIssued, Returned, After, Shows
<1>5. p.queue # << >> => p.queue[1].result = "none"
  BY DEF After, Returned
<1>6. Backed(t, p)
  BY <1>5 DEF Backed, After
<1>7. p \in Pages /\ PageOk(p) /\ page[t] = o
  BY <1>1 DEF PageOk, After, Returned
<1> QED
  BY <1>2, <1>3, <1>4, <1>6, <1>7 DEF Fine

(* The answer was not that the records changed, or it is too late to say.   *)
LEMMA ThereAfter ==
  ASSUME NEW t \in Tabs, NEW o, NEW op, NEW r, Returned(t, o, op, r), NEW p, r.gone \subseteq p.gone,
         NEW rec, There(t, o, rec),
         op.result # "done" \/ op.then = "cleanup" \/ op.rec.key \in p.gone \/ op.rec.key # rec.key
  PROVE  There(t, p, rec)
  BY DEF There, Alone, Answering, Returned, Alike

LEMMA QuietReturn ==
  ASSUME SenderInv, NEW t \in Tabs, NEW o, NEW op, NEW r, Returned(t, o, op, r),
         op.result # "done" \/ op.then = "cleanup"
  PROVE  Fine(t, r)
<1>1. Shape(r) /\ Shows(r)
  BY DEF Shape, Shows, PageIssued, Returned, Alike, SameJob
<1>2. Drawing(r)
  <2>1. Steady(o) => Steady(r)
    BY DEF Steady, Ours, Returned, Alike, SameJob
  <2> QED
    BY <2>1 DEF Drawing, Returned, Alike, SameJob
<1>3. /\ r.session = o.session /\ r.from = o.from /\ r.cand = o.cand /\ r.sel = o.sel
      /\ r.overtaken = o.overtaken
  BY DEF Returned, Alike, SameJob
<1>4. \A rec : There(t, o, rec) => There(t, r, rec)
  BY ThereAfter
<1>5. After(t, o, r, r)
  BY <1>1, <1>2, <1>3, <1>4 DEF After, Returned, Backed, Known
<1> QED
  BY <1>5, AfterReturn
(* A preparation of the current generation is shown.                        *)
LEMMA PublishFine ==
  ASSUME SenderInv, NEW t \in Tabs, NEW o, NEW op, NEW r, Returned(t, o, op, r), Preparation(op)
  PROVE  Fine(t, Prepared(r, op))
<1>1. PICK p : p = Prepared(r, op)
  OBVIOUS
<1>2. /\ o \in Pages /\ Shape(o) /\ Drawing(o) /\ PageIssued(o) /\ Backed(t, o) /\ r \in Pages
      /\ op.then = "prepare" /\ op.fresh /\ o.job = "prepare" /\ op.rec.key \in Streams
      /\ op.rec.key # 0 /\ op = o.queue[1] /\ o.queue # << >> /\ op.rec \in Records
  BY RecordFacts DEF Returned, OpOk, Preparation
<1>3. /\ r.sel = o.sel /\ r.from = o.from /\ r.loop = o.loop /\ r.gone = o.gone /\ r.key = o.key
      /\ r.overtaken = o.overtaken
  BY DEF Returned, Alike, SameJob
<1>4. /\ p.phase = "testing" /\ p.job = "none" /\ p.cand = NoRecord
      /\ p.session = (IF op.result = "done" THEN op.rec ELSE NoRecord)
      /\ p.key = (IF op.result = "done" THEN op.rec.key ELSE o.key)
      /\ p.plan = op.rec.key /\ p.active = Probe(op.rec.key) /\ p.play = "yes" /\ p.ref = NoPlan
      /\ p.sel = o.sel /\ p.from = o.from /\ p.loop = o.loop /\ p.queue = r.queue
      /\ p.gone = o.gone /\ p.overtaken = o.overtaken
  BY <1>1, <1>2, <1>3 DEF Prepared, Publish, Pages
<1>5. p \in Pages
  <2>1. PICK session \in Records : session = IF op.result = "done" THEN op.rec ELSE NoRecord
    BY <1>2, RecordFacts
  <2>2. PICK key \in Streams \cup { 0 } : key = IF op.result = "done" THEN op.rec.key ELSE r.key
    BY <1>2 DEF Pages
  <2>3. PICK plan \in Streams \cup { 0 } : plan = op.rec.key
    BY <1>2
  <2>4. PICK active \in Plans : active = Probe(op.rec.key)
    BY <1>2, PlanFacts
  <2>5. PICK u \in Pages : u = [ r EXCEPT !.phase = "testing", !.job = "none", !.cand = NoRecord,
                                         !.session = session, !.key = key ]
    BY <1>2, RecordFacts DEF Pages, Phases
  <2>6. p = [ u EXCEPT !.plan = plan, !.active = active, !.play = "yes", !.ref = NoPlan ]
    BY <1>1, <1>2, <2>1, <2>2, <2>3, <2>4, <2>5 DEF Prepared, Publish
  <2> QED
    BY <2>6, PlanFacts DEF Pages
<1>6. o.from = NoRecord
  BY <1>2 DEF Shape
<1>7. Shape(p)
  BY <1>2, <1>4, <1>6 DEF Shape
<1>8. ~o.overtaken => o.sel /\ o.loop = NoLoop
  BY <1>2 DEF Drawing, Steady
<1>9. Drawing(p)
  BY <1>2, <1>4, <1>8, PlanFacts DEF Drawing, Steady, Ours
<1>10. Shows(p)
  BY <1>2, <1>4, PlanFacts DEF Shows, PageIssued, Entitled
<1>11. There(t, p, p.session)
  BY <1>2, <1>4, NothingThere DEF Backed, Saves, There, Alone
<1>12. \A i \in DOMAIN r.queue : ~Preparation(r.queue[i])
  BY DEF Returned, Apart
<1>13. { p.session, p.cand, p.from } \subseteq Known(o) \cup { NoRecord }
  BY <1>4, <1>6 DEF Returned
<1>14. There(t, p, p.from) /\ There(t, p, p.cand)
  BY <1>4, <1>6, NothingThere
<1>15. After(t, o, r, p)
  BY <1>3, <1>4, <1>5, <1>7, <1>9, <1>10, <1>11, <1>12, <1>13, <1>14 DEF After
<1> QED
  BY <1>1, <1>15, AfterReturn

(* One that came too late takes its record back.                            *)
LEMMA CleanupFine ==
  ASSUME SenderInv, NEW t \in Tabs, NEW o, NEW op, NEW r, Returned(t, o, op, r), ~op.fresh,
         op.then = "prepare"
  PROVE  Fine(t, Prepared(r, op))
<1>1. Prepared(r, op) = Cleanup(r, op)
  BY DEF Prepared
<1>2. CASE op.result # "done"
  BY <1>1, <1>2, QuietReturn DEF Cleanup
<1>3. CASE op.result = "done"
  <2>1. PICK gone : gone = r.gone \cup { op.rec.key }
    OBVIOUS
  <2>2. PICK g : g = [ r EXCEPT !.gone = gone ]
    OBVIOUS
  <2>3. /\ r \in Pages /\ o \in Pages /\ Shape(o) /\ Drawing(o) /\ PageIssued(o) /\ Backed(t, o)
        /\ op.rec.key \in Streams
    BY DEF Returned
  <2>4. /\ g.queue = r.queue /\ Alike(r, o) /\ SameJob(r, o) /\ g.gone = gone
        /\ g.phase = r.phase /\ g.sel = r.sel /\ g.cand = r.cand /\ g.session = r.session
        /\ g.plan = r.plan /\ g.active = r.active /\ g.play = r.play /\ g.key = r.key
        /\ g.ref = r.ref /\ g.overtaken = r.overtaken /\ SameJob(g, r)
    BY <2>2, <2>3 DEF Pages, SameJob, Returned
  <2>5. /\ g.phase = o.phase /\ g.sel = o.sel /\ g.cand = o.cand /\ g.session = o.session
        /\ g.plan = o.plan /\ g.active = o.active /\ g.play = o.play /\ g.key = o.key
        /\ g.ref = o.ref /\ g.overtaken = o.overtaken /\ g.job = o.job /\ g.from = o.from
        /\ g.loop = o.loop
    BY <2>4 DEF Alike, SameJob
  <2>6. g \in Pages
    <3>1. gone \subseteq Streams
      BY <2>1, <2>3, PageFacts
    <3> QED
      BY <2>2, <2>3, <3>1 DEF Pages
  <2>7. Shape(g) /\ Shows(g)
    BY <2>3, <2>5 DEF Shape, Shows, PageIssued
  <2>8. Drawing(g)
    <3>1. Steady(o) => Steady(g)
      BY <2>5 DEF Steady, Ours
    <3> QED
      BY <2>3, <2>5, <3>1 DEF Drawing
  <2>9. r.gone \subseteq g.gone /\ op.rec.key \in g.gone
    BY <2>1, <2>4
  <2>10. \A rec : There(t, o, rec) => There(t, g, rec)
    BY <2>9, ThereAfter
  <2>11. { g.session, g.cand, g.from } \subseteq Known(o)
    BY <2>5 DEF Known
  <2>12. r.job = "prepare" => g.job = "prepare"
    BY <2>4 DEF SameJob
  <2>13. ~g.overtaken =>
           There(t, g, g.session) /\ There(t, g, g.from) /\ (~g.sel => There(t, g, g.cand))
    BY <2>3, <2>5, <2>10 DEF Backed
  <2>14. After(t, o, r, g)
    BY <2>4, <2>6, <2>7, <2>8, <2>9, <2>11, <2>12, <2>13 DEF After
  <2>15. Fine(t, g)
    BY <2>14, AfterReturn
  <2>16. op.rec \in Known(page[t]) /\ op.rec # NoRecord
    BY DEF Returned
  <2>17. Fine(t, Enqueue(g, Deletion(op.rec, "cleanup")))
    BY <2>9, <2>15, <2>16, DeletionFine
  <2> QED
    BY <1>1, <1>3, <2>1, <2>2, <2>17 DEF Cleanup
<1> QED
  BY <1>2, <1>3

(* A receipt unlocks the source that it was entered for.                    *)
LEMMA VerifiedFine ==
  ASSUME SenderInv, NEW t \in Tabs, NEW o, NEW op, NEW r, Returned(t, o, op, r),
         op.then = "verify"
  PROVE  Fine(t, Verified(r, op))
<1>1. PICK p : p = Verified(r, op)
  OBVIOUS
<1>2. /\ o \in Pages /\ Shape(o) /\ Drawing(o) /\ PageIssued(o) /\ Backed(t, o) /\ r \in Pages
      /\ op.rec.phase = "verified" /\ op.rec.key \in Streams /\ op.rec.key \in issued
      /\ op.rec.key # 0 /\ op = o.queue[1] /\ o.queue # << >> /\ op.rec \in Records
  BY RecordFacts DEF Returned, OpOk, RecordOk
<1>3. /\ r.sel = o.sel /\ r.gone = o.gone /\ r.key = o.key /\ r.cand = o.cand /\ r.plan = o.plan
      /\ r.session = o.session /\ r.overtaken = o.overtaken
      /\ r.job = o.job /\ r.from = o.from /\ r.loop = o.loop
  BY DEF Returned, Alike, SameJob
<1>4. /\ p.phase = "verified" /\ p.active = Files(op.rec.key) /\ p.play = "no" /\ p.ref = NoPlan
      /\ p.session = (IF op.result = "done" THEN op.rec ELSE o.session)
      /\ p.key = (IF op.result = "done" THEN op.rec.key ELSE o.key)
      /\ p.overtaken = (o.overtaken \/ o.plan # op.rec.key)
      /\ p.sel = o.sel /\ p.cand = o.cand /\ p.plan = o.plan /\ p.job = o.job /\ p.from = o.from
      /\ p.loop = o.loop /\ p.queue = r.queue /\ p.gone = o.gone
  BY <1>1, <1>2, <1>3 DEF Verified, Unlock, Pages
<1>5. p \in Pages
  <2>1. PICK u : u = Unlock(r, op.rec.key)
    OBVIOUS
  <2>2. u \in Pages
    BY <1>2, <2>1, PlanFacts DEF Unlock, Pages, Phases
  <2>3. PICK session \in Records : session = p.session
    BY <1>2, <1>4, PageFacts
  <2>4. PICK key \in Streams \cup { 0 } : key = p.key
    BY <1>2, <1>4, PageFacts
  <2>5. PICK late \in BOOLEAN : late = p.overtaken
    BY <1>2, <1>4, PageFacts
  <2>6. p = [ u EXCEPT !.session = session, !.key = key, !.overtaken = late ]
    BY <1>1, <1>2, <2>1, <2>2, <2>3, <2>4, <2>5 DEF Verified, Pages
  <2> QED
    BY <2>2, <2>3, <2>4, <2>5, <2>6 DEF Pages
<1>6. Shape(p)
  BY <1>2, <1>4 DEF Shape
<1>7. ~p.overtaken => ~o.overtaken /\ o.sel /\ o.from = NoRecord
  BY <1>2, <1>4, PageFacts DEF Drawing, Steady, Shape
<1>8. Drawing(p)
  <2>1. ASSUME ~p.overtaken PROVE Steady(p)
    <3>1. Steady(o) /\ o.sel /\ o.plan = op.rec.key
      BY <2>1, <1>2, <1>4, <1>7 DEF Drawing
    <3>2. o.job \notin { "prepare", "restore" }
      BY <3>1, <1>2 DEF Steady, Shape
    <3> QED
      BY <3>1, <3>2, <1>4 DEF Steady
  <2> QED
    BY <1>2, <1>4, <1>7, <2>1 DEF Drawing
<1>9. Shows(p)
  BY <1>2, <1>4, PlanFacts DEF Shows, PageIssued, Entitled
<1>10. r.gone \subseteq p.gone
  BY <1>3, <1>4
<1>11. ~p.overtaken => There(t, p, p.session)
  <2>1. CASE op.result = "done"
    BY <1>2, <1>4, <2>1 DEF Backed, Saves, There, Alone
  <2>2. CASE op.result # "done"
    <3>1. ~p.overtaken => There(t, o, o.session)
      BY <1>2, <1>7 DEF Backed
    <3> QED
      BY <1>4, <1>10, <2>2, <3>1, ThereAfter
  <2> QED
    BY <2>1, <2>2
<1>12. { p.session, p.cand, p.from } \subseteq Known(o)
  BY <1>4 DEF Returned, Known
<1>13. ~p.overtaken => There(t, p, p.from) /\ p.sel
  BY <1>4, <1>7, NothingThere
<1>14. r.job = "prepare" => p.job = "prepare"
  BY <1>3, <1>4
<1>15. After(t, o, r, p)
  BY <1>4, <1>5, <1>6, <1>8, <1>9, <1>10, <1>11, <1>12, <1>13, <1>14 DEF After
<1> QED
  BY <1>1, <1>15, AfterReturn

(* A discard clears the page, whatever it has become.                       *)
LEMMA DiscardedFine ==
  ASSUME SenderInv, NEW t \in Tabs, NEW o, NEW op, NEW r, Returned(t, o, op, r),
         op.then = "discard"
  PROVE  Fine(t, Discarded(r, op))
<1>1. CASE op.result # "done"
  BY <1>1, QuietReturn DEF Discarded
<1>2. CASE op.result = "done"
  <2>1. PICK p : p = Discarded(r, op)
    OBVIOUS
  <2>2. /\ o \in Pages /\ Shape(o) /\ Drawing(o) /\ PageIssued(o) /\ Backed(t, o) /\ r \in Pages
        /\ op.rec.key \in Streams
    BY DEF Returned
  <2>3. /\ r.gone = o.gone /\ r.overtaken = o.overtaken
        /\ r.job = o.job /\ r.from = o.from /\ r.loop = o.loop
    BY DEF Returned, Alike, SameJob
  <2>4. /\ p.phase = "idle" /\ p.sel = FALSE /\ p.cand = NoRecord /\ p.session = NoRecord
        /\ p.key = 0 /\ p.plan = 0 /\ p.active = NoPlan /\ p.play = "no" /\ p.ref = NoPlan
        /\ p.job = o.job /\ p.from = o.from /\ p.loop = o.loop /\ p.queue = r.queue
        /\ p.gone = r.gone \cup { op.rec.key }
        /\ p.overtaken = (o.overtaken \/ o.job # "none")
    BY <1>2, <2>1, <2>2, <2>3 DEF Discarded, Cleared, Pages
  <2>5. p \in Pages
    <3>1. r.gone \cup { op.rec.key } \subseteq Streams
      BY <2>2, PageFacts
    <3>2. PICK c : c = Cleared(r)
      OBVIOUS
    <3>3. c \in Pages /\ c.gone = r.gone /\ c.overtaken = r.overtaken /\ c.job = r.job
      BY <2>2, <3>2, RecordFacts, PlanFacts DEF Cleared, Pages, Phases
    <3>4. PICK gone : gone = r.gone \cup { op.rec.key }
      OBVIOUS
    <3>5. PICK late \in BOOLEAN : late = (r.overtaken \/ r.job # "none")
      OBVIOUS
    <3>6. p = [ c EXCEPT !.gone = gone, !.overtaken = late ]
      BY <1>2, <2>1, <3>2, <3>3, <3>4, <3>5 DEF Discarded
    <3> QED
      BY <3>1, <3>3, <3>4, <3>6 DEF Pages
  <2>6. Shape(p)
    BY <2>2, <2>4 DEF Shape
  <2>7. Drawing(p)
    BY <2>2, <2>4 DEF Drawing, Steady
  <2>8. Shows(p)
    BY <2>2, <2>4, PlanFacts DEF Shows, PageIssued
  <2>9. ~p.overtaken => p.from = NoRecord
    BY <2>2, <2>4 DEF Shape
  <2>10. There(t, p, NoRecord)
    BY NothingThere
  <2>11. { p.session, p.cand, p.from } \subseteq Known(o) \cup { NoRecord }
    BY <2>4 DEF Known
  <2>12. /\ r.job = "prepare" => p.job = "prepare"
         /\ r.gone \subseteq p.gone
    BY <2>3, <2>4
  <2>13. After(t, o, r, p)
    BY <2>4, <2>5, <2>6, <2>7, <2>8, <2>9, <2>10, <2>11, <2>12 DEF After
  <2> QED
    BY <2>1, <2>13, AfterReturn
<1> QED
  BY <1>1, <1>2

LEMMA ReturnKeeps ==
  ASSUME SenderInv, NEW t \in Tabs, Return(t)
  PROVE  SenderInv'
<1>1. PICK o \in Pages : o = page[t]
  BY TabFacts
<1>2. PICK op : op = Head(o.queue)
  OBVIOUS
<1>3. PICK r : r = Tailed(o)
  OBVIOUS
<1>4. /\ o.queue # << >> /\ op.result # "none"
      /\ Becomes(t, Continued(r, op)) /\ UNCHANGED << Storage, issued, next, budget >>
  BY <1>1, <1>2, <1>3 DEF Return, Tailed
<1>5. Returned(t, o, op, r)
  BY <1>1, <1>2, <1>3, <1>4, ReturnFacts
<1>6. op.then \in { "prepare", "verify", "discard", "cleanup" } /\ op.fresh \in BOOLEAN
  BY <1>5, OperationFacts DEF Returned
<1>7. Fine(t, Continued(r, op))
  <2>1. CASE op.then = "prepare" /\ op.fresh
    <3>1. Fine(t, Prepared(r, op))
      BY <1>5, <2>1, PublishFine DEF Preparation
    <3> QED
      BY <2>1, <3>1 DEF Continued
  <2>2. CASE op.then = "prepare" /\ ~op.fresh
    <3>1. Fine(t, Prepared(r, op))
      BY <1>5, <2>2, CleanupFine
    <3> QED
      BY <2>2, <3>1 DEF Continued
  <2>3. CASE op.then = "verify"
    <3>1. Fine(t, Verified(r, op))
      BY <1>5, <2>3, VerifiedFine
    <3> QED
      BY <2>3, <3>1 DEF Continued
  <2>4. CASE op.then = "discard"
    <3>1. Fine(t, Discarded(r, op))
      BY <1>5, <2>4, DiscardedFine
    <3> QED
      BY <2>4, <3>1 DEF Continued
  <2>5. CASE op.then = "cleanup"
    <3>1. Fine(t, r)
      BY <1>5, <2>5, QuietReturn
    <3> QED
      BY <2>5, <3>1 DEF Continued
  <2> QED
    BY <1>6, <2>1, <2>2, <2>3, <2>4, <2>5
<1>8. Turns(t, Continued(r, op))
  BY <1>4 DEF Turns, Becomes
<1> QED
  BY <1>7, <1>8, TurnKeeps

-----------------------------------------------------------------------------
(* The theorems.                                                            *)

LEMMA InitHolds ==
  ASSUME Init
  PROVE  SenderInv
<1>1. PICK p : p = FreshPage(0)
  OBVIOUS
<1>2. /\ p \in Pages /\ p.phase = "idle" /\ p.sel = FALSE /\ p.cand = NoRecord
      /\ p.session = NoRecord /\ p.plan = 0 /\ p.active = NoPlan /\ p.play = "no"
      /\ p.job = "none" /\ p.from = NoRecord /\ p.key = 0 /\ p.ref = NoPlan /\ p.loop = NoLoop
      /\ p.gone = {} /\ p.overtaken = FALSE
      /\ p.queue = << >> /\ DOMAIN p.queue = {} /\ Len(p.queue) = 0
  BY <1>1, RecordFacts, PlanFacts DEF FreshPage, Pages, Phases
<1>3. /\ page = [ t \in Tabs |-> p ] /\ db = [ k \in Streams |-> NoRecord ] /\ newest = << >>
      /\ issued = {} /\ held = [ k \in Streams |-> {} ]
      /\ next = [ stream |-> 1, revision |-> 1 ]
      /\ budget = [ acts |-> MaxActs, failures |-> MaxFailures ]
      /\ MaxActs \in Nat /\ MaxFailures \in Nat
  BY <1>1 DEF Init
<1>4. TypeInv
  <2>1. newest \in Seq(Streams) /\ DOMAIN newest = {}
    BY <1>3
  <2>2. { k \in Streams : db[k] # NoRecord } = { newest[i] : i \in DOMAIN newest }
    BY <1>3, <2>1
  <2>3. page \in [ Tabs -> Pages ] /\ db \in [ Streams -> Records ]
    BY <1>2, <1>3, RecordFacts
  <2>4. held \in [ Streams -> SUBSET Tabs ] /\ issued \subseteq Streams
    BY <1>3
  <2>5. /\ next \in [ stream : Nat \ { 0 }, revision : Nat \ { 0 } ]
        /\ budget \in [ acts : Nat, failures : Nat ]
    BY <1>3
  <2> QED
    BY <2>1, <2>2, <2>3, <2>4, <2>5 DEF TypeInv
<1>5. Known(p) = { NoRecord } /\ Awaited(p) = {}
  BY <1>2 DEF Known, Awaited
<1>6. PageOk(p)
  <2>1. QueueOk(p) /\ Shape(p)
    BY <1>2, RecordFacts DEF QueueOk, Shape
  <2>2. Drawing(p)
    BY <1>2, PlanFacts DEF Drawing, Steady
  <2> QED
    BY <2>1, <2>2 DEF PageOk
<1>7. RecordOk(NoRecord)
  BY <1>3, RecordFacts DEF RecordOk
<1>8. PagesOk
  BY <1>2, <1>3, <1>5, <1>6, <1>7, PlanFacts DEF PagesOk, PageIssued
<1>9. DbOk
  BY <1>3, <1>5, <1>7 DEF DbOk
<1>10. Cross /\ Holders
  BY <1>3, <1>5 DEF Cross, Holders
<1>11. AllBacked
  BY <1>2, <1>3, NothingThere DEF AllBacked, Backed
<1> QED
  BY <1>4, <1>8, <1>9, <1>10, <1>11 DEF SenderInv

LEMMA Preserved ==
  ASSUME SenderInv, [Next]_vars
  PROVE  SenderInv'
<1>1. CASE UNCHANGED vars
  <2>1. /\ page' = page /\ db' = db /\ newest' = newest /\ issued' = issued /\ held' = held
        /\ next' = next /\ budget' = budget
    BY <1>1 DEF vars
  <2>2. TypeInv'
    BY <2>1 DEF SenderInv, TypeInv
  <2>3. PagesOk' /\ DbOk'
    BY <2>1 DEF SenderInv, PagesOk, PageIssued, RecordOk, Entitled, DbOk
  <2>4. Cross' /\ Holders'
    BY <2>1 DEF SenderInv, Cross, Holders
  <2>5. AllBacked'
    BY <2>1 DEF SenderInv, AllBacked, Backed, There, Alone
  <2> QED
    BY <2>2, <2>3, <2>4, <2>5 DEF SenderInv
<1>2. CASE Next
  <2>1. PICK t \in Tabs :
          \/ Load(t) \/ PickFolder(t) \/ Scanned(t) \/ ScanFails(t)
          \/ Prepare(t) \/ Built(t) \/ PrepareFails(t)
          \/ RestoreSaved(t) \/ Restored(t) \/ RestoreFails(t)
          \/ (\E code \in issued : EnterReceipt(t, code))
          \/ Play(t) \/ Pause(t) \/ Discard(t) \/ LeaveView(t) \/ ShowReceipt(t) \/ Reload(t)
          \/ Transaction(t) \/ TransactionFails(t) \/ Return(t)
          \/ Render(t) \/ Tick(t) \/ DrawFails(t)
    BY <1>2 DEF Next
  <2>2. CASE Load(t) \/ PickFolder(t) \/ Scanned(t) \/ ScanFails(t)
    BY <2>2, LoadKeeps, PickFolderKeeps, ScannedKeeps, ScanFailsKeeps
  <2>3. CASE Prepare(t) \/ Built(t) \/ PrepareFails(t)
    BY <2>3, PrepareKeeps, BuiltKeeps, PrepareFailsKeeps
  <2>4. CASE RestoreSaved(t) \/ Restored(t) \/ RestoreFails(t)
    BY <2>4, RestoreSavedKeeps, RestoredKeeps, RestoreFailsKeeps
  <2>5. CASE \E code \in issued : EnterReceipt(t, code)
    BY <2>5, EnterReceiptKeeps
  <2>6. CASE Play(t) \/ Pause(t) \/ Discard(t) \/ LeaveView(t)
    BY <2>6, PlayKeeps, PauseKeeps, DiscardKeeps, LeaveViewKeeps
  <2>7. CASE ShowReceipt(t) \/ Reload(t) \/ Render(t) \/ Tick(t) \/ DrawFails(t)
    BY <2>7, ShowReceiptKeeps, ReloadKeeps, RenderKeeps, TickKeeps, DrawFailsKeeps
  <2>8. CASE Transaction(t) \/ TransactionFails(t) \/ Return(t)
    BY <2>8, TransactionKeeps, TransactionFailsKeeps, ReturnKeeps
  <2> QED
    BY <2>1, <2>2, <2>3, <2>4, <2>5, <2>6, <2>7, <2>8
<1> QED
  BY <1>1, <1>2

LEMMA InvariantHolds == Spec => []SenderInv
<1>1. Init => SenderInv
  BY InitHolds
<1>2. SenderInv /\ [Next]_vars => SenderInv'
  BY Preserved
<1> QED
  BY <1>1, <1>2, PTL DEF Spec

LEMMA TypeCorrect ==
  ASSUME SenderInv
  PROVE  TypeOK
<1>1. ASSUME NEW t \in Tabs
      PROVE  LET p == page[t] IN
               /\ p.phase \in { "idle", "scanning", "selected", "preparing", "testing", "verified" }
               /\ p.play \in { "no", "yes", "paused" }
               /\ p.job \in { "none", "scan", "prepare", "restore" }
               /\ { p.sel, p.loading, p.overtaken } \subseteq BOOLEAN
               /\ { p.plan, p.key } \subseteq Streams \cup { 0 } /\ p.gone \subseteq Streams
               /\ { p.cand, p.session, p.from } \subseteq Records
               /\ { p.active, p.ref } \subseteq Plans /\ p.loop \in Loops
               /\ \A i \in DOMAIN p.queue : p.queue[i] \in Operations
  BY TabFacts, PageFacts DEF Phases
<1> QED
  BY <1>1 DEF TypeOK, SenderInv, TypeInv

(* Whatever the interleaving of comparisons, storage calls, discards, tabs  *)
(* and reloads, Files bytes are only drawn for a source whose whole probe a *)
(* receiver acknowledged, and a loop that draws for a page that no storage  *)
(* call overtook draws from the iterator of its own plan                    *)
(* (LargeSender.tsx validateReceipt and the playback effect).               *)
THEOREM ScreensAlwaysEntitled == Spec => []ScreenEntitled
<1>1. ASSUME SenderInv PROVE ScreenEntitled
  <2>1. ASSUME NEW t \in Tabs, NEW plan \in { page[t].active, page[t].loop.plan, page[t].loop.using },
               plan.kind = "files"
        PROVE  plan.of \in issued
    BY <1>1, <2>1, TabFacts DEF PageIssued, Entitled
  <2>2. ASSUME NEW k \in Streams, db[k].phase = "verified" PROVE k \in issued
    <3>1. db[k] # NoRecord
      BY <2>2, RecordFacts
    <3> QED
      BY <1>1, <2>2, <3>1 DEF SenderInv, DbOk, RecordOk
  <2>3. FilesGated
    BY <1>1, <2>1, <2>2, TypeCorrect DEF FilesGated
  <2>4. ASSUME NEW t \in Tabs, page[t].loop.fresh, page[t].loop.using # NoPlan, ~page[t].overtaken
        PROVE  page[t].loop.using = page[t].loop.plan
    BY <1>1, <2>4, TabFacts DEF Drawing
  <2>5. ScreenIsPlan
    BY <2>4 DEF ScreenIsPlan
  <2> QED
    BY <2>3, <2>5 DEF ScreenEntitled
<1> QED
  BY <1>1, InvariantHolds, PTL

(* A record that no other tab has read is where the page that saved or      *)
(* restored it expects it, and sessionStorage leads a reload to it          *)
(* (LargeSender.tsx prepare, validateReceipt, discard and                   *)
(* large-sender-resume.ts deleteLargeSenderSession).                        *)
THEOREM ReloadsAlwaysSafe == Spec => []ReloadSafe
<1>1. ASSUME SenderInv PROVE ReloadSafe
  <2>1. ASSUME NEW t \in Tabs, page[t].session # NoRecord, page[t].queue = << >>,
               ~page[t].overtaken, held[page[t].session.key] \subseteq { t },
               page[t].session.key \notin page[t].gone
        PROVE  db[page[t].session.key] = page[t].session /\ page[t].key = page[t].session.key
    <3>1. PICK o \in Pages : o = page[t]
      BY <1>1, TabFacts
    <3>2. There(t, o, o.session) /\ Shape(o)
      BY <1>1, <2>1, <3>1, TabFacts DEF Backed
    <3>3. Alone(t, o, o.session) /\ ~Answering(o, o.session.key)
      BY <2>1, <3>1 DEF Alone, Answering
    <3>4. db[o.session.key] = o.session /\ o.key = o.session.key
      BY <2>1, <3>1, <3>2, <3>3 DEF There, Shape
    <3> QED
      BY <3>1, <3>4
  <2> QED
    BY <2>1 DEF ReloadSafe
<1> QED
  BY <1>1, InvariantHolds, PTL
=============================================================================
