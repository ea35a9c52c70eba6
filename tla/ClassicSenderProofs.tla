------------------------- MODULE ClassicSenderProofs -------------------------
(* Proofs about ClassicSender for any set of tabs, any number of streams    *)
(* and any bound on the acts of users and on failures.                      *)
EXTENDS ClassicSender, TLAPS

USE SenderAssumption

-----------------------------------------------------------------------------
(* The invariant.                                                           *)

Checks == [ code : Streams \cup { 0 }, stream : Streams \cup { 0 } ]

Pages ==
  [ phase : { "restoring", "empty", "selected", "preparing", "testing", "verified" },
    stream : Streams \cup { 0 }, play : BOOLEAN, session : Records, loaded : Records,
    key : Streams \cup { 0 }, check : Checks, queue : Seq(Operations), gone : SUBSET Streams ]

TypeInv ==
  /\ page \in [ Tabs -> Pages ]
  /\ db \in [ Streams -> Records ]
  /\ newest \in Seq(Streams)
  /\ \A i, j \in DOMAIN newest : newest[i] = newest[j] => i = j
  /\ { k \in Streams : db[k] # NoRecord } = { newest[i] : i \in DOMAIN newest }
  /\ issued \subseteq Streams /\ cut \in BOOLEAN
  /\ held \in [ Streams -> SUBSET Tabs ]
  /\ next \in [ stream : Nat \ { 0 }, revision : Nat \ { 0 } ]
  /\ budget \in [ acts : Nat, failures : 0 .. MaxFailures ]

(* What a save or a deletion may say, given the page that waits for it.     *)
FreshSave(op, then) == op.then = then /\ op.fresh

OpOk(p, op) ==
  /\ op.rec # NoRecord
  /\ op.kind = "save" <=> op.then \in { "prepare", "verify" }
  /\ op.then = "prepare" => op.rec.phase = "testing"
  /\ op.then = "verify" => op.rec.phase = "verified"
  /\ FreshSave(op, "prepare") => p.phase = "preparing" /\ op.rec.key \notin p.gone
  /\ FreshSave(op, "verify") =>
       p.phase \in { "testing", "verified" } /\ p.session # NoRecord /\ op.rec.key = p.stream
  /\ op.then = "invalid" <=> p.phase = "restoring"
  /\ op.kind = "delete" \/ ~op.fresh => op.rec.key # p.stream

Awaits(op) == op.kind = "save" /\ op.result = "none"

Apart(a, b) ==
  /\ FreshSave(a, "prepare") => a.rec.key # b.rec.key
  /\ \A then \in { "prepare", "verify" } : ~(FreshSave(a, then) /\ FreshSave(b, then))
  /\ Awaits(a) => a.rec.rev # b.rec.rev

(* One page by itself.                                                      *)
PageOk(p) ==
  /\ p.phase \in { "restoring", "empty", "selected", "preparing" } =>
       p.stream = 0 /\ p.session = NoRecord /\ p.check = NoCheck
  /\ p.phase = "restoring" =>
       p.gone = {} /\ Len(p.queue) <= 1 /\ (p.loaded = NoRecord => p.queue = << >>)
  /\ p.phase \in { "testing", "verified" } => p.stream \in Streams \ p.gone
  /\ p.session # NoRecord => p.session.key = p.stream /\ p.key = p.stream
  /\ p.check # NoCheck =>
       /\ p.phase = "testing" /\ p.check.stream = p.stream
       /\ \A i \in DOMAIN p.queue : ~FreshSave(p.queue[i], "verify")
  /\ \A i \in DOMAIN p.queue : OpOk(p, p.queue[i])
  /\ \A i, j \in DOMAIN p.queue : i # j => Apart(p.queue[i], p.queue[j])

(* The records a page knows, and the revisions that only its saves carry.   *)
Known(p) == { p.session, p.loaded } \cup { p.queue[i].rec : i \in DOMAIN p.queue }
Awaited(p) == { p.queue[i].rec.rev : i \in { j \in DOMAIN p.queue : Awaits(p.queue[j]) } }

RecordOk(r) ==
  /\ r.key < next.stream /\ r.rev < next.revision /\ (r # NoRecord => r.rev # 0)
  /\ r.phase = "verified" => r.key \in issued

(* What a page knows was issued.                                            *)
PageIssued(p) ==
  /\ \A r \in Known(p) : RecordOk(r)
  /\ p.session.rev \notin Awaited(p) /\ p.loaded.rev \notin Awaited(p)
  /\ p.gone \subseteq 1 .. next.stream - 1 /\ p.stream < next.stream
  /\ p.phase = "verified" => p.stream \in issued
  /\ p.check.code \in issued \cup { 0 }

DbOk ==
  \A k \in Streams :
    /\ RecordOk(db[k])
    /\ db[k] # NoRecord => db[k].key = k
    /\ \A t \in Tabs : db[k].rev \notin Awaited(page[t])

Cross == \A t, u \in Tabs : t # u =>
  \A r \in Known(page[u]) : r.rev \notin Awaited(page[t])

(* Whoever knows the revision in the database is counted as its holder.     *)
Holders == \A t \in Tabs : \A r \in Known(page[t]) :
  r # NoRecord /\ db[r.key].rev = r.rev => db[r.key] = r /\ t \in held[r.key]

(* A record that nobody else had is where its page expects it.              *)
Alone(t, r) == held[r.key] \subseteq { t }
Replaced(p) == \E i \in DOMAIN p.queue :
  FreshSave(p.queue[i], "verify") /\ p.queue[i].result = "done" /\ p.queue[i].rec = db[p.stream]

Backed(t, p) ==
  /\ p.session # NoRecord /\ Alone(t, p.session) => db[p.stream] = p.session \/ Replaced(p)
  /\ \A i \in DOMAIN p.queue : LET op == p.queue[i] IN
       /\ FreshSave(op, "prepare") /\ op.result = "done" /\ Alone(t, op.rec) =>
            db[op.rec.key] = op.rec
       /\ FreshSave(op, "verify") /\ op.result = "done" => db[op.rec.key] # p.session
  /\ p.phase = "restoring" /\ p.loaded # NoRecord /\ p.queue = << >> /\ Alone(t, p.loaded) =>
       db[p.loaded.key] = p.loaded

(* The page that will resume or remove a record.                            *)
Answers(p, k) ==
  \/ p.session = db[k]
  \/ p.phase = "restoring" /\ p.key = k /\ p.loaded \in { NoRecord, db[k] }
  \/ \E i \in DOMAIN p.queue :
       /\ p.queue[i].rec = db[k]
       /\ p.queue[i].result = IF p.queue[i].kind = "save" THEN "done" ELSE "none"

Owned ==
  /\ \A t \in Tabs : page[t].phase = "restoring" /\ page[t].queue # << >> =>
       budget.failures < MaxFailures
  /\ ~cut /\ budget.failures = MaxFailures =>
       \A k \in Streams : db[k] # NoRecord => \E t \in Tabs : Answers(page[t], k)

PagesOk == \A t \in Tabs : PageOk(page[t]) /\ PageIssued(page[t])
AllBacked == \A t \in Tabs : Backed(t, page[t])

SenderInv == TypeInv /\ PagesOk /\ DbOk /\ Cross /\ Holders /\ AllBacked /\ Owned

-----------------------------------------------------------------------------
(* Sequences of operations and of keys.                                     *)

LEMMA AppendFacts ==
  ASSUME NEW S, NEW q \in Seq(S), NEW x \in S
  PROVE  /\ Append(q, x) \in Seq(S) /\ DOMAIN Append(q, x) = 1 .. Len(q) + 1
         /\ Len(Append(q, x)) = Len(q) + 1 /\ DOMAIN q = 1 .. Len(q)
         /\ \A i \in DOMAIN q : Append(q, x)[i] = q[i]
         /\ Append(q, x)[Len(q) + 1] = x
         /\ Len(q) \in Nat /\ Append(q, x) # << >>
  OBVIOUS

LEMMA AppendMembers ==
  ASSUME NEW S, NEW q \in Seq(S), NEW x \in S
  PROVE  /\ \A i \in DOMAIN q : i \in DOMAIN Append(q, x) /\ Append(q, x)[i] = q[i]
         /\ \A i \in DOMAIN Append(q, x) :
              Append(q, x)[i] = x \/ (i \in DOMAIN q /\ Append(q, x)[i] = q[i])
  BY AppendFacts

LEMMA TailFacts ==
  ASSUME NEW S, NEW q \in Seq(S), q # << >>
  PROVE  /\ Tail(q) \in Seq(S) /\ DOMAIN Tail(q) = 1 .. Len(q) - 1 /\ Len(Tail(q)) = Len(q) - 1
         /\ DOMAIN q = 1 .. Len(q) /\ 1 \in DOMAIN q /\ Head(q) = q[1] /\ Head(q) \in S
         /\ \A i \in DOMAIN Tail(q) : i + 1 \in DOMAIN q /\ Tail(q)[i] = q[i + 1]
         /\ \A i \in DOMAIN q : i = 1 \/ (i - 1 \in DOMAIN Tail(q) /\ Tail(q)[i - 1] = q[i])
         /\ Len(q) \in Nat \ { 0 }
  OBVIOUS

LEMMA NothingLeft ==
  ASSUME NEW S, NEW q \in Seq(S), Len(q) = 0
  PROVE  q = << >>
  OBVIOUS

LEMMA SequenceOver ==
  ASSUME NEW S, NEW D, NEW n \in Nat, D = 1 .. n, NEW q, q = [ i \in D |-> q[i] ],
         \A i \in D : q[i] \in S
  PROVE  q \in Seq(S)
  OBVIOUS

LEMMA WithoutFacts ==
  ASSUME TypeInv, NEW k \in Streams
  PROVE  /\ Without(k) \in Seq(Streams)
         /\ { Without(k)[i] : i \in DOMAIN Without(k) } = { newest[i] : i \in DOMAIN newest } \ { k }
         /\ \A i, j \in DOMAIN Without(k) : Without(k)[i] = Without(k)[j] => i = j
<1>1. newest \in Seq(Streams) /\ Len(newest) \in Nat /\ DOMAIN newest = 1 .. Len(newest)
      /\ \A i, j \in DOMAIN newest : newest[i] = newest[j] => i = j
  BY DEF TypeInv
<1>2. CASE k \notin { newest[i] : i \in DOMAIN newest }
  BY <1>1, <1>2 DEF Without
<1>3. CASE k \in { newest[i] : i \in DOMAIN newest }
  <2> DEFINE at == CHOOSE i \in DOMAIN newest : newest[i] = k
             w == [ i \in 1 .. Len(newest) - 1 |-> newest[IF i < at THEN i ELSE i + 1] ]
  <2>1. at \in DOMAIN newest /\ newest[at] = k
    BY <1>3
  <2>2. Without(k) = w
    BY <1>3 DEF Without
  <2>a. at \in 1 .. Len(newest) /\ at \in Int
    BY <2>1, <1>1
  <2> HIDE DEF at
  <2>3. ASSUME NEW i \in 1 .. Len(newest) - 1
        PROVE  /\ w[i] = newest[IF i < at THEN i ELSE i + 1]
               /\ (IF i < at THEN i ELSE i + 1) \in DOMAIN newest \ { at }
    BY <1>1, <2>a
  <2>4. DOMAIN w = 1 .. Len(newest) - 1 /\ Len(newest) - 1 \in Nat
    BY <1>1, <2>1
  <2> HIDE DEF w
  <2>5. ASSUME NEW i \in 1 .. Len(newest) - 1 PROVE w[i] \in Streams \ { k }
    BY <2>3, <2>1, <1>1
  <2>6. w \in Seq(Streams) /\ Len(w) = Len(newest) - 1
    <3>1. w = [ i \in 1 .. Len(newest) - 1 |-> w[i] ]
      BY <2>4 DEF w
    <3> QED
      BY <3>1, <2>4, <2>5
  <2>7. ASSUME NEW j \in DOMAIN newest, newest[j] # k
        PROVE  \E i \in DOMAIN w : w[i] = newest[j]
    <3>1. CASE j < at
      <4>1. j \in 1 .. Len(newest) - 1
        BY <3>1, <2>1, <1>1
      <4> QED
        BY <4>1, <3>1, <2>3, <2>4
    <3>2. CASE j > at
      <4>1. j - 1 \in 1 .. Len(newest) - 1 /\ ~(j - 1 < at) /\ j - 1 + 1 = j
        BY <3>2, <2>1, <1>1
      <4> QED
        BY <4>1, <2>3, <2>4
    <3> QED
      BY <3>1, <3>2, <2>7, <2>1, <1>1
  <2>8. ASSUME NEW i \in DOMAIN w, NEW j \in DOMAIN w, w[i] = w[j] PROVE i = j
    <3>1. (IF i < at THEN i ELSE i + 1) = (IF j < at THEN j ELSE j + 1)
      BY <2>8, <2>3, <2>4, <1>1
    <3> QED
      BY <3>1, <2>4, <2>a, <1>1
  <2>9. { w[i] : i \in DOMAIN w } = { newest[i] : i \in DOMAIN newest } \ { k }
    BY <2>4, <2>5, <2>3, <2>7
  <2> QED
    BY <2>2, <2>6, <2>8, <2>9
<1> QED
  BY <1>2, <1>3

-----------------------------------------------------------------------------
(* One page.                                                                *)

LEMMA RecordFacts ==
  /\ NoRecord \in Records /\ NoRecord.key = 0 /\ NoRecord.rev = 0 /\ NoRecord.phase = "none"
  /\ \A r \in Records : /\ r.key \in Streams \cup { 0 } /\ r.key \in Nat /\ r.rev \in Nat
                        /\ r # NoRecord => r.key \in Streams /\ r.phase \in { "testing", "verified" }
  /\ Streams \subseteq Nat \ { 0 } /\ 0 \notin Streams
  BY DEF NoRecord, Records, Streams

LEMMA OperationFacts ==
  ASSUME NEW op \in Operations
  PROVE  /\ op.kind \in { "save", "delete" } /\ op.rec \in Records /\ op.over \in Nat
         /\ op.then \in { "prepare", "verify", "discard", "cleanup", "invalid" }
         /\ op.fresh \in BOOLEAN /\ op.result \in { "none", "done", "changed", "failed" }
  BY DEF Operations

LEMMA PageFacts ==
  ASSUME NEW p \in Pages
  PROVE  /\ p.stream \in Streams \cup { 0 } /\ p.play \in BOOLEAN /\ p.session \in Records
         /\ p.phase \in { "restoring", "empty", "selected", "preparing", "testing", "verified" }
         /\ p.loaded \in Records /\ p.key \in Streams \cup { 0 } /\ p.check \in Checks
         /\ p.queue \in Seq(Operations) /\ p.gone \in SUBSET Streams
         /\ DOMAIN p.queue = 1 .. Len(p.queue) /\ Len(p.queue) \in Nat
         /\ \A i \in DOMAIN p.queue : p.queue[i] \in Operations
  BY DEF Pages

LEMMA EnqueueOk ==
  ASSUME NEW p \in Pages, PageOk(p), NEW op \in Operations, OpOk(p, op),
         p.phase = "restoring" => p.queue = << >> /\ p.loaded # NoRecord,
         FreshSave(op, "verify") => p.check = NoCheck,
         \A i \in DOMAIN p.queue : Apart(p.queue[i], op) /\ Apart(op, p.queue[i])
  PROVE  /\ Enqueue(p, op) \in Pages /\ PageOk(Enqueue(p, op))
         /\ Known(Enqueue(p, op)) = Known(p) \cup { op.rec }
         /\ Awaited(Enqueue(p, op)) =
              Awaited(p) \cup (IF Awaits(op) THEN { op.rec.rev } ELSE {})
<1>1. PICK e : e = Enqueue(p, op)
  OBVIOUS
<1>2. /\ e.phase = p.phase /\ e.stream = p.stream /\ e.session = p.session /\ e.loaded = p.loaded
      /\ e.key = p.key /\ e.check = p.check /\ e.gone = p.gone /\ e.play = p.play
      /\ e.queue = Append(p.queue, op)
  BY <1>1 DEF Enqueue, Pages
<1>3. p.queue \in Seq(Operations)
  BY PageFacts
<1>4. /\ DOMAIN e.queue = 1 .. Len(p.queue) + 1 /\ Len(e.queue) = Len(p.queue) + 1
      /\ DOMAIN p.queue = 1 .. Len(p.queue) /\ Len(p.queue) \in Nat
      /\ \A i \in DOMAIN p.queue : e.queue[i] = p.queue[i]
      /\ e.queue[Len(p.queue) + 1] = op /\ e.queue # << >>
      /\ e.queue \in Seq(Operations)
  BY <1>2, <1>3, AppendFacts
<1>5. \A i \in DOMAIN e.queue :
        \/ i \in DOMAIN p.queue /\ e.queue[i] = p.queue[i]
        \/ i = Len(p.queue) + 1 /\ e.queue[i] = op
  BY <1>4
<1>a. /\ \A i \in DOMAIN p.queue : i \in DOMAIN e.queue /\ e.queue[i] = p.queue[i]
      /\ \E i \in DOMAIN e.queue : e.queue[i] = op
  BY <1>4
<1>6. e \in Pages
  BY <1>1, <1>4 DEF Enqueue, Pages
<1>7. PageOk(e)
  <2>1. \A i \in DOMAIN e.queue : OpOk(e, e.queue[i])
    BY <1>2, <1>5 DEF PageOk, OpOk
  <2>2. \A i, j \in DOMAIN e.queue : i # j => Apart(e.queue[i], e.queue[j])
    BY <1>5 DEF PageOk
  <2>3. e.phase = "restoring" => Len(e.queue) <= 1 /\ e.loaded # NoRecord
    <3>1. p.queue = << >> => Len(p.queue) = 0
      OBVIOUS
    <3> QED
      BY <1>2, <1>4, <3>1
  <2>4. e.check # NoCheck => \A i \in DOMAIN e.queue : ~FreshSave(e.queue[i], "verify")
    BY <1>2, <1>5 DEF PageOk
  <2> QED
    BY <2>1, <2>2, <2>3, <2>4, <1>2 DEF PageOk
<1>8. Known(e) = Known(p) \cup { op.rec }
  <2>1. { e.queue[i].rec : i \in DOMAIN e.queue } = { p.queue[i].rec : i \in DOMAIN p.queue } \cup { op.rec }
    BY <1>5, <1>a
  <2> QED
    BY <2>1, <1>2 DEF Known
<1>9. Awaited(e) = Awaited(p) \cup (IF Awaits(op) THEN { op.rec.rev } ELSE {})
  BY <1>5, <1>a DEF Awaited
<1> QED
  BY <1>1, <1>6, <1>7, <1>8, <1>9

(* The page without its connection.                                         *)
Left(p, phase, gone) == [ ClearConnection(p) EXCEPT !.phase = phase, !.gone = gone ]

IsLeft(c, p, phase, gone) ==
  /\ c \in Pages /\ PageOk(c) /\ c.queue \in Seq(Operations)
  /\ c.phase = phase /\ c.stream = 0 /\ c.session = NoRecord /\ c.loaded = p.loaded
  /\ c.key = p.key /\ c.check = NoCheck /\ c.gone = gone
  /\ DOMAIN c.queue = DOMAIN p.queue
  /\ \A i \in DOMAIN p.queue :
       /\ c.queue[i].kind = p.queue[i].kind /\ c.queue[i].rec = p.queue[i].rec
       /\ c.queue[i].then = p.queue[i].then /\ c.queue[i].result = p.queue[i].result
       /\ c.queue[i].fresh = FALSE
  /\ Known(c) \subseteq Known(p) \cup { NoRecord } /\ Awaited(c) = Awaited(p)

LEMMA ClearOk ==
  ASSUME NEW p \in Pages, PageOk(p), p.phase # "restoring", NEW phase, NEW gone,
         phase \in { "empty", "selected", "preparing" }, gone \subseteq Streams
  PROVE  IsLeft(Left(p, phase, gone), p, phase, gone)
<1> PICK c : c = Left(p, phase, gone)
  OBVIOUS
<1> DEFINE q == [ i \in DOMAIN p.queue |-> [ p.queue[i] EXCEPT !.fresh = FALSE ] ]
<1>1. /\ p.queue \in Seq(Operations) /\ \A i \in DOMAIN p.queue : p.queue[i] \in Operations
      /\ DOMAIN p.queue = 1 .. Len(p.queue) /\ Len(p.queue) \in Nat
  BY PageFacts
<1>2. \A i \in DOMAIN p.queue : q[i] \in Operations
  BY <1>1 DEF Operations
<1>3. q \in Seq(Operations) /\ DOMAIN q = DOMAIN p.queue
  BY <1>1, <1>2, SequenceOver
<1>4. \A i \in DOMAIN p.queue : q[i] = [ p.queue[i] EXCEPT !.fresh = FALSE ]
  OBVIOUS
<1>5. \A i \in DOMAIN p.queue :
        /\ q[i].kind = p.queue[i].kind /\ q[i].rec = p.queue[i].rec /\ q[i].then = p.queue[i].then
        /\ q[i].result = p.queue[i].result /\ q[i].fresh = FALSE
  BY <1>1, <1>4 DEF Operations
<1>6. /\ c.phase = phase /\ c.stream = 0 /\ c.session = NoRecord /\ c.loaded = p.loaded
      /\ c.key = p.key /\ c.check = NoCheck /\ c.gone = gone /\ c.queue = q /\ c.play = FALSE
  BY DEF ClearConnection, Pages, Left
<1>7. c \in Pages
  <2>1. NoCheck \in Checks
    BY DEF NoCheck, Checks
  <2> QED
    BY <1>3, <2>1, RecordFacts DEF ClearConnection, Pages, Left
<1> HIDE DEF q
<1>8. PageOk(c)
  <2>1. \A i \in DOMAIN q : OpOk(c, q[i])
    <3>1. \A i \in DOMAIN q : OpOk(p, p.queue[i]) /\ p.queue[i].rec \in Records
      BY <1>1, <1>3, OperationFacts DEF PageOk
    <3> QED
      BY <3>1, <1>3, <1>5, <1>6, RecordFacts DEF OpOk, FreshSave
  <2>2. \A i, j \in DOMAIN q : i # j => Apart(q[i], q[j])
    BY <1>3, <1>5 DEF PageOk, Apart, FreshSave, Awaits
  <2> QED
    BY <2>1, <2>2, <1>6 DEF PageOk
<1>9. Known(c) \subseteq Known(p) \cup { NoRecord }
  BY <1>3, <1>5, <1>6 DEF Known
<1>10. Awaited(c) = Awaited(p)
  BY <1>3, <1>5, <1>6 DEF Awaited, Awaits
<1> QED
  BY <1>3, <1>5, <1>6, <1>7, <1>8, <1>9, <1>10 DEF IsLeft

(* The page whose first storage call has returned.                          *)
Tailed(p) == [ p EXCEPT !.queue = Tail(@) ]

IsTailed(r, p) ==
  /\ r \in Pages /\ PageOk(r) /\ r.queue = Tail(p.queue)
  /\ r.phase = p.phase /\ r.stream = p.stream /\ r.session = p.session /\ r.loaded = p.loaded
  /\ r.key = p.key /\ r.check = p.check /\ r.gone = p.gone
  /\ Known(r) \subseteq Known(p) /\ Awaited(r) \subseteq Awaited(p)
  /\ Head(p.queue) \in Operations /\ OpOk(p, Head(p.queue)) /\ Head(p.queue).rec \in Known(p)
  /\ \A i \in DOMAIN r.queue :
       /\ Apart(Head(p.queue), r.queue[i]) /\ Apart(r.queue[i], Head(p.queue))
       /\ i + 1 \in DOMAIN p.queue /\ r.queue[i] = p.queue[i + 1]
  /\ p.phase = "restoring" => r.queue = << >>

LEMMA TailOk ==
  ASSUME NEW p \in Pages, PageOk(p), p.queue # << >>
  PROVE  IsTailed(Tailed(p), p)
<1> PICK r : r = Tailed(p)
  OBVIOUS
<1>1. /\ r.phase = p.phase /\ r.stream = p.stream /\ r.session = p.session /\ r.loaded = p.loaded
      /\ r.key = p.key /\ r.check = p.check /\ r.gone = p.gone /\ r.queue = Tail(p.queue)
  BY DEF Tailed, Pages
<1>2. p.queue \in Seq(Operations)
  BY PageFacts
<1>3. /\ r.queue \in Seq(Operations) /\ DOMAIN r.queue = 1 .. Len(p.queue) - 1
      /\ Len(r.queue) = Len(p.queue) - 1 /\ Len(p.queue) \in Nat \ { 0 }
      /\ DOMAIN p.queue = 1 .. Len(p.queue) /\ 1 \in DOMAIN p.queue
      /\ Head(p.queue) = p.queue[1] /\ Head(p.queue) \in Operations
      /\ \A i \in DOMAIN r.queue : i + 1 \in DOMAIN p.queue /\ r.queue[i] = p.queue[i + 1]
  BY <1>1, <1>2, TailFacts
<1>4. r \in Pages
  BY <1>3 DEF Tailed, Pages
<1>5. \A i \in DOMAIN r.queue : i + 1 # 1 /\ i \in Int
  BY <1>3
<1>6. \A i, j \in DOMAIN r.queue : i # j => i + 1 # j + 1
  BY <1>3
<1>7. \A i \in DOMAIN r.queue : OpOk(r, r.queue[i])
  BY <1>1, <1>3 DEF PageOk, OpOk
<1>8. \A i, j \in DOMAIN r.queue : i # j => Apart(r.queue[i], r.queue[j])
  BY <1>3, <1>6 DEF PageOk
<1>9. p.phase = "restoring" => r.queue = << >>
  <2>1. r.queue \in Seq(Operations) /\ Len(r.queue) = 0 => r.queue = << >>
    BY NothingLeft
  <2> QED
    BY <2>1, <1>3 DEF PageOk
<1>10. PageOk(r)
  <2>1. r.phase = "restoring" => Len(r.queue) <= 1
    BY <1>1, <1>3 DEF PageOk
  <2> QED
    BY <1>1, <1>3, <1>7, <1>8, <1>9, <2>1 DEF PageOk
<1>11. Known(r) \subseteq Known(p)
  BY <1>1, <1>3 DEF Known
<1>12. Awaited(r) \subseteq Awaited(p)
  <2>1. \A i \in DOMAIN r.queue : i + 1 \in DOMAIN p.queue /\ r.queue[i] = p.queue[i + 1]
    BY <1>3
  <2> QED
    BY <2>1 DEF Awaited
<1>13. \A i \in DOMAIN r.queue : Apart(Head(p.queue), r.queue[i]) /\ Apart(r.queue[i], Head(p.queue))
  BY <1>3, <1>5 DEF PageOk
<1>14. OpOk(p, Head(p.queue)) /\ Head(p.queue).rec \in Known(p)
  BY <1>3 DEF PageOk, Known
<1>15. IsTailed(r, p)
  BY <1>1, <1>3, <1>4, <1>9, <1>10, <1>11, <1>12, <1>13, <1>14 DEF IsTailed
<1> QED
  BY <1>15

-----------------------------------------------------------------------------
(* A step of one page that leaves the database alone.                       *)

LEMMA AwaitedIsKnown ==
  ASSUME SenderInv, NEW t \in Tabs, NEW v \in Awaited(page[t])
  PROVE  /\ \E r \in Known(page[t]) : r # NoRecord /\ r.rev = v
         /\ v \in Nat /\ v # 0 /\ v < next.revision
<1>1. page[t] \in Pages /\ PageOk(page[t]) /\ PageIssued(page[t])
  BY DEF SenderInv, TypeInv, PagesOk
<1>2. PICK i \in DOMAIN page[t].queue : page[t].queue[i].rec.rev = v
  BY DEF Awaited
<1>3. OpOk(page[t], page[t].queue[i]) /\ page[t].queue[i] \in Operations
  BY <1>1, PageFacts DEF PageOk
<1>4. page[t].queue[i].rec \in Known(page[t]) /\ page[t].queue[i].rec # NoRecord
  BY <1>3 DEF Known, OpOk
<1>5. RecordOk(page[t].queue[i].rec) /\ v \in Nat
  BY <1>1, <1>2, <1>3, <1>4, OperationFacts, RecordFacts DEF PageIssued
<1> QED
  BY <1>2, <1>4, <1>5 DEF RecordOk

LEMMA KnownIsRecord ==
  ASSUME NEW p \in Pages, NEW r \in Known(p)
  PROVE  r \in Records
  BY PageFacts, OperationFacts DEF Known

PageStep(t, p) ==
  /\ page' = [ page EXCEPT ![t] = p ] /\ UNCHANGED << db, newest >>
  /\ held' \in [ Streams -> SUBSET Tabs ] /\ \A k \in Streams : held[k] \subseteq held'[k]
  /\ issued \subseteq issued' /\ issued' \subseteq Streams
  /\ cut' \in BOOLEAN /\ (cut => cut')
  /\ next' \in [ stream : Nat \ { 0 }, revision : Nat \ { 0 } ]
  /\ next.stream <= next'.stream /\ next.revision <= next'.revision
  /\ budget' \in [ acts : Nat, failures : 0 .. MaxFailures ]
  /\ budget'.failures <= budget.failures

(* Where the records of a page may come from, and how old they are.         *)
Familiar(t, r) ==
  \/ r \in Known(page[t]) \cup { NoRecord } \/ r.rev = next.revision
  \/ \E k \in Streams : r = db[k] /\ t \in held'[k]

LEMMA PageStepKeeps ==
  ASSUME SenderInv, NEW t \in Tabs, NEW p \in Pages, PageStep(t, p),
         PageOk(p), PageIssued(p)', Backed(t, p)',
         \A r \in Known(p) : Familiar(t, r),
         \A v \in Awaited(p) : v \in Awaited(page[t]) \/ v = next.revision,
         p.phase = "restoring" /\ p.queue # << >> => budget'.failures < MaxFailures,
         ~cut' /\ budget'.failures = MaxFailures =>
           \A k \in Streams : db[k] # NoRecord /\ Answers(page[t], k) => Answers(p, k)
  PROVE  SenderInv'
<1>1. /\ page' \in [ Tabs -> Pages ] /\ page'[t] = p
      /\ \A u \in Tabs \ { t } : page'[u] = page[u]
      /\ db' = db /\ newest' = newest /\ db \in [ Streams -> Records ] /\ page \in [ Tabs -> Pages ]
  BY DEF PageStep, SenderInv, TypeInv
<1>2. TypeInv'
  BY <1>1 DEF TypeInv, PageStep, SenderInv
<1>3. ASSUME NEW r \in Records, RecordOk(r) PROVE RecordOk(r)'
  <2>1. /\ r.key \in Nat /\ r.rev \in Nat /\ next.stream \in Nat /\ next'.stream \in Nat
        /\ next.revision \in Nat /\ next'.revision \in Nat
    BY RecordFacts DEF PageStep, SenderInv, TypeInv
  <2> QED
    BY <1>3, <2>1 DEF RecordOk, PageStep
<1>4. PagesOk'
  <2> SUFFICES ASSUME NEW u \in Tabs PROVE PageOk(page'[u]) /\ PageIssued(page[u])'
    BY DEF PagesOk
  <2>1. CASE u = t
    BY <2>1, <1>1 DEF PageIssued, Known, Awaited
  <2>2. CASE u # t
    <3>1. page'[u] = page[u] /\ PageOk(page[u]) /\ PageIssued(page[u]) /\ page[u] \in Pages
      BY <2>2, <1>1 DEF SenderInv, PagesOk
    <3>2. PICK o \in Pages : o = page[u]
      BY <3>1
    <3>3. PageIssued(o)'
      <4>1. \A r \in Known(o) : RecordOk(r)'
        BY <1>3, <3>1, <3>2, KnownIsRecord DEF PageIssued
      <4>a. o.stream \in Streams \cup { 0 } /\ o.gone \in SUBSET Streams
        BY PageFacts
      <4>2. /\ o.stream \in Nat /\ o.gone \subseteq Nat /\ next.stream \in Nat /\ next'.stream \in Nat
            /\ next.stream <= next'.stream /\ issued \subseteq issued'
        BY <4>a, RecordFacts DEF PageStep, SenderInv, TypeInv
      <4>3. o.stream < next'.stream /\ o.gone \subseteq 1 .. next'.stream - 1
        BY <4>2, <3>1, <3>2 DEF PageIssued
      <4> QED
        BY <4>1, <4>2, <4>3, <3>1, <3>2 DEF PageIssued
    <3> QED
      BY <3>1, <3>2, <3>3 DEF PageIssued, Known, Awaited
  <2> QED
    BY <2>1, <2>2
<1>5. /\ next.revision \in Nat
      /\ \A k \in Streams : RecordOk(db[k]) /\ db[k] \in Records /\ db[k].rev # next.revision
  BY <1>1, RecordFacts DEF SenderInv, TypeInv, DbOk, RecordOk
<1>6. ASSUME NEW u \in Tabs, NEW r \in Known(page[u]) PROVE r.rev # next.revision
  <2>1. RecordOk(r) /\ r \in Records
    BY <1>1, KnownIsRecord DEF SenderInv, PagesOk, PageIssued
  <2> QED
    BY <2>1, <1>5, RecordFacts DEF RecordOk
<1>7. \A v \in Awaited(p) : v \in Awaited(page[t]) \/ v = next.revision
  OBVIOUS
<1>8. DbOk'
  <2>1. ASSUME NEW k \in Streams, NEW u \in Tabs PROVE db[k].rev \notin Awaited(page'[u])
    <3>1. db[k].rev \notin Awaited(page[u]) /\ db[k].rev \notin Awaited(page[t])
      BY DEF SenderInv, DbOk
    <3> QED
      BY <3>1, <1>1, <1>5, <1>7
  <2>2. \A k \in Streams : RecordOk(db[k])'
    <3>1. ASSUME NEW k \in Streams PROVE RecordOk(db[k])'
      <4>1. PICK r \in Records : r = db[k]
        BY <1>5
      <4>2. RecordOk(r)'
        BY <4>1, <1>3, <1>5
      <4> QED
        BY <4>1, <4>2, <1>1 DEF RecordOk
    <3> QED
      BY <3>1
  <2> QED
    BY <2>1, <2>2, <1>1 DEF DbOk, SenderInv, Awaited
<1>9. Cross'
  <2> SUFFICES ASSUME NEW u \in Tabs, NEW w \in Tabs, u # w, NEW r \in Known(page'[w])
               PROVE  r.rev \notin Awaited(page'[u])
    BY DEF Cross, Known, Awaited
  <2>1. CASE u # t /\ w # t
    BY <2>1, <1>1 DEF SenderInv, Cross
  <2>2. CASE u = t
    <3>1. r \in Known(page[w]) /\ r.rev \notin Awaited(page[t])
      BY <2>2, <1>1 DEF SenderInv, Cross
    <3> QED
      BY <3>1, <2>2, <1>1, <1>6, <1>7
  <2>3. CASE w = t
    <3>1. Awaited(page'[u]) = Awaited(page[u]) /\ Familiar(t, r)
      BY <2>3, <1>1
    <3>2. CASE r \in Known(page[t])
      BY <3>2, <3>1, <2>3 DEF SenderInv, Cross
    <3>3. CASE r = NoRecord \/ r.rev = next.revision
      <4>1. next.revision \in Nat
        BY <1>5
      <4> QED
        BY <3>1, <3>3, <4>1, AwaitedIsKnown, RecordFacts
    <3>4. CASE \E k \in Streams : r = db[k]
      BY <3>1, <3>4 DEF SenderInv, DbOk
    <3> QED
      BY <3>1, <3>2, <3>3, <3>4 DEF Familiar
  <2> QED
    BY <2>1, <2>2, <2>3
<1>10. Holders'
  <2> SUFFICES ASSUME NEW u \in Tabs, NEW r \in Known(page'[u]), r # NoRecord,
                      db[r.key].rev = r.rev
               PROVE  db[r.key] = r /\ u \in held'[r.key]
    BY <1>1 DEF Holders, Known
  <2>1. r \in Records /\ r.key \in Streams
    BY <1>1, KnownIsRecord, RecordFacts
  <2>2. held[r.key] \subseteq held'[r.key]
    BY <2>1 DEF PageStep
  <2>3. CASE u # t \/ r \in Known(page[t])
    <3>1. r \in Known(page[u])
      BY <2>3, <1>1
    <3> QED
      BY <3>1, <2>2 DEF SenderInv, Holders
  <2>4. CASE u = t /\ r.rev = next.revision
    BY <2>4, <2>1, <1>5
  <2>5. CASE u = t /\ \E k \in Streams : r = db[k] /\ t \in held'[k]
    BY <2>5 DEF SenderInv, DbOk
  <2> QED
    BY <2>3, <2>4, <2>5, <1>1 DEF Familiar
<1>11. AllBacked'
  <2> SUFFICES ASSUME NEW u \in Tabs PROVE Backed(u, page[u])'
    BY DEF AllBacked
  <2>1. CASE u = t
    BY <2>1, <1>1 DEF Backed, Alone, Replaced
  <2>2. CASE u # t
    <3>1. PICK o \in Pages : o = page[u]
      BY <1>1
    <3>2. page'[u] = o /\ Backed(u, o)
      BY <2>2, <3>1, <1>1 DEF SenderInv, AllBacked
    <3>3. ASSUME NEW r \in Records, r # NoRecord, Alone(u, r)' PROVE Alone(u, r)
      BY <3>3, RecordFacts DEF PageStep, Alone
    <3>4. o.session \in Records /\ o.loaded \in Records
          /\ \A i \in DOMAIN o.queue : o.queue[i].rec \in Records /\ o.queue[i].rec # NoRecord
      BY <3>1, PageFacts, OperationFacts DEF SenderInv, PagesOk, PageOk, OpOk
    <3>5. Backed(u, o)'
      BY <3>2, <3>3, <3>4, <1>1 DEF Backed, Replaced
    <3> QED
      BY <3>2, <3>5 DEF Backed, Alone, Replaced
  <2> QED
    BY <2>1, <2>2
<1>12. Owned'
  <2>1. /\ budget'.failures \in Nat /\ budget.failures \in Nat /\ budget.failures <= MaxFailures
        /\ budget'.failures <= budget.failures /\ MaxFailures \in Nat
    BY DEF PageStep, SenderInv, TypeInv
  <2>2. ASSUME NEW u \in Tabs, page'[u].phase = "restoring", page'[u].queue # << >>
        PROVE  budget'.failures < MaxFailures
    <3>1. CASE u = t
      BY <3>1, <2>2, <1>1
    <3>2. CASE u # t
      BY <3>2, <2>1, <2>2, <1>1 DEF SenderInv, Owned
    <3> QED
      BY <3>1, <3>2
  <2>3. ASSUME ~cut', budget'.failures = MaxFailures, NEW k \in Streams, db[k] # NoRecord
        PROVE  \E u \in Tabs : Answers(page[u], k)'
    <3>1. ~cut /\ budget.failures = MaxFailures
      BY <2>1, <2>3 DEF PageStep
    <3>2. PICK u \in Tabs : Answers(page[u], k)
      BY <3>1, <2>3 DEF SenderInv, Owned
    <3>3. Answers(page'[u], k)
      BY <3>2, <2>3, <1>1
    <3> QED
      BY <3>3, <1>1 DEF Answers
  <2> QED
    BY <2>2, <2>3, <1>1 DEF Owned
<1> QED
  BY <1>2, <1>4, <1>8, <1>9, <1>10, <1>11, <1>12 DEF SenderInv

(* Most steps touch nothing but the page.                                   *)
LEMMA QuietStepKeeps ==
  ASSUME SenderInv, NEW t \in Tabs, NEW p \in Pages, page' = [ page EXCEPT ![t] = p ],
         UNCHANGED << Storage, World, next >>, UNCHANGED budget \/ Acts \/ Fails,
         PageOk(p), PageIssued(p), Backed(t, p),
         Known(p) \subseteq Known(page[t]) \cup { NoRecord }, Awaited(p) \subseteq Awaited(page[t]),
         p.phase = "restoring" /\ p.queue # << >> =>
           Fails \/ (page[t].phase = "restoring" /\ page[t].queue # << >>),
         \/ Fails \/ budget.failures < MaxFailures
         \/ \A k \in Streams : db[k] # NoRecord /\ Answers(page[t], k) => Answers(p, k)
  PROVE  SenderInv'
<1>1. /\ budget' \in [ acts : Nat, failures : 0 .. MaxFailures ]
      /\ budget'.failures <= budget.failures /\ budget'.failures \in Nat
      /\ budget.failures \in Nat /\ budget.failures <= MaxFailures
      /\ Fails => budget'.failures < MaxFailures
  BY DEF SenderInv, TypeInv, Acts, Fails
<1>2. PageStep(t, p)
  BY <1>1 DEF PageStep, SenderInv, TypeInv, Storage, World
<1>3. PageIssued(p)' /\ Backed(t, p)'
  <2>1. PageIssued(p)'
    BY DEF PageIssued, RecordOk, World
  <2>2. Backed(t, p)'
    BY DEF Backed, Alone, Replaced, Storage
  <2> QED
    BY <2>1, <2>2
<1>4. p.phase = "restoring" /\ p.queue # << >> => budget'.failures < MaxFailures
  BY <1>1 DEF SenderInv, Owned
<1>5. ~cut' /\ budget'.failures = MaxFailures =>
        \A k \in Streams : db[k] # NoRecord /\ Answers(page[t], k) => Answers(p, k)
  BY <1>1
<1> QED
  BY <1>2, <1>3, <1>4, <1>5, PageStepKeeps DEF Familiar

LEMMA TabFacts ==
  ASSUME SenderInv, NEW t \in Tabs
  PROVE  /\ page[t] \in Pages /\ PageOk(page[t]) /\ PageIssued(page[t]) /\ Backed(t, page[t])
         /\ NoRecord \in Records /\ db \in [ Streams -> Records ]
  BY RecordFacts DEF SenderInv, TypeInv, PagesOk, AllBacked

(* What was issued stays so when a page forgets.                            *)
LEMMA StillIssued ==
  ASSUME SenderInv, NEW t \in Tabs, NEW p \in Pages,
         Known(p) \subseteq Known(page[t]) \cup { NoRecord }, Awaited(p) \subseteq Awaited(page[t]),
         p.session \in { page[t].session, NoRecord }, p.loaded \in { page[t].loaded, NoRecord },
         p.gone \subseteq 1 .. next.stream - 1, p.stream \in { page[t].stream, 0 },
         p.phase \in { page[t].phase, "restoring", "empty", "selected", "preparing", "testing" },
         p.check.code \in issued \cup { 0 }, p.phase = "verified" => p.stream = page[t].stream
  PROVE  PageIssued(p)
<1>1. PageIssued(page[t]) /\ next.stream \in Nat \ { 0 } /\ next.revision \in Nat \ { 0 }
  BY TabFacts DEF SenderInv, TypeInv
<1>2. RecordOk(NoRecord)
  BY <1>1, RecordFacts DEF RecordOk
<1>3. 0 \notin Awaited(page[t])
  BY AwaitedIsKnown
<1> QED
  BY <1>1, <1>2, <1>3, RecordFacts DEF PageIssued

-----------------------------------------------------------------------------
(* The steps of a page.                                                     *)

LEMMA RestoringFacts ==
  ASSUME SenderInv, NEW t \in Tabs, page[t].phase = "restoring"
  PROVE  /\ page[t].stream = 0 /\ page[t].session = NoRecord /\ page[t].check = NoCheck
         /\ page[t].gone = {} /\ (page[t].loaded = NoRecord => page[t].queue = << >>)
         /\ page[t].queue = << >> => DOMAIN page[t].queue = {}
  BY TabFacts DEF PageOk

LEMMA LoadKeeps ==
  ASSUME SenderInv, NEW t \in Tabs, Load(t)
  PROVE  SenderInv'
<1> DEFINE k == LoadSenderSession(page[t].key)
<1>1. page[t].phase = "restoring" /\ page[t].loaded = NoRecord /\ page[t].queue = << >>
      /\ DOMAIN page[t].queue = {}
  BY RestoringFacts DEF Load
<1>2. CASE k = 0 \/ db[k] = NoRecord
  <2>1. PICK p : p = [ page[t] EXCEPT !.phase = "empty", !.key = 0 ]
    OBVIOUS
  <2>2. /\ p \in Pages /\ p.phase = "empty" /\ p.queue = page[t].queue /\ p.session = NoRecord
        /\ p.loaded = NoRecord /\ p.stream = 0 /\ p.gone = {} /\ p.check = NoCheck /\ p.play = page[t].play
    BY <2>1, <1>1, TabFacts, RestoringFacts DEF Pages
  <2>3. page' = [ page EXCEPT ![t] = p ] /\ UNCHANGED << Storage, World, next, budget >>
    BY <1>2, <2>1 DEF Load, Becomes, Storage
  <2>4. PageOk(p) /\ Known(p) = { NoRecord } /\ Awaited(p) = {}
    BY <2>2, <1>1 DEF PageOk, Known, Awaited
  <2>5. PageIssued(p)
    BY <2>2, <2>4, <1>1, TabFacts, RestoringFacts, StillIssued DEF NoCheck
  <2>6. Backed(t, p)
    BY <2>2, <1>1 DEF Backed
  <2>7. ASSUME NEW j \in Streams, db[j] # NoRecord, Answers(page[t], j) PROVE FALSE
    <3>1. page[t].key = j
      BY <2>7, <1>1, RestoringFacts DEF Answers
    <3>2. k = j /\ k # 0
      BY <3>1, RecordFacts DEF LoadSenderSession
    <3> QED
      BY <3>2, <1>2, <2>7
  <2> QED
    BY <2>2, <2>3, <2>4, <2>5, <2>6, <2>7, QuietStepKeeps DEF Known
<1>3. CASE ~(k = 0 \/ db[k] = NoRecord)
  <2>1. k \in Streams
    <3>1. page[t].key \in Streams \cup { 0 }
      BY TabFacts, PageFacts
    <3>2. newest # << >> => newest[Len(newest)] \in Streams
      BY DEF SenderInv, TypeInv
    <3> QED
      BY <3>1, <3>2, <1>3 DEF LoadSenderSession
  <2> HIDE DEF k
  <2>2. PICK p : p = [ page[t] EXCEPT !.loaded = db[k] ]
    OBVIOUS
  <2>3. /\ p \in Pages /\ p.phase = "restoring" /\ p.queue = page[t].queue /\ p.session = NoRecord
        /\ p.loaded = db[k] /\ p.stream = 0 /\ p.gone = {} /\ p.check = NoCheck
        /\ p.key = page[t].key
    BY <2>1, <2>2, <1>1, TabFacts, RestoringFacts DEF Pages
  <2>4. /\ page' = [ page EXCEPT ![t] = p ]
        /\ held' = [ held EXCEPT ![k] = @ \cup { t } ]
        /\ UNCHANGED << db, newest, World, next, budget >>
    BY <1>3, <2>2 DEF Load, Becomes, k
  <2>5. PageOk(p) /\ Known(p) = { NoRecord, db[k] } /\ Awaited(p) = {}
    BY <2>3, <1>1, <1>3 DEF PageOk, Known, Awaited
  <2>6. RecordOk(db[k]) /\ RecordOk(NoRecord) /\ db[k].key = k
    BY <2>1, <1>3, RecordFacts DEF SenderInv, DbOk, RecordOk, TypeInv
  <2>7. PageIssued(p)'
    <3>1. PageIssued(p)
      BY <2>3, <2>5, <2>6 DEF PageIssued, NoCheck, SenderInv, TypeInv
    <3> QED
      BY <3>1, <2>4 DEF PageIssued, RecordOk, World
  <2>8. Backed(t, p)'
    BY <2>3, <2>4, <2>6, <1>1 DEF Backed
  <2>9. PageStep(t, p)
    BY <2>1, <2>4 DEF PageStep, SenderInv, TypeInv, World
  <2>10. \A r \in Known(p) : Familiar(t, r)
    <3>1. t \in held'[k]
      BY <2>1, <2>4 DEF SenderInv, TypeInv
    <3> QED
      BY <3>1, <2>1, <2>5 DEF Familiar
  <2>11. ASSUME NEW j \in Streams, db[j] # NoRecord, Answers(page[t], j) PROVE Answers(p, j)
    <3>1. page[t].key = j
      BY <2>11, <1>1, RestoringFacts DEF Answers
    <3>2. k = j
      BY <3>1, RecordFacts DEF LoadSenderSession, k
    <3> QED
      BY <3>1, <3>2, <2>3 DEF Answers
  <2> QED
    BY <1>1, <2>3, <2>5, <2>7, <2>8, <2>9, <2>10, <2>11, PageStepKeeps
<1> QED
  BY <1>2, <1>3

LEMMA RestoredKeeps ==
  ASSUME SenderInv, NEW t \in Tabs, Restored(t)
  PROVE  SenderInv'
<1>1. /\ page[t].phase = "restoring" /\ page[t].loaded # NoRecord /\ page[t].queue = << >>
      /\ DOMAIN page[t].queue = {} /\ page[t].loaded \in Records
  BY TabFacts, PageFacts, RestoringFacts DEF Restored, Restoring
<1>2. PICK l \in Records : l = page[t].loaded
  BY <1>1
<1>3. l # NoRecord /\ l.key \in Streams /\ l.phase \in { "testing", "verified" }
  BY <1>1, <1>2, RecordFacts
<1>4. PICK p : p = [ page[t] EXCEPT !.phase = l.phase, !.stream = l.key, !.play = FALSE,
                       !.session = l, !.loaded = NoRecord, !.key = l.key ]
  OBVIOUS
<1>5. /\ p \in Pages /\ p.phase = l.phase /\ p.stream = l.key /\ p.session = l /\ p.loaded = NoRecord
      /\ p.key = l.key /\ p.gone = {} /\ p.check = NoCheck /\ p.queue = page[t].queue
  BY <1>1, <1>3, <1>4, TabFacts, RestoringFacts DEF Pages
<1>6. page' = [ page EXCEPT ![t] = p ] /\ UNCHANGED << Storage, World, next, budget >>
  BY <1>2, <1>4 DEF Restored, Becomes
<1>7. PageOk(p) /\ Known(p) = { NoRecord, l } /\ Awaited(p) = {}
  BY <1>1, <1>3, <1>5 DEF PageOk, Known, Awaited
<1>8. l \in Known(page[t]) /\ NoRecord \in Known(page[t])
  BY <1>1, <1>2, RestoringFacts DEF Known
<1>9. RecordOk(l) /\ RecordOk(NoRecord)
  BY <1>8, TabFacts DEF PageIssued
<1>10. PageIssued(p)
  BY <1>3, <1>5, <1>7, <1>9 DEF PageIssued, RecordOk, NoCheck
<1>11. Backed(t, p)
  BY <1>1, <1>2, <1>3, <1>5, TabFacts DEF Backed, Alone
<1>12. ASSUME NEW k \in Streams, db[k] # NoRecord, Answers(page[t], k) PROVE Answers(p, k)
  BY <1>1, <1>2, <1>5, <1>12, RestoringFacts DEF Answers
<1> QED
  BY <1>1, <1>3, <1>5, <1>6, <1>7, <1>8, <1>10, <1>11, <1>12, QuietStepKeeps

LEMMA RestoreFailsKeeps ==
  ASSUME SenderInv, NEW t \in Tabs, RestoreFails(t)
  PROVE  SenderInv'
<1>1. /\ page[t].phase = "restoring" /\ page[t].loaded # NoRecord /\ page[t].queue = << >>
      /\ DOMAIN page[t].queue = {} /\ page[t].loaded \in Records /\ Fails
  BY TabFacts, PageFacts, RestoringFacts DEF RestoreFails, Restoring
<1>2. PICK op : op = Deletion(page[t].loaded, "invalid")
  OBVIOUS
<1>3. /\ op \in Operations /\ op.rec = page[t].loaded /\ op.kind = "delete" /\ op.then = "invalid"
      /\ op.result = "none"
  BY <1>1, <1>2 DEF Deletion, Op, Operations
<1>4. OpOk(page[t], op)
  BY <1>1, <1>3, RecordFacts, RestoringFacts DEF OpOk, FreshSave
<1>5. PICK p : p = Enqueue(page[t], op)
  OBVIOUS
<1>6. /\ p \in Pages /\ PageOk(p) /\ Known(p) = Known(page[t]) \cup { op.rec }
      /\ Awaited(p) = Awaited(page[t])
  BY <1>1, <1>3, <1>4, <1>5, TabFacts, EnqueueOk DEF Awaits, FreshSave
<1>7. /\ p.phase = page[t].phase /\ p.session = page[t].session /\ p.loaded = page[t].loaded
      /\ p.stream = page[t].stream /\ p.gone = page[t].gone /\ p.check = page[t].check
      /\ p.queue = Append(page[t].queue, op) /\ p.queue # << >>
  BY <1>3, <1>5, TabFacts, PageFacts, AppendFacts DEF Enqueue, Pages
<1>8. page' = [ page EXCEPT ![t] = p ] /\ UNCHANGED << Storage, World, next >>
  BY <1>2, <1>5 DEF RestoreFails, Becomes
<1>9. op.rec \in Known(page[t])
  BY <1>3 DEF Known
<1>10. PageIssued(p)
  BY <1>6, <1>7, <1>9, StillIssued, TabFacts DEF PageIssued
<1>11. Backed(t, p)
  <2>1. \A i \in DOMAIN p.queue : p.queue[i] = op
    BY <1>1, <1>7
  <2> QED
    BY <2>1, <1>3, <1>7, RestoringFacts, <1>1 DEF Backed, FreshSave
<1>12. Known(p) \subseteq Known(page[t]) \cup { NoRecord } /\ Awaited(p) \subseteq Awaited(page[t])
  BY <1>6, <1>9
<1>13. Fails
  BY <1>1
<1> QED
  BY <1>6, <1>8, <1>10, <1>11, <1>12, <1>13, QuietStepKeeps

(* Streams that a page may have discarded.                                  *)
Spent(gone) == gone \subseteq Streams /\ gone \subseteq 1 .. next.stream - 1

(* A page that has no stored record leaves its connection.                  *)
LEMMA ClearKeeps ==
  ASSUME SenderInv, NEW t \in Tabs, page[t].phase # "restoring", page[t].session = NoRecord,
         NEW phase, phase \in { "empty", "selected", "preparing" },
         NEW gone, Spent(gone),
         NEW c, c = Left(page[t], phase, gone),
         page' = [ page EXCEPT ![t] = c ],
         UNCHANGED << Storage, World, next >>, UNCHANGED budget \/ Acts
  PROVE  SenderInv'
<1>a. page[t] \in Pages /\ PageOk(page[t])
  BY TabFacts
<1>z. gone \subseteq Streams
  BY DEF Spent
<1>b. IsLeft(c, page[t], phase, gone)
  BY <1>a, <1>z, ClearOk
<1>1. /\ c \in Pages /\ PageOk(c) /\ DOMAIN c.queue = DOMAIN page[t].queue
      /\ c.phase = phase /\ c.stream = 0 /\ c.session = NoRecord /\ c.loaded = page[t].loaded
      /\ c.check = NoCheck /\ c.gone = gone
      /\ \A i \in DOMAIN page[t].queue :
           /\ c.queue[i].kind = page[t].queue[i].kind /\ c.queue[i].rec = page[t].queue[i].rec
           /\ c.queue[i].then = page[t].queue[i].then /\ c.queue[i].result = page[t].queue[i].result
           /\ c.queue[i].fresh = FALSE
      /\ Known(c) \subseteq Known(page[t]) \cup { NoRecord } /\ Awaited(c) = Awaited(page[t])
  BY <1>b DEF IsLeft
<1>3. PageIssued(c)
  <2>1. c.check.code = 0
    BY <1>1 DEF NoCheck
  <2> QED
    BY <1>1, <2>1, StillIssued DEF Spent
<1>4. Backed(t, c)
  BY <1>1 DEF Backed, FreshSave
<1>5. ASSUME NEW k \in Streams, db[k] # NoRecord, Answers(page[t], k) PROVE Answers(c, k)
  BY <1>1, <1>5 DEF Answers
<1> QED
  BY <1>1, <1>3, <1>4, <1>5, QuietStepKeeps

LEMMA GoneFacts ==
  ASSUME SenderInv, NEW t \in Tabs
  PROVE  Spent(page[t].gone) /\ Spent(page[t].gone \cup ({ page[t].stream } \ { 0 }))
<1>1. page[t].stream \in Streams \cup { 0 } /\ page[t].gone \in SUBSET Streams
  BY TabFacts, PageFacts
<1>2. page[t].gone \subseteq 1 .. next.stream - 1 /\ page[t].stream < next.stream
  BY TabFacts DEF PageIssued
<1>3. next.stream \in Nat /\ page[t].stream \in Nat
  BY <1>1, RecordFacts DEF SenderInv, TypeInv
<1> QED
  BY <1>1, <1>2, <1>3 DEF Spent

LEMMA LeaveKeeps ==
  ASSUME SenderInv, NEW t \in Tabs, PickFolder(t) \/ ClearSelection(t) \/ PrepareConnection(t)
  PROVE  SenderInv'
<1>1. page[t].phase \in { "empty", "selected" }
  BY DEF PickFolder, ClearSelection, PrepareConnection
<1>2. page[t].session = NoRecord
  BY <1>1, TabFacts DEF PageOk
<1>3. PICK phase \in { "empty", "selected", "preparing" } :
        /\ page' = [ page EXCEPT ![t] = [ ClearConnection(page[t]) EXCEPT !.phase = phase ] ]
        /\ UNCHANGED << Storage, World, next >>
        /\ UNCHANGED budget \/ Acts
  BY <1>2 DEF PickFolder, ClearSelection, PrepareConnection, Becomes, Discarded
<1>4. [ ClearConnection(page[t]) EXCEPT !.phase = phase ] =
        Left(page[t], phase, page[t].gone)
  BY TabFacts DEF ClearConnection, Pages, Left
<1> QED
  BY <1>1, <1>2, <1>3, <1>4, GoneFacts, ClearKeeps

LEMMA DiscardKeeps ==
  ASSUME SenderInv, NEW t \in Tabs, DiscardConnection(t)
  PROVE  SenderInv'
<1> DEFINE gone == page[t].gone \cup ({ page[t].stream } \ { 0 })
<1>1. PICK s \in Records : s = page[t].session
  BY TabFacts, PageFacts
<1>2. /\ page[t].phase \in { "preparing", "testing", "verified" } /\ Acts
      /\ page' = [ page EXCEPT ![t] = [ Discarded(ClearConnection(page[t]), s) EXCEPT
                     !.phase = "selected", !.gone = @ \cup ({ page[t].stream } \ { 0 }) ] ]
      /\ UNCHANGED << Storage, World, next >>
  BY <1>1 DEF DiscardConnection, Becomes
<1>3. PICK c : c = Left(page[t], "selected", gone)
  OBVIOUS
<1>a. page[t] \in Pages /\ PageOk(page[t])
  BY TabFacts
<1>b. gone \subseteq Streams /\ page[t].phase # "restoring"
  BY <1>2, GoneFacts DEF Spent
<1>c. IsLeft(c, page[t], "selected", gone)
  BY <1>2, <1>3, <1>a, <1>b, ClearOk
<1>4. ClearConnection(page[t]).gone = page[t].gone
  BY TabFacts DEF ClearConnection, Pages
<1>5. CASE s = NoRecord
  <2>1. page' = [ page EXCEPT ![t] = c ]
    BY <1>2, <1>3, <1>4, <1>5 DEF Discarded, Left
  <2> QED
    BY <2>1, <1>1, <1>2, <1>3, <1>5, GoneFacts, ClearKeeps
<1>6. CASE s # NoRecord
  <2>1. PICK op : op = Deletion(s, "discard")
    OBVIOUS
  <2>2. /\ op \in Operations /\ op.rec = s /\ op.kind = "delete" /\ op.then = "discard"
        /\ op.result = "none" /\ s.key \in Streams
    BY <1>6, <2>1, RecordFacts DEF Deletion, Op, Operations
  <2>3. PICK p : p = Enqueue(c, op)
    OBVIOUS
  <2>4. page' = [ page EXCEPT ![t] = p ]
    <3>1. [ Discarded(ClearConnection(page[t]), s) EXCEPT
              !.phase = "selected", !.gone = @ \cup ({ page[t].stream } \ { 0 }) ] = p
      BY <1>3, <1>6, <2>1, <2>3, TabFacts DEF Discarded, ClearConnection, Pages, Enqueue, Left
    <3> QED
      BY <3>1, <1>2
  <2>5. /\ c \in Pages /\ PageOk(c) /\ c.queue \in Seq(Operations)
        /\ c.phase = "selected" /\ c.stream = 0 /\ c.session = NoRecord /\ c.loaded = page[t].loaded
        /\ c.check = NoCheck /\ c.gone = gone
        /\ DOMAIN c.queue = DOMAIN page[t].queue
        /\ \A i \in DOMAIN page[t].queue :
             /\ c.queue[i].kind = page[t].queue[i].kind /\ c.queue[i].rec = page[t].queue[i].rec
             /\ c.queue[i].then = page[t].queue[i].then /\ c.queue[i].result = page[t].queue[i].result
             /\ c.queue[i].fresh = FALSE
        /\ Known(c) \subseteq Known(page[t]) \cup { NoRecord } /\ Awaited(c) = Awaited(page[t])
    BY <1>c DEF IsLeft
  <2>6. \A i \in DOMAIN c.queue :
          /\ c.queue[i].rec = page[t].queue[i].rec /\ c.queue[i].kind = page[t].queue[i].kind
          /\ c.queue[i].result = page[t].queue[i].result /\ c.queue[i].fresh = FALSE
    BY <2>5
  <2>7. OpOk(c, op)
    BY <1>6, <2>2, <2>5, RecordFacts DEF OpOk, FreshSave
  <2>8. \A i \in DOMAIN c.queue : Apart(c.queue[i], op) /\ Apart(op, c.queue[i])
    <3>1. s.rev \notin Awaited(page[t])
      BY <1>1, TabFacts DEF PageIssued
    <3>2. \A i \in DOMAIN c.queue : Awaits(c.queue[i]) => c.queue[i].rec.rev # s.rev
      BY <3>1, <2>5 DEF Awaited
    <3> QED
      BY <3>2, <2>2, <2>6 DEF Apart, FreshSave, Awaits
  <2>c. ~Awaits(op) /\ ~FreshSave(op, "verify") /\ c.phase # "restoring"
    BY <2>2, <2>5 DEF Awaits, FreshSave
  <2>9. /\ p \in Pages /\ PageOk(p) /\ Known(p) = Known(c) \cup { s } /\ Awaited(p) = Awaited(page[t])
    <3>1. c \in Pages /\ PageOk(c) /\ Awaited(c) = Awaited(page[t])
      BY <2>5
    <3> QED
      BY <2>2, <2>3, <3>1, <2>7, <2>8, <2>c, EnqueueOk
  <2>10. /\ p.phase = "selected" /\ p.session = NoRecord /\ p.loaded = page[t].loaded
         /\ p.stream = 0 /\ p.gone = gone /\ p.check = NoCheck
         /\ p.queue = Append(c.queue, op)
    BY <2>3, <2>5 DEF Enqueue, Pages
  <2>11. /\ \A i \in DOMAIN c.queue : i \in DOMAIN p.queue /\ p.queue[i] = c.queue[i]
         /\ \E i \in DOMAIN p.queue : p.queue[i] = op
         /\ \A i \in DOMAIN p.queue : p.queue[i] = op \/ (i \in DOMAIN c.queue /\ p.queue[i] = c.queue[i])
    BY <2>2, <2>5, <2>10, AppendFacts
  <2>12. Known(p) \subseteq Known(page[t]) \cup { NoRecord }
    BY <1>1, <2>5, <2>9 DEF Known
  <2>13. PageIssued(p)
    BY <2>9, <2>10, <2>12, GoneFacts, StillIssued DEF NoCheck, Spent
  <2>14. Backed(t, p)
    BY <2>2, <2>6, <2>10, <2>11 DEF Backed, FreshSave
  <2>15. ASSUME NEW k \in Streams, db[k] # NoRecord, Answers(page[t], k) PROVE Answers(p, k)
    <3>1. CASE s = db[k]
      BY <3>1, <2>2, <2>11 DEF Answers
    <3>2. CASE s # db[k]
      <4>1. PICK i \in DOMAIN page[t].queue :
              /\ page[t].queue[i].rec = db[k]
              /\ page[t].queue[i].result = IF page[t].queue[i].kind = "save" THEN "done" ELSE "none"
        BY <3>2, <2>15, <1>1, <1>2 DEF Answers
      <4> QED
        BY <4>1, <2>5, <2>6, <2>11 DEF Answers
    <3> QED
      BY <3>1, <3>2
  <2> QED
    BY <1>2, <2>4, <2>9, <2>10, <2>12, <2>13, <2>14, <2>15, QuietStepKeeps
<1> QED
  BY <1>5, <1>6

(* The same records, the same queue: only what is shown changes.            *)
LEMMA ShownKeeps ==
  ASSUME SenderInv, NEW t \in Tabs, NEW p \in Pages, page' = [ page EXCEPT ![t] = p ],
         UNCHANGED << Storage, World, next >>, UNCHANGED budget \/ Acts \/ Fails,
         p.session = page[t].session, p.loaded = page[t].loaded, p.queue = page[t].queue,
         p.key = page[t].key, p.gone = page[t].gone, p.stream = page[t].stream,
         page[t].phase # "restoring", p.phase # "restoring", PageOk(p),
         p.phase = "verified" => page[t].stream \in issued, p.check.code \in issued \cup { 0 }
  PROVE  SenderInv'
<1>1. Known(p) = Known(page[t]) /\ Awaited(p) = Awaited(page[t])
  BY DEF Known, Awaited
<1>2. PageIssued(p)
  BY <1>1, TabFacts DEF PageIssued
<1>3. Backed(t, p)
  BY TabFacts DEF Backed, Replaced
<1>4. \A k \in Streams : Answers(page[t], k) => Answers(p, k)
  BY DEF Answers
<1> QED
  BY <1>1, <1>2, <1>3, <1>4, QuietStepKeeps

LEMMA BuildFailsKeeps ==
  ASSUME SenderInv, NEW t \in Tabs, BuildFails(t)
  PROVE  SenderInv'
<1>1. /\ page[t] \in Pages /\ PageOk(page[t]) /\ page[t].phase = "preparing"
      /\ \A i \in DOMAIN page[t].queue : ~FreshSave(page[t].queue[i], "prepare")
  BY TabFacts DEF BuildFails, Building, FreshSave
<1>2. PICK p : p = [ page[t] EXCEPT !.phase = "selected" ]
  OBVIOUS
<1>3. /\ p \in Pages /\ p.phase = "selected" /\ p.session = page[t].session
      /\ p.loaded = page[t].loaded /\ p.queue = page[t].queue /\ p.key = page[t].key
      /\ p.gone = page[t].gone /\ p.stream = page[t].stream /\ p.check = page[t].check
  BY <1>1, <1>2 DEF Pages
<1>4. PageOk(p)
  BY <1>1, <1>3 DEF PageOk, OpOk, FreshSave
<1>5. page' = [ page EXCEPT ![t] = p ] /\ UNCHANGED << Storage, World, next >> /\ Fails
  BY <1>2 DEF BuildFails, Becomes
<1>6. p.check.code \in issued \cup { 0 }
  BY <1>3, TabFacts DEF PageIssued
<1> QED
  BY <1>1, <1>3, <1>4, <1>5, <1>6, ShownKeeps

LEMMA EnterReceiptKeeps ==
  ASSUME SenderInv, NEW t \in Tabs, NEW code \in issued \cup { 0 }, EnterReceipt(t, code)
  PROVE  SenderInv'
<1>1. /\ page[t] \in Pages /\ PageOk(page[t]) /\ page[t].phase = "testing"
      /\ \A i \in DOMAIN page[t].queue : ~FreshSave(page[t].queue[i], "verify")
      /\ page[t].stream \in Streams \cup { 0 }
  BY TabFacts, PageFacts DEF EnterReceipt, FreshSave
<1>2. PICK c : c = [ code |-> code, stream |-> page[t].stream ]
  OBVIOUS
<1>3. c \in Checks /\ c.code = code /\ c.stream = page[t].stream
  BY <1>1, <1>2 DEF Checks, SenderInv, TypeInv
<1>4. PICK p : p = [ page[t] EXCEPT !.check = c ]
  OBVIOUS
<1>5. /\ p \in Pages /\ p.phase = page[t].phase /\ p.session = page[t].session
      /\ p.loaded = page[t].loaded /\ p.queue = page[t].queue /\ p.key = page[t].key
      /\ p.gone = page[t].gone /\ p.stream = page[t].stream /\ p.check = c
  BY <1>1, <1>3, <1>4 DEF Pages
<1>6. PageOk(p)
  BY <1>1, <1>3, <1>5 DEF PageOk, OpOk
<1>7. page' = [ page EXCEPT ![t] = p ] /\ UNCHANGED << Storage, World, next >> /\ Acts
  BY <1>2, <1>4 DEF EnterReceipt, Becomes
<1> QED
  BY <1>1, <1>3, <1>5, <1>6, <1>7, ShownKeeps

LEMMA WrongReceiptKeeps ==
  ASSUME SenderInv, NEW t \in Tabs, WrongReceipt(t)
  PROVE  SenderInv'
<1>1. /\ page[t] \in Pages /\ PageOk(page[t]) /\ page[t].check # NoCheck
      /\ page[t].phase = "testing"
  BY TabFacts DEF WrongReceipt, PageOk
<1>2. PICK p : p = [ page[t] EXCEPT !.check = NoCheck ]
  OBVIOUS
<1>3. /\ p \in Pages /\ p.phase = page[t].phase /\ p.session = page[t].session
      /\ p.loaded = page[t].loaded /\ p.queue = page[t].queue /\ p.key = page[t].key
      /\ p.gone = page[t].gone /\ p.stream = page[t].stream /\ p.check = NoCheck
  BY <1>1, <1>2 DEF Pages, NoCheck, Checks
<1>4. PageOk(p)
  BY <1>1, <1>3 DEF PageOk, OpOk
<1>5. page' = [ page EXCEPT ![t] = p ] /\ UNCHANGED << Storage, World, next, budget >>
  BY <1>2 DEF WrongReceipt, Becomes
<1>6. p.check.code \in issued \cup { 0 } /\ p.phase # "verified"
  BY <1>1, <1>3 DEF NoCheck
<1> QED
  BY <1>1, <1>3, <1>4, <1>5, <1>6, ShownKeeps

LEMMA PlaybackKeeps ==
  ASSUME SenderInv, NEW t \in Tabs, Playback(t)
  PROVE  SenderInv'
<1>1. /\ page[t] \in Pages /\ PageOk(page[t]) /\ page[t].phase \in { "testing", "verified" }
      /\ (page[t].phase = "verified" => page[t].stream \in issued)
      /\ page[t].check.code \in issued \cup { 0 } /\ page[t].play \in BOOLEAN
  BY TabFacts, PageFacts DEF Playback, PageIssued
<1>2. PICK p : p = [ page[t] EXCEPT !.play = ~@ ]
  OBVIOUS
<1>3. /\ p \in Pages /\ p.phase = page[t].phase /\ p.session = page[t].session
      /\ p.loaded = page[t].loaded /\ p.queue = page[t].queue /\ p.key = page[t].key
      /\ p.gone = page[t].gone /\ p.stream = page[t].stream /\ p.check = page[t].check
  BY <1>1, <1>2 DEF Pages
<1>4. PageOk(p)
  BY <1>1, <1>3 DEF PageOk, OpOk
<1>5. page' = [ page EXCEPT ![t] = p ] /\ UNCHANGED << Storage, World, next, budget >>
  BY <1>2 DEF Playback, Becomes
<1> QED
  BY <1>1, <1>3, <1>4, <1>5, ShownKeeps

LEMMA ShowReceiptKeeps ==
  ASSUME SenderInv, NEW t \in Tabs, ShowReceipt(t)
  PROVE  SenderInv'
<1>1. PICK p \in Pages : p = page[t]
  BY TabFacts
<1>2. PageOk(p) /\ PageIssued(p) /\ Backed(t, p) /\ p.phase = "testing" /\ p.stream \in Streams
  BY <1>1, TabFacts DEF ShowReceipt, PageOk
<1>3. /\ page' = page /\ UNCHANGED << db, newest, held, cut, next, budget >>
      /\ issued' = issued \cup { p.stream }
  BY <1>1 DEF ShowReceipt, Storage
<1>4. page' = [ page EXCEPT ![t] = p ]
  BY <1>1, <1>3 DEF SenderInv, TypeInv
<1>a. issued \subseteq issued' /\ issued' \subseteq Streams
  BY <1>2, <1>3 DEF SenderInv, TypeInv
<1>b. /\ held \in [ Streams -> SUBSET Tabs ] /\ cut \in BOOLEAN
      /\ next \in [ stream : Nat \ { 0 }, revision : Nat \ { 0 } ]
      /\ budget \in [ acts : Nat, failures : 0 .. MaxFailures ]
      /\ next.stream \in Nat /\ next.revision \in Nat /\ budget.failures \in Nat
  BY DEF SenderInv, TypeInv
<1>c. /\ held' = held /\ cut' = cut /\ next' = next /\ budget' = budget
      /\ next.stream <= next.stream /\ next.revision <= next.revision
      /\ budget.failures <= budget.failures
  BY <1>3, <1>b
<1>5. PageStep(t, p)
  <2>1. db' = db /\ newest' = newest
    BY <1>3
  <2>2. held' \in [ Streams -> SUBSET Tabs ] /\ \A k \in Streams : held[k] \subseteq held'[k]
    BY <1>b, <1>c
  <2>3. cut' \in BOOLEAN /\ (cut => cut')
    BY <1>b, <1>c
  <2>4. /\ next' \in [ stream : Nat \ { 0 }, revision : Nat \ { 0 } ]
        /\ next.stream <= next'.stream /\ next.revision <= next'.revision
    BY <1>b, <1>c
  <2>5. /\ budget' \in [ acts : Nat, failures : 0 .. MaxFailures ]
        /\ budget'.failures <= budget.failures
    BY <1>b, <1>c
  <2> QED
    BY <1>4, <1>a, <2>1, <2>2, <2>3, <2>4, <2>5 DEF PageStep
<1>6. PageIssued(p)' /\ Backed(t, p)'
  <2>1. PageIssued(p)'
    BY <1>2, <1>3 DEF PageIssued, RecordOk
  <2>2. Backed(t, p)'
    BY <1>2, <1>3 DEF Backed, Alone, Replaced
  <2> QED
    BY <2>1, <2>2
<1> QED
  BY <1>1, <1>2, <1>5, <1>6, PageStepKeeps DEF Familiar

LEMMA ReloadKeeps ==
  ASSUME SenderInv, NEW t \in Tabs, Reload(t)
  PROVE  SenderInv'
<1>1. PICK o \in Pages : o = page[t]
  BY TabFacts
<1>2. PageOk(o) /\ PageIssued(o) /\ o.key \in Streams \cup { 0 }
  BY <1>1, TabFacts, PageFacts
<1>3. PICK p : p = FreshPage(o.key)
  OBVIOUS
<1>4. /\ p \in Pages /\ p.phase = "restoring" /\ p.stream = 0 /\ p.session = NoRecord
      /\ p.loaded = NoRecord /\ p.key = o.key /\ p.check = NoCheck /\ p.gone = {}
      /\ p.queue = << >> /\ DOMAIN p.queue = {} /\ Len(p.queue) = 0
  BY <1>2, <1>3, RecordFacts DEF FreshPage, Pages, NoCheck, Checks
<1>5. /\ page' = [ page EXCEPT ![t] = p ] /\ UNCHANGED << db, newest, held, issued, next >>
      /\ Acts /\ cut' = (cut \/ o.queue # << >>)
  BY <1>1, <1>3 DEF Reload, Becomes, Storage
<1>6. PageOk(p) /\ Known(p) = { NoRecord } /\ Awaited(p) = {}
  BY <1>4 DEF PageOk, Known, Awaited
<1>7. PageStep(t, p)
  BY <1>5 DEF PageStep, Acts, SenderInv, TypeInv
<1>8. PageIssued(p)'
  BY <1>4, <1>5, <1>6, RecordFacts DEF PageIssued, RecordOk, NoCheck, SenderInv, TypeInv
<1>9. Backed(t, p)'
  BY <1>4 DEF Backed
<1>a. o.queue = << >> => DOMAIN o.queue = {}
  OBVIOUS
<1>10. ASSUME ~cut', NEW k \in Streams, db[k] # NoRecord, Answers(o, k) PROVE Answers(p, k)
  <2>1. o.queue = << >> /\ DOMAIN o.queue = {}
    BY <1>5, <1>10, <1>a
  <2>2. o.key = k
    <3>1. CASE o.session = db[k]
      <4>1. db[k].key = k
        BY <1>10 DEF SenderInv, DbOk
      <4> QED
        BY <3>1, <4>1, <1>2, <1>10 DEF PageOk
    <3>2. CASE o.session # db[k]
      BY <3>2, <2>1, <1>10 DEF Answers
    <3> QED
      BY <3>1, <3>2
  <2> QED
    BY <2>2, <1>4 DEF Answers
<1> QED
  BY <1>1, <1>4, <1>6, <1>7, <1>8, <1>9, <1>10, PageStepKeeps DEF Familiar

-----------------------------------------------------------------------------
(* A save joins the queue under a revision nobody has seen.                 *)

Longer(o, p, op) ==
  /\ op.result = "none" /\ p.queue # << >>
  /\ p.phase = o.phase /\ p.stream = o.stream /\ p.session = o.session /\ p.loaded = o.loaded
  /\ \A i \in DOMAIN o.queue : i \in DOMAIN p.queue /\ p.queue[i] = o.queue[i]
  /\ \A i \in DOMAIN p.queue :
       p.queue[i] = op \/ (i \in DOMAIN o.queue /\ p.queue[i] = o.queue[i])

LEMMA LongerQueue ==
  ASSUME NEW t \in Tabs, NEW o, NEW p, NEW op, Longer(o, p, op), Backed(t, o)
  PROVE  Backed(t, p)
<1> USE DEF Longer
<1>1. Replaced(o) => Replaced(p)
  BY DEF Replaced
<1>2. p.session # NoRecord /\ Alone(t, p.session) => db[p.stream] = p.session \/ Replaced(p)
  BY <1>1 DEF Backed
<1>3. ASSUME NEW i \in DOMAIN p.queue, p.queue[i].result = "done"
      PROVE  i \in DOMAIN o.queue /\ p.queue[i] = o.queue[i]
  BY <1>3
<1>4. \A i \in DOMAIN p.queue :
        /\ FreshSave(p.queue[i], "prepare") /\ p.queue[i].result = "done"
           /\ Alone(t, p.queue[i].rec) => db[p.queue[i].rec.key] = p.queue[i].rec
        /\ FreshSave(p.queue[i], "verify") /\ p.queue[i].result = "done" =>
             db[p.queue[i].rec.key] # p.session
  BY <1>3 DEF Backed
<1> QED
  BY <1>2, <1>4 DEF Backed

LEMMA SaveKeeps ==
  ASSUME SenderInv, NEW t \in Tabs, page[t].phase # "restoring",
         NEW o \in Pages, PageOk(o),
         o.phase = page[t].phase, o.stream = page[t].stream, o.session = page[t].session,
         o.loaded = page[t].loaded, o.key = page[t].key, o.queue = page[t].queue,
         o.gone = page[t].gone, o.check.code \in issued \cup { 0 },
         NEW op \in Operations, OpOk(o, op), Awaits(op), op.rec.rev = next.revision,
         FreshSave(op, "verify") => o.check = NoCheck,
         \A i \in DOMAIN o.queue :
           /\ FreshSave(o.queue[i], "prepare") \/ FreshSave(op, "prepare") =>
                o.queue[i].rec.key # op.rec.key
           /\ \A then \in { "prepare", "verify" } :
                ~(FreshSave(o.queue[i], then) /\ FreshSave(op, then)),
         RecordOk(op.rec)',
         NEW p, p = Enqueue(o, op), page' = [ page EXCEPT ![t] = p ],
         UNCHANGED << Storage, World, budget >>,
         next' \in [ stream : Nat \ { 0 }, revision : Nat \ { 0 } ],
         next.stream <= next'.stream, next.revision <= next'.revision
  PROVE  SenderInv'
<1>1. page[t] \in Pages /\ PageOk(page[t]) /\ PageIssued(page[t]) /\ Backed(t, page[t])
  BY TabFacts
<1>2. Known(o) = Known(page[t]) /\ Awaited(o) = Awaited(page[t])
  BY DEF Known, Awaited
<1>3. next.revision \in Nat /\ next'.revision \in Nat /\ next.stream \in Nat /\ next'.stream \in Nat
  BY DEF SenderInv, TypeInv
<1>4. ASSUME NEW r \in Known(o) PROVE r.rev # next.revision /\ r \in Records /\ RecordOk(r)'
  <2>1. RecordOk(r) /\ r \in Records
    BY <1>1, <1>2, KnownIsRecord DEF PageIssued
  <2>2. r.key \in Nat /\ r.rev \in Nat
    BY <2>1, RecordFacts
  <2> QED
    BY <2>1, <2>2, <1>3 DEF RecordOk, World
<1>5. \A i \in DOMAIN o.queue : o.queue[i].rec.rev # op.rec.rev
  BY <1>4 DEF Known
<1>6. \A i \in DOMAIN o.queue : Apart(o.queue[i], op) /\ Apart(op, o.queue[i])
  <2> SUFFICES ASSUME NEW i \in DOMAIN o.queue
               PROVE  Apart(o.queue[i], op) /\ Apart(op, o.queue[i])
    OBVIOUS
  <2>1. PICK a : a = o.queue[i]
    OBVIOUS
  <2>2. /\ FreshSave(a, "prepare") \/ FreshSave(op, "prepare") => a.rec.key # op.rec.key
        /\ \A then \in { "prepare", "verify" } : ~(FreshSave(a, then) /\ FreshSave(op, then))
        /\ a.rec.rev # op.rec.rev
    BY <1>5, <2>1
  <2> QED
    BY <2>1, <2>2 DEF Apart
<1>7. /\ p \in Pages /\ PageOk(p) /\ Known(p) = Known(o) \cup { op.rec }
      /\ Awaited(p) = Awaited(o) \cup { op.rec.rev }
  BY <1>6, EnqueueOk
<1>8. /\ p.phase = o.phase /\ p.stream = o.stream /\ p.session = o.session /\ p.loaded = o.loaded
      /\ p.key = o.key /\ p.check = o.check /\ p.gone = o.gone /\ p.queue = Append(o.queue, op)
  BY DEF Enqueue, Pages
<1>9. /\ DOMAIN p.queue = 1 .. Len(o.queue) + 1 /\ DOMAIN o.queue = 1 .. Len(o.queue)
      /\ Len(o.queue) \in Nat /\ \A i \in DOMAIN o.queue : p.queue[i] = o.queue[i]
      /\ p.queue[Len(o.queue) + 1] = op /\ p.queue # << >>
  <2>1. PICK q \in Seq(Operations) : q = o.queue
    BY PageFacts
  <2>2. /\ DOMAIN Append(q, op) = 1 .. Len(q) + 1 /\ DOMAIN q = 1 .. Len(q) /\ Len(q) \in Nat
        /\ \A i \in DOMAIN q : Append(q, op)[i] = q[i]
        /\ Append(q, op)[Len(q) + 1] = op /\ Append(q, op) # << >>
    BY AppendFacts
  <2> QED
    BY <1>8, <2>1, <2>2
<1>10. /\ \A i \in DOMAIN o.queue : i \in DOMAIN p.queue /\ p.queue[i] = o.queue[i]
       /\ \A i \in DOMAIN p.queue : p.queue[i] = op \/ (i \in DOMAIN o.queue /\ p.queue[i] = o.queue[i])
  <2>1. PICK q \in Seq(Operations) : q = o.queue
    BY PageFacts
  <2>2. /\ \A i \in DOMAIN q : i \in DOMAIN Append(q, op) /\ Append(q, op)[i] = q[i]
        /\ \A i \in DOMAIN Append(q, op) :
             Append(q, op)[i] = op \/ (i \in DOMAIN q /\ Append(q, op)[i] = q[i])
    BY AppendMembers
  <2> QED
    BY <1>8, <2>1, <2>2
<1>11. op.result = "none"
  BY DEF Awaits
<1>12. PageStep(t, p)
  <2>1. /\ held \in [ Streams -> SUBSET Tabs ] /\ cut \in BOOLEAN /\ issued \subseteq Streams
        /\ budget \in [ acts : Nat, failures : 0 .. MaxFailures ]
        /\ budget.failures <= budget.failures
    BY DEF SenderInv, TypeInv
  <2>2. UNCHANGED << db, newest, held, issued, cut, budget >>
    BY DEF Storage, World
  <2> QED
    BY <2>1, <2>2 DEF PageStep
<1>13. PageIssued(p)'
  <2>1. \A r \in Known(p) : RecordOk(r)'
    BY <1>4, <1>7
  <2>2. p.session.rev \notin Awaited(p) /\ p.loaded.rev \notin Awaited(p)
    <3>1. o.session \in Known(o) /\ o.loaded \in Known(o)
      BY DEF Known
    <3>2. o.session.rev \notin Awaited(o) /\ o.loaded.rev \notin Awaited(o)
      BY <1>1, <1>2 DEF PageIssued
    <3> QED
      BY <3>1, <3>2, <1>4, <1>7, <1>8
  <2>3. p.gone \subseteq 1 .. next'.stream - 1 /\ p.stream < next'.stream
    <3>1. o.stream \in Nat
      BY PageFacts, RecordFacts
    <3>2. o.gone \subseteq 1 .. next.stream - 1 /\ o.stream < next.stream
      BY <1>1 DEF PageIssued
    <3> QED
      BY <3>1, <3>2, <1>3, <1>8
  <2>4. (p.phase = "verified" => p.stream \in issued') /\ p.check.code \in issued' \cup { 0 }
    BY <1>1, <1>8 DEF PageIssued, World
  <2> QED
    BY <2>1, <2>2, <2>3, <2>4 DEF PageIssued, Known, Awaited
<1>14. Backed(t, p)'
  <2>a. Backed(t, o)
    BY <1>1 DEF Backed, Replaced
  <2>1. Backed(t, p)
    <3>1. Longer(o, p, op)
      BY <1>8, <1>9, <1>10, <1>11 DEF Longer
    <3> QED
      BY <2>a, <3>1, LongerQueue
  <2> QED
    <3>1. db' = db /\ held' = held
      BY DEF Storage
    <3> QED
      BY <2>1, <3>1 DEF Backed, Alone, Replaced
<1>15. \A r \in Known(p) : Familiar(t, r)
  BY <1>2, <1>7 DEF Familiar
<1>16. \A k \in Streams : Answers(page[t], k) => Answers(p, k)
  BY <1>8, <1>10 DEF Answers
<1> QED
  BY <1>2, <1>7, <1>8, <1>12, <1>13, <1>14, <1>15, <1>16, PageStepKeeps

LEMMA BuiltKeeps ==
  ASSUME SenderInv, NEW t \in Tabs, Built(t)
  PROVE  SenderInv'
<1>1. /\ page[t] \in Pages /\ PageOk(page[t]) /\ page[t].phase = "preparing"
      /\ \A i \in DOMAIN page[t].queue : ~FreshSave(page[t].queue[i], "prepare")
  BY TabFacts DEF Built, Building, FreshSave
<1>2. PICK o \in Pages : o = page[t]
  BY <1>1
<1>3. /\ next.stream \in Nat \ { 0 } /\ next.revision \in Nat \ { 0 }
      /\ next \in [ stream : Nat \ { 0 }, revision : Nat \ { 0 } ]
      /\ next.stream <= MaxStreams /\ MaxStreams \in Nat
  BY DEF Built, SenderInv, TypeInv
<1>4. next.stream \in Streams
  BY <1>3 DEF Streams
<1>5. PICK rec : rec = [ key |-> next.stream, rev |-> next.revision, phase |-> "testing" ]
  OBVIOUS
<1>6. /\ rec \in Records /\ rec.key = next.stream /\ rec.rev = next.revision
      /\ rec.phase = "testing" /\ rec # NoRecord
  BY <1>3, <1>4, <1>5 DEF Records, NoRecord
<1>7. PICK op : op = Op("save", rec, 0, "prepare")
  OBVIOUS
<1>8. /\ op \in Operations /\ op.kind = "save" /\ op.rec = rec /\ op.then = "prepare"
      /\ op.result = "none" /\ op.fresh
  BY <1>6, <1>7 DEF Op, Operations
<1>9. /\ page' = [ page EXCEPT ![t] = Enqueue(o, op) ] /\ UNCHANGED << Storage, World, budget >>
      /\ next' = [ stream |-> next.stream + 1, revision |-> next.revision + 1 ]
  BY <1>2, <1>5, <1>7 DEF Built, Becomes
<1>10. /\ next' \in [ stream : Nat \ { 0 }, revision : Nat \ { 0 } ]
       /\ next.stream <= next'.stream /\ next.revision <= next'.revision
       /\ next.stream < next'.stream /\ next.revision < next'.revision
  BY <1>3, <1>9
<1>11. RecordOk(rec)'
  BY <1>3, <1>6, <1>10 DEF RecordOk
<1>12. \A r \in Known(o) : r.key < next.stream
  BY <1>2, TabFacts DEF PageIssued, RecordOk
<1>13. \A i \in DOMAIN o.queue : o.queue[i].rec.key # rec.key
  BY <1>3, <1>6, <1>12 DEF Known
<1>14. next.stream \notin o.gone /\ next.stream # o.stream
  BY <1>2, <1>3, TabFacts DEF PageIssued
<1>15. OpOk(o, op)
  BY <1>1, <1>2, <1>6, <1>8, <1>14 DEF OpOk, FreshSave
<1>16. Awaits(op) /\ ~FreshSave(op, "verify") /\ RecordOk(op.rec)' /\ op.rec.rev = next.revision
  BY <1>6, <1>8, <1>11 DEF Awaits, FreshSave, RecordOk
<1>17. o.check.code \in issued \cup { 0 }
  BY <1>2, TabFacts DEF PageIssued
<1>18. \A i \in DOMAIN o.queue :
         /\ FreshSave(o.queue[i], "prepare") \/ FreshSave(op, "prepare") =>
              o.queue[i].rec.key # op.rec.key
         /\ \A then \in { "prepare", "verify" } :
              ~(FreshSave(o.queue[i], then) /\ FreshSave(op, then))
  BY <1>1, <1>2, <1>8, <1>13, <1>16
<1> QED
  BY <1>1, <1>2, <1>8, <1>9, <1>10, <1>15, <1>16, <1>17, <1>18, SaveKeeps

LEMMA RightReceiptKeeps ==
  ASSUME SenderInv, NEW t \in Tabs, RightReceipt(t)
  PROVE  SenderInv'
<1>1. /\ page[t] \in Pages /\ PageOk(page[t]) /\ page[t].phase = "testing"
      /\ page[t].check # NoCheck /\ page[t].check.code = page[t].check.stream
      /\ page[t].check.stream = page[t].stream /\ page[t].stream \in Streams
      /\ \A i \in DOMAIN page[t].queue : ~FreshSave(page[t].queue[i], "verify")
  BY TabFacts DEF RightReceipt, PageOk
<1>2. page[t].stream \in issued
  BY <1>1, TabFacts, RecordFacts DEF PageIssued
<1>3. PICK s \in Records : s = page[t].session
  BY <1>1, PageFacts
<1>4. PICK o : o = [ page[t] EXCEPT !.check = NoCheck ]
  OBVIOUS
<1>5. /\ o \in Pages /\ o.phase = "testing" /\ o.session = s /\ o.stream = page[t].stream
      /\ o.loaded = page[t].loaded /\ o.queue = page[t].queue /\ o.key = page[t].key
      /\ o.gone = page[t].gone /\ o.check = NoCheck
  BY <1>1, <1>3, <1>4 DEF Pages, NoCheck, Checks
<1>6. PageOk(o) /\ o.check.code \in issued \cup { 0 }
  BY <1>1, <1>3, <1>5 DEF PageOk, OpOk, NoCheck
<1>7. CASE s = NoRecord
  <2>1. PICK p : p = Unlock(o)
    OBVIOUS
  <2>2. /\ p \in Pages /\ p.phase = "verified" /\ p.session = s /\ p.stream = page[t].stream
        /\ p.loaded = page[t].loaded /\ p.queue = page[t].queue /\ p.key = page[t].key
        /\ p.gone = page[t].gone /\ p.check = NoCheck
    BY <1>5, <2>1 DEF Unlock, Pages
  <2>3. PageOk(p)
    BY <1>1, <1>3, <1>5, <1>6, <2>2 DEF PageOk, OpOk
  <2>4. page' = [ page EXCEPT ![t] = p ] /\ UNCHANGED << Storage, World, next, budget >>
    BY <1>3, <1>4, <1>5, <1>7, <2>1 DEF RightReceipt, Becomes
  <2>5. p.check.code \in issued \cup { 0 }
    BY <2>2 DEF NoCheck
  <2> QED
    BY <1>1, <1>2, <1>3, <2>2, <2>3, <2>4, <2>5, ShownKeeps
<1>8. CASE s # NoRecord
  <2>1. PICK rec : rec = [ s EXCEPT !.rev = next.revision, !.phase = "verified" ]
    OBVIOUS
  <2>2. /\ next.stream \in Nat /\ next.revision \in Nat \ { 0 }
        /\ next \in [ stream : Nat \ { 0 }, revision : Nat \ { 0 } ]
    BY DEF SenderInv, TypeInv
  <2>3. s.key = o.stream /\ s.key \in Streams /\ s.key \in Nat /\ s.key < next.stream
    <3>1. s.key = page[t].stream /\ page[t].stream < next.stream
      BY <1>1, <1>3, <1>8, TabFacts DEF PageOk, PageIssued
    <3> QED
      BY <3>1, <1>1, <1>5, RecordFacts
  <2>4. /\ rec \in Records /\ rec.key = s.key /\ rec.rev = next.revision /\ rec.phase = "verified"
        /\ rec # NoRecord
    BY <1>8, <2>1, <2>2, <2>3 DEF Records, NoRecord
  <2>5. PICK op : op = Op("save", rec, s.rev, "verify")
    OBVIOUS
  <2>6. /\ op \in Operations /\ op.kind = "save" /\ op.rec = rec /\ op.then = "verify"
        /\ op.result = "none" /\ op.fresh
    BY <2>4, <2>5, RecordFacts DEF Op, Operations
  <2>7. /\ page' = [ page EXCEPT ![t] = Enqueue(o, op) ] /\ UNCHANGED << Storage, World, budget >>
        /\ next' = [ next EXCEPT !.revision = @ + 1 ]
    BY <1>3, <1>4, <1>5, <1>8, <2>1, <2>5 DEF RightReceipt, Becomes
  <2>8. /\ next' \in [ stream : Nat \ { 0 }, revision : Nat \ { 0 } ]
        /\ next.stream <= next'.stream /\ next.revision <= next'.revision
        /\ next.stream = next'.stream /\ next.revision < next'.revision
    BY <2>2, <2>7
  <2>9. RecordOk(rec)'
    BY <1>2, <1>5, <2>2, <2>3, <2>4, <2>7, <2>8 DEF RecordOk, World
  <2>10. OpOk(o, op)
    BY <1>5, <1>8, <2>3, <2>4, <2>6 DEF OpOk, FreshSave
  <2>11. /\ Awaits(op) /\ ~FreshSave(op, "prepare") /\ RecordOk(op.rec)'
         /\ op.rec.rev = next.revision
    BY <2>4, <2>6, <2>9 DEF Awaits, FreshSave, RecordOk
  <2>12. ASSUME NEW i \in DOMAIN o.queue, FreshSave(o.queue[i], "prepare") PROVE FALSE
    BY <1>5, <1>6, <2>12 DEF PageOk, OpOk
  <2> QED
    BY <1>1, <1>3, <1>5, <1>6, <2>6, <2>7, <2>8, <2>10, <2>11, <2>12, SaveKeeps
<1> QED
  BY <1>7, <1>8

-----------------------------------------------------------------------------
(* The transaction of the first storage call ends.                          *)

Settled(o, result) == [ o EXCEPT !.queue[1].result = result ]

IsSettled(p, o, result) ==
  /\ p \in Pages /\ PageOk(p)
  /\ p.phase = o.phase /\ p.stream = o.stream /\ p.session = o.session /\ p.loaded = o.loaded
  /\ p.key = o.key /\ p.check = o.check /\ p.gone = o.gone
  /\ DOMAIN p.queue = DOMAIN o.queue /\ 1 \in DOMAIN p.queue
  /\ p.queue # << >> /\ o.queue # << >>
  /\ \A i \in DOMAIN o.queue :
       /\ p.queue[i].kind = o.queue[i].kind /\ p.queue[i].rec = o.queue[i].rec
       /\ p.queue[i].then = o.queue[i].then /\ p.queue[i].fresh = o.queue[i].fresh
       /\ p.queue[i].result = IF i = 1 THEN result ELSE o.queue[i].result
  /\ Known(p) = Known(o) /\ Awaited(p) \subseteq Awaited(o)
  /\ p.queue[1].kind = "save" =>
       p.queue[1].rec.rev \notin Awaited(p) /\ p.queue[1].rec.rev \in Awaited(o)

LEMMA SettleOk ==
  ASSUME NEW o \in Pages, PageOk(o), o.queue # << >>, o.queue[1].result = "none",
         NEW result \in { "done", "changed", "failed" }
  PROVE  IsSettled(Settled(o, result), o, result)
<1>1. PICK q \in Seq(Operations) : q = o.queue
  BY PageFacts
<1>2. /\ DOMAIN q = 1 .. Len(q) /\ Len(q) \in Nat /\ 1 \in DOMAIN q
      /\ \A i \in DOMAIN q : q[i] \in Operations
  BY <1>1, TailFacts
<1>3. PICK r : r = [ q EXCEPT ![1] = [ q[1] EXCEPT !.result = result ] ]
  OBVIOUS
<1>4. [ q[1] EXCEPT !.result = result ] \in Operations
  BY <1>2 DEF Operations
<1>5. r \in Seq(Operations) /\ DOMAIN r = DOMAIN q
  <2>1. DOMAIN r = DOMAIN q /\ \A i \in DOMAIN q : r[i] \in Operations
    BY <1>2, <1>3, <1>4
  <2>2. r = [ i \in DOMAIN q |-> r[i] ]
    BY <1>3
  <2> QED
    BY <1>2, <2>1, <2>2, SequenceOver
<1>6. ASSUME NEW i \in DOMAIN q
      PROVE  /\ r[i].kind = q[i].kind /\ r[i].rec = q[i].rec /\ r[i].then = q[i].then
             /\ r[i].fresh = q[i].fresh /\ r[i].result = IF i = 1 THEN result ELSE q[i].result
  <2>1. r[i] = IF i = 1 THEN [ q[i] EXCEPT !.result = result ] ELSE q[i]
    BY <1>3
  <2> QED
    BY <1>2, <2>1 DEF Operations
<1>7. PICK p : p = Settled(o, result)
  OBVIOUS
<1>8. /\ p.phase = o.phase /\ p.stream = o.stream /\ p.session = o.session /\ p.loaded = o.loaded
      /\ p.key = o.key /\ p.check = o.check /\ p.gone = o.gone /\ p.queue = r
  BY <1>1, <1>3, <1>7 DEF Settled, Pages
<1>9. p \in Pages
  BY <1>1, <1>3, <1>5, <1>7 DEF Settled, Pages
<1>10. r # << >> /\ Len(r) = Len(q)
  BY <1>2, <1>5
<1>11. \A i \in DOMAIN q : FreshSave(r[i], "prepare") = FreshSave(q[i], "prepare")
                           /\ FreshSave(r[i], "verify") = FreshSave(q[i], "verify")
  BY <1>6 DEF FreshSave
<1>12. \A i \in DOMAIN q : Awaits(r[i]) => Awaits(q[i]) /\ i # 1
  BY <1>6 DEF Awaits
<1>13. PageOk(p)
  <2>1. \A i \in DOMAIN q : OpOk(p, r[i])
    <3>1. \A i \in DOMAIN q : OpOk(o, q[i])
      BY <1>1 DEF PageOk
    <3> QED
      BY <3>1, <1>6, <1>8, <1>11 DEF OpOk
  <2>2. \A i, j \in DOMAIN q : i # j => Apart(r[i], r[j])
    <3>1. \A i, j \in DOMAIN q : i # j => Apart(q[i], q[j])
      BY <1>1 DEF PageOk
    <3> QED
      BY <3>1, <1>6, <1>11, <1>12 DEF Apart
  <2>3. p.check # NoCheck => \A i \in DOMAIN r : ~FreshSave(r[i], "verify")
    BY <1>1, <1>5, <1>8, <1>11 DEF PageOk
  <2>4. p.phase = "restoring" => Len(r) <= 1 /\ (p.loaded = NoRecord => r = << >>)
    BY <1>1, <1>8, <1>10 DEF PageOk
  <2> QED
    BY <1>5, <1>8, <2>1, <2>2, <2>3, <2>4 DEF PageOk
<1>14. Known(p) = Known(o)
  BY <1>1, <1>5, <1>6, <1>8 DEF Known
<1>15. Awaited(p) \subseteq Awaited(o)
  BY <1>1, <1>5, <1>6, <1>8, <1>12 DEF Awaited
<1>16. ASSUME r[1].kind = "save"
       PROVE  r[1].rec.rev \notin Awaited(p) /\ r[1].rec.rev \in Awaited(o)
  <2>1. Awaits(q[1])
    BY <1>1, <1>2, <1>6, <1>16 DEF Awaits
  <2>2. \A i \in DOMAIN q : i # 1 => q[i].rec.rev # q[1].rec.rev
    BY <1>1, <1>2, <2>1 DEF PageOk, Apart
  <2>3. r[1].rec.rev \in Awaited(o)
    BY <1>1, <1>2, <1>6, <2>1 DEF Awaited
  <2>4. ASSUME NEW i \in DOMAIN r, Awaits(r[i]) PROVE r[i].rec.rev # r[1].rec.rev
    BY <1>2, <1>5, <1>6, <1>12, <2>2, <2>4
  <2> QED
    BY <1>8, <2>3, <2>4 DEF Awaited
<1> QED
  <2>1. IsSettled(p, o, result)
    BY <1>1, <1>2, <1>5, <1>6, <1>8, <1>9, <1>10, <1>13, <1>14, <1>15, <1>16 DEF IsSettled
  <2> QED
    BY <1>7, <2>1

LEMMA PendingFacts ==
  ASSUME SenderInv, NEW t \in Tabs, Pending(t), NEW o, o = page[t]
  PROVE  /\ o \in Pages /\ PageOk(o) /\ PageIssued(o) /\ Backed(t, o)
         /\ o.queue # << >> /\ 1 \in DOMAIN o.queue /\ Head(o.queue) = o.queue[1]
         /\ o.queue[1].result = "none" /\ o.queue[1] \in Operations /\ OpOk(o, o.queue[1])
         /\ o.queue[1].rec \in Records /\ o.queue[1].rec.key \in Streams
         /\ o.queue[1].rec # NoRecord /\ o.queue[1].rec \in Known(o)
         /\ RecordOk(o.queue[1].rec)
<1>1. /\ o \in Pages /\ PageOk(o) /\ PageIssued(o) /\ Backed(t, o) /\ o.queue # << >>
      /\ Head(o.queue).result = "none"
  BY TabFacts DEF Pending
<1>2. PICK q \in Seq(Operations) : q = o.queue
  BY <1>1, PageFacts
<1>3. 1 \in DOMAIN q /\ Head(q) = q[1] /\ q[1] \in Operations
  BY <1>1, <1>2, TailFacts
<1>4. OpOk(o, q[1]) /\ q[1].rec \in Records
  BY <1>1, <1>2, <1>3, OperationFacts DEF PageOk
<1>5. q[1].rec # NoRecord /\ q[1].rec \in Known(o)
  BY <1>2, <1>3, <1>4 DEF OpOk, Known
<1>6. RecordOk(q[1].rec) /\ q[1].rec.key \in Streams
  BY <1>1, <1>4, <1>5, RecordFacts DEF PageIssued
<1> QED
  BY <1>1, <1>2, <1>3, <1>4, <1>5, <1>6

(* It did not change the records.                                           *)
LEMMA QuietSettleKeeps ==
  ASSUME SenderInv, NEW t \in Tabs, Pending(t), NEW result \in { "changed", "failed" },
         Settle(t, result), UNCHANGED << Storage, World, next >>, UNCHANGED budget \/ Fails,
         page[t].queue[1].kind = "delete" /\ ~Fails =>
           db[page[t].queue[1].rec.key].rev # page[t].queue[1].rec.rev
  PROVE  SenderInv'
<1>1. PICK o : o = page[t]
  OBVIOUS
<1>2. /\ o \in Pages /\ PageOk(o) /\ PageIssued(o) /\ Backed(t, o)
      /\ o.queue # << >> /\ 1 \in DOMAIN o.queue /\ o.queue[1].result = "none"
  BY <1>1, PendingFacts
<1>3. PICK p : p = Settled(o, result)
  OBVIOUS
<1>4. IsSettled(p, o, result)
  BY <1>2, <1>3, SettleOk
<1>5. page' = [ page EXCEPT ![t] = p ]
  BY <1>1, <1>3 DEF Settle, Becomes, Settled
<1>6. /\ p \in Pages /\ PageOk(p)
      /\ p.phase = o.phase /\ p.stream = o.stream /\ p.session = o.session /\ p.loaded = o.loaded
      /\ p.key = o.key /\ p.check = o.check /\ p.gone = o.gone
      /\ DOMAIN p.queue = DOMAIN o.queue /\ p.queue # << >>
      /\ \A i \in DOMAIN o.queue :
           /\ p.queue[i].kind = o.queue[i].kind /\ p.queue[i].rec = o.queue[i].rec
           /\ p.queue[i].then = o.queue[i].then /\ p.queue[i].fresh = o.queue[i].fresh
           /\ p.queue[i].result = IF i = 1 THEN result ELSE o.queue[i].result
      /\ Known(p) = Known(o) /\ Awaited(p) \subseteq Awaited(o)
  BY <1>4 DEF IsSettled
<1>7. PageIssued(p)
  BY <1>2, <1>6 DEF PageIssued
<1>8. \A i \in DOMAIN o.queue :
        p.queue[i].result = "done" <=> o.queue[i].result = "done"
  BY <1>2, <1>6
<1>9. Backed(t, p)
  BY <1>2, <1>6, <1>8 DEF Backed, Replaced, FreshSave
<1>10. ASSUME ~Fails, NEW k \in Streams, db[k] # NoRecord, Answers(o, k) PROVE Answers(p, k)
  <2>1. db[k].key = k
    BY <1>10 DEF SenderInv, DbOk
  <2>2. ASSUME o.queue[1].rec = db[k],
               o.queue[1].result = IF o.queue[1].kind = "save" THEN "done" ELSE "none"
        PROVE  FALSE
    <3>1. o.queue[1].kind = "delete"
      BY <1>2, <2>2, PendingFacts, <1>1 DEF Operations
    <3> QED
      BY <1>1, <1>10, <2>1, <2>2, <3>1
  <2> QED
    BY <1>6, <1>10, <2>2 DEF Answers
<1>11. /\ Known(p) \subseteq Known(page[t]) \cup { NoRecord } /\ Awaited(p) \subseteq Awaited(page[t])
       /\ p.phase = "restoring" => page[t].phase = "restoring" /\ page[t].queue # << >>
  BY <1>1, <1>2, <1>6
<1>12. Fails \/ \A k \in Streams : db[k] # NoRecord /\ Answers(page[t], k) => Answers(p, k)
  BY <1>1, <1>10
<1>13. UNCHANGED budget \/ Acts \/ Fails
  OBVIOUS
<1>14. p \in Pages /\ PageOk(p)
  BY <1>6
<1> QED
  BY <1>5, <1>7, <1>9, <1>11, <1>12, <1>13, <1>14, QuietStepKeeps

LEMMA TransactionFailsKeeps ==
  ASSUME SenderInv, NEW t \in Tabs, TransactionFails(t)
  PROVE  SenderInv'
<1>1. /\ Pending(t) /\ Fails /\ Settle(t, "failed") /\ UNCHANGED << Storage, World, next >>
  BY DEF TransactionFails
<1> QED
  BY <1>1, QuietSettleKeeps

(* A revision that is to be saved is in one operation of one page.          *)
LEMMA OnlySaver ==
  ASSUME SenderInv, NEW t \in Tabs, Pending(t), page[t].queue[1].kind = "save",
         NEW u \in Tabs, NEW s \in Known(page[u]), s.rev = page[t].queue[1].rec.rev
  PROVE  u = t /\ s = page[t].queue[1].rec
<1>1. PICK o : o = page[t]
  OBVIOUS
<1>2. /\ PageOk(o) /\ PageIssued(o) /\ 1 \in DOMAIN o.queue /\ Awaits(o.queue[1])
      /\ o.queue[1].kind = "save"
  BY <1>1, PendingFacts DEF Awaits
<1>3. o.queue[1].rec.rev \in Awaited(o)
  BY <1>2 DEF Awaited
<1>4. u = t
  BY <1>1, <1>3 DEF SenderInv, Cross
<1>5. s # o.session /\ s # o.loaded
  BY <1>1, <1>2, <1>3 DEF PageIssued
<1>6. PICK i \in DOMAIN o.queue : s = o.queue[i].rec
  BY <1>1, <1>4, <1>5 DEF Known
<1>7. i = 1
  BY <1>1, <1>2, <1>6 DEF PageOk, Apart
<1> QED
  BY <1>1, <1>4, <1>6, <1>7

Stores(t, op, stored) ==
  \/ op.kind = "save" /\ stored = op.rec /\ held' = [ held EXCEPT ![op.rec.key] = { t } ]
  \/ /\ op.kind = "delete" /\ stored = NoRecord /\ held' = held
     /\ db[op.rec.key] = NoRecord \/ db[op.rec.key].rev = op.rec.rev

LEMMA StoreKeeps ==
  ASSUME SenderInv, NEW t \in Tabs, Pending(t), Settle(t, "done"),
         NEW stored, Stores(t, page[t].queue[1], stored),
         db' = [ db EXCEPT ![page[t].queue[1].rec.key] = stored ],
         newest' \in Seq(Streams),
         \A i, j \in DOMAIN newest' : newest'[i] = newest'[j] => i = j,
         { k \in Streams : db'[k] # NoRecord } = { newest'[i] : i \in DOMAIN newest' },
         UNCHANGED << World, next, budget >>
  PROVE  SenderInv'
<1>1. PICK o : o = page[t]
  OBVIOUS
<1>2. /\ o \in Pages /\ PageOk(o) /\ PageIssued(o) /\ Backed(t, o)
      /\ o.queue # << >> /\ 1 \in DOMAIN o.queue /\ o.queue[1].result = "none"
  BY <1>1, PendingFacts
<1>3. PICK p : p = Settled(o, "done")
  OBVIOUS
<1>4. IsSettled(p, o, "done")
  BY <1>2, <1>3, SettleOk
<1>5. /\ p \in Pages /\ PageOk(p)
      /\ p.phase = o.phase /\ p.stream = o.stream /\ p.session = o.session /\ p.loaded = o.loaded
      /\ p.key = o.key /\ p.check = o.check /\ p.gone = o.gone
      /\ DOMAIN p.queue = DOMAIN o.queue /\ p.queue # << >>
      /\ \A i \in DOMAIN o.queue :
           /\ p.queue[i].kind = o.queue[i].kind /\ p.queue[i].rec = o.queue[i].rec
           /\ p.queue[i].then = o.queue[i].then /\ p.queue[i].fresh = o.queue[i].fresh
           /\ p.queue[i].result = IF i = 1 THEN "done" ELSE o.queue[i].result
      /\ Known(p) = Known(o) /\ Awaited(p) \subseteq Awaited(o)
      /\ p.queue[1].kind = "save" =>
           p.queue[1].rec.rev \notin Awaited(p) /\ p.queue[1].rec.rev \in Awaited(o)
  BY <1>4 DEF IsSettled
<1>6. PICK op \in Operations : op = o.queue[1]
  BY <1>1, PendingFacts
<1>7. PICK r \in Records : r = op.rec
  BY <1>1, <1>6, PendingFacts
<1>8. PICK k \in Streams : k = r.key
  BY <1>1, <1>6, <1>7, PendingFacts
<1>9. /\ OpOk(o, op) /\ r # NoRecord /\ r \in Known(o) /\ RecordOk(r) /\ stored \in Records
      /\ stored \in { r, NoRecord } /\ (op.kind = "save" <=> stored = r)
      /\ op.kind = "delete" <=> stored = NoRecord
      /\ op.kind = "save" \/ op.kind = "delete"
  BY <1>1, <1>6, <1>7, PendingFacts, RecordFacts DEF Stores
<1>10. /\ page \in [ Tabs -> Pages ] /\ db \in [ Streams -> Records ]
       /\ held \in [ Streams -> SUBSET Tabs ] /\ issued' = issued /\ next' = next /\ cut' = cut
       /\ budget' = budget
  BY DEF SenderInv, TypeInv, World
<1>11. page' = [ page EXCEPT ![t] = p ]
  BY <1>1, <1>3 DEF Settle, Becomes, Settled
<1>12. /\ page' \in [ Tabs -> Pages ] /\ page'[t] = p
       /\ \A u \in Tabs : u # t => page'[u] = page[u]
  BY <1>5, <1>10, <1>11
<1>13. /\ db' \in [ Streams -> Records ] /\ db'[k] = stored
       /\ \A j \in Streams : j # k => db'[j] = db[j]
  BY <1>1, <1>6, <1>7, <1>8, <1>9, <1>10
<1>14. /\ held' \in [ Streams -> SUBSET Tabs ]
       /\ \A j \in Streams : j # k => held'[j] = held[j]
       /\ op.kind = "save" => held'[k] = { t }
       /\ op.kind = "delete" => held' = held /\ (db[k] = NoRecord \/ db[k].rev = r.rev)
  <2>1. Stores(t, op, stored)
    BY <1>1, <1>6
  <2>2. CASE op.kind = "save"
    <3>1. held' = [ held EXCEPT ![k] = { t } ]
      BY <2>1, <2>2, <1>7, <1>8 DEF Stores
    <3> QED
      BY <2>2, <3>1, <1>10
  <2>3. CASE op.kind = "delete"
    <3>1. held' = held /\ (db[k] = NoRecord \/ db[k].rev = r.rev)
      BY <2>1, <2>3, <1>7, <1>8 DEF Stores
    <3> QED
      BY <2>3, <3>1, <1>10
  <2> QED
    BY <2>2, <2>3, <1>9
<1>15. TypeInv'
  BY <1>10, <1>12, <1>13, <1>14 DEF TypeInv, SenderInv
<1>16. ASSUME NEW u \in Tabs
       PROVE  /\ Known(page'[u]) = Known(page[u]) /\ Awaited(page'[u]) \subseteq Awaited(page[u])
              /\ page[u] \in Pages /\ PageOk(page[u]) /\ PageIssued(page[u]) /\ Backed(u, page[u])
  BY <1>1, <1>5, <1>12, TabFacts
<1>17. PagesOk'
  <2> SUFFICES ASSUME NEW u \in Tabs PROVE PageOk(page'[u]) /\ PageIssued(page[u])'
    BY DEF PagesOk
  <2>1. PICK n \in Pages : n = page'[u]
    BY <1>12
  <2>2. PageOk(n)
    BY <1>5, <1>12, <1>16, <2>1
  <2>3. PageIssued(n)
    <3>1. CASE u = t
      BY <3>1, <2>1, <1>2, <1>5, <1>12 DEF PageIssued
    <3>2. CASE u # t
      BY <3>2, <2>1, <1>12, <1>16
    <3> QED
      BY <3>1, <3>2
  <2>4. PageIssued(n)'
    BY <2>3, <1>10 DEF PageIssued, RecordOk
  <2> QED
    BY <2>1, <2>2, <2>4 DEF PageIssued, Known, Awaited
<1>18. /\ RecordOk(stored) /\ (stored # NoRecord => stored.key = k)
       /\ \A u \in Tabs : stored.rev \notin Awaited(page'[u])
  <2>1. CASE op.kind = "save"
    <3>1. stored = r
      BY <2>1, <1>9
    <3>2. r.rev \notin Awaited(page'[t])
      BY <2>1, <1>2, <1>5, <1>6, <1>7, <1>12
    <3>3. ASSUME NEW u \in Tabs, u # t PROVE r.rev \notin Awaited(page'[u])
      BY <3>3, <1>1, <1>9, <1>12 DEF SenderInv, Cross
    <3> QED
      BY <3>1, <3>2, <3>3, <1>8, <1>9
  <2>2. CASE op.kind = "delete"
    <3>1. stored = NoRecord
      BY <2>2, <1>9
    <3>2. RecordOk(NoRecord)
      BY RecordFacts DEF RecordOk, SenderInv, TypeInv
    <3>3. \A u \in Tabs : 0 \notin Awaited(page[u])
      BY AwaitedIsKnown
    <3>4. \A u \in Tabs : 0 \notin Awaited(page'[u])
      BY <3>3, <1>16
    <3> QED
      BY <3>1, <3>2, <3>4, RecordFacts
  <2> QED
    BY <2>1, <2>2, <1>9
<1>19. DbOk'
  <2> SUFFICES ASSUME NEW j \in Streams
               PROVE  /\ RecordOk(db[j])' /\ (db'[j] # NoRecord => db'[j].key = j)
                      /\ \A u \in Tabs : db'[j].rev \notin Awaited(page'[u])
    BY DEF DbOk, Awaited, RecordOk
  <2>1. PICK d : d = db'[j]
    OBVIOUS
  <2>2. RecordOk(d) /\ (d # NoRecord => d.key = j)
        /\ \A u \in Tabs : d.rev \notin Awaited(page'[u])
    <3>1. CASE j = k
      BY <3>1, <2>1, <1>13, <1>18
    <3>2. CASE j # k
      BY <3>2, <2>1, <1>13, <1>16 DEF SenderInv, DbOk
    <3> QED
      BY <3>1, <3>2
  <2>3. RecordOk(d)'
    BY <2>2, <1>10 DEF RecordOk
  <2> QED
    BY <2>1, <2>2, <2>3 DEF RecordOk
<1>20. Cross'
  <2> SUFFICES ASSUME NEW u \in Tabs, NEW w \in Tabs, u # w, NEW s \in Known(page'[w])
               PROVE  s.rev \notin Awaited(page'[u])
    BY DEF Cross, Known, Awaited
  <2> QED
    BY <1>16 DEF SenderInv, Cross
<1>21. Holders'
  <2> SUFFICES ASSUME NEW u \in Tabs, NEW s \in Known(page'[u]), s # NoRecord,
                      db'[s.key].rev = s.rev
               PROVE  db'[s.key] = s /\ u \in held'[s.key]
    BY DEF Holders, Known
  <2>1. s \in Known(page[u]) /\ s \in Records /\ s.key \in Streams /\ RecordOk(s)
    BY <1>16, KnownIsRecord, RecordFacts DEF PageIssued
  <2>2. CASE s.key # k
    BY <2>1, <2>2, <1>13, <1>14 DEF SenderInv, Holders
  <2>3. CASE s.key = k /\ op.kind = "save"
    <3>1. s.rev = r.rev
      BY <2>3, <1>9, <1>13
    <3>2. u = t /\ s = r
      BY <3>1, <2>1, <2>3, <1>1, <1>6, <1>7, OnlySaver
    <3> QED
      BY <3>2, <2>3, <1>9, <1>13, <1>14
  <2>4. CASE s.key = k /\ op.kind = "delete"
    BY <2>1, <2>4, <1>9, <1>13, RecordFacts DEF RecordOk
  <2> QED
    BY <2>2, <2>3, <2>4, <1>9
<1>22. ASSUME NEW u \in Tabs, u # t PROVE Backed(u, page[u])'
  <2>1. PICK n \in Pages : n = page[u]
    BY <1>16
  <2>2. /\ page'[u] = n /\ PageOk(n) /\ Backed(u, n) /\ n.session \in Records
        /\ n.loaded \in Records /\ n.queue \in Seq(Operations)
        /\ \A i \in DOMAIN n.queue : n.queue[i] \in Operations
    BY <1>22, <2>1, <1>12, <1>16, PageFacts
  <2>3. ASSUME NEW s \in Records, s # NoRecord, held'[s.key] \subseteq { u }, db[s.key] = s
        PROVE  s.key # k
    <3>1. SUFFICES ASSUME s.key = k PROVE FALSE
      OBVIOUS
    <3>2. op.kind = "delete"
      BY <1>9, <1>14, <1>22, <2>3, <3>1
    <3>3. db[r.key].rev = r.rev /\ db[r.key] # NoRecord /\ held' = held
      BY <1>8, <1>14, <2>3, <3>1, <3>2
    <3>4. t \in held[r.key]
      BY <1>1, <1>9, <3>3 DEF SenderInv, Holders
    <3> QED
      BY <1>8, <1>22, <2>3, <3>1, <3>3, <3>4
  <2>4. ASSUME NEW s \in Records, s # NoRecord, Alone(u, s)' PROVE held'[s.key] \subseteq { u } /\ Alone(u, s)
    <3>1. held'[s.key] \subseteq { u } /\ s.key \in Streams
      BY <2>4, RecordFacts DEF Alone
    <3>2. s.key # k \/ op.kind = "delete"
      BY <1>9, <1>14, <1>22, <3>1
    <3> QED
      BY <1>14, <3>1, <3>2 DEF Alone
  <2>5. n.session # NoRecord /\ Alone(u, n.session)' => db'[n.stream] = n.session \/ Replaced(n)'
    <3>1. SUFFICES ASSUME n.session # NoRecord, Alone(u, n.session)'
                   PROVE  db'[n.stream] = n.session \/ Replaced(n)'
      OBVIOUS
    <3>2. /\ Alone(u, n.session) /\ held'[n.session.key] \subseteq { u }
          /\ n.session.key = n.stream /\ n.stream \in Streams
      BY <2>2, <2>4, <3>1, RecordFacts DEF PageOk
    <3>3. CASE db[n.stream] = n.session
      BY <2>2, <2>3, <3>1, <3>2, <3>3, <1>13
    <3>4. CASE db[n.stream] # n.session
      <4>1. Replaced(n)
        BY <2>2, <3>1, <3>2, <3>4 DEF Backed
      <4>2. PICK i \in DOMAIN n.queue :
              /\ FreshSave(n.queue[i], "verify") /\ n.queue[i].result = "done"
              /\ n.queue[i].rec = db[n.stream]
        BY <4>1 DEF Replaced
      <4>3. /\ n.queue[i].rec \in Records /\ n.queue[i].rec # NoRecord
            /\ n.queue[i].rec.key = n.stream
        BY <2>2, <4>2, OperationFacts DEF PageOk, OpOk
      <4>4. n.stream # k
        BY <2>3, <3>2, <4>2, <4>3
      <4>5. db'[n.stream] = db[n.stream]
        BY <1>13, <3>2, <4>4
      <4> QED
        BY <4>2, <4>5 DEF Replaced
    <3> QED
      BY <3>3, <3>4
  <2>6. ASSUME NEW i \in DOMAIN n.queue, FreshSave(n.queue[i], "prepare"),
               n.queue[i].result = "done", Alone(u, n.queue[i].rec)'
        PROVE  db'[n.queue[i].rec.key] = n.queue[i].rec
    <3>1. n.queue[i].rec \in Records /\ n.queue[i].rec # NoRecord
      BY <2>2, OperationFacts DEF PageOk, OpOk
    <3>2. Alone(u, n.queue[i].rec) /\ held'[n.queue[i].rec.key] \subseteq { u }
      BY <2>4, <2>6, <3>1
    <3>3. db[n.queue[i].rec.key] = n.queue[i].rec
      BY <2>2, <2>6, <3>2 DEF Backed
    <3>4. n.queue[i].rec.key # k
      BY <2>3, <3>1, <3>2, <3>3
    <3> QED
      BY <3>1, <3>3, <3>4, <1>13, RecordFacts
  <2>7. ASSUME NEW i \in DOMAIN n.queue, FreshSave(n.queue[i], "verify"), n.queue[i].result = "done"
        PROVE  db'[n.queue[i].rec.key] # n.session
    <3>1. /\ n.session # NoRecord /\ n.queue[i].rec \in Records /\ n.queue[i].rec # NoRecord
      BY <2>2, <2>7, OperationFacts DEF PageOk, OpOk
    <3>2. db[n.queue[i].rec.key] # n.session
      BY <2>2, <2>7 DEF Backed
    <3>3. stored # n.session
      <4>1. n.session \in Known(page[u])
        BY <2>1 DEF Known
      <4> QED
        BY <4>1, <3>1, <1>1, <1>6, <1>7, <1>9, <1>22, OnlySaver
    <3> QED
      BY <3>1, <3>2, <3>3, <1>13, RecordFacts
  <2>8. n.phase = "restoring" /\ n.loaded # NoRecord /\ n.queue = << >> /\ Alone(u, n.loaded)' =>
          db'[n.loaded.key] = n.loaded
    <3>1. SUFFICES ASSUME n.phase = "restoring", n.loaded # NoRecord, n.queue = << >>,
                          Alone(u, n.loaded)'
                   PROVE  db'[n.loaded.key] = n.loaded
      OBVIOUS
    <3>2. Alone(u, n.loaded) /\ held'[n.loaded.key] \subseteq { u } /\ n.loaded.key \in Streams
      BY <2>2, <2>4, <3>1, RecordFacts
    <3>3. db[n.loaded.key] = n.loaded
      BY <2>2, <3>1, <3>2 DEF Backed
    <3> QED
      BY <2>2, <2>3, <3>1, <3>2, <3>3, <1>13
  <2>9. Backed(u, n)'
    BY <2>5, <2>6, <2>7, <2>8 DEF Backed
  <2>10. page'[u] = n
    BY <2>2
  <2> QED
    BY <2>9, <2>10, SMTT(61) DEF Backed, Alone, Replaced
<1>23. Backed(t, page[t])'
  <2>1. /\ o.session \in Records /\ o.stream \in Streams \cup { 0 } /\ o.queue \in Seq(Operations)
        /\ \A i \in DOMAIN o.queue : OpOk(o, o.queue[i]) /\ o.queue[i].rec \in Records
      BY <1>2, PageFacts, OperationFacts DEF PageOk
  <2>2. \A i \in DOMAIN o.queue : i # 1 => Apart(o.queue[i], op)
    BY <1>2, <1>6 DEF PageOk
  <2>3. stored # o.session \/ o.session = NoRecord
    <3>1. o.session \in Known(page[t])
      BY <1>1 DEF Known
    <3>2. o.session # r \/ op.kind = "delete"
      BY <1>1, <1>2, <1>5, <1>6, <1>7, <1>9 DEF PageIssued
    <3> QED
      BY <3>2, <1>9
  <2>4. p.session # NoRecord /\ Alone(t, p.session)' => db'[p.stream] = p.session \/ Replaced(p)'
    <3>1. SUFFICES ASSUME o.session # NoRecord, Alone(t, o.session)'
                   PROVE  db'[o.stream] = o.session \/ Replaced(p)'
      BY <1>5
    <3>2. /\ o.session.key = o.stream /\ o.stream \in Streams
          /\ o.phase \in { "testing", "verified" }
      BY <1>2, <2>1, <3>1, PageFacts, RecordFacts DEF PageOk
    <3>3. CASE o.stream = k
      <4>1. op.kind = "save" /\ op.fresh
        BY <1>7, <1>8, <1>9, <3>3 DEF OpOk
      <4>2. FreshSave(op, "verify")
        BY <1>9, <3>2, <4>1 DEF OpOk, FreshSave
      <4>3. FreshSave(p.queue[1], "verify") /\ p.queue[1].result = "done" /\ p.queue[1].rec = r
        BY <1>2, <1>5, <1>6, <1>7, <4>2 DEF FreshSave
      <4>4. db'[p.stream] = r
        BY <1>5, <1>9, <1>13, <3>3, <4>1
      <4> QED
        BY <1>2, <1>5, <4>3, <4>4 DEF Replaced
    <3>4. CASE o.stream # k
      <4>1. db'[o.stream] = db[o.stream] /\ Alone(t, o.session)
        BY <1>13, <1>14, <3>1, <3>2, <3>4 DEF Alone
      <4>2. CASE Replaced(o)
        <5>1. PICK i \in DOMAIN o.queue :
                /\ FreshSave(o.queue[i], "verify") /\ o.queue[i].result = "done"
                /\ o.queue[i].rec = db[o.stream]
          BY <4>2 DEF Replaced
        <5>2. /\ FreshSave(p.queue[i], "verify") /\ p.queue[i].result = "done"
              /\ p.queue[i].rec = db'[p.stream] /\ i \in DOMAIN p.queue
          BY <1>2, <1>5, <4>1, <5>1 DEF FreshSave
        <5> QED
          BY <5>2 DEF Replaced
      <4> QED
        BY <1>2, <3>1, <4>1, <4>2 DEF Backed
    <3> QED
      BY <3>3, <3>4
  <2>5. ASSUME NEW i \in DOMAIN p.queue, FreshSave(p.queue[i], "prepare"),
               p.queue[i].result = "done", Alone(t, p.queue[i].rec)'
        PROVE  db'[p.queue[i].rec.key] = p.queue[i].rec
    <3>1. i \in DOMAIN o.queue /\ FreshSave(o.queue[i], "prepare") /\ p.queue[i].rec = o.queue[i].rec
      BY <1>5, <2>5 DEF FreshSave
    <3>2. CASE i = 1
      <4>1. op.kind = "save"
        BY <1>6, <1>9, <3>1, <3>2 DEF OpOk, FreshSave
      <4> QED
        BY <1>6, <1>7, <1>8, <1>9, <1>13, <3>1, <3>2, <4>1
    <3>3. CASE i # 1
      <4>1. o.queue[i].rec.key # k
        BY <1>7, <1>8, <2>2, <3>1, <3>3 DEF Apart
      <4>2. o.queue[i].rec.key \in Streams /\ o.queue[i].result = "done"
        BY <1>5, <2>1, <2>5, <3>1, <3>3, RecordFacts DEF OpOk
      <4>3. Alone(t, o.queue[i].rec) /\ db'[o.queue[i].rec.key] = db[o.queue[i].rec.key]
        BY <1>13, <1>14, <2>5, <3>1, <4>1, <4>2 DEF Alone
      <4> QED
        BY <1>2, <3>1, <4>2, <4>3 DEF Backed
    <3> QED
      BY <3>2, <3>3
  <2>6. ASSUME NEW i \in DOMAIN p.queue, FreshSave(p.queue[i], "verify"), p.queue[i].result = "done"
        PROVE  db'[p.queue[i].rec.key] # p.session
    <3>1. /\ i \in DOMAIN o.queue /\ FreshSave(o.queue[i], "verify")
          /\ p.queue[i].rec = o.queue[i].rec /\ p.session = o.session
      BY <1>5, <2>6 DEF FreshSave
    <3>2. o.session # NoRecord /\ o.queue[i].rec.key \in Streams
      BY <2>1, <3>1, RecordFacts DEF OpOk
    <3>3. CASE o.queue[i].rec.key = k
      BY <1>13, <2>3, <3>1, <3>2, <3>3
    <3>4. CASE o.queue[i].rec.key # k
      <4>1. i # 1 /\ o.queue[i].result = "done"
        BY <1>5, <1>6, <1>7, <1>8, <2>6, <3>1, <3>4
      <4>2. db'[o.queue[i].rec.key] = db[o.queue[i].rec.key]
        BY <1>13, <3>2, <3>4
      <4> QED
        BY <1>2, <3>1, <4>1, <4>2 DEF Backed
    <3> QED
      BY <3>3, <3>4
  <2>7. Backed(t, p)'
    BY <1>5, <2>4, <2>5, <2>6 DEF Backed
  <2> QED
    BY <1>12, <2>7 DEF Backed, Alone, Replaced
<1>24. AllBacked'
  BY <1>22, <1>23 DEF AllBacked
<1>25. Owned'
  <2>1. ASSUME NEW u \in Tabs, page'[u].phase = "restoring", page'[u].queue # << >>
        PROVE  budget'.failures < MaxFailures
    BY <2>1, <1>1, <1>2, <1>5, <1>10, <1>12 DEF SenderInv, Owned
  <2>2. ASSUME ~cut', budget'.failures = MaxFailures, NEW j \in Streams, db'[j] # NoRecord
        PROVE  \E u \in Tabs : Answers(page[u], j)'
    <3>1. CASE j = k
      <4>1. stored = r /\ op.kind = "save" /\ db'[j] = r
        BY <1>9, <1>13, <2>2, <3>1
      <4>2. p.queue[1].rec = r /\ p.queue[1].result = "done" /\ p.queue[1].kind = "save"
        BY <1>2, <1>5, <1>6, <1>7, <4>1
      <4>3. Answers(page[t], j)'
        BY <1>2, <1>5, <1>12, <4>1, <4>2 DEF Answers
      <4> QED
        BY <4>3
    <3>2. CASE j # k
      <4>1. db'[j] = db[j] /\ db[j] # NoRecord /\ db[j].key = j
        BY <1>13, <2>2, <3>2 DEF SenderInv, DbOk
      <4>2. PICK u \in Tabs : Answers(page[u], j)
        BY <1>10, <2>2, <4>1 DEF SenderInv, Owned
      <4>3. CASE u # t
        <5>1. Answers(page[u], j)'
          BY <1>12, <4>1, <4>2, <4>3 DEF Answers
        <5> QED
          BY <5>1
      <4>4. CASE u = t
        <5>1. Answers(o, j)
          BY <1>1, <4>2, <4>4
        <5>2. ASSUME NEW i \in DOMAIN o.queue, o.queue[i].rec = db[j] PROVE i # 1
          BY <1>6, <1>7, <1>8, <3>2, <4>1, <5>2
        <5>3. Answers(p, j)
          BY <1>5, <5>1, <5>2 DEF Answers
        <5>4. Answers(page[t], j)'
          BY <1>12, <4>1, <5>3 DEF Answers
        <5> QED
          BY <5>4
      <4> QED
        BY <4>3, <4>4
    <3> QED
      BY <3>1, <3>2
  <2> QED
    BY <2>1, <2>2 DEF Owned
<1> QED
  BY <1>15, <1>17, <1>19, <1>20, <1>21, <1>24, <1>25 DEF SenderInv

LEMMA TransactionKeeps ==
  ASSUME SenderInv, NEW t \in Tabs, Transaction(t)
  PROVE  SenderInv'
<1>1. PICK op \in Operations : op = page[t].queue[1]
  BY PendingFacts DEF Transaction
<1>2. PICK k \in Streams : k = op.rec.key
  BY <1>1, PendingFacts DEF Transaction
<1>3. /\ Pending(t) /\ UNCHANGED << World, next, budget >>
      /\ op = Head(page[t].queue) /\ op.rec \in Records /\ op.rec # NoRecord
      /\ IF op.kind = "save" THEN SaveTransaction(t, op) ELSE DeleteTransaction(t, op)
  BY <1>1, PendingFacts DEF Transaction
<1>4. /\ op.kind \in { "save", "delete" } /\ db \in [ Streams -> Records ]
      /\ { j \in Streams : db[j] # NoRecord } = { newest[i] : i \in DOMAIN newest }
  BY OperationFacts DEF SenderInv, TypeInv
<1>5. PICK w \in Seq(Streams) :
        /\ w = Without(k)
        /\ { w[i] : i \in DOMAIN w } = { j \in Streams : db[j] # NoRecord } \ { k }
        /\ \A i, j \in DOMAIN w : w[i] = w[j] => i = j
  <2>1. TypeInv
    BY DEF SenderInv
  <2> QED
    BY <1>4, <2>1, WithoutFacts
<1>6. CASE op.kind = "save" /\ ~(op.over = 0 \/ db[k].rev = op.over)
  <2>1. Settle(t, "failed") /\ UNCHANGED << Storage, World, next >> /\ UNCHANGED budget
    BY <1>2, <1>3, <1>6 DEF SaveTransaction
  <2>2. page[t].queue[1].kind # "delete"
    BY <1>1, <1>6
  <2> QED
    BY <1>3, <2>1, <2>2, QuietSettleKeeps
<1>7. CASE op.kind = "delete" /\ ~(db[k] = NoRecord \/ db[k].rev = op.rec.rev)
  <2>1. Settle(t, "changed") /\ UNCHANGED << Storage, World, next >> /\ UNCHANGED budget
    BY <1>2, <1>3, <1>7 DEF DeleteTransaction
  <2>2. db[page[t].queue[1].rec.key].rev # page[t].queue[1].rec.rev
    BY <1>1, <1>2, <1>7
  <2> QED
    BY <1>3, <2>1, <2>2, QuietSettleKeeps
<1>8. CASE op.kind = "save" /\ (op.over = 0 \/ db[k].rev = op.over)
  <2>1. /\ db' = [ db EXCEPT ![k] = op.rec ] /\ held' = [ held EXCEPT ![k] = { t } ]
        /\ newest' = Append(w, k) /\ Settle(t, "done")
    BY <1>2, <1>3, <1>5, <1>8 DEF SaveTransaction
  <2>2. Stores(t, page[t].queue[1], op.rec)
    BY <1>1, <1>2, <1>8, <2>1 DEF Stores
  <2>3. db' = [ db EXCEPT ![page[t].queue[1].rec.key] = op.rec ]
    BY <1>1, <1>2, <2>1
  <2>4. /\ newest' \in Seq(Streams) /\ DOMAIN newest' = 1 .. Len(w) + 1 /\ DOMAIN w = 1 .. Len(w)
        /\ Len(w) \in Nat /\ newest'[Len(w) + 1] = k /\ \A i \in DOMAIN w : newest'[i] = w[i]
    BY <2>1, AppendFacts
  <2>5. \A i \in DOMAIN newest' : (i \in DOMAIN w /\ newest'[i] = w[i] /\ w[i] # k)
                                  \/ (i = Len(w) + 1 /\ newest'[i] = k)
    BY <1>5, <2>4
  <2>6. \A i, j \in DOMAIN newest' : newest'[i] = newest'[j] => i = j
    BY <1>5, <2>5
  <2>7. { j \in Streams : db'[j] # NoRecord } = { newest'[i] : i \in DOMAIN newest' }
    <3>1. { j \in Streams : db'[j] # NoRecord } = { j \in Streams : db[j] # NoRecord } \cup { k }
      BY <1>3, <1>4, <2>1
    <3>2. { newest'[i] : i \in DOMAIN newest' } = { w[i] : i \in DOMAIN w } \cup { k }
      <4>1. DOMAIN w \subseteq DOMAIN newest' /\ Len(w) + 1 \in DOMAIN newest'
        BY <2>4
      <4> QED
        BY <2>4, <2>5, <4>1
    <3> QED
      BY <1>5, <3>1, <3>2
  <2> QED
    BY <1>3, <2>1, <2>2, <2>3, <2>4, <2>6, <2>7, StoreKeeps
<1>9. CASE op.kind = "delete" /\ (db[k] = NoRecord \/ db[k].rev = op.rec.rev)
  <2>1. /\ db' = [ db EXCEPT ![k] = NoRecord ] /\ held' = held
        /\ newest' = w /\ Settle(t, "done")
    BY <1>2, <1>3, <1>5, <1>9 DEF DeleteTransaction, Deleted
  <2>2. Stores(t, page[t].queue[1], NoRecord)
    BY <1>1, <1>2, <1>9, <2>1 DEF Stores
  <2>3. db' = [ db EXCEPT ![page[t].queue[1].rec.key] = NoRecord ]
    BY <1>1, <1>2, <2>1
  <2>4. { j \in Streams : db'[j] # NoRecord } = { newest'[i] : i \in DOMAIN newest' }
    BY <1>4, <1>5, <2>1
  <2>5. /\ newest' \in Seq(Streams)
        /\ \A i, j \in DOMAIN newest' : newest'[i] = newest'[j] => i = j
    BY <1>5, <2>1
  <2> QED
    BY <1>3, <2>1, <2>2, <2>3, <2>4, <2>5, StoreKeeps
<1> QED
  BY <1>4, <1>6, <1>7, <1>8, <1>9

-----------------------------------------------------------------------------
(* The page goes on when its first storage call returns.                    *)

Returned(t, o, op, r) ==
  /\ o = page[t] /\ o \in Pages /\ PageOk(o) /\ PageIssued(o) /\ Backed(t, o)
  /\ o.queue # << >> /\ 1 \in DOMAIN o.queue /\ op = o.queue[1]
  /\ op \in Operations /\ OpOk(o, op) /\ op.result # "none"
  /\ op.rec \in Records /\ op.rec # NoRecord /\ op.rec.key \in Streams /\ op.rec \in Known(o)
  /\ RecordOk(op.rec)
  /\ r \in Pages /\ PageOk(r) /\ r.queue = Tail(o.queue)
  /\ r.phase = o.phase /\ r.stream = o.stream /\ r.session = o.session /\ r.loaded = o.loaded
  /\ r.key = o.key /\ r.check = o.check /\ r.gone = o.gone
  /\ Known(r) \subseteq Known(o) /\ Awaited(r) \subseteq Awaited(o)
  /\ \A i \in DOMAIN r.queue : Apart(op, r.queue[i]) /\ Apart(r.queue[i], op)
  /\ \A i \in DOMAIN r.queue : i + 1 \in DOMAIN o.queue /\ r.queue[i] = o.queue[i + 1]
  /\ \A i \in DOMAIN o.queue : i = 1 \/ \E j \in DOMAIN r.queue : r.queue[j] = o.queue[i]
  /\ op.rec.rev \notin Awaited(r)
  /\ o.phase = "restoring" => r.queue = << >>

LEMMA ReturnFacts ==
  ASSUME SenderInv, NEW t \in Tabs, Return(t),
         NEW o, o = page[t], NEW op, op = Head(o.queue),
         NEW r, r = [ o EXCEPT !.queue = Tail(@) ]
  PROVE  Returned(t, o, op, r)
<1>1. /\ o \in Pages /\ PageOk(o) /\ PageIssued(o) /\ Backed(t, o)
      /\ o.queue # << >> /\ op.result # "none"
  BY TabFacts DEF Return
<1>2. PICK q \in Seq(Operations) : q = o.queue
  BY <1>1, PageFacts
<1>3. /\ 1 \in DOMAIN q /\ Head(q) = q[1] /\ q[1] \in Operations
      /\ \A i \in DOMAIN q : i = 1 \/ (i - 1 \in DOMAIN Tail(q) /\ Tail(q)[i - 1] = q[i])
  BY <1>1, <1>2, TailFacts
<1>4. /\ r \in Pages /\ PageOk(r) /\ r.queue = Tail(o.queue)
      /\ r.phase = o.phase /\ r.stream = o.stream /\ r.session = o.session /\ r.loaded = o.loaded
      /\ r.key = o.key /\ r.check = o.check /\ r.gone = o.gone
      /\ Known(r) \subseteq Known(o) /\ Awaited(r) \subseteq Awaited(o)
      /\ op \in Operations /\ OpOk(o, op) /\ op.rec \in Known(o)
      /\ \A i \in DOMAIN r.queue : Apart(op, r.queue[i]) /\ Apart(r.queue[i], op)
      /\ \A i \in DOMAIN r.queue : i + 1 \in DOMAIN o.queue /\ r.queue[i] = o.queue[i + 1]
      /\ o.phase = "restoring" => r.queue = << >>
  <2>1. r = Tailed(o)
    BY DEF Tailed
  <2>2. IsTailed(r, o)
    BY <1>1, <2>1, TailOk
  <2> QED
    BY <2>2 DEF IsTailed
<1>5. /\ op.rec \in Records /\ op.rec # NoRecord /\ RecordOk(op.rec) /\ op.rec.key \in Streams
  BY <1>1, <1>4, OperationFacts, RecordFacts DEF OpOk, PageIssued
<1>6. op.rec.rev \notin Awaited(r)
  BY <1>4 DEF Awaited, Apart
<1>7. \A i \in DOMAIN o.queue : i = 1 \/ \E j \in DOMAIN r.queue : r.queue[j] = o.queue[i]
  <2>1. r.queue = Tail(q)
    BY <1>2, <1>4
  <2>2. ASSUME NEW i \in DOMAIN q, i # 1 PROVE \E j \in DOMAIN Tail(q) : Tail(q)[j] = q[i]
    <3>1. i - 1 \in DOMAIN Tail(q) /\ Tail(q)[i - 1] = q[i]
      BY <1>3, <2>2
    <3> QED
      BY <3>1
  <2> QED
    BY <1>2, <2>1, <2>2
<1>8. 1 \in DOMAIN o.queue /\ op = o.queue[1]
  BY <1>2, <1>3
<1> QED
  BY <1>1, <1>4, <1>5, <1>6, <1>7, <1>8 DEF Returned

(* What its caller was doing it for is over, or was only to tidy up.        *)
Idle(op) == ~(op.fresh /\ op.then \in { "prepare", "verify" })

LEMMA IdleReturn ==
  ASSUME SenderInv, NEW t \in Tabs, NEW o, NEW op, NEW r, Returned(t, o, op, r), Idle(op)
  PROVE  PageIssued(r) /\ (op.then # "invalid" => Backed(t, r))
<1>1. PageIssued(r)
  BY DEF Returned, PageIssued
<1>2. \A i \in DOMAIN o.queue : FreshSave(o.queue[i], "prepare") \/ FreshSave(o.queue[i], "verify") =>
        \E j \in DOMAIN r.queue : r.queue[j] = o.queue[i]
  BY DEF Returned, Idle, FreshSave
<1>3. ASSUME op.then # "invalid" PROVE Backed(t, r)
  <2>1. /\ Backed(t, o) /\ r.phase = o.phase /\ r.session = o.session /\ r.stream = o.stream
        /\ r.phase # "restoring"
        /\ \A i \in DOMAIN r.queue : i + 1 \in DOMAIN o.queue /\ r.queue[i] = o.queue[i + 1]
    BY <1>3 DEF Returned, OpOk
  <2>2. Replaced(o) => Replaced(r)
    BY <1>2, <2>1 DEF Replaced
  <2>3. r.session # NoRecord /\ Alone(t, r.session) => db[r.stream] = r.session \/ Replaced(r)
    BY <2>1, <2>2 DEF Backed
  <2>4. \A i \in DOMAIN r.queue :
          /\ FreshSave(r.queue[i], "prepare") /\ r.queue[i].result = "done"
             /\ Alone(t, r.queue[i].rec) => db[r.queue[i].rec.key] = r.queue[i].rec
          /\ FreshSave(r.queue[i], "verify") /\ r.queue[i].result = "done" =>
               db[r.queue[i].rec.key] # r.session
    BY <2>1 DEF Backed
  <2> QED
    BY <2>1, <2>3, <2>4 DEF Backed
<1> QED
  BY <1>1, <1>3

(* A save that nobody waits for any more takes its record back.             *)
LEMMA TakenBackKeeps ==
  ASSUME SenderInv, NEW t \in Tabs, NEW o, NEW op, NEW r, Returned(t, o, op, r),
         op.then \in { "prepare", "verify" }, ~op.fresh, op.result = "done",
         page' = [ page EXCEPT ![t] = Enqueue(r, Deletion(op.rec, "cleanup")) ],
         UNCHANGED << Storage, World, next, budget >>
  PROVE  SenderInv'
<1>1. PICK d : d = Deletion(op.rec, "cleanup")
  OBVIOUS
<1>2. /\ d \in Operations /\ d.rec = op.rec /\ d.kind = "delete" /\ d.then = "cleanup"
      /\ d.result = "none" /\ d.fresh
  BY <1>1 DEF Deletion, Op, Operations, Returned
<1>3. /\ r \in Pages /\ PageOk(r) /\ r.phase = o.phase /\ r.phase # "restoring"
      /\ r.stream = o.stream /\ op.rec.key # r.stream /\ op.rec # NoRecord
      /\ op.rec.rev \notin Awaited(r) /\ OpOk(o, op)
  BY DEF Returned, OpOk
<1>4. OpOk(r, d)
  BY <1>2, <1>3 DEF OpOk, FreshSave
<1>5. \A i \in DOMAIN r.queue : Apart(r.queue[i], d) /\ Apart(d, r.queue[i])
  <2> SUFFICES ASSUME NEW i \in DOMAIN r.queue PROVE Apart(r.queue[i], d) /\ Apart(d, r.queue[i])
    OBVIOUS
  <2>1. PICK a : a = r.queue[i]
    OBVIOUS
  <2>2. Apart(a, op)
    BY <2>1 DEF Returned
  <2> QED
    BY <1>2, <2>1, <2>2 DEF Apart, FreshSave, Awaits
<1>6. PICK p : p = Enqueue(r, d)
  OBVIOUS
<1>7. ~Awaits(d) /\ ~FreshSave(d, "verify")
  BY <1>2 DEF Awaits, FreshSave
<1>8. /\ p \in Pages /\ PageOk(p) /\ Known(p) = Known(r) \cup { d.rec } /\ Awaited(p) = Awaited(r)
  BY <1>2, <1>3, <1>4, <1>5, <1>6, <1>7, EnqueueOk
<1>9. /\ p.phase = r.phase /\ p.stream = r.stream /\ p.session = r.session /\ p.loaded = r.loaded
      /\ p.key = r.key /\ p.check = r.check /\ p.gone = r.gone /\ p.queue = Append(r.queue, d)
  BY <1>3, <1>6 DEF Enqueue, Pages
<1>10. /\ \A i \in DOMAIN r.queue : i \in DOMAIN p.queue /\ p.queue[i] = r.queue[i]
       /\ \A i \in DOMAIN p.queue : p.queue[i] = d \/ (i \in DOMAIN r.queue /\ p.queue[i] = r.queue[i])
       /\ p.queue # << >> /\ \E i \in DOMAIN p.queue : p.queue[i] = d
  <2>1. PICK q \in Seq(Operations) : q = r.queue
    BY <1>3, PageFacts
  <2>2. /\ \A i \in DOMAIN q : i \in DOMAIN Append(q, d) /\ Append(q, d)[i] = q[i]
        /\ \A i \in DOMAIN Append(q, d) :
             Append(q, d)[i] = d \/ (i \in DOMAIN q /\ Append(q, d)[i] = q[i])
    BY <1>2, AppendMembers
  <2>3. /\ Append(q, d) # << >> /\ Append(q, d)[Len(q) + 1] = d
        /\ Len(q) + 1 \in DOMAIN Append(q, d)
    BY <1>2, AppendFacts
  <2> QED
    BY <1>9, <2>1, <2>2, <2>3
<1>11. PageIssued(r) /\ Backed(t, r)
  BY IdleReturn DEF Idle
<1>12. /\ op.rec \in Known(o) /\ Known(r) \subseteq Known(o) /\ Awaited(r) \subseteq Awaited(o)
       /\ o = page[t] /\ RecordOk(op.rec)
  BY DEF Returned
<1>13. PageIssued(p)
  BY <1>2, <1>8, <1>9, <1>11, <1>12 DEF PageIssued
<1>14. Backed(t, p)
  <2>1. Longer(r, p, d)
    BY <1>2, <1>9, <1>10 DEF Longer
  <2> QED
    BY <1>11, <2>1, LongerQueue
<1>15. ASSUME NEW k \in Streams, Answers(o, k) PROVE Answers(p, k)
  <2>1. CASE \E i \in DOMAIN r.queue : /\ r.queue[i].rec = db[k]
               /\ r.queue[i].result = IF r.queue[i].kind = "save" THEN "done" ELSE "none"
    BY <2>1, <1>10 DEF Answers
  <2>2. CASE op.rec = db[k]
    BY <2>2, <1>2, <1>10 DEF Answers
  <2>3. o.session = r.session /\ o.phase # "restoring"
    BY <1>3 DEF Returned
  <2>4. \A i \in DOMAIN o.queue : o.queue[i] = op \/ \E j \in DOMAIN r.queue : r.queue[j] = o.queue[i]
    BY DEF Returned
  <2> QED
    BY <1>9, <1>15, <2>1, <2>2, <2>3, <2>4 DEF Answers
<1>16. page' = [ page EXCEPT ![t] = p ]
  BY <1>1, <1>6
<1> QED
  BY <1>2, <1>3, <1>8, <1>9, <1>12, <1>13, <1>14, <1>15, <1>16, QuietStepKeeps

(* Nothing more to do; the key of the tab may be forgotten.                 *)
IsTidied(p, r, op) ==
  /\ p.phase = r.phase /\ p.stream = r.stream /\ p.session = r.session /\ p.loaded = r.loaded
  /\ p.check = r.check /\ p.gone = r.gone /\ p.queue = r.queue
  /\ p.key = r.key \/ (op.kind = "delete" /\ r.key = op.rec.key)

LEMMA TidiedKeeps ==
  ASSUME SenderInv, NEW t \in Tabs, NEW o, NEW op, NEW r, Returned(t, o, op, r), Idle(op),
         op.then # "invalid", op.result = "done" => op.kind = "delete",
         NEW p \in Pages, page' = [ page EXCEPT ![t] = p ],
         UNCHANGED << Storage, World, next, budget >>, IsTidied(p, r, op)
  PROVE  SenderInv'
<1> USE DEF IsTidied
<1>1. /\ o = page[t] /\ PageOk(r) /\ OpOk(o, op) /\ op.result # "none" /\ op \in Operations
      /\ r.phase = o.phase /\ r.stream = o.stream /\ r.session = o.session
      /\ Known(r) \subseteq Known(o) /\ Awaited(r) \subseteq Awaited(o) /\ o.phase # "restoring"
      /\ \A i \in DOMAIN o.queue : o.queue[i] = op \/ \E j \in DOMAIN r.queue : r.queue[j] = o.queue[i]
  BY DEF Returned, OpOk
<1>2. PageOk(p)
  <2>1. r.session # NoRecord => p.key = r.stream
    BY <1>1 DEF PageOk, OpOk
  <2> QED
    BY <1>1, <2>1 DEF PageOk, OpOk
<1>3. PageIssued(r) /\ Backed(t, r)
  BY IdleReturn
<1>4. Known(p) = Known(r) /\ Awaited(p) = Awaited(r)
  BY DEF Known, Awaited
<1>5. PageIssued(p)
  BY <1>3, <1>4 DEF PageIssued
<1>6. Backed(t, p)
  BY <1>3 DEF Backed, Replaced
<1>7. ASSUME NEW k \in Streams, Answers(o, k) PROVE Answers(p, k)
  <2>1. op.result # IF op.kind = "save" THEN "done" ELSE "none"
    BY <1>1
  <2> QED
    BY <1>1, <1>7, <2>1 DEF Answers
<1> QED
  BY <1>1, <1>2, <1>4, <1>5, <1>6, <1>7, QuietStepKeeps

(* The restoration failed: the page starts empty.                           *)
LEMMA InvalidKeeps ==
  ASSUME SenderInv, NEW t \in Tabs, NEW o, NEW op, NEW r, Returned(t, o, op, r),
         op.then = "invalid",
         NEW p \in Pages, page' = [ page EXCEPT ![t] = p ],
         UNCHANGED << Storage, World, next, budget >>,
         p.phase = "empty", p.stream = r.stream, p.session = r.session, p.loaded = r.loaded,
         p.check = r.check, p.gone = r.gone, p.queue = r.queue
  PROVE  SenderInv'
<1>1. /\ o = page[t] /\ PageOk(r) /\ r.phase = "restoring" /\ r.queue = << >> /\ o.queue # << >>
      /\ Known(r) \subseteq Known(o) /\ Awaited(r) \subseteq Awaited(o) /\ o.phase = "restoring"
  BY DEF Returned, OpOk
<1>2. DOMAIN r.queue = {}
  BY <1>1
<1>3. r.stream = 0 /\ r.session = NoRecord /\ r.check = NoCheck
  BY <1>1 DEF PageOk
<1>4. PageOk(p) /\ Known(p) = Known(r) /\ Awaited(p) = Awaited(r)
  BY <1>1, <1>2, <1>3 DEF PageOk, Known, Awaited
<1>5. PageIssued(p)
  <2>1. PageIssued(r)
    BY DEF Returned, PageIssued
  <2> QED
    BY <1>4, <2>1 DEF PageIssued
<1>6. Backed(t, p)
  BY <1>2, <1>3 DEF Backed
<1>7. budget.failures < MaxFailures
  BY <1>1 DEF SenderInv, Owned
<1> QED
  BY <1>1, <1>4, <1>5, <1>6, <1>7, QuietStepKeeps

(* The stream is prepared and its dummy plays.                              *)
IsPrepared(p, r, op) ==
  /\ p.phase = "testing" /\ p.stream = op.rec.key /\ p.loaded = r.loaded /\ p.check = r.check
  /\ p.gone = r.gone /\ p.queue = r.queue
  /\ op.result = "done" => p.session = op.rec /\ p.key = op.rec.key
  /\ op.result # "done" => p.session = NoRecord

LEMMA PreparedKeeps ==
  ASSUME SenderInv, NEW t \in Tabs, NEW o, NEW op, NEW r, Returned(t, o, op, r),
         FreshSave(op, "prepare"),
         NEW p \in Pages, page' = [ page EXCEPT ![t] = p ],
         UNCHANGED << Storage, World, next, budget >>, IsPrepared(p, r, op)
  PROVE  SenderInv'
<1> USE DEF IsPrepared
<1>1. /\ o = page[t] /\ PageOk(r) /\ r.phase = "preparing" /\ op.rec.key \notin r.gone
      /\ op.rec.key \in Streams /\ op.rec \in Records /\ op.rec # NoRecord /\ op.kind = "save"
      /\ r.phase = o.phase /\ r.session = o.session /\ r.loaded = o.loaded
      /\ Known(r) \subseteq Known(o) /\ Awaited(r) \subseteq Awaited(o) /\ op.rec \in Known(o)
      /\ op.rec.rev \notin Awaited(r) /\ RecordOk(op.rec) /\ op.result # "none"
      /\ PageIssued(o) /\ Backed(t, o) /\ 1 \in DOMAIN o.queue /\ op = o.queue[1]
  BY DEF Returned, OpOk, FreshSave
<1>2. r.session = NoRecord /\ r.check = NoCheck /\ r.stream = 0
  BY <1>1 DEF PageOk
<1>3. ASSUME NEW i \in DOMAIN r.queue
      PROVE  /\ ~FreshSave(r.queue[i], "prepare") /\ ~FreshSave(r.queue[i], "verify")
             /\ r.queue[i].rec.key # op.rec.key
  <2>1. Apart(op, r.queue[i]) /\ OpOk(r, r.queue[i])
    BY <1>1 DEF Returned, PageOk
  <2> QED
    BY <1>1, <2>1 DEF Apart, OpOk
<1>4. PageOk(p)
  <2>1. \A i \in DOMAIN p.queue : OpOk(p, p.queue[i])
    <3>1. \A i \in DOMAIN r.queue : OpOk(r, r.queue[i])
      BY <1>1 DEF PageOk
    <3> QED
      BY <1>1, <1>3, <3>1 DEF OpOk
  <2>2. p.session # NoRecord => p.session.key = p.stream /\ p.key = p.stream
    OBVIOUS
  <2>3. p.stream \in Streams \ p.gone
    BY <1>1
  <2>4. \A i, j \in DOMAIN p.queue : i # j => Apart(p.queue[i], p.queue[j])
    BY <1>1 DEF PageOk
  <2>5. p.check = NoCheck
    BY <1>2
  <2> QED
    BY <2>1, <2>2, <2>3, <2>4, <2>5 DEF PageOk
<1>5. Known(p) \subseteq Known(o) \cup { NoRecord } /\ Awaited(p) = Awaited(r)
      /\ p.session \in { op.rec, NoRecord }
  <2>1. Awaited(p) = Awaited(r)
    BY DEF Awaited
  <2>2. p.session \in { op.rec, NoRecord }
    OBVIOUS
  <2>3. Known(p) \subseteq Known(r) \cup { p.session }
    BY DEF Known
  <2> QED
    BY <1>1, <2>1, <2>2, <2>3
<1>6. PageIssued(p)
  <2>1. RecordOk(NoRecord) /\ 0 \notin Awaited(o)
    <3>1. RecordOk(NoRecord)
      BY RecordFacts DEF RecordOk, SenderInv, TypeInv
    <3> QED
      BY <1>1, <3>1, AwaitedIsKnown
  <2>2. \A s \in Known(p) : RecordOk(s)
    BY <1>1, <1>5, <2>1 DEF PageIssued
  <2>3. p.session.rev \notin Awaited(p) /\ p.loaded.rev \notin Awaited(p)
    BY <1>1, <1>5, <2>1, RecordFacts DEF PageIssued
  <2>4. p.gone \subseteq 1 .. next.stream - 1 /\ p.stream < next.stream
    BY <1>1 DEF PageIssued, RecordOk, Returned
  <2>5. p.check.code \in issued \cup { 0 }
    BY <1>2 DEF NoCheck
  <2> QED
    BY <2>2, <2>3, <2>4, <2>5 DEF PageIssued
<1>7. Backed(t, p)
  <2>1. ASSUME p.session # NoRecord, Alone(t, p.session) PROVE db[p.stream] = p.session
    <3>1. op.result = "done" /\ p.session = op.rec
      BY <2>1
    <3>2. db[op.rec.key] = op.rec
      BY <1>1, <2>1, <3>1 DEF Backed
    <3> QED
      BY <3>1, <3>2
  <2> QED
    BY <1>3, <2>1 DEF Backed
<1>8. ASSUME NEW k \in Streams, db[k] # NoRecord, Answers(o, k) PROVE Answers(p, k)
  <2>1. PICK i \in DOMAIN o.queue :
          /\ o.queue[i].rec = db[k]
          /\ o.queue[i].result = IF o.queue[i].kind = "save" THEN "done" ELSE "none"
    BY <1>1, <1>2, <1>8 DEF Answers
  <2>2. CASE i = 1
    BY <1>1, <2>1, <2>2 DEF Answers
  <2>3. CASE i # 1
    <3>1. \E j \in DOMAIN r.queue : r.queue[j] = o.queue[i]
      BY <2>3 DEF Returned
    <3> QED
      BY <2>1, <3>1 DEF Answers
  <2> QED
    BY <2>2, <2>3
<1> QED
  BY <1>1, <1>4, <1>5, <1>6, <1>7, <1>8, QuietStepKeeps

(* The receipt was right: the Files stream is unlocked.                     *)
IsVerified(p, r, op) ==
  /\ p.phase = "verified" /\ p.stream = r.stream /\ p.loaded = r.loaded /\ p.check = r.check
  /\ p.gone = r.gone /\ p.queue = r.queue
  /\ op.result = "done" => p.session = op.rec /\ p.key = op.rec.key
  /\ op.result # "done" => p.session = r.session /\ p.key = r.key

LEMMA VerifiedKeeps ==
  ASSUME SenderInv, NEW t \in Tabs, NEW o, NEW op, NEW r, Returned(t, o, op, r),
         FreshSave(op, "verify"),
         NEW p \in Pages, page' = [ page EXCEPT ![t] = p ],
         UNCHANGED << Storage, World, next, budget >>, IsVerified(p, r, op)
  PROVE  SenderInv'
<1> USE DEF IsVerified
<1>1. /\ o = page[t] /\ PageOk(r) /\ PageOk(o) /\ r.phase \in { "testing", "verified" }
      /\ op.rec.key = r.stream /\ op.then = "verify" /\ op.rec.phase = "verified"
      /\ op.rec.key \in Streams /\ op.rec \in Records /\ op.rec # NoRecord /\ op.kind = "save"
      /\ r.phase = o.phase /\ r.session = o.session /\ r.loaded = o.loaded /\ r.stream = o.stream
      /\ r.check = o.check /\ r.gone = o.gone /\ o.session # NoRecord
      /\ Known(r) \subseteq Known(o) /\ Awaited(r) \subseteq Awaited(o) /\ op.rec \in Known(o)
      /\ op.rec.rev \notin Awaited(r) /\ RecordOk(op.rec) /\ op.result # "none"
      /\ PageIssued(o) /\ Backed(t, o) /\ 1 \in DOMAIN o.queue /\ op = o.queue[1]
  BY DEF Returned, OpOk, FreshSave
<1>2. o.session.key = o.stream /\ o.key = o.stream /\ r.check = NoCheck
      /\ r.session.key = r.stream /\ r.key = r.stream
  BY <1>1 DEF PageOk
<1>3. \A i \in DOMAIN r.queue : ~FreshSave(r.queue[i], "prepare") /\ ~FreshSave(r.queue[i], "verify")
  <2> SUFFICES ASSUME NEW i \in DOMAIN r.queue
               PROVE  ~FreshSave(r.queue[i], "prepare") /\ ~FreshSave(r.queue[i], "verify")
    OBVIOUS
  <2>1. Apart(op, r.queue[i]) /\ OpOk(r, r.queue[i])
    BY <1>1 DEF Returned, PageOk
  <2> QED
    BY <1>1, <2>1 DEF Apart, OpOk
<1>4. PageOk(p)
  <2>1. \A i \in DOMAIN p.queue : OpOk(p, p.queue[i])
    <3>1. \A i \in DOMAIN r.queue : OpOk(r, r.queue[i])
      BY <1>1 DEF PageOk
    <3> QED
      BY <1>1, <1>3, <3>1 DEF OpOk
  <2>2. p.session # NoRecord => p.session.key = p.stream /\ p.key = p.stream
    BY <1>1, <1>2
  <2>3. p.stream \in Streams \ p.gone
    BY <1>1 DEF PageOk
  <2>4. \A i, j \in DOMAIN p.queue : i # j => Apart(p.queue[i], p.queue[j])
    BY <1>1 DEF PageOk
  <2>5. p.check = NoCheck
    BY <1>2
  <2> QED
    BY <2>1, <2>2, <2>3, <2>4, <2>5 DEF PageOk
<1>5. /\ Known(p) \subseteq Known(o) \cup { NoRecord } /\ Awaited(p) = Awaited(r)
      /\ p.session \in { op.rec, o.session }
  <2>1. Awaited(p) = Awaited(r)
    BY DEF Awaited
  <2>2. p.session \in { op.rec, o.session }
    BY <1>1
  <2>3. Known(p) \subseteq Known(r) \cup { p.session }
    BY DEF Known
  <2>4. o.session \in Known(o)
    BY DEF Known
  <2> QED
    BY <1>1, <2>1, <2>2, <2>3, <2>4
<1>6. PageIssued(p)
  <2>1. RecordOk(NoRecord)
    BY RecordFacts DEF RecordOk, SenderInv, TypeInv
  <2>2. \A s \in Known(p) : RecordOk(s)
    BY <1>1, <1>5, <2>1 DEF PageIssued
  <2>3. p.session.rev \notin Awaited(p) /\ p.loaded.rev \notin Awaited(p)
    BY <1>1, <1>5 DEF PageIssued
  <2>4. p.gone \subseteq 1 .. next.stream - 1 /\ p.stream < next.stream
    BY <1>1 DEF PageIssued
  <2>5. p.check.code \in issued \cup { 0 } /\ p.stream \in issued
    BY <1>1, <1>2 DEF NoCheck, RecordOk
  <2> QED
    BY <2>2, <2>3, <2>4, <2>5 DEF PageIssued
<1>7. ASSUME NEW i \in DOMAIN o.queue, FreshSave(o.queue[i], "verify") PROVE o.queue[i] = op
  <2>1. CASE i # 1
    <3>1. \E j \in DOMAIN r.queue : r.queue[j] = o.queue[i]
      BY <2>1 DEF Returned
    <3> QED
      BY <1>3, <1>7, <3>1
  <2> QED
    BY <1>1, <2>1
<1>8. Backed(t, p)
  <2>1. ASSUME p.session # NoRecord, Alone(t, p.session) PROVE db[p.stream] = p.session
    <3>1. Alone(t, o.session)
      BY <1>1, <1>2, <1>5, <2>1 DEF Alone
    <3>2. db[o.stream] = o.session \/ Replaced(o)
      BY <1>1, <3>1 DEF Backed
    <3>3. Replaced(o) => op.result = "done" /\ op.rec = db[o.stream]
      BY <1>7 DEF Replaced
    <3>4. op.result = "done" => db[o.stream] # o.session
      BY <1>1 DEF Backed
    <3> QED
      BY <1>1, <3>2, <3>3, <3>4
  <2> QED
    BY <1>3, <2>1 DEF Backed
<1>9. ASSUME NEW k \in Streams, db[k] # NoRecord, Answers(o, k) PROVE Answers(p, k)
  <2>1. CASE o.session = db[k]
    <3>1. o.stream = k
      BY <1>2, <1>9, <2>1 DEF SenderInv, DbOk
    <3>2. op.result # "done"
      BY <1>1, <2>1, <3>1 DEF Backed
    <3> QED
      BY <1>1, <2>1, <3>2 DEF Answers
  <2>2. CASE o.session # db[k]
    <3>1. PICK i \in DOMAIN o.queue :
            /\ o.queue[i].rec = db[k]
            /\ o.queue[i].result = IF o.queue[i].kind = "save" THEN "done" ELSE "none"
      BY <1>1, <1>9, <2>2 DEF Answers
    <3>2. CASE i = 1
      BY <1>1, <3>1, <3>2 DEF Answers
    <3>3. CASE i # 1
      <4>1. \E j \in DOMAIN r.queue : r.queue[j] = o.queue[i]
        BY <3>3 DEF Returned
      <4> QED
        BY <3>1, <4>1 DEF Answers
    <3> QED
      BY <3>2, <3>3
  <2> QED
    BY <2>1, <2>2
<1> QED
  BY <1>1, <1>4, <1>5, <1>6, <1>8, <1>9, QuietStepKeeps

LEMMA ReturnKeeps ==
  ASSUME SenderInv, NEW t \in Tabs, Return(t)
  PROVE  SenderInv'
<1>1. PICK o : o = page[t]
  OBVIOUS
<1>2. PICK op : op = Head(o.queue)
  OBVIOUS
<1>3. PICK r : r = [ o EXCEPT !.queue = Tail(@) ]
  OBVIOUS
<1>4. Returned(t, o, op, r)
  BY <1>1, <1>2, <1>3, ReturnFacts
<1>5. PICK p : p = Continued(r, op)
  OBVIOUS
<1>6. page' = [ page EXCEPT ![t] = p ] /\ UNCHANGED << Storage, World, next, budget >>
  BY <1>1, <1>2, <1>3, <1>5 DEF Return, Becomes
<1>7. /\ r \in Pages /\ op \in Operations /\ op.rec \in Records /\ op.rec.key \in Streams
      /\ op.then \in { "prepare", "verify", "discard", "cleanup", "invalid" }
      /\ op.kind = "save" <=> op.then \in { "prepare", "verify" }
      /\ op.kind \in { "save", "delete" }
  BY <1>4, OperationFacts DEF Returned, OpOk
<1>8. CASE FreshSave(op, "prepare")
  <2>1. p = [ r EXCEPT !.phase = "testing", !.stream = op.rec.key, !.play = TRUE,
                !.session = IF op.result = "done" THEN op.rec ELSE NoRecord,
                !.key = IF op.result = "done" THEN op.rec.key ELSE @ ]
    BY <1>5, <1>8 DEF Continued, Prepared, FreshSave
  <2>2. p \in Pages /\ IsPrepared(p, r, op)
    BY <1>7, <2>1, RecordFacts DEF Pages, IsPrepared
  <2> QED
    BY <1>4, <1>6, <1>8, <2>2, PreparedKeeps
<1>9. CASE FreshSave(op, "verify")
  <2>1. p = [ Unlock(r) EXCEPT !.session = IF op.result = "done" THEN op.rec ELSE @,
                !.key = IF op.result = "done" THEN op.rec.key ELSE @ ]
    BY <1>5, <1>9 DEF Continued, Verified, FreshSave
  <2>2. p \in Pages /\ IsVerified(p, r, op)
    BY <1>7, <2>1, RecordFacts DEF Pages, Unlock, IsVerified
  <2> QED
    BY <1>4, <1>6, <1>9, <2>2, VerifiedKeeps
<1>10. CASE op.then \in { "prepare", "verify" } /\ ~op.fresh
  <2>1. p = IF op.result = "done" THEN Enqueue(r, Deletion(op.rec, "cleanup")) ELSE r
    BY <1>5, <1>10 DEF Continued, Prepared, Verified
  <2>2. CASE op.result = "done"
    BY <1>4, <1>6, <1>10, <2>1, <2>2, TakenBackKeeps
  <2>3. CASE op.result # "done"
    <3>1. IsTidied(r, r, op) /\ Idle(op) /\ op.then # "invalid"
      BY <1>10 DEF IsTidied, Idle
    <3> QED
      BY <1>4, <1>6, <1>7, <2>1, <2>3, <3>1, TidiedKeeps
  <2> QED
    BY <2>2, <2>3
<1>11. CASE op.then \in { "discard", "cleanup" }
  <2>1. p = r \/ (p = [ r EXCEPT !.key = 0 ] /\ r.key = op.rec.key)
    BY <1>5, <1>11 DEF Continued, Forgotten
  <2>3. Idle(op) /\ op.then # "invalid" /\ op.kind = "delete"
    BY <1>7, <1>11 DEF Idle
  <2>2. p \in Pages /\ IsTidied(p, r, op)
    BY <1>7, <2>1, <2>3 DEF Pages, IsTidied
  <2> QED
    BY <1>4, <1>6, <2>2, <2>3, TidiedKeeps
<1>12. CASE op.then = "invalid"
  <2>1. p = [ r EXCEPT !.phase = "empty" ] \/ p = [ [ r EXCEPT !.key = 0 ] EXCEPT !.phase = "empty" ]
    BY <1>5, <1>12 DEF Continued, Forgotten
  <2>2. /\ p \in Pages /\ p.phase = "empty" /\ p.stream = r.stream /\ p.session = r.session
        /\ p.loaded = r.loaded /\ p.check = r.check /\ p.gone = r.gone /\ p.queue = r.queue
    BY <1>7, <2>1 DEF Pages
  <2> QED
    BY <1>4, <1>6, <1>12, <2>2, InvalidKeeps
<1> QED
  BY <1>7, <1>8, <1>9, <1>10, <1>11, <1>12 DEF FreshSave

-----------------------------------------------------------------------------
(* The theorems.                                                            *)

LEMMA InitHolds ==
  ASSUME Init
  PROVE  SenderInv
<1>1. PICK p : p = FreshPage(0)
  OBVIOUS
<1>2. /\ p \in Pages /\ p.phase = "restoring" /\ p.stream = 0 /\ p.session = NoRecord
      /\ p.loaded = NoRecord /\ p.key = 0 /\ p.check = NoCheck /\ p.gone = {}
      /\ p.queue = << >> /\ DOMAIN p.queue = {} /\ Len(p.queue) = 0
  BY <1>1, RecordFacts DEF FreshPage, Pages, NoCheck, Checks
<1>3. /\ page = [ t \in Tabs |-> p ] /\ db = [ k \in Streams |-> NoRecord ] /\ newest = << >>
      /\ issued = {} /\ held = [ k \in Streams |-> {} ] /\ cut = FALSE
      /\ next = [ stream |-> 1, revision |-> 1 ]
      /\ budget = [ acts |-> MaxActs, failures |-> MaxFailures ]
      /\ MaxActs \in Nat /\ MaxFailures \in Nat
  BY <1>1 DEF Init
<1>4. TypeInv
  <2>1. newest \in Seq(Streams) /\ DOMAIN newest = {}
    BY <1>3
  <2>2. { k \in Streams : db[k] # NoRecord } = { newest[i] : i \in DOMAIN newest }
    BY <1>3, <2>1
  <2>3. page \in [ Tabs -> Pages ] /\ db \in [ Streams -> Records ]
    BY <1>2, <1>3, RecordFacts
  <2>4. held \in [ Streams -> SUBSET Tabs ] /\ issued \subseteq Streams /\ cut \in BOOLEAN
    BY <1>3
  <2>5. /\ next \in [ stream : Nat \ { 0 }, revision : Nat \ { 0 } ]
        /\ budget \in [ acts : Nat, failures : 0 .. MaxFailures ]
    BY <1>3
  <2> QED
    BY <2>1, <2>2, <2>3, <2>4, <2>5 DEF TypeInv
<1>5. PageOk(p) /\ Known(p) = { NoRecord } /\ Awaited(p) = {}
  BY <1>2 DEF PageOk, Known, Awaited
<1>6. RecordOk(NoRecord)
  BY <1>3, RecordFacts DEF RecordOk
<1>7. PagesOk
  BY <1>2, <1>3, <1>5, <1>6 DEF PagesOk, PageIssued, NoCheck
<1>8. DbOk
  BY <1>3, <1>5, <1>6 DEF DbOk
<1>9. Cross /\ Holders
  BY <1>3, <1>5 DEF Cross, Holders
<1>10. AllBacked
  BY <1>2, <1>3 DEF AllBacked, Backed
<1>11. Owned
  BY <1>2, <1>3 DEF Owned
<1> QED
  BY <1>4, <1>7, <1>8, <1>9, <1>10, <1>11 DEF SenderInv

LEMMA Preserved ==
  ASSUME SenderInv, [Next]_vars
  PROVE  SenderInv'
<1>1. CASE UNCHANGED vars
  <2>1. /\ page' = page /\ db' = db /\ newest' = newest /\ issued' = issued /\ held' = held
        /\ cut' = cut /\ next' = next /\ budget' = budget
    BY <1>1 DEF vars
  <2>2. TypeInv'
    BY <2>1 DEF SenderInv, TypeInv
  <2>3. PagesOk' /\ DbOk'
    BY <2>1 DEF SenderInv, PagesOk, PageIssued, RecordOk, DbOk
  <2>4. Cross' /\ Holders'
    BY <2>1 DEF SenderInv, Cross, Holders
  <2>5. AllBacked'
    BY <2>1 DEF SenderInv, AllBacked, Backed, Alone, Replaced
  <2>6. Owned'
    BY <2>1 DEF SenderInv, Owned, Answers
  <2> QED
    BY <2>2, <2>3, <2>4, <2>5, <2>6 DEF SenderInv
<1>2. CASE Next
  <2>1. PICK t \in Tabs :
          \/ Load(t) \/ Restored(t) \/ RestoreFails(t)
          \/ PickFolder(t) \/ ClearSelection(t)
          \/ PrepareConnection(t) \/ Built(t) \/ BuildFails(t)
          \/ (\E code \in issued \cup { 0 } : EnterReceipt(t, code))
          \/ WrongReceipt(t) \/ RightReceipt(t)
          \/ Playback(t) \/ DiscardConnection(t) \/ ShowReceipt(t) \/ Reload(t)
          \/ Transaction(t) \/ TransactionFails(t) \/ Return(t)
    BY <1>2 DEF Next
  <2>2. CASE Load(t) \/ Restored(t) \/ RestoreFails(t)
    BY <2>2, LoadKeeps, RestoredKeeps, RestoreFailsKeeps
  <2>3. CASE PickFolder(t) \/ ClearSelection(t) \/ PrepareConnection(t)
    BY <2>3, LeaveKeeps
  <2>4. CASE Built(t) \/ BuildFails(t)
    BY <2>4, BuiltKeeps, BuildFailsKeeps
  <2>5. CASE (\E code \in issued \cup { 0 } : EnterReceipt(t, code)) \/ WrongReceipt(t) \/ RightReceipt(t)
    BY <2>5, EnterReceiptKeeps, WrongReceiptKeeps, RightReceiptKeeps
  <2>6. CASE Playback(t) \/ DiscardConnection(t) \/ ShowReceipt(t) \/ Reload(t)
    BY <2>6, PlaybackKeeps, DiscardKeeps, ShowReceiptKeeps, ReloadKeeps
  <2>7. CASE Transaction(t) \/ TransactionFails(t) \/ Return(t)
    BY <2>7, TransactionKeeps, TransactionFailsKeeps, ReturnKeeps
  <2> QED
    BY <2>1, <2>2, <2>3, <2>4, <2>5, <2>6, <2>7
<1> QED
  BY <1>1, <1>2

LEMMA InvariantHolds == Spec => []SenderInv
<1>1. Init => SenderInv
  BY InitHolds
<1>2. SenderInv /\ [Next]_vars => SenderInv'
  BY Preserved
<1> QED
  BY <1>1, <1>2, PTL DEF Spec

LEMMA TypeCorrect ==
  ASSUME SenderInv
  PROVE  TypeOK
<1>1. ASSUME NEW t \in Tabs
      PROVE  /\ page[t].phase \in { "restoring", "empty", "selected", "preparing", "testing", "verified" }
             /\ page[t].stream \in Streams \cup { 0 } /\ page[t].key \in Streams \cup { 0 }
             /\ page[t].play \in BOOLEAN
             /\ { page[t].session, page[t].loaded } \subseteq Records
             /\ \A i \in DOMAIN page[t].queue : page[t].queue[i] \in Operations
             /\ page[t].gone \subseteq Streams
  BY TabFacts, PageFacts
<1> QED
  BY <1>1 DEF TypeOK, SenderInv, TypeInv

(* Whatever the interleaving of comparisons, storage calls, tabs and        *)
(* reloads, Files bytes are only on the screen of a page whose user         *)
(* confirmed the receipt of exactly this stream and has not discarded it    *)
(* since, and only such a stream is stored as verified                      *)
(* (Sender.tsx validateReceipt).                                            *)
THEOREM FilesAlwaysGated == Spec => []FilesGated
<1>1. ASSUME SenderInv PROVE FilesGated
  <2>1. ASSUME NEW t \in Tabs, page[t].phase = "verified"
        PROVE  page[t].stream \in issued \ page[t].gone
    BY <1>1, <2>1, TabFacts DEF PageOk, PageIssued
  <2>2. ASSUME NEW k \in Streams, db[k].phase = "verified" PROVE k \in issued
    <3>1. db[k] # NoRecord
      BY <2>2, RecordFacts
    <3> QED
      BY <1>1, <2>2, <3>1 DEF SenderInv, DbOk, RecordOk
  <2> QED
    BY <1>1, <2>1, <2>2, TypeCorrect DEF FilesGated
<1> QED
  BY <1>1, InvariantHolds, PTL

(* A record that no other tab has read is where its page expects it, and    *)
(* a stored archive always has a page that can resume or remove it, as long *)
(* as storage works and no reload cuts off a call (Sender.tsx               *)
(* prepareConnection, validateReceipt, sender-resume.ts                     *)
(* deleteSenderSession).                                                    *)
THEOREM RecordsAlwaysAccounted == Spec => []RecordsAccounted
<1>1. ASSUME SenderInv PROVE RecordsAccounted
  <2>1. ASSUME NEW t \in Tabs, page[t].session # NoRecord, page[t].queue = << >>,
               held[page[t].session.key] \subseteq { t }
        PROVE  db[page[t].session.key] = page[t].session /\ page[t].key = page[t].session.key
    <3>1. page[t].session.key = page[t].stream /\ page[t].key = page[t].stream
      BY <1>1, <2>1, TabFacts DEF PageOk
    <3>2. DOMAIN page[t].queue = {}
      BY <2>1
    <3>3. ~Replaced(page[t])
      BY <3>2 DEF Replaced
    <3> QED
      BY <1>1, <2>1, <3>1, <3>3, TabFacts DEF Backed, Alone
  <2>2. ReloadSafe
    BY <2>1 DEF ReloadSafe
  <2>3. ASSUME ~cut, budget.failures = MaxFailures, \A t \in Tabs : page[t].queue = << >>,
               NEW k \in Streams, db[k] # NoRecord
        PROVE  \E t \in Tabs : db[k] = page[t].session \/ page[t].phase = "restoring"
    <3>1. PICK t \in Tabs : Answers(page[t], k)
      BY <1>1, <2>3 DEF SenderInv, Owned
    <3>2. page[t].queue = << >>
      BY <2>3
    <3>3. DOMAIN page[t].queue = {}
      BY <3>2
    <3> QED
      BY <3>1, <3>3 DEF Answers
  <2>4. NoOrphans
    BY <2>3 DEF NoOrphans
  <2> QED
    BY <2>2, <2>4 DEF RecordsAccounted
<1> QED
  BY <1>1, InvariantHolds, PTL
=============================================================================
