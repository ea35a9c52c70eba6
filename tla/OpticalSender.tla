---------------------------- MODULE OpticalSender ----------------------------
(***************************************************************************)
(* The optical QRF3 sender (components/LargeSender.tsx) in several tabs of  *)
(* one browser: a selected source tree becomes a Files plan and a probe    *)
(* bound to it; the probe loops on the screen until the receiver's receipt *)
(* unlocks the Files plan. A prepared source is one record of IndexedDB    *)
(* (lib/large-sender-resume.ts), from which a reload offers to resume.     *)
(*                                                                         *)
(* A prepared source, its record's random key and its receipt code are one *)
(* number. A generation that a page left behind never returns, so what is  *)
(* under way only remembers whether it is still fresh.                     *)
(***************************************************************************)
EXTENDS Integers, Sequences, FiniteSets

CONSTANTS
  Tabs,
  MaxStreams,    \* bound: sources that are prepared
  MaxActs,       \* bound: consequential user actions, reloads and failures
  MaxFailures    \* bound: storage calls, scans and hashings that fail

ASSUME OpticalSenderAssumption ==
  Tabs # {} /\ { MaxStreams, MaxActs, MaxFailures } \subseteq Nat

VARIABLES
  page,      \* the state of each tab's page, its mutation queue included
  db,        \* the records by key
  newest,    \* the keys by updatedAt, the newest last
  issued,    \* receipts a receiver showed after a whole probe
  held,      \* history: the tabs that had the last revision of each key
  next,      \* the next random key and the next random revision
  budget     \* what is left of the bounds

vars == << page, db, newest, issued, held, next, budget >>

Streams == 1 .. MaxStreams

NoRecord == [ key |-> 0, rev |-> 0, phase |-> "none" ]
Records == [ key : Streams, rev : Nat, phase : { "testing", "verified" } ] \cup { NoRecord }

\* What can be on the screen: the probe or the Files plan of a source.
NoPlan == [ of |-> 0, kind |-> "none" ]
Probe(s) == [ of |-> s, kind |-> "probe" ]
Files(s) == [ of |-> s, kind |-> "files" ]
Plans == { Probe(s) : s \in Streams } \cup { Files(s) : s \in Streams } \cup { NoPlan }

\* One run of the playback effect: the plan it closed over, whether its
\* generation is current, and the plan its latest frame came from, NoPlan once
\* it has ended.
NoLoop == [ plan |-> NoPlan, fresh |-> FALSE, using |-> NoPlan ]
Loops == [ plan : Plans, fresh : BOOLEAN, using : Plans ]

Operations ==
  [ kind : { "save", "delete" },
    rec : Records,           \* what is saved, or the key and revision that is deleted
    over : Nat,              \* a save's expected revision, 0 for a new record
    then : { "prepare", "verify", "discard", "cleanup" },
    fresh : BOOLEAN,         \* a preparation's generation is current
    result : { "none", "done", "changed", "failed" } ]

\* A page after its load: only sessionStorage is left.
FreshPage(key) ==
  [ phase |-> "idle", sel |-> FALSE,
    loading |-> TRUE,        \* the mount effect has not read the record yet
    cand |-> NoRecord,       \* resumeCandidate
    session |-> NoRecord,    \* senderSessionRef
    plan |-> 0,              \* filesPlan and probe
    active |-> NoPlan,       \* activePlan
    play |-> "no",           \* playing and paused
    job |-> "none",          \* the fresh asynchronous job; "restore" is restoring
    from |-> NoRecord,       \* the record that is being restored
    key |-> key,             \* sessionStorage
    ref |-> NoPlan,          \* streamRef: the plan its iterator belongs to
    loop |-> NoLoop,
    queue |-> << >>,         \* mutationQueue
    gone |-> {},             \* history: sources discarded since the load
    overtaken |-> FALSE ]    \* history: a storage call changed a page that had moved on

TypeOK ==
  /\ \A t \in Tabs : LET p == page[t] IN
       /\ p.phase \in { "idle", "scanning", "selected", "preparing", "testing", "verified" }
       /\ p.play \in { "no", "yes", "paused" } /\ p.job \in { "none", "scan", "prepare", "restore" }
       /\ { p.sel, p.loading, p.overtaken } \subseteq BOOLEAN
       /\ { p.plan, p.key } \subseteq Streams \cup { 0 } /\ p.gone \subseteq Streams
       /\ { p.cand, p.session, p.from } \subseteq Records
       /\ { p.active, p.ref } \subseteq Plans /\ p.loop \in Loops
       /\ \A i \in DOMAIN p.queue : p.queue[i] \in Operations
  /\ db \in [ Streams -> Records ]
  /\ { k \in Streams : db[k] # NoRecord } = { newest[i] : i \in DOMAIN newest }
  /\ issued \subseteq Streams /\ held \in [ Streams -> SUBSET Tabs ]

Init ==
  /\ page = [ t \in Tabs |-> FreshPage(0) ]
  /\ db = [ k \in Streams |-> NoRecord ] /\ newest = << >>
  /\ issued = {} /\ held = [ k \in Streams |-> {} ]
  /\ next = [ stream |-> 1, revision |-> 1 ]
  /\ budget = [ acts |-> MaxActs, failures |-> MaxFailures ]

Acts == budget.acts > 0 /\ budget' = [ budget EXCEPT !.acts = @ - 1 ]
Fails ==
  /\ budget.acts > 0 /\ budget.failures > 0
  /\ budget' = [ acts |-> budget.acts - 1, failures |-> budget.failures - 1 ]

Becomes(t, p) == page' = [ page EXCEPT ![t] = p ]
Storage == << db, newest, held >>

(***************************************************************************)
(* Records                                                                 *)
(***************************************************************************)
Op(kind, rec, over, then) ==
  [ kind |-> kind, rec |-> rec, over |-> over, then |-> then, fresh |-> TRUE, result |-> "none" ]
Deletion(rec, then) == Op("delete", rec, 0, then)
Enqueue(p, op) == [ p EXCEPT !.queue = Append(@, op) ]

\* A key occurs once in the order.
Without(k) ==
  IF k \notin { newest[i] : i \in DOMAIN newest } THEN newest
  ELSE LET at == CHOOSE i \in DOMAIN newest : newest[i] = k IN
       [ i \in 1 .. Len(newest) - 1 |-> newest[IF i < at THEN i ELSE i + 1] ]

Settle(t, result) == Becomes(t, [ page[t] EXCEPT !.queue[1].result = result ])

\* saveLargeSenderSession: the record replaces the revision its caller had read.
SaveTransaction(t, op) ==
  IF op.over = 0 \/ db[op.rec.key].rev = op.over
  THEN /\ db' = [ db EXCEPT ![op.rec.key] = op.rec ]
       /\ held' = [ held EXCEPT ![op.rec.key] = { t } ]
       /\ newest' = Append(Without(op.rec.key), op.rec.key)
       /\ Settle(t, "done")
  ELSE Settle(t, "failed") /\ UNCHANGED Storage

Deleted(t, k) ==
  /\ db' = [ db EXCEPT ![k] = NoRecord ]
  /\ newest' = Without(k)
  /\ Settle(t, "done") /\ UNCHANGED held

\* Mutant: whatever the key holds is deleted.
DeleteAnyRevision(t, op) == Deleted(t, op.rec.key)

\* deleteLargeSenderSession: a record that another tab changed stays.
DeleteTransaction(t, op) ==
  IF db[op.rec.key] = NoRecord \/ db[op.rec.key].rev = op.rec.rev
  THEN Deleted(t, op.rec.key)
  ELSE Settle(t, "changed") /\ UNCHANGED Storage

Pending(t) == page[t].queue # << >> /\ Head(page[t].queue).result = "none"

Transaction(t) ==
  LET op == Head(page[t].queue) IN
  /\ Pending(t)
  /\ IF op.kind = "save" THEN SaveTransaction(t, op) ELSE DeleteTransaction(t, op)
  /\ UNCHANGED << issued, next, budget >>

TransactionFails(t) ==
  /\ Pending(t) /\ Fails
  /\ Settle(t, "failed")
  /\ UNCHANGED << Storage, issued, next >>

(***************************************************************************)
(* The playback effect                                                     *)
(***************************************************************************)
\* A new generation: nothing under way may publish any more.
Outdated(op) == [ op EXCEPT !.fresh = op.fresh /\ op.then # "prepare" ]
Bump(p) ==
  [ p EXCEPT !.job = "none", !.from = NoRecord, !.loop.fresh = FALSE,
             !.queue = [ i \in DOMAIN @ |-> Outdated(@[i]) ] ]

\* next: a missing iterator starts pass 0 of the plan the loop closed over, and
\* a loop of an old generation ends behind its iterator instead of drawing.
Frame(p) ==
  LET plan == IF p.ref = NoPlan THEN p.loop.plan ELSE p.ref IN
  [ p EXCEPT !.ref = plan, !.loop.using = IF p.loop.fresh THEN plan ELSE NoPlan ]

Wanted(p) == IF p.play = "yes" THEN p.active ELSE NoPlan

\* React runs the effect again when the plan or the playback changed: a click
\* is followed by it at once, what an await ended by Render a little later.
Rendered(p) ==
  IF Wanted(p) = p.loop.plan THEN p
  ELSE IF Wanted(p) = NoPlan THEN [ p EXCEPT !.loop = NoLoop ]
  ELSE Frame([ p EXCEPT !.loop.plan = Wanted(p), !.loop.fresh = TRUE ])

\* A click comes after the effects of what it answers.
Calm(t) == Rendered(page[t]) = page[t]

Render(t) ==
  /\ Rendered(page[t]) # page[t]
  /\ Becomes(t, Rendered(page[t]))
  /\ UNCHANGED << Storage, issued, next, budget >>

Tick(t) ==
  /\ page[t].loop.using # NoPlan
  /\ Becomes(t, Frame(page[t]))
  /\ UNCHANGED << Storage, issued, next, budget >>

\* Reading the source for a frame failed.
DrawFails(t) ==
  LET p == page[t] IN
  /\ p.loop.using.kind = "files" /\ Fails
  /\ Becomes(t, [ p EXCEPT !.loop.using = NoPlan, !.play = "no" ])
  /\ UNCHANGED << Storage, issued, next >>

(***************************************************************************)
(* What a page does when its storage call returns                          *)
(***************************************************************************)
Cleanup(p, op) ==
  IF op.result = "done"
  THEN Enqueue([ p EXCEPT !.gone = @ \cup { op.rec.key } ], Deletion(op.rec, "cleanup"))
  ELSE p

Publish(p, op) ==
  [ p EXCEPT !.phase = "testing", !.job = "none", !.cand = NoRecord,
      !.session = IF op.result = "done" THEN op.rec ELSE NoRecord,
      !.key = IF op.result = "done" THEN op.rec.key ELSE @,
      !.plan = op.rec.key, !.active = Probe(op.rec.key), !.play = "yes" ]

\* Mutant: the iterator of the plan before is left.
PreparedKeepingIterator(p, op) == IF ~op.fresh THEN Cleanup(p, op) ELSE Publish(p, op)

\* prepare, behind its save.
Prepared(p, op) ==
  IF ~op.fresh THEN Cleanup(p, op) ELSE [ Publish(p, op) EXCEPT !.ref = NoPlan ]

Unlock(p, s) ==
  [ p EXCEPT !.phase = "verified", !.active = Files(s), !.play = "no", !.ref = NoPlan ]

\* validateReceipt, behind its save: it unlocks the plan it was called with,
\* whatever became of the page.
Verified(p, op) ==
  [ Unlock(p, op.rec.key) EXCEPT !.session = IF op.result = "done" THEN op.rec ELSE @,
                                 !.key = IF op.result = "done" THEN op.rec.key ELSE @,
                                 !.overtaken = @ \/ p.plan # op.rec.key ]

Cleared(p) ==
  [ p EXCEPT !.phase = "idle", !.sel = FALSE, !.cand = NoRecord, !.session = NoRecord, !.key = 0,
             !.plan = 0, !.active = NoPlan, !.play = "no", !.ref = NoPlan ]

\* discard, behind its deletion: a record that is still there only shows an error,
\* else everything is cleared, whatever was begun since and goes on.
Discarded(p, op) ==
  IF op.result = "done"
  THEN [ Cleared(p) EXCEPT !.gone = @ \cup { op.rec.key }, !.overtaken = @ \/ p.job # "none" ]
  ELSE p

Continued(p, op) ==
  CASE op.then = "prepare" -> Prepared(p, op)
    [] op.then = "verify" -> Verified(p, op)
    [] op.then = "discard" -> Discarded(p, op)
    [] op.then = "cleanup" -> p

Return(t) ==
  LET op == Head(page[t].queue)
      p == [ page[t] EXCEPT !.queue = Tail(@) ]
  IN
  /\ page[t].queue # << >> /\ op.result # "none"
  /\ Becomes(t, Continued(p, op))
  /\ UNCHANGED << Storage, issued, next, budget >>

(***************************************************************************)
(* The page                                                                *)
(***************************************************************************)
\* loadLargeSenderSession: the record of the preferred key, or else the newest.
LoadLargeSenderSession(preferred) ==
  IF preferred # 0 THEN preferred ELSE IF newest = << >> THEN 0 ELSE newest[Len(newest)]

\* The mount effect offers it to the user.
Load(t) ==
  LET p == page[t]
      k == LoadLargeSenderSession(p.key)
  IN
  /\ p.loading
  /\ IF k = 0 \/ db[k] = NoRecord
     THEN Becomes(t, [ p EXCEPT !.loading = FALSE ]) /\ UNCHANGED held
     ELSE /\ Becomes(t, [ p EXCEPT !.loading = FALSE, !.cand = db[k] ])
          /\ held' = [ held EXCEPT ![k] = @ \cup { t } ]
  /\ UNCHANGED << db, newest, issued, next, budget >>

PickFolder(t) ==
  LET p == page[t] IN
  /\ Calm(t)
  /\ ~p.sel /\ p.phase # "scanning" /\ p.job # "restore"
  /\ Becomes(t, [ Bump(p) EXCEPT !.phase = "scanning", !.job = "scan" ])
  /\ UNCHANGED << Storage, issued, next, budget >>

Scanned(t) ==
  /\ page[t].job = "scan"
  /\ Becomes(t, [ page[t] EXCEPT !.sel = TRUE, !.plan = 0, !.active = NoPlan, !.job = "none",
                    !.phase = "selected" ])
  /\ UNCHANGED << Storage, issued, next, budget >>

ScanFails(t) ==
  /\ page[t].job = "scan" /\ Fails
  /\ Becomes(t, [ page[t] EXCEPT !.job = "none", !.phase = IF page[t].sel THEN "selected" ELSE "idle" ])
  /\ UNCHANGED << Storage, issued, next >>

Prepare(t) ==
  LET p == page[t] IN
  /\ Calm(t)
  /\ p.sel /\ p.phase = "selected"
  /\ Becomes(t, [ Bump(p) EXCEPT !.phase = "preparing", !.job = "prepare" ])
  /\ UNCHANGED << Storage, issued, next, budget >>

Building(t) ==
  /\ page[t].job = "prepare"
  /\ \A i \in DOMAIN page[t].queue : ~(page[t].queue[i].then = "prepare" /\ page[t].queue[i].fresh)

\* Both plans exist; their record goes to the queue.
Built(t) ==
  LET rec == [ key |-> next.stream, rev |-> next.revision, phase |-> "testing" ] IN
  /\ Building(t) /\ next.stream <= MaxStreams
  /\ next' = [ stream |-> next.stream + 1, revision |-> next.revision + 1 ]
  /\ Becomes(t, Enqueue(page[t], Op("save", rec, 0, "prepare")))
  /\ UNCHANGED << Storage, issued, budget >>

PrepareFails(t) ==
  /\ Building(t) /\ Fails
  /\ Becomes(t, [ page[t] EXCEPT !.job = "none", !.phase = "selected" ])
  /\ UNCHANGED << Storage, issued, next >>

RestoreSaved(t) ==
  LET p == page[t] IN
  /\ Calm(t)
  /\ ~p.sel /\ p.cand # NoRecord /\ p.job # "restore"
  /\ Becomes(t, [ Bump(p) EXCEPT !.job = "restore", !.from = p.cand ])
  /\ UNCHANGED << Storage, issued, next, budget >>

\* Mutant: a restored source is unlocked whatever its record says.
ActiveWhatever(rec) == Files(rec.key)

ActiveOf(rec) == IF rec.phase = "testing" THEN Probe(rec.key) ELSE Files(rec.key)

\* The source was hashed again and gave the saved identities.
Restored(t) ==
  LET p == page[t] IN
  /\ p.job = "restore"
  /\ Becomes(t, [ p EXCEPT !.job = "none", !.from = NoRecord, !.session = p.from,
                    !.key = p.from.key, !.cand = NoRecord, !.sel = TRUE, !.plan = p.from.key,
                    !.active = ActiveOf(p.from), !.phase = p.from.phase,
                    !.play = IF p.from.phase = "testing" THEN "yes" ELSE "no", !.ref = NoPlan ])
  /\ UNCHANGED << Storage, issued, next, budget >>

\* The tree or its bytes changed, or access was refused: the record stays.
RestoreFails(t) ==
  /\ page[t].job = "restore" /\ Fails
  /\ Becomes(t, [ page[t] EXCEPT !.job = "none", !.from = NoRecord ])
  /\ UNCHANGED << Storage, issued, next >>

\* validateReceipt, up to its save. The form stays usable.
EnterReceipt(t, code) ==
  LET p == page[t]
      rec == [ p.session EXCEPT !.rev = next.revision, !.phase = "verified" ]
  IN
  /\ Calm(t) /\ Acts
  /\ p.phase = "testing" /\ p.plan # 0 /\ code = p.plan
  /\ IF p.session = NoRecord
     THEN Becomes(t, Rendered(Unlock(p, p.plan))) /\ UNCHANGED next
     ELSE /\ Becomes(t, Enqueue(p, Op("save", rec, p.session.rev, "verify")))
          /\ next' = [ next EXCEPT !.revision = @ + 1 ]
  /\ UNCHANGED << Storage, issued >>

\* Resume probe, Start verified Files stream, Pause and Resume, Stop display.
Play(t) ==
  LET p == page[t] IN
  /\ Calm(t)
  /\ p.play = "no"
  /\ \/ p.phase = "testing" /\ p.active # NoPlan
        /\ Becomes(t, Rendered([ p EXCEPT !.play = "yes" ]))
     \/ p.phase = "verified"
        /\ Becomes(t, Rendered([ p EXCEPT !.play = "yes", !.ref = NoPlan ]))
  /\ UNCHANGED << Storage, issued, next, budget >>

Pause(t) ==
  LET p == page[t] IN
  /\ Calm(t)
  /\ p.active # NoPlan /\ p.play # "no"
  /\ \E play \in { "no", IF p.play = "yes" THEN "paused" ELSE "yes" } :
       Becomes(t, Rendered([ p EXCEPT !.play = play ]))
  /\ UNCHANGED << Storage, issued, next, budget >>

Discard(t) ==
  LET p == Bump(page[t])
      rec == IF p.session # NoRecord THEN p.session ELSE p.cand
  IN
  /\ Calm(t) /\ Acts
  /\ page[t].sel \/ (page[t].cand # NoRecord /\ page[t].job # "restore")
  /\ Becomes(t, IF rec = NoRecord
                THEN Rendered([ Cleared(p) EXCEPT !.gone = @ \cup ({ p.plan } \ { 0 }) ])
                ELSE Enqueue(p, Deletion(rec, "discard")))
  /\ UNCHANGED << Storage, issued, next >>

\* Another view of the app is shown.
LeaveView(t) ==
  LET p == IF page[t].play = "yes" THEN [ page[t] EXCEPT !.play = "paused" ] ELSE page[t] IN
  /\ Calm(t) /\ Acts
  /\ Becomes(t, Rendered(IF p.phase \in { "scanning", "preparing" } \/ p.job = "restore"
                         THEN [ Bump(p) EXCEPT !.phase = IF p.sel THEN "selected" ELSE "idle" ]
                         ELSE p))
  /\ UNCHANGED << Storage, issued, next >>

\* A receiver that saw the whole probe shows its receipt.
ShowReceipt(t) ==
  /\ page[t].loop.fresh /\ page[t].loop.using.kind = "probe"
  /\ issued' = issued \cup { page[t].loop.using.of }
  /\ UNCHANGED << page, Storage, next, budget >>

Reload(t) ==
  /\ Acts
  /\ Becomes(t, FreshPage(page[t].key))
  /\ UNCHANGED << Storage, issued, next >>

Next == \E t \in Tabs :
  \/ Load(t) \/ PickFolder(t) \/ Scanned(t) \/ ScanFails(t)
  \/ Prepare(t) \/ Built(t) \/ PrepareFails(t)
  \/ RestoreSaved(t) \/ Restored(t) \/ RestoreFails(t)
  \/ (\E code \in issued : EnterReceipt(t, code))
  \/ Play(t) \/ Pause(t) \/ Discard(t) \/ LeaveView(t) \/ ShowReceipt(t) \/ Reload(t)
  \/ Transaction(t) \/ TransactionFails(t) \/ Return(t)
  \/ Render(t) \/ Tick(t) \/ DrawFails(t)

Spec == Init /\ [][Next]_vars

(***************************************************************************)
(* Properties                                                              *)
(***************************************************************************)
\* File bytes reach the screen, and a record says that they may, only after a
\* receiver showed the receipt of exactly this source's probe, however the
\* comparison, the storage calls, discards, other tabs and reloads interleave
\* (LargeSender.tsx validateReceipt, README.md:287).
FilesGated ==
  /\ TypeOK
  /\ \A t \in Tabs : \A plan \in { page[t].active, page[t].loop.plan, page[t].loop.using } :
       plan.kind = "files" => plan.of \in issued
  /\ \A k \in Streams : db[k].phase = "verified" => k \in issued

\* The frames a running loop draws are of the plan it was started for: no
\* iterator of an earlier source survives in streamRef, although a loop that
\* ends late may put one there (LargeSender.tsx:407, 242, 516). The exception is
\* a page that a late storage call overtook: a receipt unlocked the source that
\* was discarded meanwhile, or a second discard cleared the page again although
\* the next source was already in the making.
ScreenIsPlan ==
  \A t \in Tabs : LET l == page[t].loop IN
    l.fresh /\ l.using # NoPlan /\ ~page[t].overtaken => l.using = l.plan

\* What the screen shows is of the source the page is about, and file bytes only
\* after that source's receipt.
ScreenEntitled == FilesGated /\ ScreenIsPlan

\* "Saved locally for reload-safe resume": as long as no other tab ever read
\* this revision, a reload finds exactly it, whatever older revisions other
\* tabs still hold and discard (large-sender-resume.ts:142). A page that was
\* overtaken may resume the older revision it was offered at its load.
ReloadSafe ==
  \A t \in Tabs : LET s == page[t].session IN
    /\ s # NoRecord /\ page[t].queue = << >> /\ ~page[t].overtaken
    /\ held[s.key] \subseteq { t } /\ s.key \notin page[t].gone
    => db[s.key] = s /\ page[t].key = s.key
=============================================================================
