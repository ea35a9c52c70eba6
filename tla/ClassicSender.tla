---------------------------- MODULE ClassicSender ----------------------------
(***************************************************************************)
(* The classic QRF2 sender (components/Sender.tsx) in several tabs of one   *)
(* browser: a prepared stream is a dummy archive bound to a Files archive; *)
(* the dummy loops until the receiver's receipt unlocks the Files stream.  *)
(* Each tab keeps its stream in one record of IndexedDB, shared by all     *)
(* tabs (lib/sender-resume.ts), and its key in sessionStorage.             *)
(*                                                                         *)
(* A stream, its record's random key and its receipt code are one number.  *)
(* A generation that a page left behind never returns, so what is under    *)
(* way only remembers whether it is still fresh.                           *)
(***************************************************************************)
EXTENDS Integers, Sequences, FiniteSets

CONSTANTS
  Tabs,
  MaxStreams,    \* bound: streams that are prepared
  MaxActs,       \* bound: consequential user actions, and reloads
  MaxFailures    \* bound: storage calls and restorations that fail

ASSUME SenderAssumption ==
  Tabs # {} /\ { MaxStreams, MaxActs, MaxFailures } \subseteq Nat

VARIABLES
  page,      \* the state of each tab's page, its mutation queue included
  db,        \* the records by key
  newest,    \* the keys by updatedAt, the newest last
  issued,    \* receipts a receiver showed after the whole dummy of a stream
  held,      \* history: the tabs that had the last revision of each key
  cut,       \* history: a reload cut off a storage call
  next,      \* the next random key and the next random revision
  budget     \* what is left of the bounds

vars == << page, db, newest, issued, held, cut, next, budget >>

Streams == 1 .. MaxStreams

NoRecord == [ key |-> 0, rev |-> 0, phase |-> "none" ]
Records == [ key : Streams, rev : Nat, phase : { "testing", "verified" } ] \cup { NoRecord }

Operations ==
  [ kind : { "save", "delete" },
    rec : Records,           \* what is saved, or the key and revision that is deleted
    over : Nat,              \* a save's expected revision, 0 for a new record
    then : { "prepare", "verify", "discard", "cleanup", "invalid" },
    fresh : BOOLEAN,         \* the page's build generation is still the caller's
    result : { "none", "done", "changed", "failed" } ]

NoCheck == [ code |-> 0, stream |-> 0 ]

\* A page after its load: only sessionStorage is left.
FreshPage(key) ==
  [ phase |-> "restoring", stream |-> 0, play |-> FALSE,
    session |-> NoRecord,    \* senderSessionRef
    loaded |-> NoRecord,     \* loadedSession of the restoration
    key |-> key,             \* sessionStorage
    check |-> NoCheck,       \* the receipt being compared
    queue |-> << >>,         \* mutationQueue
    gone |-> {} ]            \* history: streams discarded since the load

TypeOK ==
  /\ \A t \in Tabs :
       /\ page[t].phase \in { "restoring", "empty", "selected", "preparing", "testing", "verified" }
       /\ page[t].stream \in Streams \cup { 0 } /\ page[t].key \in Streams \cup { 0 }
       /\ page[t].play \in BOOLEAN
       /\ { page[t].session, page[t].loaded } \subseteq Records
       /\ \A i \in DOMAIN page[t].queue : page[t].queue[i] \in Operations
       /\ page[t].gone \subseteq Streams
  /\ db \in [ Streams -> Records ]
  /\ { k \in Streams : db[k] # NoRecord } = { newest[i] : i \in DOMAIN newest }
  /\ issued \subseteq Streams /\ cut \in BOOLEAN
  /\ held \in [ Streams -> SUBSET Tabs ]

Init ==
  /\ page = [ t \in Tabs |-> FreshPage(0) ]
  /\ db = [ k \in Streams |-> NoRecord ] /\ newest = << >>
  /\ issued = {} /\ held = [ k \in Streams |-> {} ] /\ cut = FALSE
  /\ next = [ stream |-> 1, revision |-> 1 ]
  /\ budget = [ acts |-> MaxActs, failures |-> MaxFailures ]

Acts == budget.acts > 0 /\ budget' = [ budget EXCEPT !.acts = @ - 1 ]
Fails == budget.failures > 0 /\ budget' = [ budget EXCEPT !.failures = @ - 1 ]

Becomes(t, p) == page' = [ page EXCEPT ![t] = p ]
Storage == << db, newest, held >>
World == << issued, cut >>

(***************************************************************************)
(* Records                                                                 *)
(***************************************************************************)
Op(kind, rec, over, then) ==
  [ kind |-> kind, rec |-> rec, over |-> over, then |-> then, fresh |-> TRUE, result |-> "none" ]
Deletion(rec, then) == Op("delete", rec, 0, then)
Enqueue(p, op) == [ p EXCEPT !.queue = Append(@, op) ]

\* A key occurs once in the order.
Without(k) ==
  IF k \notin { newest[i] : i \in DOMAIN newest } THEN newest
  ELSE LET at == CHOOSE i \in DOMAIN newest : newest[i] = k IN
       [ i \in 1 .. Len(newest) - 1 |-> newest[IF i < at THEN i ELSE i + 1] ]

Settle(t, result) == Becomes(t, [ page[t] EXCEPT !.queue[1].result = result ])

\* saveSenderSession: the record replaces the revision its caller had read.
SaveTransaction(t, op) ==
  IF op.over = 0 \/ db[op.rec.key].rev = op.over
  THEN /\ db' = [ db EXCEPT ![op.rec.key] = op.rec ]
       /\ held' = [ held EXCEPT ![op.rec.key] = { t } ]
       /\ newest' = Append(Without(op.rec.key), op.rec.key)
       /\ Settle(t, "done")
  ELSE Settle(t, "failed") /\ UNCHANGED Storage

Deleted(t, k) ==
  /\ db' = [ db EXCEPT ![k] = NoRecord ]
  /\ newest' = Without(k)
  /\ Settle(t, "done") /\ UNCHANGED held

\* Mutant: whatever the key holds is deleted.
DeleteAnyRevision(t, op) == Deleted(t, op.rec.key)

\* deleteSenderSession: a record that another tab changed stays.
DeleteTransaction(t, op) ==
  IF db[op.rec.key] = NoRecord \/ db[op.rec.key].rev = op.rec.rev
  THEN Deleted(t, op.rec.key)
  ELSE Settle(t, "changed") /\ UNCHANGED Storage

Pending(t) == page[t].queue # << >> /\ Head(page[t].queue).result = "none"

Transaction(t) ==
  LET op == Head(page[t].queue) IN
  /\ Pending(t)
  /\ IF op.kind = "save" THEN SaveTransaction(t, op) ELSE DeleteTransaction(t, op)
  /\ UNCHANGED << World, next, budget >>

TransactionFails(t) ==
  /\ Pending(t) /\ Fails
  /\ Settle(t, "failed")
  /\ UNCHANGED << Storage, World, next >>

(***************************************************************************)
(* What a page does when its storage call returns                          *)
(***************************************************************************)
Unlock(p) == [ p EXCEPT !.phase = "verified", !.play = FALSE ]

\* Mutant: a preparation that was given up leaves its record.
PreparedWithoutCleanup(p, op) ==
  IF ~op.fresh THEN p
  ELSE [ p EXCEPT !.phase = "testing", !.stream = op.rec.key, !.play = TRUE,
           !.session = IF op.result = "done" THEN op.rec ELSE NoRecord,
           !.key = IF op.result = "done" THEN op.rec.key ELSE @ ]

\* prepareConnection, behind its save.
Prepared(p, op) ==
  IF ~op.fresh
  THEN IF op.result = "done" THEN Enqueue(p, Deletion(op.rec, "cleanup")) ELSE p
  ELSE [ p EXCEPT !.phase = "testing", !.stream = op.rec.key, !.play = TRUE,
           !.session = IF op.result = "done" THEN op.rec ELSE NoRecord,
           !.key = IF op.result = "done" THEN op.rec.key ELSE @ ]

\* validateReceipt, behind its save: a failure only costs the reload recovery.
Verified(p, op) ==
  IF ~op.fresh
  THEN IF op.result = "done" THEN Enqueue(p, Deletion(op.rec, "cleanup")) ELSE p
  ELSE [ Unlock(p) EXCEPT !.session = IF op.result = "done" THEN op.rec ELSE @,
           !.key = IF op.result = "done" THEN op.rec.key ELSE @ ]

\* forgetTabSessionKey
Forgotten(p, op) ==
  IF op.result = "done" /\ p.key = op.rec.key THEN [ p EXCEPT !.key = 0 ] ELSE p

Continued(p, op) ==
  CASE op.then = "prepare" -> Prepared(p, op)
    [] op.then = "verify" -> Verified(p, op)
    [] op.then = "discard" -> Forgotten(p, op)
    [] op.then = "invalid" -> [ Forgotten(p, op) EXCEPT !.phase = "empty" ]
    [] op.then = "cleanup" -> p

Return(t) ==
  LET op == Head(page[t].queue)
      p == [ page[t] EXCEPT !.queue = Tail(@) ]
  IN
  /\ page[t].queue # << >> /\ op.result # "none"
  /\ Becomes(t, Continued(p, op))
  /\ UNCHANGED << Storage, World, next, budget >>

(***************************************************************************)
(* The page                                                                *)
(***************************************************************************)
\* Mutant: a receipt that is being compared is not cut off.
ClearConnectionButCheck(p) ==
  [ p EXCEPT !.stream = 0, !.play = FALSE, !.session = NoRecord,
      !.queue = [ i \in DOMAIN @ |-> [ @[i] EXCEPT !.fresh = FALSE ] ] ]

\* clearConnection: the build generation moves on.
ClearConnection(p) ==
  [ p EXCEPT !.stream = 0, !.play = FALSE, !.session = NoRecord, !.check = NoCheck,
      !.queue = [ i \in DOMAIN @ |-> [ @[i] EXCEPT !.fresh = FALSE ] ] ]

\* Delete the record the page had before it was cleared, if it had one.
Discarded(p, session) ==
  IF session = NoRecord THEN p ELSE Enqueue(p, Deletion(session, "discard"))

\* loadSenderSession: the record of the preferred key, or else the newest one.
LoadSenderSession(preferred) ==
  IF preferred # 0 THEN preferred ELSE IF newest = << >> THEN 0 ELSE newest[Len(newest)]

\* The mount effect: a tab whose record is gone forgets its key.
Load(t) ==
  LET p == page[t]
      k == LoadSenderSession(p.key)
  IN
  /\ p.phase = "restoring" /\ p.loaded = NoRecord
  /\ IF k = 0 \/ db[k] = NoRecord
     THEN Becomes(t, [ p EXCEPT !.phase = "empty", !.key = 0 ]) /\ UNCHANGED held
     ELSE /\ Becomes(t, [ p EXCEPT !.loaded = db[k] ])
          /\ held' = [ held EXCEPT ![k] = @ \cup { t } ]
  /\ UNCHANGED << db, newest, World, next, budget >>

Restoring(t) ==
  page[t].phase = "restoring" /\ page[t].loaded # NoRecord /\ page[t].queue = << >>

\* Both archives were prepared again with the same identities.
Restored(t) ==
  LET p == page[t] IN
  /\ Restoring(t)
  /\ Becomes(t, [ p EXCEPT !.phase = p.loaded.phase, !.stream = p.loaded.key, !.play = FALSE,
                    !.session = p.loaded, !.loaded = NoRecord, !.key = p.loaded.key ])
  /\ UNCHANGED << Storage, World, next, budget >>

\* Anything thrown on the way costs the record its place.
RestoreFails(t) ==
  /\ Restoring(t) /\ Fails
  /\ Becomes(t, Enqueue(page[t], Deletion(page[t].loaded, "invalid")))
  /\ UNCHANGED << Storage, World, next >>

\* pickFolder or onInputChange, and useSelection.
PickFolder(t) ==
  LET p == page[t] IN
  /\ p.phase = "empty"
  /\ Becomes(t, [ Discarded(ClearConnection(p), p.session) EXCEPT !.phase = "selected" ])
  /\ UNCHANGED << Storage, World, next, budget >>

ClearSelection(t) ==
  /\ Acts
  /\ page[t].phase = "selected"
  /\ Becomes(t, [ ClearConnection(page[t]) EXCEPT !.phase = "empty" ])
  /\ UNCHANGED << Storage, World, next >>

PrepareConnection(t) ==
  /\ page[t].phase = "selected"
  /\ Becomes(t, [ ClearConnection(page[t]) EXCEPT !.phase = "preparing" ])
  /\ UNCHANGED << Storage, World, next, budget >>

Building(t) ==
  /\ page[t].phase = "preparing"
  /\ \A i \in DOMAIN page[t].queue : ~(page[t].queue[i].then = "prepare" /\ page[t].queue[i].fresh)

\* Archive and dummy are prepared; their record goes to the queue.
Built(t) ==
  LET rec == [ key |-> next.stream, rev |-> next.revision, phase |-> "testing" ] IN
  /\ Building(t) /\ next.stream <= MaxStreams
  /\ next' = [ stream |-> next.stream + 1, revision |-> next.revision + 1 ]
  /\ Becomes(t, Enqueue(page[t], Op("save", rec, 0, "prepare")))
  /\ UNCHANGED << Storage, World, budget >>

BuildFails(t) ==
  /\ Building(t) /\ Fails
  /\ Becomes(t, [ page[t] EXCEPT !.phase = "selected" ])
  /\ UNCHANGED << Storage, World, next >>

\* validateReceipt, up to the comparison; the form is disabled meanwhile.
EnterReceipt(t, code) ==
  LET p == page[t] IN
  /\ p.phase = "testing" /\ p.check = NoCheck
  /\ \A i \in DOMAIN p.queue : ~(p.queue[i].then = "verify" /\ p.queue[i].fresh)
  /\ Acts
  /\ Becomes(t, [ p EXCEPT !.check = [ code |-> code, stream |-> p.stream ] ])
  /\ UNCHANGED << Storage, World, next >>

WrongReceipt(t) ==
  /\ page[t].check # NoCheck /\ page[t].check.code # page[t].check.stream
  /\ Becomes(t, [ page[t] EXCEPT !.check = NoCheck ])
  /\ UNCHANGED << Storage, World, next, budget >>

RightReceipt(t) ==
  LET p == [ page[t] EXCEPT !.check = NoCheck ]
      rec == [ p.session EXCEPT !.rev = next.revision, !.phase = "verified" ]
  IN
  /\ page[t].check # NoCheck /\ page[t].check.code = page[t].check.stream
  /\ IF p.session = NoRecord
     THEN Becomes(t, Unlock(p)) /\ UNCHANGED next
     ELSE /\ Becomes(t, Enqueue(p, Op("save", rec, p.session.rev, "verify")))
          /\ next' = [ next EXCEPT !.revision = @ + 1 ]
  /\ UNCHANGED << Storage, World, budget >>

\* startOrResumeStream and resumePausedStream, pauseStream and stopStream.
Playback(t) ==
  /\ page[t].phase \in { "testing", "verified" }
  /\ Becomes(t, [ page[t] EXCEPT !.play = ~@ ])
  /\ UNCHANGED << Storage, World, next, budget >>

DiscardConnection(t) ==
  LET p == page[t] IN
  /\ Acts
  /\ p.phase \in { "preparing", "testing", "verified" }
  /\ Becomes(t, [ Discarded(ClearConnection(p), p.session) EXCEPT
                    !.phase = "selected", !.gone = @ \cup ({ p.stream } \ { 0 }) ])
  /\ UNCHANGED << Storage, World, next >>

\* A receiver that saw the whole dummy shows its receipt.
ShowReceipt(t) ==
  /\ page[t].phase = "testing" /\ page[t].play
  /\ issued' = issued \cup { page[t].stream }
  /\ UNCHANGED << page, Storage, cut, next, budget >>

Reload(t) ==
  /\ Acts
  /\ Becomes(t, FreshPage(page[t].key))
  /\ cut' = (cut \/ page[t].queue # << >>)
  /\ UNCHANGED << Storage, issued, next >>

Next == \E t \in Tabs :
  \/ Load(t) \/ Restored(t) \/ RestoreFails(t)
  \/ PickFolder(t) \/ ClearSelection(t)
  \/ PrepareConnection(t) \/ Built(t) \/ BuildFails(t)
  \/ (\E code \in issued \cup { 0 } : EnterReceipt(t, code))
  \/ WrongReceipt(t) \/ RightReceipt(t)
  \/ Playback(t) \/ DiscardConnection(t) \/ ShowReceipt(t) \/ Reload(t)
  \/ Transaction(t) \/ TransactionFails(t) \/ Return(t)

Spec == Init /\ [][Next]_vars

(***************************************************************************)
(* Properties                                                              *)
(***************************************************************************)
\* File bytes are only ever on the screen of a page whose user confirmed the
\* receipt of exactly this stream and has not discarded it since, however the
\* comparison, the storage calls, other tabs and reloads interleave
\* (Sender.tsx validateReceipt, README.md:283).
FilesGated ==
  /\ TypeOK
  /\ \A t \in Tabs : page[t].phase = "verified" =>
       page[t].stream \in issued \ page[t].gone
  /\ \A k \in Streams : db[k].phase = "verified" => k \in issued

\* "Saved locally for reload-safe resume": as long as no other tab ever read
\* this revision, a reload finds exactly it, whatever older revisions other
\* tabs still hold and discard (sender-resume.ts:124).
ReloadSafe ==
  \A t \in Tabs : LET s == page[t].session IN
    s # NoRecord /\ page[t].queue = << >> /\ held[s.key] \subseteq { t } =>
      db[s.key] = s /\ page[t].key = s.key

\* A stored archive does not outlive the page that could resume or remove it:
\* not after a discard that overtook the save, nor after one by a stale tab
\* (Sender.tsx prepareConnection, validateReceipt).
NoOrphans ==
  ~cut /\ budget.failures = MaxFailures /\ (\A t \in Tabs : page[t].queue = << >>) =>
    \A k \in Streams : db[k] # NoRecord =>
      \E t \in Tabs : db[k] = page[t].session \/ page[t].phase = "restoring"

\* Records and pages match: no page promises a resume that a reload does not
\* find, and no record is without a page that could resume or remove it.
RecordsAccounted == ReloadSafe /\ NoOrphans
=============================================================================
