----------------------------- MODULE PairingGate -----------------------------
(***************************************************************************)
(* From the choice of files to the first message about them.               *)
(*   snd, task   the sending page (WebRtcSender.tsx) and each prepare()     *)
(*   rcv, join   the receiving page (WebRtcReceiver.tsx), each connect()    *)
(*   room        the rooms of the pairing service, one per attempt of the   *)
(*               sender; the service itself is module Rendezvous            *)
(*   job         the preparation of each selection in the background        *)
(*   db          the saved sources in IndexedDB (webrtc-sender-resume.ts)    *)
(* Connection generations and source generations are separate: closing a   *)
(* connection keeps the preparation, a new transfer cancels both.  Every   *)
(* asynchronous task goes on after its generation ended and looks at it    *)
(* when it resumes.  What is transferred once both devices have started is *)
(* module OfflineTransfer.                                                 *)
(***************************************************************************)
EXTENDS Integers, Sequences, FiniteSets

CONSTANTS
  MaxAttempts,     \* bound: prepare() calls of the sender
  MaxJoins,        \* bound: connect() calls of the receiver
  MaxSelections,   \* bound: selections the user makes
  MaxTries,        \* bound: attempts of both pages and selections together
  Persistent       \* whether this browser keeps IndexedDB records at all

ASSUME PairingAssumption ==
  /\ MaxAttempts \in Nat /\ MaxJoins \in Nat /\ MaxSelections \in Nat /\ MaxTries \in Nat
  /\ Persistent \in BOOLEAN

Attempts == 1 .. MaxAttempts
Joins == 1 .. MaxJoins
Selections == 1 .. MaxSelections

VARIABLES
  snd, task, rcv, join, room,
  toR, toS,     \* the data channel of the current connection
  content,      \* the content of each selection: the first selection that has it
  job, db,
  discard,      \* the record whose deletion is under way, or 0
  known,        \* history: the records saved for good, or left behind by a
                \* reload or by a deletion that failed
  consents,     \* history: << side, attempt, join >> of each confirmation
  fault         \* protocol errors one page accused the other of

connection == << task, join, room >>
saving == << content, job, db, discard, known >>
vars == << snd, rcv, connection, toR, toS, saving, consents, fault >>

\* PeerAuthorization: the transcript is the pair of attempts it was made for.
NoAuth == [ with |-> 0, local |-> FALSE, remote |-> FALSE ]
Auth(n) == [ with : 0 .. n, local : BOOLEAN, remote : BOOLEAN ]

\* Mutant: one confirmation is enough.
AuthorizedByOne(p) == p.auth.with # 0 /\ p.auth.local

Authorized(p) == p.auth.with # 0 /\ p.auth.local /\ p.auth.remote

\* The task a value of lifecycleRef stands for: an attempt, or a pick or restore.
Nobody == << "nobody", 0 >>
Owner == { Nobody } \cup ({ "attempt" } \X Attempts) \cup ({ "pick", "restore" } \X Selections)

Sender ==
  [ phase : { "idle", "scanning", "selected", "checking", "pairing", "verify",
              "preparing", "waiting", "failed" },
    attempt : 0 .. MaxAttempts,                   \* prepare() calls made so far
    owner : Owner,                                \* whose connection generation it is
    picked : 0 .. MaxSelections,                  \* selections made so far
    selection : 0 .. MaxSelections,
    source : 0 .. MaxSelections,                  \* sourceRef, manifestRef
    saved : 0 .. MaxSelections,                   \* savedSourceRef
    loading : BOOLEAN,                            \* loadWebRtcSource() on mount
    auth : Auth(MaxJoins),
    up : BOOLEAN,                                 \* the channel is open
    started : BOOLEAN ]                           \* the manifest was sent

Receiver ==
  [ phase : { "pairing", "preparing", "verify", "waiting", "failed" },
    attempt : 0 .. MaxJoins, live : BOOLEAN,
    auth : Auth(MaxAttempts),
    up : BOOLEAN,
    got : 0 .. MaxSelections ]                    \* the manifest received

Message == [ type : { "confirmed" }, by : Attempts, to : Joins ]
           \cup [ type : { "manifest" }, source : Selections ]

TypeOK ==
  /\ snd \in Sender /\ rcv \in Receiver
  /\ task \in [ Attempts -> { "none", "check", "room", "answer", "digest", "remote",
                              "end" } ]
  /\ join \in [ Joins -> [ at : { "none", "check", "join", "answer", "publish",
                                  "receipt", "end" },
                           room : 0 .. MaxAttempts ] ]
  /\ room \in [ Attempts -> [ st : { "none", "open", "claimed", "answered", "gone" },
                              by : 0 .. MaxJoins ] ]
  /\ toR \in Seq(Message) /\ toS \in Seq(Message)
  /\ content \in [ Selections -> Selections ]
  /\ job \in [ Selections -> { "none", "hash", "save", "stored", "undo" } ]
  /\ db \subseteq Selections /\ known \subseteq Selections
  /\ discard \in 0 .. MaxSelections
  /\ consents \subseteq { "sender", "receiver" } \X Attempts \X Joins
  /\ fault \subseteq { "early", "transcript", "unauthorized", "second" }

FreshPage ==
  [ phase |-> "idle", attempt |-> 0, owner |-> Nobody, picked |-> 0,
    selection |-> 0, source |-> 0, saved |-> 0, loading |-> TRUE,
    auth |-> NoAuth, up |-> FALSE, started |-> FALSE ]

Init ==
  /\ snd = FreshPage
  /\ rcv = [ phase |-> "pairing", attempt |-> 0, live |-> FALSE, auth |-> NoAuth,
             up |-> FALSE, got |-> 0 ]
  /\ task = [ a \in Attempts |-> "none" ]
  /\ join = [ j \in Joins |-> [ at |-> "none", room |-> 0 ] ]
  /\ room = [ a \in Attempts |-> [ st |-> "none", by |-> 0 ] ]
  /\ toR = << >> /\ toS = << >>
  /\ content \in { f \in [ Selections -> Selections ] :
                     \A k \in Selections : f[k] <= k /\ f[f[k]] = f[k] }
  /\ job = [ k \in Selections |-> "none" ]
  /\ db = {} /\ discard = 0 /\ known = {}
  /\ consents = {} /\ fault = {}
-----------------------------------------------------------------------------
(* Connections.                                                            *)

Current(a) == snd.owner = << "attempt", a >>
SenderLive == Current(snd.attempt)
CurrentJoin(j) == rcv.live /\ rcv.attempt = j

\* Each end's peer connection was given the other end's description.
Linked ==
  /\ SenderLive /\ snd.auth.with # 0 /\ rcv.live /\ rcv.auth.with # 0
  /\ rcv.attempt = snd.auth.with /\ snd.attempt = rcv.auth.with

Sent(queue, m) == IF Linked THEN Append(queue, m) ELSE queue
Prefixes(queue) == { SubSeq(queue, 1, n) : n \in 0 .. Len(queue) }

\* Closing drops what this end has not read and cuts what it has sent.
SenderCloses(page, owner) ==
  /\ snd' = [ page EXCEPT !.owner = owner, !.auth = NoAuth, !.up = FALSE, !.started = FALSE ]
  /\ toS' = << >>
  /\ toR' \in IF Linked /\ rcv.up THEN Prefixes(toR) ELSE { << >> }

ReceiverCloses(phase) ==
  /\ rcv' = [ rcv EXCEPT !.phase = phase, !.live = FALSE, !.auth = NoAuth,
                         !.up = FALSE, !.got = 0 ]
  /\ toR' = << >>
  /\ toS' \in IF Linked /\ snd.up THEN Prefixes(toS) ELSE { << >> }

SenderFails == SenderCloses([ snd EXCEPT !.phase = "failed" ], Nobody)

SOpen ==
  /\ Linked /\ ~ snd.up /\ task[snd.attempt] \in { "remote", "end" }
  /\ snd' = [ snd EXCEPT !.up = TRUE ]
  /\ UNCHANGED << rcv, connection, toR, toS, saving, consents, fault >>

ROpen ==
  /\ Linked /\ ~ rcv.up /\ task[snd.attempt] \in { "remote", "end" }
  /\ rcv' = [ rcv EXCEPT !.up = TRUE ]
  /\ UNCHANGED << snd, connection, toR, toS, saving, consents, fault >>

\* A step of the attempt failed, the peer closed, watchWebRtcPeerHealth gave up,
\* the channel takes no message as large as a block, or the user rejected the code.
SenderLost ==
  /\ SenderLive
  /\ SenderFails
  /\ UNCHANGED << rcv, connection, saving, consents, fault >>

ReceiverLost ==
  /\ rcv.live
  /\ ReceiverCloses("failed")
  /\ UNCHANGED << snd, connection, saving, consents, fault >>
-----------------------------------------------------------------------------
(* The gate: the transfer starts when both consents, the channel and the   *)
(* prepared source are there, whichever comes last.                        *)

Ready(page) == Authorized(page) /\ page.up /\ ~ page.started

\* Mutant: the gate opens before the source is prepared.
MaybeAuthorizeUnprepared(page, queue) ==
  \/ ~ Ready(page) /\ snd' = page /\ toR' = queue
  \/ /\ Ready(page)
     /\ snd' = [ page EXCEPT !.started = TRUE, !.phase = "waiting" ]
     /\ toR' = Sent(queue, [ type |-> "manifest", source |-> page.source ])

MaybeAuthorize(page, queue) ==
  \/ /\ ~ Ready(page)
     /\ snd' = page /\ toR' = queue
  \/ /\ Ready(page) /\ page.source = 0
     /\ snd' = [ page EXCEPT !.phase = "preparing" ] /\ toR' = queue
  \/ /\ Ready(page) /\ page.source # 0
     /\ snd' = [ page EXCEPT !.started = TRUE, !.phase = "waiting" ]
     /\ toR' = Sent(queue, [ type |-> "manifest", source |-> page.source ])

SConfirm ==
  /\ snd.phase = "verify" /\ snd.up /\ snd.auth.with # 0 /\ ~ snd.auth.local
  /\ MaybeAuthorize([ snd EXCEPT !.auth.local = TRUE ],
       Sent(toR, [ type |-> "confirmed", by |-> snd.attempt, to |-> snd.auth.with ]))
  /\ consents' = consents \cup { << "sender", snd.attempt, snd.auth.with >> }
  /\ UNCHANGED << rcv, connection, toS, saving, fault >>

RConfirm ==
  /\ rcv.phase = "verify" /\ rcv.up /\ rcv.auth.with # 0 /\ ~ rcv.auth.local
  /\ rcv' = [ rcv EXCEPT !.auth.local = TRUE,
                         !.phase = IF rcv.auth.remote THEN "waiting" ELSE @ ]
  /\ toS' = Sent(toS, [ type |-> "confirmed", by |-> rcv.auth.with, to |-> rcv.attempt ])
  /\ consents' = consents \cup { << "receiver", rcv.auth.with, rcv.attempt >> }
  /\ UNCHANGED << snd, connection, toR, saving, fault >>

\* PeerAuthorization.acceptConfirmation, on either side.
Mismatch(m, a, j) ==
  IF a = 0 \/ j = 0 THEN { "early" }
  ELSE IF << m.by, m.to >> # << a, j >> THEN { "transcript" } ELSE {}

SenderGetsConfirmed ==
  /\ snd.up /\ toS # << >>
  /\ LET accused == Mismatch(Head(toS), snd.attempt, snd.auth.with) IN
     /\ fault' = fault \cup accused
     /\ IF accused = {}
        THEN /\ MaybeAuthorize([ snd EXCEPT !.auth.remote = TRUE ], toR)
             /\ toS' = Tail(toS)
        ELSE SenderFails
  /\ UNCHANGED << rcv, connection, saving, consents >>

ReceiverGetsConfirmed ==
  /\ rcv.up /\ toR # << >> /\ Head(toR).type = "confirmed"
  /\ LET accused == Mismatch(Head(toR), rcv.auth.with, rcv.attempt) IN
     /\ fault' = fault \cup accused
     /\ IF accused = {}
        THEN /\ rcv' = [ rcv EXCEPT !.auth.remote = TRUE,
                           !.phase = IF rcv.auth.local THEN "waiting" ELSE @ ]
             /\ toR' = Tail(toR) /\ toS' = toS
        ELSE ReceiverCloses("failed")
  /\ UNCHANGED << snd, connection, saving, consents >>

ReceiverGetsManifest ==
  /\ rcv.up /\ toR # << >> /\ Head(toR).type = "manifest"
  /\ LET accused == IF ~ Authorized(rcv) THEN { "unauthorized" }
                    ELSE IF rcv.got # 0 THEN { "second" } ELSE {} IN
     /\ fault' = fault \cup accused
     /\ IF accused = {}
        THEN /\ rcv' = [ rcv EXCEPT !.got = Head(toR).source ]
             /\ toR' = Tail(toR) /\ toS' = toS
        ELSE ReceiverCloses("failed")
  /\ UNCHANGED << snd, connection, saving, consents >>
-----------------------------------------------------------------------------
(* The source: picked or restored, prepared in the background, saved.      *)

\* Mutant: a preparation does not look at its source's generation.
JobAlwaysCurrent(k) == k \in Selections

JobCurrent(k) == snd.selection = k
Newest(records) == CHOOSE k \in records : \A r \in records : r <= k

LoadSaved ==
  /\ snd.loading
  /\ snd' = [ snd EXCEPT !.loading = FALSE,
                !.saved = IF snd.phase = "idle" /\ db # {} THEN Newest(db) ELSE @ ]
  /\ UNCHANGED << rcv, connection, toR, toS, saving, consents, fault >>

\* A selection counts for two attempts to connect.
MoreTries(n) == 2 * snd.picked + snd.attempt + rcv.attempt + n <= MaxTries

PickSource ==
  /\ snd.phase = "idle" /\ snd.picked < MaxSelections /\ MoreTries(2)
  /\ LET k == snd.picked + 1 IN
       SenderCloses([ snd EXCEPT !.phase = "scanning", !.picked = k ], << "pick", k >>)
  /\ UNCHANGED << rcv, connection, saving, consents, fault >>

RestoreSource ==
  /\ snd.saved # 0 /\ snd.selection = 0 /\ snd.phase \in { "idle", "failed" }
  /\ SenderCloses([ snd EXCEPT !.phase = "checking" ], << "restore", snd.saved >>)
  /\ UNCHANGED << rcv, connection, saving, consents, fault >>

\* The picker or the restore answers: with files, a cancelled dialog or an error.
\* If its generation has ended the answer is dropped, which is no step here.
Scanned(kind, k) ==
  /\ snd.owner = << kind, k >>
  /\ snd' = [ snd EXCEPT !.owner = Nobody, !.phase = "selected", !.selection = k,
                         !.source = IF kind = "restore" THEN k ELSE @ ]
  /\ UNCHANGED << rcv, connection, toR, toS, saving, consents, fault >>

ScanFails(kind, k) ==
  /\ snd.owner = << kind, k >>
  /\ \/ SenderFails
     \/ kind = "pick" /\ SenderCloses([ snd EXCEPT !.phase = "idle" ], Nobody)
  /\ UNCHANGED << rcv, connection, saving, consents, fault >>

\* ensureSourcePrepared on the page as prepare() leaves it.
EnsureSourcePrepared(page) ==
  IF page.source # 0
  THEN MaybeAuthorize(page, toR) /\ job' = job
  ELSE /\ snd' = page /\ toR' = toR
       /\ job' = IF page.selection # 0 /\ job[page.selection] = "none"
                 THEN [ job EXCEPT ![page.selection] = "hash" ] ELSE job

\* Mutant: the end of the preparation does not look at the gate.
FinishQuietly(k, record) ==
  /\ snd' = [ snd EXCEPT !.source = k, !.saved = record ]
  /\ job' = [ job EXCEPT ![k] = "none" ]
  /\ UNCHANGED << toR, toS >>

\* The end of a preparation: the source is ready and the gate looks again.
Finish(k, record) ==
  /\ MaybeAuthorize([ snd EXCEPT !.source = k, !.saved = record ], toR)
  /\ job' = [ job EXCEPT ![k] = "none" ]
  /\ toS' = toS

Drop(k) ==
  /\ job' = [ job EXCEPT ![k] = "none" ]
  /\ UNCHANGED << snd, toR, toS >>

Hashed(k) ==
  /\ job[k] = "hash"
  /\ IF ~ JobCurrent(k) THEN Drop(k)
     ELSE IF snd.saved # 0 /\ content[snd.saved] = content[k] THEN Finish(k, snd.saved)
     ELSE job' = [ job EXCEPT ![k] = "save" ] /\ UNCHANGED << snd, toR, toS >>
  /\ UNCHANGED << rcv, connection, content, db, discard, known, consents, fault >>

HashFails(k) ==
  /\ job[k] = "hash"
  /\ IF JobCurrent(k) THEN SenderFails /\ job' = [ job EXCEPT ![k] = "none" ] ELSE Drop(k)
  /\ UNCHANGED << rcv, connection, content, db, discard, known, consents, fault >>

\* IndexedDB runs the page's transactions in order: the load comes first.
SaveCommits(k) ==
  /\ job[k] = "save" /\ ~ snd.loading /\ Persistent
  /\ db' = db \cup { k }
  /\ job' = [ job EXCEPT ![k] = "stored" ]
  /\ UNCHANGED << snd, rcv, connection, toR, toS, content, discard, known, consents, fault >>

SaveFails(k) ==
  /\ job[k] = "save" /\ ~ snd.loading
  /\ IF JobCurrent(k) THEN Finish(k, snd.saved) ELSE Drop(k)
  /\ UNCHANGED << rcv, connection, content, db, discard, known, consents, fault >>

\* Mutant: the record of a discarded selection is left behind.
SaveReturnsWithoutUndo(k) ==
  /\ job[k] = "stored"
  /\ IF JobCurrent(k) THEN Finish(k, k) /\ known' = known \cup { k }
                      ELSE Drop(k) /\ known' = known
  /\ UNCHANGED << rcv, connection, content, db, discard, consents, fault >>

\* saveWebRtcSource returned: keep the record, or delete a discarded source's.
SaveReturns(k) ==
  /\ job[k] = "stored"
  /\ IF JobCurrent(k)
     THEN Finish(k, k) /\ known' = known \cup { k }
     ELSE /\ job' = [ job EXCEPT ![k] = "undo" ]
          /\ UNCHANGED << snd, toR, toS, known >>
  /\ UNCHANGED << rcv, connection, content, db, discard, consents, fault >>

UndoSave(k) ==
  /\ job[k] = "undo"
  /\ \/ db' = db \ { k } /\ known' = known
     \/ db' = db /\ known' = known \cup { k }
  /\ Drop(k)
  /\ UNCHANGED << rcv, connection, content, discard, consents, fault >>

DiscardSaved ==
  /\ snd.saved # 0 /\ snd.selection = 0 /\ snd.phase \in { "idle", "failed" } /\ discard = 0
  /\ discard' = snd.saved
  /\ UNCHANGED << snd, rcv, connection, toR, toS, content, job, db, known, consents, fault >>

DiscardCommits ==
  /\ discard \in db
  /\ db' = db \ { discard }
  /\ UNCHANGED << snd, rcv, connection, toR, toS, content, job, discard, known,
                  consents, fault >>

\* The deletion is answered, or failed before it was done.
DiscardReturns ==
  /\ discard # 0
  /\ discard' = 0
  /\ snd' = [ snd EXCEPT !.saved = IF discard \notin db /\ @ = discard THEN 0 ELSE @ ]
  /\ UNCHANGED << rcv, connection, toR, toS, content, job, db, known, consents, fault >>
-----------------------------------------------------------------------------
(* An attempt of the sender.                                               *)

Unmoved == UNCHANGED << rcv, join, saving, consents, fault >>

Prepare ==
  /\ snd.selection # 0 /\ snd.phase \in { "selected", "failed" }
  /\ snd.attempt < MaxAttempts /\ MoreTries(1)
  /\ LET a == snd.attempt + 1 IN
     /\ SenderCloses([ snd EXCEPT !.phase = "checking", !.attempt = a ], << "attempt", a >>)
     /\ task' = [ task EXCEPT ![a] = "check" ]
  /\ Unmoved /\ UNCHANGED room

\* The service is there, the offer is made, the request for a room leaves.
OfferMade(a) ==
  /\ task[a] = "check" /\ Current(a)
  /\ task' = [ task EXCEPT ![a] = "room" ]
  /\ Unmoved /\ UNCHANGED << snd, room, toR, toS >>

RoomOpens(a) ==
  /\ task[a] = "room" /\ room[a].st = "none"
  /\ room' = [ room EXCEPT ![a].st = "open" ]
  /\ Unmoved /\ UNCHANGED << snd, task, toR, toS >>

RoomMade(a) ==
  /\ task[a] = "room" /\ room[a].st # "none" /\ Current(a)
  /\ EnsureSourcePrepared([ snd EXCEPT !.phase = "pairing" ])
  /\ task' = [ task EXCEPT ![a] = "answer" ]
  /\ UNCHANGED << rcv, join, room, toS, content, db, discard, known, consents, fault >>

TakeAnswer(a) ==
  /\ task[a] = "answer" /\ room[a].st = "answered" /\ Current(a)
  /\ task' = [ task EXCEPT ![a] = "digest" ]
  /\ Unmoved /\ UNCHANGED << snd, room, toR, toS >>

\* PeerAuthorization.create hashes the transcript of the attempt.
Digested(a) ==
  /\ task[a] = "digest" /\ Current(a)
  /\ snd' = [ snd EXCEPT !.auth = [ NoAuth EXCEPT !.with = room[a].by ] ]
  /\ task' = [ task EXCEPT ![a] = "remote" ]
  /\ Unmoved /\ UNCHANGED << room, toR, toS >>

RemoteSet(a) ==
  /\ task[a] = "remote" /\ Current(a)
  /\ snd' = [ snd EXCEPT !.phase = "verify" ]
  /\ task' = [ task EXCEPT ![a] = "end" ]
  /\ room' = [ room EXCEPT ![a].st = "gone" ]
  /\ Unmoved /\ UNCHANGED << toR, toS >>

\* What an attempt of an older generation comes to: it looks, and stops.
AttemptStale(a) ==
  /\ task[a] \notin { "none", "end" } /\ ~ Current(a)
  /\ task' = [ task EXCEPT ![a] = "end" ]
  /\ Unmoved /\ UNCHANGED << snd, room, toR, toS >>

\* Expired, or cancelled by its sender, whose attempt ended.  The answer, once
\* taken, is the page's own: when the room of a taken answer goes matters no more.
RoomGoes(a) ==
  /\ room[a].st \in { "open", "claimed", "answered" } /\ task[a] \notin { "digest", "remote" }
  /\ room' = [ room EXCEPT ![a].st = "gone" ]
  /\ Unmoved /\ UNCHANGED << snd, task, toR, toS >>

StopConnection ==
  /\ \/ snd.phase \notin { "idle", "selected", "failed" }
     \/ snd.selection # 0 /\ job[snd.selection] # "none"
  /\ SenderCloses([ snd EXCEPT !.phase = IF snd.selection # 0 THEN "selected" ELSE "idle" ],
                  Nobody)
  /\ Unmoved /\ UNCHANGED << task, room >>

\* New transfer: both generations end.
Reset ==
  /\ snd.phase \in { "selected", "failed" }
  /\ SenderCloses([ snd EXCEPT !.phase = "idle", !.selection = 0, !.source = 0 ], Nobody)
  /\ Unmoved /\ UNCHANGED << task, room >>

\* The page is reloaded: what it was doing is cut anywhere; what its requests
\* to the service and to IndexedDB still do is done.
Reload ==
  /\ SenderCloses([ FreshPage EXCEPT !.attempt = snd.attempt, !.picked = snd.picked ], Nobody)
  /\ job' = [ k \in Selections |-> "none" ]
  /\ discard' = 0
  /\ \E landed \in SUBSET { k \in Selections : job[k] = "save" },
        erased \in SUBSET ({ discard } \cup { k \in Selections : job[k] = "undo" }) :
       db' = (db \cup landed) \ erased
  /\ known' = known \cup db'
  /\ UNCHANGED << rcv, connection, content, consents, fault >>
-----------------------------------------------------------------------------
(* An attempt of the receiver.                                             *)

Settled == UNCHANGED << snd, task, saving, consents, fault >>

Connect ==
  /\ rcv.phase = "pairing" /\ rcv.attempt < MaxJoins /\ MoreTries(1)
  /\ LET j == rcv.attempt + 1 IN
     /\ rcv' = [ rcv EXCEPT !.phase = "preparing", !.attempt = j, !.live = TRUE ]
     /\ join' = [ join EXCEPT ![j].at = "check" ]
  /\ Settled /\ UNCHANGED << room, toR, toS >>

JoinReady(j) ==
  /\ join[j].at = "check" /\ CurrentJoin(j)
  /\ join' = [ join EXCEPT ![j].at = "join" ]
  /\ Settled /\ UNCHANGED << rcv, room, toR, toS >>

\* The service claims a room for the code the user typed.
JoinRoom(j, a) ==
  /\ join[j].at = "join" /\ room[a].st = "open"
  /\ room' = [ room EXCEPT ![a] = [ st |-> "claimed", by |-> j ] ]
  /\ join' = [ join EXCEPT ![j] = [ at |-> "answer", room |-> a ] ]
  /\ Settled /\ UNCHANGED << rcv, toR, toS >>

Answer(j) ==
  /\ join[j].at = "answer" /\ CurrentJoin(j)
  /\ rcv' = [ rcv EXCEPT !.phase = "verify", !.auth = [ NoAuth EXCEPT !.with = join[j].room ] ]
  /\ join' = [ join EXCEPT ![j].at = "publish" ]
  /\ Settled /\ UNCHANGED << room, toR, toS >>

Publish(j) ==
  /\ join[j].at = "publish" /\ room[join[j].room].st = "claimed"
  /\ room' = [ room EXCEPT ![join[j].room].st = "answered" ]
  /\ join' = [ join EXCEPT ![j].at = "receipt" ]
  /\ Settled /\ UNCHANGED << rcv, toR, toS >>

Published(j) ==
  /\ join[j].at = "receipt"
  /\ join' = [ join EXCEPT ![j].at = "end" ]
  /\ Settled /\ UNCHANGED << rcv, room, toR, toS >>

\* Refused, or the receipt is lost: an open channel outweighs it.
PublishFails(j) ==
  /\ join[j].at \in { "publish", "receipt" }
  /\ join' = [ join EXCEPT ![j].at = "end" ]
  /\ IF CurrentJoin(j) /\ ~ rcv.up THEN ReceiverCloses("failed")
                                   ELSE UNCHANGED << rcv, toR, toS >>
  /\ Settled /\ UNCHANGED room

JoinStale(j) ==
  /\ join[j].at \in { "check", "join", "answer" } /\ ~ CurrentJoin(j)
  /\ join' = [ join EXCEPT ![j].at = "end" ]
  /\ Settled /\ UNCHANGED << rcv, room, toR, toS >>

\* Stop and reconnect, or Reconnect and resume.
ReceiverReset ==
  /\ rcv.phase # "pairing"
  /\ ReceiverCloses("pairing")
  /\ Settled /\ UNCHANGED << join, room >>
-----------------------------------------------------------------------------
Next ==
  \/ SOpen \/ ROpen \/ SenderLost \/ ReceiverLost
  \/ SConfirm \/ RConfirm
  \/ SenderGetsConfirmed \/ ReceiverGetsConfirmed \/ ReceiverGetsManifest
  \/ LoadSaved \/ PickSource \/ RestoreSource
  \/ DiscardSaved \/ DiscardCommits \/ DiscardReturns
  \/ \E k \in Selections :
       \/ \E kind \in { "pick", "restore" } : Scanned(kind, k) \/ ScanFails(kind, k)
       \/ Hashed(k) \/ HashFails(k)
       \/ SaveCommits(k) \/ SaveFails(k) \/ SaveReturns(k) \/ UndoSave(k)
  \/ Prepare \/ StopConnection \/ Reset \/ Reload
  \/ \E a \in Attempts :
       \/ OfferMade(a) \/ RoomOpens(a) \/ RoomMade(a)
       \/ TakeAnswer(a) \/ Digested(a) \/ RemoteSet(a) \/ AttemptStale(a) \/ RoomGoes(a)
  \/ Connect \/ ReceiverReset
  \/ \E j \in Joins :
       \/ JoinReady(j) \/ Answer(j) \/ Publish(j) \/ Published(j) \/ PublishFails(j)
       \/ JoinStale(j) \/ \E a \in Attempts : JoinRoom(j, a)

Spec == Init /\ [][Next]_vars
-----------------------------------------------------------------------------
\* No file reaches or is announced to the other device before both people
\* confirmed the code of this very connection (README.md:203).
FilesNeedBothConsents ==
  /\ TypeOK
  /\ rcv.got # 0 =>
       \A side \in { "sender", "receiver" } : << side, rcv.auth.with, rcv.attempt >> \in consents
  /\ snd.started =>
       \A side \in { "sender", "receiver" } : << side, snd.attempt, snd.auth.with >> \in consents

\* Whichever of the consents, the channel and the preparation comes last starts
\* the transfer (SPEC-pairing-preparation.md:16): none of them waits for ever.
StartsWhenReady == Ready(snd) => snd.source = 0

\* Two unmodified pages never accuse each other of a protocol error: whatever
\* attempts, losses and retries interleave, no confirmation arrives at a page
\* without its transcript, and no manifest unauthorized or twice.
NoHonestAccusation == fault = {}

\* Two honest people who confirm are neither kept waiting nor accused.
HonestPairStarts == StartsWhenReady /\ NoHonestAccusation

\* The manifest a receiver has is of what the sender's page shows as selected:
\* a preparation of a discarded selection never becomes the source of a later
\* transfer (SPEC-pairing-preparation.md:24).
SentIsSelected ==
  /\ snd.source \in { 0, snd.selection }
  /\ Linked /\ rcv.got # 0 => rcv.got = snd.selection

\* No saved source outlives its discarded selection, except where a reload or a
\* failed deletion left it; and the record the page offers to recover exists,
\* unless its deletion is under way.
RecordsAccounted ==
  /\ \A k \in db \ known : job[k] \in { "stored", "undo" }
  /\ snd.saved \in { 0, discard } \cup db

\* What is sent and what is kept belong to the selection the user sees, however
\* late the preparation of an earlier one ends.
SelectionRules == SentIsSelected /\ RecordsAccounted
-----------------------------------------------------------------------------
(* The inductive invariant behind the three properties.                    *)

Confirms(queue, i) == queue[i].type = "confirmed"
Announces(queue, i) == queue[i].type = "manifest"

\* What may be under way to a receiving page, and what to a sending page.
ForReceiver(queue, page) ==
  \A i \in 1 .. Len(queue) :
    /\ Confirms(queue, i) => queue[i].by = page.auth.with /\ queue[i].to = page.attempt
    /\ Announces(queue, i) =>
         /\ page.auth.local /\ page.got = 0
         /\ page.auth.remote \/ \E k \in 1 .. i - 1 : Confirms(queue, k)
         /\ \A k \in 1 .. Len(queue) : Announces(queue, k) => k = i

ForSender(queue, page) ==
  \A i \in 1 .. Len(queue) :
    Confirms(queue, i) /\ queue[i].by = page.attempt /\ queue[i].to = page.auth.with

\* Rooms, attempts and joins refer to each other and only once.
RoomInv ==
  /\ \A a \in Attempts :
       /\ a > snd.attempt => task[a] = "none" /\ room[a].st = "none"
       /\ room[a].st = "answered" =>
            room[a].by # 0 /\ join[room[a].by].room = a /\ join[room[a].by].at \in { "receipt", "end" }
       /\ task[a] \in { "digest", "remote" } => room[a].st = "answered"
  /\ \A j \in Joins :
       /\ j > rcv.attempt => join[j].at = "none"
       /\ join[j].at \in { "none", "check", "join" } => join[j].room = 0
       /\ join[j].at \in { "answer", "publish", "receipt" } => join[j].room # 0
       /\ join[j].room # 0 =>
            room[join[j].room].st \notin { "none", "open" } /\ room[join[j].room].by = j

\* What the sending page was told comes from the receiver of this very attempt.
SenderInv ==
  /\ snd.owner[1] = "attempt" => SenderLive
  /\ snd.auth.with = 0 =>
       snd.auth = NoAuth /\ ~ snd.up /\ ~ snd.started /\ toS = << >>
  /\ snd.auth.with # 0 =>
       /\ SenderLive /\ task[snd.attempt] \in { "remote", "end" }
       /\ join[snd.auth.with].room = snd.attempt
       /\ join[snd.auth.with].at \in { "receipt", "end" }
  /\ snd.auth.local => snd.up /\ << "sender", snd.attempt, snd.auth.with >> \in consents
  /\ snd.auth.remote \/ toS # << >> => << "receiver", snd.attempt, snd.auth.with >> \in consents
  /\ snd.auth.remote => snd.up
  /\ snd.started => Authorized(snd)
  /\ ForSender(toS, snd)

\* What the receiving page was told comes from the sender that it joined, and a
\* manifest follows both consents.
ReceiverInv ==
  /\ rcv.phase = "pairing" => ~ rcv.live
  /\ rcv.live => rcv.attempt # 0
  /\ rcv.auth.with = 0 => rcv.auth = NoAuth /\ ~ rcv.up /\ rcv.got = 0 /\ toR = << >>
  /\ rcv.auth.with # 0 =>
       /\ rcv.live /\ join[rcv.attempt].room = rcv.auth.with
       /\ join[rcv.attempt].at \in { "publish", "receipt", "end" }
  /\ rcv.up \/ toR # << >> => task[rcv.auth.with] \in { "remote", "end" }
  /\ rcv.auth.local => rcv.up /\ << "receiver", rcv.auth.with, rcv.attempt >> \in consents
  /\ rcv.auth.remote \/ toR # << >> => << "sender", rcv.auth.with, rcv.attempt >> \in consents
  /\ rcv.auth.remote => rcv.up
  /\ rcv.got # 0 => Authorized(rcv)
  /\ ForReceiver(toR, rcv)

\* Two linked pages agree on how far they are.
LinkInv ==
  Linked =>
    /\ snd.auth.remote \/ toS # << >> => rcv.auth.local
    /\ snd.auth.local => rcv.auth.remote \/ \E i \in 1 .. Len(toR) : Confirms(toR, i)
    /\ rcv.got # 0 => snd.started /\ rcv.got = snd.selection
    /\ \A i \in 1 .. Len(toR) :
         Announces(toR, i) => snd.started /\ toR[i].source = snd.selection

\* A selection is new when it is picked, and is not prepared twice.
SourceInv ==
  /\ snd.source \in { 0, snd.selection }
  /\ snd.phase = "idle" \/ snd.owner[1] \in { "pick", "restore" } => snd.selection = 0
  /\ snd.loading => \A k \in Selections : job[k] \notin { "stored", "undo" }
  /\ \A k \in Selections :
       /\ k > snd.picked =>
            /\ job[k] = "none" /\ k \notin db \cup { snd.saved, discard, snd.selection }
            /\ snd.owner \notin { << "pick", k >>, << "restore", k >> }
       /\ job[k] \in { "hash", "save" } => k \notin db
       /\ job[k] = "stored" => k \in db
       /\ job[k] = "undo" => snd.selection # k
       /\ job[k] # "none" => k \notin { snd.saved, discard }
       /\ snd.owner = << "restore", k >> => job[k] = "none"
       /\ snd.owner = << "pick", k >> => job[k] = "none" /\ k \notin db \cup { snd.saved, discard }
       /\ snd.selection = k /\ snd.source = 0 =>
            /\ k \notin { snd.saved, discard }
            /\ job[k] = "none" => k \notin db

PairingInv ==
  /\ TypeOK /\ RoomInv /\ SenderInv /\ ReceiverInv /\ LinkInv
  /\ StartsWhenReady /\ NoHonestAccusation /\ SourceInv /\ RecordsAccounted
=============================================================================
