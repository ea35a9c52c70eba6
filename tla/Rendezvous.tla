------------------------------ MODULE Rendezvous ------------------------------
(***************************************************************************)
(* How two browsers find each other by a six-digit code: the RoomRegistry  *)
(* of every device's local runtime (scripts/rendezvous.mjs), discovery by  *)
(* UDP broadcast, the offer and the answer over TCP, and the two browser   *)
(* sides (src/lib/webrtc-rendezvous.ts).                                   *)
(*                                                                         *)
(* A join stands for one request to join, with the requestId, nonce and    *)
(* proof drawn for it, and for the answer description its browser makes;   *)
(* a room stands for one offer with its session and tokens.  Tokens and    *)
(* session identifiers can not be guessed, so a message that carries them  *)
(* names its room and its join.  UDP messages stay in their set once sent: *)
(* they may be received late, often or never.  A TCP exchange happens at   *)
(* once at the server, and its response may be lost.                       *)
(* Every handler of the registry first drops rooms past their expiry, so   *)
(* expiry is an action that may happen at any time after creation.         *)
(***************************************************************************)
EXTENDS Integers, FiniteSets

CONSTANTS
  Devices,    \* machines with a runtime, all on one network
  Rooms,      \* offers that may be published
  Requests,   \* requests to join that may be made
  Codes,      \* six-digit codes
  RoomHost,   \* the device of a room's sender
  JoinHost,   \* the device of a join's receiver
  MaxRooms,   \* MAX_ACTIVE_ROOMS
  NoJoin, NoRoom, NoCode

ASSUME RendezvousAssumption ==
  /\ RoomHost \in [ Rooms -> Devices ]
  /\ JoinHost \in [ Requests -> Devices ]
  /\ MaxRooms \in Nat \ {0}
  /\ NoJoin \notin Requests /\ NoRoom \notin Rooms /\ NoCode \notin Codes

VARIABLES
  registry,  \* what a registry holds of a room, a record of type Room
  sender,    \* the sender's wait for an answer
  peer,      \* the join whose answer the sender took
  request,   \* a request to join, a record of type Join
  asked,     \* joins whose discovery request was broadcast
  advert     \* advertisements sent back, as pairs of join and room

serviceVars == << registry, sender, peer, request, asked, advert >>

Room ==
  [ state : { "new", "open", "gone" },
    code : Codes \cup {NoCode},
    claim : Requests \cup {NoJoin},
    answer : Requests \cup {NoJoin} ]

Join ==
  [ state : { "new", "asking", "found", "offered", "published", "unsure", "failed" },
    code : Codes \cup {NoCode},
    room : Rooms \cup {NoRoom} ]

ServiceTypeOK ==
  /\ registry \in [ Rooms -> Room ]
  /\ sender \in [ Rooms -> { "new", "polling", "paired", "failed" } ]
  /\ peer \in [ Rooms -> Requests \cup {NoJoin} ]
  /\ request \in [ Requests -> Join ]
  /\ asked \subseteq Requests
  /\ advert \subseteq Requests \X Rooms

ServiceInit ==
  /\ registry = [ r \in Rooms |->
               [ state |-> "new", code |-> NoCode, claim |-> NoJoin, answer |-> NoJoin ] ]
  /\ sender = [ r \in Rooms |-> "new" ]
  /\ peer = [ r \in Rooms |-> NoJoin ]
  /\ request = [ j \in Requests |-> [ state |-> "new", code |-> NoCode, room |-> NoRoom ] ]
  /\ asked = {} /\ advert = {}

OpenAt(d) == { r \in Rooms : RoomHost[r] = d /\ registry[r].state = "open" }
UsedCodes(d) == { registry[r].code : r \in OpenAt(d) }

Gone(R) == [ r \in Rooms |-> IF r \in R THEN [ registry[r] EXCEPT !.state = "gone" ] ELSE registry[r] ]
-----------------------------------------------------------------------------
(* The registry.                                                           *)

\* Mutant: a code in use on this device is not drawn again.
CreateAnyCode(r) ==
  /\ registry[r].state = "new"
  /\ Cardinality(OpenAt(RoomHost[r])) < MaxRooms
  /\ \E c \in Codes : registry' = [ registry EXCEPT ![r].state = "open", ![r].code = c ]
  /\ sender' = [ sender EXCEPT ![r] = "polling" ]
  /\ UNCHANGED << peer, request, asked, advert >>

\* create(): a code that no open room of this device uses.
Create(r) ==
  /\ registry[r].state = "new"
  /\ Cardinality(OpenAt(RoomHost[r])) < MaxRooms
  /\ \E c \in Codes \ UsedCodes(RoomHost[r]) :
       registry' = [ registry EXCEPT ![r].state = "open", ![r].code = c ]
  /\ sender' = [ sender EXCEPT ![r] = "polling" ]
  /\ UNCHANGED << peer, request, asked, advert >>

\* Mutant: whoever asks last has the claim.
DiscoverableByAll(d, c, j) ==
  { r \in OpenAt(d) : registry[r].answer = NoJoin /\ registry[r].code = c }

\* discover(): an open room with this code, unanswered and not claimed by
\* another request.
Discoverable(d, c, j) ==
  { r \in OpenAt(d) : /\ registry[r].answer = NoJoin /\ registry[r].code = c
                      /\ registry[r].claim \in {NoJoin, j} }

\* Mutant: the claim is noted for the address, not for the request.
ClaimedByHost(r, j) == [ registry EXCEPT ![r].claim = JoinHost[j] ]

Claimed(r, j) == [ registry EXCEPT ![r].claim = j ]

\* getOffer() and acceptAnswer() serve the claimant only.
Serves(r, j) == registry[r].state = "open" /\ registry[r].claim = j

\* acceptAnswer(): the same answer again is accepted, another one is not.
AcceptsAnswer(r, j) == Serves(r, j) /\ registry[r].answer \in {NoJoin, j}

\* The two minutes are over.
Expire(r) ==
  /\ registry[r].state = "open"
  /\ registry' = Gone({r})
  /\ UNCHANGED << sender, peer, request, asked, advert >>

\* The runtime is stopped: it forgets its rooms, and requests to it fail.
Restart(d) ==
  /\ registry' = Gone(OpenAt(d))
  /\ request' = [ j \in Requests |->
                 IF JoinHost[j] = d /\ request[j].state \in { "asking", "found", "offered" }
                 THEN [ request[j] EXCEPT !.state = "failed" ] ELSE request[j] ]
  /\ request' # request \/ registry' # registry
  /\ UNCHANGED << sender, peer, asked, advert >>
-----------------------------------------------------------------------------
(* The sender's browser.                                                   *)

\* waitForRendezvousAnswer(): the room is answered; prepare() then cancels it,
\* and that request may be lost.
AnswerTaken(r) ==
  /\ sender[r] = "polling"
  /\ registry[r].state = "open" /\ registry[r].answer # NoJoin
  /\ sender' = [ sender EXCEPT ![r] = "paired" ]
  /\ peer' = [ peer EXCEPT ![r] = registry[r].answer ]
  /\ registry' \in { registry, Gone({r}) }
  /\ UNCHANGED << request, asked, advert >>

\* The poll finds no room, fails, or the user stops: the room may be left.
GiveUp(r) ==
  /\ sender[r] = "polling"
  /\ sender' = [ sender EXCEPT ![r] = "failed" ]
  /\ registry' \in { registry, Gone({r}) }
  /\ UNCHANGED << peer, request, asked, advert >>
-----------------------------------------------------------------------------
(* The receiver's browser and its runtime.                                 *)

Becomes(j, s, r) == request' = [ request EXCEPT ![j].state = s, ![j].room = r ]

\* POST /join: a room of this device's own registry is taken at once,
\* otherwise the network is asked.
Ask(j) ==
  /\ request[j].state = "new"
  /\ \E c \in Codes :
       LET own == Discoverable(JoinHost[j], c, j) IN
         IF own # {}
         THEN \E r \in own :
                /\ registry' = Claimed(r, j)
                /\ request' = [ request EXCEPT ![j] = [ state |-> "offered", code |-> c, room |-> r ] ]
                /\ asked' = asked
         ELSE /\ request' = [ request EXCEPT ![j].state = "asking", ![j].code = c ]
              /\ asked' = asked \cup {j}
              /\ registry' = registry
  /\ UNCHANGED << sender, peer, advert >>

\* POST /join with the sender's address: one request that discovers, claims
\* and returns the offer.
AskAddress(j, d) ==
  /\ request[j].state = "new"
  /\ \E c \in Codes, r \in Rooms :
       /\ r \in Discoverable(d, c, j)
       /\ registry' = Claimed(r, j)
       /\ \E s \in { "offered", "failed" } :
            request' = [ request EXCEPT ![j] = [ state |-> s, code |-> c, room |-> r ] ]
  /\ UNCHANGED << sender, peer, asked, advert >>

\* A broadcast request, new or old, reaches a runtime: it claims and replies.
HearRequest(j, d) ==
  /\ j \in asked
  /\ \E r \in Discoverable(d, request[j].code, j) :
       /\ registry' = Claimed(r, j)
       /\ advert' = advert \cup { << j, r >> }
  /\ UNCHANGED << sender, peer, request, asked >>

\* Mutant: a second advertisement settles a discovery again.
HearAdvertAgain(j, r) ==
  /\ << j, r >> \in advert
  /\ request[j].state \in { "asking", "found", "offered", "published" }
  /\ Becomes(j, "found", r)
  /\ UNCHANGED << registry, sender, peer, asked, advert >>

\* The first advertisement of a pending discovery settles it.
HearAdvert(j, r) ==
  /\ << j, r >> \in advert
  /\ request[j].state = "asking"
  /\ Becomes(j, "found", r)
  /\ UNCHANGED << registry, sender, peer, asked, advert >>

\* TCP: the offer, to the claimant only.  Refusal or a lost response fails.
FetchOffer(j) ==
  /\ request[j].state = "found"
  /\ \/ Serves(request[j].room, j) /\ Becomes(j, "offered", request[j].room)
     \/ Becomes(j, "failed", request[j].room)
  /\ UNCHANGED << registry, sender, peer, asked, advert >>

\* Mutant: a lost response counts as success although the request was lost too.
PublishBlindly(j) ==
  /\ request[j].state = "offered"
  /\ \/ /\ AcceptsAnswer(request[j].room, j)
        /\ registry' = [ registry EXCEPT ![request[j].room].answer = j ]
     \/ registry' = registry
  /\ Becomes(j, "published", request[j].room)
  /\ UNCHANGED << sender, peer, asked, advert >>

\* The answer is accepted; if the response is lost the receiver can not tell,
\* and only the direct channel will.
PublishAnswer(j) ==
  /\ request[j].state = "offered" /\ AcceptsAnswer(request[j].room, j)
  /\ registry' = [ registry EXCEPT ![request[j].room].answer = j ]
  /\ Becomes(j, "published", request[j].room) \/ Becomes(j, "unsure", request[j].room)
  /\ UNCHANGED << sender, peer, asked, advert >>

\* Discovery timed out, the join or the room expired, the user stopped.
JoinFails(j) ==
  /\ request[j].state \in { "asking", "found", "offered" }
  /\ Becomes(j, "failed", request[j].room)
  /\ UNCHANGED << registry, sender, peer, asked, advert >>

ServiceNext ==
  \/ \E r \in Rooms : Create(r) \/ Expire(r) \/ AnswerTaken(r) \/ GiveUp(r)
  \/ \E d \in Devices : Restart(d)
  \/ \E j \in Requests : Ask(j) \/ FetchOffer(j) \/ PublishAnswer(j) \/ JoinFails(j)
  \/ \E j \in Requests, d \in Devices : AskAddress(j, d) \/ HearRequest(j, d)
  \/ \E j \in Requests, r \in Rooms : HearAdvert(j, r)

ServiceSpec == ServiceInit /\ [][ServiceNext]_serviceVars
-----------------------------------------------------------------------------
\* Joins that have a room's offer description.
Holders(r) ==
  { j \in Requests : request[j].room = r /\ request[j].state \in { "offered", "published", "unsure" } }

\* A room is single-use (README.md:198): however requests are repeated, delayed
\* or crossed, at most one join is ever given its offer.
SingleUse == \A r \in Rooms : \A i, j \in Holders(r) : i = j

\* A sender is paired with the one join that holds its offer and that was made
\* with the code it showed, not with one that took another room (so two senders
\* never take one join, also if two devices show the same code).
PairedWithHolder ==
  \A r \in Rooms :
    sender[r] = "paired" => Holders(r) = {peer[r]} /\ request[peer[r]].code = registry[r].code

\* A receiver told that its answer was accepted is right: the sender has taken
\* it, can still take it, or has given up on its side.
PublishedIsHeld ==
  \A j \in Requests :
    request[j].state = "published" => registry[request[j].room].answer = j

\* One room, one join, in every well-typed state of the service.
RoomsServeOne == ServiceTypeOK /\ SingleUse

\* Both ends of a room agree on who is in it, whatever was lost on the way.
PeersAgree == PairedWithHolder /\ PublishedIsHeld

\* A code names one open room of a device (SPEC-room-collision.md).
CodesUnique ==
  \A r1, r2 \in Rooms :
    /\ RoomHost[r1] = RoomHost[r2]
    /\ registry[r1].state = "open" /\ registry[r2].state = "open"
    /\ registry[r1].code = registry[r2].code
    => r1 = r2
=============================================================================
