--------------------------- MODULE ConnectionProofs ---------------------------
(***************************************************************************)
(* Proofs about how two browsers come to a connection and what they then   *)
(* agree on before a file moves.                                           *)
(*                                                                         *)
(* First Rendezvous, for any number of devices, rooms, joins and codes:    *)
(* requests may be repeated, delayed, lost and crossed at will.            *)
(*                                                                         *)
(* Then PairingGate, for any number of attempts, joins and selections.     *)
(* The invariant has a part per concern: rooms (RoomInv), each page        *)
(* (SenderInv, ReceiverInv), what linked pages agree on (LinkInv), and the *)
(* sources (SourceInv, RecordsAccounted).  The first lemmas say what the   *)
(* operators shared by the actions do; then each part is shown to be kept  *)
(* by the actions that touch it, and by those that do not.                 *)
(***************************************************************************)
EXTENDS PairingGate, Rendezvous, SequenceTheorems, WellFoundedInduction, TLAPS

USE RendezvousAssumption


Answering == { "published", "unsure" }

\* What a room records about the join it is claimed for.
RegistryInv(r) ==
  /\ registry[r].state = "new" => registry[r].claim = NoJoin
  /\ registry[r].answer # NoJoin =>
       /\ registry[r].answer = registry[r].claim
       /\ request[registry[r].answer].room = r
       /\ request[registry[r].answer].state \in Answering
  /\ registry[r].claim # NoJoin =>
       /\ request[registry[r].claim].code = registry[r].code
       /\ request[registry[r].claim].state # "new"
  /\ sender[r] = "paired" => peer[r] = registry[r].answer /\ peer[r] # NoJoin

\* What a join may rely on about the room it found.
JoinInv(j) ==
  /\ request[j].room # NoRoom => registry[request[j].room].claim = j
  /\ request[j].state \in { "new", "asking" } => request[j].room = NoRoom
  /\ request[j].state \in { "found", "offered" } \cup Answering => request[j].room \in Rooms
  /\ request[j].state \in Answering => registry[request[j].room].answer = j

\* What is on the network.
NetInv ==
  /\ \A j \in asked : request[j].state # "new"
  /\ \A j \in Requests, r \in Rooms : << j, r >> \in advert => registry[r].claim = j

ServiceInv ==
  /\ ServiceTypeOK
  /\ \A r \in Rooms : RegistryInv(r)
  /\ \A j \in Requests : JoinInv(j)
  /\ NetInv
  /\ CodesUnique

LEMMA ServiceInitially == ServiceInit => ServiceInv
<1> SUFFICES ASSUME ServiceInit PROVE ServiceInv
  OBVIOUS
<1>1. ServiceTypeOK
  BY DEF ServiceInit, ServiceTypeOK, Room, Join
<1>2. (\A r \in Rooms : RegistryInv(r)) /\ (\A j \in Requests : JoinInv(j))
  BY DEF ServiceInit, RegistryInv, JoinInv, Answering
<1>3. NetInv /\ CodesUnique
  BY DEF ServiceInit, NetInv, CodesUnique
<1> QED
  BY <1>1, <1>2, <1>3 DEF ServiceInv

\* Closing rooms touches neither their claims nor their answers.
LEMMA GoneRooms ==
  ASSUME ServiceTypeOK, NEW R, registry' \in { registry, Gone(R) }
  PROVE  /\ registry' \in [ Rooms -> Room ]
         /\ \A r \in Rooms : /\ registry'[r].claim = registry[r].claim
                             /\ registry'[r].answer = registry[r].answer
                             /\ registry'[r].code = registry[r].code
                             /\ registry'[r].state \in { registry[r].state, "gone" }
<1>1. \A r \in Rooms : registry[r] \in Room
  BY DEF ServiceTypeOK
<1>2. \A r \in Rooms : registry'[r] \in { registry[r], [ registry[r] EXCEPT !.state = "gone" ] }
  BY DEF Gone
<1>3. ASSUME NEW r \in Rooms
      PROVE  /\ [ registry[r] EXCEPT !.state = "gone" ] \in Room
             /\ [ registry[r] EXCEPT !.state = "gone" ].claim = registry[r].claim
             /\ [ registry[r] EXCEPT !.state = "gone" ].answer = registry[r].answer
             /\ [ registry[r] EXCEPT !.state = "gone" ].code = registry[r].code
             /\ [ registry[r] EXCEPT !.state = "gone" ].state = "gone"
  BY <1>1 DEF Room
<1>4. registry' \in [ Rooms -> Room ]
  <2>1. Gone(R) \in [ Rooms -> Room ]
    BY <1>1, <1>3 DEF Gone
  <2> QED
    BY <2>1 DEF ServiceTypeOK
<1> QED
  BY <1>2, <1>3, <1>4

\* A claim is made for one join, once.
LEMMA ClaimedRooms ==
  ASSUME ServiceTypeOK, NEW j \in Requests, NEW d, NEW c, NEW r \in Discoverable(d, c, j),
         registry' = Claimed(r, j)
  PROVE  /\ r \in Rooms /\ registry[r].state = "open" /\ registry[r].answer = NoJoin
         /\ registry[r].code = c /\ registry[r].claim \in { NoJoin, j }
         /\ registry' \in [ Rooms -> Room ]
         /\ \A x \in Rooms : /\ registry'[x].claim = IF x = r THEN j ELSE registry[x].claim
                             /\ registry'[x].answer = registry[x].answer
                             /\ registry'[x].code = registry[x].code
                             /\ registry'[x].state = registry[x].state
<1>1. r \in Rooms /\ registry[r].state = "open" /\ registry[r].answer = NoJoin
      /\ registry[r].code = c /\ registry[r].claim \in { NoJoin, j }
  BY DEF Discoverable, OpenAt
<1>2. \A x \in Rooms : registry[x] \in Room
  BY DEF ServiceTypeOK
<1>3. [ registry[r] EXCEPT !.claim = j ] \in Room
  BY <1>1, <1>2 DEF Room
<1>4. registry' = [ registry EXCEPT ![r] = [ registry[r] EXCEPT !.claim = j ] ]
  BY <1>1 DEF Claimed, ServiceTypeOK
<1>5. registry' \in [ Rooms -> Room ]
  BY <1>3, <1>4 DEF ServiceTypeOK
<1>6. \A x \in Rooms : registry'[x] = IF x = r THEN [ registry[r] EXCEPT !.claim = j ] ELSE registry[x]
  BY <1>4 DEF ServiceTypeOK
<1>7. ASSUME NEW x \in Rooms
      PROVE  /\ registry'[x].claim = IF x = r THEN j ELSE registry[x].claim
             /\ registry'[x].answer = registry[x].answer
             /\ registry'[x].code = registry[x].code
             /\ registry'[x].state = registry[x].state
  BY <1>2, <1>6 DEF Room
<1> QED
  BY <1>1, <1>5, <1>7

\* A join moves on with the code it asked for.
LEMMA RequestMoves ==
  ASSUME ServiceTypeOK, NEW j \in Requests, NEW q \in Join, request' = [ request EXCEPT ![j] = q ]
  PROVE  /\ request' \in [ Requests -> Join ]
         /\ request'[j] = q
         /\ \A i \in Requests : i # j => request'[i] = request[i]
  BY DEF ServiceTypeOK

LEMMA Becoming ==
  ASSUME ServiceTypeOK, NEW j \in Requests, NEW r \in Rooms \cup {NoRoom},
         NEW s \in { "found", "offered", "published", "unsure", "failed" }, Becomes(j, s, r)
  PROVE  /\ request' \in [ Requests -> Join ]
         /\ request'[j].state = s /\ request'[j].room = r /\ request'[j].code = request[j].code
         /\ \A i \in Requests : i # j => request'[i] = request[i]
<1>1. request[j] \in Join
  BY DEF ServiceTypeOK
<1>0. PICK q : q = [ request[j] EXCEPT !.state = s, !.room = r ]
  OBVIOUS
<1>2. q \in Join /\ q.state = s /\ q.room = r /\ q.code = request[j].code
  BY <1>0, <1>1 DEF Join
<1>3. request' = [ request EXCEPT ![j] = q ]
  BY <1>0 DEF Becomes, ServiceTypeOK
<1> QED
  BY <1>2, <1>3, RequestMoves

-----------------------------------------------------------------------------
(* Every step preserves the invariant.                                      *)

\* A join keeps its room and its code; at most it fails.
Failing(j) ==
  /\ request'[j].room = request[j].room /\ request'[j].code = request[j].code
  /\ \/ request'[j].state = request[j].state
     \/ request'[j].state = "failed" /\ request[j].state \in { "asking", "found", "offered" }

LEMMA RegistrySteps ==
  ASSUME ServiceInv,
         (\E r \in Rooms : Create(r) \/ Expire(r) \/ AnswerTaken(r) \/ GiveUp(r))
           \/ \E d \in Devices : Restart(d)
  PROVE  ServiceInv'
<1>1. CASE \E r \in Rooms : Create(r)
  <2>a. PICK r \in Rooms : Create(r)
    BY <1>1
  <2>1. PICK c \in Codes \ UsedCodes(RoomHost[r]) :
          /\ registry[r].state = "new"
          /\ registry' = [ registry EXCEPT ![r].state = "open", ![r].code = c ]
          /\ sender' = [ sender EXCEPT ![r] = "polling" ]
          /\ UNCHANGED << peer, request, asked, advert >>
    BY <2>a DEF Create
  <2>0. PICK q : q = [ registry[r] EXCEPT !.state = "open", !.code = c ]
    OBVIOUS
  <2>2. /\ q \in Room /\ q.state = "open" /\ q.code = c
        /\ q.claim = registry[r].claim /\ q.answer = registry[r].answer
        /\ registry' = [ registry EXCEPT ![r] = q ]
    <3>1. registry[r] \in Room /\ registry \in [ Rooms -> Room ]
      BY DEF ServiceInv, ServiceTypeOK
    <3>2. /\ q \in Room /\ q.state = "open" /\ q.code = c
          /\ q.claim = registry[r].claim /\ q.answer = registry[r].answer
      BY <2>0, <3>1 DEF Room
    <3>3. registry' = [ registry EXCEPT ![r] = q ]
      BY <2>0, <2>1, <3>1
    <3> QED
      BY <3>2, <3>3
  <2>3. registry' \in [ Rooms -> Room ] /\ registry'[r] = q /\ \A x \in Rooms : x # r => registry'[x] = registry[x]
    BY <2>2 DEF ServiceInv, ServiceTypeOK
  <2>4. ServiceTypeOK'
    BY <2>1, <2>3 DEF ServiceInv, ServiceTypeOK
  <2>5. \A x \in Rooms : registry'[x].claim = registry[x].claim /\ registry'[x].answer = registry[x].answer
    BY <2>2, <2>3
  <2>6. registry[r].claim = NoJoin /\ registry[r].answer = NoJoin
    BY <2>1 DEF ServiceInv, RegistryInv
  <2>7. ASSUME NEW x \in Rooms PROVE RegistryInv(x)'
    <3>1. CASE x = r
      BY <2>1, <2>2, <2>3, <2>6, <3>1 DEF ServiceInv, ServiceTypeOK, RegistryInv
    <3>2. CASE x # r
      BY <2>1, <2>3, <3>2 DEF ServiceInv, ServiceTypeOK, RegistryInv
    <3> QED
      BY <3>1, <3>2
  <2>8. (\A j \in Requests : JoinInv(j)') /\ NetInv'
    BY <2>1, <2>5 DEF ServiceInv, ServiceTypeOK, Join, JoinInv, NetInv
  <2>9. CodesUnique'
    <3>1. \A x \in Rooms : RoomHost[x] = RoomHost[r] /\ registry[x].state = "open" => registry[x].code # c
      BY <2>1 DEF UsedCodes, OpenAt
    <3> QED
      BY <2>1, <2>2, <2>3, <3>1 DEF ServiceInv, CodesUnique
  <2> QED
    BY <2>4, <2>7, <2>8, <2>9 DEF ServiceInv
<1>2. ASSUME NEW R, registry' \in { registry, Gone(R) },
             \/ UNCHANGED << sender, peer, request >>
             \/ /\ UNCHANGED << request >>
                /\ \E r \in Rooms :
                     \/ sender' = [ sender EXCEPT ![r] = "failed" ] /\ UNCHANGED peer
                     \/ /\ registry[r].answer # NoJoin
                        /\ sender' = [ sender EXCEPT ![r] = "paired" ]
                        /\ peer' = [ peer EXCEPT ![r] = registry[r].answer ]
             \/ /\ UNCHANGED << sender, peer >>
                /\ request' \in [ Requests -> Join ]
                /\ \A j \in Requests : Failing(j),
             UNCHANGED << asked, advert >>
      PROVE  ServiceInv'
  <2>1. /\ registry' \in [ Rooms -> Room ]
        /\ \A r \in Rooms : /\ registry'[r].claim = registry[r].claim
                            /\ registry'[r].answer = registry[r].answer
                            /\ registry'[r].code = registry[r].code
                            /\ registry'[r].state \in { registry[r].state, "gone" }
    BY <1>2, GoneRooms DEF ServiceInv
  <2>2. request' \in [ Requests -> Join ] /\ \A j \in Requests : Failing(j)
    BY <1>2 DEF ServiceInv, ServiceTypeOK, Failing
  <2>3. \A r \in Rooms : sender'[r] = "paired" => peer'[r] = registry[r].answer /\ peer'[r] # NoJoin
    BY <1>2 DEF ServiceInv, ServiceTypeOK, RegistryInv
  <2>4. ServiceTypeOK'
    <3>1. \A r \in Rooms : registry[r].answer \in Requests \cup {NoJoin}
      BY DEF ServiceInv, ServiceTypeOK, Room
    <3>2. sender' \in [ Rooms -> { "new", "polling", "paired", "failed" } ]
          /\ peer' \in [ Rooms -> Requests \cup {NoJoin} ]
      BY <1>2, <3>1 DEF ServiceInv, ServiceTypeOK
    <3> QED
      BY <1>2, <2>1, <2>2, <3>2 DEF ServiceInv, ServiceTypeOK
  <2>5. ASSUME NEW r \in Rooms PROVE RegistryInv(r)'
    <3>1. RegistryInv(r) /\ registry[r].answer \in Requests \cup {NoJoin} /\ registry[r].claim \in Requests \cup {NoJoin}
      BY DEF ServiceInv, ServiceTypeOK, Room
    <3> QED
      BY <2>1, <2>2, <2>3, <3>1 DEF RegistryInv, Answering, Failing
  <2>6. ASSUME NEW j \in Requests PROVE JoinInv(j)'
    <3>1. JoinInv(j) /\ request[j].room \in Rooms \cup {NoRoom}
      BY DEF ServiceInv, ServiceTypeOK, Join
    <3> QED
      BY <2>1, <2>2, <3>1 DEF JoinInv, Answering, Failing
  <2>7. NetInv'
    BY <1>2, <2>1, <2>2 DEF ServiceInv, ServiceTypeOK, NetInv, Failing
  <2>8. CodesUnique'
    BY <2>1 DEF ServiceInv, CodesUnique
  <2> QED
    BY <2>4, <2>5, <2>6, <2>7, <2>8 DEF ServiceInv
<1>3. CASE \E r \in Rooms : Expire(r) \/ AnswerTaken(r) \/ GiveUp(r)
  <2>1. PICK r \in Rooms : Expire(r) \/ AnswerTaken(r) \/ GiveUp(r)
    BY <1>3
  <2>2. registry' \in { registry, Gone({r}) } /\ UNCHANGED << request, asked, advert >>
    BY <2>1 DEF Expire, AnswerTaken, GiveUp
  <2>3. CASE Expire(r)
    BY <2>2, <2>3, <1>2 DEF Expire
  <2>4. CASE AnswerTaken(r) \/ GiveUp(r)
    BY <2>2, <2>4, <1>2 DEF AnswerTaken, GiveUp
  <2> QED
    BY <2>1, <2>3, <2>4
<1>4. CASE \E d \in Devices : Restart(d)
  <2>1. PICK d \in Devices : Restart(d)
    BY <1>4
  <2>2. registry' \in { registry, Gone(OpenAt(d)) } /\ UNCHANGED << sender, peer, asked, advert >>
    BY <2>1 DEF Restart
  <2>3. ASSUME NEW j \in Requests PROVE request'[j] \in Join /\ Failing(j)
    <3>0. PICK q : q = [ request[j] EXCEPT !.state = "failed" ]
      OBVIOUS
    <3>1. /\ request[j] \in Join /\ q \in Join
          /\ q.room = request[j].room /\ q.code = request[j].code /\ q.state = "failed"
      <4>1. request[j] \in Join
        BY DEF ServiceInv, ServiceTypeOK
      <4> QED
        BY <3>0, <4>1 DEF Join
    <3>2. \/ request'[j] = request[j]
          \/ request'[j] = q /\ request[j].state \in { "asking", "found", "offered" }
      BY <2>1, <3>0 DEF Restart
    <3> QED
      BY <3>1, <3>2 DEF Failing
  <2>4. request' \in [ Requests -> Join ]
    BY <2>1, <2>3 DEF Restart
  <2>5. PICK R : R = OpenAt(d)
    OBVIOUS
  <2>6. registry' \in { registry, Gone(R) }
    BY <2>2, <2>5
  <2> QED
    BY <2>2, <2>3, <2>4, <2>6, <1>2
<1> QED
  BY <1>1, <1>3, <1>4

\* A join that asks, and a room that is claimed for it.
LEMMA ClaimSteps ==
  ASSUME ServiceInv,
         \/ \E j \in Requests : Ask(j)
         \/ \E j \in Requests, d \in Devices : AskAddress(j, d) \/ HearRequest(j, d)
  PROVE  ServiceInv'
<1>1. PICK j \in Requests : Ask(j) \/ \E d \in Devices : AskAddress(j, d) \/ HearRequest(j, d)
  OBVIOUS
<1>2. /\ ServiceTypeOK /\ request[j] \in Join /\ request[j].room \in Rooms \cup {NoRoom} /\ JoinInv(j)
      /\ \A r \in Rooms : /\ RegistryInv(r) /\ registry[r] \in Room
                          /\ registry[r].claim \in Requests \cup {NoJoin}
                          /\ registry[r].answer \in Requests \cup {NoJoin}
  BY DEF ServiceInv, ServiceTypeOK, Join, Room
\* Nobody answered the room, so nobody but j depends on the claim.
<1>3. ASSUME NEW r \in Rooms,
             registry[r].state = "open", registry[r].answer = NoJoin, registry[r].claim \in { NoJoin, j },
             registry' \in [ Rooms -> Room ],
             \A x \in Rooms : /\ registry'[x].claim = IF x = r THEN j ELSE registry[x].claim
                              /\ registry'[x].answer = registry[x].answer
                              /\ registry'[x].code = registry[x].code
                              /\ registry'[x].state = registry[x].state,
             request' \in [ Requests -> Join ],
             \A i \in Requests : i # j => request'[i] = request[i],
             \/ request'[j] = request[j]
             \/ /\ request[j].state = "new"
                /\ request'[j].state \in { "offered", "failed" } /\ request'[j].room = r,
             request'[j].code = registry[r].code, request'[j].state # "new",
             UNCHANGED << sender, peer, asked >>,
             advert' \in { advert, advert \cup { << j, r >> } }
      PROVE  ServiceInv'
  <2>1. ServiceTypeOK'
    BY <1>2, <1>3 DEF ServiceTypeOK
  <2>2. \A x \in Rooms : registry[x].claim = j => request[j].state # "new"
    BY <1>2, NoJoin \notin Requests DEF RegistryInv
  <2>3. \A x \in Rooms : registry[x].answer = j => request[j].state \in Answering
    BY <1>2, NoJoin \notin Requests DEF RegistryInv
  <2>4. ASSUME NEW x \in Rooms PROVE RegistryInv(x)'
    <3>1. CASE x = r
      BY <1>2, <1>3, <3>1 DEF RegistryInv, Answering
    <3>2. CASE x # r /\ request'[j] = request[j]
      BY <1>2, <1>3, <3>2 DEF RegistryInv, Answering
    <3>3. CASE x # r /\ request[j].state = "new"
      <4>1. registry[x].claim # j /\ registry[x].answer # j
        BY <2>2, <2>3, <3>3 DEF Answering
      <4> QED
        BY <1>2, <1>3, <3>3, <4>1 DEF RegistryInv, Answering
    <3> QED
      BY <1>3, <3>1, <3>2, <3>3
  <2>5. ASSUME NEW i \in Requests PROVE JoinInv(i)'
    <3>1. JoinInv(i) /\ request[i].room \in Rooms \cup {NoRoom}
      BY DEF ServiceInv, ServiceTypeOK, Join
    <3>2. CASE i # j
      <4>1. request[i].room # r
        BY <1>3, <3>1, <3>2 DEF JoinInv
      <4> QED
        BY <1>3, <3>1, <3>2, <4>1 DEF JoinInv, Answering
    <3>3. CASE i = j /\ request'[j] = request[j]
      BY <1>3, <3>1, <3>3 DEF JoinInv, Answering
    <3>4. CASE i = j /\ request'[j].state \in { "offered", "failed" } /\ request'[j].room = r
      BY <1>3, <3>4 DEF JoinInv, Answering
    <3> QED
      BY <1>3, <3>2, <3>3, <3>4
  <2>6. NetInv'
    <3>1. \A i \in asked' : request'[i].state # "new"
      BY <1>3 DEF ServiceInv, ServiceTypeOK, NetInv
    <3>2. ASSUME NEW i \in Requests, NEW x \in Rooms, << i, x >> \in advert'
          PROVE  registry'[x].claim = i
      <4>1. << i, x >> \in advert \/ (i = j /\ x = r)
        BY <1>3, <3>2
      <4>2. << i, x >> \in advert => registry[x].claim = i
        BY DEF ServiceInv, NetInv
      <4> QED
        BY <1>3, <4>1, <4>2
    <3> QED
      BY <3>1, <3>2 DEF NetInv
  <2>7. CodesUnique'
    BY <1>3 DEF ServiceInv, CodesUnique
  <2> QED
    BY <2>1, <2>4, <2>5, <2>6, <2>7 DEF ServiceInv
<1>4. CASE Ask(j)
  <2>1. PICK c \in Codes :
          LET own == Discoverable(JoinHost[j], c, j) IN
            IF own # {}
            THEN \E r \in own :
                   /\ registry' = Claimed(r, j)
                   /\ request' = [ request EXCEPT ![j] = [ state |-> "offered", code |-> c, room |-> r ] ]
                   /\ asked' = asked
            ELSE /\ request' = [ request EXCEPT ![j].state = "asking", ![j].code = c ]
                 /\ asked' = asked \cup {j}
                 /\ registry' = registry
    BY <1>4 DEF Ask
  <2>2. request[j].state = "new" /\ UNCHANGED << sender, peer, advert >>
    BY <1>4 DEF Ask
  <2>3. CASE \E r \in Discoverable(JoinHost[j], c, j) :
               /\ registry' = Claimed(r, j)
               /\ request' = [ request EXCEPT ![j] = [ state |-> "offered", code |-> c, room |-> r ] ]
               /\ asked' = asked
    <3>1. PICK r \in Discoverable(JoinHost[j], c, j) :
            /\ registry' = Claimed(r, j)
            /\ request' = [ request EXCEPT ![j] = [ state |-> "offered", code |-> c, room |-> r ] ]
            /\ asked' = asked
      BY <2>3
    <3>0. PICK q : q = [ state |-> "offered", code |-> c, room |-> r ]
      OBVIOUS
    <3>2. r \in Rooms /\ q \in Join /\ q.state = "offered" /\ q.code = c /\ q.room = r
      BY <3>0, <3>1 DEF Discoverable, OpenAt, Join
    <3>3. request' \in [ Requests -> Join ] /\ request'[j] = q /\ \A i \in Requests : i # j => request'[i] = request[i]
      BY <1>2, <3>0, <3>1, <3>2, RequestMoves
    <3>4. /\ registry[r].state = "open" /\ registry[r].answer = NoJoin
          /\ registry[r].code = c /\ registry[r].claim \in { NoJoin, j }
          /\ registry' \in [ Rooms -> Room ]
          /\ \A x \in Rooms : /\ registry'[x].claim = IF x = r THEN j ELSE registry[x].claim
                              /\ registry'[x].answer = registry[x].answer
                              /\ registry'[x].code = registry[x].code
                              /\ registry'[x].state = registry[x].state
      BY <1>2, <3>1, ClaimedRooms
    <3> QED
      BY <1>3, <2>2, <3>1, <3>2, <3>3, <3>4
  <2>4. CASE /\ request' = [ request EXCEPT ![j].state = "asking", ![j].code = c ]
             /\ asked' = asked \cup {j}
             /\ registry' = registry
    <3>0. PICK q : q = [ request[j] EXCEPT !.state = "asking", !.code = c ]
      OBVIOUS
    <3>1. q \in Join /\ q.state = "asking" /\ q.room = request[j].room
      BY <1>2, <3>0 DEF Join
    <3>2. request' = [ request EXCEPT ![j] = q ]
      BY <2>4, <3>0 DEF ServiceInv, ServiceTypeOK
    <3>3. request' \in [ Requests -> Join ] /\ request'[j] = q /\ \A i \in Requests : i # j => request'[i] = request[i]
      BY <1>2, <3>1, <3>2, RequestMoves
    <3>4. \A x \in Rooms : registry[x].claim # j /\ registry[x].answer # j
      BY <1>2, <2>2 DEF RegistryInv, Answering
    <3>5. ServiceTypeOK'
      BY <1>2, <2>2, <2>4, <3>3 DEF ServiceTypeOK
    <3>6. ASSUME NEW x \in Rooms PROVE RegistryInv(x)'
      BY <1>2, <2>2, <2>4, <3>3, <3>4 DEF RegistryInv
    <3>7. ASSUME NEW i \in Requests PROVE JoinInv(i)'
      <4>1. JoinInv(i)
        BY DEF ServiceInv
      <4>2. CASE i = j
        BY <4>1, <4>2, <2>2, <2>4, <3>1, <3>3 DEF JoinInv, Answering
      <4>3. CASE i # j
        BY <4>1, <4>3, <2>4, <3>3 DEF JoinInv
      <4> QED
        BY <4>2, <4>3
    <3>8. NetInv' /\ CodesUnique'
      BY <2>2, <2>4, <3>1, <3>3 DEF ServiceInv, ServiceTypeOK, NetInv, CodesUnique
    <3> QED
      BY <3>5, <3>6, <3>7, <3>8 DEF ServiceInv
  <2> QED
    BY <2>1, <2>3, <2>4
<1>5. ASSUME NEW d \in Devices, AskAddress(j, d) PROVE ServiceInv'
  <2>1. PICK c \in Codes, r \in Rooms :
          /\ r \in Discoverable(d, c, j)
          /\ registry' = Claimed(r, j)
          /\ \E s \in { "offered", "failed" } :
               request' = [ request EXCEPT ![j] = [ state |-> s, code |-> c, room |-> r ] ]
    BY <1>5 DEF AskAddress
  <2>2. PICK s \in { "offered", "failed" } :
          request' = [ request EXCEPT ![j] = [ state |-> s, code |-> c, room |-> r ] ]
    BY <2>1
  <2>0. PICK q : q = [ state |-> s, code |-> c, room |-> r ]
    OBVIOUS
  <2>3. q \in Join /\ q.state = s /\ q.code = c /\ q.room = r
    BY <2>0 DEF Join
  <2>4. request' \in [ Requests -> Join ] /\ request'[j] = q /\ \A i \in Requests : i # j => request'[i] = request[i]
    BY <1>2, <2>0, <2>2, <2>3, RequestMoves
  <2>5. /\ registry[r].state = "open" /\ registry[r].answer = NoJoin
        /\ registry[r].code = c /\ registry[r].claim \in { NoJoin, j }
        /\ registry' \in [ Rooms -> Room ]
        /\ \A x \in Rooms : /\ registry'[x].claim = IF x = r THEN j ELSE registry[x].claim
                            /\ registry'[x].answer = registry[x].answer
                            /\ registry'[x].code = registry[x].code
                            /\ registry'[x].state = registry[x].state
    BY <1>2, <2>1, ClaimedRooms
  <2>6. request[j].state = "new" /\ UNCHANGED << sender, peer, asked, advert >>
    BY <1>5 DEF AskAddress
  <2> QED
    BY <1>3, <2>3, <2>4, <2>5, <2>6
<1>6. ASSUME NEW d \in Devices, HearRequest(j, d) PROVE ServiceInv'
  <2>1. PICK r \in Discoverable(d, request[j].code, j) :
          registry' = Claimed(r, j) /\ advert' = advert \cup { << j, r >> }
    BY <1>6 DEF HearRequest
  <2>2. r \in Rooms
    BY <2>1 DEF Discoverable, OpenAt
  <2>3. /\ registry[r].state = "open" /\ registry[r].answer = NoJoin
        /\ registry[r].code = request[j].code /\ registry[r].claim \in { NoJoin, j }
        /\ registry' \in [ Rooms -> Room ]
        /\ \A x \in Rooms : /\ registry'[x].claim = IF x = r THEN j ELSE registry[x].claim
                            /\ registry'[x].answer = registry[x].answer
                            /\ registry'[x].code = registry[x].code
                            /\ registry'[x].state = registry[x].state
    BY <1>2, <2>1, ClaimedRooms
  <2>4. j \in asked /\ UNCHANGED << sender, peer, request, asked >>
    BY <1>6 DEF HearRequest
  <2>5. request[j].state # "new"
    BY <2>4 DEF ServiceInv, NetInv
  <2>6. request' \in [ Requests -> Join ] /\ request' = request
    BY <1>2, <2>4 DEF ServiceTypeOK
  <2> QED
    BY <1>3, <2>1, <2>2, <2>3, <2>4, <2>5, <2>6
<1> QED
  BY <1>1, <1>4, <1>5, <1>6

\* A join that holds its claim moves on, with or without an answer.
LEMMA JoinSteps ==
  ASSUME ServiceInv,
         \/ \E j \in Requests : FetchOffer(j) \/ PublishAnswer(j) \/ JoinFails(j)
         \/ \E j \in Requests, r \in Rooms : HearAdvert(j, r)
  PROVE  ServiceInv'
<1>1. PICK j \in Requests : FetchOffer(j) \/ PublishAnswer(j) \/ JoinFails(j)
                           \/ \E r \in Rooms : HearAdvert(j, r)
  OBVIOUS
<1>2. /\ ServiceTypeOK /\ request[j] \in Join /\ request[j].room \in Rooms \cup {NoRoom} /\ JoinInv(j)
      /\ request[j].state \in { "asking", "found", "offered" }
      /\ UNCHANGED << sender, peer, asked, advert >>
      /\ \A r \in Rooms : /\ RegistryInv(r) /\ registry[r] \in Room
                          /\ registry[r].claim \in Requests \cup {NoJoin}
                          /\ registry[r].answer \in Requests \cup {NoJoin}
  BY <1>1 DEF ServiceInv, ServiceTypeOK, Join, Room, FetchOffer, PublishAnswer, JoinFails, HearAdvert
\* A join that did not settle yet is no room's answer.
<1>3. \A x \in Rooms : registry[x].answer # j
  BY <1>2, NoJoin \notin Requests DEF RegistryInv, Answering
\* The claim of the room, if any, is already the join's own.
<1>4. ASSUME NEW r \in Rooms \cup {NoRoom},
             NEW s \in { "found", "offered", "published", "unsure", "failed" }, Becomes(j, s, r),
             r = NoRoom => s = "failed",
             r # NoRoom => registry[r].claim = j,
             registry' \in [ Rooms -> Room ],
             \A x \in Rooms : /\ registry'[x].claim = registry[x].claim
                              /\ registry'[x].code = registry[x].code
                              /\ registry'[x].state = registry[x].state
                              /\ registry'[x].answer = IF x = r /\ s \in Answering THEN j
                                                   ELSE registry[x].answer,
             s \in Answering => registry[r].answer = NoJoin
      PROVE  ServiceInv'
  <2>1. /\ request' \in [ Requests -> Join ]
        /\ request'[j].state = s /\ request'[j].room = r /\ request'[j].code = request[j].code
        /\ \A i \in Requests : i # j => request'[i] = request[i]
    BY <1>2, <1>4, Becoming
  <2>2. ServiceTypeOK'
    BY <1>2, <1>4, <2>1 DEF ServiceTypeOK
  <2>3. ASSUME NEW x \in Rooms PROVE RegistryInv(x)'
    <3>1. CASE x = r /\ s \in Answering
      BY <1>2, <1>4, <2>1, <3>1 DEF RegistryInv, Answering
    <3>2. CASE ~ (x = r /\ s \in Answering)
      BY <1>2, <1>3, <1>4, <2>1, <3>2 DEF RegistryInv
    <3> QED
      BY <3>1, <3>2
  <2>4. ASSUME NEW i \in Requests PROVE JoinInv(i)'
    <3>1. JoinInv(i) /\ request[i].room \in Rooms \cup {NoRoom}
      BY DEF ServiceInv, ServiceTypeOK, Join
    <3>2. CASE i = j
      BY <1>4, <2>1, <3>2 DEF JoinInv, Answering
    <3>3. CASE i # j
      <4>1. request[i].room # NoRoom => ~ (request[i].room = r /\ s \in Answering)
        BY <1>4, <3>1, <3>3 DEF JoinInv
      <4>2. request[i].state \in Answering => request[i].room # NoRoom
        BY <3>1 DEF JoinInv
      <4> QED
        BY <1>4, <2>1, <3>1, <3>3, <4>1, <4>2 DEF JoinInv, Answering
    <3> QED
      BY <3>2, <3>3
  <2>5. NetInv' /\ CodesUnique'
    <3>1. /\ asked' = asked /\ advert' = advert
          /\ \A x \in Rooms : /\ registry'[x].claim = registry[x].claim
                              /\ registry'[x].code = registry[x].code
                              /\ registry'[x].state = registry[x].state
          /\ \A i \in asked : request'[i].state # "new"
      <4>1. s # "new" /\ asked \subseteq Requests
        BY <1>2 DEF ServiceTypeOK
      <4>2. \A i \in asked : request[i].state # "new"
        BY DEF ServiceInv, NetInv
      <4> QED
        BY <1>2, <1>4, <2>1, <4>1, <4>2
    <3>2. NetInv /\ CodesUnique
      BY DEF ServiceInv
    <3>3. NetInv'
      BY <3>1, <3>2 DEF NetInv
    <3>4. CodesUnique'
      BY <3>1, <3>2 DEF CodesUnique
    <3> QED
      BY <3>3, <3>4
  <2> QED
    BY <2>2, <2>3, <2>4, <2>5 DEF ServiceInv
<1>5. CASE FetchOffer(j)
  <2>1. /\ Becomes(j, "offered", request[j].room) \/ Becomes(j, "failed", request[j].room)
        /\ registry' = registry /\ request[j].state = "found"
    BY <1>5 DEF FetchOffer
  <2>2. request[j].room \in Rooms /\ registry[request[j].room].claim = j
    BY <1>2, <2>1 DEF JoinInv
  <2>0. PICK r : r = request[j].room
    OBVIOUS
  <2> QED
    BY <1>2, <1>4, <2>0, <2>1, <2>2 DEF ServiceTypeOK, Answering
<1>6. CASE JoinFails(j)
  <2>0. PICK r : r = request[j].room
    OBVIOUS
  <2>1. Becomes(j, "failed", r) /\ registry' = registry
    BY <1>6, <2>0 DEF JoinFails
  <2>2. r # NoRoom => registry[r].claim = j
    BY <1>2, <2>0 DEF JoinInv
  <2> QED
    BY <1>2, <1>4, <2>0, <2>1, <2>2 DEF ServiceTypeOK, Answering
<1>7. CASE \E r \in Rooms : HearAdvert(j, r)
  <2>1. PICK r \in Rooms : HearAdvert(j, r)
    BY <1>7
  <2>2. << j, r >> \in advert /\ Becomes(j, "found", r) /\ registry' = registry
    BY <2>1 DEF HearAdvert
  <2>3. registry[r].claim = j
    BY <2>2 DEF ServiceInv, NetInv
  <2> QED
    BY <1>2, <1>4, <2>2, <2>3 DEF ServiceTypeOK, Answering
<1>8. CASE PublishAnswer(j)
  <2>0. PICK r : r = request[j].room
    OBVIOUS
  <2>1. /\ AcceptsAnswer(r, j)
        /\ registry' = [ registry EXCEPT ![r].answer = j ]
        /\ Becomes(j, "published", r) \/ Becomes(j, "unsure", r)
        /\ request[j].state = "offered"
    BY <1>8, <2>0 DEF PublishAnswer
  <2>2. r \in Rooms /\ registry[r].claim = j /\ registry[r].answer = NoJoin
    <3>1. r \in Rooms /\ registry[r].claim = j
      BY <1>2, <2>0, <2>1 DEF JoinInv
    <3> QED
      BY <1>3, <2>1, <3>1 DEF AcceptsAnswer
  <2>3. PICK v : v = [ registry[r] EXCEPT !.answer = j ]
    OBVIOUS
  <2>4. /\ v \in Room /\ v.answer = j
        /\ v.claim = registry[r].claim /\ v.code = registry[r].code /\ v.state = registry[r].state
    BY <1>2, <2>2, <2>3 DEF Room
  <2>5. registry' = [ registry EXCEPT ![r] = v ]
    BY <1>2, <2>1, <2>2, <2>3 DEF ServiceTypeOK
  <2>6. /\ registry' \in [ Rooms -> Room ]
        /\ \A x \in Rooms : registry'[x] = IF x = r THEN v ELSE registry[x]
    BY <1>2, <2>4, <2>5 DEF ServiceTypeOK
  <2> QED
    BY <1>4, <2>1, <2>2, <2>4, <2>6 DEF Answering
<1> QED
  BY <1>1, <1>5, <1>6, <1>7, <1>8

LEMMA ServicePreserved == ServiceInv /\ [ServiceNext]_serviceVars => ServiceInv'
<1>1. ASSUME ServiceInv, UNCHANGED serviceVars PROVE ServiceInv'
  BY <1>1 DEF serviceVars, ServiceInv, ServiceTypeOK, RegistryInv, JoinInv, NetInv, CodesUnique
<1> QED
  BY <1>1, RegistrySteps, ClaimSteps, JoinSteps DEF ServiceNext

-----------------------------------------------------------------------------
(* The theorems.                                                            *)

LEMMA ServiceInvariance == ServiceSpec => []ServiceInv
  BY ServiceInitially, ServicePreserved, PTL DEF ServiceSpec

(* Types, for every network.                                                *)
THEOREM ServiceTypeCorrect == ServiceSpec => []ServiceTypeOK
  BY ServiceInvariance, PTL DEF ServiceInv

(* RoomRegistry.create() never gives one code to two open rooms.            *)
THEOREM CodesAreUnique == ServiceSpec => []CodesUnique
  BY ServiceInvariance, PTL DEF ServiceInv

(* A room's offer is given to one join at most (README.md:198).             *)
THEOREM RoomsAreSingleUse == ServiceSpec => []SingleUse
<1>1. ServiceInv => SingleUse
  BY DEF ServiceInv, JoinInv, SingleUse, Holders
<1> QED
  BY <1>1, ServiceInvariance, PTL

(* A receiver told that its answer was accepted (acceptAnswer()) is right.  *)
THEOREM PublishedAnswersAreHeld == ServiceSpec => []PublishedIsHeld
<1>1. ServiceInv => PublishedIsHeld
  BY DEF ServiceInv, JoinInv, PublishedIsHeld, Answering
<1> QED
  BY <1>1, ServiceInvariance, PTL

(* A sender pairs with the one join that holds its offer, made with the     *)
(* code the sender showed (waitForRendezvousAnswer()).                      *)
THEOREM SendersPairWithHolders == ServiceSpec => []PairedWithHolder
<1>1. ASSUME ServiceInv, NEW r \in Rooms, sender[r] = "paired"
      PROVE  Holders(r) = {peer[r]} /\ request[peer[r]].code = registry[r].code
  <2>1. /\ peer[r] \in Requests /\ peer[r] = registry[r].answer /\ registry[r].answer = registry[r].claim
        /\ request[peer[r]].room = r /\ request[peer[r]].state \in Answering
        /\ request[peer[r]].code = registry[r].code
    BY <1>1 DEF ServiceInv, ServiceTypeOK, RegistryInv
  <2>2. \A j \in Requests : request[j].room = r => j = peer[r]
    BY <1>1, <2>1 DEF ServiceInv, JoinInv
  <2> QED
    BY <2>1, <2>2 DEF Holders, Answering
<1>2. ServiceInv => PairedWithHolder
  BY <1>1 DEF PairedWithHolder
<1> QED
  BY <1>2, ServiceInvariance, PTL

(* The registry's claim() serves one join per room, in well-typed states.   *)
THEOREM RoomsServeOneJoin == ServiceSpec => []RoomsServeOne
  BY ServiceTypeCorrect, RoomsAreSingleUse, PTL DEF RoomsServeOne

(* Both sides of a room agree on its join, whatever messages are lost: the  *)
(* sender in waitForRendezvousAnswer(), the receiver in its publication.    *)
THEOREM BothPeersAgree == ServiceSpec => []PeersAgree
  BY SendersPairWithHolders, PublishedAnswersAreHeld, PTL DEF PeersAgree

HIDE RendezvousAssumption
-----------------------------------------------------------------------------
(* The pages of a connection.                                              *)

USE PairingAssumption
-----------------------------------------------------------------------------
(* Messages under way.                                                     *)

Shorter(new, queue) ==
  /\ new \in Seq(Message) /\ Len(new) <= Len(queue)
  /\ \A i \in 1 .. Len(new) : new[i] = queue[i]

LEMMA PrefixIsShorter ==
  ASSUME NEW queue \in Seq(Message), NEW new \in Prefixes(queue)
  PROVE  Shorter(new, queue)
<1>1. PICK n \in 0 .. Len(queue) : new = SubSeq(queue, 1, n)
  BY DEF Prefixes
<1>2. Len(queue) \in Nat /\ \A i \in 1 .. n : queue[i] \in Message
  BY LenProperties, ElementOfSeq
<1>3. /\ new \in Seq(Message)
      /\ Len(new) = IF 1 <= n THEN n - 1 + 1 ELSE 0
      /\ \A i \in 1 .. n - 1 + 1 : new[i] = queue[1 + i - 1]
  BY <1>1, <1>2, SubSeqProperties
<1> QED
  BY <1>2, <1>3 DEF Shorter

LEMMA NothingIsShorter ==
  ASSUME NEW queue \in Seq(Message)
  PROVE  Shorter(<< >>, queue)
BY LenProperties DEF Shorter

LEMMA TailShifts ==
  ASSUME NEW queue \in Seq(Message), queue # << >>
  PROVE  /\ Len(queue) \in Nat \ {0} /\ Head(queue) = queue[1] /\ Head(queue) \in Message
         /\ Tail(queue) \in Seq(Message) /\ Len(Tail(queue)) = Len(queue) - 1
         /\ \A i \in 1 .. Len(queue) - 1 : Tail(queue)[i] = queue[i + 1]
BY HeadTailProperties, LenProperties

LEMMA AppendAdds ==
  ASSUME NEW queue \in Seq(Message), NEW m \in Message
  PROVE  /\ Len(queue) \in Nat
         /\ Append(queue, m) \in Seq(Message) /\ Len(Append(queue, m)) = Len(queue) + 1
         /\ Append(queue, m)[Len(queue) + 1] = m
         /\ \A i \in 1 .. Len(queue) : Append(queue, m)[i] = queue[i]
         /\ Append(queue, m) # << >>
BY AppendProperties, LenProperties

\* A message is of one of the two kinds.
LEMMA MessageKinds ==
  ASSUME NEW queue \in Seq(Message), NEW i \in 1 .. Len(queue)
  PROVE  /\ queue[i] \in Message
         /\ ~ (Confirms(queue, i) /\ Announces(queue, i))
         /\ Confirms(queue, i) \/ Announces(queue, i)
         /\ Confirms(queue, i) => queue[i].by \in Attempts /\ queue[i].to \in Joins
         /\ Announces(queue, i) => queue[i].source \in Selections
<1>1. PICK m \in Message : m = queue[i]
  BY ElementOfSeq
<1>2. \/ m.type = "confirmed" /\ m.by \in Attempts /\ m.to \in Joins
      \/ m.type = "manifest" /\ m.source \in Selections
  BY DEF Message
<1> QED
  BY <1>1, <1>2 DEF Confirms, Announces

\* A queue that was cut is still meant for the same page.
LEMMA CutForReceiver ==
  ASSUME NEW queue \in Seq(Message), NEW new, Shorter(new, queue),
         NEW page, ForReceiver(queue, page)
  PROVE  ForReceiver(new, page)
<1>1. PICK n, k \in Nat : n = Len(new) /\ k = Len(queue)
  BY LenProperties DEF Shorter
<1>2. /\ n <= k
      /\ \A i \in 1 .. n : new[i] = queue[i]
      /\ \A i \in 1 .. n : (Confirms(new, i) <=> Confirms(queue, i))
                           /\ (Announces(new, i) <=> Announces(queue, i))
  BY <1>1 DEF Shorter, Confirms, Announces
<1>3. ASSUME NEW i \in 1 .. n, Announces(new, i)
      PROVE  /\ page.auth.local /\ page.got = 0
             /\ page.auth.remote \/ \E h \in 1 .. i - 1 : Confirms(new, h)
             /\ \A h \in 1 .. n : Announces(new, h) => h = i
  BY <1>1, <1>2, <1>3 DEF ForReceiver
<1>4. ASSUME NEW i \in 1 .. n, Confirms(new, i)
      PROVE  new[i].by = page.auth.with /\ new[i].to = page.attempt
  BY <1>1, <1>2, <1>4 DEF ForReceiver
<1> QED
  BY <1>1, <1>3, <1>4 DEF ForReceiver

LEMMA CutForSender ==
  ASSUME NEW queue \in Seq(Message), NEW new, Shorter(new, queue),
         NEW page, ForSender(queue, page)
  PROVE  ForSender(new, page)
<1>1. Len(queue) \in Nat /\ Len(new) \in Nat
  BY LenProperties DEF Shorter
<1> QED
  BY <1>1 DEF Shorter, ForSender, Confirms

Unannounced(queue) == \A i \in 1 .. Len(queue) : ~ Announces(queue, i)

\* The sender's confirmation, and the manifest after both consents, may follow.
LEMMA ConfirmationFollows ==
  ASSUME NEW queue \in Seq(Message), NEW page, NEW m \in Message,
         m.type = "confirmed", m.by = page.auth.with, m.to = page.attempt,
         ForReceiver(queue, page)
  PROVE  /\ ForReceiver(Append(queue, m), page)
         /\ \E i \in 1 .. Len(Append(queue, m)) : Confirms(Append(queue, m), i)
         /\ Unannounced(queue) => Unannounced(Append(queue, m))
<1>1. PICK n \in Nat : n = Len(queue)
  BY LenProperties
<1>2. PICK q \in Seq(Message) : q = Append(queue, m)
  BY AppendProperties
<1>3. /\ Len(q) = n + 1 /\ q[n + 1] = m
      /\ \A i \in 1 .. n : q[i] = queue[i]
  BY <1>1, <1>2, AppendAdds
<1>4. Confirms(q, n + 1) /\ ~ Announces(q, n + 1)
      /\ \A i \in 1 .. n : (Confirms(q, i) <=> Confirms(queue, i))
                           /\ (Announces(q, i) <=> Announces(queue, i))
  BY <1>3 DEF Confirms, Announces
<1>5. ForReceiver(q, page)
  <2> SUFFICES ASSUME NEW i \in 1 .. n + 1
               PROVE  /\ Confirms(q, i) => q[i].by = page.auth.with /\ q[i].to = page.attempt
                      /\ Announces(q, i) =>
                           /\ page.auth.local /\ page.got = 0
                           /\ page.auth.remote \/ \E k \in 1 .. i - 1 : Confirms(q, k)
                           /\ \A k \in 1 .. n + 1 : Announces(q, k) => k = i
    BY <1>3 DEF ForReceiver
  <2>1. CASE i = n + 1
    BY <2>1, <1>3, <1>4
  <2>2. CASE i \in 1 .. n
    BY <2>2, <1>1, <1>3, <1>4 DEF ForReceiver
  <2> QED
    BY <2>1, <2>2
<1> QED
  BY <1>1, <1>2, <1>3, <1>4, <1>5 DEF Unannounced

LEMMA ManifestFollows ==
  ASSUME NEW queue \in Seq(Message), NEW page, NEW m \in Message,
         m.type = "manifest", ForReceiver(queue, page), Unannounced(queue),
         page.auth.local, page.got = 0,
         page.auth.remote \/ \E i \in 1 .. Len(queue) : Confirms(queue, i)
  PROVE  /\ ForReceiver(Append(queue, m), page)
         /\ (\E i \in 1 .. Len(queue) : Confirms(queue, i)) =>
              \E i \in 1 .. Len(Append(queue, m)) : Confirms(Append(queue, m), i)
<1>1. PICK n \in Nat : n = Len(queue)
  BY LenProperties
<1>2. PICK q \in Seq(Message) : q = Append(queue, m)
  BY AppendProperties
<1>3. /\ Len(q) = n + 1 /\ q[n + 1] = m
      /\ \A i \in 1 .. n : q[i] = queue[i]
  BY <1>1, <1>2, AppendAdds
<1>4. Announces(q, n + 1) /\ ~ Confirms(q, n + 1)
      /\ \A i \in 1 .. n : (Confirms(q, i) <=> Confirms(queue, i)) /\ ~ Announces(q, i)
  BY <1>1, <1>3 DEF Confirms, Announces, Unannounced
<1>5. ForReceiver(q, page)
  <2> SUFFICES ASSUME NEW i \in 1 .. n + 1
               PROVE  /\ Confirms(q, i) => q[i].by = page.auth.with /\ q[i].to = page.attempt
                      /\ Announces(q, i) =>
                           /\ page.auth.local /\ page.got = 0
                           /\ page.auth.remote \/ \E k \in 1 .. i - 1 : Confirms(q, k)
                           /\ \A k \in 1 .. n + 1 : Announces(q, k) => k = i
    BY <1>3 DEF ForReceiver
  <2>1. CASE i = n + 1
    BY <2>1, <1>1, <1>3, <1>4
  <2>2. CASE i \in 1 .. n
    BY <2>2, <1>1, <1>3, <1>4 DEF ForReceiver
  <2> QED
    BY <2>1, <2>2
<1> QED
  BY <1>1, <1>2, <1>3, <1>4, <1>5
-----------------------------------------------------------------------------
(* What the shared operators do to a page.                                 *)

\* Every field but those of the connection.
SameSource(new, page) ==
  /\ new.attempt = page.attempt /\ new.picked = page.picked /\ new.loading = page.loading
  /\ new.selection = page.selection /\ new.source = page.source /\ new.saved = page.saved

LEMMA NoAuthType == \A n \in Nat : NoAuth \in Auth(n)
  BY DEF NoAuth, Auth

LEMMA SenderClosing ==
  ASSUME TypeOK, NEW page \in Sender, NEW owner \in Owner, SenderCloses(page, owner)
  PROVE  /\ snd' \in Sender /\ SameSource(snd', page) /\ snd'.phase = page.phase
         /\ snd'.owner = owner /\ snd'.auth = NoAuth /\ ~ snd'.up /\ ~ snd'.started
         /\ toS' = << >> /\ Shorter(toR', toR)
<1>1. NoAuth \in Auth(MaxJoins)
  BY NoAuthType
<1>2. snd' = [ page EXCEPT !.owner = owner, !.auth = NoAuth, !.up = FALSE, !.started = FALSE ]
      /\ toS' = << >>
  BY DEF SenderCloses
<1>3. snd' \in Sender
  BY <1>1, <1>2 DEF Sender
<1>4. /\ SameSource(snd', page) /\ snd'.phase = page.phase
      /\ snd'.owner = owner /\ snd'.auth = NoAuth /\ ~ snd'.up /\ ~ snd'.started
  BY <1>2 DEF Sender, SameSource
<1>5. Shorter(toR', toR)
  BY PrefixIsShorter, NothingIsShorter DEF SenderCloses, TypeOK
<1> QED
  BY <1>2, <1>3, <1>4, <1>5

LEMMA ReceiverClosing ==
  ASSUME TypeOK, NEW phase \in { "pairing", "failed" }, ReceiverCloses(phase)
  PROVE  /\ rcv' \in Receiver /\ rcv'.phase = phase /\ rcv'.attempt = rcv.attempt
         /\ ~ rcv'.live /\ rcv'.auth = NoAuth /\ ~ rcv'.up /\ rcv'.got = 0
         /\ toR' = << >> /\ Shorter(toS', toS)
<1>1. NoAuth \in Auth(MaxAttempts)
  BY NoAuthType
<1>2. /\ rcv' = [ rcv EXCEPT !.phase = phase, !.live = FALSE, !.auth = NoAuth,
                            !.up = FALSE, !.got = 0 ]
      /\ toR' = << >>
  BY DEF ReceiverCloses
<1>6. rcv \in Receiver /\ 0 \in 0 .. MaxSelections
  BY DEF TypeOK
<1>3. rcv' \in Receiver
  BY <1>1, <1>2, <1>6 DEF Receiver
<1>4. /\ rcv'.phase = phase /\ rcv'.attempt = rcv.attempt
      /\ ~ rcv'.live /\ rcv'.auth = NoAuth /\ ~ rcv'.up /\ rcv'.got = 0
  BY <1>2 DEF Receiver, TypeOK
<1>5. Shorter(toS', toS)
  BY PrefixIsShorter, NothingIsShorter DEF ReceiverCloses, TypeOK
<1> QED
  BY <1>2, <1>3, <1>4, <1>5

\* What maybeAuthorize does to a page: it may start the transfer, and then it
\* announces the prepared source.
Opens(page) == Ready(page) /\ page.source # 0
Manifest(page) == [ type |-> "manifest", source |-> page.source ]

LEMMA Gate ==
  ASSUME NEW page \in Sender, NEW queue \in Seq(Message), MaybeAuthorize(page, queue)
  PROVE  /\ snd' \in Sender /\ SameSource(snd', page)
         /\ snd'.owner = page.owner /\ snd'.auth = page.auth /\ snd'.up = page.up
         /\ snd'.phase \in { page.phase, "preparing", "waiting" }
         /\ snd'.phase # page.phase => Ready(page)
         /\ snd'.started <=> page.started \/ Opens(page)
         /\ Ready(snd') => snd'.source = 0
         /\ toR' \in Seq(Message)
         /\ \/ toR' = queue
            \/ /\ Opens(page) /\ Linked
               /\ Manifest(page) \in Message /\ toR' = Append(queue, Manifest(page))
<1>1. CASE ~ Ready(page)
  <2>1. snd' = page /\ toR' = queue
    BY <1>1 DEF MaybeAuthorize
  <2>2. snd'.started \in BOOLEAN /\ ~ Opens(page) /\ ~ Ready(snd')
    BY <1>1, <2>1 DEF Sender, Opens
  <2> QED
    BY <1>1, <2>1, <2>2 DEF SameSource
<1>2. CASE Ready(page) /\ page.source = 0
  <2>1. snd' = [ page EXCEPT !.phase = "preparing" ] /\ toR' = queue
    BY <1>2 DEF MaybeAuthorize
  <2>2. /\ snd' \in Sender /\ SameSource(snd', page) /\ snd'.phase = "preparing"
        /\ snd'.owner = page.owner /\ snd'.auth = page.auth /\ snd'.up = page.up
        /\ snd'.started = page.started /\ page.started \in BOOLEAN
    BY <2>1 DEF Sender, SameSource
  <2> QED
    BY <1>2, <2>1, <2>2 DEF SameSource, Opens
<1>3. CASE Ready(page) /\ page.source # 0
  <2>1. /\ snd' = [ page EXCEPT !.started = TRUE, !.phase = "waiting" ]
        /\ toR' = Sent(queue, Manifest(page))
    BY <1>3 DEF MaybeAuthorize, Manifest
  <2>2. /\ snd' \in Sender /\ SameSource(snd', page) /\ snd'.phase = "waiting"
        /\ snd'.owner = page.owner /\ snd'.auth = page.auth /\ snd'.up = page.up
        /\ snd'.started = TRUE
    BY <2>1 DEF Sender, SameSource
  <2>3. Manifest(page) \in Message
    BY <1>3 DEF Sender, Manifest, Message, Selections
  <2>4. \/ toR' = queue
        \/ Linked /\ toR' = Append(queue, Manifest(page))
    BY <2>1 DEF Sent
  <2>5. toR' \in Seq(Message)
    BY <2>3, <2>4, AppendProperties
  <2>6. ~ Ready(snd')
    BY <2>2 DEF Ready
  <2> QED
    BY <1>3, <2>2, <2>3, <2>4, <2>5, <2>6 DEF Opens
<1> QED
  BY <1>1, <1>2, <1>3
-----------------------------------------------------------------------------
(* Types.                                                                  *)

LEMMA TypesAtStart == Init => TypeOK
<1> SUFFICES ASSUME Init PROVE TypeOK
  OBVIOUS
<1>1. NoAuth \in Auth(MaxJoins) /\ NoAuth \in Auth(MaxAttempts)
  BY NoAuthType
<1>2. snd \in Sender
  BY <1>1 DEF Init, FreshPage, Sender, Owner
<1>3. rcv \in Receiver
  BY <1>1 DEF Init, Receiver
<1>4. toR \in Seq(Message) /\ toS \in Seq(Message)
  BY DEF Init
<1>5. /\ task \in [ Attempts -> { "none", "check", "room", "answer", "digest", "remote", "end" } ]
      /\ join \in [ Joins -> [ at : { "none", "check", "join", "answer", "publish",
                                      "receipt", "end" },
                               room : 0 .. MaxAttempts ] ]
      /\ room \in [ Attempts -> [ st : { "none", "open", "claimed", "answered", "gone" },
                                  by : 0 .. MaxJoins ] ]
  BY DEF Init
<1>6. /\ content \in [ Selections -> Selections ]
      /\ job \in [ Selections -> { "none", "hash", "save", "stored", "undo" } ]
      /\ db = {} /\ known = {} /\ discard \in 0 .. MaxSelections /\ consents = {} /\ fault = {}
  BY DEF Init
<1> QED
  BY <1>2, <1>3, <1>4, <1>5, <1>6 DEF TypeOK

\* The record that is loaded first is one that is there.
LEMMA NewestIsThere ==
  ASSUME NEW records \in SUBSET Selections, records # {}
  PROVE  Newest(records) \in records
<1> DEFINE Distance == { MaxSelections - k : k \in records }
<1>1. Distance \subseteq Nat /\ Distance # {}
  BY DEF Selections
<1>2. PICK d \in Distance : \A e \in Distance : ~ (<< e, d >> \in OpToRel(<, Nat))
  BY <1>1, WFMin, NatLessThanWellFounded
<1>3. \A e \in Distance : ~ (e < d)
  BY <1>1, <1>2 DEF OpToRel
<1>4. PICK k \in records : d = MaxSelections - k
  BY <1>2
<1>5. \A r \in records : r <= k
  <2> SUFFICES ASSUME NEW r \in records PROVE r <= k
    OBVIOUS
  <2>1. MaxSelections - r \in Distance
    OBVIOUS
  <2>2. ~ (MaxSelections - r < d)
    BY <1>3, <2>1
  <2> QED
    BY <1>4, <2>2 DEF Selections
<1>6. \E h \in records : \A r \in records : r <= h
  BY <1>5
<1> QED
  BY <1>6, Zenon DEF Newest

-----------------------------------------------------------------------------
(* The parts of the invariant, and what leaves them alone.                 *)

ConnectionInv == RoomInv /\ SenderInv /\ ReceiverInv /\ LinkInv
SavingInv == SourceInv /\ RecordsAccounted

\* Where attempts and joins are numbers of their own.
LEMMA Numbers ==
  ASSUME TypeOK, SenderInv, ReceiverInv
  PROVE  /\ SenderLive => snd.attempt \in Attempts
         /\ snd.auth.with # 0 => snd.attempt \in Attempts /\ snd.auth.with \in Joins
         /\ rcv.auth.with # 0 => rcv.auth.with \in Attempts /\ rcv.attempt \in Joins
         /\ rcv.live => rcv.attempt \in Joins
<1>1. /\ snd.attempt \in 0 .. MaxAttempts /\ snd.auth.with \in 0 .. MaxJoins
      /\ rcv.attempt \in 0 .. MaxJoins /\ rcv.auth.with \in 0 .. MaxAttempts
      /\ snd.owner \in Owner
  BY DEF TypeOK, Sender, Receiver, Auth
<1>2. SenderLive => snd.attempt \in Attempts
  BY <1>1 DEF SenderLive, Current, Owner, Nobody
<1>3. snd.auth.with # 0 => snd.auth.with \in Joins /\ SenderLive
  BY <1>1 DEF SenderInv, Joins
<1>4. rcv.live => rcv.attempt \in Joins
  BY <1>1 DEF ReceiverInv, Joins
<1>5. rcv.auth.with # 0 => rcv.auth.with \in Attempts /\ rcv.live
  BY <1>1 DEF ReceiverInv, Attempts
<1> QED
  BY <1>2, <1>3, <1>4, <1>5

LEMMA RoomsAlone ==
  ASSUME RoomInv, UNCHANGED connection,
         snd'.attempt = snd.attempt, rcv'.attempt = rcv.attempt
  PROVE  RoomInv'
BY DEF RoomInv, connection

SameEnd(new, page) ==
  /\ new.owner = page.owner /\ new.attempt = page.attempt
  /\ new.auth = page.auth /\ new.up = page.up /\ new.started = page.started

LEMMA SenderAlone ==
  ASSUME SenderInv, UNCHANGED << connection, toS, consents >>, SameEnd(snd', snd)
  PROVE  SenderInv'
BY DEF SenderInv, SameEnd, SenderLive, Current, Authorized, ForSender, Confirms, connection

LEMMA ReceiverAlone ==
  ASSUME ReceiverInv, UNCHANGED << rcv, connection, toR, consents >>
  PROVE  ReceiverInv'
BY DEF ReceiverInv, Authorized, ForReceiver, Confirms, Announces, connection

LEMMA LinkAlone ==
  ASSUME LinkInv, UNCHANGED << rcv, toR, toS >>, SameEnd(snd', snd),
         snd'.selection = snd.selection
  PROVE  LinkInv'
BY DEF LinkInv, Linked, SenderLive, Current, SameEnd, Confirms, Announces

LEMMA ConnectionAlone ==
  ASSUME ConnectionInv, UNCHANGED << rcv, connection, toR, toS, consents >>,
         SameEnd(snd', snd), snd'.selection = snd.selection
  PROVE  ConnectionInv'
<1>1. RoomInv'
  BY RoomsAlone DEF ConnectionInv, SameEnd
<1>2. SenderInv'
  BY SenderAlone DEF ConnectionInv
<1>3. ReceiverInv'
  BY ReceiverAlone DEF ConnectionInv
<1>4. LinkInv'
  BY LinkAlone DEF ConnectionInv
<1> QED
  BY <1>1, <1>2, <1>3, <1>4 DEF ConnectionInv

\* Two pages of which one has no transcript are not linked.
LEMMA Unlinked ==
  ASSUME snd.auth.with = 0 \/ rcv.auth.with = 0
  PROVE  ~ Linked /\ LinkInv
BY DEF LinkInv, Linked

Picking == { "pick", "restore" }

LEMMA SavingAlone ==
  ASSUME SavingInv, UNCHANGED saving, SameSource(snd', snd),
         snd'.owner = snd.owner \/ snd'.owner[1] \notin Picking,
         snd'.phase = "idle" => snd.selection = 0
  PROVE  SavingInv'
<1>1. SourceInv'
  BY DEF SavingInv, SourceInv, SameSource, saving, Picking
<1>2. RecordsAccounted'
  BY DEF SavingInv, RecordsAccounted, SameSource, saving
<1> QED
  BY <1>1, <1>2 DEF SavingInv

\* A page that has not confirmed waits for nothing.
LEMMA NotReady ==
  ASSUME ~ snd.auth.local
  PROVE  StartsWhenReady
BY DEF StartsWhenReady, Ready, Authorized
-----------------------------------------------------------------------------
(* A page that closes its end.                                             *)

\* The tasks of attempts made so far are left alone; a new one has done nothing.
TasksKept(from, to) ==
  \A a \in Attempts :
    /\ a <= from \/ a > to => task'[a] = task[a]
    /\ task'[a] \notin { "digest", "remote" } \/ task'[a] = task[a]

LEMMA SenderClosed ==
  ASSUME TypeOK, ConnectionInv, NEW page \in Sender, NEW owner \in Owner,
         SenderCloses(page, owner), UNCHANGED << rcv, room, join, consents >>,
         page.attempt >= snd.attempt, TasksKept(snd.attempt, page.attempt),
         owner[1] = "attempt" => owner = << "attempt", page.attempt >>
  PROVE  ConnectionInv' /\ StartsWhenReady'
<1>1. /\ snd' \in Sender /\ snd'.attempt = page.attempt /\ snd'.owner = owner
      /\ snd'.auth = NoAuth /\ ~ snd'.up /\ ~ snd'.started
      /\ toS' = << >> /\ Shorter(toR', toR)
  BY SenderClosing DEF SameSource
<1>2. snd'.auth.with = 0 /\ ~ snd'.auth.local /\ ~ snd'.auth.remote
  BY <1>1 DEF NoAuth
<1>3. /\ snd.attempt \in Nat /\ page.attempt \in Nat /\ toR \in Seq(Message)
      /\ snd.attempt <= page.attempt
  BY DEF TypeOK, Sender
<1>4. RoomInv'
  BY <1>1, <1>3 DEF ConnectionInv, RoomInv, TasksKept, Attempts
<1>5. SenderInv'
  BY <1>1, <1>2 DEF SenderInv, SenderLive, Current, ForSender
<1>6. ReceiverInv'
  <2>1. ForReceiver(toR', rcv')
    BY <1>1, <1>3, CutForReceiver DEF ConnectionInv, ReceiverInv
  <2>2. toR = << >> => toR' = << >>
    BY <1>1 DEF Shorter
  <2>3. rcv.auth.with # 0 => task'[rcv.auth.with] = task[rcv.auth.with]
    <3> SUFFICES ASSUME rcv.auth.with # 0
                 PROVE  task'[rcv.auth.with] = task[rcv.auth.with]
      OBVIOUS
    <3>1. rcv.auth.with \in Attempts /\ rcv.attempt \in Joins
      BY Numbers DEF ConnectionInv
    <3>2. join[rcv.attempt].room = rcv.auth.with
      BY DEF ConnectionInv, ReceiverInv
    <3>3. room[rcv.auth.with].st # "none"
      BY <3>1, <3>2 DEF ConnectionInv, RoomInv
    <3>4. rcv.auth.with <= snd.attempt
      BY <1>3, <3>1, <3>3 DEF ConnectionInv, RoomInv, Attempts
    <3> QED
      BY <3>1, <3>4 DEF TasksKept
  <2>4. rcv.up \/ toR # << >> => rcv.auth.with # 0
    BY DEF ConnectionInv, ReceiverInv
  <2> QED
    BY <2>1, <2>2, <2>3, <2>4 DEF ConnectionInv, ReceiverInv, Authorized
<1>7. LinkInv'
  BY <1>2 DEF LinkInv, Linked
<1>8. StartsWhenReady'
  BY <1>2 DEF StartsWhenReady, Ready, Authorized
<1> QED
  BY <1>4, <1>5, <1>6, <1>7, <1>8 DEF ConnectionInv

\* The same for an end that is closed without a new attempt.
LEMMA SenderStops ==
  ASSUME TypeOK, ConnectionInv, NEW page \in Sender, NEW owner \in Owner,
         SenderCloses(page, owner), UNCHANGED << rcv, connection, consents >>,
         page.attempt = snd.attempt, owner[1] # "attempt"
  PROVE  ConnectionInv' /\ StartsWhenReady'
<1>1. TasksKept(snd.attempt, page.attempt)
  BY DEF TasksKept, connection
<1>2. page.attempt >= snd.attempt
  BY DEF TypeOK, Sender
<1> QED
  BY <1>1, <1>2, SenderClosed DEF connection

LEMMA ReceiverClosed ==
  ASSUME TypeOK, ConnectionInv, StartsWhenReady,
         NEW phase \in { "pairing", "failed" }, ReceiverCloses(phase),
         UNCHANGED << snd, connection, consents >>
  PROVE  ConnectionInv' /\ StartsWhenReady'
<1>1. /\ rcv'.phase = phase /\ rcv'.attempt = rcv.attempt
      /\ ~ rcv'.live /\ rcv'.auth = NoAuth /\ ~ rcv'.up /\ rcv'.got = 0
      /\ toR' = << >> /\ Shorter(toS', toS)
  BY ReceiverClosing
<1>2. rcv'.auth.with = 0 /\ ~ rcv'.auth.local /\ ~ rcv'.auth.remote
  BY <1>1 DEF NoAuth
<1>3. toS \in Seq(Message)
  BY DEF TypeOK
<1>4. RoomInv'
  BY <1>1, RoomsAlone DEF ConnectionInv
<1>5. SenderInv'
  <2>1. ForSender(toS', snd')
    BY <1>1, <1>3, CutForSender DEF ConnectionInv, SenderInv
  <2>2. toS = << >> => toS' = << >>
    BY <1>1 DEF Shorter
  <2> QED
    BY <2>1, <2>2 DEF ConnectionInv, SenderInv, SenderLive, Current, Authorized, connection
<1>6. ReceiverInv'
  BY <1>1, <1>2 DEF ReceiverInv, ForReceiver
<1>7. LinkInv'
  BY <1>2 DEF LinkInv, Linked
<1>8. StartsWhenReady'
  BY DEF StartsWhenReady, Ready, Authorized
<1> QED
  BY <1>4, <1>5, <1>6, <1>7, <1>8 DEF ConnectionInv
-----------------------------------------------------------------------------
(* The steps that close the sender's end.                                  *)

LEMMA ShorterIsQueue == \A new, queue : Shorter(new, queue) => new \in Seq(Message)
  BY DEF Shorter

\* Types, when a page and the messages change.
LEMMA PageTypes ==
  ASSUME TypeOK, snd' \in Sender, rcv' \in Receiver,
         toR' \in Seq(Message), toS' \in Seq(Message),
         UNCHANGED << connection, saving, consents, fault >>
  PROVE  TypeOK'
BY DEF TypeOK, connection, saving

\* A page as it is left, whatever the step.
LEMMA SenderPage ==
  ASSUME TypeOK
  PROVE  /\ snd \in Sender /\ snd.owner \in Owner /\ Nobody \in Owner /\ Nobody[1] = "nobody"
         /\ \A a \in Attempts : << "attempt", a >> \in Owner
         /\ \A k \in Selections : << "pick", k >> \in Owner /\ << "restore", k >> \in Owner
BY DEF TypeOK, Sender, Owner, Nobody

LEMMA SenderFailing ==
  ASSUME TypeOK, ConnectionInv, SenderFails, UNCHANGED << rcv, connection, consents >>
  PROVE  /\ snd' \in Sender /\ SameSource(snd', snd) /\ snd'.owner = Nobody
         /\ snd'.phase = "failed" /\ toR' \in Seq(Message) /\ toS' = << >>
         /\ ConnectionInv' /\ StartsWhenReady'
<1> DEFINE page == [ snd EXCEPT !.phase = "failed" ]
<1>1. page \in Sender /\ page.phase = "failed" /\ page.attempt = snd.attempt
      /\ SameSource(page, snd)
  BY SenderPage DEF Sender, SameSource
<1>2. SenderCloses(page, Nobody) /\ Nobody \in Owner /\ Nobody[1] # "attempt"
  BY SenderPage DEF SenderFails
<1> HIDE DEF page
<1>3. /\ snd' \in Sender /\ SameSource(snd', page) /\ snd'.owner = Nobody
      /\ snd'.phase = "failed" /\ Shorter(toR', toR) /\ toS' = << >>
  BY <1>1, <1>2, SenderClosing
<1>4. ConnectionInv' /\ StartsWhenReady'
  BY <1>1, <1>2, SenderStops
<1> QED
  BY <1>1, <1>3, <1>4, ShorterIsQueue DEF SameSource

LEMMA EmptyIsQueue == << >> \in Seq(Message)
  OBVIOUS

Split == TypeOK /\ ConnectionInv /\ StartsWhenReady /\ NoHonestAccusation /\ SavingInv

LEMMA SplitIsInv == Split <=> PairingInv
BY DEF Split, PairingInv, ConnectionInv, SavingInv

LEMMA SenderLostKeeps ==
  ASSUME Split, SenderLost
  PROVE  Split'
<1>1. SenderFails /\ UNCHANGED << rcv, connection, saving, consents, fault >>
  BY DEF SenderLost
<1>2. /\ snd' \in Sender /\ SameSource(snd', snd) /\ snd'.owner = Nobody
      /\ snd'.phase = "failed" /\ toR' \in Seq(Message) /\ toS' = << >>
      /\ ConnectionInv' /\ StartsWhenReady'
  BY <1>1, SenderFailing DEF Split
<1>3. TypeOK'
  BY <1>1, <1>2, PageTypes, EmptyIsQueue DEF Split, TypeOK
<1>4. SavingInv'
  BY <1>1, <1>2, SavingAlone, SenderPage DEF Split, Picking
<1> QED
  BY <1>1, <1>2, <1>3, <1>4 DEF Split, NoHonestAccusation

LEMMA PickSourceKeeps ==
  ASSUME Split, PickSource
  PROVE  Split'
<1>0. snd.picked \in 0 .. MaxSelections /\ snd.picked < MaxSelections
  BY DEF PickSource, Split, TypeOK, Sender
<1>k. PICK k \in Selections : k = snd.picked + 1
  BY <1>0 DEF Selections
<1>3. k = snd.picked + 1 /\ << "pick", k >> \in Owner
  BY <1>k, SenderPage DEF Split
<1> DEFINE page == [ snd EXCEPT !.phase = "scanning", !.picked = k ]
<1>1. /\ snd.phase = "idle" /\ snd.picked \in Nat
      /\ SenderCloses(page, << "pick", k >>)
      /\ UNCHANGED << rcv, connection, saving, consents, fault >>
  <2>1. SenderCloses([ snd EXCEPT !.phase = "scanning", !.picked = snd.picked + 1 ],
                     << "pick", snd.picked + 1 >>)
    BY Zenon DEF PickSource
  <2>2. SenderCloses(page, << "pick", k >>)
    BY <1>3, <2>1, Zenon
  <2> QED
    BY <1>0, <2>2 DEF PickSource
<1>2. /\ page \in Sender /\ page.phase = "scanning" /\ page.attempt = snd.attempt
      /\ page.picked = k /\ page.loading = snd.loading /\ page.selection = snd.selection
      /\ page.source = snd.source /\ page.saved = snd.saved
  <2>1. k \in 0 .. MaxSelections /\ snd \in Sender
    BY SenderPage DEF Split, Selections
  <2> QED
    BY <2>1 DEF Sender
<1> HIDE DEF page
<1>4. /\ snd' \in Sender /\ SameSource(snd', page) /\ snd'.owner = << "pick", k >>
      /\ snd'.phase = "scanning" /\ Shorter(toR', toR) /\ toS' = << >>
  BY <1>1, <1>2, <1>3, SenderClosing DEF Split
<1>5. ConnectionInv' /\ StartsWhenReady'
  BY <1>1, <1>2, <1>3, SenderStops DEF Split
<1>6. TypeOK'
  BY <1>1, <1>4, PageTypes, EmptyIsQueue, ShorterIsQueue DEF Split, TypeOK
<1>7. SourceInv'
  <2>1. /\ snd'.attempt = snd.attempt /\ snd'.picked = k /\ snd'.loading = snd.loading
        /\ snd'.selection = snd.selection /\ snd'.source = snd.source
        /\ snd'.saved = snd.saved /\ UNCHANGED << job, db, discard >>
    BY <1>1, <1>2, <1>4 DEF SameSource, saving
  <2>2. snd.selection = 0 /\ snd.source = 0
    BY <1>1 DEF Split, SavingInv, SourceInv
  <2>3. job[k] = "none" /\ k \notin db \cup { snd.saved, discard, snd.selection }
    BY <1>1, <1>3 DEF Split, SavingInv, SourceInv, Selections
  <2>4. \A h \in Selections :
          /\ h > k => h > snd.picked
          /\ << "pick", k >> = << "pick", h >> => h = k
          /\ << "pick", k >> # << "restore", h >>
    BY <1>1, <1>3 DEF Selections
  <2> QED
    BY <1>1, <1>4, <2>1, <2>2, <2>3, <2>4 DEF Split, SavingInv, SourceInv, Selections
<1>8. RecordsAccounted'
  BY <1>1, <1>2, <1>4 DEF Split, SavingInv, RecordsAccounted, SameSource, saving
<1> QED
  BY <1>1, <1>5, <1>6, <1>7, <1>8 DEF Split, SavingInv, NoHonestAccusation

LEMMA RestoreSourceKeeps ==
  ASSUME Split, RestoreSource
  PROVE  Split'
<1> DEFINE page == [ snd EXCEPT !.phase = "checking" ]
<1>1. /\ snd.saved # 0 /\ snd.selection = 0
      /\ SenderCloses(page, << "restore", snd.saved >>)
      /\ UNCHANGED << rcv, connection, saving, consents, fault >>
  BY DEF RestoreSource
<1>2. /\ page \in Sender /\ page.phase = "checking" /\ page.attempt = snd.attempt
      /\ SameSource(page, snd) /\ snd.saved \in Selections
  BY <1>1, SenderPage DEF Split, Sender, SameSource, Selections
<1>3. << "restore", snd.saved >> \in Owner
  BY <1>2, SenderPage DEF Split
<1> HIDE DEF page
<1>4. /\ snd' \in Sender /\ SameSource(snd', snd) /\ snd'.owner = << "restore", snd.saved >>
      /\ snd'.phase = "checking" /\ Shorter(toR', toR) /\ toS' = << >>
  BY <1>1, <1>2, <1>3, SenderClosing DEF Split, SameSource
<1>5. ConnectionInv' /\ StartsWhenReady'
  BY <1>1, <1>2, <1>3, SenderStops DEF Split
<1>6. TypeOK'
  BY <1>1, <1>4, PageTypes, EmptyIsQueue, ShorterIsQueue DEF Split, TypeOK
<1>7. SourceInv'
  BY <1>1, <1>2, <1>4 DEF Split, SavingInv, SourceInv, SameSource, saving, Selections
<1>8. RecordsAccounted'
  BY <1>1, <1>4 DEF Split, SavingInv, RecordsAccounted, SameSource, saving
<1> QED
  BY <1>1, <1>5, <1>6, <1>7, <1>8 DEF Split, SavingInv, NoHonestAccusation

\* A page that closes its end and keeps its source.
LEMMA StopKeeps ==
  ASSUME Split, NEW phase \in { "idle", "selected" }, phase = "idle" => snd.selection = 0,
         SenderCloses([ snd EXCEPT !.phase = phase ], Nobody),
         UNCHANGED << rcv, connection, saving, consents, fault >>
  PROVE  Split'
<1> DEFINE page == [ snd EXCEPT !.phase = phase ]
<1>1. /\ page \in Sender /\ page.attempt = snd.attempt /\ SameSource(page, snd)
      /\ page.phase = phase
  BY SenderPage DEF Split, Sender, SameSource
<1>2. SenderCloses(page, Nobody) /\ Nobody \in Owner /\ Nobody[1] = "nobody"
  BY SenderPage DEF Split
<1> HIDE DEF page
<1>3. /\ snd' \in Sender /\ SameSource(snd', snd) /\ snd'.owner = Nobody
      /\ snd'.phase = phase /\ Shorter(toR', toR) /\ toS' = << >>
  BY <1>1, <1>2, SenderClosing DEF Split, SameSource
<1>4. ConnectionInv' /\ StartsWhenReady'
  BY <1>1, <1>2, SenderStops DEF Split
<1>5. TypeOK'
  BY <1>3, PageTypes, EmptyIsQueue, ShorterIsQueue DEF Split, TypeOK
<1>6. SavingInv'
  BY <1>2, <1>3, SavingAlone DEF Split, Picking
<1> QED
  BY <1>4, <1>5, <1>6 DEF Split, NoHonestAccusation

LEMMA ScanFailsKeeps ==
  ASSUME Split, NEW k \in Selections, NEW kind \in { "pick", "restore" }, ScanFails(kind, k)
  PROVE  Split'
<1>1. snd.owner = << kind, k >> /\ UNCHANGED << rcv, connection, saving, consents, fault >>
  BY DEF ScanFails
<1>2. CASE SenderFails
  <2>2. /\ snd' \in Sender /\ SameSource(snd', snd) /\ snd'.owner = Nobody
        /\ snd'.phase = "failed" /\ toR' \in Seq(Message) /\ toS' = << >>
        /\ ConnectionInv' /\ StartsWhenReady'
    BY <1>1, <1>2, SenderFailing DEF Split
  <2>3. TypeOK'
    BY <1>1, <2>2, PageTypes, EmptyIsQueue DEF Split, TypeOK
  <2>4. SavingInv'
    BY <1>1, <2>2, SavingAlone, SenderPage DEF Split, Picking
  <2> QED
    BY <1>1, <2>2, <2>3, <2>4 DEF Split, NoHonestAccusation
<1>3. CASE kind = "pick" /\ SenderCloses([ snd EXCEPT !.phase = "idle" ], Nobody)
  <2>1. snd.selection = 0
    BY <1>1, <1>3 DEF Split, SavingInv, SourceInv
  <2> QED
    BY <1>1, <1>3, <2>1, StopKeeps
<1> QED
  BY <1>2, <1>3 DEF ScanFails

LEMMA StopConnectionKeeps ==
  ASSUME Split, StopConnection
  PROVE  Split'
<1>1. UNCHANGED << rcv, connection, saving, consents, fault >>
  BY DEF StopConnection, Unmoved, connection
<1>2. CASE snd.selection # 0
  <2>1. SenderCloses([ snd EXCEPT !.phase = "selected" ], Nobody)
    BY <1>2 DEF StopConnection
  <2> QED
    BY <1>1, <1>2, <2>1, StopKeeps
<1>3. CASE snd.selection = 0
  <2>1. SenderCloses([ snd EXCEPT !.phase = "idle" ], Nobody)
    BY <1>3 DEF StopConnection
  <2> QED
    BY <1>1, <1>3, <2>1, StopKeeps
<1> QED
  BY <1>2, <1>3

LEMMA ResetKeeps ==
  ASSUME Split, Reset
  PROVE  Split'
<1> DEFINE page == [ snd EXCEPT !.phase = "idle", !.selection = 0, !.source = 0 ]
<1>1. /\ SenderCloses(page, Nobody) /\ Nobody \in Owner /\ Nobody[1] = "nobody"
      /\ UNCHANGED << rcv, connection, saving, consents, fault >>
  BY SenderPage DEF Reset, Unmoved, connection, Split
<1>2. /\ page \in Sender /\ page.attempt = snd.attempt /\ page.picked = snd.picked
      /\ page.loading = snd.loading /\ page.saved = snd.saved
      /\ page.selection = 0 /\ page.source = 0
  <2>1. 0 \in 0 .. MaxSelections /\ snd \in Sender
    BY SenderPage DEF Split
  <2> QED
    BY <2>1 DEF Sender
<1> HIDE DEF page
<1>3. /\ snd' \in Sender /\ snd'.owner = Nobody /\ Shorter(toR', toR) /\ toS' = << >>
      /\ snd'.picked = snd.picked /\ snd'.loading = snd.loading /\ snd'.saved = snd.saved
      /\ snd'.selection = 0 /\ snd'.source = 0
  BY <1>1, <1>2, SenderClosing DEF Split, SameSource
<1>4. ConnectionInv' /\ StartsWhenReady'
  BY <1>1, <1>2, SenderStops DEF Split
<1>5. TypeOK'
  BY <1>1, <1>3, PageTypes, EmptyIsQueue, ShorterIsQueue DEF Split, TypeOK
<1>6. SourceInv'
  BY <1>1, <1>3 DEF Split, SavingInv, SourceInv, saving, Selections, Nobody
<1>7. RecordsAccounted'
  BY <1>1, <1>3 DEF Split, SavingInv, RecordsAccounted, saving
<1> QED
  BY <1>1, <1>4, <1>5, <1>6, <1>7 DEF Split, SavingInv, NoHonestAccusation

LEMMA PrepareKeeps ==
  ASSUME Split, Prepare
  PROVE  Split'
<1>0. /\ snd.attempt \in 0 .. MaxAttempts /\ snd.attempt < MaxAttempts /\ snd.selection # 0
      /\ UNCHANGED << rcv, join, room, saving, consents, fault >>
  BY DEF Prepare, Unmoved, Split, TypeOK, Sender
<1>1. PICK a \in Attempts : a = snd.attempt + 1
  BY <1>0 DEF Attempts
<1> DEFINE page == [ snd EXCEPT !.phase = "checking", !.attempt = a ]
<1>2. SenderCloses(page, << "attempt", a >>) /\ task' = [ task EXCEPT ![a] = "check" ]
  <2>1. /\ SenderCloses([ snd EXCEPT !.phase = "checking", !.attempt = snd.attempt + 1 ],
                        << "attempt", snd.attempt + 1 >>)
        /\ task' = [ task EXCEPT ![snd.attempt + 1] = "check" ]
    BY Zenon DEF Prepare
  <2> QED
    BY <1>1, <2>1, Zenon
<1>3. /\ page \in Sender /\ page.attempt = a /\ page.phase = "checking"
      /\ page.picked = snd.picked /\ page.loading = snd.loading
      /\ page.selection = snd.selection /\ page.source = snd.source /\ page.saved = snd.saved
  <2>1. a \in 0 .. MaxAttempts /\ snd \in Sender
    BY SenderPage DEF Split, Attempts
  <2> QED
    BY <2>1 DEF Sender
<1>4. << "attempt", a >> \in Owner
  BY SenderPage DEF Split
<1> HIDE DEF page
<1>5. /\ snd' \in Sender /\ snd'.owner = << "attempt", a >>
      /\ Shorter(toR', toR) /\ toS' = << >> /\ snd'.phase = "checking"
      /\ snd'.picked = snd.picked /\ snd'.loading = snd.loading /\ snd'.saved = snd.saved
      /\ snd'.selection = snd.selection /\ snd'.source = snd.source
  BY <1>2, <1>3, <1>4, SenderClosing DEF Split, SameSource
<1>6. task \in [ Attempts -> { "none", "check", "room", "answer", "digest", "remote", "end" } ]
  BY DEF Split, TypeOK
<1>7. ConnectionInv' /\ StartsWhenReady'
  <2>1. TasksKept(snd.attempt, page.attempt)
    BY <1>0, <1>1, <1>2, <1>3, <1>6 DEF TasksKept, Attempts
  <2>2. page.attempt >= snd.attempt
    BY <1>0, <1>1, <1>3
  <2> QED
    BY <1>0, <1>2, <1>3, <1>4, <2>1, <2>2, SenderClosed DEF Split
<1>8. TypeOK'
  <2>1. task' \in [ Attempts -> { "none", "check", "room", "answer", "digest", "remote", "end" } ]
    BY <1>2, <1>6
  <2> QED
    BY <1>0, <1>5, <2>1, EmptyIsQueue, ShorterIsQueue DEF Split, TypeOK, saving
<1>9. SavingInv'
  BY <1>0, <1>5, SavingAlone DEF Split, SameSource, Picking, SavingInv, SourceInv, RecordsAccounted, saving
<1> QED
  BY <1>0, <1>7, <1>8, <1>9 DEF Split, NoHonestAccusation

LEMMA HashFailsKeeps ==
  ASSUME Split, NEW k \in Selections, HashFails(k)
  PROVE  Split'
<1>1. /\ job[k] = "hash" /\ job' = [ job EXCEPT ![k] = "none" ]
      /\ UNCHANGED << rcv, connection, content, db, discard, known, consents, fault >>
      /\ job \in [ Selections -> { "none", "hash", "save", "stored", "undo" } ]
  BY DEF HashFails, Drop, Split, TypeOK
<1>2. /\ SameSource(snd', snd) /\ ConnectionInv' /\ StartsWhenReady'
      /\ snd' \in Sender /\ toR' \in Seq(Message) /\ toS' \in Seq(Message)
      /\ snd'.owner = snd.owner \/ snd'.owner = Nobody
      /\ snd'.phase = "idle" => snd.phase = "idle"
      /\ snd'.selection = k \/ (snd.selection # k /\ snd'.selection # k)
  <2>1. CASE JobCurrent(k)
    <3>1. SenderFails
      BY <2>1 DEF HashFails
    <3>2. /\ snd' \in Sender /\ SameSource(snd', snd) /\ snd'.owner = Nobody
          /\ snd'.phase = "failed" /\ toR' \in Seq(Message) /\ toS' = << >>
          /\ ConnectionInv' /\ StartsWhenReady'
      BY <1>1, <3>1, SenderFailing DEF Split
    <3> QED
      BY <2>1, <3>2, EmptyIsQueue DEF JobCurrent, SameSource
  <2>2. CASE ~ JobCurrent(k)
    <3>1. UNCHANGED << snd, toR, toS >>
      BY <2>2 DEF HashFails, Drop
    <3>2. ConnectionInv'
      BY <1>1, <3>1, ConnectionAlone DEF Split, SameEnd
    <3> QED
      BY <2>2, <3>1, <3>2 DEF JobCurrent, SameSource, Split, StartsWhenReady, Ready, Authorized, TypeOK
  <2> QED
    BY <2>1, <2>2
<1>3. TypeOK'
  <2>1. job' \in [ Selections -> { "none", "hash", "save", "stored", "undo" } ]
    BY <1>1
  <2> QED
    BY <1>1, <1>2, <2>1 DEF Split, TypeOK, connection
<1>4. \A h \in Selections : job'[h] = IF h = k THEN "none" ELSE job[h]
  BY <1>1
<1>5. SourceInv'
  BY <1>1, <1>2, <1>4 DEF Split, SavingInv, SourceInv, SameSource, Nobody
<1>6. RecordsAccounted'
  BY <1>1, <1>2, <1>4 DEF Split, SavingInv, SourceInv, RecordsAccounted, SameSource, TypeOK
<1> QED
  BY <1>1, <1>2, <1>3, <1>5, <1>6 DEF Split, SavingInv, NoHonestAccusation

LEMMA ReloadKeeps ==
  ASSUME Split, Reload
  PROVE  Split'
<1> DEFINE page == [ FreshPage EXCEPT !.attempt = snd.attempt, !.picked = snd.picked ]
<1>1. /\ SenderCloses(page, Nobody) /\ Nobody \in Owner /\ Nobody[1] = "nobody"
      /\ UNCHANGED << rcv, connection, content, consents, fault >>
  BY SenderPage DEF Reload, Split
<1>2. /\ page \in Sender /\ page.attempt = snd.attempt /\ page.picked = snd.picked
      /\ page.saved = 0 /\ page.selection = 0 /\ page.source = 0
  <2>1. /\ NoAuth \in Auth(MaxJoins) /\ 0 \in 0 .. MaxSelections /\ Nobody \in Owner
        /\ snd.attempt \in 0 .. MaxAttempts /\ snd.picked \in 0 .. MaxSelections
    BY NoAuthType, SenderPage DEF Split, Sender
  <2> QED
    BY <2>1 DEF Sender, FreshPage
<1> HIDE DEF page
<1>3. /\ snd' \in Sender /\ snd'.owner = Nobody /\ Shorter(toR', toR) /\ toS' = << >>
      /\ snd'.picked = snd.picked /\ snd'.saved = 0
      /\ snd'.selection = 0 /\ snd'.source = 0
  BY <1>1, <1>2, SenderClosing DEF Split, SameSource
<1>4. ConnectionInv' /\ StartsWhenReady'
  BY <1>1, <1>2, SenderStops DEF Split
<1>5. /\ job' = [ k \in Selections |-> "none" ] /\ discard' = 0 /\ known' = known \cup db'
      /\ \A k \in Selections : job'[k] = "none"
  BY DEF Reload
<1>6. \A k \in db' : k \in db \/ (k \in Selections /\ job[k] = "save")
  BY DEF Reload
<1>7. TypeOK'
  <2>1. db' \subseteq Selections /\ known' \subseteq Selections /\ discard' \in 0 .. MaxSelections
    BY <1>5, <1>6 DEF Split, TypeOK
  <2>2. job' \in [ Selections -> { "none", "hash", "save", "stored", "undo" } ]
    BY <1>5
  <2> QED
    BY <1>1, <1>3, <2>1, <2>2, EmptyIsQueue, ShorterIsQueue DEF Split, TypeOK, connection
<1>8. SourceInv'
  BY <1>3, <1>5, <1>6 DEF Split, SavingInv, SourceInv, Selections, Nobody
<1>9. RecordsAccounted'
  BY <1>3, <1>5 DEF RecordsAccounted
<1> QED
  BY <1>1, <1>4, <1>7, <1>8, <1>9 DEF Split, SavingInv, NoHonestAccusation
-----------------------------------------------------------------------------
(* The gate.                                                               *)

\* The invariant as it would be with this page and these messages.
SenderAs(page, queue, given) ==
  /\ page.owner[1] = "attempt" => page.owner = << "attempt", page.attempt >>
  /\ page.auth.with = 0 =>
       page.auth = NoAuth /\ ~ page.up /\ ~ page.started /\ queue = << >>
  /\ page.auth.with # 0 =>
       /\ page.owner = << "attempt", page.attempt >>
       /\ task[page.attempt] \in { "remote", "end" }
       /\ join[page.auth.with].room = page.attempt
       /\ join[page.auth.with].at \in { "receipt", "end" }
  /\ page.auth.local => page.up /\ << "sender", page.attempt, page.auth.with >> \in given
  /\ page.auth.remote \/ queue # << >> =>
       << "receiver", page.attempt, page.auth.with >> \in given
  /\ page.auth.remote => page.up
  /\ page.started => Authorized(page)
  /\ ForSender(queue, page)

ReceiverAs(queue, given) ==
  /\ queue # << >> => rcv.auth.with # 0 /\ task[rcv.auth.with] \in { "remote", "end" }
                      /\ << "sender", rcv.auth.with, rcv.attempt >> \in given
  /\ ForReceiver(queue, rcv)

LinkAs(page, queue, back) ==
  Linked =>
    /\ page.auth.remote \/ back # << >> => rcv.auth.local
    /\ page.auth.local => rcv.auth.remote \/ \E i \in 1 .. Len(queue) : Confirms(queue, i)
    /\ rcv.got # 0 => page.started /\ rcv.got = page.selection
    /\ \A i \in 1 .. Len(queue) :
         Announces(queue, i) => page.started /\ queue[i].source = page.selection

\* The same end of the connection, whatever it was told meanwhile.
Continues(page) ==
  /\ page.owner = snd.owner /\ page.attempt = snd.attempt /\ page.selection = snd.selection
  /\ page.auth.with = snd.auth.with /\ page.up = snd.up /\ page.started = snd.started

LEMMA GateKeeps ==
  ASSUME TypeOK, ConnectionInv, NEW page \in Sender, NEW queue \in Seq(Message),
         MaybeAuthorize(page, queue), Continues(page), page.source \in { 0, page.selection },
         rcv' = rcv, task' = task, join' = join, room' = room, consents \subseteq consents',
         SenderAs(page, toS', consents'), ReceiverAs(queue, consents'),
         LinkAs(page, queue, toS')
  PROVE  ConnectionInv' /\ StartsWhenReady'
<1>1. /\ snd' \in Sender /\ SameSource(snd', page)
      /\ snd'.owner = page.owner /\ snd'.auth = page.auth /\ snd'.up = page.up
      /\ snd'.started <=> page.started \/ Opens(page)
      /\ Ready(snd') => snd'.source = 0
  BY Gate
<1>2. /\ toR' \in Seq(Message)
      /\ \/ toR' = queue
         \/ /\ Opens(page) /\ Linked
            /\ Manifest(page) \in Message /\ toR' = Append(queue, Manifest(page))
  BY Gate
<1>3. RoomInv'
  BY <1>1 DEF ConnectionInv, RoomInv, SameSource, Continues
<1>4. SenderInv'
  BY <1>1 DEF SenderAs, SenderInv, SenderLive, Current, SameSource, Authorized, ForSender,
              Confirms, Opens, Ready
<1>5. Linked' <=> Linked
  BY <1>1 DEF Linked, SenderLive, Current, SameSource, Continues
<1>6. CASE toR' = queue
  <2>1. ReceiverInv'
    BY <1>6 DEF ConnectionInv, ReceiverInv, ReceiverAs, Authorized, ForReceiver, Confirms,
                Announces
  <2>2. LinkInv'
    BY <1>1, <1>5, <1>6 DEF LinkAs, LinkInv, SameSource, Confirms, Announces
  <2> QED
    BY <1>1, <1>3, <1>4, <2>1, <2>2 DEF ConnectionInv, StartsWhenReady
<1>7. CASE /\ Opens(page) /\ Linked
           /\ Manifest(page) \in Message /\ toR' = Append(queue, Manifest(page))
  <2>1. page.auth.local /\ page.auth.remote /\ ~ page.started /\ page.source # 0
    BY <1>7 DEF Opens, Ready, Authorized
  <2>2. /\ rcv.auth.local /\ rcv.got = 0 /\ Unannounced(queue)
        /\ rcv.auth.remote \/ \E i \in 1 .. Len(queue) : Confirms(queue, i)
    BY <1>7, <2>1 DEF LinkAs, Unannounced
  <2>3. Manifest(page).type = "manifest" /\ Manifest(page).source = page.selection
    BY <2>1 DEF Manifest
  <2>4. /\ ForReceiver(toR', rcv)
        /\ (\E i \in 1 .. Len(queue) : Confirms(queue, i)) =>
             \E i \in 1 .. Len(toR') : Confirms(toR', i)
    BY <1>7, <2>2, <2>3, ManifestFollows DEF ReceiverAs
  <2>5. rcv.auth.with = snd.attempt /\ rcv.auth.with # 0 /\ snd.auth.with # 0
        /\ rcv.attempt = snd.auth.with
    BY <1>7 DEF Linked
  <2>6. /\ task[rcv.auth.with] \in { "remote", "end" }
        /\ << "sender", rcv.auth.with, rcv.attempt >> \in consents'
    BY <2>1, <2>5 DEF SenderAs, Continues
  <2>7. ReceiverInv'
    <3>1. ForReceiver(toR', rcv')
      BY <2>4
    <3> QED
      BY <2>5, <2>6, <3>1 DEF ConnectionInv, ReceiverInv, Authorized
  <2>8. \A i \in 1 .. Len(toR') :
          Announces(toR, i)' => snd'.started /\ toR'[i].source = snd'.selection
    <3>1. PICK n \in Nat : n = Len(queue)
      BY LenProperties
    <3>2. /\ Len(toR') = n + 1 /\ toR'[n + 1] = Manifest(page)
          /\ \A i \in 1 .. n : toR'[i] = queue[i]
      BY <1>7, <3>1, AppendAdds
    <3>3. snd'.started /\ snd'.selection = page.selection
      BY <1>1, <1>7 DEF SameSource
    <3> QED
      BY <2>2, <2>3, <3>1, <3>2, <3>3 DEF Unannounced, Announces
  <2>9. LinkInv'
    <3>1. snd'.started /\ snd'.auth = page.auth
      BY <1>1, <1>7
    <3>2. rcv.auth.remote \/ \E i \in 1 .. Len(toR') : Confirms(toR, i)'
      BY <2>2, <2>4 DEF Confirms
    <3> QED
      BY <2>2, <2>8, <3>1, <3>2 DEF LinkInv
  <2> QED
    BY <1>1, <1>3, <1>4, <2>7, <2>9 DEF ConnectionInv, StartsWhenReady
<1> QED
  BY <1>2, <1>6, <1>7

LEMMA AsItIs ==
  ASSUME TypeOK, ConnectionInv
  PROVE  /\ SenderAs(snd, toS, consents) /\ ReceiverAs(toR, consents)
         /\ LinkAs(snd, toR, toS)
<1>1. SenderAs(snd, toS, consents)
  BY DEF ConnectionInv, SenderInv, SenderAs, SenderLive, Current
<1>2. ReceiverAs(toR, consents)
  BY DEF ConnectionInv, ReceiverInv, ReceiverAs
<1>3. LinkAs(snd, toR, toS)
  BY DEF ConnectionInv, LinkInv, LinkAs
<1> QED
  BY <1>1, <1>2, <1>3

\* A gate that is passed or not leaves the sources as the page has them.
LEMMA GateSavingKeeps ==
  ASSUME TypeOK, SavingInv, NEW page \in Sender, NEW queue \in Seq(Message),
         MaybeAuthorize(page, queue), UNCHANGED saving, SameSource(page, snd),
         page.owner = snd.owner, page.phase = "idle" => snd.selection = 0
  PROVE  SavingInv'
<1>1. /\ SameSource(snd', snd) /\ snd'.owner = snd.owner
      /\ snd'.phase = "idle" => snd.selection = 0
  BY Gate DEF SameSource
<1> QED
  BY <1>1, SavingAlone

LEMMA SConfirmKeeps ==
  ASSUME Split, SConfirm
  PROVE  Split'
<1> DEFINE page == [ snd EXCEPT !.auth.local = TRUE ]
           m == [ type |-> "confirmed", by |-> snd.attempt, to |-> snd.auth.with ]
           queue == Sent(toR, m)
<1>1. /\ snd.up /\ snd.auth.with # 0 /\ ~ snd.auth.local /\ snd.phase = "verify"
      /\ MaybeAuthorize(page, queue)
      /\ consents' = consents \cup { << "sender", snd.attempt, snd.auth.with >> }
      /\ UNCHANGED << rcv, connection, toS, saving, fault >>
  BY DEF SConfirm
<1>2. /\ snd \in Sender /\ snd.auth \in Auth(MaxJoins)
  BY SenderPage DEF Split, Sender
<1>3. /\ page \in Sender /\ SameSource(page, snd) /\ page.phase = snd.phase
      /\ page.owner = snd.owner /\ page.up = snd.up /\ page.started = snd.started
      /\ page.auth = [ snd.auth EXCEPT !.local = TRUE ]
  BY <1>2 DEF Sender, SameSource, Auth
<1>4. /\ page.auth.with = snd.auth.with /\ page.auth.local
      /\ page.auth.remote = snd.auth.remote
  BY <1>2, <1>3 DEF Auth
<1>5. snd.attempt \in Attempts /\ snd.auth.with \in Joins
  BY <1>1, Numbers DEF Split, ConnectionInv
<1>6. /\ m \in Message /\ m.type = "confirmed" /\ m.by = snd.attempt /\ m.to = snd.auth.with
  BY <1>5 DEF Message
<1>7. \/ ~ Linked /\ queue = toR
      \/ Linked /\ queue = Append(toR, m)
  BY DEF Sent
<1>8. toR \in Seq(Message)
  BY DEF Split, TypeOK
<1> HIDE DEF page, m, queue
<1>9. queue \in Seq(Message)
  BY <1>6, <1>7, <1>8, AppendProperties
<1>10. /\ SenderAs(snd, toS, consents) /\ ReceiverAs(toR, consents)
       /\ LinkAs(snd, toR, toS)
  BY AsItIs DEF Split
<1>11. SenderAs(page, toS', consents')
  BY <1>1, <1>3, <1>4, <1>10 DEF SenderAs, SameSource, Authorized, ForSender
<1>12. ReceiverAs(queue, consents') /\ LinkAs(page, queue, toS')
  <2>1. CASE ~ Linked /\ queue = toR
    BY <1>1, <1>10, <2>1 DEF ReceiverAs, LinkAs
  <2>2. CASE Linked /\ queue = Append(toR, m)
    <3>1. /\ rcv.auth.with = snd.attempt /\ rcv.attempt = snd.auth.with
          /\ rcv.auth.with # 0
      BY <2>2 DEF Linked
    <3>2. /\ ForReceiver(queue, rcv)
          /\ \E i \in 1 .. Len(queue) : Confirms(queue, i)
          /\ Unannounced(toR) => Unannounced(queue)
      BY <1>6, <1>8, <1>10, <2>2, <3>1, ConfirmationFollows DEF ReceiverAs
    <3>3. ~ snd.started
      BY <1>1 DEF Split, ConnectionInv, SenderInv, Authorized
    <3>4. Unannounced(queue) /\ rcv.got = 0
      BY <1>10, <2>2, <3>2, <3>3 DEF LinkAs, Unannounced
    <3>5. ReceiverAs(queue, consents')
      BY <1>1, <1>10, <3>1, <3>2 DEF ReceiverAs, SenderAs
    <3>6. LinkAs(page, queue, toS')
      BY <1>1, <1>4, <1>10, <2>2, <3>2, <3>4 DEF LinkAs, Unannounced
    <3> QED
      BY <3>5, <3>6
  <2> QED
    BY <1>7, <2>1, <2>2
<1>13. Continues(page) /\ page.source \in { 0, page.selection }
  BY <1>3, <1>4 DEF Continues, SameSource, Split, SavingInv, SourceInv
<1>14. ConnectionInv' /\ StartsWhenReady'
  BY <1>1, <1>3, <1>9, <1>11, <1>12, <1>13, GateKeeps DEF Split, connection
<1>15. SavingInv'
  BY <1>1, <1>3, <1>9, GateSavingKeeps DEF Split
<1>16. TypeOK'
  <2>1. snd' \in Sender /\ toR' \in Seq(Message)
    BY <1>1, <1>3, <1>9, Gate
  <2>2. consents' \subseteq { "sender", "receiver" } \X Attempts \X Joins
    BY <1>1, <1>5 DEF Split, TypeOK
  <2> QED
    BY <1>1, <2>1, <2>2 DEF Split, TypeOK, connection, saving
<1> QED
  BY <1>1, <1>14, <1>15, <1>16 DEF Split, NoHonestAccusation

LEMMA SenderGetsConfirmedKeeps ==
  ASSUME Split, SenderGetsConfirmed
  PROVE  Split'
<1> DEFINE page == [ snd EXCEPT !.auth.remote = TRUE ]
<1>1. /\ snd.up /\ toS # << >> /\ UNCHANGED << rcv, connection, saving, consents >>
      /\ toS \in Seq(Message) /\ toR \in Seq(Message)
  BY DEF SenderGetsConfirmed, Split, TypeOK
<1>2. /\ SenderAs(snd, toS, consents) /\ ReceiverAs(toR, consents)
      /\ LinkAs(snd, toR, toS)
  BY AsItIs DEF Split
<1>3. snd.auth.with # 0 /\ snd.attempt \in Attempts /\ snd.auth.with \in Joins
  BY <1>1, Numbers DEF Split, ConnectionInv, SenderInv
<1>4. /\ Len(toS) \in Nat \ {0} /\ Head(toS) = toS[1] /\ Tail(toS) \in Seq(Message)
      /\ Len(Tail(toS)) = Len(toS) - 1
      /\ \A i \in 1 .. Len(toS) - 1 : Tail(toS)[i] = toS[i + 1]
  BY <1>1, TailShifts
<1>5. Head(toS).by = snd.attempt /\ Head(toS).to = snd.auth.with
  BY <1>2, <1>4 DEF SenderAs, ForSender
<1>6. Mismatch(Head(toS), snd.attempt, snd.auth.with) = {}
  BY <1>3, <1>5 DEF Mismatch, Attempts, Joins
<1>7. MaybeAuthorize(page, toR) /\ toS' = Tail(toS) /\ fault' = fault
  BY <1>6 DEF SenderGetsConfirmed
<1>8. /\ snd \in Sender /\ snd.auth \in Auth(MaxJoins)
  BY SenderPage DEF Split, Sender
<1>9. /\ page \in Sender /\ SameSource(page, snd) /\ page.phase = snd.phase
      /\ page.owner = snd.owner /\ page.up = snd.up /\ page.started = snd.started
      /\ page.auth = [ snd.auth EXCEPT !.remote = TRUE ]
  BY <1>8 DEF Sender, SameSource, Auth
<1>10. /\ page.auth.with = snd.auth.with /\ page.auth.local = snd.auth.local
       /\ page.auth.remote
  BY <1>8, <1>9 DEF Auth
<1> HIDE DEF page
<1>11. ForSender(Tail(toS), page)
  BY <1>2, <1>4, <1>9, <1>10 DEF SenderAs, ForSender, Confirms, SameSource
<1>12. SenderAs(page, toS', consents')
  BY <1>1, <1>2, <1>3, <1>7, <1>9, <1>10, <1>11 DEF SenderAs, SameSource, Authorized
<1>13. ReceiverAs(toR, consents') /\ LinkAs(page, toR, toS')
  BY <1>1, <1>2, <1>9, <1>10 DEF ReceiverAs, LinkAs, SameSource
<1>14. Continues(page) /\ page.source \in { 0, page.selection }
  BY <1>9, <1>10 DEF Continues, SameSource, Split, SavingInv, SourceInv
<1>15. ConnectionInv' /\ StartsWhenReady'
  BY <1>1, <1>7, <1>9, <1>12, <1>13, <1>14, GateKeeps DEF Split, connection
<1>16. SavingInv'
  BY <1>1, <1>7, <1>9, GateSavingKeeps DEF Split, SavingInv, SourceInv
<1>17. TypeOK'
  <2>1. snd' \in Sender /\ toR' \in Seq(Message)
    BY <1>1, <1>7, <1>9, Gate
  <2> QED
    BY <1>1, <1>4, <1>7, <2>1, PageTypes DEF Split, TypeOK
<1> QED
  BY <1>7, <1>15, <1>16, <1>17 DEF Split, NoHonestAccusation
-----------------------------------------------------------------------------
(* The source.                                                             *)

JobTypes == { "none", "hash", "save", "stored", "undo" }

LEMMA JobSet ==
  ASSUME TypeOK, NEW k \in Selections, NEW to \in JobTypes, job' = [ job EXCEPT ![k] = to ]
  PROVE  /\ job' \in [ Selections -> JobTypes ]
         /\ \A h \in Selections : job'[h] = IF h = k THEN to ELSE job[h]
BY DEF TypeOK, JobTypes

\* The page's source and its record change, and the gate looks again.
LEMMA FinishKeeps ==
  ASSUME Split, NEW k \in Selections, JobCurrent(k), NEW record \in 0 .. MaxSelections,
         Finish(k, record), UNCHANGED << rcv, connection, consents >>
  PROVE  /\ snd' \in Sender /\ toR' \in Seq(Message) /\ toS' = toS
         /\ ConnectionInv' /\ StartsWhenReady'
         /\ snd'.source = k /\ snd'.saved = record /\ snd'.selection = k
         /\ snd'.picked = snd.picked /\ snd'.loading = snd.loading
         /\ snd'.owner = snd.owner /\ snd'.phase # "idle"
         /\ snd.owner[1] \notin Picking
         /\ job' = [ job EXCEPT ![k] = "none" ]
<1> DEFINE page == [ snd EXCEPT !.source = k, !.saved = record ]
<1>1. /\ MaybeAuthorize(page, toR) /\ toS' = toS /\ job' = [ job EXCEPT ![k] = "none" ]
      /\ toR \in Seq(Message) /\ snd.selection = k /\ k # 0
  BY DEF Finish, Split, TypeOK, JobCurrent, Selections
<1>2. /\ page \in Sender /\ page.source = k /\ page.saved = record
      /\ page.phase = snd.phase /\ page.attempt = snd.attempt /\ page.owner = snd.owner
      /\ page.picked = snd.picked /\ page.selection = snd.selection
      /\ page.loading = snd.loading /\ page.auth = snd.auth /\ page.up = snd.up
      /\ page.started = snd.started
  <2>1. k \in 0 .. MaxSelections /\ snd \in Sender
    BY SenderPage DEF Split, Selections
  <2> QED
    BY <2>1 DEF Sender
<1> HIDE DEF page
<1>3. Continues(page) /\ page.source \in { 0, page.selection }
  BY <1>1, <1>2 DEF Continues
<1>4. /\ SenderAs(page, toS', consents') /\ ReceiverAs(toR, consents')
      /\ LinkAs(page, toR, toS')
  <2>1. /\ SenderAs(snd, toS, consents) /\ ReceiverAs(toR, consents)
        /\ LinkAs(snd, toR, toS)
    BY AsItIs DEF Split
  <2> QED
    BY <1>1, <1>2, <2>1 DEF SenderAs, ReceiverAs, LinkAs, Authorized, ForSender
<1>5. ConnectionInv' /\ StartsWhenReady'
  BY <1>1, <1>2, <1>3, <1>4, GateKeeps DEF Split, connection
<1>6. /\ snd' \in Sender /\ SameSource(snd', page) /\ toR' \in Seq(Message)
      /\ snd'.owner = page.owner /\ snd'.phase \in { page.phase, "preparing", "waiting" }
  BY <1>1, <1>2, Gate
<1>7. snd.phase # "idle" /\ snd.owner[1] \notin Picking
  BY <1>1 DEF Split, SavingInv, SourceInv, Picking
<1> QED
  BY <1>1, <1>2, <1>5, <1>6, <1>7 DEF SameSource

\* A preparation that ends with the page's source and its record.
LEMMA FinishedSource ==
  ASSUME Split, NEW k \in Selections, job[k] # "none",
         snd'.source = k, snd'.saved \in { snd.saved, k }, snd'.selection = k,
         snd'.picked = snd.picked, snd'.loading = snd.loading,
         snd'.owner = snd.owner, snd'.phase # "idle", snd.owner[1] \notin Picking,
         job' = [ job EXCEPT ![k] = "none" ], db' = db, discard' = discard,
         snd'.saved = k => k \in db
  PROVE  SourceInv'
<1>1. \A h \in Selections : job'[h] = IF h = k THEN "none" ELSE job[h]
  BY JobSet DEF Split, JobTypes
<1>2. snd.picked \in Nat
  BY SenderPage DEF Split, Sender
<1>3. SourceInv
  BY DEF Split, SavingInv
<1>4. \A h \in Selections :
        /\ << "pick", h >>[1] \in Picking /\ << "restore", h >>[1] \in Picking
  BY DEF Picking
<1>5. k <= snd.picked /\ k # 0
  BY <1>2, <1>3 DEF SourceInv, Selections
<1>6. snd'.loading => \A h \in Selections : job'[h] \notin { "stored", "undo" }
  BY <1>1, <1>3 DEF SourceInv
<1>7. ASSUME NEW h \in Selections
      PROVE  /\ h > snd'.picked =>
                  /\ job'[h] = "none" /\ h \notin db' \cup { snd'.saved, discard', snd'.selection }
                  /\ snd'.owner \notin { << "pick", h >>, << "restore", h >> }
             /\ job'[h] \in { "hash", "save" } => h \notin db'
             /\ job'[h] = "stored" => h \in db'
             /\ job'[h] = "undo" => snd'.selection # h
             /\ job'[h] # "none" => h \notin { snd'.saved, discard' }
  BY <1>1, <1>2, <1>3, <1>5 DEF SourceInv, Selections
<1> QED
  BY <1>3, <1>4, <1>5, <1>6, <1>7 DEF SourceInv, Picking

LEMMA HashedKeeps ==
  ASSUME Split, NEW k \in Selections, Hashed(k)
  PROVE  Split'
<1>1. /\ job[k] = "hash"
      /\ UNCHANGED << rcv, connection, content, db, discard, known, consents, fault >>
  BY DEF Hashed
<1>2. CASE ~ JobCurrent(k)
  <2>1. UNCHANGED << snd, toR, toS >> /\ job' = [ job EXCEPT ![k] = "none" ]
    BY <1>2 DEF Hashed, Drop
  <2>2. /\ job' \in [ Selections -> JobTypes ]
        /\ \A h \in Selections : job'[h] = IF h = k THEN "none" ELSE job[h]
    BY <2>1, JobSet DEF Split, JobTypes
  <2>3. ConnectionInv' /\ StartsWhenReady'
    BY <1>1, <2>1, ConnectionAlone DEF Split, SameEnd, StartsWhenReady, Ready, Authorized
  <2>4. TypeOK'
    BY <1>1, <2>1, <2>2 DEF Split, TypeOK, connection, JobTypes
  <2>5. SourceInv' /\ RecordsAccounted'
    BY <1>1, <1>2, <2>1, <2>2 DEF Split, SavingInv, SourceInv, RecordsAccounted, JobCurrent, TypeOK
  <2> QED
    BY <1>1, <2>3, <2>4, <2>5 DEF Split, SavingInv, NoHonestAccusation
<1>3. CASE JobCurrent(k) /\ snd.saved # 0 /\ content[snd.saved] = content[k]
  <2>1. Finish(k, snd.saved) /\ snd.saved \in 0 .. MaxSelections
    BY <1>3, SenderPage DEF Hashed, Split, Sender
  <2>2. /\ snd' \in Sender /\ toR' \in Seq(Message) /\ toS' = toS
        /\ ConnectionInv' /\ StartsWhenReady'
        /\ snd'.source = k /\ snd'.saved = snd.saved /\ snd'.selection = k
        /\ snd'.picked = snd.picked /\ snd'.loading = snd.loading
        /\ snd'.owner = snd.owner /\ snd'.phase # "idle" /\ snd.owner[1] \notin Picking
        /\ job' = [ job EXCEPT ![k] = "none" ]
    BY <1>1, <1>3, <2>1, FinishKeeps
  <2>3. /\ job' \in [ Selections -> JobTypes ]
        /\ \A h \in Selections : job'[h] = IF h = k THEN "none" ELSE job[h]
    BY <2>2, JobSet DEF Split, JobTypes
  <2>4. TypeOK'
    BY <1>1, <2>2, <2>3 DEF Split, TypeOK, connection, JobTypes
  <2>5. SourceInv'
    <3>1. k # snd.saved
      BY <1>1 DEF Split, SavingInv, SourceInv
    <3> QED
      BY <1>1, <2>2, <3>1, FinishedSource
  <2>6. RecordsAccounted'
    BY <1>1, <2>2, <2>3 DEF Split, SavingInv, SourceInv, RecordsAccounted, TypeOK
  <2> QED
    BY <1>1, <2>2, <2>4, <2>5, <2>6 DEF Split, SavingInv, NoHonestAccusation
<1>4. CASE JobCurrent(k) /\ ~ (snd.saved # 0 /\ content[snd.saved] = content[k])
  <2>1. job' = [ job EXCEPT ![k] = "save" ] /\ UNCHANGED << snd, toR, toS >>
    BY <1>4 DEF Hashed
  <2>2. /\ job' \in [ Selections -> JobTypes ]
        /\ \A h \in Selections : job'[h] = IF h = k THEN "save" ELSE job[h]
    BY <2>1, JobSet DEF Split, JobTypes
  <2>3. ConnectionInv' /\ StartsWhenReady'
    BY <1>1, <2>1, ConnectionAlone DEF Split, SameEnd, StartsWhenReady, Ready, Authorized
  <2>4. TypeOK'
    BY <1>1, <2>1, <2>2 DEF Split, TypeOK, connection, JobTypes
  <2>5. SourceInv' /\ RecordsAccounted'
    BY <1>1, <1>4, <2>1, <2>2 DEF Split, SavingInv, SourceInv, RecordsAccounted, JobCurrent, TypeOK
  <2> QED
    BY <1>1, <2>3, <2>4, <2>5 DEF Split, SavingInv, NoHonestAccusation
<1> QED
  BY <1>2, <1>3, <1>4

\* What goes on behind the pages.
LEMMA PagesAlone ==
  ASSUME Split, UNCHANGED << snd, rcv, connection, toR, toS, consents, fault >>
  PROVE  ConnectionInv' /\ StartsWhenReady' /\ NoHonestAccusation'
BY ConnectionAlone DEF Split, SameEnd, StartsWhenReady, Ready, Authorized, NoHonestAccusation

LEMMA SaveCommitsKeeps ==
  ASSUME Split, NEW k \in Selections, SaveCommits(k)
  PROVE  Split'
<1>1. /\ job[k] = "save" /\ ~ snd.loading
      /\ db' = db \cup { k } /\ job' = [ job EXCEPT ![k] = "stored" ]
      /\ UNCHANGED << snd, rcv, connection, toR, toS, content, discard, known, consents, fault >>
  BY DEF SaveCommits
<1>2. /\ job' \in [ Selections -> JobTypes ]
      /\ \A h \in Selections : job'[h] = IF h = k THEN "stored" ELSE job[h]
  BY <1>1, JobSet DEF Split, JobTypes
<1>3. TypeOK'
  BY <1>1, <1>2 DEF Split, TypeOK, connection, JobTypes
<1>4. SourceInv' /\ RecordsAccounted'
  BY <1>1, <1>2 DEF Split, SavingInv, SourceInv, RecordsAccounted, TypeOK
<1> QED
  BY <1>1, <1>3, <1>4, PagesAlone DEF Split, SavingInv

LEMMA SaveFailsKeeps ==
  ASSUME Split, NEW k \in Selections, SaveFails(k)
  PROVE  Split'
<1>1. /\ job[k] = "save"
      /\ UNCHANGED << rcv, connection, content, db, discard, known, consents, fault >>
  BY DEF SaveFails
<1>2. CASE ~ JobCurrent(k)
  <2>1. UNCHANGED << snd, toR, toS >> /\ job' = [ job EXCEPT ![k] = "none" ]
    BY <1>2 DEF SaveFails, Drop
  <2>2. /\ job' \in [ Selections -> JobTypes ]
        /\ \A h \in Selections : job'[h] = IF h = k THEN "none" ELSE job[h]
    BY <2>1, JobSet DEF Split, JobTypes
  <2>3. TypeOK'
    BY <1>1, <2>1, <2>2 DEF Split, TypeOK, connection, JobTypes
  <2>4. SourceInv' /\ RecordsAccounted'
    BY <1>1, <1>2, <2>1, <2>2 DEF Split, SavingInv, SourceInv, RecordsAccounted, JobCurrent, TypeOK
  <2> QED
    BY <1>1, <2>1, <2>3, <2>4, PagesAlone DEF Split, SavingInv
<1>3. CASE JobCurrent(k)
  <2>1. Finish(k, snd.saved) /\ snd.saved \in 0 .. MaxSelections
    BY <1>3, SenderPage DEF SaveFails, Split, Sender
  <2>2. /\ snd' \in Sender /\ toR' \in Seq(Message) /\ toS' = toS
        /\ ConnectionInv' /\ StartsWhenReady'
        /\ snd'.source = k /\ snd'.saved = snd.saved /\ snd'.selection = k
        /\ snd'.picked = snd.picked /\ snd'.loading = snd.loading
        /\ snd'.owner = snd.owner /\ snd'.phase # "idle" /\ snd.owner[1] \notin Picking
        /\ job' = [ job EXCEPT ![k] = "none" ]
    BY <1>1, <1>3, <2>1, FinishKeeps
  <2>3. /\ job' \in [ Selections -> JobTypes ]
        /\ \A h \in Selections : job'[h] = IF h = k THEN "none" ELSE job[h]
    BY <2>2, JobSet DEF Split, JobTypes
  <2>4. TypeOK'
    BY <1>1, <2>2, <2>3 DEF Split, TypeOK, connection, JobTypes
  <2>5. SourceInv'
    <3>1. k # snd.saved
      BY <1>1 DEF Split, SavingInv, SourceInv
    <3> QED
      BY <1>1, <2>2, <3>1, FinishedSource
  <2>6. RecordsAccounted'
    BY <1>1, <2>2, <2>3 DEF Split, SavingInv, SourceInv, RecordsAccounted, TypeOK
  <2> QED
    BY <1>1, <2>2, <2>4, <2>5, <2>6 DEF Split, SavingInv, NoHonestAccusation
<1> QED
  BY <1>2, <1>3

LEMMA SaveReturnsKeeps ==
  ASSUME Split, NEW k \in Selections, SaveReturns(k)
  PROVE  Split'
<1>1. /\ job[k] = "stored"
      /\ UNCHANGED << rcv, connection, content, db, discard, consents, fault >>
  BY DEF SaveReturns
<1>2. CASE ~ JobCurrent(k)
  <2>1. UNCHANGED << snd, toR, toS, known >> /\ job' = [ job EXCEPT ![k] = "undo" ]
    BY <1>2 DEF SaveReturns
  <2>2. /\ job' \in [ Selections -> JobTypes ]
        /\ \A h \in Selections : job'[h] = IF h = k THEN "undo" ELSE job[h]
    BY <2>1, JobSet DEF Split, JobTypes
  <2>3. TypeOK'
    BY <1>1, <2>1, <2>2 DEF Split, TypeOK, connection, JobTypes
  <2>4. SourceInv' /\ RecordsAccounted'
    BY <1>1, <1>2, <2>1, <2>2 DEF Split, SavingInv, SourceInv, RecordsAccounted, JobCurrent, TypeOK
  <2> QED
    BY <1>1, <2>1, <2>3, <2>4, PagesAlone DEF Split, SavingInv
<1>3. CASE JobCurrent(k)
  <2>1. Finish(k, k) /\ known' = known \cup { k } /\ k \in 0 .. MaxSelections
    BY <1>3 DEF SaveReturns, Selections
  <2>2. /\ snd' \in Sender /\ toR' \in Seq(Message) /\ toS' = toS
        /\ ConnectionInv' /\ StartsWhenReady'
        /\ snd'.source = k /\ snd'.saved = k /\ snd'.selection = k
        /\ snd'.picked = snd.picked /\ snd'.loading = snd.loading
        /\ snd'.owner = snd.owner /\ snd'.phase # "idle" /\ snd.owner[1] \notin Picking
        /\ job' = [ job EXCEPT ![k] = "none" ]
    BY <1>1, <1>3, <2>1, FinishKeeps
  <2>3. /\ job' \in [ Selections -> JobTypes ]
        /\ \A h \in Selections : job'[h] = IF h = k THEN "none" ELSE job[h]
    BY <2>2, JobSet DEF Split, JobTypes
  <2>4. TypeOK'
    <3>1. /\ UNCHANGED << rcv, task, join, room, content, db, discard, consents, fault >>
          /\ known' = known \cup { k }
      BY <1>1, <2>1 DEF connection
    <3>2. TypeOK
      BY <1>1 DEF Split
    <3>3. known' \subseteq Selections /\ JobTypes = { "none", "hash", "save", "stored", "undo" }
      BY <3>1, <3>2 DEF TypeOK, JobTypes
    <3>4. /\ snd' \in Sender /\ toR' \in Seq(Message) /\ toS' \in Seq(Message)
          /\ job' \in [ Selections -> { "none", "hash", "save", "stored", "undo" } ]
      BY <2>2, <2>3, <3>2, <3>3 DEF TypeOK
    <3> QED
      BY <3>1, <3>2, <3>3, <3>4 DEF TypeOK
  <2>5. k \in db
    BY <1>1 DEF Split, SavingInv, SourceInv
  <2>6. SourceInv'
    BY <1>1, <2>2, <2>5, FinishedSource
  <2>7. RecordsAccounted'
    BY <1>1, <2>1, <2>2, <2>3, <2>5 DEF Split, SavingInv, RecordsAccounted, TypeOK
  <2> QED
    BY <1>1, <2>2, <2>4, <2>6, <2>7 DEF Split, SavingInv, NoHonestAccusation
<1> QED
  BY <1>2, <1>3

LEMMA UndoSaveKeeps ==
  ASSUME Split, NEW k \in Selections, UndoSave(k)
  PROVE  Split'
<1>1. /\ job[k] = "undo" /\ job' = [ job EXCEPT ![k] = "none" ]
      /\ UNCHANGED << snd, rcv, connection, toR, toS, content, discard, consents, fault >>
      /\ \/ db' = db \ { k } /\ known' = known
         \/ db' = db /\ known' = known \cup { k }
  BY DEF UndoSave, Drop
<1>2. /\ job' \in [ Selections -> JobTypes ]
      /\ \A h \in Selections : job'[h] = IF h = k THEN "none" ELSE job[h]
  BY <1>1, JobSet DEF Split, JobTypes
<1>3. TypeOK'
  BY <1>1, <1>2 DEF Split, TypeOK, connection, JobTypes
<1>4. SourceInv' /\ RecordsAccounted'
  BY <1>1, <1>2 DEF Split, SavingInv, SourceInv, RecordsAccounted, TypeOK
<1> QED
  BY <1>1, <1>3, <1>4, PagesAlone DEF Split, SavingInv

LEMMA LoadSavedKeeps ==
  ASSUME Split, LoadSaved
  PROVE  Split'
<1> DEFINE record == IF snd.phase = "idle" /\ db # {} THEN Newest(db) ELSE snd.saved
<1>1. /\ snd.loading /\ snd' = [ snd EXCEPT !.loading = FALSE, !.saved = record ]
      /\ UNCHANGED << rcv, connection, toR, toS, saving, consents, fault >>
  BY DEF LoadSaved
<1>2. /\ record \in 0 .. MaxSelections
      /\ record = snd.saved \/ record \in db
  <2>1. db \in SUBSET Selections /\ snd.saved \in 0 .. MaxSelections
    BY SenderPage DEF Split, TypeOK, Sender
  <2>2. db # {} => Newest(db) \in db
    <3>1. \A r \in SUBSET Selections : r # {} => Newest(r) \in r
      BY NewestIsThere
    <3> QED
      BY <2>1, <3>1
  <2>3. db # {} => Newest(db) \in 0 .. MaxSelections
    <3>1. \A r \in db : r \in 0 .. MaxSelections
      BY <2>1 DEF Selections
    <3> QED
      BY <2>2, <3>1, Zenon
  <2> QED
    BY <2>1, <2>2, <2>3
<1> HIDE DEF record
<1>3. /\ snd' \in Sender /\ snd'.saved = record /\ ~ snd'.loading
      /\ snd'.selection = snd.selection /\ snd'.source = snd.source
      /\ snd'.picked = snd.picked /\ snd'.phase = snd.phase /\ SameEnd(snd', snd)
  BY <1>1, <1>2, SenderPage DEF Split, Sender, SameEnd
<1>4. ConnectionInv' /\ StartsWhenReady'
  BY <1>1, <1>3, ConnectionAlone DEF Split, SameEnd, StartsWhenReady, Ready, Authorized
<1>5. TypeOK'
  BY <1>1, <1>3 DEF Split, TypeOK, connection, saving
<1>6. record \in db => \A k \in Selections : job[k] # "none" => k # record
  BY <1>1, <1>2 DEF Split, SavingInv, SourceInv, TypeOK
<1>7. record # snd.saved => snd.selection = 0
  BY DEF record, Split, SavingInv, SourceInv
<1>8. SourceInv'
  BY <1>1, <1>2, <1>3, <1>6, <1>7 DEF Split, SavingInv, SourceInv, SameEnd, saving, Selections
<1>9. RecordsAccounted'
  BY <1>1, <1>2, <1>3 DEF Split, SavingInv, RecordsAccounted, saving
<1> QED
  BY <1>1, <1>4, <1>5, <1>8, <1>9 DEF Split, SavingInv, NoHonestAccusation

LEMMA DiscardKeeps ==
  ASSUME Split, DiscardSaved \/ DiscardCommits \/ DiscardReturns
  PROVE  Split'
<1>1. CASE DiscardSaved
  <2>1. /\ discard' = snd.saved /\ snd.saved \in 0 .. MaxSelections
        /\ UNCHANGED << snd, rcv, connection, toR, toS, content, job, db, known, consents, fault >>
        /\ discard = 0
    BY <1>1, SenderPage DEF DiscardSaved, Split, Sender
  <2>2. TypeOK'
    BY <2>1 DEF Split, TypeOK, connection
  <2>3. SourceInv' /\ RecordsAccounted'
    BY <2>1 DEF Split, SavingInv, SourceInv, RecordsAccounted
  <2> QED
    BY <2>1, <2>2, <2>3, PagesAlone DEF Split, SavingInv
<1>2. CASE DiscardCommits
  <2>1. /\ db' = db \ { discard } /\ discard \in db
        /\ UNCHANGED << snd, rcv, connection, toR, toS, content, job, discard, known, consents, fault >>
    BY <1>2 DEF DiscardCommits
  <2>2. TypeOK'
    BY <2>1 DEF Split, TypeOK, connection
  <2>3. SourceInv' /\ RecordsAccounted'
    BY <2>1 DEF Split, SavingInv, SourceInv, RecordsAccounted
  <2> QED
    BY <2>1, <2>2, <2>3, PagesAlone DEF Split, SavingInv
<1>3. CASE DiscardReturns
  <2> DEFINE record == IF discard \notin db /\ snd.saved = discard THEN 0 ELSE snd.saved
  <2>1. /\ discard' = 0 /\ discard # 0 /\ snd' = [ snd EXCEPT !.saved = record ]
        /\ UNCHANGED << rcv, connection, toR, toS, content, job, db, known, consents, fault >>
    BY <1>3 DEF DiscardReturns
  <2>2. /\ record \in 0 .. MaxSelections /\ record \in { 0, snd.saved }
        /\ record \in { 0 } \cup db
    BY SenderPage DEF Split, Sender, SavingInv, RecordsAccounted
  <2> HIDE DEF record
  <2>3. /\ snd' \in Sender /\ snd'.saved = record /\ snd'.loading = snd.loading
        /\ snd'.selection = snd.selection /\ snd'.source = snd.source
        /\ snd'.picked = snd.picked /\ snd'.phase = snd.phase /\ SameEnd(snd', snd)
    BY <2>1, <2>2, SenderPage DEF Split, Sender, SameEnd
  <2>4. ConnectionInv' /\ StartsWhenReady'
    BY <2>1, <2>3, ConnectionAlone DEF Split, SameEnd, StartsWhenReady, Ready, Authorized
  <2>5. TypeOK'
    BY <2>1, <2>3 DEF Split, TypeOK, connection
  <2>6. SourceInv'
    <3>1. SourceInv
      BY DEF Split, SavingInv
    <3> QED
      BY <2>1, <2>2, <2>3, <3>1 DEF SourceInv, SameEnd, Selections
  <2>7. RecordsAccounted'
    BY <2>1, <2>2, <2>3 DEF Split, SavingInv, RecordsAccounted
  <2> QED
    BY <2>1, <2>4, <2>5, <2>6, <2>7 DEF Split, SavingInv, NoHonestAccusation
<1> QED
  BY <1>1, <1>2, <1>3

LEMMA ScannedKeeps ==
  ASSUME Split, NEW k \in Selections, NEW kind \in Picking, Scanned(kind, k)
  PROVE  Split'
<1> DEFINE source == IF kind = "restore" THEN k ELSE snd.source
<1>1. /\ snd.owner = << kind, k >>
      /\ snd' = [ snd EXCEPT !.owner = Nobody, !.phase = "selected", !.selection = k,
                             !.source = source ]
      /\ UNCHANGED << rcv, connection, toR, toS, saving, consents, fault >>
  BY DEF Scanned
<1>2. snd.selection = 0 /\ snd.source = 0 /\ job[k] = "none"
  BY <1>1 DEF Split, SavingInv, SourceInv, Picking
<1>3. /\ k \in 0 .. MaxSelections /\ k # 0 /\ k <= snd.picked
      /\ source \in { 0, k } /\ source \in 0 .. MaxSelections
      /\ kind = "restore" => source = k
  BY <1>1, <1>2, SenderPage DEF Split, SavingInv, SourceInv, Sender, Selections, Picking
<1> HIDE DEF source
<1>4. /\ snd' \in Sender /\ snd'.owner = Nobody /\ snd'.phase = "selected"
      /\ snd'.selection = k /\ snd'.source = source /\ snd'.saved = snd.saved
      /\ snd'.attempt = snd.attempt /\ snd'.picked = snd.picked /\ snd'.loading = snd.loading
      /\ snd'.auth = snd.auth /\ snd'.up = snd.up /\ snd'.started = snd.started
  BY <1>1, <1>3, SenderPage DEF Split, Sender
<1>5. snd.auth.with = 0 /\ snd.auth = NoAuth
  BY <1>1 DEF Split, ConnectionInv, SenderInv, SenderLive, Current, Picking
<1>6. RoomInv'
  BY <1>1, <1>4, RoomsAlone DEF Split, ConnectionInv
<1>7. SenderInv'
  BY <1>1, <1>4, <1>5 DEF Split, ConnectionInv, SenderInv, Nobody, NoAuth, Authorized, ForSender
<1>8. ReceiverInv'
  BY <1>1, ReceiverAlone DEF Split, ConnectionInv
<1>9. LinkInv' /\ StartsWhenReady'
  BY <1>4, <1>5 DEF LinkInv, Linked, StartsWhenReady, Ready, Authorized
<1>10. TypeOK'
  BY <1>1, <1>4 DEF Split, TypeOK, connection, saving
<1>11. SourceInv'
  <2>1. kind = "pick" => k \notin db \cup { snd.saved, discard }
    BY <1>1 DEF Split, SavingInv, SourceInv
  <2>2. UNCHANGED << job, db, discard >>
    BY <1>1 DEF saving
  <2>3. \A h \in Selections : h > snd.picked => h # k
    BY <1>3, SenderPage DEF Split, Sender, Selections
  <2> QED
    BY <1>2, <1>3, <1>4, <2>1, <2>2, <2>3 DEF Split, SavingInv, SourceInv, Nobody, Picking, Selections
<1>12. RecordsAccounted'
  BY <1>1, <1>4 DEF Split, SavingInv, RecordsAccounted, saving
<1> QED
  BY <1>1, <1>6, <1>7, <1>8, <1>9, <1>10, <1>11, <1>12
     DEF Split, ConnectionInv, SavingInv, NoHonestAccusation

\* The attempt a generation is of is the latest.
LEMMA CurrentIsLatest ==
  ASSUME Split, NEW a \in Attempts, Current(a)
  PROVE  /\ a = snd.attempt /\ SenderLive
         /\ task[a] \notin { "remote", "end" } => snd.auth.with = 0
<1>1. snd.owner[1] = "attempt" /\ snd.owner[2] = a
  BY DEF Current
<1>2. SenderLive
  BY <1>1 DEF Split, ConnectionInv, SenderInv
<1>3. a = snd.attempt
  BY <1>1, <1>2 DEF SenderLive, Current
<1> QED
  BY <1>2, <1>3 DEF Split, ConnectionInv, SenderInv

\* A task of the sender goes on: the rooms stay as they are.
LEMMA TaskMoves ==
  ASSUME TypeOK, ConnectionInv, NEW a \in Attempts, task[a] # "none",
         NEW to \in { "room", "answer", "digest", "remote", "end" },
         task' = [ task EXCEPT ![a] = to ],
         to \in { "digest", "remote" } => room[a].st = "answered",
         task[a] \in { "remote", "end" } => to = "end",
         rcv' = rcv, join' = join, room' = room, toR' = toR, toS' = toS, consents' = consents,
         SameEnd(snd', snd), snd'.selection = snd.selection
  PROVE  ConnectionInv'
<1>1. \A b \in Attempts : task'[b] = IF b = a THEN to ELSE task[b]
  BY DEF TypeOK
<1>2. RoomInv'
  BY <1>1 DEF ConnectionInv, RoomInv, SameEnd
<1>3. /\ snd.auth.with # 0 => snd.attempt \in Attempts
      /\ rcv.auth.with # 0 => rcv.auth.with \in Attempts
  BY Numbers DEF ConnectionInv
<1>4. SenderInv'
  BY <1>1, <1>3 DEF ConnectionInv, SenderInv, SameEnd, SenderLive, Current, Authorized, ForSender,
                    Confirms
<1>5. ReceiverInv'
  <2>1. rcv.up \/ toR # << >> => rcv.auth.with # 0
    BY DEF ConnectionInv, ReceiverInv
  <2>2. rcv.up \/ toR # << >> => task'[rcv.auth.with] \in { "remote", "end" }
    BY <1>1, <1>3, <2>1 DEF ConnectionInv, ReceiverInv
  <2> QED
    BY <2>2 DEF ConnectionInv, ReceiverInv, Authorized, ForReceiver, Confirms, Announces
<1>6. LinkInv'
  BY LinkAlone DEF ConnectionInv
<1> QED
  BY <1>2, <1>4, <1>5, <1>6 DEF ConnectionInv

TaskTypes == { "none", "check", "room", "answer", "digest", "remote", "end" }

LEMMA TaskSet ==
  ASSUME TypeOK, NEW a \in Attempts, NEW to \in TaskTypes, task' = [ task EXCEPT ![a] = to ]
  PROVE  task' \in [ Attempts -> TaskTypes ]
BY DEF TypeOK, TaskTypes

LEMMA RoomMadeKeeps ==
  ASSUME Split, NEW a \in Attempts, RoomMade(a)
  PROVE  Split'
<1> DEFINE page == [ snd EXCEPT !.phase = "pairing" ]
<1>1. /\ task[a] = "room" /\ Current(a) /\ task' = [ task EXCEPT ![a] = "answer" ]
      /\ UNCHANGED << rcv, join, room, toS, content, db, discard, known, consents, fault >>
      /\ EnsureSourcePrepared(page)
  BY DEF RoomMade
<1>2. snd.auth.with = 0
  BY <1>1, CurrentIsLatest
<1>3. /\ page \in Sender /\ page.phase = "pairing" /\ SameSource(page, snd) /\ SameEnd(page, snd)
  BY SenderPage DEF Split, Sender, SameSource, SameEnd
<1>4. ~ Ready(page)
  BY <1>2, <1>3 DEF SameEnd, Ready, Authorized
<1> HIDE DEF page
<1>5. snd' = page /\ toR' = toR
  BY <1>1, <1>4 DEF EnsureSourcePrepared, MaybeAuthorize
<1>6. \/ job' = job
      \/ /\ snd.selection # 0 /\ snd.source = 0 /\ job[snd.selection] = "none"
         /\ job' = [ job EXCEPT ![snd.selection] = "hash" ]
  BY <1>1, <1>3 DEF EnsureSourcePrepared, SameSource
<1>7. ConnectionInv'
  BY <1>1, <1>3, <1>5, TaskMoves DEF Split, SameSource
<1>8. StartsWhenReady'
  BY <1>4, <1>5 DEF StartsWhenReady
<1>9. /\ job' \in [ Selections -> JobTypes ]
      /\ \A h \in Selections :
           \/ job'[h] = job[h]
           \/ job'[h] = "hash" /\ job[h] = "none" /\ h = snd.selection /\ snd.source = 0
  <2>1. CASE job' = job
    BY <2>1 DEF Split, TypeOK, JobTypes
  <2>2. CASE /\ snd.selection # 0 /\ snd.source = 0 /\ job[snd.selection] = "none"
             /\ job' = [ job EXCEPT ![snd.selection] = "hash" ]
    <3>1. snd.selection \in Selections
      BY <2>2, SenderPage DEF Split, Sender, Selections
    <3> QED
      BY <2>2, <3>1, JobSet DEF Split, JobTypes
  <2> QED
    BY <1>6, <2>1, <2>2
<1>10. TypeOK'
  <2>1. task' \in [ Attempts -> TaskTypes ]
    BY <1>1, TaskSet DEF Split, TaskTypes
  <2> QED
    BY <1>1, <1>3, <1>5, <1>9, <2>1 DEF Split, TypeOK, TaskTypes, JobTypes
<1>11. SourceInv'
  <2>1. snd' = page /\ UNCHANGED << db, discard >>
    BY <1>1, <1>5
  <2> QED
    <3>1. SourceInv
      BY DEF Split, SavingInv
    <3>2. /\ snd'.source = snd.source /\ snd'.selection = snd.selection
          /\ snd'.saved = snd.saved /\ snd'.picked = snd.picked /\ snd'.owner = snd.owner
          /\ snd'.loading = snd.loading /\ snd'.phase # "idle"
      BY <1>3, <2>1 DEF SameSource, SameEnd
    <3>3. snd'.loading => \A k \in Selections : job'[k] \notin { "stored", "undo" }
      BY <1>9, <3>1, <3>2 DEF SourceInv
    <3>4. \A k \in Selections :
            snd'.owner \in { << "pick", k >>, << "restore", k >> } => snd.selection = 0
      BY <3>1, <3>2 DEF SourceInv
    <3>5. \A k \in Selections : k # 0
      BY DEF Selections
    <3> QED
      BY <1>9, <2>1, <3>1, <3>2, <3>3, <3>4, <3>5 DEF SourceInv
<1>12. RecordsAccounted'
  <2>1. snd' = page /\ UNCHANGED << db, discard, known >>
    BY <1>1, <1>5
  <2> QED
    BY <1>3, <1>9, <2>1 DEF Split, SavingInv, RecordsAccounted, SameSource, TypeOK
<1> QED
  BY <1>1, <1>7, <1>8, <1>10, <1>11, <1>12 DEF Split, SavingInv, NoHonestAccusation
-----------------------------------------------------------------------------
(* The connection.                                                         *)

LEMMA SourcesAlone ==
  ASSUME Split, UNCHANGED << snd, saving, fault >>
  PROVE  SavingInv' /\ StartsWhenReady' /\ NoHonestAccusation'
<1>1. SavingInv'
  BY SavingAlone DEF Split, SavingInv, SourceInv, SameSource
<1> QED
  BY <1>1 DEF Split, StartsWhenReady, Ready, Authorized, NoHonestAccusation

LEMMA OpenKeeps ==
  ASSUME Split, SOpen \/ ROpen
  PROVE  Split'
<1>1. CASE SOpen
  <2>1. /\ Linked /\ ~ snd.up /\ snd' = [ snd EXCEPT !.up = TRUE ]
        /\ UNCHANGED << rcv, connection, toR, toS, saving, consents, fault >>
    BY <1>1 DEF SOpen
  <2>2. /\ snd' \in Sender /\ snd'.up /\ SameSource(snd', snd)
        /\ snd'.owner = snd.owner /\ snd'.auth = snd.auth /\ snd'.phase = snd.phase
        /\ snd'.started = snd.started
    BY <2>1, SenderPage DEF Split, Sender, SameSource
  <2>3. snd.auth.with # 0 /\ ~ snd.auth.local
    BY <2>1 DEF Linked, Split, ConnectionInv, SenderInv
  <2>4. RoomInv'
    BY <2>1, <2>2, RoomsAlone DEF Split, ConnectionInv, SameSource
  <2>5. SenderInv'
    BY <2>1, <2>2, <2>3 DEF Split, ConnectionInv, SenderInv, SenderLive, Current, Authorized,
                           ForSender, Confirms, SameSource, connection
  <2>6. ReceiverInv'
    BY <2>1, ReceiverAlone DEF Split, ConnectionInv
  <2>7. LinkInv'
    BY <2>1, <2>2 DEF Split, ConnectionInv, LinkInv, Linked, SenderLive, Current, SameSource,
                      Confirms, Announces
  <2>8. SavingInv'
    BY <2>1, <2>2, SavingAlone DEF Split, SavingInv, SourceInv
  <2>9. TypeOK' /\ StartsWhenReady'
    BY <2>1, <2>2, <2>3, PageTypes DEF Split, TypeOK, StartsWhenReady, Ready, Authorized
  <2> QED
    BY <2>1, <2>4, <2>5, <2>6, <2>7, <2>8, <2>9 DEF Split, ConnectionInv, NoHonestAccusation
<1>2. CASE ROpen
  <2>1. /\ Linked /\ ~ rcv.up /\ rcv' = [ rcv EXCEPT !.up = TRUE ]
        /\ task[snd.attempt] \in { "remote", "end" }
        /\ UNCHANGED << snd, connection, toR, toS, saving, consents, fault >>
    BY <1>2 DEF ROpen
  <2>2. /\ rcv' \in Receiver /\ rcv'.up /\ rcv'.auth = rcv.auth /\ rcv'.phase = rcv.phase
        /\ rcv'.attempt = rcv.attempt /\ rcv'.live = rcv.live /\ rcv'.got = rcv.got
    BY <2>1 DEF Split, TypeOK, Receiver
  <2>3. rcv.auth.with # 0 /\ rcv.auth.with = snd.attempt
    BY <2>1 DEF Linked
  <2>4. RoomInv'
    BY <2>1, <2>2, RoomsAlone DEF Split, ConnectionInv
  <2>5. SenderInv'
    BY <2>1, SenderAlone DEF Split, ConnectionInv, SameEnd
  <2>6. ReceiverInv'
    <3>1. ReceiverInv /\ UNCHANGED << join, room, task, toR, consents >>
      BY <2>1 DEF Split, ConnectionInv, connection
    <3>2. ForReceiver(toR, rcv)'
      BY <2>2, <3>1 DEF ReceiverInv, ForReceiver, Confirms, Announces
    <3> QED
      BY <2>1, <2>2, <2>3, <3>1, <3>2 DEF ReceiverInv, Authorized
  <2>7. LinkInv'
    BY <2>1, <2>2 DEF Split, ConnectionInv, LinkInv, Linked, SenderLive, Current, Confirms, Announces
  <2>8. TypeOK'
    BY <2>1, <2>2, PageTypes DEF Split, TypeOK
  <2> QED
    BY <2>1, <2>4, <2>5, <2>6, <2>7, <2>8, SourcesAlone DEF Split, ConnectionInv
<1> QED
  BY <1>1, <1>2

LEMMA ReceiverClosesKeeps ==
  ASSUME Split, ReceiverLost \/ ReceiverReset
  PROVE  Split'
<1>1. PICK phase \in { "pairing", "failed" } : ReceiverCloses(phase)
  BY DEF ReceiverLost, ReceiverReset
<1>2. UNCHANGED << snd, connection, saving, consents, fault >>
  BY DEF ReceiverLost, ReceiverReset, Settled, connection
<1>3. rcv' \in Receiver /\ toR' = << >> /\ Shorter(toS', toS)
  BY <1>1, ReceiverClosing DEF Split
<1>4. ConnectionInv'
  BY <1>1, <1>2, ReceiverClosed DEF Split
<1>5. TypeOK'
  BY <1>2, <1>3, PageTypes, EmptyIsQueue, ShorterIsQueue DEF Split, TypeOK
<1> QED
  BY <1>2, <1>4, <1>5, SourcesAlone DEF Split

LEMMA RConfirmKeeps ==
  ASSUME Split, RConfirm
  PROVE  Split'
<1> DEFINE m == [ type |-> "confirmed", by |-> rcv.auth.with, to |-> rcv.attempt ]
           phase == IF rcv.auth.remote THEN "waiting" ELSE rcv.phase
<1>1. /\ rcv.phase = "verify" /\ rcv.up /\ rcv.auth.with # 0 /\ ~ rcv.auth.local
      /\ rcv' = [ rcv EXCEPT !.auth.local = TRUE, !.phase = phase ]
      /\ toS' = Sent(toS, m)
      /\ consents' = consents \cup { << "receiver", rcv.auth.with, rcv.attempt >> }
      /\ UNCHANGED << snd, connection, toR, saving, fault >>
  BY DEF RConfirm
<1>2. /\ rcv \in Receiver /\ rcv.auth \in Auth(MaxAttempts) /\ toS \in Seq(Message)
      /\ phase \in { "verify", "waiting" }
  BY <1>1 DEF Split, TypeOK, Receiver
<1>3. /\ rcv' \in Receiver /\ rcv'.phase = phase /\ rcv'.up = rcv.up
      /\ rcv'.attempt = rcv.attempt /\ rcv'.live = rcv.live /\ rcv'.got = rcv.got
      /\ rcv'.auth = [ rcv.auth EXCEPT !.local = TRUE ]
  BY <1>1, <1>2 DEF Receiver, Auth
<1>4. /\ rcv'.auth.with = rcv.auth.with /\ rcv'.auth.local
      /\ rcv'.auth.remote = rcv.auth.remote /\ rcv.auth.remote \in BOOLEAN
  BY <1>2, <1>3 DEF Auth
<1>5. rcv.auth.with \in Attempts /\ rcv.attempt \in Joins
  BY <1>1, Numbers DEF Split, ConnectionInv
<1>6. /\ m \in Message /\ m.type = "confirmed" /\ m.by = rcv.auth.with /\ m.to = rcv.attempt
  BY <1>5 DEF Message
<1>7. \/ ~ Linked /\ toS' = toS
      \/ Linked /\ toS' = Append(toS, m)
  BY <1>1 DEF Sent
<1> HIDE DEF m, phase
<1>8. toS' \in Seq(Message)
  BY <1>2, <1>6, <1>7, AppendProperties
<1>9. RoomInv'
  BY <1>1, <1>3, RoomsAlone DEF Split, ConnectionInv
<1>10. SenderInv'
  <2>1. CASE ~ Linked /\ toS' = toS
    BY <1>1, <2>1 DEF Split, ConnectionInv, SenderInv, SenderLive, Current, Authorized, ForSender,
                      Confirms, connection
  <2>2. CASE Linked /\ toS' = Append(toS, m)
    <3>1. /\ rcv.auth.with = snd.attempt /\ rcv.attempt = snd.auth.with
          /\ snd.auth.with # 0
      BY <2>2 DEF Linked
    <3>2. ForSender(toS', snd')
      <4>1. PICK n \in Nat : n = Len(toS)
        BY <1>2, LenProperties
      <4>2. /\ Len(toS') = n + 1 /\ toS'[n + 1] = m
            /\ \A i \in 1 .. n : toS'[i] = toS[i]
        BY <1>2, <1>6, <2>2, <4>1, AppendAdds
      <4> QED
        BY <1>1, <1>6, <3>1, <4>1, <4>2 DEF Split, ConnectionInv, SenderInv, ForSender, Confirms
    <3> QED
      BY <1>1, <3>1, <3>2 DEF Split, ConnectionInv, SenderInv, SenderLive, Current, Authorized,
                              connection
  <2> QED
    BY <1>7, <2>1, <2>2
<1>11. ReceiverInv'
  <2>1. /\ ForReceiver(toR, rcv)' /\ rcv'.phase # "pairing"
    BY <1>1, <1>2, <1>3, <1>4 DEF Split, ConnectionInv, ReceiverInv, ForReceiver, Confirms, Announces
  <2>2. /\ rcv.live /\ rcv.attempt # 0
        /\ join[rcv.attempt].room = rcv.auth.with
        /\ join[rcv.attempt].at \in { "publish", "receipt", "end" }
        /\ task[rcv.auth.with] \in { "remote", "end" } /\ rcv.got = 0
        /\ rcv.auth.remote \/ toR # << >> => << "sender", rcv.auth.with, rcv.attempt >> \in consents
    BY <1>1 DEF Split, ConnectionInv, ReceiverInv, Authorized
  <2>3. /\ rcv'.auth.with # 0 /\ rcv'.live /\ rcv'.up /\ rcv'.attempt # 0 /\ rcv'.got = 0
        /\ join'[rcv'.attempt].room = rcv'.auth.with
        /\ join'[rcv'.attempt].at \in { "publish", "receipt", "end" }
        /\ task'[rcv'.auth.with] \in { "remote", "end" }
    BY <1>1, <1>3, <1>4, <2>2 DEF connection
  <2>4. /\ << "receiver", rcv'.auth.with, rcv'.attempt >> \in consents'
        /\ rcv'.auth.remote \/ toR' # << >> =>
             << "sender", rcv'.auth.with, rcv'.attempt >> \in consents'
    <3>1. rcv'.auth.with = rcv.auth.with /\ rcv'.attempt = rcv.attempt
      BY <1>3, <1>4
    <3>2. rcv'.auth.remote => rcv.auth.remote
      BY <1>4, Zenon
    <3>3. << "receiver", rcv.auth.with, rcv.attempt >> \in consents' /\ consents \subseteq consents'
      BY <1>1
    <3>4. toR' = toR
      BY <1>1
    <3> QED
      BY <2>2, <3>1, <3>2, <3>3, <3>4
  <2> QED
    BY <2>1, <2>3, <2>4 DEF ReceiverInv
<1>12. LinkInv'
  BY <1>1, <1>3, <1>4 DEF Split, ConnectionInv, LinkInv, Linked, SenderLive, Current, Confirms,
                          Announces
<1>13. TypeOK'
  <2>1. consents' \subseteq { "sender", "receiver" } \X Attempts \X Joins
    BY <1>1, <1>5 DEF Split, TypeOK
  <2> QED
    BY <1>1, <1>3, <1>8, <2>1 DEF Split, TypeOK, connection, saving
<1> QED
  BY <1>1, <1>9, <1>10, <1>11, <1>12, <1>13, SourcesAlone DEF Split, ConnectionInv

LEMMA ReceiverGetsConfirmedKeeps ==
  ASSUME Split, ReceiverGetsConfirmed
  PROVE  Split'
<1> DEFINE phase == IF rcv.auth.local THEN "waiting" ELSE rcv.phase
<1>1. /\ rcv.up /\ toR # << >> /\ Head(toR).type = "confirmed"
      /\ UNCHANGED << snd, connection, saving, consents >>
      /\ rcv \in Receiver /\ rcv.auth \in Auth(MaxAttempts) /\ toR \in Seq(Message)
  BY DEF ReceiverGetsConfirmed, Split, TypeOK, Receiver
<1>2. /\ Len(toR) \in Nat \ {0} /\ Head(toR) = toR[1] /\ Tail(toR) \in Seq(Message)
      /\ Len(Tail(toR)) = Len(toR) - 1
      /\ \A i \in 1 .. Len(toR) - 1 : Tail(toR)[i] = toR[i + 1]
  BY <1>1, TailShifts
<1>3. Head(toR).by = rcv.auth.with /\ Head(toR).to = rcv.attempt
  BY <1>1, <1>2 DEF Split, ConnectionInv, ReceiverInv, ForReceiver, Confirms
<1>4. rcv.auth.with # 0 /\ rcv.auth.with \in Attempts /\ rcv.attempt \in Joins
  BY <1>1, Numbers DEF Split, ConnectionInv, ReceiverInv
<1>5. Mismatch(Head(toR), rcv.auth.with, rcv.attempt) = {}
  BY <1>3, <1>4 DEF Mismatch, Attempts, Joins
<1>6. /\ rcv' = [ rcv EXCEPT !.auth.remote = TRUE, !.phase = phase ]
      /\ toR' = Tail(toR) /\ toS' = toS /\ fault' = fault
  BY <1>5 DEF ReceiverGetsConfirmed
<1>7. rcv.live /\ rcv.phase # "pairing"
  BY <1>4 DEF Split, ConnectionInv, ReceiverInv
<1>8. /\ rcv' \in Receiver /\ rcv'.phase # "pairing" /\ rcv'.up = rcv.up
      /\ rcv'.attempt = rcv.attempt /\ rcv'.live = rcv.live /\ rcv'.got = rcv.got
      /\ rcv'.auth = [ rcv.auth EXCEPT !.remote = TRUE ]
  BY <1>1, <1>6, <1>7 DEF Receiver, Auth
<1>9. /\ rcv'.auth.with = rcv.auth.with /\ rcv'.auth.local = rcv.auth.local
      /\ rcv'.auth.remote
  BY <1>1, <1>8 DEF Auth
<1>10. RoomInv'
  BY <1>1, <1>8, RoomsAlone DEF Split, ConnectionInv
<1>11. SenderInv'
  BY <1>1, <1>6, SenderAlone DEF Split, ConnectionInv, SameEnd
<1>12. \A i \in 1 .. Len(toR') :
         /\ i + 1 \in 1 .. Len(toR) /\ toR'[i] = toR[i + 1]
         /\ Confirms(toR, i)' => Confirms(toR, i + 1)
         /\ Announces(toR, i)' => Announces(toR, i + 1)
  BY <1>2, <1>6 DEF Confirms, Announces
<1>13. ForReceiver(toR', rcv')
  <2> SUFFICES ASSUME NEW i \in 1 .. Len(toR')
               PROVE  /\ Confirms(toR, i)' => toR'[i].by = rcv'.auth.with /\ toR'[i].to = rcv'.attempt
                      /\ Announces(toR, i)' =>
                           /\ rcv'.auth.local /\ rcv'.got = 0
                           /\ \A k \in 1 .. Len(toR') : Announces(toR, k)' => k = i
    BY <1>9 DEF ForReceiver, Confirms, Announces
  <2>1. ForReceiver(toR, rcv)
    BY DEF Split, ConnectionInv, ReceiverInv
  <2>2. Len(toR') \in Nat
    BY <1>2, <1>6
  <2>3. \A k \in 1 .. Len(toR') : Announces(toR, k)' /\ Announces(toR, i)' => k + 1 = i + 1
    BY <1>12, <2>1, <2>2 DEF ForReceiver
  <2> QED
    BY <1>8, <1>9, <1>12, <2>1, <2>2, <2>3 DEF ForReceiver
<1>14. ReceiverInv'
  <2>1. /\ rcv.attempt # 0
        /\ join[rcv.attempt].room = rcv.auth.with
        /\ join[rcv.attempt].at \in { "publish", "receipt", "end" }
        /\ task[rcv.auth.with] \in { "remote", "end" }
        /\ << "sender", rcv.auth.with, rcv.attempt >> \in consents
        /\ rcv.auth.local => << "receiver", rcv.auth.with, rcv.attempt >> \in consents
        /\ rcv.got # 0 => rcv.auth.local
    BY <1>1, <1>4 DEF Split, ConnectionInv, ReceiverInv, Authorized
  <2>2. /\ rcv'.auth.with # 0 /\ rcv'.live /\ rcv'.up /\ rcv'.attempt # 0
        /\ join'[rcv'.attempt].room = rcv'.auth.with
        /\ join'[rcv'.attempt].at \in { "publish", "receipt", "end" }
        /\ task'[rcv'.auth.with] \in { "remote", "end" }
        /\ << "sender", rcv'.auth.with, rcv'.attempt >> \in consents'
    BY <1>1, <1>4, <1>7, <1>8, <1>9, <2>1 DEF connection
  <2>3. /\ rcv'.auth.local => << "receiver", rcv'.auth.with, rcv'.attempt >> \in consents'
        /\ rcv'.got # 0 => rcv'.auth.local
    BY <1>1, <1>8, <1>9, <2>1
  <2> QED
    BY <1>8, <1>9, <1>13, <2>2, <2>3 DEF ReceiverInv, Authorized
<1>15. LinkInv'
  <2>1. Linked' <=> Linked
    BY <1>1, <1>8, <1>9 DEF Linked, SenderLive, Current
  <2> QED
    BY <1>1, <1>6, <1>8, <1>9, <1>12, <2>1 DEF Split, ConnectionInv, LinkInv
<1>16. TypeOK'
  BY <1>1, <1>2, <1>6, <1>8, PageTypes DEF Split, TypeOK
<1> QED
  BY <1>1, <1>6, <1>10, <1>11, <1>14, <1>15, <1>16, SourcesAlone DEF Split, ConnectionInv

LEMMA ReceiverGetsManifestKeeps ==
  ASSUME Split, ReceiverGetsManifest
  PROVE  Split'
<1>1. /\ rcv.up /\ toR # << >> /\ Head(toR).type = "manifest"
      /\ UNCHANGED << snd, connection, saving, consents >>
      /\ rcv \in Receiver /\ toR \in Seq(Message)
  BY DEF ReceiverGetsManifest, Split, TypeOK
<1>2. /\ Len(toR) \in Nat \ {0} /\ Head(toR) = toR[1] /\ Tail(toR) \in Seq(Message)
      /\ Len(Tail(toR)) = Len(toR) - 1
      /\ \A i \in 1 .. Len(toR) - 1 : Tail(toR)[i] = toR[i + 1]
  BY <1>1, TailShifts
<1>3. ForReceiver(toR, rcv) /\ Announces(toR, 1) /\ 1 \in 1 .. Len(toR)
  BY <1>1, <1>2 DEF Split, ConnectionInv, ReceiverInv, Announces
<1>4. /\ rcv.auth.local /\ rcv.auth.remote /\ rcv.got = 0
      /\ \A k \in 1 .. Len(toR) : Announces(toR, k) => k = 1
  BY <1>3 DEF ForReceiver
<1>5. rcv.auth.with # 0 /\ Authorized(rcv)
  BY <1>1, <1>4 DEF Split, ConnectionInv, ReceiverInv, Authorized
<1>6. rcv' = [ rcv EXCEPT !.got = Head(toR).source ]
      /\ toR' = Tail(toR) /\ toS' = toS /\ fault' = fault
  BY <1>4, <1>5 DEF ReceiverGetsManifest
<1>7. Head(toR).source \in Selections
  BY <1>1, <1>2, <1>3, MessageKinds
<1>8. /\ rcv' \in Receiver /\ rcv'.phase = rcv.phase /\ rcv'.up = rcv.up
      /\ rcv'.attempt = rcv.attempt /\ rcv'.live = rcv.live /\ rcv'.auth = rcv.auth
      /\ rcv'.got = Head(toR).source /\ rcv'.got # 0
  <2>1. Head(toR).source \in 0 .. MaxSelections /\ Head(toR).source # 0
    BY <1>7 DEF Selections
  <2> QED
    BY <1>1, <1>6, <2>1 DEF Receiver
<1>9. RoomInv'
  BY <1>1, <1>8, RoomsAlone DEF Split, ConnectionInv
<1>10. SenderInv'
  BY <1>1, <1>6, SenderAlone DEF Split, ConnectionInv, SameEnd
<1>11. \A i \in 1 .. Len(toR') :
         /\ i + 1 \in 1 .. Len(toR) /\ i + 1 # 1 /\ toR'[i] = toR[i + 1]
         /\ Confirms(toR, i)' => Confirms(toR, i + 1)
         /\ ~ Announces(toR, i)'
  BY <1>2, <1>4, <1>6 DEF Confirms, Announces
<1>12. ForReceiver(toR', rcv')
  BY <1>3, <1>8, <1>11 DEF ForReceiver, Confirms, Announces
<1>13. ReceiverInv'
  BY <1>1, <1>5, <1>6, <1>8, <1>12 DEF Split, ConnectionInv, ReceiverInv, Authorized, connection
<1>14. LinkInv'
  <2>1. Linked' <=> Linked
    BY <1>1, <1>8 DEF Linked, SenderLive, Current
  <2>2. Linked => snd.started /\ rcv'.got = snd.selection
    BY <1>2, <1>3, <1>8 DEF Split, ConnectionInv, LinkInv
  <2> QED
    BY <1>1, <1>4, <1>6, <1>8, <1>11, <2>1, <2>2 DEF Split, ConnectionInv, LinkInv
<1>15. TypeOK'
  BY <1>1, <1>2, <1>6, <1>8, PageTypes DEF Split, TypeOK
<1> QED
  BY <1>1, <1>6, <1>9, <1>10, <1>13, <1>14, <1>15, SourcesAlone DEF Split, ConnectionInv
-----------------------------------------------------------------------------
(* An attempt of the sender.                                               *)

LEMMA TaskStepKeeps ==
  ASSUME Split, NEW a \in Attempts, OfferMade(a) \/ TakeAnswer(a) \/ AttemptStale(a)
  PROVE  Split'
<1>1. UNCHANGED << snd, rcv, join, room, toR, toS, saving, consents, fault >>
  BY DEF OfferMade, TakeAnswer, AttemptStale, Unmoved
<1>2. PICK to \in { "room", "digest", "end" } :
        /\ task' = [ task EXCEPT ![a] = to ]
        /\ task[a] # "none"
        /\ to = "digest" => room[a].st = "answered"
        /\ task[a] \in { "remote", "end" } => to = "end"
  BY DEF OfferMade, TakeAnswer, AttemptStale
<1>3. ConnectionInv'
  BY <1>1, <1>2, TaskMoves DEF Split, SameEnd
<1>4. TypeOK'
  <2>1. task' \in [ Attempts -> TaskTypes ]
    BY <1>2, TaskSet DEF Split, TaskTypes
  <2> QED
    BY <1>1, <2>1 DEF Split, TypeOK, TaskTypes, saving
<1> QED
  BY <1>1, <1>3, <1>4, SourcesAlone DEF Split

\* The rooms as they were, but for the state of one.
RoomType == [ st : { "none", "open", "claimed", "answered", "gone" }, by : 0 .. MaxJoins ]

RoomIs(a, st) ==
  /\ room' \in [ Attempts -> RoomType ]
  /\ \A b \in Attempts : /\ room'[b].st = IF b = a THEN st ELSE room[b].st
                         /\ room'[b].by = room[b].by

LEMMA RoomSet ==
  ASSUME TypeOK, NEW a \in Attempts, NEW st \in { "open", "claimed", "answered", "gone" },
         room' = [ room EXCEPT ![a].st = st ]
  PROVE  RoomIs(a, st)
<1>1. room \in [ Attempts -> RoomType ]
  BY DEF TypeOK, RoomType
<1>2. PICK r : r = [ room[a] EXCEPT !.st = st ]
  OBVIOUS
<1>3. r \in RoomType /\ r.st = st /\ r.by = room[a].by
  BY <1>1, <1>2 DEF RoomType
<1>4. room' = [ room EXCEPT ![a] = r ]
  BY <1>2
<1> QED
  BY <1>1, <1>3, <1>4 DEF RoomIs


LEMMA RoomStepKeeps ==
  ASSUME Split, NEW a \in Attempts, RoomOpens(a) \/ RoomGoes(a)
  PROVE  Split'
<1>1. UNCHANGED << snd, rcv, task, join, toR, toS, saving, consents, fault >>
  BY DEF RoomOpens, RoomGoes, Unmoved
<1>2. PICK st \in { "open", "gone" } :
        /\ room' = [ room EXCEPT ![a].st = st ]
        /\ st = "open" => room[a].st = "none" /\ task[a] = "room"
        /\ st = "gone" => room[a].st # "none" /\ task[a] \notin { "digest", "remote" }
  BY DEF RoomOpens, RoomGoes
<1>3. /\ room' \in [ Attempts -> RoomType ]
      /\ \A b \in Attempts : /\ room'[b].st = IF b = a THEN st ELSE room[b].st
                             /\ room'[b].by = room[b].by
  <2>1. TypeOK
    BY DEF Split
  <2>2. room' = [ room EXCEPT ![a].st = st ]
    BY <1>2
  <2>3. st \in { "open", "claimed", "answered", "gone" }
    OBVIOUS
  <2>4. RoomIs(a, st)
    BY <2>1, <2>2, <2>3, RoomSet
  <2> QED
    BY <2>4 DEF RoomIs
<1>4. RoomInv'
  <2>1. \A j \in Joins : join[j].room # 0 => join[j].room \in Attempts
    BY DEF Split, TypeOK, Attempts
  <2> QED
    BY <1>1, <1>2, <1>3, <2>1 DEF Split, ConnectionInv, RoomInv
<1>5. SenderInv'
  BY <1>1 DEF Split, ConnectionInv, SenderInv, SenderLive, Current, Authorized, ForSender, Confirms
<1>6. ReceiverInv'
  BY <1>1 DEF Split, ConnectionInv, ReceiverInv, Authorized, ForReceiver, Confirms, Announces
<1>7. LinkInv'
  BY <1>1, LinkAlone DEF Split, ConnectionInv, SameEnd
<1>8. TypeOK'
  BY <1>1, <1>3 DEF Split, TypeOK, RoomType, saving
<1> QED
  BY <1>1, <1>4, <1>5, <1>6, <1>7, <1>8, SourcesAlone DEF Split, ConnectionInv

\* The sender learns its transcript: nothing was said on this connection yet.
LEMMA DigestedKeeps ==
  ASSUME Split, NEW a \in Attempts, Digested(a)
  PROVE  Split'
<1> DEFINE auth == [ NoAuth EXCEPT !.with = room[a].by ]
<1>1. /\ task[a] = "digest" /\ Current(a) /\ task' = [ task EXCEPT ![a] = "remote" ]
      /\ snd' = [ snd EXCEPT !.auth = auth ]
      /\ UNCHANGED << rcv, join, room, toR, toS, saving, consents, fault >>
  BY DEF Digested, Unmoved
<1>2. a = snd.attempt /\ SenderLive /\ snd.auth.with = 0
  BY <1>1, CurrentIsLatest
<1>3. /\ room[a].st = "answered" /\ room[a].by \in Joins
      /\ join[room[a].by].room = a /\ join[room[a].by].at \in { "receipt", "end" }
  BY <1>1 DEF Split, ConnectionInv, RoomInv, TypeOK, Joins
<1>4. /\ auth \in Auth(MaxJoins) /\ auth.with = room[a].by /\ auth.with # 0
      /\ ~ auth.local /\ ~ auth.remote
  <2>1. room[a].by \in 0 .. MaxJoins /\ room[a].by # 0
    BY <1>3 DEF Joins
  <2> QED
    BY <2>1 DEF Auth, NoAuth
<1> HIDE DEF auth
<1>5. /\ snd' \in Sender /\ SameSource(snd', snd) /\ snd'.owner = snd.owner
      /\ snd'.auth = auth /\ snd'.up = snd.up /\ snd'.started = snd.started
      /\ snd'.phase = snd.phase
  BY <1>1, <1>4, SenderPage DEF Split, Sender, SameSource
<1>6. ~ snd.up /\ ~ snd.started /\ toS = << >>
  BY <1>2 DEF Split, ConnectionInv, SenderInv
<1>7. \A b \in Attempts : task'[b] = IF b = a THEN "remote" ELSE task[b]
  BY <1>1 DEF Split, TypeOK
<1>8. RoomInv'
  BY <1>1, <1>3, <1>5, <1>7 DEF Split, ConnectionInv, RoomInv, SameSource
<1>9. SenderInv'
  BY <1>1, <1>2, <1>3, <1>4, <1>5, <1>6, <1>7 DEF SenderInv, SenderLive, Current, SameSource, ForSender
<1>10. /\ rcv.up \/ toR # << >> => rcv.auth.with # 0 /\ task[rcv.auth.with] \in { "remote", "end" }
       /\ rcv.auth.with # 0 => rcv.auth.with \in Attempts
  BY Numbers DEF Split, ConnectionInv, ReceiverInv
<1>11. ReceiverInv'
  <2>1. rcv.up \/ toR # << >> => task'[rcv.auth.with] \in { "remote", "end" }
    BY <1>7, <1>10
  <2> QED
    BY <1>1, <2>1 DEF Split, ConnectionInv, ReceiverInv, Authorized, ForReceiver, Confirms, Announces
<1>12. LinkInv'
  <2> SUFFICES ASSUME Linked' PROVE LinkInv'
    BY DEF LinkInv
  <2>1. rcv.auth.with = a
    BY <1>1, <1>2, <1>5 DEF Linked, SameSource
  <2>2. ~ rcv.up /\ toR = << >>
    BY <1>1, <1>10, <2>1
  <2>3. rcv.got = 0
    BY <2>2 DEF Split, ConnectionInv, ReceiverInv, Authorized
  <2> QED
    BY <1>1, <1>4, <1>5, <1>6, <2>2, <2>3 DEF LinkInv
<1>13. TypeOK'
  <2>1. task' \in [ Attempts -> TaskTypes ]
    BY <1>1, TaskSet DEF Split, TaskTypes
  <2> QED
    BY <1>1, <1>5, <2>1 DEF Split, TypeOK, TaskTypes, saving
<1>14. SavingInv'
  BY <1>1, <1>5, SavingAlone DEF Split, SavingInv, SourceInv
<1>15. StartsWhenReady'
  BY <1>4, <1>5 DEF StartsWhenReady, Ready, Authorized
<1> QED
  BY <1>1, <1>8, <1>9, <1>11, <1>12, <1>13, <1>14, <1>15 DEF Split, ConnectionInv, NoHonestAccusation

LEMMA RemoteSetKeeps ==
  ASSUME Split, NEW a \in Attempts, RemoteSet(a)
  PROVE  Split'
<1>1. /\ task[a] = "remote" /\ Current(a) /\ task' = [ task EXCEPT ![a] = "end" ]
      /\ snd' = [ snd EXCEPT !.phase = "verify" ]
      /\ room' = [ room EXCEPT ![a].st = "gone" ]
      /\ UNCHANGED << rcv, join, toR, toS, saving, consents, fault >>
  BY DEF RemoteSet, Unmoved
<1>2. /\ snd' \in Sender /\ SameSource(snd', snd) /\ SameEnd(snd', snd) /\ snd'.phase = "verify"
  BY <1>1, SenderPage DEF Split, Sender, SameSource, SameEnd
<1>3. \A b \in Attempts : task'[b] = IF b = a THEN "end" ELSE task[b]
  BY <1>1 DEF Split, TypeOK
<1>4. /\ room' \in [ Attempts -> RoomType ]
      /\ \A b \in Attempts : /\ room'[b].st = IF b = a THEN "gone" ELSE room[b].st
                             /\ room'[b].by = room[b].by
  <2>1. TypeOK
    BY DEF Split
  <2>2. RoomIs(a, "gone")
    BY <1>1, <2>1, RoomSet
  <2> QED
    BY <2>2 DEF RoomIs
<1>5. RoomInv'
  <2>1. \A j \in Joins : join[j].room # 0 => join[j].room \in Attempts
    BY DEF Split, TypeOK, Attempts
  <2>2. a <= snd.attempt
    BY <1>1, CurrentIsLatest, SenderPage DEF Split, Sender
  <2>3. snd.attempt \in Nat
    BY SenderPage DEF Split, Sender
  <2> QED
    BY <1>1, <1>2, <1>3, <1>4, <2>1, <2>2, <2>3 DEF Split, ConnectionInv, RoomInv, SameEnd, Attempts
<1>6. /\ snd.auth.with # 0 => snd.attempt \in Attempts
      /\ rcv.auth.with # 0 => rcv.auth.with \in Attempts
  BY Numbers DEF Split, ConnectionInv
<1>7. SenderInv'
  BY <1>1, <1>2, <1>3, <1>6 DEF Split, ConnectionInv, SenderInv, SameEnd, SenderLive, Current,
                                Authorized, ForSender, Confirms
<1>8. ReceiverInv'
  <2>1. rcv.up \/ toR # << >> => task'[rcv.auth.with] \in { "remote", "end" }
    BY <1>3, <1>6 DEF Split, ConnectionInv, ReceiverInv
  <2> QED
    BY <1>1, <2>1 DEF Split, ConnectionInv, ReceiverInv, Authorized, ForReceiver, Confirms, Announces
<1>9. LinkInv'
  BY <1>1, <1>2, LinkAlone DEF Split, ConnectionInv, SameSource
<1>10. TypeOK'
  <2>1. task' \in [ Attempts -> TaskTypes ]
    BY <1>1, TaskSet DEF Split, TaskTypes
  <2> QED
    BY <1>1, <1>2, <1>4, <2>1 DEF Split, TypeOK, RoomType, TaskTypes, saving
<1>11. SavingInv'
  BY <1>1, <1>2, SavingAlone DEF Split, SameEnd
<1>12. StartsWhenReady'
  BY <1>2 DEF Split, StartsWhenReady, Ready, Authorized, SameEnd, SameSource
<1> QED
  BY <1>1, <1>5, <1>7, <1>8, <1>9, <1>10, <1>11, <1>12 DEF Split, ConnectionInv, NoHonestAccusation
-----------------------------------------------------------------------------
(* An attempt of the receiver.                                             *)

JoinType == [ at : { "none", "check", "join", "answer", "publish", "receipt", "end" },
              room : 0 .. MaxAttempts ]

JoinIs(j, at) ==
  /\ join' \in [ Joins -> JoinType ]
  /\ \A i \in Joins : /\ join'[i].at = IF i = j THEN at ELSE join[i].at
                      /\ join'[i].room = join[i].room

LEMMA JoinSet ==
  ASSUME TypeOK, NEW j \in Joins,
         NEW at \in { "check", "join", "publish", "receipt", "end" },
         join' = [ join EXCEPT ![j].at = at ]
  PROVE  JoinIs(j, at)
<1>1. join \in [ Joins -> JoinType ]
  BY DEF TypeOK, JoinType
<1>2. PICK r : r = [ join[j] EXCEPT !.at = at ]
  OBVIOUS
<1>3. r \in JoinType /\ r.at = at /\ r.room = join[j].room
  BY <1>1, <1>2 DEF JoinType
<1>4. join' = [ join EXCEPT ![j] = r ]
  BY <1>2
<1> QED
  BY <1>1, <1>3, <1>4 DEF JoinIs

\* A join goes on without the room.
Onward(j, to) ==
  \/ join[j].at = "none" /\ to = "check" /\ j <= rcv'.attempt
  \/ join[j].at = "check" /\ to = "join"
  \/ join[j].at # "none" /\ to = "end"
  \/ join[j].at = "answer" /\ to = "publish"

LEMMA JoinRooms ==
  ASSUME TypeOK, ConnectionInv, NEW j \in Joins,
         NEW to \in { "check", "join", "publish", "receipt", "end" },
         join' = [ join EXCEPT ![j].at = to ], Onward(j, to),
         UNCHANGED << snd, task, room >>, rcv' \in Receiver, rcv'.attempt >= rcv.attempt
  PROVE  RoomInv'
<1>1. \A i \in Joins : /\ join'[i].at = IF i = j THEN to ELSE join[i].at
                       /\ join'[i].room = join[i].room
  BY DEF TypeOK
<1>2. rcv.attempt \in Nat /\ rcv'.attempt \in Nat
  BY DEF TypeOK, Receiver
<1>3. \A a \in Attempts : room[a].st = "answered" => room[a].by \in Joins
  BY DEF TypeOK, ConnectionInv, RoomInv, Joins
<1>4. ASSUME NEW i \in Joins
      PROVE  /\ i > rcv'.attempt => join'[i].at = "none"
             /\ join'[i].at \in { "none", "check", "join" } => join'[i].room = 0
             /\ join'[i].at \in { "answer", "publish", "receipt" } => join'[i].room # 0
  BY <1>1, <1>2 DEF ConnectionInv, RoomInv, Joins, Onward
<1>5. ASSUME NEW a \in Attempts, room[a].st = "answered"
      PROVE  join'[room[a].by].room = a /\ join'[room[a].by].at \in { "receipt", "end" }
  BY <1>1, <1>3, <1>5 DEF ConnectionInv, RoomInv, Onward
<1>6. ASSUME NEW i \in Joins, join'[i].room # 0
      PROVE  room[join'[i].room].st \notin { "none", "open" } /\ room[join'[i].room].by = i
  BY <1>1, <1>6 DEF ConnectionInv, RoomInv
<1> QED
  BY <1>4, <1>5, <1>6 DEF ConnectionInv, RoomInv

\* What the sender knows of a join that has ended is not touched by others.
LEMMA JoinSender ==
  ASSUME TypeOK, ConnectionInv, NEW j \in Joins,
         NEW to \in { "check", "join", "publish", "receipt", "end" },
         join' = [ join EXCEPT ![j].at = to ], Onward(j, to),
         UNCHANGED << snd, task, consents >>, Shorter(toS', toS)
  PROVE  SenderInv'
<1>1. \A i \in Joins : /\ join'[i].at = IF i = j THEN to ELSE join[i].at
                       /\ join'[i].room = join[i].room
  BY DEF TypeOK
<1>2. snd.auth.with # 0 => snd.auth.with \in Joins
  BY Numbers DEF ConnectionInv
<1>3. snd.auth.with # 0 =>
        /\ join'[snd.auth.with].room = snd.attempt
        /\ join'[snd.auth.with].at \in { "receipt", "end" }
  BY <1>1, <1>2 DEF ConnectionInv, SenderInv, Onward
<1>4. ForSender(toS', snd')
  BY CutForSender DEF TypeOK, ConnectionInv, SenderInv
<1>5. toS = << >> => toS' = << >>
  BY DEF Shorter
<1> QED
  BY <1>3, <1>4, <1>5 DEF ConnectionInv, SenderInv, SenderLive, Current, Authorized

\* A join goes on, and the page keeps its end.
LEMMA JoinMoves ==
  ASSUME TypeOK, ConnectionInv, NEW j \in Joins,
         NEW to \in { "check", "join", "publish", "receipt", "end" },
         join' = [ join EXCEPT ![j].at = to ], Onward(j, to),
         UNCHANGED << snd, task, room, toR, toS, consents >>,
         rcv'.attempt >= rcv.attempt, rcv'.auth = rcv.auth, rcv'.up = rcv.up,
         rcv'.got = rcv.got,
         rcv'.live => rcv'.attempt # 0, rcv'.phase = "pairing" => ~ rcv'.live,
         rcv.auth.with # 0 => rcv'.live /\ rcv'.attempt = rcv.attempt,
         rcv' \in Receiver
  PROVE  ConnectionInv'
<1>1. \A i \in Joins : /\ join'[i].at = IF i = j THEN to ELSE join[i].at
                       /\ join'[i].room = join[i].room
  BY DEF TypeOK
<1>4. RoomInv'
  BY JoinRooms
<1>5. /\ snd.auth.with # 0 => snd.auth.with \in Joins
      /\ rcv.auth.with # 0 => rcv.attempt \in Joins
  BY Numbers DEF ConnectionInv
<1>6. SenderInv'
  <2>1. Shorter(toS', toS)
    BY LenProperties DEF Shorter, TypeOK
  <2> QED
    BY <2>1, JoinSender
<1>7. ReceiverInv'
  <2>1. rcv.auth.with # 0 =>
          /\ join'[rcv.attempt].room = rcv.auth.with
          /\ join'[rcv.attempt].at \in { "publish", "receipt", "end" }
    BY <1>1, <1>5 DEF ConnectionInv, ReceiverInv, Onward
  <2>2. rcv.auth.with = 0 =>
          /\ ~ rcv.up /\ toR = << >> /\ rcv.got = 0 /\ ~ rcv.auth.local /\ ~ rcv.auth.remote
    BY DEF ConnectionInv, ReceiverInv, NoAuth
  <2>3. ForReceiver(toR', rcv')
    <3>1. CASE rcv.auth.with = 0
      BY <2>2, <3>1 DEF ForReceiver
    <3>2. CASE rcv.auth.with # 0
      BY <3>2 DEF ConnectionInv, ReceiverInv, ForReceiver, Confirms, Announces
    <3> QED
      BY <3>1, <3>2
  <2>4. CASE rcv.auth.with = 0
    <3>1. rcv'.auth = NoAuth /\ rcv'.auth.with = 0 /\ ~ rcv'.auth.local /\ ~ rcv'.auth.remote
      BY <2>2, <2>4 DEF ConnectionInv, ReceiverInv
    <3> QED
      BY <2>2, <2>3, <2>4, <3>1 DEF ReceiverInv
  <2>5. CASE rcv.auth.with # 0
    BY <2>1, <2>3, <2>5 DEF ConnectionInv, ReceiverInv, Authorized
  <2> QED
    BY <2>4, <2>5
<1>8. LinkInv'
  <2>1. CASE rcv.auth.with = 0
    BY <2>1 DEF LinkInv, Linked
  <2>2. CASE rcv.auth.with # 0
    BY <2>2 DEF ConnectionInv, ReceiverInv, LinkInv, Linked, SenderLive, Current, Confirms, Announces
  <2> QED
    BY <2>1, <2>2
<1> QED
  BY <1>4, <1>6, <1>7, <1>8 DEF ConnectionInv

LEMMA JoinStepKeeps ==
  ASSUME Split, NEW j \in Joins, JoinReady(j) \/ Published(j) \/ JoinStale(j)
  PROVE  Split'
<1>1. UNCHANGED << snd, rcv, task, room, toR, toS, saving, consents, fault >>
  BY DEF JoinReady, Published, JoinStale, Settled
<1>2. PICK to \in { "join", "end" } : join' = [ join EXCEPT ![j].at = to ] /\ Onward(j, to)
  BY DEF JoinReady, Published, JoinStale, Onward
<1>3. rcv \in Receiver /\ rcv'.attempt >= rcv.attempt
  BY <1>1 DEF Split, TypeOK, Receiver
<1>4. ConnectionInv'
  BY <1>1, <1>2, <1>3, JoinMoves DEF Split, ConnectionInv, ReceiverInv
<1>5. TypeOK'
  <2>1. JoinIs(j, to)
    BY <1>2, JoinSet DEF Split
  <2> QED
    BY <1>1, <2>1 DEF Split, TypeOK, JoinIs, JoinType, saving
<1> QED
  BY <1>1, <1>4, <1>5, SourcesAlone DEF Split

LEMMA ConnectKeeps ==
  ASSUME Split, Connect
  PROVE  Split'
<1>0. /\ rcv.phase = "pairing" /\ rcv.attempt \in 0 .. MaxJoins /\ rcv.attempt < MaxJoins
      /\ rcv \in Receiver /\ UNCHANGED << snd, task, room, toR, toS, saving, consents, fault >>
  BY DEF Connect, Settled, Split, TypeOK, Receiver
<1>1. PICK j \in Joins : j = rcv.attempt + 1
  BY <1>0 DEF Joins
<1>2. /\ rcv' = [ rcv EXCEPT !.phase = "preparing", !.attempt = j, !.live = TRUE ]
      /\ join' = [ join EXCEPT ![j].at = "check" ]
  <2>1. /\ rcv' = [ rcv EXCEPT !.phase = "preparing", !.attempt = rcv.attempt + 1, !.live = TRUE ]
        /\ join' = [ join EXCEPT ![rcv.attempt + 1].at = "check" ]
    BY DEF Connect
  <2> QED
    BY <1>1, <2>1, Zenon
<1>3. /\ rcv' \in Receiver /\ rcv'.phase = "preparing" /\ rcv'.attempt = j /\ rcv'.live
      /\ rcv'.auth = rcv.auth /\ rcv'.up = rcv.up /\ rcv'.got = rcv.got
  <2>1. j \in 0 .. MaxJoins
    BY DEF Joins
  <2> QED
    BY <1>0, <1>2, <2>1 DEF Receiver
<1>4. rcv.auth.with = 0 /\ rcv'.attempt >= rcv.attempt /\ rcv'.attempt # 0
  BY <1>0, <1>1, <1>3 DEF Split, ConnectionInv, ReceiverInv
<1>5. Onward(j, "check")
  <2>1. join[j].at = "none"
    BY <1>0, <1>1 DEF Split, ConnectionInv, RoomInv
  <2>2. j <= rcv'.attempt
    BY <1>0, <1>1, <1>3
  <2> QED
    BY <2>1, <2>2 DEF Onward
<1>6. ConnectionInv'
  BY <1>0, <1>2, <1>3, <1>4, <1>5, JoinMoves DEF Split
<1>7. TypeOK'
  <2>1. JoinIs(j, "check")
    BY <1>2, JoinSet DEF Split
  <2> QED
    BY <1>0, <1>3, <2>1 DEF Split, TypeOK, JoinIs, JoinType, saving
<1> QED
  BY <1>0, <1>6, <1>7, SourcesAlone DEF Split

\* The receiver learns its transcript: the sender has not taken the answer yet.
LEMMA AnswerKeeps ==
  ASSUME Split, NEW j \in Joins, Answer(j)
  PROVE  Split'
<1> DEFINE auth == [ NoAuth EXCEPT !.with = join[j].room ]
<1>1. /\ join[j].at = "answer" /\ rcv.live /\ rcv.attempt = j
      /\ rcv' = [ rcv EXCEPT !.phase = "verify", !.auth = auth ]
      /\ join' = [ join EXCEPT ![j].at = "publish" ]
      /\ UNCHANGED << snd, task, room, toR, toS, saving, consents, fault >>
  BY DEF Answer, CurrentJoin, Settled
<1>2. join[j].room \in 0 .. MaxAttempts /\ join[j].room # 0
  BY <1>1 DEF Split, TypeOK, ConnectionInv, RoomInv
<1>3. /\ auth \in Auth(MaxAttempts) /\ auth.with = join[j].room
      /\ ~ auth.local /\ ~ auth.remote
  BY <1>2 DEF Auth, NoAuth
<1> HIDE DEF auth
<1>4. /\ rcv' \in Receiver /\ rcv'.phase = "verify" /\ rcv'.attempt = j /\ rcv'.live
      /\ rcv'.auth = auth /\ rcv'.up = rcv.up /\ rcv'.got = rcv.got
  BY <1>1, <1>3 DEF Split, TypeOK, Receiver
<1>5. rcv.auth.with = 0 /\ ~ rcv.up /\ rcv.got = 0 /\ toR = << >> /\ rcv.attempt # 0
  BY <1>1 DEF Split, ConnectionInv, ReceiverInv
<1>6. Onward(j, "publish") /\ rcv'.attempt >= rcv.attempt
  BY <1>1, <1>4 DEF Onward, Joins
<1>7. RoomInv'
  BY <1>1, <1>4, <1>6, JoinRooms DEF Split
<1>8. SenderInv'
  <2>1. Shorter(toS', toS)
    BY <1>1, LenProperties DEF Shorter, Split, TypeOK
  <2> QED
    BY <1>1, <1>6, <2>1, JoinSender DEF Split
<1>9. /\ join'[j].at = "publish" /\ join'[j].room = join[j].room
      /\ join' \in [ Joins -> JoinType ]
  <2>1. join \in [ Joins -> JoinType ] /\ join' = [ join EXCEPT ![j].at = "publish" ]
    BY <1>1 DEF Split, TypeOK, JoinType
  <2> QED
    BY <2>1 DEF JoinType
<1>10. ReceiverInv'
  BY <1>1, <1>2, <1>3, <1>4, <1>5, <1>9 DEF ReceiverInv, ForReceiver
<1>11. LinkInv'
  <2>1. snd.auth.with # j
    BY <1>1 DEF Split, ConnectionInv, SenderInv, Joins
  <2> QED
    BY <1>1, <1>4, <2>1 DEF LinkInv, Linked
<1>12. TypeOK'
  BY <1>1, <1>4, <1>9 DEF Split, TypeOK, JoinType, saving
<1> QED
  BY <1>1, <1>7, <1>8, <1>10, <1>11, <1>12, SourcesAlone DEF Split, ConnectionInv

\* A room is claimed for one join, which has claimed no other.
LEMMA JoinRoomKeeps ==
  ASSUME Split, NEW j \in Joins, NEW a \in Attempts, JoinRoom(j, a)
  PROVE  Split'
<1>1. /\ join[j].at = "join" /\ room[a].st = "open"
      /\ room' = [ room EXCEPT ![a] = [ st |-> "claimed", by |-> j ] ]
      /\ join' = [ join EXCEPT ![j] = [ at |-> "answer", room |-> a ] ]
      /\ UNCHANGED << snd, rcv, task, toR, toS, saving, consents, fault >>
  BY DEF JoinRoom, Settled
<1>2. /\ join' \in [ Joins -> JoinType ]
      /\ \A i \in Joins : join'[i] = IF i = j THEN [ at |-> "answer", room |-> a ] ELSE join[i]
  BY <1>1 DEF Split, TypeOK, JoinType, Attempts
<1>3. /\ room' \in [ Attempts -> RoomType ]
      /\ \A b \in Attempts : room'[b] = IF b = a THEN [ st |-> "claimed", by |-> j ] ELSE room[b]
  BY <1>1 DEF Split, TypeOK, RoomType, Joins
<1>4. /\ join'[j].at = "answer" /\ join'[j].room = a /\ a # 0
      /\ room'[a].st = "claimed" /\ room'[a].by = j
      /\ \A i \in Joins : i # j => join'[i] = join[i]
      /\ \A b \in Attempts : b # a => room'[b] = room[b]
  BY <1>2, <1>3 DEF Attempts
<1>5. /\ \A i \in Joins : join[i].room # 0 => join[i].room \in Attempts
      /\ \A b \in Attempts : room[b].st = "answered" => room[b].by \in Joins
      /\ \A b \in Attempts : task[b] \in { "digest", "remote" } => b # a
      /\ a <= snd.attempt /\ j <= rcv.attempt
      /\ snd.attempt \in Nat /\ rcv.attempt \in Nat
  <2>1. /\ \A i \in Joins : join[i].room \in 0 .. MaxAttempts
        /\ \A b \in Attempts : room[b].by \in 0 .. MaxJoins
        /\ snd.attempt \in 0 .. MaxAttempts /\ rcv.attempt \in 0 .. MaxJoins
    BY DEF Split, TypeOK, Sender, Receiver
  <2>2. RoomInv
    BY DEF Split, ConnectionInv
  <2>3. ~ (a > snd.attempt) /\ ~ (j > rcv.attempt)
    BY <1>1, <2>2 DEF RoomInv
  <2> QED
    BY <1>1, <2>1, <2>2, <2>3 DEF RoomInv, Attempts, Joins
<1>6. RoomInv'
  <2>1. ASSUME NEW b \in Attempts
        PROVE  /\ b > snd.attempt => task[b] = "none" /\ room'[b].st = "none"
               /\ room'[b].st = "answered" =>
                    /\ room'[b].by # 0 /\ join'[room'[b].by].room = b
                    /\ join'[room'[b].by].at \in { "receipt", "end" }
               /\ task[b] \in { "digest", "remote" } => room'[b].st = "answered"
    <3>1. CASE b = a
      BY <1>4, <1>5, <3>1 DEF Attempts
    <3>2. CASE b # a
      <4>1. room[b].st = "answered" => room[b].by # j
        BY <1>1 DEF Split, ConnectionInv, RoomInv
      <4>2. room[b].st = "answered" => join'[room[b].by] = join[room[b].by]
        BY <1>4, <1>5, <4>1
      <4>3. room'[b] = room[b]
        BY <1>4, <3>2
      <4> QED
        BY <4>2, <4>3 DEF Split, ConnectionInv, RoomInv
    <3> QED
      BY <3>1, <3>2
  <2>2. ASSUME NEW i \in Joins
        PROVE  /\ i > rcv.attempt => join'[i].at = "none"
               /\ join'[i].at \in { "none", "check", "join" } => join'[i].room = 0
               /\ join'[i].at \in { "answer", "publish", "receipt" } => join'[i].room # 0
               /\ join'[i].room # 0 =>
                    /\ room'[join'[i].room].st \notin { "none", "open" }
                    /\ room'[join'[i].room].by = i
    <3>1. CASE i = j
      BY <1>4, <1>5, <3>1 DEF Joins
    <3>2. CASE i # j
      <4>1. join'[i] = join[i]
        BY <1>4, <3>2
      <4>2. join[i].room # a
        BY <1>1 DEF Split, ConnectionInv, RoomInv, Attempts
      <4>3. join[i].room # 0 => room'[join[i].room] = room[join[i].room]
        BY <1>4, <1>5, <4>2
      <4> QED
        BY <4>1, <4>3 DEF Split, ConnectionInv, RoomInv
    <3> QED
      BY <3>1, <3>2
  <2> QED
    BY <1>1, <2>1, <2>2 DEF RoomInv
<1>7. /\ snd.auth.with # 0 => snd.auth.with \in Joins /\ snd.auth.with # j
      /\ rcv.auth.with # 0 => rcv.attempt \in Joins /\ rcv.attempt # j
  BY <1>1, Numbers DEF Split, ConnectionInv, SenderInv, ReceiverInv
<1>8. SenderInv'
  <2>1. snd.auth.with # 0 => join'[snd.auth.with] = join[snd.auth.with]
    BY <1>4, <1>7
  <2> QED
    BY <1>1, <2>1 DEF Split, ConnectionInv, SenderInv, SenderLive, Current, Authorized, ForSender,
                      Confirms
<1>9. ReceiverInv'
  <2>1. rcv.auth.with # 0 => join'[rcv.attempt] = join[rcv.attempt]
    BY <1>4, <1>7
  <2> QED
    BY <1>1, <2>1 DEF Split, ConnectionInv, ReceiverInv, Authorized, ForReceiver, Confirms, Announces
<1>10. LinkInv'
  BY <1>1, LinkAlone DEF Split, ConnectionInv, SameEnd
<1>11. TypeOK'
  BY <1>1, <1>2, <1>3 DEF Split, TypeOK, JoinType, RoomType, saving
<1> QED
  BY <1>1, <1>6, <1>8, <1>9, <1>10, <1>11, SourcesAlone DEF Split, ConnectionInv

\* The service has the answer: the room and its join name each other.
LEMMA PublishKeeps ==
  ASSUME Split, NEW j \in Joins, Publish(j)
  PROVE  Split'
<1>1. /\ join[j].at = "publish" /\ room[join[j].room].st = "claimed"
      /\ room' = [ room EXCEPT ![join[j].room].st = "answered" ]
      /\ join' = [ join EXCEPT ![j].at = "receipt" ]
      /\ UNCHANGED << snd, rcv, task, toR, toS, saving, consents, fault >>
  BY DEF Publish, Settled
<1>2. PICK a \in Attempts : a = join[j].room /\ room[a].by = j /\ room[a].st = "claimed"
  <2>1. join[j].room \in 0 .. MaxAttempts /\ join[j].room # 0
    BY <1>1 DEF Split, TypeOK, ConnectionInv, RoomInv
  <2>2. room[join[j].room].by = j
    BY <2>1 DEF Split, ConnectionInv, RoomInv
  <2> QED
    BY <1>1, <2>1, <2>2 DEF Attempts
<1>3. /\ room' \in [ Attempts -> RoomType ]
      /\ \A b \in Attempts : /\ room'[b].st = IF b = a THEN "answered" ELSE room[b].st
                             /\ room'[b].by = room[b].by
  <2>1. room' = [ room EXCEPT ![a].st = "answered" ]
    BY <1>1, <1>2
  <2>2. TypeOK
    BY DEF Split
  <2>3. RoomIs(a, "answered")
    BY <2>1, <2>2, RoomSet
  <2> QED
    BY <2>3 DEF RoomIs
<1>4. /\ join' \in [ Joins -> JoinType ]
      /\ \A i \in Joins : /\ join'[i].at = IF i = j THEN "receipt" ELSE join[i].at
                          /\ join'[i].room = join[i].room
  <2>1. JoinIs(j, "receipt")
    BY <1>1, JoinSet DEF Split
  <2> QED
    BY <2>1 DEF JoinIs
<1>5. /\ \A i \in Joins : join[i].room # 0 => join[i].room \in Attempts
      /\ \A b \in Attempts : room[b].st = "answered" => room[b].by \in Joins
      /\ j # 0 /\ RoomInv
  <2>1. j # 0 /\ RoomInv
    <3>1. j # 0
      BY DEF Joins
    <3> QED
      BY <3>1 DEF Split, ConnectionInv
  <2>2. \A i \in Joins : join[i].room # 0 => join[i].room \in Attempts
    BY DEF Split, TypeOK, Attempts
  <2>3. \A b \in Attempts : room[b].by \in 0 .. MaxJoins
    BY DEF Split, TypeOK
  <2> QED
    BY <2>1, <2>2, <2>3 DEF RoomInv, Joins
<1>6. RoomInv'
  <2>1. ASSUME NEW b \in Attempts
        PROVE  /\ b > snd.attempt => task[b] = "none" /\ room'[b].st = "none"
               /\ room'[b].st = "answered" =>
                    /\ room'[b].by # 0 /\ join'[room'[b].by].room = b
                    /\ join'[room'[b].by].at \in { "receipt", "end" }
               /\ task[b] \in { "digest", "remote" } => room'[b].st = "answered"
    BY <1>2, <1>3, <1>4, <1>5 DEF RoomInv
  <2>2. ASSUME NEW i \in Joins
        PROVE  /\ i > rcv.attempt => join'[i].at = "none"
               /\ join'[i].at \in { "none", "check", "join" } => join'[i].room = 0
               /\ join'[i].at \in { "answer", "publish", "receipt" } => join'[i].room # 0
               /\ join'[i].room # 0 =>
                    /\ room'[join'[i].room].st \notin { "none", "open" }
                    /\ room'[join'[i].room].by = i
    BY <1>1, <1>3, <1>4, <1>5 DEF RoomInv
  <2> QED
    BY <1>1, <2>1, <2>2 DEF RoomInv
<1>7. /\ snd.auth.with # 0 => snd.auth.with \in Joins
      /\ rcv.auth.with # 0 => rcv.attempt \in Joins
  BY Numbers DEF Split, ConnectionInv
<1>8. SenderInv'
  <2>1. snd.auth.with # 0 =>
          /\ join'[snd.auth.with].room = snd.attempt
          /\ join'[snd.auth.with].at \in { "receipt", "end" }
    BY <1>4, <1>7 DEF Split, ConnectionInv, SenderInv
  <2> QED
    BY <1>1, <2>1 DEF Split, ConnectionInv, SenderInv, SenderLive, Current, Authorized, ForSender,
                      Confirms
<1>9. ReceiverInv'
  <2>1. rcv.auth.with # 0 =>
          /\ join'[rcv.attempt].room = rcv.auth.with
          /\ join'[rcv.attempt].at \in { "publish", "receipt", "end" }
    BY <1>4, <1>7 DEF Split, ConnectionInv, ReceiverInv
  <2> QED
    BY <1>1, <2>1 DEF Split, ConnectionInv, ReceiverInv, Authorized, ForReceiver, Confirms, Announces
<1>10. LinkInv'
  BY <1>1, LinkAlone DEF Split, ConnectionInv, SameEnd
<1>11. TypeOK'
  BY <1>1, <1>3, <1>4 DEF Split, TypeOK, JoinType, RoomType, saving
<1> QED
  BY <1>1, <1>6, <1>8, <1>9, <1>10, <1>11, SourcesAlone DEF Split, ConnectionInv

LEMMA PublishFailsKeeps ==
  ASSUME Split, NEW j \in Joins, PublishFails(j)
  PROVE  Split'
<1>1. /\ join[j].at \in { "publish", "receipt" } /\ join' = [ join EXCEPT ![j].at = "end" ]
      /\ UNCHANGED << snd, task, room, saving, consents, fault >>
  BY DEF PublishFails, Settled
<1>2. Onward(j, "end") /\ join' \in [ Joins -> JoinType ]
  <2>1. JoinIs(j, "end")
    BY <1>1, JoinSet DEF Split
  <2> QED
    BY <1>1, <2>1 DEF Onward, JoinIs
<1>3. CASE ReceiverCloses("failed")
  <2>1. /\ rcv' \in Receiver /\ rcv'.phase = "failed" /\ rcv'.attempt = rcv.attempt
        /\ ~ rcv'.live /\ rcv'.auth = NoAuth /\ ~ rcv'.up /\ rcv'.got = 0
        /\ toR' = << >> /\ Shorter(toS', toS)
    BY <1>3, ReceiverClosing DEF Split
  <2>2. rcv'.auth.with = 0 /\ ~ rcv'.auth.local /\ ~ rcv'.auth.remote
    BY <2>1 DEF NoAuth
  <2>3. rcv'.attempt >= rcv.attempt
    BY <2>1 DEF Receiver
  <2>4. RoomInv'
    BY <1>1, <1>2, <2>1, <2>3, JoinRooms DEF Split
  <2>5. SenderInv'
    BY <1>1, <1>2, <2>1, JoinSender DEF Split
  <2>6. ReceiverInv' /\ LinkInv'
    BY <2>1, <2>2 DEF ReceiverInv, ForReceiver, LinkInv, Linked
  <2>7. TypeOK'
    BY <1>1, <1>2, <2>1, EmptyIsQueue, ShorterIsQueue DEF Split, TypeOK, JoinType, saving
  <2> QED
    BY <1>1, <2>4, <2>5, <2>6, <2>7, SourcesAlone DEF Split, ConnectionInv
<1>4. CASE UNCHANGED << rcv, toR, toS >>
  <2>1. rcv \in Receiver /\ rcv'.attempt >= rcv.attempt
    BY <1>4 DEF Split, TypeOK, Receiver
  <2>2. ConnectionInv'
    BY <1>1, <1>2, <1>4, <2>1, JoinMoves DEF Split, ConnectionInv, ReceiverInv
  <2>3. TypeOK'
    BY <1>1, <1>2, <1>4 DEF Split, TypeOK, JoinType, saving
  <2> QED
    BY <1>1, <2>2, <2>3, SourcesAlone DEF Split
<1> QED
  BY <1>3, <1>4 DEF PublishFails
-----------------------------------------------------------------------------
(* The invariant and what follows.                                         *)

LEMMA PairingInitially == Init => Split
<1> SUFFICES ASSUME Init PROVE Split
  OBVIOUS
<1>1. TypeOK
  BY TypesAtStart
<1>2. /\ snd = FreshPage /\ snd.auth.with = 0 /\ ~ snd.auth.local /\ ~ snd.auth.remote
      /\ rcv.auth = NoAuth /\ rcv.auth.with = 0 /\ ~ rcv.auth.local /\ ~ rcv.auth.remote
      /\ rcv.attempt = 0 /\ ~ rcv.live /\ ~ rcv.up /\ rcv.got = 0
  BY DEF Init, FreshPage, NoAuth
<1>3. RoomInv
  BY DEF Init, RoomInv
<1>4. SenderInv
  BY <1>2 DEF Init, SenderInv, FreshPage, Nobody, ForSender
<1>5. ReceiverInv
  BY <1>2 DEF Init, ReceiverInv, ForReceiver
<1>6. LinkInv /\ StartsWhenReady
  BY <1>2 DEF LinkInv, Linked, StartsWhenReady, Ready, Authorized
<1>7. SourceInv
  BY DEF Init, SourceInv, FreshPage, Nobody, Selections
<1>8. RecordsAccounted /\ NoHonestAccusation
  BY DEF Init, RecordsAccounted, FreshPage, NoHonestAccusation
<1> QED
  BY <1>1, <1>3, <1>4, <1>5, <1>6, <1>7, <1>8 DEF Split, ConnectionInv, SavingInv

LEMMA PairingKept == Split /\ [Next]_vars => Split'
<1> SUFFICES ASSUME Split, [Next]_vars PROVE Split'
  OBVIOUS
<1>1. CASE UNCHANGED vars
  <2>1. UNCHANGED << snd, rcv, connection, toR, toS, saving, consents, fault >>
    BY <1>1 DEF vars
  <2>2. ConnectionInv'
    BY <2>1, ConnectionAlone DEF Split, SameEnd
  <2>3. TypeOK'
    BY <2>1 DEF Split, TypeOK, connection, saving
  <2> QED
    BY <2>1, <2>2, <2>3, SourcesAlone DEF Split
<1>2. CASE \/ SOpen \/ ROpen \/ SenderLost \/ ReceiverLost
           \/ SConfirm \/ RConfirm
           \/ SenderGetsConfirmed \/ ReceiverGetsConfirmed \/ ReceiverGetsManifest
  BY <1>2, OpenKeeps, SenderLostKeeps, ReceiverClosesKeeps, SConfirmKeeps, RConfirmKeeps,
     SenderGetsConfirmedKeeps, ReceiverGetsConfirmedKeeps, ReceiverGetsManifestKeeps
<1>3. CASE \/ LoadSaved \/ PickSource \/ RestoreSource
           \/ DiscardSaved \/ DiscardCommits \/ DiscardReturns
           \/ Prepare \/ StopConnection \/ Reset \/ Reload \/ Connect \/ ReceiverReset
  BY <1>3, LoadSavedKeeps, PickSourceKeeps, RestoreSourceKeeps, DiscardKeeps, PrepareKeeps,
     StopConnectionKeeps, ResetKeeps, ReloadKeeps, ConnectKeeps, ReceiverClosesKeeps
<1>4. ASSUME NEW k \in Selections,
             \/ \E kind \in { "pick", "restore" } : Scanned(kind, k) \/ ScanFails(kind, k)
             \/ Hashed(k) \/ HashFails(k)
             \/ SaveCommits(k) \/ SaveFails(k) \/ SaveReturns(k) \/ UndoSave(k)
      PROVE  Split'
  <2>1. ASSUME NEW kind \in { "pick", "restore" }, Scanned(kind, k) PROVE Split'
    BY <2>1, ScannedKeeps DEF Picking
  <2>2. ASSUME NEW kind \in { "pick", "restore" }, ScanFails(kind, k) PROVE Split'
    BY <2>2, ScanFailsKeeps
  <2> QED
    BY <1>4, <2>1, <2>2, HashedKeeps, HashFailsKeeps, SaveCommitsKeeps, SaveFailsKeeps,
       SaveReturnsKeeps, UndoSaveKeeps
<1>5. ASSUME NEW a \in Attempts,
             \/ OfferMade(a) \/ RoomOpens(a) \/ RoomMade(a)
             \/ TakeAnswer(a) \/ Digested(a) \/ RemoteSet(a) \/ AttemptStale(a) \/ RoomGoes(a)
      PROVE  Split'
  BY <1>5, TaskStepKeeps, RoomStepKeeps, RoomMadeKeeps, DigestedKeeps, RemoteSetKeeps
<1>6. ASSUME NEW j \in Joins,
             \/ JoinReady(j) \/ Answer(j) \/ Publish(j) \/ Published(j) \/ PublishFails(j)
             \/ JoinStale(j) \/ \E a \in Attempts : JoinRoom(j, a)
      PROVE  Split'
  BY <1>6, JoinStepKeeps, AnswerKeeps, PublishKeeps, PublishFailsKeeps, JoinRoomKeeps
<1> QED
  BY <1>1, <1>2, <1>3, <1>4, <1>5, <1>6 DEF Next

\* The parts of the invariant hold in every state, for any number of attempts,
\* joins and selections.
THEOREM AlwaysPaired == Spec => []PairingInv
<1>1. Init => PairingInv
  BY PairingInitially, SplitIsInv
<1>2. PairingInv /\ [Next]_vars => PairingInv'
  <2>1. Split' => PairingInv'
    BY DEF Split, PairingInv, ConnectionInv, SavingInv
  <2> QED
    BY <2>1, PairingKept, SplitIsInv
<1> QED
  BY <1>1, <1>2, PTL DEF Spec

\* No file reaches or is announced to the other device before both people
\* confirmed the code of this very connection (README.md:203).
THEOREM NothingWithoutConsents == Spec => []FilesNeedBothConsents
<1>1. PairingInv => FilesNeedBothConsents
  BY DEF PairingInv, SenderInv, ReceiverInv, Authorized, FilesNeedBothConsents
<1> QED
  BY <1>1, AlwaysPaired, PTL

\* Two honest people who confirm are neither kept waiting nor accused: the gate
\* has looked whenever its last condition came, and no message of an earlier
\* connection, or out of order, ever reaches a page.
THEOREM HonestPairsStart == Spec => []HonestPairStarts
<1>1. PairingInv => HonestPairStarts
  BY DEF PairingInv, HonestPairStarts
<1> QED
  BY <1>1, AlwaysPaired, PTL

\* What is sent and what is kept belong to the selection the user sees, however
\* late the preparation of an earlier one ends.
THEOREM SelectionIsKept == Spec => []SelectionRules
<1>1. PairingInv => SelectionRules
  BY DEF PairingInv, SourceInv, LinkInv, SelectionRules, SentIsSelected
<1> QED
  BY <1>1, AlwaysPaired, PTL
=============================================================================
