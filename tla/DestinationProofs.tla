------------------------- MODULE DestinationProofs -------------------------
(* Proofs about Destination for any set of tabs and transfers, any number   *)
(* of files, any batching and any bound on failures and edits.              *)
EXTENDS Destination, TLAPS

USE DestinationAssumption

-----------------------------------------------------------------------------
(* Type correctness.                                                        *)

LEMMA BatchType ==
  ASSUME NEW i, NEW S
  PROVE  Batch(i, S) \in SUBSET Files
  BY DEF Batch

LEMMA OnSomeType ==
  ASSUME NEW A \in SUBSET Files, NEW S, NEW f \in [A -> S]
  PROVE  f \in OnSome(S)
  BY DEF OnSome

LEMMA IdleType == Idle \in Run
<1>1. Nothing \in OnSome(BOOLEAN) /\ Nothing \in OnSome({"opening", "open"} \cup Settled)
  <2>1. Nothing \in [{} -> BOOLEAN] /\ Nothing \in [{} -> {"opening", "open"} \cup Settled]
    BY DEF Nothing
  <2> QED
    BY <2>1, OnSomeType
<1> QED
  BY <1>1 DEF Idle, Run, Stopped, Files

\* Every named field of a save is changed within its type.
LEMMA RunUpdate ==
  ASSUME NEW r \in Run
  PROVE  /\ \A p \in Stopped \cup Holding : [r EXCEPT !.phase = p] \in Run
         /\ \A a \in 1 .. NumFiles + 1 : [r EXCEPT !.at = a] \in Run
         /\ \A c \in SUBSET Files : [r EXCEPT !.completed = c] \in Run
         /\ \A s \in OnSome(BOOLEAN) : [r EXCEPT !.saved = s] \in Run
         /\ \A w \in OnSome({"opening", "open"} \cup Settled) :
              [r EXCEPT !.writers = w] \in Run
         /\ \A c \in BOOLEAN : [r EXCEPT !.claimed = c] \in Run
         /\ \A l \in 0 .. MaxEdits : [r EXCEPT !.looked = l] \in Run
  BY DEF Run

LEMMA WriterUpdate ==
  ASSUME NEW r \in Run, NEW i \in DOMAIN r.writers,
         NEW s \in {"opening", "open"} \cup Settled
  PROVE  [r EXCEPT !.writers[i] = s] \in Run
<1> DEFINE W == {"opening", "open"} \cup Settled
<1>1. PICK A \in SUBSET Files : r.writers \in [A -> W]
  BY DEF Run, OnSome
<1>2. [r.writers EXCEPT ![i] = s] \in [A -> W]
  BY <1>1
<1>3. [r.writers EXCEPT ![i] = s] \in OnSome(W)
  BY <1>2, OnSomeType
<1> QED
  BY <1>3 DEF Run

LEMMA RunFields ==
  ASSUME NEW r \in Run
  PROVE  /\ r.phase \in Stopped \cup Holding
         /\ r.at \in Int /\ r.at \in 1 .. NumFiles + 1
         /\ r.completed \in SUBSET Files
         /\ r.claimed \in BOOLEAN
         /\ r.looked \in Int /\ r.looked \in 0 .. MaxEdits
         /\ DOMAIN r.writers \in SUBSET Files
         /\ \A i \in DOMAIN r.writers :
              r.writers[i] \in {"opening", "open", "closed", "failed"}
<1>1. PICK A \in SUBSET Files : r.writers \in [A -> {"opening", "open"} \cup Settled]
  BY DEF Run, OnSome
<1>2. /\ DOMAIN r.writers \in SUBSET Files
      /\ \A i \in DOMAIN r.writers :
              r.writers[i] \in {"opening", "open", "closed", "failed"}
  BY <1>1 DEF Settled
<1> QED
  BY <1>2 DEF Run

\* The lock is consistent whenever one tab takes a step of its own.
LEMMA LockStep ==
  ASSUME TypeOK, NEW t \in Tabs, NEW r \in Run,
         tab' = [tab EXCEPT ![t] = r],
         \/ lock' = lock /\ (tab[t].phase \in Holding <=> r.phase \in Holding)
         \/ lock' = t /\ lock = None /\ r.phase \in Holding
         \/ lock' = Free(t) /\ r.phase \in Stopped
  PROVE  /\ tab' \in [Tabs -> Run]
         /\ lock' \in Tabs \cup {None}
         /\ \A u \in Tabs : lock' = u <=> tab'[u].phase \in Holding
<1>1. tab' \in [Tabs -> Run] /\ tab'[t] = r /\ \A u \in Tabs : u # t => tab'[u] = tab[u]
  BY DEF TypeOK
<1>2. CASE lock' = lock /\ (tab[t].phase \in Holding <=> r.phase \in Holding)
  BY <1>1, <1>2 DEF TypeOK
<1>3. CASE lock' = t /\ lock = None /\ r.phase \in Holding
  BY <1>1, <1>3 DEF TypeOK
<1>4. CASE lock' = Free(t) /\ r.phase \in Stopped
  <2>1. r.phase \notin Holding
    BY <1>4 DEF Stopped, Holding
  <2> QED
    BY <1>1, <1>4, <2>1 DEF TypeOK, Free
<1> QED
  BY <1>2, <1>3, <1>4

\* The part of type correctness that is the same for every step of a tab.
TypeTab ==
  /\ tab \in [Tabs -> Run]
  /\ lock \in Tabs \cup {None}
  /\ \A t \in Tabs : lock = t <=> tab[t].phase \in Holding

LEMMA TabStep ==
  ASSUME TypeOK, NEW t \in Tabs,
         Save(t) \/ Acquire(t) \/ Work(t) \/ Faulty(t),
         \* the two facts that need more than types
         At(t, "journal") => tab[t].at \in DOMAIN tab[t].writers
  PROVE  TypeTab'
<1> DEFINE r == tab[t]
<1>0. r \in Run /\ r.phase \in Stopped \cup Holding /\ r.at \in 1 .. NumFiles + 1
      /\ r.completed \in SUBSET Files /\ r.looked \in 0 .. MaxEdits
      /\ edits \in 0 .. MaxEdits /\ DOMAIN r.writers \in SUBSET Files
  BY RunFields DEF TypeOK
<1>a. \A q \in Run :
        /\ tab' = [tab EXCEPT ![t] = q]
        /\ \/ lock' = lock /\ (r.phase \in Holding <=> q.phase \in Holding)
           \/ lock' = t /\ lock = None /\ q.phase \in Holding
           \/ lock' = Free(t) /\ q.phase \in Stopped
        => TypeTab'
  BY LockStep DEF TypeTab
<1>b. tab \in [Tabs -> Run] /\ 1 \in 1 .. NumFiles + 1
  BY DEF TypeOK
<1>p. \A p \in Stopped \cup Holding :
        /\ [r EXCEPT !.phase = p] \in Run
        /\ [r EXCEPT !.phase = p].phase = p
        /\ Goto(t, p) => tab' = [tab EXCEPT ![t] = [r EXCEPT !.phase = p]]
  BY <1>0, <1>b, RunUpdate DEF Goto, Run
<1>q. \A p \in Stopped \cup Holding :
        /\ [r EXCEPT !.phase = p, !.at = 1] \in Run
        /\ [r EXCEPT !.phase = p, !.at = 1].phase = p
        /\ Restart(t, p) => tab' = [tab EXCEPT ![t] = [r EXCEPT !.phase = p, !.at = 1]]
  <2> SUFFICES ASSUME NEW p \in Stopped \cup Holding
               PROVE  LET q == [r EXCEPT !.phase = p, !.at = 1]
                      IN  /\ q \in Run /\ q.phase = p
                          /\ Restart(t, p) => tab' = [tab EXCEPT ![t] = q]
    OBVIOUS
  <2>1. [r EXCEPT !.phase = p, !.at = 1] \in Run
        /\ [r EXCEPT !.phase = p, !.at = 1].phase = p
    BY <1>0, <1>b DEF Run
  <2>2. Restart(t, p) => tab' = [tab EXCEPT ![t] = [r EXCEPT !.phase = p, !.at = 1]]
    BY <1>b DEF Restart
  <2> QED
    BY <2>1, <2>2
<1>l. ASSUME NEW p \in Stopped, Leave(t, p) PROVE TypeTab'
  <2>1. tab' = [tab EXCEPT ![t] = [r EXCEPT !.phase = p]] /\ lock' = Free(t)
    BY <1>l, <1>p DEF Leave
  <2>2. [r EXCEPT !.phase = p] \in Run /\ [r EXCEPT !.phase = p].phase \in Stopped
    BY <1>p
  <2> QED
    BY <2>1, <2>2, <1>a
<1>1. CASE Save(t)
  <2>1. tab' = [tab EXCEPT ![t] = [r EXCEPT !.phase = "waiting"]] /\ lock' = lock
    BY <1>1, <1>p DEF Save, Stopped
  <2>2. [r EXCEPT !.phase = "waiting"] \in Run /\ [r EXCEPT !.phase = "waiting"].phase = "waiting"
    BY <1>p DEF Stopped
  <2>3. r.phase \in {"idle", "refused"}
    BY <1>1 DEF Save
  <2> QED
    BY <2>1, <2>2, <2>3, <1>a DEF Holding
<1>2. CASE Acquire(t)
  <2>1. [Idle EXCEPT !.phase = "open", !.writers = r.writers] \in Run
    BY <1>0, IdleType DEF Run, Holding
  <2>2. [Idle EXCEPT !.phase = "open", !.writers = r.writers].phase \in Holding
    BY DEF Idle, Holding
  <2> QED
    BY <1>2, <2>1, <2>2, <1>a DEF Acquire
<1>3. CASE OpenFolder(t)
  <2>1. marker.completed \in SUBSET Files
    BY DEF TypeOK
  <2>2. [r EXCEPT !.phase = "scan", !.claimed = TRUE, !.completed = marker.completed] \in Run
    BY <1>0, <2>1 DEF Run, Holding
  <2>3. [r EXCEPT !.phase = "create", !.claimed = TRUE] \in Run
    BY <1>0 DEF Run, Holding
  <2>4. [r EXCEPT !.phase = "scan", !.claimed = TRUE, !.completed = marker.completed].phase = "scan"
        /\ [r EXCEPT !.phase = "create", !.claimed = TRUE].phase = "create"
    BY <1>0 DEF Run
  <2>5. r.phase = "open"
    BY <1>3 DEF OpenFolder, At
  <2>6. CASE tab' = [tab EXCEPT ![t].phase = "scan", ![t].claimed = TRUE,
                              ![t].completed = marker.completed] /\ lock' = lock
    <3>1. tab' = [tab EXCEPT ![t] = [r EXCEPT !.phase = "scan", !.claimed = TRUE,
                                              !.completed = marker.completed]]
      BY <2>6, <1>b
    <3> QED
      BY <3>1, <2>6, <2>2, <2>4, <2>5, <1>a DEF Holding
  <2>7. CASE Leave(t, "refused")
    BY <2>7, <1>l DEF Stopped
  <2>8. CASE tab' = [tab EXCEPT ![t].phase = "create", ![t].claimed = TRUE] /\ lock' = lock
    <3>1. tab' = [tab EXCEPT ![t] = [r EXCEPT !.phase = "create", !.claimed = TRUE]]
      BY <2>8, <1>b
    <3> QED
      BY <3>1, <2>8, <2>3, <2>4, <2>5, <1>a DEF Holding
  <2>9. CASE Goto(t, "lookup") /\ lock' = lock
    BY <2>9, <2>5, <1>p, <1>a DEF Holding
  <2> QED
    BY <1>3, <2>6, <2>7, <2>8, <2>9 DEF OpenFolder
<1>4. CASE CreateMarker(t) \/ Settle(t)
  <2>1. PICK p \in {"fill", "journal"} : Goto(t, p) /\ lock' = lock
    BY <1>4 DEF CreateMarker, Settle
  <2>2. r.phase \in Holding /\ p \in Holding
    BY <1>4 DEF CreateMarker, Settle, At, Holding
  <2>3. /\ tab' = [tab EXCEPT ![t] = [r EXCEPT !.phase = p]]
        /\ [r EXCEPT !.phase = p] \in Run /\ [r EXCEPT !.phase = p].phase = p
    BY <2>1, <2>2, <1>p
  <2> QED
    BY <2>1, <2>2, <2>3, <1>a
<1>5. CASE FillMarker(t) \/ AllRecorded(t)
  <2>1. PICK p \in {"next", "lookup"} : Restart(t, p) /\ lock' = lock
    BY <1>5 DEF FillMarker, AllRecorded
  <2>2. r.phase \in Holding /\ p \in Holding
    BY <1>5 DEF FillMarker, AllRecorded, At, Holding
  <2>3. /\ tab' = [tab EXCEPT ![t] = [r EXCEPT !.phase = p, !.at = 1]]
        /\ [r EXCEPT !.phase = p, !.at = 1] \in Run
        /\ [r EXCEPT !.phase = p, !.at = 1].phase = p
    BY <2>1, <2>2, <1>q
  <2> QED
    BY <2>1, <2>2, <2>3, <1>a
<1>6. CASE ClaimFails(t) \/ Unmark(t)
  BY <1>6, <1>l DEF ClaimFails, Unmark, Stopped
<1>7. CASE Scan(t)
  <2>1. CASE Leave(t, "refused")
    BY <2>1, <1>l DEF Stopped
  <2>2. CASE Restart(t, "next") /\ lock' = lock
    <3>1. r.phase \in Holding /\ "next" \in Holding
      BY <1>7 DEF Scan, At, Holding
    <3>2. /\ tab' = [tab EXCEPT ![t] = [r EXCEPT !.phase = "next", !.at = 1]]
          /\ [r EXCEPT !.phase = "next", !.at = 1] \in Run
          /\ [r EXCEPT !.phase = "next", !.at = 1].phase = "next"
      BY <2>2, <3>1, <1>q
    <3> QED
      BY <2>2, <3>1, <3>2, <1>a
  <2> QED
    BY <1>7, <2>1, <2>2 DEF Scan
<1>8. CASE CheckSaved(t)
  <2> DEFINE B == Batch(r.at, r.completed)
             v == [i \in B |-> Matches(t, i)]
  <2>1. v \in [B -> BOOLEAN]
    BY DEF Matches
  <2>2. v \in OnSome(BOOLEAN)
    BY <2>1, BatchType, OnSomeType
  <2>3. [r EXCEPT !.saved = v] \in Run /\ [r EXCEPT !.saved = v].phase = r.phase
    BY <2>2, <1>0 DEF Run
  <2>4. tab' = [tab EXCEPT ![t] = [r EXCEPT !.saved = v]] /\ lock' = lock
    BY <1>8, <1>b DEF CheckSaved
  <2> QED
    BY <2>3, <2>4, <1>a
<1>9. CASE Reuse(t)
  <2>1. [r EXCEPT !.at = r.at + 1] \in Run /\ [r EXCEPT !.at = r.at + 1].phase = r.phase
    BY <1>9, <1>0 DEF Run, Reuse, Next1, Files
  <2>2. tab' = [tab EXCEPT ![t] = [r EXCEPT !.at = r.at + 1]] /\ lock' = lock
    BY <1>9, <1>b DEF Reuse
  <2> QED
    BY <2>1, <2>2, <1>a
<1>10. CASE Unset(t)
  <2>1. [r EXCEPT !.completed = r.completed \ {r.at}] \in Run
        /\ [r EXCEPT !.completed = r.completed \ {r.at}].phase = r.phase
    BY <1>0 DEF Run
  <2>2. tab' = [tab EXCEPT ![t] = [r EXCEPT !.completed = r.completed \ {r.at}]] /\ lock' = lock
    BY <1>10, <1>b DEF Unset
  <2> QED
    BY <2>1, <2>2, <1>a
<1>11. CASE StartBatch(t)
  <2> DEFINE B == Batch(r.at, Files \ r.completed)
             w == [i \in B |-> "opening"]
  <2>1. w \in [B -> {"opening", "open"} \cup Settled]
    OBVIOUS
  <2>2. w \in OnSome({"opening", "open"} \cup Settled)
    BY <2>1, BatchType, OnSomeType
  <2>3. [r EXCEPT !.phase = "writing", !.writers = w] \in Run
        /\ [r EXCEPT !.phase = "writing", !.writers = w].phase = "writing"
    BY <2>2, <1>0 DEF Run, Holding
  <2>4. tab' = [tab EXCEPT ![t] = [r EXCEPT !.phase = "writing", !.writers = w]]
        /\ lock' = lock /\ r.phase = "next"
    BY <1>11, <1>b DEF StartBatch, Next1, At
  <2> QED
    BY <2>3, <2>4, <1>a DEF Holding
<1>12. CASE \E i \in Files : CreateFile(t, i) \/ CloseFile(t, i) \/ WriteFails(t, i)
  <2>1. PICK i \in DOMAIN r.writers, s \in {"opening", "open"} \cup Settled :
          SetWriter(t, i, s) /\ lock' = lock
    BY <1>12 DEF CreateFile, CloseFile, WriteFails, Writer, Settled
  <2>2. [r EXCEPT !.writers[i] = s] \in Run /\ [r EXCEPT !.writers[i] = s].phase = r.phase
    BY <1>0, WriterUpdate DEF Run
  <2>3. tab' = [tab EXCEPT ![t] = [r EXCEPT !.writers[i] = s]]
    BY <2>1, <1>b DEF SetWriter
  <2> QED
    BY <2>1, <2>2, <2>3, <1>a
<1>13. CASE Record(t)
  <2>1. CASE Leave(t, "idle")
    BY <2>1, <1>l DEF Stopped
  <2>2. CASE r.writers[r.at] # "failed"
    <3> DEFINE p == IF r.at + 1 \in DOMAIN r.writers THEN "journal" ELSE "next"
               q == [r EXCEPT !.completed = r.completed \cup {r.at}, !.at = r.at + 1, !.phase = p]
    <3>1. r.phase = "journal" /\ lock' = lock /\ r.at \in Files
      BY <1>13, <2>2, <1>0 DEF Record, At
    <3>2. p \in Holding /\ r.at + 1 \in 1 .. NumFiles + 1
          /\ r.completed \cup {r.at} \in SUBSET Files
      BY <3>1, <1>0 DEF Holding, Files
    <3>4. q \in Run /\ q.phase \in Holding
      <4> HIDE DEF p
      <4> QED
        BY <3>2, <1>0 DEF Run
    <3>3. tab' = [tab EXCEPT ![t] = q]
      BY <1>13, <2>2, <1>b DEF Record
    <3> QED
      BY <3>1, <3>3, <3>4, <1>a DEF Holding
  <2> QED
    BY <1>13, <2>1, <2>2 DEF Record
<1>14. ASSUME Rejected(t) PROVE TypeTab'
  BY <1>14, <1>l DEF Rejected, Stopped
<1>15. CASE Lookup(t)
  <2>1. CASE Rejected(t)
    BY <2>1, <1>14
  <2>2. CASE tab' = [tab EXCEPT ![t].phase = "verify", ![t].at = 1, ![t].looked = edits]
             /\ lock' = lock
    <3> DEFINE q == [r EXCEPT !.phase = "verify", !.at = 1, !.looked = edits]
    <3>1. q \in Run /\ q.phase = "verify"
      <4>1. "verify" \in Stopped \cup Holding
        BY DEF Holding
      <4> QED
        BY <1>0, <1>b, <4>1 DEF Run
    <3>2. tab' = [tab EXCEPT ![t] = q]
      BY <2>2, <1>b
    <3>3. r.phase = "lookup"
      BY <1>15 DEF Lookup, At
    <3> QED
      BY <3>1, <3>2, <3>3, <2>2, <1>a DEF Holding
  <2> QED
    BY <1>15, <2>1, <2>2 DEF Lookup
<1>16. CASE VerifyBatch(t)
  <2>1. CASE Rejected(t)
    BY <2>1, <1>14
  <2>2. CASE \E end \in 2 .. NumFiles + 1 : tab' = [tab EXCEPT ![t].at = end] /\ lock' = lock
    <3>1. PICK end \in 2 .. NumFiles + 1 : tab' = [tab EXCEPT ![t].at = end] /\ lock' = lock
      BY <2>2
    <3>2. [r EXCEPT !.at = end] \in Run /\ [r EXCEPT !.at = end].phase = r.phase
      BY <1>0 DEF Run
    <3>3. tab' = [tab EXCEPT ![t] = [r EXCEPT !.at = end]]
      BY <3>1, <1>b
    <3> QED
      BY <3>1, <3>2, <3>3, <1>a
  <2> QED
    BY <1>16, <2>1, <2>2 DEF VerifyBatch
<1>17. CASE Verified(t)
  <2>1. CASE Goto(t, "unmark") /\ lock' = lock
    <3>1. r.phase = "verify"
      BY <1>17 DEF Verified, At
    <3> QED
      BY <2>1, <3>1, <1>p, <1>a DEF Holding
  <2>2. CASE Leave(t, "saved")
    BY <2>2, <1>l DEF Stopped
  <2> QED
    BY <1>17, <2>1, <2>2 DEF Verified
<1>18. CASE Reclaim(t)
  <2>1. /\ r.phase = "saved" /\ lock' = lock /\ Goto(t, "reclaimed")
        /\ "reclaimed" \in Stopped
        /\ "saved" \notin Holding /\ "reclaimed" \notin Holding
    BY <1>18 DEF Reclaim, At, Holding, Stopped
  <2>2. tab' = [tab EXCEPT ![t] = [r EXCEPT !.phase = "reclaimed"]]
    BY <2>1, <1>p
  <2>3. [r EXCEPT !.phase = "reclaimed"] \in Run
        /\ [r EXCEPT !.phase = "reclaimed"].phase = "reclaimed"
    BY <2>1, <1>p
  <2> QED
    BY <2>1, <2>2, <2>3, <1>a
<1>19. CASE Fail(t)
  BY <1>19, <1>l, <1>14 DEF Fail, Stopped
<1>20. CASE Die(t)
  <2>1. Idle.phase \in Stopped
    BY DEF Idle, Stopped
  <2> QED
    BY <1>20, <2>1, IdleType, <1>a DEF Die
<1> QED
  BY <1>1, <1>2, <1>3, <1>4, <1>5, <1>6, <1>7, <1>8, <1>9, <1>10, <1>11, <1>12, <1>13,
     <1>15, <1>16, <1>17, <1>18, <1>19, <1>20 DEF Work, Faulty

-----------------------------------------------------------------------------
(* The inductive invariant.                                                 *)

\* What a save of tab t in state r may rely on.
Relies(t, r) ==
  /\ r.phase \in {"scan", "next", "writing", "journal", "unmark"} =>
       r.claimed /\ OwnMarker(t)
  /\ r.phase \in {"lookup", "verify"} =>
       IF r.claimed THEN OwnMarker(t) ELSE marker = NoMarker
  /\ r.phase = "open" => ~r.claimed /\ r.completed = {}
  /\ r.phase \in {"create", "fill"} =>
       /\ r.claimed
       /\ r.completed = {}
       /\ edits = 0 => FolderEmpty
       /\ marker = IF r.phase = "create" THEN NoMarker ELSE Ownerless
  /\ r.phase \in {"scan", "next", "writing", "journal"} =>
       r.completed = marker.completed
  /\ r.phase \in {"writing", "journal"} =>
       /\ r.at \in DOMAIN r.writers
       /\ \A i \in DOMAIN r.writers :
            r.writers[i] = "closed" => i \in touched \/ disk[i] = Mine(t)
  /\ \A i \in DOMAIN r.writers :
       r.writers[i] \in {"opening", "open"} => r.phase = "writing"
  /\ r.looked <= edits
  /\ r.phase = "verify" /\ r.looked = edits =>
       ~stranger /\ \A i \in Files : i < r.at => disk[i] = Mine(t)
  /\ r.phase = "unmark" /\ r.looked = edits => Exact(Mine(t))
  /\ r.phase \in {"saved", "reclaimed"} /\ edits = 0 =>
       Exact(Mine(t)) /\ marker = NoMarker
  /\ r.phase = "reclaimed" \/ copy[t]

TabInv(t) == Relies(t, tab[t])

\* A folder that was claimed, and not edited since, was empty.
NoUsersData ==
  edits = 0 /\ marker # NoMarker => \A i \in Files : disk[i] # "users"

Inv ==
  /\ TypeOK
  /\ \A t \in Tabs : TabInv(t)
  /\ BitsAreFiles
  /\ NoUsersData

LEMMA Initially == Init => Inv
<1> SUFFICES ASSUME Init PROVE Inv
  OBVIOUS
<1>1. TypeOK
  <2>1. tab \in [Tabs -> Run] /\ \A t \in Tabs : tab[t].phase = "idle"
    BY IdleType DEF Init, Idle
  <2>2. \A t \in Tabs : lock = t <=> tab[t].phase \in Holding
    BY <2>1 DEF Init, Holding
  <2> QED
    BY <2>1, <2>2 DEF Init, TypeOK, Contents, NoMarker, Journal
<1>2. ASSUME NEW t \in Tabs PROVE TabInv(t)
  <2>1. tab[t].phase = "idle" /\ DOMAIN tab[t].writers = {} /\ tab[t].looked = 0
    BY DEF Init, Idle, Nothing
  <2>2. copy[t] /\ edits = 0
    BY DEF Init
  <2> QED
    BY <2>1, <2>2 DEF TabInv, Relies
<1>3. BitsAreFiles /\ NoUsersData
  BY DEF Init, BitsAreFiles, NoUsersData, NoMarker, Journal
<1> QED
  BY <1>1, <1>2, <1>3 DEF Inv

LEMMA EditTypes == TypeOK /\ Edit => TypeOK'
<1> SUFFICES ASSUME TypeOK, Edit PROVE TypeOK'
  OBVIOUS
<1>1. edits' \in 0 .. MaxEdits
  BY DEF TypeOK, Edit
<1>2. disk' \in [Files -> Contents] /\ stranger' \in BOOLEAN /\ touched' \subseteq Files
  <2>1. CASE stranger' = ~stranger /\ UNCHANGED <<disk, touched>>
    BY <2>1 DEF TypeOK
  <2>2. CASE /\ \E i \in Files, content \in {"absent", "users"} :
                  /\ disk' = [disk EXCEPT ![i] = content]
                  /\ touched' = touched \cup {i}
             /\ UNCHANGED stranger
    BY <2>2 DEF TypeOK, Contents
  <2> QED
    BY <2>1, <2>2 DEF Edit
<1> QED
  BY <1>1, <1>2 DEF TypeOK, Edit

\* Where the step of a tab leaves the folder and the counters.
LEMMA FolderTypes ==
  ASSUME TypeOK, NEW t \in Tabs,
         Save(t) \/ Acquire(t) \/ Work(t) \/ Faulty(t),
         At(t, "journal") => tab[t].at \in DOMAIN tab[t].writers
  PROVE  /\ disk' \in [Files -> Contents]
         /\ stranger' \in BOOLEAN
         /\ marker' \in [owner : Transfers \cup {"blank", None}, completed : SUBSET Files]
         /\ copy' \in [Tabs -> BOOLEAN]
         /\ touched' \subseteq Files
         /\ faults' \in 0 .. MaxFaults
         /\ edits' \in 0 .. MaxEdits
<1> DEFINE M == [owner : Transfers \cup {"blank", None}, completed : SUBSET Files]
           F == /\ disk' \in [Files -> Contents]
                /\ stranger' \in BOOLEAN
                /\ marker' \in M
                /\ copy' \in [Tabs -> BOOLEAN]
                /\ touched' \subseteq Files
                /\ faults' \in 0 .. MaxFaults
                /\ edits' \in 0 .. MaxEdits
<1>1. /\ Mine(t) \in Transfers
      /\ \A bits \in SUBSET Files : Journal(Mine(t), bits) \in M
      /\ NoMarker \in M /\ Ownerless \in M
  BY DEF Mine, Journal, NoMarker, Ownerless
<1>2. tab[t].completed \in SUBSET Files /\ DOMAIN tab[t].writers \in SUBSET Files
  BY RunFields DEF TypeOK
<1>3. Fault => faults' \in 0 .. MaxFaults
  BY DEF TypeOK, Fault
<1>4. CASE UNCHANGED <<disk, marker, copy, outside>> /\ (UNCHANGED faults \/ Fault)
  BY <1>4, <1>3 DEF TypeOK, outside
<1>5. CASE UNCHANGED <<disk, copy, faults, outside>>
           /\ \/ marker' \in {NoMarker, Ownerless}
              \/ \E bits \in SUBSET Files : marker' = Journal(Mine(t), bits)
  BY <1>5, <1>1 DEF TypeOK, outside
<1>6. CASE ClaimFails(t)
  BY <1>6, <1>1, <1>3 DEF TypeOK, ClaimFails, outside
<1>7. CASE \E i \in Files : CreateFile(t, i)
  BY <1>7 DEF TypeOK, CreateFile, outside, Contents
<1>8. CASE \E i \in Files : CloseFile(t, i)
  BY <1>8, <1>1 DEF TypeOK, CloseFile, Contents
<1>9. CASE Reclaim(t)
  BY <1>9 DEF TypeOK, Reclaim, outside
<1>10. CASE Record(t)
  <2>1. CASE marker' = marker
    BY <2>1, <1>10 DEF Record, TypeOK, outside
  <2>2. CASE marker' = Journal(Mine(t), tab[t].completed \cup {tab[t].at})
    <3>1. tab[t].completed \cup {tab[t].at} \in SUBSET Files
      BY <1>10, <1>2 DEF Record
    <3> QED
      BY <3>1, <2>2, <1>5, <1>10 DEF Record
  <2> QED
    BY <1>10, <2>1, <2>2 DEF Record
<1>11. CASE Unset(t)
  <2>1. tab[t].completed \ {tab[t].at} \in SUBSET Files
    BY <1>2
  <2> QED
    BY <2>1, <1>5, <1>11 DEF Unset
<1>12. CASE CreateMarker(t) \/ FillMarker(t) \/ Unmark(t)
  BY <1>12, <1>5 DEF CreateMarker, FillMarker, Unmark
<1>13. CASE Save(t) \/ Acquire(t) \/ OpenFolder(t) \/ Scan(t) \/ CheckSaved(t) \/ Reuse(t)
            \/ StartBatch(t) \/ Settle(t) \/ AllRecorded(t) \/ Lookup(t)
            \/ VerifyBatch(t) \/ Verified(t)
  BY <1>13, <1>4 DEF Save, Acquire, OpenFolder, Scan, CheckSaved, Reuse, StartBatch,
     Settle, AllRecorded, Lookup, VerifyBatch, Verified
<1>14. CASE Fail(t) \/ Die(t) \/ \E i \in Files : WriteFails(t, i)
  BY <1>14, <1>4 DEF Fail, Die, WriteFails
<1> QED
  BY <1>6, <1>7, <1>8, <1>9, <1>10, <1>11, <1>12, <1>13, <1>14 DEF Work, Faulty

LEMMA TypeStep ==
  ASSUME Inv, NEW t \in Tabs, Save(t) \/ Acquire(t) \/ Work(t) \/ Faulty(t)
  PROVE  TypeOK'
<1>1. At(t, "journal") => tab[t].at \in DOMAIN tab[t].writers
  BY DEF Inv, TabInv, Relies, At
<1>2. TypeTab'
  BY <1>1, TabStep DEF Inv
<1> QED
  BY <1>1, <1>2, FolderTypes DEF Inv, TypeOK, TypeTab


-----------------------------------------------------------------------------
(* Every step preserves the invariant.                                      *)

\* A step that leaves the folder alone concerns its own tab only.
LEMMA QuietStep ==
  ASSUME Inv, TypeOK', NEW t \in Tabs,
         \A u \in Tabs \ {t} : tab'[u] = tab[u] /\ copy'[u] = copy[u],
         UNCHANGED <<disk, marker, stranger, touched, edits>>,
         TabInv(t)'
  PROVE  Inv'
<1>1. ASSUME NEW u \in Tabs \ {t} PROVE TabInv(u)'
  BY DEF Inv, TabInv, Relies, OwnMarker, FolderEmpty, Exact, Mine, NoMarker, Ownerless, Journal
<1>2. BitsAreFiles' /\ NoUsersData'
  BY DEF Inv, BitsAreFiles, NoUsersData, NoMarker, Journal
<1> QED
  BY <1>1, <1>2 DEF Inv

\* A step that changes the folder is made by the holder of the lock; the other
\* tabs have nothing at stake but what they already saved.
LEMMA LoudStep ==
  ASSUME Inv, TypeOK', NEW t \in Tabs, lock = t,
         \A u \in Tabs \ {t} : tab'[u] = tab[u] /\ copy'[u] = copy[u],
         edits' = edits,
         \A u \in Tabs \ {t} : edits = 0 => ~(Exact(Mine(u)) /\ marker = NoMarker),
         BitsAreFiles', NoUsersData', TabInv(t)'
  PROVE  Inv'
<1>1. ASSUME NEW u \in Tabs \ {t} PROVE TabInv(u)'
  <2>1. tab[u].phase \notin Holding
    BY DEF Inv, TypeOK
  <2>2. \A i \in DOMAIN tab[u].writers : tab[u].writers[i] \notin {"opening", "open"}
    BY <2>1 DEF Inv, TabInv, Relies, Holding
  <2>3. tab[u].looked <= edits
    BY DEF Inv, TabInv, Relies
  <2>4. /\ edits = 0 => tab[u].phase \notin {"saved", "reclaimed"}
        /\ tab[u].phase = "reclaimed" \/ copy[u]
    BY DEF Inv, TabInv, Relies
  <2> QED
    BY <2>1, <2>2, <2>3, <2>4 DEF TabInv, Relies, Holding
<1> QED
  BY <1>1 DEF Inv

\* A quiet step of one tab, told by the state it gives the save.
LEMMA OwnStep ==
  ASSUME Inv, TypeOK', NEW t \in Tabs, NEW q, tab' = [tab EXCEPT ![t] = q],
         UNCHANGED <<disk, marker, copy, outside>>, Relies(t, q)
  PROVE  Inv'
<1>1. tab'[t] = q /\ \A u \in Tabs \ {t} : tab'[u] = tab[u]
  BY DEF Inv, TypeOK
<1>2. Relies(t, q)'
  BY DEF Relies, outside, OwnMarker, FolderEmpty, Exact, Mine, NoMarker, Ownerless, Journal
<1>3. TabInv(t)'
  BY <1>1, <1>2 DEF TabInv
<1> QED
  BY <1>1, <1>3, QuietStep DEF outside

\* A save that stops, refused or failed, relies on nothing.
LEMMA StopStep ==
  ASSUME Inv, TypeOK', NEW t \in Tabs, NEW p \in {"idle", "refused", "waiting"},
         copy[t], Goto(t, p),
         tab[t].phase # "writing",
         UNCHANGED <<disk, marker, copy, outside>>
  PROVE  Inv'
<1>1. tab[t] \in Run /\ tab \in [Tabs -> Run] /\ Relies(t, tab[t])
  BY DEF Inv, TypeOK, TabInv
<1> DEFINE q == [tab[t] EXCEPT !.phase = p]
<1>2. tab' = [tab EXCEPT ![t] = q]
  BY <1>1 DEF Goto
<1>3. q.phase = p /\ q.writers = tab[t].writers /\ q.looked = tab[t].looked
  BY <1>1 DEF Run
<1>4. Relies(t, q)
  <2> HIDE DEF q
  <2> QED
    BY <1>1, <1>3 DEF Relies
<1> QED
  BY <1>2, <1>4, OwnStep

\* Before it is reclaimed the tab holds its copy.
LEMMA CopyHeld ==
  ASSUME Inv, NEW t \in Tabs, tab[t].phase # "reclaimed"
  PROVE  copy[t]
  BY DEF Inv, TabInv, Relies

LEMMA TakingSteps ==
  ASSUME Inv, TypeOK', NEW t \in Tabs, Save(t) \/ Acquire(t) \/ OpenFolder(t) \/ Scan(t)
  PROVE  Inv'
<1> DEFINE r == tab[t]
<1>1. r \in Run /\ tab \in [Tabs -> Run] /\ Relies(t, r) /\ edits \in 0 .. MaxEdits
  BY DEF Inv, TypeOK, TabInv
<1>2. CASE Save(t)
  BY <1>2, StopStep DEF Save
<1>3. CASE Acquire(t)
  <2> DEFINE q == [Idle EXCEPT !.phase = "open", !.writers = r.writers]
  <2>1. /\ q.phase = "open" /\ q.writers = r.writers /\ q.looked = 0 /\ q.claimed = FALSE
        /\ q.completed = {}
        /\ r.phase = "waiting" /\ tab' = [tab EXCEPT ![t] = q]
    BY <1>3 DEF Idle, Acquire, At
  <2>2. Relies(t, q)
    <3> HIDE DEF q
    <3> QED
      BY <1>1, <2>1 DEF Relies
  <2> QED
    BY <1>3, <2>1, <2>2, OwnStep DEF Acquire
<1>4. CASE OpenFolder(t)
  <2>1. r.phase = "open" /\ UNCHANGED <<disk, marker, copy, outside>>
    BY <1>4 DEF OpenFolder, At
  <2>2. CASE /\ OwnMarker(t)
             /\ tab' = [tab EXCEPT ![t].phase = "scan", ![t].claimed = TRUE,
                                   ![t].completed = marker.completed]
    <3> DEFINE q == [r EXCEPT !.phase = "scan", !.claimed = TRUE, !.completed = marker.completed]
    <3>1. /\ q.phase = "scan" /\ q.writers = r.writers /\ q.looked = r.looked
          /\ q.claimed = TRUE /\ q.completed = marker.completed
          /\ tab' = [tab EXCEPT ![t] = q]
      BY <1>1, <2>2 DEF Run
    <3>2. Relies(t, q)
      <4> HIDE DEF q
      <4> QED
        BY <1>1, <2>1, <2>2, <3>1 DEF Relies
    <3> QED
      BY <3>1, <3>2, <2>1, OwnStep
  <2>3. CASE Leave(t, "refused")
    BY <2>1, <2>3, CopyHeld, StopStep DEF Leave
  <2>4. CASE /\ marker = NoMarker /\ FolderEmpty
             /\ tab' = [tab EXCEPT ![t].phase = "create", ![t].claimed = TRUE]
    <3> DEFINE q == [r EXCEPT !.phase = "create", !.claimed = TRUE]
    <3>1. /\ q.phase = "create" /\ q.writers = r.writers /\ q.looked = r.looked
          /\ q.claimed = TRUE /\ q.completed = r.completed
          /\ tab' = [tab EXCEPT ![t] = q]
      BY <1>1, <2>4 DEF Run
    <3>2. Relies(t, q)
      <4> HIDE DEF q
      <4> QED
        BY <1>1, <2>1, <2>4, <3>1 DEF Relies
    <3> QED
      BY <3>1, <3>2, <2>1, OwnStep
  <2>5. CASE marker = NoMarker /\ Goto(t, "lookup")
    <3> DEFINE q == [r EXCEPT !.phase = "lookup"]
    <3>1. /\ q.phase = "lookup" /\ q.writers = r.writers /\ q.looked = r.looked
          /\ q.claimed = r.claimed /\ tab' = [tab EXCEPT ![t] = q]
      BY <1>1, <2>5 DEF Run, Goto
    <3>2. Relies(t, q)
      <4> HIDE DEF q
      <4> QED
        BY <1>1, <2>1, <2>5, <3>1 DEF Relies
    <3> QED
      BY <3>1, <3>2, <2>1, OwnStep
  <2> QED
    BY <1>4, <2>2, <2>3, <2>4, <2>5 DEF OpenFolder
<1>5. CASE Scan(t)
  <2>1. r.phase = "scan" /\ UNCHANGED <<disk, marker, copy, outside>>
    BY <1>5 DEF Scan, At
  <2>2. CASE Leave(t, "refused")
    BY <2>1, <2>2, CopyHeld, StopStep DEF Leave
  <2>3. CASE Restart(t, "next")
    <3> DEFINE q == [r EXCEPT !.phase = "next", !.at = 1]
    <3>1. /\ q.phase = "next" /\ q.writers = r.writers /\ q.looked = r.looked
          /\ q.claimed = r.claimed /\ q.completed = r.completed
          /\ tab' = [tab EXCEPT ![t] = q]
      BY <1>1, <2>3 DEF Run, Restart
    <3>2. Relies(t, q)
      <4> HIDE DEF q
      <4> QED
        BY <1>1, <2>1, <3>1 DEF Relies
    <3> QED
      BY <3>1, <3>2, <2>1, OwnStep
  <2> QED
    BY <1>5, <2>2, <2>3 DEF Scan
<1> QED
  BY <1>2, <1>3, <1>4, <1>5

\* A step of the lock holder that changes the folder.
LEMMA FolderStep ==
  ASSUME Inv, TypeOK', NEW t \in Tabs, tab[t].phase \in Holding,
         NEW q, tab' = [tab EXCEPT ![t] = q], copy' = copy, edits' = edits,
         edits = 0 => marker # NoMarker \/ FolderEmpty,
         BitsAreFiles', NoUsersData', Relies(t, q)'
  PROVE  Inv'
<1>1. tab'[t] = q /\ \A u \in Tabs \ {t} : tab'[u] = tab[u]
  BY DEF Inv, TypeOK
<1>2. lock = t
  BY DEF Inv, TypeOK
<1>3. TabInv(t)'
  BY <1>1 DEF TabInv
<1>4. ASSUME NEW u \in Tabs PROVE edits = 0 => ~(Exact(Mine(u)) /\ marker = NoMarker)
  <2>1. Mine(u) \in Transfers /\ 1 \in Files
    BY DEF Mine, Files
  <2>2. FolderEmpty => ~Exact(Mine(u))
    BY <2>1 DEF FolderEmpty, Exact
  <2> QED
    BY <2>2
<1> QED
  BY <1>1, <1>2, <1>3, <1>4, LoudStep

LEMMA ClaimingSteps ==
  ASSUME Inv, TypeOK', NEW t \in Tabs, CreateMarker(t) \/ FillMarker(t) \/ ClaimFails(t)
  PROVE  Inv'
<1> DEFINE r == tab[t]
<1>1. r \in Run /\ tab \in [Tabs -> Run] /\ Relies(t, r)
  BY DEF Inv, TypeOK, TabInv
<1>2. /\ r.phase \in {"create", "fill"} /\ r.phase \in Holding
      /\ UNCHANGED <<disk, copy, outside>>
      /\ edits = 0 => FolderEmpty
      /\ r.claimed = TRUE
  BY <1>1 DEF CreateMarker, FillMarker, ClaimFails, At, Holding, Relies
<1>3. ASSUME marker'.completed = {} PROVE BitsAreFiles' /\ NoUsersData'
  BY <1>2, <1>3 DEF BitsAreFiles, NoUsersData, FolderEmpty, outside
<1>4. CASE CreateMarker(t)
  <2>0. PICK q : q = [r EXCEPT !.phase = "fill"]
    OBVIOUS
  <2>1. /\ q.phase = "fill" /\ q.writers = r.writers /\ q.looked = r.looked
        /\ q.claimed = r.claimed /\ q.completed = r.completed
        /\ tab' = [tab EXCEPT ![t] = q] /\ marker' = Ownerless /\ r.phase = "create"
    BY <1>1, <1>4, <2>0 DEF Run, CreateMarker, Goto, At
  <2>2. Relies(t, q)'
    BY <1>1, <1>2, <2>1 DEF Relies, outside, OwnMarker, FolderEmpty, Exact, Mine, NoMarker, Ownerless, Journal
  <2>3. marker'.completed = {}
    BY <2>1 DEF Ownerless, Journal
  <2> QED
    BY <1>2, <1>3, <2>1, <2>2, <2>3, FolderStep DEF outside
<1>5. CASE FillMarker(t)
  <2>0. PICK q : q = [r EXCEPT !.phase = "next", !.at = 1]
    OBVIOUS
  <2>1. /\ q.phase = "next" /\ q.writers = r.writers /\ q.looked = r.looked
        /\ q.claimed = r.claimed /\ q.completed = r.completed
        /\ tab' = [tab EXCEPT ![t] = q] /\ marker' = Journal(Mine(t), {}) /\ r.phase = "fill"
    BY <1>1, <1>5, <2>0 DEF Run, FillMarker, Restart, At
  <2>2. Relies(t, q)'
    BY <1>1, <1>2, <2>1 DEF Relies, outside, OwnMarker, FolderEmpty, Exact, Mine, NoMarker, Ownerless, Journal
  <2>3. marker'.completed = {}
    BY <2>1 DEF Journal
  <2> QED
    BY <1>2, <1>3, <2>1, <2>2, <2>3, FolderStep DEF outside
<1>6. CASE ClaimFails(t)
  <2>0. PICK q : q = [r EXCEPT !.phase = "idle"]
    OBVIOUS
  <2>1. /\ q.phase = "idle" /\ q.writers = r.writers /\ q.looked = r.looked
        /\ tab' = [tab EXCEPT ![t] = q] /\ marker' \in {marker, NoMarker}
    BY <1>1, <1>6, <2>0 DEF Run, ClaimFails, Leave, Goto
  <2>2. Relies(t, q)'
    BY <1>1, <1>2, <2>1 DEF Relies, outside, OwnMarker, FolderEmpty, Exact, Mine, NoMarker, Ownerless, Journal
  <2>3. marker'.completed = {}
    BY <1>1, <1>2, <2>1 DEF Relies, NoMarker, Ownerless, Journal
  <2> QED
    BY <1>2, <1>3, <2>1, <2>2, <2>3, FolderStep DEF outside
<1> QED
  BY <1>4, <1>5, <1>6

\* The steps of the loop that leave the folder alone.
LEMMA LoopSteps ==
  ASSUME Inv, TypeOK', NEW t \in Tabs,
         \/ CheckSaved(t) \/ Reuse(t) \/ StartBatch(t) \/ Settle(t) \/ AllRecorded(t)
         \/ \E i \in Files : WriteFails(t, i)
  PROVE  Inv'
<1> DEFINE r == tab[t]
<1>1. r \in Run /\ tab \in [Tabs -> Run] /\ Relies(t, r)
  BY DEF Inv, TypeOK, TabInv
<1>2. CASE CheckSaved(t)
  <2>0. PICK q : q = [r EXCEPT !.saved =
                        [i \in Batch(r.at, r.completed) |-> Matches(t, i)]]
    OBVIOUS
  <2>1. /\ q.phase = r.phase /\ q.writers = r.writers /\ q.looked = r.looked
        /\ q.claimed = r.claimed /\ q.completed = r.completed
        /\ tab' = [tab EXCEPT ![t] = q] /\ r.phase = "next"
    BY <1>1, <1>2, <2>0 DEF Run, CheckSaved, Next1, At
  <2>2. Relies(t, q)
    BY <1>1, <2>1 DEF Relies
  <2> QED
    BY <1>2, <2>1, <2>2, OwnStep DEF CheckSaved
<1>3. CASE Reuse(t)
  <2>0. PICK q : q = [r EXCEPT !.at = r.at + 1]
    OBVIOUS
  <2>1. /\ q.phase = r.phase /\ q.writers = r.writers /\ q.looked = r.looked
        /\ q.claimed = r.claimed /\ q.completed = r.completed
        /\ tab' = [tab EXCEPT ![t] = q] /\ r.phase = "next"
    BY <1>1, <1>3, <2>0 DEF Run, Reuse, Next1, At
  <2>2. Relies(t, q)
    BY <1>1, <2>1 DEF Relies
  <2> QED
    BY <1>3, <2>1, <2>2, OwnStep DEF Reuse
<1>4. CASE StartBatch(t)
  <2>0. PICK q : q = [r EXCEPT !.phase = "writing", !.writers =
                        [i \in Batch(r.at, Files \ r.completed) |-> "opening"]]
    OBVIOUS
  <2>1. /\ q.phase = "writing" /\ q.looked = r.looked /\ q.at = r.at
        /\ q.claimed = r.claimed /\ q.completed = r.completed
        /\ q.writers = [i \in Batch(r.at, Files \ r.completed) |-> "opening"]
        /\ tab' = [tab EXCEPT ![t] = q] /\ r.phase = "next" /\ r.at \in Files
    BY <1>1, <1>4, <2>0 DEF Run, StartBatch, Next1, At
  <2>2. r.at \in Batch(r.at, Files \ r.completed)
    BY <2>1 DEF Batch, Files
  <2>3. Relies(t, q)
    BY <1>1, <2>1, <2>2 DEF Relies
  <2> QED
    BY <1>4, <2>1, <2>3, OwnStep DEF StartBatch
<1>5. CASE Settle(t)
  <2>0. PICK q : q = [r EXCEPT !.phase = "journal"]
    OBVIOUS
  <2>1. /\ q.phase = "journal" /\ q.writers = r.writers /\ q.looked = r.looked
        /\ q.claimed = r.claimed /\ q.completed = r.completed /\ q.at = r.at
        /\ tab' = [tab EXCEPT ![t] = q] /\ r.phase = "writing"
    BY <1>1, <1>5, <2>0 DEF Run, Settle, Goto, At
  <2>2. \A i \in DOMAIN r.writers : r.writers[i] \notin {"opening", "open"}
    BY <1>5 DEF Settle, AllSettled, Settled
  <2>3. Relies(t, q)
    BY <1>1, <2>1, <2>2 DEF Relies
  <2> QED
    BY <1>5, <2>1, <2>3, OwnStep DEF Settle
<1>6. CASE AllRecorded(t)
  <2>0. PICK q : q = [r EXCEPT !.phase = "lookup", !.at = 1]
    OBVIOUS
  <2>1. /\ q.phase = "lookup" /\ q.writers = r.writers /\ q.looked = r.looked
        /\ q.claimed = r.claimed
        /\ tab' = [tab EXCEPT ![t] = q] /\ r.phase = "next"
    BY <1>1, <1>6, <2>0 DEF Run, AllRecorded, Restart, At
  <2>2. Relies(t, q)
    BY <1>1, <2>1 DEF Relies
  <2> QED
    BY <1>6, <2>1, <2>2, OwnStep DEF AllRecorded
<1>7. CASE \E i \in Files : WriteFails(t, i)
  <2>1. PICK i \in Files : WriteFails(t, i)
    BY <1>7
  <2>0. PICK q : q = [r EXCEPT !.writers[i] = "failed"]
    OBVIOUS
  <2>2. /\ q.phase = r.phase /\ q.looked = r.looked /\ q.at = r.at
        /\ q.claimed = r.claimed /\ q.completed = r.completed
        /\ q.writers = [r.writers EXCEPT ![i] = "failed"]
        /\ tab' = [tab EXCEPT ![t] = q]
        /\ i \in DOMAIN r.writers /\ r.writers[i] \in {"opening", "open"}
    BY <1>1, <2>0, <2>1 DEF Run, WriteFails, SetWriter, Writer
  <2>3. /\ DOMAIN q.writers = DOMAIN r.writers
        /\ \A j \in DOMAIN r.writers : q.writers[j] = IF j = i THEN "failed" ELSE r.writers[j]
    BY <2>2
  <2>4. r.phase = "writing"
    BY <1>1, <2>2 DEF Relies
  <2>5. Relies(t, q)
    BY <1>1, <2>2, <2>3, <2>4 DEF Relies
  <2> QED
    BY <2>1, <2>2, <2>5, OwnStep DEF WriteFails
<1> QED
  BY <1>2, <1>3, <1>4, <1>5, <1>6, <1>7

\* The steps of the loop that write: files first, their completion bits after.
LEMMA WritingSteps ==
  ASSUME Inv, TypeOK', NEW t \in Tabs,
         \E i \in Files : CreateFile(t, i) \/ CloseFile(t, i)
  PROVE  Inv'
<1> DEFINE r == tab[t]
<1>1. r \in Run /\ tab \in [Tabs -> Run] /\ Relies(t, r)
  BY DEF Inv, TypeOK, TabInv
<1>2. PICK i \in Files : CreateFile(t, i) \/ CloseFile(t, i)
  OBVIOUS
<1>3. i \in DOMAIN r.writers /\ r.writers[i] \in {"opening", "open"}
  BY <1>2 DEF CreateFile, CloseFile, Writer
<1>4. /\ r.phase = "writing" /\ r.phase \in Holding
      /\ OwnMarker(t) /\ r.claimed /\ r.completed = marker.completed
      /\ marker # NoMarker
      /\ r.at \in DOMAIN r.writers
  <2>1. r.phase = "writing"
    BY <1>1, <1>3 DEF Relies
  <2>2. OwnMarker(t) /\ r.claimed /\ r.completed = marker.completed /\ r.at \in DOMAIN r.writers
    BY <1>1, <2>1 DEF Relies
  <2>3. marker # NoMarker
    BY <2>2 DEF OwnMarker, NoMarker, Journal, Mine
  <2> QED
    BY <2>1, <2>2, <2>3 DEF Holding
<1>5. CASE CreateFile(t, i)
  <2>0. PICK q : q = [r EXCEPT !.writers[i] = "open"]
    OBVIOUS
  <2>1. /\ q.phase = "writing" /\ q.looked = r.looked /\ q.at = r.at
        /\ q.claimed = r.claimed /\ q.completed = r.completed
        /\ q.writers = [r.writers EXCEPT ![i] = "open"]
        /\ tab' = [tab EXCEPT ![t] = q]
        /\ r.writers[i] = "opening"
    BY <1>1, <1>4, <1>5, <2>0 DEF Run, CreateFile, SetWriter, Writer
  <2>2. /\ DOMAIN q.writers = DOMAIN r.writers
        /\ \A j \in DOMAIN r.writers : q.writers[j] = IF j = i THEN "open" ELSE r.writers[j]
    BY <1>3, <2>1
  <2>3. \A j \in Files : disk'[j] = IF j = i /\ disk[i] = "absent" THEN "blank" ELSE disk[j]
    BY <1>5 DEF CreateFile, Inv, TypeOK
  <2>4. UNCHANGED <<marker, copy, stranger, touched, edits>>
    BY <1>5 DEF CreateFile, outside
  <2>5. Mine(t) \in Transfers /\ "absent" \notin Transfers
    BY DEF Mine
  <2>6. DOMAIN r.writers \in SUBSET Files
    BY <1>1, RunFields
  <2>7. Relies(t, q)'
    BY <1>1, <1>4, <2>1, <2>2, <2>3, <2>4, <2>5, <2>6 DEF Relies, OwnMarker, Mine
  <2>8. BitsAreFiles'
    <3> SUFFICES ASSUME NEW j \in marker.completed \ touched
                 PROVE  disk'[j] = marker.owner
      BY <2>4 DEF BitsAreFiles
    <3>1. j \in Files /\ disk[j] = marker.owner /\ marker.owner \in Transfers
      BY <1>4, <2>5 DEF Inv, BitsAreFiles, TypeOK, OwnMarker
    <3> QED
      BY <3>1, <2>3
  <2>9. NoUsersData'
    BY <2>3, <2>4 DEF Inv, NoUsersData
  <2> QED
    BY <1>4, <2>1, <2>4, <2>7, <2>8, <2>9, FolderStep
<1>6. CASE CloseFile(t, i)
  <2>0. PICK q : q = [r EXCEPT !.writers[i] = "closed"]
    OBVIOUS
  <2>1. /\ q.phase = "writing" /\ q.looked = r.looked /\ q.at = r.at
        /\ q.claimed = r.claimed /\ q.completed = r.completed
        /\ q.writers = [r.writers EXCEPT ![i] = "closed"]
        /\ tab' = [tab EXCEPT ![t] = q]
    BY <1>1, <1>4, <1>6, <2>0 DEF Run, CloseFile, SetWriter
  <2>2. /\ DOMAIN q.writers = DOMAIN r.writers
        /\ \A j \in DOMAIN r.writers : q.writers[j] = IF j = i THEN "closed" ELSE r.writers[j]
    BY <1>3, <2>1
  <2>3. \A j \in Files : disk'[j] = IF j = i THEN Mine(t) ELSE disk[j]
    BY <1>6 DEF CloseFile, Inv, TypeOK
  <2>4. UNCHANGED <<marker, copy, stranger, edits>> /\ touched' = touched \ {i}
    BY <1>6 DEF CloseFile
  <2>5. Mine(t) \in Transfers /\ "users" \notin Transfers
    BY DEF Mine
  <2>6. DOMAIN r.writers \in SUBSET Files
    BY <1>1, RunFields
  <2>7. Relies(t, q)'
    BY <1>1, <1>4, <2>1, <2>2, <2>3, <2>4, <2>5, <2>6 DEF Relies, OwnMarker, Mine
  <2>8. BitsAreFiles'
    <3> SUFFICES ASSUME NEW j \in marker.completed \ (touched \ {i})
                 PROVE  disk'[j] = marker.owner
      BY <2>4 DEF BitsAreFiles
    <3>1. j \in Files /\ marker.owner = Mine(t)
      BY <1>4 DEF Inv, TypeOK, OwnMarker
    <3>2. j # i => disk[j] = marker.owner
      BY DEF Inv, BitsAreFiles
    <3> QED
      BY <3>1, <3>2, <2>3
  <2>9. NoUsersData'
    BY <2>3, <2>4, <2>5 DEF Inv, NoUsersData
  <2> QED
    BY <1>4, <2>1, <2>4, <2>7, <2>8, <2>9, FolderStep
<1> QED
  BY <1>2, <1>5, <1>6

LEMMA JournalSteps ==
  ASSUME Inv, TypeOK', NEW t \in Tabs, Unset(t) \/ Record(t)
  PROVE  Inv'
<1> DEFINE r == tab[t]
<1>1. r \in Run /\ tab \in [Tabs -> Run] /\ Relies(t, r)
  BY DEF Inv, TypeOK, TabInv
<1>2. /\ r.phase \in {"next", "journal"} /\ r.phase \in Holding
      /\ OwnMarker(t) /\ r.claimed /\ r.completed = marker.completed
      /\ marker # NoMarker
      /\ r.completed \in SUBSET Files
  <2>1. r.phase \in {"next", "journal"}
    BY DEF Unset, Record, Next1, At
  <2>2. OwnMarker(t) /\ r.claimed /\ r.completed = marker.completed
    BY <1>1, <2>1 DEF Relies
  <2>3. marker # NoMarker
    BY <2>2 DEF OwnMarker, NoMarker, Journal, Mine
  <2> QED
    BY <1>1, <2>1, <2>2, <2>3, RunFields DEF Holding
<1>3. ASSUME NEW bits \in SUBSET Files, marker' = Journal(Mine(t), bits),
             UNCHANGED <<disk, outside>>,
             \A j \in bits \ r.completed : j \in touched \/ disk[j] = Mine(t)
      PROVE  BitsAreFiles' /\ NoUsersData' /\ OwnMarker(t)' /\ marker'.completed = bits
  <2>1. \A j \in r.completed \ touched : disk[j] = Mine(t)
    BY <1>2 DEF Inv, BitsAreFiles, OwnMarker
  <2>2. \A i \in Files : edits = 0 => disk[i] # "users"
    BY <1>2 DEF Inv, NoUsersData
  <2>3. marker'.owner = Mine(t) /\ marker'.completed = bits
    BY <1>3 DEF Journal
  <2> QED
    BY <1>3, <2>1, <2>2, <2>3 DEF BitsAreFiles, NoUsersData, OwnMarker, outside, Mine
<1>4. CASE Unset(t)
  <2>0. PICK q : q = [r EXCEPT !.completed = r.completed \ {r.at}]
    OBVIOUS
  <2>1. /\ q.phase = "next" /\ q.writers = r.writers /\ q.looked = r.looked
        /\ q.claimed = r.claimed /\ q.completed = r.completed \ {r.at}
        /\ tab' = [tab EXCEPT ![t] = q] /\ r.phase = "next"
    BY <1>1, <1>4, <2>0 DEF Run, Unset, Next1, At
  <2>2. UNCHANGED <<disk, copy, outside>> /\ marker' = Journal(Mine(t), r.completed \ {r.at})
    BY <1>4 DEF Unset
  <2>3. r.completed \ {r.at} \in SUBSET Files
    BY <1>2
  <2>4. BitsAreFiles' /\ NoUsersData' /\ OwnMarker(t)' /\ marker'.completed = q.completed
    BY <1>3, <2>1, <2>2, <2>3
  <2>5. Relies(t, q)'
    BY <1>1, <1>2, <2>1, <2>2, <2>4 DEF Relies, outside
  <2> QED
    BY <1>2, <2>1, <2>2, <2>4, <2>5, FolderStep DEF outside
<1>5. CASE Record(t) /\ r.writers[r.at] = "failed"
  BY <1>2, <1>5, CopyHeld, StopStep DEF Record, Leave, At
<1>6. CASE Record(t) /\ r.writers[r.at] # "failed"
  <2>0. PICK q : q = [r EXCEPT !.completed = r.completed \cup {r.at}, !.at = r.at + 1,
                        !.phase = IF r.at + 1 \in DOMAIN r.writers THEN "journal" ELSE "next"]
    OBVIOUS
  <2>1. /\ q.phase = IF r.at + 1 \in DOMAIN r.writers THEN "journal" ELSE "next"
        /\ q.at = r.at + 1
        /\ q.writers = r.writers /\ q.looked = r.looked
        /\ q.claimed = r.claimed /\ q.completed = r.completed \cup {r.at}
        /\ tab' = [tab EXCEPT ![t] = q] /\ r.phase = "journal"
    BY <1>1, <1>6, <2>0 DEF Run, Record, At
  <2>2. /\ UNCHANGED <<disk, copy, outside>>
        /\ marker' = Journal(Mine(t), r.completed \cup {r.at})
    BY <1>6 DEF Record
  <2>3. r.at \in DOMAIN r.writers /\ DOMAIN r.writers \in SUBSET Files
        /\ r.writers[r.at] \in {"opening", "open", "closed", "failed"}
    BY <1>1, <2>1, RunFields DEF Relies
  <2>4. r.at \in touched \/ disk[r.at] = Mine(t)
    BY <1>1, <1>6, <2>1, <2>3 DEF Relies
  <2>5. r.completed \cup {r.at} \in SUBSET Files
    BY <1>2, <2>3
  <2>6. BitsAreFiles' /\ NoUsersData' /\ OwnMarker(t)' /\ marker'.completed = q.completed
    BY <1>3, <2>1, <2>2, <2>4, <2>5
  <2>7. Relies(t, q)'
    BY <1>1, <1>2, <2>1, <2>2, <2>6 DEF Relies, outside, Mine
  <2> QED
    BY <1>2, <2>1, <2>2, <2>6, <2>7, FolderStep DEF outside
<1> QED
  BY <1>4, <1>5, <1>6

\* A verification that finds a difference relies on nothing further.
LEMMA RejectStep ==
  ASSUME Inv, TypeOK', NEW t \in Tabs, tab[t].phase \in {"lookup", "verify"}, Rejected(t),
         UNCHANGED <<disk, marker, copy, outside>>
  PROVE  Inv'
<1>1. copy[t] /\ tab[t].phase # "writing"
  BY CopyHeld
<1>2. \E p \in {"idle", "refused"} : Goto(t, p)
  BY DEF Rejected, Leave
<1> QED
  BY <1>1, <1>2, StopStep

LEMMA VerifyingSteps ==
  ASSUME Inv, TypeOK', NEW t \in Tabs,
         Lookup(t) \/ VerifyBatch(t) \/ Verified(t)
  PROVE  Inv'
<1> DEFINE r == tab[t]
<1>1. /\ r \in Run /\ tab \in [Tabs -> Run] /\ Relies(t, r)
      /\ edits \in 0 .. MaxEdits /\ r.at \in 1 .. NumFiles + 1 /\ r.looked \in 0 .. MaxEdits
  BY RunFields DEF Inv, TypeOK, TabInv
<1>2. r.phase \in {"lookup", "verify"} /\ UNCHANGED <<disk, marker, copy, outside>>
  BY DEF Lookup, VerifyBatch, Verified, At
<1>3. CASE Rejected(t)
  BY <1>2, <1>3, RejectStep
<1>4. CASE Lookup(t) /\ ~Rejected(t)
  <2>0. PICK q : q = [r EXCEPT !.phase = "verify", !.at = 1, !.looked = edits]
    OBVIOUS
  <2>1. /\ q.phase = "verify" /\ q.writers = r.writers /\ q.looked = edits /\ q.at = 1
        /\ q.claimed = r.claimed
        /\ tab' = [tab EXCEPT ![t] = q] /\ r.phase = "lookup" /\ ~stranger
    BY <1>1, <1>4, <2>0 DEF Run, Lookup, At
  <2>2. Relies(t, q)
    BY <1>1, <2>1 DEF Relies, Files
  <2> QED
    BY <1>2, <2>1, <2>2, OwnStep
<1>5. CASE VerifyBatch(t) /\ ~Rejected(t)
  <2>1. PICK end \in 2 .. NumFiles + 1 : /\ Batch(r.at, Files) = r.at .. end - 1
                                         /\ tab' = [tab EXCEPT ![t].at = end]
                                         /\ \A i \in Batch(r.at, Files) : disk[i] = Mine(t)
    BY <1>5 DEF VerifyBatch, Matches
  <2>0. PICK q : q = [r EXCEPT !.at = end]
    OBVIOUS
  <2>2. /\ q.phase = "verify" /\ q.writers = r.writers /\ q.looked = r.looked /\ q.at = end
        /\ q.claimed = r.claimed
        /\ tab' = [tab EXCEPT ![t] = q] /\ r.phase = "verify"
    BY <1>1, <1>5, <2>0, <2>1 DEF Run, VerifyBatch, At
  <2>3. \A i \in r.at .. end - 1 : disk[i] = Mine(t)
    BY <2>1
  <2>4. Relies(t, q)
    BY <1>1, <2>1, <2>2, <2>3 DEF Relies, Files
  <2> QED
    BY <1>2, <2>2, <2>4, OwnStep
<1>6. CASE Verified(t)
  <2>1. r.phase = "verify" /\ r.at = NumFiles + 1
    BY <1>1, <1>6 DEF Verified, At, Files
  <2>2. r.looked = edits => Exact(Mine(t))
    BY <1>1, <2>1 DEF Relies, Exact, Files
  <2>3. PICK p \in {"unmark", "saved"} : Goto(t, p) /\ (p = "unmark" <=> r.claimed)
    BY <1>1, <1>6 DEF Verified, Leave, Run
  <2>0. PICK q : q = [r EXCEPT !.phase = p]
    OBVIOUS
  <2>4. /\ q.phase = p /\ q.writers = r.writers /\ q.looked = r.looked
        /\ q.claimed = r.claimed
        /\ tab' = [tab EXCEPT ![t] = q]
    BY <1>1, <2>0, <2>3 DEF Run, Goto
  <2>5. edits = 0 => r.looked = edits
    BY <1>1 DEF Relies
  <2>6. Relies(t, q)
    BY <1>1, <2>1, <2>2, <2>3, <2>4, <2>5 DEF Relies
  <2> QED
    BY <1>2, <2>4, <2>6, OwnStep
<1> QED
  BY <1>3, <1>4, <1>5, <1>6

\* The marker goes last, and the temporary copy after it.
LEMMA EndingSteps ==
  ASSUME Inv, TypeOK', NEW t \in Tabs, Unmark(t) \/ Reclaim(t)
  PROVE  Inv'
<1> DEFINE r == tab[t]
<1>1. /\ r \in Run /\ tab \in [Tabs -> Run] /\ Relies(t, r)
      /\ edits \in 0 .. MaxEdits /\ r.looked \in 0 .. MaxEdits
  BY RunFields DEF Inv, TypeOK, TabInv
<1>2. CASE Unmark(t)
  <2>0. PICK q : q = [r EXCEPT !.phase = "saved"]
    OBVIOUS
  <2>1. /\ q.phase = "saved" /\ q.writers = r.writers /\ q.looked = r.looked
        /\ tab' = [tab EXCEPT ![t] = q] /\ r.phase = "unmark" /\ r.phase \in Holding
    BY <1>1, <1>2, <2>0 DEF Run, Unmark, Leave, Goto, At, Holding
  <2>2. OwnMarker(t) /\ marker # NoMarker
    BY <1>1, <2>1 DEF Relies, OwnMarker, NoMarker, Journal, Mine
  <2>3. edits = 0 => Exact(Mine(t))
    BY <1>1, <2>1 DEF Relies
  <2>4. UNCHANGED <<disk, copy, outside>> /\ marker' = NoMarker
    BY <1>2 DEF Unmark
  <2>5. Relies(t, q)'
    BY <1>1, <2>1, <2>3, <2>4 DEF Relies, outside, Exact, Mine, NoMarker, Journal
  <2>6. BitsAreFiles' /\ NoUsersData'
    BY <2>4 DEF BitsAreFiles, NoUsersData, NoMarker, Journal
  <2> QED
    BY <2>1, <2>2, <2>4, <2>5, <2>6, FolderStep DEF outside
<1>3. CASE Reclaim(t)
  <2>0. PICK q : q = [r EXCEPT !.phase = "reclaimed"]
    OBVIOUS
  <2>1. /\ q.phase = "reclaimed" /\ q.writers = r.writers /\ q.looked = r.looked
        /\ tab' = [tab EXCEPT ![t] = q] /\ r.phase = "saved"
    BY <1>1, <1>3, <2>0 DEF Run, Reclaim, Goto, At
  <2>2. UNCHANGED <<disk, marker, stranger, touched, edits>>
        /\ copy' = [copy EXCEPT ![t] = FALSE]
    BY <1>3 DEF Reclaim, outside
  <2>3. tab'[t] = q /\ \A u \in Tabs \ {t} : tab'[u] = tab[u] /\ copy'[u] = copy[u]
    BY <1>1, <2>1, <2>2 DEF Inv, TypeOK
  <2>4. Relies(t, q)'
    BY <1>1, <2>1, <2>2 DEF Relies, Exact, Mine, NoMarker, Journal
  <2>5. TabInv(t)'
    BY <2>3, <2>4 DEF TabInv
  <2> QED
    BY <2>2, <2>3, <2>5, QuietStep
<1> QED
  BY <1>2, <1>3

LEMMA FailingSteps ==
  ASSUME Inv, TypeOK', NEW t \in Tabs, Fail(t) \/ Die(t)
  PROVE  Inv'
<1>1. UNCHANGED <<disk, marker, copy, outside>>
  BY DEF Fail, Die
<1>2. CASE Fail(t)
  <2>1. tab[t].phase # "reclaimed" /\ tab[t].phase # "writing"
    BY <1>2 DEF Fail
  <2>2. CASE Leave(t, "idle")
    BY <1>1, <2>1, <2>2, CopyHeld, StopStep DEF Leave
  <2>3. CASE tab[t].phase \in {"lookup", "verify"} /\ Rejected(t)
    BY <1>1, <2>3, RejectStep
  <2> QED
    BY <1>2, <2>2, <2>3 DEF Fail
<1>3. CASE Die(t)
  <2>1. /\ Idle.phase = "idle" /\ Idle.looked = 0 /\ DOMAIN Idle.writers = {}
        /\ edits \in 0 .. MaxEdits
    BY DEF Idle, Nothing, Inv, TypeOK
  <2>2. Relies(t, Idle)
    BY <1>3, <2>1 DEF Relies, Die
  <2> QED
    BY <1>1, <1>3, <2>2, OwnStep DEF Die
<1> QED
  BY <1>2, <1>3

\* What a save may rely on tolerates any change made outside the browser.
LEMMA EditStep ==
  ASSUME Inv, Edit
  PROVE  Inv'
<1>1. TypeOK'
  BY EditTypes DEF Inv
<1>2. /\ edits \in 0 .. MaxEdits /\ edits' = edits + 1 /\ edits' # 0
      /\ UNCHANGED <<marker, lock, tab, copy>>
  BY DEF Inv, TypeOK, Edit
<1>3. \A i \in Files : i \in touched' \/ (i \notin touched /\ disk'[i] = disk[i])
  <2>1. CASE UNCHANGED <<disk, touched>>
    BY <2>1
  <2>2. CASE \E i \in Files, content \in {"absent", "users"} :
               disk' = [disk EXCEPT ![i] = content] /\ touched' = touched \cup {i}
    BY <2>2 DEF Inv, TypeOK
  <2> QED
    BY <2>1, <2>2 DEF Edit
<1>4. touched \subseteq touched'
  BY DEF Edit
<1>5. ASSUME NEW t \in Tabs PROVE TabInv(t)'
  <2>1. /\ tab[t] \in Run /\ Relies(t, tab[t]) /\ tab[t].looked \in 0 .. MaxEdits
        /\ DOMAIN tab[t].writers \in SUBSET Files
    BY RunFields DEF Inv, TypeOK, TabInv
  <2>2. tab[t].looked < edits'
    BY <1>2, <2>1 DEF Relies
  <2>3. \A i \in DOMAIN tab[t].writers :
          i \in touched \/ disk[i] = Mine(t) => i \in touched' \/ disk'[i] = Mine(t)
    BY <1>3, <1>4, <2>1
  <2> QED
    BY <1>2, <2>1, <2>2, <2>3 DEF TabInv, Relies, OwnMarker, Mine, NoMarker, Ownerless, Journal
<1>6. BitsAreFiles'
  <2> SUFFICES ASSUME NEW i \in marker.completed \ touched' PROVE disk'[i] = marker.owner
    BY <1>2 DEF BitsAreFiles
  <2>1. i \in Files /\ i \notin touched
    BY <1>4 DEF Inv, TypeOK
  <2> QED
    BY <1>3, <2>1 DEF Inv, BitsAreFiles
<1>7. NoUsersData'
  BY <1>2 DEF NoUsersData
<1> QED
  BY <1>1, <1>5, <1>6, <1>7 DEF Inv

LEMMA Preserved == Inv /\ [Next]_vars => Inv'
<1>1. ASSUME Inv, UNCHANGED vars PROVE Inv'
  <2>1. TypeOK' /\ BitsAreFiles' /\ NoUsersData'
    BY <1>1 DEF vars, Inv, TypeOK, BitsAreFiles, NoUsersData
  <2>2. \A t \in Tabs : TabInv(t)'
    BY <1>1 DEF vars, Inv, TabInv, Relies, OwnMarker, FolderEmpty, Exact, Mine
  <2> QED
    BY <2>1, <2>2 DEF Inv
<1>2. ASSUME Inv, Edit PROVE Inv'
  BY <1>2, EditStep
<1>3. ASSUME Inv, NEW t \in Tabs, Save(t) \/ Acquire(t) \/ Work(t) \/ Faulty(t)
      PROVE  Inv'
  <2>1. TypeOK'
    BY <1>3, TypeStep
  <2> QED
    BY <1>3, <2>1, TakingSteps, ClaimingSteps, LoopSteps, WritingSteps, JournalSteps,
       VerifyingSteps, EndingSteps, FailingSteps DEF Work, Faulty
<1> QED
  BY <1>1, <1>2, <1>3 DEF Next

-----------------------------------------------------------------------------
(* The theorems.                                                            *)

LEMMA Invariance == Spec => []Inv
  BY Initially, Preserved, PTL DEF Spec

(* Every variable stays in its type, the lock is held by exactly the tab    *)
(* whose save is under way, for any number of tabs (the Web Lock around     *)
(* writeLargeTreeToDirectory).                                              *)
THEOREM TypeCorrect == Spec => []TypeOK
  BY Invariance, PTL DEF Inv

(* The durable completion bits of writeLargeTreeToDirectory stand for whole *)
(* files of their own transfer through every crash, failed batch and retry. *)
THEOREM CompletionBitsAreFiles == Spec => []BitsAreFiles
  BY Invariance, PTL DEF Inv

(* The temporary copy is discarded only over a complete saved tree          *)
(* (save in WebRtcReceiver.tsx), whatever the other tabs do.                *)
THEOREM CopiesAreNeverLost == Spec => []NothingLost
<1>1. ASSUME Inv PROVE NothingLost
  <2>1. \A t \in Tabs : copy[t] \/ (edits = 0 => Exact(Mine(t)) /\ marker = NoMarker)
    BY <1>1 DEF Inv, TabInv, Relies
  <2> QED
    BY <2>1 DEF NothingLost
<1> QED
  BY <1>1, Invariance, PTL

-----------------------------------------------------------------------------
(* What a step may never do.                                                *)

\* Only the two steps of a running batch touch the files.
LEMMA OnlyWritersWrite ==
  ASSUME Inv, [Next]_vars, edits' = edits, NEW i \in Files, disk'[i] # disk[i]
  PROVE  \E t \in Tabs : CreateFile(t, i) \/ CloseFile(t, i)
<1>1. PICK t \in Tabs : Save(t) \/ Acquire(t) \/ Work(t) \/ Faulty(t)
  <2>1. ~Edit
    BY DEF Edit, Inv, TypeOK
  <2> QED
    BY <2>1 DEF Next, vars
<1>2. PICK j \in Files : CreateFile(t, j) \/ CloseFile(t, j)
  <2>1. disk' # disk
    OBVIOUS
  <2> QED
    BY <1>1, <2>1 DEF Work, Faulty, Save, Acquire, OpenFolder, CreateMarker, FillMarker, Scan,
       CheckSaved, Reuse, Unset, StartBatch, Settle, Record, AllRecorded, Lookup, VerifyBatch,
       Verified, Unmark, Reclaim, ClaimFails, Fail, Die, WriteFails
<1>3. i = j
  BY <1>2 DEF CreateFile, CloseFile, Inv, TypeOK
<1> QED
  BY <1>2, <1>3

\* Where a writer stands while its file is written.
LEMMA WriterStands ==
  ASSUME Inv, NEW t \in Tabs, NEW i \in Files, CreateFile(t, i) \/ CloseFile(t, i)
  PROVE  /\ lock = t
         /\ OwnMarker(t)
         /\ i \in DOMAIN tab[t].writers
         /\ tab'[t].writers # tab[t].writers
<1>1. tab \in [Tabs -> Run] /\ tab[t] \in Run /\ Relies(t, tab[t])
  BY DEF Inv, TypeOK, TabInv
<1>2. i \in DOMAIN tab[t].writers /\ tab[t].writers[i] \in {"opening", "open"}
  BY DEF CreateFile, CloseFile, Writer
<1>3. tab[t].phase = "writing"
  BY <1>1, <1>2 DEF Relies
<1>4. OwnMarker(t) /\ lock = t
  BY <1>1, <1>3 DEF Relies, Inv, TypeOK, Holding
<1>5. PICK s : SetWriter(t, i, s) /\ s # tab[t].writers[i]
  BY DEF CreateFile, CloseFile, Writer
<1>6. tab'[t].writers = [tab[t].writers EXCEPT ![i] = s]
  BY <1>1, <1>5 DEF SetWriter, Run
<1>7. tab'[t].writers[i] = s
  BY <1>2, <1>6
<1> QED
  BY <1>2, <1>4, <1>5, <1>7

(* Every write of writeOneFile falls inside the lock and the claim of its   *)
(* own save, for any number of tabs and any batching.                       *)
THEOREM WritesFallUnderClaims == Spec => WritesUnderClaim
<1>1. ASSUME Inv, [Next]_vars
      PROVE  \A i \in Files : disk'[i] # disk[i] /\ edits' = edits =>
               \E t \in Tabs : /\ i \in DOMAIN tab[t].writers
                               /\ tab'[t].writers # tab[t].writers
                               /\ lock = t
                               /\ OwnMarker(t)
  BY <1>1, OnlyWritersWrite, WriterStands
<1> QED
  BY <1>1, Invariance, PTL DEF Spec, WritesUnderClaim

(* No file of the user is overwritten by a save: a folder that held one is  *)
(* never claimed (the isDirectoryEmpty check and the refusal after it).     *)
THEOREM UsersFilesAreKept == Spec => UsersDataKept
<1>1. ASSUME Inv, [Next]_vars
      PROVE  edits' = 0 => \A i \in Files : disk[i] = "users" => disk'[i] = "users"
  <2> SUFFICES ASSUME edits' = 0, NEW i \in Files, disk[i] = "users", disk'[i] # "users"
               PROVE  FALSE
    OBVIOUS
  <2>1. edits' = edits
    <3>1. ~Edit
      BY <1>1 DEF Edit, Inv, TypeOK
    <3>2. UNCHANGED vars \/ \E t \in Tabs : Save(t) \/ Acquire(t) \/ Work(t) \/ Faulty(t)
      BY <1>1, <3>1 DEF Next
    <3>3. \A t \in Tabs : Save(t) \/ Acquire(t) => edits' = edits
      BY DEF Save, Acquire, outside
    <3>4. \A t \in Tabs : Faulty(t) => edits' = edits
      BY DEF Faulty, ClaimFails, Fail, Die, WriteFails, outside
    <3>5. ASSUME NEW t \in Tabs, Work(t)
          PROVE  edits' = edits
      <4>1. CASE OpenFolder(t) \/ CreateMarker(t) \/ FillMarker(t) \/ Scan(t) \/ CheckSaved(t)
        BY <4>1 DEF OpenFolder, CreateMarker, FillMarker, Scan, CheckSaved, outside
      <4>2. CASE Reuse(t) \/ Unset(t) \/ StartBatch(t) \/ Settle(t) \/ Record(t) \/ AllRecorded(t)
        BY <4>2 DEF Reuse, Unset, StartBatch, Settle, Record, AllRecorded, outside
      <4>3. CASE Lookup(t) \/ VerifyBatch(t) \/ Verified(t) \/ Unmark(t) \/ Reclaim(t)
        BY <4>3 DEF Lookup, VerifyBatch, Verified, Unmark, Reclaim, outside
      <4>4. CASE \E j \in Files : CreateFile(t, j) \/ CloseFile(t, j)
        <5>1. PICK j \in Files : CreateFile(t, j) \/ CloseFile(t, j)
          BY <4>4
        <5> QED
          BY <5>1 DEF CreateFile, CloseFile, outside
      <4> QED
        BY <3>5, <4>1, <4>2, <4>3, <4>4 DEF Work
    <3> QED
      BY <3>2, <3>3, <3>4, <3>5 DEF vars
  <2>2. PICK t \in Tabs : CreateFile(t, i) \/ CloseFile(t, i)
    BY <1>1, <2>1, OnlyWritersWrite
  <2>3. OwnMarker(t)
    BY <1>1, <2>2, WriterStands
  <2>4. marker # NoMarker
    BY <2>3 DEF OwnMarker, NoMarker, Journal, Mine
  <2> QED
    BY <1>1, <2>1, <2>4 DEF Inv, NoUsersData
<1> QED
  BY <1>1, Invariance, PTL DEF Spec, UsersDataKept

\* A save succeeds in two ways.
LEMMA SuccessSteps ==
  ASSUME Inv, NEW t \in Tabs, NEW u \in Tabs, Save(u) \/ Acquire(u) \/ Work(u) \/ Faulty(u),
         tab[t].phase # "saved", tab'[t].phase = "saved"
  PROVE  t = u /\ (Verified(t) \/ Unmark(t))
<1> DEFINE r == tab[u]
<1>1. tab \in [Tabs -> Run] /\ r \in Run
  BY DEF Inv, TypeOK
<1>2. \A q : tab' = [tab EXCEPT ![u] = q] => t = u /\ q.phase = "saved"
  BY <1>1
<1>3. \A p : p # "saved" => ~Goto(u, p) /\ ~Restart(u, p) /\ ~Leave(u, p)
  <2>1. \A p : p # "saved" => ~Goto(u, p)
    <3>1. \A p : [r EXCEPT !.phase = p].phase = p
      BY <1>1 DEF Run
    <3>2. \A p : Goto(u, p) => tab' = [tab EXCEPT ![u] = [r EXCEPT !.phase = p]]
      BY <1>1 DEF Goto
    <3> QED
      BY <1>2, <3>1, <3>2
  <2>2. \A p : p # "saved" => ~Restart(u, p)
    <3>1. \A p : [r EXCEPT !.phase = p, !.at = 1].phase = p
      BY <1>1 DEF Run
    <3>2. \A p : Restart(u, p) => tab' = [tab EXCEPT ![u] = [r EXCEPT !.phase = p, !.at = 1]]
      BY <1>1 DEF Restart
    <3> QED
      BY <1>2, <3>1, <3>2
  <2> QED
    BY <2>1, <2>2 DEF Leave
<1>4. ~Rejected(u)
  BY <1>3 DEF Rejected
<1>5. ~Save(u) /\ ~CreateMarker(u) /\ ~FillMarker(u) /\ ~Scan(u) /\ ~Settle(u)
      /\ ~AllRecorded(u) /\ ~Reclaim(u) /\ ~ClaimFails(u) /\ ~Fail(u)
  BY <1>3, <1>4 DEF Save, CreateMarker, FillMarker, Scan, Settle, AllRecorded, Reclaim,
     ClaimFails, Fail
<1>6. ~Acquire(u) /\ ~Die(u)
  BY <1>1, <1>2 DEF Acquire, Die, Idle
<1>7. ~OpenFolder(u)
  BY <1>1, <1>2, <1>3 DEF OpenFolder, Run
<1>8. ~CheckSaved(u) /\ ~Reuse(u) /\ ~Unset(u) /\ ~StartBatch(u)
  BY <1>1, <1>2 DEF CheckSaved, Reuse, Unset, StartBatch, Next1, At, Run
<1>9. \A i \in Files : ~CreateFile(u, i) /\ ~CloseFile(u, i) /\ ~WriteFails(u, i)
  <2>1. \A i, s : SetWriter(u, i, s) => t = u /\ tab'[t].phase = tab[t].phase
    BY <1>1 DEF SetWriter, Run
  <2> QED
    BY <2>1 DEF CreateFile, CloseFile, WriteFails
<1>10. ~Record(u)
  <2>1. CASE Leave(u, "idle")
    BY <2>1, <1>3
  <2>2. ASSUME tab' = [tab EXCEPT ![u].completed = r.completed \cup {r.at}, ![u].at = r.at + 1,
                 ![u].phase = IF r.at + 1 \in DOMAIN r.writers THEN "journal" ELSE "next"]
        PROVE  FALSE
    <3>1. PICK p \in {"journal", "next"} :
            tab' = [tab EXCEPT ![u] = [r EXCEPT !.completed = r.completed \cup {r.at},
                                                !.at = r.at + 1, !.phase = p]]
      BY <1>1, <2>2
    <3> QED
      BY <1>1, <1>2, <3>1 DEF Run
  <2> QED
    BY <2>1, <2>2 DEF Record
<1>11. ~Lookup(u) /\ ~VerifyBatch(u)
  <2>1. r.phase = "lookup" => ~(tab' = [tab EXCEPT ![u].phase = "verify", ![u].at = 1, ![u].looked = edits])
    BY <1>1, <1>2 DEF Run
  <2>2. \A e : r.phase = "verify" => ~(tab' = [tab EXCEPT ![u].at = e])
    BY <1>1, <1>2 DEF Run
  <2> QED
    BY <1>4, <2>1, <2>2 DEF Lookup, VerifyBatch, At
<1>12. Verified(u) \/ Unmark(u)
  BY <1>5, <1>6, <1>7, <1>8, <1>9, <1>10, <1>11 DEF Work, Faulty
<1>13. t = u
  BY <1>1, <1>12 DEF Verified, Unmark, Leave, Goto
<1> QED
  BY <1>12, <1>13

(* Success means the exact tree and no marker, unless the folder was edited *)
(* after the final enumeration (verifyCompleteDestination).                 *)
THEOREM SavedTreesAreExact == Spec => SavedIsExact
<1>1. ASSUME Inv, [Next]_vars
      PROVE  \A t \in Tabs :
               /\ tab[t].phase # "saved"
               /\ tab'[t].phase = "saved"
               /\ tab[t].looked = edits
               => Exact(Mine(t)) /\ marker' = NoMarker
  <2> SUFFICES ASSUME NEW t \in Tabs, tab[t].phase # "saved", tab'[t].phase = "saved",
                      tab[t].looked = edits
               PROVE  Exact(Mine(t)) /\ marker' = NoMarker
    OBVIOUS
  <2>1. Relies(t, tab[t]) /\ tab[t] \in Run /\ tab[t].at \in 1 .. NumFiles + 1
    BY <1>1, RunFields DEF Inv, TypeOK, TabInv
  <2>2. PICK u \in Tabs : Save(u) \/ Acquire(u) \/ Work(u) \/ Faulty(u)
    BY <1>1 DEF Next, Edit, vars
  <2>3. Verified(t) \/ Unmark(t)
    BY <1>1, <2>2, SuccessSteps
  <2>4. CASE Unmark(t)
    BY <2>1, <2>4 DEF Unmark, Relies, At
  <2>5. CASE Verified(t)
    <3>1. tab[t].phase = "verify" /\ tab[t].at = NumFiles + 1 /\ marker' = marker
      BY <2>1, <2>5 DEF Verified, At, Files
    <3>2. ~tab[t].claimed
      BY <1>1, <2>1, <2>5 DEF Verified, Goto, Inv, TypeOK, Run
    <3> QED
      BY <2>1, <3>1, <3>2 DEF Relies, Exact, Files
  <2> QED
    BY <2>3, <2>4, <2>5
<1> QED
  BY <1>1, Invariance, PTL DEF Spec, SavedIsExact

(* A marker that a later save reads (readJournal) tells the truth.          *)
THEOREM MarkersAreTrue == Spec => []MarkerIsTrue
  BY TypeCorrect, CompletionBitsAreFiles, PTL DEF MarkerIsTrue

(* writeOneFile only ever touches what this save made under its own claim.  *)
THEOREM OnlyOwnWrites == Spec => OwnWritesOnly
  BY WritesFallUnderClaims, UsersFilesAreKept DEF OwnWritesOnly
=============================================================================
