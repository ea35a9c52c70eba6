---------------------------- MODULE Destination ----------------------------
(* Saving a received tree into a folder of the user's                       *)
(* (src/src/lib/large-destination.ts) and reclaiming the receiver's         *)
(* temporary copy afterwards (src/src/components/WebRtcReceiver.tsx).       *)
(*                                                                          *)
(* Several tabs of the origin may save into the same root folder, the same  *)
(* transfer or different ones.  Each `await` of writeLargeTreeToDirectory   *)
(* is a step; a step may fail or be aborted, a tab may die between any two, *)
(* and programs outside the browser may edit the folder meanwhile.  The     *)
(* subdirectories of the tree, which are only ever created, are left out:   *)
(* a path that does not belong to the tree, or has the wrong kind, is one   *)
(* flag, `stranger`.                                                        *)
EXTENDS Integers

CONSTANTS
  Tabs,         \* the tabs that save
  Transfers,    \* the transfers they hold
  TransferOf,   \* tab -> the transfer whose verified copy it holds
  NumFiles,     \* files in the tree
  Small,        \* the files of at most 64 KiB, which are handled in batches
  Concurrency,  \* SMALL_DESTINATION_FILE_CONCURRENCY
  MaxFaults,    \* bound on failures, aborts and deaths
  MaxEdits,     \* bound on changes made outside the browser
  None          \* no tab, no owner

Files == 1 .. NumFiles

ASSUME DestinationAssumption ==
  /\ NumFiles \in Nat \ {0}
  /\ Concurrency \in Nat \ {0}
  /\ TransferOf \in [Tabs -> Transfers]
  /\ Small \subseteq Files
  /\ {"absent", "blank", "users"} \cap Transfers = {}
  /\ None \notin Tabs \cup Transfers
  /\ MaxFaults \in Nat
  /\ MaxEdits \in Nat

VARIABLES
  disk,      \* file -> absent, blank, the user's bytes, or a transfer's bytes
  stranger,  \* a path outside the tree is in the folder
  marker,    \* the recovery marker in the folder
  lock,      \* holder of the origin-wide Web Lock
  tab,       \* the save each tab is running
  copy,      \* tab -> its temporary copy is still held
  touched,   \* files edited from outside since the app last closed them
  faults, edits

vars == <<disk, stranger, marker, lock, tab, copy, touched, faults, edits>>
outside == <<stranger, touched, edits>>

Contents == Transfers \cup {"absent", "blank", "users"}
(* The marker's content: whose journal it is and its completion bits.  A    *)
(* marker file whose first write was never closed has no owner.             *)
Journal(x, bits) == [owner |-> x, completed |-> bits]
NoMarker == Journal(None, {})
Ownerless == Journal("blank", {})
Mine(t) == TransferOf[t]
OwnMarker(t) == marker.owner = Mine(t)

Nothing == [i \in {} |-> TRUE]
Idle == [phase |-> "idle", at |-> 1, completed |-> {}, saved |-> Nothing,
         writers |-> Nothing, claimed |-> FALSE, looked |-> 0]

Stopped == {"idle", "refused", "waiting", "saved", "reclaimed"}
Holding == {"open", "create", "fill", "scan", "next", "writing", "journal",
            "lookup", "verify", "unmark"}
Settled == {"closed", "failed"}

(* smallFileBatchEnd, cut at the first file outside S: the files handled    *)
(* together with file i.                                                    *)
Batch(i, S) ==
  {j \in Files :
     /\ i <= j
     /\ i = j \/ (j < i + Concurrency /\ i .. j \subseteq Small \cap S)}

(* Plausible bug for Matches: the size is compared, the content is not.     *)
SameSize(t, i) == disk[i] \notin {"absent", "blank", "users"}

(* destinationFileMatches: the file is re-read and hashed.                  *)
Matches(t, i) == disk[i] = Mine(t)

Init ==
  /\ disk \in [Files -> {"absent", "users"}]
  /\ stranger \in BOOLEAN
  /\ marker = NoMarker
  /\ lock = None
  /\ tab = [t \in Tabs |-> Idle]
  /\ copy = [t \in Tabs |-> TRUE]
  /\ touched = {}
  /\ faults = 0
  /\ edits = 0

(* ------------------------------- helpers -------------------------------- *)

At(t, phase) == tab[t].phase = phase
Goto(t, phase) == tab' = [tab EXCEPT ![t].phase = phase]
Restart(t, phase) == tab' = [tab EXCEPT ![t].phase = phase, ![t].at = 1]
Free(t) == IF lock = t THEN None ELSE lock

(* Plausible bug for Leave: a save that rejects keeps the lock.             *)
LeaveLocked(t, phase) == Goto(t, phase) /\ UNCHANGED lock

(* The save rejects or ends: the Web Lock is released.                      *)
Leave(t, phase) ==
  /\ Goto(t, phase)
  /\ lock' = Free(t)

Fault == faults < MaxFaults /\ faults' = faults + 1

(* --------------------------- taking the folder -------------------------- *)

Save(t) ==
  /\ tab[t].phase \in {"idle", "refused"}
  /\ copy[t]
  /\ Goto(t, "waiting")
  /\ UNCHANGED <<disk, marker, lock, copy, faults, outside>>

Acquire(t) ==
  /\ At(t, "waiting")
  /\ lock = None
  /\ lock' = t
  /\ tab' = [tab EXCEPT ![t] = [Idle EXCEPT !.phase = "open",
                                            !.writers = tab[t].writers]]
  /\ UNCHANGED <<disk, marker, copy, faults, outside>>

(* Plausible bug for FolderEmpty: only unrelated paths are looked at.       *)
NoStranger == ~stranger

FolderEmpty == ~stranger /\ \A i \in Files : disk[i] = "absent"

(* The marker decides: a journal of this transfer resumes, any other marker *)
(* refuses; without one an empty folder is claimed and a non-empty folder   *)
(* must turn out to be an exact copy.                                       *)
OpenFolder(t) ==
  /\ At(t, "open")
  /\ \/ /\ OwnMarker(t)
        /\ tab' = [tab EXCEPT ![t].phase = "scan", ![t].claimed = TRUE,
                              ![t].completed = marker.completed]
        /\ UNCHANGED lock
     \/ /\ marker # NoMarker /\ ~OwnMarker(t)
        /\ Leave(t, "refused")
     \/ /\ marker = NoMarker
        /\ IF FolderEmpty
           THEN tab' = [tab EXCEPT ![t].phase = "create", ![t].claimed = TRUE]
           ELSE Goto(t, "lookup")
        /\ UNCHANGED lock
  /\ UNCHANGED <<disk, marker, copy, faults, outside>>

(* The first writeJournal: the handle exists, empty, before the first safe  *)
(* write is closed.                                                         *)
CreateMarker(t) ==
  /\ At(t, "create")
  /\ marker' = Ownerless
  /\ Goto(t, "fill")
  /\ UNCHANGED <<disk, lock, copy, faults, outside>>

FillMarker(t) ==
  /\ At(t, "fill")
  /\ marker' = Journal(Mine(t), {})
  /\ Restart(t, "next")
  /\ UNCHANGED <<disk, lock, copy, faults, outside>>

(* A failed claim removes the marker it may have created; the removal may   *)
(* fail as well.                                                            *)
ClaimFails(t) ==
  /\ tab[t].phase \in {"create", "fill"}
  /\ Fault
  /\ marker' \in {marker, NoMarker}
  /\ Leave(t, "idle")
  /\ UNCHANGED <<disk, copy, outside>>

(* assertPartialDestination, then ensureDirectories.                        *)
Scan(t) ==
  /\ At(t, "scan")
  /\ IF stranger
     THEN Leave(t, "refused")
     ELSE Restart(t, "next") /\ UNCHANGED lock
  /\ UNCHANGED <<disk, marker, copy, faults, outside>>

(* --------------------------- the file-by-file loop ---------------------- *)

Next1(t) == At(t, "next") /\ tab[t].at \in Files

(* A set bit is believed only after re-hashing; a run of small files is     *)
(* checked together and its verdicts are used one by one.                   *)
CheckSaved(t) ==
  /\ Next1(t)
  /\ tab[t].at \in tab[t].completed \ DOMAIN tab[t].saved
  /\ tab' = [tab EXCEPT ![t].saved =
       [i \in Batch(tab[t].at, tab[t].completed) |-> Matches(t, i)]]
  /\ UNCHANGED <<disk, marker, lock, copy, faults, outside>>

Reuse(t) ==
  /\ Next1(t)
  /\ tab[t].at \in tab[t].completed \cap DOMAIN tab[t].saved
  /\ tab[t].saved[tab[t].at]
  /\ tab' = [tab EXCEPT ![t].at = @ + 1]
  /\ UNCHANGED <<disk, marker, lock, copy, faults, outside>>

(* A mismatch clears the durable bit before the file is rewritten.          *)
Unset(t) ==
  LET bits == tab[t].completed \ {tab[t].at} IN
  /\ Next1(t)
  /\ tab[t].at \in tab[t].completed \cap DOMAIN tab[t].saved
  /\ ~tab[t].saved[tab[t].at]
  /\ tab' = [tab EXCEPT ![t].completed = bits]
  /\ marker' = Journal(Mine(t), bits)
  /\ UNCHANGED <<disk, lock, copy, faults, outside>>

StartBatch(t) ==
  /\ Next1(t)
  /\ tab[t].at \notin tab[t].completed
  /\ tab' = [tab EXCEPT ![t].phase = "writing", ![t].writers =
       [i \in Batch(tab[t].at, Files \ tab[t].completed) |-> "opening"]]
  /\ UNCHANGED <<disk, marker, lock, copy, faults, outside>>

Writer(t, i, state) ==
  i \in DOMAIN tab[t].writers /\ tab[t].writers[i] = state
SetWriter(t, i, state) == tab' = [tab EXCEPT ![t].writers[i] = state]

(* writeOneFile: the handle is created, then the safe write replaces the    *)
(* whole content when it is closed; a failure aborts it.                    *)
CreateFile(t, i) ==
  /\ Writer(t, i, "opening")
  /\ SetWriter(t, i, "open")
  /\ disk' = [disk EXCEPT ![i] = IF @ = "absent" THEN "blank" ELSE @]
  /\ UNCHANGED <<marker, lock, copy, faults, outside>>

CloseFile(t, i) ==
  /\ Writer(t, i, "open")
  /\ SetWriter(t, i, "closed")
  /\ disk' = [disk EXCEPT ![i] = Mine(t)]
  /\ touched' = touched \ {i}
  /\ UNCHANGED <<stranger, marker, lock, copy, faults, edits>>

WriteFails(t, i) ==
  /\ Writer(t, i, "opening") \/ Writer(t, i, "open")
  /\ Fault
  /\ SetWriter(t, i, "failed")
  /\ UNCHANGED <<disk, marker, lock, copy, outside>>

(* Plausible bug for AllSettled: the first failure ends the batch, as with  *)
(* Promise.all.                                                             *)
AnyFailed(t) ==
  \/ \A i \in DOMAIN tab[t].writers : tab[t].writers[i] = "closed"
  \/ \E i \in DOMAIN tab[t].writers : tab[t].writers[i] = "failed"

(* Promise.allSettled: nothing goes on before every write of the batch has. *)
AllSettled(t) ==
  \A i \in DOMAIN tab[t].writers : tab[t].writers[i] \in Settled

Settle(t) ==
  /\ At(t, "writing")
  /\ AllSettled(t)
  /\ Goto(t, "journal")
  /\ UNCHANGED <<disk, marker, lock, copy, faults, outside>>

(* Plausible bug for Record: a rejected write is recorded like the others.  *)
RecordAnyway(t) ==
  LET i == tab[t].at
      bits == tab[t].completed \cup {i} IN
  /\ At(t, "journal")
  /\ marker' = Journal(Mine(t), bits)
  /\ tab' = [tab EXCEPT ![t].completed = bits, ![t].at = i + 1,
       ![t].phase = IF i + 1 \in DOMAIN tab[t].writers
                    THEN "journal" ELSE "next"]
  /\ UNCHANGED <<disk, lock, copy, faults, outside>>

(* One durable completion bit per closed file, in order; the first rejected *)
(* write is thrown when its turn comes.                                     *)
Record(t) ==
  LET i == tab[t].at
      bits == tab[t].completed \cup {i} IN
  /\ At(t, "journal")
  /\ IF tab[t].writers[i] = "failed"
     THEN Leave(t, "idle") /\ UNCHANGED marker
     ELSE /\ marker' = Journal(Mine(t), bits)
          /\ tab' = [tab EXCEPT ![t].completed = bits, ![t].at = i + 1,
               ![t].phase = IF i + 1 \in DOMAIN tab[t].writers
                            THEN "journal" ELSE "next"]
          /\ UNCHANGED lock
  /\ UNCHANGED <<disk, copy, faults, outside>>

(* Plausible bug for AllRecorded: the per-file hashes taken while writing   *)
(* and resuming are trusted, without a second verification.                 *)
TrustRecords(t) ==
  /\ At(t, "next")
  /\ tab[t].at \notin Files
  /\ tab' = [tab EXCEPT ![t].phase = "unmark", ![t].looked = edits]
  /\ UNCHANGED <<disk, marker, lock, copy, faults, outside>>

AllRecorded(t) ==
  /\ At(t, "next")
  /\ tab[t].at \notin Files
  /\ Restart(t, "lookup")
  /\ UNCHANGED <<disk, marker, lock, copy, faults, outside>>

(* ------------------------- the final verification ----------------------- *)

(* A folder that was not claimed is refused untouched; a claimed one keeps  *)
(* its marker for a retry.                                                  *)
Rejected(t) == Leave(t, IF tab[t].claimed THEN "idle" ELSE "refused")

Lookup(t) ==
  /\ At(t, "lookup")
  /\ IF stranger \/ \E i \in Files : disk[i] = "absent"
     THEN Rejected(t)
     ELSE /\ tab' = [tab EXCEPT ![t].phase = "verify", ![t].at = 1,
                                ![t].looked = edits]
          /\ UNCHANGED lock
  /\ UNCHANGED <<disk, marker, copy, faults, outside>>

VerifyBatch(t) ==
  LET batch == Batch(tab[t].at, Files) IN
  /\ At(t, "verify")
  /\ tab[t].at \in Files
  /\ IF \A i \in batch : Matches(t, i)
     THEN /\ \E end \in 2 .. NumFiles + 1 :
               /\ batch = tab[t].at .. end - 1
               /\ tab' = [tab EXCEPT ![t].at = end]
          /\ UNCHANGED lock
     ELSE Rejected(t)
  /\ UNCHANGED <<disk, marker, copy, faults, outside>>

Verified(t) ==
  /\ At(t, "verify")
  /\ tab[t].at \notin Files
  /\ IF tab[t].claimed
     THEN Goto(t, "unmark") /\ UNCHANGED lock
     ELSE Leave(t, "saved")
  /\ UNCHANGED <<disk, marker, copy, faults, outside>>

Unmark(t) ==
  /\ At(t, "unmark")
  /\ marker' = NoMarker
  /\ Leave(t, "saved")
  /\ UNCHANGED <<disk, copy, faults, outside>>

(* The temporary copy goes only after a save has returned.                  *)
Reclaim(t) ==
  /\ At(t, "saved")
  /\ copy' = [copy EXCEPT ![t] = FALSE]
  /\ Goto(t, "reclaimed")
  /\ UNCHANGED <<disk, marker, lock, faults, outside>>

(* ------------------- failures, deaths and outside edits ----------------- *)

(* A read or write of the folder rejects, or the signal is aborted: thrown  *)
(* at the next check.  A batch of writes is drained first (WriteFails), and *)
(* an error while an unclaimed folder is compared is reported as a refusal. *)
Fail(t) ==
  /\ tab[t].phase \in {"waiting", "open", "scan", "next", "journal",
                       "lookup", "verify", "unmark"}
  /\ Fault
  /\ \/ Leave(t, "idle")
     \/ tab[t].phase \in {"lookup", "verify"} /\ Rejected(t)
  /\ UNCHANGED <<disk, marker, copy, outside>>

(* The tab dies: open safe writes are discarded, the lock is released, and  *)
(* what is on disk stays.  Reopened, the tab still holds its copy.          *)
Die(t) ==
  /\ copy[t]
  /\ Fault
  /\ tab' = [tab EXCEPT ![t] = Idle]
  /\ lock' = Free(t)
  /\ UNCHANGED <<disk, marker, copy, outside>>

Edit ==
  /\ edits < MaxEdits
  /\ edits' = edits + 1
  /\ \/ /\ \E i \in Files, content \in {"absent", "users"} :
             /\ disk[i] # content
             /\ disk' = [disk EXCEPT ![i] = content]
             /\ touched' = touched \cup {i}
        /\ UNCHANGED stranger
     \/ stranger' = ~stranger /\ UNCHANGED <<disk, touched>>
  /\ UNCHANGED <<marker, lock, tab, copy, faults>>

Work(t) ==
  \/ OpenFolder(t) \/ CreateMarker(t) \/ FillMarker(t) \/ Scan(t)
  \/ CheckSaved(t) \/ Reuse(t) \/ Unset(t) \/ StartBatch(t) \/ Settle(t)
  \/ \E i \in Files : CreateFile(t, i) \/ CloseFile(t, i)
  \/ Record(t) \/ AllRecorded(t)
  \/ Lookup(t) \/ VerifyBatch(t) \/ Verified(t) \/ Unmark(t) \/ Reclaim(t)

Faulty(t) ==
  \/ ClaimFails(t) \/ Fail(t) \/ Die(t)
  \/ \E i \in Files : WriteFails(t, i)

Next == Edit \/ \E t \in Tabs : Save(t) \/ Acquire(t) \/ Work(t) \/ Faulty(t)

Spec == Init /\ [][Next]_vars

(* The user saves again after a failure, a save that runs goes on, and Web  *)
(* Locks are granted in the order of the requests, so none is passed over   *)
(* for ever.                                                                *)
Fairness == \A t \in Tabs : WF_vars(Save(t)) /\ SF_vars(Acquire(t)) /\ WF_vars(Work(t))
LiveSpec == Spec /\ Fairness

(* ------------------------------ properties ------------------------------ *)

OnSome(S) == UNION {[A -> S] : A \in SUBSET Files}

Run ==
  [phase : Stopped \cup Holding,
   at : 1 .. NumFiles + 1,                     \* the file whose turn it is
   completed : SUBSET Files,                   \* the bits in memory
   saved : OnSome(BOOLEAN),                    \* verdicts on journalled files
   writers : OnSome({"opening", "open"} \cup Settled),
   claimed : BOOLEAN,                          \* the folder has our marker
   looked : 0 .. MaxEdits]                     \* edits when last enumerated

TypeOK ==
  /\ disk \in [Files -> Contents]
  /\ stranger \in BOOLEAN
  /\ marker \in [owner : Transfers \cup {"blank", None}, completed : SUBSET Files]
  /\ tab \in [Tabs -> Run]
  /\ lock \in Tabs \cup {None}
  /\ \A t \in Tabs : lock = t <=> tab[t].phase \in Holding
  /\ copy \in [Tabs -> BOOLEAN]
  /\ touched \subseteq Files
  /\ faults \in 0 .. MaxFaults
  /\ edits \in 0 .. MaxEdits

Exact(x) == ~stranger /\ \A i \in Files : disk[i] = x

(* Every change the app makes to a file happens while its tab holds the     *)
(* origin-wide lock and the folder carries its own transfer's marker: no    *)
(* write outlives its save, and no two saves interleave in one folder.      *)
WritesUnderClaim ==
  [][\A i \in Files : disk'[i] # disk[i] /\ edits' = edits =>
       \E t \in Tabs : /\ i \in DOMAIN tab[t].writers
                       /\ tab'[t].writers # tab[t].writers
                       /\ lock = t
                       /\ OwnMarker(t)]_vars

(* A folder that held anything before the app claimed it is refused without *)
(* modification: the user's files keep their bytes.                         *)
UsersDataKept ==
  [][edits' = 0 =>
       \A i \in Files : disk[i] = "users" => disk'[i] = "users"]_vars

(* A completion bit in the durable marker stands for a file that was closed *)
(* with exactly this transfer's bytes and, unless somebody edited it since, *)
(* still has them: the bits survive deaths, failed batches and other tabs.  *)
BitsAreFiles ==
  \A i \in marker.completed \ touched : disk[i] = marker.owner

(* A later save may trust the marker it finds, in every well-typed state.   *)
MarkerIsTrue == TypeOK /\ BitsAreFiles

(* The app writes only what is its own: under its claim, and never over     *)
(* what the user put there.                                                 *)
OwnWritesOnly == WritesUnderClaim /\ UsersDataKept

(* When a save reports success, the folder is exactly the tree unless it    *)
(* was edited after the final enumeration began: edits made earlier, during *)
(* the writes or before a resume, are always noticed.                       *)
SavedIsExact ==
  [][\A t \in Tabs :
       /\ tab[t].phase # "saved"
       /\ tab'[t].phase = "saved"
       /\ tab[t].looked = edits
       => Exact(Mine(t)) /\ marker' = NoMarker]_vars

(* The bytes are never lost: a tab's temporary copy is gone only when the   *)
(* folder holds its whole tree without a marker, whatever other tabs saved  *)
(* or tried to save there.                                                  *)
NothingLost ==
  edits = 0 =>
    \A t \in Tabs : copy[t] \/ (Exact(Mine(t)) /\ marker = NoMarker)

(* A user who keeps saving again ends with the tree in the folder and the   *)
(* temporary copy reclaimed, or is refused again and again.                 *)
SavedOrRefused ==
  \A t \in Tabs : <>At(t, "reclaimed") \/ []<>At(t, "refused")

(* TRANSFER_PROCESS.md:62-63: after a save failure the user retries saving  *)
(* in the same destination.  A folder nobody but the app has touched would  *)
(* then never be refused.                                                   *)
NeverRefusesItself ==
  (edits = 0 /\ ~stranger /\ \A i \in Files : disk[i] # "users") =>
    \A t \in Tabs : At(t, "refused") => \E u \in Tabs : Mine(u) # Mine(t)

(* TRANSFER_PROCESS.md:266-271: success requires no extra path at a final   *)
(* enumeration that follows the removal of the marker.                      *)
NoStrangerAtSuccess ==
  [][\A t \in Tabs : Unmark(t) /\ tab'[t].phase = "saved" => ~stranger]_vars

=============================================================================
