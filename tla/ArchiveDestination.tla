-------------------------- MODULE ArchiveDestination --------------------------
(* Saving the files of a classic transfer into a folder of the user's       *)
(* (writeAndVerifyArchive of src/src/lib/archive.ts).  The marker is a two- *)
(* phase journal: a file is claimed before it is created, and recorded as   *)
(* created before its first byte is written, so that a later attempt can    *)
(* tell its own unfinished files from the user's.                           *)
(*                                                                          *)
(* As in Destination, each await is a step, a step may fail, a tab may die  *)
(* between any two, programs outside the browser may edit the folder, and a *)
(* path that is not in the tree is one flag, `stranger`.  A safe write      *)
(* replaces the whole content when it is closed.  What a step has read of a *)
(* file may be stale when the journal entry that rests on it is written.    *)
EXTENDS Integers

CONSTANTS
  Tabs,         \* the tabs that save
  Transfers,    \* the transfers they hold: the fingerprints of their plans
  NumFiles,     \* files in the tree, in path order
  MaxFaults,    \* bound on failures and deaths
  MaxEdits,     \* bound on changes made outside the browser
  None          \* no tab, no transfer

Files == 1 .. NumFiles

ASSUME ArchiveDestinationAssumption ==
  /\ NumFiles \in Nat \ {0} /\ {MaxFaults, MaxEdits} \subseteq Nat
  /\ {"absent", "blank", "users"} \cap Transfers = {}
  /\ None \notin Tabs \cup Transfers

VARIABLES
  disk,      \* file -> absent, blank, the user's bytes, or a transfer's bytes
  stranger,  \* a path outside the tree is in the folder
  marker,    \* the checkpoint marker in the folder
  lock,      \* holder of the origin-wide Web Lock
  holds,     \* tab -> the transfer whose verified archive it holds
  tab,       \* the save each tab is running
  touched,   \* history: files edited since they were recorded as created, or
             \* while that record was being written
  faults, edits

vars == <<disk, stranger, marker, lock, holds, tab, touched, faults, edits>>
folder == <<disk, stranger, marker>>
outside == <<holds, touched, edits>>

Contents == Transfers \cup {"absent", "blank", "users"}
Mine(t) == holds[t]

(* The marker's name carries the fingerprint, so even one that was created  *)
(* and never filled has an owner.                                           *)
Journal(x, claimed, created) ==
  [owner |-> x, whole |-> TRUE, claimed |-> claimed, created |-> created]
NoMarker == Journal(None, {}, {})
Unfilled(x) == [Journal(x, {}, {}) EXCEPT !.whole = FALSE]
Encoded(t) == Journal(Mine(t), tab[t].claimed, tab[t].created)

Idle ==
  [phase |-> "idle", at |-> 1, claimed |-> {}, created |-> {},
   guarded |-> FALSE,    \* a conflict takes the new marker away again
   fresh |-> FALSE,      \* journalBeforeClaim is set
   round |-> "before",   \* which comparison of the whole tree runs
   looked |-> 0, unmarked |-> 0]   \* edits when enumerated, and unmarked

Init ==
  /\ disk \in [Files -> {"absent", "users"}] /\ stranger \in BOOLEAN
  /\ marker = NoMarker /\ lock = None
  /\ holds \in [Tabs -> Transfers]
  /\ tab = [t \in Tabs |-> Idle]
  /\ touched = {} /\ faults = 0 /\ edits = 0

(* ------------------------------- helpers -------------------------------- *)

At(t, phase) == tab[t].phase = phase
Goto(t, phase) == tab' = [tab EXCEPT ![t].phase = phase]
Free(t) == IF lock = t THEN None ELSE lock
Fault == faults < MaxFaults /\ faults' = faults + 1

(* Plausible bug for Leave: a save that rejects keeps the lock.             *)
LeaveLocked(t, phase) == Goto(t, phase) /\ UNCHANGED lock

(* The operation rejects or returns its report: the lock is released.       *)
Leave(t, phase) == Goto(t, phase) /\ lock' = Free(t)

(* The file's turn ends; the first comparison of the whole tree follows the *)
(* last one.                                                                *)
NextFile(t, from) == [from EXCEPT !.at = @ + 1, !.phase = "file", !.fresh = FALSE]

(* ----------------------- taking the folder over ------------------------- *)

Save(t) ==
  /\ tab[t].phase \in {"idle", "refused"}
  /\ Goto(t, "waiting")
  /\ UNCHANGED <<folder, lock, faults, outside>>

Acquire(t) ==
  /\ At(t, "waiting") /\ lock = None
  /\ lock' = t
  /\ tab' = [tab EXCEPT ![t] = [Idle EXCEPT !.phase = "open"]]
  /\ UNCHANGED <<folder, faults, outside>>

NoFiles == \A i \in Files : disk[i] = "absent"
FolderEmpty == NoFiles /\ ~stranger /\ marker = NoMarker

(* Plausible bug for OnlyUnfilledMarker: a marker that never got its first  *)
(* content is no different from any other invalid one.                      *)
NeverRecoverable(t) == FALSE

(* hasOnlyRecoverableCheckpointMarker                                       *)
OnlyUnfilledMarker(t) == NoFiles /\ ~stranger /\ marker = Unfilled(Mine(t))

(* assertMatchingCheckpoint                                                 *)
Matching(t) == marker.owner = Mine(t) /\ marker.whole

(* An empty folder is claimed, a matching marker resumes, the remains of a  *)
(* first marker are taken away; anything else must be an exact copy.        *)
OpenFolder(t) ==
  /\ At(t, "open")
  /\ tab' = [tab EXCEPT ![t] =
       CASE FolderEmpty -> [@ EXCEPT !.phase = "create", !.guarded = TRUE]
         [] Matching(t) -> [@ EXCEPT !.phase = "survey",
                                     !.claimed = marker.claimed,
                                     !.created = marker.created]
         [] OnlyUnfilledMarker(t) -> [@ EXCEPT !.phase = "create"]
         [] OTHER -> [@ EXCEPT !.phase = "compare"]]
  /\ marker' = IF OnlyUnfilledMarker(t) THEN NoMarker ELSE marker
  /\ UNCHANGED <<disk, stranger, lock, faults, outside>>

(* writeCheckpointMarker where there is no marker yet, first or as a        *)
(* restoration: the file exists before its first write is closed.           *)
CreateMarker(t) ==
  /\ tab[t].phase \in {"create", "restore"}
  /\ marker' = Unfilled(Mine(t))
  /\ Goto(t, IF At(t, "create") THEN "fill" ELSE "refill")
  /\ UNCHANGED <<disk, stranger, lock, faults, outside>>

FillMarker(t) ==
  /\ tab[t].phase \in {"fill", "refill"}
  /\ marker' = Encoded(t)
  /\ IF At(t, "fill") THEN Goto(t, "survey") /\ UNCHANGED lock ELSE Leave(t, "idle")
  /\ UNCHANGED <<disk, stranger, faults, outside>>

(* The new marker is removed again, or the removal fails too.               *)
MarkerFails(t) ==
  /\ tab[t].phase \in {"create", "fill", "restore", "refill"}
  /\ Fault
  /\ marker' \in {marker, NoMarker}
  /\ Leave(t, "idle")
  /\ UNCHANGED <<disk, stranger, outside>>

(* collectPartialDestination, assertPartialTreeBelongsToTransfer, and the   *)
(* directories of the tree.                                                 *)
Survey(t) ==
  /\ At(t, "survey")
  /\ IF stranger THEN Leave(t, "refused") ELSE Goto(t, "file") /\ UNCHANGED lock
  /\ marker' = IF stranger /\ tab[t].guarded THEN NoMarker ELSE marker
  /\ UNCHANGED <<disk, stranger, faults, outside>>

SurveyFails(t) ==
  /\ At(t, "survey") /\ Fault
  /\ marker' \in {marker} \cup (IF tab[t].guarded THEN {NoMarker} ELSE {})
  /\ Leave(t, IF stranger THEN "refused" ELSE "idle")
  /\ UNCHANGED <<disk, stranger, outside>>

(* --------------------------- the file-by-file loop ---------------------- *)

OnFile(t, phase) == At(t, phase) /\ tab[t].at \in Files
Claimed(t) == tab[t].at \in tab[t].claimed
Created(t) == tab[t].at \in tab[t].created

(* A journal update: in the folder and in memory.                           *)
Update(t, run) ==
  /\ tab' = [tab EXCEPT ![t] = run]
  /\ marker' = Journal(Mine(t), run.claimed, run.created)

WithClaim(t) ==
  [tab[t] EXCEPT !.claimed = @ \cup {tab[t].at}, !.fresh = TRUE, !.phase = "recheck"]
WithoutClaim(t) == [tab[t] EXCEPT !.claimed = @ \ {tab[t].at}]
AsCreated(t) == [tab[t] EXCEPT !.created = @ \cup {tab[t].at}, !.phase = "write"]

(* Plausible bug for Look: a claim alone makes whatever lies there ours.    *)
LookAtClaim(t) ==
  LET found == disk[tab[t].at] IN
  /\ OnFile(t, "file")
  /\ \/ found = "absent" /\ Goto(t, IF Claimed(t) THEN "make" ELSE "claim") /\ UNCHANGED lock
     \/ found = Mine(t) /\ tab' = [tab EXCEPT ![t] = NextFile(t, @)] /\ UNCHANGED lock
     \/ found \notin {"absent", Mine(t)} /\ Created(t) /\ Goto(t, "write") /\ UNCHANGED lock
     \/ found \notin {"absent", Mine(t)} /\ ~Created(t) /\ Claimed(t) /\ Goto(t, "record") /\ UNCHANGED lock
     \/ found \notin {"absent", Mine(t)} /\ ~Created(t) /\ ~Claimed(t) /\ Leave(t, "refused")
  /\ UNCHANGED <<folder, faults, outside>>

(* The file is missing, right, our unfinished one, ours if it is still      *)
(* empty, or not ours.                                                      *)
Look(t) ==
  LET found == disk[tab[t].at]
      ours == Claimed(t) /\ found = "blank" IN
  /\ OnFile(t, "file")
  /\ \/ found = "absent" /\ Goto(t, IF Claimed(t) THEN "make" ELSE "claim") /\ UNCHANGED lock
     \/ found = Mine(t) /\ tab' = [tab EXCEPT ![t] = NextFile(t, @)] /\ UNCHANGED lock
     \/ found \notin {"absent", Mine(t)} /\ Created(t) /\ Goto(t, "write") /\ UNCHANGED lock
     \/ found \notin {"absent", Mine(t)} /\ ~Created(t) /\ ours /\ Goto(t, "record") /\ UNCHANGED lock
     \/ found \notin {"absent", Mine(t)} /\ ~Created(t) /\ ~ours /\ Leave(t, "refused")
  /\ UNCHANGED <<folder, faults, outside>>

(* The missing file is claimed; then the folder is looked at again.         *)
Claim(t) ==
  /\ OnFile(t, "claim")
  /\ Update(t, WithClaim(t))
  /\ UNCHANGED <<disk, stranger, lock, faults, outside>>

Recheck(t) ==
  /\ OnFile(t, "recheck")
  /\ Goto(t, CASE disk[tab[t].at] = "absent" -> "make"
               [] disk[tab[t].at] = Mine(t) -> "skip"
               [] OTHER -> "unclaim")
  /\ UNCHANGED <<folder, lock, faults, outside>>

(* The claim is taken back from a file that appeared: one with the right    *)
(* bytes is kept, any other refused.                                        *)
Unclaim(t) ==
  /\ \/ OnFile(t, "skip") /\ Update(t, NextFile(t, WithoutClaim(t))) /\ UNCHANGED lock
     \/ /\ OnFile(t, "unclaim")
        /\ Update(t, [WithoutClaim(t) EXCEPT !.phase = "refused"])
        /\ lock' = Free(t)
  /\ UNCHANGED <<disk, stranger, faults, outside>>

(* getFileHandle(create)                                                    *)
Make(t) ==
  /\ OnFile(t, "make")
  /\ disk' = [disk EXCEPT ![tab[t].at] = IF @ = "absent" THEN "blank" ELSE @]
  /\ Goto(t, IF Created(t) THEN "write" ELSE "inspect")
  /\ UNCHANGED <<stranger, marker, lock, faults, outside>>

(* Plausible bug for Inspect: the file that was just created is not read.   *)
InspectNothing(t) ==
  /\ OnFile(t, "inspect")
  /\ Goto(t, "record")
  /\ UNCHANGED <<folder, lock, faults, outside>>

(* The created file is read back: it should be there, and empty.            *)
Inspect(t) ==
  LET found == disk[tab[t].at] IN
  /\ OnFile(t, "inspect")
  /\ \/ found = "blank" /\ Goto(t, "record") /\ UNCHANGED lock
     \/ found \notin {"blank", "absent"} /\ tab[t].fresh /\ Goto(t, "unclaim") /\ UNCHANGED lock
     \/ found \notin {"blank", "absent"} /\ ~tab[t].fresh /\ Leave(t, "refused")
     \/ found = "absent" /\ Leave(t, "idle")
  /\ UNCHANGED <<folder, faults, outside>>

(* A file that was read and was empty is recorded as created by us; it is   *)
(* not looked at again.                                                     *)
Record(t) ==
  /\ OnFile(t, "record")
  /\ Update(t, AsCreated(t))
  /\ UNCHANGED <<disk, stranger, lock, faults, outside>>

(* writeFileSafely; the handle of a file that was deleted is refused.       *)
Write(t) ==
  LET i == tab[t].at IN
  /\ OnFile(t, "write")
  /\ IF disk[i] = "absent"
     THEN Leave(t, "idle") /\ UNCHANGED <<disk, touched>>
     ELSE /\ disk' = [disk EXCEPT ![i] = Mine(t)]
          /\ touched' = touched \ {i}
          /\ tab' = [tab EXCEPT ![t] = NextFile(t, @)]
          /\ UNCHANGED lock
  /\ UNCHANGED <<stranger, marker, holds, faults, edits>>

(* --------------------- comparing the whole tree ------------------------- *)

Compare(t) ==
  /\ At(t, "file") /\ tab[t].at \notin Files
  /\ Goto(t, "compare")
  /\ UNCHANGED <<folder, lock, faults, outside>>

(* What a comparison that did not hold, or could not be made, leads to: a   *)
(* refusal of a folder that was never ours, an error that keeps the marker, *)
(* or the restoration of the marker that has just been removed.             *)
Disproved(t) ==
  \/ Matching(t) /\ Leave(t, "idle")
  \/ ~Matching(t) /\ tab[t].round = "after" /\ Goto(t, "restore") /\ UNCHANGED lock
  \/ ~Matching(t) /\ tab[t].round = "before" /\ Leave(t, "refused")

(* The marker counts as a path unless it is the one this save keeps there.  *)
Unexpected(t) == stranger \/ (marker # NoMarker /\ ~Matching(t))

(* collectDirectoryHandle lists the folder before it reads the files ...    *)
Enumerate(t) ==
  /\ At(t, "compare")
  /\ IF Unexpected(t) \/ \E i \in Files : disk[i] = "absent"
     THEN Disproved(t)
     ELSE /\ tab' = [tab EXCEPT ![t].phase = "read", ![t].at = 1, ![t].looked = edits]
          /\ UNCHANGED lock
  /\ UNCHANGED <<folder, faults, outside>>

(* ... one by one.                                                          *)
ReadFile(t) ==
  /\ OnFile(t, "read")
  /\ IF disk[tab[t].at] = Mine(t)
     THEN tab' = [tab EXCEPT ![t].at = @ + 1] /\ UNCHANGED lock
     ELSE Disproved(t)
  /\ UNCHANGED <<folder, faults, outside>>

(* Plausible bug for Verified: the comparison after the removal is left out.*)
VerifiedOnce(t) ==
  /\ At(t, "read") /\ tab[t].at \notin Files
  /\ tab' = [tab EXCEPT ![t].phase = "saved", ![t].unmarked = edits]
  /\ lock' = Free(t)
  /\ marker' = IF Matching(t) THEN NoMarker ELSE marker
  /\ UNCHANGED <<disk, stranger, faults, outside>>

(* The tree is right: the marker goes, and everything is read once more; a  *)
(* folder without a marker of ours was already complete.                    *)
Verified(t) ==
  /\ At(t, "read") /\ tab[t].at \notin Files
  /\ IF Matching(t)
     THEN /\ marker' = NoMarker
          /\ tab' = [tab EXCEPT ![t].phase = "compare", ![t].round = "after",
                                ![t].unmarked = edits]
          /\ UNCHANGED lock
     ELSE Leave(t, "saved") /\ UNCHANGED marker
  /\ UNCHANGED <<disk, stranger, faults, outside>>

(* ------------------- failures, deaths and outside edits ----------------- *)

(* An await of the folder rejects.  While a folder that is not ours is      *)
(* compared, the error is reported as the refusal; behind the removal of    *)
(* the marker it leads to its restoration.                                  *)
Fail(t) ==
  /\ tab[t].phase \in {"waiting", "open", "file", "claim", "recheck", "skip", "unclaim",
                       "make", "inspect", "record", "write", "compare", "read"}
  /\ Fault
  /\ IF tab[t].phase \in {"compare", "read"} THEN Disproved(t) ELSE Leave(t, "idle")
  /\ UNCHANGED <<folder, outside>>

(* The tab dies; reopened, its checkpoint gives it the same archive again.  *)
Die(t) ==
  /\ tab[t].phase # "saved"
  /\ Fault
  /\ tab' = [tab EXCEPT ![t] = Idle]
  /\ lock' = Free(t)
  /\ UNCHANGED <<folder, outside>>

Recorded(i) ==
  \/ i \in marker.created
  \/ \E t \in Tabs : lock = t /\ (i \in tab[t].created \/ (At(t, "record") /\ tab[t].at = i))

(* Bytes of a transfer matter in the folder that is being written.          *)
Edit ==
  /\ edits < MaxEdits
  /\ edits' = edits + 1
  /\ \/ /\ \E i \in Files, content \in Contents \ (Transfers \ {marker.owner}) :
             /\ disk[i] # content
             /\ disk' = [disk EXCEPT ![i] = content]
             /\ touched' = IF Recorded(i) THEN touched \cup {i} ELSE touched
        /\ UNCHANGED stranger
     \/ stranger' = ~stranger /\ UNCHANGED <<disk, touched>>
  /\ UNCHANGED <<marker, lock, holds, tab, faults>>

Work(t) ==
  \/ OpenFolder(t) \/ CreateMarker(t) \/ FillMarker(t) \/ Survey(t)
  \/ Look(t) \/ Claim(t) \/ Recheck(t) \/ Unclaim(t) \/ Make(t) \/ Inspect(t)
  \/ Record(t) \/ Write(t) \/ Compare(t) \/ Enumerate(t) \/ ReadFile(t) \/ Verified(t)

Faulty(t) == MarkerFails(t) \/ SurveyFails(t) \/ Fail(t) \/ Die(t)

Next == Edit \/ \E t \in Tabs : Save(t) \/ Acquire(t) \/ Work(t) \/ Faulty(t)

Spec == Init /\ [][Next]_vars

(* As in Destination: the user saves again, a save that runs goes on, and   *)
(* locks are granted in the order of the requests.                          *)
Fairness == \A t \in Tabs : WF_vars(Save(t)) /\ SF_vars(Acquire(t)) /\ WF_vars(Work(t))
LiveSpec == Spec /\ Fairness

(* ------------------------------ properties ------------------------------ *)

Stopped == {"idle", "waiting", "refused", "saved"}
Turns == {"claim", "recheck", "skip", "unclaim", "make", "inspect", "record", "write"}
Holding == Turns \cup {"open", "create", "fill", "survey", "file", "compare", "read",
                       "restore", "refill"}

TypeOK ==
  /\ disk \in [Files -> Contents]
  /\ {stranger, marker.whole} \subseteq BOOLEAN
  /\ marker.owner \in Transfers \cup {None} /\ holds \in [Tabs -> Transfers]
  /\ marker.created \subseteq marker.claimed /\ marker.claimed \subseteq Files
  /\ \A t \in Tabs :
       /\ tab[t].phase \in Stopped \cup Holding /\ tab[t].at \in 1 .. NumFiles + 1
       /\ tab[t].created \subseteq tab[t].claimed /\ tab[t].claimed \subseteq Files
       /\ lock = t <=> tab[t].phase \in Holding
  /\ touched \subseteq Files

(* A file the marker records as created is one this transfer made: empty or *)
(* with its bytes, unless somebody edited it afterwards or while the record *)
(* was being written (see AppearedIsRefused).  A later attempt overwrites   *)
(* what is recorded without asking (archive.ts:833-846).                    *)
RecordedIsOurs ==
  /\ TypeOK
  /\ \A i \in marker.created \ touched : disk[i] \in {"blank", marker.owner}

(* "An unrelated non-empty root is never modified; only targets journaled by *)
(* a matching app-owned checkpoint may be repaired" (archive.ts:703-704): a *)
(* file is written under the lock and under a record in our own marker, and *)
(* bytes that were put there stay, whenever they appeared, unless they were *)
(* put into a file that was already recorded as ours, or that had been read *)
(* as empty and was just being recorded.                                    *)
OnlyRecordedWritten ==
  [][edits' = edits =>
       \A i \in Files : disk'[i] # disk[i] =>
         /\ \E t \in Tabs : lock = t /\ Matching(t)
         /\ \/ disk[i] = "absent" /\ i \in marker.claimed
            \/ i \in marker.created
         /\ disk[i] \notin {"absent", "blank"} => i \in touched]_vars

(* "Refusing to overwrite a non-empty file that appeared while creating"    *)
(* (archive.ts:895): somebody else's bytes are never recorded as a file of  *)
(* ours, which gives them up to be overwritten.  The code reads the file,   *)
(* and the record is another await (archive.ts:882-902), so it does happen. *)
AppearedIsRefused ==
  [][\A i \in marker'.created \ marker.created :
       disk[i] \in {"absent", "blank", marker'.owner}]_vars

Exact(x) == ~stranger /\ \A i \in Files : disk[i] = x

(* A save that reports success leaves exactly the tree and no marker unless *)
(* the folder was edited after the last enumeration; and no edit before the *)
(* removal of the marker goes unnoticed (archive.ts:905-945).               *)
SavedIsExact ==
  [][\A t \in Tabs :
       /\ tab[t].phase # "saved" /\ tab'[t].phase = "saved"
       /\ edits \in {tab'[t].looked, tab'[t].unmarked}
       => Exact(Mine(t)) /\ marker' = NoMarker]_vars

(* Nobody but tabs that hold transfer x has been in the folder.             *)
Only(x) ==
  /\ edits = 0 /\ ~stranger /\ marker.owner \in {None, x}
  /\ \A i \in Files : disk[i] \in {"absent", "blank", x}

(* A restoration of the marker stopped half-way.                            *)
HalfRestored == ~marker.whole /\ \E i \in Files : disk[i] # "absent"

(* A refusal for what is in the folder, not for a read that failed.         *)
Refuses(t) ==
  tab[t].phase # "refused" /\ tab'[t].phase = "refused" /\ faults' = faults

(* Whatever failed or died, and at whatever point, the next attempt of the  *)
(* same transfer goes on in the folder: it is never refused its own work    *)
(* (archive.ts:765-803), except when two things went wrong in a row behind  *)
(* the removal of the marker (HalfRestored).                                *)
NeverRefusesItself ==
  [][\A t \in Tabs : Refuses(t) /\ Only(Mine(t)) => HalfRestored]_vars

(* "Read/permission/quota failures after marker deletion must not strand a  *)
(* non-empty tree that the next attempt is forbidden to resume"             *)
(* (archive.ts:942-943).                                                    *)
NeverStranded == [][\A t \in Tabs : ~(Refuses(t) /\ Only(Mine(t)))]_vars

(* A user who keeps saving ends with the tree or is refused again and again. *)
SavedOrRefused ==
  \A t \in Tabs : <>At(t, "saved") \/ []<>At(t, "refused")
-----------------------------------------------------------------------------
(* The inductive invariants behind the properties.                          *)

Run ==
  [phase : Stopped \cup Holding, at : 1 .. NumFiles + 1,
   claimed : SUBSET Files, created : SUBSET Files,
   guarded : BOOLEAN, fresh : BOOLEAN, round : {"before", "after"},
   looked : Nat, unmarked : Nat]

Markers ==
  [owner : Transfers \cup {None}, whole : BOOLEAN,
   claimed : SUBSET Files, created : SUBSET Files]

(* Phases in which the marker is this save's own and up to date.            *)
Writing == Turns \cup {"survey", "file"}

(* What is recorded for transfer x was made by it, unless touched.          *)
MadeBy(x, recorded) == \A i \in recorded \ touched : disk[i] \in {"blank", x}

(* Where the save run of tab t stands in its file's turn, and what its      *)
(* journal says of it.                                                      *)
TurnInv(t, run) ==
  /\ run.phase \in Writing => marker = Journal(Mine(t), run.claimed, run.created)
  /\ run.phase \in Turns => run.at \in Files /\ (run.phase = "claim" <=> run.at \notin run.claimed)
  /\ run.phase \in Turns \ {"make", "write"} => run.at \notin run.created
  /\ run.phase = "record" => run.at \in touched \/ disk[run.at] = "blank"
  /\ run.phase = "write" => run.at \in run.created

(* What a comparison has found, unless the folder was edited after it began.*)
CompareInv(t, run) ==
  /\ run.unmarked <= edits
  /\ run.phase = "read" =>
       /\ run.unmarked <= run.looked /\ run.looked <= edits
       /\ marker = NoMarker \/ Matching(t)
       /\ run.looked = edits =>
            ~stranger /\ \A i \in Files : i < run.at => disk[i] = Mine(t)

(* The holder of the lock may restore a marker that it has removed.         *)
RunInv(t, run) ==
  /\ TurnInv(t, run) /\ CompareInv(t, run)
  /\ run.phase \in Holding => MadeBy(Mine(t), run.created)

SaveInv ==
  /\ TypeOK /\ marker \in Markers /\ tab \in [Tabs -> Run] /\ edits \in Nat
  /\ MadeBy(marker.owner, marker.created)
  /\ \A t \in Tabs : RunInv(t, tab[t])

(* The save found nothing in the folder; it is about to create a file.      *)
Beginning(run) ==
  run.phase \in {"create", "fill"} \/ (run.phase = "survey" /\ run.guarded)
Missing(run) ==
  run.phase \in {"claim", "recheck"} \/ (run.phase = "make" /\ run.at \notin run.created)

Complete(x) == \A i \in Files : disk[i] = x

(* What the save run of tab t relies on while nobody edits the folder.      *)
PathInv(t, run) ==
  /\ run.phase = "open" => ~run.guarded /\ run.round = "before"
  /\ Beginning(run) => NoFiles
  /\ run.phase \in {"restore", "refill"} => Complete(Mine(t))
  /\ run.phase \in {"compare", "read"} /\ ~Matching(t) =>
       IF run.round = "after" THEN Complete(Mine(t))
       ELSE ~(FolderEmpty \/ OnlyUnfilledMarker(t))
  /\ Missing(run) => disk[run.at] = "absent"
  /\ run.phase \in {"inspect", "record"} => disk[run.at] = "blank"
  /\ run.phase \notin {"skip", "unclaim"}

(* A marker belongs to a transfer, and is whole or was just created.        *)
MarkerInv ==
  /\ marker.owner = None => marker = NoMarker
  /\ ~marker.whole => marker = Unfilled(marker.owner)

(* While nobody edits the folder, every empty file in it is claimed, and    *)
(* without a marker the tree is complete, not begun, or the user's.         *)
TreeInv ==
  /\ \A i \in Files : disk[i] = "blank" => i \in marker.claimed
  /\ marker = NoMarker =>
       \/ NoFiles \/ \E i \in Files : disk[i] = "users"
       \/ \E x \in Transfers : Complete(x)

OwnInv == MarkerInv /\ (edits = 0 => TreeInv /\ \A t \in Tabs : PathInv(t, tab[t]))
===============================================================================
