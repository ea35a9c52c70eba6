--------------------------- MODULE DurableReceipts ---------------------------
(***************************************************************************)
(* What the durable receive store promises its callers, whatever files,    *)
(* locks and crashes are behind it: a set of receipts that grows, is shown *)
(* to callers only once durable, and is given up only by deletion.         *)
(***************************************************************************)
CONSTANT Blocks

VARIABLES
  durable,   \* blocks a store opened now would show as received
  told       \* blocks a caller was told are received

Init == durable = {} /\ told = {}

\* A commit makes some blocks durable; nobody has been told yet.
Commit ==
  /\ \E S \in SUBSET Blocks : durable' = durable \cup S
  /\ told' = told

\* A handle is opened or a call returns: the caller sees all that is durable.
Tell ==
  /\ told' = durable
  /\ durable' = durable

\* The user deletes the copy; a removal cut short may leave part of it.
Forget ==
  /\ durable' \in SUBSET durable
  /\ told' = {}

Next == Commit \/ Tell \/ Forget

Spec == Init /\ [][Next]_<< durable, told >>
=============================================================================
