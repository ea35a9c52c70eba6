------------------------- MODULE BlockStoreRefinement -------------------------
(***************************************************************************)
(* BlockStore implements DurableReceipts: the durable receipts are those   *)
(* that loadOpfsState would recover from the files as they are, in the     *)
(* middle of any operation.                                                *)
(***************************************************************************)
EXTENDS BlockStore

\* replayJournal over the first n records from a checkpoint.
Replayed(g, B, n) ==
  LET state[k \in 0 .. n] ==
        IF k = 0 THEN [ gen |-> g, bits |-> B, valid |-> TRUE ]
        ELSE LET s == state[k - 1]
                 r == journal[k]
             IN  CASE ~ s.valid \/ ~ r.whole -> [ s EXCEPT !.valid = FALSE ]
                   [] s.valid /\ r.whole /\ r.gen <= s.gen -> s
                   [] s.valid /\ r.whole /\ r.gen = s.gen + 1
                        /\ r.blocks \cap s.bits = {} ->
                        [ s EXCEPT !.gen = r.gen, !.bits = @ \cup r.blocks ]
                   [] OTHER -> [ s EXCEPT !.valid = FALSE ]
  IN  state[n].bits

\* The receipts a store opened on these files would show.
Recoverable ==
  IF Candidates = {} THEN {}
  ELSE LET best == CHOOSE i \in Candidates :
                     \A j \in Candidates : slot[j].gen <= slot[i].gen
           n == IF Len(journal) < MaxPrefix THEN Len(journal) ELSE MaxPrefix
           B == Replayed(slot[best].gen, slot[best].bits, n)
       IN  IF \E b \in B : \A w \in written : w < b THEN {} ELSE B

Receipts == INSTANCE DurableReceipts WITH durable <- Recoverable

\* Every step of the store, crashes and partial removals included, is a
\* step of the abstract store or none.
ImplementsDurableReceipts == Receipts!Spec
=============================================================================
