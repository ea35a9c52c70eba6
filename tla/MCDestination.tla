--------------------------- MODULE MCDestination ---------------------------
(* TLC instances of the destination: two tabs that hold different transfers *)
(* with the same root name, or the same transfer.                           *)
EXTENDS Destination, TLC

CONSTANTS t1, t2, x1, x2

TwoTransfers == t1 :> x1 @@ t2 :> x2
OneTransfer == t1 :> x1 @@ t2 :> x1
=============================================================================
