---------------------------- MODULE MCRendezvous ----------------------------
(* TLC instance: two rooms on one device and one on another, so that a code  *)
(* may be shown by both; the joins come from the second device.              *)
EXTENDS Rendezvous, TLC

CONSTANTS d1, d2, r1, r2, r3

MCRoomHost == (r1 :> d1) @@ (r2 :> d1) @@ (r3 :> d2)
MCJoinHost == [ j \in Requests |-> d2 ]
Symmetry == Permutations(Requests) \cup Permutations(Codes)
=============================================================================
