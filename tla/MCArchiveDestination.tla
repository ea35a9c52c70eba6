------------------------- MODULE MCArchiveDestination -------------------------
(* TLC instance of the classic destination: two tabs that hold the same     *)
(* transfer or different ones.                                              *)
EXTENDS ArchiveDestination
===============================================================================
