------------------------- MODULE MCOfflineTransfer -------------------------
(* TLC instance of the offline transfer, and of the receive queue alone,     *)
(* with more messages than two batches hold and callers that the session     *)
(* would not be. They share no state, so a behaviour is of the one or of the *)
(* other: neither moves unless the other is at its start, where none of its  *)
(* fair actions is enabled.                                                  *)
EXTENDS OfflineTransfer, ReceiveQueue

MCInit == Init /\ QueueInit
MCNext ==
  \/ Next /\ QueueInit /\ UNCHANGED queueVars
  \/ QueueNext /\ Init /\ UNCHANGED vars
  \/ ~QueueInit /\ UNCHANGED << vars, queueVars >>  \* all messages handled
MCSpec ==
  MCInit /\ [][MCNext]_<< vars, queueVars >> /\ SenderFairness /\ Fairness
=============================================================================
