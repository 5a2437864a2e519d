--------------------------- MODULE MCWaitingQueue ---------------------------
(* Instances of the waiting queue for TLC. *)
EXTENDS WaitingQueue, TLC

CONSTANTS r1, r2, r3, r4, r5, r6

(* Six requests with ties: the smallest heap in which an entry that pop moves
   to the bottom has to come up again. *)
MCPriority == r1 :> 0 @@ r2 :> 1 @@ r3 :> 1 @@ r4 :> 2 @@ r5 :> 3 @@ r6 :> 3
=============================================================================
