-------------------------- MODULE PriorityAdmission --------------------------
(***************************************************************************)
(* What the waiting queue promises the rest of the engine: requests arrive *)
(* once, an admitted request is one that no waiting request outranks, and  *)
(* at most MaxBatch are admitted and not yet finished.                     *)
(***************************************************************************)
EXTENDS Integers, FiniteSets

CONSTANTS
    Requests,   \* every request that may arrive
    Priority,   \* priority of each; smaller is served first
    MaxBatch    \* max_batch_size

VARIABLES
    waiting,    \* the waiting requests
    active,     \* the admitted requests that have not left
    arrived     \* all requests that ever arrived

avars == <<waiting, active, arrived>>

AInit ==
    /\ waiting = {}
    /\ active = {}
    /\ arrived = {}

Arrive(r) ==
    /\ r \notin arrived
    /\ arrived' = arrived \cup {r}
    /\ waiting' = waiting \cup {r}
    /\ UNCHANGED active

(* The strategies scheduler.rs names, except the order of equals. *)
Serve(r) ==
    /\ r \in waiting
    /\ \A q \in waiting : Priority[r] <= Priority[q]
    /\ Cardinality(active) < MaxBatch
    /\ waiting' = waiting \ {r}
    /\ active' = active \cup {r}
    /\ UNCHANGED arrived

Leave(R) ==
    /\ R \subseteq active
    /\ active' = active \ R
    /\ UNCHANGED <<waiting, arrived>>

ANext ==
    \/ \E r \in Requests : Arrive(r)
    \/ \E r \in Requests : Serve(r)
    \/ \E R \in SUBSET Requests : Leave(R)

ASpec == AInit /\ [][ANext]_avars
==============================================================================
