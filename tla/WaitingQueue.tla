---------------------------- MODULE WaitingQueue ----------------------------
(***************************************************************************)
(* The waiting queue of runtime/src/engine/scheduler.rs at the level of    *)
(* the array inside std's BinaryHeap, whose layout decides which of two    *)
(* requests of equal priority is served first.  Positions are 1-based: the *)
(* children of i are 2i and 2i + 1.                                        *)
(***************************************************************************)
EXTENDS Integers, Sequences, FiniteSets, Functions

CONSTANTS
    Requests,   \* every request that may arrive
    Priority,   \* QueueEntry.priority of each
    MaxBatch    \* max_batch_size

ASSUME HeapAssumption ==
    /\ Priority \in [Requests -> Int]
    /\ MaxBatch \in Nat \ {0}

VARIABLES
    heap,       \* waiting: BinaryHeap<QueueEntry>
    running,    \* the requests of running that have not finished
    done,       \* those that have, until schedule() reaps them
    admitting,  \* schedule() is in its admission loop
    arrivals,   \* history: requests in the order of add_request
    admissions  \* history: requests in the order of admission

vars == <<heap, running, done, admitting, arrivals, admissions>>

(* Ord for QueueEntry, reversed: a <= b when a is served no sooner than b. *)
Le(a, b) == Priority[b] <= Priority[a]

Swap(h, i, j) == [h EXCEPT ![i] = h[j], ![j] = h[i]]

(* The states of a loop whose body is step, from s on: after n rounds at[n]. *)
Rounds(step, s) ==
    LET at[n \in Nat] == IF n = 0 THEN s ELSE step[at[n - 1]] IN at

(* Where a sift stands: the array, and the position of the entry on the move. *)
Sifts == Seq(Requests) \X (Nat \ {0})

(* std: the entry at i moves up while its parent is smaller. *)
UpStep == [s \in Sifts |->
    LET h == s[1]
        i == s[2]
    IN  IF i = 1 \/ Le(h[i], h[i \div 2]) THEN s ELSE <<Swap(h, i, i \div 2), i \div 2>>]

(* It has i \div 2 ancestors at most, so i rounds bring it to its place. *)
SiftUp(h, i) == Rounds(UpStep, <<h, i>>)[i][1]

(* std: the entry at i moves down to a leaf, always to the greater child (to
   the right one when they are equal). *)
DownStep == [s \in Sifts |->
    LET h     == s[1]
        i     == s[2]
        child == IF 2 * i + 1 <= Len(h) /\ Le(h[2 * i], h[2 * i + 1]) THEN 2 * i + 1 ELSE 2 * i
    IN  IF 2 * i > Len(h) THEN s ELSE <<Swap(h, i, child), child>>]

(* From the root to a leaf, then up again. *)
SiftDownToBottom(h) ==
    LET leaf == Rounds(DownStep, <<h, 1>>)[Len(h)] IN SiftUp(leaf[1], leaf[2])

(* Mistake: the new entry stays at the end of the array. *)
PushUnsifted(h, r) == Append(h, r)

Push(h, r) == SiftUp(Append(h, r), Len(h) + 1)

Front(h) == SubSeq(h, 1, Len(h) - 1)

(* Mistake: the last entry becomes the root and stays there. *)
PopUnsifted(h) ==
    IF Len(h) = 1 THEN <<>> ELSE [Front(h) EXCEPT ![1] = h[Len(h)]]

(* What pop leaves: the last element takes the place of the root. *)
Pop(h) ==
    IF Len(h) = 1 THEN <<>> ELSE SiftDownToBottom([Front(h) EXCEPT ![1] = h[Len(h)]])

-----------------------------------------------------------------------------
Init ==
    /\ heap = <<>>
    /\ running = {}
    /\ done = {}
    /\ admitting = FALSE
    /\ arrivals = <<>>
    /\ admissions = <<>>

AddRequest(r) ==
    /\ ~ admitting
    /\ r \notin Range(arrivals)
    /\ heap' = Push(heap, r)
    /\ arrivals' = Append(arrivals, r)
    /\ UNCHANGED <<running, done, admitting, admissions>>

(* record_output, in the step between two calls of schedule(). *)
Finish(r) ==
    /\ ~ admitting
    /\ r \in running
    /\ running' = running \ {r}
    /\ done' = done \cup {r}
    /\ UNCHANGED <<heap, admitting, arrivals, admissions>>

Schedule ==
    /\ ~ admitting
    /\ heap # <<>> \/ running # {} \/ done # {}
    /\ done' = {}
    /\ admitting' = TRUE
    /\ UNCHANGED <<heap, running, arrivals, admissions>>

Admit ==
    /\ admitting
    /\ heap # <<>>
    /\ Cardinality(running) < MaxBatch
    /\ heap' = Pop(heap)
    /\ running' = running \cup {heap[1]}
    /\ admissions' = Append(admissions, heap[1])
    /\ UNCHANGED <<done, admitting, arrivals>>

(* Mistake: the entry popped from a full engine is dropped. *)
AdmitFullDrops ==
    /\ admitting
    /\ heap # <<>>
    /\ Cardinality(running) >= MaxBatch
    /\ heap' = Pop(heap)
    /\ admitting' = FALSE
    /\ UNCHANGED <<running, done, arrivals, admissions>>

(* The engine is full: the popped entry is pushed back, which may leave it
   elsewhere among its equals. *)
AdmitFull ==
    /\ admitting
    /\ heap # <<>>
    /\ Cardinality(running) >= MaxBatch
    /\ heap' = Push(Pop(heap), heap[1])
    /\ admitting' = FALSE
    /\ UNCHANGED <<running, done, arrivals, admissions>>

AdmitDone ==
    /\ admitting
    /\ heap = <<>>
    /\ admitting' = FALSE
    /\ UNCHANGED <<heap, running, done, arrivals, admissions>>

Next ==
    \/ \E r \in Requests : AddRequest(r)
    \/ \E r \in Requests : Finish(r)
    \/ Schedule
    \/ Admit
    \/ AdmitFull
    \/ AdmitDone

Spec == Init /\ [][Next]_vars

-----------------------------------------------------------------------------
(* No request outranks its parent in the array: what makes heap[1], the one
   pop returns, a request of least priority value (scheduler.rs:28-33,
   108, 132-135, over every interleaving of push, pop and push-back). *)
HeapOrder == \A i \in 2 .. Len(heap) : Le(heap[i], heap[i \div 2])

(* No arrived request is lost or duplicated between the heap, the running
   set and the requests that left (scheduler.rs:120-152). *)
Conserved ==
    /\ Range(arrivals) = Range(heap) \cup Range(admissions)
    /\ Len(arrivals) = Len(heap) + Len(admissions)

(* The array implements the queue the rest of the engine sees; a finished
   request leaves for it when schedule() reaps it. *)
Abstract == INSTANCE PriorityAdmission WITH
    waiting <- Range(heap), active <- running \cup done, arrived <- Range(arrivals)

(* Every step of the array is a step of the abstract queue
   (scheduler.rs:88-109, 115-152). *)
ImplementsPriorityAdmission == Abstract!ASpec
=============================================================================
