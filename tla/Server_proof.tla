---------------------------- MODULE Server_proof ----------------------------
(***************************************************************************)
(* Proofs about the HTTP servers, for any number of clients of any kind,   *)
(* any prompt and answer lengths, any batch size and any number of failing *)
(* steps: the three safety properties the server runs check.               *)
(*                                                                         *)
(* They hold because of the lock: a task is queued at most once and only   *)
(* the first one works (LockOK), a client that keeps the lock from its     *)
(* add_request on is in the engine until it is finished, and a finished    *)
(* request is never stepped again (EngineOK).                              *)
(***************************************************************************)
EXTENDS Server, DataLemmas, FiniteSetTheorems, TLAPS

States == {"new", "lock", "loop", "yield", "between", "ok", "failed", "gone"}

TypeOK ==
    /\ port \in Ports
    /\ client \in [Clients -> States]
    /\ queue \in Seq(Clients)
    /\ waiting \in SUBSET Clients
    /\ running \in Seq(Clients)
    /\ added \in SUBSET Clients
    /\ chunksLeft \in [Clients -> Nat]
    /\ produced \in [Clients -> Nat]
    /\ finished \in SUBSET Clients
    /\ got \in [Clients -> Nat]
    /\ faults \in Nat
    /\ foreign \in SUBSET Clients

(* The tasks that keep or await the lock are in its queue once, and a task *)
(* between add_request and its last token is the first.                    *)
LockOK ==
    /\ IsInjective(queue)
    /\ \A i \in DOMAIN queue : client[queue[i]] \in {"lock", "loop", "yield"}
    /\ \A c \in Clients : client[c] \in {"loop", "yield"} => Holds(c)

(* The requests the engine will step. *)
InEngine == waiting \cup Range(running)

(* Clients that keep the lock from add_request to their last token. *)
Keeps(c) == port = "python" \/ c \in Blocking

Company(c) == faults > 0 \/ \E d \in Clients \ {c} : client[d] # "new"

Good(c) ==
    /\ c \notin added => produced[c] = 0 /\ c \notin InEngine /\ c \notin finished /\ c \notin foreign
    /\ c \in finished => c \notin InEngine
    /\ client[c] = "new" \/ (client[c] = "lock" /\ Keeps(c)) => c \notin added
    /\ client[c] = "between" => ~ Keeps(c)
    /\ client[c] \in {"loop", "yield"} =>
          (c \in InEngine \/ c \in finished) /\ got[c] = produced[c] /\ c \notin foreign
    /\ client[c] = "ok" /\ Keeps(c) => c \in finished /\ got[c] = produced[c] /\ c \notin foreign
    /\ got[c] <= produced[c]
    /\ got[c] < produced[c] => Company(c)

EngineOK == \A c \in Clients : Good(c)

IInv == TypeOK /\ LockOK /\ EngineOK

-----------------------------------------------------------------------------
(* The lock's queue. *)

(* The queue as a sequence, and its head. *)
LEMMA QueueFacts ==
    ASSUME TypeOK
    PROVE  /\ Len(queue) \in Nat /\ DOMAIN queue = 1 .. Len(queue)
           /\ queue # <<>> => Len(queue) > 0 /\ Head(queue) = queue[1]
           /\ Len(queue) > 0 => queue # <<>>
  BY LenProperties, EmptySeq, HeadTailProperties DEF TypeOK

(* A task that asks for the lock is put last. *)
LEMMA Asks ==
    ASSUME TypeOK, LockOK, NEW c \in Clients, client[c] \in {"new", "between"},
           queue' = Append(queue, c), client' = [client EXCEPT ![c] = "lock"]
    PROVE  LockOK' /\ queue' \in Seq(Clients)
<1>1. /\ Len(queue) \in Nat /\ DOMAIN queue = 1 .. Len(queue) /\ queue \in Seq(Clients)
      /\ client \in [Clients -> States]
  BY QueueFacts DEF TypeOK
<1>2. /\ queue' \in Seq(Clients) /\ Len(queue') = Len(queue) + 1 /\ DOMAIN queue' = 1 .. Len(queue) + 1
      /\ \A i \in 1 .. Len(queue) : queue'[i] = queue[i]
      /\ queue'[Len(queue) + 1] = c
  BY <1>1, AppendProperties, LenProperties
<1>3. c \notin Range(queue)
  BY <1>1 DEF LockOK, Range
<1>4. IsInjective(queue)'
  BY <1>1, <1>3, AppendKeepsInjective DEF LockOK
<1>5. \A i \in DOMAIN queue' : client'[queue'[i]] \in {"lock", "loop", "yield"}
  <2>1. \A i \in 1 .. Len(queue) + 1 : i \in 1 .. Len(queue) \/ i = Len(queue) + 1
    BY <1>1
  <2>2. ASSUME NEW i \in 1 .. Len(queue) PROVE client'[queue[i]] \in {"lock", "loop", "yield"}
    <3>1. queue[i] \in Clients /\ client[queue[i]] \in {"lock", "loop", "yield"}
      BY <1>1 DEF LockOK
    <3>2. queue[i] # c
      BY <3>1
    <3>. QED
      BY <1>1, <3>1, <3>2
  <2>3. client'[c] = "lock"
    BY <1>1
  <2>. QED
    BY <1>2, <2>1, <2>2, <2>3, Zenon
<1>6. ASSUME NEW d \in Clients, client'[d] \in {"loop", "yield"} PROVE (queue' # <<>> /\ Head(queue') = d)
  <2>1. client[d] \in {"loop", "yield"}
    BY <1>1, <1>6
  <2>2. Len(queue) > 0 /\ queue[1] = d
    BY <2>1, QueueFacts DEF LockOK, Holds
  <2>3. queue' # <<>> /\ queue'[1] = d
    BY <1>1, <1>2, <2>2, EmptySeq
  <2>. QED
    BY <1>2, <2>3, HeadTailProperties
<1>. QED
  BY <1>2, <1>4, <1>5, <1>6 DEF LockOK, Holds

(* The holder gives the lock up and is done with it. *)
LEMMA Releases ==
    ASSUME TypeOK, LockOK, NEW c \in Clients, NEW status, status \notin {"lock", "loop", "yield"},
           Holds(c), Release(c, status)
    PROVE  LockOK' /\ queue' \in Seq(Clients)
<1>1. /\ Len(queue) \in Nat /\ DOMAIN queue = 1 .. Len(queue) /\ queue \in Seq(Clients)
      /\ client \in [Clients -> States] /\ queue # <<>> /\ queue[1] = c /\ Len(queue) > 0
  BY QueueFacts DEF TypeOK, Holds
<1>2. queue' = Tail(queue) /\ client' = [client EXCEPT ![c] = status]
  BY DEF Release
<1>3. /\ queue' \in Seq(Clients) /\ Len(queue') = Len(queue) - 1 /\ DOMAIN queue' = 1 .. Len(queue) - 1
      /\ \A i \in 1 .. Len(queue) - 1 : queue'[i] = queue[i + 1]
  BY <1>1, <1>2, HeadTailProperties, LenProperties
<1>4. \A i \in 1 .. Len(queue) - 1 : i + 1 \in 1 .. Len(queue) /\ i + 1 # 1
  BY <1>1
<1>5. IsInjective(queue)'
  <2>1. ASSUME NEW i \in 1 .. Len(queue) - 1, NEW j \in 1 .. Len(queue) - 1, queue'[i] = queue'[j]
        PROVE  i = j
    <3>1. queue[i + 1] = queue[j + 1]
      BY <1>3, <2>1
    <3>2. i + 1 = j + 1
      BY <1>1, <1>4, <3>1 DEF LockOK, IsInjective
    <3>. QED
      BY <3>2
  <2>. QED
    BY <1>3, <2>1 DEF IsInjective
<1>6. \A i \in DOMAIN queue' : client'[queue'[i]] \in {"lock", "loop", "yield"}
  <2>1. ASSUME NEW i \in 1 .. Len(queue) - 1
        PROVE  client'[queue[i + 1]] \in {"lock", "loop", "yield"}
    <3>1. queue[i + 1] # c /\ queue[i + 1] \in Clients
      BY <1>1, <1>4 DEF LockOK, IsInjective
    <3>2. client'[queue[i + 1]] = client[queue[i + 1]]
      BY <1>1, <1>2, <3>1
    <3>. QED
      BY <1>1, <1>4, <3>2 DEF LockOK
  <2>. QED
    BY <1>3, <2>1
<1>7. ASSUME NEW d \in Clients, client'[d] \in {"loop", "yield"} PROVE FALSE
  <2>1. d # c /\ client[d] \in {"loop", "yield"}
    BY <1>1, <1>2, <1>7
  <2>. QED
    BY <2>1 DEF LockOK, Holds
<1>. QED
  BY <1>3, <1>5, <1>6, <1>7 DEF LockOK

(* The holder keeps the lock. *)
LEMMA Stays ==
    ASSUME TypeOK, LockOK, NEW c \in Clients, NEW status \in {"loop", "yield"}, Holds(c),
           client' = [client EXCEPT ![c] = status] \/ client' = client, UNCHANGED queue
    PROVE  LockOK'
<1>1. client \in [Clients -> States] /\ queue \in Seq(Clients)
  BY DEF TypeOK
<1>2. CASE client' = client
  BY <1>2 DEF LockOK, Holds
<1>3. CASE client' = [client EXCEPT ![c] = status]
  BY <1>1, <1>3 DEF LockOK, Holds
<1>. QED
  BY <1>2, <1>3

(* A task that gives up leaves the queue, and the others keep their order. *)
LEMMA Leaves ==
    ASSUME TypeOK, LockOK, NEW c \in Clients,
           queue' = Retain(queue, {c}), client' = [client EXCEPT ![c] = "gone"]
    PROVE  LockOK' /\ queue' \in Seq(Clients)
<1>1. queue \in Seq(Clients) /\ client \in [Clients -> States] /\ IsInjective(queue)
  BY DEF TypeOK, LockOK
<1>2. queue' \in Seq(Clients) /\ Range(queue') = Range(queue) \ {c}
  BY <1>1, RetainKeeps
<1>3. IsInjective(queue)' /\ (queue # <<>> /\ queue[1] # c => queue' # <<>> /\ queue'[1] = queue[1])
  BY <1>1, RetainOrder
<1>4. \A d \in Range(queue) : client[d] \in {"lock", "loop", "yield"}
  BY DEF LockOK, Range
<1>5. \A d \in Range(queue') : client'[d] \in {"lock", "loop", "yield"}
  <2>1. \A d \in Range(queue') : d \in Clients /\ d # c /\ d \in Range(queue)
    BY <1>1, <1>2, RangeOfSeq
  <2>. QED
    BY <1>1, <1>4, <2>1
<1>6. \A i \in DOMAIN queue' : client'[queue'[i]] \in {"lock", "loop", "yield"}
  BY <1>5 DEF Range
<1>7. ASSUME NEW d \in Clients, client'[d] \in {"loop", "yield"} PROVE (queue' # <<>> /\ Head(queue') = d)
  <2>1. d # c /\ client[d] \in {"loop", "yield"}
    BY <1>1, <1>7
  <2>2. queue # <<>> /\ queue[1] = d
    BY <2>1, QueueFacts DEF LockOK, Holds
  <2>3. queue' # <<>> /\ queue'[1] = d
    BY <1>3, <2>1, <2>2
  <2>. QED
    BY <1>2, <2>3, HeadTailProperties
<1>. QED
  BY <1>2, <1>3, <1>6, <1>7 DEF LockOK, Holds

-----------------------------------------------------------------------------
(* One step of the engine, seen from outside: the requests that drew a     *)
(* token, and those of them that ended.                                    *)
Stepped(c, w, ran, ends) ==
    /\ ran \subseteq w \cup Range(running) /\ ends \subseteq ran
    /\ waiting' \in SUBSET Clients /\ running' \in Seq(Clients)
    /\ waiting' \cup Range(running') = (w \cup Range(running)) \ ends
    /\ produced' = [r \in Clients |-> produced[r] + IF r \in ran THEN 1 ELSE 0]
    /\ chunksLeft' \in [Clients -> Nat]
    /\ finished' = finished \cup ends
    /\ foreign' \in SUBSET Clients /\ foreign' \subseteq foreign \cup (ran \ {c})

(* The free slots are filled with requests that wait. *)
LEMMA AdmissionsFacts ==
    ASSUME TypeOK, NEW w \in SUBSET Clients, NEW s \in Admissions(w)
    PROVE  s \in Seq(Clients) /\ Range(s) \subseteq w
<1>. DEFINE a == MaxBatch - Len(running)
            b == Cardinality(w)
            n == Min({a, b})
<1>1. a \in Int /\ b \in Int
  <2>1. IsFiniteSet(w)
    BY ServerAssumption, FS_Subset
  <2>. QED
    BY <2>1, ServerAssumption, FS_CardinalityType, LenProperties DEF TypeOK
<1>2. s \in [1 .. n -> w]
  BY DEF Admissions
<1>3. n \in Int
  <2>. HIDE DEF a, b
  <2>1. a <= b \/ b <= a
    BY <1>1
  <2>2. \E x \in {a, b} : \A y \in {a, b} : x <= y
    BY <1>1, <2>1
  <2>3. n \in {a, b}
    BY <2>2 DEF Min
  <2>. QED
    BY <1>1, <2>3
<1>. HIDE DEF n
<1>4. s \in Seq(w)
  <2>1. CASE n >= 0
    BY <1>2, <1>3, <2>1, IsASeq
  <2>2. CASE n < 0
    <3>1. 1 .. n = 1 .. 0
      BY <1>3, <2>2
    <3>2. s \in [1 .. 0 -> w]
      BY <1>2, <3>1
    <3>. QED
      BY <3>2, IsASeq
  <2>. QED
    BY <1>3, <2>1, <2>2
<1>. QED
  BY <1>4, RangeOfSeq, SeqMonotonic

(* What one call of step() does, whichever entry fails. *)
LEMMA StepFacts ==
    ASSUME TypeOK, NEW c \in Clients, NEW w \in SUBSET Clients, NEW s \in Admissions(w),
           NEW f \in 1 .. Len(running \o s) + 1, NEW stops, Step(c, w, running \o s, f, stops)
    PROVE  /\ \E ran, ends : Stepped(c, w, ran, ends)
           /\ f = Len(running \o s) + 1 => \E ends : Stepped(c, w, Samplers(running \o s), ends)
<1>. DEFINE entries == running \o s
            ran == Samplers(SubSeq(entries, 1, f - 1))
            ends == {r \in ran : produced[r] + 1 >= MaxNew[r] \/ r \in stops}
<1>1. /\ running \in Seq(Clients) /\ s \in Seq(Clients) /\ Range(s) \subseteq w
      /\ chunksLeft \in [Clients -> Nat] /\ foreign \in SUBSET Clients
  BY AdmissionsFacts DEF TypeOK
<1>2. entries \in Seq(Clients) /\ Range(entries) = Range(running) \cup Range(s) /\ Len(entries) \in Nat
  BY <1>1, ConcatProperties, RangeConcatenation, LenProperties
<1>. HIDE DEF entries
<1>3. /\ waiting' = w \ Range(entries)
      /\ produced' = [r \in Clients |-> produced[r] + IF r \in ran THEN 1 ELSE 0]
      /\ chunksLeft' = [r \in Clients |->
            IF r \in Range(entries) /\ chunksLeft[r] > 0 THEN chunksLeft[r] - 1 ELSE chunksLeft[r]]
      /\ finished' = finished \cup ends
      /\ foreign' = IF port = "rust" THEN foreign \cup (ran \ {c}) ELSE foreign
      /\ running' = Retain(entries, ends)
  BY DEF Step, entries
<1>4. ran \subseteq Range(entries) /\ Range(entries) \subseteq Clients
  <2>1. f - 1 \in 0 .. Len(entries)
    BY <1>2 DEF entries
  <2>2. /\ SubSeq(entries, 1, f - 1) \in Seq(Clients)
        /\ \A i \in 1 .. f - 1 : SubSeq(entries, 1, f - 1)[i] = entries[i]
        /\ Len(SubSeq(entries, 1, f - 1)) = f - 1
    BY <1>2, <2>1, SubSeqProperties
  <2>3. Range(SubSeq(entries, 1, f - 1)) \subseteq Range(entries)
    <3>1. /\ Range(SubSeq(entries, 1, f - 1)) = {SubSeq(entries, 1, f - 1)[i] : i \in 1 .. f - 1}
          /\ Range(entries) = {entries[i] : i \in 1 .. Len(entries)}
      BY <1>2, <2>2, RangeEquality
    <3>2. \A i \in 1 .. f - 1 : i \in 1 .. Len(entries)
      BY <1>2, <2>1
    <3>. QED
      BY <2>2, <3>1, <3>2, Zenon
  <2>4. ran \subseteq Range(SubSeq(entries, 1, f - 1))
    BY DEF Samplers
  <2>. QED
    BY <1>2, <2>3, <2>4, RangeOfSeq
<1>5. ends \subseteq ran
  OBVIOUS
<1>. HIDE DEF ran, ends
<1>6. running' \in Seq(Clients) /\ Range(running') = Range(entries) \ ends
  BY <1>2, <1>3, RetainKeeps
<1>7. chunksLeft' \in [Clients -> Nat]
  BY <1>1, <1>3
<1>8. Stepped(c, w, ran, ends)
  <2>1. ran \subseteq w \cup Range(running)
    BY <1>1, <1>2, <1>4
  <2>2. waiting' \cup Range(running') = (w \cup Range(running)) \ ends
    BY <1>1, <1>2, <1>3, <1>4, <1>5, <1>6
  <2>3. foreign' \in SUBSET Clients /\ foreign' \subseteq foreign \cup (ran \ {c})
    BY <1>1, <1>3, <1>4
  <2>4. waiting' \in SUBSET Clients
    BY <1>3
  <2>. QED
    BY <1>3, <1>5, <1>6, <1>7, <2>1, <2>2, <2>3, <2>4 DEF Stepped
<1>9. ASSUME f = Len(entries) + 1 PROVE ran = Samplers(entries)
  <2>1. f - 1 = Len(entries)
    BY <1>2, <1>9
  <2>2. SubSeq(entries, 1, Len(entries)) = entries
    BY <1>2, SubSeqFull
  <2>. QED
    BY <2>1, <2>2 DEF ran
<1>. QED
  BY <1>8, <1>9 DEF entries

(* A step that succeeds gives its caller the token its request drew; a     *)
(* step that fails gives nothing.                                          *)
LEMMA StepOkFacts ==
    ASSUME TypeOK, NEW c \in Clients, NEW w \in SUBSET Clients, StepOk(c, w)
    PROVE  \E ran, ends : /\ Stepped(c, w, ran, ends)
                          /\ got' = [got EXCEPT ![c] = @ + IF c \in ran THEN 1 ELSE 0]
                          /\ faults' = faults
<1>1. PICK s \in Admissions(w) : \E stops :
         /\ Step(c, w, running \o s, Len(running \o s) + 1, stops)
         /\ got' = [got EXCEPT ![c] = @ + IF c \in Samplers(running \o s) THEN 1 ELSE 0]
         /\ UNCHANGED faults
  BY DEF StepOk
<1>2. Len(running \o s) \in Nat
  BY AdmissionsFacts, ConcatProperties, LenProperties DEF TypeOK
<1>3. Len(running \o s) + 1 \in 1 .. Len(running \o s) + 1
  BY <1>2
<1>4. \E ends : Stepped(c, w, Samplers(running \o s), ends)
  BY <1>1, <1>3, StepFacts
<1>. QED
  BY <1>1, <1>4

(* A step that fails moves the engine but gives its caller nothing. *)
LEMMA StepErrFacts ==
    ASSUME TypeOK, NEW c \in Clients, NEW w \in SUBSET Clients, StepErr(c, w)
    PROVE  \E ran, ends : Stepped(c, w, ran, ends) /\ got' = got /\ faults' = faults + 1
<1>1. PICK s \in Admissions(w) : \E f, stops :
         f \in DOMAIN (running \o s) /\ Step(c, w, running \o s, f, stops)
  BY DEF StepErr
<1>2. PICK f, stops : f \in DOMAIN (running \o s) /\ Step(c, w, running \o s, f, stops)
  BY <1>1
<1>3. running \o s \in Seq(Clients) /\ Len(running \o s) \in Nat /\ DOMAIN (running \o s) = 1 .. Len(running \o s)
  BY AdmissionsFacts, ConcatProperties, LenProperties DEF TypeOK
<1>4. f \in 1 .. Len(running \o s) + 1
  BY <1>2, <1>3
<1>5. \E ran, ends : Stepped(c, w, ran, ends)
  BY <1>2, <1>4, StepFacts
<1>. QED
  BY <1>5 DEF StepErr

-----------------------------------------------------------------------------
(* A handler moves on while the engine rests. *)
LEMMA Moves ==
    ASSUME TypeOK, EngineOK, NEW c \in Clients, NEW status \in States \ {"new"},
           client' = [client EXCEPT ![c] = status], UNCHANGED <<port, engineVars, got>>,
           status = "lock" /\ Keeps(c) => c \notin added,
           status = "between" => ~ Keeps(c),
           status \in {"loop", "yield"} => client[c] \in {"loop", "yield"},
           status = "ok" /\ Keeps(c) => client[c] \in {"loop", "yield"} /\ c \in finished
    PROVE  EngineOK'
<1>1. client \in [Clients -> States]
  BY DEF TypeOK
<1>2. client'[c] = status /\ \A d \in Clients : d # c => client'[d] = client[d]
  BY <1>1
<1>3. \A d \in Clients : InEngine' = InEngine /\ Keeps(d)' = Keeps(d) /\ (Company(d) => Company(d)')
  BY <1>2 DEF InEngine, Keeps, Company, engineVars
<1>. USE DEF engineVars
<1>4. ASSUME NEW d \in Clients, d # c PROVE Good(d)'
  <2>1. Good(d)
    BY DEF EngineOK
  <2>. QED
    BY <1>2, <1>3, <1>4, <2>1 DEF Good
<1>5. Good(c)'
  <2>1. Good(c)
    BY DEF EngineOK
  <2>. QED
    BY <1>2, <1>3, <2>1 DEF Good
<1>. QED
  BY <1>4, <1>5 DEF EngineOK

(* The holder of the lock steps the engine.  Nobody else is between        *)
(* add_request and a last token, so only its own request can matter.       *)
LEMMA Steps ==
    ASSUME TypeOK, LockOK, EngineOK, NEW c \in Clients, Holds(c), client[c] \in {"lock", "loop"},
           NEW w \in SUBSET Clients, NEW ran, NEW ends, Stepped(c, w, ran, ends),
           NEW status \in States \ {"new", "lock", "ok"}, client' = [client EXCEPT ![c] = status],
           \/ w = waiting /\ c \in added
           \/ w = waiting \cup {c} /\ c \notin added,
           added' = added \cup {c}, UNCHANGED port,
           \/ /\ got' = [got EXCEPT ![c] = @ + IF c \in ran THEN 1 ELSE 0]
              /\ faults' = faults
           \/ /\ got' = got /\ faults' = faults + 1
              /\ status \notin {"loop", "yield"},
           status = "between" => ~ Keeps(c),
           status \in {"loop", "yield"} => client[c] = "loop"
    PROVE  EngineOK' /\ got' \in [Clients -> Nat] /\ faults' \in Nat /\ produced' \in [Clients -> Nat]
<1>1. /\ client \in [Clients -> States] /\ got \in [Clients -> Nat] /\ produced \in [Clients -> Nat]
      /\ faults \in Nat
  BY DEF TypeOK
<1>2. client'[c] = status /\ \A d \in Clients : d # c => client'[d] = client[d]
  BY <1>1
<1>3. \A d \in Clients : produced'[d] = produced[d] + IF d \in ran THEN 1 ELSE 0
  BY DEF Stepped
<1>4. \A d \in Clients : d # c => got'[d] = got[d]
  BY <1>1
<1>5. \A d \in Clients : Keeps(d)' = Keeps(d)
  BY DEF Keeps
<1>6. /\ InEngine' = (w \cup Range(running)) \ ends
      /\ finished' = finished \cup ends /\ ends \subseteq ran /\ ran \subseteq w \cup Range(running)
      /\ foreign' \subseteq foreign \cup (ran \ {c})
  BY DEF Stepped, InEngine
<1>7. w \cup Range(running) \subseteq InEngine \cup {c} /\ InEngine \subseteq w \cup Range(running)
  BY DEF InEngine
<1>8. ASSUME NEW d \in Clients, d # c PROVE Good(d)'
  <2>1. Good(d)
    BY DEF EngineOK
  <2>2. d \notin InEngine => d \notin ran /\ d \notin InEngine' /\ d \notin ends
    BY <1>6, <1>7, <1>8
  <2>3. client'[d] = client[d] /\ client[d] \notin {"loop", "yield"} /\ got'[d] = got[d]
    <3>1. client[d] \notin {"loop", "yield"}
      BY <1>8 DEF LockOK, Holds
    <3>. QED
      BY <1>2, <1>4, <1>8, <3>1
  <2>4. Company(d)'
    BY <1>2, <1>8 DEF Company
  <2>5. produced[d] \in Nat /\ got[d] \in Nat /\ produced'[d] \in {produced[d], produced[d] + 1}
        /\ (d \notin ran => produced'[d] = produced[d])
    BY <1>1, <1>3
  <2>6. d \in added' => d \in added
    BY <1>8
  <2>7. d \notin added' => produced'[d] = 0 /\ d \notin InEngine' /\ d \notin finished' /\ d \notin foreign'
    BY <1>6, <2>1, <2>2, <2>5 DEF Good
  <2>8. d \in finished' => d \notin InEngine'
    BY <1>6, <2>1, <2>2 DEF Good
  <2>9. client'[d] = "ok" /\ Keeps(d) => d \in finished' /\ got'[d] = produced'[d] /\ d \notin foreign'
    BY <1>6, <2>1, <2>2, <2>3, <2>5 DEF Good
  <2>10. got'[d] <= produced'[d]
    BY <2>1, <2>3, <2>5 DEF Good
  <2>. QED
    BY <1>5, <2>1, <2>3, <2>4, <2>6, <2>7, <2>8, <2>9, <2>10 DEF Good
<1>9. Good(c)'
  <2>1. Good(c) /\ c \in added' /\ produced[c] \in Nat /\ got[c] \in Nat
    BY <1>1 DEF EngineOK
  <2>2. c \in finished' => c \notin InEngine'
    BY <1>6, <2>1 DEF Good, InEngine
  <2>3. /\ produced'[c] = produced[c] + IF c \in ran THEN 1 ELSE 0
        /\ \/ got'[c] = got[c] + (IF c \in ran THEN 1 ELSE 0) /\ faults' = faults
           \/ got'[c] = got[c] /\ faults' > 0 /\ status \notin {"loop", "yield"}
    BY <1>1, <1>3
  <2>4. status \in {"loop", "yield"} =>
           (c \in InEngine' \/ c \in finished') /\ got'[c] = produced'[c] /\ c \notin foreign'
    BY <1>6, <1>7, <2>1, <2>3 DEF Good
  <2>5. got'[c] <= produced'[c]
    BY <2>1, <2>3 DEF Good
  <2>6. got'[c] < produced'[c] => Company(c)'
    <3>1. Company(c) /\ faults' = faults => Company(c)'
      BY <1>2 DEF Company
    <3>2. faults' > 0 => Company(c)'
      BY DEF Company
    <3>3. got[c] < produced[c] => Company(c)
      BY <2>1 DEF Good
    <3>. QED
      BY <2>1, <2>3, <3>1, <3>2, <3>3
  <2>. QED
    BY <1>2, <1>5, <2>1, <2>2, <2>4, <2>5, <2>6 DEF Good
<1>10. got' \in [Clients -> Nat] /\ faults' \in Nat /\ produced' \in [Clients -> Nat]
  BY <1>1 DEF Stepped
<1>. QED
  BY <1>8, <1>9, <1>10 DEF EngineOK

(* add_request of a client that keeps the lock. *)
LEMMA Adds ==
    ASSUME IInv, NEW c \in Clients, Holds(c), client[c] = "lock", Keeps(c),
           waiting' = waiting \cup {c}, added' = added \cup {c}, client' = [client EXCEPT ![c] = "loop"],
           UNCHANGED <<port, queue, running, chunksLeft, produced, finished, faults, foreign, got>>
    PROVE  IInv'
<1>1. client \in [Clients -> States] /\ TypeOK /\ LockOK /\ EngineOK
  BY DEF TypeOK, IInv
<1>2. client'[c] = "loop" /\ \A d \in Clients : d # c => client'[d] = client[d]
  BY <1>1
<1>3. InEngine' = InEngine \cup {c} /\ \A d \in Clients : Keeps(d)' = Keeps(d) /\ (Company(d) => Company(d)')
  BY <1>2 DEF InEngine, Keeps, Company
<1>4. ASSUME NEW d \in Clients, d # c PROVE Good(d)'
  <2>1. Good(d)
    BY <1>1 DEF EngineOK
  <2>. QED
    BY <1>2, <1>3, <1>4, <2>1 DEF Good
<1>5. Good(c)'
  <2>1. Good(c) /\ c \notin added /\ got[c] \in Nat
    BY <1>1 DEF EngineOK, Good, TypeOK
  <2>. QED
    BY <1>2, <1>3, <2>1 DEF Good
<1>6. TypeOK'
  BY <1>1 DEF TypeOK, States
<1>7. LockOK'
  BY <1>1, Stays
<1>. QED
  BY <1>4, <1>5, <1>6, <1>7 DEF IInv, EngineOK

(* A handler that moves on, gives up its place or asks for the lock. *)
LEMMA HandlerMoves ==
    ASSUME IInv, NEW c \in Clients, NEW status \in States \ {"new"},
           client' = [client EXCEPT ![c] = status], UNCHANGED <<port, engineVars, got>>,
           LockOK' /\ queue' \in Seq(Clients),
           status = "lock" /\ Keeps(c) => c \notin added,
           status = "between" => ~ Keeps(c),
           status \in {"loop", "yield"} => client[c] \in {"loop", "yield"},
           status = "ok" /\ Keeps(c) => client[c] \in {"loop", "yield"} /\ c \in finished
    PROVE  IInv'
<1>1. EngineOK'
  BY Moves DEF IInv
<1>2. client' \in [Clients -> States]
  BY DEF IInv, TypeOK
<1>. QED
  BY <1>1, <1>2 DEF IInv, TypeOK, engineVars

(* The holder of the lock steps the engine and keeps or releases the lock. *)
LEMMA HandlerSteps ==
    ASSUME IInv, NEW c \in Clients, Holds(c), client[c] \in {"lock", "loop"},
           NEW status \in States \ {"new", "lock", "ok"}, client' = [client EXCEPT ![c] = status],
           NEW w \in SUBSET Clients,
           \/ w = waiting /\ c \in added
           \/ w = waiting \cup {c} /\ c \notin added,
           added' = added \cup {c}, UNCHANGED port, LockOK' /\ queue' \in Seq(Clients),
           StepOk(c, w) \/ StepErr(c, w), status \in {"loop", "yield"} => StepOk(c, w),
           status = "between" => ~ Keeps(c),
           status \in {"loop", "yield"} => client[c] = "loop"
    PROVE  IInv'
<1>1. TypeOK /\ LockOK /\ EngineOK
  BY DEF IInv
<1>2. PICK ran, ends :
         /\ Stepped(c, w, ran, ends)
         /\ \/ /\ got' = [got EXCEPT ![c] = @ + IF c \in ran THEN 1 ELSE 0]
               /\ faults' = faults
            \/ /\ got' = got /\ faults' = faults + 1
               /\ status \notin {"loop", "yield"}
  <2>1. CASE StepOk(c, w)
    BY <1>1, <2>1, StepOkFacts
  <2>2. CASE StepErr(c, w) /\ ~ StepOk(c, w)
    <3>1. status \notin {"loop", "yield"}
      BY <2>2
    <3>. QED
      BY <1>1, <2>2, <3>1, StepErrFacts
  <2>. QED
    BY <2>1, <2>2
<1>3. EngineOK' /\ got' \in [Clients -> Nat] /\ faults' \in Nat /\ produced' \in [Clients -> Nat]
  BY <1>1, <1>2, Steps
<1>4. client' \in [Clients -> States] /\ added' \in SUBSET Clients
  BY <1>1 DEF TypeOK
<1>5. /\ waiting' \in SUBSET Clients /\ running' \in Seq(Clients) /\ chunksLeft' \in [Clients -> Nat]
      /\ foreign' \in SUBSET Clients
  BY <1>2 DEF Stepped
<1>6. finished' \in SUBSET Clients
  <2>1. ends \subseteq w \cup Range(running) /\ finished' = finished \cup ends
    BY <1>2 DEF Stepped
  <2>2. Range(running) \subseteq Clients /\ finished \subseteq Clients
    BY <1>1, RangeOfSeq DEF TypeOK
  <2>. QED
    BY <2>1, <2>2
<1>. QED
  BY <1>1, <1>3, <1>4, <1>5, <1>6 DEF IInv, TypeOK

(* A client between add_request and its last token has been added. *)
LEMMA LoopAdded ==
    ASSUME IInv, NEW c \in Clients, client[c] \in {"loop", "yield"}
    PROVE  c \in added /\ (c \in InEngine \/ c \in finished)
  BY DEF IInv, EngineOK, Good

(* While its request is not finished, the engine has work for it. *)
LEMMA LoopHasWork ==
    ASSUME IInv, NEW c \in Clients, client[c] = "loop", c \notin finished
    PROVE  HasWork(waiting, running)
<1>1. c \in waiting \/ c \in Range(running)
  BY LoopAdded DEF InEngine
<1>2. c \in Range(running) => running # <<>>
  BY DEF Range
<1>. QED
  BY <1>1, <1>2 DEF HasWork

-----------------------------------------------------------------------------
(* A new client asks for the lock. *)
LEMMA ConnectKeeps ==
    ASSUME IInv, NEW c \in Clients, Connect(c), UNCHANGED port
    PROVE  IInv'
<1>1. TypeOK /\ LockOK /\ EngineOK /\ client[c] = "new"
  BY DEF IInv, Connect
<1>2. LockOK' /\ queue' \in Seq(Clients)
  BY <1>1, Asks DEF Connect
<1>3. c \notin added
  BY <1>1 DEF EngineOK, Good
<1>. QED
  BY <1>2, <1>3, HandlerMoves DEF Connect, States

(* A client that drops its connection leaves the queue of the lock. *)
LEMMA DisconnectKeeps ==
    ASSUME IInv, NEW c \in Clients, Disconnect(c), UNCHANGED port
    PROVE  IInv'
<1>1. LockOK' /\ queue' \in Seq(Clients)
  BY Leaves DEF IInv, Disconnect
<1>. QED
  BY <1>1, HandlerMoves DEF Disconnect, States

(* The handlers of the Rust server. *)
LEMMA RustHandlerKeeps ==
    ASSUME IInv, NEW c \in Clients, port = "rust", RustHandler(c), UNCHANGED port
    PROVE  IInv'
<1>0. TypeOK /\ LockOK /\ EngineOK /\ client \in [Clients -> States] /\ waiting \in SUBSET Clients
  BY DEF IInv, TypeOK
<1>. USE DEF States
<1>1. CASE BlockingAdd(c)
  <2>1. Keeps(c)
    BY <1>1 DEF BlockingAdd, Keeps
  <2>. QED
    BY <1>1, <2>1, Adds DEF BlockingAdd
<1>2. CASE BlockingReject(c)
  <2>1. Holds(c) /\ Release(c, "failed") /\ UNCHANGED <<engineVars, got>>
    BY <1>2 DEF BlockingReject
  <2>2. LockOK' /\ queue' \in Seq(Clients)
    BY <1>0, <2>1, Releases
  <2>. QED
    BY <2>1, <2>2, HandlerMoves DEF Release
<1>3. CASE BlockingStep(c)
  <2>1. Holds(c) /\ client[c] = "loop" /\ StepOk(c, waiting) /\ UNCHANGED <<client, queue, added>>
    BY <1>3 DEF BlockingStep
  <2>2. c \in added /\ client' = [client EXCEPT ![c] = "loop"]
    BY <1>0, <2>1, LoopAdded
  <2>3. LockOK' /\ queue' \in Seq(Clients)
    BY <1>0, <2>1, Stays DEF TypeOK
  <2>4. added' = added \cup {c}
    BY <2>1, <2>2
  <2>. QED
    BY <1>0, <2>1, <2>2, <2>3, <2>4, HandlerSteps
<1>4. CASE BlockingFail(c)
  <2>1. Holds(c) /\ client[c] = "loop" /\ StepErr(c, waiting) /\ Release(c, "failed") /\ UNCHANGED added
    BY <1>4 DEF BlockingFail
  <2>2. c \in added
    BY <2>1, LoopAdded
  <2>3. LockOK' /\ queue' \in Seq(Clients)
    BY <1>0, <2>1, Releases
  <2>4. added' = added \cup {c} /\ client' = [client EXCEPT ![c] = "failed"]
    BY <2>1, <2>2 DEF Release
  <2>5. "failed" \in States \ {"new", "lock", "ok"} /\ "failed" \notin {"loop", "yield"} /\ "failed" # "between"
    OBVIOUS
  <2>. HIDE DEF States
  <2>. QED
    BY <1>0, <2>1, <2>2, <2>3, <2>4, <2>5, HandlerSteps
<1>5. CASE BlockingReturn(c)
  <2>1. Holds(c) /\ client[c] = "loop" /\ Release(c, "ok") /\ UNCHANGED <<engineVars, got>> /\ c \in finished
    BY <1>5, LoopHasWork DEF BlockingReturn
  <2>2. LockOK' /\ queue' \in Seq(Clients)
    BY <1>0, <2>1, Releases
  <2>. QED
    BY <2>1, <2>2, HandlerMoves DEF Release
<1>6. ASSUME c \in Streaming PROVE ~ Keeps(c)
  BY <1>6, ServerAssumption DEF Keeps
<1>7. CASE StreamReject(c)
  <2>1. Holds(c) /\ Release(c, "between") /\ UNCHANGED <<engineVars, got>> /\ ~ Keeps(c)
    BY <1>6, <1>7 DEF StreamReject, Polling
  <2>2. LockOK' /\ queue' \in Seq(Clients)
    BY <1>0, <2>1, Releases
  <2>. QED
    BY <2>1, <2>2, HandlerMoves DEF Release
<1>8. CASE StreamEnd(c)
  <2>1. Holds(c) /\ Release(c, "ok") /\ UNCHANGED <<engineVars, got>> /\ ~ Keeps(c)
    BY <1>6, <1>8 DEF StreamEnd, Polling
  <2>2. LockOK' /\ queue' \in Seq(Clients)
    BY <1>0, <2>1, Releases
  <2>. QED
    BY <2>1, <2>2, HandlerMoves DEF Release
<1>9. CASE StreamStep(c)
  <2>1. /\ Holds(c) /\ client[c] = "lock" /\ Release(c, "between") /\ added' = added \cup {c} /\ ~ Keeps(c)
        /\ StepOk(c, Waiting(c)) \/ StepErr(c, Waiting(c))
    BY <1>6, <1>9 DEF StreamStep, Polling
  <2>2. LockOK' /\ queue' \in Seq(Clients)
    BY <1>0, <2>1, Releases
  <2>3. /\ Waiting(c) \in SUBSET Clients
        /\ \/ Waiting(c) = waiting /\ c \in added
           \/ Waiting(c) = waiting \cup {c} /\ c \notin added
    BY <1>0 DEF Waiting
  <2>4. "between" \in States \ {"new", "lock", "ok"} /\ "between" \notin {"loop", "yield"}
    OBVIOUS
  <2>5. client' = [client EXCEPT ![c] = "between"]
    BY <2>1 DEF Release
  <2>. HIDE DEF States
  <2>. QED
    BY <2>1, <2>2, <2>3, <2>4, <2>5, HandlerSteps
<1>10. CASE StreamPoll(c)
  <2>1. client[c] = "between" /\ queue' = Append(queue, c) /\ client' = [client EXCEPT ![c] = "lock"]
        /\ UNCHANGED <<engineVars, got>>
    BY <1>10 DEF StreamPoll
  <2>2. LockOK' /\ queue' \in Seq(Clients)
    BY <1>0, <2>1, Asks
  <2>3. ~ Keeps(c)
    BY <1>0, <2>1 DEF EngineOK, Good
  <2>. QED
    BY <2>1, <2>2, <2>3, HandlerMoves
<1>. QED
  BY <1>1, <1>2, <1>3, <1>4, <1>5, <1>7, <1>8, <1>9, <1>10 DEF RustHandler

(* The handlers of the Python server. *)
LEMMA PyHandlerKeeps ==
    ASSUME IInv, NEW c \in Clients, port = "python", PyHandler(c), UNCHANGED port
    PROVE  IInv'
<1>0. /\ TypeOK /\ LockOK /\ EngineOK /\ client \in [Clients -> States] /\ waiting \in SUBSET Clients
      /\ Keeps(c)
  BY DEF IInv, TypeOK, Keeps
<1>. USE DEF States
<1>1. CASE PyAdd(c)
  BY <1>0, <1>1, Adds DEF PyAdd
<1>2. CASE PyReject(c)
  <2>1. Holds(c) /\ Release(c, "failed") /\ UNCHANGED <<engineVars, got>>
    BY <1>2 DEF PyReject
  <2>2. LockOK' /\ queue' \in Seq(Clients)
    BY <1>0, <2>1, Releases
  <2>. QED
    BY <2>1, <2>2, HandlerMoves DEF Release
<1>3. CASE PyStep(c)
  <2>1. Holds(c) /\ client[c] = "loop" /\ StepOk(c, waiting) /\ UNCHANGED <<queue, added>>
    BY <1>3 DEF PyStep, Looping
  <2>2. PICK status \in {"loop", "yield"} : client' = [client EXCEPT ![c] = status]
    <3>1. client = [client EXCEPT ![c] = "loop"]
      BY <1>0, <2>1
    <3>. QED
      BY <1>3, <3>1 DEF PyStep
  <2>3. c \in added
    BY <2>1, LoopAdded
  <2>4. LockOK' /\ queue' \in Seq(Clients)
    BY <1>0, <2>1, <2>2, Stays DEF TypeOK
  <2>5. added' = added \cup {c}
    BY <2>1, <2>3
  <2>. QED
    BY <1>0, <2>1, <2>2, <2>3, <2>4, <2>5, HandlerSteps
<1>4. CASE PyFail(c)
  <2>1. Holds(c) /\ client[c] = "loop" /\ StepErr(c, waiting) /\ Release(c, "failed") /\ UNCHANGED added
    BY <1>4 DEF PyFail, Looping
  <2>2. c \in added
    BY <2>1, LoopAdded
  <2>3. LockOK' /\ queue' \in Seq(Clients)
    BY <1>0, <2>1, Releases
  <2>4. added' = added \cup {c} /\ client' = [client EXCEPT ![c] = "failed"]
    BY <2>1, <2>2 DEF Release
  <2>5. "failed" \in States \ {"new", "lock", "ok"} /\ "failed" \notin {"loop", "yield"} /\ "failed" # "between"
    OBVIOUS
  <2>. HIDE DEF States
  <2>. QED
    BY <1>0, <2>1, <2>2, <2>3, <2>4, <2>5, HandlerSteps
<1>5. CASE PyResume(c) \/ PyReturn(c)
  <2>1. Holds(c) /\ client[c] \in {"loop", "yield"} /\ UNCHANGED <<engineVars, got>>
    BY <1>5 DEF PyResume, PyReturn
  <2>2. CASE c \in finished /\ Release(c, "ok")
    <3>1. LockOK' /\ queue' \in Seq(Clients)
      BY <1>0, <2>1, <2>2, Releases
    <3>. QED
      BY <2>1, <2>2, <3>1, HandlerMoves DEF Release
  <2>3. CASE client' = [client EXCEPT ![c] = "loop"] /\ UNCHANGED queue
    <3>1. LockOK' /\ queue' \in Seq(Clients)
      BY <1>0, <2>1, <2>3, Stays DEF TypeOK
    <3>. QED
      BY <2>1, <2>3, <3>1, HandlerMoves
  <2>. QED
    BY <1>5, <2>2, <2>3 DEF PyResume, PyReturn
<1>. QED
  BY <1>1, <1>2, <1>3, <1>4, <1>5 DEF PyHandler

(* Nobody is connected and the engine is empty. *)
LEMMA InvInit == Init => IInv
<1>. SUFFICES ASSUME Init PROVE IInv
  OBVIOUS
<1>1. TypeOK
  BY ServerAssumption DEF Init, TypeOK, States
<1>2. LockOK
  BY DEF Init, LockOK, IsInjective
<1>3. EngineOK
  <2>1. InEngine = {}
    BY DEF Init, InEngine, Range
  <2>. QED
    BY <2>1 DEF Init, EngineOK, Good
<1>. QED
  BY <1>1, <1>2, <1>3 DEF IInv

(* Every step of either server keeps the invariant. *)
LEMMA InvNext == IInv /\ [Next]_vars => IInv'
<1>. SUFFICES ASSUME IInv, [Next]_vars PROVE IInv'
  OBVIOUS
<1>1. CASE UNCHANGED vars
  BY <1>1 DEF vars, engineVars, IInv, TypeOK, LockOK, Holds, EngineOK, Good, InEngine, Keeps, Company
<1>2. CASE Next
  BY <1>2, ConnectKeeps, DisconnectKeeps, RustHandlerKeeps, PyHandlerKeeps DEF Next, Handler
<1>. QED
  BY <1>1, <1>2

(* Every state of either server satisfies IInv. *)
THEOREM ServerInvariant == Spec => []IInv
  BY InvInit, InvNext, PTL DEF Spec

(* Undivided: on the Python server one client at a time is between its     *)
(* add_request and its last token, and it is given every token its request *)
(* produces (routes.py:211-212).                                           *)
THEOREM OneClientAtATime == Spec => []Undivided
<1>1. IInv => Undivided
  <2>. SUFFICES ASSUME IInv, port = "python" PROVE
           /\ Cardinality({c \in Clients : client[c] \in {"loop", "yield"}}) <= 1
           /\ \A c \in Clients : client[c] \in {"loop", "yield", "ok"} => got[c] = produced[c]
    BY DEF Undivided
  <2>. DEFINE L == {c \in Clients : client[c] \in {"loop", "yield"}}
  <2>1. L \subseteq {Head(queue)}
    BY DEF IInv, LockOK, Holds
  <2>2. IsFiniteSet({Head(queue)}) /\ Cardinality({Head(queue)}) = 1
    BY FS_Singleton
  <2>3. Cardinality(L) <= 1
    BY <2>1, <2>2, FS_Subset
  <2>4. \A c \in Clients : client[c] \in {"loop", "yield", "ok"} => got[c] = produced[c]
    BY DEF IInv, EngineOK, Good, Keeps
  <2>. QED
    BY <2>3, <2>4
<1>. QED
  BY <1>1, ServerInvariant, PTL

(* WholeAnswers: a blocking client that is answered was given every token  *)
(* of its finished request, each drawn with its own settings               *)
(* (handlers.rs:60-104, 165-201, routes.py:171-194).                       *)
THEOREM AnswersAreWhole == Spec => []WholeAnswers
<1>1. IInv => WholeAnswers
  BY DEF IInv, EngineOK, Good, Keeps, WholeAnswers, Clients
<1>. QED
  BY <1>1, ServerInvariant, PTL

(* LossNeedsCompany: a stream loses a token only to another client or to a *)
(* failed step, and never gets one too many (streaming.rs:34-91).          *)
THEOREM LossOnlyInCompany == Spec => []LossNeedsCompany
<1>1. IInv => LossNeedsCompany
  <2>. SUFFICES ASSUME IInv, NEW c \in Streaming
                PROVE \/ got[c] = produced[c]
                      \/ got[c] < produced[c] /\ (faults > 0 \/ \E d \in Clients \ {c} : client[d] # "new")
    BY DEF LossNeedsCompany
  <2>1. c \in Clients
    BY DEF Clients
  <2>2. Good(c) /\ got[c] \in Nat /\ produced[c] \in Nat
    BY <2>1 DEF IInv, EngineOK, TypeOK
  <2>. QED
    BY <2>2 DEF Good, Company
<1>. QED
  BY <1>1, ServerInvariant, PTL
=============================================================================
