----------------------------- MODULE Runner_proof -----------------------------
(***************************************************************************)
(* Proofs about the scheduler and the two engines that drive it, for any   *)
(* finite set of requests, any prompts, batch size, token budget, chunk    *)
(* and block size, any number of KV layers, of failing passes and of       *)
(* insertions that panic, and every configuration.                         *)
(***************************************************************************)
EXTENDS Runner, DataLemmas, TLAPS

(* The sum over all requests, and the blocks of their layer tables. *)
Total(f) == SumFunctionOnSet(f, Requests)

LayerTotal == [r \in Requests |-> Sum(layer[r])]

(* Types, by what the steps change together. *)
QueueTypes ==
    /\ waiting \in SUBSET Requests
    /\ running \in Seq(Requests)
    /\ Len(running) <= MaxBatch
    /\ state \in [Requests -> {"new", "waiting", "prefill", "decode", "finished"}]
    /\ \A r \in Requests : state[r] = "waiting" <=> r \in waiting
    /\ \A i, j \in DOMAIN running : running[i] = running[j] => i = j
    /\ \A i \in DOMAIN running : state[running[i]] \in {"prefill", "decode", "finished"}

RequestTypes ==
    /\ prefillPos \in [Requests -> Nat]
    /\ outLen \in [Requests -> Nat]
    /\ fed \in [Requests -> SUBSET Nat]
    /\ forwarded \in [Requests -> SUBSET Nat]

PoolTypes ==
    /\ tables \in SUBSET Requests
    /\ own \in [Requests -> Nat]
    /\ shared \in [Requests -> Nat]
    /\ layer \in [Requests -> [Layers -> Nat]]
    /\ cached \in Nat
    /\ free \in Nat
    /\ stranded \in SUBSET Requests

WalkTypes ==
    /\ phase \in {"idle", "reap", "admit", "build", "run"}
    /\ cursor \in Nat
    /\ batch \in Seq(Entries)
    /\ prefillTokens \in Nat
    /\ numDecode \in Nat
    /\ nextLayer \in Nat \ {0}
    /\ faults \in Nat

Types == conf \in Configs /\ QueueTypes /\ RequestTypes /\ PoolTypes /\ WalkTypes

(* A request has fewer tokens than it may get until it is finished. *)
Progress ==
    \A r \in Requests :
        /\ prefillPos[r] <= PromptLen[r]
        /\ state[r] \in {"new", "waiting", "prefill"} => outLen[r] = 0
        /\ state[r] # "finished" => SeqLen(r) < MaxSeqLen(r)

(* Entries whose pass is still to come. *)
Pending(i) == phase = "build" \/ i >= cursor

EntryOK(e) ==
    /\ e.rid \in Range(running)
    /\ state[e.rid] = IF e.samples THEN "decode" ELSE "prefill"
    /\ e.hi <= SeqLen(e.rid)
    /\ e.samples => e.hi = SeqLen(e.rid)
    /\ e.lo > 0 \/ UseKv => e.hi <= TableLen(e.rid) * BlockSize

(* The batch has one entry at most for each request, none for those that
   build_batch has not come to. *)
BatchOK ==
    /\ phase \in {"idle", "reap", "admit"} => batch = <<>>
    /\ phase = "build" => cursor \in 1 .. Len(running) + 1
    /\ phase = "run" => cursor \in 1 .. Len(batch) + 1
    /\ \A i, j \in DOMAIN batch : batch[i].rid = batch[j].rid => i = j
    /\ \A i \in DOMAIN batch : batch[i].lo < batch[i].hi
    /\ \A i \in DOMAIN batch : Pending(i) => EntryOK(batch[i])
    /\ phase = "build" =>
          \A i \in DOMAIN batch : \A j \in cursor .. Len(running) : batch[i].rid # running[j]

(* Configurations that release the tables of finished requests. *)
Released == conf.engine = "python" \/ UseKv

(* Requests that may have tables. *)
Holders == Range(running) \cup stranded

(* Where the blocks are, and who has none. *)
Books ==
    /\ free + cached + Total(own) + Total(LayerTotal) = NumBlocks
    /\ conf.engine = "python" \/ ~ UseKv => \A r \in Requests : \A l \in Layers : layer[r][l] = 0
    /\ Released =>
          /\ tables \subseteq Holders
          /\ \A r \in Requests \ Holders : own[r] = 0 /\ \A l \in Layers : layer[r][l] = 0
    /\ conf.engine = "rust" => \A i \in DOMAIN running : state[running[i]] # "finished"
    /\ conf.engine = "python" => \A r \in Requests : state[r] = "finished" => own[r] = 0
    /\ ~ Released => cached = 0

(* Only the Rust engine strands requests, which are finished then: its
   running requests are not. *)
Stranding ==
    /\ stranded # {} => conf.engine = "rust"
    /\ \A r \in stranded : state[r] = "finished"

(* No table is longer than its request needs, and the prefix cache has what
   finished requests left in it. *)
LeftBehind == [r \in Requests |-> IF state[r] = "finished" /\ r \notin stranded THEN Left(r) ELSE 0]

Limits ==
    /\ \A r \in Requests : own[r] <= TableNeed(r) /\ \A l \in Layers : layer[r][l] <= TableNeed(r)
    /\ cached <= Total(LeftBehind)

(* With a pool that any batch fits no position was skipped. *)
Feeding ==
    Fits =>
        /\ \A r \in Requests :
              /\ state[r] = "prefill" => 0 .. prefillPos[r] - 1 \subseteq fed[r]
              /\ state[r] = "decode" => 0 .. SeqLen(r) - 2 \subseteq fed[r]
        /\ \A i \in DOMAIN batch : 0 .. batch[i].hi - 1 \subseteq fed[batch[i].rid]

(* With such a pool and until a pass fails or an insertion panics, a position
   that was scheduled was forwarded, or it will be by a pending entry. *)
Forwarding ==
    Fits /\ faults = 0 /\ stranded = {} =>
        \A r \in Requests : \A p \in fed[r] :
            \/ p \in forwarded[r]
            \/ \E i \in DOMAIN batch :
                  Pending(i) /\ batch[i].rid = r /\ p \in batch[i].lo .. batch[i].hi - 1

IInv == Types /\ Progress /\ BatchOK /\ Books /\ Stranding /\ Limits /\ Feeding /\ Forwarding

-----------------------------------------------------------------------------
(* The steps, by what they do to the state; only what the proofs use. *)

EngineSame == UNCHANGED <<conf, layer, nextLayer, cached, faults, stranded, forwarded>>

AddStep(r) == AddRequest(r) /\ EngineSame

QuietStep == (Schedule \/ ReapDone \/ AdmitDone \/ BuildDone \/ RunDone) /\ EngineSame

ReapStep(i) == ReapNext(i) /\ EngineSame

AdmitStep(r, m, j) ==
    /\ Admit(r, m, j)
    /\ forwarded' = IF m = 0 THEN forwarded ELSE [forwarded EXCEPT ![r] = 0 .. m - 1]
    /\ UNCHANGED <<conf, layer, nextLayer, cached, faults, stranded>>

SkipStep(r) ==
    /\ PrefillEmpty(r) \/ PrefillNoBudget(r) \/ PrefillOOM(r) \/ DecodeNoBudget(r) \/ DecodeOOM(r)
    /\ EngineSame

ChunkStep(r) == PrefillChunk(r) /\ EngineSame

TokenStep(r) == DecodeToken(r) /\ EngineSame

LayerStep(e) == EnsureLayer(e) /\ UNCHANGED conf

LostStep(e) == (LayerOOM(e) \/ ForwardError(e)) /\ UNCHANGED conf

PassStep(e) == ForwardOnly(e) /\ UNCHANGED conf

BlankStep(e) == NoLogits(e) /\ UNCHANGED conf

StrandStep(e) == InsertPanic(e) /\ UNCHANGED conf

MoreStep(e) == RecordMore(e) /\ UNCHANGED conf

LastStep(e, k) == FinishRequest(e, k) /\ UNCHANGED conf

PythonLastStep(e, k) == PythonFinish(e, k) /\ UNCHANGED conf

(* Every step is one of them. *)
LEMMA StepCases ==
    ASSUME SchedulerAssumption, Types, RunnerNext
    PROVE  \/ \E r \in Requests : AddStep(r)
           \/ QuietStep
           \/ \E i \in DOMAIN running : ReapStep(i)
           \/ \E r \in Requests : \E m \in 0 .. CachedTokens[r] : \E j \in Nat : AdmitStep(r, m, j)
           \/ \E r \in Requests : SkipStep(r) \/ ChunkStep(r) \/ TokenStep(r)
           \/ \E e \in Entries : LayerStep(e) \/ LostStep(e) \/ StrandStep(e)
           \/ \E e \in Entries : PassStep(e) \/ BlankStep(e) \/ MoreStep(e)
           \/ \E e \in Entries : \E k \in Nat : LastStep(e, k) \/ PythonLastStep(e, k)
<1>1. CASE Arrival
  BY <1>1 DEF Arrival, AddStep, EngineSame, runnerOnly
<1>2. CASE AdmitHit
  <2>1. PICK r \in Requests : \E m \in 1 .. CachedTokens[r] : \E j \in 0 .. m :
            Admit(r, m, j) /\ forwarded' = [forwarded EXCEPT ![r] = 0 .. m - 1]
    BY <1>2 DEF AdmitHit
  <2>2. PICK m \in 1 .. CachedTokens[r] : \E j \in 0 .. m :
            Admit(r, m, j) /\ forwarded' = [forwarded EXCEPT ![r] = 0 .. m - 1]
    BY <2>1
  <2>3. CachedTokens[r] \in Nat
    BY DEF SchedulerAssumption
  <2>4. m \in 0 .. CachedTokens[r] /\ m # 0
    BY <2>3
  <2>5. PICK j \in 0 .. m : Admit(r, m, j) /\ forwarded' = [forwarded EXCEPT ![r] = 0 .. m - 1]
    BY <2>2
  <2>6. j \in Nat
    OBVIOUS
  <2>7. AdmitStep(r, m, j)
    BY <1>2, <2>4, <2>5 DEF AdmitHit, AdmitStep
  <2>. QED
    BY <2>4, <2>6, <2>7
<1>3. CASE ScheduleStep
  <2>1. EngineSame
    BY <1>3 DEF ScheduleStep, EngineSame
  <2>2. ASSUME NEW r \in Requests, Admit(r, 0, 0) PROVE 0 \in 0 .. CachedTokens[r] /\ AdmitStep(r, 0, 0)
    <3>1. CachedTokens[r] \in Nat
      BY DEF SchedulerAssumption
    <3>. QED
      BY <2>1, <2>2, <3>1 DEF AdmitStep, EngineSame
  <2>3. ASSUME NEW i, ReapNext(i) PROVE i \in DOMAIN running
    BY <2>3 DEF ReapNext
  <2>. QED
    BY <1>3, <2>1, <2>2, <2>3, Zenon
       DEF ScheduleStep, QuietStep, ReapStep, BuildStep, SkipStep, ChunkStep, TokenStep
<1>4. CASE Walk
  <2>1. conf' = conf
    BY <1>4 DEF Walk
  <2>2. ASSUME NEW e, Running(e) PROVE e \in Entries
    BY <2>2, ElementOfSeq DEF Running, Types, WalkTypes
  <2>3. \A k \in 0 .. NumBlocks : k \in Nat
    OBVIOUS
  <2>4. CASE RunDone /\ UNCHANGED <<layer, nextLayer, cached, faults, stranded, forwarded, slab>>
    BY <2>1, <2>4 DEF QuietStep, EngineSame
  <2>5. CASE \E i \in DOMAIN batch :
                EnsureLayer(batch[i]) \/ LayerOOM(batch[i]) \/ ForwardError(batch[i])
                \/ InsertPanic(batch[i])
    <3>1. PICK i \in DOMAIN batch :
                EnsureLayer(batch[i]) \/ LayerOOM(batch[i]) \/ ForwardError(batch[i])
                \/ InsertPanic(batch[i])
      BY <2>5
    <3>2. Running(batch[i])
      BY <3>1 DEF EnsureLayer, LayerOOM, Growing, ForwardError, InsertPanic, RecordOutput
    <3>3. batch[i] \in Entries
      BY <2>2, <3>2
    <3>. QED
      BY <2>1, <3>1, <3>3, Zenon DEF LayerStep, LostStep, StrandStep
  <2>7. CASE \E i \in DOMAIN batch :
                ForwardOnly(batch[i]) \/ NoLogits(batch[i]) \/ RecordMore(batch[i])
    <3>1. PICK i \in DOMAIN batch :
                ForwardOnly(batch[i]) \/ NoLogits(batch[i]) \/ RecordMore(batch[i])
      BY <2>7
    <3>2. Running(batch[i])
      BY <3>1 DEF ForwardOnly, NoSample, NoLogits, RecordMore, RecordOutput
    <3>3. batch[i] \in Entries
      BY <2>2, <3>2
    <3>. QED
      BY <2>1, <3>1, <3>3, Zenon DEF PassStep, BlankStep, MoreStep
  <2>6. CASE \E i \in DOMAIN batch, k \in 0 .. NumBlocks :
                FinishRequest(batch[i], k) \/ PythonFinish(batch[i], k)
    <3>1. PICK i \in DOMAIN batch, k \in 0 .. NumBlocks :
                FinishRequest(batch[i], k) \/ PythonFinish(batch[i], k)
      BY <2>6
    <3>2. Running(batch[i])
      BY <3>1 DEF FinishRequest, PythonFinish, RecordOutput
    <3>3. batch[i] \in Entries
      BY <2>2, <3>2
    <3>. QED
      BY <2>1, <2>3, <3>1, <3>3, Zenon DEF LastStep, PythonLastStep
  <2>. QED
    BY <1>4, <2>4, <2>5, <2>6, <2>7, Zenon DEF Walk
<1>. QED
  BY <1>1, <1>2, <1>3, <1>4 DEF RunnerNext

-----------------------------------------------------------------------------
(* Blocks that tokens fill. *)

(* A product grows with its factor. *)
LEMMA MultMono ==
    ASSUME NEW a \in Int, NEW b \in Int, NEW y \in Nat, a <= b
    PROVE  a * y <= b * y
<1>1. PICK d \in Nat : b = a + d
  <2>1. b - a \in Nat /\ b = a + (b - a)
    OBVIOUS
  <2>. QED
    BY <2>1
<1>2. d * y \in Nat /\ a * y \in Int
  OBVIOUS
<1>3. (a + d) * y = a * y + d * y
  OBVIOUS
<1>. QED
  BY <1>1, <1>2, <1>3

(* CeilDiv gives the fewest blocks of size y that hold x tokens. *)
LEMMA CeilDivFills ==
    ASSUME NEW x \in Nat, NEW y \in Nat \ {0}
    PROVE  /\ CeilDiv(x, y) \in Nat
           /\ x <= CeilDiv(x, y) * y
           /\ \A m \in Int : x <= m * y => CeilDiv(x, y) <= m
           /\ x = 0 => CeilDiv(x, y) = 0
<1>. DEFINE q == (x + y - 1) \div y
            k == (x + y - 1) % y
<1>1. q \in Int /\ k \in 0 .. y - 1 /\ x + y - 1 = y * q + k
  <2>1. x + y - 1 \in Int /\ y \in Int /\ y > 0
    OBVIOUS
  <2>. QED
    BY <2>1
<1>2. CeilDiv(x, y) = q
  BY DEF CeilDiv
<1>. HIDE DEF q, k
<1>3. y * q = q * y /\ q * y \in Int
  BY <1>1
<1>4. x <= q * y /\ q * y < x + y
  BY <1>1, <1>3
<1>5. ASSUME NEW m \in Int, x <= m * y PROVE q <= m
  <2>1. SUFFICES ASSUME m + 1 <= q PROVE FALSE
    BY <1>1
  <2>2. (m + 1) * y <= q * y
    BY <1>1, <2>1, MultMono
  <2>3. (m + 1) * y = m * y + y /\ m * y \in Int
    OBVIOUS
  <2>. QED
    BY <1>3, <1>4, <1>5, <2>2, <2>3
<1>6. q \in Nat
  <2>1. SUFFICES ASSUME q + 1 <= 0 PROVE FALSE
    BY <1>1
  <2>2. (q + 1) * y <= 0 * y
    BY <1>1, <2>1, MultMono
  <2>3. (q + 1) * y = q * y + y /\ 0 * y = 0
    BY <1>1
  <2>. QED
    BY <1>3, <1>4, <2>2, <2>3
<1>7. x = 0 => q = 0
  <2>1. x = 0 => x <= 0 * y
    OBVIOUS
  <2>2. x = 0 => q <= 0
    BY <1>5, <2>1
  <2>. QED
    BY <1>6, <2>2
<1>. QED
  BY <1>2, <1>4, <1>5, <1>6, <1>7

(* A table of t blocks that grows by what it misses for x tokens covers
   them, and does not grow beyond any table that does. *)
LEMMA GrowsToFit ==
    ASSUME NEW x \in Nat, NEW t \in Nat, NEW y \in Nat \ {0}
    PROVE  LET n == CeilDiv(Monus(x, t * y), y) IN
           /\ n \in Nat
           /\ x <= (t + n) * y
           /\ \A z \in Nat : x <= z => n = 0 \/ t + n <= CeilDiv(z, y)
<1>. DEFINE n == CeilDiv(Monus(x, t * y), y)
<1>0. t * y \in Nat
  OBVIOUS
<1>1. Monus(x, t * y) \in Nat /\ (x <= t * y => Monus(x, t * y) = 0)
      /\ (t * y < x => Monus(x, t * y) = x - t * y)
  BY <1>0 DEF Monus
<1>2. /\ n \in Nat /\ Monus(x, t * y) <= n * y
      /\ \A m \in Int : Monus(x, t * y) <= m * y => n <= m
      /\ Monus(x, t * y) = 0 => n = 0
  BY <1>1, CeilDivFills
<1>. HIDE DEF n
<1>3. (t + n) * y = t * y + n * y /\ n * y \in Nat
  BY <1>2
<1>4. x <= (t + n) * y
  BY <1>0, <1>1, <1>2, <1>3
<1>5. ASSUME NEW z \in Nat, x <= z, n # 0 PROVE t + n <= CeilDiv(z, y)
  <2>. DEFINE m == CeilDiv(z, y)
  <2>1. m \in Nat /\ z <= m * y
    BY CeilDivFills
  <2>. HIDE DEF m
  <2>2. (m - t) * y = m * y - t * y /\ m * y \in Nat
    BY <2>1
  <2>3. Monus(x, t * y) <= (m - t) * y
    <3>1. Monus(x, t * y) = x - t * y
      BY <1>0, <1>1, <1>2, <1>5
    <3>2. x <= m * y
      BY <1>5, <2>1, <2>2
    <3>3. \A a \in Nat, b \in Nat : x <= b => x - a <= b - a
      OBVIOUS
    <3>4. x - t * y <= m * y - t * y
      BY <1>0, <2>2, <3>2, <3>3, Zenon
    <3>. QED
      BY <2>2, <3>1, <3>4, Zenon
  <2>4. n <= m - t
    <3>1. m - t \in Int
      BY <2>1
    <3>. QED
      BY <1>2, <2>3, <3>1, Zenon
  <2>. QED
    BY <1>2, <2>1, <2>4 DEF m
<1>. QED
  BY <1>2, <1>4, <1>5 DEF n

-----------------------------------------------------------------------------
(* Types. *)

(* The configuration and the parameters of a request. *)
LEMMA Parameters ==
    ASSUME SchedulerAssumption, RunnerAssumption
    PROVE  /\ IsFiniteSet(Requests)
           /\ \A r \in Requests : /\ PromptLen[r] \in Nat \ {0}
                                  /\ MaxNew[r] \in Nat
                                  /\ CachedTokens[r] \in Nat
                                  /\ CachedTokens[r] <= PromptLen[r]
           /\ MaxBatch \in Nat \ {0}
           /\ MaxTokensPerStep \in Nat
           /\ ChunkSize \in Nat \ {0}
           /\ BlockSize \in Nat \ {0}
           /\ NumLayers \in Nat
  BY DEF SchedulerAssumption, RunnerAssumption

(* The engine and the size of the pool of a configuration. *)
LEMMA ConfigTypes ==
    ASSUME SchedulerAssumption, conf \in Configs
    PROVE  /\ conf.engine \in {"rust", "python"}
           /\ conf.kv \in BOOLEAN /\ conf.prefix \in BOOLEAN
           /\ NumBlocks \in Nat \ {0}
<1>1. conf \in [engine : {"rust", "python"}, kv : BOOLEAN, prefix : BOOLEAN, blocks : Nat \ {0}]
  BY DEF SchedulerAssumption
<1>. QED
  BY <1>1 DEF NumBlocks

(* The sequences' lengths and domains. *)
LEMMA Lengths ==
    ASSUME Types
    PROVE  /\ Len(running) \in Nat /\ DOMAIN running = 1 .. Len(running)
           /\ Len(batch) \in Nat /\ DOMAIN batch = 1 .. Len(batch)
           /\ \A i \in DOMAIN running : running[i] \in Requests
           /\ \A i \in DOMAIN batch : batch[i] \in Entries
  BY LenProperties, ElementOfSeq DEF Types, QueueTypes, WalkTypes

(* The fields of an entry. *)
LEMMA EntryFields ==
    ASSUME NEW e \in Entries
    PROVE  e.rid \in Requests /\ e.lo \in Nat /\ e.hi \in Nat /\ e.n \in Nat /\ e.samples \in BOOLEAN
  BY DEF Entries

(* The layers are finitely many, and so are the blocks in their tables. *)
LEMMA LayerSums ==
    ASSUME RunnerAssumption, NEW f \in [Layers -> Nat]
    PROVE  /\ IsFiniteSet(Layers) /\ Cardinality(Layers) = NumLayers
           /\ Sum(f) = SumFunctionOnSet(f, Layers)
           /\ Sum(f) \in Nat
<1>1. IsFiniteSet(Layers) /\ Cardinality(Layers) = NumLayers
  BY FS_Interval DEF RunnerAssumption, Layers
<1>2. Sum(f) = SumFunctionOnSet(f, Layers)
  BY DEF Sum, SumFunction
<1>3. \A l \in Layers : f[l] \in Nat
  OBVIOUS
<1>4. SumFunctionOnSet(f, Layers) \in Nat
  BY <1>1, <1>3, SumTakes
<1>. QED
  BY <1>1, <1>2, <1>4

(* What a table misses is a number, and free of side conditions. *)
LEMMA MissingFacts ==
    ASSUME SchedulerAssumption, RunnerAssumption, Types, NEW r \in Requests, NEW x \in Nat
    PROVE  /\ Missing(r, x) \in Nat
           /\ x <= (TableLen(r) + Missing(r, x)) * BlockSize
           /\ \A z \in Nat : x <= z => Missing(r, x) = 0 \/ TableLen(r) + Missing(r, x) <= CeilDiv(z, BlockSize)
<1>1. TableLen(r) \in Nat /\ BlockSize \in Nat \ {0}
  BY Parameters DEF Types, PoolTypes, TableLen
<1>. QED
  BY <1>1, GrowsToFit DEF Missing

(* The queue, when a request is taken out of `running`. *)
LEMMA Leaves ==
    ASSUME SchedulerAssumption, Types, waiting' = waiting, running' \in Seq(Requests), Len(running') <= Len(running),
           \A i, j \in DOMAIN running' : running'[i] = running'[j] => i = j,
           Range(running') \subseteq Range(running),
           state' \in [Requests -> {"new", "waiting", "prefill", "decode", "finished"}],
           \A r \in Requests : state'[r] = state[r] \/ (r \in Range(running) /\ state'[r] = "finished")
    PROVE  QueueTypes'
<1>1. Len(running') <= MaxBatch /\ waiting' \in SUBSET Requests
  <2>1. Len(running) \in Nat /\ Len(running') \in Nat /\ MaxBatch \in Nat
    BY LenProperties, Lengths DEF SchedulerAssumption
  <2>. QED
    BY <2>1 DEF Types, QueueTypes
<1>2. \A r \in Range(running) : r \in Requests /\ state[r] \in {"prefill", "decode", "finished"}
  BY Lengths DEF Types, QueueTypes, Range
<1>3. \A r \in Requests : state'[r] = "waiting" <=> r \in waiting
  BY <1>2, Zenon DEF Types, QueueTypes
<1>4. \A i \in DOMAIN running' : running'[i] \in Range(running)
  BY DEF Range
<1>5. \A i \in DOMAIN running' : state'[running'[i]] \in {"prefill", "decode", "finished"}
  BY <1>2, <1>4
<1>6. \A r \in Requests : state'[r] = "waiting" <=> r \in waiting'
  BY <1>3
<1>. QED
  BY <1>1, <1>5, <1>6, Zenon DEF QueueTypes

(* A batch with another entry. *)
LEMMA Appended ==
    ASSUME Types, NEW e \in Entries, batch' = Append(batch, e)
    PROVE  /\ batch' \in Seq(Entries) /\ Len(batch') = Len(batch) + 1
           /\ DOMAIN batch' = 1 .. Len(batch) + 1
           /\ \A i \in DOMAIN batch : i \in DOMAIN batch' /\ batch'[i] = batch[i]
           /\ batch'[Len(batch) + 1] = e
           /\ \A i \in DOMAIN batch' : i \in DOMAIN batch \/ i = Len(batch) + 1
<1>1. batch \in Seq(Entries) /\ Len(batch) \in Nat /\ DOMAIN batch = 1 .. Len(batch)
  BY Lengths DEF Types, WalkTypes
<1>2. /\ batch' \in Seq(Entries) /\ Len(batch') = Len(batch) + 1
      /\ \A i \in 1 .. Len(batch) : batch'[i] = batch[i]
      /\ batch'[Len(batch) + 1] = e
  BY <1>1, AppendProperties
<1>3. DOMAIN batch' = 1 .. Len(batch) + 1
  BY <1>2, LenProperties
<1>. QED
  BY <1>1, <1>2, <1>3

(* The steps keep the types of what they change; what becomes of the free
   list is a matter of the books. *)
LEMMA AddTypes ==
    ASSUME SchedulerAssumption, Types, NEW r \in Requests, AddStep(r)
    PROVE  Types'
<1>1. state \in [Requests -> {"new", "waiting", "prefill", "decode", "finished"}]
      /\ state[r] = "new" /\ state' = [state EXCEPT ![r] = "waiting"] /\ waiting' = waiting \cup {r}
      /\ running' = running
  BY DEF AddStep, AddRequest, Types, QueueTypes
<1>2. QueueTypes'
  <2>1. \A i \in DOMAIN running : state'[running[i]] = state[running[i]]
    BY <1>1, Lengths DEF Types, QueueTypes
  <2>. QED
    BY <1>1, <2>1 DEF Types, QueueTypes
<1>3. RequestTypes' /\ PoolTypes' /\ WalkTypes' /\ conf' \in Configs
  BY DEF AddStep, EngineSame, AddRequest, poolVars, batchVars, Types, RequestTypes, PoolTypes, WalkTypes
<1>. QED
  BY <1>2, <1>3 DEF Types

(* Moving from one part of schedule() or of the walk to the next keeps the types. *)
LEMMA QuietTypes ==
    ASSUME SchedulerAssumption, Types, QuietStep
    PROVE  Types'
<1>1. QueueTypes' /\ RequestTypes' /\ PoolTypes'
  <2>1. UNCHANGED <<queueVars, requestVars, poolVars, layer, cached, stranded, forwarded>>
    BY DEF QuietStep, EngineSame, Schedule, ReapDone, AdmitDone, BuildDone, RunDone
  <2>. QED
    BY <2>1 DEF queueVars, requestVars, poolVars, Types, QueueTypes, RequestTypes, PoolTypes
<1>2. conf' \in Configs /\ nextLayer' \in Nat \ {0} /\ faults' \in Nat
  BY DEF QuietStep, EngineSame, Types, WalkTypes
<1>3. WalkTypes'
  <2>1. <<>> \in Seq(Entries)
    OBVIOUS
  <2>2. CASE Schedule \/ ReapDone
    BY <1>2, <2>2 DEF Schedule, ReapDone, batchVars, Types, WalkTypes
  <2>3. CASE BuildDone
    BY <1>2, <2>3 DEF BuildDone, Types, WalkTypes
  <2>4. CASE AdmitDone \/ RunDone
    <3>1. /\ phase' \in {"idle", "build"} /\ cursor' = 1 /\ batch' = <<>>
          /\ prefillTokens' = 0 /\ numDecode' = 0
      BY <2>4 DEF AdmitDone, RunDone
    <3>. QED
      BY <1>2, <2>1, <3>1 DEF WalkTypes
  <2>. QED
    BY <2>2, <2>3, <2>4 DEF QuietStep
<1>. QED
  BY <1>1, <1>2, <1>3 DEF Types

(* Reaping removes one finished request from `running` and keeps the types. *)
LEMMA ReapTypes ==
    ASSUME SchedulerAssumption, Types, NEW i \in DOMAIN running, ReapStep(i)
    PROVE  /\ Types'
           /\ running' \in Seq(Requests) /\ Len(running') <= Len(running)
           /\ Range(running') = Range(running) \ {running[i]}
           /\ running[i] \in Requests /\ running[i] \in Range(running) /\ state[running[i]] = "finished"
<1>1. /\ phase = "reap" /\ state[running[i]] = "finished" /\ FreeTable(running[i], 0)
      /\ running' = SubSeq(running, 1, i - 1) \o SubSeq(running, i + 1, Len(running))
      /\ UNCHANGED <<waiting, requestVars, batchVars, phase, conf, layer, nextLayer, cached, faults, stranded, forwarded>>
  BY DEF ReapStep, ReapNext, Finished, EngineSame
<1>2. running \in Seq(Requests) /\ IsInjective(running) /\ i \in 1 .. Len(running) /\ Len(running) \in Nat
  <2>1. running \in Seq(Requests) /\ \A k, j \in DOMAIN running : running[k] = running[j] => k = j
    BY DEF Types, QueueTypes
  <2>2. IsInjective(running)
    BY <2>1 DEF IsInjective
  <2>. QED
    BY <2>1, <2>2, Lengths
<1>3. /\ running' \in Seq(Requests) /\ Len(running') = Len(running) - 1 /\ IsInjective(running')
      /\ Range(running') = Range(running) \ {running[i]}
  <2>1. running' = Without(running, i)
    BY <1>1 DEF Without
  <2>2. running \in Seq(Requests)
    BY <1>2
  <2>3. IsInjective(running)
    BY <1>2
  <2>4. i \in 1 .. Len(running)
    BY <1>2
  <2>. QED
    BY <2>1, <2>2, <2>3, <2>4, TakingOut
<1>4. running[i] \in Requests /\ running[i] \in Range(running)
  BY Lengths DEF Range
<1>8. Len(running') <= Len(running)
  BY <1>2, <1>3
<1>5. QueueTypes'
  <2>1. waiting' = waiting /\ state' = state
    BY <1>1 DEF requestVars
  <2>2. state' \in [Requests -> {"new", "waiting", "prefill", "decode", "finished"}]
    BY <2>1 DEF Types, QueueTypes
  <2>3. \A a, b \in DOMAIN running' : running'[a] = running'[b] => a = b
    BY <1>3 DEF IsInjective
  <2>. QED
    BY <1>3, <1>8, <2>1, <2>2, <2>3, Leaves
<1>6. PoolTypes'
  <2>1. own[running[i]] \in Nat /\ free \in Nat
    BY <1>4 DEF Types, PoolTypes
  <2>2. free' \in Nat
    BY <1>1, <2>1 DEF FreeTable
  <2>. QED
    BY <1>1, <1>4, <2>2 DEF FreeTable, Types, PoolTypes
<1>7. RequestTypes' /\ WalkTypes' /\ conf' \in Configs
  BY <1>1 DEF requestVars, batchVars, Types, RequestTypes, WalkTypes
<1>. QED
  BY <1>1, <1>3, <1>4, <1>5, <1>6, <1>7, <1>8 DEF Types

(* Admission appends one request that was not running and keeps the types. *)
LEMMA AdmitTypes ==
    ASSUME SchedulerAssumption, RunnerAssumption, Types, NEW r \in Requests, NEW m \in 0 .. CachedTokens[r],
           NEW j \in Nat, AdmitStep(r, m, j)
    PROVE  /\ Types'
           /\ DOMAIN running' = 1 .. Len(running) + 1
           /\ \A i \in DOMAIN running : running'[i] = running[i]
           /\ running'[Len(running) + 1] = r
           /\ Range(running') = Range(running) \cup {r}
           /\ r \notin Range(running)
<1>1. /\ r \in waiting /\ Len(running) < MaxBatch /\ waiting' = waiting \ {r}
      /\ running' = Append(running, r)
      /\ state' = [state EXCEPT ![r] = IF m >= PromptLen[r] THEN "decode" ELSE "prefill"]
      /\ prefillPos' = [prefillPos EXCEPT ![r] = m]
      /\ fed' = [fed EXCEPT ![r] = 0 .. m - 1]
      /\ tables' = IF m > 0 THEN tables \cup {r} ELSE tables
      /\ shared' = [shared EXCEPT ![r] = j]
      /\ forwarded' = IF m = 0 THEN forwarded ELSE [forwarded EXCEPT ![r] = 0 .. m - 1]
      /\ UNCHANGED <<outLen, own, free, batchVars, phase, conf, layer, nextLayer, cached, faults, stranded>>
  BY DEF AdmitStep, Admit
<1>2. CachedTokens[r] \in Nat /\ MaxBatch \in Nat /\ m \in Nat
  BY Parameters
<1>3. running \in Seq(Requests) /\ Len(running) \in Nat /\ DOMAIN running = 1 .. Len(running)
      /\ \A i \in DOMAIN running : running[i] \in Requests /\ state[running[i]] # "waiting"
  BY Lengths DEF Types, QueueTypes
<1>4. state[r] = "waiting"
  BY <1>1 DEF Types, QueueTypes
<1>5. \A i \in DOMAIN running : running[i] # r
  BY <1>3, <1>4
<1>6. /\ running' \in Seq(Requests) /\ Len(running') = Len(running) + 1
      /\ DOMAIN running' = 1 .. Len(running) + 1
      /\ \A i \in 1 .. Len(running) : running'[i] = running[i]
      /\ running'[Len(running) + 1] = r
  BY <1>1, <1>3, AppendProperties, LenProperties
<1>7. \A i \in DOMAIN running' : i \in DOMAIN running \/ i = Len(running) + 1
  BY <1>3, <1>6
<1>8. QueueTypes'
  <2>1. state' \in [Requests -> {"new", "waiting", "prefill", "decode", "finished"}]
        /\ (\A q \in Requests : q # r => state'[q] = state[q]) /\ state'[r] \in {"prefill", "decode"}
    BY <1>1 DEF Types, QueueTypes
  <2>2. \A a, b \in DOMAIN running' : running'[a] = running'[b] => a = b
    <3>1. \A a, b \in DOMAIN running : running[a] = running[b] => a = b
      BY DEF Types, QueueTypes
    <3>. QED
      BY <1>3, <1>5, <1>6, <1>7, <3>1
  <2>3. \A a \in DOMAIN running' : state'[running'[a]] \in {"prefill", "decode", "finished"}
    <3>1. \A a \in DOMAIN running : state'[running[a]] \in {"prefill", "decode", "finished"}
      BY <1>3, <1>5, <2>1 DEF Types, QueueTypes
    <3>. QED
      BY <1>3, <1>6, <1>7, <2>1, <3>1
  <2>4. \A q \in Requests : state'[q] = "waiting" <=> q \in waiting'
    BY <1>1, <2>1 DEF Types, QueueTypes
  <2>5. Len(running') <= MaxBatch /\ waiting' \in SUBSET Requests
    BY <1>1, <1>2, <1>3, <1>6 DEF Types, QueueTypes
  <2>. QED
    BY <1>6, <2>1, <2>2, <2>3, <2>4, <2>5 DEF QueueTypes
<1>9. RequestTypes' /\ PoolTypes' /\ WalkTypes' /\ conf' \in Configs
  <2>1. 0 .. m - 1 \in SUBSET Nat
    BY <1>2
  <2>2. RequestTypes'
    BY <1>1, <1>2, <2>1 DEF Types, RequestTypes
  <2>. QED
    BY <1>1, <2>2 DEF batchVars, Types, PoolTypes, WalkTypes
<1>10. Range(running') = Range(running) \cup {r} /\ r \notin Range(running)
  <2>1. \A x : x \in Range(running') <=> x \in Range(running) \/ x = r
    <3>1. /\ \A x : x \in Range(running') <=> \E i \in DOMAIN running' : x = running'[i]
          /\ \A x : x \in Range(running) <=> \E i \in DOMAIN running : x = running[i]
      BY DEF Range
    <3>2. \A i \in DOMAIN running : i \in DOMAIN running'
      BY <1>3, <1>6
    <3>3. Len(running) + 1 \in DOMAIN running'
      BY <1>3, <1>6
    <3>4. ASSUME NEW x, x \in Range(running') PROVE x \in Range(running) \/ x = r
      <4>1. PICK i \in DOMAIN running' : x = running'[i]
        BY <3>1, <3>4
      <4>2. CASE i \in DOMAIN running
        BY <1>3, <1>6, <3>1, <4>1, <4>2
      <4>3. CASE i = Len(running) + 1
        BY <1>6, <4>1, <4>3
      <4>. QED
        BY <1>7, <4>2, <4>3
    <3>5. ASSUME NEW x, x \in Range(running) \/ x = r PROVE x \in Range(running')
      <4>1. CASE x = r
        BY <1>6, <3>1, <3>3, <4>1
      <4>2. CASE x \in Range(running)
        BY <1>3, <1>6, <3>1, <3>2, <4>2
      <4>. QED
        BY <3>5, <4>1, <4>2
    <3>. QED
      BY <3>4, <3>5
  <2>. QED
    BY <1>5, <2>1 DEF Range
<1>. QED
  BY <1>3, <1>6, <1>8, <1>9, <1>10 DEF Types

-----------------------------------------------------------------------------
(* build_batch adds an entry to the batch: a chunk or a token. *)

(* Request r is given entry e and n more blocks. *)
Scheduled(r, e, n) ==
    /\ phase = "build" /\ cursor \in DOMAIN running /\ r = running[cursor]
    /\ e.rid = r /\ e.lo < e.hi /\ e.hi <= SeqLen(r) /\ (e.samples => e.hi = SeqLen(r))
    /\ \/ state[r] = "prefill" /\ e.lo = prefillPos[r]
       \/ state[r] = "decode" /\ e.samples /\ e.lo <= SeqLen(r) - 1
    /\ n <= free /\ free' = free - n /\ own' = [own EXCEPT ![r] = @ + n]
    /\ n = 0 \/ TableLen(r) + n <= TableNeed(r)
    /\ e.lo > 0 \/ UseKv => e.hi <= (TableLen(r) + n) * BlockSize
    /\ tables \subseteq tables' /\ tables' \subseteq tables \cup {r}
    /\ state' = [state EXCEPT ![r] = IF e.samples THEN "decode" ELSE "prefill"]
    /\ prefillPos'[r] <= PromptLen[r] /\ (~ e.samples => prefillPos'[r] = e.hi)
    /\ prefillPos' \in [Requests -> Nat] /\ \A q \in Requests \ {r} : prefillPos'[q] = prefillPos[q]
    /\ fed' = [fed EXCEPT ![r] = @ \cup e.lo .. e.hi - 1]
    /\ batch' = Append(batch, e)
    /\ cursor' = cursor + 1
    /\ prefillTokens' \in Nat /\ numDecode' \in Nat
    /\ EngineSame /\ UNCHANGED <<waiting, running, shared, outLen, phase>>

(* build_batch looks at the running request under its cursor. *)
LEMMA BuildingFacts ==
    ASSUME Types, NEW r \in Requests, NEW s, Building(r, s)
    PROVE  /\ phase = "build" /\ cursor \in DOMAIN running /\ r = running[cursor] /\ state[r] = s
           /\ r \in Range(running)
  BY DEF Building, Range

(* A prefill chunk is an entry that is scheduled: its range starts at prefill_pos
   and its table covers the prompt. *)
LEMMA ChunkIsScheduled ==
    ASSUME SchedulerAssumption, RunnerAssumption, Types, Progress, NEW r \in Requests, ChunkStep(r)
    PROVE  \E e \in Entries : \E n \in Nat : Scheduled(r, e, n)
<1>. DEFINE lo == prefillPos[r]
            len == ChunkLen(r)
            hi == lo + len
            last == hi >= PromptLen[r]
            e == Entry(r, lo, hi, len, last)
            n == Missing(r, PromptLen[r])
<1>1. /\ Building(r, "prefill") /\ Remaining(r) > 0 /\ PrefillBudget > 0 /\ n <= free
      /\ Reserve(r, PromptLen[r])
      /\ prefillPos' = [prefillPos EXCEPT ![r] = hi]
      /\ fed' = [fed EXCEPT ![r] = @ \cup lo .. hi - 1]
      /\ state' = [state EXCEPT ![r] = IF last THEN "decode" ELSE @]
      /\ batch' = Append(batch, e)
      /\ prefillTokens' = prefillTokens + len
      /\ cursor' = cursor + 1
      /\ UNCHANGED <<queueVars, outLen, numDecode, phase>>
      /\ EngineSame
  BY DEF ChunkStep, PrefillChunk
<1>2. /\ PromptLen[r] \in Nat /\ MaxNew[r] \in Nat /\ prefillPos[r] \in Nat /\ outLen[r] \in Nat
      /\ prefillTokens \in Nat /\ numDecode \in Nat /\ MaxTokensPerStep \in Nat /\ ChunkSize \in Nat \ {0}
      /\ prefillPos[r] <= PromptLen[r] /\ BlockSize \in Nat \ {0}
  BY Parameters DEF Types, RequestTypes, WalkTypes, Progress
<1>3. phase = "build" /\ cursor \in DOMAIN running /\ r = running[cursor] /\ state[r] = "prefill"
  BY <1>1, BuildingFacts
<1>4. outLen[r] = 0 /\ SeqLen(r) = PromptLen[r]
  BY <1>2, <1>3 DEF Progress, SeqLen
<1>5. len \in Nat /\ len > 0 /\ len <= PromptLen[r] - lo
  <2>1. Remaining(r) = PromptLen[r] - lo /\ Remaining(r) \in Nat
    BY <1>1, <1>2 DEF Remaining, Monus
  <2>2. PrefillBudget \in Nat
    BY <1>2 DEF PrefillBudget, Monus
  <2>. QED
    BY <1>1, <1>2, <2>1, <2>2 DEF ChunkLen, MinOf
<1>6. /\ n \in Nat /\ PromptLen[r] <= (TableLen(r) + n) * BlockSize
      /\ n = 0 \/ TableLen(r) + n <= TableNeed(r)
  <2>0. PromptLen[r] \in Nat
    BY <1>2
  <2>1. /\ n \in Nat /\ PromptLen[r] <= (TableLen(r) + n) * BlockSize
        /\ \A z \in Nat : PromptLen[r] <= z => n = 0 \/ TableLen(r) + n <= CeilDiv(z, BlockSize)
    BY <2>0, MissingFacts
  <2>2. MaxSeqLen(r) \in Nat /\ PromptLen[r] <= MaxSeqLen(r)
    BY <1>2 DEF MaxSeqLen
  <2>. HIDE DEF n
  <2>3. n = 0 \/ TableLen(r) + n <= CeilDiv(PromptLen[r], BlockSize)
    BY <1>2, <2>1
  <2>4. n = 0 \/ TableLen(r) + n <= CeilDiv(MaxSeqLen(r), BlockSize)
    BY <2>1, <2>2
  <2>. QED
    BY <2>1, <2>3, <2>4 DEF TableNeed
<1>. HIDE DEF len, n
<1>7. hi \in Nat /\ lo < hi /\ hi <= PromptLen[r] /\ last \in BOOLEAN /\ (last => hi = PromptLen[r])
  BY <1>2, <1>5
<1>8. e \in Entries /\ e.rid = r /\ e.lo = lo /\ e.hi = hi /\ e.samples = last
  BY <1>2, <1>5, <1>7 DEF Entry, Entries
<1>9. /\ tables' = tables \cup {r} /\ own' = [own EXCEPT ![r] = @ + n] /\ free' = free - n /\ shared' = shared
      /\ waiting' = waiting /\ running' = running
  BY <1>1 DEF Reserve, queueVars, n
<1>10. state' = [state EXCEPT ![r] = IF e.samples THEN "decode" ELSE "prefill"]
  BY <1>1, <1>3, <1>8
<1>11. e.hi <= (TableLen(r) + n) * BlockSize
  <2>1. TableLen(r) + n \in Nat
    BY <1>6 DEF TableLen, Types, PoolTypes
  <2>2. (TableLen(r) + n) * BlockSize \in Nat
    BY <1>2, <2>1
  <2>. QED
    BY <1>2, <1>6, <1>7, <1>8, <2>2
<1>12. /\ prefillPos' \in [Requests -> Nat] /\ prefillPos'[r] = hi
       /\ \A q \in Requests \ {r} : prefillPos'[q] = prefillPos[q]
  BY <1>1, <1>7 DEF Types, RequestTypes
<1>13. prefillTokens' \in Nat /\ numDecode' \in Nat
  BY <1>1, <1>2, <1>5
<1>. HIDE DEF e, last, hi, lo
<1>14. Scheduled(r, e, n)
  <2>1. e.lo = prefillPos[r]
    BY <1>8 DEF lo
  <2>2. fed' = [fed EXCEPT ![r] = @ \cup e.lo .. e.hi - 1]
    BY <1>1, <1>8
  <2>3. e.hi <= SeqLen(r) /\ (e.samples => e.hi = SeqLen(r)) /\ e.lo < e.hi
    BY <1>4, <1>7, <1>8
  <2>4. prefillPos'[r] <= PromptLen[r] /\ prefillPos'[r] = e.hi
    BY <1>7, <1>8, <1>12
  <2>. QED
    BY <1>1, <1>3, <1>6, <1>8, <1>9, <1>10, <1>11, <1>12, <1>13, <2>1, <2>2, <2>3, <2>4, Zenon DEF Scheduled
<1>. QED
  BY <1>6, <1>8, <1>14

(* A decode token is an entry that is scheduled: the last position of its
   sequence, or all of them without a KV cache, with a table that covers it. *)
LEMMA TokenIsScheduled ==
    ASSUME SchedulerAssumption, RunnerAssumption, Types, Progress, NEW r \in Requests, TokenStep(r)
    PROVE  \E e \in Entries : \E n \in Nat : Scheduled(r, e, n)
<1>. DEFINE lo == IF UseKv THEN SeqLen(r) - 1 ELSE 0
            hi == SeqLen(r)
            e == Entry(r, lo, hi, 1, TRUE)
            n == IF UseKv THEN Missing(r, hi + 1) ELSE 0
<1>1. /\ Building(r, "decode")
      /\ IF UseKv THEN Missing(r, hi + 1) <= free /\ Reserve(r, hi + 1) ELSE r \in tables /\ UNCHANGED poolVars
      /\ batch' = Append(batch, e)
      /\ fed' = [fed EXCEPT ![r] = @ \cup lo .. hi - 1]
      /\ numDecode' = numDecode + 1
      /\ cursor' = cursor + 1
      /\ UNCHANGED <<queueVars, state, prefillPos, outLen, prefillTokens, phase>>
      /\ EngineSame
  BY DEF TokenStep, DecodeToken
<1>2. /\ PromptLen[r] \in Nat \ {0} /\ MaxNew[r] \in Nat /\ prefillPos[r] \in Nat /\ outLen[r] \in Nat
      /\ prefillTokens \in Nat /\ numDecode \in Nat
      /\ prefillPos[r] <= PromptLen[r] /\ BlockSize \in Nat \ {0}
  BY Parameters DEF Types, RequestTypes, WalkTypes, Progress
<1>3. phase = "build" /\ cursor \in DOMAIN running /\ r = running[cursor] /\ state[r] = "decode"
  BY <1>1, BuildingFacts
<1>4. hi \in Nat \ {0} /\ lo \in Nat /\ lo < hi /\ hi + 1 <= MaxSeqLen(r) /\ MaxSeqLen(r) \in Nat /\ lo <= hi - 1
  <2>1. SeqLen(r) \in Nat \ {0} /\ MaxSeqLen(r) \in Nat
    BY <1>2 DEF SeqLen, MaxSeqLen
  <2>2. SeqLen(r) < MaxSeqLen(r)
    BY <1>3 DEF Progress
  <2>. QED
    BY <2>1, <2>2
<1>. HIDE DEF hi
<1>5. /\ n \in Nat /\ n <= free
      /\ n = 0 \/ TableLen(r) + n <= TableNeed(r)
      /\ UseKv => hi <= (TableLen(r) + n) * BlockSize
  <2>1. CASE UseKv
    <3>1. n = Missing(r, hi + 1) /\ n <= free
      BY <1>1, <2>1
    <3>2. hi + 1 \in Nat
      BY <1>4
    <3>3. /\ n \in Nat /\ hi + 1 <= (TableLen(r) + n) * BlockSize
          /\ \A z \in Nat : hi + 1 <= z => n = 0 \/ TableLen(r) + n <= CeilDiv(z, BlockSize)
      BY <3>1, <3>2, MissingFacts
    <3>. HIDE DEF n
    <3>4. n = 0 \/ TableLen(r) + n <= TableNeed(r)
      BY <1>4, <2>1, <3>3 DEF TableNeed
    <3>5. TableLen(r) + n \in Nat
      BY <3>3 DEF TableLen, Types, PoolTypes
    <3>6. (TableLen(r) + n) * BlockSize \in Nat
      BY <1>2, <3>5
    <3>. QED
      BY <1>4, <3>1, <3>3, <3>4, <3>6
  <2>2. CASE ~ UseKv
    <3>1. n = 0 /\ free \in Nat
      BY <2>2 DEF Types, PoolTypes
    <3>. QED
      BY <2>2, <3>1
  <2>. QED
    BY <2>1, <2>2
<1>6. e \in Entries /\ e.rid = r /\ e.lo = lo /\ e.hi = hi /\ e.samples = TRUE
  BY <1>4 DEF Entry, Entries
<1>7. /\ tables \subseteq tables' /\ tables' \subseteq tables \cup {r}
      /\ own' = [own EXCEPT ![r] = @ + n] /\ free' = free - n /\ shared' = shared
  <2>1. own \in [Requests -> Nat] /\ free \in Nat
    BY DEF Types, PoolTypes
  <2>2. CASE UseKv
    BY <1>1, <2>2 DEF Reserve
  <2>3. CASE ~ UseKv
    BY <1>1, <2>1, <2>3 DEF poolVars
  <2>. QED
    BY <2>2, <2>3
<1>8. waiting' = waiting /\ running' = running
  BY <1>1 DEF queueVars
<1>9. state' = [state EXCEPT ![r] = IF e.samples THEN "decode" ELSE "prefill"]
  BY <1>1, <1>3, <1>6 DEF Types, QueueTypes
<1>10. e.lo > 0 \/ UseKv => e.hi <= (TableLen(r) + n) * BlockSize
  <2>0. ~ UseKv => lo = 0
    OBVIOUS
  <2>2. e.hi = hi /\ e.lo = lo
    BY <1>6
  <2>. HIDE DEF e, lo, n
  <2>1. ~ UseKv => ~ (e.lo > 0)
    BY <2>0, <2>2
  <2>3. CASE UseKv
    BY <1>5, <2>2, <2>3
  <2>4. CASE ~ UseKv
    BY <2>1, <2>4
  <2>. QED
    BY <2>3, <2>4
<1>11. /\ prefillPos' \in [Requests -> Nat] /\ prefillPos'[r] <= PromptLen[r]
       /\ \A q \in Requests \ {r} : prefillPos'[q] = prefillPos[q]
  BY <1>1, <1>2 DEF Types, RequestTypes
<1>12. prefillTokens' \in Nat /\ numDecode' \in Nat
  BY <1>1, <1>2
<1>13. state[r] = "decode" /\ e.samples /\ e.lo <= SeqLen(r) - 1 /\ e.hi = SeqLen(r) /\ e.lo < e.hi
  BY <1>3, <1>4, <1>6 DEF hi
<1>14. e.hi <= SeqLen(r)
  <2>1. e.hi \in Nat /\ e.hi = SeqLen(r)
    BY <1>4, <1>6, <1>13
  <2>2. \A x \in Nat : x <= x
    OBVIOUS
  <2>. QED
    BY <2>1, <2>2, Zenon
<1>15. fed' = [fed EXCEPT ![r] = @ \cup e.lo .. e.hi - 1]
  BY <1>1, <1>6
<1>. HIDE DEF e, lo, n
<1>16. Scheduled(r, e, n)
  BY <1>1, <1>3, <1>5, <1>6, <1>7, <1>8, <1>9, <1>10, <1>11, <1>12, <1>13, <1>14, <1>15, Zenon DEF Scheduled
<1>. QED
  BY <1>5, <1>6, <1>16

-----------------------------------------------------------------------------
(* The walk over the batch. *)

(* The entry under the cursor of the walk is sound, and no later one is of the
   same request. *)
LEMMA RunningFacts ==
    ASSUME SchedulerAssumption, Types, BatchOK, NEW e \in Entries, Running(e)
    PROVE  /\ phase = "run" /\ cursor \in DOMAIN batch /\ e = batch[cursor]
           /\ e.rid \in Requests /\ e.lo \in Nat /\ e.hi \in Nat /\ e.lo < e.hi
           /\ EntryOK(e)
           /\ cursor \in Nat /\ cursor + 1 \in 1 .. Len(batch) + 1
           /\ \A i \in DOMAIN batch : i >= cursor + 1 => i >= cursor /\ batch[i].rid # e.rid
<1>1. phase = "run" /\ cursor \in DOMAIN batch /\ e = batch[cursor]
  BY DEF Running
<1>2. Len(batch) \in Nat /\ DOMAIN batch = 1 .. Len(batch)
  BY Lengths
<1>3. Pending(cursor)
  BY <1>1, <1>2 DEF Pending
<1>4. e.lo < e.hi /\ EntryOK(e)
  BY <1>1, <1>3 DEF BatchOK
<1>5. \A i \in DOMAIN batch : i >= cursor + 1 => i >= cursor /\ i # cursor
  BY <1>1, <1>2
<1>6. \A i \in DOMAIN batch : batch[i].rid = batch[cursor].rid => i = cursor
  BY <1>1 DEF BatchOK
<1>7. \A i \in DOMAIN batch : i >= cursor + 1 => i >= cursor /\ batch[i].rid # e.rid
  BY <1>1, <1>5, <1>6
<1>8. cursor \in Nat /\ cursor + 1 \in 1 .. Len(batch) + 1
  BY <1>1, <1>2
<1>. QED
  BY <1>1, <1>4, <1>7, <1>8, EntryFields

(* A layer table of the request of e gets n more blocks. *)
Grown(e, n) ==
    /\ phase = "run" /\ cursor \in DOMAIN batch /\ e = batch[cursor]
    /\ conf.engine = "rust" /\ UseKv /\ nextLayer \in Layers
    /\ n <= free /\ free' = free - n
    /\ layer' \in [Requests -> [Layers -> Nat]]
    /\ layer'[e.rid] = [layer[e.rid] EXCEPT ![nextLayer] = @ + n]
    /\ \A q \in Requests \ {e.rid} : layer'[q] = layer[q]
    /\ n = 0 \/ layer[e.rid][nextLayer] + n <= TableNeed(e.rid)
    /\ nextLayer' = nextLayer + 1
    /\ UNCHANGED <<conf, queueVars, requestVars, tables, own, shared, batchVars, phase, cached, faults, stranded, forwarded>>

(* What a layer table misses for a pass stays below what the request needs. *)
LEMMA LayerFits ==
    ASSUME SchedulerAssumption, RunnerAssumption, Types, Progress, BatchOK, NEW e \in Entries, Growing(e)
    PROVE  /\ LayerMissing(e) \in Nat
           /\ LayerMissing(e) = 0 \/ layer[e.rid][nextLayer] + LayerMissing(e) <= TableNeed(e.rid)
<1>. DEFINE r == e.rid
            t == layer[r][nextLayer]
<1>1. Running(e) /\ UseKv /\ nextLayer \in Layers
  BY DEF Growing
<1>2. r \in Requests /\ e.lo \in Nat /\ e.hi \in Nat /\ e.lo < e.hi /\ EntryOK(e)
  BY <1>1, RunningFacts
<1>3. /\ t \in Nat /\ BlockSize \in Nat \ {0} /\ PromptLen[r] \in Nat \ {0} /\ MaxNew[r] \in Nat
      /\ outLen[r] \in Nat
  BY <1>1, <1>2, Parameters DEF Types, PoolTypes, RequestTypes
<1>4. SeqLen(r) \in Nat /\ MaxSeqLen(r) \in Nat
  BY <1>3 DEF SeqLen, MaxSeqLen
<1>5. SeqLen(r) < MaxSeqLen(r) /\ e.hi <= SeqLen(r)
  BY <1>2 DEF Progress, EntryOK
<1>6. KvTarget(e) \in Nat /\ KvTarget(e) <= MaxSeqLen(r)
  BY <1>2, <1>4, <1>5 DEF KvTarget
<1>. HIDE DEF t, r
<1>7. LayerMissing(e) = CeilDiv(Monus(KvTarget(e), t * BlockSize), BlockSize)
  BY DEF LayerMissing, t, r
<1>8. /\ LayerMissing(e) \in Nat
      /\ \A z \in Nat : KvTarget(e) <= z => LayerMissing(e) = 0 \/ t + LayerMissing(e) <= CeilDiv(z, BlockSize)
  <2>1. t \in Nat /\ BlockSize \in Nat \ {0} /\ KvTarget(e) \in Nat
    BY <1>3, <1>6
  <2>2. /\ CeilDiv(Monus(KvTarget(e), t * BlockSize), BlockSize) \in Nat
        /\ \A z \in Nat : KvTarget(e) <= z =>
              \/ CeilDiv(Monus(KvTarget(e), t * BlockSize), BlockSize) = 0
              \/ t + CeilDiv(Monus(KvTarget(e), t * BlockSize), BlockSize) <= CeilDiv(z, BlockSize)
    BY <2>1, GrowsToFit
  <2>. QED
    BY <1>7, <2>2, Zenon
<1>9. LayerMissing(e) = 0 \/ t + LayerMissing(e) <= TableNeed(r)
  BY <1>1, <1>4, <1>6, <1>8 DEF TableNeed
<1>. QED
  BY <1>8, <1>9 DEF t, r

(* ensure_blocks for one KV layer takes n blocks from the pool, and its table
   is not longer than the request will ever need. *)
LEMMA LayerIsGrown ==
    ASSUME SchedulerAssumption, RunnerAssumption, Types, Progress, BatchOK, NEW e \in Entries, LayerStep(e)
    PROVE  \E n \in Nat : Grown(e, n)
<1>. DEFINE n == LayerMissing(e)
<1>1. Growing(e) /\ EnsureLayer(e) /\ conf' = conf
  BY DEF LayerStep, EnsureLayer
<1>2. n \in Nat /\ (n = 0 \/ layer[e.rid][nextLayer] + n <= TableNeed(e.rid))
  BY <1>1, LayerFits
<1>3. phase = "run" /\ cursor \in DOMAIN batch /\ e = batch[cursor]
      /\ conf.engine = "rust" /\ UseKv /\ nextLayer \in Layers
  BY <1>1 DEF Growing, Running
<1>4. n <= free /\ free' = free - n /\ layer' = [layer EXCEPT ![e.rid][nextLayer] = @ + n]
      /\ nextLayer' = nextLayer + 1
      /\ UNCHANGED <<queueVars, requestVars, tables, own, shared, batchVars, phase, cached, faults, stranded, forwarded>>
  BY <1>1 DEF EnsureLayer
<1>. HIDE DEF n
<1>5. /\ layer' \in [Requests -> [Layers -> Nat]]
      /\ layer'[e.rid] = [layer[e.rid] EXCEPT ![nextLayer] = @ + n]
      /\ \A q \in Requests \ {e.rid} : layer'[q] = layer[q]
  <2>1. layer \in [Requests -> [Layers -> Nat]] /\ e.rid \in Requests
    BY EntryFields DEF Types, PoolTypes
  <2>. QED
    BY <1>2, <1>3, <1>4, <2>1
<1>6. Grown(e, n)
  BY <1>1, <1>2, <1>3, <1>4, <1>5 DEF Grown
<1>. QED
  BY <1>2, <1>6

(* The pass of e is over: only its request moves on. *)
Walked(e) ==
    /\ Running(e)
    /\ cursor' = cursor + 1 /\ nextLayer' = 1
    /\ UNCHANGED <<conf, phase, batch, prefillTokens, numDecode, waiting, prefillPos, fed, stranded>>
    /\ faults' = faults \/ faults' = faults + 1
    /\ forwarded' = [forwarded EXCEPT ![e.rid] = @ \cup e.lo .. e.hi - 1]
    /\ outLen' \in [Requests -> Nat]
    /\ state' \in [Requests -> {"new", "waiting", "prefill", "decode", "finished"}]
    /\ \A q \in Requests \ {e.rid} : outLen'[q] = outLen[q] /\ state'[q] = state[q]
    /\ \/ outLen'[e.rid] = outLen[e.rid] /\ state'[e.rid] = state[e.rid]
       \/ /\ outLen'[e.rid] = outLen[e.rid] + 1
          /\ e.samples
          /\ \/ state'[e.rid] = "finished"
             \/ state'[e.rid] = state[e.rid] /\ outLen'[e.rid] < MaxNew[e.rid]
    /\ running' \in Seq(Requests) /\ Len(running') <= Len(running)
    /\ IsInjective(running')
    /\ Range(running') \subseteq Range(running)
    /\ Range(running) \ {e.rid} \subseteq Range(running')
    /\ own' \in [Requests -> Nat] /\ shared' \in [Requests -> Nat]
    /\ \A q \in Requests \ {e.rid} : own'[q] = own[q] /\ shared'[q] = shared[q] /\ layer'[q] = layer[q]

(* record_output appends one token, ends the request or leaves it below its
   limit, and disturbs no other request. *)
LEMMA Records ==
    ASSUME SchedulerAssumption, RunnerAssumption, Types, BatchOK, NEW e \in Entries, NEW finished \in BOOLEAN,
           RecordOutput(e, finished)
    PROVE  /\ Running(e) /\ e.samples
           /\ UNCHANGED <<waiting, prefillPos, fed>>
           /\ outLen' \in [Requests -> Nat]
           /\ state' \in [Requests -> {"new", "waiting", "prefill", "decode", "finished"}]
           /\ \A q \in Requests \ {e.rid} : outLen'[q] = outLen[q] /\ state'[q] = state[q]
           /\ outLen'[e.rid] = outLen[e.rid] + 1
           /\ \/ finished /\ state'[e.rid] = "finished"
              \/ ~ finished /\ state'[e.rid] = state[e.rid] /\ outLen'[e.rid] < MaxNew[e.rid]
<1>1. e.rid \in Requests /\ Running(e)
  BY RunningFacts DEF RecordOutput
<1>2. /\ outLen[e.rid] \in Nat /\ MaxNew[e.rid] \in Nat /\ outLen \in [Requests -> Nat]
      /\ state \in [Requests -> {"new", "waiting", "prefill", "decode", "finished"}]
  BY <1>1, Parameters DEF Types, RequestTypes, QueueTypes
<1>3. /\ outLen' = [outLen EXCEPT ![e.rid] = @ + 1]
      /\ state' = [state EXCEPT ![e.rid] = IF finished THEN "finished" ELSE @]
      /\ outLen[e.rid] + 1 >= MaxNew[e.rid] => finished
  BY DEF RecordOutput
<1>4. outLen' \in [Requests -> Nat] /\ outLen'[e.rid] = outLen[e.rid] + 1
      /\ \A q \in Requests \ {e.rid} : outLen'[q] = outLen[q]
  BY <1>1, <1>2, <1>3
<1>5. /\ state' \in [Requests -> {"new", "waiting", "prefill", "decode", "finished"}]
      /\ \A q \in Requests \ {e.rid} : state'[q] = state[q]
      /\ finished => state'[e.rid] = "finished"
      /\ ~ finished => state'[e.rid] = state[e.rid]
  BY <1>1, <1>2, <1>3
<1>6. ~ finished => outLen'[e.rid] < MaxNew[e.rid]
  BY <1>2, <1>3, <1>4
<1>. QED
  BY <1>1, <1>4, <1>5, <1>6 DEF RecordOutput

(* A pass of which no token is sampled only forwards its range. *)
LEMMA PassIsWalked ==
    ASSUME SchedulerAssumption, RunnerAssumption, Types, BatchOK, NEW e \in Entries, PassStep(e) \/ BlankStep(e)
    PROVE  Walked(e) /\ UNCHANGED <<running, state, tables, own, shared, free, layer, cached>>
<1>1. /\ Running(e) /\ cursor' = cursor + 1
      /\ UNCHANGED <<conf, queueVars, requestVars, poolVars, batch, prefillTokens, numDecode, phase, layer, cached>>
      /\ nextLayer' = 1 /\ stranded' = stranded /\ (faults' = faults \/ faults' = faults + 1)
      /\ forwarded' = [forwarded EXCEPT ![e.rid] = @ \cup e.lo .. e.hi - 1]
  <2>1. CASE PassStep(e)
    BY <2>1 DEF PassStep, ForwardOnly, NoSample, Forward, Pass
  <2>2. CASE BlankStep(e)
    BY <2>2 DEF BlankStep, NoLogits, NextEntry, Pass
  <2>. QED
    BY <2>1, <2>2
<1>2. UNCHANGED <<waiting, running, state, prefillPos, outLen, fed, tables, own, shared, free>>
  BY <1>1 DEF queueVars, requestVars, poolVars
<1>3. /\ outLen' \in [Requests -> Nat] /\ own' \in [Requests -> Nat] /\ shared' \in [Requests -> Nat]
      /\ state' \in [Requests -> {"new", "waiting", "prefill", "decode", "finished"}]
      /\ running' \in Seq(Requests) /\ IsInjective(running')
  BY <1>2 DEF Types, QueueTypes, RequestTypes, PoolTypes, IsInjective
<1>4. Len(running') <= Len(running)
  BY <1>2, Lengths
<1>5. Range(running') = Range(running)
  BY <1>2
<1>. QED
  BY <1>1, <1>2, <1>3, <1>4, <1>5 DEF Walked

(* A pass whose token does not end the request forwards its range and records
   the token. *)
LEMMA MoreIsWalked ==
    ASSUME SchedulerAssumption, RunnerAssumption, Types, BatchOK, NEW e \in Entries, MoreStep(e)
    PROVE  /\ Walked(e) /\ UNCHANGED <<running, tables, own, shared, free, layer, cached>>
           /\ state' = state
<1>1. /\ RecordOutput(e, FALSE) /\ UNCHANGED <<conf, running, poolVars, layer, cached>>
      /\ nextLayer' = 1 /\ faults' = faults /\ stranded' = stranded
      /\ forwarded' = [forwarded EXCEPT ![e.rid] = @ \cup e.lo .. e.hi - 1]
      /\ cursor' = cursor + 1 /\ UNCHANGED <<batch, prefillTokens, numDecode, phase>>
  BY DEF MoreStep, RecordMore, Forward, Pass, NextEntry
<1>2. /\ Running(e) /\ e.samples
      /\ UNCHANGED <<waiting, prefillPos, fed>>
      /\ outLen' \in [Requests -> Nat]
      /\ state' \in [Requests -> {"new", "waiting", "prefill", "decode", "finished"}]
      /\ \A q \in Requests \ {e.rid} : outLen'[q] = outLen[q] /\ state'[q] = state[q]
      /\ outLen'[e.rid] = outLen[e.rid] + 1
      /\ state'[e.rid] = state[e.rid] /\ outLen'[e.rid] < MaxNew[e.rid]
  BY <1>1, Records
<1>3. UNCHANGED <<tables, own, shared, free>>
  BY <1>1 DEF poolVars
<1>4. /\ own' \in [Requests -> Nat] /\ shared' \in [Requests -> Nat]
      /\ running' \in Seq(Requests) /\ IsInjective(running')
  BY <1>1, <1>3 DEF Types, QueueTypes, PoolTypes, IsInjective
<1>5. Len(running') <= Len(running)
  BY <1>1, Lengths
<1>6. Range(running') = Range(running)
  BY <1>1
<1>7. state' = state
  BY <1>2 DEF Types, QueueTypes
<1>8. Walked(e)
  BY <1>1, <1>2, <1>3, <1>4, <1>5, <1>6 DEF Walked
<1>. QED
  BY <1>1, <1>3, <1>7, <1>8

(* The Rust engine, when a request finishes: with a KV cache its blocks go to
   the prefix cache or back to the pool, without one its table stays. *)
LEMMA LastIsWalked ==
    ASSUME SchedulerAssumption, RunnerAssumption, Types, BatchOK, NEW e \in Entries, NEW k \in Nat, LastStep(e, k)
    PROVE  /\ Walked(e) /\ conf.engine = "rust"
           /\ state'[e.rid] = "finished"
           /\ Range(running') = Range(running) \ {e.rid}
           /\ shared' = shared
           /\ k <= own[e.rid] /\ (k > 0 => conf.prefix)
           /\ ~ UseKv => UNCHANGED <<tables, own, free, layer, cached>>
           /\ UseKv =>
                 /\ tables' = tables \ {e.rid}
                 /\ own' = [own EXCEPT ![e.rid] = 0]
                 /\ layer' = [layer EXCEPT ![e.rid] = [l \in Layers |-> 0]]
                 /\ free' = free + (own[e.rid] - k) + Sum(layer[e.rid])
                 /\ cached' = cached + k
<1>1. /\ RecordOutput(e, TRUE) /\ conf' = conf /\ conf.engine = "rust"
      /\ nextLayer' = 1 /\ faults' = faults /\ stranded' = stranded
      /\ cursor' = cursor + 1 /\ UNCHANGED <<batch, prefillTokens, numDecode, phase>>
      /\ forwarded' = [forwarded EXCEPT ![e.rid] = @ \cup e.lo .. e.hi - 1]
      /\ k <= own[e.rid] /\ (k > 0 => conf.prefix)
      /\ running' = Retain(running, {e.rid})
      /\ shared' = shared
      /\ IF UseKv THEN Flush(e.rid, k) ELSE UNCHANGED <<tables, own, free, layer, cached>>
  BY DEF LastStep, FinishRequest, Forward, Pass, NextEntry, Kept
<1>2. /\ Running(e) /\ e.samples
      /\ UNCHANGED <<waiting, prefillPos, fed>>
      /\ outLen' \in [Requests -> Nat]
      /\ state' \in [Requests -> {"new", "waiting", "prefill", "decode", "finished"}]
      /\ \A q \in Requests \ {e.rid} : outLen'[q] = outLen[q] /\ state'[q] = state[q]
      /\ outLen'[e.rid] = outLen[e.rid] + 1
      /\ state'[e.rid] = "finished"
  BY <1>1, Records
<1>3. /\ ~ UseKv => UNCHANGED <<tables, own, free, layer, cached>>
      /\ UseKv =>
            /\ tables' = tables \ {e.rid}
            /\ own' = [own EXCEPT ![e.rid] = 0]
            /\ layer' = [layer EXCEPT ![e.rid] = [l \in Layers |-> 0]]
            /\ free' = free + (own[e.rid] - k) + Sum(layer[e.rid])
            /\ cached' = cached + k
  BY <1>1 DEF Flush
<1>4. running \in Seq(Requests) /\ IsInjective(running) /\ Len(running) \in Nat
  BY Lengths DEF Types, QueueTypes, IsInjective
<1>5. /\ Retain(running, {e.rid}) \in Seq(Requests)
      /\ Range(Retain(running, {e.rid})) = Range(running) \ {e.rid}
      /\ Len(Retain(running, {e.rid})) <= Len(running)
  BY <1>4, RetainKeeps
<1>6. IsInjective(Retain(running, {e.rid}))
  BY <1>4, RetainOrder
<1>7. /\ own' \in [Requests -> Nat] /\ shared' \in [Requests -> Nat]
      /\ \A q \in Requests \ {e.rid} : own'[q] = own[q] /\ shared'[q] = shared[q] /\ layer'[q] = layer[q]
  <2>1. /\ own \in [Requests -> Nat] /\ shared \in [Requests -> Nat] /\ layer \in [Requests -> [Layers -> Nat]]
    BY DEF Types, PoolTypes
  <2>2. CASE UseKv
    BY <1>1, <1>3, <2>1, <2>2
  <2>3. CASE ~ UseKv
    BY <1>1, <1>3, <2>1, <2>3
  <2>. QED
    BY <2>2, <2>3
<1>8. /\ running' \in Seq(Requests) /\ Len(running') <= Len(running) /\ IsInjective(running')
      /\ Range(running') = Range(running) \ {e.rid}
  BY <1>1, <1>5, <1>6
<1>9. Walked(e)
  BY <1>1, <1>2, <1>7, <1>8 DEF Walked
<1>. QED
  BY <1>1, <1>2, <1>3, <1>8, <1>9

(* The Python engine, when a request finishes: its blocks go to the prefix
   cache or back to the pool, and it stays in `running` until it is reaped. *)
LEMMA PythonLastIsWalked ==
    ASSUME SchedulerAssumption, RunnerAssumption, Types, BatchOK, NEW e \in Entries, NEW k \in Nat, PythonLastStep(e, k)
    PROVE  /\ Walked(e) /\ conf.engine = "python"
           /\ state'[e.rid] = "finished"
           /\ running' = running /\ layer' = layer
           /\ k <= own[e.rid] /\ (k > 0 => conf.prefix)
           /\ tables' = tables \ {e.rid}
           /\ own' = [own EXCEPT ![e.rid] = 0]
           /\ free' = free + (own[e.rid] - k)
           /\ cached' = cached + k
<1>1. /\ RecordOutput(e, TRUE) /\ conf' = conf /\ conf.engine = "python"
      /\ nextLayer' = 1 /\ faults' = faults /\ stranded' = stranded
      /\ cursor' = cursor + 1 /\ UNCHANGED <<batch, prefillTokens, numDecode, phase>>
      /\ forwarded' = [forwarded EXCEPT ![e.rid] = @ \cup e.lo .. e.hi - 1]
      /\ k <= own[e.rid] /\ (k > 0 => conf.prefix)
      /\ running' = running /\ layer' = layer
      /\ cached' = cached + k
      /\ tables' = tables \ {e.rid}
      /\ free' = free + (own[e.rid] - k)
      /\ own' = [own EXCEPT ![e.rid] = 0]
      /\ shared' = [shared EXCEPT ![e.rid] = 0]
  BY DEF PythonLastStep, PythonFinish, Forward, Pass, NextEntry, Kept, FreeTable
<1>2. /\ Running(e) /\ e.samples
      /\ UNCHANGED <<waiting, prefillPos, fed>>
      /\ outLen' \in [Requests -> Nat]
      /\ state' \in [Requests -> {"new", "waiting", "prefill", "decode", "finished"}]
      /\ \A q \in Requests \ {e.rid} : outLen'[q] = outLen[q] /\ state'[q] = state[q]
      /\ outLen'[e.rid] = outLen[e.rid] + 1
      /\ state'[e.rid] = "finished"
  BY <1>1, Records
<1>3. running \in Seq(Requests) /\ IsInjective(running) /\ Len(running) \in Nat
  BY Lengths DEF Types, QueueTypes, IsInjective
<1>4. /\ own' \in [Requests -> Nat] /\ shared' \in [Requests -> Nat]
      /\ \A q \in Requests \ {e.rid} : own'[q] = own[q] /\ shared'[q] = shared[q] /\ layer'[q] = layer[q]
  <2>1. /\ own \in [Requests -> Nat] /\ shared \in [Requests -> Nat]
    BY DEF Types, PoolTypes
  <2>. QED
    BY <1>1, <2>1
<1>5. /\ running' \in Seq(Requests) /\ Len(running') <= Len(running) /\ IsInjective(running')
      /\ Range(running') = Range(running)
  BY <1>1, <1>3
<1>6. Walked(e)
  BY <1>1, <1>2, <1>4, <1>5 DEF Walked
<1>. QED
  BY <1>1, <1>2, <1>6

-----------------------------------------------------------------------------
(* Types, continued. *)

(* What changes of the state alone: not to or from waiting. *)
LEMMA StateTypes ==
    ASSUME Types, waiting' = waiting, running' = running,
           state' \in [Requests -> {"new", "waiting", "prefill", "decode", "finished"}],
           \A q \in Requests : state'[q] = state[q]
                 \/ (state[q] \in {"prefill", "decode"} /\ state'[q] \in {"prefill", "decode", "finished"})
    PROVE  QueueTypes'
<1>1. \A q \in Requests : state'[q] = "waiting" <=> q \in waiting
  BY DEF Types, QueueTypes
<1>2. \A i \in DOMAIN running : state'[running[i]] \in {"prefill", "decode", "finished"}
  <2>1. \A i \in DOMAIN running : running[i] \in Requests
    BY Lengths
  <2>. QED
    BY <2>1 DEF Types, QueueTypes
<1>. QED
  BY <1>1, <1>2 DEF Types, QueueTypes

(* An entry that build_batch passes over takes no blocks; prefill_pos moves only
   where the pool had too few. *)
LEMMA SkipTypes ==
    ASSUME SchedulerAssumption, RunnerAssumption, Types, NEW r \in Requests, SkipStep(r)
    PROVE  /\ Types'
           /\ phase = "build" /\ cursor \in DOMAIN running /\ r = running[cursor] /\ cursor' = cursor + 1
           /\ UNCHANGED <<waiting, running, tables, own, shared, free, batch, phase, outLen, fed>>
           /\ \A q \in Requests : state'[q] = state[q] \/ (state[q] = "prefill" /\ state'[q] = "decode")
           /\ state'[r] = state[r] \/ Remaining(r) = 0
           /\ \A q \in Requests \ {r} : prefillPos'[q] = prefillPos[q] /\ state'[q] = state[q]
           /\ prefillPos' # prefillPos => PrefillOOM(r)
           /\ state[r] \in {"prefill", "decode"}
<1>1. /\ cursor' = cursor + 1
      /\ UNCHANGED <<queueVars, poolVars, batch, phase, outLen, fed>>
      /\ \E s \in {"prefill", "decode"} : Building(r, s)
  BY DEF SkipStep, PrefillEmpty, PrefillNoBudget, PrefillOOM, DecodeNoBudget, DecodeOOM, Skip, requestVars
<1>2. phase = "build" /\ cursor \in DOMAIN running /\ r = running[cursor] /\ state[r] \in {"prefill", "decode"}
  BY <1>1 DEF Building
<1>3. UNCHANGED <<waiting, running, tables, own, shared, free>>
  BY <1>1 DEF queueVars, poolVars
<1>4. /\ prefillPos[r] \in Nat /\ PromptLen[r] \in Nat /\ ChunkSize \in Nat /\ MaxTokensPerStep \in Nat
      /\ prefillTokens \in Nat /\ numDecode \in Nat /\ cursor \in Nat
      /\ prefillPos \in [Requests -> Nat]
      /\ state \in [Requests -> {"new", "waiting", "prefill", "decode", "finished"}]
  BY Parameters DEF Types, RequestTypes, WalkTypes, QueueTypes
<1>5. ChunkLen(r) \in Nat
  BY <1>4 DEF ChunkLen, Remaining, PrefillBudget, Monus, MinOf
<1>6. /\ prefillTokens' = prefillTokens
      /\ numDecode' \in Nat
      /\ \/ prefillPos' = prefillPos
         \/ PrefillOOM(r) /\ prefillPos' = [prefillPos EXCEPT ![r] = @ + ChunkLen(r)]
      /\ \/ state' = state
         \/ state' = [state EXCEPT ![r] = "decode"] /\ state[r] = "prefill" /\ Remaining(r) = 0
  <2>1. CASE PrefillEmpty(r)
    BY <1>4, <2>1 DEF PrefillEmpty, Building
  <2>2. CASE PrefillNoBudget(r)
    BY <1>4, <2>2 DEF PrefillNoBudget, requestVars
  <2>3. CASE PrefillOOM(r)
    BY <1>4, <2>3 DEF PrefillOOM
  <2>4. CASE DecodeNoBudget(r)
    BY <1>4, <2>4 DEF DecodeNoBudget, requestVars
  <2>5. CASE DecodeOOM(r)
    BY <1>4, <2>5 DEF DecodeOOM, requestVars
  <2>. QED
    BY <2>1, <2>2, <2>3, <2>4, <2>5 DEF SkipStep
<1>7. /\ state' \in [Requests -> {"new", "waiting", "prefill", "decode", "finished"}]
      /\ \A q \in Requests : state'[q] = state[q] \/ (state[q] = "prefill" /\ state'[q] = "decode")
      /\ state'[r] = state[r] \/ Remaining(r) = 0
      /\ \A q \in Requests \ {r} : state'[q] = state[q]
  BY <1>4, <1>6
<1>8. prefillPos' \in [Requests -> Nat] /\ \A q \in Requests \ {r} : prefillPos'[q] = prefillPos[q]
  BY <1>4, <1>5, <1>6
<1>9. QueueTypes'
  BY <1>3, <1>7, StateTypes
<1>10. UNCHANGED <<conf, layer, nextLayer, cached, faults, stranded, forwarded>>
  BY DEF SkipStep, EngineSame
<1>11. RequestTypes' /\ PoolTypes' /\ conf' \in Configs
  BY <1>1, <1>3, <1>8, <1>10 DEF Types, RequestTypes, PoolTypes
<1>12. WalkTypes'
  BY <1>1, <1>4, <1>6, <1>10 DEF Types, WalkTypes
<1>. QED
  BY <1>1, <1>2, <1>3, <1>6, <1>7, <1>8, <1>9, <1>11, <1>12 DEF Types

(* Scheduling an entry keeps the types. *)
LEMMA ScheduledTypes ==
    ASSUME SchedulerAssumption, Types, NEW r \in Requests, NEW e \in Entries, NEW n \in Nat, Scheduled(r, e, n)
    PROVE  Types'
<1>0. UNCHANGED <<conf, layer, nextLayer, cached, faults, stranded, forwarded, waiting, running, shared, outLen, phase>>
  BY DEF Scheduled, EngineSame
<1>1. QueueTypes'
  <2>1. state' = [state EXCEPT ![r] = IF e.samples THEN "decode" ELSE "prefill"] /\ state[r] \in {"prefill", "decode"}
    BY DEF Scheduled
  <2>2. /\ state' \in [Requests -> {"new", "waiting", "prefill", "decode", "finished"}]
        /\ \A q \in Requests : state'[q] = state[q]
              \/ (state[q] \in {"prefill", "decode"} /\ state'[q] \in {"prefill", "decode", "finished"})
    BY <2>1 DEF Types, QueueTypes
  <2>. QED
    BY <1>0, <2>2, StateTypes
<1>2. RequestTypes'
  <2>1. e.lo .. e.hi - 1 \subseteq Nat
    BY EntryFields
  <2>2. fed' = [fed EXCEPT ![r] = @ \cup e.lo .. e.hi - 1] /\ prefillPos' \in [Requests -> Nat]
    BY DEF Scheduled
  <2>. QED
    BY <1>0, <2>1, <2>2 DEF Types, RequestTypes
<1>3. PoolTypes'
  <2>1. free \in Nat /\ n <= free /\ free' = free - n
    BY DEF Scheduled, Types, PoolTypes
  <2>2. free' \in Nat
    BY <2>1
  <2>3. own \in [Requests -> Nat] /\ own' = [own EXCEPT ![r] = @ + n]
    BY DEF Scheduled, Types, PoolTypes
  <2>4. own' \in [Requests -> Nat]
    BY <2>3
  <2>5. tables' \in SUBSET Requests
    BY DEF Scheduled, Types, PoolTypes
  <2>. QED
    BY <1>0, <2>2, <2>4, <2>5 DEF Types, PoolTypes
<1>4. WalkTypes'
  <2>1. batch' \in Seq(Entries)
    BY Appended DEF Scheduled
  <2>2. cursor' \in Nat /\ prefillTokens' \in Nat /\ numDecode' \in Nat
    BY DEF Scheduled, Types, WalkTypes
  <2>. QED
    BY <1>0, <2>1, <2>2 DEF Types, WalkTypes
<1>. QED
  BY <1>0, <1>1, <1>2, <1>3, <1>4 DEF Types

(* Growing the table of a KV layer keeps the types. *)
LEMMA GrownTypes ==
    ASSUME SchedulerAssumption, RunnerAssumption, Types, NEW e \in Entries, NEW n \in Nat, Grown(e, n)
    PROVE  Types'
<1>1. QueueTypes' /\ RequestTypes' /\ conf' \in Configs
  BY DEF Grown, queueVars, requestVars, Types, QueueTypes, RequestTypes
<1>2. PoolTypes'
  <2>1. free' \in Nat
    BY DEF Grown, Types, PoolTypes
  <2>. QED
    BY <2>1 DEF Grown, Types, PoolTypes
<1>3. WalkTypes'
  <2>1. nextLayer' \in Nat \ {0}
    BY DEF Grown, Types, WalkTypes
  <2>. QED
    BY <2>1 DEF Grown, batchVars, Types, WalkTypes
<1>. QED
  BY <1>1, <1>2, <1>3 DEF Types

(* A step that ends with an error keeps the types and drops the batch; without a
   failed pass it was for lack of blocks. *)
LEMMA LostTypes ==
    ASSUME SchedulerAssumption, RunnerAssumption, Types, NEW e \in Entries, LostStep(e)
    PROVE  /\ Types'
           /\ UNCHANGED <<conf, queueVars, requestVars, poolVars, layer, cached, stranded, forwarded>>
           /\ phase' = "idle" /\ batch' = <<>>
           /\ faults' = 0 => LayerOOM(e)
<1>1. /\ UNCHANGED <<conf, queueVars, requestVars, poolVars, layer, cached, stranded, forwarded>>
      /\ phase' = "idle" /\ batch' = <<>> /\ cursor' = 1 /\ prefillTokens' = 0 /\ numDecode' = 0 /\ nextLayer' = 1
      /\ (LayerOOM(e) /\ faults' = faults) \/ faults' = faults + 1
  BY DEF LostStep, LayerOOM, ForwardError, AbortStep, DropBatch
<1>2. faults' \in Nat /\ (faults' = 0 => LayerOOM(e))
  BY <1>1 DEF Types, WalkTypes
<1>3. QueueTypes' /\ RequestTypes' /\ PoolTypes' /\ conf' \in Configs
  BY <1>1 DEF queueVars, requestVars, poolVars, Types, QueueTypes, RequestTypes, PoolTypes
<1>4. WalkTypes'
  <2>1. <<>> \in Seq(Entries)
    OBVIOUS
  <2>. QED
    BY <1>1, <1>2, <2>1 DEF WalkTypes
<1>. QED
  BY <1>1, <1>2, <1>3, <1>4 DEF Types

(* The request of e ends, but its insertion into the prefix cache panics: it
   leaves `running` with its tables, and the batch is dropped. *)
Strands(e) ==
    /\ Running(e) /\ conf.engine = "rust"
    /\ UNCHANGED <<conf, waiting, prefillPos, fed, poolVars, layer, cached, faults>>
    /\ outLen' \in [Requests -> Nat]
    /\ state' \in [Requests -> {"new", "waiting", "prefill", "decode", "finished"}]
    /\ \A q \in Requests \ {e.rid} : outLen'[q] = outLen[q] /\ state'[q] = state[q]
    /\ state'[e.rid] = "finished"
    /\ running' \in Seq(Requests) /\ Len(running') <= Len(running) /\ IsInjective(running')
    /\ Range(running') = Range(running) \ {e.rid}
    /\ stranded' = stranded \cup {e.rid}
    /\ forwarded' = [forwarded EXCEPT ![e.rid] = @ \cup e.lo .. e.hi - 1]
    /\ phase' = "idle" /\ batch' = <<>> /\ cursor' = 1
    /\ prefillTokens' = 0 /\ numDecode' = 0 /\ nextLayer' = 1

(* So it does, and the types are kept. *)
LEMMA StrandTypes ==
    ASSUME SchedulerAssumption, RunnerAssumption, Types, BatchOK, NEW e \in Entries, StrandStep(e)
    PROVE  Types' /\ Strands(e)
<1>1. /\ RecordOutput(e, TRUE) /\ conf.engine = "rust"
      /\ UNCHANGED <<conf, poolVars, layer, cached, faults>>
      /\ running' = Retain(running, {e.rid})
      /\ stranded' = stranded \cup {e.rid}
      /\ forwarded' = [forwarded EXCEPT ![e.rid] = @ \cup e.lo .. e.hi - 1]
      /\ phase' = "idle" /\ batch' = <<>> /\ cursor' = 1
      /\ prefillTokens' = 0 /\ numDecode' = 0 /\ nextLayer' = 1
  BY DEF StrandStep, InsertPanic, Pass, DropBatch
<1>2. /\ Running(e)
      /\ UNCHANGED <<waiting, prefillPos, fed>>
      /\ outLen' \in [Requests -> Nat]
      /\ state' \in [Requests -> {"new", "waiting", "prefill", "decode", "finished"}]
      /\ \A q \in Requests \ {e.rid} : outLen'[q] = outLen[q] /\ state'[q] = state[q]
      /\ state'[e.rid] = "finished"
  BY <1>1, Records
<1>3. running \in Seq(Requests) /\ IsInjective(running) /\ Len(running) \in Nat
  BY Lengths DEF Types, QueueTypes, IsInjective
<1>4. /\ Retain(running, {e.rid}) \in Seq(Requests)
      /\ Range(Retain(running, {e.rid})) = Range(running) \ {e.rid}
      /\ Len(Retain(running, {e.rid})) <= Len(running)
  BY <1>3, RetainKeeps
<1>5. IsInjective(Retain(running, {e.rid}))
  BY <1>3, RetainOrder
<1>6. Strands(e)
  BY <1>1, <1>2, <1>4, <1>5 DEF Strands
<1>7. QueueTypes'
  <2>1. waiting' = waiting /\ running' \in Seq(Requests) /\ Len(running') <= Len(running)
        /\ Range(running') \subseteq Range(running)
        /\ state' \in [Requests -> {"new", "waiting", "prefill", "decode", "finished"}]
    BY <1>6 DEF Strands
  <2>2. \A i, j \in DOMAIN running' : running'[i] = running'[j] => i = j
    BY <1>6 DEF Strands, IsInjective
  <2>3. e.rid \in Range(running)
    BY <1>2, RunningFacts DEF EntryOK
  <2>4. \A q \in Requests : state'[q] = state[q] \/ (q \in Range(running) /\ state'[q] = "finished")
    BY <1>2, <2>3
  <2>. QED
    BY <2>1, <2>2, <2>4, Leaves
<1>8. RequestTypes' /\ PoolTypes' /\ conf' \in Configs
  <2>1. e.lo .. e.hi - 1 \subseteq Nat /\ e.rid \in Requests
    BY EntryFields
  <2>2. forwarded' \in [Requests -> SUBSET Nat]
    BY <1>1, <2>1 DEF Types, RequestTypes
  <2>. QED
    BY <1>1, <1>2, <2>1, <2>2 DEF poolVars, Types, RequestTypes, PoolTypes
<1>9. WalkTypes'
  <2>1. <<>> \in Seq(Entries)
    OBVIOUS
  <2>. QED
    BY <1>1, <2>1 DEF Types, WalkTypes
<1>. QED
  BY <1>6, <1>7, <1>8, <1>9 DEF Types

(* Walking past an entry keeps the types, if the accounts of the pool keep theirs. *)
LEMMA WalkedTypes ==
    ASSUME SchedulerAssumption, RunnerAssumption, Types, BatchOK, NEW e \in Entries, Walked(e), PoolTypes'
    PROVE  Types'
<1>1. QueueTypes'
  <2>1. waiting' = waiting /\ running' \in Seq(Requests) /\ Len(running') <= Len(running)
        /\ Range(running') \subseteq Range(running)
        /\ state' \in [Requests -> {"new", "waiting", "prefill", "decode", "finished"}]
    BY DEF Walked
  <2>2. \A i, j \in DOMAIN running' : running'[i] = running'[j] => i = j
    BY DEF Walked, IsInjective
  <2>3. e.rid \in Range(running)
    BY RunningFacts DEF Walked, EntryOK
  <2>4. \A q \in Requests : state'[q] = state[q] \/ (q \in Range(running) /\ state'[q] = "finished")
    <3>1. \A q \in Requests \ {e.rid} : state'[q] = state[q]
      BY DEF Walked
    <3>2. state'[e.rid] = state[e.rid] \/ state'[e.rid] = "finished"
      BY DEF Walked
    <3>. QED
      BY <2>3, <3>1, <3>2
  <2>. QED
    BY <2>1, <2>2, <2>4, Leaves
<1>2. RequestTypes'
  <2>1. e.lo .. e.hi - 1 \subseteq Nat /\ e.rid \in Requests
    BY EntryFields
  <2>2. forwarded' = [forwarded EXCEPT ![e.rid] = @ \cup e.lo .. e.hi - 1]
    BY DEF Walked
  <2>3. forwarded' \in [Requests -> SUBSET Nat]
    BY <2>1, <2>2 DEF Types, RequestTypes
  <2>. QED
    BY <2>3 DEF Walked, Types, RequestTypes
<1>3. WalkTypes' /\ conf' \in Configs
  <2>1. cursor' \in Nat /\ nextLayer' \in Nat \ {0} /\ faults' \in Nat
    BY DEF Walked, Types, WalkTypes
  <2>. QED
    BY <2>1 DEF Walked, Types, WalkTypes
<1>. QED
  BY <1>1, <1>2, <1>3 DEF Types

(* The blocks of the request of e are released, k of them into the cache. *)
PoolFreed(e, k) ==
    /\ tables' = tables \ {e.rid}
    /\ own'[e.rid] = 0 /\ layer' \in [Requests -> [Layers -> Nat]]
    /\ \A l \in Layers : layer'[e.rid][l] = 0
    /\ k \in Nat /\ k <= own[e.rid] /\ (k > 0 => conf.prefix)
    /\ free' = free + (own[e.rid] - k) + Sum(layer[e.rid])
    /\ cached' = cached + k

(* How a pass may end: the request goes on, stops and keeps its table, or
   stops and releases it; the Rust engine takes it from `running` then. *)
GoesOn == UNCHANGED <<running, state, tables, own, free, layer, cached>>

Stops(e) ==
    /\ state'[e.rid] = "finished"
    /\ conf.engine = "rust" => Range(running') = Range(running) \ {e.rid}
    /\ conf.engine = "python" => running' = running
    /\ \/ ~ Released /\ UNCHANGED <<tables, own, free, layer, cached>>
       \/ Released /\ \E k \in Nat : PoolFreed(e, k)

WalkStep(e) ==
    PassStep(e) \/ BlankStep(e) \/ MoreStep(e) \/ \E k \in Nat : LastStep(e, k) \/ PythonLastStep(e, k)

(* So it does; without a KV cache, and in Python, there are no layer tables. *)
LEMMA WalkEnds ==
    ASSUME SchedulerAssumption, RunnerAssumption, Types, BatchOK, Books, NEW e \in Entries, WalkStep(e)
    PROVE  Walked(e) /\ (GoesOn \/ Stops(e))
<1>0. /\ e.rid \in Requests /\ own \in [Requests -> Nat] /\ layer \in [Requests -> [Layers -> Nat]]
      /\ conf.engine \in {"rust", "python"}
  BY EntryFields, ConfigTypes DEF Types, PoolTypes
<1>1. CASE PassStep(e) \/ BlankStep(e)
  BY <1>1, PassIsWalked DEF GoesOn
<1>2. CASE MoreStep(e)
  BY <1>2, MoreIsWalked DEF GoesOn
<1>3. ASSUME NEW k \in Nat, LastStep(e, k) PROVE Walked(e) /\ Stops(e)
  <2>1. /\ Walked(e) /\ conf.engine = "rust"
        /\ state'[e.rid] = "finished"
        /\ Range(running') = Range(running) \ {e.rid}
        /\ shared' = shared
        /\ k <= own[e.rid] /\ (k > 0 => conf.prefix)
        /\ ~ UseKv => UNCHANGED <<tables, own, free, layer, cached>>
        /\ UseKv =>
              /\ tables' = tables \ {e.rid}
              /\ own' = [own EXCEPT ![e.rid] = 0]
              /\ layer' = [layer EXCEPT ![e.rid] = [l \in Layers |-> 0]]
              /\ free' = free + (own[e.rid] - k) + Sum(layer[e.rid])
              /\ cached' = cached + k
    BY <1>3, LastIsWalked
  <2>2. CASE ~ UseKv
    BY <2>1, <2>2 DEF Stops, Released
  <2>3. CASE UseKv
    <3>0. [l \in Layers |-> 0] \in [Layers -> Nat] /\ \A l \in Layers : [i \in Layers |-> 0][l] = 0
      OBVIOUS
    <3>3. layer' = [layer EXCEPT ![e.rid] = [l \in Layers |-> 0]] /\ own' = [own EXCEPT ![e.rid] = 0]
      BY <2>1, <2>3
    <3>1. /\ own'[e.rid] = 0 /\ layer' \in [Requests -> [Layers -> Nat]]
          /\ \A l \in Layers : layer'[e.rid][l] = 0
      <4>1. own'[e.rid] = 0 /\ layer'[e.rid] = [l \in Layers |-> 0]
        BY <1>0, <3>3
      <4>2. layer' \in [Requests -> [Layers -> Nat]]
        BY <1>0, <3>0, <3>3
      <4>. QED
        BY <3>0, <4>1, <4>2, Zenon
    <3>2. PoolFreed(e, k)
      BY <2>1, <2>3, <3>1 DEF PoolFreed
    <3>. QED
      BY <2>1, <2>3, <3>2 DEF Stops, Released
  <2>. QED
    BY <2>2, <2>3
<1>4. ASSUME NEW k \in Nat, PythonLastStep(e, k) PROVE Walked(e) /\ Stops(e)
  <2>1. /\ Walked(e) /\ conf.engine = "python"
        /\ state'[e.rid] = "finished"
        /\ running' = running /\ layer' = layer
        /\ k <= own[e.rid] /\ (k > 0 => conf.prefix)
        /\ tables' = tables \ {e.rid}
        /\ own' = [own EXCEPT ![e.rid] = 0]
        /\ free' = free + (own[e.rid] - k)
        /\ cached' = cached + k
    BY <1>4, PythonLastIsWalked
  <2>2. \A l \in Layers : layer[e.rid][l] = 0
    BY <1>0, <2>1 DEF Books
  <2>3. Sum(layer[e.rid]) = 0
    <3>1. layer[e.rid] \in [Layers -> Nat]
      BY <1>0
    <3>2. IsFiniteSet(Layers) /\ Sum(layer[e.rid]) = SumFunctionOnSet(layer[e.rid], Layers)
      BY <3>1, LayerSums
    <3>. QED
      BY <2>2, <3>2, SumZero
  <2>4. free \in Nat /\ own[e.rid] - k \in Int
    BY <1>0 DEF Types, PoolTypes
  <2>5. free' = free + (own[e.rid] - k) + Sum(layer[e.rid])
    BY <2>1, <2>3, <2>4
  <2>6. own'[e.rid] = 0 /\ layer' \in [Requests -> [Layers -> Nat]] /\ \A l \in Layers : layer'[e.rid][l] = 0
    BY <1>0, <2>1, <2>2
  <2>7. PoolFreed(e, k)
    BY <2>1, <2>5, <2>6 DEF PoolFreed
  <2>. QED
    BY <2>1, <2>7 DEF Stops, Released
<1>. QED
  BY <1>1, <1>2, <1>3, <1>4 DEF WalkStep

(* The types after a pass. *)
LEMMA WalkTypesKept ==
    ASSUME SchedulerAssumption, RunnerAssumption, Types, BatchOK, Books, NEW e \in Entries, WalkStep(e)
    PROVE  Types'
<1>1. Walked(e) /\ (GoesOn \/ Stops(e))
  BY WalkEnds
<1>2. /\ own' \in [Requests -> Nat] /\ shared' \in [Requests -> Nat]
      /\ tables \in SUBSET Requests /\ cached \in Nat /\ free \in Nat
      /\ layer \in [Requests -> [Layers -> Nat]] /\ own \in [Requests -> Nat] /\ e.rid \in Requests
      /\ stranded' \in SUBSET Requests
  BY <1>1, EntryFields DEF Walked, Types, PoolTypes
<1>3. CASE UNCHANGED <<tables, own, free, layer, cached>>
  <2>1. PoolTypes'
    BY <1>2, <1>3 DEF PoolTypes
  <2>. QED
    BY <1>1, <2>1, WalkedTypes
<1>4. ASSUME NEW k \in Nat, PoolFreed(e, k) PROVE Types'
  <2>1. layer[e.rid] \in [Layers -> Nat]
    BY <1>2
  <2>2. Sum(layer[e.rid]) \in Nat
    BY <2>1, LayerSums
  <2>3. /\ tables' = tables \ {e.rid} /\ layer' \in [Requests -> [Layers -> Nat]]
        /\ k <= own[e.rid] /\ free' = free + (own[e.rid] - k) + Sum(layer[e.rid]) /\ cached' = cached + k
    BY <1>4 DEF PoolFreed
  <2>4. free' \in Nat /\ cached' \in Nat
    <3>1. own[e.rid] \in Nat
      BY <1>2
    <3>. QED
      BY <1>2, <2>2, <2>3, <3>1
  <2>5. PoolTypes'
    BY <1>2, <2>3, <2>4 DEF PoolTypes
  <2>. QED
    BY <1>1, <2>5, WalkedTypes
<1>. QED
  BY <1>1, <1>3, <1>4 DEF GoesOn, Stops

-----------------------------------------------------------------------------
(* The steps, as the invariant's parts see them. *)
AnyStep ==
    \/ \E r \in Requests : AddStep(r)
    \/ QuietStep
    \/ \E i \in DOMAIN running : ReapStep(i)
    \/ \E r \in Requests : \E m \in 0 .. CachedTokens[r] : \E j \in Nat : AdmitStep(r, m, j)
    \/ \E r \in Requests : SkipStep(r)
    \/ \E r \in Requests : \E e \in Entries : \E n \in Nat : Scheduled(r, e, n)
    \/ \E e \in Entries : \E n \in Nat : Grown(e, n)
    \/ \E e \in Entries : LostStep(e)
    \/ \E e \in Entries : StrandStep(e)
    \/ \E e \in Entries : WalkStep(e)

(* No step is of any other kind. *)
LEMMA AllSteps ==
    ASSUME SchedulerAssumption, RunnerAssumption, Types, Progress, BatchOK, RunnerNext
    PROVE  AnyStep
<1>1. CASE \E r \in Requests : SkipStep(r) \/ ChunkStep(r) \/ TokenStep(r)
  <2>1. PICK r \in Requests : SkipStep(r) \/ ChunkStep(r) \/ TokenStep(r)
    BY <1>1
  <2>2. CASE SkipStep(r)
    BY <2>2 DEF AnyStep
  <2>3. CASE ChunkStep(r) \/ TokenStep(r)
    <3>1. \E e \in Entries : \E n \in Nat : Scheduled(r, e, n)
      BY <2>3, ChunkIsScheduled, TokenIsScheduled
    <3>. QED
      BY <3>1 DEF AnyStep
  <2>. QED
    BY <2>1, <2>2, <2>3
<1>2. CASE \E e \in Entries : LayerStep(e) \/ LostStep(e) \/ StrandStep(e)
  <2>1. PICK e \in Entries : LayerStep(e) \/ LostStep(e) \/ StrandStep(e)
    BY <1>2
  <2>2. CASE LayerStep(e)
    <3>1. \E n \in Nat : Grown(e, n)
      BY <2>2, LayerIsGrown
    <3>. QED
      BY <3>1 DEF AnyStep
  <2>3. CASE LostStep(e) \/ StrandStep(e)
    BY <2>3 DEF AnyStep
  <2>. QED
    BY <2>1, <2>2, <2>3
<1>5. CASE \E e \in Entries : PassStep(e) \/ BlankStep(e) \/ MoreStep(e)
  <2>1. PICK e \in Entries : PassStep(e) \/ BlankStep(e) \/ MoreStep(e)
    BY <1>5
  <2>2. WalkStep(e)
    BY <2>1 DEF WalkStep
  <2>. QED
    BY <2>2 DEF AnyStep
<1>3. CASE \E e \in Entries : \E k \in Nat : LastStep(e, k) \/ PythonLastStep(e, k)
  <2>1. PICK e \in Entries : \E k \in Nat : LastStep(e, k) \/ PythonLastStep(e, k)
    BY <1>3
  <2>2. WalkStep(e)
    BY <2>1 DEF WalkStep
  <2>. QED
    BY <2>2 DEF AnyStep
<1>4. CASE \/ \E r \in Requests : AddStep(r)
           \/ QuietStep
           \/ \E i \in DOMAIN running : ReapStep(i)
           \/ \E r \in Requests : \E m \in 0 .. CachedTokens[r] : \E j \in Nat : AdmitStep(r, m, j)
  BY <1>4, Zenon DEF AnyStep
<1>. QED
  BY <1>1, <1>2, <1>3, <1>4, <1>5, StepCases, Zenon

(* The types hold after every step. *)
LEMMA TypesKept ==
    ASSUME SchedulerAssumption, RunnerAssumption, Types, BatchOK, Books, AnyStep
    PROVE  Types'
  BY AddTypes, QuietTypes, ReapTypes, AdmitTypes, SkipTypes, ScheduledTypes, GrownTypes, LostTypes, StrandTypes,
     WalkTypesKept, Zenon
     DEF AnyStep

(* What steps that neither admit nor feed nor sample a request leave alone. *)
LEMMA SameRequests ==
    ASSUME SchedulerAssumption, RunnerAssumption, Types,
           \/ QuietStep
           \/ \E i \in DOMAIN running : ReapStep(i)
           \/ \E e \in Entries : \E n \in Nat : Grown(e, n)
           \/ \E e \in Entries : LostStep(e)
    PROVE  UNCHANGED <<state, prefillPos, outLen, fed, forwarded, conf, waiting, stranded>>
<1>1. CASE QuietStep
  BY <1>1 DEF QuietStep, EngineSame, Schedule, ReapDone, AdmitDone, BuildDone, RunDone, queueVars, requestVars
<1>2. ASSUME NEW i, ReapStep(i) PROVE UNCHANGED <<state, prefillPos, outLen, fed, forwarded, conf, waiting, stranded>>
  BY <1>2 DEF ReapStep, ReapNext, EngineSame, requestVars
<1>3. ASSUME NEW e, NEW n, Grown(e, n) PROVE UNCHANGED <<state, prefillPos, outLen, fed, forwarded, conf, waiting, stranded>>
  BY <1>3 DEF Grown, queueVars, requestVars
<1>4. ASSUME NEW e \in Entries, LostStep(e) PROVE UNCHANGED <<state, prefillPos, outLen, fed, forwarded, conf, waiting, stranded>>
  BY <1>4, LostTypes DEF queueVars, requestVars
<1>. QED
  BY <1>1, <1>2, <1>3, <1>4

(* The requests' counters stay in bounds: a request that is sampled another
   token is finished by the last one. *)
LEMMA ProgressKept ==
    ASSUME SchedulerAssumption, RunnerAssumption, Types, Progress, BatchOK, Books, AnyStep
    PROVE  Progress'
<1>0. /\ \A q \in Requests : prefillPos[q] \in Nat /\ outLen[q] \in Nat
      /\ \A q \in Requests : PromptLen[q] \in Nat \ {0} /\ MaxNew[q] \in Nat /\ CachedTokens[q] \in Nat
      /\ \A q \in Requests : CachedTokens[q] <= PromptLen[q]
      /\ state \in [Requests -> {"new", "waiting", "prefill", "decode", "finished"}]
  BY Parameters DEF Types, RequestTypes, QueueTypes
<1>1. CASE \/ QuietStep
           \/ \E i \in DOMAIN running : ReapStep(i)
           \/ \E e \in Entries : \E n \in Nat : Grown(e, n)
           \/ \E e \in Entries : LostStep(e)
  <2>1. UNCHANGED <<state, prefillPos, outLen>>
    BY <1>1, SameRequests
  <2>. QED
    BY <2>1 DEF Progress, SeqLen
<1>2. ASSUME NEW r \in Requests, AddStep(r) PROVE Progress'
  <2>1. /\ state[r] = "new" /\ state' = [state EXCEPT ![r] = "waiting"] /\ UNCHANGED <<prefillPos, outLen>>
    BY <1>2 DEF AddStep, AddRequest
  <2>2. \A q \in Requests : state'[q] = state[q] \/ (state[q] = "new" /\ state'[q] = "waiting")
    BY <1>0, <2>1
  <2>. QED
    BY <2>1, <2>2 DEF Progress, SeqLen
<1>3. ASSUME NEW r \in Requests, NEW m \in 0 .. CachedTokens[r], NEW j \in Nat, AdmitStep(r, m, j) PROVE Progress'
  <2>1. /\ r \in waiting /\ state' = [state EXCEPT ![r] = IF m >= PromptLen[r] THEN "decode" ELSE "prefill"]
        /\ prefillPos' = [prefillPos EXCEPT ![r] = m] /\ outLen' = outLen
    BY <1>3 DEF AdmitStep, Admit
  <2>2. state[r] = "waiting"
    BY <2>1 DEF Types, QueueTypes
  <2>3. m <= PromptLen[r]
    BY <1>0
  <2>4. \A q \in Requests : prefillPos'[q] = IF q = r THEN m ELSE prefillPos[q]
    BY <2>1 DEF Types, RequestTypes
  <2>5. \A q \in Requests : state'[q] = state[q] \/ (state[q] = "waiting" /\ state'[q] \in {"prefill", "decode"})
    BY <1>0, <2>1, <2>2
  <2>. QED
    BY <2>1, <2>3, <2>4, <2>5 DEF Progress, SeqLen
<1>4. ASSUME NEW r \in Requests, SkipStep(r) PROVE Progress'
  <2>1. /\ outLen' = outLen
        /\ \A q \in Requests : state'[q] = state[q] \/ (state[q] = "prefill" /\ state'[q] = "decode")
        /\ \A q \in Requests \ {r} : prefillPos'[q] = prefillPos[q]
        /\ prefillPos' # prefillPos => PrefillOOM(r)
    BY <1>4, SkipTypes
  <2>2. prefillPos'[r] <= PromptLen[r]
    <3>1. CASE PrefillOOM(r)
      <4>1. prefillPos' = [prefillPos EXCEPT ![r] = @ + ChunkLen(r)] /\ Remaining(r) > 0
        BY <3>1 DEF PrefillOOM
      <4>2. prefillPos'[r] = prefillPos[r] + ChunkLen(r)
        BY <4>1 DEF Types, RequestTypes
      <4>3. prefillPos[r] <= PromptLen[r] /\ Remaining(r) = PromptLen[r] - prefillPos[r]
        BY <1>0, <4>1 DEF Progress, Remaining, Monus
      <4>4. /\ PrefillBudget \in Nat /\ ChunkSize \in Nat
        BY Parameters DEF PrefillBudget, Monus, Types, WalkTypes
      <4>5. ChunkLen(r) \in Nat /\ ChunkLen(r) <= Remaining(r)
        BY <1>0, <4>3, <4>4 DEF ChunkLen, MinOf
      <4>. QED
        BY <1>0, <4>2, <4>3, <4>5
    <3>2. CASE prefillPos' = prefillPos
      BY <3>2 DEF Progress
    <3>. QED
      BY <2>1, <3>1, <3>2
  <2>3. \A q \in Requests : prefillPos'[q] <= PromptLen[q]
    BY <2>1, <2>2 DEF Progress
  <2>. QED
    BY <2>1, <2>3 DEF Progress, SeqLen
<1>5. ASSUME NEW r \in Requests, NEW e \in Entries, NEW n \in Nat, Scheduled(r, e, n) PROVE Progress'
  <2>1. /\ outLen' = outLen /\ prefillPos'[r] <= PromptLen[r]
        /\ \A q \in Requests \ {r} : prefillPos'[q] = prefillPos[q]
        /\ state' = [state EXCEPT ![r] = IF e.samples THEN "decode" ELSE "prefill"]
        /\ state[r] = "prefill" \/ state[r] = "decode"
        /\ outLen[r] = 0 \/ state'[r] = "decode"
    <3>1. \/ state[r] = "prefill" /\ e.lo = prefillPos[r]
          \/ state[r] = "decode" /\ e.samples /\ e.lo <= SeqLen(r) - 1
      BY <1>5 DEF Scheduled
    <3>2. CASE state[r] = "prefill"
      BY <1>5, <3>2 DEF Scheduled, Progress
    <3>3. CASE state[r] = "decode"
      BY <1>0, <1>5, <3>1, <3>3 DEF Scheduled
    <3>. QED
      BY <3>1, <3>2, <3>3
  <2>2. /\ \A q \in Requests \ {r} : state'[q] = state[q]
        /\ state'[r] \in {"prefill", "decode"}
    BY <1>0, <2>1
  <2>3. \A q \in Requests : prefillPos'[q] <= PromptLen[q]
    BY <2>1 DEF Progress
  <2>. QED
    BY <2>1, <2>2, <2>3 DEF Progress, SeqLen
<1>6. ASSUME NEW e \in Entries, WalkStep(e) PROVE Progress'
  <2>1. Walked(e) /\ EntryOK(e) /\ e.rid \in Requests
    BY <1>6, WalkEnds, RunningFacts DEF Walked
  <2>2. /\ prefillPos' = prefillPos
        /\ \A q \in Requests \ {e.rid} : outLen'[q] = outLen[q] /\ state'[q] = state[q]
        /\ \/ outLen'[e.rid] = outLen[e.rid] /\ state'[e.rid] = state[e.rid]
           \/ /\ outLen'[e.rid] = outLen[e.rid] + 1
              /\ e.samples
              /\ \/ state'[e.rid] = "finished"
                 \/ state'[e.rid] = state[e.rid] /\ outLen'[e.rid] < MaxNew[e.rid]
    BY <2>1 DEF Walked
  <2>3. e.samples => state[e.rid] = "decode"
    BY <2>1 DEF EntryOK
  <2>4. ASSUME outLen'[e.rid] < MaxNew[e.rid], outLen'[e.rid] = outLen[e.rid] + 1
        PROVE  PromptLen[e.rid] + outLen'[e.rid] < MaxSeqLen(e.rid)
    BY <1>0, <2>1, <2>4 DEF MaxSeqLen
  <2>5. ASSUME NEW q \in Requests
        PROVE  /\ prefillPos'[q] <= PromptLen[q]
               /\ state'[q] \in {"new", "waiting", "prefill"} => outLen'[q] = 0
               /\ state'[q] # "finished" => SeqLen(q)' < MaxSeqLen(q)
    <3>1. CASE q # e.rid
      BY <2>2, <3>1 DEF Progress, SeqLen
    <3>2. CASE q = e.rid
      BY <2>2, <2>3, <2>4, <3>2 DEF Progress, SeqLen
    <3>. QED
      BY <3>1, <3>2
  <2>. QED
    BY <2>5 DEF Progress, MaxSeqLen
<1>7. ASSUME NEW e \in Entries, StrandStep(e) PROVE Progress'
  <2>1. Strands(e)
    BY <1>7, StrandTypes
  <2>2. /\ prefillPos' = prefillPos /\ state'[e.rid] = "finished"
        /\ \A q \in Requests \ {e.rid} : outLen'[q] = outLen[q] /\ state'[q] = state[q]
    BY <2>1 DEF Strands
  <2>3. ASSUME NEW q \in Requests
        PROVE  /\ prefillPos'[q] <= PromptLen[q]
               /\ state'[q] \in {"new", "waiting", "prefill"} => outLen'[q] = 0
               /\ state'[q] # "finished" => SeqLen(q)' < MaxSeqLen(q)
    <3>1. CASE q # e.rid
      BY <2>2, <3>1 DEF Progress, SeqLen
    <3>2. CASE q = e.rid
      BY <2>2, <3>2 DEF Progress
    <3>. QED
      BY <3>1, <3>2
  <2>. QED
    BY <2>3 DEF Progress, MaxSeqLen
<1>. QED
  BY <1>1, <1>2, <1>3, <1>4, <1>5, <1>6, <1>7 DEF AnyStep

-----------------------------------------------------------------------------
(* The batch. *)

(* Without entries there is only the loop index. *)
LEMMA EmptyBatch ==
    ASSUME NEW b, batch' = <<>>, phase' = b,
           \/ b \in {"idle", "reap", "admit"}
           \/ b = "build" /\ cursor' = 1 /\ Len(running') \in Nat
    PROVE  BatchOK'
<1>1. Len(batch') = 0 /\ DOMAIN batch' = {}
  BY EmptySeq
<1>. QED
  BY <1>1 DEF BatchOK

(* An entry stays as it should be while its request does. *)
LEMMA EntryStays ==
    ASSUME SchedulerAssumption, RunnerAssumption, Types, Types', NEW x \in Entries, EntryOK(x), conf' = conf,
           x.rid \in Range(running'), state'[x.rid] = state[x.rid], outLen'[x.rid] = outLen[x.rid],
           own[x.rid] <= own'[x.rid], shared'[x.rid] = shared[x.rid]
    PROVE  EntryOK(x)'
<1>. DEFINE q == x.rid
<1>1. q \in Requests /\ x.hi \in Nat /\ BlockSize \in Nat /\ (UseKv' <=> UseKv)
  BY EntryFields, Parameters DEF UseKv
<1>2. own[q] \in Nat /\ own'[q] \in Nat /\ shared[q] \in Nat /\ shared'[q] = shared[q] /\ own[q] <= own'[q]
  BY <1>1 DEF Types, PoolTypes
<1>3. TableLen(q) \in Nat /\ TableLen(q)' \in Nat /\ TableLen(q) <= TableLen(q)'
  BY <1>2 DEF TableLen
<1>4. TableLen(q) * BlockSize <= TableLen(q)' * BlockSize
  BY <1>1, <1>3, MultMono
<1>5. TableLen(q) * BlockSize \in Nat /\ TableLen(q)' * BlockSize \in Nat
  BY <1>1, <1>3
<1>6. x.hi <= TableLen(q) * BlockSize => x.hi <= TableLen(q)' * BlockSize
  BY <1>1, <1>4, <1>5
<1>7. SeqLen(q)' = SeqLen(q)
  BY DEF SeqLen
<1>. QED
  BY <1>1, <1>6, <1>7 DEF EntryOK

(* The batch stays sound between the parts of a step: it is emptied at its
   start, complete when the walk begins. *)
LEMMA BatchWhileQuiet ==
    ASSUME SchedulerAssumption, RunnerAssumption, Types, Types', BatchOK, QuietStep
    PROVE  BatchOK'
<1>0. UNCHANGED <<conf, queueVars, requestVars, poolVars>>
  BY DEF QuietStep, EngineSame, Schedule, ReapDone, AdmitDone, BuildDone, RunDone
<1>1. CASE Schedule \/ ReapDone
  BY <1>1, EmptyBatch DEF Schedule, ReapDone, batchVars, BatchOK
<1>2. CASE AdmitDone
  BY <1>0, <1>2, EmptyBatch, Lengths DEF AdmitDone, queueVars
<1>3. CASE BuildDone
  <2>1. phase = "build" /\ phase' = "run" /\ cursor = Len(running) + 1 /\ cursor' = 1 /\ batch' = batch
    BY <1>3 DEF BuildDone
  <2>2. Len(batch) \in Nat /\ DOMAIN batch = 1 .. Len(batch) /\ \A i \in DOMAIN batch : batch[i] \in Entries
    BY Lengths
  <2>3. \A i \in DOMAIN batch : EntryOK(batch[i])
    BY <2>1 DEF BatchOK, Pending
  <2>4. \A i \in DOMAIN batch : EntryOK(batch[i])'
    <3>1. UNCHANGED <<conf, running, state, outLen, own, shared>>
      BY <1>0 DEF queueVars, requestVars, poolVars
    <3>. QED
      BY <2>1, <2>3, <3>1 DEF EntryOK, SeqLen, TableLen, UseKv
  <2>5. cursor' \in 1 .. Len(batch') + 1
    BY <2>1, <2>2
  <2>. QED
    BY <2>1, <2>4, <2>5 DEF BatchOK
<1>4. CASE RunDone
  BY <1>4, EmptyBatch DEF RunDone
<1>. QED
  BY <1>1, <1>2, <1>3, <1>4 DEF QuietStep

(* build_batch passes over a request that has no entry yet. *)
LEMMA BatchWhileSkipping ==
    ASSUME SchedulerAssumption, RunnerAssumption, Types, Types', BatchOK, NEW r \in Requests, SkipStep(r)
    PROVE  BatchOK'
<1>1. /\ phase = "build" /\ cursor \in DOMAIN running /\ r = running[cursor] /\ cursor' = cursor + 1
      /\ UNCHANGED <<waiting, running, own, shared, batch, phase, outLen>>
      /\ \A q \in Requests \ {r} : state'[q] = state[q]
      /\ conf' = conf
  BY SkipTypes DEF SkipStep, EngineSame
<1>2. /\ Len(running) \in Nat /\ DOMAIN running = 1 .. Len(running)
      /\ \A i \in DOMAIN batch : batch[i] \in Entries
  BY Lengths
<1>3. cursor' \in 1 .. Len(running) + 1 /\ cursor \in cursor .. Len(running)
      /\ \A j \in cursor' .. Len(running) : j \in cursor .. Len(running)
  BY <1>1, <1>2
<1>4. \A i \in DOMAIN batch : \A j \in cursor .. Len(running) : batch[i].rid # running[j]
  BY <1>1 DEF BatchOK
<1>5. ASSUME NEW i \in DOMAIN batch PROVE EntryOK(batch[i])'
  <2>1. batch[i] \in Entries /\ EntryOK(batch[i]) /\ batch[i].rid # r
    BY <1>1, <1>2, <1>3, <1>4 DEF BatchOK, Pending
  <2>2. batch[i].rid \in Requests /\ batch[i].rid \in Range(running)
    BY <2>1, EntryFields DEF EntryOK
  <2>3. own[batch[i].rid] <= own'[batch[i].rid]
    <3>1. own[batch[i].rid] \in Nat
      BY <2>2 DEF Types, PoolTypes
    <3>. QED
      BY <1>1, <3>1
  <2>4. EntryOK(batch[i])
    BY <2>1
  <2>5. /\ conf' = conf /\ batch[i].rid \in Range(running') /\ state'[batch[i].rid] = state[batch[i].rid]
        /\ outLen'[batch[i].rid] = outLen[batch[i].rid] /\ shared'[batch[i].rid] = shared[batch[i].rid]
    BY <1>1, <2>1, <2>2
  <2>6. \A x \in Entries : x = batch[i] => EntryOK(x)'
    BY <2>1, <2>3, <2>4, <2>5, EntryStays
  <2>. QED
    BY <1>1, <2>1, <2>6
<1>. QED
  BY <1>1, <1>3, <1>4, <1>5 DEF BatchOK

(* The new entry is the only one of its request, and its table covers it. *)
LEMMA BatchWhileScheduling ==
    ASSUME SchedulerAssumption, RunnerAssumption, Types, Types', BatchOK,
           NEW r \in Requests, NEW e \in Entries, NEW n \in Nat, Scheduled(r, e, n)
    PROVE  BatchOK'
<1>1. /\ phase = "build" /\ cursor \in DOMAIN running /\ r = running[cursor] /\ cursor' = cursor + 1
      /\ UNCHANGED <<waiting, running, shared, outLen, phase, conf>>
      /\ state' = [state EXCEPT ![r] = IF e.samples THEN "decode" ELSE "prefill"]
      /\ own' = [own EXCEPT ![r] = @ + n]
      /\ batch' = Append(batch, e)
      /\ e.rid = r /\ e.lo < e.hi /\ e.hi <= SeqLen(r) /\ (e.samples => e.hi = SeqLen(r))
      /\ e.lo > 0 \/ UseKv => e.hi <= (TableLen(r) + n) * BlockSize
  BY DEF Scheduled, EngineSame
<1>2. /\ Len(running) \in Nat /\ DOMAIN running = 1 .. Len(running)
      /\ \A i \in DOMAIN batch : batch[i] \in Entries
      /\ Len(batch) \in Nat /\ DOMAIN batch = 1 .. Len(batch)
  BY Lengths
<1>3. /\ DOMAIN batch' = 1 .. Len(batch) + 1
      /\ \A i \in DOMAIN batch : i \in DOMAIN batch' /\ batch'[i] = batch[i]
      /\ batch'[Len(batch) + 1] = e
      /\ \A i \in DOMAIN batch' : i \in DOMAIN batch \/ i = Len(batch) + 1
  BY <1>1, Appended
<1>4. cursor' \in 1 .. Len(running) + 1 /\ cursor \in cursor .. Len(running)
      /\ \A j \in cursor' .. Len(running) : j \in cursor .. Len(running) /\ j \in DOMAIN running /\ j # cursor
  BY <1>1, <1>2
<1>5. \A i \in DOMAIN batch : \A j \in cursor .. Len(running) : batch[i].rid # running[j]
  BY <1>1 DEF BatchOK
<1>6. \A i \in DOMAIN batch : batch[i].rid # r
  BY <1>1, <1>4, <1>5
<1>7. /\ \A q \in Requests \ {r} : state'[q] = state[q] /\ own'[q] = own[q]
      /\ state'[r] = (IF e.samples THEN "decode" ELSE "prefill") /\ own'[r] = own[r] + n
      /\ own \in [Requests -> Nat]
  BY <1>1 DEF Types, QueueTypes, PoolTypes
<1>8. ASSUME NEW i \in DOMAIN batch PROVE EntryOK(batch[i])'
  <2>1. batch[i] \in Entries /\ EntryOK(batch[i]) /\ batch[i].rid # r
    BY <1>1, <1>2, <1>6 DEF BatchOK, Pending
  <2>2. batch[i].rid \in Requests /\ batch[i].rid \in Range(running)
    BY <2>1, EntryFields DEF EntryOK
  <2>3. own[batch[i].rid] <= own'[batch[i].rid]
    <3>1. own[batch[i].rid] \in Nat
      BY <2>2 DEF Types, PoolTypes
    <3>. QED
      BY <1>7, <2>1, <2>2, <3>1
  <2>4. EntryOK(batch[i])
    BY <2>1
  <2>5. /\ conf' = conf /\ batch[i].rid \in Range(running') /\ state'[batch[i].rid] = state[batch[i].rid]
        /\ outLen'[batch[i].rid] = outLen[batch[i].rid] /\ shared'[batch[i].rid] = shared[batch[i].rid]
    BY <1>1, <1>7, <2>1, <2>2
  <2>6. \A x \in Entries : x = batch[i] => EntryOK(x)'
    BY <2>1, <2>3, <2>4, <2>5, EntryStays
  <2>. QED
    BY <1>3, <2>1, <2>6
<1>9. \A x \in Entries : x = e => EntryOK(x)'
  <2>1. r \in Range(running')
    BY <1>1 DEF Range
  <2>2. SeqLen(r)' = SeqLen(r) /\ (UseKv' <=> UseKv)
    BY <1>1 DEF SeqLen, UseKv
  <2>3. TableLen(r)' = TableLen(r) + n
    <3>1. own[r] \in Nat /\ shared[r] \in Nat
      BY DEF Types, PoolTypes
    <3>. QED
      BY <1>1, <1>7, <3>1 DEF TableLen
  <2>. QED
    BY <1>1, <1>7, <2>1, <2>2, <2>3 DEF EntryOK
<1>10. \A i \in DOMAIN batch' : EntryOK(batch[i])'
  <2>1. ASSUME NEW i \in DOMAIN batch' PROVE EntryOK(batch[i])'
    <3>1. CASE i \in DOMAIN batch
      BY <1>8, <3>1
    <3>2. CASE i = Len(batch) + 1
      BY <1>3, <1>9, <3>2
    <3>. QED
      BY <1>3, <3>1, <3>2
  <2>. QED
    BY <2>1
<1>11. \A i, j \in DOMAIN batch' : batch'[i].rid = batch'[j].rid => i = j
  <2>1. \A i, j \in DOMAIN batch : batch[i].rid = batch[j].rid => i = j
    BY DEF BatchOK
  <2>2. ASSUME NEW i \in DOMAIN batch', NEW j \in DOMAIN batch', batch'[i].rid = batch'[j].rid
        PROVE  i = j
    <3>1. /\ i \in DOMAIN batch => batch'[i].rid = batch[i].rid /\ batch[i].rid # r
          /\ j \in DOMAIN batch => batch'[j].rid = batch[j].rid /\ batch[j].rid # r
      BY <1>3, <1>6
    <3>2. /\ i \notin DOMAIN batch => i = Len(batch) + 1 /\ batch'[i].rid = r
          /\ j \notin DOMAIN batch => j = Len(batch) + 1 /\ batch'[j].rid = r
      BY <1>1, <1>3
    <3>3. CASE i \in DOMAIN batch /\ j \in DOMAIN batch
      BY <2>1, <2>2, <3>1, <3>3
    <3>4. CASE ~ (i \in DOMAIN batch /\ j \in DOMAIN batch)
      BY <2>2, <3>1, <3>2, <3>4
    <3>. QED
      BY <3>3, <3>4
  <2>. QED
    BY <2>2
<1>12. \A i \in DOMAIN batch' : batch'[i].lo < batch'[i].hi
  <2>1. \A i \in DOMAIN batch : batch[i].lo < batch[i].hi
    BY DEF BatchOK
  <2>. QED
    BY <1>1, <1>3, <2>1
<1>13. \A i \in DOMAIN batch' : \A j \in cursor' .. Len(running) : batch'[i].rid # running[j]
  <2>1. \A j \in cursor' .. Len(running) : running[j] # r
    BY <1>1, <1>4 DEF Types, QueueTypes
  <2>2. ASSUME NEW i \in DOMAIN batch', NEW j \in cursor' .. Len(running) PROVE batch'[i].rid # running[j]
    <3>1. CASE i \in DOMAIN batch
      BY <1>3, <1>4, <1>5, <3>1
    <3>2. CASE i = Len(batch) + 1
      <4>1. batch'[i].rid = r
        BY <1>1, <1>3, <3>2
      <4>. QED
        BY <2>1, <4>1
    <3>. QED
      BY <1>3, <3>1, <3>2
  <2>. QED
    BY <2>2
<1>. QED
  BY <1>1, <1>4, <1>10, <1>11, <1>12, <1>13 DEF BatchOK

(* Growing a layer table leaves the batch alone. *)
LEMMA BatchWhileGrowing ==
    ASSUME BatchOK, NEW e \in Entries, NEW n \in Nat, Grown(e, n)
    PROVE  BatchOK'
<1>1. UNCHANGED <<conf, running, state, outLen, own, shared, cursor, batch, phase>>
  BY DEF Grown, queueVars, requestVars, batchVars
<1>2. \A i \in DOMAIN batch : EntryOK(batch[i]) => EntryOK(batch[i])'
  BY <1>1 DEF EntryOK, SeqLen, TableLen, UseKv
<1>. QED
  BY <1>1, <1>2 DEF BatchOK, Pending

(* The entries still to come are of other requests. *)
LEMMA BatchWhileWalking ==
    ASSUME SchedulerAssumption, RunnerAssumption, Types, Types', BatchOK, NEW e \in Entries, Walked(e)
    PROVE  BatchOK'
<1>1. /\ phase = "run" /\ cursor \in DOMAIN batch /\ e = batch[cursor]
      /\ cursor \in Nat /\ cursor + 1 \in 1 .. Len(batch) + 1
      /\ \A i \in DOMAIN batch : i >= cursor + 1 => i >= cursor /\ batch[i].rid # e.rid
  BY RunningFacts DEF Walked
<1>2. /\ cursor' = cursor + 1 /\ UNCHANGED <<conf, phase, batch>>
      /\ \A q \in Requests \ {e.rid} : outLen'[q] = outLen[q] /\ state'[q] = state[q]
      /\ Range(running) \ {e.rid} \subseteq Range(running')
      /\ \A q \in Requests \ {e.rid} : own'[q] = own[q] /\ shared'[q] = shared[q]
  BY DEF Walked
<1>3. \A i \in DOMAIN batch : batch[i] \in Entries
  BY Lengths
<1>4. ASSUME NEW i \in DOMAIN batch, i >= cursor' PROVE EntryOK(batch[i])'
  <2>1. batch[i] \in Entries /\ EntryOK(batch[i]) /\ batch[i].rid # e.rid
    BY <1>1, <1>2, <1>3, <1>4 DEF BatchOK, Pending
  <2>2. batch[i].rid \in Requests /\ batch[i].rid \in Range(running)
    BY <2>1, EntryFields DEF EntryOK
  <2>3. own[batch[i].rid] <= own'[batch[i].rid]
    <3>1. own[batch[i].rid] \in Nat
      BY <2>2 DEF Types, PoolTypes
    <3>. QED
      BY <1>2, <2>1, <2>2, <3>1
  <2>4. EntryOK(batch[i])
    BY <2>1
  <2>5. /\ conf' = conf /\ batch[i].rid \in Range(running') /\ state'[batch[i].rid] = state[batch[i].rid]
        /\ outLen'[batch[i].rid] = outLen[batch[i].rid] /\ shared'[batch[i].rid] = shared[batch[i].rid]
    BY <1>2, <2>1, <2>2
  <2>6. \A x \in Entries : x = batch[i] => EntryOK(x)'
    BY <2>1, <2>3, <2>4, <2>5, EntryStays
  <2>. QED
    BY <1>2, <2>1, <2>6
<1>5. /\ phase' = "run" /\ batch' = batch /\ cursor' \in 1 .. Len(batch') + 1
  BY <1>1, <1>2
<1>. QED
  BY <1>4, <1>5 DEF BatchOK, Pending

(* The batch is as it should be after every step. *)
LEMMA BatchKept ==
    ASSUME SchedulerAssumption, RunnerAssumption, Types, Types', BatchOK, Books, AnyStep
    PROVE  BatchOK'
<1>1. ASSUME NEW r \in Requests, AddStep(r) PROVE BatchOK'
  BY <1>1, EmptyBatch DEF AddStep, AddRequest, batchVars, BatchOK
<1>2. ASSUME NEW i \in DOMAIN running, ReapStep(i) PROVE BatchOK'
  BY <1>2, EmptyBatch DEF ReapStep, ReapNext, batchVars, BatchOK
<1>3. ASSUME NEW r, NEW m, NEW j, AdmitStep(r, m, j) PROVE BatchOK'
  BY <1>3, EmptyBatch DEF AdmitStep, Admit, batchVars, BatchOK
<1>4. ASSUME NEW e \in Entries, LostStep(e) PROVE BatchOK'
  BY <1>4, EmptyBatch, LostTypes
<1>5. ASSUME NEW e \in Entries, WalkStep(e) PROVE BatchOK'
  BY <1>5, WalkEnds, BatchWhileWalking
<1>6. ASSUME NEW e \in Entries, StrandStep(e) PROVE BatchOK'
  BY <1>6, EmptyBatch, StrandTypes DEF Strands
<1>. QED
  BY <1>1, <1>2, <1>3, <1>4, <1>5, <1>6, BatchWhileQuiet, BatchWhileSkipping, BatchWhileScheduling, BatchWhileGrowing,
     Zenon DEF AnyStep

-----------------------------------------------------------------------------
(* The books. *)

(* The totals are numbers. *)
LEMMA Totals ==
    ASSUME SchedulerAssumption, RunnerAssumption, own \in [Requests -> Nat], layer \in [Requests -> [Layers -> Nat]]
    PROVE  /\ Total(own) \in Nat /\ Total(LayerTotal) \in Nat
           /\ \A r \in Requests : LayerTotal[r] = Sum(layer[r]) /\ LayerTotal[r] \in Nat
<1>1. IsFiniteSet(Requests)
  BY Parameters
<1>2. \A r \in Requests : own[r] \in Nat
  OBVIOUS
<1>3. \A r \in Requests : LayerTotal[r] = Sum(layer[r]) /\ LayerTotal[r] \in Nat
  <2>1. \A r \in Requests : layer[r] \in [Layers -> Nat]
    OBVIOUS
  <2>2. \A r \in Requests : Sum(layer[r]) \in Nat
    BY <2>1, LayerSums
  <2>. QED
    BY <2>2 DEF LayerTotal
<1>4. Total(own) \in Nat /\ Total(LayerTotal) \in Nat
  BY <1>1, <1>2, <1>3, SumTakes DEF Total
<1>. QED
  BY <1>3, <1>4

(* The totals after a step that changes the tables of one request. *)
LEMMA TotalsChange ==
    ASSUME SchedulerAssumption, RunnerAssumption, Types, Types', NEW r \in Requests,
           \A q \in Requests \ {r} : own'[q] = own[q] /\ layer'[q] = layer[q]
    PROVE  /\ Total(own)' = Total(own) - own[r] + own'[r]
           /\ Total(LayerTotal)' = Total(LayerTotal) - Sum(layer[r]) + Sum(layer'[r])
           /\ Total(own) \in Nat /\ Total(LayerTotal) \in Nat /\ own[r] \in Nat /\ own'[r] \in Nat
           /\ Sum(layer[r]) \in Nat /\ Sum(layer'[r]) \in Nat
<1>1. IsFiniteSet(Requests)
  BY Parameters
<1>2. /\ own \in [Requests -> Nat] /\ layer \in [Requests -> [Layers -> Nat]]
      /\ own' \in [Requests -> Nat] /\ layer' \in [Requests -> [Layers -> Nat]]
  BY DEF Types, PoolTypes
<1>3. /\ Total(own) \in Nat /\ Total(LayerTotal) \in Nat
      /\ \A q \in Requests : LayerTotal[q] = Sum(layer[q]) /\ LayerTotal[q] \in Nat
  BY <1>2, Totals
<1>4. \A q \in Requests : LayerTotal'[q] = Sum(layer'[q])
  BY DEF LayerTotal
<1>5. layer'[r] \in [Layers -> Nat]
  BY <1>2
<1>6. Sum(layer'[r]) \in Nat
  BY <1>5, LayerSums
<1>7. own[r] \in Nat /\ own'[r] \in Nat /\ \A q \in Requests : own[q] \in Nat
  BY <1>2
<1>8. SumFunctionOnSet(own', Requests) = SumFunctionOnSet(own, Requests) - own[r] + own'[r]
  BY <1>1, <1>7, SumChanges
<1>9. SumFunctionOnSet(LayerTotal', Requests) = SumFunctionOnSet(LayerTotal, Requests) - LayerTotal[r] + LayerTotal'[r]
  <2>1. \A q \in Requests : LayerTotal[q] \in Nat
    BY <1>3
  <2>2. LayerTotal'[r] \in Nat
    BY <1>4, <1>6
  <2>3. \A q \in Requests \ {r} : LayerTotal'[q] = LayerTotal[q]
    BY <1>3, <1>4
  <2>4. SumFollows(Requests)
    BY <1>1, SumMoves
  <2>. QED
    BY <2>1, <2>2, <2>3, <2>4, Zenon DEF SumFollows
<1>. QED
  BY <1>3, <1>4, <1>6, <1>7, <1>8, <1>9 DEF Total

(* Steps that leave the tables' lengths, the pool and the cache alone. *)
LEMMA BooksStay ==
    ASSUME SchedulerAssumption, RunnerAssumption, Types, Types', Books,
           UNCHANGED <<conf, own, layer, free, cached, stranded>>,
           tables' \subseteq tables \cup Range(running'), Range(running) \subseteq Range(running'),
           \A q \in Requests : state'[q] = "finished" <=> state[q] = "finished",
           \A q \in Range(running') : q \in Range(running) \/ state'[q] # "finished"
    PROVE  Books'
<1>1. free' + cached' + Total(own)' + Total(LayerTotal)' = NumBlocks'
  <2>1. free + cached + Total(own) + Total(LayerTotal) = NumBlocks
    BY DEF Books
  <2>. QED
    BY <2>1 DEF Total, LayerTotal, NumBlocks
<1>2. (UseKv' <=> UseKv) /\ (Released' <=> Released)
  BY DEF Released, UseKv
<1>3. conf.engine = "rust" => \A i \in DOMAIN running' : state'[running'[i]] # "finished"
  <2>1. \A i \in DOMAIN running' : running'[i] \in Requests
    BY ElementOfSeq DEF Types, QueueTypes
  <2>2. \A i \in DOMAIN running' : running'[i] \in Range(running')
    BY DEF Range
  <2>3. conf.engine = "rust" => \A q \in Range(running) : state[q] # "finished"
    BY DEF Books, Range
  <2>. QED
    BY <2>1, <2>2, <2>3
<1>4. Released => /\ tables' \subseteq Holders'
                  /\ \A r \in Requests \ Holders' : own'[r] = 0 /\ \A l \in Layers : layer'[r][l] = 0
  BY DEF Books, Holders
<1>5. conf.engine = "python" => \A r \in Requests : state'[r] = "finished" => own'[r] = 0
  BY DEF Books
<1>6. conf'.engine = "python" \/ ~ UseKv' => \A r \in Requests : \A l \in Layers : layer'[r][l] = 0
  BY <1>2 DEF Books
<1>7. ~ Released' => cached' = 0
  BY <1>2 DEF Books
<1>. QED
  BY <1>1, <1>2, <1>3, <1>4, <1>5, <1>6, <1>7 DEF Books

(* A finished request is only left in `running` by the Python engine, which
   has released its table: reaping it frees nothing. *)
LEMMA BooksWhileReaping ==
    ASSUME SchedulerAssumption, RunnerAssumption, Types, Types', Books, NEW i \in DOMAIN running, ReapStep(i)
    PROVE  Books'
<1>. DEFINE r == running[i]
<1>1. /\ Range(running') = Range(running) \ {r} /\ running' \in Seq(Requests)
      /\ r \in Requests /\ r \in Range(running) /\ state[r] = "finished"
  BY ReapTypes
<1>2. /\ tables' = tables \ {r} /\ free' = free + (own[r] - 0) /\ own' = [own EXCEPT ![r] = 0]
      /\ UNCHANGED <<conf, layer, cached, state, stranded>>
  BY DEF ReapStep, ReapNext, FreeTable, EngineSame, requestVars
<1>3. conf.engine = "python"
  BY <1>1, ConfigTypes DEF Books, Types
<1>. HIDE DEF r
<1>4. own[r] = 0 /\ own \in [Requests -> Nat] /\ free \in Nat
  BY <1>1, <1>3 DEF Books, Types, PoolTypes
<1>5. own' = own /\ free' = free
  BY <1>1, <1>2, <1>4
<1>6. /\ Released' /\ conf'.engine = "python" /\ conf'.engine # "rust"
  BY <1>2, <1>3 DEF Released
<1>7. free' + cached' + Total(own)' + Total(LayerTotal)' = NumBlocks'
  <2>1. free + cached + Total(own) + Total(LayerTotal) = NumBlocks
    BY DEF Books
  <2>. QED
    BY <1>2, <1>5, <2>1 DEF Total, LayerTotal, NumBlocks
<1>8. \A q \in Requests : \A l \in Layers : layer'[q][l] = 0
  BY <1>2, <1>3 DEF Books
<1>9. tables' \subseteq Holders' /\ \A q \in Requests \ Holders' : own'[q] = 0
  BY <1>1, <1>2, <1>3, <1>4, <1>5 DEF Books, Released, Holders
<1>10. \A q \in Requests : state'[q] = "finished" => own'[q] = 0
  BY <1>2, <1>3, <1>5 DEF Books
<1>. QED
  BY <1>6, <1>7, <1>8, <1>9, <1>10 DEF Books

(* Blocks go from the free list to the main table of a running request. *)
LEMMA BooksWhileScheduling ==
    ASSUME SchedulerAssumption, RunnerAssumption, Types, Types', Books,
           NEW r \in Requests, NEW e \in Entries, NEW n \in Nat, Scheduled(r, e, n)
    PROVE  Books'
<1>1. /\ r \in Range(running) /\ state[r] \in {"prefill", "decode"}
      /\ free' = free - n /\ own' = [own EXCEPT ![r] = @ + n]
      /\ tables' \subseteq tables \cup {r}
      /\ state' = [state EXCEPT ![r] = IF e.samples THEN "decode" ELSE "prefill"]
      /\ UNCHANGED <<conf, layer, cached, running, stranded>>
  BY DEF Scheduled, EngineSame, Range
<1>2. /\ own'[r] = own[r] + n /\ (\A q \in Requests \ {r} : own'[q] = own[q] /\ state'[q] = state[q])
      /\ state'[r] \in {"prefill", "decode"}
      /\ \A q \in Requests : layer'[q] = layer[q]
  BY <1>1 DEF Types, PoolTypes, QueueTypes
<1>3. free' + cached' + Total(own)' + Total(LayerTotal)' = NumBlocks'
  <2>1. free + cached + Total(own) + Total(LayerTotal) = NumBlocks
    BY DEF Books
  <2>2. /\ Total(own)' = Total(own) - own[r] + own'[r]
        /\ Total(LayerTotal)' = Total(LayerTotal) - Sum(layer[r]) + Sum(layer'[r])
        /\ Total(own) \in Nat /\ Total(LayerTotal) \in Nat /\ own[r] \in Nat /\ own'[r] \in Nat
        /\ Sum(layer[r]) \in Nat /\ Sum(layer'[r]) \in Nat
    BY <1>2, TotalsChange
  <2>3. free \in Nat /\ cached \in Nat /\ NumBlocks' = NumBlocks /\ Sum(layer'[r]) = Sum(layer[r]) /\ cached' = cached
    BY <1>1 DEF Types, PoolTypes, NumBlocks
  <2>. QED
    BY <1>1, <1>2, <2>1, <2>2, <2>3
<1>4. (UseKv' <=> UseKv) /\ (Released' <=> Released) /\ conf' = conf
  BY <1>1 DEF Released, UseKv
<1>5. conf.engine = "rust" => \A i \in DOMAIN running : state'[running[i]] # "finished"
  <2>1. \A i \in DOMAIN running : running[i] \in Requests
    BY Lengths
  <2>. QED
    BY <1>2, <2>1 DEF Books
<1>6. Released => /\ tables' \subseteq Holders'
                  /\ \A q \in Requests \ Holders' : own'[q] = 0 /\ \A l \in Layers : layer'[q][l] = 0
  BY <1>1, <1>2 DEF Books, Holders
<1>7. conf.engine = "python" => \A q \in Requests : state'[q] = "finished" => own'[q] = 0
  BY <1>2 DEF Books
<1>8. conf.engine = "python" \/ ~ UseKv => \A q \in Requests : \A l \in Layers : layer'[q][l] = 0
  BY <1>2 DEF Books
<1>9. ~ Released => cached' = 0
  BY <1>1 DEF Books
<1>. QED
  BY <1>1, <1>3, <1>4, <1>5, <1>6, <1>7, <1>8, <1>9 DEF Books

(* Blocks go from the free list to a layer table of a running request. *)
LEMMA BooksWhileGrowing ==
    ASSUME SchedulerAssumption, RunnerAssumption, Types, Types', BatchOK, Books,
           NEW e \in Entries, NEW n \in Nat, Grown(e, n)
    PROVE  Books'
<1>. DEFINE r == e.rid
<1>1. /\ conf.engine = "rust" /\ UseKv /\ nextLayer \in Layers
      /\ n <= free /\ free' = free - n
      /\ layer'[r] = [layer[r] EXCEPT ![nextLayer] = @ + n]
      /\ \A q \in Requests \ {r} : layer'[q] = layer[q]
      /\ UNCHANGED <<conf, running, state, tables, own, cached, stranded>>
  BY DEF Grown, queueVars, requestVars
<1>2. r \in Requests /\ r \in Range(running)
  BY RunningFacts DEF Grown, Running, EntryOK
<1>3. layer[r] \in [Layers -> Nat] /\ layer'[r] \in [Layers -> Nat]
  BY <1>2 DEF Types, PoolTypes
<1>. HIDE DEF r
<1>4. Sum(layer'[r]) = Sum(layer[r]) + n
  <2>1. IsFiniteSet(Layers)
    BY <1>3, LayerSums
  <2>2. /\ Sum(layer[r]) = SumFunctionOnSet(layer[r], Layers) /\ Sum(layer[r]) \in Nat
        /\ Sum(layer'[r]) = SumFunctionOnSet(layer'[r], Layers)
    BY <1>3, LayerSums
  <2>3. PICK f, h : f = layer[r] /\ h = layer'[r]
    OBVIOUS
  <2>4. h[nextLayer] = f[nextLayer] + n /\ f[nextLayer] \in Nat /\ h[nextLayer] \in Nat
    BY <1>1, <1>3, <2>3
  <2>5. (\A l \in Layers : f[l] \in Nat) /\ \A l \in Layers \ {nextLayer} : h[l] = f[l]
    BY <1>1, <1>3, <2>3
  <2>6. SumFunctionOnSet(h, Layers) = SumFunctionOnSet(f, Layers) - f[nextLayer] + h[nextLayer]
    <3>1. SumFollows(Layers)
      BY <2>1, SumMoves
    <3>. QED
      BY <1>1, <2>4, <2>5, <3>1, Zenon DEF SumFollows
  <2>7. SumFunctionOnSet(f, Layers) = Sum(layer[r]) /\ SumFunctionOnSet(h, Layers) = Sum(layer'[r])
    BY <2>2, <2>3, Zenon
  <2>. QED
    BY <2>2, <2>4, <2>6, <2>7
<1>5. free' + cached' + Total(own)' + Total(LayerTotal)' = NumBlocks'
  <2>1. free + cached + Total(own) + Total(LayerTotal) = NumBlocks
    BY DEF Books
  <2>0. \A q \in Requests \ {r} : own'[q] = own[q] /\ layer'[q] = layer[q]
    BY <1>1
  <2>2. /\ Total(own)' = Total(own) - own[r] + own'[r]
        /\ Total(LayerTotal)' = Total(LayerTotal) - Sum(layer[r]) + Sum(layer'[r])
        /\ Total(own) \in Nat /\ Total(LayerTotal) \in Nat /\ own[r] \in Nat /\ own'[r] \in Nat
        /\ Sum(layer[r]) \in Nat /\ Sum(layer'[r]) \in Nat
    BY <1>2, <2>0, TotalsChange
  <2>3. free \in Nat /\ cached \in Nat /\ NumBlocks' = NumBlocks /\ own'[r] = own[r] /\ cached' = cached
    BY <1>1 DEF Types, PoolTypes, NumBlocks
  <2>. QED
    BY <1>1, <1>4, <2>1, <2>2, <2>3
<1>6. UseKv' /\ Released' /\ conf'.engine = "rust" /\ conf'.engine # "python" /\ Released
  BY <1>1 DEF Released, UseKv
<1>7. /\ tables' \subseteq Holders'
      /\ \A q \in Requests \ Holders' : own'[q] = 0 /\ \A l \in Layers : layer'[q][l] = 0
  BY <1>1, <1>2, <1>6 DEF Books, Holders
<1>8. \A i \in DOMAIN running : state'[running[i]] # "finished"
  BY <1>1 DEF Books
<1>. QED
  BY <1>1, <1>5, <1>6, <1>7, <1>8 DEF Books

(* A finished request's blocks go back to the pool or to the cache, or stay
   in its table for good. *)
LEMMA BooksWhileStopping ==
    ASSUME SchedulerAssumption, RunnerAssumption, Types, Types', BatchOK, Books,
           NEW e \in Entries, Walked(e), Stops(e)
    PROVE  Books'
<1>. DEFINE r == e.rid
<1>1. /\ r \in Requests /\ r \in Range(running) /\ conf' = conf /\ stranded' = stranded
      /\ \A q \in Requests \ {r} : state'[q] = state[q] /\ own'[q] = own[q] /\ layer'[q] = layer[q]
      /\ state'[r] = "finished"
      /\ Range(running') \subseteq Range(running) /\ Range(running) \ {r} \subseteq Range(running')
      /\ conf.engine = "rust" => Range(running') = Range(running) \ {r}
      /\ conf.engine = "python" => running' = running
      /\ conf.engine \in {"rust", "python"}
  BY RunningFacts, ConfigTypes DEF Walked, Stops, EntryOK, Types
<1>. HIDE DEF r
<1>2. (UseKv' <=> UseKv) /\ (Released' <=> Released)
  BY <1>1 DEF Released, UseKv
<1>3. conf.engine = "rust" => \A i \in DOMAIN running' : state'[running'[i]] # "finished"
  <2>1. \A i \in DOMAIN running' : running'[i] \in Requests /\ running'[i] \in Range(running')
    BY ElementOfSeq DEF Types, QueueTypes, Range
  <2>2. conf.engine = "rust" => \A q \in Range(running) : state[q] # "finished"
    BY DEF Books, Range
  <2>. QED
    BY <1>1, <2>1, <2>2
<1>4. CASE ~ Released
  <2>1. UNCHANGED <<tables, own, free, layer, cached>> /\ conf.engine = "rust" /\ conf.engine # "python" /\ ~ UseKv
    BY <1>1, <1>4 DEF Stops, Released
  <2>2. free' + cached' + Total(own)' + Total(LayerTotal)' = NumBlocks'
    <3>1. free + cached + Total(own) + Total(LayerTotal) = NumBlocks
      BY DEF Books
    <3>. QED
      BY <1>1, <2>1, <3>1 DEF Total, LayerTotal, NumBlocks
  <2>3. (\A q \in Requests : \A l \in Layers : layer'[q][l] = 0) /\ cached' = 0
    BY <1>4, <2>1 DEF Books
  <2>. QED
    BY <1>1, <1>2, <1>3, <1>4, <2>1, <2>2, <2>3 DEF Books
<1>5. CASE Released
  <2>1. PICK k \in Nat : PoolFreed(e, k)
    BY <1>5 DEF Stops
  <2>2. /\ tables' = tables \ {r} /\ own'[r] = 0 /\ (\A l \in Layers : layer'[r][l] = 0)
        /\ k \in Nat /\ k <= own[r]
        /\ free' = free + (own[r] - k) + Sum(layer[r]) /\ cached' = cached + k
    BY <2>1 DEF PoolFreed, r
  <2>3. Sum(layer'[r]) = 0
    <3>1. layer'[r] \in [Layers -> Nat]
      BY <1>1 DEF Types, PoolTypes
    <3>2. IsFiniteSet(Layers) /\ Sum(layer'[r]) = SumFunctionOnSet(layer'[r], Layers)
      BY <3>1, LayerSums
    <3>3. \A f : (\A l \in Layers : f[l] = 0) => SumFunctionOnSet(f, Layers) = 0
      BY <3>2, SumZero
    <3>. QED
      BY <2>2, <3>2, <3>3, Zenon
  <2>4. free' + cached' + Total(own)' + Total(LayerTotal)' = NumBlocks'
    <3>1. free + cached + Total(own) + Total(LayerTotal) = NumBlocks
      BY DEF Books
    <3>2. /\ Total(own)' = Total(own) - own[r] + own'[r]
          /\ Total(LayerTotal)' = Total(LayerTotal) - Sum(layer[r]) + Sum(layer'[r])
          /\ Total(own) \in Nat /\ Total(LayerTotal) \in Nat /\ own[r] \in Nat /\ own'[r] \in Nat
          /\ Sum(layer[r]) \in Nat /\ Sum(layer'[r]) \in Nat
      BY <1>1, TotalsChange
    <3>3. free \in Nat /\ cached \in Nat /\ NumBlocks' = NumBlocks
      BY <1>1 DEF Types, PoolTypes, NumBlocks
    <3>. QED
      BY <2>2, <2>3, <3>1, <3>2, <3>3
  <2>5. tables' \subseteq Holders'
    BY <1>1, <1>5, <2>2 DEF Books, Holders
  <2>6. \A q \in Requests \ Holders' : own'[q] = 0 /\ \A l \in Layers : layer'[q][l] = 0
    <3>1. ASSUME NEW q \in Requests \ Holders' PROVE own'[q] = 0 /\ \A l \in Layers : layer'[q][l] = 0
      <4>1. CASE q = r
        BY <2>2, <4>1
      <4>2. CASE q # r
        BY <1>1, <1>5, <4>2 DEF Books, Holders
      <4>. QED
        BY <4>1, <4>2
    <3>. QED
      BY <3>1
  <2>7. conf.engine = "python" \/ ~ UseKv => \A q \in Requests : \A l \in Layers : layer'[q][l] = 0
    <3>1. ASSUME conf.engine = "python" \/ ~ UseKv, NEW q \in Requests, NEW l \in Layers PROVE layer'[q][l] = 0
      BY <1>1, <2>2, <3>1 DEF Books
    <3>. QED
      BY <3>1
  <2>8. conf.engine = "python" => \A q \in Requests : state'[q] = "finished" => own'[q] = 0
    BY <1>1, <2>2 DEF Books
  <2>. QED
    BY <1>1, <1>2, <1>3, <1>5, <2>4, <2>5, <2>6, <2>7, <2>8 DEF Books
<1>. QED
  BY <1>4, <1>5

(* A request whose insertion panics keeps all its blocks, and is a holder
   still. *)
LEMMA BooksWhileStranding ==
    ASSUME SchedulerAssumption, RunnerAssumption, Types, Types', Books, NEW e \in Entries, Strands(e)
    PROVE  Books'
<1>1. /\ conf.engine = "rust"
      /\ UNCHANGED <<conf, tables, own, free, layer, cached>>
      /\ \A q \in Requests \ {e.rid} : state'[q] = state[q]
      /\ Range(running') = Range(running) \ {e.rid}
      /\ stranded' = stranded \cup {e.rid}
  BY DEF Strands, poolVars
<1>2. (UseKv' <=> UseKv) /\ (Released' <=> Released)
  BY <1>1 DEF Released, UseKv
<1>3. free' + cached' + Total(own)' + Total(LayerTotal)' = NumBlocks'
  <2>1. free + cached + Total(own) + Total(LayerTotal) = NumBlocks
    BY DEF Books
  <2>. QED
    BY <1>1, <2>1 DEF Total, LayerTotal, NumBlocks
<1>4. \A i \in DOMAIN running' : state'[running'[i]] # "finished"
  <2>1. \A i \in DOMAIN running' : running'[i] \in Requests /\ running'[i] \in Range(running')
    BY ElementOfSeq DEF Types, QueueTypes, Range
  <2>2. \A q \in Range(running) : state[q] # "finished"
    BY <1>1 DEF Books, Range
  <2>. QED
    BY <1>1, <2>1, <2>2
<1>5. Holders \subseteq Holders'
  BY <1>1 DEF Holders
<1>6. Released => /\ tables' \subseteq Holders'
                  /\ \A q \in Requests \ Holders' : own'[q] = 0 /\ \A l \in Layers : layer'[q][l] = 0
  BY <1>1, <1>5 DEF Books
<1>7. ~ UseKv => \A q \in Requests : \A l \in Layers : layer'[q][l] = 0
  BY <1>1 DEF Books
<1>8. ~ Released' => cached' = 0
  BY <1>1, <1>2 DEF Books
<1>9. conf'.engine # "python"
  BY <1>1
<1>. QED
  BY <1>2, <1>3, <1>4, <1>6, <1>7, <1>8, <1>9 DEF Books

(* The books stay balanced. *)
LEMMA BooksKept ==
    ASSUME SchedulerAssumption, RunnerAssumption, Types, Types', BatchOK, Books, AnyStep
    PROVE  Books'
<1>0. /\ state \in [Requests -> {"new", "waiting", "prefill", "decode", "finished"}]
      /\ \A r \in waiting : r \in Requests /\ state[r] = "waiting"
      /\ \A q \in Range(running) : q \in Requests
  BY Lengths DEF Types, QueueTypes, Range
<1>1. ASSUME NEW r \in Requests, AddStep(r) PROVE Books'
  <2>1. /\ state[r] = "new" /\ state' = [state EXCEPT ![r] = "waiting"]
        /\ UNCHANGED <<conf, tables, own, layer, free, cached, running, stranded>>
    BY <1>1 DEF AddStep, AddRequest, EngineSame, poolVars
  <2>2. \A q \in Requests : state'[q] = "finished" <=> state[q] = "finished"
    BY <1>0, <2>1
  <2>. QED
    BY <2>1, <2>2, BooksStay
<1>2. ASSUME QuietStep \/ \E e \in Entries : LostStep(e) PROVE Books'
  <2>1. UNCHANGED <<conf, tables, own, layer, free, cached, running, state, stranded>>
    <3>1. CASE QuietStep
      BY <3>1 DEF QuietStep, EngineSame, Schedule, ReapDone, AdmitDone, BuildDone, RunDone, queueVars, requestVars, poolVars
    <3>2. ASSUME NEW e \in Entries, LostStep(e) PROVE UNCHANGED <<conf, tables, own, layer, free, cached, running, state, stranded>>
      BY <3>2, LostTypes DEF queueVars, requestVars, poolVars
    <3>. QED
      BY <1>2, <3>1, <3>2
  <2>. QED
    BY <2>1, BooksStay
<1>3. ASSUME NEW r \in Requests, NEW m \in 0 .. CachedTokens[r], NEW j \in Nat, AdmitStep(r, m, j) PROVE Books'
  <2>1. Range(running') = Range(running) \cup {r} /\ r \notin Range(running)
    BY <1>3, AdmitTypes
  <2>2. /\ r \in waiting /\ state' = [state EXCEPT ![r] = IF m >= PromptLen[r] THEN "decode" ELSE "prefill"]
        /\ tables' = (IF m > 0 THEN tables \cup {r} ELSE tables)
        /\ UNCHANGED <<conf, own, layer, free, cached, stranded>>
    BY <1>3 DEF AdmitStep, Admit
  <2>3. \A q \in Requests : state'[q] = "finished" <=> state[q] = "finished"
    BY <1>0, <2>2
  <2>4. \A q \in Range(running') : q \in Range(running) \/ state'[q] # "finished"
    BY <1>0, <2>1, <2>2
  <2>5. tables' \subseteq tables \cup Range(running') /\ Range(running) \subseteq Range(running')
    BY <2>1, <2>2
  <2>. QED
    BY <2>2, <2>3, <2>4, <2>5, BooksStay
<1>4. ASSUME NEW r \in Requests, SkipStep(r) PROVE Books'
  <2>1. /\ UNCHANGED <<conf, tables, own, layer, free, cached, running, stranded>>
        /\ \A q \in Requests : state'[q] = state[q] \/ (state[q] = "prefill" /\ state'[q] = "decode")
    BY <1>4, SkipTypes DEF SkipStep, EngineSame
  <2>2. \A q \in Requests : state'[q] = "finished" <=> state[q] = "finished"
    BY <2>1
  <2>. QED
    BY <2>1, <2>2, BooksStay
<1>5. ASSUME NEW e \in Entries, WalkStep(e) PROVE Books'
  <2>1. Walked(e) /\ (GoesOn \/ Stops(e))
    BY <1>5, WalkEnds
  <2>2. CASE GoesOn
    <3>1. UNCHANGED <<conf, tables, own, layer, free, cached, running, state, stranded>>
      BY <2>1, <2>2 DEF GoesOn, Walked
    <3>. QED
      BY <3>1, BooksStay
  <2>. QED
    BY <2>1, <2>2, BooksWhileStopping
<1>6. ASSUME NEW e \in Entries, StrandStep(e) PROVE Books'
  BY <1>6, StrandTypes, BooksWhileStranding
<1>. QED
  BY <1>1, <1>2, <1>3, <1>4, <1>5, <1>6, BooksWhileReaping, BooksWhileScheduling, BooksWhileGrowing DEF AnyStep

-----------------------------------------------------------------------------
(* Stranded requests. *)

(* Only a panicking insertion strands a request. *)
LEMMA StrandedSame ==
    ASSUME SchedulerAssumption, RunnerAssumption, Types, BatchOK, Books, AnyStep
    PROVE  stranded' = stranded \/ \E e \in Entries : StrandStep(e)
<1>1. ASSUME NEW e \in Entries, WalkStep(e) PROVE stranded' = stranded
  BY <1>1, WalkEnds DEF Walked
<1>2. ASSUME NEW e \in Entries, LostStep(e) PROVE stranded' = stranded
  BY <1>2, LostTypes
<1>3. CASE \/ \E r \in Requests : AddStep(r) \/ SkipStep(r)
           \/ QuietStep
           \/ \E i \in DOMAIN running : ReapStep(i)
  BY <1>3 DEF AddStep, SkipStep, QuietStep, ReapStep, EngineSame
<1>4. ASSUME NEW r, NEW m, NEW j, AdmitStep(r, m, j) PROVE stranded' = stranded
  BY <1>4 DEF AdmitStep
<1>5. ASSUME NEW r, NEW e, NEW n, Scheduled(r, e, n) PROVE stranded' = stranded
  BY <1>5 DEF Scheduled, EngineSame
<1>6. ASSUME NEW e, NEW n, Grown(e, n) PROVE stranded' = stranded
  BY <1>6 DEF Grown
<1>. QED
  BY <1>1, <1>2, <1>3, <1>4, <1>5, <1>6 DEF AnyStep

(* A finished request stays finished. *)
LEMMA FinishedStays ==
    ASSUME SchedulerAssumption, RunnerAssumption, Types, BatchOK, Books, AnyStep,
           NEW q \in Requests, state[q] = "finished"
    PROVE  state'[q] = "finished"
<1>0. state \in [Requests -> {"new", "waiting", "prefill", "decode", "finished"}]
  BY DEF Types, QueueTypes
<1>1. CASE \/ QuietStep
           \/ \E i \in DOMAIN running : ReapStep(i)
           \/ \E e \in Entries : \E n \in Nat : Grown(e, n)
           \/ \E e \in Entries : LostStep(e)
  BY <1>1, SameRequests
<1>2. ASSUME NEW r \in Requests, AddStep(r) PROVE state'[q] = "finished"
  BY <1>0, <1>2 DEF AddStep, AddRequest
<1>3. ASSUME NEW r \in Requests, NEW m \in 0 .. CachedTokens[r], NEW j \in Nat, AdmitStep(r, m, j)
      PROVE  state'[q] = "finished"
  <2>1. r \in waiting /\ state' = [state EXCEPT ![r] = IF m >= PromptLen[r] THEN "decode" ELSE "prefill"]
    BY <1>3 DEF AdmitStep, Admit
  <2>2. state[r] = "waiting"
    BY <2>1 DEF Types, QueueTypes
  <2>. QED
    BY <1>0, <2>1, <2>2
<1>4. ASSUME NEW r \in Requests, SkipStep(r) PROVE state'[q] = "finished"
  BY <1>4, SkipTypes
<1>5. ASSUME NEW r \in Requests, NEW e \in Entries, NEW n \in Nat, Scheduled(r, e, n) PROVE state'[q] = "finished"
  BY <1>0, <1>5 DEF Scheduled
<1>6. ASSUME NEW e \in Entries, WalkStep(e) PROVE state'[q] = "finished"
  <2>1. Walked(e) /\ EntryOK(e)
    BY <1>6, WalkEnds, RunningFacts DEF Walked
  <2>2. state[e.rid] # "finished"
    BY <2>1 DEF EntryOK
  <2>. QED
    BY <2>1, <2>2 DEF Walked
<1>7. ASSUME NEW e \in Entries, StrandStep(e) PROVE state'[q] = "finished"
  BY <1>7, StrandTypes DEF Strands
<1>. QED
  BY <1>1, <1>2, <1>3, <1>4, <1>5, <1>6, <1>7 DEF AnyStep

(* No step changes the configuration. *)
LEMMA ConfSame ==
    ASSUME SchedulerAssumption, RunnerAssumption, Types, BatchOK, Books, AnyStep
    PROVE  conf' = conf
<1>1. ASSUME NEW e \in Entries, WalkStep(e) PROVE conf' = conf
  BY <1>1, WalkEnds DEF Walked
<1>2. ASSUME NEW e \in Entries, LostStep(e) \/ StrandStep(e) PROVE conf' = conf
  BY <1>2 DEF LostStep, StrandStep
<1>3. CASE \/ \E r \in Requests : AddStep(r) \/ SkipStep(r)
           \/ QuietStep
           \/ \E i \in DOMAIN running : ReapStep(i)
  BY <1>3 DEF AddStep, SkipStep, QuietStep, ReapStep, EngineSame
<1>4. ASSUME NEW r, NEW m, NEW j, AdmitStep(r, m, j) PROVE conf' = conf
  BY <1>4 DEF AdmitStep
<1>5. ASSUME NEW r, NEW e, NEW n, Scheduled(r, e, n) PROVE conf' = conf
  BY <1>5 DEF Scheduled, EngineSame
<1>6. ASSUME NEW e, NEW n, Grown(e, n) PROVE conf' = conf
  BY <1>6 DEF Grown
<1>. QED
  BY <1>1, <1>2, <1>3, <1>4, <1>5, <1>6 DEF AnyStep

(* Stranded requests are finished ones of the Rust engine. *)
LEMMA StrandingKept ==
    ASSUME SchedulerAssumption, RunnerAssumption, Types, BatchOK, Books, Stranding, AnyStep
    PROVE  Stranding'
<1>1. conf' = conf
  BY ConfSame
<1>2. CASE stranded' = stranded
  <2>1. stranded \subseteq Requests
    BY DEF Types, PoolTypes
  <2>2. \A q \in stranded : state'[q] = "finished"
    BY <2>1, FinishedStays DEF Stranding
  <2>. QED
    BY <1>1, <1>2, <2>2 DEF Stranding
<1>3. ASSUME NEW e \in Entries, StrandStep(e) PROVE Stranding'
  <2>1. Strands(e)
    BY <1>3, StrandTypes
  <2>2. /\ conf.engine = "rust" /\ stranded' = stranded \cup {e.rid} /\ state'[e.rid] = "finished"
    BY <2>1 DEF Strands
  <2>3. stranded \subseteq Requests
    BY DEF Types, PoolTypes
  <2>4. \A q \in stranded : state'[q] = "finished"
    BY <2>3, FinishedStays DEF Stranding
  <2>. QED
    BY <1>1, <2>2, <2>4 DEF Stranding
<1>. QED
  BY <1>2, <1>3, StrandedSame

-----------------------------------------------------------------------------
(* The limits of tables and cache. *)

(* What a request may need, hold and leave. *)
LEMMA Needs ==
    ASSUME SchedulerAssumption, RunnerAssumption, conf \in Configs, NEW r \in Requests
    PROVE  /\ TableNeed(r) \in Nat /\ Peak(r) \in Nat /\ TableNeed(r) <= Peak(r)
           /\ Left(r) \in Nat /\ Left(r) <= Peak(r)
           /\ r \in stranded => Left(r) = Peak(r)
           /\ r \notin stranded => Left(r) <= TableNeed(r) /\ (conf.prefix => Left(r) = TableNeed(r))
<1>1. PromptLen[r] \in Nat /\ MaxNew[r] \in Nat /\ BlockSize \in Nat \ {0} /\ NumLayers \in Nat
  BY Parameters
<1>2. MaxSeqLen(r) \in Nat
  BY <1>1 DEF MaxSeqLen
<1>3. CeilDiv(PromptLen[r], BlockSize) \in Nat /\ CeilDiv(MaxSeqLen(r), BlockSize) \in Nat
  BY <1>1, <1>2, CeilDivFills
<1>4. TableNeed(r) \in Nat
  BY <1>3 DEF TableNeed
<1>5. Peak(r) \in Nat /\ TableNeed(r) <= Peak(r)
  <2>1. \A t \in Nat : t * (1 + NumLayers) = t + NumLayers * t /\ NumLayers * t \in Nat /\ t * 1 = t
    BY <1>1
  <2>2. Peak(r) = TableNeed(r) * (1 + NumLayers) \/ Peak(r) = TableNeed(r) * 1
    BY DEF Peak
  <2>. QED
    BY <1>4, <2>1, <2>2
<1>. QED
  BY <1>4, <1>5 DEF Left

(* They depend on the configuration, and on who is stranded. *)
LEMMA NeedsSame ==
    ASSUME conf' = conf, NEW r \in Requests
    PROVE  /\ TableNeed(r)' = TableNeed(r) /\ Peak(r)' = Peak(r)
           /\ (r \in stranded' <=> r \in stranded) => Left(r)' = Left(r)
           /\ NumBlocks' = NumBlocks /\ (UseKv' <=> UseKv)
  BY DEF TableNeed, Left, Peak, NumBlocks, UseKv, MaxSeqLen

(* A finished request stays finished, and what it leaves behind counts. *)
LEMMA LeftGrows ==
    ASSUME SchedulerAssumption, RunnerAssumption, conf \in Configs, conf' = conf, stranded' = stranded,
           \A q \in Requests : state[q] = "finished" => state'[q] = "finished"
    PROVE  /\ Total(LeftBehind) \in Nat /\ Total(LeftBehind)' \in Nat
           /\ Total(LeftBehind) <= Total(LeftBehind)'
           /\ \A r \in Requests \ stranded : state[r] # "finished" /\ state'[r] = "finished" =>
                 Total(LeftBehind) + Left(r) <= Total(LeftBehind)'
<1>0. IsFiniteSet(Requests)
  BY Parameters
<1>1. \A q \in Requests : Left(q) \in Nat /\ Left(q)' = Left(q)
  BY Needs, NeedsSame
<1>2. PICK f, h : f = LeftBehind /\ h = LeftBehind'
  OBVIOUS
<1>3. \A q \in Requests : /\ f[q] = (IF state[q] = "finished" /\ q \notin stranded THEN Left(q) ELSE 0)
                          /\ h[q] = (IF state'[q] = "finished" /\ q \notin stranded THEN Left(q) ELSE 0)
  BY <1>1, <1>2 DEF LeftBehind
<1>4. \A q \in Requests : f[q] \in Nat /\ h[q] \in Nat /\ f[q] <= h[q]
  BY <1>1, <1>3
<1>5. SumFunctionOnSet(f, Requests) \in Nat /\ SumFunctionOnSet(h, Requests) \in Nat
  BY <1>0, <1>4, SumTakes
<1>6. SumFunctionOnSet(f, Requests) <= SumFunctionOnSet(h, Requests)
  BY <1>0, <1>4, SumMonotonic
<1>7. ASSUME NEW r \in Requests \ stranded, state[r] # "finished", state'[r] = "finished"
      PROVE  SumFunctionOnSet(f, Requests) + Left(r) <= SumFunctionOnSet(h, Requests)
  <2>1. f[r] = 0 /\ h[r] = Left(r) /\ Left(r) \in Nat
    BY <1>1, <1>3, <1>7
  <2>2. IsFiniteSet(Requests \ {r})
    BY <1>0, FS_RemoveElement
  <2>3. \A q \in Requests \ {r} : f[q] \in Nat /\ h[q] \in Nat /\ f[q] <= h[q]
    BY <1>4
  <2>4. SumFunctionOnSet(f, Requests \ {r}) <= SumFunctionOnSet(h, Requests \ {r})
    BY <2>2, <2>3, SumMonotonic
  <2>5. /\ SumFunctionOnSet(f, Requests) = f[r] + SumFunctionOnSet(f, Requests \ {r})
        /\ SumFunctionOnSet(h, Requests) = h[r] + SumFunctionOnSet(h, Requests \ {r})
    <3>1. \A q \in Requests : f[q] \in Nat
      BY <1>4
    <3>2. \A q \in Requests : h[q] \in Nat
      BY <1>4
    <3>3. SumFunctionOnSet(f, Requests) = f[r] + SumFunctionOnSet(f, Requests \ {r})
      BY <1>0, <3>1, SumTakes
    <3>4. SumFunctionOnSet(h, Requests) = h[r] + SumFunctionOnSet(h, Requests \ {r})
      BY <1>0, <3>2, SumTakes
    <3>. QED
      BY <3>3, <3>4
  <2>6. SumFunctionOnSet(f, Requests \ {r}) \in Nat /\ SumFunctionOnSet(h, Requests \ {r}) \in Nat
    BY <2>2, <2>3, SumTakes
  <2>. QED
    BY <2>1, <2>4, <2>5, <2>6
<1>8. Total(LeftBehind) = SumFunctionOnSet(f, Requests) /\ Total(LeftBehind)' = SumFunctionOnSet(h, Requests)
  BY <1>2 DEF Total
<1>. QED
  BY <1>5, <1>6, <1>7, <1>8, Zenon

(* Steps that neither grow a table nor fill the cache. *)
LEMMA LimitsStay ==
    ASSUME SchedulerAssumption, RunnerAssumption, Types, Types', Limits, UNCHANGED <<conf, cached, stranded>>,
           \A q \in Requests : state[q] = "finished" => state'[q] = "finished",
           \A q \in Requests : own'[q] = own[q] \/ own'[q] <= TableNeed(q),
           \A q \in Requests : \A l \in Layers : layer'[q][l] = layer[q][l] \/ layer'[q][l] <= TableNeed(q)
    PROVE  Limits'
<1>1. \A q \in Requests : own'[q] <= TableNeed(q)' /\ \A l \in Layers : layer'[q][l] <= TableNeed(q)'
  BY NeedsSame DEF Limits
<1>2. conf \in Configs
  BY DEF Types
<1>3. Total(LeftBehind) \in Nat /\ Total(LeftBehind)' \in Nat /\ Total(LeftBehind) <= Total(LeftBehind)'
  BY <1>2, LeftGrows
<1>4. cached \in Nat /\ cached <= Total(LeftBehind)
  BY DEF Types, PoolTypes, Limits
<1>5. cached' <= Total(LeftBehind)'
  BY <1>3, <1>4
<1>. QED
  BY <1>1, <1>5 DEF Limits

(* Tables and cache stay within their limits. *)
LEMMA LimitsKept ==
    ASSUME SchedulerAssumption, RunnerAssumption, Types, Types', BatchOK, Books, Stranding, Limits, AnyStep
    PROVE  Limits'
<1>0. /\ state \in [Requests -> {"new", "waiting", "prefill", "decode", "finished"}]
      /\ own \in [Requests -> Nat] /\ shared \in [Requests -> Nat] /\ layer \in [Requests -> [Layers -> Nat]]
      /\ conf \in Configs
      /\ \A q \in Requests : TableNeed(q) \in Nat
  BY Needs DEF Types, QueueTypes, PoolTypes
<1>1. ASSUME NEW r \in Requests, AddStep(r) PROVE Limits'
  <2>1. /\ state[r] = "new" /\ state' = [state EXCEPT ![r] = "waiting"] /\ UNCHANGED <<conf, own, layer, cached, stranded>>
    BY <1>1 DEF AddStep, AddRequest, EngineSame, poolVars
  <2>2. \A q \in Requests : state[q] = "finished" => state'[q] = "finished"
    BY <1>0, <2>1
  <2>. QED
    BY <2>1, <2>2, LimitsStay
<1>2. ASSUME QuietStep \/ \E e \in Entries : LostStep(e) PROVE Limits'
  <2>1. UNCHANGED <<conf, own, layer, cached, state, stranded>>
    <3>1. CASE QuietStep
      BY <3>1 DEF QuietStep, EngineSame, Schedule, ReapDone, AdmitDone, BuildDone, RunDone, requestVars, poolVars
    <3>2. ASSUME NEW e \in Entries, LostStep(e) PROVE UNCHANGED <<conf, own, layer, cached, state, stranded>>
      BY <3>2, LostTypes DEF requestVars, poolVars
    <3>. QED
      BY <1>2, <3>1, <3>2
  <2>. QED
    BY <2>1, LimitsStay
<1>3. ASSUME NEW i \in DOMAIN running, ReapStep(i) PROVE Limits'
  <2>1. own' = [own EXCEPT ![running[i]] = 0] /\ UNCHANGED <<conf, layer, cached, state, stranded>>
    BY <1>3 DEF ReapStep, ReapNext, FreeTable, EngineSame, requestVars
  <2>2. \A q \in Requests : own'[q] = own[q] \/ own'[q] <= TableNeed(q)
    BY <1>0, <2>1
  <2>. QED
    BY <2>1, <2>2, LimitsStay
<1>4. ASSUME NEW r \in Requests, NEW m \in 0 .. CachedTokens[r], NEW j \in Nat, AdmitStep(r, m, j) PROVE Limits'
  <2>1. /\ r \in waiting /\ state' = [state EXCEPT ![r] = IF m >= PromptLen[r] THEN "decode" ELSE "prefill"]
        /\ UNCHANGED <<conf, own, layer, cached, stranded>>
    BY <1>4 DEF AdmitStep, Admit
  <2>2. state[r] = "waiting"
    BY <2>1 DEF Types, QueueTypes
  <2>3. \A q \in Requests : state[q] = "finished" => state'[q] = "finished"
    BY <1>0, <2>1, <2>2
  <2>. QED
    BY <2>1, <2>3, LimitsStay
<1>5. ASSUME NEW r \in Requests, SkipStep(r) PROVE Limits'
  <2>1. /\ UNCHANGED <<conf, own, layer, cached, stranded>>
        /\ \A q \in Requests : state'[q] = state[q] \/ (state[q] = "prefill" /\ state'[q] = "decode")
    BY <1>5, SkipTypes DEF SkipStep, EngineSame
  <2>2. \A q \in Requests : state[q] = "finished" => state'[q] = "finished"
    BY <2>1
  <2>. QED
    BY <2>1, <2>2, LimitsStay
<1>6. ASSUME NEW r \in Requests, NEW e \in Entries, NEW n \in Nat, Scheduled(r, e, n) PROVE Limits'
  <2>1. /\ UNCHANGED <<conf, layer, cached, stranded>> /\ own' = [own EXCEPT ![r] = @ + n]
        /\ n = 0 \/ TableLen(r) + n <= TableNeed(r)
        /\ state' = [state EXCEPT ![r] = IF e.samples THEN "decode" ELSE "prefill"]
        /\ state[r] # "finished"
    BY <1>6 DEF Scheduled, EngineSame
  <2>2. own[r] \in Nat /\ shared[r] \in Nat /\ TableNeed(r) \in Nat
    BY <1>0
  <2>3. own[r] + n = own[r] \/ own[r] + n <= TableNeed(r)
    BY <2>1, <2>2 DEF TableLen
  <2>4. \A q \in Requests : own'[q] = own[q] \/ own'[q] <= TableNeed(q)
    BY <1>0, <2>1, <2>3
  <2>5. \A q \in Requests : state[q] = "finished" => state'[q] = "finished"
    BY <1>0, <2>1
  <2>. QED
    BY <2>1, <2>4, <2>5, LimitsStay
<1>7. ASSUME NEW e \in Entries, NEW n \in Nat, Grown(e, n) PROVE Limits'
  <2>1. /\ layer'[e.rid] = [layer[e.rid] EXCEPT ![nextLayer] = @ + n]
        /\ \A q \in Requests \ {e.rid} : layer'[q] = layer[q]
        /\ n = 0 \/ layer[e.rid][nextLayer] + n <= TableNeed(e.rid)
        /\ nextLayer \in Layers /\ UNCHANGED <<conf, own, cached, state, stranded>> /\ e.rid \in Requests
    BY <1>7, EntryFields DEF Grown, requestVars
  <2>2. layer[e.rid] \in [Layers -> Nat] /\ layer[e.rid][nextLayer] \in Nat
    BY <1>0, <2>1
  <2>3. layer'[e.rid][nextLayer] = layer[e.rid][nextLayer] \/ layer'[e.rid][nextLayer] <= TableNeed(e.rid)
    BY <2>1, <2>2
  <2>4. \A l \in Layers \ {nextLayer} : layer'[e.rid][l] = layer[e.rid][l]
    BY <2>1, <2>2
  <2>5. \A q \in Requests : \A l \in Layers : layer'[q][l] = layer[q][l] \/ layer'[q][l] <= TableNeed(q)
    BY <2>1, <2>3, <2>4
  <2>. QED
    BY <2>1, <2>5, LimitsStay
<1>8. ASSUME NEW e \in Entries, WalkStep(e) PROVE Limits'
  <2>1. Walked(e) /\ (GoesOn \/ Stops(e))
    BY <1>8, WalkEnds
  <2>2. /\ conf' = conf /\ stranded' = stranded /\ e.rid \in Requests /\ state[e.rid] # "finished"
        /\ \A q \in Requests \ {e.rid} : state'[q] = state[q] /\ own'[q] = own[q] /\ layer'[q] = layer[q]
    BY <2>1, RunningFacts DEF Walked, EntryOK
  <2>3. \A q \in Requests : state[q] = "finished" => state'[q] = "finished"
    BY <2>2
  <2>4. CASE UNCHANGED <<own, layer, cached>>
    BY <2>2, <2>3, <2>4, LimitsStay
  <2>5. ASSUME Stops(e), NEW k \in Nat, PoolFreed(e, k) PROVE Limits'
    <3>1. /\ own'[e.rid] = 0 /\ (\A l \in Layers : layer'[e.rid][l] = 0)
          /\ k <= own[e.rid] /\ (k > 0 => conf.prefix) /\ cached' = cached + k /\ state'[e.rid] = "finished"
      BY <2>5 DEF PoolFreed, Stops
    <3>0. e.rid \in Requests \ stranded
      BY <2>2 DEF Stranding
    <3>2. /\ Left(e.rid) \in Nat /\ TableNeed(e.rid) \in Nat /\ own[e.rid] \in Nat
          /\ own[e.rid] <= TableNeed(e.rid) /\ (conf.prefix => Left(e.rid) = TableNeed(e.rid))
      BY <1>0, <3>0, Needs DEF Limits
    <3>3. k <= Left(e.rid)
      BY <3>1, <3>2
    <3>4. /\ Total(LeftBehind) \in Nat /\ Total(LeftBehind)' \in Nat
          /\ Total(LeftBehind) + Left(e.rid) <= Total(LeftBehind)'
      BY <1>0, <2>2, <2>3, <3>0, <3>1, LeftGrows
    <3>5. cached \in Nat /\ cached <= Total(LeftBehind)
      BY DEF Types, PoolTypes, Limits
    <3>6. cached' <= Total(LeftBehind)'
      BY <3>1, <3>2, <3>3, <3>4, <3>5
    <3>7. \A q \in Requests : own'[q] <= TableNeed(q) /\ \A l \in Layers : layer'[q][l] <= TableNeed(q)
      <4>1. ASSUME NEW q \in Requests PROVE own'[q] <= TableNeed(q) /\ \A l \in Layers : layer'[q][l] <= TableNeed(q)
        <5>1. CASE q = e.rid
          BY <3>1, <3>2, <5>1
        <5>2. CASE q # e.rid
          BY <2>2, <5>2 DEF Limits
        <5>. QED
          BY <5>1, <5>2
      <4>. QED
        BY <4>1
    <3>8. \A q \in Requests : TableNeed(q)' = TableNeed(q)
      BY <2>2, NeedsSame
    <3>. QED
      BY <3>6, <3>7, <3>8 DEF Limits
  <2>. QED
    BY <2>1, <2>4, <2>5 DEF GoesOn, Stops
<1>9. ASSUME NEW e \in Entries, StrandStep(e) PROVE Limits'
  <2>1. Strands(e) /\ EntryOK(e) /\ e.rid \in Requests
    BY <1>9, StrandTypes, RunningFacts DEF Strands
  <2>2. /\ UNCHANGED <<conf, own, layer, cached>>
        /\ stranded' = stranded \cup {e.rid}
        /\ state[e.rid] # "finished"
        /\ \A q \in Requests \ {e.rid} : state'[q] = state[q]
    BY <2>1 DEF Strands, EntryOK, poolVars
  <2>3. \A q \in Requests : /\ TableNeed(q)' = TableNeed(q)
                            /\ q # e.rid => Left(q)' = Left(q)
    BY <2>2, NeedsSame
  <2>4. LeftBehind' = LeftBehind
    BY <2>2, <2>3 DEF LeftBehind
  <2>. QED
    BY <2>2, <2>3, <2>4 DEF Limits, Total
<1>. QED
  BY <1>1, <1>2, <1>3, <1>4, <1>5, <1>6, <1>7, <1>8, <1>9 DEF AnyStep

-----------------------------------------------------------------------------
(* With a pool that any batch fits, there is room. *)

(* No more requests run than max_batch_size. *)
LEMMA FewRun ==
    ASSUME SchedulerAssumption, RunnerAssumption, Types
    PROVE  Range(running) \in SUBSET Requests /\ Cardinality(Range(running)) <= MaxBatch
<1>. DEFINE n == Len(running)
<1>1. n \in Nat /\ DOMAIN running = 1 .. n /\ n <= MaxBatch /\ MaxBatch \in Nat /\ running \in Seq(Requests)
  BY Lengths, Parameters DEF Types, QueueTypes
<1>2. Range(running) \in SUBSET Requests
  BY Lengths DEF Range
<1>. HIDE DEF n
<1>3. IsFiniteSet(1 .. n) /\ Cardinality(1 .. n) = n
  <2>1. 1 \in Int /\ n \in Int
    BY <1>1
  <2>2. IsFiniteSet(1 .. n) /\ Cardinality(1 .. n) = IF 1 > n THEN 0 ELSE n - 1 + 1
    BY <2>1, FS_Interval
  <2>. QED
    BY <1>1, <2>2
<1>4. running \in Surjection(1 .. n, Range(running))
  <2>1. running \in [1 .. n -> Range(running)]
    <3>1. running = [i \in 1 .. n |-> running[i]]
      BY <1>1
    <3>. QED
      BY <1>1, <3>1 DEF Range
  <2>. QED
    BY <1>1, <2>1 DEF Surjection, Range
<1>5. IsFiniteSet(Range(running)) /\ Cardinality(Range(running)) <= Cardinality(1 .. n)
  BY <1>3, <1>4, FS_Surjection
<1>6. Cardinality(Range(running)) \in Nat
  BY <1>5, FS_CardinalityType
<1>. QED
  BY <1>1, <1>2, <1>3, <1>5, <1>6

(* Layer tables that are empty count for nothing. *)
LEMMA NoLayers ==
    ASSUME SchedulerAssumption, RunnerAssumption, Types, NEW q \in Requests, \A l \in Layers : layer[q][l] = 0
    PROVE  Sum(layer[q]) = 0
<1>1. layer[q] \in [Layers -> Nat]
  BY DEF Types, PoolTypes
<1>2. IsFiniteSet(Layers) /\ Sum(layer[q]) = SumFunctionOnSet(layer[q], Layers)
  BY <1>1, LayerSums
<1>3. \A f : (\A l \in Layers : f[l] = 0) => SumFunctionOnSet(f, Layers) = 0
  BY <1>2, SumZero
<1>. QED
  BY <1>2, <1>3, Zenon

(* The tables of a request never have more blocks than it may hold. *)
LEMMA WithinPeak ==
    ASSUME SchedulerAssumption, RunnerAssumption, Types, Books, Limits, NEW q \in Requests
    PROVE  /\ Peak(q) \in Nat /\ TableNeed(q) <= Peak(q)
           /\ own[q] \in Nat /\ Sum(layer[q]) \in Nat
           /\ own[q] + Sum(layer[q]) <= Peak(q)
           /\ TableNeed(q) + Sum(layer[q]) <= Peak(q)
<1>1. /\ TableNeed(q) \in Nat /\ NumLayers \in Nat /\ own[q] \in Nat /\ own[q] <= TableNeed(q)
      /\ layer[q] \in [Layers -> Nat] /\ \A l \in Layers : layer[q][l] <= TableNeed(q)
  BY Needs, Parameters DEF Types, PoolTypes, Limits
<1>2. /\ IsFiniteSet(Layers) /\ Cardinality(Layers) = NumLayers /\ Sum(layer[q]) = SumFunctionOnSet(layer[q], Layers)
      /\ Sum(layer[q]) \in Nat
  BY <1>1, LayerSums
<1>3. CASE conf.engine = "rust" /\ UseKv
  <2>1. PICK f : f = layer[q]
    OBVIOUS
  <2>2. \A l \in Layers : f[l] \in Nat /\ f[l] <= TableNeed(q)
    BY <1>1, <2>1
  <2>3. SumFunctionOnSet(f, Layers) <= Cardinality(Layers) * TableNeed(q)
    BY <1>1, <1>2, <2>2, SumBound
  <2>4. Sum(layer[q]) <= NumLayers * TableNeed(q)
    BY <1>2, <2>1, <2>3, Zenon
  <2>5. Peak(q) = TableNeed(q) * (1 + NumLayers)
    BY <1>3 DEF Peak
  <2>6. TableNeed(q) * (1 + NumLayers) = TableNeed(q) + NumLayers * TableNeed(q) /\ NumLayers * TableNeed(q) \in Nat
    BY <1>1
  <2>. QED
    BY <1>1, <1>2, <2>4, <2>5, <2>6
<1>4. CASE ~ (conf.engine = "rust" /\ UseKv)
  <2>1. Peak(q) = TableNeed(q) * 1
    BY <1>4 DEF Peak
  <2>2. conf.engine = "python" \/ ~ UseKv
    BY <1>4, ConfigTypes DEF Types
  <2>3. \A l \in Layers : layer[q][l] = 0
    BY <2>2 DEF Books
  <2>4. Sum(layer[q]) = 0
    BY <2>3, NoLayers
  <2>. QED
    BY <1>1, <2>1, <2>4
<1>. QED
  BY <1>3, <1>4

(* A running request that stays within its peak gets its blocks: those in
   tables, those in the cache and the new ones fit the pool together. *)
LEMMA Room ==
    ASSUME SchedulerAssumption, RunnerAssumption, Types, Books, Stranding, Limits, Fits,
           NEW r \in Requests, r \in Range(running), state[r] # "finished",
           NEW x \in Nat, own[r] + Sum(layer[r]) + x <= Peak(r)
    PROVE  x <= free
<1>. DEFINE S == Range(running)
            held == [q \in Requests |-> own[q] + Sum(layer[q])]
            left == [q \in Requests |-> IF Released THEN LeftBehind[q] ELSE 0]
            all == [q \in Requests |-> held[q] + left[q]]
            new == [q \in Requests |-> IF q = r THEN all[q] + x ELSE all[q]]
            most == [q \in Requests |-> IF q \in S THEN Peak(q) ELSE Left(q)]
<1>0. IsFiniteSet(Requests) /\ conf \in Configs
  BY Parameters DEF Types
<1>1. /\ \A q \in Requests : Peak(q) \in Nat /\ TableNeed(q) <= Peak(q) /\ own[q] \in Nat /\ Sum(layer[q]) \in Nat
      /\ \A q \in Requests : own[q] + Sum(layer[q]) <= Peak(q)
      /\ \A q \in Requests : TableNeed(q) \in Nat /\ Left(q) \in Nat
      /\ \A q \in Requests \ stranded : Left(q) <= TableNeed(q)
      /\ \A q \in stranded : Left(q) = Peak(q)
      /\ \A q \in Requests : own[q] <= TableNeed(q)
  BY <1>0, WithinPeak, Needs DEF Limits, Types, PoolTypes
<1>2. \A q \in Requests : /\ held[q] = own[q] + Sum(layer[q]) /\ held[q] \in Nat
                          /\ left[q] = (IF Released /\ state[q] = "finished" /\ q \notin stranded THEN Left(q) ELSE 0)
               /\ left[q] \in Nat
                          /\ all[q] = held[q] + left[q] /\ all[q] \in Nat
                          /\ new[q] = (IF q = r THEN all[q] + x ELSE all[q]) /\ new[q] \in Nat
                          /\ most[q] = (IF q \in S THEN Peak(q) ELSE Left(q)) /\ most[q] \in Nat
  <2>1. ASSUME NEW q \in Requests
        PROVE  /\ held[q] = own[q] + Sum(layer[q]) /\ held[q] \in Nat
               /\ left[q] = (IF Released /\ state[q] = "finished" /\ q \notin stranded THEN Left(q) ELSE 0)
               /\ left[q] \in Nat
    BY <1>1 DEF LeftBehind
  <2>. HIDE DEF held, left
  <2>2. ASSUME NEW q \in Requests PROVE all[q] = held[q] + left[q] /\ all[q] \in Nat
    BY <2>1
  <2>. HIDE DEF all
  <2>3. ASSUME NEW q \in Requests
        PROVE  /\ new[q] = (IF q = r THEN all[q] + x ELSE all[q]) /\ new[q] \in Nat
               /\ most[q] = (IF q \in S THEN Peak(q) ELSE Left(q)) /\ most[q] \in Nat
    BY <1>1, <2>2
  <2>. QED
    BY <2>1, <2>2, <2>3
<1>3. SumFunctionOnSet(most, Requests) <= NumBlocks
  <2>1. S \in SUBSET Requests /\ Cardinality(S) <= MaxBatch
    BY FewRun
  <2>2. SumFunction(most) <= NumBlocks
    BY <2>1 DEF Fits
  <2>3. SumFunction(most) = SumFunctionOnSet(most, DOMAIN most) /\ DOMAIN most = Requests
    BY DEF SumFunction
  <2>. QED
    BY <2>2, <2>3, Zenon
<1>4. /\ Total(own) \in Nat /\ Total(LayerTotal) \in Nat
      /\ \A q \in Requests : LayerTotal[q] = Sum(layer[q]) /\ LayerTotal[q] \in Nat
  BY Totals DEF Types, PoolTypes
<1>. HIDE DEF S, held, left, all, new, most
<1>5. SumFunctionOnSet(held, Requests) = Total(own) + Total(LayerTotal)
  <2>1. PICK f, g : f = own /\ g = LayerTotal
    OBVIOUS
  <2>2. \A q \in Requests : f[q] \in Nat /\ g[q] \in Nat /\ held[q] = f[q] + g[q]
    BY <1>1, <1>2, <1>4, <2>1
  <2>3. SumFunctionOnSet(held, Requests) = SumFunctionOnSet(f, Requests) + SumFunctionOnSet(g, Requests)
    BY <1>0, <2>2, SumPlus
  <2>. QED
    BY <2>1, <2>3 DEF Total
<1>6. SumFunctionOnSet(all, Requests) = SumFunctionOnSet(held, Requests) + SumFunctionOnSet(left, Requests)
  <2>1. \A q \in Requests : held[q] \in Nat /\ left[q] \in Nat /\ all[q] = held[q] + left[q]
    BY <1>2
  <2>. QED
    BY <1>0, <2>1, SumPlus
<1>7. SumFunctionOnSet(new, Requests) = SumFunctionOnSet(all, Requests) - all[r] + new[r]
  <2>1. SumFollows(Requests)
    BY <1>0, SumMoves
  <2>2. new[r] \in Nat
    BY <1>2
  <2>3. \A q \in Requests : all[q] \in Nat
    BY <1>2
  <2>4. \A q \in Requests \ {r} : new[q] = all[q]
    BY <1>2
  <2>. QED
    BY <2>1, <2>2, <2>3, <2>4, Zenon DEF SumFollows
<1>8. \A q \in Requests : new[q] <= most[q]
  <2>1. ASSUME NEW q \in Requests, q # r PROVE all[q] <= most[q]
    <3>0. /\ held[q] = own[q] + Sum(layer[q]) /\ all[q] = held[q] + left[q]
          /\ own[q] \in Nat /\ Sum(layer[q]) \in Nat /\ Left(q) \in Nat /\ TableNeed(q) \in Nat /\ Peak(q) \in Nat
          /\ (q \notin stranded => Left(q) <= TableNeed(q)) /\ TableNeed(q) <= Peak(q)
          /\ own[q] + Sum(layer[q]) <= Peak(q)
      BY <1>1, <1>2
    <3>5. CASE q \in stranded
      <4>1. conf.engine = "rust" /\ state[q] = "finished"
        BY <3>5 DEF Stranding
      <4>2. q \notin S
        <5>1. \A i \in DOMAIN running : running[i] # q
          BY <4>1 DEF Books
        <5>. QED
          BY <5>1 DEF S, Range
      <4>3. left[q] = 0 /\ most[q] = Left(q) /\ Left(q) = Peak(q)
        BY <1>1, <1>2, <3>5, <4>2
      <4>. QED
        BY <3>0, <4>3
    <3>1. CASE q \in S /\ state[q] # "finished"
      <4>1. left[q] = 0 /\ most[q] = Peak(q) /\ own[q] + Sum(layer[q]) <= Peak(q)
        BY <1>1, <1>2, <3>1
      <4>. QED
        BY <3>0, <4>1
    <3>2. CASE q \notin stranded /\ q \in S /\ state[q] = "finished"
      <4>1. conf.engine = "python"
        <5>1. \E i \in DOMAIN running : running[i] = q
          BY <3>2 DEF S, Range
        <5>2. conf.engine # "rust"
          BY <3>2, <5>1 DEF Books
        <5>3. conf.engine \in {"rust", "python"}
          BY <1>0, ConfigTypes
        <5>. QED
          BY <5>2, <5>3
      <4>2. own[q] = 0 /\ \A l \in Layers : layer[q][l] = 0
        BY <3>2, <4>1 DEF Books
      <4>3. Sum(layer[q]) = 0
        BY <4>2, NoLayers
      <4>4. left[q] = Left(q) /\ most[q] = Peak(q)
        BY <1>2, <3>2, <4>1 DEF Released
      <4>5. own[q] + Sum(layer[q]) = 0
        BY <4>2, <4>3
      <4>6. all[q] = Left(q) /\ Left(q) <= Peak(q)
        BY <3>0, <3>2, <4>4, <4>5
      <4>. QED
        BY <4>4, <4>6, <3>0
    <3>3. CASE q \notin stranded /\ q \notin S /\ Released
      <4>1. own[q] = 0 /\ \A l \in Layers : layer[q][l] = 0
        BY <3>3 DEF Books, Holders, S
      <4>2. Sum(layer[q]) = 0
        BY <4>1, NoLayers
      <4>3. left[q] <= Left(q) /\ most[q] = Left(q) /\ left[q] \in Nat
        BY <1>2, <3>0, <3>3
      <4>. QED
        BY <3>0, <4>1, <4>2, <4>3
    <3>4. CASE q \notin stranded /\ q \notin S /\ ~ Released
      <4>1. ~ UseKv /\ conf.engine = "rust"
        BY <1>0, <3>4, ConfigTypes DEF Released
      <4>2. \A l \in Layers : layer[q][l] = 0
        BY <4>1 DEF Books
      <4>3. Sum(layer[q]) = 0
        BY <4>2, NoLayers
      <4>4. left[q] = 0 /\ most[q] = Left(q) /\ Left(q) = TableNeed(q) /\ own[q] <= TableNeed(q)
        BY <1>1, <1>2, <3>4, <4>1 DEF Left
      <4>. QED
        BY <3>0, <4>3, <4>4
    <3>. QED
      BY <3>1, <3>2, <3>3, <3>4, <3>5
  <2>2. new[r] <= most[r]
    <3>1. new[r] = all[r] + x /\ all[r] = held[r] + left[r] /\ held[r] = own[r] + Sum(layer[r]) /\ left[r] = 0
      BY <1>2
    <3>2. most[r] = Peak(r)
      BY <1>2 DEF S
    <3>3. own[r] \in Nat /\ Sum(layer[r]) \in Nat
      BY <1>1
    <3>. QED
      BY <3>1, <3>2, <3>3
  <2>. QED
    BY <1>2, <2>1, <2>2
<1>9. SumFunctionOnSet(new, Requests) <= SumFunctionOnSet(most, Requests)
  <2>1. \A q \in Requests : new[q] \in Nat /\ most[q] \in Nat /\ new[q] <= most[q]
    BY <1>2, <1>8
  <2>. QED
    BY <1>0, <2>1, SumMonotonic
<1>10. /\ SumFunctionOnSet(left, Requests) \in Nat /\ SumFunctionOnSet(most, Requests) \in Nat
  BY <1>0, <1>2, SumTakes
<1>11. cached \in Nat /\ cached <= SumFunctionOnSet(left, Requests)
  <2>0. cached \in Nat
    BY DEF Types, PoolTypes
  <2>1. CASE Released
    <3>1. PICK f : f = LeftBehind
      OBVIOUS
    <3>2. \A q \in Requests : left[q] \in Nat /\ f[q] = left[q]
      BY <1>2, <2>1, <3>1 DEF LeftBehind
    <3>3. SumFunctionOnSet(left, Requests) = SumFunctionOnSet(f, Requests)
      BY <1>0, <3>2, SumSame
    <3>4. cached <= Total(LeftBehind)
      BY DEF Limits
    <3>. QED
      BY <2>0, <3>1, <3>3, <3>4 DEF Total
  <2>2. CASE ~ Released
    BY <1>10, <2>2 DEF Books
  <2>. QED
    BY <2>0, <2>1, <2>2
<1>12. free + cached + Total(own) + Total(LayerTotal) = NumBlocks /\ free \in Nat /\ NumBlocks \in Nat
  BY <1>0, ConfigTypes DEF Books, Types, PoolTypes
<1>13. new[r] = all[r] + x /\ all[r] \in Nat
  BY <1>2
<1>14. SumFunctionOnSet(new, Requests) = Total(own) + Total(LayerTotal) + SumFunctionOnSet(left, Requests) + x
  BY <1>4, <1>5, <1>6, <1>7, <1>10, <1>13
<1>. QED
  BY <1>3, <1>4, <1>9, <1>10, <1>11, <1>12, <1>14

(* So neither a chunk nor a layer table is ever refused its blocks. *)
LEMMA NeverOut ==
    ASSUME SchedulerAssumption, RunnerAssumption, Types, Progress, BatchOK, Books, Stranding, Limits, Fits
    PROVE  /\ \A r \in Requests : ~ PrefillOOM(r)
           /\ \A e \in Entries : ~ LayerOOM(e)
<1>1. ASSUME NEW r \in Requests, PrefillOOM(r) PROVE FALSE
  <2>. DEFINE n == Missing(r, PromptLen[r])
  <2>1. Building(r, "prefill") /\ n > free
    BY <1>1 DEF PrefillOOM
  <2>2. r \in Range(running) /\ state[r] # "finished"
    BY <2>1, BuildingFacts
  <2>3. /\ PromptLen[r] \in Nat /\ MaxSeqLen(r) \in Nat /\ PromptLen[r] <= MaxSeqLen(r)
    BY Parameters DEF MaxSeqLen
  <2>4. /\ n \in Nat
        /\ \A z \in Nat : PromptLen[r] <= z => n = 0 \/ TableLen(r) + n <= CeilDiv(z, BlockSize)
    BY <2>3, MissingFacts
  <2>5. /\ own[r] \in Nat /\ Sum(layer[r]) \in Nat /\ Peak(r) \in Nat /\ shared[r] \in Nat /\ free \in Nat
        /\ own[r] + Sum(layer[r]) <= Peak(r) /\ TableNeed(r) \in Nat
    BY WithinPeak, Needs DEF Types, PoolTypes
  <2>. HIDE DEF n
  <2>6. n = 0 \/ TableLen(r) + n <= TableNeed(r)
    <3>1. n = 0 \/ TableLen(r) + n <= CeilDiv(PromptLen[r], BlockSize)
      BY <2>3, <2>4
    <3>2. n = 0 \/ TableLen(r) + n <= CeilDiv(MaxSeqLen(r), BlockSize)
      BY <2>3, <2>4
    <3>. QED
      BY <3>1, <3>2 DEF TableNeed
  <2>7. own[r] + Sum(layer[r]) + n <= Peak(r)
    <3>1. CASE n = 0
      BY <2>5, <3>1
    <3>2. CASE n # 0
      <4>1. own[r] + n <= TableNeed(r)
        BY <2>4, <2>5, <2>6, <3>2 DEF TableLen
      <4>2. TableNeed(r) + Sum(layer[r]) <= Peak(r)
        BY WithinPeak
      <4>. QED
        BY <2>4, <2>5, <4>1, <4>2
    <3>. QED
      BY <3>1, <3>2
  <2>8. n <= free
    BY <2>2, <2>4, <2>7, Room
  <2>. QED
    BY <2>1, <2>4, <2>5, <2>8
<1>2. ASSUME NEW e \in Entries, LayerOOM(e) PROVE FALSE
  <2>. DEFINE r == e.rid
              n == LayerMissing(e)
  <2>1. Growing(e) /\ n > free /\ Running(e) /\ conf.engine = "rust" /\ UseKv /\ nextLayer \in Layers
    BY <1>2 DEF LayerOOM, Growing
  <2>2. r \in Requests /\ r \in Range(running) /\ state[r] # "finished"
    BY <2>1, RunningFacts DEF EntryOK
  <2>3. n \in Nat /\ (n = 0 \/ layer[r][nextLayer] + n <= TableNeed(r))
    BY <2>1, LayerFits
  <2>. HIDE DEF r, n
  <2>4. /\ own[r] \in Nat /\ Sum(layer[r]) \in Nat /\ Peak(r) \in Nat /\ free \in Nat
        /\ own[r] + Sum(layer[r]) <= Peak(r) /\ TableNeed(r) \in Nat /\ NumLayers \in Nat
        /\ layer[r] \in [Layers -> Nat]
    BY <2>2, WithinPeak, Needs, Parameters DEF Types, PoolTypes
  <2>5. own[r] <= TableNeed(r) /\ \A l \in Layers : layer[r][l] <= TableNeed(r)
    BY <2>2 DEF Limits
  <2>6. own[r] + Sum(layer[r]) + n <= Peak(r)
    <3>1. CASE n = 0
      BY <2>4, <3>1
    <3>2. CASE n # 0
      <4>1. PICK f, h : f = layer[r] /\ h = [layer[r] EXCEPT ![nextLayer] = @ + n]
        OBVIOUS
      <4>2. /\ \A l \in Layers : f[l] \in Nat
            /\ h[nextLayer] = f[nextLayer] + n /\ h[nextLayer] \in Nat
            /\ \A l \in Layers \ {nextLayer} : h[l] = f[l]
        BY <2>1, <2>3, <2>4, <4>1
      <4>3. \A l \in Layers : h[l] \in Nat /\ h[l] <= TableNeed(r)
        BY <2>1, <2>3, <2>5, <3>2, <4>1, <4>2
      <4>4. IsFiniteSet(Layers) /\ Cardinality(Layers) = NumLayers /\ Sum(layer[r]) = SumFunctionOnSet(layer[r], Layers)
        BY <2>4, LayerSums
      <4>5. SumFollows(Layers)
        BY <4>4, SumMoves
      <4>6. SumFunctionOnSet(h, Layers) = SumFunctionOnSet(f, Layers) - f[nextLayer] + h[nextLayer]
        BY <2>1, <4>2, <4>5, Zenon DEF SumFollows
      <4>7. SumFunctionOnSet(h, Layers) <= Cardinality(Layers) * TableNeed(r)
        BY <2>4, <4>3, <4>4, SumBound
      <4>8. f[nextLayer] \in Nat /\ SumFunctionOnSet(f, Layers) = Sum(layer[r])
        BY <2>1, <4>1, <4>2, <4>4
      <4>9. SumFunctionOnSet(h, Layers) = Sum(layer[r]) + n
        BY <2>3, <2>4, <4>2, <4>6, <4>8
      <4>10. Sum(layer[r]) + n <= NumLayers * TableNeed(r)
        BY <4>4, <4>7, <4>9
      <4>11. Peak(r) = TableNeed(r) * (1 + NumLayers)
        BY <2>1 DEF Peak
      <4>12. TableNeed(r) * (1 + NumLayers) = TableNeed(r) + NumLayers * TableNeed(r) /\ NumLayers * TableNeed(r) \in Nat
        BY <2>4
      <4>. QED
        BY <2>3, <2>4, <2>5, <4>10, <4>11, <4>12
    <3>. QED
      BY <3>1, <3>2
  <2>7. n <= free
    BY <2>2, <2>3, <2>6, Room
  <2>. QED
    BY <2>1, <2>3, <2>4, <2>7
<1>. QED
  BY <1>1, <1>2

-----------------------------------------------------------------------------
(* Positions. *)

(* If any batch fits the pool, it did before: the configuration stays, and a
   stranded request leaves no less than another. *)
LEMMA FitsBefore ==
    ASSUME SchedulerAssumption, RunnerAssumption, Types, conf' = conf, stranded \subseteq stranded', Fits'
    PROVE  Fits
<1>1. ASSUME NEW S \in SUBSET Requests, Cardinality(S) <= MaxBatch
      PROVE  SumFunction([r \in Requests |-> IF r \in S THEN Peak(r) ELSE Left(r)]) <= NumBlocks
  <2>. DEFINE old == [r \in Requests |-> IF r \in S THEN Peak(r) ELSE Left(r)]
              new == [r \in Requests |-> IF r \in S THEN Peak(r)' ELSE Left(r)']
  <2>1. SumFunction(new) <= NumBlocks /\ NumBlocks \in Nat
    <3>1. SumFunction(new) <= NumBlocks'
      BY <1>1 DEF Fits
    <3>. QED
      BY <3>1, ConfigTypes DEF Types, NumBlocks
  <2>2. \A r \in Requests : old[r] \in Nat /\ new[r] \in Nat /\ old[r] <= new[r]
    <3>1. ASSUME NEW r \in Requests
          PROVE  /\ Peak(r) \in Nat /\ Left(r) \in Nat /\ Peak(r)' = Peak(r)
                 /\ Left(r)' \in Nat /\ Left(r) <= Left(r)'
      <4>1. /\ Peak(r) \in Nat /\ Left(r) \in Nat /\ Left(r) <= Peak(r)
            /\ (r \in stranded' <=> r \in stranded) => Left(r)' = Left(r)
            /\ Peak(r)' = Peak(r)
        BY Needs, NeedsSame DEF Types
      <4>2. r \in stranded' => Left(r)' = Peak(r)
        BY <4>1 DEF Left
      <4>. QED
        BY <4>1, <4>2
    <3>. QED
      BY <3>1
  <2>3. /\ SumFunction(old) = SumFunctionOnSet(old, Requests)
        /\ SumFunction(new) = SumFunctionOnSet(new, Requests)
    <3>1. DOMAIN old = Requests /\ DOMAIN new = Requests
      OBVIOUS
    <3>. QED
      BY <3>1 DEF SumFunction
  <2>. HIDE DEF old, new
  <2>4. IsFiniteSet(Requests)
    BY Parameters
  <2>5. /\ SumFunctionOnSet(old, Requests) <= SumFunctionOnSet(new, Requests)
        /\ SumFunctionOnSet(old, Requests) \in Nat /\ SumFunctionOnSet(new, Requests) \in Nat
    <3>1. /\ \A r \in Requests : old[r] \in Nat
          /\ \A r \in Requests : new[r] \in Nat
      BY <2>2
    <3>2. SumFunctionOnSet(old, Requests) \in Nat
      BY <2>4, <3>1, SumTakes
    <3>3. SumFunctionOnSet(new, Requests) \in Nat
      BY <2>4, <3>1, SumTakes
    <3>. QED
      BY <2>2, <2>4, <3>2, <3>3, SumMonotonic
  <2>6. SumFunction(old) <= NumBlocks
    BY <2>1, <2>3, <2>5
  <2>. QED
    BY <2>6 DEF old
<1>. QED
  BY <1>1 DEF Fits

(* So it did before any step. *)
LEMMA FitsAsBefore ==
    ASSUME SchedulerAssumption, RunnerAssumption, Types, BatchOK, Books, AnyStep, Fits'
    PROVE  Fits
<1>1. stranded \subseteq stranded'
  BY StrandedSame, StrandTypes DEF Strands
<1>. QED
  BY <1>1, ConfSame, FitsBefore

(* What Feeding says when the pool is large enough. *)
FedUp ==
    /\ \A r \in Requests :
          /\ state[r] = "prefill" => 0 .. prefillPos[r] - 1 \subseteq fed[r]
          /\ state[r] = "decode" => 0 .. SeqLen(r) - 2 \subseteq fed[r]
    /\ \A i \in DOMAIN batch : 0 .. batch[i].hi - 1 \subseteq fed[batch[i].rid]

(* Positions are scheduled without a gap. *)
LEMMA FeedingKept ==
    ASSUME SchedulerAssumption, RunnerAssumption, Types, Types', Progress, BatchOK, BatchOK', Books, Stranding,
           Limits, Feeding, AnyStep
    PROVE  Feeding'
<1>0. SUFFICES ASSUME Fits PROVE FedUp'
  <2>1. Fits' => Fits
    BY FitsAsBefore
  <2>. QED
    BY <2>1 DEF Feeding, FedUp
<1>1. /\ \A q \in Requests : state[q] = "prefill" => 0 .. prefillPos[q] - 1 \subseteq fed[q]
      /\ \A q \in Requests : state[q] = "decode" => 0 .. SeqLen(q) - 2 \subseteq fed[q]
      /\ \A i \in DOMAIN batch : 0 .. batch[i].hi - 1 \subseteq fed[batch[i].rid]
  BY <1>0 DEF Feeding
<1>2. /\ \A q \in Requests : prefillPos[q] \in Nat /\ outLen[q] \in Nat /\ PromptLen[q] \in Nat \ {0}
      /\ state \in [Requests -> {"new", "waiting", "prefill", "decode", "finished"}]
      /\ fed \in [Requests -> SUBSET Nat]
      /\ \A i \in DOMAIN batch : batch[i] \in Entries
  BY Parameters, Lengths DEF Types, RequestTypes, QueueTypes
<1>3. CASE \/ QuietStep
           \/ \E i \in DOMAIN running : ReapStep(i)
           \/ \E e \in Entries : \E n \in Nat : Grown(e, n)
           \/ \E e \in Entries : LostStep(e)
  <2>1. UNCHANGED <<state, prefillPos, outLen, fed>>
    BY <1>3, SameRequests
  <2>2. batch' = batch \/ batch' = <<>>
    <3>1. CASE QuietStep
      BY <3>1 DEF QuietStep, Schedule, ReapDone, AdmitDone, BuildDone, RunDone, batchVars
    <3>2. ASSUME NEW i, ReapStep(i) PROVE batch' = batch
      BY <3>2 DEF ReapStep, ReapNext, batchVars
    <3>3. ASSUME NEW e, NEW n, Grown(e, n) PROVE batch' = batch
      BY <3>3 DEF Grown, batchVars
    <3>4. ASSUME NEW e \in Entries, LostStep(e) PROVE batch' = <<>>
      BY <3>4, LostTypes
    <3>. QED
      BY <1>3, <3>1, <3>2, <3>3, <3>4
  <2>3. \A i \in DOMAIN batch' : i \in DOMAIN batch /\ batch'[i] = batch[i]
    BY <2>2
  <2>. QED
    BY <1>1, <2>1, <2>3 DEF FedUp, SeqLen
<1>4. ASSUME NEW r \in Requests, AddStep(r) PROVE FedUp'
  <2>1. /\ state' = [state EXCEPT ![r] = "waiting"] /\ UNCHANGED <<prefillPos, outLen, fed, batch>>
    BY <1>4 DEF AddStep, AddRequest, batchVars
  <2>2. \A q \in Requests : state'[q] \in {"prefill", "decode"} => state'[q] = state[q]
    BY <1>2, <2>1
  <2>. QED
    BY <1>1, <2>1, <2>2 DEF FedUp, SeqLen
<1>5. ASSUME NEW r \in Requests, NEW m \in 0 .. CachedTokens[r], NEW j \in Nat, AdmitStep(r, m, j) PROVE FedUp'
  <2>1. /\ r \in waiting /\ state' = [state EXCEPT ![r] = IF m >= PromptLen[r] THEN "decode" ELSE "prefill"]
        /\ prefillPos' = [prefillPos EXCEPT ![r] = m] /\ fed' = [fed EXCEPT ![r] = 0 .. m - 1]
        /\ outLen' = outLen /\ batch' = batch /\ phase = "admit"
    BY <1>5 DEF AdmitStep, Admit, batchVars
  <2>2. batch' = <<>> /\ DOMAIN batch' = {}
    BY <2>1 DEF BatchOK
  <2>3. state[r] = "waiting" /\ outLen[r] = 0
    BY <2>1 DEF Types, QueueTypes, Progress
  <2>4. CachedTokens[r] \in Nat /\ m \in Nat
    BY Parameters
  <2>5. /\ prefillPos'[r] = m /\ fed'[r] = 0 .. m - 1 /\ (state'[r] = "decode" => m >= PromptLen[r])
        /\ \A q \in Requests \ {r} : prefillPos'[q] = prefillPos[q] /\ fed'[q] = fed[q] /\ state'[q] = state[q]
    BY <1>2, <2>1 DEF Types, RequestTypes
  <2>6. SeqLen(r)' = PromptLen[r]
    BY <1>2, <2>1, <2>3 DEF SeqLen
  <2>7. state'[r] = "decode" => 0 .. SeqLen(r)' - 2 \subseteq fed'[r]
    BY <1>2, <2>4, <2>5, <2>6
  <2>8. 0 .. prefillPos'[r] - 1 \subseteq fed'[r]
    BY <2>5
  <2>9. \A q \in Requests \ {r} : SeqLen(q)' = SeqLen(q)
    BY <2>1 DEF SeqLen
  <2>10. ASSUME NEW q \in Requests
         PROVE  /\ state'[q] = "prefill" => 0 .. prefillPos'[q] - 1 \subseteq fed'[q]
                /\ state'[q] = "decode" => 0 .. SeqLen(q)' - 2 \subseteq fed'[q]
    <3>1. CASE q = r
      BY <2>7, <2>8, <3>1
    <3>2. CASE q # r
      BY <1>1, <2>5, <2>9, <3>2
    <3>. QED
      BY <3>1, <3>2
  <2>. QED
    BY <2>2, <2>10 DEF FedUp
<1>6. ASSUME NEW r \in Requests, SkipStep(r) PROVE FedUp'
  <2>1. /\ UNCHANGED <<outLen, fed, batch>>
        /\ \A q \in Requests : state'[q] = state[q] \/ (state[q] = "prefill" /\ state'[q] = "decode")
        /\ state'[r] = state[r] \/ Remaining(r) = 0
        /\ \A q \in Requests \ {r} : state'[q] = state[q]
        /\ prefillPos' # prefillPos => PrefillOOM(r)
    BY <1>6, SkipTypes
  <2>2. prefillPos' = prefillPos
    BY <1>0, <2>1, NeverOut
  <2>3. state[r] = "prefill" /\ Remaining(r) = 0 => 0 .. SeqLen(r) - 2 \subseteq fed[r]
    <3>1. SUFFICES ASSUME state[r] = "prefill", Remaining(r) = 0 PROVE 0 .. SeqLen(r) - 2 \subseteq fed[r]
      OBVIOUS
    <3>2. outLen[r] = 0 /\ prefillPos[r] <= PromptLen[r]
      BY <3>1 DEF Progress
    <3>3. prefillPos[r] = PromptLen[r] /\ SeqLen(r) = PromptLen[r]
      BY <1>2, <3>1, <3>2 DEF Remaining, Monus, SeqLen
    <3>4. 0 .. SeqLen(r) - 2 \subseteq 0 .. prefillPos[r] - 1
      BY <1>2, <3>3
    <3>. QED
      BY <1>1, <3>1, <3>4
  <2>. QED
    BY <1>1, <2>1, <2>2, <2>3 DEF FedUp, SeqLen
<1>7. ASSUME NEW r \in Requests, NEW e \in Entries, NEW n \in Nat, Scheduled(r, e, n) PROVE FedUp'
  <2>1. /\ e.rid = r /\ e.lo < e.hi /\ (e.samples => e.hi = SeqLen(r))
        /\ \/ state[r] = "prefill" /\ e.lo = prefillPos[r]
           \/ state[r] = "decode" /\ e.samples /\ e.lo <= SeqLen(r) - 1
        /\ state' = [state EXCEPT ![r] = IF e.samples THEN "decode" ELSE "prefill"]
        /\ (~ e.samples => prefillPos'[r] = e.hi)
        /\ \A q \in Requests \ {r} : prefillPos'[q] = prefillPos[q]
        /\ fed' = [fed EXCEPT ![r] = @ \cup e.lo .. e.hi - 1]
        /\ batch' = Append(batch, e) /\ outLen' = outLen
    BY <1>7 DEF Scheduled
  <2>2. e.lo \in Nat /\ e.hi \in Nat /\ e.samples \in BOOLEAN /\ SeqLen(r) \in Nat
    BY <1>2, EntryFields DEF SeqLen
  <2>3. 0 .. e.lo - 1 \subseteq fed[r]
    <3>1. CASE state[r] = "prefill" /\ e.lo = prefillPos[r]
      BY <1>1, <3>1
    <3>2. CASE state[r] = "decode" /\ e.lo <= SeqLen(r) - 1
      <4>1. 0 .. e.lo - 1 \subseteq 0 .. SeqLen(r) - 2
        BY <2>2, <3>2
      <4>. QED
        BY <1>1, <3>2, <4>1
    <3>. QED
      BY <2>1, <3>1, <3>2
  <2>4. fed'[r] = fed[r] \cup e.lo .. e.hi - 1 /\ \A q \in Requests \ {r} : fed'[q] = fed[q]
    BY <1>2, <2>1
  <2>5. 0 .. e.hi - 1 \subseteq fed'[r]
    <3>1. 0 .. e.hi - 1 \subseteq (0 .. e.lo - 1) \cup (e.lo .. e.hi - 1)
      BY <2>2
    <3>. QED
      BY <2>3, <2>4, <3>1
  <2>6. /\ state'[r] = "decode" => e.samples
        /\ state'[r] = "prefill" => ~ e.samples
        /\ \A q \in Requests \ {r} : state'[q] = state[q]
    BY <1>2, <2>1, <2>2
  <2>7. \A q \in Requests : SeqLen(q)' = SeqLen(q)
    BY <2>1 DEF SeqLen
  <2>8. state'[r] = "prefill" => 0 .. prefillPos'[r] - 1 \subseteq fed'[r]
    BY <2>1, <2>5, <2>6
  <2>9. state'[r] = "decode" => 0 .. SeqLen(r)' - 2 \subseteq fed'[r]
    <3>1. 0 .. SeqLen(r) - 2 \subseteq 0 .. SeqLen(r) - 1
      BY <2>2
    <3>2. state'[r] = "decode" => 0 .. SeqLen(r) - 1 \subseteq fed'[r]
      BY <2>1, <2>5, <2>6
    <3>. QED
      BY <2>7, <3>1, <3>2
  <2>10. \A i \in DOMAIN batch' : 0 .. batch'[i].hi - 1 \subseteq fed'[batch'[i].rid]
    <3>1. /\ \A i \in DOMAIN batch : batch'[i] = batch[i]
          /\ batch'[Len(batch) + 1] = e
          /\ \A i \in DOMAIN batch' : i \in DOMAIN batch \/ i = Len(batch) + 1
      BY <2>1, Appended
    <3>2. \A q \in Requests : fed[q] \subseteq fed'[q]
      BY <2>4
    <3>3. \A i \in DOMAIN batch : batch[i].rid \in Requests
      BY <1>2, EntryFields
    <3>4. ASSUME NEW i \in DOMAIN batch' PROVE 0 .. batch'[i].hi - 1 \subseteq fed'[batch'[i].rid]
      <4>1. CASE i \in DOMAIN batch
        <5>1. 0 .. batch[i].hi - 1 \subseteq fed[batch[i].rid] /\ fed[batch[i].rid] \subseteq fed'[batch[i].rid]
          BY <1>1, <3>2, <3>3, <4>1
        <5>. QED
          BY <3>1, <4>1, <5>1
      <4>2. CASE i = Len(batch) + 1
        BY <2>1, <2>5, <3>1, <4>2
      <4>. QED
        BY <3>1, <4>1, <4>2
    <3>. QED
      BY <3>4
  <2>11. ASSUME NEW q \in Requests
         PROVE  /\ state'[q] = "prefill" => 0 .. prefillPos'[q] - 1 \subseteq fed'[q]
                /\ state'[q] = "decode" => 0 .. SeqLen(q)' - 2 \subseteq fed'[q]
    <3>1. CASE q = r
      BY <2>8, <2>9, <3>1
    <3>2. CASE q # r
      BY <1>1, <2>1, <2>4, <2>6, <2>7, <3>2
    <3>. QED
      BY <3>1, <3>2
  <2>. QED
    BY <2>10, <2>11 DEF FedUp
<1>8. ASSUME NEW e \in Entries, WalkStep(e) PROVE FedUp'
  <2>1. Walked(e)
    BY <1>8, WalkEnds
  <2>2. /\ UNCHANGED <<prefillPos, fed, batch>>
        /\ \A q \in Requests \ {e.rid} : outLen'[q] = outLen[q] /\ state'[q] = state[q]
        /\ \/ outLen'[e.rid] = outLen[e.rid] /\ state'[e.rid] = state[e.rid]
           \/ /\ outLen'[e.rid] = outLen[e.rid] + 1
              /\ e.samples
              /\ \/ state'[e.rid] = "finished"
                 \/ state'[e.rid] = state[e.rid] /\ outLen'[e.rid] < MaxNew[e.rid]
    BY <2>1 DEF Walked
  <2>3. /\ cursor \in DOMAIN batch /\ e = batch[cursor] /\ e.rid \in Requests /\ EntryOK(e)
    BY <2>1, RunningFacts DEF Walked
  <2>4. 0 .. e.hi - 1 \subseteq fed[e.rid]
    BY <1>1, <2>3
  <2>5. ASSUME outLen'[e.rid] = outLen[e.rid] + 1, e.samples PROVE 0 .. SeqLen(e.rid)' - 2 \subseteq fed[e.rid] /\ state[e.rid] = "decode"
    <3>1. e.hi = SeqLen(e.rid) /\ state[e.rid] = "decode"
      BY <2>3, <2>5 DEF EntryOK
    <3>2. SeqLen(e.rid)' = SeqLen(e.rid) + 1 /\ SeqLen(e.rid) \in Nat
      BY <1>2, <2>3, <2>5 DEF SeqLen
    <3>3. SeqLen(e.rid)' - 2 = e.hi - 1
      BY <3>1, <3>2
    <3>. QED
      BY <2>4, <3>1, <3>3
  <2>6. ASSUME NEW q \in Requests
        PROVE  /\ state'[q] = "prefill" => 0 .. prefillPos[q] - 1 \subseteq fed[q]
               /\ state'[q] = "decode" => 0 .. SeqLen(q)' - 2 \subseteq fed[q]
    <3>1. CASE outLen'[q] = outLen[q] /\ state'[q] = state[q]
      BY <1>1, <3>1 DEF SeqLen
    <3>2. CASE q = e.rid /\ outLen'[q] = outLen[q] + 1 /\ e.samples
      BY <2>2, <2>5, <3>2
    <3>. QED
      BY <2>2, <3>1, <3>2
  <2>. QED
    BY <1>1, <2>2, <2>6 DEF FedUp
<1>9. ASSUME NEW e \in Entries, StrandStep(e) PROVE FedUp'
  <2>1. Strands(e)
    BY <1>9, StrandTypes
  <2>2. /\ UNCHANGED <<prefillPos, fed>> /\ batch' = <<>> /\ state'[e.rid] = "finished"
        /\ \A q \in Requests \ {e.rid} : outLen'[q] = outLen[q] /\ state'[q] = state[q]
    BY <2>1 DEF Strands
  <2>3. DOMAIN batch' = {}
    BY <2>2
  <2>4. \A q \in Requests : state'[q] \in {"prefill", "decode"} => state'[q] = state[q] /\ outLen'[q] = outLen[q]
    BY <2>2
  <2>. QED
    BY <1>1, <2>2, <2>3, <2>4 DEF FedUp, SeqLen
<1>. QED
  BY <1>3, <1>4, <1>5, <1>6, <1>7, <1>8, <1>9 DEF AnyStep

(* A position that was scheduled has been forwarded or will be. *)
LEMMA ForwardingKept ==
    ASSUME SchedulerAssumption, RunnerAssumption, Types, Types', Progress, BatchOK, BatchOK', Books, Stranding,
           Limits, Forwarding, AnyStep
    PROVE  Forwarding'
<1>. DEFINE Coming(q, p) == \E i \in DOMAIN batch :
                               Pending(i) /\ batch[i].rid = q /\ p \in batch[i].lo .. batch[i].hi - 1
<1>0. SUFFICES ASSUME Fits, faults' = 0, stranded' = {}, NEW q \in Requests, NEW p \in fed'[q] PROVE p \in forwarded'[q] \/ Coming(q, p)'
  <2>1. Fits' => Fits
    BY FitsAsBefore
  <2>. QED
    BY <2>1 DEF Forwarding
<1>1. faults = 0 /\ stranded = {} /\ (p \in fed[q] => p \in forwarded[q] \/ Coming(q, p))
  <2>1. faults = 0
    <3>0. faults \in Nat
      BY DEF Types, WalkTypes
    <3>1. faults' = faults \/ faults' = faults + 1
      <4>1. ASSUME NEW e \in Entries, WalkStep(e) PROVE faults' = faults \/ faults' = faults + 1
        BY <4>1, WalkEnds DEF Walked
      <4>7. ASSUME NEW e \in Entries, StrandStep(e) PROVE faults' = faults
        BY <4>7, StrandTypes DEF Strands
      <4>2. ASSUME NEW e \in Entries, LostStep(e) PROVE faults' = faults \/ faults' = faults + 1
        BY <4>2 DEF LostStep, LayerOOM, ForwardError
      <4>3. CASE \/ \E r \in Requests : AddStep(r) \/ SkipStep(r)
                 \/ QuietStep
                 \/ \E i \in DOMAIN running : ReapStep(i)
        BY <4>3 DEF AddStep, SkipStep, QuietStep, ReapStep, EngineSame
      <4>4. ASSUME NEW r, NEW m, NEW j, AdmitStep(r, m, j) PROVE faults' = faults
        BY <4>4 DEF AdmitStep
      <4>5. ASSUME NEW r, NEW e, NEW n, Scheduled(r, e, n) PROVE faults' = faults
        BY <4>5 DEF Scheduled, EngineSame
      <4>6. ASSUME NEW e, NEW n, Grown(e, n) PROVE faults' = faults
        BY <4>6 DEF Grown
      <4>. QED
        BY <4>1, <4>2, <4>3, <4>4, <4>5, <4>6, <4>7 DEF AnyStep
    <3>. QED
      BY <1>0, <3>0, <3>1
  <2>2. stranded = {}
    BY <1>0, StrandedSame, StrandTypes DEF Strands
  <2>. QED
    BY <1>0, <2>1, <2>2 DEF Forwarding
<1>2. /\ Len(batch) \in Nat /\ DOMAIN batch = 1 .. Len(batch) /\ \A i \in DOMAIN batch : batch[i] \in Entries
      /\ fed \in [Requests -> SUBSET Nat] /\ forwarded \in [Requests -> SUBSET Nat] /\ cursor \in Nat
  BY Lengths DEF Types, RequestTypes, WalkTypes
<1>3. batch = <<>> => ~ Coming(q, p)
  OBVIOUS
<1>. HIDE DEF Coming
<1>4. CASE QuietStep
  <2>1. UNCHANGED <<fed, forwarded>>
    BY <1>4, SameRequests
  <2>2. p \in forwarded[q] \/ Coming(q, p)
    BY <1>0, <1>1, <2>1
  <2>3. CASE Schedule \/ ReapDone \/ AdmitDone
    <3>1. batch = <<>>
      BY <2>3 DEF Schedule, ReapDone, AdmitDone, BatchOK
    <3>. QED
      BY <1>3, <2>1, <2>2, <3>1
  <2>4. CASE BuildDone
    <3>1. phase = "build" /\ cursor' = 1 /\ batch' = batch
      BY <2>4 DEF BuildDone
    <3>2. \A i \in DOMAIN batch : i >= cursor'
      BY <1>2, <3>1
    <3>3. Coming(q, p) => Coming(q, p)'
      BY <3>1, <3>2 DEF Coming, Pending
    <3>. QED
      BY <2>1, <2>2, <3>3
  <2>5. CASE RunDone
    <3>1. phase = "run" /\ cursor = Len(batch) + 1
      BY <2>5 DEF RunDone
    <3>2. \A i \in DOMAIN batch : ~ (i >= cursor)
      BY <1>2, <3>1
    <3>3. ~ Coming(q, p)
      BY <3>1, <3>2 DEF Coming, Pending
    <3>. QED
      BY <2>1, <2>2, <3>3
  <2>. QED
    BY <1>4, <2>3, <2>4, <2>5 DEF QuietStep
<1>5. ASSUME NEW r \in Requests, AddStep(r) PROVE p \in forwarded'[q] \/ Coming(q, p)'
  <2>1. UNCHANGED <<fed, forwarded, batch, cursor>> /\ phase' = phase
    BY <1>5 DEF AddStep, AddRequest, EngineSame, batchVars
  <2>2. Coming(q, p) => Coming(q, p)'
    BY <2>1 DEF Coming, Pending
  <2>. QED
    BY <1>0, <1>1, <2>1, <2>2
<1>6. ASSUME NEW k \in DOMAIN running, ReapStep(k) PROVE p \in forwarded'[q] \/ Coming(q, p)'
  <2>1. UNCHANGED <<fed, forwarded, batch, cursor>> /\ phase' = phase
    BY <1>6 DEF ReapStep, ReapNext, EngineSame, batchVars, requestVars
  <2>2. Coming(q, p) => Coming(q, p)'
    BY <2>1 DEF Coming, Pending
  <2>. QED
    BY <1>0, <1>1, <2>1, <2>2
<1>7. ASSUME NEW r \in Requests, NEW m \in 0 .. CachedTokens[r], NEW j \in Nat, AdmitStep(r, m, j)
      PROVE  p \in forwarded'[q] \/ Coming(q, p)'
  <2>1. /\ fed' = [fed EXCEPT ![r] = 0 .. m - 1]
        /\ forwarded' = (IF m = 0 THEN forwarded ELSE [forwarded EXCEPT ![r] = 0 .. m - 1])
        /\ phase = "admit"
    BY <1>7 DEF AdmitStep, Admit
  <2>2. ~ Coming(q, p)
    BY <1>3, <2>1 DEF BatchOK
  <2>3. CASE q = r
    <3>1. p \in 0 .. m - 1
      BY <1>0, <1>2, <2>1, <2>3
    <3>2. CachedTokens[r] \in Nat /\ m \in Nat
      BY Parameters
    <3>3. m # 0
      BY <3>1, <3>2
    <3>. QED
      BY <1>2, <2>1, <2>3, <3>1, <3>3
  <2>4. CASE q # r
    <3>1. p \in fed[q]
      BY <1>0, <1>2, <2>1, <2>4
    <3>2. p \in forwarded[q]
      BY <1>1, <2>2, <3>1
    <3>. QED
      BY <1>2, <2>1, <2>4, <3>2
  <2>. QED
    BY <2>3, <2>4
<1>8. ASSUME NEW r \in Requests, SkipStep(r) PROVE p \in forwarded'[q] \/ Coming(q, p)'
  <2>1. UNCHANGED <<fed, forwarded, batch>> /\ phase = "build" /\ phase' = phase
    BY <1>8, SkipTypes DEF SkipStep, EngineSame
  <2>2. Coming(q, p) => Coming(q, p)'
    BY <2>1 DEF Coming, Pending
  <2>. QED
    BY <1>0, <1>1, <2>1, <2>2
<1>9. ASSUME NEW r \in Requests, NEW e \in Entries, NEW n \in Nat, Scheduled(r, e, n)
      PROVE  p \in forwarded'[q] \/ Coming(q, p)'
  <2>1. /\ phase = "build" /\ phase' = phase /\ e.rid = r /\ batch' = Append(batch, e) /\ forwarded' = forwarded
        /\ fed' = [fed EXCEPT ![r] = @ \cup e.lo .. e.hi - 1]
    BY <1>9 DEF Scheduled, EngineSame
  <2>2. /\ DOMAIN batch' = 1 .. Len(batch) + 1
        /\ \A i \in DOMAIN batch : i \in DOMAIN batch' /\ batch'[i] = batch[i]
        /\ batch'[Len(batch) + 1] = e
    BY <2>1, Appended
  <2>3. Coming(q, p) => Coming(q, p)'
    BY <2>1, <2>2 DEF Coming, Pending
  <2>4. CASE p \in fed[q]
    BY <1>1, <2>1, <2>3, <2>4
  <2>5. CASE p \notin fed[q]
    <3>1. q = r /\ p \in e.lo .. e.hi - 1
      BY <1>0, <1>2, <2>1, <2>5
    <3>2. Len(batch) + 1 \in DOMAIN batch'
      BY <1>2, <2>2
    <3>3. Coming(q, p)'
      BY <2>1, <2>2, <3>1, <3>2 DEF Coming, Pending
    <3>. QED
      BY <3>3
  <2>. QED
    BY <2>4, <2>5
<1>10. ASSUME NEW e \in Entries, NEW n \in Nat, Grown(e, n) PROVE p \in forwarded'[q] \/ Coming(q, p)'
  <2>1. UNCHANGED <<fed, forwarded, batch, cursor>> /\ phase' = phase
    BY <1>10 DEF Grown, batchVars, requestVars
  <2>2. Coming(q, p) => Coming(q, p)'
    BY <2>1 DEF Coming, Pending
  <2>. QED
    BY <1>0, <1>1, <2>1, <2>2
<1>11. ASSUME NEW e \in Entries, LostStep(e) PROVE p \in forwarded'[q] \/ Coming(q, p)'
  BY <1>0, <1>11, LostTypes, NeverOut
<1>12. ASSUME NEW e \in Entries, WalkStep(e) PROVE p \in forwarded'[q] \/ Coming(q, p)'
  <2>1. Walked(e)
    BY <1>12, WalkEnds
  <2>2. /\ phase = "run" /\ cursor \in DOMAIN batch /\ e = batch[cursor] /\ e.rid \in Requests
    BY <2>1, RunningFacts DEF Walked
  <2>3. /\ fed' = fed /\ batch' = batch /\ phase' = phase /\ cursor' = cursor + 1
        /\ forwarded' = [forwarded EXCEPT ![e.rid] = @ \cup e.lo .. e.hi - 1]
    BY <2>1 DEF Walked
  <2>4. forwarded[q] \subseteq forwarded'[q] /\ (q = e.rid => e.lo .. e.hi - 1 \subseteq forwarded'[q])
    BY <1>2, <2>2, <2>3
  <2>5. CASE Coming(q, p)
    <3>1. PICK i \in DOMAIN batch : Pending(i) /\ batch[i].rid = q /\ p \in batch[i].lo .. batch[i].hi - 1
      BY <2>5 DEF Coming
    <3>2. CASE i = cursor
      BY <2>2, <2>4, <3>1, <3>2
    <3>3. CASE i # cursor
      <4>1. i >= cursor
        BY <2>2, <3>1 DEF Pending
      <4>2. i >= cursor'
        BY <1>2, <2>3, <3>3, <4>1
      <4>3. Coming(q, p)'
        BY <2>3, <3>1, <4>2 DEF Coming, Pending
      <4>. QED
        BY <4>3
    <3>. QED
      BY <3>2, <3>3
  <2>. QED
    BY <1>0, <1>1, <2>3, <2>4, <2>5
<1>13. ASSUME NEW e \in Entries, StrandStep(e) PROVE FALSE
  BY <1>0, <1>13, StrandTypes DEF Strands
<1>. QED
  BY <1>4, <1>5, <1>6, <1>7, <1>8, <1>9, <1>10, <1>11, <1>12, <1>13 DEF AnyStep

-----------------------------------------------------------------------------
(* The invariant holds at the start. *)
LEMMA EngineStarts ==
    ASSUME SchedulerAssumption, RunnerAssumption, RunnerInit
    PROVE  IInv
<1>1. /\ conf \in Configs /\ waiting = {} /\ running = <<>>
      /\ state = [r \in Requests |-> "new"]
      /\ prefillPos = [r \in Requests |-> 0]
      /\ outLen = [r \in Requests |-> 0]
      /\ tables = {}
      /\ own = [r \in Requests |-> 0]
      /\ shared = [r \in Requests |-> 0]
      /\ free = NumBlocks
      /\ phase = "idle" /\ cursor = 1 /\ batch = <<>> /\ prefillTokens = 0 /\ numDecode = 0
      /\ fed = [r \in Requests |-> {}]
      /\ layer = [r \in Requests |-> [l \in Layers |-> 0]]
      /\ nextLayer = 1 /\ cached = 0 /\ faults = 0 /\ stranded = {}
      /\ forwarded = [r \in Requests |-> {}]
  BY DEF RunnerInit, Init
<1>2. NumBlocks \in Nat \ {0} /\ MaxBatch \in Nat /\ IsFiniteSet(Requests)
      /\ \A r \in Requests : PromptLen[r] \in Nat /\ MaxNew[r] \in Nat
  BY <1>1, ConfigTypes, Parameters
<1>3. /\ running \in Seq(Requests) /\ Len(running) = 0 /\ DOMAIN running = {} /\ Range(running) = {}
      /\ batch \in Seq(Entries) /\ Len(batch) = 0 /\ DOMAIN batch = {}
  <2>1. <<>> \in Seq(Requests) /\ <<>> \in Seq(Entries) /\ Len(<<>>) = 0 /\ DOMAIN <<>> = {}
    OBVIOUS
  <2>. QED
    BY <1>1, <2>1 DEF Range
<1>4. /\ \A r \in Requests : state[r] = "new" /\ own[r] = 0 /\ outLen[r] = 0 /\ prefillPos[r] = 0 /\ fed[r] = {}
      /\ \A r \in Requests : layer[r] = [l \in Layers |-> 0] /\ \A l \in Layers : layer[r][l] = 0
  BY <1>1
<1>5. layer \in [Requests -> [Layers -> Nat]] /\ own \in [Requests -> Nat] /\ shared \in [Requests -> Nat]
  <2>1. [l \in Layers |-> 0] \in [Layers -> Nat]
    OBVIOUS
  <2>. QED
    BY <1>1, <2>1
<1>6. Types
  <2>1. QueueTypes
    BY <1>1, <1>2, <1>3 DEF QueueTypes
  <2>2. RequestTypes
    BY <1>1 DEF RequestTypes
  <2>3. PoolTypes
    BY <1>1, <1>2, <1>5 DEF PoolTypes
  <2>4. WalkTypes
    BY <1>1, <1>3 DEF WalkTypes
  <2>. QED
    BY <1>1, <2>1, <2>2, <2>3, <2>4 DEF Types
<1>7. Progress
  <2>1. \A r \in Requests : SeqLen(r) < MaxSeqLen(r)
    BY <1>2, <1>4 DEF SeqLen, MaxSeqLen
  <2>. QED
    BY <1>2, <1>4, <2>1 DEF Progress
<1>8. BatchOK
  BY <1>1, <1>3 DEF BatchOK
<1>9. Total(own) = 0 /\ Total(LayerTotal) = 0
  <2>1. \A r \in Requests : LayerTotal[r] = 0
    BY <1>4, <1>6, NoLayers DEF LayerTotal
  <2>2. PICK f, g : f = own /\ g = LayerTotal
    OBVIOUS
  <2>3. (\A r \in Requests : f[r] = 0) /\ (\A r \in Requests : g[r] = 0)
    BY <1>4, <2>1, <2>2
  <2>4. SumFunctionOnSet(f, Requests) = 0 /\ SumFunctionOnSet(g, Requests) = 0
    BY <1>2, <2>3, SumZero
  <2>. QED
    BY <2>2, <2>4 DEF Total
<1>10. Books
  <2>1. free + cached + Total(own) + Total(LayerTotal) = NumBlocks
    BY <1>1, <1>2, <1>9
  <2>. QED
    BY <1>1, <1>3, <1>4, <2>1 DEF Books, Holders
<1>13. Stranding
  BY <1>1 DEF Stranding
<1>11. Limits
  <2>1. \A r \in Requests : TableNeed(r) \in Nat
    BY <1>1, Needs
  <2>2. PICK f : f = LeftBehind
    OBVIOUS
  <2>3. \A r \in Requests : f[r] = 0
    BY <1>4, <2>2 DEF LeftBehind
  <2>4. SumFunctionOnSet(f, Requests) = 0
    BY <1>2, <2>3, SumZero
  <2>5. Total(LeftBehind) = 0
    BY <2>2, <2>4 DEF Total
  <2>. QED
    BY <1>1, <1>4, <2>1, <2>5 DEF Limits
<1>12. Feeding /\ Forwarding
  BY <1>3, <1>4 DEF Feeding, Forwarding
<1>. QED
  BY <1>6, <1>7, <1>8, <1>10, <1>11, <1>12, <1>13 DEF IInv

(* A step that changes nothing keeps it. *)
LEMMA EngineStutters ==
    ASSUME SchedulerAssumption, RunnerAssumption, IInv, UNCHANGED runnerVars
    PROVE  IInv'
<1>1. /\ UNCHANGED <<conf, waiting, running, state, prefillPos, outLen, fed, tables, own, shared, free>>
      /\ UNCHANGED <<cursor, batch, prefillTokens, numDecode, phase, layer, nextLayer, cached, faults, stranded, forwarded>>
  BY DEF runnerVars, vars, queueVars, requestVars, poolVars, batchVars, runnerOnly
<1>2. Types'
  BY <1>1 DEF IInv, Types, QueueTypes, RequestTypes, PoolTypes, WalkTypes
<1>3. Progress'
  BY <1>1 DEF IInv, Progress, SeqLen
<1>4. BatchOK'
  <2>1. \A i \in DOMAIN batch : EntryOK(batch[i]) => EntryOK(batch[i])'
    BY <1>1 DEF EntryOK, SeqLen, TableLen, UseKv
  <2>. QED
    BY <1>1, <2>1 DEF IInv, BatchOK, Pending
<1>5. Books'
  BY <1>1 DEF IInv, Books, Holders, Total, LayerTotal, NumBlocks, Released, UseKv
<1>10. Stranding'
  BY <1>1 DEF IInv, Stranding
<1>6. Limits'
  <2>1. \A q \in Requests : TableNeed(q)' = TableNeed(q) /\ Left(q)' = Left(q)
    BY <1>1, NeedsSame
  <2>2. LeftBehind' = LeftBehind
    BY <1>1, <2>1 DEF LeftBehind
  <2>. QED
    BY <1>1, <2>1, <2>2 DEF IInv, Limits, Total
<1>7. Fits' => Fits
  BY <1>1, FitsBefore DEF IInv
<1>8. Feeding'
  BY <1>1, <1>7 DEF IInv, Feeding, SeqLen
<1>9. Forwarding'
  BY <1>1, <1>7 DEF IInv, Forwarding, Pending
<1>. QED
  BY <1>2, <1>3, <1>4, <1>5, <1>6, <1>8, <1>9, <1>10 DEF IInv

(* The scheduler and its callers keep the invariant: types and counters, the
   batch, the books of the pool, the limits of tables and cache, and the
   positions scheduled and forwarded. *)
THEOREM EngineKept == RunnerSpec => []IInv
<1>1. RunnerInit => IInv
  BY SchedulerAssumption, RunnerAssumption, EngineStarts
<1>2. IInv /\ [RunnerNext]_runnerVars => IInv'
  <2>. SUFFICES ASSUME IInv, [RunnerNext]_runnerVars PROVE IInv'
    OBVIOUS
  <2>0. Types /\ Progress /\ BatchOK /\ Books /\ Stranding /\ Limits /\ Feeding /\ Forwarding
    BY DEF IInv
  <2>1. CASE RunnerNext
    <3>1. AnyStep
      BY <2>0, <2>1, SchedulerAssumption, RunnerAssumption, AllSteps
    <3>2. Types'
      BY <2>0, <3>1, SchedulerAssumption, RunnerAssumption, TypesKept
    <3>3. Progress'
      BY <2>0, <3>1, SchedulerAssumption, RunnerAssumption, ProgressKept
    <3>4. BatchOK'
      BY <2>0, <3>1, <3>2, SchedulerAssumption, RunnerAssumption, BatchKept
    <3>5. Books'
      BY <2>0, <3>1, <3>2, SchedulerAssumption, RunnerAssumption, BooksKept
    <3>6. Limits'
      BY <2>0, <3>1, <3>2, SchedulerAssumption, RunnerAssumption, LimitsKept
    <3>7. Feeding'
      BY <2>0, <3>1, <3>2, <3>4, SchedulerAssumption, RunnerAssumption, FeedingKept
    <3>8. Forwarding'
      BY <2>0, <3>1, <3>2, <3>4, SchedulerAssumption, RunnerAssumption, ForwardingKept
    <3>9. Stranding'
      BY <2>0, <3>1, SchedulerAssumption, RunnerAssumption, StrandingKept
    <3>. QED
      BY <3>2, <3>3, <3>4, <3>5, <3>6, <3>7, <3>8, <3>9 DEF IInv
  <2>2. CASE UNCHANGED runnerVars
    BY <2>2, SchedulerAssumption, RunnerAssumption, EngineStutters
  <2>. QED
    BY <2>1, <2>2
<1>. QED
  BY <1>1, <1>2, PTL DEF RunnerSpec

(* Every variable keeps its type, the batch size is respected, and the free
   list never has more blocks than the pool. *)
THEOREM EngineTypes == RunnerSpec => []TypeOK
<1>1. IInv => TypeOK
  <2>. SUFFICES ASSUME IInv PROVE TypeOK
    OBVIOUS
  <2>0. Types /\ Books
    BY DEF IInv
  <2>1. Total(own) \in Nat /\ Total(LayerTotal) \in Nat
    BY <2>0, SchedulerAssumption, RunnerAssumption, Totals DEF Types, PoolTypes
  <2>2. /\ free \in Nat /\ cached \in Nat /\ NumBlocks \in Nat
        /\ free + cached + Total(own) + Total(LayerTotal) = NumBlocks
    BY <2>0, SchedulerAssumption, ConfigTypes DEF Types, PoolTypes, Books
  <2>3. free \in 0 .. NumBlocks
    BY <2>1, <2>2
  <2>. QED
    BY <2>0, <2>3 DEF Types, QueueTypes, RequestTypes, PoolTypes, WalkTypes, TypeOK
<1>. QED
  BY <1>1, EngineKept, PTL

(* The block table of a scheduled request covers every KV position that its
   pass, still to come, writes: whatever was allocated for the chunk, for the
   token and from a prefix-cache hit that brings too few blocks, and whichever
   requests were released in between. *)
THEOREM TablesCover == RunnerSpec => []BlocksCover
<1>1. IInv => BlocksCover
  <2>. SUFFICES ASSUME IInv, NEW i \in DOMAIN batch, phase = "build" \/ i >= cursor, batch[i].lo > 0 \/ UseKv
                PROVE  batch[i].hi <= TableLen(batch[i].rid) * BlockSize
    BY DEF BlocksCover
  <2>1. EntryOK(batch[i])
    BY DEF IInv, BatchOK, Pending
  <2>. QED
    BY <2>1 DEF EntryOK
<1>. QED
  BY <1>1, EngineKept, PTL

(* No block is lost or returned twice: the free list, the prefix cache, the
   tables of running requests and those of requests whose insertion into the
   prefix cache panicked make up the pool, also while a finished request of
   the Python engine waits to be reaped. *)
THEOREM NoBlockLost == RunnerSpec => []BlocksAccounted
<1>1. IInv => BlocksAccounted
  <2>. SUFFICES ASSUME IInv, Released
                PROVE  /\ tables \subseteq Holders
                       /\ free + cached + SumFunctionOnSet(own, Holders)
                             + SumFunctionOnSet(LayerTotal, Holders) = NumBlocks
    BY DEF BlocksAccounted, Released, LayerTotal, Holders
  <2>0. Types /\ Books
    BY DEF IInv
  <2>1. /\ tables \subseteq Holders
        /\ \A r \in Requests \ Holders : own[r] = 0 /\ \A l \in Layers : layer[r][l] = 0
        /\ free + cached + Total(own) + Total(LayerTotal) = NumBlocks
    BY <2>0 DEF Books
  <2>2. IsFiniteSet(Requests) /\ Holders \in SUBSET Requests
    BY <2>0, SchedulerAssumption, RunnerAssumption, Parameters, FewRun DEF Holders, Types, PoolTypes
  <2>3. /\ \A r \in Requests : LayerTotal[r] = Sum(layer[r]) /\ LayerTotal[r] \in Nat
        /\ \A r \in Requests : own[r] \in Nat
    BY <2>0, SchedulerAssumption, RunnerAssumption, Totals DEF Types, PoolTypes
  <2>4. \A r \in Requests \ Holders : LayerTotal[r] = 0
    BY <2>0, <2>1, <2>3, SchedulerAssumption, RunnerAssumption, NoLayers
  <2>5. PICK f, g, u : f = own /\ g = LayerTotal /\ u = Holders
    OBVIOUS
  <2>6. /\ u \in SUBSET Requests
        /\ \A r \in Requests : f[r] \in Nat
        /\ \A r \in Requests : g[r] \in Nat
        /\ \A r \in Requests \ u : f[r] = 0
        /\ \A r \in Requests \ u : g[r] = 0
    BY <2>1, <2>2, <2>3, <2>4, <2>5
  <2>7. SumFunctionOnSet(f, Requests) = SumFunctionOnSet(f, u)
    BY <2>2, <2>6, SumOutside
  <2>8. SumFunctionOnSet(g, Requests) = SumFunctionOnSet(g, u)
    BY <2>2, <2>6, SumOutside
  <2>9. Total(own) = SumFunctionOnSet(own, Holders) /\ Total(LayerTotal) = SumFunctionOnSet(LayerTotal, Holders)
    BY <2>5, <2>7, <2>8 DEF Total
  <2>. QED
    BY <2>1, <2>9
<1>. QED
  BY <1>1, EngineKept, PTL

(* With a pool that any batch fits, a request is scheduled its sequence from
   the first position on without a gap: the pool never runs out in the middle
   of a prefill, so prefill_pos never moves past positions nobody fed.  Such a
   pool has room for the tables of stranded requests, too. *)
THEOREM FedWithoutGaps == RunnerSpec => []NoHoles
<1>1. IInv => NoHoles
  <2>. SUFFICES ASSUME IInv, Fits, NEW i \in DOMAIN batch PROVE 0 .. batch[i].lo - 1 \subseteq fed[batch[i].rid]
    BY DEF NoHoles, FedInOrder
  <2>1. 0 .. batch[i].hi - 1 \subseteq fed[batch[i].rid] /\ batch[i].lo < batch[i].hi
    BY DEF IInv, Feeding, BatchOK
  <2>2. batch[i].lo \in Nat /\ batch[i].hi \in Nat
    BY Lengths, EntryFields DEF IInv
  <2>3. 0 .. batch[i].lo - 1 \subseteq 0 .. batch[i].hi - 1
    BY <2>1, <2>2
  <2>. QED
    BY <2>1, <2>3
<1>. QED
  BY <1>1, EngineKept, PTL

(* With such a pool and until a pass fails or an insertion panics, which drops
   scheduled entries as well, a pass that reads the KV cache finds forwarded every position before its own, also when its request's
   chunks lie steps apart and other requests ran and finished between them. *)
THEOREM WrittenBeforeRead == RunnerSpec => []ForwardedBeforeRead
<1>1. IInv => ForwardedBeforeRead
  <2>. SUFFICES ASSUME IInv, Fits, ~ (faults > 0), stranded = {}, NEW e \in Range(batch), Running(e),
                       NEW p \in 0 .. e.lo - 1
                PROVE  p \in forwarded[e.rid]
    BY DEF ForwardedBeforeRead
  <2>0. Types /\ BatchOK /\ Feeding /\ Forwarding
    BY DEF IInv
  <2>1. phase = "run" /\ cursor \in DOMAIN batch /\ e = batch[cursor]
    BY DEF Running
  <2>2. e \in Entries /\ e.rid \in Requests /\ e.lo \in Nat /\ e.hi \in Nat /\ e.lo < e.hi
    BY <2>0, <2>1, Lengths, EntryFields DEF BatchOK
  <2>3. faults = 0
    BY <2>0 DEF Types, WalkTypes
  <2>4. p \in fed[e.rid]
    <3>1. 0 .. e.hi - 1 \subseteq fed[e.rid]
      BY <2>0, <2>1 DEF Feeding
    <3>2. p \in 0 .. e.hi - 1
      BY <2>2
    <3>. QED
      BY <3>1, <3>2
  <2>5. SUFFICES ASSUME NEW i \in DOMAIN batch, Pending(i), batch[i].rid = e.rid, p \in batch[i].lo .. batch[i].hi - 1
                 PROVE  FALSE
    BY <2>0, <2>2, <2>3, <2>4 DEF Forwarding
  <2>6. i = cursor
    BY <2>0, <2>1, <2>5 DEF BatchOK
  <2>. QED
    BY <2>1, <2>2, <2>5, <2>6
<1>. QED
  BY <1>1, EngineKept, PTL

-----------------------------------------------------------------------------
(* The KV rows of the Python engine.  KvInv is a second inductive invariant on
   top of IInv: the tables have the lengths that the scheduler counts and no
   block in common, so that a pass, which writes to the table of its own
   request only, leaves the rows of all others alone. *)

(* Tables t of the lengths o, with no block in two of them or twice in one. *)
Apart(t, o) ==
    /\ t \in [Requests -> Seq(Blocks)]
    /\ \A r \in Requests : Len(t[r]) = o[r]
    /\ \A r, q \in Requests : \A i \in 1 .. o[r] : \A j \in 1 .. o[q] :
          t[r][i] = t[q][j] => r = q /\ i = j

(* Where the tables, the cache and the slab are when blocks come from the pool
   only: every table has as many blocks as the scheduler counted, no block is
   in two tables or twice in one. *)
Shelves ==
    /\ cached = 0
    /\ \A r \in Requests : shared[r] = 0
    /\ Apart(pages, own)
    /\ DOMAIN slab = Blocks \X (0 .. BlockSize - 1)

(* What the steps do to the tables and the slab. *)
Frees(r) == own' = [own EXCEPT ![r] = 0] /\ state'[r] = "finished"

Grows(r) == \E n \in Nat : n <= free /\ own' = [own EXCEPT ![r] = @ + n]

Writes(e) ==
    /\ Running(e)
    /\ slab' = WritePaged(e)
    /\ forwarded' = [forwarded EXCEPT ![e.rid] = @ \cup e.lo .. e.hi - 1]
    /\ own' = own \/ Frees(e.rid)

Follow == Pages \/ (own' = own /\ pages' = pages)

KvStep ==
    /\ conf' = conf
    /\ cached' = 0
    /\ \A q \in Requests : shared'[q] = 0
    /\ \A q \in Requests : state'[q] # "finished" => state[q] # "finished"
    /\ Follow
    /\ \/ \E e \in Entries : Writes(e)
       \/ /\ UNCHANGED <<slab, forwarded>>
          /\ (own' = own) \/ \E r \in Requests : Frees(r) \/ Grows(r)

(* Every step of the Python engine with a paged cache is one of these. *)
LEMMA KvSteps ==
    ASSUME SchedulerAssumption, RunnerAssumption, IInv, Paged, Shelves, RunnerNext
    PROVE  KvStep
<1>0. /\ Types /\ BatchOK
      /\ conf.engine = "python" /\ UseKv /\ ~ conf.prefix
      /\ own \in [Requests -> Nat] /\ shared \in [Requests -> Nat]
      /\ state \in [Requests -> {"new", "waiting", "prefill", "decode", "finished"}]
      /\ \A q \in Requests : shared[q] = 0
      /\ cached = 0
  BY DEF IInv, Types, PoolTypes, QueueTypes, Paged, Shelves
<1>1. CASE Arrival
  <2>1. PICK r \in Requests : AddRequest(r)
    BY <1>1 DEF Arrival
  <2>2. state[r] = "new" /\ state' = [state EXCEPT ![r] = "waiting"] /\ UNCHANGED <<own, shared>>
    BY <2>1 DEF AddRequest, poolVars
  <2>3. UNCHANGED <<conf, cached, forwarded, pages, slab>>
    BY <1>1 DEF Arrival, runnerOnly, kvVars
  <2>4. \A q \in Requests : state'[q] # "finished" => state[q] # "finished"
    BY <1>0, <2>2
  <2>. QED
    BY <1>0, <2>2, <2>3, <2>4 DEF KvStep, Follow
<1>2. CASE AdmitHit
  BY <1>0, <1>2 DEF AdmitHit
<1>3. CASE ScheduleStep
  <2>0. Follow /\ UNCHANGED <<conf, cached, forwarded, slab>>
    <3>1. Pages
      BY <1>3, Zenon DEF ScheduleStep
    <3>2. UNCHANGED <<conf, cached, forwarded, slab>>
      BY <1>3 DEF ScheduleStep
    <3>. QED
      BY <3>1, <3>2, Zenon DEF Follow
  <2>1. CASE Schedule \/ ReapDone \/ AdmitDone \/ BuildDone
    <3>1. UNCHANGED <<state, own, shared>>
      BY <2>1 DEF Schedule, ReapDone, AdmitDone, BuildDone, poolVars, requestVars
    <3>. QED
      BY <1>0, <2>0, <3>1 DEF KvStep
  <2>2. CASE \E i \in 1 .. MaxBatch : ReapNext(i)
    <3>1. PICK i \in 1 .. MaxBatch : ReapNext(i)
      BY <2>2
    <3>2. i \in DOMAIN running /\ state[running[i]] = "finished" /\ state' = state
          /\ own' = [own EXCEPT ![running[i]] = 0] /\ shared' = [shared EXCEPT ![running[i]] = 0]
      BY <3>1 DEF ReapNext, FreeTable, Finished, requestVars
    <3>3. running[i] \in Requests
      BY <1>0, <3>2, ElementOfSeq DEF Types, QueueTypes
    <3>4. Frees(running[i])
      BY <3>2 DEF Frees
    <3>5. \A q \in Requests : shared'[q] = 0
      BY <1>0, <3>2, <3>3
    <3>. QED
      BY <1>0, <2>0, <3>2, <3>3, <3>4, <3>5 DEF KvStep
  <2>3. CASE \E r \in Requests : Admit(r, 0, 0)
    <3>1. PICK r \in Requests : Admit(r, 0, 0)
      BY <2>3
    <3>2. /\ r \in waiting /\ own' = own /\ shared' = [shared EXCEPT ![r] = 0]
          /\ \A q \in Requests \ {r} : state'[q] = state[q]
      BY <1>0, <3>1 DEF Admit
    <3>3. state[r] = "waiting"
      BY <1>0, <3>2 DEF Types, QueueTypes
    <3>4. \A q \in Requests : shared'[q] = 0
      BY <1>0, <3>2
    <3>5. \A q \in Requests : state'[q] # "finished" => state[q] # "finished"
      BY <3>2, <3>3
    <3>. QED
      BY <1>0, <2>0, <3>2, <3>4, <3>5 DEF KvStep
  <2>4. CASE \E r \in Requests : BuildStep(r)
    <3>1. PICK r \in Requests : BuildStep(r)
      BY <2>4
    <3>2. CASE PrefillEmpty(r) \/ PrefillNoBudget(r) \/ PrefillOOM(r) \/ DecodeNoBudget(r) \/ DecodeOOM(r)
      <4>1. UNCHANGED <<own, shared>>
        BY <3>2 DEF PrefillEmpty, PrefillNoBudget, PrefillOOM, DecodeNoBudget, DecodeOOM, Skip, poolVars
      <4>2. \/ state' = state
            \/ state[r] = "prefill" /\ state' = [state EXCEPT ![r] = "decode"]
        BY <3>2 DEF PrefillEmpty, PrefillNoBudget, PrefillOOM, DecodeNoBudget, DecodeOOM, Building, requestVars
      <4>3. \A q \in Requests : state'[q] # "finished" => state[q] # "finished"
        BY <1>0, <4>2
      <4>. QED
        BY <1>0, <2>0, <4>1, <4>3 DEF KvStep
    <3>3. CASE PrefillChunk(r)
      <4>1. PromptLen[r] \in Nat
        BY Parameters
      <4>2. Missing(r, PromptLen[r]) \in Nat
        BY <1>0, <4>1, MissingFacts
      <4>3. /\ Missing(r, PromptLen[r]) <= free
            /\ own' = [own EXCEPT ![r] = @ + Missing(r, PromptLen[r])]
            /\ shared' = shared
            /\ state[r] = "prefill"
            /\ \A q \in Requests \ {r} : state'[q] = state[q]
        BY <1>0, <3>3 DEF PrefillChunk, Reserve, Building
      <4>4. \A q \in Requests : state'[q] # "finished" => state[q] # "finished"
        BY <4>3
      <4>5. Grows(r)
        BY <4>2, <4>3 DEF Grows
      <4>. QED
        BY <1>0, <2>0, <4>3, <4>4, <4>5 DEF KvStep
    <3>4. CASE DecodeToken(r)
      <4>1. SeqLen(r) + 1 \in Nat
        BY <1>0, Parameters DEF SeqLen, Types, RequestTypes
      <4>2. Missing(r, SeqLen(r) + 1) \in Nat
        BY <1>0, <4>1, MissingFacts
      <4>3. /\ Missing(r, SeqLen(r) + 1) <= free
            /\ own' = [own EXCEPT ![r] = @ + Missing(r, SeqLen(r) + 1)]
            /\ shared' = shared
            /\ state' = state
        BY <1>0, <3>4 DEF DecodeToken, Reserve
      <4>4. Grows(r)
        BY <4>2, <4>3 DEF Grows
      <4>. QED
        BY <1>0, <2>0, <4>3, <4>4 DEF KvStep
    <3>. QED
      BY <3>1, <3>2, <3>3, <3>4 DEF BuildStep
  <2>. QED
    BY <1>3, <2>1, <2>2, <2>3, <2>4, Zenon DEF ScheduleStep
<1>4. CASE Walk
  <2>0. Follow /\ conf' = conf
    <3>1. Pages /\ conf' = conf
      BY <1>4, Zenon DEF Walk
    <3>. QED
      BY <3>1, Zenon DEF Follow
  <2>1. ASSUME NEW e, Running(e) PROVE e \in Entries /\ e.rid \in Requests
    <3>1. e \in Entries
      BY <1>0, <2>1, Lengths DEF Running
    <3>. QED
      BY <3>1, EntryFields
  <2>2. CASE RunDone /\ UNCHANGED <<layer, nextLayer, cached, faults, stranded, forwarded, slab>>
    <3>1. UNCHANGED <<state, own, shared>>
      BY <2>2 DEF RunDone, poolVars, requestVars
    <3>. QED
      BY <1>0, <2>0, <2>2, <3>1 DEF KvStep
  <2>3. ASSUME NEW i \in DOMAIN batch, EnsureLayer(batch[i]) \/ LayerOOM(batch[i]) PROVE KvStep
    BY <1>0, <2>3 DEF EnsureLayer, LayerOOM, Growing
  <2>4. ASSUME NEW i \in DOMAIN batch, ForwardError(batch[i]) PROVE KvStep
    <3>1. UNCHANGED <<state, own, shared, cached, forwarded, slab>>
      BY <2>4 DEF ForwardError, AbortStep, DropBatch, poolVars, requestVars
    <3>. QED
      BY <1>0, <2>0, <3>1 DEF KvStep
  <2>5. ASSUME NEW i \in DOMAIN batch, ForwardOnly(batch[i]) PROVE KvStep
    <3>1. /\ Running(batch[i]) /\ UNCHANGED <<state, own, shared, cached>>
          /\ slab' = WritePaged(batch[i])
          /\ forwarded' = [forwarded EXCEPT ![batch[i].rid] = @ \cup batch[i].lo .. batch[i].hi - 1]
      BY <2>5 DEF ForwardOnly, NoSample, Forward, Pass, Paged, poolVars, requestVars
    <3>2. Writes(batch[i]) /\ batch[i] \in Entries
      BY <2>1, <3>1 DEF Writes
    <3>. QED
      BY <1>0, <2>0, <3>1, <3>2 DEF KvStep
  <2>6. ASSUME NEW i \in DOMAIN batch, RecordMore(batch[i]) PROVE KvStep
    <3>1. /\ RecordOutput(batch[i], FALSE) /\ UNCHANGED <<own, shared, cached>>
          /\ Running(batch[i])
          /\ slab' = WritePaged(batch[i])
          /\ forwarded' = [forwarded EXCEPT ![batch[i].rid] = @ \cup batch[i].lo .. batch[i].hi - 1]
      BY <2>6 DEF RecordMore, RecordOutput, Forward, Pass, Paged, poolVars
    <3>2. Writes(batch[i]) /\ batch[i] \in Entries /\ batch[i].rid \in Requests
      BY <2>1, <3>1 DEF Writes
    <3>3. state' = [state EXCEPT ![batch[i].rid] = IF FALSE THEN "finished" ELSE @]
      BY <3>1 DEF RecordOutput
    <3>4. \A q \in Requests : state'[q] = state[q]
      BY <1>0, <3>3
    <3>. QED
      BY <1>0, <2>0, <3>1, <3>2, <3>4 DEF KvStep
  <2>7. ASSUME NEW i \in DOMAIN batch, NEW k \in 0 .. NumBlocks, FinishRequest(batch[i], k) PROVE KvStep
    BY <1>0, <2>7 DEF FinishRequest
  <2>8. ASSUME NEW i \in DOMAIN batch, NEW k \in 0 .. NumBlocks, PythonFinish(batch[i], k) PROVE KvStep
    <3>1. /\ RecordOutput(batch[i], TRUE)
          /\ Running(batch[i])
          /\ slab' = WritePaged(batch[i])
          /\ forwarded' = [forwarded EXCEPT ![batch[i].rid] = @ \cup batch[i].lo .. batch[i].hi - 1]
          /\ own' = [own EXCEPT ![batch[i].rid] = 0]
          /\ shared' = [shared EXCEPT ![batch[i].rid] = 0]
          /\ cached' = cached + k
          /\ (k > 0 => conf.prefix)
      BY <2>8 DEF PythonFinish, RecordOutput, Forward, Pass, Paged, FreeTable, Kept
    <3>2. batch[i] \in Entries /\ batch[i].rid \in Requests
      BY <2>1, <3>1
    <3>3. state' = [state EXCEPT ![batch[i].rid] = IF TRUE THEN "finished" ELSE @]
      BY <3>1 DEF RecordOutput
    <3>4. state'[batch[i].rid] = "finished" /\ \A q \in Requests : state'[q] = state[q] \/ state'[q] = "finished"
      BY <1>0, <3>2, <3>3
    <3>5. Writes(batch[i])
      BY <3>1, <3>4 DEF Writes, Frees
    <3>6. cached' = 0
      BY <1>0, <3>1
    <3>7. \A q \in Requests : shared'[q] = 0
      BY <1>0, <3>1
    <3>. QED
      BY <2>0, <3>2, <3>4, <3>5, <3>6, <3>7 DEF KvStep
  <2>9. ASSUME NEW i \in DOMAIN batch, NoLogits(batch[i]) \/ InsertPanic(batch[i]) PROVE KvStep
    BY <1>0, <2>9 DEF NoLogits, InsertPanic
  <2>. QED
    BY <1>4, <2>2, <2>3, <2>4, <2>5, <2>6, <2>7, <2>8, <2>9, Zenon DEF Walk
<1>. QED
  BY <1>1, <1>2, <1>3, <1>4 DEF RunnerNext

(* All of a sequence. *)
LEMMA SubSeqWhole ==
    ASSUME NEW S, NEW s \in Seq(S)
    PROVE  SubSeq(s, 1, Len(s)) = s
<1>0. Len(s) \in Nat
  BY LenProperties
<1>1. \A i \in 1 .. Len(s) : s[i] \in S
  BY ElementOfSeq
<1>2. /\ SubSeq(s, 1, Len(s)) \in Seq(S)
      /\ Len(SubSeq(s, 1, Len(s))) = IF 1 <= Len(s) THEN Len(s) - 1 + 1 ELSE 0
      /\ \A i \in 1 .. Len(s) - 1 + 1 : SubSeq(s, 1, Len(s))[i] = s[1 + i - 1]
  <2>1. 1 \in Int /\ Len(s) \in Int
    BY <1>0
  <2>. QED
    BY <1>1, <2>1, SubSeqProperties
<1>. DEFINE t == SubSeq(s, 1, Len(s))
<1>. HIDE DEF t
<1>3. t \in Seq(S) /\ Len(t) = Len(s) /\ \A i \in 1 .. Len(t) : t[i] = s[i]
  BY <1>0, <1>2 DEF t
<1>4. t = s
  BY <1>3, SeqEqual
<1>. QED
  BY <1>4 DEF t

(* The pool still has as many blocks in no table as the free list counts. *)
LEMMA SpareBlocks ==
    ASSUME SchedulerAssumption, RunnerAssumption, Types, Books, Shelves, NEW n \in Nat, n <= free
    PROVE  \E f : f \in Injection(1 .. n, Blocks \ UNION {Range(pages[r]) : r \in Requests})
<1>. DEFINE used == UNION {Range(pages[r]) : r \in Requests}
<1>1. /\ own \in [Requests -> Nat] /\ layer \in [Requests -> [Layers -> Nat]]
      /\ free \in Nat /\ cached \in Nat /\ NumBlocks \in Nat
      /\ free + cached + Total(own) + Total(LayerTotal) = NumBlocks
  BY ConfigTypes DEF Types, PoolTypes, Books
<1>2. Total(own) \in Nat /\ Total(LayerTotal) \in Nat
  BY <1>1, Totals
<1>3. IsFiniteSet(Requests) /\ \A r \in Requests : own[r] \in Nat
  BY <1>1, Parameters
<1>4. IsFiniteSet(used) /\ Cardinality(used) <= Total(own)
  <2>. DEFINE t == [r \in Requests |-> Range(pages[r])]
  <2>1. \A r \in Requests : IsFiniteSet(t[r]) /\ Cardinality(t[r]) <= own[r]
    <3>. TAKE r \in Requests
    <3>1. pages[r] \in Seq(Blocks) /\ Len(pages[r]) = own[r]
      BY DEF Shelves, Apart
    <3>. QED
      BY <3>1, RangeIsSmall
  <2>2. used = UNION {t[r] : r \in Requests}
    OBVIOUS
  <2>. HIDE DEF t, used
  <2>3. PICK f, u : f = own /\ u = t
    OBVIOUS
  <2>4. /\ \A r \in Requests : f[r] \in Nat
        /\ \A r \in Requests : IsFiniteSet(u[r]) /\ Cardinality(u[r]) <= f[r]
    BY <1>3, <2>1, <2>3
  <2>5. /\ IsFiniteSet(UNION {u[r] : r \in Requests})
        /\ Cardinality(UNION {u[r] : r \in Requests}) <= SumFunctionOnSet(f, Requests)
    BY <1>3, <2>4, SumCovers
  <2>. QED
    BY <2>2, <2>3, <2>5, Zenon DEF Total
<1>5. IsFiniteSet(Blocks) /\ Cardinality(Blocks) = NumBlocks
  <2>1. 0 \in Int /\ NumBlocks - 1 \in Int /\ Blocks = 0 .. NumBlocks - 1
    BY <1>1 DEF Blocks
  <2>2. IsFiniteSet(0 .. NumBlocks - 1) /\ Cardinality(0 .. NumBlocks - 1) = IF 0 > NumBlocks - 1 THEN 0 ELSE (NumBlocks - 1) - 0 + 1
    BY <2>1, FS_Interval
  <2>. QED
    BY <1>1, <2>1, <2>2
<1>. HIDE DEF used
<1>6. /\ IsFiniteSet(Blocks \ used)
      /\ Cardinality(Blocks \ used) = NumBlocks - Cardinality(Blocks \cap used)
  BY <1>5, FS_Difference
<1>7. Cardinality(Blocks \cap used) <= Cardinality(used)
  BY <1>4, FS_Intersection
<1>8. Cardinality(Blocks \cap used) \in Nat /\ Cardinality(used) \in Nat
  BY <1>4, FS_CardinalityType, FS_Intersection
<1>9. n <= Cardinality(Blocks \ used)
  BY <1>1, <1>2, <1>4, <1>6, <1>7, <1>8
<1>10. \E f : f \in Injection(1 .. n, Blocks \ used)
  BY <1>6, <1>9, RoomFor
<1>. QED
  BY <1>10 DEF used

(* The tables after a step: what is allocated is taken from blocks that no
   table has, and what a request that runs on has is kept. *)
LEMMA TablesFollow ==
    ASSUME SchedulerAssumption, RunnerAssumption, IInv, Types', Paged, Shelves, KvStep
    PROVE  /\ Shelves'
           /\ \A r \in Requests : state'[r] # "finished" =>
                 own[r] <= own'[r] /\ \A i \in 1 .. own[r] : pages'[r][i] = pages[r][i]
<1>. DEFINE used == UNION {Range(pages[r]) : r \in Requests}
            fresh(k) == CHOOSE f \in Injection(1 .. k, Blocks \ used) : TRUE
<1>0. /\ Types /\ Books
      /\ own \in [Requests -> Nat] /\ own' \in [Requests -> Nat]
      /\ pages \in [Requests -> Seq(Blocks)]
      /\ \A r \in Requests : Len(pages[r]) = own[r]
      /\ Blocks' = Blocks
  BY DEF IInv, Types, PoolTypes, Shelves, Apart, KvStep, Blocks, NumBlocks
<1>10. \A r, q \in Requests : \A i \in 1 .. own[r] : \A j \in 1 .. own[q] :
          pages[r][i] = pages[q][j] => r = q /\ i = j
  BY Zenon DEF Shelves, Apart
<1>11. \A r \in Requests : own[r] \in Nat
  BY <1>0
<1>1. Pages => pages' = [r \in Requests |-> IF own'[r] <= Len(pages[r]) THEN SubSeq(pages[r], 1, own'[r])
                                            ELSE pages[r] \o fresh(own'[r] - Len(pages[r]))]
  BY DEF Pages
<1>. HIDE DEF fresh
<1>2. DOMAIN slab' = DOMAIN slab
  BY DEF KvStep, Writes, WritePaged
<1>3. SUFFICES /\ Apart(pages', own')
               /\ \A r \in Requests : state'[r] # "finished" =>
                     own[r] <= own'[r] /\ \A i \in 1 .. own[r] : pages'[r][i] = pages[r][i]
  <2>1. Apart(pages', own') => Apart(pages, own)'
    BY <1>0 DEF Apart
  <2>. QED
    BY <1>0, <1>2, <2>1 DEF Shelves, KvStep
<1>4. ASSUME NEW r \in Requests, Pages, own'[r] = own[r] PROVE pages'[r] = pages[r]
  <2>1. pages'[r] = IF own'[r] <= Len(pages[r]) THEN SubSeq(pages[r], 1, own'[r])
                    ELSE pages[r] \o fresh(own'[r] - Len(pages[r]))
    BY <1>1, <1>4
  <2>2. own'[r] = Len(pages[r]) /\ own'[r] \in Nat /\ pages[r] \in Seq(Blocks)
    BY <1>0, <1>4
  <2>3. pages'[r] = SubSeq(pages[r], 1, Len(pages[r]))
    BY <2>1, <2>2
  <2>. QED
    BY <2>2, <2>3, SubSeqWhole
<1>5. CASE own' = own
  <2>1. \A r \in Requests : pages'[r] = pages[r]
    <3>1. CASE Pages
      BY <1>4, <1>5, <3>1
    <3>2. CASE pages' = pages
      BY <3>2
    <3>. QED
      BY <3>1, <3>2, Zenon DEF KvStep, Follow
  <2>2. pages' \in [Requests -> Seq(Blocks)]
    <3>1. CASE Pages
      <4>1. DOMAIN pages' = Requests
        BY <1>1, <3>1
      <4>2. pages' = [r \in Requests |-> pages'[r]]
        BY <1>1, <3>1
      <4>. QED
        BY <1>0, <2>1, <4>2
    <3>2. CASE pages' = pages
      BY <1>0, <3>2
    <3>. QED
      BY <3>1, <3>2, Zenon DEF KvStep, Follow
  <2>3. pages' = pages
    BY <1>0, <2>1, <2>2
  <2>. QED
    BY <1>0, <1>5, <1>10, <1>11, <2>3 DEF Apart
<1>6. ASSUME own' # own PROVE Pages
  BY <1>6, Zenon DEF KvStep, Follow
<1>7. ASSUME NEW r \in Requests, Frees(r), own' # own
      PROVE  /\ Apart(pages', own')
             /\ \A q \in Requests : state'[q] # "finished" =>
                   own[q] <= own'[q] /\ \A i \in 1 .. own[q] : pages'[q][i] = pages[q][i]
  <2>0. Pages
    BY <1>6, <1>7
  <2>1. own'[r] = 0 /\ state'[r] = "finished" /\ \A q \in Requests \ {r} : own'[q] = own[q]
    BY <1>0, <1>7 DEF Frees
  <2>2. pages'[r] = <<>>
    <3>1. pages'[r] = SubSeq(pages[r], 1, 0)
      <4>1. pages'[r] = IF own'[r] <= Len(pages[r]) THEN SubSeq(pages[r], 1, own'[r])
                        ELSE pages[r] \o fresh(own'[r] - Len(pages[r]))
        BY <1>1, <2>0
      <4>2. own[r] \in Nat /\ Len(pages[r]) = own[r]
        BY <1>0
      <4>3. own'[r] <= Len(pages[r])
        BY <2>1, <4>2
      <4>. QED
        BY <2>1, <4>1, <4>3, Zenon
    <3>. QED
      BY <3>1, SubSeqEmpty
  <2>3. \A q \in Requests \ {r} : pages'[q] = pages[q]
    BY <1>4, <2>0, <2>1
  <2>4. pages' \in [Requests -> Seq(Blocks)]
    <3>1. pages' = [q \in Requests |-> pages'[q]]
      BY <1>1, <2>0
    <3>2. \A q \in Requests : pages'[q] \in Seq(Blocks)
      <4>1. <<>> \in Seq(Blocks)
        OBVIOUS
      <4>. QED
        BY <1>0, <2>2, <2>3, <4>1, Zenon
    <3>. QED
      BY <3>1, <3>2
  <2>5. \A q \in Requests : Len(pages'[q]) = own'[q]
    BY <1>0, <2>1, <2>2, <2>3, EmptySeq
  <2>6. ASSUME NEW q \in Requests, NEW i \in 1 .. own'[q] PROVE i \in 1 .. own[q] /\ pages'[q][i] = pages[q][i]
    <3>1. q # r
      BY <2>1, <2>6
    <3>. QED
      BY <2>1, <2>3, <2>6, <3>1
  <2>7. ASSUME NEW q \in Requests, NEW t \in Requests, NEW i \in 1 .. own'[q], NEW j \in 1 .. own'[t],
               pages'[q][i] = pages'[t][j]
        PROVE  q = t /\ i = j
    <3>1. i \in 1 .. own[q] /\ j \in 1 .. own[t] /\ pages[q][i] = pages[t][j]
      BY <2>6, <2>7
    <3>. QED
      BY <1>10, <3>1
  <2>8. Apart(pages', own')
    BY <2>4, <2>5, <2>7 DEF Apart
  <2>9. ASSUME NEW q \in Requests, state'[q] # "finished" PROVE own'[q] = own[q] /\ own[q] \in Nat /\ pages'[q] = pages[q]
    BY <1>0, <2>1, <2>3, <2>9
  <2>. QED
    BY <2>8, <2>9
<1>8. ASSUME NEW r \in Requests, Grows(r), own' # own
      PROVE  /\ Apart(pages', own')
             /\ \A q \in Requests : state'[q] # "finished" =>
                   own[q] <= own'[q] /\ \A i \in 1 .. own[q] : pages'[q][i] = pages[q][i]
  <2>0. Pages
    BY <1>6, <1>8
  <2>1. PICK n \in Nat : n <= free /\ own' = [own EXCEPT ![r] = @ + n]
    BY <1>8 DEF Grows
  <2>2. own'[r] = own[r] + n /\ own[r] \in Nat /\ \A q \in Requests \ {r} : own'[q] = own[q]
    BY <1>0, <2>1
  <2>3. n # 0
    <3>. SUFFICES ASSUME n = 0 PROVE FALSE
      OBVIOUS
    <3>1. \A q \in Requests : own'[q] = own[q]
      BY <2>2
    <3>. QED
      BY <1>0, <1>8, <3>1
  <2>4. pages'[r] = pages[r] \o fresh(n)
    <3>1. pages'[r] = IF own'[r] <= Len(pages[r]) THEN SubSeq(pages[r], 1, own'[r])
                      ELSE pages[r] \o fresh(own'[r] - Len(pages[r]))
      BY <1>1, <2>0
    <3>2. Len(pages[r]) = own[r]
      BY <1>0
    <3>3. own'[r] - Len(pages[r]) = n /\ ~ (own'[r] <= Len(pages[r]))
      BY <2>2, <2>3, <3>2
    <3>. QED
      BY <3>1, <3>3, Zenon
  <2>5. fresh(n) \in Injection(1 .. n, Blocks \ used)
    <3>1. \E f : f \in Injection(1 .. n, Blocks \ used)
      BY <1>0, <2>1, SpareBlocks
    <3>. QED
      BY <3>1, Zenon DEF fresh
  <2>6. PICK g : g = fresh(n)
    OBVIOUS
  <2>7. g \in [1 .. n -> Blocks] /\ (\A i \in 1 .. n : g[i] \notin used) /\ \A i, j \in 1 .. n : g[i] = g[j] => i = j
    BY <2>5, <2>6 DEF Injection, IsInjective
  <2>8. g \in Seq(Blocks) /\ Len(g) = n
    BY <2>7
  <2>9. /\ pages'[r] \in Seq(Blocks) /\ Len(pages'[r]) = own'[r]
        /\ \A i \in 1 .. own'[r] : pages'[r][i] = IF i <= own[r] THEN pages[r][i] ELSE g[i - own[r]]
    <3>1. pages[r] \in Seq(Blocks) /\ Len(pages[r]) = own[r]
      BY <1>0
    <3>2. /\ pages[r] \o g \in Seq(Blocks)
          /\ Len(pages[r] \o g) = Len(pages[r]) + Len(g)
          /\ \A i \in 1 .. Len(pages[r]) + Len(g) : (pages[r] \o g)[i] =
                IF i <= Len(pages[r]) THEN pages[r][i] ELSE g[i - Len(pages[r])]
      <4>1. PICK s : s = pages[r]
        OBVIOUS
      <4>2. s \in Seq(Blocks) /\ g \in Seq(Blocks)
        BY <2>8, <3>1, <4>1
      <4>3. /\ s \o g \in Seq(Blocks)
            /\ Len(s \o g) = Len(s) + Len(g)
            /\ \A i \in 1 .. Len(s) + Len(g) : (s \o g)[i] = IF i <= Len(s) THEN s[i] ELSE g[i - Len(s)]
        BY <4>2, ConcatProperties
      <4>. QED
        BY <4>1, <4>3, Zenon
    <3>3. pages'[r] = pages[r] \o g
      BY <2>4, <2>6, Zenon
    <3>4. own'[r] = Len(pages[r]) + Len(g)
      BY <2>2, <2>8, <3>1
    <3>5. pages'[r] \in Seq(Blocks) /\ Len(pages'[r]) = own'[r]
      BY <3>2, <3>3, <3>4
    <3>6. \A i \in 1 .. own'[r] : pages'[r][i] = IF i <= own[r] THEN pages[r][i] ELSE g[i - own[r]]
      <4>1. \A i \in 1 .. Len(pages[r]) + Len(g) :
               (pages[r] \o g)[i] = IF i <= Len(pages[r]) THEN pages[r][i] ELSE g[i - Len(pages[r])]
        BY <3>2
      <4>2. Len(pages[r]) = own[r]
        BY <3>1
      <4>. QED
        BY <3>3, <3>4, <4>1, <4>2, Zenon
    <3>. QED
      BY <3>5, <3>6
  <2>10. \A q \in Requests \ {r} : pages'[q] = pages[q]
    BY <1>4, <2>0, <2>2
  <2>11. pages' \in [Requests -> Seq(Blocks)]
    <3>1. pages' = [q \in Requests |-> pages'[q]]
      BY <1>1, <2>0
    <3>2. \A q \in Requests : pages'[q] \in Seq(Blocks)
      BY <1>0, <2>9, <2>10
    <3>. QED
      BY <3>1, <3>2
  <2>12. \A q \in Requests : Len(pages'[q]) = own'[q]
    BY <1>0, <2>2, <2>9, <2>10
  <2>13. \A q \in Requests : \A i \in 1 .. own[q] : pages[q][i] \in used /\ pages'[q][i] = pages[q][i]
    <3>. TAKE q \in Requests
    <3>. TAKE i \in 1 .. own[q]
    <3>1. pages[q] \in Seq(Blocks) /\ DOMAIN pages[q] = 1 .. own[q]
      BY <1>0, LenProperties
    <3>2. pages[q][i] \in Range(pages[q])
      BY <3>1 DEF Range
    <3>3. pages[q][i] \in used
      BY <3>2
    <3>4. pages'[q][i] = pages[q][i]
      <4>1. CASE q = r
        <5>1. i \in 1 .. own'[r] /\ i <= own[r]
          BY <2>2, <4>1
        <5>. QED
          BY <2>9, <4>1, <5>1
      <4>. QED
        BY <2>10, <4>1
    <3>. QED
      BY <3>3, <3>4
  <2>14. ASSUME NEW q \in Requests, NEW i \in 1 .. own'[q]
         PROVE  \/ i \in 1 .. own[q] /\ pages'[q][i] = pages[q][i] /\ pages'[q][i] \in used
                \/ q = r /\ i - own[r] \in 1 .. n /\ pages'[q][i] = g[i - own[r]] /\ pages'[q][i] \notin used
    <3>1. CASE i \in 1 .. own[q]
      <4>1. pages'[q][i] = pages[q][i] /\ pages[q][i] \in used
        BY <2>13, <3>1
      <4>. QED
        BY <3>1, <4>1
    <3>2. CASE i \notin 1 .. own[q]
      <4>1. q = r
        BY <2>2, <2>14, <3>2
      <4>2. i - own[r] \in 1 .. n
        BY <2>2, <2>14, <3>2, <4>1
      <4>3. pages'[r][i] = g[i - own[r]]
        BY <2>2, <2>9, <2>14, <3>2, <4>1
      <4>. QED
        BY <2>7, <4>1, <4>2, <4>3
    <3>. QED
      BY <3>1, <3>2
  <2>. HIDE DEF used
  <2>15. ASSUME NEW q \in Requests, NEW t \in Requests, NEW i \in 1 .. own'[q], NEW j \in 1 .. own'[t],
                pages'[q][i] = pages'[t][j]
         PROVE  q = t /\ i = j
    <3>1. CASE pages'[q][i] \in used
      <4>1. /\ i \in 1 .. own[q] /\ pages'[q][i] = pages[q][i]
            /\ j \in 1 .. own[t] /\ pages'[t][j] = pages[t][j]
        BY <2>14, <2>15, <3>1
      <4>2. pages[q][i] = pages[t][j]
        BY <2>15, <4>1
      <4>. QED
        BY <1>10, <4>1, <4>2
    <3>2. CASE pages'[q][i] \notin used
      <4>1. /\ q = r /\ i - own[r] \in 1 .. n /\ pages'[q][i] = g[i - own[r]]
            /\ t = r /\ j - own[r] \in 1 .. n /\ pages'[t][j] = g[j - own[r]]
        BY <2>14, <2>15, <3>2
      <4>2. i - own[r] = j - own[r]
        BY <2>7, <2>15, <4>1
      <4>3. i \in Int /\ j \in Int
        BY <1>0
      <4>. QED
        BY <2>2, <4>1, <4>2, <4>3
    <3>. QED
      BY <3>1, <3>2
  <2>16. Apart(pages', own')
    BY <2>11, <2>12, <2>15 DEF Apart
  <2>17. \A q \in Requests : own[q] <= own'[q]
    <3>. TAKE q \in Requests
    <3>1. own[q] \in Nat
      BY <1>11
    <3>2. own'[q] = own[q] + n \/ own'[q] = own[q]
      BY <2>2
    <3>. QED
      BY <3>1, <3>2
  <2>18. \A q \in Requests : \A i \in 1 .. own[q] : pages'[q][i] = pages[q][i]
    BY <2>13
  <2>. QED
    BY <2>16, <2>17, <2>18, Zenon
<1>9. own' = own \/ \E r \in Requests : Frees(r) \/ Grows(r)
  <2>1. ASSUME NEW e \in Entries, Writes(e) PROVE own' = own \/ \E r \in Requests : Frees(r)
    BY <2>1, EntryFields DEF Writes
  <2>. QED
    BY <2>1 DEF KvStep
<1>. QED
  BY <1>5, <1>7, <1>8, <1>9

(* The slot of a position in the table of its request. *)
Where(r, p) == <<pages[r][(p \div BlockSize) + 1], p % BlockSize>>

(* Every position that was forwarded for a request that is not finished has
   its row in the request's own table. *)
Rows ==
    \A r \in Requests : state[r] # "finished" =>
        \A p \in forwarded[r] : p \div BlockSize < own[r] /\ slab[Where(r, p)] = <<r, p>>

KvInv == Paged => Shelves /\ Rows

(* Quotient and remainder of a position. *)
LEMMA Division ==
    ASSUME NEW b \in Nat \ {0}, NEW p \in Nat
    PROVE  \E q \in Nat : \E k \in 0 .. b - 1 : q = p \div b /\ k = p % b /\ p = b * q + k
<1>. DEFINE q == p \div b
            k == p % b
<1>1. q \in Int /\ k \in 0 .. b - 1 /\ p + 0 = b * q + k
  <2>1. p \in Int /\ b \in Int /\ b > 0
    OBVIOUS
  <2>. QED
    BY <2>1
<1>2. q = p \div b /\ k = p % b
  OBVIOUS
<1>. HIDE DEF q, k
<1>3. q \in Nat
  <2>1. SUFFICES ASSUME q + 1 <= 0 PROVE FALSE
    BY <1>1
  <2>2. (q + 1) * b <= 0 * b
    BY <1>1, <2>1, MultMono
  <2>3. (q + 1) * b = b * q + b /\ 0 * b = 0 /\ b * q \in Int
    BY <1>1
  <2>. QED
    BY <1>1, <2>2, <2>3
<1>4. p = b * q + k
  BY <1>1
<1>. QED
  BY <1>1, <1>2, <1>3, <1>4

(* A position below n blocks lies in one of them. *)
LEMMA InBlocks ==
    ASSUME NEW b \in Nat \ {0}, NEW p \in Nat, NEW n \in Nat, p < n * b
    PROVE  p \div b < n
<1>1. PICK d \in Nat, k \in 0 .. b - 1 : d = p \div b /\ k = p % b /\ p = b * d + k
  BY Division
<1>2. d < n
  <2>1. SUFFICES ASSUME n <= d PROVE FALSE
    OBVIOUS
  <2>2. n * b <= d * b
    BY <2>1, MultMono
  <2>3. b * d = d * b /\ d * b \in Nat /\ n * b \in Nat
    OBVIOUS
  <2>4. p = b * d + k /\ k \in Nat
    BY <1>1
  <2>. QED
    BY <2>2, <2>3, <2>4
<1>. QED
  BY <1>1, <1>2, Zenon

(* Where a position of a single table goes. *)
LEMMA SlotOfOne ==
    ASSUME NEW t, NEW p
    PROVE  Slot(<<t>>, p) = IF p \div BlockSize < Len(t) THEN <<t[(p \div BlockSize) + 1], p % BlockSize>> ELSE <<>>
<1>. DEFINE long == {i \in DOMAIN <<t>> : p \div BlockSize < Len((<<t>>)[i])}
            first == CHOOSE i \in long : \A j \in long : i <= j
<1>1. DOMAIN <<t>> = {1} /\ (<<t>>)[1] = t
  OBVIOUS
<1>2. long = IF p \div BlockSize < Len(t) THEN {1} ELSE {}
  BY <1>1
<1>3. Slot(<<t>>, p) = IF long = {} THEN <<>> ELSE <<(<<t>>)[first][(p \div BlockSize) + 1], p % BlockSize>>
  BY Zenon DEF Slot
<1>. HIDE DEF long
<1>4. long = {1} => first = 1
  <2>. SUFFICES ASSUME long = {1} PROVE first = 1
    OBVIOUS
  <2>1. 1 \in long /\ \A j \in long : 1 <= j
    OBVIOUS
  <2>2. first \in long
    BY <2>1, Zenon
  <2>. QED
    BY <2>2
<1>. HIDE DEF first
<1>. QED
  BY <1>1, <1>2, <1>3, <1>4

(* Positions of running requests never share a slot. *)
LEMMA SlotsApart ==
    ASSUME SchedulerAssumption, RunnerAssumption, Types, Shelves,
           NEW r \in Requests, NEW q \in Requests, NEW p \in Nat, NEW x \in Nat,
           p \div BlockSize < own[r], x \div BlockSize < own[q], Where(r, p) = Where(q, x)
    PROVE  r = q /\ p = x
<1>0. BlockSize \in Nat \ {0} /\ own[r] \in Nat /\ own[q] \in Nat
  BY Parameters DEF Types, PoolTypes
<1>1. PICK c \in Nat, k \in 0 .. BlockSize - 1 : c = p \div BlockSize /\ k = p % BlockSize /\ p = BlockSize * c + k
  BY <1>0, Division
<1>2. PICK d \in Nat, m \in 0 .. BlockSize - 1 : d = x \div BlockSize /\ m = x % BlockSize /\ x = BlockSize * d + m
  BY <1>0, Division
<1>3. Where(r, p) = <<pages[r][c + 1], k>> /\ Where(q, x) = <<pages[q][d + 1], m>>
  BY <1>1, <1>2, Zenon DEF Where
<1>4. pages[r][c + 1] = pages[q][d + 1] /\ k = m
  <2>1. <<pages[r][c + 1], k>> = <<pages[q][d + 1], m>>
    BY <1>3, Zenon
  <2>. QED
    BY <2>1
<1>5. c < own[r] /\ d < own[q]
  BY <1>1, <1>2, Zenon
<1>6. c + 1 \in 1 .. own[r] /\ d + 1 \in 1 .. own[q]
  BY <1>0, <1>5
<1>7. r = q /\ c + 1 = d + 1
  <2>1. \A a, b \in Requests : \A i \in 1 .. own[a] : \A j \in 1 .. own[b] :
            pages[a][i] = pages[b][j] => a = b /\ i = j
    BY Zenon DEF Shelves, Apart
  <2>. QED
    BY <1>4, <1>6, <2>1
<1>8. p = BlockSize * c + k /\ x = BlockSize * d + m /\ c = d
  BY <1>1, <1>2, <1>7
<1>. QED
  BY <1>4, <1>7, <1>8

(* The slots are slots of the slab. *)
LEMMA SlotsExist ==
    ASSUME SchedulerAssumption, RunnerAssumption, Types, Shelves,
           NEW r \in Requests, NEW p \in Nat, p \div BlockSize < own[r]
    PROVE  /\ Where(r, p) \in DOMAIN slab
           /\ Slot(<<pages[r]>>, p) = Where(r, p)
<1>0. BlockSize \in Nat \ {0} /\ own[r] \in Nat
  BY Parameters DEF Types, PoolTypes
<1>1. p \div BlockSize \in Nat /\ p % BlockSize \in 0 .. BlockSize - 1
  <2>1. PICK c \in Nat, k \in 0 .. BlockSize - 1 : c = p \div BlockSize /\ k = p % BlockSize
    BY <1>0, Division
  <2>. QED
    BY <2>1, Zenon
<1>2. pages[r] \in Seq(Blocks) /\ Len(pages[r]) = own[r] /\ DOMAIN slab = Blocks \X (0 .. BlockSize - 1)
  BY DEF Shelves, Apart
<1>3. (p \div BlockSize) + 1 \in 1 .. Len(pages[r])
  BY <1>0, <1>1, <1>2
<1>4. pages[r][(p \div BlockSize) + 1] \in Blocks
  BY <1>2, <1>3, ElementOfSeq
<1>5. Where(r, p) \in DOMAIN slab
  BY <1>1, <1>2, <1>4 DEF Where
<1>6. Slot(<<pages[r]>>, p) = Where(r, p)
  BY <1>2, SlotOfOne DEF Where
<1>. QED
  BY <1>5, <1>6

(* What a pass writes into a slot of a running request: the row of the
   position, or nothing. *)
LEMMA PassWrites ==
    ASSUME SchedulerAssumption, RunnerAssumption, Types, Shelves, Paged,
           NEW e \in Entries, e.hi <= own[e.rid] * BlockSize,
           NEW r \in Requests, NEW p \in Nat, p \div BlockSize < own[r]
    PROVE  WritePaged(e)[Where(r, p)] =
             IF r = e.rid /\ p \in e.lo .. e.hi - 1 THEN <<r, p>> ELSE slab[Where(r, p)]
<1>. DEFINE s == Where(r, p)
            ps == {x \in e.lo .. e.hi - 1 : Slot(ActiveTables(e), x) = s}
<1>0. e.rid \in Requests /\ e.lo \in Nat /\ e.hi \in Nat
  BY EntryFields
<1>1. s \in DOMAIN slab
  BY SlotsExist
<1>2. WritePaged(e)[s] = IF ps = {} THEN slab[s] ELSE <<e.rid, CHOOSE x \in ps : \A y \in ps : y <= x>>
  BY <1>1 DEF WritePaged
<1>3. ASSUME NEW x \in e.lo .. e.hi - 1
      PROVE  x \in Nat /\ x \div BlockSize < own[e.rid] /\ Slot(ActiveTables(e), x) = Where(e.rid, x)
  <2>1. x \in Nat /\ x < e.hi
    BY <1>0
  <2>2. own[e.rid] \in Nat /\ BlockSize \in Nat \ {0}
    BY <1>0, Parameters DEF Types, PoolTypes
  <2>3. own[e.rid] * BlockSize \in Nat
    BY <2>2
  <2>4. x < own[e.rid] * BlockSize
    BY <1>0, <2>1, <2>3
  <2>5. x \div BlockSize < own[e.rid]
    BY <2>1, <2>2, <2>4, InBlocks
  <2>. QED
    BY <1>0, <2>1, <2>5, SlotsExist DEF ActiveTables
<1>4. \A x \in ps : r = e.rid /\ x = p
  BY <1>0, <1>3, SlotsApart
<1>5. CASE r = e.rid /\ p \in e.lo .. e.hi - 1
  <2>1. p \in ps
    BY <1>3, <1>5
  <2>. HIDE DEF ps
  <2>2. ps = {p}
    BY <1>4, <2>1
  <2>3. p <= p
    OBVIOUS
  <2>4. (CHOOSE x \in ps : \A y \in ps : y <= x) = p
    BY <2>2, <2>3
  <2>. HIDE DEF s
  <2>5. WritePaged(e)[s] = <<e.rid, p>>
    BY <1>2, <2>1, <2>4
  <2>. QED
    BY <1>5, <2>5 DEF s
<1>6. CASE ~ (r = e.rid /\ p \in e.lo .. e.hi - 1)
  <2>1. ps = {}
    BY <1>4, <1>6
  <2>. HIDE DEF ps, s
  <2>2. WritePaged(e)[s] = slab[s]
    BY <1>2, <2>1
  <2>. QED
    BY <1>6, <2>2 DEF s
<1>. QED
  BY <1>5, <1>6

(* The rows survive every step: a pass writes only slots of its own request,
   and what is kept of a table stays where it is. *)
LEMMA RowsFollow ==
    ASSUME SchedulerAssumption, RunnerAssumption, IInv, Types', Paged, Shelves, Rows, KvStep
    PROVE  Rows'
<1>. SUFFICES ASSUME NEW r \in Requests, state'[r] # "finished", NEW p \in forwarded'[r]
              PROVE  p \div BlockSize < own'[r] /\ slab'[Where(r, p)'] = <<r, p>>
  BY DEF Rows
<1>0. /\ Types /\ BatchOK
      /\ own[r] \in Nat /\ own'[r] \in Nat
      /\ forwarded \in [Requests -> SUBSET Nat]
      /\ p \in Nat
      /\ BlockSize \in Nat \ {0}
      /\ state[r] # "finished"
  BY Parameters DEF IInv, Types, PoolTypes, RequestTypes, KvStep
<1>1. own[r] <= own'[r] /\ \A i \in 1 .. own[r] : pages'[r][i] = pages[r][i]
  BY TablesFollow
<1>2. p \div BlockSize \in Nat
  <2>1. PICK c \in Nat, k \in 0 .. BlockSize - 1 : c = p \div BlockSize /\ k = p % BlockSize
    BY <1>0, Division
  <2>. QED
    BY <2>1, Zenon
<1>3. p \div BlockSize < own[r] => p \div BlockSize < own'[r] /\ Where(r, p)' = Where(r, p)
  <2>. SUFFICES ASSUME p \div BlockSize < own[r] PROVE p \div BlockSize < own'[r] /\ Where(r, p)' = Where(r, p)
    OBVIOUS
  <2>1. (p \div BlockSize) + 1 \in 1 .. own[r]
    BY <1>0, <1>2
  <2>2. pages'[r][(p \div BlockSize) + 1] = pages[r][(p \div BlockSize) + 1]
    BY <1>1, <2>1
  <2>3. Where(r, p)' = Where(r, p)
    BY <2>2 DEF Where
  <2>4. p \div BlockSize < own'[r]
    BY <1>0, <1>1, <1>2
  <2>. QED
    BY <2>3, <2>4
<1>4. p \in forwarded[r] => p \div BlockSize < own[r] /\ slab[Where(r, p)] = <<r, p>>
  BY <1>0 DEF Rows
<1>5. CASE UNCHANGED <<slab, forwarded>>
  <2>1. p \in forwarded[r]
    BY <1>5
  <2>2. Where(r, p)' = Where(r, p) /\ p \div BlockSize < own'[r] /\ slab[Where(r, p)] = <<r, p>>
    BY <1>3, <1>4, <2>1
  <2>3. slab'[Where(r, p)'] = slab[Where(r, p)]
    BY <1>5, <2>2, Zenon
  <2>. QED
    BY <2>2, <2>3, Zenon
<1>6. ASSUME NEW e \in Entries, Writes(e)
      PROVE  p \div BlockSize < own'[r] /\ slab'[Where(r, p)'] = <<r, p>>
  <2>1. /\ Running(e) /\ slab' = WritePaged(e)
        /\ forwarded' = [forwarded EXCEPT ![e.rid] = @ \cup e.lo .. e.hi - 1]
    BY <1>6 DEF Writes
  <2>2. e.rid \in Requests /\ e.lo \in Nat /\ e.hi \in Nat /\ EntryOK(e)
    BY <1>0, <2>1, RunningFacts
  <2>3. e.hi <= own[e.rid] * BlockSize
    <3>1. e.hi <= TableLen(e.rid) * BlockSize
      BY <2>2 DEF EntryOK, Paged
    <3>2. TableLen(e.rid) = own[e.rid]
      <4>1. own[e.rid] \in Nat /\ shared[e.rid] = 0
        BY <1>0, <2>2 DEF Types, PoolTypes, Shelves
      <4>. QED
        BY <4>1 DEF TableLen
    <3>. QED
      BY <3>1, <3>2
  <2>4. p \in forwarded[r] \/ (r = e.rid /\ p \in e.lo .. e.hi - 1)
    BY <1>0, <2>1, <2>2
  <2>5. p \div BlockSize < own[r]
    <3>1. CASE p \in forwarded[r]
      BY <1>4, <3>1
    <3>2. CASE r = e.rid /\ p \in e.lo .. e.hi - 1
      <4>1. own[r] * BlockSize \in Nat /\ p < e.hi
        BY <1>0, <2>2, <3>2
      <4>2. p < own[r] * BlockSize
        BY <1>0, <2>2, <2>3, <3>2, <4>1
      <4>. QED
        BY <1>0, <4>2, InBlocks
    <3>. QED
      BY <2>4, <3>1, <3>2
  <2>6. WritePaged(e)[Where(r, p)] = IF r = e.rid /\ p \in e.lo .. e.hi - 1 THEN <<r, p>> ELSE slab[Where(r, p)]
    BY <1>0, <2>3, <2>5, PassWrites
  <2>7. WritePaged(e)[Where(r, p)] = <<r, p>>
    BY <1>4, <2>4, <2>6
  <2>8. slab'[Where(r, p)'] = WritePaged(e)[Where(r, p)]
    BY <1>3, <2>1, <2>5, Zenon
  <2>. QED
    BY <1>3, <2>5, <2>7, <2>8, Zenon
<1>. QED
  BY <1>5, <1>6 DEF KvStep

(* In every state of the Python engine with a paged cache and no prefix cache
   the tables are disjoint and hold the rows their requests forwarded. *)
THEOREM PagesKept == RunnerSpec => []KvInv
<1>1. RunnerInit => KvInv
  <2>. SUFFICES ASSUME RunnerInit, Paged PROVE Shelves /\ Rows
    BY DEF KvInv
  <2>1. /\ \A r \in Requests : own[r] = 0 /\ shared[r] = 0 /\ pages[r] = <<>> /\ forwarded[r] = {}
        /\ cached = 0
        /\ DOMAIN slab = Blocks \X (0 .. BlockSize - 1)
        /\ pages = [r \in Requests |-> <<>>]
    BY DEF RunnerInit, Init
  <2>2. <<>> \in Seq(Blocks) /\ Len(<<>>) = 0
    OBVIOUS
  <2>3. Apart(pages, own)
    BY <2>1, <2>2 DEF Apart
  <2>. QED
    BY <2>1, <2>3 DEF Shelves, Rows
<1>2. IInv /\ IInv' /\ KvInv /\ [RunnerNext]_runnerVars => KvInv'
  <2>. SUFFICES ASSUME IInv, IInv', KvInv, [RunnerNext]_runnerVars, Paged' PROVE (Shelves /\ Rows)'
    BY DEF KvInv
  <2>1. CASE RunnerNext
    <3>1. conf' = conf
      <4>1. Types /\ Progress /\ BatchOK /\ Books
        BY DEF IInv
      <4>2. AnyStep
        BY <2>1, <4>1, SchedulerAssumption, RunnerAssumption, AllSteps
      <4>. QED
        BY <4>1, <4>2, SchedulerAssumption, RunnerAssumption, ConfSame
    <3>2. Paged /\ Shelves /\ Rows
      BY <3>1 DEF Paged, UseKv, KvInv
    <3>3. KvStep
      BY <2>1, <3>2, SchedulerAssumption, RunnerAssumption, KvSteps
    <3>4. Types'
      BY DEF IInv
    <3>5. Shelves'
      BY <3>2, <3>3, <3>4, SchedulerAssumption, RunnerAssumption, TablesFollow
    <3>6. Rows'
      BY <3>2, <3>3, <3>4, SchedulerAssumption, RunnerAssumption, RowsFollow
    <3>. QED
      BY <3>5, <3>6
  <2>2. CASE UNCHANGED runnerVars
    <3>1. UNCHANGED <<conf, own, shared, cached, pages, slab, forwarded, state>>
      BY <2>2 DEF runnerVars, vars, runnerOnly, kvVars, poolVars, requestVars
    <3>2. Paged /\ Shelves /\ Rows
      BY <3>1 DEF Paged, UseKv, KvInv
    <3>. QED
      BY <3>1, <3>2 DEF Shelves, Apart, Rows, Where, Blocks, NumBlocks
  <2>. QED
    BY <2>1, <2>2
<1>. QED
  BY <1>1, <1>2, EngineKept, PTL DEF RunnerSpec

(* With a pool that any batch fits and until a pass fails, a decode pass gathers the rows of
   its own request, each from its own position, however the blocks went round
   between requests that ran and finished before. *)
THEOREM OwnRows == RunnerSpec => []KvOwn
<1>1. IInv /\ KvInv /\ ForwardedBeforeRead => KvOwn
  <2>. SUFFICES ASSUME IInv, KvInv, ForwardedBeforeRead, Paged, ~ (faults > 0), Fits,
                       NEW e \in Range(batch), Running(e), NEW p \in 0 .. e.lo - 1
                PROVE  ReadPaged(e)[p] = <<e.rid, p>>
    BY DEF KvOwn
  <2>0. Types /\ BatchOK /\ Shelves /\ Rows /\ UseKv
    BY DEF IInv, KvInv, Paged
  <2>9. stranded = {}
    BY DEF IInv, Stranding, Paged
  <2>1. e \in Entries
    BY <2>0, Lengths DEF Running
  <2>2. e.rid \in Requests /\ e.lo \in Nat /\ EntryOK(e)
    BY <2>0, <2>1, SchedulerAssumption, RunningFacts
  <2>3. p \in Nat /\ p \in forwarded[e.rid]
    BY <2>0, <2>2, <2>9 DEF ForwardedBeforeRead
  <2>4. state[e.rid] # "finished"
    BY <2>2 DEF EntryOK
  <2>5. p \div BlockSize < own[e.rid] /\ slab[Where(e.rid, p)] = <<e.rid, p>>
    BY <2>0, <2>2, <2>3, <2>4 DEF Rows
  <2>6. Slot(<<pages[e.rid]>>, p) = Where(e.rid, p)
    BY <2>0, <2>2, <2>3, <2>5, SchedulerAssumption, RunnerAssumption, SlotsExist
  <2>7. Where(e.rid, p) # <<>>
    BY DEF Where
  <2>8. ReadPaged(e)[p] = IF Slot(<<pages[e.rid]>>, p) = <<>> THEN NoRow ELSE slab[Slot(<<pages[e.rid]>>, p)]
    BY DEF ReadPaged
  <2>. QED
    BY <2>5, <2>6, <2>7, <2>8, Zenon
<1>. QED
  BY <1>1, EngineKept, PagesKept, WrittenBeforeRead, PTL

-----------------------------------------------------------------------------
(* Admission. *)

(* The queue as the engine's callers see it: whoever is in `running` takes one
   of the places of the batch, also a request that failed or has finished and
   waits to be reaped. *)
Admission == INSTANCE PriorityAdmission WITH
    active <- Range(running), arrived <- {q \in Requests : state[q] # "new"}

(* Only a request that has arrived changes its state, unless it arrives, and
   none is forgotten. *)
LEMMA ArrivedStay ==
    ASSUME SchedulerAssumption, RunnerAssumption, Types, BatchOK, Books,
           \/ QuietStep
           \/ \E i \in DOMAIN running : ReapStep(i)
           \/ \E r \in Requests : SkipStep(r)
           \/ \E r \in Requests : \E e \in Entries : \E n \in Nat : Scheduled(r, e, n)
           \/ \E e \in Entries : \E n \in Nat : Grown(e, n)
           \/ \E e \in Entries : LostStep(e)
           \/ \E e \in Entries : WalkStep(e)
    PROVE  /\ waiting' = waiting
           /\ \A q \in Requests : state'[q] # "new" <=> state[q] # "new"
<1>0. state \in [Requests -> {"new", "waiting", "prefill", "decode", "finished"}]
  BY DEF Types, QueueTypes
<1>1. CASE \/ QuietStep
           \/ \E i \in DOMAIN running : ReapStep(i)
           \/ \E e \in Entries : \E n \in Nat : Grown(e, n)
           \/ \E e \in Entries : LostStep(e)
  BY <1>1, SameRequests
<1>2. ASSUME NEW r \in Requests, SkipStep(r)
      PROVE  waiting' = waiting /\ \A q \in Requests : state'[q] # "new" <=> state[q] # "new"
  <2>1. /\ waiting' = waiting
        /\ \A q \in Requests : state'[q] = state[q] \/ (state[q] = "prefill" /\ state'[q] = "decode")
    BY <1>2, SkipTypes
  <2>. QED
    BY <2>1
<1>3. ASSUME NEW r \in Requests, NEW e \in Entries, NEW n \in Nat, Scheduled(r, e, n)
      PROVE  waiting' = waiting /\ \A q \in Requests : state'[q] # "new" <=> state[q] # "new"
  <2>1. /\ waiting' = waiting
        /\ state' = [state EXCEPT ![r] = IF e.samples THEN "decode" ELSE "prefill"]
        /\ state[r] # "new"
    BY <1>3 DEF Scheduled
  <2>2. /\ \A q \in Requests \ {r} : state'[q] = state[q]
        /\ state'[r] \in {"prefill", "decode"}
    BY <1>0, <2>1
  <2>. QED
    BY <2>1, <2>2
<1>4. ASSUME NEW e \in Entries, WalkStep(e)
      PROVE  waiting' = waiting /\ \A q \in Requests : state'[q] # "new" <=> state[q] # "new"
  <2>1. Walked(e)
    BY <1>4, WalkEnds
  <2>2. Running(e) /\ waiting' = waiting
    BY <2>1 DEF Walked
  <2>3. e.rid \in Requests /\ EntryOK(e)
    BY <2>2, RunningFacts
  <2>4. state[e.rid] # "new"
    BY <2>3 DEF EntryOK
  <2>5. /\ \A q \in Requests \ {e.rid} : state'[q] = state[q]
        /\ state'[e.rid] = state[e.rid] \/ state'[e.rid] = "finished"
    BY <2>1 DEF Walked
  <2>. QED
    BY <2>2, <2>4, <2>5
<1>. QED
  BY <1>1, <1>2, <1>3, <1>4

(* Steps of which no request arrives and none is admitted: the engine's list
   stays, or some requests leave it. *)
LEMMA OthersLeave ==
    ASSUME Types, waiting' = waiting, \A q \in Requests : state'[q] # "new" <=> state[q] # "new",
           Range(running') \subseteq Range(running)
    PROVE  Admission!ANext
<1>. DEFINE gone == Range(running) \ Range(running')
<1>0. gone \in SUBSET Requests
  BY Lengths DEF Types, QueueTypes, Range
<1>3. gone \subseteq Range(running) /\ Range(running') = Range(running) \ gone
  OBVIOUS
<1>1. {r \in Requests : state'[r] # "new"} = {r \in Requests : state[r] # "new"}
  OBVIOUS
<1>. HIDE DEF gone
<1>2. Admission!Leave(gone)
  BY <1>1, <1>3 DEF Admission!Leave
<1>. QED
  BY <1>0, <1>2 DEF Admission!ANext

(* Every step of an engine is a step of the queue, or none. *)
LEMMA AdmissionStep ==
    ASSUME SchedulerAssumption, RunnerAssumption, IInv, [RunnerNext]_runnerVars
    PROVE  [Admission!ANext]_(Admission!avars)
<1>0. /\ Types /\ Progress /\ BatchOK /\ Books
      /\ state \in [Requests -> {"new", "waiting", "prefill", "decode", "finished"}]
      /\ running \in Seq(Requests)
  BY DEF IInv, Types, QueueTypes
<1>1. ASSUME NEW r \in Requests, AddStep(r) PROVE Admission!ANext
  <2>1. /\ state[r] = "new" /\ state' = [state EXCEPT ![r] = "waiting"]
        /\ waiting' = waiting \cup {r} /\ running' = running
    BY <1>1 DEF AddStep, AddRequest
  <2>2. \A q \in Requests : state'[q] = IF q = r THEN "waiting" ELSE state[q]
    BY <1>0, <2>1
  <2>3. {q \in Requests : state'[q] # "new"} = {q \in Requests : state[q] # "new"} \cup {r}
    BY <2>2
  <2>4. Admission!Arrive(r)
    BY <2>1, <2>3 DEF Admission!Arrive
  <2>. QED
    BY <2>4 DEF Admission!ANext
<1>2. ASSUME NEW r \in Requests, NEW m \in 0 .. CachedTokens[r], NEW j \in Nat, AdmitStep(r, m, j)
      PROVE  Admission!ANext
  <2>1. /\ r \in waiting /\ (\A q \in waiting : Priority[r] <= Priority[q])
        /\ Len(running) < MaxBatch /\ waiting' = waiting \ {r}
        /\ state' = [state EXCEPT ![r] = IF m >= PromptLen[r] THEN "decode" ELSE "prefill"]
    BY <1>2 DEF AdmitStep, Admit
  <2>2. Range(running') = Range(running) \cup {r}
    BY <1>0, <1>2, AdmitTypes
  <2>3. state[r] = "waiting"
    BY <1>0, <2>1 DEF Types, QueueTypes
  <2>4. \A q \in Requests : state'[q] # "new" <=> state[q] # "new"
    <3>1. (\A q \in Requests \ {r} : state'[q] = state[q]) /\ state'[r] \in {"prefill", "decode"}
      BY <1>0, <2>1
    <3>. QED
      BY <2>3, <3>1
  <2>5. {q \in Requests : state'[q] # "new"} = {q \in Requests : state[q] # "new"}
    BY <2>4
  <2>6. Cardinality(Range(running)) < MaxBatch
    <3>1. IsFiniteSet(Range(running)) /\ Cardinality(Range(running)) <= Len(running)
      BY <1>0, RangeIsSmall
    <3>2. Cardinality(Range(running)) \in Nat /\ Len(running) \in Nat /\ MaxBatch \in Nat
      BY <1>0, <3>1, FS_CardinalityType, LenProperties DEF SchedulerAssumption
    <3>. QED
      BY <2>1, <3>1, <3>2
  <2>7. Admission!Serve(r)
    <3>1. r \in waiting /\ (\A q \in waiting : Priority[r] <= Priority[q]) /\ waiting' = waiting \ {r}
      BY <2>1
    <3>2. Admission!Cardinality(Range(running)) < MaxBatch
      BY <2>6 DEF Cardinality, Admission!Cardinality, IsFiniteSet, Admission!IsFiniteSet
    <3>3. UNCHANGED {q \in Requests : state[q] # "new"}
      BY <2>5
    <3>. QED
      BY <2>2, <3>1, <3>2, <3>3, Zenon DEF Admission!Serve
  <2>. QED
    BY <2>7 DEF Admission!ANext
<1>3. ASSUME NEW i \in DOMAIN running, ReapStep(i) PROVE Admission!ANext
  <2>1. Range(running') \subseteq Range(running)
    BY <1>0, <1>3, ReapTypes
  <2>2. waiting' = waiting /\ \A q \in Requests : state'[q] # "new" <=> state[q] # "new"
    BY <1>0, <1>3, ArrivedStay
  <2>. QED
    BY <1>0, <2>1, <2>2, OthersLeave
<1>4. CASE \/ QuietStep
           \/ \E r \in Requests : SkipStep(r)
           \/ \E r \in Requests : \E e \in Entries : \E n \in Nat : Scheduled(r, e, n)
           \/ \E e \in Entries : \E n \in Nat : Grown(e, n)
           \/ \E e \in Entries : LostStep(e)
  <2>1. running' = running
    <3>1. CASE QuietStep
      BY <3>1 DEF QuietStep, Schedule, ReapDone, AdmitDone, BuildDone, RunDone, queueVars
    <3>2. ASSUME NEW r \in Requests, SkipStep(r) PROVE running' = running
      BY <3>2 DEF SkipStep, PrefillEmpty, PrefillNoBudget, PrefillOOM, DecodeNoBudget, DecodeOOM, Skip, queueVars
    <3>3. ASSUME NEW r, NEW e, NEW n, Scheduled(r, e, n) PROVE running' = running
      BY <3>3 DEF Scheduled
    <3>4. ASSUME NEW e, NEW n, Grown(e, n) PROVE running' = running
      BY <3>4 DEF Grown, queueVars
    <3>5. ASSUME NEW e, LostStep(e) PROVE running' = running
      BY <3>5 DEF LostStep, LayerOOM, ForwardError, AbortStep, DropBatch, queueVars
    <3>. QED
      BY <1>4, <3>1, <3>2, <3>3, <3>4, <3>5
  <2>2. waiting' = waiting /\ \A q \in Requests : state'[q] # "new" <=> state[q] # "new"
    BY <1>0, <1>4, ArrivedStay
  <2>3. Range(running') \subseteq Range(running)
    BY <2>1
  <2>. QED
    BY <1>0, <2>2, <2>3, OthersLeave
<1>5. ASSUME NEW e \in Entries, WalkStep(e) PROVE Admission!ANext
  <2>1. Range(running') \subseteq Range(running)
    BY <1>0, <1>5, WalkEnds DEF Walked
  <2>2. waiting' = waiting /\ \A q \in Requests : state'[q] # "new" <=> state[q] # "new"
    BY <1>0, <1>5, ArrivedStay
  <2>. QED
    BY <1>0, <2>1, <2>2, OthersLeave
<1>8. ASSUME NEW e \in Entries, StrandStep(e) PROVE Admission!ANext
  <2>1. Strands(e)
    BY <1>0, <1>8, StrandTypes
  <2>2. waiting' = waiting /\ Range(running') \subseteq Range(running)
    BY <2>1 DEF Strands
  <2>3. e.rid \in Requests /\ EntryOK(e)
    BY <1>0, <2>1, RunningFacts DEF Strands
  <2>4. \A q \in Requests : state'[q] # "new" <=> state[q] # "new"
    BY <2>1, <2>3 DEF Strands, EntryOK
  <2>. QED
    BY <1>0, <2>2, <2>4, OthersLeave
<1>6. CASE UNCHANGED runnerVars
  BY <1>6 DEF runnerVars, vars, queueVars, requestVars, Admission!avars
<1>7. CASE RunnerNext
  <2>1. AnyStep
    BY <1>0, <1>7, AllSteps
  <2>. QED
    BY <1>1, <1>2, <1>3, <1>4, <1>5, <1>8, <2>1, Zenon DEF AnyStep
<1>. QED
  BY <1>6, <1>7

(* Both engines serve their callers as PriorityAdmission promises, whatever
   fails on the way (scheduler.rs:88-152, runner.rs:549-576): a request is
   queued once, admitted once and only while no waiting request outranks it, at
   most max_batch_size of them take a place, and a place is only given back by
   one that had it.  QueueRefines says the same of the scheduler's heap. *)
THEOREM EnginesAdmit == RunnerSpec => Admission!ASpec
<1>1. RunnerInit => Admission!AInit
  <2>. SUFFICES ASSUME RunnerInit PROVE Admission!AInit
    OBVIOUS
  <2>1. waiting = {} /\ running = <<>> /\ state = [r \in Requests |-> "new"]
    BY DEF RunnerInit, Init
  <2>2. Range(running) = {}
    BY <2>1 DEF Range
  <2>. QED
    BY <2>1, <2>2 DEF Admission!AInit
<1>2. IInv /\ [RunnerNext]_runnerVars => [Admission!ANext]_(Admission!avars)
  BY SchedulerAssumption, RunnerAssumption, AdmissionStep
<1>. QED
  BY <1>1, <1>2, EngineKept, PTL DEF RunnerSpec, Admission!ASpec
===============================================================================
