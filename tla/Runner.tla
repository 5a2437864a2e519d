-------------------------------- MODULE Runner --------------------------------
(***************************************************************************)
(* The two engines that call the scheduler, each over one block pool:      *)
(* InferenceRunner::step (runtime/src/engine/runner.rs) and                *)
(* InferenceLoop.step (python_runtime/engine/_inference_loop.py).  Any     *)
(* error in the walk over the batch leaves step() and drops the rest of    *)
(* it.  A finished request is inserted into the prefix cache, which keeps  *)
(* some of its blocks, and its table is released; no engine gets a block   *)
(* back from the cache (the runner never calls evict, and evict finds      *)
(* nothing in the Python cache; see RadixCache).  In the Rust runtime the  *)
(* insertion may panic instead: the task dies, the lock is released, and   *)
(* the engine goes on without the tables of the request.                   *)
(*                                                                         *)
(*   rust    with a KV cache each producing function ("layer") of a        *)
(*           request has a table of its own in the same pool; a finished   *)
(*           request leaves `running` at once, and its tables are only     *)
(*           released with a KV cache; its prefix cache is never hit       *)
(*           (RadixCache), so requests are admitted without cached tokens; *)
(*   python  no layer tables; requests come with hits; a finished request  *)
(*           releases its table and is left in `running` for schedule() to *)
(*           reap, which frees the table again.                            *)
(***************************************************************************)
EXTENDS Scheduler, Retain

CONSTANTS
    NumLayers,   \* kv_layer_ids.len()
    MaxFaults    \* bound: forward passes that fail or give no logits

ASSUME RunnerAssumption ==
    /\ NumLayers \in Nat
    /\ MaxFaults \in Nat

VARIABLES
    layer,       \* blocks in each layer table of each request
    nextLayer,   \* loop index of ensure_kv_layer_blocks
    cached,      \* blocks that only the prefix cache holds
    faults,      \* forward passes that have failed or given no logits
    stranded,    \* rust: finished requests whose tables were never flushed
    forwarded,   \* history: positions of each request that were forwarded
    pages,       \* python, KV: the block ids of each request's table
    slab         \* python, KV: the row in each slot <<block, offset>> of a layer's slab

kvVars == <<pages, slab>>
runnerOnly == <<layer, nextLayer, cached, faults, stranded, forwarded, kvVars>>
runnerVars == <<vars, runnerOnly>>

Layers == 1 .. NumLayers

(* The Python engine's cache manager, without a prefix cache: the blocks of
   every table come from the pool (app.py creates the server's engine so). *)
Paged == conf.engine = "python" /\ UseKv /\ ~ conf.prefix

Blocks == 0 .. NumBlocks - 1

NoRow == <<>>

RunnerInit ==
    /\ Init
    /\ layer = [r \in Requests |-> [l \in Layers |-> 0]]
    /\ nextLayer = 1
    /\ cached = 0
    /\ faults = 0
    /\ stranded = {}
    /\ forwarded = [r \in Requests |-> {}]
    /\ pages = [r \in Requests |-> <<>>]
    /\ slab = [b \in IF Paged THEN Blocks \X (0 .. BlockSize - 1) ELSE {} |-> NoRow]

(* The tables follow the scheduler's allocations and releases; block ids are
   interchangeable, so one choice of unused ones stands for whichever are
   popped. *)
Pages ==
    LET used == UNION {Range(pages[r]) : r \in Requests}
        popped(k) == CHOOSE f \in Injection(1 .. k, Blocks \ used) : TRUE
        table(r) == LET n == Len(pages[r]) IN
                    IF own'[r] <= n THEN SubSeq(pages[r], 1, own'[r])
                    ELSE pages[r] \o popped(own'[r] - n)
    IN  pages' = IF Paged THEN [r \in Requests |-> table(r)] ELSE pages

(* kv_target_tokens: as scheduler.rs for a single token, else the chunk. *)
KvTarget(e) == IF e.n = 1 THEN e.lo + 2 ELSE e.hi

LayerMissing(e) ==
    CeilDiv(Monus(KvTarget(e), layer[e.rid][nextLayer] * BlockSize), BlockSize)

Growing(e) ==
    /\ Running(e)
    /\ conf.engine = "rust" /\ UseKv
    /\ nextLayer \in Layers

EnsureLayer(e) ==
    /\ Growing(e)
    /\ LayerMissing(e) <= free
    /\ layer' = [layer EXCEPT ![e.rid][nextLayer] = @ + LayerMissing(e)]
    /\ free' = free - LayerMissing(e)
    /\ nextLayer' = nextLayer + 1
    /\ UNCHANGED <<queueVars, requestVars, tables, own, shared, batchVars, phase,
                   cached, faults, stranded, forwarded, slab>>

(* step() is left in the middle: the entries behind this one are lost. *)
DropBatch ==
    /\ phase' = "idle"
    /\ cursor' = 1
    /\ batch' = <<>>
    /\ prefillTokens' = 0
    /\ numDecode' = 0
    /\ nextLayer' = 1

(* The ? operator *)
AbortStep ==
    /\ DropBatch
    /\ UNCHANGED <<queueVars, requestVars, poolVars, layer, cached, stranded, forwarded, slab>>

LayerOOM(e) ==
    /\ Growing(e)
    /\ LayerMissing(e) > free
    /\ AbortStep
    /\ UNCHANGED faults

LayersReady == conf.engine = "python" \/ ~ UseKv \/ nextLayer = NumLayers + 1

(* _can_batch_forward: one pass for the whole batch if no request has a KV
   cache and all have as many tokens. *)
CanBatchForward ==
    /\ conf.engine = "python" /\ ~ UseKv
    /\ \A i, j \in DOMAIN batch : batch[i].hi - batch[i].lo = batch[j].hi - batch[j].lo

(* A pass for the whole batch fails before any of it is sampled. *)
ForwardError(e) ==
    /\ Running(e)
    /\ LayersReady
    /\ CanBatchForward => cursor = 1
    /\ faults < MaxFaults
    /\ faults' = faults + 1
    /\ AbortStep

-----------------------------------------------------------------------------
(* CacheManager: the rows a pass writes, one per position and layer; the
   layers do not differ in what is asked here. *)

(* Mistake: the pass addresses the tables of the whole batch. *)
ActiveTablesOfBatch(e) == [i \in DOMAIN batch |-> pages[batch[i].rid]]

(* _step_per_request: only the table of the request. *)
ActiveTables(e) == <<pages[e.rid]>>

(* write_paged: each position goes to the first table that is long enough,
   and nowhere if there is none. *)
Slot(ts, p) ==
    LET long == {i \in DOMAIN ts : p \div BlockSize < Len(ts[i])}
        first == CHOOSE i \in long : \A j \in long : i <= j
    IN  IF long = {} THEN <<>> ELSE <<ts[first][(p \div BlockSize) + 1], p % BlockSize>>

WritePaged(e) ==
    [s \in DOMAIN slab |->
        LET ps == {p \in e.lo .. e.hi - 1 : Slot(ActiveTables(e), p) = s}
        IN  IF ps = {} THEN slab[s] ELSE <<e.rid, CHOOSE p \in ps : \A q \in ps : q <= p>>]

(* read_paged, from the rows as they are before the pass of e writes its own *)
ReadPaged(e) == [p \in 0 .. e.lo - 1 |-> LET s == Slot(<<pages[e.rid]>>, p) IN IF s = <<>> THEN NoRow ELSE slab[s]]

(* set_kv_cache, forward_with_kv; _step_batch feeds all requests at once. *)
Pass(e) ==
    /\ LayersReady
    /\ nextLayer' = 1
    /\ slab' = IF Paged THEN WritePaged(e) ELSE slab
    /\ forwarded' = [forwarded EXCEPT ![e.rid] = @ \cup e.lo .. e.hi - 1]

Forward(e) == Pass(e) /\ UNCHANGED <<faults, stranded>>

ForwardOnly(e) ==
    /\ NoSample(e)
    /\ Forward(e)
    /\ UNCHANGED <<layer, cached>>

(* runner.rs: nothing is sampled from empty logits, and the entry comes again
   in the next step. *)
NoLogits(e) ==
    /\ conf.engine = "rust"
    /\ Running(e)
    /\ e.samples
    /\ Pass(e)
    /\ faults < MaxFaults
    /\ faults' = faults + 1
    /\ NextEntry
    /\ UNCHANGED <<queueVars, requestVars, poolVars, layer, cached, stranded>>

RecordMore(e) ==
    /\ RecordOutput(e, FALSE)
    /\ Forward(e)
    /\ NextEntry
    /\ UNCHANGED <<running, poolVars, layer, cached>>

Sum(f) == SumFunction(f)

(* flush_request for the main table, then for each layer table; the k blocks
   that the prefix cache has referenced stay out of the pool. *)
Flush(r, k) ==
    /\ tables' = tables \ {r}
    /\ own' = [own EXCEPT ![r] = 0]
    /\ layer' = [layer EXCEPT ![r] = [l \in Layers |-> 0]]
    /\ free' = free + (own[r] - k) + Sum(layer[r])
    /\ cached' = cached + k

(* What the prefix cache keeps of a finished request: all of the table if the
   cache was empty, else what is new in it, nothing if there is no cache.
   The Python cache may have been filled before the model starts. *)
Kept(r, k) ==
    /\ k <= own[r]
    /\ k > 0 => conf.prefix
    /\ conf.engine = "rust" /\ conf.prefix /\ cached = 0 => k = own[r]

(* runner.rs: the request is taken from `running`; without a KV cache
   nothing is flushed. *)
FinishRequest(e, k) ==
    /\ conf.engine = "rust"
    /\ RecordOutput(e, TRUE)
    /\ Forward(e)
    /\ NextEntry
    /\ Kept(e.rid, k)
    /\ running' = Retain(running, {e.rid})
    /\ IF UseKv THEN Flush(e.rid, k) ELSE UNCHANGED <<tables, own, free, layer, cached>>
    /\ UNCHANGED shared

(* The blocks in the prefix cache; without a KV cache they are still those of
   the tables, which are never released. *)
InTree ==
    IF UseKv THEN cached
    ELSE SumFunctionOnSet(own, {r \in Requests : Finished(r)} \ stranded)

(* radix_cache.insert slices the table behind the blocks of the path that the
   sequence follows, and that path may have more of them than the table: its
   nodes come from two earlier insertions at least, since a request that
   shares a split node adds its blocks behind it once more (RadixCache has
   the tree). *)
PathTooLong(r) ==
    /\ conf.prefix
    /\ Cardinality({q \in Requests \ {r} : Finished(q)}) >= 2
    /\ InTree > own[r]

(* The panic: the request has left `running`, none of its tables is flushed,
   and the rest of the batch is dropped. *)
InsertPanic(e) ==
    /\ conf.engine = "rust"
    /\ RecordOutput(e, TRUE)
    /\ Pass(e)
    /\ PathTooLong(e.rid)
    /\ running' = Retain(running, {e.rid})
    /\ stranded' = stranded \cup {e.rid}
    /\ DropBatch
    /\ UNCHANGED <<poolVars, layer, cached, faults>>

(* _inference_loop.py: insertion, then _cleanup_request. *)
PythonFinish(e, k) ==
    /\ conf.engine = "python"
    /\ RecordOutput(e, TRUE)
    /\ Forward(e)
    /\ NextEntry
    /\ Kept(e.rid, k)
    /\ FreeTable(e.rid, k)
    /\ cached' = cached + k
    /\ UNCHANGED <<running, layer>>

Arrival ==
    /\ \E r \in Requests : AddRequest(r)
    /\ UNCHANGED <<conf, runnerOnly>>

(* A hit: the cached positions were forwarded by the requests that left
   them (PrefixReuse looks into that); at most one block per token is the
   bound on the blocks it comes with. *)
AdmitHit ==
    /\ conf.engine = "python" /\ conf.prefix
    /\ \E r \in Requests : \E m \in 1 .. CachedTokens[r] : \E j \in 0 .. m :
          /\ Admit(r, m, j)
          /\ forwarded' = [forwarded EXCEPT ![r] = 0 .. m - 1]
    /\ UNCHANGED <<conf, layer, nextLayer, cached, faults, stranded, kvVars>>

ScheduleStep ==
    /\ \/ Schedule
       \/ \E i \in 1 .. MaxBatch : ReapNext(i)
       \/ ReapDone
       \/ \E r \in Requests : Admit(r, 0, 0)
       \/ AdmitDone
       \/ \E r \in Requests : BuildStep(r)
       \/ BuildDone
    /\ Pages
    /\ UNCHANGED <<conf, layer, nextLayer, cached, faults, stranded, forwarded, slab>>

Walk ==
    /\ \/ \E i \in DOMAIN batch : EnsureLayer(batch[i])
       \/ \E i \in DOMAIN batch : LayerOOM(batch[i])
       \/ \E i \in DOMAIN batch : ForwardError(batch[i])
       \/ \E i \in DOMAIN batch : ForwardOnly(batch[i])
       \/ \E i \in DOMAIN batch : NoLogits(batch[i])
       \/ \E i \in DOMAIN batch : RecordMore(batch[i])
       \/ \E i \in DOMAIN batch, k \in 0 .. NumBlocks : FinishRequest(batch[i], k)
       \/ \E i \in DOMAIN batch : InsertPanic(batch[i])
       \/ \E i \in DOMAIN batch, k \in 0 .. NumBlocks : PythonFinish(batch[i], k)
       \/ RunDone /\ UNCHANGED <<layer, nextLayer, cached, faults, stranded, forwarded, slab>>
    /\ Pages
    /\ UNCHANGED conf

RunnerNext == Arrival \/ ScheduleStep \/ AdmitHit \/ Walk

RunnerSpec == RunnerInit /\ [][RunnerNext]_runnerVars

(* The caller steps while there is work, also after an error: the servers
   keep serving their other clients. *)
FairRunnerSpec ==
    /\ RunnerSpec
    /\ WF_runnerVars(ScheduleStep \/ AdmitHit)
    /\ WF_runnerVars(Walk)

-----------------------------------------------------------------------------
(* Every block is free, kept by the prefix cache, or in the main or a layer
   table of a running request (runner.rs:324-352, 549-576, block.rs:455-469;
   _inference_loop.py:179-183, 359-361 with scheduler.rs:125-129, which free
   the same request twice) or of one whose insertion panicked and whose tables
   nobody will release: neither finishing nor an aborted step loses a block
   otherwise or returns it twice.  The runner without a KV cache is left out:
   it never releases a table. *)
BlocksAccounted ==
    conf.engine = "python" \/ UseKv =>
        LET holders == Range(running) \cup stranded IN
        /\ tables \subseteq holders
        /\ free + cached + SumFunctionOnSet(own, holders)
                + SumFunctionOnSet([r \in Requests |-> Sum(layer[r])], holders)
             = NumBlocks

(* Blocks r may hold while it runs, and after it has finished. *)
Peak(r) == TableNeed(r) * IF conf.engine = "rust" /\ UseKv THEN 1 + NumLayers ELSE 1

Left(r) ==
    IF r \in stranded THEN Peak(r)
    ELSE IF conf.prefix \/ (conf.engine = "rust" /\ ~ UseKv) THEN TableNeed(r) ELSE 0

(* Any batch fits the pool, next to what all other requests leave behind,
   the stranded ones everything they had. *)
Fits ==
    \A S \in SUBSET Requests : Cardinality(S) <= MaxBatch =>
        SumFunction([r \in Requests |-> IF r \in S THEN Peak(r) ELSE Left(r)]) <= NumBlocks

(* With a pool that any batch fits, every request is scheduled its sequence
   from the first position on without a gap, however the token budget cuts
   its chunks, whatever prefix it found cached and whichever passes fail
   (scheduler.rs:171-266). *)
NoHoles == FedInOrder \/ ~ Fits

(* With such a pool and until a pass fails or an insertion panics, which drops
   scheduled entries too: a pass that reads the cache finds what every earlier
   pass of the request should have written (runner.rs:430-432: "prefill chunks
   must also go through `forward_with_kv` so their K/V outputs are written to
   the block manager before the first decode"). *)
ForwardedBeforeRead ==
    \/ \A e \in Range(batch) : Running(e) => 0 .. e.lo - 1 \subseteq forwarded[e.rid]
    \/ ~ UseKv
    \/ faults > 0
    \/ stranded # {}
    \/ ~ Fits

(* With such a pool and until a pass fails: a decode pass of the Python
   engine gathers the request's own rows, each from its own position, however
   the blocks went round between requests (cache_manager.py:158 writes to the
   first table of the step that is long enough; _inference_loop.py:255-258:
   "batching multiple KV requests would collide.  Run them one at a time"). *)
KvOwn ==
    \/ \A e \in Range(batch) : Running(e) /\ e.n = 1 =>
          \A p \in 0 .. e.lo - 1 : ReadPaged(e)[p] = <<e.rid, p>>
    \/ ~ Paged
    \/ faults > 0
    \/ ~ Fits

(* What stranded requests hold on to no longer leaves room for any batch. *)
Spoiled == stranded # {} /\ ~ Fits

(* With a pool that any batch fits, every request that arrives is run to its
   last token, whatever the others do, even if passes fail or give no logits
   and if requests are stranded, unless these spoil the pool
   (runner.rs:667-746 loops until it is; server/handlers.rs waits for it).
   The client of a stranded request gets no answer: its task is the one that
   panicked. *)
EngineTerminates ==
    \A r \in Requests : (state[r] = "waiting" /\ Fits) ~> (state[r] = "finished" \/ Spoiled)
===============================================================================
