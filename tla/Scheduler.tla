------------------------------ MODULE Scheduler ------------------------------
(***************************************************************************)
(* Continuous batching with chunked prefill: runtime/src/engine/scheduler.rs *)
(* on top of the block pool of block.rs, whose tables are abstracted here  *)
(* to their lengths (BlockManager has the blocks themselves).              *)
(*                                                                         *)
(* schedule() runs to completion under one &mut borrow; it is modelled one *)
(* loop iteration per step: reap, admit, build, then the caller walks the  *)
(* batch and records the sampled tokens ("run").  `cursor` is the loop     *)
(* index of build_batch and then of the caller's walk.  What else the      *)
(* callers do with a batch is in Runner, which has the next-state relation *)
(* of scheduler and caller together.                                       *)
(***************************************************************************)
EXTENDS Integers, Sequences, FiniteSets, Functions

CONSTANTS
    Requests,          \* every request that may arrive
    PromptLen,         \* prompt_tokens.len() of each
    MaxNew,            \* max_tokens of each
    Priority,          \* priority of each; smaller is served first
    CachedTokens,      \* the longest prefix-cache hit each may come with
    MaxBatch,          \* max_batch_size
    MaxTokensPerStep,  \* max_tokens_per_step
    ChunkSize,         \* chunk_size
    BlockSize,         \* block_size
    Configs            \* the configurations of the engine to consider

(* scheduler.rs:68-73 and block.rs:92-97 check their sizes, runner.rs:271
   rejects an empty prompt; nothing checks max_tokens_per_step.  Any number
   of requests may arrive, but not infinitely many. *)
ASSUME SchedulerAssumption ==
    /\ IsFiniteSet(Requests)
    /\ PromptLen \in [Requests -> Nat \ {0}]
    /\ MaxNew \in [Requests -> Nat]
    /\ Priority \in [Requests -> Int]
    /\ CachedTokens \in [Requests -> Nat]
    /\ \A r \in Requests : CachedTokens[r] <= PromptLen[r]
    /\ MaxBatch \in Nat \ {0}
    /\ MaxTokensPerStep \in Nat
    /\ ChunkSize \in Nat \ {0}
    /\ BlockSize \in Nat \ {0}
    /\ Configs \subseteq
          [engine : {"rust", "python"}, kv : BOOLEAN, prefix : BOOLEAN, blocks : Nat \ {0}]

(* A configuration: who calls the scheduler, use_kv_cache, whether there is a
   prefix cache, and the blocks of the pool that it does not hold when the
   engine starts. *)

VARIABLES
    conf,           \* the configuration; never changes
    waiting,        \* the heap of waiting requests, as a set
    running,        \* running: Vec<Request>, in order
    state,          \* Request.state; "new" before it arrives
    prefillPos,     \* Request.prefill_pos
    outLen,         \* Request.output_tokens.len()
    tables,         \* requests with an entry in block_tables
    own,            \* blocks of the table taken from the pool
    shared,         \* blocks of the table assigned from the prefix cache
    free,           \* free_blocks.len()
    phase,          \* where the caller's step is
    cursor,         \* loop index into running, then into batch
    batch,          \* scheduled: Vec<ScheduledRequest>
    prefillTokens,  \* total_prefill_tokens
    numDecode,      \* num_decode
    fed             \* history: positions handed out or found cached

queueVars   == <<waiting, running>>
requestVars == <<state, prefillPos, outLen, fed>>
poolVars    == <<tables, own, shared, free>>
batchVars   == <<cursor, batch, prefillTokens, numDecode>>
vars        == <<conf, queueVars, requestVars, poolVars, batchVars, phase>>

UseKv == conf.kv

NumBlocks == conf.blocks

CeilDiv(x, y) == (x + y - 1) \div y

MinOf(x, y) == IF x <= y THEN x ELSE y

(* saturating_sub *)
Monus(x, y) == IF x <= y THEN 0 ELSE x - y

-----------------------------------------------------------------------------
Init ==
    /\ conf \in Configs
    /\ waiting = {}
    /\ running = <<>>
    /\ state = [r \in Requests |-> "new"]
    /\ prefillPos = [r \in Requests |-> 0]
    /\ outLen = [r \in Requests |-> 0]
    /\ tables = {}
    /\ own = [r \in Requests |-> 0]
    /\ shared = [r \in Requests |-> 0]
    /\ free = NumBlocks
    /\ phase = "idle"
    /\ cursor = 1
    /\ batch = <<>>
    /\ prefillTokens = 0
    /\ numDecode = 0
    /\ fed = [r \in Requests |-> {}]

(* Mistake: requests that are running do not count as work. *)
HasWorkWaiting == waiting # {}

HasWork == waiting # {} \/ running # <<>>

(* add_request: callers hold the engine, so a request never arrives inside
   a step. *)
AddRequest(r) ==
    /\ phase = "idle"
    /\ state[r] = "new"
    /\ state' = [state EXCEPT ![r] = "waiting"]
    /\ waiting' = waiting \cup {r}
    /\ UNCHANGED <<running, prefillPos, outLen, fed, poolVars, batchVars, phase>>

(* schedule(): finished requests leave `running` and free their tables. *)
Schedule ==
    /\ phase = "idle"
    /\ HasWork
    /\ phase' = "reap"
    /\ UNCHANGED <<queueVars, requestVars, poolVars, batchVars>>

(* Mistake: the blocks are released but the table stays. *)
FreeTableStale(r, kept) ==
    /\ free' = free + (own[r] - kept)
    /\ UNCHANGED <<tables, own, shared>>

(* free: the blocks go back to the pool, except the `kept` ones that the
   prefix cache has referenced; without a table nothing happens. *)
FreeTable(r, kept) ==
    /\ tables' = tables \ {r}
    /\ free' = free + (own[r] - kept)
    /\ own' = [own EXCEPT ![r] = 0]
    /\ shared' = [shared EXCEPT ![r] = 0]

Finished(r) == state[r] = "finished"

ReapNext(i) ==
    /\ phase = "reap"
    /\ i \in DOMAIN running
    /\ Finished(running[i])
    /\ FreeTable(running[i], 0)
    /\ running' = SubSeq(running, 1, i - 1) \o SubSeq(running, i + 1, Len(running))
    /\ UNCHANGED <<waiting, requestVars, batchVars, phase>>

ReapDone ==
    /\ phase = "reap"
    /\ \A i \in DOMAIN running : ~ Finished(running[i])
    /\ phase' = "admit"
    /\ UNCHANGED <<queueVars, requestVars, poolVars, batchVars>>

(* The admission loop pops the heap: a waiting request of least priority
   value (the heap orders by nothing else).  A prefix-cache hit of m tokens
   brings j blocks and skips their prefill; RadixCache shows that j need not
   be what m tokens fill. *)
Admit(r, m, j) ==
    /\ phase = "admit"
    /\ r \in waiting
    /\ \A q \in waiting : Priority[r] <= Priority[q]
    /\ Len(running) < MaxBatch
    /\ waiting' = waiting \ {r}
    /\ running' = Append(running, r)
    /\ state' = [state EXCEPT ![r] = IF m >= PromptLen[r] THEN "decode" ELSE "prefill"]
    /\ prefillPos' = [prefillPos EXCEPT ![r] = m]
    /\ fed' = [fed EXCEPT ![r] = 0 .. m - 1]
    /\ tables' = IF m > 0 THEN tables \cup {r} ELSE tables
    /\ shared' = [shared EXCEPT ![r] = j]
    /\ UNCHANGED <<outLen, own, free, batchVars, phase>>

(* Nothing to admit, or no room; an empty engine returns an empty batch. *)
AdmitDone ==
    /\ phase = "admit"
    /\ waiting = {} \/ Len(running) >= MaxBatch
    /\ phase' = IF running = <<>> THEN "idle" ELSE "build"
    /\ cursor' = 1
    /\ batch' = <<>>
    /\ prefillTokens' = 0
    /\ numDecode' = 0
    /\ UNCHANGED <<queueVars, requestVars, poolVars>>

-----------------------------------------------------------------------------
(* build_batch: one iteration per running request. *)

Building(r, s) ==
    /\ phase = "build"
    /\ cursor \in DOMAIN running
    /\ r = running[cursor]
    /\ state[r] = s

Skip == /\ cursor' = cursor + 1
        /\ UNCHANGED <<queueVars, poolVars, batch, phase>>

(* An entry of the batch: positions lo .. hi - 1, n counted tokens, and
   whether the caller samples from it (its state is no longer Prefill). *)
Entry(r, lo, hi, n, samples) == [rid |-> r, lo |-> lo, hi |-> hi, n |-> n, samples |-> samples]

TableLen(r) == own[r] + shared[r]

(* allocate, or ensure_blocks: what a table covering `tokens` still needs. *)
Missing(r, tokens) == CeilDiv(Monus(tokens, TableLen(r) * BlockSize), BlockSize)

Reserve(r, tokens) ==
    /\ tables' = tables \cup {r}
    /\ own' = [own EXCEPT ![r] = @ + Missing(r, tokens)]
    /\ free' = free - Missing(r, tokens)
    /\ UNCHANGED shared

Remaining(r) == Monus(PromptLen[r], prefillPos[r])

PrefillBudget == Monus(MaxTokensPerStep, prefillTokens)

ChunkLen(r) == MinOf(MinOf(Remaining(r), ChunkSize), PrefillBudget)

(* remaining == 0: nothing is scheduled in this step. *)
PrefillEmpty(r) ==
    /\ Building(r, "prefill")
    /\ Remaining(r) = 0
    /\ state' = [state EXCEPT ![r] = "decode"]
    /\ Skip
    /\ UNCHANGED <<prefillPos, outLen, fed, prefillTokens, numDecode>>

PrefillNoBudget(r) ==
    /\ Building(r, "prefill")
    /\ Remaining(r) > 0
    /\ PrefillBudget = 0
    /\ Skip
    /\ UNCHANGED <<requestVars, prefillTokens, numDecode>>

(* prefill_pos has already moved when the pool turns out to be too small. *)
PrefillOOM(r) ==
    /\ Building(r, "prefill")
    /\ Remaining(r) > 0
    /\ PrefillBudget > 0
    /\ Missing(r, PromptLen[r]) > free
    /\ prefillPos' = [prefillPos EXCEPT ![r] = @ + ChunkLen(r)]
    /\ Skip
    /\ UNCHANGED <<state, outLen, fed, prefillTokens, numDecode>>

(* Mistake: the position moves by a whole chunk when the budget cut it. *)
PrefillChunkSkips(r) ==
    LET lo == prefillPos[r]
        hi == lo + ChunkLen(r)
        next == lo + MinOf(Remaining(r), ChunkSize)
        last == next >= PromptLen[r]
    IN
    /\ Building(r, "prefill")
    /\ Remaining(r) > 0
    /\ PrefillBudget > 0
    /\ Missing(r, PromptLen[r]) <= free
    /\ Reserve(r, PromptLen[r])
    /\ prefillPos' = [prefillPos EXCEPT ![r] = next]
    /\ fed' = [fed EXCEPT ![r] = @ \cup lo .. hi - 1]
    /\ state' = [state EXCEPT ![r] = IF last THEN "decode" ELSE @]
    /\ batch' = Append(batch, Entry(r, lo, hi, ChunkLen(r), last))
    /\ prefillTokens' = prefillTokens + ChunkLen(r)
    /\ cursor' = cursor + 1
    /\ UNCHANGED <<queueVars, outLen, numDecode, phase>>

PrefillChunk(r) ==
    LET lo == prefillPos[r]
        hi == lo + ChunkLen(r)
        last == hi >= PromptLen[r]
    IN
    /\ Building(r, "prefill")
    /\ Remaining(r) > 0
    /\ PrefillBudget > 0
    /\ Missing(r, PromptLen[r]) <= free
    /\ Reserve(r, PromptLen[r])
    /\ prefillPos' = [prefillPos EXCEPT ![r] = hi]
    /\ fed' = [fed EXCEPT ![r] = @ \cup lo .. hi - 1]
    /\ state' = [state EXCEPT ![r] = IF last THEN "decode" ELSE @]
    /\ batch' = Append(batch, Entry(r, lo, hi, ChunkLen(r), last))
    /\ prefillTokens' = prefillTokens + ChunkLen(r)
    /\ cursor' = cursor + 1
    /\ UNCHANGED <<queueVars, outLen, numDecode, phase>>

SeqLen(r) == PromptLen[r] + outLen[r]

DecodeFits == prefillTokens + numDecode + 1 <= MaxTokensPerStep

DecodeNoBudget(r) ==
    /\ Building(r, "decode")
    /\ ~ DecodeFits
    /\ Skip
    /\ UNCHANGED <<requestVars, prefillTokens, numDecode>>

(* The token was counted before the table could not grow (KV), or turned
   out not to exist (no KV). *)
DecodeOOM(r) ==
    /\ Building(r, "decode")
    /\ DecodeFits
    /\ IF UseKv THEN Missing(r, SeqLen(r) + 1) > free ELSE r \notin tables
    /\ numDecode' = numDecode + 1
    /\ Skip
    /\ UNCHANGED <<requestVars, prefillTokens>>

(* Mistake: the table is not grown for the token about to be written. *)
DecodeTokenNoGrow(r) ==
    /\ Building(r, "decode")
    /\ DecodeFits
    /\ r \in tables
    /\ LET lo == IF UseKv THEN SeqLen(r) - 1 ELSE 0 IN
          /\ batch' = Append(batch, Entry(r, lo, SeqLen(r), 1, TRUE))
          /\ fed' = [fed EXCEPT ![r] = @ \cup lo .. SeqLen(r) - 1]
    /\ numDecode' = numDecode + 1
    /\ cursor' = cursor + 1
    /\ UNCHANGED <<queueVars, state, prefillPos, outLen, poolVars, prefillTokens, phase>>

(* With KV the last token only, at its absolute position; without, the
   whole sequence, counted as one token. *)
DecodeToken(r) ==
    /\ Building(r, "decode")
    /\ DecodeFits
    /\ IF UseKv
       THEN /\ Missing(r, SeqLen(r) + 1) <= free
            /\ Reserve(r, SeqLen(r) + 1)
       ELSE /\ r \in tables
            /\ UNCHANGED poolVars
    /\ LET lo == IF UseKv THEN SeqLen(r) - 1 ELSE 0 IN
          /\ batch' = Append(batch, Entry(r, lo, SeqLen(r), 1, TRUE))
          /\ fed' = [fed EXCEPT ![r] = @ \cup lo .. SeqLen(r) - 1]
    /\ numDecode' = numDecode + 1
    /\ cursor' = cursor + 1
    /\ UNCHANGED <<queueVars, state, prefillPos, outLen, prefillTokens, phase>>

BuildDone ==
    /\ phase = "build"
    /\ cursor = Len(running) + 1
    /\ phase' = "run"
    /\ cursor' = 1
    /\ UNCHANGED <<queueVars, requestVars, poolVars, batch, prefillTokens, numDecode>>

-----------------------------------------------------------------------------
(* The caller walks the batch.  Intermediate prefill chunks do not sample;
   every other entry ends in record_output with a token that may be a stop
   token. *)

Running(e) ==
    /\ phase = "run"
    /\ cursor \in DOMAIN batch
    /\ e = batch[cursor]

NoSample(e) ==
    /\ Running(e)
    /\ ~ e.samples
    /\ cursor' = cursor + 1
    /\ UNCHANGED <<queueVars, requestVars, poolVars, batch, prefillTokens, numDecode, phase>>

(* record_output: the request is finished by its last token or by a stop
   token; `running` and the pool are left to the caller. *)
RecordOutput(e, finished) ==
    /\ Running(e)
    /\ e.samples
    /\ outLen[e.rid] + 1 >= MaxNew[e.rid] => finished
    /\ outLen' = [outLen EXCEPT ![e.rid] = @ + 1]
    /\ state' = [state EXCEPT ![e.rid] = IF finished THEN "finished" ELSE @]
    /\ UNCHANGED <<waiting, prefillPos, fed>>

(* The walk goes on to the next entry. *)
NextEntry == cursor' = cursor + 1 /\ UNCHANGED <<batch, prefillTokens, numDecode, phase>>

RunDone ==
    /\ phase = "run"
    /\ cursor = Len(batch) + 1
    /\ phase' = "idle"
    /\ cursor' = 1
    /\ batch' = <<>>
    /\ prefillTokens' = 0
    /\ numDecode' = 0
    /\ UNCHANGED <<queueVars, requestVars, poolVars>>

-----------------------------------------------------------------------------
BuildStep(r) ==
    \/ PrefillEmpty(r)
    \/ PrefillNoBudget(r)
    \/ PrefillOOM(r)
    \/ PrefillChunk(r)
    \/ DecodeNoBudget(r)
    \/ DecodeOOM(r)
    \/ DecodeToken(r)

-----------------------------------------------------------------------------
Entries ==
    [rid : Requests, lo : Nat, hi : Nat, n : Nat, samples : BOOLEAN]

(* Types; only requests that were admitted and not yet reaped are running,
   each once, never more than max_batch_size. *)
TypeOK ==
    /\ conf \in Configs
    /\ waiting \in SUBSET Requests
    /\ running \in Seq(Requests)
    /\ Len(running) <= MaxBatch
    /\ state \in [Requests -> {"new", "waiting", "prefill", "decode", "finished"}]
    /\ \A r \in Requests : state[r] = "waiting" <=> r \in waiting
    /\ \A i, j \in DOMAIN running : running[i] = running[j] => i = j
    /\ \A i \in DOMAIN running : state[running[i]] \in {"prefill", "decode", "finished"}
    /\ prefillPos \in [Requests -> Nat]
    /\ outLen \in [Requests -> Nat]
    /\ tables \in SUBSET Requests
    /\ own \in [Requests -> Nat]
    /\ shared \in [Requests -> Nat]
    /\ free \in 0 .. NumBlocks
    /\ phase \in {"idle", "reap", "admit", "build", "run"}
    /\ cursor \in Nat
    /\ batch \in Seq(Entries)
    /\ prefillTokens \in Nat
    /\ numDecode \in Nat
    /\ fed \in [Requests -> SUBSET Nat]

(* A request is only fed a position after every earlier position of its
   sequence was fed or found in the prefix cache (scheduler.rs:184-190,
   259-266): otherwise it attends to KV slots nobody wrote.  The comments
   at scheduler.rs:192-198 and 244 say a request the pool cannot serve is
   retried in the next step. *)
FedInOrder ==
    \A i \in DOMAIN batch : 0 .. batch[i].lo - 1 \subseteq fed[batch[i].rid]

(* The longest sequence of r: a token is sampled even if max_tokens is 0. *)
MaxSeqLen(r) == PromptLen[r] + IF MaxNew[r] = 0 THEN 1 ELSE MaxNew[r]

(* Blocks the main table of r has at most. *)
TableNeed(r) == CeilDiv(IF UseKv THEN MaxSeqLen(r) ELSE PromptLen[r], BlockSize)

(* The block table of a scheduled request covers every KV position its
   forward pass, still to come, writes (scheduler.rs:193-199, 235-246:
   "Without this, KV writes beyond the prompt-length allocation are
   dropped"). *)
BlocksCover ==
    \A i \in DOMAIN batch :
        (phase = "build" \/ i >= cursor) /\ (batch[i].lo > 0 \/ UseKv) =>
            batch[i].hi <= TableLen(batch[i].rid) * BlockSize
==============================================================================
