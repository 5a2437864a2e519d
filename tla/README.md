# TLA+ verification of LLM-CompileForge

LLM-CompileForge compiles a PyTorch model to native code and serves it.  The
repository has three large parts: a compiler (Python and an MLIR dialect in
C++), a Rust runtime with an HTTP server (`runtime/`), and a Python runtime with
an HTTP server (`python_runtime/`) that uses the Rust scheduler and block pool
through PyO3 (`runtime/src/lib.rs`).  This directory specifies and verifies two
things:

* the *serving core*: how requests share one engine, one pool of KV-cache blocks
  and one prefix cache.  That is where state is shared, where steps of several
  requests interleave and where a mistake gives one client another client's data;
* the *compiler*: how an exported graph becomes functions, files and a library,
  and how the runtimes find their way through them again.  Values, weights and
  cache entries are routed there by names and positions that six formats repeat,
  and a mistake gives wrong logits and no error.

Paths below are relative to the repository root; `runner.rs:419` is a line of
the file of that name in `runtime/src`.

## Inventory

| component | state | operations | interacts with |
|---|---|---|---|
| block pool, `cache/block.rs` | reference count per block, free list (a stack), block table per request, `shared_owners` | `allocate`, `ensure_blocks`, `free`, `flush_request`, `free_block`, `increment_ref_count`, `assign_cached_blocks`, `share_prefix`, `write_kv`, `read_kv` | called by scheduler, engines, prefix cache, intercept |
| scheduler, `engine/scheduler.rs` | waiting heap, `running`, per request: state, `prefill_pos`, output | `add_request`, `schedule` (reap, admit, `build_batch`), `record_output` | draws on the pool; is driven by an engine |
| Rust engine, `engine/runner.rs` | scheduler, pool, prefix cache, a table per request and KV layer | `add_request`, `step`, `generate` | scheduler, pool, prefix cache, executor |
| Python engine, `_inference_loop.py`, `_scheduling_bridge.py`, `llm_engine.py` | prompts, outputs, sampling parameters per request | `add_request`, `step`, `generate` | Rust scheduler and pool, Python prefix cache, executor |
| prefix cache, `cache/radix.rs` and `cache/radix_cache.py` | radix tree of token sequences, blocks per node | `match_prefix`, `insert` (with splits), `evict` | references blocks of the pool |
| KV intercept, `cache/intercept.rs`, `mlir_executor.py`, `cache_manager.py` | the KV slots | write the keys and values of a pass, read the context back | reads and writes slots through block tables |
| HTTP server, `server/*.rs` | one engine behind a tokio mutex | blocking handlers, SSE streams | steps the engine |
| HTTP server, `python_runtime/server/routes.py` | one engine behind `_engine_lock` | the same | steps the engine |
| graph conversion, `compiler/fx/converter.py`, `fx/utils.py`, `compiler/shape` | names and types of the values so far, the operations emitted | one handler per kind of node | reads torch's exported graph |
| function splitting, `fx/split.py` | blocks of operations | cut, inputs, outputs, execution plan, cache bindings | feeds artifact, policy, ABI and op plan |
| passes, `compiler/passes`, `sf-dialect/lib/Sf` | a function's operations | fusion, dequantization, promotion of weights, the entry point `main` | rewrite what was split |
| cache policy, `compiler/cache_policy.py`, `cache/policy.rs` | slabs and intercepts | derive, bind, write, read | bound by the split, read by both runtimes |
| artifact, `compiler/artifact`, `sfa_abi.py`, `op_plan.py` | `model.mlir`, `metadata.json`, `constants.pth`, `constants.bin`, symbols of the library | write and read | between `compile` and `compile_dylib`, and to the runtimes |
| weights, `artifact/load.py`, `binary.py` | tables from names to tensors | load three formats, name mapping, lookups | checkpoint keys and compiled names |
| driver, `compile.py`, `compile_dylib.py`, `compiler/pipeline`, `compiler/backend` | an output directory, a module, a worker thread | both commands, stages with timeouts, two links | everything above |
| graph executor (Python), `mlir_executor.py` | a dictionary of values | one forward pass | artifact, cache manager |
| library calls, `dylib_ffi.py`, `scripts/ctypes_*.py`, `scripts/checks` | buffers | call the library, compare, check | the library's symbols |
| speculative decoding, recurrent state, tensor parallelism, HAL, kernels, sampler, tokenizer | see *Not modelled* | | |

What is hard here:

* *several requests, one pool*: a block is owned by tables and by the cache at
  once; counts, free list and tables are updated in loops by ten methods;
* *partial failure inside a step*: the scheduler moves `prefill_pos` before it
  knows whether blocks are available; an error for one entry of a batch leaves
  `step()` with the others scheduled but not run;
* *hold and wait*: running requests keep their blocks while they wait for more;
* *stale reuse*: a cached prefix may end inside a block that others still write;
* *several clients, one engine*: whoever steps the engine receives the tokens of
  all requests;
* *liveness*: a request skipped for lack of budget, a stream that ends only when
  the whole engine is idle;
* *one value, many names*: a value crosses a function boundary as an SSA name, an
  output index, an edge of the plan, a field of the ABI, a node input of the op
  plan and a binding of the cache policy, each derived by code of its own;
* *files of different runs*: two commands write seven files into one directory,
  can be killed between any two of them, and read what earlier runs left;
* *threads with timeouts*: a pass that timed out is still working on the module.

`PROJECT.json` lists these hazards one by one, each at its line, with the
properties that look at it.

What makes each component correct: the pool hands out no block that is in use
and loses none; the queue serves by priority and loses no request; the scheduler
feeds each request its own sequence without a gap and with a table that covers
it, and finishes it; the tree finds what was inserted and its blocks stay
referenced; every token is sampled from its whole context; every client gets the
tokens of its request, and gets an answer; every operation of a compiled model
gets the operands the exported graph gives it, whichever way it is run, with the
weights of the checkpoint; a library is made of the files of one compile by a
lowering that keeps its results.

## Modules

| module | models | notes |
|---|---|---|
| `BlockManager` | `block.rs`, the accounting | one step per loop iteration; `call` is the activation record of the call in progress |
| `BlockManager_proof` | | proofs for every instance |
| `WaitingQueue` | the heap in `scheduler.rs` | std's `BinaryHeap` at the level of its array (external); each sift is a loop, iterated from a function that makes one round |
| `WaitingQueue_proof` | | proofs for every instance, with the refinement |
| `PriorityAdmission` | | what the queue promises; refined by `WaitingQueue` and by `Runner` |
| `Scheduler` | `scheduler.rs`, `types.rs` | one step per iteration of reap, admit, `build_batch`; tables abstracted to their lengths |
| `Runner` | `runner.rs` and `_inference_loop.py`: `step()` | extends `Scheduler`; both engines, chosen by `conf.engine` |
| `Runner_proof` | | proofs for every instance of scheduler and engines |
| `RadixCache` | `radix.rs`, `radix_cache.py` and the pool underneath | a node is named by its path; both ports, chosen by `mode` |
| `RadixCache_proof` | | proofs for every instance |
| `PrefixReuse` | contents of the slots when prefixes are reused | extends `RadixCache` |
| `KvContext` | `intercept.rs`, `mlir_executor.py` | one request, what each pass writes and sees |
| `KvContext_proof` | | proofs for every instance |
| `Server` | `server/handlers.rs`, `server/streaming.rs`, `routes.py` | both servers, chosen by `port`; its engine is `step()` with ample budget and pool |
| `Server_proof` | | proofs for every instance |
| `ShapeInference` | `compiler/shape`, the element types of `fx/utils.py` | operators; a dimension is a number or dynamic |
| `FxConvert` | the walk of `fx/converter.py` | extends `ShapeInference`; one action per node of the graph |
| `FxSplit` | `fx/split.py` | operators on sequences of operations |
| `CachePolicy` | `cache_policy.py`, its readers in `cache_manager.py` and `policy.rs` | operators |
| `OpPlan`, `SfaAbi`, `ChainWrapper` | `op_plan.py`; `sfa_abi.py` and `SfPromoteWeights.cpp`; the flat plan, `SfChainWrapper.cpp` and the repair of `main` | operators |
| `Artifact` | `serialize.py`, `parse.py`, the compute graph of `binary.py` | a file is a sequence of lines; the parser goes through its states line by line |
| `Weights` | `load.py`, the name mapping of `binary.py`, the executor's table | names are sequences of pieces |
| `Passes` | `passes/fusion.py`, `passes/quantize.py`, `SfFusionPasses.cpp`, `SfLowerFused.cpp` | results are compared by value numbering |
| `Executor` | `_run_forward` of `mlir_executor.py` | a pass as a fold over functions and operations |
| `Dylib` | `dylib_ffi.py`, `ctypes_forward.py`, `ctypes_oracle.py`, two scripts of `scripts/checks` | a library is what its symbols and kernels say |
| `Compile` | one compilation, composed of the above | extends `FxConvert`; the stages of `compile` and `compile_dylib` after the walk |
| `Lowering` | the rewriting stages of `pipeline/stages.py`, `actions.py`, `backend/fixups.py` | functions on tensors and on buffers, with what they compute as terms |
| `Build` | `compile.py`, `compile_dylib.py`, `stages_utils.py`, `backend` | extends `Lowering`; the directory, the command that runs, its worker thread |
| `Build_proof` | | proofs for every instance of the directory |
| `Retain` | `Vec::retain` and the list comprehensions that do the same | used by `Runner` and `Server` |
| `DataLemmas` | | what `Retain`, sums over functions and removals from sequences do, for every input |

`MC*` modules hold the instances for TLC, one `.cfg` per run.  The variables of a
module are commented with the field they stand for, and `map` in `PROJECT.json`
gives the source lines of every definition.  Definitions under a comment
`Mistake:` or `Mutant:` are plausible bugs of the definition that follows them; they are used
by nothing in the specifications, and each shows that one property notices.

Abstractions, and why they keep what matters:

* *Tokens* are positions in `Scheduler`, `Runner` and `KvContext` (which position
  is fed, written, read), and members of {0, 1} in `RadixCache`, where only
  equality is looked at.
* *Keys and values* of a position are a function of the tokens up to it, so a
  slot holds that prefix (`PrefixReuse`) or the position and whether it was
  computed from its whole context (`KvContext`).
* *Tables* are lengths in `Scheduler` and `Runner`: `own` blocks from the pool and
  `shared` ones from a hit; `BlockManager` and `RadixCache` have the blocks
  themselves.
* *The prefix cache in `Runner`* is the number of blocks that it alone holds: an
  insertion keeps between none and all of the blocks of the table
  (`RadixCache` has the tree that decides how many).
* *What stays behind*: `Fits` counts the blocks that a request holds at most while it
  runs and after it has finished: those the prefix cache keeps, or its whole table
  in the Rust engine without a KV cache, which releases none.  A request with
  `max_tokens` 0 still gets one token, since it is recorded before it is counted
  (`MaxSeqLen`).
* *A sampled token* is a choice: any token may be a stop token.
* *Failures*: any forward pass may fail or give no logits, up to `MaxFaults` times; a
  call of the pool that returns `Err` changes nothing.
* *The panic of the Rust prefix cache*: `insert` slices a table behind the blocks of a
  path that may have more.  In `RadixCache` it is `Panic`, after which nothing happens,
  so the run explores every way to get there.  In `Runner` it is `InsertPanic`:
  the task of the client that stepped the engine dies, tokio's mutex is released
  unpoisoned, and the engine goes on without the rest of the batch and without the
  request's tables.  `Runner` has no tree, so it lets the insertion panic whenever the tree has
  more blocks than the table and two requests finished before; that is what a too long
  path needs, and allows the panic somewhat more often than the code.  `stranded` is the set of
  such requests.  `generate()` has no one to go on with, and ends.  The `Server` model
  has no prefix cache, hence no panic.
* *Pages of the Python engine*: in `Runner`, configurations of the Python engine
  with a KV cache and no prefix cache have block numbers and slot contents (a slot
  holds the request and position that was written to it last).
* *Graphs*: operations are records with their name, operands, attributes and
  types.  Tensors have no contents: a value is the operation that gave it, and a
  weight the key it has in the checkpoint.  What an operation computes does not
  matter to the properties; which operands it is given does.
* *Names*: SSA names are tuples.  Their order as strings, which the code sorts by,
  is a parameter of a request (`names`), because any order is some program's.
* *Text*: a line of `model.mlir` is a record and a cut is between lines.
* *Files*: the content of a file is where it came from: the compile or the
  `compile_dylib` run that wrote it, and what that run had read.
* *MLIR's own passes, clang and git* are external: they succeed, fail or time out.

## Runs

| run | instance | distinct states | shows |
|---|---|---|---|
| `pool` | 3 blocks of 2 slots, 2 requests of at most 4 tokens, one cache reference per block | 77,756 | counts, free list, owners exact at every loop iteration |
| `queue` | 6 requests, 4 priorities with ties, batch of 1 | 656,132 | the array is a heap, loses nothing, implements `PriorityAdmission` |
| `radix` | 3 requests, 8 sequences of 2 to 4 tokens over {0, 1}, 4 blocks of 2; Rust with and without KV cache, Python | 148,594 | the tree is determined and remembers, named blocks stay referenced, fresh blocks are private, hits are stable |
| `kv_context` | all one-pass or token-by-token configurations with prompts and outputs up to 4 | 1,176 | whole context, exact cache |
| `engine` | 4 requests (3+2, 2+2, 1+1, 1+1 tokens; one urgent), batch of 2, budget 2, chunk 2, block 2, 2 KV layers, one pass that fails or gives no logits, insertions that panic; 6 configurations | 381,126 | accounting, coverage, no gaps, written before read, rows of the own request, termination |
| `server` | both servers; 3 blocking and 2 streaming clients, batch of 2, one failing step, two refused prompts, two clients that may leave | 50,302 | whole answers with the client's own settings, losses only in company, the Python server's lock undivided, everyone is answered |
| `compile` | 611 exported graphs: decoders of one and two layers (grouped-query attention, masks per layer, unmapped operations, dynamic length), mixed element types over a shared weight, single operations with every dimension, slices and chunks, gated blocks, more weights than a function has operations; with and without a cache policy, cut by layer or by count, names in two orders; 36 checkpoints, 3 precision strategies | 13,879 | the routing, the types, the files, the cache, the weights, the passes, the executor and the ctypes calls agree with the graph |
| `build` | 2 compiles of 3 kinds of model and 2 library builds, 2 dialects, 26 functions to lower; kills, failing tools and timeouts anywhere | 2,533,954 | one generation, no stale dialect, nothing torn is linked, results kept |
| `engine_oom` | Python engine, 3 blocks | violated | a chunk refused for lack of blocks is never fed |
| `reuse_context` | Python engine, sequences that part inside a block | violated | a reused block is overwritten |
| `kv_chunked` | prompts in chunks of 2 | violated | the final chunk does not see the earlier ones |
| `server_events` | two streams | violated | streams drop each other's tokens |

Properties are commented where they are defined.  The ones to read first:
`RefCountExact` and `FreePoolExact` (pool), `BlocksAccounted`, `NoHoles`,
`ForwardedBeforeRead`, `KvOwn` and `EngineTerminates` (engines), `BlocksSafe` and
`StableHits` (prefix cache), `SampledInContext` (attention), `WholeAnswers`,
`Undivided` and `Answered` (servers), `Routed`, `CacheBound`, `Executed` and
`OracleAgrees` (compiler), `OneGeneration` and `LoweringKeepsResults` (build).

A property of the compiler that has an exception says so in its comment.  Each
exception was removed once to see that TLC then finds the case; they are listed
under *Disagreements*.

Why the bounds are enough:

* `pool`: two requests that share a block with each other and with the cache,
  a table of two blocks, a pool that runs out; the proof covers the rest.
* `queue`: six entries is the smallest heap in which the entry that `pop` moves to
  the bottom has to come up again.
* `radix`: the sequences extend, split and part from each other within a block
  and at its boundary; three requests let a third one meet the result of a split.
* `engine`: a prompt of several chunks, a chunk cut by the budget, a decode and a
  prefill in one batch, more requests than the batch holds.  An insertion panics when two
  requests have finished, and with it the rest of the batch is dropped, so a
  fourth request lives on after it.  The pools of the Python engine and one of the Rust engine are
  as large as `Fits` asks, the last of these with room for a stranded request; a smaller one has
  the Rust engine run out of blocks, and that of `engine_oom` the Python engine.
* `server`: every kind of client twice, so that each meets its own kind and the
  other; prompts of two chunks and answers of two tokens.
* `compile`: two layers are the fewest in which one layer's values can be taken for
  another's; seven operations per function cut a decoder inside its layers; a
  sequence of length 1 is the one that a repair of sizes can confuse with an
  unwritten size.
* `build`: two compiles and two builds let each file be older or newer than each
  other one; rank 2 and 3, f32 and bf16 are the cases the BLAS rewrite tells apart.

Symmetry is used in `radix` and `reuse_context`, over blocks and over requests,
and in `build`, over dialects: nothing orders them there, and no liveness property is checked under it
(`StableHits` is a property of single steps).  Deadlock checking is on for
`pool`, which never stops; the other systems stop when all requests are served.

Fairness.  `engine`: whoever drives an engine calls `step()` as long as
`has_work()`, also after an error (the servers go on with their other clients),
and a call returns; so scheduling and the walk over a batch are weakly fair and
arrivals are not.  `server`: tokio runs every task that is ready, its mutex is
FIFO (the queue in the model), as is asyncio's lock, and a connected client reads
its stream; so each handler is weakly fair, and connecting or leaving is not.  (A
client of the Python server that stops reading without closing its connection
keeps the lock.)  The other specifications state no fairness and no liveness: a
compilation ends by construction, and a build may be killed.

## Proofs

The proofs hold for every value of the constants that meets the named
assumptions; the runs evaluate the same assumptions on their instances.  Each
specification has an invariant `IInv` that is inductive and implies the
properties; what it adds to them is the argument, and is described here.

### The pool

`BlockManager_proof`, from `PoolAssumption` (sizes positive, as `block.rs:92-97`
enforces), for every number of blocks, block size and set of requests, finite or
not:

* `TypeCorrect`: types, and no loop ever pops from an empty free list;
* `CountsExact`, `PoolExact`, `OwnersSound`: the three properties of run `pool`.

`RefCountExact` is not inductive.  Releasing is only right when the count is
positive (`saturating_sub` hides an underflow), popping is only right when the
free list holds unreferenced blocks, and `assign_cached_blocks` and `share_prefix`
only count right if the blocks they work on stay referenced while the loop runs.
`IInv` is `TypeOK` with `RefsFinite`, `RefCountExact`, `FreePoolExact`,
`CallIdsLive` and `OwnersHold`; `BooksKept` proves it.  References are a set (one
element per table entry or reference in flight in a call), so each step either
adds one element, removes one, or moves elements between tables and the call.
One lemma per kind of move (`AddOneRef`, `RemoveOneRef`, `TableToCall`,
`CallToTable`) shows what it does to the cardinality.

### Scheduler and engines

`Runner_proof`, from `SchedulerAssumption` (a finite set of requests, since a sum
over their tables is taken; prompts not empty; a batch and blocks of at least
one) and `RunnerAssumption`, for both engines in every configuration:

* `TablesCover` (`BlocksCover`) and `NoBlockLost` (`BlocksAccounted`), whatever
  fails and however small the pool;
* `FedWithoutGaps` (`NoHoles`) and `WrittenBeforeRead` (`ForwardedBeforeRead`), for
  pools that any batch fits next to what the other requests leave behind (`Fits`), which
  for a stranded request is everything it had;
* `OwnRows` (`KvOwn`): in such pools and while no pass has failed, a decode pass of
  the Python engine gathers the rows of its own request; on the way, `PagesKept`
  (`KvInv`): whatever fails, its block tables are disjoint and hold the rows that
  were forwarded;
* `EnginesAdmit`: both engines, whatever fails, implement `PriorityAdmission` with
  `running` as the requests that take a place of the batch;
* `EngineTypes`, which the others rest on.

The parts of `IInv`, and why they are needed:

* `Types`: among them that a waiting request is not running and that `running` has
  no request twice; finishing removes it by name.
* `Progress`: an unfinished request is shorter than it may become.  It bounds what
  a decode may ask of the pool.
* `BatchOK`: a batch has one entry at most per request, and each entry whose pass is
  still to come agrees with the request: its state, its length, its table.  An
  entry of a request that another entry has just finished would read a released
  table.
* `Books`: free, cached and tabled blocks sum up to the pool, and a request that is neither
  in `running` nor stranded has none.  `BlocksAccounted` sums over those only; the sum
  over all of them is the one that single steps keep.
* `Stranding`: only the Rust engine strands requests, and they are finished, so no later
  step touches what they hold.
* `Limits`: no table is longer than its request needs (`TableNeed`), and the cache
  has no more than what finished requests left that were not stranded.
* `Feeding` and `Forwarding`: up to where a request has been scheduled, and that
  what was scheduled and not forwarded is in a pending entry; the latter until a step is
  lost, by a failing pass or by a panic.

The middle of the argument is `Room`: by `Books` and `Limits`, in a pool that any
batch fits, what a running request still needs is free.  So neither the
scheduler's allocation nor that of a layer fails (`NeverOut`), and the actions
that skip positions (`PrefillOOM`, `LayerOOM`) are impossible; run `engine_oom`
shows that they break `FedInOrder` in smaller pools.  Actions are grouped by their
effect (an entry is scheduled, a layer grows, the walk passes an entry, a step is
lost); each action is shown to have its effect once, and each part of `IInv` is
shown to be kept by every effect.

`KvInv` adds what the numbers in `IInv` do not say: which blocks the tables name.
Tables are as long as `own` says, no block is in two of them or twice in one
(`Shelves`), and every position forwarded for a request that is not finished has its
row in that request's own table (`Rows`).  A table grows by blocks that are in no
table, of which there are enough because `Books` counts the blocks of all tables
(`SpareBlocks`, by `RoomFor`).  A row is written to the first table of the step that
is long enough for its position, and `write_paged` is called for a pass of one
request: the pass's table is alone in the step (`SlotOfOne`), so two positions of a
pass, or of two requests, never meet in a slot (`SlotsApart`).  `OwnRows` needs
`ForwardedBeforeRead` besides, hence its condition on failing passes.

### The waiting queue

`WaitingQueue_proof`, from `HeapAssumption`, for every set of requests and all
priorities: `RootIsNext` (`HeapOrder`), `NothingLost` (`Conserved`), and
`QueueRefines`: the specification implements `PriorityAdmission`.  `EnginesAdmit`
shows the same of the engines, where the heap is a set: the two models agree on what
the queue promises.

A sift is a loop, so it has a loop invariant: on the way up (`UpOK`) the array is a
heap but for the moving entry and its parent, on the way down (`DownOK`) but for
the hole; both carry how many rounds may be left, and the loop ends in time
because the position falls or rises with every round.  Every round swaps, so the array is a
permutation of what it was.  The refinement maps the array to the set of its
entries; a pop is a step of the abstract queue because the root of a heap is
before every entry (`RootFirst`, by the least position that contradicts it).

### The prefix cache

`RadixCache_proof`, from `RadixAssumption` (finitely many requests and blocks, blocks of
at least one slot, tokens are numbers, a sequence has a prompt and an output), for
both ports in every configuration: `WalksDetermined` (`TreeShape`), `InsertedIsFound`
(`Remembered`), `NoBlockShared` (`BlocksSafe`) and `HitsStayValid` (`StableHits`).

* *The shape.*  A tree is the set of its paths, and `Closed` says that any two part
  at a path of the set or at the root.  From it follows that everything that agrees with
  a sequence beyond its last full match starts with one child (`ChildBelow`), which is
  therefore the only one (`MidIs`), and that a sequence parts from every node at a
  node or where that child is split (`PartsAt`).  So a path can be added if the split
  is (`InsertCloses`), and a leaf can go (`LeafGoes`).
* *What is remembered* is a node (`History`), and a node is matched to its end.  An
  eviction forgets before it removes, so the invariant says that nothing is remembered
  during one.
* *The counts.*  `Named` sums up how often a function's sequences name a block, for the
  tree and for the tables alike.  A split keeps it (`SplitKeepsNamed`), an insertion adds
  the leaf's blocks (`InsertNames`), an eviction takes away a node's, of which those
  behind the target stay counted: `Counted` is an inequality for that reason.  A block
  that a live request took has count 1 and is in its table, hence nowhere else
  (`OwnedAlone`), so no other step touches its count.
* *The hits.*  Along a path through a split node the blocks move from one position to
  an earlier one with no node between (`Shared`), so their concatenation is the same
  (`SharedPath`, by the least position at which it would differ).

### The attention context

`KvContext_proof`: in every state whose configuration prefills in one pass or
token by token (`OnePass(conf)`), both engines have sampled every token from its
whole context (`ContextComplete`) and keep an exact cache (`CacheStaysExact`).
The condition is on the configuration chosen at the start, so the theorems cover
the specification with all its configurations.  The invariant adds that a one-pass
prompt is never half way (`NotHalfWay`).  Run `kv_chunked` shows that the condition
is needed.

### The servers

`Server_proof`, from `ServerAssumption` (finitely many clients), for both servers:
`OneClientAtATime` (`Undivided`), `AnswersAreWhole` (`WholeAnswers`),
`LossOnlyInCompany` (`LossNeedsCompany`).  `LockOK` says that only the head of the
lock's queue is inside the lock and no client is queued twice; `EngineOK` relates
each client's place to its request: it is in the engine or finished while its
client loops, and a client that keeps the lock has been given everything that was
produced.  A step of another client would break that, and `LockOK` excludes it.

### The build directory

`Build_proof`, from `BuildAssumption` (the value that stands for a missing record is
no dialect), for any number of compiles and builds and any failures and kills:
`SymbolsOfOneRun`, `LibraryOfOneCompile`, `StaleNeverLinked`,
`OnlyWholeModulesLinked`.  `IInv` relates what a command holds in memory to the
files it has read and will write (`RunKept`), the files to each other (`FilesKept`),
what they are marked with to the runs that wrote them (`TagsKept`) and the recorded
dialect to the one that compiled (`StampKept`); `StagesKept` says that the stages
before the current one were applied and that a module being worked on by a thread
is not linked.

`LoweredOnceInOrder` says what is linked: not only were all stages applied, but the
module is what the identity copies, the bufferization and the BLAS rewrite make of
the function, each once and in this order, although a stage may fail, only warn, or
end in its thread after the caller gave up on it; and the descriptor of a memref of
any rank has every field in its place, but for `index`.  Its invariant `BodyKept`
counts the stages behind a module, the one that a thread has ended included.  With
it, what is left of `LoweringKeepsResults` is a statement about single functions:
that `Lowered` computes what the function did.

The four others speak of the linked library; a kill may come between
any two files, so the invariant has to say what each file promises before the
library exists.

### Data

The provers cannot apply an induction theorem, so `DataLemmas` argues by the least
counterexample: `LeastNat` gives it for any set of naturals, because their
order is well-founded.  With it: a function defined by recursion on a number
exists and is unique (`TableExists`, `SumsExist`), `Retain` keeps the order and the
other elements (`RetainKeeps`, `RetainOrder`, `TakingOut`), and sums over finite sets
split, grow with their terms and change by what one term changes (`SumTakes`,
`SumMonotonic`, `SumChanges`, `SumPlus`, `SumBound`).  Lists of disjoint ranges cover
no more than the sum of their lengths (`SumCovers`), so a pool whose books balance has
a block outside them for each that is free (`RoomFor`).

### Only model-checked

* Liveness (`EngineTerminates`, `Answered`): fairness and `ENABLED` are out of the
  prover's reach.
* `LoweringKeepsResults`, as far as it is about a single function: `BlockResults` and
  `TensorResults` fold over its operations, and that two folds over different
  operations agree is an induction over the function.
* The properties of the run `compile`: `Routed`, `GraphRouted`, `PlanRouted`,
  `TypesAgree`, `CacheBound`, `CutKeepsAttributes`, `ShapesSound`, `ReadBack`, `Executed`,
  `OracleAgrees`, `WeightsBound` and `RewritesKeepResults`.  They compare what folds and
  filters over the graph, the text, a checkpoint's keys or the operations compute, each
  for data of any length, which needs induction for every one of the formats.  The
  provers do not know `FoldLeft` and `SelectSeq`, and their inductive properties take an
  operator as a parameter.  Where a loop was worth reasoning about, the model states it
  as a recursive function (`Retain`) or by what it returns (`Slot` and `Pages` of
  `Runner`); the compiler is nothing but such loops.
* `PrefixReuse` states `ContextIsOwn`, which the code violates (run `reuse_context`), so
  there is nothing to prove of it (see *Plan*).

## Disagreements between code and comments

The four violation runs, each with the line it contradicts, are under `findings`
in `PROJECT.json`:

1. `scheduler.rs:190`: `prefill_pos` moves before the allocation is tried; after
   "OOM, retry next step" the next chunk is scheduled, and the refused one never.
2. `radix.rs:70` and `radix_cache.py`: a match that ends inside a block hands that
   block out, and both requests write to it.
3. `intercept.rs:251`: a pass of several tokens sees only itself, so a chunked
   prompt is not attended to as a whole; the Rust intercept also writes each chunk
   at position 0.
4. `streaming.rs:60`: a poll drops the tokens other streams get in the same step.

Others met while modelling; the models reproduce the behaviour, no run is spent
on it:

* a finished request whose path in the Rust prefix tree has more blocks than its table
  makes `insert` panic (`radix.rs:121`) between `get_finished_request` and the flushes
  (`runner.rs:550-575`): its main and layer blocks are never released, the rest of the
  batch is dropped and its client gets no answer.  `BlocksAccounted` names the holders,
  `EngineTerminates` holds for the others until the pool is spoiled;
* requests of equal priority are not served in order of arrival although
  `scheduler.rs:12` names FCFS: the heap compares priorities alone;
* with a pool that some batch does not fit, running requests wait for each
  other's blocks for ever; nothing is preempted (`scheduler.rs:244`);
* `max_tokens_per_step` does not count decode tokens scheduled before a prefill
  (`scheduler.rs:178`);
* a hit names fewer or more blocks than its tokens fill once nodes were split
  inside a block (`radix.rs:128-148`, `radix_cache.py:140-171`);
* an eviction that reaches its target inside a node forgets the node's other
  blocks without releasing them (`radix.rs:277-287`);
* the last token of a finished sequence is cached although its keys and values
  were never computed (`_inference_loop.py:360`);
* an aborted step loses the chunks it had scheduled (`runner.rs:419`), and a panic all
  of its entries that are behind;
* without a KV cache the Rust engine never releases the table of a finished
  request (`runner.rs:569-575`);
* neither engine gets blocks back from the prefix cache: the runner never calls
  `evict`, and Python's nodes keep `ref_count` 1 for ever (`radix_cache.py:246`);
* the stream of a refused prompt retries `add_request` and never closes
  (`streaming.rs:44`);
* in the Python engine, too, a chunk of several tokens attends only to itself, and
  after a failed pass a decode can read rows that were never written (`KvOwn`
  excludes failed passes);
* the priority passed to `LLMEngine.add_request` is not passed on, and the Python
  server's loop never awaits between steps, so a step that schedules nothing would
  block the event loop (`routes.py:183`).

In the compiler:

* several operations may have one SSA name (every `le` is `%causal_mask`) although
  `split.py:233` says that names are unique: an edge can then point to a later
  function.  Building `main` fails for such a model; the Python executor computes
  it right (`Executed`);
* `main` returns the first result of the last function but is declared with all of
  them (`SfChainWrapper.cpp:221`), so a split model with two results in its last
  function does not lower; and results are sorted by name, while the executor takes
  the first for the logits;
* `_fixup_main_call_operands` looks for `"@main_1"` among symbols without `@`, so it
  changes nothing (`compile_dylib.py:563`); with promotion before the chain wrapper
  nothing needs changing;
* `_fixup_output_names` gives an output without a name the first operation of the
  same type (`converter.py:835`);
* an unsqueeze behind the last dimension of a function's input is moved before it
  (`split.py:53`);
* shapes that are not torch's, each an exception of `ShapesSound`.  In both inferences:
  the bounds of a slice, which are not clamped; the parts of an uneven chunk, 6 into
  4 being 2, 2, 1, 1 and not 2, 2, 2 (`converter.py:569-570`); a mean, and a var, over other than the
  last dimension, and a var that keeps it, as the registry drops the arguments
  (`_op_defs.py:75`, `138`); diff and new_ones (`_op_defs.py:80`, `86`), a shorter result and sizes that
  are dropped; a matmul of tensors of different ranks above 2.  In the pure inference alone: permute and
  view_as, which keep the operand's shape, and several index tensors of one dimension,
  whose sizes are appended (`shape_inference_pure.py:92-93`).  Squeeze would keep the shape as well, but no
  aten operator is mapped to it (`_op_defs.py:25-142`), so no compilation asks.  A stack, whose list of
  tensors the registry drops (`_op_defs.py:137`), cannot be inferred at all;
* an operation that reads a weight before a later one converts it was typed with the
  weight's old element type, while the weight is then emitted with the new one; no
  validation compares the two, and `TypesAgree` excludes such weights;
* a split by count of a model with more weights than a function has operations stops
  with a `ValueError`: a weight behind the first function is looked for among the global
  names, which are those of the first (`split.py:686-694`); action `SplitFails`;
* the compute graph of `constants.bin` takes the first two inputs of the first function
  for the model's and binds a third to a function (`binary.py:342`); the instances have
  two at most, as the serving core's models do;
* with repeated keys (grouped-query attention) the Python intercept never applies,
  because it is bound to the keys before repetition (`mlir_executor.py:376`); an
  operation between the repetition and the attention leaves a layer unbound;
* a function input that no one produced is an empty tensor (`mlir_executor.py:240`),
  or zeros through ctypes;
* a sharded checkpoint is filed under the first candidate name only, although the
  comment says all (`load.py:158`); a `pytorch_bin` one is found through
  `hf_key_map` alone; the rebuilding of that map reads the checkpoint's path as
  JSON, which only an index is (`compile_dylib.py:155`);
* a compiled name that is the suffix of another key can be matched to it
  (`binary.py:86`);
* the Python fusion erases a silu that has other readers (`fusion.py:96`); both
  rms-norm fusions drop the norm's own weight (`fusion.py:195`,
  `SfFusionPasses.cpp:125`), and the C++ one makes a linear a matmul without its
  transposition; the Python QKV and attention patterns never match, since they
  compare fresh wrappers with `is`; the default patterns of mixed precision never
  match, since weight names end in `_weight` (`mixed_precision.py:91`);
* the check of the promotion order is reported as passed after it failed
  (`compile_dylib.py:300`); the parameter check knows one global input and functions
  named by index; a dimension that is 1 counts as unwritten (`ctypes_forward.py:93`);
* a failure between the two links leaves a library without symbols; a stale dialect
  is noticed after `constants.bin` was replaced (`compile_dylib.py:223`); only RWKV
  models record their dialect, and a kill before that record leaves a model that is
  never refused;
* a timed-out pass is waited for when its pool is left (`stages_utils.py:360`), and
  the timeout of a stage with an action is not applied (`stages_utils.py:356`);
* a second reader of a copy that the BLAS rewrite erased reads a buffer that nobody
  wrote, and a matmul onto an accumulator overwrites it (`stages.py:509`).
  `LoweringKeepsResults` is conditional on `Relied`, which rules both out, and so says nothing
  about them.

## Not modelled

* *Numerics*: kernels (`kernels/`, the Rust and BLAS kernels, `gemv.rs`), quantizers,
  sampling distributions, memory fusion.  A property of these is about floating
  point, not about states and steps.
* *Bytes*: protobuf and binary layouts (offsets, padding), the Rust readers of ABI and
  tensors, the op plan's execution in Rust.  The bindings they carry are checked
  where they are made and where Python reads them.
* *Text*: tokenizer, JSON, the inside of an MLIR line, logging, timers.
* *HAL*: dispatch to tensor libraries; `virtual_device.py` simulates latencies.
* *The lowering of each operation* in `SfLowerToLinalg.cpp`, and MLIR's own passes:
  rewrites inside MLIR whose correctness is about loops over tensors.
* *Speculative decoding*: neither engine nor server uses it, and `adaptive.py` verifies
  drafts against random logits.  *Recurrent state manager* and *tensor parallelism*:
  no caller outside tests.
* *Model builders, benchmarks, diagnostics*: they call the parts above.
* *Components marked partly* say in `PROJECT.json` which operations are missing.

## Plan

Done: the pool, the queue, scheduler and both engines with the cache manager, the
prefix cache and its reuse, the attention context, both servers, the compiler from
the exported graph to the library, and the build directory under crashes; proofs for
all of these but the compiler.

Next, in this order:

1. *Prefix reuse*, once the code decides what a hit may be.  A theorem that a request
   samples every token in its own context (`ContextIsOwn`) is not to be had by ruling
   out hits that end inside a block: with blocks of one token TLC still finds a request that extends a finished one and reads the slot of its last
   token, which is cached with the others (`_scheduling_bridge.py:142`) but was sampled
   and never fed.
2. *Op plan execution*: buffer pools of `engine/op_plan`, with the lifetimes that
   `OpPlan` computes.
3. *Speculative decoding*, once an engine uses it: accepted tokens are those that
   plain decoding would give.
