-------------------------------- MODULE Server --------------------------------
(***************************************************************************)
(* The HTTP servers: every client shares one engine behind a fair lock.    *)
(*                                                                         *)
(*   rust    runtime/src/server, a tokio Mutex.  A blocking client         *)
(*           (v1_completions, or v1_chat_completions without `stream`)     *)
(*           keeps the lock from add_request to its last token.  A         *)
(*           streaming client takes the lock for each poll of its stream,  *)
(*           and each poll steps the whole engine: the results of other    *)
(*           requests are dropped by whoever stepped.                      *)
(*   python  python_runtime/server, an asyncio.Lock.  Every client keeps   *)
(*           the lock from add_request to its last token, a stream also    *)
(*           while an event is on its way; a stream that ends early leaves *)
(*           its request in the engine, where later clients step it.       *)
(*                                                                         *)
(* The engine is InferenceRunner::step, or InferenceLoop.step, with a      *)
(* token budget and a block pool that are never short (Scheduler and       *)
(* Runner have those).  A client and its request have the same name.       *)
(***************************************************************************)
EXTENDS Integers, Sequences, FiniteSets, SequencesExt, Retain

CONSTANTS
    Blocking,    \* clients that wait for the whole answer
    Streaming,   \* clients that read a stream of events
    Rejected,    \* clients whose prompt add_request refuses
    Chunks,      \* prefill chunks of each prompt
    MaxNew,      \* max_tokens of each request
    MaxBatch,    \* max_batch_size
    MaxFaults,   \* bound: steps that fail
    MayLeave,    \* clients that may drop the connection
    Ports        \* the servers to consider

Clients == Blocking \cup Streaming

ASSUME ServerAssumption ==
    /\ Blocking \cap Streaming = {}
    /\ IsFiniteSet(Clients)
    /\ Rejected \subseteq Clients
    /\ Chunks \in [Clients -> Nat \ {0}]
    /\ MaxNew \in [Clients -> Nat \ {0}]
    /\ MaxBatch \in Nat \ {0}
    /\ MaxFaults \in Nat
    /\ MayLeave \subseteq Clients
    /\ Ports \subseteq {"rust", "python"}

VARIABLES
    port,        \* the server; never changes
    client,      \* what each handler is doing
    queue,       \* tasks in lock().await; the first one holds the lock
    waiting,     \* Scheduler::waiting
    running,     \* Scheduler::running
    added,       \* clients whose add_request succeeded
    chunksLeft,  \* prefill chunks not yet scheduled
    produced,    \* output_tokens.len()
    finished,    \* requests that record_output finished
    got,         \* tokens each client was given
    faults,      \* steps that have failed
    foreign      \* history: requests with a token drawn by another client's settings

engineVars == <<waiting, running, added, chunksLeft, produced, finished, faults, foreign>>
vars == <<port, client, queue, engineVars, got>>

Init ==
    /\ port \in Ports
    /\ client = [c \in Clients |-> "new"]
    /\ queue = <<>>
    /\ waiting = {}
    /\ running = <<>>
    /\ added = {}
    /\ chunksLeft = Chunks
    /\ produced = [c \in Clients |-> 0]
    /\ finished = {}
    /\ got = [c \in Clients |-> 0]
    /\ faults = 0
    /\ foreign = {}

Holds(c) == queue # <<>> /\ Head(queue) = c

(* Mistake: a request that is already running does not count as work. *)
HasWorkQueued(w, run) == w # {}

(* Mistake: the engine never reports that it is idle. *)
HasWorkAlways(w, run) == TRUE

HasWork(w, run) == w # {} \/ run # <<>>

-----------------------------------------------------------------------------
(* One call of step(): requests are admitted to the batch, each is put
   through one pass, the last prefill chunk and every later pass yield a
   token.  An error at entry f returns at once: the entries from f on have
   been scheduled, so their prompt position has moved, but produce nothing,
   and the tokens recorded before f are not returned. *)

(* The orders in which the free slots may be filled. *)
Admissions(w) ==
    LET n == Min({MaxBatch - Len(running), Cardinality(w)})
    IN  {s \in [1 .. n -> w] : IsInjective(s)}

Samplers(entries) == {r \in Range(entries) : chunksLeft[r] <= 1}

(* c: the caller; w: the requests waiting when step is called; entries: the
   batch; f: the failing entry, Len(entries) + 1 if none; stops: requests that
   draw a stop token.  The Rust engine draws every token with the settings of
   the caller, the Python engine with those of the request. *)
Step(c, w, entries, f, stops) ==
    LET ran  == Samplers(SubSeq(entries, 1, f - 1))
        ends == {r \in ran : produced[r] + 1 >= MaxNew[r] \/ r \in stops}
    IN
    /\ waiting' = w \ Range(entries)
    /\ produced' = [r \in Clients |-> produced[r] + IF r \in ran THEN 1 ELSE 0]
    /\ chunksLeft' = [r \in Clients |->
          IF r \in Range(entries) /\ chunksLeft[r] > 0 THEN chunksLeft[r] - 1 ELSE chunksLeft[r]]
    /\ finished' = finished \cup ends
    /\ foreign' = IF port = "rust" THEN foreign \cup (ran \ {c}) ELSE foreign
    /\ running' = Retain(entries, ends)

(* Mistake: the result of a request admitted in this step is not returned. *)
StepOkLate(c, w) ==
    \E s \in Admissions(w) :
        LET entries == running \o s IN
        \E stops \in SUBSET Samplers(entries) :
            /\ Step(c, w, entries, Len(entries) + 1, stops)
            /\ got' = [got EXCEPT ![c] = @ + IF c \in Samplers(running) THEN 1 ELSE 0]
            /\ UNCHANGED faults

StepOk(c, w) ==
    \E s \in Admissions(w) :
        LET entries == running \o s IN
        \E stops \in SUBSET Samplers(entries) :
            /\ Step(c, w, entries, Len(entries) + 1, stops)
            /\ got' = [got EXCEPT ![c] = @ + IF c \in Samplers(entries) THEN 1 ELSE 0]
            /\ UNCHANGED faults

StepErr(c, w) ==
    /\ faults < MaxFaults
    /\ faults' = faults + 1
    /\ \E s \in Admissions(w) :
          LET entries == running \o s IN
          \E f \in DOMAIN entries : \E stops \in SUBSET Samplers(SubSeq(entries, 1, f - 1)) :
              Step(c, w, entries, f, stops)
    /\ UNCHANGED got

-----------------------------------------------------------------------------
(* A request reaches its handler, which asks for the lock; for a stream this
   is its first poll. *)
Connect(c) ==
    /\ client[c] = "new"
    /\ client' = [client EXCEPT ![c] = "lock"]
    /\ queue' = Append(queue, c)
    /\ UNCHANGED <<engineVars, got>>

(* Where a handler is suspended and gives up when its connection drops: at
   the lock, between two polls of a stream, or with an event on its way.
   FastAPI runs a handler that does not stream to its end. *)
Suspended(c) ==
    IF port = "rust" THEN client[c] \in {"lock", "between"}
    ELSE c \in Streaming /\ client[c] \in {"lock", "yield"}

(* The connection drops; the request stays in the engine. *)
Disconnect(c) ==
    /\ c \in MayLeave
    /\ Suspended(c)
    /\ client' = [client EXCEPT ![c] = "gone"]
    /\ queue' = Retain(queue, {c})
    /\ UNCHANGED <<engineVars, got>>

Release(c, status) ==
    /\ client' = [client EXCEPT ![c] = status]
    /\ queue' = Tail(queue)

(* Blocking handlers. *)

BlockingAdd(c) ==
    /\ Holds(c) /\ c \in Blocking \ Rejected
    /\ client[c] = "lock"
    /\ waiting' = waiting \cup {c}
    /\ added' = added \cup {c}
    /\ client' = [client EXCEPT ![c] = "loop"]
    /\ UNCHANGED <<queue, running, chunksLeft, produced, finished, faults, foreign, got>>

BlockingReject(c) ==
    /\ Holds(c) /\ c \in Blocking \cap Rejected
    /\ client[c] = "lock"
    /\ Release(c, "failed")
    /\ UNCHANGED <<engineVars, got>>

BlockingStep(c) ==
    /\ Holds(c) /\ client[c] = "loop"
    /\ c \notin finished
    /\ HasWork(waiting, running)
    /\ StepOk(c, waiting)
    /\ UNCHANGED <<client, queue, added>>

BlockingFail(c) ==
    /\ Holds(c) /\ client[c] = "loop"
    /\ c \notin finished
    /\ HasWork(waiting, running)
    /\ StepErr(c, waiting)
    /\ Release(c, "failed")
    /\ UNCHANGED added

BlockingReturn(c) ==
    /\ Holds(c) /\ client[c] = "loop"
    /\ c \in finished \/ ~ HasWork(waiting, running)
    /\ Release(c, "ok")
    /\ UNCHANGED <<engineVars, got>>

(* One poll of a stream.  It ends, with [DONE], only when the engine has no
   work at all: not when its own request is finished, nor on an error. *)

Polling(c) == Holds(c) /\ c \in Streaming /\ client[c] = "lock"

(* add_request on the first poll. *)
Waiting(c) == IF c \in added THEN waiting ELSE waiting \cup {c}

StreamReject(c) ==
    /\ Polling(c) /\ c \in Rejected
    /\ Release(c, "between")
    /\ UNCHANGED <<engineVars, got>>

StreamEnd(c) ==
    /\ Polling(c) /\ c \notin Rejected
    /\ ~ HasWork(Waiting(c), running)
    /\ Release(c, "ok")
    /\ UNCHANGED <<engineVars, got>>

StreamStep(c) ==
    /\ Polling(c) /\ c \notin Rejected
    /\ HasWork(Waiting(c), running)
    /\ StepOk(c, Waiting(c)) \/ StepErr(c, Waiting(c))
    /\ added' = added \cup {c}
    /\ Release(c, "between")

(* The event is sent and the next one asked for. *)
StreamPoll(c) ==
    /\ client[c] = "between"
    /\ client' = [client EXCEPT ![c] = "lock"]
    /\ queue' = Append(queue, c)
    /\ UNCHANGED <<engineVars, got>>

RustHandler(c) ==
    \/ BlockingAdd(c)
    \/ BlockingReject(c)
    \/ BlockingStep(c)
    \/ BlockingFail(c)
    \/ BlockingReturn(c)
    \/ StreamReject(c)
    \/ StreamEnd(c)
    \/ StreamStep(c)
    \/ StreamPoll(c)

-----------------------------------------------------------------------------
(* The Python handlers.  Nothing is awaited between two calls of step(), so
   only an event on its way lets other tasks run, and those find the lock
   taken. *)

PyAdd(c) ==
    /\ Holds(c) /\ client[c] = "lock"
    /\ c \notin Rejected
    /\ waiting' = waiting \cup {c}
    /\ added' = added \cup {c}
    /\ client' = [client EXCEPT ![c] = "loop"]
    /\ UNCHANGED <<queue, running, chunksLeft, produced, finished, faults, foreign, got>>

PyReject(c) ==
    /\ Holds(c) /\ client[c] = "lock"
    /\ c \in Rejected
    /\ Release(c, "failed")
    /\ UNCHANGED <<engineVars, got>>

Looping(c) == Holds(c) /\ client[c] = "loop" /\ c \notin finished

(* Mistake: the lock is given up with each event. *)
PyStepReleases(c) ==
    /\ Looping(c)
    /\ StepOk(c, waiting)
    /\ IF c \in Streaming /\ got'[c] > got[c]
       THEN /\ client' = [client EXCEPT ![c] = "yield"]
            /\ queue' = Tail(queue) \o <<c>>
       ELSE UNCHANGED <<client, queue>>
    /\ UNCHANGED added

(* The loop ends with the request's own last token, never because the engine
   has no work; a stream yields each of its tokens. *)
PyStep(c) ==
    /\ Looping(c)
    /\ StepOk(c, waiting)
    /\ client' = IF c \in Streaming /\ got'[c] > got[c] THEN [client EXCEPT ![c] = "yield"] ELSE client
    /\ UNCHANGED <<queue, added>>

(* An exception leaves the handler and the lock; the request stays. *)
PyFail(c) ==
    /\ Looping(c)
    /\ StepErr(c, waiting)
    /\ Release(c, "failed")
    /\ UNCHANGED added

(* The event has been sent; after the last one, [DONE]. *)
PyResume(c) ==
    /\ Holds(c) /\ client[c] = "yield"
    /\ IF c \in finished THEN Release(c, "ok")
       ELSE client' = [client EXCEPT ![c] = "loop"] /\ UNCHANGED queue
    /\ UNCHANGED <<engineVars, got>>

PyReturn(c) ==
    /\ Holds(c) /\ client[c] = "loop"
    /\ c \in finished
    /\ Release(c, "ok")
    /\ UNCHANGED <<engineVars, got>>

PyHandler(c) ==
    \/ PyAdd(c)
    \/ PyReject(c)
    \/ PyStep(c)
    \/ PyFail(c)
    \/ PyResume(c)
    \/ PyReturn(c)

Handler(c) ==
    /\ (port = "rust" /\ RustHandler(c)) \/ (port = "python" /\ PyHandler(c))
    /\ UNCHANGED port

Next ==
    \/ \E c \in Clients : Connect(c) /\ UNCHANGED port
    \/ \E c \in Clients : Disconnect(c) /\ UNCHANGED port
    \/ \E c \in Clients : Handler(c)

(* tokio and asyncio run every task that is ready; connected clients read
   their stream. *)
Spec == Init /\ [][Next]_vars /\ \A c \in Clients : WF_vars(Handler(c))

-----------------------------------------------------------------------------
(* From add_request to its last token a request of the Python server is
   stepped by its own client alone, so that every token it was given came out
   of a step of its own and none is lost, whatever the requests that clients
   left behind in the engine do in the same steps (routes.py:211-212: "Holds
   the engine lock for the entire streaming lifetime so add_request+step()
   form an atomic unit"). *)
Undivided ==
    port = "python" =>
        /\ Cardinality({c \in Clients : client[c] \in {"loop", "yield"}}) <= 1
        /\ \A c \in Clients : client[c] \in {"loop", "yield", "ok"} => got[c] = produced[c]

(* A blocking client that is answered with 200 was given every token of its
   request, each drawn with its own settings, and the request is finished,
   whatever requests of streams, of clients that left or of failed clients
   share its steps (handlers.rs:60-104, 165-201, routes.py:171-194,
   runner.rs:509): no one else can step the engine between its add_request
   and its last token. *)
WholeAnswers ==
    \A c \in Blocking : client[c] = "ok" =>
        c \in finished /\ got[c] = produced[c] /\ c \notin foreign

(* A stream never gives its client more than was produced, and loses tokens
   only if another client connected or a step failed
   (streaming.rs:34-91: the poll that steps delivers what it stepped). *)
LossNeedsCompany ==
    \A c \in Streaming :
        \/ got[c] = produced[c]
        \/ got[c] < produced[c] /\ (faults > 0 \/ \E d \in Clients \ {c} : client[d] # "new")

(* Every client that connects is answered, closed, or leaves: the lock is
   released on every path and some poll finds the engine idle
   (handlers.rs:60-104, 163-201, streaming.rs:34-91). *)
Answered ==
    \A c \in Clients \ Rejected :
        client[c] = "lock" ~> client[c] \in {"ok", "failed", "gone"}

(* A closed stream has sent one event for each token of its request
   (streaming.rs:25: "SSE streaming for chat completions -- yields one SSE
   event per token"). *)
EventPerToken ==
    \A c \in Streaming : client[c] = "ok" => got[c] = produced[c]
===============================================================================
