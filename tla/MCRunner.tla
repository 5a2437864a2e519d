------------------------------- MODULE MCRunner -------------------------------
(* Instances of the engine for TLC. *)
EXTENDS Runner, TLC

CONSTANTS r1, r2, r3, r4

(* A prompt of several chunks, one of a single chunk, and two of one token, of
   which one is urgent. *)
MCPromptLen    == r1 :> 3 @@ r2 :> 2 @@ r3 :> 1 @@ r4 :> 1
MCMaxNew       == r1 :> 2 @@ r2 :> 2 @@ r3 :> 1 @@ r4 :> 1
MCPriority     == r1 :> 0 @@ r2 :> 0 @@ r3 :> -1 @@ r4 :> 0
MCCachedTokens == r1 :> 0 @@ r2 :> 2 @@ r3 :> 0 @@ r4 :> 0

Config(engine, kv, prefix, blocks) ==
    [engine |-> engine, kv |-> kv, prefix |-> prefix, blocks |-> blocks]

(* Each engine with and without a KV cache, with a pool that any batch just
   fits, the runner also with what stranded requests hold on to; and the
   runner with a pool that a batch does not fit. *)
MCConfigs ==
    {Config("python", TRUE, TRUE, 7), Config("python", TRUE, FALSE, 5),
     Config("python", FALSE, FALSE, 3),
     Config("rust", TRUE, TRUE, 19), Config("rust", FALSE, TRUE, 5), Config("rust", TRUE, TRUE, 9)}

(* The Python engine with a pool too small for a batch. *)
TightConfigs == {Config("python", TRUE, TRUE, 3)}
===============================================================================
