------------------------------ MODULE KvContext ------------------------------
(***************************************************************************)
(* Which keys and values the attention of a forward pass sees, for one     *)
(* request from its first prefill chunk to its last token.  Both engines   *)
(* feed what scheduler.rs schedules; they differ in where a pass puts its  *)
(* keys and values and in what it reads back:                              *)
(*                                                                         *)
(*   rust    intercept.rs writes a pass of several tokens at position 0    *)
(*           and gives it back only its own keys and values; a pass of one *)
(*           token is written at its position and sees the cache below it; *)
(*   python  mlir_executor.py writes every token at its position, and      *)
(*           reads the cache back only in a pass of one token.             *)
(*                                                                         *)
(* The block tables are taken to cover every position (Scheduler shows     *)
(* when they do).                                                          *)
(***************************************************************************)
EXTENDS Integers

CONSTANTS
    Configs,   \* the configurations of engine and request to consider
    MaxPos     \* bound: one more than the largest position of any of them

(* engine and use_kv_cache; the lengths of the prompt and of the output; the
   chunk size, and whether other requests may use up a part of the step's
   token budget, which cuts a chunk short. *)
ASSUME ConfigAssumption ==
    /\ MaxPos \in Nat
    /\ Configs \subseteq
          [engine : {"rust", "python"}, kv : BOOLEAN, cuts : BOOLEAN,
           prompt : Nat \ {0}, new : Nat \ {0}, chunk : Nat \ {0}]
    /\ \A c \in Configs : c.prompt + c.new <= MaxPos

VARIABLES
    conf,      \* the configuration; never changes
    pos,       \* prefill_pos
    out,       \* output_tokens.len()
    slots,     \* the KV slots of the request, by position
    sound,     \* the last sampled token was computed from its whole context
    done       \* the request has finished

vars == <<conf, pos, out, slots, sound, done>>

(* What a slot holds: the keys and values of which position, and whether
   they were computed from everything before that position. *)
Slot(p, full) == [of |-> p, full |-> full]

Unwritten == Slot(-1, FALSE)

Init ==
    /\ conf \in Configs
    /\ pos = 0
    /\ out = 0
    /\ slots = [p \in 0 .. MaxPos - 1 |-> Unwritten]
    /\ sound = TRUE
    /\ done = FALSE

(* is_decode: the pass has a single token. *)
Single(lo, hi) == hi - lo = 1

(* Mistake: a single token does not see the cache below it. *)
WholeContextBlind(lo, hi) == lo = 0

(* A pass over lo .. hi - 1 sees its own tokens and, if it is a single token
   with a KV cache, the slots below it: is that all of 0 .. hi - 1? *)
WholeContext(lo, hi) ==
    \/ lo = 0
    \/ conf.kv /\ Single(lo, hi) /\ \A p \in 0 .. lo - 1 : slots[p] = Slot(p, TRUE)

(* Mistake: a token is written one slot further. *)
WriteAtOff(lo, hi) == IF conf.engine = "rust" /\ ~ Single(lo, hi) THEN 0 ELSE lo + 1

(* Where the first token of a pass is written. *)
WriteAt(lo, hi) == IF conf.engine = "rust" /\ ~ Single(lo, hi) THEN 0 ELSE lo

Written(lo, hi) ==
    IF ~ conf.kv THEN slots
    ELSE [p \in 0 .. MaxPos - 1 |->
             IF p \in WriteAt(lo, hi) .. WriteAt(lo, hi) + (hi - lo) - 1
             THEN Slot(lo + (p - WriteAt(lo, hi)), WholeContext(lo, hi))
             ELSE slots[p]]

(* The token is recorded; it may be a stop token. *)
Sample(lo, hi) ==
    /\ sound' = WholeContext(lo, hi)
    /\ out' = out + 1
    /\ \E stop \in BOOLEAN : done' = (stop \/ out + 1 >= conf.new)

Chunk(n) ==
    /\ ~ done
    /\ pos < conf.prompt
    /\ n <= conf.chunk
    /\ n <= conf.prompt - pos
    /\ conf.cuts \/ n = conf.chunk \/ n = conf.prompt - pos
    /\ pos' = pos + n
    /\ slots' = Written(pos, pos + n)
    /\ UNCHANGED conf

(* A chunk that leaves some of the prompt is not sampled from. *)
PrefillChunk(n) ==
    /\ Chunk(n)
    /\ pos + n < conf.prompt
    /\ UNCHANGED <<out, sound, done>>

FinalChunk(n) ==
    /\ Chunk(n)
    /\ pos + n = conf.prompt
    /\ Sample(pos, pos + n)

(* With a KV cache the last token, otherwise the whole sequence. *)
Decode ==
    LET hi == conf.prompt + out
        lo == IF conf.kv THEN hi - 1 ELSE 0
    IN
    /\ ~ done
    /\ pos = conf.prompt
    /\ slots' = Written(lo, hi)
    /\ Sample(lo, hi)
    /\ UNCHANGED <<conf, pos>>

Next ==
    \/ \E n \in 1 .. MaxPos : PrefillChunk(n)
    \/ \E n \in 1 .. MaxPos : FinalChunk(n)
    \/ Decode

Spec == Init /\ [][Next]_vars

-----------------------------------------------------------------------------
Slots == [of : Int, full : BOOLEAN]

TypeOK ==
    /\ conf \in Configs
    /\ pos \in 0 .. conf.prompt
    /\ out \in 0 .. conf.new
    /\ slots \in [0 .. MaxPos - 1 -> Slots]
    /\ sound \in BOOLEAN
    /\ done \in BOOLEAN
    /\ pos < conf.prompt => out = 0
    /\ pos = conf.prompt => out > 0
    /\ out >= conf.new => done

(* The configurations whose prompts go through in one pass, or token by
   token through the KV cache. *)
OnePass(c) == (c.chunk >= c.prompt /\ ~ c.cuts) \/ (c.kv /\ c.chunk = 1)

(* Every sampled token was computed from all tokens before it
   (runner.rs:484-489: "The final chunk carries RequestState::Decode (the
   scheduler flips the state once the whole prompt has been scheduled), so
   sampling there is correct"; _inference_loop.py:333-338). *)
SampledInContext == sound

(* The number of positions fed so far. *)
Fed == IF out = 0 THEN pos ELSE conf.prompt + out - 1

(* Every fed position has its own keys and values in its slot, computed from
   all positions before it (intercept.rs:64-68, 107, 247-272;
   mlir_executor.py:400-413). *)
CacheExact == conf.kv => \A p \in 0 .. Fed - 1 : slots[p] = Slot(p, TRUE)
==============================================================================
