----------------------------- MODULE MCRadixCache -----------------------------
(* Instances of the prefix cache for TLC. *)
EXTENDS RadixCache

CONSTANTS r1, r2, r3

(* Over two tokens: sequences that extend, split and part from each other,
   within a block and at its boundary. *)
MCSequences ==
    {<<0, 0>>, <<0, 1>>, <<1, 0>>, <<0, 0, 0>>, <<0, 0, 1>>, <<0, 1, 1>>, <<0, 0, 0, 1>>, <<0, 0, 1, 0>>}

(* Both ports, and the Rust runner without a KV cache. *)
MCModes ==
    {[port |-> "rust", kv |-> TRUE], [port |-> "rust", kv |-> FALSE], [port |-> "python", kv |-> TRUE]}

Symmetry == Permutations(Blocks) \cup Permutations(Requests)
===============================================================================
