---------------------------- MODULE MCPrefixReuse ----------------------------
(* Instances of prefix reuse for TLC. *)
EXTENDS PrefixReuse

CONSTANTS r1, r2, r3

(* Sequences of one block and a half that part after the first token. *)
MCSequences == {<<0, 0, 0>>, <<0, 1, 0>>, <<0, 1, 1>>, <<0, 0, 1>>}

MCModes == {[port |-> "python", kv |-> TRUE]}

Symmetry == Permutations(Blocks) \cup Permutations(Requests)
==============================================================================
