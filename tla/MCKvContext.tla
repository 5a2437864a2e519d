----------------------------- MODULE MCKvContext -----------------------------
(* Instances of the attention context for TLC. *)
EXTENDS KvContext

All(P, N) ==
    [engine : {"rust", "python"}, kv : BOOLEAN, cuts : BOOLEAN,
     prompt : 1 .. P, new : 1 .. N, chunk : 1 .. P]

(* Prompts that are prefilled in one pass or token by token. *)
OnePassConfigs == {c \in All(4, 4) : OnePass(c)}

(* Prompts that take several chunks of two tokens. *)
ChunkedConfigs == {c \in All(4, 2) : c.kv /\ c.chunk = 2}
==============================================================================
