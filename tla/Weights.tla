-------------------------------- MODULE Weights --------------------------------
(***************************************************************************)
(* How a compiled model finds its tensors: the names under which           *)
(* compiler/artifact/load.py files what a checkpoint holds, what           *)
(* MlirExecutor.__init__ makes of them, and the name mapping that          *)
(* compiler/artifact/binary.py embeds for the Rust runtime.                *)
(*                                                                         *)
(* A name is the sequence of its pieces with the separators between them,  *)
(* <<"model", ".", "norm", ".", "weight">>; a tensor is known by the key   *)
(* it has in the checkpoint.  A table is a sequence of <<name, tensor>>    *)
(* pairs in the order in which they were entered.                          *)
(***************************************************************************)
EXTENDS Integers, Sequences, SequencesExt, FiniteSetsExt

Missing == <<>>

\* key.replace(".", "_")
Clean(key) == [i \in DOMAIN key |-> IF key[i] = "." THEN "_" ELSE key[i]]

\* _candidate_names: the name, and what is left of it without its first one to three parts
CandidateNames(name) ==
    LET breaks == SelectSeq([i \in DOMAIN name |-> i], LAMBDA i : name[i] = "_")
        n == Min({3, Len(breaks)})
    IN  <<name>> \o [i \in 1..n |-> SubSeq(name, breaks[i] + 1, Len(name))]

\* A dict filled in this order: the last entry of a name counts
Lookup(table, name) ==
    LET is == {i \in DOMAIN table : table[i][1] = name} IN IF is = {} THEN Missing ELSE table[Max(is)][2]

-------------------------------------------------------------------------------
(* What is in the tables of the functions after load_mlir_artifact.  A     *)
(* name without a dot belongs to "main", which only a model that is not    *)
(* split has; else the first function gets it.                             *)

\* _load_weights_via_mmap
MmapParameters(keys) == [k \in DOMAIN keys |-> <<Clean(keys[k]), keys[k]>>]

\* _load_weights_via_bin: the name mapping leads from compiled names to keys, so a tensor whose
\* name it knows is filed under its key
BinParameters(keys, mapping) ==
    LET filed(name) == IF Lookup(mapping, name) = Missing THEN name ELSE Lookup(mapping, name)
    IN  [k \in DOMAIN keys |-> <<filed(Clean(keys[k])), keys[k]>>]

\* _load_weights_via_sharded: every candidate name, but in a split model only the first
ShardedParameters(keys, split) ==
    LET names(k) == IF split THEN <<Clean(keys[k])>> ELSE CandidateNames(Clean(keys[k]))
    IN  FlattenSeq([k \in DOMAIN keys |-> [i \in DOMAIN names(k) |-> <<names(k)[i], keys[k]>>]])

Parameters(format, keys, mapping, split) ==
    CASE format = "safetensors" -> MmapParameters(keys)
      [] format = "safetensors_sharded" -> ShardedParameters(keys, split)
      [] format = "pytorch_bin" -> BinParameters(keys, mapping)

\* The tied weights of weight_source: aliases that the checkpoint does not have
Tied(table, tied) ==
    LET new == SelectSeq(tied, LAMBDA t : Lookup(table, t[1]) = Missing /\ Lookup(table, t[2]) # Missing)
    IN  table \o [i \in DOMAIN new |-> <<new[i][1], Lookup(table, new[i][2])>>]

\* load_mlir_artifact: the weights of all functions
Loaded(format, keys, mapping, tied, split) == Tied(Parameters(format, keys, mapping, split), tied)

\* MlirExecutor.__init__: the weights of all functions under one roof; then by hf_key_map,
\* whose keys have dots, and by the tied weights
ExecutorTable(format, keys, mapping, hfKeys, tied, split) ==
    LET loaded == Loaded(format, keys, mapping, tied, split)
        new == SelectSeq(hfKeys, LAMBDA h : Lookup(loaded, h[1]) = Missing /\ Lookup(loaded, h[2]) # Missing)
    IN  Tied(loaded \o [i \in DOMAIN new |-> <<new[i][1], Lookup(loaded, new[i][2])>>], tied)

-------------------------------------------------------------------------------
FirstOr(seq, default) == IF seq = <<>> THEN default ELSE seq[1]

\* _get_weight of the ctypes passes: by its name, by its key, by the aliases tied to it.  The
\* name of a parameter has no dots, no function's prefix, and is no constant's.
GetWeight(table, hfKeys, tied, name) ==
    LET aliases == SelectSeq(tied, LAMBDA t : t[2] = name)
        places == <<name, Lookup(hfKeys, name)>>
                    \o FlattenSeq([i \in DOMAIN aliases |-> <<Lookup(hfKeys, aliases[i][1]), aliases[i][1]>>])
        found == SelectSeq(places, LAMBDA p : p # Missing /\ Lookup(table, p) # Missing)
    IN  IF found = <<>> THEN Missing ELSE Lookup(table, found[1])

-------------------------------------------------------------------------------
(* _build_name_mapping *)

\* Mutant: an exact match has no precedence
FindActualHfKeyClose(short, keys) == FirstOr(SelectSeq(keys, LAMBDA k : IsSuffix(short, Clean(k))), Missing)

\* _find_actual_hf_key
FindActualHfKey(short, keys) ==
    LET exact == SelectSeq(keys, LAMBDA k : Clean(k) = short)
        close == SelectSeq(keys, LAMBDA k : short \in ToSet(CandidateNames(Clean(k))) \/ IsSuffix(short, Clean(k)))
    IN  FirstOr(exact, FirstOr(close, Missing))

\* The key of one weight: of the survivor of a tied pair; on disk; in the state dict
MappedKey(short, keys, hfKeys, tied) ==
    LET survivor == Lookup(tied, short)
        close == SelectSeq(hfKeys, LAMBDA h : short \in ToSet(CandidateNames(h[1])) \/ IsSuffix(short, h[1]))
        steps == <<IF survivor = Missing THEN Missing ELSE FindActualHfKey(survivor, keys),
                   IF survivor = Missing THEN Missing ELSE Lookup(hfKeys, survivor),
                   FindActualHfKey(short, keys),
                   IF close = <<>> THEN Missing ELSE close[1][2]>>
    IN  FirstOr(SelectSeq(steps, LAMBDA s : s # Missing), Missing)

\* Step 2 of compile_dylib: hf_key_map made anew from the index of a sharded checkpoint, when
\* metadata.json has none.  Its third attempt, without the first parts of a key, can find no
\* more than the second.
Reconstructed(shorts, keys) ==
    LET fit(s) == FirstOr(SelectSeq(keys, LAMBDA k : Clean(k) = s), FirstOr(SelectSeq(keys, LAMBDA k : IsSuffix(s, Clean(k))), Missing))
        found == SelectSeq(shorts, LAMBDA s : fit(s) # Missing)
    IN  [i \in DOMAIN found |-> <<found[i], fit(found[i])>>]

NameMapping(shorts, keys, hfKeys, tied) ==
    LET found == SelectSeq(shorts, LAMBDA s : MappedKey(s, keys, hfKeys, tied) # Missing)
    IN  [i \in DOMAIN found |-> <<found[i], MappedKey(found[i], keys, hfKeys, tied)>>]
===============================================================================
