-------------------------------- MODULE SfaAbi --------------------------------
(***************************************************************************)
(* The ABI header embedded in the compiled library: compiler/sfa_abi.py.   *)
(*                                                                         *)
(* `low` is what the lowered module and the LLVM IR say of the functions   *)
(* (external: MLIR's passes): the functions that have a ciface wrapper,    *)
(* the number of output descriptors of each, and the weights promoted to   *)
(* arguments of the first.  A field is a tuple led by its kind.            *)
(***************************************************************************)
EXTENDS Integers, Sequences, FiniteSets, SequencesExt, FiniteSetsExt

\* sf.weight_names of a lowered function (SfPromoteWeights): its weight operations, in the order
\* the attribute had, become arguments; scalar constants are no longer weights then
PromotedWeights(f) ==
    LET emitted == {f.ops[i].res : i \in {j \in DOMAIN f.ops : f.ops[j].op = "weight" /\ f.ops[j].res[1] # "const"}}
        named == SelectSeq(f.weights, LAMBDA w : w \in emitted)
    IN  IF emitted = {} THEN f.weights ELSE named \o SetToSeq(emitted \ ToSet(named))

\* Promoted weights become fields of the first function, once each and without constants
WeightFields(low) ==
    LET names == low.weights
        kept == SelectSeq([i \in DOMAIN names |-> i],
                          LAMBDA i : names[i][1] # "const" /\ \A j \in 1..(i - 1) : names[j] # names[i])
    IN  [k \in DOMAIN kept |-> <<"WEIGHT", names[kept[k]]>>]

\* merge_with_semantics with an execution plan: the fields are its edges
PlanFields(edges) ==
    [i \in DOMAIN edges |-> IF edges[i][1] = 0 THEN <<"GLOBAL">> ELSE <<"SSA", edges[i][2], edges[i][3]>>]

\* ... without one: the first two inputs of the first function are global, other inputs come
\* from the last function with an output of that name, the rest from the previous function:
\* its n-th output of that type for the n-th such input, else its first
LegacyFields(F, f, typeOf) ==
    LET ins == F[f].inputs
        producers(v) == {g \in DOMAIN F : \E o \in DOMAIN F[g].outputs : F[g].outputs[o].name = v}
        index(g, v) == Max({o \in DOMAIN F[g].outputs : F[g].outputs[o].name = v}) - 1
        prev == IF f = 1 THEN 1 ELSE f - 1
        typed(t) == SelectSeq([o \in DOMAIN F[prev].outputs |-> o], LAMBDA o : typeOf[F[prev].outputs[o].name] = t)
        guessed(i) == ~(f = 1 /\ i <= 2) /\ producers(ins[i]) = {}
        nth(i) == Cardinality({j \in 1..(i - 1) : guessed(j) /\ typeOf[ins[j]] = typeOf[ins[i]]}) + 1
    IN  [i \in DOMAIN ins |->
            CASE f = 1 /\ i <= 2 -> <<"GLOBAL">>
              [] ~(f = 1 /\ i <= 2) /\ producers(ins[i]) # {} ->
                    <<"SSA", Max(producers(ins[i])) - 1, index(Max(producers(ins[i])), ins[i])>>
              [] OTHER -> LET outs == typed(typeOf[ins[i]]) IN
                          <<"SSA", prev - 1, IF nth(i) <= Len(outs) THEN outs[nth(i)] - 1 ELSE 0>>]

Fields(F, f, planned, low, typeOf) ==
    (IF planned THEN PlanFields(F[f].edges) ELSE LegacyFields(F, f, typeOf)) \o (IF f = 1 THEN WeightFields(low) ELSE <<>>)

\* The consumed flags of the descriptors: by position, or on the packed one for any of them
Consumed(f, descs) ==
    LET flags == [o \in DOMAIN f.outputs |-> f.outputs[o].consumed] IN
    IF descs = Len(flags) THEN flags
    ELSE [d \in 1..descs |-> d = 1 /\ \E o \in DOMAIN flags : flags[o]]

\* One SfaFuncMeta per function the LLVM IR has a wrapper for
Metas(F, planned, low, typeOf) ==
    LET kept == SelectSeq([f \in DOMAIN F |-> f], LAMBDA f : f \in low.present) IN
    [k \in DOMAIN kept |->
        LET f == kept[k] IN
        [func |-> f, fields |-> Fields(F, f, planned, low, typeOf),
         consumed |-> Consumed(F[f], low.descs[f]),
         subOutputs |-> [o \in DOMAIN F[f].outputs |-> F[f].outputs[o].consumed]]]
===============================================================================
