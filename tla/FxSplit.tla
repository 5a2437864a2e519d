-------------------------------- MODULE FxSplit --------------------------------
(***************************************************************************)
(* How the operations of a model are cut into functions and wired up       *)
(* again: compiler/fx/split.py.  Operations are the records FxConvert      *)
(* emits, `B` the blocks they are cut into, `lex` the place of every SSA   *)
(* name in the lexicographic order the code sorts by.                      *)
(***************************************************************************)
EXTENDS Integers, Sequences, FiniteSets, SequencesExt, FiniteSetsExt

SDPA == "scaled_dot_product_attention"
GqaRepeatOps == {"unsqueeze", "expand", "view"}

\* A sequence, element by element: TLC computes each of them once
Listed(s) == s \o <<>>

\* The elements of S in the order of their keys, no two of which are alike
SortBy(S, key(_)) ==
    Listed([i \in 1..Cardinality(S) |-> CHOOSE x \in S : Cardinality({y \in S : key(y) < key(x)}) = i - 1])

\* op index of each result; the last producer wins
ProducerIndex(ops, name) ==
    LET is == {i \in DOMAIN ops : ops[i].res = name} IN IF is = {} THEN 0 ELSE Max(is)

-------------------------------------------------------------------------------
(* Where to cut *)

\* _gqa_repeat_chain_start: the unsqueeze that starts view(expand(unsqueeze(x))), or 0
RepeatChainStart(ops, sdpa, k) ==
    LET producer(name) == LET p == ProducerIndex(ops, name) IN IF p < sdpa THEN p ELSE 0
        feeds(i, kind) == i # 0 /\ ops[i].op = kind /\ ops[i].args # <<>>
        view == IF k > Len(ops[sdpa].args) THEN 0 ELSE producer(ops[sdpa].args[k])
        expand == IF feeds(view, "view") THEN producer(ops[view].args[1]) ELSE 0
        unsqueeze == IF feeds(expand, "expand") THEN producer(ops[expand].args[1]) ELSE 0
    IN  IF feeds(unsqueeze, "unsqueeze") THEN unsqueeze ELSE 0

\* sdpa_cache_boundary_indices: before the repeat of both K and V, else at the attention
SdpaCuts(ops) ==
    {LET k == RepeatChainStart(ops, i, 2)
         v == RepeatChainStart(ops, i, 3)
     IN  IF k # 0 /\ v # 0 THEN Min({k, v}) ELSE i : i \in {j \in DOMAIN ops : ops[j].op = SDPA}}

\* _split_into_functions by operation count
CountCuts(ops, perFunc) == {i \in DOMAIN ops : i > 1 /\ (i - 1) % perFunc = 0}

\* ... and the partition at the sentinels; an empty block is dropped
Blocks(ops, cuts) ==
    LET starts == SortBy({1} \cup (cuts \cap DOMAIN ops), LAMBDA i : i)
        end(k) == IF k < Len(starts) THEN starts[k + 1] - 1 ELSE Len(ops)
    IN  Listed([k \in DOMAIN starts |-> SubSeq(ops, starts[k], end(k))])

-------------------------------------------------------------------------------
(* Attention pairs: the block before a "b" block is its "a" block *)

SdpaPositions(block) == {i \in DOMAIN block : block[i].op = SDPA}

IsB(B, f) ==
    /\ f > 1 /\ SdpaPositions(B[f]) # {}
    /\ \A i \in 1..(Min(SdpaPositions(B[f])) - 1) : B[f][i].op \in GqaRepeatOps
IsA(B, f) == f < Len(B) /\ IsB(B, f + 1)

\* _trace_sdpa_cache_source: back through the repeat operations of the block, at most 8
CacheSource(block, name) ==
    LET step[n \in 0..8] ==
            IF n = 0 THEN name
            ELSE LET p == ProducerIndex(block, step[n - 1]) IN
                 IF p # 0 /\ block[p].op \in GqaRepeatOps /\ block[p].args # <<>>
                 THEN block[p].args[1] ELSE step[n - 1]
    IN  step[8]

\* Mutant: K and V as the attention reads them
QKVRepeated(B, f) == SubSeq(B[f][Min(SdpaPositions(B[f]))].args, 1, 3)

\* Q, and the K and V the cache is to hold, of the "b" block f
QKV(B, f) ==
    LET sdpa == B[f][Min(SdpaPositions(B[f]))] IN
    <<sdpa.args[1], CacheSource(B[f], sdpa.args[2]), CacheSource(B[f], sdpa.args[3])>>

\* main_Na and main_Nb for a pair, main_N for the rest; a "b" block that is the "a" block
\* of the next pair is renamed with it
FuncName(B, f) ==
    LET counted == IF IsA(B, f) THEN f ELSE f - 1
        layer == Cardinality({g \in 1..counted : IsB(B, g) \/ ~IsA(B, g)})
    IN  <<layer, CASE IsA(B, f) -> "a" [] ~IsA(B, f) /\ IsB(B, f) -> "b" [] OTHER -> "">>

-------------------------------------------------------------------------------
(* Inputs and outputs of the functions *)

Results(block) == {block[i].res : i \in DOMAIN block}
Reads(block) == UNION {{block[i].args[k] : k \in DOMAIN block[i].args} : i \in DOMAIN block}

\* The function that produces a value, the last one winning; 0 for none
Producer(B, name) ==
    LET fs == {f \in DOMAIN B : name \in Results(B[f])} IN IF fs = {} THEN 0 ELSE Max(fs)

Needed(B, f) == {v \in Reads(B[f]) : Producer(B, v) \notin {0, f}}

\* tensor<1x...: the sym_size scalars, and everything of batch 1
LeadingOne(B, v) ==
    LET f == Producer(B, v)
        t == B[f][ProducerIndex(B[f], v)].out
    IN  t.sh # <<>> /\ t.sh[1] = 1

\* Inputs: the earliest value of the first function, the values of other functions, the
\* remaining values of the first function, the weights by name, the leading-one values
Inputs(B, f, globals, W, lex) ==
    LET place(v) == 1000 * Producer(B, v) + ProducerIndex(B[Producer(B, v)], v)
        first == SortBy({v \in Needed(B, f) \ W : Producer(B, v) = 1}, place)
        lead == IF first = <<>> THEN <<>> ELSE <<Head(first)>>
        rest == IF first = <<>> THEN <<>> ELSE Tail(first)
    IN  IF f = 1 THEN globals
        ELSE lead
             \o SortBy({v \in Needed(B, f) \ W : Producer(B, v) # 1}, place)
             \o SelectSeq(rest, LAMBDA v : ~LeadingOne(B, v))
             \o SortBy(Needed(B, f) \cap W, LAMBDA v : lex[v])
             \o SelectSeq(rest, LAMBDA v : LeadingOne(B, v))

Exported(B, f, results) ==
    {v \in Results(B[f]) : (\E g \in (f + 1)..Len(B) : v \in Reads(B[g])) \/ v \in results}

\* Outputs: [name, consumed]; Q, K and V of an "a" block lead, K and V consumed by the cache
Outputs(B, f, results, lex) ==
    LET exported == Exported(B, f, results)
        lead == IF IsA(B, f) THEN SelectSeq(QKV(B, f + 1), LAMBDA v : v \in exported) ELSE <<>>
        rest == SortBy(exported \ ToSet(lead), LAMBDA v : lex[v])
        kv == IF IsA(B, f) THEN ToSet(Tail(QKV(B, f + 1))) ELSE {}
    IN  IF exported = {} THEN <<[name |-> CHOOSE v \in Results(B[f]) : TRUE, consumed |-> FALSE]>>
        ELSE Listed([i \in DOMAIN (lead \o rest) |->
                        [name |-> (lead \o rest)[i], consumed |-> (lead \o rest)[i] \in kv]])

\* The cache bindings <<function, output, slab>> of the "a" blocks; indices from 0.
\* slab[k] is the slab of SDPA's operand k in the policy; V's entry replaces K's when
\* one value is both.
Bindings(B, outputs, slab) ==
    FlattenSeq([f \in DOMAIN B |->
        IF ~IsA(B, f) THEN <<>>
        ELSE LET q == QKV(B, f + 1)
                 slabOf(v) == CASE v = q[3] /\ 2 \in DOMAIN slab -> slab[2]
                                [] v = q[2] /\ 1 \in DOMAIN slab -> slab[1]
                                [] OTHER -> "none"
                 bound == SelectSeq([i \in DOMAIN outputs[f] |-> i],
                            LAMBDA i : outputs[f][i].consumed /\ slabOf(outputs[f][i].name) # "none")
             IN  [i \in DOMAIN bound |-> <<f - 1, bound[i] - 1, slabOf(outputs[f][bound[i]].name)>>]])

-------------------------------------------------------------------------------
(* The execution plan: an edge is <<source, index, output>>, counted from 0 *)

GlobalInput == 0
StepOutput == 1

\* The position of a name among the outputs of a function, `default` when it has none
OutputIndex(outputs, v, default) ==
    LET is == {i \in DOMAIN outputs : outputs[i].name = v} IN IF is = {} THEN default ELSE Min(is) - 1

\* The globals, and the weights that have their operation in the first function, but no constants
GlobalNames(globals, first) ==
    LET ws == SelectSeq(first, LAMBDA o : o.op = "weight" /\ o.res[1] # "const")
    IN  globals \o [i \in DOMAIN ws |-> ws[i].res]

\* A weight of another function, needed behind it, has no place among them and is no output of
\* the first function: index raises a ValueError
Unbound(B, W) == \E f \in DOMAIN B : \E v \in Needed(B, f) \cap W : Producer(B, v) > 1

NameIndex(names, v) == CHOOSE i \in 0..(Len(names) - 1) : names[i + 1] = v

\* Mutant: the output is counted among the outputs of the first function
EdgeFirst(B, f, v, outputs, globalNames, W) ==
    IF f = 1 THEN <<GlobalInput, NameIndex(globalNames, v), 0>>
    ELSE <<StepOutput, Producer(B, v) - 1, OutputIndex(outputs[1], v, 0)>>

Edge(B, f, v, outputs, globalNames, W) ==
    LET exported == OutputIndex(outputs[1], v, -1) IN
    CASE f = 1 \/ (v \in W /\ exported = -1) -> <<GlobalInput, NameIndex(globalNames, v), 0>>
      [] f > 1 /\ v \in W /\ exported # -1 -> <<StepOutput, 0, exported>>
      [] f > 1 /\ v \notin W /\ Producer(B, v) > 1 ->
            <<StepOutput, Producer(B, v) - 1, OutputIndex(outputs[Producer(B, v)], v, 0)>>
      [] OTHER -> <<StepOutput, 0, OutputIndex(outputs[1], v, 0)>>

\* Mutant: the last dimension counts as out of bounds
AdjustedInclusive(op, ranks) ==
    LET over == {ranks[v] : v \in ToSet(op.args) \cap DOMAIN ranks} IN
    IF op.op = "unsqueeze" /\ (\E r \in over : op.kw["dim"] >= r - 1) THEN [op EXCEPT !.kw["dim"] = Min(over) - 2] ELSE op

\* _adjust_op_attributes: a dimension that an operand which is an input of the function does
\* not have becomes its last one.  The dimensions of a reduction are a list, left alone.
Adjusted(op, ranks) ==
    LET clamp(d) == LET over == {ranks[v] : v \in ToSet(op.args) \cap DOMAIN ranks} IN
                    IF \E r \in over : d >= r THEN Min(over) - 1 ELSE d
        numbers == {"dim", "dim0", "dim1"} \cap DOMAIN op.kw
    IN  IF op.op \in {"weight", "sum", "mean"} THEN op
        ELSE [op EXCEPT !.kw = [k \in DOMAIN op.kw |->
                CASE k \in numbers -> clamp(op.kw[k])
                  [] k = "dims" -> [i \in DOMAIN op.kw[k] |-> clamp(op.kw[k][i])]
                  [] OTHER -> op.kw[k]]]

\* The ranks of the inputs, read off their types; those of the model have `shapes`
InputRanks(B, inputs, shapes) ==
    [v \in ToSet(inputs) |->
        LET f == Producer(B, v)
            n == Len(IF f = 0 THEN shapes[v] ELSE B[f][ProducerIndex(B[f], v)].out.sh)
        IN  IF n = 0 THEN 1 ELSE n]

ParamNames(ws) == {ws[i].name : i \in {j \in DOMAIN ws : ws[j].param}}

\* weight_names of the first function: the weights it keeps in the order of their operations,
\* then those it returns, by name; of another, the weights among its inputs
WeightNames(B, f, results, W, lex) ==
    LET emitted == SelectSeq(B[1], LAMBDA o : o.op = "weight")
        kept == SelectSeq(emitted, LAMBDA o : o.res \notin Exported(B, 1, results))
    IN  IF f = 1 THEN [i \in DOMAIN kept |-> kept[i].res]
                        \o SortBy({emitted[i].res : i \in DOMAIN emitted} \cap Exported(B, 1, results), LAMBDA v : lex[v])
        ELSE SortBy(Needed(B, f) \cap W, LAMBDA v : lex[v])

\* _make_multi_functions
Functions(B, globals, shapes, results, ws, lex) ==
    LET W == {ws[i].name : i \in DOMAIN ws}
        ins == Listed([f \in DOMAIN B |-> Inputs(B, f, globals, W, lex)])
        outputs == Listed([f \in DOMAIN B |-> Outputs(B, f, results, lex)])
        names == GlobalNames(globals, B[1])
    IN  [f \in DOMAIN B |->
            [name |-> FuncName(B, f), ops |-> [i \in DOMAIN B[f] |-> Adjusted(B[f][i], InputRanks(B, ins[f], shapes))], inputs |-> ins[f], outputs |-> outputs[f],
             params |-> Reads(B[f]) \cap ParamNames(ws), consts |-> Reads(B[f]) \cap (W \ ParamNames(ws)),
             edges |-> [i \in DOMAIN ins[f] |-> Edge(B, f, ins[f][i], outputs, names, W)],
             weights |-> WeightNames(B, f, results, W, lex)]]

\* A model that is not split: one function, and no plan; and _empty_execution_plan for one
\* that a boundary behind its last operation left in one piece
EmptyPlan(globals) == [i \in DOMAIN globals |-> <<GlobalInput, 0, 0>>]

SingleFunction(ops, globals, results, ws, edges) ==
    <<[name |-> <<0, "">>, ops |-> ops, inputs |-> globals,
       outputs |-> [i \in DOMAIN results |-> [name |-> results[i], consumed |-> FALSE]],
       params |-> ParamNames(ws), consts |-> {ws[i].name : i \in DOMAIN ws} \ ParamNames(ws), edges |-> edges,
       weights |-> LET emitted == SelectSeq(ops, LAMBDA o : o.op = "weight") IN [i \in DOMAIN emitted |-> emitted[i].res]]>>
===============================================================================
