-------------------------------- MODULE Compile --------------------------------
(***************************************************************************)
(* One compilation, from an exported graph to what the library embeds:     *)
(* the walk over the graph (FxConvert), the cut into functions (FxSplit),  *)
(* the MLIR module built from them (compiler/artifact/ir.py), the cache    *)
(* policy bound to the functions (CachePolicy) and, in compile_dylib, the  *)
(* entry point (ChainWrapper), the ABI header (SfaAbi) and the op plan     *)
(* (OpPlan).                                                               *)
(***************************************************************************)
EXTENDS FxConvert

CONSTANTS
    OpsPerFunc,      \* ops_per_func of the split by count
    Requests(_),     \* the arguments a graph may be compiled with
    Strategies,      \* MixedPrecisionConfig.strategy: sequences of <<pattern, precision>>
    Checkpoints      \* checkpoints on disk: [format, entries], an entry [param, key, disk] with
                     \* the parameter's node, its key in the state dict and the one on disk,
                     \* <<>> for an alias that is not stored
ASSUME OpsPerFuncPositive == OpsPerFunc \in Nat \ {0}

VARIABLES
    stage,      \* the step of the compilation that is next
    req,        \* [policy, strategy, names]: the arguments, which the walk does not read, and
                \* how names sort; chosen when the walk has ended
    functions,  \* module.functions
    bindings,   \* metadata["cache_bindings"]
    policy,     \* metadata["cache_policy"]
    abi,        \* sfa_abi: the SfaFuncMeta entries
    plan        \* sfa_op_plan

compileVars == <<stage, req, functions, bindings, policy, abi, plan>>
vars == <<walkVars, compileVars>>

Split == INSTANCE FxSplit
Cache == INSTANCE CachePolicy
Ops == INSTANCE OpPlan
Abi == INSTANCE SfaAbi
Files == INSTANCE Artifact
Exec == INSTANCE Executor
Tensors == INSTANCE Weights
Lib == INSTANCE Dylib
Rewrites == INSTANCE Passes
Chain == INSTANCE ChainWrapper

\* sig.user_inputs
Globals == LET ins == SelectSeq(graph, LAMBDA n : n.kind = "input")
           IN  [i \in DOMAIN ins |-> <<"node", ins[i].name>>]

\* The order of the SSA names as strings: any order of the results is some program's,
\* and req.names selects one
Lex == LET all == AllOps
           rank(v) == (req.names * Min({i \in DOMAIN all : all[i].res = v})) % 97
       IN  [v \in {all[i].res : i \in DOMAIN all} |-> rank(v)]

\* Phases 4 and 5: where the operations are cut
Cuts == LET found == (IF req.strategy = "layer" THEN LayerCuts ELSE {})
                       \cup (IF Cache!HasSdpa(req.policy) THEN Split!SdpaCuts(AllOps) ELSE {})
        IN  IF found = {} /\ req.strategy # "layer" THEN Split!CountCuts(AllOps, OpsPerFunc) ELSE found

\* The module carries an execution plan
Planned == Cuts # {}

FxDone == stage = "convert" /\ (at > Len(graph) \/ Failed)

Choose ==
    /\ FxDone /\ ~Failed
    /\ req' \in Requests(graph)
    /\ stage' = "cut"
    /\ UNCHANGED <<walkVars, functions, bindings, policy, abi, plan>>

Unchanged(vs) == UNCHANGED <<walkVars, vs>>

\* The walk ended with an exception
ConvertFails ==
    /\ FxDone /\ Failed
    /\ stage' = "failed"
    /\ Unchanged(<<req, functions, bindings, policy, abi, plan>>)

\* The weights of a model that the split by count puts behind the first function
Unbound == LET B == Split!Blocks(AllOps, Cuts) IN Len(B) > 1 /\ Split!Unbound(B, {wts[i].name : i \in DOMAIN wts})

SplitFails ==
    /\ stage = "cut" /\ Unbound
    /\ stage' = "failed" /\ err' = "ValueError"
    /\ UNCHANGED <<graph, at, ssa, types, slices, tuples, wts, ops, layer, cuts, counter, outs,
                   req, functions, bindings, policy, abi, plan>>

\* Phase 6
Assemble ==
    /\ stage = "cut" /\ ~Unbound
    /\ LET B == Split!Blocks(AllOps, Cuts)
           names == [i \in DOMAIN outs |-> outs[i].name]
           shapes == [v \in ToSet(Globals) |-> types[v[2]].sh]
       IN  IF Len(B) = 1
           THEN /\ functions' = Split!SingleFunction(AllOps, Globals, names, wts, IF Planned THEN Split!EmptyPlan(Globals) ELSE <<>>)
                /\ bindings' = <<>>
           ELSE /\ functions' = Split!Functions(B, Globals, shapes, ToSet(names), wts, Lex)
                /\ bindings' = Split!Bindings(B, [f \in DOMAIN B |-> functions'[f].outputs], Cache!OperandSlab(req.policy))
    /\ stage' = "build"
    /\ Unchanged(<<req, policy, abi, plan>>)

-------------------------------------------------------------------------------
(* mlir_module_to_ir_module *)

\* The SSA values a function knows before its i-th operation
Known(f, i) == ToSet(f.inputs) \cup {f.ops[j].res : j \in 1..(i - 1)}

\* _resolve_operands finds every operand; a weight operation has none
Closed(f) == \A i \in DOMAIN f.ops : f.ops[i].op # "weight" => ToSet(f.ops[i].args) \subseteq Known(f, i)

\* _resolve_output_values: an output without a value is left out of the return
Returned(f) == SelectSeq(f.outputs, LAMBDA o : o.name \in Known(f, Len(f.ops) + 1))

BuildFails ==
    /\ stage = "build"
    /\ \E f \in DOMAIN functions : ~Closed(functions[f])
    /\ stage' = "failed" /\ err' = "RuntimeError"
    /\ UNCHANGED <<graph, at, ssa, types, slices, tuples, wts, ops, layer, cuts, counter, outs,
                   req, functions, bindings, policy, abi, plan>>

\* The module is built, and compile_mlir binds the policy before it saves the artifact
Save ==
    /\ stage = "build"
    /\ \A f \in DOMAIN functions : Closed(functions[f])
    /\ policy' = Cache!Bind(req.policy, bindings)
    /\ stage' = "embed"
    /\ Unchanged(<<req, functions, bindings, abi, plan>>)

-------------------------------------------------------------------------------
(* Steps 4 and 6 of compile_dylib *)

\* The type of a value, by name
TypeOf == LET all == AllOps IN
          [v \in {all[i].res : i \in DOMAIN all} \cup ToSet(Globals) |->
             IF v \in ToSet(Globals) THEN types[v[2]].sh
             ELSE all[Max({i \in DOMAIN all : all[i].res = v})].out.sh]

\* What lowering leaves of the functions: each keeps its wrapper and one descriptor per
\* returned value, and the first takes its weights as arguments
Lowered == [present |-> DOMAIN functions,
            descs |-> [f \in DOMAIN functions |-> Len(Returned(functions[f]))],
            weights |-> Abi!PromotedWeights(functions[1])]

\* The entry point, from the plan in metadata.json; a module of one function has none
Main == LET params == [f \in DOMAIN functions |-> Len(functions[f].inputs) + IF f = 1 THEN Len(Lowered.weights) ELSE 0]
            data == IF Len(functions) = 1 THEN <<>> ELSE Chain!Flattened(functions, Len(Split!GlobalNames(Globals, functions[1].ops)))
        IN  Chain!FixedUp(Chain!ChainWrapper(data, params, Lowered.descs),
                          [f \in DOMAIN functions |-> functions[f].name], params)

SlabOf == LET is == DOMAIN bindings IN
          [p \in {<<bindings[i][1], bindings[i][2]>> : i \in is} |->
              bindings[Max({i \in is : <<bindings[i][1], bindings[i][2]>> = p})][3]]

LoweringFails ==
    /\ stage = "embed"
    /\ Main.kind = "failure"
    /\ stage' = "failed" /\ err' = "RuntimeError"
    /\ UNCHANGED <<graph, at, ssa, types, slices, tuples, wts, ops, layer, cuts, counter, outs,
                   req, functions, bindings, policy, abi, plan>>

\* The symbols are embedded unless the op plan or the ABI and the policy disagree
Validated(metas, opPlan) ==
    LET bound == SelectSeq(policy.intercepts, LAMBDA i : i.func # -1)
        broken == policy.slabs # <<>> /\ (Len(metas) # Len(functions) \/ \E i \in DOMAIN bound : bound[i].func >= Len(metas))
    IN  IF opPlan.kind = "ValueError" \/ broken
        THEN /\ err' = IF opPlan.kind = "ValueError" THEN "ValueError" ELSE "RuntimeError"
             /\ stage' = "failed" /\ UNCHANGED <<abi, plan>>
        ELSE stage' = "done" /\ abi' = metas /\ plan' = opPlan /\ UNCHANGED err

EmbedSymbols ==
    /\ stage = "embed"
    /\ Main.kind # "failure"
    /\ Validated(Abi!Metas(functions, Planned, Lowered, TypeOf), Ops!GenerateOpPlan(functions, SlabOf, {wts[i].name : i \in DOMAIN wts}))
    /\ UNCHANGED <<graph, at, ssa, types, slices, tuples, wts, ops, layer, cuts, counter, outs,
                   req, functions, bindings, policy>>

-------------------------------------------------------------------------------
CompileInit(g) ==
    /\ WalkInit(g)
    /\ stage = "convert" /\ req = [policy |-> Cache!NoPolicy, strategy |-> "none", names |-> 0]
    /\ functions = <<>> /\ bindings = <<>> /\ policy = Cache!NoPolicy /\ abi = <<>> /\ plan = [kind |-> "none"]

Next == \/ stage = "convert" /\ WalkNext /\ UNCHANGED compileVars
        \/ ConvertFails \/ Choose \/ SplitFails \/ Assemble \/ BuildFails \/ Save \/ LoweringFails \/ EmbedSymbols

-------------------------------------------------------------------------------
(* Correctness *)

Done == stage = "done"

\* Where a value was defined: the operations that give it, as positions in AllOps
Defs(v) == LET all == AllOps IN {i \in DOMAIN all : all[i].res = v}
Once(v) == Cardinality(Defs(v)) <= 1

\* The definition the graph means by an operand of the n-th operation; 0 for an input of
\* the model
Meant(n, v) == LET before == {i \in Defs(v) : i < n} IN IF before = {} THEN 0 ELSE Max(before)

First(f) == FoldLeft(+, 0, [g \in 1..(f - 1) |-> Len(functions[g].ops)])
Own(f, i, v) == {j \in 1..(i - 1) : functions[f].ops[j].res = v}

\* The definition the runtime reaches: the function's own, or the output that the field of
\* its argument names; -1 when the output named is not that value
Reached(f, i, v) ==
    LET fields == abi[f].fields
        k == CHOOSE n \in DOMAIN functions[f].inputs : functions[f].inputs[n] = v
        field == fields[k]
        out == functions[field[2] + 1].outputs[field[3] + 1].name
    IN  IF Own(f, i, v) # {} THEN First(f) + Max(Own(f, i, v))
        ELSE IF v \notin ToSet(functions[f].inputs) THEN -1
        ELSE IF field = <<"GLOBAL">> THEN 0
        ELSE IF out # v \/ field[2] + 1 >= f THEN -1
        ELSE LET g == field[2] + 1 IN First(g) + Max(Own(g, Len(functions[g].ops) + 1, v))

Operand == UNION {{<<f, i, functions[f].ops[i].args[k]>> : k \in DOMAIN functions[f].ops[i].args} :
                    <<f, i>> \in {<<g, j>> \in (DOMAIN functions) \X (1..Len(AllOps)) :
                                    j <= Len(functions[g].ops) /\ functions[g].ops[j].op # "weight"}}

\* An argument of the f-th function is given, in main, the value v it stands for
GivenInMain(main, f, k, v) ==
    LET x == main.calls[f][k]
        args == functions[1].inputs \o Lowered.weights
        g == x[2] + 1
        d == Meant(First(f) + 1, v)
    IN  IF x[1] = "arg" THEN args[x[2] + 1] = v
        ELSE /\ Returned(functions[g])[x[3] + 1].name = v
             /\ First(g) < d /\ d <= First(g) + Len(functions[g].ops)

Inputs == UNION {{<<f, k, functions[f].inputs[k]>> : k \in DOMAIN functions[f].inputs} : f \in DOMAIN functions}

\* However the operations are cut into functions and their values sorted into inputs and
\* outputs, an operand arrives from the operation that gave it in the graph, by way of
\* the plan's edges and the ABI's fields, and in the calls of main, which is made for every
\* model with one result (_make_multi_functions, merge_with_semantics, SfChainWrapper.cpp).
\* A value that several operations give may not arrive.
Routed ==
    /\ Done => \A o \in Operand : Once(o[3]) => Reached(o[1], o[2], o[3]) = Meant(First(o[1]) + o[2], o[3])
    /\ Done => LET main == Main IN \A in \in Inputs : Once(in[3]) => GivenInMain(main, in[1], in[2], in[3])
    /\ (stage = "embed" /\ Len(outs) = 1 /\ \A in \in Inputs : Once(in[3])) => Main.kind = "main"

\* The op plan agrees with the graph too: a node's input is the node, the function output
\* or the weight that gives the operand (_resolve_input)
PlanRouted ==
    (Done /\ plan.kind = "plan") =>
        LET P == Ops!PlanOps(functions)
            before(n) == Cardinality({m \in 1..(n - 1) : P[m].func = P[n].func})
            place(n) == First(P[n].func) + before(n) + 1
        IN  \A n \in DOMAIN P : \A k \in DOMAIN P[n].op.args :
                LET v == P[n].op.args[k]
                    in == plan.nodes[n].inputs[k]
                IN  Once(v) =>
                      CASE in[1] = "SSA" -> place(in[2]) = Meant(place(n), v)
                        [] in[1] = "FUNC_OUTPUT" ->
                              LET g == in[2][1] + 1 IN
                              /\ in[2][2] + 1 \in DOMAIN functions[g].outputs /\ functions[g].outputs[in[2][2] + 1].name = v
                              /\ First(g) < Meant(place(n), v) /\ Meant(place(n), v) <= First(g) + Len(functions[g].ops)
                        [] OTHER -> AllOps[Meant(place(n), v)].op = "weight"

\* The operands of an operation have the types their definitions give, except a weight
\* that a later operation converts: no validation saw a type that is not there
TypesAgree ==
    stage = "embed" => LET all == AllOps IN \A o \in Operand :
        LET n == First(o[1]) + o[2]
            d == Meant(n, o[3])
            k == CHOOSE j \in DOMAIN all[n].args : all[n].args[j] = o[3]
            seen == all[n].ins
        IN  (Once(o[3]) /\ d # 0 /\ k \in DOMAIN seen) =>
               \/ seen[k] = all[d].out
               \/ all[d].op = "weight" /\ seen[k].sh = all[d].out.sh

\* Cutting the model leaves the operations what they were: no dimension is clamped
\* (_adjust_op_attributes), except that of an unsqueeze behind the last dimension of a
\* function's input, which then inserts its dimension before the last
CutKeepsAttributes ==
    stage = "embed" => \A f \in DOMAIN functions : \A i \in DOMAIN functions[f].ops :
        LET o == functions[f].ops[i]
            whole == AllOps[First(f) + i]
        IN  whole.kw = o.kw \/ (o.op = "unsqueeze" /\ whole.kw["dim"] = Len(o.ins[1].sh))

Attentions == {<<f, i>> \in (DOMAIN functions) \X (1..Len(AllOps)) :
                 i <= Len(functions[f].ops) /\ functions[f].ops[i].op = Split!SDPA}

\* A layer whose attention is cut off from its keys and values by other operations than
\* their repetition
Interrupted(f, i) == \E j \in 1..(i - 1) : functions[f].ops[j].op \notin Split!GqaRepeatOps

\* In a model with a KV policy the attention of every layer has its keys and its values, as
\* they were before repetition, bound to their slabs in the function before it; what is bound
\* is what the ABI marks consumed and what the runtimes read in the policy, and the op plan agrees
CacheBound ==
    (Done /\ Cache!HasSdpa(req.policy)) =>
        /\ \A a \in Attentions : ~Interrupted(a[1], a[2]) =>
              LET f == a[1]
                  sdpa == functions[f].ops[a[2]]
                  bound(slab) == {bindings[b][2] : b \in {c \in DOMAIN bindings : bindings[c][1] = f - 2 /\ bindings[c][3] = slab}}
                  source(k) == Split!CacheSource(functions[f].ops, sdpa.args[k])
              IN  \A k \in {2, 3} : \E o \in bound(<<"", "k", "v">>[k]) : functions[f - 1].outputs[o + 1].name = source(k)
        /\ \A f \in DOMAIN abi : \A o \in DOMAIN abi[f].consumed :
              abi[f].consumed[o] <=> <<f - 1, o - 1>> \in DOMAIN SlabOf
        /\ plan.kind = "plan" => \A p \in DOMAIN plan.outputs :
              (plan.outputs[p].lifetime = Ops!CacheOwned) <=> (p \in DOMAIN SlabOf)
        /\ \A wire \in {Cache!Serialized(policy), Cache!FromDict(policy)} :
              LET read == SelectSeq(Cache!FromProto(wire), LAMBDA i : <<i.func, i.out>> \in DOMAIN SlabOf)
              IN  bindings # <<>> => [k \in DOMAIN read |-> <<read[k].func, read[k].out, read[k].slab>>] = bindings

\* What compile_dylib reads is what compile wrote: the text gives back every function with
\* its operations, inputs, outputs and consumed flags; and a text that a killed compile cut
\* short between two lines is refused or read as its first functions, each of them whole
\* (mlir_module_to_text, _parse_mlir_text)
ReadBack ==
    stage = "embed" =>
        LET sts == Files!ParseStates(Files!Text(functions))
            read(n) == Files!Parsed(sts[n])
            bare(f) == [name |-> f.name, inputs |-> f.inputs, outputs |-> f.outputs,
                        ops |-> [k \in DOMAIN f.ops |->
                                    LET l == Files!OpLine(f.ops[k])
                                    IN  [x \in DOMAIN l \ {"line"} |-> l[x]]]]
        IN  \A n \in DOMAIN sts : read(n).ok =>
                /\ n = Len(sts) => Len(read(n).functions) = Len(functions)
                /\ \A f \in DOMAIN read(n).functions : read(n).functions[f] = bare(functions[f])

\* The compute graph of constants.bin names, for each argument of a function, the function
\* whose operation gives it, or the model's input (_emit_compute_graph_section).  Only
\* the first two are taken for the model's (binary.py:342), which has no third here
GraphRouted ==
    Done => \A f \in DOMAIN functions : \A i \in DOMAIN functions[f].inputs :
        LET v == functions[f].inputs[i]
            d == Meant(First(f) + 1, v)
            bound == Files!GraphInputs(functions, f)[i]
            g == bound[2] + 1
        IN  Once(v) => IF d = 0 THEN bound = <<"global">>
                       ELSE /\ bound[1] = "ssa" /\ First(g) < d
                            /\ d <= First(g) + Len(functions[g].ops)

\* A model of token ids and, at most, positions, that returns the result of one operation
\* (several results of a function are sorted by name, and the first is taken for the logits)
LanguageModel ==
    /\ Globals # <<>> /\ ToSet(Tail(Globals)) \subseteq Exec!Positions
    /\ \A n \in DOMAIN graph : graph[n].kind = "output" => Len(graph[n].args) = 1 /\ graph[n].args[1][2] \in DOMAIN ssa

\* However the checkpoint names its tensors, a weight of the model is bound to its own: by
\* the name mapping that the Rust runtime reads, and in the Python executor and the ctypes
\* passes, which may also not find it, and then fail or take zeros; also where compile_dylib
\* has to make the map of keys anew from the checkpoint's index (_build_name_mapping,
\* load_mlir_artifact, MlirExecutor.__init__, _get_weight).
\* Either name of a tied pair may be bound to the other's tensor.
WeightsBound ==
    (stage = "embed" /\ LanguageModel) => \A c \in Checkpoints :
        LET E == c.entries
            short(p) == Tensors!Clean(p.key)
            stored == SelectSeq(E, LAMBDA p : p.disk # <<>>)
            keys == [i \in DOMAIN stored |-> stored[i].disk]
            hfKeys == [i \in DOMAIN E |-> <<short(E[i]), E[i].key>>]
            the(name) == E[CHOOSE i \in DOMAIN E : E[i].param = name]
            tied == <<<<short(the("head")), short(the("table"))>>>>
            used == SelectSeq(E, LAMBDA p : \E f \in DOMAIN functions : \E o \in ToSet(functions[f].ops) : o.op = "weight" /\ o.res = <<"w", p.param>>)
            shorts == [i \in DOMAIN used |-> short(used[i])]
            mapping == Tensors!NameMapping(shorts, keys, hfKeys, tied)
            remapped == Tensors!NameMapping(shorts, keys, Tensors!Reconstructed(shorts, keys), tied)
            table == Tensors!ExecutorTable(c.format, keys, mapping, hfKeys, tied, Len(functions) > 1)
            loaded == Tensors!Loaded(c.format, keys, mapping, tied, Len(functions) > 1)
            own(p) == IF p.param \in {"head", "table"} THEN {the("head").disk, the("table").disk} \ {<<>>} ELSE {p.disk}
        IN  \A p \in ToSet(used) :
               /\ Tensors!Lookup(mapping, short(p)) \in own(p)
               /\ c.format = "safetensors_sharded" => Tensors!Lookup(remapped, short(p)) \in own(p)
               /\ Tensors!Lookup(table, short(p)) \in own(p) \cup {Tensors!Missing}
               /\ Tensors!GetWeight(loaded, hfKeys, tied, short(p)) \in own(p) \cup {Tensors!Missing}

\* What the Python executor loads
Loaded == [functions |-> functions, intercepts |-> policy.intercepts, weights |-> {wts[i].name : i \in DOMAIN wts},
           static |-> Exec!StaticShape([i \in DOMAIN Globals |-> types[Globals[i][2]].sh], Dyn)]

\* The value an operand of the n-th operation stands for
Meaning(n, v) == IF Meant(n, v) = 0 THEN <<"input", v>> ELSE <<"op", Meant(n, v)>>

ReturnedNode == LET n == CHOOSE m \in DOMAIN graph : graph[m].kind = "output" IN Ssa(graph[n].args[1][2])

\* A pass gives every operation the operands the exported graph gives it
GivenAsMeant ==
    LET st == Exec!RunForward(Loaded, FALSE)
        all == AllOps
    IN
    /\ ~st.failed
    /\ \A n \in DOMAIN all : all[n].op # "weight" =>
          \A k \in DOMAIN all[n].args : st.operands[n][k] = Meaning(n, all[n].args[k])
    /\ Exec!Logits(Loaded, st) = Meaning(Len(all) + 1, ReturnedNode)

\* In a decode step an attention reads its keys and values from a place that was written once
CachedOnce ==
    LET st == Exec!RunForward(Loaded, TRUE)
        fresh == {a \in Attentions : /\ Cache!HasSdpa(req.policy) /\ ~Interrupted(a[1], a[2])
                                     /\ Split!CacheSource(functions[a[1]].ops, functions[a[1]].ops[a[2]].args[2]) = functions[a[1]].ops[a[2]].args[2]}
        place(a) == First(a[1]) + a[2]
    IN  \A a \in fresh : \A k \in {2, 3} :
          LET read == st.operands[place(a)][k]
              ws == SelectSeq(st.writes, LAMBDA w : <<"cache", w.slab, w.layer>> = read)
          IN  /\ read[1] = "cache" /\ read[2] = <<"", "k", "v">>[k]
              /\ Len(ws) = 1
              /\ ws[1].value = Meaning(place(a), AllOps[place(a)].args[k]) /\ ws[1].at = place(a)

\* A pass of the Python executor gives every operation the operands that the exported graph
\* gives it, also where several operations have results of one name, and returns what the
\* graph returns; and in a decode step an attention reads its keys and its values from the
\* cache, each layer from a place of its own to which the pass has written what the attention
\* was to read (MlirExecutor._run_forward).  Left out of the second part are attentions whose
\* keys are repeated: the intercept is bound to the keys before their repetition and the
\* attention names them after it, so it does not apply.
Executed ==
    (stage = "embed" /\ LanguageModel) => GivenAsMeant /\ (Loaded.static \/ CachedOnce)

-------------------------------------------------------------------------------
(* The compiled library, called from Python for a sequence of length `len` *)

Actual(sh, len) == [i \in DOMAIN sh |-> IF sh[i] = Dyn THEN len ELSE sh[i]]

\* A weight other than a constant is an argument of the first function
Promotes(n) == AllOps[n].op = "weight" /\ AllOps[n].res[1] # "const"

\* Argument types (parse_lowered_argument_types), output types (parse_lowered_output_types)
\* and, external, what the kernels compute
Library(len) ==
    LET typed == TypeOf
        promoted == Lowered.weights
        params(f) == functions[f].inputs \o (IF f = 1 THEN promoted ELSE <<>>)
        returned == [f \in DOMAIN functions |-> Returned(functions[f])]
        whole(f) == Len(functions[f].ops) + 1
        kernel(f, v) == LET d == Own(f, whole(f), v) IN
                        IF d = {} \/ Promotes(First(f) + Max(d)) THEN <<"arg", CHOOSE k \in DOMAIN params(f) : params(f)[k] = v>>
                        ELSE <<"op", First(f) + Max(d)>>
    IN  [metas |-> abi,
         ins |-> [f \in DOMAIN functions |-> [k \in DOMAIN params(f) |-> Lib!Declared(typed[params(f)[k]], Dyn)]],
         outs |-> [f \in DOMAIN functions |-> [o \in DOMAIN returned[f] |-> Lib!Declared(typed[returned[f][o].name], Dyn)]],
         kernels |-> [f \in DOMAIN functions |-> [o \in DOMAIN returned[f] |-> kernel(f, returned[f][o].name)]],
         actual |-> [f \in DOMAIN functions |-> [o \in DOMAIN returned[f] |-> Actual(typed[returned[f][o].name], len)]],
         weights |-> [w \in {wts[i].name : i \in DOMAIN wts} |-> wts[CHOOSE i \in DOMAIN wts : wts[i].name = w].type.sh]]

\* The tensor an operand of the n-th operation stands for
MeantTensor(n, v) ==
    LET d == Meant(n, v) IN
    IF d = 0 THEN IF v = Globals[1] THEN <<"ids">> ELSE <<"positions">>
    ELSE IF Promotes(d) THEN <<"weight", v>> ELSE <<"op", d>>

Ids(len) == [value |-> <<"ids">>, shape |-> Actual(types[Globals[1][2]].sh, len)]

\* A pass through ctypes gives every function the tensors the exported graph gives it, and
\* returns the logits.  A tensor read has the shape it was computed in, as long as its sizes
\* were written or, in run_ctypes, one of the inputs of its function is a result that is
\* declared alike, all of them read in their own shapes.
Fed(len, sizes, repair) ==
    LET lib == Library(len)
        g == Lib!Graph(lib)
        st == Lib!RunCtypes(lib, Ids(len), sizes, repair)
        exact(f, o) == st.outputs[f][o].shape = lib.actual[f][o]
        results(f) == {in \in ToSet(g[f].inputs) : in.binding[1] = "ssa"}
        repaired(f, o) == /\ repair /\ \A in \in results(f) : exact(in.binding[2] + 1, in.binding[3] + 1)
                          /\ \E in \in results(f) : in.shape = g[f].outputs[o]
    IN  /\ \A f \in DOMAIN functions : \A k \in DOMAIN functions[f].inputs :
              LET v == functions[f].inputs[k] IN Once(v) => st.given[f][k].value = MeantTensor(First(f) + 1, v)
        /\ \A k \in DOMAIN Lowered.weights :
              st.given[1][Len(functions[1].inputs) + k].value = <<"weight", Lowered.weights[k]>>
        /\ \A f \in DOMAIN functions : \A o \in DOMAIN st.outputs[f] :
              (sizes = "written" \/ repaired(f, o)) => exact(f, o)
        /\ Lib!Logits(lib, st).value = MeantTensor(Len(AllOps) + 1, ReturnedNode)

\* The checks of scripts/checks find nothing to complain of, except that the one on parameters
\* knows one global input and functions named by their index, that the one on promoted weights
\* counts constants that were inlined, and that a value of several definitions is looked for
\* in the last of them
ChecksQuiet ==
    LET lib == Library(3)
        F == functions
        found == Lib!Verify(lib, F, [f \in DOMAIN F |-> Abi!PromotedWeights(F[f])])
        numbered == {f \in DOMAIN F : F[f].name = <<f - 1, "">> /\ Len(F) > 1 /\ (f = 1 => Len(Globals) = 1)}
        inlined == {f \in DOMAIN F : \E w \in ToSet(F[f].weights) : w[1] = "const"}
        unique == {f \in DOMAIN F : \A v \in ToSet(F[f].inputs) : Once(v)}
    IN  /\ found.ssa = {} /\ Lib!Unresolved(lib) = {}
        /\ found.order \cap unique = {}
        /\ found.parameters \cap numbered = {}
        /\ found.promoted \subseteq inlined
        /\ LanguageModel => Lib!SretShapes(lib, Ids(3)) = {}

\* However long the sequence is, and whether or not the kernels write the sizes of dynamic
\* dimensions, the library that was compiled computes through ctypes what the exported graph
\* does (run_ctypes, CtypesOracle.compare), and the consistency checks do not object to it
OracleAgrees ==
    Done => /\ ChecksQuiet
            /\ LanguageModel => \A len \in (IF types[Globals[1][2]].sh[2] = Dyn THEN {1, 3} ELSE {3}) :
                   \A sizes \in {"written", "negative"}, repair \in BOOLEAN : Fed(len, sizes, repair)

-------------------------------------------------------------------------------
(* Rewriting *)

\* The fusion passes, in C++ or in Python, whichever of their texts parse, and the insertion of
\* dequantize operations leave what every function returns as it was, also where a chain
\* is cut by a function's boundary or its values have other readers (fuse_silu_pass,
\* fuse_rms_norm_pass, insert_quantize_dequantize, SfFusionPasses.cpp).  Left out: a silu of
\* several readers, which the Python pass erases under them; a norm with a weight of its own,
\* which both passes drop; and a linear, which the C++ pass makes a matmul.
RewritesKeepResults ==
    stage = "embed" => \A f \in DOMAIN functions :
        LET returned == Returned(functions[f])
            built(o) == IF o.op = "weight" THEN [o EXCEPT !.args = <<>>] ELSE o
            fn == [ops |-> [n \in DOMAIN functions[f].ops |-> built(functions[f].ops[n])], outs |-> [k \in DOMAIN returned |-> returned[k].name]]
            unique == \A n \in DOMAIN fn.ops : \A m \in DOMAIN fn.ops : fn.ops[n].res = fn.ops[m].res => n = m
            chained(op) == \E n \in DOMAIN fn.ops : fn.ops[n].op = op /\ Rewrites!Chain(fn.ops, n)
            weighted == chained("matmul") /\ \E n \in DOMAIN fn.ops : fn.ops[n].op = "rms_norm" /\ Len(fn.ops[n].args) = 2
        IN  unique =>
               /\ (~weighted /\ ~Rewrites!Dangles(fn)) =>
                      \A parses \in [{1, 2} -> BOOLEAN] : Rewrites!SameResults(fn, Rewrites!PythonFusion(fn, parses))
               /\ (~weighted /\ ~chained("linear")) => Rewrites!SameResults(fn, Rewrites!CppFusion(fn))
               /\ \A s \in Strategies : Rewrites!SameResults(fn, Rewrites!InsertQuantizeDequantize(fn, s))
===============================================================================
