------------------------------- MODULE Executor -------------------------------
(***************************************************************************)
(* One forward pass of the Python executor over a compiled module:         *)
(* MlirExecutor._run_forward (python_runtime/engine/mlir_executor.py).     *)
(* The functions run one after the other over one dictionary of values,    *)
(* `env'.  A value is <<"op", n>>, the result of the n-th operation of the *)
(* pass, <<"input", name>>, <<"tensor">> for a weight, <<"empty">>, or     *)
(* <<"cache", slab, layer>> for what the cache manager gathers.            *)
(*                                                                         *)
(* A module is [functions, intercepts, static, weights]: the functions as  *)
(* they were read back, the intercepts of the policy, whether the shape of *)
(* the model's input is fixed, and the names of the tensors it has.        *)
(***************************************************************************)
EXTENDS Integers, Sequences, FiniteSets, SequencesExt, FiniteSetsExt

Empty == <<"empty">>
NotProduced == <<"KeyError">>

\* _detect_static_shape: an input of `main', the first function, with two fixed dimensions
StaticShape(shapes, dyn) == \E i \in DOMAIN shapes : Len(shapes[i]) >= 2 /\ dyn \notin {shapes[i][1], shapes[i][2]}

UsesCacheManager(m) == m.intercepts # <<>> /\ ~m.static

\* _ssa_producer: <<function, output>> of a name, from 0; the last function of that name
SsaProducer(functions, v) ==
    LET fs == {f \in DOMAIN functions : \E i \in DOMAIN functions[f].outputs : functions[f].outputs[i].name = v}
        f == Max(fs)
    IN  IF fs = {} THEN <<>>
        ELSE <<f - 1, Max({i \in DOMAIN functions[f].outputs : functions[f].outputs[i].name = v}) - 1>>

Set(env, v, x) == [w \in DOMAIN env \cup {v} |-> IF w = v THEN x ELSE env[w]]

-------------------------------------------------------------------------------
(* The state of a pass: env, the number of operations run, the operands    *)
(* each was given, the layer counters of the slabs, what was written to    *)
(* the cache, and whether a KeyError ended it.                             *)

Operand(source) == IF source = "operand[1]" THEN 2 ELSE 3

\* The contract filter: the intercept is bound to the output that the operand names
Applies(m, i, o) ==
    /\ i.op = o.op
    /\ Operand(i.source) \in DOMAIN o.args
    /\ (i.func # -1 /\ i.out # -1) => SsaProducer(m.functions, o.args[Operand(i.source)]) = <<i.func, i.out>>

\* _handle_cache_intercept for one intercept: write under the next layer of the slab, and in
\* a decode step read back what the layer holds
Intercept(m, decode, o, st, i) ==
    LET v == o.args[Operand(i.source)]
        layer == st.layers[i.slab]
    IN  IF ~Applies(m, i, o) \/ v \notin DOMAIN st.env THEN st
        ELSE [st EXCEPT !.layers[i.slab] = @ + 1,
                        !.writes = Append(@, [slab |-> i.slab, layer |-> layer, value |-> st.env[v], at |-> st.n + 1]),
                        !.env = IF decode THEN Set(@, v, <<"cache", i.slab, layer>>) ELSE @]

Intercepted(m, decode, o, st) ==
    IF UsesCacheManager(m) THEN FoldLeft(LAMBDA s, i : Intercept(m, decode, o, s, i), st, m.intercepts) ELSE st

\* The operands of an operation: a value of the pass, else a weight
Given(m, env, v) ==
    IF v \in DOMAIN env THEN env[v] ELSE IF v \in m.weights THEN <<"tensor">> ELSE NotProduced

\* _execute_op.  A weight that is not there gives nothing; a copy also replaces the value it
\* copies into.
ExecuteOp(m, decode, st, o) ==
    LET s == Intercepted(m, decode, o, st)
        given == [k \in DOMAIN o.args |-> Given(m, s.env, o.args[k])]
        copied == IF o.op \in {"copy", "copy_"} /\ o.args # <<>> /\ o.args[1] \in DOMAIN s.env THEN {o.args[1]} ELSE {}
        results == {o.res} \cup copied
    IN
    CASE st.failed -> st
      [] ~st.failed /\ o.op = "weight" ->
            [st EXCEPT !.n = @ + 1, !.operands = Append(@, <<>>),
                       !.env = IF o.res \in m.weights THEN Set(@, o.res, <<"op", st.n + 1>>) ELSE @]
      [] ~st.failed /\ o.op # "weight" /\ NotProduced \in ToSet(given) -> [st EXCEPT !.failed = TRUE]
      [] OTHER -> [s EXCEPT !.n = @ + 1, !.operands = Append(@, given), !.env = [v \in DOMAIN @ \cup results |-> IF v \in results THEN <<"op", s.n + 1>> ELSE @[v]]]

\* The inputs of a function: the ids and the positions for the first, an empty tensor for
\* what no function before this one has given
Positions == {<<"node", "positions">>, <<"node", "position_ids">>}

BindInputs(st, f, inputs) ==
    LET given(v) == CASE f = 1 /\ v = inputs[1] -> <<"input", v>>
                      [] f = 1 /\ v # inputs[1] -> IF v \in Positions THEN <<"input", v>> ELSE NotProduced
                      [] OTHER -> Empty
        new == {v \in ToSet(inputs) \ DOMAIN st.env : given(v) # NotProduced}
    IN  [st EXCEPT !.env = [v \in DOMAIN @ \cup new |-> IF v \in new THEN given(v) ELSE @[v]]]

\* Mutant: outputs nobody gave are not entered, and every function starts from its inputs
RunFunctionAlone(m, decode, st, f) ==
    LET fn == m.functions[f]
        own == [st EXCEPT !.env = [v \in DOMAIN @ \cap ToSet(fn.inputs) |-> @[v]]]
        start == [BindInputs(own, f, fn.inputs) EXCEPT !.layers = [s \in DOMAIN @ |-> 0]]
    IN  FoldLeft(LAMBDA s, o : ExecuteOp(m, decode, s, o), start, fn.ops)

RunFunction(m, decode, st, f) ==
    LET fn == m.functions[f]
        ran == FoldLeft(LAMBDA s, o : ExecuteOp(m, decode, s, o), BindInputs(st, f, fn.inputs), fn.ops)
        absent == {fn.outputs[i].name : i \in DOMAIN fn.outputs} \ DOMAIN ran.env
    IN  [ran EXCEPT !.env = [v \in DOMAIN @ \cup absent |-> IF v \in absent THEN Empty ELSE @[v]]]

\* begin_step resets the layer counters once per pass; _reset_forward_state does not
RunForward(m, decode) ==
    FoldLeft(LAMBDA st, f : RunFunction(m, decode, st, f),
             [env |-> <<>>, n |-> 0, operands |-> <<>>, layers |-> [s \in {m.intercepts[i].slab : i \in DOMAIN m.intercepts} |-> 0],
              writes |-> <<>>, failed |-> FALSE],
             [f \in DOMAIN m.functions |-> f])

\* forward_with_kv: the first output of the last function, or the last result if it is empty
Logits(m, st) ==
    LET fn == Last(m.functions)
        out == IF fn.outputs = <<>> THEN Empty ELSE st.env[fn.outputs[1].name]
        result == Last(fn.ops).res
    IN  IF out = Empty /\ fn.ops # <<>> /\ result \in DOMAIN st.env THEN st.env[result] ELSE out
===============================================================================
