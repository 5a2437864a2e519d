--------------------------------- MODULE Dylib ---------------------------------
(***************************************************************************)
(* The compiled library called from Python: the graph that                 *)
(* compiler/dylib_ffi.py reads from its symbols and the buffers it passes, *)
(* the forward passes of scripts/ctypes_forward.py and ctypes_oracle.py,   *)
(* and what the scripts/checks verify of a compiled model.                 *)
(*                                                                         *)
(* A library is [metas, ins, outs, kernels, actual, weights]: the ABI's    *)
(* entries; for each function the shapes declared of its arguments and     *)
(* outputs; what each output is, <<"op", n>> or <<"arg", k>>, and its      *)
(* shape for the length of this pass; and the weights found.  A tensor is  *)
(* [value, shape].  Functions and outputs count from 0 in the bindings.    *)
(***************************************************************************)
EXTENDS Integers, Sequences, FiniteSets, SequencesExt, FiniteSetsExt

Unknown == 0

\* A dimension as the ABI declares it
Declared(sh, dyn) == [i \in DOMAIN sh |-> IF sh[i] = dyn THEN Unknown ELSE sh[i]]

-------------------------------------------------------------------------------
(* load_graph_from_proto *)

\* A global input is numbered within its function: 0 for the ids, else the positions
Binding(fields, k) ==
    CASE fields[k][1] = "GLOBAL" -> <<"global_input", Cardinality({j \in 1..(k - 1) : fields[j][1] = "GLOBAL"})>>
      [] fields[k][1] = "WEIGHT" -> <<"weight", fields[k][2]>>
      [] fields[k][1] = "SSA" -> <<"ssa", fields[k][2], fields[k][3]>>

Graph(lib) ==
    [f \in DOMAIN lib.metas |->
        LET fields == lib.metas[f].fields IN
        [inputs |-> [k \in DOMAIN fields |->
                        [binding |-> Binding(fields, k), shape |-> IF k \in DOMAIN lib.ins[f] THEN lib.ins[f][k] ELSE <<Unknown, Unknown>>]],
         outputs |-> lib.outs[f]]]

GlobalOutput(g) == <<Len(g) - 1, 0>>

-------------------------------------------------------------------------------
(* The arguments of a call *)

Zeros(shape) == [value |-> <<"zeros">>, shape |-> IF shape = <<>> THEN <<1>> ELSE [i \in DOMAIN shape |-> IF shape[i] > 0 THEN shape[i] ELSE 1]]

\* A weight or an output that is not there is replaced by zeros
Argument(lib, ids, outputs, in) ==
    LET b == in.binding IN
    CASE b[1] = "global_input" -> IF b[2] = 0 THEN ids ELSE [ids EXCEPT !.value = <<"positions">>]
      [] b[1] = "weight" -> IF b[2] \in DOMAIN lib.weights THEN [value |-> <<"weight", b[2]>>, shape |-> lib.weights[b[2]]] ELSE Zeros(in.shape)
      [] b[1] = "ssa" -> IF b[2] + 1 \in DOMAIN outputs /\ b[3] + 1 \in DOMAIN outputs[b[2] + 1]
                         THEN outputs[b[2] + 1][b[3] + 1] ELSE Zeros(in.shape)

-------------------------------------------------------------------------------
(* The buffer the kernel writes its results to *)

DescSize(rank) == 24 + 16 * rank
Offset(shapes, o) == FoldLeft(LAMBDA n, sh : n + DescSize(Len(sh)), 0, SubSeq(shapes, 1, o - 1))
SretSize(shapes) == Max({4096, Offset(shapes, Len(shapes) + 1)})

\* External: the kernel, given its arguments, writes a descriptor per result.  `sizes` says
\* whether it writes the sizes of dynamic dimensions or leaves negative ones.
Call(lib, f, args, sizes) ==
    LET outs == lib.actual[f]
        written(o) == [i \in DOMAIN outs[o] |-> IF sizes = "negative" /\ lib.outs[f][o][i] = Unknown THEN -1 ELSE outs[o][i]]
        result(o) == IF lib.kernels[f][o][1] = "arg" THEN args[lib.kernels[f][o][2]].value ELSE lib.kernels[f][o]
        at(n) == CHOOSE o \in DOMAIN outs : Offset(outs, o) = n
    IN  [n \in {Offset(outs, o) : o \in DOMAIN outs} |-> [value |-> result(at(n)), sizes |-> written(at(n))]]

Garbage == [value |-> <<"garbage">>, shape |-> <<>>]

\* parse_sret_outputs: a size that cannot be one gives way to the declared one, or to 1
ParseSret(sret, declared) ==
    [o \in DOMAIN declared |->
        LET at == Offset(declared, o)
            size(i) == LET s == sret[at].sizes[i] IN IF s > 0 THEN s ELSE IF declared[o][i] > 0 THEN declared[o][i] ELSE 1
        IN  IF at \in DOMAIN sret /\ Len(sret[at].sizes) = Len(declared[o]) /\ at + DescSize(Len(declared[o])) <= SretSize(declared)
            THEN [value |-> sret[at].value, shape |-> [i \in DOMAIN declared[o] |-> size(i)]]
            ELSE Garbage]

\* Mutant: an input of the same rank will do
ShapeSourcesRanked(fn, declared) == SelectSeq(fn.inputs, LAMBDA in : in.binding[1] = "ssa" /\ Len(in.shape) = Len(declared))

\* _find_shape_source: the first result among the inputs whose known dimensions agree
ShapeSources(fn, declared) ==
    SelectSeq(fn.inputs, LAMBDA in : /\ in.binding[1] = "ssa" /\ Len(in.shape) = Len(declared)
                                     /\ \A i \in DOMAIN declared : in.shape[i] = declared[i] \/ Unknown \in {in.shape[i], declared[i]})

\* _fix_output_shapes: where a dynamic dimension was read as 1 the result takes the shape of
\* that input, whether or not 1 is what the kernel wrote
FixShape(fn, outputs, o, tensor) ==
    LET declared == fn.outputs[o]
        sources == ShapeSources(fn, declared)
        b == sources[1].binding
        doubtful == tensor.shape # <<>> /\ \E i \in DOMAIN declared : declared[i] = Unknown /\ tensor.shape[i] = 1
    IN  IF doubtful /\ sources # <<>> /\ b[2] + 1 \in DOMAIN outputs /\ b[3] + 1 \in DOMAIN outputs[b[2] + 1]
        THEN [tensor EXCEPT !.shape = outputs[b[2] + 1][b[3] + 1].shape] ELSE tensor

-------------------------------------------------------------------------------
(* A pass over the functions in their order: the arguments each was given  *)
(* and the results read.  run_ctypes repairs the shapes, the oracle's      *)
(* compare does not.                                                       *)

Step(lib, g, ids, sizes, repair, st, f) ==
    LET args == [k \in DOMAIN g[f].inputs |-> Argument(lib, ids, st.outputs, g[f].inputs[k])]
        read == ParseSret(Call(lib, f, args, sizes), g[f].outputs)
        fixed == [o \in DOMAIN read |-> IF repair THEN FixShape(g[f], st.outputs, o, read[o]) ELSE read[o]]
    IN  [given |-> Append(st.given, args), outputs |-> [st.outputs EXCEPT ![f] = fixed]]

RunCtypes(lib, ids, sizes, repair) ==
    LET g == Graph(lib) IN
    FoldLeft(LAMBDA st, f : Step(lib, g, ids, sizes, repair, st, f),
             [given |-> <<>>, outputs |-> [f \in DOMAIN g |-> <<>>]], [f \in DOMAIN g |-> f])

Logits(lib, st) == LET out == GlobalOutput(Graph(lib)) IN st.outputs[out[1] + 1][out[2] + 1]

-------------------------------------------------------------------------------
(* Checks on a compiled model: the places each one complains of *)

\* verify_output_shapes
OutputShapes(lib, st) ==
    LET g == Graph(lib)
        wrong(f, o) == LET sh == st.outputs[f][o].shape
                           declared == g[f].outputs[o]
                       IN  Len(sh) # Len(declared) \/ \E i \in DOMAIN declared : declared[i] > 0 /\ sh[i] # declared[i]
    IN  {f \in DOMAIN g : Len(st.outputs[f]) # Len(g[f].outputs) \/ \E o \in DOMAIN g[f].outputs : wrong(f, o)}

\* check_ssa_bindings
SsaBindings(lib) ==
    LET g == Graph(lib) IN
    {f \in DOMAIN g : \E in \in ToSet(g[f].inputs) :
        in.binding[1] = "ssa" /\ (in.binding[2] >= Len(g) \/ in.binding[3] >= Len(g[in.binding[2] + 1].outputs))}

\* check_topological_order
TopologicalOrder(lib) ==
    LET g == Graph(lib) IN {f \in DOMAIN g : \E in \in ToSet(g[f].inputs) : in.binding[1] = "ssa" /\ in.binding[2] >= f - 1}

\* verify_bindings of the oracle: weights that are not found
Unresolved(lib) ==
    LET g == Graph(lib) IN {f \in DOMAIN g : \E in \in ToSet(g[f].inputs) : in.binding[1] = "weight" /\ in.binding[2] \notin DOMAIN lib.weights}

\* parse_compute_graph_outputs: inputs of a function by kind
Count(fn, kind) == Cardinality({k \in DOMAIN fn.inputs : fn.inputs[k].binding[1] = kind})
WeightsOf(fn) == LET ws == SelectSeq(fn.inputs, LAMBDA in : in.binding[1] = "weight") IN [k \in DOMAIN ws |-> ws[k].binding[2]]

\* The functions of the module called main_<n>, the only ones these two checks know
Numbered(F, n) == {f \in DOMAIN F : F[f].name = <<n, "">> /\ Len(F) > 1}

\* parse_lowered_ir_input_shapes and parse_lowered_weight_names, for main_<n> of a lowered
\* module in generic form
Params(lib, F, n) == IF Numbered(F, n) = {} THEN 0 ELSE Len(lib.ins[CHOOSE f \in Numbered(F, n) : TRUE])
NamesOf(F, names, n) == IF Numbered(F, n) = {} THEN <<>> ELSE names[CHOOSE f \in Numbered(F, n) : TRUE]

\* check_parameter_binding: one global input is allowed for
ParameterBinding(lib, F, names) ==
    LET g == Graph(lib) IN
    {f \in DOMAIN g :
        \/ Count(g[f], "weight") + Count(g[f], "ssa") # Params(lib, F, f - 1) - (IF Count(g[f], "global_input") > 0 THEN 1 ELSE 0)
        \/ WeightsOf(g[f]) # <<>> /\ NamesOf(F, names, f - 1) # <<>> /\ WeightsOf(g[f]) # NamesOf(F, names, f - 1)}

\* verify_weight_promotion_order: the weight operations of main_0, and weight_names of the
\* other functions, are the names of the lowered function; constants are not left out
PromotionOrder(F, names) ==
    LET emitted(f) == SelectSeq(F[f].ops, LAMBDA o : o.op = "weight")
        original(f) == IF f \in Numbered(F, 0) THEN [i \in DOMAIN emitted(f) |-> emitted(f)[i].res] ELSE F[f].weights
    IN  {f \in DOMAIN F : Len(original(f)) # Len(names[f]) \/ ToSet(original(f)) # ToSet(names[f])}

\* check_sret_shapes: the shapes that the oracle reads
SretShapes(lib, ids) == OutputShapes(lib, RunCtypes(lib, ids, "written", FALSE))

\* verify, steps 6, 7, 8 and 12
Verify(lib, F, names) ==
    [parameters |-> ParameterBinding(lib, F, names), ssa |-> SsaBindings(lib), order |-> TopologicalOrder(lib),
     promoted |-> PromotionOrder(F, names)]
===============================================================================
