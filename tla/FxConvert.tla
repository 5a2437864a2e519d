------------------------------- MODULE FxConvert -------------------------------
(***************************************************************************)
(* The walk of fx_graph_to_mlir (compiler/fx/converter.py) over an         *)
(* exported graph: phases 1 to 4, with the type resolution of              *)
(* compiler/fx/utils.py.  One action handles one node of the graph.        *)
(*                                                                         *)
(* A node is [name, kind, hal, args, kw, stack, val]: `hal` the operation  *)
(* _map_aten_op gives ("unmapped" for None), `stack` what its              *)
(* nn_module_stack names, `val` the type of the value torch computes.  An  *)
(* argument is a tuple led by its sort: <<"node", name>>, <<"int", n>>,    *)
(* <<"float">>, <<"bool", b>>, <<"sym">> (a SymInt without a value),       *)
(* <<"dtype", elt>> or <<"list", arguments>>.  SSA names are tuples led by *)
(* their prefix; the "%" is left out, as _ssa_key does.                    *)
(***************************************************************************)
EXTENDS ShapeInference, TLC

VARIABLES
    graph,     \* the exported program's nodes, in order
    at,        \* the node the walk is at
    ssa,       \* ssa_map: node name -> SSA name
    types,     \* shape_map: node name -> type
    slices,    \* shape_map of the slices of split and chunk: SSA name -> type
    tuples,    \* tuple_outputs: node name -> SSA names of its slices
    wts,       \* weights, in dictionary order: [name, type, param]
    ops,       \* mlir_ops
    layer,     \* current_layer
    cuts,      \* layer_boundaries: the operations a new layer starts at
    counter,   \* name_counter
    outs,      \* func_outputs: [name, type]
    err        \* the exception that ended the compilation, or "none"

walkVars == <<graph, at, ssa, types, slices, tuples, wts, ops, layer, cuts, counter, outs, err>>

Node == graph[at]
Failed == err # "none"

\* A map a -> b added to a Python dict
With(f, a, b) == [x \in DOMAIN f \cup {a} |-> IF x = a THEN b ELSE f[x]]
NoMap == [x \in {} |-> x]

-------------------------------------------------------------------------------
(* Layers *)

Embed == -1     \* "embed_prefix"
Output == -2    \* "output"; N >= 0 is "layer_N"

\* _detect_layer: stack is "none", "head", "other" or the number of a decoder layer
DetectLayer(stack, prev) ==
    CASE stack = <<"none">> -> prev
      [] stack[1] = "layer" -> stack[2]
      [] stack = <<"head">> -> Output
      [] OTHER -> IF prev >= 0 THEN Output ELSE Embed

EnterLayer ==
    /\ layer' = DetectLayer(Node.stack, layer)
    /\ cuts' = IF layer' # layer THEN cuts \cup {Len(ops) + 1} ELSE cuts

-------------------------------------------------------------------------------
(* The registry of operations, dialect/_op_defs.py *)

\* scalar arguments that become attributes: position (from 0) -> attribute
ScalarKw(op) ==
    CASE op \in {"softmax", "unsqueeze", "cat", "cumsum", "sym_size"} -> (1 :> "dim")
      [] op = "transpose" -> (1 :> "dim0") @@ (2 :> "dim1")
      [] op = "slice" -> (1 :> "dim") @@ (2 :> "start") @@ (3 :> "end") @@ (4 :> "step")
      [] op = "select" -> (1 :> "dim") @@ (2 :> "index")
      [] op = "mean" -> (2 :> "keepdim")
      [] op = "sum" -> (1 :> "dim") @@ (2 :> "keepdim")
      [] op = "scaled_dot_product_attention" -> (4 :> "dropout_p") @@ (5 :> "is_causal")
      [] op = "full_like" -> (1 :> "fill_value")
      [] op = "eye" -> (0 :> "n") @@ (1 :> "m")
      [] op = "identity" -> (1 :> "dtype")
      [] op \in {"triu", "tril"} -> (1 :> "diagonal")
      [] op = "diff" -> (1 :> "n") @@ (2 :> "dim")
      [] op = "conv1d" -> (2 :> "bias") @@ (3 :> "stride") @@ (4 :> "padding") @@ (5 :> "dilation") @@ (6 :> "groups")
      [] op \in {"embedding", "pad"} -> NoMap
      [] OTHER -> NoMap

\* scalar positions dropped without becoming an attribute
ScalarSkip(op) == CASE op = "embedding" -> {2} [] op = "pad" -> {1} [] OTHER -> {}

\* What becomes of a list argument: an attribute, operands, or nothing
ListAttr(op) ==
    CASE op \in {"layer_norm", "rms_norm"} -> "normalized_shape"
      [] op \in {"view", "ones_like", "full_like", "zeros"} -> "shape"
      [] op = "permute" -> "dims"
      [] op = "sum" -> "dim"
      [] op = "pad" -> "pad"
      [] op = "conv1d" -> "conv1d"
      [] op \in {"expand", "cat", "index", "einsum"} -> "operands"
      [] OTHER -> "skip"

-------------------------------------------------------------------------------
(* Arguments *)

Ssa(n) == IF n \in DOMAIN ssa THEN ssa[n] ELSE <<"node", n>>

Const(k) == <<"const", k>>

\* An argument that turns into a constant of its own: a scalar at no attribute position
Scalar(op, i, a) == a[1] \in {"int", "float", "sym"} /\ i - 1 \notin DOMAIN ScalarKw(op) \cup ScalarSkip(op)

\* How many constants the arguments before the i-th have taken from name_counter
ConstsBefore(op, args, i) == Cardinality({j \in 1..(i - 1) : Scalar(op, j, args[j])})

ListNodes(a) == LET ns == SelectSeq(a[2], LAMBDA x : x[1] = "node") IN [k \in DOMAIN ns |-> Ssa(ns[k][2])]

\* _collect_input_args: the operands
Operands(op, args) ==
    FlattenSeq([i \in DOMAIN args |->
        LET a == args[i] IN
        CASE a[1] = "node" -> <<Ssa(a[2])>>
          [] Scalar(op, i, a) -> <<Const(counter + ConstsBefore(op, args, i))>>
          [] a[1] = "list" /\ ListAttr(op) \notin {"skip", "conv1d"} -> ListNodes(a)
          [] OTHER -> <<>>])

\* ... the constants it adds to the weights: integers, a SymInt without a value (1), floats
ScalarConsts(op, args) ==
    LET new == SelectSeq([i \in DOMAIN args |-> i], LAMBDA i : Scalar(op, i, args[i])) IN
    [k \in DOMAIN new |-> [name |-> Const(counter + k - 1), param |-> FALSE,
                           type |-> [sh |-> <<1>>, elt |-> IF args[new[k]][1] = "float" THEN "f32" ELSE "i64"]]]

\* ... and the attributes.  A list entry that is a node is a dynamic dimension.
Entry(x) == CASE x[1] = "int" -> x[2] [] OTHER -> Dyn
KwValue(a) == CASE a[1] = "list" -> [k \in DOMAIN a[2] |-> Entry(a[2][k])]
                [] a[1] \in {"int", "bool", "dtype"} -> a[2]
                [] OTHER -> Dyn

KwName(op, i, a) ==
    CASE a[1] = "list" /\ ListAttr(op) = "operands" -> "shape"
      [] a[1] = "list" /\ ListAttr(op) = "conv1d" -> Get(ScalarKw(op), i - 1, "none")
      [] a[1] = "list" /\ ListAttr(op) # "skip" -> ListAttr(op)
      [] a[1] # "node" /\ i - 1 \in DOMAIN ScalarKw(op) -> ScalarKw(op)[i - 1]
      [] OTHER -> "none"

Attributes(op, n) ==
    LET named == {i \in DOMAIN n.args : KwName(op, i, n.args[i]) # "none"}
        names == {KwName(op, i, n.args[i]) : i \in named}
        extra == [k \in names |-> KwValue(n.args[CHOOSE i \in named : KwName(op, i, n.args[i]) = k])]
        kw == extra @@ n.kw
    IN  IF op \in FillOps /\ Operands(op, n.args) = <<>> /\ "shape" \notin DOMAIN kw
        THEN kw @@ ("shape" :> IF op = "ones_like" THEN <<1, 1>> ELSE <<1>>) ELSE kw

\* _semantic_ssa_name
ResultName(op, n, kw, k) ==
    CASE op = "sym_size" -> <<"dim", Ssa(n.args[1][2]), Get(kw, "dim", -1)>>
      [] op = "arange" -> <<"arange", k>>
      [] op = "le" -> <<"causal_mask">>
      [] op = "expand" -> <<"attn_mask", k>>
      [] op = "logical_and" -> <<"mask_and", k>>
      [] op = "view" -> <<"reshape", k>>
      [] OTHER -> <<"node", n.name>>

-------------------------------------------------------------------------------
(* Types of the operands, and their promotion: _resolve_op_types *)

WeightIndex(ws, name) == {i \in DOMAIN ws : ws[i].name = name}

\* The first node whose SSA name or own name is the operand's; else the weight of that name.
\* Every operand is a node's SSA name or a fresh constant's: the search for a node whose name
\* begins the operand's has none to find.
OperandType(ws, name) ==
    LET owners == {i \in DOMAIN graph : graph[i].name \in DOMAIN ssa /\ ssa[graph[i].name] = name}
        first == graph[CHOOSE i \in owners : \A j \in owners : i <= j].name
    IN
    CASE owners # {} /\ first \in DOMAIN types -> types[first]
      [] owners = {} /\ name[1] = "node" /\ name[2] \in DOMAIN types -> types[name[2]]
      [] WeightIndex(ws, name) # {} -> ws[CHOOSE i \in WeightIndex(ws, name) : TRUE].type
      [] OTHER -> [sh |-> <<2, 64>>, elt |-> "f32"]

SameTypeOps == {"add", "mul", "sub", "div", "max", "pow"}
FloatOps == {"linear", "layer_norm", "rms_norm", "softmax", "relu", "gelu", "silu", "sigmoid", "tanh",
             "exp", "neg", "matmul", "mean", "cumsum"}
Floats == {"f32", "f16", "bf16"}

\* Mutant: whatever meets an f32 is taken for a weight
PromotionUnchecked(ws, a, b, name) ==
    CASE a = "f32" /\ b \in {"bf16", "f16"} -> [how |-> "weight", elt |-> "f32"]
      [] a # b /\ name[1] = "const" -> [how |-> "weight", elt |-> a]
      [] OTHER -> [how |-> "fine", elt |-> b]

\* What PyTorch's promotion does to the second operand of a binary operation:
\* "fine", "weight" (the tensor is converted in place to `elt`), "cast" (an
\* sf.identity before the operation, to f32), "kept" (a constant left as it is)
\* or "error"
Promotion(ws, a, b, name) ==
    CASE a = b -> [how |-> "fine", elt |-> b]
      [] a # b /\ name[1] = "const" ->
            CASE b = "i64" /\ a \in {"f32", "f16"} -> [how |-> "weight", elt |-> a]
              [] b = "f32" /\ a \in {"f16", "bf16"} -> [how |-> "weight", elt |-> a]
              [] OTHER -> [how |-> "kept", elt |-> b]
      [] a = "f32" /\ b \in {"bf16", "f16"} /\ WeightIndex(ws, name) # {} -> [how |-> "weight", elt |-> "f32"]
      [] a # b /\ {a, b} \subseteq Floats -> [how |-> "cast", elt |-> "f32"]
      [] OTHER -> [how |-> "error", elt |-> b]

Convert(ws, name, elt) ==
    [i \in DOMAIN ws |-> IF ws[i].name = name THEN [ws[i] EXCEPT !.type.elt = elt] ELSE ws[i]]

Binary(op, ins) == op \in SameTypeOps /\ Len(ins) >= 2

\* A validation that raises TypeError
Mistyped(op, ins, names, ws) ==
    \/ Binary(op, ins) /\ Promotion(ws, ins[1].elt, ins[2].elt, names[2]).how = "error"
    \/ op \in {"le", "ge", "gt", "lt", "eq", "ne"} /\ \E i \in DOMAIN ins : ins[i].elt # ins[1].elt
    \/ op \in FloatOps /\ \E i \in DOMAIN ins : ins[i].elt \notin Floats \cup {"f64"}
    \/ op = "index" /\ \E i \in 2..Len(ins) : ins[i].elt \notin {"i64", "i32", "f32", "f64"}

-------------------------------------------------------------------------------
(* The handlers of the nodes *)

Op(op, names, res, ins, out, kw) ==
    [op |-> op, args |-> names, res |-> res, ins |-> ins, out |-> out, kw |-> kw, layer |-> layer']

Advance == at' = at + 1

\* placeholder and get_attr: the value is named for the parameter or the node
Bind ==
    /\ Node.kind \in {"input", "param", "get_attr"}
    /\ ssa' = With(ssa, Node.name, IF Node.kind = "input" THEN <<"node", Node.name>> ELSE <<"w", Node.name>>)
    /\ types' = With(types, Node.name, Node.val)
    /\ Advance
    /\ UNCHANGED <<graph, slices, tuples, wts, ops, layer, cuts, counter, outs, err>>

\* An operator without a mapping is skipped; only its type is remembered
SkipUnmapped ==
    /\ Node.kind = "call" /\ Node.hal = "unmapped"
    /\ types' = With(types, Node.name, Node.val)
    /\ Advance
    /\ UNCHANGED <<graph, ssa, slices, tuples, wts, ops, layer, cuts, counter, outs, err>>

\* wrap_with_set_grad_enabled: its result stands for the first input
SkipWrap ==
    /\ Node.kind = "call" /\ Node.hal = "_skip_wrap"
    /\ EnterLayer
    /\ ssa' = With(ssa, Node.name,
                   <<"node", graph[CHOOSE i \in DOMAIN graph : /\ graph[i].kind = "input"
                                                               /\ \A j \in 1..(i - 1) : graph[j].kind # "input"].name>>)
    /\ Advance
    /\ UNCHANGED <<graph, types, slices, tuples, wts, ops, counter, outs, err>>

\* _do_getitem: one of the slices of a split, else a sym_size operation
GetItem ==
    /\ Node.kind = "call" /\ Node.hal = "getitem"
    /\ EnterLayer
    /\ LET src == Node.args[1][2]
           idx == Node.args[2][2]
           hit == src \in DOMAIN tuples /\ idx < Len(tuples[src])
           name == IF hit THEN tuples[src][idx + 1] ELSE <<"node", Node.name>>
       IN  /\ ssa' = With(ssa, Node.name, name)
           /\ types' = IF hit /\ name \in DOMAIN slices THEN With(types, Node.name, slices[name]) ELSE types
           /\ ops' = IF hit THEN ops ELSE Append(ops, Op("sym_size", <<Ssa(src)>>, name, <<>>, [sh |-> <<>>, elt |-> "f32"], NoMap))
    /\ Advance
    /\ UNCHANGED <<graph, slices, tuples, wts, counter, outs, err>>

\* The sizes _do_split is given and the ones _do_chunk computes
SplitSizes(n) == IF \E i \in DOMAIN n.args[2][2] : n.args[2][2][i][1] # "int" THEN <<>>
                 ELSE [i \in DOMAIN n.args[2][2] |-> n.args[2][2][i][2]]
ChunkSizes(total, n) == [i \in 1..n |-> total \div n + (IF i - 1 < total % n THEN 1 ELSE 0)]

\* _do_split and _do_chunk: one slice per part, at consecutive offsets
SplitOrChunk ==
    /\ Node.kind = "call" /\ Node.hal \in {"split", "chunk"}
    /\ EnterLayer
    /\ LET src == Node.args[1][2]
           dim == IF Len(Node.args) > 2 THEN Node.args[3][2] ELSE 0
           t == types[src]
           p == Pos(t.sh, dim)
           fake == graph[CHOOSE j \in DOMAIN graph : graph[j].name = src].val
           total == IF t.sh[p] = Dyn THEN fake.sh[p] ELSE t.sh[p]
           sizes == IF Node.hal = "split" THEN SplitSizes(Node)
                    ELSE IF total = Dyn THEN <<>> ELSE ChunkSizes(total, Node.args[2][2])
           name(i) == <<"slice", Node.name, i - 1>>
           type(i) == Printed([t EXCEPT !.sh = SetDim(t.sh, p, sizes[i])])
       IN  /\ ops' = ops \o [i \in DOMAIN sizes |-> Op("slice", <<Ssa(src)>>, name(i), <<t>>, type(i), NoMap)]
           /\ slices' = [i \in {name(k) : k \in DOMAIN sizes} |-> type(i[3] + 1)] @@ slices
           /\ IF sizes = <<>> THEN UNCHANGED <<tuples, ssa, types>>
              ELSE /\ tuples' = With(tuples, Node.name, [i \in DOMAIN sizes |-> name(i)])
                   /\ ssa' = With(ssa, Node.name, name(1))
                   /\ types' = With(types, Node.name, type(1))
    /\ Advance
    /\ UNCHANGED <<graph, wts, counter, outs, err>>

\* _collect_arange_args: (start constant, size); a size the graph computes is an operand
ArangeForm(n) ==
    LET a == n.args
        start == IF Len(a) = 1 THEN <<"int", 0>> ELSE a[1]
        end == IF Len(a) = 1 THEN a[1] ELSE a[2]
        step == IF Len(a) >= 3 THEN a[3] ELSE <<"int", 1>>
        const(k, elt) == [name |-> Const(counter + k), param |-> FALSE, type |-> [sh |-> <<1>>, elt |-> elt]]
        first == const(0, IF start[1] = "float" THEN "f32" ELSE "i64")
    IN  [ok |-> step = <<"int", 1>> /\ start[1] # "node" /\ (end[1] = "node" => start = <<"int", 0>>) /\ end[1] # "sym",
         names |-> <<first.name, IF end[1] = "node" THEN Ssa(end[2]) ELSE Const(counter + 1)>>,
         consts |-> <<first>> \o (IF end[1] = "node" THEN <<>> ELSE <<const(1, "i64")>>)]

Special == {"unmapped", "_skip_wrap", "getitem", "split", "chunk"}

\* The operands of a call and the constants it adds
Collected(n) ==
    IF n.hal = "arange" THEN ArangeForm(n)
    ELSE [ok |-> TRUE, names |-> Operands(n.hal, n.args), consts |-> ScalarConsts(n.hal, n.args)]

\* _resolve_op_types: the operands' types before and after promotion, and the result's
ResolveOpTypes(op, kw, from, pr) ==
    LET ins == [i \in DOMAIN from |->
                  CASE i \in {1, 2} /\ pr.how = "cast" -> [from[i] EXCEPT !.elt = "f32"]
                    [] i = 2 /\ pr.how = "weight" -> [from[i] EXCEPT !.elt = pr.elt]
                    [] OTHER -> from[i]]
    IN  [from |-> from, ins |-> ins, pr |-> pr, out |-> OutputType(op, ins, kw),
         cast |-> SelectSeq(<<1, 2>>, LAMBDA i : pr.how = "cast" /\ from[i].elt # "f32")]

\* The c-th cast is an identity of its own
CastOp(names, k, r, c) ==
    LET i == r.cast[c] IN Op("identity", <<names[i]>>, <<"promote", k + c>>, <<r.from[i]>>, r.ins[i], ("dtype" :> "f32"))

\* The casts and the operation; copy_ and type_as are emitted as a unary identity
Emit(op, names, ws, k, kw, r) ==
    LET cast(i) == {c \in DOMAIN r.cast : r.cast[c] = i}
        args == [i \in DOMAIN names |-> IF cast(i) # {} THEN <<"promote", k + CHOOSE c \in cast(i) : TRUE>> ELSE names[i]]
        alias == op \in {"copy_", "type_as"}
        arity == IF alias THEN 1 ELSE Len(args)
        res == ResultName(op, Node, kw, k)
    IN  /\ ops' = ops \o [c \in DOMAIN r.cast |-> CastOp(names, k, r, c)]
                      \o <<Op(IF alias THEN "identity" ELSE op, SubSeq(args, 1, arity), res, SubSeq(r.ins, 1, arity), r.out, kw)>>
        /\ ssa' = With(ssa, Node.name, res)
        /\ types' = With(types, Node.name, r.out)
        /\ wts' = IF r.pr.how = "weight" THEN Convert(ws, names[2], r.pr.elt) ELSE ws
        /\ counter' = k + 1 + Len(r.cast)

Raise(e) == err' = e /\ UNCHANGED <<ssa, types, wts, ops, counter>>

\* ... with the constants among the weights `ws', and the next free name `k'
TypeAndEmit(op, names, ws, k, kw) ==
    LET from == [i \in DOMAIN names |-> OperandType(ws, names[i])]
        pr == IF Binary(op, from) THEN Promotion(ws, from[1].elt, from[2].elt, names[2]) ELSE [how |-> "fine", elt |-> ""]
    IN  IF Mistyped(op, from, names, ws) THEN Raise("TypeError")
        ELSE Emit(op, names, ws, k, kw, ResolveOpTypes(op, kw, from, pr)) /\ UNCHANGED err

HandleCall(c) ==
    IF ~c.ok THEN Raise("NotImplementedError")
    ELSE TypeAndEmit(Node.hal, c.names, wts \o c.consts, counter + Len(c.consts), Attributes(Node.hal, Node))

\* The general case: collect the arguments, resolve the types, cast, emit
CallFunction ==
    /\ Node.kind = "call" /\ Node.hal \notin Special
    /\ EnterLayer
    /\ HandleCall(Collected(Node))
    /\ Advance
    /\ UNCHANGED <<graph, slices, tuples, outs>>

Produced(name) == \E i \in DOMAIN ops : ops[i].res = name

\* The output node, and _fixup_output_names: an output that no operation produces is
\* replaced by the next result of its type
OutputNode ==
    /\ Node.kind = "output"
    /\ LET raw == [i \in DOMAIN Node.args |->
                     [name |-> Ssa(Node.args[i][2]),
                      type |-> Printed(graph[CHOOSE j \in DOMAIN graph : graph[j].name = Node.args[i][2]].val)]]
           alike(i) == SelectSeq(ops, LAMBDA o : o.out = raw[i].type)
           pos(i) == Cardinality({j \in 1..(i - 1) : ~Produced(raw[j].name) /\ raw[j].type = raw[i].type})
       IN  outs' = [i \in DOMAIN raw |->
                      IF Produced(raw[i].name) \/ pos(i) >= Len(alike(i)) THEN raw[i]
                      ELSE [raw[i] EXCEPT !.name = alike(i)[pos(i) + 1].res]]
    /\ Advance
    /\ UNCHANGED <<graph, ssa, types, slices, tuples, wts, ops, layer, cuts, counter, err>>

WalkInit(g) ==
    /\ graph = g /\ at = 1
    /\ ssa = NoMap /\ types = NoMap /\ slices = NoMap /\ tuples = NoMap
    /\ LET params == SelectSeq(g, LAMBDA n : n.kind = "param") \o SelectSeq(g, LAMBDA n : n.kind = "get_attr") IN
       wts = [i \in DOMAIN params |-> [name |-> <<"w", params[i].name>>, param |-> params[i].kind = "param",
                                       type |-> params[i].val]]
    /\ ops = <<>> /\ layer = Embed /\ cuts = {} /\ counter = 0 /\ outs = <<>> /\ err = "none"

Walking == at <= Len(graph) /\ ~Failed

WalkNext ==
    /\ Walking
    /\ \/ Bind \/ SkipUnmapped \/ SkipWrap \/ GetItem \/ SplitOrChunk \/ CallFunction \/ OutputNode

-------------------------------------------------------------------------------
(* Phase 4: the weights come first, and the layer boundaries move with them *)

WeightOps == [i \in DOMAIN wts |-> [op |-> "weight", args |-> <<wts[i].name>>, res |-> wts[i].name, ins |-> <<>>,
                                    out |-> wts[i].type, kw |-> NoMap, layer |-> Embed]]
AllOps == WeightOps \o ops
LayerCuts == {c + Len(wts) : c \in cuts}
===============================================================================
