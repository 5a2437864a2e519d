------------------------------- MODULE MCCompile -------------------------------
(***************************************************************************)
(* Exported programs for Compile: decoders of one and two layers, graphs   *)
(* that mix element types over a shared weight, and single operations      *)
(* whose shape torch defines.                                              *)
(***************************************************************************)
EXTENDS Compile

T(sh, elt) == [sh |-> sh, elt |-> elt]
N(name, kind, hal, args, kw, stack, val) ==
    [name |-> name, kind |-> kind, hal |-> hal, args |-> args, kw |-> kw, stack |-> stack, val |-> val]

Input(name, val) == N(name, "input", "", <<>>, NoMap, <<"none">>, val)
Param(name, val) == N(name, "param", "", <<>>, NoMap, <<"none">>, val)
Buffer(name, val) == N(name, "get_attr", "", <<>>, NoMap, <<"none">>, val)
Call(name, hal, args, stack, val) == N(name, "call", hal, args, NoMap, stack, val)
Result(names) == N("output", "output", "", [i \in DOMAIN names |-> <<"node", names[i]>>], NoMap, <<"none">>, T(<<>>, "f32"))
V(name) == <<"node", name>>
Num(n) == <<"int", n>>
Nums(ns) == <<"list", [i \in DOMAIN ns |-> <<"int", ns[i]>>]>>

-------------------------------------------------------------------------------
(* Decoders.  p: layers, gqa (0, or the dimension K and V repeat in), mask ("none", "shared", "own":  *)
(* one per layer, "late": one per layer, after the repeats), act (an operation   *)
(* the op plan knows or not), odd ("none", "unmapped": an activation without a   *)
(* mapping, "input": positions read in the layers), batch.                       *)

Hidden(p) == T(<<p.batch, p.seq, 4>>, "f32")
Vocab(p) == T(<<p.batch, p.seq, 8>>, "f32")

\* A shape argument: a sequence of dynamic length is measured
Shape(p, tail) == <<"list", <<Num(p.batch), IF p.seq = Dyn THEN V("len") ELSE Num(p.seq)>> \o [i \in DOMAIN tail |-> Num(tail[i])]>>
Square == T(<<4, 4>>, "f32")

Layer(p, l) ==
    LET id(x) == x \o ToString(l)
        at_ == <<"layer", l>>
        h == IF l = 0 THEN "emb" ELSE "h" \o ToString(l - 1)
        kv == IF p.gqa # 0 THEN T(<<p.batch, p.seq, 2>>, "f32") ELSE Hidden(p)
        C(x, op, args, val) == Call(id(x), op, args, at_, val)
        Repeat(x) == <<C(x \o "u", "unsqueeze", <<V(id(x)), Num(p.gqa)>>, T(InsertDim(<<p.batch, p.seq, 2>>, p.gqa, 1), "f32")),
                       C(x \o "e", "expand", <<V(id(x \o "u")), Shape(p, <<2, 2>>)>>, T(<<p.batch, p.seq, 2, 2>>, "f32")),
                       C(x \o "r", "view", <<V(id(x \o "e")), Shape(p, <<4>>)>>, Hidden(p))>>
        Mask == <<C("m", "le", <<V("row"), V("col")>>, T(<<p.batch, p.seq>>, "i1"))>>
        mask == CASE p.mask = "none" -> <<>> [] p.mask = "shared" -> <<V("m")>> [] OTHER -> <<V(id("m"))>>
    IN  <<C("n", "layer_norm", <<V(h), Nums(<<4>>), V("wn")>>, Hidden(p)),
          C("q", "linear", <<V(id("n")), V("wq")>>, Hidden(p)),
          C("k", "linear", <<V(id("n")), V(IF p.gqa # 0 THEN "wkv" ELSE "wq")>>, kv),
          C("v", "linear", <<V(id("n")), V(IF p.gqa # 0 THEN "wkv" ELSE "wq")>>, kv)>>
        \o (IF p.mask = "own" THEN Mask ELSE <<>>)
        \o (IF p.gqa # 0 THEN Repeat("k") \o Repeat("v") ELSE <<>>)
        \o (IF p.mask = "late" THEN Mask ELSE <<>>)
        \o <<C("s", "scaled_dot_product_attention",
               <<V(id("q")), V(id(IF p.gqa # 0 THEN "kr" ELSE "k")), V(id(IF p.gqa # 0 THEN "vr" ELSE "v"))>> \o mask, Hidden(p)),
             C("o", "linear", <<V(id("s")), V("wq")>>, Hidden(p)),
             C("a", IF p.odd = "unmapped" THEN "unmapped" ELSE p.act, <<V(id("o"))>>, Hidden(p)),
             C("h", "add", <<V(h), V(id(IF p.odd = "input" THEN "o" ELSE "a"))>>, Hidden(p))>>
        \o (IF p.odd = "input" THEN <<C("x", "le", <<V("position_ids"), V("ids")>>, T(<<p.batch, p.seq>>, "i1"))>> ELSE <<>>)

Decoder(p) ==
    <<Input("ids", T(<<p.batch, p.seq>>, "i64")), Input("position_ids", T(<<p.batch, p.seq>>, "i64")),
      Param("table", T(<<8, 4>>, "f32")), Param("wn", T(<<4>>, "f32")), Param("wq", Square), Param("wkv", T(<<2, 4>>, "f32")),
      Param("head", T(<<8, 4>>, "f32")),
      Call("emb", "embedding", <<V("table"), V("ids")>>, <<"other">>, Hidden(p)),
      Call("row", "identity", <<V("position_ids")>>, <<"other">>, T(<<p.batch, p.seq>>, "i64")),
      Call("col", "identity", <<V("ids")>>, <<"other">>, T(<<p.batch, p.seq>>, "i64"))>>
    \o (IF p.seq = Dyn THEN <<Call("len", "sym_size", <<V("ids"), Num(1)>>, <<"other">>, T(<<1>>, "i64"))>> ELSE <<>>)
    \o (IF p.mask = "shared" THEN <<Call("m", "le", <<V("row"), V("col")>>, <<"other">>, T(<<p.batch, p.seq>>, "i1"))>> ELSE <<>>)
    \o FlattenSeq([l \in 1..p.layers |-> Layer(p, l - 1)])
    \o <<Call("logits", "linear", <<V("h" \o ToString(p.layers - 1)), V("head")>>, <<"head">>, Vocab(p)), Result(<<"logits">>)>>

Decoders == {Decoder(p) : p \in {q \in [layers : {1, 2}, gqa : {0, 2, 3}, mask : {"none", "shared", "own", "late"},
                                 act : {"relu", "gelu"}, odd : {"none", "unmapped", "input"}, batch : {1, 2}, seq : {3, Dyn}] :
                         /\ (q.act = "gelu" \/ q.gqa = 3) => (q.odd = "none" /\ q.layers = 1)
                         /\ q.seq = Dyn => (q.odd # "unmapped" /\ q.batch = 1 /\ q.act = "relu")}}

-------------------------------------------------------------------------------
(* Two operations over one weight, in element types e[1..3], and their sum *)

Binaries == {"add", "linear", "le"}
Typed(o1, o2, e) ==
    <<Input("x", T(<<4, 4>>, e[1])), Input("y", T(<<4, 4>>, e[2])), Param("wq", T(<<4, 4>>, e[3])),
      Call("n1", o1, <<V("x"), V("wq")>>, <<"none">>, T(<<4, 4>>, e[1])),
      Call("n2", o2, <<V("y"), V("wq")>>, <<"none">>, T(<<4, 4>>, e[2])),
      Call("n3", "mul", <<V("n2"), <<"float">>>>, <<"none">>, T(<<4, 4>>, e[2])),
      IF "le" \in {o1, o2} THEN Call("n4", "neg", <<V("n3")>>, <<"none">>, T(<<4, 4>>, e[2]))
      ELSE Call("n4", "add", <<V("n1"), V("n3")>>, <<"none">>, T(<<4, 4>>, e[1])),
      Result(<<"n1", "n4">>)>>

-------------------------------------------------------------------------------
(* One operation on a 2x3x4 tensor, against the shape torch gives it *)

X3 == <<2, 3, 4>>
Dim(d) == ((d + 3) % 3) + 1
Operation(hal, args, sh) ==
    <<Input("x", T(X3, "f32")), Input("z", T(<<2, 1, 4>>, "f32")), Buffer("i", T(<<2>>, "i64")), Buffer("j", T(<<1, 2>>, "i64")),
      Param("y", T(<<1, 2, 4, 5>>, "f32")), Param("wq", T(<<5, 4>>, "f32")), Param("wk", T(<<5, 3, 2>>, "f32")), Param("wt", T(<<4, 5>>, "f32")),
      Call("n", hal, args, <<"none">>, T(sh, "f32")), Result(<<"n">>)>>
One(hal, args, sh) == Operation(hal, <<V("x")>> \o args, sh)
Dims == -3..2
Reduced(d, keep) == IF keep THEN [X3 EXCEPT ![Dim(d)] = 1] ELSE [i \in 1..2 |-> X3[IF i < Dim(d) THEN i ELSE i + 1]]
Clamp(i, n) == LET j == IF i < 0 THEN i + n ELSE i IN IF j < 0 THEN 0 ELSE IF j > n THEN n ELSE j

ShapeCases ==
    {One("transpose", <<Num(a), Num(b)>>, [i \in 1..3 |-> X3[IF i = Dim(a) THEN Dim(b) ELSE IF i = Dim(b) THEN Dim(a) ELSE i]]) : a \in Dims, b \in Dims}
    \cup {One("unsqueeze", <<Num(d)>>, [i \in 1..4 |-> LET p == ((d + 4) % 4) + 1 IN IF i < p THEN X3[i] ELSE IF i = p THEN 1 ELSE X3[i - 1]]) : d \in -4..3}
    \cup {One("select", <<Num(d), Num(0)>>, [i \in 1..2 |-> X3[IF i < Dim(d) THEN i ELSE i + 1]]) : d \in Dims}
    \cup {One("slice", <<Num(d), Num(s), Num(e)>>,
              [X3 EXCEPT ![Dim(d)] = Cardinality({k \in 0..3 : Clamp(s, @) <= k /\ k < Clamp(e, @)})])
              : d \in Dims, s \in {0, 1, -1}, e \in {2, 3, 4, Int64Max, -1}}
    \cup {One("cat", <<>>, X3)}
    \cup {One(op, <<Nums(<<d>>), <<"bool", keep>>>>, Reduced(d, keep)) : op \in {"sum", "mean"}, d \in Dims, keep \in BOOLEAN}
    \cup {One("var", <<Nums(<<d>>), <<"bool", FALSE>>, <<"bool", keep>>>>, Reduced(d, keep)) : d \in {-1, 0}, keep \in BOOLEAN}
    \cup {One("index", <<<<"list", [k \in DOMAIN is |-> V(is[k])]>>>>,
               (IF \E k \in DOMAIN is : is[k] = "j" THEN <<1, 2>> ELSE <<2>>) \o SubSeq(X3, Len(is) + 1, 3))
               : is \in UNION {[1..m -> {"i", "j"}] : m \in 1..3}}
    \cup {One("expand", <<Nums(sh)>>, [i \in DOMAIN sh |-> IF sh[i] = -1 THEN X3[i - Len(sh) + 3] ELSE sh[i]]) : sh \in {<<2, 3, 4>>, <<-1, 3, -1>>, <<5, -1, -1, 4>>}}
    \cup {One("linear", <<V("wq")>>, <<2, 3, 5>>), One("add", <<V("z")>>, X3), One("permute", <<Nums(<<2, 0, 1>>)>>, <<4, 2, 3>>),
          One("view", <<Nums(<<6, 4>>)>>, <<6, 4>>), One("softmax", <<Num(-1)>>, X3), One("pad", <<Nums(<<1, 2>>)>>, <<2, 3, 7>>),
          One("matmul", <<V("wt")>>, <<2, 3, 5>>), One("matmul", <<V("y")>>, <<1, 2, 3, 5>>), One("conv1d", <<V("wk")>>, <<2, 5, 3>>),
          One("diff", <<Num(1), Num(-1)>>, <<2, 3, 3>>), One("new_ones", <<Nums(<<5>>)>>, <<5>>),
          Operation("expand_as", <<V("z"), V("x")>>, X3), One("view_as", <<V("j")>>, <<1, 2>>)}

(* torch.chunk of six columns: parts of ceil(6 / parts), fewer than asked for *)

Chunks(parts) ==
    LET size == (6 + parts - 1) \div parts
        count == (6 + size - 1) \div size
        width(i) == Min({size, 6 - size * (i - 1)})
    IN  <<Input("x", T(<<2, 6>>, "f32")), Call("ch", "chunk", <<V("x"), Num(parts), Num(1)>>, <<"none">>, T(<<2, size>>, "f32"))>>
        \o [i \in 1..count |-> Call("c" \o ToString(i), "getitem", <<V("ch"), Num(i - 1)>>, <<"none">>, T(<<2, width(i)>>, "f32"))]
        \o <<Result([i \in 1..count |-> "c" \o ToString(i)])>>

-------------------------------------------------------------------------------
(* Values without an operation of their own, or with several *)

Pieces ==
    <<Input("x", T(<<2, 6>>, "f32")), Input("z", T(<<2, 6>>, "f32")), Buffer("c", T(<<6>>, "f32")),
      Call("sp", "split", <<V("x"), Nums(<<2, 4>>), Num(1)>>, <<"none">>, T(<<2, 2>>, "f32")),
      Call("s0", "getitem", <<V("sp"), Num(0)>>, <<"none">>, T(<<2, 2>>, "f32")),
      Call("s1", "getitem", <<V("sp"), Num(1)>>, <<"none">>, T(<<2, 4>>, "f32")),
      Call("ch", "chunk", <<V("z"), Num(3), Num(-1)>>, <<"none">>, T(<<2, 2>>, "f32")),
      Call("c1", "getitem", <<V("ch"), Num(1)>>, <<"none">>, T(<<2, 2>>, "f32")),
      Call("d", "sym_size", <<V("x"), Num(1)>>, <<"none">>, T(<<1>>, "i64")),
      Call("r", "arange", <<V("d")>>, <<"none">>, T(<<6>>, "i64")),
      Call("g", "_skip_wrap", <<V("x")>>, <<"none">>, T(<<2, 6>>, "f32")),
      Call("k", "copy_", <<V("g"), V("z")>>, <<"none">>, T(<<2, 6>>, "f32")),
      Call("b", "add", <<V("k"), V("c")>>, <<"none">>, T(<<2, 6>>, "f32")),
      Call("j", "cat", <<<<"list", <<V("s1"), V("c1")>>>>, Num(1)>>,
           <<"none">>, T(<<2, 6>>, "f32")),
      Result(<<"s1", "b", "r", "j">>)>>

(* A gated block behind a norm: own, the norm has a weight of its own; first, the silu is the  *)
(* first operand of the mul; twice, it is read again and there are two results; project,      *)
(* "matmul" or "linear"                                                                       *)

Gated(own, first, twice, project) ==
    LET val == T(<<4, 4>>, "f32")
        C(name, op, args) == Call(name, op, args, <<"none">>, val)
    IN  <<Input("gx", val), Param("wm", T(<<4>>, "f32")), Param("wg", val), Param("wd", val),
          C("n", "rms_norm", <<V("gx"), Nums(<<4>>)>> \o (IF own THEN <<V("wm")>> ELSE <<>>)),
          C("s", "mul", <<V("n"), V("wm")>>), C("g", "matmul", <<V("s"), V("wg")>>), C("u", project, <<V("s"), V("wd")>>),
          C("a", "silu", <<V("g")>>), C("h", "mul", IF first THEN <<V("a"), V("u")>> ELSE <<V("u"), V("a")>>),
          C("d", "matmul", <<V("h"), V("wd")>>)>>
        \o (IF twice THEN <<C("e", "add", <<V("d"), V("a")>>), Result(<<"e", "d">>)>> ELSE <<Result(<<"d">>)>>)

(* More weights than a function of the split by count holds: the last is read in a function of  *)
(* its own (`near`), or in the one behind                                                     *)

Wide(near) ==
    LET val == T(<<4, 4>>, "f32")
        w(i) == "w" \o ToString(i)
        h(i) == "h" \o ToString(i)
        reads(i) == IF near THEN 9 - i ELSE i
    IN  <<Input(h(0), val)>> \o [i \in 1..8 |-> Param(w(i), val)]
        \o [i \in 1..8 |-> Call(h(i), "linear", <<V(h(i - 1)), V(w(reads(i)))>>, <<"none">>, val)] \o <<Result(<<h(8)>>)>>

Config(layers, dim) == [text |-> <<>>, layers |-> layers, heads |-> 2, kvHeads |-> 1, dim |-> dim, hidden |-> 4, types |-> <<>>, stateHeads |-> 0]
Mixed == [Config(2, 2) EXCEPT !.types = <<"full_attention", "linear_attention">>]
Policies == {Cache!NoPolicy, Cache!FromModel(Config(2, 2)), Cache!FromModel(Mixed)}

Plain == [policy |-> Cache!NoPolicy, strategy |-> "layer", names |-> 1]
MCRequests(g) == IF g[1].name = "ids" THEN [policy : Policies, strategy : {"layer", "count"}, names : {1, 5}]
                 ELSE IF g[1].name = "gx" THEN [policy : {Cache!NoPolicy, Cache!ForRwkv(2, 4)}, strategy : {"layer", "count"}, names : {1}]
                 ELSE IF g[1].name = "h0" THEN {[Plain EXCEPT !.strategy = "count"]} ELSE {Plain}

\* Strategies of mixed precision, of patterns that overlap
MCStrategies == {<<>>, <<<<<<"w", "wg">>, "w8a8">>, <<<<>>, "fp8">>>>, <<<<<<"w", "wd">>, "fp16">>, <<<<>>, "int8">>>>}

Elts == {"f32", "bf16", "i64"}

\* Checkpoints: as the state dict names the tensors, of a model with a head or of its base, and
\* with a component more, in two orders, with the head stored or not
Part(names) == FlattenSeq([i \in DOMAIN names |-> IF i = 1 THEN <<names[i]>> ELSE <<".", names[i]>>])
Names == <<[param |-> "wq", key |-> <<"layers", "0", "norm", "weight">>], [param |-> "wkv", key |-> <<"layers", "0", "attn", "norm", "weight">>],
           [param |-> "wn", key |-> <<"norm", "weight">>], [param |-> "table", key |-> <<"embed", "weight">>]>>
Entries(state, disk, head) ==
    [i \in DOMAIN Names |-> [param |-> Names[i].param, key |-> Part(state \o Names[i].key), disk |-> Part(disk \o Names[i].key)]]
      \o <<[param |-> "head", key |-> Part(<<"head", "weight">>), disk |-> IF head THEN Part(<<"head", "weight">>) ELSE <<>>]>>
MCCheckpoints ==
    {[format |-> f, entries |-> IF r THEN Reverse(Entries(d[1], d[2], h)) ELSE Entries(d[1], d[2], h)] :
        f \in {"safetensors", "safetensors_sharded", "pytorch_bin"}, h \in BOOLEAN, r \in BOOLEAN,
        d \in {<<<<>>, <<>>>>, <<<<"model">>, <<"model">>>>, <<<<"model">>, <<"model", "text", "model">>>>}}

Init == \/ \E g \in Decoders : CompileInit(g)
        \/ \E o1 \in Binaries, o2 \in Binaries, e \in [1..3 -> Elts] : CompileInit(Typed(o1, o2, e))
        \/ \E own \in BOOLEAN, first \in BOOLEAN, twice \in BOOLEAN, project \in {"matmul", "linear"} :
              CompileInit(Gated(own, first, twice, project))
        \/ \E near \in BOOLEAN : CompileInit(Wide(near))
        \/ \E g \in ShapeCases \cup {Pieces} \cup {Chunks(parts) : parts \in 2..5} : CompileInit(g)
Spec == Init /\ [][Next]_vars

\* A slice with a bound that torch clamps to the dimension
Clamps(n) == n.hal = "slice" /\ (n.args[3][2] < 0 \/ n.args[4][2] \notin {-1, Int64Max} \cup (0..X3[Dim(n.args[2][2])]))

NodeOf(a) == graph[CHOOSE i \in DOMAIN graph : graph[i].name = a[2]]

\* A part of a chunk that torch does not cut evenly
Uneven(n) == n.hal = "getitem" /\ LET c == NodeOf(n.args[1]) IN c.hal = "chunk" /\ NodeOf(c.args[1]).val.sh[2] % c.args[2][2] # 0

\* Several index tensors, all of one dimension
Outer(n) == n.hal = "index" /\ LET is == n.args[2][2] IN Len(is) > 1 /\ \A k \in DOMAIN is : Len(NodeOf(is[k]).val.sh) = 1

\* Reductions whose dimensions are an argument the registry drops: the last one is reduced, and
\* that of a var never kept
Drops(n) == \/ n.hal = "mean" /\ Dim(n.args[2][2][1][2]) # 3
            \/ n.hal = "var" /\ (Dim(n.args[2][2][1][2]) # 3 \/ n.args[4][2])

\* Operands of three dimensions or more, and not as many
Unranked(n) == n.hal = "matmul" /\ Len(NodeOf(n.args[1]).val.sh) # Len(NodeOf(n.args[2]).val.sh) /\ Len(NodeOf(n.args[2]).val.sh) > 2

\* A diff is as long as its operand, and the sizes of a new_ones are dropped
Unsized(n) == n.hal \in {"diff", "new_ones"}

Fits(got, want) == Len(got) = Len(want) /\ \A i \in DOMAIN want : got[i] \in {Dyn, want[i]}

\* The shape both inferences give a value is the one torch computes, in every dimension
\* they claim to know: the pure one of the converter and the one on MLIR types of the
\* builder.  Known not to be: in both, the bounds of a slice that torch clamps, the parts of
\* an uneven chunk (converter.py:569-570), dimensions and sizes the registry drops, and a
\* matmul of tensors of unequal rank; in the pure one alone, a permutation and a view_as,
\* which keep the operand's shape, and several index tensors of one dimension
\* (shape_inference_pure.py:92-93).  A squeeze, which would keep it too, no operator maps to.
ShapesSound ==
    FxDone => \A n \in DOMAIN graph :
        LET node == graph[n]
            op == CHOOSE o \in ToSet(ops) : o.res = ssa[node.name]
            known == Clamps(node) \/ Uneven(node) \/ Drops(node) \/ Unranked(node) \/ Unsized(node)
            pure == node.hal \in {"permute", "view_as"} \/ Outer(node)
        IN  (node.kind = "call" /\ node.name \in DOMAIN types /\ ~ known) =>
               /\ pure \/ Fits(types[node.name].sh, node.val.sh)
               /\ (node.hal \notin Special /\ Once(ssa[node.name])) => Fits(Ir(node.hal, op.ins, op.kw).sh, node.val.sh)
===============================================================================
