---------------------------- MODULE ShapeInference ----------------------------
(***************************************************************************)
(* Shape and element type inference for sf operations: compiler/shape and  *)
(* the dtype rules of compiler/fx/utils.py.                                *)
(*                                                                         *)
(* A type is [sh, elt].  A dimension is a positive number, or Dyn for one  *)
(* only known at run time: None in a shape tuple, "?" in a type, and every *)
(* non-positive number, which _shape_to_mlir_type prints as "?".  `kw` is  *)
(* the attribute dictionary of the operation, a function on the names of   *)
(* the attributes it has.  A dimension named by an SSA value (a string or  *)
(* the sentinels -2, -3, ... of a view) is Dyn too.                        *)
(*                                                                         *)
(* The converter infers on tuples (Pure); dialect/builder.py on MLIR types *)
(* (Ir), by its own functions or, _infer_ir_via_pure, by the pure ones.    *)
(***************************************************************************)
EXTENDS Integers, Sequences, FiniteSets, SequencesExt

Dyn == 0
Int64Max == 1000    \* the sys.maxsize sentinel of aten.slice; above any size

Get(kw, k, default) == IF k \in DOMAIN kw THEN kw[k] ELSE default

\* Python's s[d], d possibly negative, as a position of the TLA+ sequence
Pos(s, d) == IF d < 0 THEN Len(s) + d + 1 ELSE d + 1

\* list.insert(d, x) for 0 <= d
InsertDim(s, d, x) == LET p == IF d > Len(s) THEN Len(s) ELSE d
                      IN  SubSeq(s, 1, p) \o <<x>> \o SubSeq(s, p + 1, Len(s))

SetDim(s, p, x) == [s EXCEPT ![p] = x]

\* The type as written in MLIR text
Printed(t) == [t EXCEPT !.sh = [i \in DOMAIN t.sh |->
                                  IF t.sh[i] < 1 \/ t.sh[i] >= Int64Max THEN Dyn ELSE t.sh[i]]]

-------------------------------------------------------------------------------
(* Broadcasting *)

Rank(shapes) == LET lens == {Len(shapes[i]) : i \in DOMAIN shapes}
                IN  CHOOSE n \in lens : \A m \in lens : m <= n

\* The sizes that meet in dimension i when the shapes are aligned right
DimsAt(shapes, i) ==
    {LET p == Len(shapes[k]) - Rank(shapes) + i
     IN  IF p > 0 THEN shapes[k][p] ELSE 1 : k \in DOMAIN shapes}

Broadcasts(shapes) ==
    \A i \in 1..Rank(shapes) : Cardinality(DimsAt(shapes, i) \ {Dyn, 1}) < 2

Broadcast(shapes) ==
    [i \in 1..Rank(shapes) |->
        LET dims == DimsAt(shapes, i) IN
        CASE dims \ {Dyn, 1} # {} -> CHOOSE d \in dims \ {Dyn, 1} : TRUE
          [] dims \ {Dyn, 1} = {} /\ Dyn \in dims -> Dyn
          [] OTHER -> 1]

-------------------------------------------------------------------------------
(* The pure functions: `ins` are the types of the operands *)

ReduceOps == {"mean", "sum", "var", "linalg_norm"}
CompareOps == {"gt", "lt", "eq", "ne", "le", "logical_and"}
FillOps == {"ones_like", "full_like"}

Shapes(ins) == [i \in DOMAIN ins |-> ins[i].sh]
FirstElt(ins) == IF ins = <<>> THEN "f32" ELSE ins[1].elt

MatmulShape(a, b) ==
    CASE Len(a) = 2 /\ Len(b) = 2 -> <<a[1], b[2]>>
      [] Len(a) >= 3 /\ Len(b) = 2 -> Front(a) \o <<b[2]>>
      [] Len(a) = 2 /\ Len(b) >= 3 -> SubSeq(b, 1, Len(b) - 2) \o <<a[1], Last(b)>>
      [] Len(a) >= 3 /\ Len(a) = Len(b) ->
            Broadcast(<<SubSeq(a, 1, Len(a) - 2), SubSeq(b, 1, Len(b) - 2)>>)
                \o <<a[Len(a) - 1], Last(b)>>
      [] OTHER -> a

\* Torch takes the weight of a linear as [out, in]
LinearShape(a, w) == IF Len(a) >= 2 /\ Len(w) = 2 THEN Front(a) \o <<w[1]>> ELSE <<Dyn, Dyn>>

Conv1dShape(x, w, kw) ==
    IF Len(x) < 3 \/ Len(w) < 3 THEN x
    ELSE <<x[1], w[1],
           IF x[3] = Dyn THEN Dyn
           ELSE (x[3] + 2 * Get(kw, "padding", 0) - Get(kw, "dilation", 1) * (w[3] - 1) - 1)
                    \div Get(kw, "stride", 1) + 1>>

\* pad lists (low, high) pairs from the last dimension backwards
PadShape(s, kw) ==
    LET pad == Get(kw, "pad", <<>>)
        pair(i) == Len(s) - i + 1
    IN  IF Len(pad) % 2 # 0 THEN s
        ELSE [i \in DOMAIN s |->
                IF 2 * pair(i) > Len(pad) \/ s[i] = Dyn THEN s[i]
                ELSE s[i] + pad[2 * pair(i) - 1] + pad[2 * pair(i)]]

UnsqueezeShape(s, kw) ==
    LET d == Get(kw, "dim", 0) IN InsertDim(s, IF d < 0 THEN Len(s) + 1 + d ELSE d, 1)

\* Mutant: a negative dimension is not one of the tensor's
TransposeShapePositive(s, kw) ==
    LET d0 == Get(kw, "dim0", 0)
        d1 == Get(kw, "dim1", 1)
    IN  IF d0 \in 0..(Len(s) - 1) /\ d1 \in 0..(Len(s) - 1)
        THEN [s EXCEPT ![d0 + 1] = s[d1 + 1], ![d1 + 1] = s[d0 + 1]] ELSE s

TransposeShape(s, kw) ==
    LET d0 == Get(kw, "dim0", 0)
        d1 == Get(kw, "dim1", 1)
    IN  IF d0 < Len(s) /\ d1 < Len(s)
        THEN [s EXCEPT ![Pos(s, d0)] = s[Pos(s, d1)], ![Pos(s, d1)] = s[Pos(s, d0)]]
        ELSE s

SliceShape(s, kw) ==
    LET d == Get(kw, "dim", 0)
        end == Get(kw, "end", -1)
        step == Get(kw, "step", 1)
    IN  CASE d >= Len(s) -> s
          [] d < Len(s) /\ s[Pos(s, d)] = Dyn -> s
          [] OTHER -> SetDim(s, Pos(s, d),
                IF end >= 0 /\ end # Int64Max
                THEN (end - Get(kw, "start", 0) + step - 1) \div step ELSE Dyn)

SelectShape(s, kw) ==
    LET d == Get(kw, "dim", 0) IN IF d < Len(s) THEN RemoveAt(s, Pos(s, d)) ELSE s

CatShape(shapes, kw) ==
    LET d == Get(kw, "dim", 0)
        sizes == [i \in DOMAIN shapes |-> IF d < Len(shapes[i]) THEN shapes[i][Pos(shapes[i], d)] ELSE Dyn]
    IN  IF d >= Len(shapes[1]) THEN shapes[1]
        ELSE SetDim(shapes[1], Pos(shapes[1], d),
                IF \E i \in DOMAIN sizes : sizes[i] = Dyn THEN Dyn ELSE FoldLeft(+, 0, sizes))

\* dim may be one number or a list; out of range and repeated ones are dropped
ReduceShape(s, kw) ==
    LET raw == Get(kw, "dim", <<-1>>)
        reduced == {Pos(s, raw[i]) : i \in DOMAIN raw} \cap DOMAIN s
        kept == SelectSeq([i \in DOMAIN s |-> i],
                          LAMBDA i : i \notin reduced \/ Get(kw, "keepdim", FALSE))
    IN  [k \in DOMAIN kept |-> IF kept[k] \in reduced THEN 1 ELSE s[kept[k]]]

\* -1 keeps the dimension of the input, aligned right
ExpandShape(s, kw) ==
    LET shape == Get(kw, "shape", <<>>)
        lead == Len(shape) - Len(s)
    IN  IF shape = <<>> THEN s
        ELSE [i \in DOMAIN shape |->
                CASE shape[i] # -1 -> shape[i]
                  [] shape[i] = -1 /\ i > lead -> s[i - lead]
                  [] OTHER -> Dyn]

\* Index tensors that are all one-dimensional each give a dimension of their own
IndexShape(shapes) ==
    LET idx == Tail(shapes)
        data == shapes[1]
    IN  (IF \A i \in DOMAIN idx : Len(idx[i]) = 1 THEN [i \in DOMAIN idx |-> idx[i][1]] ELSE Broadcast(idx))
            \o SubSeq(data, Len(idx) + 1, Len(data))

-------------------------------------------------------------------------------
(* The dispatch tables *)

\* infer_output_shape: _PURE_TABLE, and the first operand's type for an op it lacks
Pure(op, ins, kw) ==
    LET s == Shapes(ins)
        x == s[1]
        T(shape) == [sh |-> shape, elt |-> FirstElt(ins)]
    IN
    CASE op = "sym_size" -> [sh |-> <<1>>, elt |-> "f32"]
      [] op = "arange" -> [sh |-> <<Dyn>>, elt |-> "i64"]
      [] op = "eye" -> T(<<Get(kw, "n", 1), Get(kw, "m", Get(kw, "n", 1))>>)
      [] op = "zeros" /\ "shape" \in DOMAIN kw -> [sh |-> kw["shape"], elt |-> "f32"]
      [] op \in FillOps /\ "shape" \in DOMAIN kw -> T(kw["shape"])
      [] ins = <<>> -> [sh |-> <<1>>, elt |-> "f32"]
      [] op \in {"zeros", "new_ones"} -> [sh |-> x, elt |-> "f32"]
      [] op \in FillOps -> T(x)
      [] op = "view" -> T(Get(kw, "shape", x))
      [] op = "identity" -> [sh |-> x, elt |-> Get(kw, "dtype", ins[1].elt)]
      [] op = "type_as" /\ Len(ins) > 1 -> [sh |-> x, elt |-> ins[2].elt]
      [] op = "unsqueeze" -> T(UnsqueezeShape(x, kw))
      [] op = "transpose" -> T(TransposeShape(x, kw))
      [] op = "slice" -> T(SliceShape(x, kw))
      [] op = "select" -> T(SelectShape(x, kw))
      [] op = "cat" -> T(CatShape(s, kw))
      [] op \in ReduceOps -> T(ReduceShape(x, kw))
      [] op = "expand" -> T(ExpandShape(x, kw))
      [] op = "pad" -> T(PadShape(x, kw))
      [] op \in {"matmul", "linear", "conv1d", "embedding", "index"} /\ Len(ins) < 2 -> T(x)
      [] op = "matmul" -> T(MatmulShape(x, s[2]))
      [] op = "linear" -> T(LinearShape(x, s[2]))
      [] op = "conv1d" -> T(Conv1dShape(x, s[2], kw))
      [] op = "embedding" -> T(IF Len(x) >= 2 THEN s[2] \o <<x[2]>> ELSE x)
      [] op = "index" -> T(IndexShape(s))
      [] op \in CompareOps -> [sh |-> Broadcast(s), elt |-> "f32"]
      [] op \in {"copy_", "zeros_like", "permute", "squeeze", "ge"} -> T(x)
      [] OTHER -> T(Broadcast(s))                    \* _infer_elementwise_pure

\* The operands whose shapes Pure broadcasts; ValueError when they do not fit
Infers(op, ins, kw) ==
    LET s == Shapes(ins) IN
    CASE op \in {"sym_size", "arange", "eye", "zeros", "new_ones", "view", "identity", "type_as",
                 "unsqueeze", "transpose", "slice", "select", "cat", "expand", "pad", "linear",
                 "conv1d", "embedding", "copy_", "zeros_like", "permute", "squeeze", "ge"}
                \cup FillOps \cup ReduceOps -> TRUE
      [] ins = <<>> -> TRUE
      [] op = "matmul" -> Len(ins) < 2 \/ Len(s[1]) < 3 \/ Len(s[1]) # Len(s[2])
                           \/ Broadcasts(<<SubSeq(s[1], 1, Len(s[1]) - 2), SubSeq(s[2], 1, Len(s[2]) - 2)>>)
      [] op = "index" -> Len(ins) < 2 \/ Broadcasts(Tail(s)) \/ \A i \in 2..Len(s) : Len(s[i]) = 1
      [] OTHER -> Broadcasts(s)

\* infer_output_type: the operations of shape_inference_activations.py that do not go through
\* their pure function
SameAsInput == {"layer_norm", "rms_norm", "cumsum", "masked_fill", "copy_", "zeros_like", "diff", "new_ones",
                "scaled_dot_product_attention", "fused_silu_mul", "fused_attention_output",
                "fused_attention_block", "split", "chunk"}

PermuteShape(s, kw) == LET dims == Get(kw, "dims", [k \in DOMAIN s |-> k - 1]) IN [i \in DOMAIN dims |-> s[Pos(s, dims[i])]]

SqueezeShape(s, kw) ==
    IF "dim" \notin DOMAIN kw THEN SelectSeq(s, LAMBDA d : d # 1)
    ELSE IF kw["dim"] \in 0..(Len(s) - 1) /\ s[kw["dim"] + 1] = 1 THEN RemoveAt(s, kw["dim"] + 1) ELSE s

\* The operations of shape_inference_matmul.py that create a tensor
Creates == {"sym_size", "arange", "eye", "zeros"} \cup FillOps
Created(op, ins, kw) ==
    CASE op = "sym_size" -> [sh |-> <<1>>, elt |-> "i64"]
      [] op = "arange" -> [sh |-> <<Get(kw, "n", Dyn)>>, elt |-> "i64"]
      [] op = "eye" -> [sh |-> <<Get(kw, "n", 1), Get(kw, "m", Get(kw, "n", 1))>>, elt |-> "f32"]
      [] op \notin {"sym_size", "arange", "eye"} /\ "shape" \in DOMAIN kw -> [sh |-> kw["shape"], elt |-> "f32"]
      [] OTHER -> IF ins # <<>> THEN ins[1] ELSE [sh |-> <<1, 1>>, elt |-> "f32"]

\* infer_index broadcasts the index tensors, one-dimensional ones too
IrIndexShape(s) == Broadcast(Tail(s)) \o SubSeq(s[1], Len(s), Len(s[1]))

\* infer_output_type
Ir(op, ins, kw) ==
    LET s == Shapes(ins)
        T(shape) == [sh |-> shape, elt |-> FirstElt(ins)]
    IN
    CASE op \in Creates -> Created(op, ins, kw)
      [] op \in SameAsInput -> ins[1]
      [] op = "permute" -> T(PermuteShape(s[1], kw))
      [] op = "squeeze" -> T(SqueezeShape(s[1], kw))
      [] op = "index" /\ Len(ins) > 1 -> T(IrIndexShape(s))
      [] op = "stack" -> T(<<Len(ins)>> \o s[1])
      [] op \in {"einsum", "fused_rms_norm_matmul"} -> T(<<Dyn, Dyn>>)
      [] op \in {"view_as", "expand_as"} /\ Len(ins) > 1 -> ins[2]
      [] OTHER -> Pure(op, ins, kw)

-------------------------------------------------------------------------------
(* Element types: the dtype rules that override the inferred element type *)

\* _DTYPE_MAP knows these four; another dtype argument is as good as none
Requested(kw) == Get(kw, "dtype", "none") \in {"i64", "i32", "f32", "i1"}

DtypeRule(op, ins, kw, inferred) ==
    CASE op \in {"ones_like", "cumsum", "arange"} /\ Requested(kw) -> kw["dtype"]
      [] op = "ones_like" -> "f32"
      [] op = "cumsum" /\ ins[1].elt \in {"i64", "i32", "i1"} -> "i64"
      [] op = "arange" -> "i64"
      [] OTHER -> inferred

\* The result type of one operation as the converter records it; inference that
\* fails falls back to the first operand's type
OutputType(op, ins, kw) ==
    LET out == IF Infers(op, ins, kw) THEN Pure(op, ins, kw)
               ELSE IF ins # <<>> THEN ins[1] ELSE [sh |-> <<1>>, elt |-> "f32"]
    IN  Printed([out EXCEPT !.elt = DtypeRule(op, ins, kw, out.elt)])
===============================================================================
