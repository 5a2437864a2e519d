--------------------------------- MODULE Passes ---------------------------------
(***************************************************************************)
(* Rewriting of a function's operations: the fusion passes that compile    *)
(* runs, in C++ (sf-dialect/lib/Sf/SfFusionPasses.cpp) or, without the     *)
(* bindings, in Python (compiler/passes/fusion.py), and the insertion of   *)
(* dequantize operations (compiler/passes/quantize.py).                    *)
(*                                                                         *)
(* A function is [ops, outs]: its operations and the values it returns.    *)
(***************************************************************************)
EXTENDS Integers, Sequences, SequencesExt, FiniteSets, TLC

\* A sequence, element by element: TLC computes each of them once
Listed(s) == s \o <<>>

\* The operation that defines value v, or 0: a value of another function is an argument
Def(ops, v) == LET d == {i \in DOMAIN ops : ops[i].res = v} IN IF d = {} THEN 0 ELSE CHOOSE i \in d : \A j \in d : j <= i
DefinedBy(ops, v, op) == Def(ops, v) # 0 /\ ops[Def(ops, v)].op = op

Readers(fn, v) == {i \in DOMAIN fn.ops : v \in ToSet(fn.ops[i].args)}

\* Operation o with another name and other operands; its attributes are not kept
Recreated(o, op, args) == [o EXCEPT !.op = op, !.args = args, !.kw = [k \in {} |-> k]]

\* _run_pattern: a text that does not parse is left as it is
RunPattern(parses, fn, rewritten) == IF parses THEN rewritten ELSE fn

-------------------------------------------------------------------------------
(* fuse_silu_pass *)

SiluMuls(ops) == {n \in DOMAIN ops : /\ ops[n].op = "mul" /\ Len(ops[n].args) >= 2
                                     /\ DefinedBy(ops, ops[n].args[1], "silu")}

\* Erasing the silu while the mul is not its only reader leaves the others without it
Dangles(fn) == \E n \in SiluMuls(fn.ops) :
                   LET v == fn.ops[n].args[1]
                   IN  Readers(fn, v) # {n} \/ v \in ToSet(fn.outs) \/ v = fn.ops[n].args[2]

\* Mutant: gate and up are swapped
FusedSiluSwapped(ops, n) ==
    Recreated(ops[n], "fused_silu_mul", <<ops[n].args[2], ops[Def(ops, ops[n].args[1])].args[1]>>)

FusedSilu(ops, n) ==
    Recreated(ops[n], "fused_silu_mul", <<ops[Def(ops, ops[n].args[1])].args[1], ops[n].args[2]>>)

FuseSilu(fn) ==
    LET ops == fn.ops
        muls == SiluMuls(ops)
        erased == {Def(ops, ops[n].args[1]) : n \in muls}
        new(n) == IF n \in erased THEN <<>> ELSE IF n \in muls THEN <<FusedSilu(ops, n)>> ELSE <<ops[n]>>
    IN  [fn EXCEPT !.ops = FlattenSeq([n \in DOMAIN ops |-> new(n)])]

-------------------------------------------------------------------------------
(* fuse_rms_norm_pass *)

\* The norm and the mul in front of the n-th operation
Chain(ops, n) ==
    LET mul == Def(ops, ops[n].args[1])
    IN  /\ Len(ops[n].args) >= 2
        /\ DefinedBy(ops, ops[n].args[1], "mul")
        /\ ops[mul].args # <<>> /\ DefinedBy(ops, ops[mul].args[1], "rms_norm")

\* operands[1] of a mul by a scalar is not there
ChainFits(ops, n) == Len(ops[Def(ops, ops[n].args[1])].args) >= 2

FusedChain(ops, n) ==
    LET mul == ops[Def(ops, ops[n].args[1])]
        rms == ops[Def(ops, mul.args[1])]
    IN  Recreated(ops[n], "fused_rms_norm_matmul", <<rms.args[1], mul.args[2], ops[n].args[2]>>)

FuseChains(fn, roots) ==
    [fn EXCEPT !.ops = [n \in DOMAIN fn.ops |->
        IF fn.ops[n].op \in roots /\ Chain(fn.ops, n) /\ ChainFits(fn.ops, n) THEN FusedChain(fn.ops, n) ELSE fn.ops[n]]]

\* The callback looks for linear too, but the pattern is one of matmul
FuseRmsNorm(fn) == FuseChains(fn, {"matmul"})

\* fuse_qkv_pass and fuse_attention_pass look for the operation itself in a list of the block's
\* operations, made anew: `o is op` holds of none, and nothing is rewritten
FuseQkv(fn) == fn
FuseAttention(fn) == fn

\* The passes in Python, in the pipeline's order, when pass i of them parses iff parses[i]
PythonFusion(fn, parses) ==
    LET silu == RunPattern(parses[1], fn, FuseSilu(fn))
        rms == RunPattern(parses[2], silu, FuseRmsNorm(silu))
    IN  FuseAttention(FuseQkv(rms))

-------------------------------------------------------------------------------
(* sf-fuse-silu and sf-fuse-rms-norm *)

\* SiluMulFusePattern: either operand; what is no longer read stays until it is found dead
CppFuseSilu(fn) ==
    LET ops == fn.ops
        left(n) == DefinedBy(ops, ops[n].args[1], "silu")
        muls == {n \in DOMAIN ops : /\ ops[n].op = "mul" /\ Len(ops[n].args) = 2
                                    /\ left(n) \/ DefinedBy(ops, ops[n].args[2], "silu")}
        fused(n) == LET a == ops[n].args
                    IN  IF left(n) THEN <<ops[Def(ops, a[1])].args[1], a[2]>> ELSE <<ops[Def(ops, a[2])].args[1], a[1]>>
    IN  [fn EXCEPT !.ops = [n \in DOMAIN ops |-> IF n \in muls THEN Recreated(ops[n], "fused_silu_mul", fused(n)) ELSE ops[n]]]

\* RmsNormMatmulFusePattern and RmsNormLinearFusePattern
CppFuseRmsNorm(fn) == FuseChains(fn, {"matmul", "linear"})

CppFusion(fn) == CppFuseRmsNorm(CppFuseSilu(fn))

-------------------------------------------------------------------------------
(* insert_quantize_dequantize *)

\* get_precision: the first pattern the name ends with; a strategy is a sequence of
\* <<pattern, precision>>
GetPrecision(strategy, name) ==
    LET ends(p) == Len(p) <= Len(name) /\ SubSeq(name, Len(name) - Len(p) + 1, Len(name)) = p
        fit == {i \in DOMAIN strategy : ends(strategy[i][1])}
    IN  IF fit = {} THEN "fp16" ELSE strategy[CHOOSE i \in fit : \A j \in fit : i <= j][2]

Quantized == {"w8a8", "w4a16", "int8"}

Dequantize(w, precision) == [w EXCEPT !.op = "dequantize", !.args = <<w.res>>, !.res = <<"dq", w.res>>, !.kw = [precision |-> precision]]

\* replace_all_uses_except, with the operands of the return
Substituted(fn, v, new) ==
    LET swap(vs) == Listed([k \in DOMAIN vs |-> IF vs[k] = v THEN new ELSE vs[k]])
    IN  [ops |-> Listed([n \in DOMAIN fn.ops |-> [fn.ops[n] EXCEPT !.args = swap(@)]]), outs |-> swap(fn.outs)]

\* One weight: a dequantize behind it, read by everything else that read the weight
DequantizeWeight(fn, v, precision) ==
    LET n == Def(fn.ops, v)
        rest == Substituted(fn, v, <<"dq", v>>)
    IN  [rest EXCEPT !.ops = SubSeq(@, 1, n) \o <<Dequantize(fn.ops[n], precision)>> \o SubSeq(@, n + 1, Len(@))]

InsertQuantizeDequantize(fn, strategy) ==
    FoldLeft(LAMBDA f, o : LET p == GetPrecision(strategy, o.res) IN
                           IF o.op = "weight" /\ p \in Quantized THEN DequantizeWeight(f, o.res, p) ELSE f,
             fn, fn.ops)

-------------------------------------------------------------------------------
(* What a function computes *)

\* Fused operations as lowering decomposes them (SfLowerFused.cpp); a dequantize is applied
\* where its weight is loaded, and a norm with a weight multiplies by it
Decomposed(o) ==
    LET mid(op, args) == [Recreated(o, op, args) EXCEPT !.res = <<op, "of", @>>]
        last(op, args) == Recreated(o, op, args)
    IN  CASE o.op = "fused_silu_mul" -> <<mid("silu", <<o.args[1]>>), last("mul", <<<<"silu", "of", o.res>>, o.args[2]>>)>>
          [] o.op = "fused_rms_norm_matmul" ->
                <<mid("rms_norm", <<o.args[1], o.args[2]>>), last("matmul", <<<<"rms_norm", "of", o.res>>, o.args[3]>>)>>
          [] OTHER -> <<o>>

\* Value numbering: `table` lists the different values computed so far, `env` gives those of
\* the names.  A value is its operation and the numbers of its operands.
Number(table, e) == IF Contains(table, e) THEN table ELSE Append(table, e)
Index(table, e) == <<"value", CHOOSE i \in DOMAIN table : table[i] = e>>
Of(env, v) == IF v \in DOMAIN env THEN env[v] ELSE <<"arg", v>>

Compute(st, o) ==
    LET of == [k \in DOMAIN o.args |-> Of(st.env, o.args[k])]
        norm == [op |-> "rms_norm", of |-> <<of[1]>>]
        normed == Number(st.table, norm)
        product(a, b) == [op |-> "mul", of |-> {a, b}]
        put(table, e) == [table |-> Number(table, e), env |-> (o.res :> Index(Number(table, e), e)) @@ st.env]
    IN  CASE o.op = "dequantize" -> [st EXCEPT !.env = (o.res :> of[1]) @@ @]
          [] o.op = "weight" -> put(st.table, [op |-> "weight", of |-> <<o.res>>])
          [] o.op = "mul" /\ Len(of) = 2 -> put(st.table, product(of[1], of[2]))
          [] o.op = "rms_norm" /\ Len(of) = 1 -> put(st.table, norm)
          [] o.op = "rms_norm" -> put(normed, product(Index(normed, norm), of[2]))
          [] OTHER -> put(st.table, [op |-> o.op, of |-> of, kw |-> o.kw])

\* After the operations of a function, started with the values in `table`
Computed(table, fn) ==
    FoldLeft(LAMBDA st, o : FoldLeft(Compute, st, Decomposed(o)), [table |-> table, env |-> <<>>], fn.ops)

\* The second function returns what the first does, and reads no value before it is defined
SameResults(fn, new) ==
    LET was == Computed(<<>>, fn)
        is == Computed(was.table, new)
        names(f) == {f.ops[n].res : n \in DOMAIN f.ops}
        before(f, n) == {f.ops[m].res : m \in 1..(n - 1)}
    IN  /\ \A n \in DOMAIN new.ops : \A v \in ToSet(new.ops[n].args) :
              v \in names(fn) \cup names(new) => v \in before(new, n)
        /\ [k \in DOMAIN new.outs |-> Of(is.env, new.outs[k])] = [k \in DOMAIN fn.outs |-> Of(was.env, fn.outs[k])]
===============================================================================
