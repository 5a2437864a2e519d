------------------------------ MODULE Lowering ------------------------------
(***************************************************************************)
(* The stages of src/compiler/pipeline/stages.py that rewrite a function   *)
(* themselves, on the way from linalg tensors to LLVM: the copies put in   *)
(* front of returned arguments (C2.5), bufferization (C3, MLIR's own), the *)
(* replacement of matmuls by BLAS calls with the removal of the weight     *)
(* copies feeding them (C4), and the descriptor chains that replace the    *)
(* casts no pass reconciles (backend/fixups.py).                           *)
(*                                                                         *)
(* A function is a record: `args' and `ret' are sequences of value names,  *)
(* `ops' a sequence of tensor operations in destination-passing style, and *)
(* `ty' gives every value its rank, dimensions (0 is dynamic) and element. *)
(* What a function computes is a term over its arguments, so "the rewrite  *)
(* keeps the results" is an equality of terms.                             *)
(***************************************************************************)
EXTENDS Integers, Sequences, FiniteSets, SequencesExt

NoValue == "-"

(***************************************************************************)
(* Terms, and what each operation leaves in its destination.  A linalg     *)
(* matmul accumulates into it, the BLAS bridge overwrites it.              *)
(***************************************************************************)
Term(f, a) == [f |-> f, a |-> a]
Zero == Term("zero", <<>>)
Garbage == Term("garbage", <<>>)
Transposed(t) == Term("T", <<t>>)
Repeated(t) == Term("B", <<t>>)
Product(a, b, c) == Term("mm", <<a, b, c>>)

Meaning(name, in, acc) ==
    CASE name = "linalg.fill" -> Zero
      [] name = "transpose" -> Transposed(in[1])
      [] name = "broadcast" -> Repeated(in[1])
      [] name \in {"tensor.insert_slice", "memref.copy"} -> in[1]
      [] name \in {"linalg.matmul", "linalg.batch_matmul"} -> Product(in[1], in[2], acc)
      [] name \in {"sfa_sgemm", "sfa_batch_sgemm"} -> Product(in[1], in[2], Zero)
      [] name = "sfa_sgemm_transb" -> Product(in[1], Transposed(in[2]), Zero)
      [] name = "sfa_batch_sgemm_transb" ->
            Product(in[1], Repeated(Transposed(in[2])), Zero)
      [] OTHER -> Term(name, in)

(***************************************************************************)
(* Tensor semantics: the terms a function returns before bufferization.    *)
(***************************************************************************)
TensorResults(fn) ==
    LET step(env, o) ==
            [env EXCEPT ![o.res] =
                Meaning(o.name, [i \in DOMAIN o.ins |-> env[o.ins[i]]],
                        IF o.outs = NoValue THEN Garbage ELSE env[o.outs])]
        end == FoldLeft(step, [v \in DOMAIN fn.ty |-> Term(v, <<>>)], fn.ops)
    IN  [i \in DOMAIN fn.ret |-> end[fn.ret[i]]]

(***************************************************************************)
(* insert_identity_copies_action: an argument that is returned as it came  *)
(* gets a tensor.empty and an insert_slice in front of the return.         *)
(***************************************************************************)
CopyOf(i) == <<"copy1", "copy2">>[i]

IsBlockArgument(fn, i) == \E k \in DOMAIN fn.args : fn.args[k] = fn.ret[i]

InsertIdentityCopies(fn) ==
    LET passed == SelectSeq([i \in DOMAIN fn.ret |-> i], LAMBDA i : IsBlockArgument(fn, i))
        copies == [k \in DOMAIN passed |->
                     [name |-> "tensor.insert_slice", ins |-> <<fn.ret[passed[k]]>>,
                      outs |-> NoValue, res |-> CopyOf(passed[k])]]
    IN  [fn EXCEPT !.ops = @ \o copies,
                   !.ret = [i \in DOMAIN @ |->
                              IF IsBlockArgument(fn, i) THEN CopyOf(i) ELSE @[i]],
                   !.ty = [v \in DOMAIN @ \cup {CopyOf(passed[k]) : k \in DOMAIN passed} |->
                              IF v \in DOMAIN @ THEN @[v]
                              ELSE @[fn.ret[CHOOSE i \in DOMAIN fn.ret : CopyOf(i) = v]]]]

(***************************************************************************)
(* one-shot-bufferize (MLIR's): a destination is written in place unless   *)
(* its tensor is read later on, in which case the result has a buffer of   *)
(* its own.  A buffer bears the name of the first value it holds.  A       *)
(* returned argument leaves the output memref unwritten (the case C2.5     *)
(* exists for).                                                            *)
(***************************************************************************)
ReadAfter(fn, v, k) ==
    \/ \E j \in k + 1..Len(fn.ops) : \E i \in DOMAIN fn.ops[j].ins : fn.ops[j].ins[i] = v
    \/ \E j \in k + 1..Len(fn.ops) : fn.ops[j].outs = v
    \/ \E i \in DOMAIN fn.ret : fn.ret[i] = v

Bufferize(fn) ==
    LET place(buf, k) ==
            LET o == fn.ops[k]
            IN  [buf EXCEPT ![o.res] =
                    IF o.outs = NoValue \/ ReadAfter(fn, o.outs, k) THEN o.res ELSE buf[o.outs]]
        buf == FoldLeft(place, [v \in DOMAIN fn.ty |-> v], [k \in DOMAIN fn.ops |-> k])
        lower(k) ==
            LET o == fn.ops[k]
                op == [name |-> o.name, args |-> [i \in DOMAIN o.ins |-> buf[o.ins[i]]] \o <<buf[o.res]>>]
                keeps == o.outs # NoValue /\ buf[o.res] # buf[o.outs]
            IN  IF keeps THEN <<[name |-> "memref.copy", args |-> <<buf[o.outs], buf[o.res]>>], op>>
                         ELSE <<op>>
    IN  [ops |-> FlattenSeq([k \in DOMAIN fn.ops |-> lower(k)]),
         ty |-> fn.ty, args |-> fn.args,
         out |-> [i \in DOMAIN fn.ret |->
                    IF IsBlockArgument(fn, i) THEN NoValue ELSE buf[fn.ret[i]]]]

(***************************************************************************)
(* What a bufferized block leaves in the output buffers.                   *)
(***************************************************************************)
BlockResults(block) ==
    LET args == {block.args[i] : i \in DOMAIN block.args}
        step(mem, o) ==
            LET n == Len(o.args)
            IN  [mem EXCEPT ![o.args[n]] =
                    Meaning(o.name, [i \in 1..n - 1 |-> mem[o.args[i]]], mem[o.args[n]])]
        mem == FoldLeft(step, [v \in DOMAIN block.ty |->
                                 IF v \in args THEN Term(v, <<>>) ELSE Garbage], block.ops)
    IN  [i \in DOMAIN block.out |-> IF block.out[i] = NoValue THEN Garbage ELSE mem[block.out[i]]]

-----------------------------------------------------------------------------
(***************************************************************************)
(* _lower_linalg_matmul_to_sfa_blas_action and its matchers.               *)
(***************************************************************************)
IsF32(ty, v, rank) == ty[v].rank = rank /\ ty[v].elt = "f32"
Compatible(ty, v, i, w, j) ==
    ty[v].dims[i] = 0 \/ ty[w].dims[j] = 0 \/ ty[v].dims[i] = ty[w].dims[j]

IsPureTranspose(ty, o) ==
    /\ o.name = "transpose" /\ Len(o.args) = 2
    /\ IsF32(ty, o.args[1], 2) /\ IsF32(ty, o.args[2], 2)
    /\ Compatible(ty, o.args[1], 1, o.args[2], 2) /\ Compatible(ty, o.args[1], 2, o.args[2], 1)

IsPureBroadcast(ty, o) ==
    /\ o.name = "broadcast" /\ Len(o.args) = 2
    /\ IsF32(ty, o.args[1], 2) /\ IsF32(ty, o.args[2], 3)
    /\ Compatible(ty, o.args[1], 1, o.args[2], 2) /\ Compatible(ty, o.args[1], 2, o.args[2], 3)

(* What the scan takes for a write: a last operand of two or more.  A fill *)
(* has its value for one; the call that replaced a matmul reads and writes *)
(* through memref.casts, which are not what is looked for.                 *)
Callees == {"sfa_sgemm", "sfa_sgemm_transb", "sfa_batch_sgemm", "sfa_batch_sgemm_transb"}
SeenToWrite(o, target) ==
    /\ Last(o.args) = target
    /\ Len(o.args) >= 2 \/ o.name = "linalg.fill"
    /\ o.name \notin Callees

(* The position of the last operation before `before' that is seen to      *)
(* write `target', 0 when there is none.                                   *)
FirstWriterBefore(ops, target, before) ==
    LET ks == {k \in 1..before - 1 : SeenToWrite(ops[k], target)}
    IN  IF ks = {} THEN 0 ELSE CHOOSE k \in ks : \A j \in ks : k <= j

LastWriterBefore(ops, target, before) ==
    LET ks == {k \in 1..before - 1 : SeenToWrite(ops[k], target)}
    IN  IF ks = {} THEN 0 ELSE CHOOSE k \in ks : \A j \in ks : j <= k

(* The operations of the weight-copy chain feeding the matmul at k and the *)
(* weight behind it; no operations when the chain is not recognised.       *)
NoChain == [dead |-> {}, weight |-> NoValue]

TransbChain2(ty, ops, k) ==
    LET b == ops[k].args[2]
        t == LastWriterBefore(ops, b, k)
        w == ops[t].args[1]
    IN  IF /\ IsF32(ty, b, 2) /\ t # 0
           /\ IsPureTranspose(ty, ops[t])
           /\ Compatible(ty, b, 1, w, 2) /\ Compatible(ty, b, 2, w, 1)
        THEN [dead |-> {t}, weight |-> w] ELSE NoChain

TransbChain3(ty, ops, k) ==
    LET b == ops[k].args[2]
        r == LastWriterBefore(ops, b, k)
        t == LastWriterBefore(ops, ops[r].args[1], r)
        w == ops[t].args[1]
    IN  IF /\ IsF32(ty, b, 3) /\ r # 0
           /\ IsPureBroadcast(ty, ops[r])
           /\ t # 0
           /\ IsPureTranspose(ty, ops[t])
           /\ Compatible(ty, b, 2, w, 2) /\ Compatible(ty, b, 3, w, 1)
        THEN [dead |-> {t, r}, weight |-> w] ELSE NoChain

IsF32Matmul(ty, o) ==
    /\ o.name \in {"linalg.matmul", "linalg.batch_matmul"} /\ Len(o.args) = 3
    /\ \A i \in 1..3 : ty[o.args[i]].elt = "f32"

Callee(name, chained) ==
    IF name = "linalg.matmul" THEN IF chained THEN "sfa_sgemm_transb" ELSE "sfa_sgemm"
    ELSE IF chained THEN "sfa_batch_sgemm_transb" ELSE "sfa_batch_sgemm"

(* The matmuls are replaced one by one, each against the block the ones    *)
(* before it left; the chain's operations are erased.                      *)
ReplaceMatmul(ty, ops, k) ==
    LET chain == IF ops[k].name = "linalg.matmul" THEN TransbChain2(ty, ops, k)
                 ELSE TransbChain3(ty, ops, k)
        call == [name |-> Callee(ops[k].name, chain # NoChain),
                 args |-> IF chain = NoChain THEN ops[k].args
                          ELSE [ops[k].args EXCEPT ![2] = chain.weight]]
        live == SelectSeq([j \in DOMAIN ops |-> j], LAMBDA j : j \notin chain.dead)
    IN  [i \in DOMAIN live |-> IF live[i] = k THEN call ELSE ops[live[i]]]

LowerMatmulsToBlas(block, noBlas) ==
    LET Matmuls(ops) == {k \in DOMAIN ops : IsF32Matmul(block.ty, ops[k])}
        step(ops, o) ==
            IF Matmuls(ops) = {} THEN ops
            ELSE ReplaceMatmul(block.ty, ops, CHOOSE k \in Matmuls(ops) : \A j \in Matmuls(ops) : k <= j)
    IN  IF noBlas THEN block
        ELSE [block EXCEPT !.ops = FoldLeft(step, @, @)]

Lowered(fn, noBlas) == LowerMatmulsToBlas(Bufferize(InsertIdentityCopies(fn)), noBlas)

-----------------------------------------------------------------------------
(***************************************************************************)
(* What the rewrite relies on without looking: every accumulator holds a   *)
(* fill's zeros (SfLowerMatmul.cpp puts it there), each content of a       *)
(* weight copy has one reader at most and is no output, and no transposed  *)
(* weight is written later on.                                             *)
(***************************************************************************)
Writes(o, v) == Last(o.args) = v
Reads(o, v) == \E i \in 1..Len(o.args) - 1 : o.args[i] = v

(* The content that operation d wrote is still there before operation j.   *)
Holds(ops, d, j) == d < j /\ \A k \in d + 1..j - 1 : ~Writes(ops[k], Last(ops[d].args))

Relied(block) ==
    LET ops == block.ops
        f32 == {k \in DOMAIN ops : IsF32Matmul(block.ty, ops[k])}
        copies == {k \in DOMAIN ops : ops[k].name \in {"transpose", "broadcast"}}
    IN  /\ \A k \in f32 : \E d \in 1..k - 1 :
             ops[d].name = "linalg.fill" /\ Writes(ops[d], ops[k].args[3]) /\ Holds(ops, d, k)
        /\ \A d \in copies :
             LET copy == Last(ops[d].args)
             IN  /\ \A i \in DOMAIN block.out : block.out[i] # copy
                 /\ Cardinality({j \in DOMAIN ops : Reads(ops[j], copy) /\ Holds(ops, d, j)}) <= 1
                 /\ \A j \in d + 1..Len(ops) : ~Writes(ops[j], ops[d].args[1])

(***************************************************************************)
(* _fixup_unrealized_casts_pass: a cast from the bare fields of a memref   *)
(* to its descriptor becomes a chain of insertvalues.  The rank comes from *)
(* counting the x's of the printed type, and "index" has one of its own.   *)
(***************************************************************************)
StridedRank(rank, elt) == IF elt = "index" THEN rank + 1 ELSE rank

Position(vi, rank) ==
    IF vi < 3 THEN <<vi>>
    ELSE IF vi - 3 < rank THEN <<3, vi - 3>> ELSE <<4, vi - 3 - rank>>

(* The fields of the descriptor, filled by operand number (from 0).        *)
Descriptor(rank, elt) ==
    LET r == StridedRank(rank, elt)
        n == 3 + 2 * rank
    IN  [p \in {Position(vi, r) : vi \in 0..n - 1} |-> CHOOSE vi \in 0..n - 1 : Position(vi, r) = p]

MemrefFields(rank) ==
    [p \in {<<0>>, <<1>>, <<2>>} \cup {<<f, i>> : f \in {3, 4}, i \in 0..rank - 1} |->
        IF Len(p) = 1 THEN p[1] ELSE IF p[1] = 3 THEN 3 + p[2] ELSE 3 + rank + p[2]]
=============================================================================
