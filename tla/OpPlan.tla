-------------------------------- MODULE OpPlan --------------------------------
(***************************************************************************)
(* The op-level plan of the decoder layers: compiler/op_plan.py.           *)
(*                                                                         *)
(* Functions are the records of FxSplit; `slabOf` is the binding table, a  *)
(* function from <<function, output>>, counted from 0, to slabs.  A node's *)
(* input is a tuple led by its source.                                     *)
(***************************************************************************)
EXTENDS Integers, Sequences, FiniteSets, SequencesExt, FiniteSetsExt

Canonical == {"layer_norm", "linear", "scaled_dot_product_attention", "add", "relu", "mul", "view", "transpose", "identity"}

Transient == 0
LayerPersistent == 1
GraphPersistent == 2
CacheOwned == 3

HasOp(f, op) == \E i \in DOMAIN f.ops : f.ops[i].op = op

\* _covered_decoder_pairs: the "a" functions of the pairs
PairStarts(F) ==
    {f \in 1..(Len(F) - 1) : /\ F[f].name[2] = "a" /\ F[f + 1].name = <<F[f].name[1], "b">>
                             /\ HasOp(F[f], "layer_norm") /\ HasOp(F[f], "linear")
                             /\ F[f + 1].ops[1].op = "scaled_dot_product_attention"}
Covered(F) == UNION {{f, f + 1} : f \in PairStarts(F)}

\* One node per operation of the covered functions, in order
PlanOps(F) ==
    LET fs == SelectSeq([f \in DOMAIN F |-> f], LAMBDA f : f \in Covered(F)) IN
    FlattenSeq([k \in DOMAIN fs |-> [i \in DOMAIN F[fs[k]].ops |-> [func |-> fs[k], op |-> F[fs[k]].ops[i]]]])

\* The last of the first n nodes that gives a value; 0 for none
PlanNode(P, n, v) == LET ns == {i \in 1..n : P[i].op.res = v} IN IF ns = {} THEN 0 ELSE Max(ns)

\* Mutant: the function that comes next
FuncOutputNext(F, v) ==
    LET f == Min({g \in DOMAIN F : \E o \in DOMAIN F[g].outputs : F[g].outputs[o].name = v}) IN
    <<f % Len(F), Min({p \in DOMAIN F[f].outputs : F[f].outputs[p].name = v}) - 1>>

\* _build_ssa_to_func_output: the first function and output of a name, from 0
FuncOutput(F, v) ==
    LET f == Min({g \in DOMAIN F : \E o \in DOMAIN F[g].outputs : F[g].outputs[o].name = v})
        o == Min({p \in DOMAIN F[f].outputs : F[f].outputs[p].name = v})
    IN  <<f - 1, o - 1>>
IsFuncOutput(F, v) == \E g \in DOMAIN F : \E o \in DOMAIN F[g].outputs : F[g].outputs[o].name = v

\* _resolve_input.  The weights of a function hold its restored constants as well, so a
\* constant is only CONSTANT when constants.pth did not have it.
ResolveInput(F, f, node, v, restored) ==
    CASE node # 0 -> <<"SSA", node>>
      [] node = 0 /\ v \in f.params \cup (f.consts \cap restored) -> <<"WEIGHT", v>>
      [] node = 0 /\ v \in f.consts \ restored -> <<"CONSTANT", v>>
      [] node = 0 /\ v \notin f.params \cup f.consts /\ IsFuncOutput(F, v) -> <<"FUNC_OUTPUT", FuncOutput(F, v)>>
      [] OTHER -> <<"unresolved">>

PlanNodes(F, P, restored) ==
    [n \in DOMAIN P |->
        [func |-> P[n].func - 1, op |-> P[n].op.op,
         inputs |-> [k \in DOMAIN P[n].op.args |->
                        LET v == P[n].op.args[k] IN ResolveInput(F, F[P[n].func], PlanNode(P, n - 1, v), v, restored)]]]

\* SSA names read by functions outside the plan, and how often inside
ExternalConsumer(F, v) == \E g \in DOMAIN F \ Covered(F) : \E i \in DOMAIN F[g].ops : v \in ToSet(F[g].ops[i].args)
ConsumerCount(P, v) == Cardinality(UNION {{<<n, k>> : k \in {j \in DOMAIN P[n].op.args : P[n].op.args[j] = v}} : n \in DOMAIN P})

\* The covered functions' outputs <<function, output>>, from 0, in order
Projected(F) ==
    LET fs == SelectSeq([f \in DOMAIN F |-> f], LAMBDA f : f \in Covered(F)) IN
    FlattenSeq([k \in DOMAIN fs |-> [o \in DOMAIN F[fs[k]].outputs |-> <<fs[k] - 1, o - 1>>]])
OutputOf(F, p) == F[p[1] + 1].outputs[p[2] + 1]

\* _finalize_outputs: the lifetime of an output; a node that no output names keeps 2
Lifetime(F, P, p) ==
    LET out == OutputOf(F, p) IN
    CASE out.consumed -> CacheOwned
      [] ~out.consumed /\ ExternalConsumer(F, out.name) -> GraphPersistent
      [] ~out.consumed /\ ~ExternalConsumer(F, out.name) /\ ConsumerCount(P, out.name) = 1 -> Transient
      [] OTHER -> LayerPersistent

\* The last covered function's last output that the cache does not take
GlobalOutput(F, P) ==
    LET last == F[Max(Covered(F))].outputs
        shown == {o \in DOMAIN last : ~last[o].consumed}
    IN  IF shown = {} THEN 0 ELSE PlanNode(P, Len(P), last[Max(shown)].name)

\* The plan of the nodes, or ValueError.  The cross checks and validate_op_plan raise when a
\* binding of a covered function is not an output the cache takes.
PlanOf(F, P, nodes, proj, slabOf) ==
    LET consumed == {p \in ToSet(proj) : OutputOf(F, p).consumed}
        refused == \/ \E n \in DOMAIN P : P[n].op.op \notin Canonical
                   \/ \E n \in DOMAIN nodes : \E k \in DOMAIN nodes[n].inputs : nodes[n].inputs[k] = <<"unresolved">>
                   \/ \E p \in ToSet(proj) : PlanNode(P, Len(P), OutputOf(F, p).name) = 0
                   \/ consumed \ DOMAIN slabOf # {}
                   \/ \E p \in DOMAIN slabOf : p[1] + 1 \in Covered(F) /\ p \notin consumed
    IN  IF refused THEN [kind |-> "ValueError"]
        ELSE [kind |-> "plan", nodes |-> nodes,
              outputs |-> [p \in ToSet(proj) |->
                             [node |-> PlanNode(P, Len(P), OutputOf(F, p).name),
                              lifetime |-> Lifetime(F, P, p),
                              slab |-> IF p \in consumed THEN slabOf[p] ELSE "none"]],
              out |-> GlobalOutput(F, P)]

\* generate_op_plan: none without a pair
GenerateOpPlan(F, slabOf, restored) ==
    IF Covered(F) = {} THEN [kind |-> "none"]
    ELSE PlanOf(F, PlanOps(F), PlanNodes(F, PlanOps(F), restored), Projected(F), slabOf)
===============================================================================
