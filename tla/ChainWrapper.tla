----------------------------- MODULE ChainWrapper -----------------------------
(***************************************************************************)
(* `main', the entry point of a model of several functions: the execution  *)
(* plan as the flat array of fx/split.py, the function that the pass       *)
(* sf-chain-wrapper (sf-dialect/lib/Sf/SfChainWrapper.cpp) makes of it,    *)
(* and its repair in compile_dylib.                                        *)
(*                                                                         *)
(* Functions are the records of FxSplit; params[f] and results[f] are how  *)
(* many arguments and results the f-th has after weight promotion.  An     *)
(* operand of a call in main is <<"arg", n>> or <<"result", step, output>>,*)
(* counted from 0.                                                         *)
(***************************************************************************)
EXTENDS Integers, Sequences, SequencesExt

\* _flatten_execution_plan: an edge is three numbers
Flattened(F, globals) ==
    <<Len(F), globals>> \o FlattenSeq([f \in DOMAIN F |-> <<Len(F[f].edges)>> \o FlattenSeq(F[f].edges)])

-------------------------------------------------------------------------------
(* parseExecPlan *)

Refused == [ok |-> FALSE, at |-> 0, steps |-> <<>>]

ParseStep(data, st) ==
    IF ~st.ok \/ st.at > Len(data) THEN Refused
    ELSE LET last == st.at + 3 * data[st.at]
             edges == [i \in 1..data[st.at] |-> SubSeq(data, st.at + 3 * i - 2, st.at + 3 * i)]
         IN  IF last > Len(data) \/ \E i \in DOMAIN edges : edges[i][1] > 1 THEN Refused
             ELSE [ok |-> TRUE, at |-> last + 1, steps |-> Append(st.steps, edges)]

ParseExecPlan(data, n) ==
    IF Len(data) < 2 \/ data[1] # n THEN Refused
    ELSE LET st == FoldLeft(LAMBDA s, k : ParseStep(data, s), [ok |-> TRUE, at |-> 3, steps |-> <<>>], [k \in 1..n |-> k])
         IN  [st EXCEPT !.ok = st.ok /\ st.at = Len(data) + 1]

-------------------------------------------------------------------------------
(* SfChainWrapperPass *)

NoMain == [kind |-> "none", calls |-> <<>>]
PassFailure == [kind |-> "failure", calls |-> <<>>]

\* The calls before step s have given what an edge of it names
Available(edge, s, params, results) ==
    IF edge[1] = 0 THEN edge[2] < params[1]
    ELSE edge[2] + 1 < s /\ edge[3] < results[edge[2] + 1]

CallOperand(edge) == IF edge[1] = 0 THEN <<"arg", edge[2]>> ELSE <<"result", edge[2], edge[3]>>

\* main takes the arguments of the first function and has the results of the last, of which
\* it returns the first: the verifier refuses it unless there is one
ChainWrapper(data, params, results) ==
    LET n == Len(params)
        plan == ParseExecPlan(data, n)
        first == [i \in 1..params[1] |-> <<"arg", i - 1>>]
        call(s) == IF s = 1 THEN first ELSE [i \in DOMAIN plan.steps[s] |-> CallOperand(plan.steps[s][i])]
    IN  IF n = 1 THEN [kind |-> "main", calls |-> <<first>>]
        ELSE IF ~plan.ok THEN NoMain
        ELSE IF \/ \E s \in 2..n : \E e \in ToSet(plan.steps[s]) : ~Available(e, s, params, results)
                \/ \E s \in 2..n : Len(plan.steps[s]) # params[s]
                \/ results[n] # 1
             THEN PassFailure
        ELSE [kind |-> "main", calls |-> [s \in 1..n |-> call(s)]]

-------------------------------------------------------------------------------
(* _fixup_main_call_operands *)

\* The callee of a call is looked for under the text of its reference, "@main_1"; the symbol
\* of a function has no "@"
Callees(names, s) == {f \in DOMAIN names : <<"", names[f]>> = <<"@", names[s]>>}

\* A call that is short of operands gets the arguments of main in their places
FixedUp(main, names, params) ==
    [main EXCEPT !.calls = [s \in DOMAIN main.calls |->
        LET short == {params[f] - Len(main.calls[s]) : f \in Callees(names, s)}
            missing == IF short = {} THEN 0 ELSE CHOOSE k \in short : TRUE
        IN  main.calls[s] \o [i \in 1..missing |-> <<"arg", Len(main.calls[s]) + i - 1>>]]]
===============================================================================
