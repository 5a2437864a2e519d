-------------------------------- MODULE Artifact --------------------------------
(***************************************************************************)
(* The files of a compiled model: model.mlir, written as lines by          *)
(* mlir_module_to_text (src/compiler/artifact/serialize.py) and read back  *)
(* line by line by _parse_mlir_text (parse.py), and the compute graph that *)
(* _build_constants_binary (binary.py) puts in constants.bin.              *)
(*                                                                         *)
(* A line is a record; `line' tells which of the parser's branches takes   *)
(* it.  Types are left out of the function line but for their number.      *)
(***************************************************************************)
EXTENDS Integers, Sequences, FiniteSets, SequencesExt

NoFunction == [name |-> "no function"]
NoName == <<>>
ValueError == [ok |-> FALSE, functions |-> <<>>]

(***************************************************************************)
(* mlir_module_to_text.  A weight keeps its name and its type only; the    *)
(* consumed flags are attributes of the function, written when one is set; *)
(* a function without outputs has no return.                               *)
(***************************************************************************)
OpLine(o) ==
    IF o.op = "weight" THEN [line |-> "op", op |-> "weight", args |-> <<>>, res |-> o.res,
                             ins |-> <<>>, out |-> o.out, kw |-> [name |-> o.args[1]]]
    ELSE [line |-> "op", op |-> o.op, args |-> o.args, res |-> o.res, ins |-> o.ins, out |-> o.out, kw |-> o.kw]

FuncLine(f) ==
    [line |-> "func", name |-> f.name, inputs |-> f.inputs, results |-> Len(f.outputs),
     consumed |-> IF \E i \in DOMAIN f.outputs : f.outputs[i].consumed
                  THEN [i \in DOMAIN f.outputs |-> f.outputs[i].consumed] ELSE <<>>]

ReturnLine(f) ==
    IF f.outputs = <<>> THEN <<>>
    ELSE <<[line |-> "return", names |-> [i \in DOMAIN f.outputs |-> f.outputs[i].name]]>>

Text(functions) ==
    <<[line |-> "module"]>>
      \o FlattenSeq([i \in DOMAIN functions |->
            LET f == functions[i]
            IN  <<FuncLine(f)>> \o [k \in DOMAIN f.ops |-> OpLine(f.ops[k])] \o ReturnLine(f) \o <<[line |-> "}"]>>])
      \o <<[line |-> "}"]>>

(***************************************************************************)
(* _parse_mlir_text.  The state is the functions closed so far, the one    *)
(* that is open and, in it, the names of the weights by the values that    *)
(* stand for them.                                                         *)
(***************************************************************************)
(* _parse_mlir_op: an operand that is a weight's value becomes its name.   *)
ParseOp(st, l) ==
    LET names == IF l.op = "weight" THEN [v \in DOMAIN st.names \cup {l.res} |->
                                              IF v = l.res THEN l.kw.name ELSE st.names[v]]
                 ELSE st.names
        operand(v) == IF v \in DOMAIN names THEN names[v] ELSE v
        op == [op |-> l.op, args |-> [i \in DOMAIN l.args |-> operand(l.args[i])], res |-> l.res,
               ins |-> l.ins, out |-> l.out, kw |-> l.kw]
    IN  IF st.open = NoFunction THEN st
        ELSE [st EXCEPT !.names = names, !.open.ops = Append(@, op)]

ParseFunc(st, l) ==
    [st EXCEPT !.names = <<>>,
               !.open = [name |-> l.name, inputs |-> l.inputs, ops |-> <<>>,
                         outputs |-> [i \in 1..l.results |->
                            [name |-> NoName, consumed |-> i \in DOMAIN l.consumed /\ l.consumed[i]]]]]

ParseReturn(st, l) ==
    IF st.open = NoFunction \/ st.open.outputs = <<>> THEN st
    ELSE [st EXCEPT !.open.outputs = [i \in DOMAIN l.names |->
                [name |-> l.names[i], consumed |-> @[i].consumed]]]

ParseClose(st) ==
    IF st.open = NoFunction THEN st
    ELSE [st EXCEPT !.functions = Append(@, st.open), !.open = NoFunction]

ParseLine(st, l) ==
    CASE l.line = "func" -> ParseFunc(st, l)
      [] l.line = "op" -> ParseOp(st, l)
      [] l.line = "return" -> ParseReturn(st, l)
      [] l.line = "}" -> ParseClose(st)
      [] OTHER -> st

(* What the file gives when it ends after a line in this state: an open    *)
(* function counts, and one whose outputs have no names is refused.        *)
Implicit(f) == f.outputs # <<>> /\ \A i \in DOMAIN f.outputs : f.outputs[i].name = NoName

\* Mutant: implicit returns are accepted
ParsedUnchecked(st) == [ok |-> TRUE, functions |-> ParseClose(st).functions]

Parsed(st) ==
    LET functions == ParseClose(st).functions
    IN  IF \E i \in DOMAIN functions : Implicit(functions[i]) THEN ValueError
        ELSE [ok |-> TRUE, functions |-> functions]

ParseStates(text) ==
    FoldLeft(LAMBDA sts, l : Append(sts, ParseLine(Last(sts), l)),
             <<[functions |-> <<>>, open |-> NoFunction, names |-> <<>>]>>, text)

(***************************************************************************)
(* _emit_compute_graph_section.  Every output of a function is its buffer  *)
(* 0, "packed by bufferization"; the last function of that output's name   *)
(* gives it; an input nobody gives is taken from function 0.  Weights come *)
(* behind the inputs, constants do not come at all.                        *)
(***************************************************************************)
\* Mutant: only the first output of a function is entered, "mapped to index 0"
GraphProducerPacked(functions, v) ==
    LET fs == {f \in DOMAIN functions : functions[f].outputs # <<>> /\ functions[f].outputs[1].name = v}
    IN  IF fs = {} THEN 1 ELSE CHOOSE f \in fs : \A g \in fs : g <= f

GraphProducer(functions, v) ==
    LET fs == {f \in DOMAIN functions : \E i \in DOMAIN functions[f].outputs : functions[f].outputs[i].name = v}
    IN  IF fs = {} THEN 1 ELSE CHOOSE f \in fs : \A g \in fs : g <= f

GraphInput(functions, f, i) ==
    IF f = 1 /\ i <= 2 THEN <<"global">>
    ELSE <<"ssa", GraphProducer(functions, functions[f].inputs[i]) - 1, 0>>

IsConst(name) == name[1] = "const"

GraphInputs(functions, f) ==
    LET weights == SelectSeq(functions[f].ops, LAMBDA o : o.op = "weight" /\ ~IsConst(o.args[1]))
    IN  [i \in DOMAIN functions[f].inputs |-> GraphInput(functions, f, i)]
          \o [i \in DOMAIN weights |-> <<"weight", weights[i].args[1]>>]
===============================================================================
