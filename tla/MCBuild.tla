------------------------------ MODULE MCBuild ------------------------------
(* Small instances for Build: two kinds of model, two dialects, two        *)
(* compiles and two compile_dylib runs; the first run lowers one of a      *)
(* family of functions, the second a fixed one.                            *)
EXTENDS Build

MCModels == {[kind |-> "rwkv", consts |-> TRUE], [kind |-> "rwkv", consts |-> FALSE],
             [kind |-> "llama", consts |-> TRUE]}
Symmetry == Permutations(Dialects)

M(rank, elt) == [rank |-> rank, elt |-> elt,
                 dims |-> IF rank = 2 THEN <<0, 0>> ELSE <<0, 0, 0>>]
Op(name, ins, outs, res) == [name |-> name, ins |-> ins, outs |-> outs, res |-> res]

(* A linear layer: y = x W^T, of rank 2 or 3, in f32 or bf16, whose weight *)
(* may first be scaled in place or be copied twice into one scratch, whose *)
(* accumulator may not be filled, whose weight copy may be read again, and *)
(* which may return an argument as it came.                                *)
Linear(rank, elt, pre, filled, reuse, passes) ==
    LET ty == [v \in {"x", "w", "v"} |-> M(IF v = "x" THEN rank ELSE 2, elt)]
        scratch == [v \in {"t0", "t", "w2"} |-> M(2, elt)] @@
                   ("i" :> M(2, "index"))
        big == [v \in {"b", "z", "z2", "y", "y2", "g"} |-> M(rank, elt)]
        copy == CASE pre = "plain" -> <<Op("transpose", <<"w">>, NoValue, "t")>>
                  [] pre = "twice" -> <<Op("transpose", <<"v">>, NoValue, "t0"),
                                        Op("gelu", <<"t0">>, NoValue, "g"),
                                        Op("transpose", <<"w">>, "t0", "t")>>
                  [] pre = "scaled" -> <<Op("transpose", <<"w">>, NoValue, "t"),
                                         Op("scale", <<"v">>, "w", "w2")>>
        feed == IF rank = 2 THEN <<>> ELSE <<Op("broadcast", <<"t">>, NoValue, "b")>>
        rhs == IF rank = 2 THEN "t" ELSE "b"
        mm == IF rank = 2 THEN "linalg.matmul" ELSE "linalg.batch_matmul"
        fill(z) == IF filled THEN <<Op("linalg.fill", <<>>, NoValue, z)>>
                   ELSE <<Op("bias", <<"x">>, NoValue, z)>>
        again == IF reuse THEN fill("z2") \o <<Op(mm, <<"y", rhs>>, "z2", "y2")>> ELSE <<>>
    IN  [args |-> <<"x", "w", "v">>,
         ty |-> ty @@ scratch @@ big,
         ops |-> copy \o feed \o fill("z") \o <<Op(mm, <<"x", rhs>>, "z", "y")>> \o again,
         ret |-> <<IF reuse THEN "y2" ELSE "y", IF passes THEN "v" ELSE
                   CASE pre = "twice" -> "g" [] pre = "scaled" -> "w2" [] OTHER -> "y">>]

MCBodies(n, c) ==
    IF n = 1 /\ c = 1 THEN {Linear(rank, elt, pre, filled, reuse, ~reuse) :
                    rank \in {2, 3}, elt \in {"f32"}, pre \in {"plain", "twice", "scaled"},
                    filled \in BOOLEAN, reuse \in BOOLEAN}
         \cup {Linear(2, "bf16", "plain", TRUE, reuse, TRUE) : reuse \in BOOLEAN}
    ELSE {Linear(2, "f32", "plain", TRUE, FALSE, FALSE)}
=============================================================================
