------------------------------- MODULE Retain -------------------------------
(* What a list keeps, in its order, when some of its elements go: Vec::retain *)
(* in the Rust runtime, a list comprehension in the Python one.               *)
EXTENDS Integers, Sequences

Retain(s, gone) ==
    LET kept[i \in 0 .. Len(s)] ==
            IF i = 0 THEN <<>>
            ELSE IF s[i] \in gone THEN kept[i - 1] ELSE Append(kept[i - 1], s[i])
    IN  kept[Len(s)]
=============================================================================
