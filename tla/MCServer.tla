------------------------------- MODULE MCServer -------------------------------
(* Instances of the server for TLC. *)
EXTENDS Server

CONSTANTS b1, b2, b3, s1, s2

(* Long and short prompts and answers of either kind. *)
MCChunks == [c \in Clients |-> IF c \in {b1, s2} THEN 2 ELSE 1]
MCMaxNew == [c \in Clients |-> IF c \in {b1, s1} THEN 2 ELSE 1]
===============================================================================
