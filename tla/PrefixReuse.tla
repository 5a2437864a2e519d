----------------------------- MODULE PrefixReuse -----------------------------
(***************************************************************************)
(* What is in the KV slots when the Python engine reuses cached prefixes:  *)
(* radix_cache.py decides which blocks a request starts with,              *)
(* scheduler.rs which positions it is then fed, cache_manager.py writes    *)
(* the keys and values of a position to the slot its block table names.    *)
(* The key and value of a position are determined by the tokens up to it,  *)
(* so a slot holds that token prefix, or <<>> while it is unwritten.       *)
(***************************************************************************)
EXTENDS RadixCache

VARIABLES
    kv,       \* the slab: per block, per offset
    prompt,   \* length of the prompt of each request
    pos       \* the next position each request will be fed

reuseVars == <<vars, kv, prompt, pos>>

ReuseInit ==
    /\ Init
    /\ kv = [b \in Blocks |-> [o \in 0 .. BlockSize - 1 |-> <<>>]]
    /\ prompt = [r \in Requests |-> 0]
    /\ pos = [r \in Requests |-> 0]

(* Admission sets prefill_pos to the matched length; a prompt matched in
   full goes straight to decode, which feeds its last token. *)
Begin(r, t, m) ==
    /\ Serve(r, t, m)
    /\ prompt' = [prompt EXCEPT ![r] = m]
    /\ pos' = [pos EXCEPT ![r] = Min({MatchLen(tree, SubSeq(t, 1, m)), m - 1})]
    /\ UNCHANGED kv

(* The slot of a position in the table of r. *)
Slot(r, p) == <<table[r][p \div BlockSize + 1], p % BlockSize>>

(* write_paged over the fed positions: the rest of the prompt in one pass,
   then one token at a time; the last token is sampled and never fed. *)
Forward(r) ==
    LET next == Max({prompt[r], pos[r] + 1})
        fed  == pos[r] .. next - 1
    IN
    /\ status[r] = "live"
    /\ pos[r] < Len(tokens[r]) - 1
    /\ kv' = [b \in Blocks |-> [o \in 0 .. BlockSize - 1 |->
                 IF \E p \in fed : Slot(r, p) = <<b, o>>
                 THEN SubSeq(tokens[r], 1, 1 + CHOOSE p \in fed : Slot(r, p) = <<b, o>>)
                 ELSE kv[b][o]]]
    /\ pos' = [pos EXCEPT ![r] = next]
    /\ UNCHANGED <<vars, prompt>>

End(r) ==
    /\ pos[r] = Len(tokens[r]) - 1
    /\ Finish(r)
    /\ UNCHANGED <<kv, prompt, pos>>

ReuseNext ==
    \/ \E r \in Requests, t \in Sequences : \E m \in 1 .. Len(t) - 1 : Begin(r, t, m)
    \/ \E r \in Requests : Forward(r)
    \/ \E r \in Requests : End(r)

ReuseSpec == ReuseInit /\ [][ReuseNext]_reuseVars

-----------------------------------------------------------------------------
(* A request's context is its own: every position before the next one it is
   fed holds the KV of its own tokens (radix_cache.py:45-46: "Multiple
   requests can share the same prefix blocks via reference counting"). *)
ContextIsOwn ==
    \A r \in Requests : status[r] = "live" =>
        \A p \in 0 .. pos[r] - 1 :
            kv[Slot(r, p)[1]][Slot(r, p)[2]] = SubSeq(tokens[r], 1, p + 1)
==============================================================================
