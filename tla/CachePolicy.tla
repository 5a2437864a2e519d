----------------------------- MODULE CachePolicy -----------------------------
(***************************************************************************)
(* The cache policy of a model: compiler/cache_policy.py, what             *)
(* compiler/compile.py makes of it, and how the runtime reads it back.     *)
(*                                                                         *)
(* A configuration has positive numbers or None for its fields, `types`    *)
(* the attention of its layers (<<>> when it does not say) and `text` an   *)
(* optional nested configuration in a sequence.  A policy is               *)
(* [err, slabs, intercepts]; an intercept that is not bound has func -1.   *)
(***************************************************************************)
EXTENDS Integers, Sequences, SequencesExt

None == 0
Sdpa == "scaled_dot_product_attention"

Slab(id, storage, layers, heads, dim) ==
    [id |-> id, storage |-> storage, layers |-> layers, heads |-> heads, dim |-> dim]
Intercept(slab, op, source) == [slab |-> slab, op |-> op, source |-> source, func |-> -1, out |-> -1]

Policy(slabs, intercepts) == [err |-> "none", slabs |-> slabs, intercepts |-> intercepts]
NoPolicy == Policy(<<>>, <<>>)
Invalid == [NoPolicy EXCEPT !.err = "ValueError"]

KvSlabs(layers, heads, dim) == <<Slab("k", "paged", layers, heads, dim), Slab("v", "paged", layers, heads, dim)>>
KvIntercepts == <<Intercept("k", Sdpa, "operand[1]"), Intercept("v", Sdpa, "operand[2]")>>

ForLlama(layers, heads, dim) == Policy(KvSlabs(layers, heads, dim), KvIntercepts)

\* The state slabs' own dimensions are other ones than heads and dim; the wire format
\* has no place for them
ForMixedLinear(full, linear, heads, dim, stateHeads) ==
    Policy(KvSlabs(full, heads, dim) \o <<Slab("recurrent_state", "fixed", linear, stateHeads, None),
                                          Slab("conv_state", "fixed", linear, None, None)>>,
           KvIntercepts \o <<Intercept("recurrent_state", "linear_attn", "recurrent_state"),
                             Intercept("conv_state", "linear_attn", "conv_state")>>)

ForRwkv(layers, dim) == Policy(<<Slab("state", "fixed", layers, None, dim)>>, <<Intercept("state", "state_evolve", "output")>>)

ForConfig(config) ==
    LET cfg == IF config.text = <<>> THEN config ELSE config.text[1]
        kvHeads == IF cfg.kvHeads = None THEN cfg.heads ELSE cfg.kvHeads
        dim == IF cfg.dim = None THEN cfg.hidden \div cfg.heads ELSE cfg.dim
        full == SelectSeq(cfg.types, LAMBDA t : t = "full_attention")
    IN
    CASE None \in {cfg.layers, cfg.heads, kvHeads} -> Invalid
      [] None \notin {cfg.layers, cfg.heads} /\ cfg.dim = None /\ (cfg.hidden = None \/ cfg.hidden % cfg.heads # 0) -> Invalid
      [] OTHER ->
            IF full # cfg.types
            THEN ForMixedLinear(Len(full), Len(cfg.types) - Len(full), kvHeads, dim, cfg.stateHeads)
            ELSE IF cfg.types # <<>> /\ Len(cfg.types) # cfg.layers THEN Invalid
            ELSE ForLlama(cfg.layers, kvHeads, dim)

\* _cache_policy_from_model: no policy where the runtime cannot keep the state
FromModel(config) ==
    LET policy == ForConfig(config) IN
    IF \E i \in DOMAIN policy.slabs : policy.slabs[i].id \in {"recurrent_state", "conv_state"} THEN NoPolicy ELSE policy

HasSdpa(policy) == \E i \in DOMAIN policy.intercepts : policy.intercepts[i].op = Sdpa

\* operand_slab of _make_multi_functions: SDPA operand -> slab, the last intercept winning
OperandSlab(policy) ==
    LET of(k) == SelectSeq(policy.intercepts, LAMBDA i : i.op = Sdpa /\ i.source = <<"operand[1]", "operand[2]">>[k])
        bound == {k \in {1, 2} : of(k) # <<>>}
    IN  [k \in bound |-> Last(of(k)).slab]

\* bind_cache_policy: the SDPA templates are replaced by one intercept per binding
Bind(policy, bindings) ==
    LET template(slab) == SelectSeq(policy.intercepts, LAMBDA i : i.op = Sdpa /\ i.slab = slab)
        bound(b) == [slab |-> b[3], op |-> Sdpa, func |-> b[1], out |-> b[2],
                     source |-> IF template(b[3]) = <<>> THEN "operand[1]" ELSE Last(template(b[3])).source]
    IN  IF bindings = <<>> THEN policy
        ELSE [policy EXCEPT !.intercepts = SelectSeq(@, LAMBDA i : i.op # Sdpa)
                                               \o [k \in DOMAIN bindings |-> bound(bindings[k])]]

\* serialize_cache_policy: param_indices are func_index and output_index, when it has them
ParamIndices(i) == (IF i.func = -1 THEN <<>> ELSE <<i.func>>) \o (IF i.out = -1 THEN <<>> ELSE <<i.out>>)
Serialized(policy) ==
    [slabs |-> policy.slabs,
     intercepts |-> [k \in DOMAIN policy.intercepts |->
                       [slab |-> policy.intercepts[k].slab, params |-> ParamIndices(policy.intercepts[k])]]]

\* _dict_to_proto_cache_policy: from the dict in metadata.json, which spells None as null; what
\* the slabs have besides their dimensions takes its default where an older file lacks it
FromDict(dict) ==
    [slabs |-> dict.slabs,
     intercepts |-> [k \in DOMAIN dict.intercepts |->
                       LET i == dict.intercepts[k]
                           index(key) == IF i[key] = -1 THEN <<>> ELSE <<i[key]>>
                       IN  [slab |-> i.slab, params |-> index("func") \o index("out")]]]

\* CachePolicy::from_proto: an index that is not there reads as 0
FromProto(wire) ==
    [k \in DOMAIN wire.intercepts |->
        LET p == wire.intercepts[k].params
            nth(n) == IF n <= Len(p) THEN p[n] ELSE 0
        IN  [slab |-> wire.intercepts[k].slab, func |-> nth(1), out |-> nth(2)]]
==============================================================================
