------------------------------ MODULE RadixCache ------------------------------
(***************************************************************************)
(* The prefix cache: runtime/src/cache/radix.rs and the Python cache it    *)
(* ports, python_runtime/engine/cache/radix_cache.py, with the engines     *)
(* that use them.                                                          *)
(*                                                                         *)
(* A node is named by the tokens on the path from the root to its end, so  *)
(* `tree` maps the path of each node to its kv_blocks; its parent is the   *)
(* longest node that is a proper prefix, its token_ids the rest.           *)
(*                                                                         *)
(* The ports differ: a slice past the end of a table panics in Rust and is *)
(* empty in Python; new nodes have ref_count 0 in Rust and 1 in Python,    *)
(* where nothing ever lowers it, so evict finds no node; runner.rs asks    *)
(* for a match before the request runs and so with no tokens (runner.rs:   *)
(* 287-292), llm_engine.py with the prompt.                                *)
(***************************************************************************)
EXTENDS Integers, Sequences, FiniteSets, SequencesExt

CONSTANTS
    Requests,    \* the requests, each served once
    Sequences,   \* the token sequences a request may end up with
    Blocks,      \* the blocks of the pool
    BlockSize,   \* block_size
    Modes        \* the engines to consider: which port, and use_kv_cache

ASSUME RadixAssumption ==
    /\ IsFiniteSet(Requests)
    /\ IsFiniteSet(Blocks)
    /\ Sequences \subseteq Seq(Nat)        \* u32 tokens
    /\ \A t \in Sequences : Len(t) > 1    \* a prompt and at least one output
    /\ BlockSize \in Nat \ {0}
    /\ Modes \subseteq [port : {"rust", "python"}, kv : BOOLEAN]

VARIABLES
    mode,        \* the engine; never changes
    tree,        \* kv_blocks of each node, by path
    refCount,    \* BlockManager: ref_count of each block
    table,       \* BlockManager: block table of each request
    status,      \* "new", "live" or "done"
    tokens,      \* prompt and output of a request
    reused,      \* how many blocks of its table came from a hit
    evict,       \* the evict call in progress
    crashed,     \* a slice out of range has panicked
    remembered   \* history: sequences inserted since the last evict

vars == <<mode, tree, refCount, table, status, tokens, reused, evict, crashed, remembered>>

Port == mode.port

(* With a KV cache tables grow with the output. *)
UseKv == mode.kv

CeilDiv(x, y) == (x + y - 1) \div y

(* The first n elements, and the others; n may exceed the length. *)
Take(s, n) == SubSeq(s, 1, Min({n, Len(s)}))

Drop(s, n) == SubSeq(s, n + 1, Len(s))

Occurrences(b, s) == Cardinality({i \in DOMAIN s : s[i] = b})

-----------------------------------------------------------------------------
(* The walks of match_prefix and insert. *)

(* The node at which the run of full matches ends; <<>> is the root. *)
At(tr, t) == CHOOSE p \in {<<>>} \cup DOMAIN tr :
    /\ IsPrefix(p, t)
    /\ \A q \in DOMAIN tr : IsPrefix(q, t) => Len(q) <= Len(p)

Parent(tr, p) == At(tr, Front(p))

(* Its child that starts with the next token of t: a set of at most one. *)
ChildOf(tr, t) ==
    LET k == Len(At(tr, t)) IN
    {c \in DOMAIN tr : /\ k < Len(t)
                       /\ Parent(tr, c) = At(tr, t)
                       /\ c[k + 1] = t[k + 1]}

(* Where t and the path c part. *)
Common(t, c) == LongestCommonPrefix({t, c})

(* The kv_blocks of the fully matched nodes along t, in order. *)
PathBlocks(tr, t) ==
    LET upTo[k \in 0 .. Len(t)] ==
            IF k = 0 THEN <<>>
            ELSE LET p == SubSeq(t, 1, k)
                 IN  upTo[k - 1] \o (IF p \in DOMAIN tr THEN tr[p] ELSE <<>>)
    IN  upTo[Len(t)]

(* match_prefix: the tokens matched ... *)
MatchLen(tr, t) ==
    IF ChildOf(tr, t) = {} THEN Len(At(tr, t))
    ELSE LET c == CHOOSE x \in ChildOf(tr, t) : TRUE IN Len(Common(t, c))

(* ... and their blocks: of a node matched in part, its proportional share. *)
MatchBlocks(tr, t) ==
    PathBlocks(tr, t) \o
        IF ChildOf(tr, t) = {} THEN <<>>
        ELSE LET c == CHOOSE x \in ChildOf(tr, t) : TRUE
             IN  Take(tr[c], CeilDiv(MatchLen(tr, t) - Len(At(tr, t)), BlockSize))

(* Mistake: the remainder of a split node keeps all of its blocks. *)
SplitCopies(tr, t) ==
    IF ChildOf(tr, t) = {} THEN tr
    ELSE LET c   == CHOOSE x \in ChildOf(tr, t) : TRUE
             n   == CeilDiv(MatchLen(tr, t) - Len(At(tr, t)), BlockSize)
         IN  (Common(t, c) :> Take(tr[c], n)) @@ tr

(* Mistake: the remainder is not attached to the split node. *)
SplitLosesTail(tr, t) ==
    IF ChildOf(tr, t) = {} THEN tr
    ELSE LET c   == CHOOSE x \in ChildOf(tr, t) : TRUE
             n   == CeilDiv(MatchLen(tr, t) - Len(At(tr, t)), BlockSize)
             mid == Common(t, c)
         IN  [p \in (DOMAIN tr \ {c}) \cup {mid} |->
                 IF p = mid THEN Take(tr[c], n) ELSE tr[p]]

(* insert, when t ends or parts inside a node: the node is split there, its
   first blocks go to the upper half. *)
Split(tr, t) ==
    IF ChildOf(tr, t) = {} THEN tr
    ELSE LET c   == CHOOSE x \in ChildOf(tr, t) : TRUE
             n   == CeilDiv(MatchLen(tr, t) - Len(At(tr, t)), BlockSize)
             mid == Common(t, c)
         IN  [p \in DOMAIN tr \cup {mid} |->
                 CASE p = mid -> Take(tr[c], n)
                   [] p = c   -> Drop(tr[c], n)
                   [] OTHER   -> tr[p]]

(* block_offset where the leaf is added: the blocks of the nodes matched in
   full, not those of a node split on the way. *)
BlockOffset(tr, t) == Len(PathBlocks(tr, t))

NeedsLeaf(tr, t) == t \notin DOMAIN Split(tr, t)

(* &kv_blocks[block_offset..] *)
LeafBlocks(tr, t, blocks) == Drop(blocks, BlockOffset(tr, t))

InsertPanics(tr, t, blocks) ==
    Port = "rust" /\ NeedsLeaf(tr, t) /\ BlockOffset(tr, t) > Len(blocks)

(* Mistake: the leaf hangs off the root whatever was matched. *)
InsertUnsplit(tr, t, blocks) ==
    IF t \in DOMAIN tr THEN tr ELSE (t :> LeafBlocks(tr, t, blocks)) @@ tr

Insert(tr, t, blocks) ==
    LET split == Split(tr, t) IN
    [p \in DOMAIN split \cup {t} |->
        IF p \in DOMAIN split THEN split[p] ELSE LeafBlocks(tr, t, blocks)]

-----------------------------------------------------------------------------
NoEvict == [on |-> FALSE, left |-> 0, under |-> <<>>]

Init ==
    /\ mode \in Modes
    /\ tree = <<>>
    /\ refCount = [b \in Blocks |-> 0]
    /\ table = [r \in Requests |-> <<>>]
    /\ status = [r \in Requests |-> "new"]
    /\ tokens = [r \in Requests |-> <<>>]
    /\ reused = [r \in Requests |-> 0]
    /\ evict = NoEvict
    /\ crashed = FALSE
    /\ remembered = {}

(* A request enters the batch: the blocks of its hit are assigned to it and
   the pool supplies the rest.  m is the length of its prompt; with a KV
   cache its table grows ahead of every decode step, and a first output
   that is the last has none. *)
Serve(r, t, m) ==
    LET prompt == SubSeq(t, 1, m)
        hit    == IF Port = "python" THEN MatchBlocks(tree, prompt) ELSE <<>>
        target == IF UseKv /\ m < Len(t) - 1 THEN Len(t) ELSE m
        extra  == Max({0, CeilDiv(target, BlockSize) - Len(hit)})
    IN
    /\ ~ crashed /\ ~ evict.on
    /\ status[r] = "new"
    /\ \E new \in Injection(1 .. extra, {b \in Blocks : refCount[b] = 0}) :
          /\ table' = [table EXCEPT ![r] = hit \o new]
          /\ refCount' = [b \in Blocks |-> refCount[b] + Occurrences(b, hit \o new)]
    /\ status' = [status EXCEPT ![r] = "live"]
    /\ tokens' = [tokens EXCEPT ![r] = t]
    /\ reused' = [reused EXCEPT ![r] = Len(hit)]
    /\ UNCHANGED <<mode, tree, evict, crashed, remembered>>

(* Mistake: the new leaf's blocks are not referenced. *)
FinishUncounted(r) ==
    LET t == tokens[r] IN
    /\ ~ crashed /\ ~ evict.on
    /\ status[r] = "live"
    /\ ~ InsertPanics(tree, t, table[r])
    /\ tree' = Insert(tree, t, table[r])
    /\ table' = [table EXCEPT ![r] = <<>>]
    /\ refCount' = [b \in Blocks |-> refCount[b] - Occurrences(b, table[r])]
    /\ status' = [status EXCEPT ![r] = "done"]
    /\ remembered' = remembered \cup {t}
    /\ UNCHANGED <<mode, tokens, reused, evict, crashed>>

(* The last token: the sequence is inserted, then the table released.  The
   Rust runner releases it only with a KV cache (runner.rs:569-575). *)
Finish(r) ==
    LET t     == tokens[r]
        leaf  == IF NeedsLeaf(tree, t) THEN LeafBlocks(tree, t, table[r]) ELSE <<>>
        frees == Port = "python" \/ UseKv
    IN
    /\ ~ crashed /\ ~ evict.on
    /\ status[r] = "live"
    /\ ~ InsertPanics(tree, t, table[r])
    /\ tree' = Insert(tree, t, table[r])
    /\ table' = IF frees THEN [table EXCEPT ![r] = <<>>] ELSE table
    /\ refCount' = [b \in Blocks |->
          refCount[b] + Occurrences(b, leaf) - IF frees THEN Occurrences(b, table[r]) ELSE 0]
    /\ status' = [status EXCEPT ![r] = "done"]
    /\ remembered' = remembered \cup {t}
    /\ UNCHANGED <<mode, tokens, reused, evict, crashed>>

Panic(r) ==
    /\ ~ crashed /\ ~ evict.on
    /\ status[r] = "live"
    /\ InsertPanics(tree, tokens[r], table[r])
    /\ crashed' = TRUE
    /\ UNCHANGED <<mode, tree, refCount, table, status, tokens, reused, evict, remembered>>

-----------------------------------------------------------------------------
(* evict: leaves before parents, in the order of a depth-first walk over
   hash maps, until target blocks were counted. *)

(* ref_count of every node: set when it is added and copied by a split. *)
NodeRefs == IF Port = "python" THEN 1 ELSE 0

FreeCount == Cardinality({b \in Blocks : refCount[b] = 0})

(* evict_cache_if_needed: what the Python engine asks for, if anything. *)
Pressure ==
    LET reserve == Cardinality(Blocks) \div 10 IN
    IF FreeCount < Max({1, reserve}) THEN {Max({1, reserve - FreeCount})} ELSE {}

Evict(target) ==
    /\ ~ crashed /\ ~ evict.on
    /\ target > 0
    /\ Port = "python" => target \in Pressure
    /\ evict' = [on |-> TRUE, left |-> target, under |-> <<>>]
    /\ remembered' = IF NodeRefs = 0 THEN {} ELSE remembered
    /\ UNCHANGED <<mode, tree, refCount, table, status, tokens, reused, crashed>>

IsLeaf(v) == \A q \in DOMAIN tree : ~ IsStrictPrefix(v, q)

(* The next node in the walk's order goes, with all its blocks or, when the
   target is reached on the way, only the first of them. *)
EvictNode(v) ==
    LET freeing == Take(tree[v], evict.left) IN
    /\ evict.on
    /\ evict.left > 0
    /\ v \in DOMAIN tree
    /\ IsLeaf(v)
    /\ NodeRefs = 0
    /\ IsPrefix(evict.under, v)
    /\ refCount' = [b \in Blocks |-> refCount[b] - Occurrences(b, freeing)]
    /\ tree' = [p \in DOMAIN tree \ {v} |-> tree[p]]
    /\ evict' = [evict EXCEPT !.left = @ - Len(freeing), !.under = Parent(tree, v)]
    /\ UNCHANGED <<mode, table, status, tokens, reused, crashed, remembered>>

EvictDone ==
    /\ evict.on
    /\ evict.left = 0 \/ DOMAIN tree = {} \/ NodeRefs > 0
    /\ evict' = NoEvict
    /\ UNCHANGED <<mode, tree, refCount, table, status, tokens, reused, crashed, remembered>>

Next ==
    \/ \E r \in Requests, t \in Sequences : \E m \in 1 .. Len(t) - 1 : Serve(r, t, m)
    \/ \E r \in Requests : Finish(r)
    \/ \E r \in Requests : Panic(r)
    \/ \E target \in 1 .. Cardinality(Blocks) : Evict(target)
    \/ \E v \in DOMAIN tree : EvictNode(v)
    \/ EvictDone

Spec == Init /\ [][Next]_vars

-----------------------------------------------------------------------------
(* Two paths part at a node: no node has two children that start with the
   same token, so the walks of match_prefix and insert are determined
   (radix.rs:113-170). *)
TreeShape ==
    \A p, q \in DOMAIN tree : Common(p, q) \in {<<>>} \cup DOMAIN tree

(* A sequence once inserted is matched to its last token until the cache is
   evicted, whatever is inserted after it and however its node is split
   (radix.rs:128-160). *)
Remembered == \A t \in remembered : MatchLen(tree, t) = Len(t)

CachedRefs(b) == SumFunction([p \in DOMAIN tree |-> Occurrences(b, tree[p])])

TableRefs(b) == SumFunction([r \in Requests |-> Occurrences(b, table[r])])

(* Every block named by a node or a table is counted for each time it is
   named (radix.rs:230-243, 277-287), so none is handed out while in use; and
   a block a live request took from the pool is its own alone, in no other
   table and in no node (radix_cache.py:241-245: the caller must ensure that
   cached blocks are "absent from the free_blocks pool"). *)
BlocksSafe ==
    /\ \A b \in Blocks : refCount[b] >= CachedRefs(b) + TableRefs(b)
    /\ \A r \in Requests : status[r] = "live" =>
          \A i \in reused[r] + 1 .. Len(table[r]) : refCount[table[r][i]] = 1

(* The blocks along the path to a node never change while the node is there
   (radix.rs:133-148): a hit a request has taken stays valid for its tokens
   when later insertions split the path. *)
StableHits ==
    [][\A p \in DOMAIN tree \cap DOMAIN tree' : PathBlocks(tree', p) = PathBlocks(tree, p)]_tree
===============================================================================
