---------------------------- MODULE BlockManager ----------------------------
(***************************************************************************)
(* The pool of KV-cache blocks of runtime/src/cache/block.rs: reference    *)
(* counts, the free list (a stack), and one block table per request.       *)
(*                                                                         *)
(* Every method takes &mut self, so calls never overlap; the loops of a    *)
(* call are nevertheless modelled one iteration per step (`call` is the    *)
(* activation record of the call in progress), because the accounting has  *)
(* to hold at every iteration.  A call that returns Err changes nothing    *)
(* and is a disabled action.  A few guards belong to the callers, not to   *)
(* block.rs: the prefix cache (radix.rs) only takes references on blocks   *)
(* that some table holds, only gives back references it took, and only     *)
(* hands out blocks it holds; `cacheRefs` counts the references it holds.  *)
(***************************************************************************)
EXTENDS Integers, Sequences, FiniteSets

CONSTANTS
    RequestIds,    \* request identifiers
    NoRequest,     \* rid of the activation record when no call is running
    NumBlocks,     \* num_blocks
    BlockSize,     \* block_size
    MaxTokens,     \* bound: token count a caller asks for, and table size
    MaxCacheRefs   \* bound: references the prefix cache takes on one block

(* block.rs:92-97 rejects empty pools and empty blocks. *)
ASSUME PoolAssumption ==
    /\ NumBlocks \in Nat \ {0}
    /\ BlockSize \in Nat \ {0}
    /\ MaxTokens \in Nat
    /\ MaxCacheRefs \in Nat
    /\ NoRequest \notin RequestIds

Blocks == 0 .. NumBlocks - 1

VARIABLES
    refCount,      \* blocks[b].ref_count
    freeBlocks,    \* free_blocks: pushed and popped at the end
    blockTables,   \* block_tables; <<>> for a request without a key
    known,         \* the keys of block_tables
    sharedOwners,  \* shared_owners, each Vec as the set of its members
    cacheRefs,     \* references held by the nodes of the prefix cache
    call           \* the call in progress

vars == <<refCount, freeBlocks, blockTables, known, sharedOwners, cacheRefs, call>>

(* An activation record: the method, its request, the blocks it works on, and
   its progress (blocks still to pop, or positions of ids already done). *)
Call(op, r, ids, n) == [op |-> op, rid |-> r, ids |-> ids, n |-> n]

Idle == Call("idle", NoRequest, <<>>, 0)

CeilDiv(x, y) == (x + y - 1) \div y

-----------------------------------------------------------------------------

Init ==
    /\ refCount = [b \in Blocks |-> 0]
    /\ freeBlocks = [i \in 1 .. NumBlocks |-> i - 1]
    /\ blockTables = [r \in RequestIds |-> <<>>]
    /\ known = {}
    /\ sharedOwners = [b \in Blocks |-> {}]
    /\ cacheRefs = [b \in Blocks |-> 0]
    /\ call = Idle

(* One iteration of the popping loops: the last free block, now referenced. *)
LastFree == freeBlocks[Len(freeBlocks)]

PopFree ==
    /\ freeBlocks' = SubSeq(freeBlocks, 1, Len(freeBlocks) - 1)
    /\ refCount' = [refCount EXCEPT ![LastFree] = @ + 1]

(* Mistake: the check against the pool is off by one. *)
AllocateOverdraw(r, tokens) ==
    LET needed == CeilDiv(tokens, BlockSize) IN
    /\ call.op = "idle"
    /\ r \notin known
    /\ needed <= Len(freeBlocks) + 1
    /\ call' = Call("allocate", r, <<>>, needed)
    /\ UNCHANGED <<refCount, freeBlocks, blockTables, known, sharedOwners, cacheRefs>>

(* allocate: refuses a known request and a request larger than the pool. *)
Allocate(r, tokens) ==
    LET needed == CeilDiv(tokens, BlockSize) IN
    /\ call.op = "idle"
    /\ r \notin known
    /\ needed <= Len(freeBlocks)
    /\ call' = Call("allocate", r, <<>>, needed)
    /\ UNCHANGED <<refCount, freeBlocks, blockTables, known, sharedOwners, cacheRefs>>

AllocatePop ==
    /\ call.op = "allocate"
    /\ call.n > 0
    /\ PopFree
    /\ call' = Call("allocate", call.rid, Append(call.ids, LastFree), call.n - 1)
    /\ UNCHANGED <<blockTables, known, sharedOwners, cacheRefs>>

(* ensure_blocks: appends to the table, creating it if need be. *)
EnsureBlocks(r, target) ==
    LET existing == Len(blockTables[r]) * BlockSize
        extra    == CeilDiv(target - existing, BlockSize)
    IN
    /\ call.op = "idle"
    /\ existing < target
    /\ extra <= Len(freeBlocks)
    /\ known' = known \cup {r}
    /\ call' = Call("ensure", r, <<>>, extra)
    /\ UNCHANGED <<refCount, freeBlocks, blockTables, sharedOwners, cacheRefs>>

EnsurePop ==
    /\ call.op = "ensure"
    /\ PopFree
    /\ blockTables' = [blockTables EXCEPT ![call.rid] = Append(@, LastFree)]
    /\ call' = IF call.n = 1 THEN Idle ELSE Call("ensure", call.rid, <<>>, call.n - 1)
    /\ UNCHANGED <<known, sharedOwners, cacheRefs>>

(* free: the table is removed first, then released block by block. *)
Free(r) ==
    /\ call.op = "idle"
    /\ r \in known
    /\ known' = known \ {r}
    /\ blockTables' = [blockTables EXCEPT ![r] = <<>>]
    /\ call' = Call("free", r, blockTables[r], 0)
    /\ UNCHANGED <<refCount, freeBlocks, sharedOwners, cacheRefs>>

(* Mistake: the block is pushed while one reference is left. *)
ReleaseRefEarly(b) ==
    LET rc == IF refCount[b] = 0 THEN 0 ELSE refCount[b] - 1 IN
    /\ refCount' = [refCount EXCEPT ![b] = rc]
    /\ freeBlocks' = IF rc <= 1 THEN Append(freeBlocks, b) ELSE freeBlocks

(* saturating_sub(1), and the push when the count reaches zero. *)
ReleaseRef(b) ==
    LET rc == IF refCount[b] = 0 THEN 0 ELSE refCount[b] - 1 IN
    /\ refCount' = [refCount EXCEPT ![b] = rc]
    /\ freeBlocks' = IF rc = 0 THEN Append(freeBlocks, b) ELSE freeBlocks

(* Mistake: the owner is only dropped with the last reference. *)
FreeNextKeepsOwner ==
    LET b == call.ids[call.n + 1] IN
    /\ call.op = "free"
    /\ call.n < Len(call.ids)
    /\ ReleaseRef(b)
    /\ sharedOwners' = [sharedOwners EXCEPT ![b] = IF refCount'[b] = 0 THEN {} ELSE @]
    /\ call' = Call(call.op, call.rid, call.ids, call.n + 1)
    /\ UNCHANGED <<blockTables, known, cacheRefs>>

FreeNext ==
    LET b == call.ids[call.n + 1] IN
    /\ call.op = "free"
    /\ call.n < Len(call.ids)
    /\ ReleaseRef(b)
    /\ sharedOwners' = [sharedOwners EXCEPT ![b] =
                          IF refCount'[b] = 0 THEN {} ELSE @ \ {call.rid}]
    /\ call' = Call(call.op, call.rid, call.ids, call.n + 1)
    /\ UNCHANGED <<blockTables, known, cacheRefs>>

FreeReturn ==
    /\ call.op = "free"
    /\ call.n = Len(call.ids)
    /\ call' = Idle
    /\ UNCHANGED <<refCount, freeBlocks, blockTables, known, sharedOwners, cacheRefs>>

(* free_block: one reference of the prefix cache (eviction). *)
FreeBlock(b) ==
    /\ call.op = "idle"
    /\ cacheRefs[b] > 0
    /\ cacheRefs' = [cacheRefs EXCEPT ![b] = @ - 1]
    /\ ReleaseRef(b)
    /\ sharedOwners' = [sharedOwners EXCEPT ![b] = {}]
    /\ UNCHANGED <<blockTables, known, call>>

(* increment_ref_count: the prefix cache retains a block of a live table. *)
IncrementRefCount(b) ==
    /\ call.op = "idle"
    /\ \E r \in known : \E i \in DOMAIN blockTables[r] : blockTables[r][i] = b
    /\ cacheRefs[b] < MaxCacheRefs
    /\ cacheRefs' = [cacheRefs EXCEPT ![b] = @ + 1]
    /\ refCount' = [refCount EXCEPT ![b] = @ + 1]
    /\ UNCHANGED <<freeBlocks, blockTables, known, sharedOwners, call>>

(* assign_cached_blocks: a prefix hit, blocks the prefix cache holds. *)
AssignCachedBlocks(r, ids) ==
    /\ call.op = "idle"
    /\ \A i \in DOMAIN ids : cacheRefs[ids[i]] > 0
    /\ Len(blockTables[r]) + Len(ids) <= CeilDiv(MaxTokens, BlockSize)  \* bound
    /\ call' = Call("assign", r, ids, 0)
    /\ UNCHANGED <<refCount, freeBlocks, blockTables, known, sharedOwners, cacheRefs>>

(* share_prefix: the first blocks of src's table, for an unknown dst. *)
SharePrefix(src, dst, prefixLen) ==
    LET nBlocks == CeilDiv(prefixLen, BlockSize) IN
    /\ call.op = "idle"
    /\ src \in known
    /\ dst \notin known
    /\ nBlocks <= Len(blockTables[src])
    /\ call' = Call("share", dst, SubSeq(blockTables[src], 1, nBlocks), 0)
    /\ UNCHANGED <<refCount, freeBlocks, blockTables, known, sharedOwners, cacheRefs>>

(* Mistake: the owner is recorded but the reference is not counted. *)
TakeRefUncounted ==
    LET b == call.ids[call.n + 1] IN
    /\ call.op \in {"assign", "share"}
    /\ call.n < Len(call.ids)
    /\ sharedOwners' = [sharedOwners EXCEPT ![b] = @ \cup {call.rid}]
    /\ call' = Call(call.op, call.rid, call.ids, call.n + 1)
    /\ UNCHANGED <<refCount, freeBlocks, blockTables, known, cacheRefs>>

(* The loop both of them run: count the reference, record the owner. *)
TakeRefNext ==
    LET b == call.ids[call.n + 1] IN
    /\ call.op \in {"assign", "share"}
    /\ call.n < Len(call.ids)
    /\ refCount' = [refCount EXCEPT ![b] = @ + 1]
    /\ sharedOwners' = [sharedOwners EXCEPT ![b] = @ \cup {call.rid}]
    /\ call' = Call(call.op, call.rid, call.ids, call.n + 1)
    /\ UNCHANGED <<freeBlocks, blockTables, known, cacheRefs>>

(* allocate, assign_cached_blocks and share_prefix end by storing the table;
   only assign_cached_blocks can find one there, and prepends to it. *)
StoreTable ==
    /\ \/ call.op = "allocate" /\ call.n = 0
       \/ call.op \in {"assign", "share"} /\ call.n = Len(call.ids)
    /\ blockTables' = [blockTables EXCEPT ![call.rid] = call.ids \o @]
    /\ known' = known \cup {call.rid}
    /\ call' = Idle
    /\ UNCHANGED <<refCount, freeBlocks, sharedOwners, cacheRefs>>

Next ==
    \/ \E r \in RequestIds, t \in 0 .. MaxTokens : Allocate(r, t)
    \/ AllocatePop
    \/ \E r \in RequestIds, t \in 0 .. MaxTokens : EnsureBlocks(r, t)
    \/ EnsurePop
    \/ \E r \in RequestIds : Free(r)
    \/ FreeNext
    \/ FreeReturn
    \/ \E b \in Blocks : FreeBlock(b)
    \/ \E b \in Blocks : IncrementRefCount(b)
    \/ \E r \in RequestIds, k \in 1 .. CeilDiv(MaxTokens, BlockSize) :
          \E ids \in [1 .. k -> Blocks] : AssignCachedBlocks(r, ids)
    \/ \E src, dst \in RequestIds, t \in 0 .. MaxTokens : SharePrefix(src, dst, t)
    \/ TakeRefNext
    \/ StoreTable

Spec == Init /\ [][Next]_vars

-----------------------------------------------------------------------------

Calls ==
    [op : {"idle", "allocate", "ensure", "free", "assign", "share"},
     rid : RequestIds \cup {NoRequest}, ids : Seq(Blocks), n : Nat]

VarTypes ==
    /\ refCount \in [Blocks -> Nat]
    /\ freeBlocks \in Seq(Blocks)
    /\ blockTables \in [RequestIds -> Seq(Blocks)]
    /\ known \in SUBSET RequestIds
    /\ sharedOwners \in [Blocks -> SUBSET RequestIds]
    /\ cacheRefs \in [Blocks -> Nat]
    /\ call \in Calls

CallOK ==
    /\ call.op = "idle" => call = Idle
    /\ call.op # "idle" => call.rid \in RequestIds
    /\ call.op \in {"allocate", "ensure"} => call.n <= Len(freeBlocks)
    /\ call.op = "ensure" => call.n > 0 /\ call.rid \in known
    /\ call.op \in {"free", "assign", "share"} => call.n <= Len(call.ids)
    /\ call.op \in {"allocate", "free", "share"} => call.rid \notin known
    /\ \A r \in RequestIds \ known : blockTables[r] = <<>>

(* Types, and what a call in progress relies on: the loops pop no more than
   is free (the expect() calls of block.rs:165-168 and 260-263 cannot fail),
   and a request without a key has no blocks. *)
TypeOK == VarTypes /\ CallOK

(* The positions of c.ids whose references the call c owns right now. *)
InFlight(c) ==
    CASE c.op = "allocate"            -> 1 .. Len(c.ids)
      [] c.op \in {"assign", "share"} -> 1 .. c.n
      [] c.op = "free"                -> c.n + 1 .. Len(c.ids)
      [] OTHER                        -> {}

(* One element per reference to b: an entry of a block table (positive
   index) or a reference in flight in the call c (negative index). *)
TableRefs(tables, b) ==
    UNION {{<<r, i>> : i \in {j \in DOMAIN tables[r] : tables[r][j] = b}} : r \in RequestIds}

CallRefs(c, b) == {<<c.rid, -i>> : i \in {j \in InFlight(c) : c.ids[j] = b}}

RefsTo(b) == TableRefs(blockTables, b) \cup CallRefs(call, b)

(* ref_count is exactly the number of block-table entries and prefix-cache
   references to the block, at every iteration of every loop
   (block.rs:167-169, 185-186, 204-205, 217, 262-264, 295-297, 328): a count
   that is one short returns a block in use to the pool, one too many leaks it. *)
RefCountExact ==
    \A b \in Blocks : refCount[b] = Cardinality(RefsTo(b)) + cacheRefs[b]

(* The free list names every unreferenced block once and no other block
   (block.rs:190-191, 207-208): a block is never handed out while a request
   or the prefix cache uses it, never handed out twice, and never lost. *)
FreePoolExact ==
    /\ \A i, j \in DOMAIN freeBlocks : freeBlocks[i] = freeBlocks[j] => i = j
    /\ \A b \in Blocks :
          refCount[b] = 0 <=> \E i \in DOMAIN freeBlocks : freeBlocks[i] = b

(* shared_owners never names a request that holds no reference to the block
   (block.rs:187-192, 206, 218-221, 298-301). *)
OwnersHold ==
    \A b \in Blocks : \A r \in sharedOwners[b] : \E k \in RefsTo(b) : k[1] = r
=============================================================================
