------------------------- MODULE BlockManager_proof -------------------------
(***************************************************************************)
(* Proofs about the block pool, for every pool size, block size and set of *)
(* requests: types, exact reference counts, an exact free list, and sound  *)
(* shared_owners.  RefCountExact is not inductive alone: releasing a       *)
(* reference is only right when the count is positive (saturating_sub      *)
(* hides an underflow), popping is only right when the free list holds     *)
(* unreferenced blocks, and a hit may only be counted on blocks that stay  *)
(* referenced while the loop runs.  IInv collects these facts.             *)
(***************************************************************************)
EXTENDS BlockManager, FiniteSetTheorems, SequenceTheorems, TLAPS

-----------------------------------------------------------------------------
(* Lemmas about the operators. *)

(* Rounding a token count up to blocks gives a natural number. *)
LEMMA CeilDivType ==
    ASSUME NEW x \in Nat, NEW y \in Nat \ {0}
    PROVE  CeilDiv(x, y) \in Nat
<1>1. x + y - 1 \in Nat
  OBVIOUS
<1>. QED
  BY <1>1, SMT DEF CeilDiv

(* A positive count needs at least one block. *)
LEMMA CeilDivPositive ==
    ASSUME NEW x \in Nat \ {0}, NEW y \in Nat \ {0}
    PROVE  CeilDiv(x, y) \in Nat \ {0}
<1>1. x + y - 1 \in Nat /\ x + y - 1 >= y
  OBVIOUS
<1>. QED
  BY <1>1, SMT DEF CeilDiv

(* Popping the last element of a sequence. *)
LEMMA PopLast ==
    ASSUME NEW S, NEW s \in Seq(S), Len(s) > 0
    PROVE  /\ s[Len(s)] \in S
           /\ SubSeq(s, 1, Len(s) - 1) \in Seq(S)
           /\ Len(SubSeq(s, 1, Len(s) - 1)) = Len(s) - 1
           /\ \A i \in 1 .. Len(s) - 1 : SubSeq(s, 1, Len(s) - 1)[i] = s[i]
<1>1. \A m \in Nat : (\A i \in 1 .. m : s[i] \in S) => Len(SubSeq(s, 1, m)) = m
  BY SubSeqProperties
<1>2. Len(s) - 1 \in Nat /\ \A i \in 1 .. Len(s) - 1 : s[i] \in S
  OBVIOUS
<1>3. Len(SubSeq(s, 1, Len(s) - 1)) = Len(s) - 1
  BY <1>1, <1>2, Zenon
<1>4. SubSeq(s, 1, Len(s) - 1) \in Seq(S)
  OBVIOUS
<1>5. \A i \in 1 .. Len(s) - 1 : SubSeq(s, 1, Len(s) - 1)[i] = s[i]
  OBVIOUS
<1>6. s[Len(s)] \in S
  OBVIOUS
<1>. QED
  BY <1>3, <1>4, <1>5, <1>6, Zenon

(* The entries of a concatenation. *)
LEMMA ConcatParts ==
    ASSUME NEW S, NEW s \in Seq(S), NEW t \in Seq(S), NEW u, u = s \o t
    PROVE  /\ DOMAIN u = 1 .. Len(s) + Len(t)
           /\ \A i \in 1 .. Len(s) : u[i] = s[i]
           /\ \A i \in 1 .. Len(t) : u[i + Len(s)] = t[i]
<1>1. Len(s) \in Nat /\ Len(t) \in Nat
  BY LenProperties
<1>2. u \in Seq(S) /\ Len(u) = Len(s) + Len(t)
  BY ConcatProperties
<1>3. DOMAIN u = 1 .. Len(s) + Len(t)
  BY <1>2, LenProperties
<1>4. \A i \in 1 .. Len(s) : u[i] = s[i]
  BY <1>1
<1>5. \A i \in 1 .. Len(t) : u[i + Len(s)] = t[i]
  BY <1>1
<1>. QED
  BY <1>3, <1>4, <1>5

(* Two sets in one-to-one correspondence have the same size. *)
LEMMA SameSize ==
    ASSUME NEW S, NEW T, IsFiniteSet(S), NEW f \in [S -> T],
           \A x, y \in S : f[x] = f[y] => x = y,
           \A t \in T : \E s \in S : f[s] = t
    PROVE  IsFiniteSet(T) /\ Cardinality(T) = Cardinality(S)
<1>1. f \in Bijection(S, T)
  BY DEF Bijection, Injection, Surjection, IsInjective
<1>2. ExistsBijection(S, T)
  BY <1>1 DEF ExistsBijection
<1>. QED
  BY <1>2, FS_Bijection

(* The references in block tables and those in flight, element by element. *)
LEMMA TableRefsMember ==
    ASSUME NEW T, NEW b, NEW k
    PROVE  k \in TableRefs(T, b) <=>
              \E r \in RequestIds : \E i \in DOMAIN T[r] : T[r][i] = b /\ k = <<r, i>>
  BY DEF TableRefs

(* The references in flight in a call. *)
LEMMA CallRefsMember ==
    ASSUME NEW c, NEW b, NEW k
    PROVE  k \in CallRefs(c, b) <=>
              \E i \in InFlight(c) : c.ids[i] = b /\ k = <<c.rid, -i>>
  BY DEF CallRefs

-----------------------------------------------------------------------------
(* Types. *)

(* An empty pool is well typed and no call is running. *)
LEMMA InitTypeOK == Init => TypeOK
  BY PoolAssumption, SMT DEF Init, TypeOK, VarTypes, CallOK, Calls, Call, Idle, Blocks

(* What the popping loops do to the pool. *)
LEMMA PopFreeEffect ==
    ASSUME TypeOK, PopFree, Len(freeBlocks) > 0
    PROVE  /\ LastFree \in Blocks
           /\ freeBlocks' \in Seq(Blocks)
           /\ Len(freeBlocks') = Len(freeBlocks) - 1
           /\ \A i \in 1 .. Len(freeBlocks) - 1 : freeBlocks'[i] = freeBlocks[i]
           /\ refCount' = [refCount EXCEPT ![LastFree] = @ + 1]
           /\ refCount' \in [Blocks -> Nat]
<1>1. freeBlocks \in Seq(Blocks) /\ refCount \in [Blocks -> Nat]
  BY DEF TypeOK, VarTypes
<1>2. LastFree \in Blocks
  BY <1>1, PopLast DEF LastFree
<1>3. /\ freeBlocks' = SubSeq(freeBlocks, 1, Len(freeBlocks) - 1)
      /\ refCount' = [refCount EXCEPT ![LastFree] = @ + 1]
  BY DEF PopFree
<1>4. /\ freeBlocks' \in Seq(Blocks)
      /\ Len(freeBlocks') = Len(freeBlocks) - 1
      /\ \A i \in 1 .. Len(freeBlocks) - 1 : freeBlocks'[i] = freeBlocks[i]
  BY <1>1, <1>3, PopLast
<1>5. refCount' \in [Blocks -> Nat]
  BY <1>1, <1>2, <1>3
<1>. QED
  BY <1>2, <1>3, <1>4, <1>5

(* What releasing one reference does to the pool. *)
LEMMA ReleaseRefEffect ==
    ASSUME TypeOK, NEW b \in Blocks, ReleaseRef(b)
    PROVE  /\ refCount' \in [Blocks -> Nat]
           /\ refCount' = [refCount EXCEPT ![b] = IF @ = 0 THEN 0 ELSE @ - 1]
           /\ freeBlocks' = IF refCount'[b] = 0 THEN Append(freeBlocks, b) ELSE freeBlocks
           /\ freeBlocks' \in Seq(Blocks)
<1>1. freeBlocks \in Seq(Blocks) /\ refCount \in [Blocks -> Nat]
  BY DEF TypeOK, VarTypes
<1>2. /\ refCount' = [refCount EXCEPT ![b] = IF @ = 0 THEN 0 ELSE @ - 1]
      /\ freeBlocks' = IF refCount'[b] = 0 THEN Append(freeBlocks, b) ELSE freeBlocks
  BY <1>1 DEF ReleaseRef
<1>3. Append(freeBlocks, b) \in Seq(Blocks)
  BY <1>1, AppendProperties
<1>. QED
  BY <1>1, <1>2, <1>3

(* Every step keeps the types, and the promises of CallOK to running calls. *)
LEMMA NextTypeOK == TypeOK /\ [Next]_vars => TypeOK'
<1>. SUFFICES ASSUME VarTypes, CallOK, [Next]_vars PROVE VarTypes' /\ CallOK'
  BY DEF TypeOK
<1>. USE PoolAssumption DEF Call
<1>1. ASSUME NEW r \in RequestIds, NEW t \in 0 .. MaxTokens, Allocate(r, t)
      PROVE  VarTypes' /\ CallOK'
  <2>1. CeilDiv(t, BlockSize) \in Nat
    BY CeilDivType
  <2>2. VarTypes'
    BY <1>1, <2>1 DEF Allocate, VarTypes, Calls
  <2>3. CallOK'
    BY <1>1 DEF Allocate, CallOK, Idle
  <2>. QED
    BY <2>2, <2>3
<1>2. CASE AllocatePop
  <2>1. call.n \in Nat \ {0} /\ call.n <= Len(freeBlocks) /\ call.rid \in RequestIds \ known
    BY <1>2 DEF AllocatePop, VarTypes, CallOK, Calls
  <2>2. Len(freeBlocks) \in Nat \ {0}
    BY <2>1, LenProperties DEF VarTypes
  <2>3. /\ LastFree \in Blocks
        /\ freeBlocks' \in Seq(Blocks)
        /\ Len(freeBlocks') = Len(freeBlocks) - 1
        /\ refCount' \in [Blocks -> Nat]
    BY <1>2, <2>2, PopFreeEffect DEF AllocatePop, TypeOK
  <2>4. Append(call.ids, LastFree) \in Seq(Blocks)
    BY <2>3, AppendProperties DEF VarTypes, Calls
  <2>5. call' = Call("allocate", call.rid, Append(call.ids, LastFree), call.n - 1)
    BY <1>2 DEF AllocatePop
  <2>6. call' \in Calls
    BY <2>1, <2>4, <2>5 DEF Calls
  <2>7. UNCHANGED <<blockTables, known, sharedOwners, cacheRefs>>
    BY <1>2 DEF AllocatePop
  <2>8. VarTypes'
    BY <2>3, <2>6, <2>7 DEF VarTypes
  <2>9. CallOK'
    BY <2>1, <2>2, <2>3, <2>5, <2>7 DEF CallOK
  <2>. QED
    BY <2>8, <2>9
<1>3. ASSUME NEW r \in RequestIds, NEW t \in 0 .. MaxTokens, EnsureBlocks(r, t)
      PROVE  VarTypes' /\ CallOK'
  <2>1. t - Len(blockTables[r]) * BlockSize \in Nat \ {0}
    BY <1>3 DEF EnsureBlocks, VarTypes
  <2>2. CeilDiv(t - Len(blockTables[r]) * BlockSize, BlockSize) \in Nat \ {0}
    BY <2>1, CeilDivPositive
  <2>3. VarTypes'
    BY <1>3, <2>2 DEF EnsureBlocks, VarTypes, Calls
  <2>4. CallOK'
    BY <1>3, <2>2 DEF EnsureBlocks, CallOK
  <2>. QED
    BY <2>3, <2>4
<1>4. CASE EnsurePop
  <2>1. call.n \in Nat \ {0} /\ call.n <= Len(freeBlocks) /\ call.rid \in RequestIds \cap known
    BY <1>4 DEF EnsurePop, VarTypes, CallOK, Calls
  <2>2. Len(freeBlocks) \in Nat \ {0}
    BY <2>1, LenProperties DEF VarTypes
  <2>3. /\ LastFree \in Blocks
        /\ freeBlocks' \in Seq(Blocks)
        /\ Len(freeBlocks') = Len(freeBlocks) - 1
        /\ refCount' \in [Blocks -> Nat]
    BY <1>4, <2>2, PopFreeEffect DEF EnsurePop, TypeOK
  <2>4. Append(blockTables[call.rid], LastFree) \in Seq(Blocks)
    BY <2>1, <2>3, AppendProperties DEF VarTypes
  <2>5. blockTables' = [blockTables EXCEPT ![call.rid] = Append(@, LastFree)]
    BY <1>4 DEF EnsurePop
  <2>6. call' = IF call.n = 1 THEN Idle ELSE Call("ensure", call.rid, <<>>, call.n - 1)
    BY <1>4 DEF EnsurePop
  <2>7. call' \in Calls
    BY <2>1, <2>6 DEF Calls, Idle
  <2>8. UNCHANGED <<known, sharedOwners, cacheRefs>>
    BY <1>4 DEF EnsurePop
  <2>9. VarTypes'
    BY <2>1, <2>3, <2>4, <2>5, <2>7, <2>8 DEF VarTypes
  <2>11. \A r \in RequestIds \ known' : blockTables'[r] = <<>>
    BY <2>1, <2>5, <2>8 DEF CallOK, VarTypes
  <2>12. call.n # 1 => call.n - 1 > 0 /\ call.n - 1 <= Len(freeBlocks')
    BY <2>1, <2>2, <2>3
  <2>10. CallOK'
    BY <2>1, <2>6, <2>8, <2>11, <2>12 DEF CallOK, Idle
  <2>. QED
    BY <2>9, <2>10
<1>5. ASSUME NEW r \in RequestIds, Free(r)
      PROVE  VarTypes' /\ CallOK'
  <2>1. VarTypes'
    BY <1>5 DEF Free, VarTypes, Calls
  <2>2. CallOK'
    BY <1>5 DEF Free, CallOK, VarTypes
  <2>. QED
    BY <2>1, <2>2
<1>6. CASE FreeNext
  <2>1. call.rid \in RequestIds \ known /\ call.ids[call.n + 1] \in Blocks
    BY <1>6 DEF FreeNext, VarTypes, CallOK, Calls
  <2>2. refCount' \in [Blocks -> Nat] /\ freeBlocks' \in Seq(Blocks)
    BY <1>6, <2>1, ReleaseRefEffect DEF FreeNext, TypeOK
  <2>3. call' = Call("free", call.rid, call.ids, call.n + 1)
    BY <1>6 DEF FreeNext
  <2>4. call' \in Calls
    BY <2>3 DEF VarTypes, Calls
  <2>5. sharedOwners' \in [Blocks -> SUBSET RequestIds]
    BY <1>6, <2>1 DEF FreeNext, VarTypes
  <2>6. UNCHANGED <<blockTables, known, cacheRefs>>
    BY <1>6 DEF FreeNext
  <2>7. VarTypes'
    BY <2>2, <2>4, <2>5, <2>6 DEF VarTypes
  <2>8. call.n + 1 <= Len(call.ids)
    BY <1>6 DEF FreeNext, VarTypes, Calls
  <2>9. CallOK'
    BY <2>1, <2>3, <2>6, <2>8 DEF CallOK
  <2>. QED
    BY <2>7, <2>9
<1>7. CASE FreeReturn
  <2>1. VarTypes'
    BY <1>7 DEF FreeReturn, VarTypes, Calls, Idle
  <2>2. CallOK'
    BY <1>7 DEF FreeReturn, CallOK, Idle
  <2>. QED
    BY <2>1, <2>2
<1>8. ASSUME NEW b \in Blocks, FreeBlock(b)
      PROVE  VarTypes' /\ CallOK'
  <2>1. refCount' \in [Blocks -> Nat] /\ freeBlocks' \in Seq(Blocks)
    BY <1>8, ReleaseRefEffect DEF FreeBlock, TypeOK
  <2>4. cacheRefs' \in [Blocks -> Nat]
    BY <1>8 DEF FreeBlock, VarTypes
  <2>5. sharedOwners' \in [Blocks -> SUBSET RequestIds]
    BY <1>8 DEF FreeBlock, VarTypes
  <2>6. UNCHANGED <<blockTables, known, call>>
    BY <1>8 DEF FreeBlock
  <2>2. VarTypes'
    BY <2>1, <2>4, <2>5, <2>6 DEF VarTypes
  <2>3. CallOK'
    BY <1>8 DEF FreeBlock, CallOK
  <2>. QED
    BY <2>2, <2>3
<1>9. ASSUME NEW b \in Blocks, IncrementRefCount(b)
      PROVE  VarTypes' /\ CallOK'
  BY <1>9 DEF IncrementRefCount, VarTypes, CallOK
<1>10. ASSUME NEW r \in RequestIds, NEW k \in 1 .. CeilDiv(MaxTokens, BlockSize),
              NEW ids \in [1 .. k -> Blocks], AssignCachedBlocks(r, ids)
       PROVE  VarTypes' /\ CallOK'
  <2>1. ids \in Seq(Blocks) /\ Len(ids) \in Nat
    OBVIOUS
  <2>2. VarTypes'
    BY <1>10, <2>1 DEF AssignCachedBlocks, VarTypes, Calls
  <2>3. CallOK'
    BY <1>10, <2>1 DEF AssignCachedBlocks, CallOK
  <2>. QED
    BY <2>2, <2>3
<1>11. ASSUME NEW src \in RequestIds, NEW dst \in RequestIds, NEW t \in 0 .. MaxTokens,
              SharePrefix(src, dst, t)
       PROVE  VarTypes' /\ CallOK'
  <2>1. CeilDiv(t, BlockSize) \in Nat
    BY CeilDivType
  <2>2. SubSeq(blockTables[src], 1, CeilDiv(t, BlockSize)) \in Seq(Blocks)
    BY <1>11, <2>1 DEF SharePrefix, VarTypes
  <2>3. VarTypes'
    BY <1>11, <2>2 DEF SharePrefix, VarTypes, Calls
  <2>4. 0 <= Len(SubSeq(blockTables[src], 1, CeilDiv(t, BlockSize)))
    BY <2>2, LenProperties
  <2>5. CallOK'
    BY <1>11, <2>4 DEF SharePrefix, CallOK
  <2>. QED
    BY <2>3, <2>5
<1>12. CASE TakeRefNext
  <2>1. call.rid \in RequestIds /\ call.ids[call.n + 1] \in Blocks
    BY <1>12 DEF TakeRefNext, VarTypes, CallOK, Calls
  <2>2. call' = Call(call.op, call.rid, call.ids, call.n + 1)
    BY <1>12 DEF TakeRefNext
  <2>3. call' \in Calls
    BY <2>2 DEF VarTypes, Calls
  <2>4. /\ refCount' \in [Blocks -> Nat]
        /\ sharedOwners' \in [Blocks -> SUBSET RequestIds]
    BY <1>12, <2>1 DEF TakeRefNext, VarTypes
  <2>5. UNCHANGED <<freeBlocks, blockTables, known, cacheRefs>>
    BY <1>12 DEF TakeRefNext
  <2>6. VarTypes'
    BY <2>3, <2>4, <2>5 DEF VarTypes
  <2>7. call.n + 1 <= Len(call.ids)
    BY <1>12 DEF TakeRefNext, VarTypes, Calls
  <2>8. call.op \in {"assign", "share"}
    BY <1>12 DEF TakeRefNext
  <2>9. CallOK'
    BY <2>1, <2>2, <2>5, <2>7, <2>8 DEF CallOK
  <2>. QED
    BY <2>6, <2>9
<1>13. CASE StoreTable
  <2>1. call.rid \in RequestIds /\ call.ids \in Seq(Blocks)
    BY <1>13 DEF StoreTable, VarTypes, CallOK, Calls
  <2>2. call.ids \o blockTables[call.rid] \in Seq(Blocks)
    BY <2>1, ConcatProperties DEF VarTypes
  <2>3. VarTypes'
    BY <1>13, <2>1, <2>2 DEF StoreTable, VarTypes, Calls, Idle
  <2>4. \A r \in RequestIds \ known' : blockTables'[r] = <<>>
    BY <1>13, <2>1 DEF StoreTable, VarTypes, CallOK
  <2>5. CallOK'
    BY <1>13, <2>4 DEF StoreTable, CallOK, Idle
  <2>. QED
    BY <2>3, <2>5
<1>14. CASE UNCHANGED vars
  BY <1>14 DEF vars, VarTypes, CallOK
<1>. QED
  BY <1>1, <1>2, <1>3, <1>4, <1>5, <1>6, <1>7, <1>8, <1>9, <1>10, <1>11, <1>12, <1>13, <1>14
     DEF Next

(* Types are invariant: in particular the expect() calls of the popping loops
   (block.rs:165-168, 260-263) never fail, whatever the callers do. *)
THEOREM TypeCorrect == Spec => []TypeOK
  BY InitTypeOK, NextTypeOK, PTL DEF Spec

-----------------------------------------------------------------------------
(* The free list. *)

(* Popping hands out an unreferenced block and leaves an exact free list. *)
LEMMA PopKeepsPool ==
    ASSUME TypeOK, FreePoolExact, PopFree, Len(freeBlocks) > 0
    PROVE  FreePoolExact' /\ refCount[LastFree] = 0
<1>. DEFINE L == Len(freeBlocks)
<1>1. /\ freeBlocks \in Seq(Blocks)
      /\ refCount \in [Blocks -> Nat]
      /\ L \in Nat \ {0}
      /\ DOMAIN freeBlocks = 1 .. L
  BY LenProperties DEF TypeOK, VarTypes
<1>2. /\ LastFree \in Blocks
      /\ DOMAIN freeBlocks' = 1 .. L - 1
      /\ \A i \in 1 .. L - 1 : freeBlocks'[i] = freeBlocks[i]
      /\ refCount' = [refCount EXCEPT ![LastFree] = @ + 1]
  BY PopFreeEffect, LenProperties
<1>3. /\ \A i, j \in 1 .. L : freeBlocks[i] = freeBlocks[j] => i = j
      /\ \A b \in Blocks : refCount[b] = 0 <=> \E i \in 1 .. L : freeBlocks[i] = b
  BY <1>1 DEF FreePoolExact
<1>4. freeBlocks[L] = LastFree
  BY DEF LastFree
<1>. HIDE DEF L
<1>5. refCount[LastFree] = 0
  BY <1>1, <1>2, <1>3, <1>4
<1>6. \A i, j \in DOMAIN freeBlocks' : freeBlocks'[i] = freeBlocks'[j] => i = j
  BY <1>1, <1>2, <1>3
<1>7. ASSUME NEW b \in Blocks
      PROVE  refCount'[b] = 0 <=> \E i \in DOMAIN freeBlocks' : freeBlocks'[i] = b
  <2>1. CASE b = LastFree
    <3>1. refCount'[b] = 1
      BY <1>1, <1>2, <1>5, <2>1
    <3>2. \A i \in 1 .. L - 1 : freeBlocks[i] # b
      BY <1>1, <1>3, <1>4, <2>1
    <3>. QED
      BY <1>2, <3>1, <3>2
  <2>2. CASE b # LastFree
    <3>1. refCount'[b] = refCount[b]
      BY <1>1, <1>2, <2>2
    <3>2. (\E i \in 1 .. L : freeBlocks[i] = b) <=> (\E i \in 1 .. L - 1 : freeBlocks[i] = b)
      BY <1>1, <1>4, <2>2
    <3>. QED
      BY <1>2, <1>3, <3>1, <3>2
  <2>. QED
    BY <2>1, <2>2
<1>. QED
  BY <1>5, <1>6, <1>7 DEF FreePoolExact

(* Releasing a counted reference leaves an exact free list. *)
LEMMA ReleaseKeepsPool ==
    ASSUME TypeOK, FreePoolExact, NEW x \in Blocks, ReleaseRef(x), refCount[x] > 0
    PROVE  FreePoolExact' /\ refCount' = [refCount EXCEPT ![x] = @ - 1]
<1>. DEFINE L == Len(freeBlocks)
<1>1. /\ freeBlocks \in Seq(Blocks)
      /\ refCount \in [Blocks -> Nat]
      /\ L \in Nat
      /\ DOMAIN freeBlocks = 1 .. L
  BY LenProperties DEF TypeOK, VarTypes
<1>2. refCount' = [refCount EXCEPT ![x] = @ - 1]
  BY <1>1, ReleaseRefEffect
<1>3. /\ \A i, j \in 1 .. L : freeBlocks[i] = freeBlocks[j] => i = j
      /\ \A b \in Blocks : refCount[b] = 0 <=> \E i \in 1 .. L : freeBlocks[i] = b
  BY <1>1 DEF FreePoolExact
<1>4. CASE refCount'[x] # 0
  <2>1. freeBlocks' = freeBlocks
    BY <1>4, ReleaseRefEffect
  <2>2. \A b \in Blocks : refCount'[b] = 0 <=> refCount[b] = 0
    BY <1>1, <1>2, <1>4
  <2>. QED
    BY <1>2, <2>1, <2>2 DEF FreePoolExact
<1>5. CASE refCount'[x] = 0
  <2>1. freeBlocks' = Append(freeBlocks, x)
    BY <1>5, ReleaseRefEffect
  <2>2. /\ Len(freeBlocks') = L + 1
        /\ DOMAIN freeBlocks' = 1 .. L + 1
        /\ \A i \in 1 .. L : freeBlocks'[i] = freeBlocks[i]
        /\ freeBlocks'[L + 1] = x
    BY <1>1, <2>1, AppendProperties, LenProperties
  <2>. HIDE DEF L
  <2>3. \A i \in 1 .. L : freeBlocks[i] # x
    BY <1>1, <1>3
  <2>4. \A i, j \in DOMAIN freeBlocks' : freeBlocks'[i] = freeBlocks'[j] => i = j
    BY <1>1, <1>3, <2>2, <2>3
  <2>5. ASSUME NEW b \in Blocks
        PROVE  refCount'[b] = 0 <=> \E i \in DOMAIN freeBlocks' : freeBlocks'[i] = b
    <3>1. CASE b = x
      BY <1>1, <1>5, <2>2, <3>1
    <3>2. CASE b # x
      <4>1. refCount'[b] = refCount[b]
        BY <1>1, <1>2, <3>2
      <4>2. (\E i \in 1 .. L : freeBlocks[i] = b) <=> (\E i \in 1 .. L + 1 : freeBlocks'[i] = b)
        BY <1>1, <2>2, <3>2
      <4>. QED
        BY <1>3, <2>2, <4>1, <4>2
    <3>. QED
      BY <3>1, <3>2
  <2>. QED
    BY <1>2, <2>4, <2>5 DEF FreePoolExact
<1>. QED
  BY <1>4, <1>5

(* Counting one more reference on a block in use leaves the free list exact. *)
LEMMA BumpKeepsPool ==
    ASSUME TypeOK, FreePoolExact, NEW x \in Blocks, refCount[x] > 0,
           refCount' = [refCount EXCEPT ![x] = @ + 1], freeBlocks' = freeBlocks
    PROVE  FreePoolExact'
<1>1. refCount \in [Blocks -> Nat]
  BY DEF TypeOK, VarTypes
<1>2. \A b \in Blocks : refCount'[b] = 0 <=> refCount[b] = 0
  BY <1>1
<1>. QED
  BY <1>2 DEF FreePoolExact

-----------------------------------------------------------------------------
(* The references. *)

RefsFinite == \A b \in Blocks : IsFiniteSet(RefsTo(b))

(* One reference more, one count more. *)
LEMMA AddOneRef ==
    ASSUME TypeOK, RefsFinite, RefCountExact, NEW x \in Blocks, NEW key,
           key \notin RefsTo(x),
           \A b \in Blocks : RefsTo(b)' = IF b = x THEN RefsTo(b) \cup {key} ELSE RefsTo(b),
           refCount' = [refCount EXCEPT ![x] = @ + 1],
           cacheRefs' = cacheRefs
    PROVE  RefsFinite' /\ RefCountExact'
<1>1. refCount \in [Blocks -> Nat] /\ cacheRefs \in [Blocks -> Nat]
  BY DEF TypeOK, VarTypes
<1>2. ASSUME NEW b \in Blocks
      PROVE  /\ IsFiniteSet(RefsTo(b)')
             /\ refCount'[b] = Cardinality(RefsTo(b)') + cacheRefs'[b]
  <2>1. /\ IsFiniteSet(RefsTo(b))
        /\ Cardinality(RefsTo(b)) \in Nat
        /\ refCount[b] = Cardinality(RefsTo(b)) + cacheRefs[b]
    BY FS_CardinalityType DEF RefsFinite, RefCountExact
  <2>2. CASE b = x
    <3>1. RefsTo(b)' = RefsTo(b) \cup {key}
      BY <2>2
    <3>2. /\ IsFiniteSet(RefsTo(b)')
          /\ Cardinality(RefsTo(b)') = Cardinality(RefsTo(b)) + 1
      BY <2>1, <2>2, <3>1, FS_AddElement
    <3>. QED
      BY <1>1, <2>1, <2>2, <3>2
  <2>3. CASE b # x
    BY <1>1, <2>1, <2>3
  <2>. QED
    BY <2>2, <2>3
<1>. QED
  BY <1>2 DEF RefsFinite, RefCountExact

(* One reference fewer, one count fewer. *)
LEMMA RemoveOneRef ==
    ASSUME TypeOK, RefsFinite, RefCountExact, NEW x \in Blocks, NEW key,
           key \in RefsTo(x),
           \A b \in Blocks : RefsTo(b)' = IF b = x THEN RefsTo(b) \ {key} ELSE RefsTo(b),
           refCount' = [refCount EXCEPT ![x] = @ - 1],
           cacheRefs' = cacheRefs
    PROVE  RefsFinite' /\ RefCountExact'
<1>1. refCount \in [Blocks -> Nat] /\ cacheRefs \in [Blocks -> Nat]
  BY DEF TypeOK, VarTypes
<1>2. ASSUME NEW b \in Blocks
      PROVE  /\ IsFiniteSet(RefsTo(b)')
             /\ refCount'[b] = Cardinality(RefsTo(b)') + cacheRefs'[b]
  <2>1. /\ IsFiniteSet(RefsTo(b))
        /\ Cardinality(RefsTo(b)) \in Nat
        /\ refCount[b] = Cardinality(RefsTo(b)) + cacheRefs[b]
    BY FS_CardinalityType DEF RefsFinite, RefCountExact
  <2>2. CASE b = x
    <3>1. RefsTo(b)' = RefsTo(b) \ {key}
      BY <2>2
    <3>2. /\ IsFiniteSet(RefsTo(b)')
          /\ Cardinality(RefsTo(b)') = Cardinality(RefsTo(b)) - 1
      BY <2>1, <2>2, <3>1, FS_RemoveElement
    <3>. QED
      BY <1>1, <2>1, <2>2, <3>2
  <2>3. CASE b # x
    BY <1>1, <2>1, <2>3
  <2>. QED
    BY <2>2, <2>3
<1>. QED
  BY <1>2 DEF RefsFinite, RefCountExact

(* A referenced block has a positive count. *)
LEMMA ReferencedPositive ==
    ASSUME TypeOK, RefsFinite, RefCountExact, NEW x \in Blocks,
           RefsTo(x) # {} \/ cacheRefs[x] > 0
    PROVE  refCount[x] > 0
<1>1. cacheRefs[x] \in Nat
  BY DEF TypeOK, VarTypes
<1>2. /\ IsFiniteSet(RefsTo(x))
      /\ Cardinality(RefsTo(x)) \in Nat
      /\ refCount[x] = Cardinality(RefsTo(x)) + cacheRefs[x]
  BY FS_CardinalityType DEF RefsFinite, RefCountExact
<1>3. RefsTo(x) # {} => Cardinality(RefsTo(x)) > 0
  BY <1>2, FS_EmptySet
<1>. QED
  BY <1>1, <1>2, <1>3

-----------------------------------------------------------------------------
(* How the steps of a call change the set of references. *)

(* Table references carry positive indices, references in flight negative ones. *)
LEMMA RefIndices ==
    ASSUME NEW T \in [RequestIds -> Seq(Blocks)], NEW b, NEW r, NEW n \in Nat
    PROVE  <<r, -(n + 1)>> \notin TableRefs(T, b)
<1>1. SUFFICES ASSUME NEW q \in RequestIds, NEW i \in DOMAIN T[q],
                      <<r, -(n + 1)>> = <<q, i>>
               PROVE  FALSE
  BY TableRefsMember
<1>2. i \in 1 .. Len(T[q])
  BY <1>1, LenProperties
<1>3. -(n + 1) = i
  BY <1>1
<1>. QED
  BY <1>2, <1>3

(* The positions a call owns, by method. *)
LEMMA InFlightOf ==
    ASSUME NEW c
    PROVE  /\ c.op = "allocate" => InFlight(c) = 1 .. Len(c.ids)
           /\ c.op \in {"assign", "share"} => InFlight(c) = 1 .. c.n
           /\ c.op = "free" => InFlight(c) = c.n + 1 .. Len(c.ids)
           /\ c.op \in {"ensure", "idle"} => InFlight(c) = {}
  BY DEF InFlight

(* A call that owns no position owns no reference. *)
LEMMA NoCallRefs ==
    ASSUME NEW c, InFlight(c) = {}, NEW b
    PROVE  CallRefs(c, b) = {}
  BY CallRefsMember

(* From the call c to the call d, one more position, block x, is owned. *)
Grows(c, d, n, x, key) ==
    /\ n \in Nat
    /\ key = <<c.rid, -(n + 1)>>
    /\ d.rid = c.rid
    /\ InFlight(c) = 1 .. n
    /\ InFlight(d) = 1 .. n + 1
    /\ \A i \in 1 .. n : d.ids[i] = c.ids[i]
    /\ d.ids[n + 1] = x

(* Its references grow by that one. *)
LEMMA CallRefsGrow ==
    ASSUME NEW c, NEW d, NEW n, NEW x, NEW key, Grows(c, d, n, x, key), NEW b
    PROVE  /\ key \notin CallRefs(c, b)
           /\ b = x => CallRefs(d, b) = CallRefs(c, b) \cup {key}
           /\ b # x => CallRefs(d, b) = CallRefs(c, b)
<1>. /\ n \in Nat /\ d.rid = c.rid /\ key = <<c.rid, -(n + 1)>>
     /\ InFlight(c) = 1 .. n /\ InFlight(d) = 1 .. n + 1
     /\ \A i \in 1 .. n : d.ids[i] = c.ids[i]
     /\ d.ids[n + 1] = x
  BY DEF Grows
<1>. DEFINE old == CallRefs(c, b)
            new == CallRefs(d, b)
<1>1. \A k : k \in old <=> \E i \in 1 .. n : c.ids[i] = b /\ k = <<c.rid, -i>>
  BY CallRefsMember
<1>2. \A k : k \in new <=> \E i \in 1 .. n + 1 : d.ids[i] = b /\ k = <<c.rid, -i>>
  BY CallRefsMember
<1>. HIDE DEF old, new
<1>3. \A k : k \in new <=> k \in old \/ (x = b /\ k = key)
  BY <1>1, <1>2
<1>4. key \notin old
  <2>1. SUFFICES ASSUME NEW i \in 1 .. n, key = <<c.rid, -i>> PROVE FALSE
    BY <1>1
  <2>2. -(n + 1) = -i
    BY <2>1
  <2>. QED
    BY <2>2
<1>5. b = x => new = old \cup {key}
  BY <1>3
<1>6. b # x => new = old
  BY <1>3
<1>. QED
  BY <1>4, <1>5, <1>6 DEF old, new

(* From the call c to the call d, the first of the owned positions is given up. *)
Shrinks(c, d, n, L, x, key) ==
    /\ x = c.ids[n + 1]
    /\ key = <<c.rid, -(n + 1)>>
    /\ n \in Nat /\ L \in Nat /\ n < L
    /\ d.rid = c.rid /\ d.ids = c.ids
    /\ InFlight(c) = n + 1 .. L
    /\ InFlight(d) = n + 2 .. L

(* Its references shrink by that one. *)
LEMMA CallRefsShrink ==
    ASSUME NEW c, NEW d, NEW n, NEW L, NEW x, NEW key,
           Shrinks(c, d, n, L, x, key), NEW b
    PROVE  /\ b = x => key \in CallRefs(c, b)
           /\ b = x => CallRefs(d, b) = CallRefs(c, b) \ {key}
           /\ b # x => CallRefs(d, b) = CallRefs(c, b)
<1>. /\ n \in Nat /\ L \in Nat /\ n < L /\ x = c.ids[n + 1] /\ key = <<c.rid, -(n + 1)>>
     /\ d.rid = c.rid /\ d.ids = c.ids
     /\ InFlight(c) = n + 1 .. L /\ InFlight(d) = n + 2 .. L
  BY DEF Shrinks
<1>. DEFINE old == CallRefs(c, b)
            new == CallRefs(d, b)
<1>2. \A k : k \in old <=> \E i \in n + 1 .. L : c.ids[i] = b /\ k = <<c.rid, -i>>
  BY CallRefsMember
<1>3. \A k : k \in new <=> \E i \in n + 2 .. L : c.ids[i] = b /\ k = <<c.rid, -i>>
  BY CallRefsMember
<1>. HIDE DEF old, new
<1>4. \A k : k \in old <=> k \in new \/ (c.ids[n + 1] = b /\ k = key)
  BY <1>2, <1>3
<1>5. key \notin new
  <2>1. SUFFICES ASSUME NEW i \in n + 2 .. L, key = <<c.rid, -i>> PROVE FALSE
    BY <1>3
  <2>2. -(n + 1) = -i
    BY <2>1
  <2>. QED
    BY <2>2
<1>6. b = c.ids[n + 1] => key \in old /\ new = old \ {key}
  BY <1>4, <1>5
<1>7. b # c.ids[n + 1] => new = old
  BY <1>4
<1>. QED
  BY <1>6, <1>7 DEF old, new

(* ensure_blocks appends one entry, block x, to one table of length L. *)
Appends(T, U, r, L, x, key) ==
    /\ key = <<r, L + 1>>
    /\ r \in RequestIds /\ L \in Nat
    /\ T \in [RequestIds -> Seq(Blocks)]
    /\ DOMAIN T[r] = 1 .. L
    /\ DOMAIN U[r] = 1 .. L + 1
    /\ \A i \in 1 .. L : U[r][i] = T[r][i]
    /\ U[r][L + 1] = x
    /\ \A q \in RequestIds : q # r => U[q] = T[q]

(* The references of the tables grow by the appended entry. *)
LEMMA TableRefsAppend ==
    ASSUME NEW T, NEW U, NEW r, NEW L, NEW x, NEW key,
           Appends(T, U, r, L, x, key), NEW b
    PROVE  /\ key \notin TableRefs(T, b)
           /\ b = x => TableRefs(U, b) = TableRefs(T, b) \cup {key}
           /\ b # x => TableRefs(U, b) = TableRefs(T, b)
<1>. /\ r \in RequestIds /\ L \in Nat /\ key = <<r, L + 1>>
     /\ T \in [RequestIds -> Seq(Blocks)]
     /\ DOMAIN T[r] = 1 .. L /\ DOMAIN U[r] = 1 .. L + 1
     /\ \A i \in 1 .. L : U[r][i] = T[r][i]
     /\ U[r][L + 1] = x
     /\ \A q \in RequestIds : q # r => U[q] = T[q]
  BY DEF Appends
<1>. DEFINE old == TableRefs(T, b)
            new == TableRefs(U, b)
<1>2. \A k : k \in old <=>
         \E q \in RequestIds : \E i \in DOMAIN T[q] : T[q][i] = b /\ k = <<q, i>>
  BY TableRefsMember
<1>3. \A k : k \in new <=>
         \E q \in RequestIds : \E i \in DOMAIN U[q] : U[q][i] = b /\ k = <<q, i>>
  BY TableRefsMember
<1>. HIDE DEF old, new
<1>4. \A k : k \in new => k \in old \/ (x = b /\ k = key)
  BY <1>2, <1>3
<1>5. ASSUME NEW k \in old PROVE k \in new
  <2>1. PICK q \in RequestIds : \E i \in DOMAIN T[q] : T[q][i] = b /\ k = <<q, i>>
    BY <1>2
  <2>2. PICK i \in DOMAIN T[q] : T[q][i] = b /\ k = <<q, i>>
    BY <2>1
  <2>3. i \in DOMAIN U[q] /\ U[q][i] = T[q][i]
    <3>1. CASE q = r
      BY <3>1
    <3>2. CASE q # r
      BY <3>2
    <3>. QED
      BY <3>1, <3>2
  <2>. QED
    BY <1>3, <2>2, <2>3
<1>6. x = b => key \in new
  BY <1>3
<1>7. key \notin old
  BY <1>2
<1>8. /\ b = x => new = old \cup {key}
      /\ b # x => new = old
  BY <1>4, <1>5, <1>6
<1>. QED
  BY <1>7, <1>8 DEF old, new

(* free() moves the entries of a table into the call, one to one. *)
MovesOut(T, U, r, c) ==
    /\ r \in RequestIds
    /\ T \in [RequestIds -> Seq(Blocks)]
    /\ U \in [RequestIds -> Seq(Blocks)]
    /\ U[r] = <<>>
    /\ \A q \in RequestIds : q # r => U[q] = T[q]
    /\ c.rid = r
    /\ c.ids = T[r]
    /\ InFlight(c) = 1 .. Len(T[r])

(* free moves the references of a table to the call; their number stays. *)
LEMMA TableToCall ==
    ASSUME NEW T, NEW U, NEW r, NEW c, MovesOut(T, U, r, c), NEW b,
           IsFiniteSet(TableRefs(T, b))
    PROVE  /\ IsFiniteSet(TableRefs(U, b) \cup CallRefs(c, b))
           /\ Cardinality(TableRefs(U, b) \cup CallRefs(c, b)) = Cardinality(TableRefs(T, b))
           /\ \A k \in TableRefs(T, b) : \E l \in TableRefs(U, b) \cup CallRefs(c, b) : l[1] = k[1]
<1>. /\ r \in RequestIds
     /\ T \in [RequestIds -> Seq(Blocks)]
     /\ U \in [RequestIds -> Seq(Blocks)]
     /\ U[r] = <<>>
     /\ \A q \in RequestIds : q # r => U[q] = T[q]
     /\ c.rid = r /\ c.ids = T[r] /\ InFlight(c) = 1 .. Len(T[r])
  BY DEF MovesOut
<1>. DEFINE L == Len(T[r])
            old == TableRefs(T, b)
            kept == TableRefs(U, b)
            moved == CallRefs(c, b)
            new == kept \cup moved
            f == [k \in old |-> IF k[1] = r THEN <<r, -k[2]>> ELSE k]
<1>1. /\ L \in Nat
      /\ DOMAIN T[r] = 1 .. L
      /\ U[r] = <<>> /\ DOMAIN U[r] = {}
      /\ \A q \in RequestIds : q # r => U[q] = T[q]
      /\ \A q \in RequestIds : DOMAIN T[q] \subseteq Nat \ {0}
  BY LenProperties
<1>2. \A k : k \in old <=>
         \E q \in RequestIds : \E i \in DOMAIN T[q] : T[q][i] = b /\ k = <<q, i>>
  BY TableRefsMember
<1>3. \A k : k \in kept <=>
         \E q \in RequestIds : \E i \in DOMAIN U[q] : U[q][i] = b /\ k = <<q, i>>
  BY TableRefsMember
<1>4. \A k : k \in moved <=> \E i \in 1 .. L : T[r][i] = b /\ k = <<r, -i>>
  BY CallRefsMember
<1>. HIDE DEF L, old, kept, moved
<1>5. ASSUME NEW k \in old
      PROVE  f[k] \in new /\ f[k][1] = k[1]
  <2>1. PICK q \in RequestIds, i \in Nat : i \in DOMAIN T[q] /\ T[q][i] = b /\ k = <<q, i>>
    BY <1>1, <1>2
  <2>2. CASE q = r
    <3>1. f[k] = <<r, -i>>
      BY <2>1, <2>2
    <3>2. <<r, -i>> \in moved
      BY <1>1, <1>4, <2>1, <2>2
    <3>. QED
      BY <2>1, <2>2, <3>1, <3>2
  <2>3. CASE q # r
    <3>1. f[k] = k
      BY <2>1, <2>3
    <3>2. k \in kept
      BY <1>1, <1>3, <2>1, <2>3
    <3>. QED
      BY <2>1, <3>1, <3>2
  <2>. QED
    BY <2>2, <2>3
<1>6. f \in [old -> new]
  BY <1>5
<1>7. ASSUME NEW k \in old, NEW l \in old, f[k] = f[l]
      PROVE  k = l
  <2>1. PICK q \in RequestIds, i \in Nat : i \in DOMAIN T[q] /\ T[q][i] = b /\ k = <<q, i>>
    BY <1>1, <1>2
  <2>2. PICK p \in RequestIds, j \in Nat : j \in DOMAIN T[p] /\ T[p][j] = b /\ l = <<p, j>>
    BY <1>1, <1>2
  <2>3. i \in Nat \ {0} /\ j \in Nat \ {0}
    BY <1>1, <2>1, <2>2
  <2>4. f[k] = (IF q = r THEN <<r, -i>> ELSE <<q, i>>) /\ f[l] = (IF p = r THEN <<r, -j>> ELSE <<p, j>>)
    BY <2>1, <2>2
  <2>5. q = p /\ i = j
    BY <1>7, <2>3, <2>4
  <2>. QED
    BY <2>1, <2>2, <2>5
<1>8. ASSUME NEW l \in new
      PROVE  \E k \in old : f[k] = l
  <2>1. CASE l \in kept
    <3>1. PICK q \in RequestIds, i \in Nat : i \in DOMAIN U[q] /\ U[q][i] = b /\ l = <<q, i>>
      BY <1>1, <1>3, <2>1
    <3>2. q # r
      BY <1>1, <3>1
    <3>3. l \in old /\ f[l] = l
      BY <1>1, <1>2, <3>1, <3>2
    <3>. QED
      BY <3>3
  <2>2. CASE l \in moved
    <3>1. PICK i \in 1 .. L : T[r][i] = b /\ l = <<r, -i>>
      BY <1>4, <2>2
    <3>2. <<r, i>> \in old /\ f[<<r, i>>] = l
      BY <1>1, <1>2, <3>1
    <3>. QED
      BY <3>2
  <2>. QED
    BY <2>1, <2>2
<1>9. IsFiniteSet(old)
  BY DEF old
<1>. HIDE DEF f, new
<1>10. IsFiniteSet(new) /\ Cardinality(new) = Cardinality(old)
  BY <1>6, <1>7, <1>8, <1>9, SameSize
<1>11. \A k \in old : \E l \in new : l[1] = k[1]
  BY <1>5
<1>. QED
  BY <1>10, <1>11 DEF old, new, kept, moved

(* Storing a table moves the references of the call into it, one to one. *)
MovesIn(T, U, r, c, ids) ==
    /\ r \in RequestIds
    /\ T \in [RequestIds -> Seq(Blocks)]
    /\ U \in [RequestIds -> Seq(Blocks)]
    /\ ids \in Seq(Blocks)
    /\ DOMAIN U[r] = 1 .. Len(ids) + Len(T[r])
    /\ \A i \in 1 .. Len(ids) : U[r][i] = ids[i]
    /\ \A i \in 1 .. Len(T[r]) : U[r][i + Len(ids)] = T[r][i]
    /\ \A q \in RequestIds : q # r => U[q] = T[q]
    /\ c.rid = r /\ c.ids = ids /\ InFlight(c) = 1 .. Len(ids)

(* Storing a table moves the references of the call to it; their number stays. *)
LEMMA CallToTable ==
    ASSUME NEW T, NEW U, NEW r, NEW c, NEW ids, MovesIn(T, U, r, c, ids), NEW b,
           IsFiniteSet(TableRefs(T, b) \cup CallRefs(c, b))
    PROVE  /\ IsFiniteSet(TableRefs(U, b))
           /\ Cardinality(TableRefs(U, b)) = Cardinality(TableRefs(T, b) \cup CallRefs(c, b))
           /\ \A k \in TableRefs(T, b) \cup CallRefs(c, b) :
                 \E l \in TableRefs(U, b) : l[1] = k[1]
<1>. /\ r \in RequestIds
     /\ T \in [RequestIds -> Seq(Blocks)]
     /\ U \in [RequestIds -> Seq(Blocks)]
     /\ ids \in Seq(Blocks)
     /\ DOMAIN U[r] = 1 .. Len(ids) + Len(T[r])
     /\ \A i \in 1 .. Len(ids) : U[r][i] = ids[i]
     /\ \A i \in 1 .. Len(T[r]) : U[r][i + Len(ids)] = T[r][i]
     /\ \A q \in RequestIds : q # r => U[q] = T[q]
     /\ c.rid = r /\ c.ids = ids /\ InFlight(c) = 1 .. Len(ids)
  BY DEF MovesIn
<1>. DEFINE L == Len(ids)
            M == Len(T[r])
            tabled == TableRefs(T, b)
            moving == CallRefs(c, b)
            old == tabled \cup moving
            new == TableRefs(U, b)
            f == [k \in old |-> IF k[2] < 0 THEN <<r, -k[2]>>
                                 ELSE IF k[1] = r THEN <<r, k[2] + L>> ELSE k]
<1>1. /\ L \in Nat /\ M \in Nat
      /\ DOMAIN T[r] = 1 .. M
      /\ \A q \in RequestIds : DOMAIN T[q] \subseteq Nat \ {0}
  BY LenProperties
<1>2. \A q \in RequestIds : q # r => U[q] = T[q]
  OBVIOUS
<1>3. /\ DOMAIN U[r] = 1 .. L + M
      /\ \A i \in 1 .. L : U[r][i] = ids[i]
      /\ \A i \in 1 .. M : U[r][i + L] = T[r][i]
  OBVIOUS
<1>4. \A k : k \in tabled <=>
         \E q \in RequestIds : \E i \in DOMAIN T[q] : T[q][i] = b /\ k = <<q, i>>
  BY TableRefsMember
<1>5. \A k : k \in moving <=> \E i \in 1 .. L : ids[i] = b /\ k = <<r, -i>>
  BY CallRefsMember
<1>16. \A q \in RequestIds : DOMAIN U[q] \subseteq Nat
  BY <1>1, <1>2, <1>3
<1>6. \A k : k \in new <=>
         \E q \in RequestIds : \E i \in DOMAIN U[q] : U[q][i] = b /\ k = <<q, i>>
  BY TableRefsMember
<1>. HIDE DEF L, M, tabled, moving, new
<1>7. ASSUME NEW k \in moving
      PROVE  \E i \in 1 .. L : ids[i] = b /\ k = <<r, -i>> /\ f[k] = <<r, i>>
  <2>1. PICK i \in 1 .. L : ids[i] = b /\ k = <<r, -i>>
    BY <1>5
  <2>2. -i < 0 /\ -(-i) = i
    BY <1>1
  <2>4. k \in old /\ k[2] = -i
    BY <2>1
  <2>3. f[k] = <<r, i>>
    BY <2>2, <2>4
  <2>. QED
    BY <2>1, <2>3
<1>8. ASSUME NEW k \in tabled
      PROVE  \E q \in RequestIds, i \in Nat :
                /\ i \in DOMAIN T[q]
                /\ T[q][i] = b /\ k = <<q, i>>
                /\ f[k] = IF q = r THEN <<r, i + L>> ELSE <<q, i>>
  <2>1. PICK q \in RequestIds, i \in Nat : i \in DOMAIN T[q] /\ T[q][i] = b /\ k = <<q, i>>
    BY <1>1, <1>4
  <2>2. k \in old /\ k[1] = q /\ k[2] = i /\ ~(i < 0)
    BY <1>1, <2>1
  <2>3. f[k] = IF q = r THEN <<r, i + L>> ELSE <<q, i>>
    BY <2>1, <2>2
  <2>. QED
    BY <2>1, <2>3
<1>. HIDE DEF f
<1>9. ASSUME NEW k \in old
      PROVE  f[k] \in new /\ f[k][1] = k[1]
  <2>1. CASE k \in moving
    <3>1. PICK i \in 1 .. L : ids[i] = b /\ k = <<r, -i>> /\ f[k] = <<r, i>>
      BY <1>7, <2>1
    <3>2. i \in DOMAIN U[r] /\ U[r][i] = b
      BY <1>1, <1>3, <3>1
    <3>3. <<r, i>> \in new
      BY <1>6, <3>2
    <3>4. f[k] = <<r, i>> /\ k[1] = r
      BY <3>1
    <3>. QED
      BY <3>3, <3>4
  <2>2. CASE k \in tabled
    <3>1. PICK q \in RequestIds, i \in Nat :
                /\ i \in DOMAIN T[q]
                /\ T[q][i] = b /\ k = <<q, i>>
                /\ f[k] = IF q = r THEN <<r, i + L>> ELSE <<q, i>>
      BY <1>8, <2>2
    <3>2. CASE q = r
      <4>1. i \in 1 .. M /\ i + L \in 1 .. L + M
        BY <1>1, <3>1, <3>2
      <4>2. i + L \in DOMAIN U[r] /\ U[r][i + L] = b
        BY <1>3, <3>1, <3>2, <4>1
      <4>3. f[k] = <<r, i + L>> /\ k[1] = r
        BY <3>1, <3>2
      <4>4. <<r, i + L>> \in new
        BY <1>6, <4>2
      <4>. QED
        BY <4>3, <4>4
    <3>3. CASE q # r
      BY <1>2, <1>6, <3>1, <3>3
    <3>. QED
      BY <3>2, <3>3
  <2>. QED
    BY <2>1, <2>2
<1>10. f \in [old -> new]
  BY <1>9 DEF f
<1>11. ASSUME NEW k \in old, NEW l \in old, f[k] = f[l]
       PROVE  k = l
  <2>1. ASSUME NEW x \in moving, NEW y \in moving, f[x] = f[y] PROVE x = y
    <3>1. PICK i \in 1 .. L : ids[i] = b /\ x = <<r, -i>> /\ f[x] = <<r, i>>
      BY <1>7
    <3>2. PICK j \in 1 .. L : ids[j] = b /\ y = <<r, -j>> /\ f[y] = <<r, j>>
      BY <1>7
    <3>3. <<r, i>> = <<r, j>>
      BY <2>1, <3>1, <3>2, Zenon
    <3>4. i = j
      BY <3>3
    <3>. QED
      BY <3>1, <3>2, <3>4
  <2>2. ASSUME NEW x \in moving, NEW y \in tabled PROVE f[x] # f[y]
    <3>1. PICK i \in 1 .. L : ids[i] = b /\ x = <<r, -i>> /\ f[x] = <<r, i>>
      BY <1>7
    <3>2. PICK q \in RequestIds, j \in Nat :
                /\ j \in DOMAIN T[q]
                /\ T[q][j] = b /\ y = <<q, j>>
                /\ f[y] = IF q = r THEN <<r, j + L>> ELSE <<q, j>>
      BY <1>8
    <3>3. i # j + L
      BY <1>1, <3>1, <3>2
    <3>. QED
      BY <3>1, <3>2, <3>3
  <2>3. ASSUME NEW x \in tabled, NEW y \in tabled, f[x] = f[y] PROVE x = y
    <3>1. PICK p \in RequestIds, i \in Nat :
                /\ i \in DOMAIN T[p]
                /\ T[p][i] = b /\ x = <<p, i>>
                /\ f[x] = IF p = r THEN <<r, i + L>> ELSE <<p, i>>
      BY <1>8
    <3>2. PICK q \in RequestIds, j \in Nat :
                /\ j \in DOMAIN T[q]
                /\ T[q][j] = b /\ y = <<q, j>>
                /\ f[y] = IF q = r THEN <<r, j + L>> ELSE <<q, j>>
      BY <1>8
    <3>3. i \in Nat /\ j \in Nat
      BY <1>1
    <3>4. p = q /\ i = j
      BY <1>1, <2>3, <3>1, <3>2, <3>3, SMTT(30)
    <3>. QED
      BY <3>1, <3>2, <3>4
  <2>. QED
    BY <1>11, <2>1, <2>2, <2>3
<1>12. ASSUME NEW l \in new
       PROVE  \E k \in old : f[k] = l
  <2>1. PICK q \in RequestIds, i \in Nat : i \in DOMAIN U[q] /\ U[q][i] = b /\ l = <<q, i>>
    BY <1>6, <1>16
  <2>2. CASE q # r
    <3>1. i \in DOMAIN T[q] /\ T[q][i] = b /\ i \in Nat \ {0}
      BY <1>1, <1>2, <2>1, <2>2
    <3>2. l \in tabled /\ l[1] = q /\ l[2] = i
      BY <1>4, <2>1, <3>1
    <3>3. f[l] = l
      BY <2>2, <3>1, <3>2 DEF f
    <3>. QED
      BY <3>2, <3>3
  <2>3. CASE q = r /\ i <= L
    <3>1. i \in 1 .. L /\ ids[i] = b
      BY <1>1, <1>3, <2>1, <2>3
    <3>2. <<r, -i>> \in moving
      BY <1>5, <3>1
    <3>3. -i < 0 /\ -(-i) = i
      BY <1>1, <3>1
    <3>4. f[<<r, -i>>] = <<r, i>>
      BY <3>2, <3>3 DEF f
    <3>. QED
      BY <2>1, <2>3, <3>2, <3>4
  <2>4. CASE q = r /\ ~(i <= L)
    <3>5. i \in 1 .. L + M /\ U[r][i] = b
      BY <1>3, <2>1, <2>4
    <3>6. i - L \in 1 .. M /\ i - L + L = i /\ ~(i - L < 0)
      BY <1>1, <2>4, <3>5
    <3>7. U[r][(i - L) + L] = T[r][i - L]
      BY <1>3, <3>6
    <3>1. i - L \in 1 .. M /\ T[r][i - L] = b /\ i - L + L = i /\ ~(i - L < 0)
      BY <3>5, <3>6, <3>7
    <3>2. <<r, i - L>> \in tabled
      BY <1>1, <1>4, <3>1
    <3>3. f[<<r, i - L>>] = <<r, i>>
      BY <3>1, <3>2 DEF f
    <3>. QED
      BY <2>1, <2>4, <3>2, <3>3
  <2>. QED
    BY <2>2, <2>3, <2>4
<1>13. IsFiniteSet(old)
  BY DEF tabled, moving
<1>. HIDE DEF old
<1>14. IsFiniteSet(new) /\ Cardinality(new) = Cardinality(old)
  BY <1>10, <1>11, <1>12, <1>13, SameSize
<1>15. \A k \in old : \E l \in new : l[1] = k[1]
  BY <1>9
<1>. QED
  BY <1>14, <1>15 DEF old, new, tabled, moving

-----------------------------------------------------------------------------
(* The inductive invariant. *)

(* While assign_cached_blocks or share_prefix counts its references, all the
   blocks it works on stay referenced. *)
CallIdsLive ==
    call.op \in {"assign", "share"} =>
        \A i \in DOMAIN call.ids : refCount[call.ids[i]] > 0

Accounting == RefsFinite /\ RefCountExact /\ FreePoolExact /\ CallIdsLive /\ OwnersHold

IInv == TypeOK /\ Accounting

(* An empty pool has its books in order. *)
LEMMA InitAccounting == Init => Accounting
<1>. SUFFICES ASSUME Init PROVE Accounting
  OBVIOUS
<1>. USE PoolAssumption
<1>1. call.op = "idle"
  BY DEF Init, Idle, Call
<1>2. ASSUME NEW b \in Blocks PROVE RefsTo(b) = {}
  <2>1. CallRefs(call, b) = {}
    BY <1>1, InFlightOf, NoCallRefs
  <2>2. \A k : k \notin TableRefs(blockTables, b)
    BY TableRefsMember DEF Init
  <2>. QED
    BY <2>1, <2>2 DEF RefsTo
<1>3. RefsFinite /\ RefCountExact
  <2>1. \A b \in Blocks : IsFiniteSet(RefsTo(b)) /\ Cardinality(RefsTo(b)) = 0
    BY <1>2, FS_EmptySet
  <2>2. \A b \in Blocks : refCount[b] = 0 /\ cacheRefs[b] = 0
    BY DEF Init
  <2>. QED
    BY <2>1, <2>2 DEF RefsFinite, RefCountExact
<1>4. FreePoolExact
  <2>1. /\ DOMAIN freeBlocks = 1 .. NumBlocks
        /\ \A i \in 1 .. NumBlocks : freeBlocks[i] = i - 1
        /\ \A b \in Blocks : refCount[b] = 0
    BY DEF Init
  <2>2. \A b \in Blocks : b + 1 \in 1 .. NumBlocks /\ freeBlocks[b + 1] = b
    BY <2>1 DEF Blocks
  <2>. QED
    BY <2>1, <2>2 DEF FreePoolExact
<1>5. CallIdsLive
  BY <1>1 DEF CallIdsLive
<1>6. OwnersHold
  BY DEF OwnersHold, Init
<1>. QED
  BY <1>3, <1>4, <1>5, <1>6 DEF Accounting

(* A step that leaves every set of references alone keeps what is counted. *)
LEMMA SameRefs ==
    ASSUME Accounting,
           \A b \in Blocks : RefsTo(b)' = RefsTo(b),
           UNCHANGED <<refCount, freeBlocks, cacheRefs, sharedOwners>>
    PROVE  RefsFinite' /\ RefCountExact' /\ FreePoolExact' /\ OwnersHold'
<1>1. RefsFinite'
  BY DEF Accounting, RefsFinite
<1>2. RefCountExact'
  BY DEF Accounting, RefCountExact
<1>3. FreePoolExact'
  BY DEF Accounting, FreePoolExact
<1>4. OwnersHold'
  BY DEF Accounting, OwnersHold
<1>. QED
  BY <1>1, <1>2, <1>3, <1>4

(* The calls that only open an activation record own nothing yet. *)
LEMMA OpeningCall ==
    ASSUME InFlight(call) = {}, InFlight(call') = {}, blockTables' = blockTables
    PROVE  \A b \in Blocks : RefsTo(b)' = RefsTo(b)
<1>1. ASSUME NEW b \in Blocks PROVE CallRefs(call, b) = {} /\ CallRefs(call', b) = {}
  BY NoCallRefs
<1>. QED
  BY <1>1 DEF RefsTo

(* Every step of every call keeps the books. *)
LEMMA NextAccounting == IInv /\ [Next]_vars => Accounting'
<1>. SUFFICES ASSUME TypeOK, Accounting, [Next]_vars PROVE Accounting'
  BY DEF IInv
<1>. USE PoolAssumption
<1>a. RefsFinite /\ RefCountExact /\ FreePoolExact /\ CallIdsLive /\ OwnersHold
  BY DEF Accounting
<1>b. /\ blockTables' \in [RequestIds -> Seq(Blocks)]
      /\ sharedOwners \in [Blocks -> SUBSET RequestIds]
  BY NextTypeOK DEF TypeOK, VarTypes
<1>c. /\ refCount \in [Blocks -> Nat] /\ cacheRefs \in [Blocks -> Nat]
      /\ blockTables \in [RequestIds -> Seq(Blocks)]
      /\ call.ids \in Seq(Blocks) /\ call.n \in Nat
      /\ Len(call.ids) \in Nat
  BY LenProperties DEF TypeOK, VarTypes, Calls
<1>1. ASSUME NEW r \in RequestIds, NEW t \in 0 .. MaxTokens, Allocate(r, t)
      PROVE  Accounting'
  <2>1. /\ call.op = "idle" /\ call'.op = "allocate" /\ call'.ids = <<>>
        /\ UNCHANGED <<refCount, freeBlocks, blockTables, sharedOwners, cacheRefs>>
    BY <1>1 DEF Allocate, Call
  <2>2. InFlight(call) = {} /\ InFlight(call') = {}
    <3>1. InFlight(call') = 1 .. 0
      BY <2>1, InFlightOf
    <3>. QED
      BY <2>1, <3>1, InFlightOf
  <2>3. \A b \in Blocks : RefsTo(b)' = RefsTo(b)
    BY <2>1, <2>2, OpeningCall
  <2>4. CallIdsLive'
    BY <2>1 DEF CallIdsLive
  <2>. QED
    BY <2>1, <2>3, <2>4, SameRefs DEF Accounting
<1>2. CASE AllocatePop
  <2>. DEFINE key == <<call.rid, -(Len(call.ids) + 1)>>
              x == LastFree
  <2>1. /\ PopFree /\ call.op = "allocate" /\ cacheRefs' = cacheRefs
        /\ call' = Call("allocate", call.rid, Append(call.ids, x), call.n - 1)
        /\ UNCHANGED <<blockTables, sharedOwners>>
    BY <1>2 DEF AllocatePop
  <2>2. Len(freeBlocks) > 0
    BY <1>2, LenProperties DEF AllocatePop, TypeOK, VarTypes, CallOK, Calls
  <2>3. FreePoolExact' /\ x \in Blocks /\ refCount' = [refCount EXCEPT ![x] = @ + 1]
    BY <1>a, <2>1, <2>2, PopKeepsPool, PopFreeEffect
  <2>. HIDE DEF x
  <2>4. /\ InFlight(call) = 1 .. Len(call.ids)
        /\ InFlight(call') = 1 .. Len(call.ids) + 1
        /\ call'.rid = call.rid
        /\ \A i \in 1 .. Len(call.ids) : call'.ids[i] = call.ids[i]
        /\ call'.ids[Len(call.ids) + 1] = x
    <3>1. call'.op = "allocate" /\ call'.rid = call.rid /\ call'.ids = Append(call.ids, x)
      BY <2>1 DEF Call
    <3>2. InFlight(call) = 1 .. Len(call.ids) /\ InFlight(call') = 1 .. Len(call'.ids)
      BY <2>1, <3>1, InFlightOf
    <3>. QED
      BY <1>c, <2>3, <3>1, <3>2, AppendProperties
  <2>5. ASSUME NEW b \in Blocks
        PROVE  /\ key \notin RefsTo(b)
               /\ RefsTo(b)' = IF b = x THEN RefsTo(b) \cup {key} ELSE RefsTo(b)
    <3>1. /\ key \notin CallRefs(call, b)
          /\ b = x => CallRefs(call', b) = CallRefs(call, b) \cup {key}
          /\ b # x => CallRefs(call', b) = CallRefs(call, b)
      <4>1. Grows(call, call', Len(call.ids), x, key)
        BY <1>c, <2>4 DEF Grows
      <4>. HIDE DEF key
      <4>. QED
        BY <4>1, CallRefsGrow
    <3>2. key \notin TableRefs(blockTables, b)
      BY <1>c, LenProperties, RefIndices
    <3>3. TableRefs(blockTables', b) = TableRefs(blockTables, b)
      BY <2>1
    <3>. HIDE DEF key
    <3>. QED
      BY <3>1, <3>2, <3>3 DEF RefsTo
  <2>. HIDE DEF key
  <2>6. RefsFinite' /\ RefCountExact'
    BY <1>a, <2>1, <2>3, <2>5, AddOneRef
  <2>7. CallIdsLive'
    BY <2>1 DEF CallIdsLive, Call
  <2>8. OwnersHold'
    BY <1>a, <2>1, <2>5 DEF OwnersHold
  <2>. QED
    BY <2>3, <2>6, <2>7, <2>8 DEF Accounting
<1>3. ASSUME NEW r \in RequestIds, NEW t \in 0 .. MaxTokens, EnsureBlocks(r, t)
      PROVE  Accounting'
  <2>1. /\ call.op = "idle" /\ call'.op = "ensure"
        /\ UNCHANGED <<refCount, freeBlocks, blockTables, sharedOwners, cacheRefs>>
    BY <1>3 DEF EnsureBlocks, Call
  <2>2. InFlight(call) = {} /\ InFlight(call') = {}
    BY <2>1, InFlightOf
  <2>3. \A b \in Blocks : RefsTo(b)' = RefsTo(b)
    BY <2>1, <2>2, OpeningCall
  <2>4. CallIdsLive'
    BY <2>1 DEF CallIdsLive
  <2>. QED
    BY <2>1, <2>3, <2>4, SameRefs DEF Accounting
<1>4. CASE EnsurePop
  <2>. DEFINE key == <<call.rid, Len(blockTables[call.rid]) + 1>>
              x == LastFree
  <2>1. /\ PopFree /\ call.op = "ensure" /\ cacheRefs' = cacheRefs
        /\ blockTables' = [blockTables EXCEPT ![call.rid] = Append(@, x)]
        /\ call' = IF call.n = 1 THEN Idle ELSE Call("ensure", call.rid, <<>>, call.n - 1)
        /\ sharedOwners' = sharedOwners
    BY <1>4 DEF EnsurePop
  <2>2. Len(freeBlocks) > 0 /\ call.rid \in RequestIds
    BY <1>4, LenProperties DEF EnsurePop, TypeOK, VarTypes, CallOK, Calls
  <2>3. FreePoolExact' /\ x \in Blocks /\ refCount' = [refCount EXCEPT ![x] = @ + 1]
    BY <1>a, <2>1, <2>2, PopKeepsPool, PopFreeEffect
  <2>. HIDE DEF x
  <2>4. InFlight(call) = {} /\ InFlight(call') = {}
    <3>1. call'.op \in {"ensure", "idle"}
      BY <2>1 DEF Call, Idle
    <3>. QED
      BY <2>1, <3>1, InFlightOf
  <2>9. /\ Len(blockTables[call.rid]) \in Nat
        /\ DOMAIN blockTables[call.rid] = 1 .. Len(blockTables[call.rid])
        /\ DOMAIN blockTables'[call.rid] = 1 .. Len(blockTables[call.rid]) + 1
        /\ \A i \in 1 .. Len(blockTables[call.rid]) :
              blockTables'[call.rid][i] = blockTables[call.rid][i]
        /\ blockTables'[call.rid][Len(blockTables[call.rid]) + 1] = x
        /\ \A q \in RequestIds : q # call.rid => blockTables'[q] = blockTables[q]
    BY <1>c, <2>1, <2>2, <2>3, AppendProperties, LenProperties
  <2>5. ASSUME NEW b \in Blocks
        PROVE  /\ key \notin RefsTo(b)
               /\ RefsTo(b)' = IF b = x THEN RefsTo(b) \cup {key} ELSE RefsTo(b)
    <3>1. CallRefs(call, b) = {} /\ CallRefs(call', b) = {}
      BY <2>4, NoCallRefs
    <3>2. /\ key \notin TableRefs(blockTables, b)
          /\ b = x => TableRefs(blockTables', b) = TableRefs(blockTables, b) \cup {key}
          /\ b # x => TableRefs(blockTables', b) = TableRefs(blockTables, b)
      <4>1. Appends(blockTables, blockTables', call.rid, Len(blockTables[call.rid]), x, key)
        BY <1>c, <2>2, <2>9 DEF Appends
      <4>. HIDE DEF key
      <4>. QED
        BY <4>1, TableRefsAppend
    <3>. HIDE DEF key
    <3>. QED
      BY <3>1, <3>2 DEF RefsTo
  <2>. HIDE DEF key
  <2>6. RefsFinite' /\ RefCountExact'
    BY <1>a, <2>1, <2>3, <2>5, AddOneRef
  <2>7. CallIdsLive'
    BY <2>1 DEF CallIdsLive, Call, Idle
  <2>8. OwnersHold'
    BY <1>a, <2>1, <2>5 DEF OwnersHold
  <2>. QED
    BY <2>3, <2>6, <2>7, <2>8 DEF Accounting
<1>5. ASSUME NEW r \in RequestIds, Free(r)
      PROVE  Accounting'
  <2>1. /\ call.op = "idle" /\ call' = Call("free", r, blockTables[r], 0)
        /\ blockTables' = [blockTables EXCEPT ![r] = <<>>]
        /\ UNCHANGED <<refCount, freeBlocks, sharedOwners, cacheRefs>>
    BY <1>5 DEF Free
  <2>2. ASSUME NEW b \in Blocks
        PROVE  /\ IsFiniteSet(RefsTo(b)')
               /\ Cardinality(RefsTo(b)') = Cardinality(RefsTo(b))
               /\ \A k \in RefsTo(b) : \E l \in RefsTo(b)' : l[1] = k[1]
    <3>1. CallRefs(call, b) = {}
      BY <2>1, InFlightOf, NoCallRefs
    <3>4. RefsTo(b) = TableRefs(blockTables, b)
      BY <3>1 DEF RefsTo
    <3>5. IsFiniteSet(TableRefs(blockTables, b))
      BY <1>a, <3>4 DEF RefsFinite
    <3>6. RefsTo(b)' = TableRefs(blockTables', b) \cup CallRefs(call', b)
      BY DEF RefsTo
    <3>7. call'.op = "free" /\ call'.rid = r /\ call'.ids = blockTables[r] /\ call'.n = 0
      BY <2>1 DEF Call
    <3>8. InFlight(call') = 1 .. Len(blockTables[r])
      BY <3>7, InFlightOf
    <3>9. blockTables'[r] = <<>> /\ \A q \in RequestIds : q # r => blockTables'[q] = blockTables[q]
      BY <1>c, <2>1
    <3>10. /\ IsFiniteSet(TableRefs(blockTables', b) \cup CallRefs(call', b))
           /\ Cardinality(TableRefs(blockTables', b) \cup CallRefs(call', b)) =
                 Cardinality(TableRefs(blockTables, b))
           /\ \A k \in TableRefs(blockTables, b) :
                 \E l \in TableRefs(blockTables', b) \cup CallRefs(call', b) : l[1] = k[1]
      <4>1. MovesOut(blockTables, blockTables', r, call')
        BY <1>b, <1>c, <3>7, <3>8, <3>9 DEF MovesOut
      <4>. QED
        BY <3>5, <4>1, TableToCall
    <3>. QED
      BY <3>4, <3>6, <3>10
  <2>3. RefsFinite' /\ RefCountExact'
    BY <1>a, <2>1, <2>2 DEF RefsFinite, RefCountExact
  <2>4. FreePoolExact'
    BY <1>a, <2>1 DEF FreePoolExact
  <2>5. CallIdsLive'
    BY <2>1 DEF CallIdsLive, Call
  <2>6. OwnersHold'
    BY <1>a, <2>1, <2>2 DEF OwnersHold
  <2>. QED
    BY <2>3, <2>4, <2>5, <2>6 DEF Accounting
<1>6. CASE FreeNext
  <2>. DEFINE x == call.ids[call.n + 1]
              key == <<call.rid, -(call.n + 1)>>
  <2>1. /\ call.op = "free" /\ call.n < Len(call.ids) /\ ReleaseRef(x)
        /\ sharedOwners' = [sharedOwners EXCEPT ![x] =
                               IF refCount'[x] = 0 THEN {} ELSE @ \ {call.rid}]
        /\ call' = Call("free", call.rid, call.ids, call.n + 1)
        /\ UNCHANGED <<blockTables, cacheRefs>>
    BY <1>6 DEF FreeNext
  <2>2. x \in Blocks
    BY <1>c, <2>1
  <2>3. /\ InFlight(call) = call.n + 1 .. Len(call.ids)
        /\ InFlight(call') = call.n + 2 .. Len(call.ids)
        /\ call'.rid = call.rid /\ call'.ids = call.ids
    <3>1. call'.op = "free" /\ call'.rid = call.rid /\ call'.ids = call.ids /\ call'.n = call.n + 1
      BY <2>1 DEF Call
    <3>2. call'.n + 1 = call.n + 2
      BY <1>c, <3>1
    <3>. QED
      BY <2>1, <3>1, <3>2, InFlightOf
  <2>4. ASSUME NEW b \in Blocks
        PROVE  /\ b = x => key \in RefsTo(b)
               /\ RefsTo(b)' = IF b = x THEN RefsTo(b) \ {key} ELSE RefsTo(b)
    <3>1. /\ b = x => key \in CallRefs(call, b)
          /\ b = x => CallRefs(call', b) = CallRefs(call, b) \ {key}
          /\ b # x => CallRefs(call', b) = CallRefs(call, b)
      <4>1. Shrinks(call, call', call.n, Len(call.ids), x, key)
        BY <1>c, <2>1, <2>3 DEF Shrinks
      <4>. HIDE DEF key, x
      <4>. QED
        BY <4>1, CallRefsShrink
    <3>2. key \notin TableRefs(blockTables, b)
      BY <1>c, RefIndices
    <3>3. TableRefs(blockTables', b) = TableRefs(blockTables, b)
      BY <2>1
    <3>. HIDE DEF key, x
    <3>. QED
      BY <3>1, <3>2, <3>3 DEF RefsTo
  <2>. HIDE DEF x
  <2>5. key[1] = call.rid
    OBVIOUS
  <2>. HIDE DEF key
  <2>6. refCount[x] > 0
    BY <1>a, <2>2, <2>4, ReferencedPositive
  <2>7. FreePoolExact' /\ refCount' = [refCount EXCEPT ![x] = @ - 1]
    BY <1>a, <2>1, <2>2, <2>6, ReleaseKeepsPool
  <2>8. RefsFinite' /\ RefCountExact'
    BY <1>a, <2>1, <2>2, <2>4, <2>7, RemoveOneRef
  <2>9. CallIdsLive'
    BY <2>1 DEF CallIdsLive, Call
  <2>10. OwnersHold'
    <3>1. SUFFICES ASSUME NEW b \in Blocks, NEW r \in sharedOwners'[b]
                   PROVE  \E k \in RefsTo(b)' : k[1] = r
      BY DEF OwnersHold
    <3>2. r \in sharedOwners[b] /\ (b = x => r # call.rid)
      BY <2>1, <2>2, <3>1 DEF TypeOK, VarTypes
    <3>3. PICK k \in RefsTo(b) : k[1] = r
      BY <1>a, <3>2 DEF OwnersHold
    <3>4. k \in RefsTo(b)'
      BY <2>4, <2>5, <3>2, <3>3
    <3>. QED
      BY <3>3, <3>4
  <2>. QED
    BY <2>7, <2>8, <2>9, <2>10 DEF Accounting
<1>7. CASE FreeReturn
  <2>1. /\ call.op = "free" /\ call.n = Len(call.ids) /\ call'.op = "idle"
        /\ UNCHANGED <<refCount, freeBlocks, blockTables, sharedOwners, cacheRefs>>
    BY <1>7 DEF FreeReturn, Call, Idle
  <2>2. InFlight(call) = {} /\ InFlight(call') = {}
    <3>1. InFlight(call) = call.n + 1 .. call.n
      BY <2>1, InFlightOf
    <3>2. InFlight(call') = {}
      BY <2>1, InFlightOf
    <3>. QED
      BY <1>c, <3>1, <3>2
  <2>3. \A b \in Blocks : RefsTo(b)' = RefsTo(b)
    BY <2>1, <2>2, OpeningCall
  <2>4. CallIdsLive'
    BY <2>1 DEF CallIdsLive
  <2>. QED
    BY <2>1, <2>3, <2>4, SameRefs DEF Accounting
<1>8. ASSUME NEW x \in Blocks, FreeBlock(x)
      PROVE  Accounting'
  <2>1. /\ call.op = "idle" /\ cacheRefs[x] > 0 /\ ReleaseRef(x)
        /\ cacheRefs' = [cacheRefs EXCEPT ![x] = @ - 1]
        /\ sharedOwners' = [sharedOwners EXCEPT ![x] = {}]
        /\ UNCHANGED <<blockTables, call>>
    BY <1>8 DEF FreeBlock
  <2>2. refCount[x] > 0
    BY <1>a, <2>1, ReferencedPositive
  <2>3. FreePoolExact' /\ refCount' = [refCount EXCEPT ![x] = @ - 1]
    BY <1>a, <2>1, <2>2, ReleaseKeepsPool
  <2>4. \A b \in Blocks : RefsTo(b)' = RefsTo(b)
    BY <2>1 DEF RefsTo
  <2>5. RefsFinite'
    BY <1>a, <2>4 DEF RefsFinite
  <2>6. RefCountExact'
    <3>1. SUFFICES ASSUME NEW b \in Blocks
                   PROVE  refCount'[b] = Cardinality(RefsTo(b)') + cacheRefs'[b]
      BY DEF RefCountExact
    <3>2. Cardinality(RefsTo(b)') = Cardinality(RefsTo(b)) /\ Cardinality(RefsTo(b)) \in Nat
      BY <1>a, <2>4, FS_CardinalityType DEF RefsFinite
    <3>3. refCount[b] = Cardinality(RefsTo(b)) + cacheRefs[b]
      BY <1>a DEF RefCountExact
    <3>. QED
      BY <1>c, <2>1, <2>3, <3>2, <3>3
  <2>7. CallIdsLive'
    BY <2>1 DEF CallIdsLive
  <2>8. OwnersHold'
    BY <1>a, <1>b, <2>1, <2>4 DEF OwnersHold
  <2>. QED
    BY <2>3, <2>5, <2>6, <2>7, <2>8 DEF Accounting
<1>9. ASSUME NEW x \in Blocks, IncrementRefCount(x)
      PROVE  Accounting'
  <2>1. /\ call.op = "idle"
        /\ cacheRefs' = [cacheRefs EXCEPT ![x] = @ + 1]
        /\ refCount' = [refCount EXCEPT ![x] = @ + 1]
        /\ UNCHANGED <<freeBlocks, blockTables, sharedOwners, call>>
    BY <1>9 DEF IncrementRefCount
  <2>2. refCount[x] > 0
    <3>1. PICK r \in known : \E i \in DOMAIN blockTables[r] : blockTables[r][i] = x
      BY <1>9 DEF IncrementRefCount
    <3>2. PICK i \in DOMAIN blockTables[r] : blockTables[r][i] = x
      BY <3>1
    <3>3. r \in RequestIds
      BY <3>1 DEF TypeOK, VarTypes
    <3>4. <<r, i>> \in TableRefs(blockTables, x)
      BY <3>2, <3>3, TableRefsMember
    <3>5. RefsTo(x) # {}
      BY <3>4 DEF RefsTo
    <3>. QED
      BY <1>a, <3>5, ReferencedPositive
  <2>3. FreePoolExact'
    BY <1>a, <2>1, <2>2, BumpKeepsPool
  <2>4. \A b \in Blocks : RefsTo(b)' = RefsTo(b)
    BY <2>1 DEF RefsTo
  <2>5. RefsFinite'
    BY <1>a, <2>4 DEF RefsFinite
  <2>6. RefCountExact'
    <3>1. SUFFICES ASSUME NEW b \in Blocks
                   PROVE  refCount'[b] = Cardinality(RefsTo(b)') + cacheRefs'[b]
      BY DEF RefCountExact
    <3>2. Cardinality(RefsTo(b)') = Cardinality(RefsTo(b)) /\ Cardinality(RefsTo(b)) \in Nat
      BY <1>a, <2>4, FS_CardinalityType DEF RefsFinite
    <3>3. refCount[b] = Cardinality(RefsTo(b)) + cacheRefs[b]
      BY <1>a DEF RefCountExact
    <3>. QED
      BY <1>c, <2>1, <3>2, <3>3
  <2>7. CallIdsLive'
    BY <2>1 DEF CallIdsLive
  <2>8. OwnersHold'
    BY <1>a, <2>1, <2>4 DEF OwnersHold
  <2>. QED
    BY <2>3, <2>5, <2>6, <2>7, <2>8 DEF Accounting
<1>10. ASSUME NEW r \in RequestIds, NEW k \in 1 .. CeilDiv(MaxTokens, BlockSize),
              NEW ids \in [1 .. k -> Blocks], AssignCachedBlocks(r, ids)
       PROVE  Accounting'
  <2>1. /\ call.op = "idle" /\ call'.op = "assign" /\ call'.ids = ids /\ call'.n = 0
        /\ \A i \in DOMAIN ids : cacheRefs[ids[i]] > 0
        /\ UNCHANGED <<refCount, freeBlocks, blockTables, sharedOwners, cacheRefs>>
    BY <1>10 DEF AssignCachedBlocks, Call
  <2>2. InFlight(call) = {} /\ InFlight(call') = {}
    <3>1. InFlight(call') = 1 .. 0
      BY <2>1, InFlightOf
    <3>. QED
      BY <2>1, <3>1, InFlightOf
  <2>3. \A b \in Blocks : RefsTo(b)' = RefsTo(b)
    BY <2>1, <2>2, OpeningCall
  <2>4. ASSUME NEW i \in DOMAIN ids PROVE refCount[ids[i]] > 0
    <3>1. ids[i] \in Blocks /\ cacheRefs[ids[i]] > 0
      BY <2>1
    <3>. QED
      BY <1>a, <3>1, ReferencedPositive
  <2>5. CallIdsLive'
    BY <2>1, <2>4 DEF CallIdsLive
  <2>. QED
    BY <2>1, <2>3, <2>5, SameRefs DEF Accounting
<1>11. ASSUME NEW src \in RequestIds, NEW dst \in RequestIds, NEW t \in 0 .. MaxTokens,
              SharePrefix(src, dst, t)
       PROVE  Accounting'
  <2>. DEFINE nb == CeilDiv(t, BlockSize)
              ids == SubSeq(blockTables[src], 1, nb)
  <2>1. /\ call.op = "idle" /\ call'.op = "share" /\ call'.ids = ids /\ call'.n = 0
        /\ nb <= Len(blockTables[src])
        /\ UNCHANGED <<refCount, freeBlocks, blockTables, sharedOwners, cacheRefs>>
    BY <1>11 DEF SharePrefix, Call
  <2>2. InFlight(call) = {} /\ InFlight(call') = {}
    <3>1. InFlight(call') = 1 .. 0
      BY <2>1, InFlightOf
    <3>. QED
      BY <2>1, <3>1, InFlightOf
  <2>3. \A b \in Blocks : RefsTo(b)' = RefsTo(b)
    BY <2>1, <2>2, OpeningCall
  <2>4. nb \in Nat /\ blockTables[src] \in Seq(Blocks)
    BY <1>c, CeilDivType, SMTT(30)
  <2>. HIDE DEF nb
  <2>5. ASSUME NEW i \in DOMAIN ids PROVE refCount[ids[i]] > 0
    <3>1. i \in DOMAIN blockTables[src] /\ ids[i] = blockTables[src][i] /\ ids[i] \in Blocks
      BY <2>1, <2>4
    <3>. HIDE DEF ids
    <3>2. <<src, i>> \in TableRefs(blockTables, ids[i])
      BY <3>1, TableRefsMember
    <3>3. RefsTo(ids[i]) # {}
      BY <3>2 DEF RefsTo
    <3>. QED
      BY <1>a, <3>1, <3>3, ReferencedPositive
  <2>. HIDE DEF ids
  <2>6. CallIdsLive'
    BY <2>1, <2>5 DEF CallIdsLive
  <2>. QED
    BY <2>1, <2>3, <2>6, SameRefs DEF Accounting
<1>12. CASE TakeRefNext
  <2>. DEFINE x == call.ids[call.n + 1]
              key == <<call.rid, -(call.n + 1)>>
  <2>1. /\ call.op \in {"assign", "share"} /\ call.n < Len(call.ids)
        /\ refCount' = [refCount EXCEPT ![x] = @ + 1]
        /\ sharedOwners' = [sharedOwners EXCEPT ![x] = @ \cup {call.rid}]
        /\ call' = Call(call.op, call.rid, call.ids, call.n + 1)
        /\ UNCHANGED <<freeBlocks, blockTables, cacheRefs>>
    BY <1>12 DEF TakeRefNext
  <2>2. x \in Blocks /\ refCount[x] > 0
    <3>1. call.n + 1 \in DOMAIN call.ids
      BY <1>c, <2>1, LenProperties
    <3>. QED
      BY <1>a, <1>c, <2>1, <3>1 DEF CallIdsLive
  <2>3. /\ call'.op = call.op /\ call'.rid = call.rid /\ call'.ids = call.ids
        /\ InFlight(call) = 1 .. call.n
        /\ InFlight(call') = 1 .. call.n + 1
    <3>1. /\ call'.op = call.op /\ call'.rid = call.rid /\ call'.ids = call.ids
          /\ call'.n = call.n + 1
      BY <2>1 DEF Call
    <3>. QED
      BY <2>1, <3>1, InFlightOf
  <2>4. ASSUME NEW b \in Blocks
        PROVE  /\ key \notin RefsTo(b)
               /\ RefsTo(b)' = IF b = x THEN RefsTo(b) \cup {key} ELSE RefsTo(b)
    <3>1. /\ key \notin CallRefs(call, b)
          /\ b = x => CallRefs(call', b) = CallRefs(call, b) \cup {key}
          /\ b # x => CallRefs(call', b) = CallRefs(call, b)
      <4>1. Grows(call, call', call.n, x, key)
        BY <1>c, <2>3 DEF Grows
      <4>. HIDE DEF key, x
      <4>. QED
        BY <4>1, CallRefsGrow
    <3>2. key \notin TableRefs(blockTables, b)
      BY <1>c, RefIndices
    <3>3. TableRefs(blockTables', b) = TableRefs(blockTables, b)
      BY <2>1
    <3>. HIDE DEF key, x
    <3>. QED
      BY <3>1, <3>2, <3>3 DEF RefsTo
  <2>. HIDE DEF x
  <2>5. key[1] = call.rid
    OBVIOUS
  <2>. HIDE DEF key
  <2>6. FreePoolExact'
    BY <1>a, <2>1, <2>2, BumpKeepsPool
  <2>7. RefsFinite' /\ RefCountExact'
    BY <1>a, <2>1, <2>2, <2>4, AddOneRef
  <2>8. CallIdsLive'
    <3>1. \A b \in Blocks : refCount[b] > 0 => refCount'[b] > 0
      BY <1>c, <2>1, <2>2
    <3>2. \A i \in DOMAIN call.ids : call.ids[i] \in Blocks
      BY <1>c
    <3>. QED
      BY <1>a, <2>1, <2>3, <3>1, <3>2 DEF CallIdsLive
  <2>9. OwnersHold'
    <3>1. SUFFICES ASSUME NEW b \in Blocks, NEW r \in sharedOwners'[b]
                   PROVE  \E k \in RefsTo(b)' : k[1] = r
      BY DEF OwnersHold
    <3>2. CASE r \in sharedOwners[b]
      <4>1. PICK k \in RefsTo(b) : k[1] = r
        BY <1>a, <3>2 DEF OwnersHold
      <4>. QED
        BY <2>4, <4>1
    <3>3. CASE r \notin sharedOwners[b]
      <4>1. b = x /\ r = call.rid
        BY <1>b, <2>1, <3>1, <3>3
      <4>. QED
        BY <2>4, <2>5, <4>1
    <3>. QED
      BY <3>2, <3>3
  <2>. QED
    BY <2>6, <2>7, <2>8, <2>9 DEF Accounting
<1>13. CASE StoreTable
  <2>1. /\ blockTables' = [blockTables EXCEPT ![call.rid] = call.ids \o @]
        /\ call' = Idle
        /\ UNCHANGED <<refCount, freeBlocks, sharedOwners, cacheRefs>>
    BY <1>13 DEF StoreTable
  <2>2. call.rid \in RequestIds /\ InFlight(call) = 1 .. Len(call.ids)
    BY <1>13, InFlightOf DEF StoreTable, TypeOK, CallOK
  <2>3. call'.op = "idle"
    BY <2>1 DEF Idle, Call
  <2>4. MovesIn(blockTables, blockTables', call.rid, call, call.ids)
    <3>1. /\ blockTables'[call.rid] = call.ids \o blockTables[call.rid]
          /\ \A q \in RequestIds : q # call.rid => blockTables'[q] = blockTables[q]
      BY <1>c, <2>1, <2>2
    <3>2. /\ DOMAIN blockTables'[call.rid] = 1 .. Len(call.ids) + Len(blockTables[call.rid])
          /\ \A i \in 1 .. Len(call.ids) : blockTables'[call.rid][i] = call.ids[i]
          /\ \A i \in 1 .. Len(blockTables[call.rid]) :
                blockTables'[call.rid][i + Len(call.ids)] = blockTables[call.rid][i]
      <4>. DEFINE s == call.ids
                  t == blockTables[call.rid]
                  u == blockTables'[call.rid]
      <4>1. s \in Seq(Blocks) /\ t \in Seq(Blocks) /\ u = s \o t
        BY <1>c, <2>2, <3>1
      <4>. HIDE DEF s, t, u
      <4>2. /\ DOMAIN u = 1 .. Len(s) + Len(t)
            /\ \A i \in 1 .. Len(s) : u[i] = s[i]
            /\ \A i \in 1 .. Len(t) : u[i + Len(s)] = t[i]
        BY <4>1, ConcatParts
      <4>. QED
        BY <4>2 DEF s, t, u
    <3>. QED
      BY <1>b, <1>c, <2>2, <3>1, <3>2 DEF MovesIn
  <2>5. ASSUME NEW b \in Blocks
        PROVE  /\ IsFiniteSet(RefsTo(b)')
               /\ Cardinality(RefsTo(b)') = Cardinality(RefsTo(b))
               /\ \A k \in RefsTo(b) : \E l \in RefsTo(b)' : l[1] = k[1]
    <3>1. CallRefs(call', b) = {}
      BY <2>3, InFlightOf, NoCallRefs
    <3>2. RefsTo(b)' = TableRefs(blockTables', b)
      BY <3>1 DEF RefsTo
    <3>3. RefsTo(b) = TableRefs(blockTables, b) \cup CallRefs(call, b)
      BY DEF RefsTo
    <3>4. IsFiniteSet(TableRefs(blockTables, b) \cup CallRefs(call, b))
      BY <1>a, <3>3 DEF RefsFinite
    <3>5. /\ IsFiniteSet(TableRefs(blockTables', b))
          /\ Cardinality(TableRefs(blockTables', b)) =
                Cardinality(TableRefs(blockTables, b) \cup CallRefs(call, b))
          /\ \A k \in TableRefs(blockTables, b) \cup CallRefs(call, b) :
                \E l \in TableRefs(blockTables', b) : l[1] = k[1]
      BY <2>4, <3>4, CallToTable
    <3>. QED
      BY <3>2, <3>3, <3>5
  <2>6. RefsFinite' /\ RefCountExact'
    BY <1>a, <2>1, <2>5 DEF RefsFinite, RefCountExact
  <2>7. FreePoolExact'
    BY <1>a, <2>1 DEF FreePoolExact
  <2>8. CallIdsLive'
    BY <2>3 DEF CallIdsLive
  <2>9. OwnersHold'
    BY <1>a, <2>1, <2>5 DEF OwnersHold
  <2>. QED
    BY <2>6, <2>7, <2>8, <2>9 DEF Accounting
<1>14. CASE UNCHANGED vars
  <2>1. UNCHANGED <<refCount, freeBlocks, blockTables, sharedOwners, cacheRefs, call>>
    BY <1>14 DEF vars
  <2>2. \A b \in Blocks : RefsTo(b)' = RefsTo(b)
    BY <2>1 DEF RefsTo
  <2>3. CallIdsLive'
    BY <1>a, <2>1 DEF CallIdsLive
  <2>. QED
    BY <2>1, <2>2, <2>3, SameRefs DEF Accounting
<1>. QED
  BY <1>1, <1>2, <1>3, <1>4, <1>5, <1>6, <1>7, <1>8, <1>9, <1>10, <1>11, <1>12, <1>13, <1>14
     DEF Next

(* The inductive invariant holds in every reachable state. *)
THEOREM BooksKept == Spec => []IInv
<1>1. Init => IInv
  BY InitTypeOK, InitAccounting DEF IInv
<1>2. IInv /\ [Next]_vars => IInv'
  BY NextTypeOK, NextAccounting DEF IInv
<1>. QED
  BY <1>1, <1>2, PTL DEF Spec

(* ref_count is the exact number of references, in every pool and at every
   iteration of every loop of block.rs. *)
THEOREM CountsExact == Spec => []RefCountExact
<1>1. IInv => RefCountExact
  BY DEF IInv, Accounting
<1>. QED
  BY <1>1, BooksKept, PTL

(* The free list holds exactly the unreferenced blocks, each once. *)
THEOREM PoolExact == Spec => []FreePoolExact
<1>1. IInv => FreePoolExact
  BY DEF IInv, Accounting
<1>. QED
  BY <1>1, BooksKept, PTL

(* shared_owners only names requests that hold a reference to the block. *)
THEOREM OwnersSound == Spec => []OwnersHold
<1>1. IInv => OwnersHold
  BY DEF IInv, Accounting
<1>. QED
  BY <1>1, BooksKept, PTL
=============================================================================
