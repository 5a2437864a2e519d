------------------------- MODULE WaitingQueue_proof -------------------------
(***************************************************************************)
(* The binary heap keeps its order, loses and duplicates nothing, and the  *)
(* scheduler that uses it implements PriorityAdmission, for every number   *)
(* of requests, every priority and every batch size.                       *)
(*                                                                         *)
(* A sift is a loop, so its correctness is a loop invariant: UpOK for the  *)
(* way up, DownOK for the way down, each with the number of rounds that    *)
(* may be left.  The invariant of the specification then needs that no     *)
(* request is in the array twice: pop would leave a second copy waiting    *)
(* while the first one runs.                                               *)
(***************************************************************************)
EXTENDS WaitingQueue, DataLemmas, TLAPS

-----------------------------------------------------------------------------
(* Loops. *)

(* The first n rounds of a loop. *)
Trace(step, s, n, f) ==
    /\ DOMAIN f = 0 .. n
    /\ f[0] = s
    /\ \A i \in 1 .. n : f[i] = step[f[i - 1]]

(* A loop has a trace of every length. *)
LEMMA TraceExists ==
    ASSUME NEW step, NEW s
    PROVE  \A n \in Nat : \E f : Trace(step, s, n, f)
<1>. DEFINE T == {n \in Nat : ~ \E f : Trace(step, s, n, f)}
<1>. SUFFICES ASSUME T # {} PROVE FALSE
  OBVIOUS
<1>1. PICK n \in T : \A m \in T : n <= m
  <2>1. T \in SUBSET Nat
    OBVIOUS
  <2>. HIDE DEF T
  <2>. QED
    BY <2>1, LeastNat
<1>2. CASE n = 0
  <2>1. Trace(step, s, 0, [i \in 0 .. 0 |-> s])
    BY DEF Trace
  <2>. QED
    BY <1>1, <1>2, <2>1
<1>3. CASE n > 0
  <2>1. n \in Nat /\ n - 1 \in Nat /\ n - 1 \notin T
    BY <1>1, <1>3
  <2>2. PICK g : Trace(step, s, n - 1, g)
    BY <2>1
  <2>. DEFINE f == [i \in 0 .. n |-> IF i = n THEN step[g[n - 1]] ELSE g[i]]
  <2>3. Trace(step, s, n, f)
    BY <1>3, <2>1, <2>2 DEF Trace
  <2>. QED
    BY <1>1, <2>3
<1>. QED
  BY <1>1, <1>2, <1>3

(* Two traces of a loop agree on the rounds both have. *)
LEMMA TracesAgree ==
    ASSUME NEW step, NEW s, NEW n \in Nat, NEW m \in Nat, n <= m,
           NEW f, Trace(step, s, n, f), NEW g, Trace(step, s, m, g)
    PROVE  \A i \in 0 .. n : f[i] = g[i]
<1>. DEFINE T == {i \in 0 .. n : f[i] # g[i]}
<1>. SUFFICES ASSUME T # {} PROVE FALSE
  OBVIOUS
<1>1. PICK i \in T : \A j \in T : i <= j
  <2>1. T \in SUBSET Nat
    OBVIOUS
  <2>. HIDE DEF T
  <2>. QED
    BY <2>1, LeastNat
<1>2. CASE i = 0
  BY <1>1, <1>2 DEF Trace
<1>3. CASE i > 0
  <2>1. i \in 1 .. n /\ i \in 1 .. m /\ i - 1 \in 0 .. n /\ i - 1 \notin T
    BY <1>1, <1>3
  <2>2. f[i - 1] = g[i - 1]
    BY <2>1
  <2>. QED
    BY <1>1, <2>1, <2>2 DEF Trace
<1>. QED
  BY <1>1, <1>2, <1>3

(* Rounds is the loop: it starts at s and each round applies step. *)
LEMMA RoundsAre ==
    ASSUME NEW step, NEW s
    PROVE  /\ Rounds(step, s)[0] = s
           /\ \A n \in Nat : Rounds(step, s)[n + 1] = step[Rounds(step, s)[n]]
<1>. DEFINE F(f) == [n \in Nat |-> IF n = 0 THEN s ELSE step[f[n - 1]]]
            at == CHOOSE f : f = F(f)
            tr(n) == CHOOSE f : Trace(step, s, n, f)
            glue == [n \in Nat |-> tr(n)[n]]
<1>1. \E f : f = F(f)
  <2>1. \A n \in Nat : Trace(step, s, n, tr(n))
    BY TraceExists
  <2>. HIDE DEF tr
  <2>2. glue[0] = s
    BY <2>1 DEF Trace
  <2>3. ASSUME NEW n \in Nat, n # 0 PROVE glue[n] = step[glue[n - 1]]
    <3>1. n - 1 \in Nat /\ n \in 1 .. n /\ n - 1 \in 0 .. n - 1 /\ n - 1 <= n
      BY <2>3
    <3>2. Trace(step, s, n, tr(n)) /\ Trace(step, s, n - 1, tr(n - 1))
      BY <2>1, <3>1
    <3>3. tr(n)[n] = step[tr(n)[n - 1]]
      BY <3>1, <3>2 DEF Trace
    <3>4. tr(n - 1)[n - 1] = tr(n)[n - 1]
      BY <3>1, <3>2, TracesAgree
    <3>. QED
      BY <3>1, <3>3, <3>4
  <2>4. glue = [n \in Nat |-> IF n = 0 THEN s ELSE step[glue[n - 1]]]
    <3>1. \A n \in Nat : glue[n] = IF n = 0 THEN s ELSE step[glue[n - 1]]
      BY <2>2, <2>3
    <3>2. glue = [n \in Nat |-> glue[n]]
      OBVIOUS
    <3>. HIDE DEF glue
    <3>. QED
      BY <3>1, <3>2
  <2>. QED
    BY <2>4
<1>2. at = F(at)
  BY <1>1
<1>3. Rounds(step, s) = at
  BY DEF Rounds
<1>. HIDE DEF at
<1>4. \A n \in Nat : at[n] = IF n = 0 THEN s ELSE step[at[n - 1]]
  BY <1>2, Zenon
<1>. HIDE DEF F
<1>5. at[0] = s
  BY <1>4
<1>6. ASSUME NEW n \in Nat PROVE at[n + 1] = step[at[n]]
  <2>1. n + 1 \in Nat /\ n + 1 # 0 /\ (n + 1) - 1 = n
    OBVIOUS
  <2>. QED
    BY <1>4, <2>1
<1>. QED
  BY <1>3, <1>5, <1>6

(* A loop keeps its invariant: inv[n] holds the states allowed after n rounds. *)
LEMMA LoopInvariant ==
    ASSUME NEW step, NEW s, NEW inv, s \in inv[0],
           \A n \in Nat : \A x \in inv[n] : step[x] \in inv[n + 1]
    PROVE  \A n \in Nat : Rounds(step, s)[n] \in inv[n]
<1>. DEFINE at == Rounds(step, s)
            T == {n \in Nat : at[n] \notin inv[n]}
<1>0. at[0] = s /\ \A n \in Nat : at[n + 1] = step[at[n]]
  BY RoundsAre
<1>. HIDE DEF at
<1>. SUFFICES ASSUME T # {} PROVE FALSE
  BY DEF at
<1>1. PICK n \in T : \A m \in T : n <= m
  <2>1. T \in SUBSET Nat
    OBVIOUS
  <2>. HIDE DEF T
  <2>. QED
    BY <2>1, LeastNat
<1>2. CASE n = 0
  BY <1>0, <1>1, <1>2
<1>3. CASE n > 0
  <2>1. n - 1 \in Nat /\ n - 1 \notin T /\ (n - 1) + 1 = n
    BY <1>1, <1>3
  <2>2. at[n - 1] \in inv[n - 1]
    BY <2>1
  <2>3. at[n] = step[at[n - 1]]
    BY <1>0, <2>1
  <2>. QED
    BY <1>1, <2>1, <2>2, <2>3
<1>. QED
  BY <1>1, <1>2, <1>3

-----------------------------------------------------------------------------
(* The array. *)

(* A parent's position. *)
LEMMA Half ==
    ASSUME NEW i \in Nat, i > 1
    PROVE  /\ i \div 2 \in Nat /\ i \div 2 >= 1 /\ i \div 2 < i
           /\ i = 2 * (i \div 2) \/ i = 2 * (i \div 2) + 1
  BY Z3

(* An array of requests, none of them twice. *)
Array(h) == h \in Seq(Requests) /\ IsInjective(h)

(* g is a permutation of h. *)
Permutes(g, h) == Array(g) /\ Len(g) = Len(h) /\ Range(g) = Range(h)

(* The elements of an array. *)
LEMMA ArrayFacts ==
    ASSUME NEW h \in Seq(Requests)
    PROVE  /\ Len(h) \in Nat /\ DOMAIN h = 1 .. Len(h)
           /\ \A i \in 1 .. Len(h) : h[i] \in Requests
           /\ Range(h) = {h[i] : i \in 1 .. Len(h)}
           /\ Range(h) \subseteq Requests
  BY LenProperties, RangeEquality, ElementOfSeq, RangeOfSeq

(* Ord for QueueEntry is total and transitive. *)
LEMMA LeTotal ==
    ASSUME NEW a \in Requests, NEW b \in Requests, NEW c \in Requests
    PROVE  /\ Le(a, a) /\ (Le(a, b) \/ Le(b, a))
           /\ Le(a, b) /\ Le(b, c) => Le(a, c)
<1>1. Priority[a] \in Int /\ Priority[b] \in Int /\ Priority[c] \in Int
  BY HeapAssumption
<1>. QED
  BY <1>1 DEF Le

(* Two entries change places; nothing is lost. *)
LEMMA SwapPermutes ==
    ASSUME NEW h, Array(h), NEW i \in 1 .. Len(h), NEW j \in 1 .. Len(h), i # j
    PROVE  /\ Permutes(Swap(h, i, j), h)
           /\ Swap(h, i, j)[i] = h[j] /\ Swap(h, i, j)[j] = h[i]
           /\ \A k \in 1 .. Len(h) : k # i /\ k # j => Swap(h, i, j)[k] = h[k]
<1>. DEFINE g == Swap(h, i, j)
<1>1. /\ h \in Seq(Requests) /\ Len(h) \in Nat /\ DOMAIN h = 1 .. Len(h)
      /\ \A k \in 1 .. Len(h) : h[k] \in Requests
  BY ArrayFacts DEF Array
<1>2. /\ g = [k \in 1 .. Len(h) |-> IF k = j THEN h[i] ELSE IF k = i THEN h[j] ELSE h[k]]
  BY <1>1 DEF Swap
<1>. HIDE DEF g
<1>3. /\ DOMAIN g = 1 .. Len(h) /\ g[i] = h[j] /\ g[j] = h[i]
      /\ \A k \in 1 .. Len(h) : k # i /\ k # j => g[k] = h[k]
  BY <1>2
<1>4. g \in Seq(Requests) /\ Len(g) = Len(h)
  <2>1. \A k \in 1 .. Len(h) : g[k] \in Requests
    BY <1>1, <1>3
  <2>2. g \in [1 .. Len(h) -> Requests]
    BY <1>2, <2>1
  <2>. QED
    BY <1>1, <2>2, IsASeq
<1>5. Range(g) = Range(h)
  <2>1. Range(g) \subseteq Range(h)
    BY <1>1, <1>3, Zenon DEF Range
  <2>2. Range(h) \subseteq Range(g)
    BY <1>1, <1>3, Zenon DEF Range
  <2>. QED
    BY <2>1, <2>2
<1>6. IsInjective(g)
  <2>1. \A a, b \in 1 .. Len(h) : h[a] = h[b] => a = b
    BY <1>1 DEF Array, IsInjective
  <2>2. \A a, b \in 1 .. Len(h) : g[a] = g[b] => a = b
    BY <1>3, <2>1
  <2>. QED
    BY <1>3, <2>2 DEF IsInjective
<1>. QED
  BY <1>3, <1>4, <1>5, <1>6 DEF g, Permutes, Array

(* Every entry but the one at i is in order with its parent, and the
   children of i with their grandparent. *)
UpOK(h, i) ==
    /\ i \in 1 .. Len(h)
    /\ \A k \in 2 .. Len(h) :
          /\ k # i => Le(h[k], h[k \div 2])
          /\ k \div 2 = i /\ i > 1 => Le(h[k], h[i \div 2])

(* The entry at i has reached its place. *)
Settled(h, i) == i = 1 \/ Le(h[i], h[i \div 2])

(* No entry outranks its parent. *)
Heap(h) == \A i \in 2 .. Len(h) : Le(h[i], h[i \div 2])

(* A round on the way up. *)
LEMMA UpStepKeeps ==
    ASSUME NEW h, Array(h), NEW i, UpOK(h, i), ~ Settled(h, i)
    PROVE  /\ i \div 2 \in 1 .. Len(h) /\ i \div 2 < i
           /\ Permutes(Swap(h, i, i \div 2), h)
           /\ UpOK(Swap(h, i, i \div 2), i \div 2)
<1>. DEFINE p == i \div 2
            g == Swap(h, i, p)
<1>1. /\ h \in Seq(Requests) /\ Len(h) \in Nat
      /\ \A k \in 1 .. Len(h) : h[k] \in Requests
  BY ArrayFacts DEF Array
<1>2. i \in 1 .. Len(h) /\ i \in 2 .. Len(h) /\ i \in Nat /\ i > 1
  BY <1>1 DEF UpOK, Settled
<1>3. p \in 1 .. Len(h) /\ p < i /\ p # i /\ p \in Nat
  BY <1>1, <1>2, Half
<1>4. /\ Permutes(g, h) /\ g[i] = h[p] /\ g[p] = h[i]
      /\ \A k \in 1 .. Len(h) : k # i /\ k # p => g[k] = h[k]
  BY <1>2, <1>3, SwapPermutes
<1>5. Len(g) = Len(h)
  BY <1>4 DEF Permutes
<1>6. ~ Le(h[i], h[p])
  BY DEF Settled
<1>. HIDE DEF g
<1>7. Le(h[p], h[i])
  BY <1>1, <1>2, <1>3, <1>6, LeTotal
<1>8. ASSUME NEW k \in 2 .. Len(h) PROVE (k # p => Le(g[k], g[k \div 2])) /\ (k \div 2 = p /\ p > 1 => Le(g[k], g[p \div 2]))
  <2>1. /\ k \in 1 .. Len(h) /\ k \in Nat /\ k > 1
        /\ k \div 2 \in 1 .. Len(h) /\ k \div 2 < k
        /\ h[k] \in Requests /\ h[k \div 2] \in Requests /\ h[i] \in Requests /\ h[p] \in Requests
    BY <1>1, <1>2, <1>3, Half
  <2>2. ASSUME k # p PROVE Le(g[k], g[k \div 2])
    <3>1. CASE k = i
      BY <1>4, <1>7, <3>1
    <3>2. CASE k # i /\ k \div 2 = p
      <4>1. Le(h[k], h[p])
        BY <3>2 DEF UpOK
      <4>2. Le(h[k], h[i])
        BY <1>7, <2>1, <4>1, LeTotal
      <4>. QED
        BY <1>4, <2>1, <2>2, <3>2, <4>2
    <3>3. CASE k # i /\ k \div 2 = i
      <4>1. Le(h[k], h[p])
        BY <1>2, <3>3 DEF UpOK
      <4>. QED
        BY <1>4, <2>1, <2>2, <3>3, <4>1
    <3>4. CASE k # i /\ k \div 2 # i /\ k \div 2 # p
      <4>1. Le(h[k], h[k \div 2])
        BY <3>4 DEF UpOK
      <4>. QED
        BY <1>4, <2>1, <2>2, <3>4, <4>1
    <3>. QED
      BY <3>1, <3>2, <3>3, <3>4
  <2>3. ASSUME k \div 2 = p, p > 1 PROVE Le(g[k], g[p \div 2])
    <3>1. /\ p \in 2 .. Len(h) /\ p \div 2 \in 1 .. Len(h) /\ p \div 2 < p
          /\ h[p \div 2] \in Requests
      BY <1>1, <1>3, <2>3, Half
    <3>2. Le(h[p], h[p \div 2])
      BY <1>3, <3>1 DEF UpOK
    <3>3. g[p \div 2] = h[p \div 2]
      BY <1>3, <1>4, <3>1
    <3>4. CASE k = i
      BY <1>4, <3>2, <3>3, <3>4
    <3>5. CASE k # i
      <4>1. Le(h[k], h[p])
        BY <2>3, <3>5 DEF UpOK
      <4>2. Le(h[k], h[p \div 2])
        BY <2>1, <3>1, <3>2, <4>1, LeTotal
      <4>3. g[k] = h[k]
        BY <1>4, <2>1, <2>3, <3>5
      <4>. QED
        BY <3>3, <4>2, <4>3
    <3>. QED
      BY <3>4, <3>5
  <2>. QED
    BY <2>2, <2>3
<1>9. UpOK(g, p)
  BY <1>3, <1>5, <1>8 DEF UpOK
<1>. QED
  BY <1>3, <1>4, <1>9 DEF g

(* Permuting a permutation. *)
LEMMA PermutesTransitive ==
    ASSUME NEW f, NEW g, NEW h, Permutes(f, g), Permutes(g, h)
    PROVE  Permutes(f, h)
  BY DEF Permutes

(* The loop of sift_up: after n rounds the entry is settled, or has moved up
   n times. *)
UpInv(h, i) == [n \in Nat |->
    {s \in Sifts : /\ Permutes(s[1], h) /\ UpOK(s[1], s[2])
                   /\ Settled(s[1], s[2]) \/ s[2] + n <= i}]

(* sift_up makes a heap of an array in which only the entry at i may outrank
   its parent. *)
LEMMA SiftUpSorts ==
    ASSUME NEW h, Array(h), NEW i, UpOK(h, i)
    PROVE  Permutes(SiftUp(h, i), h) /\ Heap(SiftUp(h, i))
<1>. DEFINE inv == UpInv(h, i)
<1>0. h \in Seq(Requests) /\ Len(h) \in Nat /\ i \in 1 .. Len(h) /\ i \in Nat
  BY ArrayFacts DEF Array, UpOK
<1>1. <<h, i>> \in inv[0]
  <2>1. <<h, i>> \in Sifts /\ i + 0 <= i
    BY <1>0 DEF Sifts
  <2>2. Permutes(h, h)
    BY DEF Permutes
  <2>. QED
    BY <2>1, <2>2 DEF UpInv
<1>2. ASSUME NEW n \in Nat, NEW x \in inv[n] PROVE UpStep[x] \in inv[n + 1]
  <2>. DEFINE a == x[1]
              j == x[2]
  <2>1. /\ x \in Sifts /\ Permutes(a, h) /\ UpOK(a, j)
        /\ Settled(a, j) \/ j + n <= i
    BY <1>2 DEF UpInv
  <2>2. Array(a) /\ j \in Nat /\ x = <<a, j>>
    BY <2>1 DEF Permutes, Sifts
  <2>3. UpStep[x] = IF Settled(a, j) THEN x ELSE <<Swap(a, j, j \div 2), j \div 2>>
    BY <2>1 DEF UpStep, Settled
  <2>. HIDE DEF a, j
  <2>4. CASE Settled(a, j)
    <3>1. UpStep[x] = x
      BY <2>3, <2>4
    <3>2. Settled(x[1], x[2]) /\ Permutes(x[1], h) /\ UpOK(x[1], x[2])
      BY <2>1, <2>4 DEF a, j
    <3>. QED
      BY <2>1, <3>1, <3>2 DEF UpInv
  <2>5. CASE ~ Settled(a, j)
    <3>. DEFINE b == Swap(a, j, j \div 2)
                p == j \div 2
    <3>1. p \in 1 .. Len(a) /\ p < j /\ Permutes(b, a) /\ UpOK(b, p)
      BY <2>1, <2>2, <2>5, UpStepKeeps
    <3>2. UpStep[x] = <<b, p>>
      BY <2>3, <2>5
    <3>. HIDE DEF b, p
    <3>3. Permutes(b, h)
      BY <2>1, <3>1, PermutesTransitive
    <3>4. p \in Nat /\ p # 0 /\ b \in Seq(Requests)
      <4>1. Len(a) \in Nat
        BY <2>2, ArrayFacts DEF Array
      <4>. QED
        BY <3>1, <4>1 DEF Permutes, Array
    <3>5. p + (n + 1) <= i
      BY <1>0, <2>1, <2>2, <2>5, <3>1, <3>4
    <3>6. <<b, p>> \in Sifts
      BY <3>4 DEF Sifts
    <3>. QED
      BY <3>1, <3>2, <3>3, <3>5, <3>6 DEF UpInv
  <2>. QED
    BY <2>4, <2>5
<1>. DEFINE s == Rounds(UpStep, <<h, i>>)[i]
<1>3. s \in inv[i]
  <2>. HIDE DEF inv
  <2>. QED
    BY <1>0, <1>1, <1>2, LoopInvariant
<1>4. SiftUp(h, i) = s[1]
  BY DEF SiftUp
<1>. HIDE DEF s
<1>5. /\ s \in Sifts /\ Permutes(s[1], h) /\ UpOK(s[1], s[2])
      /\ Settled(s[1], s[2]) \/ s[2] + i <= i
  BY <1>0, <1>3 DEF UpInv
<1>6. s[2] \in Nat /\ s[2] > 0
  BY <1>5 DEF Sifts
<1>7. Settled(s[1], s[2])
  BY <1>0, <1>5, <1>6
<1>8. Heap(s[1])
  <2>. SUFFICES ASSUME NEW k \in 2 .. Len(s[1]) PROVE Le(s[1][k], s[1][k \div 2])
    BY DEF Heap
  <2>1. Len(s[1]) \in Nat
    BY <1>5, ArrayFacts DEF Permutes, Array
  <2>2. CASE k # s[2]
    BY <1>5, <2>2 DEF UpOK
  <2>3. CASE k = s[2]
    BY <1>7, <2>1, <2>3 DEF Settled
  <2>. QED
    BY <2>2, <2>3
<1>. QED
  BY <1>4, <1>5, <1>8

-----------------------------------------------------------------------------
(* Every entry is in order with its parent but the one at i and its children,
   which are in order with their grandparent. *)
DownOK(h, i) ==
    /\ i \in 1 .. Len(h)
    /\ \A k \in 2 .. Len(h) :
          /\ k # i /\ k \div 2 # i => Le(h[k], h[k \div 2])
          /\ k \div 2 = i /\ i > 1 => Le(h[k], h[i \div 2])

(* The child that sift_down_to_bottom exchanges i with. *)
Child(h, i) == IF 2 * i + 1 <= Len(h) /\ Le(h[2 * i], h[2 * i + 1]) THEN 2 * i + 1 ELSE 2 * i

(* The children of i are those two positions. *)
LEMMA Children ==
    ASSUME NEW i \in Nat, i > 0, NEW k \in Nat
    PROVE  k \div 2 = i <=> k = 2 * i \/ k = 2 * i + 1
  BY Z3

(* No child of i outranks the one that is chosen. *)
LEMMA ChildGreatest ==
    ASSUME NEW h, Array(h), NEW i \in 1 .. Len(h), 2 * i <= Len(h)
    PROVE  /\ Child(h, i) \in 2 .. Len(h) /\ Child(h, i) \div 2 = i /\ Child(h, i) > i
           /\ \A k \in 2 .. Len(h) : k \div 2 = i => Le(h[k], h[Child(h, i)])
<1>. DEFINE c == Child(h, i)
<1>1. Len(h) \in Nat /\ \A k \in 1 .. Len(h) : h[k] \in Requests
  BY ArrayFacts DEF Array
<1>2. c \in Nat /\ (c = 2 * i \/ c = 2 * i + 1) /\ c <= Len(h) /\ i \in Nat /\ i > 0
  BY <1>1 DEF Child
<1>3. c \in 2 .. Len(h) /\ c > i
  BY <1>1, <1>2
<1>4. c \div 2 = i
  BY <1>2, Children
<1>5. ASSUME NEW k \in 2 .. Len(h), k \div 2 = i PROVE Le(h[k], h[c])
  <2>1. k \in Nat /\ (k = 2 * i \/ k = 2 * i + 1)
    BY <1>1, <1>2, <1>5, Children
  <2>2. h[k] \in Requests /\ h[c] \in Requests /\ h[2 * i] \in Requests
    BY <1>1, <1>2, <1>3
  <2>3. CASE k = c
    BY <2>2, <2>3, LeTotal
  <2>4. CASE k # c /\ c = 2 * i + 1
    <3>1. Le(h[2 * i], h[2 * i + 1])
      BY <1>2, <2>4 DEF Child
    <3>2. k = 2 * i
      BY <2>1, <2>4
    <3>. QED
      BY <2>4, <3>1, <3>2
  <2>5. CASE k # c /\ c = 2 * i
    <3>1. k = 2 * i + 1 /\ 2 * i + 1 <= Len(h)
      BY <1>1, <2>1, <2>5
    <3>2. ~ Le(h[2 * i], h[2 * i + 1])
      BY <1>2, <2>5, <3>1 DEF Child
    <3>3. h[2 * i + 1] \in Requests
      BY <2>2, <3>1
    <3>4. Le(h[2 * i + 1], h[2 * i])
      BY <2>2, <3>2, <3>3, LeTotal
    <3>. QED
      BY <2>5, <3>1, <3>4
  <2>. QED
    BY <1>2, <2>3, <2>4, <2>5
<1>. QED
  BY <1>3, <1>4, <1>5

(* A round on the way down. *)
LEMMA DownStepKeeps ==
    ASSUME NEW h, Array(h), NEW i, DownOK(h, i), 2 * i <= Len(h)
    PROVE  /\ Child(h, i) \in 2 .. Len(h) /\ Child(h, i) > i
           /\ Permutes(Swap(h, i, Child(h, i)), h)
           /\ DownOK(Swap(h, i, Child(h, i)), Child(h, i))
<1>. DEFINE c == Child(h, i)
            g == Swap(h, i, c)
<1>1. /\ h \in Seq(Requests) /\ Len(h) \in Nat
      /\ \A k \in 1 .. Len(h) : h[k] \in Requests
  BY ArrayFacts DEF Array
<1>2. i \in 1 .. Len(h) /\ i \in Nat
  BY <1>1 DEF DownOK
<1>3. /\ c \in 2 .. Len(h) /\ c \div 2 = i /\ c > i
      /\ \A k \in 2 .. Len(h) : k \div 2 = i => Le(h[k], h[c])
  BY <1>2, ChildGreatest
<1>. HIDE DEF c
<1>4. c \in 1 .. Len(h) /\ c \in Nat /\ c # i /\ c > 1
  BY <1>1, <1>2, <1>3
<1>5. /\ Permutes(g, h) /\ g[i] = h[c] /\ g[c] = h[i]
      /\ \A k \in 1 .. Len(h) : k # i /\ k # c => g[k] = h[k]
  BY <1>2, <1>4, SwapPermutes
<1>6. Len(g) = Len(h)
  BY <1>5 DEF Permutes
<1>. HIDE DEF g
<1>7. ASSUME NEW k \in 2 .. Len(h)
      PROVE  /\ k # c /\ k \div 2 # c => Le(g[k], g[k \div 2])
             /\ k \div 2 = c => Le(g[k], g[c \div 2])
  <2>1. /\ k \in 1 .. Len(h) /\ k \in Nat /\ k > 1
        /\ k \div 2 \in 1 .. Len(h) /\ k \div 2 < k
    BY <1>1, Half
  <2>2. ASSUME k # c, k \div 2 # c PROVE Le(g[k], g[k \div 2])
    <3>1. CASE k = i
      <4>1. Le(h[c], h[i \div 2])
        BY <1>3, <2>1, <3>1 DEF DownOK
      <4>2. g[i \div 2] = h[i \div 2]
        BY <1>5, <2>1, <2>2, <3>1
      <4>. QED
        BY <1>5, <3>1, <4>1, <4>2
    <3>2. CASE k # i /\ k \div 2 = i
      BY <1>3, <1>5, <2>1, <2>2, <3>2
    <3>3. CASE k # i /\ k \div 2 # i
      <4>1. Le(h[k], h[k \div 2])
        BY <3>3 DEF DownOK
      <4>. QED
        BY <1>5, <2>1, <2>2, <3>3, <4>1
    <3>. QED
      BY <3>1, <3>2, <3>3
  <2>3. ASSUME k \div 2 = c PROVE Le(g[k], g[c \div 2])
    <3>1. k # c /\ k # i
      BY <1>2, <1>3, <1>4, <2>1, <2>3
    <3>2. Le(h[k], h[c])
      BY <1>4, <2>3, <3>1 DEF DownOK
    <3>. QED
      BY <1>3, <1>5, <2>1, <3>1, <3>2
  <2>. QED
    BY <2>2, <2>3
<1>8. DownOK(g, c)
  BY <1>4, <1>6, <1>7 DEF DownOK
<1>. QED
  BY <1>3, <1>5, <1>8 DEF g, c

(* The way down: after n rounds the entry is at a leaf, or has moved down n
   times. *)
DownInv(h) == [n \in Nat |->
    {s \in Sifts : /\ Permutes(s[1], h) /\ DownOK(s[1], s[2])
                   /\ 2 * s[2] > Len(h) \/ s[2] > n}]

(* sift_down_to_bottom makes a heap of an array in which only the root may be
   outranked by its children. *)
LEMMA SiftDownSorts ==
    ASSUME NEW h, Array(h), DownOK(h, 1)
    PROVE  Permutes(SiftDownToBottom(h), h) /\ Heap(SiftDownToBottom(h))
<1>. DEFINE inv == DownInv(h)
<1>0. h \in Seq(Requests) /\ Len(h) \in Nat /\ 1 \in 1 .. Len(h)
  BY ArrayFacts DEF Array, DownOK
<1>1. <<h, 1>> \in inv[0]
  <2>1. <<h, 1>> \in Sifts /\ 1 > 0
    BY <1>0 DEF Sifts
  <2>2. Permutes(h, h)
    BY DEF Permutes
  <2>. QED
    BY <2>1, <2>2 DEF DownInv
<1>2. ASSUME NEW n \in Nat, NEW x \in inv[n] PROVE DownStep[x] \in inv[n + 1]
  <2>. DEFINE a == x[1]
              j == x[2]
  <2>1. /\ x \in Sifts /\ Permutes(a, h) /\ DownOK(a, j)
        /\ 2 * j > Len(h) \/ j > n
    BY <1>2 DEF DownInv
  <2>2. Array(a) /\ j \in Nat /\ x = <<a, j>> /\ Len(a) = Len(h)
    BY <2>1 DEF Permutes, Sifts
  <2>3. DownStep[x] = IF 2 * j > Len(a) THEN x ELSE <<Swap(a, j, Child(a, j)), Child(a, j)>>
    BY <2>1 DEF DownStep, Child
  <2>. HIDE DEF a, j
  <2>4. CASE 2 * j > Len(a)
    <3>1. DownStep[x] = x
      BY <2>3, <2>4
    <3>2. 2 * x[2] > Len(h) /\ Permutes(x[1], h) /\ DownOK(x[1], x[2])
      BY <2>1, <2>2, <2>4 DEF a, j
    <3>. QED
      BY <2>1, <3>1, <3>2 DEF DownInv
  <2>5. CASE ~ (2 * j > Len(a))
    <3>. DEFINE c == Child(a, j)
                b == Swap(a, j, c)
    <3>0. 2 * j <= Len(a)
      BY <1>0, <2>2, <2>5
    <3>1. c \in 2 .. Len(a) /\ c > j /\ Permutes(b, a) /\ DownOK(b, c)
      BY <2>1, <2>2, <3>0, DownStepKeeps
    <3>2. DownStep[x] = <<b, c>>
      BY <2>3, <2>5
    <3>. HIDE DEF b, c
    <3>3. Permutes(b, h)
      BY <2>1, <3>1, PermutesTransitive
    <3>4. c \in Nat /\ c # 0 /\ b \in Seq(Requests)
      BY <1>0, <2>2, <3>1 DEF Permutes, Array
    <3>5. c > n + 1
      BY <1>0, <2>1, <2>2, <3>0, <3>1, <3>4
    <3>6. <<b, c>> \in Sifts
      BY <3>4 DEF Sifts
    <3>. QED
      BY <3>1, <3>2, <3>3, <3>5, <3>6 DEF DownInv
  <2>. QED
    BY <2>4, <2>5
<1>. DEFINE s == Rounds(DownStep, <<h, 1>>)[Len(h)]
<1>3. s \in inv[Len(h)]
  <2>. HIDE DEF inv
  <2>. QED
    BY <1>0, <1>1, <1>2, LoopInvariant
<1>4. SiftDownToBottom(h) = SiftUp(s[1], s[2])
  BY DEF SiftDownToBottom
<1>. HIDE DEF s
<1>5. /\ s \in Sifts /\ Permutes(s[1], h) /\ DownOK(s[1], s[2])
      /\ 2 * s[2] > Len(h) \/ s[2] > Len(h)
  BY <1>0, <1>3 DEF DownInv
<1>6. s[2] \in Nat /\ s[2] > 0 /\ Len(s[1]) = Len(h) /\ Array(s[1])
  BY <1>5 DEF Sifts, Permutes
<1>7. UpOK(s[1], s[2])
  <2>1. 2 * s[2] > Len(h)
    BY <1>0, <1>5, <1>6
  <2>2. ASSUME NEW k \in 2 .. Len(h) PROVE k \div 2 # s[2]
    <3>1. k \in Nat
      BY <1>0
    <3>. QED
      BY <1>0, <1>6, <2>1, <3>1, Children
  <2>. QED
    BY <1>5, <1>6, <2>2 DEF DownOK, UpOK
<1>8. Permutes(SiftUp(s[1], s[2]), s[1]) /\ Heap(SiftUp(s[1], s[2]))
  BY <1>6, <1>7, SiftUpSorts
<1>. QED
  BY <1>4, <1>5, <1>8, PermutesTransitive

-----------------------------------------------------------------------------
(* push. *)
LEMMA PushSorts ==
    ASSUME NEW h, Array(h), Heap(h), NEW r \in Requests, r \notin Range(h)
    PROVE  /\ Array(Push(h, r)) /\ Heap(Push(h, r))
           /\ Len(Push(h, r)) = Len(h) + 1 /\ Range(Push(h, r)) = Range(h) \cup {r}
<1>. DEFINE g == Append(h, r)
<1>1. h \in Seq(Requests) /\ Len(h) \in Nat
  BY ArrayFacts DEF Array
<1>2. /\ g \in Seq(Requests) /\ Len(g) = Len(h) + 1
      /\ \A i \in 1 .. Len(h) : g[i] = h[i]
      /\ g[Len(h) + 1] = r
  BY <1>1, AppendProperties
<1>3. IsInjective(g)
  BY <1>1, AppendKeepsInjective DEF Array
<1>4. Range(g) = Range(h) \cup {r}
  <2>1. Range(g) = {g[i] : i \in 1 .. Len(g)} /\ Range(h) = {h[i] : i \in 1 .. Len(h)}
    BY <1>1, <1>2, RangeEquality
  <2>2. /\ \A i \in 1 .. Len(g) : i \in 1 .. Len(h) \/ i = Len(h) + 1
        /\ \A i \in 1 .. Len(h) : i \in 1 .. Len(g)
        /\ Len(h) + 1 \in 1 .. Len(g)
    BY <1>1, <1>2
  <2>3. Range(g) \subseteq Range(h) \cup {r}
    BY <1>2, <2>1, <2>2
  <2>4. Range(h) \cup {r} \subseteq Range(g)
    BY <1>2, <2>1, <2>2
  <2>. QED
    BY <2>3, <2>4
<1>. HIDE DEF g
<1>5. UpOK(g, Len(h) + 1)
  <2>1. ASSUME NEW k \in 2 .. Len(g), k # Len(h) + 1 PROVE Le(g[k], g[k \div 2])
    <3>1. k \in 2 .. Len(h) /\ k \in 1 .. Len(h) /\ k \div 2 \in 1 .. Len(h)
      BY <1>1, <1>2, <2>1, Half
    <3>. QED
      BY <1>2, <3>1 DEF Heap
  <2>2. ASSUME NEW k \in 2 .. Len(g) PROVE k \div 2 # Len(h) + 1
    <3>1. k \in Nat /\ k > 1 /\ k <= Len(h) + 1
      BY <1>1, <1>2
    <3>. QED
      BY <1>1, <3>1, Half
  <2>3. Len(h) + 1 \in 1 .. Len(g)
    BY <1>1, <1>2
  <2>. QED
    BY <2>1, <2>2, <2>3 DEF UpOK
<1>6. Permutes(SiftUp(g, Len(h) + 1), g) /\ Heap(SiftUp(g, Len(h) + 1))
  BY <1>2, <1>3, <1>5, SiftUpSorts DEF Array
<1>7. Push(h, r) = SiftUp(g, Len(h) + 1)
  BY DEF Push, g
<1>. QED
  BY <1>2, <1>4, <1>6, <1>7 DEF Permutes

(* pop. *)
LEMMA PopSorts ==
    ASSUME NEW h, Array(h), Heap(h), h # <<>>
    PROVE  /\ Array(Pop(h)) /\ Heap(Pop(h))
           /\ h[1] \in Requests /\ h[1] \in Range(h)
           /\ Len(Pop(h)) = Len(h) - 1 /\ Range(Pop(h)) = Range(h) \ {h[1]}
<1>. DEFINE n == Len(h)
            g == [Front(h) EXCEPT ![1] = h[n]]
<1>1. /\ h \in Seq(Requests) /\ n \in Nat /\ n > 0 /\ DOMAIN h = 1 .. n
      /\ \A i \in 1 .. n : h[i] \in Requests
      /\ Range(h) = {h[i] : i \in 1 .. n}
      /\ \A i, j \in 1 .. n : h[i] = h[j] => i = j
  BY ArrayFacts, EmptySeq DEF Array, IsInjective
<1>2. h[1] \in Requests /\ h[1] \in Range(h)
  BY <1>1
<1>3. CASE n = 1
  <2>1. Pop(h) = <<>>
    BY <1>3 DEF Pop
  <2>2. Array(<<>>) /\ Heap(<<>>) /\ Len(<<>>) = 0 /\ Range(<<>>) = {}
    BY DEF Array, Heap, IsInjective, Range
  <2>3. Range(h) \ {h[1]} = {}
    BY <1>1, <1>3
  <2>. QED
    BY <1>2, <1>3, <2>1, <2>2, <2>3
<1>4. CASE n # 1
  <2>1. n - 1 \in Nat /\ n - 1 > 0
    BY <1>1, <1>4
  <2>2. /\ Front(h) \in Seq(Requests) /\ Len(Front(h)) = n - 1
        /\ \A i \in 1 .. n - 1 : Front(h)[i] = h[i]
    BY <1>1, <2>1, SubSeqProperties DEF Front
  <2>3. /\ g \in Seq(Requests) /\ Len(g) = n - 1 /\ g[1] = h[n]
        /\ \A i \in 2 .. n - 1 : g[i] = h[i]
    <3>1. 1 \in 1 .. Len(Front(h)) /\ h[n] \in Requests
      BY <1>1, <2>1, <2>2
    <3>. QED
      BY <2>1, <2>2, <3>1, ExceptSeq
  <2>4. Pop(h) = SiftDownToBottom(g)
    BY <1>4 DEF Pop
  <2>. HIDE DEF g, n
  <2>5. DOMAIN g = 1 .. n - 1
    BY <2>3, LenProperties
  <2>6. IsInjective(g)
    <3>. SUFFICES ASSUME NEW a \in 1 .. n - 1, NEW b \in 1 .. n - 1, g[a] = g[b] PROVE a = b
      BY <2>5 DEF IsInjective
    <3>. DEFINE at(i) == IF i = 1 THEN n ELSE i
    <3>1. g[a] = h[at(a)] /\ g[b] = h[at(b)] /\ at(a) \in 1 .. n /\ at(b) \in 1 .. n
      BY <1>1, <2>1, <2>3
    <3>2. at(a) = at(b)
      BY <1>1, <3>1
    <3>. QED
      BY <2>1, <3>2
  <2>7. Range(g) = Range(h) \ {h[1]}
    <3>1. Range(g) = {g[i] : i \in 1 .. n - 1}
      BY <2>5 DEF Range
    <3>2. \A i \in 2 .. n : h[i] # h[1] /\ i \in 1 .. n
      BY <1>1, <2>1
    <3>3. ASSUME NEW x \in Range(g) PROVE x \in Range(h) \ {h[1]}
      <4>1. PICK i \in 1 .. n - 1 : x = g[i]
        BY <3>1, <3>3
      <4>2. n \in 2 .. n /\ (i = 1 \/ (i \in 2 .. n - 1 /\ i \in 2 .. n))
        BY <1>1, <2>1
      <4>. QED
        BY <1>1, <2>3, <3>2, <4>1, <4>2
    <3>4. ASSUME NEW x \in Range(h), x # h[1] PROVE x \in Range(g)
      <4>1. PICK i \in 1 .. n : x = h[i]
        BY <1>1, <3>4
      <4>2. i = n \/ (i \in 2 .. n - 1 /\ i \in 1 .. n - 1)
        BY <1>1, <3>4, <4>1
      <4>3. 1 \in 1 .. n - 1
        BY <2>1
      <4>. QED
        BY <2>3, <3>1, <4>1, <4>2, <4>3
    <3>. QED
      BY <3>3, <3>4
  <2>8. DownOK(g, 1)
    <3>1. ASSUME NEW k \in 2 .. Len(g), k \div 2 # 1 PROVE Le(g[k], g[k \div 2])
      <4>1. k \in 2 .. n - 1 /\ k \in 2 .. n /\ k \div 2 \in 2 .. n - 1
        BY <1>1, <2>1, <2>3, <3>1, Half
      <4>2. Le(h[k], h[k \div 2])
        BY <4>1 DEF Heap, n
      <4>. QED
        BY <2>3, <4>1, <4>2
    <3>. QED
      BY <2>1, <2>3, <3>1 DEF DownOK
  <2>9. Permutes(SiftDownToBottom(g), g) /\ Heap(SiftDownToBottom(g))
    BY <2>3, <2>6, <2>8, SiftDownSorts DEF Array
  <2>. QED
    BY <1>2, <2>3, <2>4, <2>7, <2>9 DEF Permutes, n
<1>. QED
  BY <1>3, <1>4

(* The root of a heap is served no later than any other entry. *)
LEMMA RootFirst ==
    ASSUME NEW h, Array(h), Heap(h)
    PROVE  \A k \in 1 .. Len(h) : Priority[h[1]] <= Priority[h[k]]
<1>. DEFINE T == {k \in 1 .. Len(h) : ~ Le(h[k], h[1])}
<1>1. Len(h) \in Nat /\ \A k \in 1 .. Len(h) : h[k] \in Requests
  BY ArrayFacts DEF Array
<1>2. T = {}
  <2>. SUFFICES ASSUME T # {} PROVE FALSE
    OBVIOUS
  <2>1. PICK k \in T : \A m \in T : k <= m
    <3>1. T \in SUBSET Nat
      BY <1>1
    <3>. HIDE DEF T
    <3>. QED
      BY <3>1, LeastNat
  <2>2. CASE k = 1
    BY <1>1, <2>1, <2>2, LeTotal
  <2>3. CASE k # 1
    <3>1. /\ k \in 2 .. Len(h) /\ k \div 2 \in 1 .. Len(h) /\ k \div 2 < k /\ 1 \in 1 .. Len(h)
      BY <1>1, <2>1, <2>3, Half
    <3>2. Le(h[k], h[k \div 2])
      BY <3>1 DEF Heap
    <3>3. k \div 2 \notin T
      BY <1>1, <2>1, <3>1
    <3>4. Le(h[k \div 2], h[1])
      BY <3>1, <3>3
    <3>5. Le(h[k], h[1])
      BY <1>1, <3>1, <3>2, <3>4, LeTotal
    <3>. QED
      BY <2>1, <3>5
  <2>. QED
    BY <2>2, <2>3
<1>. QED
  BY <1>2 DEF Le

-----------------------------------------------------------------------------
(* The scheduler that uses the array. *)

TypeOK ==
    /\ Array(heap)
    /\ running \in SUBSET Requests
    /\ done \in SUBSET Requests
    /\ admitting \in BOOLEAN
    /\ arrivals \in Seq(Requests)
    /\ admissions \in Seq(Requests)

(* schedule() reaps before it admits. *)
Reaped == running \cap done = {} /\ (admitting => done = {})

IInv == TypeOK /\ HeapOrder /\ Conserved /\ Reaped

(* HeapOrder is what the lemmas about the array call a heap. *)
LEMMA HeapIsOrdered == HeapOrder <=> Heap(heap)
  BY DEF HeapOrder, Heap

(* An appended element is in the range, and nothing else is new. *)
LEMMA AppendRange ==
    ASSUME NEW s \in Seq(Requests), NEW r \in Requests
    PROVE  /\ Append(s, r) \in Seq(Requests) /\ Len(Append(s, r)) = Len(s) + 1
           /\ Range(Append(s, r)) = Range(s) \cup {r}
<1>. DEFINE g == Append(s, r)
<1>1. /\ g \in Seq(Requests) /\ Len(g) = Len(s) + 1 /\ Len(s) \in Nat
      /\ \A i \in 1 .. Len(s) : g[i] = s[i]
      /\ g[Len(s) + 1] = r
  BY AppendProperties, LenProperties
<1>2. Range(g) = {g[i] : i \in 1 .. Len(g)} /\ Range(s) = {s[i] : i \in 1 .. Len(s)}
  BY <1>1, RangeEquality
<1>. HIDE DEF g
<1>3. /\ \A i \in 1 .. Len(g) : i \in 1 .. Len(s) \/ i = Len(s) + 1
      /\ \A i \in 1 .. Len(s) : i \in 1 .. Len(g)
      /\ Len(s) + 1 \in 1 .. Len(g)
  BY <1>1
<1>4. Range(g) \subseteq Range(s) \cup {r}
  BY <1>1, <1>2, <1>3
<1>5. Range(s) \cup {r} \subseteq Range(g)
  BY <1>1, <1>2, <1>3
<1>. QED
  BY <1>1, <1>4, <1>5 DEF g

(* The invariant holds initially. *)
LEMMA InvInit == Init => IInv
<1>. SUFFICES ASSUME Init PROVE IInv
  OBVIOUS
<1>1. Array(<<>>) /\ <<>> \in Seq(Requests) /\ Range(<<>>) = {} /\ Len(<<>>) = 0
  BY DEF Array, IsInjective, Range
<1>2. TypeOK
  BY <1>1 DEF Init, TypeOK
<1>3. HeapOrder
  BY <1>1 DEF Init, HeapOrder
<1>4. Conserved
  <2>1. heap = <<>> /\ arrivals = <<>> /\ admissions = <<>>
    BY DEF Init
  <2>2. {} = {} \cup {} /\ 0 = 0 + 0
    OBVIOUS
  <2>. QED
    BY <1>1, <2>1, <2>2, Zenon DEF Conserved
<1>5. Reaped
  BY DEF Init, Reaped
<1>. QED
  BY <1>2, <1>3, <1>4, <1>5 DEF IInv

(* add_request. *)
LEMMA AddKeeps ==
    ASSUME IInv, NEW r \in Requests, AddRequest(r)
    PROVE  IInv'
<1>1. TypeOK /\ Heap(heap) /\ Conserved /\ Reaped
  BY HeapIsOrdered DEF IInv
<1>2. r \notin Range(heap)
  BY <1>1 DEF AddRequest, Conserved
<1>3. /\ Array(heap') /\ Heap(heap') /\ Len(heap') = Len(heap) + 1
      /\ Range(heap') = Range(heap) \cup {r}
  BY <1>1, <1>2, PushSorts DEF AddRequest, TypeOK
<1>4. /\ arrivals' \in Seq(Requests) /\ Len(arrivals') = Len(arrivals) + 1
      /\ Range(arrivals') = Range(arrivals) \cup {r}
  BY <1>1, AppendRange DEF AddRequest, TypeOK
<1>5. Len(heap) \in Nat /\ Len(admissions) \in Nat /\ Len(arrivals) \in Nat
  BY <1>1, LenProperties DEF TypeOK, Array
<1>6. TypeOK' /\ Reaped'
  BY <1>1, <1>3, <1>4 DEF AddRequest, TypeOK, Reaped
<1>7. Conserved'
  <2>1. UNCHANGED admissions
    BY DEF AddRequest
  <2>2. Range(arrivals') = Range(heap') \cup Range(admissions')
    BY <1>1, <1>3, <1>4, <2>1 DEF Conserved
  <2>3. Len(arrivals') = Len(heap') + Len(admissions')
    BY <1>1, <1>3, <1>4, <1>5, <2>1 DEF Conserved
  <2>. QED
    BY <2>2, <2>3 DEF Conserved
<1>8. HeapOrder'
  BY <1>3 DEF HeapOrder, Heap
<1>. QED
  BY <1>6, <1>7, <1>8 DEF IInv

(* The admission of the root. *)
LEMMA AdmitKeeps ==
    ASSUME IInv, Admit
    PROVE  IInv'
<1>1. TypeOK /\ Heap(heap) /\ Conserved /\ Reaped /\ heap # <<>>
  BY HeapIsOrdered DEF IInv, Admit
<1>2. /\ Array(heap') /\ Heap(heap') /\ Len(heap') = Len(heap) - 1
      /\ Range(heap') = Range(heap) \ {heap[1]} /\ heap[1] \in Requests /\ heap[1] \in Range(heap)
  BY <1>1, PopSorts DEF Admit, TypeOK
<1>3. /\ admissions' \in Seq(Requests) /\ Len(admissions') = Len(admissions) + 1
      /\ Range(admissions') = Range(admissions) \cup {heap[1]}
  BY <1>1, <1>2, AppendRange DEF Admit, TypeOK
<1>4. Len(heap) \in Nat /\ Len(admissions) \in Nat /\ Len(arrivals) \in Nat
  BY <1>1, LenProperties DEF TypeOK, Array
<1>5. TypeOK' /\ Reaped'
  BY <1>1, <1>2, <1>3 DEF Admit, TypeOK, Reaped
<1>6. Conserved'
  <2>1. UNCHANGED arrivals
    BY DEF Admit
  <2>2. Range(arrivals') = Range(heap') \cup Range(admissions')
    BY <1>1, <1>2, <1>3, <2>1 DEF Conserved
  <2>3. Len(arrivals') = Len(heap') + Len(admissions')
    BY <1>1, <1>2, <1>3, <1>4, <2>1 DEF Conserved
  <2>. QED
    BY <2>2, <2>3 DEF Conserved
<1>7. HeapOrder'
  BY <1>2 DEF HeapOrder, Heap
<1>. QED
  BY <1>5, <1>6, <1>7 DEF IInv

(* The push-back of the root. *)
LEMMA FullFacts ==
    ASSUME IInv, AdmitFull
    PROVE  Array(heap') /\ Heap(heap') /\ Len(heap') = Len(heap) /\ Range(heap') = Range(heap)
<1>. DEFINE g == Pop(heap)
            r == heap[1]
<1>1. Array(heap) /\ Heap(heap) /\ heap # <<>> /\ Len(heap) \in Nat
  BY HeapIsOrdered, LenProperties DEF IInv, TypeOK, AdmitFull, Array
<1>2. /\ Array(g) /\ Heap(g) /\ Len(g) = Len(heap) - 1
      /\ Range(g) = Range(heap) \ {r} /\ r \in Requests /\ r \in Range(heap)
  BY <1>1, PopSorts
<1>3. heap' = Push(g, r)
  BY DEF AdmitFull
<1>. HIDE DEF g, r
<1>4. r \notin Range(g)
  BY <1>2
<1>5. Array(heap') /\ Heap(heap') /\ Len(heap') = Len(g) + 1 /\ Range(heap') = Range(g) \cup {r}
  BY <1>2, <1>3, <1>4, PushSorts
<1>. QED
  BY <1>1, <1>2, <1>5

(* The push-back of the root keeps the invariant. *)
LEMMA FullKeeps ==
    ASSUME IInv, AdmitFull
    PROVE  IInv'
<1>1. Array(heap') /\ Heap(heap') /\ Len(heap') = Len(heap) /\ Range(heap') = Range(heap)
  BY FullFacts
<1>2. HeapOrder'
  BY <1>1 DEF HeapOrder, Heap
<1>3. TypeOK' /\ Reaped' /\ Conserved'
  BY <1>1 DEF IInv, AdmitFull, TypeOK, Reaped, Conserved
<1>. QED
  BY <1>2, <1>3 DEF IInv

(* The steps that leave the array alone. *)
LEMMA OthersKeep ==
    ASSUME IInv, (\E r \in Requests : Finish(r)) \/ Schedule \/ AdmitDone
    PROVE  IInv'
<1>1. UNCHANGED <<heap, arrivals, admissions>>
  BY DEF Finish, Schedule, AdmitDone
<1>2. HeapOrder' /\ Conserved'
  BY <1>1 DEF IInv, HeapOrder, Conserved
<1>3. TypeOK /\ Reaped /\ Array(heap)'
  BY <1>1 DEF IInv, TypeOK, Array
<1>4. ASSUME NEW r \in Requests, Finish(r) PROVE TypeOK' /\ Reaped'
  BY <1>1, <1>3, <1>4 DEF TypeOK, Reaped, Finish
<1>5. CASE Schedule \/ AdmitDone
  <2>1. admitting' \in BOOLEAN /\ running' = running /\ (done' = {} \/ (~ admitting' /\ done' = done))
    BY <1>5, Zenon DEF Schedule, AdmitDone
  <2>2. TypeOK'
    BY <1>1, <1>3, <2>1 DEF TypeOK
  <2>3. Reaped'
    BY <1>3, <2>1 DEF Reaped
  <2>. QED
    BY <1>2, <2>2, <2>3 DEF IInv
<1>. QED
  BY <1>2, <1>4, <1>5 DEF IInv

(* Every step keeps the invariant. *)
LEMMA InvNext == IInv /\ [Next]_vars => IInv'
<1>. SUFFICES ASSUME IInv, [Next]_vars PROVE IInv'
  OBVIOUS
<1>1. CASE UNCHANGED vars
  BY <1>1 DEF vars, IInv, TypeOK, Array, HeapOrder, Conserved, Reaped
<1>2. CASE Next
  BY <1>2, AddKeeps, AdmitKeeps, FullKeeps, OthersKeep DEF Next
<1>. QED
  BY <1>1, <1>2

(* The inductive invariant of the queue holds in every reachable state. *)
THEOREM QueueKept == Spec => []IInv
<1>. QED
  BY InvInit, InvNext, PTL DEF Spec

(* scheduler.rs pops a request of least priority value, whatever the sequence
   of pushes, pops and push-backs before it: the array is a heap. *)
THEOREM RootIsNext == Spec => []HeapOrder
<1>1. IInv => HeapOrder
  BY DEF IInv
<1>. QED
  BY <1>1, QueueKept, PTL

(* No request is lost or duplicated between the heap and the batch. *)
THEOREM NothingLost == Spec => []Conserved
<1>1. IInv => Conserved
  BY DEF IInv
<1>. QED
  BY <1>1, QueueKept, PTL

-----------------------------------------------------------------------------
(* Refinement. *)

(* A new request arrives in the abstract queue. *)
LEMMA AddArrives ==
    ASSUME IInv, NEW r \in Requests, AddRequest(r)
    PROVE  Abstract!Arrive(r)
<1>1. TypeOK /\ Heap(heap) /\ Conserved
  BY HeapIsOrdered DEF IInv
<1>2. r \notin Range(arrivals) /\ r \notin Range(heap) /\ UNCHANGED <<running, done>>
  BY <1>1 DEF AddRequest, Conserved
<1>3. Range(heap') = Range(heap) \cup {r}
  BY <1>1, <1>2, PushSorts DEF AddRequest, TypeOK
<1>4. Range(arrivals') = Range(arrivals) \cup {r}
  BY <1>1, AppendRange DEF AddRequest, TypeOK
<1>. QED
  BY <1>2, <1>3, <1>4 DEF Abstract!Arrive

(* The root is a request the abstract queue may serve. *)
LEMMA AdmitServes ==
    ASSUME IInv, Admit
    PROVE  heap[1] \in Requests /\ Abstract!Serve(heap[1])
<1>1. TypeOK /\ Heap(heap) /\ Reaped /\ heap # <<>> /\ admitting
  BY HeapIsOrdered DEF IInv, Admit
<1>2. Range(heap') = Range(heap) \ {heap[1]} /\ heap[1] \in Requests /\ heap[1] \in Range(heap)
  BY <1>1, PopSorts DEF Admit, TypeOK
<1>3. \A q \in Range(heap) : Priority[heap[1]] <= Priority[q]
  <2>1. Range(heap) = {heap[k] : k \in 1 .. Len(heap)}
    BY <1>1, ArrayFacts DEF TypeOK, Array
  <2>. QED
    BY <1>1, <2>1, RootFirst DEF TypeOK
<1>4. /\ done = {} /\ done' = {} /\ UNCHANGED arrivals
      /\ running' = running \cup {heap[1]} /\ Cardinality(running) < MaxBatch
  BY <1>1 DEF Admit, Reaped
<1>5. running \cup done = running /\ (running \cup done)' = (running \cup done) \cup {heap[1]}
  BY <1>4
<1>6. Cardinality(running \cup done) < MaxBatch
  BY <1>4, <1>5
<1>7. UNCHANGED Range(arrivals)
  BY <1>4
<1>8. Abstract!Cardinality(running \cup done) < MaxBatch
  BY <1>6 DEF Cardinality, Abstract!Cardinality, IsFiniteSet, Abstract!IsFiniteSet
<1>. QED
  BY <1>2, <1>3, <1>5, <1>7, <1>8, Zenon DEF Abstract!Serve

(* schedule() lets the finished requests leave. *)
LEMMA ScheduleLeaves ==
    ASSUME IInv, Schedule
    PROVE  done \in SUBSET Requests /\ Abstract!Leave(done)
<1>1. /\ running \cap done = {} /\ done \in SUBSET Requests
      /\ done' = {} /\ UNCHANGED <<heap, running, arrivals>>
  BY DEF IInv, TypeOK, Reaped, Schedule
<1>2. (running \cup done)' = (running \cup done) \ done
  BY <1>1
<1>. QED
  BY <1>1, <1>2 DEF Abstract!Leave

(* Every step of the array is a step of the abstract queue, or none. *)
LEMMA StepRefines == IInv /\ [Next]_vars => [Abstract!ANext]_(Abstract!avars)
<1>. SUFFICES ASSUME IInv, [Next]_vars PROVE Abstract!ANext \/ UNCHANGED Abstract!avars
  OBVIOUS
<1>1. ASSUME NEW r \in Requests, AddRequest(r) PROVE Abstract!ANext
  BY <1>1, AddArrives DEF Abstract!ANext
<1>2. CASE Admit
  BY <1>2, AdmitServes DEF Abstract!ANext
<1>3. CASE Schedule
  BY <1>3, ScheduleLeaves DEF Abstract!ANext
<1>4. CASE AdmitFull
  <2>1. Range(heap') = Range(heap) /\ UNCHANGED <<running, done, arrivals>>
    BY <1>4, FullFacts DEF AdmitFull
  <2>. QED
    BY <2>1 DEF Abstract!avars
<1>5. ASSUME NEW r \in Requests, Finish(r) PROVE UNCHANGED Abstract!avars
  <2>1. UNCHANGED <<heap, arrivals>> /\ r \in running /\ running' = running \ {r} /\ done' = done \cup {r}
    BY <1>5 DEF Finish
  <2>2. (running \cup done)' = running \cup done
    BY <2>1
  <2>. QED
    BY <2>1, <2>2 DEF Abstract!avars
<1>6. CASE AdmitDone \/ UNCHANGED vars
  BY <1>6 DEF AdmitDone, vars, Abstract!avars
<1>. QED
  BY <1>1, <1>2, <1>3, <1>4, <1>5, <1>6 DEF Next

(* The binary heap, with its push-back of the entry popped from a full
   engine, implements the queue PriorityAdmission promises: a request arrives
   once, none is admitted while another outranks it, and at most MaxBatch run. *)
THEOREM QueueRefines == Spec => ImplementsPriorityAdmission
<1>1. Init => Abstract!AInit
  <2>1. Range(<<>>) = {}
    BY DEF Range
  <2>. QED
    BY <2>1 DEF Init, Abstract!AInit
<1>. QED
  BY <1>1, StepRefines, QueueKept, PTL DEF Spec, ImplementsPriorityAdmission, Abstract!ASpec
=============================================================================
