----------------------------- MODULE DataLemmas -----------------------------
(***************************************************************************)
(* What Retain returns, by induction on the length of the list, and sums   *)
(* over finite sets, by induction on their size.  The inductions search    *)
(* for a least counterexample: the theorem that a well-founded relation    *)
(* has minimal elements takes no operator as its parameter, so the provers *)
(* can use it.                                                             *)
(***************************************************************************)
EXTENDS Retain, Functions, FiniteSetTheorems, SequenceTheorems, WellFoundedInduction, TLAPS

(* A set of natural numbers that is not empty has a least element. *)
LEMMA LeastNat ==
    ASSUME NEW T \in SUBSET Nat, T # {}
    PROVE  \E n \in T : \A m \in T : n <= m
<1>1. PICK n \in T : \A m \in T : ~ (<<m, n>> \in OpToRel(<, Nat))
  BY NatLessThanWellFounded, WFMin, Zenon
<1>2. \A m \in T : ~ (m < n)
  BY <1>1 DEF OpToRel
<1>. QED
  BY <1>2

(* The table of what is kept of the first i elements, up to n. *)
Table(s, gone, n, f) ==
    /\ DOMAIN f = 0 .. n
    /\ f[0] = <<>>
    /\ \A i \in 1 .. n : f[i] = IF s[i] \in gone THEN f[i - 1] ELSE Append(f[i - 1], s[i])

(* There is such a table, for every n. *)
LEMMA TableExists ==
    ASSUME NEW S, NEW s \in Seq(S), NEW gone
    PROVE  \A n \in 0 .. Len(s) : \E f : Table(s, gone, n, f)
<1>. DEFINE T == {n \in 0 .. Len(s) : ~ \E f : Table(s, gone, n, f)}
<1>. SUFFICES ASSUME T # {} PROVE FALSE
  OBVIOUS
<1>0. Len(s) \in Nat
  BY LenProperties
<1>1. PICK n \in T : \A m \in T : n <= m
  <2>1. T \in SUBSET Nat
    BY <1>0
  <2>. HIDE DEF T
  <2>. QED
    BY <2>1, LeastNat
<1>2. CASE n = 0
  <2>1. Table(s, gone, 0, [i \in 0 .. 0 |-> <<>>])
    BY DEF Table
  <2>. QED
    BY <1>1, <1>2, <2>1
<1>3. CASE n > 0
  <2>1. n - 1 \in 0 .. Len(s) /\ n - 1 \notin T /\ n \in Nat
    BY <1>0, <1>1, <1>3
  <2>2. PICK g : Table(s, gone, n - 1, g)
    BY <2>1
  <2>. DEFINE f == [i \in 0 .. n |-> IF i = n THEN IF s[n] \in gone THEN g[n - 1] ELSE Append(g[n - 1], s[n])
                                     ELSE g[i]]
  <2>3. Table(s, gone, n, f)
    BY <1>3, <2>1, <2>2 DEF Table
  <2>. QED
    BY <1>1, <2>3
<1>. QED
  BY <1>0, <1>1, <1>2, <1>3

(* The recursive function of Retain is that table. *)
LEMMA RetainIsTable ==
    ASSUME NEW S, NEW s \in Seq(S), NEW gone
    PROVE  \E f : Table(s, gone, Len(s), f) /\ Retain(s, gone) = f[Len(s)]
<1>. DEFINE F(f) == [i \in 0 .. Len(s) |->
                        IF i = 0 THEN <<>>
                        ELSE IF s[i] \in gone THEN f[i - 1] ELSE Append(f[i - 1], s[i])]
            kept == CHOOSE f : f = F(f)
<1>0. Len(s) \in Nat
  BY LenProperties
<1>1. \E f : f = F(f)
  <2>1. PICK g : Table(s, gone, Len(s), g)
    BY <1>0, TableExists
  <2>2. g = [i \in 0 .. Len(s) |-> g[i]]
    BY <2>1 DEF Table
  <2>. QED
    BY <1>0, <2>1, <2>2 DEF Table
<1>2. kept = F(kept)
  BY <1>1
<1>3. Retain(s, gone) = kept[Len(s)]
  BY DEF Retain
<1>. HIDE DEF kept
<1>4. Table(s, gone, Len(s), kept)
  <2>1. DOMAIN kept = 0 .. Len(s)
    BY <1>2, Zenon
  <2>2. \A i \in 0 .. Len(s) :
           kept[i] = IF i = 0 THEN <<>>
                     ELSE IF s[i] \in gone THEN kept[i - 1] ELSE Append(kept[i - 1], s[i])
    BY <1>2, Zenon
  <2>. HIDE DEF F
  <2>3. kept[0] = <<>>
    BY <1>0, <2>2
  <2>4. \A i \in 1 .. Len(s) : i \in 0 .. Len(s) /\ i # 0
    BY <1>0
  <2>5. \A i \in 1 .. Len(s) : kept[i] = IF s[i] \in gone THEN kept[i - 1] ELSE Append(kept[i - 1], s[i])
    BY <2>2, <2>4, Zenon
  <2>. QED
    BY <2>1, <2>3, <2>5, Zenon DEF Table
<1>. QED
  BY <1>3, <1>4

(* Retain keeps the elements that do not go, and no other. *)
THEOREM RetainKeeps ==
    ASSUME NEW S, NEW s \in Seq(S), NEW gone
    PROVE  /\ Retain(s, gone) \in Seq(S)
           /\ Range(Retain(s, gone)) = Range(s) \ gone
           /\ Len(Retain(s, gone)) <= Len(s)
<1>0. Len(s) \in Nat
  BY LenProperties
<1>1. PICK f : Table(s, gone, Len(s), f) /\ Retain(s, gone) = f[Len(s)]
  BY RetainIsTable
<1>. DEFINE Ok(n) == /\ f[n] \in Seq(S) /\ Len(f[n]) <= n
                     /\ \A x : x \in Range(f[n]) <=> x \notin gone /\ \E j \in 1 .. n : x = s[j]
            T == {n \in 0 .. Len(s) : ~ Ok(n)}
<1>2. T = {}
  <2>. SUFFICES ASSUME T # {} PROVE FALSE
    OBVIOUS
  <2>1. PICK n \in T : \A m \in T : n <= m
    <3>1. T \in SUBSET Nat
      BY <1>0
    <3>. HIDE DEF T
    <3>. QED
      BY <3>1, LeastNat
  <2>2. CASE n = 0
    <3>1. f[0] = <<>>
      BY <1>1 DEF Table
    <3>2. Ok(0)
      BY <3>1 DEF Range
    <3>. QED
      BY <2>1, <2>2, <3>2
  <2>3. CASE n > 0
    <3>1. n \in 1 .. Len(s) /\ n - 1 \in 0 .. Len(s) /\ n - 1 \notin T
      BY <1>0, <2>1, <2>3
    <3>2. Ok(n - 1) /\ s[n] \in S
      BY <3>1
    <3>3. f[n] = IF s[n] \in gone THEN f[n - 1] ELSE Append(f[n - 1], s[n])
      BY <1>1, <3>1 DEF Table
    <3>4. CASE s[n] \in gone
      BY <2>1, <3>1, <3>2, <3>3, <3>4
    <3>5. CASE s[n] \notin gone
      <4>1. /\ f[n] \in Seq(S) /\ Len(f[n]) = Len(f[n - 1]) + 1
            /\ \A i \in 1 .. Len(f[n - 1]) : f[n][i] = f[n - 1][i]
            /\ f[n][Len(f[n - 1]) + 1] = s[n]
        BY <3>2, <3>3, <3>5, AppendProperties
      <4>2. Len(f[n - 1]) \in Nat /\ Len(f[n - 1]) <= n - 1
        BY <3>2, LenProperties
      <4>3. \A x : x \in Range(f[n]) <=> x = s[n] \/ x \in Range(f[n - 1])
        <5>1. /\ Range(f[n]) = {f[n][i] : i \in 1 .. Len(f[n])}
              /\ Range(f[n - 1]) = {f[n - 1][i] : i \in 1 .. Len(f[n - 1])}
          BY <3>2, <4>1, RangeEquality
        <5>2. \A i \in 1 .. Len(f[n]) : i \in 1 .. Len(f[n - 1]) \/ i = Len(f[n - 1]) + 1
          BY <4>1, <4>2
        <5>3. \A i \in 1 .. Len(f[n - 1]) : i \in 1 .. Len(f[n])
          BY <4>1, <4>2
        <5>4. Len(f[n - 1]) + 1 \in 1 .. Len(f[n])
          BY <4>1, <4>2
        <5>. QED
          BY <4>1, <5>1, <5>2, <5>3, <5>4, ZenonT(60)
      <4>4. \A x : x \in Range(f[n]) <=> x \notin gone /\ \E j \in 1 .. n : x = s[j]
        BY <3>1, <3>2, <3>5, <4>3
      <4>5. Ok(n)
        BY <3>1, <4>1, <4>2, <4>4
      <4>. QED
        BY <2>1, <4>5
    <3>. QED
      BY <3>4, <3>5
  <2>. QED
    BY <1>0, <2>1, <2>2, <2>3
<1>3. Ok(Len(s))
  <2>1. Len(s) \in 0 .. Len(s)
    BY <1>0
  <2>2. \A n \in 0 .. Len(s) : n \notin T => Ok(n)
    OBVIOUS
  <2>. HIDE DEF T
  <2>. QED
    BY <1>2, <2>1, <2>2, Zenon
<1>4. Range(s) = {s[j] : j \in 1 .. Len(s)}
  BY RangeEquality
<1>. QED
  BY <1>1, <1>3, <1>4

(* Appending a new element keeps a list free of repetitions. *)
LEMMA AppendKeepsInjective ==
    ASSUME NEW S, NEW s \in Seq(S), IsInjective(s), NEW x \in S, x \notin Range(s)
    PROVE  IsInjective(Append(s, x))
<1>1. Len(s) \in Nat /\ DOMAIN s = 1 .. Len(s)
  BY LenProperties
<1>2. /\ DOMAIN Append(s, x) = 1 .. Len(s) + 1
      /\ \A i \in 1 .. Len(s) : Append(s, x)[i] = s[i]
      /\ Append(s, x)[Len(s) + 1] = x
  BY AppendProperties, <1>1
<1>3. \A i \in 1 .. Len(s) : s[i] # x
  BY <1>1 DEF Range
<1>4. \A i \in 1 .. Len(s) + 1 : i \in 1 .. Len(s) \/ i = Len(s) + 1
  BY <1>1
<1>. QED
  BY <1>1, <1>2, <1>3, <1>4, Zenon DEF IsInjective

(* Retain keeps a list free of repetitions, and its first element first. *)
THEOREM RetainOrder ==
    ASSUME NEW S, NEW s \in Seq(S), NEW gone, IsInjective(s)
    PROVE  /\ IsInjective(Retain(s, gone))
           /\ s # <<>> /\ s[1] \notin gone => Retain(s, gone) # <<>> /\ Retain(s, gone)[1] = s[1]
<1>0. Len(s) \in Nat /\ DOMAIN s = 1 .. Len(s)
  BY LenProperties
<1>1. PICK f : Table(s, gone, Len(s), f) /\ Retain(s, gone) = f[Len(s)]
  BY RetainIsTable
<1>. DEFINE Ok(n) == /\ f[n] \in Seq(S) /\ IsInjective(f[n])
                     /\ \A x \in Range(f[n]) : \E j \in 1 .. n : x = s[j]
                     /\ n > 0 /\ s[1] \notin gone => Len(f[n]) > 0 /\ f[n][1] = s[1]
            T == {n \in 0 .. Len(s) : ~ Ok(n)}
<1>. HIDE DEF Ok
<1>2. T = {}
  <2>. SUFFICES ASSUME T # {} PROVE FALSE
    OBVIOUS
  <2>1. PICK n \in T : \A m \in T : n <= m
    <3>1. T \in SUBSET Nat
      BY <1>0
    <3>. HIDE DEF T
    <3>. QED
      BY <3>1, LeastNat
  <2>2. CASE n = 0
    <3>1. f[0] = <<>>
      BY <1>1 DEF Table
    <3>2. Ok(0)
      BY <3>1 DEF Range, IsInjective, Ok
    <3>. QED
      BY <2>1, <2>2, <3>2
  <2>3. CASE n > 0
    <3>1. n \in 1 .. Len(s) /\ n - 1 \in 0 .. Len(s) /\ n - 1 \notin T
      BY <1>0, <2>1, <2>3
    <3>2. /\ f[n - 1] \in Seq(S) /\ IsInjective(f[n - 1]) /\ s[n] \in S
          /\ \A x \in Range(f[n - 1]) : \E j \in 1 .. n - 1 : x = s[j]
          /\ n - 1 > 0 /\ s[1] \notin gone => Len(f[n - 1]) > 0 /\ f[n - 1][1] = s[1]
      BY <3>1 DEF Ok
    <3>3. f[n] = IF s[n] \in gone THEN f[n - 1] ELSE Append(f[n - 1], s[n])
      BY <1>1, <3>1 DEF Table
    <3>4. CASE s[n] \in gone
      <4>1. f[n] = f[n - 1] /\ (n = 1 => s[1] \in gone)
        BY <3>3, <3>4
      <4>2. \A j \in 1 .. n - 1 : j \in 1 .. n
        BY <3>1
      <4>3. Ok(n)
        BY <3>1, <3>2, <4>1, <4>2 DEF Ok
      <4>. QED
        BY <2>1, <4>3
    <3>5. CASE s[n] \notin gone
      <4>1. /\ f[n] \in Seq(S) /\ Len(f[n]) = Len(f[n - 1]) + 1
            /\ \A i \in 1 .. Len(f[n - 1]) : f[n][i] = f[n - 1][i]
            /\ f[n][Len(f[n - 1]) + 1] = s[n]
        BY <3>2, <3>3, <3>5, AppendProperties
      <4>2. Len(f[n - 1]) \in Nat
        BY <3>2, LenProperties
      <4>3. s[n] \notin Range(f[n - 1])
        <5>1. \A j \in 1 .. n - 1 : j \in 1 .. Len(s) /\ j # n
          BY <1>0, <3>1
        <5>. QED
          BY <1>0, <3>1, <3>2, <5>1, ZenonT(60) DEF IsInjective
      <4>4. IsInjective(f[n])
        BY <3>2, <3>3, <3>5, <4>3, AppendKeepsInjective
      <4>5. \A x \in Range(f[n]) : \E j \in 1 .. n : x = s[j]
        <5>1. /\ Range(f[n]) = {f[n][i] : i \in 1 .. Len(f[n])}
              /\ Range(f[n - 1]) = {f[n - 1][i] : i \in 1 .. Len(f[n - 1])}
          BY <3>2, <4>1, RangeEquality, SMTT(30)
        <5>2. \A i \in 1 .. Len(f[n]) : i \in 1 .. Len(f[n - 1]) \/ i = Len(f[n - 1]) + 1
          BY <4>1, <4>2
        <5>3. n \in 1 .. n /\ \A j \in 1 .. n - 1 : j \in 1 .. n
          BY <3>1
        <5>4. \A x \in Range(f[n]) : x = s[n] \/ x \in Range(f[n - 1])
          BY <4>1, <5>1, <5>2, Zenon
        <5>. QED
          BY <3>2, <5>3, <5>4, Zenon
      <4>6. s[1] \notin gone => Len(f[n]) > 0 /\ f[n][1] = s[1]
        <5>1. CASE n = 1
          <6>1. f[0] = <<>>
            BY <1>1 DEF Table
          <6>2. Len(f[n - 1]) = 0
            BY <5>1, <6>1
          <6>. QED
            BY <4>1, <5>1, <6>2
        <5>2. CASE n # 1
          BY <3>1, <3>2, <4>1, <4>2, <5>2
        <5>. QED
          BY <5>1, <5>2
      <4>7. Ok(n)
        BY <4>1, <4>4, <4>5, <4>6 DEF Ok
      <4>. QED
        BY <2>1, <4>7
    <3>. QED
      BY <3>4, <3>5
  <2>. QED
    BY <1>0, <2>1, <2>2, <2>3
<1>3. Ok(Len(s))
  BY <1>0, <1>2
<1>4. s # <<>> => Len(s) > 0
  BY <1>0, EmptySeq
<1>. QED
  BY <1>0, <1>1, <1>3, <1>4, EmptySeq DEF Ok

(* A list without its element at a position. *)
Without(s, i) == SubSeq(s, 1, i - 1) \o SubSeq(s, i + 1, Len(s))

(* The same for taking out the element at a position. *)
THEOREM TakingOut ==
    ASSUME NEW S, NEW s \in Seq(S), IsInjective(s), NEW i \in 1 .. Len(s)
    PROVE  /\ Without(s, i) \in Seq(S)
           /\ Len(Without(s, i)) = Len(s) - 1
           /\ IsInjective(Without(s, i))
           /\ Range(Without(s, i)) = Range(s) \ {s[i]}
<1>. DEFINE t == Without(s, i)
            a == SubSeq(s, 1, i - 1)
            b == SubSeq(s, i + 1, Len(s))
<1>0. Len(s) \in Nat /\ DOMAIN s = 1 .. Len(s) /\ i \in Nat /\ i >= 1 /\ i <= Len(s)
  BY LenProperties
<1>1. a \in Seq(S) /\ Len(a) = i - 1 /\ \A j \in 1 .. i - 1 : a[j] = s[j]
  <2>1. i - 1 \in Int /\ 1 \in Int /\ \A k \in 1 .. i - 1 : s[k] \in S
    <3>1. \A k \in 1 .. i - 1 : k \in 1 .. Len(s)
      BY <1>0
    <3>. QED
      BY <1>0, <3>1, ElementOfSeq
  <2>2. a \in Seq(S) /\ Len(a) = (IF 1 <= i - 1 THEN (i - 1) - 1 + 1 ELSE 0)
        /\ \A j \in 1 .. (i - 1) - 1 + 1 : a[j] = s[1 + j - 1]
    BY <2>1, SubSeqProperties
  <2>. HIDE DEF a
  <2>3. \A j \in 1 .. i - 1 : j \in 1 .. (i - 1) - 1 + 1 /\ 1 + j - 1 = j
    BY <1>0
  <2>. QED
    BY <1>0, <2>2, <2>3
<1>2. b \in Seq(S) /\ Len(b) = Len(s) - i /\ \A j \in 1 .. Len(s) - i : b[j] = s[j + i]
  <2>1. i + 1 \in Int /\ Len(s) \in Int /\ \A k \in i + 1 .. Len(s) : s[k] \in S
    <3>1. \A k \in i + 1 .. Len(s) : k \in 1 .. Len(s)
      BY <1>0
    <3>. QED
      BY <1>0, <3>1, ElementOfSeq
  <2>2. b \in Seq(S) /\ Len(b) = (IF i + 1 <= Len(s) THEN Len(s) - (i + 1) + 1 ELSE 0)
        /\ \A j \in 1 .. Len(s) - (i + 1) + 1 : b[j] = s[(i + 1) + j - 1]
    BY <2>1, SubSeqProperties
  <2>. HIDE DEF b
  <2>3. \A j \in 1 .. Len(s) - i : j \in 1 .. Len(s) - (i + 1) + 1 /\ (i + 1) + j - 1 = j + i
    BY <1>0
  <2>4. Len(b) = Len(s) - i
    <3>1. Len(b) = (IF i + 1 <= Len(s) THEN Len(s) - (i + 1) + 1 ELSE 0)
      BY <2>2
    <3>2. \A n \in Nat : \A k \in 1 .. n : (IF k + 1 <= n THEN n - (k + 1) + 1 ELSE 0) = n - k
      OBVIOUS
    <3>3. (IF i + 1 <= Len(s) THEN Len(s) - (i + 1) + 1 ELSE 0) = Len(s) - i
      BY <1>0, <3>2
    <3>. QED
      BY <3>1, <3>3
  <2>5. \A j \in 1 .. Len(s) - i : b[j] = s[j + i]
    BY <2>2, <2>3
  <2>. QED
    BY <2>2, <2>4, <2>5
<1>. HIDE DEF a, b
<1>3. /\ t \in Seq(S) /\ Len(t) = Len(s) - 1 /\ DOMAIN t = 1 .. Len(s) - 1
      /\ \A j \in 1 .. Len(s) - 1 : t[j] = IF j < i THEN s[j] ELSE s[j + 1]
  <2>0. t = a \o b
    BY DEF a, b, Without
  <2>. HIDE DEF t
  <2>1. t \in Seq(S) /\ Len(t) = Len(a) + Len(b)
        /\ \A j \in 1 .. Len(a) + Len(b) : t[j] = IF j <= Len(a) THEN a[j] ELSE b[j - Len(a)]
    <3>1. a \in Seq(S) /\ b \in Seq(S)
      BY <1>1, <1>2
    <3>2. /\ a \o b \in Seq(S)
          /\ Len(a \o b) = Len(a) + Len(b)
          /\ \A j \in 1 .. Len(a) + Len(b) : (a \o b)[j] = IF j <= Len(a) THEN a[j] ELSE b[j - Len(a)]
      BY <3>1, ConcatProperties
    <3>. QED
      BY <2>0, <3>2, Zenon
  <2>2. Len(t) = Len(s) - 1
    BY <1>0, <1>1, <1>2, <2>1
  <2>3. ASSUME NEW j \in 1 .. Len(s) - 1 PROVE t[j] = IF j < i THEN s[j] ELSE s[j + 1]
    <3>1. t[j] = IF j <= i - 1 THEN a[j] ELSE b[j - (i - 1)]
      <4>1. j \in 1 .. Len(a) + Len(b) /\ Len(a) = i - 1
        BY <1>0, <1>1, <1>2
      <4>. QED
        BY <2>1, <4>1
    <3>2. CASE j < i
      <4>1. j \in 1 .. i - 1 /\ j <= i - 1
        BY <1>0, <3>2
      <4>. QED
        BY <1>1, <3>1, <3>2, <4>1, Zenon
    <3>3. CASE ~ (j < i)
      <4>1. j - (i - 1) \in 1 .. Len(s) - i /\ ~ (j <= i - 1) /\ (j - (i - 1)) + i = j + 1
        BY <1>0, <3>3
      <4>. QED
        BY <1>2, <3>1, <3>3, <4>1
    <3>. QED
      BY <3>2, <3>3
  <2>. QED
    BY <2>1, <2>2, <2>3, LenProperties
<1>. HIDE DEF t
<1>4. \A j \in 1 .. Len(s) - 1 : \E k \in 1 .. Len(s) : k # i /\ t[j] = s[k] /\ (j < i => k = j) /\ (j >= i => k = j + 1)
  <2>1. ASSUME NEW j \in 1 .. Len(s) - 1
        PROVE  \E k \in 1 .. Len(s) : k # i /\ t[j] = s[k] /\ (j < i => k = j) /\ (j >= i => k = j + 1)
    <3>. DEFINE k == IF j < i THEN j ELSE j + 1
    <3>1. k \in 1 .. Len(s) /\ k # i /\ (j < i => k = j) /\ (j >= i => k = j + 1)
      BY <1>0
    <3>2. t[j] = s[k]
      BY <1>3
    <3>. QED
      BY <3>1, <3>2
  <2>. QED
    BY <2>1
<1>5. IsInjective(t)
  <2>1. SUFFICES ASSUME NEW j1 \in 1 .. Len(s) - 1, NEW j2 \in 1 .. Len(s) - 1, t[j1] = t[j2] PROVE j1 = j2
    BY <1>3 DEF IsInjective
  <2>2. PICK k1 \in 1 .. Len(s) : k1 # i /\ t[j1] = s[k1] /\ (j1 < i => k1 = j1) /\ (j1 >= i => k1 = j1 + 1)
    BY <1>4
  <2>3. PICK k2 \in 1 .. Len(s) : k2 # i /\ t[j2] = s[k2] /\ (j2 < i => k2 = j2) /\ (j2 >= i => k2 = j2 + 1)
    BY <1>4
  <2>4. k1 = k2
    BY <1>0, <2>1, <2>2, <2>3 DEF IsInjective
  <2>. QED
    BY <1>0, <2>2, <2>3, <2>4
<1>6. \A x : x \in Range(t) <=> x \in Range(s) \ {s[i]}
  <2>0. /\ \A x : x \in Range(t) <=> \E j \in 1 .. Len(s) - 1 : x = t[j]
        /\ \A x : x \in Range(s) <=> \E k \in 1 .. Len(s) : x = s[k]
    BY <1>0, <1>3 DEF Range
  <2>1. ASSUME NEW j \in 1 .. Len(s) - 1 PROVE t[j] \in Range(s) \ {s[i]}
    <3>1. PICK k \in 1 .. Len(s) : k # i /\ t[j] = s[k]
      BY <1>4
    <3>2. s[k] # s[i]
      BY <1>0, <3>1 DEF IsInjective
    <3>. QED
      BY <2>0, <3>1, <3>2
  <2>2. ASSUME NEW k \in 1 .. Len(s), s[k] # s[i] PROVE \E j \in 1 .. Len(s) - 1 : s[k] = t[j]
    <3>1. CASE k < i
      <4>1. k \in 1 .. Len(s) - 1
        BY <1>0, <3>1
      <4>. QED
        BY <1>3, <3>1, <4>1
    <3>2. CASE k > i
      <4>1. k - 1 \in 1 .. Len(s) - 1 /\ ~ (k - 1 < i) /\ (k - 1) + 1 = k
        BY <1>0, <3>2
      <4>2. t[k - 1] = s[k]
        BY <1>3, <4>1
      <4>. QED
        BY <4>1, <4>2
    <3>3. k < i \/ k > i
      <4>1. k # i
        BY <2>2
      <4>. QED
        BY <1>0, <4>1
    <3>. QED
      BY <3>1, <3>2, <3>3, Zenon
  <2>3. ASSUME NEW x, x \in Range(t) PROVE x \in Range(s) \ {s[i]}
    <3>1. PICK j \in 1 .. Len(s) - 1 : x = t[j]
      BY <2>0, <2>3
    <3>. QED
      BY <2>1, <3>1
  <2>4. ASSUME NEW x, x \in Range(s) \ {s[i]} PROVE x \in Range(t)
    <3>1. PICK k \in 1 .. Len(s) : x = s[k]
      BY <2>0, <2>4
    <3>. QED
      BY <2>0, <2>2, <2>4, <3>1
  <2>. QED
    BY <2>3, <2>4
<1>7. Range(t) = Range(s) \ {s[i]}
  BY <1>6
<1>. QED
  BY <1>3, <1>5, <1>7 DEF t

-----------------------------------------------------------------------------
(* Sums over finite sets: SumFunctionOnSet takes the elements one by one, in
   an order of its own; the result does not depend on it. *)

First(s) == CHOOSE x \in s : TRUE

(* g has the sums over the subsets of S of at most n elements. *)
Sums(f, S, n, g) ==
    \A s \in SUBSET S : Cardinality(s) <= n =>
        g[s] = IF s = {} THEN 0 ELSE f[First(s)] + g[s \ {First(s)}]

(* What taking the first element leaves. *)
LEMMA FirstTaken ==
    ASSUME NEW S, IsFiniteSet(S), NEW s \in SUBSET S
    PROVE  /\ IsFiniteSet(s) /\ Cardinality(s) \in Nat
           /\ Cardinality(s) = 0 <=> s = {}
           /\ s # {} => First(s) \in s
           /\ \A x \in s : /\ s \ {x} \in SUBSET S
                           /\ Cardinality(s \ {x}) = Cardinality(s) - 1
<1>1. IsFiniteSet(s)
  BY FS_Subset
<1>2. Cardinality(s) \in Nat /\ (Cardinality(s) = 0 <=> s = {})
  BY <1>1, FS_CardinalityType, FS_EmptySet
<1>3. s # {} => First(s) \in s
  BY DEF First
<1>4. \A x \in s : Cardinality(s \ {x}) = Cardinality(s) - 1
  BY <1>1, FS_RemoveElement
<1>. QED
  BY <1>1, <1>2, <1>3, <1>4

(* There are such sums for every n. *)
LEMMA SumsExist ==
    ASSUME NEW S, IsFiniteSet(S), NEW f
    PROVE  \A n \in Nat : \E g : DOMAIN g = SUBSET S /\ g = [s \in SUBSET S |-> g[s]] /\ Sums(f, S, n, g)
<1>. DEFINE Ok(n, g) == DOMAIN g = SUBSET S /\ g = [s \in SUBSET S |-> g[s]] /\ Sums(f, S, n, g)
            T == {n \in Nat : ~ \E g : Ok(n, g)}
<1>. SUFFICES ASSUME T # {} PROVE FALSE
  OBVIOUS
<1>1. PICK n \in T : \A m \in T : n <= m
  <2>1. T \in SUBSET Nat
    OBVIOUS
  <2>. HIDE DEF T
  <2>. QED
    BY <2>1, LeastNat
<1>2. PICK g : n > 0 => Ok(n - 1, g)
  <2>1. CASE n > 0
    <3>1. n \in Nat /\ n - 1 \in Nat /\ ~ (n <= n - 1)
      BY <1>1, <2>1
    <3>2. \E g : Ok(n - 1, g)
      BY <1>1, <3>1, Zenon
    <3>. QED
      BY <3>2
  <2>2. CASE ~ (n > 0)
    BY <2>2
  <2>. QED
    BY <2>1, <2>2
<1>. DEFINE h == [s \in SUBSET S |-> IF Cardinality(s) = n
                                     THEN IF s = {} THEN 0 ELSE f[First(s)] + g[s \ {First(s)}]
                                     ELSE g[s]]
<1>3. Sums(f, S, n, h)
  <2>. SUFFICES ASSUME NEW s \in SUBSET S, Cardinality(s) <= n
                PROVE  h[s] = IF s = {} THEN 0 ELSE f[First(s)] + h[s \ {First(s)}]
    BY DEF Sums
  <2>1. /\ Cardinality(s) \in Nat /\ (Cardinality(s) = 0 <=> s = {}) /\ (s # {} => First(s) \in s)
        /\ \A x \in s : s \ {x} \in SUBSET S /\ Cardinality(s \ {x}) = Cardinality(s) - 1
    BY FirstTaken
  <2>2. s # {} => s \ {First(s)} \in SUBSET S /\ Cardinality(s \ {First(s)}) = Cardinality(s) - 1
    BY <2>1
  <2>3. s # {} => h[s \ {First(s)}] = g[s \ {First(s)}]
    BY <2>1, <2>2
  <2>4. CASE Cardinality(s) = n
    BY <2>3, <2>4
  <2>5. CASE Cardinality(s) # n
    <3>1. n > 0 /\ Cardinality(s) <= n - 1
      BY <2>1, <2>5
    <3>2. g[s] = IF s = {} THEN 0 ELSE f[First(s)] + g[s \ {First(s)}]
      BY <1>2, <3>1 DEF Sums
    <3>. QED
      BY <2>3, <2>5, <3>2
  <2>. QED
    BY <2>4, <2>5
<1>4. Ok(n, h)
  <2>1. DOMAIN h = SUBSET S /\ h = [s \in SUBSET S |-> h[s]]
    OBVIOUS
  <2>. HIDE DEF h
  <2>. QED
    BY <1>3, <2>1
<1>. QED
  BY <1>1, <1>4

(* The sums over all subsets of S; SumFunctionOnSet is one of them. *)
LEMMA SumIsTable ==
    ASSUME NEW S, IsFiniteSet(S), NEW f
    PROVE  \E g : Sums(f, S, Cardinality(S), g) /\ SumFunctionOnSet(f, S) = g[S]
<1>. DEFINE F(g) == [s \in SUBSET S |-> IF s = {} THEN 0
                                        ELSE LET x == CHOOSE x \in s : TRUE IN f[x] + g[s \ {x}]]
            iter == CHOOSE g : g = F(g)
<1>1. \A s \in SUBSET S : Cardinality(s) <= Cardinality(S)
  BY FS_Subset
<1>2. Cardinality(S) \in Nat
  BY FS_CardinalityType
<1>3. \E g : g = F(g)
  <2>1. PICK g : /\ DOMAIN g = SUBSET S /\ g = [s \in SUBSET S |-> g[s]]
                 /\ Sums(f, S, Cardinality(S), g)
    BY <1>2, SumsExist
  <2>2. \A s \in SUBSET S : g[s] = IF s = {} THEN 0 ELSE f[First(s)] + g[s \ {First(s)}]
    BY <1>1, <2>1 DEF Sums
  <2>3. g = F(g)
    BY <2>1, <2>2, Zenon DEF First
  <2>. QED
    BY <2>3
<1>4. iter = F(iter)
  BY <1>3
<1>5. SumFunctionOnSet(f, S) = iter[S]
  BY DEF SumFunctionOnSet, FoldFunctionOnSet, MapThenFoldSet
<1>. HIDE DEF iter
<1>6. \A s \in SUBSET S : iter[s] = IF s = {} THEN 0 ELSE f[First(s)] + iter[s \ {First(s)}]
  BY <1>4, Zenon DEF First
<1>7. Sums(f, S, Cardinality(S), iter)
  BY <1>6 DEF Sums
<1>. QED
  BY <1>5, <1>7

(* The sum over a subset is found in the sums over the subsets of S. *)
LEMMA SumOfSubset ==
    ASSUME NEW S, IsFiniteSet(S), NEW f, NEW g, Sums(f, S, Cardinality(S), g), NEW t \in SUBSET S
    PROVE  SumFunctionOnSet(f, t) = g[t]
<1>1. IsFiniteSet(t) /\ Cardinality(t) <= Cardinality(S) /\ Cardinality(t) \in Nat /\ Cardinality(S) \in Nat
  BY FS_Subset, FS_CardinalityType
<1>2. PICK h : Sums(f, t, Cardinality(t), h) /\ SumFunctionOnSet(f, t) = h[t]
  BY <1>1, SumIsTable
<1>. DEFINE Differ(n) == \E s \in SUBSET t : Cardinality(s) = n /\ h[s] # g[s]
            T == {n \in Nat : Differ(n)}
<1>3. T = {}
  <2>. SUFFICES ASSUME T # {} PROVE FALSE
    OBVIOUS
  <2>1. PICK n \in T : \A m \in T : n <= m
    <3>1. T \in SUBSET Nat
      OBVIOUS
    <3>. HIDE DEF T
    <3>. QED
      BY <3>1, LeastNat
  <2>2. PICK s \in SUBSET t : Cardinality(s) = n /\ h[s] # g[s]
    BY <2>1
  <2>3. s \in SUBSET S /\ Cardinality(s) <= Cardinality(t) /\ Cardinality(s) <= Cardinality(S) /\ n \in Nat
    BY <1>1, <2>1, FS_Subset
  <2>4. /\ h[s] = IF s = {} THEN 0 ELSE f[First(s)] + h[s \ {First(s)}]
        /\ g[s] = IF s = {} THEN 0 ELSE f[First(s)] + g[s \ {First(s)}]
    BY <1>2, <2>3 DEF Sums
  <2>5. s # {} /\ h[s \ {First(s)}] # g[s \ {First(s)}]
    BY <2>2, <2>4
  <2>6. s \ {First(s)} \in SUBSET t /\ Cardinality(s \ {First(s)}) = n - 1 /\ n # 0
    BY <1>1, <2>2, <2>5, FirstTaken
  <2>7. n - 1 \in Nat /\ ~ (n <= n - 1)
    BY <2>3, <2>6
  <2>8. Differ(n - 1)
    BY <2>5, <2>6
  <2>. HIDE DEF Differ
  <2>. QED
    BY <2>1, <2>7, <2>8
<1>4. h[t] = g[t]
  BY <1>1, <1>3
<1>. QED
  BY <1>2, <1>4

(* Any element may be taken first. *)
LEMMA SumTakes ==
    ASSUME NEW S, IsFiniteSet(S), NEW f, \A x \in S : f[x] \in Nat
    PROVE  /\ SumFunctionOnSet(f, S) \in Nat
           /\ \A x \in S : SumFunctionOnSet(f, S) = f[x] + SumFunctionOnSet(f, S \ {x})
           /\ S = {} => SumFunctionOnSet(f, S) = 0
<1>0. Cardinality(S) \in Nat
  BY FS_CardinalityType
<1>1. PICK g : Sums(f, S, Cardinality(S), g) /\ SumFunctionOnSet(f, S) = g[S]
  BY SumIsTable
<1>. DEFINE Ok(s) == g[s] \in Nat /\ \A x \in s : g[s] = f[x] + g[s \ {x}]
            Bad(n) == \E s \in SUBSET S : Cardinality(s) = n /\ ~ Ok(s)
            T == {n \in Nat : Bad(n)}
<1>2. T = {}
  <2>. SUFFICES ASSUME T # {} PROVE FALSE
    OBVIOUS
  <2>1. PICK n \in T : \A m \in T : n <= m
    <3>1. T \in SUBSET Nat
      OBVIOUS
    <3>. HIDE DEF T
    <3>. QED
      BY <3>1, LeastNat
  <2>2. PICK s \in SUBSET S : Cardinality(s) = n /\ ~ Ok(s)
    BY <2>1
  <2>3. n \in Nat /\ \A m \in Nat : m < n => ~ Bad(m)
    <3>. HIDE DEF Bad
    <3>. QED
      BY <2>1
  <2>4. /\ IsFiniteSet(s) /\ (s # {} => First(s) \in s)
        /\ \A x \in s : s \ {x} \in SUBSET S /\ Cardinality(s \ {x}) = n - 1
        /\ Cardinality(s) <= Cardinality(S)
    BY <2>2, FirstTaken, FS_Subset
  <2>5. g[s] = IF s = {} THEN 0 ELSE f[First(s)] + g[s \ {First(s)}]
    BY <1>1, <2>4 DEF Sums
  <2>6. ASSUME NEW u \in SUBSET S, Cardinality(u) < n, Cardinality(u) \in Nat PROVE Ok(u)
    BY <2>3, <2>6
  <2>. HIDE DEF Ok
  <2>7. CASE s = {}
    BY <2>2, <2>5, <2>7 DEF Ok
  <2>8. CASE s # {}
    <3>. DEFINE y == First(s)
    <3>1. y \in s /\ y \in S /\ f[y] \in Nat /\ Cardinality(s \ {y}) = n - 1 /\ s \ {y} \in SUBSET S
      BY <2>4, <2>8
    <3>2. n - 1 \in Nat /\ n - 1 < n
      <4>1. Cardinality(s \ {y}) \in Nat
        BY <3>1, FirstTaken
      <4>. QED
        BY <2>3, <3>1, <4>1
    <3>3. Ok(s \ {y})
      BY <2>6, <3>1, <3>2
    <3>4. g[s] = f[y] + g[s \ {y}]
      BY <2>5, <2>8
    <3>. HIDE DEF y
    <3>5. g[s] \in Nat
      BY <3>1, <3>3, <3>4 DEF Ok
    <3>6. ASSUME NEW x \in s PROVE g[s] = f[x] + g[s \ {x}]
      <4>1. CASE x = y
        BY <3>4, <4>1
      <4>2. CASE x # y
        <5>1. x \in s \ {y} /\ y \in s \ {x} /\ f[x] \in Nat
          BY <3>1, <4>2
        <5>2. g[s \ {y}] = f[x] + g[(s \ {y}) \ {x}]
          BY <3>3, <5>1 DEF Ok
        <5>3. s \ {x} \in SUBSET S /\ Cardinality(s \ {x}) = n - 1
          BY <2>4
        <5>4. Ok(s \ {x})
          BY <2>6, <3>2, <5>3
        <5>5. g[s \ {x}] = f[y] + g[(s \ {x}) \ {y}]
          BY <5>1, <5>4 DEF Ok
        <5>6. (s \ {x}) \ {y} = (s \ {y}) \ {x}
          OBVIOUS
        <5>7. g[(s \ {x}) \ {y}] \in Nat
          <6>1. s \ {x} \in SUBSET S /\ IsFiniteSet(s \ {x})
            BY <5>3, FirstTaken
          <6>2. Cardinality((s \ {x}) \ {y}) = n - 2 /\ Cardinality((s \ {x}) \ {y}) \in Nat
            <7>. DEFINE u == s \ {x}
            <7>0. u \in SUBSET S /\ y \in u
              BY <5>1, <6>1
            <7>1. Cardinality(u \ {y}) = Cardinality(u) - 1 /\ u \ {y} \in SUBSET S
              <8>. HIDE DEF u
              <8>. QED
                BY <7>0, FirstTaken
            <7>2. Cardinality((s \ {x}) \ {y}) \in Nat
              BY <7>1, FirstTaken
            <7>. QED
              BY <2>3, <5>3, <7>1, <7>2
          <6>3. (s \ {x}) \ {y} \in SUBSET S
            BY <6>1
          <6>4. Ok((s \ {x}) \ {y})
            BY <2>3, <2>6, <6>2, <6>3
          <6>. QED
            BY <6>4 DEF Ok
        <5>. DEFINE a == g[s \ {y}]
                    b == g[s \ {x}]
                    c == g[(s \ {x}) \ {y}]
        <5>8. /\ g[s] = f[y] + a /\ a = f[x] + c /\ b = f[y] + c
              /\ c \in Nat /\ f[x] \in Nat /\ f[y] \in Nat
          BY <3>1, <3>4, <5>1, <5>2, <5>5, <5>6, <5>7, Zenon
        <5>9. g[s] = f[x] + b
          <6>. HIDE DEF a, b, c
          <6>. QED
            BY <5>8
        <5>. QED
          BY <5>9
      <4>. QED
        BY <4>1, <4>2
    <3>. QED
      BY <2>2, <3>5, <3>6 DEF Ok
  <2>. QED
    BY <2>7, <2>8
<1>3. Ok(S)
  BY <1>0, <1>2
<1>4. \A x \in S : SumFunctionOnSet(f, S \ {x}) = g[S \ {x}]
  BY <1>1, SumOfSubset
<1>5. S = {} => SumFunctionOnSet(f, S) = 0
  <2>1. g[S] = IF S = {} THEN 0 ELSE f[First(S)] + g[S \ {First(S)}]
    BY <1>0, <1>1 DEF Sums
  <2>. QED
    BY <1>1, <2>1
<1>. QED
  BY <1>1, <1>3, <1>4, <1>5

(* Greater terms have a greater sum. *)
LEMMA SumMonotonic ==
    ASSUME NEW S, IsFiniteSet(S), NEW f, NEW h, \A x \in S : f[x] \in Nat /\ h[x] \in Nat /\ f[x] <= h[x]
    PROVE  SumFunctionOnSet(f, S) <= SumFunctionOnSet(h, S)
<1>0. Cardinality(S) \in Nat
  BY FS_CardinalityType
<1>. DEFINE Ok(s) == SumFunctionOnSet(f, s) <= SumFunctionOnSet(h, s)
            Bad(n) == \E s \in SUBSET S : Cardinality(s) = n /\ ~ Ok(s)
            T == {n \in Nat : Bad(n)}
<1>1. T = {}
  <2>. SUFFICES ASSUME T # {} PROVE FALSE
    OBVIOUS
  <2>1. PICK n \in T : \A m \in T : n <= m
    <3>1. T \in SUBSET Nat
      OBVIOUS
    <3>. HIDE DEF T
    <3>. QED
      BY <3>1, LeastNat
  <2>2. PICK s \in SUBSET S : Cardinality(s) = n /\ ~ Ok(s)
    BY <2>1
  <2>3. n \in Nat /\ \A m \in Nat : m < n => ~ Bad(m)
    <3>. HIDE DEF Bad
    <3>. QED
      BY <2>1
  <2>4. /\ IsFiniteSet(s)
        /\ \A x \in s : s \ {x} \in SUBSET S /\ Cardinality(s \ {x}) = n - 1
    BY <2>2, FirstTaken
  <2>5. /\ \A x \in s : /\ SumFunctionOnSet(f, s) = f[x] + SumFunctionOnSet(f, s \ {x})
                        /\ SumFunctionOnSet(h, s) = h[x] + SumFunctionOnSet(h, s \ {x})
        /\ s = {} => SumFunctionOnSet(f, s) = 0 /\ SumFunctionOnSet(h, s) = 0
    BY <2>4, SumTakes
  <2>6. CASE s = {}
    BY <2>2, <2>5, <2>6
  <2>7. CASE s # {}
    <3>1. PICK x \in s : TRUE
      BY <2>7
    <3>2. s \ {x} \in SUBSET S /\ Cardinality(s \ {x}) = n - 1 /\ Cardinality(s \ {x}) \in Nat
          /\ IsFiniteSet(s \ {x})
      BY <2>4, FirstTaken
    <3>3. Ok(s \ {x})
      BY <2>3, <3>2
    <3>4. SumFunctionOnSet(f, s \ {x}) \in Nat /\ SumFunctionOnSet(h, s \ {x}) \in Nat
      BY <3>2, SumTakes
    <3>5. f[x] \in Nat /\ h[x] \in Nat /\ f[x] <= h[x]
      OBVIOUS
    <3>. QED
      BY <2>2, <2>5, <3>3, <3>4, <3>5
  <2>. QED
    BY <2>6, <2>7
<1>. QED
  BY <1>0, <1>1

(* Equal terms have an equal sum. *)
LEMMA SumSame ==
    ASSUME NEW S, IsFiniteSet(S), NEW f, NEW h, \A x \in S : f[x] \in Nat /\ h[x] = f[x]
    PROVE  SumFunctionOnSet(f, S) = SumFunctionOnSet(h, S)
<1>1. /\ SumFunctionOnSet(f, S) <= SumFunctionOnSet(h, S)
      /\ SumFunctionOnSet(h, S) <= SumFunctionOnSet(f, S)
  BY SumMonotonic
<1>2. SumFunctionOnSet(f, S) \in Nat /\ SumFunctionOnSet(h, S) \in Nat
  BY SumTakes
<1>. QED
  BY <1>1, <1>2

(* Changing the term of one element changes the sum by as much. *)
LEMMA SumChanges ==
    ASSUME NEW S, IsFiniteSet(S), NEW f, NEW h, NEW x \in S, h[x] \in Nat,
           \A y \in S : f[y] \in Nat, \A y \in S \ {x} : h[y] = f[y]
    PROVE  SumFunctionOnSet(h, S) = SumFunctionOnSet(f, S) - f[x] + h[x]
<1>1. \A y \in S : h[y] \in Nat
  OBVIOUS
<1>2. IsFiniteSet(S \ {x})
  BY FS_Subset
<1>3. SumFunctionOnSet(f, S \ {x}) = SumFunctionOnSet(h, S \ {x}) /\ SumFunctionOnSet(f, S \ {x}) \in Nat
  BY <1>2, SumSame, SumTakes
<1>4. /\ SumFunctionOnSet(f, S) = f[x] + SumFunctionOnSet(f, S \ {x})
      /\ SumFunctionOnSet(h, S) = h[x] + SumFunctionOnSet(h, S \ {x})
  BY <1>1, SumTakes
<1>. QED
  BY <1>3, <1>4

(* The same, as a fact about the set. *)
SumFollows(S) ==
    \A x \in S : \A f, h :
        (h[x] \in Nat) =>
           ((\A y \in S : f[y] \in Nat) =>
              ((\A y \in S \ {x} : h[y] = f[y]) =>
                 SumFunctionOnSet(h, S) = SumFunctionOnSet(f, S) - f[x] + h[x]))

(* It is a fact about every finite set. *)
LEMMA SumMoves ==
    ASSUME NEW S, IsFiniteSet(S)
    PROVE  SumFollows(S)
<1>1. SUFFICES ASSUME NEW x \in S, NEW f, NEW h, h[x] \in Nat, \A y \in S : f[y] \in Nat,
                      \A y \in S \ {x} : h[y] = f[y]
               PROVE  SumFunctionOnSet(h, S) = SumFunctionOnSet(f, S) - f[x] + h[x]
  BY DEF SumFollows
<1>. QED
  BY <1>1, SumChanges

(* The sum of two functions' terms is the sum of their sums. *)
LEMMA SumPlus ==
    ASSUME NEW S, IsFiniteSet(S), NEW f, NEW g, NEW h,
           \A x \in S : f[x] \in Nat /\ g[x] \in Nat /\ h[x] = f[x] + g[x]
    PROVE  SumFunctionOnSet(h, S) = SumFunctionOnSet(f, S) + SumFunctionOnSet(g, S)
<1>0. Cardinality(S) \in Nat
  BY FS_CardinalityType
<1>. DEFINE Ok(s) == SumFunctionOnSet(h, s) = SumFunctionOnSet(f, s) + SumFunctionOnSet(g, s)
            Bad(n) == \E s \in SUBSET S : Cardinality(s) = n /\ ~ Ok(s)
            T == {n \in Nat : Bad(n)}
<1>1. T = {}
  <2>. SUFFICES ASSUME T # {} PROVE FALSE
    OBVIOUS
  <2>1. PICK n \in T : \A m \in T : n <= m
    <3>1. T \in SUBSET Nat
      OBVIOUS
    <3>. HIDE DEF T
    <3>. QED
      BY <3>1, LeastNat
  <2>2. PICK s \in SUBSET S : Cardinality(s) = n /\ ~ Ok(s)
    BY <2>1
  <2>3. n \in Nat /\ \A m \in Nat : m < n => ~ Bad(m)
    <3>. HIDE DEF Bad
    <3>. QED
      BY <2>1
  <2>4. /\ IsFiniteSet(s)
        /\ \A x \in s : s \ {x} \in SUBSET S /\ Cardinality(s \ {x}) = n - 1
    BY <2>2, FirstTaken
  <2>. HIDE DEF T, Bad
  <2>0. \A x \in S : f[x] \in Nat /\ g[x] \in Nat /\ h[x] \in Nat
    OBVIOUS
  <2>5. /\ \A x \in s : /\ SumFunctionOnSet(f, s) = f[x] + SumFunctionOnSet(f, s \ {x})
                        /\ SumFunctionOnSet(g, s) = g[x] + SumFunctionOnSet(g, s \ {x})
                        /\ SumFunctionOnSet(h, s) = h[x] + SumFunctionOnSet(h, s \ {x})
        /\ s = {} => /\ SumFunctionOnSet(f, s) = 0
                     /\ SumFunctionOnSet(g, s) = 0
                     /\ SumFunctionOnSet(h, s) = 0
    BY <2>0, <2>4, SumTakes
  <2>6. CASE s = {}
    BY <2>2, <2>5, <2>6
  <2>7. CASE s # {}
    <3>1. PICK x \in s : TRUE
      BY <2>7
    <3>2. s \ {x} \in SUBSET S /\ Cardinality(s \ {x}) = n - 1 /\ Cardinality(s \ {x}) \in Nat
          /\ IsFiniteSet(s \ {x})
      BY <2>4, FirstTaken
    <3>3. Ok(s \ {x})
      BY <2>3, <3>2 DEF Bad
    <3>4. /\ SumFunctionOnSet(f, s \ {x}) \in Nat
          /\ SumFunctionOnSet(g, s \ {x}) \in Nat
          /\ SumFunctionOnSet(h, s \ {x}) \in Nat
      BY <2>0, <3>2, SumTakes
    <3>5. f[x] \in Nat /\ g[x] \in Nat /\ h[x] = f[x] + g[x]
      OBVIOUS
    <3>. QED
      BY <2>2, <2>5, <3>3, <3>4, <3>5
  <2>. QED
    BY <2>6, <2>7
<1>. QED
  BY <1>0, <1>1

(* A sum of n terms that are b at most is n * b at most. *)
LEMMA SumBound ==
    ASSUME NEW S, IsFiniteSet(S), NEW f, NEW b \in Nat, \A x \in S : f[x] \in Nat /\ f[x] <= b
    PROVE  SumFunctionOnSet(f, S) <= Cardinality(S) * b
<1>0. Cardinality(S) \in Nat
  BY FS_CardinalityType
<1>. DEFINE Ok(s) == SumFunctionOnSet(f, s) <= Cardinality(s) * b
            Bad(n) == \E s \in SUBSET S : Cardinality(s) = n /\ ~ Ok(s)
            T == {n \in Nat : Bad(n)}
<1>1. T = {}
  <2>. SUFFICES ASSUME T # {} PROVE FALSE
    OBVIOUS
  <2>1. PICK n \in T : \A m \in T : n <= m
    <3>1. T \in SUBSET Nat
      OBVIOUS
    <3>. HIDE DEF T
    <3>. QED
      BY <3>1, LeastNat
  <2>2. PICK s \in SUBSET S : Cardinality(s) = n /\ ~ Ok(s)
    BY <2>1
  <2>3. n \in Nat /\ \A m \in Nat : m < n => ~ Bad(m)
    <3>. HIDE DEF Bad
    <3>. QED
      BY <2>1
  <2>4. /\ IsFiniteSet(s)
        /\ \A x \in s : s \ {x} \in SUBSET S /\ Cardinality(s \ {x}) = n - 1
    BY <2>2, FirstTaken
  <2>. HIDE DEF T, Bad
  <2>5. /\ \A x \in s : SumFunctionOnSet(f, s) = f[x] + SumFunctionOnSet(f, s \ {x})
        /\ s = {} => SumFunctionOnSet(f, s) = 0
    BY <2>4, SumTakes
  <2>6. CASE s = {}
    <3>1. Cardinality(s) = 0
      BY <2>6, FS_EmptySet
    <3>. QED
      BY <2>2, <2>5, <2>6, <3>1
  <2>7. CASE s # {}
    <3>1. PICK x \in s : TRUE
      BY <2>7
    <3>2. s \ {x} \in SUBSET S /\ Cardinality(s \ {x}) = n - 1 /\ Cardinality(s \ {x}) \in Nat
          /\ IsFiniteSet(s \ {x})
      BY <2>4, FirstTaken
    <3>3. SumFunctionOnSet(f, s \ {x}) <= (n - 1) * b
      BY <2>3, <3>2 DEF Bad
    <3>4. SumFunctionOnSet(f, s \ {x}) \in Nat
      BY <3>2, SumTakes
    <3>5. f[x] \in Nat /\ f[x] <= b
      OBVIOUS
    <3>6. (n - 1) * b + b = n * b
      BY <2>3
    <3>7. (n - 1) * b \in Int /\ n * b \in Int
      BY <2>3
    <3>8. SumFunctionOnSet(f, s) <= n * b
      BY <2>5, <3>3, <3>4, <3>5, <3>6, <3>7
    <3>. QED
      BY <2>2, <3>8
  <2>. QED
    BY <2>6, <2>7
<1>. QED
  BY <1>0, <1>1

(* Terms that are 0 have the sum 0. *)
LEMMA SumZero ==
    ASSUME NEW S, IsFiniteSet(S), NEW f, \A x \in S : f[x] = 0
    PROVE  SumFunctionOnSet(f, S) = 0
<1>0. \A x \in S : f[x] \in Nat /\ f[x] \in Nat /\ f[x] = f[x] + f[x]
  OBVIOUS
<1>1. SumFunctionOnSet(f, S) = SumFunctionOnSet(f, S) + SumFunctionOnSet(f, S)
  BY <1>0, SumPlus, Zenon
<1>2. SumFunctionOnSet(f, S) \in Nat
  BY <1>0, SumTakes
<1>3. \A n \in Nat : n = n + n => n = 0
  OBVIOUS
<1>. QED
  BY <1>1, <1>2, <1>3, Zenon

(* A subset outside of which the terms are 0 has the whole sum. *)
LEMMA SumOutside ==
    ASSUME NEW S, IsFiniteSet(S), NEW u \in SUBSET S, NEW f, \A x \in S : f[x] \in Nat,
           \A x \in S \ u : f[x] = 0
    PROVE  SumFunctionOnSet(f, S) = SumFunctionOnSet(f, u)
<1>0. Cardinality(S) \in Nat
  BY FS_CardinalityType
<1>. DEFINE Ok(s) == SumFunctionOnSet(f, s) = SumFunctionOnSet(f, u)
            Bad(n) == \E s \in SUBSET S : Cardinality(s) = n /\ u \subseteq s /\ ~ Ok(s)
            T == {n \in Nat : Bad(n)}
<1>1. T = {}
  <2>. SUFFICES ASSUME T # {} PROVE FALSE
    OBVIOUS
  <2>1. PICK n \in T : \A m \in T : n <= m
    <3>1. T \in SUBSET Nat
      OBVIOUS
    <3>. HIDE DEF T
    <3>. QED
      BY <3>1, LeastNat
  <2>2. PICK s \in SUBSET S : Cardinality(s) = n /\ u \subseteq s /\ ~ Ok(s)
    BY <2>1
  <2>3. n \in Nat /\ \A m \in Nat : m < n => ~ Bad(m)
    <3>. HIDE DEF Bad
    <3>. QED
      BY <2>1
  <2>4. /\ IsFiniteSet(s)
        /\ \A x \in s : s \ {x} \in SUBSET S /\ Cardinality(s \ {x}) = n - 1
    BY <2>2, FirstTaken
  <2>. HIDE DEF T, Bad
  <2>5. \A x \in s : SumFunctionOnSet(f, s) = f[x] + SumFunctionOnSet(f, s \ {x})
    BY <2>4, SumTakes
  <2>6. PICK x \in s : x \notin u
    BY <2>2
  <2>7. s \ {x} \in SUBSET S /\ Cardinality(s \ {x}) = n - 1 /\ Cardinality(s \ {x}) \in Nat
        /\ IsFiniteSet(s \ {x}) /\ u \subseteq s \ {x}
    BY <2>2, <2>4, <2>6, FirstTaken
  <2>8. Ok(s \ {x})
    BY <2>3, <2>7 DEF Bad
  <2>9. SumFunctionOnSet(f, s \ {x}) \in Nat
    BY <2>7, SumTakes
  <2>10. f[x] = 0
    BY <2>6
  <2>. QED
    BY <2>2, <2>5, <2>8, <2>9, <2>10
<1>. QED
  BY <1>0, <1>1

(* A union has at most as many elements as its members together. *)
LEMMA SumCovers ==
    ASSUME NEW S, IsFiniteSet(S), NEW f, \A x \in S : f[x] \in Nat,
           NEW t, \A x \in S : IsFiniteSet(t[x]) /\ Cardinality(t[x]) <= f[x]
    PROVE  /\ IsFiniteSet(UNION {t[x] : x \in S})
           /\ Cardinality(UNION {t[x] : x \in S}) <= SumFunctionOnSet(f, S)
<1>0. Cardinality(S) \in Nat
  BY FS_CardinalityType
<1>. DEFINE U(s) == UNION {t[x] : x \in s}
            Ok(s) == IsFiniteSet(U(s)) /\ Cardinality(U(s)) <= SumFunctionOnSet(f, s)
            Bad(n) == \E s \in SUBSET S : Cardinality(s) = n /\ ~ Ok(s)
            T == {n \in Nat : Bad(n)}
<1>1. T = {}
  <2>. SUFFICES ASSUME T # {} PROVE FALSE
    OBVIOUS
  <2>1. PICK n \in T : \A m \in T : n <= m
    <3>1. T \in SUBSET Nat
      OBVIOUS
    <3>. HIDE DEF T
    <3>. QED
      BY <3>1, LeastNat
  <2>2. PICK s \in SUBSET S : Cardinality(s) = n /\ ~ Ok(s)
    BY <2>1
  <2>3. n \in Nat /\ \A m \in Nat : m < n => ~ Bad(m)
    <3>. HIDE DEF Bad
    <3>. QED
      BY <2>1
  <2>4. /\ IsFiniteSet(s)
        /\ \A x \in s : s \ {x} \in SUBSET S /\ Cardinality(s \ {x}) = n - 1
    BY <2>2, FirstTaken
  <2>. HIDE DEF T, Bad
  <2>5. /\ \A x \in s : SumFunctionOnSet(f, s) = f[x] + SumFunctionOnSet(f, s \ {x})
        /\ s = {} => SumFunctionOnSet(f, s) = 0
    BY <2>4, SumTakes
  <2>6. CASE s = {}
    <3>1. U(s) = {}
      BY <2>6
    <3>2. IsFiniteSet(U(s)) /\ Cardinality(U(s)) = 0
      BY <3>1, FS_EmptySet
    <3>. QED
      BY <2>2, <2>5, <2>6, <3>2
  <2>7. CASE s # {}
    <3>1. PICK x \in s : TRUE
      BY <2>7
    <3>2. s \ {x} \in SUBSET S /\ Cardinality(s \ {x}) = n - 1 /\ Cardinality(s \ {x}) \in Nat
          /\ IsFiniteSet(s \ {x})
      BY <2>4, FirstTaken
    <3>3. Ok(s \ {x})
      <4>1. n - 1 \in Nat /\ n - 1 < n
        BY <2>3, <3>2
      <4>2. ~ Bad(n - 1)
        BY <2>3, <4>1
      <4>. HIDE DEF Ok
      <4>. QED
        BY <3>2, <4>2 DEF Bad
    <3>4. SumFunctionOnSet(f, s \ {x}) \in Nat
      BY <3>2, SumTakes
    <3>5. U(s) = t[x] \cup U(s \ {x})
      BY <3>1
    <3>6. IsFiniteSet(t[x]) /\ Cardinality(t[x]) <= f[x] /\ f[x] \in Nat
      BY <3>1
    <3>. HIDE DEF U
    <3>7. /\ IsFiniteSet(U(s))
          /\ Cardinality(U(s)) = Cardinality(t[x]) + Cardinality(U(s \ {x})) - Cardinality(t[x] \cap U(s \ {x}))
      BY <3>3, <3>5, <3>6, FS_Union
    <3>8. Cardinality(t[x]) \in Nat /\ Cardinality(U(s \ {x})) \in Nat /\ Cardinality(t[x] \cap U(s \ {x})) \in Nat
      BY <3>3, <3>6, FS_CardinalityType, FS_Intersection
    <3>. QED
      BY <2>2, <2>5, <3>1, <3>3, <3>4, <3>6, <3>7, <3>8
  <2>. QED
    BY <2>6, <2>7
<1>. QED
  BY <1>0, <1>1

(* The elements of a sequence are not more than its length. *)
LEMMA RangeIsSmall ==
    ASSUME NEW S, NEW s \in Seq(S)
    PROVE  IsFiniteSet(Range(s)) /\ Cardinality(Range(s)) <= Len(s)
<1>1. Len(s) \in Nat /\ DOMAIN s = 1 .. Len(s)
  BY LenProperties
<1>2. IsFiniteSet(1 .. Len(s)) /\ Cardinality(1 .. Len(s)) = Len(s)
  BY <1>1, FS_Interval
<1>3. s \in Surjection(1 .. Len(s), Range(s))
  <2>1. s \in [1 .. Len(s) -> Range(s)]
    BY <1>1, ElementOfSeq DEF Range
  <2>. QED
    BY <1>1, <2>1 DEF Range, Surjection
<1>. QED
  BY <1>2, <1>3, FS_Surjection

(* A set has room for any smaller number of different elements. *)
LEMMA RoomFor ==
    ASSUME NEW S, IsFiniteSet(S), NEW k \in Nat, k <= Cardinality(S)
    PROVE  \E f : f \in Injection(1 .. k, S)
<1>1. Cardinality(S) \in Nat
  BY FS_CardinalityType
<1>2. PICK g : g \in Bijection(1 .. Cardinality(S), S)
  BY FS_CountingElements, FS_NatBijection, FS_CardinalityType DEF ExistsBijection
<1>3. g \in [1 .. Cardinality(S) -> S] /\ \A a, b \in 1 .. Cardinality(S) : g[a] = g[b] => a = b
  BY <1>2 DEF Bijection, Injection, IsInjective
<1>. DEFINE f == [i \in 1 .. k |-> g[i]]
<1>4. f \in [1 .. k -> S]
  BY <1>1, <1>3
<1>5. IsInjective(f)
  BY <1>1, <1>3 DEF IsInjective
<1>. QED
  BY <1>4, <1>5 DEF Injection
=============================================================================
