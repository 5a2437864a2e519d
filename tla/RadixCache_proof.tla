--------------------------- MODULE RadixCache_proof ---------------------------
(***************************************************************************)
(* The prefix cache of both ports, for every finite pool and set of        *)
(* requests, every block size and any token sequences.                     *)
(***************************************************************************)
EXTENDS RadixCache, DataLemmas, TLAPS

-----------------------------------------------------------------------------
(* Prefixes. *)

(* A prefix is shorter and agrees at each of its positions. *)
LEMMA PrefixIs ==
    ASSUME NEW s \in Seq(Nat), NEW t \in Seq(Nat)
    PROVE  IsPrefix(s, t) <=> Len(s) <= Len(t) /\ \A i \in 1 .. Len(s) : s[i] = t[i]
  BY DEF IsPrefix

(* Sequences of one length that agree at each position are equal. *)
LEMMA SeqSame ==
    ASSUME NEW s \in Seq(Nat), NEW t \in Seq(Nat), Len(s) = Len(t), \A i \in 1 .. Len(s) : s[i] = t[i]
    PROVE  s = t
  BY SeqEqual

(* The first k tokens. *)
LEMMA CutIs ==
    ASSUME NEW t \in Seq(Nat), NEW k \in 0 .. Len(t)
    PROVE  /\ SubSeq(t, 1, k) \in Seq(Nat)
           /\ Len(SubSeq(t, 1, k)) = k
           /\ \A i \in 1 .. k : SubSeq(t, 1, k)[i] = t[i]
           /\ IsPrefix(SubSeq(t, 1, k), t)
<1>1. Len(t) \in Nat /\ \A i \in 1 .. Len(t) : t[i] \in Nat
  BY LenProperties, ElementOfSeq
<1>2. /\ SubSeq(t, 1, k) \in Seq(Nat)
      /\ Len(SubSeq(t, 1, k)) = k
      /\ \A i \in 1 .. k : SubSeq(t, 1, k)[i] = t[i]
  BY <1>1, SubSeqProperties
<1>3. k <= Len(t) /\ \A i \in 1 .. Len(SubSeq(t, 1, k)) : SubSeq(t, 1, k)[i] = t[i]
  BY <1>1, <1>2
<1>4. PICK s \in Seq(Nat) : s = SubSeq(t, 1, k)
  BY <1>2
<1>5. IsPrefix(s, t)
  BY <1>2, <1>3, <1>4, PrefixIs
<1>. QED
  BY <1>2, <1>4, <1>5

(* The empty path is a prefix of every path. *)
LEMMA EmptyPrefix ==
    ASSUME NEW t \in Seq(Nat)
    PROVE  <<>> \in Seq(Nat) /\ Len(<<>>) = 0 /\ IsPrefix(<<>>, t) /\ Len(t) \in Nat
<1>1. PICK s \in Seq(Nat) : s = <<>>
  BY EmptySeq
<1>2. Len(s) = 0 /\ Len(t) \in Nat
  BY <1>1, EmptySeq, LenProperties
<1>3. Len(s) <= Len(t) /\ \A i \in 1 .. Len(s) : s[i] = t[i]
  BY <1>2
<1>4. IsPrefix(s, t)
  BY <1>3, PrefixIs
<1>. QED
  BY <1>1, <1>2, <1>4

(* Prefixes of prefixes, of two prefixes of one path the shorter one, and
   prefixes of equal length. *)
LEMMA PrefixChain ==
    ASSUME NEW r \in Seq(Nat), NEW s \in Seq(Nat), NEW t \in Seq(Nat)
    PROVE  /\ IsPrefix(r, s) /\ IsPrefix(s, t) => IsPrefix(r, t)
           /\ IsPrefix(r, t) /\ IsPrefix(s, t) /\ Len(r) <= Len(s) => IsPrefix(r, s)
           /\ IsPrefix(r, t) /\ IsPrefix(s, t) /\ Len(r) = Len(s) => r = s
           /\ IsPrefix(r, s) /\ Len(s) <= Len(r) => r = s
<1>0. Len(r) \in Nat /\ Len(s) \in Nat /\ Len(t) \in Nat
  BY LenProperties
<1>1. IsPrefix(r, s) /\ IsPrefix(s, t) => IsPrefix(r, t)
  BY <1>0, PrefixIs
<1>2. IsPrefix(r, t) /\ IsPrefix(s, t) /\ Len(r) <= Len(s) => IsPrefix(r, s)
  BY <1>0, PrefixIs
<1>3. IsPrefix(r, s) /\ Len(s) <= Len(r) => r = s
  BY <1>0, PrefixIs, SeqSame
<1>. QED
  BY <1>0, <1>1, <1>2, <1>3

(* The longest of a set of paths that is not empty and whose lengths are
   bounded. *)
LEMMA LongestExists ==
    ASSUME NEW S \in SUBSET Seq(Nat), S # {}, NEW n \in Nat, \A x \in S : Len(x) <= n
    PROVE  \E x \in S : \A y \in S : Len(y) <= Len(x)
<1>. DEFINE T == {n - Len(x) : x \in S}
<1>1. \A x \in S : Len(x) \in Nat /\ n - Len(x) \in Nat
  BY LenProperties
<1>2. T \in SUBSET Nat /\ T # {}
  BY <1>1
<1>3. PICK d \in T : \A m \in T : d <= m
  <2>. HIDE DEF T
  <2>. QED
    BY <1>2, LeastNat
<1>4. PICK x \in S : d = n - Len(x)
  BY <1>3
<1>5. ASSUME NEW y \in S PROVE Len(y) <= Len(x)
  <2>1. n - Len(y) \in T
    OBVIOUS
  <2>2. n - Len(x) <= n - Len(y)
    BY <1>3, <1>4, <2>1
  <2>. QED
    BY <1>1, <2>2
<1>. QED
  BY <1>5

(* Where two paths part. *)
LEMMA CommonIs ==
    ASSUME NEW s \in Seq(Nat), NEW t \in Seq(Nat)
    PROVE  /\ Common(s, t) \in Seq(Nat)
           /\ IsPrefix(Common(s, t), s) /\ IsPrefix(Common(s, t), t)
           /\ \A x \in Seq(Nat) : IsPrefix(x, s) /\ IsPrefix(x, t) => Len(x) <= Len(Common(s, t))
<1>. DEFINE P == {x \in Seq(Nat) : IsPrefix(x, s) /\ IsPrefix(x, t)}
<1>0. Len(s) \in Nat /\ Len(t) \in Nat
  BY LenProperties
<1>1. \A u \in Seq(Nat) : \A x : x \in Prefixes(u) <=> \E k \in 0 .. Len(u) : x = SubSeq(u, 1, k)
  <2>1. ASSUME NEW u \in Seq(Nat) PROVE \A x : x \in Prefixes(u) <=> \E k \in 0 .. Len(u) : x = SubSeq(u, 1, k)
    BY LenProperties, CutIs, EmptySeq DEF Prefixes
  <2>. QED
    BY <2>1
<1>2. CommonPrefixes({s, t}) = P
  <2>1. ASSUME NEW x \in CommonPrefixes({s, t}) PROVE x \in P
    <3>1. x \in UNION {Prefixes(u) : u \in {s, t}} /\ IsPrefix(x, s) /\ IsPrefix(x, t)
      BY DEF CommonPrefixes
    <3>2. PICK u \in {s, t} : x \in Prefixes(u)
      BY <3>1
    <3>3. PICK k \in 0 .. Len(u) : x = SubSeq(u, 1, k)
      BY <1>1, <3>2
    <3>4. x \in Seq(Nat)
      BY <3>3, CutIs
    <3>. QED
      BY <3>1, <3>4
  <2>2. ASSUME NEW x \in P PROVE x \in CommonPrefixes({s, t})
    <3>1. Len(x) \in 0 .. Len(s) /\ SubSeq(s, 1, Len(x)) = x
      <4>1. Len(x) \in Nat /\ Len(x) <= Len(s) /\ \A i \in 1 .. Len(x) : x[i] = s[i]
        BY PrefixIs, LenProperties
      <4>2. Len(x) \in 0 .. Len(s)
        BY <1>0, <4>1
      <4>. QED
        BY <4>1, <4>2, CutIs, SeqSame
    <3>2. x \in Prefixes(s)
      BY <1>1, <3>1
    <3>. QED
      BY <3>2 DEF CommonPrefixes
  <2>. QED
    BY <2>1, <2>2
<1>3. \E x \in P : \A y \in P : Len(y) <= Len(x)
  <2>1. <<>> \in P
    BY EmptyPrefix
  <2>2. \A x \in P : Len(x) <= Len(s)
    BY PrefixIs
  <2>3. P \in SUBSET Seq(Nat)
    OBVIOUS
  <2>. HIDE DEF P
  <2>. QED
    BY <1>0, <2>1, <2>2, <2>3, LongestExists
<1>4. Common(s, t) = CHOOSE x \in P : \A y \in P : Len(y) <= Len(x)
  <2>. HIDE DEF P
  <2>. QED
    BY <1>2 DEF Common, LongestCommonPrefix
<1>5. Common(s, t) \in P /\ \A y \in P : Len(y) <= Len(Common(s, t))
  <2>. HIDE DEF P
  <2>. QED
    BY <1>3, <1>4
<1>. QED
  BY <1>5

-----------------------------------------------------------------------------
(* The tree, as the set of its paths. *)

Paths(D) == D \subseteq Seq(Nat) /\ <<>> \notin D

(* Two paths part at a node or at the root. *)
Closed(D) == \A p, q \in D : Common(p, q) \in {<<>>} \cup D

(* The node at which the walk along t stops. *)
LEMMA AtIs ==
    ASSUME NEW tr, Paths(DOMAIN tr), NEW t \in Seq(Nat)
    PROVE  /\ At(tr, t) \in {<<>>} \cup DOMAIN tr
           /\ At(tr, t) \in Seq(Nat) /\ Len(At(tr, t)) \in Nat /\ Len(At(tr, t)) <= Len(t)
           /\ IsPrefix(At(tr, t), t)
           /\ \A q \in DOMAIN tr : IsPrefix(q, t) => Len(q) <= Len(At(tr, t))
<1>. DEFINE N == {<<>>} \cup DOMAIN tr
            S == {p \in N : IsPrefix(p, t)}
<1>1. N \subseteq Seq(Nat) /\ Len(t) \in Nat
  BY EmptyPrefix DEF Paths
<1>2. \E p \in S : \A q \in S : Len(q) <= Len(p)
  <2>1. S \in SUBSET Seq(Nat)
    BY <1>1
  <2>2. <<>> \in S
    BY EmptyPrefix
  <2>3. \A p \in S : Len(p) <= Len(t)
    BY <1>1, PrefixIs
  <2>. HIDE DEF S
  <2>. QED
    BY <1>1, <2>1, <2>2, <2>3, LongestExists
<1>3. \E p \in N : IsPrefix(p, t) /\ \A q \in DOMAIN tr : IsPrefix(q, t) => Len(q) <= Len(p)
  BY <1>2
<1>4. /\ At(tr, t) \in N
      /\ IsPrefix(At(tr, t), t)
      /\ \A q \in DOMAIN tr : IsPrefix(q, t) => Len(q) <= Len(At(tr, t))
  BY <1>3 DEF At
<1>5. At(tr, t) \in Seq(Nat)
  BY <1>1, <1>4
<1>. QED
  BY <1>4, <1>5, PrefixIs, LenProperties

(* A child of that node: nothing lies between them. *)
LEMMA ChildIs ==
    ASSUME NEW tr, Paths(DOMAIN tr), NEW t \in Seq(Nat), NEW c \in ChildOf(tr, t)
    PROVE  /\ c \in DOMAIN tr /\ c \in Seq(Nat)
           /\ Len(At(tr, t)) < Len(t) /\ Len(At(tr, t)) < Len(c)
           /\ IsPrefix(At(tr, t), c) /\ c[Len(At(tr, t)) + 1] = t[Len(At(tr, t)) + 1]
           /\ \A q \in DOMAIN tr : IsPrefix(q, c) /\ Len(At(tr, t)) < Len(q) => q = c
           /\ ~ IsPrefix(c, t)
<1>. DEFINE a == At(tr, t)
            k == Len(a)
            f == Front(c)
<1>1. /\ c \in DOMAIN tr /\ k < Len(t) /\ At(tr, f) = a /\ c[k + 1] = t[k + 1]
  BY DEF ChildOf, Parent
<1>2. c \in Seq(Nat) /\ c # <<>>
  BY <1>1 DEF Paths
<1>3. Len(c) \in Nat /\ Len(c) >= 1
  BY <1>2, EmptySeq, LenProperties
<1>4. /\ f \in Seq(Nat) /\ Len(f) = Len(c) - 1 /\ IsPrefix(f, c)
  <2>1. Len(c) - 1 \in 0 .. Len(c)
    BY <1>3
  <2>. QED
    BY <1>2, <2>1, CutIs DEF Front
<1>5. a \in Seq(Nat) /\ k \in Nat /\ IsPrefix(a, f) /\ k <= Len(f)
      /\ \A q \in DOMAIN tr : IsPrefix(q, f) => Len(q) <= k
  <2>. HIDE DEF f
  <2>. QED
    BY <1>1, <1>4, AtIs
<1>6. k < Len(c) /\ IsPrefix(a, c)
  <2>. HIDE DEF f, a
  <2>. QED
    BY <1>2, <1>3, <1>4, <1>5, PrefixChain
<1>7. ASSUME NEW q \in DOMAIN tr, IsPrefix(q, c), k < Len(q) PROVE q = c
  <2>1. q \in Seq(Nat) /\ Len(q) \in Nat /\ Len(q) <= Len(c)
    BY <1>2, <1>7, PrefixIs, LenProperties DEF Paths
  <2>2. CASE Len(q) <= Len(c) - 1
    <3>1. IsPrefix(q, f)
      <4>. HIDE DEF f
      <4>. QED
        BY <1>2, <1>4, <1>7, <2>1, <2>2, PrefixChain
    <3>. QED
      BY <1>5, <1>7, <2>1, <3>1
  <2>3. CASE Len(q) > Len(c) - 1
    BY <1>2, <1>3, <1>7, <2>1, <2>3, PrefixChain
  <2>. QED
    BY <1>3, <2>1, <2>2, <2>3
<1>8. ~ IsPrefix(c, t)
  BY <1>1, <1>3, <1>5, <1>6, AtIs
<1>. QED
  BY <1>1, <1>2, <1>6, <1>7, <1>8

(* Paths that agree with t beyond that node start with its child. *)
LEMMA ChildBelow ==
    ASSUME NEW tr, Paths(DOMAIN tr), Closed(DOMAIN tr), NEW t \in Seq(Nat),
           NEW q \in DOMAIN tr, NEW x \in Seq(Nat), IsPrefix(x, t), IsPrefix(x, q), Len(At(tr, t)) < Len(x)
    PROVE  /\ ChildOf(tr, t) # {}
           /\ \A c \in ChildOf(tr, t) : IsPrefix(c, q)
<1>. DEFINE a == At(tr, t)
            k == Len(a)
            S == {n \in Nat : \E p \in DOMAIN tr : Len(p) = n /\ k < n /\ IsPrefix(p, q)}
<1>0. /\ a \in Seq(Nat) /\ k \in Nat /\ IsPrefix(a, t)
      /\ q \in Seq(Nat) /\ Len(q) \in Nat /\ Len(x) \in Nat /\ Len(x) <= Len(q)
      /\ \A i \in 1 .. Len(x) : x[i] = t[i] /\ x[i] = q[i]
      /\ k < Len(t)
  <2>1. /\ a \in Seq(Nat) /\ k \in Nat /\ IsPrefix(a, t) /\ q \in Seq(Nat)
    BY AtIs DEF Paths
  <2>2. Len(q) \in Nat /\ Len(x) \in Nat /\ Len(t) \in Nat
    BY <2>1, LenProperties
  <2>3. Len(x) <= Len(q) /\ \A i \in 1 .. Len(x) : x[i] = q[i]
    BY <2>1, PrefixIs
  <2>4. Len(x) <= Len(t) /\ \A i \in 1 .. Len(x) : x[i] = t[i]
    BY PrefixIs
  <2>5. k < Len(x)
    OBVIOUS
  <2>. HIDE DEF a
  <2>. QED
    BY <2>1, <2>2, <2>3, <2>4, <2>5
<1>1. IsPrefix(a, q)
  <2>1. IsPrefix(a, x)
    BY <1>0, PrefixChain
  <2>. QED
    BY <1>0, <2>1, PrefixChain
<1>2. PICK n \in S : \A m \in S : n <= m
  <2>1. S \in SUBSET Nat
    OBVIOUS
  <2>2. Len(q) \in S
    <3>1. IsPrefix(q, q)
      BY <1>0, PrefixIs
    <3>. QED
      BY <1>0, <3>1
  <2>. HIDE DEF S
  <2>. QED
    BY <2>1, <2>2, LeastNat
<1>3. PICK p \in DOMAIN tr : Len(p) = n /\ k < n /\ IsPrefix(p, q)
  BY <1>2
<1>4. p \in ChildOf(tr, t)
  <2>1. p \in Seq(Nat) /\ n \in Nat /\ n <= Len(q) /\ \A i \in 1 .. n : p[i] = q[i]
    BY <1>0, <1>2, <1>3, PrefixIs DEF Paths
  <2>2. p[k + 1] = t[k + 1]
    <3>1. k + 1 \in 1 .. n /\ k + 1 \in 1 .. Len(x)
      BY <1>0, <1>3, <2>1
    <3>. QED
      BY <1>0, <2>1, <3>1
  <2>. DEFINE f == SubSeq(p, 1, n - 1)
  <2>3. f \in Seq(Nat) /\ Len(f) = n - 1 /\ IsPrefix(f, p)
    <3>1. n - 1 \in 0 .. Len(p)
      BY <1>0, <1>3, <2>1
    <3>. QED
      BY <2>1, <3>1, CutIs
  <2>4. Front(p) = f
    BY <1>3 DEF Front
  <2>. HIDE DEF f
  <2>5. IsPrefix(f, q) /\ IsPrefix(a, f)
    BY <1>0, <1>1, <1>3, <2>1, <2>3, PrefixChain
  <2>6. ASSUME NEW o \in DOMAIN tr, IsPrefix(o, f) PROVE Len(o) <= k
    <3>1. o \in Seq(Nat) /\ Len(o) \in Nat /\ Len(o) <= n - 1
      BY <2>3, <2>6, PrefixIs, LenProperties DEF Paths
    <3>2. IsPrefix(o, q)
      BY <1>0, <2>3, <2>5, <2>6, <3>1, PrefixChain
    <3>3. k < Len(o) => Len(o) \in S
      BY <3>1, <3>2
    <3>. QED
      BY <1>0, <1>2, <2>1, <3>1, <3>3, SMTT(30)
  <2>7. At(tr, f) = a
    <3>1. /\ At(tr, f) \in {<<>>} \cup DOMAIN tr /\ At(tr, f) \in Seq(Nat) /\ Len(At(tr, f)) \in Nat
          /\ IsPrefix(At(tr, f), f)
          /\ \A o \in DOMAIN tr : IsPrefix(o, f) => Len(o) <= Len(At(tr, f))
      BY <2>3, AtIs
    <3>2. a \in {<<>>} \cup DOMAIN tr
      BY AtIs
    <3>3. Len(At(tr, f)) <= k
      BY <1>0, <2>6, <3>1, EmptyPrefix
    <3>4. k <= Len(At(tr, f))
      BY <2>5, <3>1, <3>2, EmptyPrefix
    <3>. QED
      BY <1>0, <2>3, <2>5, <3>1, <3>3, <3>4, PrefixChain
  <2>. QED
    BY <1>0, <2>2, <2>4, <2>7 DEF ChildOf, Parent
<1>5. ASSUME NEW c \in ChildOf(tr, t) PROVE IsPrefix(c, q)
  <2>1. /\ c \in DOMAIN tr /\ c \in Seq(Nat) /\ k < Len(c) /\ IsPrefix(a, c) /\ c[k + 1] = t[k + 1]
        /\ \A o \in DOMAIN tr : IsPrefix(o, c) /\ k < Len(o) => o = c
    BY ChildIs
  <2>. DEFINE y == SubSeq(t, 1, k + 1)
  <2>2. y \in Seq(Nat) /\ Len(y) = k + 1 /\ (\A i \in 1 .. k + 1 : y[i] = t[i])
    <3>1. k + 1 \in 0 .. Len(t)
      BY <1>0, LenProperties
    <3>. QED
      BY <3>1, CutIs
  <2>. HIDE DEF y
  <2>3. IsPrefix(y, c)
    <3>1. \A i \in 1 .. k : c[i] = a[i] /\ t[i] = a[i]
      BY <1>0, <2>1, PrefixIs
    <3>2. \A i \in 1 .. k + 1 : i \in 1 .. k \/ i = k + 1
      BY <1>0, SMTT(30)
    <3>3. \A i \in 1 .. k + 1 : y[i] = c[i]
      BY <2>1, <2>2, <3>1, <3>2
    <3>4. Len(c) \in Nat /\ k + 1 <= Len(c)
      BY <1>0, <2>1, LenProperties
    <3>. QED
      BY <2>1, <2>2, <3>3, <3>4, PrefixIs
  <2>4. IsPrefix(y, q)
    <3>1. ASSUME NEW i \in 1 .. k + 1 PROVE y[i] = q[i]
      <4>1. i \in 1 .. Len(x)
        BY <1>0
      <4>. QED
        BY <1>0, <2>2, <4>1
    <3>2. k + 1 <= Len(q)
      BY <1>0
    <3>. QED
      BY <1>0, <2>2, <3>1, <3>2, PrefixIs
  <2>. DEFINE m == Common(c, q)
  <2>5. /\ m \in Seq(Nat) /\ Len(m) \in Nat /\ IsPrefix(m, c) /\ IsPrefix(m, q) /\ k + 1 <= Len(m)
    <3>1. m \in Seq(Nat) /\ IsPrefix(m, c) /\ IsPrefix(m, q)
      BY <1>0, <2>1, CommonIs
    <3>2. Len(y) <= Len(m)
      BY <1>0, <2>1, <2>2, <2>3, <2>4, CommonIs
    <3>. QED
      BY <2>2, <3>1, <3>2, LenProperties
  <2>6. m \in DOMAIN tr
    <3>1. m \in {<<>>} \cup DOMAIN tr
      BY <2>1 DEF Closed
    <3>2. m # <<>>
      BY <1>0, <2>5, EmptySeq
    <3>. QED
      BY <3>1, <3>2
  <2>7. m = c
    <3>1. k < Len(m)
      BY <1>0, <2>5
    <3>. QED
      BY <2>1, <2>5, <2>6, <3>1
  <2>. QED
    BY <2>5, <2>7
<1>. QED
  BY <1>4, <1>5

(* The node where a split is made: t and the child part there. *)
Mid(tr, t) == {Common(t, c) : c \in ChildOf(tr, t)}

(* There is one child at most, and the split is between its parent and its
   end. *)
LEMMA MidIs ==
    ASSUME NEW tr, Paths(DOMAIN tr), Closed(DOMAIN tr), NEW t \in Seq(Nat), NEW c \in ChildOf(tr, t)
    PROVE  /\ ChildOf(tr, t) = {c}
           /\ Mid(tr, t) = {Common(t, c)}
           /\ Common(t, c) \in Seq(Nat) /\ Common(t, c) # <<>>
           /\ IsPrefix(Common(t, c), t) /\ IsPrefix(Common(t, c), c)
           /\ Len(At(tr, t)) < Len(Common(t, c)) /\ Len(Common(t, c)) < Len(c)
           /\ Common(t, c) \notin DOMAIN tr
<1>. DEFINE k == Len(At(tr, t))
            y == SubSeq(t, 1, k + 1)
            m == Common(t, c)
<1>0. /\ At(tr, t) \in Seq(Nat) /\ k \in Nat /\ Len(t) \in Nat /\ IsPrefix(At(tr, t), t) /\ k < Len(t)
      /\ c \in DOMAIN tr /\ c \in Seq(Nat) /\ Len(c) \in Nat /\ k < Len(c)
      /\ IsPrefix(At(tr, t), c) /\ c[k + 1] = t[k + 1] /\ ~ IsPrefix(c, t)
      /\ \A q \in DOMAIN tr : IsPrefix(q, c) /\ k < Len(q) => q = c
  BY AtIs, ChildIs, LenProperties
<1>1. y \in Seq(Nat) /\ Len(y) = k + 1 /\ (\A i \in 1 .. k + 1 : y[i] = t[i]) /\ IsPrefix(y, t)
  <2>1. k + 1 \in 0 .. Len(t)
    BY <1>0
  <2>. QED
    BY <2>1, CutIs
<1>. HIDE DEF y
<1>2. ASSUME NEW d \in ChildOf(tr, t) PROVE IsPrefix(y, d)
  <2>1. /\ d \in Seq(Nat) /\ IsPrefix(At(tr, t), d) /\ d[k + 1] = t[k + 1] /\ k < Len(d)
    BY ChildIs
  <2>2. \A i \in 1 .. k : At(tr, t)[i] = d[i] /\ At(tr, t)[i] = t[i]
    BY <1>0, <2>1, PrefixIs
  <2>3. \A i \in 1 .. k + 1 : i \in 1 .. k \/ i = k + 1
    BY <1>0
  <2>4. \A i \in 1 .. k + 1 : y[i] = d[i]
    BY <1>1, <2>1, <2>2, <2>3
  <2>5. Len(d) \in Nat /\ k + 1 <= Len(d)
    BY <1>0, <2>1, LenProperties
  <2>. QED
    BY <1>1, <2>1, <2>4, <2>5, PrefixIs
<1>3. ASSUME NEW d \in ChildOf(tr, t) PROVE d = c
  <2>1. d \in DOMAIN tr /\ d \in Seq(Nat)
    BY ChildIs
  <2>2. k < Len(y) /\ IsPrefix(y, t) /\ IsPrefix(y, c) /\ IsPrefix(y, d)
    BY <1>0, <1>1, <1>2
  <2>3. IsPrefix(c, d)
    BY <1>1, <2>1, <2>2, ChildBelow
  <2>4. IsPrefix(d, c)
    BY <1>0, <1>1, <2>2, ChildBelow
  <2>. QED
    BY <1>0, <2>1, <2>3, <2>4, PrefixChain, PrefixIs
<1>4. /\ m \in Seq(Nat) /\ IsPrefix(m, t) /\ IsPrefix(m, c) /\ Len(y) <= Len(m) /\ Len(m) \in Nat
  <2>1. m \in Seq(Nat) /\ IsPrefix(m, t) /\ IsPrefix(m, c)
    BY <1>0, CommonIs
  <2>2. Len(y) <= Len(m)
    BY <1>0, <1>1, <1>2, CommonIs
  <2>. QED
    BY <2>1, <2>2, LenProperties
<1>. HIDE DEF m
<1>5. k < Len(m) /\ m # <<>>
  BY <1>0, <1>1, <1>4, EmptySeq
<1>6. Len(m) < Len(c)
  <2>1. Len(m) <= Len(c)
    BY <1>0, <1>4, PrefixIs
  <2>2. m # c
    BY <1>0, <1>4
  <2>3. Len(m) # Len(c)
    BY <1>0, <1>4, <2>2, PrefixChain
  <2>. QED
    BY <1>0, <1>4, <2>1, <2>3
<1>7. m \notin DOMAIN tr
  BY <1>0, <1>4, <1>5, <1>6
<1>. QED
  BY <1>3, <1>4, <1>5, <1>6, <1>7 DEF Mid, m

(* Where t and a node of the tree part. *)
LEMMA PartsAt ==
    ASSUME NEW tr, Paths(DOMAIN tr), Closed(DOMAIN tr), NEW t \in Seq(Nat), NEW q \in DOMAIN tr
    PROVE  Common(t, q) \in {<<>>} \cup DOMAIN tr \cup Mid(tr, t)
<1>. DEFINE a == At(tr, t)
            k == Len(a)
            m == Common(t, q)
<1>0. /\ a \in {<<>>} \cup DOMAIN tr /\ a \in Seq(Nat) /\ k \in Nat /\ IsPrefix(a, t)
      /\ q \in Seq(Nat)
  BY AtIs DEF Paths
<1>1. /\ m \in Seq(Nat) /\ Len(m) \in Nat /\ IsPrefix(m, t) /\ IsPrefix(m, q)
      /\ \A x \in Seq(Nat) : IsPrefix(x, t) /\ IsPrefix(x, q) => Len(x) <= Len(m)
  BY <1>0, CommonIs, LenProperties
<1>. HIDE DEF m
<1>2. CASE Len(m) <= k
  <2>1. IsPrefix(m, a)
    BY <1>0, <1>1, <1>2, PrefixChain
  <2>2. CASE a = <<>>
    <3>1. Len(m) = 0
      BY <1>1, <1>2, <2>2, EmptySeq
    <3>2. m = <<>>
      BY <1>1, <3>1, EmptySeq
    <3>. QED
      BY <3>2 DEF m
  <2>3. CASE a \in DOMAIN tr
    <3>. DEFINE n == Common(a, q)
    <3>1. n \in {<<>>} \cup DOMAIN tr
      BY <2>3 DEF Closed
    <3>2. n \in Seq(Nat) /\ Len(n) \in Nat /\ IsPrefix(n, a) /\ IsPrefix(n, q) /\ Len(m) <= Len(n)
      BY <1>0, <1>1, <2>1, CommonIs, LenProperties
    <3>. HIDE DEF n
    <3>3. IsPrefix(n, t)
      BY <1>0, <3>2, PrefixChain
    <3>4. Len(n) <= Len(m)
      BY <1>1, <3>2, <3>3
    <3>5. Len(m) = Len(n)
      BY <1>1, <3>2, <3>4
    <3>6. m = n
      BY <1>0, <1>1, <3>2, <3>3, <3>5, PrefixChain
    <3>. QED
      BY <3>1, <3>6 DEF m
  <2>. QED
    BY <1>0, <2>2, <2>3 DEF m
<1>3. CASE k < Len(m)
  <2>1. PICK c \in ChildOf(tr, t) : IsPrefix(c, q)
    BY <1>1, <1>3, ChildBelow
  <2>. DEFINE n == Common(t, c)
  <2>2. c \in Seq(Nat) /\ Len(c) \in Nat /\ ~ IsPrefix(c, t)
    BY ChildIs, LenProperties
  <2>3. n \in Mid(tr, t) /\ n \in Seq(Nat) /\ Len(n) \in Nat /\ IsPrefix(n, t) /\ IsPrefix(n, c)
        /\ \A x \in Seq(Nat) : IsPrefix(x, t) /\ IsPrefix(x, c) => Len(x) <= Len(n)
    BY <2>2, CommonIs, LenProperties DEF Mid
  <2>. HIDE DEF n
  <2>4. IsPrefix(n, q) /\ Len(n) <= Len(m)
    BY <1>0, <1>1, <2>1, <2>2, <2>3, PrefixChain
  <2>5. Len(m) < Len(c)
    <3>1. CASE Len(c) <= Len(m)
      <4>1. IsPrefix(c, m)
        BY <1>0, <1>1, <2>1, <2>2, <3>1, PrefixChain
      <4>2. IsPrefix(c, t)
        BY <1>1, <2>2, <4>1, PrefixChain
      <4>. QED
        BY <2>2, <4>2
    <3>. QED
      BY <1>1, <2>2, <3>1
  <2>6. IsPrefix(m, c)
    BY <1>0, <1>1, <2>1, <2>2, <2>5, PrefixChain
  <2>7. Len(m) = Len(n)
    BY <1>1, <2>3, <2>4, <2>6
  <2>8. m = n
    BY <1>1, <2>3, <2>7, PrefixChain
  <2>. QED
    BY <2>3, <2>8 DEF m
<1>. QED
  BY <1>0, <1>1, <1>2, <1>3

(* Common prefixes of prefixes of t and of nodes. *)
LEMMA InsertCloses ==
    ASSUME NEW tr, Paths(DOMAIN tr), Closed(DOMAIN tr), NEW t \in Seq(Nat), t # <<>>
    PROVE  /\ Paths(DOMAIN tr \cup Mid(tr, t) \cup {t})
           /\ Closed(DOMAIN tr \cup Mid(tr, t) \cup {t})
<1>. DEFINE M == Mid(tr, t)
            N == {<<>>} \cup DOMAIN tr \cup M \cup {t}
<1>1. \A m \in M : m \in Seq(Nat) /\ m # <<>> /\ IsPrefix(m, t)
  <2>1. ASSUME NEW m \in M PROVE m \in Seq(Nat) /\ m # <<>> /\ IsPrefix(m, t)
    <3>1. PICK c \in ChildOf(tr, t) : m = Common(t, c)
      BY DEF Mid
    <3>. QED
      BY <3>1, MidIs
  <2>. QED
    BY <2>1
<1>. HIDE DEF M
<1>2. Paths(DOMAIN tr \cup M \cup {t})
  BY <1>1 DEF Paths
<1>3. \A p, q \in Seq(Nat) : Common(p, q) = Common(q, p)
  <2>1. ASSUME NEW p \in Seq(Nat), NEW q \in Seq(Nat) PROVE Common(p, q) = Common(q, p)
    <3>1. {p, q} = {q, p}
      OBVIOUS
    <3>. QED
      BY <3>1 DEF Common
  <2>. QED
    BY <2>1
(* The parting of a prefix of t from q is that prefix or the parting of t. *)
<1>4. ASSUME NEW m \in Seq(Nat), IsPrefix(m, t), NEW q \in Seq(Nat)
      PROVE  Common(m, q) \in {m, Common(t, q)}
  <2>. DEFINE n == Common(m, q)
              o == Common(t, q)
  <2>1. n \in Seq(Nat) /\ Len(n) \in Nat /\ IsPrefix(n, m) /\ IsPrefix(n, q)
        /\ \A x \in Seq(Nat) : IsPrefix(x, m) /\ IsPrefix(x, q) => Len(x) <= Len(n)
    BY CommonIs, LenProperties
  <2>2. o \in Seq(Nat) /\ Len(o) \in Nat /\ IsPrefix(o, t) /\ IsPrefix(o, q)
        /\ \A x \in Seq(Nat) : IsPrefix(x, t) /\ IsPrefix(x, q) => Len(x) <= Len(o)
    BY CommonIs, LenProperties
  <2>. HIDE DEF n, o
  <2>3. IsPrefix(n, t) /\ Len(n) <= Len(o)
    BY <1>4, <2>1, <2>2, PrefixChain
  <2>4. Len(m) \in Nat
    BY LenProperties
  <2>5. CASE Len(o) <= Len(m)
    <3>1. IsPrefix(o, m)
      BY <1>4, <2>2, <2>5, PrefixChain
    <3>2. Len(o) = Len(n)
      BY <2>1, <2>2, <2>3, <3>1
    <3>3. n = o
      BY <2>1, <2>2, <2>3, <3>2, PrefixChain
    <3>. QED
      BY <3>3 DEF n, o
  <2>6. CASE Len(m) < Len(o)
    <3>1. IsPrefix(m, o)
      BY <1>4, <2>2, <2>4, <2>6, PrefixChain
    <3>2. IsPrefix(m, q)
      BY <2>2, <3>1, PrefixChain
    <3>3. IsPrefix(m, m)
      BY PrefixIs, <2>4
    <3>4. Len(m) <= Len(n)
      BY <2>1, <3>2, <3>3
    <3>5. n = m
      BY <2>1, <3>4, PrefixChain
    <3>. QED
      BY <3>5 DEF n
  <2>. QED
    BY <2>2, <2>4, <2>5, <2>6
<1>5. IsPrefix(t, t)
  BY PrefixIs, LenProperties
<1>6. \A m \in M \cup {t} : m \in Seq(Nat) /\ IsPrefix(m, t)
  BY <1>1, <1>5
(* With a node of the tree. *)
<1>7. ASSUME NEW m \in M \cup {t}, NEW q \in DOMAIN tr PROVE Common(m, q) \in N
  <2>1. q \in Seq(Nat)
    BY DEF Paths
  <2>2. Common(m, q) \in {m, Common(t, q)}
    BY <1>4, <1>6, <2>1
  <2>3. Common(t, q) \in N
    BY PartsAt DEF M
  <2>. QED
    BY <2>2, <2>3
(* With another prefix of t. *)
<1>8. ASSUME NEW m \in M \cup {t}, NEW o \in M \cup {t} PROVE Common(m, o) \in N
  <2>1. Common(m, o) \in {m, Common(t, o)}
    BY <1>4, <1>6
  <2>2. Common(o, t) \in {o, Common(t, t)}
    BY <1>4, <1>6
  <2>3. Common(t, t) = t
    <3>1. /\ Common(t, t) \in Seq(Nat) /\ IsPrefix(Common(t, t), t)
          /\ Len(t) <= Len(Common(t, t))
      BY <1>5, CommonIs
    <3>. QED
      BY <3>1, PrefixChain
  <2>4. Common(o, t) = Common(t, o)
    BY <1>3, <1>6
  <2>. QED
    BY <2>1, <2>2, <2>3, <2>4
<1>9. ASSUME NEW p \in DOMAIN tr \cup M \cup {t}, NEW q \in DOMAIN tr \cup M \cup {t} PROVE Common(p, q) \in N
  <2>1. CASE p \in DOMAIN tr /\ q \in DOMAIN tr
    BY <2>1 DEF Closed
  <2>2. CASE p \in M \cup {t} /\ q \in DOMAIN tr
    BY <1>7, <2>2
  <2>3. CASE p \in DOMAIN tr /\ q \in M \cup {t}
    <3>1. Common(p, q) = Common(q, p)
      BY <1>3, <1>6, <2>3 DEF Paths
    <3>. QED
      BY <1>7, <2>3, <3>1
  <2>4. CASE p \in M \cup {t} /\ q \in M \cup {t}
    BY <1>8, <2>4
  <2>. QED
    BY <2>1, <2>2, <2>3, <2>4
<1>10. Closed(DOMAIN tr \cup M \cup {t})
  BY <1>9 DEF Closed
<1>. QED
  BY <1>2, <1>10 DEF M

(* A leaf that goes is where no two others part. *)
LEMMA LeafGoes ==
    ASSUME NEW D, Paths(D), Closed(D), NEW v \in D, \A q \in D : ~ IsStrictPrefix(v, q)
    PROVE  Paths(D \ {v}) /\ Closed(D \ {v})
<1>1. ASSUME NEW p \in D \ {v}, NEW q \in D \ {v} PROVE Common(p, q) # v
  <2>1. IsPrefix(Common(p, q), p)
    BY CommonIs DEF Paths
  <2>. QED
    BY <2>1 DEF IsStrictPrefix
<1>. QED
  BY <1>1 DEF Paths, Closed

(* A path in the tree is matched to its end. *)
LEMMA NodeMatches ==
    ASSUME NEW tr, Paths(DOMAIN tr), NEW t \in DOMAIN tr
    PROVE  At(tr, t) = t /\ ChildOf(tr, t) = {} /\ MatchLen(tr, t) = Len(t)
<1>1. t \in Seq(Nat) /\ Len(t) \in Nat
  BY LenProperties DEF Paths
<1>2. IsPrefix(t, t)
  BY <1>1, PrefixIs
<1>3. At(tr, t) = t
  <2>1. At(tr, t) \in Seq(Nat) /\ IsPrefix(At(tr, t), t) /\ Len(t) <= Len(At(tr, t))
    BY <1>1, <1>2, AtIs
  <2>. QED
    BY <1>1, <2>1, PrefixChain
<1>4. ChildOf(tr, t) = {}
  BY <1>1, <1>3 DEF ChildOf
<1>. QED
  BY <1>3, <1>4 DEF MatchLen

-----------------------------------------------------------------------------
(* Blocks named by a sequence. *)

(* A count of blocks is a natural number. *)
LEMMA CeilDivNat ==
    ASSUME NEW x \in Nat, NEW y \in Nat \ {0}
    PROVE  CeilDiv(x, y) \in Nat
<1>. DEFINE q == (x + y - 1) \div y
            k == (x + y - 1) % y
<1>1. q \in Int /\ k \in 0 .. y - 1 /\ x + y - 1 = y * q + k
  <2>1. x + y - 1 \in Int /\ y \in Int /\ y > 0
    OBVIOUS
  <2>. QED
    BY <2>1
<1>2. CeilDiv(x, y) = q
  BY DEF CeilDiv
<1>. HIDE DEF q, k
<1>3. q \in Nat
  <2>1. SUFFICES ASSUME q + 1 <= 0 PROVE FALSE
    BY <1>1
  <2>2. PICK d \in Nat : q + 1 = 0 - d
    <3>1. 0 - (q + 1) \in Nat /\ q + 1 = 0 - (0 - (q + 1))
      BY <1>1, <2>1
    <3>. QED
      BY <3>1
  <2>3. y * d \in Nat
    OBVIOUS
  <2>4. q = 0 - 1 - d
    BY <1>1, <2>2
  <2>5. y * (0 - 1 - d) = 0 - y - y * d
    OBVIOUS
  <2>6. y * q = 0 - y - y * d
    BY <2>4, <2>5
  <2>. QED
    BY <1>1, <2>3, <2>6
<1>. QED
  BY <1>2, <1>3

(* How often b is named: never if it is not in the sequence. *)
LEMMA OccursType ==
    ASSUME NEW b, NEW s \in Seq(Blocks)
    PROVE  /\ Occurrences(b, s) \in Nat
           /\ Occurrences(b, s) = 0 <=> b \notin Range(s)
           /\ IsFiniteSet({i \in DOMAIN s : s[i] = b})
<1>. DEFINE O == {i \in DOMAIN s : s[i] = b}
<1>1. Len(s) \in Nat /\ DOMAIN s = 1 .. Len(s)
  BY LenProperties
<1>2. IsFiniteSet(1 .. Len(s))
  BY <1>1, FS_Interval
<1>3. O \in SUBSET (1 .. Len(s))
  BY <1>1
<1>4. IsFiniteSet(O)
  BY <1>2, <1>3, FS_Subset
<1>5. Cardinality(O) \in Nat /\ (Cardinality(O) = 0 <=> O = {})
  BY <1>4, FS_CardinalityType, FS_EmptySet
<1>6. O = {} <=> b \notin Range(s)
  BY DEF Range
<1>. QED
  BY <1>4, <1>5, <1>6 DEF Occurrences

(* A concatenation names what its parts name. *)
LEMMA OccursConcat ==
    ASSUME NEW b, NEW s \in Seq(Blocks), NEW t \in Seq(Blocks)
    PROVE  Occurrences(b, s \o t) = Occurrences(b, s) + Occurrences(b, t)
<1>. DEFINE m == Len(s)
            n == Len(t)
            S == {i \in 1 .. m : s[i] = b}
            T == {i \in 1 .. n : t[i] = b}
            U == {i \in m + 1 .. m + n : t[i - m] = b}
            f == [i \in T |-> i + m]
<1>1. /\ m \in Nat /\ n \in Nat /\ DOMAIN s = 1 .. m /\ DOMAIN t = 1 .. n
  BY LenProperties
<1>2. /\ DOMAIN (s \o t) = 1 .. m + n
      /\ \A i \in 1 .. m : (s \o t)[i] = s[i]
      /\ \A i \in m + 1 .. m + n : (s \o t)[i] = t[i - m]
  <2>1. s \o t \in Seq(Blocks) /\ Len(s \o t) = m + n
    BY ConcatProperties
  <2>2. DOMAIN (s \o t) = 1 .. m + n
    BY <2>1, LenProperties
  <2>. QED
    BY <1>1, <2>2, ConcatProperties
<1>3. {i \in DOMAIN (s \o t) : (s \o t)[i] = b} = S \cup U
  <2>1. 1 .. m + n = (1 .. m) \cup (m + 1 .. m + n)
    BY <1>1
  <2>. QED
    BY <1>2, <2>1
<1>4. S \cap U = {}
  BY <1>1
<1>5. IsFiniteSet(S) /\ IsFiniteSet(T)
  BY <1>1, OccursType
<1>6. f \in Bijection(T, U)
  <2>1. f \in [T -> U]
    BY <1>1
  <2>2. \A i, j \in T : f[i] = f[j] => i = j
    BY <1>1
  <2>3. ASSUME NEW u \in U PROVE \E i \in T : f[i] = u
    <3>1. u - m \in T /\ (u - m) + m = u
      BY <1>1
    <3>. QED
      BY <3>1
  <2>. HIDE DEF f, T, U
  <2>. QED
    BY <2>1, <2>2, <2>3 DEF Bijection, Injection, Surjection, IsInjective
<1>. HIDE DEF S, T, U, f
<1>7. IsFiniteSet(U) /\ Cardinality(U) = Cardinality(T)
  BY <1>5, <1>6, FS_Bijection DEF ExistsBijection
<1>8. Cardinality(S \cup U) = Cardinality(S) + Cardinality(U)
  <2>1. Cardinality({}) = 0 /\ Cardinality(S) \in Nat /\ Cardinality(U) \in Nat
    BY <1>5, <1>7, FS_EmptySet, FS_CardinalityType
  <2>2. Cardinality(S \cup U) = Cardinality(S) + Cardinality(U) - Cardinality(S \cap U)
    BY <1>5, <1>7, FS_Union
  <2>3. Cardinality(S \cap U) = 0
    BY <1>4, <2>1
  <2>. QED
    BY <2>1, <2>2, <2>3
<1>9. Occurrences(b, s) = Cardinality(S) /\ Occurrences(b, t) = Cardinality(T)
  BY <1>1 DEF Occurrences, S, T
<1>. QED
  BY <1>3, <1>7, <1>8, <1>9 DEF Occurrences

(* A sequence is cut in two. *)
LEMMA TakeDrop ==
    ASSUME NEW s \in Seq(Blocks), NEW n \in Nat
    PROVE  /\ Take(s, n) \in Seq(Blocks) /\ Drop(s, n) \in Seq(Blocks)
           /\ s = Take(s, n) \o Drop(s, n)
           /\ Len(Take(s, n)) <= n /\ Len(Take(s, n)) \in Nat
<1>. DEFINE k == IF n <= Len(s) THEN n ELSE Len(s)
<1>1. Len(s) \in Nat /\ k \in 0 .. Len(s) /\ k <= n /\ \A i \in 1 .. Len(s) : s[i] \in Blocks
  BY LenProperties, ElementOfSeq
<1>2. Min({n, Len(s)}) = k
  <2>1. k \in {n, Len(s)} /\ \A y \in {n, Len(s)} : k <= y
    BY <1>1
  <2>2. \A z \in {n, Len(s)} : (\A y \in {n, Len(s)} : z <= y) => z = k
    BY <1>1
  <2>. HIDE DEF k
  <2>. QED
    BY <2>1, <2>2 DEF Min
<1>3. Take(s, n) = SubSeq(s, 1, k)
  BY <1>2 DEF Take
<1>4. /\ SubSeq(s, 1, k) \in Seq(Blocks) /\ Len(SubSeq(s, 1, k)) = k
      /\ \A i \in 1 .. k : SubSeq(s, 1, k)[i] = s[i]
  BY <1>1, SubSeqProperties
<1>5. /\ Drop(s, n) \in Seq(Blocks) /\ Len(Drop(s, n)) = Len(s) - k
      /\ \A i \in 1 .. Len(s) - k : Drop(s, n)[i] = s[k + i]
  <2>1. CASE n <= Len(s)
    <3>1. /\ SubSeq(s, n + 1, Len(s)) \in Seq(Blocks)
          /\ Len(SubSeq(s, n + 1, Len(s))) = Len(s) - n
          /\ \A i \in 1 .. Len(s) - n : SubSeq(s, n + 1, Len(s))[i] = s[n + i]
      BY <1>1, <2>1, SubSeqProperties
    <3>. QED
      BY <2>1, <3>1 DEF Drop
  <2>2. CASE n > Len(s)
    <3>1. Drop(s, n) = <<>>
      BY <1>1, <2>2, SubSeqEmpty DEF Drop
    <3>2. Drop(s, n) \in Seq(Blocks) /\ Len(Drop(s, n)) = 0
      BY <3>1, EmptySeq
    <3>3. Len(s) - k = 0
      BY <1>1, <2>2
    <3>. QED
      BY <3>2, <3>3
  <2>. QED
    BY <1>1, <2>1, <2>2
<1>. HIDE DEF k
<1>6. s = SubSeq(s, 1, k) \o Drop(s, n)
  <2>. DEFINE c == SubSeq(s, 1, k) \o Drop(s, n)
  <2>1. c \in Seq(Blocks) /\ Len(c) = Len(s)
    BY <1>1, <1>4, <1>5, ConcatProperties
  <2>2. \A i \in 1 .. Len(s) : c[i] = IF i <= k THEN SubSeq(s, 1, k)[i] ELSE Drop(s, n)[i - k]
    <3>1. Len(SubSeq(s, 1, k)) + Len(Drop(s, n)) = Len(s)
      BY <1>1, <1>4, <1>5
    <3>. QED
      BY <1>4, <1>5, <3>1, ConcatProperties
  <2>. HIDE DEF c
  <2>4. ASSUME NEW i \in 1 .. Len(s) PROVE c[i] = s[i]
    <3>1. CASE i <= k
      <4>1. i \in 1 .. k
        BY <1>1, <3>1
      <4>. QED
        BY <1>4, <2>2, <3>1, <4>1
    <3>2. CASE ~ (i <= k)
      <4>1. i - k \in 1 .. Len(s) - k /\ k + (i - k) = i
        BY <1>1, <3>2
      <4>. QED
        BY <1>5, <2>2, <3>2, <4>1
    <3>. QED
      BY <3>1, <3>2
  <2>3. c = s
    BY <2>1, <2>4, SeqEqual
  <2>. QED
    BY <2>3 DEF c
<1>. QED
  BY <1>1, <1>3, <1>4, <1>5, <1>6

-----------------------------------------------------------------------------
(* Blocks named by a tree. *)

(* Trees as insert and evict leave them. *)
TreeOK(tr) ==
    /\ Paths(DOMAIN tr) /\ Closed(DOMAIN tr)
    /\ IsFiniteSet(DOMAIN tr)
    /\ \A p \in DOMAIN tr : tr[p] \in Seq(Blocks)

(* The blocks of the node that ends at position k of t. *)
Piece(tr, t, k) == IF SubSeq(t, 1, k) \in DOMAIN tr THEN tr[SubSeq(t, 1, k)] ELSE <<>>

(* The blocks along t up to each position. *)
Along(tr, t, n, f) ==
    /\ f = [k \in 0 .. n |-> f[k]]
    /\ f[0] = <<>>
    /\ \A k \in 1 .. n : f[k] = f[k - 1] \o Piece(tr, t, k)

(* There is such a table, up to every position. *)
LEMMA AlongExists ==
    ASSUME NEW tr, NEW t
    PROVE  \A n \in Nat : \E f : Along(tr, t, n, f)
<1>. DEFINE T == {n \in Nat : ~ \E f : Along(tr, t, n, f)}
<1>. SUFFICES ASSUME T # {} PROVE FALSE
  OBVIOUS
<1>1. PICK n \in T : \A m \in T : n <= m
  <2>1. T \in SUBSET Nat
    OBVIOUS
  <2>. HIDE DEF T
  <2>. QED
    BY <2>1, LeastNat
<1>2. CASE n = 0
  <2>1. Along(tr, t, 0, [i \in 0 .. 0 |-> <<>>])
    BY DEF Along
  <2>. QED
    BY <1>1, <1>2, <2>1
<1>3. CASE n > 0
  <2>1. n \in Nat /\ n - 1 \in Nat /\ n - 1 \notin T
    BY <1>1, <1>3
  <2>2. PICK g : Along(tr, t, n - 1, g)
    BY <2>1
  <2>. DEFINE f == [i \in 0 .. n |-> IF i = n THEN g[n - 1] \o Piece(tr, t, n) ELSE g[i]]
  <2>4. f[0] = <<>>
    BY <1>3, <2>1, <2>2 DEF Along
  <2>8. f = [i \in 0 .. n |-> f[i]]
    OBVIOUS
  <2>5. f[n] = g[n - 1] \o Piece(tr, t, n) /\ \A i \in 0 .. n - 1 : f[i] = g[i]
    BY <1>3, <2>1
  <2>6. \A i \in 1 .. n - 1 : g[i] = g[i - 1] \o Piece(tr, t, i)
    BY <2>2 DEF Along
  <2>. HIDE DEF f
  <2>7. ASSUME NEW i \in 1 .. n PROVE f[i] = f[i - 1] \o Piece(tr, t, i)
    <3>1. CASE i = n
      <4>1. n - 1 \in 0 .. n - 1
        BY <2>1
      <4>2. f[n - 1] = g[n - 1]
        BY <2>5, <4>1
      <4>. QED
        BY <2>5, <3>1, <4>2
    <3>2. CASE i # n
      <4>1. i \in 1 .. n - 1 /\ i \in 0 .. n - 1 /\ i - 1 \in 0 .. n - 1
        BY <2>1, <3>2
      <4>. QED
        BY <2>5, <2>6, <4>1
    <3>. QED
      BY <3>1, <3>2
  <2>3. Along(tr, t, n, f)
    BY <2>4, <2>7, <2>8 DEF Along
  <2>. QED
    BY <1>1, <2>3
<1>. QED
  BY <1>1, <1>2, <1>3

(* PathBlocks is its last entry. *)
LEMMA PathBlocksIs ==
    ASSUME NEW tr, NEW t \in Seq(Nat)
    PROVE  \E f : Along(tr, t, Len(t), f) /\ PathBlocks(tr, t) = f[Len(t)]
<1>. DEFINE F(f) == [k \in 0 .. Len(t) |->
                        IF k = 0 THEN <<>>
                        ELSE f[k - 1] \o (IF SubSeq(t, 1, k) \in DOMAIN tr THEN tr[SubSeq(t, 1, k)] ELSE <<>>)]
            upTo == CHOOSE f : f = F(f)
<1>0. Len(t) \in Nat
  BY LenProperties
<1>1. \E f : f = F(f)
  <2>1. PICK g : Along(tr, t, Len(t), g)
    BY <1>0, AlongExists
  <2>2. g = [k \in 0 .. Len(t) |-> g[k]]
    BY <2>1 DEF Along
  <2>3. ASSUME NEW k \in 0 .. Len(t)
        PROVE  g[k] = IF k = 0 THEN <<>>
                      ELSE g[k - 1] \o (IF SubSeq(t, 1, k) \in DOMAIN tr THEN tr[SubSeq(t, 1, k)] ELSE <<>>)
    <3>1. CASE k = 0
      BY <2>1, <3>1 DEF Along
    <3>2. CASE k # 0
      <4>1. k \in 1 .. Len(t)
        BY <1>0, <3>2
      <4>2. g[k] = g[k - 1] \o Piece(tr, t, k)
        BY <2>1, <4>1 DEF Along
      <4>. QED
        BY <3>2, <4>2 DEF Piece
    <3>. QED
      BY <3>1, <3>2
  <2>4. g = F(g)
    BY <2>2, <2>3, Zenon
  <2>. QED
    BY <2>4
<1>2. upTo = F(upTo)
  BY <1>1
<1>3. PathBlocks(tr, t) = upTo[Len(t)]
  BY DEF PathBlocks
<1>. HIDE DEF upTo
<1>4. Along(tr, t, Len(t), upTo)
  <2>1. upTo = [k \in 0 .. Len(t) |-> upTo[k]]
    BY <1>2, Zenon
  <2>2. \A k \in 0 .. Len(t) : upTo[k] = IF k = 0 THEN <<>> ELSE upTo[k - 1] \o Piece(tr, t, k)
    BY <1>2, Zenon DEF Piece
  <2>. HIDE DEF F
  <2>3. upTo[0] = <<>>
    BY <1>0, <2>2
  <2>4. \A k \in 1 .. Len(t) : k \in 0 .. Len(t) /\ k # 0
    BY <1>0
  <2>5. \A k \in 1 .. Len(t) : upTo[k] = upTo[k - 1] \o Piece(tr, t, k)
    BY <2>2, <2>4, Zenon
  <2>. QED
    BY <2>1, <2>3, <2>5, Zenon DEF Along
<1>. QED
  BY <1>3, <1>4

(* A sequence of blocks of nodes. *)
FromNodes(tr, s) == s \in Seq(Blocks) /\ \A b \in Range(s) : \E p \in DOMAIN tr : b \in Range(tr[p])

(* They are blocks of nodes. *)
LEMMA AlongBlocks ==
    ASSUME NEW tr, NEW t \in Seq(Nat), \A p \in DOMAIN tr : tr[p] \in Seq(Blocks),
           NEW n \in Nat, NEW f, Along(tr, t, n, f)
    PROVE  \A k \in 0 .. n : FromNodes(tr, f[k])
<1>. DEFINE Good(s) == FromNodes(tr, s)
            T == {k \in 0 .. n : ~ Good(f[k])}
<1>. SUFFICES ASSUME T # {} PROVE FALSE
  OBVIOUS
<1>0. Good(<<>>)
  BY EmptySeq DEF Range, FromNodes
<1>1. PICK k \in T : \A m \in T : k <= m
  <2>1. T \in SUBSET Nat
    OBVIOUS
  <2>. HIDE DEF T
  <2>. QED
    BY <2>1, LeastNat
<1>2. k # 0
  BY <1>0, <1>1 DEF Along
<1>3. k \in 1 .. n /\ k - 1 \in 0 .. n /\ Good(f[k - 1])
  <2>1. k \in 1 .. n /\ k - 1 \in 0 .. n /\ ~ (k <= k - 1)
    BY <1>1, <1>2
  <2>2. k - 1 \notin T
    BY <1>1, <2>1
  <2>. HIDE DEF Good
  <2>. QED
    BY <2>1, <2>2
<1>4. Good(Piece(tr, t, k))
  BY <1>0 DEF Piece, FromNodes
<1>. HIDE DEF T
<1>5. ASSUME NEW x, Good(x), NEW y, Good(y) PROVE Good(x \o y)
  <2>1. x \o y \in Seq(Blocks) /\ Range(x \o y) = Range(x) \cup Range(y)
    BY <1>5, ConcatProperties, RangeConcatenation DEF FromNodes
  <2>. QED
    BY <1>5, <2>1 DEF FromNodes
<1>6. Good(f[k])
  <2>1. f[k] = f[k - 1] \o Piece(tr, t, k)
    BY <1>3 DEF Along
  <2>. HIDE DEF Good
  <2>. QED
    BY <1>3, <1>4, <1>5, <2>1
<1>. QED
  BY <1>1, <1>6 DEF T

(* The blocks of a hit are blocks of nodes. *)
LEMMA HitBlocks ==
    ASSUME NEW tr, TreeOK(tr), NEW t \in Seq(Nat), BlockSize \in Nat \ {0}
    PROVE  /\ PathBlocks(tr, t) \in Seq(Blocks)
           /\ FromNodes(tr, MatchBlocks(tr, t))
<1>1. FromNodes(tr, PathBlocks(tr, t)) /\ PathBlocks(tr, t) \in Seq(Blocks)
  <2>1. PICK f : Along(tr, t, Len(t), f) /\ PathBlocks(tr, t) = f[Len(t)]
    BY PathBlocksIs
  <2>2. Len(t) \in Nat /\ Len(t) \in 0 .. Len(t)
    BY LenProperties
  <2>3. \A k \in 0 .. Len(t) : FromNodes(tr, f[k])
    BY <2>1, <2>2, AlongBlocks DEF TreeOK
  <2>4. FromNodes(tr, f[Len(t)])
    BY <2>2, <2>3, Zenon
  <2>. QED
    BY <2>1, <2>4 DEF FromNodes
<1>2. CASE ChildOf(tr, t) = {}
  <2>1. MatchBlocks(tr, t) = PathBlocks(tr, t) \o <<>>
    BY <1>2 DEF MatchBlocks
  <2>2. MatchBlocks(tr, t) = PathBlocks(tr, t)
    BY <1>1, <2>1, ConcatEmptySeq
  <2>. QED
    BY <1>1, <2>2
<1>3. CASE ChildOf(tr, t) # {}
  <2>. DEFINE c == CHOOSE x \in ChildOf(tr, t) : TRUE
              n == CeilDiv(MatchLen(tr, t) - Len(At(tr, t)), BlockSize)
  <2>1. c \in ChildOf(tr, t)
    BY <1>3
  <2>2. MatchBlocks(tr, t) = PathBlocks(tr, t) \o Take(tr[c], n)
    BY <1>3 DEF MatchBlocks
  <2>3. MatchLen(tr, t) = Len(Common(t, c))
    BY <1>3 DEF MatchLen
  <2>. HIDE DEF c
  <2>4. n \in Nat
    <3>1. Len(At(tr, t)) \in Nat /\ Len(Common(t, c)) \in Nat /\ Len(At(tr, t)) < Len(Common(t, c))
      BY <2>1, AtIs, MidIs, LenProperties DEF TreeOK
    <3>2. MatchLen(tr, t) - Len(At(tr, t)) \in Nat
      BY <2>3, <3>1
    <3>. QED
      BY <3>2, CeilDivNat
  <2>5. c \in DOMAIN tr /\ tr[c] \in Seq(Blocks)
    BY <2>1 DEF TreeOK, ChildOf
  <2>. HIDE DEF n
  <2>6. Take(tr[c], n) \in Seq(Blocks) /\ Drop(tr[c], n) \in Seq(Blocks) /\ tr[c] = Take(tr[c], n) \o Drop(tr[c], n)
    BY <2>4, <2>5, TakeDrop
  <2>7. Range(tr[c]) = Range(Take(tr[c], n)) \cup Range(Drop(tr[c], n))
    <3>1. PICK x \in Seq(Blocks), y \in Seq(Blocks) : x = Take(tr[c], n) /\ y = Drop(tr[c], n)
      BY <2>6
    <3>2. Range(x \o y) = Range(x) \cup Range(y)
      BY RangeConcatenation
    <3>3. tr[c] = x \o y
      BY <2>6, <3>1, Zenon
    <3>. QED
      BY <3>1, <3>2, <3>3, Zenon
  <2>8. MatchBlocks(tr, t) \in Seq(Blocks)
        /\ Range(MatchBlocks(tr, t)) = Range(PathBlocks(tr, t)) \cup Range(Take(tr[c], n))
    BY <1>1, <2>2, <2>6, ConcatProperties, RangeConcatenation
  <2>. QED
    BY <1>1, <2>5, <2>7, <2>8 DEF FromNodes
<1>. QED
  BY <1>1, <1>2, <1>3

(* What a split does: nothing, or the child's blocks are shared out between
   the node above and itself. *)
LEMMA SplitIs ==
    ASSUME NEW tr, TreeOK(tr), NEW t \in Seq(Nat), BlockSize \in Nat \ {0}
    PROVE  \/ ChildOf(tr, t) = {} /\ Mid(tr, t) = {} /\ Split(tr, t) = tr
           \/ \E c \in ChildOf(tr, t) : \E n \in Nat :
                 /\ DOMAIN Split(tr, t) = DOMAIN tr \cup {Common(t, c)}
                 /\ Mid(tr, t) = {Common(t, c)}
                 /\ Split(tr, t)[Common(t, c)] = Take(tr[c], n)
                 /\ Split(tr, t)[c] = Drop(tr[c], n)
                 /\ \A q \in DOMAIN tr \ {c} : Split(tr, t)[q] = tr[q]
<1>1. CASE ChildOf(tr, t) = {}
  BY <1>1 DEF Split, Mid
<1>2. CASE ChildOf(tr, t) # {}
  <2>. DEFINE c == CHOOSE x \in ChildOf(tr, t) : TRUE
              n == CeilDiv(MatchLen(tr, t) - Len(At(tr, t)), BlockSize)
              m == Common(t, c)
  <2>1. c \in ChildOf(tr, t)
    BY <1>2
  <2>2. Split(tr, t) = [p \in DOMAIN tr \cup {m} |->
                           CASE p = m -> Take(tr[c], n) [] p = c -> Drop(tr[c], n) [] OTHER -> tr[p]]
    BY <1>2 DEF Split
  <2>3. MatchLen(tr, t) = Len(Common(t, c))
    BY <1>2 DEF MatchLen
  <2>. HIDE DEF c
  <2>4. n \in Nat
    <3>1. Len(At(tr, t)) \in Nat /\ Len(Common(t, c)) \in Nat /\ Len(At(tr, t)) < Len(Common(t, c))
      BY <2>1, AtIs, MidIs, LenProperties DEF TreeOK
    <3>2. MatchLen(tr, t) - Len(At(tr, t)) \in Nat
      BY <2>3, <3>1
    <3>. QED
      BY <3>2, CeilDivNat
  <2>5. m \notin DOMAIN tr /\ c \in DOMAIN tr /\ Mid(tr, t) = {m}
    BY <2>1, MidIs, ChildIs DEF TreeOK
  <2>. HIDE DEF n, m
  <2>6. /\ DOMAIN Split(tr, t) = DOMAIN tr \cup {m}
        /\ Split(tr, t)[m] = Take(tr[c], n)
        /\ Split(tr, t)[c] = Drop(tr[c], n)
        /\ \A q \in DOMAIN tr \ {c} : Split(tr, t)[q] = tr[q]
    BY <2>2, <2>5
  <2>. QED
    BY <2>1, <2>4, <2>5, <2>6 DEF m
<1>. QED
  BY <1>1, <1>2

-----------------------------------------------------------------------------
(* How often the sequences of a function, a tree or the tables, name b. *)
Named(g, b) == SumFunctionOnSet([p \in DOMAIN g |-> Occurrences(b, g[p])], DOMAIN g)

(* Functions whose values are blocks. *)
Naming(g) == IsFiniteSet(DOMAIN g) /\ \A p \in DOMAIN g : g[p] \in Seq(Blocks)

(* h is g without p. *)
LessOne(h, g, p) == p \in DOMAIN g /\ DOMAIN h = DOMAIN g \ {p} /\ \A q \in DOMAIN h : h[q] = g[q]

(* One sequence less. *)
LEMMA NamedTakes ==
    ASSUME NEW b, NEW g, NEW p, NEW h, Naming(g), LessOne(h, g, p)
    PROVE  /\ Naming(h) /\ Named(h, b) \in Nat
           /\ Named(g, b) = Occurrences(b, g[p]) + Named(h, b)
<1>0. p \in DOMAIN g /\ DOMAIN h = DOMAIN g \ {p} /\ \A q \in DOMAIN h : h[q] = g[q]
  BY DEF LessOne
<1>1. IsFiniteSet(DOMAIN g) /\ IsFiniteSet(DOMAIN h) /\ Naming(h)
  BY <1>0, FS_RemoveElement DEF Naming
<1>. DEFINE F == [q \in DOMAIN g |-> Occurrences(b, g[q])]
            H == [q \in DOMAIN h |-> Occurrences(b, h[q])]
<1>2. /\ \A q \in DOMAIN g : F[q] \in Nat
      /\ \A q \in DOMAIN h : H[q] \in Nat /\ F[q] \in Nat /\ H[q] = F[q]
      /\ F[p] = Occurrences(b, g[p])
  BY <1>0, <1>1, OccursType DEF Naming
<1>3. PICK S : S = DOMAIN g
  OBVIOUS
<1>4. PICK R : R = DOMAIN h
  OBVIOUS
<1>5. Named(g, b) = SumFunctionOnSet(F, S) /\ Named(h, b) = SumFunctionOnSet(H, R)
  BY <1>3, <1>4 DEF Named
<1>. HIDE DEF F, H
<1>6. SumFunctionOnSet(F, S) = F[p] + SumFunctionOnSet(F, S \ {p})
  BY <1>0, <1>1, <1>2, <1>3, SumTakes
<1>7. S \ {p} = R
  BY <1>0, <1>3, <1>4
<1>8. SumFunctionOnSet(F, R) = SumFunctionOnSet(H, R) /\ SumFunctionOnSet(H, R) \in Nat
  BY <1>1, <1>2, <1>4, SumSame, SumTakes
<1>. QED
  BY <1>1, <1>2, <1>5, <1>6, <1>7, <1>8

(* The same function without one element. *)
Rest(g, p) == [q \in DOMAIN g \ {p} |-> g[q]]

(* It counts one sequence less. *)
LEMMA Removed ==
    ASSUME NEW b, NEW g, Naming(g), NEW p \in DOMAIN g
    PROVE  /\ Naming(Rest(g, p)) /\ Named(Rest(g, p), b) \in Nat
           /\ DOMAIN Rest(g, p) = DOMAIN g \ {p}
           /\ \A q \in DOMAIN g \ {p} : Rest(g, p)[q] = g[q]
           /\ Named(g, b) = Occurrences(b, g[p]) + Named(Rest(g, p), b)
<1>1. PICK h : h = Rest(g, p)
  OBVIOUS
<1>2. DOMAIN h = DOMAIN g \ {p} /\ \A q \in DOMAIN h : h[q] = g[q]
  BY <1>1 DEF Rest
<1>3. /\ Naming(h) /\ Named(h, b) \in Nat
      /\ Named(g, b) = Occurrences(b, g[p]) + Named(h, b)
  <2>1. LessOne(h, g, p)
    BY <1>2 DEF LessOne
  <2>. QED
    BY <2>1, NamedTakes
<1>. QED
  BY <1>1, <1>2, <1>3

(* A count is a number; each sequence, and each two, count in it. *)
LEMMA NamedType ==
    ASSUME NEW b, NEW g, Naming(g)
    PROVE  /\ Named(g, b) \in Nat
           /\ \A p \in DOMAIN g : Occurrences(b, g[p]) \in Nat /\ Occurrences(b, g[p]) <= Named(g, b)
           /\ \A p, q \in DOMAIN g : p # q => Occurrences(b, g[p]) + Occurrences(b, g[q]) <= Named(g, b)
<1>0. \A p \in DOMAIN g : Occurrences(b, g[p]) \in Nat
  BY OccursType DEF Naming
<1>1. Named(g, b) \in Nat
  <2>. DEFINE F == [q \in DOMAIN g |-> Occurrences(b, g[q])]
  <2>1. \A q \in DOMAIN g : F[q] \in Nat
    BY <1>0
  <2>2. PICK S : S = DOMAIN g
    OBVIOUS
  <2>3. Named(g, b) = SumFunctionOnSet(F, S)
    BY <2>2 DEF Named
  <2>. HIDE DEF F
  <2>. QED
    BY <2>1, <2>2, <2>3, SumTakes DEF Naming
<1>2. ASSUME NEW p \in DOMAIN g PROVE Occurrences(b, g[p]) <= Named(g, b)
  <2>1. /\ Named(Rest(g, p), b) \in Nat
        /\ Named(g, b) = Occurrences(b, g[p]) + Named(Rest(g, p), b)
    BY Removed
  <2>. QED
    BY <1>0, <2>1
<1>3. ASSUME NEW p \in DOMAIN g, NEW q \in DOMAIN g, p # q
      PROVE  Occurrences(b, g[p]) + Occurrences(b, g[q]) <= Named(g, b)
  <2>0. PICK h : h = Rest(g, p)
    OBVIOUS
  <2>1. /\ Naming(h) /\ Named(h, b) \in Nat
        /\ DOMAIN h = DOMAIN g \ {p}
        /\ \A o \in DOMAIN g \ {p} : h[o] = g[o]
        /\ Named(g, b) = Occurrences(b, g[p]) + Named(h, b)
    BY <2>0, Removed
  <2>2. q \in DOMAIN h /\ h[q] = g[q]
    BY <1>3, <2>1
  <2>3. /\ Named(Rest(h, q), b) \in Nat
        /\ Named(h, b) = Occurrences(b, h[q]) + Named(Rest(h, q), b)
    BY <2>1, <2>2, Removed
  <2>. QED
    BY <1>0, <2>1, <2>2, <2>3
<1>. QED
  BY <1>0, <1>1, <1>2, <1>3

(* Another sequence for one element. *)
LEMMA NamedChanges ==
    ASSUME NEW b, NEW g, Naming(g), NEW p \in DOMAIN g,
           NEW h, Naming(h), DOMAIN h = DOMAIN g, \A q \in DOMAIN g \ {p} : h[q] = g[q]
    PROVE  Named(h, b) = Named(g, b) - Occurrences(b, g[p]) + Occurrences(b, h[p])
<1>0. PICK r : r = Rest(g, p)
  OBVIOUS
<1>1. /\ Naming(r) /\ Named(r, b) \in Nat
      /\ DOMAIN r = DOMAIN g \ {p}
      /\ \A q \in DOMAIN g \ {p} : r[q] = g[q]
      /\ Named(g, b) = Occurrences(b, g[p]) + Named(r, b)
  BY <1>0, Removed
<1>2. LessOne(r, h, p)
  BY <1>1 DEF LessOne
<1>3. Named(h, b) = Occurrences(b, h[p]) + Named(r, b)
  BY <1>2, NamedTakes
<1>4. Occurrences(b, g[p]) \in Nat /\ Occurrences(b, h[p]) \in Nat
  BY OccursType DEF Naming
<1>. QED
  BY <1>1, <1>3, <1>4

(* A split shares out the child's blocks: none is named more often or less. *)
LEMMA SplitKeepsNamed ==
    ASSUME NEW tr, TreeOK(tr), NEW t \in Seq(Nat), BlockSize \in Nat \ {0}, NEW b
    PROVE  Naming(Split(tr, t)) /\ Named(Split(tr, t), b) = Named(tr, b)
<1>0. Naming(tr)
  BY DEF TreeOK, Naming
<1>1. CASE Split(tr, t) = tr
  BY <1>0, <1>1
<1>2. CASE \E c \in ChildOf(tr, t) : \E n \in Nat :
                 /\ DOMAIN Split(tr, t) = DOMAIN tr \cup {Common(t, c)}
                 /\ Mid(tr, t) = {Common(t, c)}
                 /\ Split(tr, t)[Common(t, c)] = Take(tr[c], n)
                 /\ Split(tr, t)[c] = Drop(tr[c], n)
                 /\ \A q \in DOMAIN tr \ {c} : Split(tr, t)[q] = tr[q]
  <2>1. PICK s : s = Split(tr, t)
    OBVIOUS
  <2>2. PICK c \in ChildOf(tr, t), n \in Nat :
                 /\ DOMAIN s = DOMAIN tr \cup {Common(t, c)}
                 /\ s[Common(t, c)] = Take(tr[c], n)
                 /\ s[c] = Drop(tr[c], n)
                 /\ \A q \in DOMAIN tr \ {c} : s[q] = tr[q]
    BY <1>2, <2>1
  <2>3. PICK m : m = Common(t, c)
    OBVIOUS
  <2>4. c \in DOMAIN tr /\ m \notin DOMAIN tr /\ tr[c] \in Seq(Blocks)
    BY <2>3, ChildIs, MidIs DEF TreeOK
  <2>5. /\ Take(tr[c], n) \in Seq(Blocks) /\ Drop(tr[c], n) \in Seq(Blocks)
        /\ tr[c] = Take(tr[c], n) \o Drop(tr[c], n)
    BY <2>4, TakeDrop
  <2>6. Naming(s)
    <3>1. IsFiniteSet(DOMAIN s)
      BY <1>0, <2>2, FS_AddElement DEF Naming
    <3>2. \A q \in DOMAIN s : s[q] \in Seq(Blocks)
      BY <1>0, <2>2, <2>5 DEF Naming
    <3>. QED
      BY <3>1, <3>2 DEF Naming
  <2>12. PICK u : u = Rest(s, m)
    OBVIOUS
  <2>7. /\ Naming(u) /\ Named(u, b) \in Nat
        /\ DOMAIN u = DOMAIN s \ {m}
        /\ \A q \in DOMAIN s \ {m} : u[q] = s[q]
        /\ Named(s, b) = Occurrences(b, s[m]) + Named(u, b)
    <3>1. m \in DOMAIN s
      BY <2>2, <2>3
    <3>2. /\ Naming(Rest(s, m)) /\ Named(Rest(s, m), b) \in Nat
          /\ DOMAIN Rest(s, m) = DOMAIN s \ {m}
          /\ \A q \in DOMAIN s \ {m} : Rest(s, m)[q] = s[q]
          /\ Named(s, b) = Occurrences(b, s[m]) + Named(Rest(s, m), b)
      BY <2>6, <3>1, Removed
    <3>. QED
      BY <2>12, <3>2, Zenon
  <2>8. DOMAIN u = DOMAIN tr /\ u[c] = Drop(tr[c], n) /\ \A q \in DOMAIN tr \ {c} : u[q] = tr[q]
    BY <2>2, <2>3, <2>4, <2>7
  <2>9. Named(u, b) = Named(tr, b) - Occurrences(b, tr[c]) + Occurrences(b, u[c])
    BY <1>0, <2>4, <2>7, <2>8, NamedChanges
  <2>10. Occurrences(b, tr[c]) = Occurrences(b, s[m]) + Occurrences(b, u[c])
    BY <2>2, <2>3, <2>5, <2>8, OccursConcat
  <2>11. Occurrences(b, s[m]) \in Nat /\ Occurrences(b, u[c]) \in Nat /\ Named(tr, b) \in Nat
    BY <1>0, <2>2, <2>3, <2>5, <2>8, OccursType, NamedType
  <2>. QED
    BY <2>1, <2>6, <2>7, <2>9, <2>10, <2>11
<1>. QED
  BY <1>1, <1>2, SplitIs

(* The leaf an insertion adds, if any. *)
Leaf(tr, t, blocks) == IF NeedsLeaf(tr, t) THEN LeafBlocks(tr, t, blocks) ELSE <<>>

(* Insert leaves a tree whose count has grown by the leaf's blocks. *)
LEMMA InsertNames ==
    ASSUME NEW tr, TreeOK(tr), NEW t \in Seq(Nat), t # <<>>, BlockSize \in Nat \ {0},
           NEW blocks \in Seq(Blocks), NEW b
    PROVE  /\ TreeOK(Insert(tr, t, blocks))
           /\ Leaf(tr, t, blocks) \in Seq(Blocks)
           /\ Occurrences(b, Leaf(tr, t, blocks)) <= Occurrences(b, blocks)
           /\ Named(Insert(tr, t, blocks), b) = Named(tr, b) + Occurrences(b, Leaf(tr, t, blocks))
<1>1. PICK s : s = Split(tr, t)
  OBVIOUS
<1>2. PICK i : i = Insert(tr, t, blocks)
  OBVIOUS
<1>3. /\ DOMAIN s = DOMAIN tr \cup Mid(tr, t)
      /\ DOMAIN i = DOMAIN s \cup {t}
      /\ NeedsLeaf(tr, t) <=> t \notin DOMAIN s
      /\ \A q \in DOMAIN s : i[q] = s[q]
      /\ NeedsLeaf(tr, t) => i[t] = LeafBlocks(tr, t, blocks)
  <2>1. DOMAIN s = DOMAIN tr \cup Mid(tr, t)
    BY <1>1, SplitIs
  <2>2. i = [p \in DOMAIN s \cup {t} |-> IF p \in DOMAIN s THEN s[p] ELSE LeafBlocks(tr, t, blocks)]
    BY <1>1, <1>2 DEF Insert
  <2>3. NeedsLeaf(tr, t) <=> t \notin DOMAIN s
    BY <1>1 DEF NeedsLeaf
  <2>. QED
    BY <2>1, <2>2, <2>3
<1>4. Naming(s) /\ Named(s, b) = Named(tr, b)
  BY <1>1, SplitKeepsNamed
<1>5. PICK n \in Nat : n = BlockOffset(tr, t)
  <2>1. PathBlocks(tr, t) \in Seq(Blocks)
    BY HitBlocks
  <2>2. BlockOffset(tr, t) \in Nat
    BY <2>1, LenProperties DEF BlockOffset
  <2>. QED
    BY <2>2
<1>6. /\ LeafBlocks(tr, t, blocks) = Drop(blocks, n)
      /\ Drop(blocks, n) \in Seq(Blocks) /\ Take(blocks, n) \in Seq(Blocks)
      /\ blocks = Take(blocks, n) \o Drop(blocks, n)
  BY <1>5, TakeDrop DEF LeafBlocks
<1>7. /\ Occurrences(b, blocks) = Occurrences(b, Take(blocks, n)) + Occurrences(b, Drop(blocks, n))
      /\ Occurrences(b, Take(blocks, n)) \in Nat /\ Occurrences(b, Drop(blocks, n)) \in Nat
  <2>1. PICK x \in Seq(Blocks), y \in Seq(Blocks) : x = Take(blocks, n) /\ y = Drop(blocks, n)
    BY <1>6
  <2>2. Occurrences(b, x \o y) = Occurrences(b, x) + Occurrences(b, y)
    BY OccursConcat
  <2>3. Occurrences(b, x) \in Nat /\ Occurrences(b, y) \in Nat
    BY OccursType
  <2>4. blocks = x \o y
    BY <1>6, <2>1, Zenon
  <2>. QED
    BY <2>1, <2>2, <2>3, <2>4, Zenon
<1>8. <<>> \in Seq(Blocks) /\ Occurrences(b, <<>>) = 0
  <2>1. <<>> \in Seq(Blocks) /\ b \notin Range(<<>>)
    BY EmptySeq DEF Range
  <2>. QED
    BY <2>1, OccursType
<1>9. Naming(i)
  <2>1. IsFiniteSet(DOMAIN i)
    <3>1. IsFiniteSet(DOMAIN s)
      BY <1>4 DEF Naming
    <3>2. IsFiniteSet(DOMAIN s \cup {t})
      BY <3>1, FS_AddElement
    <3>. QED
      BY <1>3, <3>2, Zenon
  <2>2. ASSUME NEW q \in DOMAIN i PROVE i[q] \in Seq(Blocks)
    <3>1. CASE q \in DOMAIN s
      BY <1>3, <1>4, <3>1 DEF Naming
    <3>2. CASE q \notin DOMAIN s
      BY <1>3, <1>6, <3>2
    <3>. QED
      BY <3>1, <3>2
  <2>. QED
    BY <2>1, <2>2 DEF Naming
<1>10. TreeOK(i)
  <2>1. DOMAIN i = DOMAIN tr \cup Mid(tr, t) \cup {t}
    BY <1>3
  <2>2. Paths(DOMAIN i) /\ Closed(DOMAIN i)
    BY <2>1, InsertCloses DEF TreeOK
  <2>. QED
    BY <1>9, <2>2 DEF TreeOK, Naming
<1>11. Leaf(tr, t, blocks) \in Seq(Blocks) /\ Occurrences(b, Leaf(tr, t, blocks)) <= Occurrences(b, blocks)
  BY <1>6, <1>7, <1>8 DEF Leaf
<1>12. CASE NeedsLeaf(tr, t)
  <2>1. DOMAIN s = DOMAIN i \ {t} /\ t \in DOMAIN i /\ \A q \in DOMAIN s : s[q] = i[q]
    BY <1>3, <1>12
  <2>2. Named(i, b) = Occurrences(b, i[t]) + Named(s, b) /\ Named(s, b) \in Nat
    <3>1. LessOne(s, i, t)
      BY <2>1 DEF LessOne
    <3>. QED
      BY <1>9, <3>1, NamedTakes
  <2>3. i[t] = Leaf(tr, t, blocks)
    BY <1>3, <1>12 DEF Leaf
  <2>. QED
    BY <1>2, <1>4, <1>6, <1>7, <1>10, <1>11, <2>2, <2>3, <1>12 DEF Leaf
<1>13. CASE ~ NeedsLeaf(tr, t)
  <2>1. DOMAIN i = DOMAIN s /\ \A q \in DOMAIN s : i[q] = s[q]
    BY <1>3, <1>13
  <2>2. Named(i, b) = Named(s, b)
    <3>1. [q \in DOMAIN i |-> Occurrences(b, i[q])] = [q \in DOMAIN s |-> Occurrences(b, s[q])]
      BY <2>1
    <3>. QED
      BY <2>1, <3>1, Zenon DEF Named
  <2>3. Leaf(tr, t, blocks) = <<>>
    BY <1>13 DEF Leaf
  <2>4. Named(s, b) \in Nat
    BY <1>4, NamedType
  <2>. QED
    BY <1>2, <1>4, <1>8, <1>10, <1>11, <2>2, <2>3, <2>4
<1>. QED
  BY <1>12, <1>13

-----------------------------------------------------------------------------
(* The blocks along a path. *)

(* Every piece is a sequence of blocks. *)
LEMMA PieceType ==
    ASSUME NEW tr, NEW t, NEW k, \A p \in DOMAIN tr : tr[p] \in Seq(Blocks)
    PROVE  Piece(tr, t, k) \in Seq(Blocks)
  BY EmptySeq DEF Piece

(* Concatenation is associative. *)
LEMMA BlocksConcat ==
    ASSUME NEW w \in Seq(Blocks), NEW x \in Seq(Blocks), NEW y \in Seq(Blocks)
    PROVE  (w \o x) \o y = w \o (x \o y)
  BY ConcatAssociative

(* Blocks move from the piece at j to the one at i, with none between them. *)
Shared(tr, ts, t, i, j, x, y) ==
    /\ \A k \in 1 .. Len(t) : k # i /\ k # j => Piece(ts, t, k) = Piece(tr, t, k)
    /\ \A k \in 1 .. Len(t) : i < k /\ k < j => Piece(tr, t, k) = <<>>
    /\ Piece(tr, t, i) = <<>> /\ Piece(ts, t, i) = x
    /\ Piece(tr, t, j) = x \o y /\ Piece(ts, t, j) = y

(* The blocks up to k, before and after. *)
Moved(f, g, i, j, x, k) == g[k] = IF i <= k /\ k < j THEN f[k] \o x ELSE f[k]

(* The path's blocks are the same then. *)
LEMMA SharedPath ==
    ASSUME NEW tr, NEW ts, NEW t \in Seq(Nat), NEW x \in Seq(Blocks), NEW y \in Seq(Blocks),
           NEW i \in 1 .. Len(t), NEW j \in 1 .. Len(t), i < j,
           \A p \in DOMAIN tr : tr[p] \in Seq(Blocks),
           Shared(tr, ts, t, i, j, x, y)
    PROVE  PathBlocks(ts, t) = PathBlocks(tr, t)
<1>0. Len(t) \in Nat
  BY LenProperties
<1>1. PICK f : Along(tr, t, Len(t), f) /\ PathBlocks(tr, t) = f[Len(t)]
  BY PathBlocksIs
<1>2. PICK g : Along(ts, t, Len(t), g) /\ PathBlocks(ts, t) = g[Len(t)]
  BY PathBlocksIs
<1>3. \A k \in 0 .. Len(t) : f[k] \in Seq(Blocks)
  BY <1>0, <1>1, AlongBlocks DEF FromNodes
<1>. DEFINE T == {k \in 0 .. Len(t) : ~ Moved(f, g, i, j, x, k)}
<1>4. T = {}
  <2>. SUFFICES ASSUME T # {} PROVE FALSE
    OBVIOUS
  <2>1. PICK k \in T : \A m \in T : k <= m
    <3>1. T \in SUBSET Nat
      OBVIOUS
    <3>. HIDE DEF T
    <3>. QED
      BY <3>1, LeastNat
  <2>2. k \in 0 .. Len(t) /\ ~ Moved(f, g, i, j, x, k)
    BY <2>1
  <2>3. k # 0
    <3>1. f[0] = <<>> /\ g[0] = <<>>
      BY <1>1, <1>2 DEF Along
    <3>2. k = 0 => ~ (i <= k)
      OBVIOUS
    <3>. QED
      BY <2>2, <3>1, <3>2 DEF Moved
  <2>4. k \in 1 .. Len(t) /\ k - 1 \in 0 .. Len(t) /\ ~ (k <= k - 1)
    BY <1>0, <2>2, <2>3
  <2>5. Moved(f, g, i, j, x, k - 1)
    BY <2>1, <2>4
  <2>. HIDE DEF T
  <2>6. f[k] = f[k - 1] \o Piece(tr, t, k) /\ g[k] = g[k - 1] \o Piece(ts, t, k)
    BY <1>1, <1>2, <2>4 DEF Along
  <2>7. f[k - 1] \in Seq(Blocks) /\ f[k] \in Seq(Blocks)
    BY <1>3, <2>2, <2>4
  <2>8. CASE k < i
    <3>1. g[k - 1] = f[k - 1]
      BY <1>0, <2>4, <2>5, <2>8 DEF Moved
    <3>2. Piece(ts, t, k) = Piece(tr, t, k)
      BY <1>0, <2>4, <2>8 DEF Shared
    <3>3. g[k] = f[k]
      BY <2>6, <3>1, <3>2, Zenon
    <3>. QED
      BY <1>0, <2>2, <2>4, <2>8, <3>3 DEF Moved
  <2>9. CASE k = i
    <3>1. g[k - 1] = f[k - 1]
      BY <1>0, <2>4, <2>5, <2>9 DEF Moved
    <3>2. Piece(tr, t, k) = <<>> /\ Piece(ts, t, k) = x
      BY <2>9 DEF Shared
    <3>3. f[k] = f[k - 1]
      BY <2>6, <2>7, <3>2, ConcatEmptySeq
    <3>4. g[k] = f[k] \o x
      BY <2>6, <3>1, <3>2, <3>3, Zenon
    <3>5. i <= k /\ k < j
      BY <1>0, <2>4, <2>9
    <3>. QED
      BY <2>2, <3>4, <3>5, Zenon DEF Moved
  <2>10. CASE i < k /\ k < j
    <3>1. g[k - 1] = f[k - 1] \o x
      <4>1. i <= k - 1 /\ k - 1 < j
        BY <1>0, <2>4, <2>10
      <4>. QED
        BY <2>5, <4>1, Zenon DEF Moved
    <3>2. Piece(tr, t, k) = <<>> /\ Piece(ts, t, k) = <<>>
      BY <1>0, <2>4, <2>10 DEF Shared
    <3>3. f[k] = f[k - 1]
      BY <2>6, <2>7, <3>2, ConcatEmptySeq
    <3>4. f[k - 1] \o x \in Seq(Blocks)
      BY <2>7, ConcatProperties
    <3>5. g[k] = f[k] \o x
      BY <2>6, <3>1, <3>2, <3>3, <3>4, ConcatEmptySeq
    <3>6. i <= k /\ k < j
      BY <1>0, <2>4, <2>10
    <3>. QED
      BY <2>2, <3>5, <3>6, Zenon DEF Moved
  <2>11. CASE k = j
    <3>1. g[k - 1] = f[k - 1] \o x
      <4>1. i <= k - 1 /\ k - 1 < j
        BY <1>0, <2>4, <2>11
      <4>. QED
        BY <2>5, <4>1, Zenon DEF Moved
    <3>2. Piece(tr, t, k) = x \o y /\ Piece(ts, t, k) = y
      BY <2>11 DEF Shared
    <3>3. (f[k - 1] \o x) \o y = f[k - 1] \o (x \o y)
      BY <2>7, BlocksConcat, ZenonT(60)
    <3>4. g[k] = f[k]
      BY <2>6, <3>1, <3>2, <3>3, Zenon
    <3>5. ~ (k < j)
      BY <2>4, <2>11
    <3>. QED
      BY <2>2, <3>4, <3>5, Zenon DEF Moved
  <2>12. CASE j < k
    <3>1. g[k - 1] = f[k - 1]
      BY <1>0, <2>4, <2>5, <2>12 DEF Moved
    <3>2. Piece(ts, t, k) = Piece(tr, t, k)
      BY <1>0, <2>4, <2>12 DEF Shared
    <3>3. g[k] = f[k]
      BY <2>6, <3>1, <3>2, Zenon
    <3>4. ~ (k < j)
      BY <2>4, <2>12
    <3>. QED
      BY <2>2, <3>3, <3>4, Zenon DEF Moved
  <2>. QED
    BY <1>0, <2>4, <2>8, <2>9, <2>10, <2>11, <2>12
<1>5. Moved(f, g, i, j, x, Len(t))
  <2>1. Len(t) \in 0 .. Len(t) /\ Len(t) \notin T
    BY <1>0, <1>4
  <2>. QED
    BY <2>1
<1>6. ~ (Len(t) < j)
  BY <1>0
<1>. QED
  BY <1>1, <1>2, <1>5, <1>6, Zenon DEF Moved

(* The same pieces are the same blocks. *)
LEMMA SamePath ==
    ASSUME NEW tr, NEW ts, NEW t \in Seq(Nat), \A k \in 1 .. Len(t) : Piece(ts, t, k) = Piece(tr, t, k)
    PROVE  PathBlocks(ts, t) = PathBlocks(tr, t)
<1>0. Len(t) \in Nat
  BY LenProperties
<1>1. PICK f : Along(tr, t, Len(t), f) /\ PathBlocks(tr, t) = f[Len(t)]
  BY PathBlocksIs
<1>2. PICK g : Along(ts, t, Len(t), g) /\ PathBlocks(ts, t) = g[Len(t)]
  BY PathBlocksIs
<1>. DEFINE T == {k \in 0 .. Len(t) : g[k] # f[k]}
<1>3. T = {}
  <2>. SUFFICES ASSUME T # {} PROVE FALSE
    OBVIOUS
  <2>1. PICK k \in T : \A m \in T : k <= m
    <3>1. T \in SUBSET Nat
      OBVIOUS
    <3>. HIDE DEF T
    <3>. QED
      BY <3>1, LeastNat
  <2>2. k \in 0 .. Len(t) /\ g[k] # f[k]
    BY <2>1
  <2>3. k # 0
    BY <1>1, <1>2, <2>2 DEF Along
  <2>4. k \in 1 .. Len(t) /\ k - 1 \in 0 .. Len(t) /\ ~ (k <= k - 1)
    BY <1>0, <2>2, <2>3
  <2>5. g[k - 1] = f[k - 1]
    BY <2>1, <2>4
  <2>. HIDE DEF T
  <2>6. f[k] = f[k - 1] \o Piece(tr, t, k) /\ g[k] = g[k - 1] \o Piece(ts, t, k)
    BY <1>1, <1>2, <2>4 DEF Along
  <2>7. Piece(ts, t, k) = Piece(tr, t, k)
    BY <2>4
  <2>. QED
    BY <2>2, <2>5, <2>6, <2>7, Zenon
<1>4. Len(t) \in 0 .. Len(t)
  BY <1>0
<1>. QED
  BY <1>1, <1>2, <1>3, <1>4

(* A split changes no path to a node of the tree. *)
LEMMA SplitKeepsPaths ==
    ASSUME NEW tr, TreeOK(tr), NEW t \in Seq(Nat), BlockSize \in Nat \ {0}, NEW p \in DOMAIN tr
    PROVE  PathBlocks(Split(tr, t), p) = PathBlocks(tr, p)
<1>0. p \in Seq(Nat) /\ Len(p) \in Nat
  BY LenProperties DEF TreeOK, Paths
<1>1. CASE Split(tr, t) = tr
  BY <1>1
<1>2. CASE \E c \in ChildOf(tr, t) : \E n \in Nat :
                 /\ DOMAIN Split(tr, t) = DOMAIN tr \cup {Common(t, c)}
                 /\ Mid(tr, t) = {Common(t, c)}
                 /\ Split(tr, t)[Common(t, c)] = Take(tr[c], n)
                 /\ Split(tr, t)[c] = Drop(tr[c], n)
                 /\ \A q \in DOMAIN tr \ {c} : Split(tr, t)[q] = tr[q]
  <2>1. PICK s : s = Split(tr, t)
    OBVIOUS
  <2>2. PICK c \in ChildOf(tr, t), n \in Nat :
                 /\ DOMAIN s = DOMAIN tr \cup {Common(t, c)}
                 /\ s[Common(t, c)] = Take(tr[c], n)
                 /\ s[c] = Drop(tr[c], n)
                 /\ \A q \in DOMAIN tr \ {c} : s[q] = tr[q]
    BY <1>2, <2>1
  <2>3. PICK m : m = Common(t, c)
    OBVIOUS
  <2>4. PICK x, y : x = Take(tr[c], n) /\ y = Drop(tr[c], n)
    OBVIOUS
  <2>5. /\ c \in DOMAIN tr /\ c \in Seq(Nat) /\ m \notin DOMAIN tr /\ tr[c] \in Seq(Blocks)
        /\ m \in Seq(Nat) /\ IsPrefix(m, t) /\ IsPrefix(m, c)
        /\ Len(At(tr, t)) < Len(m) /\ Len(m) < Len(c)
        /\ \A q \in DOMAIN tr : IsPrefix(q, c) /\ Len(At(tr, t)) < Len(q) => q = c
    BY <2>3, ChildIs, MidIs DEF TreeOK
  <2>6. x \in Seq(Blocks) /\ y \in Seq(Blocks) /\ tr[c] = x \o y
    BY <2>4, <2>5, TakeDrop
  <2>7. Len(At(tr, t)) \in Nat /\ Len(m) \in Nat /\ Len(c) \in Nat
    BY <2>5, AtIs, LenProperties DEF TreeOK
  <2>8. \A k \in 1 .. Len(p) : /\ SubSeq(p, 1, k) \in Seq(Nat) /\ Len(SubSeq(p, 1, k)) = k
                               /\ IsPrefix(SubSeq(p, 1, k), p)
    BY <1>0, CutIs
  <2>9. ASSUME NEW k \in 1 .. Len(p), SubSeq(p, 1, k) # m, SubSeq(p, 1, k) # c
        PROVE  Piece(s, p, k) = Piece(tr, p, k)
    BY <2>2, <2>3, <2>9 DEF Piece
  <2>10. CASE IsPrefix(c, p)
    <3>1. IsPrefix(m, p) /\ Len(m) \in 1 .. Len(p) /\ Len(c) \in 1 .. Len(p)
      <4>1. IsPrefix(m, p)
        BY <1>0, <2>5, <2>10, PrefixChain
      <4>2. Len(c) <= Len(p)
        BY <1>0, <2>5, <2>10, PrefixIs
      <4>. QED
        BY <1>0, <2>5, <2>7, <4>1, <4>2
    <3>2. PICK i \in 1 .. Len(p), j \in 1 .. Len(p) : i = Len(m) /\ j = Len(c)
      BY <3>1
    <3>3. \A k \in 1 .. Len(p) : (SubSeq(p, 1, k) = m <=> k = i) /\ (SubSeq(p, 1, k) = c <=> k = j)
      BY <1>0, <2>5, <2>8, <2>10, <3>1, <3>2, PrefixChain
    <3>4. /\ SubSeq(p, 1, i) = m /\ SubSeq(p, 1, j) = c
          /\ Piece(tr, p, i) = <<>> /\ Piece(s, p, i) = x
          /\ Piece(tr, p, j) = x \o y /\ Piece(s, p, j) = y
      <4>1. SubSeq(p, 1, i) = m /\ SubSeq(p, 1, j) = c
        BY <3>3
      <4>2. Piece(tr, p, i) = <<>> /\ Piece(s, p, i) = x
        BY <2>2, <2>3, <2>4, <2>5, <4>1 DEF Piece
      <4>3. Piece(tr, p, j) = x \o y /\ Piece(s, p, j) = y
        BY <2>2, <2>4, <2>5, <2>6, <4>1 DEF Piece
      <4>. QED
        BY <4>1, <4>2, <4>3
    <3>5. \A k \in 1 .. Len(p) : k # i /\ k # j => Piece(s, p, k) = Piece(tr, p, k)
      BY <2>9, <3>3
    <3>6. ASSUME NEW k \in 1 .. Len(p), i < k, k < j PROVE Piece(tr, p, k) = <<>>
      <4>1. PICK q \in Seq(Nat) : q = SubSeq(p, 1, k)
        BY <2>8
      <4>2. Len(q) = k /\ IsPrefix(q, p)
        BY <2>8, <4>1
      <4>3. IsPrefix(q, c) /\ q # c
        <5>1. Len(q) <= Len(c) /\ Len(q) # Len(c)
          BY <2>7, <3>2, <3>6, <4>2
        <5>. QED
          BY <1>0, <2>5, <2>10, <4>2, <5>1, PrefixChain
      <4>4. Len(At(tr, t)) < Len(q)
        BY <2>5, <2>7, <3>2, <3>6, <4>2
      <4>5. q \notin DOMAIN tr
        BY <2>5, <4>3, <4>4
      <4>. QED
        BY <4>1, <4>5 DEF Piece
    <3>7. i < j
      BY <2>5, <3>2
    <3>8. Shared(tr, s, p, i, j, x, y)
      BY <3>4, <3>5, <3>6 DEF Shared
    <3>9. \A q \in DOMAIN tr : tr[q] \in Seq(Blocks)
      BY DEF TreeOK
    <3>. QED
      BY <1>0, <2>1, <2>6, <3>7, <3>8, <3>9, SharedPath
  <2>11. CASE ~ IsPrefix(c, p)
    <3>1. ~ IsPrefix(m, p)
      BY <2>5, <2>11, ChildBelow DEF TreeOK
    <3>2. \A k \in 1 .. Len(p) : Piece(s, p, k) = Piece(tr, p, k)
      BY <2>8, <2>9, <2>11, <3>1
    <3>. QED
      BY <1>0, <2>1, <3>2, SamePath
  <2>. QED
    BY <2>10, <2>11
<1>. QED
  BY <1>1, <1>2, SplitIs

(* Nor does the leaf, which lies on none of them. *)
LEMMA InsertKeepsPaths ==
    ASSUME NEW tr, TreeOK(tr), NEW t \in Seq(Nat), t # <<>>, BlockSize \in Nat \ {0}, NEW p \in DOMAIN tr,
           NEW blocks
    PROVE  PathBlocks(Insert(tr, t, blocks), p) = PathBlocks(tr, p)
<1>0. p \in Seq(Nat) /\ Len(p) \in Nat
  BY LenProperties DEF TreeOK, Paths
<1>1. PICK s : s = Split(tr, t)
  OBVIOUS
<1>2. PICK i : i = Insert(tr, t, blocks)
  OBVIOUS
<1>3. i = [q \in DOMAIN s \cup {t} |-> IF q \in DOMAIN s THEN s[q] ELSE LeafBlocks(tr, t, blocks)]
  BY <1>1, <1>2 DEF Insert
<1>4. DOMAIN s = DOMAIN tr \cup Mid(tr, t)
  BY <1>1, SplitIs
<1>5. PathBlocks(s, p) = PathBlocks(tr, p)
  BY <1>1, SplitKeepsPaths
<1>6. ASSUME IsPrefix(t, p) PROVE t \in DOMAIN s
  <2>2. CASE Len(At(tr, t)) < Len(t)
    <3>1. IsPrefix(t, t) /\ Len(t) \in Nat
      BY PrefixIs, LenProperties
    <3>2. PICK c \in ChildOf(tr, t) : IsPrefix(c, p)
      BY <1>6, <2>2, <3>1, ChildBelow DEF TreeOK
    <3>3. c \in Seq(Nat) /\ ~ IsPrefix(c, t)
      BY ChildIs DEF TreeOK
    <3>4. IsPrefix(t, c)
      <4>1. Len(c) \in Nat
        BY <3>3, LenProperties
      <4>2. ~ (Len(c) <= Len(t))
        BY <1>0, <1>6, <3>2, <3>3, PrefixChain
      <4>. QED
        BY <1>0, <1>6, <3>1, <3>2, <3>3, <4>1, <4>2, PrefixChain
    <3>5. Common(t, c) \in Mid(tr, t)
      BY DEF Mid
    <3>6. Common(t, c) = t
      <4>1. Common(t, c) \in Seq(Nat) /\ IsPrefix(Common(t, c), t) /\ Len(t) <= Len(Common(t, c))
        BY <3>1, <3>3, <3>4, CommonIs
      <4>. QED
        BY <4>1, PrefixChain
    <3>. QED
      BY <1>4, <3>5, <3>6
  <2>3. CASE ~ (Len(At(tr, t)) < Len(t))
    <3>1. /\ At(tr, t) \in {<<>>} \cup DOMAIN tr
          /\ At(tr, t) \in Seq(Nat) /\ Len(At(tr, t)) \in Nat /\ IsPrefix(At(tr, t), t)
      BY AtIs DEF TreeOK
    <3>2. At(tr, t) = t
      BY <2>3, <3>1, PrefixChain, LenProperties
    <3>. QED
      BY <1>4, <3>1, <3>2
  <2>. QED
    BY <2>2, <2>3
<1>7. ASSUME NEW k \in 1 .. Len(p) PROVE Piece(i, p, k) = Piece(s, p, k)
  <2>1. IsPrefix(SubSeq(p, 1, k), p)
    BY <1>0, CutIs
  <2>2. SubSeq(p, 1, k) = t => t \in DOMAIN s
    BY <1>6, <2>1
  <2>. QED
    BY <1>3, <2>2 DEF Piece
<1>. QED
  BY <1>0, <1>2, <1>5, <1>7, SamePath

(* A leaf lies on no other node's path. *)
LEMMA EvictionKeepsPaths ==
    ASSUME NEW tr, TreeOK(tr), NEW v \in DOMAIN tr, \A q \in DOMAIN tr : ~ IsStrictPrefix(v, q),
           NEW p \in DOMAIN tr \ {v}
    PROVE  PathBlocks([q \in DOMAIN tr \ {v} |-> tr[q]], p) = PathBlocks(tr, p)
<1>0. p \in Seq(Nat) /\ Len(p) \in Nat
  BY LenProperties DEF TreeOK, Paths
<1>1. PICK s : s = [q \in DOMAIN tr \ {v} |-> tr[q]]
  OBVIOUS
<1>2. ASSUME NEW k \in 1 .. Len(p) PROVE Piece(s, p, k) = Piece(tr, p, k)
  <2>1. IsPrefix(SubSeq(p, 1, k), p)
    BY <1>0, CutIs
  <2>2. SubSeq(p, 1, k) # v
    BY <2>1 DEF IsStrictPrefix
  <2>. QED
    BY <1>1, <2>2 DEF Piece
<1>. QED
  BY <1>0, <1>1, <1>2, SamePath

-----------------------------------------------------------------------------
(* The inductive invariant. *)

TypeOK ==
    /\ mode \in Modes
    /\ refCount \in [Blocks -> Int]
    /\ table \in [Requests -> Seq(Blocks)]
    /\ status \in [Requests -> {"new", "live", "done"}]
    /\ tokens \in [Requests -> Seq(Nat)]
    /\ reused \in [Requests -> Nat]
    /\ evict \in [on : BOOLEAN, left : Nat, under : Seq(Nat)]

(* Whatever is live ends in one of the sequences. *)
LiveTokens == \A r \in Requests : status[r] = "live" => tokens[r] \in Sequences

(* Every sequence remembered is a node; an eviction forgets them first. *)
History ==
    /\ remembered \subseteq DOMAIN tree
    /\ evict.on /\ NodeRefs = 0 => remembered = {}

(* No block is named more often than it is counted. *)
Counted == \A b \in Blocks : refCount[b] >= Named(tree, b) + Named(table, b)

(* A block taken from the pool is named once. *)
Owned ==
    \A r \in Requests : status[r] = "live" =>
        \A i \in reused[r] + 1 .. Len(table[r]) : refCount[table[r][i]] = 1

IInv == TypeOK /\ LiveTokens /\ TreeOK(tree) /\ History /\ Counted /\ Owned

(* The functions that name blocks, and the sequences. *)
LEMMA Facts ==
    ASSUME TypeOK, TreeOK(tree)
    PROVE  /\ Naming(tree) /\ Naming(table) /\ DOMAIN table = Requests
           /\ \A r \in Requests : table[r] \in Seq(Blocks) /\ Len(table[r]) \in Nat
           /\ \A t \in Sequences : t \in Seq(Nat) /\ t # <<>> /\ Len(t) \in Nat /\ Len(t) > 1
           /\ BlockSize \in Nat \ {0}
<1>1. Naming(tree)
  BY DEF TreeOK, Naming
<1>2. DOMAIN table = Requests /\ \A r \in Requests : table[r] \in Seq(Blocks) /\ Len(table[r]) \in Nat
  BY LenProperties DEF TypeOK
<1>3. Naming(table)
  BY <1>2, RadixAssumption DEF Naming
<1>4. ASSUME NEW t \in Sequences PROVE t \in Seq(Nat) /\ t # <<>> /\ Len(t) \in Nat /\ Len(t) > 1
  <2>1. t \in Seq(Nat) /\ Len(t) > 1
    BY RadixAssumption
  <2>2. Len(t) \in Nat /\ Len(<<>>) = 0
    BY <2>1, LenProperties, EmptySeq
  <2>. QED
    BY <2>1, <2>2
<1>. QED
  BY <1>1, <1>2, <1>3, <1>4, RadixAssumption

(* A block a live request took is named by its table only. *)
LEMMA OwnedAlone ==
    ASSUME IInv, NEW r \in Requests, status[r] = "live", NEW i \in reused[r] + 1 .. Len(table[r]),
           NEW b, b = table[r][i]
    PROVE  /\ b \in Blocks /\ refCount[b] = 1
           /\ \A p \in DOMAIN tree : Occurrences(b, tree[p]) = 0
           /\ \A q \in Requests \ {r} : Occurrences(b, table[q]) = 0
<1>1. /\ Naming(tree) /\ Naming(table) /\ DOMAIN table = Requests
      /\ table[r] \in Seq(Blocks) /\ Len(table[r]) \in Nat /\ reused[r] \in Nat
  BY Facts DEF IInv, TypeOK
<1>2. i \in 1 .. Len(table[r])
  BY <1>1
<1>3. b \in Blocks /\ b \in Range(table[r])
  BY <1>1, <1>2, ElementOfSeq, LenProperties DEF Range
<1>4. Occurrences(b, table[r]) \in Nat /\ Occurrences(b, table[r]) # 0
  BY <1>1, <1>3, OccursType
<1>5. refCount[b] = 1 /\ refCount[b] >= Named(tree, b) + Named(table, b)
  BY <1>3 DEF IInv, Owned, Counted
<1>6. Named(tree, b) \in Nat /\ Named(table, b) \in Nat
  BY <1>1, NamedType
<1>7. Occurrences(b, table[r]) <= Named(table, b)
  BY <1>1, NamedType
<1>8. ASSUME NEW p \in DOMAIN tree PROVE Occurrences(b, tree[p]) = 0
  <2>1. Occurrences(b, tree[p]) \in Nat /\ Occurrences(b, tree[p]) <= Named(tree, b)
    BY <1>1, NamedType
  <2>. QED
    BY <1>4, <1>5, <1>6, <1>7, <2>1
<1>9. ASSUME NEW q \in Requests \ {r} PROVE Occurrences(b, table[q]) = 0
  <2>1. q \in DOMAIN table /\ r \in DOMAIN table /\ q # r
    BY <1>1
  <2>2. Occurrences(b, table[q]) \in Nat /\ Occurrences(b, table[r]) + Occurrences(b, table[q]) <= Named(table, b)
    BY <1>1, <2>1, NamedType
  <2>. QED
    BY <1>4, <1>5, <1>6, <2>2
<1>. QED
  BY <1>3, <1>5, <1>8, <1>9

(* A block of a node or a table is counted. *)
LEMMA NamedCounted ==
    ASSUME IInv, NEW b \in Blocks, NEW p \in DOMAIN tree, b \in Range(tree[p])
    PROVE  refCount[b] > 0
<1>1. Naming(tree) /\ Naming(table) /\ tree[p] \in Seq(Blocks)
  BY Facts DEF IInv, Naming
<1>2. Occurrences(b, tree[p]) \in Nat /\ Occurrences(b, tree[p]) # 0
  BY <1>1, OccursType
<1>3. /\ Named(tree, b) \in Nat /\ Named(table, b) \in Nat
      /\ Occurrences(b, tree[p]) <= Named(tree, b)
  BY <1>1, NamedType
<1>4. refCount[b] \in Int /\ refCount[b] >= Named(tree, b) + Named(table, b)
  BY DEF IInv, Counted, TypeOK
<1>. QED
  BY <1>2, <1>3, <1>4

-----------------------------------------------------------------------------
(* At the start nothing is named. *)
LEMMA InitIInv == Init => IInv
<1>. SUFFICES ASSUME Init PROVE IInv
  OBVIOUS
<1>0. <<>> \in Seq(Blocks) /\ <<>> \in Seq(Nat) /\ DOMAIN <<>> = {}
  BY EmptySeq
<1>1. TypeOK
  BY <1>0 DEF Init, TypeOK, NoEvict
<1>2. LiveTokens /\ Owned
  BY DEF Init, LiveTokens, Owned
<1>3. TreeOK(tree)
  <2>1. tree = <<>> /\ DOMAIN tree = {}
    BY <1>0 DEF Init
  <2>2. IsFiniteSet(DOMAIN tree)
    BY <2>1, FS_EmptySet
  <2>. QED
    BY <2>1, <2>2 DEF TreeOK, Paths, Closed
<1>4. History
  BY DEF Init, History, NoEvict
<1>5. Counted
  <2>1. ASSUME NEW b \in Blocks PROVE refCount[b] >= Named(tree, b) + Named(table, b)
    <3>1. Naming(tree) /\ Naming(table)
      BY <1>1, <1>3, Facts
    <3>2. ASSUME NEW g, Naming(g), \A p \in DOMAIN g : g[p] = <<>> PROVE Named(g, b) = 0
      <4>. DEFINE F == [p \in DOMAIN g |-> Occurrences(b, g[p])]
      <4>1. Occurrences(b, <<>>) = 0
        <5>1. b \notin Range(<<>>)
          BY <1>0 DEF Range
        <5>. QED
          BY <1>0, <5>1, OccursType
      <4>2. \A p \in DOMAIN g : F[p] = 0
        BY <3>2, <4>1
      <4>3. PICK S : S = DOMAIN g
        OBVIOUS
      <4>4. Named(g, b) = SumFunctionOnSet(F, S)
        BY <4>3 DEF Named
      <4>. HIDE DEF F
      <4>. QED
        BY <3>2, <4>2, <4>3, <4>4, SumZero DEF Naming
    <3>3. Named(tree, b) = 0 /\ Named(table, b) = 0
      <4>1. \A p \in DOMAIN tree : tree[p] = <<>>
        BY <1>0 DEF Init
      <4>2. \A p \in DOMAIN table : table[p] = <<>>
        BY DEF Init
      <4>. QED
        BY <3>1, <3>2, <4>1, <4>2
    <3>4. refCount[b] = 0
      BY DEF Init
    <3>. QED
      BY <3>3, <3>4
  <2>. QED
    BY <2>1 DEF Counted
<1>. QED
  BY <1>1, <1>2, <1>3, <1>4, <1>5 DEF IInv

-----------------------------------------------------------------------------
(* A request enters the batch. *)

(* What Serve does to the tables: hit is from the tree, new from the pool. *)
Takes(r, hit, new) ==
    /\ FromNodes(tree, hit)
    /\ new \in Seq(Blocks)
    /\ \A i \in 1 .. Len(new) : refCount[new[i]] = 0
    /\ \A i, j \in 1 .. Len(new) : new[i] = new[j] => i = j
    /\ table' = [table EXCEPT ![r] = hit \o new]
    /\ refCount' = [b \in Blocks |-> refCount[b] + Occurrences(b, hit \o new)]
    /\ reused' = [reused EXCEPT ![r] = Len(hit)]

(* The number of blocks the pool is asked for. *)
LEMMA ExtraNat ==
    ASSUME NEW target \in Nat, NEW n \in Nat, BlockSize \in Nat \ {0}
    PROVE  Max({0, CeilDiv(target, BlockSize) - n}) \in Nat
<1>1. PICK d : d = CeilDiv(target, BlockSize) - n
  OBVIOUS
<1>2. d \in Int
  BY <1>1, CeilDivNat
<1>. DEFINE k == IF d > 0 THEN d ELSE 0
<1>3. k \in {0, d} /\ k \in Nat /\ \A y \in {0, d} : k >= y
  BY <1>2
<1>4. \A z \in {0, d} : (\A y \in {0, d} : z >= y) => z = k
  BY <1>2
<1>. HIDE DEF k
<1>5. Max({0, d}) = k
  BY <1>3, <1>4 DEF Max
<1>. QED
  BY <1>1, <1>3, <1>5

(* Serve gives a request the blocks of its hit and free ones. *)
LEMMA ServeTakes ==
    ASSUME IInv, NEW r \in Requests, NEW t \in Sequences, NEW m \in 1 .. Len(t) - 1, Serve(r, t, m)
    PROVE  \E hit, new : Takes(r, hit, new)
<1>. DEFINE prompt == SubSeq(t, 1, m)
            hit    == IF Port = "python" THEN MatchBlocks(tree, prompt) ELSE <<>>
            target == IF UseKv /\ m < Len(t) - 1 THEN Len(t) ELSE m
            extra  == Max({0, CeilDiv(target, BlockSize) - Len(hit)})
            free   == {b \in Blocks : refCount[b] = 0}
<1>1. t \in Seq(Nat) /\ Len(t) \in Nat /\ BlockSize \in Nat \ {0} /\ TreeOK(tree)
  BY Facts DEF IInv
<1>2. prompt \in Seq(Nat) /\ target \in Nat
  <2>1. m \in 0 .. Len(t) /\ m \in Nat
    BY <1>1
  <2>2. prompt \in Seq(Nat)
    BY <1>1, <2>1, CutIs
  <2>. QED
    BY <1>1, <2>1, <2>2
<1>3. PICK new \in Injection(1 .. extra, free) :
          /\ table' = [table EXCEPT ![r] = hit \o new]
          /\ refCount' = [b \in Blocks |-> refCount[b] + Occurrences(b, hit \o new)]
  BY DEF Serve
<1>4. reused' = [reused EXCEPT ![r] = Len(hit)]
  BY DEF Serve
<1>. HIDE DEF prompt, target
<1>5. FromNodes(tree, hit)
  <2>1. FromNodes(tree, MatchBlocks(tree, prompt))
    BY <1>1, <1>2, HitBlocks
  <2>2. FromNodes(tree, <<>>)
    BY EmptySeq DEF FromNodes, Range
  <2>. QED
    BY <2>1, <2>2
<1>. HIDE DEF hit
<1>6. Len(hit) \in Nat
  BY <1>5, LenProperties DEF FromNodes
<1>7. extra \in Nat
  BY <1>1, <1>2, <1>6, ExtraNat
<1>. HIDE DEF extra
<1>8. new \in [1 .. extra -> free] /\ \A i, j \in 1 .. extra : new[i] = new[j] => i = j
  BY <1>3 DEF Injection, IsInjective
<1>9. new \in Seq(Blocks) /\ Len(new) = extra /\ \A i \in 1 .. extra : refCount[new[i]] = 0
  <2>1. \A i \in 1 .. extra : new[i] \in Blocks /\ refCount[new[i]] = 0
    BY <1>8
  <2>2. new \in [1 .. extra -> Blocks]
    BY <1>8
  <2>. QED
    BY <1>7, <2>1, <2>2, LenProperties
<1>10. Takes(r, hit, new)
  BY <1>3, <1>4, <1>5, <1>8, <1>9 DEF Takes
<1>. QED
  BY <1>10

(* Serve keeps the invariant. *)
LEMMA ServeKeeps ==
    ASSUME IInv, NEW r \in Requests, NEW t \in Sequences, NEW m \in 1 .. Len(t) - 1, Serve(r, t, m)
    PROVE  IInv'
<1>1. PICK hit, new : Takes(r, hit, new)
  BY ServeTakes
<1>2. /\ FromNodes(tree, hit) /\ hit \in Seq(Blocks) /\ new \in Seq(Blocks)
      /\ \A i \in 1 .. Len(new) : refCount[new[i]] = 0
      /\ \A i, j \in 1 .. Len(new) : new[i] = new[j] => i = j
  BY <1>1 DEF Takes, FromNodes
<1>3. PICK w : w = hit \o new
  OBVIOUS
<1>4. /\ w \in Seq(Blocks) /\ Len(hit) \in Nat /\ Len(new) \in Nat /\ Len(w) = Len(hit) + Len(new)
      /\ \A i \in 1 .. Len(hit) + Len(new) : w[i] = IF i <= Len(hit) THEN hit[i] ELSE new[i - Len(hit)]
  BY <1>2, <1>3, ConcatProperties, LenProperties
<1>5. \A b : Occurrences(b, w) = Occurrences(b, hit) + Occurrences(b, new)
             /\ Occurrences(b, hit) \in Nat /\ Occurrences(b, new) \in Nat /\ Occurrences(b, w) \in Nat
  BY <1>2, <1>3, <1>4, OccursConcat, OccursType
<1>6. /\ table' = [table EXCEPT ![r] = w]
      /\ \A b \in Blocks : refCount'[b] = refCount[b] + Occurrences(b, w)
      /\ refCount' = [b \in Blocks |-> refCount[b] + Occurrences(b, w)]
      /\ reused' = [reused EXCEPT ![r] = Len(hit)]
  BY <1>1, <1>3 DEF Takes
<1>7. /\ status' = [status EXCEPT ![r] = "live"]
      /\ tokens' = [tokens EXCEPT ![r] = t]
      /\ UNCHANGED <<mode, tree, evict, remembered>>
  BY DEF Serve
<1>8. /\ Naming(tree) /\ Naming(table) /\ DOMAIN table = Requests /\ t \in Seq(Nat)
      /\ \A q \in Requests : table[q] \in Seq(Blocks)
  BY Facts DEF IInv
<1>9. TypeOK'
  <2>1. refCount' \in [Blocks -> Int]
    <3>1. \A b \in Blocks : refCount[b] + Occurrences(b, w) \in Int
      BY <1>5 DEF IInv, TypeOK
    <3>. QED
      BY <1>6, <3>1
  <2>2. table' \in [Requests -> Seq(Blocks)] /\ reused' \in [Requests -> Nat]
    BY <1>4, <1>6 DEF IInv, TypeOK
  <2>3. status' \in [Requests -> {"new", "live", "done"}] /\ tokens' \in [Requests -> Seq(Nat)]
    BY <1>7, <1>8 DEF IInv, TypeOK
  <2>4. mode' \in Modes /\ evict' \in [on : BOOLEAN, left : Nat, under : Seq(Nat)]
    BY <1>7 DEF IInv, TypeOK
  <2>. QED
    BY <2>1, <2>2, <2>3, <2>4 DEF TypeOK
<1>10. LiveTokens'
  BY <1>7 DEF IInv, TypeOK, LiveTokens
<1>11. TreeOK(tree)' /\ History'
  BY <1>7 DEF IInv, History, TreeOK, NodeRefs, Port
<1>12. Naming(table') /\ DOMAIN table' = Requests /\ table'[r] = w
       /\ \A q \in Requests \ {r} : table'[q] = table[q]
  BY <1>4, <1>6, <1>8 DEF Naming
<1>13. Counted'
  <2>1. ASSUME NEW b \in Blocks PROVE refCount'[b] >= Named(tree, b) + Named(table', b)
    <3>1. Named(table', b) = Named(table, b) - Occurrences(b, table[r]) + Occurrences(b, table'[r])
      BY <1>8, <1>12, NamedChanges
    <3>2. Named(table, b) \in Nat /\ Named(tree, b) \in Nat /\ Occurrences(b, table[r]) \in Nat
      BY <1>8, NamedType, OccursType
    <3>3. refCount[b] \in Int /\ refCount[b] >= Named(tree, b) + Named(table, b)
      BY DEF IInv, Counted, TypeOK
    <3>4. Occurrences(b, table'[r]) = Occurrences(b, w) /\ Occurrences(b, w) \in Nat
      BY <1>5, <1>12
    <3>5. refCount'[b] = refCount[b] + Occurrences(b, w)
      BY <1>6
    <3>. QED
      BY <3>1, <3>2, <3>3, <3>4, <3>5
  <2>. QED
    BY <1>7, <2>1 DEF Counted
<1>14. \A b \in Blocks : refCount[b] = 0 => Occurrences(b, hit) = 0
  <2>1. ASSUME NEW b \in Blocks, refCount[b] = 0, b \in Range(hit) PROVE FALSE
    <3>1. PICK p \in DOMAIN tree : b \in Range(tree[p])
      BY <1>2, <2>1 DEF FromNodes
    <3>2. refCount[b] > 0
      BY <3>1, NamedCounted
    <3>. QED
      BY <2>1, <3>2
  <2>. QED
    BY <1>2, <2>1, OccursType
<1>15. ASSUME NEW i \in Len(hit) + 1 .. Len(w) PROVE refCount'[w[i]] = 1
  <2>1. PICK j \in 1 .. Len(new) : j = i - Len(hit) /\ w[i] = new[j]
    <3>1. i - Len(hit) \in 1 .. Len(new) /\ i \in 1 .. Len(hit) + Len(new) /\ ~ (i <= Len(hit))
      BY <1>4
    <3>. QED
      BY <1>4, <3>1
  <2>2. new[j] \in Blocks /\ refCount[new[j]] = 0
    BY <1>2, <2>1, ElementOfSeq
  <2>3. Occurrences(new[j], hit) = 0
    BY <1>14, <2>2
  <2>4. Occurrences(new[j], new) = 1
    <3>1. {k \in DOMAIN new : new[k] = new[j]} = {j}
      BY <1>2, LenProperties
    <3>. QED
      BY <3>1, FS_Singleton DEF Occurrences
  <2>. QED
    BY <1>5, <1>6, <2>1, <2>2, <2>3, <2>4
<1>16. Owned'
  <2>1. ASSUME NEW q \in Requests, status'[q] = "live",
               NEW i \in reused'[q] + 1 .. Len(table'[q])
        PROVE  refCount'[table'[q][i]] = 1
    <3>1. CASE q = r
      BY <1>6, <1>12, <1>15, <3>1 DEF IInv, TypeOK
    <3>2. CASE q # r
      <4>1. table'[q] = table[q] /\ reused'[q] = reused[q] /\ status[q] = "live"
        BY <1>6, <1>7, <1>12, <2>1, <3>2 DEF IInv, TypeOK
      <4>2. PICK b : b = table[q][i]
        OBVIOUS
      <4>3. i \in reused[q] + 1 .. Len(table[q])
        BY <4>1
      <4>4. b \in Blocks /\ refCount[b] = 1 /\ \A p \in DOMAIN tree : Occurrences(b, tree[p]) = 0
        BY <4>1, <4>2, <4>3, OwnedAlone
      <4>5. Occurrences(b, hit) = 0
        <5>1. b \notin Range(hit)
          <6>1. SUFFICES ASSUME b \in Range(hit) PROVE FALSE
            OBVIOUS
          <6>2. PICK p \in DOMAIN tree : b \in Range(tree[p])
            BY <1>2, <6>1 DEF FromNodes
          <6>3. tree[p] \in Seq(Blocks)
            BY <1>8 DEF Naming
          <6>. QED
            BY <4>4, <6>2, <6>3, OccursType
        <5>. QED
          BY <1>2, <5>1, OccursType
      <4>6. Occurrences(b, new) = 0
        <5>1. b \notin Range(new)
          BY <1>2, <4>4, LenProperties DEF Range
        <5>. QED
          BY <1>2, <5>1, OccursType
      <4>7. refCount'[b] = 1
        <5>1. refCount'[b] = refCount[b] + Occurrences(b, w)
          BY <1>6, <4>4
        <5>2. Occurrences(b, w) = Occurrences(b, hit) + Occurrences(b, new)
          BY <1>5
        <5>. QED
          BY <4>4, <4>5, <4>6, <5>1, <5>2
      <4>. QED
        BY <4>1, <4>2, <4>7
    <3>. QED
      BY <3>1, <3>2
  <2>. QED
    BY <2>1 DEF Owned
<1>. QED
  BY <1>9, <1>10, <1>11, <1>13, <1>16 DEF IInv

-----------------------------------------------------------------------------
(* A request leaves: its sequence is inserted, its table released. *)

(* Whether the table is released. *)
Frees == Port = "python" \/ UseKv

(* Finish keeps the invariant. *)
LEMMA FinishKeeps ==
    ASSUME IInv, NEW r \in Requests, Finish(r)
    PROVE  IInv'
<1>1. PICK t : t = tokens[r]
  OBVIOUS
<1>2. PICK leaf : leaf = Leaf(tree, t, table[r])
  OBVIOUS
<1>3. /\ status[r] = "live"
      /\ tree' = Insert(tree, t, table[r])
      /\ table' = IF Frees THEN [table EXCEPT ![r] = <<>>] ELSE table
      /\ refCount' = [b \in Blocks |->
            refCount[b] + Occurrences(b, leaf) - IF Frees THEN Occurrences(b, table[r]) ELSE 0]
      /\ status' = [status EXCEPT ![r] = "done"]
      /\ remembered' = remembered \cup {t}
      /\ UNCHANGED <<mode, tokens, reused, evict, crashed>>
      /\ ~ evict.on
  BY <1>1, <1>2 DEF Finish, Leaf, Frees
<1>4. /\ Naming(tree) /\ Naming(table) /\ DOMAIN table = Requests
      /\ \A q \in Requests : table[q] \in Seq(Blocks)
      /\ BlockSize \in Nat \ {0} /\ TreeOK(tree)
  BY Facts DEF IInv
<1>5. t \in Sequences /\ t \in Seq(Nat) /\ t # <<>>
  BY <1>1, <1>3, Facts DEF IInv, LiveTokens
<1>6. ASSUME NEW b
      PROVE  /\ TreeOK(tree') /\ leaf \in Seq(Blocks)
             /\ Occurrences(b, leaf) \in Nat /\ Occurrences(b, table[r]) \in Nat
             /\ Occurrences(b, leaf) <= Occurrences(b, table[r])
             /\ Named(tree', b) = Named(tree, b) + Occurrences(b, leaf)
  <2>1. /\ TreeOK(tree') /\ leaf \in Seq(Blocks)
        /\ Occurrences(b, leaf) <= Occurrences(b, table[r])
        /\ Named(tree', b) = Named(tree, b) + Occurrences(b, leaf)
    BY <1>2, <1>3, <1>4, <1>5, InsertNames
  <2>. QED
    BY <1>4, <2>1, OccursType
<1>7. <<>> \in Seq(Blocks) /\ \A b : Occurrences(b, <<>>) = 0
  <2>1. <<>> \in Seq(Blocks) /\ \A b : b \notin Range(<<>>)
    BY EmptySeq DEF Range
  <2>. QED
    BY <2>1, OccursType
<1>8. TypeOK'
  <2>1. refCount' \in [Blocks -> Int]
    <3>1. ASSUME NEW b \in Blocks
          PROVE  refCount[b] + Occurrences(b, leaf) - (IF Frees THEN Occurrences(b, table[r]) ELSE 0) \in Int
      <4>1. refCount[b] \in Int /\ Occurrences(b, leaf) \in Nat /\ Occurrences(b, table[r]) \in Nat
        BY <1>6 DEF IInv, TypeOK
      <4>. QED
        BY <4>1
    <3>. QED
      BY <1>3, <3>1
  <2>2. table' \in [Requests -> Seq(Blocks)]
    BY <1>3, <1>7 DEF IInv, TypeOK
  <2>3. status' \in [Requests -> {"new", "live", "done"}]
    BY <1>3 DEF IInv, TypeOK
  <2>. QED
    BY <1>3, <2>1, <2>2, <2>3 DEF IInv, TypeOK
<1>9. LiveTokens'
  BY <1>3 DEF IInv, TypeOK, LiveTokens
<1>10. TreeOK(tree)'
  <2>1. TreeOK(tree')
    BY <1>6
  <2>. QED
    BY <2>1 DEF TreeOK
<1>11. History'
  <2>1. remembered \subseteq DOMAIN tree /\ ~ evict'.on
    BY <1>3 DEF IInv, History
  <2>2. DOMAIN tree' = DOMAIN Split(tree, t) \cup {t} /\ DOMAIN Split(tree, t) = DOMAIN tree \cup Mid(tree, t)
    BY <1>3, <1>4, <1>5, SplitIs DEF Insert
  <2>. QED
    BY <1>3, <2>1, <2>2 DEF History
<1>12. /\ Naming(table') /\ DOMAIN table' = Requests
       /\ \A q \in Requests \ {r} : table'[q] = table[q]
       /\ table'[r] = IF Frees THEN <<>> ELSE table[r]
  BY <1>3, <1>4, <1>7 DEF Naming
<1>13. Counted'
  <2>1. ASSUME NEW b \in Blocks PROVE refCount'[b] >= Named(tree', b) + Named(table', b)
    <3>1. Named(table', b) = Named(table, b) - Occurrences(b, table[r]) + Occurrences(b, table'[r])
      BY <1>4, <1>12, NamedChanges
    <3>2. Named(table, b) \in Nat /\ Named(tree, b) \in Nat
      BY <1>4, NamedType
    <3>3. refCount[b] \in Int /\ refCount[b] >= Named(tree, b) + Named(table, b)
      BY DEF IInv, Counted, TypeOK
    <3>4. /\ Occurrences(b, leaf) \in Nat /\ Occurrences(b, table[r]) \in Nat
          /\ Named(tree', b) = Named(tree, b) + Occurrences(b, leaf)
      BY <1>6
    <3>5. refCount'[b] = refCount[b] + Occurrences(b, leaf) - IF Frees THEN Occurrences(b, table[r]) ELSE 0
      BY <1>3
    <3>6. CASE Frees
      <4>1. Occurrences(b, table'[r]) = 0
        <5>1. table'[r] = <<>>
          BY <1>12, <3>6, Zenon
        <5>2. Occurrences(b, <<>>) = 0
          BY <1>7
        <5>. QED
          BY <5>1, <5>2, Zenon
      <4>2. refCount'[b] = refCount[b] + Occurrences(b, leaf) - Occurrences(b, table[r])
        BY <3>5, <3>6
      <4>. QED
        BY <3>1, <3>2, <3>3, <3>4, <4>1, <4>2
    <3>7. CASE ~ Frees
      <4>1. Occurrences(b, table'[r]) = Occurrences(b, table[r])
        <5>1. table'[r] = table[r]
          BY <1>12, <3>7, Zenon
        <5>. QED
          BY <5>1, Zenon
      <4>2. refCount'[b] = refCount[b] + Occurrences(b, leaf)
        BY <3>3, <3>4, <3>5, <3>7
      <4>. QED
        BY <3>1, <3>2, <3>3, <3>4, <4>1, <4>2
    <3>. QED
      BY <3>6, <3>7
  <2>. QED
    BY <2>1 DEF Counted
<1>14. Owned'
  <2>1. ASSUME NEW q \in Requests, status'[q] = "live",
               NEW i \in reused'[q] + 1 .. Len(table'[q])
        PROVE  refCount'[table'[q][i]] = 1
    <3>1. q # r /\ status[q] = "live"
      BY <1>3, <2>1 DEF IInv, TypeOK
    <3>2. table'[q] = table[q] /\ reused'[q] = reused[q]
      BY <1>3, <1>12, <3>1
    <3>3. PICK b : b = table[q][i]
      OBVIOUS
    <3>4. i \in reused[q] + 1 .. Len(table[q])
      BY <3>2
    <3>5. b \in Blocks /\ refCount[b] = 1 /\ \A o \in Requests \ {q} : Occurrences(b, table[o]) = 0
      BY <3>1, <3>3, <3>4, OwnedAlone
    <3>6. Occurrences(b, table[r]) = 0
      BY <3>1, <3>5
    <3>7. Occurrences(b, leaf) = 0
      <4>1. Occurrences(b, leaf) \in Nat /\ Occurrences(b, leaf) <= Occurrences(b, table[r])
        BY <1>6
      <4>. QED
        BY <3>6, <4>1
    <3>8. refCount'[b] = 1
      BY <1>3, <3>5, <3>6, <3>7
    <3>. QED
      BY <3>2, <3>3, <3>8
  <2>. QED
    BY <2>1 DEF Owned
<1>. QED
  BY <1>8, <1>9, <1>10, <1>11, <1>13, <1>14 DEF IInv

-----------------------------------------------------------------------------
(* A node is evicted, which keeps the invariant. *)
LEMMA EvictNodeKeeps ==
    ASSUME IInv, NEW v \in DOMAIN tree, EvictNode(v)
    PROVE  IInv'
<1>1. PICK freeing : freeing = Take(tree[v], evict.left)
  OBVIOUS
<1>2. /\ evict.on /\ IsLeaf(v) /\ NodeRefs = 0
      /\ refCount' = [b \in Blocks |-> refCount[b] - Occurrences(b, freeing)]
      /\ tree' = [p \in DOMAIN tree \ {v} |-> tree[p]]
      /\ evict' = [evict EXCEPT !.left = @ - Len(freeing), !.under = Parent(tree, v)]
      /\ UNCHANGED <<mode, table, status, tokens, reused, crashed, remembered>>
  BY <1>1 DEF EvictNode
<1>3. /\ Naming(tree) /\ Naming(table) /\ TreeOK(tree)
      /\ tree[v] \in Seq(Blocks) /\ evict.left \in Nat
  BY Facts DEF IInv, Naming, TypeOK
<1>4. /\ freeing \in Seq(Blocks) /\ Drop(tree[v], evict.left) \in Seq(Blocks)
      /\ tree[v] = freeing \o Drop(tree[v], evict.left)
      /\ Len(freeing) \in Nat /\ Len(freeing) <= evict.left
  BY <1>1, <1>3, TakeDrop
<1>5. ASSUME NEW b
      PROVE  /\ Occurrences(b, freeing) \in Nat /\ Occurrences(b, tree[v]) \in Nat
             /\ Occurrences(b, freeing) <= Occurrences(b, tree[v])
             /\ Named(tree, b) = Occurrences(b, tree[v]) + Named(tree', b)
             /\ Naming(tree') /\ Named(tree', b) \in Nat
  <2>1. PICK rest \in Seq(Blocks) : rest = Drop(tree[v], evict.left)
    BY <1>4
  <2>2. Occurrences(b, freeing \o rest) = Occurrences(b, freeing) + Occurrences(b, rest)
    BY <1>4, OccursConcat
  <2>3. Occurrences(b, freeing) \in Nat /\ Occurrences(b, rest) \in Nat
    BY <1>4, OccursType
  <2>4. Occurrences(b, tree[v]) = Occurrences(b, freeing) + Occurrences(b, rest)
    BY <1>4, <2>1, <2>2, Zenon
  <2>5. LessOne(tree', tree, v)
    BY <1>2 DEF LessOne
  <2>6. Named(tree, b) = Occurrences(b, tree[v]) + Named(tree', b) /\ Naming(tree') /\ Named(tree', b) \in Nat
    BY <1>3, <2>5, NamedTakes
  <2>. QED
    BY <2>3, <2>4, <2>6
<1>6. TypeOK'
  <2>1. refCount' \in [Blocks -> Int]
    <3>1. \A b \in Blocks : refCount[b] - Occurrences(b, freeing) \in Int
      BY <1>5 DEF IInv, TypeOK
    <3>. QED
      BY <1>2, <3>1
  <2>2. Parent(tree, v) \in Seq(Nat)
    <3>1. v \in Seq(Nat) /\ v # <<>>
      BY <1>3 DEF TreeOK, Paths
    <3>2. Len(v) - 1 \in 0 .. Len(v)
      BY <3>1, LenProperties, EmptySeq
    <3>3. Front(v) \in Seq(Nat)
      BY <3>1, <3>2, CutIs DEF Front
    <3>. QED
      BY <1>3, <3>3, AtIs DEF Parent, TreeOK
  <2>3. evict.left - Len(freeing) \in Nat
    BY <1>3, <1>4
  <2>4. evict' \in [on : BOOLEAN, left : Nat, under : Seq(Nat)]
    BY <1>2, <2>2, <2>3 DEF IInv, TypeOK
  <2>. QED
    BY <1>2, <2>1, <2>4 DEF IInv, TypeOK
<1>7. LiveTokens'
  BY <1>2 DEF IInv, LiveTokens
<1>8. TreeOK(tree)'
  <2>1. DOMAIN tree' = DOMAIN tree \ {v}
    BY <1>2
  <2>2. Paths(DOMAIN tree \ {v}) /\ Closed(DOMAIN tree \ {v})
    BY <1>2, <1>3, LeafGoes DEF TreeOK, IsLeaf
  <2>3. Naming(tree')
    BY <1>5
  <2>. QED
    BY <2>1, <2>2, <2>3 DEF TreeOK, Naming
<1>9. History'
  <2>1. remembered' = {}
    BY <1>2 DEF IInv, History
  <2>. QED
    BY <2>1 DEF History
<1>10. Counted'
  <2>1. ASSUME NEW b \in Blocks PROVE refCount'[b] >= Named(tree', b) + Named(table, b)
    <3>1. refCount[b] \in Int /\ refCount[b] >= Named(tree, b) + Named(table, b)
      BY DEF IInv, Counted, TypeOK
    <3>2. Named(table, b) \in Nat /\ Named(tree, b) \in Nat
      BY <1>3, NamedType
    <3>3. refCount'[b] = refCount[b] - Occurrences(b, freeing)
      BY <1>2
    <3>. QED
      BY <1>5, <3>1, <3>2, <3>3
  <2>2. table' = table
    BY <1>2
  <2>. QED
    BY <2>1, <2>2 DEF Counted
<1>11. Owned'
  <2>1. ASSUME NEW q \in Requests, status[q] = "live",
               NEW i \in reused[q] + 1 .. Len(table[q])
        PROVE  refCount'[table[q][i]] = 1
    <3>1. PICK b : b = table[q][i]
      OBVIOUS
    <3>2. b \in Blocks /\ refCount[b] = 1 /\ \A p \in DOMAIN tree : Occurrences(b, tree[p]) = 0
      BY <2>1, <3>1, OwnedAlone
    <3>3. Occurrences(b, freeing) = 0
      <4>1. Occurrences(b, tree[v]) = 0
        BY <3>2
      <4>. QED
        BY <1>5, <4>1
    <3>. QED
      BY <1>2, <3>1, <3>2, <3>3
  <2>. QED
    BY <1>2, <2>1 DEF Owned
<1>. QED
  BY <1>6, <1>7, <1>8, <1>9, <1>10, <1>11 DEF IInv

-----------------------------------------------------------------------------
(* The invariant holds of every step. *)

(* Starting and ending an eviction, a panic, and stuttering change neither
   tree nor counts. *)
LEMMA OthersKeep ==
    ASSUME IInv,
           \/ \E target \in 1 .. Cardinality(Blocks) : Evict(target)
           \/ EvictDone
           \/ \E r \in Requests : Panic(r)
           \/ UNCHANGED vars
    PROVE  IInv'
<1>1. UNCHANGED <<mode, tree, refCount, table, status, tokens, reused>>
  BY DEF Evict, EvictDone, Panic, vars
<1>2. evict' \in [on : BOOLEAN, left : Nat, under : Seq(Nat)]
  <2>1. <<>> \in Seq(Nat)
    BY EmptySeq
  <2>2. evict \in [on : BOOLEAN, left : Nat, under : Seq(Nat)]
    BY DEF IInv, TypeOK
  <2>3. ASSUME NEW target \in 1 .. Cardinality(Blocks), Evict(target)
        PROVE  evict' \in [on : BOOLEAN, left : Nat, under : Seq(Nat)]
    <3>1. target \in Nat
      BY FS_CardinalityType, RadixAssumption
    <3>. QED
      BY <2>1, <2>3, <3>1 DEF Evict
  <2>4. CASE EvictDone
    BY <2>1, <2>4 DEF EvictDone, NoEvict
  <2>5. CASE evict' = evict
    BY <2>2, <2>5
  <2>. QED
    BY <2>3, <2>4, <2>5 DEF Panic, vars
<1>3. TypeOK'
  BY <1>1, <1>2 DEF IInv, TypeOK
<1>4. History'
  <2>1. NodeRefs' = NodeRefs
    BY <1>1 DEF NodeRefs, Port
  <2>2. remembered \subseteq DOMAIN tree /\ (evict.on /\ NodeRefs = 0 => remembered = {})
    BY DEF IInv, History
  <2>3. ASSUME NEW target \in 1 .. Cardinality(Blocks), Evict(target) PROVE History'
    BY <1>1, <2>1, <2>2, <2>3 DEF Evict, History
  <2>4. CASE EvictDone
    BY <1>1, <2>1, <2>2, <2>4 DEF EvictDone, NoEvict, History
  <2>5. CASE evict' = evict /\ remembered' = remembered
    BY <1>1, <2>1, <2>2, <2>5 DEF History
  <2>. QED
    BY <2>3, <2>4, <2>5 DEF Panic, vars
<1>5. TreeOK(tree)' /\ LiveTokens' /\ Owned'
  BY <1>1 DEF IInv, TreeOK, LiveTokens, Owned
<1>6. Counted'
  <2>1. tree' = tree /\ table' = table /\ refCount' = refCount
    BY <1>1
  <2>2. Counted
    BY DEF IInv
  <2>. QED
    BY <2>1, <2>2 DEF Counted
<1>. QED
  BY <1>3, <1>4, <1>5, <1>6 DEF IInv

(* Every step keeps the invariant. *)
LEMMA NextIInv == IInv /\ [Next]_vars => IInv'
<1>. SUFFICES ASSUME IInv, [Next]_vars PROVE IInv'
  OBVIOUS
<1>1. ASSUME NEW r \in Requests, NEW t \in Sequences, NEW m \in 1 .. Len(t) - 1, Serve(r, t, m) PROVE IInv'
  BY <1>1, ServeKeeps
<1>2. ASSUME NEW r \in Requests, Finish(r) PROVE IInv'
  BY <1>2, FinishKeeps
<1>3. ASSUME NEW v \in DOMAIN tree, EvictNode(v) PROVE IInv'
  BY <1>3, EvictNodeKeeps
<1>4. ASSUME \/ \E target \in 1 .. Cardinality(Blocks) : Evict(target)
             \/ EvictDone
             \/ \E r \in Requests : Panic(r)
             \/ UNCHANGED vars
      PROVE  IInv'
  BY <1>4, OthersKeep
<1>. QED
  BY <1>1, <1>2, <1>3, <1>4 DEF Next

(* So it always holds. *)
LEMMA AlwaysIInv == Spec => []IInv
<1>1. Init => IInv
  BY InitIInv
<1>2. IInv /\ [Next]_vars => IInv'
  BY NextIInv
<1>. QED
  BY <1>1, <1>2, PTL DEF Spec

-----------------------------------------------------------------------------
(* The walks of match_prefix and insert are determined: no node has two
   children that start with the same token. *)
THEOREM WalksDetermined == Spec => []TreeShape
<1>1. IInv => TreeShape
  BY DEF IInv, TreeOK, Closed, TreeShape
<1>. QED
  BY <1>1, AlwaysIInv, PTL

(* What was inserted since the last eviction is matched to its last token. *)
THEOREM InsertedIsFound == Spec => []Remembered
<1>1. IInv => Remembered
  <2>. SUFFICES ASSUME IInv, NEW t \in remembered PROVE MatchLen(tree, t) = Len(t)
    BY DEF Remembered
  <2>1. t \in DOMAIN tree /\ Paths(DOMAIN tree)
    BY DEF IInv, History, TreeOK
  <2>. QED
    BY <2>1, NodeMatches
<1>. QED
  BY <1>1, AlwaysIInv, PTL

(* No block in use is handed out, and what a live request took is its own. *)
THEOREM NoBlockShared == Spec => []BlocksSafe
<1>1. IInv => BlocksSafe
  <2>. SUFFICES ASSUME IInv PROVE BlocksSafe
    OBVIOUS
  <2>1. ASSUME NEW b \in Blocks PROVE CachedRefs(b) = Named(tree, b)
    BY DEF CachedRefs, Named, SumFunction
  <2>2. ASSUME NEW b \in Blocks PROVE TableRefs(b) = Named(table, b)
    <3>1. DOMAIN table = Requests
      BY Facts DEF IInv
    <3>. QED
      BY <3>1 DEF TableRefs, Named, SumFunction
  <2>. QED
    BY <2>1, <2>2 DEF IInv, Counted, Owned, BlocksSafe
<1>. QED
  BY <1>1, AlwaysIInv, PTL

(* The blocks along the path to a node never change while the node is there. *)
THEOREM HitsStayValid == Spec => StableHits
<1>. DEFINE Kept == \A p \in DOMAIN tree \cap DOMAIN tree' : PathBlocks(tree', p) = PathBlocks(tree, p)
<1>1. IInv /\ [Next]_vars => [Kept]_tree
  <2>. SUFFICES ASSUME IInv, Next PROVE Kept \/ UNCHANGED tree
    BY DEF vars
  <2>1. ASSUME NEW r \in Requests, Finish(r) PROVE Kept
    <3>1. tree' = Insert(tree, tokens[r], table[r]) /\ status[r] = "live"
      BY <2>1 DEF Finish
    <3>2. /\ tokens[r] \in Seq(Nat) /\ tokens[r] # <<>>
          /\ TreeOK(tree) /\ BlockSize \in Nat \ {0}
      BY <3>1, Facts DEF IInv, LiveTokens
    <3>3. ASSUME NEW p \in DOMAIN tree PROVE PathBlocks(tree', p) = PathBlocks(tree, p)
      BY <3>1, <3>2, InsertKeepsPaths
    <3>. QED
      BY <3>3
  <2>2. ASSUME NEW v \in DOMAIN tree, EvictNode(v) PROVE Kept
    <3>1. tree' = [q \in DOMAIN tree \ {v} |-> tree[q]] /\ IsLeaf(v)
      BY <2>2 DEF EvictNode
    <3>2. DOMAIN tree' = DOMAIN tree \ {v} /\ TreeOK(tree)
      BY <3>1 DEF IInv
    <3>3. ASSUME NEW p \in DOMAIN tree \ {v} PROVE PathBlocks(tree', p) = PathBlocks(tree, p)
      BY <3>1, <3>2, EvictionKeepsPaths DEF IsLeaf
    <3>. QED
      BY <3>2, <3>3
  <2>3. ASSUME \/ \E r \in Requests, t \in Sequences : \E m \in 1 .. Len(t) - 1 : Serve(r, t, m)
               \/ \E r \in Requests : Panic(r)
               \/ \E target \in 1 .. Cardinality(Blocks) : Evict(target)
               \/ EvictDone
        PROVE  UNCHANGED tree
    BY <2>3 DEF Serve, Panic, Evict, EvictDone
  <2>. QED
    BY <2>1, <2>2, <2>3 DEF Next
<1>. QED
  BY <1>1, AlwaysIInv, PTL DEF Spec, StableHits
=============================================================================
