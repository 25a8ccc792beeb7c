--------------------------- MODULE SequenceFacts ---------------------------
(***************************************************************************)
(* Lemmas on natural numbers and on flattened sequences that the proofs    *)
(* about images of blocks and about lists of attempts and files share.     *)
(***************************************************************************)
EXTENDS SequencesExt, Integers, SequenceTheorems, WellFoundedInduction, FiniteSetTheorems,
        TLAPS

-----------------------------------------------------------------------------
(* A nonempty set of naturals has a least element: the strict subset       *)
(* ordering is well founded on its initial segments.                       *)
LEMMA NatMin ==
  ASSUME NEW T, T \subseteq Nat, T # {}
  PROVE  \E x \in T : \A y \in T : x <= y
<1> DEFINE Initial == {1 .. k : k \in T}
<1>1. Initial \subseteq FiniteSubsetsOf(Nat) /\ Initial # {}
  <2>1. \A k \in T : 1 .. k \in SUBSET Nat  BY SMT
  <2>2. \A k \in T : IsFiniteSet(1 .. k)  BY FS_Interval, SMT
  <2> QED BY <2>1, <2>2 DEF FiniteSubsetsOf
<1> HIDE DEF Initial
<1>2. PICK I \in Initial : \A J \in Initial : <<J, I>> \notin StrictSubsetOrdering(Nat)
  BY <1>1, FS_StrictSubsetOrderingWellFounded, WFMin
<1>3. PICK x \in T : I = 1 .. x  BY DEF Initial
<1>4. ASSUME NEW y \in T, ~ (x <= y)  PROVE FALSE
  <2>1. 1 .. y \in Initial  BY DEF Initial
  <2>2. 1 .. y \subseteq 1 .. x /\ 1 .. y # 1 .. x
    <3>1. x \in Nat /\ y \in Nat /\ y < x  BY <1>4
    <3>2. x \in 1 .. x /\ x \notin 1 .. y  BY <3>1
    <3> QED BY <3>1, <3>2
  <2>3. 1 .. y \in SUBSET Nat /\ 1 .. x \in SUBSET Nat  BY SMT
  <2> QED BY <1>2, <1>3, <2>1, <2>2, <2>3 DEF StrictSubsetOrdering
<1> QED BY <1>4

-----------------------------------------------------------------------------
(* f holds the concatenations of the first 1, 2, ... n sequences of s.     *)
Joined(B, s, n, f) ==
  /\ f \in [1 .. n -> Seq(B)]
  /\ \A i \in 1 .. n : f[i] = IF i = 1 THEN s[i] ELSE f[i-1] \o s[i]

(* Such an f exists: the least n without one would have one.               *)
LEMMA JoinedExists ==
  ASSUME NEW B, NEW s \in Seq(Seq(B)), NEW n \in 1 .. Len(s)
  PROVE  \E f : Joined(B, s, n, f)
<1> DEFINE Bad == {k \in 1 .. Len(s) : ~ \E f : Joined(B, s, k, f)}
<1> SUFFICES ASSUME Bad # {} PROVE FALSE  OBVIOUS
<1>1. PICK k \in Bad : \A m \in Bad : k <= m
  <2>1. Bad \subseteq Nat  
    <3>1. 1 .. Len(s) \subseteq Nat BY SMT
    <3> QED BY <3>1, Zenon
  <2> HIDE DEF Bad
  <2> QED BY <2>1, NatMin
<1>2. k \in 1 .. Len(s) /\ ~ \E f : Joined(B, s, k, f)  BY Zenon
<1>3. CASE k = 1
  <2> DEFINE f == [i \in 1 .. 1 |-> s[1]]
  <2>1. f \in [1 .. 1 -> Seq(B)]  BY <1>2, <1>3
  <2>2. \A i \in 1 .. 1 : f[i] = IF i = 1 THEN s[i] ELSE f[i-1] \o s[i]  OBVIOUS
  <2> HIDE DEF f
  <2>3. Joined(B, s, 1, f)  BY <2>1, <2>2 DEF Joined
  <2> QED BY <1>2, <1>3, <2>3
<1>4. CASE k # 1
  <2>1. k - 1 \in 1 .. Len(s) /\ ~ (k <= k - 1) BY <1>2, <1>4
  <2>2. PICK f : Joined(B, s, k - 1, f)  BY <1>1, <2>1, Zenon
  <2> DEFINE g == [i \in 1 .. k |-> IF i = k THEN f[k-1] \o s[k] ELSE f[i]]
  <2>3. f[k-1] \o s[k] \in Seq(B)
    <3>1. f[k-1] \in Seq(B)  BY <2>1, <2>2 DEF Joined
    <3>2. s[k] \in Seq(B)  BY <1>2
    <3> QED BY <3>1, <3>2
  <2>4. \A i \in 1 .. k : g[i] \in Seq(B)
    <3> SUFFICES ASSUME NEW i \in 1 .. k  PROVE g[i] \in Seq(B)  OBVIOUS
    <3>1. CASE i = k  BY <3>1, <2>3
    <3>2. CASE i # k
      <4>1. i \in 1 .. k - 1  BY <1>2, <3>2
      <4>2. f[i] \in Seq(B)  BY <4>1, <2>2 DEF Joined
      <4> QED BY <4>2, <3>2
    <3> QED BY <3>1, <3>2
  <2>5. \A i \in 1 .. k : g[i] = IF i = 1 THEN s[i] ELSE g[i-1] \o s[i]
    <3> SUFFICES ASSUME NEW i \in 1 .. k
                 PROVE  g[i] = IF i = 1 THEN s[i] ELSE g[i-1] \o s[i]  OBVIOUS
    <3>1. CASE i = k
      <4>1. g[i] = f[k-1] \o s[k]  BY <3>1
      <4>2. k - 1 \in 1 .. k /\ k - 1 # k  BY <1>2, <2>1
      <4>3. g[k-1] = f[k-1]  BY <4>2
      <4> HIDE DEF g
      <4> QED BY <3>1, <1>4, <4>1, <4>3
    <3>2. CASE i # k
      <4>1. i \in 1 .. k - 1  BY <1>2, <3>2
      <4>2. f[i] = IF i = 1 THEN s[i] ELSE f[i-1] \o s[i]  BY <4>1, <2>2 DEF Joined
      <4>3. g[i] = f[i]  BY <3>2
      <4>4. ASSUME i # 1 PROVE g[i-1] = f[i-1]
        <5>1. i - 1 \in 1 .. k /\ i - 1 # k  BY <1>2, <4>1, <4>4
        <5> QED BY <5>1
      <4> HIDE DEF g
      <4> QED BY <4>2, <4>3, <4>4
    <3> QED BY <3>1, <3>2
  <2>6. g \in [1 .. k -> Seq(B)]
    <3>1. g = [i \in 1 .. k |-> g[i]]  OBVIOUS
    <3> HIDE DEF g
    <3> QED BY <3>1, <2>4
  <2> HIDE DEF g
  <2>7. Joined(B, s, k, g)  BY <2>5, <2>6 DEF Joined
  <2> QED BY <1>2, <2>7
<1> QED BY <1>3, <1>4

(* FlattenSeq is the last of these concatenations.                         *)
LEMMA FlattenSeqJoined ==
  ASSUME NEW B, NEW s \in Seq(Seq(B)), s # << >>
  PROVE  \E f : Joined(B, s, Len(s), f) /\ FlattenSeq(s) = f[Len(s)]
<1> DEFINE IsFlatten(f) ==
      f = [i \in 1 .. Len(s) |-> IF i = 1 THEN s[i] ELSE f[i-1] \o s[i]]
<1>1. Len(s) \in 1 .. Len(s)  BY s # << >>
<1>2. PICK f : Joined(B, s, Len(s), f)  BY <1>1, JoinedExists
<1>3. IsFlatten(f)
  <2>1. f = [i \in 1 .. Len(s) |-> f[i]]  BY <1>2 DEF Joined
  <2> QED BY <2>1, <1>2 DEF Joined
<1> DEFINE flatten == CHOOSE g : IsFlatten(g)
<1>4. IsFlatten(flatten)  BY <1>3, Zenon
<1>5. FlattenSeq(s) = flatten[Len(s)]  BY <1>1 DEF FlattenSeq
<1>6. DOMAIN flatten = 1 .. Len(s) /\ flatten = [i \in 1 .. Len(s) |-> flatten[i]]
  <2> HIDE DEF flatten
  <2> QED BY <1>4
<1>7. \A i \in 1 .. Len(s) :
         flatten[i] = IF i = 1 THEN s[i] ELSE flatten[i-1] \o s[i]
  <2> HIDE DEF flatten
  <2> QED BY <1>4
<1> HIDE DEF flatten
<1> DEFINE Bad == {i \in 1 .. Len(s) : flatten[i] \notin Seq(B)}
<1>8. Bad = {}
  <2> SUFFICES ASSUME Bad # {} PROVE FALSE  OBVIOUS
  <2>1. Bad \subseteq Nat
    <3>1. 1 .. Len(s) \subseteq Nat BY SMT
    <3> QED BY <3>1, Zenon
  <2>2. PICK n \in Bad : \A m \in Bad : n <= m
    <3> HIDE DEF Bad
    <3> QED BY <2>1, NatMin
  <2>3. n \in 1 .. Len(s) /\ flatten[n] \notin Seq(B)  BY Zenon
  <2>4. n # 1  
     <3>1. s[n] \in Seq(B) BY <2>3
     <3> QED BY <1>7, <2>3, <3>1
  <2>5. n - 1 \in 1 .. Len(s) /\ ~ (n <= n - 1)  BY <2>3, <2>4
  <2>6. flatten[n-1] \in Seq(B)  BY <2>2, <2>5, Zenon
  <2>7. s[n] \in Seq(B)  BY <2>3
  <2>8. flatten[n-1] \o s[n] \in Seq(B)  BY <2>6, <2>7
  <2> QED BY <1>7, <2>3, <2>4, <2>8
<1>9. flatten \in [1 .. Len(s) -> Seq(B)]  BY <1>6, <1>8
<1>10. Joined(B, s, Len(s), flatten)  BY <1>7, <1>9 DEF Joined
<1> QED BY <1>5, <1>10, Zenon

(* The concatenation of sequences over B is a sequence over B.             *)
LEMMA FlattenSeqType ==
  ASSUME NEW B, NEW s \in Seq(Seq(B))
  PROVE  FlattenSeq(s) \in Seq(B)
<1>1. CASE Len(s) = 0
  <2>1. s = << >> BY <1>1
  <2>2. FlattenSeq(s) = s BY <1>1 DEF FlattenSeq
  <2>3. << >> \in Seq(B)  BY EmptySeq
  <2> QED BY <2>1, <2>2, <2>3, Zenon
<1>2. CASE s # << >>
  <2>1. PICK f : Joined(B, s, Len(s), f) /\ FlattenSeq(s) = f[Len(s)]
    BY <1>2, FlattenSeqJoined
  <2>2. Len(s) \in 1 .. Len(s)  BY <1>2
  <2> QED BY <2>1, <2>2 DEF Joined
<1> QED BY <1>1, <1>2

LEMMA ConcatHas ==
  ASSUME NEW B, NEW a \in Seq(B), NEW b \in Seq(B)
  PROVE  Range(a) \subseteq Range(a \o b) /\ Range(b) \subseteq Range(a \o b)
<1> DEFINE c == a \o b  p == Len(a)  q == Len(b)
<1>1. /\ c \in Seq(B) /\ Len(c) = p + q /\ p \in Nat /\ q \in Nat
      /\ \A l \in 1 .. p + q : c[l] = IF l <= p THEN a[l] ELSE b[l - p]
  BY ConcatProperties
<1>2. DOMAIN a = 1 .. p /\ DOMAIN b = 1 .. q /\ DOMAIN c = 1 .. p + q  BY <1>1
<1> HIDE DEF c, p, q
<1>3. \A l \in 1 .. p : l \in 1 .. p + q /\ c[l] = a[l]  BY <1>1
<1>4. \A l \in 1 .. q : p + l \in 1 .. p + q /\ c[p + l] = b[l]  BY <1>1
<1>5. Range(a) \subseteq Range(c) /\ Range(b) \subseteq Range(c)
  BY <1>2, <1>3, <1>4 DEF Range
<1> QED BY <1>5 DEF c

(* ... and has the elements of each of them.                               *)
LEMMA FlattenSeqCovers ==
  ASSUME NEW B, NEW s \in Seq(Seq(B)), NEW i \in 1 .. Len(s)
  PROVE  Range(s[i]) \subseteq Range(FlattenSeq(s))
<1>1. Len(s) \in Nat /\ s # << >> /\ Len(s) \in 1 .. Len(s)  OBVIOUS
<1>2. PICK f : Joined(B, s, Len(s), f) /\ FlattenSeq(s) = f[Len(s)]
  BY <1>1, FlattenSeqJoined
<1> DEFINE Bad == {k \in i .. Len(s) : ~(Range(s[i]) \subseteq Range(f[k]))}
<1>3. Bad = {}
  <2> SUFFICES ASSUME Bad # {} PROVE FALSE  OBVIOUS
  <2>1. Bad \subseteq Nat
    <3>1. i .. Len(s) \subseteq Nat  BY <1>1
    <3> QED BY <3>1, Zenon
  <2>2. PICK k \in Bad : \A m \in Bad : k <= m
    <3> HIDE DEF Bad
    <3> QED BY <2>1, NatMin
  <2>3. k \in i .. Len(s) /\ ~(Range(s[i]) \subseteq Range(f[k]))  BY Zenon
  <2>4. k \in 1 .. Len(s) /\ s[k] \in Seq(B)  BY <1>1, <2>3
  <2>5. f[k] = IF k = 1 THEN s[k] ELSE f[k-1] \o s[k]  BY <1>2, <2>4 DEF Joined
  <2>6. CASE k = 1
    <3>1. f[k] = s[i]  BY <2>3, <2>4, <2>5, <2>6
    <3> QED BY <2>3, <3>1
  <2>7. CASE k # 1
    <3>1. k - 1 \in 1 .. Len(s) /\ ~(k <= k - 1)  BY <2>4, <2>7
    <3>2. f[k-1] \in Seq(B)  BY <1>2, <3>1 DEF Joined
    <3>3. f[k] = f[k-1] \o s[k]  BY <2>5, <2>7
    <3>4. Range(f[k-1]) \subseteq Range(f[k]) /\ Range(s[k]) \subseteq Range(f[k])
      BY <2>4, <3>2, <3>3, ConcatHas
    <3>5. CASE k = i  BY <2>3, <3>4, <3>5
    <3>6. CASE k # i
      <4>1. k - 1 \in i .. Len(s)  BY <2>3, <2>4, <3>6
      <4>2. Range(s[i]) \subseteq Range(f[k-1])  BY <2>2, <3>1, <4>1, Zenon
      <4> QED BY <2>3, <3>4, <4>2
    <3> QED BY <3>5, <3>6
  <2> QED BY <2>6, <2>7
<1>4. Len(s) \in i .. Len(s)  BY <1>1
<1>5. Range(s[i]) \subseteq Range(f[Len(s)])  BY <1>3, <1>4, Zenon
<1> QED BY <1>2, <1>5

(* a is the start of b; s and t agree on their first n elements.           *)
IsStart(a, b) == Len(a) <= Len(b) /\ a = SubSeq(b, 1, Len(a))

Agree(s, t, n) == \A i \in 1 .. n : s[i] = t[i]

LEMMA PrefixOfConcat ==
  ASSUME NEW B, NEW a \in Seq(B), NEW b \in Seq(B), NEW c \in Seq(B),
         IsStart(a, b)
  PROVE  IsStart(a, b \o c)
<1> DEFINE d == b \o c
<1>0. Len(a) <= Len(b) /\ a = SubSeq(b, 1, Len(a))  BY DEF IsStart
<1>1. /\ d \in Seq(B) /\ Len(d) = Len(b) + Len(c)
      /\ \A l \in 1 .. Len(b) + Len(c) : d[l] = IF l <= Len(b) THEN b[l] ELSE c[l - Len(b)]
  BY ConcatProperties
<1> HIDE DEF d
<1>2. Len(a) \in Nat /\ Len(b) \in Nat /\ Len(c) \in Nat  OBVIOUS
<1>3. ASSUME NEW l \in 1 .. Len(a)  PROVE a[l] = d[l]
  <2>1. a[l] = b[l]  BY <1>0, <1>2
  <2>2. l \in 1 .. Len(b) + Len(c) /\ l <= Len(b)  BY <1>0, <1>2
  <2> QED BY <1>1, <2>1, <2>2
<1>4. Len(a) <= Len(d)  BY <1>0, <1>1, <1>2
<1>5. a = SubSeq(d, 1, Len(a))  BY <1>1, <1>2, <1>3, <1>4
<1> QED BY <1>4, <1>5 DEF d, IsStart

(* The concatenation of the first k sequences is a prefix of that of the   *)
(* first n.                                                                *)
LEMMA JoinedPrefix ==
  ASSUME NEW B, NEW s \in Seq(Seq(B)), NEW n \in 1 .. Len(s), NEW f, Joined(B, s, n, f),
         NEW k \in 1 .. n
  PROVE  f[k] \in Seq(B) /\ IsStart(f[k], f[n])
<1> DEFINE Bad == {m \in k .. n : ~IsStart(f[k], f[m])}
<1>1. n \in Nat /\ k \in Nat /\ Len(s) \in Nat  OBVIOUS
<1>2. \A m \in 1 .. n : f[m] \in Seq(B)  BY DEF Joined
<1>3. Bad = {}
  <2> SUFFICES ASSUME Bad # {} PROVE FALSE  OBVIOUS
  <2>1. Bad \subseteq Nat
    <3>1. k .. n \subseteq Nat  BY <1>1
    <3> QED BY <3>1, Zenon
  <2>2. PICK m \in Bad : \A l \in Bad : m <= l
    <3> HIDE DEF Bad
    <3> QED BY <2>1, NatMin
  <2>3. m \in k .. n /\ ~IsStart(f[k], f[m])  BY Zenon
  <2>4. f[k] \in Seq(B)  BY <1>2
  <2>5. m # k
    <3>1. IsStart(f[k], f[k])
      <4> DEFINE a == f[k]
      <4>1. a \in Seq(B)  BY <2>4
      <4> HIDE DEF a
      <4>2. Len(a) \in Nat /\ Len(a) <= Len(a) /\ a = SubSeq(a, 1, Len(a))  BY <4>1
      <4> QED BY <4>2 DEF a, IsStart
    <3> QED BY <2>3, <3>1
  <2>6. m - 1 \in k .. n /\ m \in 1 .. n /\ m # 1 /\ ~(m <= m - 1)  BY <1>1, <2>3, <2>5
  <2>7. IsStart(f[k], f[m-1])  BY <2>2, <2>6, Zenon
  <2>8. f[m] = f[m-1] \o s[m]  BY <2>6 DEF Joined
  <2>9. f[m-1] \in Seq(B) /\ s[m] \in Seq(B)
    <3>1. m - 1 \in 1 .. n /\ m \in 1 .. Len(s)  BY <1>1, <2>6
    <3> QED BY <1>2, <3>1
  <2> QED BY <2>3, <2>4, <2>7, <2>8, <2>9, PrefixOfConcat
<1>4. n \in k .. n  BY <1>1
<1>5. IsStart(f[k], f[n])  BY <1>3, <1>4
<1> QED BY <1>2, <1>5

(* Sequences that agree have the same concatenations.                      *)
LEMMA JoinedAgree ==
  ASSUME NEW B, NEW s \in Seq(Seq(B)), NEW t \in Seq(Seq(B)),
         NEW n \in 1 .. Len(s), NEW m \in 1 .. Len(t), n <= m,
         NEW f, Joined(B, s, n, f), NEW g, Joined(B, t, m, g),
         Agree(s, t, n), NEW k \in 1 .. n
  PROVE  f[k] = g[k]
<1> DEFINE Bad == {i \in 1 .. n : f[i] # g[i]}
<1> SUFFICES ASSUME Bad # {} PROVE FALSE  OBVIOUS
<1>1. Bad \subseteq Nat
  <2>1. 1 .. n \subseteq Nat  BY SMT
  <2> QED BY <2>1, Zenon
<1>2. PICK i \in Bad : \A l \in Bad : i <= l
  <2> HIDE DEF Bad
  <2> QED BY <1>1, NatMin
<1>3. i \in 1 .. n /\ f[i] # g[i]  BY Zenon
<1>4. i \in 1 .. m /\ s[i] = t[i]  BY <1>3 DEF Agree
<1>5. /\ f[i] = IF i = 1 THEN s[i] ELSE f[i-1] \o s[i]
      /\ g[i] = IF i = 1 THEN t[i] ELSE g[i-1] \o t[i]
  BY <1>3, <1>4 DEF Joined
<1>6. i # 1  BY <1>3, <1>4, <1>5
<1>7. i - 1 \in 1 .. n /\ ~(i <= i - 1)  BY <1>3, <1>6
<1>8. f[i-1] = g[i-1]  BY <1>2, <1>7, Zenon
<1> QED BY <1>3, <1>4, <1>5, <1>6, <1>8

(* A prefix of sequences flattens to a prefix.                             *)
LEMMA FlattenPrefix ==
  ASSUME NEW B, NEW s \in Seq(Seq(B)), NEW t \in Seq(Seq(B)), Len(s) <= Len(t),
         Agree(s, t, Len(s))
  PROVE  IsStart(FlattenSeq(s), FlattenSeq(t))
<1>0. Len(s) \in Nat /\ Len(t) \in Nat  OBVIOUS
<1>1. FlattenSeq(t) \in Seq(B) /\ FlattenSeq(s) \in Seq(B)  BY FlattenSeqType
<1>2. CASE Len(s) = 0
  <2>1. s = << >>  BY <1>2
  <2>2. FlattenSeq(s) = << >>  BY <2>1, <1>2 DEF FlattenSeq
  <2>3. Len(FlattenSeq(s)) = 0  BY <2>2
  <2>4. SubSeq(FlattenSeq(t), 1, 0) = << >>  BY <1>1
  <2> QED BY <1>1, <2>2, <2>3, <2>4 DEF IsStart
<1>3. CASE Len(s) # 0
  <2> DEFINE n == Len(s)  m == Len(t)
  <2>1. n \in 1 .. n /\ m \in 1 .. m /\ n \in 1 .. m /\ s # << >> /\ t # << >>  BY <1>0, <1>3
  <2>2. PICK f : Joined(B, s, n, f) /\ FlattenSeq(s) = f[n]  BY <2>1, FlattenSeqJoined
  <2>3. PICK g : Joined(B, t, m, g) /\ FlattenSeq(t) = g[m]  BY <2>1, FlattenSeqJoined
  <2>4. f[n] = g[n]
    <3> HIDE DEF n, m
    <3>1. n \in 1 .. Len(s) /\ m \in 1 .. Len(t) /\ n <= m /\ Agree(s, t, n)
      BY <2>1 DEF n, m
    <3>2. n \in 1 .. n /\ Joined(B, s, n, f) /\ Joined(B, t, m, g)  BY <2>1, <2>2, <2>3
    <3>3. \A k \in 1 .. n : f[k] = g[k]  BY <3>1, <3>2, JoinedAgree
    <3> QED BY <3>2, <3>3
  <2>5. IsStart(g[n], g[m])
    <3> HIDE DEF n
    <3> QED BY <2>1, <2>3, JoinedPrefix
  <2> QED BY <2>2, <2>3, <2>4, <2>5
<1> QED BY <1>2, <1>3
=============================================================================
