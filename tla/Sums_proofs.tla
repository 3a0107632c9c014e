----------------------------- MODULE Sums_proofs -----------------------------
(***************************************************************************)
(* Facts about sums, which the proofs of several modules cite.  They are   *)
(* proved by the least counterexample, which a set of natural numbers has  *)
(* because < is well-founded.                                              *)
(***************************************************************************)
EXTENDS Sums, SequenceTheorems, WellFoundedInduction, TLAPS

LEMMA LeastOf ==
  ASSUME NEW T \in SUBSET Nat, T # {}
  PROVE  \E n \in T : \A m \in T : n <= m
<1>1. PICK n \in T : \A m \in T : ~(<<m, n>> \in OpToRel(<, Nat))
  BY WFMin, NatLessThanWellFounded, Zenon
<1>2. \A m \in T : ~(m < n)
  BY <1>1, Zenon DEF OpToRel
<1>3. QED  BY <1>2

(* s are the sums of the first k numbers. *)
SumsOf(q, k, s) ==
  /\ s \in [0 .. k -> Nat]
  /\ s[0] = 0
  /\ \A i \in 1 .. k : s[i] = s[i - 1] + q[i]

LEMMA SumsExist ==
  ASSUME NEW q \in Seq(Nat), NEW k \in 0 .. Len(q)
  PROVE  \E s : SumsOf(q, k, s)
<1> DEFINE Bad == {n \in 0 .. Len(q) : ~\E s : SumsOf(q, n, s)}
<1>1. Len(q) \in Nat /\ \A i \in 1 .. Len(q) : q[i] \in Nat
  BY LenProperties, ElementOfSeq
<1>2. SUFFICES ASSUME Bad # {} PROVE FALSE
  OBVIOUS
<1>3. PICK n \in Bad : \A m \in Bad : n <= m
  <2>1. Bad \in SUBSET Nat  BY <1>1
  <2> HIDE DEF Bad
  <2>2. QED  BY <1>2, <2>1, LeastOf
<1>4. CASE n = 0
  <2>1. SumsOf(q, 0, [i \in 0 .. 0 |-> 0])
    BY DEF SumsOf
  <2>2. QED  BY <1>3, <1>4, <2>1
<1>5. CASE n # 0
  <2>1. n \in 1 .. Len(q) /\ n - 1 \in 0 .. Len(q) /\ n - 1 \notin Bad
    BY <1>1, <1>3, <1>5, SMTT(40)
  <2>2. PICK s : SumsOf(q, n - 1, s)
    BY <2>1
  <2> DEFINE t == [i \in 0 .. n |-> IF i = n THEN s[n - 1] + q[n] ELSE s[i]]
  <2>3. SumsOf(q, n, t)
    <3>1. s \in [0 .. n - 1 -> Nat] /\ s[0] = 0 /\ s[n - 1] \in Nat
          /\ \A i \in 1 .. n - 1 : s[i] = s[i - 1] + q[i]
      BY <2>1, <2>2 DEF SumsOf
    <3>2. q[n] \in Nat  BY <1>1, <2>1
    <3>3. \A i \in 0 .. n - 1 : i \in 0 .. n /\ i # n /\ t[i] = s[i]
      BY <2>1
    <3>4. t \in [0 .. n -> Nat]
      BY <2>1, <3>1, <3>2
    <3>5. t[0] = 0
      BY <2>1, <3>1, <3>3
    <3>6. t[n] = t[n - 1] + q[n]
      BY <2>1, <3>3
    <3>7. ASSUME NEW i \in 1 .. n PROVE t[i] = t[i - 1] + q[i]
      <4>1. CASE i = n  BY <3>6, <4>1
      <4>2. CASE i # n
        <5>1. i \in 1 .. n - 1 /\ i \in 0 .. n - 1 /\ i - 1 \in 0 .. n - 1
          BY <2>1, <4>2
        <5>2. QED  BY <3>1, <3>3, <5>1
      <4>3. QED  BY <4>1, <4>2
    <3> HIDE DEF t
    <3>8. QED  BY <3>4, <3>5, <3>7 DEF SumsOf
  <2>4. QED  BY <1>3, <2>3
<1>6. QED  BY <1>4, <1>5

LEMMA PartialSumsAre ==
  ASSUME NEW q \in Seq(Nat)
  PROVE  SumsOf(q, Len(q), PartialSums(q))
<1> DEFINE Recurs(f) == f = [n \in 0 .. Len(q) |-> IF n = 0 THEN 0 ELSE f[n - 1] + q[n]]
<1>0. Len(q) \in Nat /\ \A i \in 1 .. Len(q) : q[i] \in Nat
  BY LenProperties, ElementOfSeq
<1>1. PICK s : SumsOf(q, Len(q), s)
  <2>1. Len(q) \in 0 .. Len(q)  BY <1>0
  <2>2. QED  BY <2>1, SumsExist
<1>2. Recurs(s)
  <2>1. \A n \in 0 .. Len(q) : s[n] = IF n = 0 THEN 0 ELSE s[n - 1] + q[n]
    BY <1>0, <1>1 DEF SumsOf
  <2>2. s = [n \in 0 .. Len(q) |-> s[n]]
    BY <1>1 DEF SumsOf
  <2>3. QED  BY <2>1, <2>2, Zenon
<1>3. Recurs(PartialSums(q))
  <2>1. PartialSums(q) = CHOOSE f : Recurs(f)
    BY DEF PartialSums
  <2>2. QED  BY <1>2, <2>1, Zenon
<1> DEFINE t == PartialSums(q)
           Bad == {n \in 0 .. Len(q) : t[n] \notin Nat}
<1>4. t = [n \in 0 .. Len(q) |-> IF n = 0 THEN 0 ELSE t[n - 1] + q[n]]
  BY <1>3
<1> HIDE DEF t
<1>5. t[0] = 0 /\ \A n \in 1 .. Len(q) : t[n] = t[n - 1] + q[n]
  <2>1. 0 \in 0 .. Len(q) /\ \A n \in 1 .. Len(q) : n \in 0 .. Len(q) /\ n # 0  BY <1>0
  <2>2. QED  BY <1>4, <2>1
<1>6. ASSUME Bad # {} PROVE FALSE
  <2>1. PICK n \in Bad : \A m \in Bad : n <= m
    <3>1. Bad \in SUBSET Nat  BY <1>0
    <3> HIDE DEF Bad
    <3>2. QED  BY <1>6, <3>1, LeastOf
  <2>2. n # 0  BY <1>5, <2>1
  <2>3. n \in 1 .. Len(q) /\ n - 1 \in 0 .. Len(q) /\ n - 1 \notin Bad  BY <1>0, <2>1, <2>2
  <2>4. t[n - 1] \in Nat /\ q[n] \in Nat  BY <1>0, <2>3
  <2>5. t[n] \in Nat  BY <1>5, <2>3, <2>4
  <2>6. QED  BY <2>1, <2>5
<1>7. t \in [0 .. Len(q) -> Nat]
  BY <1>4, <1>6
<1>8. QED  BY <1>5, <1>7 DEF SumsOf, t

LEMMA EvenSums ==
  ASSUME NEW q \in Seq(Nat), \A i \in 1 .. Len(q) : q[i] % 2 = 0, NEW k \in 0 .. Len(q)
  PROVE  PartialSums(q)[k] % 2 = 0
<1> DEFINE s == PartialSums(q)
           Bad == {n \in 0 .. Len(q) : s[n] % 2 # 0}
<1>1. /\ Len(q) \in Nat /\ s \in [0 .. Len(q) -> Nat] /\ s[0] = 0
      /\ \A i \in 1 .. Len(q) : q[i] \in Nat /\ s[i] = s[i - 1] + q[i]
  BY PartialSumsAre, LenProperties, ElementOfSeq DEF SumsOf
<1> HIDE DEF s
<1>2. ASSUME Bad # {} PROVE FALSE
  <2>1. PICK n \in Bad : \A m \in Bad : n <= m
    <3>1. Bad \in SUBSET Nat  BY <1>1
    <3> HIDE DEF Bad
    <3>2. QED  BY <1>2, <3>1, LeastOf
  <2>2. n # 0  BY <1>1, <2>1
  <2>3. n \in 1 .. Len(q) /\ n - 1 \in 0 .. Len(q) /\ n - 1 \notin Bad  BY <1>1, <2>1, <2>2
  <2>4. s[n - 1] \in Nat /\ s[n - 1] % 2 = 0 /\ q[n] \in Nat /\ q[n] % 2 = 0 /\ s[n] = s[n - 1] + q[n]
    BY <1>1, <2>3
  <2>5. \A a, b \in Nat : a % 2 = 0 /\ b % 2 = 0 => (a + b) % 2 = 0  OBVIOUS
  <2>6. s[n] % 2 = 0  BY <2>4, <2>5
  <2>7. QED  BY <2>1, <2>6
<1>3. QED  BY <1>2 DEF s

(* Sums of positive numbers rise. *)
LEMMA RisingSums ==
  ASSUME NEW q \in Seq(Nat), \A i \in 1 .. Len(q) : q[i] > 0,
         NEW k \in 0 .. Len(q), NEW l \in 0 .. Len(q), k < l
  PROVE  PartialSums(q)[k] < PartialSums(q)[l]
<1> DEFINE s == PartialSums(q)
           Bad == {n \in k + 1 .. Len(q) : ~(s[k] < s[n])}
<1>1. /\ Len(q) \in Nat /\ s \in [0 .. Len(q) -> Nat]
      /\ \A i \in 1 .. Len(q) : q[i] \in Nat /\ s[i] = s[i - 1] + q[i]
  BY PartialSumsAre, LenProperties, ElementOfSeq DEF SumsOf
<1> HIDE DEF s
<1>2. ASSUME Bad # {} PROVE FALSE
  <2>1. PICK n \in Bad : \A m \in Bad : n <= m
    <3>1. Bad \in SUBSET Nat  BY <1>1
    <3> HIDE DEF Bad
    <3>2. QED  BY <1>2, <3>1, LeastOf
  <2>2. n \in 1 .. Len(q) /\ n - 1 \in 0 .. Len(q) /\ (n - 1 = k \/ n - 1 \in k + 1 .. Len(q)) /\ n - 1 \notin Bad
    BY <1>1, <2>1
  <2>3. s[n - 1] \in Nat /\ s[k] \in Nat /\ s[n] = s[n - 1] + q[n] /\ q[n] \in Nat /\ q[n] > 0
    BY <1>1, <2>2
  <2>4. s[k] <= s[n - 1]  BY <2>2, <2>3, SMTT(40)
  <2>5. QED  BY <2>1, <2>3, <2>4
<1>3. l \in k + 1 .. Len(q)  BY <1>1
<1>4. QED  BY <1>2, <1>3 DEF s

(* Numbers that begin alike have the same sums there. *)
LEMMA SameSums ==
  ASSUME NEW q \in Seq(Nat), NEW r \in Seq(Nat), NEW k \in 0 .. Len(q), k <= Len(r),
         \A i \in 1 .. k : r[i] = q[i]
  PROVE  PartialSums(r)[k] = PartialSums(q)[k]
<1> DEFINE s == PartialSums(q)
           t == PartialSums(r)
           Bad == {n \in 0 .. k : t[n] # s[n]}
<1>1. k \in Nat /\ Len(q) \in Nat /\ Len(r) \in Nat /\ k <= Len(q)
  BY LenProperties
<1>2. SumsOf(q, Len(q), s) /\ SumsOf(r, Len(r), t)
  BY PartialSumsAre
<1> HIDE DEF s, t
<1>3. ASSUME Bad # {} PROVE FALSE
  <2>1. PICK n \in Bad : \A m \in Bad : n <= m
    <3>1. Bad \in SUBSET Nat  BY <1>1
    <3> HIDE DEF Bad
    <3>2. QED  BY <1>3, <3>1, LeastOf
  <2>2. n # 0
    BY <1>2, <2>1 DEF SumsOf
  <2>3. n - 1 \in 0 .. k /\ n - 1 \notin Bad /\ n \in 1 .. k /\ n \in 1 .. Len(q) /\ n \in 1 .. Len(r)
    BY <1>1, <2>1, <2>2
  <2>4. s[n] = s[n - 1] + q[n] /\ t[n] = t[n - 1] + r[n] /\ t[n - 1] = s[n - 1] /\ r[n] = q[n]
    BY <1>2, <2>3 DEF SumsOf
  <2>5. QED  BY <2>1, <2>4
<1>4. QED  BY <1>1, <1>3 DEF s, t

(* Larger numbers have larger sums. *)
LEMMA LargerSums ==
  ASSUME NEW q \in Seq(Nat), NEW r \in Seq(Nat), Len(r) = Len(q),
         \A i \in 1 .. Len(q) : q[i] <= r[i]
  PROVE  Sum(q) <= Sum(r)
<1> DEFINE s == PartialSums(q)
           t == PartialSums(r)
           Bad == {n \in 0 .. Len(q) : ~(s[n] <= t[n])}
<1>1. /\ Len(q) \in Nat /\ s \in [0 .. Len(q) -> Nat] /\ s[0] = 0
      /\ \A i \in 1 .. Len(q) : q[i] \in Nat /\ s[i] = s[i - 1] + q[i]
  BY PartialSumsAre, LenProperties, ElementOfSeq DEF SumsOf
<1>2. /\ t \in [0 .. Len(q) -> Nat] /\ t[0] = 0
      /\ \A i \in 1 .. Len(q) : r[i] \in Nat /\ t[i] = t[i - 1] + r[i]
  BY PartialSumsAre, LenProperties, ElementOfSeq DEF SumsOf
<1> HIDE DEF s, t
<1>3. ASSUME Bad # {} PROVE FALSE
  <2>1. PICK n \in Bad : \A m \in Bad : n <= m
    <3>1. Bad \in SUBSET Nat  BY <1>1
    <3> HIDE DEF Bad
    <3>2. QED  BY <1>3, <3>1, LeastOf
  <2>2. n # 0  BY <1>1, <1>2, <2>1
  <2>3. n \in 1 .. Len(q) /\ n - 1 \in 0 .. Len(q) /\ n - 1 \notin Bad  BY <1>1, <2>1, <2>2
  <2>4. s[n - 1] <= t[n - 1] /\ s[n] = s[n - 1] + q[n] /\ t[n] = t[n - 1] + r[n] /\ q[n] <= r[n]
    BY <1>1, <1>2, <2>3
  <2>5. s[n - 1] \in Nat /\ t[n - 1] \in Nat /\ q[n] \in Nat /\ r[n] \in Nat
    BY <1>1, <1>2, <2>3
  <2>6. s[n] <= t[n]  BY <2>4, <2>5
  <2>7. QED  BY <2>1, <2>6
<1>4. Len(q) \in 0 .. Len(q)  BY <1>1
<1>5. QED  BY <1>3, <1>4 DEF Sum, s, t

LEMMA PairsAddUp ==
  ASSUME NEW a \in Nat, NEW b \in Nat, NEW c \in Nat, NEW d \in Nat
  PROVE  (a + b) + (c + d) = (a + c) + (b + d)
OBVIOUS

(* When one number is larger by v, the sum is. *)
LEMMA SumGrows ==
  ASSUME NEW q \in Seq(Nat), NEW r \in Seq(Nat), Len(r) = Len(q),
         NEW j \in 1 .. Len(q), NEW v \in Nat, r[j] = q[j] + v,
         \A i \in 1 .. Len(q) : i # j => r[i] = q[i]
  PROVE  Sum(r) = Sum(q) + v
<1> DEFINE s == PartialSums(q)
           t == PartialSums(r)
           more(n) == IF j <= n THEN v ELSE 0
           Bad == {n \in 0 .. Len(q) : t[n] # s[n] + more(n)}
<1>1. /\ Len(q) \in Nat /\ s \in [0 .. Len(q) -> Nat] /\ s[0] = 0
      /\ \A i \in 1 .. Len(q) : q[i] \in Nat /\ s[i] = s[i - 1] + q[i]
  BY PartialSumsAre, LenProperties, ElementOfSeq DEF SumsOf
<1>2. /\ t \in [0 .. Len(q) -> Nat] /\ t[0] = 0
      /\ \A i \in 1 .. Len(q) : r[i] \in Nat /\ t[i] = t[i - 1] + r[i]
  BY PartialSumsAre, LenProperties, ElementOfSeq DEF SumsOf
<1>3. \A n \in Nat : more(n) \in Nat  OBVIOUS
<1> HIDE DEF s, t
<1>4. ASSUME Bad # {} PROVE FALSE
  <2>1. PICK n : n \in Bad /\ \A m \in Bad : n <= m
    <3>1. Bad \in SUBSET Nat  BY <1>1
    <3> HIDE DEF Bad
    <3>2. QED  BY <1>4, <3>1, LeastOf
  <2>2. n # 0
    <3>1. more(0) = 0 /\ 0 + 0 = 0  BY <1>1
    <3>2. QED  BY <1>1, <1>2, <2>1, <3>1
  <2>3. n \in 1 .. Len(q) /\ n - 1 \in 0 .. Len(q) /\ n - 1 \notin Bad
    <3>1. n \in 0 .. Len(q)  BY <2>1
    <3>2. n \in 1 .. Len(q) /\ n - 1 \in 0 .. Len(q) /\ ~(n <= n - 1)  BY <1>1, <2>2, <3>1
    <3> HIDE DEF Bad
    <3>3. QED  BY <2>1, <3>2
  <2>4. t[n - 1] = s[n - 1] + more(n - 1) /\ s[n] = s[n - 1] + q[n] /\ t[n] = t[n - 1] + r[n]
    BY <1>1, <1>2, <2>3
  <2>5. s[n - 1] \in Nat /\ t[n - 1] \in Nat /\ q[n] \in Nat /\ r[n] \in Nat
    BY <1>1, <1>2, <2>3
  <2>6. more(n) = more(n - 1) + (IF n = j THEN v ELSE 0)
    BY <2>3
  <2>7. r[n] = q[n] + (IF n = j THEN v ELSE 0)
    BY <2>3, <2>5, SMTT(40)
  <2>8. more(n - 1) \in Nat /\ (IF n = j THEN v ELSE 0) \in Nat
    BY <1>3, <2>3
  <2>9. t[n] = s[n] + more(n)
    <3>1. \A a, e, c, d \in Nat : (a + e) + (c + d) = (a + c) + (e + d)  BY PairsAddUp
    <3> DEFINE m == more(n - 1)
               w == IF n = j THEN v ELSE 0
               s0 == s[n - 1]
               q0 == q[n]
    <3>2. /\ t[n] = (s0 + m) + (q0 + w)
          /\ s[n] + more(n) = (s0 + q0) + (m + w)
      BY <2>4, <2>6, <2>7, Zenon
    <3>3. s0 \in Nat /\ m \in Nat /\ q0 \in Nat /\ w \in Nat
      BY <2>5, <2>8, Zenon
    <3>4. (s0 + m) + (q0 + w) = (s0 + q0) + (m + w)
      <4> HIDE DEF s0, m, q0, w
      <4>1. QED  BY <3>1, <3>3
    <3>5. QED  BY <3>2, <3>4, Zenon
  <2>10. QED  BY <2>1, <2>9
<1>5. Len(q) \in 0 .. Len(q) /\ more(Len(q)) = v  BY <1>1
<1>6. QED  BY <1>4, <1>5 DEF Sum, s, t

LEMMA SumIsNat ==
  ASSUME NEW q \in Seq(Nat)
  PROVE  Sum(q) \in Nat
<1>1. Len(q) \in Nat  BY LenProperties
<1>2. Len(q) \in 0 .. Len(q)  BY <1>1
<1>3. PartialSums(q) \in [0 .. Len(q) -> Nat]  BY PartialSumsAre DEF SumsOf
<1>4. QED  BY <1>2, <1>3 DEF Sum

-----------------------------------------------------------------------------
(* Sums at the places of a set.                                              *)
Masked(q, S) == [i \in DOMAIN q |-> IF i \in S THEN q[i] ELSE 0]

LEMMA MaskedIs ==
  ASSUME NEW q \in Seq(Nat), NEW S
  PROVE  /\ Masked(q, S) \in Seq(Nat) /\ Len(Masked(q, S)) = Len(q)
         /\ \A i \in 1 .. Len(q) : Masked(q, S)[i] = IF i \in S THEN q[i] ELSE 0
         /\ SumAt(q, S) = Sum(Masked(q, S))
<1>1. Len(q) \in Nat /\ DOMAIN q = 1 .. Len(q) /\ \A i \in 1 .. Len(q) : q[i] \in Nat
  BY LenProperties, ElementOfSeq
<1>2. Masked(q, S) = [i \in 1 .. Len(q) |-> IF i \in S THEN q[i] ELSE 0]  BY <1>1 DEF Masked
<1>3. SumAt(q, S) = Sum(Masked(q, S))  BY DEF SumAt, Masked
<1>4. QED  BY <1>1, <1>2, <1>3

LEMMA SumAtIsNat ==
  ASSUME NEW q \in Seq(Nat), NEW S
  PROVE  SumAt(q, S) \in Nat
BY MaskedIs, SumIsNat

LEMMA SumAtNothing ==
  ASSUME NEW q \in Seq(Nat)
  PROVE  SumAt(q, {}) = 0
<1> DEFINE r == Masked(q, {})
           s == PartialSums(r)
           Bad == {n \in 0 .. Len(r) : s[n] # 0}
<1>1. r \in Seq(Nat) /\ Len(r) \in Nat /\ \A i \in 1 .. Len(r) : r[i] = 0
  BY MaskedIs, LenProperties
<1>2. /\ s \in [0 .. Len(r) -> Nat] /\ s[0] = 0
      /\ \A i \in 1 .. Len(r) : s[i] = s[i - 1] + r[i]
  BY <1>1, PartialSumsAre DEF SumsOf
<1>3. SumAt(q, {}) = s[Len(r)]  BY MaskedIs DEF Sum
<1> HIDE DEF s, r
<1>4. ASSUME Bad # {} PROVE FALSE
  <2>1. PICK n \in Bad : \A m \in Bad : n <= m
    <3>1. Bad \in SUBSET Nat  BY <1>1
    <3> HIDE DEF Bad
    <3>2. QED  BY <1>4, <3>1, LeastOf
  <2>2. n # 0  BY <1>2, <2>1
  <2>3. n \in 1 .. Len(r) /\ n - 1 \in 0 .. Len(r) /\ n - 1 \notin Bad  BY <1>1, <2>1, <2>2
  <2>4. s[n - 1] = 0 /\ s[n] = s[n - 1] + 0  BY <1>1, <1>2, <2>3
  <2>5. QED  BY <2>1, <2>4
<1>5. Len(r) \in 0 .. Len(r)  BY <1>1
<1>6. QED  BY <1>3, <1>4, <1>5

LEMMA SumAtOneMore ==
  ASSUME NEW q \in Seq(Nat), NEW S, NEW j \in 1 .. Len(q), j \notin S
  PROVE  SumAt(q, S \cup {j}) = SumAt(q, S) + q[j]
<1> DEFINE a == Masked(q, S)
           b == Masked(q, S \cup {j})
<1>1. /\ a \in Seq(Nat) /\ Len(a) = Len(q) /\ SumAt(q, S) = Sum(a)
      /\ \A i \in 1 .. Len(q) : a[i] = IF i \in S THEN q[i] ELSE 0
  BY MaskedIs
<1>2. /\ b \in Seq(Nat) /\ Len(b) = Len(q) /\ SumAt(q, S \cup {j}) = Sum(b)
      /\ \A i \in 1 .. Len(q) : b[i] = IF i \in S \cup {j} THEN q[i] ELSE 0
  BY MaskedIs
<1>3. q[j] \in Nat  BY ElementOfSeq
<1> HIDE DEF a, b
<1>4. a[j] = 0 /\ b[j] = q[j] /\ b[j] = a[j] + q[j] /\ \A i \in 1 .. Len(a) : i # j => b[i] = a[i]
  BY <1>1, <1>2, <1>3, SMTT(40)
<1>5. Sum(b) = Sum(a) + q[j]  BY <1>1, <1>2, <1>3, <1>4, SumGrows
<1>6. QED  BY <1>1, <1>2, <1>5

LEMMA SumAtMore ==
  ASSUME NEW q \in Seq(Nat), NEW S, NEW T, S \subseteq T
  PROVE  SumAt(q, S) <= SumAt(q, T)
<1> DEFINE a == Masked(q, S)
           b == Masked(q, T)
<1>1. /\ a \in Seq(Nat) /\ Len(a) = Len(q) /\ SumAt(q, S) = Sum(a)
      /\ \A i \in 1 .. Len(q) : a[i] = IF i \in S THEN q[i] ELSE 0
  BY MaskedIs
<1>2. /\ b \in Seq(Nat) /\ Len(b) = Len(q) /\ SumAt(q, T) = Sum(b)
      /\ \A i \in 1 .. Len(q) : b[i] = IF i \in T THEN q[i] ELSE 0
  BY MaskedIs
<1>3. \A i \in 1 .. Len(q) : q[i] \in Nat  BY ElementOfSeq
<1> HIDE DEF a, b
<1>4. ASSUME NEW i \in 1 .. Len(a) PROVE a[i] <= b[i]
  <2>1. i \in 1 .. Len(q) /\ q[i] \in Nat /\ 0 <= q[i] /\ q[i] <= q[i] /\ 0 <= 0  BY <1>1, <1>3
  <2>2. CASE i \in S  BY <1>1, <1>2, <2>1, <2>2
  <2>3. CASE i \notin S  BY <1>1, <1>2, <2>1, <2>3
  <2>4. QED  BY <2>2, <2>3
<1>5. Sum(a) <= Sum(b)  BY <1>1, <1>2, <1>4, LargerSums
<1>6. QED  BY <1>1, <1>2, <1>5

(* The sum depends on the numbers at those places only. *)
LEMMA SumAtSame ==
  ASSUME NEW q \in Seq(Nat), NEW r \in Seq(Nat), Len(r) = Len(q), NEW S,
         \A i \in 1 .. Len(q) : i \in S => r[i] = q[i]
  PROVE  SumAt(r, S) = SumAt(q, S)
<1>1. DOMAIN q = 1 .. Len(q) /\ DOMAIN r = 1 .. Len(q)  BY LenProperties
<1>2. \A i \in 1 .. Len(q) : (IF i \in S THEN r[i] ELSE 0) = IF i \in S THEN q[i] ELSE 0  OBVIOUS
<1>3. Masked(r, S) = Masked(q, S)  BY <1>1, <1>2 DEF Masked
<1>4. QED  BY <1>3, MaskedIs
=============================================================================
