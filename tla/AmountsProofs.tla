--------------------------- MODULE AmountsProofs ---------------------------
(***************************************************************************)
(* What is typed is what is sent, stored and shown, for any digits, any    *)
(* number of places and any precision of the doubles in between.           *)
(*                                                                         *)
(* The functions of Amounts are folds, least and greatest elements and     *)
(* recursive functions. What they compute is shown by induction over the   *)
(* set of the numbers for which it holds (Induction), on the values a fold *)
(* has after each prefix of its sequence (PositionsUpTo).                  *)
(***************************************************************************)
EXTENDS Amounts, FiniteSetTheorems, TLAPS

(* Induction, by the set of the numbers that have the property.            *)
LEMMA Induction ==
    ASSUME NEW S, 0 \in S, \A k \in Nat : k \in S => k + 1 \in S
    PROVE  Nat \subseteq S
<1> DEFINE T == Nat \ S
<1> SUFFICES ASSUME T # {} PROVE FALSE
  OBVIOUS
<1>1. IsWellFoundedOn(OpToRel(<, Nat), Nat)
  BY NatLessThanWellFounded
<1>2. \E m \in T : \A n \in T : ~(<<n, m>> \in OpToRel(<, Nat))
  BY <1>1, WFMin
<1>3. PICK m \in T : \A n \in T : ~(n < m)
  BY <1>2 DEF OpToRel
<1>4. m # 0 /\ m \in Nat /\ m - 1 \notin T
  BY <1>3
<1> QED
  BY <1>4

LEMMA StrongInduction ==
    ASSUME NEW S, \A k \in Nat : (\A j \in 0..k - 1 : j \in S) => k \in S
    PROVE  Nat \subseteq S
<1> DEFINE T == {k \in Nat : \A j \in 0..k - 1 : j \in S}
<1>1. 0 \in T
  OBVIOUS
<1>2. \A k \in Nat : k \in T => k + 1 \in T
  OBVIOUS
<1>3. Nat \subseteq T
  BY <1>1, <1>2, Induction
<1> QED
  BY <1>3

LEMMA BoundedInduction ==
    ASSUME NEW n \in Nat, NEW S, 0 \in S, \A i \in 1..n : i - 1 \in S => i \in S
    PROVE  0..n \subseteq S
<1> DEFINE T == {k \in Nat : k <= n => k \in S}
<1>1. 0 \in T /\ \A k \in Nat : k \in T => k + 1 \in T
  OBVIOUS
<1>2. Nat \subseteq T
  BY <1>1, Induction
<1> QED
  BY <1>2

-----------------------------------------------------------------------------
(* The least and the greatest of some numbers.                             *)

LEMMA MinOfNaturals ==
    ASSUME NEW S, S \subseteq Nat, S # {}
    PROVE  Min(S) \in S /\ \A m \in S : Min(S) <= m
<1>1. \E m \in S : \A n \in S : m <= n
  <2> SUFFICES ASSUME \A m \in S : \E n \in S : n < m PROVE FALSE
    OBVIOUS
  <2> DEFINE T == {k \in Nat : k \notin S}
  <2>1. \A k \in Nat : (\A j \in 0..k - 1 : j \in T) => k \in T
    OBVIOUS
  <2> HIDE DEF T
  <2>2. Nat \subseteq T
    BY <2>1, StrongInduction
  <2> QED
    BY <2>2 DEF T
<1> QED
  BY <1>1 DEF Min

LEMMA MaxOfBounded ==
    ASSUME NEW S, S \subseteq Nat, S # {}, NEW b \in Nat, \A m \in S : m <= b
    PROVE  Max(S) \in S /\ \A m \in S : m <= Max(S)
<1> DEFINE T == {b - m : m \in S}
<1>1. T \subseteq Nat /\ T # {}
  <2>1. PICK m \in S : TRUE
    OBVIOUS
  <2>2. b - m \in T
    OBVIOUS
  <2> QED
    BY <2>2
<1>2. PICK t \in T : \A u \in T : t <= u
  BY <1>1, MinOfNaturals
<1>3. PICK m \in S : t = b - m
  OBVIOUS
<1>4. \A n \in S : n <= m
  <2> TAKE n \in S
  <2>1. b - n \in T
    OBVIOUS
  <2> QED
    BY <2>1, <1>2, <1>3
<1> QED
  BY <1>4 DEF Max

LEMMA MaxOfFinite ==
    ASSUME NEW S, S \subseteq Nat, S # {}, IsFiniteSet(S)
    PROVE  Max(S) \in S /\ \A m \in S : m <= Max(S)
<1> DEFINE Bounded(X) == \E b \in Nat : \A m \in X : m <= b
           T == {n \in Nat : \A X \in SUBSET Nat : IsFiniteSet(X) /\ Cardinality(X) = n => Bounded(X)}
<1>a. 0 \in T
  <2> SUFFICES ASSUME NEW X \in SUBSET Nat, IsFiniteSet(X), Cardinality(X) = 0 PROVE Bounded(X)
    OBVIOUS
  <2>1. X = {}
    BY FS_EmptySet
  <2> QED
    BY <2>1
<1>b. \A n \in Nat : n \in T => n + 1 \in T
  <2> SUFFICES ASSUME NEW n \in Nat, n \in T PROVE n + 1 \in T
    OBVIOUS
  <2> SUFFICES ASSUME NEW X \in SUBSET Nat, IsFiniteSet(X), Cardinality(X) = n + 1
               PROVE  Bounded(X)
    <3> HIDE DEF Bounded
    <3> QED
      OBVIOUS
  <2>1. X # {}
    BY FS_EmptySet
  <2>2. PICK x \in X : TRUE
    BY <2>1
  <2>3. IsFiniteSet(X \ {x}) /\ Cardinality(X \ {x}) = n
    <3> HIDE DEF T
    <3>1. IsFiniteSet(X \ {x}) /\ Cardinality(X \ {x}) = Cardinality(X) - 1
      BY FS_RemoveElement, Zenon
    <3> QED
      BY <3>1
  <2>4. PICK b \in Nat : \A m \in X \ {x} : m <= b
    BY <2>3
  <2>5. b + x \in Nat /\ \A m \in X : m <= b + x
    BY <2>4
  <2> QED
    BY <2>5
<1>c. Nat \subseteq T
  <2> HIDE DEF T
  <2> QED
    BY <1>a, <1>b, Induction
<1>1. \E b \in Nat : \A m \in S : m <= b
  BY <1>c, FS_CardinalityType
<1> QED
  BY <1>1, MaxOfBounded

-----------------------------------------------------------------------------
(* Powers.                                                                 *)

LEMMA PowerIs ==
    ASSUME NEW b \in Nat
    PROVE  /\ Power(b, 0) = 1
           /\ \A k \in Nat : Power(b, k) \in Nat /\ Power(b, k + 1) = b * Power(b, k)
<1> DEFINE Is(p, k) == p = [n \in 0..k |-> IF n = 0 THEN 1 ELSE b * p[n - 1]]
           The(k) == CHOOSE p : Is(p, k)
           S == {k \in Nat : \E p \in [0..k -> Nat] : Is(p, k)}
<1>1. 0 \in S
  <2> DEFINE p == [n \in 0..0 |-> 1]
  <2>1. p \in [0..0 -> Nat] /\ Is(p, 0)
    OBVIOUS
  <2> QED
    BY <2>1
<1>2. \A k \in Nat : k \in S => k + 1 \in S
  <2> SUFFICES ASSUME NEW k \in Nat, k \in S PROVE k + 1 \in S
    OBVIOUS
  <2>1. PICK p \in [0..k -> Nat] : Is(p, k)
    OBVIOUS
  <2> DEFINE q == [n \in 0..k + 1 |-> IF n = k + 1 THEN b * p[k] ELSE p[n]]
  <2>2. q \in [0..k + 1 -> Nat]
    OBVIOUS
  <2>3. \A n \in 0..k + 1 : q[n] = IF n = 0 THEN 1 ELSE b * q[n - 1]
    BY <2>1
  <2>4. Is(q, k + 1)
    BY <2>3
  <2> HIDE DEF Is, q
  <2>5. \E r \in [0..k + 1 -> Nat] : Is(r, k + 1)
    BY <2>2, <2>4, Zenon
  <2>6. k + 1 \in Nat
    OBVIOUS
  <2> QED
    BY <2>5, <2>6, Zenon
<1>3. Nat \subseteq S
  <2> HIDE DEF S
  <2> QED
    BY <1>1, <1>2, Induction
<1>4. \A k \in Nat : Is(The(k), k)
  BY <1>3
<1>5. \A k \in Nat : Power(b, k) = The(k)[k]
  BY DEF Power
<1>6. \A k \in Nat : \A n \in 0..k : The(k)[n] = IF n = 0 THEN 1 ELSE b * The(k)[n - 1]
  <2> HIDE DEF The
  <2> QED
    BY <1>4
<1> DEFINE U == {n \in Nat : \A k \in Nat : n <= k => The(k)[n] = The(n)[n] /\ The(n)[n] \in Nat}
<1> HIDE DEF The
<1>7. 0 \in U
  BY <1>6
<1>8. \A n \in Nat : n \in U => n + 1 \in U
  <2> SUFFICES ASSUME NEW n \in Nat, n \in U, NEW k \in Nat, n + 1 <= k
               PROVE  The(k)[n + 1] = The(n + 1)[n + 1] /\ The(n + 1)[n + 1] \in Nat
    OBVIOUS
  <2>1. The(k)[n] = The(n)[n] /\ The(n + 1)[n] = The(n)[n] /\ The(n)[n] \in Nat
    OBVIOUS
  <2>2. The(k)[n + 1] = b * The(k)[n] /\ The(n + 1)[n + 1] = b * The(n + 1)[n]
    BY <1>6
  <2> QED
    BY <2>1, <2>2
<1>9. Nat \subseteq U
  <2> HIDE DEF U
  <2> QED
    BY <1>7, <1>8, Induction
<1>10. \A k \in Nat : Power(b, k) = The(k)[k] /\ Power(b, k + 1) = The(k + 1)[k + 1]
  BY <1>5
<1>11. Power(b, 0) = 1
  BY <1>5, <1>6
<1>12. \A k \in Nat : The(k + 1)[k + 1] = b * The(k + 1)[k] /\ The(k + 1)[k] = The(k)[k] /\ The(k)[k] \in Nat
  BY <1>6, <1>9
<1> QED
  <2>1. \A k \in Nat : Power(b, k) \in Nat /\ Power(b, k + 1) = b * Power(b, k)
    <3> TAKE k \in Nat
    <3>1. Power(b, k) = The(k)[k] /\ Power(b, k + 1) = The(k + 1)[k + 1]
      BY <1>10
    <3>2. The(k + 1)[k + 1] = b * The(k + 1)[k] /\ The(k + 1)[k] = The(k)[k] /\ The(k)[k] \in Nat
      BY <1>12
    <3> QED
      BY <3>1, <3>2
  <2> QED
    BY <1>11, <2>1

LEMMA PowerPositive ==
    ASSUME NEW b \in Nat \ {0}
    PROVE  \A k \in Nat : Power(b, k) \in Nat \ {0}
<1> DEFINE S == {k \in Nat : Power(b, k) # 0}
<1>1. 0 \in S
  BY PowerIs
<1>2. \A k \in Nat : k \in S => k + 1 \in S
  <2> SUFFICES ASSUME NEW k \in Nat, Power(b, k) # 0 PROVE Power(b, k + 1) # 0
    OBVIOUS
  <2>1. Power(b, k) \in Nat /\ Power(b, k + 1) = b * Power(b, k)
    BY PowerIs
  <2> QED
    BY <2>1
<1>3. Nat \subseteq S
  <2> HIDE DEF S
  <2> QED
    BY <1>1, <1>2, Induction
<1> QED
  BY <1>3, PowerIs

LEMMA TensIs ==
    /\ Tens(0) = 1
    /\ \A k \in Nat : Tens(k) \in Nat \ {0} /\ Tens(k + 1) = 10 * Tens(k)
<1>1. 10 \in Nat \ {0}
  OBVIOUS
<1> QED
  BY <1>1, PowerIs, PowerPositive DEF Tens

LEMMA TensOfSum ==
    \A a, b \in Nat : Tens(a + b) = Tens(a) * Tens(b)
<1> SUFFICES ASSUME NEW b \in Nat PROVE \A a \in Nat : Tens(a + b) = Tens(a) * Tens(b)
  OBVIOUS
<1> DEFINE S == {a \in Nat : Tens(a + b) = Tens(a) * Tens(b)}
<1>1. 0 \in S
  BY TensIs
<1>2. \A a \in Nat : a \in S => a + 1 \in S
  <2> SUFFICES ASSUME NEW a \in Nat, Tens(a + b) = Tens(a) * Tens(b)
               PROVE  Tens((a + 1) + b) = Tens(a + 1) * Tens(b)
    OBVIOUS
  <2>1. Tens((a + b) + 1) = 10 * Tens(a + b) /\ Tens(a + 1) = 10 * Tens(a) /\ Tens(a) \in Nat /\ Tens(b) \in Nat
    BY TensIs
  <2>2. (a + b) + 1 = (a + 1) + b
    OBVIOUS
  <2>3. 10 * (Tens(a) * Tens(b)) = (10 * Tens(a)) * Tens(b)
    BY <2>1
  <2> QED
    BY <2>1, <2>2, <2>3
<1>3. Nat \subseteq S
  <2> HIDE DEF S
  <2> QED
    BY <1>1, <1>2, Induction
<1> QED
  BY <1>3

-----------------------------------------------------------------------------
(* Folds: a fold of a sequence runs through its prefixes.                  *)

IsFold(g, n, a, step) ==
    g = [t \in SUBSET (1..n) |-> IF t = {} THEN a ELSE step[Max(t)][g[t \ {Max(t)}]]]

LEMMA MaxOfPositions ==
    ASSUME NEW n \in Nat, NEW t \in SUBSET (1..n), t # {}
    PROVE  Max(t) \in t /\ \A i \in t : i <= Max(t)
<1>1. t \subseteq Nat /\ \A m \in t : m <= n
  OBVIOUS
<1> QED
  BY <1>1, MaxOfBounded

LEMMA MaxIs ==
    ASSUME NEW n \in Nat, NEW t \in SUBSET (1..n), NEW m \in t, \A i \in t : i <= m
    PROVE  Max(t) = m
<1>1. Max(t) \in t /\ m <= Max(t) /\ Max(t) <= m
  BY MaxOfPositions
<1>2. \A i \in t : i \in Nat
  OBVIOUS
<1>3. Max(t) \in Nat
  BY <1>1, <1>2
<1>4. m \in Nat
  BY <1>2
<1> QED
  BY <1>1, <1>3, <1>4

LEMMA FoldExists ==
    ASSUME NEW n \in Nat, NEW V, NEW a \in V, NEW step, \A i \in 1..n : step[i] \in [V -> V]
    PROVE  \E g \in [SUBSET (1..n) -> V] : IsFold(g, n, a, step)
<1> DEFINE Exists(k) == \E g \in [SUBSET (1..k) -> V] : IsFold(g, k, a, step)
           S == {k \in Nat : k <= n => Exists(k)}
<1>1. 0 \in S
  <2> DEFINE g == [t \in SUBSET (1..0) |-> a]
  <2>1. g \in [SUBSET (1..0) -> V] /\ IsFold(g, 0, a, step)
    BY DEF IsFold
  <2> QED
    BY <2>1
<1>2. \A k \in Nat : k \in S => k + 1 \in S
  <2> SUFFICES ASSUME NEW k \in Nat, Exists(k), k + 1 <= n PROVE Exists(k + 1)
    <3> HIDE DEF Exists
    <3> QED
      OBVIOUS
  <2> PICK g \in [SUBSET (1..k) -> V] : IsFold(g, k, a, step)
    OBVIOUS
  <2> DEFINE h == [t \in SUBSET (1..k + 1) |-> IF k + 1 \in t THEN step[k + 1][g[t \ {k + 1}]] ELSE g[t]]
  <2>1. h \in [SUBSET (1..k + 1) -> V]
    <3> SUFFICES ASSUME NEW t \in SUBSET (1..k + 1) PROVE h[t] \in V
      OBVIOUS
    <3>1. CASE k + 1 \in t
      <4>1. t \ {k + 1} \in SUBSET (1..k)
        OBVIOUS
      <4> QED
        BY <3>1, <4>1
    <3>2. CASE k + 1 \notin t
      <4>1. t \in SUBSET (1..k)
        BY <3>2
      <4> QED
        BY <3>2, <4>1
    <3> QED
      BY <3>1, <3>2
  <2>2. \A t \in SUBSET (1..k + 1) : h[t] = IF t = {} THEN a ELSE step[Max(t)][h[t \ {Max(t)}]]
    <3> TAKE t \in SUBSET (1..k + 1)
    <3>1. CASE k + 1 \in t
      <4>1. Max(t) = k + 1
        <5>1. t \in SUBSET (1..k + 1) /\ \A i \in t : i <= k + 1
          OBVIOUS
        <5> QED
          BY <3>1, <5>1, MaxIs
      <4>2. h[t \ {k + 1}] = g[t \ {k + 1}]
        OBVIOUS
      <4>3. h[t] = step[k + 1][g[t \ {k + 1}]]
        BY <3>1
      <4> HIDE DEF h
      <4> QED
        BY <3>1, <4>1, <4>2, <4>3
    <3>2. CASE k + 1 \notin t
      <4>1. t \in SUBSET (1..k)
        BY <3>2
      <4>2. h[t] = g[t]
        BY <3>2
      <4>3. h[t \ {Max(t)}] = g[t \ {Max(t)}]
        BY <3>2
      <4>4. g[t] = IF t = {} THEN a ELSE step[Max(t)][g[t \ {Max(t)}]]
        BY <4>1 DEF IsFold
      <4> HIDE DEF h
      <4> QED
        BY <4>2, <4>3, <4>4
    <3> QED
      BY <3>1, <3>2
  <2>3. IsFold(h, k + 1, a, step)
    <3> HIDE DEF h
    <3>1. h = [t \in SUBSET (1..k + 1) |-> h[t]]
      BY <2>1
    <3> QED
      BY <2>2, <3>1 DEF IsFold
  <2> QED
    BY <2>1, <2>3
<1>3. Nat \subseteq S
  <2> HIDE DEF S
  <2> QED
    BY <1>1, <1>2, Induction
<1>4. Exists(n)
  <2> HIDE DEF Exists
  <2> QED
    BY <1>3
<1> QED
  BY <1>4

LEMMA PositionsUpTo ==
    ASSUME NEW n \in Nat, NEW i \in 1..n
    PROVE  /\ 1..i \in SUBSET (1..n) /\ 1..i # {}
           /\ Max(1..i) = i /\ (1..i) \ {i} = 1..i - 1
<1>1. 1..i \in SUBSET (1..n) /\ 1..i # {} /\ (1..i) \ {i} = 1..i - 1
  OBVIOUS
<1>2. i \in 1..i /\ \A j \in 1..i : j <= i
  OBVIOUS
<1> QED
  BY <1>1, <1>2, MaxIs

LEMMA NumeralRuns ==
    ASSUME NEW s \in Seq(0..9)
    PROVE  \E p \in [0..Len(s) -> Nat] :
              /\ p[0] = 0
              /\ \A i \in 1..Len(s) : p[i] = 10 * p[i - 1] + s[i]
              /\ Numeral(s) = p[Len(s)]
<1> DEFINE n == Len(s)
           step == [i \in 1..n |-> [x \in Nat |-> 10 * x + s[i]]]
           Is(g) == g = [t \in SUBSET (DOMAIN s) |-> IF t = {} THEN 0 ELSE 10 * g[t \ {Max(t)}] + s[Max(t)]]
           h == CHOOSE g : Is(g)
           p == [i \in 0..n |-> h[1..i]]
<1>1. n \in Nat /\ DOMAIN s = 1..n /\ \A i \in 1..n : s[i] \in Nat
  OBVIOUS
<1>2. \A i \in 1..n : step[i] \in [Nat -> Nat]
  BY <1>1
<1>3. PICK g \in [SUBSET (1..n) -> Nat] : IsFold(g, n, 0, step)
  <2> HIDE DEF n, step
  <2> QED
    BY <1>1, <1>2, FoldExists
<1>4. Is(g)
  <2>1. ASSUME NEW t \in SUBSET (1..n)
        PROVE  g[t] = IF t = {} THEN 0 ELSE 10 * g[t \ {Max(t)}] + s[Max(t)]
    <3>1. CASE t = {}
      BY <1>3, <3>1 DEF IsFold
    <3>2. CASE t # {}
      <4>1. Max(t) \in 1..n /\ g[t \ {Max(t)}] \in Nat
        BY <1>1, <1>3, <3>2, MaxOfPositions
      <4>2. g[t] = step[Max(t)][g[t \ {Max(t)}]]
        BY <1>3, <3>2 DEF IsFold
      <4> QED
        BY <3>2, <4>1, <4>2
    <3> QED
      BY <3>1, <3>2
  <2> QED
    BY <1>1, <1>3, <2>1
<1>5. Is(h)
  BY <1>4
<1>6. \A i \in 1..n : h[1..i] = 10 * h[1..i - 1] + s[i]
  <2> HIDE DEF h
  <2> TAKE i \in 1..n
  <2>1. 1..i \in SUBSET (1..n) /\ 1..i # {} /\ Max(1..i) = i /\ (1..i) \ {i} = 1..i - 1
    BY <1>1, PositionsUpTo
  <2> QED
    BY <1>1, <1>5, <2>1
<1>7. h[1..0] = 0
  <2> HIDE DEF h
  <2> QED
    BY <1>1, <1>5
<1>8. Numeral(s) = h[1..n]
  BY <1>1 DEF Numeral, FoldLeft, MapThenFoldSet
<1> QED
  <2> DEFINE S == {i \in 0..n : h[1..i] \in Nat}
  <2> HIDE DEF h
  <2>1. 0 \in S /\ \A i \in 1..n : i - 1 \in S => i \in S
    BY <1>1, <1>6, <1>7
  <2>2. 0..n \subseteq S
    <3> HIDE DEF S, n
    <3> QED
      BY <1>1, <2>1, BoundedInduction
  <2>3. p \in [0..n -> Nat]
    BY <2>2
  <2>4. p[0] = 0 /\ (\A i \in 1..n : p[i] = 10 * p[i - 1] + s[i]) /\ Numeral(s) = p[n]
    BY <1>1, <1>6, <1>7, <1>8
  <2> QED
    <3> HIDE DEF p
    <3> QED
      BY <2>3, <2>4

-----------------------------------------------------------------------------
(* Numerals, one digit after the other.                                    *)

LEMMA AppendIs ==
    ASSUME NEW A, NEW s \in Seq(A), NEW a \in A
    PROVE  /\ Append(s, a) \in Seq(A)
           /\ Len(Append(s, a)) = Len(s) + 1
           /\ \A i \in 1..Len(s) : Append(s, a)[i] = s[i]
           /\ Append(s, a)[Len(s) + 1] = a
OBVIOUS

LEMMA SameSequence ==
    ASSUME NEW A, NEW s \in Seq(A), NEW t \in Seq(A), Len(s) = Len(t), \A i \in 1..Len(s) : s[i] = t[i]
    PROVE  s = t
OBVIOUS

LEMMA WiderSequence ==
    ASSUME NEW A, NEW B, A \subseteq B, NEW s \in Seq(A)
    PROVE  s \in Seq(B)
OBVIOUS

LEMMA SubSeqIs ==
    ASSUME NEW A, NEW s \in Seq(A), NEW m \in 1..Len(s) + 1, NEW n \in m - 1..Len(s)
    PROVE  /\ SubSeq(s, m, n) \in Seq(A)
           /\ Len(SubSeq(s, m, n)) = n - m + 1
           /\ \A i \in 1..n - m + 1 : SubSeq(s, m, n)[i] = s[m + i - 1]
OBVIOUS

LEMMA SubSeqOfAppend ==
    ASSUME NEW A, NEW s \in Seq(A), NEW a \in A, NEW m \in 1..Len(s) + 1
    PROVE  SubSeq(Append(s, a), m, Len(s) + 1) = Append(SubSeq(s, m, Len(s)), a)
<1> DEFINE l == Len(s)
           x == SubSeq(Append(s, a), m, l + 1)
           f == SubSeq(s, m, l)
           y == Append(f, a)
<1>1. /\ l \in Nat /\ Append(s, a) \in Seq(A) /\ Len(Append(s, a)) = l + 1
      /\ (\A i \in 1..l : Append(s, a)[i] = s[i]) /\ Append(s, a)[l + 1] = a
  BY AppendIs
<1>2. x \in Seq(A) /\ Len(x) = l - m + 2 /\ \A i \in 1..l - m + 2 : x[i] = Append(s, a)[m + i - 1]
  <2> HIDE DEF l
  <2>1. m \in 1..(l + 1) + 1 /\ l + 1 \in m - 1..l + 1 /\ (l + 1) - m + 1 = l - m + 2
    BY <1>1 DEF l
  <2> QED
    BY <1>1, <2>1, SubSeqIs
<1>3. f \in Seq(A) /\ Len(f) = l - m + 1 /\ \A i \in 1..l - m + 1 : f[i] = s[m + i - 1]
  BY <1>1, SubSeqIs
<1> HIDE DEF f
<1>4. y \in Seq(A) /\ Len(y) = l - m + 2 /\ (\A i \in 1..l - m + 1 : y[i] = f[i]) /\ y[l - m + 2] = a
  <2>1. Len(f) + 1 = l - m + 2
    BY <1>1, <1>3
  <2> QED
    BY <1>3, <2>1, AppendIs
<1>5. ASSUME NEW i \in 1..l - m + 2 PROVE x[i] = y[i]
  <2> HIDE DEF l, x, y
  <2>1. CASE i = l - m + 2
    <3>1. m + i - 1 = l + 1
      BY <1>1, <2>1
    <3> QED
      BY <1>1, <1>2, <1>4, <2>1, <3>1
  <2>2. CASE i # l - m + 2
    <3>1. i \in 1..l - m + 1 /\ m + i - 1 \in 1..l
      BY <1>1, <2>2
    <3> QED
      BY <1>1, <1>2, <1>3, <1>4, <3>1
  <2> QED
    BY <2>1, <2>2
<1> HIDE DEF l, x, y
<1>6. x = y
  BY <1>2, <1>4, <1>5, SameSequence
<1> QED
  BY <1>6 DEF l, x, y, f

LEMMA SequenceInduction ==
    ASSUME NEW A, NEW S, <<>> \in S, \A s \in Seq(A), a \in A : s \in S => Append(s, a) \in S
    PROVE  Seq(A) \subseteq S
<1> DEFINE T == {n \in Nat : \A s \in Seq(A) : Len(s) = n => s \in S}
<1>1. 0 \in T
  <2> SUFFICES ASSUME NEW s \in Seq(A), Len(s) = 0 PROVE s \in S
    OBVIOUS
  <2>1. s = <<>>
    OBVIOUS
  <2> QED
    BY <2>1
<1>2. \A n \in Nat : n \in T => n + 1 \in T
  <2> SUFFICES ASSUME NEW n \in Nat, n \in T, NEW s \in Seq(A), Len(s) = n + 1 PROVE s \in S
    OBVIOUS
  <2> DEFINE f == SubSeq(s, 1, n)
  <2>1. f \in Seq(A) /\ Len(f) = n /\ s[n + 1] \in A
    OBVIOUS
  <2>2. s = Append(f, s[n + 1])
    OBVIOUS
  <2> HIDE DEF f
  <2> QED
    BY <2>1, <2>2
<1>3. Nat \subseteq T
  <2> HIDE DEF T
  <2> QED
    BY <1>1, <1>2, Induction
<1> QED
  BY <1>3

LEMMA NumeralOfNone ==
    Numeral(<<>>) = 0
<1>1. <<>> \in Seq(0..9) /\ Len(<<>>) = 0
  OBVIOUS
<1> QED
  BY <1>1, NumeralRuns

LEMMA NumeralType ==
    ASSUME NEW s \in Seq(0..9)
    PROVE  Numeral(s) \in Nat
BY NumeralRuns

LEMMA NumeralAppend ==
    ASSUME NEW s \in Seq(0..9), NEW d \in 0..9
    PROVE  Numeral(Append(s, d)) = 10 * Numeral(s) + d
<1> DEFINE n == Len(s)
<1>1. n \in Nat /\ Append(s, d) \in Seq(0..9) /\ Len(Append(s, d)) = n + 1
      /\ (\A i \in 1..n : Append(s, d)[i] = s[i]) /\ Append(s, d)[n + 1] = d
  BY AppendIs
<1>2. PICK p \in [0..n -> Nat] : /\ p[0] = 0
                                 /\ \A i \in 1..n : p[i] = 10 * p[i - 1] + s[i]
                                 /\ Numeral(s) = p[n]
  BY NumeralRuns
<1>3. PICK q \in [0..n + 1 -> Nat] : /\ q[0] = 0
                                     /\ \A i \in 1..n + 1 : q[i] = 10 * q[i - 1] + Append(s, d)[i]
                                     /\ Numeral(Append(s, d)) = q[n + 1]
  BY <1>1, NumeralRuns
<1> DEFINE S == {i \in 0..n : q[i] = p[i]}
<1>4. 0 \in S
  BY <1>1, <1>2, <1>3
<1>5. \A i \in 1..n : i - 1 \in S => i \in S
  BY <1>1, <1>2, <1>3
<1>6. 0..n \subseteq S
  <2> HIDE DEF S
  <2> QED
    BY <1>1, <1>4, <1>5, BoundedInduction
<1> DEFINE m == n + 1
           a == Append(s, d)
<1>7. q[m] = 10 * q[m - 1] + a[m]
  <2>1. m \in 1..n + 1
    BY <1>1
  <2> HIDE DEF m, a, n
  <2> QED
    BY <1>3, <2>1 DEF a
<1>8. m - 1 = n /\ a[m] = d
  BY <1>1
<1>9. q[n] = p[n]
  <2>1. n \in 0..n
    BY <1>1
  <2> QED
    BY <1>6, <2>1, Zenon
<1>10. Numeral(a) = q[m]
  BY <1>3, Zenon
<1>11. Numeral(a) = 10 * p[n] + d
  <2> HIDE DEF m, a, n
  <2> QED
    BY <1>7, <1>8, <1>9, <1>10, Zenon
<1> QED
  BY <1>2, <1>11, Zenon

LEMMA NumeralBound ==
    \A s \in Seq(0..9) : Numeral(s) < Tens(Len(s))
<1> DEFINE S == {s \in Seq(0..9) : Numeral(s) < Tens(Len(s))}
<1>1. <<>> \in S
  BY NumeralOfNone, TensIs
<1>2. \A s \in Seq(0..9), d \in 0..9 : s \in S => Append(s, d) \in S
  <2> SUFFICES ASSUME NEW s \in Seq(0..9), NEW d \in 0..9, Numeral(s) < Tens(Len(s))
               PROVE  Append(s, d) \in S
    OBVIOUS
  <2>1. Append(s, d) \in Seq(0..9) /\ Len(Append(s, d)) = Len(s) + 1 /\ Len(s) \in Nat
    BY AppendIs
  <2>2. Numeral(Append(s, d)) = 10 * Numeral(s) + d /\ Numeral(s) \in Nat
    BY NumeralAppend, NumeralType
  <2>3. Tens(Len(s) + 1) = 10 * Tens(Len(s)) /\ Tens(Len(s)) \in Nat
    BY <2>1, TensIs
  <2>4. Numeral(Append(s, d)) < Tens(Len(s) + 1)
    BY <2>2, <2>3
  <2> QED
    BY <2>1, <2>4
<1> HIDE DEF S
<1>3. Seq(0..9) \subseteq S
  BY <1>1, <1>2, SequenceInduction
<1> QED
  BY <1>3 DEF S

-----------------------------------------------------------------------------
(* What is written for a number, one digit after the other.                *)

LEMMA DivideByTen ==
    ASSUME NEW m \in Nat \ {0}
    PROVE  m \div 10 \in 0..m - 1 /\ m % 10 \in 0..9 /\ m = 10 * (m \div 10) + (m % 10)
OBVIOUS

LEMMA DivideTwice ==
    ASSUME NEW n \in Nat, NEW a \in Nat \ {0}
    PROVE  (n \div 10) \div a = n \div (10 * a)
OBVIOUS

LEMMA DivideDigit ==
    ASSUME NEW n \in Nat, NEW d \in 0..9
    PROVE  (10 * n + d) \div 10 = n /\ (10 * n + d) % 10 = d
OBVIOUS

LEMMA WrittenIs ==
    /\ Written(0) = <<>>
    /\ \A n \in Nat \ {0} : Written(n) = Append(Written(n \div 10), n % 10)
    /\ \A n \in Nat : Written(n) \in Seq(0..9)
<1> DEFINE More(w, m) == Append(w[m \div 10], m % 10)
           Is(w, n) == w = [m \in 0..n |-> IF m = 0 THEN <<>> ELSE More(w, m)]
           The(n) == CHOOSE w : Is(w, n)
           Exists(n) == \E w \in [0..n -> Seq(0..9)] : Is(w, n)
           S == {n \in Nat : Exists(n)}
<1>1. 0 \in S
  <2> DEFINE w == [m \in 0..0 |-> <<>>]
  <2>1. w \in [0..0 -> Seq(0..9)] /\ Is(w, 0)
    OBVIOUS
  <2> QED
    BY <2>1
<1>2. \A n \in Nat : n \in S => n + 1 \in S
  <2> SUFFICES ASSUME NEW n \in Nat, Exists(n) PROVE Exists(n + 1)
    <3> HIDE DEF Exists
    <3> QED
      OBVIOUS
  <2>1. PICK w \in [0..n -> Seq(0..9)] : Is(w, n)
    OBVIOUS
  <2> DEFINE v == [m \in 0..n + 1 |-> IF m = n + 1 THEN More(w, m) ELSE w[m]]
  <2>2. (n + 1) \div 10 \in 0..n /\ (n + 1) % 10 \in 0..9
    BY DivideByTen
  <2>a. More(w, n + 1) \in Seq(0..9)
    BY <2>2, AppendIs
  <2>b. \A m \in 1..n : w[m] = More(w, m)
    <3> HIDE DEF More
    <3> TAKE m \in 1..n
    <3>1. m \in 0..n /\ m # 0
      OBVIOUS
    <3>2. w[m] = IF m = 0 THEN <<>> ELSE More(w, m)
      BY <2>1, <3>1, Zenon
    <3> QED
      BY <3>1, <3>2
  <2>3. v \in [0..n + 1 -> Seq(0..9)]
    <3> HIDE DEF More
    <3> QED
      BY <2>a
  <2>4. \A m \in 0..n + 1 : v[m] = IF m = 0 THEN <<>> ELSE More(v, m)
    <3> TAKE m \in 0..n + 1
    <3>1. CASE m = 0
      <4> HIDE DEF More
      <4> QED
        BY <2>1, <3>1
    <3>2. CASE m = n + 1
      <4>1. v[m \div 10] = w[m \div 10]
        <5> HIDE DEF More
        <5> QED
          BY <2>2, <3>2
      <4>2. More(v, m) = More(w, m)
        <5> HIDE DEF v
        <5> QED
          BY <4>1, Zenon
      <4> HIDE DEF More
      <4> QED
        BY <3>2, <4>2
    <3>3. CASE m \in 1..n
      <4>1. m \div 10 \in 0..m - 1
        BY <3>3, DivideByTen
      <4>2. v[m \div 10] = w[m \div 10] /\ v[m] = w[m]
        <5> HIDE DEF More
        <5> QED
          BY <3>3, <4>1
      <4>3. More(v, m) = More(w, m)
        <5> HIDE DEF v
        <5> QED
          BY <4>2, Zenon
      <4> HIDE DEF v, More
      <4> QED
        BY <2>b, <3>3, <4>2, <4>3
    <3> QED
      BY <3>1, <3>2, <3>3
  <2>5. Is(v, n + 1)
    <3> HIDE DEF v, More
    <3>1. v = [m \in 0..n + 1 |-> v[m]]
      BY <2>3
    <3> QED
      BY <2>4, <3>1
  <2> HIDE DEF Is, v
  <2> QED
    BY <2>3, <2>5
<1>3. Nat \subseteq S
  <2> HIDE DEF S
  <2> QED
    BY <1>1, <1>2, Induction
<1>4. \A n \in Nat : Is(The(n), n)
  BY <1>3
<1>5. \A n \in Nat : Written(n) = The(n)[n]
  BY DEF Written
<1> HIDE DEF The
<1>6. \A n \in Nat : The(n)[0] = <<>> /\ \A m \in 1..n : The(n)[m] = More(The(n), m)
  <2> HIDE DEF More
  <2> QED
    BY <1>4
<1> DEFINE U == {m \in Nat : \A n \in Nat : m <= n => The(n)[m] = The(m)[m] /\ The(m)[m] \in Seq(0..9)}
<1>7. \A m \in Nat : (\A j \in 0..m - 1 : j \in U) => m \in U
  <2> SUFFICES ASSUME NEW m \in Nat, \A j \in 0..m - 1 : j \in U, NEW n \in Nat, m <= n
               PROVE  The(n)[m] = The(m)[m] /\ The(m)[m] \in Seq(0..9)
    OBVIOUS
  <2>1. CASE m = 0
    <3>1. The(n)[0] = <<>> /\ The(0)[0] = <<>> /\ <<>> \in Seq(0..9)
      <4> HIDE DEF More
      <4> QED
        BY <1>6
    <3> QED
      BY <2>1, <3>1
  <2>2. CASE m # 0
    <3> DEFINE j == m \div 10
    <3>1. j \in 0..m - 1 /\ m % 10 \in 0..9
      BY <2>2, DivideByTen
    <3>a. The(n)[m] = More(The(n), m) /\ The(m)[m] = More(The(m), m)
      <4> HIDE DEF More
      <4> QED
        BY <1>6, <2>2
    <3>2. The(n)[m] = Append(The(n)[j], m % 10) /\ The(m)[m] = Append(The(m)[j], m % 10)
      BY <3>a, Zenon
    <3> HIDE DEF j
    <3>3. The(n)[j] = The(j)[j] /\ The(m)[j] = The(j)[j] /\ The(j)[j] \in Seq(0..9)
      BY <3>1
    <3> QED
      BY <3>1, <3>2, <3>3, AppendIs
  <2> QED
    BY <2>1, <2>2
<1>8. Nat \subseteq U
  <2> HIDE DEF U
  <2> QED
    BY <1>7, StrongInduction
<1>9. Written(0) = <<>>
  BY <1>5, <1>6
<1>10. ASSUME NEW n \in Nat \ {0} PROVE Written(n) = Append(Written(n \div 10), n % 10)
  <2> DEFINE j == n \div 10
  <2>1. j \in 0..n - 1
    BY DivideByTen
  <2>a. The(n)[n] = More(The(n), n)
    <3> HIDE DEF More
    <3> QED
      BY <1>6
  <2>2. The(n)[n] = Append(The(n)[j], n % 10)
    BY <2>a, Zenon
  <2> HIDE DEF j
  <2>3. The(n)[j] = The(j)[j]
    BY <1>8, <2>1
  <2>4. Written(n) = The(n)[n] /\ Written(j) = The(j)[j]
    BY <1>5, <2>1
  <2> QED
    BY <2>2, <2>3, <2>4 DEF j
<1>11. ASSUME NEW n \in Nat PROVE Written(n) \in Seq(0..9)
  BY <1>5, <1>8
<1> QED
  BY <1>9, <1>10, <1>11

LEMMA NumeralOfWritten ==
    \A n \in Nat : Numeral(Written(n)) = n
<1> DEFINE S == {n \in Nat : Numeral(Written(n)) = n}
<1>1. \A n \in Nat : (\A j \in 0..n - 1 : j \in S) => n \in S
  <2> SUFFICES ASSUME NEW n \in Nat, \A j \in 0..n - 1 : j \in S PROVE Numeral(Written(n)) = n
    OBVIOUS
  <2>1. CASE n = 0
    BY <2>1, WrittenIs, NumeralOfNone
  <2>2. CASE n # 0
    <3> DEFINE j == n \div 10
               d == n % 10
    <3>1. j \in 0..n - 1 /\ d \in 0..9 /\ n = 10 * j + d
      BY <2>2, DivideByTen
    <3>2. Written(n) = Append(Written(j), d)
      BY <2>2, WrittenIs
    <3> HIDE DEF j, d
    <3>3. Numeral(Written(j)) = j /\ Written(j) \in Seq(0..9)
      BY <3>1, WrittenIs
    <3> QED
      BY <3>1, <3>2, <3>3, NumeralAppend
  <2> QED
    BY <2>1, <2>2
<1>2. Nat \subseteq S
  <2> HIDE DEF S
  <2> QED
    BY <1>1, StrongInduction
<1> QED
  BY <1>2

LEMMA PaddedType ==
    ASSUME NEW n \in Nat, NEW w \in Nat
    PROVE  Padded(n, w) \in Seq(0..9) /\ Len(Padded(n, w)) = w
<1>1. ASSUME NEW i \in 1..w PROVE (n \div Tens(w - i)) % 10 \in 0..9
  <2>1. w - i \in Nat
    OBVIOUS
  <2>2. Tens(w - i) \in Nat \ {0}
    BY <2>1, TensIs
  <2> QED
    BY <2>2
<1> QED
  BY <1>1 DEF Padded

LEMMA PaddedAppend ==
    ASSUME NEW n \in Nat, NEW w \in Nat
    PROVE  Padded(n, w + 1) = Append(Padded(n \div 10, w), n % 10)
<1> DEFINE f == Padded(n \div 10, w)
           d == n % 10
           s == Padded(n, w + 1)
<1>1. n \div 10 \in Nat /\ d \in 0..9
  OBVIOUS
<1>2. f \in Seq(0..9) /\ Len(f) = w /\ s \in Seq(0..9) /\ Len(s) = w + 1
  BY <1>1, PaddedType
<1>3. ASSUME NEW i \in 1..w PROVE s[i] = f[i]
  <2>1. w - i \in Nat /\ (w + 1) - i = (w - i) + 1
    OBVIOUS
  <2>2. Tens(w - i) \in Nat \ {0} /\ Tens((w + 1) - i) = 10 * Tens(w - i)
    BY <2>1, TensIs
  <2>3. (n \div 10) \div Tens(w - i) = n \div Tens((w + 1) - i)
    BY <2>2, DivideTwice
  <2>4. s[i] = (n \div Tens((w + 1) - i)) % 10 /\ f[i] = ((n \div 10) \div Tens(w - i)) % 10
    BY DEF Padded
  <2> QED
    BY <2>3, <2>4
<1>4. s[w + 1] = d
  <2>1. s[w + 1] = (n \div Tens((w + 1) - (w + 1))) % 10
    BY DEF Padded
  <2>2. (w + 1) - (w + 1) = 0 /\ n \div 1 = n
    OBVIOUS
  <2> QED
    BY <2>1, <2>2, TensIs
<1> HIDE DEF f, s, d
<1>5. s = Append(f, d)
  BY <1>1, <1>2, <1>3, <1>4
<1> QED
  BY <1>5 DEF f, s, d

LEMMA NumeralOfPadded ==
    \A w \in Nat : \A n \in Nat : n < Tens(w) => Numeral(Padded(n, w)) = n
<1> DEFINE S == {w \in Nat : \A n \in Nat : n < Tens(w) => Numeral(Padded(n, w)) = n}
<1>1. 0 \in S
  <2> SUFFICES ASSUME NEW n \in Nat, n < Tens(0) PROVE Numeral(Padded(n, 0)) = n
    OBVIOUS
  <2>1. Padded(n, 0) = <<>> /\ n = 0
    BY TensIs, PaddedType
  <2> QED
    BY <2>1, NumeralOfNone
<1>2. \A w \in Nat : w \in S => w + 1 \in S
  <2> SUFFICES ASSUME NEW w \in Nat, w \in S, NEW n \in Nat, n < Tens(w + 1)
               PROVE  Numeral(Padded(n, w + 1)) = n
    OBVIOUS
  <2> DEFINE j == n \div 10
             d == n % 10
  <2>1. j \in Nat /\ d \in 0..9 /\ n = 10 * j + d
    OBVIOUS
  <2>2. Padded(n, w + 1) = Append(Padded(j, w), d)
    BY PaddedAppend
  <2> HIDE DEF j, d
  <2>3. Tens(w + 1) = 10 * Tens(w) /\ Tens(w) \in Nat
    BY TensIs
  <2>4. j < Tens(w)
    BY <2>1, <2>3
  <2>5. Numeral(Padded(j, w)) = j /\ Padded(j, w) \in Seq(0..9)
    BY <2>1, <2>4, PaddedType
  <2> QED
    BY <2>1, <2>2, <2>5, NumeralAppend
<1>3. Nat \subseteq S
  <2> HIDE DEF S
  <2> QED
    BY <1>1, <1>2, Induction
<1> QED
  BY <1>3

LEMMA PaddedOfNumeral ==
    \A s \in Seq(0..9) : Padded(Numeral(s), Len(s)) = s
<1> DEFINE S == {s \in Seq(0..9) : Padded(Numeral(s), Len(s)) = s}
<1>1. <<>> \in S
  <2>1. <<>> \in Seq(0..9) /\ Len(<<>>) = 0
    OBVIOUS
  <2>2. Padded(0, 0) = <<>>
    BY PaddedType
  <2> QED
    BY <2>1, <2>2, NumeralOfNone
<1>2. \A s \in Seq(0..9), d \in 0..9 : s \in S => Append(s, d) \in S
  <2> SUFFICES ASSUME NEW s \in Seq(0..9), NEW d \in 0..9, s \in S
               PROVE  Append(s, d) \in S
    OBVIOUS
  <2>1. Append(s, d) \in Seq(0..9) /\ Len(Append(s, d)) = Len(s) + 1 /\ Len(s) \in Nat
    BY AppendIs
  <2>2. Numeral(Append(s, d)) = 10 * Numeral(s) + d /\ Numeral(s) \in Nat
    BY NumeralAppend, NumeralType
  <2>3. Padded(10 * Numeral(s) + d, Len(s) + 1)
           = Append(Padded((10 * Numeral(s) + d) \div 10, Len(s)), (10 * Numeral(s) + d) % 10)
    <3>1. 10 * Numeral(s) + d \in Nat
      BY <2>2
    <3> QED
      BY <2>1, <3>1, PaddedAppend, Zenon
  <2>4. Padded(Numeral(Append(s, d)), Len(Append(s, d))) = Append(Padded(Numeral(s), Len(s)), d)
    BY <2>1, <2>2, <2>3, DivideDigit
  <2> QED
    BY <2>1, <2>4
<1> HIDE DEF S
<1>3. Seq(0..9) \subseteq S
  BY <1>1, <1>2, SequenceInduction
<1> QED
  BY <1>3 DEF S

-----------------------------------------------------------------------------
(* Outer zeros.                                                            *)

LEMMA SignificantOfAppend ==
    ASSUME NEW s \in Seq(0..9), NEW d \in 0..9
    PROVE  /\ Significant(s) \subseteq 1..Len(s)
           /\ Significant(Append(s, d)) = Significant(s) \cup (IF d = 0 THEN {} ELSE {Len(s) + 1})
<1>1. DOMAIN s = 1..Len(s) /\ Len(s) \in Nat
  OBVIOUS
<1>2. /\ Append(s, d) \in Seq(0..9) /\ Len(Append(s, d)) = Len(s) + 1
      /\ (\A i \in 1..Len(s) : Append(s, d)[i] = s[i]) /\ Append(s, d)[Len(s) + 1] = d
  BY AppendIs
<1>3. DOMAIN Append(s, d) = 1..Len(s) + 1
  BY <1>2
<1> QED
  BY <1>1, <1>2, <1>3 DEF Significant

LEMMA TrimStartIs ==
    ASSUME NEW s \in Seq(0..9)
    PROVE  /\ TrimStart(s) \in Seq(0..9)
           /\ Significant(s) # {} => /\ Min(Significant(s)) \in 1..Len(s)
                                     /\ TrimStart(s) = SubSeq(s, Min(Significant(s)), Len(s))
           /\ Significant(s) = {} <=> TrimStart(s) = <<>>
<1>1. CASE Significant(s) = {}
  BY <1>1 DEF TrimStart
<1>2. CASE Significant(s) # {}
  <2>1. Significant(s) \subseteq 1..Len(s)
    BY DEF Significant
  <2>2. Significant(s) \subseteq Nat
    BY <2>1
  <2>3. Min(Significant(s)) \in 1..Len(s)
    BY <1>2, <2>1, <2>2, MinOfNaturals
  <2>4. TrimStart(s) = SubSeq(s, Min(Significant(s)), Len(s))
    BY <1>2 DEF TrimStart
  <2>5. TrimStart(s) \in Seq(0..9) /\ Len(TrimStart(s)) > 0
    BY <2>3, <2>4
  <2>6. TrimStart(s) # <<>>
    BY <2>5
  <2> QED
    BY <1>2, <2>3, <2>4, <2>5, <2>6, Zenon
<1> QED
  BY <1>1, <1>2

LEMMA TrimStartAppend ==
    ASSUME NEW s \in Seq(0..9), NEW d \in 0..9
    PROVE  TrimStart(Append(s, d)) = IF TrimStart(s) = <<>> /\ d = 0 THEN <<>> ELSE Append(TrimStart(s), d)
<1> DEFINE a == Append(s, d)
<1>1. /\ a \in Seq(0..9) /\ Len(a) = Len(s) + 1 /\ Len(s) \in Nat
      /\ (\A i \in 1..Len(s) : a[i] = s[i]) /\ a[Len(s) + 1] = d
  BY AppendIs
<1>2. /\ Significant(s) \subseteq 1..Len(s)
      /\ Significant(a) = Significant(s) \cup (IF d = 0 THEN {} ELSE {Len(s) + 1})
  BY SignificantOfAppend
<1> HIDE DEF a
<1>3. CASE Significant(s) = {} /\ d = 0
  BY <1>1, <1>2, <1>3, TrimStartIs DEF a
<1>4. CASE Significant(s) = {} /\ d # 0
  <2>1. Significant(a) = {Len(s) + 1}
    BY <1>2, <1>4
  <2>2. Min(Significant(a)) = Len(s) + 1
    <3>1. Len(s) + 1 \in Nat
      BY <1>1
    <3>2. Min({Len(s) + 1}) \in {Len(s) + 1}
      BY <3>1, MinOfNaturals
    <3> QED
      BY <2>1, <3>2
  <2>3. TrimStart(a) = SubSeq(a, Len(s) + 1, Len(s) + 1)
    BY <1>1, <2>1, <2>2, TrimStartIs
  <2>4. TrimStart(a) = Append(SubSeq(s, Len(s) + 1, Len(s)), d) /\ SubSeq(s, Len(s) + 1, Len(s)) = <<>>
    BY <1>1, <2>3, SubSeqOfAppend DEF a
  <2>5. TrimStart(s) = <<>>
    BY <1>4, TrimStartIs
  <2> QED
    BY <1>4, <2>4, <2>5 DEF a
<1>5. CASE Significant(s) # {}
  <2> DEFINE m == Min(Significant(s))
  <2>1. m \in Significant(s) /\ \A i \in Significant(s) : m <= i
    BY <1>2, <1>5, MinOfNaturals
  <2>2. m \in 1..Len(s)
    BY <1>2, <2>1
  <2>3. Significant(a) \subseteq Nat /\ Significant(a) # {} /\ m \in Significant(a)
        /\ \A i \in Significant(a) : m <= i
    BY <1>1, <1>2, <2>1, <2>2
  <2> HIDE DEF m
  <2>4. Min(Significant(a)) = m
    BY <2>2, <2>3, MinOfNaturals
  <2>5. TrimStart(a) = SubSeq(a, m, Len(s) + 1) /\ TrimStart(s) = SubSeq(s, m, Len(s)) /\ TrimStart(s) # <<>>
    BY <1>1, <1>5, <2>3, <2>4, TrimStartIs DEF m
  <2>6. SubSeq(a, m, Len(s) + 1) = Append(SubSeq(s, m, Len(s)), d)
    <3>1. m \in 1..Len(s) + 1
      BY <1>1, <2>2
    <3> QED
      BY <3>1, SubSeqOfAppend, Zenon DEF a
  <2> QED
    BY <2>5, <2>6 DEF a
<1> QED
  BY <1>3, <1>4, <1>5

LEMMA TrimEndIs ==
    ASSUME NEW s \in Seq(0..9)
    PROVE  /\ TrimEnd(s) \in Seq(0..9) /\ Len(TrimEnd(s)) <= Len(s)
           /\ Significant(s) = {} => TrimEnd(s) = <<>>
           /\ Significant(s) # {} => /\ Max(Significant(s)) \in 1..Len(s)
                                     /\ TrimEnd(s) = SubSeq(s, 1, Max(Significant(s)))
<1>1. CASE Significant(s) = {}
  BY <1>1 DEF TrimEnd
<1>2. CASE Significant(s) # {}
  <2>1. Significant(s) \in SUBSET (1..Len(s)) /\ Len(s) \in Nat
    BY DEF Significant
  <2>2. Max(Significant(s)) \in 1..Len(s)
    BY <1>2, <2>1, MaxOfPositions
  <2>3. TrimEnd(s) = SubSeq(s, 1, Max(Significant(s)))
    BY <1>2 DEF TrimEnd
  <2> QED
    BY <1>2, <2>2, <2>3
<1> QED
  BY <1>1, <1>2

LEMMA TrimEndAppend ==
    ASSUME NEW s \in Seq(0..9), NEW d \in 0..9
    PROVE  TrimEnd(Append(s, d)) = IF d = 0 THEN TrimEnd(s) ELSE Append(s, d)
<1> DEFINE a == Append(s, d)
<1>1. /\ a \in Seq(0..9) /\ Len(a) = Len(s) + 1 /\ Len(s) \in Nat
      /\ (\A i \in 1..Len(s) : a[i] = s[i]) /\ a[Len(s) + 1] = d
  BY AppendIs
<1>2. /\ Significant(s) \subseteq 1..Len(s)
      /\ Significant(a) = Significant(s) \cup (IF d = 0 THEN {} ELSE {Len(s) + 1})
  BY SignificantOfAppend
<1> HIDE DEF a
<1>3. CASE d # 0
  <2>1. Significant(a) \in SUBSET (1..Len(s) + 1) /\ Len(s) + 1 \in Significant(a)
        /\ \A i \in Significant(a) : i <= Len(s) + 1
    BY <1>1, <1>2, <1>3
  <2>2. Max(Significant(a)) = Len(s) + 1
    <3> DEFINE n == Len(s) + 1
               t == Significant(a)
    <3>1. n \in Nat /\ t \in SUBSET (1..n) /\ n \in t /\ \A i \in t : i <= n
      BY <1>1, <2>1
    <3> HIDE DEF n, t
    <3>2. Max(t) = n
      BY <3>1, MaxIs
    <3> QED
      BY <3>2 DEF n, t
  <2>3. TrimEnd(a) = SubSeq(a, 1, Len(s) + 1)
    BY <1>1, <2>1, <2>2, TrimEndIs
  <2>4. TrimEnd(a) = a
    BY <1>1, <2>3
  <2> QED
    BY <1>3, <2>4 DEF a
<1>4. CASE d = 0 /\ Significant(s) = {}
  BY <1>1, <1>2, <1>4, TrimEndIs DEF a
<1>5. CASE d = 0 /\ Significant(s) # {}
  <2> DEFINE m == Max(Significant(s))
  <2>1. Significant(a) = Significant(s)
    BY <1>2, <1>5
  <2>2. m \in 1..Len(s) /\ TrimEnd(s) = SubSeq(s, 1, m) /\ TrimEnd(a) = SubSeq(a, 1, m)
    BY <1>1, <1>5, <2>1, TrimEndIs
  <2> HIDE DEF m
  <2>3. SubSeq(a, 1, m) = SubSeq(s, 1, m)
    BY <1>1, <2>2
  <2> QED
    BY <1>5, <2>2, <2>3 DEF a
<1> QED
  BY <1>3, <1>4, <1>5

\* TrimStart keeps the number and leaves one writing of it.
LEMMA TrimStartWrites ==
    \A s \in Seq(0..9) : TrimStart(s) = Written(Numeral(s))
<1> DEFINE S == {s \in Seq(0..9) : TrimStart(s) = Written(Numeral(s))}
<1>1. <<>> \in S
  <2>1. <<>> \in Seq(0..9) /\ Significant(<<>>) = {}
    BY DEF Significant
  <2>2. TrimStart(<<>>) = <<>>
    BY <2>1, TrimStartIs
  <2> QED
    BY <2>1, <2>2, NumeralOfNone, WrittenIs
<1>2. \A s \in Seq(0..9), d \in 0..9 : s \in S => Append(s, d) \in S
  <2> SUFFICES ASSUME NEW s \in Seq(0..9), NEW d \in 0..9, TrimStart(s) = Written(Numeral(s))
               PROVE  Append(s, d) \in S
    OBVIOUS
  <2> DEFINE n == Numeral(s)
             a == Append(s, d)
  <2>1. a \in Seq(0..9) /\ n \in Nat /\ Numeral(a) = 10 * n + d
    BY AppendIs, NumeralAppend, NumeralType
  <2>2. TrimStart(a) = IF TrimStart(s) = <<>> /\ d = 0 THEN <<>> ELSE Append(TrimStart(s), d)
    BY TrimStartAppend
  <2>3. TrimStart(s) = <<>> <=> n = 0
    <3>1. n = 0 => Written(n) = <<>>
      BY WrittenIs
    <3>2. Written(n) = <<>> => n = 0
      BY <2>1, NumeralOfWritten, NumeralOfNone
    <3> QED
      BY <3>1, <3>2
  <2>4. CASE n = 0 /\ d = 0
    BY <2>1, <2>2, <2>3, <2>4, WrittenIs
  <2>5. CASE n # 0 \/ d # 0
    <3>1. 10 * n + d \in Nat \ {0} /\ (10 * n + d) \div 10 = n /\ (10 * n + d) % 10 = d
      <4> HIDE DEF a, n
      <4> QED
        BY <2>1, <2>5, DivideDigit
    <3>2. Written(10 * n + d) = Append(Written(n), d)
      BY <3>1, WrittenIs
    <3> HIDE DEF a, n
    <3>3. TrimStart(a) = Append(TrimStart(s), d)
      BY <2>2, <2>3, <2>5
    <3> QED
      BY <2>1, <3>2, <3>3 DEF a, n
  <2> QED
    BY <2>1, <2>4, <2>5
<1> HIDE DEF S
<1>3. Seq(0..9) \subseteq S
  BY <1>1, <1>2, SequenceInduction
<1> QED
  BY <1>3 DEF S

\* TrimEnd keeps the number, as a fraction.
LEMMA NumeralOfTrimEnd ==
    \A s \in Seq(0..9) : Numeral(TrimEnd(s)) * Tens(Len(s) - Len(TrimEnd(s))) = Numeral(s)
<1> DEFINE S == {s \in Seq(0..9) : Numeral(TrimEnd(s)) * Tens(Len(s) - Len(TrimEnd(s))) = Numeral(s)}
<1>1. <<>> \in S
  <2>1. <<>> \in Seq(0..9) /\ Significant(<<>>) = {}
    BY DEF Significant
  <2>2. TrimEnd(<<>>) = <<>>
    BY <2>1, TrimEndIs
  <2>3. Len(<<>>) - Len(<<>>) = 0
    OBVIOUS
  <2> QED
    BY <2>1, <2>2, <2>3, NumeralOfNone, TensIs
<1>2. \A s \in Seq(0..9), d \in 0..9 : s \in S => Append(s, d) \in S
  <2> SUFFICES ASSUME NEW s \in Seq(0..9), NEW d \in 0..9, s \in S
               PROVE  Append(s, d) \in S
    OBVIOUS
  <2> DEFINE a == Append(s, d)
             t == TrimEnd(s)
             k == Len(s) - Len(t)
  <2>1. /\ a \in Seq(0..9) /\ Len(a) = Len(s) + 1 /\ Len(s) \in Nat
        /\ Numeral(s) \in Nat /\ Numeral(a) = 10 * Numeral(s) + d
    <3>1. a \in Seq(0..9) /\ Len(a) = Len(s) + 1 /\ Len(s) \in Nat
      BY AppendIs
    <3>2. Numeral(s) \in Nat /\ Numeral(a) = 10 * Numeral(s) + d
      BY NumeralAppend, NumeralType
    <3> QED
      BY <3>1, <3>2
  <2>2. TrimEnd(a) = IF d = 0 THEN t ELSE a
    BY TrimEndAppend
  <2>3. t \in Seq(0..9) /\ k \in Nat /\ Numeral(t) \in Nat
    BY TrimEndIs, NumeralType
  <2> HIDE DEF a
  <2>4. CASE d = 0
    <3>1. Len(a) - Len(TrimEnd(a)) = k + 1
      BY <2>1, <2>2, <2>3, <2>4
    <3>2. Tens(k + 1) = 10 * Tens(k) /\ Tens(k) \in Nat /\ Numeral(t) * Tens(k) = Numeral(s)
      BY <2>3, TensIs
    <3>3. Numeral(t) * (10 * Tens(k)) = 10 * (Numeral(t) * Tens(k))
      BY <2>3, <3>2
    <3> HIDE DEF k, t
    <3>4. Numeral(TrimEnd(a)) * Tens(Len(a) - Len(TrimEnd(a))) = Numeral(a)
      BY <2>1, <2>2, <2>4, <3>1, <3>2, <3>3
    <3> QED
      BY <2>1, <3>4 DEF a
  <2>5. CASE d # 0
    <3>1. TrimEnd(a) = a /\ Len(a) - Len(a) = 0 /\ Numeral(a) \in Nat
      BY <2>1, <2>2, <2>5
    <3>2. Numeral(TrimEnd(a)) * Tens(Len(a) - Len(TrimEnd(a))) = Numeral(a)
      BY <3>1, TensIs
    <3> QED
      BY <2>1, <3>2 DEF a
  <2> QED
    BY <2>4, <2>5
<1> HIDE DEF S
<1>3. Seq(0..9) \subseteq S
  BY <1>1, <1>2, SequenceInduction
<1> QED
  BY <1>3 DEF S

\* Zeros after a fraction are the outer zeros of it.
LEMMA TrimEndOfPadded ==
    ASSUME NEW s \in Seq(0..9)
    PROVE  \A k \in Nat : TrimEnd(Padded(Numeral(s) * Tens(k), Len(s) + k)) = TrimEnd(s)
<1> DEFINE S == {k \in Nat : TrimEnd(Padded(Numeral(s) * Tens(k), Len(s) + k)) = TrimEnd(s)}
<1>1. Numeral(s) \in Nat /\ Len(s) \in Nat
  BY NumeralType
<1>2. 0 \in S
  <2>1. Numeral(s) * Tens(0) = Numeral(s) /\ Len(s) + 0 = Len(s)
    BY <1>1, TensIs
  <2> QED
    BY <2>1, PaddedOfNumeral
<1>3. \A k \in Nat : k \in S => k + 1 \in S
  <2> SUFFICES ASSUME NEW k \in Nat, k \in S
               PROVE  TrimEnd(Padded(Numeral(s) * Tens(k + 1), Len(s) + (k + 1))) = TrimEnd(s)
    OBVIOUS
  <2> DEFINE n == Numeral(s) * Tens(k)
             w == Len(s) + k
  <2>1. Tens(k + 1) = 10 * Tens(k) /\ Tens(k) \in Nat
    BY TensIs
  <2>2. n \in Nat /\ w \in Nat /\ Numeral(s) * Tens(k + 1) = 10 * n + 0 /\ Len(s) + (k + 1) = w + 1
    BY <1>1, <2>1
  <2>3. TrimEnd(Padded(n, w)) = TrimEnd(s)
    OBVIOUS
  <2> HIDE DEF n, w
  <2>4. (10 * n + 0) \div 10 = n /\ (10 * n + 0) % 10 = 0 /\ 10 * n + 0 \in Nat
    BY <2>2, DivideDigit
  <2>5. Padded(10 * n + 0, w + 1) = Append(Padded(n, w), 0)
    BY <2>2, <2>4, PaddedAppend
  <2>6. Padded(n, w) \in Seq(0..9) /\ 0 \in 0..9
    BY <2>2, PaddedType
  <2>7. TrimEnd(Append(Padded(n, w), 0)) = TrimEnd(Padded(n, w))
    BY <2>6, TrimEndAppend
  <2> QED
    BY <2>2, <2>3, <2>5, <2>7
<1>4. Nat \subseteq S
  <2> HIDE DEF S
  <2> QED
    BY <1>2, <1>3, Induction
<1> QED
  BY <1>4

-----------------------------------------------------------------------------
(* The halves of a text.                                                   *)

DotAt(s, k) == k \in 1..Len(s) /\ \A i \in 1..Len(s) : s[i] = Dot <=> i = k

LEMMA HalvesOfWhole ==
    ASSUME NEW s \in Seq(0..13), \A i \in 1..Len(s) : s[i] # Dot
    PROVE  Count(s, Dot) = 0 /\ Whole(s) = s /\ Fraction(s) = <<>>
<1>1. {i \in DOMAIN s : s[i] = Dot} = {}
  OBVIOUS
<1>2. Count(s, Dot) = 0
  BY <1>1, FS_EmptySet DEF Count
<1> QED
  BY <1>2 DEF Whole, Fraction

LEMMA HalvesOfDotted ==
    ASSUME NEW s \in Seq(0..13), NEW k, DotAt(s, k)
    PROVE  /\ Count(s, Dot) = 1
           /\ Whole(s) = SubSeq(s, 1, k - 1) /\ Fraction(s) = SubSeq(s, k + 1, Len(s))
<1> DEFINE I == {i \in 1..Len(s) : s[i] = Dot}
<1>1. DOMAIN s = 1..Len(s) /\ I = {k} /\ k \in Nat
  BY DEF DotAt
<1>2. Count(s, Dot) = 1
  BY <1>1, FS_Singleton DEF Count
<1>3. Min({k}) = k
  <2>1. Min({k}) \in {k}
    BY <1>1, MinOfNaturals
  <2> QED
    BY <2>1
<1>4. Min(I) = k /\ I # {}
  <2> HIDE DEF I
  <2> QED
    BY <1>1, <1>3
<1>5. Whole(s) = SubSeq(s, 1, (IF I # {} THEN Min(I) ELSE 0) - 1)
  BY <1>2 DEF Whole, SelectInSeq
<1>6. Fraction(s) = SubSeq(s, (IF I # {} THEN Min(I) ELSE 0) + 1, Len(s))
  BY <1>2 DEF Fraction, SelectInSeq
<1> HIDE DEF I
<1> QED
  BY <1>2, <1>4, <1>5, <1>6

LEMMA PlainIs ==
    ASSUME NEW s \in Seq(0..13), PlainDecimal(s)
    PROVE  \/ \A i \in 1..Len(s) : s[i] # Dot
           \/ \E k : DotAt(s, k)
<1> DEFINE I == {i \in DOMAIN s : s[i] = Dot}
<1>1. DOMAIN s = 1..Len(s) /\ Len(s) \in Nat
  OBVIOUS
<1>2. IsFiniteSet(I)
  <2>1. I \in SUBSET (1..Len(s)) /\ IsFiniteSet(1..Len(s))
    BY <1>1, FS_Interval
  <2> QED
    BY <2>1, FS_Subset
<1>3. Cardinality(I) \in Nat /\ Cardinality(I) <= 1
  BY <1>2, FS_CardinalityType DEF PlainDecimal, Count
<1> HIDE DEF I
<1>4. CASE Cardinality(I) = 0
  <2>1. I = {}
    BY <1>2, <1>4, FS_EmptySet
  <2> QED
    BY <1>1, <2>1 DEF I
<1>5. CASE Cardinality(I) = 1
  <2>1. PICK k : I = {k}
    BY <1>2, <1>5, FS_Singleton
  <2>2. DotAt(s, k)
    BY <1>1, <2>1 DEF DotAt, I
  <2> QED
    BY <2>2
<1> QED
  BY <1>3, <1>4, <1>5

LEMMA HalvesOfPlain ==
    ASSUME NEW s \in Seq(0..13), PlainDecimal(s)
    PROVE  Whole(s) \in Seq(0..9) /\ Fraction(s) \in Seq(0..9)
<1>1. Len(s) \in Nat /\ \A i \in 1..Len(s) : s[i] \in 0..9 \/ s[i] = Dot
  BY DEF PlainDecimal, IsDigit
<1>2. CASE \A i \in 1..Len(s) : s[i] # Dot
  <2>1. s \in Seq(0..9)
    <3>1. \A i \in 1..Len(s) : s[i] \in 0..9
      BY <1>1, <1>2
    <3>2. s = [i \in 1..Len(s) |-> s[i]]
      OBVIOUS
    <3>3. [i \in 1..Len(s) |-> s[i]] \in Seq(0..9)
      BY <1>1, <3>1
    <3> QED
      BY <3>2, <3>3
  <2>2. Whole(s) = s /\ Fraction(s) = <<>>
    BY <1>2, HalvesOfWhole
  <2>3. <<>> \in Seq(0..9)
    OBVIOUS
  <2> QED
    BY <2>1, <2>2, <2>3
<1>3. ASSUME NEW k, DotAt(s, k) PROVE Whole(s) \in Seq(0..9) /\ Fraction(s) \in Seq(0..9)
  <2>1. k \in 1..Len(s) /\ \A i \in 1..Len(s) : i # k => s[i] \in 0..9
    BY <1>1, <1>3 DEF DotAt
  <2>2. Whole(s) = SubSeq(s, 1, k - 1) /\ Fraction(s) = SubSeq(s, k + 1, Len(s))
    BY <1>3, HalvesOfDotted
  <2>3. SubSeq(s, 1, k - 1) \in Seq(0..9)
    BY <1>1, <2>1
  <2>4. SubSeq(s, k + 1, Len(s)) \in Seq(0..9)
    BY <1>1, <2>1
  <2> QED
    BY <2>2, <2>3, <2>4
<1> QED
  BY <1>2, <1>3, PlainIs

LEMMA HalvesOfWithFraction ==
    ASSUME NEW w \in Seq(0..9), NEW f \in Seq(0..9), w # <<>>
    PROVE  LET s == WithFraction(w, f)
           IN  /\ s \in Seq(0..13) /\ PlainDecimal(s)
               /\ Whole(s) = w /\ Fraction(s) = f
<1> DEFINE s == WithFraction(w, f)
<1>1. Len(w) \in Nat \ {0} /\ Len(f) \in Nat
  OBVIOUS
<1>2. CASE f = <<>>
  <2>1. s = w
    BY <1>2 DEF WithFraction
  <2>2. s \in Seq(0..13) /\ \A i \in 1..Len(s) : s[i] \in 0..9 /\ s[i] # Dot
    BY <2>1 DEF Dot
  <2>3. Count(s, Dot) = 0 /\ Whole(s) = s /\ Fraction(s) = <<>>
    BY <2>2, HalvesOfWhole
  <2>4. 1 \in DOMAIN s /\ \A i \in DOMAIN s : IsDigit(s[i])
    BY <1>1, <2>1, <2>2 DEF IsDigit
  <2>5. PlainDecimal(s)
    BY <2>3, <2>4 DEF PlainDecimal
  <2> QED
    BY <1>2, <2>1, <2>2, <2>3, <2>5
<1>3. CASE f # <<>>
  <2> DEFINE k == Len(w) + 1
  <2>1. s = w \o <<Dot>> \o f
    BY <1>3 DEF WithFraction
  <2>2. /\ s \in Seq(0..13) /\ Len(s) = k + Len(f) /\ s[k] = Dot
        /\ \A i \in 1..Len(w) : s[i] = w[i]
        /\ \A i \in 1..Len(f) : s[k + i] = f[i]
    BY <1>1, <2>1 DEF Dot
  <2> HIDE DEF s
  <2>3. ASSUME NEW i \in 1..Len(s), i # k PROVE s[i] \in 0..9
    <3>1. CASE i < k
      <4>1. i \in 1..Len(w)
        BY <1>1, <3>1
      <4>2. w[i] \in 0..9
        BY <4>1
      <4> QED
        BY <2>2, <4>1, <4>2
    <3>2. CASE i > k
      <4> DEFINE j == i - k
      <4>1. j \in 1..Len(f) /\ k + j = i
        BY <1>1, <2>2, <3>2
      <4> HIDE DEF j, k
      <4>2. f[j] \in 0..9
        BY <4>1
      <4>3. s[k + j] = f[j]
        BY <2>2, <4>1
      <4> QED
        BY <4>1, <4>2, <4>3
    <3>3. i < k \/ i > k
      <4>1. i \in Int /\ k \in Int
        BY <1>1
      <4> HIDE DEF k
      <4> QED
        BY <2>3, <4>1
    <3> QED
      BY <3>1, <3>2, <3>3
  <2>4. DotAt(s, k)
    BY <1>1, <2>2, <2>3 DEF DotAt, Dot
  <2>5. Count(s, Dot) = 1 /\ Whole(s) = SubSeq(s, 1, k - 1) /\ Fraction(s) = SubSeq(s, k + 1, Len(s))
    BY <2>2, <2>4, HalvesOfDotted
  <2>6. SubSeq(s, 1, k - 1) = w
    BY <1>1, <2>2
  <2>7. SubSeq(s, k + 1, Len(s)) = f
    BY <1>1, <2>2
  <2>8. PlainDecimal(s)
    <3>1. 1 \in 1..Len(s) /\ 1 # k /\ DOMAIN s = 1..Len(s)
      BY <1>1, <2>2
    <3> HIDE DEF k
    <3>2. \A i \in 1..Len(s) : IsDigit(s[i]) \/ s[i] = Dot
      BY <2>2, <2>3 DEF IsDigit
    <3>3. IsDigit(s[1])
      BY <2>3, <3>1 DEF IsDigit
    <3> QED
      BY <2>5, <3>1, <3>2, <3>3 DEF PlainDecimal
  <2> QED
    BY <2>2, <2>5, <2>6, <2>7, <2>8 DEF s
<1> QED
  BY <1>2, <1>3

-----------------------------------------------------------------------------
(* The normal form of a text is the decimal of its value.                  *)

LEMMA PlacesNat ==
    Places \in Nat /\ Tens(Places) \in Nat \ {0}
BY AmountsAssumption, TensIs DEF AmountsAssumption

LEMMA Quotient ==
    ASSUME NEW q \in Nat, NEW b \in Nat, NEW r \in Nat, r < b
    PROVE  q * b + r \in Nat /\ (q * b + r) \div b = q /\ (q * b + r) % b = r
OBVIOUS

LEMMA QuotientOf ==
    ASSUME NEW v \in Nat, NEW b \in Nat \ {0}
    PROVE  /\ v \div b \in Nat /\ v % b \in Nat /\ v % b < b
           /\ (v \div b) * b + (v % b) = v
OBVIOUS

LEMMA LessTimes ==
    ASSUME NEW x \in Nat, NEW a \in Nat, NEW b \in Nat \ {0}, x < a
    PROVE  x * b < a * b
OBVIOUS

LEMMA WholeWritten ==
    ASSUME NEW n \in Nat
    PROVE  LET w == IF n = 0 THEN <<0>> ELSE Written(n)
           IN  w \in Seq(0..9) /\ w # <<>> /\ Numeral(w) = n
<1>1. CASE n = 0
  <2>1. <<>> \in Seq(0..9) /\ 0 \in 0..9 /\ Append(<<>>, 0) = <<0>> /\ <<0>> \in Seq(0..9) /\ <<0>> # <<>>
    OBVIOUS
  <2>2. Numeral(Append(<<>>, 0)) = 10 * 0 + 0
    BY <2>1, NumeralAppend, NumeralOfNone
  <2> QED
    BY <1>1, <2>1, <2>2
<1>2. CASE n # 0
  BY <1>2, WrittenIs, NumeralOfWritten, NumeralOfNone
<1> QED
  BY <1>1, <1>2

LEMMA ValueOfDecimal ==
    ASSUME NEW v \in Nat
    PROVE  /\ Decimal(v) \in Seq(0..13) /\ PlainDecimal(Decimal(v))
           /\ Len(Fraction(Decimal(v))) <= Places
           /\ Value(Decimal(v)) = v
<1> DEFINE t == Tens(Places)
           n == v \div t
           w == IF n = 0 THEN <<0>> ELSE Written(n)
           g == Padded(v % t, Places)
           f == TrimEnd(g)
<1>1. Places \in Nat /\ t \in Nat \ {0}
  BY PlacesNat
<1> HIDE DEF t
<1>2. n \in Nat /\ v % t \in Nat /\ v % t < t /\ n * t + (v % t) = v
  BY <1>1, QuotientOf
<1> HIDE DEF n
<1>3. w \in Seq(0..9) /\ w # <<>> /\ Numeral(w) = n
  BY <1>2, WholeWritten
<1>4. g \in Seq(0..9) /\ Len(g) = Places /\ Numeral(g) = v % t
  BY <1>1, <1>2, PaddedType, NumeralOfPadded DEF t
<1> HIDE DEF g
<1>5. f \in Seq(0..9) /\ Len(f) <= Places /\ Numeral(f) * Tens(Places - Len(f)) = v % t
  BY <1>4, TrimEndIs, NumeralOfTrimEnd
<1>6. Decimal(v) = WithFraction(w, f)
  BY DEF Decimal, t, n, g
<1> HIDE DEF w, f
<1>7. /\ Decimal(v) \in Seq(0..13) /\ PlainDecimal(Decimal(v))
      /\ Whole(Decimal(v)) = w /\ Fraction(Decimal(v)) = f
  BY <1>3, <1>5, <1>6, HalvesOfWithFraction
<1>8. Value(Decimal(v)) = n * t + (v % t)
  BY <1>3, <1>5, <1>7 DEF Value, t
<1> QED
  BY <1>2, <1>5, <1>7, <1>8

\* normalizeDecimal gives the decimal of the number, whichever way it is spelt.
LEMMA NormalizeIsDecimal ==
    ASSUME NEW s \in Seq(0..13), PlainDecimal(s), Len(Fraction(s)) <= Places
    PROVE  Value(s) \in Nat /\ NormalizeDecimal(s) = Decimal(Value(s))
<1> DEFINE t == Tens(Places)
           W == Whole(s)
           F == Fraction(s)
           k == Places - Len(F)
           n == Numeral(W)
           r == Numeral(F) * Tens(k)
<1>1. Places \in Nat /\ t \in Nat \ {0} /\ W \in Seq(0..9) /\ F \in Seq(0..9)
  BY PlacesNat, HalvesOfPlain
<1>2. Len(F) \in Nat /\ k \in Nat /\ Places = Len(F) + k
  BY <1>1
<1> HIDE DEF k, W, F
<1>3. n \in Nat /\ Numeral(F) \in Nat /\ Numeral(F) < Tens(Len(F))
  BY <1>1, NumeralType, NumeralBound
<1>4. t = Tens(Len(F)) * Tens(k) /\ Tens(k) \in Nat \ {0} /\ Tens(Len(F)) \in Nat
  BY <1>2, TensOfSum, TensIs
<1>5. r \in Nat /\ r < t
  BY <1>3, <1>4, LessTimes
<1>6. Value(s) = n * t + r
  BY DEF Value, W, F, k
<1> HIDE DEF n, t
<1>7. Value(s) \in Nat /\ Value(s) \div t = n /\ Value(s) % t = r
  <2> HIDE DEF r
  <2>1. n * t + r \in Nat /\ (n * t + r) \div t = n /\ (n * t + r) % t = r
    BY <1>1, <1>3, <1>5, Quotient
  <2> QED
    BY <1>6, <2>1
<1>8. TrimEnd(Padded(r, Places)) = TrimEnd(F)
  BY <1>1, <1>2, TrimEndOfPadded
<1> HIDE DEF r
<1>9. TrimStart(W) = Written(n) /\ (TrimStart(W) = <<>> <=> n = 0)
  BY <1>1, <1>3, TrimStartWrites, WrittenIs, NumeralOfWritten, NumeralOfNone DEF n
<1>10. Decimal(Value(s)) = WithFraction(IF n = 0 THEN <<0>> ELSE Written(n), TrimEnd(Padded(r, Places)))
  BY <1>7 DEF Decimal, t
<1>11. NormalizeDecimal(s) = WithFraction(IF TrimStart(W) = <<>> THEN <<0>> ELSE TrimStart(W), TrimEnd(F))
  BY DEF NormalizeDecimal, W, F
<1> QED
  BY <1>7, <1>8, <1>9, <1>10, <1>11

LEMMA DecimalIsNormal ==
    ASSUME NEW v \in Nat
    PROVE  NormalizeDecimal(Decimal(v)) = Decimal(v)
BY ValueOfDecimal, NormalizeIsDecimal

LEMMA DecimalInjective ==
    ASSUME NEW v \in Nat, NEW u \in Nat, Decimal(v) = Decimal(u)
    PROVE  v = u
<1>1. Value(Decimal(v)) = v /\ Value(Decimal(u)) = u
  BY ValueOfDecimal
<1> QED
  BY <1>1

\* No number is written as infinity is.
LEMMA InfinityIsNoNumber ==
    ASSUME NEW v \in Nat
    PROVE  NormalizeDecimal(<<Sign>>) # Decimal(v)
<1> DEFINE s == <<Sign>>
<1>1. s \in Seq(0..13) /\ Len(s) = 1 /\ s[1] = 11 /\ \A i \in 1..Len(s) : s[i] # Dot
  BY DEF Sign, Dot
<1>2. Whole(s) = s /\ Fraction(s) = <<>>
  BY <1>1, HalvesOfWhole
<1>3. Significant(s) = {1}
  BY <1>1 DEF Significant
<1>4. Min({1}) = 1
  BY MinOfNaturals
<1>5. TrimStart(s) = s
  <2> HIDE DEF s
  <2>1. TrimStart(s) = SubSeq(s, 1, 1)
    BY <1>1, <1>3, <1>4 DEF TrimStart
  <2>2. SubSeq(s, 1, 1) = s
    BY <1>1
  <2> QED
    BY <2>1, <2>2
<1>6. TrimEnd(<<>>) = <<>>
  BY DEF TrimEnd, Significant
<1>7. NormalizeDecimal(s) = s
  BY <1>1, <1>2, <1>5, <1>6 DEF NormalizeDecimal, WithFraction
<1>8. \A i \in DOMAIN Decimal(v) : Decimal(v)[i] # 11
  <2> DEFINE d == Decimal(v)
  <2>1. PlainDecimal(d)
    BY ValueOfDecimal
  <2> HIDE DEF d
  <2>2. \A i \in DOMAIN d : d[i] # 11
    BY <2>1 DEF PlainDecimal, IsDigit, Dot
  <2> QED
    BY <2>2 DEF d
<1> QED
  BY <1>1, <1>7, <1>8

-----------------------------------------------------------------------------
(* Doubles: a finite set of numbers, zero among them.                      *)

LEMMA FiniteImage ==
    ASSUME NEW S, IsFiniteSet(S), NEW f, DOMAIN f = S
    PROVE  IsFiniteSet({f[x] : x \in S})
<1> DEFINE T == {f[x] : x \in S}
           g == [x \in S |-> f[x]]
<1>1. g \in Surjection(S, T)
  BY DEF Surjection
<1> HIDE DEF g, T
<1>2. IsFiniteSet(T)
  BY <1>1, FS_Surjection
<1> QED
  BY <1>2 DEF T

LEMMA PowersOfTwo ==
    \A k \in Nat : Power(2, k) \in Nat \ {0}
<1>1. 2 \in Nat \ {0}
  OBVIOUS
<1> QED
  BY <1>1, PowerPositive

LEMMA DoubleIs ==
    ASSUME NEW e \in MinExp..MaxExp
    PROVE  /\ \A m \in Nat : Double(m, e) \in Nat
           /\ Double(0, e) = 0
<1>1. e \in Int
  BY AmountsAssumption DEF AmountsAssumption
<1>2. Tens(Places) \in Nat
  BY PlacesNat
<1>3. CASE e >= 0
  <2>1. Power(2, e) \in Nat
    BY <1>1, <1>3, PowersOfTwo
  <2>2. ASSUME NEW m \in Nat PROVE m * Power(2, e) * Tens(Places) \in Nat
    <3>1. m * Power(2, e) \in Nat
      BY <2>1
    <3> QED
      BY <1>2, <3>1
  <2>3. 0 * Power(2, e) * Tens(Places) = 0
    BY <1>2, <2>1
  <2> QED
    BY <1>3, <2>2, <2>3 DEF Double
<1>4. CASE e < 0
  <2>1. -e \in Nat /\ ~(e >= 0)
    BY <1>1, <1>4
  <2>2. Power(2, -e) \in Nat \ {0}
    BY <2>1, PowersOfTwo
  <2>3. ASSUME NEW m \in Nat PROVE (m * Tens(Places)) \div Power(2, -e) \in Nat
    <3>1. m * Tens(Places) \in Nat
      BY <1>2
    <3> QED
      BY <2>2, <3>1
  <2>4. 0 * Tens(Places) = 0 /\ 0 \div Power(2, -e) = 0
    BY <1>2, <2>2
  <2> QED
    BY <2>1, <2>3, <2>4 DEF Double
<1> QED
  BY <1>1, <1>3, <1>4

LEMMA MantissasAre ==
    ASSUME NEW e
    PROVE  /\ Mantissas(e) \subseteq Nat /\ IsFiniteSet(Mantissas(e))
           /\ e = MinExp => 0 \in Mantissas(e)
<1>1. Power(2, Precision) \in Nat \ {0} /\ Power(2, Precision - 1) \in Nat
  <2>1. Precision \in Nat /\ Precision - 1 \in Nat
    BY AmountsAssumption DEF AmountsAssumption
  <2> QED
    BY <2>1, PowersOfTwo
<1> DEFINE low == IF e = MinExp THEN 0 ELSE Power(2, Precision - 1)
           high == Power(2, Precision) - 1
<1>2. low \in Nat /\ high \in Nat /\ (e = MinExp => low = 0)
  BY <1>1
<1>3. Mantissas(e) = low..high
  BY DEF Mantissas
<1> HIDE DEF low, high
<1>4. IsFiniteSet(low..high)
  BY <1>2, FS_Interval
<1> QED
  BY <1>2, <1>3, <1>4

LEMMA DoublesAre ==
    Doubles \subseteq Nat /\ 0 \in Doubles /\ IsFiniteSet(Doubles)
<1> DEFINE Of(e) == {Double(m, e) : m \in Mantissas(e)}
           all == [e \in MinExp..MaxExp |-> Of(e)]
<1>1. MinExp \in Int /\ MaxExp \in Int /\ MinExp \in MinExp..MaxExp
  BY AmountsAssumption DEF AmountsAssumption
<1>2. \A e \in MinExp..MaxExp : Of(e) \subseteq Nat
  BY DoubleIs, MantissasAre
<1>3. 0 \in Of(MinExp)
  <2>1. 0 \in Mantissas(MinExp)
    BY MantissasAre
  <2>2. Double(0, MinExp) = 0
    BY <1>1, DoubleIs
  <2> QED
    BY <2>1, <2>2
<1>4. ASSUME NEW e \in MinExp..MaxExp PROVE IsFiniteSet(Of(e))
  <2> DEFINE f == [m \in Mantissas(e) |-> Double(m, e)]
  <2>1. IsFiniteSet(Mantissas(e)) /\ DOMAIN f = Mantissas(e)
    BY MantissasAre
  <2>2. Of(e) = {f[m] : m \in Mantissas(e)}
    OBVIOUS
  <2> HIDE DEF f, Of
  <2> QED
    BY <2>1, <2>2, FiniteImage
<1>5. Doubles = UNION {all[e] : e \in MinExp..MaxExp}
  BY DEF Doubles
<1> HIDE DEF Of
<1>6. IsFiniteSet({all[e] : e \in MinExp..MaxExp})
  <2>1. IsFiniteSet(MinExp..MaxExp) /\ DOMAIN all = MinExp..MaxExp
    BY <1>1, FS_Interval
  <2> HIDE DEF all
  <2> QED
    BY <2>1, FiniteImage
<1>7. \A T \in {all[e] : e \in MinExp..MaxExp} : IsFiniteSet(T)
  BY <1>4
<1>8. IsFiniteSet(Doubles)
  <2> HIDE DEF all
  <2> QED
    BY <1>5, <1>6, <1>7, FS_UNION
<1> QED
  BY <1>1, <1>2, <1>3, <1>5, <1>8

LEMMA LargestIs ==
    /\ Largest \in Doubles /\ Largest \in Nat /\ \A d \in Doubles : d <= Largest
    /\ Overflow \in Nat /\ Largest < Overflow
<1>1. Largest \in Doubles /\ Largest \in Nat /\ \A d \in Doubles : d <= Largest
  <2>1. Doubles # {}
    BY DoublesAre
  <2> QED
    BY <2>1, DoublesAre, MaxOfFinite DEF Largest
<1>2. Double(1, MaxExp) \in Nat \ {0}
  <2>1. MaxExp \in Nat
    BY AmountsAssumption DEF AmountsAssumption
  <2>2. Power(2, MaxExp) \in Nat \ {0} /\ Tens(Places) \in Nat \ {0}
    BY <2>1, PowersOfTwo, PlacesNat
  <2>3. Double(1, MaxExp) = 1 * Power(2, MaxExp) * Tens(Places)
    BY <2>1 DEF Double
  <2> QED
    BY <2>2, <2>3
<1>3. (Double(1, MaxExp) + 1) \div 2 \in Nat \ {0}
  BY <1>2
<1> QED
  BY <1>1, <1>3 DEF Overflow

-----------------------------------------------------------------------------
(* Reading a text: the nearest double.                                     *)

Below(v) == Max({d \in Doubles : d <= v})
Above(v) == Min({d \in Doubles : d >= v} \cup {Largest})

LEMMA BelowIs ==
    ASSUME NEW v \in Nat
    PROVE  /\ Below(v) \in Doubles /\ Below(v) \in Nat /\ Below(v) <= v
           /\ \A d \in Doubles : d <= v => d <= Below(v)
<1> DEFINE S == {d \in Doubles : d <= v}
<1>1. S \subseteq Nat /\ 0 \in S /\ \A d \in S : d <= v
  <2>1. 0 <= v /\ 0 \in Doubles /\ \A d \in Doubles : d \in Nat
    BY DoublesAre
  <2> QED
    BY <2>1
<1>2. Max(S) \in S /\ \A d \in S : d <= Max(S)
  <2> HIDE DEF S
  <2>1. S # {}
    BY <1>1
  <2> QED
    BY <1>1, <2>1, MaxOfBounded
<1>3. Below(v) = Max(S)
  BY DEF Below
<1> QED
  BY <1>1, <1>2, <1>3

LEMMA AboveIs ==
    ASSUME NEW v \in Nat
    PROVE  /\ Above(v) \in Doubles /\ Above(v) \in Nat /\ Above(v) <= Largest
           /\ \A d \in Doubles : d >= v => Above(v) <= d
           /\ v <= Largest => v <= Above(v)
           /\ v > Largest => Above(v) = Largest
<1> DEFINE S == {d \in Doubles : d >= v} \cup {Largest}
<1>1. S \subseteq Doubles /\ S \subseteq Nat /\ Largest \in S
  BY DoublesAre, LargestIs
<1>2. Min(S) \in S /\ \A d \in S : Min(S) <= d
  <2> HIDE DEF S
  <2>1. S # {}
    BY <1>1
  <2> QED
    BY <1>1, <2>1, MinOfNaturals
<1>3. Above(v) = Min(S)
  BY DEF Above
<1>4. Above(v) \in S /\ Above(v) \in Nat /\ Above(v) \in Doubles /\ \A d \in S : Above(v) <= d
  BY <1>1, <1>2, <1>3
<1>5. v > Largest => S = {Largest}
  <2>1. \A d \in Doubles : d \in Nat /\ d <= Largest /\ Largest \in Nat
    BY DoublesAre, LargestIs
  <2>2. \A d \in Doubles : v > Largest => ~(d >= v)
    BY <2>1
  <2> QED
    BY <2>2
<1> QED
  BY <1>1, <1>4, <1>5

LEMMA NearestIs ==
    ASSUME NEW v \in Nat
    PROVE  /\ v >= Overflow => Nearest(v) = Infinite
           /\ v < Overflow => /\ Nearest(v) \in {Below(v), Above(v)}
                              /\ v - Below(v) < Above(v) - v => Nearest(v) = Below(v)
                              /\ v - Below(v) > Above(v) - v => Nearest(v) = Above(v)
<1>1. v >= Overflow => Nearest(v) = Infinite
  BY DEF Nearest
<1>2. ASSUME v < Overflow
      PROVE  Nearest(v) = CASE v - Below(v) < Above(v) - v -> Below(v)
                            [] v - Below(v) > Above(v) - v -> Above(v)
                            [] OTHER -> IF Below(v) \in Evens THEN Below(v) ELSE Above(v)
  <2>1. ~(v >= Overflow)
    BY <1>2, LargestIs
  <2> QED
    BY <2>1 DEF Nearest, Below, Above
<1>3. Below(v) \in Nat /\ Above(v) \in Nat
  BY BelowIs, AboveIs
<1> QED
  BY <1>1, <1>2, <1>3

LEMMA NearestType ==
    ASSUME NEW v \in Nat
    PROVE  Nearest(v) = Infinite \/ (v < Overflow /\ Nearest(v) \in Doubles /\ Nearest(v) \in Nat)
<1>1. v \in Nat /\ Overflow \in Nat
  BY LargestIs
<1> QED
  BY <1>1, NearestIs, BelowIs, AboveIs

\* Between a number and the double that is read for it, all is read as that.
LEMMA NearestBetween ==
    ASSUME NEW v \in Nat, NEW x \in Nat, Nearest(v) # Infinite,
           \/ Nearest(v) <= x /\ x <= v
           \/ v <= x /\ x <= Nearest(v)
    PROVE  Nearest(x) = Nearest(v)
<1> DEFINE d == Nearest(v)
<1>1. /\ v < Overflow /\ d \in Doubles /\ d \in Nat /\ d <= Largest
      /\ Largest \in Nat /\ Overflow \in Nat /\ Largest < Overflow
  BY NearestType, LargestIs
<1>2. d = Below(v) \/ d = Above(v)
  BY <1>1, NearestIs
<1>3. /\ v - Below(v) < Above(v) - v => d = Below(v)
      /\ v - Below(v) > Above(v) - v => d = Above(v)
  BY <1>1, NearestIs
<1> HIDE DEF d
<1>b. /\ Below(v) \in Nat /\ Below(v) <= v /\ Above(v) \in Nat /\ Above(v) <= Largest
      /\ v <= Largest => v <= Above(v)
      /\ v > Largest => Above(v) = Largest
  BY BelowIs, AboveIs
<1>c. /\ Below(x) \in Nat /\ Below(x) <= x /\ Above(x) \in Nat /\ Above(x) <= Largest
      /\ x <= Largest => x <= Above(x)
      /\ x > Largest => Above(x) = Largest
  BY BelowIs, AboveIs
<1>4. x < Overflow
  BY <1>1 DEF d
<1>5. /\ Nearest(x) \in {Below(x), Above(x)}
      /\ x - Below(x) < Above(x) - x => Nearest(x) = Below(x)
      /\ x - Below(x) > Above(x) - x => Nearest(x) = Above(x)
  BY <1>4, NearestIs
<1>6. CASE x = d
  <2>1. Below(x) = d /\ Above(x) = d
    BY <1>1, <1>6, <1>c, BelowIs, AboveIs
  <2> QED
    BY <1>5, <2>1 DEF d
<1>7. CASE x = v
  BY <1>7
<1>8. CASE d < x /\ x < v
  <2>1. CASE x > Largest
    <3>1. Above(x) = Largest /\ Above(v) = Largest /\ Below(x) = Largest /\ Below(v) = Largest
      <4>1. Largest <= Below(x) /\ Largest <= Below(v) /\ Below(x) <= Largest /\ Below(v) <= Largest
        BY <1>1, <1>8, <2>1, BelowIs, LargestIs
      <4> QED
        BY <1>1, <1>8, <1>b, <1>c, <2>1, <4>1
    <3> QED
      BY <1>2, <1>5, <3>1 DEF d
  <2>2. CASE x <= Largest /\ v > Largest
    <3>1. Above(v) = Largest /\ Below(v) = Largest
      <4>1. Largest <= Below(v) /\ Below(v) <= Largest
        BY <1>1, <2>2, BelowIs, LargestIs
      <4> QED
        BY <1>1, <1>b, <2>2, <4>1
    <3> QED
      BY <1>1, <1>2, <1>8, <2>2, <3>1
  <2>3. CASE v <= Largest
    <3>1. d = Below(v)
      BY <1>1, <1>2, <1>8, <1>b, <2>3
    <3>2. Below(x) = d
      <4>1. d <= Below(x) /\ Below(x) <= Below(v)
        BY <1>1, <1>8, <1>c, BelowIs
      <4> QED
        BY <1>c, <1>1, <3>1, <4>1
    <3>3. Above(v) <= Above(x)
      <4>1. Above(x) \in Doubles /\ x <= Above(x)
        BY <1>1, <1>8, <1>c, <2>3, AboveIs
      <4>2. ~(Above(x) <= v)
        BY <1>1, <1>8, <1>c, <3>1, <4>1, BelowIs
      <4> QED
        BY <1>c, <4>1, <4>2, AboveIs
    <3>4. x - Below(x) < Above(x) - x
      BY <1>1, <1>3, <1>8, <1>b, <1>c, <2>3, <3>1, <3>2, <3>3
    <3> QED
      BY <1>5, <3>2, <3>4 DEF d
  <2> QED
    BY <1>1, <2>1, <2>2, <2>3
<1>9. CASE v < x /\ x < d
  <2>1. d = Above(v)
    BY <1>1, <1>2, <1>9, <1>b
  <2>2. Above(x) = d
    <3>1. Above(x) <= d
      BY <1>1, <1>9, AboveIs
    <3>2. Above(x) \in Doubles /\ Above(x) >= v
      BY <1>1, <1>9, <1>c, AboveIs
    <3>3. Above(v) <= Above(x)
      BY <3>2, AboveIs
    <3> QED
      BY <1>1, <1>c, <2>1, <3>1, <3>3
  <2>3. Below(x) = Below(v)
    <3>1. Below(v) <= Below(x)
      BY <1>9, <1>b, BelowIs
    <3>2. Below(x) \in Doubles /\ ~(Below(x) >= v /\ Below(x) < d)
      BY <1>1, <1>c, <1>b, <2>1, BelowIs, AboveIs
    <3>3. Below(x) <= v
      BY <1>1, <1>9, <1>c, <3>2
    <3>4. Below(x) <= Below(v)
      BY <3>2, <3>3, BelowIs
    <3> QED
      BY <1>b, <1>c, <3>1, <3>4
  <2>4. x - Below(x) > Above(x) - x
    BY <1>1, <1>3, <1>9, <1>b, <1>c, <2>1, <2>2, <2>3
  <2> QED
    BY <1>5, <2>2, <2>4 DEF d
<1> QED
  BY <1>1, <1>6, <1>7, <1>8, <1>9 DEF d

LEMMA NearestOfDouble ==
    ASSUME NEW d \in Doubles
    PROVE  Nearest(d) = d
<1>1. d \in Nat /\ d <= Largest /\ Largest \in Nat /\ Overflow \in Nat /\ Largest < Overflow
  BY DoublesAre, LargestIs
<1>2. Below(d) \in Nat /\ Below(d) <= d /\ d <= Below(d)
  BY <1>1, BelowIs
<1>3. Above(d) \in Nat /\ Above(d) <= d /\ d <= Above(d)
  BY <1>1, AboveIs
<1>4. Below(d) = d /\ Above(d) = d /\ d < Overflow
  BY <1>1, <1>2, <1>3
<1> QED
  BY <1>1, <1>4, NearestIs

-----------------------------------------------------------------------------
(* Writing a double: the shortest decimal.                                 *)

Around(d, step) == {(d \div step) * step, (d \div step + 1) * step}
Reads(d, step) == {v \in Around(d, step) : Nearest(v) = d}
Exponents(d) == {k \in 0..Places \cup 0..Len(Written(d)) : Reads(d, Tens(k)) # {}}
StepOf(d) == Max({Tens(k) : k \in Exponents(d)})
Far(v, d) == IF v > d THEN v - d ELSE d - v

LEMMA ShortestChosen ==
    ASSUME NEW d \in Doubles
    PROVE  Shortest[d] = CHOOSE v \in Reads(d, StepOf(d)) : \A w \in Reads(d, StepOf(d)) : Far(v, d) <= Far(w, d)
BY DEF Shortest, StepOf, Exponents, Reads, Around, Far

LEMMA AroundIs ==
    ASSUME NEW d \in Nat, NEW step \in Nat \ {0}
    PROVE  \A v \in Around(d, step) : v \in Nat /\ \E q \in Nat : v = q * step
<1>1. d \div step \in Nat /\ d \div step + 1 \in Nat
  OBVIOUS
<1>2. \A q \in Nat : q * step \in Nat
  OBVIOUS
<1> QED
  BY <1>1, <1>2 DEF Around

LEMMA StepIs ==
    ASSUME NEW d \in Doubles
    PROVE  /\ \E k \in Exponents(d) : StepOf(d) = Tens(k)
           /\ \A k \in Exponents(d) : Tens(k) <= StepOf(d)
<1> DEFINE E == Exponents(d)
           I == 0..Places \cup 0..Len(Written(d))
           f == [k \in E |-> Tens(k)]
           T == {f[k] : k \in E}
<1>1. d \in Nat /\ Places \in Nat /\ Len(Written(d)) \in Nat
  BY DoublesAre, PlacesNat, WrittenIs
<1>2. I \subseteq Nat /\ IsFiniteSet(I)
  <2>1. IsFiniteSet(0..Places) /\ IsFiniteSet(0..Len(Written(d)))
    BY <1>1, FS_Interval
  <2>2. IsFiniteSet(I)
    BY <2>1, FS_Union
  <2> QED
    BY <1>1, <2>2
<1>3. E \subseteq I
  BY DEF Exponents
<1>4. 0 \in E
  <2>1. d \div 1 = d /\ d * 1 = d /\ Tens(0) = 1
    BY <1>1, TensIs
  <2>2. d \in Around(d, Tens(0))
    BY <2>1 DEF Around
  <2>3. d \in Reads(d, Tens(0))
    BY <2>2, NearestOfDouble DEF Reads
  <2> QED
    BY <1>1, <2>3 DEF Exponents
<1> HIDE DEF E, I
<1>5. IsFiniteSet(E)
  BY <1>2, <1>3, FS_Subset
<1>6. DOMAIN f = E /\ \A k \in E : f[k] = Tens(k) /\ Tens(k) \in Nat
  BY <1>2, <1>3, TensIs
<1> HIDE DEF f
<1>7. IsFiniteSet(T)
  BY <1>5, <1>6, FiniteImage
<1>8. T \subseteq Nat /\ T # {} /\ T = {Tens(k) : k \in E}
  BY <1>4, <1>6
<1>9. StepOf(d) = Max(T)
  <2> HIDE DEF T
  <2> QED
    BY <1>8 DEF StepOf, E
<1>10. Max(T) \in T /\ \A m \in T : m <= Max(T)
  <2> HIDE DEF T
  <2> QED
    BY <1>7, <1>8, MaxOfFinite
<1> QED
  BY <1>6, <1>9, <1>10 DEF E

\* The shortest decimal is a number of units of its last place that is read as the
\* double, and of those the nearest to it.
LEMMA ShortestIs ==
    ASSUME NEW d \in Doubles
    PROVE  /\ Shortest[d] \in Nat /\ Nearest(Shortest[d]) = d
           /\ \E k \in Nat, q \in Nat : StepOf(d) = Tens(k) /\ Shortest[d] = q * Tens(k)
           /\ \A w \in Reads(d, StepOf(d)) : Far(Shortest[d], d) <= Far(w, d)
<1> DEFINE R == Reads(d, StepOf(d))
<1>1. d \in Nat
  BY DoublesAre
<1>2. PICK k \in Exponents(d) : StepOf(d) = Tens(k)
  BY StepIs
<1>3. k \in Nat /\ R # {} /\ Tens(k) \in Nat \ {0}
  <2>1. k \in Nat
    BY PlacesNat, WrittenIs, <1>1 DEF Exponents
  <2> QED
    BY <1>2, <2>1, TensIs DEF Exponents
<1>4. \A v \in R : v \in Nat /\ Nearest(v) = d /\ \E q \in Nat : v = q * Tens(k)
  BY <1>1, <1>2, <1>3, AroundIs DEF Reads
<1> HIDE DEF R
<1>5. \E v \in R : \A w \in R : Far(v, d) <= Far(w, d)
  <2> DEFINE T == {Far(v, d) : v \in R}
  <2>1. T \subseteq Nat /\ T # {}
    <3>1. \A v \in R : Far(v, d) \in Nat
      BY <1>1, <1>4 DEF Far
    <3> QED
      BY <1>3, <3>1
  <2>2. Min(T) \in T /\ \A m \in T : Min(T) <= m
    <3> HIDE DEF T
    <3> QED
      BY <2>1, MinOfNaturals
  <2> QED
    BY <2>2
<1>6. Shortest[d] \in R /\ \A w \in R : Far(Shortest[d], d) <= Far(w, d)
  BY <1>5, ShortestChosen DEF R
<1> QED
  BY <1>2, <1>3, <1>4, <1>6 DEF R

LEMMA ShortestOfZero ==
    0 \in Doubles /\ Shortest[0] = 0
<1>1. 0 \in Doubles
  BY DoublesAre
<1>2. PICK k \in Nat, q \in Nat : StepOf(0) = Tens(k)
  BY <1>1, ShortestIs
<1>3. Tens(k) \in Nat \ {0} /\ 0 \div Tens(k) = 0 /\ 0 * Tens(k) = 0
  BY TensIs
<1>4. 0 \in Reads(0, StepOf(0))
  BY <1>1, <1>2, <1>3, NearestOfDouble DEF Reads, Around
<1>5. Shortest[0] \in Nat /\ Far(Shortest[0], 0) <= Far(0, 0)
  BY <1>1, <1>4, ShortestIs
<1> QED
  BY <1>1, <1>5 DEF Far

-----------------------------------------------------------------------------
(* What the page accepts is kept by the way to the server and back.        *)

LEMMA MultiplesAround ==
    ASSUME NEW q \in Nat, NEW b \in Nat \ {0}, NEW d \in Nat
    PROVE  /\ (d \div b) * b \in Nat /\ (d \div b) * b <= d
           /\ (d \div b + 1) * b \in Nat /\ d <= (d \div b + 1) * b
           /\ q * b <= d => q * b <= (d \div b) * b
           /\ q * b > d => (d \div b + 1) * b <= q * b
<1> DEFINE n == d \div b
           r == d % b
<1>1. n \in Nat /\ r \in Nat /\ r < b /\ n * b + r = d
  BY QuotientOf
<1> HIDE DEF n, r
<1>2. n * b \in Nat /\ (n + 1) * b = n * b + b
  BY <1>1
<1>3. q <= n => q * b <= n * b
  BY <1>1
<1>4. q >= n + 1 => q * b >= (n + 1) * b
  BY <1>1
<1>5. q <= n \/ q >= n + 1
  BY <1>1
<1>6. q * b \in Nat
  OBVIOUS
<1>7. n * b <= d /\ (n + 1) * b \in Nat /\ d < (n + 1) * b
  BY <1>1, <1>2
<1>8. q * b <= d => q * b <= n * b
  BY <1>1, <1>2, <1>3, <1>4, <1>5, <1>6, <1>7
<1>9. q * b > d => (n + 1) * b <= q * b
  BY <1>1, <1>2, <1>3, <1>4, <1>5, <1>6, <1>7
<1> QED
  BY <1>2, <1>7, <1>8, <1>9 DEF n

LEMMA RoundedMultiple ==
    ASSUME NEW u \in Nat, NEW b \in Nat \ {0}
    PROVE  ((u * b + b \div 2) \div b) * b = u * b
<1>1. b \div 2 \in Nat /\ b \div 2 < b
  OBVIOUS
<1>2. (u * b + b \div 2) \div b = u
  BY <1>1, Quotient
<1> QED
  BY <1>2

LEMMA TensMultiple ==
    ASSUME NEW k \in Nat, NEW l \in Nat, Tens(l) <= Tens(k)
    PROVE  \E c \in Nat : Tens(k) = c * Tens(l)
<1>1. CASE l <= k
  <2>1. k - l \in Nat /\ (k - l) + l = k
    BY <1>1
  <2>2. Tens((k - l) + l) = Tens(k - l) * Tens(l)
    BY <2>1, TensOfSum
  <2>3. Tens(k - l) \in Nat
    BY <2>1, TensIs
  <2> QED
    BY <2>1, <2>2, <2>3
<1>2. CASE l > k
  <2> DEFINE j == l - k - 1
  <2>1. j \in Nat /\ (j + 1) + k = l
    BY <1>2
  <2> HIDE DEF j
  <2>2. Tens(l) = Tens(j + 1) * Tens(k) /\ Tens(j + 1) = 10 * Tens(j) /\ Tens(j) \in Nat \ {0} /\ Tens(k) \in Nat \ {0}
    <3>1. j + 1 \in Nat
      BY <2>1
    <3>2. Tens((j + 1) + k) = Tens(j + 1) * Tens(k)
      BY <3>1, TensOfSum
    <3> QED
      BY <2>1, <3>2, TensIs
  <2>3. Tens(j + 1) \in Nat /\ 1 < Tens(j + 1)
    BY <2>2
  <2>4. 1 * Tens(k) < Tens(j + 1) * Tens(k)
    BY <2>2, <2>3, LessTimes
  <2>5. FALSE
    BY <2>2, <2>4
  <2> QED
    BY <2>5
<1> QED
  BY <1>1, <1>2

\* The unit of the last place asPlainDecimal writes.
LastUnit == Tens(Places - MaxFraction)

LEMMA LastUnitIs ==
    Places - MaxFraction \in Nat /\ Places - MaxFraction \in 0..Places /\ LastUnit \in Nat \ {0}
<1>1. Places - MaxFraction \in Nat /\ Places - MaxFraction \in 0..Places
  BY AmountsAssumption DEF AmountsAssumption
<1> QED
  BY <1>1, TensIs DEF LastUnit

Rounded(x) == ((x + LastUnit \div 2) \div LastUnit) * LastUnit

LEMMA RoundedType ==
    ASSUME NEW x \in Nat
    PROVE  Rounded(x) \in Nat /\ \E q \in Nat : Rounded(x) = q * LastUnit
<1>1. LastUnit \in Nat \ {0} /\ x + LastUnit \div 2 \in Nat
  BY LastUnitIs
<1>2. (x + LastUnit \div 2) \div LastUnit \in Nat
  BY <1>1, QuotientOf
<1>3. \A q \in Nat : q * LastUnit \in Nat
  BY <1>1
<1> QED
  BY <1>2, <1>3 DEF Rounded

LEMMA AsPlainDecimalIs ==
    /\ AsPlainDecimal(Infinite) = <<Sign>>
    /\ \A d \in Doubles : AsPlainDecimal(d) = Decimal(Rounded(Shortest[d]))
<1>1. AsPlainDecimal(Infinite) = <<Sign>>
  BY DEF AsPlainDecimal
<1>2. \A d \in Doubles : d # Infinite
  BY DoublesAre DEF Infinite
<1> QED
  BY <1>1, <1>2 DEF AsPlainDecimal, Rounded, LastUnit

\* A number of few enough places, from the digits that are written for the
\* double it is read as, is that one's shortest decimal.
LEMMA FewPlacesAreShortest ==
    ASSUME NEW v \in Nat, Nearest(v) # Infinite,
           NEW q \in Nat, v = q * LastUnit
    PROVE  LastUnit <= StepOf(Nearest(v))
<1> DEFINE d == Nearest(v)
           n == d \div LastUnit
<1>1. d \in Doubles /\ d \in Nat
  BY NearestType
<1>2. LastUnit \in Nat \ {0}
  BY LastUnitIs
<1> HIDE DEF d
<1>3. /\ n * LastUnit \in Nat /\ n * LastUnit <= d
      /\ (n + 1) * LastUnit \in Nat /\ d <= (n + 1) * LastUnit
      /\ q * LastUnit <= d => q * LastUnit <= n * LastUnit
      /\ q * LastUnit > d => (n + 1) * LastUnit <= q * LastUnit
  BY <1>1, <1>2, MultiplesAround
<1>4. Reads(d, LastUnit) # {}
  <2> HIDE DEF n
  <2>1. CASE v <= d
    <3>1. v <= n * LastUnit /\ n * LastUnit <= d
      BY <1>3, <2>1
    <3>2. Nearest(n * LastUnit) = d
      BY <1>3, <3>1, NearestBetween DEF d
    <3> QED
      BY <3>2 DEF Reads, Around, n
  <2>2. CASE v > d
    <3>1. (n + 1) * LastUnit <= v /\ d <= (n + 1) * LastUnit
      BY <1>3, <2>2
    <3>2. Nearest((n + 1) * LastUnit) = d
      BY <1>3, <3>1, NearestBetween DEF d
    <3> QED
      BY <3>2 DEF Reads, Around, n
  <2> QED
    BY <1>1, <2>1, <2>2
<1>5. Places - MaxFraction \in Exponents(d)
  BY <1>4, LastUnitIs DEF Exponents, LastUnit
<1>6. Tens(Places - MaxFraction) <= StepOf(d)
  BY <1>1, <1>5, StepIs
<1> QED
  BY <1>6 DEF LastUnit, d

\* What the page accepts is read as a double whose shortest decimal, the one the
\* server stores, is the number that was typed.
LEMMA ValidateIsExact ==
    ASSUME NEW s \in Seq(0..13), Len(Fraction(s)) <= Places, Validate(s)
    PROVE  /\ Value(s) \in Nat
           /\ Nearest(Value(s)) \in Doubles /\ Nearest(Value(s)) \in Nat \ {0}
           /\ Shortest[Nearest(Value(s))] = Value(s)
<1> DEFINE v == Value(s)
           d == Nearest(v)
           x == Shortest[d]
<1>1. v \in Nat /\ NormalizeDecimal(s) = Decimal(v)
  BY NormalizeIsDecimal DEF Validate
<1>2. d # 0 /\ Decimal(v) = NormalizeDecimal(AsPlainDecimal(d))
  BY <1>1 DEF Validate
<1> HIDE DEF v
<1>3. d # Infinite
  <2> SUFFICES ASSUME d = Infinite PROVE FALSE
    OBVIOUS
  <2>1. AsPlainDecimal(d) = <<Sign>>
    BY AsPlainDecimalIs
  <2> QED
    BY <1>1, <1>2, <2>1, InfinityIsNoNumber
<1>4. d \in Doubles /\ d \in Nat
  BY <1>1, <1>3, NearestType
<1>5. PICK k \in Nat, q \in Nat : StepOf(d) = Tens(k) /\ x = q * Tens(k)
  BY <1>4, ShortestIs
<1>6. x \in Nat
  BY <1>4, ShortestIs
<1>7. v = Rounded(x)
  <2>1. AsPlainDecimal(d) = Decimal(Rounded(x)) /\ Rounded(x) \in Nat
    BY <1>4, <1>6, AsPlainDecimalIs, RoundedType
  <2>2. NormalizeDecimal(Decimal(Rounded(x))) = Decimal(Rounded(x))
    BY <2>1, DecimalIsNormal
  <2> HIDE DEF x, d
  <2>3. Decimal(v) = Decimal(Rounded(x))
    BY <1>2, <2>1, <2>2
  <2> QED
    BY <1>1, <2>1, <2>3, DecimalInjective
<1>8. PICK p \in Nat : v = p * LastUnit
  BY <1>6, <1>7, RoundedType
<1>9. LastUnit <= StepOf(d)
  BY <1>1, <1>3, <1>8, FewPlacesAreShortest
<1> HIDE DEF x, d
<1>10. PICK c \in Nat : Tens(k) = c * LastUnit
  BY <1>5, <1>9, LastUnitIs, TensMultiple DEF LastUnit
<1>11. Rounded(x) = x
  <2>1. q * c \in Nat /\ LastUnit \in Nat \ {0}
    BY LastUnitIs
  <2>2. q * (c * LastUnit) = (q * c) * LastUnit
    BY <2>1
  <2>3. x = (q * c) * LastUnit
    BY <1>5, <1>10, <2>2
  <2> QED
    BY <2>1, <2>3, RoundedMultiple DEF Rounded
<1> QED
  BY <1>1, <1>2, <1>4, <1>7, <1>11 DEF v, d, x

\* And what has such a double, and few enough places, the page accepts.
LEMMA ExactIsValid ==
    ASSUME NEW s \in Seq(0..13), PlainDecimal(s), Len(Fraction(s)) <= Places, Value(s) > 0,
           Nearest(Value(s)) # Infinite,
           Shortest[Nearest(Value(s))] = Value(s),
           Value(s) % LastUnit = 0
    PROVE  Validate(s)
<1> DEFINE v == Value(s)
           d == Nearest(v)
           q == v \div LastUnit
<1>1. v \in Nat /\ NormalizeDecimal(s) = Decimal(v)
  BY NormalizeIsDecimal
<1> HIDE DEF v
<1>2. d \in Doubles
  BY <1>1, NearestType DEF v
<1>3. d # 0
  BY <1>1, ShortestOfZero DEF v
<1>4. Rounded(v) = v
  <2>1. LastUnit \in Nat \ {0}
    BY LastUnitIs
  <2>2. q \in Nat /\ q * LastUnit + (v % LastUnit) = v /\ v % LastUnit = 0
    BY <1>1, <2>1, QuotientOf DEF v
  <2> HIDE DEF q
  <2>3. v = q * LastUnit
    BY <2>1, <2>2
  <2> QED
    BY <2>1, <2>2, <2>3, RoundedMultiple DEF Rounded
<1>5. Shortest[d] = v
  BY DEF v
<1> HIDE DEF d
<1>6. AsPlainDecimal(d) = Decimal(v)
  BY <1>2, <1>4, <1>5, AsPlainDecimalIs
<1>7. NormalizeDecimal(s) = NormalizeDecimal(AsPlainDecimal(d))
  BY <1>1, <1>6, DecimalIsNormal
<1> QED
  BY <1>3, <1>7 DEF Validate, v, d

-----------------------------------------------------------------------------
(* What is shown: the commas of the whole part.                            *)

LEMMA WithoutCommasRuns ==
    ASSUME NEW s \in Seq(0..13)
    PROVE  \E p \in [0..Len(s) -> Seq(0..13)] :
              /\ p[0] = <<>>
              /\ \A i \in 1..Len(s) : p[i] = IF s[i] = Comma THEN p[i - 1] ELSE Append(p[i - 1], s[i])
              /\ WithoutCommas(s) = p[Len(s)]
<1> DEFINE n == Len(s)
           V == Seq(0..13)
           More(x, i) == IF s[i] = Comma THEN x ELSE Append(x, s[i])
           step == [i \in 1..n |-> [x \in V |-> More(x, i)]]
           Is(g) == g = [t \in SUBSET (DOMAIN s) |-> IF t = {} THEN <<>> ELSE More(g[t \ {Max(t)}], Max(t))]
           h == CHOOSE g : Is(g)
           p == [i \in 0..n |-> h[1..i]]
<1>1. n \in Nat /\ DOMAIN s = 1..n /\ <<>> \in V
  OBVIOUS
<1>2. \A i \in 1..n : \A x \in V : More(x, i) \in V
  <2> TAKE i \in 1..n
  <2> TAKE x \in V
  <2>1. s[i] \in 0..13
    OBVIOUS
  <2>2. Append(x, s[i]) \in V
    BY <2>1, AppendIs
  <2> QED
    BY <2>2
<1>8. WithoutCommas(s) = h[DOMAIN s]
  BY DEF WithoutCommas, FoldLeft, MapThenFoldSet
<1> HIDE DEF n, V, More
<1>3. PICK g \in [SUBSET (1..n) -> V] : IsFold(g, n, <<>>, step)
  <2>1. \A i \in 1..n : step[i] \in [V -> V]
    BY <1>2
  <2> HIDE DEF step
  <2> QED
    BY <1>1, <2>1, FoldExists
<1>4. Is(g)
  <2>1. ASSUME NEW t \in SUBSET (1..n)
        PROVE  g[t] = IF t = {} THEN <<>> ELSE More(g[t \ {Max(t)}], Max(t))
    <3>1. CASE t = {}
      BY <1>3, <3>1 DEF IsFold
    <3>2. CASE t # {}
      <4>1. Max(t) \in 1..n /\ g[t \ {Max(t)}] \in V
        BY <1>1, <1>3, <3>2, MaxOfPositions
      <4>2. g[t] = step[Max(t)][g[t \ {Max(t)}]]
        BY <1>3, <3>2 DEF IsFold
      <4> QED
        BY <3>2, <4>1, <4>2
    <3> QED
      BY <3>1, <3>2
  <2> QED
    BY <1>1, <1>3, <2>1
<1>5. Is(h)
  BY <1>4
<1> HIDE DEF h
<1>6. \A i \in 1..n : h[1..i] = More(h[1..i - 1], i)
  <2> TAKE i \in 1..n
  <2>1. 1..i \in SUBSET (1..n) /\ 1..i # {} /\ Max(1..i) = i /\ (1..i) \ {i} = 1..i - 1
    BY <1>1, PositionsUpTo
  <2> QED
    BY <1>1, <1>5, <2>1
<1>7. h[1..0] = <<>>
  BY <1>1, <1>5
<1> QED
  <2> DEFINE S == {i \in 0..n : h[1..i] \in V}
  <2>1. 0 \in S /\ \A i \in 1..n : i - 1 \in S => i \in S
    BY <1>1, <1>2, <1>6, <1>7
  <2>2. 0..n \subseteq S
    <3> HIDE DEF S
    <3> QED
      BY <1>1, <2>1, BoundedInduction
  <2>3. p \in [0..n -> V]
    BY <2>2
  <2>4. p[0] = <<>> /\ (\A i \in 1..n : p[i] = More(p[i - 1], i)) /\ WithoutCommas(s) = p[n]
    BY <1>1, <1>6, <1>7, <1>8
  <2> HIDE DEF p
  <2>5. \A i \in 1..n : p[i] = IF s[i] = Comma THEN p[i - 1] ELSE Append(p[i - 1], s[i])
    BY <2>4, Zenon DEF More
  <2> QED
    BY <2>3, <2>4, <2>5 DEF n, V

LEMMA GroupedRuns ==
    ASSUME NEW s \in Seq(0..9)
    PROVE  \E p \in [0..Len(s) -> Seq(0..13)] :
              /\ p[0] = <<>>
              /\ \A i \in 1..Len(s) :
                    p[i] = Append(IF i > 1 /\ (Len(s) - i + 1) % 3 = 0 THEN Append(p[i - 1], Comma) ELSE p[i - 1], s[i])
              /\ Grouped(s) = p[Len(s)]
<1> DEFINE n == Len(s)
           V == Seq(0..13)
           More(x, i) == Append(IF i > 1 /\ (Len(s) - i + 1) % 3 = 0 THEN Append(x, Comma) ELSE x, s[i])
           step == [i \in 1..n |-> [x \in V |-> More(x, i)]]
           at == [i \in 1..Len(s) |-> i]
           Is(g) == g = [t \in SUBSET (DOMAIN at) |-> IF t = {} THEN <<>> ELSE More(g[t \ {Max(t)}], at[Max(t)])]
           h == CHOOSE g : Is(g)
           p == [i \in 0..n |-> h[1..i]]
<1>1. n \in Nat /\ DOMAIN at = 1..n /\ (\A i \in 1..n : at[i] = i) /\ <<>> \in V
  OBVIOUS
<1>2. \A i \in 1..n : \A x \in V : More(x, i) \in V
  <2> TAKE i \in 1..n
  <2> TAKE x \in V
  <2>1. s[i] \in 0..13 /\ Comma \in 0..13
    BY DEF Comma
  <2>2. Append(x, Comma) \in V
    BY <2>1, AppendIs
  <2>3. \A y \in V : Append(y, s[i]) \in V
    BY <2>1, AppendIs
  <2> HIDE DEF V
  <2> QED
    BY <2>2, <2>3
<1>8. Grouped(s) = h[DOMAIN at]
  BY DEF Grouped, FoldLeft, MapThenFoldSet
<1> HIDE DEF n, V, More, at
<1>3. PICK g \in [SUBSET (1..n) -> V] : IsFold(g, n, <<>>, step)
  <2>1. \A i \in 1..n : step[i] \in [V -> V]
    BY <1>2
  <2> HIDE DEF step
  <2> QED
    BY <1>1, <2>1, FoldExists
<1>4. Is(g)
  <2>1. ASSUME NEW t \in SUBSET (1..n)
        PROVE  g[t] = IF t = {} THEN <<>> ELSE More(g[t \ {Max(t)}], at[Max(t)])
    <3>1. CASE t = {}
      BY <1>3, <3>1 DEF IsFold
    <3>2. CASE t # {}
      <4>1. Max(t) \in 1..n /\ at[Max(t)] = Max(t) /\ g[t \ {Max(t)}] \in V
        BY <1>1, <1>3, <3>2, MaxOfPositions
      <4>2. g[t] = step[Max(t)][g[t \ {Max(t)}]]
        BY <1>3, <3>2 DEF IsFold
      <4> QED
        BY <3>2, <4>1, <4>2
    <3> QED
      BY <3>1, <3>2
  <2> QED
    BY <1>1, <1>3, <2>1
<1>5. Is(h)
  BY <1>4
<1> HIDE DEF h
<1>6. \A i \in 1..n : h[1..i] = More(h[1..i - 1], i)
  <2> TAKE i \in 1..n
  <2>1. 1..i \in SUBSET (1..n) /\ 1..i # {} /\ Max(1..i) = i /\ (1..i) \ {i} = 1..i - 1
    BY <1>1, PositionsUpTo
  <2>2. h[1..i] = IF 1..i = {} THEN <<>> ELSE More(h[(1..i) \ {Max(1..i)}], at[Max(1..i)])
    BY <1>1, <1>5, <2>1
  <2>3. at[Max(1..i)] = i
    BY <1>1, <2>1
  <2> QED
    BY <2>1, <2>2, <2>3
<1>7. h[1..0] = <<>>
  BY <1>1, <1>5
<1> QED
  <2> DEFINE S == {i \in 0..n : h[1..i] \in V}
  <2>1. 0 \in S /\ \A i \in 1..n : i - 1 \in S => i \in S
    BY <1>1, <1>2, <1>6, <1>7
  <2>2. 0..n \subseteq S
    <3> HIDE DEF S
    <3> QED
      BY <1>1, <2>1, BoundedInduction
  <2>3. p \in [0..n -> V]
    BY <2>2
  <2>4. p[0] = <<>> /\ (\A i \in 1..n : p[i] = More(p[i - 1], i)) /\ Grouped(s) = p[n]
    BY <1>1, <1>6, <1>7, <1>8
  <2> HIDE DEF p
  <2>5. \A i \in 1..n :
           p[i] = Append(IF i > 1 /\ (Len(s) - i + 1) % 3 = 0 THEN Append(p[i - 1], Comma) ELSE p[i - 1], s[i])
    BY <2>4, Zenon DEF More
  <2> QED
    BY <2>3, <2>4, <2>5 DEF n, V

LEMMA WithoutCommasOfNone ==
    WithoutCommas(<<>>) = <<>>
<1>1. <<>> \in Seq(0..13) /\ Len(<<>>) = 0
  OBVIOUS
<1> QED
  BY <1>1, WithoutCommasRuns

LEMMA WithoutCommasAppend ==
    ASSUME NEW s \in Seq(0..13), NEW c \in 0..13
    PROVE  /\ WithoutCommas(s) \in Seq(0..13)
           /\ WithoutCommas(Append(s, c)) = IF c = Comma THEN WithoutCommas(s) ELSE Append(WithoutCommas(s), c)
<1> DEFINE n == Len(s)
           a == Append(s, c)
           More(x, d) == IF d = Comma THEN x ELSE Append(x, d)
<1>1. n \in Nat /\ a \in Seq(0..13) /\ Len(a) = n + 1 /\ (\A i \in 1..n : a[i] = s[i]) /\ a[n + 1] = c
  BY AppendIs
<1> HIDE DEF a, n
<1>2. PICK p \in [0..n -> Seq(0..13)] : /\ p[0] = <<>>
                                        /\ \A i \in 1..n : p[i] = More(p[i - 1], s[i])
                                        /\ WithoutCommas(s) = p[n]
  BY WithoutCommasRuns DEF n
<1>3. PICK q \in [0..n + 1 -> Seq(0..13)] : /\ q[0] = <<>>
                                            /\ \A i \in 1..n + 1 : q[i] = More(q[i - 1], a[i])
                                            /\ WithoutCommas(a) = q[n + 1]
  BY <1>1, WithoutCommasRuns
<1> HIDE DEF More
<1> DEFINE S == {i \in 0..n : q[i] = p[i]}
<1>4. 0 \in S
  BY <1>1, <1>2, <1>3
<1>5. \A i \in 1..n : i - 1 \in S => i \in S
  BY <1>1, <1>2, <1>3
<1>6. 0..n \subseteq S
  <2> HIDE DEF S
  <2> QED
    BY <1>1, <1>4, <1>5, BoundedInduction
<1>7. q[n] = p[n] /\ q[n + 1] = More(q[n], c) /\ p[n] \in Seq(0..13)
  BY <1>1, <1>2, <1>3, <1>6
<1>8. WithoutCommas(s) \in Seq(0..13) /\ WithoutCommas(a) = More(WithoutCommas(s), c)
  BY <1>2, <1>3, <1>7
<1> QED
  BY <1>8, Zenon DEF More, a

LEMMA GroupsOfThree ==
    ASSUME NEW m \in Nat
    PROVE  /\ m \div 3 \in Nat /\ (m + m \div 3) % 4 # 3
           /\ (m + 1) % 3 = 0 => (m + 1) \div 3 = m \div 3 + 1 /\ (m + 1 + m \div 3) % 4 = 3
           /\ (m + 1) % 3 # 0 => (m + 1) \div 3 = m \div 3
OBVIOUS

LEMMA CommaBefore ==
    ASSUME NEW l \in Nat, NEW m \in Nat, (m + 1) % 3 = 0,
           NEW t, t = l + (m + 1) + (m + 1) \div 3
    PROVE  t \in Nat /\ t = (l + 2) + m + m \div 3 /\ (t - (l + 1)) % 4 = 3 /\ (t - (l + 2)) % 4 # 3
<1>1. /\ m \div 3 \in Nat /\ (m + m \div 3) % 4 # 3
      /\ (m + 1) \div 3 = m \div 3 + 1 /\ (m + 1 + m \div 3) % 4 = 3
  BY GroupsOfThree
<1>2. t = (l + 2) + m + m \div 3
  BY <1>1
<1>3. t \in Nat /\ t - (l + 1) = m + 1 + m \div 3 /\ t - (l + 2) = m + m \div 3
  BY <1>1, <1>2
<1> QED
  BY <1>1, <1>2, <1>3

LEMMA NoCommaBefore ==
    ASSUME NEW l \in Nat, NEW m \in Nat, NEW t, t = (l + 1) + m + m \div 3
    PROVE  t \in Nat /\ (t - (l + 1)) % 4 # 3 /\ ((m + 1) % 3 # 0 => t = l + (m + 1) + (m + 1) \div 3)
<1>1. /\ m \div 3 \in Nat /\ (m + m \div 3) % 4 # 3
      /\ (m + 1) % 3 # 0 => (m + 1) \div 3 = m \div 3
  BY GroupsOfThree
<1>2. t \in Nat /\ t - (l + 1) = m + m \div 3
  BY <1>1
<1>3. (m + 1) % 3 # 0 => t = l + (m + 1) + (m + 1) \div 3
  BY <1>1
<1> QED
  BY <1>1, <1>2, <1>3

\* The commas of a text that will be as long as total.
CommasAt(x, total) == \A j \in 1..Len(x) : x[j] = Comma <=> j > 1 /\ (total - j) % 4 = 3

LEMMA CommasAppend ==
    ASSUME NEW x \in Seq(0..13), NEW c \in 0..13, NEW total \in Nat, CommasAt(x, total),
           c = Comma <=> Len(x) + 1 > 1 /\ (total - (Len(x) + 1)) % 4 = 3
    PROVE  CommasAt(Append(x, c), total)
<1>1. /\ Len(x) \in Nat /\ Len(Append(x, c)) = Len(x) + 1
      /\ (\A j \in 1..Len(x) : Append(x, c)[j] = x[j]) /\ Append(x, c)[Len(x) + 1] = c
  BY AppendIs
<1> SUFFICES ASSUME NEW j \in 1..Len(x) + 1
             PROVE  Append(x, c)[j] = Comma <=> j > 1 /\ (total - j) % 4 = 3
  BY <1>1 DEF CommasAt
<1>2. CASE j \in 1..Len(x)
  BY <1>1, <1>2 DEF CommasAt
<1>3. CASE j = Len(x) + 1
  BY <1>1, <1>3
<1> QED
  BY <1>1, <1>2, <1>3

\* The commas of the whole part are the only thing that is added to it.
LEMMA GroupedIs ==
    ASSUME NEW s \in Seq(0..9)
    PROVE  /\ Grouped(s) \in Seq(0..13)
           /\ WithoutCommas(Grouped(s)) = s
           /\ CommasAt(Grouped(s), Len(Grouped(s)))
<1> DEFINE n == Len(s)
<1>1. n \in Nat /\ SubSeq(s, 1, 0) = <<>> /\ SubSeq(s, 1, n) = s
  OBVIOUS
<1>2. PICK p \in [0..n -> Seq(0..13)] :
         /\ p[0] = <<>>
         /\ \A i \in 1..n :
               p[i] = Append(IF i > 1 /\ (n - i + 1) % 3 = 0 THEN Append(p[i - 1], Comma) ELSE p[i - 1], s[i])
         /\ Grouped(s) = p[n]
  BY GroupedRuns
<1> DEFINE Total(i) == Len(p[i]) + (n - i) + (n - i) \div 3
           Good(i) == /\ WithoutCommas(p[i]) = SubSeq(s, 1, i)
                      /\ i > 0 => Len(p[i]) > 0
                      /\ CommasAt(p[i], Total(i))
           S == {i \in 0..n : Good(i)}
<1> HIDE DEF n
<1>3. 0 \in S
  <2>1. Len(<<>>) = 0
    OBVIOUS
  <2> QED
    BY <1>1, <1>2, <2>1, WithoutCommasOfNone DEF CommasAt
<1>4. ASSUME NEW i \in 1..n, Good(i - 1) PROVE Good(i)
  <2> DEFINE x == p[i - 1]
             m == n - i
             l == Len(x)
  <2>1. /\ x \in Seq(0..13) /\ l \in Nat /\ m \in Nat
        /\ i - 1 \in 0..n /\ i \in Nat /\ n - (i - 1) = m + 1 /\ n - i + 1 = m + 1
    <3>1. i - 1 \in 0..n /\ i \in Nat /\ m \in Nat /\ n - (i - 1) = m + 1 /\ n - i + 1 = m + 1
      BY <1>1
    <3>2. x \in Seq(0..13)
      BY <1>2, <3>1
    <3>3. l \in Nat
      BY <3>2
    <3> QED
      BY <3>1, <3>2, <3>3
  <2>2. s[i] \in 0..9 /\ s[i] \in 0..13 /\ s[i] # Comma /\ Comma \in 0..13
    BY DEF n, Comma
  <2>3. Append(SubSeq(s, 1, i - 1), s[i]) = SubSeq(s, 1, i)
    BY DEF n
  <2>4. /\ WithoutCommas(x) = SubSeq(s, 1, i - 1)
        /\ i > 1 => l > 0
        /\ CommasAt(x, l + (m + 1) + (m + 1) \div 3)
    BY <1>4, <2>1
  <2>5. p[i] = Append(IF i > 1 /\ (m + 1) % 3 = 0 THEN Append(x, Comma) ELSE x, s[i])
    BY <1>2, <2>1
  <2> HIDE DEF x, m
  <2>6. CASE i > 1 /\ (m + 1) % 3 = 0
    <3> DEFINE z == Append(x, Comma)
               t == l + (m + 1) + (m + 1) \div 3
    <3>1. z \in Seq(0..13) /\ Len(z) = l + 1 /\ WithoutCommas(z) = WithoutCommas(x)
      <4>1. z \in Seq(0..13) /\ Len(z) = l + 1
        BY <2>1, <2>2, AppendIs
      <4>2. WithoutCommas(z) = WithoutCommas(x)
        BY <2>1, <2>2, WithoutCommasAppend
      <4> QED
        BY <4>1, <4>2
    <3>2. p[i] = Append(z, s[i])
      BY <2>5, <2>6
    <3>3. t \in Nat /\ t = (l + 2) + m + m \div 3 /\ (t - (l + 1)) % 4 = 3 /\ (t - (l + 2)) % 4 # 3
      BY <2>1, <2>6, CommaBefore
    <3> HIDE DEF t
    <3>4. CommasAt(x, t)
      BY <2>4 DEF t
    <3>5. CommasAt(z, t)
      <4>1. Comma = Comma <=> l + 1 > 1 /\ (t - (l + 1)) % 4 = 3
        BY <2>1, <2>4, <2>6, <3>3
      <4> QED
        BY <2>1, <2>2, <3>3, <3>4, <4>1, CommasAppend
    <3> HIDE DEF z
    <3>6. CommasAt(Append(z, s[i]), t)
      <4>1. Len(z) + 1 = l + 2
        BY <2>1, <3>1
      <4> QED
        BY <2>2, <3>1, <3>3, <3>5, <4>1, CommasAppend
    <3>7. Len(p[i]) = l + 2 /\ WithoutCommas(p[i]) = Append(WithoutCommas(x), s[i])
      <4>1. Len(Append(z, s[i])) = (l + 1) + 1 /\ (l + 1) + 1 = l + 2
        BY <2>1, <2>2, <3>1, AppendIs
      <4>2. WithoutCommas(Append(z, s[i])) = Append(WithoutCommas(z), s[i])
        BY <2>2, <3>1, WithoutCommasAppend
      <4> QED
        BY <3>1, <3>2, <4>1, <4>2
    <3>8. Total(i) = t
      BY <3>3, <3>7 DEF m
    <3> HIDE DEF Total
    <3> QED
      BY <2>1, <2>3, <2>4, <3>2, <3>6, <3>7, <3>8
  <2>7. CASE ~(i > 1 /\ (m + 1) % 3 = 0)
    <3> DEFINE t == (l + 1) + m + m \div 3
    <3>1. p[i] = Append(x, s[i])
      BY <2>5, <2>7
    <3>2. t \in Nat /\ (t - (l + 1)) % 4 # 3 /\ (i > 1 => t = l + (m + 1) + (m + 1) \div 3)
      BY <2>1, <2>7, NoCommaBefore
    <3> HIDE DEF t
    <3>3. CommasAt(x, t)
      <4>1. CASE i > 1
        BY <2>4, <3>2, <4>1
      <4>2. CASE i = 1
        <5>1. x = <<>>
          BY <1>2, <4>2 DEF x
        <5> QED
          BY <5>1 DEF CommasAt
      <4> QED
        BY <2>1, <4>1, <4>2
    <3>4. CommasAt(Append(x, s[i]), t)
      BY <2>1, <2>2, <3>2, <3>3, CommasAppend
    <3>5. Len(p[i]) = l + 1 /\ WithoutCommas(p[i]) = Append(WithoutCommas(x), s[i])
      <4>1. Len(Append(x, s[i])) = l + 1
        BY <2>1, <2>2, AppendIs
      <4>2. WithoutCommas(Append(x, s[i])) = Append(WithoutCommas(x), s[i])
        BY <2>1, <2>2, WithoutCommasAppend
      <4> QED
        BY <3>1, <4>1, <4>2
    <3>6. Total(i) = t
      BY <3>5 DEF m, t
    <3> HIDE DEF Total
    <3> QED
      BY <2>1, <2>3, <2>4, <3>1, <3>4, <3>5, <3>6
  <2> QED
    BY <2>6, <2>7
<1>5. 0..n \subseteq S
  <2> HIDE DEF Good
  <2>1. \A i \in 1..n : i - 1 \in S => i \in S
    BY <1>4
  <2> HIDE DEF S
  <2> QED
    BY <1>1, <1>3, <2>1, BoundedInduction
<1>6. Good(n)
  <2> HIDE DEF Good
  <2> QED
    BY <1>1, <1>5
<1>7. p[n] \in Seq(0..13) /\ Total(n) = Len(p[n])
  BY <1>1, <1>2
<1> QED
  BY <1>1, <1>2, <1>6, <1>7

-----------------------------------------------------------------------------
(* What is shown: the fraction, sent, padded and cut.                      *)

LEMMA UpToIs ==
    ASSUME NEW f \in Seq(0..9), NEW n \in Nat
    PROVE  /\ UpTo(f, n) \in Seq(0..9)
           /\ Len(UpTo(f, n)) = IF Len(f) < n THEN Len(f) ELSE n
           /\ \A i \in 1..Len(UpTo(f, n)) : UpTo(f, n)[i] = f[i]
<1> DEFINE k == IF Len(f) < n THEN Len(f) ELSE n
<1>1. Len(f) \in Nat /\ k \in 0..Len(f)
  OBVIOUS
<1>2. UpTo(f, n) = SubSeq(f, 1, k)
  BY DEF UpTo
<1> HIDE DEF k
<1>3. 1 \in 1..Len(f) + 1 /\ k \in 1 - 1..Len(f) /\ k - 1 + 1 = k
  BY <1>1
<1>4. SubSeq(f, 1, k) \in Seq(0..9) /\ Len(SubSeq(f, 1, k)) = k /\ \A i \in 1..k : SubSeq(f, 1, k)[i] = f[i]
  BY <1>1, <1>3
<1> QED
  BY <1>2, <1>4 DEF k

Rest(f) == SubSeq(f, 3, Len(f))

LEMMA RestIs ==
    ASSUME NEW f \in Seq(0..9)
    PROVE  /\ Rest(f) \in Seq(0..9)
           /\ Len(Rest(f)) = IF Len(f) < 2 THEN 0 ELSE Len(f) - 2
           /\ \A i \in 1..Len(Rest(f)) : Rest(f)[i] = f[i + 2]
BY DEF Rest

\* A prefix: what is put together from the first places and the ones after.
LEMMA PrefixIs ==
    ASSUME NEW a \in Seq(0..9), NEW f \in Seq(0..9), Len(a) <= Len(f), \A i \in 1..Len(a) : a[i] = f[i]
    PROVE  IsPrefix(a, f) /\ (a = f <=> Len(a) = Len(f))
<1>1. SubSeq(a, 1, Len(a)) = SubSeq(f, 1, Len(a))
  OBVIOUS
<1>2. Len(a) = Len(f) => a = f
  BY SameSequence
<1> QED
  BY <1>1, <1>2 DEF IsPrefix

LEMMA ConcatIs ==
    ASSUME NEW s \in Seq(0..13), NEW t \in Seq(0..13)
    PROVE  /\ s \o t \in Seq(0..13) /\ Len(s \o t) = Len(s) + Len(t)
           /\ \A i \in 1..Len(s) : (s \o t)[i] = s[i]
           /\ \A j \in 1..Len(t) : (s \o t)[Len(s) + j] = t[j]
OBVIOUS

LEMMA ConcatOfDigits ==
    ASSUME NEW s \in Seq(0..9), NEW t \in Seq(0..9)
    PROVE  /\ s \o t \in Seq(0..9) /\ Len(s \o t) = Len(s) + Len(t)
           /\ \A i \in 1..Len(s) : (s \o t)[i] = s[i]
           /\ \A j \in 1..Len(t) : (s \o t)[Len(s) + j] = t[j]
OBVIOUS

LEMMA PutTogether ==
    ASSUME NEW f \in Seq(0..9), NEW s \in Seq(0..9), NEW t \in Seq(0..9), Len(s) + Len(t) <= Len(f),
           \A i \in 1..Len(s) : s[i] = f[i], \A j \in 1..Len(t) : t[j] = f[Len(s) + j]
    PROVE  IsPrefix(s \o t, f) /\ (s \o t = f <=> Len(s) + Len(t) = Len(f))
<1> DEFINE a == s \o t
<1>1. /\ a \in Seq(0..9) /\ Len(a) = Len(s) + Len(t)
      /\ \A i \in 1..Len(s) : a[i] = s[i]
      /\ \A j \in 1..Len(t) : a[Len(s) + j] = t[j]
  BY ConcatOfDigits
<1> HIDE DEF a
<1>2. Len(s) \in Nat /\ Len(t) \in Nat /\ Len(f) \in Nat
  OBVIOUS
<1>3. ASSUME NEW i \in 1..Len(a) PROVE a[i] = f[i]
  <2>1. i \in Int /\ 1 <= i /\ i <= Len(s) + Len(t)
    BY <1>1, <1>2
  <2>2. CASE i <= Len(s)
    <3>1. i \in 1..Len(s)
      BY <1>2, <2>1, <2>2
    <3> QED
      BY <1>1, <3>1
  <2>3. CASE ~(i <= Len(s))
    <3> DEFINE j == i - Len(s)
    <3>1. j \in 1..Len(t) /\ Len(s) + j = i
      BY <1>2, <2>1, <2>3
    <3> HIDE DEF j
    <3>2. a[Len(s) + j] = t[j] /\ t[j] = f[Len(s) + j]
      BY <1>1, <3>1
    <3> QED
      BY <3>1, <3>2
  <2> QED
    BY <2>2, <2>3
<1>4. IsPrefix(a, f) /\ (a = f <=> Len(a) = Len(f))
  BY <1>1, <1>3, PrefixIs
<1> QED
  BY <1>1, <1>4 DEF a

\* The tail that is marked: it ends in an ellipsis, and what is kept is short.
LEMMA MarkedIs ==
    ASSUME NEW u \in Seq(0..9), NEW tail, tail = u \o <<Ellipsis>>
    PROVE  /\ tail # <<>> /\ Last(tail) = Ellipsis /\ Front(tail) = u /\ Len(tail) = Len(u) + 1
<1> DEFINE e == <<Ellipsis>>
<1>1. u \in Seq(0..13) /\ e \in Seq(0..13) /\ Len(e) = 1 /\ e[1] = Ellipsis
  BY DEF Ellipsis
<1> HIDE DEF e
<1>2. Len(u) \in Nat /\ Len(u) + 1 - 1 = Len(u)
  OBVIOUS
<1>3. tail \in Seq(0..13) /\ Len(tail) = Len(u) + 1 /\ \A i \in 1..Len(u) : tail[i] = u[i]
  BY <1>1, ConcatIs DEF e
<1>4. tail[Len(u) + 1] = Ellipsis
  <2>1. 1 \in 1..Len(e)
    BY <1>1
  <2>2. (u \o e)[Len(u) + 1] = e[1]
    BY <1>1, <2>1, ConcatIs
  <2> QED
    BY <1>1, <2>2 DEF e
<1>5. SubSeq(tail, 1, Len(u)) \in Seq(0..13) /\ Len(SubSeq(tail, 1, Len(u))) = Len(u)
      /\ \A i \in 1..Len(u) : SubSeq(tail, 1, Len(u))[i] = tail[i]
  <2>1. Len(u) \in 0..Len(tail)
    BY <1>2, <1>3
  <2> QED
    BY <1>2, <1>3, <2>1
<1>6. SubSeq(tail, 1, Len(u)) = u
  BY <1>1, <1>3, <1>5, SameSequence
<1>7. tail # <<>>
  BY <1>2, <1>3
<1>8. Last(tail) = Ellipsis
  BY <1>3, <1>4 DEF Last
<1>9. Front(tail) = u
  BY <1>2, <1>3, <1>6 DEF Front
<1> QED
  BY <1>3, <1>7, <1>8, <1>9

LEMMA TailIs ==
    ASSUME NEW f \in Seq(0..9), NEW tail,
           tail = IF Len(Rest(f)) > TailFit THEN UpTo(Rest(f), TailFit - 1) \o <<Ellipsis>> ELSE Rest(f)
    PROVE  LET sent == UpTo(f, 2)
               marked == tail # <<>> /\ Last(tail) = Ellipsis
               kept == IF marked THEN Front(tail) ELSE tail
           IN  /\ Len(sent) \in 0..2
               /\ IsPrefix(sent \o kept, f)
               /\ marked <=> sent \o kept # f
               /\ Len(tail) <= TailFit
<1> DEFINE sent == UpTo(f, 2)
           rest == Rest(f)
           marked == tail # <<>> /\ Last(tail) = Ellipsis
           kept == IF marked THEN Front(tail) ELSE tail
           n == Len(f)
<1>1. TailFit \in Nat \ {0} /\ TailFit - 1 \in Nat /\ n \in Nat
  BY AmountsAssumption DEF AmountsAssumption
<1>2. /\ sent \in Seq(0..9) /\ Len(sent) = (IF n < 2 THEN n ELSE 2)
      /\ \A i \in 1..Len(sent) : sent[i] = f[i]
  BY UpToIs
<1>3. /\ rest \in Seq(0..9) /\ Len(rest) = (IF n < 2 THEN 0 ELSE n - 2)
      /\ \A i \in 1..Len(rest) : rest[i] = f[i + 2]
  BY RestIs
<1> HIDE DEF sent, rest, n
<1>4. Len(sent) \in 0..2
  BY <1>1, <1>2
<1>5. CASE Len(rest) > TailFit
  <2> DEFINE u == UpTo(rest, TailFit - 1)
  <2>1. /\ u \in Seq(0..9)
        /\ Len(u) = (IF Len(rest) < TailFit - 1 THEN Len(rest) ELSE TailFit - 1)
        /\ \A i \in 1..Len(u) : u[i] = rest[i]
    BY <1>1, <1>3, UpToIs
  <2>2. tail = u \o <<Ellipsis>>
    BY <1>5 DEF rest
  <2> HIDE DEF u
  <2>3. n > 2 + TailFit /\ Len(sent) = 2 /\ Len(u) = TailFit - 1 /\ Len(u) <= Len(rest)
    BY <1>1, <1>2, <1>3, <1>5, <2>1
  <2>4. tail # <<>> /\ Last(tail) = Ellipsis /\ Front(tail) = u /\ Len(tail) = Len(u) + 1
    BY <2>1, <2>2, MarkedIs
  <2>5. marked /\ kept = u
    BY <2>4
  <2>6. Len(tail) <= TailFit
    BY <1>1, <2>3, <2>4
  <2>7. ASSUME NEW j \in 1..Len(u) PROVE u[j] = f[Len(sent) + j]
    <3>1. j \in 1..Len(rest) /\ j + 2 = Len(sent) + j
      BY <1>1, <1>3, <2>3
    <3>2. u[j] = rest[j] /\ rest[j] = f[j + 2]
      BY <1>3, <2>1, <3>1
    <3> QED
      BY <3>1, <3>2
  <2>8. Len(sent) + Len(u) <= n /\ Len(sent) + Len(u) # n
    BY <1>1, <2>3
  <2>9. IsPrefix(sent \o u, f) /\ sent \o u # f
    BY <1>2, <2>1, <2>7, <2>8, PutTogether DEF n
  <2> HIDE DEF marked, kept
  <2> QED
    BY <1>4, <2>5, <2>6, <2>9 DEF marked, kept, sent
<1>6. CASE ~(Len(rest) > TailFit)
  <2>1. tail = rest
    BY <1>6 DEF rest
  <2>2. ~marked
    <3> SUFFICES ASSUME rest # <<>> PROVE rest[Len(rest)] # Ellipsis
      BY <2>1 DEF Last
    <3>1. rest[Len(rest)] \in 0..9
      BY <1>3
    <3> QED
      BY <3>1 DEF Ellipsis
  <2>3. kept = rest
    BY <2>1, <2>2
  <2>4. Len(sent) + Len(rest) = n
    BY <1>1, <1>2, <1>3
  <2>5. ASSUME NEW j \in 1..Len(rest) PROVE rest[j] = f[Len(sent) + j]
    <3>1. j + 2 = Len(sent) + j
      BY <1>1, <1>2, <1>3
    <3> QED
      BY <1>3, <3>1
  <2>6. IsPrefix(sent \o rest, f) /\ sent \o rest = f
    <3>1. \A i \in 1..Len(sent) : sent[i] = f[i]
      BY <1>2
    <3>2. Len(sent) + Len(rest) = Len(f) /\ Len(sent) + Len(rest) <= Len(f)
      BY <1>1, <2>4 DEF n
    <3>3. sent \in Seq(0..9) /\ rest \in Seq(0..9)
      BY <1>2, <1>3
    <3> QED
      BY <2>5, <3>1, <3>2, <3>3, PutTogether
  <2>7. Len(tail) <= TailFit
    BY <1>1, <1>3, <1>6, <2>1
  <2> HIDE DEF marked, kept
  <2> QED
    BY <1>4, <2>2, <2>3, <2>6, <2>7 DEF marked, kept, sent
<1> QED
  BY <1>5, <1>6

-----------------------------------------------------------------------------
(* What the helpers promise, for every text and every double.              *)

\* app.js:318-323: two texts have the same normal form just when they spell the
\* same number.
THEOREM OneNormalForm ==
    ASSUME NEW s \in Seq(0..13), PlainDecimal(s), Len(Fraction(s)) <= Places,
           NEW t \in Seq(0..13), PlainDecimal(t), Len(Fraction(t)) <= Places
    PROVE  NormalizeDecimal(s) = NormalizeDecimal(t) <=> Value(s) = Value(t)
<1>1. /\ Value(s) \in Nat /\ NormalizeDecimal(s) = Decimal(Value(s))
      /\ Value(t) \in Nat /\ NormalizeDecimal(t) = Decimal(Value(t))
  BY NormalizeIsDecimal
<1> QED
  BY <1>1, DecimalInjective

\* app.js:339-341, validation.ts:137: the text that is stored for a double is read
\* as that double again.
THEOREM RoundTrip ==
    ASSUME NEW d \in Doubles
    PROVE  Nearest(Shortest[d]) = d
BY ShortestIs

-----------------------------------------------------------------------------
(* Every step keeps what is known of the field, the request and the row.   *)

Symbols == Digits \cup {Dot, Sign}

\* The inductive invariant. What was sent passed the check of this very text,
\* and the address was tried as it is sent.
IInv ==
    /\ TypeOK
    /\ Len(Fraction(text)) <= Places
    /\ stage = "refused" => ~Validate(text)
    /\ stage = "sent" => /\ Validate(text)
                         /\ amount = Nearest(Value(text))
                         /\ dest.address = [form |-> dest.network, blanks |-> FALSE]
    /\ stage # "rejected"
    /\ stage = "stored" => amount = Value(text)

LEMMA TextIs ==
    ASSUME NEW s
    PROVE  s \in BoundedSeq(Symbols, MaxLength) <=> s \in Seq(Symbols) /\ Len(s) <= MaxLength
<1>1. MaxLength \in Nat
  BY AmountsAssumption DEF AmountsAssumption
<1>2. s \in BoundedSeq(Symbols, MaxLength) <=> \E m \in 0..MaxLength : s \in [1..m -> Symbols]
  BY DEF BoundedSeq, SeqOf
<1>3. ASSUME NEW m \in 0..MaxLength, s \in [1..m -> Symbols]
      PROVE  s \in Seq(Symbols) /\ Len(s) = m
  BY <1>1, <1>3
<1>4. ASSUME s \in Seq(Symbols), Len(s) <= MaxLength
      PROVE  s \in [1..Len(s) -> Symbols] /\ Len(s) \in 0..MaxLength
  BY <1>1, <1>4
<1> QED
  BY <1>1, <1>2, <1>3, <1>4

LEMMA TextSymbols ==
    Symbols \subseteq 0..13
BY AmountsAssumption DEF AmountsAssumption, Symbols, Dot, Sign

LEMMA TextOfType ==
    ASSUME TypeOK
    PROVE  text \in Seq(0..13) /\ text \in Seq(Symbols)
<1>1. text \in BoundedSeq(Symbols, MaxLength)
  BY DEF TypeOK, Symbols
<1>2. text \in Seq(Symbols)
  BY <1>1, TextIs
<1>3. text \in Seq(0..13)
  BY <1>2, TextSymbols, WiderSequence
<1> QED
  BY <1>2, <1>3

LEMMA InitIInv ==
    Init => IInv
<1> SUFFICES ASSUME Init PROVE IInv
  OBVIOUS
<1>1. text = <<>> /\ <<>> \in Seq(Symbols) /\ Len(<<>>) = 0 /\ MaxLength \in Nat
  BY AmountsAssumption DEF AmountsAssumption, Init
<1>2. text \in BoundedSeq(Symbols, MaxLength)
  <2>1. <<>> \in Seq(Symbols) /\ Len(<<>>) <= MaxLength
    BY <1>1
  <2>2. <<>> \in BoundedSeq(Symbols, MaxLength)
    BY <2>1, TextIs, Zenon
  <2> QED
    BY <1>1, <2>2
<1>3. TypeOK
  BY <1>2 DEF Init, TypeOK, Symbols
<1>4. Fraction(text) = <<>>
  <2>1. text \in Seq(0..13) /\ \A i \in 1..Len(text) : text[i] # Dot
    BY <1>1
  <2> QED
    BY <2>1, HalvesOfWhole
<1>5. Len(Fraction(text)) <= Places
  BY <1>4, PlacesNat
<1> QED
  BY <1>3, <1>5 DEF Init, IInv

LEMMA TypeIInv ==
    ASSUME IInv, NEW c \in Digits \cup {Dot, Sign}, Type(c)
    PROVE  IInv'
<1>1. text' = Append(text, c) /\ Len(text') <= MaxLength /\ Len(Fraction(text')) <= Places
  BY DEF Type, Typed
<1>2. text \in Seq(Symbols) /\ c \in Symbols
  BY TextOfType DEF IInv, Symbols
<1>3. text' \in BoundedSeq(Symbols, MaxLength)
  <2>1. text' \in Seq(Symbols)
    BY <1>1, <1>2, AppendIs
  <2> QED
    BY <1>1, <2>1, TextIs, Zenon
<1>4. stage' = "typing" /\ amount' = amount /\ dest' = dest
  BY DEF Type
<1>5. TypeOK'
  BY <1>3, <1>4 DEF IInv, TypeOK, Symbols
<1> QED
  BY <1>1, <1>4, <1>5 DEF IInv

LEMMA SubmitIInv ==
    ASSUME IInv, Submit
    PROVE  IInv'
<1>1. TypeOK /\ text \in Seq(0..13) /\ Len(Fraction(text)) <= Places /\ text' = text
  BY TextOfType DEF IInv, Submit
<1>2. CASE ~Validate(text) /\ stage' = "refused" /\ UNCHANGED <<amount, dest>>
  <2>1. TypeOK'
    BY <1>1, <1>2 DEF TypeOK
  <2> QED
    BY <1>1, <1>2, <2>1 DEF IInv
<1>3. ASSUME Validate(text), NEW d \in Dests, Trimmed(d.address).form = d.network, stage' = "sent",
             amount' = Nearest(Value(text)), dest' = [d EXCEPT !.address = Trimmed(d.address)]
      PROVE  IInv'
  <2>1. amount' \in Nat
    BY <1>1, <1>3, ValidateIsExact
  <2>2. /\ dest' \in Dests
        /\ dest'.address = [form |-> dest'.network, blanks |-> FALSE]
    BY <1>3 DEF Dests, Addresses, Trimmed
  <2>3. TypeOK'
    BY <1>1, <1>3, <2>1, <2>2 DEF TypeOK
  <2> QED
    BY <1>1, <1>3, <2>2, <2>3 DEF IInv
<1>4. CASE Validate(text) /\ stage' = "misaddressed" /\ UNCHANGED <<amount, dest>>
  <2>1. TypeOK'
    BY <1>1, <1>4 DEF TypeOK
  <2> QED
    BY <1>1, <1>4, <2>1 DEF IInv
<1> QED
  BY <1>2, <1>3, <1>4 DEF Submit

LEMMA ParseIInv ==
    ASSUME IInv, Parse
    PROVE  IInv'
<1>1. /\ TypeOK /\ text \in Seq(0..13) /\ Len(Fraction(text)) <= Places
      /\ stage = "sent" /\ Validate(text) /\ amount = Nearest(Value(text))
      /\ dest.address = [form |-> dest.network, blanks |-> FALSE]
      /\ text' = text /\ dest' = dest
  BY TextOfType DEF IInv, Parse
<1>2. Value(text) \in Nat /\ amount \in Nat \ {0} /\ Shortest[amount] = Value(text)
  BY <1>1, ValidateIsExact
<1>3. amount # Infinite /\ amount > 0
  BY <1>2 DEF Infinite
<1>4. stage' = "stored" /\ amount' = Value(text)
  BY <1>1, <1>2, <1>3 DEF Parse
<1>5. TypeOK'
  BY <1>1, <1>2, <1>4 DEF TypeOK
<1> QED
  BY <1>1, <1>4, <1>5 DEF IInv

LEMMA StepIInv ==
    IInv /\ [Next]_vars => IInv'
<1> SUFFICES ASSUME IInv, [Next]_vars PROVE IInv'
  OBVIOUS
<1>1. ASSUME NEW c \in Digits \cup {Dot, Sign}, Type(c) PROVE IInv'
  BY <1>1, TypeIInv
<1>2. CASE Submit
  BY <1>2, SubmitIInv
<1>3. CASE Parse
  BY <1>3, ParseIInv
<1>4. CASE UNCHANGED vars
  <2>1. text' = text /\ stage' = stage /\ amount' = amount /\ dest' = dest
    BY <1>4 DEF vars
  <2> QED
    BY <2>1 DEF IInv, TypeOK
<1> QED
  BY <1>1, <1>2, <1>3, <1>4 DEF Next

\* What was sent passed the check of the text in the field, and is what is stored.
THEOREM Invariance == Spec => []IInv
<1>1. Init => IInv
  BY InitIInv
<1>2. IInv /\ [Next]_vars => IInv'
  BY StepIInv
<1> QED
  BY <1>1, <1>2, PTL DEF Spec

-----------------------------------------------------------------------------
(* The properties.                                                         *)

\* Every variable keeps its type: what is sent is a number, never infinity.
THEOREM TypeCorrect == Spec => []TypeOK
<1>1. IInv => TypeOK
  BY DEF IInv
<1> QED
  BY <1>1, Invariance, PTL

\* The row holds exactly the number that was typed: doubles have too few digits
\* for most texts, and those validate() refuses.
THEOREM StoredExactly == Spec => []StoredIsTyped
<1>1. IInv => StoredIsTyped
  BY DEF IInv, StoredIsTyped
<1> QED
  BY <1>1, Invariance, PTL

\* The server rejects nothing the page has let through.
THEOREM CaughtByThePage == Spec => []CaughtHereFirst
<1>1. IInv => CaughtHereFirst
  BY DEF IInv, CaughtHereFirst
<1> QED
  BY <1>1, Invariance, PTL

\* The page refuses no number that a double holds and asPlainDecimal writes.
THEOREM ExactNumbersAreSent == Spec => []ExactIsSent
<1>1. IInv => ExactIsSent
  <2> SUFFICES ASSUME IInv, stage = "refused", PlainDecimal(text), Value(text) > 0,
                      Nearest(Value(text)) # Infinite,
                      Shortest[Nearest(Value(text))] = Value(text),
                      Value(text) % LastUnit = 0
               PROVE  FALSE
    BY DEF ExactIsSent, LastUnit
  <2>1. text \in Seq(0..13) /\ Len(Fraction(text)) <= Places /\ ~Validate(text)
    BY TextOfType DEF IInv
  <2> QED
    BY <2>1, ExactIsValid
<1> QED
  BY <1>1, Invariance, PTL

\* Two spellings have one normal form just when they are one number.
THEOREM NormalFormIsTheNumber == Spec => []NormalForm
<1>1. IInv => NormalForm
  <2> SUFFICES ASSUME IInv, PlainDecimal(text)
               PROVE  NormalizeDecimal(text) = Decimal(Value(text))
    BY DEF NormalForm
  <2>1. text \in Seq(0..13) /\ Len(Fraction(text)) <= Places
    BY TextOfType DEF IInv
  <2> QED
    BY <2>1, NormalizeIsDecimal
<1> QED
  BY <1>1, Invariance, PTL

\* Of what the server sent no digit is changed, added unseen or left out
\* unmarked, and the commas stand before whole groups of three.
THEOREM DigitsShownTruly == Spec => []ShownTruly
<1>1. IInv => ShownTruly
  <2> SUFFICES ASSUME IInv, PlainDecimal(text), Whole(text) # <<>>
               PROVE  ShownTruly
    BY DEF ShownTruly
  <2> DEFINE w == Whole(text)
             f == Fraction(text)
             shown == SplitAmount(text)
             marked == shown.tail # <<>> /\ Last(shown.tail) = Ellipsis
             tail == IF marked THEN Front(shown.tail) ELSE shown.tail
  <2>1. w \in Seq(0..9) /\ f \in Seq(0..9)
    BY TextOfType, HalvesOfPlain DEF IInv
  <2>2. /\ shown.int = Grouped(w) /\ shown.sent = UpTo(f, 2)
        /\ shown.pad = [i \in 1..2 - Len(UpTo(f, 2)) |-> 0]
        /\ shown.tail = IF Len(Rest(f)) > TailFit THEN UpTo(Rest(f), TailFit - 1) \o <<Ellipsis>> ELSE Rest(f)
    BY DEF SplitAmount, Rest
  <2> HIDE DEF w, f, shown
  <2>3. Grouped(w) \in Seq(0..13) /\ WithoutCommas(Grouped(w)) = w /\ CommasAt(Grouped(w), Len(Grouped(w)))
    BY <2>1, GroupedIs
  <2>4. \A i \in DOMAIN shown.int :
           shown.int[i] = Comma <=> i > 1 /\ (Len(shown.int) - i) % 4 = 3
    BY <2>2, <2>3 DEF CommasAt
  <2>5. /\ Len(UpTo(f, 2)) \in 0..2
        /\ IsPrefix(shown.sent \o tail, f)
        /\ marked <=> shown.sent \o tail # f
        /\ Len(shown.tail) <= TailFit
    BY <2>1, <2>2, TailIs
  <2>6. Len(shown.sent) + Len(shown.pad) = 2
    <3> DEFINE k == 2 - Len(UpTo(f, 2))
    <3>1. shown.pad = [i \in 1..k |-> 0]
      BY <2>2, Zenon
    <3>2. k \in Nat /\ Len(UpTo(f, 2)) + k = 2
      <4> DEFINE l == Len(UpTo(f, 2))
      <4>1. l \in 0..2 /\ k = 2 - l
        BY <2>5, Zenon
      <4> HIDE DEF l, k
      <4>2. k \in Nat /\ l + k = 2
        BY <4>1
      <4> QED
        BY <4>2, Zenon DEF l
    <3> HIDE DEF k
    <3>3. Len(shown.pad) = k
      BY <3>1, <3>2
    <3> QED
      BY <2>2, <3>2, <3>3
  <2> QED
    BY <2>2, <2>3, <2>4, <2>5, <2>6 DEF ShownTruly, shown, w, f
<1> QED
  BY <1>1, Invariance, PTL
=============================================================================
