-------------------------- MODULE HostViewsProofs ---------------------------
(***************************************************************************)
(* What the views show, in every state of a store of any size, and that    *)
(* exports are read back as they were.  The first parts say what the       *)
(* helpers on lists return: sorting, picking, mapping.                     *)
(***************************************************************************)
EXTENDS WebExports, TLAPS, FiniteSetTheorems, SequenceTheorems

-----------------------------------------------------------------------------
(***************************************************************************)
(* Finite sets in a strict order: the places Arranged gives the elements.  *)
(***************************************************************************)
Orders(R, S) ==
  /\ IsFiniteSet(S)
  /\ \A x \in S : <<x, x>> \notin R
  /\ \A x, y \in S : x # y => <<x, y>> \in R \/ <<y, x>> \in R
  /\ \A x, y, z \in S : <<x, y>> \in R /\ <<y, z>> \in R => <<x, z>> \in R

Below(S, R, x) == {y \in S : <<y, x>> \in R}

LEMMA BelowIsSmaller ==
  ASSUME NEW S, NEW R, Orders(R, S), NEW x \in S
  PROVE  IsFiniteSet(Below(S, R, x)) /\ Cardinality(Below(S, R, x)) \in 0..(Cardinality(S) - 1)
<1>1. IsFiniteSet(S) /\ Below(S, R, x) \in SUBSET S /\ Below(S, R, x) # S
  BY DEF Below, Orders
<1>2. /\ IsFiniteSet(Below(S, R, x))
      /\ Cardinality(Below(S, R, x)) <= Cardinality(S)
      /\ Cardinality(Below(S, R, x)) # Cardinality(S)
  BY <1>1, FS_Subset
<1>3. Cardinality(S) \in Nat /\ Cardinality(Below(S, R, x)) \in Nat
  BY <1>1, <1>2, FS_CardinalityType
<1> QED BY <1>2, <1>3

LEMMA RanksGrow ==
  ASSUME NEW S, NEW R, Orders(R, S), NEW x \in S, NEW y \in S, <<x, y>> \in R
  PROVE  Cardinality(Below(S, R, x)) < Cardinality(Below(S, R, y))
<1>1. Below(S, R, x) \in SUBSET Below(S, R, y)
  BY DEF Below, Orders
<1>2. x \in Below(S, R, y) /\ x \notin Below(S, R, x)
  BY DEF Below, Orders
<1>3. IsFiniteSet(Below(S, R, y))
  BY BelowIsSmaller
<1>4. /\ Cardinality(Below(S, R, x)) <= Cardinality(Below(S, R, y))
      /\ Cardinality(Below(S, R, x)) # Cardinality(Below(S, R, y))
  BY <1>1, <1>2, <1>3, FS_Subset
<1>5. Cardinality(Below(S, R, x)) \in Int /\ Cardinality(Below(S, R, y)) \in Int
  BY BelowIsSmaller
<1> QED BY <1>4, <1>5

LEMMA RanksAreAll ==
  ASSUME NEW S, NEW R, Orders(R, S), NEW n \in 0..(Cardinality(S) - 1)
  PROVE  \E x \in S : Cardinality(Below(S, R, x)) = n
<1> DEFINE T == 0..(Cardinality(S) - 1)
           rank == [x \in S |-> Cardinality(Below(S, R, x))]
<1>1. IsFiniteSet(S) /\ Cardinality(S) \in Nat
  BY FS_CardinalityType DEF Orders
<1>2. IsFiniteSet(T) /\ Cardinality(T) = Cardinality(S)
  BY <1>1, FS_Interval
<1>3. rank \in [S -> T]
  BY BelowIsSmaller
<1>4. ASSUME NEW x \in S, NEW y \in S, x # y
      PROVE  rank[x] # rank[y]
  <2>1. Cardinality(Below(S, R, x)) \in Int /\ Cardinality(Below(S, R, y)) \in Int
    BY BelowIsSmaller
  <2>2. CASE <<x, y>> \in R
    <3>1. Cardinality(Below(S, R, x)) < Cardinality(Below(S, R, y))
      BY <2>2, RanksGrow
    <3> QED BY <2>1, <3>1
  <2>3. CASE <<y, x>> \in R
    <3>1. Cardinality(Below(S, R, y)) < Cardinality(Below(S, R, x))
      BY <2>3, RanksGrow
    <3> QED BY <2>1, <3>1
  <2> QED BY <1>4, <2>2, <2>3 DEF Orders
<1>5. rank \in Injection(S, T)
  BY <1>3, <1>4 DEF Injection, IsInjective
<1>6. rank \in Surjection(S, T)
  BY <1>1, <1>2, <1>5, FS_Injection
<1>7. PICK x \in S : rank[x] = n
  BY <1>6 DEF Surjection
<1> QED BY <1>7

\* The list of the elements of S in the order R.
IsArranged(t, S, R) ==
  /\ t \in Seq(S) /\ Len(t) = Cardinality(S)
  /\ \A x \in S : \E k \in 1..Cardinality(S) : t[k] = x
  /\ \A k, l \in 1..Cardinality(S) : k < l => <<t[k], t[l]>> \in R

LEMMA RankedIsArranged ==
  ASSUME NEW S, NEW R, Orders(R, S), NEW t \in Seq(S), Len(t) = Cardinality(S),
         \A k \in 1..Cardinality(S) : Cardinality(Below(S, R, t[k])) = k - 1
  PROVE  IsArranged(t, S, R)
<1>1. Cardinality(S) \in Nat /\ \A k \in 1..Cardinality(S) : t[k] \in S
  BY FS_CardinalityType, ElementOfSeq DEF Orders
<1>2. ASSUME NEW x \in S, NEW y \in S, Cardinality(Below(S, R, x)) = Cardinality(Below(S, R, y))
      PROVE  x = y
  <2>1. Cardinality(Below(S, R, x)) \in Int
    BY BelowIsSmaller
  <2>2. CASE <<x, y>> \in R
    <3>1. Cardinality(Below(S, R, x)) < Cardinality(Below(S, R, y))
      BY <2>2, RanksGrow
    <3> QED BY <1>2, <2>1, <3>1
  <2>3. CASE <<y, x>> \in R
    <3>1. Cardinality(Below(S, R, y)) < Cardinality(Below(S, R, x))
      BY <2>3, RanksGrow
    <3> QED BY <1>2, <2>1, <3>1
  <2> QED BY <2>2, <2>3 DEF Orders
<1>3. ASSUME NEW x \in S PROVE \E k \in 1..Cardinality(S) : t[k] = x
  <2> DEFINE k == Cardinality(Below(S, R, x)) + 1
  <2>1. k \in 1..Cardinality(S) /\ k - 1 = Cardinality(Below(S, R, x))
    BY <1>1, BelowIsSmaller
  <2>2. t[k] = x
    BY <1>1, <1>2, <2>1
  <2> QED BY <2>1, <2>2
<1>4. ASSUME NEW k \in 1..Cardinality(S), NEW l \in 1..Cardinality(S), k < l
      PROVE  <<t[k], t[l]>> \in R
  <2>1. t[k] \in S /\ t[l] \in S /\ t[k] # t[l]
    BY <1>1, <1>4
  <2>2. CASE <<t[l], t[k]>> \in R
    <3>1. Cardinality(Below(S, R, t[l])) < Cardinality(Below(S, R, t[k]))
      BY <2>1, <2>2, RanksGrow
    <3>2. l - 1 < k - 1
      BY <3>1
    <3> QED BY <1>4, <3>2
  <2> QED BY <2>1, <2>2 DEF Orders
<1> QED BY <1>3, <1>4 DEF IsArranged

\* SubSeq of all of a list that is written as a function.
LEMMA WholeList ==
  ASSUME NEW S, NEW n \in Nat, NEW f \in [1..n -> S]
  PROVE  SubSeq(f, 1, n) = f /\ f \in Seq(S) /\ Len(f) = n
<1>1. f \in Seq(S) /\ Len(f) = n
  OBVIOUS
<1> QED BY <1>1, SubSeqFull

LEMMA ArrangedIsArranged ==
  ASSUME NEW S, NEW R, Orders(R, S)
  PROVE  IsArranged(Arranged(S, R), S, R)
<1> DEFINE t == [k \in 1 .. Cardinality(S) |->
                   CHOOSE x \in S : Cardinality({y \in S : <<y, x>> \in R}) = k - 1]
<1>1. Cardinality(S) \in Nat
  BY FS_CardinalityType DEF Orders
<1>2. ASSUME NEW k \in 1..Cardinality(S)
      PROVE  t[k] \in S /\ Cardinality(Below(S, R, t[k])) = k - 1
  <2>1. \E x \in S : Cardinality(Below(S, R, x)) = k - 1
    BY <1>1, RanksAreAll
  <2> QED BY <2>1 DEF Below
<1>3. t \in [1..Cardinality(S) -> S]
  BY <1>2
<1> HIDE DEF t
<1>4. Arranged(S, R) = t /\ t \in Seq(S) /\ Len(t) = Cardinality(S)
  BY <1>1, <1>3, WholeList DEF Arranged, t
<1> QED BY <1>2, <1>4, RankedIsArranged

\* Increasing numbers.
Less(S) == {e \in S \X S : e[1] < e[2]}

LEMMA LessOrders ==
  ASSUME NEW S \in SUBSET Int, IsFiniteSet(S)
  PROVE  Orders(Less(S), S)
BY DEF Orders, Less

LEMMA InOrderIsArranged ==
  ASSUME NEW S \in SUBSET Int, IsFiniteSet(S)
  PROVE  IsArranged(InOrder(S), S, Less(S))
<1> DEFINE t == [k \in 1 .. Cardinality(S) |->
                   CHOOSE x \in S : Cardinality({y \in S : y < x}) = k - 1]
<1>1. Cardinality(S) \in Nat /\ Orders(Less(S), S)
  BY FS_CardinalityType, LessOrders
<1>2. \A x \in S : {y \in S : y < x} = Below(S, Less(S), x)
  BY DEF Below, Less
<1>3. ASSUME NEW k \in 1..Cardinality(S)
      PROVE  t[k] \in S /\ Cardinality(Below(S, Less(S), t[k])) = k - 1
  <2> k - 1 \in 0..(Cardinality(S) - 1)
    BY <1>1
  <2> \E x \in S : Cardinality(Below(S, Less(S), x)) = k - 1
    BY <1>1, RanksAreAll
  <2>1. PICK x \in S : Cardinality(Below(S, Less(S), x)) = k - 1
    OBVIOUS
  <2>2. \E z \in S : Cardinality({y \in S : y < z}) = k - 1
    BY <1>2, <2>1
  <2>3. t[k] \in S /\ Cardinality({y \in S : y < t[k]}) = k - 1
    BY <2>2
  <2> HIDE DEF t
  <2> QED BY <1>2, <2>3
<1>4. t \in [1..Cardinality(S) -> S]
  BY <1>3
<1> HIDE DEF t
<1>5. InOrder(S) = t /\ t \in Seq(S) /\ Len(t) = Cardinality(S)
  BY <1>1, <1>4, WholeList DEF InOrder, t
<1> QED BY <1>1, <1>3, <1>5, RankedIsArranged

LEMMA Interval == ASSUME NEW n \in Nat PROVE IsFiniteSet(1..n) /\ Cardinality(1..n) = n
<1>1. IsFiniteSet(1..n) /\ Cardinality(1..n) = IF 1 > n THEN 0 ELSE n - 1 + 1
  BY FS_Interval
<1> QED BY <1>1

\* Induction up to a number: what is left has no least element.
LEMMA UpTo ==
  ASSUME NEW n \in Nat, NEW S, 0 \in S, \A i \in 0..n - 1 : i \in S => i + 1 \in S
  PROVE  0..n \subseteq S
<1> DEFINE T == (0..n) \ S
<1> SUFFICES ASSUME T # {} PROVE FALSE
  OBVIOUS
<1>1. IsFiniteSet(0..n) /\ T \in SUBSET (0..n)
  BY FS_Interval
<1>2. IsFiniteSet(T) /\ T \in SUBSET Int
  BY <1>1, FS_Subset
<1>3. Cardinality(T) \in Nat /\ Cardinality(T) # 0
  BY <1>2, FS_CardinalityType, FS_EmptySet
<1>4. Orders(Less(T), T) /\ 0 \in 0..(Cardinality(T) - 1)
  BY <1>2, <1>3, LessOrders
<1> HIDE DEF T
<1> \E x \in T : Cardinality(Below(T, Less(T), x)) = 0
  BY <1>4, RanksAreAll
<1>5. PICK x \in T : Cardinality(Below(T, Less(T), x)) = 0
  OBVIOUS
<1>6. IsFiniteSet(Below(T, Less(T), x))
  BY <1>4, BelowIsSmaller
<1>7. Below(T, Less(T), x) = {}
  BY <1>5, <1>6, FS_EmptySet
<1>8. x \in 0..n /\ x \notin S
  BY DEF T
<1>9. x \in Nat /\ x # 0 /\ x - 1 \in 0..n - 1
  BY <1>8
<1>10. ASSUME x - 1 \in T PROVE FALSE
  <2>1. <<x - 1, x>> \in Less(T)
    BY <1>9, <1>10 DEF Less
  <2> QED BY <1>7, <1>10, <2>1 DEF Below
<1> QED BY <1>8, <1>9, <1>10 DEF T

\* There is one such list.
LEMMA ArrangedOnce ==
  ASSUME NEW S, NEW R, Orders(R, S), NEW t, NEW u, IsArranged(t, S, R), IsArranged(u, S, R)
  PROVE  t = u
<1> DEFINE n == Cardinality(S)
           Same == {k \in 0..n : \A j \in 1..k : t[j] = u[j]}
<1>1. n \in Nat /\ t \in Seq(S) /\ u \in Seq(S) /\ Len(t) = n /\ Len(u) = n
  BY FS_CardinalityType DEF Orders, IsArranged
<1> HIDE DEF n
<1>2. ASSUME NEW k \in 1..n, \A j \in 1..k - 1 : t[j] = u[j]
      PROVE  t[k] = u[k]
  <2>1. t[k] \in S /\ u[k] \in S
    BY <1>1, ElementOfSeq
  <2>2. PICK l \in 1..n : u[l] = t[k]
    BY <2>1 DEF IsArranged, n
  <2>3. PICK m \in 1..n : t[m] = u[k]
    BY <2>1 DEF IsArranged, n
  <2>4. l < k => FALSE
    <3>1. l < k => t[l] = t[k] /\ <<t[l], t[k]>> \in R
      BY <1>2, <2>2 DEF IsArranged, n
    <3> QED BY <2>1, <3>1 DEF Orders
  <2>5. m < k => FALSE
    <3>1. m < k => u[m] = u[k] /\ <<u[m], u[k]>> \in R
      BY <1>2, <2>3 DEF IsArranged, n
    <3> QED BY <2>1, <3>1 DEF Orders
  <2>6. CASE l > k /\ m > k
    <3>1. <<t[k], u[k]>> \in R
      BY <2>3, <2>6 DEF IsArranged, n
    <3>2. <<u[k], t[k]>> \in R
      BY <2>2, <2>6 DEF IsArranged, n
    <3> QED BY <2>1, <3>1, <3>2 DEF Orders
  <2>7. l = k \/ m = k => t[k] = u[k]
    BY <2>2, <2>3
  <2> QED BY <2>4, <2>5, <2>6, <2>7
<1>3. 0 \in Same
  BY <1>1
<1>4. ASSUME NEW i \in 0..n - 1, i \in Same
      PROVE  i + 1 \in Same
  <2>1. i + 1 \in 1..n /\ \A j \in 1..(i + 1) - 1 : t[j] = u[j]
    BY <1>1, <1>4
  <2>2. t[i + 1] = u[i + 1]
    BY <1>2, <2>1
  <2> QED BY <1>1, <1>4, <2>1, <2>2
<1> HIDE DEF Same
<1>5. 0..n \subseteq Same
  BY <1>1, <1>3, <1>4, UpTo
<1>6. n \in 0..n
  BY <1>1
<1>7. \A j \in 1..n : t[j] = u[j]
  BY <1>5, <1>6 DEF Same
<1> QED BY <1>1, <1>7, SeqEqual

-----------------------------------------------------------------------------
(***************************************************************************)
(* Filtering.                                                              *)
(***************************************************************************)

\* t are the elements of s at the places P, in their order.
IsPicked(t, s, P) ==
  \E p : /\ IsArranged(p, P, Less(P))
         /\ Len(t) = Len(p) /\ \A k \in 1..Len(p) : t[k] = s[p[k]]

\* The first n turns of the loop of Selected, with what it has picked then.
Walks(f, s, keep, n) ==
  /\ DOMAIN f = 0..n /\ f[0] = <<>>
  /\ \A i \in 1..n : f[i] = IF keep[i] THEN Append(f[i - 1], s[i]) ELSE f[i - 1]

LEMMA NothingPicked == ASSUME NEW s PROVE IsPicked(<<>>, s, {})
<1>1. IsFiniteSet({}) /\ Cardinality({}) = 0
  BY FS_EmptySet
<1>2. IsArranged(<<>>, {}, Less({}))
  BY <1>1 DEF IsArranged
<1> QED BY <1>2 DEF IsPicked

LEMMA OnePickedMore ==
  ASSUME NEW S, NEW s \in Seq(S), NEW t \in Seq(S), NEW i \in 1..Len(s),
         NEW P \in SUBSET (1..i - 1), IsPicked(t, s, P)
  PROVE  IsPicked(Append(t, s[i]), s, P \cup {i})
<1> DEFINE Q == P \cup {i}
           n == Cardinality(P)
<1>1. PICK p : /\ IsArranged(p, P, Less(P))
               /\ Len(t) = Len(p) /\ \A k \in 1..Len(p) : t[k] = s[p[k]]
  BY DEF IsPicked
<1>2. IsFiniteSet(1..i - 1)
  BY FS_Interval
<1>3. IsFiniteSet(P)
  BY <1>2, FS_Subset
<1>4. i \notin P /\ \A j \in P : j < i
  OBVIOUS
<1>5. n \in Nat /\ Cardinality(Q) = n + 1
  BY <1>3, <1>4, FS_AddElement, FS_CardinalityType
<1>6. p \in Seq(P) /\ Len(p) = n /\ \A k \in 1..n : p[k] \in P
  BY <1>1, ElementOfSeq DEF IsArranged
<1> HIDE DEF n
<1> DEFINE q == Append(p, i)
<1>7. /\ q \in Seq(Q) /\ Len(q) = n + 1 /\ q[n + 1] = i
      /\ \A k \in 1..n : q[k] = p[k]
  <2>1. p \in Seq(Q) /\ i \in Q
    BY <1>6
  <2> QED BY <1>5, <1>6, <2>1, AppendProperties
<1> HIDE DEF q
<1>8. \A x \in Q : \E k \in 1..n + 1 : q[k] = x
  BY <1>1, <1>5, <1>7 DEF IsArranged, n
<1>9. ASSUME NEW k \in 1..n + 1, NEW l \in 1..n + 1, k < l
      PROVE  <<q[k], q[l]>> \in Less(Q)
  <2>1. CASE l = n + 1
    <3>1. k \in 1..n /\ q[l] = i /\ q[k] = p[k]
      BY <1>5, <1>7, <1>9, <2>1
    <3>2. p[k] \in Q /\ i \in Q /\ p[k] < i
      BY <1>4, <1>6, <3>1
    <3> HIDE DEF Q
    <3> QED BY <3>1, <3>2 DEF Less
  <2>2. CASE l # n + 1
    <3>1. k \in 1..n /\ l \in 1..n /\ q[k] = p[k] /\ q[l] = p[l]
      BY <1>5, <1>7, <1>9, <2>2
    <3> QED BY <1>1, <1>9, <3>1 DEF IsArranged, Less, n
  <2> QED BY <2>1, <2>2
<1>10. IsArranged(q, Q, Less(Q))
  BY <1>5, <1>7, <1>8, <1>9 DEF IsArranged
<1>11. s[i] \in S
  BY ElementOfSeq
<1>12. Len(Append(t, s[i])) = n + 1 /\ \A k \in 1..n + 1 : Append(t, s[i])[k] = s[q[k]]
  BY <1>1, <1>5, <1>6, <1>7, <1>11, AppendProperties
<1> QED BY <1>7, <1>10, <1>12 DEF IsPicked

LEMMA WalksPick ==
  ASSUME NEW S, NEW s \in Seq(S), NEW keep, NEW f, Walks(f, s, keep, Len(s)),
         NEW i \in 0..Len(s)
  PROVE  f[i] \in Seq(S) /\ IsPicked(f[i], s, {j \in 1..i : keep[j]})
<1> DEFINE P(m) == {j \in 1..m : keep[j]}
           Good == {m \in 0..Len(s) : f[m] \in Seq(S) /\ IsPicked(f[m], s, P(m))}
<1>1. Len(s) \in Nat
  OBVIOUS
<1>2. 0 \in Good
  <2>1. P(0) = {} /\ f[0] = <<>>
    BY DEF Walks
  <2>2. IsPicked(f[0], s, P(0)) /\ f[0] \in Seq(S)
    BY <2>1, NothingPicked
  <2> QED BY <1>1, <2>2
<1>3. ASSUME NEW m \in 0..Len(s) - 1, m \in Good
      PROVE  m + 1 \in Good
  <2>1. m + 1 \in 1..Len(s) /\ (m + 1) - 1 = m /\ f[m] \in Seq(S) /\ s[m + 1] \in S
    BY <1>3, ElementOfSeq
  <2>2. CASE keep[m + 1]
    <3>1. f[m + 1] = Append(f[m], s[m + 1])
      BY <2>1, <2>2 DEF Walks
    <3>2. P(m) \in SUBSET (1..(m + 1) - 1) /\ P(m + 1) = P(m) \cup {m + 1}
      BY <2>1, <2>2
    <3>3. IsPicked(f[m], s, P(m))
      BY <1>3
    <3> DEFINE t == f[m]
               o == m + 1
               R == P(m)
    <3>4. /\ t \in Seq(S) /\ o \in 1..Len(s) /\ R \in SUBSET (1..o - 1) /\ IsPicked(t, s, R)
      BY <2>1, <3>2, <3>3
    <3> HIDE DEF t, o, R
    <3>5. IsPicked(Append(t, s[o]), s, R \cup {o})
      BY <3>4, OnePickedMore
    <3>6. IsPicked(f[m + 1], s, P(m + 1))
      BY <3>1, <3>2, <3>5 DEF t, o, R
    <3>7. f[m + 1] \in Seq(S)
      BY <2>1, <3>1, AppendProperties
    <3> QED BY <2>1, <3>6, <3>7
  <2>3. CASE ~keep[m + 1]
    <3>1. f[m + 1] = f[m]
      BY <2>1, <2>3 DEF Walks
    <3>2. P(m + 1) = P(m)
      BY <2>1, <2>3
    <3>3. IsPicked(f[m + 1], s, P(m + 1)) /\ f[m + 1] \in Seq(S)
      BY <1>3, <3>1, <3>2
    <3> QED BY <2>1, <3>3
  <2> QED BY <2>2, <2>3
<1> HIDE DEF Good
<1>4. i \in Good
  BY <1>1, <1>2, <1>3, UpTo
<1> QED BY <1>4 DEF Good

LEMMA SomethingWalks ==
  ASSUME NEW S, NEW s \in Seq(S), NEW keep
  PROVE  \E f : Walks(f, s, keep, Len(s))
<1> DEFINE Good == {m \in 0..Len(s) : \E f : Walks(f, s, keep, m)}
<1>1. Len(s) \in Nat
  OBVIOUS
<1>2. 0 \in Good
  <2>1. Walks([i \in 0..0 |-> <<>>], s, keep, 0)
    BY DEF Walks
  <2> QED BY <1>1, <2>1
<1>3. ASSUME NEW m \in 0..Len(s) - 1, m \in Good
      PROVE  m + 1 \in Good
  <2>1. PICK f : Walks(f, s, keep, m)
    BY <1>3
  <2> DEFINE g == [i \in 0..m + 1 |->
                     IF i <= m THEN f[i]
                     ELSE IF keep[i] THEN Append(f[m], s[i]) ELSE f[m]]
  <2>2. Walks(g, s, keep, m + 1)
    <3>1. DOMAIN g = 0..m + 1 /\ g[0] = <<>>
      BY <2>1 DEF Walks
    <3>2. ASSUME NEW i \in 1..m + 1
          PROVE  g[i] = IF keep[i] THEN Append(g[i - 1], s[i]) ELSE g[i - 1]
      <4>1. CASE i = m + 1
        <5>1. i \in 0..m + 1 /\ i - 1 \in 0..m + 1 /\ ~(i <= m) /\ i - 1 <= m /\ i - 1 = m
          BY <4>1
        <5>2. g[i] = (IF keep[i] THEN Append(f[m], s[i]) ELSE f[m]) /\ g[i - 1] = f[m]
          BY <5>1
        <5> QED BY <5>2
      <4>2. CASE i # m + 1
        <5>1. /\ i \in 0..m + 1 /\ i - 1 \in 0..m + 1 /\ i <= m /\ i - 1 <= m
              /\ i \in 1..m
          BY <4>2
        <5>2. g[i] = f[i] /\ g[i - 1] = f[i - 1]
          BY <5>1
        <5> QED BY <2>1, <5>1, <5>2 DEF Walks
      <4> QED BY <4>1, <4>2
    <3> QED BY <3>1, <3>2 DEF Walks
  <2> QED BY <2>2
<1> HIDE DEF Good
<1>4. 0..Len(s) \subseteq Good /\ Len(s) \in 0..Len(s)
  BY <1>1, <1>2, <1>3, UpTo
<1> QED BY <1>4 DEF Good

LEMMA SelectedIsPicked ==
  ASSUME NEW S, NEW s \in Seq(S), NEW keep
  PROVE  /\ Selected(s, keep) \in Seq(S)
         /\ IsPicked(Selected(s, keep), s, {i \in DOMAIN s : keep[i]})
<1> DEFINE Loop(f) == f = [i \in 0 .. Len(s) |->
                             IF i = 0 THEN <<>>
                             ELSE IF keep[i] THEN Append(f[i - 1], s[i]) ELSE f[i - 1]]
<1>1. PICK f : Walks(f, s, keep, Len(s))
  BY SomethingWalks
<1>2. \E g : Loop(g)
  <2> DEFINE g == [i \in 0..Len(s) |-> f[i]]
  <2>1. /\ Len(s) \in Nat /\ f[0] = <<>>
        /\ \A i \in 1..Len(s) : f[i] = IF keep[i] THEN Append(f[i - 1], s[i]) ELSE f[i - 1]
    BY <1>1 DEF Walks
  <2>2. ASSUME NEW i \in 0..Len(s)
        PROVE  g[i] = IF i = 0 THEN <<>>
                      ELSE IF keep[i] THEN Append(g[i - 1], s[i]) ELSE g[i - 1]
    <3>1. i # 0 => i \in 1..Len(s) /\ i - 1 \in 0..Len(s)
      BY <2>1
    <3>2. g[i] = f[i] /\ (i # 0 => g[i - 1] = f[i - 1])
      BY <3>1
    <3> HIDE DEF g
    <3> QED BY <2>1, <3>1, <3>2
  <2>3. g = [i \in 0..Len(s) |-> g[i]]
    OBVIOUS
  <2> HIDE DEF g
  <2>4. Loop(g)
    BY <2>2, <2>3
  <2> QED BY <2>4
<1> DEFINE g == CHOOSE g : Loop(g)
<1>3. Loop(g)
  BY <1>2
<1>4. Selected(s, keep) = g[Len(s)]
  BY DEF Selected
<1> HIDE DEF g
<1>5. Walks(g, s, keep, Len(s))
  <2>1. DOMAIN g = 0..Len(s) /\ Len(s) \in Nat
    BY <1>3
  <2>2. \A i \in 0..Len(s) : g[i] = IF i = 0 THEN <<>>
                      ELSE IF keep[i] THEN Append(g[i - 1], s[i]) ELSE g[i - 1]
    BY <1>3
  <2>3. g[0] = <<>>
    BY <2>1, <2>2
  <2>4. \A i \in 1..Len(s) : i \in 0..Len(s) /\ i # 0
    BY <2>1
  <2>5. \A i \in 1..Len(s) : g[i] = IF keep[i] THEN Append(g[i - 1], s[i]) ELSE g[i - 1]
    BY <2>2, <2>4
  <2> QED BY <2>1, <2>3, <2>5 DEF Walks
<1>6. Len(s) \in 0..Len(s) /\ DOMAIN s = 1..Len(s)
  OBVIOUS
<1>7. g[Len(s)] \in Seq(S) /\ IsPicked(g[Len(s)], s, {j \in 1..Len(s) : keep[j]})
  BY <1>5, <1>6, WalksPick
<1>8. {j \in 1..Len(s) : keep[j]} = {i \in DOMAIN s : keep[i]}
  BY <1>6
<1> QED BY <1>4, <1>7, <1>8

\* What is left of a list.
LEMMA PickedFacts ==
  ASSUME NEW S, NEW s \in Seq(S), NEW P \in SUBSET DOMAIN s,
         NEW t \in Seq(S), IsPicked(t, s, P)
  PROVE  /\ IsFiniteSet(P) /\ Len(t) = Cardinality(P)
         /\ SetOf(t) = {s[i] : i \in P}
         /\ \A k, l \in DOMAIN t : k < l => \E i, j \in P : i < j /\ t[k] = s[i] /\ t[l] = s[j]
         /\ P = DOMAIN s => t = s
<1>1. PICK p : /\ IsArranged(p, P, Less(P))
               /\ Len(t) = Len(p) /\ \A k \in 1..Len(p) : t[k] = s[p[k]]
  BY DEF IsPicked
<1>2. Len(s) \in Nat /\ DOMAIN s = 1..Len(s) /\ IsFiniteSet(1..Len(s))
  BY FS_Interval
<1>3. IsFiniteSet(P)
  BY <1>2, FS_Subset
<1>4. /\ p \in Seq(P) /\ Len(p) = Cardinality(P) /\ DOMAIN t = 1..Len(p)
      /\ \A k \in 1..Len(p) : p[k] \in P
      /\ \A x \in P : \E k \in 1..Len(p) : p[k] = x
  BY <1>1, ElementOfSeq DEF IsArranged
<1>5. SetOf(t) = {s[i] : i \in P}
  <2>1. SetOf(t) = {t[k] : k \in 1..Len(p)}
    BY <1>4 DEF SetOf
  <2>2. \A x : x \in {t[k] : k \in 1..Len(p)} => x \in {s[i] : i \in P}
    BY <1>1, <1>4
  <2>3. \A i \in P : \E k \in 1..Len(p) : s[i] = t[k]
    BY <1>1, <1>4
  <2>4. \A x : x \in {s[i] : i \in P} => x \in {t[k] : k \in 1..Len(p)}
    BY <2>3
  <2> QED BY <2>1, <2>2, <2>4
<1>6. ASSUME NEW k \in DOMAIN t, NEW l \in DOMAIN t, k < l
      PROVE  \E i, j \in P : i < j /\ t[k] = s[i] /\ t[l] = s[j]
  <2>1. <<p[k], p[l]>> \in Less(P)
    BY <1>1, <1>4, <1>6 DEF IsArranged
  <2>2. p[k] < p[l] /\ p[k] \in P /\ p[l] \in P
    BY <2>1 DEF Less
  <2> QED BY <1>1, <1>4, <2>2
<1>7. ASSUME P = DOMAIN s PROVE t = s
  <2> DEFINE u == [k \in 1..Len(s) |-> k]
             D == 1..Len(s)
  <2>1. Cardinality(D) = Len(s)
    BY <1>2, Interval
  <2>2. u \in Seq(D) /\ Len(u) = Len(s) /\ \A k \in D : u[k] = k
    BY <1>2
  <2>3. \A k, l \in D : k < l => <<k, l>> \in Less(D)
    BY DEF Less
  <2> HIDE DEF u
  <2>4. IsArranged(u, D, Less(D))
    BY <2>1, <2>2, <2>3 DEF IsArranged
  <2>5. Orders(Less(D), D) /\ IsArranged(p, D, Less(D))
    BY <1>1, <1>2, <1>7, LessOrders
  <2>6. p = u
    BY <2>4, <2>5, ArrangedOnce
  <2>7. Len(t) = Len(s) /\ \A k \in 1..Len(s) : t[k] = s[k]
    BY <1>1, <2>2, <2>6
  <2> QED BY <2>7, SeqEqual
<1> QED BY <1>3, <1>1, <1>4, <1>5, <1>6, <1>7

\* The same of a filtered list, whatever it keeps.
Keeping(s, keep) == {i \in DOMAIN s : keep[i]}

LEMMA SelectedFacts ==
  ASSUME NEW S, NEW s \in Seq(S), NEW keep
  PROVE  LET t == Selected(s, keep)
             P == Keeping(s, keep)
         IN  /\ t \in Seq(S)
             /\ IsFiniteSet(P) /\ Len(t) = Cardinality(P)
             /\ SetOf(t) = {s[i] : i \in P}
             /\ \A k, l \in DOMAIN t : k < l => \E i, j \in P : i < j /\ t[k] = s[i] /\ t[l] = s[j]
             /\ P = DOMAIN s => t = s
<1> DEFINE t == Selected(s, keep)
           P == Keeping(s, keep)
<1>1. t \in Seq(S) /\ IsPicked(t, s, P) /\ P \in SUBSET DOMAIN s
  BY SelectedIsPicked DEF Keeping
<1> HIDE DEF t, P
<1>2. /\ IsFiniteSet(P) /\ Len(t) = Cardinality(P)
      /\ SetOf(t) = {s[i] : i \in P}
      /\ \A k, l \in DOMAIN t : k < l => \E i, j \in P : i < j /\ t[k] = s[i] /\ t[l] = s[j]
      /\ P = DOMAIN s => t = s
  BY <1>1, PickedFacts
<1> QED BY <1>1, <1>2 DEF t, P

-----------------------------------------------------------------------------
(***************************************************************************)
(* Sorting: the relation that StableSort arranges the places in.           *)
(***************************************************************************)

\* Places of a list, and before: the pairs of them with one element before another.
StableOrder(D, before) ==
  {e \in D \X D : e \in before \/ (<<e[2], e[1]>> \notin before /\ e[1] < e[2])}

\* What a comparison must satisfy.
Compares(D, before) ==
  /\ before \subseteq D \X D
  /\ \A i, j \in D : <<i, j>> \in before => <<j, i>> \notin before
  /\ \A i, j, k \in D : <<i, k>> \in before => <<i, j>> \in before \/ <<j, k>> \in before

LEMMA StableOrderOrders ==
  ASSUME NEW n \in Nat, NEW before, Compares(1..n, before)
  PROVE  Orders(StableOrder(1..n, before), 1..n)
<1> DEFINE D == 1..n
           R == StableOrder(D, before)
<1>1. \A i, j \in D : <<i, j>> \in R <=>
                        <<i, j>> \in before \/ (<<j, i>> \notin before /\ i < j)
  BY DEF StableOrder
<1>2. IsFiniteSet(D)
  BY FS_Interval
<1> HIDE DEF R
<1>3. \A i \in D : <<i, i>> \notin R
  BY <1>1 DEF Compares
<1>4. ASSUME NEW i \in D, NEW j \in D, i # j
      PROVE  <<i, j>> \in R \/ <<j, i>> \in R
  <2>1. i < j \/ j < i
    BY <1>4
  <2> QED BY <1>1, <2>1
<1>5. ASSUME NEW i \in D, NEW j \in D, NEW k \in D, <<i, j>> \in R, <<j, k>> \in R
      PROVE  <<i, k>> \in R
  <2>1. CASE <<i, j>> \in before
    BY <1>1, <1>5, <2>1 DEF Compares
  <2>2. CASE <<j, k>> \in before
    BY <1>1, <1>5, <2>2 DEF Compares
  <2>3. CASE <<i, j>> \notin before /\ <<j, k>> \notin before
    <3>1. i < j /\ j < k /\ <<j, i>> \notin before /\ <<k, j>> \notin before
      BY <1>1, <1>5, <2>3
    <3>2. <<k, i>> \notin before /\ i < k
      BY <3>1 DEF Compares
    <3> QED BY <1>1, <3>2
  <2> QED BY <2>1, <2>2, <2>3
<1> QED BY <1>2, <1>3, <1>4, <1>5 DEF Orders, R

\* The order of two numbers of each place, the second where the first is the same.
Ranked(D, p, q) ==
  {e \in D \X D : p[e[1]] < p[e[2]] \/ (p[e[1]] = p[e[2]] /\ q[e[1]] < q[e[2]])}

LEMMA RankedCompares ==
  ASSUME NEW D, NEW p \in [D -> Int], NEW q \in [D -> Int]
  PROVE  Compares(D, Ranked(D, p, q))
<1>1. \A i, j \in D : <<i, j>> \in Ranked(D, p, q) <=>
                        p[i] < p[j] \/ (p[i] = p[j] /\ q[i] < q[j])
  BY DEF Ranked
<1>2. Ranked(D, p, q) \subseteq D \X D
  BY DEF Ranked
<1>3. \A i \in D : p[i] \in Int /\ q[i] \in Int
  OBVIOUS
<1>4. \A i, j \in D : <<i, j>> \in Ranked(D, p, q) => <<j, i>> \notin Ranked(D, p, q)
  BY <1>1, <1>3
<1>5. \A i, j, k \in D : <<i, k>> \in Ranked(D, p, q) =>
                            <<i, j>> \in Ranked(D, p, q) \/ <<j, k>> \in Ranked(D, p, q)
  BY <1>1, <1>3
<1> QED BY <1>2, <1>4, <1>5 DEF Compares

\* t has the elements of s, and none after one that it is before.
IsSortOf(t, s, before) ==
  /\ Len(t) = Len(s) /\ SetOf(t) = SetOf(s)
  /\ \A k, l \in DOMAIN t : k < l =>
       \E i, j \in DOMAIN s : i # j /\ t[k] = s[i] /\ t[l] = s[j] /\ <<j, i>> \notin before

LEMMA SortedFacts ==
  ASSUME NEW S, NEW s \in Seq(S), NEW before, Compares(DOMAIN s, before),
         NEW t, t = Sorted(s, StableOrder(DOMAIN s, before))
  PROVE  t \in Seq(S) /\ IsSortOf(t, s, before)
<1> DEFINE n == Len(s)
           D == DOMAIN s
           R == StableOrder(D, before)
           p == Arranged(D, R)
           f == [k \in D |-> s[p[k]]]
<1>1. n \in Nat /\ D = 1..n /\ IsFiniteSet(D) /\ Cardinality(D) = n
  BY Interval
<1>2. Orders(R, D)
  BY <1>1, StableOrderOrders
<1>3. IsArranged(p, D, R)
  BY <1>2, ArrangedIsArranged
<1>4. /\ \A k \in D : p[k] \in D
      /\ \A x \in D : \E k \in D : p[k] = x
      /\ \A k, l \in D : k < l => <<p[k], p[l]>> \in R
  BY <1>1, <1>3, ElementOfSeq DEF IsArranged
<1>5. f \in [1..n -> S]
  BY <1>1, <1>4, ElementOfSeq
<1>6. t = SubSeq(f, 1, n)
  BY DEF Sorted
<1>7. t = f /\ t \in Seq(S) /\ Len(t) = n
  <2> HIDE DEF f, n
  <2> QED BY <1>1, <1>5, <1>6, WholeList
<1>8. DOMAIN t = D /\ \A k \in D : t[k] = s[p[k]]
  BY <1>1, <1>7
<1>9. SetOf(t) = SetOf(s)
  <2> HIDE DEF n, D, R, p, f
  <2>1. ASSUME NEW x \in D PROVE \E k \in D : t[k] = s[x]
    <3>1. PICK k \in D : p[k] = x
      BY <1>4
    <3> QED BY <1>8, <3>1
  <2>2. \A k \in D : \E x \in D : t[k] = s[x]
    BY <1>4, <1>8
  <2> QED BY <1>8, <2>1, <2>2 DEF SetOf, D
<1>10. ASSUME NEW k \in D, NEW l \in D, k < l
       PROVE  /\ p[k] # p[l] /\ p[k] \in D /\ p[l] \in D
              /\ <<p[l], p[k]>> \notin before
  <2>1. <<p[k], p[l]>> \in R /\ p[k] \in D /\ p[l] \in D
    BY <1>4, <1>10
  <2>2. <<p[l], p[k]>> \notin before
    BY <2>1 DEF StableOrder, Compares
  <2> QED BY <1>2, <2>1, <2>2 DEF Orders
<1> HIDE DEF p, f, R, D, n
<1>11. \A k, l \in D : k < l =>
         \E i, j \in D : i # j /\ t[k] = s[i] /\ t[l] = s[j] /\ <<j, i>> \notin before
  <2> SUFFICES ASSUME NEW k \in D, NEW l \in D, k < l
               PROVE  \E i, j \in D : /\ i # j /\ t[k] = s[i] /\ t[l] = s[j]
                                      /\ <<j, i>> \notin before
    BY Zenon
  <2>1. t[k] = s[p[k]] /\ t[l] = s[p[l]]
    BY <1>8
  <2>2. p[k] \in D /\ p[l] \in D /\ p[k] # p[l] /\ <<p[l], p[k]>> \notin before
    BY <1>10
  <2> QED BY <2>1, <2>2
<1> QED BY <1>7, <1>8, <1>9, <1>11, ZenonT(60) DEF IsSortOf, D, n

-----------------------------------------------------------------------------
(***************************************************************************)
(* Lists with the elements of a set, each once.                            *)
(***************************************************************************)
Distinct(t) == \A k, l \in DOMAIN t : k < l => t[k] # t[l]

Lists(t, K) ==
  /\ t \in Seq(K) /\ Distinct(t) /\ SetOf(t) = K
  /\ IsFiniteSet(K) /\ Len(t) = Cardinality(K)

LEMMA DistinctLists ==
  ASSUME NEW S, NEW t \in Seq(S), Distinct(t)
  PROVE  Lists(t, SetOf(t))
<1> DEFINE D == 1..Len(t)
           f == [k \in D |-> t[k]]
<1>1. Len(t) \in Nat /\ IsFiniteSet(D) /\ Cardinality(D) = Len(t) /\ DOMAIN t = D
  BY Interval
<1>2. f \in [D -> SetOf(t)] /\ \A x \in SetOf(t) : \E k \in D : f[k] = x
  BY <1>1 DEF SetOf
<1>3. ASSUME NEW k \in D, NEW l \in D, k # l
      PROVE  f[k] # f[l]
  <2>1. k < l \/ l < k
    BY <1>3
  <2> QED BY <1>1, <2>1 DEF Distinct
<1>4. t \in Seq(SetOf(t))
  <2>1. f = t
    BY <1>1
  <2>2. f \in Seq(SetOf(t))
    BY <1>1, <1>2
  <2> QED BY <2>1, <2>2
<1> HIDE DEF f, D
<1>5. f \in Surjection(D, SetOf(t))
  BY <1>2 DEF Surjection
<1>6. f \in Injection(D, SetOf(t))
  BY <1>2, <1>3 DEF Injection, IsInjective
<1>7. IsFiniteSet(SetOf(t)) /\ Cardinality(SetOf(t)) = Cardinality(D)
  BY <1>1, <1>5, <1>6, FS_Surjection
<1> QED BY <1>1, <1>4, <1>7 DEF Lists

LEMMA ListedIsAt ==
  ASSUME NEW t, NEW K, Lists(t, K)
  PROVE  /\ DOMAIN t = 1..Len(t) /\ Len(t) \in Nat
         /\ \A i \in DOMAIN t : t[i] \in K
         /\ \A x \in K : \E i \in DOMAIN t : t[i] = x
         /\ \A i, j \in DOMAIN t : i # j => t[i] # t[j]
<1>1. DOMAIN t = 1..Len(t) /\ Len(t) \in Nat /\ \A i \in DOMAIN t : t[i] \in K
  BY ElementOfSeq DEF Lists
<1>2. \A x \in K : \E i \in DOMAIN t : t[i] = x
  BY DEF Lists, SetOf
<1>3. ASSUME NEW i \in DOMAIN t, NEW j \in DOMAIN t, i # j
      PROVE  t[i] # t[j]
  <2>1. i < j \/ j < i
    BY <1>1, <1>3
  <2> QED BY <2>1 DEF Lists, Distinct
<1> QED BY <1>1, <1>2, <1>3

LEMMA ListsNothing ==
  ASSUME NEW t, NEW K, Lists(t, K)
  PROVE  (t = <<>>) = (K = {})
<1>1. t = <<>> <=> DOMAIN t = {}
  BY DEF Lists
<1>2. DOMAIN t = {} <=> K = {}
  BY ListedIsAt, Zenon
<1> QED BY <1>1, <1>2

LEMMA ArrangedLists ==
  ASSUME NEW t, NEW S, NEW R, Orders(R, S), IsArranged(t, S, R)
  PROVE  Lists(t, S)
<1>1. /\ Len(t) \in Nat /\ t \in Seq(S) /\ DOMAIN t = 1..Len(t)
      /\ DOMAIN t = 1..Cardinality(S)
  BY DEF IsArranged
<1>2. \A k \in DOMAIN t : t[k] \in S
  BY <1>1, ElementOfSeq
<1>3. SetOf(t) = S
  BY <1>1, <1>2 DEF IsArranged, SetOf
<1>4. \A k, l \in DOMAIN t : k < l => <<t[k], t[l]>> \in R
  BY <1>1 DEF IsArranged
<1>5. Distinct(t)
  BY <1>2, <1>4 DEF Distinct, Orders
<1> QED BY <1>1, <1>3, <1>5, DistinctLists DEF IsArranged, Lists, Orders

\* Some of the listed elements.
LEMMA SelectedLists ==
  ASSUME NEW s, NEW K, Lists(s, K), NEW J \in SUBSET K, NEW keep,
         \A i \in DOMAIN s : keep[i] <=> s[i] \in J
  PROVE  Lists(Selected(s, keep), J)
<1> DEFINE t == Selected(s, keep)
           P == Keeping(s, keep)
<1>1. s \in Seq(K)
  BY DEF Lists
<1>2. /\ t \in Seq(K)
      /\ SetOf(t) = {s[i] : i \in P}
      /\ \A k, l \in DOMAIN t : k < l => \E i, j \in P : i < j /\ t[k] = s[i] /\ t[l] = s[j]
  BY <1>1, SelectedFacts
<1>3. \A i : i \in P <=> i \in DOMAIN s /\ s[i] \in J
  BY DEF Keeping
<1> HIDE DEF t, P
<1>4. SetOf(t) = J
  BY <1>2, <1>3, ListedIsAt
<1>5. Distinct(t)
  BY <1>2, <1>3 DEF Distinct, Lists
<1> QED BY <1>2, <1>4, <1>5, DistinctLists DEF t

\* A limit that is large enough.
LEMMA CutLists ==
  ASSUME NEW s, NEW K, Lists(s, K), NEW n \in Nat \ {0}
  PROVE  /\ Lists(Cut(s, n), SetOf(Cut(s, n))) /\ SetOf(Cut(s, n)) \subseteq K
         /\ Cardinality(K) <= n => Cut(s, n) = s
         /\ K # {} => Cut(s, n) # <<>>
<1> DEFINE t == Cut(s, n)
<1>1. /\ s \in Seq(K) /\ Len(s) = Cardinality(K) /\ Len(s) \in Nat /\ IsFiniteSet(K)
      /\ DOMAIN s = 1..Len(s)
  BY ListedIsAt DEF Lists
<1>2. Cardinality(K) <= n => t = s
  BY <1>1 DEF Cut
<1>3. CASE Len(s) <= n
  <2>1. t = s /\ SetOf(s) = K
    BY <1>3 DEF Cut, Lists
  <2>2. K # {} => s # <<>>
    BY ListsNothing
  <2> HIDE DEF t
  <2> QED BY <1>2, <2>1, <2>2 DEF t
<1>4. CASE ~(Len(s) <= n)
  <2>1. t = SubSeq(s, 1, n) /\ n \in 1..Len(s)
    BY <1>1, <1>4 DEF Cut
  <2>2. t \in Seq(K) /\ Len(t) = n /\ \A i \in 1..n : t[i] = s[i]
    BY <1>1, <2>1, SubSeqProperties
  <2> HIDE DEF t
  <2>3. DOMAIN t = 1..n /\ 1..n \subseteq DOMAIN s
    BY <1>1, <2>1, <2>2
  <2>4. Distinct(t)
    BY <2>2, <2>3 DEF Lists, Distinct
  <2>5. SetOf(t) \subseteq K
    BY <2>2, <2>3, ListedIsAt DEF SetOf
  <2>6. t # <<>>
    BY <2>2
  <2>7. Lists(t, SetOf(t))
    BY <2>2, <2>4, DistinctLists
  <2> QED BY <1>2, <2>5, <2>6, <2>7 DEF t
<1> QED BY <1>3, <1>4

\* What Mapped returns.
LEMMA MapFacts ==
  ASSUME NEW S, NEW s \in Seq(S), NEW f, f = [i \in DOMAIN s |-> f[i]]
  PROVE  /\ SubSeq(f, 1, Len(s)) = f
         /\ f \in Seq({f[i] : i \in DOMAIN s})
         /\ Len(f) = Len(s) /\ DOMAIN f = DOMAIN s
         /\ SetOf(f) = {f[i] : i \in DOMAIN s}
<1> DEFINE T == {f[i] : i \in DOMAIN s}
<1>1. Len(s) \in Nat /\ DOMAIN s = 1..Len(s)
  OBVIOUS
<1>2. f \in [1..Len(s) -> T]
  BY <1>1
<1>3. SetOf(f) = T
  BY <1>2 DEF SetOf
<1> HIDE DEF T
<1>4. SubSeq(f, 1, Len(s)) = f /\ f \in Seq(T) /\ Len(f) = Len(s)
  BY <1>1, <1>2, WholeList
<1> QED BY <1>1, <1>2, <1>3, <1>4 DEF T

-----------------------------------------------------------------------------
(***************************************************************************)
(* The store and the answers of the server.                                *)
(***************************************************************************)
StatusRecords == [exit_code : ExitCodes, timestamp : Nat \ {0}]

CheckRecords == [name : Names, hosts : SUBSET CheckedHosts]

TypeOK ==
  /\ hosts \in SUBSET HostIds
  /\ checks \in [CheckIds -> CheckRecords \cup {None}]
  /\ statuses \in [HostIds \X CheckIds -> StatusRecords \cup {None}]
  /\ now \in Nat \ {0}

\* The types hold in every state of the store.
THEOREM StoreTypeCorrect == Spec => []TypeOK
<1>1. Init => TypeOK
  <2> SUFFICES ASSUME Init PROVE TypeOK
    OBVIOUS
  <2>1. PICK name \in [CheckIds -> Names] :
          checks = [c \in CheckIds |-> [name |-> name[c], hosts |-> CheckedHosts]]
    BY DEF Init
  <2>2. checks \in [CheckIds -> CheckRecords]
    BY <2>1 DEF CheckRecords
  <2> QED BY <2>2 DEF Init, TypeOK
<1>2. TypeOK /\ [Next]_vars => TypeOK'
  <2> SUFFICES ASSUME TypeOK, [Next]_vars PROVE TypeOK'
    OBVIOUS
  <2>1. ASSUME NEW k \in CheckedHosts \X CheckIds, DeleteStatus(k)
        PROVE  TypeOK'
    <3>1. k \in HostIds \X CheckIds
      BY IdsAssumption
    <3> QED BY <2>1, <3>1 DEF DeleteStatus, Step, TypeOK
  <2>2. ASSUME NEW k \in CheckedHosts \X CheckIds, NEW code \in ExitCodes, UpdateStatus(k, code)
        PROVE  TypeOK'
    <3>1. [exit_code |-> code, timestamp |-> now] \in StatusRecords
      BY DEF StatusRecords, TypeOK
    <3>2. k \in HostIds \X CheckIds
      BY IdsAssumption
    <3> QED BY <2>2, <3>1, <3>2 DEF UpdateStatus, Step, TypeOK
  <2>3. ASSUME NEW c \in CheckIds, DeleteCheck(c)
        PROVE  TypeOK'
    BY <2>3 DEF DeleteCheck, Step, TypeOK
  <2>4. ASSUME NEW c \in CheckIds, NEW name \in Names, NEW h \in CheckedHosts,
               UpdateCheck(c, name, CheckedHosts \ {h})
        PROVE  TypeOK'
    <3>1. [name |-> name, hosts |-> CheckedHosts \ {h}] \in CheckRecords
      BY DEF CheckRecords
    <3> QED BY <2>4, <3>1 DEF UpdateCheck, Step, TypeOK
  <2>5. ASSUME NEW h \in HostIds, DeleteHost(h)
        PROVE  TypeOK'
    BY <2>5 DEF DeleteHost, Step, TypeOK
  <2>6. CASE UNCHANGED vars
    BY <2>6 DEF vars, TypeOK
  <2> QED BY <2>1, <2>2, <2>3, <2>4, <2>5, <2>6 DEF Next
<1> QED BY <1>1, <1>2, PTL DEF Spec

\* What is known of a host and a check.
LEMMA KnownFacts ==
  ASSUME TypeOK
  PROVE  /\ IsFiniteSet(HostIds \X CheckIds) /\ IsFiniteSet(Known)
         /\ \A k \in Known : /\ k[1] \in HostIds /\ k[2] \in CheckIds /\ k = <<k[1], k[2]>>
                             /\ statuses[k].exit_code \in ExitCodes
                             /\ statuses[k].exit_code \in Nat
                             /\ statuses[k].timestamp \in Nat \ {0}
<1>1. IsFiniteSet(HostIds \X CheckIds)
  BY FS_Product, IdsAssumption
<1>2. Known \in SUBSET (HostIds \X CheckIds)
  BY DEF Known
<1>3. IsFiniteSet(Known)
  BY <1>1, <1>2, FS_Subset
<1>4. ASSUME NEW k \in Known
      PROVE  /\ statuses[k] \in StatusRecords
             /\ k[1] \in HostIds /\ k[2] \in CheckIds /\ k = <<k[1], k[2]>>
  BY DEF Known, TypeOK
<1> QED BY <1>1, <1>3, <1>4, IdsAssumption DEF StatusRecords

LEMMA CheckFacts ==
  ASSUME TypeOK, NEW c \in CheckIds, CheckExists(c)
  PROVE  checks[c].name \in Nat /\ checks[c].hosts \subseteq HostIds
BY IdsAssumption DEF TypeOK, CheckExists, CheckRecords

\* Every pair of a host and a check is listed once.
KeyOrder(S) == {e \in S \X S : Earlier(e[1], e[2])}

LEMMA KeysLists == Lists(Keys, HostIds \X CheckIds)
<1> DEFINE S == HostIds \X CheckIds
<1>1. IsFiniteSet(S)
  BY FS_Product, IdsAssumption
<1>2. ASSUME NEW x \in S
      PROVE  x[1] \in Int /\ x[2] \in Int /\ x = <<x[1], x[2]>>
  <2>1. x[1] \in HostIds /\ x[2] \in CheckIds /\ x = <<x[1], x[2]>>
    OBVIOUS
  <2>2. HostIds \subseteq Int /\ CheckIds \subseteq Int
    BY IdsAssumption
  <2> QED BY <2>1, <2>2
<1> HIDE DEF S
<1>3. \A x, y \in S : <<x, y>> \in KeyOrder(S) <=> Earlier(x, y)
  BY DEF KeyOrder
<1>4. Orders(KeyOrder(S), S)
  <2>1. \A x \in S : ~Earlier(x, x)
    BY <1>2 DEF Earlier
  <2>2. ASSUME NEW x \in S, NEW y \in S, x # y
        PROVE  Earlier(x, y) \/ Earlier(y, x)
    <3>1. x[1] # y[1] \/ x[2] # y[2]
      BY <1>2, <2>2
    <3>2. x[1] \in Int /\ x[2] \in Int /\ y[1] \in Int /\ y[2] \in Int
      BY <1>2
    <3> QED BY <3>1, <3>2 DEF Earlier
  <2>3. \A x, y, z \in S : Earlier(x, y) /\ Earlier(y, z) => Earlier(x, z)
    BY <1>2 DEF Earlier
  <2> QED BY <1>1, <1>3, <2>1, <2>2, <2>3 DEF Orders
<1>5. Keys = Arranged(S, KeyOrder(S))
  BY DEF Keys, KeyOrder, S
<1> QED BY <1>4, <1>5, ArrangedIsArranged, ArrangedLists DEF S

\* The keys GetStatus may return.
Asked(hs, cs) == {k \in Known : k[1] \in hs /\ k[2] \in cs}

LEMMA FoundFacts ==
  ASSUME TypeOK, NEW hs, NEW cs, NEW limit \in Nat \ {0}
  PROVE  /\ Lists(Found(hs, cs, limit), SetOf(Found(hs, cs, limit)))
         /\ SetOf(Found(hs, cs, limit)) \subseteq Asked(hs, cs)
         /\ Cardinality(Asked(hs, cs)) <= limit => Lists(Found(hs, cs, limit), Asked(hs, cs))
         /\ Asked(hs, cs) # {} => Found(hs, cs, limit) # <<>>
<1> DEFINE K == HostIds \X CheckIds
           J == Asked(hs, cs)
           keep == [i \in DOMAIN Keys |->
                      Keys[i][1] \in hs /\ Keys[i][2] \in cs /\ statuses[Keys[i]] # None]
           t == Selected(Keys, keep)
<1>1. J \in SUBSET K
  BY DEF Asked, Known
<1>2. \A i \in DOMAIN Keys : Keys[i] \in K
  BY KeysLists, ListedIsAt
<1>3. \A i \in DOMAIN Keys : keep[i] <=> Keys[i] \in J
  BY <1>2 DEF Asked, Known
<1>4. Found(hs, cs, limit) = Cut(t, limit)
  BY DEF Found, Filter
<1> HIDE DEF keep, J
<1>5. Lists(t, J)
  BY <1>1, <1>3, KeysLists, SelectedLists
<1> HIDE DEF t
<1>6. /\ Lists(Cut(t, limit), SetOf(Cut(t, limit))) /\ SetOf(Cut(t, limit)) \subseteq J
      /\ Cardinality(J) <= limit => Cut(t, limit) = t
      /\ J # {} => Cut(t, limit) # <<>>
  BY <1>5, CutLists
<1> QED BY <1>4, <1>5, <1>6 DEF J

LEMMA StatusNames ==
  ASSUME NEW code \in Nat
  PROVE  /\ getStatusName(code) \in {"ok", "warning", "critical", "unknown"}
         /\ getStatusName(code) = "ok" <=> code = 0
         /\ getStatusName(code) = "warning" <=> code = 1
         /\ getStatusName(code) = "critical" <=> code = 2
<1>1. CASE code = 0
  BY <1>1 DEF getStatusName
<1>2. CASE code = 1
  BY <1>2 DEF getStatusName
<1>3. CASE code = 2
  BY <1>3 DEF getStatusName
<1>4. CASE code \notin {0, 1, 2}
  <2>1. getStatusName(code) = "unknown"
    BY <1>4 DEF getStatusName
  <2> QED BY <1>4, <2>1
<1> QED BY <1>1, <1>2, <1>3, <1>4

FailingOf(h) == {k \in KnownOf(h) : Failing(k)}

HealthyOf(h) == {k \in KnownOf(h) : Healthy(k)}

LEMMA AskedOfHost == ASSUME TypeOK, NEW h PROVE Asked({h}, CheckIds) = KnownOf(h)
BY KnownFacts DEF Asked, KnownOf

\* A filter of the keys found, mapped to what an answer tells of each.
LEMMA FailuresFacts ==
  ASSUME TypeOK, NEW found, NEW K \in SUBSET Known, Lists(found, K)
  PROVE  LET t == Mapped(Filter(found, Failing), SoftFailInfo)
             J == {k \in K : Failing(k)}
         IN  /\ t \in Seq({SoftFailInfo(k) : k \in J})
             /\ SetOf(t) = {SoftFailInfo(k) : k \in J} /\ Len(t) = Cardinality(J)
             /\ \A i, j \in DOMAIN t : i # j => t[i].check_id # t[j].check_id
                                               \/ \E k, l \in J : k[1] # l[1]
<1> DEFINE J == {k \in K : Failing(k)}
           keep == [i \in DOMAIN found |-> Failing(found[i])]
           s == Selected(found, keep)
           f == [i \in DOMAIN s |-> SoftFailInfo(s[i])]
           t == Mapped(Filter(found, Failing), SoftFailInfo)
<1>1. J \in SUBSET K /\ \A i \in DOMAIN found : keep[i] <=> found[i] \in J
  BY ListedIsAt
<1>2. Filter(found, Failing) = s
  BY DEF Filter
<1> HIDE DEF keep
<1>3. Lists(s, J)
  BY <1>1, SelectedLists
<1>4. t = SubSeq(f, 1, Len(s))
  BY <1>2 DEF Mapped
<1> HIDE DEF s, J
<1>5. s \in Seq(J) /\ f = [i \in DOMAIN s |-> f[i]]
  BY <1>3 DEF Lists
<1>6. t = f /\ f \in Seq({f[i] : i \in DOMAIN s}) /\ Len(f) = Len(s) /\ DOMAIN f = DOMAIN s
      /\ SetOf(f) = {f[i] : i \in DOMAIN s}
  <2> HIDE DEF f
  <2> QED BY <1>4, <1>5, MapFacts, ZenonT(60)
<1>7. {f[i] : i \in DOMAIN s} = {SoftFailInfo(k) : k \in J}
  BY <1>3, ListedIsAt
<1>8. Len(s) = Cardinality(J)
  BY <1>3 DEF Lists
<1>9. ASSUME NEW i \in DOMAIN f, NEW j \in DOMAIN f, i # j
      PROVE  f[i].check_id # f[j].check_id \/ \E k, l \in J : k[1] # l[1]
  <2>1. s[i] \in J /\ s[j] \in J /\ s[i] # s[j]
    BY <1>3, <1>6, <1>9, ListedIsAt
  <2>2. s[i] = <<s[i][1], s[i][2]>> /\ s[j] = <<s[j][1], s[j][2]>>
    BY <2>1, KnownFacts DEF J
  <2>3. f[i].check_id = s[i][2] /\ f[j].check_id = s[j][2]
    BY <1>6 DEF SoftFailInfo
  <2> QED BY <2>1, <2>2, <2>3
<1> HIDE DEF t, f
<1> QED BY <1>6, <1>7, <1>8, <1>9 DEF t, J

LEMMA SuccessesFacts ==
  ASSUME TypeOK, NEW found, NEW K \in SUBSET Known, Lists(found, K)
  PROVE  LET t == Mapped(Filter(found, Healthy), OKInfo)
             J == {k \in K : Healthy(k)}
         IN  /\ t \in Seq({OKInfo(k) : k \in J})
             /\ SetOf(t) = {OKInfo(k) : k \in J} /\ Len(t) = Cardinality(J)
<1> DEFINE J == {k \in K : Healthy(k)}
           keep == [i \in DOMAIN found |-> Healthy(found[i])]
           s == Selected(found, keep)
           f == [i \in DOMAIN s |-> OKInfo(s[i])]
           t == Mapped(Filter(found, Healthy), OKInfo)
<1>1. J \in SUBSET K /\ \A i \in DOMAIN found : keep[i] <=> found[i] \in J
  BY ListedIsAt
<1>2. Filter(found, Healthy) = s
  BY DEF Filter
<1> HIDE DEF keep
<1>3. Lists(s, J)
  BY <1>1, SelectedLists
<1>4. t = SubSeq(f, 1, Len(s))
  BY <1>2 DEF Mapped
<1> HIDE DEF s, J
<1>5. s \in Seq(J) /\ f = [i \in DOMAIN s |-> f[i]]
  BY <1>3 DEF Lists
<1>6. t = f /\ f \in Seq({f[i] : i \in DOMAIN s}) /\ Len(f) = Len(s) /\ DOMAIN f = DOMAIN s
      /\ SetOf(f) = {f[i] : i \in DOMAIN s}
  <2> HIDE DEF f
  <2> QED BY <1>4, <1>5, MapFacts
<1>7. {f[i] : i \in DOMAIN s} = {OKInfo(k) : k \in J}
  BY <1>3, ListedIsAt
<1>8. Len(s) = Cardinality(J)
  BY <1>3 DEF Lists
<1> HIDE DEF t, f
<1> QED BY <1>6, <1>7, <1>8 DEF t, J

\* What /api/hosts says of one host, as far as the limits let it.
FitsIn(h, fields) == \A f \in fields : Cardinality(KnownOf(h)) <= Limit[f]

LEMMA HostFacts ==
  ASSUME TypeOK, NEW h \in HostIds
  PROVE  LET r == HostResponse(h)
         IN  /\ r.id = h /\ r.fields = HostRecord[h]
             /\ KnownOf(h) = {} => r.status = "unknown" /\ r.last_check = 0
             /\ KnownOf(h) # {} => \E k \in KnownOf(h) :
                  /\ r.status = getStatusName(statuses[k].exit_code)
                  /\ r.last_check = statuses[k].timestamp
             /\ \E J \in SUBSET FailingOf(h) :
                  /\ r.soft_fail_info \in Seq({SoftFailInfo(k) : k \in J})
                  /\ SetOf(r.soft_fail_info) = {SoftFailInfo(k) : k \in J}
                  /\ Len(r.soft_fail_info) = Cardinality(J)
                  /\ FitsIn(h, {"alerts"}) => J = FailingOf(h)
             /\ \E J \in SUBSET HealthyOf(h) :
                  /\ r.ok_duration \in Seq({OKInfo(k) : k \in J})
                  /\ SetOf(r.ok_duration) = {OKInfo(k) : k \in J}
                  /\ Len(r.ok_duration) = Cardinality(J)
                  /\ FitsIn(h, {"stats"}) => J = HealthyOf(h)
             /\ DOMAIN r.check_names = {c \in CheckIds : CheckExists(c) /\ h \in checks[c].hosts}
             /\ \A c \in DOMAIN r.check_names : r.check_names[c] = checks[c].name
<1> DEFINE r == HostResponse(h)
           found == Found({h}, CheckIds, Limit["alerts"])
           more == Found({h}, CheckIds, Limit["stats"])
           assigned == {c \in CheckIds : CheckExists(c) /\ h \in checks[c].hosts}
           names == [c \in assigned |-> checks[c].name]
           fails == Mapped(Filter(found, Failing), SoftFailInfo)
           oks == Mapped(Filter(more, Healthy), OKInfo)
<1>1. /\ r.id = h /\ r.fields = HostRecord[h]
      /\ r.status = IF found = <<>> THEN "unknown" ELSE getStatusName(statuses[found[1]].exit_code)
      /\ r.last_check = IF found = <<>> THEN 0 ELSE statuses[found[1]].timestamp
      /\ r.soft_fail_info = fails /\ r.ok_duration = oks /\ r.check_names = names
  BY DEF HostResponse
<1>2. Limit["alerts"] \in Nat \ {0} /\ Limit["stats"] \in Nat \ {0}
  BY IdsAssumption DEF LimitFields
<1>3. /\ Lists(found, SetOf(found)) /\ SetOf(found) \subseteq KnownOf(h)
      /\ FitsIn(h, {"alerts"}) => SetOf(found) = KnownOf(h)
      /\ KnownOf(h) # {} => found # <<>>
  BY <1>2, FoundFacts, AskedOfHost DEF FitsIn, Lists
<1>4. /\ Lists(more, SetOf(more)) /\ SetOf(more) \subseteq KnownOf(h)
      /\ FitsIn(h, {"stats"}) => SetOf(more) = KnownOf(h)
  BY <1>2, FoundFacts, AskedOfHost DEF FitsIn, Lists
<1> DEFINE F == {k \in SetOf(found) : Failing(k)}
           G == {k \in SetOf(more) : Healthy(k)}
<1> HIDE DEF r, found, more
<1>5. KnownOf(h) \subseteq Known
  BY DEF KnownOf
<1>6. /\ fails \in Seq({SoftFailInfo(k) : k \in F})
      /\ SetOf(fails) = {SoftFailInfo(k) : k \in F} /\ Len(fails) = Cardinality(F)
  BY <1>3, <1>5, FailuresFacts
<1>7. /\ oks \in Seq({OKInfo(k) : k \in G})
      /\ SetOf(oks) = {OKInfo(k) : k \in G} /\ Len(oks) = Cardinality(G)
  BY <1>4, <1>5, SuccessesFacts
<1>8. F \in SUBSET FailingOf(h) /\ (FitsIn(h, {"alerts"}) => F = FailingOf(h))
  BY <1>3 DEF FailingOf
<1>9. G \in SUBSET HealthyOf(h) /\ (FitsIn(h, {"stats"}) => G = HealthyOf(h))
  BY <1>4 DEF HealthyOf
<1>10. (found = <<>>) = (SetOf(found) = {})
  BY <1>3, ListsNothing
<1>11. found # <<>> => found[1] \in SetOf(found)
  BY <1>3, ListedIsAt DEF SetOf, Lists
<1>12. KnownOf(h) = {} => r.status = "unknown" /\ r.last_check = 0
  BY <1>1, <1>3, <1>10
<1>13. KnownOf(h) # {} => /\ found[1] \in KnownOf(h)
                          /\ r.status = getStatusName(statuses[found[1]].exit_code)
                          /\ r.last_check = statuses[found[1]].timestamp
  BY <1>1, <1>3, <1>11
<1>14. DOMAIN names = assigned /\ \A c \in assigned : names[c] = checks[c].name
  OBVIOUS
<1> HIDE DEF fails, oks, names, F, G
<1>15. \E J \in SUBSET FailingOf(h) :
         /\ r.soft_fail_info \in Seq({SoftFailInfo(k) : k \in J})
         /\ SetOf(r.soft_fail_info) = {SoftFailInfo(k) : k \in J}
         /\ Len(r.soft_fail_info) = Cardinality(J)
         /\ FitsIn(h, {"alerts"}) => J = FailingOf(h)
  BY <1>1, <1>6, <1>8
<1>16. \E J \in SUBSET HealthyOf(h) :
         /\ r.ok_duration \in Seq({OKInfo(k) : k \in J})
         /\ SetOf(r.ok_duration) = {OKInfo(k) : k \in J}
         /\ Len(r.ok_duration) = Cardinality(J)
         /\ FitsIn(h, {"stats"}) => J = HealthyOf(h)
  BY <1>1, <1>7, <1>9
<1>17. KnownOf(h) # {} => \E k \in KnownOf(h) :
         /\ r.status = getStatusName(statuses[k].exit_code)
         /\ r.last_check = statuses[k].timestamp
  BY <1>13
<1> QED BY <1>1, <1>12, <1>14, <1>15, <1>16, <1>17 DEF r

\* The hosts are listed once each.

LEMMA HostsFacts ==
  ASSUME TypeOK
  PROVE  /\ getHosts \in Seq(SetOf(getHosts)) /\ Len(getHosts) = Cardinality(hosts)
         /\ SetOf(getHosts) = {HostResponse(h) : h \in hosts}
         /\ \A i \in DOMAIN getHosts : \E h \in hosts : getHosts[i] = HostResponse(h)
         /\ \A i, j \in DOMAIN getHosts : i # j => getHosts[i].id # getHosts[j].id
<1> DEFINE s == InOrder(hosts)
           f == [i \in DOMAIN s |-> HostResponse(s[i])]
<1>1. IsFiniteSet(hosts) /\ hosts \in SUBSET Int
  <2>1. hosts \in SUBSET HostIds /\ IsFiniteSet(HostIds) /\ HostIds \subseteq Int
    BY IdsAssumption DEF TypeOK
  <2> QED BY <2>1, FS_Subset
<1>2. Lists(s, hosts)
  BY <1>1, InOrderIsArranged, LessOrders, ArrangedLists
<1>3. getHosts = SubSeq(f, 1, Len(s))
  BY DEF getHosts, Mapped
<1> HIDE DEF s
<1>4. s \in Seq(hosts) /\ f = [i \in DOMAIN s |-> f[i]] /\ Len(s) = Cardinality(hosts)
  BY <1>2 DEF Lists
<1>5. /\ getHosts = f /\ f \in Seq({f[i] : i \in DOMAIN s}) /\ Len(f) = Len(s)
      /\ DOMAIN f = DOMAIN s /\ SetOf(f) = {f[i] : i \in DOMAIN s}
  <2> HIDE DEF f
  <2> QED BY <1>3, <1>4, MapFacts
<1>6. /\ \A i \in DOMAIN s : s[i] \in hosts
      /\ \A h \in hosts : \E i \in DOMAIN s : s[i] = h
      /\ \A i, j \in DOMAIN s : i # j => s[i] # s[j]
  BY <1>2, ListedIsAt
<1>7. {f[i] : i \in DOMAIN s} = {HostResponse(h) : h \in hosts}
  BY <1>6
<1>8. \A i \in DOMAIN s : f[i] = HostResponse(s[i]) /\ f[i].id = s[i]
  <2>1. \A h \in hosts : HostResponse(h).id = h
    BY DEF HostResponse
  <2> QED BY <1>6, <2>1
<1> HIDE DEF f
<1>9. getHosts \in Seq(SetOf(getHosts)) /\ Len(getHosts) = Cardinality(hosts)
  BY <1>4, <1>5
<1>10. SetOf(getHosts) = {HostResponse(h) : h \in hosts}
  BY <1>5, <1>7
<1>11. \A i \in DOMAIN getHosts : \E h \in hosts : getHosts[i] = HostResponse(h)
  BY <1>5, <1>6, <1>8
<1>12. \A i, j \in DOMAIN getHosts : i # j => getHosts[i].id # getHosts[j].id
  BY <1>5, <1>6, <1>8
<1> QED BY <1>9, <1>10, <1>11, <1>12

LEMMA KeepingCount ==
  ASSUME NEW s, NEW K, Lists(s, K), NEW J \in SUBSET K, NEW keep,
         \A i \in DOMAIN s : keep[i] <=> s[i] \in J
  PROVE  IsFiniteSet(Keeping(s, keep)) /\ Cardinality(Keeping(s, keep)) = Cardinality(J)
<1>1. Lists(Selected(s, keep), J)
  BY SelectedLists
<1>2. s \in Seq(K)
  BY DEF Lists
<1>3. IsFiniteSet(Keeping(s, keep)) /\ Len(Selected(s, keep)) = Cardinality(Keeping(s, keep))
  BY <1>2, SelectedFacts
<1> QED BY <1>1, <1>3 DEF Lists

\* The statuses of the keys found, and how many of them have an exit code.
IsStatusList(list, ks) ==
  /\ list \in Seq({StatusResponse(ks[i]) : i \in DOMAIN ks})
  /\ Len(list) = Len(ks) /\ DOMAIN list = DOMAIN ks
  /\ \A i \in DOMAIN ks : list[i] = StatusResponse(ks[i])
  /\ SetOf(list) = {StatusResponse(ks[i]) : i \in DOMAIN ks}

LEMMA StatusesFacts ==
  ASSUME TypeOK, NEW hs, NEW cs, NEW limit \in Nat \ {0}
  PROVE  IsStatusList(getStatus(hs, cs, limit), Found(hs, cs, limit))
<1> DEFINE s == Found(hs, cs, limit)
           f == [i \in DOMAIN s |-> StatusResponse(s[i])]
<1>1. getStatus(hs, cs, limit) = SubSeq(f, 1, Len(s))
  BY DEF getStatus, Mapped
<1>2. Lists(s, SetOf(s))
  BY FoundFacts
<1> HIDE DEF s
<1> DEFINE K == SetOf(s)
<1>3. s \in Seq(K) /\ f = [i \in DOMAIN s |-> f[i]]
  BY <1>2 DEF Lists
<1> DEFINE t == getStatus(hs, cs, limit)
<1>4. /\ t = f /\ f \in Seq({f[i] : i \in DOMAIN s})
      /\ Len(f) = Len(s) /\ DOMAIN f = DOMAIN s /\ SetOf(f) = {f[i] : i \in DOMAIN s}
  <2> HIDE DEF f, K, t
  <2> QED BY <1>1, <1>3, MapFacts DEF t
<1>5. \A i \in DOMAIN s : f[i] = StatusResponse(s[i])
  OBVIOUS
<1>6. {f[i] : i \in DOMAIN s} = {StatusResponse(s[i]) : i \in DOMAIN s}
  BY <1>5
<1> HIDE DEF f
<1> QED BY <1>1, <1>4, <1>5, <1>6 DEF IsStatusList, s

OfCode(K, code) == {k \in K : statuses[k].exit_code = code}

LEMMA CountFacts ==
  ASSUME NEW ks, NEW K, Lists(ks, K), NEW list, IsStatusList(list, ks), NEW code
  PROVE  CountOf(list, code) = Cardinality(OfCode(K, code))
<1> DEFINE keep == [i \in DOMAIN list |-> list[i].exit_code = code]
           J == OfCode(K, code)
<1>1. CountOf(list, code) = Len(Selected(list, keep))
  BY DEF CountOf, Count, Filter
<1>2. \A i \in DOMAIN ks : keep[i] <=> ks[i] \in J
  <2>1. ASSUME NEW i \in DOMAIN ks
        PROVE  ks[i] \in K /\ list[i].exit_code = statuses[ks[i]].exit_code /\ i \in DOMAIN list
    BY ListedIsAt DEF IsStatusList, StatusResponse
  <2> QED BY <2>1 DEF OfCode
<1>3. Keeping(list, keep) = Keeping(ks, keep)
  BY DEF Keeping, IsStatusList
<1>4. J \in SUBSET K
  BY DEF OfCode
<1> HIDE DEF keep, J
<1>5. Cardinality(Keeping(ks, keep)) = Cardinality(J)
  BY <1>2, <1>4, KeepingCount
<1>6. Len(Selected(list, keep)) = Cardinality(Keeping(list, keep))
  BY SelectedFacts DEF IsStatusList
<1> QED BY <1>1, <1>3, <1>5, <1>6 DEF J

-----------------------------------------------------------------------------
(***************************************************************************)
(* Healthy hosts.                                                          *)
(***************************************************************************)
AllWell(h) == KnownOf(h) # {} /\ \A k \in KnownOf(h) : Healthy(k)

LEMMA InfoFacts ==
  ASSUME TypeOK, NEW k \in Known
  PROVE  /\ SoftFailInfo(k).current_fails = 1
         /\ SoftFailInfo(k).threshold_max \in Nat \ {0}
         /\ FailSeverity(SoftFailInfo(k)) \in 1..4
<1>1. ThresholdMax(k[2]) \in Nat \ {0}
  BY KnownFacts, IdsAssumption DEF ThresholdMax
<1>2. SoftFailInfo(k).current_fails = 1 /\ SoftFailInfo(k).threshold_max = ThresholdMax(k[2])
  BY DEF SoftFailInfo
<1> QED BY <1>1, <1>2 DEF FailSeverity

LEMMA HostVerdict ==
  ASSUME TypeOK, NEW h \in HostIds, FitsIn(h, {"alerts", "stats"})
  PROVE  LET r == HostResponse(h)
         IN  /\ (aggregateHostStatus(r) = "ok") = AllWell(h)
             /\ aggregateHostStatus(r) \in {"ok", "critical", "warning", "unknown"}
             /\ AllWell(h) => getStatusPriority(r) = 1 /\ getHostPriority(r) = 0
             /\ getHostPriority(r) \in Nat
             /\ r.soft_fail_info # <<>> => aggregateHostStatus(r) # "ok"
<1> DEFINE r == HostResponse(h)
           bad == FailingOf(h)
           good == HealthyOf(h)
           infos == SetOf(r.soft_fail_info)
<1>1. FitsIn(h, {"alerts"}) /\ FitsIn(h, {"stats"})
  BY DEF FitsIn
<1>2. /\ infos = {SoftFailInfo(k) : k \in bad}
      /\ r.soft_fail_info \in Seq(infos)
      /\ r.ok_duration \in Seq({OKInfo(k) : k \in good})
      /\ SetOf(r.ok_duration) = {OKInfo(k) : k \in good}
  BY <1>1, HostFacts
<1>3. (r.soft_fail_info # <<>>) = (bad # {})
  <2> DEFINE t == r.soft_fail_info
  <2>1. t \in Seq(SetOf(t)) /\ SetOf(t) = {SoftFailInfo(k) : k \in bad}
    BY <1>2
  <2> HIDE DEF t
  <2>2. t # <<>> <=> SetOf(t) # {}
    BY <2>1 DEF SetOf
  <2> QED BY <2>1, <2>2 DEF t
<1>4. (r.ok_duration # <<>>) = (good # {})
  <2> DEFINE t == r.ok_duration
  <2>1. t \in Seq(SetOf(t)) /\ SetOf(t) = {OKInfo(k) : k \in good}
    BY <1>2
  <2> HIDE DEF t
  <2>2. t # <<>> <=> SetOf(t) # {}
    BY <2>1 DEF SetOf
  <2> QED BY <2>1, <2>2 DEF t
<1>5. /\ bad \subseteq KnownOf(h) /\ good \subseteq KnownOf(h) /\ bad \cup good = KnownOf(h)
      /\ KnownOf(h) \subseteq Known
  BY DEF FailingOf, HealthyOf, Healthy, KnownOf
<1>6. AllWell(h) <=> bad = {} /\ good # {}
  BY <1>5 DEF AllWell, FailingOf, HealthyOf, Healthy
<1>7. /\ Severities(r) \subseteq {"critical", "warning", "unknown"}
      /\ Severities(r) = {} <=> bad = {}
  <2>1. Severities(r) = {CASE FailSeverity(i) = 4 -> "critical" [] FailSeverity(i) \in {2, 3} -> "warning"
                           [] OTHER -> "unknown" : i \in infos}
    BY DEF Severities
  <2>2. infos = {} <=> bad = {}
    BY <1>2
  <2> QED BY <2>1, <2>2
<1>8. KnownOf(h) = {} => r.status = "unknown"
  BY HostFacts
<1>9. r.status \in {"ok", "critical", "warning", "unknown"}
  BY HostFacts, StatusNames, KnownFacts, <1>5
<1>10. AllWell(h) => r.status = "ok"
  <2> SUFFICES ASSUME AllWell(h) PROVE r.status = "ok"
    OBVIOUS
  <2>1. PICK k \in KnownOf(h) : r.status = getStatusName(statuses[k].exit_code)
    BY HostFacts DEF AllWell
  <2>2. statuses[k].exit_code = 0
    BY DEF AllWell, Healthy, Failing
  <2> QED BY <2>1, <2>2 DEF getStatusName
<1> HIDE DEF r, bad, good, infos
<1> DEFINE agg == aggregateHostStatus(r)
           S == Severities(r)
<1>11. agg = CASE "critical" \in S -> "critical"
               [] S \ {"unknown"} = {"warning"} -> "warning"
               [] S = {"unknown"} -> "unknown"
               [] S = {} /\ r.ok_duration # <<>> -> "ok"
               [] OTHER -> r.status
  BY DEF aggregateHostStatus
<1> HIDE DEF agg, S
<1>12. S \subseteq {"critical", "warning", "unknown"} /\ (S = {} <=> bad = {})
  BY <1>7 DEF S
<1>13. bad # {} => agg \in {"critical", "warning", "unknown"}
  <2>1. CASE "critical" \in S
    BY <1>11, <2>1
  <2>2. CASE S \ {"unknown"} = {"warning"} /\ "critical" \notin S
    BY <1>11, <2>2
  <2>3. CASE S = {"unknown"}
    BY <1>11, <2>3
  <2> QED BY <1>12, <2>1, <2>2, <2>3
<1>14. bad = {} => agg = IF good # {} THEN "ok" ELSE "unknown"
  <2> SUFFICES ASSUME bad = {} PROVE agg = IF good # {} THEN "ok" ELSE "unknown"
    OBVIOUS
  <2>1. S = {}
    BY <1>12
  <2>2. CASE good # {}
    BY <1>4, <1>11, <2>1, <2>2
  <2>3. CASE good = {}
    <3>1. r.status = "unknown"
      BY <1>5, <1>8, <2>3
    <3> QED BY <1>4, <1>11, <2>1, <2>3, <3>1
  <2> QED BY <2>2, <2>3
<1>15. /\ (agg = "ok") = AllWell(h)
       /\ agg \in {"ok", "critical", "warning", "unknown"}
       /\ bad # {} => agg # "ok"
  <2>1. agg = "ok" <=> AllWell(h)
    BY <1>6, <1>13, <1>14
  <2>2. AllWell(h) \in BOOLEAN
    BY DEF AllWell
  <2>3. agg \in {"ok", "critical", "warning", "unknown"} /\ (bad # {} => agg # "ok")
    BY <1>13, <1>14
  <2> QED BY <2>1, <2>2, <2>3
<1>16. AllWell(h) => getStatusPriority(r) = 1
  <2> SUFFICES ASSUME AllWell(h) PROVE getStatusPriority(r) = 1
    OBVIOUS
  <2>1. SetOf(r.soft_fail_info) = {} /\ r.status = "ok"
    BY <1>2, <1>6, <1>10 DEF infos
  <2>2. {0} \cup {FailSeverity(info) : info \in SetOf(r.soft_fail_info)} = {0}
    BY <2>1
  <2>3. Largest({0}) = 0
    BY DEF Largest
  <2>4. getStatusPriority(r) = StatusPriority["ok"]
    BY <2>1, <2>2, <2>3 DEF getStatusPriority
  <2> QED BY <2>4 DEF StatusPriority
<1>17. getHostPriority(r) \in Nat
  BY DEF getHostPriority
<1>18. AllWell(h) => getHostPriority(r) = 0
  <2> SUFFICES ASSUME AllWell(h) PROVE getHostPriority(r) = 0
    OBVIOUS
  <2>1. SetOf(r.soft_fail_info) = {} /\ r.status = "ok"
    BY <1>2, <1>6, <1>10 DEF infos
  <2>2. {FailSeverity(i) : i \in SetOf(r.soft_fail_info)} = {}
    BY <2>1
  <2> QED BY <2>1, <2>2 DEF getHostPriority
<1> QED BY <1>3, <1>15, <1>16, <1>17, <1>18 DEF agg, r

\* 200 c / 2 n, rounded, is 100 only if c is n.
LEMMA Rounded ==
  ASSUME NEW n \in 1..199, NEW c \in 0..n
  PROVE  ((200 * c + n) \div (2 * n) = 100) <=> (c = n)
<1> DEFINE a == 200 * c + n
           d == 2 * n
           q == a \div d
<1>1. a \in Nat /\ d \in Nat \ {0}
  OBVIOUS
<1> HIDE DEF a, d
<1>2. q \in Nat /\ d * q <= a /\ a < d * q + d
  BY <1>1
<1> HIDE DEF q
<1>3. q = 100 => 100 * d <= a
  BY <1>1, <1>2
<1>4. q >= 101 => d * q >= d * 101
  BY <1>1, <1>2
<1>5. q <= 99 => d * q + d <= d * 100
  BY <1>1, <1>2
<1>6. 100 * d <= a /\ a < 101 * d => q = 100
  BY <1>1, <1>2, <1>4, <1>5
<1>7. c = n => 100 * d <= a /\ a < 101 * d
  BY DEF a, d
<1>8. 100 * d <= a => c = n
  BY DEF a, d
<1> QED BY <1>3, <1>6, <1>7, <1>8 DEF q, a, d

LEMMA ScoreFacts ==
  ASSUME TypeOK, NEW h \in HostIds, FitsIn(h, {"alert_page"})
  PROVE  (getHostSummary(h).healthScore = 100) <=> AllWell(h)
<1> DEFINE limit == Limit["alert_page"]
           ks == Found({h}, CheckIds, limit)
           list == getStatus({h}, CheckIds, limit)
           n == Len(list)
           c == CountOf(list, 0)
           K == KnownOf(h)
           J == OfCode(K, 0)
<1>1. limit \in Nat \ {0} /\ limit < 200
  BY IdsAssumption, ScoreAssumption DEF LimitFields
<1>2. getHostSummary(h).healthScore = IF n = 0 THEN 0 ELSE (200 * c + n) \div (2 * n)
  BY DEF getHostSummary
<1>3. Cardinality(K) <= limit
  BY DEF FitsIn
<1>4. Lists(ks, K)
  <2>1. Asked({h}, CheckIds) = K
    BY AskedOfHost
  <2> HIDE DEF limit, K
  <2> QED BY <1>1, <1>3, <2>1, FoundFacts
<1>5. IsStatusList(list, ks)
  BY <1>1, StatusesFacts
<1> HIDE DEF ks, list, limit, K
<1>6. n = Cardinality(K) /\ n \in Nat /\ IsFiniteSet(K)
  BY <1>4, <1>5, FS_CardinalityType DEF Lists, IsStatusList
<1>7. c = Cardinality(J)
  BY <1>4, <1>5, CountFacts
<1>8. J \in SUBSET K
  BY DEF OfCode
<1> DEFINE score == getHostSummary(h).healthScore
<1>9. n = 0 => score = 0
  BY <1>2
<1>10. AllWell(h) <=> K # {} /\ J = K
  BY DEF AllWell, Healthy, Failing, K, OfCode
<1>11. n # 0 => score = (200 * c + n) \div (2 * n)
  BY <1>2
<1> HIDE DEF n, c, J, score
<1>12. IsFiniteSet(J) /\ c \in 0..n /\ (c = n <=> J = K)
  <2>1. IsFiniteSet(J) /\ Cardinality(J) <= Cardinality(K) /\ (Cardinality(J) = Cardinality(K) <=> J = K)
    BY <1>6, <1>8, FS_Subset
  <2>2. Cardinality(J) \in Nat
    BY <2>1, FS_CardinalityType
  <2> DEFINE x == Cardinality(J)
             y == Cardinality(K)
  <2>3. x \in Nat /\ y \in Nat /\ x <= y
    BY <1>6, <2>1, <2>2
  <2>4. c = x /\ n = y
    BY <1>6, <1>7
  <2>5. (x = y <=> J = K)
    BY <2>1
  <2> HIDE DEF x, y
  <2> QED BY <2>1, <2>3, <2>4, <2>5
<1>13. n = 0 <=> K = {}
  BY <1>6, FS_EmptySet
<1>14. score = 100 <=> AllWell(h)
  <2>1. CASE n = 0
    BY <1>9, <1>10, <1>13, <2>1
  <2>2. CASE n # 0
    <3>1. n \in 1..199
      <4>1. n <= limit
        BY <1>3, <1>6
      <4>2. n \in Nat /\ limit \in Nat /\ limit < 200 /\ n # 0
        BY <1>1, <1>6, <2>2
      <4> QED BY <4>1, <4>2
    <3>2. ((200 * c + n) \div (2 * n) = 100) <=> (c = n)
      <4> c \in 0..n
        BY <1>12
      <4> QED BY <3>1, Rounded
    <3> QED BY <1>10, <1>12, <1>13, <1>11, <2>2, <3>2
  <2> QED BY <2>1, <2>2
<1> QED BY <1>14 DEF score

\* A list that is split by a filter and its opposite.
LEMMA SplitCount ==
  ASSUME NEW S, NEW s \in Seq(S), NEW keep, NEW other,
         \A i \in DOMAIN s : keep[i] <=> ~other[i]
  PROVE  Len(Selected(s, keep)) + Len(Selected(s, other)) = Len(s)
<1> DEFINE P == Keeping(s, keep)
           Q == Keeping(s, other)
<1>1. /\ IsFiniteSet(P) /\ Len(Selected(s, keep)) = Cardinality(P)
      /\ IsFiniteSet(Q) /\ Len(Selected(s, other)) = Cardinality(Q)
  BY SelectedFacts
<1>2. P \cup Q = 1..Len(s) /\ P \cap Q = {} /\ Len(s) \in Nat
  BY DEF Keeping
<1> HIDE DEF P, Q
<1>3. Cardinality(P) + Cardinality(Q) - Cardinality({}) = Len(s)
  <2>1. Cardinality(1..Len(s)) = Len(s)
    BY <1>2, Interval
  <2>2. Cardinality(P \cup Q) = Cardinality(P) + Cardinality(Q) - Cardinality(P \cap Q)
    BY <1>1, FS_Union
  <2> QED BY <1>2, <2>1, <2>2
<1> QED BY <1>1, <1>3, FS_EmptySet, FS_CardinalityType

\* Hosts that need attention are listed before those that do not.
LEMMA PriorityOrder ==
  ASSUME NEW S, NEW list \in Seq(S),
         \A i \in DOMAIN list : /\ getHostPriority(list[i]) \in Nat
                                /\ DisplayName(list[i]) \in Nat,
         NEW t, t = sortHostsByPriority(list)
  PROVE  /\ t \in Seq(S)
         /\ \A k, l \in DOMAIN t : k < l =>
              \E i, j \in DOMAIN list :
                /\ t[k] = list[i] /\ t[l] = list[j]
                /\ getHostPriority(list[j]) <= getHostPriority(list[i])
<1> DEFINE D == DOMAIN list
           p == [i \in D |-> 0 - getHostPriority(list[i])]
           q == [i \in D |-> DisplayName(list[i])]
           R == {e \in D \X D :
                   \/ PriorityBefore(list[e[1]], list[e[2]])
                   \/ ~PriorityBefore(list[e[2]], list[e[1]]) /\ e[1] < e[2]}
<1>1. t = Sorted(list, R)
  BY DEF sortHostsByPriority, StableSort
<1>2. p \in [D -> Int] /\ q \in [D -> Int]
  OBVIOUS
<1>3. \A i, j \in D : PriorityBefore(list[i], list[j]) <=>
                        p[i] < p[j] \/ (p[i] = p[j] /\ q[i] < q[j])
  BY DEF PriorityBefore
<1> DEFINE before == Ranked(D, p, q)
<1> HIDE DEF p, q
<1>4. R = StableOrder(D, before)
  <2>1. ASSUME NEW e \in D \X D
        PROVE  /\ e \in before <=> PriorityBefore(list[e[1]], list[e[2]])
               /\ <<e[2], e[1]>> \in before <=> PriorityBefore(list[e[2]], list[e[1]])
    BY <1>3 DEF Ranked
  <2> HIDE DEF before, D
  <2> QED BY <2>1 DEF StableOrder
<1>5. Compares(D, before)
  BY <1>2, RankedCompares
<1>6. \A i, j \in D : <<j, i>> \notin before => p[i] <= p[j]
  BY <1>2 DEF Ranked
<1>7. \A i, j \in D : p[i] <= p[j] => getHostPriority(list[j]) <= getHostPriority(list[i])
  BY DEF p
<1> HIDE DEF R, before, D
<1>8. t \in Seq(S) /\ IsSortOf(t, list, before)
  <2>1. Compares(DOMAIN list, before)
    BY <1>5 DEF D
  <2>2. t = Sorted(list, StableOrder(DOMAIN list, before))
    BY <1>1, <1>4 DEF D
  <2> QED BY <2>1, <2>2, SortedFacts
<1>9. \A k, l \in DOMAIN t : k < l =>
        \E i, j \in D : i # j /\ t[k] = list[i] /\ t[l] = list[j] /\ <<j, i>> \notin before
  BY <1>8 DEF IsSortOf, D
<1>10. \A k, l \in DOMAIN t : k < l =>
        \E i, j \in D : /\ t[k] = list[i] /\ t[l] = list[j]
                        /\ getHostPriority(list[j]) <= getHostPriority(list[i])
  <2> SUFFICES ASSUME NEW k \in DOMAIN t, NEW l \in DOMAIN t, k < l
               PROVE  \E i, j \in D : /\ t[k] = list[i] /\ t[l] = list[j]
                                      /\ getHostPriority(list[j]) <= getHostPriority(list[i])
    OBVIOUS
  <2>1. PICK i \in D, j \in D : t[k] = list[i] /\ t[l] = list[j] /\ <<j, i>> \notin before
    BY <1>9, ZenonT(60)
  <2> QED BY <1>6, <1>7, <2>1
<1> QED BY <1>8, <1>10 DEF D

LEMMA NamesAreTexts == \A h \in HostIds : DisplayName(HostResponse(h)) \in Nat
<1> SUFFICES ASSUME NEW h \in HostIds PROVE DisplayName(HostResponse(h)) \in Nat
  OBVIOUS
<1>1. HostResponse(h).fields = HostRecord[h]
  BY DEF HostResponse
<1>2. HostRecord[h].display_name \in Nat /\ HostRecord[h].name \in Nat
  BY RecordAssumption
<1> QED BY <1>1, <1>2 DEF DisplayName, Or

LEMMA StateIsHealthy == TypeOK => HealthyMeansHealthy
<1> DEFINE all == getHosts
           byPriority == sortHostsByPriority(all)
           OK(host) == KnownOf(host.id) # {} /\ \A k \in KnownOf(host.id) : Healthy(k)
           fields == {"alerts", "stats", "alert_page"}
<1> SUFFICES ASSUME TypeOK, \A h \in hosts, f \in fields : Cardinality(KnownOf(h)) <= Limit[f]
             PROVE  /\ \A host \in SetOf(all) :
                         /\ (aggregateHostStatus(host) = "ok") = OK(host)
                         /\ OK(host) = (getHostSummary(host.id).healthScore = 100)
                         /\ OK(host) => getStatusPriority(host) = 1 /\ getHostPriority(host) = 0
                    /\ Len(filterHostsByStatus(all, "ok")) + Len(filterHostsByStatus(all, "failing")) = Len(all)
                    /\ SetOf(filterHostsByStatus(all, "soft_failing"))
                         \subseteq SetOf(filterHostsByStatus(all, "failing"))
                    /\ \A j \in DOMAIN byPriority : \A i \in 1 .. j - 1 :
                         OK(byPriority[i]) => getHostPriority(byPriority[j]) = 0
  BY DEF HealthyMeansHealthy
<1>1. /\ all \in Seq(SetOf(all)) /\ SetOf(all) = {HostResponse(h) : h \in hosts}
      /\ \A i \in DOMAIN all : \E h \in hosts : all[i] = HostResponse(h)
  BY HostsFacts
<1>2. ASSUME NEW h \in hosts
      PROVE  LET host == HostResponse(h)
             IN  /\ (aggregateHostStatus(host) = "ok") = OK(host)
                 /\ aggregateHostStatus(host) \in {"ok", "critical", "warning", "unknown"}
                 /\ OK(host) = (getHostSummary(host.id).healthScore = 100)
                 /\ OK(host) => getStatusPriority(host) = 1 /\ getHostPriority(host) = 0
                 /\ getHostPriority(host) \in Nat /\ DisplayName(host) \in Nat
                 /\ host.soft_fail_info # <<>> => aggregateHostStatus(host) # "ok"
  <2> DEFINE host == HostResponse(h)
  <2>1. h \in HostIds /\ FitsIn(h, {"alerts", "stats"}) /\ FitsIn(h, {"alert_page"})
    BY DEF TypeOK, FitsIn
  <2>2. host.id = h
    BY <2>1, HostFacts
  <2>3. OK(host) = AllWell(h)
    BY <2>2 DEF AllWell
  <2> HIDE DEF host
  <2>4. /\ (aggregateHostStatus(host) = "ok") = AllWell(h)
        /\ aggregateHostStatus(host) \in {"ok", "critical", "warning", "unknown"}
        /\ AllWell(h) => getStatusPriority(host) = 1 /\ getHostPriority(host) = 0
        /\ getHostPriority(host) \in Nat
        /\ host.soft_fail_info # <<>> => aggregateHostStatus(host) # "ok"
    BY <2>1, HostVerdict DEF host
  <2>5. (getHostSummary(host.id).healthScore = 100) <=> AllWell(h)
    BY <2>1, <2>2, ScoreFacts
  <2>6. DisplayName(host) \in Nat
    BY <2>1, NamesAreTexts DEF host
  <2>7. OK(host) = (getHostSummary(host.id).healthScore = 100)
    BY <2>3, <2>5 DEF AllWell
  <2> HIDE DEF OK
  <2> QED BY <2>3, <2>4, <2>6, <2>7 DEF host
<1> HIDE DEF OK, all
<1>3. \A host \in SetOf(all) :
        /\ (aggregateHostStatus(host) = "ok") = OK(host)
        /\ OK(host) = (getHostSummary(host.id).healthScore = 100)
        /\ OK(host) => getStatusPriority(host) = 1 /\ getHostPriority(host) = 0
  BY <1>1, <1>2
<1> DEFINE keep(filter) == [i \in DOMAIN all |-> HasStatus(all[i], filter)]
<1>4. \A filter : filterHostsByStatus(all, filter) = Selected(all, keep(filter))
  BY DEF filterHostsByStatus, Filter
<1>5. ASSUME NEW i \in DOMAIN all
      PROVE  /\ keep("ok")[i] <=> ~keep("failing")[i]
             /\ keep("soft_failing")[i] => keep("failing")[i]
  <2>1. /\ HasStatus(all[i], "ok") <=> aggregateHostStatus(all[i]) = "ok"
        /\ HasStatus(all[i], "failing") <=>
             aggregateHostStatus(all[i]) \in {"critical", "warning", "unknown"}
        /\ HasStatus(all[i], "soft_failing") <=> all[i].soft_fail_info # <<>>
    BY DEF HasStatus
  <2>2. /\ aggregateHostStatus(all[i]) \in {"ok", "critical", "warning", "unknown"}
        /\ all[i].soft_fail_info # <<>> => aggregateHostStatus(all[i]) # "ok"
    BY <1>1, <1>2
  <2> QED BY <2>1, <2>2
<1>6. Len(filterHostsByStatus(all, "ok")) + Len(filterHostsByStatus(all, "failing")) = Len(all)
  <2> DEFINE k == keep("ok")
             l == keep("failing")
  <2>1. \A i \in DOMAIN all : k[i] <=> ~l[i]
    BY <1>5
  <2> HIDE DEF k, l
  <2>2. Len(Selected(all, k)) + Len(Selected(all, l)) = Len(all)
    BY <1>1, <2>1, SplitCount
  <2> QED BY <1>4, <2>2 DEF k, l
<1>7. SetOf(filterHostsByStatus(all, "soft_failing"))
        \subseteq SetOf(filterHostsByStatus(all, "failing"))
  <2> DEFINE k == keep("soft_failing")
             l == keep("failing")
  <2>1. Keeping(all, k) \subseteq Keeping(all, l)
    BY <1>5 DEF Keeping
  <2> HIDE DEF k, l
  <2>2. /\ SetOf(Selected(all, k)) = {all[i] : i \in Keeping(all, k)}
        /\ SetOf(Selected(all, l)) = {all[i] : i \in Keeping(all, l)}
    BY <1>1, SelectedFacts
  <2>3. SetOf(Selected(all, k)) \subseteq SetOf(Selected(all, l))
    BY <2>1, <2>2
  <2>4. /\ filterHostsByStatus(all, "soft_failing") = Selected(all, k)
        /\ filterHostsByStatus(all, "failing") = Selected(all, l)
    BY <1>4 DEF k, l
  <2> QED BY <2>3, <2>4
<1>8. \A j \in DOMAIN byPriority : \A i \in 1 .. j - 1 :
        OK(byPriority[i]) => getHostPriority(byPriority[j]) = 0
  <2> DEFINE t == byPriority
  <2>1. t = sortHostsByPriority(all) /\ all \in Seq(SetOf(all))
    BY <1>1
  <2>2. \A i \in DOMAIN all : /\ getHostPriority(all[i]) \in Nat
                             /\ DisplayName(all[i]) \in Nat
    BY <1>1, <1>2
  <2>3. \A i \in DOMAIN all : OK(all[i]) => getHostPriority(all[i]) = 0
    BY <1>1, <1>2
  <2> HIDE DEF t, byPriority, keep
  <2>4. /\ t \in Seq(SetOf(all))
        /\ \A k, l \in DOMAIN t : k < l =>
             \E i, j \in DOMAIN all :
               /\ t[k] = all[i] /\ t[l] = all[j]
               /\ getHostPriority(all[j]) <= getHostPriority(all[i])
    BY <2>1, <2>2, PriorityOrder
  <2>5. DOMAIN t = 1..Len(t) /\ Len(t) \in Nat
    BY <2>4
  <2>6. ASSUME NEW l \in DOMAIN t, NEW k \in 1 .. l - 1, OK(t[k])
        PROVE  getHostPriority(t[l]) = 0
    <3>1. k \in DOMAIN t /\ k < l
      BY <2>5
    <3>2. PICK i \in DOMAIN all, j \in DOMAIN all :
            /\ t[k] = all[i] /\ t[l] = all[j]
            /\ getHostPriority(all[j]) <= getHostPriority(all[i])
      BY <2>4, <3>1
    <3>3. OK(all[i])
      BY <2>6, <3>2
    <3>4. getHostPriority(all[i]) = 0 /\ getHostPriority(all[j]) \in Nat
      BY <2>2, <2>3, <3>2, <3>3
    <3> QED BY <3>2, <3>4
  <2> QED BY <2>6 DEF t, byPriority
<1> QED BY <1>3, <1>6, <1>7, <1>8

\* Whatever the store holds, as far as the requests show all of it, RavenUtils calls a
\* host OK exactly when it has results and all of them are, and ranks it last.
THEOREM OKMeansAllWell == Spec => []HealthyMeansHealthy
BY StoreTypeCorrect, StateIsHealthy, PTL

-----------------------------------------------------------------------------
(***************************************************************************)
(* The alerts and the numbers of the dashboard.                            *)
(***************************************************************************)
LEMMA MappedLists ==
  ASSUME NEW s, NEW K, Lists(s, K), NEW f, f = [i \in DOMAIN s |-> f[i]],
         \A i, j \in DOMAIN s : i # j => f[i] # f[j]
  PROVE  /\ SubSeq(f, 1, Len(s)) = f /\ Lists(f, SetOf(f))
         /\ DOMAIN f = DOMAIN s /\ SetOf(f) = {f[i] : i \in DOMAIN s}
<1> DEFINE T == {f[i] : i \in DOMAIN s}
<1>1. s \in Seq(K)
  BY DEF Lists
<1>2. SubSeq(f, 1, Len(s)) = f /\ f \in Seq(T) /\ DOMAIN f = DOMAIN s /\ SetOf(f) = T
  BY <1>1, MapFacts, ZenonT(60)
<1> HIDE DEF T
<1>3. Distinct(f)
  <2>1. DOMAIN s \subseteq Int
    BY ListedIsAt
  <2> QED BY <1>2, <2>1 DEF Distinct
<1>4. Lists(f, SetOf(f))
  BY <1>2, <1>3, DistinctLists
<1> QED BY <1>2, <1>4 DEF T

\* Sorting by two numbers.
LEMMA RankSorted ==
  ASSUME NEW s, NEW K, Lists(s, K), NEW p \in [DOMAIN s -> Int], NEW q \in [DOMAIN s -> Int],
         NEW t, t = Sorted(s, StableOrder(DOMAIN s, Ranked(DOMAIN s, p, q)))
  PROVE  /\ Lists(t, K) /\ DOMAIN t = DOMAIN s
         /\ \A k, l \in DOMAIN t : k < l =>
              \E i, j \in DOMAIN s : /\ t[k] = s[i] /\ t[l] = s[j]
                                     /\ p[i] < p[j] \/ (p[i] = p[j] /\ q[i] <= q[j])
<1> DEFINE D == DOMAIN s
           before == Ranked(D, p, q)
<1>1. Compares(D, before)
  BY RankedCompares
<1>2. s \in Seq(K) /\ SetOf(s) = K
  BY DEF Lists
<1>3. \A i, j \in D : <<j, i>> \notin before => p[i] < p[j] \/ (p[i] = p[j] /\ q[i] <= q[j])
  BY DEF Ranked
<1> HIDE DEF before
<1>4. t \in Seq(K) /\ IsSortOf(t, s, before)
  BY <1>1, <1>2, SortedFacts DEF before
<1>5. \A k, l \in DOMAIN t : k < l =>
        \E i, j \in D : i # j /\ t[k] = s[i] /\ t[l] = s[j] /\ <<j, i>> \notin before
  BY <1>4 DEF IsSortOf
<1>6. \A i, j \in D : i # j => s[i] # s[j]
  BY ListedIsAt
<1>7. Distinct(t)
  <2> SUFFICES ASSUME NEW k \in DOMAIN t, NEW l \in DOMAIN t, k < l PROVE t[k] # t[l]
    BY DEF Distinct
  <2>1. PICK i \in D, j \in D : i # j /\ t[k] = s[i] /\ t[l] = s[j] /\ <<j, i>> \notin before
    BY <1>5
  <2> QED BY <1>6, <2>1
<1>8. SetOf(t) = K /\ Len(t) = Len(s)
  BY <1>2, <1>4 DEF IsSortOf
<1>9. Lists(t, K)
  BY <1>4, <1>7, <1>8, DistinctLists
<1>10. DOMAIN t = D
  BY <1>2, <1>4, <1>8
<1>11. \A k, l \in DOMAIN t : k < l =>
         \E i, j \in D : /\ t[k] = s[i] /\ t[l] = s[j]
                         /\ p[i] < p[j] \/ (p[i] = p[j] /\ q[i] <= q[j])
  <2> SUFFICES ASSUME NEW k \in DOMAIN t, NEW l \in DOMAIN t, k < l
               PROVE  \E i, j \in D : /\ t[k] = s[i] /\ t[l] = s[j]
                                      /\ p[i] < p[j] \/ (p[i] = p[j] /\ q[i] <= q[j])
    OBVIOUS
  <2>1. PICK i \in D, j \in D : t[k] = s[i] /\ t[l] = s[j] /\ <<j, i>> \notin before
    BY <1>5
  <2> QED BY <1>3, <2>1
<1> QED BY <1>9, <1>10, <1>11

\* Two sets without a common element, and the values of an injective function.
LEMMA DisjointCount ==
  ASSUME NEW A, NEW B, IsFiniteSet(A), IsFiniteSet(B), A \cap B = {}
  PROVE  IsFiniteSet(A \cup B) /\ Cardinality(A \cup B) = Cardinality(A) + Cardinality(B)
<1>1. /\ IsFiniteSet(A \cup B)
      /\ Cardinality(A \cup B) = Cardinality(A) + Cardinality(B) - Cardinality(A \cap B)
  BY FS_Union
<1>2. Cardinality(A \cap B) = 0
  BY FS_EmptySet
<1>3. Cardinality(A) \in Nat /\ Cardinality(B) \in Nat
  BY FS_CardinalityType
<1> QED BY <1>1, <1>2, <1>3

LEMMA ValuesCount ==
  ASSUME NEW J, IsFiniteSet(J), NEW f, f = [x \in J |-> f[x]],
         \A x, y \in J : x # y => f[x] # f[y]
  PROVE  /\ IsFiniteSet({f[x] : x \in J})
         /\ Cardinality({f[x] : x \in J}) = Cardinality(J)
<1> DEFINE T == {f[x] : x \in J}
<1>1. f \in Surjection(J, T)
  BY DEF Surjection
<1>2. f \in Injection(J, T)
  BY DEF Injection, IsInjective
<1> HIDE DEF T
<1>3. IsFiniteSet(T) /\ Cardinality(T) = Cardinality(J)
  BY <1>1, <1>2, FS_Surjection
<1> QED BY <1>3 DEF T

LEMMA StatusesDiffer ==
  ASSUME TypeOK, NEW k \in Known, NEW l \in Known, k # l
  PROVE  /\ StatusResponse(k).host_id = k[1] /\ StatusResponse(k).check_id = k[2]
         /\ StatusResponse(k) # StatusResponse(l)
<1>1. k = <<k[1], k[2]>> /\ l = <<l[1], l[2]>>
  BY KnownFacts
<1>2. /\ StatusResponse(k).host_id = k[1] /\ StatusResponse(k).check_id = k[2]
      /\ StatusResponse(l).host_id = l[1] /\ StatusResponse(l).check_id = l[2]
  BY DEF StatusResponse
<1> QED BY <1>1, <1>2

\* The alert of a status.
AlertFrom(s) ==
  [severity |-> getStatusName(s.exit_code), timestamp |-> s.timestamp,
   host |-> s.host_id, check |-> s.check_id,
   host_name |-> s.host_name, check_name |-> s.check_name]

AlertOf(k) == AlertFrom(StatusResponse(k))

LEMMA AlertFacts ==
  ASSUME TypeOK, NEW k \in Known
  PROVE  /\ AlertOf(k).severity = getStatusName(statuses[k].exit_code)
         /\ AlertOf(k).timestamp = statuses[k].timestamp
         /\ AlertOf(k).host = k[1] /\ AlertOf(k).check = k[2]
         /\ <<AlertOf(k).host, AlertOf(k).check>> = k
         /\ AlertOf(k).check_name = StatusResponse(k).check_name
<1>1. /\ StatusResponse(k).exit_code = statuses[k].exit_code
      /\ StatusResponse(k).timestamp = statuses[k].timestamp
      /\ StatusResponse(k).host_id = k[1] /\ StatusResponse(k).check_id = k[2]
  BY DEF StatusResponse
<1>2. k = <<k[1], k[2]>>
  BY KnownFacts
<1> QED BY <1>1, <1>2 DEF AlertOf, AlertFrom

LEMMA Severity ==
  /\ SeverityOrder["critical"] = 3 /\ SeverityOrder["warning"] = 2 /\ SeverityOrder["unknown"] = 1
BY DEF SeverityOrder

\* The statuses of a request, each once.
LEMMA StatusesListed ==
  ASSUME TypeOK, NEW hs, NEW cs, NEW limit \in Nat \ {0},
         NEW ks, ks = Found(hs, cs, limit), NEW list, list = getStatus(hs, cs, limit)
  PROVE  /\ Lists(ks, SetOf(ks)) /\ SetOf(ks) \subseteq Asked(hs, cs) /\ SetOf(ks) \subseteq Known
         /\ DOMAIN ks = DOMAIN list
         /\ \A i \in DOMAIN ks : ks[i] \in SetOf(ks) /\ list[i] = StatusResponse(ks[i])
         /\ \A k \in SetOf(ks) : \E i \in DOMAIN ks : ks[i] = k
         /\ Lists(list, SetOf(list))
         /\ SetOf(list) = {StatusResponse(k) : k \in SetOf(ks)}
<1> DEFINE K == SetOf(ks)
<1>1. Lists(ks, K) /\ K \subseteq Asked(hs, cs) /\ K \subseteq Known
  BY FoundFacts DEF Asked
<1>2. IsStatusList(list, ks)
  BY StatusesFacts
<1> HIDE DEF K
<1>3. /\ DOMAIN ks = DOMAIN list
      /\ \A i \in DOMAIN ks : ks[i] \in K /\ list[i] = StatusResponse(ks[i])
      /\ \A k \in K : \E i \in DOMAIN ks : ks[i] = k
      /\ \A i, j \in DOMAIN ks : i # j => ks[i] # ks[j]
  BY <1>1, <1>2, ListedIsAt DEF IsStatusList
<1>4. Lists(list, SetOf(list))
  <2>1. list = [i \in DOMAIN ks |-> list[i]]
    BY <1>2 DEF IsStatusList
  <2>2. \A i, j \in DOMAIN ks : i # j => list[i] # list[j]
    BY <1>1, <1>3, StatusesDiffer
  <2> QED BY <1>1, <2>1, <2>2, MappedLists
<1>5. SetOf(list) = {StatusResponse(k) : k \in K}
  BY <1>3 DEF SetOf
<1> QED BY <1>1, <1>3, <1>4, <1>5 DEF K

\* An alert for each failure that is found, ordered as the page lists them.
FailuresFound == {k \in SetOf(Found(HostIds, CheckIds, Limit["alerts"])) : Failing(k)}

NotAfter(a, b) ==
  \/ SeverityOrder[b.severity] < SeverityOrder[a.severity]
  \/ a.severity = b.severity /\ b.timestamp <= a.timestamp

LEMMA AlertsFacts ==
  ASSUME TypeOK, NEW alerts, alerts = loadAlerts
  PROVE  /\ Lists(alerts, {AlertOf(k) : k \in FailuresFound})
         /\ FailuresFound \subseteq Known
         /\ \A k \in FailuresFound : AlertOf(k).severity \in {"critical", "warning", "unknown"}
         /\ \A i, j \in DOMAIN alerts : i < j => NotAfter(alerts[i], alerts[j])
<1> DEFINE limit == Limit["alerts"]
           ks == Found(HostIds, CheckIds, limit)
           list == getStatus(HostIds, CheckIds, limit)
           K == SetOf(ks)
           F == FailuresFound
           keep == [i \in DOMAIN list |-> list[i].exit_code > 0]
           sel == Selected(list, keep)
           JS == {StatusResponse(k) : k \in F}
           m == [i \in DOMAIN sel |-> AlertFrom(sel[i])]
           D == DOMAIN m
           R == {e \in D \X D :
                   \/ AlertBefore(m[e[1]], m[e[2]])
                   \/ ~AlertBefore(m[e[2]], m[e[1]]) /\ e[1] < e[2]}
<1>1. limit \in Nat \ {0}
  BY IdsAssumption DEF LimitFields
<1>2. Lists(ks, K) /\ K \subseteq Known
  BY <1>1, FoundFacts DEF Asked
<1>3. F \subseteq K /\ F = {k \in K : Failing(k)}
  BY DEF FailuresFound
<1> HIDE DEF limit
<1>4. alerts = StableSort(Mapped(sel, AlertFrom), AlertBefore)
  BY DEF loadAlerts, Filter, AlertFrom, limit
<1>5. Mapped(sel, AlertFrom) = SubSeq(m, 1, Len(sel))
  BY DEF Mapped
<1>6. \A i \in DOMAIN list : list[i].exit_code > 0 <=> keep[i]
  OBVIOUS
<1> HIDE DEF ks, list, K, F, keep, sel
<1>7. /\ DOMAIN ks = DOMAIN list
      /\ \A i \in DOMAIN ks : ks[i] \in K /\ list[i] = StatusResponse(ks[i])
      /\ \A k \in K : \E i \in DOMAIN ks : ks[i] = k
      /\ Lists(list, SetOf(list))
  BY <1>1, StatusesListed DEF ks, list, K
<1>8. ASSUME NEW i \in DOMAIN list
       PROVE  keep[i] <=> list[i] \in JS
  <2>1. ks[i] \in K /\ list[i] = StatusResponse(ks[i])
    BY <1>7
  <2>2. list[i].exit_code = statuses[ks[i]].exit_code /\ statuses[ks[i]].exit_code \in Nat
    BY <1>2, <2>1, KnownFacts DEF StatusResponse
  <2>3. keep[i] <=> ks[i] \in F
    BY <1>3, <1>6, <2>1, <2>2 DEF Failing
  <2>4. \A k \in F : StatusResponse(k) = StatusResponse(ks[i]) => k = ks[i]
    BY <1>2, <1>3, <2>1, StatusesDiffer
  <2> QED BY <2>1, <2>3, <2>4
<1>9. JS \in SUBSET SetOf(list)
  BY <1>3, <1>7 DEF SetOf
<1> HIDE DEF JS
<1>10. Lists(sel, JS)
  BY <1>7, <1>8, <1>9, SelectedLists DEF sel
<1>11. \A i \in DOMAIN sel : \E k \in F : sel[i] = StatusResponse(k) /\ m[i] = AlertOf(k)
  BY <1>10, ListedIsAt DEF JS, AlertOf
<1>12. \A k \in F : \E i \in DOMAIN sel : sel[i] = StatusResponse(k) /\ m[i] = AlertOf(k)
  BY <1>10, ListedIsAt DEF JS, AlertOf
<1>13. \A k, l \in F : k # l => AlertOf(k) # AlertOf(l)
  BY <1>2, <1>3, AlertFacts
<1>14. \A i, j \in DOMAIN sel : i # j => m[i] # m[j]
  <2> SUFFICES ASSUME NEW i \in DOMAIN sel, NEW j \in DOMAIN sel, i # j PROVE m[i] # m[j]
    OBVIOUS
  <2>1. sel[i] # sel[j]
    BY <1>10, ListedIsAt
  <2> QED BY <1>11, <1>13, <2>1
<1>15. m = [i \in DOMAIN sel |-> m[i]] /\ DOMAIN m = DOMAIN sel
  OBVIOUS
<1> HIDE DEF m
<1>16. /\ SubSeq(m, 1, Len(sel)) = m /\ Lists(m, SetOf(m)) /\ SetOf(m) = {m[i] : i \in DOMAIN sel}
  BY <1>10, <1>14, <1>15, MappedLists
<1>17. SetOf(m) = {AlertOf(k) : k \in F}
  BY <1>11, <1>12, <1>16
<1>18. \A k \in F : /\ AlertOf(k).severity \in {"critical", "warning", "unknown"}
                    /\ AlertOf(k).timestamp \in Nat
  <2> SUFFICES ASSUME NEW k \in F
               PROVE  /\ AlertOf(k).severity \in {"critical", "warning", "unknown"}
                      /\ AlertOf(k).timestamp \in Nat
    OBVIOUS
  <2>1. k \in Known /\ statuses[k].exit_code # 0
    BY <1>2, <1>3 DEF Failing
  <2>2. statuses[k].exit_code \in Nat /\ statuses[k].timestamp \in Nat
    BY <2>1, KnownFacts
  <2> QED BY <2>1, <2>2, AlertFacts, StatusNames
<1>19. alerts = Sorted(m, R)
  BY <1>4, <1>5, <1>16 DEF StableSort
<1>20. ASSUME NEW i \in D
       PROVE  /\ m[i].severity \in {"critical", "warning", "unknown"}
              /\ m[i].timestamp \in Nat /\ SeverityOrder[m[i].severity] \in Nat
  <2>1. PICK k \in F : m[i] = AlertOf(k)
    BY <1>11, <1>15
  <2> QED BY <1>18, <2>1, Severity
<1> DEFINE p == [i \in D |-> 0 - SeverityOrder[m[i].severity]]
           q == [i \in D |-> 0 - m[i].timestamp]
           before == Ranked(D, p, q)
<1>21. p \in [D -> Int] /\ q \in [D -> Int]
  BY <1>20
<1>22. \A i, j \in D : AlertBefore(m[i], m[j]) <=> p[i] < p[j] \/ (p[i] = p[j] /\ q[i] < q[j])
  BY <1>20, Severity DEF AlertBefore
<1>23. ASSUME NEW i \in D, NEW j \in D, p[i] < p[j] \/ (p[i] = p[j] /\ q[i] <= q[j])
       PROVE  NotAfter(m[i], m[j])
  BY <1>20, <1>23, Severity DEF NotAfter
<1> HIDE DEF p, q
<1>24. R = StableOrder(D, before)
  <2>1. ASSUME NEW e \in D \X D
        PROVE  /\ e \in before <=> AlertBefore(m[e[1]], m[e[2]])
               /\ <<e[2], e[1]>> \in before <=> AlertBefore(m[e[2]], m[e[1]])
    BY <1>22 DEF Ranked
  <2> HIDE DEF before, D
  <2> QED BY <2>1 DEF StableOrder
<1> HIDE DEF R
<1>25. alerts = Sorted(m, StableOrder(DOMAIN m, Ranked(DOMAIN m, p, q)))
  BY <1>19, <1>24
<1>26. /\ Lists(alerts, SetOf(m))
       /\ \A k, l \in DOMAIN alerts : k < l =>
            \E i, j \in DOMAIN m : /\ alerts[k] = m[i] /\ alerts[l] = m[j]
                                   /\ p[i] < p[j] \/ (p[i] = p[j] /\ q[i] <= q[j])
  <2>1. /\ Lists(m, SetOf(m)) /\ p \in [DOMAIN m -> Int] /\ q \in [DOMAIN m -> Int]
        /\ alerts = Sorted(m, StableOrder(DOMAIN m, Ranked(DOMAIN m, p, q)))
    BY <1>16, <1>21, <1>25
  <2> HIDE DEF D, before
  <2> QED BY <2>1, RankSorted
<1>27. \A k, l \in DOMAIN alerts : k < l => NotAfter(alerts[k], alerts[l])
  BY <1>23, <1>26
<1>28. F \subseteq Known
  BY <1>2, <1>3
<1> QED BY <1>17, <1>18, <1>26, <1>27, <1>28 DEF F

NamedSo(F, severity) == {k \in F : getStatusName(statuses[k].exit_code) = severity}

LEMMA SeverityCount ==
  ASSUME TypeOK, NEW F \in SUBSET Known, NEW alerts, Lists(alerts, {AlertOf(k) : k \in F}),
         NEW severity
  PROVE  Len(OfSeverity(alerts, severity)) = Cardinality(NamedSo(F, severity))
<1> DEFINE keep == [i \in DOMAIN alerts |-> alerts[i].severity = severity]
           J == NamedSo(F, severity)
           f == [k \in J |-> AlertOf(k)]
           T == {f[k] : k \in J}
<1>1. OfSeverity(alerts, severity) = Selected(alerts, keep)
  BY DEF OfSeverity, Filter
<1>2. J \in SUBSET F /\ IsFiniteSet(J)
  <2>1. J \in SUBSET F /\ J \in SUBSET Known
    BY DEF NamedSo
  <2> QED BY <2>1, KnownFacts, FS_Subset
<1>3. \A i \in DOMAIN alerts : keep[i] <=> alerts[i] \in T
  <2> SUFFICES ASSUME NEW i \in DOMAIN alerts PROVE keep[i] <=> alerts[i] \in T
    OBVIOUS
  <2>1. PICK k \in F : alerts[i] = AlertOf(k)
    BY ListedIsAt
  <2>2. alerts[i].severity = getStatusName(statuses[k].exit_code) /\ <<alerts[i].host, alerts[i].check>> = k
    BY <2>1, AlertFacts
  <2>3. \A l \in J : f[l] = alerts[i] => l = k
    BY <1>2, <2>2, AlertFacts
  <2>4. k \in J <=> alerts[i].severity = severity
    BY <2>2 DEF NamedSo
  <2>5. k \in J => alerts[i] \in T
    BY <2>1
  <2> QED BY <2>3, <2>4, <2>5
<1>4. T \in SUBSET {AlertOf(k) : k \in F}
  BY <1>2
<1>5. \A k, l \in J : k # l => f[k] # f[l]
  BY <1>2, AlertFacts
<1>6. f = [k \in J |-> f[k]]
  OBVIOUS
<1> HIDE DEF J, f, keep
<1>7. Lists(Selected(alerts, keep), T)
  BY <1>3, <1>4, SelectedLists
<1>8. Cardinality(T) = Cardinality(J)
  BY <1>2, <1>5, <1>6, ValuesCount
<1> QED BY <1>1, <1>7, <1>8 DEF Lists, J

\* The three severities, and the four numbers of the dashboard.
LEMMA SeveritiesSplit ==
  ASSUME TypeOK, NEW F \in SUBSET Known, \A k \in F : Failing(k)
  PROVE  /\ IsFiniteSet(F)
         /\ NamedSo(F, "critical") = OfCode(F, 2) /\ NamedSo(F, "warning") = OfCode(F, 1)
         /\ Cardinality(F) = Cardinality(NamedSo(F, "critical")) + Cardinality(NamedSo(F, "warning"))
                             + Cardinality(NamedSo(F, "unknown"))
<1> DEFINE A == NamedSo(F, "critical")
           B == NamedSo(F, "warning")
           C == NamedSo(F, "unknown")
<1>1. \A k \in F : statuses[k].exit_code \in Nat /\ statuses[k].exit_code # 0
  BY KnownFacts DEF Failing
<1>2. A = OfCode(F, 2) /\ B = OfCode(F, 1)
  BY <1>1, StatusNames DEF NamedSo, OfCode
<1>3. \A k \in F : k \in A \/ k \in B \/ k \in C
  BY <1>1, StatusNames DEF NamedSo
<1>4. /\ F = (A \cup B) \cup C /\ A \cap B = {} /\ (A \cup B) \cap C = {}
      /\ A \subseteq F /\ B \subseteq F /\ C \subseteq F
  BY <1>3 DEF NamedSo
<1> HIDE DEF A, B, C
<1>5. IsFiniteSet(F) /\ IsFiniteSet(A) /\ IsFiniteSet(B) /\ IsFiniteSet(C)
  BY <1>4, KnownFacts, FS_Subset
<1>6. IsFiniteSet(A \cup B) /\ Cardinality(A \cup B) = Cardinality(A) + Cardinality(B)
  BY <1>4, <1>5, DisjointCount
<1>7. Cardinality((A \cup B) \cup C) = Cardinality(A \cup B) + Cardinality(C)
  BY <1>4, <1>5, <1>6, DisjointCount
<1> QED BY <1>2, <1>4, <1>5, <1>6, <1>7 DEF A, B, C

LEMMA CodesSplit ==
  ASSUME TypeOK
  PROVE  Cardinality(OfCode(Known, 0)) + Cardinality(OfCode(Known, 1))
           + Cardinality(OfCode(Known, 2)) + Cardinality(OfCode(Known, 3))
         = Cardinality({k \in Known : statuses[k].exit_code <= 3})
<1> DEFINE A == OfCode(Known, 0)
           B == OfCode(Known, 1)
           C == OfCode(Known, 2)
           E == OfCode(Known, 3)
           J == {k \in Known : statuses[k].exit_code <= 3}
<1>1. \A k \in Known : statuses[k].exit_code \in Nat
  BY KnownFacts
<1>2. \A n \in Nat : n <= 3 <=> n = 0 \/ n = 1 \/ n = 2 \/ n = 3
  OBVIOUS
<1>3. J = ((A \cup B) \cup C) \cup E
  BY <1>1, <1>2 DEF OfCode
<1>4. A \cap B = {} /\ (A \cup B) \cap C = {} /\ ((A \cup B) \cup C) \cap E = {}
  BY DEF OfCode
<1>5. A \subseteq Known /\ B \subseteq Known /\ C \subseteq Known /\ E \subseteq Known
  BY DEF OfCode
<1> HIDE DEF A, B, C, E, J
<1>6. IsFiniteSet(A) /\ IsFiniteSet(B) /\ IsFiniteSet(C) /\ IsFiniteSet(E)
  BY <1>5, KnownFacts, FS_Subset
<1>7. IsFiniteSet(A \cup B) /\ Cardinality(A \cup B) = Cardinality(A) + Cardinality(B)
  BY <1>4, <1>6, DisjointCount
<1>8. /\ IsFiniteSet((A \cup B) \cup C)
      /\ Cardinality((A \cup B) \cup C) = Cardinality(A \cup B) + Cardinality(C)
  BY <1>4, <1>6, <1>7, DisjointCount
<1>9. Cardinality(((A \cup B) \cup C) \cup E) = Cardinality((A \cup B) \cup C) + Cardinality(E)
  BY <1>4, <1>6, <1>8, DisjointCount
<1> QED BY <1>3, <1>7, <1>8, <1>9 DEF A, B, C, E, J

\* The latest result is on top of the activity.
LEMMA LatestFirst ==
  ASSUME TypeOK, Cardinality(Known) <= Limit["stats"], NEW k \in Known
  PROVE  statuses[k].timestamp <= recentActivity[1].timestamp
<1> DEFINE limit == Limit["stats"]
           n == Limit["activity"]
           ks == Found(HostIds, CheckIds, limit)
           list == getStatus(HostIds, CheckIds, limit)
           D == DOMAIN list
           t == StableSort(list, LAMBDA a, b : a.timestamp > b.timestamp)
           p == [i \in D |-> 0 - list[i].timestamp]
           before == Ranked(D, p, p)
           R == {e \in D \X D :
                   \/ list[e[1]].timestamp > list[e[2]].timestamp
                   \/ ~(list[e[2]].timestamp > list[e[1]].timestamp) /\ e[1] < e[2]}
<1>1. limit \in Nat \ {0} /\ n \in Nat \ {0}
  BY IdsAssumption DEF LimitFields
<1>2. recentActivity = Cut(t, n) /\ t = Sorted(list, R)
  BY DEF recentActivity, StableSort
<1>3. Lists(ks, Known)
  <2>1. Asked(HostIds, CheckIds) = Known
    BY KnownFacts DEF Asked
  <2> QED BY <1>1, <2>1, FoundFacts
<1>4. SetOf(ks) = Known
  BY <1>3 DEF Lists
<1>5. /\ Lists(list, SetOf(list)) /\ D = DOMAIN ks
      /\ \A i \in D : ks[i] \in Known /\ list[i] = StatusResponse(ks[i])
      /\ \A l \in Known : \E i \in D : ks[i] = l
  BY <1>1, <1>4, StatusesListed
<1>6. \A i \in D : list[i].timestamp \in Nat /\ list[i].timestamp = statuses[ks[i]].timestamp
  <2> SUFFICES ASSUME NEW i \in D
               PROVE  /\ list[i].timestamp \in Nat
                      /\ list[i].timestamp = statuses[ks[i]].timestamp
    OBVIOUS
  <2> HIDE DEF limit, ks, list, D
  <2>1. list[i] = StatusResponse(ks[i]) /\ ks[i] \in Known
    BY <1>5
  <2>2. StatusResponse(ks[i]).timestamp = statuses[ks[i]].timestamp
    BY DEF StatusResponse
  <2> QED BY <2>1, <2>2, KnownFacts
<1> HIDE DEF limit, ks, list
<1>7. p \in [D -> Int] /\ \A i \in D : p[i] = 0 - list[i].timestamp
  BY <1>6
<1> HIDE DEF p
<1>8. R = StableOrder(D, before)
  <2>1. ASSUME NEW e \in D \X D
        PROVE  /\ e \in before <=> list[e[1]].timestamp > list[e[2]].timestamp
               /\ <<e[2], e[1]>> \in before <=> list[e[2]].timestamp > list[e[1]].timestamp
    BY <1>6, <1>7 DEF Ranked
  <2> HIDE DEF before, D
  <2> QED BY <2>1 DEF StableOrder
<1> HIDE DEF t, R
<1>9. /\ Lists(t, SetOf(list))
      /\ \A i, j \in DOMAIN t : i < j =>
           \E x, y \in DOMAIN list : /\ t[i] = list[x] /\ t[j] = list[y]
                                     /\ p[x] < p[y] \/ (p[x] = p[y] /\ p[x] <= p[y])
  <2>1. p \in [DOMAIN list -> Int] /\ t = Sorted(list, StableOrder(DOMAIN list, Ranked(DOMAIN list, p, p)))
    BY <1>2, <1>7, <1>8
  <2> HIDE DEF D, before
  <2> QED BY <1>5, <2>1, RankSorted
<1>10. PICK x \in D : list[x].timestamp = statuses[k].timestamp /\ list[x] \in SetOf(list)
  BY <1>5, <1>6 DEF SetOf
<1>11. PICK j \in DOMAIN t : t[j] = list[x]
  BY <1>9, <1>10, ListedIsAt
<1>12. DOMAIN t = 1..Len(t) /\ Len(t) \in Nat /\ t \in Seq(SetOf(list))
  BY <1>9, ListedIsAt DEF Lists
<1>13. t[j].timestamp <= t[1].timestamp
  <2>1. CASE j = 1
    BY <1>6, <1>10, <1>11, <2>1
  <2>2. CASE j # 1
    <3>1. 1 \in DOMAIN t /\ 1 < j
      BY <1>11, <1>12, <2>2
    <3>2. PICK u \in D, v \in D :
            /\ t[1] = list[u] /\ t[j] = list[v]
            /\ p[u] < p[v] \/ (p[u] = p[v] /\ p[u] <= p[v])
      BY <1>9, <1>11, <3>1
    <3>3. p[u] <= p[v]
      BY <1>7, <3>2
    <3> QED BY <1>6, <1>7, <3>2, <3>3
  <2> QED BY <2>1, <2>2
<1>14. recentActivity[1] = t[1]
  <2>1. CASE Len(t) <= n
    BY <1>2, <2>1 DEF Cut
  <2>2. CASE ~(Len(t) <= n)
    <3>1. recentActivity = SubSeq(t, 1, n) /\ n \in 1..Len(t)
      BY <1>1, <1>2, <1>12, <2>2 DEF Cut
    <3> QED BY <1>12, <3>1, SubSeqProperties
  <2> QED BY <2>1, <2>2
<1> QED BY <1>10, <1>11, <1>13, <1>14

LEMMA StateTellsAll == TypeOK => AlertsTellAll
<1> DEFINE alerts == loadAlerts
           metrics == alertMetrics(alerts)
           stats == loadStats
           failing == {k \in Known : Failing(k)}
           Name(k) == getStatusName(statuses[k].exit_code)
           Worse(k, l) == \/ SeverityOrder[Name(k)] > SeverityOrder[Name(l)]
                          \/ Name(k) = Name(l) /\ statuses[k].timestamp > statuses[l].timestamp
           Key(a) == <<a.host, a.check>>
           T == {AlertOf(k) : k \in failing}
<1> SUFFICES ASSUME TypeOK, \A f \in {"alerts", "stats"} : Cardinality(Known) <= Limit[f]
             PROVE  /\ Len(alerts) = Cardinality(failing) /\ {Key(a) : a \in SetOf(alerts)} = failing
                    /\ SaysHealthy(alerts) = (failing = {})
                    /\ \A j \in DOMAIN alerts : \A i \in 1 .. j - 1 : ~Worse(Key(alerts[j]), Key(alerts[i]))
                    /\ metrics.active = Len(filteredAlerts(alerts, "all"))
                    /\ metrics.active = metrics.critical + metrics.warning
                                        + Len(filteredAlerts(alerts, "unknown"))
                    /\ metrics.critical = stats.critical /\ metrics.warning = stats.warning
                    /\ stats.ok + stats.warning + stats.critical + stats.unknown
                         = Cardinality({k \in Known : statuses[k].exit_code <= 3})
                    /\ Known # {} => \A k \in Known : statuses[k].timestamp <= recentActivity[1].timestamp
  BY DEF AlertsTellAll
<1>1. /\ Cardinality(Known) <= Limit["alerts"] /\ Cardinality(Known) <= Limit["stats"]
      /\ Limit["alerts"] \in Nat \ {0} /\ Limit["stats"] \in Nat \ {0}
  BY IdsAssumption DEF LimitFields
<1>2. Asked(HostIds, CheckIds) = Known
  BY KnownFacts DEF Asked
<1>3. FailuresFound = failing
  <2>1. Lists(Found(HostIds, CheckIds, Limit["alerts"]), Known)
    BY <1>1, <1>2, FoundFacts
  <2> QED BY <2>1 DEF FailuresFound, Lists
<1>4. /\ Lists(alerts, T)
      /\ \A k \in failing : AlertOf(k).severity \in {"critical", "warning", "unknown"}
      /\ \A i, j \in DOMAIN alerts : i < j => NotAfter(alerts[i], alerts[j])
  BY <1>3, AlertsFacts
<1> HIDE DEF alerts
<1>5. failing \subseteq Known /\ IsFiniteSet(failing)
  BY KnownFacts, FS_Subset
<1>6. \A k, l \in failing : k # l => AlertOf(k) # AlertOf(l)
  BY AlertFacts
<1>7. \A k \in failing : /\ Key(AlertOf(k)) = k /\ AlertOf(k).severity = Name(k)
                         /\ AlertOf(k).timestamp = statuses[k].timestamp
                         /\ statuses[k].timestamp \in Nat
  BY AlertFacts, KnownFacts
<1>8. Cardinality(T) = Cardinality(failing)
  <2> DEFINE f == [k \in failing |-> AlertOf(k)]
  <2>1. f = [k \in failing |-> f[k]] /\ \A k, l \in failing : k # l => f[k] # f[l]
    BY <1>6
  <2>2. {f[k] : k \in failing} = T
    OBVIOUS
  <2> HIDE DEF f, failing, T
  <2> QED BY <1>5, <2>1, <2>2, ValuesCount
<1>9. Len(alerts) = Cardinality(failing)
  BY <1>4, <1>8 DEF Lists
<1>10. {Key(a) : a \in SetOf(alerts)} = failing
  <2>1. SetOf(alerts) = T
    BY <1>4 DEF Lists
  <2>2. \A a \in SetOf(alerts) : Key(a) \in failing
    BY <1>7, <2>1
  <2>3. \A k \in failing : AlertOf(k) \in SetOf(alerts) /\ Key(AlertOf(k)) = k
    BY <1>7, <2>1
  <2> HIDE DEF failing, Key
  <2> QED BY <2>2, <2>3
<1>11. SaysHealthy(alerts) = (failing = {})
  <2>1. (alerts = <<>>) = (T = {})
    BY <1>4, ListsNothing
  <2>2. T = {} <=> failing = {}
    OBVIOUS
  <2> HIDE DEF T, failing
  <2> QED BY <2>1, <2>2 DEF SaysHealthy
<1>12. \A j \in DOMAIN alerts : \A i \in 1 .. j - 1 : ~Worse(Key(alerts[j]), Key(alerts[i]))
  <2> SUFFICES ASSUME NEW j \in DOMAIN alerts, NEW i \in 1 .. j - 1
               PROVE  ~Worse(Key(alerts[j]), Key(alerts[i]))
    OBVIOUS
  <2>1. i \in DOMAIN alerts /\ i < j
    BY <1>4, ListedIsAt
  <2>2. PICK k \in failing, l \in failing : alerts[i] = AlertOf(k) /\ alerts[j] = AlertOf(l)
    BY <1>4, <2>1, ListedIsAt
  <2>3. NotAfter(AlertOf(k), AlertOf(l))
    BY <1>4, <2>1, <2>2
  <2>4. /\ Key(alerts[i]) = k /\ Key(alerts[j]) = l
        /\ AlertOf(k).severity = Name(k) /\ AlertOf(l).severity = Name(l)
        /\ AlertOf(k).timestamp = statuses[k].timestamp
        /\ AlertOf(l).timestamp = statuses[l].timestamp
        /\ statuses[k].timestamp \in Nat /\ statuses[l].timestamp \in Nat
    BY <1>7, <2>2
  <2>5. Name(k) \in {"critical", "warning", "unknown"} /\ Name(l) \in {"critical", "warning", "unknown"}
    BY <1>4, <2>4
  <2> DEFINE a == Name(k)
             b == Name(l)
  <2>6. \/ SeverityOrder[b] < SeverityOrder[a]
        \/ a = b /\ statuses[l].timestamp <= statuses[k].timestamp
    BY <2>3, <2>4 DEF NotAfter
  <2>7. SeverityOrder[a] \in Nat /\ SeverityOrder[b] \in Nat
    BY <2>5, Severity
  <2> HIDE DEF Key, Name, failing
  <2>8. ~Worse(l, k)
    BY <2>4, <2>6, <2>7
  <2> HIDE DEF Worse
  <2> QED BY <2>4, <2>8
<1>13. metrics.active = Len(alerts)
  <2> DEFINE keep == [i \in DOMAIN alerts |-> alerts[i].severity # "ok"]
  <2>1. metrics.active = Len(Selected(alerts, keep))
    BY Zenon DEF alertMetrics, activeAlerts, Filter
  <2>2. \A i \in DOMAIN alerts : alerts[i].severity # "ok"
    BY <1>4, ListedIsAt
  <2>3. Keeping(alerts, keep) = DOMAIN alerts
    BY <2>2 DEF Keeping
  <2>4. alerts \in Seq(T)
    BY <1>4 DEF Lists
  <2> HIDE DEF keep, T
  <2>5. Selected(alerts, keep) = alerts
    BY <2>3, <2>4, SelectedFacts
  <2> QED BY <2>1, <2>5
<1>14. metrics.active = Len(filteredAlerts(alerts, "all"))
  BY Zenon DEF alertMetrics, filteredAlerts
<1>15. /\ metrics.critical = Cardinality(NamedSo(failing, "critical"))
       /\ metrics.warning = Cardinality(NamedSo(failing, "warning"))
       /\ Len(filteredAlerts(alerts, "unknown")) = Cardinality(NamedSo(failing, "unknown"))
  <2>1. /\ metrics.critical = Len(OfSeverity(alerts, "critical"))
        /\ metrics.warning = Len(OfSeverity(alerts, "warning"))
        /\ filteredAlerts(alerts, "unknown") = OfSeverity(alerts, "unknown")
    BY Zenon DEF alertMetrics, filteredAlerts
  <2>2. \A severity : Len(OfSeverity(alerts, severity)) = Cardinality(NamedSo(failing, severity))
    <3>1. Lists(alerts, {AlertOf(k) : k \in failing}) /\ failing \in SUBSET Known
      BY <1>4, <1>5
    <3> HIDE DEF failing
    <3> QED BY <3>1, SeverityCount
  <2> QED BY <2>1, <2>2
<1>16. /\ NamedSo(failing, "critical") = OfCode(Known, 2)
       /\ NamedSo(failing, "warning") = OfCode(Known, 1)
       /\ Cardinality(failing) = Cardinality(NamedSo(failing, "critical"))
                                 + Cardinality(NamedSo(failing, "warning"))
                                 + Cardinality(NamedSo(failing, "unknown"))
  <2>1. failing \in SUBSET Known /\ \A k \in failing : Failing(k)
    BY <1>5
  <2>2. OfCode(failing, 2) = OfCode(Known, 2) /\ OfCode(failing, 1) = OfCode(Known, 1)
    BY DEF OfCode, Failing
  <2> HIDE DEF failing
  <2> QED BY <2>1, <2>2, SeveritiesSplit
<1>17. /\ stats.ok = Cardinality(OfCode(Known, 0)) /\ stats.warning = Cardinality(OfCode(Known, 1))
       /\ stats.critical = Cardinality(OfCode(Known, 2))
       /\ stats.unknown = Cardinality(OfCode(Known, 3))
  <2> DEFINE limit == Limit["stats"]
             ks == Found(HostIds, CheckIds, limit)
             list == getStatus(HostIds, CheckIds, limit)
  <2>1. Lists(ks, Known) /\ IsStatusList(list, ks)
    BY <1>1, <1>2, FoundFacts, StatusesFacts
  <2>2. stats = StatusCounts(list)
    BY DEF loadStats
  <2> HIDE DEF ks, list, stats
  <2>3. \A code : CountOf(list, code) = Cardinality(OfCode(Known, code))
    BY <2>1, CountFacts
  <2> QED BY <2>2, <2>3 DEF StatusCounts
<1>18. stats.ok + stats.warning + stats.critical + stats.unknown
         = Cardinality({k \in Known : statuses[k].exit_code <= 3})
  BY <1>17, CodesSplit
<1>19. \A k \in Known : statuses[k].timestamp <= recentActivity[1].timestamp
  BY <1>1, LatestFirst
<1> HIDE DEF metrics, stats, failing, Key, Worse
<1>20. metrics.active = metrics.critical + metrics.warning + Len(filteredAlerts(alerts, "unknown"))
  BY <1>9, <1>13, <1>15, <1>16
<1>21. metrics.critical = stats.critical /\ metrics.warning = stats.warning
  BY <1>15, <1>16, <1>17
<1> QED BY <1>9, <1>10, <1>11, <1>12, <1>14, <1>18, <1>19, <1>20, <1>21

\* Every failure that is known is an alert, once and in order, and the numbers of
\* both pages are of the same failures, for any number of hosts and checks.
THEOREM EveryFailureIsAnAlert == Spec => []AlertsTellAll
BY StoreTypeCorrect, StateTellsAll, PTL

-----------------------------------------------------------------------------
(***************************************************************************)
(* The page of an alert.                                                   *)
(***************************************************************************)
\* What the list of hosts tells of the failures there are.
HostsTell ==
  /\ getHosts \in Seq(SetOf(getHosts))
  /\ \A host \in SetOf(getHosts) :
       /\ host.id \in hosts
       /\ host.soft_fail_info \in Seq(SetOf(host.soft_fail_info))
       /\ \A info \in SetOf(host.soft_fail_info) :
            /\ info.check_id \in CheckIds /\ info.check_name = CheckLabel(info.check_id)
            /\ FailsAt(statuses[<<host.id, info.check_id>>])
  /\ \A h \in hosts : Cardinality(KnownOf(h)) <= Limit["alerts"] =>
       \E host \in SetOf(getHosts) : host.id = h /\ \A c \in CheckIds :
         FailsAt(statuses[<<h, c>>]) => \E info \in SetOf(host.soft_fail_info) : info.check_id = c

LEMMA StateTells == TypeOK => HostsTell
<1> SUFFICES ASSUME TypeOK PROVE HostsTell
  OBVIOUS
<1>1. getHosts \in Seq(SetOf(getHosts)) /\ SetOf(getHosts) = {HostResponse(h) : h \in hosts}
  BY HostsFacts
<1>2. ASSUME NEW h \in hosts
      PROVE  /\ HostResponse(h).id = h
             /\ HostResponse(h).soft_fail_info \in Seq(SetOf(HostResponse(h).soft_fail_info))
             /\ \A info \in SetOf(HostResponse(h).soft_fail_info) :
                  /\ info.check_id \in CheckIds /\ info.check_name = CheckLabel(info.check_id)
                  /\ FailsAt(statuses[<<h, info.check_id>>])
             /\ Cardinality(KnownOf(h)) <= Limit["alerts"] => \A c \in CheckIds :
                  FailsAt(statuses[<<h, c>>]) =>
                    \E info \in SetOf(HostResponse(h).soft_fail_info) : info.check_id = c
  <2> DEFINE infos == HostResponse(h).soft_fail_info
  <2>1. h \in HostIds
    BY DEF TypeOK
  <2>2. HostResponse(h).id = h
    BY <2>1, HostFacts
  <2>3. PICK J \in SUBSET FailingOf(h) :
          /\ infos \in Seq({SoftFailInfo(k) : k \in J})
          /\ SetOf(infos) = {SoftFailInfo(k) : k \in J}
          /\ FitsIn(h, {"alerts"}) => J = FailingOf(h)
    BY <2>1, HostFacts
  <2> HIDE DEF infos
  <2>4. ASSUME NEW k \in FailingOf(h)
        PROVE  /\ k = <<h, k[2]>> /\ k[2] \in CheckIds /\ FailsAt(statuses[k])
               /\ SoftFailInfo(k).check_id = k[2] /\ SoftFailInfo(k).check_name = CheckLabel(k[2])
    <3>1. k \in Known /\ k[1] = h /\ Failing(k) /\ statuses[k] # None
      BY DEF FailingOf, KnownOf, Known
    <3>2. k = <<k[1], k[2]>> /\ k[2] \in CheckIds
      BY <3>1, KnownFacts
    <3> QED BY <3>1, <3>2 DEF Failing, FailsAt, SoftFailInfo
  <2>5. ASSUME NEW info \in SetOf(infos)
        PROVE  /\ info.check_id \in CheckIds /\ info.check_name = CheckLabel(info.check_id)
               /\ FailsAt(statuses[<<h, info.check_id>>])
    <3>1. PICK k \in J : info = SoftFailInfo(k)
      BY <2>3
    <3> QED BY <2>4, <3>1
  <2>6. ASSUME Cardinality(KnownOf(h)) <= Limit["alerts"],
               NEW c \in CheckIds, FailsAt(statuses[<<h, c>>])
        PROVE  \E info \in SetOf(infos) : info.check_id = c
    <3> DEFINE k == <<h, c>>
    <3>1. k \in FailingOf(h)
      BY <2>1, <2>6 DEF FailingOf, KnownOf, Known, FailsAt, Failing
    <3>2. k[2] = c
      OBVIOUS
    <3> HIDE DEF k
    <3>3. SoftFailInfo(k) \in SetOf(infos) /\ SoftFailInfo(k).check_id = k[2]
      BY <2>3, <2>4, <2>6, <3>1 DEF FitsIn
    <3> QED BY <3>2, <3>3
  <2> QED BY <2>2, <2>3, <2>5, <2>6 DEF infos
<1> QED BY <1>1, <1>2 DEF HostsTell

\* The statuses the page has of an alert.
LEMMA AlertStatusesFacts ==
  ASSUME TypeOK, NEW alert, NEW list, list = AlertStatuses(alert)
  PROVE  /\ list \in Seq(SetOf(list))
         /\ \A s \in SetOf(list) :
              /\ s.check_id = alert.check /\ s.timestamp \in Nat \ {0}
              /\ s.exit_code > 0 => FailsAt(statuses[<<s.host_id, alert.check>>])
<1> DEFINE limit == Limit["alert_page"]
           cs == {alert.check}
           ks == Found(HostIds, cs, limit)
<1>1. limit \in Nat \ {0} /\ list = getStatus(HostIds, cs, limit)
  BY IdsAssumption DEF LimitFields, AlertStatuses
<1>2. /\ Lists(list, SetOf(list)) /\ SetOf(ks) \subseteq Asked(HostIds, cs)
      /\ SetOf(list) = {StatusResponse(k) : k \in SetOf(ks)}
  <2> HIDE DEF limit, cs
  <2> QED BY <1>1, StatusesListed
<1> HIDE DEF ks, limit
<1>3. ASSUME NEW s \in SetOf(list)
      PROVE  /\ s.check_id = alert.check /\ s.timestamp \in Nat \ {0}
             /\ s.exit_code > 0 => FailsAt(statuses[<<s.host_id, alert.check>>])
  <2>1. PICK k \in SetOf(ks) : s = StatusResponse(k)
    BY <1>2
  <2>2. k \in Known /\ k[2] = alert.check
    BY <1>2 DEF Asked
  <2>3. /\ k = <<k[1], k[2]>> /\ statuses[k] # None
        /\ statuses[k].exit_code \in Nat /\ statuses[k].timestamp \in Nat \ {0}
    BY <2>2, KnownFacts DEF Known
  <2>4. /\ s.host_id = k[1] /\ s.check_id = k[2]
        /\ s.exit_code = statuses[k].exit_code /\ s.timestamp = statuses[k].timestamp
    BY <2>1 DEF StatusResponse
  <2> QED BY <2>2, <2>3, <2>4 DEF FailsAt
<1> QED BY <1>2, <1>3 DEF Lists

\* The hosts on the page and their rows, whatever the two answers were.
Touched(host, alert, list) ==
  \/ \E info \in SetOf(host.soft_fail_info) : IsAbout(info, alert)
  \/ \E s \in SetOf(list) : s.host_id = host.id /\ s.exit_code > 0

LEMMA AffectedFacts ==
  ASSUME NEW H, NEW hostList \in Seq(H), NEW alert, NEW list
  PROVE  /\ affectedHosts(alert, list, hostList) \in Seq(H)
         /\ SetOf(affectedHosts(alert, list, hostList)) =
              {host \in SetOf(hostList) : Touched(host, alert, list)}
<1> DEFINE keep == [i \in DOMAIN hostList |-> Touched(hostList[i], alert, list)]
           t == affectedHosts(alert, list, hostList)
<1>1. t = Selected(hostList, keep)
  BY DEF affectedHosts, Filter, Touched
<1>2. Keeping(hostList, keep) = {i \in DOMAIN hostList : Touched(hostList[i], alert, list)}
  BY DEF Keeping
<1> HIDE DEF t, keep
<1>3. t \in Seq(H) /\ SetOf(t) = {hostList[i] : i \in Keeping(hostList, keep)}
  BY <1>1, SelectedFacts
<1>4. SetOf(t) = {host \in SetOf(hostList) : Touched(host, alert, list)}
  BY <1>2, <1>3 DEF SetOf
<1> QED BY <1>3, <1>4 DEF t

TimeOf(host, list) ==
  LET found == Filter(list, LAMBDA s : s.host_id = host.id)
  IN  IF found = <<>> THEN 0 ELSE found[1].timestamp

FailuresOf(host, alert) ==
  Cut(Filter(host.soft_fail_info, LAMBDA info : IsAbout(info, alert)), 1)

RowOf(host, alert, list) ==
  [id |-> host.id, lastAlertTime |-> TimeOf(host, list), softFailInfo |-> FailuresOf(host, alert)]

LEMMA RowFacts ==
  ASSUME NEW L, NEW list \in Seq(L), \A s \in SetOf(list) : s.timestamp \in Nat \ {0},
         NEW alert, NEW host, host.soft_fail_info \in Seq(SetOf(host.soft_fail_info))
  PROVE  /\ TimeOf(host, list) \in Nat
         /\ Touched(host, alert, list) =>
              TimeOf(host, list) # 0 \/ FailuresOf(host, alert) # <<>>
<1> DEFINE keep == [i \in DOMAIN list |-> list[i].host_id = host.id]
           found == Selected(list, keep)
           infos == host.soft_fail_info
           about == [i \in DOMAIN infos |-> IsAbout(infos[i], alert)]
           fails == Selected(infos, about)
<1>1. /\ TimeOf(host, list) = IF found = <<>> THEN 0 ELSE found[1].timestamp
      /\ FailuresOf(host, alert) = Cut(fails, 1)
  BY DEF TimeOf, FailuresOf, Filter
<1>2. /\ \A i : i \in Keeping(list, keep) <=> i \in DOMAIN list /\ list[i].host_id = host.id
      /\ \A i : i \in Keeping(infos, about) <=> i \in DOMAIN infos /\ IsAbout(infos[i], alert)
  BY DEF Keeping
<1> DEFINE S == SetOf(infos)
<1>3. infos \in Seq(S)
  OBVIOUS
<1> HIDE DEF keep, about, infos, S
<1>4. found \in Seq(L) /\ SetOf(found) = {list[i] : i \in Keeping(list, keep)}
  BY SelectedFacts
<1>5. fails \in Seq(S) /\ SetOf(fails) = {infos[i] : i \in Keeping(infos, about)}
  BY <1>3, SelectedFacts
<1> HIDE DEF found, fails
<1>6. found # <<>> => found[1] \in SetOf(found)
  <2>1. found # <<>> => 1 \in DOMAIN found
    BY <1>4
  <2> QED BY <2>1 DEF SetOf
<1>7. SetOf(found) \subseteq SetOf(list)
  BY <1>2, <1>4 DEF SetOf
<1>8. found # <<>> => found[1].timestamp \in Nat \ {0}
  BY <1>6, <1>7
<1>9. TimeOf(host, list) \in Nat /\ (found # <<>> => TimeOf(host, list) # 0)
  BY <1>1, <1>8
<1>10. fails # <<>> => Cut(fails, 1) # <<>>
  <2>1. CASE Len(fails) <= 1
    BY <2>1 DEF Cut
  <2>2. CASE ~(Len(fails) <= 1)
    <3>1. Cut(fails, 1) = SubSeq(fails, 1, 1) /\ 1 \in 1..Len(fails)
      BY <1>5, <2>2 DEF Cut
    <3>2. Len(SubSeq(fails, 1, 1)) = 1
      BY <1>5, <3>1, SubSeqProperties
    <3> QED BY <3>1, <3>2
  <2> QED BY <2>1, <2>2
<1>11. ASSUME NEW s \in SetOf(list), s.host_id = host.id PROVE found # <<>>
  <2>1. PICK i \in DOMAIN list : s = list[i]
    BY DEF SetOf
  <2>2. s \in SetOf(found)
    BY <1>2, <1>4, <1>11, <2>1
  <2> QED BY <2>2 DEF SetOf
<1>12. ASSUME NEW info \in SetOf(infos), IsAbout(info, alert) PROVE fails # <<>>
  <2>1. PICK i \in DOMAIN infos : info = infos[i]
    BY DEF SetOf
  <2>2. info \in SetOf(fails)
    BY <1>2, <1>5, <1>12, <2>1
  <2> QED BY <2>2 DEF SetOf
<1> QED BY <1>1, <1>9, <1>10, <1>11, <1>12 DEF Touched, infos

LEMMA RowsFacts ==
  ASSUME NEW H, NEW hostList \in Seq(H), \A host \in SetOf(hostList) :
           host.soft_fail_info \in Seq(SetOf(host.soft_fail_info)),
         NEW L, NEW list \in Seq(L), \A s \in SetOf(list) : s.timestamp \in Nat \ {0},
         NEW alert, NEW rows, rows = getHostsAffectedByThisAlert(alert, list, hostList)
  PROVE  SetOf(rows) = {RowOf(host, alert, list) : host \in SetOf(affectedHosts(alert, list, hostList))}
<1> DEFINE aff == affectedHosts(alert, list, hostList)
           m == [i \in DOMAIN aff |-> RowOf(aff[i], alert, list)]
           T == {m[i] : i \in DOMAIN aff}
           D == DOMAIN m
           R == {e \in D \X D :
                   \/ m[e[1]].lastAlertTime > m[e[2]].lastAlertTime
                   \/ ~(m[e[2]].lastAlertTime > m[e[1]].lastAlertTime) /\ e[1] < e[2]}
           Row(host) == RowOf(host, alert, list)
<1>1. rows = StableSort(Mapped(aff, Row), LAMBDA a, b : a.lastAlertTime > b.lastAlertTime)
  BY DEF getHostsAffectedByThisAlert, RowOf, TimeOf, FailuresOf
<1>2. Mapped(aff, Row) = SubSeq(m, 1, Len(aff))
  BY DEF Mapped
<1>3. aff \in Seq(H) /\ SetOf(aff) = {host \in SetOf(hostList) : Touched(host, alert, list)}
  BY AffectedFacts
<1> HIDE DEF aff
<1>4. \A i \in DOMAIN aff : aff[i] \in SetOf(hostList)
  BY <1>3 DEF SetOf
<1>5. \A i \in DOMAIN aff : m[i].lastAlertTime \in Nat
  <2> SUFFICES ASSUME NEW i \in DOMAIN aff PROVE m[i].lastAlertTime \in Nat
    OBVIOUS
  <2>1. m[i].lastAlertTime = TimeOf(aff[i], list)
    BY DEF RowOf
  <2>2. aff[i].soft_fail_info \in Seq(SetOf(aff[i].soft_fail_info))
    BY <1>4
  <2> QED BY <2>1, <2>2, RowFacts
<1>6. T = {RowOf(host, alert, list) : host \in SetOf(aff)}
  BY DEF SetOf
<1>7. m = [i \in DOMAIN aff |-> m[i]]
  OBVIOUS
<1> HIDE DEF m
<1>8. SubSeq(m, 1, Len(aff)) = m /\ m \in Seq(T) /\ D = DOMAIN aff /\ SetOf(m) = T
  <2> DEFINE n == Len(aff)
  <2>1. n \in Nat /\ DOMAIN aff = 1..n
    BY <1>3
  <2>2. m \in [1..n -> T]
    BY <1>7, <2>1
  <2>3. SetOf(m) = T /\ D = 1..n
    BY <2>1, <2>2 DEF SetOf
  <2> HIDE DEF T, n
  <2>4. SubSeq(m, 1, n) = m /\ m \in Seq(T)
    BY <2>1, <2>2, WholeList
  <2> QED BY <2>1, <2>3, <2>4 DEF n
<1>9. rows = Sorted(m, R)
  BY <1>1, <1>2, <1>8 DEF StableSort
<1> DEFINE p == [i \in D |-> 0 - m[i].lastAlertTime]
           before == Ranked(D, p, p)
<1>10. p \in [D -> Int] /\ \A i \in D : p[i] = 0 - m[i].lastAlertTime
  BY <1>5, <1>8
<1>11. Compares(D, before)
  BY <1>10, RankedCompares
<1> HIDE DEF p
<1>12. R = StableOrder(D, before)
  <2>1. ASSUME NEW i \in D, NEW j \in D
        PROVE  <<i, j>> \in before <=> m[i].lastAlertTime > m[j].lastAlertTime
    <3>1. <<i, j>> \in before <=> p[i] < p[j] \/ (p[i] = p[j] /\ p[i] < p[j])
      BY DEF Ranked
    <3>2. m[i].lastAlertTime \in Nat /\ m[j].lastAlertTime \in Nat
      BY <1>5, <1>8
    <3> QED BY <1>10, <3>1, <3>2
  <2>2. ASSUME NEW e \in D \X D
        PROVE  /\ e \in before <=> m[e[1]].lastAlertTime > m[e[2]].lastAlertTime
               /\ <<e[2], e[1]>> \in before <=> m[e[2]].lastAlertTime > m[e[1]].lastAlertTime
    BY <2>1
  <2> HIDE DEF before, D
  <2> QED BY <2>2 DEF StableOrder
<1>13. SetOf(rows) = SetOf(m)
  <2>1. Compares(DOMAIN m, before) /\ rows = Sorted(m, StableOrder(DOMAIN m, before))
    BY <1>9, <1>11, <1>12
  <2> HIDE DEF before, D, R, T
  <2>2. IsSortOf(rows, m, before)
    BY <1>8, <2>1, SortedFacts
  <2> QED BY <2>2 DEF IsSortOf
<1> QED BY <1>6, <1>8, <1>13 DEF aff

LEMMA FoundByFailures ==
  ASSUME NEW H, NEW hostList \in Seq(H), NEW alert, NEW list
  PROVE  SetOf(findHostsWithAlert(alert, hostList)) \subseteq SetOf(affectedHosts(alert, list, hostList))
<1> DEFINE About(host) == \E info \in SetOf(host.soft_fail_info) :
                            info.check_id = alert.check \/ info.check_name = alert.check_name
           keep == [i \in DOMAIN hostList |-> About(hostList[i])]
           t == findHostsWithAlert(alert, hostList)
<1>1. t = Selected(hostList, keep)
  BY DEF findHostsWithAlert, Filter
<1>2. \A i \in Keeping(hostList, keep) : i \in DOMAIN hostList /\ About(hostList[i])
  BY DEF Keeping
<1> HIDE DEF t, keep
<1>3. SetOf(t) = {hostList[i] : i \in Keeping(hostList, keep)}
  BY <1>1, SelectedFacts
<1>4. \A host : About(host) => Touched(host, alert, list)
  BY DEF Touched, IsAbout
<1> HIDE DEF About
<1>5. \A host \in SetOf(t) : host \in SetOf(hostList) /\ Touched(host, alert, list)
  BY <1>2, <1>3, <1>4 DEF SetOf
<1> QED BY <1>5, AffectedFacts DEF t

LEMMA HistoryIsAll ==
  ASSUME NEW L, NEW list \in Seq(L), NEW alert, \A s \in SetOf(list) : s.check_id = alert.check,
         Len(list) <= Limit["history"]
  PROVE  getRecentAlertHistory(alert, list) = list
<1> DEFINE keep == [i \in DOMAIN list |->
                      list[i].check_id = alert.check \/ list[i].check_name = alert.check_name]
<1>1. getRecentAlertHistory(alert, list) = Cut(Selected(list, keep), Limit["history"])
  BY DEF getRecentAlertHistory, Filter
<1>2. Keeping(list, keep) = DOMAIN list
  BY DEF Keeping, SetOf
<1> HIDE DEF keep
<1>3. Selected(list, keep) = list
  BY <1>2, SelectedFacts
<1> QED BY <1>1, <1>3 DEF Cut

LEMMA StepTells ==
  ASSUME TypeOK, HostsTell', NEW later, later = getHosts', NEW alert, alert.check \in CheckIds,
         NEW list, list = AlertStatuses(alert),
         NEW rows, rows = getHostsAffectedByThisAlert(alert, list, later)
  PROVE  AlertPage(alert, list, later, rows)
<1> DEFINE c0 == alert.check
           Fails(h) == FailsAt(statuses[<<h, c0>>])
           FailsLater(h) == FailsAt(statuses'[<<h, c0>>])
           Unmistakable == \A c \in CheckIds \ {c0} : CheckLabel(c)' \notin {alert.check_name, c0}
           ids == {r.id : r \in SetOf(rows)}
           Fit(h) == Cardinality(KnownOf(h)') <= Limit["alerts"]
           H == SetOf(later)
           aff == affectedHosts(alert, list, later)
<1>1. /\ later \in Seq(H)
      /\ \A host \in H :
           /\ host.id \in hosts'
           /\ host.soft_fail_info \in Seq(SetOf(host.soft_fail_info))
           /\ \A info \in SetOf(host.soft_fail_info) :
                /\ info.check_id \in CheckIds /\ info.check_name = CheckLabel(info.check_id)'
                /\ FailsAt(statuses'[<<host.id, info.check_id>>])
      /\ \A h \in hosts' : Fit(h) =>
           \E host \in H : host.id = h /\ \A c \in CheckIds :
             FailsAt(statuses'[<<h, c>>]) => \E info \in SetOf(host.soft_fail_info) : info.check_id = c
  BY DEF HostsTell, FailsAt
<1>2. /\ list \in Seq(SetOf(list))
      /\ \A s \in SetOf(list) :
           /\ s.check_id = c0 /\ s.timestamp \in Nat \ {0}
           /\ s.exit_code > 0 => FailsAt(statuses[<<s.host_id, c0>>])
  BY AlertStatusesFacts
<1> DEFINE L == SetOf(list)
<1> HIDE DEF H, L
<1>3. SetOf(aff) = {host \in H : Touched(host, alert, list)}
  BY <1>1, AffectedFacts DEF H
<1>4. SetOf(rows) = {RowOf(host, alert, list) : host \in SetOf(aff)}
  <2>1. /\ later \in Seq(H) /\ list \in Seq(L)
        /\ \A host \in SetOf(later) : host.soft_fail_info \in Seq(SetOf(host.soft_fail_info))
        /\ \A s \in SetOf(list) : s.timestamp \in Nat \ {0}
    BY <1>1, <1>2 DEF H, L
  <2> QED BY <2>1, RowsFacts
<1>5. \A host \in H : Touched(host, alert, list) =>
        \E r \in SetOf(rows) : r.id = host.id
  <2> SUFFICES ASSUME NEW host \in H, Touched(host, alert, list)
               PROVE  \E r \in SetOf(rows) : r.id = host.id
    OBVIOUS
  <2>1. RowOf(host, alert, list) \in SetOf(rows)
    BY <1>3, <1>4
  <2>2. RowOf(host, alert, list).id = host.id
    BY DEF RowOf
  <2> QED BY <2>1, <2>2
<1>6. \A r \in SetOf(rows) : \E host \in H :
        /\ Touched(host, alert, list) /\ r = RowOf(host, alert, list) /\ r.id = host.id
  BY <1>3, <1>4 DEF RowOf
<1> HIDE DEF aff
<1>7. ASSUME NEW h \in hosts', Fit(h), FailsLater(h)
      PROVE  h \in ids
  <2>1. PICK host \in H :
          host.id = h /\ \E info \in SetOf(host.soft_fail_info) : info.check_id = c0
    BY <1>1, <1>7
  <2>2. Touched(host, alert, list)
    BY <2>1 DEF Touched, IsAbout
  <2> QED BY <1>5, <2>1, <2>2
<1>8. ASSUME Unmistakable, NEW h \in ids
      PROVE  Fails(h) \/ FailsLater(h)
  <2>1. PICK host \in H : Touched(host, alert, list) /\ host.id = h
    BY <1>6
  <2>2. ASSUME NEW info \in SetOf(host.soft_fail_info), IsAbout(info, alert)
        PROVE  FailsLater(h)
    <3>1. info.check_id = c0 \/ info.check_name \in {alert.check_name, c0}
      BY <2>2 DEF IsAbout
    <3>2. info.check_id \in CheckIds /\ info.check_name = CheckLabel(info.check_id)'
      BY <1>1
    <3>3. info.check_id = c0
      BY <1>8, <3>1, <3>2
    <3> QED BY <1>1, <2>1, <3>3
  <2>3. ASSUME NEW s \in SetOf(list), s.host_id = host.id, s.exit_code > 0
        PROVE  Fails(h)
    BY <1>2, <2>1, <2>3
  <2> QED BY <2>1, <2>2, <2>3 DEF Touched
<1>9. \A r \in SetOf(rows) : r.lastAlertTime # 0 \/ r.softFailInfo # <<>>
  <2> SUFFICES ASSUME NEW r \in SetOf(rows) PROVE r.lastAlertTime # 0 \/ r.softFailInfo # <<>>
    OBVIOUS
  <2>1. PICK host \in H : Touched(host, alert, list) /\ r = RowOf(host, alert, list)
    BY <1>6
  <2>2. host.soft_fail_info \in Seq(SetOf(host.soft_fail_info))
    BY <1>1
  <2>3. TimeOf(host, list) # 0 \/ FailuresOf(host, alert) # <<>>
    BY <1>2, <2>1, <2>2, RowFacts
  <2> QED BY <2>1, <2>3 DEF RowOf
<1>10. SetOf(findHostsWithAlert(alert, later)) \subseteq SetOf(aff)
  BY <1>1, FoundByFailures DEF aff, H
<1>11. Limit["history"] >= Len(list) => getRecentAlertHistory(alert, list) = list
  <2>1. Limit["history"] \in Nat /\ Len(list) \in Nat
    BY <1>2, IdsAssumption DEF LimitFields
  <2> QED BY <1>2, <2>1, HistoryIsAll
<1> QED BY <1>7, <1>8, <1>9, <1>10, <1>11 DEF aff, AlertPage

\* The page of an alert, for stores of any size and whatever happens between its
\* two requests.
THEOREM AlertPageIsRight == Spec => AffectedAreAffected
<1> DEFINE Right == loadAlerts # <<>> =>
              \A later \in {getHosts'}, alert \in SetOf(loadAlerts) :
              \A list \in {AlertStatuses(alert)} :
              \A rows \in {getHostsAffectedByThisAlert(alert, list, later)} :
                AlertPage(alert, list, later, rows)
<1>1. TypeOK' => HostsTell'
  BY StateTells, PTL
<1>2. TypeOK /\ TypeOK' => Right
  <2> SUFFICES ASSUME TypeOK, TypeOK', NEW later, later = getHosts', NEW alert \in SetOf(loadAlerts),
                      NEW list, list = AlertStatuses(alert),
                      NEW rows, rows = getHostsAffectedByThisAlert(alert, list, later)
               PROVE  AlertPage(alert, list, later, rows)
    OBVIOUS
  <2>1. alert.check \in CheckIds
    <3>1. SetOf(loadAlerts) = {AlertOf(k) : k \in FailuresFound} /\ FailuresFound \subseteq Known
      BY AlertsFacts DEF Lists
    <3>2. PICK k \in Known : alert = AlertOf(k)
      BY <3>1
    <3> QED BY <3>2, AlertFacts, KnownFacts
  <2> QED BY <1>1, <2>1, StepTells
<1>3. TypeOK /\ TypeOK' /\ [Next]_vars => [Right]_vars
  BY <1>2
<1> QED BY <1>3, StoreTypeCorrect, PTL DEF Spec, AffectedAreAffected

-----------------------------------------------------------------------------
(***************************************************************************)
(* The lists of the tests of a host.                                       *)
(***************************************************************************)
LEMMA LabelFacts ==
  ASSUME TypeOK, NEW k \in Known, NEW host, host = HostResponse(k[1])
  PROVE  /\ CheckLabel(k[2]) \in Nat \ {0}
         /\ Or(StatusResponse(k).check_name, k[2]) = CheckLabel(k[2])
         /\ EntryName(StatusResponse(k), host) = CheckLabel(k[2])
<1> DEFINE c == k[2]
           s == StatusResponse(k)
<1>1. c \in CheckIds /\ c \in Nat \ {0} /\ k[1] \in HostIds
  BY KnownFacts, IdsAssumption
<1>2. s.check_id = c /\ s.check_name = IF CheckExists(c) THEN checks[c].name ELSE c
  BY DEF StatusResponse
<1>3. /\ DOMAIN host.check_names \subseteq {x \in CheckIds : CheckExists(x)}
      /\ \A x \in DOMAIN host.check_names : host.check_names[x] = checks[x].name
  BY <1>1, HostFacts
<1>4. CheckExists(c) => checks[c].name \in Nat
  BY <1>1, CheckFacts
<1>5. Named(host, c) => CheckExists(c) /\ host.check_names[c] = checks[c].name /\ checks[c].name # 0
  BY <1>3 DEF Named
<1> HIDE DEF s, c
<1>6. CheckLabel(c) = IF CheckExists(c) THEN Or(checks[c].name, c) ELSE c
  BY DEF CheckLabel
<1>7. CheckLabel(c) \in Nat \ {0} /\ Or(s.check_name, c) = CheckLabel(c)
  BY <1>1, <1>2, <1>4, <1>6 DEF Or
<1>8. EntryName(s, host) = IF s.check_name # 0 THEN s.check_name ELSE PageCheckName(c, host)
  BY <1>2 DEF EntryName, Or
<1>9. s.check_name = 0 => CheckExists(c) /\ checks[c].name = 0
  BY <1>1, <1>2
<1>10. s.check_name = 0 => PageCheckName(c, host) = c
  BY <1>5, <1>9 DEF PageCheckName
<1>11. EntryName(s, host) = CheckLabel(c)
  BY <1>7, <1>8, <1>10 DEF Or
<1> QED BY <1>7, <1>11 DEF s, c

\* The tests that are told of, each as the pair of its id and its name.
TestOf(k) == <<k[2], CheckLabel(k[2])>>

TestsIn(J) == {TestOf(k) : k \in J}

\* The infos of a host have the names.
LEMMA InfosOfHost ==
  ASSUME TypeOK, NEW h \in HostIds, FitsIn(h, {"alerts", "stats"}), NEW host, host = HostResponse(h)
  PROVE  /\ host.soft_fail_info \in Seq(SetOf(host.soft_fail_info))
         /\ host.ok_duration \in Seq(SetOf(host.ok_duration))
         /\ SetOf(host.soft_fail_info) = {SoftFailInfo(k) : k \in FailingOf(h)}
         /\ SetOf(host.ok_duration) = {OKInfo(k) : k \in HealthyOf(h)}
         /\ Len(host.soft_fail_info) = Cardinality(FailingOf(h))
         /\ Len(host.ok_duration) = Cardinality(HealthyOf(h))
BY HostFacts DEF FitsIn

\* A list that is made of the infos of a host and names each test as they do.
TellsOf(infos, J) ==
  /\ \A info \in SetOf(infos) : \E k \in J :
       info.check_id = k[2] /\ info.check_name = CheckLabel(k[2])
  /\ \A k \in J : \E info \in SetOf(infos) :
       info.check_id = k[2] /\ info.check_name = CheckLabel(k[2])

Repeats(f, infos) ==
  /\ f = [i \in DOMAIN infos |-> f[i]]
  /\ \A i \in DOMAIN infos : f[i].checkId = infos[i].check_id /\ f[i].checkName = infos[i].check_name

LEMMA EntriesFacts ==
  ASSUME NEW J, NEW I, NEW infos \in Seq(I), TellsOf(infos, J), NEW f, Repeats(f, infos)
  PROVE  /\ SubSeq(f, 1, Len(infos)) = f /\ f \in Seq(SetOf(f)) /\ DOMAIN f = DOMAIN infos
         /\ TestsOf(f) = TestsIn(J)
<1> DEFINE n == Len(infos)
           T == {f[i] : i \in 1..n}
<1>1. n \in Nat /\ DOMAIN infos = 1..n
  OBVIOUS
<1>2. f \in [1..n -> T]
  BY <1>1 DEF Repeats
<1>3. SetOf(f) = T
  BY <1>2 DEF SetOf
<1> HIDE DEF T, n
<1>4. SubSeq(f, 1, n) = f /\ f \in Seq(T)
  BY <1>1, <1>2, WholeList
<1>5. \A i \in 1..n : \E k \in J : f[i].checkId = k[2] /\ f[i].checkName = CheckLabel(k[2])
  BY <1>1 DEF SetOf, TellsOf, Repeats
<1>6. \A k \in J : \E i \in 1..n : f[i].checkId = k[2] /\ f[i].checkName = CheckLabel(k[2])
  BY <1>1 DEF SetOf, TellsOf, Repeats
<1>7. {<<e.checkId, e.checkName>> : e \in T} = TestsIn(J)
  <2>1. \A e \in T : \E k \in J : <<e.checkId, e.checkName>> = TestOf(k)
    BY <1>5 DEF T, TestOf
  <2>2. \A k \in J : \E e \in T : <<e.checkId, e.checkName>> = TestOf(k)
    BY <1>6 DEF T, TestOf
  <2> HIDE DEF T
  <2>3. {<<e.checkId, e.checkName>> : e \in T} \subseteq TestsIn(J)
    BY <2>1 DEF TestsIn
  <2>4. TestsIn(J) \subseteq {<<e.checkId, e.checkName>> : e \in T}
    BY <2>2 DEF TestsIn
  <2> QED BY <2>3, <2>4
<1> QED BY <1>1, <1>2, <1>3, <1>4, <1>7 DEF n, TestsOf

LEMMA KeyOrders ==
  ASSUME NEW D, NEW p \in [D -> Int], NEW R \in SUBSET (D \X D),
         \A i, j \in D : <<i, j>> \in R <=> p[i] < p[j] \/ (~(p[j] < p[i]) /\ i < j)
  PROVE  R = StableOrder(D, Ranked(D, p, p)) /\ Compares(D, Ranked(D, p, p))
<1> DEFINE before == Ranked(D, p, p)
<1>1. \A i, j \in D : <<i, j>> \in before <=> p[i] < p[j]
  BY DEF Ranked
<1>2. Compares(D, before)
  BY RankedCompares
<1> HIDE DEF before
<1>3. \A i, j \in D : <<i, j>> \in StableOrder(D, before) <=> p[i] < p[j] \/ (~(p[j] < p[i]) /\ i < j)
  BY <1>1 DEF StableOrder
<1>4. StableOrder(D, before) \in SUBSET (D \X D)
  BY DEF StableOrder
<1>5. R = StableOrder(D, before)
  BY <1>3, <1>4
<1> QED BY <1>2, <1>5 DEF before

\* The tests that fail, in the row of a host, on its page and in RavenUtils.
LEMMA FailuresShown ==
  ASSUME TypeOK, NEW h \in HostIds, FitsIn(h, {"alerts", "stats"}), NEW host, host = HostResponse(h)
  PROVE  /\ formatSoftFailsForDisplay(host) = PageSoftFails(host)
         /\ host.soft_fail_info = <<>> => PageSoftFails(host) = <<>>
         /\ TestsOf(PageSoftFails(host)) = TestsIn(FailingOf(h))
         /\ TestsOf(formatMonitoringResultsForDisplay(host.soft_fail_info, host)) = TestsIn(FailingOf(h))
<1> DEFINE infos == host.soft_fail_info
           I == SetOf(infos)
           D == DOMAIN infos
           J == FailingOf(h)
           f == [i \in D |-> FailEntry(infos[i], infos[i].check_name)]
           g == [i \in D |-> [checkId |-> infos[i].check_id, checkName |-> infos[i].check_name]]
           t == formatMonitoringResultsForDisplay(infos, host)
<1>1. infos \in Seq(I) /\ I = {SoftFailInfo(k) : k \in J}
  BY InfosOfHost
<1>2. J \in SUBSET Known
  BY DEF FailingOf, KnownOf
<1>3. ASSUME NEW k \in J
      PROVE  /\ SoftFailInfo(k).check_id = k[2] /\ SoftFailInfo(k).check_name = CheckLabel(k[2])
             /\ CheckLabel(k[2]) \in Nat \ {0}
  BY <1>2, LabelFacts DEF SoftFailInfo
<1> HIDE DEF infos, J
<1>4. TellsOf(infos, J)
  BY <1>1, <1>3 DEF TellsOf
<1>5. \A i \in D : infos[i] \in I /\ infos[i].check_name \in Nat \ {0}
  <2>1. \A i \in D : infos[i] \in I
    BY DEF SetOf
  <2>2. \A info \in I : info.check_name \in Nat \ {0}
    BY <1>1, <1>3
  <2> HIDE DEF I
  <2> QED BY <2>1, <2>2
<1>6. \A name : \A i \in D : Or(infos[i].check_name, name) = infos[i].check_name
  BY <1>5 DEF Or
<1>7. /\ formatSoftFailsForDisplay(host) = SubSeq(f, 1, Len(infos))
      /\ PageSoftFails(host) = SubSeq(f, 1, Len(infos))
  BY <1>6 DEF formatSoftFailsForDisplay, PageSoftFails, Mapped, infos
<1>8. t = StableSort(SubSeq(g, 1, Len(infos)), LAMBDA a, b : a.checkName < b.checkName)
  BY <1>6 DEF formatMonitoringResultsForDisplay, Mapped
<1>9. Repeats(f, infos) /\ Repeats(g, infos)
  BY DEF Repeats, FailEntry
<1> HIDE DEF f, g, t, D
<1>10. SubSeq(f, 1, Len(infos)) = f /\ f \in Seq(SetOf(f)) /\ DOMAIN f = DOMAIN infos
       /\ TestsOf(f) = TestsIn(J)
  BY <1>1, <1>4, <1>9, EntriesFacts
<1>11. SubSeq(g, 1, Len(infos)) = g /\ g \in Seq(SetOf(g)) /\ DOMAIN g = DOMAIN infos
       /\ TestsOf(g) = TestsIn(J)
  BY <1>1, <1>4, <1>9, EntriesFacts
<1>12. infos = <<>> => f = <<>>
  BY <1>10
<1>13. TestsOf(t) = TestsOf(g)
  <2> DEFINE E == DOMAIN g
             p == [i \in E |-> g[i].checkName]
             R == {e \in E \X E : \/ g[e[1]].checkName < g[e[2]].checkName
                                  \/ ~(g[e[2]].checkName < g[e[1]].checkName) /\ e[1] < e[2]}
  <2>1. t = Sorted(g, R)
    BY <1>8, <1>11 DEF StableSort
  <2>2. p \in [E -> Int]
    <3>1. \A i \in E : g[i].checkName \in Nat
      BY <1>5, <1>9, <1>11 DEF D, Repeats
    <3> QED BY <3>1
  <2>3. R \in SUBSET (E \X E)
    OBVIOUS
  <2>4. \A i, j \in E : <<i, j>> \in R <=> p[i] < p[j] \/ (~(p[j] < p[i]) /\ i < j)
    OBVIOUS
  <2> HIDE DEF p, R, E
  <2>5. R = StableOrder(E, Ranked(E, p, p)) /\ Compares(E, Ranked(E, p, p))
    BY <2>2, <2>3, <2>4, KeyOrders
  <2>6. IsSortOf(t, g, Ranked(E, p, p))
    BY <1>11, <2>1, <2>5, SortedFacts DEF E
  <2> QED BY <2>6 DEF IsSortOf, TestsOf
<1> QED BY <1>7, <1>10, <1>11, <1>12, <1>13 DEF t, infos, J

\* The tests that are well, in the row of a host and on its page.
LEMMA SuccessesShown ==
  ASSUME TypeOK, NEW h \in HostIds, FitsIn(h, {"alerts", "stats"}), NEW host, host = HostResponse(h)
  PROVE  /\ formatOKDurationForDisplay(host) = PageOKDurations(host)
         /\ host.ok_duration = <<>> => PageOKDurations(host) = <<>>
         /\ TestsOf(PageOKDurations(host)) = TestsIn(HealthyOf(h))
<1> DEFINE infos == host.ok_duration
           I == SetOf(infos)
           D == DOMAIN infos
           J == HealthyOf(h)
           f == [i \in D |-> OKEntry(infos[i], infos[i].check_name)]
<1>1. infos \in Seq(I) /\ I = {OKInfo(k) : k \in J}
  BY InfosOfHost
<1>2. J \in SUBSET Known
  BY DEF HealthyOf, KnownOf
<1>3. ASSUME NEW k \in J
      PROVE  /\ OKInfo(k).check_id = k[2] /\ OKInfo(k).check_name = CheckLabel(k[2])
             /\ CheckLabel(k[2]) \in Nat \ {0}
  BY <1>2, LabelFacts DEF OKInfo
<1> HIDE DEF infos, J
<1>4. TellsOf(infos, J)
  BY <1>1, <1>3 DEF TellsOf
<1>5. \A i \in D : infos[i] \in I /\ infos[i].check_name \in Nat \ {0}
  <2>1. \A i \in D : infos[i] \in I
    BY DEF SetOf
  <2>2. \A info \in I : info.check_name \in Nat \ {0}
    BY <1>1, <1>3
  <2> HIDE DEF I
  <2> QED BY <2>1, <2>2
<1>6. \A name : \A i \in D : Or(infos[i].check_name, name) = infos[i].check_name
  BY <1>5 DEF Or
<1>7. /\ formatOKDurationForDisplay(host) = SubSeq(f, 1, Len(infos))
      /\ PageOKDurations(host) = SubSeq(f, 1, Len(infos))
  BY <1>6 DEF formatOKDurationForDisplay, PageOKDurations, Mapped, infos
<1>8. Repeats(f, infos)
  BY DEF Repeats, OKEntry
<1> HIDE DEF f, D
<1>9. SubSeq(f, 1, Len(infos)) = f /\ f \in Seq(SetOf(f)) /\ DOMAIN f = DOMAIN infos
       /\ TestsOf(f) = TestsIn(J)
  BY <1>1, <1>4, <1>8, EntriesFacts
<1>10. infos = <<>> => f = <<>>
  BY <1>9
<1> QED BY <1>7, <1>9, <1>10 DEF infos, J

\* The statuses of a host, one for each of its tests.
Shows(s, k, host) ==
  /\ s.check_id = k[2] /\ EntryName(s, host) = CheckLabel(k[2])
  /\ s.exit_code = statuses[k].exit_code /\ s.timestamp = statuses[k].timestamp

ChecksIn(list) == {list[i].check_id : i \in DOMAIN list}

LEMMA StatusesOfHost ==
  ASSUME TypeOK, NEW h \in HostIds, NEW limit \in Nat \ {0}, Cardinality(KnownOf(h)) <= limit,
         NEW list, list = getStatus({h}, CheckIds, limit), NEW host, host = HostResponse(h)
  PROVE  /\ list \in Seq(SetOf(list)) /\ Len(list) = Cardinality(KnownOf(h))
         /\ \A i \in DOMAIN list : \E k \in KnownOf(h) : Shows(list[i], k, host)
         /\ \A k \in KnownOf(h) : \E i \in DOMAIN list : Shows(list[i], k, host)
         /\ \A i, j \in DOMAIN list : list[i].check_id = list[j].check_id => i = j
         /\ Cardinality(ChecksIn(list)) = Cardinality(KnownOf(h))
<1> DEFINE K == KnownOf(h)
           ks == Found({h}, CheckIds, limit)
<1>1. Lists(ks, K)
  <2>1. Asked({h}, CheckIds) = K
    BY AskedOfHost
  <2> HIDE DEF K
  <2> QED BY <2>1, FoundFacts DEF K
<1>2. SetOf(ks) = K /\ Len(ks) = Cardinality(K) /\ IsFiniteSet(K)
  BY <1>1 DEF Lists
<1>3. IsStatusList(list, ks)
  BY StatusesFacts
<1>4. \A k \in K : k \in Known /\ k[1] = h /\ k = <<k[1], k[2]>>
  BY KnownFacts DEF KnownOf
<1> HIDE DEF K, ks
<1>5. DOMAIN ks = DOMAIN list /\ Len(list) = Len(ks) /\ list \in Seq(SetOf(list))
  BY <1>3 DEF IsStatusList
<1>6. /\ \A i \in DOMAIN list : ks[i] \in K /\ list[i] = StatusResponse(ks[i])
      /\ \A k \in K : \E i \in DOMAIN list : ks[i] = k
      /\ \A i, j \in DOMAIN list : i # j => ks[i] # ks[j]
  BY <1>1, <1>3, <1>5, ListedIsAt, ZenonT(60) DEF IsStatusList
<1>7. ASSUME NEW k \in K PROVE Shows(StatusResponse(k), k, host)
  <2>1. EntryName(StatusResponse(k), host) = CheckLabel(k[2])
    BY <1>4, LabelFacts
  <2> QED BY <2>1 DEF Shows, StatusResponse
<1>8. \A i \in DOMAIN list : Shows(list[i], ks[i], host) /\ ks[i] \in K
  BY <1>6, <1>7
<1>9. \A k \in K : \E i \in DOMAIN list : Shows(list[i], k, host)
  BY <1>6, <1>8
<1>10. ASSUME NEW i \in DOMAIN list, NEW j \in DOMAIN list, list[i].check_id = list[j].check_id
       PROVE  i = j
  <2>1. ks[i][2] = ks[j][2]
    BY <1>8, <1>10 DEF Shows
  <2>2. ks[i] = <<h, ks[i][2]>> /\ ks[j] = <<h, ks[j][2]>>
    BY <1>4, <1>8
  <2>3. ks[i] = ks[j]
    BY <2>1, <2>2
  <2> QED BY <1>6, <2>3
<1>11. Cardinality({list[i].check_id : i \in DOMAIN list}) = Cardinality(K)
  <2> DEFINE f == [k \in K |-> k[2]]
             T == {f[k] : k \in K}
  <2>1. \A k, l \in K : k # l => f[k] # f[l]
    BY <1>4
  <2>2. f = [k \in K |-> f[k]]
    OBVIOUS
  <2>3. \A i \in DOMAIN list : \E k \in K : list[i].check_id = f[k]
    BY <1>8 DEF Shows
  <2>4. \A k \in K : \E i \in DOMAIN list : list[i].check_id = f[k]
    BY <1>9 DEF Shows
  <2> HIDE DEF f
  <2>5. Cardinality(T) = Cardinality(K)
    BY <1>2, <2>1, <2>2, ValuesCount
  <2>6. {list[i].check_id : i \in DOMAIN list} \subseteq T
    BY <2>3, ZenonT(60)
  <2>7. T \subseteq {list[i].check_id : i \in DOMAIN list}
    BY <2>4, ZenonT(60)
  <2> HIDE DEF T
  <2>8. {list[i].check_id : i \in DOMAIN list} = T
    BY <2>6, <2>7
  <2> QED BY <2>5, <2>8
<1> QED BY <1>2, <1>5, <1>8, <1>9, <1>10, <1>11 DEF K, ChecksIn

ShownIn(t, K) ==
  /\ \A r \in SetOf(t) : \E k \in K : /\ r.check_id = k[2] /\ r.checkName = CheckLabel(k[2])
                                      /\ r.exit_code = statuses[k].exit_code
  /\ \A k \in K : \E r \in SetOf(t) : /\ r.check_id = k[2] /\ r.checkName = CheckLabel(k[2])
                                      /\ r.exit_code = statuses[k].exit_code

\* The recent checks on the page of a host.
LEMMA RecentFacts ==
  ASSUME TypeOK, NEW h \in HostIds, Cardinality(KnownOf(h)) <= Limit["host_page"],
         NEW host, host = HostResponse(h), NEW list, list = HostStatuses(h),
         NEW recent, recent = getRecentChecks(list, host)
  PROVE  Len(recent) = Cardinality(KnownOf(h)) /\ ShownIn(recent, KnownOf(h))
<1> DEFINE limit == Limit["host_page"]
           K == KnownOf(h)
           n == Len(list)
           D == DOMAIN list
           pairs == [i \in D |-> <<i, list[i]>>]
           keep == [x \in DOMAIN pairs |-> \A j \in DOMAIN list :
                      list[j].check_id = pairs[x][2].check_id =>
                        \/ list[j].timestamp < pairs[x][2].timestamp
                        \/ list[j].timestamp = pairs[x][2].timestamp /\ j >= pairs[x][1]]
           Entry(e) == [check_id |-> e[2].check_id, checkName |-> EntryName(e[2], host),
                        timestamp |-> e[2].timestamp, exit_code |-> e[2].exit_code]
           m == [i \in D |-> Entry(<<i, list[i]>>)]
<1>1. limit \in Nat \ {0} /\ list = getStatus({h}, CheckIds, limit)
  BY IdsAssumption DEF LimitFields, HostStatuses
<1>2. /\ list \in Seq(SetOf(list)) /\ n = Cardinality(K)
      /\ \A i \in D : \E k \in K : Shows(list[i], k, host)
      /\ \A k \in K : \E i \in D : Shows(list[i], k, host)
      /\ \A i, j \in D : list[i].check_id = list[j].check_id => i = j
  BY <1>1, StatusesOfHost
<1>3. n \in Nat /\ D = 1..n
  BY <1>2
<1>4. Newest(list) = Selected(pairs, keep)
  BY DEF Newest, Filter
<1>5. \A i \in D : list[i].timestamp \in Nat
  <2>1. \A k \in K : statuses[k].timestamp \in Nat
    BY KnownFacts DEF KnownOf
  <2> QED BY <1>2, <2>1 DEF Shows
<1>6. DOMAIN pairs = D /\ \A i \in D : pairs[i] = <<i, list[i]>> /\ pairs[i][1] = i /\ pairs[i][2] = list[i]
  OBVIOUS
<1>7. pairs \in Seq(D \X SetOf(list))
  BY <1>3 DEF SetOf
<1>8. recent = StableSort(Mapped(Newest(list), Entry), LAMBDA a, b : a.timestamp > b.timestamp)
  BY DEF getRecentChecks
<1>9. \A i \in D : keep[i]
  <2> SUFFICES ASSUME NEW i \in D, NEW j \in D, list[j].check_id = list[i].check_id
               PROVE  list[j].timestamp = list[i].timestamp /\ j >= i
    BY <1>6
  <2>1. j = i
    BY <1>2
  <2> QED BY <1>3, <2>1
<1>10. Keeping(pairs, keep) = DOMAIN pairs
  BY <1>6, <1>9 DEF Keeping
<1> HIDE DEF keep, pairs
<1>11. Newest(list) = pairs
  BY <1>4, <1>7, <1>10, SelectedFacts
<1>12. Len(pairs) = n
  BY <1>3, <1>6, <1>7
<1>13. Mapped(pairs, Entry) = SubSeq(m, 1, n)
  BY <1>6, <1>12 DEF Mapped
<1>14. \A i \in D : /\ m[i].check_id = list[i].check_id /\ m[i].checkName = EntryName(list[i], host)
                    /\ m[i].exit_code = list[i].exit_code /\ m[i].timestamp = list[i].timestamp
  OBVIOUS
<1> DEFINE T == SetOf(m)
<1>15. m \in [1..n -> T] /\ DOMAIN m = D
  BY <1>3 DEF SetOf
<1> HIDE DEF m, T, n
<1>16. SubSeq(m, 1, n) = m /\ m \in Seq(T) /\ Len(m) = n
  BY <1>3, <1>15, WholeList
<1> DEFINE p == [i \in D |-> 0 - m[i].timestamp]
           R == {e \in D \X D : \/ m[e[1]].timestamp > m[e[2]].timestamp
                                \/ ~(m[e[2]].timestamp > m[e[1]].timestamp) /\ e[1] < e[2]}
<1>17. recent = Sorted(m, R)
  BY <1>8, <1>11, <1>13, <1>15, <1>16 DEF StableSort
<1>18. \A i \in D : m[i].timestamp \in Nat /\ p[i] \in Int /\ p[i] = 0 - m[i].timestamp
  BY <1>5, <1>14
<1>19. p \in [D -> Int] /\ R \in SUBSET (D \X D)
  BY <1>18
<1>20. \A i, j \in D : <<i, j>> \in R <=> m[i].timestamp > m[j].timestamp
                                          \/ (~(m[j].timestamp > m[i].timestamp) /\ i < j)
  OBVIOUS
<1> HIDE DEF p, R
<1>21. \A i, j \in D : <<i, j>> \in R <=> p[i] < p[j] \/ (~(p[j] < p[i]) /\ i < j)
  <2> SUFFICES ASSUME NEW i \in D, NEW j \in D
               PROVE  <<i, j>> \in R <=> p[i] < p[j] \/ (~(p[j] < p[i]) /\ i < j)
    OBVIOUS
  <2> DEFINE x == m[i].timestamp
             y == m[j].timestamp
  <2>1. x \in Nat /\ y \in Nat /\ p[i] = 0 - x /\ p[j] = 0 - y
    BY <1>18
  <2>2. <<i, j>> \in R <=> x > y \/ (~(y > x) /\ i < j)
    BY <1>20
  <2> HIDE DEF x, y, D
  <2>3. p[i] < p[j] <=> x > y
    BY <2>1
  <2>4. p[j] < p[i] <=> y > x
    BY <2>1
  <2> QED BY <2>2, <2>3, <2>4
<1>22. R = StableOrder(D, Ranked(D, p, p)) /\ Compares(D, Ranked(D, p, p))
  <2> HIDE DEF D
  <2> QED BY <1>19, <1>21, KeyOrders
<1>23. IsSortOf(recent, m, Ranked(D, p, p))
  <2>1. D = DOMAIN m
    BY <1>15
  <2> HIDE DEF D
  <2> QED BY <1>16, <1>17, <1>22, <2>1, SortedFacts
<1>24. Len(recent) = n /\ SetOf(recent) = {m[i] : i \in D}
  BY <1>15, <1>16, <1>23 DEF IsSortOf, SetOf
<1>25. ASSUME NEW r \in SetOf(recent)
       PROVE  \E k \in K : /\ r.check_id = k[2] /\ r.checkName = CheckLabel(k[2])
                           /\ r.exit_code = statuses[k].exit_code
  <2>1. PICK i \in D : r = m[i]
    BY <1>24
  <2>2. PICK k \in K : Shows(list[i], k, host)
    BY <1>2, <2>1
  <2> QED BY <1>14, <2>1, <2>2 DEF Shows
<1>26. ASSUME NEW k \in K
       PROVE  \E r \in SetOf(recent) : /\ r.check_id = k[2] /\ r.checkName = CheckLabel(k[2])
                                       /\ r.exit_code = statuses[k].exit_code
  <2>1. PICK i \in D : Shows(list[i], k, host)
    BY <1>2
  <2>2. m[i] \in SetOf(recent)
    BY <1>24
  <2> QED BY <1>14, <2>1, <2>2 DEF Shows
<1> QED BY <1>2, <1>24, <1>25, <1>26 DEF ShownIn, K

LEMMA ShownTests ==
  ASSUME TypeOK, NEW h, NEW t, ShownIn(t, KnownOf(h))
  PROVE  /\ RecentTests(t, ExitCodes \ {0}) = TestsIn(FailingOf(h))
         /\ RecentTests(t, {0}) = TestsIn(HealthyOf(h))
         /\ NamesIn(t) = {CheckLabel(k[2]) : k \in KnownOf(h)}
<1>1. \A k \in KnownOf(h) : statuses[k].exit_code \in ExitCodes
  BY KnownFacts DEF KnownOf
<1>2. ASSUME NEW codes, NEW J \in SUBSET KnownOf(h),
             \A k \in KnownOf(h) : k \in J <=> statuses[k].exit_code \in codes
      PROVE  RecentTests(t, codes) = TestsIn(J)
  <2>1. \A e \in {r \in SetOf(t) : r.exit_code \in codes} :
          \E k \in J : <<e.check_id, e.checkName>> = TestOf(k)
    BY <1>2 DEF ShownIn, TestOf
  <2>2. \A k \in J : \E e \in {r \in SetOf(t) : r.exit_code \in codes} :
          <<e.check_id, e.checkName>> = TestOf(k)
    BY <1>2 DEF ShownIn, TestOf
  <2>3. RecentTests(t, codes) \subseteq TestsIn(J)
    BY <2>1 DEF RecentTests, TestsIn
  <2>4. TestsIn(J) \subseteq RecentTests(t, codes)
    BY <2>2 DEF RecentTests, TestsIn
  <2> QED BY <2>3, <2>4
<1>3. RecentTests(t, ExitCodes \ {0}) = TestsIn(FailingOf(h))
  <2>1. FailingOf(h) \in SUBSET KnownOf(h)
    BY DEF FailingOf
  <2>2. \A k \in KnownOf(h) : k \in FailingOf(h) <=> statuses[k].exit_code \in ExitCodes \ {0}
    BY <1>1 DEF FailingOf, Failing
  <2> QED BY <1>2, <2>1, <2>2
<1>4. RecentTests(t, {0}) = TestsIn(HealthyOf(h))
  <2>1. HealthyOf(h) \in SUBSET KnownOf(h)
    BY DEF HealthyOf
  <2>2. \A k \in KnownOf(h) : k \in HealthyOf(h) <=> statuses[k].exit_code \in {0}
    BY <1>1 DEF HealthyOf, Healthy, Failing
  <2> QED BY <1>2, <2>1, <2>2
<1>5. NamesIn(t) = {CheckLabel(k[2]) : k \in KnownOf(h)}
  <2>1. NamesIn(t) \subseteq {CheckLabel(k[2]) : k \in KnownOf(h)}
    BY DEF ShownIn, NamesIn
  <2>2. {CheckLabel(k[2]) : k \in KnownOf(h)} \subseteq NamesIn(t)
    BY DEF ShownIn, NamesIn
  <2> QED BY <2>1, <2>2
<1> QED BY <1>3, <1>4, <1>5

LEMMA HistoryNames ==
  ASSUME TypeOK, NEW h \in HostIds,
         Cardinality(KnownOf(h)) <= Limit["host_page"], Cardinality(KnownOf(h)) <= Limit["history"],
         NEW host, host = HostResponse(h), NEW list, list = HostStatuses(h)
  PROVE  NamesIn(getStatusHistory(list, host)) = {CheckLabel(k[2]) : k \in KnownOf(h)}
<1> DEFINE limit == Limit["host_page"]
           K == KnownOf(h)
           n == Len(list)
           D == DOMAIN list
           m == [i \in D |-> [checkName |-> EntryName(list[i], host), timestamp |-> list[i].timestamp,
                              status |-> getStatusName(list[i].exit_code)]]
           T == SetOf(m)
<1>1. limit \in Nat \ {0} /\ list = getStatus({h}, CheckIds, limit)
  BY IdsAssumption DEF LimitFields, HostStatuses
<1>2. /\ list \in Seq(SetOf(list)) /\ n = Cardinality(K)
      /\ \A i \in D : \E k \in K : Shows(list[i], k, host)
      /\ \A k \in K : \E i \in D : Shows(list[i], k, host)
  BY <1>1, StatusesOfHost
<1>3. n \in Nat /\ D = 1..n
  BY <1>2
<1>4. Cut(list, Limit["history"]) = list
  BY <1>2 DEF Cut
<1>5. getStatusHistory(list, host) = SubSeq(m, 1, n)
  BY <1>4 DEF getStatusHistory, Mapped
<1>6. m \in [1..n -> T] /\ T = {m[i] : i \in D} /\ \A i \in D : m[i].checkName = EntryName(list[i], host)
  BY <1>3 DEF SetOf
<1> HIDE DEF m, T, n
<1>7. SubSeq(m, 1, n) = m
  BY <1>3, <1>6, WholeList
<1>8. NamesIn(m) \subseteq {CheckLabel(k[2]) : k \in K}
  BY <1>2, <1>6 DEF NamesIn, Shows, T
<1>9. {CheckLabel(k[2]) : k \in K} \subseteq NamesIn(m)
  <2>1. \A k \in K : \E e \in T : e.checkName = CheckLabel(k[2])
    BY <1>2, <1>6 DEF Shows
  <2> QED BY <2>1 DEF NamesIn, T
<1> QED BY <1>5, <1>7, <1>8, <1>9 DEF K

\* The numbers of both summaries.
LEMMA SummaryFacts ==
  ASSUME TypeOK, NEW h \in HostIds, FitsIn(h, {"alerts", "stats"}), FitsIn(h, {"alert_page"}),
         NEW host, host = HostResponse(h)
  PROVE  LET summary == getMonitoringSummary(host)
         IN  /\ getHostSummary(h).totalChecks = Cardinality(KnownOf(h))
             /\ summary.failingChecks + summary.healthyChecks = Cardinality(KnownOf(h))
             /\ summary.criticalFailures + summary.softFailures = summary.failingChecks
<1> DEFINE summary == getMonitoringSummary(host)
           limit == Limit["alert_page"]
           list == getStatus({h}, CheckIds, limit)
           K == KnownOf(h)
           F == FailingOf(h)
           G == HealthyOf(h)
           Critical(info) == info.current_fails >= info.threshold_max
           infos == host.soft_fail_info
           keep == [i \in DOMAIN infos |-> Critical(infos[i])]
           critical == Len(Selected(infos, keep))
<1>1. limit \in Nat \ {0} /\ Cardinality(K) <= limit
  BY IdsAssumption DEF LimitFields, FitsIn
<1>2. Cardinality({list[i].check_id : i \in DOMAIN list}) = Cardinality(K)
  <2>1. list = getStatus({h}, CheckIds, limit) /\ Cardinality(KnownOf(h)) <= limit
    BY <1>1
  <2> HIDE DEF limit, list, K
  <2>2. Cardinality(ChecksIn(list)) = Cardinality(KnownOf(h))
    BY <1>1, <2>1, StatusesOfHost
  <2> QED BY <2>2 DEF K, ChecksIn
<1>3. getHostSummary(h).totalChecks = Cardinality(K)
  BY <1>2 DEF getHostSummary
<1>4. /\ summary.failingChecks = Len(infos) /\ summary.healthyChecks = Len(host.ok_duration)
      /\ summary.criticalFailures = critical /\ summary.softFailures = Len(infos) - critical
  BY Zenon DEF getMonitoringSummary, Count, Filter
<1>5. /\ infos \in Seq(SetOf(infos))
      /\ Len(infos) = Cardinality(F) /\ Len(host.ok_duration) = Cardinality(G)
  BY InfosOfHost
<1>6. F \subseteq K /\ G \subseteq K /\ F \cap G = {} /\ F \cup G = K /\ K \subseteq Known
  BY DEF FailingOf, HealthyOf, Healthy, KnownOf
<1> HIDE DEF F, G, K
<1>7. IsFiniteSet(F) /\ IsFiniteSet(G)
  <2>1. F \subseteq Known /\ G \subseteq Known
    BY <1>6
  <2> QED BY <2>1, KnownFacts, FS_Subset
<1>8. Cardinality(F) + Cardinality(G) = Cardinality(K)
  BY <1>6, <1>7, DisjointCount
<1> HIDE DEF infos, keep
<1> DEFINE S == SetOf(infos)
<1>9. Selected(infos, keep) \in Seq(S)
  <2>1. infos \in Seq(S)
    BY <1>5
  <2> HIDE DEF S
  <2> QED BY <2>1, SelectedFacts
<1>10. critical \in Nat /\ Len(infos) \in Nat
  BY <1>5, <1>9
<1> HIDE DEF critical, summary
<1>11. summary.failingChecks + summary.healthyChecks = Cardinality(K)
  BY <1>4, <1>5, <1>8
<1>12. summary.criticalFailures + summary.softFailures = summary.failingChecks
  BY <1>4, <1>10
<1> QED BY <1>3, <1>11, <1>12 DEF summary, K

LEMMA HostAgrees ==
  ASSUME TypeOK, NEW h \in HostIds, FitsIn(h, LimitFields \ {"activity"}),
         NEW host, host = HostResponse(h)
  PROVE  Agree(host)
<1> DEFINE cell == StatusCell(host)
           list == HostStatuses(h)
           recent == getRecentChecks(list, host)
           summary == getMonitoringSummary(host)
           K == KnownOf(h)
<1>1. /\ FitsIn(h, {"alerts", "stats"}) /\ FitsIn(h, {"alert_page"})
      /\ Cardinality(K) <= Limit["host_page"] /\ Cardinality(K) <= Limit["history"]
  BY DEF FitsIn, LimitFields
<1>2. host.id = h
  BY HostFacts
<1>3. /\ formatSoftFailsForDisplay(host) = PageSoftFails(host)
      /\ host.soft_fail_info = <<>> => PageSoftFails(host) = <<>>
      /\ TestsOf(PageSoftFails(host)) = TestsIn(FailingOf(h))
      /\ TestsOf(formatMonitoringResultsForDisplay(host.soft_fail_info, host)) = TestsIn(FailingOf(h))
  BY <1>1, FailuresShown
<1>4. /\ formatOKDurationForDisplay(host) = PageOKDurations(host)
      /\ host.ok_duration = <<>> => PageOKDurations(host) = <<>>
      /\ TestsOf(PageOKDurations(host)) = TestsIn(HealthyOf(h))
  BY <1>1, SuccessesShown
<1>5. cell.failing = PageSoftFails(host) /\ cell.healthy = PageOKDurations(host)
  BY <1>3, <1>4 DEF StatusCell, hasMonitoringData
<1>6. Len(recent) = Cardinality(K) /\ ShownIn(recent, K)
  BY <1>1, RecentFacts
<1>7. /\ RecentTests(recent, ExitCodes \ {0}) = TestsIn(FailingOf(h))
      /\ RecentTests(recent, {0}) = TestsIn(HealthyOf(h))
      /\ NamesIn(recent) = {CheckLabel(k[2]) : k \in K}
  <2> HIDE DEF recent
  <2> QED BY <1>6, ShownTests DEF K
<1>8. NamesIn(getStatusHistory(list, host)) = {CheckLabel(k[2]) : k \in K}
  BY <1>1, HistoryNames
<1>9. /\ getHostSummary(h).totalChecks = Cardinality(K)
      /\ summary.failingChecks + summary.healthyChecks = Cardinality(K)
      /\ summary.criticalFailures + summary.softFailures = summary.failingChecks
  BY <1>1, SummaryFacts
<1>10. ASSUME NEW a \in SetOf(loadAlerts), a.host = h
       PROVE  <<a.check, Or(a.check_name, a.check)>> \in TestsIn(FailingOf(h))
  <2>1. SetOf(loadAlerts) = {AlertOf(k) : k \in FailuresFound} /\ FailuresFound \subseteq Known
    BY AlertsFacts DEF Lists
  <2>2. PICK k \in FailuresFound : a = AlertOf(k)
    BY <2>1
  <2>3. k \in Known /\ Failing(k)
    BY <2>1 DEF FailuresFound
  <2>4. a.host = k[1] /\ a.check = k[2] /\ a.check_name = StatusResponse(k).check_name
    BY <2>2, <2>3, AlertFacts
  <2>5. k \in FailingOf(h)
    BY <1>10, <2>3, <2>4 DEF FailingOf, KnownOf
  <2>6. Or(StatusResponse(k).check_name, k[2]) = CheckLabel(k[2])
    BY <2>3, LabelFacts
  <2>7. <<a.check, Or(a.check_name, a.check)>> = TestOf(k)
    BY <2>4, <2>6 DEF TestOf
  <2> QED BY <2>5, <2>7 DEF TestsIn
<1> HIDE DEF cell, list, recent, summary, K
<1>11. /\ TestsOf(cell.failing) = TestsIn(FailingOf(h))
       /\ TestsOf(cell.healthy) = TestsIn(HealthyOf(h))
  BY <1>3, <1>4, <1>5
<1> QED BY <1>2, <1>3, <1>5, <1>6, <1>7, <1>8, <1>9, <1>10, <1>11
        DEF Agree, cell, list, recent, summary, K

\* Every part of the front end tells the same of the tests of a host, whatever
\* became of their names since.
THEOREM TheViewsAgree == Spec => []ViewsAgree
<1>1. TypeOK => ViewsAgree
  <2> SUFFICES ASSUME TypeOK, NEW host \in SetOf(getHosts),
                      \A f \in LimitFields \ {"activity"} : Cardinality(KnownOf(host.id)) <= Limit[f]
               PROVE  Agree(host)
    BY DEF ViewsAgree
  <2>1. PICK h \in hosts : host = HostResponse(h)
    BY HostsFacts
  <2>2. h \in HostIds /\ host.id = h
    BY <2>1, HostFacts DEF TypeOK
  <2> QED BY <2>1, <2>2, HostAgrees DEF FitsIn
<1> QED BY <1>1, StoreTypeCorrect, PTL

-----------------------------------------------------------------------------
(***************************************************************************)
(* Addresses: numbers of four digits, and what the bits do to them.        *)
(***************************************************************************)

\* A multiple of a positive number is not between it and its negative.
LEMMA NoMultiple ==
  ASSUME NEW w \in Nat \ {0}, NEW m \in Int, m * w < w, 0 - w < m * w
  PROVE  m = 0
<1>1. CASE m >= 1
  <2>1. m - 1 \in Nat /\ (m - 1) * w >= 0
    BY <1>1
  <2>2. (m - 1) * w = m * w - w
    OBVIOUS
  <2> QED BY <2>1, <2>2
<1>2. CASE m <= 0 - 1
  <2>1. (0 - 1) - m \in Nat /\ ((0 - 1) - m) * w >= 0
    BY <1>2
  <2>2. ((0 - 1) - m) * w = (0 - w) - m * w
    OBVIOUS
  <2> QED BY <2>1, <2>2
<1> QED BY <1>1, <1>2

LEMMA Modulo ==
  ASSUME NEW w \in Nat \ {0}, NEW n \in Int
  PROVE  n % w \in 0..w - 1 /\ \E k \in Int : n % w = n + k * w
<1>1. n % w \in 0..w - 1
  OBVIOUS
<1>2. n = w * (n \div w) + (n % w) /\ n \div w \in Int
  OBVIOUS
<1> DEFINE k == 0 - (n \div w)
<1>3. k \in Int /\ n % w = n + k * w
  BY <1>2
<1> HIDE DEF k
<1> QED BY <1>1, <1>3

LEMMA ModuloIs ==
  ASSUME NEW w \in Nat \ {0}, NEW v \in 0..w - 1, NEW k \in Int
  PROVE  (v + k * w) % w = v
<1> DEFINE n == v + k * w
           r == n % w
<1>1. n \in Int
  OBVIOUS
<1>2. PICK q \in Int : r \in 0..w - 1 /\ r = n + q * w
  BY <1>1, Modulo
<1>3. r - v = (k + q) * w
  BY <1>2
<1> DEFINE m == k + q
<1>4. m \in Int /\ m * w < w /\ 0 - w < m * w
  BY <1>2, <1>3
<1> HIDE DEF m, n
<1>5. m = 0
  BY <1>4, NoMultiple
<1>6. r - v = m * w
  BY <1>3 DEF m
<1> QED BY <1>2, <1>5, <1>6 DEF n

LEMMA WordIs == Octets \in Nat \ {0} /\ Word \in Nat \ {0}
<1>1. Octets \in Nat \ {0}
  BY RecordAssumption
<1>2. Octets * Octets \in Nat \ {0}
  BY <1>1
<1> DEFINE x == Octets * Octets
<1>3. Word = x * Octets * Octets
  BY DEF Word
<1> HIDE DEF x
<1>4. x * Octets \in Nat \ {0}
  BY <1>1, <1>2 DEF x
<1> DEFINE y == x * Octets
<1> HIDE DEF y
<1>5. Word = y * Octets /\ y \in Nat \ {0}
  BY <1>3, <1>4 DEF y
<1> QED BY <1>1, <1>5

LEMMA SignedIs ==
  ASSUME NEW n \in Int
  PROVE  \E k \in Int : Signed(n) = n + k * Word
<1>1. Word \in Nat \ {0}
  BY WordIs
<1> DEFINE m == n % Word
<1>2. PICK k \in Int : m = n + k * Word
  BY <1>1, Modulo
<1>3. Signed(n) = m \/ Signed(n) = m - Word
  BY DEF Signed
<1> HIDE DEF m
<1>4. m - Word = n + (k - 1) * Word /\ k - 1 \in Int
  BY <1>1, <1>2
<1> QED BY <1>2, <1>3, <1>4

\* One turn of the loop of ipToNumber.
LEMMA OneOctet ==
  ASSUME NEW x \in Int, NEW v \in Int, NEW d \in Octet, \E k \in Int : x = v + k * Word
  PROVE  /\ v * Octets + d \in Int
         /\ Signed(x * Octets) + d \in Int
         /\ \E k \in Int : Signed(x * Octets) + d = (v * Octets + d) + k * Word
<1>1. Octets \in Nat \ {0} /\ Word \in Nat \ {0} /\ d \in Int
  BY WordIs DEF Octet
<1>2. PICK k \in Int : x = v + k * Word
  OBVIOUS
<1>3. x * Octets \in Int
  BY <1>1
<1>4. PICK l \in Int : Signed(x * Octets) = x * Octets + l * Word
  BY <1>3, SignedIs
<1>5. x * Octets = v * Octets + (k * Octets) * Word
  BY <1>1, <1>2
<1> DEFINE m == k * Octets
<1>6. m \in Int /\ l * Word \in Int /\ m * Word \in Int /\ v * Octets \in Int
  BY <1>1
<1>7. x * Octets = v * Octets + m * Word
  BY <1>5
<1> HIDE DEF m
<1>8. (m + l) * Word = m * Word + l * Word /\ m + l \in Int
  BY <1>1, <1>6
<1>9. Signed(x * Octets) + d = (v * Octets + d) + (m + l) * Word
  BY <1>1, <1>3, <1>4, <1>6, <1>7, <1>8
<1>10. Signed(x * Octets) + d \in Int /\ v * Octets + d \in Int
  BY <1>1, <1>3, <1>4, <1>6
<1> DEFINE q == m + l
<1>11. q \in Int /\ Signed(x * Octets) + d = (v * Octets + d) + q * Word
  BY <1>8, <1>9
<1> HIDE DEF q
<1> QED BY <1>10, <1>11

\* The address as one number.
Address(ip) == ((ip[1] * Octets + ip[2]) * Octets + ip[3]) * Octets + ip[4]

Turns(ip, f) ==
  /\ DOMAIN f = 0 .. Len(ip) /\ f[0] = 0
  /\ \A i \in 1 .. Len(ip) : f[i] = Signed(f[i - 1] * Octets) + ip[i]

LEMMA ShiftedTurns ==
  ASSUME NEW ip \in Seq(Octet), Len(ip) = 4
  PROVE  \E f : Turns(ip, f) /\ Shifted(ip) = f[4]
<1> DEFINE Loop(f) == f = [i \in 0 .. Len(ip) |->
                             IF i = 0 THEN 0 ELSE Signed(f[i - 1] * Octets) + ip[i]]
           v1 == Signed(0 * Octets) + ip[1]
           v2 == Signed(v1 * Octets) + ip[2]
           v3 == Signed(v2 * Octets) + ip[3]
           v4 == Signed(v3 * Octets) + ip[4]
<1>1. \E f : Loop(f)
  <2> HIDE DEF v4
  <2> DEFINE g == [i \in 0..4 |-> IF i = 0 THEN 0 ELSE IF i = 1 THEN v1 ELSE IF i = 2 THEN v2
                                  ELSE IF i = 3 THEN v3 ELSE v4]
  <2>1. g[0] = 0 /\ g[1] = v1 /\ g[2] = v2 /\ g[3] = v3 /\ g[4] = v4
    <3> HIDE DEF v1, v2, v3
    <3> QED OBVIOUS
  <2>2. g = [i \in 0..4 |-> g[i]]
    OBVIOUS
  <2> HIDE DEF g
  <2>3. ASSUME NEW i \in 0..4
        PROVE  g[i] = IF i = 0 THEN 0 ELSE Signed(g[i - 1] * Octets) + ip[i]
    <3>1. i = 0 \/ i = 1 \/ i = 2 \/ i = 3 \/ i = 4
      OBVIOUS
    <3>2. CASE i = 0
      BY <2>1, <3>2
    <3>3. CASE i = 1
      <4>1. i - 1 = 0 /\ i # 0
        BY <3>3
      <4> QED BY <2>1, <3>3, <4>1
    <3>4. CASE i = 2
      <4>1. i - 1 = 1 /\ i # 0
        BY <3>4
      <4> HIDE DEF v1
      <4> QED BY <2>1, <3>4, <4>1
    <3>5. CASE i = 3
      <4>1. i - 1 = 2 /\ i # 0
        BY <3>5
      <4> HIDE DEF v2
      <4> QED BY <2>1, <3>5, <4>1
    <3>6. CASE i = 4
      <4>1. i - 1 = 3 /\ i # 0
        BY <3>6
      <4> HIDE DEF v3
      <4> QED BY <2>1, <3>6, <4>1 DEF v4
    <3> QED BY <3>1, <3>2, <3>3, <3>4, <3>5, <3>6
  <2>4. Loop(g)
    BY <2>2, <2>3
  <2> QED BY <2>4
<1> DEFINE g == CHOOSE g : Loop(g)
<1>2. Loop(g)
  BY <1>1
<1>3. Shifted(ip) = g[4]
  BY DEF Shifted
<1> HIDE DEF g, v1, v2, v3, v4
<1>4. DOMAIN g = 0..4 /\ \A i \in 0..4 : g[i] = IF i = 0 THEN 0 ELSE Signed(g[i - 1] * Octets) + ip[i]
  BY <1>2
<1>5. Turns(ip, g)
  <2>1. g[0] = 0
    BY <1>4
  <2>2. \A i \in 1..4 : i \in 0..4 /\ i # 0
    OBVIOUS
  <2>3. \A i \in 1..4 : g[i] = Signed(g[i - 1] * Octets) + ip[i]
    BY <1>4, <2>2
  <2> QED BY <1>4, <2>1, <2>3 DEF Turns
<1> QED BY <1>3, <1>5

LEMMA FourOctets ==
  ASSUME NEW ip \in Seq(Octet), Len(ip) = 4
  PROVE  ip[1] \in Octet /\ ip[2] \in Octet /\ ip[3] \in Octet /\ ip[4] \in Octet
<1>1. \A i \in 1..4 : ip[i] \in Octet
  BY ElementOfSeq
<1> HIDE DEF Octet
<1> QED BY <1>1

LEMMA ShiftedIs ==
  ASSUME NEW ip \in Seq(Octet), Len(ip) = 4
  PROVE  /\ Address(ip) \in Int
         /\ \E k \in Int : Shifted(ip) = Address(ip) + k * Word
<1>1. PICK f : Turns(ip, f) /\ Shifted(ip) = f[4]
  BY ShiftedTurns
<1>2. ip[1] \in Octet /\ ip[2] \in Octet /\ ip[3] \in Octet /\ ip[4] \in Octet
  BY FourOctets
<1>3. /\ f[0] = 0
      /\ f[1] = Signed(f[0] * Octets) + ip[1] /\ f[2] = Signed(f[1] * Octets) + ip[2]
      /\ f[3] = Signed(f[2] * Octets) + ip[3] /\ f[4] = Signed(f[3] * Octets) + ip[4]
  <2>1. \A i \in 1..4 : f[i] = Signed(f[i - 1] * Octets) + ip[i]
    BY <1>1 DEF Turns
  <2>2. 1 - 1 = 0 /\ 2 - 1 = 1 /\ 3 - 1 = 2 /\ 4 - 1 = 3
    OBVIOUS
  <2>3. f[0] = 0
    BY <1>1 DEF Turns
  <2> QED BY <2>1, <2>2, <2>3
<1> DEFINE v1 == 0 * Octets + ip[1]
           v2 == v1 * Octets + ip[2]
           v3 == v2 * Octets + ip[3]
           v4 == v3 * Octets + ip[4]
           Agrees(x, v) == x \in Int /\ v \in Int /\ \E k \in Int : x = v + k * Word
<1>4. \A x, v : \A d \in Octet : Agrees(x, v) => Agrees(Signed(x * Octets) + d, v * Octets + d)
  BY OneOctet
<1>5. Agrees(f[0], 0)
  <2>1. f[0] = 0 + 0 * Word
    BY <1>3, WordIs
  <2> QED BY <1>3, <2>1
<1> HIDE DEF Agrees
<1>6. Agrees(f[1], v1)
  BY <1>2, <1>3, <1>4, <1>5
<1> HIDE DEF v1
<1>7. Agrees(f[2], v2)
  BY <1>2, <1>3, <1>4, <1>6
<1> HIDE DEF v2
<1>8. Agrees(f[3], v3)
  BY <1>2, <1>3, <1>4, <1>7
<1> HIDE DEF v3
<1>9. Agrees(f[4], v4)
  BY <1>2, <1>3, <1>4, <1>8
<1>10. v1 = ip[1]
  BY <1>2, WordIs DEF v1, Octet
<1>11. v4 = Address(ip)
  BY <1>10 DEF Address, v2, v3
<1> HIDE DEF v4
<1> QED BY <1>1, <1>9, <1>11 DEF Agrees

\* One more digit, of numbers with as many digits, and of two in their order.
LEMMA Digit ==
  ASSUME NEW n \in Nat, NEW d \in Octet
  PROVE  /\ n * Octets + d \in Nat
         /\ \A m \in Nat : n < m => n * Octets + d < m * Octets
         /\ n # 0 \/ d # 0 => n * Octets + d # 0
<1>1. Octets \in Nat \ {0} /\ d \in Nat /\ d < Octets
  BY WordIs DEF Octet
<1>2. n * Octets \in Nat
  BY <1>1
<1>3. ASSUME NEW m \in Nat, n < m PROVE n * Octets + d < m * Octets
  <2>1. m - (n + 1) \in Nat
    BY <1>3
  <2>2. (m - (n + 1)) * Octets \in Nat
    BY <1>1, <2>1
  <2>3. (m - (n + 1)) * Octets = m * Octets - n * Octets - Octets
    BY <1>1
  <2>4. m * Octets \in Nat
    BY <1>1
  <2> QED BY <1>1, <1>2, <2>2, <2>3, <2>4
<1>4. n # 0 => n * Octets # 0
  BY <1>1
<1> QED BY <1>1, <1>2, <1>3, <1>4

LEMMA DigitBelow ==
  ASSUME NEW n \in Nat, NEW m \in Nat, NEW d \in Octet, NEW e \in Octet
  PROVE  n < m \/ (n = m /\ d < e) => n * Octets + d < m * Octets + e
<1>1. Octets \in Nat \ {0} /\ d \in Nat /\ e \in Nat
  BY WordIs DEF Octet
<1>2. n * Octets \in Nat /\ m * Octets \in Nat
  BY <1>1
<1>3. n < m => n * Octets + d < m * Octets
  BY Digit
<1> QED BY <1>1, <1>2, <1>3

LEMMA AddressIs ==
  ASSUME NEW ip \in Seq(Octet), Len(ip) = 4
  PROVE  /\ ipToNumber(ip) = Address(ip) /\ Address(ip) \in Nat
         /\ \A i \in 1..4 : ip[i] # 0 => Address(ip) # 0
<1>1. ip[1] \in Octet /\ ip[2] \in Octet /\ ip[3] \in Octet /\ ip[4] \in Octet
  BY FourOctets
<1> DEFINE a == ip[1]
           b == ip[2]
           c == ip[3]
           d == ip[4]
           v2 == a * Octets + b
           v3 == v2 * Octets + c
           v4 == v3 * Octets + d
<1>2. a \in Nat /\ a < Octets
  BY <1>1, WordIs DEF Octet
<1>3. b \in Octet /\ c \in Octet /\ d \in Octet /\ Octets \in Nat \ {0}
  BY <1>1, WordIs
<1>4. v4 = Address(ip)
  BY DEF Address
<1>5. ip[1] = a /\ ip[2] = b /\ ip[3] = c /\ ip[4] = d
  OBVIOUS
<1> HIDE DEF a, b, c, d
<1>6. Octets * Octets \in Nat /\ Octets * Octets * Octets \in Nat
  BY <1>3
<1>7. v2 \in Nat /\ v2 < Octets * Octets /\ (a # 0 \/ b # 0 => v2 # 0)
  BY <1>2, <1>3, Digit
<1> HIDE DEF v2
<1>8. v3 \in Nat /\ v3 < Octets * Octets * Octets /\ (v2 # 0 \/ c # 0 => v3 # 0)
  BY <1>3, <1>6, <1>7, Digit
<1> HIDE DEF v3
<1>9. v4 \in Nat /\ v4 < Word /\ (v3 # 0 \/ d # 0 => v4 # 0)
  BY <1>3, <1>6, <1>8, Digit DEF Word
<1> HIDE DEF v4
<1>10. PICK k \in Int : Shifted(ip) = v4 + k * Word
  BY <1>4, ShiftedIs
<1>11. v4 \in 0..Word - 1 /\ Word \in Nat \ {0}
  BY <1>9, WordIs
<1>12. Shifted(ip) % Word = v4
  <2>1. (v4 + k * Word) % Word = v4
    BY <1>11, ModuloIs
  <2> QED BY <1>10, <2>1
<1>13. ipToNumber(ip) = v4
  <2>1. ip # <<>>
    OBVIOUS
  <2> QED BY <1>12, <2>1 DEF ipToNumber
<1>14. ASSUME NEW i \in 1..4, ip[i] # 0 PROVE v4 # 0
  <2>1. i = 1 \/ i = 2 \/ i = 3 \/ i = 4
    OBVIOUS
  <2> QED BY <1>5, <1>7, <1>8, <1>9, <1>14, <2>1
<1> QED BY <1>4, <1>9, <1>13, <1>14

\* The numbers are in the order of the octets.
LEMMA AddressesInOrder ==
  ASSUME NEW a \in Seq(Octet), NEW b \in Seq(Octet), Len(a) \in {0, 4}, Len(b) \in {0, 4}
  PROVE  /\ ipToNumber(a) \in Nat /\ ipToNumber(b) \in Nat
         /\ IPBefore(a, b) => ipToNumber(a) < ipToNumber(b)
<1>1. (a = <<>> \/ Len(a) = 4) /\ (b = <<>> \/ Len(b) = 4)
  OBVIOUS
<1>2. ipToNumber(<<>>) = 0
  BY DEF ipToNumber
<1>3. ipToNumber(a) \in Nat /\ ipToNumber(b) \in Nat
  <2> HIDE DEF ipToNumber
  <2> QED BY <1>1, <1>2, AddressIs
<1>4. CASE a = <<>>
  <2> SUFFICES ASSUME IPBefore(a, b) PROVE ipToNumber(a) < ipToNumber(b)
    BY <1>3
  <2>1. PICK i \in DOMAIN b : b # <<>> /\ b[i] # 0
    BY <1>4 DEF IPBefore
  <2>2. Len(b) = 4 /\ i \in 1..4
    BY <1>1, <2>1
  <2>3. ipToNumber(b) # 0
    BY <2>1, <2>2, AddressIs
  <2> QED BY <1>2, <1>3, <1>4, <2>3
<1>5. CASE a # <<>>
  <2> SUFFICES ASSUME IPBefore(a, b) PROVE ipToNumber(a) < ipToNumber(b)
    BY <1>3
  <2>1. PICK i \in DOMAIN b : b # <<>> /\ a[i] < b[i] /\ \A j \in 1 .. i - 1 : a[j] = b[j]
    BY <1>5 DEF IPBefore
  <2>2. Len(a) = 4 /\ Len(b) = 4 /\ i \in 1..4
    BY <1>1, <1>5, <2>1
  <2>3. ipToNumber(a) = Address(a) /\ ipToNumber(b) = Address(b)
    BY <2>2, AddressIs
  <2>4. /\ a[1] \in Octet /\ a[2] \in Octet /\ a[3] \in Octet /\ a[4] \in Octet
        /\ b[1] \in Octet /\ b[2] \in Octet /\ b[3] \in Octet /\ b[4] \in Octet
    BY <2>2, FourOctets
  <2> DEFINE a2 == a[1] * Octets + a[2]
             a3 == a2 * Octets + a[3]
             b2 == b[1] * Octets + b[2]
             b3 == b2 * Octets + b[3]
  <2>5. a[1] \in Nat /\ b[1] \in Nat
    BY <2>4 DEF Octet
  <2>6. a2 \in Nat /\ b2 \in Nat
    BY <2>4, <2>5, Digit
  <2>7. a[1] < b[1] \/ (a[1] = b[1] /\ a[2] < b[2]) => a2 < b2
    BY <2>4, <2>5, DigitBelow
  <2>8. a[1] = b[1] /\ a[2] = b[2] => a2 = b2
    OBVIOUS
  <2> HIDE DEF a2, b2
  <2>9. a3 \in Nat /\ b3 \in Nat
    BY <2>4, <2>6, Digit
  <2>10. a2 < b2 \/ (a2 = b2 /\ a[3] < b[3]) => a3 < b3
    BY <2>4, <2>6, DigitBelow
  <2>11. a2 = b2 /\ a[3] = b[3] => a3 = b3
    OBVIOUS
  <2> HIDE DEF a3, b3
  <2>12. a3 < b3 \/ (a3 = b3 /\ a[4] < b[4]) => a3 * Octets + a[4] < b3 * Octets + b[4]
    BY <2>4, <2>9, DigitBelow
  <2>13. Address(a) = a3 * Octets + a[4] /\ Address(b) = b3 * Octets + b[4]
    BY DEF Address, a2, a3, b2, b3
  <2>14. a3 < b3 \/ (a3 = b3 /\ a[4] < b[4])
    <3>1. CASE i = 1
      BY <2>1, <2>7, <2>10, <3>1
    <3>2. CASE i = 2
      <4>1. a[1] = b[1]
        BY <2>1, <3>2
      <4> QED BY <2>1, <2>7, <2>10, <3>2, <4>1
    <3>3. CASE i = 3
      <4>1. a[1] = b[1] /\ a[2] = b[2]
        BY <2>1, <3>3
      <4> QED BY <2>1, <2>8, <2>10, <3>3, <4>1
    <3>4. CASE i = 4
      <4>1. a[1] = b[1] /\ a[2] = b[2] /\ a[3] = b[3]
        BY <2>1, <3>4
      <4> QED BY <2>1, <2>8, <2>11, <3>4, <4>1
    <3> QED BY <2>2, <3>1, <3>2, <3>3, <3>4
  <2> QED BY <2>3, <2>12, <2>13, <2>14
<1> QED BY <1>3, <1>4, <1>5

-----------------------------------------------------------------------------
(***************************************************************************)
(* The list of hosts.                                                      *)
(***************************************************************************)

\* A list of hosts as the server answers them.
IsHostList(list) == list \in Seq({HostResponse(h) : h \in HostIds})

LEMMA FilteredHosts ==
  ASSUME TypeOK, NEW query, NEW group
  PROVE  IsHostList(filteredHosts(getHosts, query, group))
<1> DEFINE S == {HostResponse(h) : h \in HostIds}
           Shown(host) == /\ \/ query = 0
                             \/ \E f \in {"name", "display_name", "ip_text", "hostname"} :
                                  host.fields[f] # 0 /\ Includes(host.fields[f], query)
                          /\ group = 0 \/ host.fields.group = group
           list == getHosts
           keep == [i \in DOMAIN list |-> Shown(list[i])]
<1>1. list \in Seq(S)
  <2>1. list \in Seq(SetOf(list)) /\ SetOf(list) = {HostResponse(h) : h \in hosts} /\ hosts \subseteq HostIds
    BY HostsFacts DEF TypeOK
  <2>2. SetOf(list) \subseteq S
    BY <2>1
  <2> HIDE DEF list, S
  <2> QED BY <2>1, <2>2
<1>2. filteredHosts(list, query, group) = Selected(list, keep)
  BY DEF filteredHosts, Filter
<1> HIDE DEF list, keep, S
<1>3. Selected(list, keep) \in Seq(S)
  BY <1>1, SelectedFacts
<1> QED BY <1>2, <1>3 DEF IsHostList, S, list

\* Sorting by a number of each host, then by another.
LEMMA SortedByNumber ==
  ASSUME NEW S, NEW list \in Seq(S), NEW p \in [DOMAIN list -> Int], NEW q \in [DOMAIN list -> Int],
         NEW t, t = Sorted(list, StableOrder(DOMAIN list, Ranked(DOMAIN list, p, q)))
  PROVE  /\ t \in Seq(S) /\ Len(t) = Len(list) /\ SetOf(t) = SetOf(list)
         /\ \A k, l \in DOMAIN t : k < l =>
              \E i, j \in DOMAIN list : t[k] = list[i] /\ t[l] = list[j] /\ p[i] <= p[j]
<1> DEFINE D == DOMAIN list
           before == Ranked(D, p, q)
<1>1. Compares(D, before)
  BY RankedCompares
<1>2. \A i, j \in D : <<j, i>> \notin before => p[i] <= p[j]
  BY DEF Ranked
<1> HIDE DEF before
<1>3. t \in Seq(S) /\ IsSortOf(t, list, before)
  BY <1>1, SortedFacts DEF before
<1>4. \A k, l \in DOMAIN t : k < l =>
        \E i, j \in D : i # j /\ t[k] = list[i] /\ t[l] = list[j] /\ <<j, i>> \notin before
  BY <1>3 DEF IsSortOf
<1>5. ASSUME NEW k \in DOMAIN t, NEW l \in DOMAIN t, k < l
      PROVE  \E i, j \in D : t[k] = list[i] /\ t[l] = list[j] /\ p[i] <= p[j]
  <2>1. PICK i \in D, j \in D : t[k] = list[i] /\ t[l] = list[j] /\ <<j, i>> \notin before
    BY <1>4, <1>5, ZenonT(60)
  <2> QED BY <1>2, <2>1
<1> QED BY <1>3, <1>5 DEF IsSortOf

\* A host's priority is a number.
LEMMA PriorityFacts ==
  ASSUME TypeOK, NEW h \in HostIds, NEW r, r = HostResponse(h)
  PROVE  getStatusPriority(r) \in Nat
<1> DEFINE m == Largest({0} \cup {FailSeverity(info) : info \in SetOf(r.soft_fail_info)})
           name == CASE m = 4 -> "critical" [] m \in {2, 3} -> "warning" [] OTHER -> r.status
<1>1. r.status \in {"ok", "critical", "warning", "unknown"}
  BY HostFacts, StatusNames, KnownFacts DEF KnownOf
<1>2. getStatusPriority(r) = StatusPriority[name]
  BY DEF getStatusPriority
<1> HIDE DEF m
<1>3. name \in {"ok", "critical", "warning", "unknown"}
  BY <1>1
<1> HIDE DEF name
<1> QED BY <1>2, <1>3 DEF StatusPriority

LEMMA SortedByStatus ==
  ASSUME TypeOK, NEW list, IsHostList(list), NEW order,
         NEW t, t = sortedHosts(list, "status", order)
  PROVE  Len(t) = Len(list) /\ SetOf(t) = SetOf(list)
<1> DEFINE S == {HostResponse(h) : h \in HostIds}
           D == DOMAIN list
           p == [i \in D |-> 0 - getStatusPriority(list[i])]
           q == [i \in D |-> DisplayName(list[i])]
           R == {e \in D \X D :
                   \/ StatusBefore(list[e[1]], list[e[2]])
                   \/ ~StatusBefore(list[e[2]], list[e[1]]) /\ e[1] < e[2]}
           before == Ranked(D, p, q)
<1>1. list \in Seq(S)
  BY DEF IsHostList
<1>2. t = Sorted(list, R)
  BY DEF sortedHosts, StableSort
<1>3. \A i \in D : \E h \in HostIds : list[i] = HostResponse(h)
  <2> HIDE DEF S
  <2>1. \A i \in D : list[i] \in S
    BY <1>1, ElementOfSeq
  <2> QED BY <2>1 DEF S
<1>4. \A i \in D : getStatusPriority(list[i]) \in Nat /\ DisplayName(list[i]) \in Nat
  BY <1>3, PriorityFacts, NamesAreTexts
<1>5. p \in [D -> Int] /\ q \in [D -> Int]
  BY <1>4
<1>6. \A i, j \in D : StatusBefore(list[i], list[j]) <=> p[i] < p[j] \/ (p[i] = p[j] /\ q[i] < q[j])
  BY <1>4 DEF StatusBefore
<1> HIDE DEF p, q, S
<1>7. R = StableOrder(D, before)
  <2>1. ASSUME NEW e \in D \X D
        PROVE  /\ e \in before <=> StatusBefore(list[e[1]], list[e[2]])
               /\ <<e[2], e[1]>> \in before <=> StatusBefore(list[e[2]], list[e[1]])
    BY <1>6 DEF Ranked
  <2> HIDE DEF before, D
  <2> QED BY <2>1 DEF StableOrder
<1> HIDE DEF R, D
<1> QED BY <1>1, <1>2, <1>5, <1>7, SortedByNumber DEF D

\* What the other options sort by.
LEMMA ValueFacts ==
  ASSUME TypeOK, NEW h \in HostIds, NEW r, r = HostResponse(h)
  PROVE  /\ \A sortBy \in SortOptions \ {"status"} : SortValue(r, sortBy) \in Nat
         /\ SortValue(r, "ip") = ipToNumber(r.fields.ipv4)
         /\ SortValue(r, "last_check") = r.last_check
         /\ r.fields.ipv4 \in Seq(Octet) /\ Len(r.fields.ipv4) \in {0, 4}
<1>1. r.fields = HostRecord[h]
  BY HostFacts
<1>2. /\ HostRecord[h].group \in Nat /\ HostRecord[h].hostname \in Nat
      /\ HostRecord[h].ip_text \in Nat /\ HostRecord[h].ipv4 \in Seq(Octet)
      /\ Len(HostRecord[h].ipv4) \in {0, 4} /\ DefaultGroup \in Nat
  BY RecordAssumption
<1>3. ipToNumber(r.fields.ipv4) \in Nat
  BY <1>1, <1>2, AddressesInOrder
<1>4. r.last_check \in Nat
  BY HostFacts, KnownFacts DEF KnownOf
<1>5. DisplayName(r) \in Nat
  BY NamesAreTexts
<1>6. SortValue(r, "name") \in Nat
  BY <1>5 DEF SortValue
<1>7. SortValue(r, "group") \in Nat /\ SortValue(r, "hostname") \in Nat
  BY <1>1, <1>2 DEF SortValue, Or
<1>8. SortValue(r, "ip") = ipToNumber(r.fields.ipv4) /\ SortValue(r, "last_check") = r.last_check
  BY DEF SortValue
<1>9. \A sortBy \in SortOptions \ {"status"} : SortValue(r, sortBy) \in Nat
  BY <1>3, <1>4, <1>6, <1>7, <1>8 DEF SortOptions
<1> QED BY <1>1, <1>2, <1>8, <1>9

LEMMA SortedByValue ==
  ASSUME TypeOK, NEW list, IsHostList(list), NEW order \in {"asc", "desc"},
         NEW sortBy \in SortOptions \ {"status"}, NEW t, t = sortedHosts(list, sortBy, order)
  PROVE  Len(t) = Len(list) /\ SetOf(t) = SetOf(list) /\ SortedBy(t, sortBy, order)
<1> DEFINE S == {HostResponse(h) : h \in HostIds}
           D == DOMAIN list
           v(host) == SortValue(host, sortBy)
           p == [i \in D |-> IF order = "asc" THEN v(list[i]) ELSE 0 - v(list[i])]
           q == [i \in D |-> 0]
           Before(a, b) == ValueBefore(a, b, sortBy, order)
           R == {e \in D \X D :
                   \/ Before(list[e[1]], list[e[2]])
                   \/ ~Before(list[e[2]], list[e[1]]) /\ e[1] < e[2]}
           before == Ranked(D, p, q)
<1>1. list \in Seq(S)
  BY DEF IsHostList
<1>2. t = Sorted(list, R)
  BY DEF sortedHosts, StableSort
<1>3. \A i \in D : \E h \in HostIds : list[i] = HostResponse(h)
  <2> HIDE DEF S
  <2>1. \A i \in D : list[i] \in S
    BY <1>1, ElementOfSeq
  <2> QED BY <2>1 DEF S
<1>4. \A i \in D : v(list[i]) \in Nat
  BY <1>3, ValueFacts
<1>5. p \in [D -> Int] /\ q \in [D -> Int]
  BY <1>4
<1>6. \A i, j \in D : Before(list[i], list[j]) <=> p[i] < p[j] \/ (p[i] = p[j] /\ q[i] < q[j])
  BY <1>4 DEF ValueBefore
<1>7. \A i, j \in D : p[i] <= p[j] => IF order = "asc" THEN v(list[i]) <= v(list[j])
                                                     ELSE v(list[j]) <= v(list[i])
  BY <1>4
<1> HIDE DEF p, q, S, Before
<1>8. R = StableOrder(D, before)
  <2>1. ASSUME NEW e \in D \X D
        PROVE  /\ e \in before <=> Before(list[e[1]], list[e[2]])
               /\ <<e[2], e[1]>> \in before <=> Before(list[e[2]], list[e[1]])
    BY <1>6 DEF Ranked
  <2> HIDE DEF before, D
  <2> QED BY <2>1 DEF StableOrder
<1> HIDE DEF R, D, v
<1>9. /\ t \in Seq(S) /\ Len(t) = Len(list) /\ SetOf(t) = SetOf(list)
      /\ \A k, l \in DOMAIN t : k < l =>
           \E i, j \in D : t[k] = list[i] /\ t[l] = list[j] /\ p[i] <= p[j]
  BY <1>1, <1>2, <1>5, <1>8, SortedByNumber DEF D
<1>10. ASSUME NEW j \in DOMAIN t, NEW i \in 1..j - 1,
              NEW first, first = IF order = "asc" THEN t[i] ELSE t[j],
              NEW last, last = IF order = "asc" THEN t[j] ELSE t[i]
       PROVE  /\ v(first) <= v(last)
              /\ \E h \in HostIds : first = HostResponse(h)
              /\ \E h \in HostIds : last = HostResponse(h)
  <2>1. i \in DOMAIN t /\ i < j
    BY <1>9
  <2>2. PICK k \in D, l \in D : t[i] = list[k] /\ t[j] = list[l] /\ p[k] <= p[l]
    BY <1>9, <2>1
  <2> QED BY <1>3, <1>7, <1>10, <2>2
<1>11. ASSUME NEW j \in DOMAIN t, NEW i \in 1..j - 1,
              NEW first, first = IF order = "asc" THEN t[i] ELSE t[j],
              NEW last, last = IF order = "asc" THEN t[j] ELSE t[i]
       PROVE  /\ SortValue(first, sortBy) <= SortValue(last, sortBy)
              /\ sortBy = "ip" => ~IPBefore(last.fields.ipv4, first.fields.ipv4)
              /\ sortBy = "last_check" => first.last_check <= last.last_check
  <2>1. v(first) <= v(last)
    BY <1>10, <1>11
  <2>2. PICK g \in HostIds, h \in HostIds : first = HostResponse(g) /\ last = HostResponse(h)
    BY <1>10, <1>11
  <2>3. SortValue(first, sortBy) <= SortValue(last, sortBy)
    BY <2>1 DEF v
  <2>4. /\ SortValue(first, "ip") = ipToNumber(first.fields.ipv4)
        /\ SortValue(first, "last_check") = first.last_check
        /\ first.fields.ipv4 \in Seq(Octet) /\ Len(first.fields.ipv4) \in {0, 4}
    BY <2>2, ValueFacts
  <2>5. /\ SortValue(last, "ip") = ipToNumber(last.fields.ipv4)
        /\ SortValue(last, "last_check") = last.last_check
        /\ last.fields.ipv4 \in Seq(Octet) /\ Len(last.fields.ipv4) \in {0, 4}
    BY <2>2, ValueFacts
  <2>6. CASE sortBy = "ip"
    <3>1. ipToNumber(first.fields.ipv4) <= ipToNumber(last.fields.ipv4)
      BY <2>3, <2>4, <2>5, <2>6
    <3> DEFINE a == first.fields.ipv4
               b == last.fields.ipv4
    <3>2. a \in Seq(Octet) /\ b \in Seq(Octet) /\ Len(a) \in {0, 4} /\ Len(b) \in {0, 4}
      BY <2>4, <2>5
    <3> HIDE DEF a, b
    <3>3. /\ ipToNumber(a) \in Nat /\ ipToNumber(b) \in Nat
          /\ IPBefore(b, a) => ipToNumber(b) < ipToNumber(a)
      BY <3>2, AddressesInOrder
    <3>4. ipToNumber(a) <= ipToNumber(b)
      BY <3>1 DEF a, b
    <3>5. ~IPBefore(b, a)
      BY <3>3, <3>4
    <3> QED BY <2>3, <2>6, <3>5 DEF a, b
  <2> QED BY <2>3, <2>4, <2>5, <2>6
<1>12. SortedBy(t, sortBy, order)
  <2> SUFFICES ASSUME NEW j \in DOMAIN t, NEW i \in 1..j - 1
               PROVE  LET first == IF order = "asc" THEN t[i] ELSE t[j]
                          last == IF order = "asc" THEN t[j] ELSE t[i]
                      IN  CASE sortBy = "ip" -> ~IPBefore(last.fields.ipv4, first.fields.ipv4)
                            [] sortBy = "last_check" -> first.last_check <= last.last_check
                            [] OTHER -> SortValue(first, sortBy) <= SortValue(last, sortBy)
    BY DEF SortedBy
  <2> DEFINE first == IF order = "asc" THEN t[i] ELSE t[j]
             last == IF order = "asc" THEN t[j] ELSE t[i]
  <2>1. /\ SortValue(first, sortBy) <= SortValue(last, sortBy)
        /\ sortBy = "ip" => ~IPBefore(last.fields.ipv4, first.fields.ipv4)
        /\ sortBy = "last_check" => first.last_check <= last.last_check
    BY <1>11
  <2> HIDE DEF first, last
  <2>2. CASE sortBy = "ip"
    BY <2>1, <2>2 DEF first, last
  <2>3. CASE sortBy = "last_check"
    BY <2>1, <2>3 DEF first, last
  <2>4. CASE sortBy \notin {"ip", "last_check"}
    BY <2>1, <2>4 DEF first, last
  <2> QED BY <2>2, <2>3, <2>4
<1> QED BY <1>9, <1>12

\* However the hosts are filtered and sorted, the list has each of them once;
\* and sorted by anything but the status they are in the order asked for, up or
\* down, addresses included.
THEOREM TheListIsInOrder == Spec => []HostsInOrder
<1>1. TypeOK => HostsInOrder
  <2> SUFFICES ASSUME TypeOK, NEW group, NEW query, NEW sortBy \in SortOptions,
                      NEW order \in {"asc", "desc"}, NEW list, list = filteredHosts(getHosts, query, group),
                      NEW s, s = sortedHosts(list, sortBy, order)
               PROVE  /\ Len(s) = Len(list) /\ SetOf(s) = SetOf(list)
                      /\ sortBy # "status" => SortedBy(s, sortBy, order)
    BY DEF HostsInOrder
  <2>1. IsHostList(list)
    BY FilteredHosts
  <2>2. CASE sortBy = "status"
    BY <2>1, <2>2, SortedByStatus
  <2>3. CASE sortBy # "status"
    BY <2>1, <2>3, SortedByValue
  <2> QED BY <2>2, <2>3
<1> QED BY <1>1, StoreTypeCorrect, PTL

-----------------------------------------------------------------------------
(***************************************************************************)
(* Exports: what is written is read back.                                  *)
(***************************************************************************)

\* Tokens that texts are of; the punctuation is among them.
Comma == ","

Punctuated(T) == Comma \in T /\ "q" \in T /\ "n" \in T

Fields(T) == Seq(T)

Rows(T) == Seq(Fields(T))

Tables(T) == Seq(Rows(T))

\* The modes in which a field may end.
Ended == {"start", "plain", "closing"}

Readers(T) ==
  [rows : Tables(T), row : Rows(T), field : Fields(T), mode : Ended \cup {"quoted"}]

IsTurn(turn, T, n) == turn \in [T \X (1..n) -> T]

\* f is what n turns make of a.
Makes(f, a, turn, T, n) ==
  /\ f[0] = a /\ \A i \in 0..n : f[i] \in T
  /\ \A i \in 1..n : f[i] = turn[<<f[i - 1], i>>]

IsUpTo(f, n) == f = [i \in 0..n |-> f[i]]

LEMMA TurnsMake ==
  ASSUME NEW n \in Nat, NEW T, NEW a \in T, NEW turn, IsTurn(turn, T, n)
  PROVE  \E f : Makes(f, a, turn, T, n) /\ IsUpTo(f, n)
<1> DEFINE Good == {m \in 0..n : \E f \in [0..m -> T] :
                      f[0] = a /\ \A i \in 1..m : f[i] = turn[<<f[i - 1], i>>]}
<1>1. 0 \in Good
  <2> DEFINE f == [i \in 0..0 |-> a]
  <2>1. f \in [0..0 -> T] /\ f[0] = a
    OBVIOUS
  <2>2. 0 \in 0..n /\ \A i \in 1..0 : f[i] = turn[<<f[i - 1], i>>]
    OBVIOUS
  <2> HIDE DEF f
  <2> QED BY <2>1, <2>2
<1>2. ASSUME NEW m \in 0..n - 1, m \in Good
      PROVE  m + 1 \in Good
  <2>1. PICK f \in [0..m -> T] : f[0] = a /\ \A i \in 1..m : f[i] = turn[<<f[i - 1], i>>]
    BY <1>2
  <2>2. m \in 0..m /\ m + 1 \in 1..n /\ f[m] \in T
    OBVIOUS
  <2>3. turn[<<f[m], m + 1>>] \in T
    BY <2>2 DEF IsTurn
  <2> DEFINE b == turn[<<f[m], m + 1>>]
             g == [i \in 0..m + 1 |-> IF i <= m THEN f[i] ELSE b]
  <2>4. b = turn[<<f[m], m + 1>>] /\ b \in T
    BY <2>3
  <2> HIDE DEF b
  <2>5. \A i \in 0..m + 1 : g[i] = IF i <= m THEN f[i] ELSE b
    OBVIOUS
  <2>6. g \in [0..m + 1 -> T]
    BY <2>4
  <2> HIDE DEF g
  <2>7. g[0] = a
    BY <2>1, <2>5
  <2>8. ASSUME NEW i \in 1..m + 1 PROVE g[i] = turn[<<g[i - 1], i>>]
    <3>1. CASE i = m + 1
      <4>1. g[i] = b /\ i - 1 = m /\ g[i - 1] = f[m]
        BY <2>5, <3>1
      <4> QED BY <2>4, <3>1, <4>1
    <3>2. CASE i # m + 1
      <4>1. i \in 1..m /\ g[i] = f[i] /\ g[i - 1] = f[i - 1]
        BY <2>5, <3>2
      <4> QED BY <2>1, <4>1
    <3> QED BY <3>1, <3>2
  <2> QED BY <2>6, <2>7, <2>8
<1> HIDE DEF Good
<1>3. n \in Good
  BY <1>1, <1>2, UpTo
<1>4. PICK f \in [0..n -> T] : f[0] = a /\ \A i \in 1..n : f[i] = turn[<<f[i - 1], i>>]
  BY <1>3 DEF Good
<1>5. Makes(f, a, turn, T, n)
  BY <1>4 DEF Makes
<1>6. IsUpTo(f, n)
  BY <1>4 DEF IsUpTo
<1> QED BY <1>5, <1>6

\* Two lists one after the other.
LEMMA Joining ==
  ASSUME NEW S, NEW s \in Seq(S), NEW t \in Seq(S)
  PROVE  /\ s \o t \in Seq(S) /\ Len(s \o t) = Len(s) + Len(t)
         /\ Len(s) \in Nat /\ Len(t) \in Nat
         /\ \A i \in 1..Len(s) : (s \o t)[i] = s[i]
         /\ \A i \in 1..Len(t) : (s \o t)[Len(s) + i] = t[i]
<1>1. /\ s \o t \in Seq(S) /\ Len(s \o t) = Len(s) + Len(t)
      /\ \A i \in 1..Len(s) + Len(t) :
           (s \o t)[i] = IF i <= Len(s) THEN s[i] ELSE t[i - Len(s)]
  BY ConcatProperties
<1>2. Len(s) \in Nat /\ Len(t) \in Nat
  OBVIOUS
<1>3. ASSUME NEW i \in 1..Len(t) PROVE (s \o t)[Len(s) + i] = t[i]
  <2>1. Len(s) + i \in 1..Len(s) + Len(t) /\ ~(Len(s) + i <= Len(s)) /\ (Len(s) + i) - Len(s) = i
    BY <1>2
  <2> QED BY <1>1, <2>1
<1>4. \A i \in 1..Len(s) : i \in 1..Len(s) + Len(t) /\ i <= Len(s)
  BY <1>2
<1> QED BY <1>1, <1>2, <1>3, <1>4

\* The first elements of a list.
LEMMA Prefixes ==
  ASSUME NEW S, NEW s \in Seq(S)
  PROVE  /\ SubSeq(s, 1, 0) = <<>> /\ SubSeq(s, 1, Len(s)) = s
         /\ \A i \in 0..Len(s) : SubSeq(s, 1, i) \in Seq(S) /\ Len(SubSeq(s, 1, i)) = i
         /\ \A i \in 1..Len(s) : SubSeq(s, 1, i) = Append(SubSeq(s, 1, i - 1), s[i])
  OBVIOUS

LEMMA Twice ==
  ASSUME NEW S, NEW x \in S
  PROVE  <<x>> \o <<x>> = <<x, x>>
<1> DEFINE s == <<x>>
           t == <<x, x>>
<1>1. s \in Seq(S) /\ t \in Seq(S) /\ Len(s) = 1 /\ Len(t) = 2 /\ s[1] = x /\ t[1] = x /\ t[2] = x
  OBVIOUS
<1> HIDE DEF s, t
<1>2. /\ s \o s \in Seq(S) /\ Len(s \o s) = Len(s) + Len(s)
      /\ \A i \in 1..Len(s) : (s \o s)[i] = s[i]
      /\ \A i \in 1..Len(s) : (s \o s)[Len(s) + i] = s[i]
  <2>1. s \in Seq(S)
    BY <1>1
  <2> QED BY <2>1, Joining
<1>3. 1 \in 1..Len(s) /\ Len(s) + 1 = 2 /\ Len(s) + Len(s) = 2 /\ 1..2 = {1, 2}
  BY <1>1
<1>4. (s \o s)[1] = x /\ (s \o s)[2] = x
  BY <1>1, <1>2, <1>3
<1>5. s \o s = t
  BY <1>1, <1>2, <1>3, <1>4, SeqEqual
<1> QED BY <1>5 DEF s, t

\* The texts of ss up to each place, in f.
Adds(f, ss, T) ==
  /\ f[0] = <<>> /\ \A i \in 0..Len(ss) : f[i] \in Fields(T)
  /\ \A i \in 1..Len(ss) : f[i] = f[i - 1] \o ss[i]

LEMMA ConcatIs ==
  ASSUME NEW T, NEW ss \in Seq(Fields(T))
  PROVE  \E f : Adds(f, ss, T) /\ Concat(ss) = f[Len(ss)]
<1> DEFINE Loop(f) == f = [i \in 0 .. Len(ss) |-> IF i = 0 THEN <<>> ELSE f[i - 1] \o ss[i]]
           turn == [e \in Fields(T) \X (1..Len(ss)) |-> e[1] \o ss[e[2]]]
<1>1. Len(ss) \in Nat /\ <<>> \in Fields(T) /\ \A i \in 1..Len(ss) : ss[i] \in Fields(T)
  BY DEF Fields
<1>2. \A t \in Fields(T), i \in 1..Len(ss) : t \o ss[i] \in Fields(T)
  <2> TAKE t \in Fields(T), i \in 1..Len(ss)
  <2> QED BY <1>1, Joining DEF Fields
<1>3. /\ turn \in [Fields(T) \X (1..Len(ss)) -> Fields(T)]
      /\ \A t \in Fields(T), i \in 1..Len(ss) : turn[<<t, i>>] = t \o ss[i]
  BY <1>2
<1> HIDE DEF turn
<1>4. \E f : Makes(f, <<>>, turn, Fields(T), Len(ss)) /\ IsUpTo(f, Len(ss))
  <2>1. IsTurn(turn, Fields(T), Len(ss))
    BY <1>3 DEF IsTurn
  <2> QED BY <1>1, <2>1, TurnsMake
<1>5. PICK f : Makes(f, <<>>, turn, Fields(T), Len(ss)) /\ IsUpTo(f, Len(ss))
  BY <1>4
<1>6. Loop(f)
  <2>1. /\ f[0] = <<>> /\ \A i \in 0..Len(ss) : f[i] \in Fields(T)
        /\ \A i \in 1..Len(ss) : f[i] = turn[<<f[i - 1], i>>]
    BY <1>5, Zenon DEF Makes
  <2>2. ASSUME NEW i \in 0..Len(ss)
        PROVE  f[i] = IF i = 0 THEN <<>> ELSE f[i - 1] \o ss[i]
    <3>1. CASE i = 0
      BY <2>1, <3>1
    <3>2. CASE i # 0
      <4>1. i \in 1..Len(ss) /\ i - 1 \in 0..Len(ss)
        BY <1>1, <3>2
      <4> QED BY <1>3, <2>1, <3>2, <4>1
    <3> QED BY <3>1, <3>2
  <2>3. f = [i \in 0..Len(ss) |-> f[i]]
    BY <1>5, Zenon DEF IsUpTo
  <2> QED BY <2>2, <2>3, Zenon
<1> DEFINE g == CHOOSE g : Loop(g)
<1>7. Loop(g)
  BY <1>6, Zenon
<1>8. Concat(ss) = g[Len(ss)]
  BY Zenon DEF Concat
<1> HIDE DEF g
<1>9. /\ g[0] = <<>>
      /\ \A i \in 1..Len(ss) : i - 1 \in 0..Len(ss) /\ g[i] = g[i - 1] \o ss[i]
  <2>1. \A i \in 0..Len(ss) : g[i] = IF i = 0 THEN <<>> ELSE g[i - 1] \o ss[i]
    BY <1>7, Zenon
  <2> HIDE DEF Loop
  <2>2. 0 \in 0..Len(ss) /\ \A i \in 1..Len(ss) : i - 1 \in 0..Len(ss) /\ i \in 0..Len(ss) /\ i # 0
    BY <1>1
  <2> QED BY <2>1, <2>2
<1> HIDE DEF Loop
<1> DEFINE Good == {m \in 0..Len(ss) : g[m] \in Fields(T)}
<1>10. 0 \in Good
  BY <1>1, <1>9
<1>11. ASSUME NEW m \in 0..Len(ss) - 1, m \in Good PROVE m + 1 \in Good
  <2>1. m + 1 \in 1..Len(ss) /\ (m + 1) - 1 = m /\ g[m] \in Fields(T)
    BY <1>1, <1>11
  <2>2. g[m + 1] = g[m] \o ss[m + 1]
    BY <1>9, <2>1
  <2>3. g[m] \o ss[m + 1] \in Fields(T)
    BY <1>2, <2>1
  <2>4. m + 1 \in 0..Len(ss)
    BY <1>1, <2>1
  <2>5. g[m + 1] \in Fields(T)
    BY <2>2, <2>3
  <2> QED BY <2>4, <2>5
<1> HIDE DEF Good
<1>12. 0..Len(ss) \subseteq Good
  BY <1>1, <1>10, <1>11, UpTo
<1>13. \A m \in 0..Len(ss) : g[m] \in Fields(T)
  BY <1>12 DEF Good
<1> QED BY <1>8, <1>9, <1>13 DEF Adds

\* A turn of the reader.
LEMMA TakenFacts ==
  ASSUME NEW rows, NEW row, NEW field
  PROVE  /\ Taken(Reader(rows, row, field, "quoted"), "q") = Reader(rows, row, field, "closing")
         /\ Taken(Reader(rows, row, field, "closing"), "q")
              = Reader(rows, row, Append(field, "q"), "quoted")
         /\ Taken(Reader(rows, row, field, "start"), "q") = Reader(rows, row, field, "quoted")
  BY DEF Taken, Reader

LEMMA TakenInside ==
  ASSUME NEW rows, NEW row, NEW field, NEW x, x # "q"
  PROVE  Taken(Reader(rows, row, field, "quoted"), x)
           = Reader(rows, row, Append(field, x), "quoted")
  BY DEF Taken, Reader

IsPlain(x) == x \notin {",", "q", "n"}

LEMMA TakenPlain ==
  ASSUME NEW rows, NEW row, NEW field, NEW x, IsPlain(x), NEW m \in {"start", "plain"}
  PROVE  Taken(Reader(rows, row, field, m), x) = Reader(rows, row, Append(field, x), "plain")
  BY DEF Taken, Reader, IsPlain

LEMMA TakenEnds ==
  ASSUME NEW rows, NEW row, NEW field, NEW m \in Ended
  PROVE  /\ Taken(Reader(rows, row, field, m), Comma)
              = Reader(rows, Append(row, field), <<>>, "start")
         /\ Taken(Reader(rows, row, field, m), "n")
              = Reader(Append(rows, Append(row, field)), <<>>, <<>>, "start")
  BY DEF Taken, Reader, Ended, Comma

LEMMA TakenReads ==
  ASSUME NEW T, Punctuated(T), NEW r \in Readers(T), NEW x \in T
  PROVE  Taken(r, x) \in Readers(T)
<1>1. PICK rows \in Tables(T), row \in Rows(T), field \in Fields(T), m \in Ended \cup {"quoted"} :
        r = Reader(rows, row, field, m)
  BY DEF Readers, Reader
<1>2. <<>> \in Fields(T) /\ <<>> \in Rows(T) /\ Append(field, x) \in Fields(T) /\ Append(row, field) \in Rows(T)
  BY DEF Fields, Rows
<1>3. Append(rows, Append(row, field)) \in Tables(T)
  BY <1>2 DEF Tables
<1>4. ASSUME NEW a \in Tables(T), NEW b \in Rows(T), NEW c \in Fields(T), NEW d \in Ended \cup {"quoted"}
      PROVE  Reader(a, b, c, d) \in Readers(T)
  BY DEF Readers, Reader
<1>5. /\ "quoted" \in Ended \cup {"quoted"} /\ "plain" \in Ended \cup {"quoted"}
      /\ "closing" \in Ended \cup {"quoted"} /\ "start" \in Ended \cup {"quoted"}
  BY DEF Ended
<1>6. CASE m = "quoted"
  <2>1. CASE x = "q"
    BY <1>1, <1>4, <1>5, <1>6, <2>1, TakenFacts
  <2>2. CASE x # "q"
    <3>1. Taken(r, x) = Reader(rows, row, Append(field, x), "quoted")
      BY <1>1, <1>6, <2>2 DEF Taken, Reader
    <3> QED BY <1>2, <1>4, <1>5, <3>1
  <2> QED BY <2>1, <2>2
<1>7. CASE m \in Ended
  <2>1. CASE x = Comma
    <3>1. Taken(r, x) = Reader(rows, Append(row, field), <<>>, "start")
      BY <1>1, <1>7, <2>1, TakenEnds
    <3> QED BY <1>2, <1>4, <1>5, <3>1
  <2>2. CASE x = "n"
    <3>1. Taken(r, x) = Reader(Append(rows, Append(row, field)), <<>>, <<>>, "start")
      BY <1>1, <1>7, <2>2, TakenEnds
    <3> QED BY <1>2, <1>3, <1>4, <1>5, <3>1
  <2>3. CASE x \notin {Comma, "n"}
    <3>1. \/ Taken(r, x) = Reader(rows, row, field, "quoted")
          \/ Taken(r, x) = Reader(rows, row, Append(field, x), "quoted")
          \/ Taken(r, x) = Reader(rows, row, Append(field, x), "plain")
      BY <1>1, <1>7, <2>3 DEF Taken, Reader, Ended, Comma
    <3> QED BY <1>2, <1>4, <1>5, <3>1
  <2> QED BY <2>1, <2>2, <2>3
<1> QED BY <1>6, <1>7

\* What the reader has after each token, in f.
Reads(f, start, csv, T) ==
  /\ f[0] = start /\ \A i \in 0..Len(csv) : f[i] \in Readers(T)
  /\ \A i \in 1..Len(csv) : f[i] = Taken(f[i - 1], csv[i])

LEMMA ReadIs ==
  ASSUME NEW T, Punctuated(T), NEW start \in Readers(T), NEW csv \in Fields(T)
  PROVE  \E f : Reads(f, start, csv, T) /\ Read(start, csv) = f[Len(csv)]
<1> DEFINE Loop(f) == f = [i \in 0 .. Len(csv) |-> IF i = 0 THEN start ELSE Taken(f[i - 1], csv[i])]
           turn == [e \in Readers(T) \X (1..Len(csv)) |-> Taken(e[1], csv[e[2]])]
<1>1. Len(csv) \in Nat /\ \A i \in 1..Len(csv) : csv[i] \in T
  BY DEF Fields
<1>2. \A r \in Readers(T), i \in 1..Len(csv) : Taken(r, csv[i]) \in Readers(T)
  BY <1>1, TakenReads
<1>3. /\ turn \in [Readers(T) \X (1..Len(csv)) -> Readers(T)]
      /\ \A r \in Readers(T), i \in 1..Len(csv) : turn[<<r, i>>] = Taken(r, csv[i])
  BY <1>2
<1> HIDE DEF turn
<1>4. IsTurn(turn, Readers(T), Len(csv))
  BY <1>3 DEF IsTurn
<1>5. \E f : Makes(f, start, turn, Readers(T), Len(csv)) /\ IsUpTo(f, Len(csv))
  BY <1>1, <1>4, TurnsMake
<1>6. PICK f : Makes(f, start, turn, Readers(T), Len(csv)) /\ IsUpTo(f, Len(csv))
  BY <1>5
<1>7. Loop(f)
  <2>1. /\ f[0] = start /\ \A i \in 0..Len(csv) : f[i] \in Readers(T)
        /\ \A i \in 1..Len(csv) : f[i] = turn[<<f[i - 1], i>>]
    BY <1>6, Zenon DEF Makes
  <2>2. ASSUME NEW i \in 0..Len(csv)
        PROVE  f[i] = IF i = 0 THEN start ELSE Taken(f[i - 1], csv[i])
    <3>1. CASE i = 0
      BY <2>1, <3>1
    <3>2. CASE i # 0
      <4>1. i \in 1..Len(csv) /\ i - 1 \in 0..Len(csv)
        BY <1>1, <3>2
      <4> QED BY <1>3, <2>1, <3>2, <4>1
    <3> QED BY <3>1, <3>2
  <2>3. f = [i \in 0..Len(csv) |-> f[i]]
    BY <1>6, Zenon DEF IsUpTo
  <2> QED BY <2>2, <2>3, Zenon
<1> DEFINE g == CHOOSE g : Loop(g)
<1>8. Loop(g)
  BY <1>7, Zenon
<1>9. Read(start, csv) = g[Len(csv)]
  BY Zenon DEF Read
<1> HIDE DEF g
<1>10. /\ g[0] = start
       /\ \A i \in 1..Len(csv) : i - 1 \in 0..Len(csv) /\ g[i] = Taken(g[i - 1], csv[i])
  <2>1. \A i \in 0..Len(csv) : g[i] = IF i = 0 THEN start ELSE Taken(g[i - 1], csv[i])
    BY <1>8, Zenon
  <2> HIDE DEF Loop
  <2>2. /\ 0 \in 0..Len(csv)
        /\ \A i \in 1..Len(csv) : i - 1 \in 0..Len(csv) /\ i \in 0..Len(csv) /\ i # 0
    BY <1>1
  <2> QED BY <2>1, <2>2
<1> HIDE DEF Loop
<1> DEFINE Good == {m \in 0..Len(csv) : g[m] \in Readers(T)}
<1>11. 0 \in Good
  BY <1>1, <1>10
<1>12. ASSUME NEW m \in 0..Len(csv) - 1, m \in Good PROVE m + 1 \in Good
  <2>1. m + 1 \in 1..Len(csv) /\ (m + 1) - 1 = m /\ g[m] \in Readers(T)
    BY <1>1, <1>12
  <2>2. g[m + 1] = Taken(g[m], csv[m + 1])
    BY <1>10, <2>1
  <2>3. Taken(g[m], csv[m + 1]) \in Readers(T)
    BY <1>2, <2>1
  <2> QED BY <2>1, <2>2, <2>3
<1> HIDE DEF Good
<1>13. 0..Len(csv) \subseteq Good
  BY <1>1, <1>11, <1>12, UpTo
<1>14. \A m \in 0..Len(csv) : g[m] \in Readers(T)
  BY <1>13 DEF Good
<1> QED BY <1>9, <1>10, <1>14 DEF Reads

LEMMA ReadsOnce ==
  ASSUME NEW T, NEW csv \in Fields(T), NEW start, NEW f, NEW g,
         Reads(f, start, csv, T), Reads(g, start, csv, T), NEW i \in 0..Len(csv)
  PROVE  f[i] = g[i]
<1> DEFINE Good == {m \in 0..Len(csv) : f[m] = g[m]}
<1>1. Len(csv) \in Nat
  BY DEF Fields
<1>2. 0 \in Good
  BY <1>1 DEF Reads
<1>3. ASSUME NEW m \in 0..Len(csv) - 1, m \in Good PROVE m + 1 \in Good
  <2>1. m + 1 \in 1..Len(csv) /\ (m + 1) - 1 = m /\ f[m] = g[m]
    BY <1>1, <1>3
  <2>2. f[m + 1] = Taken(f[m], csv[m + 1]) /\ g[m + 1] = Taken(g[m], csv[m + 1])
    BY <2>1 DEF Reads
  <2> QED BY <2>1, <2>2
<1> HIDE DEF Good
<1>4. i \in Good
  BY <1>1, <1>2, <1>3, UpTo
<1> QED BY <1>4 DEF Good

\* One text after the other, and texts of no token and of one.
LEMMA ReadMore ==
  ASSUME NEW T, Punctuated(T), NEW start \in Readers(T), NEW s \in Fields(T), NEW t \in Fields(T)
  PROVE  /\ Read(start, s) \in Readers(T)
         /\ Read(start, s \o t) = Read(Read(start, s), t)
<1> DEFINE m == Len(s)
           n == Len(t)
<1>1. /\ s \o t \in Fields(T) /\ Len(s \o t) = m + n /\ m \in Nat /\ n \in Nat
      /\ \A i \in 1..m : (s \o t)[i] = s[i]
      /\ \A i \in 1..n : (s \o t)[m + i] = t[i]
  BY Joining DEF Fields
<1> DEFINE csv == s \o t
<1> HIDE DEF csv, m, n
<1>12. csv \in Fields(T) /\ Len(csv) = m + n
  BY <1>1 DEF csv
<1>2. PICK f : Reads(f, start, csv, T) /\ Read(start, csv) = f[m + n]
  BY <1>12, ReadIs
<1>3. PICK g : Reads(g, start, s, T) /\ Read(start, s) = g[m]
  BY ReadIs DEF m
<1>4. /\ f[0] = start /\ \A i \in 0..m + n : f[i] \in Readers(T)
      /\ \A i \in 1..m + n : f[i] = Taken(f[i - 1], csv[i])
      /\ \A i \in 1..m : csv[i] = s[i]
      /\ \A i \in 1..n : csv[m + i] = t[i]
  BY <1>1, <1>2, <1>12 DEF Reads, csv
<1> DEFINE a == [i \in 0..m |-> f[i]]
           b == [i \in 0..n |-> f[m + i]]
<1>5. Reads(a, start, s, T) /\ a[m] = f[m]
  <2>1. \A i \in 0..m : a[i] = f[i]
    BY Zenon
  <2> HIDE DEF a
  <2>2. ASSUME NEW i \in 1..m PROVE a[i] = Taken(a[i - 1], s[i])
    <3>1. i \in 1..m + n /\ i \in 0..m /\ i - 1 \in 0..m
      BY <1>1
    <3> QED BY <1>4, <2>1, <3>1
  <2>3. a[0] = start /\ a[m] = f[m]
    <3>1. 0 \in 0..m /\ m \in 0..m
      BY <1>1
    <3> QED BY <1>4, <2>1, <3>1
  <2>4. \A i \in 0..m : a[i] \in Readers(T)
    <3>1. \A i \in 0..m : i \in 0..m + n
      BY <1>1
    <3> QED BY <1>4, <2>1, <3>1
  <2> QED BY <2>2, <2>3, <2>4 DEF Reads, m
<1> HIDE DEF a
<1>6. a[m] = g[m]
  <2>1. m \in 0..m
    BY <1>1
  <2> QED BY <1>3, <1>5, <2>1, ReadsOnce DEF m
<1>7. f[m] \in Readers(T)
  BY <1>1, <1>4
<1>8. Read(start, s) = f[m]
  BY <1>3, <1>5, <1>6
<1>9. Reads(b, f[m], t, T) /\ b[n] = f[m + n]
  <2>1. \A i \in 0..n : b[i] = f[m + i]
    BY Zenon
  <2> HIDE DEF b
  <2>2. ASSUME NEW i \in 1..n PROVE b[i] = Taken(b[i - 1], t[i])
    <3>1. m + i \in 1..m + n /\ i \in 0..n /\ i - 1 \in 0..n /\ (m + i) - 1 = m + (i - 1)
      BY <1>1
    <3>2. f[m + i] = Taken(f[m + (i - 1)], t[i])
      BY <1>4, <3>1
    <3> QED BY <2>1, <3>1, <3>2
  <2>3. b[0] = f[m] /\ b[n] = f[m + n]
    <3>1. 0 \in 0..n /\ n \in 0..n /\ m + 0 = m
      BY <1>1
    <3> QED BY <2>1, <3>1
  <2>4. \A i \in 0..n : b[i] \in Readers(T)
    <3>1. \A i \in 0..n : m + i \in 0..m + n
      BY <1>1
    <3> QED BY <1>4, <2>1, <3>1
  <2> QED BY <2>2, <2>3, <2>4 DEF Reads, n
<1> HIDE DEF b
<1>10. PICK h : Reads(h, f[m], t, T) /\ Read(f[m], t) = h[n]
  BY <1>7, ReadIs DEF n
<1>11. b[n] = h[n]
  <2>1. n \in 0..n
    BY <1>1
  <2> QED BY <1>9, <1>10, <2>1, ReadsOnce DEF n
<1> QED BY <1>2, <1>7, <1>8, <1>9, <1>10, <1>11 DEF csv

LEMMA ReadFew ==
  ASSUME NEW T, Punctuated(T), NEW start \in Readers(T)
  PROVE  /\ Read(start, <<>>) = start
         /\ \A x \in T : Read(start, <<x>>) = Taken(start, x)
<1>1. <<>> \in Fields(T) /\ Len(<<>>) = 0
  BY DEF Fields
<1>2. Read(start, <<>>) = start
  <2>1. PICK f : Reads(f, start, <<>>, T) /\ Read(start, <<>>) = f[Len(<<>>)]
    BY <1>1, ReadIs
  <2> QED BY <1>1, <2>1 DEF Reads
<1>3. ASSUME NEW x \in T PROVE Read(start, <<x>>) = Taken(start, x)
  <2>1. <<x>> \in Fields(T) /\ Len(<<x>>) = 1 /\ <<x>>[1] = x
    BY DEF Fields
  <2>2. PICK f : Reads(f, start, <<x>>, T) /\ Read(start, <<x>>) = f[Len(<<x>>)]
    BY <2>1, ReadIs
  <2>3. 1 \in 1..Len(<<x>>) /\ 1 - 1 = 0
    BY <2>1
  <2>4. f[1] = Taken(f[0], x) /\ f[0] = start
    BY <2>1, <2>2, <2>3 DEF Reads
  <2> QED BY <2>1, <2>2, <2>4
<1> QED BY <1>2, <1>3

\* A field with its quotes doubled, as the reader takes it between two quotes.
LEMMA EscapedFacts ==
  ASSUME NEW T, Punctuated(T), NEW rows \in Tables(T), NEW row \in Rows(T), NEW field \in Fields(T)
  PROVE  /\ Escaped(field) \in Fields(T)
         /\ Read(Reader(rows, row, <<>>, "quoted"), Escaped(field)) = Reader(rows, row, field, "quoted")
<1> DEFINE D(x) == IF x = "q" THEN <<"q", "q">> ELSE <<x>>
           ss == [i \in DOMAIN field |-> D(field[i])]
           At(i) == Reader(rows, row, SubSeq(field, 1, i), "quoted")
<1>1. /\ Len(field) \in Nat /\ DOMAIN field = 1..Len(field) /\ "q" \in T
      /\ \A i \in 1..Len(field) : field[i] \in T
  <2>1. "q" \in T
    BY DEF Punctuated
  <2> QED BY <2>1 DEF Fields
<1>2. \A x \in T : D(x) \in Fields(T)
  <2> TAKE x \in T
  <2>1. <<"q", "q">> \in Fields(T) /\ <<x>> \in Fields(T)
    BY <1>1 DEF Fields
  <2> QED BY <2>1
<1>3. ss \in Seq(Fields(T)) /\ Len(ss) = Len(field) /\ \A i \in 1..Len(field) : ss[i] = D(field[i])
  <2> HIDE DEF D
  <2>1. \A i \in 1..Len(field) : D(field[i]) \in Fields(T)
    BY <1>1, <1>2
  <2> QED BY <1>1, <2>1
<1>4. Escaped(field) = Concat(ss)
  BY DEF Escaped
<1> HIDE DEF ss
<1>5. PICK f : Adds(f, ss, T) /\ Concat(ss) = f[Len(ss)]
  BY <1>3, ConcatIs
<1>6. \A i \in 0..Len(field) : SubSeq(field, 1, i) \in Fields(T) /\ At(i) \in Readers(T)
  <2> TAKE i \in 0..Len(field)
  <2>1. SubSeq(field, 1, i) \in Fields(T)
    BY Prefixes DEF Fields
  <2> QED BY <2>1 DEF Reader, Readers
<1>7. \A i \in 1..Len(field) : Read(At(i - 1), D(field[i])) = At(i)
  <2> TAKE i \in 1..Len(field)
  <2>1. i - 1 \in 0..Len(field) /\ field[i] \in T /\ At(i - 1) \in Readers(T)
    BY <1>1, <1>6
  <2>2. SubSeq(field, 1, i) = Append(SubSeq(field, 1, i - 1), field[i])
    BY Prefixes DEF Fields
  <2> DEFINE g == SubSeq(field, 1, i - 1)
  <2>3. At(i - 1) = Reader(rows, row, g, "quoted") /\ At(i) = Reader(rows, row, Append(g, field[i]), "quoted")
    BY <2>2
  <2> HIDE DEF At, g
  <2>4. CASE field[i] # "q"
    <3>1. Read(At(i - 1), <<field[i]>>) = Taken(At(i - 1), field[i])
      BY <2>1, ReadFew
    <3>2. Taken(Reader(rows, row, g, "quoted"), field[i]) = Reader(rows, row, Append(g, field[i]), "quoted")
      BY <2>4, TakenInside
    <3> QED BY <2>3, <2>4, <3>1, <3>2
  <2>5. CASE field[i] = "q"
    <3>1. <<"q">> \in Fields(T) /\ <<"q">> \o <<"q">> = <<"q", "q">>
      <4>1. <<"q">> \in Fields(T)
        BY <1>1 DEF Fields
      <4>2. <<"q">> \o <<"q">> = <<"q", "q">>
        <5> DEFINE c == "q"
        <5>1. c \in T
          BY <1>1
        <5> HIDE DEF c
        <5>2. <<c>> \o <<c>> = <<c, c>>
          BY <5>1, Twice
        <5> QED BY <5>2 DEF c
      <4> QED BY <4>1, <4>2
    <3>2. Read(At(i - 1), <<"q">>) = Taken(At(i - 1), "q") /\ Read(At(i - 1), <<"q">>) \in Readers(T)
      BY <1>1, <2>1, <3>1, ReadFew, ReadMore
    <3>3. Read(At(i - 1), <<"q">>) = Reader(rows, row, g, "closing")
      BY <2>3, <3>2, TakenFacts
    <3>4. Read(Read(At(i - 1), <<"q">>), <<"q">>) = Taken(Read(At(i - 1), <<"q">>), "q")
      BY <1>1, <3>2, ReadFew
    <3>5. Taken(Reader(rows, row, g, "closing"), "q") = Reader(rows, row, Append(g, "q"), "quoted")
      BY TakenFacts
    <3>6. Read(At(i - 1), <<"q">> \o <<"q">>) = Read(Read(At(i - 1), <<"q">>), <<"q">>)
      BY <2>1, <3>1, ReadMore
    <3> QED BY <2>3, <2>5, <3>1, <3>3, <3>4, <3>5, <3>6
  <2> QED BY <2>4, <2>5
<1> DEFINE Good == {i \in 0..Len(field) : Read(At(0), f[i]) = At(i)}
<1> HIDE DEF At, D
<1>8. 0 \in Good
  <2>1. f[0] = <<>> /\ At(0) \in Readers(T)
    BY <1>1, <1>5, <1>6 DEF Adds
  <2> QED BY <1>1, <2>1, ReadFew
<1>9. ASSUME NEW i \in 0..Len(field) - 1, i \in Good PROVE i + 1 \in Good
  <2>1. i + 1 \in 1..Len(field) /\ (i + 1) - 1 = i /\ i \in 0..Len(field) /\ 0 \in 0..Len(field)
    BY <1>1
  <2>2. f[i + 1] = f[i] \o ss[i + 1] /\ f[i] \in Fields(T)
    BY <1>3, <1>5, <2>1 DEF Adds
  <2>3. ss[i + 1] = D(field[i + 1]) /\ ss[i + 1] \in Fields(T)
    BY <1>1, <1>2, <1>3, <2>1
  <2>4. At(0) \in Readers(T)
    BY <1>6, <2>1
  <2>5. Read(At(0), f[i] \o ss[i + 1]) = Read(Read(At(0), f[i]), ss[i + 1])
    BY <2>2, <2>3, <2>4, ReadMore
  <2>6. Read(At(0), f[i]) = At(i)
    BY <1>9
  <2>7. Read(At(i), D(field[i + 1])) = At(i + 1)
    BY <1>7, <2>1
  <2>8. Read(At(0), f[i + 1]) = At(i + 1)
    BY <2>2, <2>3, <2>5, <2>6, <2>7
  <2> QED BY <2>1, <2>8
<1> HIDE DEF Good
<1>10. 0..Len(field) \subseteq Good /\ Len(field) \in 0..Len(field)
  BY <1>1, <1>8, <1>9, UpTo, SMTT(30)
<1>11. SubSeq(field, 1, 0) = <<>> /\ SubSeq(field, 1, Len(field)) = field
  BY Prefixes DEF Fields
<1>12. At(0) = Reader(rows, row, <<>>, "quoted") /\ At(Len(field)) = Reader(rows, row, field, "quoted")
  BY <1>11 DEF At
<1>13. f[Len(field)] \in Fields(T)
  BY <1>1, <1>3, <1>5 DEF Adds
<1> QED BY <1>3, <1>4, <1>5, <1>10, <1>12, <1>13 DEF Good

LEMMA PlainFacts ==
  ASSUME NEW T, Punctuated(T), NEW rows \in Tables(T), NEW row \in Rows(T), NEW field \in Fields(T),
         \A i \in 1..Len(field) : IsPlain(field[i])
  PROVE  \E m \in {"start", "plain"} :
           Read(Reader(rows, row, <<>>, "start"), field) = Reader(rows, row, field, m)
<1> DEFINE start == Reader(rows, row, <<>>, "start")
           At(i, m) == Reader(rows, row, SubSeq(field, 1, i), m)
<1>1. Len(field) \in Nat /\ \A i \in 1..Len(field) : field[i] \in T
  BY DEF Fields
<1>2. start \in Readers(T)
  <2>1. <<>> \in Fields(T)
    BY DEF Fields
  <2> QED BY <2>1 DEF Reader, Readers, Ended
<1>3. SubSeq(field, 1, 0) = <<>> /\ SubSeq(field, 1, Len(field)) = field
  BY Prefixes DEF Fields
<1>4. At(0, "start") = start /\ \A m : At(Len(field), m) = Reader(rows, row, field, m)
  BY <1>3
<1>5. PICK f : Reads(f, start, field, T) /\ Read(start, field) = f[Len(field)]
  BY <1>2, ReadIs
<1>6. ASSUME NEW i \in 1..Len(field), NEW m \in {"start", "plain"}
      PROVE  Taken(At(i - 1, m), field[i]) = At(i, "plain")
  <2>1. SubSeq(field, 1, i) = Append(SubSeq(field, 1, i - 1), field[i])
    BY Prefixes DEF Fields
  <2>2. IsPlain(field[i])
    OBVIOUS
  <2> DEFINE g == SubSeq(field, 1, i - 1)
             x == field[i]
  <2>3. SubSeq(field, 1, i) = Append(g, x) /\ IsPlain(x)
    BY <2>1, <2>2
  <2> HIDE DEF g, x
  <2>4. Taken(Reader(rows, row, g, m), x) = Reader(rows, row, Append(g, x), "plain")
    BY <2>3, TakenPlain
  <2> QED BY <2>3, <2>4 DEF g, x
<1> DEFINE Good == {i \in 0..Len(field) : \E m \in {"start", "plain"} : f[i] = At(i, m)}
<1> HIDE DEF At, start
<1>7. 0 \in Good
  <2>1. f[0] = start
    BY <1>5 DEF Reads
  <2> QED BY <1>1, <1>4, <2>1
<1>8. ASSUME NEW i \in 0..Len(field) - 1, i \in Good PROVE i + 1 \in Good
  <2>1. i + 1 \in 1..Len(field) /\ (i + 1) - 1 = i /\ i + 1 \in 0..Len(field)
    BY <1>1
  <2>2. PICK m \in {"start", "plain"} : f[i] = At(i, m)
    BY <1>8
  <2>3. f[i + 1] = Taken(f[i], field[i + 1])
    BY <1>5, <2>1 DEF Reads
  <2>4. Taken(At(i, m), field[i + 1]) = At(i + 1, "plain")
    BY <1>6, <2>1
  <2> QED BY <2>1, <2>2, <2>3, <2>4
<1> HIDE DEF Good
<1>12. 0..Len(field) \subseteq Good
  BY <1>1, <1>7, <1>8, UpTo
<1>9. Len(field) \in 0..Len(field) /\ Len(field) \in Good
  BY <1>1, <1>12
<1>10. PICK m \in {"start", "plain"} : f[Len(field)] = At(Len(field), m)
  BY <1>9 DEF Good
<1>11. Read(start, field) = Reader(rows, row, field, m)
  BY <1>4, <1>5, <1>10
<1> QED BY <1>11 DEF start

LEMMA ReadersAre ==
  ASSUME NEW T, NEW rows \in Tables(T), NEW row \in Rows(T), NEW field \in Fields(T),
         NEW m \in Ended \cup {"quoted"}
  PROVE  Reader(rows, row, field, m) \in Readers(T)
  BY DEF Reader, Readers

LEMMA Empties ==
  ASSUME NEW T
  PROVE  /\ <<>> \in Fields(T) /\ <<>> \in Rows(T) /\ <<>> \in Tables(T)
         /\ \A x \in T : <<x>> \in Fields(T)
         /\ "start" \in Ended /\ "plain" \in Ended /\ "closing" \in Ended
  BY DEF Fields, Rows, Tables, Ended

\* A field as it is written, quoted or not.
LEMMA QuotedFacts ==
  ASSUME NEW T, Punctuated(T), NEW rows \in Tables(T), NEW row \in Rows(T), NEW field \in Fields(T)
  PROVE  /\ Quoted(field) \in Fields(T)
         /\ \E m \in Ended :
              Read(Reader(rows, row, <<>>, "start"), Quoted(field)) = Reader(rows, row, field, m)
<1>1. CASE SetOf(field) \cap {",", "q", "n"} = {}
  <2>1. Quoted(field) = field
    BY <1>1 DEF Quoted
  <2>2. \A i \in 1..Len(field) : field[i] \in SetOf(field)
    BY DEF Fields, SetOf
  <2>3. \A i \in 1..Len(field) : IsPlain(field[i])
    BY <1>1, <2>2 DEF IsPlain
  <2>4. PICK m \in {"start", "plain"} :
          Read(Reader(rows, row, <<>>, "start"), field) = Reader(rows, row, field, m)
    BY <2>3, PlainFacts
  <2>5. m \in Ended
    BY Empties
  <2> QED BY <2>1, <2>4, <2>5
<1>2. CASE SetOf(field) \cap {",", "q", "n"} # {}
  <2> DEFINE e == Escaped(field)
             q == <<"q">>
             start == Reader(rows, row, <<>>, "start")
  <2>1. Quoted(field) = q \o e \o q
    BY <1>2 DEF Quoted
  <2>2. e \in Fields(T) /\ Read(Reader(rows, row, <<>>, "quoted"), e) = Reader(rows, row, field, "quoted")
    BY EscapedFacts
  <2>3. "q" \in T /\ q \in Fields(T) /\ start \in Readers(T)
        /\ Reader(rows, row, field, "quoted") \in Readers(T)
    <3>1. "q" \in T
      BY DEF Punctuated
    <3> QED BY <3>1, Empties, ReadersAre
  <2>4. Read(start, q) = Reader(rows, row, <<>>, "quoted")
    <3>1. Taken(start, "q") = Reader(rows, row, <<>>, "quoted")
      BY TakenFacts
    <3> QED BY <2>3, <3>1, ReadFew
  <2>5. Read(Reader(rows, row, field, "quoted"), q) = Reader(rows, row, field, "closing")
    <3>1. Taken(Reader(rows, row, field, "quoted"), "q") = Reader(rows, row, field, "closing")
      BY TakenFacts
    <3> QED BY <2>3, <3>1, ReadFew
  <2> HIDE DEF e, q, start
  <2>6. q \o e \in Fields(T) /\ q \o e \o q \in Fields(T)
    <3>1. q \o e \in Fields(T)
      BY <2>2, <2>3, Joining DEF Fields
    <3> QED BY <2>3, <3>1, Joining DEF Fields
  <2>7. Read(start, q \o e) = Reader(rows, row, field, "quoted")
    BY <2>2, <2>3, <2>4, ReadMore
  <2>8. Read(start, q \o e \o q) = Read(Read(start, q \o e), q)
    BY <2>3, <2>6, ReadMore
  <2>9. Read(start, Quoted(field)) = Reader(rows, row, field, "closing")
    BY <2>1, <2>5, <2>7, <2>8
  <2> QED BY <2>1, <2>6, <2>9, Empties DEF start
<1> QED BY <1>1, <1>2

\* The first parts, and what separates them.
Joins(g, parts, x, T) ==
  /\ g[1] = parts[1] /\ \A i \in 0..Len(parts) : g[i] \in Fields(T)
  /\ \A i \in 2..Len(parts) : g[i] = g[i - 1] \o (<<x>> \o parts[i])

LEMMA JoinedIs ==
  ASSUME NEW T, NEW x \in T, NEW parts \in Seq(Fields(T))
  PROVE  /\ Joined(parts, x) \in Fields(T)
         /\ parts # <<>> => \E g : Joins(g, parts, x, T) /\ Joined(parts, x) = g[Len(parts)]
<1> DEFINE D(i) == IF i = 1 THEN parts[1] ELSE <<x>> \o parts[i]
           ss == [i \in DOMAIN parts |-> D(i)]
           n == Len(parts)
<1>1. n \in Nat /\ DOMAIN parts = 1..n /\ <<x>> \in Fields(T) /\ \A i \in 1..n : parts[i] \in Fields(T)
  BY Empties
<1>2. \A i \in 1..n : <<x>> \o parts[i] \in Fields(T)
  <2> TAKE i \in 1..n
  <2>1. parts[i] \in Fields(T)
    BY <1>1
  <2> QED BY <1>1, <2>1, Joining DEF Fields
<1>3. \A i \in 1..n : D(i) \in Fields(T)
  BY <1>1, <1>2
<1>4. Joined(parts, x) = Concat(ss)
  BY DEF Joined
<1>5. ss \in Seq(Fields(T)) /\ Len(ss) = n /\ \A i \in 1..n : ss[i] = D(i)
  <2> HIDE DEF D
  <2> QED BY <1>1, <1>3
<1> HIDE DEF ss
<1>6. PICK g : Adds(g, ss, T) /\ Concat(ss) = g[Len(ss)]
  BY <1>5, ConcatIs
<1> HIDE DEF n
<1>7. /\ g[0] = <<>> /\ \A i \in 0..n : g[i] \in Fields(T)
      /\ \A i \in 1..n : g[i] = g[i - 1] \o ss[i]
  BY <1>5, <1>6 DEF Adds
<1>8. Joined(parts, x) = g[n] /\ g[n] \in Fields(T)
  BY <1>1, <1>4, <1>5, <1>6, <1>7
<1>9. ASSUME parts # <<>> PROVE Joins(g, parts, x, T)
  <2>1. 1 \in 1..n /\ \A i \in 2..n : i \in 1..n /\ i # 1
    BY <1>1, <1>9 DEF n
  <2>2. parts[1] \in Fields(T) /\ <<>> \o parts[1] = parts[1]
    BY <1>1, <2>1 DEF Fields
  <2>3. ss[1] = parts[1] /\ \A i \in 2..n : ss[i] = <<x>> \o parts[i]
    BY <1>5, <2>1
  <2>4. g[1] = g[0] \o ss[1]
    <3>1. g[1] = g[1 - 1] \o ss[1]
      BY <1>7, <2>1
    <3>2. 1 - 1 = 0
      OBVIOUS
    <3> QED BY <3>1, <3>2
  <2>5. g[1] = parts[1]
    BY <1>7, <2>2, <2>3, <2>4
  <2>6. \A i \in 2..n : g[i] = g[i - 1] \o (<<x>> \o parts[i])
    BY <1>7, <2>1, <2>3
  <2> QED BY <1>7, <2>5, <2>6 DEF Joins, n
<1> QED BY <1>8, <1>9 DEF n

Line(row) == Joined(Mapped(row, Quoted), Comma)

LEMMA LineFacts ==
  ASSUME NEW T, Punctuated(T), NEW rows \in Tables(T), NEW row \in Rows(T), row # <<>>
  PROVE  /\ Line(row) \in Fields(T)
         /\ \E m \in Ended :
              Read(Reader(rows, <<>>, <<>>, "start"), Line(row))
                = Reader(rows, SubSeq(row, 1, Len(row) - 1), row[Len(row)], m)
<1> DEFINE n == Len(row)
           parts == [i \in DOMAIN row |-> Quoted(row[i])]
           start == Reader(rows, <<>>, <<>>, "start")
           At(i, m) == Reader(rows, SubSeq(row, 1, i - 1), row[i], m)
<1>1. /\ n \in Nat /\ n # 0 /\ DOMAIN row = 1..n /\ Comma \in T /\ <<Comma>> \in Fields(T)
      /\ \A i \in 1..n : row[i] \in Fields(T)
  <2>1. Comma \in T
    BY DEF Punctuated
  <2>2. <<Comma>> \in Fields(T)
    BY <2>1, Empties
  <2>3. n \in Nat /\ n # 0 /\ DOMAIN row = 1..n /\ \A i \in 1..n : row[i] \in Fields(T)
    BY DEF Rows
  <2> QED BY <2>1, <2>2, <2>3
<1>2. \A i \in 1..n : Quoted(row[i]) \in Fields(T)
  BY <1>1, Empties, QuotedFacts
<1>3. /\ parts \in Seq(Fields(T)) /\ Len(parts) = n /\ parts # <<>>
      /\ \A i \in 1..n : parts[i] = Quoted(row[i])
  BY <1>1, <1>2
<1>4. Mapped(row, Quoted) = parts
  <2>1. parts = [i \in DOMAIN row |-> parts[i]] /\ row \in Seq(Fields(T))
    BY DEF Rows
  <2>2. Mapped(row, Quoted) = SubSeq(parts, 1, n)
    BY DEF Mapped
  <2> HIDE DEF parts
  <2> QED BY <2>1, <2>2, MapFacts
<1> HIDE DEF parts
<1>5. Line(row) = Joined(parts, Comma)
  BY <1>4 DEF Line
<1>6. PICK g : Joins(g, parts, Comma, T) /\ Joined(parts, Comma) = g[n]
  BY <1>1, <1>3, JoinedIs
<1>7. /\ g[1] = parts[1] /\ \A i \in 0..n : g[i] \in Fields(T)
      /\ \A i \in 2..n : g[i] = g[i - 1] \o (<<Comma>> \o parts[i])
  BY <1>3, <1>6 DEF Joins
<1>8. start \in Readers(T)
  BY Empties, ReadersAre
<1>9. \A i \in 1..n : SubSeq(row, 1, i - 1) \in Rows(T) /\ \A m \in Ended : At(i, m) \in Readers(T)
  <2> TAKE i \in 1..n
  <2>1. i - 1 \in 0..n /\ row[i] \in Fields(T)
    BY <1>1
  <2>2. SubSeq(row, 1, i - 1) \in Rows(T)
    BY <2>1, Prefixes DEF Rows
  <2> QED BY <2>1, <2>2, ReadersAre
<1>10. \E m \in Ended : Read(start, parts[1]) = At(1, m)
  <2>1. 1 \in 1..n /\ row[1] \in Fields(T)
    BY <1>1
  <2>2. SubSeq(row, 1, 1 - 1) = <<>>
    BY Prefixes DEF Rows
  <2>3. \E m \in Ended : Read(start, Quoted(row[1])) = Reader(rows, <<>>, row[1], m)
    BY <2>1, Empties, QuotedFacts
  <2> QED BY <1>3, <2>1, <2>2, <2>3
<1>11. ASSUME NEW i \in 1..n - 1, NEW m \in Ended
       PROVE  \E e \in Ended : Read(At(i, m), <<Comma>> \o parts[i + 1]) = At(i + 1, e)
  <2>1. i \in 1..n /\ i + 1 \in 1..n /\ (i + 1) - 1 = i /\ row[i + 1] \in Fields(T)
    BY <1>1
  <2>2. SubSeq(row, 1, i) = Append(SubSeq(row, 1, i - 1), row[i]) /\ SubSeq(row, 1, i) \in Rows(T)
    <3>1. i \in 0..n
      BY <2>1
    <3> QED BY <2>1, <3>1, Prefixes DEF Rows
  <2> DEFINE r == SubSeq(row, 1, i)
             next == Reader(rows, r, <<>>, "start")
  <2> DEFINE a == SubSeq(row, 1, i - 1)
             b == row[i]
  <2>9. At(i, m) = Reader(rows, a, b, m) /\ next = Reader(rows, Append(a, b), <<>>, "start")
    BY <2>2
  <2> HIDE DEF a, b
  <2>10. Taken(Reader(rows, a, b, m), Comma) = Reader(rows, Append(a, b), <<>>, "start")
    BY TakenEnds
  <2>3. Taken(At(i, m), Comma) = next
    BY <2>9, <2>10
  <2>4. Read(At(i, m), <<Comma>>) = next
    BY <1>1, <1>9, <2>1, <2>3, ReadFew
  <2>5. PICK e \in Ended : Read(next, Quoted(row[i + 1])) = Reader(rows, r, row[i + 1], e)
    BY <2>1, <2>2, QuotedFacts
  <2>6. At(i + 1, e) = Reader(rows, r, row[i + 1], e)
    BY <2>1
  <2>7. parts[i + 1] = Quoted(row[i + 1]) /\ parts[i + 1] \in Fields(T)
    BY <1>2, <1>3, <2>1
  <2> HIDE DEF next, At, r
  <2>8. Read(At(i, m), <<Comma>> \o parts[i + 1]) = Read(Read(At(i, m), <<Comma>>), parts[i + 1])
    BY <1>1, <1>9, <2>1, <2>7, ReadMore
  <2> QED BY <2>4, <2>5, <2>6, <2>7, <2>8
<1> DEFINE Good == {i \in 0..n : i # 0 => \E m \in Ended : Read(start, g[i]) = At(i, m)}
<1> HIDE DEF At, start, n
<1>12. 0 \in Good
  BY <1>1
<1>13. ASSUME NEW i \in 0..n - 1, i \in Good PROVE i + 1 \in Good
  <2>1. i + 1 \in 0..n /\ i + 1 # 0
    BY <1>1
  <2>2. CASE i = 0
    <3>1. i + 1 = 1
      BY <2>2
    <3> QED BY <1>7, <1>10, <2>1, <3>1
  <2>3. CASE i # 0
    <3>1. i \in 1..n - 1 /\ i + 1 \in 2..n /\ (i + 1) - 1 = i /\ i + 1 \in 1..n
      BY <1>1, <2>3
    <3>2. PICK m \in Ended : Read(start, g[i]) = At(i, m)
      BY <1>13, <2>3
    <3>8. g[i] \in Fields(T)
      BY <1>1, <1>7, <3>1
    <3>9. g[i + 1] = g[(i + 1) - 1] \o (<<Comma>> \o parts[i + 1])
      BY <1>7, <3>1
    <3>3. g[i + 1] = g[i] \o (<<Comma>> \o parts[i + 1]) /\ g[i] \in Fields(T)
      BY <3>1, <3>8, <3>9
    <3> DEFINE t == <<Comma>> \o parts[i + 1]
    <3>4. t \in Fields(T)
      <4>1. parts[i + 1] \in Fields(T)
        BY <1>2, <1>3, <3>1
      <4> QED BY <1>1, <4>1, Joining DEF Fields
    <3>5. PICK e \in Ended : Read(At(i, m), t) = At(i + 1, e)
      BY <1>11, <3>1
    <3> HIDE DEF t
    <3>6. Read(start, g[i] \o t) = Read(Read(start, g[i]), t)
      BY <1>8, <3>3, <3>4, ReadMore
    <3>7. Read(start, g[i + 1]) = At(i + 1, e)
      BY <3>2, <3>3, <3>5, <3>6 DEF t
    <3> QED BY <2>1, <3>7
  <2> QED BY <2>2, <2>3
<1> HIDE DEF Good
<1>14. 0..n \subseteq Good
  BY <1>1, <1>12, <1>13, UpTo
<1>15. n \in Good
  BY <1>1, <1>14
<1>16. PICK m \in Ended : Read(start, g[n]) = At(n, m)
  BY <1>1, <1>15 DEF Good
<1>17. Line(row) = g[n] /\ g[n] \in Fields(T)
  BY <1>1, <1>5, <1>6, <1>7
<1>18. Read(start, Line(row)) = Reader(rows, SubSeq(row, 1, Len(row) - 1), row[Len(row)], m)
  BY <1>16, <1>17 DEF At, n
<1> QED BY <1>17, <1>18 DEF start

\* The last field of a row ends it.
LEMMA LastField ==
  ASSUME NEW S, NEW s \in Seq(S), s # <<>>
  PROVE  Append(SubSeq(s, 1, Len(s) - 1), s[Len(s)]) = s
<1>1. Len(s) \in 1..Len(s)
  OBVIOUS
<1> QED BY <1>1, Prefixes

LEMMA CSVFacts ==
  ASSUME NEW T, Punctuated(T), NEW table \in Tables(T), table # <<>>,
         \A i \in 1..Len(table) : table[i] # <<>>
  PROVE  /\ arrayToCSV(table) \in Fields(T)
         /\ \E m \in Ended :
              LET last == table[Len(table)]
              IN  Read(Reader(<<>>, <<>>, <<>>, "start"), arrayToCSV(table))
                    = Reader(SubSeq(table, 1, Len(table) - 1),
                             SubSeq(last, 1, Len(last) - 1), last[Len(last)], m)
<1> DEFINE n == Len(table)
           parts == [i \in DOMAIN table |-> Line(table[i])]
           start == Reader(<<>>, <<>>, <<>>, "start")
           At(i, m) == Reader(SubSeq(table, 1, i - 1), SubSeq(table[i], 1, Len(table[i]) - 1),
                              table[i][Len(table[i])], m)
<1>1. /\ n \in Nat /\ n # 0 /\ DOMAIN table = 1..n /\ "n" \in T /\ <<"n">> \in Fields(T)
      /\ \A i \in 1..n : table[i] \in Rows(T) /\ table[i] # <<>>
  <2>1. "n" \in T
    BY DEF Punctuated
  <2>2. <<"n">> \in Fields(T)
    BY <2>1, Empties
  <2>3. n \in Nat /\ n # 0 /\ DOMAIN table = 1..n /\ \A i \in 1..n : table[i] \in Rows(T)
    BY DEF Tables
  <2> QED BY <2>1, <2>2, <2>3
<1>2. \A i \in 1..n : Line(table[i]) \in Fields(T)
  BY <1>1, Empties, LineFacts
<1>3. /\ parts \in Seq(Fields(T)) /\ Len(parts) = n /\ parts # <<>>
      /\ \A i \in 1..n : parts[i] = Line(table[i])
  BY <1>1, <1>2
<1>4. arrayToCSV(table) = Joined(parts, "n")
  <2>1. parts = [i \in DOMAIN table |-> parts[i]] /\ table \in Seq(Rows(T))
    BY DEF Tables
  <2>2. arrayToCSV(table) = Joined(SubSeq(parts, 1, n), "n")
    BY DEF Mapped, arrayToCSV, Line, Comma
  <2> HIDE DEF parts
  <2> QED BY <2>1, <2>2, MapFacts
<1> HIDE DEF parts
<1>6. PICK g : Joins(g, parts, "n", T) /\ Joined(parts, "n") = g[n]
  BY <1>1, <1>3, JoinedIs
<1>7. /\ g[1] = parts[1] /\ \A i \in 0..n : g[i] \in Fields(T)
      /\ \A i \in 2..n : g[i] = g[i - 1] \o (<<"n">> \o parts[i])
  BY <1>3, <1>6 DEF Joins
<1>8. start \in Readers(T)
  BY Empties, ReadersAre
<1>9. \A i \in 1..n : SubSeq(table, 1, i - 1) \in Tables(T) /\ \A m \in Ended : At(i, m) \in Readers(T)
  <2> TAKE i \in 1..n
  <2> DEFINE row == table[i]
             k == Len(table[i])
  <2>1. i - 1 \in 0..n /\ row \in Rows(T) /\ row # <<>>
    BY <1>1
  <2>2. SubSeq(table, 1, i - 1) \in Tables(T)
    BY <2>1, Prefixes DEF Tables
  <2>3. k \in Nat /\ k # 0 /\ row[k] \in Fields(T)
    BY <2>1 DEF Rows
  <2>4. SubSeq(row, 1, k - 1) \in Rows(T)
    <3>1. k - 1 \in 0..k
      BY <2>3
    <3> QED BY <2>1, <3>1, Prefixes DEF Rows
  <2> QED BY <2>2, <2>3, <2>4, ReadersAre
<1>10. \E m \in Ended : Read(start, parts[1]) = At(1, m)
  <2>1. 1 \in 1..n /\ table[1] \in Rows(T) /\ table[1] # <<>>
    BY <1>1
  <2>2. SubSeq(table, 1, 1 - 1) = <<>>
    BY Prefixes DEF Tables
  <2>3. \E m \in Ended : Read(start, Line(table[1])) =
          Reader(<<>>, SubSeq(table[1], 1, Len(table[1]) - 1), table[1][Len(table[1])], m)
    BY <2>1, Empties, LineFacts
  <2> QED BY <1>3, <2>1, <2>2, <2>3
<1>11. ASSUME NEW i \in 1..n - 1, NEW m \in Ended
       PROVE  \E e \in Ended : Read(At(i, m), <<"n">> \o parts[i + 1]) = At(i + 1, e)
  <2>1. /\ i \in 1..n /\ i + 1 \in 1..n /\ (i + 1) - 1 = i
        /\ table[i + 1] \in Rows(T) /\ table[i + 1] # <<>> /\ table[i] \in Rows(T) /\ table[i] # <<>>
    BY <1>1
  <2>2. SubSeq(table, 1, i) = Append(SubSeq(table, 1, i - 1), table[i]) /\ SubSeq(table, 1, i) \in Tables(T)
    <3>1. i \in 0..n
      BY <2>1
    <3> QED BY <2>1, <3>1, Prefixes DEF Tables
  <2>3. Append(SubSeq(table[i], 1, Len(table[i]) - 1), table[i][Len(table[i])]) = table[i]
    BY <2>1, LastField DEF Rows
  <2> DEFINE r == SubSeq(table, 1, i)
             next == Reader(r, <<>>, <<>>, "start")
             row == table[i + 1]
  <2> DEFINE a == SubSeq(table, 1, i - 1)
             b == SubSeq(table[i], 1, Len(table[i]) - 1)
             c == table[i][Len(table[i])]
  <2>10. At(i, m) = Reader(a, b, c, m) /\ next = Reader(Append(a, Append(b, c)), <<>>, <<>>, "start")
    BY <2>2, <2>3
  <2> HIDE DEF a, b, c
  <2>11. Taken(Reader(a, b, c, m), "n") = Reader(Append(a, Append(b, c)), <<>>, <<>>, "start")
    BY TakenEnds
  <2>4. Taken(At(i, m), "n") = next
    BY <2>10, <2>11
  <2>5. Read(At(i, m), <<"n">>) = next
    BY <1>1, <1>9, <2>1, <2>4, ReadFew
  <2>6. PICK e \in Ended : Read(next, Line(row)) = Reader(r, SubSeq(row, 1, Len(row) - 1), row[Len(row)], e)
    BY <2>1, <2>2, LineFacts
  <2>7. At(i + 1, e) = Reader(r, SubSeq(row, 1, Len(row) - 1), row[Len(row)], e)
    BY <2>1
  <2>8. parts[i + 1] = Line(row) /\ parts[i + 1] \in Fields(T)
    BY <1>2, <1>3, <2>1
  <2> HIDE DEF next, At, r, row
  <2>9. Read(At(i, m), <<"n">> \o parts[i + 1]) = Read(Read(At(i, m), <<"n">>), parts[i + 1])
    BY <1>1, <1>9, <2>1, <2>8, ReadMore
  <2> QED BY <2>5, <2>6, <2>7, <2>8, <2>9
<1> DEFINE Good == {i \in 0..n : i # 0 => \E m \in Ended : Read(start, g[i]) = At(i, m)}
<1> HIDE DEF At, start, n
<1>12. 0 \in Good
  BY <1>1
<1>13. ASSUME NEW i \in 0..n - 1, i \in Good PROVE i + 1 \in Good
  <2>1. i + 1 \in 0..n /\ i + 1 # 0
    BY <1>1
  <2>2. CASE i = 0
    <3>1. i + 1 = 1
      BY <2>2
    <3> QED BY <1>7, <1>10, <2>1, <3>1
  <2>3. CASE i # 0
    <3>1. i \in 1..n - 1 /\ i + 1 \in 2..n /\ (i + 1) - 1 = i /\ i + 1 \in 1..n
      BY <1>1, <2>3
    <3>2. PICK m \in Ended : Read(start, g[i]) = At(i, m)
      BY <1>13, <2>3
    <3>8. g[i] \in Fields(T)
      BY <1>1, <1>7, <3>1
    <3>9. g[i + 1] = g[(i + 1) - 1] \o (<<"n">> \o parts[i + 1])
      BY <1>7, <3>1
    <3>3. g[i + 1] = g[i] \o (<<"n">> \o parts[i + 1]) /\ g[i] \in Fields(T)
      BY <3>1, <3>8, <3>9
    <3> DEFINE t == <<"n">> \o parts[i + 1]
    <3>4. t \in Fields(T)
      <4>1. parts[i + 1] \in Fields(T)
        BY <1>2, <1>3, <3>1
      <4> QED BY <1>1, <4>1, Joining DEF Fields
    <3>5. PICK e \in Ended : Read(At(i, m), t) = At(i + 1, e)
      BY <1>11, <3>1
    <3> HIDE DEF t
    <3>6. Read(start, g[i] \o t) = Read(Read(start, g[i]), t)
      BY <1>8, <3>3, <3>4, ReadMore
    <3>7. Read(start, g[i + 1]) = At(i + 1, e)
      BY <3>2, <3>3, <3>5, <3>6 DEF t
    <3> QED BY <2>1, <3>7
  <2> QED BY <2>2, <2>3
<1> HIDE DEF Good
<1>14. 0..n \subseteq Good
  BY <1>1, <1>12, <1>13, UpTo
<1>15. n \in Good
  BY <1>1, <1>14
<1>16. PICK m \in Ended : Read(start, g[n]) = At(n, m)
  BY <1>1, <1>15 DEF Good
<1>17. arrayToCSV(table) = g[n] /\ g[n] \in Fields(T)
  BY <1>1, <1>4, <1>6, <1>7
<1> QED BY <1>16, <1>17 DEF At, n, start

\* A part of a text, and the next part of it.
LEMMA NextPart ==
  ASSUME NEW S, NEW s \in Seq(S), NEW m \in 0..Len(s), NEW n \in m..Len(s)
  PROVE  /\ SubSeq(s, m + 1, n) \in Seq(S)
         /\ SubSeq(s, 1, m) \o SubSeq(s, m + 1, n) = SubSeq(s, 1, n)
<1> DEFINE a == SubSeq(s, 1, m)
           b == SubSeq(s, m + 1, n)
           c == SubSeq(s, 1, n)
<1>1. Len(s) \in Nat /\ m \in Nat /\ n \in Nat /\ m <= n /\ n <= Len(s)
  OBVIOUS
<1>2. a \in Seq(S) /\ Len(a) = m /\ \A i \in 1..m : a[i] = s[i]
  BY <1>1
<1>3. b \in Seq(S) /\ Len(b) = n - m /\ \A i \in 1..n - m : b[i] = s[m + i]
  BY <1>1
<1>4. c \in Seq(S) /\ Len(c) = n /\ \A i \in 1..n : c[i] = s[i]
  BY <1>1
<1> HIDE DEF a, b, c
<1>5. /\ a \o b \in Seq(S) /\ Len(a \o b) = Len(a) + Len(b)
      /\ \A i \in 1..Len(a) : (a \o b)[i] = a[i]
      /\ \A i \in 1..Len(b) : (a \o b)[Len(a) + i] = b[i]
  <2>1. a \in Seq(S) /\ b \in Seq(S)
    BY <1>2, <1>3
  <2> QED BY <2>1, Joining
<1>6. Len(a \o b) = n
  BY <1>1, <1>2, <1>3, <1>5
<1>7. ASSUME NEW i \in 1..n PROVE (a \o b)[i] = c[i]
  <2>1. CASE i <= m
    <3>1. i \in 1..m
      BY <1>1, <2>1
    <3> QED BY <1>2, <1>4, <1>5, <3>1
  <2>2. CASE ~(i <= m)
    <3>1. i - m \in 1..n - m /\ m + (i - m) = i
      BY <1>1, <2>2
    <3>2. (a \o b)[m + (i - m)] = b[i - m] /\ b[i - m] = s[m + (i - m)]
      BY <1>2, <1>3, <1>5, <3>1
    <3> QED BY <1>4, <3>1, <3>2
  <2> QED BY <2>1, <2>2
<1>8. a \o b = c
  BY <1>4, <1>5, <1>6, <1>7, SeqEqual
<1> QED BY <1>3, <1>8 DEF a, b, c

\* Block by block, a text is read as it is token by token.
LEMMA BlocksAreRead ==
  ASSUME NEW T, Punctuated(T), NEW csv \in Fields(T)
  PROVE  LET end == Read(Reader(<<>>, <<>>, <<>>, "start"), csv)
         IN  ReadCSV(csv) = Append(end.rows, Append(end.row, end.field))
<1> DEFINE End(k) == IF k * Block <= Len(csv) THEN k * Block ELSE Len(csv)
           n == Len(csv) \div Block + 1
           start == Reader(<<>>, <<>>, <<>>, "start")
           Of(k) == SubSeq(csv, End(k - 1) + 1, End(k))
           Loop(f) == f = [k \in 0 .. n |->
             IF k = 0 THEN start ELSE CHOOSE next \in {Read(r, Of(k)) : r \in {f[k - 1]}} : TRUE]
           turn == [e \in Readers(T) \X (1..n) |-> Read(e[1], Of(e[2]))]
<1>1. Len(csv) \in Nat /\ n \in Nat
  BY DEF Fields, Block
<1>2. \A k \in 0..n : End(k) \in 0..Len(csv)
  BY <1>1 DEF Block
<1>3. \A k \in 1..n : k - 1 \in 0..n /\ End(k - 1) \in 0..Len(csv) /\ End(k) \in End(k - 1)..Len(csv)
  BY <1>1 DEF Block
<1>4. End(0) = 0 /\ End(n) = Len(csv)
  BY <1>1 DEF Block
<1> HIDE DEF End, n
<1>5. \A k \in 1..n : /\ Of(k) \in Fields(T) /\ SubSeq(csv, 1, End(k - 1)) \in Fields(T)
                      /\ SubSeq(csv, 1, End(k - 1)) \o Of(k) = SubSeq(csv, 1, End(k))
  <2> TAKE k \in 1..n
  <2> DEFINE i == End(k - 1)
             j == End(k)
  <2>1. i \in 0..Len(csv) /\ j \in i..Len(csv)
    BY <1>3
  <2> HIDE DEF i, j
  <2>2. SubSeq(csv, i + 1, j) \in Fields(T) /\ SubSeq(csv, 1, i) \o SubSeq(csv, i + 1, j) = SubSeq(csv, 1, j)
    BY <2>1, NextPart DEF Fields
  <2>3. SubSeq(csv, 1, i) \in Fields(T)
    BY <2>1, Prefixes DEF Fields
  <2> QED BY <2>2, <2>3 DEF i, j
<1> HIDE DEF Of
<1>6. start \in Readers(T)
  BY Empties, ReadersAre
<1> HIDE DEF start
<1>7. \A r \in Readers(T), k \in 1..n : Read(r, Of(k)) \in Readers(T)
  BY <1>5, ReadMore
<1>8. /\ turn \in [Readers(T) \X (1..n) -> Readers(T)]
      /\ \A r \in Readers(T), k \in 1..n : turn[<<r, k>>] = Read(r, Of(k))
  BY <1>7
<1> HIDE DEF turn
<1>9. IsTurn(turn, Readers(T), n)
  BY <1>8 DEF IsTurn
<1>10. \E f : Makes(f, start, turn, Readers(T), n) /\ IsUpTo(f, n)
  BY <1>1, <1>6, <1>9, TurnsMake
<1>11. PICK f : Makes(f, start, turn, Readers(T), n) /\ IsUpTo(f, n)
  BY <1>10
<1>12. \A r, k : (CHOOSE next \in {Read(q, Of(k)) : q \in {r}} : TRUE) = Read(r, Of(k))
  OBVIOUS
<1>13. Loop(f)
  <2>1. /\ f[0] = start /\ \A k \in 0..n : f[k] \in Readers(T)
        /\ \A k \in 1..n : f[k] = turn[<<f[k - 1], k>>]
    BY <1>11, Zenon DEF Makes
  <2>2. ASSUME NEW k \in 0..n
        PROVE  f[k] = IF k = 0 THEN start
                      ELSE CHOOSE next \in {Read(r, Of(k)) : r \in {f[k - 1]}} : TRUE
    <3>1. CASE k = 0
      BY <2>1, <3>1
    <3>2. CASE k # 0
      <4>1. k \in 1..n /\ k - 1 \in 0..n
        BY <1>1, <3>2
      <4>2. f[k] = Read(f[k - 1], Of(k))
        BY <1>8, <2>1, <4>1
      <4>3. (CHOOSE next \in {Read(r, Of(k)) : r \in {f[k - 1]}} : TRUE) = Read(f[k - 1], Of(k))
        BY <1>12
      <4> QED BY <3>2, <4>2, <4>3
    <3> QED BY <3>1, <3>2
  <2>3. f = [k \in 0..n |-> f[k]]
    BY <1>11, Zenon DEF IsUpTo
  <2> QED BY <2>2, <2>3, Zenon
<1> DEFINE g == CHOOSE g : Loop(g)
<1>14. Loop(g)
  BY <1>13, Zenon
<1>15. ReadCSV(csv) = Append(g[n].rows, Append(g[n].row, g[n].field))
  BY DEF ReadCSV, n, End, start, Of
<1> HIDE DEF g
<1>16. g[0] = start /\ \A k \in 1..n : g[k] = Read(g[k - 1], Of(k))
  <2>1. \A k \in 0..n : g[k] = IF k = 0 THEN start
                   ELSE CHOOSE next \in {Read(r, Of(k)) : r \in {g[k - 1]}} : TRUE
    BY <1>14, Zenon
  <2>2. 0 \in 0..n /\ \A k \in 1..n : k \in 0..n /\ k # 0
    BY <1>1
  <2> HIDE DEF Loop
  <2>3. g[0] = start
    BY <2>1, <2>2
  <2>4. ASSUME NEW k \in 1..n PROVE g[k] = Read(g[k - 1], Of(k))
    <3>1. g[k] = CHOOSE next \in {Read(r, Of(k)) : r \in {g[k - 1]}} : TRUE
      BY <2>1, <2>2
    <3> QED BY <1>12, <3>1
  <2> QED BY <2>3, <2>4
<1> HIDE DEF Loop
<1> DEFINE Good == {k \in 0..n : g[k] = Read(start, SubSeq(csv, 1, End(k)))}
<1>17. 0 \in Good
  <2>1. SubSeq(csv, 1, End(0)) = <<>>
    BY <1>4, Prefixes DEF Fields
  <2>2. Read(start, <<>>) = start
    BY <1>6, ReadFew
  <2>3. g[0] = Read(start, SubSeq(csv, 1, End(0)))
    BY <1>16, <2>1, <2>2
  <2> QED BY <1>1, <2>3
<1>18. ASSUME NEW k \in 0..n - 1, k \in Good PROVE k + 1 \in Good
  <2>1. k + 1 \in 1..n /\ (k + 1) - 1 = k /\ k + 1 \in 0..n
    BY <1>1
  <2>2. g[k + 1] = Read(g[k], Of(k + 1))
    BY <1>16, <2>1
  <2> DEFINE s == SubSeq(csv, 1, End(k))
  <2>3. s \in Fields(T) /\ Of(k + 1) \in Fields(T) /\ s \o Of(k + 1) = SubSeq(csv, 1, End(k + 1))
    BY <1>5, <2>1
  <2>4. g[k] = Read(start, s)
    BY <1>18
  <2> HIDE DEF s
  <2>5. Read(start, s \o Of(k + 1)) = Read(Read(start, s), Of(k + 1))
    BY <1>6, <2>3, ReadMore
  <2>6. g[k + 1] = Read(start, SubSeq(csv, 1, End(k + 1)))
    BY <2>2, <2>3, <2>4, <2>5
  <2> QED BY <2>1, <2>6
<1> HIDE DEF Good
<1>19. 0..n \subseteq Good
  BY <1>1, <1>17, <1>18, UpTo
<1>20. n \in Good
  BY <1>1, <1>19
<1>21. SubSeq(csv, 1, End(n)) = csv
  BY <1>4, Prefixes DEF Fields
<1>22. g[n] = Read(start, csv)
  BY <1>20, <1>21 DEF Good
<1> QED BY <1>15, <1>22 DEF start

\* A table that has rows, with fields, is read back from what is written of it.
LEMMA WrittenIsRead ==
  ASSUME NEW T, Punctuated(T), NEW table \in Tables(T), table # <<>>,
         \A i \in 1..Len(table) : table[i] # <<>>
  PROVE  ReadCSV(arrayToCSV(table)) = table
<1> DEFINE csv == arrayToCSV(table)
           k == Len(table)
           last == table[k]
           end == Read(Reader(<<>>, <<>>, <<>>, "start"), csv)
           a == SubSeq(table, 1, k - 1)
           b == SubSeq(last, 1, Len(last) - 1)
           c == last[Len(last)]
<1>1. csv \in Fields(T) /\ \E m \in Ended : end = Reader(a, b, c, m)
  BY CSVFacts
<1>2. ReadCSV(csv) = Append(end.rows, Append(end.row, end.field))
  BY <1>1, BlocksAreRead
<1>3. table \in Seq(Rows(T)) /\ last \in Seq(Fields(T)) /\ last # <<>>
  <2>1. table \in Seq(Rows(T)) /\ k \in 1..k
    BY DEF Tables
  <2>2. last \in Rows(T) /\ last # <<>>
    BY <2>1
  <2> QED BY <2>1, <2>2 DEF Rows
<1>4. Append(b, c) = last /\ Append(a, last) = table
  BY <1>3, LastField
<1> HIDE DEF csv, end, a, b, c, last
<1>5. end.rows = a /\ end.row = b /\ end.field = c
  BY <1>1 DEF Reader
<1> QED BY <1>2, <1>4, <1>5 DEF csv

-----------------------------------------------------------------------------
(***************************************************************************)
(* The three exports.                                                      *)
(***************************************************************************)

\* Any sequence of tokens; a row of so many of them; rows, and a table of them.
IsText(f) == f \in Seq(SetOf(f))

IsRow(row, k) == row \in Seq(SetOf(row)) /\ Len(row) = k /\ \A i \in 1..k : IsText(row[i])

IsRows(rows, k) == rows \in Seq(SetOf(rows)) /\ \A row \in SetOf(rows) : IsRow(row, k)

IsTable(table, k) ==
  /\ table \in Seq(SetOf(table)) /\ table # <<>>
  /\ \A i \in 1..Len(table) : IsRow(table[i], k)

LEMMA Elements ==
  ASSUME NEW S, NEW s \in Seq(S)
  PROVE  s \in Seq(SetOf(s)) /\ \A x \in SetOf(s) : x \in S /\ \E i \in 1..Len(s) : x = s[i]
<1>1. Len(s) \in Nat /\ DOMAIN s = 1..Len(s) /\ s = [i \in 1..Len(s) |-> s[i]]
  OBVIOUS
<1>2. \A i \in 1..Len(s) : s[i] \in SetOf(s) /\ s[i] \in S
  BY <1>1 DEF SetOf
<1>3. [i \in 1..Len(s) |-> s[i]] \in [1..Len(s) -> SetOf(s)]
  BY <1>2
<1>4. s \in [1..Len(s) -> SetOf(s)]
  BY <1>1, <1>3, Zenon
<1> QED BY <1>1, <1>2, <1>4, WholeList DEF SetOf

LEMMA Within ==
  ASSUME NEW S, NEW s \in Seq(S), NEW T, SetOf(s) \subseteq T
  PROVE  s \in Seq(T)
<1>1. Len(s) \in Nat /\ DOMAIN s = 1..Len(s) /\ s = [i \in 1..Len(s) |-> s[i]]
  OBVIOUS
<1>2. \A i \in 1..Len(s) : s[i] \in T
  BY <1>1 DEF SetOf
<1>3. [i \in 1..Len(s) |-> s[i]] \in [1..Len(s) -> T]
  BY <1>2
<1>4. s \in [1..Len(s) -> T]
  BY <1>1, <1>3, Zenon
<1> QED BY <1>1, <1>4, WholeList

LEMMA TextIs == ASSUME NEW S, NEW f \in Seq(S) PROVE IsText(f)
BY Elements DEF IsText

LEMMA TableIsRead ==
  ASSUME NEW k \in Nat \ {0}, NEW table, IsTable(table, k)
  PROVE  /\ ReadCSV(arrayToCSV(table)) = table
         /\ \A row \in SetOf(table) : Len(row) = Len(table[1])
<1> DEFINE fields == UNION {SetOf(row) : row \in SetOf(table)}
           T == {Comma, "q", "n"} \cup UNION {SetOf(f) : f \in fields}
<1>1. Punctuated(T)
  BY Zenon DEF Punctuated
<1>2. \A f \in fields : SetOf(f) \subseteq T
  BY Zenon
<1>3. \A row \in SetOf(table) : SetOf(row) \subseteq fields
  BY Zenon
<1> HIDE DEF T
<1>4. table \in Seq(SetOf(table)) /\ table # <<>> /\ \A i \in 1..Len(table) : IsRow(table[i], k)
  BY Zenon DEF IsTable
<1>5. \A row \in SetOf(table) : IsRow(row, k)
  BY <1>4, Elements
<1>6. ASSUME NEW f \in fields
      PROVE  f \in Fields(T)
  <2>1. PICK row \in SetOf(table) : f \in SetOf(row)
    BY Zenon
  <2>2. row \in Seq(SetOf(row)) /\ Len(row) = k /\ \A i \in 1..k : IsText(row[i])
    BY <1>5 DEF IsRow
  <2>3. IsText(f)
    BY <2>1, <2>2, Elements
  <2> QED BY <1>2, <2>3, Within DEF IsText, Fields
<1> HIDE DEF fields
<1>7. ASSUME NEW row \in SetOf(table)
      PROVE  row \in Rows(T) /\ row # <<>> /\ Len(row) = k
  <2>1. row \in Seq(SetOf(row)) /\ Len(row) = k
    BY <1>5 DEF IsRow
  <2>2. SetOf(row) \subseteq Fields(T)
    BY <1>3, <1>6
  <2>3. row \in Seq(Fields(T))
    BY <2>1, <2>2, Within
  <2> QED BY <2>1, <2>3 DEF Rows
<1>8. table \in Tables(T)
  <2>1. SetOf(table) \subseteq Rows(T)
    BY <1>7
  <2> QED BY <1>4, <2>1, Within DEF Tables
<1>9. \A i \in 1..Len(table) : table[i] \in SetOf(table)
  <2>1. DOMAIN table = 1..Len(table)
    BY <1>4
  <2> QED BY <2>1 DEF SetOf
<1>10. 1 \in 1..Len(table)
  BY <1>4
<1>11. \A i \in 1..Len(table) : table[i] # <<>>
  BY <1>7, <1>9
<1>12. ReadCSV(arrayToCSV(table)) = table
  BY <1>1, <1>4, <1>8, <1>11, WrittenIsRead
<1> QED BY <1>7, <1>9, <1>10, <1>12

LEMMA Tuples ==
  /\ IsText(<<>>)
  /\ \A x : IsText(<<x>>)
  /\ \A x, y : IsText(<<x, y>>)
  /\ \A x, y, z : IsText(<<x, y, z>>)
  /\ \A s, t : IsText(s) /\ IsText(t) => IsText(s \o t)
<1>1. IsText(<<>>)
  <2>1. <<>> \in Seq({})
    OBVIOUS
  <2> QED BY <2>1, TextIs
<1>2. ASSUME NEW x PROVE IsText(<<x>>)
  <2>1. <<x>> \in Seq({x})
    OBVIOUS
  <2> QED BY <2>1, TextIs
<1>3. ASSUME NEW x, NEW y PROVE IsText(<<x, y>>)
  <2>1. <<x, y>> \in Seq({x, y})
    OBVIOUS
  <2> QED BY <2>1, TextIs
<1>4. ASSUME NEW x, NEW y, NEW z PROVE IsText(<<x, y, z>>)
  <2>1. <<x, y, z>> \in Seq({x, y, z})
    OBVIOUS
  <2> QED BY <2>1, TextIs
<1>5. ASSUME NEW s, NEW t, IsText(s), IsText(t) PROVE IsText(s \o t)
  <2> DEFINE T == SetOf(s) \cup SetOf(t)
  <2>1. s \in Seq(T) /\ t \in Seq(T)
    BY <1>5, Within DEF IsText
  <2> HIDE DEF T
  <2>2. s \o t \in Seq(T)
    BY <2>1
  <2> QED BY <2>2, TextIs
<1> QED BY <1>1, <1>2, <1>3, <1>4, <1>5

LEMMA RowIs ==
  ASSUME NEW k \in Nat, NEW S, NEW row \in Seq(S), Len(row) = k, \A x \in S : IsText(x)
  PROVE  IsRow(row, k)
<1>1. \A i \in 1..k : row[i] \in S
  OBVIOUS
<1>2. row \in Seq(SetOf(row))
  BY Elements
<1> QED BY <1>1, <1>2 DEF IsRow

LEMMA Row8 ==
  ASSUME NEW a1, NEW a2, NEW a3, NEW a4, NEW a5, NEW a6, NEW a7, NEW a8,
         IsText(a1), IsText(a2), IsText(a3), IsText(a4), IsText(a5), IsText(a6), IsText(a7),
         IsText(a8)
  PROVE  IsRow(<<a1, a2, a3, a4, a5, a6, a7, a8>>, 8)
<1> DEFINE row == <<a1, a2, a3, a4, a5, a6, a7, a8>>
           S == {a1, a2, a3, a4, a5, a6, a7, a8}
<1>1. row \in Seq(S) /\ Len(row) = 8
  OBVIOUS
<1>2. \A x \in S : IsText(x)
  OBVIOUS
<1> HIDE DEF row, S
<1>3. IsRow(row, 8)
  BY <1>1, <1>2, RowIs
<1> QED BY <1>3 DEF row

LEMMA Row9 ==
  ASSUME NEW a1, NEW a2, NEW a3, NEW a4, NEW a5, NEW a6, NEW a7, NEW a8, NEW a9,
         IsText(a1), IsText(a2), IsText(a3), IsText(a4), IsText(a5), IsText(a6), IsText(a7),
         IsText(a8), IsText(a9)
  PROVE  IsRow(<<a1, a2, a3, a4, a5, a6, a7, a8, a9>>, 9)
<1> DEFINE row == <<a1, a2, a3, a4, a5, a6, a7, a8, a9>>
           S == {a1, a2, a3, a4, a5, a6, a7, a8, a9}
<1>1. row \in Seq(S) /\ Len(row) = 9
  OBVIOUS
<1>2. \A x \in S : IsText(x)
  OBVIOUS
<1> HIDE DEF row, S
<1>3. IsRow(row, 9)
  BY <1>1, <1>2, RowIs
<1> QED BY <1>3 DEF row

LEMMA Row12 ==
  ASSUME NEW a1, NEW a2, NEW a3, NEW a4, NEW a5, NEW a6, NEW a7, NEW a8, NEW a9, NEW a10,
         NEW a11, NEW a12,
         IsText(a1), IsText(a2), IsText(a3), IsText(a4), IsText(a5), IsText(a6), IsText(a7),
         IsText(a8), IsText(a9), IsText(a10), IsText(a11), IsText(a12)
  PROVE  IsRow(<<a1, a2, a3, a4, a5, a6, a7, a8, a9, a10, a11, a12>>, 12)
<1> DEFINE row == <<a1, a2, a3, a4, a5, a6, a7, a8, a9, a10, a11, a12>>
           S == {a1, a2, a3, a4, a5, a6, a7, a8, a9, a10, a11, a12}
<1>1. row \in Seq(S) /\ Len(row) = 12
  OBVIOUS
<1>2. \A x \in S : IsText(x)
  OBVIOUS
<1> HIDE DEF row, S
<1>3. IsRow(row, 12)
  BY <1>1, <1>2, RowIs
<1> QED BY <1>3 DEF row

LEMMA FiveTokens == \A v, w, x, y, z : IsText(<<v, w, x, y, z>>)
<1> TAKE v, w, x, y, z
<1>1. <<v, w, x, y, z>> \in Seq({v, w, x, y, z})
  OBVIOUS
<1> QED BY <1>1, TextIs

LEMMA SpelledTexts == \A t \in DOMAIN Spelling : IsText(Text(t))
<1> TAKE t \in DOMAIN Spelling
<1>1. Text(t) \in Seq(STRING)
  BY SpellingAssumption, Zenon DEF Text
<1> QED BY <1>1, TextIs, Zenon

LEMMA SmallTexts ==
  /\ \A n : IsText(Number(n)) /\ IsText(formatTime(n)) /\ IsText(Tests(n))
  /\ IsText(Duration)
<1>1. ASSUME NEW n PROVE IsText(Number(n))
  BY Tuples, Zenon DEF Number
<1>2. ASSUME NEW n PROVE IsText(formatTime(n))
  BY Tuples, Zenon DEF formatTime
<1>3. ASSUME NEW n PROVE IsText(Tests(n))
  <2>1. CASE n > 0
    BY <2>1, Tuples, Zenon DEF Tests
  <2>2. CASE ~(n > 0)
    BY <2>2, Tuples, Zenon DEF Tests
  <2> QED BY <2>1, <2>2
<1>4. IsText(Duration)
  BY Tuples, Zenon DEF Duration
<1> QED BY <1>1, <1>2, <1>3, <1>4

LEMMA SoftFailTexts ==
  ASSUME NEW info, info.check_name \in DOMAIN Spelling
  PROVE  IsText(formatSoftFailStatus(info))
<1>1. IsText(Text(info.check_name))
  BY SpelledTexts
<1>2. IsText(Duration)
  BY SmallTexts
<1> QED BY <1>1, <1>2, Tuples, FiveTokens, Zenon DEF formatSoftFailStatus

LEMMA MessageTexts == \A t \in DOMAIN Spelling : IsText(Message(t))
<1> TAKE t \in DOMAIN Spelling
<1>1. CASE t = 0
  BY <1>1, Tuples, Zenon DEF Message
<1>2. CASE t # 0
  BY <1>2, SpelledTexts, Zenon DEF Message
<1> QED BY <1>1, <1>2

LEMMA JoinedTexts ==
  ASSUME NEW S, NEW parts \in Seq(S), \A x \in S : x \in Seq(STRING), NEW separator
  PROVE  IsText(Joined(parts, separator))
<1> DEFINE T == STRING \cup {separator}
<1>1. \A x \in S : x \in Seq(T)
  OBVIOUS
<1>2. separator \in T
  OBVIOUS
<1> HIDE DEF T
<1>3. parts \in Seq(Fields(T))
  BY <1>1 DEF Fields
<1>4. Joined(parts, separator) \in Seq(T)
  BY <1>2, <1>3, JoinedIs DEF Fields
<1> QED BY <1>4, TextIs

\* A row of headers has one for each of so many names.
LEMMA HeadersAre ==
  ASSUME NEW S, NEW names \in Seq(S)
  PROVE  IsRow(Headers(names), Len(names))
<1> DEFINE row == [i \in DOMAIN names |-> <<names[i]>>]
<1>1. Headers(names) = row
  BY DEF Headers
<1>2. row = [i \in DOMAIN names |-> row[i]] /\ \A i \in DOMAIN names : row[i] = <<names[i]>>
  OBVIOUS
<1> HIDE DEF row
<1>3. row \in Seq({row[i] : i \in DOMAIN names}) /\ Len(row) = Len(names) /\ Len(names) \in Nat
  BY <1>2, MapFacts
<1>4. \A x \in {row[i] : i \in DOMAIN names} : IsText(x)
  BY <1>2, Tuples, Zenon
<1> QED BY <1>1, <1>3, <1>4, RowIs

LEMMA HeadersOf ==
  /\ \A a1, a2, a3, a4, a5, a6, a7, a8 : IsRow(Headers(<<a1, a2, a3, a4, a5, a6, a7, a8>>), 8)
  /\ \A a1, a2, a3, a4, a5, a6, a7, a8, a9 :
       IsRow(Headers(<<a1, a2, a3, a4, a5, a6, a7, a8, a9>>), 9)
  /\ \A a1, a2, a3, a4, a5, a6, a7, a8, a9, a10, a11, a12 :
       IsRow(Headers(<<a1, a2, a3, a4, a5, a6, a7, a8, a9, a10, a11, a12>>), 12)
<1>1. ASSUME NEW a1, NEW a2, NEW a3, NEW a4, NEW a5, NEW a6, NEW a7, NEW a8
      PROVE  IsRow(Headers(<<a1, a2, a3, a4, a5, a6, a7, a8>>), 8)
  <2> DEFINE names == <<a1, a2, a3, a4, a5, a6, a7, a8>>
  <2>1. names \in Seq({a1, a2, a3, a4, a5, a6, a7, a8}) /\ Len(names) = 8
    OBVIOUS
  <2> HIDE DEF names
  <2>2. IsRow(Headers(names), 8)
    BY <2>1, HeadersAre
  <2> QED BY <2>2 DEF names
<1>2. ASSUME NEW a1, NEW a2, NEW a3, NEW a4, NEW a5, NEW a6, NEW a7, NEW a8, NEW a9
      PROVE  IsRow(Headers(<<a1, a2, a3, a4, a5, a6, a7, a8, a9>>), 9)
  <2> DEFINE names == <<a1, a2, a3, a4, a5, a6, a7, a8, a9>>
  <2>1. names \in Seq({a1, a2, a3, a4, a5, a6, a7, a8, a9}) /\ Len(names) = 9
    OBVIOUS
  <2> HIDE DEF names
  <2>2. IsRow(Headers(names), 9)
    BY <2>1, HeadersAre
  <2> QED BY <2>2 DEF names
<1>3. ASSUME NEW a1, NEW a2, NEW a3, NEW a4, NEW a5, NEW a6, NEW a7, NEW a8, NEW a9,
             NEW a10, NEW a11, NEW a12
      PROVE  IsRow(Headers(<<a1, a2, a3, a4, a5, a6, a7, a8, a9, a10, a11, a12>>), 12)
  <2> DEFINE names == <<a1, a2, a3, a4, a5, a6, a7, a8, a9, a10, a11, a12>>
  <2>1. names \in Seq({a1, a2, a3, a4, a5, a6, a7, a8, a9, a10, a11, a12}) /\ Len(names) = 12
    OBVIOUS
  <2> HIDE DEF names
  <2>2. IsRow(Headers(names), 12)
    BY <2>1, HeadersAre
  <2> QED BY <2>2 DEF names
<1> QED BY <1>1, <1>2, <1>3, Zenon

LEMMA HeaderFacts == IsRow(HostHeaders, 12) /\ IsRow(ResultHeaders, 9) /\ IsRow(AlertHeaders, 8)
<1>1. IsRow(HostHeaders, 12)
  BY HeadersOf, Zenon DEF HostHeaders
<1>2. IsRow(ResultHeaders, 9)
  BY HeadersOf, Zenon DEF ResultHeaders
<1>3. IsRow(AlertHeaders, 8)
  BY HeadersOf, Zenon DEF AlertHeaders
<1> QED BY <1>1, <1>2, <1>3

LEMMA MappedRows ==
  ASSUME NEW S, NEW list \in Seq(S), NEW rows, rows = [i \in DOMAIN list |-> rows[i]],
         NEW k, \A i \in DOMAIN list : IsRow(rows[i], k)
  PROVE  SubSeq(rows, 1, Len(list)) = rows /\ IsRows(rows, k) /\ Len(rows) = Len(list)
<1>1. /\ SubSeq(rows, 1, Len(list)) = rows /\ Len(rows) = Len(list)
      /\ rows \in Seq({rows[i] : i \in DOMAIN list}) /\ SetOf(rows) = {rows[i] : i \in DOMAIN list}
  BY MapFacts, Zenon
<1>2. \A row \in {rows[i] : i \in DOMAIN list} : IsRow(row, k)
  OBVIOUS
<1> QED BY <1>1, <1>2 DEF IsRows

LEMMA JoinedRows ==
  ASSUME NEW k, NEW a, NEW b, IsRows(a, k), IsRows(b, k)
  PROVE  IsRows(a \o b, k) /\ Len(a \o b) = Len(a) + Len(b)
<1> DEFINE T == SetOf(a) \cup SetOf(b)
           c == a \o b
<1>1. a \in Seq(T) /\ b \in Seq(T)
  BY Within DEF IsRows
<1>2. \A row \in T : IsRow(row, k)
  BY DEF IsRows
<1> HIDE DEF T
<1>3. c \in Seq(T) /\ Len(c) = Len(a) + Len(b)
  BY <1>1
<1> HIDE DEF c
<1>4. c \in Seq(SetOf(c)) /\ \A x \in SetOf(c) : x \in T
  BY <1>3, Elements
<1>5. IsRows(c, k)
  BY <1>2, <1>4 DEF IsRows
<1> QED BY <1>3, <1>5 DEF c

LEMMA HeadedTable ==
  ASSUME NEW k, NEW headers, IsRow(headers, k), NEW rows, IsRows(rows, k)
  PROVE  IsTable(<<headers>> \o rows, k) /\ Len(<<headers>> \o rows) = Len(rows) + 1
<1> DEFINE T == SetOf(rows) \cup {headers}
           table == <<headers>> \o rows
<1>1. rows \in Seq(T) /\ \A row \in T : IsRow(row, k)
  BY Within DEF IsRows
<1>2. <<headers>> \in Seq(T) /\ Len(<<headers>>) = 1
  OBVIOUS
<1> HIDE DEF T
<1>3. table \in Seq(T) /\ Len(table) = Len(rows) + 1 /\ Len(rows) \in Nat
  BY <1>1, <1>2
<1> HIDE DEF table
<1>4. table \in Seq(SetOf(table)) /\ table # <<>>
  BY <1>3, Elements
<1>5. \A i \in 1..Len(table) : table[i] \in T
  BY <1>3
<1>6. IsTable(table, k)
  BY <1>1, <1>4, <1>5 DEF IsTable
<1> QED BY <1>3, <1>6 DEF table

\* The texts of the store are spelled.
LEMMA HostTexts ==
  ASSUME NEW h \in HostIds
  PROVE  LET f == HostRecord[h]
         IN  /\ f.name \in DOMAIN Spelling /\ f.display_name \in DOMAIN Spelling
             /\ f.ip_text \in DOMAIN Spelling /\ f.hostname \in DOMAIN Spelling
             /\ f.group \in DOMAIN Spelling
<1>1. \A f \in {"name", "display_name", "ip_text", "hostname", "group"} :
        HostRecord[h][f] \in DOMAIN Spelling
  BY SpellingAssumption, Zenon
<1> QED BY <1>1

LEMMA CheckTexts ==
  ASSUME TypeOK, NEW c \in CheckIds
  PROVE  /\ CheckLabel(c) \in DOMAIN Spelling
         /\ c \in DOMAIN Spelling
         /\ CheckExists(c) => checks[c].name \in DOMAIN Spelling
<1>1. Names \cup HostIds \cup CheckIds \subseteq DOMAIN Spelling
  BY SpellingAssumption, Zenon
<1>2. CheckExists(c) => checks[c].name \in Names
  BY DEF TypeOK, CheckExists, CheckRecords
<1> QED BY <1>1, <1>2 DEF CheckLabel, Or

LEMMA HostRows ==
  ASSUME TypeOK, NEW h \in HostIds
  PROVE  IsRow(HostRow(HostResponse(h)), 12)
<1> DEFINE host == HostResponse(h)
           f == host.fields
           D == DOMAIN host.check_names
           cs == InOrder(D)
           n == [i \in DOMAIN cs |-> host.check_names[cs[i]]]
           summary == getMonitoringSummary(host)
           t == [i \in DOMAIN n |-> Text(n[i])]
<1>1. f = HostRecord[h]
  BY HostFacts
<1>2. /\ IsText(Text(f.name)) /\ IsText(Text(f.display_name)) /\ IsText(Text(f.ip_text))
      /\ IsText(Text(f.hostname)) /\ IsText(Text(f.group))
  BY <1>1, HostTexts, SpelledTexts
<1>3. /\ D \subseteq CheckIds
      /\ \A c \in D : CheckExists(c) /\ host.check_names[c] = checks[c].name
  BY HostFacts
<1>4. \A c \in D : host.check_names[c] \in DOMAIN Spelling
  BY <1>3, CheckTexts
<1>5. IsFiniteSet(D) /\ D \in SUBSET Int
  <2>1. IsFiniteSet(CheckIds) /\ CheckIds \subseteq Int
    BY IdsAssumption
  <2> HIDE DEF D
  <2> QED BY <1>3, <2>1, FS_Subset
<1>6. summary.checkNames = SubSeq(n, 1, Len(cs))
  BY DEF getMonitoringSummary, Mapped
<1> HIDE DEF summary
<1>7. cs \in Seq(D)
  <2> HIDE DEF D
  <2>1. Lists(cs, D)
    BY <1>5, InOrderIsArranged, LessOrders, ArrangedLists
  <2> QED BY <2>1 DEF Lists
<1>8. /\ n = [i \in DOMAIN cs |-> n[i]]
      /\ \A i \in DOMAIN cs : n[i] \in DOMAIN Spelling
  <2>1. \A i \in DOMAIN cs : cs[i] \in D
    BY <1>7
  <2> HIDE DEF D, cs
  <2> QED BY <1>4, <2>1
<1> HIDE DEF D, cs, n
<1>9. summary.checkNames = n /\ n \in Seq(DOMAIN Spelling)
  <2>1. SubSeq(n, 1, Len(cs)) = n /\ n \in Seq({n[i] : i \in DOMAIN cs})
    BY <1>7, <1>8, MapFacts
  <2>2. {n[i] : i \in DOMAIN cs} \subseteq DOMAIN Spelling
    BY <1>8
  <2> QED BY <1>6, <2>1, <2>2
<1>10. /\ t = [i \in DOMAIN n |-> t[i]]
       /\ \A i \in DOMAIN n : t[i] = Text(n[i]) /\ n[i] \in DOMAIN Spelling
  BY <1>9
<1>11. Mapped(summary.checkNames, Text) = SubSeq(t, 1, Len(n))
  BY <1>9 DEF Mapped
<1> HIDE DEF t
<1>12. Mapped(summary.checkNames, Text) \in Seq({t[i] : i \in DOMAIN n})
  BY <1>9, <1>10, <1>11, MapFacts
<1>13. \A x \in {t[i] : i \in DOMAIN n} : x \in Seq(STRING)
  BY <1>10, SpellingAssumption, Zenon DEF Text
<1>14. \A separator : IsText(Joined(Mapped(summary.checkNames, Text), separator))
  BY <1>12, <1>13, JoinedTexts
<1> HIDE DEF f, host
<1> QED BY <1>2, <1>14, Tuples, SmallTexts, Row12, Zenon DEF HostRow, summary, f, host

LEMMA HostsTableFacts ==
  ASSUME TypeOK
  PROVE  IsTable(HostsTable(getHosts), 12) /\ Len(HostsTable(getHosts)) = Cardinality(hosts) + 1
<1> DEFINE list == getHosts
           rows == [i \in DOMAIN list |-> HostRow(list[i])]
<1>1. list \in Seq(SetOf(list)) /\ Len(list) = Cardinality(hosts)
  BY HostsFacts
<1>2. rows = [i \in DOMAIN list |-> rows[i]] /\ \A i \in DOMAIN list : rows[i] = HostRow(list[i])
  OBVIOUS
<1>3. HostsTable(list) = <<HostHeaders>> \o SubSeq(rows, 1, Len(list))
  BY Zenon DEF HostsTable, Mapped
<1> HIDE DEF rows
<1>4. \A i \in DOMAIN list : IsRow(rows[i], 12)
  <2> SUFFICES ASSUME NEW i \in DOMAIN list PROVE IsRow(rows[i], 12)
    OBVIOUS
  <2>1. PICK h \in hosts : list[i] = HostResponse(h)
    BY HostsFacts
  <2>2. h \in HostIds
    BY DEF TypeOK
  <2>3. IsRow(HostRow(HostResponse(h)), 12)
    BY <2>2, HostRows
  <2> QED BY <1>2, <2>1, <2>3
<1> HIDE DEF list
<1>5. SubSeq(rows, 1, Len(list)) = rows /\ IsRows(rows, 12) /\ Len(rows) = Len(list)
  BY <1>1, <1>2, <1>4, MappedRows
<1>6. IsTable(<<HostHeaders>> \o rows, 12) /\ Len(<<HostHeaders>> \o rows) = Len(rows) + 1
  BY <1>5, HeaderFacts, HeadedTable
<1>7. HostsTable(list) = <<HostHeaders>> \o rows
  BY <1>3, <1>5
<1> QED BY <1>1, <1>5, <1>6, <1>7 DEF list

LEMMA AlertRows ==
  ASSUME TypeOK, NEW k \in Known
  PROVE  IsRow(AlertRow(AlertOf(k)), 8)
<1> DEFINE alert == AlertOf(k)
           s == StatusResponse(k)
           info == SoftFailInfo(k)
           output == Output[statuses[k].exit_code]
<1>1. k[1] \in HostIds /\ k[2] \in CheckIds /\ statuses[k].exit_code \in ExitCodes
  BY KnownFacts
<1>2. alert.host = k[1] /\ alert.check = k[2] /\ <<alert.host, alert.check>> = k
  BY AlertFacts
<1>3. alert.host_name = s.host_name /\ alert.check_name = s.check_name
  BY DEF AlertOf, AlertFrom
<1>4. k[1] \in DOMAIN Spelling
  <2>1. Names \cup HostIds \cup CheckIds \subseteq DOMAIN Spelling
    BY SpellingAssumption, Zenon
  <2> QED BY <1>1, <2>1
<1>5. Or(alert.host_name, alert.host) \in DOMAIN Spelling
  <2>1. s.host_name = IF k[1] \in hosts
                      THEN Or(HostRecord[k[1]].display_name, HostRecord[k[1]].name) ELSE k[1]
    BY DEF StatusResponse
  <2>2. HostRecord[k[1]].display_name \in DOMAIN Spelling /\ HostRecord[k[1]].name \in DOMAIN Spelling
    BY <1>1, HostTexts
  <2>3. s.host_name \in DOMAIN Spelling
    BY <1>4, <2>1, <2>2 DEF Or
  <2> QED BY <1>2, <1>3, <1>4, <2>3 DEF Or
<1>6. Or(alert.check_name, alert.check) \in DOMAIN Spelling
  <2>1. s.check_name = IF CheckExists(k[2]) THEN checks[k[2]].name ELSE k[2]
    BY DEF StatusResponse
  <2>2. s.check_name \in DOMAIN Spelling /\ k[2] \in DOMAIN Spelling
    BY <1>1, <2>1, CheckTexts
  <2> QED BY <1>2, <1>3, <2>2 DEF Or
<1>7. IsText(Message(output))
  <2>1. output \in DOMAIN Spelling
    BY <1>1, SpellingAssumption, Zenon
  <2> QED BY <2>1, MessageTexts
<1>8. IsText(formatSoftFailStatus(info))
  <2>1. info.check_name = CheckLabel(k[2])
    BY DEF SoftFailInfo
  <2> QED BY <1>1, <2>1, CheckTexts, SoftFailTexts
<1>9. /\ IsText(Text(Or(alert.host_name, alert.host)))
      /\ IsText(Text(Or(alert.check_name, alert.check)))
  BY <1>5, <1>6, SpelledTexts
<1> HIDE DEF alert, info, output
<1>10. IsRow(AlertRow(alert), 8)
  BY <1>2, <1>7, <1>8, <1>9, Tuples, SmallTexts, Row8, Zenon DEF AlertRow, info, output
<1> QED BY <1>10 DEF alert

LEMMA AlertsTableFacts ==
  ASSUME TypeOK
  PROVE  IsTable(AlertsTable(loadAlerts), 8) /\ Len(AlertsTable(loadAlerts)) = Len(loadAlerts) + 1
<1> DEFINE list == loadAlerts
           K == {AlertOf(k) : k \in FailuresFound}
           rows == [i \in DOMAIN list |-> AlertRow(list[i])]
<1>1. list \in Seq(K)
  <2>1. Lists(list, K)
    BY AlertsFacts
  <2> QED BY <2>1 DEF Lists
<1>2. rows = [i \in DOMAIN list |-> rows[i]] /\ \A i \in DOMAIN list : rows[i] = AlertRow(list[i])
  OBVIOUS
<1>3. AlertsTable(list) = <<AlertHeaders>> \o SubSeq(rows, 1, Len(list))
  BY Zenon DEF AlertsTable, Mapped
<1> HIDE DEF rows, list
<1>4. \A i \in DOMAIN list : IsRow(rows[i], 8)
  <2> SUFFICES ASSUME NEW i \in DOMAIN list PROVE IsRow(rows[i], 8)
    OBVIOUS
  <2>1. list[i] \in K
    BY <1>1
  <2>2. PICK k \in FailuresFound : list[i] = AlertOf(k)
    BY <2>1
  <2>3. k \in Known
    BY AlertsFacts
  <2>4. IsRow(AlertRow(AlertOf(k)), 8)
    BY <2>3, AlertRows
  <2> QED BY <1>2, <2>2, <2>4
<1>5. SubSeq(rows, 1, Len(list)) = rows /\ IsRows(rows, 8) /\ Len(rows) = Len(list)
  BY <1>1, <1>2, <1>4, MappedRows
<1>6. IsTable(<<AlertHeaders>> \o rows, 8) /\ Len(<<AlertHeaders>> \o rows) = Len(rows) + 1
  BY <1>5, HeaderFacts, HeadedTable
<1>7. AlertsTable(list) = <<AlertHeaders>> \o rows
  BY <1>3, <1>5
<1> QED BY <1>5, <1>6, <1>7 DEF list

LEMMA FailedRows ==
  ASSUME TypeOK, NEW h \in HostIds, NEW name, IsText(name)
  PROVE  /\ \A k \in FailingOf(h) : IsRow(FailedRow(name, SoftFailInfo(k)), 9)
         /\ \A k \in HealthyOf(h) : IsRow(OKRow(name, OKInfo(k)), 9)
<1>1. ASSUME NEW k \in KnownOf(h)
      PROVE  IsText(Text(CheckLabel(k[2])))
  <2>1. k[2] \in CheckIds
    BY KnownFacts DEF KnownOf
  <2> QED BY <2>1, CheckTexts, SpelledTexts
<1>2. ASSUME NEW k \in FailingOf(h)
      PROVE  IsRow(FailedRow(name, SoftFailInfo(k)), 9)
  <2> DEFINE info == SoftFailInfo(k)
  <2>1. IsText(Text(info.check_name))
    <3>1. k \in KnownOf(h) /\ info.check_name = CheckLabel(k[2])
      BY DEF FailingOf, SoftFailInfo
    <3> QED BY <1>1, <3>1
  <2> HIDE DEF info
  <2>2. IsRow(FailedRow(name, info), 9)
    BY <2>1, Tuples, SmallTexts, Row9, Zenon DEF FailedRow
  <2> QED BY <2>2 DEF info
<1>3. ASSUME NEW k \in HealthyOf(h)
      PROVE  IsRow(OKRow(name, OKInfo(k)), 9)
  <2> DEFINE info == OKInfo(k)
  <2>1. IsText(Text(info.check_name))
    <3>1. k \in KnownOf(h) /\ info.check_name = CheckLabel(k[2])
      BY DEF HealthyOf, OKInfo
    <3> QED BY <1>1, <3>1
  <2> HIDE DEF info
  <2>2. IsRow(OKRow(name, info), 9)
    BY <2>1, Tuples, SmallTexts, Row9, Zenon DEF OKRow
  <2> QED BY <2>2 DEF info
<1> QED BY <1>2, <1>3

\* The rows of a host: one for each of its results, where its lists have them all.
LEMMA HostResults ==
  ASSUME TypeOK, NEW h \in HostIds
  PROVE  /\ IsRows(ResultRows(HostResponse(h)), 9)
         /\ FitsIn(h, {"alerts", "stats"}) =>
              Len(ResultRows(HostResponse(h))) = Cardinality(KnownOf(h))
<1> DEFINE host == HostResponse(h)
           name == Text(DisplayName(host))
           infos == host.soft_fail_info
           oks == host.ok_duration
           a == [i \in DOMAIN infos |-> FailedRow(name, infos[i])]
           b == [i \in DOMAIN oks |-> OKRow(name, oks[i])]
<1>1. IsText(name)
  <2>1. host.fields = HostRecord[h]
    BY HostFacts
  <2>2. DisplayName(host) \in DOMAIN Spelling
    BY <2>1, HostTexts DEF DisplayName, Or
  <2> QED BY <2>2, SpelledTexts
<1>2. PICK F \in SUBSET FailingOf(h) :
        infos \in Seq({SoftFailInfo(k) : k \in F}) /\ Len(infos) = Cardinality(F)
        /\ (FitsIn(h, {"alerts"}) => F = FailingOf(h))
  BY HostFacts
<1>3. PICK G \in SUBSET HealthyOf(h) :
        oks \in Seq({OKInfo(k) : k \in G}) /\ Len(oks) = Cardinality(G)
        /\ (FitsIn(h, {"stats"}) => G = HealthyOf(h))
  BY HostFacts
<1>4. ResultRows(host) = SubSeq(a, 1, Len(infos)) \o SubSeq(b, 1, Len(oks))
  BY Zenon DEF ResultRows, Mapped
<1> HIDE DEF host, name, infos, oks
<1>5. \A i \in DOMAIN infos : IsRow(a[i], 9)
  <2> SUFFICES ASSUME NEW i \in DOMAIN infos PROVE IsRow(a[i], 9)
    OBVIOUS
  <2>1. infos[i] \in {SoftFailInfo(k) : k \in F}
    BY <1>2
  <2>2. PICK k \in FailingOf(h) : infos[i] = SoftFailInfo(k)
    BY <2>1
  <2> QED BY <1>1, <2>2, FailedRows
<1>6. \A i \in DOMAIN oks : IsRow(b[i], 9)
  <2> SUFFICES ASSUME NEW i \in DOMAIN oks PROVE IsRow(b[i], 9)
    OBVIOUS
  <2>1. oks[i] \in {OKInfo(k) : k \in G}
    BY <1>3
  <2>2. PICK k \in HealthyOf(h) : oks[i] = OKInfo(k)
    BY <2>1
  <2> QED BY <1>1, <2>2, FailedRows
<1>7. a = [i \in DOMAIN infos |-> a[i]] /\ b = [i \in DOMAIN oks |-> b[i]]
  OBVIOUS
<1> HIDE DEF a, b
<1>8. SubSeq(a, 1, Len(infos)) = a /\ IsRows(a, 9) /\ Len(a) = Len(infos)
  BY <1>2, <1>5, <1>7, MappedRows
<1>9. SubSeq(b, 1, Len(oks)) = b /\ IsRows(b, 9) /\ Len(b) = Len(oks)
  BY <1>3, <1>6, <1>7, MappedRows
<1>10. IsRows(ResultRows(host), 9) /\ Len(ResultRows(host)) = Len(infos) + Len(oks)
  <2>1. IsRows(a \o b, 9) /\ Len(a \o b) = Len(a) + Len(b)
    BY <1>8, <1>9, JoinedRows
  <2>2. ResultRows(host) = a \o b
    BY <1>4, <1>8, <1>9
  <2> QED BY <1>8, <1>9, <2>1, <2>2
<1>11. ASSUME FitsIn(h, {"alerts", "stats"})
       PROVE  Len(infos) + Len(oks) = Cardinality(KnownOf(h))
  <2> DEFINE A == FailingOf(h)
             B == HealthyOf(h)
  <2>1. F = A /\ G = B
    BY <1>2, <1>3, <1>11 DEF FitsIn
  <2>2. A \subseteq Known /\ B \subseteq Known /\ A \cap B = {} /\ A \cup B = KnownOf(h)
    BY DEF FailingOf, HealthyOf, Healthy, KnownOf
  <2> HIDE DEF A, B
  <2>3. IsFiniteSet(A) /\ IsFiniteSet(B)
    BY <2>2, KnownFacts, FS_Subset
  <2> QED BY <1>2, <1>3, <2>1, <2>2, <2>3, DisjointCount, ZenonT(60)
<1> QED BY <1>10, <1>11 DEF host

\* How many rows there are, of lists of rows that have one for each element of
\* sets without common elements.
LEMMA RowsCount ==
  ASSUME NEW T, NEW ss \in Seq(Fields(T)), NEW f, Adds(f, ss, T),
         NEW S, IsFiniteSet(S), NEW part \in [1..Len(ss) -> SUBSET S],
         \A i \in 1..Len(ss) : Len(ss[i]) = Cardinality(part[i]),
         \A i, j \in 1..Len(ss) : i # j => part[i] \cap part[j] = {}
  PROVE  Len(f[Len(ss)]) = Cardinality(UNION {part[i] : i \in 1..Len(ss)})
<1> DEFINE n == Len(ss)
           First(m) == UNION {part[i] : i \in 1..m}
           Good == {m \in 0..n : Len(f[m]) = Cardinality(First(m))}
<1>1. /\ n \in Nat /\ f[0] = <<>> /\ \A i \in 0..n : f[i] \in Fields(T)
      /\ \A i \in 1..n : f[i] = f[i - 1] \o ss[i] /\ ss[i] \in Fields(T)
  <2>1. n \in Nat /\ \A i \in 1..n : ss[i] \in Fields(T)
    OBVIOUS
  <2>2. /\ f[0] = <<>> /\ \A i \in 0..n : f[i] \in Fields(T)
        /\ \A i \in 1..n : f[i] = f[i - 1] \o ss[i]
    BY Zenon DEF Adds
  <2> QED BY <2>1, <2>2
<1>2. 0 \in Good
  <2>1. First(0) = {}
    OBVIOUS
  <2>2. Cardinality({}) = 0
    BY FS_EmptySet
  <2>3. Len(f[0]) = 0 /\ 0 \in 0..n
    BY <1>1
  <2>4. Len(f[0]) = Cardinality(First(0))
    BY <2>1, <2>2, <2>3, Zenon
  <2> QED BY <2>3, <2>4
<1>3. ASSUME NEW m \in 0..n - 1, m \in Good
      PROVE  m + 1 \in Good
  <2>1. m + 1 \in 1..n /\ m \in 0..n /\ 1..m + 1 = (1..m) \cup {m + 1} /\ m + 1 \notin 1..m
        /\ 1..m \subseteq 1..n
    BY <1>1
  <2>2. f[m + 1] = f[m] \o ss[m + 1]
    <3>1. f[m + 1] = f[(m + 1) - 1] \o ss[m + 1]
      BY <1>1, <2>1
    <3>2. (m + 1) - 1 = m
      OBVIOUS
    <3> QED BY <3>1, <3>2
  <2>3. f[m] \in Seq(T) /\ ss[m + 1] \in Seq(T)
    BY <1>1, <2>1 DEF Fields
  <2>4. Len(f[m + 1]) = Len(f[m]) + Len(ss[m + 1])
    BY <2>2, <2>3
  <2>5. First(m + 1) = First(m) \cup part[m + 1] /\ First(m) \cap part[m + 1] = {}
    <3>1. \A i \in 1..m : i \in 1..n /\ i # m + 1
      BY <2>1
    <3>2. \A i \in 1..m : part[i] \cap part[m + 1] = {}
      BY <2>1, <3>1
    <3>3. First(m + 1) = First(m) \cup part[m + 1]
      BY <2>1, Zenon
    <3>4. First(m) \cap part[m + 1] = {}
      BY <3>2, Zenon
    <3> QED BY <3>3, <3>4
  <2>6. First(m) \subseteq S /\ part[m + 1] \subseteq S
    <3>1. \A i \in 1..m + 1 : part[i] \in SUBSET S
      BY <1>1, <2>1
    <3>2. m + 1 \in 1..m + 1 /\ \A i \in 1..m : i \in 1..m + 1
      BY <2>1
    <3> QED BY <3>1, <3>2, Zenon
  <2> HIDE DEF First
  <2>7. IsFiniteSet(First(m)) /\ IsFiniteSet(part[m + 1])
    BY <2>6, FS_Subset
  <2>8. Cardinality(First(m + 1)) = Cardinality(First(m)) + Cardinality(part[m + 1])
    BY <2>5, <2>7, DisjointCount
  <2>9. Len(f[m]) = Cardinality(First(m)) /\ Len(ss[m + 1]) = Cardinality(part[m + 1])
    BY <1>3, <2>1
  <2>10. Len(f[m + 1]) = Cardinality(First(m + 1))
    BY <2>4, <2>8, <2>9
  <2>11. m + 1 \in 0..n
    BY <2>1
  <2> QED BY <2>10, <2>11, Zenon
<1> HIDE DEF Good
<1>4. n \in Good
  <2>1. 0..n \subseteq Good
    BY <1>1, <1>2, <1>3, UpTo
  <2> QED BY <1>1, <2>1
<1> QED BY <1>4 DEF Good

LEMMA ResultsTableFacts ==
  ASSUME TypeOK
  PROVE  LET table == MonitoringResultsTable(getHosts)
         IN  /\ IsTable(table, 9)
             /\ (\A h \in hosts : FitsIn(h, {"alerts", "stats"})) =>
                  Len(table) = Cardinality({k \in Known : k[1] \in hosts}) + 1
<1> DEFINE list == getHosts
           n == Len(list)
           ss == [i \in DOMAIN list |-> ResultRows(list[i])]
           T == UNION {SetOf(ss[i]) : i \in DOMAIN list}
           table == MonitoringResultsTable(list)
<1>1. /\ list \in Seq(SetOf(list)) /\ n \in Nat /\ DOMAIN list = 1..n
      /\ SetOf(list) = {HostResponse(h) : h \in hosts}
      /\ \A i \in 1..n : \E h \in hosts : list[i] = HostResponse(h)
      /\ \A i, j \in 1..n : i # j => list[i].id # list[j].id
  <2>1. list \in Seq(SetOf(list))
    BY HostsFacts
  <2>2. n \in Nat /\ DOMAIN list = 1..n
    BY <2>1
  <2> QED BY <2>1, <2>2, HostsFacts
<1>2. ss = [i \in DOMAIN list |-> ss[i]] /\ \A i \in 1..n : ss[i] = ResultRows(list[i])
  BY <1>1
<1>3. table = <<ResultHeaders>> \o Concat(SubSeq(ss, 1, Len(list)))
  BY Zenon DEF MonitoringResultsTable, Mapped
<1> HIDE DEF ss
<1>4. ASSUME NEW i \in 1..n
      PROVE  /\ IsRows(ss[i], 9)
             /\ (\A h \in hosts : FitsIn(h, {"alerts", "stats"})) =>
                  Len(ss[i]) = Cardinality(KnownOf(list[i].id))
  <2>1. PICK h \in hosts : list[i] = HostResponse(h)
    BY <1>1
  <2>2. h \in HostIds
    BY DEF TypeOK
  <2>3. list[i].id = h
    BY <2>1, <2>2, HostFacts
  <2>4. ss[i] = ResultRows(HostResponse(h))
    BY <1>2, <2>1
  <2> QED BY <2>2, <2>3, <2>4, HostResults
<1> HIDE DEF list
<1>5. /\ SubSeq(ss, 1, Len(list)) = ss /\ Len(ss) = n /\ DOMAIN ss = 1..n
      /\ ss \in Seq({ss[i] : i \in DOMAIN list})
  BY <1>1, <1>2, MapFacts
<1>6. /\ \A i \in 1..n : ss[i] \in Fields(T)
      /\ \A row \in T : IsRow(row, 9)
  <2>1. ASSUME NEW i \in 1..n PROVE ss[i] \in Fields(T)
    <3>1. SetOf(ss[i]) \subseteq T
      BY <1>1, Zenon
    <3> HIDE DEF T
    <3> QED BY <1>4, <3>1, Within DEF IsRows, Fields
  <2>2. ASSUME NEW row \in T PROVE IsRow(row, 9)
    <3>1. PICK i \in 1..n : row \in SetOf(ss[i])
      BY <1>1, Zenon
    <3> QED BY <1>4, <3>1 DEF IsRows
  <2> QED BY <2>1, <2>2
<1> HIDE DEF T
<1>7. ss \in Seq(Fields(T))
  <2>1. {ss[i] : i \in DOMAIN list} \subseteq Fields(T)
    BY <1>1, <1>6
  <2> QED BY <1>5, <2>1
<1>8. PICK f : Adds(f, ss, T) /\ Concat(ss) = f[Len(ss)]
  BY <1>7, ConcatIs
<1> DEFINE rows == Concat(ss)
<1>9. IsRows(rows, 9)
  <2>1. rows \in Seq(T)
    BY <1>1, <1>5, <1>8 DEF Adds, Fields
  <2> HIDE DEF rows
  <2> QED BY <1>6, <2>1, Elements DEF IsRows
<1>10. ASSUME \A h \in hosts : FitsIn(h, {"alerts", "stats"})
       PROVE  Len(rows) = Cardinality({k \in Known : k[1] \in hosts})
  <2> DEFINE part == [i \in 1..n |-> KnownOf(list[i].id)]
             K == {k \in Known : k[1] \in hosts}
  <2>1. part \in [1..n -> SUBSET Known]
    BY DEF KnownOf
  <2>2. \A i \in 1..n : Len(ss[i]) = Cardinality(part[i])
    BY <1>4, <1>10
  <2>3. \A i, j \in 1..n : i # j => part[i] \cap part[j] = {}
    BY <1>1 DEF KnownOf
  <2>4. UNION {part[i] : i \in 1..n} = K
    <3>1. ASSUME NEW i \in 1..n PROVE part[i] \subseteq K
      <4>1. PICK h \in hosts : list[i] = HostResponse(h)
        BY <1>1
      <4>2. list[i].id = h
        BY <4>1, HostFacts DEF TypeOK
      <4> QED BY <4>2 DEF KnownOf
    <3>2. ASSUME NEW k \in K PROVE \E i \in 1..n : k \in part[i]
      <4>1. k \in Known /\ k[1] \in hosts /\ HostResponse(k[1]) \in SetOf(list)
        BY <1>1
      <4>2. PICK i \in 1..n : list[i] = HostResponse(k[1])
        BY <1>1, <4>1 DEF SetOf
      <4>3. list[i].id = k[1]
        BY <4>1, <4>2, HostFacts DEF TypeOK
      <4> QED BY <4>1, <4>3 DEF KnownOf
    <3> HIDE DEF part, K
    <3>3. UNION {part[i] : i \in 1..n} \subseteq K
      BY <3>1, Zenon
    <3>4. K \subseteq UNION {part[i] : i \in 1..n}
      BY <3>2, Zenon
    <3> QED BY <3>3, <3>4
  <2>5. IsFiniteSet(Known)
    BY KnownFacts
  <2> HIDE DEF part, K
  <2>6. Len(f[Len(ss)]) = Cardinality(UNION {part[i] : i \in 1..Len(ss)})
    <3>1. /\ part \in [1..Len(ss) -> SUBSET Known]
          /\ \A i \in 1..Len(ss) : Len(ss[i]) = Cardinality(part[i])
          /\ \A i, j \in 1..Len(ss) : i # j => part[i] \cap part[j] = {}
      BY <1>5, <2>1, <2>2, <2>3
    <3> QED BY <1>7, <1>8, <2>5, <3>1, RowsCount
  <2>7. Len(rows) = Cardinality(K)
    BY <1>5, <1>8, <2>4, <2>6
  <2> QED BY <2>7 DEF K
<1>11. table = <<ResultHeaders>> \o rows
  BY <1>3, <1>5
<1> HIDE DEF rows, table
<1>12. IsTable(<<ResultHeaders>> \o rows, 9) /\ Len(<<ResultHeaders>> \o rows) = Len(rows) + 1
  BY <1>9, HeaderFacts, HeadedTable
<1> QED BY <1>10, <1>11, <1>12 DEF table, list

LEMMA StateReadsBack == TypeOK => CSVReadsBack
<1> SUFFICES ASSUME TypeOK PROVE CSVReadsBack
  OBVIOUS
<1> DEFINE a == HostsTable(getHosts)
           b == MonitoringResultsTable(getHosts)
           c == AlertsTable(loadAlerts)
           Fit == \A h \in hosts, f \in {"alerts", "stats"} : Cardinality(KnownOf(h)) <= Limit[f]
<1>1. IsTable(a, 12) /\ Len(a) = Cardinality(hosts) + 1
  BY HostsTableFacts
<1>2. IsTable(b, 9) /\ (Fit => Len(b) = Cardinality({k \in Known : k[1] \in hosts}) + 1)
  BY ResultsTableFacts DEF FitsIn
<1>3. IsTable(c, 8) /\ Len(c) = Len(loadAlerts) + 1
  BY AlertsTableFacts
<1>4. /\ exportHostsToCSV(getHosts) = arrayToCSV(a)
      /\ exportMonitoringResultsToCSV(getHosts) = arrayToCSV(b)
      /\ exportAlertsToCSV(loadAlerts) = arrayToCSV(c)
  BY DEF exportHostsToCSV, exportMonitoringResultsToCSV, exportAlertsToCSV
<1> HIDE DEF a, b, c, Fit
<1>5. ReadCSV(arrayToCSV(a)) = a /\ \A row \in SetOf(a) : Len(row) = Len(a[1])
  BY <1>1, TableIsRead
<1>6. ReadCSV(arrayToCSV(b)) = b /\ \A row \in SetOf(b) : Len(row) = Len(b[1])
  BY <1>2, TableIsRead
<1>7. ReadCSV(arrayToCSV(c)) = c /\ \A row \in SetOf(c) : Len(row) = Len(c[1])
  BY <1>3, TableIsRead
<1> QED BY <1>1, <1>2, <1>3, <1>4, <1>5, <1>6, <1>7, Zenon DEF CSVReadsBack, a, b, c, Fit

\* In every state, the three exports are read back as the tables that were
\* written, every row as long as the headers: no name, address or output of a
\* check moves a value to another column or row (arrayToCSV).  A row for each
\* host, for each alert, and for each result whose host's lists have it.
THEOREM ExportsReadBack == Spec => []CSVReadsBack
BY StateReadsBack, StoreTypeCorrect, PTL
=============================================================================
