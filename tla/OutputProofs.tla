---------------------------- MODULE OutputProofs ----------------------------
(***************************************************************************)
(* What a client that pages through a job's output can rely on, proved for *)
(* any set of streams, any readers with their selections, any limits and   *)
(* any pattern of evictions and reclaims between the pages; and what one   *)
(* call with any arguments can, at any moment.                             *)
(***************************************************************************)
EXTENDS MCOutput, FiniteSetTheorems, SequenceTheorems, TLAPS

-----------------------------------------------------------------------------
(* The lines of a set in their order.                                       *)

Upto(S, q) == {p \in S : p <= q}

Increasing(a) == \A i, j \in 1 .. Len(a) : i < j => a[i] < a[j]

Shown(a, q) == \E i \in 1 .. Len(a) : a[i] = q

(* A sequence is one over whatever set holds its elements.                  *)
LEMMA ElementsMakeSeq ==
  ASSUME NEW T, NEW a \in Seq(T), NEW S, \A i \in 1 .. Len(a) : a[i] \in S
  PROVE  a \in Seq(S)
<1>1. Len(a) \in Nat OBVIOUS
<1>2. DOMAIN a = 1 .. Len(a) OBVIOUS
<1>3. a = [i \in 1 .. Len(a) |-> a[i]] BY <1>1, <1>2
<1> DEFINE n == Len(a)
<1> HIDE DEF n
<1>4. [i \in 1 .. n |-> a[i]] \in Seq(S) BY <1>1 DEF n
<1> QED BY <1>3, <1>4 DEF n

LEMMA SameElements ==
  ASSUME NEW T, NEW a \in Seq(T), NEW b \in Seq(T), Len(a) = Len(b),
         \A i \in 1 .. Len(a) : a[i] = b[i]
  PROVE  a = b
OBVIOUS

(* What is left of a sequence after its n-th element, and what came before. *)
LEMMA TailOfSeq ==
  ASSUME NEW T, NEW a \in Seq(T), NEW n \in Nat, n <= Len(a)
  PROVE  LET b == SubSeq(a, n + 1, Len(a))
         IN  /\ b \in Seq(T) /\ Len(b) = Len(a) - n
             /\ \A i \in 1 .. Len(a) - n : b[i] = a[n + i]
<1> DEFINE m == n + 1
<1>1. /\ m \in 1 .. Len(a) + 1 /\ Len(a) \in m - 1 .. Len(a) /\ Len(a) - m + 1 = Len(a) - n
      /\ \A i \in 1 .. Len(a) - n : m + i - 1 = n + i
  OBVIOUS
<1> HIDE DEF m
<1>2. /\ SubSeq(a, m, Len(a)) \in Seq(T) /\ Len(SubSeq(a, m, Len(a))) = Len(a) - m + 1
      /\ \A i \in 1 .. Len(a) - m + 1 : SubSeq(a, m, Len(a))[i] = a[m + i - 1]
  BY <1>1, SubSeqProperties
<1>3. /\ SubSeq(a, m, Len(a)) \in Seq(T) /\ Len(SubSeq(a, m, Len(a))) = Len(a) - n
      /\ \A i \in 1 .. Len(a) - n : SubSeq(a, m, Len(a))[i] = a[n + i]
  BY <1>1, <1>2
<1> QED BY <1>3 DEF m

LEMMA PartsOfSeq ==
  ASSUME NEW T, NEW a \in Seq(T), NEW n \in Nat \ {0}, n <= Len(a)
  PROVE  SubSeq(a, 1, n) \o SubSeq(a, n + 1, Len(a)) = a
<1> DEFINE b == SubSeq(a, 1, n)
           c == SubSeq(a, n + 1, Len(a))
<1>1. b \in Seq(T) /\ Len(b) = n /\ \A i \in 1 .. n : b[i] = a[i] OBVIOUS
<1>2. c \in Seq(T) /\ Len(c) = Len(a) - n /\ \A i \in 1 .. Len(a) - n : c[i] = a[n + i]
  BY TailOfSeq
<1> HIDE DEF b, c
<1>3. /\ b \o c \in Seq(T) /\ Len(b \o c) = Len(a)
      /\ \A i \in 1 .. Len(a) : (b \o c)[i] = IF i <= n THEN b[i] ELSE c[i - n]
  BY <1>1, <1>2
<1>4. ASSUME NEW i \in 1 .. Len(a) PROVE (b \o c)[i] = a[i]
  <2>1. CASE i <= n BY <1>1, <1>3, <2>1
  <2>2. CASE ~(i <= n)
    <3>1. i - n \in 1 .. Len(a) - n /\ n + (i - n) = i BY <2>2
    <3> QED BY <1>2, <1>3, <2>2, <3>1
  <2> QED BY <2>1, <2>2
<1> DEFINE d == b \o c
<1>5. d \in Seq(T) /\ Len(d) = Len(a) /\ \A i \in 1 .. Len(a) : d[i] = a[i] BY <1>3, <1>4
<1> HIDE DEF d
<1>6. d = a BY <1>5, SameElements
<1> QED BY <1>6 DEF d, b, c

(* A line is the i-th of a finite set for exactly one i.                    *)
LEMMA RanksAreExact ==
  ASSUME NEW S \in SUBSET Nat, IsFiniteSet(S)
  PROVE  /\ Cardinality(S) \in Nat
         /\ \A q \in S : Cardinality(Upto(S, q)) \in 1 .. Cardinality(S)
         /\ \A p, q \in S : p < q => Cardinality(Upto(S, p)) < Cardinality(Upto(S, q))
         /\ \A i \in 1 .. Cardinality(S) : \E q \in S : Cardinality(Upto(S, q)) = i
<1> DEFINE n == Cardinality(S)
           f == [q \in S |-> Cardinality(Upto(S, q))]
<1>1. n \in Nat BY FS_CardinalityType
<1>2. ASSUME NEW q \in S PROVE IsFiniteSet(Upto(S, q)) /\ Cardinality(Upto(S, q)) \in 1 .. n
  <2>1. Upto(S, q) \in SUBSET S /\ q \in Upto(S, q) BY DEF Upto
  <2>2. IsFiniteSet(Upto(S, q)) /\ Cardinality(Upto(S, q)) <= n BY <2>1, FS_Subset
  <2>3. Cardinality(Upto(S, q)) \in Nat /\ Cardinality(Upto(S, q)) # 0
    BY <2>1, <2>2, FS_CardinalityType, FS_EmptySet
  <2> QED BY <1>1, <2>2, <2>3
<1>3. ASSUME NEW p \in S, NEW q \in S, p < q PROVE Cardinality(Upto(S, p)) < Cardinality(Upto(S, q))
  <2>1. Upto(S, p) \in SUBSET Upto(S, q) /\ q \in Upto(S, q) /\ q \notin Upto(S, p)
    <3>1. p \in Nat /\ q \in Nat OBVIOUS
    <3>2. ASSUME NEW x \in S, x <= p PROVE x <= q
      <4>1. x \in Nat OBVIOUS
      <4> QED BY <1>3, <3>1, <3>2, <4>1
    <3>3. ~(q <= p) /\ q <= q BY <1>3, <3>1
    <3> QED BY <3>2, <3>3 DEF Upto
  <2>2. /\ Cardinality(Upto(S, p)) <= Cardinality(Upto(S, q))
        /\ Cardinality(Upto(S, q)) = Cardinality(Upto(S, p)) => Upto(S, q) = Upto(S, p)
    BY <1>2, <2>1, FS_Subset
  <2>3. Cardinality(Upto(S, p)) \in Nat /\ Cardinality(Upto(S, q)) \in Nat BY <1>1, <1>2
  <2> QED BY <2>1, <2>2, <2>3
<1>4. f \in Injection(S, 1 .. n)
  <2>1. f \in [S -> 1 .. n] BY <1>2
  <2>2. ASSUME NEW p \in S, NEW q \in S, f[p] = f[q] PROVE p = q
    <3>1. Cardinality(Upto(S, p)) = Cardinality(Upto(S, q)) BY <2>2
    <3>2. ~(p < q) /\ ~(q < p) BY <1>1, <1>2, <1>3, <3>1
    <3> QED BY <3>2
  <2> QED BY <2>1, <2>2 DEF Injection, IsInjective
<1>5. IsFiniteSet(1 .. n) /\ Cardinality(1 .. n) = n BY <1>1, FS_Interval
<1>6. f \in Surjection(S, 1 .. n) BY <1>4, <1>5, FS_Injection
<1>7. ASSUME NEW i \in 1 .. n PROVE \E q \in S : Cardinality(Upto(S, q)) = i
  BY <1>6 DEF Surjection
<1> QED BY <1>1, <1>2, <1>3, <1>7

(* Ascending gives the lines of a set, each once and in order.              *)
LEMMA AscendingIsOrder ==
  ASSUME NEW S \in SUBSET Nat, IsFiniteSet(S)
  PROVE  /\ Ascending(S) \in Seq(S)
         /\ Increasing(Ascending(S)) /\ \A q \in S : Shown(Ascending(S), q)
<1> DEFINE n == Cardinality(S)
           at(i) == CHOOSE q \in S : Cardinality({p \in S : p <= q}) = i
<1>1. /\ n \in Nat
      /\ \A q \in S : Cardinality(Upto(S, q)) \in 1 .. n
      /\ \A p, q \in S : p < q => Cardinality(Upto(S, p)) < Cardinality(Upto(S, q))
      /\ \A i \in 1 .. n : \E q \in S : Cardinality(Upto(S, q)) = i
  BY RanksAreExact
<1>2. ASSUME NEW i \in 1 .. n PROVE at(i) \in S /\ Cardinality(Upto(S, at(i))) = i
  <2>1. \E q \in S : Cardinality({p \in S : p <= q}) = i BY <1>1 DEF Upto
  <2> QED BY <2>1 DEF Upto
<1>3. Ascending(S) = [i \in 1 .. n |-> at(i)] BY DEF Ascending
<1> HIDE DEF n, at
<1>4. Ascending(S) \in Seq(S) /\ Len(Ascending(S)) = n /\ \A i \in 1 .. n : Ascending(S)[i] = at(i)
  BY <1>1, <1>2, <1>3
<1>5. ASSUME NEW p \in S, NEW q \in S, Cardinality(Upto(S, p)) = Cardinality(Upto(S, q)) PROVE p = q
  <2>1. ~(p < q) /\ ~(q < p) BY <1>1, <1>5
  <2> QED BY <2>1
<1>6. ASSUME NEW i \in 1 .. n, NEW j \in 1 .. n, i < j PROVE at(i) < at(j)
  <2>1. /\ at(i) \in S /\ at(j) \in S /\ Cardinality(Upto(S, at(i))) = i
        /\ Cardinality(Upto(S, at(j))) = j
    BY <1>2
  <2>2. i \in Nat /\ j \in Nat /\ i # j /\ ~(j < i) BY <1>1, <1>6
  <2>3. at(i) # at(j) BY <2>1, <2>2
  <2>4. ~(at(j) < at(i)) BY <1>1, <2>1, <2>2
  <2>5. at(i) \in Nat /\ at(j) \in Nat BY <2>1
  <2> QED BY <2>3, <2>4, <2>5
<1>7. ASSUME NEW q \in S PROVE \E i \in 1 .. n : at(i) = q
  <2>1. Cardinality(Upto(S, q)) \in 1 .. n BY <1>1
  <2>2. at(Cardinality(Upto(S, q))) = q BY <1>2, <1>5, <2>1
  <2> QED BY <2>1, <2>2
<1> QED BY <1>4, <1>6, <1>7 DEF Increasing, Shown

(* A set of lines that a page in order covers is that page, in order.       *)
LEMMA AscendingIsUnique ==
  ASSUME NEW S \in SUBSET Nat, NEW a \in Seq(Nat), Increasing(a),
         \A i \in 1 .. Len(a) : a[i] \in S, \A q \in S : Shown(a, q)
  PROVE  Ascending(S) = a
<1>1. Len(a) \in Nat /\ \A i \in 1 .. Len(a) : a[i] \in Nat OBVIOUS
<1> DEFINE first(n) == {a[j] : j \in 1 .. n}
<1>2. ASSUME NEW n \in 0 .. Len(a) PROVE IsFiniteSet(first(n)) /\ Cardinality(first(n)) = n
  <2> DEFINE f == [j \in 1 .. n |-> a[j]]
  <2>1. IsFiniteSet(1 .. n) /\ Cardinality(1 .. n) = n BY <1>1, FS_Interval
  <2>2. f \in Surjection(1 .. n, first(n)) BY DEF Surjection
  <2>3. ASSUME NEW i \in 1 .. n, NEW j \in 1 .. n, a[i] = a[j] PROVE i = j
    <3>1. i \in 1 .. Len(a) /\ j \in 1 .. Len(a) BY <1>1
    <3>2. ~(i < j) /\ ~(j < i) BY <1>1, <2>3, <3>1 DEF Increasing
    <3> QED BY <3>1, <3>2
  <2>4. f \in Injection(1 .. n, first(n)) BY <2>3 DEF Injection, IsInjective
  <2>5. ExistsBijection(1 .. n, first(n)) BY <2>2, <2>4 DEF ExistsBijection, Bijection
  <2> HIDE DEF first
  <2> QED BY <2>1, <2>5, FS_Bijection
<1>3. S = first(Len(a)) BY DEF Shown
<1>4. ASSUME NEW i \in 1 .. Len(a) PROVE Upto(S, a[i]) = first(i)
  <2>1. ASSUME NEW j \in 1 .. i PROVE a[j] \in Upto(S, a[i])
    <3>1. j \in 1 .. Len(a) BY <1>1
    <3>2. a[j] <= a[i]
      <4>1. CASE j = i BY <1>1, <4>1
      <4>2. CASE j # i BY <1>1, <3>1, <4>2 DEF Increasing
      <4> QED BY <4>1, <4>2
    <3> QED BY <3>1, <3>2 DEF Upto
  <2>2. ASSUME NEW q \in Upto(S, a[i]) PROVE q \in first(i)
    <3>1. q \in S /\ q <= a[i] BY DEF Upto
    <3>2. PICK j \in 1 .. Len(a) : a[j] = q BY <3>1 DEF Shown
    <3>3. ~(i < j) BY <1>1, <3>1, <3>2 DEF Increasing
    <3>4. j \in 1 .. i BY <1>1, <3>3
    <3> QED BY <3>2, <3>4
  <2> QED BY <2>1, <2>2
<1>5. IsFiniteSet(S) /\ Cardinality(S) = Len(a)
  <2>1. Len(a) \in 0 .. Len(a) BY <1>1
  <2> HIDE DEF first
  <2> QED BY <1>2, <1>3, <2>1
<1>6. ASSUME NEW i \in 1 .. Len(a) PROVE Cardinality(Upto(S, a[i])) = i
  <2>1. i \in 0 .. Len(a) BY <1>1
  <2> HIDE DEF first
  <2> QED BY <1>2, <1>4, <2>1
<1>7. /\ Ascending(S) \in Seq(S) /\ Len(Ascending(S)) = Len(a)
      /\ \A i \in 1 .. Len(a) : Ascending(S)[i] = CHOOSE q \in S : Cardinality(Upto(S, q)) = i
  <2>1. Ascending(S) \in Seq(S) BY <1>5, AscendingIsOrder
  <2>2. Ascending(S) = [i \in 1 .. Len(a) |-> CHOOSE q \in S : Cardinality(Upto(S, q)) = i]
    BY <1>5 DEF Ascending, Upto
  <2> QED BY <1>1, <2>1, <2>2
<1>8. ASSUME NEW i \in 1 .. Len(a) PROVE Ascending(S)[i] = a[i]
  <2>1. a[i] \in S /\ Cardinality(Upto(S, a[i])) = i BY <1>6
  <2>2. ASSUME NEW q \in S, Cardinality(Upto(S, q)) = i PROVE q = a[i]
    <3>1. PICK j \in 1 .. Len(a) : a[j] = q BY DEF Shown
    <3>2. Cardinality(Upto(S, a[j])) = j BY <1>6
    <3> QED BY <2>2, <3>1, <3>2
  <2>3. (CHOOSE q \in S : Cardinality(Upto(S, q)) = i) = a[i] BY <2>1, <2>2
  <2> QED BY <1>7, <2>3
<1> HIDE DEF first
<1> QED BY <1>1, <1>7, <1>8

(* What is left of a page in order after its n-th line.                     *)
LEMMA AscendingGoesOn ==
  ASSUME NEW S \in SUBSET Nat, IsFiniteSet(S), NEW n \in Nat \ {0}, n < Len(Ascending(S))
  PROVE  LET a == Ascending(S)
         IN  Ascending({q \in S : q > a[n]}) = SubSeq(a, n + 1, Len(a))
<1> DEFINE a == Ascending(S)
           b == SubSeq(a, n + 1, Len(a))
           T == {q \in S : q > a[n]}
<1>1. a \in Seq(S) /\ Increasing(a) /\ \A q \in S : Shown(a, q) BY AscendingIsOrder
<1>2. n < Len(a) OBVIOUS
<1> HIDE DEF a
<1>3. Len(a) \in Nat /\ \A i \in 1 .. Len(a) : a[i] \in S /\ a[i] \in Nat
  <2>1. Len(a) \in Nat /\ \A i \in 1 .. Len(a) : a[i] \in S
    <3> HIDE DEF b, T
    <3> QED BY <1>1
  <2> QED BY <2>1
<1>4. /\ b \in Seq(Nat) /\ Len(b) = Len(a) - n
      /\ \A i \in 1 .. Len(a) - n : b[i] = a[n + i]
  <2>1. a \in Seq(Nat) BY <1>1, <1>3, ElementsMakeSeq
  <2> QED BY <1>2, <2>1, TailOfSeq
<1> HIDE DEF b
<1>5. n \in 1 .. Len(a) BY <1>2, <1>3
<1>6. ASSUME NEW i \in 1 .. Len(b), NEW j \in 1 .. Len(b), i < j PROVE b[i] < b[j]
  <2>1. n + i \in 1 .. Len(a) /\ n + j \in 1 .. Len(a) /\ n + i < n + j BY <1>3, <1>4, <1>6
  <2> QED BY <1>1, <1>4, <2>1 DEF Increasing
<1>7. ASSUME NEW i \in 1 .. Len(b) PROVE b[i] \in T
  <2>1. n + i \in 1 .. Len(a) /\ n < n + i BY <1>3, <1>4
  <2>2. a[n] < a[n + i] BY <1>1, <1>5, <2>1 DEF Increasing
  <2> QED BY <1>3, <1>4, <1>5, <2>1, <2>2
<1>8. ASSUME NEW q \in T PROVE Shown(b, q)
  <2>1. q \in S /\ q > a[n] OBVIOUS
  <2>2. PICK i \in 1 .. Len(a) : a[i] = q BY <1>1, <2>1 DEF Shown
  <2>3. ~(i < n) /\ i # n
    <3>1. a[n] \in Nat /\ a[i] \in Nat /\ a[n] < a[i] BY <1>3, <1>5, <2>1, <2>2
    <3>2. ~(a[i] < a[n]) /\ a[i] # a[n] BY <3>1
    <3> QED BY <1>1, <1>5, <3>2 DEF Increasing
  <2>4. i - n \in 1 .. Len(b) /\ n + (i - n) = i BY <1>3, <1>4, <2>3
  <2> QED BY <1>4, <2>2, <2>4 DEF Shown
<1>9. T \in SUBSET Nat OBVIOUS
<1> HIDE DEF T
<1>10. Ascending(T) = b BY <1>4, <1>6, <1>7, <1>8, <1>9, AscendingIsUnique DEF Increasing
<1> QED BY <1>10 DEF a, b, T

(* The greatest of a set of numbers that has a bound.                       *)
LEMMA MaxOfIsGreatest ==
  ASSUME NEW S \in SUBSET Nat, S # {}, NEW b \in Nat, \A x \in S : x <= b
  PROVE  MaxOf(S) \in S /\ \A x \in S : x <= MaxOf(S)
<1>1. IsFiniteSet(S) BY FS_BoundedSetOfNaturals
<1>2. Cardinality(S) \in Nat /\ Cardinality(S) # 0 BY <1>1, FS_CardinalityType, FS_EmptySet
<1>3. PICK m \in S : Cardinality(Upto(S, m)) = Cardinality(S) BY <1>1, <1>2, RanksAreExact
<1>4. Upto(S, m) = S
  <2>1. Upto(S, m) \in SUBSET S BY DEF Upto
  <2> QED BY <1>1, <1>3, <2>1, FS_Subset
<1>5. \A x \in S : x <= m BY <1>4 DEF Upto
<1> QED BY <1>5 DEF MaxOf

(* And the least.                                                           *)
LEMMA LeastExists ==
  ASSUME NEW S \in SUBSET Nat, S # {}
  PROVE  \E q \in S : \A p \in S : q <= p
<1>1. PICK b \in S : TRUE OBVIOUS
<1> DEFINE T == {q \in S : q <= b}
<1>2. b \in Nat /\ T \in SUBSET Nat /\ (\A q \in T : q <= b) /\ b \in T
  <2>1. b \in Nat OBVIOUS
  <2>2. b <= b BY <2>1
  <2> QED BY <2>1, <2>2
<1>3. IsFiniteSet(T)
  <2> HIDE DEF T
  <2> QED BY <1>2, FS_BoundedSetOfNaturals
<1>4. PICK q \in T : Cardinality(Upto(T, q)) = 1
  <2> HIDE DEF T
  <2>1. Cardinality(T) \in Nat /\ Cardinality(T) # 0 BY <1>2, <1>3, FS_CardinalityType, FS_EmptySet
  <2>2. 1 \in 1 .. Cardinality(T) BY <2>1
  <2> QED BY <1>2, <1>3, <2>2, RanksAreExact
<1>5. ASSUME NEW p \in S PROVE q <= p
  <2>1. p \in Nat /\ q \in Nat /\ q <= b
    <3>1. q \in S /\ q <= b BY Zenon
    <3> QED BY <3>1
  <2>2. CASE p <= b
    <3>1. p \in T BY <2>2
    <3> HIDE DEF T
    <3>2. p < q => Cardinality(Upto(T, p)) < Cardinality(Upto(T, q)) BY <1>2, <1>3, <3>1, RanksAreExact
    <3>3. Cardinality(Upto(T, p)) \in 1 .. Cardinality(T) /\ Cardinality(T) \in Nat
      BY <1>2, <1>3, <3>1, RanksAreExact
    <3>4. ~(p < q) BY <1>4, <3>2, <3>3
    <3> QED BY <2>1, <3>4
  <2>3. CASE ~(p <= b) BY <1>2, <2>1, <2>3
  <2> QED BY <2>2, <2>3
<1>6. q \in S OBVIOUS
<1> HIDE DEF T
<1> QED BY <1>5, <1>6

(* The first lines of a page, and the last.                                 *)
LEMMA FirstLines ==
  ASSUME NEW a \in Seq(Nat), Increasing(a), NEW n \in Nat \ {0}, n < Len(a)
  PROVE  LET page == SubSeq(a, 1, n)
         IN  /\ page \in Seq(Nat) /\ Len(page) = n /\ Increasing(page)
             /\ \A i \in 1 .. n : page[i] = a[i]
             /\ \A q : Shown(a, q) /\ q <= page[n] => Shown(page, q)
<1> DEFINE page == SubSeq(a, 1, n)
<1>1. page \in Seq(Nat) /\ Len(page) = n /\ \A i \in 1 .. n : page[i] = a[i] OBVIOUS
<1> HIDE DEF page
<1>2. ASSUME NEW i \in 1 .. n, NEW j \in 1 .. n, i < j PROVE page[i] < page[j]
  <2>1. i \in 1 .. Len(a) /\ j \in 1 .. Len(a) OBVIOUS
  <2> QED BY <1>1, <1>2, <2>1 DEF Increasing
<1>3. ASSUME NEW q, Shown(a, q), q <= page[n] PROVE Shown(page, q)
  <2>1. PICK i \in 1 .. Len(a) : a[i] = q BY <1>3 DEF Shown
  <2>2. a[i] \in Nat /\ a[n] \in Nat /\ page[n] = a[n] BY <1>1
  <2>3. i <= n
    <3>1. n \in 1 .. Len(a) /\ ~(a[n] < a[i]) BY <1>3, <2>1, <2>2
    <3> QED BY <2>1, <3>1 DEF Increasing
  <2> QED BY <1>1, <2>1, <2>3 DEF Shown
<1> QED BY <1>1, <1>2, <1>3 DEF page, Increasing

LEMMA LastLines ==
  ASSUME NEW a \in Seq(Nat), Increasing(a), NEW n \in Nat \ {0}, n < Len(a)
  PROVE  LET window == SubSeq(a, Len(a) - n + 1, Len(a))
         IN  /\ window \in Seq(Nat) /\ Len(window) = n /\ Increasing(window)
             /\ \A i \in 1 .. n : window[i] = a[Len(a) - n + i]
             /\ \A q : Shown(a, q) /\ window[1] <= q => Shown(window, q)
<1> DEFINE window == SubSeq(a, Len(a) - n + 1, Len(a))
<1>1. window \in Seq(Nat) /\ Len(window) = n /\ \A i \in 1 .. n : window[i] = a[Len(a) - n + i]
  <2> DEFINE m == Len(a) - n + 1
  <2>1. /\ Len(a) \in Nat /\ m \in 1 .. Len(a) + 1 /\ Len(a) \in m - 1 .. Len(a)
        /\ Len(a) - m + 1 = n /\ \A i \in 1 .. n : m + i - 1 = Len(a) - n + i
    OBVIOUS
  <2> HIDE DEF m
  <2>2. /\ SubSeq(a, m, Len(a)) \in Seq(Nat) /\ Len(SubSeq(a, m, Len(a))) = Len(a) - m + 1
        /\ \A i \in 1 .. Len(a) - m + 1 : SubSeq(a, m, Len(a))[i] = a[m + i - 1]
    BY <2>1, SubSeqProperties
  <2>3. window = SubSeq(a, m, Len(a)) BY DEF m
  <2> HIDE DEF window
  <2> QED BY <2>1, <2>2, <2>3
<1> HIDE DEF window
<1>2. ASSUME NEW i \in 1 .. n, NEW j \in 1 .. n, i < j PROVE window[i] < window[j]
  <2>1. /\ Len(a) - n + i \in 1 .. Len(a) /\ Len(a) - n + j \in 1 .. Len(a)
        /\ Len(a) - n + i < Len(a) - n + j
    BY <1>2
  <2> QED BY <1>1, <2>1 DEF Increasing
<1>3. ASSUME NEW q, Shown(a, q), window[1] <= q PROVE Shown(window, q)
  <2>1. PICK i \in 1 .. Len(a) : a[i] = q BY <1>3 DEF Shown
  <2>2. a[i] \in Nat /\ a[Len(a) - n + 1] \in Nat /\ window[1] = a[Len(a) - n + 1] BY <1>1
  <2>3. i >= Len(a) - n + 1
    <3>1. Len(a) - n + 1 \in 1 .. Len(a) /\ ~(a[i] < a[Len(a) - n + 1]) BY <1>3, <2>1, <2>2
    <3>2. ~(i < Len(a) - n + 1) BY <2>1, <3>1 DEF Increasing
    <3> QED BY <3>1, <3>2
  <2>4. i - (Len(a) - n) \in 1 .. n /\ i = Len(a) - n + (i - (Len(a) - n)) BY <2>3
  <2>5. window[i - (Len(a) - n)] = q BY <1>1, <2>1, <2>4
  <2> QED BY <1>1, <2>4, <2>5 DEF Shown
<1> QED BY <1>1, <1>2, <1>3 DEF window, Increasing

LEMMA AppendedPages ==
  ASSUME NEW a \in Seq(Nat), NEW b \in Seq(Nat), Increasing(a), Increasing(b),
         \A i \in 1 .. Len(a), j \in 1 .. Len(b) : a[i] < b[j]
  PROVE  /\ a \o b \in Seq(Nat) /\ Increasing(a \o b)
         /\ \A q : Shown(a \o b, q) <=> Shown(a, q) \/ Shown(b, q)
<1>1. /\ a \o b \in Seq(Nat) /\ Len(a \o b) = Len(a) + Len(b)
      /\ \A i \in 1 .. Len(a) + Len(b) : (a \o b)[i] = IF i <= Len(a) THEN a[i] ELSE b[i - Len(a)]
  OBVIOUS
<1> DEFINE c == a \o b
<1> HIDE DEF c
<1>2. /\ c \in Seq(Nat) /\ Len(c) = Len(a) + Len(b)
      /\ \A i \in 1 .. Len(a) : i \in 1 .. Len(c) /\ c[i] = a[i]
      /\ \A j \in 1 .. Len(b) : Len(a) + j \in 1 .. Len(c) /\ c[Len(a) + j] = b[j]
      /\ \A i \in 1 .. Len(c) :
           i \notin 1 .. Len(a) => i - Len(a) \in 1 .. Len(b) /\ c[i] = b[i - Len(a)]
  <2>1. /\ c \in Seq(Nat) /\ Len(c) = Len(a) + Len(b) /\ Len(a) \in Nat /\ Len(b) \in Nat
        /\ \A i \in 1 .. Len(c) : c[i] = IF i <= Len(a) THEN a[i] ELSE b[i - Len(a)]
    BY <1>1 DEF c
  <2>2. \A i \in 1 .. Len(a) : i \in 1 .. Len(c) /\ c[i] = a[i] BY <2>1
  <2>3. ASSUME NEW j \in 1 .. Len(b) PROVE Len(a) + j \in 1 .. Len(c) /\ c[Len(a) + j] = b[j]
    <3>1. Len(a) + j \in 1 .. Len(c) /\ ~(Len(a) + j <= Len(a)) /\ Len(a) + j - Len(a) = j BY <2>1
    <3> QED BY <2>1, <3>1
  <2>4. ASSUME NEW i \in 1 .. Len(c), i \notin 1 .. Len(a)
        PROVE  i - Len(a) \in 1 .. Len(b) /\ c[i] = b[i - Len(a)]
    <3>1. i - Len(a) \in 1 .. Len(b) /\ ~(i <= Len(a)) BY <2>1, <2>4
    <3> QED BY <2>1, <3>1
  <2> QED BY <2>1, <2>2, <2>3, <2>4
<1>3. ASSUME NEW i \in 1 .. Len(c), NEW j \in 1 .. Len(c), i < j PROVE c[i] < c[j]
  <2>1. CASE j \in 1 .. Len(a)
    <3>1. i \in 1 .. Len(a) BY <1>3, <2>1
    <3> QED BY <1>2, <1>3, <2>1, <3>1 DEF Increasing
  <2>2. CASE j \notin 1 .. Len(a) /\ i \in 1 .. Len(a) BY <1>2, <2>2
  <2>3. CASE j \notin 1 .. Len(a) /\ i \notin 1 .. Len(a)
    <3>1. i - Len(a) \in 1 .. Len(b) /\ j - Len(a) \in 1 .. Len(b) /\ i - Len(a) < j - Len(a)
      BY <1>2, <1>3, <2>3
    <3> QED BY <1>2, <2>3, <3>1 DEF Increasing
  <2> QED BY <2>1, <2>2, <2>3
<1>4. ASSUME NEW q PROVE Shown(c, q) <=> Shown(a, q) \/ Shown(b, q)
  <2>1. ASSUME Shown(c, q) PROVE Shown(a, q) \/ Shown(b, q)
    <3>1. PICK i \in 1 .. Len(c) : c[i] = q BY <2>1 DEF Shown
    <3>2. CASE i \in 1 .. Len(a) BY <1>2, <3>1, <3>2 DEF Shown
    <3>3. CASE i \notin 1 .. Len(a)
      <4>1. i - Len(a) \in 1 .. Len(b) /\ b[i - Len(a)] = q BY <1>2, <3>1, <3>3
      <4> QED BY <4>1 DEF Shown
    <3> QED BY <3>2, <3>3
  <2>2. ASSUME Shown(a, q) \/ Shown(b, q) PROVE Shown(c, q) BY <1>2, <2>2 DEF Shown
  <2> QED BY <2>1, <2>2
<1> QED BY <1>2, <1>3, <1>4 DEF c, Increasing

-----------------------------------------------------------------------------
(* The invariants.                                                          *)

(* What is retained was materialized, what was materialized is numbered up  *)
(* to the stream's head, every line that is no longer retained was counted  *)
(* as dropped, and it came before all that is retained.                     *)
StreamInv(s) ==
  /\ lines[s] \subseteq ever[s] /\ ever[s] \subseteq 1 .. headSeq[s] /\ headSeq[s] <= seq
  /\ droppedCount[s] = Cardinality(ever[s] \ lines[s]) + fragments[s]
  /\ \A p \in ever[s] \ lines[s], q \in lines[s] : p < q

BufferTypeOK ==
  /\ seq \in 0 .. MaxSeq
  /\ lines \in [Streams -> SUBSET Nat] /\ ever \in [Streams -> SUBSET Nat]
  /\ headSeq \in [Streams -> Nat]
  /\ droppedCount \in [Streams -> Nat] /\ fragments \in [Streams -> Nat]
  /\ finalized \subseteq Streams /\ retentionEvicted \in BOOLEAN

ReadersTypeOK ==
  /\ cursor \in [Readers -> Nat] /\ floor \in [Readers -> Nat]
  /\ shown \in [Readers -> Seq(Nat)] /\ told \in [Readers -> [Streams -> Nat]]

(* A cursor is 0 or the number of a line of the selection, and what was     *)
(* shown is no later.                                                       *)
ReaderInv(r) ==
  /\ \E s \in Selection[r] : cursor[r] <= headSeq[s]
  /\ floor[r] <= seq
  /\ Increasing(shown[r])
  /\ \A i \in 1 .. Len(shown[r]) : shown[r][i] \in 1 .. cursor[r]
  /\ \A q \in Retained(Selection[r]) : floor[r] < q /\ q <= cursor[r] => Shown(shown[r], q)
  /\ \A s \in Selection[r] : Cardinality(Missed(r, s)) <= told[r][s]

IInv ==
  /\ BufferTypeOK /\ ReadersTypeOK
  /\ \A s \in Streams : StreamInv(s)
  /\ \A r \in Readers : ReaderInv(r)

-----------------------------------------------------------------------------
(* The streams' steps.                                                      *)

(* What a stream has lost grows by exactly what a step drops.               *)
LEMMA LossesAddUp ==
  ASSUME NEW E, NEW L \in SUBSET E, NEW N, NEW K \in SUBSET (L \cup N),
         IsFiniteSet(E), IsFiniteSet(N), N \cap E = {}
  PROVE  /\ Cardinality((E \cup N) \ K) = Cardinality(E \ L) + Cardinality((L \cup N) \ K)
         /\ Cardinality(E \ L) \in Nat /\ Cardinality((L \cup N) \ K) \in Nat
<1> DEFINE U == (E \cup N) \ K
           X == E \ L
           Y == (L \cup N) \ K
<1>1. U = X \cup Y /\ X \cap Y = {} OBVIOUS
<1>2. IsFiniteSet(L \cup N) BY FS_Subset, FS_Union
<1>3. IsFiniteSet(X) /\ IsFiniteSet(Y) BY <1>2, FS_Subset
<1> HIDE DEF U, X, Y
<1>4. Cardinality(X) \in Nat /\ Cardinality(Y) \in Nat /\ Cardinality({}) = 0
  BY <1>3, FS_CardinalityType, FS_EmptySet
<1>5. Cardinality(X \cup Y) = Cardinality(X) + Cardinality(Y) - Cardinality(X \cap Y)
  BY <1>3, FS_Union
<1>6. Cardinality(U) = Cardinality(X) + Cardinality(Y) - 0 BY <1>1, <1>4, <1>5, Zenon
<1>7. Cardinality(U) = Cardinality(X) + Cardinality(Y) BY <1>4, <1>6
<1> QED BY <1>4, <1>7 DEF U, X, Y

LEMMA LinesAreFinite ==
  ASSUME NEW n \in Nat, NEW S \in SUBSET (1 .. n)
  PROVE  IsFiniteSet(S) /\ Cardinality(S) \in Nat
<1>1. IsFiniteSet(1 .. n) BY FS_Interval
<1>2. IsFiniteSet(S) BY <1>1, FS_Subset
<1> QED BY <1>2, FS_CardinalityType

(* New lines are numbered after all others, old ones only go.               *)
Grows ==
  /\ seq <= seq'
  /\ \A s \in Streams :
       /\ headSeq[s] <= headSeq'[s] /\ ever[s] \subseteq ever'[s]
       /\ \A q \in ever'[s] : q \in ever[s] \/ seq < q
       /\ \A q \in lines'[s] : q \in lines[s] \/ seq < q

LEMMA MaterializeKeeps ==
  ASSUME BufferTypeOK, \A s \in Streams : StreamInv(s),
         NEW s \in Streams, NEW n \in Nat, seq + n <= MaxSeq, Materialize(s, n),
         UNCHANGED fragments, finalized' \subseteq Streams, retentionEvicted' \in BOOLEAN
  PROVE  BufferTypeOK' /\ (\A t \in Streams : StreamInv(t)') /\ Grows
<1> DEFINE new == seq + 1 .. seq + n
           all == lines[s] \cup new
<1>1. PICK oldest \in all \cup {seq + n + 1} :
        LET kept == {q \in all : q >= oldest}
        IN  /\ seq' = seq + n
            /\ ever' = [ever EXCEPT ![s] = @ \cup new]
            /\ headSeq' = [headSeq EXCEPT ![s] = IF n = 0 THEN @ ELSE seq + n]
            /\ lines' = [lines EXCEPT ![s] = kept]
            /\ droppedCount' = [droppedCount EXCEPT ![s] = @ + Loss(s, all, kept)]
  BY DEF Materialize
<1> DEFINE kept == {q \in all : q >= oldest}
<1>2. /\ seq \in Nat /\ seq \in 0 .. MaxSeq /\ headSeq[s] \in Nat /\ fragments[s] \in Nat
      /\ droppedCount[s] \in Nat
      /\ lines[s] \subseteq ever[s] /\ ever[s] \subseteq 1 .. headSeq[s] /\ headSeq[s] <= seq
      /\ \A p \in ever[s] \ lines[s], q \in lines[s] : p < q
      /\ droppedCount[s] = Cardinality(ever[s] \ lines[s]) + fragments[s]
  <2> HIDE DEF new, all
  <2>1. StreamInv(s) OBVIOUS
  <2>2. /\ seq \in Nat /\ seq \in 0 .. MaxSeq /\ headSeq[s] \in Nat /\ fragments[s] \in Nat
        /\ droppedCount[s] \in Nat
    BY DEF BufferTypeOK
  <2> QED BY <2>1, <2>2 DEF StreamInv
<1>3. kept \in SUBSET all /\ new \in SUBSET Nat /\ all \in SUBSET Nat BY <1>2
<1>4. ever[s] \in SUBSET (1 .. seq) BY <1>2
<1>5. IsFiniteSet(new) BY <1>2, FS_Interval
<1>6. IsFiniteSet(ever[s]) /\ new \cap ever[s] = {}
  <2>1. IsFiniteSet(ever[s]) BY <1>2, <1>4, LinesAreFinite
  <2>2. \A q \in new : q \notin 1 .. seq BY <1>2
  <2> QED BY <1>4, <2>1, <2>2
<1>6a. ASSUME NEW p \in (ever[s] \cup new) \ kept, NEW q \in kept PROVE p < q
  <2>1. /\ q \in all /\ q >= oldest /\ ~(p \in all /\ p >= oldest)
        /\ p \in Nat /\ q \in Nat /\ oldest \in Nat
    BY <1>2
  <2>2. CASE p \in all BY <2>1, <2>2
  <2>3. CASE p \notin all /\ q \in lines[s] BY <1>2, <2>3
  <2>4. CASE p \notin all /\ q \in new BY <1>2, <2>4
  <2> QED BY <2>1, <2>2, <2>3, <2>4
<1> HIDE DEF kept
<1>7. /\ Cardinality((ever[s] \cup new) \ kept) = Cardinality(ever[s] \ lines[s]) + Cardinality(all \ kept)
      /\ Cardinality(ever[s] \ lines[s]) \in Nat /\ Cardinality(all \ kept) \in Nat
  <2> HIDE DEF new
  <2> QED BY <1>2, <1>3, <1>5, <1>6, LossesAddUp
<1>8. /\ seq' = seq + n
      /\ ever' = [ever EXCEPT ![s] = ever[s] \cup new]
      /\ headSeq' = [headSeq EXCEPT ![s] = IF n = 0 THEN headSeq[s] ELSE seq + n]
      /\ lines' = [lines EXCEPT ![s] = kept]
      /\ droppedCount' = [droppedCount EXCEPT ![s] = droppedCount[s] + Cardinality(all \ kept)]
  BY <1>1 DEF Loss, kept
<1>9. \A t \in Streams : t # s => /\ ever'[t] = ever[t] /\ headSeq'[t] = headSeq[t]
                                  /\ lines'[t] = lines[t] /\ droppedCount'[t] = droppedCount[t]
  BY <1>8 DEF BufferTypeOK
<1>10. /\ ever'[s] = ever[s] \cup new /\ lines'[s] = kept
       /\ headSeq'[s] = IF n = 0 THEN headSeq[s] ELSE seq + n
       /\ droppedCount'[s] = droppedCount[s] + Cardinality(all \ kept)
  BY <1>8 DEF BufferTypeOK
<1>11. BufferTypeOK'
  <2>1. seq' \in 0 .. MaxSeq BY <1>2, <1>8
  <2>2. ever[s] \cup new \in SUBSET Nat /\ kept \in SUBSET Nat BY <1>3, <1>4
  <2>3. (IF n = 0 THEN headSeq[s] ELSE seq + n) \in Nat BY <1>2
  <2>4. droppedCount[s] + Cardinality(all \ kept) \in Nat BY <1>2, <1>7
  <2> HIDE DEF new, all
  <2>5. ever' \in [Streams -> SUBSET Nat] /\ lines' \in [Streams -> SUBSET Nat]
    BY <1>8, <2>2 DEF BufferTypeOK
  <2>6. headSeq' \in [Streams -> Nat] /\ droppedCount' \in [Streams -> Nat]
    BY <1>8, <2>3, <2>4 DEF BufferTypeOK
  <2> QED BY <2>1, <2>5, <2>6 DEF BufferTypeOK
<1>12. /\ headSeq[s] <= headSeq'[s] /\ headSeq'[s] <= seq + n /\ ever'[s] \subseteq 1 .. headSeq'[s]
       /\ headSeq'[s] \in Nat
  <2>1. CASE n = 0
    <3>1. new = {} BY <1>2, <2>1
    <3> QED BY <1>2, <1>10, <2>1, <3>1
  <2>2. CASE n # 0 BY <1>2, <1>4, <1>10, <2>2
  <2> QED BY <2>1, <2>2
<1>13. ASSUME NEW t \in Streams PROVE StreamInv(t)'
  <2>1. CASE t = s
    <3>1. kept \subseteq ever[s] \cup new BY <1>2, <1>3
    <3>2. droppedCount'[s] = Cardinality(ever'[s] \ lines'[s]) + fragments[s]
      BY <1>2, <1>7, <1>10
    <3>3. \A p \in ever'[s] \ lines'[s], q \in lines'[s] : p < q BY <1>10, <1>6a
    <3> QED BY <1>8, <1>10, <1>12, <2>1, <3>1, <3>2, <3>3 DEF StreamInv
  <2>2. CASE t # s
    <3>1. headSeq[t] <= seq /\ headSeq[t] \in Nat /\ seq \in Nat BY <1>2 DEF StreamInv, BufferTypeOK
    <3>2. headSeq[t] <= seq' BY <1>8, <3>1
    <3> QED BY <1>9, <2>2, <3>2 DEF StreamInv
  <2> QED BY <2>1, <2>2
<1>14. Grows
  <2>1. seq <= seq' BY <1>2, <1>8
  <2>2. \A q \in new : seq < q BY <1>2
  <2>3. \A t \in Streams : headSeq[t] <= headSeq[t] BY DEF BufferTypeOK
  <2>4. \A q \in ever'[s] : q \in ever[s] \/ seq < q BY <1>10, <2>2
  <2>5. \A q \in lines'[s] : q \in lines[s] \/ seq < q BY <1>3, <1>10, <2>2
  <2> QED BY <1>9, <1>10, <1>12, <2>1, <2>3, <2>4, <2>5 DEF Grows
<1> QED BY <1>11, <1>13, <1>14

LEMMA EvictKeeps ==
  ASSUME BufferTypeOK, \A s \in Streams : StreamInv(s), EvictAllLines
  PROVE  BufferTypeOK' /\ (\A t \in Streams : StreamInv(t)') /\ Grows
<1>1. PICK partial \in SUBSET (Streams \ finalized) :
        /\ droppedCount' = [s \in Streams |->
             droppedCount[s] + Cardinality(lines[s]) + (IF s \in partial THEN 1 ELSE 0)]
        /\ fragments' = [s \in Streams |-> fragments[s] + (IF s \in partial THEN 1 ELSE 0)]
  BY DEF EvictAllLines
<1>2. /\ lines' = [s \in Streams |-> {}] /\ seq' = seq /\ headSeq' = headSeq
      /\ ever' = ever /\ finalized' = finalized /\ retentionEvicted' = TRUE
  BY DEF EvictAllLines
<1>3. ASSUME NEW s \in Streams
      PROVE  /\ Cardinality(ever[s]) = Cardinality(ever[s] \ lines[s]) + Cardinality(lines[s])
             /\ Cardinality(ever[s] \ lines[s]) \in Nat /\ Cardinality(lines[s]) \in Nat
  <2>1. headSeq[s] \in Nat /\ ever[s] \in SUBSET (1 .. headSeq[s]) /\ lines[s] \in SUBSET ever[s]
    BY DEF BufferTypeOK, StreamInv
  <2>2. IsFiniteSet(ever[s]) /\ IsFiniteSet({}) /\ {} \cap ever[s] = {} /\ {} \in SUBSET (lines[s] \cup {})
    BY <2>1, LinesAreFinite, FS_EmptySet
  <2>3. (ever[s] \cup {}) \ {} = ever[s] /\ (lines[s] \cup {}) \ {} = lines[s] OBVIOUS
  <2>4. /\ Cardinality((ever[s] \cup {}) \ {})
             = Cardinality(ever[s] \ lines[s]) + Cardinality((lines[s] \cup {}) \ {})
        /\ Cardinality(ever[s] \ lines[s]) \in Nat /\ Cardinality((lines[s] \cup {}) \ {}) \in Nat
    BY <2>1, <2>2, LossesAddUp
  <2> QED BY <2>3, <2>4
<1>4. BufferTypeOK'
  <2>1. \A s \in Streams : (IF s \in partial THEN 1 ELSE 0) \in Nat OBVIOUS
  <2>2. ASSUME NEW s \in Streams PROVE droppedCount'[s] \in Nat /\ fragments'[s] \in Nat
    <3>1. droppedCount[s] \in Nat /\ fragments[s] \in Nat /\ Cardinality(lines[s]) \in Nat
      BY <1>3 DEF BufferTypeOK
    <3>2. CASE s \in partial BY <1>1, <3>1, <3>2
    <3>3. CASE s \notin partial BY <1>1, <3>1, <3>3
    <3> QED BY <3>2, <3>3
  <2>3. droppedCount' \in [Streams -> Nat] /\ fragments' \in [Streams -> Nat] BY <1>1, <2>2
  <2>4. {} \in SUBSET Nat OBVIOUS
  <2> QED BY <1>2, <2>3, <2>4 DEF BufferTypeOK
<1>5. ASSUME NEW s \in Streams PROVE StreamInv(s)'
  <2>1. /\ lines'[s] = {} /\ ever'[s] = ever[s] /\ ever[s] \ {} = ever[s]
        /\ droppedCount[s] = Cardinality(ever[s] \ lines[s]) + fragments[s]
    BY <1>2 DEF StreamInv
  <2>2. droppedCount'[s] = Cardinality(ever'[s] \ lines'[s]) + fragments'[s]
    <3>1. /\ droppedCount[s] \in Nat /\ fragments[s] \in Nat
          /\ Cardinality(ever'[s] \ lines'[s]) = Cardinality(ever[s])
      BY <2>1 DEF BufferTypeOK
    <3>2. CASE s \in partial
      <4>1. /\ droppedCount'[s] = droppedCount[s] + Cardinality(lines[s]) + 1
            /\ fragments'[s] = fragments[s] + 1
        BY <1>1, <3>2
      <4> QED BY <1>3, <2>1, <3>1, <4>1
    <3>3. CASE s \notin partial
      <4>1. /\ droppedCount'[s] = droppedCount[s] + Cardinality(lines[s]) + 0
            /\ fragments'[s] = fragments[s] + 0
        BY <1>1, <3>3
      <4> QED BY <1>3, <2>1, <3>1, <4>1
    <3> QED BY <3>2, <3>3
  <2> QED BY <1>2, <2>1, <2>2 DEF StreamInv
<1>6. Grows
  <2>1. seq <= seq /\ \A s \in Streams : headSeq[s] <= headSeq[s] BY DEF BufferTypeOK
  <2> QED BY <1>2, <2>1 DEF Grows
<1> QED BY <1>4, <1>5, <1>6

LEMMA LateChunkKeeps ==
  ASSUME BufferTypeOK, \A s \in Streams : StreamInv(s), NEW s \in Streams, LateChunk(s)
  PROVE  BufferTypeOK' /\ (\A t \in Streams : StreamInv(t)') /\ Grows
<1>1. /\ droppedCount' = [droppedCount EXCEPT ![s] = droppedCount[s] + 1]
      /\ fragments' = [fragments EXCEPT ![s] = fragments[s] + 1]
      /\ seq' = seq /\ lines' = lines /\ headSeq' = headSeq /\ finalized' = finalized
      /\ retentionEvicted' = retentionEvicted /\ ever' = ever
  BY DEF LateChunk
<1>2. droppedCount[s] + 1 \in Nat /\ fragments[s] + 1 \in Nat BY DEF BufferTypeOK
<1>3. BufferTypeOK' BY <1>1, <1>2 DEF BufferTypeOK
<1>4. ASSUME NEW t \in Streams PROVE StreamInv(t)'
  <2>1. ever[t] \in SUBSET (1 .. headSeq[t]) /\ headSeq[t] \in Nat BY DEF BufferTypeOK, StreamInv
  <2>2. ever[t] \ lines[t] \in SUBSET (1 .. headSeq[t]) BY <2>1
  <2>3. Cardinality(ever[t] \ lines[t]) \in Nat BY <2>1, <2>2, LinesAreFinite
  <2>4. droppedCount'[t] = Cardinality(ever[t] \ lines[t]) + fragments'[t]
    <3>1. CASE t = s BY <1>1, <2>3, <3>1 DEF StreamInv, BufferTypeOK
    <3>2. CASE t # s BY <1>1, <2>3, <3>2 DEF StreamInv, BufferTypeOK
    <3> QED BY <3>1, <3>2
  <2> QED BY <1>1, <2>4 DEF StreamInv
<1>5. Grows
  <2>1. seq <= seq /\ \A t \in Streams : headSeq[t] <= headSeq[t] BY DEF BufferTypeOK
  <2> QED BY <1>1, <2>1 DEF Grows
<1> QED BY <1>3, <1>4, <1>5

(* What arrives or goes between two pages takes nothing from a reader.      *)
LEMMA ReadersStand ==
  ASSUME BufferTypeOK, BufferTypeOK', ReadersTypeOK, \A s \in Streams : StreamInv(s),
         \A s \in Streams : StreamInv(s)', \A r \in Readers : ReaderInv(r),
         Grows, UNCHANGED readerVars
  PROVE  ReadersTypeOK' /\ \A r \in Readers : ReaderInv(r)'
<1>1. cursor' = cursor /\ shown' = shown /\ told' = told /\ floor' = floor BY DEF readerVars
<1>2. ReadersTypeOK' BY <1>1 DEF ReadersTypeOK
<1>3. ASSUME NEW r \in Readers PROVE ReaderInv(r)'
  <2>1. Selection[r] \subseteq Streams BY SelectionAssumption
  <2>2. PICK s \in Selection[r] : cursor[r] <= headSeq[s] BY DEF ReaderInv
  <2>3. /\ s \in Streams /\ cursor[r] \in Nat /\ floor[r] \in Nat /\ headSeq[s] \in Nat
        /\ headSeq'[s] \in Nat /\ seq \in Nat /\ seq' \in Nat
    BY <2>1, <2>2 DEF BufferTypeOK, ReadersTypeOK
  <2>4. headSeq[s] <= headSeq'[s] /\ headSeq[s] <= seq /\ seq <= seq' /\ floor[r] <= seq
    BY <2>3 DEF Grows, StreamInv, ReaderInv
  <2>5. cursor[r] <= headSeq'[s] /\ cursor[r] <= seq /\ floor[r] <= seq' BY <2>2, <2>3, <2>4
  <2>6. ASSUME NEW q \in Retained(Selection[r])', floor[r] < q, q <= cursor[r] PROVE Shown(shown[r], q)
    <3>1. PICK t \in Selection[r] : q \in lines'[t] BY <2>6 DEF Retained
    <3>2. t \in Streams /\ q \in Nat BY <2>1, <3>1 DEF BufferTypeOK
    <3>3. ~(seq < q) BY <2>3, <2>5, <2>6, <3>2
    <3>4. q \in lines[t] BY <3>1, <3>2, <3>3 DEF Grows
    <3>5. q \in Retained(Selection[r]) BY <3>1, <3>4 DEF Retained
    <3> QED BY <2>6, <3>5 DEF ReaderInv
  <2>7. ASSUME NEW t \in Selection[r] PROVE Missed(r, t)' = Missed(r, t)
    <3>1. t \in Streams BY <2>1
    <3>2. ASSUME NEW q \in ever'[t], q <= cursor[r] PROVE q \in ever[t]
      <4>1. q \in Nat BY <3>1, <3>2 DEF BufferTypeOK
      <4>2. ~(seq < q) BY <2>3, <2>5, <3>2, <4>1
      <4> QED BY <3>1, <4>2 DEF Grows
    <3>3. ever[t] \subseteq ever'[t] BY <3>1 DEF Grows
    <3> QED BY <1>1, <3>2, <3>3 DEF Missed
  <2>8. \E t \in Selection[r] : cursor'[r] <= headSeq'[t] BY <1>1, <2>2, <2>5
  <2>9. \A t \in Selection[r] : Cardinality(Missed(r, t)') <= told'[r][t]
    BY <1>1, <2>7 DEF ReaderInv
  <2> QED BY <1>1, <2>5, <2>6, <2>8, <2>9 DEF ReaderInv
<1> QED BY <1>2, <1>3

-----------------------------------------------------------------------------
(* The readers' steps.                                                      *)

LEMMA HeadOfSome ==
  ASSUME BufferTypeOK, \A s \in Streams : StreamInv(s), NEW sel \in SUBSET Streams, sel # {}
  PROVE  /\ HeadOf(sel) \in Nat /\ HeadOf(sel) <= seq
         /\ \E s \in sel : HeadOf(sel) = headSeq[s]
         /\ \A s \in sel : headSeq[s] <= HeadOf(sel)
<1> DEFINE heads == {headSeq[s] : s \in sel}
<1>1. sel \in SUBSET Streams /\ sel # {} OBVIOUS
<1>2. ASSUME NEW x \in heads PROVE x \in Nat /\ x <= seq
  <2>1. PICK s \in sel : x = headSeq[s] OBVIOUS
  <2> QED BY <1>1, <2>1 DEF BufferTypeOK, StreamInv
<1>3. heads # {} /\ seq \in Nat BY <1>1 DEF BufferTypeOK
<1>4. HeadOf(sel) = MaxOf(heads) BY DEF HeadOf
<1> HIDE DEF heads
<1>5. MaxOf(heads) \in heads /\ \A x \in heads : x <= MaxOf(heads)
  BY <1>2, <1>3, MaxOfIsGreatest
<1>6. \A s \in sel : headSeq[s] \in heads BY DEF heads
<1>7. \E s \in sel : MaxOf(heads) = headSeq[s] BY <1>5 DEF heads
<1> QED BY <1>2, <1>4, <1>5, <1>6, <1>7

(* What is retained of a selection is no later than its head.               *)
LEMMA RetainedOfSome ==
  ASSUME BufferTypeOK, \A s \in Streams : StreamInv(s), NEW sel \in SUBSET Streams, sel # {},
         NEW q \in Retained(sel)
  PROVE  /\ q \in Nat /\ q <= seq /\ q <= HeadOf(sel)
         /\ \E s \in sel : q <= headSeq[s]
<1>1. PICK s \in sel : q \in lines[s] BY DEF Retained
<1>2. s \in Streams /\ StreamInv(s) /\ headSeq[s] \in Nat /\ seq \in Nat BY DEF BufferTypeOK
<1>3. q \in 1 .. headSeq[s] /\ headSeq[s] <= seq BY <1>1, <1>2 DEF StreamInv
<1>4. headSeq[s] <= HeadOf(sel) /\ HeadOf(sel) \in Nat BY HeadOfSome
<1> QED BY <1>2, <1>3, <1>4

(* The events of a selection are its retained lines after the given one.    *)
LEMMA EventsOfSome ==
  ASSUME BufferTypeOK, \A s \in Streams : StreamInv(s), NEW sel \in SUBSET Streams, sel # {}, NEW after \in Nat
  PROVE  LET events == Events(sel, after)
         IN  /\ events \in Seq(Nat) /\ Increasing(events)
             /\ \A q \in Retained(sel) : after < q => Shown(events, q)
             /\ \A i \in 1 .. Len(events) : events[i] \in Retained(sel)
             /\ \A i \in 1 .. Len(events) :
                  /\ after < events[i] /\ events[i] <= HeadOf(sel)
                  /\ \E s \in sel : events[i] <= headSeq[s]
<1> DEFINE S == {q \in Retained(sel) : q > after}
<1>1. sel \in SUBSET Streams OBVIOUS
<1>2. ASSUME NEW q \in Retained(sel)
      PROVE  /\ q \in Nat /\ q <= seq /\ q <= HeadOf(sel)
             /\ \E s \in sel : q <= headSeq[s]
  BY RetainedOfSome
<1>3. S \in SUBSET Nat /\ \A q \in S : q <= seq BY <1>2
<1>4. IsFiniteSet(S)
  <2>1. seq \in Nat BY DEF BufferTypeOK
  <2> HIDE DEF S
  <2> QED BY <1>3, <2>1, FS_BoundedSetOfNaturals
<1> DEFINE events == Ascending(S)
<1>5. events \in Seq(S) /\ Increasing(events) /\ \A q \in S : Shown(events, q)
  <2> HIDE DEF S
  <2> QED BY <1>3, <1>4, AscendingIsOrder
<1>6. Events(sel, after) = events BY DEF Events
<1> HIDE DEF events
<1>7. events \in Seq(Nat) /\ \A i \in 1 .. Len(events) : events[i] \in S
  <2> HIDE DEF S
  <2>1. S \in SUBSET Nat BY <1>3
  <2>2. \A i \in 1 .. Len(events) : events[i] \in S BY <1>5
  <2>3. \A i \in 1 .. Len(events) : events[i] \in Nat BY <2>1, <2>2
  <2>4. /\ Len(events) \in Nat
        /\ events = [i \in 1 .. Len(events) |-> events[i]]
    BY <1>5
  <2>5. events \in [1 .. Len(events) -> Nat] BY <2>3, <2>4
  <2>6. events \in Seq(Nat) BY <2>4, <2>5
  <2> QED BY <2>2, <2>6
<1>8. \A q \in Retained(sel) : after < q => q \in S BY <1>2
<1>9. \A q \in S : /\ q \in Retained(sel) /\ after < q /\ q <= HeadOf(sel)
                   /\ \E s \in sel : q <= headSeq[s]
  BY <1>2
<1> HIDE DEF S
<1> QED BY <1>5, <1>6, <1>7, <1>8, <1>9

LEMMA HeadOfSelection ==
  ASSUME BufferTypeOK, \A s \in Streams : StreamInv(s), NEW r \in Readers
  PROVE  /\ HeadOf(Selection[r]) \in Nat /\ HeadOf(Selection[r]) <= seq
         /\ \E s \in Selection[r] : HeadOf(Selection[r]) = headSeq[s]
         /\ \A s \in Selection[r] : headSeq[s] <= HeadOf(Selection[r])
<1>1. Selection[r] \in SUBSET Streams /\ Selection[r] # {} BY SelectionAssumption
<1> QED BY <1>1, HeadOfSome

LEMMA EventsOfSelection ==
  ASSUME BufferTypeOK, \A s \in Streams : StreamInv(s), NEW r \in Readers, NEW after \in Nat
  PROVE  LET events == Events(Selection[r], after)
         IN  /\ events \in Seq(Nat) /\ Increasing(events)
             /\ \A q \in Retained(Selection[r]) : after < q => Shown(events, q)
             /\ \A i \in 1 .. Len(events) :
                  /\ after < events[i] /\ events[i] <= HeadOf(Selection[r])
                  /\ \E s \in Selection[r] : events[i] <= headSeq[s]
<1>1. Selection[r] \in SUBSET Streams /\ Selection[r] # {} BY SelectionAssumption
<1> QED BY <1>1, EventsOfSome

LEMMA Transitive ==
  ASSUME NEW a \in Nat, NEW b \in Nat, NEW c \in Nat, a <= b, b < c
  PROVE  a < c
OBVIOUS

(* A reader that shows a page, moves its cursor to next, and is told the    *)
(* losses: right if the page is in order, lies between the two cursors, and *)
(* has every retained line there.                                           *)
LEMMA ShowsKeeps ==
  ASSUME BufferTypeOK, ReadersTypeOK, \A s \in Streams : StreamInv(s),
         \A r \in Readers : ReaderInv(r),
         NEW r \in Readers, NEW page \in Seq(Nat), NEW next \in Nat, NEW fl \in Nat,
         Shows(r, page, next), floor' = [floor EXCEPT ![r] = fl],
         fl <= seq, cursor[r] <= next, \E s \in Selection[r] : next <= headSeq[s],
         Increasing(page),
         \A i \in 1 .. Len(page) : cursor[r] < page[i] /\ page[i] <= next,
         \A q \in Retained(Selection[r]) :
           fl < q /\ q <= next => Shown(page, q) \/ (q <= cursor[r] /\ fl = floor[r])
  PROVE  ReadersTypeOK' /\ \A x \in Readers : ReaderInv(x)'
<1> DEFINE counts == [s \in Streams |-> IF s \in Selection[r] THEN droppedCount[s] ELSE 0]
<1>1. /\ shown' = [shown EXCEPT ![r] = shown[r] \o page]
      /\ cursor' = [cursor EXCEPT ![r] = next]
      /\ told' = [told EXCEPT ![r] = counts]
      /\ seq' = seq /\ lines' = lines /\ headSeq' = headSeq /\ droppedCount' = droppedCount
      /\ ever' = ever /\ fragments' = fragments
  BY DEF Shows, bufferVars
<1>2. counts \in [Streams -> Nat] BY DEF BufferTypeOK
<1>3. \A s \in Selection[r] : counts[s] = droppedCount[s] BY SelectionAssumption
<1> HIDE DEF counts
<1>4. shown[r] \in Seq(Nat) /\ cursor[r] \in Nat /\ floor[r] \in Nat BY DEF ReadersTypeOK
<1>5. /\ Increasing(shown[r])
      /\ \A i \in 1 .. Len(shown[r]) : shown[r][i] \in 1 .. cursor[r]
      /\ \A q \in Retained(Selection[r]) : floor[r] < q /\ q <= cursor[r] => Shown(shown[r], q)
  BY DEF ReaderInv
<1>6. ASSUME NEW i \in 1 .. Len(shown[r]), NEW j \in 1 .. Len(page) PROVE shown[r][i] < page[j]
  <2>1. shown[r][i] \in 1 .. cursor[r] BY <1>5
  <2>2. shown[r][i] \in Nat /\ shown[r][i] <= cursor[r] BY <1>4, <2>1
  <2>3. cursor[r] < page[j] /\ page[j] \in Nat OBVIOUS
  <2> QED BY <1>4, <2>2, <2>3, Transitive
<1> DEFINE all == shown[r] \o page
<1>7. /\ all \in Seq(Nat) /\ Increasing(all)
      /\ \A q : Shown(all, q) <=> Shown(shown[r], q) \/ Shown(page, q)
  BY <1>4, <1>5, <1>6, AppendedPages
<1> HIDE DEF all
<1>8. shown' = [shown EXCEPT ![r] = all] BY <1>1 DEF all
<1>9. ReadersTypeOK'
  <2>1. shown' \in [Readers -> Seq(Nat)] BY <1>7, <1>8 DEF ReadersTypeOK
  <2>2. cursor' \in [Readers -> Nat] /\ floor' \in [Readers -> Nat] BY <1>1 DEF ReadersTypeOK
  <2>3. told' \in [Readers -> [Streams -> Nat]] BY <1>1, <1>2 DEF ReadersTypeOK
  <2> QED BY <2>1, <2>2, <2>3 DEF ReadersTypeOK
<1>10. shown'[r] = all /\ cursor'[r] = next /\ floor'[r] = fl /\ told'[r] = counts
  BY <1>1, <1>8 DEF ReadersTypeOK
<1>11. ReaderInv(r)'
  <2>1. ASSUME NEW q \in Retained(Selection[r]), fl < q, q <= next PROVE Shown(all, q)
    <3>1. CASE Shown(page, q) BY <1>7, <3>1
    <3>2. CASE q <= cursor[r] /\ fl = floor[r] BY <1>5, <1>7, <2>1, <3>2
    <3> QED BY <2>1, <3>1, <3>2
  <2>2. ASSUME NEW i \in 1 .. Len(all) PROVE all[i] \in 1 .. next
    <3>1. Shown(all, all[i]) BY DEF Shown
    <3>2. CASE Shown(shown[r], all[i])
      <4>1. PICK k \in 1 .. Len(shown[r]) : shown[r][k] = all[i] BY <3>2 DEF Shown
      <4> QED BY <1>4, <1>5, <4>1
    <3>3. CASE Shown(page, all[i])
      <4>1. PICK k \in 1 .. Len(page) : page[k] = all[i] BY <3>3 DEF Shown
      <4>2. cursor[r] < page[k] /\ page[k] <= next /\ page[k] \in Nat BY <4>1
      <4> QED BY <1>4, <4>1, <4>2
    <3> QED BY <1>7, <3>1, <3>2, <3>3
  <2>3. ASSUME NEW s \in Selection[r] PROVE Cardinality(Missed(r, s)') <= told'[r][s]
    <3>1. s \in Streams BY SelectionAssumption
    <3>2. Missed(r, s)' \subseteq ever[s] \ lines[s]
      <4>1. SUFFICES ASSUME NEW q \in Missed(r, s)' PROVE q \in ever[s] /\ q \notin lines[s]
        OBVIOUS
      <4>2. /\ q \in ever[s] /\ fl < q /\ q <= next
            /\ \A i \in DOMAIN all : all[i] # q
        BY <1>1, <1>10 DEF Missed
      <4>3. ~Shown(all, q)
        <5>1. DOMAIN all = 1 .. Len(all) BY <1>7
        <5> QED BY <4>2, <5>1 DEF Shown
      <4>4. q \in lines[s] => q \in Retained(Selection[r]) BY DEF Retained
      <4> QED BY <2>1, <4>2, <4>3, <4>4
    <3>3. headSeq[s] \in Nat /\ ever[s] \ lines[s] \in SUBSET (1 .. headSeq[s])
      BY <3>1 DEF BufferTypeOK, StreamInv
    <3>4. IsFiniteSet(ever[s] \ lines[s]) /\ Cardinality(ever[s] \ lines[s]) \in Nat
      BY <3>3, LinesAreFinite
    <3>5. /\ Cardinality(Missed(r, s)') <= Cardinality(ever[s] \ lines[s])
          /\ IsFiniteSet(Missed(r, s)')
      BY <3>2, <3>4, FS_Subset
    <3>6. Cardinality(Missed(r, s)') \in Nat BY <3>5, FS_CardinalityType
    <3>7. /\ droppedCount[s] = Cardinality(ever[s] \ lines[s]) + fragments[s]
          /\ fragments[s] \in Nat
      BY <3>1 DEF StreamInv, BufferTypeOK
    <3>8. told'[r][s] = droppedCount[s] BY <1>3, <1>10
    <3> QED BY <3>4, <3>5, <3>6, <3>7, <3>8
  <2>4. Retained(Selection[r])' = Retained(Selection[r]) BY <1>1 DEF Retained
  <2>5. \E s \in Selection[r] : cursor'[r] <= headSeq'[s] BY <1>1, <1>10
  <2>6. floor'[r] <= seq' /\ Increasing(shown'[r]) BY <1>1, <1>7, <1>10
  <2>7. \A i \in 1 .. Len(shown'[r]) : shown'[r][i] \in 1 .. cursor'[r] BY <1>10, <2>2
  <2>8. \A q \in Retained(Selection[r])' : floor'[r] < q /\ q <= cursor'[r] => Shown(shown'[r], q)
    BY <1>10, <2>1, <2>4
  <2>9. Increasing(shown[r])' BY <2>6 DEF Increasing
  <2> QED BY <2>3, <2>5, <2>6, <2>7, <2>8, <2>9 DEF ReaderInv, Shown
<1>12. ASSUME NEW x \in Readers, x # r PROVE ReaderInv(x)'
  <2>1. /\ shown'[x] = shown[x] /\ cursor'[x] = cursor[x] /\ floor'[x] = floor[x]
        /\ told'[x] = told[x]
    BY <1>1, <1>12 DEF ReadersTypeOK
  <2>2. Retained(Selection[x])' = Retained(Selection[x]) BY <1>1 DEF Retained
  <2>3. \A s \in Selection[x] : Missed(x, s)' = Missed(x, s) BY <1>1, <2>1 DEF Missed
  <2>4. ReaderInv(x) OBVIOUS
  <2> QED BY <1>1, <2>1, <2>2, <2>3, <2>4 DEF ReaderInv
<1> QED BY <1>9, <1>11, <1>12

LEMMA RetainedAreLines ==
  ASSUME BufferTypeOK, NEW r \in Readers, NEW q \in Retained(Selection[r])
  PROVE  q \in Nat
<1>1. PICK s \in Selection[r] : q \in lines[s] BY DEF Retained
<1>2. s \in Streams BY <1>1, SelectionAssumption
<1> QED BY <1>1, <1>2 DEF BufferTypeOK

(* The last line of a page is its greatest.                                 *)
LEMMA LastIsGreatest ==
  ASSUME NEW a \in Seq(Nat), Increasing(a), NEW i \in 1 .. Len(a)
  PROVE  a[i] <= a[Len(a)]
<1>1. Len(a) \in Nat /\ Len(a) \in 1 .. Len(a) /\ a[i] \in Nat /\ a[Len(a)] \in Nat OBVIOUS
<1>2. CASE i = Len(a) BY <1>1, <1>2
<1>3. CASE i # Len(a)
  <2>1. i < Len(a) BY <1>1, <1>3
  <2> QED BY <1>1, <2>1 DEF Increasing
<1> QED BY <1>2, <1>3

LEMMA OutputKeeps ==
  ASSUME BufferTypeOK, ReadersTypeOK, \A s \in Streams : StreamInv(s),
         \A r \in Readers : ReaderInv(r), NEW r \in Readers, NEW limit \in Nat \ {0},
         ReadOutput(r, limit)
  PROVE  ReadersTypeOK' /\ \A x \in Readers : ReaderInv(x)'
<1> DEFINE events == Events(Selection[r], cursor[r])
           head == HeadOf(Selection[r])
<1>1. /\ cursor[r] \in Nat /\ floor[r] \in Nat /\ floor[r] <= seq
      /\ \E s \in Selection[r] : cursor[r] <= headSeq[s]
  BY DEF ReadersTypeOK, ReaderInv
<1>2. /\ events \in Seq(Nat) /\ Increasing(events)
      /\ \A q \in Retained(Selection[r]) : cursor[r] < q => Shown(events, q)
      /\ \A i \in 1 .. Len(events) :
           /\ cursor[r] < events[i] /\ events[i] <= head
           /\ \E s \in Selection[r] : events[i] <= headSeq[s]
  BY <1>1, EventsOfSelection
<1>3. /\ head \in Nat
      /\ \E s \in Selection[r] : head = headSeq[s]
      /\ \A s \in Selection[r] : headSeq[s] <= head
  BY HeadOfSelection
<1>4. floor' = [floor EXCEPT ![r] = floor[r]] BY DEF ReadOutput, ReadersTypeOK
<1>5. ASSUME NEW q \in Retained(Selection[r]) PROVE q <= cursor[r] \/ cursor[r] < q
  BY <1>1, RetainedAreLines
<1>6. CASE Len(events) > limit
  <2> DEFINE page == SubSeq(events, 1, limit)
  <2>1. Shows(r, page, page[Len(page)]) BY <1>6 DEF ReadOutput, NextCursor
  <2>2. Len(events) \in Nat /\ limit < Len(events) /\ \A i \in 1 .. limit : i \in 1 .. Len(events)
    BY <1>2, <1>6
  <2> HIDE DEF events, head
  <2>3. /\ page \in Seq(Nat) /\ Len(page) = limit /\ Increasing(page)
        /\ \A i \in 1 .. limit : page[i] = events[i]
        /\ \A q : Shown(events, q) /\ q <= page[limit] => Shown(page, q)
    BY <1>2, <2>2, FirstLines
  <2> HIDE DEF page
  <2>4. limit \in 1 .. limit /\ limit \in 1 .. Len(page) BY <2>3
  <2>5. /\ page[limit] \in Nat /\ cursor[r] < page[limit]
        /\ \E s \in Selection[r] : page[limit] <= headSeq[s]
    BY <1>2, <2>2, <2>3, <2>4
  <2>6. \A i \in 1 .. Len(page) : cursor[r] < page[i] /\ page[i] <= page[limit]
    BY <1>2, <2>2, <2>3, LastIsGreatest
  <2>7. \A q \in Retained(Selection[r]) :
          floor[r] < q /\ q <= page[limit] => Shown(page, q) \/ (q <= cursor[r] /\ floor[r] = floor[r])
    BY <1>2, <1>5, <2>3
  <2>8. Shows(r, page, page[limit]) /\ cursor[r] <= page[limit] BY <1>1, <2>1, <2>3, <2>5
  <2> QED BY <1>1, <1>4, <2>3, <2>5, <2>6, <2>7, <2>8, ShowsKeeps
<1>7. CASE ~(Len(events) > limit)
  <2>1. Shows(r, events, head) BY <1>7 DEF ReadOutput, NextCursor
  <2> HIDE DEF events, head
  <2>2. cursor[r] <= head
    <3>1. PICK s \in Selection[r] : cursor[r] <= headSeq[s] BY <1>1
    <3>2. headSeq[s] \in Nat /\ headSeq[s] <= head BY <1>3, SelectionAssumption DEF BufferTypeOK
    <3> QED BY <1>1, <1>3, <3>1, <3>2
  <2>3. \E s \in Selection[r] : head <= headSeq[s] BY <1>3
  <2>4. \A q \in Retained(Selection[r]) :
          floor[r] < q /\ q <= head => Shown(events, q) \/ (q <= cursor[r] /\ floor[r] = floor[r])
    BY <1>2, <1>5
  <2>5. \A i \in 1 .. Len(events) : cursor[r] < events[i] /\ events[i] <= head BY <1>2
  <2> QED BY <1>1, <1>2, <1>3, <1>4, <2>1, <2>2, <2>3, <2>4, <2>5, ShowsKeeps
<1> QED BY <1>6, <1>7

LEMMA TailKeeps ==
  ASSUME BufferTypeOK, ReadersTypeOK, \A s \in Streams : StreamInv(s),
         \A r \in Readers : ReaderInv(r), NEW r \in Readers, NEW n \in Nat \ {0},
         ReadTail(r, n)
  PROVE  ReadersTypeOK' /\ \A x \in Readers : ReaderInv(x)'
<1> DEFINE events == Events(Selection[r], 0)
           head == HeadOf(Selection[r])
<1>1. cursor[r] = 0 /\ seq \in Nat BY DEF ReadTail, BufferTypeOK
<1>2. /\ events \in Seq(Nat) /\ Increasing(events)
      /\ \A q \in Retained(Selection[r]) : 0 < q => Shown(events, q)
      /\ \A i \in 1 .. Len(events) :
           /\ 0 < events[i] /\ events[i] <= head
           /\ \E s \in Selection[r] : events[i] <= headSeq[s]
  <2>1. 0 \in Nat OBVIOUS
  <2> QED BY <2>1, EventsOfSelection
<1>3. head \in Nat /\ head <= seq /\ (\E s \in Selection[r] : head = headSeq[s]) BY HeadOfSelection
<1>4. cursor[r] <= head /\ \E s \in Selection[r] : head <= headSeq[s] BY <1>1, <1>3
<1>5. CASE Len(events) > n
  <2> DEFINE window == SubSeq(events, Len(events) - n + 1, Len(events))
             fl == window[1] - 1
  <2>1. Shows(r, window, head) /\ floor' = [floor EXCEPT ![r] = fl] BY <1>5 DEF ReadTail
  <2>2. /\ Len(events) \in Nat /\ n < Len(events)
        /\ \A i \in 1 .. n : Len(events) - n + i \in 1 .. Len(events)
    BY <1>2, <1>5
  <2> HIDE DEF events, head
  <2>3. /\ window \in Seq(Nat) /\ Len(window) = n /\ Increasing(window)
        /\ \A i \in 1 .. n : window[i] = events[Len(events) - n + i]
        /\ \A q : Shown(events, q) /\ window[1] <= q => Shown(window, q)
    BY <1>2, <2>2, LastLines
  <2> HIDE DEF window
  <2>4. \A i \in 1 .. Len(window) : 0 < window[i] /\ window[i] <= head BY <1>2, <2>2, <2>3
  <2>5. window[1] \in Nat /\ 0 < window[1] /\ window[1] <= head BY <2>3, <2>4
  <2>6. fl \in Nat /\ fl <= seq BY <1>1, <1>3, <2>5
  <2>7. ASSUME NEW q \in Retained(Selection[r]), fl < q, q <= head
        PROVE  Shown(window, q) \/ (q <= cursor[r] /\ fl = floor[r])
    <3>1. q \in Nat BY RetainedAreLines
    <3>2. window[1] <= q /\ 0 < q BY <2>5, <2>7, <3>1
    <3> QED BY <1>2, <2>3, <3>2
  <2> HIDE DEF fl
  <2>8. \A i \in 1 .. Len(window) : cursor[r] < window[i] /\ window[i] <= head BY <1>1, <2>4
  <2> QED BY <1>3, <1>4, <2>1, <2>3, <2>6, <2>7, <2>8, ShowsKeeps
<1>6. CASE ~(Len(events) > n)
  <2>1. Shows(r, events, head) /\ floor' = [floor EXCEPT ![r] = 0] BY <1>6 DEF ReadTail
  <2> HIDE DEF events, head
  <2>2. ASSUME NEW q \in Retained(Selection[r]), 0 < q, q <= head
        PROVE  Shown(events, q) \/ (q <= cursor[r] /\ 0 = floor[r])
    BY <1>2, <2>2
  <2>3. \A i \in 1 .. Len(events) : cursor[r] < events[i] /\ events[i] <= head BY <1>1, <1>2
  <2>4. 0 \in Nat /\ 0 <= seq BY <1>1
  <2> QED BY <1>2, <1>3, <1>4, <2>1, <2>2, <2>3, <2>4, ShowsKeeps
<1> QED BY <1>5, <1>6

-----------------------------------------------------------------------------
(* The theorems.                                                            *)

(* The streams' and the readers' invariant holds in every state: what was   *)
(* lost is counted, no cursor is ahead of its streams, and every retained   *)
(* line that a cursor has passed was shown.                                 *)
THEOREM Invariance == Spec => []IInv
<1>1. Init => IInv
  <2> SUFFICES ASSUME Init PROVE IInv OBVIOUS
  <2> USE DEF Init
  <2>1. BufferTypeOK
    <3>1. {} \in SUBSET Nat /\ MaxSeq \in Nat /\ 0 \in Nat BY LimitsAssumption
    <3>2. lines \in [Streams -> SUBSET Nat] /\ ever \in [Streams -> SUBSET Nat] BY <3>1
    <3>3. /\ headSeq \in [Streams -> Nat] /\ droppedCount \in [Streams -> Nat]
          /\ fragments \in [Streams -> Nat]
      BY <3>1
    <3>4. seq \in 0 .. MaxSeq BY <3>1
    <3> QED BY <3>2, <3>3, <3>4 DEF BufferTypeOK
  <2>2. ReadersTypeOK BY DEF ReadersTypeOK
  <2>3. ASSUME NEW s \in Streams PROVE StreamInv(s)
    <3>1. lines[s] = {} /\ ever[s] = {} /\ headSeq[s] = 0 /\ droppedCount[s] = 0 /\ fragments[s] = 0
      OBVIOUS
    <3>2. Cardinality(ever[s] \ lines[s]) = 0
      <4>1. ever[s] \ lines[s] = {} BY <3>1
      <4> QED BY <4>1, FS_EmptySet
    <3> QED BY <3>1, <3>2 DEF StreamInv
  <2>4. ASSUME NEW r \in Readers PROVE ReaderInv(r)
    <3>1. cursor[r] = 0 /\ floor[r] = 0 /\ shown[r] = <<>> /\ Len(shown[r]) = 0 OBVIOUS
    <3>2. Selection[r] \in SUBSET Streams /\ Selection[r] # {} BY SelectionAssumption
    <3>3. \E s \in Selection[r] : cursor[r] <= headSeq[s] BY <3>1, <3>2
    <3>4. ASSUME NEW s \in Selection[r] PROVE Cardinality(Missed(r, s)) <= told[r][s]
      <4>1. s \in Streams /\ ever[s] = {} /\ told[r][s] = 0 BY <3>2
      <4>2. Missed(r, s) = {} BY <4>1 DEF Missed
      <4> QED BY <4>1, <4>2, FS_EmptySet
    <3>5. Retained(Selection[r]) = {} BY <3>2 DEF Retained
    <3>6. Increasing(shown[r]) BY <3>1 DEF Increasing
    <3> QED BY <3>1, <3>3, <3>4, <3>5, <3>6 DEF ReaderInv
  <2> QED BY <2>1, <2>2, <2>3, <2>4 DEF IInv
<1>2. IInv /\ [Next]_vars => IInv'
  <2> SUFFICES ASSUME IInv, [Next]_vars PROVE IInv' OBVIOUS
  <2>1. /\ BufferTypeOK /\ ReadersTypeOK
        /\ \A s \in Streams : StreamInv(s)
        /\ \A r \in Readers : ReaderInv(r)
    BY DEF IInv
  <2>2. ASSUME NEW s \in Streams, NEW n \in 0 .. 2, AppendChunk(s, n) PROVE IInv'
    <3>1. /\ Materialize(s, n) /\ seq + n <= MaxSeq /\ UNCHANGED fragments
          /\ finalized' = finalized /\ retentionEvicted' = retentionEvicted
          /\ UNCHANGED readerVars
      BY <2>2 DEF AppendChunk
    <3>2. finalized' \subseteq Streams /\ retentionEvicted' \in BOOLEAN
      BY <2>1, <3>1 DEF BufferTypeOK
    <3>3. BufferTypeOK' /\ (\A t \in Streams : StreamInv(t)') /\ Grows
      BY <2>1, <3>1, <3>2, MaterializeKeeps
    <3> QED BY <2>1, <3>1, <3>3, ReadersStand DEF IInv
  <2>3. ASSUME NEW s \in Streams, NEW n \in 0 .. 2, FinalizeStream(s, n) PROVE IInv'
    <3>1. /\ Materialize(s, n) /\ seq + n <= MaxSeq /\ UNCHANGED fragments
          /\ finalized' = finalized \cup {s} /\ retentionEvicted' = retentionEvicted
          /\ UNCHANGED readerVars
      BY <2>3 DEF FinalizeStream
    <3>2. finalized' \subseteq Streams /\ retentionEvicted' \in BOOLEAN
      BY <2>1, <3>1 DEF BufferTypeOK
    <3>3. BufferTypeOK' /\ (\A t \in Streams : StreamInv(t)') /\ Grows
      BY <2>1, <3>1, <3>2, MaterializeKeeps
    <3> QED BY <2>1, <3>1, <3>3, ReadersStand DEF IInv
  <2>4. ASSUME EvictAllLines PROVE IInv'
    <3>1. BufferTypeOK' /\ (\A t \in Streams : StreamInv(t)') /\ Grows BY <2>1, <2>4, EvictKeeps
    <3>2. UNCHANGED readerVars BY <2>4 DEF EvictAllLines
    <3> QED BY <2>1, <3>1, <3>2, ReadersStand DEF IInv
  <2>5. ASSUME NEW s \in Streams, LateChunk(s) PROVE IInv'
    <3>1. BufferTypeOK' /\ (\A t \in Streams : StreamInv(t)') /\ Grows
      BY <2>1, <2>5, LateChunkKeeps
    <3>2. UNCHANGED readerVars BY <2>5 DEF LateChunk
    <3> QED BY <2>1, <3>1, <3>2, ReadersStand DEF IInv
  <2>6. ASSUME bufferVars' = bufferVars PROVE BufferTypeOK' /\ \A s \in Streams : StreamInv(s)'
    BY <2>1, <2>6 DEF BufferTypeOK, StreamInv, bufferVars
  <2>7. ASSUME NEW r \in Readers, NEW n \in Limits, ReadOutput(r, n) PROVE IInv'
    <3>1. n \in Nat \ {0} BY LimitsAssumption
    <3>2. bufferVars' = bufferVars BY <2>7 DEF ReadOutput, Shows
    <3>3. ReadersTypeOK' /\ \A x \in Readers : ReaderInv(x)' BY <2>1, <2>7, <3>1, OutputKeeps
    <3> QED BY <2>6, <3>2, <3>3 DEF IInv
  <2>8. ASSUME NEW r \in Readers, NEW n \in Limits, ReadTail(r, n) PROVE IInv'
    <3>1. n \in Nat \ {0} BY LimitsAssumption
    <3>2. bufferVars' = bufferVars BY <2>8 DEF ReadTail, Shows
    <3>3. ReadersTypeOK' /\ \A x \in Readers : ReaderInv(x)' BY <2>1, <2>8, <3>1, TailKeeps
    <3> QED BY <2>6, <3>2, <3>3 DEF IInv
  <2>9. CASE UNCHANGED vars
    <3>1. UNCHANGED bufferVars /\ UNCHANGED readerVars BY <2>9 DEF vars
    <3>2. BufferTypeOK' /\ \A s \in Streams : StreamInv(s)' BY <2>6, <3>1
    <3>3. Grows
      <4>1. seq' = seq /\ lines' = lines /\ ever' = ever /\ headSeq' = headSeq
        BY <3>1 DEF bufferVars
      <4>2. seq <= seq /\ \A s \in Streams : headSeq[s] <= headSeq[s] BY <2>1 DEF BufferTypeOK
      <4> QED BY <4>1, <4>2 DEF Grows
    <3> QED BY <2>1, <3>1, <3>2, <3>3, ReadersStand DEF IInv
  <2> QED BY <2>2, <2>3, <2>4, <2>5, <2>7, <2>8, <2>9 DEF Next
<1> QED BY <1>1, <1>2, PTL DEF Spec

(* Every reachable state is well typed: in particular no number that a      *)
(* reader holds is ahead of the counter that numbers the lines.             *)
THEOREM TypeCorrect == Spec => []TypeOK
<1>1. IInv => TypeOK
  <2> SUFFICES ASSUME IInv PROVE TypeOK OBVIOUS
  <2>1. /\ BufferTypeOK /\ ReadersTypeOK
        /\ \A s \in Streams : StreamInv(s)
        /\ \A r \in Readers : ReaderInv(r)
    BY DEF IInv
  <2>2. seq \in Nat /\ seq \in 0 .. MaxSeq BY <2>1 DEF BufferTypeOK
  <2>3. ASSUME NEW s \in Streams
        PROVE  headSeq[s] \in 0 .. seq /\ ever[s] \in SUBSET (1 .. seq) /\ lines[s] \in SUBSET (1 .. seq)
    <3>1. headSeq[s] \in Nat /\ StreamInv(s) BY <2>1 DEF BufferTypeOK
    <3>2. /\ headSeq[s] <= seq /\ ever[s] \subseteq 1 .. headSeq[s] /\ lines[s] \subseteq ever[s]
      BY <3>1 DEF StreamInv
    <3>3. 1 .. headSeq[s] \subseteq 1 .. seq BY <2>2, <3>1, <3>2
    <3> QED BY <2>2, <3>1, <3>2, <3>3
  <2>4. /\ headSeq \in [Streams -> 0 .. seq] /\ ever \in [Streams -> SUBSET (1 .. seq)]
        /\ lines \in [Streams -> SUBSET (1 .. seq)]
    BY <2>1, <2>3 DEF BufferTypeOK
  <2>5. ASSUME NEW r \in Readers
        PROVE  cursor[r] \in 0 .. seq /\ floor[r] \in 0 .. seq /\ shown[r] \in Seq(1 .. seq)
    <3>1. PICK s \in Selection[r] : cursor[r] <= headSeq[s] BY <2>1 DEF ReaderInv
    <3>2. s \in Streams BY <3>1, SelectionAssumption
    <3>3. cursor[r] \in Nat /\ floor[r] \in Nat /\ shown[r] \in Seq(Nat) /\ headSeq[s] \in 0 .. seq
      BY <2>1, <2>3, <3>2 DEF ReadersTypeOK
    <3>4. cursor[r] <= seq BY <2>2, <3>1, <3>3
    <3>5. \A i \in 1 .. Len(shown[r]) : shown[r][i] \in 1 .. cursor[r] BY <2>1 DEF ReaderInv
    <3>6. 1 .. cursor[r] \subseteq 1 .. seq BY <2>2, <3>3, <3>4
    <3>7. \A i \in 1 .. Len(shown[r]) : shown[r][i] \in 1 .. seq BY <3>5, <3>6
    <3>8. shown[r] \in Seq(1 .. seq) BY <3>3, <3>7, ElementsMakeSeq
    <3>9. floor[r] <= seq BY <2>1 DEF ReaderInv
    <3> QED BY <2>2, <3>3, <3>4, <3>8, <3>9
  <2>6. /\ cursor \in [Readers -> 0 .. seq] /\ floor \in [Readers -> 0 .. seq]
        /\ shown \in [Readers -> Seq(1 .. seq)]
    BY <2>1, <2>5 DEF ReadersTypeOK
  <2> QED BY <2>1, <2>2, <2>4, <2>6 DEF TypeOK, BufferTypeOK, ReadersTypeOK
<1> QED BY <1>1, Invariance, PTL

(* Paging by next_cursor shows every retained line of the selected streams, *)
(* once, in the order in which the lines were completed.                    *)
THEOREM PagesStayInOrder == Spec => []PagesInOrder
<1>1. IInv => PagesInOrder
  <2> SUFFICES ASSUME IInv, NEW r \in Readers
               PROVE  /\ \A i \in 1 .. Len(shown[r]) - 1 : shown[r][i] < shown[r][i + 1]
                      /\ \A q \in Retained(Selection[r]) :
                           floor[r] < q /\ q <= cursor[r] => \E i \in DOMAIN shown[r] : shown[r][i] = q
    BY DEF PagesInOrder, ShownInOrder, NothingRetainedIsPassed
  <2>1. ReaderInv(r) /\ shown[r] \in Seq(Nat) BY DEF IInv, ReadersTypeOK
  <2>2. DOMAIN shown[r] = 1 .. Len(shown[r]) /\ Len(shown[r]) \in Nat BY <2>1
  <2>3. ASSUME NEW i \in 1 .. Len(shown[r]) - 1 PROVE shown[r][i] < shown[r][i + 1]
    <3>1. i \in 1 .. Len(shown[r]) /\ i + 1 \in 1 .. Len(shown[r]) /\ i < i + 1 BY <2>2
    <3> QED BY <2>1, <3>1 DEF ReaderInv, Increasing
  <2>4. \A q \in Retained(Selection[r]) :
          floor[r] < q /\ q <= cursor[r] => \E i \in DOMAIN shown[r] : shown[r][i] = q
    BY <2>1, <2>2 DEF ReaderInv, Shown
  <2> QED BY <2>3, <2>4
<1> QED BY <1>1, Invariance, PTL

(* No gap is silent: the lines of a selected stream that a reader's cursor  *)
(* has passed unseen are at most the dropped count it was last told.        *)
THEOREM NoSilentGaps == Spec => []GapsAreDisclosed
<1>1. IInv => GapsAreDisclosed BY DEF IInv, ReaderInv, GapsAreDisclosed
<1> QED BY <1>1, Invariance, PTL

-----------------------------------------------------------------------------
(* What one call answers.                                                   *)

(* The arguments of a call that the tools take: whichever they are, the     *)
(* selection is of streams, the cursor a number, and the window, if given,  *)
(* at least one line.                                                       *)
Asks(args) ==
  /\ Selected(args.stream) \in (SUBSET Streams) \ {{}}
  /\ ValueOf(args.cursor, 0) \in Nat
  /\ args.count # Absent => \A default : ValueOf(args.count, default) \in Nat \ {0}

LEMMA NumbersKeep ==
  ASSUME NEW q \in Nat, NEW default
  PROVE  ValueOf(Absent, default) = default /\ Whole(q) # Absent /\ ValueOf(Whole(q), default) = q
<1>1. Whole(q) # Absent BY DEF Whole, Double, Absent
<1>2. ValueOf(Absent, default) = default BY DEF ValueOf
<1>3. (2 * q) \div 2 = q OBVIOUS
<1>4. Whole(q).double = 2 * q BY DEF Whole, Double
<1> QED BY <1>1, <1>2, <1>3, <1>4 DEF ValueOf

LEMMA SelectionsSelect ==
  ASSUME NEW v \in Selector
  PROVE  Selected(v) \in (SUBSET Streams) \ {{}}
<1>1. CASE v = Text("both")
  BY <1>1, ViewsAssumption DEF Selected
<1>2. CASE v = Text("stdout")
  <2>1. v.text = "stdout" /\ v # Absent /\ v # Text("both") BY <1>2 DEF Text, Absent
  <2>2. Selected(v) = {"stdout"} BY <2>1 DEF Selected
  <2> QED BY <2>2, ViewsAssumption
<1>3. CASE v = Text("stderr")
  <2>1. v.text = "stderr" /\ v # Absent /\ v # Text("both") BY <1>3 DEF Text, Absent
  <2>2. Selected(v) = {"stderr"} BY <2>1 DEF Selected
  <2> QED BY <2>2, ViewsAssumption
<1> QED BY <1>1, <1>2, <1>3 DEF Selector

(* What a call asks, without its window and with another cursor.            *)
LEMMA CallsAsk ==
  ASSUME NEW call \in Calls
  PROVE  /\ Asks(call)
         /\ LET unlimited == [call EXCEPT !.count = Absent]
            IN  /\ unlimited.stream = call.stream /\ unlimited.cursor = call.cursor
                /\ unlimited.count = Absent
                /\ \A v : LET from == [unlimited EXCEPT !.cursor = v]
                          IN  from.stream = call.stream /\ from.cursor = v /\ from.count = Absent
<1>1. PICK s \in Selector, c \in {Absent} \cup {Whole(q) : q \in 0 .. MaxSeq},
           n \in {Absent} \cup {Whole(k) : k \in Limits} :
        call = Asking(s, c, n)
  BY DEF Calls
<1>2. call = [job_id |-> Text("j"), stream |-> s, cursor |-> c, count |-> n, signal |-> Absent]
  BY <1>1 DEF Asking, Bare
<1>3. call.stream = s /\ call.cursor = c /\ call.count = n BY <1>2
<1>4. ValueOf(c, 0) \in Nat
  <2>1. CASE c = Absent BY <2>1 DEF ValueOf
  <2>2. CASE c # Absent
    <3>1. PICK q \in 0 .. MaxSeq : c = Whole(q) BY <2>2
    <3>2. q \in Nat BY LimitsAssumption
    <3> QED BY <3>1, <3>2, NumbersKeep
  <2> QED BY <2>1, <2>2
<1>5. ASSUME n # Absent, NEW default PROVE ValueOf(n, default) \in Nat \ {0}
  <2>1. PICK k \in Limits : n = Whole(k) BY <1>5
  <2>2. k \in Nat \ {0} BY LimitsAssumption
  <2> QED BY <2>1, <2>2, NumbersKeep
<1>6. Asks(call) BY <1>3, <1>4, <1>5, SelectionsSelect DEF Asks
<1> DEFINE unlimited == [call EXCEPT !.count = Absent]
<1>7. unlimited = [job_id |-> Text("j"), stream |-> s, cursor |-> c, count |-> Absent, signal |-> Absent]
  BY <1>2
<1> HIDE DEF unlimited
<1>8. ASSUME NEW v
      PROVE  LET from == [unlimited EXCEPT !.cursor = v]
             IN  from.stream = s /\ from.cursor = v /\ from.count = Absent
  BY <1>7
<1> QED BY <1>3, <1>6, <1>7, <1>8 DEF unlimited

(* The events of a call are those of its lines.                             *)
EventSet == {buildEvent(q) : q \in Nat}

LEMMA ViewOfSome ==
  ASSUME BufferTypeOK, \A s \in Streams : StreamInv(s), NEW sel \in SUBSET Streams, sel # {},
         NEW after \in Nat
  PROVE  LET seqs == Events(sel, after)
             view == EventsAfter(sel, after)
         IN  /\ view \in Seq(EventSet) /\ Len(view) = Len(seqs)
             /\ \A i \in 1 .. Len(seqs) : view[i] = buildEvent(seqs[i]) /\ view[i].seq = seqs[i]
<1> DEFINE seqs == Events(sel, after)
           view == EventsAfter(sel, after)
<1>1. seqs \in Seq(Nat) BY EventsOfSome
<1>2. view = [i \in DOMAIN seqs |-> buildEvent(seqs[i])] BY DEF EventsAfter
<1> HIDE DEF seqs, view
<1>3. Len(seqs) \in Nat /\ DOMAIN seqs = 1 .. Len(seqs) /\ \A i \in 1 .. Len(seqs) : seqs[i] \in Nat
  BY <1>1
<1>4. \A i \in 1 .. Len(seqs) : buildEvent(seqs[i]) \in EventSet BY <1>3 DEF EventSet
<1>5. view \in Seq(EventSet) /\ Len(view) = Len(seqs) BY <1>2, <1>3, <1>4
<1>6. \A i \in 1 .. Len(seqs) : view[i] = buildEvent(seqs[i]) BY <1>2, <1>3
<1>7. \A q : buildEvent(q).seq = q BY DEF buildEvent
<1> QED BY <1>5, <1>6, <1>7 DEF seqs, view

(* The lines after the n-th that a call shows are those that it shows next. *)
LEMMA ViewGoesOn ==
  ASSUME BufferTypeOK, \A s \in Streams : StreamInv(s), NEW sel \in SUBSET Streams, sel # {},
         NEW after \in Nat, NEW n \in Nat \ {0}, n < Len(Events(sel, after))
  PROVE  LET view == EventsAfter(sel, after)
         IN  EventsAfter(sel, Events(sel, after)[n]) = SubSeq(view, n + 1, Len(view))
<1> DEFINE seqs == Events(sel, after)
           view == EventsAfter(sel, after)
           next == Events(sel, seqs[n])
           rest == EventsAfter(sel, seqs[n])
           S == {q \in Retained(sel) : q > after}
<1>1. /\ seqs \in Seq(Nat) /\ seqs = Ascending(S)
      /\ \A i \in 1 .. Len(seqs) : after < seqs[i]
  BY EventsOfSome DEF Events
<1>2. S \in SUBSET Nat /\ IsFiniteSet(S) /\ \A q \in Retained(sel) : q \in Nat
  <2>1. \A q \in Retained(sel) : q \in Nat /\ q <= seq BY RetainedOfSome
  <2>2. S \in SUBSET Nat /\ (\A q \in S : q <= seq) /\ seq \in Nat BY <2>1 DEF BufferTypeOK
  <2> HIDE DEF S
  <2>3. IsFiniteSet(S) BY <2>2, FS_BoundedSetOfNaturals
  <2> QED BY <2>1, <2>2, <2>3
<1>3. /\ view \in Seq(EventSet) /\ Len(view) = Len(seqs)
      /\ \A i \in 1 .. Len(seqs) : view[i] = buildEvent(seqs[i])
  BY ViewOfSome
<1>4. n < Len(seqs) OBVIOUS
<1> HIDE DEF seqs, view
<1>5. Len(seqs) \in Nat /\ n \in 1 .. Len(seqs) /\ seqs[n] \in Nat /\ after < seqs[n] BY <1>1, <1>4
<1>6. {q \in Retained(sel) : q > seqs[n]} = {q \in S : q > seqs[n]} BY <1>2, <1>5
<1>7. next = SubSeq(seqs, n + 1, Len(seqs))
  <2>1. next = Ascending({q \in S : q > seqs[n]}) BY <1>6 DEF Events
  <2> HIDE DEF S, next
  <2> QED BY <1>1, <1>2, <1>4, <2>1, AscendingGoesOn
<1>8. /\ rest \in Seq(EventSet) /\ Len(rest) = Len(next)
      /\ \A i \in 1 .. Len(next) : rest[i] = buildEvent(next[i])
  BY <1>5, ViewOfSome
<1>9. /\ Len(next) = Len(seqs) - n /\ \A i \in 1 .. Len(seqs) - n : next[i] = seqs[n + i]
  <2> HIDE DEF next, S
  <2>1. seqs \in Seq(Nat) /\ n \in Nat /\ n <= Len(seqs) BY <1>1, <1>5
  <2>2. LET b == SubSeq(seqs, n + 1, Len(seqs))
        IN  Len(b) = Len(seqs) - n /\ \A i \in 1 .. Len(seqs) - n : b[i] = seqs[n + i]
    BY <2>1, TailOfSeq
  <2> QED BY <1>7, <2>2
<1>10. LET tail == SubSeq(view, n + 1, Len(view))
       IN  /\ tail \in Seq(EventSet) /\ Len(tail) = Len(view) - n
           /\ \A i \in 1 .. Len(view) - n : tail[i] = view[n + i]
  BY <1>3, <1>4, TailOfSeq
<1> HIDE DEF next, rest
<1>11. ASSUME NEW i \in 1 .. Len(seqs) - n PROVE rest[i] = SubSeq(view, n + 1, Len(view))[i]
  <2>1. n + i \in 1 .. Len(seqs) BY <1>5
  <2> QED BY <1>3, <1>8, <1>9, <1>10, <2>1
<1>12. rest = SubSeq(view, n + 1, Len(view))
  <2> DEFINE tail == SubSeq(view, n + 1, Len(view))
  <2>1. /\ tail \in Seq(EventSet) /\ rest \in Seq(EventSet) /\ Len(tail) = Len(rest)
        /\ \A i \in 1 .. Len(rest) : rest[i] = tail[i]
    BY <1>3, <1>8, <1>9, <1>10, <1>11
  <2> HIDE DEF tail
  <2>2. rest = tail BY <2>1, SameElements
  <2> QED BY <2>2 DEF tail
<1> QED BY <1>12 DEF rest, seqs, view

LEMMA NothingAfterHead ==
  ASSUME BufferTypeOK, \A s \in Streams : StreamInv(s), NEW sel \in SUBSET Streams, sel # {}
  PROVE  EventsAfter(sel, HeadOf(sel)) = <<>>
<1> DEFINE head == HeadOf(sel)
           seqs == Events(sel, head)
           view == EventsAfter(sel, head)
<1>1. head \in Nat BY HeadOfSome
<1>2. /\ seqs \in Seq(Nat)
      /\ \A i \in 1 .. Len(seqs) : head < seqs[i] /\ seqs[i] <= head
  BY <1>1, EventsOfSome
<1>3. view \in Seq(EventSet) /\ Len(view) = Len(seqs) BY <1>1, ViewOfSome
<1> HIDE DEF seqs, view, head
<1>4. Len(seqs) = 0
  <2>1. Len(seqs) \in Nat BY <1>2
  <2>2. ASSUME Len(seqs) # 0 PROVE FALSE
    <3>1. 1 \in 1 .. Len(seqs) BY <2>1, <2>2
    <3>2. seqs[1] \in Nat /\ head < seqs[1] /\ seqs[1] <= head BY <1>2, <3>1
    <3> QED BY <1>1, <3>2
  <2> QED BY <2>2
<1>5. view = <<>> BY <1>3, <1>4
<1> QED BY <1>5 DEF view, head

(* A stream without a dropped count still has every line it ever had.       *)
LEMMA NothingDropped ==
  ASSUME BufferTypeOK, NEW s \in Streams, StreamInv(s), ~(droppedCount[s] > 0)
  PROVE  ever[s] = lines[s]
<1>1. /\ ever[s] \in SUBSET (1 .. headSeq[s]) /\ lines[s] \in SUBSET ever[s] /\ headSeq[s] \in Nat
      /\ droppedCount[s] = Cardinality(ever[s] \ lines[s]) + fragments[s]
      /\ droppedCount[s] \in Nat /\ fragments[s] \in Nat
  BY DEF BufferTypeOK, StreamInv
<1>2. IsFiniteSet(ever[s] \ lines[s]) /\ Cardinality(ever[s] \ lines[s]) \in Nat
  BY <1>1, LinesAreFinite
<1>3. Cardinality(ever[s] \ lines[s]) = 0 BY <1>1, <1>2
<1>4. ever[s] \ lines[s] = {} BY <1>2, <1>3, FS_EmptySet
<1> QED BY <1>1, <1>4

(* The disclosure names every selected stream that lost a line, with a      *)
(* count no smaller, and the boundary it gives is between what is gone and  *)
(* what is still there.                                                     *)
LEMMA LossesAreNamed ==
  ASSUME BufferTypeOK, NEW sel \in SUBSET Streams, NEW s \in sel, StreamInv(s), Lost(s) # {}
  PROVE  LET dropped == applyDropDisclosure(sel)
         IN  /\ s \in DOMAIN dropped /\ dropped[s].dropped >= Cardinality(Lost(s))
             /\ \A q \in Lost(s) : q <= dropped[s].droppedBeforeCursor
             /\ \A q \in lines[s] : q >= dropped[s].droppedBeforeCursor
<1> DEFINE edge == computeDropInfo(s).droppedBeforeCursor
<1>1. s \in Streams OBVIOUS
<1>2. /\ ever[s] \in SUBSET (1 .. headSeq[s]) /\ lines[s] \in SUBSET ever[s] /\ headSeq[s] \in Nat
      /\ droppedCount[s] = Cardinality(ever[s] \ lines[s]) + fragments[s]
      /\ droppedCount[s] \in Nat /\ fragments[s] \in Nat
      /\ \A p \in ever[s] \ lines[s], q \in lines[s] : p < q
  BY <1>1 DEF BufferTypeOK, StreamInv
<1>3. Lost(s) = ever[s] \ lines[s] BY DEF Lost
<1>4. /\ IsFiniteSet(Lost(s)) /\ Cardinality(Lost(s)) \in Nat
  <2>1. Lost(s) \in SUBSET (1 .. headSeq[s]) BY <1>2, <1>3
  <2> QED BY <1>2, <2>1, LinesAreFinite
<1>5. Cardinality(Lost(s)) # 0 BY <1>4, FS_EmptySet
<1>6. droppedCount[s] >= Cardinality(Lost(s)) /\ droppedCount[s] > 0 BY <1>2, <1>3, <1>4, <1>5
<1>7. s \in DOMAIN applyDropDisclosure(sel) /\ applyDropDisclosure(sel)[s] = computeDropInfo(s)
  BY <1>6 DEF applyDropDisclosure
<1>8. computeDropInfo(s).dropped = droppedCount[s] BY DEF computeDropInfo
<1>9. (\A q \in Lost(s) : q <= edge) /\ \A q \in lines[s] : q >= edge
  <2>1. CASE lines[s] = {}
    <3>1. edge = headSeq[s] BY <2>1 DEF computeDropInfo
    <3> HIDE DEF edge
    <3> QED BY <1>2, <1>3, <2>1, <3>1
  <2>2. CASE lines[s] # {}
    <3>1. edge = CHOOSE q \in lines[s] : \A p \in lines[s] : q <= p BY <2>2 DEF computeDropInfo
    <3> HIDE DEF edge
    <3>2. lines[s] \in SUBSET Nat BY <1>2
    <3>3. \E q \in lines[s] : \A p \in lines[s] : q <= p BY <2>2, <3>2, LeastExists
    <3>4. edge \in lines[s] /\ \A p \in lines[s] : edge <= p BY <3>1, <3>3
    <3>5. ASSUME NEW q \in Lost(s) PROVE q <= edge
      <4>1. q < edge /\ q \in Nat /\ edge \in Nat BY <1>2, <1>3, <3>2, <3>4
      <4> QED BY <4>1
    <3>6. ASSUME NEW q \in lines[s] PROVE q >= edge
      <4>1. edge <= q /\ q \in Nat /\ edge \in Nat BY <3>2, <3>4
      <4> QED BY <4>1
    <3> QED BY <3>5, <3>6
  <2> QED BY <2>1, <2>2
<1> HIDE DEF edge
<1> QED BY <1>6, <1>7, <1>8, <1>9 DEF edge

(* An answer with the whole view that is not called truncated has every     *)
(* line of the selection after the cursor that there ever was.              *)
LEMMA WholeViewDiscloses ==
  ASSUME BufferTypeOK, \A s \in Streams : StreamInv(s), NEW sel \in SUBSET Streams, sel # {},
         NEW after \in Nat, ~snapshotTruncated(sel)
  PROVE  LET view == EventsAfter(sel, after)
         IN  {q \in UNION {ever[s] : s \in sel} : q > after}
               \subseteq {view[i].seq : i \in DOMAIN view}
<1> DEFINE seqs == Events(sel, after)
           view == EventsAfter(sel, after)
<1>1. \A q \in Retained(sel) : after < q => Shown(seqs, q) BY EventsOfSome
<1>2. /\ view \in Seq(EventSet) /\ Len(view) = Len(seqs)
      /\ \A i \in 1 .. Len(seqs) : view[i].seq = seqs[i]
  BY ViewOfSome
<1>3. ASSUME NEW q \in UNION {ever[s] : s \in sel}, q > after
      PROVE  \E i \in DOMAIN view : view[i].seq = q
  <2> HIDE DEF seqs, view
  <2>1. PICK s \in sel : q \in ever[s] OBVIOUS
  <2>2. ~(droppedCount[s] > 0) BY DEF snapshotTruncated
  <2>3. ever[s] = lines[s] BY <2>2, NothingDropped
  <2>4. q \in Retained(sel) BY <2>1, <2>3 DEF Retained
  <2>5. s \in Streams /\ q \in Nat BY <2>1 DEF BufferTypeOK
  <2>6. after < q BY <1>3, <2>5
  <2>7. PICK i \in 1 .. Len(seqs) : seqs[i] = q BY <1>1, <2>4, <2>6 DEF Shown
  <2>8. DOMAIN view = 1 .. Len(seqs) BY <1>2
  <2> QED BY <1>2, <2>7, <2>8
<1> HIDE DEF view
<1> QED BY <1>3 DEF view

LEMMA OutputDiscloses ==
  ASSUME BufferTypeOK, \A s \in Streams : StreamInv(s), NEW args, Asks(args)
  PROVE  Discloses(OutputAnswer(args), Selected(args.stream), ValueOf(args.cursor, 0))
<1> DEFINE sel == Selected(args.stream)
           after == ValueOf(args.cursor, 0)
           view == EventsAfter(sel, after)
           limit == ValueOf(args.count, Len(view))
           answer == OutputAnswer(args)
<1>1. sel \in SUBSET Streams /\ sel # {} /\ after \in Nat BY DEF Asks
<1>2. /\ answer.events = IF Len(view) > limit THEN SubSeq(view, 1, limit) ELSE view
      /\ answer.truncated = (snapshotTruncated(sel) \/ Len(view) > limit)
      /\ answer.dropped = applyDropDisclosure(sel)
  BY DEF OutputAnswer
<1> HIDE DEF sel, after, answer, limit
<1>3. {q \in UNION {ever[s] : s \in sel} : q > after} \subseteq LinesIn(answer) \/ answer.truncated
  <2>1. CASE snapshotTruncated(sel) \/ Len(view) > limit BY <1>2, <2>1
  <2>2. CASE ~(snapshotTruncated(sel) \/ Len(view) > limit)
    <3>1. answer.events = view BY <1>2, <2>2
    <3>2. LinesIn(answer) = {view[i].seq : i \in DOMAIN view}
      <4> HIDE DEF view
      <4> QED BY <3>1 DEF LinesIn
    <3> QED BY <1>1, <2>2, <3>2, WholeViewDiscloses
  <2> QED BY <2>1, <2>2
<1>4. ASSUME NEW s \in sel, Lost(s) # {}
      PROVE  /\ s \in DOMAIN answer.dropped /\ answer.dropped[s].dropped >= Cardinality(Lost(s))
             /\ \A q \in Lost(s) : q <= answer.dropped[s].droppedBeforeCursor
             /\ \A q \in lines[s] : q >= answer.dropped[s].droppedBeforeCursor
  <2>1. StreamInv(s) BY <1>1
  <2> QED BY <1>1, <1>2, <1>4, <2>1, LossesAreNamed
<1>5. Discloses(answer, sel, after) BY <1>3, <1>4 DEF Discloses
<1> QED BY <1>5 DEF answer, sel, after

LEMMA TailDiscloses ==
  ASSUME BufferTypeOK, \A s \in Streams : StreamInv(s), NEW args, Asks(args)
  PROVE  Discloses(TailAnswer(args), Selected(args.stream), 0)
<1> DEFINE sel == Selected(args.stream)
           n == ValueOf(args.count, DEFAULT_TAIL_LINES)
           all == EventsAfter(sel, 0)
           answer == TailAnswer(args)
<1>1. sel \in SUBSET Streams /\ sel # {} BY DEF Asks
<1>2. /\ n >= Len(all) => answer.events = all
      /\ answer.truncated = (snapshotTruncated(sel) \/ ~(n >= Len(all)))
      /\ answer.dropped = applyDropDisclosure(sel)
  BY DEF TailAnswer, TailView
<1> HIDE DEF sel, answer, n
<1>3. {q \in UNION {ever[s] : s \in sel} : q > 0} \subseteq LinesIn(answer) \/ answer.truncated
  <2>1. CASE snapshotTruncated(sel) \/ ~(n >= Len(all)) BY <1>2, <2>1
  <2>2. CASE ~(snapshotTruncated(sel) \/ ~(n >= Len(all)))
    <3>1. answer.events = all BY <1>2, <2>2
    <3>2. LinesIn(answer) = {all[i].seq : i \in DOMAIN all}
      <4> HIDE DEF all
      <4> QED BY <3>1 DEF LinesIn
    <3>3. 0 \in Nat OBVIOUS
    <3> QED BY <1>1, <2>2, <3>2, <3>3, WholeViewDiscloses
  <2> QED BY <2>1, <2>2
<1>4. ASSUME NEW s \in sel, Lost(s) # {}
      PROVE  /\ s \in DOMAIN answer.dropped /\ answer.dropped[s].dropped >= Cardinality(Lost(s))
             /\ \A q \in Lost(s) : q <= answer.dropped[s].droppedBeforeCursor
             /\ \A q \in lines[s] : q >= answer.dropped[s].droppedBeforeCursor
  <2>1. StreamInv(s) BY <1>1
  <2> QED BY <1>1, <1>2, <1>4, <2>1, LossesAreNamed
<1>5. Discloses(answer, sel, 0) BY <1>3, <1>4 DEF Discloses
<1> QED BY <1>5 DEF answer, sel

(* What output answers when no limit is asked for.                          *)
LEMMA UnlimitedAnswer ==
  ASSUME BufferTypeOK, \A s \in Streams : StreamInv(s), NEW args,
         NEW sel \in SUBSET Streams, sel # {}, NEW after \in Nat,
         Selected(args.stream) = sel, ValueOf(args.cursor, 0) = after, args.count = Absent
  PROVE  /\ OutputAnswer(args).events = EventsAfter(sel, after)
         /\ OutputAnswer(args).next_cursor = HeadOf(sel)
<1> DEFINE view == EventsAfter(sel, after)
<1>1. ValueOf(args.count, Len(view)) = Len(view) BY DEF ValueOf
<1>2. view \in Seq(EventSet) BY ViewOfSome
<1> HIDE DEF view
<1>3. ~(Len(view) > Len(view)) BY <1>2
<1>4. EventsAfter(sel, after) = view BY DEF view
<1> QED BY <1>1, <1>3, <1>4 DEF OutputAnswer

(* A page and what output gives from its next_cursor on are, together, what *)
(* it gives without a limit.                                                *)
LEMMA PageAndRest ==
  ASSUME BufferTypeOK, \A s \in Streams : StreamInv(s), NEW args, Asks(args)
  PROVE  LET sel  == Selected(args.stream)
             view == EventsAfter(sel, ValueOf(args.cursor, 0))
             page == OutputAnswer(args)
         IN  /\ page.next_cursor \in Nat
             /\ page.events \o EventsAfter(sel, page.next_cursor) = view
<1> DEFINE sel == Selected(args.stream)
           after == ValueOf(args.cursor, 0)
           seqs == Events(sel, after)
           view == EventsAfter(sel, after)
           limit == ValueOf(args.count, Len(view))
           page == OutputAnswer(args)
<1>1. sel \in SUBSET Streams /\ sel # {} /\ after \in Nat BY DEF Asks
<1> HIDE DEF sel, after
<1>2. /\ view \in Seq(EventSet) /\ Len(view) = Len(seqs) /\ Len(view) \in Nat
      /\ \A i \in 1 .. Len(seqs) : view[i].seq = seqs[i]
  BY <1>1, ViewOfSome
<1>3. seqs \in Seq(Nat) BY <1>1, EventsOfSome
<1>4. CASE Len(view) > limit
  <2>1. args.count # Absent
    <3>1. ~(Len(view) > Len(view))
      <4> HIDE DEF view
      <4> QED BY <1>2
    <3> QED BY <1>4, <3>1 DEF ValueOf
  <2>2. limit \in Nat \ {0} BY <2>1 DEF Asks
  <2>3. page.events = SubSeq(view, 1, limit) /\ page.next_cursor = page.events[limit].seq
    BY <1>4 DEF OutputAnswer, sel, after
  <2> HIDE DEF limit, page, seqs, view
  <2>4. limit \in 1 .. Len(seqs) /\ limit < Len(seqs) /\ limit \in 1 .. limit BY <1>2, <1>4, <2>2
  <2>5. SubSeq(view, 1, limit)[limit] = view[limit] BY <1>2, <2>2, <2>4
  <2>6. page.next_cursor = seqs[limit] /\ seqs[limit] \in Nat BY <1>2, <1>3, <2>3, <2>4, <2>5
  <2>7. EventsAfter(sel, seqs[limit]) = SubSeq(view, limit + 1, Len(view))
    BY <1>1, <2>2, <2>4, ViewGoesOn DEF seqs, view
  <2>8. limit <= Len(view) BY <1>2, <2>4
  <2>9. SubSeq(view, 1, limit) \o SubSeq(view, limit + 1, Len(view)) = view
    BY <1>2, <2>2, <2>8, PartsOfSeq
  <2>10. page.events \o EventsAfter(sel, page.next_cursor) = view BY <2>3, <2>6, <2>7, <2>9
  <2> QED BY <2>6, <2>10 DEF page, view, sel, after
<1>5. CASE ~(Len(view) > limit)
  <2>1. page.events = view /\ page.next_cursor = HeadOf(sel)
    BY <1>5 DEF OutputAnswer, sel, after
  <2> HIDE DEF page, view
  <2>2. EventsAfter(sel, HeadOf(sel)) = <<>> /\ HeadOf(sel) \in Nat
    BY <1>1, NothingAfterHead, HeadOfSome
  <2>3. view \o <<>> = view BY <1>2
  <2>4. page.next_cursor \in Nat /\ page.events \o EventsAfter(sel, page.next_cursor) = view
    BY <2>1, <2>2, <2>3
  <2> QED BY <2>4 DEF page, view, sel, after
<1> QED BY <1>4, <1>5

(* The tail of a job's output is the end of it.                             *)
LEMMA TailIsEnd ==
  ASSUME BufferTypeOK, \A s \in Streams : StreamInv(s), NEW args, Asks(args)
  PROVE  /\ IsEndOf(TailAnswer(args).events, EventsAfter(Selected(args.stream), 0))
         /\ TailAnswer(args).next_cursor = HeadOf(Selected(args.stream))
<1> DEFINE sel == Selected(args.stream)
           n == ValueOf(args.count, DEFAULT_TAIL_LINES)
           all == EventsAfter(sel, 0)
           answer == TailAnswer(args)
<1>1. sel \in SUBSET Streams /\ sel # {} /\ n \in Nat \ {0}
  <2>1. CASE args.count = Absent BY <2>1, ViewsAssumption DEF Asks, ValueOf
  <2>2. CASE args.count # Absent BY <2>2 DEF Asks
  <2> QED BY <2>1, <2>2
<1>2. all \in Seq(EventSet) /\ Len(all) \in Nat
  <2>1. 0 \in Nat OBVIOUS
  <2> HIDE DEF sel
  <2>2. all \in Seq(EventSet) BY <1>1, <2>1, ViewOfSome
  <2> QED BY <2>2
<1>3. /\ answer.events = IF n >= Len(all) THEN all ELSE SubSeq(all, Len(all) - n + 1, Len(all))
      /\ answer.next_cursor = HeadOf(sel)
  BY DEF TailAnswer, TailView
<1> HIDE DEF n, all, answer, sel
<1>4. CASE n >= Len(all)
  <2>1. SubSeq(all, 0 + 1, Len(all)) = all
    <3>1. 0 \in Nat /\ 0 <= Len(all) BY <1>2
    <3> DEFINE b == SubSeq(all, 0 + 1, Len(all))
    <3>2. b \in Seq(EventSet) /\ Len(b) = Len(all) - 0 /\ \A i \in 1 .. Len(all) - 0 : b[i] = all[0 + i]
      BY <1>2, <3>1, TailOfSeq
    <3> HIDE DEF b
    <3>3. Len(b) = Len(all) /\ \A i \in 1 .. Len(b) : b[i] = all[i] BY <1>2, <3>2
    <3>4. b = all BY <1>2, <3>2, <3>3, SameElements
    <3> QED BY <3>4 DEF b
  <2>2. 0 \in 0 .. Len(all) /\ answer.events = SubSeq(all, 0 + 1, Len(all)) BY <1>2, <1>3, <1>4, <2>1
  <2>3. IsEndOf(answer.events, all) BY <2>2 DEF IsEndOf
  <2> QED BY <1>3, <2>3 DEF answer, all, sel
<1>5. CASE ~(n >= Len(all))
  <2>1. Len(all) - n \in 0 .. Len(all) BY <1>1, <1>2, <1>5
  <2>2. answer.events = SubSeq(all, Len(all) - n + 1, Len(all)) BY <1>3, <1>5
  <2>3. IsEndOf(answer.events, all) BY <2>1, <2>2 DEF IsEndOf
  <2> QED BY <1>3, <2>3 DEF answer, all, sel
<1> QED BY <1>4, <1>5

LEMMA ReadersAgree ==
  ASSUME BufferTypeOK, \A s \in Streams : StreamInv(s), NEW call \in Calls
  PROVE  OneStory(call)
<1> DEFINE sel       == Selected(call.stream)
           after     == ValueOf(call.cursor, 0)
           unlimited == [call EXCEPT !.count = Absent]
           from(v)   == [unlimited EXCEPT !.cursor = v]
           page      == OutputAnswer(call)
           tail      == TailAnswer(call)
           rest      == OutputAnswer(from(Whole(page.next_cursor)))
           follow    == FollowAnswer(call, 0, "output")
<1>1. Asks(call) /\ sel \in SUBSET Streams /\ sel # {} /\ after \in Nat BY CallsAsk DEF Asks
<1>2. /\ unlimited.stream = call.stream /\ unlimited.cursor = call.cursor
      /\ unlimited.count = Absent
      /\ \A v : from(v).stream = call.stream /\ from(v).cursor = v /\ from(v).count = Absent
  BY CallsAsk
<1>3. /\ page.next_cursor \in Nat
      /\ page.events \o EventsAfter(sel, page.next_cursor) = EventsAfter(sel, after)
  BY <1>1, PageAndRest
<1>4. IsEndOf(tail.events, EventsAfter(sel, 0)) /\ tail.next_cursor = HeadOf(sel)
  BY <1>1, TailIsEnd
<1>5. follow.events = EventsAfter(sel, after) /\ follow.next_cursor = HeadOf(sel)
  BY DEF FollowAnswer
<1>6. EventsAfter(sel, HeadOf(sel)) = <<>> /\ HeadOf(sel) \in Nat
  <2> HIDE DEF sel
  <2> QED BY <1>1, NothingAfterHead, HeadOfSome
<1> HIDE DEF unlimited, from
<1>7. OutputAnswer(unlimited).events = EventsAfter(sel, after)
  BY <1>1, <1>2, UnlimitedAnswer
<1>8. ASSUME NEW q \in Nat
      PROVE  /\ OutputAnswer(from(Whole(q))).events = EventsAfter(sel, q)
             /\ OutputAnswer(from(Whole(q))).next_cursor = HeadOf(sel)
  <2>1. ValueOf(from(Whole(q)).cursor, 0) = q BY <1>2, NumbersKeep
  <2>2. Selected(from(Whole(q)).stream) = sel BY <1>2
  <2>3. from(Whole(q)).count = Absent BY <1>2
  <2> HIDE DEF sel
  <2> QED BY <1>1, <2>1, <2>2, <2>3, UnlimitedAnswer
<1>9. OutputAnswer(from(Absent)).events = EventsAfter(sel, 0)
  <2>1. ValueOf(from(Absent).cursor, 0) = 0 BY <1>2 DEF ValueOf
  <2>2. Selected(from(Absent).stream) = sel /\ 0 \in Nat BY <1>2
  <2>3. from(Absent).count = Absent BY <1>2
  <2> HIDE DEF sel
  <2> QED BY <1>1, <2>1, <2>2, <2>3, UnlimitedAnswer
<1> HIDE DEF sel, after, page, tail, follow
<1>10. rest.events = EventsAfter(sel, page.next_cursor) /\ rest.next_cursor = HeadOf(sel)
  BY <1>3, <1>8
<1>11. /\ page.events \o rest.events = OutputAnswer(unlimited).events
       /\ IsEndOf(tail.events, OutputAnswer(from(Absent)).events)
       /\ OutputAnswer(from(Whole(tail.next_cursor))).events = <<>>
       /\ follow.events = OutputAnswer(unlimited).events
       /\ follow.next_cursor = rest.next_cursor
  BY <1>3, <1>4, <1>5, <1>6, <1>7, <1>8, <1>9, <1>10
<1> QED BY <1>11 DEF OneStory, unlimited, from, page, tail, follow

LEMMA AnswersAlwaysDisclose ==
  ASSUME BufferTypeOK, \A s \in Streams : StreamInv(s)
  PROVE  AnswersDisclose
<1> SUFFICES ASSUME NEW call \in Calls
             PROVE  /\ Discloses(OutputAnswer(call), Selected(call.stream), ValueOf(call.cursor, 0))
                    /\ Discloses(TailAnswer(call), Selected(call.stream), 0)
                    /\ OneStory(call)
  BY DEF AnswersDisclose
<1>1. Asks(call) BY CallsAsk
<1> QED BY <1>1, OutputDiscloses, TailDiscloses, ReadersAgree

(* A timeout that follow takes is at least a millisecond and no more than   *)
(* the ceiling.                                                             *)
LEMMA TimeoutIsBounded ==
  ASSUME NEW v, v = Absent \/ v.double \in Int, validateCount(v)
  PROVE  effectiveTimeout(v) \in 1 .. MAX_TIMEOUT_MS
<1> DEFINE ms == ValueOf(v, DEFAULT_TIMEOUT_MS)
<1>1. ms \in Nat \ {0}
  <2>1. CASE v = Absent BY <2>1, ViewsAssumption DEF ValueOf
  <2>2. CASE v # Absent
    <3>1. v.double \in Int /\ v.double % 2 = 0 /\ v.double > 0
      BY <2>2 DEF validateCount, IsInteger
    <3>2. v.double \div 2 \in Nat \ {0} BY <3>1
    <3> QED BY <2>2, <3>2 DEF ValueOf
  <2> QED BY <2>1, <2>2
<1>2. effectiveTimeout(v) = IF ms > MAX_TIMEOUT_MS THEN MAX_TIMEOUT_MS ELSE ms
  BY DEF effectiveTimeout
<1> HIDE DEF ms
<1>3. MAX_TIMEOUT_MS \in Nat \ {0} BY ViewsAssumption
<1>4. CASE ms > MAX_TIMEOUT_MS
  <2>1. effectiveTimeout(v) = MAX_TIMEOUT_MS BY <1>2, <1>4
  <2> QED BY <1>3, <2>1
<1>5. CASE ~(ms > MAX_TIMEOUT_MS)
  <2>1. effectiveTimeout(v) = ms BY <1>2, <1>5
  <2> QED BY <1>1, <1>3, <1>5, <2>1
<1> QED BY <1>4, <1>5

(* The validators take nothing that the schemas refuse.                     *)
LEMMA SchemasAreAlwaysWider == SchemasAreWider
<1> SUFFICES ASSUME NEW call \in OddCalls
             PROVE  /\ outputTakes(call) => outputSchema(call)
                    /\ tailTakes(call) => tailSchema(call)
                    /\ followTakes(call) =>
                         followSchema(call) /\ effectiveTimeout(call.count) \in 1 .. MAX_TIMEOUT_MS
                    /\ killTakes(call) => killSchema(call)
  BY DEF SchemasAreWider
<1>1. /\ \A v : validateStream(v) => OptionalStream(v)
      /\ \A v : validateCursor(v) => OptionalNumber(v)
      /\ \A v : validateCount(v) => OptionalNumber(v)
  BY DEF validateStream, OptionalStream, validateCursor, OptionalNumber, validateCount, IsInteger
<1>2. outputTakes(call) => outputSchema(call) BY <1>1 DEF outputTakes, outputSchema
<1>3. tailTakes(call) => tailSchema(call) BY <1>1 DEF tailTakes, tailSchema
<1>4. killTakes(call) => killSchema(call) BY DEF killTakes, killSchema
<1>5. ASSUME followTakes(call)
      PROVE  followSchema(call) /\ effectiveTimeout(call.count) \in 1 .. MAX_TIMEOUT_MS
  <2>1. followSchema(call) BY <1>1, <1>5 DEF followTakes, followSchema
  <2>2. validateCount(call.count) BY <1>5 DEF followTakes
  <2>3. call.count = Absent \/ (IsNumber(call.count) /\ call.count \in Odd)
    <3>1. call.count \in Odd
      <4>1. PICK f \in DOMAIN Bare : call \in {[Bare EXCEPT ![f] = v] : v \in Odd} BY DEF OddCalls
      <4>2. PICK v \in Odd : call = [Bare EXCEPT ![f] = v] BY <4>1
      <4>3. Bare.count = Absent /\ Absent \in Odd BY DEF Bare, Odd
      <4>4. CASE f = "count"
        <5>1. call.count = v BY <4>2, <4>4 DEF Bare
        <5> QED BY <5>1
      <4>5. CASE f # "count"
        <5>1. call.count = Absent BY <4>2, <4>5 DEF Bare
        <5> QED BY <4>3, <5>1
      <4> QED BY <4>4, <4>5
    <3>2. call.count = Absent \/ IsNumber(call.count) BY <2>2 DEF validateCount, IsInteger
    <3> QED BY <3>1, <3>2
  <2>4. call.count = Absent \/ call.count.double \in Int
    <3>1. SUFFICES ASSUME IsNumber(call.count), call.count \in Odd PROVE call.count.double \in Int
      BY <2>3
    <3>2. \A s : Text(s).type # "number" BY DEF Text
    <3>3. Absent.type # "number" BY DEF Absent
    <3>4. \A n \in Int : Double(n).double = n BY DEF Double
    <3>5. PICK n \in Int : call.count = Double(n)
      <4>1. MAX_TIMEOUT_MS \in Nat BY ViewsAssumption
      <4>2. /\ -2 \in Int /\ 0 \in Int /\ 1 \in Int /\ 2 * 1 \in Int
            /\ 2 * (MAX_TIMEOUT_MS + 1) \in Int
        BY <4>1
      <4> QED BY <3>1, <3>2, <3>3, <4>2 DEF Odd, IsNumber, Whole
    <3> QED BY <3>4, <3>5
  <2>5. effectiveTimeout(call.count) \in 1 .. MAX_TIMEOUT_MS BY <2>2, <2>4, TimeoutIsBounded
  <2> QED BY <2>1, <2>5
<1> QED BY <1>2, <1>3, <1>4, <1>5

(* Of a job that single calls look at, the streams are those that a client  *)
(* pages through, so all that holds of the one holds of the other.          *)
THEOREM CallsReadTheStreams == OutputSpec => Spec
<1>1. OutputInit => Init BY DEF OutputInit, ViewsInit
<1>2. [OutputNext]_outputVars => [Next]_vars
  <2> SUFFICES ASSUME [OutputNext]_outputVars PROVE [Next]_vars OBVIOUS
  <2>1. ASSUME NEW s \in Streams, NEW n \in 0 .. 2,
               \/ InPages(AppendChunk(s, n)) \/ InPages(FinalizeStream(s, n))
               \/ InCalls(ChunkArrives(s, n)) \/ InCalls(StreamEnds(s, n))
        PROVE  Next
    <3>1. AppendChunk(s, n) \/ FinalizeStream(s, n)
      BY <2>1 DEF InPages, InCalls, ChunkArrives, StreamEnds
    <3> QED BY <3>1 DEF Next
  <2>2. ASSUME InPages(EvictAllLines) \/ InCalls(EvictAllLines /\ UNCHANGED terminator) PROVE Next
    BY <2>2 DEF InPages, InCalls, Next
  <2>3. ASSUME NEW s \in Streams,
               InPages(LateChunk(s)) \/ InCalls(LateChunk(s) /\ UNCHANGED terminator)
        PROVE  Next
    BY <2>3 DEF InPages, InCalls, Next
  <2>4. ASSUME NEW r \in Readers, NEW n \in Limits,
               InPages(ReadOutput(r, n)) \/ InPages(ReadTail(r, n))
        PROVE  Next
    BY <2>4 DEF InPages, Next
  <2>5. CASE UNCHANGED outputVars BY <2>5 DEF outputVars, viewVars
  <2> QED BY <2>1, <2>2, <2>3, <2>4, <2>5 DEF OutputNext
<1> QED BY <1>1, <1>2, PTL DEF OutputSpec, Spec

(* What output, tail and follow answer can be relied on at any moment of a  *)
(* job's streams and for any of the arguments: no loss is silent, the tools *)
(* agree with each other, a page and its next_cursor lose no line between   *)
(* them, and no arguments are taken that the advertised schema refuses.     *)
THEOREM CallsStayHonest == OutputSpec => []CallsAreHonest
<1>1. IInv => CallsAreHonest
  <2> SUFFICES ASSUME IInv PROVE CallsAreHonest OBVIOUS
  <2>1. BufferTypeOK /\ \A s \in Streams : StreamInv(s) BY DEF IInv
  <2>2. AnswersDisclose BY <2>1, AnswersAlwaysDisclose
  <2> QED BY <2>2, SchemasAreAlwaysWider DEF CallsAreHonest, AnswersAreHonest
<1> QED BY <1>1, CallsReadTheStreams, Invariance, PTL

=============================================================================
