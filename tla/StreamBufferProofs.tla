------------------------- MODULE StreamBufferProofs -------------------------
(***************************************************************************)
(* For every set of bytes, every input and all limits: the lines made of a  *)
(* stream are those of the same bytes arriving one at a time, a forced cut  *)
(* does not fall inside a character, what is resident fits the buffer, and  *)
(* each loss is counted and disclosed.                                      *)
(*                                                                          *)
(* A call's result is a recursive function of the bytes.  Its values are    *)
(* had by induction, which rests here on the order of the naturals being    *)
(* well founded (Induction, RecursionExists).  From there: what a segment   *)
(* is, what a call makes of the working buffer (NewLines, StillPending),    *)
(* what eviction leaves of it, and, byte by byte along the buffer, that the *)
(* reference reading stays in step (ByteTaken).                             *)
(***************************************************************************)
EXTENDS StreamBuffer, SequenceTheorems, WellFoundedInduction, TLAPS

-----------------------------------------------------------------------------
(* Induction.                                                               *)

LessOnNat == {ss \in Nat \X Nat : ss[1] < ss[2]}

LEMMA NatIsWellFounded == IsWellFoundedOn(LessOnNat, Nat)
BY NatLessThanWellFounded DEF OpToRel, LessOnNat

LEMMA LeastExists ==
  ASSUME NEW S, S \subseteq Nat, S # {}
  PROVE  \E n \in S : \A m \in S : n <= m
<1>1. PICK n \in S : \A m \in S : ~(<<m, n>> \in LessOnNat)
  BY NatIsWellFounded, WFMin
<1>2. ASSUME NEW m \in S PROVE n <= m
  <2>1. ~(<<m, n>> \in LessOnNat) BY <1>1
  <2> QED BY <2>1 DEF LessOnNat
<1> QED BY <1>2

LEMMA LeastIs ==
  ASSUME NEW S, S \subseteq Nat, S # {}
  PROVE  Least(S) \in S /\ \A m \in S : Least(S) <= m
BY LeastExists DEF Least

LEMMA Induction ==
  ASSUME NEW S, 0 \in S, \A n \in Nat : n \in S => n + 1 \in S
  PROVE  \A n \in Nat : n \in S
<1> SUFFICES ASSUME Nat \ S # {} PROVE FALSE OBVIOUS
<1>1. PICK n \in Nat \ S : \A m \in Nat \ S : n <= m BY LeastExists
<1>2. n # 0 /\ n - 1 \in Nat BY <1>1
<1>3. n - 1 \in S BY <1>1, <1>2
<1>4. (n - 1) + 1 \in S BY <1>2, <1>3
<1> QED BY <1>1, <1>4

(* A function is given by its first value and by how each follows from the  *)
(* one before: there is one such, and it has values where the steps stay.   *)
Recursion(f, n, S, f0, G) ==
  /\ f \in [0 .. n -> S]
  /\ f[0] = f0 /\ \A i \in 1 .. n : f[i] = G[<<f[i - 1], i>>]

LEMMA RecursionExists ==
  ASSUME NEW n \in Nat, NEW S, NEW f0 \in S, NEW G, G \in [S \X (1 .. n) -> S]
  PROVE  \E f : Recursion(f, n, S, f0, G)
<1> DEFINE Upto(f, k) == f[0] = f0 /\ \A i \in 1 .. k : f[i] = G[<<f[i - 1], i>>]
           T == {k \in Nat : k <= n => \E f \in [0 .. k -> S] : Upto(f, k)}
<1>1. 0 \in T
  <2>1. [i \in 0 .. 0 |-> f0] \in [0 .. 0 -> S] OBVIOUS
  <2>2. Upto([i \in 0 .. 0 |-> f0], 0) OBVIOUS
  <2> QED BY <2>1, <2>2
<1>2. ASSUME NEW k \in Nat, k \in T, k + 1 <= n PROVE \E f \in [0 .. k + 1 -> S] : Upto(f, k + 1)
  <2>1. PICK f \in [0 .. k -> S] : Upto(f, k) BY <1>2
  <2>2. f[k] \in S BY <2>1
  <2>3. k + 1 \in 1 .. n BY <1>2
  <2>4. G[<<f[k], k + 1>>] \in S BY <2>2, <2>3
  <2> DEFINE g == [i \in 0 .. k + 1 |-> IF i = k + 1 THEN G[<<f[k], k + 1>>] ELSE f[i]]
  <2>5. \A i \in 0 .. k : f[i] \in S BY <2>1
  <2>6. g \in [0 .. k + 1 -> S] BY <2>4, <2>5
  <2>7. g[0] = f0 BY <2>1
  <2>8. \A i \in 0 .. k : g[i] = f[i] OBVIOUS
  <2>9. g[k + 1] = G[<<f[k], k + 1>>] OBVIOUS
  <2> HIDE DEF g
  <2>10. ASSUME NEW i \in 1 .. k + 1 PROVE g[i] = G[<<g[i - 1], i>>]
    <3>1. CASE i = k + 1
      <4>1. i - 1 = k /\ k \in 0 .. k BY <3>1
      <4> QED BY <2>8, <2>9, <3>1, <4>1
    <3>2. CASE i # k + 1
      <4>1. i \in 1 .. k /\ i \in 0 .. k /\ i - 1 \in 0 .. k BY <3>2
      <4> QED BY <2>1, <2>8, <4>1
    <3> QED BY <3>1, <3>2
  <2> QED BY <2>6, <2>7, <2>10
<1>3. \A k \in Nat : k \in T => k + 1 \in T
  <2> SUFFICES ASSUME NEW k \in Nat, k \in T PROVE k + 1 \in T OBVIOUS
  <2> QED BY <1>2
<1> HIDE DEF T
<1>4. n \in T BY <1>1, <1>3, Induction
<1> QED BY <1>4 DEF T, Recursion

-----------------------------------------------------------------------------
(* Sizes.                                                                   *)

Line == [bytes : Seq(Bytes), terminator : {"newline", "oversized-split", "stream-end"}]

(* Sums of the first numbers of a list of them, given by any function.      *)
Sums(f, n, s) == f = [i \in 0 .. n |-> IF i = 0 THEN 0 ELSE f[i - 1] + s[i]]

LEMMA SumsExist ==
  ASSUME NEW n \in Nat, NEW s \in [1 .. n -> Nat]
  PROVE  \E f \in [0 .. n -> Nat] : Sums(f, n, s)
<1> DEFINE G == [p \in Nat \X (1 .. n) |-> p[1] + s[p[2]]]
<1>1. G \in [Nat \X (1 .. n) -> Nat] OBVIOUS
<1>2. PICK f : Recursion(f, n, Nat, 0, G)
  <2> HIDE DEF G
  <2>1. 0 \in Nat OBVIOUS
  <2> QED BY <1>1, <2>1, RecursionExists
<1>3. ASSUME NEW i \in 1 .. n PROVE f[i] = f[i - 1] + s[i]
  <2>1. i - 1 \in 0 .. n OBVIOUS
  <2>2. <<f[i - 1], i>> \in Nat \X (1 .. n) BY <1>2, <2>1 DEF Recursion
  <2> QED BY <1>2, <2>2 DEF Recursion
<1>4. Sums(f, n, s) BY <1>2, <1>3 DEF Sums, Recursion
<1> QED BY <1>2, <1>4 DEF Recursion

LEMMA SumsStep ==
  ASSUME NEW n \in Nat, NEW s \in [1 .. n -> Nat], NEW f, Sums(f, n, s)
  PROVE  /\ f[0] = 0 /\ \A i \in 1 .. n : f[i] = f[i - 1] + s[i]
         /\ f \in [0 .. n -> Nat]
<1>1. f[0] = 0 /\ \A i \in 1 .. n : f[i] = f[i - 1] + s[i] BY DEF Sums
<1> DEFINE T == {i \in Nat : i <= n => f[i] \in Nat}
<1>2. 0 \in T BY <1>1
<1>3. \A i \in Nat : i \in T => i + 1 \in T
  <2> SUFFICES ASSUME NEW i \in Nat, i \in T, i + 1 <= n PROVE f[i + 1] \in Nat OBVIOUS
  <2>1. i + 1 \in 1 .. n /\ (i + 1) - 1 = i OBVIOUS
  <2>2. f[i + 1] = f[i] + s[i + 1] BY <1>1, <2>1
  <2>3. f[i] \in Nat /\ s[i + 1] \in Nat BY <2>1
  <2> QED BY <2>2, <2>3
<1>4. \A i \in Nat : i \in T
  <2> HIDE DEF T
  <2> QED BY <1>2, <1>3, Induction
<1>5. \A i \in 0 .. n : f[i] \in Nat BY <1>4
<1>6. f = [i \in 0 .. n |-> f[i]] BY DEF Sums
<1> QED BY <1>1, <1>5, <1>6

LEMMA LineSizeIsNat ==
  ASSUME NEW line \in Line
  PROVE  LineSize(line) \in Nat
<1> DEFINE n == Len(line.bytes)
           b == line.bytes
<1>1. n \in Nat /\ b \in Seq(Bytes) BY DEF Line
<1> DEFINE s == [i \in 1 .. n |-> DecodedSize(b, i)]
<1>2. s \in [1 .. n -> Nat]
  <2> SUFFICES ASSUME NEW i \in 1 .. n PROVE DecodedSize(b, i) \in Nat OBVIOUS
  <2> HIDE DEF b
  <2> QED BY DEF DecodedSize
<1> DEFINE Adds(f) == f = [i \in 0 .. n |-> IF i = 0 THEN 0 ELSE f[i - 1] + DecodedSize(b, i)]
           upTo    == CHOOSE f : Adds(f)
<1>3. ASSUME NEW f PROVE Sums(f, n, s) <=> Adds(f)
  <2>1. \A i \in 0 .. n : (IF i = 0 THEN 0 ELSE f[i - 1] + s[i])
                            = IF i = 0 THEN 0 ELSE f[i - 1] + DecodedSize(b, i)
    BY <1>1
  <2> HIDE DEF b, n, s
  <2> QED BY <2>1 DEF Sums
<1>4. Adds(upTo)
  <2>1. \E f : Adds(f)
    <3> HIDE DEF s, n, Adds
    <3> QED BY <1>1, <1>2, <1>3, SumsExist
  <2> QED BY <2>1
<1>5. upTo[n] \in Nat
  <2> HIDE DEF s, n, Adds, upTo
  <2>1. upTo \in [0 .. n -> Nat] BY <1>1, <1>2, <1>3, <1>4, SumsStep
  <2> QED BY <1>1, <2>1
<1>6. LineSize(line) = upTo[n] + IF line.terminator = "oversized-split" THEN MarkerBytes ELSE 0
  BY DEF LineSize
<1> HIDE DEF upTo, n
<1> QED BY <1>5, <1>6, LimitsAssumption

(* What TotalBytes adds up.                                                 *)
LEMMA TotalBytesIs ==
  ASSUME NEW ls \in Seq(Line)
  PROVE  /\ TotalBytes(ls) \in Nat
         /\ ls = <<>> => TotalBytes(ls) = 0
         /\ Len(ls) = 1 => TotalBytes(ls) = LineSize(ls[1])
         /\ ls # <<>> => TotalBytes(ls) >= LineSize(ls[Len(ls)])
<1> DEFINE n == Len(ls)
           s == [i \in 1 .. n |-> LineSize(ls[i])]
<1>1. n \in Nat OBVIOUS
<1>2. s \in [1 .. n -> Nat]
  <2> SUFFICES ASSUME NEW i \in 1 .. n PROVE LineSize(ls[i]) \in Nat OBVIOUS
  <2>1. ls[i] \in Line OBVIOUS
  <2> QED BY <2>1, LineSizeIsNat
<1> DEFINE Adds(f) == f = [i \in 0 .. n |-> IF i = 0 THEN 0 ELSE f[i - 1] + LineSize(ls[i])]
           upTo    == CHOOSE f : Adds(f)
<1>3. ASSUME NEW f PROVE Sums(f, n, s) <=> Adds(f)
  <2>1. \A i \in 0 .. n : (IF i = 0 THEN 0 ELSE f[i - 1] + s[i])
                            = IF i = 0 THEN 0 ELSE f[i - 1] + LineSize(ls[i])
    BY <1>1
  <2> HIDE DEF n, s
  <2> QED BY <2>1 DEF Sums
<1>4. Adds(upTo)
  <2>1. \E f : Adds(f)
    <3> HIDE DEF s, n, Adds
    <3> QED BY <1>1, <1>2, <1>3, SumsExist
  <2> QED BY <2>1
<1>5. /\ upTo[0] = 0 /\ \A i \in 1 .. n : upTo[i] = upTo[i - 1] + s[i]
      /\ upTo \in [0 .. n -> Nat]
  <2> HIDE DEF s, n, Adds, upTo
  <2> QED BY <1>1, <1>2, <1>3, <1>4, SumsStep
<1>6. TotalBytes(ls) = upTo[n] BY DEF TotalBytes
<1> HIDE DEF upTo
<1>7. TotalBytes(ls) \in Nat BY <1>1, <1>5, <1>6
<1>8. ls = <<>> => n = 0 OBVIOUS
<1>9. ASSUME n # 0
      PROVE  /\ upTo[n] = upTo[n - 1] + LineSize(ls[n]) /\ upTo[n - 1] \in Nat
             /\ LineSize(ls[n]) \in Nat
  <2>1. n \in 1 .. n /\ n - 1 \in 0 .. n BY <1>1, <1>9
  <2>2. s[n] = LineSize(ls[n]) /\ s[n] \in Nat BY <1>2, <2>1
  <2> QED BY <1>5, <2>1, <2>2
<1>10. ls # <<>> => n # 0 OBVIOUS
<1> HIDE DEF n
<1> QED BY <1>5, <1>6, <1>7, <1>8, <1>9, <1>10 DEF n

-----------------------------------------------------------------------------
(* Parts of a sequence.                                                     *)

(* What is left after the first d elements.                                 *)
LEMMA Rest ==
  ASSUME NEW T, NEW a \in Seq(T), NEW d \in 0 .. Len(a)
  PROVE  /\ SubSeq(a, d + 1, Len(a)) \in Seq(T)
         /\ Len(SubSeq(a, d + 1, Len(a))) = Len(a) - d
         /\ \A i \in 1 .. Len(a) - d : SubSeq(a, d + 1, Len(a))[i] = a[d + i]
<1> DEFINE m == d + 1
<1>1. /\ m \in 1 .. Len(a) + 1 /\ Len(a) \in m - 1 .. Len(a) /\ Len(a) - m + 1 = Len(a) - d
      /\ \A i \in 1 .. Len(a) - d : m + i - 1 = d + i
  OBVIOUS
<1> HIDE DEF m
<1>2. /\ SubSeq(a, m, Len(a)) \in Seq(T) /\ Len(SubSeq(a, m, Len(a))) = Len(a) - m + 1
      /\ \A i \in 1 .. Len(a) - m + 1 : SubSeq(a, m, Len(a))[i] = a[m + i - 1]
  BY <1>1, SubSeqProperties
<1>3. /\ SubSeq(a, m, Len(a)) \in Seq(T) /\ Len(SubSeq(a, m, Len(a))) = Len(a) - d
      /\ \A i \in 1 .. Len(a) - d : SubSeq(a, m, Len(a))[i] = a[d + i]
  BY <1>1, <1>2
<1> QED BY <1>3 DEF m

(* The elements after the first d up to the n-th.                           *)
LEMMA Part ==
  ASSUME NEW T, NEW a \in Seq(T), NEW d \in 0 .. Len(a), NEW n \in d .. Len(a)
  PROVE  /\ SubSeq(a, d + 1, n) \in Seq(T)
         /\ Len(SubSeq(a, d + 1, n)) = n - d
         /\ \A i \in 1 .. n - d : SubSeq(a, d + 1, n)[i] = a[d + i]
<1> DEFINE m == d + 1
<1>1. /\ m \in 1 .. Len(a) + 1 /\ n \in m - 1 .. Len(a) /\ n - m + 1 = n - d
      /\ \A i \in 1 .. n - d : m + i - 1 = d + i
  OBVIOUS
<1> HIDE DEF m
<1>2. /\ SubSeq(a, m, n) \in Seq(T) /\ Len(SubSeq(a, m, n)) = n - m + 1
      /\ \A i \in 1 .. n - m + 1 : SubSeq(a, m, n)[i] = a[m + i - 1]
  BY <1>1, SubSeqProperties
<1>3. /\ SubSeq(a, m, n) \in Seq(T) /\ Len(SubSeq(a, m, n)) = n - d
      /\ \A i \in 1 .. n - d : SubSeq(a, m, n)[i] = a[d + i]
  BY <1>1, <1>2
<1> QED BY <1>3 DEF m

LEMMA SameElements ==
  ASSUME NEW T, NEW a \in Seq(T), NEW b \in Seq(T), Len(a) = Len(b),
         \A i \in 1 .. Len(a) : a[i] = b[i]
  PROVE  a = b
OBVIOUS

(* A sequence after another, element by element.                            *)
LEMMA Joined ==
  ASSUME NEW T, NEW a \in Seq(T), NEW b \in Seq(T)
  PROVE  /\ a \o b \in Seq(T) /\ Len(a \o b) = Len(a) + Len(b)
         /\ \A i \in 1 .. Len(a) : (a \o b)[i] = a[i]
         /\ \A i \in 1 .. Len(b) : (a \o b)[Len(a) + i] = b[i]
<1>1. Len(a) \in Nat /\ Len(b) \in Nat OBVIOUS
<1>2. /\ a \o b \in Seq(T) /\ Len(a \o b) = Len(a) + Len(b)
      /\ \A i \in 1 .. Len(a) + Len(b) :
           (a \o b)[i] = IF i <= Len(a) THEN a[i] ELSE b[i - Len(a)]
  BY ConcatProperties
<1>3. ASSUME NEW i \in 1 .. Len(b) PROVE (a \o b)[Len(a) + i] = b[i]
  <2>1. Len(a) + i \in 1 .. Len(a) + Len(b) /\ ~(Len(a) + i <= Len(a)) /\ (Len(a) + i) - Len(a) = i
    BY <1>1
  <2> QED BY <1>2, <2>1
<1>4. ASSUME NEW i \in 1 .. Len(a) PROVE (a \o b)[i] = a[i]
  <2>1. i \in 1 .. Len(a) + Len(b) BY <1>1
  <2> QED BY <1>2, <2>1
<1> QED BY <1>2, <1>3, <1>4

-----------------------------------------------------------------------------
(* Where a segment ends.                                                    *)

LEMMA LineFound ==
  ASSUME NEW w \in Seq(Bytes), NEW p \in 0 .. Len(w), HasLine(w, p)
  PROVE  LET e == Least(Newlines(w, p))
         IN  /\ e \in p + 1 .. Len(w) /\ e <= p + MaxLineBytes + 1
             /\ w[e] = "nl" /\ \A i \in p + 1 .. e - 1 : w[i] # "nl"
<1> DEFINE S == Newlines(w, p)
           e == Least(S)
<1>1. S \subseteq Nat /\ S # {} BY DEF Newlines, HasLine, NewlineWithin
<1>2. e \in S /\ \A m \in S : e <= m
  <2> HIDE DEF S
  <2> QED BY <1>1, LeastIs
<1>3. e - p - 1 <= MaxLineBytes BY DEF HasLine, NewlineWithin
<1>4. e \in p + 1 .. Len(w) /\ w[e] = "nl" BY <1>2 DEF Newlines
<1>5. ASSUME NEW i \in p + 1 .. e - 1 PROVE w[i] # "nl"
  <2>1. i \notin S BY <1>2, <1>4
  <2> QED BY <1>4, <2>1 DEF Newlines
<1> HIDE DEF e
<1>6. e <= p + MaxLineBytes + 1 BY <1>3, <1>4, LimitsAssumption
<1> QED BY <1>4, <1>5, <1>6 DEF e

LEMMA NoLineFound ==
  ASSUME NEW w \in Seq(Bytes), NEW p \in 0 .. Len(w), ~HasLine(w, p)
  PROVE  \A i \in p + 1 .. Len(w) : i <= p + MaxLineBytes + 1 => w[i] # "nl"
<1> SUFFICES ASSUME NEW i \in p + 1 .. Len(w), i <= p + MaxLineBytes + 1, w[i] = "nl" PROVE FALSE
  OBVIOUS
<1> DEFINE S == Newlines(w, p)
           e == Least(S)
<1>1. i \in S /\ S \subseteq Nat BY DEF Newlines
<1>2. e \in S /\ e <= i
  <2> HIDE DEF S
  <2> QED BY <1>1, LeastIs
<1>3. e \in Nat BY <1>1, <1>2
<1>4. e - p - 1 <= MaxLineBytes
  <2> HIDE DEF e
  <2> QED BY <1>2, <1>3, LimitsAssumption
<1> QED BY <1>1, <1>4 DEF HasLine, NewlineWithin

(* The forced cut leaves a first byte that does not continue a character,   *)
(* or only one in a stream with two continuing bytes in a row.              *)
LEMMA CutFound ==
  ASSUME NEW w \in Seq(Bytes), NEW p \in 0 .. Len(w), Len(w) - p > MaxLineBytes
  PROVE  LET c == SafeCut(w, p)
         IN  /\ c \in 1 .. MaxLineBytes
             /\ \/ w[p + c + 1] # "cont"
                \/ c + 2 <= MaxLineBytes + 1 /\ w[p + c + 2] = "cont"
<1> DEFINE S == {c \in MaxLineBytes - MaxUtf8Backtrack .. MaxLineBytes :
                   \A d \in c + 1 .. MaxLineBytes : w[p + d + 1] = "cont"}
           c == Least(S)
<1>1. MaxLineBytes \in S BY LimitsAssumption
<1>2. S \subseteq Nat BY LimitsAssumption
<1>3. c \in S /\ \A m \in S : c <= m
  <2> HIDE DEF S
  <2> QED BY <1>1, <1>2, LeastIs
<1>4. c \in 1 .. MaxLineBytes BY <1>3, LimitsAssumption
<1>5. CASE c = MaxLineBytes - MaxUtf8Backtrack
  <2>1. c + 1 \in c + 1 .. MaxLineBytes BY <1>4, <1>5, LimitsAssumption
  <2>2. w[p + (c + 1) + 1] = "cont" BY <1>3, <2>1
  <2>3. p + (c + 1) + 1 = p + c + 2 BY <1>4
  <2>4. c + 2 <= MaxLineBytes + 1
    <3> HIDE DEF c
    <3> QED BY <1>4, <1>5, LimitsAssumption
  <2> QED BY <1>4, <2>2, <2>3, <2>4 DEF SafeCut
<1>6. CASE c # MaxLineBytes - MaxUtf8Backtrack
  <2>1. c - 1 \in MaxLineBytes - MaxUtf8Backtrack .. MaxLineBytes BY <1>3, <1>6, LimitsAssumption
  <2>2. c - 1 \notin S BY <1>3, <2>1
  <2>3. PICK d \in (c - 1) + 1 .. MaxLineBytes : w[p + d + 1] # "cont" BY <2>1, <2>2
  <2>4. \A k \in c + 1 .. MaxLineBytes : w[p + k + 1] = "cont" BY <1>3
  <2> HIDE DEF c
  <2>5. d = c BY <1>4, <2>3, <2>4, LimitsAssumption
  <2> QED BY <1>4, <2>3, <2>5 DEF SafeCut, c
<1> QED BY <1>5, <1>6

LEMMA NextOffsetIs ==
  ASSUME NEW w \in Seq(Bytes), NEW p \in 0 .. Len(w)
  PROVE  /\ NextOffset(w, p) \in p .. Len(w)
         /\ HasLine(w, p) => NextOffset(w, p) = Least(Newlines(w, p))
         /\ MustCut(w, p) => NextOffset(w, p) = p + SafeCut(w, p)
         /\ HasLine(w, p) \/ MustCut(w, p) => NextOffset(w, p) > p
         /\ ~HasLine(w, p) /\ ~MustCut(w, p) => NextOffset(w, p) = p
<1> DEFINE e == NextOffset(w, p)
<1>1. CASE HasLine(w, p)
  <2>1. ~MustCut(w, p) BY <1>1 DEF MustCut
  <2>2. e = Least(Newlines(w, p)) BY <1>1, <2>1 DEF NextOffset
  <2> HIDE DEF e
  <2>3. e \in p + 1 .. Len(w) BY <1>1, <2>2, LineFound
  <2> QED BY <1>1, <2>1, <2>2, <2>3 DEF e
<1>2. CASE MustCut(w, p)
  <2>1. ~HasLine(w, p) /\ Len(w) - p > MaxLineBytes BY <1>2 DEF MustCut
  <2>2. e = p + SafeCut(w, p) BY <1>2, <2>1 DEF NextOffset
  <2>3. SafeCut(w, p) \in 1 .. MaxLineBytes BY <2>1, CutFound
  <2> HIDE DEF e
  <2>4. e \in p + 1 .. Len(w) BY <2>1, <2>2, <2>3, LimitsAssumption
  <2> QED BY <1>2, <2>1, <2>2, <2>4 DEF e
<1>3. CASE ~HasLine(w, p) /\ ~MustCut(w, p)
  <2>1. e = p BY <1>3 DEF NextOffset
  <2> QED BY <1>3, <2>1
<1> QED BY <1>1, <1>2, <1>3

-----------------------------------------------------------------------------
(* The segments of a working buffer.                                        *)

LEMMA OffsetIs ==
  ASSUME NEW w \in Seq(Bytes)
  PROVE  /\ Offset(w) \in [0 .. Len(w) -> 0 .. Len(w)]
         /\ Offset(w)[0] = 0
         /\ \A k \in 1 .. Len(w) : Offset(w)[k] = NextOffset(w, Offset(w)[k - 1])
<1> DEFINE n == Len(w)
           S == 0 .. n
           G == [q \in S \X (1 .. n) |-> NextOffset(w, q[1])]
           Follows(f) == f = [k \in 0 .. n |-> IF k = 0 THEN 0 ELSE NextOffset(w, f[k - 1])]
           after == CHOOSE f : Follows(f)
<1>1. n \in Nat /\ 0 \in S OBVIOUS
<1>2. \A p \in S : NextOffset(w, p) \in S
  <2> SUFFICES ASSUME NEW p \in S PROVE NextOffset(w, p) \in S OBVIOUS
  <2>1. NextOffset(w, p) \in p .. n BY NextOffsetIs
  <2> QED BY <1>1, <2>1
<1>3. G \in [S \X (1 .. n) -> S]
  <2> HIDE DEF S, n
  <2> QED BY <1>2
<1>4. PICK f : Recursion(f, n, S, 0, G)
  <2> HIDE DEF n, S, G
  <2> QED BY <1>1, <1>3, RecursionExists
<1>5. ASSUME NEW k \in 1 .. n PROVE f[k] = NextOffset(w, f[k - 1])
  <2>1. k - 1 \in 0 .. n /\ f \in [0 .. n -> S] BY <1>1, <1>4 DEF Recursion
  <2>2. f[k - 1] \in S
    <3> HIDE DEF n, S
    <3> QED BY <2>1
  <2>3. <<f[k - 1], k>> \in S \X (1 .. n) BY <2>2
  <2>4. f[k] = G[<<f[k - 1], k>>] BY <1>4 DEF Recursion
  <2> HIDE DEF n, S
  <2> QED BY <2>3, <2>4
<1>6. Follows(f)
  <2> HIDE DEF n, S
  <2> QED BY <1>4, <1>5 DEF Recursion
<1>7. Follows(after) BY <1>6
<1>8. Offset(w) = after BY DEF Offset
<1> HIDE DEF after
<1>9. after[0] = 0 /\ \A k \in 1 .. n : after[k] = NextOffset(w, after[k - 1]) BY <1>1, <1>7
<1> DEFINE T == {k \in Nat : k <= n => after[k] \in S}
<1>10. 0 \in T BY <1>9
<1>11. ASSUME NEW k \in Nat, k \in T, k + 1 <= n PROVE after[k + 1] \in S
  <2>1. k + 1 \in 1 .. n /\ (k + 1) - 1 = k BY <1>1, <1>11
  <2>2. after[k + 1] = NextOffset(w, after[k]) BY <1>9, <2>1
  <2>3. after[k] \in S BY <1>1, <1>11
  <2> HIDE DEF S, n
  <2> QED BY <1>2, <2>2, <2>3
<1>12. \A k \in Nat : k \in T => k + 1 \in T
  <2> SUFFICES ASSUME NEW k \in Nat, k \in T PROVE k + 1 \in T OBVIOUS
  <2> QED BY <1>11
<1>13. \A k \in Nat : k \in T
  <2> HIDE DEF T
  <2> QED BY <1>10, <1>12, Induction
<1>14. \A k \in 0 .. n : after[k] \in S BY <1>13
<1>15. after \in [0 .. n -> S]
  <2>1. after = [k \in 0 .. n |-> after[k]] BY <1>7
  <2> HIDE DEF n, S, Follows
  <2> QED BY <1>14, <2>1
<1> QED BY <1>8, <1>9, <1>15

LEMMA SegmentsIs ==
  ASSUME NEW w \in Seq(Bytes)
  PROVE  LET off == Offset(w)
             n   == Segments(w, off)
         IN  /\ n \in 0 .. Len(w)
             /\ NextOffset(w, off[n]) = off[n]
             /\ \A k \in 0 .. n - 1 : NextOffset(w, off[k]) # off[k]
<1> DEFINE off == Offset(w)
           N == Len(w)
           S == {k \in 0 .. N : NextOffset(w, off[k]) = off[k]}
<1>1. N \in Nat OBVIOUS
<1>2. /\ off \in [0 .. N -> 0 .. N] /\ off[0] = 0
      /\ \A k \in 1 .. N : off[k] = NextOffset(w, off[k - 1])
  BY OffsetIs
<1> HIDE DEF off
<1>3. S # {}
  <2> SUFFICES ASSUME S = {} PROVE FALSE OBVIOUS
  <2> DEFINE T == {k \in Nat : k <= N => off[k] >= k}
  <2>1. 0 \in T BY <1>2
  <2>2. ASSUME NEW k \in Nat, k \in T, k + 1 <= N PROVE off[k + 1] >= k + 1
    <3>1. k + 1 \in 1 .. N /\ (k + 1) - 1 = k /\ k \in 0 .. N BY <1>1, <2>2
    <3>2. off[k + 1] = NextOffset(w, off[k]) BY <1>2, <3>1
    <3>3. off[k] \in 0 .. N /\ off[k] >= k BY <1>2, <2>2, <3>1
    <3>4. NextOffset(w, off[k]) \in off[k] .. N BY <3>3, NextOffsetIs
    <3>5. NextOffset(w, off[k]) # off[k] BY <3>1
    <3> QED BY <1>1, <3>2, <3>3, <3>4, <3>5
  <2>3. \A k \in Nat : k \in T => k + 1 \in T
    <3> SUFFICES ASSUME NEW k \in Nat, k \in T PROVE k + 1 \in T OBVIOUS
    <3> QED BY <2>2
  <2>4. N \in T
    <3> HIDE DEF T, N
    <3> QED BY <1>1, <2>1, <2>3, Induction
  <2>5. off[N] \in 0 .. N /\ off[N] >= N BY <1>1, <1>2, <2>4
  <2>6. off[N] = N BY <1>1, <2>5
  <2>7. NextOffset(w, N) \in N .. N BY <1>1, NextOffsetIs
  <2> QED BY <1>1, <2>6, <2>7
<1>4. S \subseteq Nat BY <1>1
<1>5. Least(S) \in S /\ \A m \in S : Least(S) <= m
  <2> HIDE DEF S
  <2> QED BY <1>3, <1>4, LeastIs
<1>6. Segments(w, off) = Least(S) BY DEF Segments
<1> DEFINE n == Segments(w, off)
<1>7. n \in S /\ \A m \in S : n <= m BY <1>5, <1>6
<1> HIDE DEF n
<1>8. n \in 0 .. N /\ NextOffset(w, off[n]) = off[n] BY <1>7
<1>9. ASSUME NEW k \in 0 .. n - 1 PROVE NextOffset(w, off[k]) # off[k]
  <2>1. k \in 0 .. N /\ ~(n <= k) BY <1>1, <1>8
  <2>2. k \notin S BY <1>7, <2>1
  <2> QED BY <2>1, <2>2
<1> QED BY <1>8, <1>9 DEF n, off

-----------------------------------------------------------------------------
(* What one call makes of the working buffer.                               *)

NewLines(w) == [i \in 1 .. Segments(w, Offset(w)) |-> LineAt(w, Offset(w)[i - 1])]

StillPending(w) == SubSeq(w, Offset(w)[Segments(w, Offset(w))] + 1, Len(w))

(* A partial line is one that neither ends nor must be cut.                 *)
Partial(b) == Len(b) <= MaxLineBytes /\ \A i \in 1 .. Len(b) : b[i] # "nl"

LEMMA WithoutCRIs ==
  ASSUME NEW b \in Seq(Bytes)
  PROVE  /\ WithoutCR(b) \in Seq(Bytes)
         /\ WithoutCR(b) # <<>> => b # <<>> /\ WithoutCR(b)[1] = b[1]
<1>1. CASE b # <<>> /\ b[Len(b)] = "cr"
  <2>1. Len(b) \in Nat \ {0} BY <1>1
  <2> DEFINE n == Len(b) - 1
  <2>2. n \in 0 .. Len(b) /\ 0 \in 0 .. Len(b) BY <2>1
  <2>3. WithoutCR(b) = SubSeq(b, 0 + 1, n) BY <1>1 DEF WithoutCR
  <2> HIDE DEF n
  <2>4. /\ SubSeq(b, 0 + 1, n) \in Seq(Bytes) /\ Len(SubSeq(b, 0 + 1, n)) = n - 0
        /\ \A i \in 1 .. n - 0 : SubSeq(b, 0 + 1, n)[i] = b[0 + i]
    <3>1. n \in 0 .. Len(b) /\ 0 \in 0 .. Len(b) BY <2>2
    <3> QED BY <3>1, Part
  <2>5. n # 0 => SubSeq(b, 0 + 1, n)[1] = b[1] BY <2>2, <2>4
  <2> QED BY <1>1, <2>2, <2>3, <2>4, <2>5
<1>2. CASE ~(b # <<>> /\ b[Len(b)] = "cr")
  <2>1. WithoutCR(b) = b BY <1>2 DEF WithoutCR
  <2> QED BY <2>1
<1> QED BY <1>1, <1>2

LEMMA LineAtIs ==
  ASSUME NEW w \in Seq(Bytes), NEW p \in 0 .. Len(w), NextOffset(w, p) # p
  PROVE  /\ LineAt(w, p) \in Line
         /\ LineAt(w, p).bytes # <<>> => LineAt(w, p).bytes[1] = w[p + 1]
<1> DEFINE e == NextOffset(w, p)
<1>0. Len(w) \in Nat OBVIOUS
<1>1. HasLine(w, p) \/ MustCut(w, p) BY NextOffsetIs
<1>2. e \in p + 1 .. Len(w) BY <1>1, NextOffsetIs
<1>3. CASE HasLine(w, p)
  <2> DEFINE n == e - 1
  <2>1. n \in p .. Len(w) BY <1>0, <1>2
  <2>2. LineAt(w, p) = [bytes |-> WithoutCR(SubSeq(w, p + 1, n)), terminator |-> "newline"]
    BY <1>3 DEF LineAt
  <2> HIDE DEF n, e
  <2>3. /\ SubSeq(w, p + 1, n) \in Seq(Bytes) /\ Len(SubSeq(w, p + 1, n)) = n - p
        /\ \A i \in 1 .. n - p : SubSeq(w, p + 1, n)[i] = w[p + i]
    BY <2>1, Part
  <2> DEFINE b == SubSeq(w, p + 1, n)
  <2>4. b # <<>> => b[1] = w[p + 1] BY <2>1, <2>3
  <2> HIDE DEF b
  <2>5. /\ WithoutCR(b) \in Seq(Bytes)
        /\ WithoutCR(b) # <<>> => b # <<>> /\ WithoutCR(b)[1] = b[1]
    BY <2>3, WithoutCRIs DEF b
  <2>6. LineAt(w, p) = [bytes |-> WithoutCR(b), terminator |-> "newline"] BY <2>2 DEF b
  <2> QED BY <2>4, <2>5, <2>6 DEF Line
<1>4. CASE ~HasLine(w, p)
  <2>1. LineAt(w, p) = [bytes |-> SubSeq(w, p + 1, e), terminator |-> "oversized-split"]
    BY <1>4 DEF LineAt
  <2>2. e \in p .. Len(w) BY <1>2
  <2> HIDE DEF e
  <2>3. /\ SubSeq(w, p + 1, e) \in Seq(Bytes)
        /\ \A i \in 1 .. e - p : SubSeq(w, p + 1, e)[i] = w[p + i]
    BY <2>2, Part
  <2>4. 1 \in 1 .. e - p BY <1>2, <2>2 DEF e
  <2> QED BY <2>1, <2>3, <2>4 DEF Line
<1> QED BY <1>3, <1>4

LEMMA NewLinesAre ==
  ASSUME NEW w \in Seq(Bytes)
  PROVE  LET off == Offset(w)
             n   == Segments(w, off)
         IN  /\ n \in Nat /\ off[0] = 0
             /\ \A k \in 0 .. n : off[k] \in 0 .. Len(w)
             /\ \A k \in 0 .. n - 1 :
                  NextOffset(w, off[k]) # off[k] /\ off[k + 1] = NextOffset(w, off[k])
             /\ NewLines(w) \in Seq(Line) /\ Len(NewLines(w)) = n
             /\ \A k \in 0 .. n - 1 : NewLines(w)[k + 1] = LineAt(w, off[k])
<1> DEFINE off == Offset(w)
           n   == Segments(w, off)
<1>1. /\ off \in [0 .. Len(w) -> 0 .. Len(w)] /\ off[0] = 0
      /\ \A k \in 1 .. Len(w) : off[k] = NextOffset(w, off[k - 1])
  BY OffsetIs
<1>2. n \in 0 .. Len(w) /\ \A k \in 0 .. n - 1 : NextOffset(w, off[k]) # off[k]
  BY SegmentsIs
<1>3. NewLines(w) = [i \in 1 .. n |-> LineAt(w, off[i - 1])] BY DEF NewLines
<1> HIDE DEF n, off
<1>4. n \in Nat BY <1>2
<1>5. ASSUME NEW k \in 0 .. n PROVE off[k] \in 0 .. Len(w)
  <2>1. k \in 0 .. Len(w) BY <1>2
  <2> QED BY <1>1, <2>1
<1>6. ASSUME NEW k \in 0 .. n - 1 PROVE off[k + 1] = NextOffset(w, off[k])
  <2>1. k + 1 \in 1 .. Len(w) /\ (k + 1) - 1 = k BY <1>2
  <2> QED BY <1>1, <2>1
<1>7. \A i \in 1 .. n : LineAt(w, off[i - 1]) \in Line
  <2> SUFFICES ASSUME NEW i \in 1 .. n PROVE LineAt(w, off[i - 1]) \in Line OBVIOUS
  <2>1. i - 1 \in 0 .. n /\ i - 1 \in 0 .. n - 1 BY <1>4
  <2>2. off[i - 1] \in 0 .. Len(w) BY <1>5, <2>1
  <2>3. NextOffset(w, off[i - 1]) # off[i - 1] BY <1>2, <2>1
  <2> QED BY <2>2, <2>3, LineAtIs
<1>8. NewLines(w) \in Seq(Line) /\ Len(NewLines(w)) = n BY <1>3, <1>4, <1>7
<1>9. ASSUME NEW k \in 0 .. n - 1 PROVE NewLines(w)[k + 1] = LineAt(w, off[k])
  <2>1. k + 1 \in 1 .. n /\ (k + 1) - 1 = k BY <1>4
  <2> QED BY <1>3, <2>1
<1> QED BY <1>1, <1>2, <1>4, <1>5, <1>6, <1>8, <1>9 DEF n, off

LEMMA StillPendingIs ==
  ASSUME NEW w \in Seq(Bytes)
  PROVE  /\ StillPending(w) \in Seq(Bytes) /\ Partial(StillPending(w))
         /\ StillPending(w) # <<>> =>
              StillPending(w)[1] = w[Offset(w)[Segments(w, Offset(w))] + 1]
<1> DEFINE n == Segments(w, Offset(w))
           p == Offset(w)[n]
<1>1. n \in 0 .. Len(w) /\ NextOffset(w, p) = p BY SegmentsIs
<1>2. Offset(w) \in [0 .. Len(w) -> 0 .. Len(w)] BY OffsetIs
<1>3. p \in 0 .. Len(w)
  <2> HIDE DEF n
  <2> QED BY <1>1, <1>2
<1>4. StillPending(w) = SubSeq(w, p + 1, Len(w)) BY DEF StillPending
<1> HIDE DEF p, n
<1>5. ~HasLine(w, p) /\ ~MustCut(w, p) BY <1>1, <1>3, NextOffsetIs
<1>6. Len(w) - p <= MaxLineBytes BY <1>3, <1>5, LimitsAssumption DEF MustCut
<1>7. \A i \in p + 1 .. Len(w) : w[i] # "nl"
  <2> SUFFICES ASSUME NEW i \in p + 1 .. Len(w) PROVE w[i] # "nl" OBVIOUS
  <2>1. i <= p + MaxLineBytes + 1 BY <1>3, <1>6, LimitsAssumption
  <2> QED BY <1>3, <1>5, <2>1, NoLineFound
<1> DEFINE r == SubSeq(w, p + 1, Len(w))
<1>8. r \in Seq(Bytes) /\ Len(r) = Len(w) - p /\ \A i \in 1 .. Len(w) - p : r[i] = w[p + i]
  BY <1>3, Rest
<1> HIDE DEF r
<1>9. ASSUME NEW i \in 1 .. Len(r) PROVE r[i] # "nl"
  <2>1. p + i \in p + 1 .. Len(w) /\ i \in 1 .. Len(w) - p BY <1>3, <1>8
  <2> QED BY <1>7, <1>8, <2>1
<1>10. r # <<>> => r[1] = w[p + 1] BY <1>3, <1>8
<1> QED BY <1>4, <1>6, <1>8, <1>9, <1>10 DEF Partial, r, p, n

(* Eviction takes the oldest.                                               *)
WithinLimits(ls, partial) ==
  Len(ls) <= MaxBufferLines /\ TotalBytes(ls) + Len(partial) <= MaxBufferBytes

Without(ls, d) == SubSeq(ls, d + 1, Len(ls))

LEMMA NewestIs ==
  ASSUME NEW ls \in Seq(Line)
  PROVE  \E d \in 0 .. Len(ls) :
           /\ Newest(ls) = Without(ls, d)
           /\ Len(ls) - d <= 1 \/ WithinLimits(Without(ls, d), <<>>)
           /\ \A m \in 0 .. d - 1 : Len(ls) - m > 1 /\ ~WithinLimits(Without(ls, m), <<>>)
<1> DEFINE N == Len(ls)
           S == {d \in 0 .. N : \/ N - d <= 1
                                \/ /\ N - d <= MaxBufferLines
                                   /\ TotalBytes(SubSeq(ls, d + 1, N)) <= MaxBufferBytes}
           d == Least(S)
<1>0. N \in Nat OBVIOUS
<1>1. S \subseteq Nat /\ N \in S BY <1>0
<1>2. d \in S /\ \A m \in S : d <= m
  <2> HIDE DEF S
  <2> QED BY <1>1, LeastIs
<1>3. Newest(ls) = Without(ls, d) BY DEF Newest, Without
<1>4. \A m \in 0 .. N :
        WithinLimits(Without(ls, m), <<>>)
          <=> N - m <= MaxBufferLines /\ TotalBytes(SubSeq(ls, m + 1, N)) <= MaxBufferBytes
  <2> SUFFICES ASSUME NEW m \in 0 .. N
               PROVE  WithinLimits(Without(ls, m), <<>>)
                        <=> N - m <= MaxBufferLines /\ TotalBytes(SubSeq(ls, m + 1, N)) <= MaxBufferBytes
    OBVIOUS
  <2> DEFINE k == SubSeq(ls, m + 1, N)
  <2>1. k \in Seq(Line) /\ Len(k) = N - m BY Rest
  <2> HIDE DEF k
  <2>2. TotalBytes(k) \in Nat BY <2>1, TotalBytesIs
  <2>3. TotalBytes(k) + Len(<<>>) = TotalBytes(k) BY <2>2
  <2> QED BY <2>1, <2>3 DEF WithinLimits, Without, k
<1>5. d \in 0 .. N BY <1>2
<1>6. N - d <= 1 \/ WithinLimits(Without(ls, d), <<>>) BY <1>2, <1>4
<1> HIDE DEF d
<1>7. ASSUME NEW m \in 0 .. d - 1 PROVE N - m > 1 /\ ~WithinLimits(Without(ls, m), <<>>)
  <2>1. m \in 0 .. N /\ ~(d <= m) BY <1>0, <1>5
  <2>2. m \notin S BY <1>2, <2>1 DEF d
  <2> QED BY <1>0, <1>4, <2>1, <2>2
<1> QED BY <1>3, <1>5, <1>6, <1>7

LEMMA FitToBudgetIs ==
  ASSUME NEW ls \in Seq(Line), NEW partial \in Seq(Bytes), NEW materialized \in BOOLEAN,
         Len(partial) <= MaxLineBytes
  PROVE  LET kept == FitToBudget(ls, partial, materialized)
             alone(k) == Len(k) = 1 /\ TotalBytes(k) > MaxBufferBytes /\ materialized
         IN  /\ \E d \in 0 .. Len(ls) : kept = Without(ls, d)
             /\ WithinLimits(kept, partial) \/ alone(kept)
             /\ alone(ls) => kept = ls
<1> DEFINE N == Len(ls)
           alone(k) == Len(k) = 1 /\ TotalBytes(k) > MaxBufferBytes /\ materialized
           fits(k) ==
             \/ k = <<>>
             \/ /\ Len(k) <= MaxBufferLines
                /\ TotalBytes(k) + Len(partial) <= MaxBufferBytes
             \/ Len(k) = 1 /\ TotalBytes(k) > MaxBufferBytes /\ materialized
           S == {d \in 0 .. N : fits(SubSeq(ls, d + 1, N))}
           d == Least(S)
<1>0. N \in Nat OBVIOUS
<1>1. N \in S
  <2>1. SubSeq(ls, N + 1, N) = <<>> BY <1>0, SubSeqEmpty
  <2> QED BY <1>0, <2>1
<1>2. d \in S /\ \A m \in S : d <= m
  <2>1. S \subseteq Nat BY <1>0
  <2> HIDE DEF S
  <2> QED BY <1>1, <2>1, LeastIs
<1>3. FitToBudget(ls, partial, materialized) = Without(ls, d) BY DEF FitToBudget, Without
<1>4. fits(Without(ls, d)) /\ d \in 0 .. N BY <1>2 DEF Without
<1>5. fits(<<>>) => WithinLimits(<<>>, partial)
  <2>1. TotalBytes(<<>>) = 0
    <3>1. <<>> \in Seq(Line) OBVIOUS
    <3> QED BY <3>1, TotalBytesIs
  <2> QED BY <2>1, LimitsAssumption DEF WithinLimits
<1>6. ASSUME alone(ls) PROVE d = 0
  <2>1. SubSeq(ls, 0 + 1, N) = ls BY SubSeqFull
  <2>2. fits(ls) BY <1>6, Zenon
  <2> DEFINE zero == 0
  <2>3. zero \in S
    <3>1. fits(SubSeq(ls, zero + 1, N)) BY <2>1, <2>2, Zenon
    <3>2. zero \in 0 .. N BY <1>0
    <3> HIDE DEF zero, fits
    <3> QED BY <3>1, <3>2
  <2>4. d <= 0 BY <1>2, <2>3
  <2> HIDE DEF d
  <2> QED BY <1>0, <1>4, <2>4
<1>7. Without(ls, 0) = ls BY SubSeqFull DEF Without
<1> HIDE DEF d
<1>8. WithinLimits(Without(ls, d), partial) \/ alone(Without(ls, d))
  BY <1>4, <1>5 DEF WithinLimits
<1> QED BY <1>3, <1>4, <1>6, <1>7, <1>8

-----------------------------------------------------------------------------
(* The last elements of a sequence.                                         *)

IsTail(a, b) == Len(a) <= Len(b) /\ a = SubSeq(b, Len(b) - Len(a) + 1, Len(b))

LEMMA TailByElements ==
  ASSUME NEW T, NEW a \in Seq(T), NEW b \in Seq(T)
  PROVE  IsTail(a, b) <=> /\ Len(a) <= Len(b)
                          /\ \A i \in 1 .. Len(a) : a[i] = b[Len(b) - Len(a) + i]
<1>1. CASE Len(a) <= Len(b)
  <2> DEFINE d == Len(b) - Len(a)
             r == SubSeq(b, d + 1, Len(b))
  <2>1. d \in 0 .. Len(b) /\ Len(b) - d = Len(a) BY <1>1
  <2> HIDE DEF d
  <2>2. r \in Seq(T) /\ Len(r) = Len(b) - d /\ \A i \in 1 .. Len(b) - d : r[i] = b[d + i]
    BY <2>1, Rest
  <2> HIDE DEF r
  <2>3. a = r <=> \A i \in 1 .. Len(a) : a[i] = r[i] BY <2>1, <2>2, SameElements
  <2>4. a = r <=> \A i \in 1 .. Len(a) : a[i] = b[d + i] BY <2>1, <2>2, <2>3
  <2> QED BY <1>1, <2>4 DEF IsTail, r, d
<1>2. CASE ~(Len(a) <= Len(b)) BY <1>2 DEF IsTail
<1> QED BY <1>1, <1>2

LEMMA TailShrinks ==
  ASSUME NEW T, NEW a \in Seq(T), NEW b \in Seq(T), IsTail(a, b), NEW d \in 0 .. Len(a)
  PROVE  IsTail(SubSeq(a, d + 1, Len(a)), b)
<1> DEFINE r == SubSeq(a, d + 1, Len(a))
<1>1. r \in Seq(T) /\ Len(r) = Len(a) - d /\ \A i \in 1 .. Len(a) - d : r[i] = a[d + i] BY Rest
<1> HIDE DEF r
<1>2. Len(a) <= Len(b) /\ \A i \in 1 .. Len(a) : a[i] = b[Len(b) - Len(a) + i] BY TailByElements
<1>3. Len(r) <= Len(b) BY <1>1, <1>2
<1>4. ASSUME NEW i \in 1 .. Len(r) PROVE r[i] = b[Len(b) - Len(r) + i]
  <2>1. i \in 1 .. Len(a) - d /\ d + i \in 1 .. Len(a)
        /\ Len(b) - Len(a) + (d + i) = Len(b) - Len(r) + i
    BY <1>1
  <2>2. a[d + i] = b[Len(b) - Len(a) + (d + i)] BY <1>2, <2>1
  <2> QED BY <1>1, <2>1, <2>2
<1>5. IsTail(r, b) BY <1>1, <1>3, <1>4, TailByElements
<1> QED BY <1>5 DEF r

LEMMA TailGrows ==
  ASSUME NEW T, NEW a \in Seq(T), NEW b \in Seq(T), IsTail(a, b), NEW c \in Seq(T)
  PROVE  IsTail(a \o c, b \o c)
<1> DEFINE ac == a \o c
           bc == b \o c
<1>1. /\ ac \in Seq(T) /\ Len(ac) = Len(a) + Len(c)
      /\ \A i \in 1 .. Len(a) : ac[i] = a[i]
      /\ \A i \in 1 .. Len(c) : ac[Len(a) + i] = c[i]
  BY Joined
<1>2. /\ bc \in Seq(T) /\ Len(bc) = Len(b) + Len(c)
      /\ \A i \in 1 .. Len(b) : bc[i] = b[i]
      /\ \A i \in 1 .. Len(c) : bc[Len(b) + i] = c[i]
  BY Joined
<1> HIDE DEF ac, bc
<1>3. Len(a) <= Len(b) /\ \A i \in 1 .. Len(a) : a[i] = b[Len(b) - Len(a) + i] BY TailByElements
<1>4. Len(a) \in Nat /\ Len(b) \in Nat /\ Len(c) \in Nat OBVIOUS
<1>5. ASSUME NEW i \in 1 .. Len(ac) PROVE ac[i] = bc[Len(bc) - Len(ac) + i]
  <2>1. Len(bc) - Len(ac) + i = Len(b) - Len(a) + i BY <1>1, <1>2, <1>4
  <2>2. CASE i <= Len(a)
    <3>1. i \in 1 .. Len(a) /\ Len(b) - Len(a) + i \in 1 .. Len(b) BY <1>3, <1>4, <2>2
    <3> QED BY <1>1, <1>2, <1>3, <2>1, <3>1
  <2>3. CASE ~(i <= Len(a))
    <3> DEFINE k == i - Len(a)
    <3>1. k \in 1 .. Len(c) /\ Len(a) + k = i /\ Len(b) + k = Len(b) - Len(a) + i
      BY <1>1, <1>4, <2>3
    <3> HIDE DEF k
    <3>2. ac[Len(a) + k] = c[k] /\ bc[Len(b) + k] = c[k] BY <1>1, <1>2, <3>1
    <3> QED BY <2>1, <3>1, <3>2
  <2> QED BY <2>2, <2>3
<1>6. Len(ac) <= Len(bc) BY <1>1, <1>2, <1>3, <1>4
<1>7. IsTail(ac, bc) BY <1>1, <1>2, <1>5, <1>6, TailByElements
<1> QED BY <1>7 DEF ac, bc

-----------------------------------------------------------------------------
(* The steps.                                                               *)

Flags == truncated \in BOOLEAN /\ finalized \in BOOLEAN /\ retentionEvicted \in BOOLEAN
         /\ fresh \in BOOLEAN

LEMMA Types ==
  ASSUME TypeOK
  PROVE  /\ received \in Seq(Bytes) /\ pending \in Seq(Bytes)
         /\ lines \in Seq(Line) /\ ever \in Seq(Line)
         /\ droppedCount \in Nat /\ fragments \in Nat
         /\ Flags /\ Len(pending) <= MaxLineBytes
BY DEF TypeOK, Line, Flags

LEMMA ChunksAre ==
  ASSUME NEW chunk \in Chunks
  PROVE  chunk \in Seq(Bytes)
<1>1. PICK n \in 1 .. MaxInput - Len(received) : chunk \in [1 .. n -> Bytes] BY DEF Chunks
<1>2. n \in Nat OBVIOUS
<1> QED BY <1>1, <1>2

LEMMA AppendIs ==
  ASSUME TypeOK, NEW chunk \in Chunks, AppendChunk(chunk)
  PROVE  LET w   == pending \o chunk
             new == NewLines(w)
         IN  /\ w \in Seq(Bytes) /\ new \in Seq(Line)
             /\ pending' = StillPending(w)
             /\ lines' = FitToBudget(Newest(lines \o new), StillPending(w), Len(new) > 0)
             /\ Dropped(Len(lines) + Len(new) - Len(lines'))
             /\ received' = received \o chunk /\ ever' = ever \o new
             /\ fresh' = (Len(new) > 0)
             /\ \E d \in 0 .. Len(lines \o new) : lines' = Without(lines \o new, d)
<1> DEFINE w   == pending \o chunk
           new == NewLines(w)
           n   == Segments(w, Offset(w))
           a   == lines \o new
           b   == Newest(a)
<1>1. w \in Seq(Bytes) BY ChunksAre, Types
<1>2. new \in Seq(Line) /\ Len(new) = n /\ n \in Nat
  <2> HIDE DEF w
  <2> QED BY <1>1, NewLinesAre
<1>3. /\ pending' = StillPending(w)
      /\ lines' = FitToBudget(Newest(lines \o new), StillPending(w), n > 0)
      /\ Dropped(Len(lines) + n - Len(lines'))
      /\ received' = received \o chunk /\ ever' = ever \o new
      /\ fresh' = (n > 0)
  BY DEF AppendChunk, NewLines, StillPending
<1> DEFINE p == StillPending(w)
           m == Len(new) > 0
<1>4. p \in Seq(Bytes) /\ Len(p) <= MaxLineBytes
  <2> HIDE DEF w
  <2> QED BY <1>1, StillPendingIs DEF Partial
<1> HIDE DEF w, p, new, n
<1>5. a \in Seq(Line) BY <1>2, Types
<1> HIDE DEF a
<1>6. PICK d \in 0 .. Len(a) : b = Without(a, d) BY <1>5, NewestIs
<1>7. b \in Seq(Line) /\ Len(b) = Len(a) - d /\ IsTail(b, a)
  <2>1. SubSeq(a, d + 1, Len(a)) \in Seq(Line) /\ Len(SubSeq(a, d + 1, Len(a))) = Len(a) - d
    BY <1>5, Rest
  <2>2. IsTail(a, a) BY <1>5, TailByElements
  <2>3. IsTail(SubSeq(a, d + 1, Len(a)), a) BY <1>5, <2>2, TailShrinks
  <2> QED BY <1>6, <2>1, <2>3 DEF Without
<1> HIDE DEF b
<1>8. m \in BOOLEAN OBVIOUS
<1> HIDE DEF m
<1>9. PICK e \in 0 .. Len(b) : FitToBudget(b, p, m) = Without(b, e)
  BY <1>4, <1>7, <1>8, FitToBudgetIs
<1> DEFINE k == Without(b, e)
<1>10. IsTail(k, a) /\ Len(k) = Len(b) - e
  <2>1. Len(SubSeq(b, e + 1, Len(b))) = Len(b) - e BY <1>7, Rest
  <2> QED BY <1>5, <1>7, <2>1, TailShrinks DEF Without
<1>11. k = Without(a, Len(a) - Len(k)) /\ Len(a) - Len(k) \in 0 .. Len(a)
  <2> HIDE DEF k
  <2>1. Len(a) \in Nat /\ Len(b) \in Nat BY <1>5, <1>7
  <2>2. Len(k) \in 0 .. Len(a) BY <1>6, <1>7, <1>10, <2>1
  <2> QED BY <1>10, <2>1, <2>2 DEF IsTail, Without
<1>12. lines' = k BY <1>2, <1>3, <1>9 DEF a, b, p, m
<1>13. \E c \in 0 .. Len(a) : lines' = Without(a, c)
  <2> HIDE DEF k
  <2> QED BY <1>11, <1>12
<1> QED BY <1>1, <1>2, <1>3, <1>13 DEF w, p, new, n, a

(* The line the end of the stream makes.                                    *)
LastLine ==
  IF pending = <<>> THEN <<>> ELSE <<[bytes |-> pending, terminator |-> "stream-end"]>>

LEMMA FinalizeIs ==
  ASSUME TypeOK, FinalizeStream
  PROVE  /\ LastLine \in Seq(Line) /\ pending' = <<>>
         /\ lines' = IF LastLine = <<>> THEN lines ELSE Newest(lines \o LastLine)
         /\ Dropped(Len(lines) + Len(LastLine) - Len(lines'))
         /\ ever' = ever \o LastLine /\ fresh' = (fresh \/ LastLine # <<>>)
         /\ fragments' = fragments /\ received' = received
         /\ \E d \in 0 .. Len(lines \o LastLine) : lines' = Without(lines \o LastLine, d)
<1>1. LastLine \in Seq(Line)
  <2> DEFINE line == [bytes |-> pending, terminator |-> "stream-end"]
  <2>1. line \in Line BY Types DEF Line
  <2> HIDE DEF line
  <2>2. <<line>> \in Seq(Line) /\ <<>> \in Seq(Line) BY <2>1
  <2> QED BY <2>2 DEF LastLine, line
<1>2. /\ lines' = IF LastLine = <<>> THEN lines ELSE Newest(lines \o LastLine)
      /\ pending' = <<>>
      /\ Dropped(Len(lines) + Len(LastLine) - Len(lines'))
      /\ ever' = ever \o LastLine /\ fresh' = (fresh \/ LastLine # <<>>)
      /\ fragments' = fragments /\ received' = received
  BY DEF FinalizeStream, LastLine
<1> DEFINE a == lines \o LastLine
<1>3. a \in Seq(Line) BY <1>1, Types
<1>4. CASE LastLine = <<>>
  <2>1. a = lines BY <1>4, Types
  <2>2. Without(a, 0) = a BY <1>3, SubSeqFull DEF Without
  <2>3. 0 \in 0 .. Len(a) BY <1>3
  <2> HIDE DEF a
  <2>4. \E d \in 0 .. Len(a) : lines' = Without(a, d) BY <1>2, <1>4, <2>1, <2>2, <2>3
  <2> QED BY <1>1, <1>2, <2>4 DEF a
<1>5. CASE LastLine # <<>>
  <2> HIDE DEF a
  <2>1. \E d \in 0 .. Len(a) : Newest(a) = Without(a, d) BY <1>3, NewestIs
  <2> QED BY <1>1, <1>2, <1>5, <2>1 DEF a
<1> QED BY <1>4, <1>5

-----------------------------------------------------------------------------
(* What is lost is counted.                                                 *)

LEMMA LossStep ==
  ASSUME TypeOK, LossIsDisclosed, NEW new \in Seq(Line), NEW d \in 0 .. Len(lines \o new),
         lines' = Without(lines \o new, d), ever' = ever \o new,
         Dropped(Len(lines) + Len(new) - Len(lines')), fragments' = fragments
  PROVE  /\ lines' \in Seq(Line) /\ ever' \in Seq(Line)
         /\ droppedCount' \in Nat /\ truncated' \in BOOLEAN
         /\ LossIsDisclosed'
<1> DEFINE a == lines \o new
           b == ever \o new
<1>1. lines \in Seq(Line) /\ ever \in Seq(Line) /\ fragments \in Nat /\ droppedCount \in Nat
      /\ truncated \in BOOLEAN
  BY Types DEF Flags
<1>2. a \in Seq(Line) /\ Len(a) = Len(lines) + Len(new) BY <1>1, Joined
<1>3. b \in Seq(Line) /\ Len(b) = Len(ever) + Len(new) BY <1>1, Joined
<1>4. IsTail(lines, ever) BY DEF LossIsDisclosed, IsTail
<1>5. IsTail(a, b) BY <1>1, <1>4, TailGrows
<1> HIDE DEF a, b
<1>6. IsTail(Without(a, d), b) BY <1>2, <1>3, <1>5, TailShrinks DEF a, Without
<1>7. Without(a, d) \in Seq(Line) /\ Len(Without(a, d)) = Len(a) - d
  BY <1>2, Rest DEF a, Without
<1>8. lines' = Without(a, d) /\ ever' = b BY DEF a, b
<1>9. lines' \in Seq(Line) /\ Len(lines') = Len(a) - d /\ IsTail(lines', ever') /\ ever' \in Seq(Line)
  BY <1>3, <1>6, <1>7, <1>8
<1> DEFINE n == Len(lines) + Len(new) - Len(lines')
<1>10. n = d BY <1>1, <1>2, <1>9 DEF a
<1>11. d \in Nat /\ d <= Len(a) BY <1>2 DEF a
<1>12. droppedCount' = droppedCount + d /\ truncated' = (truncated \/ d > 0)
  BY <1>10 DEF Dropped
<1>13. droppedCount = Len(ever) - Len(lines) + fragments /\ (truncated <=> droppedCount > 0)
  BY DEF LossIsDisclosed
<1>14. droppedCount' = Len(ever') - Len(lines') + fragments'
  <2>1. Len(ever') = Len(ever) + Len(new) BY <1>3, <1>8
  <2>2. Len(ever) \in Nat /\ Len(lines) \in Nat /\ Len(new) \in Nat BY <1>1
  <2> QED BY <1>1, <1>2, <1>9, <1>11, <1>12, <1>13, <2>1, <2>2
<1>15. droppedCount' \in Nat BY <1>1, <1>11, <1>12
<1>16. droppedCount' > 0 <=> droppedCount > 0 \/ d > 0 BY <1>1, <1>11, <1>12
<1>17. truncated' \in BOOLEAN /\ (truncated' <=> droppedCount' > 0)
  BY <1>1, <1>12, <1>13, <1>16, Zenon
<1> QED BY <1>9, <1>14, <1>15, <1>17 DEF LossIsDisclosed, IsTail

LEMMA EvictLoses ==
  ASSUME TypeOK, LossIsDisclosed, EvictAllLines
  PROVE  droppedCount' \in Nat /\ truncated' \in BOOLEAN /\ fragments' \in Nat /\ LossIsDisclosed'
<1>1. lines \in Seq(Line) /\ ever \in Seq(Line) /\ fragments \in Nat /\ droppedCount \in Nat
      /\ truncated \in BOOLEAN
  BY Types DEF Flags
<1> DEFINE n == Len(lines) + FragmentLoss
<1>2. FragmentLoss \in {0, 1} /\ fragments' = fragments + FragmentLoss
  <2>1. fragments' = IF pending = <<>> THEN fragments ELSE fragments + 1 BY DEF EvictAllLines
  <2> QED BY <1>1, <2>1 DEF FragmentLoss
<1>3. n \in Nat BY <1>1, <1>2
<1>4. droppedCount' = droppedCount + n /\ truncated' = (truncated \/ n > 0)
  BY DEF EvictAllLines, Dropped
<1>5. lines' = <<>> /\ ever' = ever BY DEF EvictAllLines
<1>6. droppedCount = Len(ever) - Len(lines) + fragments /\ (truncated <=> droppedCount > 0)
      /\ Len(ever) \in Nat /\ Len(lines) \in Nat
  BY <1>1 DEF LossIsDisclosed
<1>7. droppedCount' = Len(ever') - Len(lines') + fragments'
  <2>1. Len(lines') = 0 BY <1>5
  <2> QED BY <1>1, <1>2, <1>4, <1>5, <1>6, <2>1
<1>8. <<>> = SubSeq(ever, Len(ever) - Len(<<>>) + 1, Len(ever))
  <2>1. Len(ever) - Len(<<>>) + 1 = Len(ever) + 1 BY <1>6
  <2>2. SubSeq(ever, Len(ever) + 1, Len(ever)) = <<>> BY <1>6, SubSeqEmpty
  <2> QED BY <2>1, <2>2
<1> HIDE DEF n
<1>9. droppedCount' \in Nat /\ (droppedCount' > 0 <=> droppedCount > 0 \/ n > 0)
  BY <1>1, <1>3, <1>4
<1>10. truncated' \in BOOLEAN /\ (truncated' <=> droppedCount' > 0) BY <1>1, <1>4, <1>6, <1>9, Zenon
<1>11. Len(lines') <= Len(ever') BY <1>5, <1>6
<1>12. fragments' \in Nat BY <1>1, <1>2
<1> QED BY <1>5, <1>7, <1>8, <1>9, <1>10, <1>11, <1>12 DEF LossIsDisclosed

LEMMA LateChunkLoses ==
  ASSUME TypeOK, LossIsDisclosed, LateChunk
  PROVE  droppedCount' \in Nat /\ truncated' \in BOOLEAN /\ fragments' \in Nat /\ LossIsDisclosed'
<1>1. lines \in Seq(Line) /\ ever \in Seq(Line) /\ fragments \in Nat /\ droppedCount \in Nat
  BY Types
<1>2. droppedCount' = droppedCount + 1 /\ truncated' = (truncated \/ 1 > 0)
      /\ fragments' = fragments + 1 /\ lines' = lines /\ ever' = ever
  BY DEF LateChunk, Dropped
<1>3. truncated' = TRUE
  <2>1. 1 > 0 OBVIOUS
  <2> QED BY <1>2, <2>1, Zenon
<1>4. droppedCount' > 0 /\ droppedCount' \in Nat BY <1>1, <1>2
<1>5. droppedCount' = Len(ever') - Len(lines') + fragments' BY <1>1, <1>2 DEF LossIsDisclosed
<1> QED BY <1>1, <1>2, <1>3, <1>4, <1>5 DEF LossIsDisclosed

-----------------------------------------------------------------------------
(* The budget.                                                              *)

(* A line too large for the buffer is all that its own eviction leaves.     *)
LEMMA OversizedStays ==
  ASSUME NEW a \in Seq(Line), a # <<>>, LineSize(a[Len(a)]) > MaxBufferBytes
  PROVE  Newest(a) = <<a[Len(a)]>>
<1> DEFINE N == Len(a)
<1>1. N \in Nat \ {0} OBVIOUS
<1>2. PICK d \in 0 .. N :
        /\ Newest(a) = Without(a, d)
        /\ N - d <= 1 \/ WithinLimits(Without(a, d), <<>>)
        /\ \A m \in 0 .. d - 1 : N - m > 1 /\ ~WithinLimits(Without(a, m), <<>>)
  BY NewestIs
<1> DEFINE k == Without(a, d)
<1>3. k \in Seq(Line) /\ Len(k) = N - d /\ \A i \in 1 .. N - d : k[i] = a[d + i]
  BY Rest DEF Without
<1> HIDE DEF k
<1>4. d # N
  <2> SUFFICES ASSUME d = N PROVE FALSE OBVIOUS
  <2>1. N - 1 \in 0 .. d - 1 BY <1>1
  <2>2. N - (N - 1) > 1 BY <1>2, <2>1
  <2> QED BY <1>1, <2>2
<1>5. k # <<>> /\ k[Len(k)] = a[N]
  <2>1. N - d \in 1 .. N - d /\ d + (N - d) = N BY <1>1, <1>4
  <2> QED BY <1>3, <2>1
<1>6. ~WithinLimits(k, <<>>)
  <2>1. TotalBytes(k) \in Nat /\ TotalBytes(k) >= LineSize(k[Len(k)]) BY <1>3, <1>5, TotalBytesIs
  <2>2. a[N] \in Line BY <1>1
  <2>3. LineSize(a[N]) \in Nat BY <2>2, LineSizeIsNat
  <2>4. TotalBytes(k) > MaxBufferBytes BY <1>5, <2>1, <2>3, LimitsAssumption
  <2>5. TotalBytes(k) + Len(<<>>) = TotalBytes(k) BY <2>1
  <2> QED BY <2>1, <2>4, <2>5, LimitsAssumption DEF WithinLimits
<1>7. Len(k) = 1 BY <1>1, <1>2, <1>3, <1>4, <1>6 DEF k
<1>8. k = <<a[N]>>
  <2>1. k[1] = a[N] /\ a[N] \in Line BY <1>1, <1>5, <1>7
  <2> DEFINE one == <<a[N]>>
  <2>2. one \in Seq(Line) /\ Len(one) = 1 /\ one[1] = a[N] BY <2>1
  <2> HIDE DEF one
  <2>3. \A i \in 1 .. Len(k) : k[i] = one[i] BY <1>7, <2>1, <2>2
  <2>4. k = one BY <1>3, <1>7, <2>2, <2>3, SeqEqual
  <2> QED BY <2>4 DEF one
<1> QED BY <1>2, <1>8 DEF k

LEMMA LastOfJoined ==
  ASSUME NEW T, NEW a \in Seq(T), NEW b \in Seq(T), b # <<>>
  PROVE  a \o b # <<>> /\ (a \o b)[Len(a \o b)] = b[Len(b)]
<1>1. /\ Len(a \o b) = Len(a) + Len(b) /\ a \o b \in Seq(T)
      /\ \A i \in 1 .. Len(b) : (a \o b)[Len(a) + i] = b[i]
  BY Joined
<1>2. Len(b) \in 1 .. Len(b) /\ Len(a) + Len(b) # 0 OBVIOUS
<1> QED BY <1>1, <1>2

LEMMA AppendKeepsBudget ==
  ASSUME TypeOK, NEW chunk \in Chunks, AppendChunk(chunk)
  PROVE  BudgetIsKept'
<1> DEFINE w   == pending \o chunk
           new == NewLines(w)
           p   == StillPending(w)
           m   == Len(new) > 0
           a   == lines \o new
           b   == Newest(a)
<1>1. /\ w \in Seq(Bytes) /\ new \in Seq(Line) /\ pending' = p
      /\ lines' = FitToBudget(b, p, m) /\ ever' = ever \o new /\ fresh' = m
  BY AppendIs
<1>2. p \in Seq(Bytes) /\ Len(p) <= MaxLineBytes
  <2> HIDE DEF w
  <2> QED BY <1>1, StillPendingIs DEF Partial
<1>3. lines \in Seq(Line) /\ ever \in Seq(Line) BY Types
<1>4. m \in BOOLEAN OBVIOUS
<1> HIDE DEF w, p, new
<1>5. a \in Seq(Line) BY <1>1, <1>3
<1>6. b \in Seq(Line)
  <2> HIDE DEF a
  <2>1. PICK d \in 0 .. Len(a) : b = Without(a, d) BY <1>5, NewestIs
  <2> QED BY <1>5, <2>1, Rest DEF Without
<1> DEFINE alone(k) == Len(k) = 1 /\ TotalBytes(k) > MaxBufferBytes /\ m
<1>7. /\ \E d \in 0 .. Len(b) : lines' = Without(b, d)
      /\ WithinLimits(lines', p) \/ alone(lines')
      /\ alone(b) => lines' = b
  <2> HIDE DEF b, m
  <2> QED BY <1>1, <1>2, <1>4, <1>6, FitToBudgetIs
<1>8. ResidentBound' BY <1>1, <1>7 DEF ResidentBound, WithinLimits
<1>9. ASSUME fresh', LineSize(ever'[Len(ever')]) > MaxBufferBytes
      PROVE  lines' = <<ever'[Len(ever')]>>
  <2> DEFINE last == new[Len(new)]
  <2>1. m /\ new # <<>>
    <3>1. m BY <1>1, <1>9, Zenon
    <3>2. Len(<<>>) = 0 OBVIOUS
    <3> QED BY <3>1, <3>2
  <2>2. ever'[Len(ever')] = last BY <1>1, <1>3, <2>1, LastOfJoined
  <2>3. a # <<>> /\ a[Len(a)] = last BY <1>1, <1>3, <2>1, LastOfJoined
  <2> HIDE DEF a, last
  <2>4. b = <<last>> BY <1>5, <1>9, <2>2, <2>3, OversizedStays
  <2>5. last \in Line BY <1>1, <2>1 DEF last
  <2>6. TotalBytes(<<last>>) = LineSize(last)
    <3>1. <<last>> \in Seq(Line) /\ Len(<<last>>) = 1 /\ <<last>>[1] = last BY <2>5
    <3> QED BY <3>1, TotalBytesIs
  <2>7. alone(b)
    <3>1. Len(<<last>>) = 1 OBVIOUS
    <3>2. TotalBytes(<<last>>) > MaxBufferBytes BY <1>9, <2>2, <2>6
    <3> QED BY <2>1, <2>4, <3>1, <3>2
  <2> QED BY <1>7, <2>2, <2>4, <2>7
<1>10. OversizedSurvivesItsCall' BY <1>9 DEF OversizedSurvivesItsCall
<1> QED BY <1>8, <1>10 DEF BudgetIsKept

LEMMA FinalizeKeepsBudget ==
  ASSUME TypeOK, BudgetIsKept, FinalizeStream
  PROVE  BudgetIsKept'
<1> DEFINE new == LastLine
           a   == lines \o new
<1>1. /\ new \in Seq(Line) /\ pending' = <<>> /\ ever' = ever \o new
      /\ fresh' = (fresh \/ new # <<>>)
      /\ lines' = IF new = <<>> THEN lines ELSE Newest(a)
  BY FinalizeIs
<1>2. lines \in Seq(Line) /\ ever \in Seq(Line) /\ pending \in Seq(Bytes) /\ fresh \in BOOLEAN
  BY Types DEF Flags
<1> HIDE DEF new
<1>3. CASE new = <<>>
  <2>1. lines' = lines /\ fresh' = fresh /\ ever' = ever
    <3>1. ever \o <<>> = ever BY <1>2, ConcatEmptySeq
    <3>2. fresh' = fresh BY <1>1, <1>2, <1>3, Zenon
    <3> QED BY <1>1, <1>3, <3>1, <3>2
  <2>2. Len(pending) \in Nat /\ TotalBytes(lines) \in Nat BY <1>2, TotalBytesIs
  <2>3. TotalBytes(lines) + Len(pending) <= MaxBufferBytes
          => TotalBytes(lines) + Len(<<>>) <= MaxBufferBytes
    BY <2>2, LimitsAssumption
  <2> QED BY <1>1, <2>1, <2>3 DEF BudgetIsKept, ResidentBound, OversizedSurvivesItsCall
<1>4. CASE new # <<>>
  <2>1. /\ a \in Seq(Line) /\ a # <<>> /\ a[Len(a)] = new[Len(new)]
        /\ ever'[Len(ever')] = new[Len(new)] /\ lines' = Newest(a) /\ fresh'
    <3>1. fresh' BY <1>1, <1>4, Zenon
    <3>2. a \in Seq(Line) /\ a # <<>> /\ a[Len(a)] = new[Len(new)]
      BY <1>1, <1>2, <1>4, LastOfJoined
    <3>3. ever'[Len(ever')] = new[Len(new)] BY <1>1, <1>2, <1>4, LastOfJoined
    <3> QED BY <1>1, <1>4, <3>1, <3>2, <3>3
  <2> HIDE DEF a
  <2>2. PICK d \in 0 .. Len(a) :
          /\ Newest(a) = Without(a, d)
          /\ Len(a) - d <= 1 \/ WithinLimits(Without(a, d), <<>>)
    BY <2>1, NewestIs
  <2>3. lines' \in Seq(Line) /\ Len(lines') = Len(a) - d
    BY <2>1, <2>2, Rest DEF Without
  <2>4. Len(lines') <= 1 \/ WithinLimits(lines', <<>>) BY <2>1, <2>2, <2>3
  <2>5. TotalBytes(lines') \in Nat /\ (lines' = <<>> => TotalBytes(lines') = 0)
    BY <2>3, TotalBytesIs
  <2>6. ResidentBound'
    <3>1. CASE WithinLimits(lines', <<>>) BY <1>1, <3>1 DEF ResidentBound, WithinLimits
    <3>2. CASE Len(lines') <= 1 /\ TotalBytes(lines') <= MaxBufferBytes
      <4>1. TotalBytes(lines') + Len(<<>>) <= MaxBufferBytes BY <2>5, <3>2, LimitsAssumption
      <4>2. Len(lines') <= MaxBufferLines BY <2>3, <3>2, LimitsAssumption
      <4> QED BY <1>1, <4>1, <4>2 DEF ResidentBound
    <3>3. CASE Len(lines') <= 1 /\ ~(TotalBytes(lines') <= MaxBufferBytes)
      <4>1. TotalBytes(lines') > MaxBufferBytes /\ lines' # <<>> BY <2>5, <3>3, LimitsAssumption
      <4>2. Len(lines') = 1 BY <2>3, <3>3, <4>1
      <4> QED BY <2>1, <4>1, <4>2 DEF ResidentBound
    <3> QED BY <2>4, <3>1, <3>2, <3>3
  <2>7. OversizedSurvivesItsCall' BY <2>1, OversizedStays DEF OversizedSurvivesItsCall
  <2> QED BY <2>6, <2>7 DEF BudgetIsKept
<1> QED BY <1>3, <1>4

LEMMA EvictKeepsBudget ==
  ASSUME EvictAllLines
  PROVE  BudgetIsKept'
<1>1. lines' = <<>> /\ pending' = <<>> /\ fresh' = FALSE BY DEF EvictAllLines
<1>2. TotalBytes(<<>>) = 0
  <2>1. <<>> \in Seq(Line) OBVIOUS
  <2> QED BY <2>1, TotalBytesIs
<1>3. Len(<<>>) <= MaxBufferLines /\ 0 + Len(<<>>) <= MaxBufferBytes BY LimitsAssumption
<1> QED BY <1>1, <1>2, <1>3 DEF BudgetIsKept, ResidentBound, OversizedSurvivesItsCall

-----------------------------------------------------------------------------
(* The reference, byte by byte.                                             *)

Reading == [cur : Seq(Bytes), out : Seq(Line)]

Nothing == [cur |-> <<>>, out |-> <<>>]

Fed(f, input) ==
  f = [i \in 0 .. Len(input) |-> IF i = 0 THEN Nothing ELSE TakeByte(f[i - 1], input[i])]

LEMMA TakeByteType ==
  ASSUME NEW acc \in Reading, NEW b \in Bytes
  PROVE  TakeByte(acc, b) \in Reading
<1> DEFINE cur == Append(acc.cur, b)
           cut == SafeCut(cur, 0)
<1>1. acc.cur \in Seq(Bytes) /\ acc.out \in Seq(Line) BY DEF Reading
<1>2. cur \in Seq(Bytes) BY <1>1
<1>3. CASE b = "nl"
  <2> DEFINE line == [bytes |-> WithoutCR(acc.cur), terminator |-> "newline"]
  <2>1. line \in Line BY <1>1, WithoutCRIs DEF Line
  <2>2. TakeByte(acc, b) = [cur |-> <<>>, out |-> Append(acc.out, line)] BY <1>3 DEF TakeByte
  <2> HIDE DEF line
  <2>3. Append(acc.out, line) \in Seq(Line) /\ <<>> \in Seq(Bytes) BY <1>1, <2>1
  <2> QED BY <2>2, <2>3 DEF Reading
<1>4. CASE b # "nl" /\ Len(cur) <= MaxLineBytes
  <2>1. TakeByte(acc, b) = [acc EXCEPT !.cur = cur] BY <1>4 DEF TakeByte
  <2> HIDE DEF cur
  <2> QED BY <1>2, <2>1 DEF Reading
<1>5. CASE b # "nl" /\ ~(Len(cur) <= MaxLineBytes)
  <2> DEFINE line == [bytes |-> SubSeq(cur, 1, cut), terminator |-> "oversized-split"]
             rest == SubSeq(cur, cut + 1, Len(cur))
  <2>1. TakeByte(acc, b) = [cur |-> rest, out |-> Append(acc.out, line)] BY <1>5 DEF TakeByte
  <2> HIDE DEF cur
  <2> DEFINE zero == 0
  <2>2. zero \in 0 .. Len(cur) /\ Len(cur) - zero > MaxLineBytes BY <1>2, <1>5, LimitsAssumption
  <2>3. cut \in 1 .. MaxLineBytes
    <3>1. SafeCut(cur, zero) \in 1 .. MaxLineBytes
      <4> HIDE DEF zero
      <4> QED BY <1>2, <2>2, CutFound
    <3> QED BY <3>1
  <2>4. cut \in 0 .. Len(cur) /\ cut \in zero .. Len(cur) BY <1>2, <1>5, <2>3, LimitsAssumption
  <2> HIDE DEF cut
  <2>5. rest \in Seq(Bytes) BY <1>2, <2>4, Rest
  <2>6. SubSeq(cur, zero + 1, cut) \in Seq(Bytes)
    <3> HIDE DEF zero
    <3> QED BY <1>2, <2>2, <2>4, Part
  <2>7. line \in Line BY <2>6 DEF Line
  <2> HIDE DEF line, rest
  <2>8. Append(acc.out, line) \in Seq(Line) BY <1>1, <2>7
  <2> QED BY <2>1, <2>5, <2>8 DEF Reading
<1> QED BY <1>3, <1>4, <1>5

LEMMA FedExists ==
  ASSUME NEW input \in Seq(Bytes)
  PROVE  \E f \in [0 .. Len(input) -> Reading] : Fed(f, input)
<1> DEFINE n == Len(input)
           G == [p \in Reading \X (1 .. n) |-> TakeByte(p[1], input[p[2]])]
<1>1. n \in Nat OBVIOUS
<1>2. Nothing \in Reading BY DEF Nothing, Reading
<1>3. G \in [Reading \X (1 .. n) -> Reading]
  <2>1. \A acc \in Reading, i \in 1 .. n : TakeByte(acc, input[i]) \in Reading
    <3> SUFFICES ASSUME NEW acc \in Reading, NEW i \in 1 .. n PROVE TakeByte(acc, input[i]) \in Reading
      OBVIOUS
    <3>1. input[i] \in Bytes OBVIOUS
    <3> QED BY <3>1, TakeByteType
  <2> HIDE DEF n
  <2> QED BY <2>1
<1>4. PICK f : Recursion(f, n, Reading, Nothing, G)
  <2> HIDE DEF n, G
  <2> QED BY <1>1, <1>2, <1>3, RecursionExists
<1>5. ASSUME NEW i \in 1 .. n PROVE f[i] = TakeByte(f[i - 1], input[i])
  <2>1. i - 1 \in 0 .. n /\ f \in [0 .. n -> Reading] BY <1>1, <1>4 DEF Recursion
  <2>2. f[i - 1] \in Reading
    <3> HIDE DEF n
    <3> QED BY <2>1
  <2>3. <<f[i - 1], i>> \in Reading \X (1 .. n) BY <2>2
  <2>4. f[i] = G[<<f[i - 1], i>>] BY <1>4 DEF Recursion
  <2> HIDE DEF n
  <2> QED BY <2>3, <2>4
<1>6. Fed(f, input)
  <2> HIDE DEF G
  <2> QED BY <1>4, <1>5 DEF Fed, Recursion
<1> QED BY <1>4, <1>6 DEF Recursion

LEMMA FedSteps ==
  ASSUME NEW input \in Seq(Bytes), NEW f, Fed(f, input)
  PROVE  f[0] = Nothing /\ \A i \in 0 .. Len(input) - 1 : f[i + 1] = TakeByte(f[i], input[i + 1])
<1>1. Len(input) \in Nat OBVIOUS
<1>2. f[0] = Nothing BY <1>1 DEF Fed
<1>3. ASSUME NEW i \in 0 .. Len(input) - 1 PROVE f[i + 1] = TakeByte(f[i], input[i + 1])
  <2>1. i + 1 \in 0 .. Len(input) /\ i + 1 # 0 /\ (i + 1) - 1 = i BY <1>1
  <2> QED BY <2>1 DEF Fed
<1> QED BY <1>2, <1>3

(* What was read of the first bytes is not changed by those that follow.    *)
LEMMA FedPrefix ==
  ASSUME NEW a \in Seq(Bytes), NEW b \in Seq(Bytes), NEW f, Fed(f, a), NEW g, Fed(g, a \o b)
  PROVE  f[Len(a)] = g[Len(a)]
<1> DEFINE c == a \o b
           T == {i \in Nat : i <= Len(a) => f[i] = g[i]}
<1>1. /\ c \in Seq(Bytes) /\ Len(c) = Len(a) + Len(b) /\ Len(a) \in Nat /\ Len(b) \in Nat
      /\ \A i \in 1 .. Len(a) : c[i] = a[i]
  BY Joined
<1>2. /\ f[0] = Nothing /\ \A i \in 0 .. Len(a) - 1 : f[i + 1] = TakeByte(f[i], a[i + 1])
      /\ g[0] = Nothing /\ \A i \in 0 .. Len(c) - 1 : g[i + 1] = TakeByte(g[i], c[i + 1])
  BY <1>1, FedSteps
<1> HIDE DEF c
<1>3. 0 \in T BY <1>2
<1>4. ASSUME NEW i \in Nat, i \in T, i + 1 <= Len(a) PROVE f[i + 1] = g[i + 1]
  <2>1. i \in 0 .. Len(a) - 1 /\ i \in 0 .. Len(c) - 1 /\ i + 1 \in 1 .. Len(a) BY <1>1, <1>4
  <2>2. f[i] = g[i] BY <1>1, <1>4
  <2> QED BY <1>1, <1>2, <2>1, <2>2
<1>5. \A i \in Nat : i \in T => i + 1 \in T
  <2> SUFFICES ASSUME NEW i \in Nat, i \in T PROVE i + 1 \in T OBVIOUS
  <2> QED BY <1>4
<1>6. Len(a) \in T
  <2> HIDE DEF T
  <2> QED BY <1>1, <1>3, <1>5, Induction
<1> QED BY <1>1, <1>6

LEMMA ByteByByteIs ==
  ASSUME NEW input \in Seq(Bytes), NEW f, Fed(f, input)
  PROVE  ByteByByte(input) = f[Len(input)]
<1> DEFINE Follows(g) == g = [i \in 0 .. Len(input) |->
                                IF i = 0 THEN [cur |-> <<>>, out |-> <<>>]
                                ELSE TakeByte(g[i - 1], input[i])]
           upTo == CHOOSE g : Follows(g)
<1>1. \A g : Follows(g) <=> Fed(g, input) BY DEF Fed, Nothing
<1>2. Follows(upTo)
  <2>1. \E g : Follows(g) BY <1>1
  <2> HIDE DEF Follows
  <2> QED BY <2>1
<1>3. ByteByByte(input) = upTo[Len(input)] BY DEF ByteByByte
<1> HIDE DEF upTo, Follows
<1>4. Fed(upTo, input \o <<>>)
  <2>1. input \o <<>> = input BY ConcatEmptySeq
  <2> QED BY <1>1, <1>2, <2>1
<1>5. <<>> \in Seq(Bytes) OBVIOUS
<1> QED BY <1>3, <1>4, <1>5, FedPrefix

-----------------------------------------------------------------------------
(* A chunk taken whole and a chunk taken byte by byte.                      *)

LEMMA PartOfPart ==
  ASSUME NEW w \in Seq(Bytes), NEW p \in 0 .. Len(w), NEW j \in p .. Len(w),
         NEW a \in 0 .. j - p, NEW b \in a .. j - p
  PROVE  SubSeq(SubSeq(w, p + 1, j), a + 1, b) = SubSeq(w, p + a + 1, p + b)
<1> DEFINE v == SubSeq(w, p + 1, j)
           c == p + a
           d == p + b
           x == SubSeq(v, a + 1, b)
           y == SubSeq(w, c + 1, d)
<1>1. v \in Seq(Bytes) /\ Len(v) = j - p /\ \A i \in 1 .. j - p : v[i] = w[p + i] BY Part
<1>2. a \in 0 .. Len(v) /\ b \in a .. Len(v) BY <1>1
<1> HIDE DEF v
<1>3. x \in Seq(Bytes) /\ Len(x) = b - a /\ \A i \in 1 .. b - a : x[i] = v[a + i]
  BY <1>1, <1>2, Part
<1>4. c \in 0 .. Len(w) /\ d \in c .. Len(w) /\ d - c = b - a OBVIOUS
<1>5. \A i \in 1 .. b - a : c + i = p + (a + i) /\ a + i \in 1 .. j - p OBVIOUS
<1> HIDE DEF c, d, x
<1>6. y \in Seq(Bytes) /\ Len(y) = d - c /\ \A i \in 1 .. d - c : y[i] = w[c + i]
  BY <1>4, Part
<1> HIDE DEF y
<1>7. ASSUME NEW i \in 1 .. Len(x) PROVE x[i] = y[i]
  <2>1. i \in 1 .. b - a BY <1>3
  <2>2. x[i] = v[a + i] /\ v[a + i] = w[p + (a + i)] BY <1>1, <1>3, <1>5, <2>1
  <2>3. y[i] = w[c + i] BY <1>4, <1>6, <2>1
  <2> QED BY <1>5, <2>1, <2>2, <2>3
<1>8. x = y BY <1>3, <1>4, <1>6, <1>7, SameElements
<1> QED BY <1>8 DEF x, y, v, c, d

LEMMA OneMore ==
  ASSUME NEW T, NEW w \in Seq(T), NEW p \in 0 .. Len(w), NEW j \in p .. Len(w) - 1
  PROVE  Append(SubSeq(w, p + 1, j), w[j + 1]) = SubSeq(w, p + 1, j + 1)
<1> DEFINE v == SubSeq(w, p + 1, j)
           q == j + 1
           x == Append(v, w[q])
           y == SubSeq(w, p + 1, q)
<1>0. Len(w) \in Nat OBVIOUS
<1>1. v \in Seq(T) /\ Len(v) = j - p /\ \A i \in 1 .. j - p : v[i] = w[p + i]
  <2>1. j \in p .. Len(w) BY <1>0
  <2> QED BY <2>1, Part
<1>2. q \in p .. Len(w) /\ q - p = (j - p) + 1 /\ w[q] \in T /\ q = p + ((j - p) + 1)
      /\ j - p \in Nat
  BY <1>0
<1> HIDE DEF v, q
<1>3. y \in Seq(T) /\ Len(y) = q - p /\ \A i \in 1 .. q - p : y[i] = w[p + i] BY <1>2, Part
<1>4. /\ x \in Seq(T) /\ Len(x) = Len(v) + 1 /\ x[Len(v) + 1] = w[q]
      /\ \A i \in 1 .. Len(v) : x[i] = v[i]
  BY <1>1, <1>2, AppendProperties
<1> HIDE DEF x, y
<1>5. ASSUME NEW i \in 1 .. Len(x) PROVE x[i] = y[i]
  <2>1. CASE i \in 1 .. j - p
    <3>1. i \in 1 .. q - p BY <1>2, <2>1
    <3> QED BY <1>1, <1>3, <1>4, <2>1, <3>1
  <2>2. CASE i = (j - p) + 1
    <3>1. i \in 1 .. q - p BY <1>2, <2>2
    <3>2. y[i] = w[p + i] BY <1>3, <3>1
    <3> QED BY <1>1, <1>2, <1>4, <2>2, <3>2
  <2> QED BY <1>1, <1>2, <1>4, <2>1, <2>2
<1>6. Len(x) = Len(y) BY <1>1, <1>2, <1>3, <1>4
<1>7. x = y BY <1>3, <1>4, <1>5, <1>6, SameElements
<1> QED BY <1>7 DEF x, y, v, q

(* The state of the byte-by-byte reading when j bytes of the working buffer *)
(* are read and k of its lines are made.                                    *)
ReadingAt(w, ls, k, j) ==
  [cur |-> SubSeq(w, Offset(w)[k] + 1, j), out |-> ls \o SubSeq(NewLines(w), 1, k)]

(* The k-th segment is not yet seen to have ended.                          *)
Within(w, k, j) ==
  /\ k \in 0 .. Segments(w, Offset(w))
  /\ Offset(w)[k] <= j /\ j - Offset(w)[k] <= MaxLineBytes
  /\ \A m \in Offset(w)[k] + 1 .. j : w[m] # "nl"

LEMMA LineAppended ==
  ASSUME NEW ls \in Seq(Line), NEW new \in Seq(Line), NEW k \in 0 .. Len(new) - 1
  PROVE  Append(ls \o SubSeq(new, 1, k), new[k + 1]) = ls \o SubSeq(new, 1, k + 1)
<1> DEFINE v == SubSeq(new, 1, k)
           zero == 0
<1>1. zero \in 0 .. Len(new) /\ k \in zero .. Len(new) - 1 /\ k \in zero .. Len(new) OBVIOUS
<1>2. Append(SubSeq(new, zero + 1, k), new[k + 1]) = SubSeq(new, zero + 1, k + 1)
      /\ SubSeq(new, zero + 1, k) \in Seq(Line)
  <2> HIDE DEF zero
  <2> QED BY <1>1, OneMore, Part
<1>3. Append(v, new[k + 1]) = SubSeq(new, 1, k + 1) /\ v \in Seq(Line) BY <1>2
<1>4. new[k + 1] \in Line
  <2>1. k + 1 \in 1 .. Len(new) OBVIOUS
  <2> QED BY <2>1
<1> HIDE DEF v
<1> DEFINE e == new[k + 1]
<1> HIDE DEF e
<1>5. Append(ls \o v, e) = (ls \o v) \o <<e>> /\ Append(v, e) = v \o <<e>>
  <2>1. ls \o v \in Seq(Line) BY <1>3
  <2> QED BY <1>3, <1>4, <2>1, AppendIsConcat DEF e
<1>6. (ls \o v) \o <<e>> = ls \o (v \o <<e>>)
  <2>1. <<e>> \in Seq(Line) BY <1>4 DEF e
  <2> QED BY <1>3, <2>1, ConcatAssociative
<1> QED BY <1>3, <1>5, <1>6 DEF e, v

(* The cut of a line that came byte by byte is the cut of the buffer.       *)
LEMMA SameCut ==
  ASSUME NEW w \in Seq(Bytes), NEW p \in 0 .. Len(w), NEW j \in p .. Len(w),
         j - p = MaxLineBytes + 1
  PROVE  SafeCut(SubSeq(w, p + 1, j), 0) = SafeCut(w, p)
<1> DEFINE v == SubSeq(w, p + 1, j)
<1>1. \A i \in 1 .. j - p : v[i] = w[p + i] BY Part
<1> HIDE DEF v
<1>2. ASSUME NEW c \in MaxLineBytes - MaxUtf8Backtrack .. MaxLineBytes, NEW d \in c + 1 .. MaxLineBytes
      PROVE  v[0 + d + 1] = w[p + d + 1]
  <2>1. 0 + d + 1 = d + 1 /\ p + (d + 1) = p + d + 1 /\ d + 1 \in 1 .. j - p BY LimitsAssumption
  <2> QED BY <1>1, <2>1
<1>3. {c \in MaxLineBytes - MaxUtf8Backtrack .. MaxLineBytes :
         \A d \in c + 1 .. MaxLineBytes : v[0 + d + 1] = "cont"}
      = {c \in MaxLineBytes - MaxUtf8Backtrack .. MaxLineBytes :
         \A d \in c + 1 .. MaxLineBytes : w[p + d + 1] = "cont"}
  BY <1>2
<1>4. SafeCut(v, 0) = SafeCut(w, p) BY <1>3 DEF SafeCut
<1> QED BY <1>4 DEF v

LEMMA ByteTaken ==
  ASSUME NEW w \in Seq(Bytes), NEW ls \in Seq(Line), NEW k, NEW j \in 0 .. Len(w) - 1, Within(w, k, j)
  PROVE  \E m : /\ Within(w, m, j + 1)
                /\ TakeByte(ReadingAt(w, ls, k, j), w[j + 1]) = ReadingAt(w, ls, m, j + 1)
<1> DEFINE off == Offset(w)
           n   == Segments(w, off)
           new == NewLines(w)
           p   == off[k]
           q   == j + 1
           b   == w[q]
           acc == ReadingAt(w, ls, k, j)
           cur == SubSeq(w, p + 1, q)
<1>1. /\ n \in Nat /\ off[0] = 0
      /\ \A i \in 0 .. n : off[i] \in 0 .. Len(w)
      /\ \A i \in 0 .. n - 1 : NextOffset(w, off[i]) # off[i] /\ off[i + 1] = NextOffset(w, off[i])
      /\ new \in Seq(Line) /\ Len(new) = n
      /\ \A i \in 0 .. n - 1 : new[i + 1] = LineAt(w, off[i])
  BY NewLinesAre
<1>2. NextOffset(w, off[n]) = off[n] BY SegmentsIs
<1>3. k \in 0 .. n /\ p <= j /\ j - p <= MaxLineBytes /\ \A m \in p + 1 .. j : w[m] # "nl"
  BY DEF Within
<1>4. acc = [cur |-> SubSeq(w, p + 1, j), out |-> ls \o SubSeq(new, 1, k)] BY DEF ReadingAt
<1>5. p \in 0 .. Len(w) /\ Len(w) \in Nat BY <1>1, <1>3
<1>6. j \in p .. Len(w) - 1 /\ q \in p + 1 .. Len(w) /\ q \in p .. Len(w) /\ q = j + 1 BY <1>3, <1>5
<1> HIDE DEF off, n, new, p, acc
<1>7. Append(acc.cur, b) = cur /\ Len(cur) = q - p
  <2>1. Append(SubSeq(w, p + 1, j), w[j + 1]) = SubSeq(w, p + 1, j + 1) BY <1>5, <1>6, OneMore
  <2> HIDE DEF q
  <2>2. Len(SubSeq(w, p + 1, q)) = q - p BY <1>5, <1>6, Part
  <2> QED BY <1>4, <1>6, <2>1, <2>2
<1> HIDE DEF q, cur
(* A line that is made is the next one, and reading goes on behind it.      *)
<1>8. ASSUME HasLine(w, p) \/ MustCut(w, p)
      PROVE  /\ k \in 0 .. n - 1 /\ k + 1 \in 0 .. n
             /\ off[k + 1] = NextOffset(w, p)
             /\ Append(acc.out, LineAt(w, p)) = ls \o SubSeq(new, 1, k + 1)
  <2>1. NextOffset(w, p) # p
    <3>1. NextOffset(w, p) > p /\ NextOffset(w, p) \in p .. Len(w) BY <1>5, <1>8, NextOffsetIs
    <3> QED BY <1>5, <3>1
  <2>2. k # n BY <1>2, <2>1 DEF p
  <2>3. k \in 0 .. n - 1 /\ k + 1 \in 0 .. n BY <1>1, <1>3, <2>2
  <2>4. off[k + 1] = NextOffset(w, p) /\ new[k + 1] = LineAt(w, p) BY <1>1, <2>3 DEF p
  <2>5. Append(ls \o SubSeq(new, 1, k), new[k + 1]) = ls \o SubSeq(new, 1, k + 1)
    BY <1>1, <2>3, LineAppended
  <2> QED BY <1>4, <2>3, <2>4, <2>5
<1>9. CASE b = "nl"
  <2>1. q \in Newlines(w, p) /\ \A m \in Newlines(w, p) : q <= m
    <3>1. q \in Newlines(w, p) BY <1>6, <1>9 DEF Newlines
    <3>2. ASSUME NEW m \in Newlines(w, p) PROVE q <= m
      <4>1. m \in p + 1 .. Len(w) /\ w[m] = "nl" BY DEF Newlines
      <4>2. m \notin p + 1 .. j BY <1>3, <4>1
      <4> QED BY <1>5, <1>6, <4>1, <4>2
    <3> QED BY <3>1, <3>2
  <2>2. Least(Newlines(w, p)) = q
    <3>1. Newlines(w, p) \subseteq Nat BY <1>5 DEF Newlines
    <3>2. Least(Newlines(w, p)) \in Newlines(w, p) /\ Least(Newlines(w, p)) <= q
      BY <2>1, <3>1, LeastIs
    <3>3. q <= Least(Newlines(w, p)) BY <2>1, <3>2
    <3> DEFINE l == Least(Newlines(w, p))
    <3>4. l \in Nat /\ q \in Nat BY <2>1, <3>1, <3>2
    <3> HIDE DEF l
    <3>5. l = q BY <3>2, <3>3, <3>4 DEF l
    <3> QED BY <3>5 DEF l
  <2>3. HasLine(w, p)
    <3>1. Newlines(w, p) # {} BY <2>1
    <3>2. q - p - 1 <= MaxLineBytes BY <1>3, <1>5, <1>6, LimitsAssumption
    <3> QED BY <2>2, <3>1, <3>2 DEF HasLine, NewlineWithin
  <2>4. NextOffset(w, p) = q BY <1>5, <2>2, <2>3, NextOffsetIs
  <2>5. LineAt(w, p) = [bytes |-> WithoutCR(acc.cur), terminator |-> "newline"]
    <3>1. q - 1 = j BY <1>6
    <3>2. LineAt(w, p) = [bytes |-> WithoutCR(SubSeq(w, p + 1, q - 1)), terminator |-> "newline"]
      BY <2>3, <2>4 DEF LineAt
    <3> QED BY <1>4, <3>1, <3>2
  <2>6. TakeByte(acc, b) = [cur |-> <<>>, out |-> Append(acc.out, LineAt(w, p))]
    BY <1>9, <2>5 DEF TakeByte
  <2>7. SubSeq(w, q + 1, q) = <<>> BY <1>5, <1>6, SubSeqEmpty
  <2>8. off[k + 1] = q /\ k + 1 \in 0 .. n BY <1>8, <2>3, <2>4
  <2>9. TakeByte(acc, b) = ReadingAt(w, ls, k + 1, q)
    BY <1>8, <2>3, <2>6, <2>7, <2>8 DEF ReadingAt, off, new
  <2>10. Within(w, k + 1, q)
    <3>1. q <= q /\ q - q <= MaxLineBytes /\ \A m \in q + 1 .. q : w[m] # "nl"
      BY <1>5, <1>6, LimitsAssumption
    <3> QED BY <2>8, <3>1 DEF Within, off, n
  <2> QED BY <2>9, <2>10 DEF q, acc
<1>10. CASE b # "nl" /\ Len(cur) <= MaxLineBytes
  <2>1. TakeByte(acc, b) = [acc EXCEPT !.cur = cur] BY <1>7, <1>10 DEF TakeByte
  <2>2. TakeByte(acc, b) = [cur |-> cur, out |-> ls \o SubSeq(new, 1, k)] BY <1>4, <2>1
  <2>3. TakeByte(acc, b) = ReadingAt(w, ls, k, q) BY <2>2 DEF ReadingAt, cur, p, off, new
  <2>4. Within(w, k, q)
    <3>1. p <= q /\ q - p <= MaxLineBytes BY <1>5, <1>6, <1>7, <1>10
    <3>2. ASSUME NEW m \in p + 1 .. q PROVE w[m] # "nl"
      <4>1. m \in p + 1 .. j \/ m = q BY <1>5, <1>6
      <4> QED BY <1>3, <1>10, <4>1
    <3> QED BY <1>3, <3>1, <3>2 DEF Within, p, off, n
  <2> QED BY <2>3, <2>4 DEF q, acc
<1>11. CASE b # "nl" /\ ~(Len(cur) <= MaxLineBytes)
  <2>1. q - p = MaxLineBytes + 1 BY <1>3, <1>5, <1>6, <1>7, <1>11, LimitsAssumption
  <2>2. ~HasLine(w, p)
    <3> SUFFICES ASSUME HasLine(w, p) PROVE FALSE OBVIOUS
    <3> DEFINE e == Least(Newlines(w, p))
    <3>1. e \in p + 1 .. Len(w) /\ e <= p + MaxLineBytes + 1 /\ w[e] = "nl"
      BY <1>5, LineFound
    <3> HIDE DEF e
    <3>2. e \in p + 1 .. j \/ e = q BY <1>5, <1>6, <2>1, <3>1, LimitsAssumption
    <3> QED BY <1>3, <1>11, <3>1, <3>2
  <2>3. Len(w) - p > MaxLineBytes BY <1>5, <1>6, <2>1, LimitsAssumption
  <2>4. MustCut(w, p) BY <2>2, <2>3 DEF MustCut
  <2> DEFINE c == SafeCut(w, p)
  <2>5. c \in 1 .. MaxLineBytes BY <1>5, <2>3, CutFound
  <2>6. SafeCut(cur, 0) = c BY <1>5, <1>6, <2>1, SameCut DEF cur
  <2>7. NextOffset(w, p) = p + c BY <1>5, <2>4, NextOffsetIs
  <2> HIDE DEF c
  <2>8. SubSeq(cur, c + 1, Len(cur)) = SubSeq(w, (p + c) + 1, q)
    <3> DEFINE e == q - p
    <3>1. c \in 0 .. q - p /\ e \in c .. q - p /\ p + e = q /\ Len(cur) = e
      BY <1>5, <1>6, <1>7, <2>1, <2>5, LimitsAssumption
    <3> HIDE DEF e
    <3>2. SubSeq(SubSeq(w, p + 1, q), c + 1, e) = SubSeq(w, p + c + 1, p + e)
      BY <1>5, <1>6, <3>1, PartOfPart
    <3> QED BY <3>1, <3>2 DEF cur
  <2>9. SubSeq(cur, 1, c) = SubSeq(w, p + 1, p + c)
    <3> DEFINE zero == 0
    <3>1. zero \in 0 .. q - p /\ c \in zero .. q - p
      BY <1>5, <1>6, <2>1, <2>5, LimitsAssumption
    <3>2. SubSeq(SubSeq(w, p + 1, q), zero + 1, c) = SubSeq(w, p + zero + 1, p + c)
      <4> HIDE DEF zero
      <4> QED BY <1>5, <1>6, <3>1, PartOfPart
    <3>3. p + zero + 1 = p + 1 /\ zero + 1 = 1 BY <1>5
    <3> QED BY <3>2, <3>3 DEF cur
  <2>10. LineAt(w, p) = [bytes |-> SubSeq(cur, 1, c), terminator |-> "oversized-split"]
    BY <2>2, <2>7, <2>9 DEF LineAt
  <2>11. TakeByte(acc, b) = [cur |-> SubSeq(w, (p + c) + 1, q), out |-> Append(acc.out, LineAt(w, p))]
    BY <1>7, <1>11, <2>6, <2>8, <2>10 DEF TakeByte
  <2>12. off[k + 1] = p + c /\ k + 1 \in 0 .. n BY <1>8, <2>4, <2>7
  <2>13. TakeByte(acc, b) = ReadingAt(w, ls, k + 1, q)
    BY <1>8, <2>4, <2>11, <2>12 DEF ReadingAt, off, new
  <2>14. Within(w, k + 1, q)
    <3>1. p + c <= q /\ q - (p + c) <= MaxLineBytes
      BY <1>5, <1>6, <2>1, <2>5, LimitsAssumption
    <3>2. ASSUME NEW m \in (p + c) + 1 .. q PROVE w[m] # "nl"
      <4>1. m \in p + 1 .. j \/ m = q BY <1>5, <1>6, <2>5, LimitsAssumption
      <4> QED BY <1>3, <1>11, <4>1
    <3> QED BY <2>12, <3>1, <3>2 DEF Within, off, n
  <2> QED BY <2>13, <2>14 DEF q, acc
<1> QED BY <1>9, <1>10, <1>11

(* The rest of the buffer that is left when every byte is read pends.       *)
LEMMA AllRead ==
  ASSUME NEW w \in Seq(Bytes), NEW k, Within(w, k, Len(w))
  PROVE  k = Segments(w, Offset(w))
<1> DEFINE off == Offset(w)
           n   == Segments(w, off)
           p   == off[k]
<1>1. /\ n \in Nat /\ \A i \in 0 .. n : off[i] \in 0 .. Len(w)
      /\ \A i \in 0 .. n - 1 : NextOffset(w, off[i]) # off[i]
  BY NewLinesAre
<1>2. k \in 0 .. n /\ Len(w) - p <= MaxLineBytes /\ \A m \in p + 1 .. Len(w) : w[m] # "nl"
  BY DEF Within
<1>3. p \in 0 .. Len(w) BY <1>1, <1>2
<1> HIDE DEF n, p, off
<1>4. ~HasLine(w, p)
  <2> SUFFICES ASSUME HasLine(w, p) PROVE FALSE OBVIOUS
  <2> DEFINE e == Least(Newlines(w, p))
  <2>1. e \in p + 1 .. Len(w) /\ w[e] = "nl" BY <1>3, LineFound
  <2> HIDE DEF e
  <2> QED BY <1>2, <2>1
<1>5. ~MustCut(w, p)
  <2>1. ~(Len(w) - p > MaxLineBytes) BY <1>2, <1>3, LimitsAssumption
  <2> QED BY <2>1 DEF MustCut
<1>6. NextOffset(w, p) = p BY <1>3, <1>4, <1>5, NextOffsetIs
<1>7. k \notin 0 .. n - 1 BY <1>1, <1>6 DEF p
<1>8. k = n BY <1>1, <1>2, <1>7
<1> QED BY <1>8 DEF n, off

LEMMA ChunkTaken ==
  ASSUME NEW r \in Seq(Bytes), NEW chunk \in Seq(Bytes), NEW q \in Seq(Bytes), NEW ls \in Seq(Line),
         ByteByByte(r) = [cur |-> q, out |-> ls], Partial(q)
  PROVE  ByteByByte(r \o chunk)
           = [cur |-> StillPending(q \o chunk), out |-> ls \o NewLines(q \o chunk)]
<1> DEFINE w == q \o chunk
           s == r \o chunk
           N == Len(chunk)
<1>1. /\ w \in Seq(Bytes) /\ Len(w) = Len(q) + N
      /\ \A i \in 1 .. Len(q) : w[i] = q[i]
      /\ \A i \in 1 .. N : w[Len(q) + i] = chunk[i]
  BY Joined
<1>2. /\ s \in Seq(Bytes) /\ Len(s) = Len(r) + N
      /\ \A i \in 1 .. N : s[Len(r) + i] = chunk[i]
  BY Joined
<1>3. Len(q) \in Nat /\ Len(r) \in Nat /\ N \in Nat OBVIOUS
<1>4. PICK f : Fed(f, s)
  <2> HIDE DEF s
  <2> QED BY <1>2, FedExists
<1>5. ByteByByte(s) = f[Len(s)]
  <2> HIDE DEF s
  <2> QED BY <1>2, <1>4, ByteByByteIs
<1>6. f[Len(r)] = [cur |-> q, out |-> ls]
  <2>1. PICK g : Fed(g, r) BY FedExists
  <2>2. ByteByByte(r) = g[Len(r)] BY <2>1, ByteByByteIs
  <2>3. g[Len(r)] = f[Len(r)] BY <1>4, <2>1, FedPrefix
  <2> QED BY <2>2, <2>3
<1>7. \A i \in 0 .. Len(s) - 1 : f[i + 1] = TakeByte(f[i], s[i + 1])
  <2> HIDE DEF s
  <2> QED BY <1>2, <1>4, FedSteps
<1> HIDE DEF w, s
<1> DEFINE n == Segments(w, Offset(w))
           new == NewLines(w)
<1>8. n \in Nat /\ Offset(w)[0] = 0 /\ new \in Seq(Line) /\ Len(new) = n BY <1>1, NewLinesAre
<1> HIDE DEF n, new, N
<1> DEFINE T == {i \in Nat : i <= N =>
                   \E k : Within(w, k, Len(q) + i) /\ f[Len(r) + i] = ReadingAt(w, ls, k, Len(q) + i)}
<1>9. 0 \in T
  <2>1. Within(w, 0, Len(q))
    <3>1. 0 \in 0 .. n BY <1>8
    <3>2. ASSUME NEW m \in 0 + 1 .. Len(q) PROVE w[m] # "nl"
      <4>1. m \in 1 .. Len(q) BY <1>3
      <4>2. w[m] = q[m] BY <1>1, <4>1
      <4> QED BY <4>1, <4>2 DEF Partial
    <3>3. 0 <= Len(q) /\ Len(q) - 0 <= MaxLineBytes BY <1>3 DEF Partial
    <3> QED BY <1>8, <3>1, <3>2, <3>3 DEF Within, n
  <2>2. SubSeq(w, 1, Len(q)) = q
    <3> DEFINE zero == 0
               v == SubSeq(w, zero + 1, Len(q))
    <3>1. zero \in 0 .. Len(w) /\ Len(q) \in zero .. Len(w) /\ Len(q) - zero = Len(q)
          /\ \A i \in 1 .. Len(q) : zero + i = i
      BY <1>1, <1>3
    <3> HIDE DEF zero
    <3>2. v \in Seq(Bytes) /\ Len(v) = Len(q) - zero /\ \A i \in 1 .. Len(q) - zero : v[i] = w[zero + i]
      BY <1>1, <3>1, Part
    <3> HIDE DEF v
    <3>3. \A i \in 1 .. Len(v) : v[i] = q[i] BY <1>1, <3>1, <3>2
    <3>4. v = q BY <3>1, <3>2, <3>3, SameElements
    <3> QED BY <3>4 DEF v, zero
  <2>3. SubSeq(new, 1, 0) = <<>> /\ ls \o <<>> = ls BY SubSeqEmpty, ConcatEmptySeq
  <2>4. ReadingAt(w, ls, 0, Len(q)) = [cur |-> q, out |-> ls]
    <3> DEFINE zero == 0
    <3>1. Offset(w)[zero] + 1 = 1 BY <1>8
    <3>2. SubSeq(new, 1, zero) = <<>> BY <2>3
    <3> HIDE DEF zero
    <3>3. ReadingAt(w, ls, zero, Len(q)) = [cur |-> q, out |-> ls]
      BY <2>2, <2>3, <3>1, <3>2 DEF ReadingAt, new
    <3> QED BY <3>3 DEF zero
  <2>5. Len(q) + 0 = Len(q) /\ Len(r) + 0 = Len(r) BY <1>3
  <2>6. Within(w, 0, Len(q) + 0) /\ f[Len(r) + 0] = ReadingAt(w, ls, 0, Len(q) + 0)
    BY <1>6, <2>1, <2>4, <2>5
  <2>7. \E k : Within(w, k, Len(q) + 0) /\ f[Len(r) + 0] = ReadingAt(w, ls, k, Len(q) + 0)
    BY <2>6
  <2> QED BY <2>7
<1>10. ASSUME NEW i \in Nat, i \in T, i + 1 <= N
       PROVE  \E k : Within(w, k, Len(q) + (i + 1))
                     /\ f[Len(r) + (i + 1)] = ReadingAt(w, ls, k, Len(q) + (i + 1))
  <2> DEFINE j == Len(q) + i
  <2>1. PICK k : Within(w, k, j) /\ f[Len(r) + i] = ReadingAt(w, ls, k, j) BY <1>3, <1>10
  <2>2. /\ j \in 0 .. Len(w) - 1 /\ j + 1 = Len(q) + (i + 1)
        /\ Len(r) + i \in 0 .. Len(s) - 1 /\ (Len(r) + i) + 1 = Len(r) + (i + 1)
        /\ i + 1 \in 1 .. N
    BY <1>1, <1>2, <1>3, <1>10
  <2>3. w[j + 1] = s[(Len(r) + i) + 1] BY <1>1, <1>2, <2>2 DEF N
  <2>4. f[(Len(r) + i) + 1] = TakeByte(ReadingAt(w, ls, k, j), w[j + 1]) BY <1>7, <2>1, <2>2, <2>3
  <2> HIDE DEF j
  <2>5. PICK m : Within(w, m, j + 1) /\ TakeByte(ReadingAt(w, ls, k, j), w[j + 1]) = ReadingAt(w, ls, m, j + 1)
    <3>1. w \in Seq(Bytes) /\ j \in 0 .. Len(w) - 1 /\ Within(w, k, j) BY <1>1, <2>1, <2>2
    <3> QED BY <3>1, ByteTaken
  <2>6. f[Len(r) + (i + 1)] = ReadingAt(w, ls, m, Len(q) + (i + 1)) BY <2>2, <2>4, <2>5
  <2>7. Within(w, m, Len(q) + (i + 1)) BY <2>2, <2>5
  <2> QED BY <2>6, <2>7
<1>11. \A i \in Nat : i \in T => i + 1 \in T
  <2> SUFFICES ASSUME NEW i \in Nat, i \in T PROVE i + 1 \in T OBVIOUS
  <2>1. i + 1 \in Nat OBVIOUS
  <2>2. i + 1 <= N => \E k : Within(w, k, Len(q) + (i + 1))
                             /\ f[Len(r) + (i + 1)] = ReadingAt(w, ls, k, Len(q) + (i + 1))
    BY <1>10
  <2> QED BY <2>1, <2>2
<1>12. N \in T
  <2> HIDE DEF T
  <2> QED BY <1>3, <1>9, <1>11, Induction DEF N
<1>13. PICK k : Within(w, k, Len(q) + N) /\ f[Len(r) + N] = ReadingAt(w, ls, k, Len(q) + N)
  BY <1>12, <1>3 DEF N
<1>14. Within(w, k, Len(w)) /\ f[Len(s)] = ReadingAt(w, ls, k, Len(w))
  BY <1>1, <1>2, <1>13 DEF N
<1>15. k = n BY <1>1, <1>14, AllRead DEF n
<1>16. SubSeq(new, 1, n) = new BY <1>8, SubSeqFull
<1>17. ReadingAt(w, ls, k, Len(w)) = [cur |-> StillPending(w), out |-> ls \o new]
  BY <1>15, <1>16 DEF ReadingAt, StillPending, n, new
<1> QED BY <1>5, <1>14, <1>17 DEF w, s, new

-----------------------------------------------------------------------------
(* Chunks do not matter.                                                    *)

PartialPends == Partial(pending)

Empties == finalized \/ retentionEvicted => pending = <<>>

LEMMA AppendIsByteByByte ==
  ASSUME TypeOK, ChunkingIrrelevant, PartialPends, NEW chunk \in Chunks, AppendChunk(chunk)
  PROVE  ChunkingIrrelevant' /\ PartialPends' /\ Empties'
<1> DEFINE w == pending \o chunk
<1>1. /\ w \in Seq(Bytes) /\ pending' = StillPending(w)
      /\ received' = received \o chunk /\ ever' = ever \o NewLines(w)
  BY AppendIs
<1>2. ~finalized /\ ~retentionEvicted /\ finalized' = finalized /\ retentionEvicted' = retentionEvicted
  BY DEF AppendChunk
<1>3. PartialPends' BY <1>1, StillPendingIs DEF PartialPends
<1> DEFINE ref == ByteByByte(received)
<1>4. ever = ref.out \o <<>> /\ pending = ref.cur BY <1>2 DEF ChunkingIrrelevant
<1>5. /\ received \in Seq(Bytes) /\ pending \in Seq(Bytes) /\ ever \in Seq(Line)
      /\ chunk \in Seq(Bytes)
  BY Types, ChunksAre
<1>6. ref = [cur |-> pending, out |-> ever] /\ ref.out \in Seq(Line)
  <2>1. ref \in Reading
    <3>1. PICK f \in [0 .. Len(received) -> Reading] : Fed(f, received) BY <1>5, FedExists
    <3>2. ref = f[Len(received)] BY <1>5, <3>1, ByteByByteIs
    <3>3. Len(received) \in 0 .. Len(received) BY <1>5
    <3> HIDE DEF ref
    <3> QED BY <3>1, <3>2, <3>3
  <2> HIDE DEF ref
  <2>2. ref.out \o <<>> = ref.out BY <2>1, ConcatEmptySeq DEF Reading
  <2> QED BY <1>4, <2>1, <2>2 DEF Reading
<1>7. ByteByByte(received') = [cur |-> pending', out |-> ever']
  BY <1>1, <1>5, <1>6, ChunkTaken DEF PartialPends
<1>8. ever' \in Seq(Line)
  <2>1. NewLines(w) \in Seq(Line) BY <1>1, NewLinesAre
  <2> QED BY <1>1, <1>5, <2>1
<1>9. ever' = ByteByByte(received').out \o <<>> BY <1>7, <1>8, ConcatEmptySeq
<1>10. ChunkingIrrelevant'
  <2>1. ~finalized' /\ ~retentionEvicted' BY <1>2
  <2>2. pending' = ByteByByte(received').cur BY <1>7
  <2> QED BY <1>9, <2>1, <2>2 DEF ChunkingIrrelevant
<1> QED BY <1>2, <1>3, <1>10 DEF Empties

LEMMA FinalizeEndsReading ==
  ASSUME TypeOK, ChunkingIrrelevant, FinalizeStream
  PROVE  ChunkingIrrelevant' /\ PartialPends' /\ Empties'
<1>1. /\ pending' = <<>> /\ received' = received /\ ever' = ever \o LastLine
  BY FinalizeIs
<1>2. ~finalized /\ ~retentionEvicted /\ finalized' = TRUE BY DEF FinalizeStream
<1> DEFINE ref == ByteByByte(received)
<1>3. ever = ref.out \o <<>> /\ pending = ref.cur BY <1>2 DEF ChunkingIrrelevant
<1>4. received \in Seq(Bytes) /\ ever \in Seq(Line) BY Types
<1>5. ref.out \in Seq(Line)
  <2>1. PICK f \in [0 .. Len(received) -> Reading] : Fed(f, received) BY <1>4, FedExists
  <2>2. ref = f[Len(received)] BY <1>4, <2>1, ByteByByteIs
  <2>3. Len(received) \in 0 .. Len(received) BY <1>4
  <2> HIDE DEF ref
  <2>4. ref \in Reading BY <2>1, <2>2, <2>3
  <2> QED BY <2>4 DEF Reading
<1> HIDE DEF ref
<1>6. ever = ref.out BY <1>3, <1>5, ConcatEmptySeq
<1>7. LastLine = IF finalized' /\ ref.cur # <<>>
                 THEN <<[bytes |-> ref.cur, terminator |-> "stream-end"]>>
                 ELSE <<>>
  BY <1>2, <1>3 DEF LastLine
<1>8. ChunkingIrrelevant' BY <1>1, <1>2, <1>6, <1>7 DEF ChunkingIrrelevant, ref
<1>9. PartialPends'
  <2>1. Len(<<>>) = 0 OBVIOUS
  <2> QED BY <1>1, <2>1, LimitsAssumption DEF PartialPends, Partial
<1> QED BY <1>1, <1>8, <1>9 DEF Empties

LEMMA EvictEndsReading ==
  ASSUME TypeOK, ChunkingIrrelevant, Empties, EvictAllLines
  PROVE  ChunkingIrrelevant' /\ PartialPends' /\ Empties'
<1>1. /\ pending' = <<>> /\ received' = received /\ ever' = ever /\ finalized' = finalized
      /\ retentionEvicted' = TRUE
  BY DEF EvictAllLines
<1>2. ChunkingIrrelevant' BY <1>1 DEF ChunkingIrrelevant
<1>3. PartialPends'
  <2>1. Len(<<>>) = 0 OBVIOUS
  <2> QED BY <1>1, <2>1, LimitsAssumption DEF PartialPends, Partial
<1> QED BY <1>1, <1>2, <1>3 DEF Empties

-----------------------------------------------------------------------------
(* Characters stay whole.                                                   *)

StartsInside(b) == b # <<>> /\ b[1] = "cont"

IsCut(line) == line.terminator = "oversized-split"

(* Bytes of a well-formed stream, from anywhere on.                         *)
Tidy(w) == \A i \in 2 .. Len(w) : w[i] = "cont" => w[i - 1] = "lead"

Clean(ls) == \A i \in 1 .. Len(ls) - 1 : IsCut(ls[i]) => ~StartsInside(ls[i + 1].bytes)

(* A forced cut leaves bytes, and the first of them starts a character.     *)
LEMMA CutIsClean ==
  ASSUME NEW w \in Seq(Bytes), Tidy(w), NEW p \in 0 .. Len(w), MustCut(w, p)
  PROVE  p + SafeCut(w, p) < Len(w) /\ w[p + SafeCut(w, p) + 1] # "cont"
<1> DEFINE c == SafeCut(w, p)
<1>1. Len(w) - p > MaxLineBytes BY DEF MustCut
<1>2. /\ c \in 1 .. MaxLineBytes
      /\ \/ w[p + c + 1] # "cont"
         \/ c + 2 <= MaxLineBytes + 1 /\ w[p + c + 2] = "cont"
  BY <1>1, CutFound
<1> HIDE DEF c
<1>3. p + c < Len(w) /\ p + c + 1 \in 1 .. Len(w) BY <1>1, <1>2, LimitsAssumption
<1>4. CASE w[p + c + 1] # "cont" BY <1>3, <1>4 DEF c
<1>5. CASE c + 2 <= MaxLineBytes + 1 /\ w[p + c + 2] = "cont"
  <2>1. p + c + 2 \in 2 .. Len(w) /\ (p + c + 2) - 1 = p + c + 1
    BY <1>1, <1>2, <1>5, LimitsAssumption
  <2>2. w[p + c + 1] = "lead" BY <1>5, <2>1 DEF Tidy
  <2> QED BY <1>3, <2>2 DEF c
<1> QED BY <1>2, <1>4, <1>5

LEMMA CallIsClean ==
  ASSUME NEW w \in Seq(Bytes), Tidy(w)
  PROVE  LET new == NewLines(w)
         IN  /\ Clean(new)
             /\ new # <<>> /\ IsCut(new[Len(new)]) =>
                  StillPending(w) # <<>> /\ ~StartsInside(StillPending(w))
             /\ new # <<>> /\ new[1].bytes # <<>> => new[1].bytes[1] = w[1]
             /\ new = <<>> => StillPending(w) = w
<1> DEFINE off == Offset(w)
           n   == Segments(w, off)
           new == NewLines(w)
<1>1. /\ n \in Nat /\ off[0] = 0
      /\ \A k \in 0 .. n : off[k] \in 0 .. Len(w)
      /\ \A k \in 0 .. n - 1 :
           NextOffset(w, off[k]) # off[k] /\ off[k + 1] = NextOffset(w, off[k])
      /\ new \in Seq(Line) /\ Len(new) = n
      /\ \A k \in 0 .. n - 1 : new[k + 1] = LineAt(w, off[k])
  BY NewLinesAre
<1>2. StillPending(w) = SubSeq(w, off[n] + 1, Len(w)) BY DEF StillPending
<1>3. Len(StillPending(w)) = Len(w) - off[n] /\ StillPending(w) \in Seq(Bytes)
      /\ (StillPending(w) # <<>> => StillPending(w)[1] = w[off[n] + 1])
  <2>1. off[n] \in 0 .. Len(w) BY <1>1
  <2> HIDE DEF off, n
  <2>2. Len(StillPending(w)) = Len(w) - off[n] BY <1>2, <2>1, Rest
  <2> QED BY <2>2, StillPendingIs DEF off, n
<1> HIDE DEF off, n, new
<1>4. ASSUME NEW k \in 0 .. n - 1, IsCut(new[k + 1])
      PROVE  off[k + 1] < Len(w) /\ w[off[k + 1] + 1] # "cont"
  <2> DEFINE p == off[k]
  <2>1. p \in 0 .. Len(w) /\ NextOffset(w, p) # p /\ off[k + 1] = NextOffset(w, p)
    BY <1>1
  <2>2. IsCut(LineAt(w, p)) BY <1>1, <1>4
  <2> HIDE DEF p
  <2>3. ~HasLine(w, p) BY <2>2 DEF LineAt, IsCut
  <2>4. MustCut(w, p) /\ NextOffset(w, p) = p + SafeCut(w, p) BY <2>1, <2>3, NextOffsetIs
  <2>5. p + SafeCut(w, p) < Len(w) /\ w[p + SafeCut(w, p) + 1] # "cont"
    BY <2>1, <2>4, CutIsClean
  <2> QED BY <2>1, <2>4, <2>5
<1>5. Clean(new)
  <2> SUFFICES ASSUME NEW i \in 1 .. Len(new) - 1, IsCut(new[i])
               PROVE  ~StartsInside(new[i + 1].bytes)
    BY DEF Clean
  <2>1. i - 1 \in 0 .. n - 1 /\ (i - 1) + 1 = i /\ i \in 0 .. n - 1 /\ i \in 0 .. n BY <1>1
  <2>2. w[off[i] + 1] # "cont"
    <3> DEFINE k == i - 1
    <3>1. k \in 0 .. n - 1 /\ k + 1 = i BY <2>1
    <3> HIDE DEF k
    <3> QED BY <1>4, <3>1
  <2>3. off[i] \in 0 .. Len(w) /\ NextOffset(w, off[i]) # off[i] /\ new[i + 1] = LineAt(w, off[i])
    BY <1>1, <2>1
  <2>4. LineAt(w, off[i]).bytes # <<>> => LineAt(w, off[i]).bytes[1] = w[off[i] + 1]
    BY <2>3, LineAtIs
  <2> QED BY <2>2, <2>3, <2>4 DEF StartsInside
<1>6. ASSUME new # <<>>, IsCut(new[Len(new)])
      PROVE  StillPending(w) # <<>> /\ ~StartsInside(StillPending(w))
  <2>1. n # 0 BY <1>1, <1>6
  <2> DEFINE k == n - 1
  <2>2. k \in 0 .. n - 1 /\ k + 1 = n BY <1>1, <2>1
  <2> HIDE DEF k
  <2>3. off[n] < Len(w) /\ w[off[n] + 1] # "cont" BY <1>1, <1>4, <1>6, <2>2
  <2>4. off[n] \in Nat /\ Len(w) \in Nat BY <1>1
  <2>5. Len(StillPending(w)) # 0 BY <1>3, <2>3, <2>4
  <2> QED BY <1>3, <2>3, <2>5 DEF StartsInside
<1>7. ASSUME new # <<>>, new[1].bytes # <<>> PROVE new[1].bytes[1] = w[1]
  <2> DEFINE zero == 0
  <2>1. n # 0 BY <1>1, <1>7
  <2>2. zero \in 0 .. n - 1 /\ zero + 1 = 1 /\ off[zero] = zero BY <1>1, <2>1
  <2> HIDE DEF zero
  <2>3. /\ zero \in 0 .. Len(w) /\ NextOffset(w, zero) # zero /\ new[1] = LineAt(w, zero)
    BY <1>1, <2>2
  <2>4. LineAt(w, zero).bytes # <<>> => LineAt(w, zero).bytes[1] = w[zero + 1]
    BY <2>3, LineAtIs
  <2> QED BY <1>7, <2>2, <2>3, <2>4
<1>8. ASSUME new = <<>> PROVE StillPending(w) = w
  <2> DEFINE zero == 0
  <2>1. n = zero /\ off[zero] = zero /\ zero + 1 = 1 BY <1>1, <1>8
  <2> HIDE DEF zero
  <2>2. StillPending(w) = SubSeq(w, 1, Len(w)) BY <1>2, <2>1
  <2> QED BY <2>2, SubSeqFull
<1> QED BY <1>5, <1>6, <1>7, <1>8 DEF new

LEMMA CleanJoined ==
  ASSUME NEW a \in Seq(Line), NEW b \in Seq(Line), Clean(a), Clean(b),
         a # <<>> /\ b # <<>> /\ IsCut(a[Len(a)]) => ~StartsInside(b[1].bytes)
  PROVE  Clean(a \o b)
<1> SUFFICES ASSUME NEW i \in 1 .. Len(a \o b) - 1, IsCut((a \o b)[i])
             PROVE  ~StartsInside((a \o b)[i + 1].bytes)
  BY DEF Clean
<1> DEFINE c == a \o b
<1>1. /\ Len(c) = Len(a) + Len(b)
      /\ \A j \in 1 .. Len(a) : c[j] = a[j]
      /\ \A j \in 1 .. Len(b) : c[Len(a) + j] = b[j]
  BY Joined
<1>2. Len(a) \in Nat /\ Len(b) \in Nat OBVIOUS
<1>3. i \in 1 .. Len(c) - 1 /\ IsCut(c[i]) OBVIOUS
<1> SUFFICES ~StartsInside(c[i + 1].bytes) OBVIOUS
<1> HIDE DEF c
<1>4. CASE i < Len(a)
  <2>1. i \in 1 .. Len(a) - 1 /\ c[i] = a[i] /\ c[i + 1] = a[i + 1] BY <1>1, <1>2, <1>3, <1>4
  <2> QED BY <1>3, <2>1 DEF Clean
<1>5. CASE i = Len(a)
  <2>1. Len(a) # 0 /\ Len(b) # 0 BY <1>1, <1>2, <1>3, <1>5
  <2>2. c[i] = a[Len(a)] /\ c[i + 1] = b[1] BY <1>1, <1>2, <1>5, <2>1
  <2> QED BY <1>3, <2>1, <2>2
<1>6. CASE i > Len(a)
  <2> DEFINE j == i - Len(a)
  <2>1. j \in 1 .. Len(b) - 1 /\ i = Len(a) + j /\ i + 1 = Len(a) + (j + 1) BY <1>1, <1>2, <1>3, <1>6
  <2> HIDE DEF j
  <2>2. j \in 1 .. Len(b) /\ j + 1 \in 1 .. Len(b) BY <1>2, <2>1
  <2>3. c[i] = b[j] /\ c[i + 1] = b[j + 1] BY <1>1, <2>1, <2>2
  <2> QED BY <1>3, <2>1, <2>3 DEF Clean
<1> QED BY <1>2, <1>3, <1>4, <1>5, <1>6

LEMMA TailIsTidy ==
  ASSUME NEW r \in Seq(Bytes), NEW w \in Seq(Bytes), IsTail(w, r), WellFormed(r)
  PROVE  Tidy(w)
<1>1. Len(w) <= Len(r) /\ \A i \in 1 .. Len(w) : w[i] = r[Len(r) - Len(w) + i]
  BY TailByElements
<1> SUFFICES ASSUME NEW i \in 2 .. Len(w), w[i] = "cont" PROVE w[i - 1] = "lead"
  BY DEF Tidy
<1> DEFINE j == Len(r) - Len(w) + i
<1>2. /\ j \in 1 .. Len(r) /\ j - 1 = Len(r) - Len(w) + (i - 1)
      /\ i \in 1 .. Len(w) /\ i - 1 \in 1 .. Len(w)
  BY <1>1
<1>3. w[i] = r[j] /\ w[i - 1] = r[j - 1] BY <1>1, <1>2
<1>4. j \in DOMAIN r BY <1>2
<1> HIDE DEF j
<1> QED BY <1>3, <1>4 DEF WellFormed

LEMMA FirstPartWellFormed ==
  ASSUME NEW a \in Seq(Bytes), NEW b \in Seq(Bytes), WellFormed(a \o b)
  PROVE  WellFormed(a)
<1> DEFINE c == a \o b
<1>1. /\ c \in Seq(Bytes) /\ Len(c) = Len(a) + Len(b) /\ \A i \in 1 .. Len(a) : c[i] = a[i]
  BY Joined
<1>2. WellFormed(c) OBVIOUS
<1> HIDE DEF c
<1> SUFFICES ASSUME NEW i \in 1 .. Len(a), a[i] = "cont" PROVE i > 1 /\ a[i - 1] = "lead"
  BY DEF WellFormed
<1>3. i \in DOMAIN c /\ c[i] = "cont" BY <1>1
<1>4. i > 1 /\ c[i - 1] = "lead" BY <1>2, <1>3 DEF WellFormed
<1>5. i - 1 \in 1 .. Len(a) BY <1>4
<1> QED BY <1>1, <1>4, <1>5

(* The invariant behind it: the pending bytes are the last that came, and   *)
(* what stands behind a forced cut starts a character.                      *)
PendingIsTail == IsTail(pending, received)

CutsAreClean ==
  WellFormed(received) =>
    /\ Clean(ever)
    /\ ~finalized /\ ~retentionEvicted /\ ever # <<>> =>
         (IsCut(ever[Len(ever)]) => pending # <<>> /\ ~StartsInside(pending))

LEMMA AppendCutsClean ==
  ASSUME TypeOK, PendingIsTail, CutsAreClean, NEW chunk \in Chunks, AppendChunk(chunk)
  PROVE  PendingIsTail' /\ CutsAreClean'
<1> DEFINE w   == pending \o chunk
           new == NewLines(w)
           n   == Segments(w, Offset(w))
           s   == received \o chunk
           pp  == StillPending(w)
           all == ever \o new
<1>1. /\ w \in Seq(Bytes) /\ new \in Seq(Line) /\ pending' = pp
      /\ received' = s /\ ever' = all
  BY AppendIs
<1>2. ~finalized /\ ~retentionEvicted BY DEF AppendChunk
<1>3. /\ received \in Seq(Bytes) /\ pending \in Seq(Bytes) /\ ever \in Seq(Line)
      /\ chunk \in Seq(Bytes)
  BY Types, ChunksAre
<1>4. IsTail(w, s) BY <1>3, TailGrows DEF PendingIsTail
<1>5. s \in Seq(Bytes) BY <1>3
<1>6. pending # <<>> => w # <<>> /\ w[1] = pending[1]
  <2>1. Len(w) = Len(pending) + Len(chunk) /\ \A i \in 1 .. Len(pending) : w[i] = pending[i]
    BY <1>3, Joined
  <2> HIDE DEF w
  <2> SUFFICES ASSUME pending # <<>> PROVE w # <<>> /\ w[1] = pending[1] OBVIOUS
  <2>2. Len(pending) \in Nat \ {0} /\ Len(chunk) \in Nat BY <1>3
  <2> QED BY <1>1, <2>1, <2>2
<1>7. IsTail(pp, s)
  <2> DEFINE d == Offset(w)[n]
  <2>1. d \in 0 .. Len(w)
    <3> HIDE DEF w
    <3> QED BY <1>1, NewLinesAre
  <2>2. pp = SubSeq(w, d + 1, Len(w)) BY DEF StillPending
  <2> HIDE DEF w, s, d, pp
  <2> QED BY <1>1, <1>4, <1>5, <2>1, <2>2, TailShrinks
<1>8. WellFormed(s) => WellFormed(received) BY <1>3, FirstPartWellFormed
<1>9. pp \in Seq(Bytes)
  <2> HIDE DEF w
  <2> QED BY <1>1, StillPendingIs
<1> HIDE DEF w, s, pp
<1>10. ASSUME WellFormed(s)
       PROVE  /\ Clean(all)
              /\ all # <<>> /\ IsCut(all[Len(all)]) => pp # <<>> /\ ~StartsInside(pp)
  <2>1. Tidy(w) BY <1>1, <1>4, <1>5, <1>10, TailIsTidy
  <2>2. /\ Clean(new)
        /\ new # <<>> /\ IsCut(new[Len(new)]) => pp # <<>> /\ ~StartsInside(pp)
        /\ new # <<>> /\ new[1].bytes # <<>> => new[1].bytes[1] = w[1]
        /\ new = <<>> => pp = w
    BY <1>1, <2>1, CallIsClean DEF pp
  <2>3. /\ Clean(ever)
        /\ ever # <<>> /\ IsCut(ever[Len(ever)]) => pending # <<>> /\ ~StartsInside(pending)
    BY <1>2, <1>8, <1>10 DEF CutsAreClean
  <2> HIDE DEF new
  <2>4. ever # <<>> /\ new # <<>> /\ IsCut(ever[Len(ever)]) => ~StartsInside(new[1].bytes)
    BY <1>6, <2>2, <2>3 DEF StartsInside
  <2>5. Clean(all) BY <1>1, <1>3, <2>2, <2>3, <2>4, CleanJoined
  <2>6. CASE new = <<>>
    <3>1. all = ever BY <1>3, <2>6, ConcatEmptySeq
    <3> HIDE DEF all
    <3> QED BY <1>6, <2>2, <2>3, <2>5, <2>6, <3>1 DEF StartsInside
  <2>7. CASE new # <<>>
    <3>1. all[Len(all)] = new[Len(new)] BY <1>1, <1>3, <2>7, LastOfJoined
    <3> HIDE DEF all
    <3> QED BY <2>2, <2>5, <2>7, <3>1
  <2> QED BY <2>6, <2>7
<1> HIDE DEF all
<1>11. PendingIsTail' BY <1>1, <1>7 DEF PendingIsTail
<1>12. CutsAreClean' BY <1>1, <1>10 DEF CutsAreClean
<1> QED BY <1>11, <1>12

LEMMA EmptyTail == ASSUME NEW r \in Seq(Bytes) PROVE IsTail(<<>>, r)
<1> DEFINE e == <<>>
<1>1. e \in Seq(Bytes) /\ Len(e) = 0 OBVIOUS
<1> HIDE DEF e
<1>2. Len(e) <= Len(r) /\ \A i \in 1 .. Len(e) : e[i] = r[Len(r) - Len(e) + i]
  <2>1. Len(r) \in Nat OBVIOUS
  <2>2. 1 .. Len(e) = {} BY <1>1
  <2> QED BY <1>1, <2>1, <2>2
<1>3. IsTail(e, r)
  <2>1. e \in Seq(Bytes) BY <1>1
  <2> QED BY <1>2, <2>1, TailByElements
<1> QED BY <1>3 DEF e

LEMMA FinalizeCutsClean ==
  ASSUME TypeOK, CutsAreClean, FinalizeStream
  PROVE  PendingIsTail' /\ CutsAreClean'
<1>1. /\ LastLine \in Seq(Line) /\ pending' = <<>> /\ received' = received
      /\ ever' = ever \o LastLine
  BY FinalizeIs
<1>2. ~finalized /\ ~retentionEvicted /\ finalized' = TRUE BY DEF FinalizeStream
<1>3. received \in Seq(Bytes) /\ ever \in Seq(Line) BY Types
<1>4. PendingIsTail'
  <2>1. IsTail(<<>>, received) BY <1>3, EmptyTail
  <2> QED BY <1>1, <2>1 DEF PendingIsTail
<1>5. LastLine # <<>> => LastLine[1].bytes = pending BY DEF LastLine
<1>6. Clean(LastLine)
  <2>1. Len(LastLine) <= 1 BY DEF LastLine
  <2>2. 1 .. Len(LastLine) - 1 = {} BY <1>1, <2>1
  <2> QED BY <2>2 DEF Clean
<1>7. WellFormed(received) => Clean(ever \o LastLine)
  <2> SUFFICES ASSUME WellFormed(received) PROVE Clean(ever \o LastLine) OBVIOUS
  <2>1. Clean(ever) /\ (ever # <<>> /\ IsCut(ever[Len(ever)]) => ~StartsInside(pending))
    BY <1>2 DEF CutsAreClean
  <2>2. ever # <<>> /\ LastLine # <<>> /\ IsCut(ever[Len(ever)]) => ~StartsInside(LastLine[1].bytes)
    BY <1>5, <2>1
  <2> QED BY <1>1, <1>3, <1>6, <2>1, <2>2, CleanJoined
<1>8. CutsAreClean' BY <1>1, <1>2, <1>7 DEF CutsAreClean
<1> QED BY <1>4, <1>8

LEMMA EvictCutsClean ==
  ASSUME TypeOK, CutsAreClean, EvictAllLines
  PROVE  PendingIsTail' /\ CutsAreClean'
<1>1. /\ pending' = <<>> /\ received' = received /\ ever' = ever /\ finalized' = finalized
      /\ retentionEvicted' = TRUE
  BY DEF EvictAllLines
<1>2. PendingIsTail'
  <2>1. IsTail(<<>>, received) BY Types, EmptyTail
  <2> QED BY <1>1, <2>1 DEF PendingIsTail
<1>3. CutsAreClean' BY <1>1 DEF CutsAreClean
<1> QED BY <1>2, <1>3

LEMMA CleanMeansWhole ==
  ASSUME TypeOK, CutsAreClean
  PROVE  CharactersStayWhole
<1> SUFFICES ASSUME WellFormed(received), NEW i \in 1 .. Len(ever) - 1,
                    ever[i].terminator = "oversized-split", ever[i + 1].bytes # <<>>
             PROVE  ever[i + 1].bytes[1] # "cont"
  BY DEF CharactersStayWhole
<1>1. Clean(ever) BY DEF CutsAreClean
<1> QED BY <1>1 DEF Clean, IsCut, StartsInside

-----------------------------------------------------------------------------
(* The invariant.                                                           *)

StreamInv ==
  /\ TypeOK
  /\ LossIsDisclosed
  /\ BudgetIsKept
  /\ ChunkingIrrelevant
  /\ PartialPends /\ Empties
  /\ PendingIsTail /\ CutsAreClean

LEMMA AppendType ==
  ASSUME TypeOK, LossIsDisclosed, NEW chunk \in Chunks, AppendChunk(chunk)
  PROVE  TypeOK' /\ LossIsDisclosed'
<1> DEFINE w   == pending \o chunk
           new == NewLines(w)
<1>1. /\ w \in Seq(Bytes) /\ new \in Seq(Line) /\ pending' = StillPending(w)
      /\ Dropped(Len(lines) + Len(new) - Len(lines'))
      /\ received' = received \o chunk /\ ever' = ever \o new
      /\ fresh' = (Len(new) > 0)
      /\ \E d \in 0 .. Len(lines \o new) : lines' = Without(lines \o new, d)
  BY AppendIs
<1>2. pending' \in Seq(Bytes) /\ Len(pending') <= MaxLineBytes
  <2> HIDE DEF w
  <2> QED BY <1>1, StillPendingIs DEF Partial
<1> HIDE DEF w, new
<1>3. fragments' = fragments /\ finalized' = finalized /\ retentionEvicted' = retentionEvicted
  BY DEF AppendChunk
<1>4. PICK d \in 0 .. Len(lines \o new) : lines' = Without(lines \o new, d) BY <1>1
<1>5. /\ lines' \in Seq(Line) /\ ever' \in Seq(Line)
      /\ droppedCount' \in Nat /\ truncated' \in BOOLEAN
      /\ LossIsDisclosed'
  BY <1>1, <1>3, <1>4, LossStep
<1>6. received \in Seq(Bytes) /\ fragments \in Nat /\ Flags /\ chunk \in Seq(Bytes)
  BY Types, ChunksAre
<1>7. received' \in Seq(Bytes) BY <1>1, <1>6
<1>8. fresh' \in BOOLEAN BY <1>1
<1>9. finalized' \in BOOLEAN /\ retentionEvicted' \in BOOLEAN BY <1>3, <1>6 DEF Flags
<1>10. {truncated', finalized', retentionEvicted', fresh'} \subseteq BOOLEAN BY <1>5, <1>8, <1>9
<1>11. TypeOK' BY <1>2, <1>3, <1>5, <1>6, <1>7, <1>10 DEF TypeOK, Line
<1> QED BY <1>5, <1>11

LEMMA FinalizeType ==
  ASSUME TypeOK, LossIsDisclosed, FinalizeStream
  PROVE  TypeOK' /\ LossIsDisclosed'
<1>1. /\ LastLine \in Seq(Line) /\ pending' = <<>>
      /\ Dropped(Len(lines) + Len(LastLine) - Len(lines'))
      /\ ever' = ever \o LastLine /\ fresh' = (fresh \/ LastLine # <<>>)
      /\ fragments' = fragments /\ received' = received
      /\ \E d \in 0 .. Len(lines \o LastLine) : lines' = Without(lines \o LastLine, d)
  BY FinalizeIs
<1>2. finalized' = TRUE /\ retentionEvicted' = retentionEvicted BY DEF FinalizeStream
<1>3. PICK d \in 0 .. Len(lines \o LastLine) : lines' = Without(lines \o LastLine, d) BY <1>1
<1>4. /\ lines' \in Seq(Line) /\ ever' \in Seq(Line)
      /\ droppedCount' \in Nat /\ truncated' \in BOOLEAN
      /\ LossIsDisclosed'
  BY <1>1, <1>3, LossStep
<1>5. received \in Seq(Bytes) /\ fragments \in Nat /\ Flags BY Types
<1>6. fresh' \in BOOLEAN BY <1>1, Zenon
<1>7. retentionEvicted' \in BOOLEAN BY <1>2, <1>5 DEF Flags
<1>8. {truncated', finalized', retentionEvicted', fresh'} \subseteq BOOLEAN
  BY <1>2, <1>4, <1>6, <1>7
<1>9. pending' \in Seq(Bytes) /\ Len(pending') <= MaxLineBytes
  <2>1. Len(<<>>) = 0 OBVIOUS
  <2> QED BY <1>1, <2>1, LimitsAssumption
<1>10. TypeOK' BY <1>1, <1>4, <1>5, <1>8, <1>9 DEF TypeOK, Line
<1> QED BY <1>4, <1>10

LEMMA EvictType ==
  ASSUME TypeOK, LossIsDisclosed, EvictAllLines
  PROVE  TypeOK' /\ LossIsDisclosed'
<1>1. /\ pending' = <<>> /\ lines' = <<>> /\ received' = received /\ ever' = ever
      /\ finalized' = finalized /\ retentionEvicted' = TRUE /\ fresh' = FALSE
  BY DEF EvictAllLines
<1>2. /\ droppedCount' \in Nat /\ truncated' \in BOOLEAN /\ fragments' \in Nat
      /\ LossIsDisclosed'
  BY EvictLoses
<1>3. received \in Seq(Bytes) /\ ever \in Seq(Line) /\ Flags BY Types
<1>4. {truncated', finalized', retentionEvicted', fresh'} \subseteq BOOLEAN
  BY <1>1, <1>2, <1>3 DEF Flags
<1>5. pending' \in Seq(Bytes) /\ Len(pending') <= MaxLineBytes /\ lines' \in Seq(Line)
  <2>1. Len(<<>>) = 0 OBVIOUS
  <2> QED BY <1>1, <2>1, LimitsAssumption
<1>6. TypeOK' BY <1>1, <1>2, <1>3, <1>4, <1>5 DEF TypeOK, Line
<1> QED BY <1>2, <1>6

LEMMA LateChunkStep ==
  ASSUME StreamInv, LateChunk
  PROVE  StreamInv'
<1> USE DEF StreamInv
<1>1. UNCHANGED <<pending, lines, finalized, retentionEvicted, received, ever, fresh>>
  BY DEF LateChunk
<1>2. /\ droppedCount' \in Nat /\ truncated' \in BOOLEAN /\ fragments' \in Nat
      /\ LossIsDisclosed'
  BY LateChunkLoses
<1>3. TypeOK'
  <2>1. /\ received \in Seq(Bytes) /\ pending \in Seq(Bytes)
        /\ lines \in Seq(Line) /\ ever \in Seq(Line)
        /\ Flags /\ Len(pending) <= MaxLineBytes
    BY Types
  <2>2. {truncated', finalized', retentionEvicted', fresh'} \subseteq BOOLEAN
    BY <1>1, <1>2, <2>1 DEF Flags
  <2> QED BY <1>1, <1>2, <2>1, <2>2 DEF TypeOK, Line
<1>4. BudgetIsKept' BY <1>1 DEF BudgetIsKept, ResidentBound, OversizedSurvivesItsCall
<1>5. ChunkingIrrelevant' BY <1>1 DEF ChunkingIrrelevant
<1>6. PartialPends' /\ Empties' /\ PendingIsTail' BY <1>1 DEF PartialPends, Empties, PendingIsTail
<1>7. CutsAreClean' BY <1>1 DEF CutsAreClean
<1> QED BY <1>2, <1>3, <1>4, <1>5, <1>6, <1>7

LEMMA StreamInvInit ==
  ASSUME BufferInit
  PROVE  StreamInv
<1>1. /\ pending = <<>> /\ lines = <<>> /\ received = <<>> /\ ever = <<>>
      /\ truncated = FALSE /\ droppedCount = 0 /\ fragments = 0
      /\ finalized = FALSE /\ retentionEvicted = FALSE /\ fresh = FALSE
  BY DEF BufferInit
<1>2. Len(<<>>) = 0 OBVIOUS
<1>3. TypeOK
  <2>1. /\ received \in Seq(Bytes) /\ pending \in Seq(Bytes)
        /\ lines \in Seq(Line) /\ ever \in Seq(Line)
    BY <1>1
  <2>2. droppedCount \in Nat /\ fragments \in Nat BY <1>1
  <2>3. {truncated, finalized, retentionEvicted, fresh} \subseteq BOOLEAN BY <1>1
  <2>4. Len(pending) <= MaxLineBytes BY <1>1, <1>2, LimitsAssumption
  <2> QED BY <2>1, <2>2, <2>3, <2>4 DEF TypeOK, Line
<1>4. LossIsDisclosed BY <1>1, <1>2 DEF LossIsDisclosed
<1>5. BudgetIsKept
  <2>1. lines \in Seq(Line) BY <1>1
  <2>2. TotalBytes(lines) = 0 BY <1>1, <2>1, TotalBytesIs
  <2>3. ResidentBound BY <1>1, <1>2, <2>2, LimitsAssumption DEF ResidentBound
  <2>4. OversizedSurvivesItsCall BY <1>1 DEF OversizedSurvivesItsCall
  <2> QED BY <2>3, <2>4 DEF BudgetIsKept
<1>6. ChunkingIrrelevant
  <2>1. received \in Seq(Bytes) /\ Len(received) = 0 BY <1>1
  <2>2. PICK f \in [0 .. Len(received) -> Reading] : Fed(f, received) BY <2>1, FedExists
  <2>3. ByteByByte(received) = f[Len(received)] BY <2>1, <2>2, ByteByByteIs
  <2>4. f[0] = Nothing BY <2>1, <2>2, FedSteps
  <2>5. ByteByByte(received) = Nothing BY <2>1, <2>3, <2>4
  <2>6. ByteByByte(received).out = <<>> /\ ByteByByte(received).cur = <<>>
    BY <2>5 DEF Nothing
  <2>7. <<>> \o <<>> = <<>> OBVIOUS
  <2> QED BY <1>1, <2>6, <2>7 DEF ChunkingIrrelevant
<1>7. PartialPends BY <1>1, <1>2, LimitsAssumption DEF PartialPends, Partial
<1>8. Empties BY <1>1 DEF Empties
<1>9. PendingIsTail
  <2>1. IsTail(<<>>, received) BY <1>3, Types, EmptyTail
  <2> QED BY <1>1, <2>1 DEF PendingIsTail
<1>10. CutsAreClean
  <2>1. Clean(ever)
    <3>1. 1 .. Len(ever) - 1 = {} BY <1>1, <1>2
    <3> QED BY <3>1 DEF Clean
  <2> QED BY <1>1, <2>1 DEF CutsAreClean
<1> QED BY <1>3, <1>4, <1>5, <1>6, <1>7, <1>8, <1>9, <1>10 DEF StreamInv

LEMMA StreamInvNext ==
  ASSUME StreamInv, [BufferNext]_streamVars
  PROVE  StreamInv'
<1> USE DEF StreamInv
<1>1. ASSUME NEW chunk \in Chunks, AppendChunk(chunk) PROVE StreamInv'
  <2>1. TypeOK' /\ LossIsDisclosed' BY <1>1, AppendType
  <2>2. BudgetIsKept' BY <1>1, AppendKeepsBudget
  <2>3. ChunkingIrrelevant' /\ PartialPends' /\ Empties' BY <1>1, AppendIsByteByByte
  <2>4. PendingIsTail' /\ CutsAreClean' BY <1>1, AppendCutsClean
  <2> QED BY <2>1, <2>2, <2>3, <2>4
<1>2. CASE FinalizeStream
  <2>1. TypeOK' /\ LossIsDisclosed' BY <1>2, FinalizeType
  <2>2. BudgetIsKept' BY <1>2, FinalizeKeepsBudget
  <2>3. ChunkingIrrelevant' /\ PartialPends' /\ Empties' BY <1>2, FinalizeEndsReading
  <2>4. PendingIsTail' /\ CutsAreClean' BY <1>2, FinalizeCutsClean
  <2> QED BY <2>1, <2>2, <2>3, <2>4
<1>3. CASE EvictAllLines
  <2>1. TypeOK' /\ LossIsDisclosed' BY <1>3, EvictType
  <2>2. BudgetIsKept' BY <1>3, EvictKeepsBudget
  <2>3. ChunkingIrrelevant' /\ PartialPends' /\ Empties' BY <1>3, EvictEndsReading
  <2>4. PendingIsTail' /\ CutsAreClean' BY <1>3, EvictCutsClean
  <2> QED BY <2>1, <2>2, <2>3, <2>4
<1>4. CASE LateChunk BY <1>4, LateChunkStep
<1>5. CASE UNCHANGED streamVars
  BY <1>5 DEF streamVars, TypeOK, LossIsDisclosed, BudgetIsKept, ResidentBound,
              OversizedSurvivesItsCall, ChunkingIrrelevant, PartialPends, Empties,
              PendingIsTail, CutsAreClean
<1> QED BY <1>1, <1>2, <1>3, <1>4, <1>5 DEF BufferNext

(* The inductive invariant: besides what is promised, that the pending      *)
(* bytes hold no line and are the last that came, and what stands behind a  *)
(* forced cut.                                                              *)
THEOREM StreamInvariant == BufferSpec => []StreamInv
BY StreamInvInit, StreamInvNext, PTL DEF BufferSpec

(* TypeOK: the variables of a stream's buffer keep their types, and the     *)
(* partial line never outgrows the length at which appendChunkToBuffer cuts *)
(* it, whatever the bytes and however the pipe cuts them.                   *)
THEOREM StreamTypeCorrect == BufferSpec => []TypeOK
<1>1. StreamInv => TypeOK BY DEF StreamInv
<1> QED BY <1>1, StreamInvariant, PTL

(* LossIsDisclosed: what the buffer retains is the newest of what it ever   *)
(* made into lines; each line evicted by the two passes, by the retention   *)
(* sweep or lost to a chunk that came after it is counted once, and         *)
(* truncated says so exactly then.                                          *)
THEOREM LossesAreDisclosed == BufferSpec => []LossIsDisclosed
<1>1. StreamInv => LossIsDisclosed BY DEF StreamInv
<1> QED BY <1>1, StreamInvariant, PTL

(* LinesAreWhole: the lines made of a stream are those its bytes give one   *)
(* at a time, whatever the chunks; no forced cut of a well-formed stream    *)
(* falls inside a character; and what is resident fits the buffer but for   *)
(* the one oversized line of the very call that made it.                    *)
THEOREM LinesStayWhole == BufferSpec => []LinesAreWhole
<1>1. StreamInv => LinesAreWhole BY CleanMeansWhole DEF StreamInv, LinesAreWhole
<1> QED BY <1>1, StreamInvariant, PTL

=============================================================================
