---------------------------- MODULE HistoryProofs ----------------------------
(***************************************************************************)
(* What holds of the history for any number of shells, any lines and any    *)
(* HIST_SZ.                                                                *)
(***************************************************************************)
EXTENDS History, FiniteSetTheorems, SequenceTheorems, TLAPS

(* Sets in their order *)

Below(S, i) == {j \in S : j <= i}
Rank(S, i) == Cardinality(Below(S, i))

\* A member has a rank between one and the size of the set.
LEMMA RankType ==
  ASSUME NEW S \in SUBSET Nat, IsFiniteSet(S), NEW i \in S
  PROVE  IsFiniteSet(Below(S, i)) /\ Rank(S, i) \in 1..Cardinality(S)
<1>1. Below(S, i) \in SUBSET S /\ i \in Below(S, i) /\ Below(S, i) # {}
  BY DEF Below
<1>2. IsFiniteSet(Below(S, i)) /\ Cardinality(Below(S, i)) <= Cardinality(S)
  BY <1>1, FS_Subset
<1>3. Cardinality(Below(S, i)) \in Nat /\ Cardinality(Below(S, i)) # 0 /\ Cardinality(S) \in Nat
  BY <1>1, <1>2, FS_CardinalityType, FS_EmptySet
<1> QED
  BY <1>2, <1>3 DEF Rank

\* A greater member has a greater rank.
LEMMA RankRises ==
  ASSUME NEW S \in SUBSET Nat, IsFiniteSet(S), NEW i \in S, NEW j \in S, i < j
  PROVE  Rank(S, i) < Rank(S, j)
<1>1. i \in Nat /\ j \in Nat
  OBVIOUS
<1>2. \A x \in Below(S, i) : x \in Below(S, j)
  BY <1>1 DEF Below
<1>3. j \in Below(S, j) /\ j \notin Below(S, i)
  BY <1>1 DEF Below
<1>4. IsFiniteSet(Below(S, j)) /\ Rank(S, i) \in Nat /\ Rank(S, j) \in Nat
  BY RankType
<1>5. /\ Cardinality(Below(S, i)) <= Cardinality(Below(S, j))
      /\ Cardinality(Below(S, i)) # Cardinality(Below(S, j))
  BY <1>2, <1>3, <1>4, FS_Subset
<1> QED
  BY <1>4, <1>5 DEF Rank

\* The ranks of different members are different, so each number up to the size is
\* the rank of a member.
LEMMA Ranked ==
  ASSUME NEW S \in SUBSET Nat, IsFiniteSet(S)
  PROVE  \A k \in 1..Cardinality(S) :
           InOrder(S)[k] \in S /\ Rank(S, InOrder(S)[k]) = k
<1> DEFINE R == [i \in S |-> Rank(S, i)]
           K == 1..Cardinality(S)
<1>1. R \in [S -> K]
  BY RankType
<1>2. \A i, j \in S : i # j => Rank(S, i) # Rank(S, j)
  <2>1. \A i, j \in S : i < j => Rank(S, i) < Rank(S, j)
    BY RankRises
  <2>2. \A i \in S : Rank(S, i) \in Nat
    BY RankType
  <2> QED
    BY <2>1, <2>2
<1>3. R \in Injection(S, K)
  BY <1>1, <1>2 DEF Injection, IsInjective
<1>4. IsFiniteSet(K) /\ Cardinality(K) = Cardinality(S)
  BY FS_CardinalityType, FS_Interval
<1>5. R \in Surjection(S, K)
  BY <1>3, <1>4, FS_Injection
<1>6. \A k \in K : \E i \in S : Rank(S, i) = k
  BY <1>5 DEF Surjection
<1>7. \A k \in K : InOrder(S)[k] = CHOOSE i \in S : Rank(S, i) = k
  BY DEF InOrder, Rank, Below
<1> QED
  BY <1>6, <1>7

\* A member stands where its rank says.
LEMMA StandsAtRank ==
  ASSUME NEW S \in SUBSET Nat, IsFiniteSet(S), NEW i \in S
  PROVE  InOrder(S)[Rank(S, i)] = i
<1>1. Rank(S, i) \in 1..Cardinality(S)
  BY RankType
<1>2. PICK j \in S : j = InOrder(S)[Rank(S, i)] /\ Rank(S, j) = Rank(S, i)
  BY <1>1, Ranked
<1>3. i \in Nat /\ j \in Nat /\ Rank(S, i) \in Nat
  BY <1>1
<1>4. ~(i < j) /\ ~(j < i)
  BY <1>2, <1>3, RankRises
<1> QED
  BY <1>2, <1>3, <1>4

\* A number above all the members comes behind them.
LEMMA InOrderAppends ==
  ASSUME NEW S \in SUBSET Nat, IsFiniteSet(S), NEW x \in Nat, \A i \in S : i < x
  PROVE  /\ IsFiniteSet(S \cup {x}) /\ Cardinality(S \cup {x}) = Cardinality(S) + 1
         /\ \A k \in 1..Cardinality(S) : InOrder(S \cup {x})[k] = InOrder(S)[k]
         /\ InOrder(S \cup {x})[Cardinality(S) + 1] = x
<1> DEFINE T == S \cup {x}
<1>1. x \notin S /\ T \in SUBSET Nat
  OBVIOUS
<1>2. IsFiniteSet(T) /\ Cardinality(T) = Cardinality(S) + 1 /\ Cardinality(S) \in Nat
  BY <1>1, FS_AddElement, FS_CardinalityType
<1>3. ASSUME NEW k \in 1..Cardinality(S)
      PROVE  InOrder(T)[k] = InOrder(S)[k]
  <2>1. PICK i \in S : i = InOrder(S)[k] /\ Rank(S, i) = k
    BY Ranked
  <2>2. Below(T, i) = Below(S, i)
    BY DEF Below
  <2>3. Rank(T, i) = k /\ i \in T
    BY <2>1, <2>2 DEF Rank
  <2> QED
    BY <1>1, <1>2, <2>1, <2>3, StandsAtRank
<1>4. Below(T, x) = T
  <2>1. \A i \in T : i <= x
    OBVIOUS
  <2> QED
    BY <2>1 DEF Below
<1>5. InOrder(T)[Cardinality(T)] = x
  BY <1>1, <1>2, <1>4, StandsAtRank DEF Rank
<1> QED
  BY <1>2, <1>3, <1>5

-----------------------------------------------------------------------------
(* The lines of a file *)

Words == Seq(Characters)

\* The ends of the lines of a text are behind its last character at most.
LEMMA EndsFinite ==
  ASSUME NEW chars \in Words
  PROVE  /\ LineEnds(chars) \subseteq 1..(Len(chars) + 1) /\ LineEnds(chars) \in SUBSET Nat
         /\ IsFiniteSet(LineEnds(chars)) /\ Cardinality(LineEnds(chars)) \in Nat
<1>1. Len(chars) \in Nat
  BY LenProperties DEF Words
<1>2. LineEnds(chars) \subseteq 1..(Len(chars) + 1)
  <2>1. \A i \in 1..Len(chars) : i \in 1..(Len(chars) + 1)
    BY <1>1
  <2>2. Len(chars) + 1 \in 1..(Len(chars) + 1)
    BY <1>1
  <2> QED
    BY <2>1, <2>2 DEF LineEnds
<1>3. IsFiniteSet(1..(Len(chars) + 1)) /\ 1..(Len(chars) + 1) \subseteq Nat
  BY <1>1, FS_Interval
<1> QED
  BY <1>2, <1>3, FS_Subset, FS_CardinalityType

\* Where the k-th line of a text begins and ends.
End(chars, k) == InOrder(LineEnds(chars))[k]
Begin(chars, k) == IF k = 1 THEN 1 ELSE End(chars, k - 1) + 1
Line(chars, k) == SubSeq(chars, Begin(chars, k), End(chars, k) - 1)
Count(chars) == Cardinality(LineEnds(chars))

\* A part of a text is a text.
LEMMA PartWords ==
  ASSUME NEW S, NEW s \in Seq(S), NEW m \in Nat, NEW n \in Int, m >= 1, n <= Len(s)
  PROVE  SubSeq(s, m, n) \in Seq(S)
<1>1. \A i \in m..n : s[i] \in S
  BY LenProperties
<1> QED
  BY <1>1, SubSeqProperties

\* The lines are a sequence of texts, as many as there are ends.
LEMMA LinesTyped ==
  ASSUME NEW chars \in Words
  PROVE  /\ Lines(chars) \in Seq(Words) /\ Len(Lines(chars)) = Count(chars)
         /\ \A k \in 1..Count(chars) : Lines(chars)[k] = Line(chars, k)
<1>1. /\ LineEnds(chars) \subseteq 1..(Len(chars) + 1) /\ LineEnds(chars) \in SUBSET Nat
      /\ IsFiniteSet(LineEnds(chars)) /\ Count(chars) \in Nat /\ Len(chars) \in Nat
  BY EndsFinite, LenProperties DEF Count, Words
<1>2. \A k \in 1..Count(chars) : End(chars, k) \in 1..(Len(chars) + 1)
  BY <1>1, Ranked DEF End, Count
<1>3. \A k \in 1..Count(chars) : Begin(chars, k) \in Nat /\ Begin(chars, k) >= 1
  <2>1. \A k \in 1..Count(chars) : k # 1 => k - 1 \in 1..Count(chars)
    BY <1>1
  <2>2. \A i \in 1..(Len(chars) + 1) : i + 1 \in Nat /\ i + 1 >= 1
    BY <1>1
  <2> QED
    BY <1>2, <2>1, <2>2 DEF Begin
<1>4. \A k \in 1..Count(chars) : Line(chars, k) \in Words
  BY <1>1, <1>2, <1>3, PartWords DEF Line, Words
<1>5. Lines(chars) = [k \in 1..Count(chars) |-> Line(chars, k)]
  BY DEF Lines, InOrder, Line, Begin, End, Count
<1>6. Lines(chars) \in [1..Count(chars) -> Words]
  BY <1>4, <1>5
<1>7. Lines(chars) \in Seq(Words)
  BY <1>1, <1>6, SeqDef
<1>8. Len(Lines(chars)) = Count(chars)
  BY <1>1, <1>6, <1>7, LenProperties
<1> QED
  BY <1>5, <1>7, <1>8

\* An empty file has no line.
LEMMA LinesOfNothing == <<>> \in Words /\ Lines(<<>>) = <<>>
<1>1. <<>> \in Words /\ Len(<<>>) = 0
  BY EmptySeq DEF Words
<1>2. LineEnds(<<>>) = {}
  BY <1>1 DEF LineEnds
<1>3. Len(Lines(<<>>)) = 0 /\ Lines(<<>>) \in Seq(Words)
  BY <1>1, <1>2, LinesTyped, FS_EmptySet DEF Count
<1> QED
  BY <1>1, <1>3, EmptySeq

Plain(text) == \A i \in 1..Len(text) : text[i] # Newline
Whole(chars) == chars = <<>> \/ chars[Len(chars)] = Newline

\* A plain text and a newline, behind whole lines, are one line more.
LEMMA LinesAppend ==
  ASSUME NEW chars \in Words, Whole(chars), NEW text \in Words, Plain(text)
  PROVE  LET longer == chars \o Append(text, Newline)
         IN /\ longer \in Words /\ Whole(longer)
            /\ Lines(longer) = Append(Lines(chars), text)
<1> DEFINE longer == chars \o Append(text, Newline)
           n == Len(chars)
           m == Len(text)
           x == n + m + 1
<1>1. n \in Nat /\ m \in Nat /\ x \in Nat
  BY LenProperties DEF Words
<1>2. Newline \in Characters
  BY DEF Characters
<1>3. /\ Append(text, Newline) \in Words /\ Len(Append(text, Newline)) = m + 1
      /\ \A i \in 1..m : Append(text, Newline)[i] = text[i]
      /\ Append(text, Newline)[m + 1] = Newline
  BY <1>2, AppendProperties DEF Words
<1>4. /\ longer \in Words /\ Len(longer) = x
      /\ \A i \in 1..x : longer[i] = IF i <= n THEN chars[i] ELSE Append(text, Newline)[i - n]
  BY <1>1, <1>3, ConcatProperties DEF Words
<1>5. \A i \in 1..n : longer[i] = chars[i]
  BY <1>1, <1>4
<1>6. \A i \in 1..m : longer[n + i] = text[i]
  BY <1>1, <1>3, <1>4
<1>7. longer[x] = Newline
  BY <1>1, <1>3, <1>4
<1> HIDE DEF longer, n, m, x
<1>8. Whole(longer) /\ longer # <<>>
  BY <1>1, <1>4, <1>7, EmptySeq DEF Whole, x
<1>9. LineEnds(chars) = {i \in 1..n : chars[i] = Newline}
  BY DEF LineEnds, Whole, n
<1>10. LineEnds(longer) = LineEnds(chars) \cup {x}
  <2>1. LineEnds(longer) = {i \in 1..x : longer[i] = Newline}
    BY <1>4, <1>8 DEF LineEnds, Whole
  <2>2. \A i \in 1..x : i \in 1..n \/ (i - n \in 1..m /\ i = n + (i - n)) \/ i = x
    BY <1>1 DEF x
  <2>3. \A i \in 1..x : longer[i] = Newline => i \in LineEnds(chars) \/ i = x
    <3>1. ASSUME NEW i \in 1..x, longer[i] = Newline, i - n \in 1..m, i = n + (i - n)
          PROVE  FALSE
      BY <1>6, <3>1 DEF Plain, m
    <3> QED
      BY <1>5, <1>9, <2>2, <3>1
  <2>4. x \in 1..x /\ \A i \in 1..n : i \in 1..x
    BY <1>1 DEF x
  <2> QED
    BY <1>5, <1>7, <1>9, <2>1, <2>3, <2>4
<1>11. /\ LineEnds(chars) \in SUBSET Nat /\ IsFiniteSet(LineEnds(chars))
       /\ Count(chars) \in Nat
  BY EndsFinite DEF Count
<1>12. /\ Count(longer) = Count(chars) + 1
       /\ \A k \in 1..Count(chars) : End(longer, k) = End(chars, k)
       /\ End(longer, Count(chars) + 1) = x
  <2>1. \A i \in LineEnds(chars) : i < x
    BY <1>1, <1>9 DEF x
  <2> QED
    BY <1>1, <1>10, <1>11, <2>1, InOrderAppends DEF Count, End
<1>13. \A k \in 1..Count(chars) : End(chars, k) \in 1..n
  BY <1>9, <1>11, Ranked DEF Count, End
<1>14. \A k \in 1..Count(chars) :
         Begin(longer, k) = Begin(chars, k) /\ Begin(chars, k) \in Nat /\ Begin(chars, k) >= 1
  <2>1. \A k \in 1..Count(chars) : k # 1 => k - 1 \in 1..Count(chars)
    BY <1>11
  <2>2. \A k \in 1..n : k + 1 \in Nat /\ k + 1 >= 1
    BY <1>1
  <2> QED
    BY <1>12, <1>13, <2>1, <2>2 DEF Begin
<1>15. ASSUME NEW k \in 1..Count(chars)
       PROVE  Line(longer, k) = Line(chars, k)
  <2> DEFINE a == Begin(chars, k)
             b == End(chars, k) - 1
  <2>1. a \in Nat /\ a >= 1 /\ b \in Int /\ b <= n /\ b <= x
    BY <1>1, <1>13, <1>14 DEF x
  <2>2. Line(longer, k) = SubSeq(longer, a, b) /\ Line(chars, k) = SubSeq(chars, a, b)
    BY <1>12, <1>14 DEF Line
  <2> HIDE DEF a, b
  <2>3. /\ \A i \in a..b : chars[i] \in Characters
        /\ \A i \in a..b : longer[i] \in Characters /\ longer[i] = chars[i]
    <3>1. \A i \in a..b : i \in 1..n /\ i \in 1..x
      BY <1>1, <2>1
    <3> QED
      BY <1>4, <1>5, <3>1, ElementOfSeq DEF Words, n
  <2>4. /\ SubSeq(chars, a, b) \in Seq(Characters)
        /\ Len(SubSeq(chars, a, b)) = IF a <= b THEN b - a + 1 ELSE 0
        /\ \A i \in 1..(b - a + 1) : SubSeq(chars, a, b)[i] = chars[a + i - 1]
    BY <2>1, <2>3, SubSeqProperties
  <2>5. /\ SubSeq(longer, a, b) \in Seq(Characters)
        /\ Len(SubSeq(longer, a, b)) = IF a <= b THEN b - a + 1 ELSE 0
        /\ \A i \in 1..(b - a + 1) : SubSeq(longer, a, b)[i] = longer[a + i - 1]
    BY <2>1, <2>3, SubSeqProperties
  <2>6. \A i \in 1..(b - a + 1) : a + i - 1 \in a..b
    BY <2>1
  <2>7. \A i \in 1..Len(SubSeq(longer, a, b)) : i \in 1..(b - a + 1)
    BY <2>1, <2>5
  <2> QED
    BY <2>2, <2>3, <2>4, <2>5, <2>6, <2>7, SeqEqual
<1>16. Begin(longer, Count(chars) + 1) = n + 1
  <2>1. CASE chars = <<>>
    <3>1. n = 0 /\ LineEnds(chars) = {}
      BY <2>1, <1>1, <1>9, EmptySeq DEF n
    <3> QED
      BY <3>1, FS_EmptySet DEF Begin, Count
  <2>2. CASE chars # <<>>
    <3>1. n \in 1..n /\ n \in LineEnds(chars)
      BY <2>2, <1>1, <1>9, EmptySeq DEF Whole, n, Words
    <3>2. \A i \in LineEnds(chars) : i <= n
      BY <1>1, <1>9
    <3>3. Below(LineEnds(chars), n) = LineEnds(chars)
      BY <3>2 DEF Below
    <3>4. Rank(LineEnds(chars), n) = Count(chars) /\ Count(chars) \in 1..Count(chars)
      BY <1>11, <3>1, <3>3, RankType DEF Rank, Count
    <3>5. End(chars, Count(chars)) = n
      BY <1>11, <3>1, <3>4, StandsAtRank DEF End
    <3>6. Count(chars) + 1 # 1 /\ Count(chars) + 1 - 1 = Count(chars)
      BY <1>11, <3>4
    <3> QED
      BY <1>12, <3>4, <3>5, <3>6 DEF Begin
  <2> QED
    BY <2>1, <2>2
<1>17. Line(longer, Count(chars) + 1) = text
  <2>1. Line(longer, Count(chars) + 1) = SubSeq(longer, n + 1, n + m)
    BY <1>1, <1>12, <1>16 DEF Line, x
  <2>2. \A i \in (n + 1)..(n + m) : i \in 1..x
    BY <1>1 DEF x
  <2>3. \A i \in (n + 1)..(n + m) : longer[i] \in Characters
    BY <1>4, <2>2, ElementOfSeq DEF Words
  <2>4. n + 1 \in Int /\ n + m \in Int /\ (n + m) - (n + 1) + 1 = m
    BY <1>1
  <2>5. /\ SubSeq(longer, n + 1, n + m) \in Seq(Characters)
        /\ Len(SubSeq(longer, n + 1, n + m)) = m
        /\ \A i \in 1..m : SubSeq(longer, n + 1, n + m)[i] = longer[n + 1 + i - 1]
    BY <1>1, <2>3, <2>4, SubSeqProperties
  <2>6. \A i \in 1..m : n + 1 + i - 1 = n + i
    BY <1>1
  <2> QED
    BY <1>6, <2>1, <2>5, <2>6, SeqEqual DEF Words, m
<1>18. /\ Lines(longer) \in Seq(Words) /\ Len(Lines(longer)) = Count(chars) + 1
       /\ \A k \in 1..(Count(chars) + 1) : Lines(longer)[k] = Line(longer, k)
  BY <1>4, <1>12, LinesTyped
<1>19. /\ Lines(chars) \in Seq(Words) /\ Len(Lines(chars)) = Count(chars)
       /\ \A k \in 1..Count(chars) : Lines(chars)[k] = Line(chars, k)
  BY LinesTyped
<1>20. /\ Append(Lines(chars), text) \in Seq(Words)
       /\ Len(Append(Lines(chars), text)) = Count(chars) + 1
       /\ \A k \in 1..Count(chars) : Append(Lines(chars), text)[k] = Line(chars, k)
       /\ Append(Lines(chars), text)[Count(chars) + 1] = text
  BY <1>19, AppendProperties
<1>21. \A k \in 1..(Count(chars) + 1) : Lines(longer)[k] = Append(Lines(chars), text)[k]
  <2>1. \A k \in 1..(Count(chars) + 1) : k \in 1..Count(chars) \/ k = Count(chars) + 1
    BY <1>11
  <2> QED
    BY <1>15, <1>17, <1>18, <1>20, <2>1
<1>22. Lines(longer) = Append(Lines(chars), text)
  BY <1>18, <1>20, <1>21, SeqEqual
<1> QED
  BY <1>4, <1>8, <1>22 DEF longer

-----------------------------------------------------------------------------
(* What is written and what is added *)

\* The greater of two numbers.
LEMMA MaxOfTwo ==
  ASSUME NEW a \in Int, NEW b \in Int
  PROVE  Max({a, b}) = IF a >= b THEN a ELSE b
<1> DEFINE m == IF a >= b THEN a ELSE b
<1>1. m \in {a, b} /\ \A y \in {a, b} : m >= y
  OBVIOUS
<1>2. \A x \in {a, b} : (\A y \in {a, b} : x >= y) => x = m
  OBVIOUS
<1> HIDE DEF m
<1>3. Max({a, b}) = m
  BY <1>1, <1>2 DEF Max
<1> QED
  BY <1>3 DEF m

\* The lesser of two numbers.
LEMMA MinOfTwo ==
  ASSUME NEW a \in Int, NEW b \in Int
  PROVE  Min({a, b}) = IF a <= b THEN a ELSE b
<1> DEFINE m == IF a <= b THEN a ELSE b
<1>1. m \in {a, b} /\ \A y \in {a, b} : m <= y
  OBVIOUS
<1>2. \A x \in {a, b} : (\A y \in {a, b} : x <= y) => x = m
  OBVIOUS
<1> HIDE DEF m
<1>3. Min({a, b}) = m
  BY <1>1, <1>2 DEF Min
<1> QED
  BY <1>3 DEF m

\* A text written to the file gives a text; one written at its end is added to it.
LEMMA Writes ==
  ASSUME file \in Words, NEW text \in Words, NEW at \in Nat
  PROVE  /\ Written(text, at) \in Words
         /\ at = Len(file) => Written(text, at) = file \o text
<1> DEFINE n == Len(file)
           m == Len(text)
           long == Max({n, at + m})
<1>1. n \in Nat /\ m \in Nat /\ at + m \in Nat
  BY LenProperties DEF Words
<1>2. long \in Nat /\ (at = n => long = n + m) /\ (long = n \/ long = at + m)
  BY <1>1, MaxOfTwo
<1>3. /\ \A i \in 1..n : file[i] \in Characters
      /\ \A i \in 1..m : text[i] \in Characters
      /\ Nul \in Characters
  BY ElementOfSeq DEF Words, Characters
<1> HIDE DEF n, m, long
<1>4. Written(text, at) =
        [i \in 1..long |-> IF i > at /\ i <= at + m THEN text[i - at]
                           ELSE IF i <= n THEN file[i] ELSE Nul]
  BY DEF Written, long, n, m
<1>5. \A i \in 1..long : i > at /\ i <= at + m => i - at \in 1..m
  BY <1>1, <1>2
<1>6. \A i \in 1..long : i <= n => i \in 1..n
  BY <1>1, <1>2
<1>7. Written(text, at) \in [1..long -> Characters]
  BY <1>3, <1>4, <1>5, <1>6
<1>8. Written(text, at) \in Words
  BY <1>2, <1>7, SeqDef DEF Words
<1>9. Len(Written(text, at)) = long
  BY <1>2, <1>7, <1>8, LenProperties DEF Words
<1>10. ASSUME at = n
       PROVE  Written(text, at) = file \o text
  <2>1. /\ file \o text \in Words /\ Len(file \o text) = n + m
        /\ \A i \in 1..(n + m) : (file \o text)[i] = IF i <= n THEN file[i] ELSE text[i - n]
    BY ConcatProperties DEF Words, n, m
  <2>2. \A i \in 1..(n + m) : (i > n /\ i <= n + m) <=> ~(i <= n)
    BY <1>1
  <2>3. \A i \in 1..(n + m) : Written(text, at)[i] = (file \o text)[i]
    BY <1>2, <1>4, <1>10, <2>1, <2>2
  <2> QED
    BY <1>2, <1>8, <1>9, <1>10, <2>1, <2>3, SeqEqual DEF Words
<1> QED
  BY <1>8, <1>10 DEF n

\* The texts a user enters are plain.
LEMMA TextsPlain ==
  ASSUME NEW text \in Texts
  PROVE  text \in Words /\ Plain(text)
<1>1. text \in Seq(ToSet(text)) /\ {Newline, Nul} \cap ToSet(text) = {}
  BY HistoryAssumption
<1>2. ToSet(text) \subseteq Characters
  BY DEF Characters
<1>3. text \in Words
  BY <1>1, <1>2, SeqMonotonic DEF Words
<1>4. DOMAIN text = 1..Len(text)
  BY <1>1, LenProperties
<1> QED
  BY <1>1, <1>3, <1>4 DEF Plain, ToSet

PlainLines(lines) == \A k \in 1..Len(lines) : Plain(lines[k])

\* The last HIST_SZ of some lines.
Latest(lines) == SubSeq(lines, Max({0, Len(lines) - HIST_SZ}) + 1, Len(lines))

\* What is in a history once a line is added.
LEMMA AddedTyped ==
  ASSUME NEW lines \in Seq(Words), NEW text \in Words
  PROVE  /\ Added(lines, text) \in Seq(Words)
         /\ Len(lines) <= HIST_SZ => Len(Added(lines, text)) <= HIST_SZ
         /\ PlainLines(lines) /\ Plain(text) => PlainLines(Added(lines, text))
<1> DEFINE rest == IF Len(lines) = HIST_SZ THEN Tail(lines) ELSE lines
<1>1. Len(lines) \in Nat /\ HIST_SZ \in Nat /\ HIST_SZ > 0
  BY LenProperties, HistoryAssumption
<1>2. /\ rest \in Seq(Words) /\ Len(rest) \in Nat
      /\ Len(lines) <= HIST_SZ => Len(rest) + 1 <= HIST_SZ
      /\ PlainLines(lines) => \A k \in 1..Len(rest) : Plain(rest[k])
  <2>1. CASE Len(lines) = HIST_SZ
    <3>1. lines # <<>>
      BY <1>1, <2>1, EmptySeq
    <3>2. /\ rest = Tail(lines) /\ rest \in Seq(Words) /\ Len(rest) = Len(lines) - 1
          /\ \A i \in 1..Len(rest) : rest[i] = lines[i + 1]
      BY <2>1, <3>1, HeadTailProperties
    <3> HIDE DEF rest
    <3>3. \A i \in 1..Len(rest) : i + 1 \in 1..Len(lines)
      BY <1>1, <3>2
    <3>4. Len(rest) \in Nat /\ Len(rest) + 1 <= HIST_SZ
      BY <1>1, <2>1, <3>2
    <3> QED
      BY <3>2, <3>3, <3>4 DEF PlainLines
  <2>2. CASE Len(lines) # HIST_SZ
    <3>1. rest = lines
      BY <2>2
    <3> HIDE DEF rest
    <3>2. Len(lines) <= HIST_SZ => Len(lines) + 1 <= HIST_SZ
      BY <1>1, <2>2
    <3> QED
      BY <1>1, <3>1, <3>2 DEF PlainLines
  <2> QED
    BY <2>1, <2>2
<1>3. Added(lines, text) = Append(rest, text)
  BY DEF Added
<1> HIDE DEF rest
<1>4. /\ Append(rest, text) \in Seq(Words) /\ Len(Append(rest, text)) = Len(rest) + 1
      /\ \A i \in 1..Len(rest) : Append(rest, text)[i] = rest[i]
      /\ Append(rest, text)[Len(rest) + 1] = text
  BY <1>2, AppendProperties
<1>5. \A k \in 1..(Len(rest) + 1) : k \in 1..Len(rest) \/ k = Len(rest) + 1
  BY <1>2
<1> QED
  BY <1>2, <1>3, <1>4, <1>5 DEF PlainLines

\* Where the last HIST_SZ of some lines are.
LEMMA LatestLines ==
  ASSUME NEW lines \in Seq(Words)
  PROVE  LET from == Max({0, Len(lines) - HIST_SZ})
         IN /\ from = IF Len(lines) >= HIST_SZ THEN Len(lines) - HIST_SZ ELSE 0
            /\ Latest(lines) \in Seq(Words) /\ Len(Latest(lines)) = Len(lines) - from
            /\ Len(Latest(lines)) <= HIST_SZ
            /\ \A i \in 1..(Len(lines) - from) : Latest(lines)[i] = lines[from + i]
<1> DEFINE from == Max({0, Len(lines) - HIST_SZ})
           n == Len(lines)
<1>1. n \in Nat /\ HIST_SZ \in Nat /\ HIST_SZ > 0
  BY LenProperties, HistoryAssumption
<1>2. from = IF n >= HIST_SZ THEN n - HIST_SZ ELSE 0
  BY <1>1, MaxOfTwo
<1>3. Latest(lines) = SubSeq(lines, from + 1, n)
  BY DEF Latest
<1>4. \A i \in 1..n : lines[i] \in Words
  BY ElementOfSeq
<1> HIDE DEF from, n
<1>5. from \in Nat /\ from <= n /\ n - from <= HIST_SZ
  BY <1>1, <1>2
<1>6. \A i \in (from + 1)..n : lines[i] \in Words
  BY <1>1, <1>4, <1>5
<1>7. from + 1 \in Int /\ n \in Int /\ n - (from + 1) + 1 = n - from
  BY <1>1, <1>5
<1>8. /\ SubSeq(lines, from + 1, n) \in Seq(Words)
      /\ Len(SubSeq(lines, from + 1, n)) = IF from + 1 <= n THEN n - (from + 1) + 1 ELSE 0
      /\ \A i \in 1..(n - (from + 1) + 1) : SubSeq(lines, from + 1, n)[i] = lines[from + 1 + i - 1]
  BY <1>6, <1>7, SubSeqProperties
<1>9. \A i \in 1..(n - from) : from + 1 + i - 1 = from + i
  BY <1>1, <1>5
<1>10. (IF from + 1 <= n THEN n - (from + 1) + 1 ELSE 0) = n - from
  BY <1>1, <1>5
<1> QED
  BY <1>2, <1>3, <1>5, <1>7, <1>8, <1>9, <1>10 DEF from, n

\* The limit is tested for equality; that is enough for the last HIST_SZ lines.
LEMMA AddedIsLatest ==
  ASSUME NEW lines \in Seq(Words), NEW text \in Words
  PROVE  Added(Latest(lines), text) = Latest(Append(lines, text))
<1> DEFINE n == Len(lines)
           from == Max({0, n - HIST_SZ})
           more == Append(lines, text)
           next == Max({0, Len(more) - HIST_SZ})
           last == Latest(lines)
<1>1. n \in Nat /\ HIST_SZ \in Nat /\ HIST_SZ > 0
  BY LenProperties, HistoryAssumption
<1>2. /\ more \in Seq(Words) /\ Len(more) = n + 1
      /\ \A i \in 1..n : more[i] = lines[i]
      /\ more[n + 1] = text
  BY AppendProperties
<1>3. /\ from = IF n >= HIST_SZ THEN n - HIST_SZ ELSE 0
      /\ last \in Seq(Words) /\ Len(last) = n - from
      /\ \A i \in 1..(n - from) : last[i] = lines[from + i]
  BY LatestLines
<1>4. /\ next = IF n + 1 >= HIST_SZ THEN n + 1 - HIST_SZ ELSE 0
      /\ Latest(more) \in Seq(Words) /\ Len(Latest(more)) = n + 1 - next
      /\ \A i \in 1..(n + 1 - next) : Latest(more)[i] = more[next + i]
  <2> HIDE DEF more, n
  <2>1. /\ next = IF Len(more) >= HIST_SZ THEN Len(more) - HIST_SZ ELSE 0
        /\ Latest(more) \in Seq(Words) /\ Len(Latest(more)) = Len(more) - next
        /\ \A i \in 1..(Len(more) - next) : Latest(more)[i] = more[next + i]
    BY <1>2, LatestLines
  <2> HIDE DEF next
  <2>2. Len(more) = n + 1
    BY <1>2
  <2>3. n \in Nat /\ HIST_SZ \in Nat
    BY <1>1
  <2> QED
    BY <2>1, <2>2, <2>3
<1>5. Added(last, text) = Append(IF Len(last) = HIST_SZ THEN Tail(last) ELSE last, text)
  BY DEF Added
<1> HIDE DEF n, from, more, next, last
<1>6. CASE n >= HIST_SZ
  <2>1. from = n - HIST_SZ /\ next = from + 1 /\ Len(last) = HIST_SZ
    BY <1>1, <1>3, <1>4, <1>6
  <2>2. last # <<>>
    BY <1>1, <2>1, EmptySeq
  <2>3. /\ Tail(last) \in Seq(Words) /\ Len(Tail(last)) = HIST_SZ - 1
        /\ \A i \in 1..(HIST_SZ - 1) : Tail(last)[i] = last[i + 1]
    BY <1>3, <2>1, <2>2, HeadTailProperties
  <2>4. /\ Added(last, text) \in Seq(Words) /\ Len(Added(last, text)) = HIST_SZ - 1 + 1
        /\ \A i \in 1..(HIST_SZ - 1) : Added(last, text)[i] = Tail(last)[i]
        /\ Added(last, text)[HIST_SZ - 1 + 1] = text
    BY <1>5, <2>1, <2>3, AppendProperties
  <2>5. Len(Latest(more)) = HIST_SZ /\ HIST_SZ - 1 + 1 = HIST_SZ
    BY <1>1, <1>4, <2>1
  <2>6. ASSUME NEW i \in 1..HIST_SZ
        PROVE  Added(last, text)[i] = Latest(more)[i]
    <3>1. i \in 1..(n + 1 - next) /\ Latest(more)[i] = more[next + i]
      BY <1>1, <1>4, <2>1
    <3>2. CASE i = HIST_SZ
      <4>1. next + i = n + 1
        BY <1>1, <2>1, <3>2
      <4> QED
        BY <1>2, <2>4, <2>5, <3>1, <3>2, <4>1
    <3>3. CASE i # HIST_SZ
      <4>1. /\ i \in 1..(HIST_SZ - 1) /\ i + 1 \in 1..(n - from)
            /\ from + (i + 1) = next + i /\ next + i \in 1..n
        BY <1>1, <1>6, <2>1, <3>3
      <4>2. Added(last, text)[i] = lines[from + (i + 1)]
        BY <1>3, <2>3, <2>4, <4>1
      <4> QED
        BY <1>2, <3>1, <4>1, <4>2
    <3> QED
      BY <3>2, <3>3
  <2> QED
    BY <1>4, <2>4, <2>5, <2>6, SeqEqual DEF last, more
<1>7. CASE n < HIST_SZ
  <2>1. from = 0 /\ next = 0 /\ Len(last) = n /\ Len(last) # HIST_SZ
    BY <1>1, <1>3, <1>4, <1>7
  <2>2. /\ Added(last, text) \in Seq(Words) /\ Len(Added(last, text)) = n + 1
        /\ \A i \in 1..n : Added(last, text)[i] = last[i]
        /\ Added(last, text)[n + 1] = text
    BY <1>3, <1>5, <2>1, AppendProperties
  <2>3. \A i \in 1..n : 0 + i = i /\ i \in 1..(n - 0) /\ last[i] = lines[i]
    BY <1>1, <1>3, <2>1
  <2>4. Len(Latest(more)) = n + 1 /\ \A i \in 1..(n + 1) : Latest(more)[i] = more[i]
    BY <1>1, <1>4, <2>1
  <2>5. \A i \in 1..(n + 1) : i \in 1..n \/ i = n + 1
    BY <1>1
  <2>6. \A i \in 1..(n + 1) : Added(last, text)[i] = Latest(more)[i]
    BY <1>2, <2>2, <2>3, <2>4, <2>5
  <2> QED
    BY <1>4, <2>2, <2>4, <2>6, SeqEqual DEF last, more
<1> QED
  BY <1>1, <1>6, <1>7

-----------------------------------------------------------------------------
(* The invariant *)

Types ==
  /\ file \in Words /\ saved \in Seq(Words)
  /\ pc \in [Shells -> {"off", "loading", "reading", "saving"}]
  /\ buffer \in [Shells -> Words]
  /\ history \in [Shells -> Seq(Words)] /\ curr \in [Shells -> Nat]
  /\ ctrlC \in [Shells -> BOOLEAN] /\ offset \in [Shells -> Nat]
  /\ entered \in [Shells -> Seq(Words)] /\ overlapped \in BOOLEAN

\* A shell that does not save has written nothing.
Offsets == \A s \in Shells : ~Saving(s) => offset[s] = 0

\* What a shell that reads recalls, and what one that saves has still to write.
Recalls(s) == history[s] = Latest(entered[s]) /\ PlainLines(entered[s])
Saves(s) == offset[s] = Len(file) /\ saved = Lines(file) \o history[s]

\* What a shell that loads has read is the beginning of the file as it is now.
Loads(s) ==
  /\ Len(buffer[s]) <= Len(file)
  /\ \A i \in 1..Len(buffer[s]) : buffer[s][i] = file[i]

\* The lines of the file are the first of the last history that was saved, and that
\* history is short enough and has plain lines only: so it is again for the shell
\* that reads it.  The file only grows while a shell loads it.
Orderly ==
  /\ Len(saved) <= HIST_SZ /\ PlainLines(saved)
  /\ Whole(file) /\ IsPrefix(Lines(file), saved)
  /\ \A s, t \in Shells : Saving(s) /\ Saving(t) => s = t
  /\ \A s \in Shells : /\ Reading(s) => Recalls(s)
                       /\ Saving(s) => Saves(s)
                       /\ Loading(s) => Loads(s)

HInv == Types /\ Offsets /\ CursorInside /\ (~overlapped => Orderly)

\* Nothing changes for the other shells.
OthersKept(s) ==
  \A t \in Shells \ {s} :
    /\ pc'[t] = pc[t] /\ history'[t] = history[t] /\ curr'[t] = curr[t]
    /\ offset'[t] = offset[t] /\ entered'[t] = entered[t] /\ buffer'[t] = buffer[t]

\* The lines of the file, when the shells kept order: few, and plain.
LEMMA FileFits ==
  ASSUME Types, Orderly
  PROVE  /\ Lines(file) \in Seq(Words) /\ Len(Lines(file)) <= HIST_SZ
         /\ PlainLines(Lines(file))
<1> DEFINE lines == Lines(file)
           n == Len(lines)
<1>1. lines \in Seq(Words) /\ n \in Nat /\ Len(saved) \in Nat /\ HIST_SZ \in Nat
  BY LinesTyped, LenProperties, HistoryAssumption DEF Types
<1>2. n <= Len(saved) /\ SubSeq(lines, 1, n) = SubSeq(saved, 1, n)
  BY DEF Orderly, IsPrefix
<1> HIDE DEF lines, n
<1>3. \A i \in 1..n : saved[i] \in Words
  <2>1. \A i \in 1..n : i \in 1..Len(saved)
    BY <1>1, <1>2
  <2> QED
    BY <2>1, ElementOfSeq DEF Types
<1>4. \A i \in 1..(n - 1 + 1) : SubSeq(saved, 1, n)[i] = saved[1 + i - 1]
  BY <1>1, <1>3, SubSeqProperties
<1>5. SubSeq(lines, 1, n) = lines
  BY <1>1, SubSeqFull DEF n
<1>6. \A i \in 1..n : lines[i] = saved[i] /\ i \in 1..Len(saved)
  <2>1. \A i \in 1..n : i \in 1..(n - 1 + 1) /\ 1 + i - 1 = i /\ i \in 1..Len(saved)
    BY <1>1, <1>2
  <2> QED
    BY <1>2, <1>4, <1>5, <2>1
<1>7. PlainLines(lines)
  BY <1>6 DEF Orderly, PlainLines, n
<1>8. n <= HIST_SZ
  BY <1>1, <1>2 DEF Orderly
<1> QED
  BY <1>1, <1>7, <1>8 DEF lines, n

\* Lines that are few enough are all among the last.
LEMMA AllAreLatest ==
  ASSUME NEW lines \in Seq(Words), Len(lines) <= HIST_SZ
  PROVE  Latest(lines) = lines
<1>1. Len(lines) \in Nat /\ HIST_SZ \in Nat /\ HIST_SZ > 0
  BY LenProperties, HistoryAssumption
<1>2. Max({0, Len(lines) - HIST_SZ}) = 0
  BY <1>1, MaxOfTwo
<1>3. Latest(lines) = SubSeq(lines, 0 + 1, Len(lines))
  BY <1>2 DEF Latest
<1>4. 0 + 1 = 1
  OBVIOUS
<1> QED
  BY <1>3, <1>4, SubSeqFull

\* A step of a shell that leaves the file alone, and after which the shell does not
\* save.
LEMMA AsideKeeps ==
  ASSUME HInv, Types', NEW s \in Shells, OthersKept(s),
         UNCHANGED <<file, saved, overlapped>>,
         ~Saving(s)', offset'[s] = 0,
         Reading(s)' /\ history'[s] # <<>> => curr'[s] \in 0..Len(history'[s]),
         ~overlapped /\ Reading(s)' => Recalls(s)',
         ~overlapped /\ Loading(s)' => Loads(s)'
  PROVE  HInv'
<1>1. Offsets'
  BY DEF HInv, Offsets, Saving, OthersKept
<1>2. CursorInside'
  BY DEF HInv, CursorInside, Reading, OthersKept
<1>3. ASSUME ~overlapped'
      PROVE  Orderly'
  <2>1. ~overlapped /\ Orderly
    BY <1>3 DEF HInv
  <2>2. (Len(saved) <= HIST_SZ /\ PlainLines(saved))'
    BY <2>1 DEF Orderly, PlainLines
  <2>3. (Whole(file) /\ IsPrefix(Lines(file), saved))'
    BY <2>1 DEF Orderly
  <2>4. \A t, u \in Shells : Saving(t)' /\ Saving(u)' => t = u
    BY <2>1 DEF Orderly, Saving, OthersKept
  <2>5. ASSUME NEW t \in Shells
        PROVE  /\ Reading(t)' => Recalls(t)'
               /\ Saving(t)' => Saves(t)'
               /\ Loading(t)' => Loads(t)'
    <3>1. CASE t = s
      BY <2>1, <3>1
    <3>2. CASE t # s
      <4>1. /\ Reading(t)' <=> Reading(t)
            /\ Saving(t)' <=> Saving(t)
            /\ Loading(t)' <=> Loading(t)
        BY <3>2 DEF Reading, Saving, Loading, OthersKept
      <4>2. Recalls(t) => Recalls(t)'
        BY <3>2 DEF Recalls, OthersKept
      <4>3. Saves(t) => Saves(t)'
        BY <3>2 DEF Saves, OthersKept
      <4>4. Loads(t) => Loads(t)'
        BY <3>2 DEF Loads, OthersKept
      <4> QED
        BY <2>1, <4>1, <4>2, <4>3, <4>4 DEF Orderly
    <3> QED
      BY <3>1, <3>2
  <2> QED
    BY <2>2, <2>3, <2>4, <2>5 DEF Orderly
<1> QED
  BY <1>1, <1>2, <1>3 DEF HInv

\* getHistory opens the file: it has read nothing yet.
LEMMA StartKeeps == ASSUME HInv, NEW s \in Shells, Start(s) PROVE HInv'
<1>1. Types /\ <<>> \in Seq(Words) /\ <<>> \in Words /\ Len(<<>>) = 0 /\ Len(file) \in Nat
      /\ HIST_SZ \in Nat
  BY EmptySeq, LenProperties, HistoryAssumption DEF HInv, Types, Words
<1>2. PICK next \in {"loading", "reading"} : pc' = [pc EXCEPT ![s] = next]
  BY DEF Start
<1>3. /\ pc'[s] = next /\ buffer'[s] = <<>> /\ history'[s] = <<>> /\ entered'[s] = <<>>
      /\ offset'[s] = 0 /\ ~Saving(s)'
  BY <1>1, <1>2 DEF Start, Types, HInv, Offsets, Saving
<1>4. Types'
  <2>1. (pc \in [Shells -> {"off", "loading", "reading", "saving"}])'
    BY <1>1, <1>2 DEF Types
  <2>2. (history \in [Shells -> Seq(Words)])' /\ (entered \in [Shells -> Seq(Words)])'
    BY <1>1 DEF Types, Start
  <2>3. (buffer \in [Shells -> Words])'
    BY <1>1 DEF Types, Start
  <2> QED
    BY <1>1, <2>1, <2>2, <2>3 DEF Types, Start
<1>5. OthersKept(s)
  BY <1>1, <1>2 DEF OthersKept, Start, Types
<1>6. Recalls(s)'
  <2>1. PICK none \in Seq(Words) : none = <<>>
    BY <1>1
  <2>2. Len(none) = 0 /\ history'[s] = none /\ entered'[s] = none
    BY <1>1, <1>3, <2>1
  <2>3. Len(none) <= HIST_SZ
    BY <1>1, <2>2
  <2>4. Latest(none) = none
    BY <2>3, AllAreLatest
  <2>5. PlainLines(none)
    BY <2>2 DEF PlainLines
  <2> QED
    BY <2>2, <2>4, <2>5 DEF Recalls, Latest, PlainLines
<1>7. Loads(s)'
  BY <1>1, <1>3 DEF Loads, Start
<1>8. UNCHANGED <<file, saved, overlapped>>
  BY DEF Start
<1> QED
  BY <1>1, <1>3, <1>4, <1>5, <1>6, <1>7, <1>8, AsideKeeps

\* What one read returns comes behind what has been read.
LEMMA ReadKeeps == ASSUME HInv, NEW s \in Shells, Read(s) PROVE HInv'
<1> DEFINE old == buffer[s]
           n == Len(old)
           to == Min({Len(file), n + BufferSize})
           part == SubSeq(file, n + 1, to)
<1>1. /\ Types /\ pc[s] = "loading" /\ old \in Words /\ n \in Nat /\ Len(file) \in Nat
      /\ n < Len(file) /\ BufferSize \in Nat \ {0}
  BY LenProperties, HistoryAssumption DEF HInv, Types, Read, Loading, Words
<1>2. to \in Nat /\ n < to /\ to <= Len(file)
  <2>1. to = IF Len(file) <= n + BufferSize THEN Len(file) ELSE n + BufferSize
    BY <1>1, MinOfTwo
  <2> QED
    BY <1>1, <2>1
<1>3. buffer' = [buffer EXCEPT ![s] = old \o part]
  BY DEF Read
<1>4. UNCHANGED <<file, pc, history, curr, ctrlC, offset, entered, saved, overlapped>>
  BY DEF Read, kept
<1> HIDE DEF to
<1>5. /\ part \in Words /\ Len(part) = to - n
      /\ \A i \in 1..(to - n) : part[i] = file[n + i]
  <2>1. \A i \in (n + 1)..to : file[i] \in Characters
    <3>1. \A i \in (n + 1)..to : i \in 1..Len(file)
      BY <1>1, <1>2
    <3> QED
      BY <1>1, <3>1, ElementOfSeq DEF Types, Words
  <2> HIDE DEF n
  <2>2. /\ SubSeq(file, n + 1, to) \in Seq(Characters)
        /\ Len(SubSeq(file, n + 1, to)) = IF n + 1 <= to THEN to - (n + 1) + 1 ELSE 0
        /\ \A i \in 1..(to - (n + 1) + 1) :
             SubSeq(file, n + 1, to)[i] = file[n + 1 + i - 1]
    BY <1>1, <1>2, <2>1, SubSeqProperties
  <2>3. to - (n + 1) + 1 = to - n /\ n + 1 <= to /\ \A i \in 1..(to - n) : n + 1 + i - 1 = n + i
    BY <1>1, <1>2
  <2> QED
    BY <2>2, <2>3 DEF Words
<1>6. /\ old \o part \in Words /\ Len(old \o part) = n + (to - n)
      /\ \A i \in 1..(n + (to - n)) :
           (old \o part)[i] = IF i <= n THEN old[i] ELSE part[i - n]
  <2> HIDE DEF part
  <2> QED
    BY <1>1, <1>5, ConcatProperties DEF Words
<1> HIDE DEF part
<1>7. Types'
  <2>1. (buffer \in [Shells -> Words])'
    BY <1>1, <1>3, <1>6 DEF Types
  <2> QED
    BY <1>1, <1>4, <2>1 DEF Types
<1>8. buffer'[s] = old \o part
  BY <1>1, <1>3 DEF Types
<1>9. OthersKept(s)
  BY <1>1, <1>3, <1>4 DEF OthersKept, Types
<1>10. ASSUME ~overlapped
       PROVE  Loads(s)'
  <2>1. \A i \in 1..n : old[i] = file[i]
    BY <1>1, <1>10 DEF HInv, Orderly, Loading, Loads
  <2>2. n + (to - n) = to
    BY <1>1, <1>2
  <2>3. \A i \in 1..to : IF i <= n THEN i \in 1..n ELSE i - n \in 1..(to - n) /\ n + (i - n) = i
    BY <1>1, <1>2
  <2>4. \A i \in 1..to : (old \o part)[i] = file[i]
    BY <1>5, <1>6, <2>1, <2>2, <2>3
  <2> QED
    BY <1>2, <1>4, <1>6, <1>8, <2>2, <2>4 DEF Loads
<1>11. /\ ~Saving(s)' /\ ~Reading(s)' /\ offset'[s] = 0
  BY <1>1, <1>4 DEF HInv, Offsets, Saving, Reading
<1> QED
  BY <1>4, <1>7, <1>9, <1>10, <1>11, AsideKeeps

\* At its end, what has been read is the file, and that is what was saved last, as far
\* as it got.
LEMMA LoadedKeeps == ASSUME HInv, NEW s \in Shells, Loaded(s) PROVE HInv'
<1> DEFINE lines == Lines(buffer[s])
<1>1. /\ Types /\ pc[s] = "loading" /\ buffer[s] \in Words /\ Len(buffer[s]) \in Nat
      /\ Len(file) \in Nat /\ Len(buffer[s]) >= Len(file)
      /\ lines \in Seq(Words) /\ Len(lines) \in Nat /\ <<>> \in Words
  <2>1. Types /\ buffer[s] \in Words
    BY DEF HInv, Types
  <2> QED
    BY <2>1, LinesTyped, LenProperties, EmptySeq DEF Types, Words, Loaded, Loading
<1>2. /\ history'[s] = lines /\ entered'[s] = lines /\ pc'[s] = "reading"
      /\ curr'[s] = Len(lines) /\ offset'[s] = 0
  BY <1>1 DEF Loaded, Types, HInv, Offsets, Saving
<1>3. Types'
  <2>1. /\ (file \in Words /\ saved \in Seq(Words))' /\ (overlapped \in BOOLEAN)'
        /\ (ctrlC \in [Shells -> BOOLEAN])' /\ (offset \in [Shells -> Nat])'
    BY <1>1 DEF Types, Loaded
  <2>2. (pc \in [Shells -> {"off", "loading", "reading", "saving"}])'
    BY <1>1 DEF Types, Loaded
  <2>3. (history \in [Shells -> Seq(Words)])'
    BY <1>1 DEF Types, Loaded
  <2>4. (curr \in [Shells -> Nat])'
    BY <1>1, <1>2 DEF Types, Loaded
  <2>5. (entered \in [Shells -> Seq(Words)])'
    BY <1>1, <1>2 DEF Types, Loaded
  <2>6. (buffer \in [Shells -> Words])'
    BY <1>1 DEF Types, Loaded
  <2> QED
    BY <2>1, <2>2, <2>3, <2>4, <2>5, <2>6 DEF Types
<1>4. OthersKept(s)
  BY <1>1 DEF OthersKept, Loaded, Types
<1>5. ASSUME ~overlapped
      PROVE  Recalls(s)'
  <2>1. buffer[s] = file
    <3>1. Loads(s) /\ file \in Words
      BY <1>1, <1>5 DEF HInv, Orderly, Loading, Types
    <3>2. Len(buffer[s]) = Len(file)
      BY <1>1, <3>1 DEF Loads
    <3> QED
      BY <1>1, <3>1, <3>2, SeqEqual DEF Loads, Words
  <2>2. Len(lines) <= HIST_SZ /\ PlainLines(lines)
    BY <1>1, <1>5, <2>1, FileFits DEF HInv
  <2>3. Latest(lines) = lines
    BY <1>1, <2>2, AllAreLatest
  <2> QED
    BY <1>2, <2>2, <2>3 DEF Recalls, Latest, PlainLines
<1>6. UNCHANGED <<file, saved, overlapped>> /\ ~Loading(s)' /\ ~Saving(s)'
  BY <1>2 DEF Loaded, Loading, Saving
<1> HIDE DEF lines
<1> QED
  BY <1>1, <1>2, <1>3, <1>4, <1>5, <1>6, AsideKeeps

\* A line is entered.
LEMMA EnterKeeps ==
  ASSUME HInv, NEW s \in Shells, NEW text \in Texts, Enter(s, text)
  PROVE  HInv'
<1>1. Types /\ text \in Words /\ Plain(text) /\ history[s] \in Seq(Words) /\ entered[s] \in Seq(Words)
  BY TextsPlain DEF HInv, Types
<1>2. /\ Added(history[s], text) \in Seq(Words) /\ Len(Added(history[s], text)) \in Nat
      /\ Append(entered[s], text) \in Seq(Words)
  BY <1>1, AddedTyped, LenProperties, AppendProperties
<1>3. /\ history'[s] = Added(history[s], text) /\ entered'[s] = Append(entered[s], text)
      /\ pc' = pc /\ pc[s] = "reading" /\ curr'[s] = Len(history'[s]) /\ offset'[s] = 0
  BY <1>1 DEF Enter, Types, HInv, Offsets, Saving, Reading
<1>4. Types'
  <2>1. /\ (file \in Words /\ saved \in Seq(Words))' /\ (overlapped \in BOOLEAN)'
        /\ (ctrlC \in [Shells -> BOOLEAN])' /\ (offset \in [Shells -> Nat])'
        /\ (buffer \in [Shells -> Words])'
        /\ (pc \in [Shells -> {"off", "loading", "reading", "saving"}])'
    BY <1>1 DEF Types, Enter
  <2>2. (history \in [Shells -> Seq(Words)])'
    BY <1>1, <1>2 DEF Types, Enter
  <2>3. (curr \in [Shells -> Nat])'
    BY <1>1, <1>2, <1>3 DEF Types, Enter
  <2>4. (entered \in [Shells -> Seq(Words)])'
    BY <1>1, <1>2 DEF Types, Enter
  <2> QED
    BY <2>1, <2>2, <2>3, <2>4 DEF Types
<1>5. OthersKept(s)
  BY <1>1 DEF OthersKept, Enter, Types
<1>6. ASSUME ~overlapped
      PROVE  Recalls(s)'
  <2>1. history[s] = Latest(entered[s]) /\ PlainLines(entered[s])
    BY <1>3, <1>6 DEF HInv, Orderly, Recalls, Reading
  <2>2. history'[s] = Latest(Append(entered[s], text))
    BY <1>1, <1>3, <2>1, AddedIsLatest
  <2>3. PlainLines(Append(entered[s], text))
    <3>1. /\ Len(Append(entered[s], text)) = Len(entered[s]) + 1 /\ Len(entered[s]) \in Nat
          /\ \A i \in 1..Len(entered[s]) : Append(entered[s], text)[i] = entered[s][i]
          /\ Append(entered[s], text)[Len(entered[s]) + 1] = text
      BY <1>1, AppendProperties, LenProperties
    <3>2. \A i \in 1..(Len(entered[s]) + 1) : i \in 1..Len(entered[s]) \/ i = Len(entered[s]) + 1
      BY <3>1
    <3> QED
      BY <1>1, <2>1, <3>1, <3>2 DEF PlainLines
  <2>4. Latest(Append(entered[s], text)) = Latest(entered[s])' /\ PlainLines(entered[s])'
    BY <1>3, <2>3 DEF Latest, PlainLines
  <2> QED
    BY <2>2, <2>4 DEF Recalls
<1>7. curr'[s] \in 0..Len(history'[s])
  BY <1>2, <1>3
<1> QED
  BY <1>3, <1>4, <1>5, <1>6, <1>7, AsideKeeps DEF Enter, Saving, Loading

\* The keys move the cursor, and no more.
LEMMA CursorKeeps ==
  ASSUME HInv, NEW s \in Shells, Reading(s), NEW k \in Nat, curr' = [curr EXCEPT ![s] = k],
         history[s] # <<>> => k \in 0..Len(history[s]), ctrlC' \in [Shells -> BOOLEAN],
         UNCHANGED <<file, pc, buffer, history, offset, entered, saved, overlapped>>
  PROVE  HInv'
<1>1. Types /\ pc[s] = "reading" /\ offset[s] = 0 /\ curr'[s] = k
  BY DEF HInv, Types, Offsets, Saving, Reading
<1>2. Types'
  BY <1>1 DEF Types
<1>3. OthersKept(s)
  BY <1>1 DEF OthersKept, Types
<1>4. ~overlapped => Recalls(s)'
  <2>1. ~overlapped => Recalls(s)
    BY DEF HInv, Orderly
  <2> QED
    BY <2>1 DEF Recalls
<1>5. history'[s] # <<>> => curr'[s] \in 0..Len(history'[s])
  BY <1>1
<1>6. ~Saving(s)' /\ ~Loading(s)' /\ offset'[s] = 0
  BY <1>1 DEF Saving, Loading
<1> QED
  BY <1>2, <1>3, <1>4, <1>5, <1>6, AsideKeeps

\* The arrow keys and Ctrl-C.
LEMMA KeysKeep == ASSUME HInv, NEW s \in Shells, Up(s) \/ Down(s) \/ CtrlC(s) PROVE HInv'
<1>1. /\ Reading(s) /\ curr \in [Shells -> Nat] /\ curr[s] \in Nat /\ history[s] \in Seq(Words)
      /\ Len(history[s]) \in Nat /\ history[s] # <<>> => curr[s] \in 0..Len(history[s])
      /\ ctrlC \in [Shells -> BOOLEAN]
  BY LenProperties DEF HInv, Types, CursorInside, Up, Down, CtrlC
<1>2. CASE Up(s)
  <2>1. /\ curr[s] - 1 \in Nat
        /\ history[s] # <<>> => curr[s] - 1 \in 0..Len(history[s])
    BY <1>1, <1>2 DEF Up
  <2> QED
    BY <1>1, <1>2, <2>1, CursorKeeps DEF Up, kept
<1>3. CASE Down(s)
  <2>1. /\ curr[s] + 1 \in Nat
        /\ history[s] # <<>> => curr[s] + 1 \in 0..Len(history[s])
    BY <1>1, <1>3 DEF Down
  <2> QED
    BY <1>1, <1>3, <2>1, CursorKeeps DEF Down, kept
<1>4. CASE CtrlC(s)
  <2>1. Len(history[s]) \in 0..Len(history[s]) /\ ctrlC' \in [Shells -> BOOLEAN]
    BY <1>1, <1>4 DEF CtrlC
  <2>2. PICK k \in Nat : k = Len(history[s])
    BY <1>1
  <2>3. curr' = [curr EXCEPT ![s] = k] /\ k \in 0..Len(history[s])
    BY <1>4, <2>1, <2>2 DEF CtrlC
  <2>4. UNCHANGED <<file, pc, buffer, history, offset, entered, saved, overlapped>>
    BY <1>4 DEF CtrlC, kept
  <2> QED
    BY <1>1, <2>1, <2>3, <2>4, CursorKeeps
<1> QED
  BY <1>2, <1>3, <1>4

\* A shell ends.
LEMMA GoneKeeps ==
  ASSUME HInv, NEW s \in Shells, Gone(s), UNCHANGED <<file, saved, overlapped>>
  PROVE  HInv'
<1>1. Types /\ <<>> \in Seq(Words) /\ <<>> \in Words
  BY EmptySeq DEF HInv, Words
<1>2. /\ pc'[s] = "off" /\ offset'[s] = 0
      /\ ~Saving(s)' /\ ~Reading(s)' /\ ~Loading(s)'
  BY <1>1 DEF Gone, Types, Saving, Reading, Loading
<1>3. Types'
  <2>1. /\ (file \in Words /\ saved \in Seq(Words))' /\ (overlapped \in BOOLEAN)'
        /\ (buffer \in [Shells -> Words])'
        /\ (pc \in [Shells -> {"off", "loading", "reading", "saving"}])'
        /\ (ctrlC \in [Shells -> BOOLEAN])' /\ (offset \in [Shells -> Nat])'
        /\ (curr \in [Shells -> Nat])'
    BY <1>1 DEF Types, Gone
  <2>2. (history \in [Shells -> Seq(Words)])'
    BY <1>1 DEF Types, Gone
  <2>3. (entered \in [Shells -> Seq(Words)])'
    BY <1>1 DEF Types, Gone
  <2> QED
    BY <2>1, <2>2, <2>3 DEF Types
<1>4. OthersKept(s)
  BY <1>1 DEF OthersKept, Gone, Types
<1> QED
  BY <1>2, <1>3, <1>4, AsideKeeps

\* saveHistory opens the file and empties it.
LEMMA OpenKeeps ==
  ASSUME HInv, NEW s \in Shells, Reading(s), NEW lines \in Seq(Words),
         ~overlapped => Len(lines) <= HIST_SZ /\ PlainLines(lines),
         pc' = [pc EXCEPT ![s] = "saving"], file' = <<>>,
         history' = [history EXCEPT ![s] = lines], saved' = lines,
         overlapped' = (overlapped \/ \E t \in Shells \ {s} : Loading(t) \/ Saving(t)),
         UNCHANGED <<buffer, curr, offset, entered>>, ctrlC' \in [Shells -> BOOLEAN]
  PROVE  HInv'
<1>1. Types /\ offset[s] = 0
  BY DEF HInv, Offsets, Saving, Reading
<1>2. file' \in Words /\ Lines(file') = <<>> /\ Len(file') = 0
  BY LinesOfNothing, EmptySeq
<1>3. Types'
  <2>1. (pc \in [Shells -> {"off", "loading", "reading", "saving"}])'
    BY <1>1 DEF Types
  <2>2. (history \in [Shells -> Seq(Words)])'
    BY <1>1 DEF Types
  <2>3. (overlapped \in BOOLEAN)'
    <3>1. overlapped \in BOOLEAN
      BY <1>1 DEF Types
    <3> QED
      BY Zenon, <3>1
  <2> QED
    BY <1>1, <1>2, <2>1, <2>2, <2>3 DEF Types
<1>4. /\ pc'[s] = "saving" /\ history'[s] = lines
      /\ \A t \in Shells \ {s} : pc'[t] = pc[t] /\ history'[t] = history[t]
  BY <1>1 DEF Types
<1>5. Offsets'
  BY <1>1, <1>4 DEF HInv, Offsets, Saving
<1>6. CursorInside'
  <2>1. \A t \in Shells : Reading(t)' => t # s
    BY <1>4 DEF Reading
  <2> QED
    BY <1>4, <2>1 DEF HInv, CursorInside, Reading
<1>7. ASSUME ~overlapped'
      PROVE  Orderly'
  <2>1. ~overlapped /\ Orderly /\ \A t \in Shells \ {s} : ~Saving(t) /\ ~Loading(t)
    BY <1>7 DEF HInv
  <2>2. \A t \in Shells : Saving(t)' => t = s
    BY <1>4, <2>1 DEF Saving
  <2>3. (Len(saved) <= HIST_SZ /\ PlainLines(saved))'
    BY <2>1 DEF PlainLines
  <2>4. IsPrefix(Lines(file'), saved')
    <3>1. Len(<<>>) = 0 /\ Len(lines) \in Nat
      BY LenProperties
    <3>2. SubSeq(<<>>, 1, 0) = <<>> /\ SubSeq(lines, 1, 0) = <<>>
      BY SubSeqEmpty
    <3> QED
      BY <1>2, <3>1, <3>2 DEF IsPrefix
  <2>5. Whole(file)'
    BY DEF Whole
  <2>6. Saves(s)'
    <3>1. <<>> \o lines = lines
      BY ConcatEmptySeq
    <3> QED
      BY <1>1, <1>2, <1>4, <3>1 DEF Saves
  <2>7. ASSUME NEW t \in Shells, Reading(t)'
        PROVE  Recalls(t)'
    <3>1. t # s /\ Reading(t)
      BY <1>4, <2>7 DEF Reading
    <3>2. Recalls(t) /\ history'[t] = history[t]
      BY <1>4, <2>1, <3>1 DEF Orderly
    <3> QED
      BY <3>2 DEF Recalls
  <2>8. \A t \in Shells : ~Loading(t)'
    BY <1>4, <2>1 DEF Loading
  <2> QED
    BY <2>2, <2>3, <2>4, <2>5, <2>6, <2>7, <2>8 DEF Orderly
<1> QED
  BY <1>3, <1>5, <1>6, <1>7 DEF HInv

\* "exit" and Ctrl-D: what is saved is the history, with "exit" or without.
LEMMA LeaveKeeps == ASSUME HInv, NEW s \in Shells, Leave(s) \/ CtrlD(s) PROVE HInv'
<1>1. /\ Types /\ Reading(s) /\ history[s] \in Seq(Words) /\ entered[s] \in Seq(Words)
      /\ Exit \in Words /\ Plain(Exit) /\ ctrlC \in [Shells -> BOOLEAN]
  BY TextsPlain, HistoryAssumption DEF HInv, Types, Leave, CtrlD
<1>2. ~overlapped => Len(history[s]) <= HIST_SZ /\ PlainLines(history[s])
  <2>1. ASSUME ~overlapped
        PROVE  history[s] = Latest(entered[s]) /\ PlainLines(entered[s])
    BY <1>1, <2>1 DEF HInv, Orderly, Recalls
  <2>2. PlainLines(entered[s]) => PlainLines(Latest(entered[s]))
    <3> DEFINE n == Len(entered[s])
               from == Max({0, n - HIST_SZ})
    <3>1. n \in Nat /\ HIST_SZ \in Nat
      BY <1>1, LenProperties, HistoryAssumption
    <3>2. /\ from = IF n >= HIST_SZ THEN n - HIST_SZ ELSE 0
          /\ Len(Latest(entered[s])) = n - from
          /\ \A i \in 1..(n - from) : Latest(entered[s])[i] = entered[s][from + i]
      BY <1>1, LatestLines
    <3> HIDE DEF n, from
    <3>3. \A i \in 1..(n - from) : from + i \in 1..n
      BY <3>1, <3>2
    <3> QED
      BY <3>2, <3>3 DEF PlainLines, n
  <2>3. Len(Latest(entered[s])) <= HIST_SZ
    BY <1>1, LatestLines
  <2> QED
    BY <2>1, <2>2, <2>3
<1>3. ASSUME NEW lines \in Seq(Words), Save(s, lines), ctrlC' \in [Shells -> BOOLEAN],
             ~overlapped => Len(lines) <= HIST_SZ /\ PlainLines(lines)
      PROVE  HInv'
  <2>1. CASE Gone(s) /\ UNCHANGED <<file, saved, overlapped>>
    BY <2>1, GoneKeeps
  <2>2. CASE ~(Gone(s) /\ UNCHANGED <<file, saved, overlapped>>)
    BY <1>1, <1>3, <2>2, OpenKeeps DEF Save
  <2> QED
    BY <2>1, <2>2
<1>4. ctrlC' \in [Shells -> BOOLEAN]
  BY <1>1 DEF Leave, CtrlD, Save, Gone
<1>5. CASE Leave(s)
  <2>1. /\ Added(history[s], Exit) \in Seq(Words)
        /\ ~overlapped => /\ Len(Added(history[s], Exit)) <= HIST_SZ
                          /\ PlainLines(Added(history[s], Exit))
    BY <1>1, <1>2, AddedTyped
  <2> QED
    BY <1>3, <1>4, <1>5, <2>1 DEF Leave
<1>6. CASE CtrlD(s)
  <2>1. CASE ~ctrlC[s]
    BY <1>1, <1>2, <1>3, <1>4, <1>6, <2>1 DEF CtrlD
  <2>2. CASE ctrlC[s]
    <3>1. UNCHANGED <<file, pc, buffer, history, curr, offset, entered, saved, overlapped>>
      BY <1>6, <2>2 DEF CtrlD
    <3>2. PICK k \in Nat : k = curr[s]
      BY <1>1 DEF Types
    <3>3. curr' = [curr EXCEPT ![s] = k] /\ (history[s] # <<>> => k \in 0..Len(history[s]))
      BY <1>1, <3>1, <3>2 DEF Types, HInv, CursorInside
    <3> QED
      BY <1>1, <1>4, <3>1, <3>3, CursorKeeps
  <2> QED
    BY <2>1, <2>2
<1> QED
  BY <1>5, <1>6

\* What comes first in a whole is a prefix of it.
LEMMA FrontIsPrefix ==
  ASSUME NEW a \in Seq(Words), NEW b \in Seq(Words)
  PROVE  IsPrefix(a, a \o b)
<1> DEFINE whole == a \o b
           n == Len(a)
<1>1. n \in Nat /\ Len(b) \in Nat
  BY LenProperties
<1>2. /\ whole \in Seq(Words) /\ Len(whole) = n + Len(b)
      /\ \A i \in 1..(n + Len(b)) : whole[i] = IF i <= n THEN a[i] ELSE b[i - n]
  BY ConcatProperties
<1>3. SubSeq(a, 1, n) = a
  BY SubSeqFull
<1>4. \A i \in 1..n : a[i] \in Words
  BY ElementOfSeq
<1> HIDE DEF whole, n
<1>5. \A i \in 1..n : whole[i] = a[i] /\ whole[i] \in Words
  <2>1. \A i \in 1..n : i \in 1..(n + Len(b)) /\ i <= n
    BY <1>1
  <2> QED
    BY <1>2, <1>4, <2>1
<1>6. /\ SubSeq(whole, 1, n) \in Seq(Words)
      /\ Len(SubSeq(whole, 1, n)) = IF 1 <= n THEN n - 1 + 1 ELSE 0
      /\ \A i \in 1..(n - 1 + 1) : SubSeq(whole, 1, n)[i] = whole[1 + i - 1]
  BY <1>1, <1>5, SubSeqProperties
<1>7. Len(SubSeq(whole, 1, n)) = n /\ \A i \in 1..n : SubSeq(whole, 1, n)[i] = a[i]
  <2>1. \A i \in 1..n : i \in 1..(n - 1 + 1) /\ 1 + i - 1 = i
    BY <1>1
  <2> QED
    BY <1>1, <1>5, <1>6, <2>1
<1>8. SubSeq(whole, 1, n) = a
  BY <1>6, <1>7, SeqEqual DEF n
<1>9. n <= Len(whole)
  BY <1>1, <1>2
<1> QED
  BY <1>3, <1>8, <1>9 DEF IsPrefix, whole, n

\* One line is written, where the shell that writes has come to.
LEMMA SaveLineKeeps == ASSUME HInv, NEW s \in Shells, SaveLine(s) PROVE HInv'
<1> DEFINE head == Head(history[s])
           rest == Tail(history[s])
           text == Append(head, Newline)
<1>1. Types /\ history[s] \in Seq(Words) /\ history[s] # <<>> /\ pc[s] = "saving"
  BY DEF HInv, Types, SaveLine, Saving
<1>2. /\ head \in Words /\ rest \in Seq(Words) /\ Len(rest) = Len(history[s]) - 1
      /\ \A i \in 1..Len(rest) : rest[i] = history[s][i + 1]
  BY <1>1, HeadTailProperties
<1>3. text \in Words /\ Len(text) \in Nat /\ Newline \in Characters
  BY <1>2, AppendProperties, LenProperties DEF Words, Characters
<1>4. /\ file' = Written(text, offset[s]) /\ history' = [history EXCEPT ![s] = rest]
      /\ offset' = [offset EXCEPT ![s] = @ + Len(text)]
      /\ UNCHANGED <<pc, buffer, curr, ctrlC, entered, saved, overlapped>>
  BY DEF SaveLine, kept
<1> HIDE DEF head, rest, text
<1>5. Types'
  <2>1. (file \in Words)'
    BY <1>1, <1>3, <1>4, Writes DEF Types
  <2>2. (history \in [Shells -> Seq(Words)])'
    BY <1>1, <1>2, <1>4 DEF Types
  <2>3. (offset \in [Shells -> Nat])'
    BY <1>1, <1>3, <1>4 DEF Types
  <2> QED
    BY <1>1, <1>4, <2>1, <2>2, <2>3 DEF Types
<1>6. /\ history'[s] = rest /\ offset'[s] = offset[s] + Len(text)
      /\ \A t \in Shells \ {s} : history'[t] = history[t] /\ offset'[t] = offset[t]
  BY <1>1, <1>4 DEF Types
<1>7. Offsets'
  BY <1>1, <1>4, <1>6 DEF HInv, Offsets, Saving
<1>8. CursorInside'
  <2>1. \A t \in Shells : Reading(t)' => t # s
    BY <1>1, <1>4 DEF Reading
  <2> QED
    BY <1>4, <1>6, <2>1 DEF HInv, CursorInside, Reading
<1>9. ASSUME ~overlapped'
      PROVE  Orderly'
  <2>1. Orderly /\ offset[s] = Len(file) /\ saved = Lines(file) \o history[s]
    BY <1>1, <1>4, <1>9 DEF HInv, Orderly, Saves, Saving
  <2>2. /\ Lines(file) \in Seq(Words) /\ Len(Lines(file)) \in Nat /\ Len(history[s]) \in Nat
        /\ Len(history[s]) > 0 /\ head = history[s][1]
    BY <1>1, LinesTyped, LenProperties, EmptySeq DEF Types, head
  <2>3. Plain(head)
    <3>1. /\ Len(saved) = Len(Lines(file)) + Len(history[s])
          /\ \A i \in 1..(Len(Lines(file)) + Len(history[s])) :
               saved[i] = IF i <= Len(Lines(file)) THEN Lines(file)[i]
                          ELSE history[s][i - Len(Lines(file))]
      BY <1>1, <2>1, <2>2, ConcatProperties
    <3>2. PICK i \in Nat : i = Len(Lines(file)) + 1
      BY <2>2
    <3>3. i \in 1..Len(saved) /\ ~(i <= Len(Lines(file))) /\ i - Len(Lines(file)) = 1
      BY <2>2, <3>1, <3>2
    <3>4. saved[i] = head
      BY <2>2, <3>1, <3>3
    <3> QED
      BY <2>1, <3>3, <3>4 DEF Orderly, PlainLines
  <2>4. file' = file \o text /\ Len(file') = Len(file) + Len(text)
    <3>1. file \in Words /\ offset[s] \in Nat
      BY <1>1 DEF Types
    <3>2. Written(text, offset[s]) = file \o text
      BY <1>3, <2>1, <3>1, Writes
    <3>3. Len(file \o text) = Len(file) + Len(text)
      BY <1>3, <3>1, ConcatProperties DEF Words
    <3> QED
      BY <1>4, <3>2, <3>3
  <2>5. Whole(file') /\ Lines(file') = Append(Lines(file), head)
    BY <1>1, <1>2, <2>1, <2>3, <2>4, LinesAppend DEF Types, Orderly, text
  <2>6. saved = Lines(file') \o rest /\ Lines(file') \in Seq(Words)
    <3>1. <<head>> \in Seq(Words)
      BY <1>2, EmptySeq, AppendProperties
    <3>2. history[s] = <<head>> \o rest
      <4>1. Len(<<head>>) = 1 /\ <<head>>[1] = head
        OBVIOUS
      <4>2. /\ <<head>> \o rest \in Seq(Words) /\ Len(<<head>> \o rest) = 1 + Len(rest)
            /\ \A i \in 1..(1 + Len(rest)) :
                 (<<head>> \o rest)[i] = IF i <= 1 THEN <<head>>[i] ELSE rest[i - 1]
        BY <1>2, <3>1, <4>1, ConcatProperties
      <4>3. Len(history[s]) = 1 + Len(rest) /\ Len(rest) \in Nat
        BY <1>2, <2>2
      <4>4. \A i \in 1..(1 + Len(rest)) : IF i <= 1 THEN i = 1 ELSE i - 1 \in 1..Len(rest) /\ (i - 1) + 1 = i
        BY <4>3
      <4>5. \A i \in 1..(1 + Len(rest)) : (<<head>> \o rest)[i] = history[s][i]
        BY <1>2, <2>2, <4>1, <4>2, <4>4
      <4> QED
        BY <1>1, <4>2, <4>3, <4>5, SeqEqual
    <3>3. Lines(file) \o history[s] = (Lines(file) \o <<head>>) \o rest
      BY <1>2, <2>2, <3>1, <3>2, ConcatAssociative
    <3>4. Append(Lines(file), head) = Lines(file) \o <<head>>
      BY <1>2, <2>2, AppendIsConcat
    <3>5. Append(Lines(file), head) \in Seq(Words)
      BY <1>2, <2>2, AppendProperties
    <3> QED
      BY <2>1, <2>5, <3>3, <3>4, <3>5
  <2>7. Saves(s)' /\ IsPrefix(Lines(file'), saved')
    BY <1>2, <1>4, <1>6, <2>1, <2>4, <2>6, FrontIsPrefix DEF Saves
  <2>8. (Len(saved) <= HIST_SZ /\ PlainLines(saved))'
    BY <1>4, <2>1 DEF Orderly, PlainLines
  <2>9. \A t, u \in Shells : Saving(t)' /\ Saving(u)' => t = u
    BY <1>4, <2>1 DEF Orderly, Saving
  <2>10. ASSUME NEW t \in Shells
         PROVE  /\ Reading(t)' => Recalls(t)'
                /\ Saving(t)' => Saves(t)'
                /\ Loading(t)' => Loads(t)'
    <3>1. Saving(t)' => t = s
      BY <1>1, <1>4, <2>9 DEF Saving
    <3>2. ASSUME Reading(t)'
          PROVE  Recalls(t)'
      <4>1. t # s /\ Reading(t)
        BY <1>1, <1>4, <3>2 DEF Reading
      <4>2. Recalls(t) /\ history'[t] = history[t] /\ entered' = entered
        BY <1>4, <1>6, <2>1, <4>1 DEF Orderly
      <4> QED
        BY <4>2 DEF Recalls
    <3>3. ASSUME Loading(t)'
          PROVE  Loads(t)'
      <4>1. Loads(t) /\ buffer' = buffer
        BY <1>4, <2>1, <3>3 DEF Orderly, Loading
      <4>2. /\ file \in Words /\ Len(file) \in Nat /\ Len(buffer[t]) \in Nat
            /\ \A i \in 1..(Len(file) + Len(text)) :
                 (file \o text)[i] = IF i <= Len(file) THEN file[i] ELSE text[i - Len(file)]
        BY <1>1, <1>3, LenProperties, ConcatProperties DEF Types, Words
      <4>3. \A i \in 1..Len(buffer[t]) : i \in 1..(Len(file) + Len(text)) /\ i <= Len(file)
        BY <1>3, <4>1, <4>2 DEF Loads
      <4>4. \A i \in 1..Len(buffer[t]) : file'[i] = file[i]
        BY <2>4, <4>2, <4>3
      <4>5. Len(buffer[t]) <= Len(file')
        BY <1>3, <2>4, <4>1, <4>2 DEF Loads
      <4> QED
        BY <4>1, <4>4, <4>5 DEF Loads
    <3> QED
      BY <2>7, <3>1, <3>2, <3>3
  <2> QED
    BY <2>5, <2>7, <2>8, <2>9, <2>10 DEF Orderly
<1> QED
  BY <1>5, <1>7, <1>8, <1>9 DEF HInv

\* The invariant holds at the start.
LEMMA InitOrderly == Init => HInv
<1> SUFFICES ASSUME Init
             PROVE  HInv
  OBVIOUS
<1>1. /\ <<>> \in Words /\ Lines(<<>>) = <<>> /\ <<>> \in Seq(Words) /\ Len(<<>>) = 0
      /\ HIST_SZ \in Nat
  BY LinesOfNothing, EmptySeq, HistoryAssumption
<1>2. Types
  <2>1. /\ history \in [Shells -> Seq(Words)] /\ entered \in [Shells -> Seq(Words)]
        /\ buffer \in [Shells -> Words]
    BY <1>1 DEF Init
  <2>2. /\ pc \in [Shells -> {"off", "loading", "reading", "saving"}] /\ curr \in [Shells -> Nat]
        /\ ctrlC \in [Shells -> BOOLEAN] /\ offset \in [Shells -> Nat] /\ overlapped \in BOOLEAN
    BY DEF Init
  <2> QED
    BY <1>1, <2>1, <2>2 DEF Types, Init
<1>3. Offsets /\ CursorInside /\ \A s \in Shells : ~Saving(s) /\ ~Reading(s) /\ ~Loading(s)
  BY DEF Init, Offsets, CursorInside, Saving, Reading, Loading
<1>4. Orderly
  <2>1. SubSeq(<<>>, 1, 0) = <<>>
    BY SubSeqEmpty
  <2>2. Len(saved) <= HIST_SZ /\ PlainLines(saved) /\ Whole(file)
    BY <1>1 DEF Init, PlainLines, Whole
  <2>3. IsPrefix(Lines(file), saved)
    BY <1>1, <2>1 DEF Init, IsPrefix
  <2> QED
    BY <1>3, <2>2, <2>3 DEF Orderly
<1> QED
  BY <1>2, <1>3, <1>4 DEF HInv

\* Every step keeps the invariant.
LEMMA Inductive == HInv /\ [Next]_vars => HInv'
<1> SUFFICES ASSUME HInv, [Next]_vars
             PROVE  HInv'
  OBVIOUS
<1>1. CASE Next
  <2>1. PICK s \in Shells :
          \/ Start(s) \/ Read(s) \/ Loaded(s)
          \/ (\E text \in Texts : Enter(s, text)) \/ Leave(s)
          \/ Up(s) \/ Down(s) \/ CtrlC(s) \/ CtrlD(s)
          \/ SaveLine(s) \/ SaveEnd(s) \/ Kill(s)
    BY <1>1 DEF Next
  <2>2. CASE Start(s)
    BY <2>2, StartKeeps
  <2>3. CASE \E text \in Texts : Enter(s, text)
    BY <2>3, EnterKeeps
  <2>4. CASE Leave(s) \/ CtrlD(s)
    BY <2>4, LeaveKeeps
  <2>5. CASE Up(s) \/ Down(s) \/ CtrlC(s)
    BY <2>5, KeysKeep
  <2>6. CASE SaveLine(s)
    BY <2>6, SaveLineKeeps
  <2>7. CASE SaveEnd(s) \/ Kill(s)
    BY <2>7, GoneKeeps DEF SaveEnd, Kill
  <2>8. CASE Read(s)
    BY <2>8, ReadKeeps
  <2>9. CASE Loaded(s)
    BY <2>9, LoadedKeeps
  <2> QED
    BY <2>1, <2>2, <2>3, <2>4, <2>5, <2>6, <2>7, <2>8, <2>9
<1>2. CASE UNCHANGED vars
  <2>1. UNCHANGED <<file, pc, buffer, history, curr, ctrlC, offset, entered, saved, overlapped>>
    BY <1>2 DEF vars, kept
  <2>2. Types' /\ Offsets' /\ CursorInside'
    BY <2>1 DEF HInv, Types, Offsets, CursorInside, Saving, Reading
  <2>3. Orderly => Orderly'
    BY <2>1 DEF Orderly, Saving, Reading, Loading, Recalls, Saves, Loads, PlainLines
  <2> QED
    BY <2>1, <2>2, <2>3 DEF HInv
<1> QED
  BY <1>1, <1>2

-----------------------------------------------------------------------------
(* The theorems *)

\* Every variable keeps its type: what is in the file, whoever wrote at which offset,
\* are characters of the lines, newlines, and Nul where a gap was left.
THEOREM TypeCorrect == Spec => []TypeOK
<1>1. HInv => TypeOK
  BY DEF HInv, Types, TypeOK, Words
<1> QED
  BY <1>1, InitOrderly, Inductive, PTL DEF Spec

\* The cursor of a shell that has a line to show is in its history (showHistory
\* reads history[curr]), also when two shells have mixed their lines in the file.
THEOREM CursorCorrect == Spec => []CursorInside
<1>1. HInv => CursorInside
  BY DEF HInv
<1> QED
  BY <1>1, InitOrderly, Inductive, PTL DEF Spec

\* A shell recalls the last HIST_SZ lines, however often histories are saved and read
\* again, also when it loads the file while another shell writes to it: addToHistory
\* tests its limit for equality, and no history is ever above it.  That is so as long
\* as no shell has emptied the file while another loaded it or saved to it.
THEOREM RecallCorrect == Spec => []RecallsLast
<1>1. HInv => RecallsLast
  BY DEF HInv, Orderly, Recalls, RecallsLast, Latest
<1> QED
  BY <1>1, InitOrderly, Inductive, PTL DEF Spec

\* The file holds the first lines of one history: the one that was saved last.
THEOREM FileCorrect == Spec => []FileFromOneShell
<1>1. HInv => FileFromOneShell
  BY DEF HInv, Orderly, Saves, FileFromOneShell
<1> QED
  BY <1>1, InitOrderly, Inductive, PTL DEF Spec
=============================================================================
