---------------------------- MODULE ProvidersProofs ----------------------------
(***************************************************************************)
(* What the check digits of a machine readable zone can see, for every     *)
(* line.                                                                   *)
(*                                                                         *)
(* The argument.  A check digit is the last of a sequence of sums          *)
(* (Totals).  If one character changes, the sums differ from there on by   *)
(* its weight times the change (OneChange), and the weights 7, 3 and 1     *)
(* have no factor in common with 10.  So a digit that does not move has    *)
(* seen no change, but one by tens.                                        *)
(***************************************************************************)
EXTENDS Providers, FiniteSetTheorems, SequenceTheorems, WellFoundedInduction, TLAPS

-----------------------------------------------------------------------------
(***************************************************************************)
(* Counting up to n.                                                       *)
(***************************************************************************)
\* A property, given by the set of numbers that have it, that holds at 0 and
\* is handed on from each number to the next, holds up to n.
LEMMA UpTo ==
  ASSUME NEW n \in Nat, NEW S, 0 \in S,
         \A k \in 0 .. n : k > 0 /\ k - 1 \in S => k \in S
  PROVE  0 .. n \subseteq S
<1> DEFINE X == 0 .. n
           R == StrictSubsetOrdering(X)
           T == {0 .. k : k \in X \ S}
<1> SUFFICES ASSUME X \ S # {} PROVE FALSE
  OBVIOUS
<1>1. IsWellFoundedOn(R, SUBSET X)
  <2>1. IsFiniteSet(X)
    <3>1. 0 \in Int /\ n \in Int
      OBVIOUS
    <3> QED BY <3>1, FS_Interval
  <2> QED BY <2>1, FS_StrictSubsetOrderingWellFounded, FS_FiniteSubsetsOfFinite
<1>2. T \subseteq SUBSET X /\ T # {}
  <2>1. \A k \in X : 0 .. k \subseteq X
    OBVIOUS
  <2>2. PICK k \in X \ S : TRUE
    OBVIOUS
  <2>3. 0 .. k \in T
    BY <2>2
  <2> QED BY <2>1, <2>3
<1>3. PICK t \in T : \A u \in T : <<u, t>> \notin R
  <2> HIDE DEF R, T, X
  <2> QED BY <1>1, <1>2, WFMin
<1>4. PICK k \in X \ S : t = 0 .. k
  BY <1>3
<1>5. k > 0 /\ k - 1 \in X /\ k \in X
  BY <1>4
<1>6. k - 1 \notin S
  BY <1>4, <1>5
<1>7. 0 .. (k - 1) \in T
  BY <1>5, <1>6
<1>8. <<0 .. (k - 1), 0 .. k>> \in R
  <2>1. 0 .. (k - 1) \subseteq 0 .. k /\ 0 .. k \subseteq X /\ k \notin 0 .. (k - 1) /\ k \in 0 .. k
    BY <1>5
  <2> QED BY <2>1 DEF StrictSubsetOrdering
<1> QED BY <1>3, <1>4, <1>7, <1>8

-----------------------------------------------------------------------------
(***************************************************************************)
(* The sums behind a check digit.                                          *)
(***************************************************************************)
\* sums adds up the terms, from the first to the n-th.
Totals(sums, terms, n) ==
  /\ sums \in [0 .. n -> Int]
  /\ sums[0] = 0
  /\ \A i \in 1 .. n : sums[i] = sums[i - 1] + terms[i]

LEMMA TotalsExist ==
  ASSUME NEW n \in Nat, NEW terms \in [1 .. n -> Int]
  PROVE  \E sums : Totals(sums, terms, n)
<1> DEFINE S == {k \in 0 .. n : \E sums : Totals(sums, terms, k)}
<1>1. 0 \in S
  <2>1. Totals([i \in 0 .. 0 |-> 0], terms, 0)
    BY DEF Totals
  <2> QED BY <2>1
<1>2. ASSUME NEW k \in 0 .. n, k > 0, k - 1 \in S PROVE k \in S
  <2>1. PICK sums : Totals(sums, terms, k - 1)
    BY <1>2
  <2> DEFINE more == [i \in 0 .. k |-> IF i = k THEN sums[k - 1] + terms[k] ELSE sums[i]]
  <2>2. /\ k \in 1 .. n /\ k - 1 \in 0 .. (k - 1) /\ k \in Nat
        /\ \A i \in 0 .. k : i # k => i \in 0 .. (k - 1)
        /\ \A i \in 1 .. k : i # k => i \in 1 .. (k - 1) /\ i - 1 # k
        /\ \A i \in 1 .. k : i - 1 \in 0 .. k
    BY <1>2
  <2>3. terms[k] \in Int /\ sums[k - 1] \in Int
    BY <2>1, <2>2 DEF Totals
  <2>4. more \in [0 .. k -> Int]
    BY <2>1, <2>2, <2>3 DEF Totals
  <2>5. more[0] = 0
    BY <2>1, <2>2 DEF Totals
  <2>6. ASSUME NEW i \in 1 .. k PROVE more[i] = more[i - 1] + terms[i]
    <3>1. CASE i = k
      BY <2>2, <3>1
    <3>2. CASE i # k
      <4>1. more[i] = sums[i] /\ more[i - 1] = sums[i - 1]
        BY <2>2, <3>2
      <4>2. sums[i] = sums[i - 1] + terms[i]
        BY <2>1, <2>2, <3>2 DEF Totals
      <4> QED BY <4>1, <4>2
    <3> QED BY <3>1, <3>2
  <2> HIDE DEF more
  <2>7. Totals(more, terms, k)
    BY <2>4, <2>5, <2>6 DEF Totals
  <2> QED BY <2>7
<1>3. 0 .. n \subseteq S
  <2> HIDE DEF S
  <2> QED BY <1>1, <1>2, UpTo
<1> QED BY <1>3

\* Two sequences of terms, with their sums, that differ in one place.
DifferAt(q, n, a, s, b, t) ==
  /\ n \in Nat /\ q \in 1 .. n
  /\ a \in [1 .. n -> Int] /\ b \in [1 .. n -> Int]
  /\ Totals(s, a, n) /\ Totals(t, b, n)
  /\ \A i \in (1 .. n) \ {q} : a[i] = b[i]

\* From there on the sums differ by the change.
LEMMA OneChange ==
  ASSUME NEW q, NEW n, NEW a, NEW s, NEW b, NEW t, DifferAt(q, n, a, s, b, t)
  PROVE  t[n] - s[n] = b[q] - a[q]
<1>0. /\ n \in Nat /\ q \in 1 .. n
      /\ a \in [1 .. n -> Int] /\ b \in [1 .. n -> Int]
      /\ Totals(s, a, n) /\ Totals(t, b, n)
      /\ \A i \in (1 .. n) \ {q} : a[i] = b[i]
  BY DEF DifferAt
<1> DEFINE S == {k \in 0 .. n : t[k] - s[k] = IF k < q THEN 0 ELSE b[q] - a[q]}
<1>1. 0 \in S
  BY <1>0 DEF Totals
<1>2. ASSUME NEW k \in 0 .. n, k > 0, k - 1 \in S PROVE k \in S
  <2>1. k \in 1 .. n /\ k - 1 \in 0 .. n
    BY <1>0, <1>2
  <2>2. /\ t[k] = t[k - 1] + b[k] /\ s[k] = s[k - 1] + a[k]
        /\ t[k - 1] \in Int /\ s[k - 1] \in Int
    BY <1>0, <2>1 DEF Totals
  <2>3. a[k] \in Int /\ b[k] \in Int /\ a[q] \in Int /\ b[q] \in Int
    BY <1>0, <2>1
  <2>4. t[k - 1] - s[k - 1] = IF k - 1 < q THEN 0 ELSE b[q] - a[q]
    BY <1>2
  <2>5. k \in Int /\ q \in Int
    BY <1>0
  <2>6. t[k] - s[k] = (t[k - 1] - s[k - 1]) + (b[k] - a[k])
    BY <2>2, <2>3
  <2>7. t[k] - s[k] = IF k < q THEN 0 ELSE b[q] - a[q]
    <3>1. CASE k = q
      BY <2>3, <2>4, <2>5, <2>6, <3>1
    <3>2. CASE k # q
      <4>1. a[k] = b[k]
        BY <1>0, <2>1, <3>2
      <4>2. b[k] - a[k] = 0
        BY <2>3, <4>1
      <4>3. t[k] - s[k] = t[k - 1] - s[k - 1]
        BY <2>2, <2>6, <4>2
      <4>4. k - 1 < q <=> k < q
        BY <2>5, <3>2
      <4> QED BY <2>4, <4>3, <4>4
    <3> QED BY <3>1, <3>2
  <2> QED BY <2>7
<1>3. 0 .. n \subseteq S
  <2> HIDE DEF S
  <2> QED BY <1>0, <1>1, <1>2, UpTo
<1> QED BY <1>0, <1>3

Chars == 0 .. Filler

Term(value, i) == CharValue(value[i]) * Weights[((i - 1) % 3) + 1]

Terms(value) == [i \in 1 .. Len(value) |-> Term(value, i)]

LEMMA CharInt == \A c \in Chars : CharValue(c) \in Int
BY DEF CharValue, Chars, Filler

LEMMA TermsType ==
  ASSUME NEW value \in Seq(Chars)
  PROVE  /\ Len(value) \in Nat
         /\ Terms(value) \in [1 .. Len(value) -> Int]
         /\ \A i \in 1 .. Len(value) :
              \E w \in {7, 3, 1} : \A c \in Chars : CharValue(c) * Weights[((i - 1) % 3) + 1] = w * CharValue(c)
<1>1. ASSUME NEW i \in 1 .. Len(value)
      PROVE  \E w \in {7, 3, 1} : w = Weights[((i - 1) % 3) + 1]
  <2>1. (i - 1) % 3 \in 0 .. 2
    OBVIOUS
  <2>2. ((i - 1) % 3) + 1 \in {1, 2, 3}
    BY <2>1
  <2> QED BY <2>2 DEF Weights
<1>2. \A c \in Chars : CharValue(c) \in Int
  BY CharInt
<1>3. ASSUME NEW i \in 1 .. Len(value)
      PROVE  Term(value, i) \in Int
  <2>1. PICK w \in {7, 3, 1} : w = Weights[((i - 1) % 3) + 1]
    BY <1>1
  <2>2. CharValue(value[i]) \in Int /\ w \in Int
    BY <1>2
  <2> QED BY <2>1, <2>2 DEF Term
<1>4. ASSUME NEW i \in 1 .. Len(value)
      PROVE  \E w \in {7, 3, 1} :
               \A c \in Chars : CharValue(c) * Weights[((i - 1) % 3) + 1] = w * CharValue(c)
  <2>1. PICK w \in {7, 3, 1} : w = Weights[((i - 1) % 3) + 1]
    BY <1>1
  <2>2. \A c \in Chars : CharValue(c) * w = w * CharValue(c)
    BY <1>2
  <2> QED BY <2>1, <2>2
<1> QED BY <1>3, <1>4 DEF Terms

LEMMA CheckDigitTotals ==
  ASSUME NEW value \in Seq(Chars)
  PROVE  \E sums : Totals(sums, Terms(value), Len(value)) /\ CheckDigit(value) = sums[Len(value)] % 10
<1> DEFINE n == Len(value)
           Adds(f) == f = [i \in 0 .. n |->
                        IF i = 0 THEN 0
                        ELSE f[i - 1] + CharValue(value[i]) * Weights[((i - 1) % 3) + 1]]
           total == CHOOSE f : Adds(f)
<1>1. CheckDigit(value) = total[n] % 10
  BY DEF CheckDigit
<1>2. n \in Nat /\ Terms(value) \in [1 .. n -> Int]
  BY TermsType
<1>3. PICK sums : Totals(sums, Terms(value), n)
  BY <1>2, TotalsExist
<1>4. Adds(sums)
  <2>1. sums = [i \in 0 .. n |-> sums[i]]
    BY <1>3 DEF Totals
  <2>2. ASSUME NEW i \in 0 .. n
        PROVE  sums[i] = IF i = 0 THEN 0
                         ELSE sums[i - 1] + CharValue(value[i]) * Weights[((i - 1) % 3) + 1]
    <3>1. CASE i = 0
      BY <1>3, <3>1 DEF Totals
    <3>2. CASE i # 0
      <4>1. i \in 1 .. n
        BY <3>2, <1>2
      <4>2. Terms(value)[i] = CharValue(value[i]) * Weights[((i - 1) % 3) + 1]
        BY <4>1 DEF Terms, Term
      <4>3. sums[i] = sums[i - 1] + Terms(value)[i]
        BY <1>3, <4>1 DEF Totals
      <4> QED BY <3>2, <4>2, <4>3
    <3> QED BY <3>1, <3>2
  <2> QED BY <2>1, <2>2
<1>5. Adds(total)
  <2> HIDE DEF Adds
  <2> QED BY <1>4
<1>6. Totals(total, Terms(value), n)
  <2> DEFINE S == {k \in 0 .. n : total[k] = sums[k]}
  <2>1. \A i \in 0 .. n : total[i] = IF i = 0 THEN 0 ELSE total[i - 1] + Terms(value)[i]
    <3> HIDE DEF total
    <3>1. \A i \in 0 .. n : total[i] = IF i = 0 THEN 0
              ELSE total[i - 1] + CharValue(value[i]) * Weights[((i - 1) % 3) + 1]
      BY <1>5
    <3>2. \A i \in 0 .. n : i # 0 => 
            Terms(value)[i] = CharValue(value[i]) * Weights[((i - 1) % 3) + 1]
      BY <1>2 DEF Terms, Term
    <3> QED BY <3>1, <3>2
  <2> HIDE DEF total
  <2>2. 0 \in S
    BY <1>2, <1>3, <2>1 DEF Totals
  <2>3. ASSUME NEW k \in 0 .. n, k > 0, k - 1 \in S PROVE k \in S
    <3>1. k \in 1 .. n /\ k # 0 /\ total[k - 1] = sums[k - 1]
      BY <2>3
    <3>2. sums[k] = sums[k - 1] + Terms(value)[k]
      BY <1>3, <3>1 DEF Totals
    <3> QED BY <2>1, <3>1, <3>2
  <2>4. 0 .. n \subseteq S
    <3> HIDE DEF S, n
    <3> QED BY <1>2, <2>2, <2>3, UpTo
  <2>5. total = sums
    <3>1. total = [i \in 0 .. n |-> total[i]]
      <4>1. total = [i \in 0 .. n |->
                        IF i = 0 THEN 0
                        ELSE total[i - 1] + CharValue(value[i]) * Weights[((i - 1) % 3) + 1]]
        BY <1>5
      <4> QED BY <4>1
    <3>2. sums = [i \in 0 .. n |-> sums[i]]
      BY <1>3 DEF Totals
    <3>3. \A i \in 0 .. n : total[i] = sums[i]
      BY <2>4
    <3> QED BY <3>1, <3>2, <3>3
  <2> QED BY <1>3, <2>5
<1> HIDE DEF total
<1> QED BY <1>1, <1>6

LEMMA Tens ==
  ASSUME NEW x \in Int, NEW y \in Int, x % 10 = y % 10, NEW u \in Int, NEW v \in Int,
         NEW w \in {7, 3, 1}, y - x = w * v - w * u
  PROVE  u % 10 = v % 10
<1>1. CASE w = 7
  BY <1>1
<1>2. CASE w = 3
  BY <1>2
<1>3. CASE w = 1
  BY <1>3
<1> QED BY <1>1, <1>2, <1>3

\* A check digit sees every change of one character, but one by tens.
LEMMA ChangeSeen ==
  ASSUME NEW a \in Seq(Chars), NEW b \in Seq(Chars), Len(a) = Len(b), NEW q \in 1 .. Len(a),
         \A i \in (1 .. Len(a)) \ {q} : a[i] = b[i],
         CheckDigit(a) = CheckDigit(b)
  PROVE  CharValue(a[q]) % 10 = CharValue(b[q]) % 10
<1> DEFINE n == Len(a)
           A == Terms(a)
           B == Terms(b)
<1>1. /\ n \in Nat /\ Len(b) = n
      /\ A \in [1 .. n -> Int] /\ B \in [1 .. n -> Int]
  BY TermsType
<1>2. PICK s : Totals(s, A, n) /\ CheckDigit(a) = s[n] % 10
  BY CheckDigitTotals
<1>3. PICK t : Totals(t, B, n) /\ CheckDigit(b) = t[n] % 10
  BY <1>1, CheckDigitTotals
<1>4. \A i \in (1 .. n) \ {q} : A[i] = B[i]
  <2> SUFFICES ASSUME NEW i \in (1 .. n) \ {q} PROVE A[i] = B[i]
    OBVIOUS
  <2>1. i \in 1 .. Len(a) /\ i \in 1 .. Len(b)
    BY <1>1
  <2>2. A[i] = Term(a, i) /\ B[i] = Term(b, i)
    BY <2>1 DEF Terms
  <2>3. a[i] = b[i]
    BY <2>1
  <2> QED BY <2>2, <2>3 DEF Term
<1>5. t[n] - s[n] = B[q] - A[q]
  <2>1. q \in 1 .. n
    OBVIOUS
  <2> HIDE DEF A, B, n
  <2>2. DifferAt(q, n, A, s, B, t)
    BY <1>1, <1>2, <1>3, <1>4, <2>1 DEF DifferAt
  <2> QED BY <2>2, OneChange
<1>6. PICK w \in {7, 3, 1} : \A c \in Chars : CharValue(c) * Weights[((q - 1) % 3) + 1] = w * CharValue(c)
  BY TermsType
<1>7. a[q] \in Chars /\ b[q] \in Chars
  BY <1>1
<1>8. A[q] = w * CharValue(a[q]) /\ B[q] = w * CharValue(b[q])
  BY <1>1, <1>6, <1>7 DEF Terms, Term
<1>9. CharValue(a[q]) \in Int /\ CharValue(b[q]) \in Int
  BY <1>7, CharInt
<1>10. s[n] \in Int /\ t[n] \in Int /\ s[n] % 10 = t[n] % 10
  <2>1. n \in 0 .. n
    BY <1>1
  <2>2. s \in [0 .. n -> Int] /\ t \in [0 .. n -> Int]
    BY <1>2, <1>3 DEF Totals
  <2> QED BY <1>1, <1>2, <1>3, <2>1, <2>2
<1>11. t[n] - s[n] = w * CharValue(b[q]) - w * CharValue(a[q])
  BY <1>5, <1>8
<1> DEFINE x == s[n]
           y == t[n]
           u == CharValue(a[q])
           v == CharValue(b[q])
<1>12. x \in Int /\ y \in Int /\ u \in Int /\ v \in Int
  BY <1>9, <1>10
<1>13. x % 10 = y % 10 /\ y - x = w * v - w * u
  BY <1>10, <1>11
<1> SUFFICES u % 10 = v % 10
  OBVIOUS
<1> HIDE DEF n, A, B, x, y, u, v
<1> QED BY <1>12, <1>13, Tens

-----------------------------------------------------------------------------
(***************************************************************************)
(* The fields of a line.                                                   *)
(***************************************************************************)
Lines == {line \in Seq(Chars) : Len(line) = 44}

LEMMA LineChars ==
  ASSUME NEW line \in Lines
  PROVE  line \in Seq(Chars) /\ Len(line) = 44 /\ \A i \in 1 .. 44 : line[i] \in Chars
<1>1. line \in Seq(Chars) /\ Len(line) = 44
  BY DEF Lines
<1> HIDE DEF Chars
<1> QED BY <1>1, ElementOfSeq

\* The k characters after the d-th.
Part(line, d, k) == SubSeq(line, d + 1, d + k)

LEMMA PartIn ==
  ASSUME NEW s \in Seq(Chars), NEW d \in Nat, NEW k \in Nat, d + k <= Len(s)
  PROVE  /\ Part(s, d, k) \in Seq(Chars)
         /\ Len(Part(s, d, k)) = k
         /\ \A i \in 1 .. k : Part(s, d, k)[i] = s[i + d]
<1> DEFINE m == d + 1
           n == d + k
<1>1. m \in Int /\ n \in Int /\ \A i \in m .. n : i \in 1 .. Len(s)
  OBVIOUS
<1>2. /\ (IF m <= n THEN n - m + 1 ELSE 0) = k
      /\ \A i \in 1 .. k : i \in 1 .. n - m + 1 /\ m + i - 1 = i + d
  OBVIOUS
<1> HIDE DEF m, n
<1>3. \A i \in m .. n : s[i] \in Chars
  BY <1>1, ElementOfSeq
<1>4. /\ SubSeq(s, m, n) \in Seq(Chars)
      /\ Len(SubSeq(s, m, n)) = IF m <= n THEN n - m + 1 ELSE 0
      /\ \A i \in 1 .. n - m + 1 : SubSeq(s, m, n)[i] = s[m + i - 1]
  BY <1>1, <1>3, SubSeqProperties
<1>5. /\ SubSeq(s, m, n) \in Seq(Chars)
      /\ Len(SubSeq(s, m, n)) = k
      /\ \A i \in 1 .. k : SubSeq(s, m, n)[i] = s[i + d]
  BY <1>2, <1>4
<1> QED BY <1>5 DEF Part, m, n

Inside(line, d, k) == line \in Lines /\ d \in 0 .. 44 /\ k \in 0 .. 44 /\ d + k <= 44

LEMMA PartOf ==
  ASSUME NEW line, NEW d, NEW k, Inside(line, d, k)
  PROVE  /\ Part(line, d, k) \in Seq(Chars)
         /\ Len(Part(line, d, k)) = k
         /\ \A i \in 1 .. k : Part(line, d, k)[i] = line[i + d]
<1>1. line \in Seq(Chars) /\ Len(line) = 44
  BY LineChars DEF Inside
<1>2. d \in Nat /\ k \in Nat /\ d + k <= 44
  BY DEF Inside
<1>3. d + k <= Len(line)
  BY <1>1, <1>2
<1>4. line \in Seq(Chars)
  BY <1>1
<1> QED BY <1>2, <1>3, <1>4, PartIn

LEMMA PartType ==
  ASSUME NEW line, NEW d, NEW k, Inside(line, d, k)
  PROVE  Part(line, d, k) \in Seq(Chars) /\ Len(Part(line, d, k)) = k
BY PartOf

LEMMA PartAt ==
  ASSUME NEW line, NEW d, NEW k, Inside(line, d, k), NEW i \in 1 .. k
  PROVE  Part(line, d, k)[i] = line[i + d]
BY PartOf

\* The parts of two sequences put together.
LEMMA PartsOfConcat ==
  ASSUME NEW s \in Seq(Chars), NEW t \in Seq(Chars), NEW d \in Nat, NEW k \in Nat
  PROVE  /\ s \o t \in Seq(Chars) /\ Len(s \o t) = Len(s) + Len(t)
         /\ d + k <= Len(s) => Part(s \o t, d, k) = Part(s, d, k)
         /\ d + k <= Len(t) => Part(s \o t, Len(s) + d, k) = Part(t, d, k)
<1> DEFINE m == Len(s)
           n == Len(t)
           st == s \o t
<1>1. m \in Nat /\ n \in Nat
  BY LenProperties
<1>2. /\ st \in Seq(Chars) /\ Len(st) = m + n
      /\ \A i \in 1 .. m + n : st[i] = IF i <= m THEN s[i] ELSE t[i - m]
  BY ConcatProperties
<1>3. Len(s) = m /\ Len(t) = n
  OBVIOUS
<1> HIDE DEF m, n, st
<1>4. ASSUME d + k <= m PROVE Part(st, d, k) = Part(s, d, k)
  <2>1. d + k <= Len(st) /\ d + k <= Len(s)
    BY <1>1, <1>2, <1>3, <1>4
  <2>2. /\ Part(st, d, k) \in Seq(Chars) /\ Len(Part(st, d, k)) = k
        /\ \A i \in 1 .. k : Part(st, d, k)[i] = st[i + d]
    BY <1>2, <2>1, PartIn
  <2>3. /\ Part(s, d, k) \in Seq(Chars) /\ Len(Part(s, d, k)) = k
        /\ \A i \in 1 .. k : Part(s, d, k)[i] = s[i + d]
    BY <2>1, PartIn
  <2>4. \A i \in 1 .. k : i + d \in 1 .. m + n /\ i + d <= m
    BY <1>1, <1>4
  <2>5. \A i \in 1 .. k : st[i + d] = s[i + d]
    BY <1>2, <2>4
  <2>6. \A i \in 1 .. k : Part(st, d, k)[i] = Part(s, d, k)[i]
    BY <2>2, <2>3, <2>5
  <2>7. \A i \in 1 .. Len(Part(st, d, k)) : Part(st, d, k)[i] = Part(s, d, k)[i]
    BY <2>2, <2>6
  <2> QED BY <2>2, <2>3, <2>7, SeqEqual
<1>5. ASSUME d + k <= n PROVE Part(st, m + d, k) = Part(t, d, k)
  <2> DEFINE e == m + d
  <2>1. e \in Nat /\ e + k <= Len(st) /\ d + k <= Len(t)
    BY <1>1, <1>2, <1>3, <1>5
  <2>2. \A i \in 1 .. k : i + e \in 1 .. m + n /\ ~(i + e <= m) /\ (i + e) - m = i + d
    BY <1>1, <1>5
  <2> HIDE DEF e
  <2>3. /\ Part(st, e, k) \in Seq(Chars) /\ Len(Part(st, e, k)) = k
        /\ \A i \in 1 .. k : Part(st, e, k)[i] = st[i + e]
    BY <1>2, <2>1, PartIn
  <2>4. /\ Part(t, d, k) \in Seq(Chars) /\ Len(Part(t, d, k)) = k
        /\ \A i \in 1 .. k : Part(t, d, k)[i] = t[i + d]
    BY <2>1, PartIn
  <2>5. \A i \in 1 .. k : st[i + e] = t[i + d]
    BY <1>2, <2>2
  <2>6. \A i \in 1 .. k : Part(st, e, k)[i] = Part(t, d, k)[i]
    BY <2>3, <2>4, <2>5
  <2>7. \A i \in 1 .. Len(Part(st, e, k)) : Part(st, e, k)[i] = Part(t, d, k)[i]
    BY <2>3, <2>6
  <2>8. Part(st, e, k) = Part(t, d, k)
    BY <2>3, <2>4, <2>7, SeqEqual
  <2> QED BY <2>8 DEF e
<1> QED BY <1>2, <1>4, <1>5 DEF m, n, st

LEMMA PartAll ==
  ASSUME NEW s \in Seq(Chars)
  PROVE  Part(s, 0, Len(s)) = s
<1> DEFINE n == Len(s)
           p == Part(s, 0, n)
<1>1. n \in Nat /\ 0 \in Nat /\ 0 + n <= Len(s)
  BY LenProperties
<1>2. Len(s) = n
  OBVIOUS
<1> HIDE DEF n
<1>3. p \in Seq(Chars) /\ Len(p) = n /\ \A i \in 1 .. n : p[i] = s[i + 0]
  BY <1>1, PartIn
<1> HIDE DEF p
<1>4. \A i \in 1 .. n : i + 0 = i
  BY <1>1
<1>5. Len(p) = Len(s) /\ \A i \in 1 .. Len(p) : p[i] = s[i]
  BY <1>2, <1>3, <1>4
<1>6. p = s
  BY <1>3, <1>5, SeqEqual
<1> QED BY <1>6 DEF p, n

LEMMA PartLeft ==
  ASSUME NEW s \in Seq(Chars), NEW t \in Seq(Chars), NEW d \in Nat, NEW k \in Nat, d + k <= Len(s)
  PROVE  Part(s \o t, d, k) = Part(s, d, k)
BY PartsOfConcat

LEMMA PartRight ==
  ASSUME NEW s \in Seq(Chars), NEW t \in Seq(Chars), NEW d \in Nat, NEW k \in Nat, d + k <= Len(t),
         NEW e \in Nat, e = Len(s) + d
  PROVE  Part(s \o t, e, k) = Part(t, d, k)
<1>1. Part(s \o t, Len(s) + d, k) = Part(t, d, k)
  BY PartsOfConcat
<1> QED BY <1>1

LEMMA PartsOfAppend ==
  ASSUME NEW s \in Seq(Chars), NEW c \in Chars
  PROVE  /\ Append(s, c) \in Seq(Chars)
         /\ Len(Append(s, c)) = Len(s) + 1
         /\ Append(s, c)[Len(s) + 1] = c
         /\ \A d, k \in Nat : d + k <= Len(s) => Part(Append(s, c), d, k) = Part(s, d, k)
<1> DEFINE t == <<c>>
<1>1. t \in Seq(Chars)
  OBVIOUS
<1>2. Append(s, c) = s \o t
  BY AppendIsConcat
<1> HIDE DEF t
<1>3. ASSUME NEW d \in Nat, NEW k \in Nat, d + k <= Len(s)
      PROVE  Part(s \o t, d, k) = Part(s, d, k)
  BY <1>1, <1>3, PartsOfConcat
<1>4. \A d, k \in Nat : d + k <= Len(s) => Part(Append(s, c), d, k) = Part(s, d, k)
  BY <1>2, <1>3
<1>5. /\ Append(s, c) \in Seq(Chars)
      /\ Len(Append(s, c)) = Len(s) + 1
      /\ Append(s, c)[Len(s) + 1] = c
  BY AppendProperties
<1> QED BY <1>4, <1>5

\* A line that was cut short ends in fillers.
LEMMA JustifiedLine ==
  ASSUME NEW line \in Seq(Chars), Len(line) <= 44
  PROVE  /\ Justified(line) \in Lines
         /\ Len(line) = 44 => Justified(line) = line
         /\ Len(line) < 44 => Justified(line)[44] = Filler
<1> DEFINE rest == [i \in 1 .. 44 |-> Filler]
           n == Len(line)
           z == 0
           w == 44
           long == line \o rest
           full == Part(long, z, w)
<1>1. rest \in Seq(Chars) /\ Len(rest) = 44 /\ \A i \in 1 .. 44 : rest[i] = Filler
  BY DEF Chars, Filler
<1>2. n \in Nat /\ n <= 44
  BY LenProperties
<1>3. Justified(line) = full
  BY DEF Justified, Part
<1>4. z \in Nat /\ w \in Nat /\ z = 0 /\ w = 44 /\ Len(line) = n
  OBVIOUS
<1> HIDE DEF rest
<1>5. rest \in Seq(Chars)
  BY <1>1
<1>6. Len(rest) = w
  BY <1>1
<1>7. /\ long \in Seq(Chars) /\ Len(long) = Len(line) + Len(rest)
      /\ \A i \in 1 .. Len(line) + Len(rest) :
           long[i] = IF i <= Len(line) THEN line[i] ELSE rest[i - Len(line)]
  BY <1>5, ConcatProperties
<1> HIDE DEF n, z, w, long
<1>8. /\ long \in Seq(Chars) /\ Len(long) = n + w
      /\ \A i \in 1 .. n + w : long[i] = IF i <= n THEN line[i] ELSE rest[i - n]
  BY <1>4, <1>6, <1>7
<1>9. z + w <= Len(long)
  BY <1>2, <1>4, <1>8
<1>10. full \in Seq(Chars) /\ Len(full) = w /\ \A i \in 1 .. w : full[i] = long[i + z]
  <2>1. z \in Nat /\ w \in Nat /\ long \in Seq(Chars)
    BY <1>4, <1>8
  <2> QED BY <1>9, <2>1, PartIn
<1>11. full \in Lines
  <2> HIDE DEF full
  <2> QED BY <1>4, <1>10 DEF Lines
<1>12. ASSUME n = 44 PROVE full = line
  <2>1. z + w <= Len(line)
    BY <1>4, <1>12
  <2>2. Part(long, z, w) = Part(line, z, w)
    BY <1>4, <1>5, <2>1, PartsOfConcat DEF long
  <2>3. Part(line, 0, Len(line)) = line
    BY PartAll
  <2>4. z = 0 /\ w = Len(line)
    BY <1>4, <1>12
  <2> QED BY <2>2, <2>3, <2>4
<1>13. ASSUME n < 44 PROVE full[44] = Filler
  <2>1. w \in 1 .. w /\ w + z = w /\ w \in 1 .. n + w /\ ~(w <= n) /\ w - n \in 1 .. 44
    BY <1>2, <1>4, <1>13
  <2>2. full[w] = rest[w - n]
    <3> HIDE DEF full
    <3>1. full[w] = long[w]
      BY <1>10, <2>1
    <3> QED BY <1>8, <2>1, <3>1
  <2>3. rest[w - n] = Filler
    BY <1>1, <2>1
  <2> QED BY <1>4, <2>2, <2>3
<1> HIDE DEF full
<1> QED BY <1>3, <1>4, <1>11, <1>12, <1>13

\* The composite digit covers what the others cover, the digits themselves
\* and the optional data.
LEMMA CompositeOf ==
  ASSUME NEW line \in Lines
  PROVE  /\ Composite(line) \in Seq(Chars)
         /\ Len(Composite(line)) = 39
         /\ \A i \in 1 .. 39 : Composite(line)[i] =
              IF i <= 10 THEN line[i] ELSE IF i <= 17 THEN line[i + 3] ELSE line[i + 4]
<1> DEFINE x == Part(line, 0, 10)
           y == Part(line, 13, 7)
           z == Part(line, 21, 22)
<1>1. x \in Seq(Chars) /\ Len(x) = 10 /\ \A i \in 1 .. 10 : x[i] = line[i + 0]
  <2>1. Inside(line, 0, 10)
    BY DEF Inside
  <2>2. x \in Seq(Chars) /\ Len(x) = 10
    BY <2>1, PartType
  <2>3. ASSUME NEW i \in 1 .. 10 PROVE x[i] = line[i + 0]
    BY <2>1, PartAt
  <2> HIDE DEF x
  <2> QED BY <2>2, <2>3
<1>2. y \in Seq(Chars) /\ Len(y) = 7 /\ \A i \in 1 .. 7 : y[i] = line[i + 13]
  <2>1. Inside(line, 13, 7)
    BY DEF Inside
  <2>2. y \in Seq(Chars) /\ Len(y) = 7
    BY <2>1, PartType
  <2>3. ASSUME NEW i \in 1 .. 7 PROVE y[i] = line[i + 13]
    BY <2>1, PartAt
  <2> HIDE DEF y
  <2> QED BY <2>2, <2>3
<1>3. z \in Seq(Chars) /\ Len(z) = 22 /\ \A i \in 1 .. 22 : z[i] = line[i + 21]
  <2>1. Inside(line, 21, 22)
    BY DEF Inside
  <2>2. z \in Seq(Chars) /\ Len(z) = 22
    BY <2>1, PartType
  <2>3. ASSUME NEW i \in 1 .. 22 PROVE z[i] = line[i + 21]
    BY <2>1, PartAt
  <2> HIDE DEF z
  <2> QED BY <2>2, <2>3
<1> DEFINE xy == x \o y
           xyz == xy \o z
<1> HIDE DEF x, y, z, xy, xyz, Chars
<1>4. x \in Seq(Chars) /\ y \in Seq(Chars) /\ z \in Seq(Chars)
  BY <1>1, <1>2, <1>3
<1>5. Len(x) = 10 /\ Len(y) = 7 /\ Len(z) = 22
  BY <1>1, <1>2, <1>3
<1>6. /\ \A i \in 1 .. 10 : x[i] = line[i]
      /\ \A i \in 1 .. 7 : y[i] = line[i + 13]
      /\ \A i \in 1 .. 22 : z[i] = line[i + 21]
  <2>1. \A i \in 1 .. 10 : i + 0 = i
    OBVIOUS
  <2>2. \A i \in 1 .. 10 : x[i] = line[i]
    BY <1>1, <2>1
  <2> QED BY <1>2, <1>3, <2>2
<1>7. /\ xy \in Seq(Chars) /\ Len(xy) = Len(x) + Len(y)
      /\ \A i \in 1 .. Len(x) + Len(y) : xy[i] = IF i <= Len(x) THEN x[i] ELSE y[i - Len(x)]
  BY <1>4, ConcatProperties DEF xy
<1>8. Len(xy) = 17
  BY <1>5, <1>7
<1>9. /\ xyz \in Seq(Chars) /\ Len(xyz) = Len(xy) + Len(z)
      /\ \A i \in 1 .. Len(xy) + Len(z) : xyz[i] = IF i <= Len(xy) THEN xy[i] ELSE z[i - Len(xy)]
  <2>1. xy \in Seq(Chars)
    BY <1>7
  <2> QED BY <1>4, <2>1, ConcatProperties DEF xyz
<1>10. Len(xyz) = 39
  BY <1>5, <1>8, <1>9
<1>11. \A i \in 1 .. 17 : xy[i] = IF i <= 10 THEN x[i] ELSE y[i - 10]
  <2>1. \A i \in 1 .. 10 + 7 : xy[i] = IF i <= 10 THEN x[i] ELSE y[i - 10]
    BY <1>5, <1>7
  <2> QED BY <2>1
<1>12. \A i \in 1 .. 39 : xyz[i] = IF i <= 17 THEN xy[i] ELSE z[i - 17]
  <2>1. \A i \in 1 .. 17 + 22 : xyz[i] = IF i <= 17 THEN xy[i] ELSE z[i - 17]
    BY <1>5, <1>8, <1>9
  <2> QED BY <2>1
<1>13. ASSUME NEW i \in 1 .. 39
       PROVE  xyz[i] = IF i <= 10 THEN line[i] ELSE IF i <= 17 THEN line[i + 3] ELSE line[i + 4]
  <2>1. CASE i <= 10
    <3>1. i \in 1 .. 10 /\ i \in 1 .. 17 /\ i <= 17
      BY <2>1
    <3>2. xyz[i] = x[i]
      BY <1>11, <1>12, <2>1, <3>1
    <3>3. x[i] = line[i]
      BY <1>6, <3>1
    <3> QED BY <2>1, <3>2, <3>3
  <2>2. CASE i > 10 /\ i <= 17
    <3>1. i - 10 \in 1 .. 7 /\ i \in 1 .. 17 /\ (i - 10) + 13 = i + 3 /\ ~(i <= 10)
      BY <2>2
    <3>2. xyz[i] = y[i - 10]
      BY <1>11, <1>12, <2>2, <3>1
    <3>3. y[i - 10] = line[(i - 10) + 13]
      BY <1>6, <3>1
    <3> QED BY <2>2, <3>1, <3>2, <3>3
  <2>3. CASE i > 17
    <3>1. i - 17 \in 1 .. 22 /\ (i - 17) + 21 = i + 4 /\ ~(i <= 17) /\ ~(i <= 10)
      BY <2>3
    <3>2. xyz[i] = z[i - 17]
      BY <1>12, <3>1
    <3>3. z[i - 17] = line[(i - 17) + 21]
      BY <1>6, <3>1
    <3> QED BY <3>1, <3>2, <3>3
  <2> QED BY <2>1, <2>2, <2>3
<1>14. Composite(line) = xyz
  BY DEF Composite, x, y, z, xy, xyz, Part
<1>15. xyz \in Seq(Chars)
  BY <1>9
<1> QED BY <1>10, <1>13, <1>14, <1>15

Passing(line) ==
  /\ CheckDigit(DocumentNumber(line)) = line[10]
  /\ CheckDigit(BirthDate(line)) = line[20]
  /\ CheckDigit(ExpiryDate(line)) = line[28]
  /\ CheckDigit(Composite(line)) = line[44]

LEMMA ChecksOf ==
  ASSUME NEW line \in Lines
  PROVE  ParseTd3(line).checks_passed <=> Passing(line)
<1>1. ParseTd3(line).checks_passed <=> \A check \in DOMAIN Checks(line) : Checks(line)[check]
  <2>1. line \in Seq(Chars) /\ Len(line) = 44
    BY LineChars
  <2>2. Len(line) <= 44
    BY <2>1
  <2>3. Justified(line) = line
    BY <2>1, <2>2, JustifiedLine
  <2> QED BY <2>3 DEF ParseTd3
<1>2. /\ DOMAIN Checks(line) = {"document_number", "birth_date", "expiry_date", "composite"}
      /\ Checks(line)["document_number"] = (CheckDigit(DocumentNumber(line)) = line[10])
      /\ Checks(line)["birth_date"] = (CheckDigit(BirthDate(line)) = line[20])
      /\ Checks(line)["expiry_date"] = (CheckDigit(ExpiryDate(line)) = line[28])
      /\ Checks(line)["composite"] = (CheckDigit(Composite(line)) = line[44])
  BY DEF Checks
<1> QED BY <1>1, <1>2 DEF Passing

LEMMA DigitRange ==
  ASSUME NEW value \in Seq(Chars)
  PROVE  CheckDigit(value) \in 0 .. 9 /\ CheckDigit(value) \in Chars
<1> DEFINE n == Len(value)
<1>1. n \in Nat
  BY LenProperties
<1>2. PICK sums : Totals(sums, Terms(value), n) /\ CheckDigit(value) = sums[n] % 10
  BY CheckDigitTotals
<1> HIDE DEF n
<1>3. sums[n] \in Int
  BY <1>1, <1>2 DEF Totals
<1>4. CheckDigit(value) \in 0 .. 9
  <2>1. \A x \in Int : x % 10 \in 0 .. 9
    OBVIOUS
  <2> QED BY <1>2, <1>3, <2>1
<1> QED BY <1>4 DEF Chars, Filler

\* A line that was cut short fails: a filler is no check digit.
LEMMA CutFails ==
  ASSUME NEW line \in Lines, line[44] = Filler
  PROVE  ~Passing(line)
<1>1. CheckDigit(Composite(line)) \in 0 .. 9
  BY CompositeOf, DigitRange
<1> QED BY <1>1 DEF Passing, Filler

Signed(value) == Append(value, CheckDigit(value))

LEMMA SignedType ==
  ASSUME NEW value \in Seq(Chars)
  PROVE  Signed(value) \in Seq(Chars) /\ Len(Signed(value)) = Len(value) + 1
<1>1. CheckDigit(value) \in Chars
  BY DigitRange
<1> QED BY <1>1, PartsOfAppend DEF Signed

\* The n characters of v, and then its check digit, after the d-th of s.
FieldIn(s, d, n, v) ==
  /\ s \in Seq(Chars) /\ v \in Seq(Chars) /\ d \in Nat /\ n \in Nat
  /\ Len(v) = n /\ d + (n + 1) <= Len(s)
  /\ Part(s, d, n) = Part(Signed(v), 0, n)
  /\ Part(s, d, n + 1) = Part(Signed(v), 0, n + 1)

LEMMA FieldAt ==
  ASSUME NEW s, NEW d, NEW n, NEW v, FieldIn(s, d, n, v)
  PROVE  Part(s, d, n) = v /\ s[n + 1 + d] = CheckDigit(v)
<1> DEFINE c == CheckDigit(v)
           f == Append(v, c)
           m == n + 1
<1>0. /\ s \in Seq(Chars) /\ v \in Seq(Chars) /\ d \in Nat /\ n \in Nat
      /\ Len(v) = n /\ d + (n + 1) <= Len(s)
      /\ Part(s, d, n) = Part(f, 0, n)
      /\ Part(s, d, n + 1) = Part(f, 0, n + 1)
  BY DEF FieldIn, Signed
<1>1. c \in Chars
  BY <1>0, DigitRange
<1> HIDE DEF c
<1>2. f \in Seq(Chars) /\ Len(f) = Len(v) + 1 /\ f[Len(v) + 1] = c
  BY <1>0, <1>1, PartsOfAppend
<1>3. Part(f, 0, n) = v
  <2>1. 0 \in Nat /\ 0 + n <= Len(v)
    BY <1>0
  <2>2. Part(f, 0, n) = Part(v, 0, n)
    BY <1>0, <1>1, <2>1, PartsOfAppend
  <2>3. Part(v, 0, Len(v)) = v
    BY <1>0, PartAll
  <2> QED BY <1>0, <2>2, <2>3
<1> HIDE DEF f
<1>4. Part(f, 0, Len(f)) = f
  BY <1>2, PartAll
<1>5. Len(f) = m /\ f[m] = c /\ m \in Nat /\ m \in 1 .. m /\ d + m <= Len(s)
  BY <1>0, <1>2
<1>6. Part(s, d, m) = Part(f, 0, m)
  BY <1>0
<1> HIDE DEF m
<1>7. Part(s, d, m)[m] = s[m + d]
  BY <1>0, <1>5, PartIn
<1>8. s[m + d] = c
  BY <1>4, <1>5, <1>6, <1>7
<1>9. s[n + 1 + d] = c
  BY <1>8 DEF m
<1>10. Part(s, d, n) = v
  BY <1>0, <1>3
<1> QED BY <1>9, <1>10 DEF c

\* Where the check digits look: not at the nationality, nor at the sex.
Covered == (1 .. 10) \cup (14 .. 20) \cup (22 .. 44)

\* One misread character, wherever the digits look, is seen unless it changes
\* the value by tens: two lines that differ in one place and both pass their
\* checks agree there modulo ten (check_digit, parse_td3).
THEOREM MisreadingIsSeen ==
  ASSUME NEW a \in Lines, NEW b \in Lines,
         ParseTd3(a).checks_passed, ParseTd3(b).checks_passed,
         NEW p \in Covered, \A i \in (1 .. 44) \ {p} : a[i] = b[i]
  PROVE  CharValue(a[p]) % 10 = CharValue(b[p]) % 10
<1>1. Passing(a) /\ Passing(b)
  BY ChecksOf
<1>2. ASSUME NEW d \in 0 .. 44, NEW k \in 0 .. 44, d + k <= 44, p \in d + 1 .. d + k,
             CheckDigit(Part(a, d, k)) = CheckDigit(Part(b, d, k))
      PROVE  CharValue(a[p]) % 10 = CharValue(b[p]) % 10
  <2> DEFINE x == Part(a, d, k)
             y == Part(b, d, k)
             q == p - d
  <2>1. x \in Seq(Chars) /\ Len(x) = k /\ \A i \in 1 .. k : x[i] = a[i + d]
    <3>1. Inside(a, d, k)
      BY <1>2 DEF Inside
    <3> QED BY <3>1, PartOf
  <2>2. y \in Seq(Chars) /\ Len(y) = k /\ \A i \in 1 .. k : y[i] = b[i + d]
    <3>1. Inside(b, d, k)
      BY <1>2 DEF Inside
    <3> QED BY <3>1, PartOf
  <2>3. /\ q \in 1 .. k /\ q + d = p
        /\ \A i \in (1 .. k) \ {q} : i + d \in (1 .. 44) \ {p}
    BY <1>2
  <2>4. CheckDigit(x) = CheckDigit(y)
    BY <1>2
  <2> HIDE DEF x, y, q
  <2>5. ASSUME NEW i \in (1 .. k) \ {q} PROVE x[i] = y[i]
    <3>1. x[i] = a[i + d] /\ y[i] = b[i + d]
      BY <2>1, <2>2
    <3>2. a[i + d] = b[i + d]
      BY <2>3
    <3> QED BY <3>1, <3>2
  <2>6. /\ x \in Seq(Chars) /\ y \in Seq(Chars) /\ Len(x) = Len(y) /\ q \in 1 .. Len(x)
        /\ \A i \in (1 .. Len(x)) \ {q} : x[i] = y[i]
    BY <2>1, <2>2, <2>3, <2>5
  <2>7. CharValue(x[q]) % 10 = CharValue(y[q]) % 10
    BY <2>4, <2>6, ChangeSeen
  <2>8. x[q] = a[q + d] /\ y[q] = b[q + d] /\ q + d = p
    BY <2>1, <2>2, <2>3
  <2> QED BY <2>7, <2>8, Zenon
<1>3. CASE p \in 1 .. 9
  <2>1. 10 # p /\ 10 \in 1 .. 44 /\ 0 \in 0 .. 44 /\ 9 \in 0 .. 44 /\ 0 + 9 <= 44 /\ p \in 0 + 1 .. 0 + 9
    BY <1>3
  <2>2. DocumentNumber(a) = Part(a, 0, 9) /\ DocumentNumber(b) = Part(b, 0, 9)
    BY DEF DocumentNumber, Part
  <2>3. CheckDigit(DocumentNumber(a)) = CheckDigit(DocumentNumber(b))
    <3>1. CheckDigit(DocumentNumber(a)) = a[10] /\ CheckDigit(DocumentNumber(b)) = b[10]
      BY <1>1 DEF Passing
    <3>2. a[10] = b[10]
      BY <2>1, Zenon
    <3> QED BY <3>1, <3>2
  <2> QED BY <1>2, <2>1, <2>2, <2>3
<1>4. CASE p \in 14 .. 19
  <2>1. 20 # p /\ 20 \in 1 .. 44 /\ 13 \in 0 .. 44 /\ 6 \in 0 .. 44 /\ 13 + 6 <= 44 /\ p \in 13 + 1 .. 13 + 6
    BY <1>4
  <2>2. BirthDate(a) = Part(a, 13, 6) /\ BirthDate(b) = Part(b, 13, 6)
    BY DEF BirthDate, Part
  <2>3. CheckDigit(BirthDate(a)) = CheckDigit(BirthDate(b))
    <3>1. CheckDigit(BirthDate(a)) = a[20] /\ CheckDigit(BirthDate(b)) = b[20]
      BY <1>1 DEF Passing
    <3>2. a[20] = b[20]
      BY <2>1, Zenon
    <3> QED BY <3>1, <3>2
  <2> QED BY <1>2, <2>1, <2>2, <2>3
<1>5. CASE p \in 22 .. 27
  <2>1. 28 # p /\ 28 \in 1 .. 44 /\ 21 \in 0 .. 44 /\ 6 \in 0 .. 44 /\ 21 + 6 <= 44 /\ p \in 21 + 1 .. 21 + 6
    BY <1>5
  <2>2. ExpiryDate(a) = Part(a, 21, 6) /\ ExpiryDate(b) = Part(b, 21, 6)
    BY DEF ExpiryDate, Part
  <2>3. CheckDigit(ExpiryDate(a)) = CheckDigit(ExpiryDate(b))
    <3>1. CheckDigit(ExpiryDate(a)) = a[28] /\ CheckDigit(ExpiryDate(b)) = b[28]
      BY <1>1 DEF Passing
    <3>2. a[28] = b[28]
      BY <2>1, Zenon
    <3> QED BY <3>1, <3>2
  <2> QED BY <1>2, <2>1, <2>2, <2>3
<1> DEFINE x == Composite(a)
           y == Composite(b)
           from(i) == IF i <= 10 THEN i ELSE IF i <= 17 THEN i + 3 ELSE i + 4
<1>6. /\ x \in Seq(Chars) /\ Len(x) = 39 /\ y \in Seq(Chars) /\ Len(y) = 39
      /\ \A i \in 1 .. 39 : x[i] = a[from(i)] /\ y[i] = b[from(i)]
  <2>1. x \in Seq(Chars) /\ Len(x) = 39 /\ y \in Seq(Chars) /\ Len(y) = 39
    BY CompositeOf
  <2>2. ASSUME NEW i \in 1 .. 39 PROVE x[i] = a[from(i)] /\ y[i] = b[from(i)]
    <3>1. x[i] = IF i <= 10 THEN a[i] ELSE IF i <= 17 THEN a[i + 3] ELSE a[i + 4]
      BY CompositeOf
    <3>2. y[i] = IF i <= 10 THEN b[i] ELSE IF i <= 17 THEN b[i + 3] ELSE b[i + 4]
      BY CompositeOf
    <3> HIDE DEF x, y
    <3> QED BY <3>1, <3>2
  <2> HIDE DEF x, y, from
  <2> QED BY <2>1, <2>2
<1>7. /\ \A i \in 1 .. 39 : from(i) \in 1 .. 43
      /\ \A i, j \in 1 .. 39 : from(i) = from(j) => i = j
  OBVIOUS
<1>8. ASSUME NEW q \in 1 .. 39, from(q) = p
      PROVE  CharValue(a[p]) % 10 = CharValue(b[p]) % 10
  <2>1. p # 44
    BY <1>7, <1>8
  <2>2. CheckDigit(x) = CheckDigit(y)
    <3>1. a[44] = b[44]
      BY <2>1
    <3> QED BY <1>1, <3>1 DEF Passing
  <2>3. \A i \in (1 .. 39) \ {q} : from(i) \in (1 .. 44) \ {p}
    <3> HIDE DEF from
    <3> QED BY <1>7, <1>8
  <2> HIDE DEF x, y
  <2>4. ASSUME NEW i \in (1 .. 39) \ {q} PROVE x[i] = y[i]
    <3>1. x[i] = a[from(i)] /\ y[i] = b[from(i)] /\ from(i) \in (1 .. 44) \ {p}
      BY <1>6, <2>3
    <3> HIDE DEF from
    <3> QED BY <3>1
  <2> HIDE DEF from
  <2>5. /\ x \in Seq(Chars) /\ y \in Seq(Chars) /\ Len(x) = Len(y) /\ q \in 1 .. Len(x)
        /\ \A i \in (1 .. Len(x)) \ {q} : x[i] = y[i]
    BY <1>6, <2>4
  <2>6. CharValue(x[q]) % 10 = CharValue(y[q]) % 10
    BY <2>2, <2>5, ChangeSeen
  <2> QED BY <1>6, <1>8, <2>6
<1>9. CASE p = 10
  <2>1. from(10) = p /\ 10 \in 1 .. 39
    BY <1>9
  <2> QED BY <1>8, <2>1
<1>10. CASE p = 20
  <2>1. from(17) = p /\ 17 \in 1 .. 39
    BY <1>10
  <2> QED BY <1>8, <2>1
<1>11. CASE p \in 28 .. 43
  <2>1. from(p - 4) = p /\ p - 4 \in 1 .. 39
    BY <1>11
  <2> QED BY <1>8, <2>1
<1>12. CASE p = 44
  <2>1. \A i \in 1 .. 39 : from(i) \in (1 .. 44) \ {p}
    <3> HIDE DEF from
    <3> QED BY <1>7, <1>12
  <2>2. x = y
    <3> HIDE DEF x, y, from
    <3>1. ASSUME NEW i \in 1 .. 39 PROVE x[i] = y[i]
      <4>1. x[i] = a[from(i)] /\ y[i] = b[from(i)] /\ from(i) \in (1 .. 44) \ {p}
        BY <1>6, <2>1
      <4> QED BY <4>1
    <3>2. /\ x \in Seq(Chars) /\ y \in Seq(Chars) /\ Len(x) = Len(y)
          /\ \A i \in 1 .. Len(x) : x[i] = y[i]
      BY <1>6, <3>1
    <3> QED BY <3>2, SeqEqual
  <2> QED BY <1>1, <1>12, <2>2 DEF Passing
<1> QED BY <1>3, <1>4, <1>5, <1>9, <1>10, <1>11, <1>12 DEF Covered
=============================================================================
