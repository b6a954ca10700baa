--------------------------- MODULE Utf8Stream_proofs ---------------------------
(***************************************************************************)
(* Lemmas about the streaming of text, for any bytes.  The scan and the     *)
(* decoding are functions defined by recursion towards the end of the       *)
(* bytes: that they exist, and what they return, is shown by induction from *)
(* the end, which rests on the order of finite sets by inclusion.           *)
(***************************************************************************)
EXTENDS Utf8Stream, FiniteSetTheorems, SequenceTheorems, WellFoundedInduction, TLAPS

\* Among the intervals 1 .. x, finite sets ordered by inclusion, one is minimal.
LEMMA LeastNumber ==
  ASSUME NEW S, S \subseteq Nat, S # {}
  PROVE  \E x \in S : \A y \in S : x =< y
<1> DEFINE T == {1 .. x : x \in S}
<1>1. \A x \in Nat : 1 .. x \in FiniteSubsetsOf(Nat)
  <2> SUFFICES ASSUME NEW x \in Nat PROVE 1 .. x \in FiniteSubsetsOf(Nat)
    OBVIOUS
  <2>1. IsFiniteSet(1 .. x)
    BY FS_Interval
  <2> QED
    BY <2>1 DEF FiniteSubsetsOf
<1>2. T \subseteq FiniteSubsetsOf(Nat) /\ T # {}
  BY <1>1
<1>3. PICK X \in T : \A Y \in T : ~ (<<Y, X>> \in StrictSubsetOrdering(Nat))
  <2> HIDE DEF T
  <2> QED
    BY <1>2, FS_StrictSubsetOrderingWellFounded, WFMin, Zenon
<1>4. PICK x \in S : X = 1 .. x
  BY <1>3
<1>5. \A y \in S : x <= y
  <2> SUFFICES ASSUME NEW y \in S, y < x PROVE FALSE
    OBVIOUS
  <2>1. 1 .. y \subseteq 1 .. x /\ x \in 1 .. x /\ x \notin 1 .. y
    OBVIOUS
  <2>2. <<1 .. y, 1 .. x>> \in StrictSubsetOrdering(Nat)
    BY <2>1 DEF StrictSubsetOrdering
  <2> QED
    BY <1>3, <1>4, <2>2
<1> QED
  BY <1>5

\* Induction from the end: a set that has every position behind n, and each one
\* before with all that follow it, has all.
LEMMA FromTheEnd ==
  ASSUME NEW n \in Nat, NEW S, \A i \in Positions : i > n => i \in S,
         \A i \in 1 .. n : (\A j \in Positions : j > i => j \in S) => i \in S
  PROVE  Positions \subseteq S
<1> DEFINE Rest == Positions \ S
           D == {n - i : i \in Rest}
<1>1. Rest \subseteq 1 .. n
  BY DEF Positions
<1>2. D \subseteq Nat
  BY <1>1
<1> SUFFICES ASSUME Rest # {} PROVE FALSE
  OBVIOUS
<1>3. PICK d \in D : \A e \in D : d =< e
  <2>1. D # {}
    OBVIOUS
  <2> HIDE DEF D
  <2> QED
    BY <1>2, <2>1, LeastNumber
<1>4. PICK i \in Rest : d = n - i
  BY <1>3
<1>5. \A j \in Positions : j > i => j \in S
  <2> SUFFICES ASSUME NEW j \in Rest, j > i PROVE FALSE
    OBVIOUS
  <2>1. n - j \in D
    OBVIOUS
  <2>2. d =< n - j
    <3> HIDE DEF D
    <3> QED
      BY <1>3, <2>1
  <2>3. i \in 1 .. n /\ j \in 1 .. n
    BY <1>1
  <2> QED
    BY <1>4, <2>2, <2>3
<1> QED
  BY <1>1, <1>4, <1>5

-----------------------------------------------------------------------------
(* The functions exist                                                      *)

\* A first byte announces at most four bytes.
LEMMA CharLenType == \A byte : CharLen(byte) \in 0 .. 4
BY DEF CharLen

\* One step of the scan, and of the decoding.
ScanStep(bytes, scan, i) ==
  IF i > Len(bytes) THEN i
  ELSE LET n == CharLen(bytes[i]) IN
       IF n = 0 THEN scan[i + 1]
       ELSE IF i + n - 1 > Len(bytes) THEN i
       ELSE IF Continues(bytes, i, n) THEN scan[i + n]
       ELSE scan[i + 1]

TextStep(bytes, from, i) ==
  IF i > Len(bytes) THEN << >>
  ELSE LET n == CharLen(bytes[i]) IN
       IF n = 0 THEN from[i + 1]
       ELSE IF i + n - 1 > Len(bytes) THEN << >>
       ELSE IF Continues(bytes, i, n)
              THEN <<SubSeq(bytes, i, i + n - 1)>> \o from[i + n]
       ELSE from[i + 1]

\* A function is built from the end, one position after the other.
LEMMA ScanExists ==
  ASSUME NEW bytes \in Seq(Byte)
  PROVE  \E f : f = [i \in Positions |-> ScanStep(bytes, f, i)]
<1> DEFINE L == Len(bytes)
           Good(f, i) == \A j \in Positions : j >= i => f[j] = ScanStep(bytes, f, j)
           S == {i \in Positions : \E f \in [Positions -> Positions] : Good(f, i)}
<1>0. L \in Nat /\ \A i \in Positions : CharLen(bytes[i]) \in 0 .. 4
  BY CharLenType
<1>1. \A i \in Positions : i > L => i \in S
  <2> SUFFICES ASSUME NEW i \in Positions, i > L PROVE i \in S
    OBVIOUS
  <2>1. [j \in Positions |-> j] \in [Positions -> Positions]
    OBVIOUS
  <2>2. Good([j \in Positions |-> j], i)
    BY <1>0 DEF ScanStep, Positions
  <2> QED
    BY <2>1, <2>2
<1>2. \A i \in 1 .. L : (\A j \in Positions : j > i => j \in S) => i \in S
  <2> SUFFICES ASSUME NEW i \in 1 .. L, \A j \in Positions : j > i => j \in S
               PROVE  i \in S
    OBVIOUS
  <2>0. i \in Positions /\ i + 1 \in Positions /\ i + 1 > i
    BY DEF Positions
  <2>1. PICK f \in [Positions -> Positions] : Good(f, i + 1)
    <3>1. i + 1 \in S
      <4> HIDE DEF S
      <4> QED
        BY <2>0
    <3> QED
      BY <3>1
  <2> DEFINE x == ScanStep(bytes, f, i)
             g == [j \in Positions |-> IF j = i THEN x ELSE f[j]]
  <2>2. i \in Positions /\ i + 1 \in Positions /\ i + CharLen(bytes[i]) \in Positions
    <3>1. CharLen(bytes[i]) \in 0 .. 4
      BY <1>0, <2>0
    <3> QED
      BY <2>0, <3>1 DEF Positions
  <2>3. x \in Positions
    BY <2>2 DEF ScanStep
  <2>4. g \in [Positions -> Positions]
    BY <2>3
  <2>5. \A j \in Positions : j >= i => ScanStep(bytes, g, j) = ScanStep(bytes, f, j)
    <3> SUFFICES ASSUME NEW j \in Positions, j >= i
                 PROVE  ScanStep(bytes, g, j) = ScanStep(bytes, f, j)
      OBVIOUS
    <3>0. CharLen(bytes[j]) \in 0 .. 4
      BY <1>0
    <3>1. /\ j + 1 \in Positions /\ j + 1 # i
          /\ CharLen(bytes[j]) # 0 =>
               j + CharLen(bytes[j]) \in Positions /\ j + CharLen(bytes[j]) # i
      <4> DEFINE n == CharLen(bytes[j])
      <4>1. i \in Nat /\ j \in Nat /\ j > 0 /\ j >= i /\ n \in 0 .. 4
        BY <2>0, <3>0 DEF Positions
      <4> HIDE DEF n
      <4>2. j + 1 \in Positions /\ j + 1 # i
        BY <4>1 DEF Positions
      <4>3. n # 0 => j + n \in Positions /\ j + n # i
        BY <4>1 DEF Positions
      <4> QED
        BY <4>2, <4>3 DEF n
    <3>2. /\ g[j + 1] = f[j + 1]
          /\ CharLen(bytes[j]) # 0 => g[j + CharLen(bytes[j])] = f[j + CharLen(bytes[j])]
      BY <3>1
    <3> HIDE DEF g
    <3> QED
      BY <3>2 DEF ScanStep
  <2>6. Good(g, i)
    <3> SUFFICES ASSUME NEW j \in Positions, j >= i PROVE g[j] = ScanStep(bytes, f, j)
      BY <2>5
    <3>1. CASE j = i
      BY <3>1
    <3>2. CASE j # i
      <4>1. j >= i + 1 /\ g[j] = f[j]
        BY <3>2 DEF Positions
      <4> QED
        BY <2>1, <4>1
    <3> QED
      BY <3>1, <3>2
  <2> QED
    BY <2>2, <2>4, <2>6
<1>3. Positions \subseteq S
  <2> HIDE DEF S
  <2> QED
    BY <1>0, <1>1, <1>2, FromTheEnd
<1>4. PICK f \in [Positions -> Positions] : Good(f, 1)
  <2>1. 1 \in S
    <3> HIDE DEF S
    <3> QED
      BY <1>3 DEF Positions
  <2> QED
    BY <2>1
<1>5. \A j \in Positions : f[j] = ScanStep(bytes, f, j)
  BY <1>4 DEF Positions
<1>6. f = [j \in Positions |-> ScanStep(bytes, f, j)]
  BY <1>5
<1> QED
  BY <1>6

\* The scan satisfies the equation that defines it.
LEMMA ScanIs ==
  ASSUME NEW bytes \in Seq(Byte)
  PROVE  \A i \in Positions : ScanEnd(bytes)[i] = ScanStep(bytes, ScanEnd(bytes), i)
<1> DEFINE f == ScanEnd(bytes)
<1>1. f = CHOOSE g : g = [i \in Positions |-> ScanStep(bytes, g, i)]
  BY DEF ScanEnd, ScanStep
<1>2. f = [i \in Positions |-> ScanStep(bytes, f, i)]
  <2> HIDE DEF f
  <2> QED
    BY <1>1, ScanExists
<1> HIDE DEF f
<1>3. \A i \in Positions : f[i] = ScanStep(bytes, f, i)
  BY <1>2
<1> QED
  BY <1>3 DEF f

\* Decoded text: a sequence of characters, each the sequence of its bytes.
Text == Seq(Seq(Byte))

\* A character is a sequence of bytes, and stays one before a text.
LEMMA CharacterType ==
  ASSUME NEW bytes \in Seq(Byte), NEW i \in Positions, NEW n \in 1 .. 4,
         i + n - 1 <= Len(bytes)
  PROVE  SubSeq(bytes, i, i + n - 1) \in Seq(Byte)
<1>1. i \in 1 .. Len(bytes) + 1 /\ i + n - 1 \in i - 1 .. Len(bytes)
  BY DEF Positions
<1> QED
  BY <1>1, SubSeqProperties

\* A text with a character before it is a text.
LEMMA JoinType ==
  ASSUME NEW char \in Seq(Byte), NEW text \in Text
  PROVE  <<char>> \o text \in Text
<1>1. <<char>> \in Seq(Seq(Byte))
  OBVIOUS
<1> QED
  BY <1>1, ConcatProperties DEF Text

\* How texts are joined does not matter.
LEMMA JoinAssociative ==
  ASSUME NEW t \in Text, NEW u \in Text, NEW w \in Text
  PROVE  (t \o u) \o w = t \o (u \o w)
<1> DEFINE C == Seq(Byte)
<1>1. t \in Seq(C) /\ u \in Seq(C) /\ w \in Seq(C)
  BY DEF Text
<1> HIDE DEF C
<1> QED
  BY <1>1, ConcatAssociative

\* The decoding, too, is built from the end.
LEMMA TextExists ==
  ASSUME NEW bytes \in Seq(Byte)
  PROVE  \E f : f = [i \in Positions |-> TextStep(bytes, f, i)]
<1> DEFINE L == Len(bytes)
           Good(f, i) == \A j \in Positions : j >= i => f[j] = TextStep(bytes, f, j)
           S == {i \in Positions : \E f \in [Positions -> Text] : Good(f, i)}
<1>0. L \in Nat /\ \A i \in Positions : CharLen(bytes[i]) \in 0 .. 4
  BY CharLenType
<1>e. << >> \in Text
  BY DEF Text
<1>1. \A i \in Positions : i > L => i \in S
  <2> SUFFICES ASSUME NEW i \in Positions, i > L PROVE i \in S
    OBVIOUS
  <2>1. [j \in Positions |-> << >>] \in [Positions -> Text]
    BY <1>e
  <2>2. Good([j \in Positions |-> << >>], i)
    BY <1>0 DEF TextStep, Positions
  <2> QED
    BY <2>1, <2>2
<1>2. \A i \in 1 .. L : (\A j \in Positions : j > i => j \in S) => i \in S
  <2> SUFFICES ASSUME NEW i \in 1 .. L, \A j \in Positions : j > i => j \in S
               PROVE  i \in S
    OBVIOUS
  <2>0. i \in Positions /\ i + 1 \in Positions /\ i + 1 > i
    BY DEF Positions
  <2>1. PICK f \in [Positions -> Text] : Good(f, i + 1)
    <3>1. i + 1 \in S
      <4> HIDE DEF S
      <4> QED
        BY <2>0
    <3> QED
      BY <3>1
  <2> DEFINE x == TextStep(bytes, f, i)
             g == [j \in Positions |-> IF j = i THEN x ELSE f[j]]
  <2>2. i \in Positions /\ i + 1 \in Positions /\ i + CharLen(bytes[i]) \in Positions
    <3>1. CharLen(bytes[i]) \in 0 .. 4
      BY <1>0, <2>0
    <3> QED
      BY <2>0, <3>1 DEF Positions
  <2>3. x \in Text
    <3>1. i + 1 > i /\ f[i + 1] \in Text
      BY <2>2
    <3>2. CASE CharLen(bytes[i]) = 0 \/ ~Continues(bytes, i, CharLen(bytes[i]))
               \/ i + CharLen(bytes[i]) - 1 > L
      BY <3>1, <3>2, <1>e DEF TextStep
    <3>3. CASE /\ CharLen(bytes[i]) # 0 /\ Continues(bytes, i, CharLen(bytes[i]))
               /\ i + CharLen(bytes[i]) - 1 <= L
      <4>1. SubSeq(bytes, i, i + CharLen(bytes[i]) - 1) \in Seq(Byte)
        BY <1>0, <2>2, <3>3, CharacterType
      <4>2. f[i + CharLen(bytes[i])] \in Text
        BY <2>2
      <4>3. x = <<SubSeq(bytes, i, i + CharLen(bytes[i]) - 1)>> \o f[i + CharLen(bytes[i])]
        <5>1. ~(i > Len(bytes)) /\ ~(i + CharLen(bytes[i]) - 1 > Len(bytes))
          BY <1>0, <2>2, <3>3
        <5> QED
          BY <3>3, <5>1 DEF TextStep
      <4> QED
        BY <4>1, <4>2, <4>3, JoinType
    <3> QED
      BY <1>0, <2>2, <3>2, <3>3
  <2>4. g \in [Positions -> Text]
    BY <2>3
  <2>5. \A j \in Positions : j >= i => TextStep(bytes, g, j) = TextStep(bytes, f, j)
    <3> SUFFICES ASSUME NEW j \in Positions, j >= i
                 PROVE  TextStep(bytes, g, j) = TextStep(bytes, f, j)
      OBVIOUS
    <3>0. CharLen(bytes[j]) \in 0 .. 4
      BY <1>0
    <3>1. /\ j + 1 \in Positions /\ j + 1 # i
          /\ CharLen(bytes[j]) # 0 =>
               j + CharLen(bytes[j]) \in Positions /\ j + CharLen(bytes[j]) # i
      <4> DEFINE n == CharLen(bytes[j])
      <4>1. i \in Nat /\ j \in Nat /\ j > 0 /\ j >= i /\ n \in 0 .. 4
        BY <2>0, <3>0 DEF Positions
      <4> HIDE DEF n
      <4>2. j + 1 \in Positions /\ j + 1 # i
        BY <4>1 DEF Positions
      <4>3. n # 0 => j + n \in Positions /\ j + n # i
        BY <4>1 DEF Positions
      <4> QED
        BY <4>2, <4>3 DEF n
    <3>2. /\ g[j + 1] = f[j + 1]
          /\ CharLen(bytes[j]) # 0 => g[j + CharLen(bytes[j])] = f[j + CharLen(bytes[j])]
      BY <3>1
    <3> HIDE DEF g
    <3> QED
      BY <3>2 DEF TextStep
  <2>6. Good(g, i)
    <3> SUFFICES ASSUME NEW j \in Positions, j >= i PROVE g[j] = TextStep(bytes, f, j)
      BY <2>5
    <3>1. CASE j = i
      BY <3>1
    <3>2. CASE j # i
      <4>1. j >= i + 1 /\ g[j] = f[j]
        BY <3>2 DEF Positions
      <4> QED
        BY <2>1, <4>1
    <3> QED
      BY <3>1, <3>2
  <2> QED
    BY <2>2, <2>4, <2>6
<1>3. Positions \subseteq S
  <2> HIDE DEF S
  <2> QED
    BY <1>0, <1>1, <1>2, FromTheEnd
<1>4. PICK f \in [Positions -> Text] : Good(f, 1)
  <2>1. 1 \in S
    <3> HIDE DEF S
    <3> QED
      BY <1>3 DEF Positions
  <2> QED
    BY <2>1
<1>5. \A j \in Positions : f[j] = TextStep(bytes, f, j)
  BY <1>4 DEF Positions
<1>6. f = [j \in Positions |-> TextStep(bytes, f, j)]
  BY <1>5
<1> QED
  BY <1>6

\* So does the decoding.
LEMMA TextIs ==
  ASSUME NEW bytes \in Seq(Byte)
  PROVE  \A i \in Positions : TextFrom(bytes)[i] = TextStep(bytes, TextFrom(bytes), i)
<1> DEFINE f == TextFrom(bytes)
<1>1. f = CHOOSE g : g = [i \in Positions |-> TextStep(bytes, g, i)]
  BY DEF TextFrom, TextStep
<1>2. f = [i \in Positions |-> TextStep(bytes, f, i)]
  <2> HIDE DEF f
  <2> QED
    BY <1>1, TextExists
<1> HIDE DEF f
<1>3. \A i \in Positions : f[i] = TextStep(bytes, f, i)
  BY <1>2
<1> QED
  BY <1>3 DEF f

\* What is decoded is text.
LEMMA TextType ==
  ASSUME NEW bytes \in Seq(Byte)
  PROVE  \A i \in Positions : TextFrom(bytes)[i] \in Text
<1> DEFINE f == TextFrom(bytes)
           L == Len(bytes)
           S == {i \in Positions : f[i] \in Text}
<1>0. L \in Nat /\ \A i \in Positions : CharLen(bytes[i]) \in 0 .. 4
  BY CharLenType
<1>t. \A i \in Positions : f[i] = TextStep(bytes, f, i)
  BY TextIs
<1>e. << >> \in Text
  BY DEF Text
<1> HIDE DEF f
<1>1. \A i \in Positions : i > L => i \in S
  BY <1>0, <1>t, <1>e DEF TextStep
<1>2. \A i \in 1 .. L : (\A j \in Positions : j > i => j \in S) => i \in S
  <2> SUFFICES ASSUME NEW i \in 1 .. L, \A j \in Positions : j > i => f[j] \in Text
               PROVE  f[i] \in Text
    BY DEF Positions
  <2> DEFINE n == CharLen(bytes[i])
  <2>1. i \in Positions /\ i + 1 \in Positions /\ n \in 0 .. 4
    BY <1>0 DEF Positions
  <2> HIDE DEF n
  <2>2. CASE n = 0 \/ ~Continues(bytes, i, n) \/ i + n - 1 > L
    <3>1. f[i + 1] \in Text
      BY <2>1
    <3> QED
      BY <1>t, <1>e, <2>1, <2>2, <3>1 DEF TextStep, n
  <2>3. CASE n # 0 /\ Continues(bytes, i, n) /\ i + n - 1 <= L
    <3>1. i + n \in Positions /\ n \in 1 .. 4 /\ i + n > i
      BY <2>1, <2>3 DEF Positions
    <3>2. SubSeq(bytes, i, i + n - 1) \in Seq(Byte)
      BY <2>1, <2>3, <3>1, CharacterType
    <3>3. f[i] = <<SubSeq(bytes, i, i + n - 1)>> \o f[i + n]
      <4>1. f[i] = TextStep(bytes, f, i)
        BY <1>t, <2>1
      <4>2. ~(i > L) /\ n # 0 /\ ~(i + n - 1 > L) /\ Continues(bytes, i, n)
        BY <1>0, <2>1, <2>3
      <4> QED
        BY <4>1, <4>2 DEF TextStep, n
    <3> QED
      BY <3>1, <3>2, <3>3, JoinType
  <2> QED
    BY <1>0, <2>1, <2>2, <2>3
<1>3. Positions \subseteq S
  <2> HIDE DEF S
  <2> QED
    BY <1>0, <1>1, <1>2, FromTheEnd
<1> QED
  BY <1>3 DEF f

-----------------------------------------------------------------------------
(* Nothing is lost between two pieces of a text                             *)

\* No character is cut off by the end.
Closed(bytes) == \A i \in 1 .. Len(bytes) : i + CharLen(bytes[i]) - 1 <= Len(bytes)

\* What the scan has passed of a text whose leads are apart is closed; it ends with
\* the text or at the lead byte of a character that the end cuts off.
LEMMA ScanFinds ==
  ASSUME NEW bytes \in Seq(Byte), LeadsApart(bytes)
  PROVE  \A i \in 1 .. Len(bytes) + 1 :
           /\ ScanEnd(bytes)[i] \in i .. Len(bytes) + 1
           /\ \A j \in i .. ScanEnd(bytes)[i] - 1 :
                j + CharLen(bytes[j]) - 1 < ScanEnd(bytes)[i]
<1> DEFINE f == ScanEnd(bytes)
           L == Len(bytes)
           Good(i) == /\ f[i] \in i .. L + 1
                      /\ f[i] = L + 1 \/ CharLen(bytes[f[i]]) > 1
                      /\ \A j \in i .. f[i] - 1 : j + CharLen(bytes[j]) - 1 < f[i]
           S == {i \in Positions : i <= L + 1 => Good(i)}
<1>0. L \in Nat /\ \A i : CharLen(bytes[i]) \in 0 .. 4
  BY CharLenType
<1>t. \A i \in Positions : f[i] = ScanStep(bytes, f, i)
  BY ScanIs
<1> HIDE DEF f
<1>1. \A i \in Positions : i > L => i \in S
  <2> SUFFICES ASSUME NEW i \in Positions, i = L + 1 PROVE Good(i)
    BY <1>0 DEF Positions
  <2>1. f[i] = L + 1
    BY <1>0, <1>t DEF ScanStep
  <2> QED
    BY <1>0, <2>1
<1>2. \A i \in 1 .. L : (\A j \in Positions : j > i => j \in S) => i \in S
  <2> SUFFICES ASSUME NEW i \in 1 .. L,
                      \A j \in Positions : j > i /\ j <= L + 1 => Good(j)
               PROVE  Good(i)
    BY DEF Positions
  <2> DEFINE n == CharLen(bytes[i])
  <2>1. i \in Positions /\ i + 1 \in Positions /\ n \in 0 .. 4
    BY <1>0 DEF Positions
  <2>2. CASE n = 0
    <3>1. f[i] = f[i + 1] /\ Good(i + 1)
      BY <1>0, <1>t, <2>1, <2>2 DEF ScanStep
    <3> QED
      BY <1>0, <2>2, <3>1
  <2>3. CASE i + n - 1 > L
    <3>1. f[i] = i /\ n > 1
      BY <1>0, <1>t, <2>1, <2>3 DEF ScanStep
    <3> QED
      BY <1>0, <3>1
  <2>4. CASE n # 0 /\ i + n - 1 <= L /\ Continues(bytes, i, n)
    <3>1. \A j \in i + 1 .. i + n - 1 : bytes[j] = "C"
      BY <2>4 DEF Continues
    <3>2. i + n \in Positions /\ i + n > i /\ i + n <= L + 1
      BY <1>0, <2>1, <2>4 DEF Positions
    <3>3. f[i] = f[i + n]
      BY <1>0, <1>t, <2>1, <2>4 DEF ScanStep
    <3>4. Good(i + n)
      BY <3>2
    <3>5. \A j \in i + 1 .. i + n - 1 : CharLen(bytes[j]) = 0
      BY <3>1 DEF CharLen
    <3> HIDE DEF n
    <3>6. /\ f[i] \in i .. L + 1 /\ f[i] >= i + n
          /\ f[i] = L + 1 \/ CharLen(bytes[f[i]]) > 1
      BY <1>0, <2>1, <2>4, <3>3, <3>4
    <3>7. ASSUME NEW j \in i .. f[i] - 1 PROVE j + CharLen(bytes[j]) - 1 < f[i]
      <4>1. CASE j = i
        BY <1>0, <2>1, <3>6, <4>1 DEF n
      <4>2. CASE j \in i + 1 .. i + n - 1
        BY <2>1, <3>5, <3>6, <4>2
      <4>3. CASE j \in i + n .. f[i] - 1
        BY <3>3, <3>4, <4>3
      <4> QED
        BY <2>1, <2>4, <3>6, <4>1, <4>2, <4>3
    <3> QED
      BY <3>6, <3>7
  <2>5. CASE n # 0 /\ i + n - 1 <= L /\ ~Continues(bytes, i, n)
    <3>1. f[i] = f[i + 1] /\ Good(i + 1)
      BY <1>0, <1>t, <2>1, <2>5 DEF ScanStep
    <3>2. f[i] > i + n - 1
      <4> SUFFICES ASSUME f[i] <= i + n - 1 PROVE FALSE
        BY <1>0, <2>1, <3>1
      <4>1. f[i] \in i + 1 .. i + n - 1 /\ f[i] \in 1 .. L /\ CharLen(bytes[f[i]]) > 1
        BY <1>0, <2>1, <2>5, <3>1
      <4> QED
        <5>1. i \in DOMAIN bytes /\ f[i] \in DOMAIN bytes
          BY <4>1
        <5>2. CharLen(bytes[f[i]]) <= 1 /\ CharLen(bytes[f[i]]) \in 0 .. 4
          <6>1. f[i] \in i + 1 .. i + CharLen(bytes[i]) - 1
            BY <4>1
          <6> QED
            BY <1>0, <5>1, <6>1 DEF LeadsApart
        <5> QED
          BY <4>1, <5>2
    <3> HIDE DEF n
    <3>3. ASSUME NEW j \in i .. f[i] - 1 PROVE j + CharLen(bytes[j]) - 1 < f[i]
      <4>1. CASE j = i
        BY <1>0, <2>1, <3>1, <3>2, <4>1 DEF n
      <4>2. CASE j \in i + 1 .. f[i] - 1
        BY <3>1, <4>2
      <4> QED
        BY <1>0, <3>1, <4>1, <4>2
    <3> QED
      BY <1>0, <3>1, <3>3
  <2> QED
    BY <1>0, <2>1, <2>2, <2>3, <2>4, <2>5
<1>3. Positions \subseteq S
  <2> HIDE DEF S
  <2> QED
    BY <1>0, <1>1, <1>2, FromTheEnd
<1> QED
  BY <1>0, <1>3 DEF f, Positions

\* The held back bytes are the rest, and they cut nothing off from the others.
LEMMA SplitIsClosed ==
  ASSUME NEW bytes \in Seq(Byte), LeadsApart(bytes)
  PROVE  /\ Complete(bytes) \in Seq(Byte) /\ HeldBack(bytes) \in Seq(Byte)
         /\ bytes = Complete(bytes) \o HeldBack(bytes)
         /\ Closed(Complete(bytes))
<1> DEFINE k == FirstHeldBack(bytes)
           L == Len(bytes)
           b == Complete(bytes)
           h == HeldBack(bytes)
<1>0. L \in Nat /\ \A i \in 1 .. L : bytes[i] \in Byte
  OBVIOUS
<1>1. k \in 1 .. L + 1 /\ \A j \in 1 .. k - 1 : j + CharLen(bytes[j]) - 1 < k
  BY <1>0, ScanFinds DEF FirstHeldBack
<1>2. b = SubSeq(bytes, 1, k - 1) /\ h = SubSeq(bytes, k, L)
  BY DEF Complete, HeldBack
<1> HIDE DEF k, b, h
<1>3. b \in Seq(Byte) /\ Len(b) = k - 1 /\ \A i \in 1 .. k - 1 : b[i] = bytes[i]
  <2>1. /\ SubSeq(bytes, 1, k - 1) \in Seq(Byte)
        /\ Len(SubSeq(bytes, 1, k - 1)) = IF 1 <= k - 1 THEN k - 1 - 1 + 1 ELSE 0
        /\ \A i \in 1 .. k - 1 - 1 + 1 : SubSeq(bytes, 1, k - 1)[i] = bytes[1 + i - 1]
    BY <1>0, <1>1, SubSeqProperties
  <2> QED
    BY <1>1, <1>2, <2>1
<1>4. h \in Seq(Byte) /\ Len(h) = L + 1 - k /\ \A i \in 1 .. L + 1 - k : h[i] = bytes[k + i - 1]
  <2>1. /\ SubSeq(bytes, k, L) \in Seq(Byte)
        /\ Len(SubSeq(bytes, k, L)) = IF k <= L THEN L - k + 1 ELSE 0
        /\ \A i \in 1 .. L - k + 1 : SubSeq(bytes, k, L)[i] = bytes[k + i - 1]
    BY <1>0, <1>1, SubSeqProperties
  <2> QED
    BY <1>0, <1>1, <1>2, <2>1
<1>5. b \o h = bytes
  <2>1. /\ b \o h \in Seq(Byte) /\ Len(b \o h) = L
        /\ \A i \in 1 .. L : (b \o h)[i] = IF i <= k - 1 THEN b[i] ELSE h[i - (k - 1)]
    BY <1>0, <1>1, <1>3, <1>4, ConcatProperties
  <2>2. ASSUME NEW i \in 1 .. L PROVE (b \o h)[i] = bytes[i]
    <3>1. CASE i <= k - 1
      BY <1>1, <1>3, <2>1, <3>1
    <3>2. CASE i > k - 1
      <4>1. (b \o h)[i] = h[i - (k - 1)]
        BY <1>1, <2>1, <3>2
      <4>2. i - (k - 1) \in 1 .. L + 1 - k /\ k + (i - (k - 1)) - 1 = i
        BY <1>0, <1>1, <3>2
      <4> QED
        BY <1>4, <4>1, <4>2
    <3>3. i <= k - 1 \/ i > k - 1
      BY <1>0, <1>1
    <3> QED
      BY <3>1, <3>2, <3>3
  <2> QED
    BY <1>0, <2>1, <2>2, SeqEqual
<1>6. Closed(b)
  <2> SUFFICES ASSUME NEW i \in 1 .. Len(b) PROVE i + CharLen(b[i]) - 1 <= Len(b)
    BY DEF Closed
  <2>1. i \in 1 .. k - 1 /\ b[i] = bytes[i] /\ CharLen(bytes[i]) \in 0 .. 4
    BY <1>3, CharLenType
  <2> QED
    BY <1>1, <1>3, <2>1
<1> QED
  BY <1>3, <1>4, <1>5, <1>6 DEF b, h

\* The decoding of a text that ends in another one reads that one alike.
LEMMA ShiftedText ==
  ASSUME NEW d \in Seq(Byte), NEW e \in Seq(Byte)
  PROVE  \A i \in Positions : TextFrom(d \o e)[Len(d) + i] = TextFrom(e)[i]
<1> DEFINE b == d \o e
           f == TextFrom(b)
           g == TextFrom(e)
           D == Len(d)
           L == Len(e)
           S == {i \in Positions : f[D + i] = g[i]}
<1>0. D \in Nat /\ L \in Nat /\ \A i : CharLen(e[i]) \in 0 .. 4
  BY CharLenType
<1>b. b \in Seq(Byte) /\ Len(b) = D + L /\ \A i \in 1 .. L : b[D + i] = e[i]
  <2>1. /\ b \in Seq(Byte) /\ Len(b) = D + L
        /\ \A i \in 1 .. D + L : b[i] = IF i <= D THEN d[i] ELSE e[i - D]
    BY ConcatProperties
  <2> HIDE DEF b, D, L
  <2>2. ASSUME NEW i \in 1 .. L PROVE b[D + i] = e[i]
    <3> DEFINE j == D + i
    <3>1. j \in 1 .. D + L /\ ~(j <= D) /\ j - D = i
      BY <1>0
    <3> HIDE DEF j
    <3>2. b[j] = e[j - D]
      BY <2>1, <3>1
    <3> QED
      BY <3>1, <3>2 DEF j
  <2> QED
    BY <2>1, <2>2
<1>f. \A i \in Positions : f[i] = TextStep(b, f, i)
  BY <1>b, TextIs
<1>g. \A i \in Positions : g[i] = TextStep(e, g, i)
  BY TextIs
<1> HIDE DEF b, f, g, D, L
<1>1. \A i \in Positions : i > L => i \in S
  <2> SUFFICES ASSUME NEW i \in Positions, i > L PROVE f[D + i] = g[i]
    OBVIOUS
  <2>1. D + i \in Positions /\ D + i > Len(b) /\ i > Len(e)
    BY <1>0, <1>b DEF Positions, L
  <2>2. f[D + i] = TextStep(b, f, D + i) /\ g[i] = TextStep(e, g, i)
    BY <1>f, <1>g, <2>1
  <2> QED
    BY <2>1, <2>2 DEF TextStep
<1>2. \A i \in 1 .. L : (\A j \in Positions : j > i => j \in S) => i \in S
  <2> SUFFICES ASSUME NEW i \in 1 .. L,
                      \A j \in Positions : j > i => f[D + j] = g[j]
               PROVE  f[D + i] = g[i]
    BY DEF Positions
  <2> DEFINE n == CharLen(e[i])
  <2>1. /\ i \in Positions /\ D + i \in Positions /\ i + 1 \in Positions /\ n \in 0 .. 4
        /\ D + i + 1 = D + (i + 1) /\ D + i + n = D + (i + n)
    BY <1>0 DEF Positions
  <2>2. b[D + i] = e[i] /\ CharLen(b[D + i]) = n
    BY <1>b
  <2>3. f[D + i] = TextStep(b, f, D + i) /\ g[i] = TextStep(e, g, i)
    BY <1>f, <1>g, <2>1
  <2>4. ~(D + i > Len(b)) /\ ~(i > Len(e))
    BY <1>0, <1>b DEF L
  <2>5. f[D + i + 1] = g[i + 1]
    <3>1. i + 1 > i
      BY <2>1 DEF Positions
    <3>2. f[D + (i + 1)] = g[i + 1]
      BY <2>1, <3>1
    <3> QED
      BY <2>1, <3>2
  <2>6. D + i + n - 1 > Len(b) <=> i + n - 1 > Len(e)
    <3> HIDE DEF n
    <3>1. Len(e) = L
      BY DEF L
    <3> QED
      BY <1>0, <1>b, <2>1, <3>1
  <2>7. ASSUME n # 0, i + n - 1 <= L
        PROVE  /\ Continues(b, D + i, n) <=> Continues(e, i, n)
               /\ f[D + i + n] = g[i + n]
               /\ SubSeq(b, D + i, D + i + n - 1) = SubSeq(e, i, i + n - 1)
    <3>1. \A j \in 0 .. n - 1 : b[D + i + j] = e[i + j]
      <4> SUFFICES ASSUME NEW j \in 0 .. n - 1 PROVE b[D + i + j] = e[i + j]
        OBVIOUS
      <4>1. i + j \in 1 .. L /\ D + (i + j) = D + i + j
        <5> HIDE DEF n
        <5> QED
          BY <1>0, <2>1, <2>7
      <4> QED
        BY <1>b, <4>1
    <3>2. Continues(b, D + i, n) <=> Continues(e, i, n)
      <4>1. \A j \in 1 .. n - 1 : b[D + i + j] = "C" <=> e[i + j] = "C"
        BY <2>1, <3>1
      <4>2. Continues(b, D + i, n) <=> \A j \in 1 .. n - 1 : b[D + i + j] = "C"
        <5>n. D \in Nat /\ i \in Nat /\ n \in Nat
          BY <1>0, <2>1
        <5> HIDE DEF n
        <5>1. ASSUME NEW j \in D + i + 1 .. D + i + n - 1
              PROVE  j - (D + i) \in 1 .. n - 1 /\ D + i + (j - (D + i)) = j
          BY <5>n
        <5>2. ASSUME NEW j \in 1 .. n - 1 PROVE D + i + j \in D + i + 1 .. D + i + n - 1
          BY <5>n
        <5> QED
          BY <5>1, <5>2 DEF Continues
      <4>3. Continues(e, i, n) <=> \A j \in 1 .. n - 1 : e[i + j] = "C"
        <5>1. ASSUME NEW j \in i + 1 .. i + n - 1
              PROVE  j - i \in 1 .. n - 1 /\ i + (j - i) = j
          BY <2>1
        <5>2. ASSUME NEW j \in 1 .. n - 1 PROVE i + j \in i + 1 .. i + n - 1
          BY <2>1
        <5> HIDE DEF n
        <5> QED
          BY <5>1, <5>2 DEF Continues
      <4> HIDE DEF n
      <4> QED
        BY <4>1, <4>2, <4>3
    <3>3. f[D + i + n] = g[i + n]
      <4>1. i + n \in Positions /\ i + n > i
        <5> HIDE DEF n
        <5> QED
          BY <2>1, <2>7 DEF Positions
      <4> HIDE DEF n
      <4>2. f[D + (i + n)] = g[i + n]
        BY <4>1
      <4> QED
        BY <2>1, <4>2
    <3>4. SubSeq(b, D + i, D + i + n - 1) = SubSeq(e, i, i + n - 1)
      <4> DEFINE x == SubSeq(b, D + i, D + i + n - 1)
                 y == SubSeq(e, i, i + n - 1)
      <4>1. x \in Seq(Byte) /\ Len(x) = n /\ \A j \in 1 .. n : x[j] = b[D + i + j - 1]
        <5>1. ASSUME NEW j \in D + i .. D + i + n - 1 PROVE b[j] \in Byte
          <6> HIDE DEF n
          <6>1. j \in 1 .. Len(b)
            BY <1>0, <1>b, <2>1, <2>7
          <6> QED
            BY <1>b, <6>1
        <5>2. D + i \in Int /\ D + i + n - 1 \in Int
          <6> HIDE DEF n
          <6>1. D \in Int /\ i \in Int /\ n \in Int
            BY <1>0, <2>1
          <6> QED
            BY <6>1
        <5>3. /\ x \in Seq(Byte)
              /\ Len(x) = IF D + i <= D + i + n - 1 THEN (D + i + n - 1) - (D + i) + 1 ELSE 0
              /\ \A j \in 1 .. (D + i + n - 1) - (D + i) + 1 : x[j] = b[D + i + j - 1]
          BY <5>1, <5>2, SubSeqProperties
        <5> HIDE DEF x, n
        <5>4. D + i <= D + i + n - 1 /\ (D + i + n - 1) - (D + i) + 1 = n
          BY <1>0, <2>1, <2>7
        <5> QED
          BY <5>3, <5>4
      <4>2. y \in Seq(Byte) /\ Len(y) = n /\ \A j \in 1 .. n : y[j] = e[i + j - 1]
        <5>1. ASSUME NEW j \in i .. i + n - 1 PROVE e[j] \in Byte
          <6> HIDE DEF n
          <6>1. j \in 1 .. L
            BY <1>0, <2>1, <2>7
          <6> QED
            BY <6>1 DEF L
        <5>2. i \in Int /\ i + n - 1 \in Int
          BY <1>0, <2>1
        <5>3. /\ y \in Seq(Byte)
              /\ Len(y) = IF i <= i + n - 1 THEN (i + n - 1) - i + 1 ELSE 0
              /\ \A j \in 1 .. (i + n - 1) - i + 1 : y[j] = e[i + j - 1]
          BY <5>1, <5>2, SubSeqProperties
        <5> HIDE DEF y, n
        <5>4. i <= i + n - 1 /\ (i + n - 1) - i + 1 = n
          BY <2>1, <2>7
        <5> QED
          BY <5>3, <5>4
      <4>3. \A j \in 1 .. n : x[j] = y[j]
        <5> SUFFICES ASSUME NEW j \in 1 .. n PROVE x[j] = y[j]
          OBVIOUS
        <5> HIDE DEF x, y, n
        <5>1. j - 1 \in 0 .. n - 1 /\ D + i + (j - 1) = D + i + j - 1 /\ i + (j - 1) = i + j - 1
          BY <1>0, <2>1
        <5> QED
          BY <3>1, <4>1, <4>2, <5>1
      <4> HIDE DEF x, y
      <4>4. x = y
        BY <4>1, <4>2, <4>3, SeqEqual
      <4> QED
        BY <4>4 DEF x, y
    <3> QED
      BY <3>2, <3>3, <3>4
  <2> HIDE DEF n
  <2>8. CASE n = 0
    BY <2>2, <2>3, <2>4, <2>5, <2>8 DEF TextStep, n
  <2>9. CASE i + n - 1 > Len(e) /\ n # 0
    BY <2>2, <2>3, <2>4, <2>6, <2>9 DEF TextStep, n
  <2>10. CASE n # 0 /\ ~(i + n - 1 > Len(e))
    <3>1. i + n - 1 <= L
      BY <1>0, <2>1, <2>10 DEF L
    <3>2. /\ Continues(b, D + i, n) <=> Continues(e, i, n)
          /\ f[D + i + n] = g[i + n]
          /\ SubSeq(b, D + i, D + i + n - 1) = SubSeq(e, i, i + n - 1)
      BY <2>7, <2>10, <3>1
    <3> QED
      BY <2>2, <2>3, <2>4, <2>5, <2>6, <2>10, <3>2 DEF TextStep, n
  <2> QED
    BY <2>8, <2>9, <2>10
<1>3. Positions \subseteq S
  <2> HIDE DEF S
  <2> QED
    BY <1>0, <1>1, <1>2, FromTheEnd
<1> QED
  BY <1>3 DEF f, g, b, D

\* A closed text is decoded as it is alone, whatever follows it.
LEMMA DecodedJoins ==
  ASSUME NEW d \in Seq(Byte), NEW e \in Seq(Byte), Closed(d)
  PROVE  Decoded(d \o e) = Decoded(d) \o Decoded(e)
<1> DEFINE b == d \o e
           f == TextFrom(b)
           g == TextFrom(d)
           x == Decoded(e)
           D == Len(d)
           S == {i \in Positions : i <= D + 1 => f[i] = g[i] \o x}
<1>0. D \in Nat /\ \A i : CharLen(d[i]) \in 0 .. 4
  BY CharLenType
<1>b. b \in Seq(Byte) /\ Len(b) >= D /\ \A i \in 1 .. D : b[i] = d[i]
  <2>1. /\ b \in Seq(Byte) /\ Len(b) = D + Len(e) /\ Len(e) \in Nat
        /\ \A i \in 1 .. D + Len(e) : b[i] = IF i <= D THEN d[i] ELSE e[i - D]
    BY ConcatProperties
  <2> HIDE DEF b
  <2> QED
    BY <1>0, <2>1
<1>f. \A i \in Positions : f[i] = TextStep(b, f, i)
  BY <1>b, TextIs
<1>g. \A i \in Positions : g[i] = TextStep(d, g, i) /\ g[i] \in Text
  BY TextIs, TextType
<1>x. x \in Text /\ f[D + 1] = x
  BY ShiftedText, TextType DEF Decoded, Positions
<1>c. \A i \in 1 .. D : i + CharLen(d[i]) - 1 <= D
  BY DEF Closed
<1> HIDE DEF b, f, g, x, D
<1>1. \A i \in Positions : i > D => i \in S
  <2> SUFFICES ASSUME NEW i \in Positions, i > D, i <= D + 1 PROVE f[i] = g[i] \o x
    OBVIOUS
  <2>0. i = D + 1
    BY <1>0 DEF Positions
  <2>1. g[i] = << >>
    <3>1. i > Len(d) /\ g[i] = TextStep(d, g, i)
      BY <1>0, <1>g, <2>0 DEF D
    <3> QED
      BY <3>1 DEF TextStep
  <2>2. << >> \o x = x
    BY <1>x, ConcatEmptySeq DEF Text
  <2> QED
    BY <1>x, <2>0, <2>1, <2>2
<1>2. \A i \in 1 .. D : (\A j \in Positions : j > i => j \in S) => i \in S
  <2> SUFFICES ASSUME NEW i \in 1 .. D, \A j \in Positions : j > i => j \in S
               PROVE  i \in S
    OBVIOUS
  <2>h. \A j \in Positions : j > i /\ j <= D + 1 => f[j] = g[j] \o x
    OBVIOUS
  <2> SUFFICES f[i] = g[i] \o x
    BY DEF Positions
  <2> DEFINE n == CharLen(d[i])
             char == SubSeq(d, i, i + n - 1)
  <2>1. /\ i \in Positions /\ i + 1 \in Positions /\ i + 1 > i /\ i + 1 <= D + 1
        /\ n \in 0 .. 4 /\ i + n - 1 <= D
    BY <1>0, <1>c DEF Positions
  <2>2. b[i] = d[i] /\ CharLen(b[i]) = n
    BY <1>b
  <2>3. f[i] = TextStep(b, f, i) /\ g[i] = TextStep(d, g, i)
    BY <1>f, <1>g, <2>1
  <2> HIDE DEF n
  <2>4. /\ ~(i > Len(b)) /\ ~(i > Len(d))
        /\ ~(i + n - 1 > Len(b)) /\ ~(i + n - 1 > Len(d))
    <3>1. Len(d) = D /\ Len(b) \in Nat
      BY <1>b DEF D
    <3> QED
      BY <1>0, <1>b, <2>1, <3>1
  <2> HIDE DEF S
  <2>5. f[i + 1] = g[i + 1] \o x
    BY <2>h, <2>1
  <2>6. \A j \in i .. i + n - 1 : b[j] = d[j] /\ d[j] \in Byte
    <3> SUFFICES ASSUME NEW j \in i .. i + n - 1 PROVE b[j] = d[j] /\ d[j] \in Byte
      OBVIOUS
    <3>1. j \in 1 .. D
      BY <1>0, <2>1
    <3> QED
      BY <1>b, <3>1 DEF D
  <2>7. Continues(b, i, n) <=> Continues(d, i, n)
    BY <2>1, <2>6 DEF Continues
  <2>8. CASE n = 0 \/ ~Continues(d, i, n)
    <3>1. f[i] = f[i + 1]
      BY <2>2, <2>3, <2>4, <2>7, <2>8 DEF TextStep
    <3>2. g[i] = g[i + 1]
      BY <2>3, <2>4, <2>8 DEF TextStep, n
    <3> QED
      BY <2>5, <3>1, <3>2
  <2>9. CASE n # 0 /\ Continues(d, i, n)
    <3>1. i + n \in Positions /\ i + n > i /\ i + n <= D + 1
      BY <1>0, <2>1, <2>9 DEF Positions
    <3>2. SubSeq(b, i, i + n - 1) = char /\ char \in Seq(Byte)
      <4> DEFINE y == SubSeq(b, i, i + n - 1)
      <4>1. i \in Int /\ i + n - 1 \in Int
        BY <2>1
      <4>2. /\ y \in Seq(Byte)
            /\ Len(y) = IF i <= i + n - 1 THEN (i + n - 1) - i + 1 ELSE 0
            /\ \A j \in 1 .. (i + n - 1) - i + 1 : y[j] = b[i + j - 1]
        BY <2>6, <4>1, SubSeqProperties
      <4>3. /\ char \in Seq(Byte)
            /\ Len(char) = IF i <= i + n - 1 THEN (i + n - 1) - i + 1 ELSE 0
            /\ \A j \in 1 .. (i + n - 1) - i + 1 : char[j] = d[i + j - 1]
        BY <2>6, <4>1, SubSeqProperties
      <4> HIDE DEF y, char
      <4>4. \A j \in 1 .. Len(y) : y[j] = char[j]
        BY <2>1, <2>6, <2>9, <4>2, <4>3
      <4>5. y = char
        BY <4>2, <4>3, <4>4, SeqEqual
      <4> QED
        BY <4>3, <4>5 DEF y
    <3>3. f[i] = <<char>> \o f[i + n]
      <4>1. f[i] = <<SubSeq(b, i, i + n - 1)>> \o f[i + n]
        BY <2>2, <2>3, <2>4, <2>7, <2>9 DEF TextStep
      <4> QED
        BY <3>2, <4>1
    <3>4. g[i] = <<char>> \o g[i + n]
      BY <2>3, <2>4, <2>9 DEF TextStep, n
    <3> HIDE DEF char
    <3>5. f[i + n] = g[i + n] \o x
      BY <2>h, <3>1
    <3>6. g[i + n] \in Text
      BY <1>g, <3>1
    <3>7. <<char>> \in Text
      BY <3>2 DEF Text
    <3>8. (<<char>> \o g[i + n]) \o x = <<char>> \o (g[i + n] \o x)
      <4> DEFINE y == g[i + n]
                 z == <<char>>
      <4>1. x \in Text /\ y \in Text /\ z \in Text
        BY <1>x, <3>6, <3>7
      <4> HIDE DEF y, z
      <4>2. (z \o y) \o x = z \o (y \o x)
        BY <4>1, JoinAssociative
      <4> QED
        BY <4>2 DEF y, z
    <3> QED
      BY <3>3, <3>4, <3>5, <3>8
  <2> QED
    BY <2>8, <2>9
<1>3. Positions \subseteq S
  <2> HIDE DEF S
  <2> QED
    BY <1>0, <1>1, <1>2, FromTheEnd
<1>4. 1 \in Positions /\ 1 <= D + 1
  BY <1>0 DEF Positions
<1> QED
  BY <1>3, <1>4 DEF f, g, b, x, Decoded

\* Closed texts in a row are closed.
LEMMA ClosedJoins ==
  ASSUME NEW d \in Seq(Byte), NEW e \in Seq(Byte), Closed(d), Closed(e)
  PROVE  Closed(d \o e)
<1> DEFINE b == d \o e
<1>1. /\ b \in Seq(Byte) /\ Len(b) = Len(d) + Len(e) /\ Len(d) \in Nat /\ Len(e) \in Nat
      /\ \A i \in 1 .. Len(d) + Len(e) : b[i] = IF i <= Len(d) THEN d[i] ELSE e[i - Len(d)]
  BY ConcatProperties
<1> HIDE DEF b
<1>2. ASSUME NEW i \in 1 .. Len(b) PROVE i + CharLen(b[i]) - 1 <= Len(b)
  <2>1. CASE i <= Len(d)
    <3>1. b[i] = d[i] /\ i + CharLen(d[i]) - 1 <= Len(d) /\ CharLen(d[i]) \in 0 .. 4
      BY <1>1, <2>1, CharLenType DEF Closed
    <3> QED
      BY <1>1, <3>1
  <2>2. CASE i > Len(d)
    <3>1. i - Len(d) \in 1 .. Len(e) /\ b[i] = e[i - Len(d)]
      BY <1>1, <2>2
    <3>2. i - Len(d) + CharLen(b[i]) - 1 <= Len(e) /\ CharLen(b[i]) \in 0 .. 4
      BY <3>1, CharLenType DEF Closed
    <3> QED
      BY <1>1, <3>2
  <2> QED
    BY <1>1, <2>1, <2>2
<1> QED
  BY <1>2 DEF Closed, b

\* In a part of a text whose leads are apart they are apart.
LEMMA PartsApart ==
  ASSUME NEW d \in Seq(Byte), NEW e \in Seq(Byte), LeadsApart(d \o e)
  PROVE  LeadsApart(d) /\ LeadsApart(e)
<1> DEFINE b == d \o e
<1>1. /\ b \in Seq(Byte) /\ Len(b) = Len(d) + Len(e) /\ Len(d) \in Nat /\ Len(e) \in Nat
      /\ \A i \in 1 .. Len(d) + Len(e) : b[i] = IF i <= Len(d) THEN d[i] ELSE e[i - Len(d)]
  BY ConcatProperties
<1>2. LeadsApart(b)
  OBVIOUS
<1> HIDE DEF b
<1>3. LeadsApart(d)
  <2> SUFFICES ASSUME NEW i \in 1 .. Len(d), NEW j \in i + 1 .. i + CharLen(d[i]) - 1,
                      j \in 1 .. Len(d)
               PROVE  CharLen(d[j]) <= 1
    BY DEF LeadsApart
  <2>1. i \in 1 .. Len(b) /\ j \in 1 .. Len(b) /\ b[i] = d[i] /\ b[j] = d[j]
    BY <1>1
  <2>2. i \in DOMAIN b /\ j \in DOMAIN b /\ j \in i + 1 .. i + CharLen(b[i]) - 1
    BY <1>1, <2>1
  <2>3. CharLen(b[j]) <= 1
    BY <1>2, <2>2 DEF LeadsApart
  <2> QED
    BY <2>1, <2>3
<1>4. LeadsApart(e)
  <2> SUFFICES ASSUME NEW i \in 1 .. Len(e), NEW j \in i + 1 .. i + CharLen(e[i]) - 1,
                      j \in 1 .. Len(e)
               PROVE  CharLen(e[j]) <= 1
    BY DEF LeadsApart
  <2>1. /\ Len(d) + i \in 1 .. Len(b) /\ Len(d) + j \in 1 .. Len(b)
        /\ b[Len(d) + i] = e[i] /\ b[Len(d) + j] = e[j]
    <3>1. ASSUME NEW m \in 1 .. Len(e)
          PROVE  Len(d) + m \in 1 .. Len(b) /\ b[Len(d) + m] = e[m]
      <4>1. /\ Len(d) + m \in 1 .. Len(d) + Len(e) /\ ~(Len(d) + m <= Len(d))
            /\ Len(d) + m - Len(d) = m
        BY <1>1
      <4> QED
        BY <1>1, <4>1
    <3> QED
      BY <3>1
  <2>2. Len(d) + j \in Len(d) + i + 1 .. Len(d) + i + CharLen(e[i]) - 1
    <3> DEFINE n == CharLen(e[i])
    <3>1. n \in 0 .. 4 /\ j \in i + 1 .. i + n - 1
      BY CharLenType
    <3> HIDE DEF n
    <3>2. Len(d) + j \in Len(d) + i + 1 .. Len(d) + i + n - 1
      BY <1>1, <3>1
    <3> QED
      BY <3>2 DEF n
  <2> QED
    <3>1. Len(d) + i \in DOMAIN b /\ Len(d) + j \in DOMAIN b
      BY <1>1, <2>1
    <3>2. Len(d) + j \in Len(d) + i + 1 .. Len(d) + i + CharLen(b[Len(d) + i]) - 1
      BY <2>1, <2>2
    <3>3. CharLen(b[Len(d) + j]) <= 1
      BY <1>2, <3>1, <3>2 DEF LeadsApart
    <3> QED
      BY <2>1, <3>3
<1> QED
  BY <1>3, <1>4
===============================================================================
