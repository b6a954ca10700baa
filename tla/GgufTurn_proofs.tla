---------------------------- MODULE GgufTurn_proofs ----------------------------
(***************************************************************************)
(* Proofs about GgufTurn, for any window, chat template, conversations,     *)
(* requests and batches.  TrimInv says what trimming has left of the        *)
(* conversation.  The other layers follow a turn: types (TypeInv), what is  *)
(* set in which phase (PhaseInv), room in the window (WindowInv), what is   *)
(* in the cells and which logits there are (CellsInv), and that the tokens  *)
(* taken for evaluated are in the first cells (CacheInv).  What the cells   *)
(* hold is known but after a media turn that was followed by no clear       *)
(* (mislabelled); how many there are is always known.  The invariant of the *)
(* text that is shown (StreamInv) stands alone.                             *)
(***************************************************************************)
EXTENDS GgufTurn, Utf8Stream_proofs

\* A set of numbers has a least one.
LEMMA LeastExists ==
  ASSUME NEW S, S \subseteq Nat, S # {}
  PROVE  Min(S) \in S /\ \A y \in S : Min(S) <= y
<1>1. \E x \in S : \A y \in S : x =< y
  BY LeastNumber
<1> QED
  BY <1>1 DEF Min

\* A set of bounded numbers has a greatest one.
LEMMA GreatestExists ==
  ASSUME NEW S, NEW b \in Nat, S \subseteq 0 .. b, S # {}
  PROVE  Max(S) \in S /\ \A y \in S : Max(S) >= y
<1> DEFINE T == {b - x : x \in S}
<1>1. \A x \in S : x \in Nat /\ b - x \in Nat
  OBVIOUS
<1>2. T \subseteq Nat /\ T # {}
  BY <1>1
<1>3. Min(T) \in T /\ \A y \in T : Min(T) <= y
  <2> HIDE DEF T
  <2> QED
    BY <1>2, LeastExists
<1>4. PICK z \in S : Min(T) = b - z
  BY <1>3
<1>5. \A y \in S : z >= y
  <2> SUFFICES ASSUME NEW y \in S PROVE z >= y
    OBVIOUS
  <2>1. b - z <= b - y
    BY <1>3, <1>4
  <2> QED
    BY <1>1, <2>1
<1>6. \E m \in S : \A y \in S : m >= y
  BY <1>5
<1> QED
  BY <1>6 DEF Max

-------------------------------------------------------------------------------
(* Trimming                                                                 *)

\* What a cut of a list is made of.
LEMMA CutProperties ==
  ASSUME NEW M, NEW a \in Seq(M), NEW s \in 0 .. Len(a), NEW r \in 0 .. Len(a)
  PROVE  /\ Cut(a, s, r) \in Seq(M)
         /\ Len(Cut(a, s, r)) = s + r
         /\ \A i \in 1 .. s : Cut(a, s, r)[i] = a[i]
         /\ \A i \in 1 .. r : Cut(a, s, r)[s + i] = a[Len(a) - r + i]
<1> DEFINE front == SubSeq(a, 1, s)
           back == SubSeq(a, Len(a) - r + 1, Len(a))
<1>1. Len(a) \in Nat /\ \A i \in 1 .. Len(a) : a[i] \in M
  BY LenProperties, ElementOfSeq
<1>2. /\ front \in Seq(M) /\ Len(front) = s
      /\ \A i \in 1 .. s : front[i] = a[i]
  <2>1. \A i \in 1 .. s : a[i] \in M
    BY <1>1
  <2> QED
    BY <2>1, <1>1, SubSeqProperties
<1>3. /\ back \in Seq(M) /\ Len(back) = r
      /\ \A i \in 1 .. r : back[i] = a[Len(a) - r + i]
  <2>1. \A i \in Len(a) - r + 1 .. Len(a) : a[i] \in M
    BY <1>1
  <2> QED
    BY <2>1, <1>1, SubSeqProperties
<1>4. Cut(a, s, r) = front \o back
  BY DEF Cut, Ending
<1> HIDE DEF front, back
<1>5. /\ front \o back \in Seq(M)
      /\ Len(front \o back) = s + r
      /\ \A i \in 1 .. s + r : (front \o back)[i] = IF i <= s THEN front[i] ELSE back[i - s]
  <2>1. front \in Seq(M) /\ back \in Seq(M)
    BY <1>2, <1>3
  <2>2. /\ front \o back \in Seq(M)
        /\ Len(front \o back) = Len(front) + Len(back)
        /\ \A i \in 1 .. Len(front) + Len(back) :
             (front \o back)[i] = IF i <= Len(front) THEN front[i] ELSE back[i - Len(front)]
    BY <2>1, ConcatProperties
  <2>3. Len(front) = s /\ Len(back) = r
    BY <1>2, <1>3
  <2> QED
    BY <2>2, <2>3
<1>6. \A i \in 1 .. s : (front \o back)[i] = a[i]
  BY <1>2, <1>5
<1>7. \A i \in 1 .. r : (front \o back)[s + i] = a[Len(a) - r + i]
  <2> SUFFICES ASSUME NEW i \in 1 .. r PROVE (front \o back)[s + i] = back[i]
    BY <1>3
  <2>1. s + i \in 1 .. s + r /\ ~(s + i <= s) /\ s + i - s = i
    BY <1>1
  <2> QED
    BY <1>5, <2>1
<1> QED
  BY <1>4, <1>5, <1>6, <1>7

\* The same, as one fact to cite.
IsCut(c, M, a, s, r) ==
  /\ c \in Seq(M)
  /\ Len(c) = s + r
  /\ \A i \in 1 .. s : c[i] = a[i]
  /\ \A i \in 1 .. r : c[s + i] = a[Len(a) - r + i]

LEMMA CutIsCut ==
  ASSUME NEW M, NEW a \in Seq(M), NEW s \in 0 .. Len(a), NEW r \in 0 .. Len(a)
  PROVE  IsCut(Cut(a, s, r), M, a, s, r)
  BY CutProperties DEF IsCut

\* The whole list, and a cut of a cut.
LEMMA CutAll ==
  ASSUME NEW M, NEW a \in Seq(M), NEW s \in 0 .. Len(a)
  PROVE  Cut(a, s, Len(a) - s) = a
<1> DEFINE b == Cut(a, s, Len(a) - s)
<1>1. Len(a) \in Nat /\ Len(a) - s \in 0 .. Len(a)
  BY LenProperties
<1>2. /\ b \in Seq(M) /\ Len(b) = s + (Len(a) - s)
      /\ \A i \in 1 .. s : b[i] = a[i]
      /\ \A i \in 1 .. Len(a) - s : b[s + i] = a[Len(a) - (Len(a) - s) + i]
  <2> DEFINE r == Len(a) - s
  <2>1. r \in 0 .. Len(a)
    BY <1>1
  <2> HIDE DEF r
  <2>2. /\ Cut(a, s, r) \in Seq(M) /\ Len(Cut(a, s, r)) = s + r
        /\ \A i \in 1 .. s : Cut(a, s, r)[i] = a[i]
        /\ \A i \in 1 .. r : Cut(a, s, r)[s + i] = a[Len(a) - r + i]
    BY <2>1, CutIsCut DEF IsCut
  <2> QED
    BY <2>2 DEF r
<1> HIDE DEF b
<1>3. \A i \in 1 .. Len(b) : b[i] = a[i]
  <2> SUFFICES ASSUME NEW i \in 1 .. Len(b), i > s PROVE b[i] = a[i]
    BY <1>1, <1>2
  <2>1. i - s \in 1 .. Len(a) - s /\ s + (i - s) = i /\ Len(a) - (Len(a) - s) + (i - s) = i
    BY <1>1, <1>2
  <2> QED
    BY <1>2, <2>1
<1>4. b = a
  BY <1>1, <1>2, <1>3, SeqEqual
<1> QED
  BY <1>4 DEF b

\* Cutting what was cut is one cut.
LEMMA CutOfCut ==
  ASSUME NEW M, NEW a \in Seq(M), NEW s \in 0 .. Len(a), NEW r \in 0 .. Len(a),
         NEW n \in 0 .. r
  PROVE  SubSeq(Cut(a, s, r), 1, s) \o SubSeq(Cut(a, s, r), s + r - n + 1, s + r) = Cut(a, s, n)
<1> DEFINE m == Cut(a, s, r)
<1>1. Len(a) \in Nat
  BY LenProperties
<1>2. /\ m \in Seq(M) /\ Len(m) = s + r
      /\ \A i \in 1 .. s : m[i] = a[i]
      /\ \A i \in 1 .. r : m[s + i] = a[Len(a) - r + i]
  <2>1. IsCut(m, M, a, s, r)
    BY CutIsCut
  <2> HIDE DEF m
  <2> QED
    BY <2>1 DEF IsCut
<1>3. /\ Cut(m, s, n) \in Seq(M) /\ Len(Cut(m, s, n)) = s + n
      /\ \A i \in 1 .. s : Cut(m, s, n)[i] = m[i]
      /\ \A i \in 1 .. n : Cut(m, s, n)[s + i] = m[Len(m) - n + i]
  <2>1. s \in 0 .. Len(m) /\ n \in 0 .. Len(m)
    BY <1>1, <1>2
  <2> HIDE DEF m
  <2>2. m \in Seq(M)
    BY <1>2
  <2>3. IsCut(Cut(m, s, n), M, m, s, n)
    BY <2>1, <2>2, CutIsCut
  <2> QED
    BY <2>3 DEF IsCut
<1>4. /\ Cut(a, s, n) \in Seq(M) /\ Len(Cut(a, s, n)) = s + n
      /\ \A i \in 1 .. s : Cut(a, s, n)[i] = a[i]
      /\ \A i \in 1 .. n : Cut(a, s, n)[s + i] = a[Len(a) - n + i]
  <2>1. n \in 0 .. Len(a)
    BY <1>1
  <2>2. IsCut(Cut(a, s, n), M, a, s, n)
    BY <2>1, CutIsCut
  <2> QED
    BY <2>2 DEF IsCut
<1> DEFINE x == Cut(m, s, n)
           y == Cut(a, s, n)
<1>5. x = SubSeq(m, 1, s) \o SubSeq(m, s + r - n + 1, s + r)
  BY <1>2 DEF Cut, Ending
<1> HIDE DEF m, x, y
<1>6. \A i \in 1 .. s + n : x[i] = y[i]
  <2> SUFFICES ASSUME NEW i \in 1 .. s + n, i > s PROVE x[i] = y[i]
    BY <1>1, <1>2, <1>3, <1>4 DEF x, y
  <2> DEFINE j == i - s
             k == r - n + j
  <2>1. j \in 1 .. n /\ k \in 1 .. r /\ s + j = i
    BY <1>1
  <2>2. Len(m) - n + j = s + k /\ Len(a) - r + k = Len(a) - n + j
    BY <1>1, <1>2
  <2> HIDE DEF j, k
  <2>3. x[s + j] = m[s + k] /\ m[s + k] = a[Len(a) - n + j] /\ y[s + j] = a[Len(a) - n + j]
    BY <1>2, <1>3, <1>4, <2>1, <2>2 DEF x, y
  <2> QED
    BY <2>1, <2>3
<1>7. x = y
  BY <1>3, <1>4, <1>6, SeqEqual DEF x, y
<1> QED
  BY <1>5, <1>7 DEF m, y

\* A list of messages is made of leading system messages, s of them, and of
\* others, r of them, the last from the user.
Spoken(m, s, r) ==
  /\ m \in Seq(Message) /\ s \in Nat /\ r \in Nat \ {0} /\ Len(m) = s + r
  /\ \A i \in 1 .. s : m[i].role = "system"
  /\ \A i \in s + 1 .. s + r : m[i].role # "system"
  /\ m[s + r].role = "user"

\* Every conversation is such a list.
LEMMA ConversationSpoken ==
  ASSUME NEW c, IsConversation(c)
  PROVE  Spoken(c, FirstSpoken(c) - 1, Len(c) - (FirstSpoken(c) - 1))
<1> DEFINE S == {Len(c) + 1} \cup {i \in DOMAIN c : c[i].role # "system"}
<1>1. c \in Seq(Message) /\ Len(c) \in Nat \ {0} /\ DOMAIN c = 1 .. Len(c)
  <2>1. c \in Seq(Message) /\ c # << >>
    BY DEF IsConversation
  <2> QED
    BY <2>1, LenProperties, EmptySeq
<1>2. S \subseteq Nat /\ Len(c) \in S
  <2>1. c[Len(c)].role # "system"
    BY DEF IsConversation
  <2>2. Len(c) \in DOMAIN c /\ DOMAIN c \subseteq Nat /\ Len(c) + 1 \in Nat
    BY <1>1
  <2> QED
    BY <2>1, <2>2, Zenon
<1>3. FirstSpoken(c) \in S /\ \A i \in S : FirstSpoken(c) <= i
  <2>1. Min(S) \in S /\ \A i \in S : Min(S) <= i
    <3> HIDE DEF S
    <3> QED
      BY <1>2, LeastExists
  <2> QED
    BY <2>1 DEF FirstSpoken
<1>4. FirstSpoken(c) \in 1 .. Len(c)
  <2>1. FirstSpoken(c) <= Len(c)
    BY <1>2, <1>3
  <2> QED
    BY <1>1, <1>3, <2>1
<1>5. \A i \in 1 .. FirstSpoken(c) - 1 : c[i].role = "system"
  BY <1>1, <1>3, <1>4
<1> HIDE DEF S
<1>6. /\ \A i \in FirstSpoken(c) .. Len(c) : c[i].role # "system"
      /\ c[Len(c)].role = "user"
  BY DEF IsConversation
<1> QED
  <2> DEFINE s == FirstSpoken(c) - 1
             r == Len(c) - s
  <2>1. s \in Nat /\ r \in Nat \ {0} /\ s + r = Len(c) /\ FirstSpoken(c) = s + 1
    BY <1>1, <1>4
  <2>2. \A i \in s + 1 .. s + r : c[i].role # "system"
    BY <1>6, <2>1
  <2> HIDE DEF s, r
  <2>3. \A i \in 1 .. s : c[i].role = "system"
    BY <1>5, <2>1 DEF s
  <2>4. Spoken(c, s, r)
    BY <1>1, <1>6, <2>1, <2>2, <2>3 DEF Spoken
  <2> QED
    BY <2>4 DEF s, r

\* Where the turns of such a list begin, and its last message of the user.
LEMMA SpokenBounds ==
  ASSUME NEW m, NEW s, NEW r, Spoken(m, s, r)
  PROVE  FirstSpoken(m) = s + 1 /\ LatestUserOrEnd(m) = s + r
<1>1. /\ s \in Nat /\ r \in Nat \ {0} /\ DOMAIN m = 1 .. s + r /\ Len(m) = s + r
      /\ \A i \in 1 .. s : m[i].role = "system"
      /\ \A i \in s + 1 .. s + r : m[i].role # "system"
      /\ m[s + r].role = "user"
  BY LenProperties DEF Spoken
<1>2. FirstSpoken(m) = s + 1
  <2> DEFINE S == {Len(m) + 1} \cup {i \in DOMAIN m : m[i].role # "system"}
  <2>1. S \subseteq Nat /\ s + 1 \in S /\ \A i \in S : s + 1 <= i
    BY <1>1
  <2>2. Min(S) \in S /\ \A i \in S : Min(S) <= i
    <3> HIDE DEF S
    <3> QED
      BY <2>1, LeastExists
  <2>3. Min(S) = s + 1
    <3> HIDE DEF S
    <3>1. Min(S) \in Nat /\ Min(S) <= s + 1 /\ s + 1 <= Min(S)
      BY <2>1, <2>2
    <3> QED
      BY <1>1, <3>1
  <2> QED
    BY <2>3 DEF FirstSpoken
<1>3. LatestUser(m) = s + r
  <2> DEFINE S == {0} \cup {i \in DOMAIN m : m[i].role = "user"}
  <2>1. S \subseteq 0 .. s + r /\ s + r \in S /\ s + r \in Nat
    BY <1>1
  <2>2. Max(S) \in S /\ \A i \in S : Max(S) >= i
    <3> HIDE DEF S
    <3>1. S # {}
      BY <2>1
    <3> QED
      BY <2>1, <3>1, GreatestExists
  <2>3. Max(S) = s + r
    <3> HIDE DEF S
    <3>1. Max(S) \in 0 .. s + r /\ Max(S) >= s + r
      BY <2>1, <2>2
    <3> QED
      BY <1>1, <3>1
  <2> QED
    BY <2>3 DEF LatestUser
<1> QED
  BY <1>1, <1>2, <1>3 DEF LatestUserOrEnd

\* The oldest turn is what is before a later user's message.
LEMMA OldestTurn ==
  ASSUME NEW m, NEW s, NEW r, Spoken(m, s, r), OldestHistoryTurnSize(m) > 0
  PROVE  \E n \in 1 .. r - 1 :
           OldestHistoryTurnSize(m) = r - n /\ m[s + r - n + 1].role = "user"
<1>1. /\ s \in Nat /\ r \in Nat \ {0}
      /\ \A i \in s + 1 .. s + r : m[i].role # "system"
      /\ m[s + r].role = "user"
  BY DEF Spoken
<1>2. FirstSpoken(m) = s + 1 /\ LatestUserOrEnd(m) = s + r
  BY SpokenBounds
<1>3. r >= 2
  BY <1>1, <1>2 DEF OldestHistoryTurnSize
<1> DEFINE S == {LatestUserOrEnd(m)} \cup
                  {i \in FirstSpoken(m) + 1 .. LatestUserOrEnd(m) - 1 : m[i].role = "user"}
           e == Min(S)
<1>4. e \in S
  <2>1. S \subseteq Nat /\ S # {}
    BY <1>1, <1>2
  <2> HIDE DEF S
  <2> QED
    BY <2>1, LeastExists
<1>5. e \in s + 2 .. s + r /\ m[e].role = "user"
  <2> HIDE DEF e
  <2> QED
    BY <1>1, <1>2, <1>3, <1>4
<1>6. EndOfOldestTurn(m) = e
  BY DEF EndOfOldestTurn
<1> HIDE DEF e, S
<1>7. OldestHistoryTurnSize(m) = e - (s + 1)
  <2>1. {i \in FirstSpoken(m) .. EndOfOldestTurn(m) - 1 : m[i].role # "system"} = s + 1 .. e - 1
    BY <1>1, <1>2, <1>5, <1>6
  <2>2. Cardinality(s + 1 .. e - 1) = e - (s + 1)
    <3>1. s + 1 \in Int /\ e - 1 \in Int /\ s + 1 <= e - 1
      BY <1>1, <1>5
    <3>2. Cardinality(s + 1 .. e - 1) = (e - 1) - (s + 1) + 1
      BY <3>1, FS_Interval
    <3> QED
      BY <1>1, <1>5, <3>2
  <2>3. ~(FirstSpoken(m) >= LatestUserOrEnd(m))
    BY <1>1, <1>2, <1>3
  <2> QED
    BY <2>1, <2>2, <2>3 DEF OldestHistoryTurnSize
<1> DEFINE n == s + r - e + 1
<1>8. n \in 1 .. r - 1 /\ e - (s + 1) = r - n /\ s + r - n + 1 = e
  BY <1>1, <1>5
<1> QED
  BY <1>5, <1>7, <1>8

\* What is left of a conversation c, whole turns of it dropped.
Trimmed(m, c) ==
  \E r \in 1 .. Len(c) - (FirstSpoken(c) - 1) :
    /\ m = Cut(c, FirstSpoken(c) - 1, r)
    /\ m # c => m[FirstSpoken(c)].role = "user"

\* With its oldest turns dropped it still is such a list.
LEMMA SpokenCut ==
  ASSUME NEW c, NEW s, NEW q, Spoken(c, s, q), NEW r \in 1 .. q
  PROVE  Spoken(Cut(c, s, r), s, r)
<1> DEFINE m == Cut(c, s, r)
<1>1. /\ c \in Seq(Message) /\ s \in Nat /\ q \in Nat \ {0} /\ Len(c) = s + q
      /\ \A i \in 1 .. s : c[i].role = "system"
      /\ \A i \in s + 1 .. s + q : c[i].role # "system"
      /\ c[s + q].role = "user"
  BY DEF Spoken
<1>2. /\ m \in Seq(Message) /\ Len(m) = s + r
      /\ \A i \in 1 .. s : m[i] = c[i]
      /\ \A i \in 1 .. r : m[s + i] = c[Len(c) - r + i]
  <2>1. s \in 0 .. Len(c) /\ r \in 0 .. Len(c) /\ c \in Seq(Message)
    BY <1>1
  <2>2. IsCut(m, Message, c, s, r)
    BY <2>1, CutIsCut
  <2> HIDE DEF m
  <2> QED
    BY <2>2 DEF IsCut
<1> HIDE DEF m
<1>3. \A i \in s + 1 .. s + r : m[i] = c[q - r + i]
  <2> SUFFICES ASSUME NEW i \in s + 1 .. s + r PROVE m[i] = c[q - r + i]
    OBVIOUS
  <2> DEFINE j == i - s
  <2>1. j \in 1 .. r /\ s + j = i /\ Len(c) - r + j = q - r + i
    BY <1>1
  <2> HIDE DEF j
  <2> QED
    BY <1>2, <2>1
<1>4. \A i \in s + 1 .. s + r : m[i].role # "system"
  <2> SUFFICES ASSUME NEW i \in s + 1 .. s + r PROVE m[i].role # "system"
    OBVIOUS
  <2> DEFINE j == q - r + i
  <2>1. j \in s + 1 .. s + q
    BY <1>1
  <2>2. m[i] = c[j]
    BY <1>3
  <2> HIDE DEF j
  <2> QED
    BY <1>1, <2>1, <2>2
<1>5. m[s + r].role = "user"
  <2>1. s + r \in s + 1 .. s + r /\ q - r + (s + r) = s + q
    BY <1>1
  <2> QED
    BY <1>1, <1>3, <2>1
<1>6. \A i \in 1 .. s : m[i].role = "system"
  BY <1>1, <1>2
<1>7. Spoken(m, s, r)
  BY <1>1, <1>2, <1>4, <1>5, <1>6 DEF Spoken
<1> QED
  BY <1>7 DEF m

\* A conversation of which nothing is dropped.
LEMMA TrimmedNothing ==
  ASSUME NEW c, IsConversation(c)
  PROVE  Trimmed(c, c)
<1> DEFINE s == FirstSpoken(c) - 1
           q == Len(c) - s
<1>1. Spoken(c, s, q)
  BY ConversationSpoken
<1> HIDE DEF s, q
<1>2. c \in Seq(Message) /\ s \in 0 .. Len(c) /\ q \in 1 .. q /\ q = Len(c) - s
  <2>1. c \in Seq(Message) /\ Len(c) = s + q /\ s \in Nat /\ q \in Nat \ {0}
    BY <1>1 DEF Spoken
  <2> QED
    BY <2>1
<1>3. Cut(c, s, q) = c
  BY <1>2, CutAll
<1> QED
  BY <1>2, <1>3 DEF Trimmed, s, q

\* Dropping the oldest turn.
LEMMA TrimmedStep ==
  ASSUME NEW c, IsConversation(c), NEW m, Trimmed(m, c), OldestHistoryTurnSize(m) > 0
  PROVE  Trimmed(WithoutOldestTurn(m), c)
<1> DEFINE s == FirstSpoken(c) - 1
           q == Len(c) - s
<1>1. Spoken(c, s, q)
  BY ConversationSpoken
<1>2. PICK r \in 1 .. q : m = Cut(c, s, r)
  BY DEF Trimmed
<1>b. q = Len(c) - s
  OBVIOUS
<1> HIDE DEF s, q
<1>a. FirstSpoken(c) = s + 1
  BY <1>1, SpokenBounds
<1>3. /\ c \in Seq(Message) /\ Len(c) = s + q /\ s \in Nat /\ q \in Nat \ {0}
      /\ s \in 0 .. Len(c) /\ r \in 0 .. Len(c)
  BY <1>1, <1>2 DEF Spoken
<1>4. Spoken(m, s, r)
  BY <1>1, <1>2, SpokenCut
<1>5. PICK n \in 1 .. r - 1 :
        OldestHistoryTurnSize(m) = r - n /\ m[s + r - n + 1].role = "user"
  BY <1>4, OldestTurn
<1>6. FirstSpoken(m) = s + 1 /\ Len(m) = s + r
  BY <1>4, SpokenBounds DEF Spoken
<1>7. WithoutOldestTurn(m) = SubSeq(m, 1, s) \o SubSeq(m, s + r - n + 1, s + r)
  <2>1. FirstSpoken(m) - 1 = s /\ FirstSpoken(m) + OldestHistoryTurnSize(m) = s + r - n + 1
    BY <1>2, <1>3, <1>5, <1>6
  <2> QED
    BY <1>6, <2>1 DEF WithoutOldestTurn
<1>8. n \in 0 .. r /\ n \in 1 .. q /\ n \in 0 .. Len(c) /\ n >= 1 /\ r >= n
  BY <1>2, <1>3, <1>5
<1>9. WithoutOldestTurn(m) = Cut(c, s, n)
  BY <1>2, <1>3, <1>7, <1>8, CutOfCut
<1>10. Cut(c, s, n)[s + 1].role = "user"
  <2>1. Cut(c, s, n)[s + 1] = c[Len(c) - n + 1]
    <3>1. c \in Seq(Message) /\ s \in 0 .. Len(c) /\ 1 \in 1 .. n
      BY <1>3, <1>8
    <3> QED
      BY <1>8, <3>1, CutProperties
  <2>2. m[s + (r - n + 1)] = c[Len(c) - r + (r - n + 1)]
    <3>1. /\ r - n + 1 \in 1 .. r
          /\ c \in Seq(Message) /\ s \in 0 .. Len(c) /\ r \in 0 .. Len(c)
      BY <1>2, <1>3, <1>8
    <3>2. \A i \in 1 .. r : m[s + i] = c[Len(c) - r + i]
      BY <1>2, <3>1, CutProperties
    <3> QED
      BY <3>1, <3>2
  <2>3. s + (r - n + 1) = s + r - n + 1 /\ Len(c) - r + (r - n + 1) = Len(c) - n + 1
    BY <1>2, <1>3, <1>8
  <2> QED
    BY <1>5, <2>1, <2>2, <2>3
<1> QED
  BY <1>8, <1>9, <1>10, <1>a, <1>b DEF Trimmed, s, q

-------------------------------------------------------------------------------
(* The turns                                                                *)

TrimInv == phase # "idle" => conversation \in Conversations /\ Trimmed(msgs, conversation)

\* What is sent is a conversation.
LEMMA SentConversation ==
  ASSUME NEW c \in Conversations
  PROVE  IsConversation(c)
BY ConversationAssumption

\* No step of a turn leaves half a turn behind.
LEMMA TrimStep == TrimInv /\ [Next]_vars => TrimInv'
<1> SUFFICES ASSUME TrimInv, [Next]_vars PROVE TrimInv'
  OBVIOUS
<1> USE DEF TrimInv, holder, stream, locals
<1>1. ASSUME NEW c \in Conversations, NEW r \in Requests, StartText(c, r) PROVE TrimInv'
  <2>1. Trimmed(c, c)
    BY SentConversation, TrimmedNothing
  <2>2. conversation' = c /\ kind' = "text" /\ msgs' = c
    BY <1>1 DEF StartText, Asked
  <2> QED
    BY <2>1, <2>2
<1>2. ASSUME NEW c \in Conversations, NEW r \in Requests, StartMedia(c, r) PROVE TrimInv'
  <2>1. Trimmed(c, c)
    BY SentConversation, TrimmedNothing
  <2>2. conversation' = c /\ kind' = "media" /\ msgs' = c
    BY <1>2 DEF StartMedia, Asked
  <2> QED
    BY <2>1, <2>2
<1>3. CASE DropOldestTurn
  <2>1. /\ OldestHistoryTurnSize(msgs) > 0 /\ msgs' = WithoutOldestTurn(msgs)
        /\ phase = "format" /\ UNCHANGED <<kind, conversation>>
    BY <1>3 DEF DropOldestTurn, MayDrop
  <2>2. IsConversation(conversation)
    BY <2>1, SentConversation
  <2>3. Trimmed(msgs', conversation)
    BY <2>1, <2>2, TrimmedStep
  <2> QED
    BY <2>1, <2>3
<1>4. CASE Refuse
  BY <1>4 DEF Refuse, Return, ForgetStream
<1>5. CASE BeginPrefill
  BY <1>5 DEF BeginPrefill
<1>6. CASE PrefillBatch
  BY <1>6 DEF PrefillBatch
<1>7. CASE EndPrefill
  BY <1>7 DEF EndPrefill
<1>8. CASE PrefillFails
  BY <1>8 DEF PrefillFails, ClearPromptCache, Return, ForgetStream
<1>9. CASE Encode
  BY <1>9 DEF Encode
<1>10. CASE EncodeFails
  BY <1>10 DEF EncodeFails, ClearPromptCache, Return, ForgetStream
<1>11. CASE EvalMedia
  BY <1>11 DEF EvalMedia
<1>12. CASE EvalMediaFails
  BY <1>12 DEF EvalMediaFails, Return, ForgetStream
<1>13. ASSUME NEW piece \in Pieces, Sample(piece) PROVE TrimInv'
  BY <1>13 DEF Sample
<1>14. CASE Finish
  BY <1>14 DEF Finish, ClearPromptCache, KeepCaches, Return, Flush
<1>15. CASE HitContextLimit
  BY <1>15 DEF HitContextLimit, ClearPromptCache, Return, ForgetStream
<1>16. CASE Abort
  BY <1>16 DEF Abort, ClearPromptCache, Return, ForgetStream
<1>17. CASE Throw
  BY <1>17 DEF Throw, KeepCaches, Return, ForgetStream
<1>18. CASE Stop
  BY <1>18 DEF Stop
<1>19. CASE WarmUp
  BY <1>19 DEF WarmUp, ClearPromptCache, ForgetStream
<1>20. CASE ResetAfterValidation
  BY <1>20 DEF ResetAfterValidation, ClearPromptCache, ForgetStream
<1>21. ASSUME NEW c \in Conversations, Probe(c) PROVE TrimInv'
  BY <1>21 DEF Probe, ForgetStream
<1>22. CASE UNCHANGED vars
  BY <1>22 DEF vars
<1> QED
  BY <1>1, <1>2, <1>3, <1>4, <1>5, <1>6, <1>7, <1>8, <1>9, <1>10, <1>11,
     <1>12, <1>13, <1>14, <1>15, <1>16, <1>17, <1>18, <1>19, <1>20, <1>21, <1>22
     DEF Next, Turn

\* "Count non-system messages in the oldest complete turn; never include the
\* current user" (prompt-budget.h:12): whole turns are dropped, whatever the
\* conversations and the template are.
THEOREM TurnsAreKeptWhole == Spec => []TrimmingKeepsTurnsWhole
<1>1. Init => TrimInv
  BY DEF Init, TrimInv
<1>2. TrimInv => TrimmingKeepsTurnsWhole
  <2> SUFFICES ASSUME TrimInv, phase # "idle"
               PROVE  LET system == FirstSpoken(conversation) - 1
                          rest == Len(msgs) - system
                      IN /\ rest > 0 /\ msgs = Cut(conversation, system, rest)
                         /\ msgs # conversation => msgs[system + 1].role = "user"
    BY DEF TrimmingKeepsTurnsWhole
  <2> DEFINE s == FirstSpoken(conversation) - 1
             q == Len(conversation) - s
  <2>1. Spoken(conversation, s, q)
    <3>1. IsConversation(conversation)
      BY SentConversation DEF TrimInv
    <3> QED
      BY <3>1, ConversationSpoken
  <2>2. PICK r \in 1 .. q : /\ msgs = Cut(conversation, s, r)
                            /\ msgs # conversation => msgs[FirstSpoken(conversation)].role = "user"
    BY DEF TrimInv, Trimmed
  <2> HIDE DEF s, q
  <2>3. FirstSpoken(conversation) = s + 1
    BY <2>1, SpokenBounds
  <2>4. Len(msgs) = s + r
    BY <2>1, <2>2, SpokenCut DEF Spoken
  <2>5. s \in Nat /\ q \in Nat
    BY <2>1 DEF Spoken
  <2>6. Len(msgs) - s = r /\ r > 0
    BY <2>4, <2>5
  <2> QED
    BY <2>2, <2>3, <2>6 DEF s
<1> QED
  BY <1>1, <1>2, TrimStep, PTL DEF Spec

-------------------------------------------------------------------------------
(* Lengths and prefixes                                                     *)

\* The smaller of two numbers is one of them.
LEMMA SmallerIs ==
  ASSUME NEW a \in Nat, NEW b \in Nat
  PROVE  /\ Smaller(a, b) \in Nat /\ Smaller(a, b) <= a /\ Smaller(a, b) <= b
         /\ Smaller(a, b) \in {a, b}
BY DEF Smaller

\* The first tokens of a list.
LEMMA FirstOf ==
  ASSUME NEW M, NEW a \in Seq(M), NEW n \in 0 .. Len(a)
  PROVE  /\ SubSeq(a, 1, n) \in Seq(M) /\ Len(SubSeq(a, 1, n)) = n
         /\ \A i \in 1 .. n : SubSeq(a, 1, n)[i] = a[i]
<1>1. Len(a) \in Nat /\ \A i \in 1 .. n : a[i] \in M
  BY LenProperties, ElementOfSeq
<1> QED
  BY <1>1, SubSeqProperties

\* The tokens from one of them to another.
LEMMA NextOf ==
  ASSUME NEW M, NEW s \in Seq(M), NEW a \in 0 .. Len(s), NEW b \in a .. Len(s)
  PROVE  SubSeq(s, a + 1, b) \in Seq(M) /\ Len(SubSeq(s, a + 1, b)) = b - a
<1>1. Len(s) \in Nat /\ a \in Nat /\ b \in Nat /\ b >= a
  BY LenProperties
<1>2. \A i \in a + 1 .. b : s[i] \in M
  BY <1>1, ElementOfSeq
<1> QED
  BY <1>1, <1>2, SubSeqProperties

\* No first tokens.
LEMMA FirstNone ==
  ASSUME NEW M, NEW a \in Seq(M)
  PROVE  SubSeq(a, 1, 0) = << >>
BY SubSeqEmpty

\* What may be reused is common, and not all of the prompt.
LEMMA ReusableIs ==
  ASSUME NEW cached \in Seq(Token), NEW p \in Seq(Token), p # << >>
  PROVE  /\ ReusablePromptTokens(cached, p) \in 0 .. Len(cached)
         /\ ReusablePromptTokens(cached, p) < Len(p)
         /\ \A i \in 1 .. ReusablePromptTokens(cached, p) : cached[i] = p[i]
<1> DEFINE b == Smaller(Len(cached), Len(p) - 1)
           S == {n \in 0 .. b : \A i \in 1 .. n : cached[i] = p[i]}
<1>1. Len(cached) \in Nat /\ Len(p) \in Nat \ {0}
  BY LenProperties, EmptySeq
<1>2. b \in Nat /\ b <= Len(cached) /\ b < Len(p)
  <2>1. Len(p) - 1 \in Nat
    BY <1>1
  <2>2. b \in Nat /\ b <= Len(cached) /\ b <= Len(p) - 1
    BY <1>1, <2>1, SmallerIs
  <2> QED
    BY <1>1, <2>2
<1> HIDE DEF b
<1>3. S \subseteq 0 .. b /\ 0 \in S
  BY <1>2
<1>4. Max(S) \in S
  <2> HIDE DEF S
  <2> QED
    BY <1>2, <1>3, GreatestExists
<1>5. ReusablePromptTokens(cached, p) = Max(S)
  BY DEF ReusablePromptTokens, b
<1>6. Max(S) \in 0 .. b /\ \A i \in 1 .. Max(S) : cached[i] = p[i]
  BY <1>4
<1> QED
  BY <1>1, <1>2, <1>5, <1>6

\* Every request leaves room for an answer.
LEMMA OutputIs ==
  ASSUME NEW r \in Requests \cup {0}
  PROVE  /\ Output(r) \in Nat \ {0}
         /\ OutputTokenReserve(NCtx, r) \in Nat \ {0}
<1>1. r \in Nat /\ NCtx \in Nat /\ DefaultOutput \in Nat \ {0} /\ OutputFloor \in Nat \ {0}
  BY TurnAssumption, BudgetAssumption
<1>2. Output(r) \in Nat \ {0}
  BY <1>1 DEF Output
<1>3. NCtx \div 4 \in Nat
  BY <1>1
<1>4. Larger(OutputFloor, NCtx \div 4) \in Nat \ {0}
  BY <1>1, <1>3 DEF Larger
<1> QED
  BY <1>2, <1>4 DEF OutputTokenReserve, Smaller

\* A token that is added to the answer is added to the whole.
LEMMA AppendToAnswer ==
  ASSUME NEW a \in Seq(Token), NEW g \in Seq(Token), NEW x \in Token
  PROVE  Append(a \o g, x) = a \o Append(g, x)
<1>1. Append(a \o g, x) = (a \o g) \o <<x>>
  BY ConcatProperties, AppendIsConcat
<1>2. Append(g, x) = g \o <<x>>
  BY AppendIsConcat
<1>3. <<x>> \in Seq(Token)
  OBVIOUS
<1> QED
  BY <1>1, <1>2, <1>3, ConcatAssociative

-------------------------------------------------------------------------------
(* The invariant of a turn                                                  *)

TypeInv ==
  /\ encoder \in BOOLEAN /\ stop \in BOOLEAN /\ mislabelled \in BOOLEAN
  /\ cached_tokens \in Seq(Token) /\ kv \in Seq(Token) /\ encoded \in Seq(Token)
  /\ logits \in Seq(Token) /\ prompt \in Seq(Token) /\ generated \in Seq(Pieces)
  /\ phase \in Phases /\ kind \in {"text", "media"}
  /\ requested \in Requests \cup {0} /\ result \in Results
  /\ evaluated \in 0 .. Len(prompt)

\* The phases of the two kinds of turn, and of an encoder's.
PhaseInv ==
  /\ kind = "media" => ~encoder
  /\ phase \in {"idle", "format"} => prompt = << >> /\ evaluated = 0
  /\ phase \in {"format", "prefill"} => generated = << >>
  /\ phase = "prefill" => ~encoder /\ kind = "text" /\ prompt # << >>

\* The window: what is set aside for an answer leaves room for one token.  No
\* more is cached than there are cells.
WindowInv ==
  /\ Len(kv) <= NCtx /\ Len(cached_tokens) <= Len(kv)
  /\ phase = "prefill" => Len(prompt) < NCtx /\ Len(kv) = evaluated
  /\ phase = "decode" => /\ Len(kv) = OccupiedCells
                         /\ Len(generated) <= Output(requested)
  /\ phase = "idle" => Len(generated) <= NCtx

\* What is in the cells, and what the logits were computed for.
CellsInv ==
  /\ phase = "prefill" => /\ ~mislabelled => kv = SubSeq(prompt, 1, evaluated)
                          /\ evaluated = Len(prompt) => logits = kv
  /\ AnswersThePrompt /\ LogitsAreFresh

\* What is cached: between turns, and while a text turn evaluates its prompt, a
\* prefix of what is in the cells, while it decodes, all of it, but for what a
\* media turn left; nothing when a turn with an image begins.
CacheInv ==
  ~encoder =>
    /\ ~mislabelled /\ (phase = "idle" \/ (phase \in {"format", "prefill"} /\ kind = "text"))
         => IsPrefixOf(cached_tokens, kv)
    /\ ~mislabelled /\ phase = "decode" /\ kind = "text" => cached_tokens = kv
    /\ phase = "format" /\ kind = "media" => cached_tokens = << >>

Inv == TrimInv /\ TypeInv /\ PhaseInv /\ WindowInv /\ CellsInv /\ CacheInv

\* An empty context is in order.
LEMMA InvInit == Init => Inv
<1> SUFFICES ASSUME Init PROVE Inv
  OBVIOUS
<1>1. << >> \in Seq(Token) /\ << >> \in Seq(Pieces) /\ Len(<< >>) = 0 /\ NCtx \in Nat
  BY BudgetAssumption
<1>2. TrimInv /\ PhaseInv
  BY DEF Init, TrimInv, PhaseInv
<1>4. TypeInv
  <2>1. prompt = << >> /\ evaluated = 0 /\ evaluated \in 0 .. Len(prompt)
    BY <1>1 DEF Init
  <2> QED
    BY <1>1, <2>1 DEF Init, TypeInv, Phases, Results
<1>3. WindowInv /\ CellsInv /\ CacheInv
  BY <1>1 DEF Init, WindowInv, CellsInv, CacheInv, AnswersThePrompt, LogitsAreFresh, IsPrefixOf
<1> QED
  BY <1>2, <1>3, <1>4 DEF Inv

\* The prompt of a turn that is being formatted.
LEMMA Formatted ==
  ASSUME TrimInv, TypeInv, phase # "idle"
  PROVE  /\ Template(msgs) \in Seq(Token) /\ Template(msgs) # << >>
         /\ Len(Template(msgs)) \in Nat \ {0}
         /\ Fits => Len(Template(msgs)) < NCtx
<1>1. conversation \in Conversations /\ Trimmed(msgs, conversation)
  BY DEF TrimInv
<1>2. IsConversation(conversation)
  BY <1>1, SentConversation
<1> DEFINE s == FirstSpoken(conversation) - 1
           q == Len(conversation) - s
<1>3. Spoken(conversation, s, q)
  BY <1>2, ConversationSpoken
<1>4. PICK r \in 1 .. q : msgs = Cut(conversation, s, r)
  BY <1>1 DEF Trimmed
<1> HIDE DEF s, q
<1>5. s \in Nat /\ q \in Nat \ {0} /\ Len(conversation) = s + q
  BY <1>3 DEF Spoken
<1>6. s \in 0 .. Len(conversation) /\ r \in 0 .. Len(conversation)
  BY <1>4, <1>5
<1>7. msgs \in Cuts(conversation)
  BY <1>4, <1>6 DEF Cuts
<1>8. Template(msgs) \in Seq(Token) \ {<< >>}
  BY <1>1, <1>7, ConversationAssumption
<1>9. Len(Template(msgs)) \in Nat \ {0}
  BY <1>8, LenProperties, EmptySeq
<1>10. Reserve \in Nat \ {0}
  BY OutputIs DEF TypeInv, Reserve
<1> HIDE DEF Reserve
<1>11. Fits => Len(Template(msgs)) < NCtx
  BY <1>9, <1>10, BudgetAssumption DEF Fits
<1> QED
  BY <1>8, <1>9, <1>11

\* What a text turn keeps of the cells.
LEMMA PrefillBegins ==
  ASSUME TrimInv, TypeInv, WindowInv, CacheInv, BeginPrefill
  PROVE  \E n \in 0 .. Len(cached_tokens) :
           /\ n <= Len(kv) /\ n < Len(prompt') /\ evaluated' = n
           /\ prompt' = Template(msgs) /\ mislabelled' \in BOOLEAN
           /\ ~mislabelled' => \A i \in 1 .. n : kv[i] = prompt'[i] /\ cached_tokens[i] = kv[i]
           /\ cached_tokens' = SubSeq(cached_tokens, 1, n) /\ kv' = SubSeq(kv, 1, n)
           /\ encoded' \in {encoded, << >>} /\ logits' \in {logits, << >>}
<1>1. phase = "format" /\ kind = "text" /\ ~encoder /\ prompt' = Template(msgs)
  BY DEF BeginPrefill
<1>2. PICK removed \in BOOLEAN :
        KeepReused(ReusablePromptTokens(cached_tokens, prompt'), removed)
  BY DEF BeginPrefill
<1>3. /\ cached_tokens \in Seq(Token) /\ kv \in Seq(Token) /\ Len(cached_tokens) \in Nat
      /\ Len(kv) \in Nat /\ prompt' \in Seq(Token) /\ prompt' # << >> /\ Len(prompt') \in Nat \ {0}
  BY <1>1, Formatted, LenProperties DEF TypeInv
<1>4. Len(cached_tokens) <= Len(kv) /\ (~mislabelled => IsPrefixOf(cached_tokens, kv))
  BY <1>1 DEF CacheInv, WindowInv
<1> DEFINE k == ReusablePromptTokens(cached_tokens, prompt')
<1>5. /\ k \in 0 .. Len(cached_tokens) /\ k < Len(prompt')
      /\ \A i \in 1 .. k : cached_tokens[i] = prompt'[i]
  BY <1>3, ReusableIs
<1>6. KeepReused(k, removed)
  BY <1>2
<1> HIDE DEF k
<1>7. k <= Len(kv)
  BY <1>3, <1>4, <1>5
<1>10. ASSUME ~mislabelled
       PROVE  \A i \in 1 .. k : kv[i] = prompt'[i] /\ cached_tokens[i] = kv[i]
  <2>1. 1 .. k \subseteq DOMAIN cached_tokens
    BY <1>3, <1>5, LenProperties
  <2>2. \A i \in DOMAIN cached_tokens : cached_tokens[i] = kv[i]
    BY <1>4, <1>10 DEF IsPrefixOf
  <2> QED
    BY <1>5, <2>1, <2>2
<1>8. CASE k = 0 \/ ~removed
  <2>1. SubSeq(cached_tokens, 1, 0) = << >> /\ SubSeq(kv, 1, 0) = << >>
    BY <1>3, FirstNone
  <2>2. /\ cached_tokens' = << >> /\ kv' = << >> /\ encoded' = << >> /\ logits' = << >>
        /\ evaluated' = 0 /\ mislabelled' = FALSE
    BY <1>6, <1>8 DEF KeepReused, ClearPromptCache
  <2>3. 0 \in 0 .. Len(cached_tokens) /\ 0 <= Len(kv) /\ 0 < Len(prompt') /\ 1 .. 0 = {}
    BY <1>3
  <2> QED
    BY <1>1, <2>1, <2>2, <2>3
<1>9. CASE ~(k = 0 \/ ~removed)
  <2>1. /\ cached_tokens' = SubSeq(cached_tokens, 1, k) /\ kv' = SubSeq(kv, 1, k)
        /\ evaluated' = k /\ encoded' = encoded /\ logits' = logits
        /\ mislabelled' = mislabelled
    BY <1>6, <1>9 DEF KeepReused
  <2>2. mislabelled' \in BOOLEAN
    BY <2>1 DEF TypeInv
  <2> QED
    BY <1>1, <1>5, <1>7, <1>10, <2>1, <2>2
<1> QED
  BY <1>8, <1>9

\* A probe's prompt, and how much of it fits.
LEMMA ProbePrompt ==
  ASSUME NEW c \in Conversations, NEW n \in 0 .. Smaller(NCtx, Len(Template(c)))
  PROVE  Template(c) \in Seq(Token) /\ n \in 0 .. Len(Template(c)) /\ n <= NCtx
<1>1. Trimmed(c, c)
  BY SentConversation, TrimmedNothing
<1> DEFINE s == FirstSpoken(c) - 1
           q == Len(c) - s
<1>2. Spoken(c, s, q)
  BY SentConversation, ConversationSpoken
<1>3. PICK r \in 1 .. q : c = Cut(c, s, r)
  BY <1>1 DEF Trimmed
<1> HIDE DEF s, q
<1>4. s \in Nat /\ q \in Nat \ {0} /\ Len(c) = s + q
  BY <1>2 DEF Spoken
<1>5. s \in 0 .. Len(c) /\ r \in 0 .. Len(c)
  BY <1>3, <1>4
<1>6. c \in Cuts(c)
  BY <1>3, <1>5 DEF Cuts
<1>7. Template(c) \in Seq(Token)
  BY <1>6, ConversationAssumption
<1>8. Len(Template(c)) \in Nat /\ NCtx \in Nat
  BY <1>7, LenProperties, BudgetAssumption
<1>9. /\ Smaller(NCtx, Len(Template(c))) \in Nat
      /\ Smaller(NCtx, Len(Template(c))) <= NCtx
      /\ Smaller(NCtx, Len(Template(c))) <= Len(Template(c))
  BY <1>8, SmallerIs
<1> QED
  BY <1>7, <1>8, <1>9

\* No step leaves the types.
LEMMA TypeStep == Inv /\ [Next]_vars => TypeInv'
<1> SUFFICES ASSUME Inv, [Next]_vars PROVE TypeInv'
  OBVIOUS
<1>a. TrimInv /\ TypeInv /\ PhaseInv /\ WindowInv /\ CellsInv /\ CacheInv
  BY DEF Inv
<1>b. << >> \in Seq(Token) /\ << >> \in Seq(Pieces) /\ 0 \in 0 .. Len(<< >>)
  OBVIOUS
<1> USE <1>a, <1>b DEF TypeInv, holder, stream, locals, Phases, Results
<1>1. ASSUME NEW c \in Conversations, NEW r \in Requests, StartText(c, r) PROVE TypeInv'
  BY <1>a, <1>b, <1>1 DEF StartText, Asked, ForgetStream
<1>2. ASSUME NEW c \in Conversations, NEW r \in Requests, StartMedia(c, r) PROVE TypeInv'
  BY <1>a, <1>b, <1>2 DEF StartMedia, Asked, ClearPromptCache, ForgetStream
<1>3. CASE DropOldestTurn
  BY <1>a, <1>b, <1>3 DEF DropOldestTurn
<1>4. CASE Refuse
  BY <1>a, <1>b, <1>4 DEF Refuse, Return, ForgetStream
<1>5. CASE BeginPrefill
  <2>1. PICK n \in 0 .. Len(cached_tokens) :
           /\ n <= Len(kv) /\ n < Len(prompt') /\ evaluated' = n
           /\ prompt' = Template(msgs) /\ mislabelled' \in BOOLEAN
           /\ cached_tokens' = SubSeq(cached_tokens, 1, n) /\ kv' = SubSeq(kv, 1, n)
           /\ encoded' \in {encoded, << >>} /\ logits' \in {logits, << >>}
    BY <1>a, <1>b, <1>5, <1>a, PrefillBegins
  <2>2. /\ prompt' \in Seq(Token) /\ Len(prompt') \in Nat /\ Len(kv) \in Nat
        /\ Len(cached_tokens) \in Nat
    BY <1>a, <1>b, <1>5, <1>a, <2>1, Formatted, LenProperties DEF BeginPrefill
  <2>3. cached_tokens' \in Seq(Token) /\ kv' \in Seq(Token)
    BY <2>1, <2>2, FirstOf
  <2>4. evaluated' \in 0 .. Len(prompt')
    BY <2>1, <2>2
  <2>5. encoded' \in Seq(Token) /\ logits' \in Seq(Token)
    BY <2>1
  <2>6. phase' = "prefill" /\ UNCHANGED <<encoder, stop, kind, requested, generated, result>>
    BY <1>a, <1>b, <1>5 DEF BeginPrefill
  <2> QED
    BY <2>1, <2>2, <2>3, <2>4, <2>5, <2>6
<1>6. CASE PrefillBatch
  <2>1. /\ evaluated' = Smaller(evaluated + BatchSize, Len(prompt)) /\ prompt' = prompt
        /\ kv' = kv \o SubSeq(prompt, evaluated + 1, evaluated') /\ logits' = kv'
        /\ evaluated < Len(prompt)
    BY <1>a, <1>b, <1>6 DEF PrefillBatch
  <2>2. Len(prompt) \in Nat /\ evaluated' \in 0 .. Len(prompt)
    <3>1. Len(prompt) \in Nat
      BY LenProperties
    <3>2. evaluated + BatchSize \in Nat
      BY <3>1, TurnAssumption
    <3>3. /\ Smaller(evaluated + BatchSize, Len(prompt)) \in Nat
          /\ Smaller(evaluated + BatchSize, Len(prompt)) <= Len(prompt)
      BY <3>1, <3>2, SmallerIs
    <3> QED
      BY <2>1, <3>1, <3>3
  <2>3. SubSeq(prompt, evaluated + 1, evaluated') \in Seq(Token)
    <3>1. \A i \in evaluated + 1 .. evaluated' : prompt[i] \in Token
      BY <2>2, ElementOfSeq
    <3>2. evaluated + 1 \in Int /\ evaluated' \in Int
      BY <2>2
    <3> QED
      BY <3>1, <3>2, SubSeqProperties
  <2>4. kv' \in Seq(Token)
    BY <2>1, <2>3, ConcatProperties
  <2> QED
    BY <1>a, <1>b, <1>6, <2>1, <2>2, <2>4 DEF PrefillBatch
<1>7. CASE EndPrefill
  BY <1>a, <1>b, <1>7 DEF EndPrefill
<1>8. CASE PrefillFails
  BY <1>a, <1>b, <1>8 DEF PrefillFails, ClearPromptCache, Return, ForgetStream
<1>9. CASE Encode
  <2>1. Template(msgs) \in Seq(Token) /\ Len(Template(msgs)) \in Nat /\ evaluated = 0
    BY <1>a, <1>b, <1>9, <1>a, Formatted DEF Encode, PhaseInv
  <2>2. <<DecoderStart>> \in Seq(Token)
    BY TurnAssumption
  <2>3. /\ cached_tokens' = << >> /\ kv' = <<DecoderStart>> /\ logits' = kv'
        /\ prompt' = Template(msgs) /\ encoded' = prompt' /\ mislabelled' = FALSE
        /\ phase' = "decode"
        /\ UNCHANGED <<encoder, stop, kind, requested, evaluated, generated, result>>
    BY <1>9 DEF Encode
  <2>4. /\ kv' \in Seq(Token) /\ logits' \in Seq(Token) /\ prompt' \in Seq(Token)
        /\ encoded' \in Seq(Token) /\ evaluated' \in 0 .. Len(prompt')
    BY <2>1, <2>2, <2>3
  <2> QED
    BY <2>3, <2>4
<1>10. CASE EncodeFails
  BY <1>a, <1>b, <1>10 DEF EncodeFails, ClearPromptCache, Return, ForgetStream
<1>11. CASE EvalMedia
  <2>1. Template(msgs) \in Seq(Token) /\ Len(Template(msgs)) \in Nat /\ evaluated = 0
    BY <1>a, <1>b, <1>11, <1>a, Formatted DEF EvalMedia, PhaseInv
  <2> QED
    BY <1>a, <1>b, <1>11, <2>1 DEF EvalMedia
<1>12. CASE EvalMediaFails
  <2>1. Template(msgs) \in Seq(Token)
    BY <1>a, <1>b, <1>12, <1>a, Formatted DEF EvalMediaFails
  <2>2. kv' \in Seq(Token)
    BY <1>a, <1>b, <1>12, <2>1, FirstOf DEF EvalMediaFails
  <2> QED
    BY <1>a, <1>b, <1>12, <2>2 DEF EvalMediaFails, Return, ForgetStream
<1>13. ASSUME NEW piece \in Pieces, Sample(piece) PROVE TypeInv'
  <2>1. piece \in Token
    BY TurnAssumption
  <2>2. /\ Append(kv, piece) \in Seq(Token) /\ Append(cached_tokens, piece) \in Seq(Token)
        /\ Append(generated, piece) \in Seq(Pieces)
    BY <2>1, AppendProperties
  <2> QED
    BY <1>a, <1>b, <1>13, <2>2 DEF Sample
<1>14. CASE Finish
  <2>1. /\ cached_tokens' \in Seq(Token) /\ kv' \in Seq(Token) /\ encoded' \in Seq(Token)
        /\ logits' \in Seq(Token) /\ mislabelled' \in BOOLEAN
    BY <1>a, <1>b, <1>14 DEF Finish, ClearPromptCache, KeepCaches
  <2> QED
    BY <1>a, <1>b, <1>14, <2>1 DEF Finish, Return
<1>15. CASE HitContextLimit
  BY <1>a, <1>b, <1>15 DEF HitContextLimit, ClearPromptCache, Return, ForgetStream
<1>16. CASE Abort
  BY <1>a, <1>b, <1>16 DEF Abort, ClearPromptCache, Return, ForgetStream
<1>17. CASE Throw
  BY <1>a, <1>b, <1>17 DEF Throw, KeepCaches, Return, ForgetStream
<1>18. CASE Stop
  BY <1>a, <1>b, <1>18 DEF Stop
<1>19. CASE WarmUp
  BY <1>a, <1>b, <1>19 DEF WarmUp, ClearPromptCache, ForgetStream
<1>20. CASE ResetAfterValidation
  BY <1>a, <1>b, <1>20 DEF ResetAfterValidation, ClearPromptCache, ForgetStream
<1>21. ASSUME NEW c \in Conversations, Probe(c) PROVE TypeInv'
  <2>1. PICK n \in 0 .. Smaller(NCtx, Len(Template(c))) : kv' = SubSeq(Template(c), 1, n)
    BY <1>a, <1>b, <1>21 DEF Probe
  <2>2. Template(c) \in Seq(Token) /\ n \in 0 .. Len(Template(c))
    BY <2>1, ProbePrompt
  <2>3. kv' \in Seq(Token)
    BY <2>1, <2>2, FirstOf
  <2> QED
    BY <1>a, <1>b, <1>21, <2>3 DEF Probe, ForgetStream
<1>22. CASE UNCHANGED vars
  BY <1>a, <1>b, <1>22 DEF vars
<1> QED
  BY <1>a, <1>b, <1>1, <1>2, <1>3, <1>4, <1>5, <1>6, <1>7, <1>8, <1>9, <1>10,
     <1>11, <1>12, <1>13, <1>14, <1>15, <1>16, <1>17, <1>18, <1>19, <1>20, <1>21, <1>22
     DEF Next, Turn

\* No step leaves the phases of its turn.
LEMMA PhaseStep == Inv /\ [Next]_vars => PhaseInv'
<1> SUFFICES ASSUME Inv, [Next]_vars PROVE PhaseInv'
  OBVIOUS
<1>a. TrimInv /\ TypeInv /\ PhaseInv /\ WindowInv /\ CellsInv /\ CacheInv
  BY DEF Inv
<1> USE <1>a DEF PhaseInv, holder, stream, locals, TypeInv
<1>1. ASSUME NEW c \in Conversations, NEW r \in Requests, StartText(c, r) PROVE PhaseInv'
  BY <1>1 DEF StartText, Asked, ForgetStream
<1>2. ASSUME NEW c \in Conversations, NEW r \in Requests, StartMedia(c, r) PROVE PhaseInv'
  BY <1>2, <1>a DEF StartMedia, Asked, ForgetStream, ClearPromptCache
<1>3. CASE DropOldestTurn
  BY <1>3 DEF DropOldestTurn
<1>4. CASE Refuse
  BY <1>4 DEF Refuse, Return, ForgetStream
<1>5. CASE BeginPrefill
  <2>1. prompt' # << >>
    BY <1>5, <1>a, Formatted DEF BeginPrefill
  <2> QED
    BY <1>5, <2>1 DEF BeginPrefill
<1>6. CASE PrefillBatch
  BY <1>6 DEF PrefillBatch
<1>7. CASE EndPrefill
  BY <1>7 DEF EndPrefill
<1>8. CASE PrefillFails
  BY <1>8 DEF PrefillFails, ClearPromptCache, Return, ForgetStream
<1>9. CASE Encode
  BY <1>9 DEF Encode
<1>10. CASE EncodeFails
  BY <1>10 DEF EncodeFails, ClearPromptCache, Return, ForgetStream
<1>11. CASE EvalMedia
  BY <1>11 DEF EvalMedia
<1>12. CASE EvalMediaFails
  BY <1>12 DEF EvalMediaFails, Return, ForgetStream
<1>13. ASSUME NEW piece \in Pieces, Sample(piece) PROVE PhaseInv'
  BY <1>13 DEF Sample
<1>14. CASE Finish
  BY <1>14 DEF Finish, ClearPromptCache, KeepCaches, Return, Flush
<1>15. CASE HitContextLimit
  BY <1>15 DEF HitContextLimit, ClearPromptCache, Return, ForgetStream
<1>16. CASE Abort
  BY <1>16 DEF Abort, ClearPromptCache, Return, ForgetStream
<1>17. CASE Throw
  BY <1>17 DEF Throw, KeepCaches, Return, ForgetStream
<1>18. CASE Stop
  BY <1>18 DEF Stop
<1>19. CASE WarmUp
  BY <1>19 DEF WarmUp, ClearPromptCache, ForgetStream
<1>20. CASE ResetAfterValidation
  BY <1>20 DEF ResetAfterValidation, ClearPromptCache, ForgetStream
<1>21. ASSUME NEW c \in Conversations, Probe(c) PROVE PhaseInv'
  BY <1>21 DEF Probe, ForgetStream
<1>22. CASE UNCHANGED vars
  BY <1>22 DEF vars
<1> QED
  BY <1>1, <1>2, <1>3, <1>4, <1>5, <1>6, <1>7, <1>8, <1>9, <1>10, <1>11,
     <1>12, <1>13, <1>14, <1>15, <1>16, <1>17, <1>18, <1>19, <1>20, <1>21, <1>22
     DEF Next, Turn

\* A batch goes on where the last one ended.
LEMMA BatchExtends ==
  ASSUME TypeInv, PhaseInv, WindowInv, CellsInv, PrefillBatch
  PROVE  /\ evaluated' \in 0 .. Len(prompt) /\ evaluated' >= evaluated
         /\ Len(kv') = evaluated' /\ logits' = kv'
         /\ ~mislabelled => kv' = SubSeq(prompt, 1, evaluated')
<1>1. /\ evaluated' = Smaller(evaluated + BatchSize, Len(prompt))
      /\ kv' = kv \o SubSeq(prompt, evaluated + 1, evaluated') /\ logits' = kv'
      /\ evaluated < Len(prompt) /\ Len(kv) = evaluated
      /\ ~mislabelled => kv = SubSeq(prompt, 1, evaluated)
  BY DEF PrefillBatch, CellsInv, WindowInv
<1>2. /\ prompt \in Seq(Token) /\ Len(prompt) \in Nat
      /\ evaluated \in Nat /\ evaluated + BatchSize \in Nat /\ evaluated + BatchSize >= evaluated
  BY <1>1, LenProperties, TurnAssumption DEF TypeInv
<1>3. evaluated' \in 0 .. Len(prompt) /\ evaluated' >= evaluated
  <2>1. /\ Smaller(evaluated + BatchSize, Len(prompt)) \in Nat
        /\ Smaller(evaluated + BatchSize, Len(prompt)) <= Len(prompt)
        /\ Smaller(evaluated + BatchSize, Len(prompt)) \in {evaluated + BatchSize, Len(prompt)}
    BY <1>2, SmallerIs
  <2> QED
    BY <1>1, <1>2, <2>1
<1>4. /\ 1 \in 1 .. Len(prompt) + 1 /\ evaluated \in 1 - 1 .. Len(prompt)
      /\ evaluated' \in evaluated .. Len(prompt)
  BY <1>1, <1>2, <1>3
<1>5. SubSeq(prompt, 1, evaluated) \o SubSeq(prompt, evaluated + 1, evaluated')
        = SubSeq(prompt, 1, evaluated')
  BY <1>2, <1>4, ConcatAdjacentSubSeq
<1> DEFINE batch == SubSeq(prompt, evaluated + 1, evaluated')
<1>6. batch \in Seq(Token) /\ Len(batch) = evaluated' - evaluated
  <2>1. evaluated \in 0 .. Len(prompt)
    BY DEF TypeInv
  <2> QED
    BY <1>2, <1>4, <2>1, NextOf
<1>7. kv \in Seq(Token) /\ kv' = kv \o batch
  BY <1>1 DEF TypeInv
<1> HIDE DEF batch
<1>8. Len(kv') = Len(kv) + Len(batch)
  BY <1>6, <1>7, ConcatProperties
<1>9. Len(kv') = evaluated'
  BY <1>1, <1>2, <1>3, <1>6, <1>8
<1> QED
  BY <1>1, <1>3, <1>5, <1>9

\* A prompt that is evaluated is in the cells.
LEMMA EvaluatedIsPrompt ==
  ASSUME TypeInv, WindowInv, CellsInv, EndPrefill
  PROVE  Len(kv) = Len(prompt) /\ logits = kv /\ (~mislabelled => kv = prompt)
<1>1. /\ Len(kv) = Len(prompt) /\ logits = kv
      /\ ~mislabelled => kv = SubSeq(prompt, 1, Len(prompt))
  BY DEF EndPrefill, CellsInv, WindowInv
<1>2. SubSeq(prompt, 1, Len(prompt)) = prompt
  BY SubSeqFull DEF TypeInv
<1> QED
  BY <1>1, <1>2

\* No step overruns the window.
LEMMA WindowStep == Inv /\ [Next]_vars => WindowInv'
<1> SUFFICES ASSUME Inv, [Next]_vars PROVE WindowInv'
  OBVIOUS
<1>a. TrimInv /\ TypeInv /\ PhaseInv /\ WindowInv /\ CellsInv /\ CacheInv
  BY DEF Inv
<1>b. NCtx \in Nat /\ Len(<< >>) = 0
  BY BudgetAssumption
<1> USE <1>a, <1>b DEF WindowInv, holder, stream, locals
<1>1. ASSUME NEW c \in Conversations, NEW r \in Requests, StartText(c, r) PROVE WindowInv'
  BY <1>1 DEF StartText, Asked, ForgetStream
<1>2. ASSUME NEW c \in Conversations, NEW r \in Requests, StartMedia(c, r) PROVE WindowInv'
  BY <1>2 DEF StartMedia, Asked, ClearPromptCache, ForgetStream
<1>3. CASE DropOldestTurn
  BY <1>3 DEF DropOldestTurn
<1>4. CASE Refuse
  BY <1>4 DEF Refuse, Return, ForgetStream
<1>5. CASE BeginPrefill
  <2>1. PICK n \in 0 .. Len(cached_tokens) :
           /\ n <= Len(kv) /\ prompt' = Template(msgs) /\ evaluated' = n
           /\ cached_tokens' = SubSeq(cached_tokens, 1, n) /\ kv' = SubSeq(kv, 1, n)
    BY <1>5, PrefillBegins
  <2>2. Len(Template(msgs)) < NCtx
    BY <1>5, Formatted DEF BeginPrefill
  <2>3. Len(kv') = n /\ Len(cached_tokens') = n /\ n <= NCtx /\ n \in Nat
    <3>1. /\ Len(kv) \in Nat /\ Len(cached_tokens) \in Nat
          /\ kv \in Seq(Token) /\ cached_tokens \in Seq(Token)
      BY LenProperties DEF TypeInv
    <3>2. n \in 0 .. Len(kv)
      BY <2>1, <3>1
    <3>3. Len(kv') = n /\ Len(cached_tokens') = n
      BY <2>1, <3>1, <3>2, FirstOf
    <3> QED
      BY <3>1, <3>2, <3>3 DEF WindowInv
  <2> QED
    BY <1>5, <2>1, <2>2, <2>3 DEF BeginPrefill
<1>6. CASE PrefillBatch
  <2>1. evaluated' \in 0 .. Len(prompt) /\ evaluated' >= evaluated /\ Len(kv') = evaluated'
    BY <1>6, BatchExtends
  <2>2. Len(prompt) \in Nat /\ Len(cached_tokens) \in Nat /\ evaluated \in Nat
    BY LenProperties DEF TypeInv
  <2>3. /\ phase = "prefill" /\ phase' = "prefill" /\ prompt' = prompt
        /\ cached_tokens' = cached_tokens
    BY <1>6 DEF PrefillBatch
  <2>4. Len(prompt) < NCtx
    BY <2>3
  <2>5. Len(kv') <= NCtx
    <3>1. evaluated' \in Nat /\ evaluated' <= Len(prompt)
      BY <2>1
    <3> QED
      BY <1>b, <2>1, <2>2, <2>4, <3>1
  <2>6. Len(cached_tokens) <= Len(kv')
    <3>1. Len(cached_tokens) <= evaluated
      BY <2>3
    <3> QED
      BY <2>1, <2>2, <3>1
  <2> QED
    BY <2>1, <2>3, <2>4, <2>5, <2>6
<1>7. CASE EndPrefill
  <2>1. Len(kv) = Len(prompt) /\ Len(prompt) \in Nat
    BY <1>7, EvaluatedIsPrompt, LenProperties DEF TypeInv
  <2> QED
    BY <1>7, <2>1, OutputIs DEF EndPrefill, OccupiedCells, PhaseInv, TypeInv
<1>8. CASE PrefillFails
  BY <1>8 DEF PrefillFails, ClearPromptCache, Return, ForgetStream
<1>9. CASE Encode
  <2>1. NCtx >= 1
    BY <1>9, Formatted DEF Encode
  <2>2. kv' = <<DecoderStart>> /\ Len(<<DecoderStart>>) = 1
    BY <1>9 DEF Encode
  <2>3. generated = << >> /\ Len(<< >>) = 0 /\ Output(requested) \in Nat
    BY <1>9, OutputIs DEF Encode, PhaseInv, TypeInv
  <2> QED
    BY <1>9, <2>1, <2>2, <2>3 DEF Encode, OccupiedCells
<1>10. CASE EncodeFails
  BY <1>10 DEF EncodeFails, ClearPromptCache, Return, ForgetStream
<1>11. CASE EvalMedia
  <2>1. Len(Template(msgs)) < NCtx /\ Len(Template(msgs)) \in Nat
    BY <1>11, Formatted DEF EvalMedia
  <2>2. generated = << >> /\ Len(<< >>) = 0 /\ Output(requested) \in Nat /\ ~encoder
    BY <1>11, OutputIs DEF EvalMedia, PhaseInv, TypeInv
  <2>3. cached_tokens' = << >>
    BY <1>11, <2>2 DEF EvalMedia, CacheInv
  <2> QED
    BY <1>11, <2>1, <2>2, <2>3 DEF EvalMedia, OccupiedCells
<1>12. CASE EvalMediaFails
  <2>1. /\ Len(Template(msgs)) < NCtx /\ Len(Template(msgs)) \in Nat
        /\ Template(msgs) \in Seq(Token)
    BY <1>12, Formatted DEF EvalMediaFails
  <2>2. PICK n \in 0 .. Len(Template(msgs)) : kv' = SubSeq(Template(msgs), 1, n)
    BY <1>12 DEF EvalMediaFails
  <2>3. Len(kv') = n
    BY <2>1, <2>2, FirstOf
  <2>4. cached_tokens' = << >>
    BY <1>12 DEF EvalMediaFails, CacheInv, PhaseInv
  <2> QED
    BY <1>12, <1>b, <2>1, <2>2, <2>3, <2>4 DEF EvalMediaFails, Return, ForgetStream
<1>13. ASSUME NEW piece \in Pieces, Sample(piece) PROVE WindowInv'
  <2>1. /\ Len(Append(kv, piece)) = Len(kv) + 1
        /\ Len(Append(cached_tokens, piece)) = Len(cached_tokens) + 1
        /\ Len(Append(generated, piece)) = Len(generated) + 1
    BY AppendProperties, TurnAssumption DEF TypeInv
  <2>2. /\ Len(kv) \in Nat /\ Len(cached_tokens) \in Nat /\ Len(generated) \in Nat
        /\ Len(prompt) \in Nat /\ Output(requested) \in Nat
    BY LenProperties, OutputIs DEF TypeInv
  <2>3. /\ phase = "decode" /\ Len(generated) < Output(requested) /\ OccupiedCells < NCtx
        /\ kv' = Append(kv, piece) /\ cached_tokens' = Append(cached_tokens, piece)
        /\ generated' = Append(generated, piece)
        /\ UNCHANGED <<encoder, phase, prompt, requested>>
    BY <1>13 DEF Sample, MayContinue
  <2>4. OccupiedCells' = OccupiedCells + 1 /\ OccupiedCells \in Nat
    <3>1. CASE encoder
      BY <2>1, <2>2, <2>3, <3>1 DEF OccupiedCells
    <3>2. CASE ~encoder
      BY <2>1, <2>2, <2>3, <3>2 DEF OccupiedCells
    <3> QED
      BY <3>1, <3>2
  <2>5. Len(kv) = OccupiedCells
    BY <2>3
  <2>6. Len(kv') = OccupiedCells' /\ Len(kv') <= NCtx /\ Len(cached_tokens') <= Len(kv')
    BY <1>b, <2>1, <2>2, <2>3, <2>4, <2>5
  <2>7. Len(generated') <= Output(requested)
    BY <2>1, <2>2, <2>3
  <2> QED
    BY <2>3, <2>6, <2>7
<1>14. CASE Finish
  <2>1. Len(generated) <= NCtx
    <3>1. Len(kv) = OccupiedCells /\ Len(kv) <= NCtx
      BY <1>14 DEF Finish
    <3>2. Len(generated) \in Nat /\ Len(prompt) \in Nat
      BY LenProperties DEF TypeInv
    <3> QED
      BY <1>b, <3>1, <3>2 DEF OccupiedCells
  <2>2. Len(kv') <= NCtx /\ Len(cached_tokens') <= Len(kv')
    BY <1>14, <1>b DEF Finish, ClearPromptCache, KeepCaches
  <2> QED
    BY <1>14, <2>1, <2>2 DEF Finish, Return
<1>15. CASE HitContextLimit
  BY <1>15 DEF HitContextLimit, ClearPromptCache, Return, ForgetStream
<1>16. CASE Abort
  BY <1>16 DEF Abort, ClearPromptCache, Return, ForgetStream
<1>17. CASE Throw
  BY <1>17 DEF Throw, KeepCaches, Return, ForgetStream
<1>18. CASE Stop
  BY <1>18 DEF Stop, OccupiedCells
<1>19. CASE WarmUp
  BY <1>19 DEF WarmUp, ClearPromptCache, ForgetStream
<1>20. CASE ResetAfterValidation
  BY <1>20 DEF ResetAfterValidation, ClearPromptCache, ForgetStream
<1>21. ASSUME NEW c \in Conversations, Probe(c) PROVE WindowInv'
  <2>1. PICK n \in 0 .. Smaller(NCtx, Len(Template(c))) : kv' = SubSeq(Template(c), 1, n)
    BY <1>21 DEF Probe
  <2>2. Template(c) \in Seq(Token) /\ n \in 0 .. Len(Template(c)) /\ n <= NCtx
    BY <2>1, ProbePrompt
  <2>3. Len(kv') = n /\ n \in Nat
    BY <2>1, <2>2, FirstOf
  <2> QED
    BY <1>21, <1>b, <2>2, <2>3 DEF Probe, ForgetStream
<1>22. CASE UNCHANGED vars
  BY <1>22 DEF vars, OccupiedCells
<1> QED
  BY <1>1, <1>2, <1>3, <1>4, <1>5, <1>6, <1>7, <1>8, <1>9, <1>10, <1>11,
     <1>12, <1>13, <1>14, <1>15, <1>16, <1>17, <1>18, <1>19, <1>20, <1>21, <1>22
     DEF Next, Turn

\* Lists that agree up to n have the same first n elements.
LEMMA SamePrefix ==
  ASSUME NEW M, NEW a \in Seq(M), NEW b \in Seq(M), NEW n \in Nat,
         n <= Len(a), n <= Len(b), \A i \in 1 .. n : a[i] = b[i]
  PROVE  SubSeq(a, 1, n) = SubSeq(b, 1, n)
<1>1. n \in 0 .. Len(a) /\ n \in 0 .. Len(b)
  BY LenProperties
<1>2. /\ SubSeq(a, 1, n) \in Seq(M) /\ Len(SubSeq(a, 1, n)) = n
      /\ \A i \in 1 .. n : SubSeq(a, 1, n)[i] = a[i]
  BY <1>1, FirstOf
<1>3. /\ SubSeq(b, 1, n) \in Seq(M) /\ Len(SubSeq(b, 1, n)) = n
      /\ \A i \in 1 .. n : SubSeq(b, 1, n)[i] = b[i]
  BY <1>1, FirstOf
<1> QED
  BY <1>2, <1>3, SeqEqual

\* No step leaves cells, or logits, of another context.
LEMMA CellsStep == Inv /\ [Next]_vars => CellsInv'
<1> SUFFICES ASSUME Inv, [Next]_vars PROVE CellsInv'
  OBVIOUS
<1>a. TrimInv /\ TypeInv /\ PhaseInv /\ WindowInv /\ CellsInv /\ CacheInv
  BY DEF Inv
<1> USE <1>a DEF CellsInv, AnswersThePrompt, LogitsAreFresh, holder, stream, locals
<1>1. ASSUME NEW c \in Conversations, NEW r \in Requests, StartText(c, r) PROVE CellsInv'
  BY <1>1 DEF StartText, Asked, ForgetStream
<1>2. ASSUME NEW c \in Conversations, NEW r \in Requests, StartMedia(c, r) PROVE CellsInv'
  BY <1>2 DEF StartMedia, Asked, ClearPromptCache, ForgetStream
<1>3. CASE DropOldestTurn
  BY <1>3 DEF DropOldestTurn
<1>4. CASE Refuse
  BY <1>4 DEF Refuse, Return, ForgetStream
<1>5. CASE BeginPrefill
  <2>1. PICK n \in 0 .. Len(cached_tokens) :
           /\ n <= Len(kv) /\ n < Len(prompt') /\ evaluated' = n
           /\ prompt' = Template(msgs)
           /\ ~mislabelled' => \A i \in 1 .. n : kv[i] = prompt'[i]
           /\ kv' = SubSeq(kv, 1, n)
    BY <1>5, PrefillBegins
  <2>2. /\ kv \in Seq(Token) /\ Len(kv) \in Nat /\ prompt' \in Seq(Token)
        /\ Len(prompt') \in Nat /\ Len(cached_tokens) \in Nat
    BY <1>5, <2>1, Formatted, LenProperties DEF BeginPrefill, TypeInv
  <2>3. ~mislabelled' => SubSeq(kv, 1, n) = SubSeq(prompt', 1, n)
    BY <2>1, <2>2, SamePrefix
  <2>4. evaluated' # Len(prompt') /\ phase' = "prefill"
    BY <1>5, <2>1, <2>2 DEF BeginPrefill
  <2> QED
    BY <2>1, <2>3, <2>4
<1>6. CASE PrefillBatch
  <2>1. (~mislabelled => kv' = SubSeq(prompt, 1, evaluated')) /\ logits' = kv'
    BY <1>6, BatchExtends
  <2> QED
    BY <1>6, <2>1 DEF PrefillBatch
<1>7. CASE EndPrefill
  <2>1. (~mislabelled => kv = prompt) /\ logits = kv
    BY <1>7, EvaluatedIsPrompt
  <2>2. generated = << >> /\ prompt \o << >> = prompt /\ ~encoder
    BY <1>7, ConcatEmptySeq DEF EndPrefill, PhaseInv, TypeInv
  <2> QED
    BY <1>7, <2>1, <2>2 DEF EndPrefill
<1>8. CASE PrefillFails
  BY <1>8 DEF PrefillFails, ClearPromptCache, Return, ForgetStream
<1>9. CASE Encode
  <2>1. generated = << >> /\ encoder
    BY <1>9 DEF Encode, PhaseInv
  <2>2. <<DecoderStart>> \o << >> = <<DecoderStart>>
    BY ConcatEmptySeq, TurnAssumption
  <2> QED
    BY <1>9, <2>1, <2>2 DEF Encode
<1>10. CASE EncodeFails
  BY <1>10 DEF EncodeFails, ClearPromptCache, Return, ForgetStream
<1>11. CASE EvalMedia
  <2>1. generated = << >> /\ ~encoder
    BY <1>11 DEF EvalMedia, PhaseInv
  <2>2. Template(msgs) \o << >> = Template(msgs)
    BY <1>11, Formatted, ConcatEmptySeq DEF EvalMedia
  <2> QED
    BY <1>11, <2>1, <2>2 DEF EvalMedia
<1>12. CASE EvalMediaFails
  BY <1>12 DEF EvalMediaFails, Return, ForgetStream
<1>13. ASSUME NEW piece \in Pieces, Sample(piece) PROVE CellsInv'
  <2>1. /\ piece \in Token /\ generated \in Seq(Token) /\ prompt \in Seq(Token)
        /\ <<DecoderStart>> \in Seq(Token)
    BY TurnAssumption DEF TypeInv
  <2>2. Append(prompt \o generated, piece) = prompt \o Append(generated, piece)
    BY <2>1, AppendToAnswer, Zenon
  <2>4. Append(<<DecoderStart>> \o generated, piece) = <<DecoderStart>> \o Append(generated, piece)
    <3> DEFINE d == <<DecoderStart>>
    <3>1. d \in Seq(Token)
      BY <2>1
    <3> HIDE DEF d
    <3>2. Append(d \o generated, piece) = d \o Append(generated, piece)
      BY <2>1, <3>1, AppendToAnswer, Zenon
    <3> QED
      BY <3>2 DEF d
  <2>3. /\ phase = "decode" /\ kv' = Append(kv, piece) /\ logits' = kv'
        /\ generated' = Append(generated, piece)
        /\ UNCHANGED <<encoder, encoded, mislabelled, phase, prompt>>
    BY <1>13 DEF Sample
  <2> QED
    BY <2>2, <2>3, <2>4
<1>14. CASE Finish
  BY <1>14 DEF Finish, ClearPromptCache, KeepCaches, Return, Flush
<1>15. CASE HitContextLimit
  BY <1>15 DEF HitContextLimit, ClearPromptCache, Return, ForgetStream
<1>16. CASE Abort
  BY <1>16 DEF Abort, ClearPromptCache, Return, ForgetStream
<1>17. CASE Throw
  BY <1>17 DEF Throw, KeepCaches, Return, ForgetStream
<1>18. CASE Stop
  BY <1>18 DEF Stop
<1>19. CASE WarmUp
  BY <1>19 DEF WarmUp, ClearPromptCache, ForgetStream
<1>20. CASE ResetAfterValidation
  BY <1>20 DEF ResetAfterValidation, ClearPromptCache, ForgetStream
<1>21. ASSUME NEW c \in Conversations, Probe(c) PROVE CellsInv'
  BY <1>21 DEF Probe, ForgetStream
<1>22. CASE UNCHANGED vars
  BY <1>22 DEF vars
<1> QED
  BY <1>1, <1>2, <1>3, <1>4, <1>5, <1>6, <1>7, <1>8, <1>9, <1>10, <1>11,
     <1>12, <1>13, <1>14, <1>15, <1>16, <1>17, <1>18, <1>19, <1>20, <1>21, <1>22
     DEF Next, Turn

\* The empty cache is a prefix of any cells.
LEMMA EmptyIsPrefix ==
  \A a \in Seq(Token) : IsPrefixOf(<< >>, a)
<1> SUFFICES ASSUME NEW a \in Seq(Token) PROVE IsPrefixOf(<< >>, a)
  OBVIOUS
<1>1. Len(<< >>) = 0 /\ DOMAIN << >> = {} /\ Len(a) \in Nat
  BY LenProperties
<1> QED
  BY <1>1 DEF IsPrefixOf

\* Every step leaves the cache a prefix of the cells.
LEMMA CacheStep == Inv /\ [Next]_vars => CacheInv'
<1> SUFFICES ASSUME Inv, [Next]_vars PROVE CacheInv'
  OBVIOUS
<1>a. TrimInv /\ TypeInv /\ PhaseInv /\ WindowInv /\ CellsInv /\ CacheInv
  BY DEF Inv
<1>b. << >> \in Seq(Token)
  OBVIOUS
<1>c. TypeInv'
  BY TypeStep
<1> USE <1>a, <1>b DEF CacheInv, holder, stream, locals
<1>k. ASSUME KeepCaches, phase # "idle", Return("complete") \/ Return("failed"),
             encoder' = encoder
      PROVE  CacheInv'
  <2>1. phase' = "idle" /\ UNCHANGED <<encoder, cached_tokens, kv>>
    BY <1>k DEF KeepCaches, Return
  <2>2. mislabelled' = (mislabelled \/ (kind = "media" /\ cached_tokens # << >>))
    BY <1>k DEF KeepCaches
  <2>3. CASE kind = "text"
    <3>1. IsPrefixOf(kv, kv)
      BY LenProperties DEF IsPrefixOf, TypeInv
    <3>2. phase \in {"format", "prefill", "decode"} /\ (~mislabelled' => ~mislabelled)
      BY <1>k, <2>2 DEF TypeInv, Phases
    <3> QED
      BY <2>1, <2>3, <3>1, <3>2
  <2>4. CASE kind = "media"
    <3>1. ~mislabelled' => cached_tokens = << >>
      BY <2>2, <2>4
    <3>2. IsPrefixOf(<< >>, kv)
      BY EmptyIsPrefix DEF TypeInv
    <3> QED
      BY <2>1, <3>1, <3>2
  <2> QED
    BY <2>3, <2>4 DEF TypeInv
<1>1. ASSUME NEW c \in Conversations, NEW r \in Requests, StartText(c, r) PROVE CacheInv'
  BY <1>1 DEF StartText, Asked, PhaseInv, TypeInv
<1>2. ASSUME NEW c \in Conversations, NEW r \in Requests, StartMedia(c, r) PROVE CacheInv'
  BY <1>2 DEF StartMedia, Asked, ClearPromptCache, TypeInv
<1>3. CASE DropOldestTurn
  BY <1>3 DEF DropOldestTurn
<1>4. CASE Refuse
  <2>1. IsPrefixOf(<< >>, kv)
    BY EmptyIsPrefix DEF TypeInv
  <2>2. phase = "format" /\ phase' = "idle" /\ UNCHANGED <<encoder, cached_tokens, kv, mislabelled>>
    BY <1>4 DEF Refuse, Return
  <2>3. kind \in {"text", "media"}
    BY DEF TypeInv
  <2> QED
    BY <2>1, <2>2, <2>3
<1>5. CASE BeginPrefill
  <2>1. PICK n \in 0 .. Len(cached_tokens) :
           /\ n <= Len(kv)
           /\ ~mislabelled' => \A i \in 1 .. n : cached_tokens[i] = kv[i]
           /\ cached_tokens' = SubSeq(cached_tokens, 1, n) /\ kv' = SubSeq(kv, 1, n)
    BY <1>5, PrefillBegins
  <2>2. /\ kv \in Seq(Token) /\ Len(kv) \in Nat /\ cached_tokens \in Seq(Token)
        /\ Len(cached_tokens) \in Nat /\ DOMAIN cached_tokens = 1 .. Len(cached_tokens)
    BY LenProperties DEF TypeInv
  <2>3. /\ phase = "format" /\ kind = "text" /\ ~encoder /\ ~encoder' /\ phase' = "prefill"
    BY <1>5 DEF BeginPrefill
  <2>5. ~mislabelled' => cached_tokens' = kv'
    <3>1. n \in Nat /\ n <= Len(cached_tokens)
      BY <2>2
    <3> QED
      BY <2>1, <2>2, <3>1, SamePrefix
  <2>6. Len(kv') \in Nat
    <3>1. n \in 0 .. Len(kv)
      BY <2>1, <2>2
    <3> QED
      BY <2>1, <2>2, <3>1, FirstOf
  <2>7. ~mislabelled' => IsPrefixOf(cached_tokens', kv')
    BY <2>5, <2>6 DEF IsPrefixOf
  <2> QED
    BY <2>3, <2>7
<1>6. CASE PrefillBatch
  <2>1. /\ phase = "prefill" /\ ~encoder /\ kind = "text"
        /\ UNCHANGED <<cached_tokens, mislabelled, phase, kind, encoder>>
        /\ ~mislabelled => kv = SubSeq(prompt, 1, evaluated)
    BY <1>6 DEF PrefillBatch, PhaseInv, CellsInv
  <2>2. /\ evaluated' \in 0 .. Len(prompt) /\ evaluated' >= evaluated
        /\ ~mislabelled => kv' = SubSeq(prompt, 1, evaluated')
    BY <1>6, BatchExtends
  <2>3. ASSUME ~mislabelled
        PROVE  /\ Len(kv) = evaluated /\ \A i \in 1 .. evaluated : kv[i] = prompt[i]
               /\ Len(kv') = evaluated' /\ \A i \in 1 .. evaluated' : kv'[i] = prompt[i]
    <3>1. kv = SubSeq(prompt, 1, evaluated) /\ kv' = SubSeq(prompt, 1, evaluated')
      BY <2>1, <2>2, <2>3
    <3>2. prompt \in Seq(Token) /\ evaluated \in 0 .. Len(prompt)
      BY DEF TypeInv
    <3> QED
      BY <2>2, <3>1, <3>2, FirstOf
  <2>4. /\ Len(cached_tokens) \in Nat /\ DOMAIN cached_tokens = 1 .. Len(cached_tokens)
        /\ Len(prompt) \in Nat /\ evaluated \in Nat
    BY LenProperties DEF TypeInv
  <2>5. ASSUME ~mislabelled PROVE IsPrefixOf(cached_tokens, kv')
    <3>1. IsPrefixOf(cached_tokens, kv)
      BY <2>1, <2>5
    <3>2. Len(cached_tokens) <= evaluated /\ Len(cached_tokens) <= Len(kv')
      BY <2>2, <2>3, <2>4, <2>5, <3>1 DEF IsPrefixOf
    <3>3. ASSUME NEW i \in DOMAIN cached_tokens PROVE cached_tokens[i] = kv'[i]
      <4>1. cached_tokens[i] = kv[i]
        BY <3>1 DEF IsPrefixOf
      <4>2. i \in 1 .. evaluated /\ i \in 1 .. evaluated'
        BY <2>2, <2>4, <3>2
      <4> QED
        BY <2>3, <2>5, <4>1, <4>2
    <3> QED
      BY <3>2, <3>3 DEF IsPrefixOf
  <2> QED
    BY <2>1, <2>5
<1>7. CASE EndPrefill
  <2>1. ~mislabelled => kv = prompt
    BY <1>7, EvaluatedIsPrompt
  <2> QED
    BY <1>7, <2>1 DEF EndPrefill
<1>8. CASE PrefillFails
  BY <1>8, EmptyIsPrefix DEF PrefillFails, ClearPromptCache, Return, ForgetStream
<1>9. CASE Encode
  BY <1>9 DEF Encode
<1>10. CASE EncodeFails
  BY <1>10, EmptyIsPrefix DEF EncodeFails, ClearPromptCache, Return, ForgetStream
<1>11. CASE EvalMedia
  BY <1>11 DEF EvalMedia
<1>12. CASE EvalMediaFails
  <2>1. cached_tokens' = << >> /\ phase' = "idle" /\ kv' \in Seq(Token)
    BY <1>12, <1>c DEF EvalMediaFails, Return, TypeInv, PhaseInv
  <2> QED
    BY <2>1, EmptyIsPrefix
<1>13. ASSUME NEW piece \in Pieces, Sample(piece) PROVE CacheInv'
  BY <1>13 DEF Sample
<1>14. CASE Finish
  <2>1. CASE HasMedia(msgs)
    BY <1>14, <2>1, EmptyIsPrefix DEF Finish, ClearPromptCache, Return
  <2>2. CASE ~HasMedia(msgs)
    BY <1>14, <2>2, <1>k DEF Finish
  <2> QED
    BY <2>1, <2>2
<1>15. CASE HitContextLimit
  BY <1>15, EmptyIsPrefix DEF HitContextLimit, ClearPromptCache, Return, ForgetStream
<1>16. CASE Abort
  BY <1>16, EmptyIsPrefix DEF Abort, ClearPromptCache, Return, ForgetStream
<1>17. CASE Throw
  BY <1>17, <1>k DEF Throw
<1>18. CASE Stop
  BY <1>18 DEF Stop
<1>19. CASE WarmUp
  BY <1>19, EmptyIsPrefix DEF WarmUp, ClearPromptCache, ForgetStream
<1>20. CASE ResetAfterValidation
  BY <1>20, EmptyIsPrefix DEF ResetAfterValidation, ClearPromptCache, ForgetStream
<1>21. ASSUME NEW c \in Conversations, Probe(c) PROVE CacheInv'
  <2>1. cached_tokens' = << >> /\ phase' = "idle" /\ kv' \in Seq(Token)
    BY <1>21, <1>c DEF Probe, TypeInv
  <2> QED
    BY <2>1, EmptyIsPrefix
<1>22. CASE UNCHANGED vars
  BY <1>22 DEF vars
<1> QED
  BY <1>1, <1>2, <1>3, <1>4, <1>5, <1>6, <1>7, <1>8, <1>9, <1>10, <1>11,
     <1>12, <1>13, <1>14, <1>15, <1>16, <1>17, <1>18, <1>19, <1>20, <1>21, <1>22
     DEF Next, Turn

-------------------------------------------------------------------------------
(* What follows                                                             *)

\* Every step keeps the whole invariant.
LEMMA InvStep == Inv /\ [Next]_vars => Inv'
<1> SUFFICES ASSUME Inv, [Next]_vars PROVE Inv'
  OBVIOUS
<1>1. TrimInv'
  BY TrimStep DEF Inv
<1>2. TypeInv' /\ PhaseInv' /\ WindowInv'
  BY TypeStep, PhaseStep, WindowStep
<1>3. CellsInv' /\ CacheInv'
  BY CellsStep, CacheStep
<1> QED
  BY <1>1, <1>2, <1>3 DEF Inv

\* The invariant of a turn holds always.
LEMMA TurnInvariant == Spec => []Inv
<1>1. Init => Inv
  BY InvInit
<1>2. Inv /\ [Next]_vars => Inv'
  BY InvStep
<1> QED
  BY <1>1, <1>2, PTL DEF Spec

\* Every variable of the holder and of the turn has its type.
THEOREM TypeCorrect == Spec => []TypeOK
<1>1. Inv => TypeOK
  <2> SUFFICES ASSUME Inv PROVE TypeOK
    OBVIOUS
  <2>1. Len(generated) \in 0 .. (IF phase = "idle" THEN NCtx ELSE Output(requested))
    <3>1. Len(generated) \in Nat /\ Output(requested) \in Nat /\ NCtx \in Nat
      BY LenProperties, OutputIs, BudgetAssumption DEF Inv, TypeInv
    <3>2. CASE phase = "idle"
      BY <3>1, <3>2 DEF Inv, WindowInv
    <3>3. CASE phase = "decode"
      BY <3>1, <3>3 DEF Inv, WindowInv
    <3>4. CASE phase \in {"format", "prefill"}
      <4>1. generated = << >> /\ Len(<< >>) = 0
        BY <3>4 DEF Inv, PhaseInv
      <4> QED
        BY <3>1, <3>4, <4>1
    <3> QED
      BY <3>2, <3>3, <3>4 DEF Inv, TypeInv, Phases
  <2> QED
    BY <2>1 DEF Inv, TypeInv, TypeOK
<1> QED
  BY <1>1, TurnInvariant, PTL

\* The tokens that a turn may take as evaluated are in the first cells: the
\* promise of reusable_prompt_tokens, whatever ended the earlier turns, unless one
\* with media left its tokens and nothing was cleared since.
THEOREM ReuseIsSound == Spec => []CachedTokensAreEvaluated
<1>1. Inv => CachedTokensAreEvaluated
  BY DEF Inv, CacheInv, CachedTokensAreEvaluated
<1> QED
  BY <1>1, TurnInvariant, PTL

\* Prompt and answer so far are in the cells, whatever of them was reused:
\* an answer continues the prompt of its own turn, with the same exception.
THEOREM AnswersAreTheirOwn == Spec => []AnswersThePrompt
<1>1. Inv => AnswersThePrompt
  BY DEF Inv, CellsInv
<1> QED
  BY <1>1, TurnInvariant, PTL

\* A token is sampled from the logits of exactly what is in the cells, also
\* when the whole prompt was in the cache.
THEOREM SamplesAreFresh == Spec => []LogitsAreFresh
<1>1. Inv => LogitsAreFresh
  BY DEF Inv, CellsInv
<1> QED
  BY <1>1, TurnInvariant, PTL

\* No turn writes a cell past the window (occupied_cells in the sampling loop,
\* and the reserve of prompt-budget.h before it).
THEOREM WindowIsNeverOverrun == Spec => []WindowIsKept
<1>1. Inv => WindowIsKept
  BY DEF Inv, WindowInv, WindowIsKept
<1> QED
  BY <1>1, TurnInvariant, PTL

-----------------------------------------------------------------------------
(* The text of an answer                                                    *)

BytesStep(tokens, upTo, n) == IF n = 0 THEN << >> ELSE upTo[n - 1] \o tokens[n]

\* One more token adds its bytes to those of the tokens before it.
LEMMA NextBytes ==
  ASSUME NEW tokens, NEW upTo, NEW n \in Nat
  PROVE  BytesStep(tokens, upTo, n + 1) = upTo[n] \o tokens[n + 1]
<1>1. n + 1 # 0 /\ n + 1 - 1 = n
  OBVIOUS
<1> DEFINE m == n + 1
<1>2. m # 0 /\ m - 1 = n
  BY <1>1
<1> HIDE DEF m
<1>3. BytesStep(tokens, upTo, m) = upTo[n] \o tokens[m]
  BY <1>2 DEF BytesStep
<1> QED
  BY <1>3 DEF m

\* Induction on numbers, with a set.
LEMMA FromZero ==
  ASSUME NEW S, 0 \in S, \A n \in Nat : n \in S => n + 1 \in S
  PROVE  Nat \subseteq S
<1> DEFINE Rest == Nat \ S
<1> SUFFICES ASSUME Rest # {} PROVE FALSE
  OBVIOUS
<1>1. PICK m \in Rest : \A k \in Rest : m =< k
  <2>1. Rest \subseteq Nat
    OBVIOUS
  <2> HIDE DEF Rest
  <2> QED
    BY <2>1, LeastNumber
<1>2. m - 1 \in Nat /\ m - 1 + 1 = m /\ ~(m =< m - 1)
  BY <1>1
<1> QED
  BY <1>1, <1>2

\* A function that satisfies the equation of the bytes exists.
LEMMA BytesExist ==
  ASSUME NEW tokens \in Seq(Seq(Byte))
  PROVE  \E f : f = [n \in 0 .. Len(tokens) |-> BytesStep(tokens, f, n)]
<1> DEFINE N == Len(tokens)
           Good(f, k) == \A n \in 0 .. N : n <= k => f[n] = BytesStep(tokens, f, n)
           S == {k \in Nat : \E f \in [0 .. N -> Seq(Byte)] : Good(f, k)}
<1>0. N \in Nat /\ \A n \in 1 .. N : tokens[n] \in Seq(Byte)
  OBVIOUS
<1> HIDE DEF N
<1>1. 0 \in S
  <2> DEFINE f == [n \in 0 .. N |-> << >>]
  <2>1. f \in [0 .. N -> Seq(Byte)]
    OBVIOUS
  <2>2. Good(f, 0)
    <3> SUFFICES ASSUME NEW n \in 0 .. N, n = 0 PROVE f[n] = BytesStep(tokens, f, n)
      BY <1>0
    <3>1. f[n] = << >>
      OBVIOUS
    <3> HIDE DEF f
    <3> QED
      BY <3>1 DEF BytesStep
  <2> QED
    BY <2>1, <2>2
<1>2. \A k \in Nat : k \in S => k + 1 \in S
  <2> SUFFICES ASSUME NEW k \in Nat, k \in S PROVE k + 1 \in S
    OBVIOUS
  <2>1. PICK f \in [0 .. N -> Seq(Byte)] : Good(f, k)
    OBVIOUS
  <2>2. CASE k + 1 > N
    <3>1. Good(f, k + 1)
      BY <1>0, <2>1, <2>2
    <3> HIDE DEF Good
    <3> QED
      BY <3>1
  <2>3. CASE k + 1 <= N
    <3> DEFINE x == f[k] \o tokens[k + 1]
               g == [n \in 0 .. N |-> IF n = k + 1 THEN x ELSE f[n]]
    <3>1. k \in 0 .. N /\ k + 1 \in 1 .. N /\ k + 1 - 1 = k /\ k + 1 # 0
      BY <1>0, <2>3
    <3>2. x \in Seq(Byte)
      <4>1. f[k] \in Seq(Byte) /\ tokens[k + 1] \in Seq(Byte)
        BY <1>0, <3>1
      <4> QED
        BY <4>1, ConcatProperties
    <3> HIDE DEF x
    <3>3. g \in [0 .. N -> Seq(Byte)]
      BY <3>2
    <3>4. ASSUME NEW n \in 0 .. N, n <= k + 1 PROVE g[n] = BytesStep(tokens, g, n)
      <4>1. n # 0 => n - 1 \in 0 .. N /\ n - 1 # k + 1 /\ g[n - 1] = f[n - 1]
        BY <1>0, <3>4
      <4>2. CASE n = k + 1
        <5>1. g[n] = x /\ n # 0 /\ n - 1 = k
          BY <3>1, <4>2
        <5> HIDE DEF g
        <5> QED
          BY <4>1, <4>2, <5>1 DEF BytesStep, x
      <4>3. CASE n # k + 1
        <5>1. g[n] = f[n] /\ n <= k
          BY <1>0, <3>4, <4>3
        <5>2. f[n] = BytesStep(tokens, f, n)
          BY <2>1, <5>1
        <5> HIDE DEF g
        <5> QED
          BY <4>1, <5>1, <5>2 DEF BytesStep
      <4> QED
        BY <4>2, <4>3
    <3>5. Good(g, k + 1)
      BY <3>4
    <3> HIDE DEF Good, g
    <3> QED
      BY <3>3, <3>5
  <2> HIDE DEF S
  <2> QED
    BY <1>0, <2>2, <2>3
<1>3. N \in S
  <2> HIDE DEF S
  <2> QED
    BY <1>0, <1>1, <1>2, FromZero
<1>4. PICK f \in [0 .. N -> Seq(Byte)] : Good(f, N)
  BY <1>3
<1>5. \A n \in 0 .. N : f[n] = BytesStep(tokens, f, n)
  BY <1>0, <1>4
<1>6. f = [n \in 0 .. N |-> BytesStep(tokens, f, n)]
  BY <1>5
<1> QED
  BY <1>6 DEF N

\* The bytes satisfy the equation that defines them.
LEMMA BytesAre ==
  ASSUME NEW tokens \in Seq(Seq(Byte))
  PROVE  \A n \in 0 .. Len(tokens) :
           BytesUpTo(tokens)[n] = BytesStep(tokens, BytesUpTo(tokens), n)
<1> DEFINE f == BytesUpTo(tokens)
<1>1. f = CHOOSE g : g = [n \in 0 .. Len(tokens) |-> BytesStep(tokens, g, n)]
  BY DEF BytesUpTo, BytesStep
<1>2. f = [n \in 0 .. Len(tokens) |-> BytesStep(tokens, f, n)]
  <2> HIDE DEF f
  <2> QED
    BY <1>1, BytesExist
<1> HIDE DEF f
<1>3. \A n \in 0 .. Len(tokens) : f[n] = BytesStep(tokens, f, n)
  BY <1>2
<1> QED
  BY <1>3 DEF f

\* The tokens' bytes are those of one token after the other.
LEMMA BytesOfEmpty == BytesOf(<< >>) = << >>
<1>1. << >> \in Seq(Seq(Byte)) /\ Len(<< >>) = 0 /\ 0 \in 0 .. Len(<< >>)
  OBVIOUS
<1>2. BytesUpTo(<< >>)[0] = BytesStep(<< >>, BytesUpTo(<< >>), 0)
  BY <1>1, BytesAre
<1> QED
  BY <1>1, <1>2 DEF BytesOf, BytesStep

\* A token at the end adds its bytes at the end.
LEMMA BytesOfAppend ==
  ASSUME NEW tokens \in Seq(Seq(Byte)), NEW piece \in Seq(Byte)
  PROVE  /\ BytesOf(tokens) \in Seq(Byte)
         /\ BytesOf(Append(tokens, piece)) = BytesOf(tokens) \o piece
<1> DEFINE t == Append(tokens, piece)
           N == Len(tokens)
           f == BytesUpTo(tokens)
           g == BytesUpTo(t)
           S == {n \in Nat : n <= N => f[n] \in Seq(Byte) /\ g[n] = f[n]}
<1>0. /\ t \in Seq(Seq(Byte)) /\ Len(t) = N + 1 /\ N \in Nat /\ t[N + 1] = piece
      /\ \A n \in 1 .. N : t[n] = tokens[n] /\ tokens[n] \in Seq(Byte)
  BY AppendProperties
<1>f. \A n \in 0 .. N : f[n] = BytesStep(tokens, f, n)
  BY BytesAre
<1>g. \A n \in 0 .. N + 1 : g[n] = BytesStep(t, g, n)
  BY <1>0, BytesAre
<1>b. BytesOf(tokens) = f[N] /\ BytesOf(t) = g[N + 1]
  BY <1>0 DEF BytesOf
<1> HIDE DEF t, N, f, g
<1>1. 0 \in S
  <2>1. f[0] = << >> /\ g[0] = << >>
    <3>1. 0 \in 0 .. N /\ 0 \in 0 .. N + 1
      BY <1>0
    <3> QED
      BY <1>f, <1>g, <3>1 DEF BytesStep
  <2>2. << >> \in Seq(Byte)
    OBVIOUS
  <2> QED
    BY <2>1, <2>2
<1>2. ASSUME NEW n \in Nat, n \in S PROVE n + 1 \in S
  <2> SUFFICES ASSUME n + 1 <= N PROVE f[n + 1] \in Seq(Byte) /\ g[n + 1] = f[n + 1]
    OBVIOUS
  <2>1. /\ n + 1 \in 1 .. N /\ n + 1 \in 0 .. N /\ n + 1 \in 0 .. N + 1
        /\ n + 1 - 1 = n /\ n + 1 # 0
    BY <1>0
  <2>2. f[n] \in Seq(Byte) /\ g[n] = f[n]
    BY <1>0, <1>2
  <2>3. f[n + 1] = f[n] \o tokens[n + 1]
    <3>1. f[n + 1] = BytesStep(tokens, f, n + 1)
      BY <1>f, <2>1
    <3> QED
      BY <3>1, NextBytes
  <2>4. g[n + 1] = g[n] \o t[n + 1]
    <3>1. g[n + 1] = BytesStep(t, g, n + 1)
      BY <1>g, <2>1
    <3> QED
      BY <3>1, NextBytes
  <2>5. t[n + 1] = tokens[n + 1] /\ tokens[n + 1] \in Seq(Byte)
    BY <1>0, <2>1
  <2>6. f[n] \o tokens[n + 1] \in Seq(Byte)
    BY <2>2, <2>5, ConcatProperties
  <2> QED
    BY <2>2, <2>3, <2>4, <2>5, <2>6
<1>3. N \in S
  <2> HIDE DEF S
  <2> QED
    BY <1>0, <1>1, <1>2, FromZero
<1>4. f[N] \in Seq(Byte) /\ g[N] = f[N]
  BY <1>3
<1>5. g[N + 1] = g[N] \o t[N + 1]
  <2>1. N + 1 \in 0 .. N + 1 /\ N + 1 - 1 = N /\ N + 1 # 0
    BY <1>0
  <2>2. g[N + 1] = BytesStep(t, g, N + 1)
    BY <1>g, <2>1
  <2> QED
    BY <1>0, <2>2, NextBytes
<1> QED
  BY <1>0, <1>b, <1>4, <1>5 DEF t

\* While an answer is decoded and nobody has stopped it, the bytes so far are
\* those of what is shown, which cut no character off, and those held back.
ShownInv ==
  LET bytes == BytesOf(generated) IN
  LeadsApart(bytes) =>
    /\ utf8_stream_buf \in Seq(Byte)
    /\ \E d \in Seq(Byte) :
         Closed(d) /\ shown = Decoded(d) /\ bytes = d \o utf8_stream_buf

StreamInv ==
  /\ generated \in Seq(Pieces)
  /\ phase # "idle" => result = "none"
  /\ phase \in {"format", "prefill"} =>
       generated = << >> /\ utf8_stream_buf = << >> /\ shown = << >>
  /\ phase = "decode" /\ ~stop => ShownInv
  /\ StreamedTextIsWhole

\* An empty answer.
LEMMA NothingShown ==
  ASSUME generated = << >>, utf8_stream_buf = << >>, shown = << >>
  PROVE  ShownInv
<1>1. BytesOf(generated) = << >>
  BY BytesOfEmpty
<1>2. << >> \in Seq(Byte) /\ << >> \o << >> = << >> /\ Len(<< >>) = 0
  OBVIOUS
<1>3. Closed(<< >>)
  BY <1>2 DEF Closed
<1>4. Decoded(<< >>) = << >>
  <2>1. TextFrom(<< >>)[1] = TextStep(<< >>, TextFrom(<< >>), 1)
    <3>1. 1 \in Positions
      BY DEF Positions
    <3> QED
      BY <1>2, <3>1, TextIs, Zenon
  <2> QED
    BY <1>2, <2>1 DEF Decoded, TextStep
<1> QED
  BY <1>1, <1>2, <1>3, <1>4 DEF ShownInv

\* A sampled token is shown as far as its characters are complete.
LEMMA SampleShows ==
  ASSUME StreamInv, NEW piece \in Pieces, Sample(piece), ~stop'
  PROVE  ShownInv'
<1> DEFINE b == BytesOf(generated)
           buf == utf8_stream_buf
           bytes == buf \o piece
           c == Complete(bytes)
           h == HeldBack(bytes)
<1>1. /\ generated \in Seq(Seq(Byte)) /\ piece \in Seq(Byte) /\ ShownInv
  <2>1. Pieces \subseteq Seq(Byte)
    BY TurnAssumption
  <2> QED
    BY <2>1 DEF StreamInv, Sample
<1>2. /\ generated' = Append(generated, piece) /\ shown' = shown \o Decoded(c)
      /\ utf8_stream_buf' = h
  BY DEF Sample
<1>3. b \in Seq(Byte) /\ BytesOf(generated)' = b \o piece
  BY <1>1, <1>2, BytesOfAppend
<1> SUFFICES ASSUME LeadsApart(b \o piece)
             PROVE  /\ h \in Seq(Byte)
                    /\ \E d \in Seq(Byte) :
                         Closed(d) /\ shown' = Decoded(d) /\ b \o piece = d \o h
  BY <1>2, <1>3 DEF ShownInv
<1>4. LeadsApart(b)
  BY <1>1, <1>3, PartsApart
<1>5. buf \in Seq(Byte)
  BY <1>1, <1>4 DEF ShownInv
<1>6. PICK d \in Seq(Byte) : Closed(d) /\ shown = Decoded(d) /\ b = d \o buf
  BY <1>1, <1>4 DEF ShownInv
<1> HIDE DEF b, buf
<1>7. bytes \in Seq(Byte) /\ b \o piece = d \o bytes
  BY <1>1, <1>5, <1>6, ConcatProperties, ConcatAssociative
<1>8. LeadsApart(bytes)
  BY <1>7, PartsApart
<1> HIDE DEF bytes
<1>9. c \in Seq(Byte) /\ h \in Seq(Byte) /\ bytes = c \o h /\ Closed(c)
  BY <1>7, <1>8, SplitIsClosed
<1> HIDE DEF c, h
<1>10. d \o c \in Seq(Byte) /\ Closed(d \o c) /\ Decoded(d \o c) = Decoded(d) \o Decoded(c)
  BY <1>6, <1>9, ClosedJoins, DecodedJoins, ConcatProperties
<1>11. d \o (c \o h) = (d \o c) \o h
  BY <1>9, ConcatAssociative
<1> QED
  BY <1>2, <1>6, <1>7, <1>9, <1>10, <1>11

\* At the end the rest is shown too.
LEMMA FinishShows ==
  ASSUME StreamInv, Finish, ~stop'
  PROVE  StreamedTextIsWhole'
<1> DEFINE b == BytesOf(generated)
           buf == utf8_stream_buf
<1>1. ~stop /\ shown' = shown \o Decoded(buf) /\ generated' = generated
  <2>1. /\ stop' \in {stop, TRUE} /\ generated' = generated
        /\ IF stop' THEN UNCHANGED <<shown, utf8_stream_buf>> ELSE Flush
    BY DEF Finish
  <2>2. shown' = shown \o Decoded(buf)
    BY <2>1, Zenon DEF Flush
  <2>3. ~stop
    BY <2>1, Zenon
  <2> QED
    BY <2>1, <2>2, <2>3
<1>2. ShownInv
  BY <1>1 DEF StreamInv, Finish
<1> SUFFICES ASSUME LeadsApart(b) PROVE shown' = Decoded(b)
  BY <1>1 DEF StreamedTextIsWhole
<1>3. buf \in Seq(Byte)
  BY <1>2 DEF ShownInv
<1>4. PICK d \in Seq(Byte) : Closed(d) /\ shown = Decoded(d) /\ b = d \o buf
  BY <1>2 DEF ShownInv
<1> HIDE DEF b, buf
<1> QED
  BY <1>1, <1>3, <1>4, DecodedJoins

\* Each step keeps what the text so far is made of.
LEMMA StreamStep == StreamInv /\ [Next]_vars => StreamInv'
<1> SUFFICES ASSUME StreamInv, [Next]_vars PROVE StreamInv'
  OBVIOUS
<1> USE DEF stream, locals, holder
<1>0. << >> \in Seq(Pieces) /\ generated \in Seq(Pieces)
  BY DEF StreamInv
<1>a. ASSUME ForgetStream, phase' # "decode",
             (phase' = "idle" /\ result' # "complete") \/ result' = "none"
      PROVE  StreamInv'
  BY <1>0, <1>a DEF ForgetStream, StreamInv, StreamedTextIsWhole
<1>b. ASSUME UNCHANGED <<stream, result, stop>>, phase \in {"format", "prefill"},
             phase' \in Phases
      PROVE  StreamInv'
  <2>1. generated = << >> /\ utf8_stream_buf = << >> /\ shown = << >>
    BY <1>b DEF StreamInv
  <2>2. ShownInv
    BY <2>1, NothingShown
  <2>3. ShownInv'
    BY <1>b, <2>2 DEF ShownInv
  <2>4. StreamedTextIsWhole'
    BY <1>b DEF StreamInv, StreamedTextIsWhole
  <2> QED
    BY <1>0, <1>b, <2>1, <2>3, <2>4 DEF StreamInv
<1>1. ASSUME NEW c \in Conversations, NEW r \in Requests, StartText(c, r) PROVE StreamInv'
  BY <1>a, <1>1 DEF StartText, Asked
<1>2. ASSUME NEW c \in Conversations, NEW r \in Requests, StartMedia(c, r) PROVE StreamInv'
  BY <1>a, <1>2 DEF StartMedia, Asked
<1>3. ASSUME Turn \/ Throw PROVE StreamInv'
  <2>1. CASE DropOldestTurn
    BY <1>b, <2>1 DEF DropOldestTurn, Phases
  <2>2. CASE BeginPrefill
    BY <1>b, <2>2 DEF BeginPrefill, Phases
  <2>3. CASE PrefillBatch
    BY <1>b, <2>3 DEF PrefillBatch, Phases
  <2>4. CASE EndPrefill
    BY <1>b, <2>4 DEF EndPrefill, Phases
  <2>5. CASE Encode
    BY <1>b, <2>5 DEF Encode, Phases
  <2>6. CASE EvalMedia
    BY <1>b, <2>6 DEF EvalMedia, Phases
  <2>7. CASE \/ Refuse \/ PrefillFails \/ EncodeFails \/ EvalMediaFails
             \/ HitContextLimit \/ Abort \/ Throw
    <3>1. ForgetStream /\ phase' = "idle" /\ result' \in {"refused", "failed"}
      BY <2>7 DEF Refuse, PrefillFails, EncodeFails, EvalMediaFails, HitContextLimit,
         Abort, Throw, Return
    <3> QED
      BY <1>a, <3>1
  <2>8. ASSUME NEW piece \in Pieces, Sample(piece) PROVE StreamInv'
    <3>1. /\ phase = "decode" /\ phase' = "decode" /\ ~stop /\ result' = result
          /\ generated' = Append(generated, piece)
      BY <2>8 DEF Sample
    <3>2. generated' \in Seq(Pieces)
      BY <1>0, <3>1
    <3>3. ~stop' => ShownInv'
      BY <2>8, SampleShows
    <3>4. result' = "none" /\ StreamedTextIsWhole'
      BY <3>1 DEF StreamInv, StreamedTextIsWhole
    <3> QED
      BY <3>1, <3>2, <3>3, <3>4 DEF StreamInv
  <2>9. CASE Finish
    <3>1. phase' = "idle" /\ generated' = generated
      BY <2>9 DEF Finish, Return
    <3>2. StreamedTextIsWhole'
      <4>1. CASE stop'
        BY <4>1 DEF StreamedTextIsWhole
      <4>2. CASE ~stop'
        BY <2>9, <4>2, FinishShows
      <4> QED
        BY <4>1, <4>2
    <3> QED
      BY <1>0, <3>1, <3>2 DEF StreamInv
  <2> QED
    BY <1>3, <2>1, <2>2, <2>3, <2>4, <2>5, <2>6, <2>7, <2>8, <2>9 DEF Turn
<1>4. ASSUME Stop PROVE StreamInv'
  BY <1>4 DEF Stop, StreamInv, StreamedTextIsWhole
<1>5. ASSUME WarmUp \/ ResetAfterValidation PROVE StreamInv'
  BY <1>a, <1>5 DEF WarmUp, ResetAfterValidation
<1>6. ASSUME NEW c \in Conversations, Probe(c) PROVE StreamInv'
  BY <1>a, <1>6 DEF Probe
<1>7. CASE UNCHANGED vars
  <2>1. UNCHANGED <<generated, utf8_stream_buf, shown, phase, stop, result>>
    BY <1>7 DEF vars
  <2> QED
    BY <2>1 DEF StreamInv, ShownInv, StreamedTextIsWhole
<1> QED
  BY <1>1, <1>2, <1>3, <1>4, <1>5, <1>6, <1>7 DEF Next

\* However the tokens cut its characters, the text shown by a completed turn is
\* the text that all its bytes decode to, for any vocabulary of pieces of bytes,
\* unless the model begins a character of several bytes inside another one.
THEOREM TextIsWhole == Spec => []StreamedTextIsWhole
<1>1. Init => StreamInv
  <2> SUFFICES ASSUME Init PROVE StreamInv
    OBVIOUS
  <2>1. << >> \in Seq(Pieces)
    OBVIOUS
  <2> QED
    BY <2>1 DEF Init, StreamInv, StreamedTextIsWhole
<1>2. StreamInv => StreamedTextIsWhole
  BY DEF StreamInv
<1> QED
  BY <1>1, <1>2, StreamStep, PTL DEF Spec
===============================================================================
