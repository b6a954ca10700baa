------------------------------ MODULE Utf8Stream -------------------------------
(***************************************************************************)
(* The streaming of text out of cpp/llama-jni.cpp.  A token's piece is a    *)
(* few bytes and may end inside a character: extract_complete_utf8 holds    *)
(* back what is not complete, and safe_new_string decodes what is emitted.  *)
(* A byte is its class: "A" (ASCII), "L2", "L3", "L4" (the lead of a        *)
(* character of that many bytes), "C" (a continuation) or "X" (none of      *)
(* these).  A decoded character is the sequence of its bytes.               *)
(***************************************************************************)
EXTENDS Naturals, Sequences

Byte == {"A", "L2", "L3", "L4", "C", "X"}
Positions == Nat \ {0}

\* The length a first byte announces; 0 for a byte that cannot be the first.
CharLen(byte) ==
  CASE byte = "A" -> 1
    [] byte = "L2" -> 2
    [] byte = "L3" -> 3
    [] byte = "L4" -> 4
    [] OTHER -> 0

Continues(bytes, i, n) == \A j \in i + 1 .. i + n - 1 : bytes[j] = "C"

\* Mutant: a lead byte at the end is passed on by itself.
NothingHeldBack(bytes) ==
  LET scan[i \in Positions] ==
        IF i > Len(bytes) THEN i
        ELSE LET n == CharLen(bytes[i]) IN
             IF n > 0 /\ i + n - 1 <= Len(bytes) /\ Continues(bytes, i, n) THEN scan[i + n]
             ELSE scan[i + 1]
  IN scan

\* Where the scan of extract_complete_utf8 ends that has come to a position.
ScanEnd(bytes) ==
  LET scan[i \in Positions] ==
        IF i > Len(bytes) THEN i
        ELSE LET n == CharLen(bytes[i]) IN
             IF n = 0 THEN scan[i + 1]
             ELSE IF i + n - 1 > Len(bytes) THEN i
             ELSE IF Continues(bytes, i, n) THEN scan[i + n]
             ELSE scan[i + 1]
  IN scan

FirstHeldBack(bytes) == ScanEnd(bytes)[1]
Complete(bytes) == SubSeq(bytes, 1, FirstHeldBack(bytes) - 1)
HeldBack(bytes) == SubSeq(bytes, FirstHeldBack(bytes), Len(bytes))

\* The characters safe_new_string makes of the bytes from a position on: a broken
\* character is skipped by its first byte, one that the end cuts off ends the text.
TextFrom(bytes) ==
  LET from[i \in Positions] ==
        IF i > Len(bytes) THEN << >>
        ELSE LET n == CharLen(bytes[i]) IN
             IF n = 0 THEN from[i + 1]
             ELSE IF i + n - 1 > Len(bytes) THEN << >>
             ELSE IF Continues(bytes, i, n)
                    THEN <<SubSeq(bytes, i, i + n - 1)>> \o from[i + n]
             ELSE from[i + 1]
  IN from

Decoded(bytes) == TextFrom(bytes)[1]

\* No character of several bytes begins within the bytes that another announces.
LeadsApart(bytes) ==
  \A i \in DOMAIN bytes :
    \A j \in i + 1 .. i + CharLen(bytes[i]) - 1 :
      j \in DOMAIN bytes => CharLen(bytes[j]) <= 1

===============================================================================
