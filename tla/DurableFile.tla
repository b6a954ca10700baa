----------------------------- MODULE DurableFile -----------------------------
(***************************************************************************)
(* What the stores of the app expect of utils/AtomicJsonFile.kt: a document *)
(* that is replaced or removed at one instant or not at all, whatever       *)
(* fails and whenever the process dies.                                     *)
(***************************************************************************)
CONSTANTS
  Documents,  \* what may be written
  Missing,    \* there is no document
  Nothing     \* no update is under way

VARIABLES
  stored,     \* the document a read finds
  update,     \* the document being written, Missing for a removal, or Nothing
  committed   \* has the update under way taken place?

vars == <<stored, update, committed>>

Init ==
  /\ stored \in Documents \cup {Missing}
  /\ update = Nothing
  /\ committed = FALSE

Begin ==
  /\ update = Nothing
  /\ update' \in Documents \cup {Missing}
  /\ UNCHANGED <<stored, committed>>

Commit ==
  /\ update # Nothing /\ ~committed
  /\ stored' = update
  /\ committed' = TRUE
  /\ UNCHANGED update

\* Success is returned only when committed; a failure or a crash may come late.
End ==
  /\ update # Nothing
  /\ update' = Nothing
  /\ committed' = FALSE
  /\ UNCHANGED stored

Next == Begin \/ Commit \/ End

Spec == Init /\ [][Next]_vars
==============================================================================
