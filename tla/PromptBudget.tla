----------------------------- MODULE PromptBudget ------------------------------
(***************************************************************************)
(* How cpp/llama-jni.cpp fits a conversation into the context window:       *)
(* prompt-budget.h, prompt-cache.h and the trimming in                      *)
(* format_and_tokenize_prompt.  A message is its role and its body, which   *)
(* nothing here looks into; a prompt is what the model's chat template and  *)
(* vocabulary make of a list of messages, and may be any tokens.            *)
(***************************************************************************)
EXTENDS Naturals, Sequences, FiniteSetsExt

CONSTANTS
  NCtx,           \* the context window, in tokens
  DefaultOutput,  \* the output expected when none is requested (1024)
  OutputFloor     \* the least that is set aside for an answer (128)

ASSUME BudgetAssumption ==
  /\ NCtx \in Nat /\ DefaultOutput \in Nat /\ OutputFloor \in Nat
  /\ DefaultOutput > 0 /\ OutputFloor > 0

Smaller(a, b) == IF a < b THEN a ELSE b
Larger(a, b) == IF a < b THEN b ELSE a

Output(requested) == IF requested > 0 THEN requested ELSE DefaultOutput

OutputTokenReserve(context, requested) ==
  Smaller(Output(requested), Larger(OutputFloor, context \div 4))

-----------------------------------------------------------------------------
(* Turns *)

\* The last user's message, or past the end.
LatestUser(msgs) ==
  Max({0} \cup {i \in DOMAIN msgs : msgs[i].role = "user"})

LatestUserOrEnd(msgs) ==
  IF LatestUser(msgs) = 0 THEN Len(msgs) + 1 ELSE LatestUser(msgs)

\* The first message behind the leading system messages, or past the end.
FirstSpoken(msgs) ==
  Min({Len(msgs) + 1} \cup {i \in DOMAIN msgs : msgs[i].role # "system"})

EndOfOldestTurn(msgs) ==
  Min({LatestUserOrEnd(msgs)}
        \cup {i \in FirstSpoken(msgs) + 1 .. LatestUserOrEnd(msgs) - 1 :
                msgs[i].role = "user"})

\* Mutant: the oldest message only, without its answer.
OldestMessageOnly(msgs) ==
  IF FirstSpoken(msgs) >= LatestUserOrEnd(msgs) THEN 0 ELSE 1

OldestHistoryTurnSize(msgs) ==
  IF FirstSpoken(msgs) >= LatestUserOrEnd(msgs) THEN 0
  ELSE Cardinality({i \in FirstSpoken(msgs) .. EndOfOldestTurn(msgs) - 1 :
                      msgs[i].role # "system"})

WithoutOldestTurn(msgs) ==
  SubSeq(msgs, 1, FirstSpoken(msgs) - 1)
    \o SubSeq(msgs, FirstSpoken(msgs) + OldestHistoryTurnSize(msgs), Len(msgs))

-----------------------------------------------------------------------------
(* Prompts *)

\* Mutant: the whole prompt may be reused.
WholePromptReusable(cached, prompt) ==
  Max({n \in 0 .. Smaller(Len(cached), Len(prompt)) : \A i \in 1 .. n : cached[i] = prompt[i]})

\* The common prefix, but never the whole prompt: one token is left to evaluate.
ReusablePromptTokens(cached, prompt) ==
  IF prompt = << >> THEN 0
  ELSE Max({n \in 0 .. Smaller(Len(cached), Len(prompt) - 1) :
              \A i \in 1 .. n : cached[i] = prompt[i]})

===============================================================================
