----------------------------- MODULE MCLlamaEngine -----------------------------
(* One engine called from a few threads.                                     *)
EXTENDS LlamaEngine, TLC

CONSTANTS t1, t2, t3

===============================================================================
