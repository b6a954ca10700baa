------------------------- MODULE MCRuntimeCoordinator -------------------------
(* A chat and a vision view model, their successors, and the benchmark.     *)
EXTENDS RuntimeCoordinator, TLC

CONSTANTS chat1, chat2, vision1, bench

MCOwners == {"Chat", "Vision", "Benchmark"}

MCOwnerOf == [i \in Instances |->
  CASE i \in {chat1, chat2} -> "Chat" [] i = vision1 -> "Vision"
    [] i = bench -> "Benchmark"]

Symmetry == Permutations(Callers)
==============================================================================
