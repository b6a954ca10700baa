--------------------------- MODULE MCAtomicJsonFile ---------------------------
(* Any sequence of writes of a few documents, reads and deletes of one file. *)
EXTENDS AtomicJsonFile

CONSTANTS d1, d2, d3
==============================================================================
