------------------------------ MODULE MCChatStore ------------------------------
(* One chat stored, a new one, and one in a backup.                          *)
EXTENDS ChatStore

CONSTANTS old, new, backedUp, v1
===============================================================================
