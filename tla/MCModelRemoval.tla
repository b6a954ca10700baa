---------------------------- MODULE MCModelRemoval ----------------------------
(* One model, two attempts, one other call, one death and one fault.         *)
EXTENDS ModelRemoval

CONSTANT c1

===============================================================================
