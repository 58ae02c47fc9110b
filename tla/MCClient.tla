------------------------------ MODULE MCClient ------------------------------
(* One client that two users share.                                         *)
EXTENDS Client, TLC
=============================================================================
