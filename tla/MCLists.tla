------------------------------ MODULE MCLists -------------------------------
(* A client that two users share, each of whom has another one too.         *)
EXTENDS Lists, TLC

UserSymmetry == Permutations(User)
=============================================================================
