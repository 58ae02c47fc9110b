------------------------------ MODULE MCGroups ------------------------------
(* Two users, who may both create, join and leave, and two groups.          *)
EXTENDS Groups
=============================================================================
