---------------------------- MODULE MCServerCalls ---------------------------
(* ServerCalls for TLC: two users at first, pages of one. *)
EXTENDS ServerCalls, TLC

CONSTANTS n1, n2, n3

TwoUsers == <<n1, n2>>

Symmetry == Permutations(Workers) \cup Permutations(Labels)

=============================================================================
