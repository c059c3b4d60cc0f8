---------------------------- MODULE MCServerLink ----------------------------
(* ServerLink for TLC: two devices of one user. *)
EXTENDS ServerLink, TLC

CONSTANTS u1, d1, d2

OneUser    == {u1}
TwoDevices == {d1, d2}
AllOfOne   == [d \in TwoDevices |-> u1]

Symmetry == Permutations(TwoDevices) \cup Permutations(Workers)

=============================================================================
