--------------------------- MODULE MCAdminSession ---------------------------
(* AdminSession for TLC: model values are interchangeable within their set. *)
EXTENDS AdminSession, TLC

Symmetry == Permutations(Clients) \cup Permutations(Workers) \cup Permutations(Jti)

=============================================================================
