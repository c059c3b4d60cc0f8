------------------------------- MODULE MCRbac -------------------------------
(* RbacCheck for TLC: what the seed has made, and an ordinary administrator. *)
EXTENDS RbacCheck

CONSTANTS admin0, a1, super0, r1, m1, p1

TwoAdmins == [adminRole |-> {<<admin0, super0>>, <<a1, r1>>},
              roleMenu  |-> {<<r1, m1>>},
              menuPerm  |-> {<<m1, p1>>},
              covers    |-> [p \in Perms |-> Routes]]

=============================================================================
