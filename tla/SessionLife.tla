----------------------------- MODULE SessionLife ----------------------------
(***************************************************************************)
(* What a session of an administrator is to everybody but the code: it is  *)
(* opened at most once, its deadline is set then and never moved, and once *)
(* it has ended it stays so.                                               *)
(***************************************************************************)
EXTENDS Integers

CONSTANT Sessions

VARIABLES
    stage,      \* of each session
    deadline    \* of each open session, 0 for the others

life == <<stage, deadline>>

Init == stage = [s \in Sessions |-> "unused"] /\ deadline = [s \in Sessions |-> 0]

\* A name can also be used up without a session.
MayBecome(t) == CASE t = "unused"  -> {"unused", "opening", "ended"}
                  [] t = "opening" -> {"opening", "open", "ended"}
                  [] t = "open"    -> {"open", "ended"}
                  [] OTHER         -> {"ended"}

Next ==
    /\ \A s \in Sessions :
        /\ stage'[s] \in MayBecome(stage[s])
        /\ stage[s] = "open" /\ stage'[s] = "open" => deadline'[s] = deadline[s]

Spec == Init /\ [][Next]_life

=============================================================================
