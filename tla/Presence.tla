------------------------------ MODULE Presence ------------------------------
(***************************************************************************)
(* What the operators of the admin service are promised of a device's      *)
(* connection: nobody who may not connect gets in, and a connection that   *)
(* its rows no longer allow ends, or its ending was lost on the way.       *)
(***************************************************************************)
CONSTANT Devices

VARIABLE place     \* of each device

\* Not connected; connected as its rows allow; connected although they do not
\* any more; connected, and a command to cut it off was not sent or got lost.
Places == {"away", "welcome", "due", "forgotten"}

Init == place = [d \in Devices |-> "away"]

\* A device only arrives as welcome, one that is forgotten stays so until it
\* leaves by itself.
Follows(p) == CASE p = "away"      -> {"away", "welcome"}
                [] p = "forgotten" -> {"forgotten", "away"}
                [] OTHER           -> Places

Next ==
    /\ place' \in [Devices -> Places]
    /\ \A d \in Devices : place'[d] \in Follows(place[d])

\* Whoever is due does not stay so.
Prompt == \A d \in Devices : (place[d] = "due") ~> (place[d] # "due")

Spec == Init /\ [][Next]_place /\ Prompt

=============================================================================
