--------------------------- MODULE TeamLeadership ---------------------------
(***************************************************************************)
(* What the handlers of team membership promise about the leader of a      *)
(* team, seen from outside: a team is founded with a leader, the           *)
(* leadership passes from one user to another, and the team is dissolved   *)
(* by the leader it has. A leader may also go without a successor; such a  *)
(* team keeps existing and nothing can ever give it a leader or dissolve   *)
(* it again.                                                               *)
(***************************************************************************)
CONSTANTS TeamIds, Users

VARIABLES
    state,          \* state[t]: has team t been founded, has it been dissolved
    leaders         \* leaders[t]: the users who lead t

leadershipVars == <<state, leaders>>

Init ==
    /\ state = [t \in TeamIds |-> "absent"]
    /\ leaders = [t \in TeamIds |-> {}]

Found(t, u) ==
    /\ state[t] = "absent"
    /\ state' = [state EXCEPT ![t] = "live"]
    /\ leaders' = [leaders EXCEPT ![t] = {u}]

HandOver(t, u, v) ==
    /\ state[t] = "live"
    /\ leaders[t] = {u}
    /\ leaders' = [leaders EXCEPT ![t] = {v}]
    /\ UNCHANGED state

GoWithoutSuccessor(t, u) ==
    /\ state[t] = "live"
    /\ leaders[t] = {u}
    /\ leaders' = [leaders EXCEPT ![t] = {}]
    /\ UNCHANGED state

Dissolve(t, u) ==
    /\ state[t] = "live"
    /\ leaders[t] = {u}
    /\ state' = [state EXCEPT ![t] = "removed"]
    /\ leaders' = [leaders EXCEPT ![t] = {}]

Next ==
    \E t \in TeamIds, u \in Users :
        \/ Found(t, u)
        \/ \E v \in Users : HandOver(t, u, v)
        \/ GoWithoutSuccessor(t, u)
        \/ Dissolve(t, u)

Spec == Init /\ [][Next]_leadershipVars
=============================================================================
