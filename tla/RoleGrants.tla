----------------------------- MODULE RoleGrants -----------------------------
(* What certification promises to a user: they apply for one role at a time  *)
(* that they do not hold, an audit refuses or approves that application, and *)
(* nothing but an approval gives a role, takes one away or ends a            *)
(* certification.  Nothing is promised any more to a user two of whose       *)
(* requests overlapped or of whom an audit was repeated.                     *)
CONSTANTS Users, Roles

VARIABLES
    held,         \* the roles of a user
    waiting,      \* the roles a user has applied for
    certified,    \* is there an application of the user that PASSed
    unknown       \* users to whom nothing is promised any more

grantVars == <<held, waiting, certified, unknown>>

Init ==
    /\ held = [u \in Users |-> {}]
    /\ waiting = [u \in Users |-> {}]
    /\ certified = [u \in Users |-> FALSE]
    /\ unknown = {}

Apply(u, role) ==
    /\ u \notin unknown
    /\ waiting[u] = {}
    /\ role \notin held[u]
    /\ waiting' = [waiting EXCEPT ![u] = {role}]
    /\ UNCHANGED <<held, certified, unknown>>

Approve(u, role) ==
    /\ waiting[u] = {role}
    /\ held' = [held EXCEPT ![u] = @ \cup {role}]
    /\ waiting' = [waiting EXCEPT ![u] = {}]
    /\ certified' = [certified EXCEPT ![u] = TRUE]
    /\ UNCHANGED unknown

Refuse(u) ==
    /\ waiting[u] # {}
    /\ waiting' = [waiting EXCEPT ![u] = {}]
    /\ UNCHANGED <<held, certified, unknown>>

Forget(u) ==
    /\ unknown' = unknown \cup {u}
    /\ held' = [held EXCEPT ![u] = {}]
    /\ waiting' = [waiting EXCEPT ![u] = {}]
    /\ certified' = [certified EXCEPT ![u] = FALSE]

Next ==
    \E u \in Users :
        \/ \E role \in Roles : Apply(u, role) \/ Approve(u, role)
        \/ Refuse(u)
        \/ Forget(u)

Spec == Init /\ [][Next]_grantVars
=============================================================================
