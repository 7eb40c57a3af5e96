--------------------------- MODULE Certification ---------------------------
(* Applications of users for a role, and their audits.  Every request reads  *)
(* first and writes later: an application uploads two photos in between, an  *)
(* audit, an edit of the profile and one of the tags write back whole rows.  *)
EXTENDS Integers

CONSTANTS
    Users,
    Roles,        \* the bits of user.roles one can apply for
    Ids,          \* the ids of rows of user_info that are ever drawn
    Requests      \* the requests that are ever sent

ASSUME RolesAreBits == Roles \subseteq {1, 2, 4, 8}

VARIABLES
    info,         \* table user_info
    roles,        \* the column roles of table user
    request,      \* the requests, and what those under way have read
    granted,      \* history: the roles approved in an audit of an application
    stale,        \* history: users of whom a request wrote what it read before a change
    reaudited     \* history: users with an audit of a row that was not WAITING

vars == <<info, roles, request, granted, stale, reaudited>>

\* user.getRoles() & role
Has(mask, role) == (mask \div role) % 2 = 1

NoInfo == [status |-> "none", live |-> FALSE]

Info ==
    [uid: Users, role: Nat, status: {"WAITING", "PASS", "FAIL"}, live: BOOLEAN]

New == [at |-> "new"]
Done == [at |-> "done"]

Request ==
    {New, Done}
      \cup [at: {"applying"}, uid: Users, role: Roles, waiting: SUBSET Ids, roles: Nat]
      \cup [at: {"auditing"}, id: Ids, verdict: {"PASS", "FAIL"}, seen: Info, roles: Nat]
      \cup [at: {"editing"}, uid: Users, roles: Nat]
      \cup [at: {"tagging"}, id: Ids, seen: Info]

TypeOK ==
    /\ info \in [Ids -> {NoInfo} \cup Info]
    /\ roles \in [Users -> Nat]
    /\ request \in [Requests -> Request]
    /\ granted \in [Users -> SUBSET Roles]
    /\ stale \subseteq Users
    /\ reaudited \subseteq Users

Init ==
    /\ info = [i \in Ids |-> NoInfo]
    /\ roles = [u \in Users |-> 0]
    /\ request = [r \in Requests |-> New]
    /\ granted = [u \in Users |-> {}]
    /\ stale = {}
    /\ reaudited = {}

\* The rows that are not deleted.
Rows(u, status) ==
    {i \in Ids : info[i].live /\ info[i].uid = u /\ info[i].status = status}

\* A row that is deleted is not updated.
UpdateById(rows, i, new) == IF rows[i].live THEN [rows EXCEPT ![i] = new] ELSE rows

MarkIf(users, u, cond) == IF cond THEN users \cup {u} ELSE users

----------------------------------------------------------------------------
(* Applying.                                                                 *)

Applying(r, u, role) ==
    /\ request[r] = New
    /\ request' = [request EXCEPT ![r] =
           [at |-> "applying", uid |-> u, role |-> role,
            waiting |-> Rows(u, "WAITING"), roles |-> roles[u]]]
    /\ UNCHANGED <<info, roles, granted, stale, reaudited>>

\* Mutant: an application while another one waits is accepted.
ApplyAgain(r, u, role) ==
    /\ ~Has(roles[u], role)
    /\ Applying(r, u, role)

\* Mutant: the roles of the user are not looked at.
ApplyForAny(r, u, role) ==
    /\ Rows(u, "WAITING") = {}
    /\ Applying(r, u, role)

ApplyForCertification(r, u, role) ==
    /\ Rows(u, "WAITING") = {}
    /\ ~Has(roles[u], role)
    /\ Applying(r, u, role)

\* After the uploads; the checks are not repeated.
Save(r, i) ==
    LET u == request[r].uid
        role == request[r].role
    IN  /\ request[r].at = "applying"
        /\ info[i] = NoInfo
        /\ info' = [info EXCEPT ![i] = [uid |-> u, role |-> role, status |-> "WAITING", live |-> TRUE]]
        /\ request' = [request EXCEPT ![r] = Done]
        /\ stale' = MarkIf(stale, u,
               Rows(u, "WAITING") # request[r].waiting \/ roles[u] # request[r].roles)
        /\ UNCHANGED <<roles, granted, reaudited>>

----------------------------------------------------------------------------
(* Auditing.  Nothing asks whether the row is WAITING.                       *)

VerifyUserInfo(r, i, verdict) ==
    /\ request[r] = New
    /\ info[i].live
    /\ request' = [request EXCEPT ![r] =
           [at |-> "auditing", id |-> i, verdict |-> verdict,
            seen |-> info[i], roles |-> roles[info[i].uid]]]
    /\ UNCHANGED <<info, roles, granted, stale, reaudited>>

\* Mutant: the rows that PASS stay.
RemovedNone(u) == info

\* The rows that remain when those that PASS are removed.
Removed(u) == [j \in Ids |-> IF j \in Rows(u, "PASS") THEN [info[j] EXCEPT !.live = FALSE] ELSE info[j]]

\* Mutant: the rows that PASS are removed with the refused application.
RefuseAll(r) ==
    LET i == request[r].id
        seen == request[r].seen
    IN  /\ request[r].at = "auditing"
        /\ request[r].verdict = "FAIL"
        /\ info' = UpdateById(Removed(seen.uid), i, [seen EXCEPT !.status = "FAIL"])
        /\ request' = [request EXCEPT ![r] = Done]
        /\ stale' = MarkIf(stale, seen.uid, info[i].live /\ info[i] # seen)
        /\ reaudited' = MarkIf(reaudited, seen.uid, seen.status # "WAITING")
        /\ UNCHANGED <<roles, granted>>

Refuse(r) ==
    LET i == request[r].id
        seen == request[r].seen
    IN  /\ request[r].at = "auditing"
        /\ request[r].verdict = "FAIL"
        /\ info' = UpdateById(info, i, [seen EXCEPT !.status = "FAIL"])
        /\ request' = [request EXCEPT ![r] = Done]
        /\ stale' = MarkIf(stale, seen.uid, info[i].live /\ info[i] # seen)
        /\ reaudited' = MarkIf(reaudited, seen.uid, seen.status # "WAITING")
        /\ UNCHANGED <<roles, granted>>

\* Mutant: the role replaces the roles of the user.
ApproveReplaces(r) ==
    LET i == request[r].id
        seen == request[r].seen
        u == seen.uid
    IN  /\ request[r].at = "auditing"
        /\ request[r].verdict = "PASS"
        /\ info' = UpdateById(Removed(u), i, [seen EXCEPT !.status = "PASS"])
        /\ roles' = [roles EXCEPT ![u] = seen.role]
        /\ request' = [request EXCEPT ![r] = Done]
        /\ granted' = IF seen.status = "WAITING"
                        THEN [granted EXCEPT ![u] = @ \cup {seen.role}]
                        ELSE granted
        /\ stale' = MarkIf(stale, u, info[i] # seen \/ roles[u] # request[r].roles)
        /\ reaudited' = MarkIf(reaudited, u, seen.status # "WAITING")

Approve(r) ==
    LET i == request[r].id
        seen == request[r].seen
        u == seen.uid
        sum == request[r].roles + seen.role
    IN  /\ request[r].at = "auditing"
        /\ request[r].verdict = "PASS"
        /\ info' = UpdateById(Removed(u), i, [seen EXCEPT !.role = sum, !.status = "PASS"])
        /\ roles' = [roles EXCEPT ![u] = sum]
        /\ request' = [request EXCEPT ![r] = Done]
        /\ granted' = IF seen.status = "WAITING"
                        THEN [granted EXCEPT ![u] = @ \cup {seen.role}]
                        ELSE granted
        /\ stale' = MarkIf(stale, u, info[i] # seen \/ roles[u] # request[r].roles)
        /\ reaudited' = MarkIf(reaudited, u, seen.status # "WAITING")

----------------------------------------------------------------------------
(* Requests that change something else in the same rows.                     *)

\* updateUserAvatar and bindEmail
EditUser(r, u) ==
    /\ request[r] = New
    /\ request' = [request EXCEPT ![r] = [at |-> "editing", uid |-> u, roles |-> roles[u]]]
    /\ UNCHANGED <<info, roles, granted, stale, reaudited>>

WriteUser(r) ==
    LET u == request[r].uid
    IN  /\ request[r].at = "editing"
        /\ roles' = [roles EXCEPT ![u] = request[r].roles]
        /\ request' = [request EXCEPT ![r] = Done]
        /\ stale' = MarkIf(stale, u, roles[u] # request[r].roles)
        /\ UNCHANGED <<info, granted, reaudited>>

\* getOneActivatedByUid throws when it finds two rows.
SaveUserTags(r, i) ==
    /\ request[r] = New
    /\ info[i].live
    /\ Rows(info[i].uid, "PASS") = {i}
    /\ request' = [request EXCEPT ![r] = [at |-> "tagging", id |-> i, seen |-> info[i]]]
    /\ UNCHANGED <<info, roles, granted, stale, reaudited>>

WriteInfo(r) ==
    LET i == request[r].id
        seen == request[r].seen
    IN  /\ request[r].at = "tagging"
        /\ info' = UpdateById(info, i, seen)
        /\ request' = [request EXCEPT ![r] = Done]
        /\ stale' = MarkIf(stale, seen.uid, info[i].live /\ info[i] # seen)
        /\ UNCHANGED <<roles, granted, reaudited>>

----------------------------------------------------------------------------
Next ==
    \E r \in Requests :
        \/ \E u \in Users, role \in Roles : ApplyForCertification(r, u, role)
        \/ \E i \in Ids : Save(r, i)
        \/ \E i \in Ids, verdict \in {"PASS", "FAIL"} : VerifyUserInfo(r, i, verdict)
        \/ Refuse(r)
        \/ Approve(r)
        \/ \E u \in Users : EditUser(r, u)
        \/ WriteUser(r)
        \/ \E i \in Ids : SaveUserTags(r, i)
        \/ WriteInfo(r)

Spec == Init /\ [][Next]_vars

----------------------------------------------------------------------------
(* Properties.                                                               *)

\* getOneActivatedByUid finds one row at most, and that row carries the roles of
\* the user (verifyUserInfo writes both): unless a request wrote back what had
\* changed since it was read.  Audits may be repeated and reversed at will.
PassCarriesRoles ==
    \A u \in Users \ stale :
        /\ \A i, j \in Rows(u, "PASS") : i = j
        /\ \A i \in Rows(u, "PASS") : info[i].role = roles[u]

\* When, in addition, only applications that wait are audited, a user has exactly
\* the roles that were approved, and is certified as soon as there is one.
RolesAreGranted ==
    \A u \in Users \ (stale \cup reaudited) :
        /\ \A role \in Roles : Has(roles[u], role) <=> role \in granted[u]
        /\ granted[u] # {} <=> Rows(u, "PASS") # {}

\* A user waits for at most one audit (the count in applyForCertification), and
\* for a role that they do not have yet.
WaitsForOne ==
    \A u \in Users \ (stale \cup reaudited) :
        /\ \A i, j \in Rows(u, "WAITING") : i = j
        /\ \A i \in Rows(u, "WAITING") : ~Has(roles[u], info[i].role)

\* A row that PASSes is removed only by the approval of another application of
\* the user: nobody is certified at one moment and not at the next, unless an
\* audit was repeated or requests overlapped.
StaysCertified ==
    [][\A u \in Users \ (stale' \cup reaudited') :
           Rows(u, "PASS") # {} => Rows(u, "PASS")' # {}]_vars

\* The requests of a user, taken one by one, are those of RoleGrants: a role comes
\* from the approval of the one application that waits and none is ever lost,
\* although each write puts back a whole row that was read before.
Unknown == stale \cup reaudited
HeldBy(u) == IF u \in Unknown THEN {} ELSE {role \in Roles : Has(roles[u], role)}
WaitsFor(u) == IF u \in Unknown THEN {} ELSE {info[i].role : i \in Rows(u, "WAITING")}
Certified(u) == u \notin Unknown /\ Rows(u, "PASS") # {}
Grants == INSTANCE RoleGrants
              WITH held <- [u \in Users |-> HeldBy(u)],
                   waiting <- [u \in Users |-> WaitsFor(u)],
                   certified <- [u \in Users |-> Certified(u)],
                   unknown <- Unknown
ImplementsRoleGrants == Grants!Spec

\* The bits of user.roles are the certifications of the user: 1 as a student, 2 as
\* a tutor and so on; a user has those that an audit approved.
RolesWereApplied ==
    \A u \in Users, role \in Roles : Has(roles[u], role) => role \in granted[u]
=============================================================================
