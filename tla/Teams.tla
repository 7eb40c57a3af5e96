------------------------------- MODULE Teams -------------------------------
(***************************************************************************)
(* Team membership: the handlers of TeamsServiceImpl and                   *)
(* UserTeamApplyLogServiceImpl that change the tables teams, teams_members *)
(* and user_team_apply_log, with the checks TeamsController makes first.   *)
(* One step is one request, from its first check to its last write: the    *)
(* requests of this module do not overlap.                                 *)
(*                                                                         *)
(* Abstracted: logo, description, tags, publish status and recruitments    *)
(* (no handler of this module decides on them, except the existence of a   *)
(* recruitment a client names, which is 0 here), messages, timestamps and  *)
(* the notification an application or invitation publishes.                *)
(*                                                                         *)
(* A row of teams_members is inserted once per created team and once per   *)
(* handled log; its generated id is represented by that origin.            *)
(***************************************************************************)
EXTENDS Naturals, FiniteSets

CONSTANTS
    Users,          \* user.uid
    Certified,      \* the users with an activated user_info row
    TeamIds,        \* teams.id, never reused
    LogIds,         \* user_team_apply_log.id, never reused
    Names,          \* team names
    Blank,          \* the blank one among them: @NotBlank of TeamsParam is not enforced
    NoName          \* the name of a team that was never created

ASSUME CertifiedAreUsers == Certified \subseteq Users
ASSUME BlankIsAName == Blank \in Names
ASSUME NoNameIsNoName == NoName \notin Names
ASSUME OriginsDiffer == TeamIds \cap LogIds = {}

VARIABLES
    team,           \* teams.deleted, for the ids given out
    name,           \* teams.name
    members,        \* the rows of teams_members that are not deleted
    logs,           \* the rows of user_team_apply_log
    orphaned        \* history: teams whose leader's leave() failed half way

vars == <<team, name, members, logs, orphaned>>

ApplyMode == {"USER_TO_TEAM", "TEAM_TO_USER"}
ApplyStatus == {"WAITING", "PASS", "FAIL"}

MemberRow == [id : TeamIds \cup LogIds, team : TeamIds, uid : Users, leader : BOOLEAN]
LogRow == [id : LogIds, team : TeamIds, uid : Users, mode : ApplyMode, status : ApplyStatus]

TypeOK ==
    /\ team \in [TeamIds -> {"absent", "live", "removed"}]
    /\ name \in [TeamIds -> Names \cup {NoName}]
    /\ members \in SUBSET MemberRow
    /\ logs \in SUBSET LogRow
    /\ orphaned \in SUBSET TeamIds

Init ==
    /\ team = [t \in TeamIds |-> "absent"]
    /\ name = [t \in TeamIds |-> NoName]
    /\ members = {}
    /\ logs = {}
    /\ orphaned = {}

-----------------------------------------------------------------------------
(* Queries *)

\* selectOne and getOne: a row when the query finds exactly one, otherwise the
\* handler stops (no row) or throws TooManyResultsException (several rows).
FindsOne(rows) == \E r \in rows : rows = {r}

MemberRows(u, t) == {m \in members : m.uid = u /\ m.team = t}
TeamRows(t) == {m \in members : m.team = t}
LeaderRows(u, t) == {m \in MemberRows(u, t) : m.leader}
NormalRows(u, t) == {m \in MemberRows(u, t) : ~ m.leader}

\* count(name = n) = 0 over the teams that are not deleted
NameTaken(n) == \E t \in TeamIds : team[t] = "live" /\ name[t] = n

\* getTeamByLeaderIdAndTeamId returns a team
LeadsTeam(u, t) == FindsOne(LeaderRows(u, t)) /\ team[t] = "live"

\* Mutant: a refused log can be answered again
WaitingOrRefused(mode) == {l \in logs : l.status # "PASS" /\ l.mode = mode}

Waiting(mode) == {l \in logs : l.status = "WAITING" /\ l.mode = mode}
HasWaiting(u, t, mode) == \E l \in Waiting(mode) : l.uid = u /\ l.team = t

\* A fresh log id: the insert of user_team_apply_log
InsertLog(u, t, mode) ==
    \E i \in LogIds \ {l.id : l \in logs} :
        logs' = logs \cup
                  {[id |-> i, team |-> t, uid |-> u, mode |-> mode, status |-> "WAITING"]}

-----------------------------------------------------------------------------
(* Team life cycle *)

CreateTeam(u, t, n) ==
    /\ u \in Certified
    /\ team[t] = "absent"
    /\ ~ NameTaken(n)
    /\ team' = [team EXCEPT ![t] = "live"]
    /\ name' = [name EXCEPT ![t] = n]
    /\ members' = members \cup {[id |-> t, team |-> t, uid |-> u, leader |-> TRUE]}
    /\ UNCHANGED <<logs, orphaned>>

\* Mutant: no count of the teams with the new name
UpdateTeamsUnchecked(u, t, n) ==
    /\ u \in Certified
    /\ LeadsTeam(u, t)
    /\ name' = [name EXCEPT ![t] = n]
    /\ UNCHANGED <<team, members, logs, orphaned>>

\* A blank name skips the count and is written nevertheless
UpdateTeamsBaseInfo(u, t, n) ==
    /\ u \in Certified
    /\ LeadsTeam(u, t)
    /\ n # Blank => ~ NameTaken(n)
    /\ name' = [name EXCEPT ![t] = n]
    /\ UNCHANGED <<team, members, logs, orphaned>>

\* Mutant: the rows of teams_members stay
DisbandKeepsMembers(u, t) ==
    /\ LeadsTeam(u, t)
    /\ team' = [team EXCEPT ![t] = "removed"]
    /\ UNCHANGED <<name, members, logs, orphaned>>

Disband(u, t) ==
    /\ LeadsTeam(u, t)
    /\ team' = [team EXCEPT ![t] = "removed"]
    /\ members' = members \ TeamRows(t)
    /\ UNCHANGED <<name, logs, orphaned>>

\* Mutant: the old leader is not made NORMAL
TransferKeepsLeader(u, target, t) ==
    /\ FindsOne(MemberRows(target, t))
    /\ FindsOne(MemberRows(u, t))
    /\ MemberRows(u, t) = LeaderRows(u, t)
    /\ members' = (members \ MemberRows(target, t))
                    \cup {[m EXCEPT !.leader = TRUE] : m \in MemberRows(target, t)}
    /\ UNCHANGED <<team, name, logs, orphaned>>

\* With target = u both reads give the one object of the session cache, which
\* is made NORMAL and then LEADER: the leader stays.
TransferLeader(u, target, t) ==
    /\ FindsOne(MemberRows(target, t))
    /\ FindsOne(MemberRows(u, t))
    /\ MemberRows(u, t) = LeaderRows(u, t)
    /\ members' = (members \ (MemberRows(u, t) \cup MemberRows(target, t)))
                    \cup {[m EXCEPT !.leader = FALSE] : m \in MemberRows(u, t) \ MemberRows(target, t)}
                    \cup {[m EXCEPT !.leader = TRUE] : m \in MemberRows(target, t)}
    /\ UNCHANGED <<team, name, logs, orphaned>>

-----------------------------------------------------------------------------
(* Leaving *)

\* Mutant: the query has no is_leader condition
ExpelAnyone(u, fired, t) ==
    /\ LeadsTeam(u, t)
    /\ FindsOne(MemberRows(fired, t))
    /\ members' = members \ MemberRows(fired, t)
    /\ UNCHANGED <<team, name, logs, orphaned>>

\* leave() in mode EXPEL_USER: the leader removes a normal member
Expel(u, fired, t) ==
    /\ LeadsTeam(u, t)
    /\ FindsOne(NormalRows(fired, t))
    /\ members' = members \ NormalRows(fired, t)
    /\ UNCHANGED <<team, name, logs, orphaned>>

LeaveAsMember(u, t) ==
    /\ FindsOne(MemberRows(u, t))
    /\ LeaderRows(u, t) = {}
    /\ members' = members \ MemberRows(u, t)
    /\ UNCHANGED <<team, name, logs, orphaned>>

\* Mutant: every member left is promoted
LeaveToEveryone(u, t) ==
    /\ FindsOne(MemberRows(u, t))
    /\ MemberRows(u, t) = LeaderRows(u, t)
    /\ TeamRows(t) # MemberRows(u, t)
    /\ members' = (members \ TeamRows(t))
                    \cup {[m EXCEPT !.leader = TRUE] : m \in TeamRows(t) \ MemberRows(u, t)}
    /\ UNCHANGED <<team, name, logs, orphaned>>

\* A leader leaves. The rest of the team is read with selectOne after the
\* leader's row is deleted, and leave() is no transaction: with several
\* members left the read throws and the deletion stays.
LeaveAsLeader(u, t) ==
    LET rest == TeamRows(t) \ MemberRows(u, t) IN
    /\ FindsOne(MemberRows(u, t))
    /\ MemberRows(u, t) = LeaderRows(u, t)
    /\ \/ /\ rest = {}
          /\ team' = [team EXCEPT ![t] = "removed"]
          /\ members' = members \ MemberRows(u, t)
          /\ UNCHANGED orphaned
       \/ /\ FindsOne(rest)
          /\ members' = (members \ TeamRows(t)) \cup {[m EXCEPT !.leader = TRUE] : m \in rest}
          /\ UNCHANGED <<team, orphaned>>
       \/ /\ rest # {}
          /\ ~ FindsOne(rest)
          /\ members' = members \ MemberRows(u, t)
          /\ orphaned' = orphaned \cup {t}
          /\ UNCHANGED team
    /\ UNCHANGED <<name, logs>>

-----------------------------------------------------------------------------
(* Applications and invitations *)

\* Mutant: the waiting applications are not counted
UserAppliesAgain(u, t) ==
    /\ u \in Certified
    /\ MemberRows(u, t) = {}
    /\ team[t] = "live"
    /\ InsertLog(u, t, "USER_TO_TEAM")
    /\ UNCHANGED <<team, name, members, orphaned>>

UserApplyToTeam(u, t) ==
    /\ u \in Certified
    /\ MemberRows(u, t) = {}
    /\ ~ HasWaiting(u, t, "USER_TO_TEAM")
    /\ team[t] = "live"
    /\ InsertLog(u, t, "USER_TO_TEAM")
    /\ UNCHANGED <<team, name, members, orphaned>>

\* Mutant: the invited user need not be certified
TeamInvitesAnyone(u, invitee, t) ==
    /\ LeadsTeam(u, t)
    /\ MemberRows(invitee, t) = {}
    /\ ~ HasWaiting(invitee, t, "TEAM_TO_USER")
    /\ InsertLog(invitee, t, "TEAM_TO_USER")
    /\ UNCHANGED <<team, name, members, orphaned>>

TeamInvitesUser(u, invitee, t) ==
    /\ LeadsTeam(u, t)
    /\ invitee \in Certified
    /\ MemberRows(invitee, t) = {}
    /\ ~ HasWaiting(invitee, t, "TEAM_TO_USER")
    /\ InsertLog(invitee, t, "TEAM_TO_USER")
    /\ UNCHANGED <<team, name, members, orphaned>>

\* The writes both handlers end with: checkAndSetMember puts every log and a
\* new normal member for it into the batches, whatever the status is.
SettleLogs(picked, st) ==
    /\ logs' = (logs \ picked) \cup {[l EXCEPT !.status = st] : l \in picked}
    /\ members' = members \cup
          {[id |-> l.id, team |-> l.team, uid |-> l.uid, leader |-> FALSE] : l \in picked}

\* The logs the request names; some id that is not waiting rejects the request.
Picked(ids, mode) == {l \in Waiting(mode) : l.id \in ids}
AllWaiting(ids, mode) == ids # {} /\ ids \subseteq {l.id : l \in Waiting(mode)}

UserDealWithInvitation(u, ids, st) ==
    /\ AllWaiting(ids, "TEAM_TO_USER")
    /\ st = "PASS" => \A l \in Picked(ids, "TEAM_TO_USER") : MemberRows(u, l.team) = {}
    /\ SettleLogs(Picked(ids, "TEAM_TO_USER"), st)
    /\ UNCHANGED <<team, name, orphaned>>

TeamDealWithApplication(u, ids, st) ==
    /\ AllWaiting(ids, "USER_TO_TEAM")
    /\ \A l \in Picked(ids, "USER_TO_TEAM") :
         /\ LeaderRows(u, l.team) # {}
         /\ st = "PASS" => MemberRows(l.uid, l.team) = {}
    /\ SettleLogs(Picked(ids, "USER_TO_TEAM"), st)
    /\ UNCHANGED <<team, name, orphaned>>

-----------------------------------------------------------------------------
Next ==
    \/ \E u \in Users, t \in TeamIds, n \in Names :
          CreateTeam(u, t, n) \/ UpdateTeamsBaseInfo(u, t, n)
    \/ \E u \in Users, t \in TeamIds :
          \/ Disband(u, t)
          \/ LeaveAsMember(u, t)
          \/ LeaveAsLeader(u, t)
          \/ UserApplyToTeam(u, t)
    \/ \E u, v \in Users, t \in TeamIds :
          \/ TransferLeader(u, v, t)
          \/ Expel(u, v, t)
          \/ TeamInvitesUser(u, v, t)
    \/ \E u \in Users, ids \in SUBSET LogIds, st \in {"PASS", "FAIL"} :
          UserDealWithInvitation(u, ids, st) \/ TeamDealWithApplication(u, ids, st)

Spec == Init /\ [][Next]_vars

-----------------------------------------------------------------------------
(* Properties *)

\* A team has at most one row with is_leader set, whatever sequence of
\* transfers, departures, duplicated rows and late acceptances it goes through:
\* every query of the form "the leader of the team" is a selectOne or getOne
\* that throws for two rows.
AtMostOneLeader ==
    \A m, n \in members : m.leader /\ n.leader /\ m.team = n.team => m = n

\* Only a team that exists is led. Members can appear in a removed team (an
\* invitation outlives disband), but none of them can ever lead it, so nobody
\* can accept applications or invite for a removed team.
LeadersLeadLiveTeams ==
    \A m \in members : m.leader => team[m.team] = "live"

\* The only way a live team is without a leader is a leader's leave() that
\* stopped between the deletion and the promotion; expulsion, transfer and
\* rejected or accepted logs never take the leader away.
LeaderlessOnlyByLeave ==
    \A t \in TeamIds : team[t] = "live" => t \in orphaned \/ \E m \in TeamRows(t) : m.leader

\* A user has at most one waiting application to a team, and at most one
\* waiting invitation from it: the counts of userApplyToTeam and
\* teamInvitesUser.
OneWaitingLog ==
    \A k, l \in logs :
        /\ k.status = "WAITING" /\ l.status = "WAITING"
        /\ k.uid = l.uid /\ k.team = l.team /\ k.mode = l.mode
        => k = l

\* Two teams that exist never have the same name, through creation and renaming,
\* if it is not blank.
DistinctNames ==
    \A t, s \in TeamIds :
        team[t] = "live" /\ team[s] = "live" /\ name[t] = name[s] /\ name[t] # Blank => t = s

\* Whoever is in a team, has applied or is invited is certified: the handlers
\* that answer a log check no certification, they rely on the check made when
\* the log was written.
OnlyCertified ==
    /\ \A m \in members : m.uid \in Certified
    /\ \A l \in logs : l.uid \in Certified

\* A log is answered once: after PASS or FAIL it never changes again.
AnswerIsFinal ==
    [][\A l \in logs : l.status # "WAITING" => l \in logs']_vars

\* The users who lead a team, and the abstract view of it in TeamLeadership.
LeadersOf == [t \in TeamIds |-> {m.uid : m \in {r \in TeamRows(t) : r.leader}}]
Leadership == INSTANCE TeamLeadership WITH state <- team, leaders <- LeadersOf

\* Every request, whatever rows it rewrites, is for its team one of the steps of
\* TeamLeadership or none of them: the leadership is handed over at most from
\* one user to one user, and a team without a leader stays as it is for ever.
LeadershipIsHandedOver == Leadership!Spec

\* The comment of TeamsServiceImpl.leave: when the leader leaves, a member of
\* the team becomes the leader, and the team is dissolved if none is left.
SuccessionOnLeave == \A t \in TeamIds : team[t] = "live" => \E m \in TeamRows(t) : m.leader

\* DealInvitationOrApplyParam: status -1 rejects the application or invitation.
\* A log that was rejected has put nobody into the team.
RejectedStaysOut ==
    \A m \in members, l \in logs : m.id = l.id => l.status = "PASS"
=============================================================================
