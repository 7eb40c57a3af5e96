---------------------------- MODULE Teams_proofs ----------------------------
(***************************************************************************)
(* Proofs about Teams, for every set of users, teams, logs and names.      *)
(***************************************************************************)
EXTENDS Teams, TLAPS

-----------------------------------------------------------------------------
(* Type correctness *)

\* There are no rows at first.
LEMMA InitTypeOK == Init => TypeOK
  BY DEF Init, TypeOK

\* The promotions and demotions of rows keep them rows.
LEMMA RowUpdate ==
    ASSUME NEW m \in MemberRow, NEW b \in BOOLEAN
    PROVE  /\ [m EXCEPT !.leader = b] \in MemberRow
           /\ [m EXCEPT !.leader = b].id = m.id
           /\ [m EXCEPT !.leader = b].team = m.team
           /\ [m EXCEPT !.leader = b].uid = m.uid
           /\ [m EXCEPT !.leader = b].leader = b
  BY DEF MemberRow

\* A record with another status is still a log.
LEMMA LogUpdate ==
    ASSUME NEW l \in LogRow, NEW s \in ApplyStatus
    PROVE  /\ [l EXCEPT !.status = s] \in LogRow
           /\ [l EXCEPT !.status = s].id = l.id
           /\ [l EXCEPT !.status = s].team = l.team
           /\ [l EXCEPT !.status = s].uid = l.uid
           /\ [l EXCEPT !.status = s].mode = l.mode
           /\ [l EXCEPT !.status = s].status = s
  BY DEF LogRow

LEMMA InsertLogType ==
    ASSUME TypeOK, NEW u \in Users, NEW t \in TeamIds, NEW mode \in ApplyMode,
           InsertLog(u, t, mode)
    PROVE  logs' \in SUBSET LogRow
  BY DEF TypeOK, InsertLog, LogRow, ApplyStatus

LEMMA SettleLogsType ==
    ASSUME TypeOK, NEW picked \in SUBSET logs, NEW st \in {"PASS", "FAIL"},
           SettleLogs(picked, st)
    PROVE  logs' \in SUBSET LogRow /\ members' \in SUBSET MemberRow
  <1>1. st \in ApplyStatus
    BY DEF ApplyStatus
  <1>2. logs' \in SUBSET LogRow
    BY <1>1, LogUpdate DEF TypeOK, SettleLogs
  <1>3. \A l \in picked :
          [id |-> l.id, team |-> l.team, uid |-> l.uid, leader |-> FALSE] \in MemberRow
    BY DEF TypeOK, LogRow, MemberRow
  <1> QED
    BY <1>2, <1>3 DEF TypeOK, SettleLogs

LEMMA PickedAreLogs ==
    \A ids, mode : Picked(ids, mode) \in SUBSET logs
  BY DEF Picked, Waiting

\* Every request preserves the types.
LEMMA NextTypeOK == TypeOK /\ [Next]_vars => TypeOK'
  <1> SUFFICES ASSUME TypeOK, [Next]_vars PROVE TypeOK'
    OBVIOUS
  <1> USE DEF TypeOK
  <1>1. ASSUME NEW u \in Users, NEW t \in TeamIds, NEW n \in Names, CreateTeam(u, t, n)
        PROVE TypeOK'
    <2>1. [id |-> t, team |-> t, uid |-> u, leader |-> TRUE] \in MemberRow
      BY DEF MemberRow
    <2> QED
      BY <1>1, <2>1 DEF CreateTeam
  <1>2. ASSUME NEW u \in Users, NEW t \in TeamIds, NEW n \in Names,
               UpdateTeamsBaseInfo(u, t, n)
        PROVE TypeOK'
    BY <1>2 DEF UpdateTeamsBaseInfo
  <1>3. ASSUME NEW u \in Users, NEW t \in TeamIds, Disband(u, t)
        PROVE TypeOK'
    BY <1>3 DEF Disband
  <1>4. ASSUME NEW u \in Users, NEW t \in TeamIds, LeaveAsMember(u, t)
        PROVE TypeOK'
    BY <1>4 DEF LeaveAsMember
  <1>5. ASSUME NEW u \in Users, NEW t \in TeamIds, LeaveAsLeader(u, t)
        PROVE TypeOK'
    BY <1>5, RowUpdate DEF LeaveAsLeader, TeamRows
  <1>6. ASSUME NEW u \in Users, NEW t \in TeamIds, UserApplyToTeam(u, t)
        PROVE TypeOK'
    BY <1>6, InsertLogType DEF UserApplyToTeam, ApplyMode
  <1>7. ASSUME NEW u \in Users, NEW v \in Users, NEW t \in TeamIds, TransferLeader(u, v, t)
        PROVE TypeOK'
    <2>1. MemberRows(v, t) \subseteq members /\ MemberRows(u, t) \subseteq members
      BY DEF MemberRows
    <2>2. /\ {[m EXCEPT !.leader = FALSE] : m \in MemberRows(u, t) \ MemberRows(v, t)} \subseteq MemberRow
          /\ {[m EXCEPT !.leader = TRUE] : m \in MemberRows(v, t)} \subseteq MemberRow
      BY <2>1, RowUpdate
    <2>3. members' \subseteq MemberRow
      BY <1>7, <2>1, <2>2 DEF TransferLeader
    <2> QED
      BY <1>7, <2>3 DEF TransferLeader
  <1>8. ASSUME NEW u \in Users, NEW v \in Users, NEW t \in TeamIds, Expel(u, v, t)
        PROVE TypeOK'
    BY <1>8 DEF Expel
  <1>9. ASSUME NEW u \in Users, NEW v \in Users, NEW t \in TeamIds, TeamInvitesUser(u, v, t)
        PROVE TypeOK'
    BY <1>9, InsertLogType DEF TeamInvitesUser, ApplyMode
  <1>10. ASSUME NEW u \in Users, NEW ids \in SUBSET LogIds, NEW st \in {"PASS", "FAIL"},
                UserDealWithInvitation(u, ids, st)
         PROVE TypeOK'
    BY <1>10, SettleLogsType, PickedAreLogs DEF UserDealWithInvitation
  <1>11. ASSUME NEW u \in Users, NEW ids \in SUBSET LogIds, NEW st \in {"PASS", "FAIL"},
                TeamDealWithApplication(u, ids, st)
         PROVE TypeOK'
    BY <1>11, SettleLogsType, PickedAreLogs DEF TeamDealWithApplication
  <1>12. CASE UNCHANGED vars
    BY <1>12 DEF vars
  <1> QED
    BY <1>1, <1>2, <1>3, <1>4, <1>5, <1>6, <1>7, <1>8, <1>9, <1>10, <1>11, <1>12 DEF Next

\* The variables keep their types: a row written by any handler is a row of its
\* table, with a team, a user and an origin that exist.
THEOREM TeamsTypeOK == Spec => []TypeOK
  BY InitTypeOK, NextTypeOK, PTL DEF Spec

-----------------------------------------------------------------------------
(* Leaders *)

\* The leader rows of a team, and what one request may do to them: every
\* handler touches the leaders, the existence and the orphan mark of one team,
\* in one of five ways.
Leaders(t) == {m \in members : m.team = t /\ m.leader}

Apart(t) ==
    \A s \in TeamIds \ {t} :
        /\ Leaders(s)' = Leaders(s)
        /\ team'[s] = team[s]
        /\ s \in orphaned' <=> s \in orphaned

Kept(t) == Leaders(t)' = Leaders(t)
Founded(t) ==
    /\ team[t] = "absent" /\ team'[t] = "live"
    /\ \E r \in MemberRow : r.team = t /\ r.leader /\ Leaders(t)' = {r} \cup Leaders(t)
HandedOver(t) ==
    /\ team'[t] = team[t]
    /\ \E q \in Leaders(t), r \in MemberRow :
          r.team = t /\ r.leader /\ Leaders(t)' = (Leaders(t) \ {q}) \cup {r}
Lost(t) ==
    /\ team'[t] = team[t] /\ t \in orphaned'
    /\ \E q \in Leaders(t) : Leaders(t)' = Leaders(t) \ {q}
Dissolved(t) ==
    /\ team'[t] = "removed" /\ Leaders(t)' = {}
    /\ Leaders(t) # {}

LeaderStep(t) ==
    /\ Apart(t)
    /\ \/ Kept(t) /\ team'[t] = team[t] /\ (t \in orphaned' <=> t \in orphaned)
       \/ Founded(t) /\ (t \in orphaned' <=> t \in orphaned)
       \/ HandedOver(t) /\ (t \in orphaned' <=> t \in orphaned)
       \/ Lost(t)
       \/ Dissolved(t) /\ (t \in orphaned' <=> t \in orphaned)

LEMMA CreateTeamLeaders ==
    ASSUME TypeOK, NEW u \in Users, NEW t \in TeamIds, NEW n \in Names, CreateTeam(u, t, n)
    PROVE  LeaderStep(t)
  <1> DEFINE row == [id |-> t, team |-> t, uid |-> u, leader |-> TRUE]
  <1>1. row \in MemberRow /\ row.team = t /\ row.leader
    BY DEF MemberRow
  <1>2. members' = members \cup {row} /\ team' = [team EXCEPT ![t] = "live"]
        /\ team[t] = "absent" /\ orphaned' = orphaned
    BY DEF CreateTeam
  <1> HIDE DEF row
  <1>3. Apart(t)
    BY <1>1, <1>2 DEF Apart, Leaders, TypeOK
  <1>4. Leaders(t)' = {row} \cup Leaders(t)
    BY <1>1, <1>2 DEF Leaders
  <1>5. Founded(t)
    BY <1>1, <1>2, <1>4 DEF Founded, TypeOK
  <1> QED
    BY <1>2, <1>3, <1>5 DEF LeaderStep

LEMMA DisbandLeaders ==
    ASSUME TypeOK, NEW u \in Users, NEW t \in TeamIds, Disband(u, t)
    PROVE  LeaderStep(t)
  <1>1. team' = [team EXCEPT ![t] = "removed"] /\ members' = members \ TeamRows(t)
        /\ orphaned' = orphaned
    BY DEF Disband
  <1>2. Leaders(t) # {}
    BY DEF Disband, LeadsTeam, FindsOne, LeaderRows, MemberRows, Leaders
  <1>3. Apart(t)
    BY <1>1 DEF Apart, Leaders, TeamRows, TypeOK
  <1>4. Dissolved(t)
    BY <1>1, <1>2 DEF Dissolved, Leaders, TeamRows, TypeOK
  <1> QED
    BY <1>1, <1>3, <1>4 DEF LeaderStep

LEMMA LeaveAsMemberLeaders ==
    ASSUME TypeOK, NEW u \in Users, NEW t \in TeamIds, LeaveAsMember(u, t)
    PROVE  LeaderStep(t)
  BY DEF LeaveAsMember, LeaderStep, Apart, Kept, Leaders, LeaderRows, MemberRows, TypeOK

LEMMA ExpelLeaders ==
    ASSUME TypeOK, NEW u \in Users, NEW v \in Users, NEW t \in TeamIds, Expel(u, v, t)
    PROVE  LeaderStep(t)
  BY DEF Expel, LeaderStep, Apart, Kept, Leaders, NormalRows, MemberRows, TypeOK

LEMMA LeaveAsLeaderLeaders ==
    ASSUME TypeOK, AtMostOneLeader, NEW u \in Users, NEW t \in TeamIds, LeaveAsLeader(u, t)
    PROVE  LeaderStep(t)
  <1> DEFINE rest == TeamRows(t) \ MemberRows(u, t)
  <1>1. PICK q : MemberRows(u, t) = {q}
    BY DEF LeaveAsLeader, FindsOne
  <1>2. q \in members /\ q.team = t /\ q.leader
    BY <1>1 DEF LeaveAsLeader, MemberRows, LeaderRows
  <1>3. Leaders(t) = {q}
    BY <1>2 DEF Leaders, AtMostOneLeader
  <1>4. TeamRows(t) = {q} \cup rest /\ q \notin rest
    BY <1>1, <1>2 DEF TeamRows
  <1>5. \A m \in TeamRows(t) : m \in members /\ m.team = t
    BY DEF TeamRows
  <1> HIDE DEF rest
  <1>6. CASE /\ rest = {}
             /\ team' = [team EXCEPT ![t] = "removed"]
             /\ members' = members \ MemberRows(u, t)
             /\ UNCHANGED orphaned
    <2>1. members' = members \ {q}
      BY <1>1, <1>6
    <2>2. Apart(t)
      BY <1>2, <1>6, <2>1 DEF Apart, Leaders, TypeOK
    <2>3. Dissolved(t)
      BY <1>3, <1>6, <2>1 DEF Dissolved, Leaders, TypeOK
    <2> QED
      BY <1>6, <2>2, <2>3 DEF LeaderStep
  <1>7. CASE /\ FindsOne(rest)
             /\ members' = (members \ TeamRows(t)) \cup {[m EXCEPT !.leader = TRUE] : m \in rest}
             /\ UNCHANGED <<team, orphaned>>
    <2>1. PICK r : rest = {r}
      BY <1>7 DEF FindsOne
    <2> DEFINE p == [r EXCEPT !.leader = TRUE]
    <2>2. p \in MemberRow /\ p.team = t /\ p.leader
      BY <1>4, <1>5, <2>1, RowUpdate DEF TypeOK
    <2>3. members' = (members \ TeamRows(t)) \cup {p}
      BY <1>7, <2>1
    <2> HIDE DEF p
    <2>4. Leaders(t)' = {p}
      BY <2>2, <2>3 DEF Leaders, TeamRows
    <2>5. HandedOver(t)
      BY <1>3, <1>7, <2>2, <2>4 DEF HandedOver
    <2>6. Apart(t)
      BY <1>7, <2>2, <2>3 DEF Apart, Leaders, TeamRows
    <2> QED
      BY <1>7, <2>5, <2>6 DEF LeaderStep
  <1>8. CASE /\ members' = members \ MemberRows(u, t)
             /\ orphaned' = orphaned \cup {t}
             /\ UNCHANGED team
    <2>1. members' = members \ {q}
      BY <1>1, <1>8
    <2>2. Apart(t)
      BY <1>2, <1>8, <2>1 DEF Apart, Leaders
    <2>3. Leaders(t)' = Leaders(t) \ {q}
      BY <2>1 DEF Leaders
    <2>4. Lost(t)
      BY <1>3, <1>8, <2>3 DEF Lost
    <2> QED
      BY <2>2, <2>4 DEF LeaderStep
  <1> QED
    BY <1>6, <1>7, <1>8 DEF LeaveAsLeader, rest

LEMMA TransferLeaders ==
    ASSUME TypeOK, AtMostOneLeader, NEW u \in Users, NEW v \in Users, NEW t \in TeamIds,
           TransferLeader(u, v, t)
    PROVE  LeaderStep(t)
  <1>1. PICK q : MemberRows(u, t) = {q}
    BY DEF TransferLeader, FindsOne
  <1>2. q \in MemberRow /\ q \in members /\ q.team = t /\ q.leader
    BY <1>1 DEF TransferLeader, MemberRows, LeaderRows, TypeOK
  <1>3. Leaders(t) = {q}
    BY <1>2 DEF Leaders, AtMostOneLeader
  <1>4. PICK r : MemberRows(v, t) = {r}
    BY DEF TransferLeader, FindsOne
  <1>5. r \in MemberRow /\ r \in members /\ r.team = t
    BY <1>4 DEF MemberRows, TypeOK
  <1> DEFINE p == [r EXCEPT !.leader = TRUE]
             d == {[m EXCEPT !.leader = FALSE] : m \in {q} \ {r}}
  <1>6. p \in MemberRow /\ p.team = t /\ p.leader
    BY <1>5, RowUpdate
  <1>7. \A m \in d : m.team = t /\ ~ m.leader
    BY <1>2, RowUpdate
  <1>8. members' = (members \ {q, r}) \cup d \cup {p} /\ UNCHANGED <<team, orphaned>>
    BY <1>1, <1>4 DEF TransferLeader
  <1> HIDE DEF p, d
  <1>9. Leaders(t)' = {p}
    BY <1>3, <1>6, <1>7, <1>8 DEF Leaders
  <1>10. HandedOver(t)
    BY <1>3, <1>6, <1>8, <1>9 DEF HandedOver
  <1>11. Apart(t)
    BY <1>2, <1>5, <1>6, <1>7, <1>8 DEF Apart, Leaders
  <1> QED
    BY <1>8, <1>10, <1>11 DEF LeaderStep

\* Answering logs only adds normal members.
LEMMA SettleLogsLeaders ==
    ASSUME TypeOK, NEW picked \in SUBSET logs, NEW st, SettleLogs(picked, st)
    PROVE  \A s \in TeamIds : Leaders(s)' = Leaders(s)
  <1> DEFINE new == {[id |-> l.id, team |-> l.team, uid |-> l.uid, leader |-> FALSE] : l \in picked}
  <1>1. \A m \in new : ~ m.leader
    OBVIOUS
  <1>2. members' = members \cup new
    BY DEF SettleLogs
  <1> HIDE DEF new
  <1> QED
    BY <1>1, <1>2 DEF Leaders

LEMMA NextLeaders ==
    ASSUME TypeOK, AtMostOneLeader, Next
    PROVE  \E t \in TeamIds : LeaderStep(t)
  <1>1. ASSUME NEW u \in Users, NEW t \in TeamIds, NEW n \in Names, CreateTeam(u, t, n)
        PROVE \E s \in TeamIds : LeaderStep(s)
    BY <1>1, CreateTeamLeaders
  <1>2. ASSUME NEW u \in Users, NEW t \in TeamIds, NEW n \in Names,
               UpdateTeamsBaseInfo(u, t, n)
        PROVE \E s \in TeamIds : LeaderStep(s)
    BY <1>2 DEF UpdateTeamsBaseInfo, LeaderStep, Apart, Kept, Leaders
  <1>3. ASSUME NEW u \in Users, NEW t \in TeamIds, Disband(u, t)
        PROVE \E s \in TeamIds : LeaderStep(s)
    BY <1>3, DisbandLeaders
  <1>4. ASSUME NEW u \in Users, NEW t \in TeamIds, LeaveAsMember(u, t)
        PROVE \E s \in TeamIds : LeaderStep(s)
    BY <1>4, LeaveAsMemberLeaders
  <1>5. ASSUME NEW u \in Users, NEW t \in TeamIds, LeaveAsLeader(u, t)
        PROVE \E s \in TeamIds : LeaderStep(s)
    BY <1>5, LeaveAsLeaderLeaders
  <1>6. ASSUME NEW u \in Users, NEW t \in TeamIds, UserApplyToTeam(u, t)
        PROVE \E s \in TeamIds : LeaderStep(s)
    BY <1>6 DEF UserApplyToTeam, LeaderStep, Apart, Kept, Leaders
  <1>7. ASSUME NEW u \in Users, NEW v \in Users, NEW t \in TeamIds, TransferLeader(u, v, t)
        PROVE \E s \in TeamIds : LeaderStep(s)
    BY <1>7, TransferLeaders
  <1>8. ASSUME NEW u \in Users, NEW v \in Users, NEW t \in TeamIds, Expel(u, v, t)
        PROVE \E s \in TeamIds : LeaderStep(s)
    BY <1>8, ExpelLeaders
  <1>9. ASSUME NEW u \in Users, NEW v \in Users, NEW t \in TeamIds, TeamInvitesUser(u, v, t)
        PROVE \E s \in TeamIds : LeaderStep(s)
    BY <1>9 DEF TeamInvitesUser, LeaderStep, Apart, Kept, Leaders
  <1>10. ASSUME NEW u \in Users, NEW ids \in SUBSET LogIds, NEW st \in {"PASS", "FAIL"},
                UserDealWithInvitation(u, ids, st) \/ TeamDealWithApplication(u, ids, st)
         PROVE \E s \in TeamIds : LeaderStep(s)
    <2>1. PICK l \in logs : TRUE
      BY <1>10 DEF UserDealWithInvitation, TeamDealWithApplication, AllWaiting, Waiting
    <2>2. l.team \in TeamIds
      BY DEF TypeOK, LogRow
    <2>3. \A s \in TeamIds : Leaders(s)' = Leaders(s)
      BY <1>10, SettleLogsLeaders, PickedAreLogs
         DEF UserDealWithInvitation, TeamDealWithApplication
    <2>4. UNCHANGED <<team, orphaned>>
      BY <1>10 DEF UserDealWithInvitation, TeamDealWithApplication
    <2> QED
      BY <2>2, <2>3, <2>4 DEF LeaderStep, Apart, Kept
  <1> QED
    BY <1>1, <1>2, <1>3, <1>4, <1>5, <1>6, <1>7, <1>8, <1>9, <1>10 DEF Next

LeaderInv ==
    /\ TypeOK
    /\ AtMostOneLeader
    /\ LeadersLeadLiveTeams
    /\ LeaderlessOnlyByLeave

\* The three invariants about leaders, team by team.
LeadersOk(t) ==
    /\ \A m, n \in Leaders(t) : m = n
    /\ Leaders(t) # {} => team[t] = "live"
    /\ team[t] = "live" => t \in orphaned \/ Leaders(t) # {}

LEMMA LeadersOkBefore ==
    ASSUME LeaderInv PROVE \A t \in TeamIds : LeadersOk(t)
  BY DEF LeaderInv, LeadersOk, Leaders, AtMostOneLeader, LeadersLeadLiveTeams,
         LeaderlessOnlyByLeave, TeamRows

LEMMA LeadersOkAfter ==
    ASSUME TypeOK', \A t \in TeamIds : LeadersOk(t)' PROVE LeaderInv'
  <1>1. \A m \in members' : m.team \in TeamIds
    BY DEF TypeOK, MemberRow
  <1>2. AtMostOneLeader'
    BY <1>1 DEF LeadersOk, Leaders, AtMostOneLeader
  <1>3. LeadersLeadLiveTeams'
    BY <1>1 DEF LeadersOk, Leaders, LeadersLeadLiveTeams
  <1>4. LeaderlessOnlyByLeave'
    BY DEF LeadersOk, Leaders, LeaderlessOnlyByLeave, TeamRows
  <1> QED
    BY <1>2, <1>3, <1>4 DEF LeaderInv

LEMMA NextLeaderInv == LeaderInv /\ [Next]_vars => LeaderInv'
  <1> SUFFICES ASSUME LeaderInv, [Next]_vars PROVE LeaderInv'
    OBVIOUS
  <1>1. TypeOK'
    BY NextTypeOK DEF LeaderInv
  <1>2. CASE Next
    <2>1. PICK t \in TeamIds : LeaderStep(t)
      BY <1>2, NextLeaders DEF LeaderInv
    <2>2. ASSUME NEW s \in TeamIds, s # t PROVE LeadersOk(s)'
      BY <2>1, <2>2, LeadersOkBefore DEF LeaderStep, Apart, LeadersOk
    <2>3. LeadersOk(t)
      BY LeadersOkBefore
    <2>4. LeadersOk(t)'
      <3>1. CASE Kept(t) /\ team'[t] = team[t] /\ (t \in orphaned' <=> t \in orphaned)
        BY <2>3, <3>1 DEF Kept, LeadersOk
      <3>2. CASE Founded(t)
        BY <2>3, <3>2 DEF Founded, LeadersOk
      <3>3. CASE HandedOver(t)
        BY <2>3, <3>3 DEF HandedOver, LeadersOk
      <3>4. CASE Lost(t)
        BY <2>3, <3>4 DEF Lost, LeadersOk
      <3>5. CASE Dissolved(t)
        BY <2>3, <3>5 DEF Dissolved, LeadersOk
      <3> QED
        BY <2>1, <3>1, <3>2, <3>3, <3>4, <3>5 DEF LeaderStep
    <2> QED
      BY <1>1, <2>2, <2>4, LeadersOkAfter
  <1>3. CASE UNCHANGED vars
    BY <1>3 DEF vars, LeaderInv, TypeOK, AtMostOneLeader, LeadersLeadLiveTeams,
                LeaderlessOnlyByLeave, TeamRows
  <1> QED
    BY <1>2, <1>3

LEMMA InitLeaderInv == Init => LeaderInv
  BY InitTypeOK
     DEF Init, LeaderInv, AtMostOneLeader, LeadersLeadLiveTeams, LeaderlessOnlyByLeave

\* For any number of users, teams and requests, a team has at most one leader,
\* leaders lead existing teams, and a live team is without a leader only after
\* its leader's leave() failed half way.
THEOREM TeamsLeaders ==
    Spec => [](AtMostOneLeader /\ LeadersLeadLiveTeams /\ LeaderlessOnlyByLeave)
  <1>1. LeaderInv => AtMostOneLeader /\ LeadersLeadLiveTeams /\ LeaderlessOnlyByLeave
    BY DEF LeaderInv
  <1> QED
    BY <1>1, InitLeaderInv, NextLeaderInv, PTL DEF Spec

-----------------------------------------------------------------------------
(* Teams implements TeamLeadership *)

LEMMA LeadersOfRows ==
    ASSUME NEW t \in TeamIds
    PROVE  /\ LeadersOf[t] = {m.uid : m \in Leaders(t)}
           /\ LeadersOf'[t] = {m.uid : m \in Leaders(t)'}
  BY DEF LeadersOf, Leaders, TeamRows

LEMMA LeadershipStep ==
    LeaderInv /\ [Next]_vars => [Leadership!Next]_(Leadership!leadershipVars)
  <1> SUFFICES ASSUME LeaderInv, [Next]_vars
               PROVE  [Leadership!Next]_(Leadership!leadershipVars)
    OBVIOUS
  <1>1. CASE UNCHANGED vars
    BY <1>1 DEF vars, Leadership!leadershipVars, LeadersOf, TeamRows
  <1>2. CASE Next
    <2>1. PICK t \in TeamIds : LeaderStep(t)
      BY <1>2, NextLeaders DEF LeaderInv
    <2>2. TypeOK /\ TypeOK'
      BY NextTypeOK DEF LeaderInv
    <2>3. /\ LeadersOf = [s \in TeamIds |-> LeadersOf[s]]
          /\ LeadersOf' = [s \in TeamIds |-> LeadersOf'[s]]
      BY DEF LeadersOf
    <2>4. \A s \in TeamIds \ {t} : LeadersOf'[s] = LeadersOf[s] /\ team'[s] = team[s]
      BY <2>1, LeadersOfRows DEF LeaderStep, Apart
    <2>5. LeadersOk(t)
      BY LeadersOkBefore
    <2>6. \A r \in Leaders(t) : r.uid \in Users /\ Leaders(t) = {r}
      BY <2>2, <2>5 DEF LeadersOk, Leaders, TypeOK, MemberRow
    <2>7. LeadersOf' = [LeadersOf EXCEPT ![t] = LeadersOf'[t]]
      BY <2>3, <2>4
    <2>8. team' = [team EXCEPT ![t] = team'[t]]
      BY <2>2, <2>4 DEF TypeOK
    <2>9. CASE Kept(t) /\ team'[t] = team[t]
      <3>1. LeadersOf'[t] = LeadersOf[t]
        BY <2>9, LeadersOfRows DEF Kept
      <3>2. LeadersOf' = LeadersOf
        BY <2>3, <2>7, <3>1
      <3>3. team' = team
        BY <2>2, <2>8, <2>9 DEF TypeOK
      <3> QED
        BY <3>2, <3>3 DEF Leadership!leadershipVars
    <2>10. CASE Founded(t)
      <3>1. PICK r \in MemberRow : Leaders(t)' = {r}
        BY <2>5, <2>10 DEF Founded, LeadersOk
      <3>2. r.uid \in Users /\ LeadersOf'[t] = {r.uid}
        BY <3>1, LeadersOfRows DEF MemberRow
      <3>3. Leadership!Found(t, r.uid)
        BY <2>7, <2>8, <2>10, <3>2 DEF Founded, Leadership!Found
      <3> QED
        BY <3>2, <3>3 DEF Leadership!Next
    <2>11. CASE HandedOver(t)
      <3>1. PICK q \in Leaders(t), r \in MemberRow : Leaders(t)' = (Leaders(t) \ {q}) \cup {r}
        BY <2>11 DEF HandedOver
      <3>2. Leaders(t) = {q} /\ Leaders(t)' = {r}
        BY <2>6, <3>1
      <3>3. LeadersOf[t] = {q.uid} /\ LeadersOf'[t] = {r.uid}
        BY <3>2, LeadersOfRows
      <3>4. q.uid \in Users /\ r.uid \in Users
        BY <2>6, <3>1 DEF MemberRow
      <3>5. team' = team
        BY <2>2, <2>8, <2>11 DEF HandedOver, TypeOK
      <3>6. Leadership!HandOver(t, q.uid, r.uid)
        BY <2>5, <2>7, <3>2, <3>3, <3>5 DEF LeadersOk, Leadership!HandOver
      <3> QED
        BY <3>4, <3>6 DEF Leadership!Next
    <2>12. CASE Lost(t)
      <3>1. PICK q \in Leaders(t) : Leaders(t)' = Leaders(t) \ {q}
        BY <2>12 DEF Lost
      <3>2. LeadersOf[t] = {q.uid} /\ LeadersOf'[t] = {}
        BY <2>6, <3>1, LeadersOfRows
      <3>3. team' = team
        BY <2>2, <2>8, <2>12 DEF Lost, TypeOK
      <3>4. Leadership!GoWithoutSuccessor(t, q.uid)
        BY <2>5, <2>7, <3>1, <3>2, <3>3 DEF LeadersOk, Leadership!GoWithoutSuccessor
      <3> QED
        BY <2>6, <3>1, <3>4 DEF Leadership!Next
    <2>13. CASE Dissolved(t)
      <3>1. PICK q \in Leaders(t) : TRUE
        BY <2>13 DEF Dissolved
      <3>2. LeadersOf[t] = {q.uid} /\ LeadersOf'[t] = {}
        BY <2>6, <2>13, <3>1, LeadersOfRows DEF Dissolved
      <3>3. Leadership!Dissolve(t, q.uid)
        BY <2>5, <2>7, <2>8, <2>13, <3>2 DEF Dissolved, LeadersOk, Leadership!Dissolve
      <3> QED
        BY <2>6, <3>1, <3>3 DEF Leadership!Next
    <2> QED
      BY <2>1, <2>9, <2>10, <2>11, <2>12, <2>13 DEF LeaderStep
  <1> QED
    BY <1>1, <1>2

LEMMA LeadershipInit == Init => Leadership!Init
  BY DEF Init, Leadership!Init, LeadersOf, TeamRows

\* The membership handlers implement the abstract leadership of TeamLeadership:
\* leaders are handed over one to one, and a team that lost its leader is never
\* led and never dissolved again.
THEOREM TeamsImplementLeadership == Spec => LeadershipIsHandedOver
  <1> QED
    BY InitLeaderInv, NextLeaderInv, LeadershipInit, LeadershipStep, PTL
       DEF Spec, LeadershipIsHandedOver, Leadership!Spec

-----------------------------------------------------------------------------
(* Logs, names and certification *)

\* What one request does to the logs: it leaves them alone, appends one waiting
\* log for a certified user without a waiting log of that kind, or answers some
\* waiting ones.
LogsKept == logs' = logs
LogAppended ==
    \E l \in LogRow :
        /\ logs' = logs \cup {l}
        /\ l.uid \in Certified
        /\ ~ HasWaiting(l.uid, l.team, l.mode)
LogsAnswered ==
    \E picked \in SUBSET logs, st \in {"PASS", "FAIL"} :
        /\ \A l \in picked : l.status = "WAITING"
        /\ SettleLogs(picked, st)
LogStep == LogsKept \/ LogAppended \/ LogsAnswered

LEMMA InsertLogAppends ==
    ASSUME NEW u \in Certified, NEW t \in TeamIds, NEW mode \in ApplyMode,
           InsertLog(u, t, mode), ~ HasWaiting(u, t, mode)
    PROVE  LogAppended
  <1>1. PICK i \in LogIds :
           logs' = logs \cup
             {[id |-> i, team |-> t, uid |-> u, mode |-> mode, status |-> "WAITING"]}
    BY DEF InsertLog
  <1> DEFINE row == [id |-> i, team |-> t, uid |-> u, mode |-> mode, status |-> "WAITING"]
  <1>2. /\ row \in LogRow
        /\ row.uid = u /\ row.team = t /\ row.mode = mode
    BY CertifiedAreUsers DEF LogRow, ApplyStatus
  <1>3. logs' = logs \cup {row}
    BY <1>1
  <1> HIDE DEF row
  <1> QED
    BY <1>2, <1>3 DEF LogAppended

LEMMA NextLogs ==
    ASSUME Next PROVE LogStep
  <1>1. ASSUME NEW u \in Users, NEW t \in TeamIds, UserApplyToTeam(u, t)
        PROVE LogStep
    BY <1>1, InsertLogAppends DEF UserApplyToTeam, LogStep, ApplyMode
  <1>2. ASSUME NEW u \in Users, NEW v \in Users, NEW t \in TeamIds, TeamInvitesUser(u, v, t)
        PROVE LogStep
    BY <1>2, InsertLogAppends DEF TeamInvitesUser, LogStep, ApplyMode
  <1>3. ASSUME NEW u \in Users, NEW ids \in SUBSET LogIds, NEW st \in {"PASS", "FAIL"},
               UserDealWithInvitation(u, ids, st) \/ TeamDealWithApplication(u, ids, st)
        PROVE LogStep
    <2>1. PICK mode : SettleLogs(Picked(ids, mode), st)
      BY <1>3 DEF UserDealWithInvitation, TeamDealWithApplication
    <2>2. \A l \in Picked(ids, mode) : l.status = "WAITING"
      BY DEF Picked, Waiting
    <2> QED
      BY <2>1, <2>2, PickedAreLogs DEF LogStep, LogsAnswered
  <1>4. ASSUME NEW u \in Users, NEW t \in TeamIds, NEW n \in Names,
               CreateTeam(u, t, n) \/ UpdateTeamsBaseInfo(u, t, n)
        PROVE LogStep
    BY <1>4 DEF CreateTeam, UpdateTeamsBaseInfo, LogStep, LogsKept
  <1>5. ASSUME NEW u \in Users, NEW v \in Users, NEW t \in TeamIds,
               \/ Disband(u, t) \/ LeaveAsMember(u, t) \/ LeaveAsLeader(u, t)
               \/ TransferLeader(u, v, t) \/ Expel(u, v, t)
        PROVE LogStep
    BY <1>5 DEF Disband, LeaveAsMember, LeaveAsLeader, TransferLeader, Expel, LogStep, LogsKept
  <1> QED
    BY <1>1, <1>2, <1>3, <1>4, <1>5 DEF Next

\* A rename or a creation checks the name it gives; nothing else makes a team
\* live or renames one.
LEMMA NextDistinctNames == TypeOK /\ DistinctNames /\ [Next]_vars => DistinctNames'
  <1> SUFFICES ASSUME TypeOK, DistinctNames, [Next]_vars PROVE DistinctNames'
    OBVIOUS
  <1> DEFINE Given(t, n) ==
               /\ n # Blank => ~ NameTaken(n)
               /\ name' = [name EXCEPT ![t] = n]
               /\ \A s \in TeamIds \ {t} : team'[s] = "live" => team[s] = "live"
             Shrinks == name' = name /\ \A s \in TeamIds : team'[s] = "live" => team[s] = "live"
  <1>1. ASSUME NEW t \in TeamIds, NEW n \in Names, Given(t, n)
        PROVE DistinctNames'
    BY <1>1 DEF DistinctNames, NameTaken, TypeOK
  <1>2. ASSUME Shrinks PROVE DistinctNames'
    BY <1>2 DEF DistinctNames
  <1>3. ASSUME NEW u \in Users, NEW t \in TeamIds, NEW n \in Names,
               CreateTeam(u, t, n) \/ UpdateTeamsBaseInfo(u, t, n)
        PROVE Given(t, n)
    BY <1>3 DEF CreateTeam, UpdateTeamsBaseInfo, TypeOK
  <1>4. ASSUME NEW u \in Users, NEW t \in TeamIds,
               \/ Disband(u, t) \/ LeaveAsMember(u, t) \/ LeaveAsLeader(u, t)
               \/ UserApplyToTeam(u, t)
        PROVE Shrinks
    BY <1>4 DEF Disband, LeaveAsMember, LeaveAsLeader, UserApplyToTeam, TypeOK
  <1>5. ASSUME NEW u \in Users, NEW v \in Users, NEW t \in TeamIds,
               TransferLeader(u, v, t) \/ Expel(u, v, t) \/ TeamInvitesUser(u, v, t)
        PROVE Shrinks
    BY <1>5 DEF TransferLeader, Expel, TeamInvitesUser
  <1>6. ASSUME NEW u \in Users, NEW ids \in SUBSET LogIds, NEW st \in {"PASS", "FAIL"},
               UserDealWithInvitation(u, ids, st) \/ TeamDealWithApplication(u, ids, st)
        PROVE Shrinks
    BY <1>6 DEF UserDealWithInvitation, TeamDealWithApplication
  <1>7. CASE UNCHANGED vars
    BY <1>7, <1>2 DEF vars
  <1> QED
    <2> HIDE DEF Given, Shrinks
    <2> QED
      BY <1>1, <1>2, <1>3, <1>4, <1>5, <1>6, <1>7 DEF Next

\* The users of the rows a request writes: rows that stay rows of their user,
\* rows of answered logs, and the founder.
LEMMA NextOnlyCertified == TypeOK /\ OnlyCertified /\ [Next]_vars => OnlyCertified'
  <1> SUFFICES ASSUME TypeOK, OnlyCertified, [Next]_vars PROVE OnlyCertified'
    OBVIOUS
  <1> DEFINE MembersOk == \A m \in members' : m.uid \in Certified
  <1>1. CASE UNCHANGED vars
    BY <1>1 DEF vars, OnlyCertified
  <1>2. CASE Next
    <2>1. \A l \in logs' : l.uid \in Certified
      <3>1. LogStep
        BY <1>2, NextLogs
      <3>2. CASE LogsAnswered
        <4>1. PICK picked \in SUBSET logs, st \in {"PASS", "FAIL"} : SettleLogs(picked, st)
          BY <3>2 DEF LogsAnswered
        <4>2. \A l \in picked : [l EXCEPT !.status = st].uid = l.uid
          BY LogUpdate DEF TypeOK, ApplyStatus
        <4> QED
          BY <4>1, <4>2 DEF SettleLogs, OnlyCertified
      <3> QED
        BY <3>1, <3>2 DEF LogStep, LogsKept, LogAppended, OnlyCertified
    <2>2. ASSUME NEW u \in Users, NEW t \in TeamIds, NEW n \in Names,
                 CreateTeam(u, t, n) \/ UpdateTeamsBaseInfo(u, t, n)
          PROVE MembersOk
      BY <2>2 DEF CreateTeam, UpdateTeamsBaseInfo, OnlyCertified
    <2>3. ASSUME NEW u \in Users, NEW t \in TeamIds,
                 Disband(u, t) \/ LeaveAsMember(u, t) \/ UserApplyToTeam(u, t)
          PROVE MembersOk
      BY <2>3 DEF Disband, LeaveAsMember, UserApplyToTeam, OnlyCertified
    <2>0. ASSUME NEW rows \in SUBSET members, NEW b \in BOOLEAN
          PROVE \A m \in {[r EXCEPT !.leader = b] : r \in rows} : m.uid \in Certified
      <3>1. ASSUME NEW r \in rows PROVE [r EXCEPT !.leader = b].uid \in Certified
        <4>1. r \in MemberRow /\ r.uid \in Certified
          BY DEF OnlyCertified, TypeOK
        <4> QED
          BY <4>1, RowUpdate
      <3> QED
        BY <3>1
    <2>4. ASSUME NEW u \in Users, NEW t \in TeamIds, LeaveAsLeader(u, t)
          PROVE MembersOk
      <3> DEFINE rest == TeamRows(t) \ MemberRows(u, t)
      <3>1. \A m \in {[r EXCEPT !.leader = TRUE] : r \in rest} : m.uid \in Certified
        BY <2>0 DEF TeamRows
      <3>2. \A m \in members' : m \in members \/ m \in {[r EXCEPT !.leader = TRUE] : r \in rest}
        BY <2>4 DEF LeaveAsLeader
      <3> QED
        BY <3>1, <3>2 DEF OnlyCertified
    <2>5. ASSUME NEW u \in Users, NEW v \in Users, NEW t \in TeamIds, TransferLeader(u, v, t)
          PROVE MembersOk
      <3> DEFINE down == MemberRows(u, t) \ MemberRows(v, t)
                 up == MemberRows(v, t)
      <3>1. \A m \in {[r EXCEPT !.leader = FALSE] : r \in down} : m.uid \in Certified
        BY <2>0 DEF MemberRows
      <3>2. \A m \in {[r EXCEPT !.leader = TRUE] : r \in up} : m.uid \in Certified
        BY <2>0 DEF MemberRows
      <3>3. \A m \in members' :
              \/ m \in members
              \/ m \in {[r EXCEPT !.leader = FALSE] : r \in down}
              \/ m \in {[r EXCEPT !.leader = TRUE] : r \in up}
        BY <2>5 DEF TransferLeader
      <3> QED
        BY <3>1, <3>2, <3>3 DEF OnlyCertified
    <2>6. ASSUME NEW u \in Users, NEW v \in Users, NEW t \in TeamIds,
                 Expel(u, v, t) \/ TeamInvitesUser(u, v, t)
          PROVE MembersOk
      BY <2>6 DEF Expel, TeamInvitesUser, OnlyCertified
    <2>7. ASSUME NEW u \in Users, NEW ids \in SUBSET LogIds, NEW st \in {"PASS", "FAIL"},
                 UserDealWithInvitation(u, ids, st) \/ TeamDealWithApplication(u, ids, st)
          PROVE MembersOk
      BY <2>7, PickedAreLogs
         DEF UserDealWithInvitation, TeamDealWithApplication, SettleLogs, OnlyCertified
    <2>8. MembersOk
      <3> HIDE DEF MembersOk
      <3> QED
        BY <1>2, <2>2, <2>3, <2>4, <2>5, <2>6, <2>7 DEF Next
    <2> QED
      BY <2>1, <2>8 DEF OnlyCertified
  <1> QED
    BY <1>1, <1>2

LEMMA NextOneWaitingLog == TypeOK /\ OneWaitingLog /\ [Next]_vars => OneWaitingLog'
  <1> SUFFICES ASSUME TypeOK, OneWaitingLog, [Next]_vars PROVE OneWaitingLog'
    OBVIOUS
  <1>1. CASE UNCHANGED vars \/ LogsKept
    BY <1>1 DEF vars, LogsKept, OneWaitingLog
  <1>2. CASE LogAppended
    <2>1. PICK l \in LogRow : logs' = logs \cup {l} /\ ~ HasWaiting(l.uid, l.team, l.mode)
      BY <1>2 DEF LogAppended
    <2>2. \A k \in logs : k.status = "WAITING" =>
            ~ (k.uid = l.uid /\ k.team = l.team /\ k.mode = l.mode)
      BY <2>1 DEF HasWaiting, Waiting
    <2> QED
      BY <2>1, <2>2 DEF OneWaitingLog
  <1>3. CASE LogsAnswered
    <2>1. PICK picked \in SUBSET logs, st \in {"PASS", "FAIL"} : SettleLogs(picked, st)
      BY <1>3 DEF LogsAnswered
    <2>2. \A l \in picked : [l EXCEPT !.status = st].status # "WAITING"
      BY LogUpdate DEF TypeOK, ApplyStatus
    <2>3. \A l \in logs' : l.status = "WAITING" => l \in logs
      BY <2>1, <2>2 DEF SettleLogs
    <2> QED
      BY <2>3 DEF OneWaitingLog
  <1> QED
    BY <1>1, <1>2, <1>3, NextLogs DEF LogStep

\* Logs, names and certification, for every number of users, teams and logs.
THEOREM TeamsLogsAndNames == Spec => [](OneWaitingLog /\ DistinctNames /\ OnlyCertified)
  <1>1. Init => OneWaitingLog /\ DistinctNames /\ OnlyCertified
    BY DEF Init, OneWaitingLog, DistinctNames, OnlyCertified
  <1> QED
    BY <1>1, InitTypeOK, NextTypeOK, NextOneWaitingLog, NextDistinctNames,
       NextOnlyCertified, PTL DEF Spec

\* An answered application or invitation is never answered again.
THEOREM TeamsAnswerIsFinal == Spec => AnswerIsFinal
  <1>1. [Next]_vars => [\A l \in logs : l.status # "WAITING" => l \in logs']_vars
    <2> SUFFICES ASSUME Next
                 PROVE \A l \in logs : l.status # "WAITING" => l \in logs'
      OBVIOUS
    <2> QED
      BY NextLogs DEF LogStep, LogsKept, LogAppended, LogsAnswered, SettleLogs
  <1> QED
    BY <1>1, PTL DEF Spec, AnswerIsFinal
=============================================================================
