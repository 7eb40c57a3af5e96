------------------------ MODULE Certification_proofs ------------------------
(* Audits add up to the roles of a user, for any users, rows and requests.   *)
EXTENDS Certification, TLAPS

\* A row once read is still a row of the same user, if perhaps deleted.
SeenRows ==
    \A r \in Requests :
        request[r].at \in {"auditing", "tagging"} =>
            /\ request[r].seen.live
            /\ info[request[r].id] \in Info
            /\ info[request[r].id].uid = request[r].seen.uid
            /\ request[r].seen.status = "WAITING" => request[r].seen.role \in Roles

\* Only audits turn the role of a row into a sum of roles.
WaitingRoles ==
    \A i \in Ids : info[i].status = "WAITING" => info[i].role \in Roles

Basics == TypeOK /\ SeenRows /\ WaitingRoles

\* What holds of a user none of whose requests overlapped.
PassOK(u) ==
    /\ \A i, j \in Rows(u, "PASS") : i = j
    /\ \A i \in Rows(u, "PASS") : info[i].role = roles[u]

\* The sum consists of different bits, so that it has no carry.
SumOK(u) ==
    /\ roles[u] \in 0..15
    /\ \A role \in Roles : Has(roles[u], role) <=> role \in granted[u]
    /\ granted[u] # {} <=> Rows(u, "PASS") # {}

WaitOK(u) ==
    /\ \A i, j \in Rows(u, "WAITING") : i = j
    /\ \A i \in Rows(u, "WAITING") : ~Has(roles[u], info[i].role)

UserOK(u) ==
    /\ u \notin stale => PassOK(u)
    /\ u \notin stale \cup reaudited => SumOK(u) /\ WaitOK(u)

\* What an application saw when it passed its checks.
ApplicationsPassed ==
    \A r \in Requests : request[r].at = "applying" =>
        request[r].waiting = {} /\ ~Has(request[r].roles, request[r].role)

IInv == Basics /\ ApplicationsPassed /\ \A u \in Users : UserOK(u)

----------------------------------------------------------------------------
(* Bits.                                                                     *)

\* Adding a bit that is not in a mask of four bits sets that bit and no other.
LEMMA AddingABit ==
    ASSUME NEW mask \in 0..15, NEW a \in {1, 2, 4, 8}, ~Has(mask, a)
    PROVE  /\ mask + a \in 0..15
           /\ \A b \in {1, 2, 4, 8} : Has(mask + a, b) <=> (Has(mask, b) \/ b = a)
<1>1. CASE a = 1
  BY <1>1 DEF Has
<1>2. CASE a = 2
  BY <1>2 DEF Has
<1>3. CASE a = 4
  BY <1>3 DEF Has
<1>4. CASE a = 8
  BY <1>4 DEF Has
<1> QED
  BY <1>1, <1>2, <1>3, <1>4

\* No bit is in 0.
LEMMA NoBit ==
    ASSUME NEW a \in {1, 2, 4, 8}
    PROVE  ~Has(0, a)
<1>1. CASE a = 1
  BY <1>1 DEF Has
<1>2. CASE a = 2
  BY <1>2 DEF Has
<1>3. CASE a = 4
  BY <1>3 DEF Has
<1>4. CASE a = 8
  BY <1>4 DEF Has
<1> QED
  BY <1>1, <1>2, <1>3, <1>4

----------------------------------------------------------------------------
(* The basics.                                                               *)

\* What a request that has seen a row knows of it.
LEMMA Seen ==
    ASSUME TypeOK, SeenRows, NEW r \in Requests,
           request[r].at \in {"auditing", "tagging"}
    PROVE  /\ request[r].id \in Ids
           /\ request[r].seen \in Info
           /\ request[r].seen.live
           /\ info[request[r].id] \in Info
           /\ info[request[r].id].uid = request[r].seen.uid
           /\ request[r].seen.status = "WAITING" => request[r].seen.role \in Roles
           /\ request[r].at = "auditing" => request[r].roles \in Nat
  BY DEF TypeOK, SeenRows, Request, New, Done

\* The rows stay with their users, and there is no way back to no row.
LEMMA SeenStay ==
    ASSUME SeenRows, TypeOK, NEW r \in Requests, request'[r] = Done,
           \A s \in Requests \ {r} : request'[s] = request[s],
           \A i \in Ids : info[i] \in Info =>
               info'[i] \in Info /\ info'[i].uid = info[i].uid
    PROVE  SeenRows'
<1> SUFFICES ASSUME NEW s \in Requests, request'[s].at \in {"auditing", "tagging"}
             PROVE  /\ request'[s].seen.live
                    /\ info'[request'[s].id] \in Info
                    /\ info'[request'[s].id].uid = request'[s].seen.uid
                    /\ request'[s].seen.status = "WAITING" => request'[s].seen.role \in Roles
  BY DEF SeenRows
<1>1. s # r
  BY DEF Done
<1>2. request'[s] = request[s]
  BY <1>1
<1> QED
  BY <1>2, Seen

\* The initial state.
LEMMA InitBasics == Init => Basics
  BY DEF Init, Basics, TypeOK, SeenRows, WaitingRoles, Request, NoInfo, New, Done

\* An application that passes its checks remembers a user and a role.
LEMMA BasicsApply ==
    ASSUME Basics, NEW r \in Requests, NEW u \in Users, NEW role \in Roles,
           ApplyForCertification(r, u, role)
    PROVE  Basics'
<1> DEFINE q == [at |-> "applying", uid |-> u, role |-> role,
                 waiting |-> Rows(u, "WAITING"), roles |-> roles[u]]
<1>1. q \in Request
  BY DEF Request, Rows, Basics, TypeOK
<1>2. request' = [request EXCEPT ![r] = q] /\ UNCHANGED <<info, roles, granted, stale, reaudited>>
  BY DEF ApplyForCertification, Applying
<1> QED
  BY <1>1, <1>2 DEF Basics, TypeOK, SeenRows, WaitingRoles

\* A saved application is the first row under its id.
LEMMA BasicsSave ==
    ASSUME Basics, NEW r \in Requests, NEW i \in Ids, Save(r, i)
    PROVE  Basics'
<1> DEFINE row == [uid |-> request[r].uid, role |-> request[r].role, status |-> "WAITING", live |-> TRUE]
<1> USE DEF Basics
<1>1. request[r].uid \in Users /\ request[r].role \in Roles /\ Roles \subseteq Nat
  BY RolesAreBits DEF TypeOK, Request, New, Done, Save
<1>2. row \in Info
  BY <1>1 DEF Info
<1>3. TypeOK'
  BY <1>1, <1>2 DEF TypeOK, Save, Request, MarkIf
<1>4. SeenRows'
  <2>1. \A j \in Ids : info[j] \in Info => info'[j] \in Info /\ info'[j].uid = info[j].uid
    BY DEF Save, TypeOK, NoInfo, Info
  <2>2. request'[r] = Done /\ \A s \in Requests \ {r} : request'[s] = request[s]
    BY DEF Save, TypeOK
  <2> QED
    BY <2>1, <2>2, SeenStay
<1>5. WaitingRoles'
  BY <1>1 DEF WaitingRoles, Save, TypeOK
<1> QED
  BY <1>3, <1>4, <1>5

\* An audit starts with a row that is there.
LEMMA BasicsVerify ==
    ASSUME Basics, NEW r \in Requests, NEW i \in Ids, NEW verdict \in {"PASS", "FAIL"},
           VerifyUserInfo(r, i, verdict)
    PROVE  Basics'
<1> DEFINE q == [at |-> "auditing", id |-> i, verdict |-> verdict,
                 seen |-> info[i], roles |-> roles[info[i].uid]]
<1> USE DEF Basics
<1>1. info[i] \in Info /\ info[i].live
  BY DEF TypeOK, NoInfo, VerifyUserInfo
<1>2. info[i].uid \in Users
  BY <1>1 DEF Info
<1>3. q \in Request
  BY <1>1, <1>2 DEF Request, TypeOK
<1>4. request' = [request EXCEPT ![r] = q] /\ UNCHANGED <<info, roles, granted, stale, reaudited>>
  BY DEF VerifyUserInfo
<1> QED
  BY <1>1, <1>3, <1>4 DEF TypeOK, SeenRows, WaitingRoles

\* So does a change of the tags.
LEMMA BasicsTags ==
    ASSUME Basics, NEW r \in Requests, NEW i \in Ids, SaveUserTags(r, i)
    PROVE  Basics'
<1> DEFINE q == [at |-> "tagging", id |-> i, seen |-> info[i]]
<1> USE DEF Basics
<1>1. info[i] \in Info /\ info[i].live
  BY DEF TypeOK, NoInfo, SaveUserTags
<1>2. q \in Request
  BY <1>1 DEF Request
<1>3. request' = [request EXCEPT ![r] = q] /\ UNCHANGED <<info, roles, granted, stale, reaudited>>
  BY DEF SaveUserTags
<1> QED
  BY <1>1, <1>2, <1>3 DEF TypeOK, SeenRows, WaitingRoles

\* Edits of the user do not touch the rows of user_info.
LEMMA BasicsUser ==
    ASSUME Basics, NEW r \in Requests,
           (\E u \in Users : EditUser(r, u)) \/ WriteUser(r)
    PROVE  Basics'
<1> USE DEF Basics
<1>1. ASSUME NEW u \in Users, EditUser(r, u)
      PROVE  Basics'
  <2>1. [at |-> "editing", uid |-> u, roles |-> roles[u]] \in Request
    BY DEF TypeOK, Request
  <2> QED
    BY <1>1, <2>1 DEF TypeOK, SeenRows, WaitingRoles, EditUser
<1>2. ASSUME WriteUser(r)
      PROVE  Basics'
  <2>1. request[r].uid \in Users /\ request[r].roles \in Nat
    BY <1>2 DEF TypeOK, Request, New, Done, WriteUser
  <2>2. TypeOK'
    BY <1>2, <2>1 DEF TypeOK, Request, WriteUser, MarkIf
  <2>3. SeenRows'
    BY <1>2, SeenStay DEF TypeOK, WriteUser
  <2> QED
    BY <1>2, <2>2, <2>3 DEF WaitingRoles, WriteUser
<1> QED
  BY <1>1, <1>2

\* A request that writes a row back, whatever rows it removes before.
LEMMA BasicsWrite ==
    ASSUME Basics, NEW r \in Requests, request'[r] = Done,
           \A s \in Requests \ {r} : request'[s] = request[s],
           request[r].at \in {"auditing", "tagging"},
           NEW rows, rows = info \/ rows = Removed(request[r].seen.uid),
           NEW new \in Info, new.uid = request[r].seen.uid,
           new.status = "WAITING" => new.role \in Roles,
           info' = UpdateById(rows, request[r].id, new)
    PROVE  /\ info' \in [Ids -> {NoInfo} \cup Info]
           /\ SeenRows'
           /\ WaitingRoles'
<1> DEFINE i == request[r].id
<1> USE DEF Basics
<1>1. /\ i \in Ids
      /\ info[i] \in Info
      /\ info[i].uid = request[r].seen.uid
  BY Seen
<1>2. /\ rows \in [Ids -> {NoInfo} \cup Info]
      /\ \A j \in Ids : /\ info[j] \in Info => rows[j] \in Info /\ rows[j].uid = info[j].uid
                        /\ rows[j].status = info[j].status
                        /\ rows[j].status = "WAITING" => rows[j].role = info[j].role
  <2>1. CASE rows = info
    BY <2>1 DEF TypeOK
  <2>2. CASE rows = Removed(request[r].seen.uid)
    <3> SUFFICES ASSUME NEW j \in Ids
                 PROVE  /\ rows[j] \in {NoInfo} \cup Info
                        /\ info[j] \in Info => rows[j] \in Info /\ rows[j].uid = info[j].uid
                        /\ rows[j].status = info[j].status
                        /\ rows[j].status = "WAITING" => rows[j].role = info[j].role
      BY <2>2 DEF Removed
    <3>1. CASE j \in Rows(request[r].seen.uid, "PASS")
      <4>1. info[j] \in Info
        BY <3>1 DEF TypeOK, NoInfo, Rows
      <4>2. rows[j] = [info[j] EXCEPT !.live = FALSE]
        BY <2>2, <3>1 DEF Removed
      <4> QED
        BY <4>1, <4>2 DEF Info
    <3>2. CASE j \notin Rows(request[r].seen.uid, "PASS")
      BY <2>2, <3>2 DEF Removed, TypeOK
    <3> QED
      BY <3>1, <3>2
  <2> QED
    BY <2>1, <2>2
<1>3. \A j \in Ids : info'[j] = rows[j] \/ (j = i /\ info'[j] = new)
  BY <1>1, <1>2 DEF UpdateById
<1>4. info' \in [Ids -> {NoInfo} \cup Info]
  BY <1>1, <1>2 DEF UpdateById
<1>5. SeenRows'
  <2>1. \A j \in Ids : info[j] \in Info => info'[j] \in Info /\ info'[j].uid = info[j].uid
    BY <1>1, <1>2, <1>3
  <2> QED
    BY <2>1, SeenStay
<1>6. WaitingRoles'
  BY <1>2, <1>3 DEF WaitingRoles
<1> QED
  BY <1>4, <1>5, <1>6

\* A refusal writes a row of the same user.
LEMMA BasicsRefuse ==
    ASSUME Basics, NEW r \in Requests, Refuse(r)
    PROVE  Basics'
<1> DEFINE new == [request[r].seen EXCEPT !.status = "FAIL"]
<1> USE DEF Basics
<1>1. request[r].seen \in Info
  BY Seen DEF Refuse
<1>2. /\ new \in Info
      /\ new.uid = request[r].seen.uid
      /\ new.status # "WAITING"
  BY <1>1 DEF Info
<1>3. request'[r] = Done /\ \A s \in Requests \ {r} : request'[s] = request[s]
  BY DEF Refuse, TypeOK
<1>4. /\ info' \in [Ids -> {NoInfo} \cup Info]
      /\ SeenRows'
      /\ WaitingRoles'
  BY <1>2, <1>3, BasicsWrite DEF Refuse
<1>5. TypeOK'
  BY <1>1, <1>4 DEF TypeOK, Refuse, Request, MarkIf, Info
<1> QED
  BY <1>4, <1>5

\* An approval does, too, after it removed others.
LEMMA BasicsApprove ==
    ASSUME Basics, NEW r \in Requests, Approve(r)
    PROVE  Basics'
<1> DEFINE sum == request[r].roles + request[r].seen.role
           new == [request[r].seen EXCEPT !.role = sum, !.status = "PASS"]
<1> USE DEF Basics
<1>1. /\ request[r].seen \in Info
      /\ request[r].id \in Ids
      /\ request[r].roles \in Nat
      /\ request[r].seen.uid \in Users
      /\ request[r].seen.status = "WAITING" => request[r].seen.role \in Roles
  BY Seen DEF Approve, Info
<1>2. sum \in Nat
  BY <1>1 DEF Info
<1>3. /\ new \in Info
      /\ new.uid = request[r].seen.uid
      /\ new.status # "WAITING"
  BY <1>1, <1>2 DEF Info
<1>4. request'[r] = Done /\ \A s \in Requests \ {r} : request'[s] = request[s]
  BY DEF Approve, TypeOK
<1>5. /\ info' \in [Ids -> {NoInfo} \cup Info]
      /\ SeenRows'
      /\ WaitingRoles'
  BY <1>3, <1>4, BasicsWrite DEF Approve
<1>6. TypeOK'
  BY <1>1, <1>2, <1>5 DEF TypeOK, Approve, Request, MarkIf
<1> QED
  BY <1>5, <1>6

\* A change of the tags writes back the row it read.
LEMMA BasicsWriteInfo ==
    ASSUME Basics, NEW r \in Requests, WriteInfo(r)
    PROVE  Basics'
<1> USE DEF Basics
<1>1. /\ request[r].seen \in Info
      /\ request[r].seen.uid \in Users
      /\ request[r].seen.status = "WAITING" => request[r].seen.role \in Roles
  BY Seen DEF WriteInfo, Info
<1>2. request'[r] = Done /\ \A s \in Requests \ {r} : request'[s] = request[s]
  BY DEF WriteInfo, TypeOK
<1>3. /\ info' \in [Ids -> {NoInfo} \cup Info]
      /\ SeenRows'
      /\ WaitingRoles'
  BY <1>1, <1>2, BasicsWrite DEF WriteInfo
<1>4. TypeOK'
  BY <1>1, <1>3 DEF TypeOK, WriteInfo, Request, MarkIf
<1> QED
  BY <1>3, <1>4

----------------------------------------------------------------------------
(* The users.                                                                *)

\* A user whose rows, roles and grants a request leaves alone is as before.
LEMMA UserKept ==
    ASSUME NEW u \in Users, UserOK(u), stale \subseteq stale', reaudited \subseteq reaudited',
           Rows(u, "PASS")' = Rows(u, "PASS"),
           Rows(u, "WAITING")' = Rows(u, "WAITING"),
           \A i \in Rows(u, "PASS") \cup Rows(u, "WAITING") : info'[i] = info[i],
           roles'[u] = roles[u], granted'[u] = granted[u]
    PROVE  UserOK(u)'
<1>1. ASSUME u \notin stale'
      PROVE  PassOK(u)'
  BY <1>1 DEF UserOK, PassOK
<1>2. ASSUME u \notin stale' \cup reaudited'
      PROVE  SumOK(u)' /\ WaitOK(u)'
  <2>1. SumOK(u) /\ WaitOK(u)
    BY <1>2 DEF UserOK
  <2>2. SumOK(u)'
    BY <2>1 DEF SumOK
  <2>3. WaitOK(u)'
    BY <2>1 DEF WaitOK
  <2> QED
    BY <2>2, <2>3
<1> QED
  BY <1>1, <1>2 DEF UserOK

\* A saved application is the only one that waits, or the user is stale.
LEMMA UsersSave ==
    ASSUME IInv, NEW r \in Requests, NEW i \in Ids, Save(r, i), NEW u \in Users
    PROVE  UserOK(u)'
<1> DEFINE v == request[r].uid
           role == request[r].role
<1> USE DEF IInv, Basics
<1>1. /\ stale \subseteq stale' /\ reaudited' = reaudited /\ granted' = granted /\ roles' = roles
      /\ info'[i] = [uid |-> v, role |-> role, status |-> "WAITING", live |-> TRUE]
      /\ \A j \in Ids \ {i} : info'[j] = info[j]
      /\ info[i] = NoInfo
      /\ UserOK(u)
  BY DEF Save, MarkIf, TypeOK
<1>2. Rows(u, "PASS")' = Rows(u, "PASS") /\ i \notin Rows(u, "PASS")
  BY <1>1 DEF Rows, NoInfo
<1>3. Rows(u, "WAITING")' = (IF u = v THEN Rows(u, "WAITING") \cup {i} ELSE Rows(u, "WAITING"))
  BY <1>1 DEF Rows, NoInfo
<1>4. i \notin Rows(u, "WAITING")
  BY <1>1 DEF Rows, NoInfo
<1>5. \A j \in Rows(u, "PASS") \cup Rows(u, "WAITING") : j \in Ids \ {i} /\ info'[j] = info[j]
  BY <1>1, <1>2, <1>4 DEF Rows
<1>6. CASE u # v
  BY <1>1, <1>2, <1>3, <1>5, <1>6, UserKept
<1>7. CASE u = v
  <2>1. u \notin stale' => Rows(u, "WAITING") = {} /\ ~Has(roles[u], role)
    BY <1>7 DEF Save, MarkIf, ApplicationsPassed
  <2>2. ASSUME u \notin stale'
        PROVE  PassOK(u)'
    BY <2>2, <1>1, <1>2, <1>5 DEF UserOK, PassOK
  <2>3. ASSUME u \notin stale' \cup reaudited'
        PROVE  SumOK(u)' /\ WaitOK(u)'
    <3>1. SumOK(u)'
      BY <2>3, <1>1, <1>2 DEF UserOK, SumOK
    <3>2. Rows(u, "WAITING")' = {i} /\ ~Has(roles[u], role)
      BY <2>1, <2>3, <1>3, <1>7
    <3>3. WaitOK(u)'
      BY <3>2, <1>1 DEF WaitOK
    <3> QED
      BY <3>1, <3>3
  <2> QED
    BY <2>2, <2>3 DEF UserOK
<1> QED
  BY <1>6, <1>7

\* An edit of the user writes the same roles, or the user is stale.
LEMMA UsersWriteUser ==
    ASSUME IInv, NEW r \in Requests, WriteUser(r), NEW u \in Users
    PROVE  UserOK(u)'
<1>1. \/ roles'[u] = roles[u]
      \/ u \in stale'
  BY DEF IInv, Basics, TypeOK, WriteUser, MarkIf
<1>2. /\ stale \subseteq stale' /\ UNCHANGED <<info, granted, reaudited>>
      /\ \A st : Rows(u, st)' = Rows(u, st)
  BY DEF WriteUser, MarkIf, Rows
<1>3. CASE u \in stale'
  BY <1>3 DEF UserOK
<1>4. CASE roles'[u] = roles[u]
  BY <1>2, <1>4, UserKept DEF IInv
<1> QED
  BY <1>1, <1>3, <1>4

\* The rows of the other users when a row is written back.
LEMMA OtherRows ==
    ASSUME TypeOK, NEW v \in Users, NEW i \in Ids, info[i].uid = v, info[i] \in Info,
           NEW rows, rows = info \/ rows = Removed(v),
           NEW new \in Info, new.uid = v,
           info' = UpdateById(rows, i, new),
           NEW u \in Users, u # v, NEW st
    PROVE  /\ Rows(u, st)' = Rows(u, st)
           /\ \A j \in Rows(u, st) : info'[j] = info[j]
<1>1. \A j \in Ids : info[j].live /\ info[j].uid = u => rows[j] = info[j] /\ j # i
  BY DEF Removed, Rows
<1>2. \A j \in Ids : rows[j].live => info[j].live /\ rows[j].uid = info[j].uid
  <2>1. CASE rows = info
    BY <2>1
  <2>2. CASE rows = Removed(v)
    <3> SUFFICES ASSUME NEW j \in Ids, rows[j].live
                 PROVE  info[j].live /\ rows[j].uid = info[j].uid
      OBVIOUS
    <3>1. CASE j \in Rows(v, "PASS")
      <4>1. info[j] \in Info
        BY <3>1 DEF TypeOK, NoInfo, Rows
      <4> QED
        BY <2>2, <3>1, <4>1 DEF Removed, Info
    <3>2. CASE j \notin Rows(v, "PASS")
      BY <2>2, <3>2 DEF Removed
    <3> QED
      BY <3>1, <3>2
  <2> QED
    BY <2>1, <2>2
<1>3. rows \in [Ids -> {NoInfo} \cup Info] \/ DOMAIN rows = Ids
  BY DEF TypeOK, Removed
<1>4. \A j \in Ids \ {i} : info'[j] = rows[j]
  BY <1>3 DEF UpdateById, TypeOK
<1>5. info'[i] = new \/ info'[i] = rows[i]
  BY <1>3 DEF UpdateById, TypeOK
<1>6. i \notin Rows(u, st) /\ i \notin Rows(u, st)'
  BY <1>2, <1>5 DEF Rows
<1> QED
  BY <1>1, <1>2, <1>4, <1>6 DEF Rows

\* A change of the tags writes the same row, or the user is stale.
LEMMA UsersWriteInfo ==
    ASSUME IInv, NEW r \in Requests, WriteInfo(r), NEW u \in Users
    PROVE  UserOK(u)'
<1> DEFINE i == request[r].id
           seen == request[r].seen
<1> USE DEF IInv, Basics
<1>1. /\ i \in Ids /\ seen \in Info /\ seen.uid \in Users
      /\ info[i] \in Info /\ info[i].uid = seen.uid
  BY Seen DEF WriteInfo, Info
<1>2. /\ stale \subseteq stale' /\ UNCHANGED <<roles, granted, reaudited>>
      /\ info' = UpdateById(info, i, seen)
  BY DEF WriteInfo, MarkIf
<1>3. CASE u # seen.uid
  <2>1. \A st : Rows(u, st)' = Rows(u, st) /\ \A j \in Rows(u, st) : info'[j] = info[j]
    <3> SUFFICES ASSUME NEW st
                 PROVE  Rows(u, st)' = Rows(u, st) /\ \A j \in Rows(u, st) : info'[j] = info[j]
      OBVIOUS
    <3> QED
      BY <1>1, <1>2, <1>3, OtherRows
  <2> QED
    BY <1>2, <2>1, UserKept
<1>4. CASE u = seen.uid /\ u \notin stale'
  <2>1. ~info[i].live \/ info[i] = seen
    BY <1>4 DEF WriteInfo, MarkIf
  <2>2. info' = info
    BY <1>1, <1>2, <2>1 DEF UpdateById, TypeOK
  <2>3. \A st : Rows(u, st)' = Rows(u, st)
    BY <2>2 DEF Rows
  <2> QED
    BY <1>2, <2>2, <2>3, UserKept
<1>5. CASE u \in stale'
  BY <1>5 DEF UserOK
<1> QED
  BY <1>3, <1>4, <1>5

\* A refusal takes a row from those that wait, or the user was audited again.
LEMMA UsersRefuse ==
    ASSUME IInv, NEW r \in Requests, Refuse(r), NEW u \in Users
    PROVE  UserOK(u)'
<1> DEFINE i == request[r].id
           seen == request[r].seen
           new == [seen EXCEPT !.status = "FAIL"]
<1> USE DEF IInv, Basics
<1>1. /\ i \in Ids /\ seen \in Info /\ seen.uid \in Users
      /\ info[i] \in Info /\ info[i].uid = seen.uid
  BY Seen DEF Refuse, Info
<1>2. /\ stale \subseteq stale' /\ reaudited \subseteq reaudited' /\ UNCHANGED <<roles, granted>>
      /\ info' = UpdateById(info, i, new)
  BY DEF Refuse, MarkIf
<1>3. new \in Info /\ new.uid = seen.uid /\ new.status = "FAIL"
  BY <1>1 DEF Info
<1>4. CASE u # seen.uid
  <2>1. \A st : Rows(u, st)' = Rows(u, st) /\ \A j \in Rows(u, st) : info'[j] = info[j]
    <3> SUFFICES ASSUME NEW st
                 PROVE  Rows(u, st)' = Rows(u, st) /\ \A j \in Rows(u, st) : info'[j] = info[j]
      OBVIOUS
    <3> QED
      BY <1>1, <1>2, <1>3, <1>4, OtherRows
  <2> QED
    BY <1>2, <2>1, UserKept
<1>5. CASE u = seen.uid /\ u \notin stale'
  <2>1. /\ \A j \in Ids \ {i} : info'[j] = info[j]
        /\ info'[i] = info[i] \/ info'[i] = new
    BY <1>1, <1>2 DEF UpdateById, TypeOK
  <2>2. \A st \in {"PASS", "WAITING"} :
           /\ Rows(u, st)' \subseteq Rows(u, st)
           /\ Rows(u, st) \subseteq Rows(u, st)' \cup {i}
           /\ \A j \in Rows(u, st)' : info'[j] = info[j]
    BY <1>1, <1>3, <2>1 DEF Rows
  <2>3. PassOK(u) /\ PassOK(u)'
    BY <1>2, <1>5, <2>2 DEF UserOK, PassOK
  <2>4. ASSUME u \notin reaudited'
        PROVE  SumOK(u)' /\ WaitOK(u)'
    <3>1. SumOK(u) /\ WaitOK(u)
      BY <1>2, <1>5, <2>4 DEF UserOK
    <3>2. seen.status = "WAITING"
      BY <1>5, <2>4 DEF Refuse, MarkIf
    <3>3. ~info[i].live \/ info[i] = seen
      BY <1>5 DEF Refuse, MarkIf
    <3>4. i \notin Rows(u, "PASS")
      BY <3>2, <3>3 DEF Rows
    <3>5. Rows(u, "PASS")' = Rows(u, "PASS")
      BY <2>2, <3>4
    <3>6. SumOK(u)'
      BY <1>2, <3>1, <3>5 DEF SumOK
    <3>7. WaitOK(u)'
      BY <1>2, <2>2, <3>1 DEF WaitOK
    <3> QED
      BY <3>6, <3>7
  <2> QED
    BY <2>3, <2>4 DEF UserOK
<1>6. CASE u \in stale'
  BY <1>6 DEF UserOK
<1> QED
  BY <1>4, <1>5, <1>6

\* An approval adds a bit and leaves one row that PASSes.
LEMMA UsersApprove ==
    ASSUME IInv, NEW r \in Requests, Approve(r), NEW u \in Users
    PROVE  UserOK(u)'
<1> DEFINE i == request[r].id
           seen == request[r].seen
           sum == request[r].roles + seen.role
           new == [seen EXCEPT !.role = sum, !.status = "PASS"]
<1> USE DEF IInv, Basics
<1>1. /\ i \in Ids /\ seen \in Info /\ seen.live /\ seen.uid \in Users
      /\ info[i] \in Info /\ info[i].uid = seen.uid
      /\ request[r].roles \in Nat
      /\ seen.status = "WAITING" => seen.role \in Roles
  BY Seen DEF Approve, Info
<1>2. /\ stale \subseteq stale' /\ reaudited \subseteq reaudited'
      /\ roles' = [roles EXCEPT ![seen.uid] = sum]
      /\ info' = UpdateById(Removed(seen.uid), i, new)
  BY DEF Approve, MarkIf
<1>3. new \in Info /\ new.uid = seen.uid /\ new.status = "PASS" /\ new.role = sum /\ new.live
  <2>1. sum \in Nat
    BY <1>1 DEF Info
  <2> QED
    BY <1>1, <2>1 DEF Info
<1>4. CASE u # seen.uid
  <2>1. \A st : Rows(u, st)' = Rows(u, st) /\ \A j \in Rows(u, st) : info'[j] = info[j]
    <3> SUFFICES ASSUME NEW st
                 PROVE  Rows(u, st)' = Rows(u, st) /\ \A j \in Rows(u, st) : info'[j] = info[j]
      OBVIOUS
    <3> QED
      BY <1>1, <1>2, <1>3, <1>4, OtherRows
  <2>2. roles'[u] = roles[u] /\ granted'[u] = granted[u]
    BY <1>2, <1>4 DEF TypeOK, Approve
  <2> QED
    BY <1>2, <2>1, <2>2, UserKept
<1>5. CASE u = seen.uid /\ u \notin stale'
  <2> DEFINE rows == Removed(u)
  <2>1. info[i] = seen /\ roles[u] = request[r].roles /\ roles'[u] = sum
    BY <1>2, <1>5 DEF Approve, MarkIf, TypeOK
  <2>2. \A j \in Ids \ {i} : info'[j] = rows[j]
    BY <1>1, <1>2, <1>5 DEF UpdateById, Removed
  <2>3. IF i \in Rows(u, "PASS") THEN ~info'[i].live ELSE info'[i] = new
    BY <1>1, <1>2, <1>5, <2>1 DEF UpdateById, Removed, Info
  <2>4. \A j \in Ids : rows[j].live => rows[j] = info[j] /\ j \notin Rows(u, "PASS")
    <3> SUFFICES ASSUME NEW j \in Ids, rows[j].live
                 PROVE  rows[j] = info[j] /\ j \notin Rows(u, "PASS")
      OBVIOUS
    <3>1. CASE j \in Rows(u, "PASS")
      <4>1. info[j] \in Info
        BY <3>1 DEF TypeOK, NoInfo, Rows
      <4> QED
        BY <3>1, <4>1 DEF Removed, Info
    <3> QED
      BY <3>1 DEF Removed
  <2>5. Rows(u, "PASS")' = IF i \in Rows(u, "PASS") THEN {} ELSE {i}
    <3>1. Rows(u, "PASS")' \subseteq {i}
      BY <2>2, <2>4 DEF Rows
    <3>2. i \in Rows(u, "PASS")' <=> i \notin Rows(u, "PASS")
      BY <1>1, <1>3, <1>5, <2>3 DEF Rows
    <3> QED
      BY <3>1, <3>2
  <2>6. /\ Rows(u, "WAITING")' \subseteq Rows(u, "WAITING") \ {i}
        /\ \A j \in Rows(u, "WAITING")' : info'[j] = info[j]
    BY <1>3, <2>2, <2>3, <2>4 DEF Rows
  <2>7. PassOK(u)'
    BY <1>3, <2>1, <2>3, <2>5 DEF PassOK
  <2>8. ASSUME u \notin reaudited'
        PROVE  SumOK(u)' /\ WaitOK(u)'
    <3>1. SumOK(u) /\ WaitOK(u)
      BY <1>2, <1>5, <2>8 DEF UserOK
    <3>2. seen.status = "WAITING"
      BY <1>5, <2>8 DEF Approve, MarkIf
    <3>3. i \in Rows(u, "WAITING") /\ i \notin Rows(u, "PASS") /\ seen.role \in Roles
      BY <1>1, <1>5, <2>1, <3>2 DEF Rows
    <3>4. roles[u] \in 0..15 /\ ~Has(roles[u], seen.role)
      BY <2>1, <3>1, <3>3 DEF SumOK, WaitOK
    <3>5. /\ sum \in 0..15
          /\ \A role \in Roles : Has(sum, role) <=> (Has(roles[u], role) \/ role = seen.role)
      <4>1. seen.role \in {1, 2, 4, 8} /\ sum = roles[u] + seen.role
        BY <2>1, <3>3, RolesAreBits
      <4>2. /\ roles[u] + seen.role \in 0..15
            /\ \A b \in {1, 2, 4, 8} : Has(roles[u] + seen.role, b) <=> (Has(roles[u], b) \/ b = seen.role)
        BY <3>4, <4>1, AddingABit
      <4> QED
        BY <4>1, <4>2, RolesAreBits
    <3>6. granted'[u] = granted[u] \cup {seen.role}
      BY <1>5, <3>2 DEF Approve, TypeOK
    <3>7. SumOK(u)'
      BY <2>1, <2>5, <3>1, <3>3, <3>5, <3>6 DEF SumOK
    <3>8. Rows(u, "WAITING")' = {}
      BY <2>6, <3>1, <3>3 DEF WaitOK
    <3>9. WaitOK(u)'
      BY <3>8 DEF WaitOK
    <3> QED
      BY <3>7, <3>9
  <2> QED
    BY <2>7, <2>8 DEF UserOK
<1>6. CASE u \in stale'
  BY <1>6 DEF UserOK
<1> QED
  BY <1>4, <1>5, <1>6

----------------------------------------------------------------------------
(* The invariant and what follows from it.                                   *)

\* Nobody has applied for anything.
LEMMA InitIInv == Init => IInv
<1> SUFFICES ASSUME Init
             PROVE  IInv
  OBVIOUS
<1>1. Basics /\ ApplicationsPassed
  BY InitBasics DEF Init, ApplicationsPassed, New
<1>2. \A u \in Users : Rows(u, "PASS") = {} /\ Rows(u, "WAITING") = {} /\ roles[u] = 0 /\ granted[u] = {}
  BY DEF Init, Rows, NoInfo
<1>3. \A role \in Roles : ~Has(0, role)
  BY NoBit, RolesAreBits
<1>4. ASSUME NEW u \in Users
      PROVE  UserOK(u)
  <2>1. PassOK(u) /\ WaitOK(u)
    BY <1>2 DEF PassOK, WaitOK
  <2>2. SumOK(u)
    <3>1. roles[u] \in 0..15
      BY <1>2
    <3>2. \A role \in Roles : Has(roles[u], role) <=> role \in granted[u]
      BY <1>2, <1>3
    <3>3. granted[u] # {} <=> Rows(u, "PASS") # {}
      BY <1>2
    <3> QED
      BY <3>1, <3>2, <3>3 DEF SumOK
  <2> QED
    BY <2>1, <2>2 DEF UserOK
<1> QED
  BY <1>1, <1>4 DEF IInv

\* Only an application that passes its checks comes to wait for its uploads.
LEMMA NextPassed == TypeOK /\ ApplicationsPassed /\ Next => ApplicationsPassed'
<1> SUFFICES ASSUME TypeOK, ApplicationsPassed, NEW r \in Requests, NEW q,
                    request' = [request EXCEPT ![r] = q],
                    q.at = "applying" => q.waiting = {} /\ ~Has(q.roles, q.role)
             PROVE  ApplicationsPassed'
  BY DEF Next, ApplyForCertification, Applying, Save, VerifyUserInfo, Refuse, Approve,
         EditUser, WriteUser, SaveUserTags, WriteInfo, Done
<1> QED
  BY DEF TypeOK, ApplicationsPassed

\* A request that only reads changes nothing the users can tell.
LEMMA UsersRead ==
    ASSUME IInv, UNCHANGED <<info, roles, granted, stale, reaudited>>, NEW u \in Users
    PROVE  UserOK(u)'
<1>1. \A st : Rows(u, st)' = Rows(u, st)
  BY DEF Rows
<1> QED
  BY <1>1, UserKept DEF IInv

\* Every request preserves the invariant.
LEMMA NextIInv == IInv /\ [Next]_vars => IInv'
<1> SUFFICES ASSUME IInv, [Next]_vars
             PROVE  IInv'
  OBVIOUS
<1>0. Basics
  BY DEF IInv
<1>1. CASE UNCHANGED vars
  <2>1. Basics'
    BY <1>0, <1>1 DEF Basics, TypeOK, SeenRows, WaitingRoles, vars
  <2> QED
    BY <1>1, <2>1, UsersRead DEF vars, IInv, ApplicationsPassed
<1>2. ASSUME NEW r \in Requests,
             \/ \E u \in Users, role \in Roles : ApplyForCertification(r, u, role)
             \/ \E i \in Ids, verdict \in {"PASS", "FAIL"} : VerifyUserInfo(r, i, verdict)
             \/ \E u \in Users : EditUser(r, u)
             \/ \E i \in Ids : SaveUserTags(r, i)
      PROVE  Basics' /\ \A u \in Users : UserOK(u)'
  <2>1. Basics'
    BY <1>0, <1>2, BasicsApply, BasicsVerify, BasicsUser, BasicsTags
  <2>2. UNCHANGED <<info, roles, granted, stale, reaudited>>
    BY <1>2 DEF ApplyForCertification, Applying, VerifyUserInfo, EditUser, SaveUserTags
  <2> QED
    BY <2>1, <2>2, UsersRead
<1>3. ASSUME NEW r \in Requests, NEW i \in Ids, Save(r, i)
      PROVE  Basics' /\ \A u \in Users : UserOK(u)'
  BY <1>0, <1>3, BasicsSave, UsersSave DEF IInv
<1>4. ASSUME NEW r \in Requests, Refuse(r)
      PROVE  Basics' /\ \A u \in Users : UserOK(u)'
  BY <1>0, <1>4, BasicsRefuse, UsersRefuse DEF IInv
<1>5. ASSUME NEW r \in Requests, Approve(r)
      PROVE  Basics' /\ \A u \in Users : UserOK(u)'
  BY <1>0, <1>5, BasicsApprove, UsersApprove DEF IInv
<1>6. ASSUME NEW r \in Requests, WriteUser(r)
      PROVE  Basics' /\ \A u \in Users : UserOK(u)'
  BY <1>0, <1>6, BasicsUser, UsersWriteUser DEF IInv
<1>7. ASSUME NEW r \in Requests, WriteInfo(r)
      PROVE  Basics' /\ \A u \in Users : UserOK(u)'
  BY <1>0, <1>7, BasicsWriteInfo, UsersWriteInfo DEF IInv
<1>8. CASE Next
  <2>1. ApplicationsPassed'
    BY <1>0, <1>8, NextPassed DEF IInv, Basics
  <2>2. Basics' /\ \A u \in Users : UserOK(u)'
    BY <1>2, <1>3, <1>4, <1>5, <1>6, <1>7, <1>8 DEF Next
  <2> QED
    BY <2>1, <2>2 DEF IInv
<1> QED
  BY <1>1, <1>8

\* The inductive invariant holds of every behaviour of the handlers.
THEOREM CertificationIInv == Spec => []IInv
  BY InitIInv, NextIInv, PTL DEF Spec

\* The tables and requests keep their types; a role is approved only if one can
\* apply for it.
THEOREM CertificationTypeOK == Spec => []TypeOK
<1>1. IInv => TypeOK
  BY DEF IInv, Basics
<1> QED
  BY <1>1, CertificationIInv, PTL

\* However audits are repeated and reversed, the one row that PASSes carries the
\* roles of its user, unless requests overlapped.
THEOREM CertificationPass == Spec => []PassCarriesRoles
<1>1. IInv => PassCarriesRoles
  BY DEF IInv, UserOK, PassOK, PassCarriesRoles
<1> QED
  BY <1>1, CertificationIInv, PTL

\* The sum of the roles approved is the set of the roles approved, and a user
\* waits for one audit, when audits are not repeated and requests do not overlap.
THEOREM CertificationRoles == Spec => [](RolesAreGranted /\ WaitsForOne)
<1>1. IInv => RolesAreGranted /\ WaitsForOne
  BY DEF IInv, UserOK, SumOK, WaitOK, RolesAreGranted, WaitsForOne
<1> QED
  BY <1>1, CertificationIInv, PTL

\* Under the same conditions nobody loses the row that certifies them: a user
\* with a role has one, and no request takes roles away.
THEOREM CertificationStays == Spec => StaysCertified
<1>1. ASSUME IInv, IInv', Next, NEW u \in Users,
             u \notin stale' \cup reaudited', Rows(u, "PASS") # {}
      PROVE  Rows(u, "PASS")' # {}
  <2>1. stale \subseteq stale' /\ reaudited \subseteq reaudited' /\ granted[u] \subseteq granted'[u]
    BY <1>1 DEF IInv, Basics, TypeOK, MarkIf, Next, ApplyForCertification, Applying, Save, VerifyUserInfo,
                Refuse, Approve, EditUser, WriteUser, SaveUserTags, WriteInfo
  <2>2. granted[u] # {}
    BY <1>1, <2>1 DEF IInv, UserOK, SumOK
  <2>3. granted'[u] # {}
    BY <2>1, <2>2
  <2> QED
    BY <1>1, <2>3 DEF IInv, UserOK, SumOK
<1>2. ASSUME IInv, IInv', [Next]_vars
      PROVE  [\A u \in Users \ (stale' \cup reaudited') :
                 Rows(u, "PASS") # {} => Rows(u, "PASS")' # {}]_vars
  BY <1>1, <1>2
<1> QED
  BY <1>2, CertificationIInv, PTL DEF StaysCertified, Spec

----------------------------------------------------------------------------
(* The refinement of RoleGrants.                                             *)

\* A step that changes what is seen of v and of no other user.
OnlySeenAt(v) ==
    /\ Unknown \subseteq Unknown'
    /\ Unknown' \subseteq Unknown \cup {v}
    /\ \A u \in Users \ {v} :
          HeldBy(u)' = HeldBy(u) /\ WaitsFor(u)' = WaitsFor(u) /\ Certified(u)' = Certified(u)

\* A user whose rows and roles a request leaves alone is seen as before.
LEMMA SeenKept ==
    ASSUME NEW u \in Users, u \in Unknown' <=> u \in Unknown,
           Rows(u, "PASS")' = Rows(u, "PASS"),
           Rows(u, "WAITING")' = Rows(u, "WAITING"),
           \A i \in Rows(u, "WAITING") : info'[i] = info[i],
           roles'[u] = roles[u]
    PROVE  HeldBy(u)' = HeldBy(u) /\ WaitsFor(u)' = WaitsFor(u) /\ Certified(u)' = Certified(u)
<1>1. HeldBy(u)' = HeldBy(u)
  BY DEF HeldBy
<1>2. WaitsFor(u)' = WaitsFor(u)
  BY DEF WaitsFor
<1>3. Certified(u)' = Certified(u)
  BY DEF Certified
<1> QED
  BY <1>1, <1>2, <1>3

LEMMA SeenFunctions ==
    ASSUME NEW v \in Users, OnlySeenAt(v)
    PROVE  /\ [u \in Users |-> HeldBy(u)]' = [[u \in Users |-> HeldBy(u)] EXCEPT ![v] = HeldBy(v)']
           /\ [u \in Users |-> WaitsFor(u)]' = [[u \in Users |-> WaitsFor(u)] EXCEPT ![v] = WaitsFor(v)']
           /\ [u \in Users |-> Certified(u)]' = [[u \in Users |-> Certified(u)] EXCEPT ![v] = Certified(v)']
  BY DEF OnlySeenAt

\* A step after which nothing is promised to v.
LEMMA StepForgets ==
    ASSUME NEW v \in Users, OnlySeenAt(v), v \in Unknown'
    PROVE  Grants!Forget(v)
<1>1. HeldBy(v)' = {} /\ WaitsFor(v)' = {} /\ Certified(v)' = FALSE
  BY DEF HeldBy, WaitsFor, Certified
<1>2. Unknown' = Unknown \cup {v}
  BY DEF OnlySeenAt
<1> QED
  BY <1>1, <1>2, SeenFunctions DEF Grants!Forget

\* A step after which v is seen as before.
LEMMA StepUnseen ==
    ASSUME NEW v \in Users, OnlySeenAt(v), v \notin Unknown',
           HeldBy(v)' = HeldBy(v), WaitsFor(v)' = WaitsFor(v), Certified(v)' = Certified(v)
    PROVE  UNCHANGED Grants!grantVars
<1>1. Unknown' = Unknown
  BY DEF OnlySeenAt
<1>2. \A u \in Users :
         HeldBy(u)' = HeldBy(u) /\ WaitsFor(u)' = WaitsFor(u) /\ Certified(u)' = Certified(u)
  BY DEF OnlySeenAt
<1>3. [u \in Users |-> HeldBy(u)]' = [u \in Users |-> HeldBy(u)]
  BY <1>2
<1>4. [u \in Users |-> WaitsFor(u)]' = [u \in Users |-> WaitsFor(u)]
  BY <1>2
<1>5. [u \in Users |-> Certified(u)]' = [u \in Users |-> Certified(u)]
  BY <1>2
<1> QED
  BY <1>1, <1>3, <1>4, <1>5 DEF Grants!grantVars

\* The other users when a row of v is written back.
LEMMA WriteSeenAt ==
    ASSUME TypeOK, NEW v \in Users, NEW i \in Ids, info[i].uid = v, info[i] \in Info,
           NEW rows, rows = info \/ rows = Removed(v),
           NEW new \in Info, new.uid = v,
           info' = UpdateById(rows, i, new),
           \A u \in Users \ {v} : roles'[u] = roles[u],
           Unknown \subseteq Unknown', Unknown' \subseteq Unknown \cup {v}
    PROVE  OnlySeenAt(v)
<1>1. ASSUME NEW u \in Users, u # v
      PROVE  HeldBy(u)' = HeldBy(u) /\ WaitsFor(u)' = WaitsFor(u) /\ Certified(u)' = Certified(u)
  <2>1. Rows(u, "PASS")' = Rows(u, "PASS")
    BY <1>1, OtherRows
  <2>2. Rows(u, "WAITING")' = Rows(u, "WAITING") /\ \A j \in Rows(u, "WAITING") : info'[j] = info[j]
    BY <1>1, OtherRows
  <2> QED
    BY <1>1, <2>1, <2>2, SeenKept
<1> QED
  BY <1>1 DEF OnlySeenAt

\* A saved application: one is applied for.
LEMMA GrantsSave ==
    ASSUME IInv, NEW r \in Requests, NEW i \in Ids, Save(r, i),
           NEW v \in Users, v = request[r].uid,
           NEW role \in Roles, role = request[r].role
    PROVE  [Grants!Next]_(Grants!grantVars)
<1> USE DEF IInv, Basics
<1>1. /\ Unknown \subseteq Unknown' /\ Unknown' \subseteq Unknown \cup {v} /\ roles' = roles
      /\ info'[i] = [uid |-> v, role |-> role, status |-> "WAITING", live |-> TRUE]
      /\ \A j \in Ids \ {i} : info'[j] = info[j]
      /\ info[i] = NoInfo
  BY DEF Save, MarkIf, TypeOK, Unknown
<1>2. \A u \in Users : Rows(u, "PASS")' = Rows(u, "PASS")
  BY <1>1 DEF Rows, NoInfo
<1>3. \A u \in Users : /\ i \notin Rows(u, "WAITING")
                       /\ \A j \in Rows(u, "WAITING") : info'[j] = info[j]
                       /\ u # v => Rows(u, "WAITING")' = Rows(u, "WAITING")
  BY <1>1 DEF Rows, NoInfo
<1>4. Rows(v, "WAITING")' = Rows(v, "WAITING") \cup {i}
  BY <1>1 DEF Rows, NoInfo
<1>5. OnlySeenAt(v)
  BY <1>1, <1>2, <1>3, SeenKept DEF OnlySeenAt
<1>6. CASE v \in Unknown'
  BY <1>5, <1>6, StepForgets DEF Grants!Next
<1>7. CASE v \notin Unknown'
  <2>1. v \notin Unknown /\ Rows(v, "WAITING") = {} /\ ~Has(roles[v], role)
    BY <1>1, <1>7 DEF Save, MarkIf, ApplicationsPassed, Unknown
  <2>2. WaitsFor(v) = {} /\ role \notin HeldBy(v)
    BY <2>1 DEF WaitsFor, HeldBy
  <2>3. WaitsFor(v)' = {role}
    <3>1. Rows(v, "WAITING")' = {i} /\ info'[i].role = role
      BY <1>1, <1>4, <2>1
    <3> QED
      BY <1>7, <3>1 DEF WaitsFor
  <2>4. HeldBy(v)' = HeldBy(v)
    BY <1>1, <1>7, <2>1 DEF HeldBy
  <2>5. Certified(v)' = Certified(v)
    BY <1>2, <1>7, <2>1 DEF Certified
  <2>6. /\ [u \in Users |-> HeldBy(u)]' = [u \in Users |-> HeldBy(u)]
        /\ [u \in Users |-> Certified(u)]' = [u \in Users |-> Certified(u)]
    BY <1>5, <2>4, <2>5 DEF OnlySeenAt
  <2>7. Unknown' = Unknown
    BY <1>1, <1>7
  <2>8. Grants!Apply(v, role)
    BY <1>5, <2>1, <2>2, <2>3, <2>6, <2>7, SeenFunctions DEF Grants!Apply
  <2> QED
    BY <2>8 DEF Grants!Next
<1> QED
  BY <1>6, <1>7

\* An edit of the user writes the roles they have, or nothing is promised.
LEMMA GrantsWriteUser ==
    ASSUME IInv, NEW r \in Requests, WriteUser(r), NEW v \in Users, v = request[r].uid
    PROVE  [Grants!Next]_(Grants!grantVars)
<1> USE DEF IInv, Basics
<1>1. /\ Unknown \subseteq Unknown' /\ Unknown' \subseteq Unknown \cup {v}
      /\ info' = info
      /\ \A u \in Users \ {v} : roles'[u] = roles[u]
      /\ v \notin Unknown' => v \notin Unknown /\ roles'[v] = roles[v]
  BY DEF WriteUser, MarkIf, TypeOK, Unknown
<1>2. \A u, st : Rows(u, st)' = Rows(u, st)
  BY <1>1 DEF Rows
<1>3. OnlySeenAt(v)
  BY <1>1, <1>2, SeenKept DEF OnlySeenAt
<1>4. CASE v \in Unknown'
  BY <1>3, <1>4, StepForgets DEF Grants!Next
<1>5. CASE v \notin Unknown'
  <2>1. HeldBy(v)' = HeldBy(v) /\ WaitsFor(v)' = WaitsFor(v) /\ Certified(v)' = Certified(v)
    BY <1>1, <1>2, <1>5, SeenKept
  <2> QED
    BY <1>3, <1>5, <2>1, StepUnseen
<1> QED
  BY <1>4, <1>5

\* A change of the tags writes the row that is there, or nothing is promised.
LEMMA GrantsWriteInfo ==
    ASSUME IInv, NEW r \in Requests, WriteInfo(r),
           NEW v \in Users, v = request[r].seen.uid, NEW i \in Ids, i = request[r].id
    PROVE  [Grants!Next]_(Grants!grantVars)
<1> DEFINE seen == request[r].seen
<1> USE DEF IInv, Basics
<1>1. seen \in Info /\ info[i] \in Info /\ info[i].uid = v
  BY Seen DEF WriteInfo
<1>2. /\ Unknown \subseteq Unknown' /\ Unknown' \subseteq Unknown \cup {v}
      /\ roles' = roles
      /\ info' = UpdateById(info, i, seen)
  BY DEF WriteInfo, MarkIf, Unknown
<1>3. OnlySeenAt(v)
  BY <1>1, <1>2, WriteSeenAt
<1>4. CASE v \in Unknown'
  BY <1>3, <1>4, StepForgets DEF Grants!Next
<1>5. CASE v \notin Unknown'
  <2>1. v \notin Unknown /\ (~info[i].live \/ info[i] = seen)
    BY <1>2, <1>5 DEF WriteInfo, MarkIf, Unknown
  <2>2. info' = info
    BY <1>1, <1>2, <2>1 DEF UpdateById, TypeOK
  <2>3. \A st : Rows(v, st)' = Rows(v, st)
    BY <2>2 DEF Rows
  <2>4. HeldBy(v)' = HeldBy(v) /\ WaitsFor(v)' = WaitsFor(v) /\ Certified(v)' = Certified(v)
    BY <1>2, <1>5, <2>1, <2>2, <2>3, SeenKept
  <2> QED
    BY <1>3, <1>5, <2>4, StepUnseen
<1> QED
  BY <1>4, <1>5

\* A refusal ends the application that waits, or finds its row removed.
LEMMA GrantsRefuse ==
    ASSUME IInv, NEW r \in Requests, Refuse(r),
           NEW v \in Users, v = request[r].seen.uid, NEW i \in Ids, i = request[r].id
    PROVE  [Grants!Next]_(Grants!grantVars)
<1> DEFINE seen == request[r].seen
           new == [seen EXCEPT !.status = "FAIL"]
<1> USE DEF IInv, Basics
<1>1. seen \in Info /\ info[i] \in Info /\ info[i].uid = v /\ seen.live
  BY Seen DEF Refuse
<1>2. /\ Unknown \subseteq Unknown' /\ Unknown' \subseteq Unknown \cup {v}
      /\ roles' = roles
      /\ info' = UpdateById(info, i, new)
  BY DEF Refuse, MarkIf, Unknown
<1>3. new \in Info /\ new.uid = v /\ new.status = "FAIL"
  BY <1>1 DEF Info
<1>4. OnlySeenAt(v)
  BY <1>1, <1>2, <1>3, WriteSeenAt
<1>5. CASE v \in Unknown'
  BY <1>4, <1>5, StepForgets DEF Grants!Next
<1>6. CASE v \notin Unknown'
  <2>1. /\ v \notin Unknown
        /\ ~info[i].live \/ info[i] = seen
        /\ seen.status = "WAITING"
    BY <1>2, <1>6 DEF Refuse, MarkIf, Unknown
  <2>2. CASE ~info[i].live
    <3>1. info' = info
      BY <1>2, <2>2 DEF UpdateById
    <3>2. \A st : Rows(v, st)' = Rows(v, st)
      BY <3>1 DEF Rows
    <3>3. HeldBy(v)' = HeldBy(v) /\ WaitsFor(v)' = WaitsFor(v) /\ Certified(v)' = Certified(v)
      BY <1>2, <1>6, <2>1, <3>1, <3>2, SeenKept
    <3> QED
      BY <1>4, <1>6, <3>3, StepUnseen
  <2>3. CASE info[i] = seen
    <3>1. info'[i] = new /\ \A j \in Ids \ {i} : info'[j] = info[j]
      BY <1>1, <1>2, <2>3 DEF UpdateById, TypeOK
    <3>2. i \in Rows(v, "WAITING") /\ i \notin Rows(v, "PASS")
      BY <1>1, <2>1, <2>3 DEF Rows
    <3>3. Rows(v, "WAITING") = {i}
      BY <2>1, <3>2 DEF UserOK, WaitOK, Unknown
    <3>4. Rows(v, "WAITING")' = {} /\ Rows(v, "PASS")' = Rows(v, "PASS")
      <4>1. i \notin Rows(v, "WAITING")' /\ i \notin Rows(v, "PASS")'
        BY <1>3, <3>1 DEF Rows
      <4>2. \A j \in Ids \ {i} : \A st : j \in Rows(v, st)' <=> j \in Rows(v, st)
        BY <3>1 DEF Rows
      <4>3. \A st : Rows(v, st) \subseteq Ids /\ Rows(v, st)' \subseteq Ids
        BY DEF Rows
      <4> QED
        BY <3>2, <3>3, <4>1, <4>2, <4>3
    <3>5. WaitsFor(v) # {} /\ WaitsFor(v)' = {}
      BY <1>6, <2>1, <3>3, <3>4 DEF WaitsFor
    <3>6. HeldBy(v)' = HeldBy(v)
      BY <1>2, <1>6, <2>1 DEF HeldBy
    <3>7. Certified(v)' = Certified(v)
      BY <1>6, <2>1, <3>4 DEF Certified
    <3>8. /\ [u \in Users |-> HeldBy(u)]' = [u \in Users |-> HeldBy(u)]
          /\ [u \in Users |-> Certified(u)]' = [u \in Users |-> Certified(u)]
      BY <1>4, <3>6, <3>7 DEF OnlySeenAt
    <3>9. Unknown' = Unknown
      BY <1>2, <1>6
    <3>10. Grants!Refuse(v)
      BY <1>4, <3>5, <3>8, <3>9, SeenFunctions DEF Grants!Refuse
    <3> QED
      BY <3>10 DEF Grants!Next
  <2> QED
    BY <2>1, <2>2, <2>3
<1> QED
  BY <1>5, <1>6

\* An approval turns the application that waits into a role.
LEMMA GrantsApprove ==
    ASSUME IInv, IInv', NEW r \in Requests, Approve(r),
           NEW v \in Users, v = request[r].seen.uid, NEW i \in Ids, i = request[r].id,
           NEW role, role = request[r].seen.role
    PROVE  [Grants!Next]_(Grants!grantVars)
<1> DEFINE seen == request[r].seen
           sum == request[r].roles + seen.role
           new == [seen EXCEPT !.role = sum, !.status = "PASS"]
<1> USE DEF IInv, Basics
<1>1. /\ seen \in Info /\ info[i] \in Info /\ info[i].uid = v /\ seen.live
      /\ request[r].roles \in Nat
      /\ seen.status = "WAITING" => role \in Roles
  BY Seen DEF Approve
<1>2. /\ Unknown \subseteq Unknown' /\ Unknown' \subseteq Unknown \cup {v}
      /\ \A u \in Users \ {v} : roles'[u] = roles[u]
      /\ info' = UpdateById(Removed(v), i, new)
  BY DEF Approve, MarkIf, Unknown, TypeOK
<1>3. new \in Info /\ new.uid = v /\ new.status = "PASS"
  <2>1. sum \in Nat
    BY <1>1 DEF Info
  <2> QED
    BY <1>1, <2>1 DEF Info
<1>4. OnlySeenAt(v)
  BY <1>1, <1>2, <1>3, WriteSeenAt
<1>5. CASE v \in Unknown'
  BY <1>4, <1>5, StepForgets DEF Grants!Next
<1>6. CASE v \notin Unknown'
  <2>1. v \notin Unknown /\ info[i] = seen /\ seen.status = "WAITING"
    BY <1>2, <1>6 DEF Approve, MarkIf, Unknown
  <2>2. role \in Roles /\ granted'[v] = granted[v] \cup {role}
    BY <1>1, <2>1 DEF Approve, TypeOK
  <2>3. SumOK(v) /\ WaitOK(v) /\ SumOK(v)'
    BY <1>6, <2>1 DEF UserOK, Unknown
  <2>4. Rows(v, "WAITING") = {i} /\ info[i].role = role
    BY <1>1, <2>1, <2>3 DEF Rows, WaitOK
  <2>5. Rows(v, "WAITING")' = {}
    <3>1. info'[i] = new
      BY <1>1, <1>2, <2>1 DEF UpdateById, Removed, Rows
    <3>2. ASSUME NEW j \in Ids \ {i}, j \in Rows(v, "WAITING")'
          PROVE  FALSE
      <4>1. info'[j] = Removed(v)[j]
        BY <1>2 DEF UpdateById, Removed
      <4>2. CASE j \in Rows(v, "PASS")
        <5>1. info[j] \in Info
          BY <4>2 DEF TypeOK, NoInfo, Rows
        <5> QED
          BY <3>2, <4>1, <4>2, <5>1 DEF Removed, Rows, Info
      <4>3. CASE j \notin Rows(v, "PASS")
        <5>1. info'[j] = info[j]
          BY <4>1, <4>3 DEF Removed
        <5> QED
          BY <2>4, <3>2, <5>1 DEF Rows
      <4> QED
        BY <4>2, <4>3
    <3>3. i \notin Rows(v, "WAITING")'
      BY <1>3, <3>1 DEF Rows
    <3>4. Rows(v, "WAITING")' \subseteq Ids
      BY DEF Rows
    <3> QED
      BY <3>2, <3>3, <3>4
  <2>6. WaitsFor(v) = {role} /\ WaitsFor(v)' = {}
    BY <1>6, <2>1, <2>4, <2>5 DEF WaitsFor
  <2>7. HeldBy(v)' = HeldBy(v) \cup {role}
    BY <1>6, <2>1, <2>2, <2>3 DEF HeldBy, SumOK
  <2>8. Certified(v)' = TRUE
    BY <1>6, <2>2, <2>3 DEF Certified, SumOK
  <2>9. Unknown' = Unknown
    BY <1>2, <1>6
  <2>10. Grants!Approve(v, role)
    BY <1>4, <2>6, <2>7, <2>8, <2>9, SeenFunctions DEF Grants!Approve
  <2> QED
    BY <2>2, <2>10 DEF Grants!Next
<1> QED
  BY <1>5, <1>6

\* Requests that only read are not seen.
LEMMA GrantsRead ==
    ASSUME UNCHANGED <<info, roles, granted, stale, reaudited>>
    PROVE  UNCHANGED Grants!grantVars
<1>1. Unknown' = Unknown /\ \A u, st : Rows(u, st)' = Rows(u, st)
  BY DEF Unknown, Rows
<1>2. \A u \in Users :
         HeldBy(u)' = HeldBy(u) /\ WaitsFor(u)' = WaitsFor(u) /\ Certified(u)' = Certified(u)
  BY <1>1, SeenKept
<1>3. [u \in Users |-> HeldBy(u)]' = [u \in Users |-> HeldBy(u)]
  BY <1>2
<1>4. [u \in Users |-> WaitsFor(u)]' = [u \in Users |-> WaitsFor(u)]
  BY <1>2
<1>5. [u \in Users |-> Certified(u)]' = [u \in Users |-> Certified(u)]
  BY <1>2
<1> QED
  BY <1>1, <1>3, <1>4, <1>5 DEF Grants!grantVars

LEMMA GrantsStep ==
    ASSUME IInv, IInv', [Next]_vars
    PROVE  [Grants!Next]_(Grants!grantVars)
<1> USE DEF IInv, Basics
<1>1. ASSUME NEW r \in Requests, NEW i \in Ids, Save(r, i)
      PROVE  [Grants!Next]_(Grants!grantVars)
  <2>1. request[r].uid \in Users /\ request[r].role \in Roles
    BY <1>1 DEF TypeOK, Request, New, Done, Save
  <2> QED
    BY <1>1, <2>1, GrantsSave
<1>2. ASSUME NEW r \in Requests, WriteUser(r)
      PROVE  [Grants!Next]_(Grants!grantVars)
  <2>1. request[r].uid \in Users
    BY <1>2 DEF TypeOK, Request, New, Done, WriteUser
  <2> QED
    BY <1>2, <2>1, GrantsWriteUser
<1>3. ASSUME NEW r \in Requests, WriteInfo(r) \/ Refuse(r) \/ Approve(r)
      PROVE  [Grants!Next]_(Grants!grantVars)
  <2>1. request[r].seen.uid \in Users /\ request[r].id \in Ids
    BY <1>3, Seen DEF WriteInfo, Refuse, Approve, Info
  <2> QED
    BY <1>3, <2>1, GrantsWriteInfo, GrantsRefuse, GrantsApprove
<1>4. CASE UNCHANGED <<info, roles, granted, stale, reaudited>>
  BY <1>4, GrantsRead
<1>5. \/ UNCHANGED <<info, roles, granted, stale, reaudited>>
      \/ \E r \in Requests : \/ \E i \in Ids : Save(r, i)
                             \/ WriteUser(r) \/ WriteInfo(r) \/ Refuse(r) \/ Approve(r)
  BY DEF Next, vars, ApplyForCertification, Applying, VerifyUserInfo, EditUser, SaveUserTags
<1> QED
  BY <1>1, <1>2, <1>3, <1>4, <1>5

\* Certification grants roles as RoleGrants says, for any number of users and
\* requests: as long as no two requests of a user overlap and no audit is
\* repeated, their roles are the applications that were approved one by one, and
\* rows written back whole lose none of them.
THEOREM CertificationGrants == Spec => ImplementsRoleGrants
<1>1. Init => Grants!Init
  <2> SUFFICES ASSUME Init PROVE Grants!Init
    OBVIOUS
  <2>1. Unknown = {} /\ \A u \in Users : roles[u] = 0 /\ \A st \in {"PASS", "WAITING"} : Rows(u, st) = {}
    BY DEF Init, Unknown, Rows, NoInfo
  <2>2. \A role \in Roles : ~Has(0, role)
    BY NoBit, RolesAreBits
  <2>3. \A u \in Users : HeldBy(u) = {} /\ WaitsFor(u) = {} /\ Certified(u) = FALSE
    BY <2>1, <2>2 DEF HeldBy, WaitsFor, Certified
  <2> QED
    BY <2>1, <2>3 DEF Grants!Init
<1> QED
  BY <1>1, CertificationIInv, GrantsStep, PTL DEF Spec, ImplementsRoleGrants, Grants!Spec
=============================================================================
