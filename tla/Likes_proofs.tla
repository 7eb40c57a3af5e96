---------------------------- MODULE Likes_proofs ----------------------------
(* The counters and columns of Likes follow the likes, for any sets of       *)
(* users, posts, comments and requests.                                      *)
EXTENDS Likes, FiniteSetTheorems, TLAPS

\* Of the requests of one user for one target at most one is between its look
\* at the key and its change of it, and what it saw still holds.
ChecksHold ==
    \A x \in Targets \ doubtful : \A r \in Requests :
        request[r].at = "checked" /\ request[r].of = x =>
            /\ (request[r].delta = 1) <=> (<<request[r].user, x>> \notin liked)
            /\ \A s \in Requests :
                   (/\ request[s].at = "checked"
                    /\ request[s].of = x
                    /\ request[s].user = request[r].user) => s = r

\* Nobody likes what is not there yet.
NewIsUntouched ==
    \A x \in Targets : row[x] = "none" =>
        /\ \A d \in Delta : pending[x][d] = 0
        /\ \A r \in Requests : request[r] \in LikeRequest => request[r].of # x
        /\ \A u \in Users : <<u, x>> \notin liked

\* The column is right before the row is there, too.
ColumnHolds ==
    \A x \in Targets \ drifted :
        row[x] # "deleted" => likes[x] + Unwritten(x) = count[x]

IInv == TypeOK /\ ChecksHold /\ NewIsUntouched /\ CountIsLikers /\ ColumnHolds

----------------------------------------------------------------------------
(* Counting requests.                                                        *)

\* Requests and likers can be counted.
LEMMA Countable ==
    ASSUME NEW p, NEW x, NEW d
    PROVE  /\ IsFiniteSet(At(p, x, d))
           /\ Cardinality(At(p, x, d)) \in Nat
           /\ IsFiniteSet(Likers(x))
           /\ Cardinality(Likers(x)) \in Nat
  BY FinitelyManyRequests, FinitelyManyUsers, FS_Subset, FS_CardinalityType DEF At, Likers

\* A request that moves leaves one set of requests and enters another.
LEMMA Moves ==
    ASSUME NEW r \in Requests, NEW q, TypeOK,
           request' = [request EXCEPT ![r] = q],
           NEW p, NEW x, NEW d
    PROVE  At(p, x, d)' = IF q.at = p /\ q.of = x /\ q.delta = d
                            THEN At(p, x, d) \cup {r}
                            ELSE At(p, x, d) \ {r}
  BY DEF At, TypeOK

\* A request that is elsewhere before and after does not count.
LEMMA Stays ==
    ASSUME NEW r \in Requests, NEW q, TypeOK,
           request' = [request EXCEPT ![r] = q],
           NEW p, request[r].at # p, q.at # p,
           NEW x
    PROVE  Net(p, x)' = Net(p, x)
<1>1. At(p, x, 1)' = At(p, x, 1)
  BY Moves DEF At
<1>2. At(p, x, -1)' = At(p, x, -1)
  BY Moves DEF At
<1>3. QED
  BY <1>1, <1>2 DEF Net

\* A request that reaches the point p adds its delta there.
LEMMA Enters ==
    ASSUME NEW p, NEW x, NEW r \in Requests,
           request[r].at # p,
           request'[r].at = p,
           request'[r].delta \in Delta,
           \A s \in Requests \ {r} : request'[s] = request[s]
    PROVE  Net(p, x)' = IF x = request'[r].of THEN Net(p, x) + request'[r].delta
                                              ELSE Net(p, x)
<1>1. \A d : At(p, x, d)' = IF x = request'[r].of /\ request'[r].delta = d
                              THEN At(p, x, d) \cup {r} ELSE At(p, x, d)
  BY DEF At
<1>2. \A d : r \notin At(p, x, d)
  BY DEF At
<1>3. \A d : Cardinality(At(p, x, d) \cup {r}) = Cardinality(At(p, x, d)) + 1
  BY <1>2, Countable, FS_AddElement
<1>4. \A d : Cardinality(At(p, x, d)) \in Nat
  BY Countable
<1>5. \A d : Cardinality(At(p, x, d))' = IF x = request'[r].of /\ request'[r].delta = d
                                            THEN Cardinality(At(p, x, d)) + 1
                                            ELSE Cardinality(At(p, x, d))
  BY <1>1, <1>3
<1>6. CASE x # request'[r].of
  BY <1>5, <1>6 DEF Net
<1>7. CASE x = request'[r].of /\ request'[r].delta = 1
  BY <1>4, <1>5, <1>7 DEF Net
<1>8. CASE x = request'[r].of /\ request'[r].delta = -1
  BY <1>4, <1>5, <1>8 DEF Net
<1>9. QED
  BY <1>6, <1>7, <1>8 DEF Delta

\* A request that leaves the point p takes its delta away from there.
LEMMA Leaves ==
    ASSUME NEW r \in Requests, NEW q, TypeOK,
           request' = [request EXCEPT ![r] = q],
           NEW p, request[r].at = p, q.at # p, request[r].delta \in Delta,
           NEW x
    PROVE  Net(p, x)' = IF request[r].of = x THEN Net(p, x) - request[r].delta
                                             ELSE Net(p, x)
<1>1. \A d : At(p, x, d)' = At(p, x, d) \ {r}
  BY DEF At, TypeOK
<1>2. \A d : r \in At(p, x, d) <=> request[r].of = x /\ request[r].delta = d
  BY DEF At
<1>3. \A d : r \in At(p, x, d) =>
                 Cardinality(At(p, x, d) \ {r}) = Cardinality(At(p, x, d)) - 1
  BY Countable, FS_RemoveElement
<1>4. \A d : r \notin At(p, x, d) => At(p, x, d) \ {r} = At(p, x, d)
  OBVIOUS
<1>5. \A d : Cardinality(At(p, x, d)) \in Nat
  BY Countable
<1>6. \A d : Cardinality(At(p, x, d))' = IF request[r].of = x /\ request[r].delta = d
                                            THEN Cardinality(At(p, x, d)) - 1
                                            ELSE Cardinality(At(p, x, d))
  BY <1>1, <1>2, <1>3, <1>4
<1>7. CASE request[r].of # x
  BY <1>6, <1>7 DEF Net
<1>8. CASE request[r].of = x /\ request[r].delta = 1
  BY <1>5, <1>6, <1>8 DEF Net
<1>9. CASE request[r].of = x /\ request[r].delta = -1
  BY <1>5, <1>6, <1>9 DEF Net
<1>10. QED
  BY <1>7, <1>8, <1>9 DEF Delta

\* Where no request moves, the sums change only with the queue.
LEMMA NobodyMoves ==
    ASSUME UNCHANGED request, NEW p, NEW x
    PROVE  Net(p, x)' = Net(p, x)
  BY DEF Net, At

\* The sums are integers.
LEMMA NetsAreIntegers ==
    ASSUME TypeOK
    PROVE  /\ \A p, x : Net(p, x) \in Int
           /\ \A x \in Targets : pending[x][1] - pending[x][-1] \in Int
           /\ \A x \in Targets : Uncounted(x) \in Int /\ Unwritten(x) \in Int
<1>1. \A p, x : Net(p, x) \in Int
  BY Countable DEF Net
<1>2. \A x \in Targets : pending[x][1] - pending[x][-1] \in Int
  BY DEF TypeOK, Delta
<1>3. QED
  BY <1>1, <1>2 DEF Uncounted, Unwritten

----------------------------------------------------------------------------
(* The actions.                                                              *)

\* Nobody likes anything before there is anything.
LEMMA InitIInv == Init => IInv
<1> SUFFICES ASSUME Init PROVE IInv
  OBVIOUS
<1>1. TypeOK
  BY FaultsAreCounted DEF Init, TypeOK, Delta
<1>2. \A p \in {"checked", "marked", "counted"} : \A x, d : At(p, x, d) = {}
  BY DEF Init, At, New
<1>3. \A x : Uncounted(x) = 0
  BY <1>2, FS_EmptySet DEF Uncounted, Net
<1>4. \A x \in Targets : Unwritten(x) = 0
  BY <1>2, FS_EmptySet DEF Unwritten, Net, Init, Delta
<1>5. \A x : Likers(x) = {}
  BY DEF Likers, Init
<1>6. ChecksHold /\ NewIsUntouched
  BY DEF Init, ChecksHold, NewIsUntouched, New, LikeRequest
<1>7. CountIsLikers
  BY <1>3, <1>5, FS_EmptySet DEF Init, CountIsLikers
<1>8. ColumnHolds
  BY <1>4 DEF Init, ColumnHolds
<1>9. QED
  BY <1>1, <1>6, <1>7, <1>8 DEF IInv

\* SavePost and Delete: only a row comes or goes.
LEMMA RowStep ==
    ASSUME IInv, NEW x \in Targets, SavePost(x) \/ Delete(x)
    PROVE  IInv'
<1> USE DEF IInv
<1>1. /\ row' = [row EXCEPT ![x] = IF row[x] = "none" THEN "live" ELSE "deleted"]
      /\ UNCHANGED <<likes, liked, count, pending, request, faults, doubtful, drifted>>
  BY DEF SavePost, Delete
<1>2. TypeOK'
  BY <1>1 DEF TypeOK
<1>3. \A y \in Targets : row'[y] = "none" => row[y] = "none"
  BY <1>1 DEF TypeOK
<1>4. \A y \in Targets : row'[y] # "deleted" => row[y] # "deleted"
  BY <1>1 DEF TypeOK
<1>5. \A y : Uncounted(y)' = Uncounted(y) /\ Unwritten(y)' = Unwritten(y) /\ Likers(y)' = Likers(y)
  BY <1>1, NobodyMoves DEF Uncounted, Unwritten, Likers
<1>6. ChecksHold'
  BY <1>1 DEF ChecksHold
<1>7. NewIsUntouched'
  BY <1>1, <1>3 DEF NewIsUntouched
<1>8. CountIsLikers'
  BY <1>1, <1>5 DEF CountIsLikers
<1>9. ColumnHolds'
  BY <1>1, <1>4, <1>5 DEF ColumnHolds
<1>10. QED
  BY <1>2, <1>6, <1>7, <1>8, <1>9

\* A like or unlike that passes its look at the key is the only one, or the target is doubtful.
LEMMA CheckedStep ==
    ASSUME IInv, NEW r \in Requests, NEW u \in Users, NEW x \in Targets,
           Like(r, u, x) \/ Unlike(r, u, x)
    PROVE  IInv'
<1> USE DEF IInv
<1>1. PICK d \in Delta : /\ Checked(r, u, x, d)
                         /\ (d = 1) <=> (<<u, x>> \notin liked)
                         /\ row[x] # "none"
  BY DEF Like, Unlike, Delta, NewIsUntouched, TypeOK, Targets
<1> DEFINE q == [at |-> "checked", user |-> u, of |-> x, delta |-> d]
<1>2. /\ request[r] = New
      /\ request' = [request EXCEPT ![r] = q]
      /\ UNCHANGED <<row, likes, liked, count, pending, faults, drifted>>
      /\ doubtful \subseteq doubtful'
      /\ doubtful' \subseteq doubtful \cup {x}
      /\ x \notin doubtful' => \A s \in Requests :
             ~(/\ request[s].at = "checked" /\ request[s].of = x
               /\ request[s].delta \in Delta /\ request[s].user = u)
  BY <1>1 DEF Checked, At, Delta
<1>3. q \in LikeRequest
  BY DEF LikeRequest
<1>4. TypeOK'
  BY <1>2, <1>3 DEF TypeOK
<1>5. \A p \in {"marked", "counted"} : \A y : Net(p, y)' = Net(p, y)
  <2> SUFFICES ASSUME NEW p \in {"marked", "counted"}, NEW y PROVE Net(p, y)' = Net(p, y)
    OBVIOUS
  <2>1. request[r].at # p /\ q.at # p
    BY <1>2 DEF New
  <2>2. QED
    BY <1>2, <2>1, Stays
<1>6. \A y : Uncounted(y)' = Uncounted(y) /\ Unwritten(y)' = Unwritten(y) /\ Likers(y)' = Likers(y)
  BY <1>2, <1>5 DEF Uncounted, Unwritten, Likers
<1>7. CountIsLikers' /\ ColumnHolds'
  BY <1>2, <1>6 DEF CountIsLikers, ColumnHolds
<1>8. NewIsUntouched'
  BY <1>1, <1>2 DEF NewIsUntouched, TypeOK
<1>9. \A s \in Requests : request[s].at = "checked" => request[s].delta \in Delta
  BY DEF TypeOK, LikeRequest, RewriteRequest, New, Done
<1>10. ChecksHold'
  <2> SUFFICES ASSUME NEW y \in Targets, y \notin doubtful', NEW s \in Requests,
                      request'[s].at = "checked", request'[s].of = y
               PROVE  /\ (request'[s].delta = 1) <=> (<<request'[s].user, y>> \notin liked')
                      /\ \A t \in Requests :
                             (/\ request'[t].at = "checked"
                              /\ request'[t].of = y
                              /\ request'[t].user = request'[s].user) => t = s
    BY DEF ChecksHold
  <2>1. \A t \in Requests : request'[t] = IF t = r THEN q ELSE request[t]
    BY <1>2 DEF TypeOK
  <2>2. CASE s = r
    BY <1>1, <1>2, <1>9, <2>1, <2>2
  <2>3. CASE s # r
    BY <1>1, <1>2, <1>9, <2>1, <2>3 DEF ChecksHold
  <2>4. QED
    BY <2>2, <2>3
<1>11. QED
  BY <1>4, <1>7, <1>8, <1>10

\* The three steps of a like request change the request itself in the same way.
LEMMA LikeRequestFacts ==
    ASSUME TypeOK, NEW r \in Requests, request[r].at \in {"checked", "marked", "counted"}
    PROVE  /\ request[r] \in LikeRequest
           /\ request[r].user \in Users
           /\ request[r].of \in Targets
           /\ request[r].delta \in Delta
  BY DEF TypeOK, New, Done, LikeRequest, RewriteRequest

\* Changing the key changes the likers by what the request has still to count.
LEMMA MarkStep ==
    ASSUME IInv, NEW r \in Requests, Mark(r)
    PROVE  IInv'
<1> USE DEF IInv
<1>1. PICK u \in Users, x \in Targets, d \in Delta :
          request[r] = [at |-> "checked", user |-> u, of |-> x, delta |-> d]
  BY LikeRequestFacts DEF Mark, LikeRequest
<1> DEFINE q == [at |-> "marked", user |-> u, of |-> x, delta |-> d]
<1>2. /\ request' = [request EXCEPT ![r] = q]
      /\ liked' = IF d = 1 THEN liked \cup {<<u, x>>} ELSE liked \ {<<u, x>>}
      /\ UNCHANGED <<row, likes, count, pending, faults, doubtful, drifted>>
  <2>1. [request[r] EXCEPT !.at = "marked"] = q
    BY <1>1
  <2>2. request' = [request EXCEPT ![r] = [request[r] EXCEPT !.at = "marked"]]
    BY DEF Mark
  <2>3. QED
    BY <1>1, <2>1, <2>2 DEF Mark
<1>3. q \in LikeRequest
  BY DEF LikeRequest
<1>4. TypeOK'
  BY <1>2, <1>3 DEF TypeOK
<1>5. row[x] # "none"
  BY <1>1 DEF NewIsUntouched, LikeRequest
<1>6. \A y : Net("counted", y)' = Net("counted", y)
  <2> SUFFICES ASSUME NEW y PROVE Net("counted", y)' = Net("counted", y)
    OBVIOUS
  <2>1. request[r].at # "counted" /\ q.at # "counted"
    BY <1>1
  <2>2. QED
    BY <1>1, <1>2, <2>1, Stays
<1>7. \A y : Net("marked", y)' = IF y = x THEN Net("marked", y) + d ELSE Net("marked", y)
  <2> SUFFICES ASSUME NEW y PROVE Net("marked", y)' = IF y = x THEN Net("marked", y) + d ELSE Net("marked", y)
    OBVIOUS
  <2>1. /\ request[r].at # "marked"
        /\ request'[r].at = "marked" /\ request'[r].of = x /\ request'[r].delta = d
        /\ \A s \in Requests \ {r} : request'[s] = request[s]
    BY <1>1, <1>2 DEF TypeOK
  <2>2. QED
    BY <2>1, Enters
<1>8. ChecksHold'
  <2> SUFFICES ASSUME NEW y \in Targets, y \notin doubtful', NEW s \in Requests,
                      request'[s].at = "checked", request'[s].of = y
               PROVE  /\ (request'[s].delta = 1) <=> (<<request'[s].user, y>> \notin liked')
                      /\ \A t \in Requests :
                             (/\ request'[t].at = "checked"
                              /\ request'[t].of = y
                              /\ request'[t].user = request'[s].user) => t = s
    BY DEF ChecksHold
  <2>1. \A t \in Requests : request'[t] = IF t = r THEN q ELSE request[t]
    BY <1>2 DEF TypeOK
  <2>2. /\ s # r /\ request'[s] = request[s]
        /\ y \in Targets \ doubtful
        /\ request[s].at = "checked" /\ request[s].of = y
    BY <1>2, <2>1
  <2>3. \A t \in Requests :
             (/\ request[t].at = "checked"
              /\ request[t].of = y
              /\ request[t].user = request[s].user) => t = s
    BY <2>2 DEF ChecksHold
  <2>4. <<request[s].user, y>> # <<u, x>>
    BY <1>1, <2>2, <2>3
  <2>5. (request[s].delta = 1) <=> (<<request[s].user, y>> \notin liked)
    BY <2>2 DEF ChecksHold
  <2>6. (request'[s].delta = 1) <=> (<<request'[s].user, y>> \notin liked')
    BY <1>2, <2>2, <2>4, <2>5
  <2>7. QED
    BY <2>1, <2>2, <2>3, <2>6
<1>9. NewIsUntouched'
  BY <1>2, <1>5 DEF NewIsUntouched, TypeOK
<1>10. ColumnHolds'
  BY <1>2, <1>6 DEF ColumnHolds, Unwritten
<1>11. CountIsLikers'
  <2> SUFFICES ASSUME NEW y \in Targets \ doubtful
               PROVE  count[y] + Uncounted(y)' = Cardinality(Likers(y)')
    BY <1>2 DEF CountIsLikers
  <2>1. count[y] + Uncounted(y) = Cardinality(Likers(y))
    BY DEF CountIsLikers
  <2>2. CASE y # x
    <3>1. Likers(y)' = Likers(y)
      BY <1>2, <2>2 DEF Likers
    <3>2. QED
      BY <1>7, <2>1, <2>2, <3>1 DEF Uncounted
  <2>3. CASE y = x /\ d = 1
    <3>1. u \notin Likers(x)
      BY <1>1, <2>3 DEF ChecksHold, Likers
    <3>2. Likers(x)' = Likers(x) \cup {u}
      BY <1>2, <2>3 DEF Likers
    <3>3. Cardinality(Likers(x)') = Cardinality(Likers(x)) + 1
      BY <3>1, <3>2, Countable, FS_AddElement
    <3>4. QED
      BY <1>7, <2>1, <2>3, <3>3, NetsAreIntegers DEF Uncounted, TypeOK
  <2>4. CASE y = x /\ d = -1
    <3>1. u \in Likers(x)
      BY <1>1, <2>4 DEF ChecksHold, Likers
    <3>2. Likers(x)' = Likers(x) \ {u}
      BY <1>2, <2>4 DEF Likers
    <3>3. Cardinality(Likers(x)') = Cardinality(Likers(x)) - 1
      BY <3>1, <3>2, Countable, FS_RemoveElement
    <3>4. QED
      BY <1>7, <2>1, <2>4, <3>3, NetsAreIntegers, Countable DEF Uncounted, TypeOK
  <2>5. QED
    BY <2>2, <2>3, <2>4 DEF Delta
<1>12. QED
  BY <1>4, <1>8, <1>9, <1>10, <1>11

\* Counting moves that from the requests to the counter.
LEMMA IncrementStep ==
    ASSUME IInv, NEW r \in Requests, Increment(r)
    PROVE  IInv'
<1> USE DEF IInv
<1>1. PICK u \in Users, x \in Targets, d \in Delta :
          request[r] = [at |-> "marked", user |-> u, of |-> x, delta |-> d]
  BY LikeRequestFacts DEF Increment, LikeRequest
<1> DEFINE q == [at |-> "counted", user |-> u, of |-> x, delta |-> d]
<1>2. /\ request' = [request EXCEPT ![r] = q]
      /\ count' = [count EXCEPT ![x] = @ + d]
      /\ UNCHANGED <<row, likes, liked, pending, faults, doubtful, drifted>>
  <2>1. [request[r] EXCEPT !.at = "counted"] = q
    BY <1>1
  <2>2. request' = [request EXCEPT ![r] = [request[r] EXCEPT !.at = "counted"]]
    BY DEF Increment
  <2>3. QED
    BY <1>1, <2>1, <2>2 DEF Increment
<1>3. q \in LikeRequest /\ d \in Int
  BY DEF LikeRequest, Delta
<1>4. TypeOK'
  BY <1>2, <1>3 DEF TypeOK
<1>5. row[x] # "none"
  BY <1>1 DEF NewIsUntouched, LikeRequest
<1>6. \A y : Net("counted", y)' = IF y = x THEN Net("counted", y) + d ELSE Net("counted", y)
  <2> SUFFICES ASSUME NEW y PROVE Net("counted", y)' = IF y = x THEN Net("counted", y) + d ELSE Net("counted", y)
    OBVIOUS
  <2>1. /\ request[r].at # "counted"
        /\ request'[r].at = "counted" /\ request'[r].of = x /\ request'[r].delta = d
        /\ \A s \in Requests \ {r} : request'[s] = request[s]
    BY <1>1, <1>2 DEF TypeOK
  <2>2. QED
    BY <2>1, Enters
<1>7. \A y : Net("marked", y)' = IF y = x THEN Net("marked", y) - d ELSE Net("marked", y)
  <2> SUFFICES ASSUME NEW y PROVE Net("marked", y)' = IF y = x THEN Net("marked", y) - d ELSE Net("marked", y)
    OBVIOUS
  <2>1. request[r].at = "marked" /\ request[r].of = x /\ request[r].delta = d /\ q.at # "marked"
    BY <1>1
  <2>2. QED
    BY <1>1, <1>2, <2>1, Leaves
<1>8. ChecksHold'
  BY <1>2 DEF ChecksHold, TypeOK
<1>9. NewIsUntouched'
  BY <1>2, <1>5 DEF NewIsUntouched, TypeOK
<1>10. \A y : Likers(y)' = Likers(y)
  BY <1>2 DEF Likers
<1>11. CountIsLikers'
  BY <1>2, <1>3, <1>7, <1>10, NetsAreIntegers DEF CountIsLikers, Uncounted, TypeOK
<1>12. ColumnHolds'
  BY <1>2, <1>3, <1>6, NetsAreIntegers DEF ColumnHolds, Unwritten, TypeOK
<1>13. QED
  BY <1>4, <1>8, <1>9, <1>11, <1>12

\* Publishing moves it from the request to the queue.
LEMMA PublishStep ==
    ASSUME IInv, NEW r \in Requests, Publish(r)
    PROVE  IInv'
<1> USE DEF IInv
<1>1. PICK u \in Users, x \in Targets, d \in Delta :
          request[r] = [at |-> "counted", user |-> u, of |-> x, delta |-> d]
  BY LikeRequestFacts DEF Publish, LikeRequest
<1>2. /\ request' = [request EXCEPT ![r] = Done]
      /\ pending' = [pending EXCEPT ![x][d] = @ + 1]
      /\ UNCHANGED <<row, likes, liked, count, faults, doubtful, drifted>>
  BY <1>1 DEF Publish
<1>3. TypeOK'
  BY <1>2 DEF TypeOK
<1>4. row[x] # "none"
  BY <1>1 DEF NewIsUntouched, LikeRequest
<1>5. \A y : Net("counted", y)' = IF y = x THEN Net("counted", y) - d ELSE Net("counted", y)
  <2> SUFFICES ASSUME NEW y PROVE Net("counted", y)' = IF y = x THEN Net("counted", y) - d ELSE Net("counted", y)
    OBVIOUS
  <2>1. request[r].at = "counted" /\ request[r].of = x /\ request[r].delta = d /\ Done.at # "counted"
    BY <1>1 DEF Done
  <2>2. QED
    BY <1>1, <1>2, <2>1, Leaves
<1>6. \A y : Net("marked", y)' = Net("marked", y)
  <2> SUFFICES ASSUME NEW y PROVE Net("marked", y)' = Net("marked", y)
    OBVIOUS
  <2>1. request[r].at # "marked" /\ Done.at # "marked"
    BY <1>1 DEF Done
  <2>2. QED
    BY <1>1, <1>2, <2>1, Stays
<1>7. \A y \in Targets : Unwritten(y)' = Unwritten(y)
  BY <1>2, <1>5, NetsAreIntegers DEF Unwritten, TypeOK, Delta
<1>8. ChecksHold'
  BY <1>2 DEF ChecksHold, TypeOK, Done
<1>9. NewIsUntouched'
  BY <1>2, <1>4 DEF NewIsUntouched, TypeOK, Done, LikeRequest
<1>10. \A y : Likers(y)' = Likers(y)
  BY <1>2 DEF Likers
<1>11. CountIsLikers' /\ ColumnHolds'
  BY <1>2, <1>6, <1>7, <1>10 DEF CountIsLikers, ColumnHolds, Uncounted
<1>12. QED
  BY <1>3, <1>8, <1>9, <1>11

\* Handling moves it from the queue to the column, or loses it and says so.
LEMMA HandlerStep ==
    ASSUME IInv, NEW x \in Targets, NEW d \in Delta,
           HandlerLikesEvent(x, d) \/ HandlerLikesEventFails(x, d)
    PROVE  IInv'
<1> USE DEF IInv
<1>1. /\ pending[x][d] > 0
      /\ pending' = [pending EXCEPT ![x][d] = @ - 1]
      /\ \/ /\ likes' = IF row[x] = "live" THEN [likes EXCEPT ![x] = @ + d] ELSE likes
            /\ drifted' = drifted
         \/ /\ likes' = likes
            /\ drifted' = drifted \cup {x}
      /\ faults' \in {faults, faults + 1}
      /\ UNCHANGED <<row, liked, count, request, doubtful>>
  BY DEF HandlerLikesEvent, HandlerLikesEventFails
<1>2. TypeOK'
  <2>1. pending[x][d] - 1 \in Nat
    BY <1>1 DEF TypeOK
  <2>2. pending' \in [Targets -> [Delta -> Nat]]
    BY <1>1, <2>1 DEF TypeOK
  <2>3. likes' \in [Targets -> Int] /\ drifted' \subseteq Targets
    BY <1>1 DEF TypeOK, Delta
  <2>4. QED
    BY <1>1, <2>2, <2>3 DEF TypeOK
<1>3. row[x] # "none"
  BY <1>1 DEF NewIsUntouched, TypeOK
<1>4. \A p, y : Net(p, y)' = Net(p, y)
  BY <1>1, NobodyMoves
<1>5. \A y \in Targets : Unwritten(y)' = IF y = x THEN Unwritten(y) - d ELSE Unwritten(y)
  BY <1>1, <1>4, NetsAreIntegers DEF Unwritten, TypeOK, Delta
<1>6. ChecksHold' /\ NewIsUntouched'
  BY <1>1, <1>3 DEF ChecksHold, NewIsUntouched, TypeOK
<1>7. \A y : Likers(y)' = Likers(y)
  BY <1>1 DEF Likers
<1>8. CountIsLikers'
  BY <1>1, <1>4, <1>7 DEF CountIsLikers, Uncounted
<1>9. ColumnHolds'
  BY <1>1, <1>3, <1>5, NetsAreIntegers DEF ColumnHolds, TypeOK, Delta
<1>10. QED
  BY <1>2, <1>6, <1>8, <1>9

\* Reading a post changes nothing else.
LEMMA ReadPostStep ==
    ASSUME IInv, NEW r \in Requests, NEW x \in Posts, NEW op \in {"savePost", "comment"},
           ReadPost(r, x, op)
    PROVE  IInv'
<1> USE DEF IInv
<1>1. PICK q \in RewriteRequest :
          /\ q.at = "read"
          /\ request' = [request EXCEPT ![r] = q]
  BY DEF ReadPost, RewriteRequest, TypeOK, Targets
<1>2. /\ request[r] = New
      /\ UNCHANGED <<row, likes, liked, count, pending, faults, doubtful, drifted>>
  BY DEF ReadPost
<1>3. TypeOK'
  BY <1>1, <1>2 DEF TypeOK
<1>4. \A p \in {"marked", "counted"} : \A y : Net(p, y)' = Net(p, y)
  <2> SUFFICES ASSUME NEW p \in {"marked", "counted"}, NEW y PROVE Net(p, y)' = Net(p, y)
    OBVIOUS
  <2>1. request[r].at # p /\ q.at # p
    BY <1>1, <1>2 DEF New
  <2>2. QED
    BY <1>1, <2>1, Stays
<1>5. \A y : Uncounted(y)' = Uncounted(y) /\ Unwritten(y)' = Unwritten(y) /\ Likers(y)' = Likers(y)
  BY <1>2, <1>4 DEF Uncounted, Unwritten, Likers
<1>6. ChecksHold'
  BY <1>1, <1>2 DEF ChecksHold, TypeOK
<1>7. NewIsUntouched'
  BY <1>1, <1>2 DEF NewIsUntouched, TypeOK, LikeRequest
<1>8. CountIsLikers' /\ ColumnHolds'
  BY <1>2, <1>5 DEF CountIsLikers, ColumnHolds
<1>9. QED
  BY <1>3, <1>6, <1>7, <1>8

\* WritePost and WriteComment: the request ends, and the column is as it was or
\* has drifted.
LEMMA WriteStep ==
    ASSUME IInv, NEW r \in Requests,
           WritePost(r) \/ \E c \in Comments : WriteComment(r, c)
    PROVE  IInv'
<1> USE DEF IInv
<1>1. /\ request[r].at = "read"
      /\ WriteBack(r)
      /\ \/ UNCHANGED row
         \/ \E c \in Comments : row[c] = "none" /\ row' = [row EXCEPT ![c] = "live"]
  BY DEF WritePost, WriteComment
<1>2. request[r] \in RewriteRequest
  BY <1>1 DEF TypeOK, New, Done, LikeRequest
<1>3. PICK x \in Posts : x = request[r].of /\ request[r].seen \in Int
  BY <1>2 DEF RewriteRequest
<1>4. /\ request' = [request EXCEPT ![r] = Done]
      /\ UNCHANGED <<liked, count, pending, faults, doubtful>>
      /\ \A y \in Targets : y \notin drifted' => likes'[y] = likes[y] /\ y \notin drifted
      /\ likes' \in [Targets -> Int]
      /\ drifted' \subseteq Targets
  BY <1>1, <1>3 DEF WriteBack, TypeOK, Targets
<1>5. /\ row' \in [Targets -> {"none", "live", "deleted"}]
      /\ \A y \in Targets : row'[y] = "none" => row[y] = "none"
      /\ \A y \in Targets : row'[y] # "deleted" => row[y] # "deleted"
  BY <1>1 DEF TypeOK, Targets
<1>6. TypeOK'
  BY <1>4, <1>5 DEF TypeOK
<1>7. \A p \in {"marked", "counted"} : \A y : Net(p, y)' = Net(p, y)
  <2> SUFFICES ASSUME NEW p \in {"marked", "counted"}, NEW y PROVE Net(p, y)' = Net(p, y)
    OBVIOUS
  <2>1. request[r].at # p /\ Done.at # p
    BY <1>1 DEF Done
  <2>2. QED
    BY <1>4, <2>1, Stays
<1>8. \A y : Uncounted(y)' = Uncounted(y) /\ Unwritten(y)' = Unwritten(y) /\ Likers(y)' = Likers(y)
  BY <1>4, <1>7 DEF Uncounted, Unwritten, Likers
<1>9. ChecksHold'
  BY <1>4 DEF ChecksHold, TypeOK, Done
<1>10. NewIsUntouched'
  BY <1>4, <1>5 DEF NewIsUntouched, TypeOK, Done, LikeRequest
<1>11. CountIsLikers'
  BY <1>4, <1>8 DEF CountIsLikers
<1>12. ColumnHolds'
  BY <1>4, <1>5, <1>8 DEF ColumnHolds
<1>13. QED
  BY <1>6, <1>9, <1>10, <1>11, <1>12

\* A failure loses what it was about to do, and says so.
LEMMA FailStep ==
    ASSUME IInv, NEW r \in Requests, Fail(r)
    PROVE  IInv'
<1> USE DEF IInv
<1>1. /\ request' = [request EXCEPT ![r] = Done]
      /\ faults' = faults + 1
      /\ doubtful' = IF request[r].at = "marked" THEN doubtful \cup {request[r].of} ELSE doubtful
      /\ drifted' = IF request[r].at = "counted" THEN drifted \cup {request[r].of} ELSE drifted
      /\ UNCHANGED <<row, likes, liked, count, pending>>
  BY DEF Fail
<1>2. TypeOK'
  BY <1>1, LikeRequestFacts DEF TypeOK
<1>3. ChecksHold'
  BY <1>1 DEF ChecksHold, TypeOK, Done
<1>4. NewIsUntouched'
  BY <1>1 DEF NewIsUntouched, TypeOK, Done, LikeRequest
<1>5. \A y \in Targets \ doubtful' : Uncounted(y)' = Uncounted(y)
  <2>1. CASE request[r].at = "marked"
    <3> SUFFICES ASSUME NEW y \in Targets, y # request[r].of
                 PROVE  Net("marked", y)' = Net("marked", y)
      BY <1>1, <2>1 DEF Uncounted
    <3>1. request[r].delta \in Delta /\ Done.at # "marked"
      BY <2>1, LikeRequestFacts DEF Done
    <3>2. QED
      BY <1>1, <2>1, <3>1, Leaves
  <2>2. CASE request[r].at # "marked"
    <3>1. Done.at # "marked"
      BY DEF Done
    <3>2. \A y : Net("marked", y)' = Net("marked", y)
      BY <1>1, <2>2, <3>1, Stays
    <3>3. QED
      BY <3>2 DEF Uncounted
  <2>3. QED
    BY <2>1, <2>2
<1>6. \A y \in Targets \ drifted' : Unwritten(y)' = Unwritten(y)
  <2>1. CASE request[r].at = "counted"
    <3> SUFFICES ASSUME NEW y \in Targets, y # request[r].of
                 PROVE  Net("counted", y)' = Net("counted", y)
      BY <1>1, <2>1 DEF Unwritten
    <3>1. request[r].delta \in Delta /\ Done.at # "counted"
      BY <2>1, LikeRequestFacts DEF Done
    <3>2. QED
      BY <1>1, <2>1, <3>1, Leaves
  <2>2. CASE request[r].at # "counted"
    <3>1. Done.at # "counted"
      BY DEF Done
    <3>2. \A y : Net("counted", y)' = Net("counted", y)
      BY <1>1, <2>2, <3>1, Stays
    <3>3. QED
      BY <1>1, <3>2 DEF Unwritten
  <2>3. QED
    BY <2>1, <2>2
<1>7. \A y : Likers(y)' = Likers(y)
  BY <1>1 DEF Likers
<1>8. CountIsLikers'
  BY <1>1, <1>5, <1>7 DEF CountIsLikers
<1>9. ColumnHolds'
  BY <1>1, <1>6 DEF ColumnHolds
<1>10. QED
  BY <1>2, <1>3, <1>4, <1>8, <1>9

\* A restart loses all of that at once.
LEMMA RestartStep ==
    ASSUME IInv, Restart
    PROVE  IInv'
<1> USE DEF IInv
<1>1. /\ request' = [r \in Requests |-> IF request[r] = New THEN New ELSE Done]
      /\ pending' = [x \in Targets |-> [d \in Delta |-> 0]]
      /\ faults' = faults + 1
      /\ doubtful' = doubtful \cup {x \in Targets : Uncounted(x) # 0}
      /\ drifted' = drifted \cup {x \in Targets : Unwritten(x) # 0}
      /\ UNCHANGED <<row, likes, liked, count>>
  BY DEF Restart
<1>2. TypeOK'
  BY <1>1 DEF TypeOK
<1>3. \A r \in Requests : request'[r].at \in {"new", "done"}
  BY <1>1 DEF New, Done
<1>4. \A p \in {"marked", "counted"} : \A y, d : At(p, y, d)' = {}
  BY <1>3 DEF At
<1>5. \A p \in {"marked", "counted"} : \A y : Net(p, y)' = 0
  BY <1>4, FS_EmptySet DEF Net
<1>6. \A y \in Targets : Uncounted(y)' = 0 /\ Unwritten(y)' = 0
  BY <1>1, <1>5 DEF Uncounted, Unwritten, Delta
<1>7. \A y : Likers(y)' = Likers(y)
  BY <1>1 DEF Likers
<1>8. ChecksHold'
  BY <1>3 DEF ChecksHold
<1>9. NewIsUntouched'
  BY <1>1, <1>3 DEF NewIsUntouched, LikeRequest
<1>10. CountIsLikers'
  BY <1>1, <1>6, <1>7 DEF CountIsLikers
<1>11. ColumnHolds'
  BY <1>1, <1>6 DEF ColumnHolds
<1>12. QED
  BY <1>2, <1>8, <1>9, <1>10, <1>11

\* Every step preserves the invariant.
LEMMA NextStep == IInv /\ [Next]_vars => IInv'
<1> SUFFICES ASSUME IInv, [Next]_vars PROVE IInv'
  OBVIOUS
<1>1. CASE \E x \in Targets : SavePost(x) \/ Delete(x)
  BY <1>1, RowStep
<1>2. CASE \E r \in Requests, u \in Users, x \in Targets : Like(r, u, x) \/ Unlike(r, u, x)
  BY <1>2, CheckedStep
<1>3. CASE \E r \in Requests, x \in Posts, op \in {"savePost", "comment"} : ReadPost(r, x, op)
  BY <1>3, ReadPostStep
<1>4. CASE \E r \in Requests : Proceed(r) \/ Fail(r)
  BY <1>4, MarkStep, IncrementStep, PublishStep, WriteStep, FailStep DEF Proceed
<1>5. CASE \E x \in Targets, d \in Delta : HandlerLikesEvent(x, d) \/ HandlerLikesEventFails(x, d)
  BY <1>5, HandlerStep
<1>6. CASE Restart
  BY <1>6, RestartStep
<1>7. CASE UNCHANGED vars
  <2>1. \A y : Uncounted(y)' = Uncounted(y) /\ Unwritten(y)' = Unwritten(y) /\ Likers(y)' = Likers(y)
    BY <1>7, NobodyMoves DEF vars, Uncounted, Unwritten, Likers
  <2>2. QED
    BY <1>7, <2>1 DEF vars, IInv, TypeOK, ChecksHold, NewIsUntouched, CountIsLikers, ColumnHolds
<1>8. QED
  BY <1>1, <1>2, <1>3, <1>4, <1>5, <1>6, <1>7 DEF Next, Targets

\* The inductive invariant holds of every behaviour.
LEMMA LikesIInv == Spec => []IInv
  BY InitIInv, NextStep, PTL DEF Spec

----------------------------------------------------------------------------
\* The rows, the keys and counters in redis, the queue of the executor and the
\* requests keep their types; in particular no event is handled that was not
\* published.
THEOREM LikesTypeOK == Spec => []TypeOK
<1>1. IInv => TypeOK
  BY DEF IInv
<1>2. QED
  BY LikesIInv, <1>1, PTL

\* Likes and unlikes by any number of users, in any order of their steps: the
\* counter in redis is the number of users with a key, but for requests between
\* the two changes, as long as no user's requests saw the same key.
THEOREM LikesCounted == Spec => []CountIsLikers
<1>1. IInv => CountIsLikers
  BY DEF IInv
<1>2. QED
  BY LikesIInv, <1>1, PTL

\* The likes column follows the counter through the events, in whatever order the
\* executor handles them, until somebody writes back an old value or an event is
\* lost: to a restart, a request that fails before it publishes, or a listener that
\* fails to update the column.
THEOREM LikesWritten == Spec => []ColumnFollowsCount
<1>1. IInv => ColumnFollowsCount
  BY DEF IInv, ColumnHolds, ColumnFollowsCount
<1>2. QED
  BY LikesIInv, <1>1, PTL

----------------------------------------------------------------------------
(* At rest.                                                                  *)

\* No request is between a key and the event of x, and no event of x is left.
AtRest(x) ==
    /\ \A d \in Delta : At("marked", x, d) = {} /\ At("counted", x, d) = {}
    /\ \A d \in Delta : pending[x][d] = 0

\* What is known at rest about a target without an accident in its past.
AgreesAtRest ==
    \A x \in Targets \ (doubtful \cup drifted) :
        AtRest(x) =>
            /\ count[x] = Cardinality(Likers(x))
            /\ row[x] = "live" => likes[x] = Cardinality(Likers(x))

LEMMA NothingUnderWay ==
    ASSUME NEW x \in Targets, AtRest(x)
    PROVE  Uncounted(x) = 0 /\ Unwritten(x) = 0
<1>1. 1 \in Delta /\ -1 \in Delta
  BY DEF Delta
<1>2. Cardinality({}) = 0
  BY FS_EmptySet
<1>3. At("marked", x, 1) = {} /\ At("marked", x, -1) = {}
  BY <1>1 DEF AtRest
<1>4. At("counted", x, 1) = {} /\ At("counted", x, -1) = {}
  BY <1>1 DEF AtRest
<1>5. pending[x][1] = 0 /\ pending[x][-1] = 0
  BY <1>1 DEF AtRest
<1>6. Net("marked", x) = 0 /\ Net("counted", x) = 0
  BY <1>2, <1>3, <1>4 DEF Net
<1>7. QED
  BY <1>5, <1>6 DEF Uncounted, Unwritten

\* Whenever no like or unlike of a post or comment is under way, its counter and
\* its column are the number of users that like it, however the requests and the
\* handlers of their events were mixed before: unless a request or a handler failed,
\* a restart cut one short, two requests of one user saw the same key, or an old row
\* was written back.
THEOREM LikesAgreeAtRest == Spec => []AgreesAtRest
<1>1. ASSUME IInv PROVE AgreesAtRest
  <2>1. SUFFICES ASSUME NEW x \in Targets \ (doubtful \cup drifted), AtRest(x)
                 PROVE  /\ count[x] = Cardinality(Likers(x))
                        /\ row[x] = "live" => likes[x] = Cardinality(Likers(x))
    BY DEF AgreesAtRest
  <2>2. Uncounted(x) = 0 /\ Unwritten(x) = 0
    BY <2>1, NothingUnderWay
  <2>3. count[x] \in Int /\ likes[x] \in Int
    BY <1>1 DEF IInv, TypeOK
  <2>4. count[x] + Uncounted(x) = Cardinality(Likers(x))
    BY <1>1, <2>1 DEF IInv, CountIsLikers
  <2>5. row[x] = "live" => likes[x] + Unwritten(x) = count[x]
    BY <1>1, <2>1 DEF IInv, ColumnHolds
  <2>6. QED
    BY <2>2, <2>3, <2>4, <2>5
<1>2. QED
  BY LikesIInv, <1>1, PTL
=============================================================================
