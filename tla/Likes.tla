------------------------------- MODULE Likes -------------------------------
(* Likes of posts and comments.  A request that likes or unlikes checks,     *)
(* then changes a key and a counter in redis and publishes an event, each in *)
(* a call of its own; a thread of the @Async executor later adds the event   *)
(* to the likes column of the row, or fails to, and nobody tries again.      *)
(* Requests that edit or comment a post read the row and write all of it     *)
(* back, the likes column included.                                          *)
EXTENDS Integers, FiniteSets

CONSTANTS
    Users,
    Posts,        \* the ids of posts
    Comments,     \* the ids of comments
    PostOf,       \* the post an id of a comment is drawn for
    Requests,     \* the requests that are ever sent
    Faults        \* how often a request or a listener fails or the server restarts

ASSUME FinitelyManyUsers == IsFiniteSet(Users)
ASSUME FinitelyManyRequests == IsFiniteSet(Requests)
ASSUME CommentsAreNotPosts == Comments \cap Posts = {}
ASSUME CommentsHavePosts == PostOf \in [Comments -> Posts]
ASSUME FaultsAreCounted == Faults \in Nat

Targets == Posts \cup Comments

VARIABLES
    row,          \* tables posts and post_comments: is the row there
    likes,        \* their likes columns
    liked,        \* redis: the keys of users and what they like
    count,        \* redis: the like counters
    pending,      \* events in the queue of the executor, per target and delta
    request,      \* the requests and the point each has reached
    faults,       \* how many faults there were
    doubtful,     \* history: targets whose counter may not count the likers
    drifted       \* history: targets whose column may not follow the counter

vars == <<row, likes, liked, count, pending, request, faults, doubtful, drifted>>

Delta == {1, -1}

New == [at |-> "new"]
Done == [at |-> "done"]

LikeRequest ==
    [at: {"checked", "marked", "counted"}, user: Users, of: Targets, delta: Delta]

RewriteRequest ==
    [at: {"read"}, op: {"savePost", "comment"}, of: Posts, seen: Int]

TypeOK ==
    /\ row \in [Targets -> {"none", "live", "deleted"}]
    /\ likes \in [Targets -> Int]
    /\ liked \subseteq Users \X Targets
    /\ count \in [Targets -> Int]
    /\ pending \in [Targets -> [Delta -> Nat]]
    /\ request \in [Requests -> {New, Done} \cup LikeRequest \cup RewriteRequest]
    /\ faults \in Nat
    /\ doubtful \subseteq Targets
    /\ drifted \subseteq Targets

Init ==
    /\ row = [x \in Targets |-> "none"]
    /\ likes = [x \in Targets |-> 0]
    /\ liked = {}
    /\ count = [x \in Targets |-> 0]
    /\ pending = [x \in Targets |-> [d \in Delta |-> 0]]
    /\ request = [r \in Requests |-> New]
    /\ faults = 0
    /\ doubtful = {}
    /\ drifted = {}

Likers(x) == {u \in Users : <<u, x>> \in liked}

\* The like requests of x with delta d that have reached the point p.
At(p, x, d) ==
    {r \in Requests : request[r].at = p /\ request[r].of = x /\ request[r].delta = d}

\* What these requests add up to.
Net(p, x) == Cardinality(At(p, x, 1)) - Cardinality(At(p, x, -1))

\* What the requests that changed a key have still to add to the counter.
Uncounted(x) == Net("marked", x)

\* What the counter has got and the column has not.
Unwritten(x) == Net("counted", x) + (pending[x][1] - pending[x][-1])

----------------------------------------------------------------------------
(* Rows come and go.                                                         *)

SavePost(x) ==
    /\ row[x] = "none"
    /\ row' = [row EXCEPT ![x] = "live"]
    /\ UNCHANGED <<likes, liked, count, pending, request, faults, doubtful, drifted>>

\* delPost and delComment; neither looks at the likes.
Delete(x) ==
    /\ row[x] = "live"
    /\ row' = [row EXCEPT ![x] = "deleted"]
    /\ UNCHANGED <<likes, liked, count, pending, request, faults, doubtful, drifted>>

----------------------------------------------------------------------------
(* A request that likes (delta 1) or unlikes (delta -1).                     *)

\* The request has seen the key.  If another one of the same user is between
\* its look at the key and its change of it, both will change it.
Checked(r, u, x, d) ==
    LET q == [at |-> "checked", user |-> u, of |-> x, delta |-> d]
        twice == \E s \in At("checked", x, 1) \cup At("checked", x, -1) : request[s].user = u
    IN  /\ request[r] = New
        /\ request' = [request EXCEPT ![r] = q]
        /\ doubtful' = IF twice THEN doubtful \cup {x} ELSE doubtful
        /\ UNCHANGED <<row, likes, liked, count, pending, faults, drifted>>

\* Mutant: likes without a look at the key.
LikeAgain(r, u, x) ==
    /\ row[x] = "live"
    /\ Checked(r, u, x, 1)

Like(r, u, x) ==
    /\ row[x] = "live"
    /\ <<u, x>> \notin liked
    /\ Checked(r, u, x, 1)

\* cancelLikesComment does not ask whether the comment is there.
Unlike(r, u, x) ==
    /\ x \in Posts => row[x] = "live"
    /\ <<u, x>> \in liked
    /\ Checked(r, u, x, -1)

Mark(r) ==
    LET key == <<request[r].user, request[r].of>>
    IN  /\ request[r].at = "checked"
        /\ liked' = IF request[r].delta = 1 THEN liked \cup {key} ELSE liked \ {key}
        /\ request' = [request EXCEPT ![r].at = "marked"]
        /\ UNCHANGED <<row, likes, count, pending, faults, doubtful, drifted>>

Increment(r) ==
    /\ request[r].at = "marked"
    /\ count' = [count EXCEPT ![request[r].of] = @ + request[r].delta]
    /\ request' = [request EXCEPT ![r].at = "counted"]
    /\ UNCHANGED <<row, likes, liked, pending, faults, doubtful, drifted>>

\* Mutant: no event is published.
PublishNothing(r) ==
    /\ request[r].at = "counted"
    /\ request' = [request EXCEPT ![r] = Done]
    /\ UNCHANGED <<row, likes, liked, count, pending, faults, doubtful, drifted>>

Publish(r) ==
    /\ request[r].at = "counted"
    /\ pending' = [pending EXCEPT ![request[r].of][request[r].delta] = @ + 1]
    /\ request' = [request EXCEPT ![r] = Done]
    /\ UNCHANGED <<row, likes, liked, count, faults, doubtful, drifted>>

\* Mutant: the listener adds 1 for an unlike, too.
HandlerAddsOne(x, d) ==
    /\ pending[x][d] > 0
    /\ pending' = [pending EXCEPT ![x][d] = @ - 1]
    /\ likes' = IF row[x] = "live" THEN [likes EXCEPT ![x] = @ + 1] ELSE likes
    /\ UNCHANGED <<row, liked, count, request, faults, doubtful, drifted>>

\* The executor has several threads, so that events are handled in any order.
HandlerLikesEvent(x, d) ==
    /\ pending[x][d] > 0
    /\ pending' = [pending EXCEPT ![x][d] = @ - 1]
    /\ likes' = IF row[x] = "live" THEN [likes EXCEPT ![x] = @ + d] ELSE likes
    /\ UNCHANGED <<row, liked, count, request, faults, doubtful, drifted>>

----------------------------------------------------------------------------
(* A request that edits or comments a post: one transaction.                 *)

ReadPost(r, x, op) ==
    /\ request[r] = New
    /\ row[x] = "live"
    /\ request' = [request EXCEPT ![r] = [at |-> "read", op |-> op, of |-> x, seen |-> likes[x]]]
    /\ UNCHANGED <<row, likes, liked, count, pending, faults, doubtful, drifted>>

\* updateById writes every column that was read, to a row that is still there.
WriteBack(r) ==
    LET x == request[r].of
        stale == row[x] = "live" /\ likes[x] # request[r].seen
    IN  /\ likes' = IF row[x] = "live" THEN [likes EXCEPT ![x] = request[r].seen] ELSE likes
        /\ drifted' = IF stale THEN drifted \cup {x} ELSE drifted
        /\ request' = [request EXCEPT ![r] = Done]
        /\ UNCHANGED <<liked, count, pending, faults, doubtful>>

WritePost(r) ==
    /\ request[r].at = "read"
    /\ request[r].op = "savePost"
    /\ WriteBack(r)
    /\ UNCHANGED row

\* commentPost and replyToComments also insert the comment.
WriteComment(r, c) ==
    /\ request[r].at = "read"
    /\ request[r].op = "comment"
    /\ PostOf[c] = request[r].of
    /\ row[c] = "none"
    /\ WriteBack(r)
    /\ row' = [row EXCEPT ![c] = "live"]

----------------------------------------------------------------------------
(* Faults.  Nothing is undone in redis, and the queue is in memory.          *)

\* A call to redis or the database throws, and the request ends there.
Fail(r) ==
    /\ faults < Faults
    /\ request[r].at \in {"checked", "marked", "counted", "read"}
    /\ faults' = faults + 1
    /\ request' = [request EXCEPT ![r] = Done]
    /\ doubtful' = IF request[r].at = "marked" THEN doubtful \cup {request[r].of} ELSE doubtful
    /\ drifted' = IF request[r].at = "counted" THEN drifted \cup {request[r].of} ELSE drifted
    /\ UNCHANGED <<row, likes, liked, count, pending>>

\* The update of the listener throws in a thread of the executor: the event is
\* lost, for nobody tries again.
HandlerLikesEventFails(x, d) ==
    /\ faults < Faults
    /\ pending[x][d] > 0
    /\ pending' = [pending EXCEPT ![x][d] = @ - 1]
    /\ faults' = faults + 1
    /\ drifted' = drifted \cup {x}
    /\ UNCHANGED <<row, likes, liked, count, request, doubtful>>

Restart ==
    /\ faults < Faults
    /\ faults' = faults + 1
    /\ request' = [r \in Requests |-> IF request[r] = New THEN New ELSE Done]
    /\ pending' = [x \in Targets |-> [d \in Delta |-> 0]]
    /\ doubtful' = doubtful \cup {x \in Targets : Uncounted(x) # 0}
    /\ drifted' = drifted \cup {x \in Targets : Unwritten(x) # 0}
    /\ UNCHANGED <<row, likes, liked, count>>

----------------------------------------------------------------------------
Proceed(r) ==
    \/ Mark(r) \/ Increment(r) \/ Publish(r)
    \/ WritePost(r)
    \/ \E c \in Comments : WriteComment(r, c)

Next ==
    \/ \E x \in Posts : SavePost(x)
    \/ \E x \in Targets : Delete(x)
    \/ \E r \in Requests, u \in Users, x \in Targets : Like(r, u, x) \/ Unlike(r, u, x)
    \/ \E r \in Requests, x \in Posts, op \in {"savePost", "comment"} : ReadPost(r, x, op)
    \/ \E r \in Requests : Proceed(r) \/ Fail(r)
    \/ \E x \in Targets, d \in Delta : HandlerLikesEvent(x, d) \/ HandlerLikesEventFails(x, d)
    \/ Restart

Spec == Init /\ [][Next]_vars

\* A request that was started runs to its end, and the executor works.
Fairness ==
    /\ \A r \in Requests : WF_vars(Proceed(r))
    /\ \A x \in Targets, d \in Delta : WF_vars(HandlerLikesEvent(x, d))

FairSpec == Spec /\ Fairness

----------------------------------------------------------------------------
(* Properties.                                                               *)

\* The counter in redis and the keys of the users agree, but for the requests
\* that have changed a key and not yet the counter (like, unLike and their
\* counterparts for comments): unless two requests of one user saw the same key
\* or one failed in between, in whatever order requests of one or of several
\* users take their steps.
CountIsLikers ==
    \A x \in Targets \ doubtful : count[x] + Uncounted(x) = Cardinality(Likers(x))

\* The likes column of a row that is there is the counter in redis, but for what
\* is not published or not handled yet (LikesEvent): unless somebody wrote back an
\* old value with the post, or an event was lost to a restart or a failure of the
\* request or of the listener.  In particular events may be handled in any order.
ColumnFollowsCount ==
    \A x \in Targets \ drifted :
        row[x] = "live" => likes[x] + Unwritten(x) = count[x]

\* When none of that happens, the column ends up with the number of users that
\* like the post or the comment.
LikesSettle ==
    \A x \in Targets :
        <>[](row[x] = "live" /\ x \notin doubtful \cup drifted)
            => <>[](likes[x] = Cardinality(Likers(x)))
=============================================================================
