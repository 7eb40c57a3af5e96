----------------------------- MODULE RateLimit ------------------------------
(***************************************************************************)
(* The limiter of requests (RedisServiceImpl.overRequestRateLimit) behind  *)
(* HttpRequestRateLimitAspect and WebSocketRateLimitHandler: one key of    *)
(* Redis, which counts the requests of one address, and the requests that  *)
(* run it at the same time.  INCR, TTL and EXPIRE are three calls: the key *)
(* can expire, other requests can run, a call can fail and the server can  *)
(* stop in between.                                                        *)
(***************************************************************************)
EXTENDS Integers, FiniteSets

CONSTANTS
    Requests,       \* threads that can be inside the limiter at once
    Max,            \* requests a window admits
    Window,         \* expireTime, in ticks
    FaultBound      \* bound: failing calls and stops of the server

ASSUME RequestsAreFinite == IsFiniteSet(Requests)
ASSUME BoundsAreNumbers == {Max, Window} \subseteq Nat \ {0} /\ FaultBound \in Nat

VARIABLES
    count,          \* the value of the key, 0 when there is none
    ttl,            \* ticks until the key expires, -1 without an expiry, -2 without a key
    pc,             \* where a request stands
    seen,           \* its local count
    time,           \* its local time
    granted,        \* history: requests INCR counted within Max since the window began
    admitted,       \* history: requests of these that were let through
    holders,        \* history: requests of the window that are not answered yet
    age,            \* history: ticks since the window began, at most Window
    faults,         \* history: failing calls and stops of the server
    orphan          \* history: a fault left the key without an expiry, and nobody came since

local == <<pc, seen, time>>
window == <<granted, admitted, holders, age>>
history == <<window, faults, orphan>>
vars == <<count, ttl, local, history>>

\* The code asks of a count only whether it is 1 and whether it is over Max,
\* so that a count over Max stands for all of them
Counts == 0 .. Max + 1
OneMore(n) == IF n > Max THEN n ELSE n + 1

TypeOK ==
    /\ count \in Counts
    /\ ttl \in -2 .. Window
    /\ ttl # 0
    /\ count = 0 <=> ttl = -2
    /\ pc \in [Requests -> {"away", "counted", "timed"}]
    /\ seen \in [Requests -> Counts]
    /\ time \in [Requests -> -2 .. Window]
    /\ granted \in Nat
    /\ admitted \in Nat
    /\ holders \subseteq {r \in Requests : pc[r] # "away"}
    /\ age \in 0 .. Window
    /\ faults \in 0 .. FaultBound
    /\ orphan \in BOOLEAN
    /\ orphan => ttl = -1

Init ==
    /\ count = 0
    /\ ttl = -2
    /\ pc = [r \in Requests |-> "away"]
    /\ seen = [r \in Requests |-> 0]
    /\ time = [r \in Requests |-> -2]
    /\ granted = 0
    /\ admitted = 0
    /\ holders = {}
    /\ age = Window
    /\ faults = 0
    /\ orphan = FALSE

-----------------------------------------------------------------------------
(* The calls of one request *)

\* Mutant: one request too many
OverByOne(n) == n > Max + 1

\* Mutant: one request too few
OverAtMax(n) == n >= Max

Over(n) == n > Max

\* INCR makes a key without an expiry, or keeps the expiry of the one there is.
\* A window of the history begins with a key, when the last one is long enough
\* ago; an earlier key still counts for the last one.
Increment(r) ==
    LET begins == count = 0 /\ age = Window
        before == IF begins THEN 0 ELSE granted
    IN  /\ pc[r] = "away"
        /\ count' = OneMore(count)
        /\ ttl' = IF count = 0 THEN -1 ELSE ttl
        /\ pc' = [pc EXCEPT ![r] = "counted"]
        /\ seen' = [seen EXCEPT ![r] = count']
        /\ granted' = IF Over(count') THEN before ELSE before + 1
        /\ admitted' = IF begins THEN 0 ELSE admitted
        /\ holders' = IF begins THEN {r} ELSE holders \cup {r}
        /\ age' = IF begins THEN 0 ELSE age
        /\ orphan' = FALSE
        /\ UNCHANGED <<time, faults>>

GetExpire(r) ==
    /\ pc[r] = "counted"
    /\ pc' = [pc EXCEPT ![r] = "timed"]
    /\ time' = [time EXCEPT ![r] = ttl]
    /\ UNCHANGED <<count, ttl, seen, history>>

\* Mutant: the time is not looked at
SetsExpiryOnce(r) == seen[r] = 1

\* Mutant: the answers of TTL for no key and for no expiry are mixed up
SetsExpiryWithoutKey(r) == time[r] = -2

\* The first request of a key, or one that finds it without an expiry
SetsExpiry(r) == seen[r] = 1 \/ time[r] = -1

Gone(r) ==
    /\ pc' = [pc EXCEPT ![r] = "away"]
    /\ seen' = [seen EXCEPT ![r] = 0]
    /\ time' = [time EXCEPT ![r] = -2]
    /\ holders' = holders \ {r}

\* The request goes on, or it is refused
Answer(r) ==
    /\ Gone(r)
    /\ admitted' = IF Over(seen[r]) \/ r \notin holders THEN admitted ELSE admitted + 1
    /\ UNCHANGED <<granted, age, faults>>

\* EXPIRE does nothing when the key is gone
Expire(r) ==
    /\ pc[r] = "timed"
    /\ SetsExpiry(r)
    /\ ttl' = IF count = 0 THEN ttl ELSE Window
    /\ orphan' = FALSE
    /\ Answer(r)
    /\ UNCHANGED count

LeaveExpiry(r) ==
    /\ pc[r] = "timed"
    /\ ~SetsExpiry(r)
    /\ Answer(r)
    /\ UNCHANGED <<count, ttl, orphan>>

-----------------------------------------------------------------------------
(* Time, failing calls, and the server *)

Tick ==
    /\ count > 0 \/ age < Window
    /\ IF ttl = 1
       THEN count' = 0 /\ ttl' = -2
       ELSE ttl' = (IF ttl > 0 THEN ttl - 1 ELSE ttl) /\ UNCHANGED count
    /\ age' = IF age = Window THEN age ELSE age + 1
    /\ UNCHANGED <<local, granted, admitted, holders, faults, orphan>>

\* The request has still to look at the expiry, or has seen that it sets one
OnItsWay(r) ==
    \/ pc[r] = "counted"
    \/ pc[r] = "timed" /\ (seen[r] = 1 \/ time[r] = -1)

Fault == faults < FaultBound /\ faults' = faults + 1

\* TTL or EXPIRE throws, or INCR does after it counted, and so does the limiter.
\* An EXPIRE whose answer is lost may have set the expiry.
CallFails(r) ==
    /\ Fault
    /\ \/ pc[r] = "counted" /\ ttl' = ttl
       \/ pc[r] = "timed" /\ SetsExpiry(r) /\ ttl' \in {ttl, IF count = 0 THEN ttl ELSE Window}
    /\ orphan' = (ttl' = -1 /\ (orphan \/ \A s \in Requests \ {r} : ~OnItsWay(s)))
    /\ Gone(r)
    /\ UNCHANGED <<count, granted, admitted, age>>

\* The server stops, and the requests with it; Redis goes on
Crash ==
    /\ Fault
    /\ pc' = [r \in Requests |-> "away"]
    /\ seen' = [r \in Requests |-> 0]
    /\ time' = [r \in Requests |-> -2]
    /\ holders' = {}
    /\ orphan' = (ttl = -1)
    /\ UNCHANGED <<count, ttl, granted, admitted, age>>

Next ==
    \/ \E r \in Requests : Increment(r) \/ GetExpire(r) \/ Expire(r) \/ LeaveExpiry(r)
    \/ Tick
    \/ \E r \in Requests : CallFails(r)
    \/ Crash

Spec == Init /\ [][Next]_vars

\* Time passes, and a request that has started goes on; nobody has to come
Fairness ==
    /\ WF_vars(Tick)
    /\ \A r \in Requests : WF_vars(GetExpire(r) \/ Expire(r) \/ LeaveExpiry(r))

FairSpec == Spec /\ Fairness

-----------------------------------------------------------------------------
(* Properties *)

\* "M/N means that only M times can be requested in N time units"
\* (RateLimitEnum.java:11): of the requests that come from the first request of a
\* key on, no more than Max are let through in Window ticks, however the three
\* calls of several requests mix and wherever a call fails or the server stops.
\* A late EXPIRE of a request of an earlier key can make the window longer, and
\* never shorter.
OnlyMaxInWindow == admitted <= Max

\* The limiter implements a fixed window, the one its key stands for: a request
\* is refused only when Max came before it in the window, also when an EXPIRE
\* comes late; a request that was counted and then lost to a failing call or a
\* stop has used up its place, and is not let through; and a window that ends has
\* been open for Window ticks.
Limiter == INSTANCE FixedWindow WITH open <- count > 0, full <- Over(count)
ImplementsFixedWindow == Limiter!Spec

\* A key that has no expiry has a request on its way that gives it one: the
\* one that made it, or one that reads, or has read, that it has none.  Only
\* a failing call of the last such request or a stop of the server leaves a key
\* without, until the next request.
ExpiryIsOnItsWay == ttl = -1 /\ ~orphan => \E r \in Requests : OnItsWay(r)

\* Nobody is locked out for good.  Once the last call has failed and the server
\* has stopped for the last time, a key that some request counts on ends, whether
\* or not requests keep coming: the first to find the key without an expiry sets
\* it, and those that find one leave it alone.
KeysEnd ==
    faults = FaultBound /\ count > 0 /\ (\E r \in Requests : pc[r] = "counted")
        ~> count = 0
=============================================================================
