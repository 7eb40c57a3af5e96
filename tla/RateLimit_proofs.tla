-------------------------- MODULE RateLimit_proofs --------------------------
(***************************************************************************)
(* Proofs about RateLimit, for every finite set of requests, every limit   *)
(* and window, and any number of failing calls and stops: its invariants,  *)
(* and that it implements FixedWindow.                                     *)
(***************************************************************************)
EXTENDS RateLimit, FiniteSetTheorems, TLAPS

-----------------------------------------------------------------------------
(* The inductive invariant *)

\* A key is there until its window is over, also when an EXPIRE came late
WindowLasts ==
    /\ count = 0 => age = Window
    /\ ttl > 0 => age + ttl >= Window

\* The key counts the places that are taken, and the first refused
CountIsGranted ==
    /\ Over(count) => granted = Max
    /\ count > 0 /\ ~Over(count) => granted = count
    /\ granted <= Max

\* The requests of the window that have a place and are not answered yet
Holding == {r \in holders : ~Over(seen[r])}

\* Nobody is let through without a place
PlacesAreKept == admitted + Cardinality(Holding) <= granted

Windows == WindowLasts /\ CountIsGranted /\ PlacesAreKept

IInv == TypeOK /\ Windows /\ ExpiryIsOnItsWay

LEMMA Numbers == Max \in Nat /\ Max > 0 /\ Window \in Nat /\ Window > 0 /\ FaultBound \in Nat
  BY BoundsAreNumbers

\* INCR stays within the counts the model tells apart.
LEMMA OneMoreIsCount ==
    ASSUME NEW n \in Counts
    PROVE  /\ OneMore(n) \in Counts
           /\ OneMore(n) > 0
           /\ n <= Max => OneMore(n) = n + 1
           /\ n > Max => OneMore(n) = n
  BY Numbers DEF Counts, OneMore

\* Those that hold a place can be counted.
LEMMA Countable ==
    ASSUME TypeOK
    PROVE  IsFiniteSet(Holding) /\ Cardinality(Holding) \in Nat
  BY RequestsAreFinite, FS_Subset, FS_CardinalityType DEF TypeOK, Holding

LEMMA InitIInv == Init => IInv
  <1> SUFFICES ASSUME Init PROVE IInv
    OBVIOUS
  <1>1. TypeOK
    <2>1. count \in Counts /\ ttl \in -2 .. Window /\ age \in 0 .. Window /\ faults \in 0 .. FaultBound
      BY Numbers DEF Init, Counts
    <2>2. /\ pc \in [Requests -> {"away", "counted", "timed"}]
          /\ seen \in [Requests -> Counts]
          /\ time \in [Requests -> -2 .. Window]
      BY Numbers DEF Init, Counts
    <2>3. ttl # 0 /\ (count = 0 <=> ttl = -2) /\ granted \in Nat /\ admitted \in Nat /\ holders = {}
      BY DEF Init
    <2>4. orphan \in BOOLEAN /\ (orphan => ttl = -1)
      BY DEF Init
    <2> QED
      BY <2>1, <2>2, <2>3, <2>4 DEF TypeOK
  <1>2. Holding = {} /\ Cardinality(Holding) = 0
    BY FS_EmptySet DEF Init, Holding
  <1>3. Windows /\ ExpiryIsOnItsWay
    BY <1>2, Numbers DEF Init, Windows, WindowLasts, CountIsGranted, PlacesAreKept, ExpiryIsOnItsWay, Over
  <1> QED
    BY <1>1, <1>3 DEF IInv

-----------------------------------------------------------------------------
(* The steps *)

\* INCR begins a window, takes a place in one, or finds none.
LEMMA IncrementFacts ==
    ASSUME IInv, NEW r \in Requests, Increment(r)
    PROVE  \/ /\ count = 0 /\ count' = 1 /\ granted' = 1 /\ admitted' = 0 /\ age' = 0
              /\ Holding' = {r} /\ ~Over(count) /\ ~Over(count')
           \/ /\ count > 0 /\ count < Max /\ count' = count + 1 /\ granted' = count'
              /\ granted = count /\ admitted' = admitted /\ age' = age
              /\ Holding' = Holding \cup {r} /\ ~Over(count) /\ ~Over(count')
           \/ /\ count >= Max /\ count' > Max /\ granted' = granted /\ granted = Max
              /\ admitted' = admitted /\ age' = age
              /\ Holding' = Holding /\ Over(count')
  <1> USE Numbers
  <1>1. /\ count \in Counts /\ count' = OneMore(count) /\ granted \in Nat
        /\ count = 0 => age = Window
        /\ Over(count) => granted = Max
        /\ count > 0 /\ ~Over(count) => granted = count
        /\ r \notin holders
    BY DEF IInv, Windows, TypeOK, WindowLasts, CountIsGranted, Increment
  <1>2. seen' = [seen EXCEPT ![r] = count'] /\ seen \in [Requests -> Counts] /\ holders \subseteq Requests
    BY DEF IInv, TypeOK, Increment
  <1>3. CASE count = 0
    <2>1. count' = 1 /\ granted' = 1 /\ admitted' = 0 /\ age' = 0 /\ holders' = {r}
      BY <1>1, <1>3, OneMoreIsCount DEF Increment, Over
    <2>2. Holding' = {r}
      BY <1>2, <2>1 DEF Holding, Over
    <2> QED
      BY <1>3, <2>1, <2>2 DEF Over
  <1>4. CASE count > 0 /\ count < Max
    <2>1. count' = count + 1 /\ granted' = granted + 1 /\ admitted' = admitted /\ age' = age
          /\ holders' = holders \cup {r}
      BY <1>1, <1>4, OneMoreIsCount DEF Increment, Over, Counts
    <2>2. granted = count /\ ~Over(count) /\ ~Over(count')
      BY <1>1, <1>4, <2>1 DEF Over, Counts
    <2>3. Holding' = Holding \cup {r}
      BY <1>1, <1>2, <2>1, <2>2 DEF Holding, Over
    <2> QED
      BY <1>4, <2>1, <2>2, <2>3
  <1>5. CASE count >= Max
    <2>1. /\ count' > Max /\ granted' = granted /\ granted = Max /\ admitted' = admitted
          /\ age' = age /\ holders' = holders \cup {r}
      BY <1>1, <1>5, OneMoreIsCount DEF Increment, Over, Counts
    <2>2. Holding' = Holding
      BY <1>1, <1>2, <2>1 DEF Holding, Over
    <2> QED
      BY <1>5, <2>1, <2>2 DEF Over
  <1> QED
    BY <1>1, <1>3, <1>4, <1>5 DEF Counts

LEMMA IncrementStep == ASSUME IInv, NEW r \in Requests, Increment(r) PROVE IInv'
  <1>1. TypeOK'
    <2> USE Numbers, OneMoreIsCount
    <2>1. /\ count' \in Counts /\ ttl' \in -2 .. Window /\ ttl' # 0 /\ (count' = 0 <=> ttl' = -2)
          /\ granted' \in Nat /\ admitted' \in Nat /\ age' \in 0 .. Window /\ ~orphan'
      BY DEF IInv, TypeOK, Increment, Counts
    <2>2. /\ pc' \in [Requests -> {"away", "counted", "timed"}]
          /\ seen' \in [Requests -> Counts]
          /\ holders' \subseteq {q \in Requests : pc'[q] # "away"}
      BY <2>1 DEF IInv, TypeOK, Increment
    <2> QED
      BY <2>1, <2>2 DEF IInv, TypeOK, Increment
  <1>2. IsFiniteSet(Holding) /\ Cardinality(Holding) \in Nat
    BY Countable DEF IInv
  <1>3. Cardinality({r}) = 1
    BY FS_Singleton
  <1>4. \/ Cardinality(Holding \cup {r}) = Cardinality(Holding) + 1
        \/ Cardinality(Holding \cup {r}) = Cardinality(Holding)
    BY <1>2, FS_AddElement
  <1>5. /\ Cardinality(Holding) + admitted <= granted /\ granted <= Max
        /\ admitted \in Nat /\ granted \in Nat /\ count \in Int
    BY <1>2 DEF IInv, TypeOK, Windows, CountIsGranted, PlacesAreKept, Counts
  <1>6. CountIsGranted'
    BY <1>5, Numbers, IncrementFacts DEF CountIsGranted, Over
  <1>7. PlacesAreKept'
    <2>1. admitted' + Cardinality(Holding') <= granted'
      <3>1. CASE Holding' = {r} /\ granted' = 1 /\ admitted' = 0
        BY <1>3, <3>1
      <3>2. CASE Holding' = Holding \cup {r} /\ granted' = granted + 1 /\ admitted' = admitted
        BY <1>2, <1>4, <1>5, <3>2
      <3>3. CASE Holding' = Holding /\ granted' = granted /\ admitted' = admitted
        BY <1>2, <1>5, <3>3
      <3> QED
        BY <3>1, <3>2, <3>3, IncrementFacts
    <2> QED
      BY <2>1 DEF PlacesAreKept
  <1>8. WindowLasts'
    <2>1. count \in Counts /\ count' > 0
      BY OneMoreIsCount DEF IInv, TypeOK, Increment
    <2>2. CASE count = 0
      BY <2>1, <2>2 DEF Increment, WindowLasts
    <2>3. CASE count # 0
      BY <2>1, <2>3 DEF IInv, Increment, Windows, WindowLasts, Counts
    <2> QED
      BY <2>2, <2>3
  <1>9. ExpiryIsOnItsWay'
    BY DEF IInv, TypeOK, Increment, ExpiryIsOnItsWay, OnItsWay
  <1> QED
    BY <1>1, <1>6, <1>7, <1>8, <1>9 DEF IInv, Windows

LEMMA GetExpireStep == ASSUME IInv, NEW r \in Requests, GetExpire(r) PROVE IInv'
  <1>1. TypeOK'
    BY DEF IInv, TypeOK, GetExpire, history, window
  <1>2. Holding' = Holding
    BY DEF GetExpire, Holding, history, window, Over
  <1>3. Windows'
    BY <1>2 DEF IInv, GetExpire, Windows, WindowLasts, CountIsGranted, PlacesAreKept, Over, history, window
  <1>4. ExpiryIsOnItsWay'
    BY DEF IInv, TypeOK, GetExpire, ExpiryIsOnItsWay, OnItsWay, history
  <1> QED
    BY <1>1, <1>3, <1>4 DEF IInv

\* A request that goes gives its place back to nobody.
LEMMA GoneFacts ==
    ASSUME TypeOK, NEW r \in Requests, Gone(r)
    PROVE  /\ pc' \in [Requests -> {"away", "counted", "timed"}]
           /\ seen' \in [Requests -> Counts]
           /\ time' \in [Requests -> -2 .. Window]
           /\ holders' \subseteq {q \in Requests : pc'[q] # "away"}
           /\ Holding' = Holding \ {r}
           /\ Cardinality(Holding') = Cardinality(Holding) - (IF r \in Holding THEN 1 ELSE 0)
  <1>1. /\ pc' \in [Requests -> {"away", "counted", "timed"}]
        /\ seen' \in [Requests -> Counts]
        /\ time' \in [Requests -> -2 .. Window]
        /\ holders' \subseteq {q \in Requests : pc'[q] # "away"}
    BY Numbers DEF TypeOK, Gone, Counts
  <1>2. Holding' = Holding \ {r}
    BY DEF TypeOK, Gone, Holding, Over
  <1>3. IsFiniteSet(Holding) /\ Cardinality(Holding) \in Nat
    BY Countable
  <1>4. r \in Holding => Cardinality(Holding \ {r}) = Cardinality(Holding) - 1
    BY <1>3, FS_RemoveElement
  <1>5. r \notin Holding => Holding \ {r} = Holding
    OBVIOUS
  <1>6. Cardinality(Holding') = Cardinality(Holding) - (IF r \in Holding THEN 1 ELSE 0)
    BY <1>2, <1>3, <1>4, <1>5
  <1> QED
    BY <1>1, <1>2, <1>6

LEMMA AnswerFacts ==
    ASSUME IInv, NEW r \in Requests, Answer(r)
    PROVE  /\ PlacesAreKept' /\ admitted' \in Nat
           /\ \/ admitted' = admitted
              \/ admitted' = admitted + 1 /\ admitted < granted
  <1>1. admitted' = admitted + (IF r \in Holding THEN 1 ELSE 0) /\ granted' = granted
    BY DEF Answer, Holding, IInv, TypeOK
  <1>2. Cardinality(Holding') = Cardinality(Holding) - (IF r \in Holding THEN 1 ELSE 0)
    BY GoneFacts DEF Answer, IInv
  <1>3. Cardinality(Holding) \in Nat /\ (r \in Holding => Cardinality(Holding) # 0)
    BY Countable, FS_EmptySet DEF IInv
  <1>4. admitted + Cardinality(Holding) <= granted /\ admitted \in Nat /\ granted \in Nat
    BY DEF IInv, TypeOK, Windows, PlacesAreKept
  <1>5. admitted' + Cardinality(Holding') <= granted'
    BY <1>1, <1>2, <1>3, <1>4
  <1>6. PlacesAreKept'
    BY <1>5 DEF PlacesAreKept
  <1> QED
    BY <1>1, <1>3, <1>4, <1>6

LEMMA ExpireStep == ASSUME IInv, NEW r \in Requests, Expire(r) PROVE IInv'
  <1>1. TypeOK'
    <2>1. ttl' \in -2 .. Window /\ ttl' # 0 /\ (count' = 0 <=> ttl' = -2) /\ ~orphan'
      BY Numbers DEF IInv, TypeOK, Expire
    <2> QED
      BY <2>1, GoneFacts, AnswerFacts DEF IInv, TypeOK, Expire, Answer
  <1>2. WindowLasts' /\ CountIsGranted'
    BY Numbers DEF IInv, TypeOK, Expire, Answer, Windows, WindowLasts, CountIsGranted, Over
  <1>3. ExpiryIsOnItsWay'
    BY Numbers DEF IInv, TypeOK, Expire, ExpiryIsOnItsWay
  <1> QED
    BY <1>1, <1>2, <1>3, AnswerFacts DEF IInv, Windows, Expire

LEMMA LeaveExpiryStep == ASSUME IInv, NEW r \in Requests, LeaveExpiry(r) PROVE IInv'
  <1>1. TypeOK'
    BY GoneFacts, AnswerFacts DEF IInv, TypeOK, LeaveExpiry, Answer
  <1>2. WindowLasts' /\ CountIsGranted'
    BY DEF IInv, LeaveExpiry, Answer, Windows, WindowLasts, CountIsGranted, Over
  <1>3. ExpiryIsOnItsWay'
    BY DEF IInv, TypeOK, LeaveExpiry, Answer, Gone, SetsExpiry, ExpiryIsOnItsWay, OnItsWay
  <1> QED
    BY <1>1, <1>2, <1>3, AnswerFacts DEF IInv, Windows, LeaveExpiry

LEMMA TickStep == ASSUME IInv, Tick PROVE IInv'
  <1>1. TypeOK'
    BY Numbers DEF IInv, TypeOK, Tick, Counts, local
  <1>2. Holding' = Holding
    BY DEF Tick, Holding, local, Over
  <1>3. WindowLasts' /\ CountIsGranted'
    BY Numbers DEF IInv, TypeOK, Tick, Windows, WindowLasts, CountIsGranted, Over, Counts
  <1>4. PlacesAreKept'
    BY <1>2 DEF IInv, Tick, Windows, PlacesAreKept
  <1>5. ExpiryIsOnItsWay'
    BY Numbers DEF IInv, TypeOK, Tick, ExpiryIsOnItsWay, OnItsWay, local
  <1> QED
    BY <1>1, <1>3, <1>4, <1>5 DEF IInv, Windows

\* A fault only takes places away.
LEMMA FaultPlaces ==
    ASSUME IInv, UNCHANGED <<granted, admitted>>,
           Cardinality(Holding') \in Nat, Cardinality(Holding') <= Cardinality(Holding)
    PROVE  PlacesAreKept'
  BY Countable DEF IInv, TypeOK, Windows, PlacesAreKept

LEMMA CallFailsStep == ASSUME IInv, NEW r \in Requests, CallFails(r) PROVE IInv'
  <1>1. TypeOK'
    <2>1. ttl' \in -2 .. Window /\ ttl' # 0 /\ (count' = 0 <=> ttl' = -2)
      BY Numbers DEF IInv, TypeOK, CallFails
    <2>2. faults' \in 0 .. FaultBound
      BY Numbers DEF IInv, TypeOK, CallFails, Fault
    <2>3. orphan' \in BOOLEAN /\ (orphan' => ttl' = -1)
      BY Zenon DEF CallFails
    <2> QED
      BY <2>1, <2>2, <2>3, GoneFacts DEF IInv, TypeOK, CallFails
  <1>2. WindowLasts' /\ CountIsGranted'
    BY Numbers DEF IInv, TypeOK, CallFails, Windows, WindowLasts, CountIsGranted, Over
  <1>3. PlacesAreKept'
    <2>1. /\ Holding' = Holding \ {r}
          /\ Cardinality(Holding') = Cardinality(Holding) - (IF r \in Holding THEN 1 ELSE 0)
      BY GoneFacts DEF IInv, CallFails
    <2>2. Cardinality(Holding) \in Nat /\ (r \in Holding => Cardinality(Holding) # 0)
      BY Countable, FS_EmptySet DEF IInv
    <2>3. Cardinality(Holding') \in Nat /\ Cardinality(Holding') <= Cardinality(Holding)
      BY <2>1, <2>2
    <2> QED
      BY <2>3, FaultPlaces DEF CallFails
  <1>4. ExpiryIsOnItsWay'
    <2> SUFFICES ASSUME ttl' = -1, ~orphan' PROVE \E q \in Requests : OnItsWay(q)'
      BY DEF ExpiryIsOnItsWay
    <2>1. PICK q \in Requests \ {r} : OnItsWay(q)
      BY DEF CallFails
    <2>2. pc'[q] = pc[q] /\ seen'[q] = seen[q] /\ time'[q] = time[q]
      BY <2>1 DEF IInv, TypeOK, CallFails, Gone
    <2> QED
      BY <2>1, <2>2 DEF OnItsWay
  <1> QED
    BY <1>1, <1>2, <1>3, <1>4 DEF IInv, Windows

LEMMA CrashStep == ASSUME IInv, Crash PROVE IInv'
  <1>1. TypeOK'
    BY Numbers DEF IInv, TypeOK, Crash, Fault, Counts
  <1>2. WindowLasts' /\ CountIsGranted'
    BY DEF IInv, Crash, Windows, WindowLasts, CountIsGranted, Over
  <1>3. PlacesAreKept'
    <2>1. Holding' = {}
      BY DEF Crash, Holding
    <2> QED
      BY <2>1, FS_EmptySet, Countable, FaultPlaces DEF Crash, IInv
  <1>4. ExpiryIsOnItsWay'
    BY DEF Crash, ExpiryIsOnItsWay
  <1> QED
    BY <1>1, <1>2, <1>3, <1>4 DEF IInv, Windows

LEMMA StutterStep == ASSUME IInv, UNCHANGED vars PROVE IInv'
  BY DEF IInv, TypeOK, Windows, WindowLasts, CountIsGranted, PlacesAreKept, Holding, ExpiryIsOnItsWay,
     OnItsWay, Over, vars, local, history, window

LEMMA IInvHolds == Spec => []IInv
  <1>1. IInv /\ [Next]_vars => IInv'
    BY IncrementStep, GetExpireStep, ExpireStep, LeaveExpiryStep, TickStep, CallFailsStep,
       CrashStep, StutterStep DEF Next
  <1> QED
    BY InitIInv, <1>1, PTL DEF Spec

-----------------------------------------------------------------------------
(* The invariants *)

\* The variables keep their types; a key is there exactly while it counts, and
\* only a key that has no expiry can be an orphan of a fault.
THEOREM TypeIsKept == Spec => []TypeOK
  <1>1. IInv => TypeOK
    BY DEF IInv
  <1> QED
    BY IInvHolds, <1>1, PTL

\* At most Max requests of a window are let through, however many run INCR, TTL
\* and EXPIRE at once, however late they are answered, and however often a call
\* fails or the server stops.
THEOREM LimitHolds == Spec => []OnlyMaxInWindow
  <1>1. IInv => OnlyMaxInWindow
    BY Numbers, Countable DEF IInv, TypeOK, Windows, CountIsGranted, PlacesAreKept, OnlyMaxInWindow
  <1> QED
    BY IInvHolds, <1>1, PTL

\* Nobody is locked out by a race: a key without an expiry has a request on its
\* way that sets one, unless the last such request was lost to a failing call or a
\* stop of the server; and then the next request is one.
THEOREM ExpiryIsSet == Spec => []ExpiryIsOnItsWay
  <1>1. IInv => ExpiryIsOnItsWay
    BY DEF IInv
  <1> QED
    BY IInvHolds, <1>1, PTL

-----------------------------------------------------------------------------
(* The refinement *)

LEMMA LimiterInit == Init => Limiter!Init
  BY Numbers DEF Init, Limiter!Init, Over

\* INCR begins a window, takes a place or refuses.
LEMMA LimiterIncrement ==
    ASSUME IInv, NEW r \in Requests, Increment(r)
    PROVE  Limiter!Begin \/ Limiter!Grant \/ Limiter!Refuse
  <1> USE Numbers
  <1>0. count \in Counts /\ granted \in Nat
    BY DEF IInv, TypeOK
  <1>1. CASE count = 0
    <2>1. count' = 1 /\ granted' = 1 /\ admitted' = 0 /\ age' = 0 /\ ~Over(count) /\ ~Over(count')
      BY <1>1, IncrementFacts
    <2>2. ~(count > 0) /\ (count' > 0) = TRUE
      BY <1>1, <2>1
    <2>3. Over(count') = Over(count)
      BY <1>1, <2>1 DEF Over
    <2> QED
      BY <2>1, <2>2, <2>3, Zenon DEF Limiter!Begin
  <1>2. CASE count > 0 /\ count < Max
    <2>1. /\ count' = count + 1 /\ granted' = count' /\ granted = count
          /\ admitted' = admitted /\ age' = age /\ ~Over(count) /\ ~Over(count')
      BY <1>0, <1>2, IncrementFacts DEF Counts
    <2>2. count' > 0 /\ granted' = granted + 1 /\ granted < Max
      BY <1>0, <1>2, <2>1 DEF Counts
    <2>3. (count' > 0) = (count > 0)
      BY <1>2, <2>2
    <2>4. Over(count') = Over(count)
      BY <1>2, <2>1 DEF Over
    <2> QED
      BY <1>2, <2>1, <2>2, <2>3, <2>4, Zenon DEF Limiter!Grant
  <1>3. CASE count >= Max
    <2>1. /\ count' > Max /\ granted' = granted /\ granted = Max
          /\ admitted' = admitted /\ age' = age /\ Over(count')
      BY <1>0, <1>3, IncrementFacts DEF Counts
    <2>2. count > 0 /\ count' > 0
      BY <1>0, <1>3, <2>1, OneMoreIsCount DEF Increment, Counts
    <2> QED
      BY <2>1, <2>2, Zenon DEF Limiter!Refuse
  <1> QED
    BY <1>0, <1>1, <1>2, <1>3 DEF Counts

\* The answer lets a request through that has a place, or is not seen.
LEMMA LimiterAnswer ==
    ASSUME IInv, NEW r \in Requests, Expire(r) \/ LeaveExpiry(r)
    PROVE  Limiter!Admit \/ UNCHANGED Limiter!windowVars
  <1>1. Answer(r) /\ UNCHANGED <<count, granted, age>>
    BY DEF Expire, LeaveExpiry, Answer
  <1>2. admitted' = admitted \/ (admitted' = admitted + 1 /\ admitted < granted)
    BY <1>1, AnswerFacts
  <1> QED
    BY <1>1, <1>2 DEF Limiter!Admit, Limiter!windowVars, Over

\* A key goes only when its window is over.
LEMMA LimiterTick == ASSUME IInv, Tick PROVE Limiter!Tick
  <1> USE Numbers
  <1>1. CASE ttl = 1
    <2>1. count > 0 /\ count' = 0 /\ age' = Window
      BY <1>1 DEF IInv, TypeOK, Windows, WindowLasts, Tick, Counts
    <2> QED
      BY <1>1, <2>1 DEF Tick, Limiter!Tick, Over
  <1>2. CASE ttl # 1
    BY <1>2 DEF Tick, Limiter!Tick, Over
  <1> QED
    BY <1>1, <1>2

\* TTL, a call that fails, and a stop of the server are not seen.
LEMMA LimiterStutter ==
    ASSUME IInv, \/ \E r \in Requests : GetExpire(r) \/ CallFails(r)
                 \/ Crash
                 \/ UNCHANGED vars
    PROVE  UNCHANGED Limiter!windowVars
  BY DEF GetExpire, CallFails, Crash, Limiter!windowVars, Over, vars, history, window

\* The limiter of Redis is a fixed window: from its first request on a window lasts
\* Window ticks and has Max places, none but a request with a place is let through,
\* and none is refused before Max requests have come.  A failing call or a stop
\* costs its request the place, and nothing else.
THEOREM LimiterIsFixedWindow == Spec => ImplementsFixedWindow
  <1>1. IInv /\ [Next]_vars => [Limiter!Next]_(Limiter!windowVars)
    BY LimiterIncrement, LimiterAnswer, LimiterTick, LimiterStutter DEF Next, Limiter!Next
  <1> QED
    BY LimiterInit, IInvHolds, <1>1, PTL DEF Spec, ImplementsFixedWindow, Limiter!Spec
=============================================================================
