------------------------ MODULE ChatDelivery_proofs ------------------------
(***************************************************************************)
(* Proofs about ChatDelivery: the type invariant, the safety invariants    *)
(* the runs check, and that a settled frame is not resent.                 *)
(***************************************************************************)
EXTENDS ChatDelivery, TLAPS

-----------------------------------------------------------------------------
(* The inductive invariant behind these properties *)

\* A frame that its push has not reached yet has left no trace
Untouched(f) ==
    /\ f \notin writing \cup attr \cup frames \cup acks \cup acking
    /\ timer[f] = "none"
    /\ acked[f] = "no"

FreshFrames ==
    /\ \A k \in Chats : k \notin pushed => todo[k] = {}
    /\ \A f \in Frames : f[2] \notin pushed \/ f[1] \in todo[f[2]] => Untouched(f)

\* The attribute of a frame is set once, and no timer runs before
WritingIsEarly ==
    \A f \in writing : timer[f] = "none" /\ f \notin attr /\ acked[f] # "late"

RetriesLeft ==
    \A f \in Frames :
        /\ timer[f] = "none" => tries[f] = 0
        /\ timer[f] \in {"writing", "armed", "resending"} => tries[f] < Retries

\* With a timer, a cleared attribute and a late acknowledgement are the same
ClearedIsAcked ==
    \A f \in Frames :
        /\ acked[f] = "late" => f \notin attr
        /\ timer[f] # "none" /\ f \notin attr => acked[f] = "late"

AnsweredIsReceived == acks \subseteq got /\ acking \subseteq got

IInv ==
    /\ TypeOK
    /\ FreshFrames
    /\ WritingIsEarly
    /\ RetriesLeft
    /\ ClearedIsAcked
    /\ AnsweredIsReceived
    /\ ReadWasReceived
    /\ AckedIsRead
    /\ NeverGivesUpEarly
    /\ UnackedIsRetried

-----------------------------------------------------------------------------
LEMMA InitIInv == Init => IInv
  BY RetriesArePositive DEF Init, IInv, TypeOK, FreshFrames, Untouched, WritingIsEarly,
     RetriesLeft, ClearedIsAcked, AnsweredIsReceived, ReadWasReceived, AckedIsRead,
     NeverGivesUpEarly, UnackedIsRetried, Frames

LEMMA ConnectStep == ASSUME IInv, NEW c \in Channels, Connect(c) PROVE IInv'
<1>1. TypeOK'
  BY RetriesArePositive DEF IInv, TypeOK, RetriesLeft, Frames, Connect, Iterating, pushVars, retryVars, wireVars
<1>2. AckedIsRead'
  BY <1>1, RetriesArePositive DEF IInv, TypeOK, AckedIsRead, Frames, Connect, pushVars, retryVars, wireVars
<1>3. FreshFrames' /\ WritingIsEarly' /\ RetriesLeft' /\ ClearedIsAcked' /\ AnsweredIsReceived' /\ ReadWasReceived' /\ NeverGivesUpEarly' /\ UnackedIsRetried'
  BY DEF IInv, FreshFrames, WritingIsEarly, RetriesLeft, ClearedIsAcked, AnsweredIsReceived, ReadWasReceived, NeverGivesUpEarly, UnackedIsRetried, Untouched, Connect, pushVars, retryVars, wireVars
<1> QED
  BY <1>1, <1>2, <1>3 DEF IInv

LEMMA IdleStep == ASSUME IInv, NEW c \in Channels, Idle(c) PROVE IInv'
<1>1. TypeOK'
  BY RetriesArePositive DEF IInv, TypeOK, RetriesLeft, Frames, Idle, Busy, Iterating, pushVars, retryVars, wireVars
<1>2. AckedIsRead'
  BY <1>1, RetriesArePositive DEF IInv, TypeOK, AckedIsRead, Frames, Idle, Busy, pushVars, retryVars, wireVars
<1>3. FreshFrames' /\ WritingIsEarly' /\ RetriesLeft' /\ ClearedIsAcked' /\ AnsweredIsReceived' /\ ReadWasReceived' /\ NeverGivesUpEarly' /\ UnackedIsRetried'
  BY DEF IInv, FreshFrames, WritingIsEarly, RetriesLeft, ClearedIsAcked, AnsweredIsReceived, ReadWasReceived, NeverGivesUpEarly, UnackedIsRetried, Untouched, Idle, pushVars, retryVars, wireVars
<1> QED
  BY <1>1, <1>2, <1>3 DEF IInv

LEMMA CloseStep == ASSUME IInv, NEW c \in Channels, Close(c) PROVE IInv'
<1>1. TypeOK'
  BY RetriesArePositive DEF IInv, TypeOK, RetriesLeft, Frames, Close, Up, Busy, Closing, Of, pushVars, retryVars, wireVars
<1>2. FreshFrames'
  BY <1>1, RetriesArePositive DEF IInv, TypeOK, FreshFrames, Untouched, Frames, Close, Up, Busy, Closing, Of, pushVars, retryVars, wireVars
<1>3. AnsweredIsReceived'
  BY <1>1, RetriesArePositive DEF IInv, TypeOK, AnsweredIsReceived, Frames, Close, Up, Busy, Closing, Of, pushVars, retryVars, wireVars
<1>4. AckedIsRead'
  BY <1>1, RetriesArePositive DEF IInv, TypeOK, AckedIsRead, Frames, Close, Up, Busy, Closing, Of, pushVars, retryVars, wireVars
<1>5. WritingIsEarly' /\ RetriesLeft' /\ ClearedIsAcked' /\ ReadWasReceived' /\ NeverGivesUpEarly' /\ UnackedIsRetried'
  BY DEF IInv, WritingIsEarly, RetriesLeft, ClearedIsAcked, ReadWasReceived, NeverGivesUpEarly, UnackedIsRetried, Close, pushVars, retryVars, wireVars
<1> QED
  BY <1>1, <1>2, <1>3, <1>4, <1>5 DEF IInv

LEMMA RemoveStep == ASSUME IInv, NEW c \in Channels, Remove(c) PROVE IInv'
<1>1. TypeOK'
  BY RetriesArePositive DEF IInv, TypeOK, RetriesLeft, Frames, Remove, Iterating, pushVars, retryVars, wireVars
<1>2. FreshFrames' /\ WritingIsEarly' /\ RetriesLeft' /\ ClearedIsAcked' /\ AnsweredIsReceived' /\ ReadWasReceived' /\ AckedIsRead' /\ NeverGivesUpEarly' /\ UnackedIsRetried'
  BY DEF IInv, FreshFrames, WritingIsEarly, RetriesLeft, ClearedIsAcked, AnsweredIsReceived, ReadWasReceived, AckedIsRead, NeverGivesUpEarly, UnackedIsRetried, Untouched, Remove, pushVars, retryVars, wireVars
<1> QED
  BY <1>1, <1>2 DEF IInv

LEMMA PushStep == ASSUME IInv, NEW k \in Chats, Push(k) PROVE IInv'
<1>1. TypeOK'
  BY RetriesArePositive DEF IInv, TypeOK, RetriesLeft, Frames, Push, pushVars, retryVars, wireVars
<1>2. FreshFrames'
  BY <1>1, RetriesArePositive DEF IInv, TypeOK, FreshFrames, Untouched, Frames, Push, pushVars, retryVars, wireVars
<1>3. WritingIsEarly' /\ RetriesLeft' /\ ClearedIsAcked' /\ AnsweredIsReceived' /\ ReadWasReceived' /\ AckedIsRead' /\ NeverGivesUpEarly' /\ UnackedIsRetried'
  BY DEF IInv, WritingIsEarly, RetriesLeft, ClearedIsAcked, AnsweredIsReceived, ReadWasReceived, AckedIsRead, NeverGivesUpEarly, UnackedIsRetried, Push, pushVars, retryVars, wireVars
<1> QED
  BY <1>1, <1>2, <1>3 DEF IInv

LEMMA AbortStep == ASSUME IInv, NEW k \in Chats, Abort(k) PROVE IInv'
<1>1. TypeOK'
  BY RetriesArePositive DEF IInv, TypeOK, RetriesLeft, Frames, Abort, Between, pushVars, retryVars, wireVars
<1>2. FreshFrames'
  BY <1>1, RetriesArePositive DEF IInv, TypeOK, FreshFrames, Untouched, Frames, Abort, Between, pushVars, retryVars, wireVars
<1>3. WritingIsEarly' /\ RetriesLeft' /\ ClearedIsAcked' /\ AnsweredIsReceived' /\ ReadWasReceived' /\ AckedIsRead' /\ NeverGivesUpEarly' /\ UnackedIsRetried'
  BY DEF IInv, WritingIsEarly, RetriesLeft, ClearedIsAcked, AnsweredIsReceived, ReadWasReceived, AckedIsRead, NeverGivesUpEarly, UnackedIsRetried, Abort, pushVars, retryVars, wireVars
<1> QED
  BY <1>1, <1>2, <1>3 DEF IInv

LEMMA SkipStep == ASSUME IInv, NEW c \in Channels, NEW k \in Chats, Skip(c, k) PROVE IInv'
<1>1. TypeOK'
  BY RetriesArePositive DEF IInv, TypeOK, RetriesLeft, Frames, Skip, pushVars, retryVars, wireVars
<1>2. FreshFrames'
  BY <1>1, RetriesArePositive DEF IInv, TypeOK, FreshFrames, Untouched, Frames, Skip, pushVars, retryVars, wireVars
<1>3. WritingIsEarly' /\ RetriesLeft' /\ ClearedIsAcked' /\ AnsweredIsReceived' /\ ReadWasReceived' /\ AckedIsRead' /\ NeverGivesUpEarly' /\ UnackedIsRetried'
  BY DEF IInv, WritingIsEarly, RetriesLeft, ClearedIsAcked, AnsweredIsReceived, ReadWasReceived, AckedIsRead, NeverGivesUpEarly, UnackedIsRetried, Skip, pushVars, retryVars, wireVars
<1> QED
  BY <1>1, <1>2, <1>3 DEF IInv

LEMMA WriteStep == ASSUME IInv, NEW c \in Channels, NEW k \in Chats, Write(c, k) PROVE IInv'
<1>1. TypeOK'
  BY RetriesArePositive DEF IInv, TypeOK, RetriesLeft, Frames, Write, pushVars, retryVars, wireVars
<1>2. FreshFrames'
  BY <1>1, RetriesArePositive DEF IInv, TypeOK, FreshFrames, Untouched, Frames, Write, pushVars, retryVars, wireVars
<1>3. WritingIsEarly'
  BY <1>1, RetriesArePositive DEF IInv, TypeOK, FreshFrames, WritingIsEarly, Untouched, Frames, Write, pushVars, retryVars, wireVars
<1>4. RetriesLeft' /\ ClearedIsAcked' /\ AnsweredIsReceived' /\ ReadWasReceived' /\ AckedIsRead' /\ NeverGivesUpEarly' /\ UnackedIsRetried'
  BY DEF IInv, RetriesLeft, ClearedIsAcked, AnsweredIsReceived, ReadWasReceived, AckedIsRead, NeverGivesUpEarly, UnackedIsRetried, Write, pushVars, retryVars, wireVars
<1> QED
  BY <1>1, <1>2, <1>3, <1>4 DEF IInv

LEMMA SetAttrStep == ASSUME IInv, NEW c \in Channels, NEW k \in Chats, SetAttr(c, k) PROVE IInv'
<1>1. TypeOK'
  BY RetriesArePositive DEF IInv, TypeOK, RetriesLeft, Frames, SetAttr, pushVars, retryVars, wireVars
<1>2. FreshFrames'
  BY <1>1, RetriesArePositive DEF IInv, TypeOK, FreshFrames, Untouched, Frames, SetAttr, pushVars, retryVars, wireVars
<1>3. WritingIsEarly'
  BY <1>1, RetriesArePositive DEF IInv, TypeOK, FreshFrames, WritingIsEarly, Untouched, Frames, SetAttr, pushVars, retryVars, wireVars
<1>4. RetriesLeft'
  BY <1>1, RetriesArePositive DEF IInv, TypeOK, FreshFrames, WritingIsEarly, RetriesLeft, Untouched, Frames, SetAttr, pushVars, retryVars, wireVars
<1>5. ClearedIsAcked'
  BY <1>1, RetriesArePositive DEF IInv, TypeOK, WritingIsEarly, ClearedIsAcked, Frames, SetAttr, pushVars, retryVars, wireVars
<1>6. NeverGivesUpEarly'
  BY <1>1, RetriesArePositive DEF IInv, TypeOK, WritingIsEarly, ClearedIsAcked, NeverGivesUpEarly, Frames, SetAttr, pushVars, retryVars, wireVars
<1>7. UnackedIsRetried'
  BY <1>1, RetriesArePositive DEF IInv, TypeOK, RetriesLeft, UnackedIsRetried, Frames, SetAttr, pushVars, retryVars, wireVars
<1>8. AnsweredIsReceived' /\ ReadWasReceived' /\ AckedIsRead'
  BY DEF IInv, AnsweredIsReceived, ReadWasReceived, AckedIsRead, SetAttr, pushVars, retryVars, wireVars
<1> QED
  BY <1>1, <1>2, <1>3, <1>4, <1>5, <1>6, <1>7, <1>8 DEF IInv

LEMMA ArmStep == ASSUME IInv, NEW f \in Frames, Arm(f) PROVE IInv'
<1>1. TypeOK'
  BY RetriesArePositive DEF IInv, TypeOK, RetriesLeft, Frames, Arm, pushVars, retryVars, wireVars
<1>2. FreshFrames'
  BY <1>1, RetriesArePositive DEF IInv, TypeOK, FreshFrames, Untouched, Frames, Arm, pushVars, retryVars, wireVars
<1>3. WritingIsEarly'
  BY <1>1, RetriesArePositive DEF IInv, TypeOK, FreshFrames, WritingIsEarly, Untouched, Frames, Arm, pushVars, retryVars, wireVars
<1>4. RetriesLeft'
  BY <1>1, RetriesArePositive DEF IInv, TypeOK, FreshFrames, WritingIsEarly, RetriesLeft, Untouched, Frames, Arm, pushVars, retryVars, wireVars
<1>5. ClearedIsAcked'
  BY <1>1, RetriesArePositive DEF IInv, TypeOK, WritingIsEarly, ClearedIsAcked, Frames, Arm, pushVars, retryVars, wireVars
<1>6. NeverGivesUpEarly'
  BY <1>1, RetriesArePositive DEF IInv, TypeOK, WritingIsEarly, ClearedIsAcked, NeverGivesUpEarly, Frames, Arm, pushVars, retryVars, wireVars
<1>7. UnackedIsRetried'
  BY <1>1, RetriesArePositive DEF IInv, TypeOK, RetriesLeft, UnackedIsRetried, Frames, Arm, pushVars, retryVars, wireVars
<1>8. AnsweredIsReceived' /\ ReadWasReceived' /\ AckedIsRead'
  BY DEF IInv, AnsweredIsReceived, ReadWasReceived, AckedIsRead, Arm, pushVars, retryVars, wireVars
<1> QED
  BY <1>1, <1>2, <1>3, <1>4, <1>5, <1>6, <1>7, <1>8 DEF IInv

LEMMA CheckAckStep == ASSUME IInv, NEW f \in Frames, CheckAck(f) PROVE IInv'
<1>1. TypeOK'
  BY RetriesArePositive DEF IInv, TypeOK, RetriesLeft, Frames, CheckAck, pushVars, retryVars, wireVars
<1>2. FreshFrames'
  BY <1>1, RetriesArePositive DEF IInv, TypeOK, FreshFrames, Untouched, Frames, CheckAck, pushVars, retryVars, wireVars
<1>3. WritingIsEarly'
  BY <1>1, RetriesArePositive DEF IInv, TypeOK, FreshFrames, WritingIsEarly, Untouched, Frames, CheckAck, pushVars, retryVars, wireVars
<1>4. RetriesLeft'
  BY <1>1, RetriesArePositive DEF IInv, TypeOK, FreshFrames, WritingIsEarly, RetriesLeft, Untouched, Frames, CheckAck, pushVars, retryVars, wireVars
<1>5. ClearedIsAcked'
  BY <1>1, RetriesArePositive DEF IInv, TypeOK, WritingIsEarly, ClearedIsAcked, Frames, CheckAck, pushVars, retryVars, wireVars
<1>6. NeverGivesUpEarly'
  BY <1>1, RetriesArePositive DEF IInv, TypeOK, WritingIsEarly, ClearedIsAcked, NeverGivesUpEarly, Frames, CheckAck, pushVars, retryVars, wireVars
<1>7. UnackedIsRetried'
  BY <1>1, RetriesArePositive DEF IInv, TypeOK, RetriesLeft, UnackedIsRetried, Frames, CheckAck, pushVars, retryVars, wireVars
<1>8. AnsweredIsReceived' /\ ReadWasReceived' /\ AckedIsRead'
  BY DEF IInv, AnsweredIsReceived, ReadWasReceived, AckedIsRead, CheckAck, pushVars, retryVars, wireVars
<1> QED
  BY <1>1, <1>2, <1>3, <1>4, <1>5, <1>6, <1>7, <1>8 DEF IInv

LEMMA ResendStep == ASSUME IInv, NEW f \in Frames, Resend(f) PROVE IInv'
<1>1. TypeOK'
  BY RetriesArePositive DEF IInv, TypeOK, RetriesLeft, Frames, Resend, pushVars, retryVars, wireVars
<1>2. FreshFrames'
  BY <1>1, RetriesArePositive DEF IInv, TypeOK, FreshFrames, Untouched, Frames, Resend, pushVars, retryVars, wireVars
<1>3. WritingIsEarly'
  BY <1>1, RetriesArePositive DEF IInv, TypeOK, FreshFrames, WritingIsEarly, Untouched, Frames, Resend, pushVars, retryVars, wireVars
<1>4. RetriesLeft'
  BY <1>1, RetriesArePositive DEF IInv, TypeOK, FreshFrames, WritingIsEarly, RetriesLeft, Untouched, Frames, Resend, pushVars, retryVars, wireVars
<1>5. ClearedIsAcked'
  BY <1>1, RetriesArePositive DEF IInv, TypeOK, WritingIsEarly, ClearedIsAcked, Frames, Resend, pushVars, retryVars, wireVars
<1>6. NeverGivesUpEarly'
  BY <1>1, RetriesArePositive DEF IInv, TypeOK, WritingIsEarly, ClearedIsAcked, NeverGivesUpEarly, Frames, Resend, pushVars, retryVars, wireVars
<1>7. UnackedIsRetried'
  BY <1>1, RetriesArePositive DEF IInv, TypeOK, RetriesLeft, UnackedIsRetried, Frames, Resend, pushVars, retryVars, wireVars
<1>8. AnsweredIsReceived' /\ ReadWasReceived' /\ AckedIsRead'
  BY DEF IInv, AnsweredIsReceived, ReadWasReceived, AckedIsRead, Resend, pushVars, retryVars, wireVars
<1> QED
  BY <1>1, <1>2, <1>3, <1>4, <1>5, <1>6, <1>7, <1>8 DEF IInv

LEMMA ReceiveStep == ASSUME IInv, NEW f \in Frames, Receive(f) PROVE IInv'
<1>1. TypeOK'
  BY RetriesArePositive DEF IInv, TypeOK, RetriesLeft, Frames, Receive, pushVars, retryVars, wireVars
<1>2. FreshFrames'
  BY <1>1, RetriesArePositive DEF IInv, TypeOK, FreshFrames, Untouched, Frames, Receive, pushVars, retryVars, wireVars
<1>3. AnsweredIsReceived'
  BY <1>1, RetriesArePositive DEF IInv, TypeOK, AnsweredIsReceived, Frames, Receive, pushVars, retryVars, wireVars
<1>4. ReadWasReceived'
  BY <1>1, RetriesArePositive DEF IInv, TypeOK, AnsweredIsReceived, ReadWasReceived, Frames, Receive, pushVars, retryVars, wireVars
<1>5. WritingIsEarly' /\ RetriesLeft' /\ ClearedIsAcked' /\ AckedIsRead' /\ NeverGivesUpEarly' /\ UnackedIsRetried'
  BY DEF IInv, WritingIsEarly, RetriesLeft, ClearedIsAcked, AckedIsRead, NeverGivesUpEarly, UnackedIsRetried, Receive, pushVars, retryVars, wireVars
<1> QED
  BY <1>1, <1>2, <1>3, <1>4, <1>5 DEF IInv

LEMMA ClearAttrStep == ASSUME IInv, NEW f \in Frames, ClearAttr(f) PROVE IInv'
<1>1. TypeOK'
  BY RetriesArePositive DEF IInv, TypeOK, RetriesLeft, Frames, ClearAttr, pushVars, retryVars, wireVars
<1>2. FreshFrames'
  BY <1>1, RetriesArePositive DEF IInv, TypeOK, FreshFrames, Untouched, Frames, ClearAttr, pushVars, retryVars, wireVars
<1>3. WritingIsEarly'
  BY <1>1, RetriesArePositive DEF IInv, TypeOK, FreshFrames, WritingIsEarly, Untouched, Frames, ClearAttr, pushVars, retryVars, wireVars
<1>4. ClearedIsAcked'
  BY <1>1, RetriesArePositive DEF IInv, TypeOK, WritingIsEarly, ClearedIsAcked, Frames, ClearAttr, pushVars, retryVars, wireVars
<1>5. AnsweredIsReceived'
  BY <1>1, RetriesArePositive DEF IInv, TypeOK, AnsweredIsReceived, Frames, ClearAttr, pushVars, retryVars, wireVars
<1>6. AckedIsRead'
  BY <1>1, RetriesArePositive DEF IInv, TypeOK, AckedIsRead, Frames, ClearAttr, pushVars, retryVars, wireVars
<1>7. NeverGivesUpEarly'
  BY <1>1, RetriesArePositive DEF IInv, TypeOK, WritingIsEarly, ClearedIsAcked, NeverGivesUpEarly, Frames, ClearAttr, pushVars, retryVars, wireVars
<1>8. UnackedIsRetried'
  BY <1>1, RetriesArePositive DEF IInv, TypeOK, RetriesLeft, UnackedIsRetried, Frames, ClearAttr, pushVars, retryVars, wireVars
<1>9. RetriesLeft' /\ ReadWasReceived'
  BY DEF IInv, RetriesLeft, ReadWasReceived, ClearAttr, pushVars, retryVars, wireVars
<1> QED
  BY <1>1, <1>2, <1>3, <1>4, <1>5, <1>6, <1>7, <1>8, <1>9 DEF IInv

LEMMA SetReadStep == ASSUME IInv, NEW f \in Frames, SetRead(f) PROVE IInv'
<1>1. TypeOK'
  BY RetriesArePositive DEF IInv, TypeOK, RetriesLeft, Frames, SetRead, pushVars, retryVars, wireVars
<1>2. FreshFrames'
  BY <1>1, RetriesArePositive DEF IInv, TypeOK, FreshFrames, Untouched, Frames, SetRead, pushVars, retryVars, wireVars
<1>3. AnsweredIsReceived'
  BY <1>1, RetriesArePositive DEF IInv, TypeOK, AnsweredIsReceived, Frames, SetRead, pushVars, retryVars, wireVars
<1>4. ReadWasReceived'
  <2>1. f[1] \in Channels /\ <<f[1], f[2]>> \in got
    BY DEF IInv, TypeOK, AnsweredIsReceived, Frames, SetRead
  <2> QED
    BY <2>1 DEF IInv, ReadWasReceived, SetRead, pushVars, retryVars, wireVars
<1>5. AckedIsRead'
  BY <1>1, RetriesArePositive DEF IInv, TypeOK, AckedIsRead, Frames, SetRead, pushVars, retryVars, wireVars
<1>6. WritingIsEarly' /\ RetriesLeft' /\ ClearedIsAcked' /\ NeverGivesUpEarly' /\ UnackedIsRetried'
  BY DEF IInv, WritingIsEarly, RetriesLeft, ClearedIsAcked, NeverGivesUpEarly, UnackedIsRetried, SetRead, pushVars, retryVars, wireVars
<1> QED
  BY <1>1, <1>2, <1>3, <1>4, <1>5, <1>6 DEF IInv

LEMMA SetReadFailsStep == ASSUME IInv, NEW f \in Frames, SetReadFails(f) PROVE IInv'
<1>1. TypeOK'
  BY RetriesArePositive DEF IInv, TypeOK, RetriesLeft, Frames, SetReadFails, Closing, Of, pushVars, retryVars, wireVars
<1>2. FreshFrames'
  BY <1>1, RetriesArePositive DEF IInv, TypeOK, FreshFrames, Untouched, Frames, SetReadFails, Closing, Of, pushVars, retryVars, wireVars
<1>3. AnsweredIsReceived'
  BY <1>1, RetriesArePositive DEF IInv, TypeOK, AnsweredIsReceived, Frames, SetReadFails, Closing, Of, pushVars, retryVars, wireVars
<1>4. AckedIsRead'
  BY <1>1, RetriesArePositive DEF IInv, TypeOK, AckedIsRead, Frames, SetReadFails, Closing, Of, pushVars, retryVars, wireVars
<1>5. WritingIsEarly' /\ RetriesLeft' /\ ClearedIsAcked' /\ ReadWasReceived' /\ NeverGivesUpEarly' /\ UnackedIsRetried'
  BY DEF IInv, WritingIsEarly, RetriesLeft, ClearedIsAcked, ReadWasReceived, NeverGivesUpEarly, UnackedIsRetried, SetReadFails, pushVars, retryVars, wireVars
<1> QED
  BY <1>1, <1>2, <1>3, <1>4, <1>5 DEF IInv

\* Every step preserves the invariant.
LEMMA NextStep == ASSUME IInv, [Next]_vars PROVE IInv'
<1>1. CASE Next
  <2>1. ASSUME NEW c \in Channels, Connect(c) \/ Idle(c) \/ Close(c) \/ Remove(c) PROVE IInv'
    BY <2>1, ConnectStep, IdleStep, CloseStep, RemoveStep
  <2>2. ASSUME NEW k \in Chats, Push(k) \/ Abort(k) PROVE IInv'
    BY <2>2, PushStep, AbortStep
  <2>3. ASSUME NEW c \in Channels, NEW k \in Chats, Skip(c, k) \/ Write(c, k) \/ SetAttr(c, k)
        PROVE  IInv'
    BY <2>3, SkipStep, WriteStep, SetAttrStep
  <2>4. ASSUME NEW f \in Frames,
               \/ Arm(f) \/ CheckAck(f) \/ Resend(f)
               \/ Receive(f) \/ ClearAttr(f) \/ SetRead(f) \/ SetReadFails(f)
        PROVE  IInv'
    BY <2>4, ArmStep, CheckAckStep, ResendStep, ReceiveStep, ClearAttrStep, SetReadStep,
       SetReadFailsStep
  <2> QED
    BY <1>1, <2>1, <2>2, <2>3, <2>4 DEF Next
<1>2. CASE UNCHANGED vars
  BY <1>2 DEF vars, pushVars, retryVars, wireVars, IInv, TypeOK, FreshFrames, Untouched,
     WritingIsEarly, RetriesLeft, ClearedIsAcked, AnsweredIsReceived, ReadWasReceived,
     AckedIsRead, NeverGivesUpEarly, UnackedIsRetried
<1> QED
  BY <1>1, <1>2

\* The inductive invariant holds of every behaviour.
LEMMA ChatDeliveryIInv == Spec => []IInv
<1>1. IInv /\ [Next]_vars => IInv'
  BY NextStep
<1> QED
  BY InitIInv, <1>1, PTL DEF Spec

-----------------------------------------------------------------------------
\* The variables of UserChannelManager, RetryTimerTask and ClientAckHandler keep
\* their types; in particular no task retries more than Retries times.
THEOREM ChatDeliveryTypeOK == Spec => []TypeOK
<1>1. IInv => TypeOK
  BY DEF IInv
<1> QED
  BY ChatDeliveryIInv, <1>1, PTL

\* What the recipient's acknowledgements do to msg_read: a READ message was
\* received, and a handled acknowledgement ends as READ or with its channel.
THEOREM ChatDeliveryReads == Spec => []ReadWasReceived /\ []AckedIsRead
<1>1. IInv => ReadWasReceived /\ AckedIsRead
  BY DEF IInv
<1> QED
  BY ChatDeliveryIInv, <1>1, PTL

\* What the retries do: a task ends early only after an acknowledgement that it
\* could see, and a frame that still waits for one has a task or has used it up.
THEOREM ChatDeliveryRetries == Spec => []NeverGivesUpEarly /\ []UnackedIsRetried
<1>1. IInv => NeverGivesUpEarly /\ UnackedIsRetried
  BY DEF IInv
<1> QED
  BY ChatDeliveryIInv, <1>1, PTL

\* A timer that found the attribute cleared has stopped for good.
LEMMA QuietStep ==
    ASSUME IInv, [Next]_vars, NEW f \in Frames, acked[f] = "late", timer[f] # "resending"
    PROVE  timer'[f] # "resending"
<1>1. f \notin attr
  BY DEF IInv, ClearedIsAcked
<1>2. ASSUME NEW g \in Frames, CheckAck(g) PROVE timer'[f] # "resending"
  BY <1>1, <1>2 DEF CheckAck, IInv, TypeOK
<1>3. ASSUME NEW g \in Frames, Arm(g) \/ Resend(g) PROVE timer'[f] # "resending"
  BY <1>3 DEF Arm, Resend, IInv, TypeOK
<1>4. ASSUME NEW c \in Channels, NEW k \in Chats, SetAttr(c, k) PROVE timer'[f] # "resending"
  BY <1>4 DEF SetAttr, IInv, TypeOK, Frames
<1>5. CASE UNCHANGED timer
  BY <1>5
<1>6. \/ UNCHANGED timer
      \/ \E c \in Channels, k \in Chats : SetAttr(c, k)
      \/ \E g \in Frames : Arm(g) \/ CheckAck(g) \/ Resend(g)
  BY DEF Next, vars, retryVars, Connect, Idle, Close, Remove, Push, Abort, Skip, Write,
     Receive, ClearAttr, SetRead, SetReadFails
<1> QED
  BY <1>2, <1>3, <1>4, <1>5, <1>6

\* After an acknowledgement that the timer could see, no check of it decides to
\* send the message again.
THEOREM ChatDeliveryQuiet == Spec => QuietAfterAck
<1>1. IInv /\ [Next]_vars =>
        [\A f \in Frames :
           acked[f] = "late" /\ timer[f] # "resending" => timer'[f] # "resending"]_vars
  BY QuietStep
<1> QED
  BY ChatDeliveryIInv, <1>1, PTL DEF Spec, QuietAfterAck

-----------------------------------------------------------------------------
(* The refinement of BoundedDelivery *)

\* A frame on its way has been counted as an attempt
FramesAreTried == \A f \in frames : f \in writing \/ timer[f] # "none"

DInv == IInv /\ FramesAreTried

LEMMA TriedStep == ASSUME DInv, [Next]_vars PROVE FramesAreTried'
<1>0. TypeOK /\ FramesAreTried
  BY DEF DInv, IInv
<1>1. ASSUME NEW c \in Channels, NEW k \in Chats, Write(c, k) PROVE FramesAreTried'
  BY <1>0, <1>1 DEF Write, FramesAreTried, retryVars
<1>2. ASSUME NEW c \in Channels, NEW k \in Chats, SetAttr(c, k) PROVE FramesAreTried'
  BY <1>0, <1>2 DEF SetAttr, FramesAreTried, TypeOK, Frames, wireVars
<1>3. ASSUME NEW f \in Frames, Arm(f) \/ CheckAck(f) \/ Resend(f) PROVE FramesAreTried'
  BY <1>0, <1>3 DEF Arm, CheckAck, Resend, FramesAreTried, TypeOK, wireVars, pushVars
<1>4. CASE frames' \subseteq frames /\ UNCHANGED <<writing, timer>>
  BY <1>0, <1>4 DEF FramesAreTried
<1>5. \/ frames' \subseteq frames /\ UNCHANGED <<writing, timer>>
      \/ \E c \in Channels, k \in Chats : Write(c, k) \/ SetAttr(c, k)
      \/ \E f \in Frames : Arm(f) \/ CheckAck(f) \/ Resend(f)
  BY DEF Next, vars, pushVars, retryVars, wireVars, Connect, Idle, Close, Remove, Closing,
     Push, Abort, Skip, Receive, ClearAttr, SetRead, SetReadFails
<1> QED
  BY <1>1, <1>2, <1>3, <1>4, <1>5

LEMMA DInvHolds == Spec => []DInv
<1>1. Init => DInv
  BY InitIInv DEF DInv, FramesAreTried, Init
<1>2. DInv /\ [Next]_vars => DInv'
  BY NextStep, TriedStep DEF DInv
<1> QED
  BY <1>1, <1>2, PTL DEF Spec

\* What is seen of the frames changes at one of them at most.
LEMMA OnlyAt ==
    ASSUME NEW f \in Frames, \A g \in Frames \ {f} : AttemptsOf(g)' = AttemptsOf(g),
           \A g \in Frames \ {f} : SettledAs(g)' = SettledAs(g)
    PROVE  /\ [g \in Frames |-> AttemptsOf(g)]'
                = [[g \in Frames |-> AttemptsOf(g)] EXCEPT ![f] = AttemptsOf(f)']
           /\ [g \in Frames |-> SettledAs(g)]'
                = [[g \in Frames |-> SettledAs(g)] EXCEPT ![f] = SettledAs(f)']
  OBVIOUS

LEMMA SameEverywhere ==
    ASSUME \A g \in Frames : AttemptsOf(g)' = AttemptsOf(g) /\ SettledAs(g)' = SettledAs(g),
           UNCHANGED <<got, read>>
    PROVE  UNCHANGED Delivery!deliveryVars
  BY DEF Delivery!deliveryVars

\* A frame is written to a channel for the first time.
LEMMA DeliveryWrite ==
    ASSUME DInv, NEW c \in Channels, NEW k \in Chats, Write(c, k)
    PROVE  Delivery!Attempt(<<c, k>>)
<1> DEFINE f == <<c, k>>
<1>0. f \in Frames /\ TypeOK
  BY DEF Frames, DInv, IInv
<1>1. AttemptsOf(f) = 0 /\ SettledAs(f) = "open" /\ timer[f] = "none" /\ acked[f] = "no"
  BY <1>0 DEF DInv, IInv, FreshFrames, Untouched, AttemptsOf, SettledAs, Write
<1>2. AttemptsOf(f)' = 1 /\ SettledAs(f)' = "open"
  BY <1>0, <1>1 DEF Write, AttemptsOf, SettledAs, retryVars
<1>3. \A g \in Frames \ {f} : AttemptsOf(g)' = AttemptsOf(g) /\ SettledAs(g)' = SettledAs(g)
  BY <1>0 DEF Write, AttemptsOf, SettledAs, retryVars
<1>4. UNCHANGED <<got, read>>
  BY DEF Write
<1>5. Delivery!Attempt(f)
  <2> HIDE DEF f
  <2>1. 0 < Retries + 1 /\ AttemptsOf(f)' = AttemptsOf(f) + 1
    BY <1>1, <1>2, RetriesArePositive
  <2> QED
    BY <1>0, <1>1, <1>2, <1>3, <1>4, <2>1, OnlyAt DEF Delivery!Attempt
<1> QED
  BY <1>5

\* A timer that has decided to send the frame again does.
LEMMA DeliveryResend ==
    ASSUME DInv, NEW f \in Frames, Resend(f)
    PROVE  Delivery!Attempt(f)
<1>0. TypeOK /\ timer[f] = "resending" /\ tries[f] \in Nat /\ tries[f] < Retries
  BY RetriesArePositive DEF DInv, IInv, RetriesLeft, TypeOK, Resend
<1>1. AttemptsOf(f) = 1 + tries[f] /\ SettledAs(f) = IF acked[f] # "late" THEN "open" ELSE "resend"
  BY <1>0 DEF AttemptsOf, SettledAs
<1>2. timer'[f] \in {"armed", "stopped"} /\ tries'[f] = tries[f] + 1 /\ acked' = acked
  BY <1>0 DEF Resend, TypeOK
<1>3. /\ AttemptsOf(f)' = AttemptsOf(f) + 1
      /\ SettledAs(f)' = IF acked[f] # "late" THEN "open" ELSE "quiet"
  BY <1>0, <1>1, <1>2, SMT DEF AttemptsOf, SettledAs
<1>4. \A g \in Frames \ {f} : AttemptsOf(g)' = AttemptsOf(g) /\ SettledAs(g)' = SettledAs(g)
  BY <1>0 DEF Resend, TypeOK, AttemptsOf, SettledAs, pushVars
<1>5. UNCHANGED <<got, read>>
  BY DEF Resend
<1>6. AttemptsOf(f) < Retries + 1
  BY <1>0, <1>1, RetriesArePositive
<1> QED
  BY <1>1, <1>3, <1>4, <1>5, <1>6, OnlyAt DEF Delivery!Attempt

LEMMA DeliveryReceive ==
    ASSUME DInv, NEW f \in Frames, Receive(f)
    PROVE  Delivery!Receive(f)
<1>1. AttemptsOf(f) > 0
  BY RetriesArePositive DEF DInv, FramesAreTried, IInv, TypeOK, AttemptsOf, Receive
<1>2. \A g \in Frames : AttemptsOf(g)' = AttemptsOf(g) /\ SettledAs(g)' = SettledAs(g)
  BY DEF Receive, AttemptsOf, SettledAs, pushVars, retryVars
<1> QED
  BY <1>1, <1>2 DEF Delivery!Receive, Receive

\* An acknowledgement settles its frame when the attribute is set by then.
LEMMA DeliveryClearAttr ==
    ASSUME DInv, NEW f \in Frames, ClearAttr(f)
    PROVE  Delivery!Settle(f) \/ UNCHANGED Delivery!deliveryVars
<1>0. TypeOK /\ f \in got /\ UNCHANGED <<got, read, timer, tries, writing>>
  BY DEF DInv, IInv, AnsweredIsReceived, ClearAttr, pushVars, retryVars
<1>1. \A g \in Frames : AttemptsOf(g)' = AttemptsOf(g)
  BY <1>0 DEF AttemptsOf
<1>2. \A g \in Frames \ {f} : SettledAs(g)' = SettledAs(g)
  BY <1>0 DEF ClearAttr, TypeOK, SettledAs
<1>3. acked'[f] = IF f \in writing THEN "early" ELSE "late"
  BY <1>0 DEF ClearAttr, TypeOK
<1>4. CASE acked[f] = "late" \/ f \in writing
  <2>1. SettledAs(f)' = SettledAs(f)
    BY <1>0, <1>3, <1>4 DEF SettledAs, DInv, IInv, WritingIsEarly
  <2> QED
    BY <1>0, <1>1, <1>2, <2>1, SameEverywhere
<1>5. CASE acked[f] # "late" /\ f \notin writing
  <2>1. SettledAs(f) = "open" /\ SettledAs(f)' \in {"resend", "quiet"}
    BY <1>0, <1>3, <1>5 DEF SettledAs
  <2>2. [g \in Frames |-> AttemptsOf(g)]' = [g \in Frames |-> AttemptsOf(g)]
    BY <1>1
  <2> QED
    BY <1>0, <1>1, <1>2, <2>1, <2>2, OnlyAt DEF Delivery!Settle
<1> QED
  BY <1>4, <1>5

LEMMA DeliverySetRead ==
    ASSUME DInv, NEW f \in Frames, SetRead(f)
    PROVE  \E k \in Chats : Delivery!Read(k)
<1>1. f[1] \in Channels /\ f[2] \in Chats /\ <<f[1], f[2]>> \in got
  BY DEF DInv, IInv, AnsweredIsReceived, SetRead, Frames
<1>2. \A g \in Frames : AttemptsOf(g)' = AttemptsOf(g) /\ SettledAs(g)' = SettledAs(g)
  BY DEF SetRead, AttemptsOf, SettledAs, pushVars, retryVars
<1>3. Delivery!Read(f[2])
  BY <1>1, <1>2 DEF Delivery!Read, SetRead
<1> QED
  BY <1>1, <1>3

\* The attribute, the listener and the look of the timer are not seen.
LEMMA DeliverySetAttr ==
    ASSUME DInv, NEW c \in Channels, NEW k \in Chats, SetAttr(c, k)
    PROVE  UNCHANGED Delivery!deliveryVars
<1> DEFINE f == <<c, k>>
<1>0. f \in Frames /\ f \in writing /\ TypeOK /\ timer[f] = "none" /\ tries[f] = 0 /\ acked[f] # "late"
  BY DEF Frames, DInv, IInv, WritingIsEarly, RetriesLeft, SetAttr
<1>1. timer'[f] = "writing" /\ UNCHANGED <<tries, acked, got, read>>
  BY <1>0 DEF SetAttr, TypeOK
<1>2. AttemptsOf(f)' = AttemptsOf(f) /\ SettledAs(f)' = SettledAs(f)
  BY <1>0, <1>1 DEF AttemptsOf, SettledAs
<1>3. \A g \in Frames \ {f} : AttemptsOf(g)' = AttemptsOf(g) /\ SettledAs(g)' = SettledAs(g)
  BY <1>0 DEF SetAttr, TypeOK, AttemptsOf, SettledAs
<1> QED
  BY <1>1, <1>2, <1>3, SameEverywhere

LEMMA DeliveryTimer ==
    ASSUME DInv, NEW f \in Frames, Arm(f) \/ CheckAck(f)
    PROVE  UNCHANGED Delivery!deliveryVars
<1>0. TypeOK /\ timer[f] \in {"writing", "armed"} /\ UNCHANGED <<tries, writing, acked, got, read>>
  BY DEF DInv, IInv, Arm, CheckAck, pushVars
<1>1. timer'[f] \in {"armed", "resending", "stopped"} /\ (acked[f] = "late" => timer'[f] # "resending")
  BY <1>0 DEF DInv, IInv, ClearedIsAcked, TypeOK, Arm, CheckAck
<1>2. AttemptsOf(f)' = AttemptsOf(f) /\ SettledAs(f)' = SettledAs(f)
  BY <1>0, <1>1 DEF AttemptsOf, SettledAs
<1>3. \A g \in Frames \ {f} : AttemptsOf(g)' = AttemptsOf(g) /\ SettledAs(g)' = SettledAs(g)
  BY <1>0 DEF Arm, CheckAck, TypeOK, AttemptsOf, SettledAs
<1> QED
  BY <1>0, <1>2, <1>3, SameEverywhere

LEMMA DeliveryStutter ==
    ASSUME UNCHANGED <<timer, tries, writing, acked, got, read>>
    PROVE  UNCHANGED Delivery!deliveryVars
<1>1. \A g \in Frames : AttemptsOf(g)' = AttemptsOf(g) /\ SettledAs(g)' = SettledAs(g)
  BY DEF AttemptsOf, SettledAs
<1> QED
  BY <1>1, SameEverywhere

LEMMA DeliveryStep ==
    ASSUME DInv, [Next]_vars
    PROVE  [Delivery!Next]_(Delivery!deliveryVars)
<1>1. \/ UNCHANGED <<timer, tries, writing, acked, got, read>>
      \/ \E c \in Channels, k \in Chats : Write(c, k) \/ SetAttr(c, k)
      \/ \E f \in Frames :
            Arm(f) \/ CheckAck(f) \/ Resend(f) \/ Receive(f) \/ ClearAttr(f) \/ SetRead(f)
  BY DEF Next, vars, pushVars, retryVars, wireVars, Connect, Idle, Close, Remove, Closing,
     Push, Abort, Skip, SetReadFails
<1>2. CASE \E c \in Channels, k \in Chats : Write(c, k) \/ SetAttr(c, k)
  BY <1>2, DeliveryWrite, DeliverySetAttr DEF Delivery!Next, Delivery!Frames
<1>3. ASSUME NEW f \in Frames,
             Arm(f) \/ CheckAck(f) \/ Resend(f) \/ Receive(f) \/ ClearAttr(f) \/ SetRead(f)
      PROVE  [Delivery!Next]_(Delivery!deliveryVars)
  <2>1. f \in Delivery!Frames
    BY DEF Frames, Delivery!Frames
  <2> QED
    BY <1>3, <2>1, DeliveryTimer, DeliveryResend, DeliveryReceive, DeliveryClearAttr,
       DeliverySetRead DEF Delivery!Next
<1> QED
  BY <1>1, <1>2, <1>3, DeliveryStutter

\* The delivery of chat messages is a bounded one: no interleaving of pushes,
\* retries, acknowledgements and closing channels sends a frame more often than
\* the retries allow, or more than once after it is settled, or marks a message
\* as read that no channel has received.
THEOREM ChatDeliveryIsBounded == Spec => IsBoundedDelivery
<1>1. Init => Delivery!Init
  BY DEF Init, Delivery!Init, Delivery!Frames, Frames, AttemptsOf, SettledAs
<1> QED
  BY <1>1, DInvHolds, DeliveryStep, PTL DEF Spec, IsBoundedDelivery, Delivery!Spec
=============================================================================
