--------------------------- MODULE ChatDelivery ---------------------------
(***************************************************************************)
(* Delivery of saved chat messages to the web socket channels of one       *)
(* recipient: the push loop of UserChannelManager.writeAndFlushChatMsg,    *)
(* the RetryTimerTask it leaves for every channel, the acknowledgement     *)
(* handler of the client's answers, and the registry of channels.          *)
(*                                                                         *)
(* Three kinds of threads take the steps: the event loop of the sender's   *)
(* channel runs the push of a chat, the event loop of a recipient's        *)
(* channel completes writes, handles acknowledgements and closes, and the  *)
(* single thread of the HashedWheelTimer runs the retries.                 *)
(*                                                                         *)
(* A frame is the pair of its channel and its chat: two copies of one      *)
(* message on the way to the same client are one element of frames.  The   *)
(* retry delay is abstracted: an armed timer may expire at any moment.     *)
(***************************************************************************)
EXTENDS Naturals, FiniteSets

CONSTANTS
    Channels,       \* channels the recipient opens, one after another or at once
    Chats,          \* chat_history.id of the messages sent to the recipient
    Retries         \* RetryTimerTask.retries, 10 in the code

ASSUME RetriesArePositive == Retries \in Nat \ {0}

VARIABLES
    conn,           \* state of a channel: "new", "open", "idle" or "closed"
    registered,     \* userChannelMap.get(uid)
    pushed,         \* the chats whose push has started
    todo,           \* of a push: the channels its iterator has yet to return
    stale,          \* of a push: registered has changed since it started
    writing,        \* frames written whose channel attribute is not yet set
    attr,           \* the channel holds the attribute named after the chat
    timer,          \* of a frame: the RetryTimerTask and its listener
    tries,          \* RetryTimerTask.retryTimes
    frames,         \* frames on the way to the client
    acks,           \* acknowledgements on the way to the server
    acking,         \* handlers between attr.set(null) and the update
    read,           \* chats whose msg_read is READ
    got,            \* history: the frames a client has received
    acked           \* history: whether the last acknowledgement came before SetAttr

pushVars == <<pushed, todo, stale, writing>>
retryVars == <<timer, tries>>
wireVars == <<frames, acks>>
vars == <<conn, registered, pushVars, attr, retryVars, wireVars, acking, read, got, acked>>

Frames == Channels \X Chats
Of(c) == {c} \X Chats

TypeOK ==
    /\ conn \in [Channels -> {"new", "open", "idle", "closed"}]
    /\ registered \in SUBSET Channels
    /\ pushed \in SUBSET Chats
    /\ todo \in [Chats -> SUBSET Channels]
    /\ stale \in SUBSET Chats
    /\ writing \in SUBSET Frames
    /\ attr \in SUBSET Frames
    /\ timer \in [Frames -> {"none", "writing", "armed", "resending", "stopped"}]
    /\ tries \in [Frames -> 0 .. Retries]
    /\ frames \in SUBSET Frames
    /\ acks \in SUBSET Frames
    /\ acking \in SUBSET Frames
    /\ read \in SUBSET Chats
    /\ got \in SUBSET Frames
    /\ acked \in [Frames -> {"no", "early", "late"}]

Init ==
    /\ conn = [c \in Channels |-> "new"]
    /\ registered = {}
    /\ pushed = {}
    /\ todo = [k \in Chats |-> {}]
    /\ stale = {}
    /\ writing = {}
    /\ attr = {}
    /\ timer = [f \in Frames |-> "none"]
    /\ tries = [f \in Frames |-> 0]
    /\ frames = {}
    /\ acks = {}
    /\ acking = {}
    /\ read = {}
    /\ got = {}
    /\ acked = [f \in Frames |-> "no"]

-----------------------------------------------------------------------------
(* Channels.  All steps of one channel run in its event loop, so it closes  *)
(* between two handlers and never inside one.                               *)

Up(c) == conn[c] \in {"open", "idle"}
Busy(c) == acking \cap Of(c) # {}

\* The pushes that are iterating over the registry when it changes
Iterating == {k \in Chats : todo[k] # {}}

\* AuthHandler accepts the token and calls add
Connect(c) ==
    /\ conn[c] = "new"
    /\ conn' = [conn EXCEPT ![c] = "open"]
    /\ registered' = registered \cup {c}
    /\ stale' = stale \cup Iterating
    /\ UNCHANGED <<pushed, todo, writing, attr, retryVars, wireVars, acking, read, got, acked>>

\* HeartBeatHandler takes an idle channel out of the registry, then closes it
Idle(c) ==
    /\ conn[c] = "open"
    /\ ~ Busy(c)
    /\ conn' = [conn EXCEPT ![c] = "idle"]
    /\ registered' = registered \ {c}
    /\ stale' = stale \cup Iterating
    /\ UNCHANGED <<pushed, todo, writing, attr, retryVars, wireVars, acking, read, got, acked>>

\* Whatever is on the wire of a channel that closes is lost; a frame that still
\* arrived could not be answered
Closing(c) ==
    /\ conn' = [conn EXCEPT ![c] = "closed"]
    /\ frames' = frames \ Of(c)
    /\ acks' = acks \ Of(c)

\* The peer goes away, the rate limit is hit, or an idle channel is closed
Close(c) ==
    /\ Up(c)
    /\ ~ Busy(c)
    /\ Closing(c)
    /\ UNCHANGED <<registered, pushVars, attr, retryVars, acking, read, got, acked>>

\* exceptionCaught and handlerRemoved call remove after the channel has closed
Remove(c) ==
    /\ conn[c] = "closed"
    /\ c \in registered
    /\ registered' = registered \ {c}
    /\ stale' = stale \cup Iterating
    /\ UNCHANGED <<conn, pushed, todo, writing, attr, retryVars, wireVars, acking, read, got, acked>>

-----------------------------------------------------------------------------
(* The push of chat k: a loop over the registry, one frame at a time        *)

Between(k) == \A c \in Channels : <<c, k>> \notin writing

Push(k) ==
    /\ k \notin pushed
    /\ pushed' = pushed \cup {k}
    /\ todo' = [todo EXCEPT ![k] = registered]
    /\ UNCHANGED <<conn, registered, stale, writing, attr, retryVars, wireVars, acking, read, got, acked>>

\* isWritable is false: the channel is closed or its buffer is full
Skip(c, k) ==
    /\ c \in todo[k]
    /\ Between(k)
    /\ todo' = [todo EXCEPT ![k] = @ \ {c}]
    /\ UNCHANGED <<conn, registered, pushed, stale, writing, attr, retryVars, wireVars, acking, read, got, acked>>

Write(c, k) ==
    /\ c \in todo[k]
    /\ Between(k)
    /\ Up(c)
    /\ todo' = [todo EXCEPT ![k] = @ \ {c}]
    /\ frames' = frames \cup {<<c, k>>}
    /\ writing' = writing \cup {<<c, k>>}
    /\ UNCHANGED <<conn, registered, pushed, stale, attr, retryVars, acks, acking, read, got, acked>>

\* The attribute is set after the frame was written, then the listener added
SetAttr(c, k) ==
    /\ <<c, k>> \in writing
    /\ writing' = writing \ {<<c, k>>}
    /\ attr' = attr \cup {<<c, k>>}
    /\ timer' = [timer EXCEPT ![<<c, k>>] = "writing"]
    /\ UNCHANGED <<conn, registered, pushed, todo, stale, tries, wireVars, acking, read, got, acked>>

\* The registry is a HashSet: an iterator that notices a change throws
\* ConcurrentModificationException, and the channels left are never served.
\* It need not notice: neither side synchronises with the other.
Abort(k) ==
    /\ k \in stale
    /\ todo[k] # {}
    /\ Between(k)
    /\ todo' = [todo EXCEPT ![k] = {}]
    /\ UNCHANGED <<conn, registered, pushed, stale, writing, attr, retryVars, wireVars, acking, read, got, acked>>

-----------------------------------------------------------------------------
(* Retries: checkAckAndResend and RetryTimerTask                            *)

\* Mutant: the listener marks the message as read
ArmMarksRead(f) ==
    /\ timer[f] = "writing"
    /\ timer' = [timer EXCEPT ![f] = "armed"]
    /\ read' = read \cup {f[2]}
    /\ UNCHANGED <<conn, registered, pushVars, attr, tries, wireVars, acking, got, acked>>

\* Mutant: no timer after a failed write
ArmIfWritten(f) ==
    /\ timer[f] = "writing"
    /\ timer' = [timer EXCEPT ![f] = IF Up(f[1]) THEN "armed" ELSE "stopped"]
    /\ UNCHANGED <<conn, registered, pushVars, attr, tries, wireVars, acking, read, got, acked>>

\* The write completes, with success or not, and the listener arms the timer
Arm(f) ==
    /\ timer[f] = "writing"
    /\ timer' = [timer EXCEPT ![f] = "armed"]
    /\ UNCHANGED <<conn, registered, pushVars, attr, tries, wireVars, acking, read, got, acked>>

\* The timer thread looks at the attribute ...
CheckAck(f) ==
    /\ timer[f] = "armed"
    /\ timer' = [timer EXCEPT ![f] = IF f \in attr THEN "resending" ELSE "stopped"]
    /\ UNCHANGED <<conn, registered, pushVars, attr, tries, wireVars, acking, read, got, acked>>

\* Mutant: one resend too many
ResendOnceMore(f) ==
    /\ timer[f] = "resending"
    /\ frames' = IF Up(f[1]) THEN frames \cup {f} ELSE frames
    /\ tries' = [tries EXCEPT ![f] = @ + 1]
    /\ timer' = [timer EXCEPT ![f] = IF tries[f] >= Retries THEN "stopped" ELSE "armed"]
    /\ UNCHANGED <<conn, registered, pushVars, attr, acks, acking, read, got, acked>>

\* Mutant: the task is not put back once the channel is down
ResendWhileUp(f) ==
    /\ timer[f] = "resending"
    /\ frames' = IF Up(f[1]) THEN frames \cup {f} ELSE frames
    /\ tries' = [tries EXCEPT ![f] = @ + 1]
    /\ timer' = [timer EXCEPT ![f] = IF Up(f[1]) /\ tries[f] + 1 < Retries THEN "armed" ELSE "stopped"]
    /\ UNCHANGED <<conn, registered, pushVars, attr, acks, acking, read, got, acked>>

\* Mutant: the attempts are not counted
ResendForever(f) ==
    /\ timer[f] = "resending"
    /\ frames' = IF Up(f[1]) THEN frames \cup {f} ELSE frames
    /\ timer' = [timer EXCEPT ![f] = "armed"]
    /\ UNCHANGED <<conn, registered, pushVars, attr, tries, acks, acking, read, got, acked>>

\* ... writes the frame again, throws, and is put back until retryTimes is retries
Resend(f) ==
    /\ timer[f] = "resending"
    /\ frames' = IF Up(f[1]) THEN frames \cup {f} ELSE frames
    /\ tries' = [tries EXCEPT ![f] = @ + 1]
    /\ timer' = [timer EXCEPT ![f] = IF tries[f] + 1 >= Retries THEN "stopped" ELSE "armed"]
    /\ UNCHANGED <<conn, registered, pushVars, attr, acks, acking, read, got, acked>>

-----------------------------------------------------------------------------
(* Acknowledgements                                                         *)

\* The client (external) answers every frame it receives, copies included
Receive(f) ==
    /\ f \in frames
    /\ frames' = frames \ {f}
    /\ acks' = acks \cup {f}
    /\ got' = got \cup {f}
    /\ UNCHANGED <<conn, registered, pushVars, attr, retryVars, acking, read, acked>>

\* Mutant: the attribute stays
KeepAttr(f) ==
    /\ f \in acks
    /\ ~ Busy(f[1])
    /\ acks' = acks \ {f}
    /\ acking' = acking \cup {f}
    /\ acked' = [acked EXCEPT ![f] = IF f \in writing THEN "early" ELSE "late"]
    /\ UNCHANGED <<conn, registered, pushVars, attr, retryVars, frames, read, got>>

\* ClientAckHandler clears the attribute, which need not be set yet ...
ClearAttr(f) ==
    /\ f \in acks
    /\ ~ Busy(f[1])
    /\ acks' = acks \ {f}
    /\ attr' = attr \ {f}
    /\ acking' = acking \cup {f}
    /\ acked' = [acked EXCEPT ![f] = IF f \in writing THEN "early" ELSE "late"]
    /\ UNCHANGED <<conn, registered, pushVars, retryVars, frames, read, got>>

\* ... and then marks the message as read,
SetRead(f) ==
    /\ f \in acking
    /\ acking' = acking \ {f}
    /\ read' = read \cup {f[2]}
    /\ UNCHANGED <<conn, registered, pushVars, attr, retryVars, wireVars, got, acked>>

\* Mutant: the failed update is swallowed
SetReadFailsSilently(f) ==
    /\ f \in acking
    /\ acking' = acking \ {f}
    /\ UNCHANGED <<conn, registered, pushVars, attr, retryVars, wireVars, read, got, acked>>

\* or the update fails and exceptionCaught closes the channel.
SetReadFails(f) ==
    /\ f \in acking
    /\ acking' = acking \ {f}
    /\ Closing(f[1])
    /\ UNCHANGED <<registered, pushVars, attr, retryVars, read, got, acked>>

-----------------------------------------------------------------------------
Next ==
    \/ \E c \in Channels : Connect(c) \/ Idle(c) \/ Close(c) \/ Remove(c)
    \/ \E k \in Chats : Push(k) \/ Abort(k)
    \/ \E c \in Channels, k \in Chats : Skip(c, k) \/ Write(c, k) \/ SetAttr(c, k)
    \/ \E f \in Frames :
          \/ Arm(f) \/ CheckAck(f) \/ Resend(f)
          \/ Receive(f) \/ ClearAttr(f) \/ SetRead(f) \/ SetReadFails(f)

Spec == Init /\ [][Next]_vars

\* What the threads of the server do by themselves: a push finishes the frame it
\* has written, a write completes, the timer thread runs what is due, and an
\* event loop handles the acknowledgements it has received.
ServerFairness ==
    /\ \A c \in Channels, k \in Chats : WF_vars(SetAttr(c, k))
    /\ \A f \in Frames :
         /\ WF_vars(Arm(f)) /\ WF_vars(CheckAck(f)) /\ WF_vars(Resend(f))
         /\ WF_vars(ClearAttr(f)) /\ WF_vars(SetRead(f) \/ SetReadFails(f))

\* A client that reads and answers while its channel is up
ClientFairness == \A f \in Frames : WF_vars(Receive(f))

FairSpec == Spec /\ ServerFairness

-----------------------------------------------------------------------------
(* Properties *)

\* A message is READ only if some channel of the recipient received it, however
\* acknowledgements, retries and closing channels interleave.
ReadWasReceived == \A k \in read : \E c \in Channels : <<c, k>> \in got

\* An acknowledgement clears the attribute before the table is updated; after
\* that nothing sends the message again.  So a handled acknowledgement must end
\* as READ, unless the failed update took the channel down.
AckedIsRead ==
    \A f \in Frames :
        acked[f] # "no" => f[2] \in read \/ f \in acking \/ conn[f[1]] = "closed"

\* The retries end early only for a frame whose acknowledgement came after the
\* attribute was set: a missing one costs the client all the retries.
NeverGivesUpEarly ==
    \A f \in Frames : timer[f] = "stopped" /\ tries[f] < Retries => acked[f] = "late"

\* No frame is left to itself: one that was written and is neither received nor
\* lost with its channel still has its timer, or all its retries are used up.
UnackedIsRetried ==
    \A f \in Frames :
        f \in attr => timer[f] \in {"writing", "armed", "resending"} \/ tries[f] = Retries

\* After an acknowledgement that found the attribute the timer never decides to
\* resend again: at most the resend already decided goes out.
QuietAfterAck ==
    [][\A f \in Frames :
          acked[f] = "late" /\ timer[f] # "resending" => timer'[f] # "resending"]_vars

\* Seen from outside, every interleaving of pushes, retries, acknowledgements
\* and closing channels is a bounded delivery: a frame goes out Retries times
\* after the first at most, and once more at most when it is settled, and a
\* message is READ only when a channel has it.
AttemptsOf(f) ==
    IF timer[f] # "none" THEN 1 + tries[f] ELSE IF f \in writing THEN 1 ELSE 0
SettledAs(f) ==
    IF acked[f] # "late" THEN "open"
    ELSE IF timer[f] = "resending" THEN "resend" ELSE "quiet"
Delivery == INSTANCE BoundedDelivery
                WITH Attempts <- Retries + 1,
                     attempts <- [f \in Frames |-> AttemptsOf(f)],
                     settled <- [f \in Frames |-> SettledAs(f)]
IsBoundedDelivery == Delivery!Spec

\* A frame on its way to a client that reads and answers becomes a READ message,
\* or its channel closes.
DeliveredIsRead ==
    ClientFairness =>
        \A f \in Frames : f \in frames ~> f[2] \in read \/ conn[f[1]] = "closed"

\* Every frame that was written sees its timer stop, also when
\* the channel has closed or the client is mute.
TimersStop == \A f \in Frames : f \in writing ~> timer[f] = "stopped"
=============================================================================
