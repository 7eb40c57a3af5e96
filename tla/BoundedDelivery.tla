-------------------------- MODULE BoundedDelivery ---------------------------
(***************************************************************************)
(* What the delivery of chat messages promises, seen from outside: a       *)
(* message is sent over a channel a bounded number of times, it is read    *)
(* only after some channel has received it, and a channel whose            *)
(* acknowledgement has settled the message sees it at most once more.      *)
(***************************************************************************)
EXTENDS Naturals

CONSTANTS Channels, Chats, Attempts

Frames == Channels \X Chats

VARIABLES
    attempts,       \* how often a message was sent over a channel
    got,            \* what the channels have received
    settled,        \* "open", "resend" (once more) or "quiet"
    read            \* the messages that are read

deliveryVars == <<attempts, got, settled, read>>

Init ==
    /\ attempts = [f \in Frames |-> 0]
    /\ got = {}
    /\ settled = [f \in Frames |-> "open"]
    /\ read = {}

Attempt(f) ==
    /\ attempts[f] < Attempts
    /\ settled[f] # "quiet"
    /\ attempts' = [attempts EXCEPT ![f] = @ + 1]
    /\ settled' = [settled EXCEPT ![f] = IF @ = "resend" THEN "quiet" ELSE @]
    /\ UNCHANGED <<got, read>>

Receive(f) ==
    /\ attempts[f] > 0
    /\ got' = got \cup {f}
    /\ UNCHANGED <<attempts, settled, read>>

Settle(f) ==
    /\ f \in got
    /\ settled[f] = "open"
    /\ \E s \in {"resend", "quiet"} : settled' = [settled EXCEPT ![f] = s]
    /\ UNCHANGED <<attempts, got, read>>

Read(k) ==
    /\ \E c \in Channels : <<c, k>> \in got
    /\ read' = read \cup {k}
    /\ UNCHANGED <<attempts, got, settled>>

Next ==
    \/ \E f \in Frames : Attempt(f) \/ Receive(f) \/ Settle(f)
    \/ \E k \in Chats : Read(k)

Spec == Init /\ [][Next]_deliveryVars
=============================================================================
