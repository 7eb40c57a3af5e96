---------------------------- MODULE FixedWindow -----------------------------
(***************************************************************************)
(* What a rate limit promises to the requests of one address: "M/N means   *)
(* that only M times can be requested in N time units".  A window opens    *)
(* with a request, lasts N ticks at least and has M places.  A request     *)
(* that gets a place may be let through, once; one is refused only when    *)
(* the places are gone.                                                    *)
(***************************************************************************)
EXTENDS Naturals

CONSTANTS Max, Window

VARIABLES
    open,           \* a window is open
    granted,        \* places taken in the last window
    admitted,       \* requests let through of those that took one
    full,           \* a request of the open window found no place
    age             \* ticks since the last window opened, at most Window

windowVars == <<open, granted, admitted, full, age>>

Init ==
    /\ open = FALSE
    /\ granted = 0
    /\ admitted = 0
    /\ full = FALSE
    /\ age = Window

Begin ==
    /\ ~open
    /\ open' = TRUE
    /\ granted' = 1
    /\ admitted' = 0
    /\ age' = 0
    /\ UNCHANGED full

Grant ==
    /\ open
    /\ ~full
    /\ granted < Max
    /\ granted' = granted + 1
    /\ UNCHANGED <<open, admitted, full, age>>

Refuse ==
    /\ open
    /\ granted = Max
    /\ full' = TRUE
    /\ UNCHANGED <<open, granted, admitted, age>>

\* The window may be closed by then; the next one takes no notice.
Admit ==
    /\ admitted < granted
    /\ admitted' = admitted + 1
    /\ UNCHANGED <<open, granted, full, age>>

\* The window may close once it is old enough; it may also stay
Tick ==
    /\ age' = IF age = Window THEN age ELSE age + 1
    /\ \/ UNCHANGED <<open, full>>
       \/ open /\ age' = Window /\ open' = FALSE /\ full' = FALSE
    /\ UNCHANGED <<granted, admitted>>

Next == Begin \/ Grant \/ Refuse \/ Admit \/ Tick

Spec == Init /\ [][Next]_windowVars
=============================================================================
