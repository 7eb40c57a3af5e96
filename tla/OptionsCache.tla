---------------------------- MODULE OptionsCache ----------------------------
(* Options live in a table.  listOptions keeps a copy of them in redis, and  *)
(* the mail service keeps the properties it read from that copy and the      *)
(* sender it built from them.  A save is one transaction: it writes the       *)
(* table, publishes an event whose listeners clear the three copies, one     *)
(* after the other, and only then commits what it wrote.                     *)
EXTENDS Integers, Sequences

CONSTANTS
    Options,      \* the number of options the mail service reads
    Values,
    NoRow,        \* an option without a row has its default
    Nothing,      \* null
    Savers,       \* threads of saves, each of which saves once
    Readers,      \* threads that list the options again and again
    Mailers       \* threads of the mail executor, each of which sends once

ASSUME OptionsAreCounted == Options \in Nat
ASSUME NoRowIsNoValue == NoRow \notin Values
ASSUME NothingIsNoTable == Nothing \notin [1..Options -> Values \cup {NoRow}]
ASSUME NothingIsNoMailer == Nothing \notin Mailers
ASSUME ThreadsDiffer == Readers \cap Mailers = {}

Keys == 1..Options
Table == [Keys -> Values \cup {NoRow}]

VARIABLES
    table,        \* the table options, as it is committed
    twice,        \* the options that two saves created, with two rows
    cache,        \* redis: the key of the options
    props,        \* cachedMailProperties
    sender,       \* cachedMailSender
    monitor,      \* the thread in a synchronized method of the mail service
    saver, lookup, mailer,  \* the threads
    early,        \* history: the copies set after a save cleared them, before its end
    overlapped,   \* history: the threads whose lookup read before a commit
    mixed,        \* history: the threads that build a mail sender out of such reads
    outdated      \* history: the copies that were set early or by such threads

copies == <<cache, props, sender>>
history == <<early, overlapped, mixed, outdated>>
vars == <<table, twice, copies, monitor, saver, lookup, mailer, history>>

Copies == {"cache", "props", "sender"}
Threads == Readers \cup Mailers

Idle == [at |-> "idle"]
Done == [at |-> "done"]

\* wanted is NoRow where there is nothing to save; left are the copies that the
\* listeners are still to clear.
Saver ==
    {Idle, Done}
      \cup [at: {"compared"}, wanted: Table, create: SUBSET Keys]
      \cup [at: {"publishing"}, wanted: Table, create: SUBSET Keys, left: SUBSET Copies]

Lookup == {Idle} \cup [at: {"missed"}] \cup [at: {"listed"}, rows: Table]

\* got are the values of the first options.
Mailer ==
    {Idle, Done}
      \cup [at: {"entered", "propsSet", "senderSet"}]
      \cup [at: {"reading"}, got: Seq(Values \cup {NoRow})]
      \cup [at: {"building"}, config: Table]

TypeOK ==
    /\ table \in Table
    /\ twice \subseteq Keys
    /\ cache \in Table \cup {Nothing}
    /\ props \in Table \cup {Nothing}
    /\ sender \in Table \cup {Nothing}
    /\ monitor \in Mailers \cup {Nothing}
    /\ saver \in [Savers -> Saver]
    /\ lookup \in [Threads -> Lookup]
    /\ mailer \in [Mailers -> Mailer]
    /\ early \subseteq Copies
    /\ overlapped \subseteq Threads
    /\ mixed \subseteq Mailers
    /\ outdated \subseteq Copies

Init ==
    /\ table \in Table
    /\ twice = {}
    /\ cache = Nothing
    /\ props = Nothing
    /\ sender = Nothing
    /\ monitor = Nothing
    /\ saver = [s \in Savers |-> Idle]
    /\ lookup = [t \in Threads |-> Idle]
    /\ mailer = [m \in Mailers |-> Idle]
    /\ early = {}
    /\ overlapped = {}
    /\ mixed = {}
    /\ outdated = {}

\* Lookups and builds that have read something.
Listing == {t \in Threads : lookup[t].at = "listed"}
Building == {m \in Mailers :
    \/ mailer[m].at = "reading" /\ mailer[m].got # <<>>
    \/ mailer[m].at = "building"}

AddIf(set, x, cond) == IF cond THEN set \cup {x} ELSE set

----------------------------------------------------------------------------
(* Saving.                                                                   *)

\* The options to save are told apart by the table that is committed.
Compare(s, wanted) ==
    LET saved == {k \in Keys : wanted[k] # NoRow /\ wanted[k] # table[k]}
    IN  /\ saver[s] = Idle
        /\ saved # {}
        /\ saver' = [saver EXCEPT ![s] =
               [at |-> "compared",
                wanted |-> [k \in Keys |-> IF k \in saved THEN wanted[k] ELSE NoRow],
                create |-> {k \in saved : table[k] = NoRow}]]
        /\ UNCHANGED <<table, twice, copies, monitor, lookup, mailer, history>>

ToSave(s) == {k \in Keys : saver[s].wanted[k] # NoRow}
ToUpdate(s) == ToSave(s) \ saver[s].create

\* The rows that another transaction updates are locked until it ends.
Unlocked(s) == \A o \in Savers \ {s} :
    saver[o].at = "publishing" => ToUpdate(s) \cap ToUpdate(o) = {}

Publishing(s, left) == saver' = [saver EXCEPT ![s] =
    [at |-> "publishing", wanted |-> saver[s].wanted, create |-> saver[s].create, left |-> left]]

\* Mutant: a save that updates nothing is not published.
WriteBatchesUnpublished(s) ==
    /\ saver[s].at = "compared"
    /\ Unlocked(s)
    /\ Publishing(s, IF ToUpdate(s) = {} THEN {} ELSE Copies)
    /\ UNCHANGED <<table, twice, copies, monitor, lookup, mailer, history>>

\* Both batches are written, for nobody else to see yet, and the event is published.
WriteBatches(s) ==
    /\ saver[s].at = "compared"
    /\ Unlocked(s)
    /\ Publishing(s, Copies)
    /\ UNCHANGED <<table, twice, copies, monitor, lookup, mailer, history>>

\* Of two rows for one option the first counts (putIfAbsent in convertToMap), and
\* it need not be the row that this save wrote.
Commit(s) ==
    LET again == twice \cup {k \in saver[s].create : table[k] # NoRow}
    IN  /\ saver[s].at = "publishing"
        /\ saver[s].left = {}
        /\ \E hidden \in SUBSET (again \cap ToSave(s)) :
               table' = [k \in Keys |->
                   IF k \in ToSave(s) \ hidden THEN saver[s].wanted[k] ELSE table[k]]
        /\ twice' = again
        /\ saver' = [saver EXCEPT ![s] = Done]
        /\ overlapped' = overlapped \cup Listing
        /\ mixed' = mixed \cup Building
        /\ outdated' = outdated \cup early
        /\ UNCHANGED <<copies, monitor, lookup, mailer, early>>

\* A batch, the listener with the call of redis, or the commit fails.
Rollback(s) ==
    /\ \/ saver[s].at = "compared"
       \/ saver[s].at = "publishing" /\ ("props" \in saver[s].left => "sender" \in saver[s].left)
    /\ saver' = [saver EXCEPT ![s] = Done]
    /\ UNCHANGED <<table, twice, copies, monitor, lookup, mailer, history>>

----------------------------------------------------------------------------
(* The listeners of the event, in the thread and transaction of the save.    *)
(* Nothing orders the two beans, and the mail service clears its fields      *)
(* without the monitor and without volatile.                                 *)

Cleared(s, copy) ==
    /\ saver[s].at = "publishing"
    /\ copy \in saver[s].left
    /\ Publishing(s, saver[s].left \ {copy})
    /\ early' = early \ {copy}
    /\ outdated' = outdated \ {copy}
    /\ UNCHANGED <<table, twice, monitor, lookup, mailer, overlapped, mixed>>

\* A thread sets a copy, from what is out of date or not.
Sets(copy, old) ==
    /\ early' = AddIf(early \ {copy}, copy,
           \E s \in Savers : saver[s].at = "publishing" /\ copy \notin saver[s].left)
    /\ outdated' = AddIf(outdated \ {copy}, copy, old)

HandleOptionsUpdatedEvent(s) ==
    /\ Cleared(s, "cache")
    /\ saver[s].left \in {Copies, {"cache"}}
    /\ cache' = Nothing
    /\ UNCHANGED <<props, sender>>

ClearSender(s) ==
    /\ Cleared(s, "sender")
    /\ sender' = Nothing
    /\ UNCHANGED <<cache, props>>

ClearProps(s) ==
    /\ Cleared(s, "props")
    /\ props' = Nothing
    /\ UNCHANGED <<cache, sender>>

----------------------------------------------------------------------------
(* listOptions: three calls when there is no copy in redis.                  *)

Wants(t) == t \in Mailers =>
    mailer[t].at = "reading" /\ Len(mailer[t].got) < Options

Miss(t) ==
    /\ Wants(t)
    /\ lookup[t] = Idle
    /\ cache = Nothing
    /\ lookup' = [lookup EXCEPT ![t] = [at |-> "missed"]]
    /\ UNCHANGED <<table, twice, copies, monitor, saver, mailer, history>>

List(t) ==
    /\ lookup[t].at = "missed"
    /\ lookup' = [lookup EXCEPT ![t] = [at |-> "listed", rows |-> table]]
    /\ UNCHANGED <<table, twice, copies, monitor, saver, mailer, history>>

\* The next option of a mailer.
Got(t, rows) ==
    mailer' = IF t \in Mailers
                THEN [mailer EXCEPT ![t].got = Append(@, rows[Len(@) + 1])]
                ELSE mailer

Store(t) ==
    /\ lookup[t].at = "listed"
    /\ cache' = lookup[t].rows
    /\ Got(t, lookup[t].rows)
    /\ lookup' = [lookup EXCEPT ![t] = Idle]
    /\ Sets("cache", t \in overlapped)
    /\ mixed' = mixed \cup (Mailers \cap overlapped \cap {t})
    /\ overlapped' = overlapped \ {t}
    /\ UNCHANGED <<table, twice, props, sender, monitor, saver>>

Hit(m) ==
    /\ Wants(m)
    /\ lookup[m] = Idle
    /\ cache # Nothing
    /\ Got(m, cache)
    /\ mixed' = AddIf(mixed, m, "cache" \in outdated)
    /\ UNCHANGED <<table, twice, copies, monitor, saver, lookup, early, overlapped, outdated>>

----------------------------------------------------------------------------
(* Mails.  Every read of a field is a step, as clearCache may come before.   *)

Moves(m, state) == mailer' = [mailer EXCEPT ![m] = state]

\* The thread ends with its mail sent, or with an exception.
Leave(m) ==
    /\ Moves(m, Done)
    /\ monitor' = Nothing

Enter(m) ==
    /\ mailer[m] = Idle
    /\ monitor = Nothing
    /\ monitor' = m
    /\ Moves(m, [at |-> IF sender = Nothing THEN "entered" ELSE "senderSet"])
    /\ UNCHANGED <<table, twice, copies, saver, lookup, history>>

GetMailProperties(m) ==
    /\ mailer[m].at = "entered"
    /\ Moves(m, IF props = Nothing THEN [at |-> "reading", got |-> <<>>] ELSE [at |-> "propsSet"])
    /\ UNCHANGED <<table, twice, copies, monitor, saver, lookup, history>>

SetProps(m) ==
    /\ mailer[m].at = "reading"
    /\ Len(mailer[m].got) = Options
    /\ props' = mailer[m].got
    /\ Moves(m, [at |-> "propsSet"])
    /\ Sets("props", m \in mixed)
    /\ mixed' = mixed \ {m}
    /\ UNCHANGED <<table, twice, cache, sender, monitor, saver, lookup, overlapped>>

\* Mutant: an exception does not release the monitor.
ReturnPropsLocked(m) ==
    /\ mailer[m].at = "propsSet"
    /\ Moves(m, IF props = Nothing THEN Done ELSE [at |-> "building", config |-> props])
    /\ mixed' = AddIf(mixed, m, props # Nothing /\ "props" \in outdated)
    /\ UNCHANGED <<table, twice, copies, monitor, saver, lookup, early, overlapped, outdated>>

\* The field is read again, and the factory throws for null.
ReturnProps(m) ==
    /\ mailer[m].at = "propsSet"
    /\ IF props = Nothing
         THEN Leave(m)
         ELSE Moves(m, [at |-> "building", config |-> props]) /\ UNCHANGED monitor
    /\ mixed' = AddIf(mixed, m, props # Nothing /\ "props" \in outdated)
    /\ UNCHANGED <<table, twice, copies, saver, lookup, early, overlapped, outdated>>

SetSender(m) ==
    /\ mailer[m].at = "building"
    /\ sender' = mailer[m].config
    /\ Moves(m, [at |-> "senderSet"])
    /\ Sets("sender", m \in mixed)
    /\ mixed' = mixed \ {m}
    /\ UNCHANGED <<table, twice, cache, props, monitor, saver, lookup, overlapped>>

\* Again the field is read again; null ends the mail with an exception.
ReturnSender(m) ==
    /\ mailer[m].at = "senderSet"
    /\ Leave(m)
    /\ UNCHANGED <<table, twice, copies, saver, lookup, history>>

\* A call of redis or of the database fails, and so does the mail it is for.
LookupFails(t) ==
    /\ lookup[t] # Idle
    /\ lookup' = [lookup EXCEPT ![t] = Idle]
    /\ IF t \in Mailers THEN Leave(t) ELSE UNCHANGED <<mailer, monitor>>
    /\ overlapped' = overlapped \ {t}
    /\ mixed' = mixed \ {t}
    /\ UNCHANGED <<table, twice, copies, saver, early, outdated>>

----------------------------------------------------------------------------
Save(s) ==
    \/ \E wanted \in Table : Compare(s, wanted)
    \/ WriteBatches(s) \/ Commit(s) \/ Rollback(s)
    \/ HandleOptionsUpdatedEvent(s) \/ ClearSender(s) \/ ClearProps(s)

ListOptions(t) == Miss(t) \/ List(t) \/ Store(t) \/ LookupFails(t)

SendMail(m) ==
    \/ Enter(m) \/ GetMailProperties(m) \/ Hit(m)
    \/ SetProps(m) \/ ReturnProps(m) \/ SetSender(m) \/ ReturnSender(m)

Next ==
    \/ \E s \in Savers : Save(s)
    \/ \E t \in Threads : ListOptions(t)
    \/ \E m \in Mailers : SendMail(m)

Spec == Init /\ [][Next]_vars

\* Threads of the executor that have started go on.
Fairness == \A m \in Mailers : WF_vars(SendMail(m) \/ ListOptions(m))

FairSpec == Spec /\ Fairness

----------------------------------------------------------------------------
(* Properties.                                                               *)

Follows(c, copy) == copy \in {table, Nothing} \/ c \in outdated

\* Each copy of the options, the sender that was built out of several copies and
\* several lookups included, is the table as it is committed, though the clearing
\* and the commit of a save are steps apart (the listeners of OptionsUpdatedEvent
\* before the end of save), unless it goes back to a read before the commit of a
\* save that was stored after that save cleared the copies.
CopiesFollowTable ==
    Follows("cache", cache) /\ Follows("props", props) /\ Follows("sender", sender)

\* A mail gets the monitor, and its thread comes to an end, though the copies it
\* works with may be cleared between any two of its steps (clearCache).
MailsEnd == \A m \in Mailers : <>(mailer[m] = Done)
=============================================================================
