------------------------- MODULE OptionsCache_proofs ------------------------
(* Copies of the options follow the table, for any options and threads.      *)
EXTENDS OptionsCache, TLAPS

\* A mailer looks up the options for an option it has not read yet.
LookupsAreWanted == \A m \in Mailers : lookup[m] # Idle => Wants(m)

\* What a lookup found is the table, until a save commits.
LookupOK(t) == lookup[t].at = "listed" => lookup[t].rows = table

\* So is what a mailer has read so far.
MailerOK(m) ==
    /\ mailer[m].at = "reading" => \A k \in 1..Len(mailer[m].got) : mailer[m].got[k] = table[k]
    /\ mailer[m].at = "building" => mailer[m].config = table

Current ==
    /\ \A t \in Threads \ overlapped : LookupOK(t)
    /\ \A m \in Mailers \ mixed : MailerOK(m)

\* A copy that is there though a save has cleared it was set since.
ClearedOK(c, copy) == copy # Nothing =>
    \A s \in Savers : saver[s].at = "publishing" /\ c \notin saver[s].left => c \in early

CopyOK(c, copy) == Follows(c, copy) /\ ClearedOK(c, copy)

CopiesOK == CopyOK("cache", cache) /\ CopyOK("props", props) /\ CopyOK("sender", sender)

IInv == TypeOK /\ LookupsAreWanted /\ Current /\ CopiesOK

----------------------------------------------------------------------------
(* Types.                                                                    *)

\* The threads, by where they are.
LEMMA SaverShape ==
    ASSUME TypeOK, NEW s \in Savers
    PROVE  /\ saver[s].at \in {"compared", "publishing"} =>
                saver[s].wanted \in Table /\ saver[s].create \in SUBSET Keys
           /\ saver[s].at = "publishing" => saver[s].left \in SUBSET Copies
  BY DEF TypeOK, Saver, Idle, Done

\* A saver inside its transaction, and what it becomes.
LEMMA PublishingShape ==
    ASSUME TypeOK, NEW s \in Savers, saver[s].at \in {"compared", "publishing"},
           NEW left \in SUBSET Copies, Publishing(s, left)
    PROVE  /\ saver' \in [Savers -> Saver]
           /\ saver'[s].at = "publishing" /\ saver'[s].left = left
           /\ \A o \in Savers \ {s} : saver'[o] = saver[o]
<1> DEFINE state == [at |-> "publishing", wanted |-> saver[s].wanted,
                     create |-> saver[s].create, left |-> left]
<1>1. state \in Saver
  BY SaverShape DEF Saver
<1>2. saver' = [saver EXCEPT ![s] = state]
  BY DEF Publishing
<1>3. saver'[s] = state
  BY <1>2 DEF TypeOK
<1> QED
  BY <1>1, <1>2, <1>3 DEF TypeOK

LEMMA LookupShape ==
    ASSUME TypeOK, NEW t \in Threads, lookup[t].at = "listed"
    PROVE  lookup[t].rows \in Table
  BY DEF TypeOK, Lookup, Idle

LEMMA MailerShape ==
    ASSUME TypeOK, NEW m \in Mailers
    PROVE  /\ mailer[m].at = "reading" =>
                mailer[m] \in [at: {"reading"}, got: Seq(Values \cup {NoRow})]
           /\ mailer[m].at = "building" => mailer[m].config \in Table
  BY DEF TypeOK, Mailer, Idle, Done

\* A save writes values to options and clears copies.
LEMMA TypeSave ==
    ASSUME TypeOK, NEW s \in Savers, Save(s)
    PROVE  TypeOK'
<1> USE DEF Saver, Idle, Done, copies, history
<1>1. ASSUME NEW wanted \in Table, Compare(s, wanted) PROVE TypeOK'
  <2> DEFINE saved == {k \in Keys : wanted[k] # NoRow /\ wanted[k] # table[k]}
             state == [at |-> "compared",
                       wanted |-> [k \in Keys |-> IF k \in saved THEN wanted[k] ELSE NoRow],
                       create |-> {k \in saved : table[k] = NoRow}]
  <2>1. state.wanted \in Table
    BY DEF Table
  <2>2. state \in Saver
    BY <2>1 DEF Saver
  <2>3. saver' = [saver EXCEPT ![s] = state]
    BY <1>1 DEF Compare
  <2> QED
    BY <1>1, <2>2, <2>3 DEF Compare, TypeOK
<1>2. CASE WriteBatches(s)
  <2>1. saver' \in [Savers -> Saver]
    BY <1>2, PublishingShape DEF WriteBatches
  <2> QED
    BY <1>2, <2>1 DEF WriteBatches, TypeOK
<1>3. CASE Commit(s)
  <2>1. saver[s].wanted \in Table /\ saver[s].create \in SUBSET Keys
    BY <1>3, SaverShape DEF Commit
  <2>2. table' \in Table
    BY <1>3, <2>1 DEF Commit, Table, TypeOK
  <2>3. twice' \subseteq Keys
    BY <1>3, <2>1 DEF Commit, TypeOK
  <2> QED
    BY <1>3, <2>2, <2>3 DEF Commit, TypeOK, Listing, Building
<1>4. CASE Rollback(s)
  BY <1>4 DEF Rollback, TypeOK
<1>5. ASSUME NEW copy \in Copies, Cleared(s, copy)
      PROVE  saver' \in [Savers -> Saver] /\ outdated' \subseteq Copies /\ early' \subseteq Copies
  <2>1. saver[s].left \ {copy} \in SUBSET Copies
    BY <1>5, SaverShape DEF Cleared
  <2> QED
    BY <1>5, <2>1, PublishingShape DEF Cleared, TypeOK
<1>6. CASE HandleOptionsUpdatedEvent(s)
  BY <1>5, <1>6 DEF HandleOptionsUpdatedEvent, Cleared, Copies, TypeOK
<1>7. CASE ClearSender(s)
  BY <1>5, <1>7 DEF ClearSender, Cleared, Copies, TypeOK
<1>8. CASE ClearProps(s)
  BY <1>5, <1>8 DEF ClearProps, Cleared, Copies, TypeOK
<1> QED
  BY <1>1, <1>2, <1>3, <1>4, <1>6, <1>7, <1>8 DEF Save

\* A mailer that looks up an option has one to read.
LEMMA MailerGets ==
    ASSUME TypeOK, NEW m \in Mailers, Wants(m), NEW rows \in Table, Got(m, rows)
    PROVE  /\ mailer' = [mailer EXCEPT ![m].got = Append(mailer[m].got, rows[Len(mailer[m].got) + 1])]
           /\ mailer'[m].at = "reading"
           /\ mailer'[m].got = Append(mailer[m].got, rows[Len(mailer[m].got) + 1])
           /\ mailer'[m].got \in Seq(Values \cup {NoRow})
           /\ mailer' \in [Mailers -> Mailer]
<1>1. mailer[m].at = "reading" /\ Len(mailer[m].got) < Options
  BY DEF Wants
<1>2. mailer[m] \in [at: {"reading"}, got: Seq(Values \cup {NoRow})]
  BY <1>1, MailerShape
<1>3. mailer' = [mailer EXCEPT ![m].got = Append(mailer[m].got, rows[Len(mailer[m].got) + 1])]
  BY DEF Got
<1>4. Len(mailer[m].got) + 1 \in Keys
  BY <1>1, <1>2, OptionsAreCounted DEF Keys
<1>5. rows[Len(mailer[m].got) + 1] \in Values \cup {NoRow}
  BY <1>4 DEF Table
<1>6. Append(mailer[m].got, rows[Len(mailer[m].got) + 1]) \in Seq(Values \cup {NoRow})
  BY <1>2, <1>5
<1>7. mailer'[m] = [at |-> "reading", got |-> Append(mailer[m].got, rows[Len(mailer[m].got) + 1])]
  BY <1>2, <1>3 DEF TypeOK
<1>8. mailer'[m] \in Mailer
  BY <1>6, <1>7 DEF Mailer
<1> QED
  BY <1>3, <1>6, <1>7, <1>8 DEF TypeOK

LEMMA TypeList ==
    ASSUME TypeOK, LookupsAreWanted, NEW t \in Threads, ListOptions(t)
    PROVE  TypeOK'
<1> USE DEF Lookup, Idle, Done, copies, history
<1>1. CASE Miss(t)
  BY <1>1 DEF Miss, TypeOK
<1>2. CASE List(t)
  BY <1>2 DEF List, TypeOK, AddIf
<1>3. CASE Store(t)
  <2>1. lookup[t].rows \in Table
    BY <1>3, LookupShape DEF Store
  <2>2. mailer' \in [Mailers -> Mailer]
    <3>1. CASE t \in Mailers
      BY <1>3, <2>1, <3>1, MailerGets DEF Store, LookupsAreWanted
    <3>2. CASE t \notin Mailers
      BY <1>3, <3>2 DEF Store, Got, TypeOK
    <3> QED
      BY <3>1, <3>2
  <2> QED
    BY <1>3, <2>1, <2>2 DEF Store, Sets, TypeOK, AddIf, Copies
<1>4. CASE LookupFails(t)
  BY <1>4 DEF LookupFails, TypeOK, Leave, Moves, Mailer
<1> QED
  BY <1>1, <1>2, <1>3, <1>4 DEF ListOptions

LEMMA TypeMail ==
    ASSUME TypeOK, NEW m \in Mailers, SendMail(m)
    PROVE  TypeOK'
<1> USE DEF Idle, Done, copies, history, Moves, Leave
<1>1. CASE Enter(m)
  BY <1>1 DEF Enter, TypeOK, Mailer
<1>2. CASE GetMailProperties(m)
  <2>1. <<>> \in Seq(Values \cup {NoRow})
    OBVIOUS
  <2> QED
    BY <1>2, <2>1 DEF GetMailProperties, TypeOK, Mailer, AddIf
<1>3. CASE Hit(m)
  <2>1. cache \in Table
    BY <1>3 DEF Hit, TypeOK
  <2>2. mailer' \in [Mailers -> Mailer]
    BY <1>3, <2>1, MailerGets DEF Hit
  <2> QED
    BY <1>3, <2>2 DEF Hit, TypeOK, AddIf
<1>4. CASE SetProps(m)
  <2>1. mailer[m].got \in Table
    BY <1>4, MailerShape, OptionsAreCounted DEF SetProps, Table, Keys
  <2> QED
    BY <1>4, <2>1 DEF SetProps, Sets, TypeOK, Mailer, AddIf, Copies
<1>5. CASE ReturnProps(m)
  <2>1. mailer' \in [Mailers -> Mailer] /\ monitor' \in Mailers \cup {Nothing}
    BY <1>5 DEF ReturnProps, TypeOK, Mailer
  <2> QED
    BY <1>5, <2>1 DEF ReturnProps, TypeOK, AddIf
<1>6. CASE SetSender(m)
  BY <1>6, MailerShape DEF SetSender, Sets, TypeOK, Mailer, AddIf, Copies
<1>7. CASE ReturnSender(m)
  BY <1>7 DEF ReturnSender, TypeOK, Mailer
<1> QED
  BY <1>1, <1>2, <1>3, <1>4, <1>5, <1>6, <1>7 DEF SendMail

----------------------------------------------------------------------------
(* Lookups and the options that mailers wait for.                            *)

LEMMA WantedSave ==
    ASSUME LookupsAreWanted, NEW s \in Savers, Save(s)
    PROVE  LookupsAreWanted'
<1>1. UNCHANGED <<lookup, mailer>>
  BY DEF Save, Compare, WriteBatches, Commit, Rollback, HandleOptionsUpdatedEvent,
         ClearSender, ClearProps, Cleared
<1> QED
  BY <1>1 DEF LookupsAreWanted, Wants

LEMMA WantedList ==
    ASSUME TypeOK, LookupsAreWanted, NEW t \in Threads, ListOptions(t)
    PROVE  LookupsAreWanted'
<1>1. \A u \in Threads \ {t} : lookup'[u] = lookup[u]
  BY DEF ListOptions, Miss, List, Store, LookupFails, TypeOK
<1>2. \A m \in Mailers \ {t} : mailer'[m] = mailer[m]
  BY DEF ListOptions, Miss, List, Store, LookupFails, TypeOK, Got, Leave, Moves
<1>3. CASE t \in Mailers /\ lookup'[t] # Idle
  <2>1. mailer' = mailer /\ Wants(t)
    BY <1>3 DEF ListOptions, Miss, List, Store, LookupFails, TypeOK, LookupsAreWanted, Idle
  <2> QED
    BY <1>1, <1>2, <2>1 DEF LookupsAreWanted, Wants, Threads
<1>4. CASE t \notin Mailers \/ lookup'[t] = Idle
  BY <1>1, <1>2, <1>4 DEF LookupsAreWanted, Wants, Threads
<1> QED
  BY <1>3, <1>4

LEMMA WantedMail ==
    ASSUME TypeOK, LookupsAreWanted, NEW m \in Mailers, SendMail(m)
    PROVE  LookupsAreWanted'
<1>1. UNCHANGED lookup
  BY DEF SendMail, Enter, GetMailProperties, Hit, SetProps, ReturnProps, SetSender, ReturnSender
<1>2. \A n \in Mailers \ {m} : mailer'[n] = mailer[n]
  BY DEF SendMail, Enter, GetMailProperties, Hit, SetProps, ReturnProps, SetSender,
         ReturnSender, Got, Leave, Moves, TypeOK
<1>3. lookup[m] = Idle
  BY DEF SendMail, Enter, GetMailProperties, Hit, SetProps, ReturnProps, SetSender,
         ReturnSender, LookupsAreWanted, Wants, Idle
<1> QED
  BY <1>1, <1>2, <1>3 DEF LookupsAreWanted, Wants

----------------------------------------------------------------------------
(* The savers: the table changes when they commit, after the clearing.       *)

LEMMA CurrentSave ==
    ASSUME TypeOK, Current, NEW s \in Savers, Save(s)
    PROVE  Current'
<1>1. CASE Commit(s)
  BY <1>1 DEF Commit, Current, LookupOK, MailerOK, Listing, Building
<1>2. CASE ~Commit(s)
  <2>1. UNCHANGED <<table, lookup, mailer, overlapped, mixed>>
    BY <1>2 DEF Save, Compare, WriteBatches, Rollback, HandleOptionsUpdatedEvent, ClearSender,
       ClearProps, Cleared, history
  <2> QED
    BY <2>1 DEF Current, LookupOK, MailerOK
<1> QED
  BY <1>1, <1>2

\* A copy that a step leaves alone.
LEMMA CopyStays ==
    ASSUME NEW c \in Copies, NEW copy, CopyOK(c, copy), UNCHANGED table,
           c \in outdated => c \in outdated', c \in early => c \in early',
           \A s \in Savers : saver'[s].at = "publishing" /\ c \notin saver'[s].left
               => saver[s].at = "publishing" /\ c \notin saver[s].left
    PROVE  /\ copy \in {table', Nothing} \/ c \in outdated'
           /\ copy # Nothing => \A s \in Savers :
                 saver'[s].at = "publishing" /\ c \notin saver'[s].left => c \in early'
  BY DEF CopyOK, Follows, ClearedOK

\* Whoever clears a copy clears no other, and who commits finds what is left of
\* the clearing in early.
LEMMA CopySave ==
    ASSUME TypeOK, NEW s \in Savers, Save(s), NEW c \in Copies, NEW copy, CopyOK(c, copy),
           c = "cache" => ~HandleOptionsUpdatedEvent(s),
           c = "sender" => ~ClearSender(s),
           c = "props" => ~ClearProps(s)
    PROVE  /\ copy \in {table', Nothing} \/ c \in outdated'
           /\ copy # Nothing => \A o \in Savers :
                 saver'[o].at = "publishing" /\ c \notin saver'[o].left => c \in early'
<1> USE DEF history
<1>1. ASSUME NEW wanted \in Table, Compare(s, wanted)
      PROVE  \A o \in Savers : saver'[o].at = "publishing" => saver'[o] = saver[o]
  BY <1>1 DEF Compare, TypeOK
<1>2. CASE \E wanted \in Table : Compare(s, wanted)
  <2>1. UNCHANGED <<table, outdated, early>>
    BY <1>2 DEF Compare
  <2> QED
    BY <1>1, <1>2, <2>1, CopyStays
<1>3. CASE WriteBatches(s)
  <2>1. /\ saver'[s].left = Copies
        /\ \A o \in Savers \ {s} : saver'[o] = saver[o]
    BY <1>3, PublishingShape DEF WriteBatches
  <2>2. UNCHANGED <<table, outdated, early>>
    BY <1>3 DEF WriteBatches
  <2> QED
    BY <2>1, <2>2, CopyStays
<1>4. CASE Commit(s)
  <2>1. copy # Nothing => c \in early
    BY <1>4 DEF Commit, CopyOK, ClearedOK
  <2> QED
    BY <1>4, <2>1 DEF Commit
<1>5. CASE Rollback(s)
  <2>1. \A o \in Savers : saver'[o].at = "publishing" => saver'[o] = saver[o]
    BY <1>5 DEF Rollback, TypeOK, Done
  <2>2. UNCHANGED <<table, outdated, early>>
    BY <1>5 DEF Rollback
  <2> QED
    BY <2>1, <2>2, CopyStays
<1>6. ASSUME NEW d \in Copies \ {c}, Cleared(s, d)
      PROVE  /\ copy \in {table', Nothing} \/ c \in outdated'
             /\ copy # Nothing => \A o \in Savers :
                   saver'[o].at = "publishing" /\ c \notin saver'[o].left => c \in early'
  <2>1. saver[s].left \ {d} \in SUBSET Copies
    BY <1>6, SaverShape DEF Cleared
  <2>2. /\ saver[s].at = "publishing" /\ saver'[s].left = saver[s].left \ {d}
        /\ \A o \in Savers \ {s} : saver'[o] = saver[o]
    BY <1>6, <2>1, PublishingShape DEF Cleared
  <2>3. /\ UNCHANGED table
        /\ c \in outdated => c \in outdated'
        /\ c \in early => c \in early'
    BY <1>6 DEF Cleared
  <2> QED
    BY <2>2, <2>3, CopyStays
<1>7. CASE HandleOptionsUpdatedEvent(s) \/ ClearSender(s) \/ ClearProps(s)
  BY <1>6, <1>7 DEF HandleOptionsUpdatedEvent, ClearSender, ClearProps, Copies
<1> QED
  BY <1>2, <1>3, <1>4, <1>5, <1>7 DEF Save

LEMMA CopiesSave ==
    ASSUME TypeOK, CopiesOK, NEW s \in Savers, Save(s)
    PROVE  CopiesOK'
<1>1. CopyOK("cache", cache)'
  <2>1. CASE HandleOptionsUpdatedEvent(s)
    BY <2>1 DEF HandleOptionsUpdatedEvent, CopyOK, Follows, ClearedOK
  <2>2. CASE ~HandleOptionsUpdatedEvent(s)
    <3>1. cache' = cache
      BY <2>2 DEF Save, Compare, WriteBatches, Commit, Rollback, ClearProps, ClearSender, copies
    <3> QED
      BY <2>2, <3>1, CopySave DEF Copies, CopiesOK, CopyOK, Follows, ClearedOK
  <2> QED
    BY <2>1, <2>2
<1>2. CopyOK("props", props)'
  <2>1. CASE ClearProps(s)
    BY <2>1 DEF ClearProps, CopyOK, Follows, ClearedOK
  <2>2. CASE ~ClearProps(s)
    <3>1. props' = props
      BY <2>2 DEF Save, Compare, WriteBatches, Commit, Rollback, ClearSender, HandleOptionsUpdatedEvent, copies
    <3> QED
      BY <2>2, <3>1, CopySave DEF Copies, CopiesOK, CopyOK, Follows, ClearedOK
  <2> QED
    BY <2>1, <2>2
<1>3. CopyOK("sender", sender)'
  <2>1. CASE ClearSender(s)
    BY <2>1 DEF ClearSender, CopyOK, Follows, ClearedOK
  <2>2. CASE ~ClearSender(s)
    <3>1. sender' = sender
      BY <2>2 DEF Save, Compare, WriteBatches, Commit, Rollback, ClearProps, HandleOptionsUpdatedEvent, copies
    <3> QED
      BY <2>2, <3>1, CopySave DEF Copies, CopiesOK, CopyOK, Follows, ClearedOK
  <2> QED
    BY <2>1, <2>2
<1> QED
  BY <1>1, <1>2, <1>3 DEF CopiesOK

----------------------------------------------------------------------------
(* Lookups and mails.                                                        *)

\* A copy that is set from what is the table or is on record.
LEMMA CopySet ==
    ASSUME NEW c \in Copies, NEW copy, NEW old, UNCHANGED <<table, saver>>,
           Sets(c, old), ~old => copy = table
    PROVE  /\ copy \in {table', Nothing} \/ c \in outdated'
           /\ \A s \in Savers : saver'[s].at = "publishing" /\ c \notin saver'[s].left => c \in early'
  BY DEF Sets, AddIf

\* The others are left alone.
LEMMA SetsOther ==
    ASSUME NEW c \in Copies, NEW d \in Copies \ {c}, NEW old, Sets(d, old)
    PROVE  (c \in outdated => c \in outdated') /\ (c \in early => c \in early')
  BY DEF Sets, AddIf

\* What a mailer gets next is in the table if what it got before is.
LEMMA MailerKeepsUp ==
    ASSUME TypeOK, NEW m \in Mailers, Wants(m), Got(m, table), MailerOK(m),
           UNCHANGED <<table, saver>>
    PROVE  MailerOK(m)'
<1> DEFINE got == mailer[m].got
<1>1. mailer[m].at = "reading" /\ got \in Seq(Values \cup {NoRow})
  BY MailerShape DEF Wants
<1>2. mailer'[m].at = "reading" /\ mailer'[m].got = Append(got, table[Len(got) + 1])
  BY MailerGets DEF TypeOK
<1>3. \A k \in 1..Len(got) : got[k] = table[k]
  BY <1>1 DEF MailerOK
<1>4. \A k \in 1..Len(mailer'[m].got) : mailer'[m].got[k] = table[k]
  BY <1>1, <1>2, <1>3
<1> QED
  BY <1>2, <1>4 DEF MailerOK

\* Steps that leave a thread's knowledge alone.
LEMMA OthersKeepUp ==
    ASSUME UNCHANGED <<table, saver>>, Current,
           overlapped \subseteq overlapped' \cup {t \in Threads : lookup'[t] = Idle},
           \A t \in Threads \ overlapped' : lookup'[t] # lookup[t] => LookupOK(t)',
           \A m \in Mailers \ mixed' : m \in mixed \/ mailer'[m] # mailer[m] => MailerOK(m)'
    PROVE  Current'
<1>1. ASSUME NEW t \in Threads \ overlapped' PROVE LookupOK(t)'
  BY <1>1 DEF Current, LookupOK, Idle
<1>2. ASSUME NEW m \in Mailers \ mixed' PROVE MailerOK(m)'
  BY <1>2 DEF Current, MailerOK
<1> QED
  BY <1>1, <1>2 DEF Current

LEMMA CurrentList ==
    ASSUME TypeOK, LookupsAreWanted, Current, NEW t \in Threads, ListOptions(t)
    PROVE  Current'
<1> USE DEF history
<1>1. CASE Miss(t)
  BY <1>1, OthersKeepUp DEF Miss, TypeOK, LookupOK
<1>2. CASE List(t)
  <2>1. \A u \in Threads \ overlapped' : lookup'[u] # lookup[u] => LookupOK(u)'
    BY <1>2 DEF List, TypeOK, LookupOK
  <2> QED
    BY <1>2, <2>1, OthersKeepUp DEF List
<1>3. CASE Store(t)
  <2>1. \A u \in Threads \ overlapped' : lookup'[u] # lookup[u] => LookupOK(u)'
    BY <1>3 DEF Store, TypeOK, LookupOK, Idle
  <2>2. overlapped \subseteq overlapped' \cup {u \in Threads : lookup'[u] = Idle}
    BY <1>3 DEF Store, TypeOK
  <2>3. ASSUME NEW m \in Mailers \ mixed', m \in mixed \/ mailer'[m] # mailer[m] PROVE MailerOK(m)'
    <3>1. m = t
      BY <1>3, <2>3 DEF Store, Got, TypeOK
    <3>2. m \notin overlapped /\ m \notin mixed
      BY <1>3, <2>3, <3>1 DEF Store
    <3>3. lookup[t].rows = table
      BY <1>3, <3>1, <3>2 DEF Store, Current, LookupOK
    <3>4. MailerOK(m) /\ Wants(m)
      BY <1>3, <3>1, <3>2 DEF Store, Current, LookupsAreWanted, Idle
    <3> QED
      BY <1>3, <3>1, <3>3, <3>4, MailerKeepsUp DEF Store
  <2> QED
    BY <1>3, <2>1, <2>2, <2>3, OthersKeepUp DEF Store
<1>4. CASE LookupFails(t)
  <2>1. \A u \in Threads \ overlapped' : lookup'[u] # lookup[u] => LookupOK(u)'
    BY <1>4 DEF LookupFails, TypeOK, LookupOK, Idle
  <2>2. overlapped \subseteq overlapped' \cup {u \in Threads : lookup'[u] = Idle}
    BY <1>4 DEF LookupFails, TypeOK
  <2>3. \A m \in Mailers \ mixed' : m \in mixed \/ mailer'[m] # mailer[m] => MailerOK(m)'
    BY <1>4 DEF LookupFails, TypeOK, Leave, Moves, MailerOK, Building, Done
  <2> QED
    BY <1>4, <2>1, <2>2, <2>3, OthersKeepUp DEF LookupFails
<1> QED
  BY <1>1, <1>2, <1>3, <1>4 DEF ListOptions

LEMMA CopiesList ==
    ASSUME TypeOK, Current, CopiesOK, NEW t \in Threads, ListOptions(t)
    PROVE  CopiesOK'
<1> USE DEF copies, history
<1>1. UNCHANGED <<table, saver, props, sender>>
  BY DEF ListOptions, Miss, List, Store, LookupFails
<1>2. CASE Store(t)
  <2>1. CopyOK("cache", cache)'
    <3>1. t \notin overlapped => lookup[t].rows = table
      BY <1>2 DEF Store, Current, LookupOK
    <3>2. Sets("cache", t \in overlapped) /\ cache' = lookup[t].rows
      BY <1>2 DEF Store
    <3> QED
      BY <1>1, <3>1, <3>2, CopySet DEF CopyOK, Follows, ClearedOK, Copies
  <2>2. \A c \in {"props", "sender"} :
           (c \in outdated => c \in outdated') /\ (c \in early => c \in early')
    BY <1>2, SetsOther DEF Store, Copies
  <2>3. CopyOK("props", props)' /\ CopyOK("sender", sender)'
    BY <1>1, <2>2, CopyStays DEF CopiesOK, CopyOK, Follows, ClearedOK, Copies
  <2> QED
    BY <2>1, <2>3 DEF CopiesOK
<1>3. CASE ~Store(t)
  <2>1. UNCHANGED <<cache, outdated, early>>
    BY <1>3 DEF ListOptions, Miss, List, LookupFails
  <2> QED
    BY <1>1, <2>1 DEF CopiesOK, CopyOK, Follows, ClearedOK
<1> QED
  BY <1>2, <1>3

LEMMA CurrentMail ==
    ASSUME TypeOK, Current, CopiesOK, NEW m \in Mailers, SendMail(m)
    PROVE  Current'
<1> USE DEF copies, history
<1>1. UNCHANGED <<table, saver, lookup, overlapped>>
  BY DEF SendMail, Enter, GetMailProperties, Hit, SetProps, ReturnProps, SetSender, ReturnSender
<1>2. mixed \subseteq mixed' \cup {m}
  BY DEF SendMail, Enter, GetMailProperties, Hit, SetProps, ReturnProps, SetSender, ReturnSender, AddIf
<1>3. \A n \in Mailers : n # m => mailer'[n] = mailer[n]
  BY DEF SendMail, Enter, GetMailProperties, Hit, SetProps, ReturnProps, SetSender,
         ReturnSender, Got, Leave, Moves, TypeOK
<1>4. ASSUME m \notin mixed' PROVE MailerOK(m)'
  <2>1. CASE Enter(m)
    BY <2>1 DEF Enter, Moves, TypeOK, MailerOK
  <2>2. CASE GetMailProperties(m)
    BY <1>1, <2>2 DEF GetMailProperties, Moves, TypeOK, MailerOK
  <2>3. CASE Hit(m)
    <3>1. "cache" \notin outdated
      BY <1>4, <2>3 DEF Hit, AddIf
    <3>2. cache = table
      BY <2>3, <3>1 DEF Hit, CopiesOK, CopyOK, Follows
    <3>3. MailerOK(m)
      BY <1>4, <2>3 DEF Hit, Current, AddIf
    <3> QED
      BY <1>1, <2>3, <3>2, <3>3, MailerKeepsUp DEF Hit
  <2>4. CASE SetProps(m)
    BY <1>1, <2>4 DEF SetProps, Moves, TypeOK, MailerOK
  <2>5. CASE ReturnProps(m)
    <3>1. props = Nothing \/ "props" \notin outdated
      BY <1>4, <2>5 DEF ReturnProps, AddIf
    <3>2. props # Nothing => props = table
      BY <3>1 DEF CopiesOK, CopyOK, Follows
    <3> QED
      BY <1>1, <2>5, <3>2 DEF ReturnProps, Moves, Leave, Done, TypeOK, MailerOK
  <2>6. CASE SetSender(m)
    BY <2>6 DEF SetSender, Moves, TypeOK, MailerOK
  <2>7. CASE ReturnSender(m)
    BY <2>7 DEF ReturnSender, Moves, Leave, Done, TypeOK, MailerOK
  <2> QED
    BY <2>1, <2>2, <2>3, <2>4, <2>5, <2>6, <2>7 DEF SendMail
<1> QED
  BY <1>1, <1>2, <1>3, <1>4, OthersKeepUp

LEMMA CopiesMail ==
    ASSUME TypeOK, Current, CopiesOK, NEW m \in Mailers, SendMail(m)
    PROVE  CopiesOK'
<1> USE DEF copies, history
<1>1. UNCHANGED <<table, saver, cache>>
  BY DEF SendMail, Enter, GetMailProperties, Hit, SetProps, ReturnProps, SetSender, ReturnSender
<1>2. CASE SetProps(m)
  <2>1. m \notin mixed => props' = table
    <3>1. mailer[m].got \in Seq(Values \cup {NoRow}) /\ Len(mailer[m].got) = Options
      BY <1>2, MailerShape DEF SetProps
    <3>2. mailer[m].got \in [Keys -> Values \cup {NoRow}]
      BY <3>1, OptionsAreCounted DEF Keys
    <3>3. m \notin mixed => \A k \in Keys : mailer[m].got[k] = table[k]
      BY <1>2, <3>1 DEF SetProps, Current, MailerOK, Keys
    <3> QED
      BY <1>2, <3>2, <3>3 DEF SetProps, TypeOK, Table
  <2>2. Sets("props", m \in mixed) /\ UNCHANGED sender
    BY <1>2 DEF SetProps
  <2>3. CopyOK("props", props)'
    BY <1>1, <2>1, <2>2, CopySet DEF CopyOK, Follows, ClearedOK, Copies
  <2>4. \A c \in {"cache", "sender"} :
           (c \in outdated => c \in outdated') /\ (c \in early => c \in early')
    BY <2>2, SetsOther DEF Copies
  <2>5. CopyOK("cache", cache)' /\ CopyOK("sender", sender)'
    BY <1>1, <2>2, <2>4, CopyStays DEF CopiesOK, CopyOK, Follows, ClearedOK, Copies
  <2> QED
    BY <2>3, <2>5 DEF CopiesOK
<1>3. CASE SetSender(m)
  <2>1. m \notin mixed => sender' = table
    BY <1>3 DEF SetSender, Current, MailerOK
  <2>2. Sets("sender", m \in mixed) /\ UNCHANGED props
    BY <1>3 DEF SetSender
  <2>3. CopyOK("sender", sender)'
    BY <1>1, <2>1, <2>2, CopySet DEF CopyOK, Follows, ClearedOK, Copies
  <2>4. \A c \in {"cache", "props"} :
           (c \in outdated => c \in outdated') /\ (c \in early => c \in early')
    BY <2>2, SetsOther DEF Copies
  <2>5. CopyOK("cache", cache)' /\ CopyOK("props", props)'
    BY <1>1, <2>2, <2>4, CopyStays DEF CopiesOK, CopyOK, Follows, ClearedOK, Copies
  <2> QED
    BY <2>3, <2>5 DEF CopiesOK
<1>4. CASE ~SetProps(m) /\ ~SetSender(m)
  <2>1. UNCHANGED <<props, sender, outdated, early>>
    BY <1>4 DEF SendMail, Enter, GetMailProperties, Hit, ReturnProps, ReturnSender
  <2> QED
    BY <1>1, <2>1 DEF CopiesOK, CopyOK, Follows, ClearedOK
<1> QED
  BY <1>2, <1>3, <1>4

----------------------------------------------------------------------------
(* The invariant.                                                            *)

LEMMA InitIInv == Init => IInv
<1> SUFFICES ASSUME Init PROVE IInv
  OBVIOUS
<1>1. TypeOK
  BY DEF Init, TypeOK, Saver, Lookup, Mailer
<1>2. LookupsAreWanted
  BY DEF Init, LookupsAreWanted, Threads
<1>3. Current
  BY DEF Init, Current, LookupOK, MailerOK, Idle
<1>4. CopiesOK
  BY DEF Init, CopiesOK, CopyOK, Follows, ClearedOK
<1> QED
  BY <1>1, <1>2, <1>3, <1>4 DEF IInv

LEMMA NextIInv == IInv /\ [Next]_vars => IInv'
<1> SUFFICES ASSUME IInv, [Next]_vars PROVE IInv'
  OBVIOUS
<1> USE DEF IInv
<1>1. ASSUME NEW s \in Savers, Save(s) PROVE IInv'
  BY <1>1, TypeSave, WantedSave, CurrentSave, CopiesSave
<1>2. ASSUME NEW t \in Threads, ListOptions(t) PROVE IInv'
  BY <1>2, TypeList, WantedList, CurrentList, CopiesList
<1>3. ASSUME NEW m \in Mailers, SendMail(m) PROVE IInv'
  BY <1>3, TypeMail, WantedMail, CurrentMail, CopiesMail
<1>4. CASE UNCHANGED vars
  BY <1>4 DEF vars, copies, history, TypeOK, LookupsAreWanted, Wants, Current, LookupOK, MailerOK,
         CopiesOK, CopyOK, Follows, ClearedOK
<1> QED
  BY <1>1, <1>2, <1>3, <1>4 DEF Next

THEOREM Invariant == Spec => []IInv
  BY InitIInv, NextIInv, PTL DEF Spec

\* Every variable keeps its type: got never grows beyond the options there are,
\* so that properties are complete before getMailProperties publishes them.
THEOREM TypeCorrect == Spec => []TypeOK
<1>1. IInv => TypeOK
  BY DEF IInv
<1> QED
  BY <1>1, Invariant, PTL

\* A copy of the options is the table that is committed, for any saves, lookups and
\* mails: who commits (save) has cleared every copy before, and a copy set between
\* that clearing and the commit, or from what was read before it, is on record.
THEOREM CopiesAreFollowing == Spec => []CopiesFollowTable
<1>1. IInv => CopiesFollowTable
  BY DEF IInv, CopiesOK, CopyOK, CopiesFollowTable
<1> QED
  BY <1>1, Invariant, PTL

----------------------------------------------------------------------------
(* The monitor.                                                              *)

\* A thread is in the synchronized methods of the mail service exactly while the
\* monitor is its own.
MonitorIsHeld == \A m \in Mailers : mailer[m].at \notin {"idle", "done"} <=> monitor = m

MonitorInv == IInv /\ MonitorIsHeld

LEMMA MonitorSave ==
    ASSUME MonitorIsHeld, NEW s \in Savers, Save(s)
    PROVE  MonitorIsHeld'
<1>1. UNCHANGED <<monitor, mailer>>
  BY DEF Save, Compare, WriteBatches, Commit, Rollback, HandleOptionsUpdatedEvent,
         ClearSender, ClearProps, Cleared
<1> QED
  BY <1>1 DEF MonitorIsHeld

\* A mailer whose lookup fails is reading, and so it has the monitor it gives back.
LEMMA MonitorList ==
    ASSUME IInv, MonitorIsHeld, NEW t \in Threads, ListOptions(t)
    PROVE  MonitorIsHeld'
<1>0. mailer \in [Mailers -> Mailer]
  BY DEF IInv, TypeOK
<1>1. CASE Miss(t) \/ List(t)
  BY <1>1 DEF Miss, List, MonitorIsHeld
<1>2. CASE Store(t)
  <2>1. monitor' = monitor /\ \A m \in Mailers : mailer'[m].at = mailer[m].at
    BY <1>0, <1>2, MailerShape DEF Store, Got, IInv, LookupsAreWanted, Wants, Idle
  <2> QED
    BY <2>1 DEF MonitorIsHeld
<1>3. CASE LookupFails(t)
  <2>1. CASE t \in Mailers
    <3>1. mailer[t].at = "reading"
      BY <1>3, <2>1 DEF LookupFails, IInv, LookupsAreWanted, Wants
    <3>2. mailer' = [mailer EXCEPT ![t] = Done] /\ monitor' = Nothing /\ monitor = t
      BY <1>3, <2>1, <3>1 DEF LookupFails, Leave, Moves, MonitorIsHeld
    <3> QED
      BY <1>0, <2>1, <3>2, NothingIsNoMailer DEF MonitorIsHeld, Done
  <2>2. CASE t \notin Mailers
    BY <1>3, <2>2 DEF LookupFails, MonitorIsHeld
  <2> QED
    BY <2>1, <2>2
<1> QED
  BY <1>1, <1>2, <1>3 DEF ListOptions

LEMMA MonitorMail ==
    ASSUME IInv, MonitorIsHeld, NEW m \in Mailers, SendMail(m)
    PROVE  MonitorIsHeld'
<1>0. mailer \in [Mailers -> Mailer]
  BY DEF IInv, TypeOK
<1>1. CASE Enter(m)
  BY <1>0, <1>1, NothingIsNoMailer DEF Enter, Moves, MonitorIsHeld
\* The steps in between stay inside.
<1>2. ASSUME NEW state, mailer' = [mailer EXCEPT ![m] = state], monitor' = monitor,
             mailer[m].at \notin {"idle", "done"}, state.at \notin {"idle", "done"}
      PROVE  MonitorIsHeld'
  BY <1>0, <1>2 DEF MonitorIsHeld
\* The last ones give the monitor back.
<1>3. ASSUME Leave(m), mailer[m].at \notin {"idle", "done"} PROVE MonitorIsHeld'
  BY <1>0, <1>3, NothingIsNoMailer DEF Leave, Moves, MonitorIsHeld, Done
<1>4. CASE GetMailProperties(m)
  BY <1>2, <1>4 DEF GetMailProperties, Moves
<1>5. CASE Hit(m)
  <2>1. monitor' = monitor /\ \A n \in Mailers : mailer'[n].at = mailer[n].at
    BY <1>0, <1>5, MailerShape DEF Hit, Got, Wants, IInv
  <2> QED
    BY <2>1 DEF MonitorIsHeld
<1>6. CASE SetProps(m)
  BY <1>2, <1>6 DEF SetProps, Moves
<1>7. CASE ReturnProps(m)
  BY <1>2, <1>3, <1>7 DEF ReturnProps, Moves
<1>8. CASE SetSender(m)
  BY <1>2, <1>8 DEF SetSender, Moves
<1>9. CASE ReturnSender(m)
  BY <1>3, <1>9 DEF ReturnSender
<1> QED
  BY <1>1, <1>4, <1>5, <1>6, <1>7, <1>8, <1>9 DEF SendMail

\* The mail service builds one sender at a time: two mails are never between the
\* entry and the exit of its synchronized methods together, and the monitor is
\* nobody's once no mail is, though every exception ends a mail half way.
THEOREM OneMailAtATime ==
    Spec => [](/\ \A m, n \in Mailers :
                     {mailer[m].at, mailer[n].at} \cap {"idle", "done"} = {} => m = n
               /\ monitor # Nothing <=> \E m \in Mailers : mailer[m].at \notin {"idle", "done"})
<1> DEFINE Alone == /\ \A m, n \in Mailers :
                          {mailer[m].at, mailer[n].at} \cap {"idle", "done"} = {} => m = n
                    /\ monitor # Nothing <=>
                          \E m \in Mailers : mailer[m].at \notin {"idle", "done"}
<1>1. Init => MonitorInv
  BY InitIInv, NothingIsNoMailer DEF MonitorInv, MonitorIsHeld, Init, Idle
<1>2. MonitorInv /\ [Next]_vars => MonitorInv'
  <2> SUFFICES ASSUME IInv, MonitorIsHeld, [Next]_vars PROVE MonitorIsHeld'
    BY NextIInv DEF MonitorInv
  <2>1. CASE UNCHANGED vars
    BY <2>1 DEF vars, MonitorIsHeld
  <2> QED
    BY <2>1, MonitorSave, MonitorList, MonitorMail DEF Next
<1>3. MonitorInv => Alone
  <2> SUFFICES ASSUME MonitorInv PROVE Alone
    OBVIOUS
  <2>1. \A m \in Mailers : mailer[m].at \notin {"idle", "done"} <=> monitor = m
    BY DEF MonitorInv, MonitorIsHeld
  <2>2. monitor \in Mailers \cup {Nothing}
    BY DEF MonitorInv, IInv, TypeOK
  <2> QED
    BY <2>1, <2>2, NothingIsNoMailer
<1> HIDE DEF Alone
<1>4. Spec => []Alone
  BY <1>1, <1>2, <1>3, PTL DEF Spec
<1> QED
  BY <1>4 DEF Alone
=============================================================================
