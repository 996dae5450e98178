---------------------------- MODULE MetaDiffProofs ----------------------------
(***************************************************************************)
(* What MetaDiff guarantees for every set of ledger keys, every width of   *)
(* the integers, and metadata of every length.                             *)
(***************************************************************************)
EXTENDS MetaDiff, SequenceTheorems, TLAPS

-----------------------------------------------------------------------------
(***************************************************************************)
(* The inductive invariant.                                                *)
(***************************************************************************)
Types == {"state", "created", "updated", "restored", "removed", "malformed"}

\* The changes that a ledger records.
Records ==
  {c \in [type : Types, key : Keys, amount : Int] :
     /\ c.type \in {"state", "created", "updated", "restored"} => c.amount \in Amounts[c.key]
     /\ c.type = "removed" => c.amount = 0
     /\ c.type = "restored" => c.key \notin Tracked}

\* All of them, in the order in which they happened.
Log == sections["before"] \o sections["ops"] \o sections["after"]

WellFormed(log) == \A n \in DOMAIN log : log[n].type # "malformed"

\* What a log says of the entries before it and after it: an entry without a
\* change is what it was; the first change of an entry tells what it was, the
\* last one what it is; the state of an entry is followed by its change.
Untouched(log, from, to) ==
  \A k \in Keys : (\A n \in DOMAIN log : log[n].key # k) => to[k] = from[k]

FirstsTell(log, from) ==
  \A n \in DOMAIN log :
    (\A m \in DOMAIN log : m < n => log[m].key # log[n].key) =>
      \/ log[n].type = "state" /\ from[log[n].key].amount = log[n].amount
      \/ log[n].type \in {"created", "restored"} /\ from[log[n].key].amount = 0

LastsTell(log, to) ==
  \A n \in DOMAIN log :
    (\A m \in DOMAIN log : n < m => log[m].key # log[n].key) =>
      to[log[n].key].amount = log[n].amount

StatesLead(log) ==
  \A n \in DOMAIN log :
    log[n].type = "state" =>
      n + 1 \in DOMAIN log /\ log[n + 1].key = log[n].key /\ log[n + 1].type # "state"

Faithful(log, from, to) ==
  /\ Untouched(log, from, to) /\ FirstsTell(log, from)
  /\ LastsTell(log, to) /\ StatesLead(log)

\* The lists after the one being written are empty, and metadata of version 0
\* has the operations only.
WrittenInOrder ==
  /\ SectionsOf(version)[section] = "before" => sections["ops"] = << >>
  /\ SectionsOf(version)[section] # "after" => sections["after"] = << >>
  /\ version = 0 => sections["before"] = << >>

\* The builders after the first p changes of a well-formed log: of the entries
\* that had a change, with the balance before the transaction and the one after
\* the last change that is not a state.
Latest(log, p, k, amount) ==
  \E n \in 1 .. p :
    /\ log[n].key = k /\ log[n].type # "state" /\ log[n].amount = amount
    /\ \A m \in 1 .. p : n < m /\ log[m].key = k => log[m].type = "state"

OnlyStates(log, p, k) == \A n \in 1 .. p : log[n].key = k => log[n].type = "state"

Seen(log, p, k) == \E n \in 1 .. p : log[n].key = k

Builds(bs, log, p, from, k) ==
  /\ k \in DOMAIN bs <=> Seen(log, p, k)
  /\ k \in DOMAIN bs =>
       /\ bs[k].beforeKnown = TRUE /\ bs[k].before = from[k].amount
       /\ bs[k].afterKnown = TRUE => Latest(log, p, k, bs[k].after)
       /\ bs[k].afterKnown = FALSE => OnlyStates(log, p, k)

Position == Len(Log) - Len(pending)

\* What is pending is the rest of the log; what has been folded was well formed
\* and is in the builders.
LogFolded ==
  status = "folding" /\ version # 1 =>
    /\ Position \in 0 .. Len(Log)
    /\ \A n \in 1 .. Len(pending) : pending[n] = Log[Position + n]
    /\ \A n \in 1 .. Position : Log[n].type # "malformed"
    /\ WellFormed(Log) => \A k \in Tracked : Builds(builders, Log, Position, original, k)

PendingRecorded ==
  /\ pending \in Seq(Records)
  /\ ~WellFormed(pending) => ~WellFormed(Log)

MetaInv ==
  /\ MetaTypeOK /\ version \in Nat
  /\ sections \in [{"before", "ops", "after"} -> Seq(Records)]
  /\ WrittenInOrder
  /\ WellFormed(Log) => Faithful(Log, original, ledger)
  /\ PendingRecorded /\ LogFolded
  /\ status = "applying" => pending = << >> /\ builders = << >>
  /\ status # "done" => changes = {}
  /\ DeltasMatchLedger /\ FailsOnlyOnOverflow

-----------------------------------------------------------------------------
(***************************************************************************)
(* Logs.                                                                   *)
(***************************************************************************)
\* A recorded change has a key of the ledger, and the types exclude each other.
LEMMA RecordFields ==
  ASSUME NEW c \in Records
  PROVE  c.key \in Keys /\ c.type \in Types /\ c.amount \in Int
BY DEF Records

\* What may be an entry of a ledger.
LEMMA LedgerEntry ==
  ASSUME NEW l \in Ledgers, NEW k \in Keys
  PROVE  /\ l[k] \in Entries(k) /\ l[k].here \in BOOLEAN
         /\ l[k].here = FALSE => l[k] = Absent
         /\ l[k].here = TRUE => l[k].amount \in Amounts[k]
         /\ l[k].amount \in Amounts[k] \cup {0}
<1>1. l[k] \in Entries(k)
  BY DEF Ledgers
<1>2. CASE l[k] = Absent
  BY <1>1, <1>2 DEF Absent
<1>3. CASE \E a \in Amounts[k] : l[k] = Entry(a)
  BY <1>1, <1>3 DEF Entry
<1> QED
  BY <1>1, <1>2, <1>3 DEF Entries

\* A ledger with one entry written is a ledger.
LEMMA LedgerWritten ==
  ASSUME NEW l \in Ledgers, NEW k \in Keys, NEW e \in Entries(k)
  PROVE  [l EXCEPT ![k] = e] \in Ledgers
<1> DEFINE n == [l EXCEPT ![k] = e]
<1>1. l \in [Keys -> UNION {Entries(x) : x \in Keys}] /\ \A x \in Keys : l[x] \in Entries(x)
  BY DEF Ledgers
<1>2. e \in UNION {Entries(x) : x \in Keys}
  OBVIOUS
<1>3. n \in [Keys -> UNION {Entries(x) : x \in Keys}]
  BY <1>1, <1>2
<1>4. \A x \in Keys : n[x] \in Entries(x)
  BY <1>1
<1> QED
  BY <1>3, <1>4 DEF Ledgers

\* Nothing recorded, nothing changed.
LEMMA FaithfulAtFirst ==
  ASSUME NEW from
  PROVE  Faithful(<< >>, from, from)
BY DEF Faithful, Untouched, FirstsTell, LastsTell, StatesLead

\* An entry that was absent is created or restored: one change is recorded.
LEMMA OneRecorded ==
  ASSUME NEW from \in Ledgers, NEW to \in Ledgers, NEW log \in Seq(Records),
         Faithful(log, from, to), NEW c \in Records,
         c.type \in {"created", "restored"}, to[c.key] = Absent
  PROVE  Faithful(log \o <<c>>, from, [to EXCEPT ![c.key] = Entry(c.amount)])
<1> DEFINE l == log \o <<c>>
           N == Len(log)
           new == [to EXCEPT ![c.key] = Entry(c.amount)]
<1>1. /\ N \in Nat /\ DOMAIN log = 1 .. N /\ DOMAIN l = 1 .. N + 1
      /\ l[N + 1] = c /\ \A n \in 1 .. N : l[n] = log[n]
      /\ \A n \in 1 .. N + 1 : l[n] \in Records
  OBVIOUS
<1>2. /\ \A n \in 1 .. N + 1 : l[n].key \in Keys
      /\ c.key \in Keys
  BY <1>1, RecordFields
<1>3. /\ \A k \in Keys : k # c.key => new[k] = to[k]
      /\ new[c.key] = Entry(c.amount)
  BY <1>2 DEF Ledgers
<1>4. /\ Untouched(log, from, to) /\ FirstsTell(log, from)
      /\ LastsTell(log, to) /\ StatesLead(log)
  BY DEF Faithful
<1> HIDE DEF l, N, new
<1>5. Untouched(l, from, new)
  <2> SUFFICES ASSUME NEW k \in Keys, \A n \in DOMAIN l : l[n].key # k
               PROVE  new[k] = from[k]
    BY DEF Untouched
  <2>1. k # c.key /\ \A n \in DOMAIN log : log[n].key # k
    BY <1>1
  <2> QED
    BY <1>3, <1>4, <2>1 DEF Untouched
<1>6. FirstsTell(l, from)
  <2> SUFFICES ASSUME NEW n \in DOMAIN l,
                      \A m \in DOMAIN l : m < n => l[m].key # l[n].key
               PROVE  \/ l[n].type = "state" /\ from[l[n].key].amount = l[n].amount
                      \/ /\ l[n].type \in {"created", "restored"}
                         /\ from[l[n].key].amount = 0
    BY DEF FirstsTell
  <2>1. CASE n \in 1 .. N
    <3>1. l[n] = log[n] /\ \A m \in DOMAIN log : m < n => log[m].key # log[n].key
      BY <1>1, <2>1
    <3> QED
      BY <1>1, <1>4, <2>1, <3>1 DEF FirstsTell
  <2>2. CASE n = N + 1
    <3>1. \A m \in DOMAIN log : log[m].key # c.key
      BY <1>1, <2>2
    <3>2. from[c.key].amount = 0
      BY <1>2, <1>4, <3>1 DEF Untouched, Absent
    <3> QED
      BY <1>1, <2>2, <3>2
  <2> QED
    BY <1>1, <2>1, <2>2
<1>7. LastsTell(l, new)
  <2> SUFFICES ASSUME NEW n \in DOMAIN l,
                      \A m \in DOMAIN l : n < m => l[m].key # l[n].key
               PROVE  new[l[n].key].amount = l[n].amount
    BY DEF LastsTell
  <2>1. CASE n \in 1 .. N
    <3>1. /\ l[n] = log[n] /\ log[n].key # c.key /\ log[n].key \in Keys
          /\ \A m \in DOMAIN log : n < m => log[m].key # log[n].key
      BY <1>1, <1>2, <2>1
    <3> QED
      BY <1>1, <1>3, <1>4, <2>1, <3>1 DEF LastsTell
  <2>2. CASE n = N + 1
    BY <1>1, <1>3, <2>2 DEF Entry
  <2> QED
    BY <1>1, <2>1, <2>2
<1>8. StatesLead(l)
  <2> SUFFICES ASSUME NEW n \in DOMAIN l, l[n].type = "state"
               PROVE  n + 1 \in DOMAIN l /\ l[n + 1].key = l[n].key /\ l[n + 1].type # "state"
    BY DEF StatesLead
  <2>1. n \in 1 .. N
    BY <1>1
  <2>2. n + 1 \in 1 .. N /\ log[n + 1].key = log[n].key /\ log[n + 1].type # "state"
    BY <1>1, <1>4, <2>1 DEF StatesLead
  <2> QED
    BY <1>1, <2>1, <2>2
<1> QED
  BY <1>5, <1>6, <1>7, <1>8 DEF Faithful, l, new

\* An entry that was there is updated or removed: its state is recorded first.
LEMMA TwoRecorded ==
  ASSUME NEW from \in Ledgers, NEW to \in Ledgers, NEW log \in Seq(Records),
         Faithful(log, from, to), NEW s \in Records, NEW c \in Records,
         s.type = "state", s.key = c.key, s.amount = to[c.key].amount,
         c.type # "state", NEW e \in Entries(c.key), e.amount = c.amount
  PROVE  Faithful(log \o <<s, c>>, from, [to EXCEPT ![c.key] = e])
<1> DEFINE l == log \o <<s, c>>
           N == Len(log)
           new == [to EXCEPT ![c.key] = e]
<1>1. /\ N \in Nat /\ DOMAIN log = 1 .. N /\ DOMAIN l = 1 .. N + 2
      /\ l[N + 1] = s /\ l[N + 2] = c /\ \A n \in 1 .. N : l[n] = log[n]
      /\ \A n \in 1 .. N + 2 : l[n] \in Records
  OBVIOUS
<1>2. /\ \A n \in 1 .. N + 2 : l[n].key \in Keys
      /\ c.key \in Keys
  BY <1>1, RecordFields
<1>3. /\ \A k \in Keys : k # c.key => new[k] = to[k]
      /\ new[c.key] = e
  BY <1>2 DEF Ledgers
<1>4. /\ Untouched(log, from, to) /\ FirstsTell(log, from)
      /\ LastsTell(log, to) /\ StatesLead(log)
  BY DEF Faithful
<1> HIDE DEF l, N, new
<1>0. \A n : n \in DOMAIN l <=> n \in 1 .. N \/ n = N + 1 \/ n = N + 2
  BY <1>1
<1>5. Untouched(l, from, new)
  <2> SUFFICES ASSUME NEW k \in Keys, \A n \in DOMAIN l : l[n].key # k
               PROVE  new[k] = from[k]
    BY DEF Untouched
  <2>1. k # c.key /\ \A n \in DOMAIN log : log[n].key # k
    BY <1>0, <1>1
  <2> QED
    BY <1>3, <1>4, <2>1 DEF Untouched
<1>6. FirstsTell(l, from)
  <2> SUFFICES ASSUME NEW n \in DOMAIN l,
                      \A m \in DOMAIN l : m < n => l[m].key # l[n].key
               PROVE  \/ l[n].type = "state" /\ from[l[n].key].amount = l[n].amount
                      \/ /\ l[n].type \in {"created", "restored"}
                         /\ from[l[n].key].amount = 0
    BY DEF FirstsTell
  <2>1. CASE n \in 1 .. N
    <3>1. l[n] = log[n] /\ \A m \in DOMAIN log : m < n => log[m].key # log[n].key
      BY <1>0, <1>1, <2>1
    <3> QED
      BY <1>1, <1>4, <2>1, <3>1 DEF FirstsTell
  <2>2. CASE n = N + 1
    <3>1. \A m \in DOMAIN log : log[m].key # c.key
      BY <1>0, <1>1, <2>2
    <3>2. from[c.key].amount = s.amount
      BY <1>2, <1>4, <3>1 DEF Untouched
    <3> QED
      BY <1>1, <2>2, <3>2
  <2>3. CASE n = N + 2
    BY <1>0, <1>1, <2>3
  <2> QED
    BY <1>0, <2>1, <2>2, <2>3
<1>7. LastsTell(l, new)
  <2> SUFFICES ASSUME NEW n \in DOMAIN l,
                      \A m \in DOMAIN l : n < m => l[m].key # l[n].key
               PROVE  new[l[n].key].amount = l[n].amount
    BY DEF LastsTell
  <2>1. CASE n \in 1 .. N
    <3>1. /\ l[n] = log[n] /\ log[n].key # c.key /\ log[n].key \in Keys
          /\ \A m \in DOMAIN log : n < m => log[m].key # log[n].key
      BY <1>0, <1>1, <1>2, <2>1
    <3> QED
      BY <1>1, <1>3, <1>4, <2>1, <3>1 DEF LastsTell
  <2>2. CASE n = N + 1
    BY <1>0, <1>1, <2>2
  <2>3. CASE n = N + 2
    BY <1>1, <1>3, <2>3
  <2> QED
    BY <1>0, <2>1, <2>2, <2>3
<1>8. StatesLead(l)
  <2> SUFFICES ASSUME NEW n \in DOMAIN l, l[n].type = "state"
               PROVE  n + 1 \in DOMAIN l /\ l[n + 1].key = l[n].key /\ l[n + 1].type # "state"
    BY DEF StatesLead
  <2>1. CASE n \in 1 .. N
    <3>1. n + 1 \in 1 .. N /\ log[n + 1].key = log[n].key /\ log[n + 1].type # "state"
      BY <1>1, <1>4, <2>1 DEF StatesLead
    <3> QED
      BY <1>0, <1>1, <2>1, <3>1
  <2>2. CASE n = N + 1
    <3>1. n + 1 = N + 2
      BY <1>1, <2>2
    <3> QED
      BY <1>0, <1>1, <2>2, <3>1
  <2>3. n # N + 2
    BY <1>1
  <2> QED
    BY <1>0, <2>1, <2>2, <2>3
<1> QED
  BY <1>5, <1>6, <1>7, <1>8 DEF Faithful, l, new

-----------------------------------------------------------------------------
(***************************************************************************)
(* The lists of the metadata.                                              *)
(***************************************************************************)
Lists == {"before", "ops", "after"}

\* The lists of each version, and in which order they are written.
LEMMA ListsOfVersion ==
  ASSUME NEW v \in Nat, NEW n \in DOMAIN SectionsOf(v)
  PROVE  /\ n \in Nat /\ Len(SectionsOf(v)) \in Nat
         /\ SectionsOf(v)[n] \in Lists
         /\ v = 0 => SectionsOf(v)[n] = "ops"
         /\ n < Len(SectionsOf(v)) =>
              /\ n + 1 \in DOMAIN SectionsOf(v)
              /\ SectionsOf(v)[n + 1] # "before"
              /\ SectionsOf(v)[n + 1] # "after" => SectionsOf(v)[n] = "before"
<1>1. CASE v = 0
  <2>1. SectionsOf(v) = <<"ops">>
    BY <1>1 DEF SectionsOf
  <2> QED
    BY <2>1 DEF Lists
<1>2. CASE v = 1
  <2>1. SectionsOf(v) = <<"before", "ops">>
    BY <1>2 DEF SectionsOf
  <2>2. /\ DOMAIN SectionsOf(v) = {1, 2} /\ Len(SectionsOf(v)) = 2
        /\ SectionsOf(v)[1] = "before" /\ SectionsOf(v)[2] = "ops"
    BY <2>1
  <2>3. CASE n = 1
    BY <1>2, <2>2, <2>3 DEF Lists
  <2>4. CASE n = 2
    BY <1>2, <2>2, <2>4 DEF Lists
  <2> QED
    BY <2>2, <2>3, <2>4
<1>3. CASE v \in 2 .. 4
  <2>1. SectionsOf(v) = <<"before", "ops", "after">>
    BY <1>3 DEF SectionsOf
  <2> QED
    BY <1>3, <2>1 DEF Lists
<1>4. CASE v \notin 0 .. 4
  <2>1. SectionsOf(v) = <<"ops">>
    BY <1>4 DEF SectionsOf
  <2> QED
    BY <1>4, <2>1 DEF Lists
<1> QED
  BY <1>1, <1>2, <1>3, <1>4

\* A log is well formed with all its parts, and a list of the metadata that is
\* not is malformed metadata.
LEMMA PartsWellFormed ==
  ASSUME NEW a \in Seq(Records), NEW b \in Seq(Records)
  PROVE  /\ a \o b \in Seq(Records)
         /\ WellFormed(a \o b) <=> WellFormed(a) /\ WellFormed(b)
<1>1. /\ a \o b \in Seq(Records) /\ Len(a) \in Nat /\ Len(b) \in Nat
      /\ DOMAIN a = 1 .. Len(a) /\ DOMAIN b = 1 .. Len(b)
      /\ DOMAIN (a \o b) = 1 .. Len(a) + Len(b)
  OBVIOUS
<1>2. /\ \A n \in 1 .. Len(a) : (a \o b)[n] = a[n]
      /\ \A n \in 1 .. Len(b) : (a \o b)[Len(a) + n] = b[n]
  OBVIOUS
<1>3. WellFormed(a) /\ WellFormed(b) => WellFormed(a \o b)
  <2> SUFFICES ASSUME WellFormed(a), WellFormed(b), NEW n \in 1 .. Len(a) + Len(b)
               PROVE  (a \o b)[n].type # "malformed"
    BY <1>1 DEF WellFormed
  <2>1. CASE n <= Len(a)
    BY <1>1, <1>2, <2>1 DEF WellFormed
  <2>2. CASE n > Len(a)
    <3>1. n - Len(a) \in 1 .. Len(b) /\ Len(a) + (n - Len(a)) = n
      BY <1>1, <2>2
    <3>2. (a \o b)[Len(a) + (n - Len(a))] = b[n - Len(a)]
      BY <1>2, <3>1
    <3> QED
      BY <1>1, <3>1, <3>2 DEF WellFormed
  <2> QED
    BY <1>1, <2>1, <2>2
<1>4. WellFormed(a \o b) => WellFormed(a)
  <2>1. \A n \in 1 .. Len(a) : n \in 1 .. Len(a) + Len(b)
    BY <1>1
  <2> QED
    BY <1>1, <1>2, <2>1 DEF WellFormed
<1>5. WellFormed(a \o b) => WellFormed(b)
  <2>1. \A n \in 1 .. Len(b) : Len(a) + n \in 1 .. Len(a) + Len(b)
    BY <1>1
  <2> QED
    BY <1>1, <1>2, <2>1 DEF WellFormed
<1> QED
  BY <1>1, <1>3, <1>4, <1>5

\* The log holds what the lists hold.
LEMMA LogOfLists ==
  ASSUME sections \in [Lists -> Seq(Records)]
  PROVE  /\ Log \in Seq(Records)
         /\ \A s \in Lists : sections[s] \in Seq(Records)
         /\ WellFormed(Log) <=> \A s \in Lists : WellFormed(sections[s])
         /\ ~WellFormed(Log) => Malformed
<1>1. /\ sections["before"] \in Seq(Records) /\ sections["ops"] \in Seq(Records)
      /\ sections["after"] \in Seq(Records)
  BY DEF Lists
<1>2. /\ Log \in Seq(Records)
      /\ WellFormed(Log) <=> /\ WellFormed(sections["before"])
                             /\ WellFormed(sections["ops"])
                             /\ WellFormed(sections["after"])
  BY <1>1, PartsWellFormed DEF Log
<1>3. (\A s \in Lists : WellFormed(sections[s])) <=>
        /\ WellFormed(sections["before"])
        /\ WellFormed(sections["ops"])
        /\ WellFormed(sections["after"])
  BY DEF Lists
<1>4. ~(\A s \in Lists : WellFormed(sections[s])) => Malformed
  BY DEF WellFormed, Malformed
<1> QED
  BY <1>1, <1>2, <1>3, <1>4

\* A list written at the end of the second of two lists.
Appended(b, o, list) == b \o (o \o list) = (b \o o) \o list

\* Concatenation is associative on lists of changes.
LEMMA ListAppended ==
  ASSUME NEW b \in Seq(Records), NEW o \in Seq(Records), NEW list \in Seq(Records)
  PROVE  Appended(b, o, list)
BY ConcatAssociative, SMTT(60) DEF Appended

\* What is added to the list being written is added to the log.
LEMMA LogGrows ==
  ASSUME NEW cur \in Lists, NEW list \in Seq(Records),
         sections \in [Lists -> Seq(Records)],
         cur = "before" => sections["ops"] = << >>,
         cur # "after" => sections["after"] = << >>,
         sections' = [sections EXCEPT ![cur] = @ \o list]
  PROVE  Log' = Log \o list /\ sections' \in [Lists -> Seq(Records)]
<1> DEFINE b == sections["before"]
           o == sections["ops"]
           a == sections["after"]
<1>1. b \in Seq(Records) /\ o \in Seq(Records) /\ a \in Seq(Records)
  BY DEF Lists
<1>2. /\ Log = b \o o \o a
      /\ Log' = sections'["before"] \o sections'["ops"] \o sections'["after"]
  BY DEF Log
<1>3. sections' \in [Lists -> Seq(Records)]
  BY <1>1 DEF Lists
<1>0. Appended(b, o, list) /\ Appended(b \o o, a, list)
  <2>1. b \o o \in Seq(Records)
    BY <1>1
  <2> HIDE DEF b, o, a
  <2> QED
    BY <1>1, <2>1, ListAppended
<1>4. ASSUME cur = "before"
      PROVE  Log' = Log \o list
  <2>1. sections'["before"] = b \o list /\ sections'["ops"] = << >> /\ sections'["after"] = << >>
    BY <1>4 DEF Lists
  <2>2. Log' = b \o list /\ Log = b
    <3>1. b \o list \in Seq(Records)
      BY <1>1
    <3>2. (b \o list) \o << >> = b \o list /\ b \o << >> = b
      BY <1>1, <3>1, ConcatEmptySeq
    <3> QED
      BY <1>2, <1>4, <2>1, <3>2
  <2> QED
    BY <2>2
<1>5. ASSUME cur = "ops"
      PROVE  Log' = Log \o list
  <2>1. sections'["before"] = b /\ sections'["ops"] = o \o list /\ sections'["after"] = << >>
    BY <1>5 DEF Lists
  <2>2. Log' = b \o (o \o list) /\ Log = b \o o
    <3>1. b \o (o \o list) \in Seq(Records) /\ b \o o \in Seq(Records)
      BY <1>1
    <3>2. /\ (b \o (o \o list)) \o << >> = b \o (o \o list)
          /\ (b \o o) \o << >> = b \o o
      BY <3>1, ConcatEmptySeq
    <3> QED
      BY <1>2, <1>5, <2>1, <3>2
  <2> HIDE DEF b, o, a
  <2> QED
    BY <1>0, <2>2 DEF Appended
<1>6. ASSUME cur = "after"
      PROVE  Log' = Log \o list
  <2>1. sections'["before"] = b /\ sections'["ops"] = o /\ sections'["after"] = a \o list
    BY <1>6 DEF Lists
  <2>2. Log' = (b \o o) \o (a \o list) /\ Log = (b \o o) \o a
    BY <1>2, <2>1
  <2> HIDE DEF b, o, a
  <2> QED
    BY <1>0, <2>2 DEF Appended
<1>7. cur \in {"before", "ops", "after"}
  BY DEF Lists
<1>8. Log' = Log \o list
  BY <1>4, <1>5, <1>6, <1>7
<1> QED
  BY <1>3, <1>8

-----------------------------------------------------------------------------
(***************************************************************************)
(* The ledger.                                                             *)
(***************************************************************************)
\* Nothing is recorded at the start.
LEMMA MetaInvStarts ==
  MetaInit => MetaInv
<1> SUFFICES ASSUME MetaInit
             PROVE  MetaInv
  OBVIOUS
<1>1. version \in Nat
  BY ChangeAssumption DEF MetaInit
<1>2. section \in DOMAIN SectionsOf(version)
  <2>1. section = 1
    BY DEF MetaInit
  <2>2. SectionsOf(version) \in {<<"ops">>, <<"before", "ops">>, <<"before", "ops", "after">>}
    BY <1>1 DEF SectionsOf
  <2> QED
    BY <2>1, <2>2
<1>3. MetaTypeOK
  BY <1>2 DEF MetaInit, MetaTypeOK
<1>4. /\ sections["before"] = << >> /\ sections["ops"] = << >> /\ sections["after"] = << >>
      /\ sections \in [Lists -> Seq(Records)]
  BY DEF MetaInit, Lists
<1>5. << >> \o << >> \o << >> = << >>
  BY ConcatEmptySeq
<1>6. Log = << >>
  BY <1>4, <1>5 DEF Log
<1>7. Faithful(Log, original, ledger)
  BY <1>6, FaithfulAtFirst DEF MetaInit
<1>8. PendingRecorded
  BY DEF MetaInit, PendingRecorded, WellFormed
<1> QED
  BY <1>1, <1>3, <1>4, <1>7, <1>8
     DEF MetaInit, MetaInv, WrittenInOrder, LogFolded, DeltasMatchLedger,
         FailsOnlyOnOverflow, Lists

\* A step of the ledger that records a list of changes keeps the invariant when
\* the log still tells what the ledger did.
LEMMA RecordKeeps ==
  ASSUME MetaInv, Applying, NEW list \in Seq(Records), Record(list), LedgerRest,
         ledger' \in Ledgers,
         WellFormed(Log \o list) => Faithful(Log \o list, original, ledger')
  PROVE  MetaInv'
<1> DEFINE cur == SectionsOf(version)[section]
<1>1. /\ original' = original /\ version' = version /\ section' = section
      /\ pending' = pending /\ builders' = builders /\ status' = status
      /\ changes' = changes /\ status = "applying"
  BY DEF LedgerRest, Applying
<1>2. /\ MetaTypeOK /\ version \in Nat /\ section \in DOMAIN SectionsOf(version)
      /\ sections \in [Lists -> Seq(Records)] /\ WrittenInOrder
      /\ pending = << >> /\ builders = << >> /\ changes = {}
  BY <1>1 DEF MetaInv, MetaTypeOK, Lists
<1>3. cur \in Lists /\ (version = 0 => cur = "ops")
  BY <1>2, ListsOfVersion
<1>4. sections' = [sections EXCEPT ![cur] = @ \o list]
  BY DEF Record
<1> HIDE DEF cur
<1>5. Log' = Log \o list /\ sections' \in [Lists -> Seq(Records)]
  <2>1. /\ cur = "before" => sections["ops"] = << >>
        /\ cur # "after" => sections["after"] = << >>
    BY <1>2 DEF WrittenInOrder, cur
  <2> QED
    BY <1>2, <1>3, <1>4, <2>1, LogGrows
<1>6. WrittenInOrder'
  <2>1. \A s \in Lists : s # cur => sections'[s] = sections[s]
    BY <1>2, <1>4
  <2>2. /\ "before" \in Lists /\ "ops" \in Lists /\ "after" \in Lists
        /\ cur \in {"before", "ops", "after"}
    BY <1>3 DEF Lists
  <2>3. cur = "before" => sections'["ops"] = << >>
    BY <1>2, <2>1, <2>2 DEF WrittenInOrder, cur
  <2>4. cur # "after" => sections'["after"] = << >>
    BY <1>2, <2>1, <2>2 DEF WrittenInOrder, cur
  <2>5. version = 0 => sections'["before"] = << >>
    BY <1>2, <1>3, <2>1, <2>2 DEF WrittenInOrder
  <2> QED
    BY <1>1, <2>3, <2>4, <2>5 DEF WrittenInOrder, cur
<1>7. MetaTypeOK'
  BY <1>1, <1>2 DEF MetaTypeOK
<1>8. PendingRecorded'
  BY <1>1, <1>2 DEF PendingRecorded, WellFormed
<1>9. (WellFormed(Log) => Faithful(Log, original, ledger))'
  BY <1>1, <1>5
<1>10. LogFolded' /\ DeltasMatchLedger' /\ FailsOnlyOnOverflow'
  BY <1>1 DEF LogFolded, DeltasMatchLedger, FailsOnlyOnOverflow
<1> QED
  BY <1>1, <1>2, <1>5, <1>6, <1>7, <1>8, <1>9, <1>10 DEF MetaInv, Lists

\* An update or a removal, recorded with the state before it.
LEMMA ChangesRecorded ==
  ASSUME MetaInv, Applying, NEW k \in Keys, NEW a \in Int, NEW e \in Entries(k),
         ledger[k].here, e.amount = a,
         NEW type \in {"updated", "removed"},
         type = "updated" => a \in Amounts[k], type = "removed" => a = 0,
         ledger' = [ledger EXCEPT ![k] = e],
         Record(<<Change("state", k, ledger[k].amount), Change(type, k, a)>>), LedgerRest
  PROVE  MetaInv'
<1> DEFINE s == Change("state", k, ledger[k].amount)
           c == Change(type, k, a)
<1>1. original \in Ledgers /\ ledger \in Ledgers /\ sections \in [Lists -> Seq(Records)]
  BY DEF MetaInv, MetaTypeOK, Lists
<1>2. ledger[k].amount \in Amounts[k] /\ ledger[k].amount \in Int
  <2>1. ledger[k].here = TRUE
    BY <1>1, LedgerEntry
  <2>2. ledger[k].amount \in Amounts[k]
    BY <1>1, <2>1, LedgerEntry
  <2>3. Amounts[k] \subseteq Int
    BY AmountAssumption
  <2> QED
    BY <2>2, <2>3
<1>3. s \in Records /\ s.type = "state" /\ s.key = k /\ s.amount = ledger[k].amount
  BY <1>2 DEF Change, Records, Types
<1>4. c \in Records /\ c.type # "state" /\ c.key = k /\ c.amount = a
  BY DEF Change, Records, Types
<1> HIDE DEF s, c
<1>5. Log \in Seq(Records) /\ <<s, c>> \in Seq(Records)
  BY <1>1, <1>3, <1>4, LogOfLists
<1>6. ledger' \in Ledgers
  BY <1>1, LedgerWritten
<1>7. ASSUME WellFormed(Log \o <<s, c>>)
      PROVE  Faithful(Log \o <<s, c>>, original, ledger')
  <2>1. WellFormed(Log)
    BY <1>5, <1>7, PartsWellFormed
  <2>2. Faithful(Log, original, ledger)
    BY <2>1 DEF MetaInv
  <2>3. Faithful(Log \o <<s, c>>, original, [ledger EXCEPT ![c.key] = e])
    BY <1>1, <1>3, <1>4, <1>5, <2>2, TwoRecorded
  <2> QED
    BY <1>4, <2>3
<1>8. Record(<<s, c>>)
  BY DEF s, c
<1> QED
  BY <1>5, <1>6, <1>7, <1>8, RecordKeeps

\* A creation or a restoration.
LEMMA AppearanceRecorded ==
  ASSUME MetaInv, Applying, NEW k \in Keys, NEW a \in Amounts[k], ~ledger[k].here,
         NEW type \in {"created", "restored"}, type = "restored" => k \notin Tracked,
         ledger' = [ledger EXCEPT ![k] = Entry(a)],
         Record(<<Change(type, k, a)>>), LedgerRest
  PROVE  MetaInv'
<1> DEFINE c == Change(type, k, a)
<1>1. original \in Ledgers /\ ledger \in Ledgers /\ sections \in [Lists -> Seq(Records)]
  BY DEF MetaInv, MetaTypeOK, Lists
<1>2. ledger[k] = Absent
  <2>1. ledger[k].here = FALSE
    BY <1>1, LedgerEntry
  <2> QED
    BY <1>1, <2>1, LedgerEntry
<1>3. a \in Int
  BY AmountAssumption
<1>4. c \in Records /\ c.type \in {"created", "restored"} /\ c.key = k /\ c.amount = a
  BY <1>3 DEF Change, Records, Types
<1> HIDE DEF c
<1>5. Log \in Seq(Records) /\ <<c>> \in Seq(Records)
  BY <1>1, <1>4, LogOfLists
<1>6. ledger' \in Ledgers
  <2>1. Entry(a) \in Entries(k)
    BY DEF Entries
  <2> QED
    BY <1>1, <2>1, LedgerWritten
<1>7. ASSUME WellFormed(Log \o <<c>>)
      PROVE  Faithful(Log \o <<c>>, original, ledger')
  <2>1. WellFormed(Log)
    BY <1>5, <1>7, PartsWellFormed
  <2>2. Faithful(Log, original, ledger)
    BY <2>1 DEF MetaInv
  <2>3. Faithful(Log \o <<c>>, original, [ledger EXCEPT ![c.key] = Entry(c.amount)])
    BY <1>1, <1>2, <1>4, <1>5, <2>2, OneRecorded
  <2> QED
    BY <1>4, <2>3
<1>8. Record(<<c>>)
  BY DEF c
<1> QED
  BY <1>5, <1>6, <1>7, <1>8, RecordKeeps

\* The ledger keeps the invariant.
LEMMA LedgerKeeps ==
  MetaInv /\ Ledger => MetaInv'
<1> SUFFICES ASSUME MetaInv, Ledger
             PROVE  MetaInv'
  OBVIOUS
<1>1. CASE NextSection
  <2>1. /\ status = "applying" /\ section < Len(SectionsOf(version)) /\ section' = section + 1
        /\ original' = original /\ ledger' = ledger /\ version' = version
        /\ sections' = sections /\ pending' = pending /\ builders' = builders
        /\ status' = status /\ changes' = changes
    BY <1>1 DEF NextSection
  <2>2. /\ MetaTypeOK /\ version \in Nat /\ section \in DOMAIN SectionsOf(version)
        /\ WrittenInOrder
    BY DEF MetaInv, MetaTypeOK
  <2>3. /\ section + 1 \in DOMAIN SectionsOf(version)
        /\ SectionsOf(version)[section + 1] # "before"
        /\ SectionsOf(version)[section + 1] # "after" =>
             SectionsOf(version)[section] = "before"
    BY <2>1, <2>2, ListsOfVersion
  <2>4. MetaTypeOK'
    BY <2>1, <2>2, <2>3 DEF MetaTypeOK
  <2>5. WrittenInOrder'
    BY <2>1, <2>2, <2>3 DEF WrittenInOrder
  <2>6. Log' = Log
    BY <2>1 DEF Log
  <2>7. PendingRecorded' /\ LogFolded' /\ DeltasMatchLedger' /\ FailsOnlyOnOverflow'
    BY <2>1, <2>6 DEF MetaInv, PendingRecorded, LogFolded, DeltasMatchLedger, FailsOnlyOnOverflow
  <2> QED
    BY <2>1, <2>4, <2>5, <2>6, <2>7 DEF MetaInv
<1>2. ASSUME NEW k \in Keys, LedgerRemoves(k)
      PROVE  MetaInv'
  <2>1. Absent \in Entries(k) /\ Absent.amount = 0 /\ 0 \in Int
    BY DEF Entries, Absent
  <2>2. /\ Applying /\ ledger[k].here /\ LedgerRest
        /\ ledger' = [ledger EXCEPT ![k] = Absent]
        /\ Record(<<Change("state", k, ledger[k].amount), Change("removed", k, 0)>>)
    BY <1>2 DEF LedgerRemoves
  <2>3. "removed" \in {"updated", "removed"} /\ "removed" # "updated"
    OBVIOUS
  <2> HIDE DEF Absent
  <2> QED
    BY <2>1, <2>2, <2>3, ChangesRecorded
<1>3. ASSUME NEW k \in Keys, NEW a \in Amounts[k], LedgerUpdates(k, a)
      PROVE  MetaInv'
  <2>1. Entry(a) \in Entries(k)
    BY DEF Entries
  <2>2. Entry(a).amount = a
    BY DEF Entry
  <2>3. a \in Int
    BY AmountAssumption
  <2>4. /\ Applying /\ ledger[k].here /\ LedgerRest
        /\ ledger' = [ledger EXCEPT ![k] = Entry(a)]
        /\ Record(<<Change("state", k, ledger[k].amount), Change("updated", k, a)>>)
    BY <1>3 DEF LedgerUpdates
  <2>5. "updated" \in {"updated", "removed"} /\ "updated" # "removed"
    OBVIOUS
  <2> QED
    BY <2>1, <2>2, <2>3, <2>4, <2>5, ChangesRecorded
<1>4. ASSUME NEW k \in Keys, NEW a \in Amounts[k], LedgerCreates(k, a)
      PROVE  MetaInv'
  BY <1>4, AppearanceRecorded DEF LedgerCreates
<1>5. ASSUME NEW k \in Keys, NEW a \in Amounts[k], LedgerRestores(k, a)
      PROVE  MetaInv'
  BY <1>5, AppearanceRecorded DEF LedgerRestores
<1>6. ASSUME NEW k \in Keys, DamagedMetadata(k)
      PROVE  MetaInv'
  <2> DEFINE c == Change("malformed", k, 0)
  <2>1. c \in Records /\ c.type = "malformed"
    BY DEF Change, Records, Types
  <2>2. /\ Applying /\ Record(<<c>>) /\ LedgerRest /\ ledger' = ledger
        /\ ledger \in Ledgers /\ sections \in [Lists -> Seq(Records)]
    BY <1>6 DEF DamagedMetadata, MetaInv, MetaTypeOK, Lists
  <2> HIDE DEF c
  <2>3. Log \in Seq(Records) /\ <<c>> \in Seq(Records)
    BY <2>1, <2>2, LogOfLists
  <2>4. ~WellFormed(<<c>>)
    BY <2>1 DEF WellFormed
  <2>5. ~WellFormed(Log \o <<c>>)
    BY <2>3, <2>4, PartsWellFormed
  <2> QED
    BY <2>2, <2>3, <2>5, RecordKeeps
<1> QED
  BY <1>1, <1>2, <1>3, <1>4, <1>5, <1>6 DEF Ledger

-----------------------------------------------------------------------------
(***************************************************************************)
(* The differences of 64-bit balances.                                     *)
(***************************************************************************)
\* A number below the divisor is its own remainder.
LEMMA SmallRemainder ==
  ASSUME NEW a \in Nat, NEW n \in Nat, a < n
  PROVE  a % n = a
OBVIOUS

\* A difference that has a 64-bit value is that value.
LEMMA WrapExact ==
  ASSUME NEW n \in MinInt64 .. MaxInt64
  PROVE  Wrap(n) = n
<1>1. MinInt64 \in Int /\ MaxInt64 \in Int
  BY AmountAssumption
<1>2. n - MinInt64 \in Nat /\ MaxInt64 - MinInt64 + 1 \in Nat
  BY <1>1
<1>3. n - MinInt64 < MaxInt64 - MinInt64 + 1
  BY <1>1
<1>4. (n - MinInt64) % (MaxInt64 - MinInt64 + 1) = n - MinInt64
  BY <1>2, <1>3, SmallRemainder
<1> QED
  BY <1>1, <1>4 DEF Wrap

\* The test before the subtraction finds the differences that have none.
LEMMA OverflowExact ==
  ASSUME NEW b, b.before \in MinInt64 .. MaxInt64, b.after \in MinInt64 .. MaxInt64
  PROVE  Overflows(b) <=> b.after - b.before \notin MinInt64 .. MaxInt64
BY AmountAssumption DEF Overflows

\* Balances are 64-bit values.
LEMMA BalancesFit ==
  ASSUME NEW k \in Keys, NEW a \in Amounts[k] \cup {0}
  PROVE  a \in MinInt64 .. MaxInt64
<1>1. Amounts[k] \subseteq MinInt64 .. MaxInt64
  BY AmountAssumption
<1>2. 0 \in MinInt64 .. MaxInt64
  BY AmountAssumption
<1> QED
  BY <1>1, <1>2

-----------------------------------------------------------------------------
(***************************************************************************)
(* The builders, change by change.                                         *)
(***************************************************************************)
\* A change of another entry, or a state, leaves the last change what it was.
LEMMA LatestStays ==
  ASSUME NEW log, NEW p \in Nat, NEW k, NEW a,
         log[p + 1].key # k \/ log[p + 1].type = "state"
  PROVE  /\ Latest(log, p, k, a) => Latest(log, p + 1, k, a)
         /\ OnlyStates(log, p, k) => OnlyStates(log, p + 1, k)
<1>1. \A m \in 1 .. p + 1 : m \in 1 .. p \/ m = p + 1
  OBVIOUS
<1>2. \A m \in 1 .. p : m \in 1 .. p + 1
  OBVIOUS
<1>3. Latest(log, p, k, a) => Latest(log, p + 1, k, a)
  <2> SUFFICES ASSUME NEW n \in 1 .. p, log[n].key = k, log[n].type # "state",
                      log[n].amount = a,
                      \A m \in 1 .. p : n < m /\ log[m].key = k => log[m].type = "state"
               PROVE  Latest(log, p + 1, k, a)
    BY DEF Latest
  <2>1. \A m \in 1 .. p + 1 : n < m /\ log[m].key = k => log[m].type = "state"
    BY <1>1
  <2>2. n \in 1 .. p + 1
    BY <1>2
  <2> QED
    BY <2>1, <2>2 DEF Latest
<1>4. OnlyStates(log, p, k) => OnlyStates(log, p + 1, k)
  BY <1>1 DEF OnlyStates
<1> QED
  BY <1>3, <1>4

\* What has been seen with one more change.
LEMMA SeenGrows ==
  ASSUME NEW log, NEW p \in Nat, NEW k
  PROVE  Seen(log, p + 1, k) <=> Seen(log, p, k) \/ log[p + 1].key = k
<1>1. \A m \in 1 .. p + 1 : m \in 1 .. p \/ m = p + 1
  OBVIOUS
<1>2. (\A m \in 1 .. p : m \in 1 .. p + 1) /\ p + 1 \in 1 .. p + 1
  OBVIOUS
<1> QED
  BY <1>1, <1>2 DEF Seen

\* The builders of other entries are those of the change before.
Elsewhere(old, new, k) ==
  \A m : m # k => /\ m \in DOMAIN new <=> m \in DOMAIN old
                  /\ m \in DOMAIN old => new[m] = old[m]

\* A change of another entry keeps what is built of an entry.
LEMMA BuildsElsewhere ==
  ASSUME NEW old, NEW new, NEW log, NEW p \in Nat, NEW from, NEW k,
         Builds(old, log, p, from, k), log[p + 1].key # k,
         Elsewhere(old, new, log[p + 1].key)
  PROVE  Builds(new, log, p + 1, from, k)
<1>1. /\ k \in DOMAIN new <=> k \in DOMAIN old
      /\ k \in DOMAIN old => new[k] = old[k]
  BY DEF Elsewhere
<1>2. Seen(log, p + 1, k) <=> Seen(log, p, k)
  BY SeenGrows
<1>3. /\ \A a : Latest(log, p, k, a) => Latest(log, p + 1, k, a)
      /\ OnlyStates(log, p, k) => OnlyStates(log, p + 1, k)
  BY LatestStays
<1> QED
  BY <1>1, <1>2, <1>3 DEF Builds

\* An entry that was not seen before its change tells what it was.
LEMMA FirstChange ==
  ASSUME NEW log \in Seq(Records), NEW from, NEW p \in Nat, p + 1 \in DOMAIN log,
         FirstsTell(log, from), NEW k, log[p + 1].key = k, ~Seen(log, p, k)
  PROVE  \/ log[p + 1].type = "state" /\ from[k].amount = log[p + 1].amount
         \/ log[p + 1].type \in {"created", "restored"} /\ from[k].amount = 0
<1>1. \A m \in DOMAIN log : m < p + 1 => m \in 1 .. p
  OBVIOUS
<1>2. \A m \in DOMAIN log : m < p + 1 => log[m].key # log[p + 1].key
  BY <1>1 DEF Seen
<1> QED
  BY <1>2 DEF FirstsTell

\* A state is in the builder when the first of them is kept.
LEMMA StateBuilds ==
  ASSUME NEW log \in Seq(Records), NEW from, NEW p \in Nat, p + 1 \in DOMAIN log,
         FirstsTell(log, from), NEW k, log[p + 1].key = k, log[p + 1].type = "state",
         NEW old, NEW new, Builds(old, log, p, from, k), k \in DOMAIN new,
         new[k] = Baseline(IF k \in DOMAIN old THEN old[k] ELSE NewBuilder,
                           log[p + 1].amount)
  PROVE  Builds(new, log, p + 1, from, k)
<1>1. Seen(log, p + 1, k)
  BY SeenGrows
<1>2. /\ \A a : Latest(log, p, k, a) => Latest(log, p + 1, k, a)
      /\ OnlyStates(log, p, k) => OnlyStates(log, p + 1, k)
  BY LatestStays
<1>3. CASE k \in DOMAIN old
  <2>1. old[k].beforeKnown = TRUE /\ new[k] = old[k]
    BY <1>3 DEF Builds, Baseline
  <2> QED
    BY <1>1, <1>2, <1>3, <2>1 DEF Builds
<1>4. CASE k \notin DOMAIN old
  <2>1. ~Seen(log, p, k)
    BY <1>4 DEF Builds
  <2>2. from[k].amount = log[p + 1].amount
    BY <2>1, FirstChange
  <2>3. OnlyStates(log, p + 1, k)
    BY <1>2, <2>1 DEF OnlyStates, Seen
  <2>4. new[k] = [before |-> log[p + 1].amount, after |-> 0,
                  beforeKnown |-> TRUE, afterKnown |-> FALSE]
    BY <1>4 DEF Baseline, NewBuilder
  <2> QED
    BY <1>1, <2>2, <2>3, <2>4 DEF Builds
<1> QED
  BY <1>3, <1>4

\* A change that is not a state is in the builder with the balance it leaves.
LEMMA CurrentBuilds ==
  ASSUME NEW log \in Seq(Records), NEW from, NEW p \in Nat, NEW k,
         log[p + 1].key = k, log[p + 1].type # "state", NEW new, k \in DOMAIN new,
         new[k].beforeKnown = TRUE, new[k].before = from[k].amount,
         new[k].afterKnown = TRUE, new[k].after = log[p + 1].amount
  PROVE  Builds(new, log, p + 1, from, k)
<1>1. Seen(log, p + 1, k)
  BY SeenGrows
<1>2. Latest(log, p + 1, k, new[k].after)
  <2>1. p + 1 \in 1 .. p + 1 /\ \A m \in 1 .. p + 1 : ~(p + 1 < m)
    OBVIOUS
  <2> QED
    BY <2>1 DEF Latest
<1> QED
  BY <1>1, <1>2 DEF Builds

-----------------------------------------------------------------------------
(***************************************************************************)
(* The steps of DiffTransactionMetaBalances keep the invariant.            *)
(***************************************************************************)
\* The rest of a sequence.
LEMMA RestOf ==
  ASSUME NEW S, NEW s \in Seq(S), s # << >>
  PROVE  /\ Len(s) \in Nat \ {0} /\ Head(s) = s[1] /\ Head(s) \in S
         /\ Tail(s) \in Seq(S) /\ Len(Tail(s)) = Len(s) - 1
         /\ \A n \in 1 .. Len(s) - 1 : Tail(s)[n] = s[n + 1]
OBVIOUS

\* What the invariant says of the metadata, as the steps of the fold leave it.
LEMMA RecordedKeeps ==
  ASSUME MetaInv, UNCHANGED recorded
  PROVE  /\ version' \in Nat /\ sections' \in [{"before", "ops", "after"} -> Seq(Records)]
         /\ WrittenInOrder' /\ (WellFormed(Log) => Faithful(Log, original, ledger))'
         /\ Log' = Log /\ Log \in Seq(Records) /\ (Malformed' <=> Malformed)
<1>1. /\ original' = original /\ ledger' = ledger /\ version' = version
      /\ sections' = sections /\ section' = section
  BY DEF recorded
<1>2. Log' = Log
  BY <1>1 DEF Log
<1>3. /\ version \in Nat /\ sections \in [{"before", "ops", "after"} -> Seq(Records)]
      /\ WrittenInOrder /\ (WellFormed(Log) => Faithful(Log, original, ledger))
  BY DEF MetaInv
<1>4. Log \in Seq(Records)
  BY <1>3, LogOfLists DEF Lists
<1>5. (Malformed' <=> Malformed) /\ WrittenInOrder'
  BY <1>1, <1>3 DEF Malformed, WrittenInOrder
<1> QED
  BY <1>1, <1>2, <1>3, <1>4, <1>5

\* Starting: all of the log is pending, nothing is folded.
LEMMA StartKeeps ==
  MetaInv /\ StartDiff => MetaInv'
<1> SUFFICES ASSUME MetaInv, StartDiff
             PROVE  MetaInv'
  OBVIOUS
<1>1. /\ UNCHANGED recorded /\ builders' = builders /\ changes' = changes
      /\ status = "applying"
  BY DEF StartDiff
<1>2. /\ MetaTypeOK /\ version \in Nat /\ WrittenInOrder
      /\ pending = << >> /\ builders = << >> /\ changes = {}
  BY <1>1 DEF MetaInv
<1>3. /\ original' = original /\ ledger' = ledger /\ version' = version
      /\ sections' = sections /\ section' = section
  BY <1>1 DEF recorded
<1>4. status' \in {"failed", "folding"}
  BY DEF StartDiff
<1>5. MetaTypeOK'
  BY <1>1, <1>2, <1>3, <1>4 DEF MetaTypeOK
<1>6. /\ DeltasMatchLedger' /\ changes' = {}
      /\ (status = "applying" => pending = << >> /\ builders = << >>)'
  BY <1>1, <1>2, <1>4 DEF DeltasMatchLedger
<1>7. /\ Log' = Log /\ Log \in Seq(Records)
  BY <1>1, RecordedKeeps
<1>8. PendingRecorded' /\ LogFolded' /\ FailsOnlyOnOverflow'
  <2>1. CASE version > 4
    <3>1. status' = "failed" /\ pending' = pending
      BY <2>1 DEF StartDiff
    <3>2. PendingRecorded'
      BY <1>2, <3>1 DEF PendingRecorded, WellFormed
    <3>3. LogFolded'
      BY <3>1 DEF LogFolded
    <3>4. FailsOnlyOnOverflow'
      BY <1>3, <1>6, <2>1 DEF FailsOnlyOnOverflow
    <3> QED
      BY <3>2, <3>3, <3>4
  <2>2. CASE ~(version > 4)
    <3>1. status' = "folding" /\ pending' = FoldOrder(version)
      BY <2>2 DEF StartDiff
    <3>2. FailsOnlyOnOverflow'
      BY <3>1 DEF FailsOnlyOnOverflow
    <3>3. /\ sections["before"] \in Seq(Records) /\ sections["ops"] \in Seq(Records)
          /\ sections["after"] \in Seq(Records)
      BY DEF MetaInv
    <3>4. version # 1 => pending' = Log
      <4>1. ASSUME version = 0
            PROVE  pending' = Log
        <5>1. sections["before"] = << >>
          BY <1>2, <4>1 DEF WrittenInOrder
        <5>2. sections["after"] = << >>
          <6>1. SectionsOf(version) = <<"ops">> /\ section \in DOMAIN SectionsOf(version)
            BY <1>2, <4>1 DEF SectionsOf, MetaTypeOK
          <6>2. SectionsOf(version)[section] = "ops"
            BY <6>1
          <6> QED
            BY <1>2, <6>2 DEF WrittenInOrder
        <5>3. << >> \o sections["ops"] = sections["ops"]
          BY <3>3, ConcatEmptySeq
        <5>4. sections["ops"] \o << >> = sections["ops"]
          BY <3>3, ConcatEmptySeq
        <5>5. Log = sections["ops"]
          BY <5>1, <5>2, <5>3, <5>4 DEF Log
        <5> QED
          BY <3>1, <4>1, <5>5 DEF FoldOrder
      <4>2. ASSUME version # 0, version # 1
            PROVE  pending' = Log
        BY <3>1, <4>2 DEF FoldOrder, Log
      <4> QED
        BY <4>1, <4>2
    <3>5. PendingRecorded'
      <4>1. CASE version # 1
        BY <1>7, <3>4, <4>1 DEF PendingRecorded
      <4>2. CASE version = 1
        <5>0. FoldOrder(1) = sections["ops"] \o sections["before"]
          <6> DEFINE ops == sections["ops"]
                     rev == sections["ops"] \o sections["before"]
                     all == sections["before"] \o sections["ops"] \o sections["after"]
          <6>1. FoldOrder(1) = CASE 1 = 0 -> ops [] 1 = 1 -> rev [] OTHER -> all
            BY DEF FoldOrder
          <6> HIDE DEF ops, rev, all
          <6>2. FoldOrder(1) = rev
            BY <6>1
          <6> QED
            BY <6>2 DEF rev
        <5>1. pending' = sections["ops"] \o sections["before"]
          BY <3>1, <4>2, <5>0
        <5>2. /\ pending' \in Seq(Records)
              /\ WellFormed(pending') <=>
                   WellFormed(sections["ops"]) /\ WellFormed(sections["before"])
          BY <3>3, <5>1, PartsWellFormed
        <5>3. WellFormed(Log) => WellFormed(sections["ops"]) /\ WellFormed(sections["before"])
          BY LogOfLists DEF MetaInv, Lists
        <5>4. WellFormed(Log') <=> WellFormed(Log)
          BY <1>7
        <5> QED
          BY <5>2, <5>3, <5>4 DEF PendingRecorded
      <4> QED
        BY <4>1, <4>2
    <3>6. LogFolded'
      <4> SUFFICES ASSUME version # 1
                   PROVE  /\ Position' \in 0 .. Len(Log')
                          /\ \A n \in 1 .. Len(pending') : pending'[n] = Log'[Position' + n]
                          /\ \A n \in 1 .. Position' : Log'[n].type # "malformed"
                          /\ \A k \in Tracked : Builds(builders', Log', Position', original', k)
        BY <1>3 DEF LogFolded
      <4>1. pending' = Log /\ Len(Log) \in Nat
        BY <1>7, <3>4
      <4>2. Position' = 0
        BY <1>7, <4>1 DEF Position
      <4>3. DOMAIN builders' = {}
        BY <1>1, <1>2
      <4>4. \A k : Builds(builders', Log', 0, original', k)
        BY <4>3 DEF Builds, Seen
      <4>5. \A n \in 1 .. Len(Log) : Log[n] = Log[0 + n]
        BY <4>1
      <4> QED
        BY <1>7, <4>1, <4>2, <4>4, <4>5
    <3> QED
      BY <3>2, <3>5, <3>6
  <2> QED
    BY <2>1, <2>2
<1> QED
  BY <1>1, <1>5, <1>6, <1>8, RecordedKeeps DEF MetaInv

\* The builders that the code may hold for an entry.
BuilderOf(k) == [before : Amounts[k] \cup {0}, after : Amounts[k] \cup {0},
                 beforeKnown : BOOLEAN, afterKnown : BOOLEAN]

BuildersTyped(bs) == DOMAIN bs \subseteq Tracked /\ \A k \in DOMAIN bs : bs[k] \in BuilderOf(k)

\* One builder written: it is of its entry, the others stay.
LEMMA BuilderWritten ==
  ASSUME NEW k \in Tracked, NEW b \in BuilderOf(k), WithBuilder(k, b), BuildersTyped(builders)
  PROVE  /\ BuildersTyped(builders') /\ Elsewhere(builders, builders', k)
         /\ k \in DOMAIN builders' /\ builders'[k] = b
<1>1. builders' = [m \in DOMAIN builders \cup {k} |-> IF m = k THEN b ELSE builders[m]]
  BY DEF WithBuilder
<1>2. DOMAIN builders' = DOMAIN builders \cup {k} /\ builders'[k] = b
  BY <1>1
<1>3. \A m \in DOMAIN builders : m # k => builders'[m] = builders[m]
  BY <1>1
<1>4. Elsewhere(builders, builders', k)
  BY <1>2, <1>3 DEF Elsewhere
<1>5. BuildersTyped(builders')
  BY <1>2, <1>3 DEF BuildersTyped
<1> QED
  BY <1>2, <1>4, <1>5

\* A step that folds one change keeps the invariant when it keeps the builder
\* of that change's entry.
LEMMA FoldKeeps ==
  ASSUME MetaInv, NEW c, c = Head(pending), pending # << >>, status = "folding",
         c.type # "malformed", Folded, BuildersTyped(builders'),
         Elsewhere(builders, builders', c.key),
         \A p \in Nat :
           /\ c.key \in Tracked /\ p + 1 \in DOMAIN Log /\ Log[p + 1] = c
           /\ Faithful(Log, original, ledger)
           /\ Builds(builders, Log, p, original, c.key)
           => Builds(builders', Log, p + 1, original, c.key)
  PROVE  MetaInv'
<1>1. /\ UNCHANGED recorded /\ pending' = Tail(pending) /\ status' = status
      /\ changes' = changes
  BY DEF Folded
<1>2. /\ original' = original /\ ledger' = ledger /\ version' = version
      /\ sections' = sections /\ section' = section
  BY <1>1 DEF recorded
<1>3. MetaTypeOK /\ LogFolded /\ PendingRecorded /\ changes = {}
  BY DEF MetaInv
<1>4. MetaTypeOK'
  BY <1>1, <1>2, <1>3 DEF MetaTypeOK, BuildersTyped, BuilderOf
<1>5. /\ DeltasMatchLedger' /\ FailsOnlyOnOverflow' /\ changes' = {}
      /\ (status = "applying" => pending = << >> /\ builders = << >>)'
  BY <1>1, <1>3 DEF DeltasMatchLedger, FailsOnlyOnOverflow
<1>6. Log' = Log /\ Log \in Seq(Records)
  BY <1>1, RecordedKeeps
<1>7. pending \in Seq(Records)
  BY <1>3 DEF PendingRecorded
<1>8. /\ Len(pending) \in Nat \ {0} /\ c = pending[1] /\ c \in Records
      /\ Tail(pending) \in Seq(Records) /\ Len(Tail(pending)) = Len(pending) - 1
      /\ \A n \in 1 .. Len(pending) - 1 : Tail(pending)[n] = pending[n + 1]
  BY <1>7, RestOf
<1>9. PendingRecorded'
  <2>1. ASSUME ~WellFormed(Tail(pending))
        PROVE  ~WellFormed(pending)
    <3>1. PICK n \in DOMAIN Tail(pending) : Tail(pending)[n].type = "malformed"
      BY <2>1 DEF WellFormed
    <3>2. n \in 1 .. Len(pending) - 1
      BY <1>8, <3>1
    <3>3. n + 1 \in DOMAIN pending /\ pending[n + 1].type = "malformed"
      BY <1>7, <1>8, <3>1, <3>2
    <3> QED
      BY <3>3 DEF WellFormed
  <2> QED
    BY <1>1, <1>3, <1>6, <1>8, <2>1 DEF PendingRecorded
<1>10. LogFolded'
  <2> SUFFICES ASSUME version # 1
               PROVE  /\ Position' \in 0 .. Len(Log')
                      /\ \A n \in 1 .. Len(pending') : pending'[n] = Log'[Position' + n]
                      /\ \A n \in 1 .. Position' : Log'[n].type # "malformed"
                      /\ WellFormed(Log') =>
                           \A k \in Tracked : Builds(builders', Log', Position', original', k)
    BY <1>2 DEF LogFolded
  <2> DEFINE p == Position
  <2>1. /\ p \in 0 .. Len(Log)
        /\ \A n \in 1 .. Len(pending) : pending[n] = Log[p + n]
        /\ \A n \in 1 .. p : Log[n].type # "malformed"
        /\ WellFormed(Log) => \A k \in Tracked : Builds(builders, Log, p, original, k)
    BY <1>3 DEF LogFolded
  <2>2. Position' = Len(Log) - Len(Tail(pending)) /\ p = Len(Log) - Len(pending)
    BY <1>1, <1>6 DEF Position
  <2> HIDE DEF p
  <2>3. Len(Log) \in Nat /\ DOMAIN Log = 1 .. Len(Log)
    BY <1>6
  <2>4. /\ p \in Nat /\ p + 1 \in 1 .. Len(Log) /\ Position' = p + 1
    BY <1>8, <2>1, <2>2, <2>3
  <2>5. Log[p + 1] = c
    BY <1>8, <2>1
  <2>6. \A n \in 1 .. Len(Tail(pending)) : Tail(pending)[n] = Log[(p + 1) + n]
    <3> SUFFICES ASSUME NEW n \in 1 .. Len(pending) - 1
                 PROVE  Tail(pending)[n] = Log[(p + 1) + n]
      BY <1>8
    <3>1. n + 1 \in 1 .. Len(pending) /\ p + (n + 1) = (p + 1) + n
      BY <1>8, <2>4
    <3>2. pending[n + 1] = Log[p + (n + 1)]
      BY <2>1, <3>1
    <3> QED
      BY <1>8, <3>1, <3>2
  <2>7. \A n \in 1 .. p + 1 : Log[n].type # "malformed"
    <3>1. \A n \in 1 .. p + 1 : n \in 1 .. p \/ n = p + 1
      BY <2>4
    <3> QED
      BY <2>1, <2>5, <3>1
  <2>8. ASSUME WellFormed(Log), NEW k \in Tracked
        PROVE  Builds(builders', Log, p + 1, original, k)
    <3>1. Faithful(Log, original, ledger) /\ Builds(builders, Log, p, original, k)
      BY <2>1, <2>8 DEF MetaInv
    <3>2. CASE k = c.key
      BY <2>3, <2>4, <2>5, <3>1, <3>2
    <3>3. CASE k # c.key
      BY <2>4, <2>5, <3>1, <3>3, BuildsElsewhere
    <3> QED
      BY <3>2, <3>3
  <2> QED
    BY <1>1, <1>2, <1>6, <2>3, <2>4, <2>6, <2>7, <2>8
<1> QED
  BY <1>1, <1>4, <1>5, <1>9, <1>10, RecordedKeeps DEF MetaInv

\* The builder a step starts from is one the code may hold.
LEMMA BuilderTyped ==
  ASSUME NEW k \in Tracked, BuildersTyped(builders)
  PROVE  Builder(k) \in BuilderOf(k)
<1>1. NewBuilder \in BuilderOf(k)
  BY DEF NewBuilder, BuilderOf
<1>2. HasBuilder(k) => builders[k] \in BuilderOf(k)
  BY DEF HasBuilder, BuildersTyped
<1> QED
  BY <1>1, <1>2 DEF Builder

\* A change that is not looked at.
LEMMA SkipKeeps ==
  MetaInv /\ Skip => MetaInv'
<1> SUFFICES ASSUME MetaInv, Skip
             PROVE  MetaInv'
  OBVIOUS
<1> DEFINE c == Head(pending)
<1>1. /\ status = "folding" /\ pending # << >> /\ c.type # "malformed"
      /\ ~HasBalance(c) /\ ~HasBuilder(c.key) /\ Folded /\ builders' = builders
  BY DEF Skip, Folding
<1>2. BuildersTyped(builders')
  BY <1>1 DEF MetaInv, MetaTypeOK, BuildersTyped, BuilderOf
<1> HIDE DEF c
<1>3. Elsewhere(builders, builders', c.key)
  BY <1>1 DEF Elsewhere
<1>4. Log \in Seq(Records)
  BY LogOfLists DEF MetaInv, Lists
<1>5. ASSUME NEW p \in Nat, c.key \in Tracked, p + 1 \in DOMAIN Log, Log[p + 1] = c,
             Faithful(Log, original, ledger), Builds(builders, Log, p, original, c.key)
      PROVE  FALSE
  <2>1. ~Seen(Log, p, c.key)
    BY <1>1, <1>5 DEF Builds, HasBuilder
  <2>2. FirstsTell(Log, original)
    BY <1>5 DEF Faithful
  <2>3. c.type \in {"state", "created", "restored"}
    BY <1>4, <1>5, <2>1, <2>2, FirstChange
  <2> QED
    BY <1>1, <1>5, <2>3 DEF HasBalance
<1> QED
  BY <1>1, <1>2, <1>3, <1>5, FoldKeeps DEF c

\* The balance before the transaction, from a state.
LEMMA ApplyStateKeeps ==
  MetaInv /\ ApplyState => MetaInv'
<1> SUFFICES ASSUME MetaInv, ApplyState
             PROVE  MetaInv'
  OBVIOUS
<1> DEFINE c == Head(pending)
           b == Baseline(Builder(c.key), c.amount)
<1>1. /\ status = "folding" /\ pending # << >> /\ c.type = "state" /\ c.key \in Tracked
      /\ WithBuilder(c.key, b) /\ Folded
  BY DEF ApplyState, Folding, HasBalance
<1>2. BuildersTyped(builders)
  BY DEF MetaInv, MetaTypeOK, BuildersTyped, BuilderOf
<1>3. c \in Records
  BY <1>1, RestOf DEF MetaInv, PendingRecorded
<1>4. Log \in Seq(Records)
  BY LogOfLists DEF MetaInv, Lists
<1> HIDE DEF c
<1>5. b \in BuilderOf(c.key)
  <2>1. Builder(c.key) \in BuilderOf(c.key) /\ c.amount \in Amounts[c.key]
    BY <1>1, <1>2, <1>3, BuilderTyped DEF Records
  <2> QED
    BY <2>1 DEF Baseline, BuilderOf
<1> HIDE DEF b
<1>6. /\ BuildersTyped(builders') /\ Elsewhere(builders, builders', c.key)
      /\ c.key \in DOMAIN builders' /\ builders'[c.key] = b
  BY <1>1, <1>2, <1>5, BuilderWritten
<1>7. ASSUME NEW p \in Nat, c.key \in Tracked, p + 1 \in DOMAIN Log, Log[p + 1] = c,
             Faithful(Log, original, ledger), Builds(builders, Log, p, original, c.key)
      PROVE  Builds(builders', Log, p + 1, original, c.key)
  <2>1. FirstsTell(Log, original)
    BY <1>7 DEF Faithful
  <2>2. builders'[c.key] =
          Baseline(IF c.key \in DOMAIN builders THEN builders[c.key] ELSE NewBuilder,
                   Log[p + 1].amount)
    BY <1>6, <1>7 DEF b, Builder, HasBuilder
  <2> QED
    BY <1>1, <1>4, <1>6, <1>7, <2>1, <2>2, StateBuilds
<1> QED
  BY <1>1, <1>6, <1>7, FoldKeeps DEF c

\* The balance after a change, in a builder that has the one before.
LEMMA CurrentKeeps ==
  ASSUME MetaInv, NEW c, c = Head(pending), pending # << >>, status = "folding",
         c.type \notin {"state", "malformed"}, c.key \in Tracked, Folded,
         NEW b \in BuilderOf(c.key), WithBuilder(c.key, Current(b, c.amount)),
         c.amount \in Amounts[c.key] \cup {0},
         \A p \in Nat :
           /\ p + 1 \in DOMAIN Log /\ Log[p + 1] = c /\ FirstsTell(Log, original)
           /\ Builds(builders, Log, p, original, c.key)
           => b.beforeKnown = TRUE /\ b.before = original[c.key].amount
  PROVE  MetaInv'
<1> DEFINE n == Current(b, c.amount)
<1>1. BuildersTyped(builders)
  BY DEF MetaInv, MetaTypeOK, BuildersTyped, BuilderOf
<1>2. /\ n.before = b.before /\ n.beforeKnown = b.beforeKnown
      /\ n.after = c.amount /\ n.afterKnown = TRUE
  BY DEF Current, BuilderOf
<1>3. n \in BuilderOf(c.key)
  BY DEF Current, BuilderOf
<1> HIDE DEF n
<1>4. /\ BuildersTyped(builders') /\ Elsewhere(builders, builders', c.key)
      /\ c.key \in DOMAIN builders' /\ builders'[c.key] = n
  BY <1>1, <1>3, BuilderWritten DEF n
<1>5. Log \in Seq(Records)
  BY LogOfLists DEF MetaInv, Lists
<1>6. ASSUME NEW p \in Nat, c.key \in Tracked, p + 1 \in DOMAIN Log, Log[p + 1] = c,
             Faithful(Log, original, ledger), Builds(builders, Log, p, original, c.key)
      PROVE  Builds(builders', Log, p + 1, original, c.key)
  <2>1. FirstsTell(Log, original)
    BY <1>6 DEF Faithful
  <2>2. b.beforeKnown = TRUE /\ b.before = original[c.key].amount
    BY <1>6, <2>1
  <2>3. c.type # "state"
    OBVIOUS
  <2> QED
    BY <1>2, <1>4, <1>5, <1>6, <2>2, <2>3, CurrentBuilds
<1>7. c.type # "malformed"
  OBVIOUS
<1> QED
  BY <1>4, <1>6, <1>7, FoldKeeps

\* What the steps that set the balance after a change have in common.
LEMMA PendingChange ==
  ASSUME MetaInv, pending # << >>
  PROVE  /\ Head(pending) \in Records /\ BuildersTyped(builders)
         /\ Log \in Seq(Records)
<1>1. Head(pending) \in Records
  BY RestOf DEF MetaInv, PendingRecorded
<1>2. BuildersTyped(builders)
  BY DEF MetaInv, MetaTypeOK, BuildersTyped, BuilderOf
<1>3. Log \in Seq(Records)
  BY LogOfLists DEF MetaInv, Lists
<1> QED
  BY <1>1, <1>2, <1>3

\* A creation: what was not seen before had no balance.
LEMMA ApplyCreatedKeeps ==
  MetaInv /\ ApplyCreated => MetaInv'
<1> SUFFICES ASSUME MetaInv, ApplyCreated
             PROVE  MetaInv'
  OBVIOUS
<1> DEFINE c == Head(pending)
           b == Baseline(Builder(c.key), 0)
<1>1. /\ status = "folding" /\ pending # << >> /\ c.type = "created" /\ c.key \in Tracked
      /\ WithBuilder(c.key, Current(b, c.amount)) /\ Folded
  BY DEF ApplyCreated, Folding, HasBalance
<1>2. c \in Records /\ BuildersTyped(builders) /\ Log \in Seq(Records)
  BY <1>1, PendingChange
<1> HIDE DEF c
<1>3. c.amount \in Amounts[c.key] \cup {0}
  BY <1>1, <1>2 DEF Records
<1>4. b \in BuilderOf(c.key)
  <2>1. Builder(c.key) \in BuilderOf(c.key)
    BY <1>1, <1>2, BuilderTyped
  <2> QED
    BY <2>1 DEF Baseline, BuilderOf
<1> HIDE DEF b
<1>5. ASSUME NEW p \in Nat, p + 1 \in DOMAIN Log, Log[p + 1] = c, FirstsTell(Log, original),
             Builds(builders, Log, p, original, c.key)
      PROVE  b.beforeKnown = TRUE /\ b.before = original[c.key].amount
  <2>1. CASE c.key \in DOMAIN builders
    <3>1. /\ builders[c.key].beforeKnown = TRUE
          /\ builders[c.key].before = original[c.key].amount
      BY <1>5, <2>1 DEF Builds
    <3>2. b = builders[c.key]
      BY <2>1, <3>1 DEF b, Baseline, Builder, HasBuilder
    <3> QED
      BY <3>1, <3>2
  <2>2. CASE c.key \notin DOMAIN builders
    <3>1. ~Seen(Log, p, c.key)
      BY <1>5, <2>2 DEF Builds
    <3>2. original[c.key].amount = 0
      BY <1>1, <1>2, <1>5, <3>1, FirstChange
    <3>3. b.beforeKnown = TRUE /\ b.before = 0
      BY <2>2 DEF b, Baseline, Builder, HasBuilder, NewBuilder
    <3> QED
      BY <3>2, <3>3
  <2> QED
    BY <2>1, <2>2
<1>6. c.type \notin {"state", "malformed"}
  BY <1>1
<1> QED
  BY <1>1, <1>3, <1>4, <1>5, <1>6, CurrentKeeps DEF c

\* An update: its entry was seen, by the state that precedes it at the latest.
LEMMA ApplyUpdatedKeeps ==
  MetaInv /\ ApplyUpdated => MetaInv'
<1> SUFFICES ASSUME MetaInv, ApplyUpdated
             PROVE  MetaInv'
  OBVIOUS
<1> DEFINE c == Head(pending)
           b == Builder(c.key)
<1>1. /\ status = "folding" /\ pending # << >> /\ c.type \in {"updated", "restored"}
      /\ c.key \in Tracked /\ WithBuilder(c.key, Current(b, c.amount)) /\ Folded
  BY DEF ApplyUpdated, Folding, HasBalance
<1>2. c \in Records /\ BuildersTyped(builders) /\ Log \in Seq(Records)
  BY <1>1, PendingChange
<1> HIDE DEF c
<1>3. c.amount \in Amounts[c.key] \cup {0} /\ c.type = "updated"
  BY <1>1, <1>2 DEF Records
<1>4. b \in BuilderOf(c.key)
  BY <1>1, <1>2, BuilderTyped
<1> HIDE DEF b
<1>5. ASSUME NEW p \in Nat, p + 1 \in DOMAIN Log, Log[p + 1] = c, FirstsTell(Log, original),
             Builds(builders, Log, p, original, c.key)
      PROVE  b.beforeKnown = TRUE /\ b.before = original[c.key].amount
  <2>1. c.key \in DOMAIN builders
    <3>1. ASSUME ~Seen(Log, p, c.key)
          PROVE  FALSE
      BY <1>2, <1>3, <1>5, <3>1, FirstChange
    <3> QED
      BY <1>5, <3>1 DEF Builds
  <2>2. /\ builders[c.key].beforeKnown = TRUE
        /\ builders[c.key].before = original[c.key].amount
    BY <1>5, <2>1 DEF Builds
  <2>3. b = builders[c.key]
    BY <2>1 DEF b, Builder, HasBuilder
  <2> QED
    BY <2>2, <2>3
<1>6. c.type \notin {"state", "malformed"}
  BY <1>1
<1> QED
  BY <1>1, <1>3, <1>4, <1>5, <1>6, CurrentKeeps DEF c

\* A removal leaves nothing.
LEMMA ApplyRemovedKeeps ==
  MetaInv /\ ApplyRemoved => MetaInv'
<1> SUFFICES ASSUME MetaInv, ApplyRemoved
             PROVE  MetaInv'
  OBVIOUS
<1> DEFINE c == Head(pending)
           b == Builder(c.key)
<1>1. /\ status = "folding" /\ pending # << >> /\ c.type = "removed"
      /\ c.key \in DOMAIN builders /\ WithBuilder(c.key, Current(b, 0)) /\ Folded
  BY DEF ApplyRemoved, Folding, HasBuilder
<1>2. c \in Records /\ BuildersTyped(builders) /\ Log \in Seq(Records)
  BY <1>1, PendingChange
<1> HIDE DEF c
<1>3. c.amount = 0 /\ c.key \in Tracked
  BY <1>1, <1>2 DEF Records, BuildersTyped
<1>4. b \in BuilderOf(c.key)
  BY <1>2, <1>3, BuilderTyped
<1>5. b = builders[c.key]
  BY <1>1 DEF Builder, HasBuilder
<1> HIDE DEF b
<1>6. ASSUME NEW p \in Nat, p + 1 \in DOMAIN Log, Log[p + 1] = c, FirstsTell(Log, original),
             Builds(builders, Log, p, original, c.key)
      PROVE  b.beforeKnown = TRUE /\ b.before = original[c.key].amount
  BY <1>1, <1>5, <1>6 DEF Builds
<1>7. c.type \notin {"state", "malformed"}
  BY <1>1
<1>8. WithBuilder(c.key, Current(b, c.amount))
  BY <1>1, <1>3
<1>9. c.amount \in Amounts[c.key] \cup {0}
  BY <1>3
<1> QED
  BY <1>1, <1>3, <1>4, <1>6, <1>7, <1>8, <1>9, CurrentKeeps DEF c

\* The fold ends in an error or in a report: what was recorded stays.
LEMMA EndKeeps ==
  ASSUME MetaInv, status = "folding", status' \in {"failed", "done"},
         UNCHANGED <<recorded, pending, builders>>,
         status' = "failed" => changes' = changes,
         DeltasMatchLedger', FailsOnlyOnOverflow'
  PROVE  MetaInv'
<1>1. /\ UNCHANGED recorded /\ pending' = pending /\ builders' = builders
      /\ original' = original /\ ledger' = ledger /\ version' = version
      /\ sections' = sections /\ section' = section
  BY DEF recorded
<1>2. MetaTypeOK /\ PendingRecorded /\ changes = {}
  BY DEF MetaInv
<1>3. MetaTypeOK'
  BY <1>1, <1>2 DEF MetaTypeOK
<1>4. PendingRecorded'
  <2>1. Log' = Log
    BY <1>1 DEF Log
  <2> QED
    BY <1>1, <1>2, <2>1 DEF PendingRecorded, WellFormed
<1>5. LogFolded'
  BY DEF LogFolded
<1>6. /\ (status = "applying" => pending = << >> /\ builders = << >>)'
      /\ (status # "done" => changes = {})'
  BY <1>2
<1> QED
  BY <1>1, <1>3, <1>4, <1>5, <1>6, RecordedKeeps DEF MetaInv

\* A malformed change fails the fold, and it is in the metadata.
LEMMA RejectChangeKeeps ==
  MetaInv /\ RejectChange => MetaInv'
<1> SUFFICES ASSUME MetaInv, RejectChange
             PROVE  MetaInv'
  OBVIOUS
<1>1. /\ status = "folding" /\ pending # << >> /\ Head(pending).type = "malformed"
      /\ status' = "failed" /\ changes' = changes
      /\ UNCHANGED <<recorded, pending, builders>> /\ UNCHANGED recorded
  BY DEF RejectChange, Folding
<1>2. ~WellFormed(pending)
  <2>1. pending \in Seq(Records)
    BY DEF MetaInv, PendingRecorded
  <2>2. 1 \in DOMAIN pending /\ pending[1].type = "malformed"
    BY <1>1, <2>1, RestOf
  <2> QED
    BY <2>2 DEF WellFormed
<1>3. Malformed
  BY <1>2, LogOfLists DEF MetaInv, PendingRecorded, Lists
<1>4. Malformed'
  BY <1>1, <1>3, RecordedKeeps
<1>5. changes' = {}
  BY <1>1 DEF MetaInv
<1>6. DeltasMatchLedger' /\ FailsOnlyOnOverflow'
  BY <1>1, <1>4, <1>5 DEF DeltasMatchLedger, FailsOnlyOnOverflow
<1> QED
  BY <1>1, <1>6, EndKeeps

\* A difference without a 64-bit value fails the fold.
LEMMA ReportOverflowKeeps ==
  MetaInv /\ ReportOverflow => MetaInv'
<1> SUFFICES ASSUME MetaInv, ReportOverflow
             PROVE  MetaInv'
  OBVIOUS
<1>1. /\ status = "folding" /\ status' = "failed" /\ changes' = changes
      /\ UNCHANGED <<recorded, pending, builders>> /\ builders' = builders
  BY DEF ReportOverflow
<1>2. PICK k \in Known : Overflows(builders[k])
  BY DEF ReportOverflow
<1>3. k \in DOMAIN builders /\ builders[k] \in BuilderOf(k) /\ k \in Keys
  BY <1>2, KeyAssumption DEF Known, MetaInv, MetaTypeOK, BuilderOf
<1>4. builders[k].before \in MinInt64 .. MaxInt64 /\ builders[k].after \in MinInt64 .. MaxInt64
  BY <1>3, BalancesFit DEF BuilderOf
<1>5. builders[k].after - builders[k].before \notin MinInt64 .. MaxInt64
  BY <1>2, <1>4, OverflowExact
<1>6. changes' = {}
  BY <1>1 DEF MetaInv
<1>7. FailsOnlyOnOverflow'
  BY <1>1, <1>3, <1>5, <1>6 DEF FailsOnlyOnOverflow
<1>8. DeltasMatchLedger'
  BY <1>1 DEF DeltasMatchLedger
<1> QED
  BY <1>1, <1>7, <1>8, EndKeeps

\* At the end of the log the builders hold what the ledger did.
BuiltOf(bs, from, to, k) ==
  /\ k \in DOMAIN bs =>
       /\ bs[k].beforeKnown = TRUE /\ bs[k].afterKnown = TRUE
       /\ bs[k].before = from[k].amount /\ bs[k].after = to[k].amount
  /\ k \notin DOMAIN bs => from[k].amount = to[k].amount

\* When the whole of a faithful log is folded.
LEMMA LogBuilt ==
  ASSUME NEW log \in Seq(Records), NEW from, NEW to, Faithful(log, from, to),
         NEW bs, NEW k \in Keys, Builds(bs, log, Len(log), from, k),
         k \in DOMAIN bs => bs[k].afterKnown \in BOOLEAN
  PROVE  BuiltOf(bs, from, to, k)
<1>1. /\ Untouched(log, from, to) /\ LastsTell(log, to) /\ StatesLead(log)
      /\ Len(log) \in Nat /\ DOMAIN log = 1 .. Len(log)
  BY DEF Faithful
<1>2. ASSUME k \notin DOMAIN bs
      PROVE  from[k].amount = to[k].amount
  <2>1. \A n \in DOMAIN log : log[n].key # k
    BY <1>1, <1>2 DEF Builds, Seen
  <2> QED
    BY <1>1, <2>1 DEF Untouched
<1>3. ASSUME k \in DOMAIN bs
      PROVE  bs[k].afterKnown = TRUE
  <2>1. SUFFICES ASSUME OnlyStates(log, Len(log), k)
                 PROVE  FALSE
    <3>1. bs[k].afterKnown = TRUE \/ bs[k].afterKnown = FALSE
      BY <1>3
    <3>2. bs[k].afterKnown = FALSE => OnlyStates(log, Len(log), k)
      BY <1>3 DEF Builds
    <3> QED
      BY <3>1, <3>2
  <2>2. PICK n \in DOMAIN log : log[n].key = k
    BY <1>1, <1>3 DEF Builds, Seen
  <2>3. log[n].type = "state"
    BY <1>1, <2>1, <2>2 DEF OnlyStates
  <2>4. n + 1 \in DOMAIN log /\ log[n + 1].key = k /\ log[n + 1].type # "state"
    BY <1>1, <2>2, <2>3 DEF StatesLead
  <2> QED
    BY <1>1, <2>1, <2>4 DEF OnlyStates
<1>4. ASSUME k \in DOMAIN bs
      PROVE  bs[k].after = to[k].amount
  <2>1. Latest(log, Len(log), k, bs[k].after)
    BY <1>3, <1>4 DEF Builds
  <2>2. PICK n \in DOMAIN log :
          /\ log[n].key = k /\ log[n].amount = bs[k].after
          /\ \A m \in DOMAIN log : n < m /\ log[m].key = k => log[m].type = "state"
    BY <1>1, <2>1 DEF Latest
  <2>3. ASSUME NEW m \in DOMAIN log, n < m, log[m].key = k
        PROVE  FALSE
    <3>1. log[m].type = "state"
      BY <2>2, <2>3
    <3>2. m + 1 \in DOMAIN log /\ log[m + 1].key = k /\ log[m + 1].type # "state"
      BY <1>1, <2>3, <3>1 DEF StatesLead
    <3>3. n < m + 1
      BY <1>1, <2>3
    <3> QED
      BY <2>2, <3>2, <3>3
  <2>4. to[k].amount = log[n].amount
    BY <1>1, <2>2, <2>3 DEF LastsTell
  <2> QED
    BY <2>2, <2>4
<1>5. k \in DOMAIN bs => bs[k].beforeKnown = TRUE /\ bs[k].before = from[k].amount
  BY DEF Builds
<1> QED
  BY <1>2, <1>3, <1>4, <1>5 DEF BuiltOf

\* The report is of the entries whose balance the ledger moved.
LEMMA ReportKeeps ==
  MetaInv /\ Report => MetaInv'
<1> SUFFICES ASSUME MetaInv, Report
             PROVE  MetaInv'
  OBVIOUS
<1>1. /\ status = "folding" /\ pending = << >> /\ status' = "done"
      /\ UNCHANGED <<recorded, pending, builders>> /\ UNCHANGED recorded
  BY DEF Report
<1>2. \A k \in Known : ~(builders[k].beforeKnown /\ Overflows(builders[k]))
  BY DEF Report
<1>3. FailsOnlyOnOverflow'
  BY <1>1 DEF FailsOnlyOnOverflow
<1>4. ASSUME version # 1
      PROVE  changes' = LedgerDeltas
  <2>1. WellFormed(Log) /\ \A k \in Tracked : Builds(builders, Log, Len(Log), original, k)
    <3>1. Log \in Seq(Records)
      BY LogOfLists DEF MetaInv, Lists
    <3>2. Len(pending) = 0
      BY <1>1
    <3>3. Position = Len(Log)
      BY <3>1, <3>2 DEF Position
    <3>4. /\ \A n \in 1 .. Position : Log[n].type # "malformed"
          /\ WellFormed(Log) => \A k \in Tracked : Builds(builders, Log, Position, original, k)
      BY <1>1, <1>4 DEF MetaInv, LogFolded
    <3>5. WellFormed(Log)
      BY <3>1, <3>3, <3>4 DEF WellFormed
    <3> QED
      BY <3>3, <3>4, <3>5
  <2>2. Log \in Seq(Records) /\ Faithful(Log, original, ledger)
    BY <2>1, LogOfLists DEF MetaInv, Lists
  <2>3. /\ BuildersTyped(builders) /\ original \in Ledgers /\ ledger \in Ledgers
    BY DEF MetaInv, MetaTypeOK, BuildersTyped, BuilderOf
  <2>4. ASSUME NEW k \in Tracked
        PROVE  /\ k \in Known <=> k \in DOMAIN builders
               /\ k \in Known => /\ builders[k].beforeKnown = TRUE
                                 /\ builders[k].before = original[k].amount
                                 /\ builders[k].after = ledger[k].amount
               /\ k \notin Known => original[k].amount = ledger[k].amount
    <3>1. k \in Keys /\ Builds(builders, Log, Len(Log), original, k)
      BY <2>1, <2>4, KeyAssumption
    <3>2. k \in DOMAIN builders => builders[k].afterKnown \in BOOLEAN
      BY <2>3 DEF BuildersTyped, BuilderOf
    <3>3. BuiltOf(builders, original, ledger, k)
      BY <2>2, <3>1, <3>2, LogBuilt
    <3>4. k \in Known <=> k \in DOMAIN builders
      BY <3>3 DEF Known, BuiltOf
    <3> QED
      BY <3>3, <3>4 DEF BuiltOf
  <2>5. Known \subseteq Tracked
    BY <2>3 DEF Known, BuildersTyped
  <2>6. ASSUME NEW k \in Known
        PROVE  Delta(builders[k]) = ledger[k].amount - original[k].amount
    <3>1. k \in Keys /\ k \in Tracked /\ builders[k] \in BuilderOf(k)
      BY <2>3, <2>5, KeyAssumption DEF Known, BuildersTyped
    <3>2. /\ builders[k].before \in MinInt64 .. MaxInt64
          /\ builders[k].after \in MinInt64 .. MaxInt64
      BY <3>1, BalancesFit DEF BuilderOf
    <3>3. /\ builders[k].beforeKnown = TRUE /\ builders[k].before = original[k].amount
          /\ builders[k].after = ledger[k].amount
      BY <2>4, <3>1
    <3>4. builders[k].after - builders[k].before \in MinInt64 .. MaxInt64
      BY <1>2, <3>2, <3>3, OverflowExact
    <3>5. Wrap(builders[k].after - builders[k].before) = builders[k].after - builders[k].before
      BY <3>4, WrapExact
    <3>6. Delta(builders[k]) = Wrap(builders[k].after - builders[k].before)
      BY <3>3 DEF Delta
    <3> QED
      BY <3>3, <3>5, <3>6
  <2>7. ASSUME NEW k \in Tracked
        PROVE  original[k].amount \in Int /\ ledger[k].amount \in Int
    <3>1. k \in Keys
      BY KeyAssumption
    <3>2. /\ original[k].amount \in MinInt64 .. MaxInt64
          /\ ledger[k].amount \in MinInt64 .. MaxInt64
      BY <2>3, <3>1, LedgerEntry, BalancesFit
    <3> QED
      BY <3>2
  <2> DEFINE moved == {m \in Tracked : original[m].amount # ledger[m].amount}
             told == {m \in Known : ~builders[m].beforeKnown \/ Delta(builders[m]) # 0}
             of(k) == [key |-> k, before |-> original[k].amount, after |-> ledger[k].amount,
                       delta |-> ledger[k].amount - original[k].amount, beforeKnown |-> TRUE]
             by(k) == [key |-> k, before |-> builders[k].before, after |-> builders[k].after,
                       delta |-> Delta(builders[k]), beforeKnown |-> builders[k].beforeKnown]
  <2>8. ASSUME NEW k
        PROVE  k \in told <=> k \in moved
    <3>1. CASE k \in Known
      <4>1. k \in Tracked /\ builders[k].beforeKnown = TRUE
        BY <2>4, <2>5, <3>1
      <4>2. Delta(builders[k]) # 0 <=> original[k].amount # ledger[k].amount
        BY <2>6, <2>7, <3>1, <4>1
      <4> QED
        BY <3>1, <4>1, <4>2
    <3>2. CASE k \notin Known
      BY <2>4, <3>2
    <3> QED
      BY <3>1, <3>2
  <2>9. ASSUME NEW k \in told
        PROVE  by(k) = of(k)
    <3>1. k \in Known /\ k \in Tracked
      BY <2>5
    <3>2. /\ builders[k].beforeKnown = TRUE /\ builders[k].before = original[k].amount
          /\ builders[k].after = ledger[k].amount
      BY <2>4, <3>1
    <3>3. Delta(builders[k]) = ledger[k].amount - original[k].amount
      BY <2>6, <3>1
    <3> QED
      BY <3>2, <3>3
  <2>10. changes' = {by(k) : k \in told}
    BY DEF Report
  <2>11. LedgerDeltas = {of(k) : k \in moved}
    BY DEF LedgerDeltas
  <2> HIDE DEF moved, told, of, by
  <2>12. told = moved
    BY <2>8
  <2>13. {by(k) : k \in told} = {of(k) : k \in told}
    BY <2>9
  <2> QED
    BY <2>10, <2>11, <2>12, <2>13
<1>5. DeltasMatchLedger'
  <2>1. /\ version' = version /\ original' = original /\ ledger' = ledger
    BY <1>1 DEF recorded
  <2>2. LedgerDeltas' = LedgerDeltas
    BY <2>1 DEF LedgerDeltas
  <2> QED
    BY <1>4, <2>1, <2>2 DEF DeltasMatchLedger
<1> QED
  BY <1>1, <1>3, <1>5, EndKeeps

-----------------------------------------------------------------------------
(***************************************************************************)
(* The theorem.                                                            *)
(***************************************************************************)
\* The invariant depends on the variables only.
LEMMA StutterKeeps ==
  MetaInv /\ UNCHANGED metaVars => MetaInv'
<1> SUFFICES ASSUME MetaInv, UNCHANGED metaVars
             PROVE  MetaInv'
  OBVIOUS
<1>1. /\ UNCHANGED recorded /\ original' = original /\ ledger' = ledger
      /\ version' = version /\ sections' = sections /\ section' = section
      /\ pending' = pending /\ builders' = builders /\ status' = status
      /\ changes' = changes
  BY DEF metaVars, recorded
<1>2. Log' = Log
  BY <1>1 DEF Log
<1>3. Position' = Position
  BY <1>1, <1>2 DEF Position
<1>4. MetaTypeOK' /\ PendingRecorded'
  BY <1>1, <1>2 DEF MetaInv, MetaTypeOK, PendingRecorded, WellFormed
<1>5. LogFolded'
  BY <1>1, <1>2, <1>3 DEF MetaInv, LogFolded
<1>6. DeltasMatchLedger'
  BY <1>1 DEF MetaInv, DeltasMatchLedger, LedgerDeltas
<1>7. FailsOnlyOnOverflow'
  <2>1. Malformed' <=> Malformed
    BY <1>1, RecordedKeeps
  <2> QED
    BY <1>1, <2>1 DEF MetaInv, FailsOnlyOnOverflow
<1> QED
  BY <1>1, <1>4, <1>5, <1>6, <1>7, RecordedKeeps DEF MetaInv

\* Every step of the ledger and of the fold keeps the invariant.
LEMMA MetaInvKept ==
  MetaInv /\ [MetaNext]_metaVars => MetaInv'
<1>1. MetaInv /\ Ledger => MetaInv'
  BY LedgerKeeps
<1>2. MetaInv /\ DiffBalances => MetaInv'
  BY StartKeeps, SkipKeeps, ApplyStateKeeps, ApplyCreatedKeeps, ApplyUpdatedKeeps,
     ApplyRemovedKeeps, RejectChangeKeeps, ReportOverflowKeeps, ReportKeeps
     DEF DiffBalances, ApplyLedgerEntryChange
<1> QED
  BY <1>1, <1>2, StutterKeeps DEF MetaNext

\* meta_diff.go 33-151: whatever a transaction did to the ledger, in any number
\* of changes, the deltas folded from its metadata are the ledger's own, in
\* every version but 1; and where there is none the metadata was malformed, of
\* an unknown version, or a delta has no 64-bit value.
THEOREM DeltasAreExact == MetaSpec => []DeltasExact
<1>1. MetaInit => MetaInv
  BY MetaInvStarts
<1>2. MetaInv /\ [MetaNext]_metaVars => MetaInv'
  BY MetaInvKept
<1>3. MetaInv => DeltasExact
  BY DEF MetaInv, DeltasExact
<1> QED
  BY <1>1, <1>2, <1>3, PTL DEF MetaSpec

=============================================================================
