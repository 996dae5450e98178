------------------------------- MODULE MetaDiff -------------------------------
(***************************************************************************)
(* pkg/lens/meta_diff.go: the balance deltas of a transaction, folded from *)
(* the ledger entry changes in its metadata.  The ledger that applied the  *)
(* transaction and recorded them is the environment.                       *)
(***************************************************************************)
EXTENDS Integers, Sequences, FiniteSets

CONSTANTS
  Keys,              \* ledger keys
  Tracked,           \* those of accounts, trustlines and claimable balances
  Amounts,           \* Amounts[k]: balances that the entry k may hold
  MinInt64, MaxInt64,
  Versions,          \* values of the version field of the metadata
  MaxChanges         \* how many changes the ledger records

ASSUME KeyAssumption == Tracked \subseteq Keys
ASSUME AmountAssumption ==
  /\ MinInt64 \in Int /\ MaxInt64 \in Nat /\ MinInt64 = -MaxInt64 - 1
  /\ Amounts \in [Keys -> SUBSET (MinInt64 .. MaxInt64)]
ASSUME ChangeAssumption == Versions \subseteq Nat /\ MaxChanges \in Nat

VARIABLES
  original, ledger,   \* entries before the transaction and now
  version, sections,  \* the metadata: its version, its lists of changes
  section,            \* the list the ledger is writing
  pending,            \* changes not yet folded
  builders,           \* builders, by key
  status,             \* "applying", "folding", "done" or "failed"
  changes             \* the result

metaVars == <<original, ledger, version, sections, section, pending, builders,
              status, changes>>
recorded == <<original, ledger, version, sections, section>>

Absent    == [amount |-> 0, here |-> FALSE]
Entry(a)  == [amount |-> a, here |-> TRUE]
Entries(k) == {Absent} \cup {Entry(a) : a \in Amounts[k]}
Ledgers   == {l \in [Keys -> UNION {Entries(k) : k \in Keys}] :
                \A k \in Keys : l[k] \in Entries(k)}

-----------------------------------------------------------------------------
(***************************************************************************)
(* The ledger: it applies the transaction's own changes, its operations,   *)
(* and what follows them, and records each as it happens.                  *)
(***************************************************************************)
\* Operations stand in one list: the code visits them one after the other.
SectionsOf(v) == CASE v = 0 -> <<"ops">>
                   [] v = 1 -> <<"before", "ops">>
                   [] v \in 2 .. 4 -> <<"before", "ops", "after">>
                   [] OTHER -> <<"ops">>

Change(type, k, amount) == [type |-> type, key |-> k, amount |-> amount]

Recorded == Len(sections["before"]) + Len(sections["ops"]) + Len(sections["after"])

Record(list) ==
  /\ Recorded + Len(list) <= MaxChanges
  /\ sections' = [sections EXCEPT ![SectionsOf(version)[section]] = @ \o list]

\* What would follow a malformed change is never looked at.
Malformed == \E s \in DOMAIN sections :
               \E n \in DOMAIN sections[s] : sections[s][n].type = "malformed"
Applying == status = "applying" /\ ~Malformed
LedgerRest == UNCHANGED <<original, version, section, pending, builders, status, changes>>

\* Outside operations a transaction changes accounts: fees, sequence numbers.
InOperation == SectionsOf(version)[section] = "ops"

LedgerUpdates(k, a) ==
  /\ Applying /\ ledger[k].here
  /\ ledger' = [ledger EXCEPT ![k] = Entry(a)]
  /\ Record(<<Change("state", k, ledger[k].amount), Change("updated", k, a)>>)
  /\ LedgerRest

LedgerCreates(k, a) ==
  /\ Applying /\ InOperation /\ ~ledger[k].here
  /\ ledger' = [ledger EXCEPT ![k] = Entry(a)]
  /\ Record(<<Change("created", k, a)>>)
  /\ LedgerRest

LedgerRemoves(k) ==
  /\ Applying /\ InOperation /\ ledger[k].here
  /\ ledger' = [ledger EXCEPT ![k] = Absent]
  /\ Record(<<Change("state", k, ledger[k].amount), Change("removed", k, 0)>>)
  /\ LedgerRest

\* Only entries of contracts are archived and restored.
LedgerRestores(k, a) ==
  /\ Applying /\ InOperation /\ ~ledger[k].here /\ k \notin Tracked
  /\ ledger' = [ledger EXCEPT ![k] = Entry(a)]
  /\ Record(<<Change("restored", k, a)>>)
  /\ LedgerRest

\* A change that decodes but is not well formed: an unknown type, an arm that
\* is missing, another asset under the same key.
DamagedMetadata(k) ==
  /\ Applying
  /\ Record(<<Change("malformed", k, 0)>>)
  /\ UNCHANGED ledger
  /\ LedgerRest

NextSection ==
  /\ status = "applying" /\ section < Len(SectionsOf(version))
  /\ section' = section + 1
  /\ UNCHANGED <<original, ledger, version, sections, pending, builders, status, changes>>

Ledger ==
  \/ NextSection
  \/ \E k \in Keys :
       \/ LedgerRemoves(k) \/ DamagedMetadata(k)
       \/ \E a \in Amounts[k] : \/ LedgerUpdates(k, a) \/ LedgerCreates(k, a)
                             \/ LedgerRestores(k, a)

-----------------------------------------------------------------------------
(***************************************************************************)
(* DiffTransactionMetaBalances.                                            *)
(***************************************************************************)
\* The order in which the lists of each version are processed.
FoldOrder(v) ==
  CASE v = 0 -> sections["ops"]
    [] v = 1 -> sections["ops"] \o sections["before"]
    [] OTHER -> sections["before"] \o sections["ops"] \o sections["after"]

StartDiff ==
  /\ status = "applying"
  /\ IF version > 4 THEN status' = "failed" /\ UNCHANGED pending
     ELSE status' = "folding" /\ pending' = FoldOrder(version)
  /\ UNCHANGED <<recorded, builders, changes>>

NewBuilder == [before |-> 0, after |-> 0, beforeKnown |-> FALSE, afterKnown |-> FALSE]
HasBuilder(k) == k \in DOMAIN builders
Builder(k) == IF HasBuilder(k) THEN builders[k] ELSE NewBuilder
WithBuilder(k, b) ==
  builders' = [m \in DOMAIN builders \cup {k} |-> IF m = k THEN b ELSE builders[m]]

Folding(types) == status = "folding" /\ pending # << >> /\ Head(pending).type \in types
Folded == pending' = Tail(pending) /\ UNCHANGED <<recorded, status, changes>>
HasBalance(c) == c.key \in Tracked /\ c.type # "removed"

\* An entry without a balance, or the removal of one that was never seen.
Skip ==
  /\ Folding({"state", "created", "updated", "restored", "removed"})
  /\ ~HasBalance(Head(pending)) /\ ~HasBuilder(Head(pending).key)
  /\ Folded /\ UNCHANGED builders

BaselineLast(b, amount) == [b EXCEPT !.before = amount, !.beforeKnown = TRUE]

\* The first baseline is kept.
Baseline(b, amount) ==
  IF b.beforeKnown THEN b
  ELSE [b EXCEPT !.before = amount, !.beforeKnown = TRUE]

Current(b, amount) == [b EXCEPT !.after = amount, !.afterKnown = TRUE]

ApplyState ==
  /\ Folding({"state"}) /\ HasBalance(Head(pending))
  /\ LET c == Head(pending)
     IN  WithBuilder(c.key, Baseline(Builder(c.key), c.amount))
  /\ Folded

ApplyCreated ==
  /\ Folding({"created"}) /\ HasBalance(Head(pending))
  /\ LET c == Head(pending)
     IN  WithBuilder(c.key, Current(Baseline(Builder(c.key), 0), c.amount))
  /\ Folded

ApplyUpdated ==
  /\ Folding({"updated", "restored"}) /\ HasBalance(Head(pending))
  /\ LET c == Head(pending)
     IN  WithBuilder(c.key, Current(Builder(c.key), c.amount))
  /\ Folded

ApplyRemoved ==
  /\ Folding({"removed"}) /\ HasBuilder(Head(pending).key)
  /\ LET c == Head(pending)
     IN  WithBuilder(c.key, Current(Builder(c.key), 0))
  /\ Folded

RejectChange ==
  /\ Folding({"malformed"})
  /\ status' = "failed"
  /\ UNCHANGED <<recorded, pending, builders, changes>>

ApplyLedgerEntryChange ==
  Skip \/ ApplyState \/ ApplyCreated \/ ApplyUpdated \/ ApplyRemoved \/ RejectChange

Known == {k \in DOMAIN builders : builders[k].afterKnown}

\* The test that precedes the subtraction; it does not overflow itself.
Overflows(b) ==
  \/ b.before < 0 /\ b.after > MaxInt64 + b.before
  \/ b.before > 0 /\ b.after < MinInt64 + b.before

Wrap(n) == ((n - MinInt64) % (MaxInt64 - MinInt64 + 1)) + MinInt64
Delta(b) == IF b.beforeKnown THEN Wrap(b.after - b.before) ELSE 0

ReportOverflow ==
  /\ status = "folding" /\ pending = << >>
  /\ \E k \in Known : builders[k].beforeKnown /\ Overflows(builders[k])
  /\ status' = "failed"
  /\ UNCHANGED <<recorded, pending, builders, changes>>

\* The changes are sorted by holder, asset and key, which is unique: their
\* order says nothing, so they are a set here.
Report ==
  /\ status = "folding" /\ pending = << >>
  /\ \A k \in Known : ~(builders[k].beforeKnown /\ Overflows(builders[k]))
  /\ status' = "done"
  /\ changes' =
       {[key |-> k, before |-> builders[k].before, after |-> builders[k].after,
         delta |-> Delta(builders[k]), beforeKnown |-> builders[k].beforeKnown] :
           k \in {m \in Known : ~builders[m].beforeKnown \/ Delta(builders[m]) # 0}}
  /\ UNCHANGED <<recorded, pending, builders>>

DiffBalances == StartDiff \/ ApplyLedgerEntryChange \/ ReportOverflow \/ Report

MetaInit ==
  /\ original \in Ledgers /\ ledger = original
  /\ version \in Versions
  /\ sections = [s \in {"before", "ops", "after"} |-> << >>] /\ section = 1
  /\ pending = << >> /\ builders = << >> /\ status = "applying" /\ changes = {}

MetaNext == Ledger \/ DiffBalances
MetaSpec == MetaInit /\ [][MetaNext]_metaVars

-----------------------------------------------------------------------------
(***************************************************************************)
(* Properties.                                                             *)
(***************************************************************************)
MetaTypeOK ==
  /\ {original, ledger} \subseteq Ledgers
  /\ section \in DOMAIN SectionsOf(version)
  /\ DOMAIN builders \subseteq Tracked
  /\ \A k \in DOMAIN builders :
       builders[k] \in [before : Amounts[k] \cup {0}, after : Amounts[k] \cup {0},
                        beforeKnown : BOOLEAN, afterKnown : BOOLEAN]
  /\ status \in {"applying", "folding", "done", "failed"}

\* What the ledger did to the balances: an absent entry counts as zero.
LedgerDeltas ==
  {[key |-> k, before |-> original[k].amount, after |-> ledger[k].amount,
    delta |-> ledger[k].amount - original[k].amount, beforeKnown |-> TRUE] :
      k \in {m \in Tracked : original[m].amount # ledger[m].amount}}

\* The reported changes are exactly the ledger's: no balance that moved is
\* missing, none that did not is listed, and intermediate values of one that
\* was updated, removed and created again leave no trace.  Metadata of version
\* 1 is the subject of DeltasInEveryVersion.
DeltasMatchLedger ==
  status = "done" /\ version # 1 => changes = LedgerDeltas

\* A well-formed transaction of a version the code knows fails only where a
\* delta cannot be said in 64 bits, and then no delta is reported.
FailsOnlyOnOverflow ==
  status = "failed" =>
    /\ changes = {}
    /\ \/ version > 4
       \/ Malformed
       \/ \E k \in DOMAIN builders :
            builders[k].after - builders[k].before \notin MinInt64 .. MaxInt64

\* "DiffTransactionMetaBalances accepts decoded TransactionMeta versions 0
\* through 4 and returns deterministic deltas for account XLM balances, ...
\* A STATE entry supplies the before snapshot."
DeltasInEveryVersion == status = "done" => changes = LedgerDeltas

\* meta_diff.go 33-151: a transaction's metadata, folded in the order of its
\* version, gives the balances the ledger moved, or an error where the ledger's
\* difference has no 64-bit value; never a part of them.
DeltasExact ==
  MetaTypeOK /\ DeltasMatchLedger /\ FailsOnlyOnOverflow

=============================================================================
