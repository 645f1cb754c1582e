----------------------------- MODULE XtbAccounts -----------------------------
(***************************************************************************)
(* XTB: several accounts share one raw table keyed on the account id of    *)
(* the report's filename.  A report uploaded for one account triggers a    *)
(* run, which rebuilds the snapshot of every account from the raw table;   *)
(* the purge-account command removes one account from raw, snapshot and    *)
(* events, table by table.  Runs and purges share nothing but the tables.  *)
(*                                                                         *)
(* A raw write is one step here: Connector has its open and its commit.    *)
(***************************************************************************)
EXTENDS Naturals, Sequences, FiniteSets

CONSTANTS
    Account,      \* account ids
    NoId,         \* the account id no filename gives: NULL
    Run,          \* the run-connector tasks that ever start
    MaxAsOf,      \* exports of one account, oldest to newest
    MaxFiles,     \* bound on the files of one run
    MaxPurges,    \* bound on the purges
    Malformed,    \* may an uploaded workbook fail to parse?
    Legacy,       \* may the raw table hold NULL-keyed rows of older versions?
    RunsOverlap,  \* may two runs be active at once?
    PurgeOverlaps, \* may a purge be active beside a run?
    OthersHold    \* do other brokers have holdings?

ASSUME NoIdIsNoAccount == NoId \notin Account
ASSUME BoundsAreNat == MaxAsOf \in Nat \ {0} /\ MaxFiles \in Nat /\ MaxPurges \in Nat
ASSUME SwitchesAreBoolean == {Malformed, Legacy, RunsOverlap, PurgeOverlaps, OthersHold} \subseteq BOOLEAN

AsOf == 1 .. MaxAsOf

\* An uploaded workbook: `key` is the id its filename gives, `account` the one in
\* its first row; its cash operations are those of its account up to `asof`.
Report == {f \in [key : Account \union {NoId}, account : Account, asof : AsOf, good : BOOLEAN] :
              f.key \in {f.account, NoId} /\ (f.good \/ Malformed)}
Row == [key : Account \union {NoId}, account : Account, asof : AsOf, good : BOOLEAN, at : Nat]
Operation == [account : Account, id : AsOf, at : Nat]

VARIABLES
    clock,     \* the last fetched_at
    raw,       \* raw/xtb
    snapshot,  \* normalized/xtb_snapshot, as the raw rows its holdings come from
    events,    \* normalized/xtb_events
    run,       \* the state of each run
    purge,     \* the state of the last purge
    asked,     \* history: the accounts a purge was asked for, with the fetches until then
    gold,      \* the accounts and fetches the gold tables show
    settled,   \* history: a consolidation ended green since the last purge ended
    spoiled    \* history: the accounts a malformed report was ingested of, and when

shown == <<gold, settled>>
vars == <<clock, raw, snapshot, events, run, purge, shown, asked, spoiled>>

RunPC == {"idle", "triggered", "fetch", "read", "write", "merge", "done"}
\* mine, kept for the properties: the raw rows the run wrote.
NewRun == [pc |-> "idle", files |-> <<>>, mine |-> {}, failed |-> FALSE,
           picked |-> {}, outcome |-> "none"]
NoPurge == [pc |-> "idle", account |-> NoId, failed |-> FALSE, since |-> 0, count |-> 0]

Active(r) == run[r].pc \notin {"idle", "triggered", "done"}
Purging == purge.pc \in {"raw", "snapshot", "events"}

---------------------------------------------------------------------------
(* _latest_per_account.                                                    *)

\* The account a row counts for; a NULL-keyed row is parsed to find out.
GroupOf(row) == IF row.key = NoId THEN row.account ELSE row.key

\* Faulty: the rows of an account are sorted oldest first.
OldestPerAccount(rows) ==
    {row \in rows : /\ row.good
                    /\ \A o \in rows : o.good /\ GroupOf(o) = GroupOf(row) => o.at >= row.at}

\* The newest row of each account that parses; malformed rows are passed over.
LatestPerAccount(rows) ==
    {row \in rows : /\ row.good
                    /\ \A o \in rows : o.good /\ GroupOf(o) = GroupOf(row) => o.at <= row.at}

---------------------------------------------------------------------------
(* run-connector xtb.                                                      *)

Files == UNION {[1 .. n -> Report] : n \in 1 .. MaxFiles}

Step(r, changed) == run' = [run EXCEPT ![r] = changed]

\* The files arrive; the task they trigger starts later.
Upload(r, files) ==
    /\ run[r].pc = "idle"
    /\ Step(r, [run[r] EXCEPT !.pc = "triggered", !.files = files])
    /\ UNCHANGED <<clock, raw, snapshot, events, purge, asked, spoiled, shown>>

Start(r) ==
    /\ run[r].pc = "triggered"
    /\ RunsOverlap \/ \A o \in Run : ~Active(o)
    /\ PurgeOverlaps \/ ~Purging
    /\ Step(r, [run[r] EXCEPT !.pc = "fetch"])
    /\ UNCHANGED <<clock, raw, snapshot, events, purge, asked, spoiled, shown>>

\* The run after one of its files: a failed file stops the run after the last one.
AfterFile(rec) ==
    LET rest == [rec EXCEPT !.files = Tail(@)]
    IN  IF rest.files # <<>> THEN rest
        ELSE IF rest.failed THEN [NewRun EXCEPT !.pc = "done", !.outcome = "red"]
        ELSE [rest EXCEPT !.pc = "read"]

\* A filename without an account id: the report is dropped, the run goes on.
DropFile(r) ==
    /\ run[r].pc = "fetch"
    /\ Head(run[r].files).key = NoId
    /\ Step(r, AfterFile(run[r]))
    /\ UNCHANGED <<clock, raw, snapshot, events, purge, asked, spoiled, shown>>

RowOf(f, at) ==
    [key |-> f.key, account |-> f.account, asof |-> f.asof, good |-> f.good, at |-> at]

\* The report replaces its account's row.
IngestFile(r) ==
    /\ run[r].pc = "fetch"
    /\ Head(run[r].files).key # NoId
    /\ clock' = clock + 1
    /\ LET row == RowOf(Head(run[r].files), clock')
       IN  /\ raw' = {old \in raw : old.key # row.key} \union {row}
           /\ Step(r, AfterFile([run[r] EXCEPT !.mine = @ \union {row}]))
           /\ spoiled' = IF row.good THEN spoiled
                         ELSE spoiled \union {[account |-> row.account, at |-> clock']}
    /\ UNCHANGED <<snapshot, events, purge, asked, shown>>

\* The file cannot be read or its write raises: the other files are still tried.
FileFails(r) ==
    /\ run[r].pc = "fetch"
    /\ Step(r, AfterFile([run[r] EXCEPT !.failed = TRUE]))
    /\ UNCHANGED <<clock, raw, snapshot, events, purge, asked, spoiled, shown>>

\* One read of the raw table feeds both transforms; an empty one skips them.
ReadRaw(r) ==
    /\ run[r].pc = "read"
    /\ Step(r, IF raw = {} THEN [run[r] EXCEPT !.pc = "done", !.outcome = "green"]
               ELSE [run[r] EXCEPT !.pc = "write", !.picked = LatestPerAccount(raw)])
    /\ UNCHANGED <<clock, raw, snapshot, events, purge, asked, spoiled, shown>>

\* Faulty: the snapshot is overwritten with what this run fetched.
WriteSnapshotOwn(r) ==
    /\ run[r].pc = "write"
    /\ snapshot' = run[r].picked \intersect run[r].mine
    /\ Step(r, [run[r] EXCEPT !.pc = "merge"])
    /\ UNCHANGED <<clock, raw, events, purge, asked, spoiled, shown>>

WriteSnapshot(r) ==
    /\ run[r].pc = "write"
    /\ snapshot' = run[r].picked
    /\ Step(r, [run[r] EXCEPT !.pc = "merge"])
    /\ UNCHANGED <<clock, raw, events, purge, asked, spoiled, shown>>

\* Faulty: the identity of an event is its operation id alone.
SameOperationId(a, b) == a.id = b.id

\* The identity of an event is (event_type, event_id, account_id).
SameOperation(a, b) == a.account = b.account /\ a.id = b.id

OperationsOf(rows) ==
    UNION {[account : {row.account}, id : 1 .. row.asof, at : {row.at}] : row \in rows}

\* Update what is newer, insert what is new, delete nothing.
MergeEvents(r) ==
    /\ run[r].pc = "merge"
    /\ LET batch == OperationsOf(run[r].picked)
           older(op) == \E new \in batch : SameOperation(new, op) /\ new.at > op.at
           insert == {new \in batch : \A op \in events : SameOperation(new, op) => new.at > op.at}
       IN  events' = {op \in events : ~older(op)} \union insert
    /\ Step(r, [run[r] EXCEPT !.pc = "done", !.outcome = "green", !.picked = {}])
    /\ UNCHANGED <<clock, raw, snapshot, purge, asked, spoiled, shown>>

\* A transform or a write raises, the validation fails, or the task is killed.
Aborted(r) ==
    /\ Active(r)
    /\ Step(r, [NewRun EXCEPT !.pc = "done", !.outcome = "red"])
    /\ UNCHANGED <<clock, raw, snapshot, events, purge, asked, spoiled, shown>>

---------------------------------------------------------------------------
(* purge-account --yes.                                                    *)

PurgeAccount(a) ==
    /\ ~Purging
    /\ purge.count < MaxPurges
    /\ PurgeOverlaps \/ \A r \in Run : ~Active(r)
    /\ purge' = [pc |-> "raw", account |-> a, failed |-> FALSE, since |-> clock,
                 count |-> purge.count + 1]
    /\ asked' = asked \union {[account |-> a, upto |-> clock]}
    /\ settled' = FALSE
    /\ UNCHANGED <<clock, raw, snapshot, events, run, spoiled, gold>>

AfterPurgeOf == [raw |-> "snapshot", snapshot |-> "events", events |-> "done"]

\* Faulty: a delete that failed is not remembered.
PurgeFailsForgotten ==
    /\ Purging
    /\ purge' = [purge EXCEPT !.pc = AfterPurgeOf[@]]
    /\ UNCHANGED <<clock, raw, snapshot, events, run, asked, spoiled, shown>>

\* One delete raises; the next tables are still purged, and the exit code is 1.
PurgeFails ==
    /\ Purging
    /\ purge' = [purge EXCEPT !.pc = AfterPurgeOf[@], !.failed = TRUE]
    /\ UNCHANGED <<clock, raw, snapshot, events, run, asked, spoiled, shown>>

\* The open of a table raises (anything but a missing table): the command ends.
PurgeRaises ==
    /\ Purging
    /\ purge' = [purge EXCEPT !.pc = "done", !.failed = TRUE]
    /\ UNCHANGED <<clock, raw, snapshot, events, run, asked, spoiled, shown>>

PurgeRaw ==
    /\ purge.pc = "raw"
    /\ raw' = {row \in raw : row.key # purge.account}
    /\ purge' = [purge EXCEPT !.pc = "snapshot"]
    /\ UNCHANGED <<clock, snapshot, events, run, asked, spoiled, shown>>

PurgeSnapshot ==
    /\ purge.pc = "snapshot"
    /\ snapshot' = {row \in snapshot : row.account # purge.account}
    /\ purge' = [purge EXCEPT !.pc = "events"]
    /\ UNCHANGED <<clock, raw, events, run, asked, spoiled, shown>>

\* The last table; then the raw table is read for the residue warning, which may
\* raise.  Exit code 0 when nothing failed.
PurgeEvents ==
    /\ purge.pc = "events"
    /\ events' = {op \in events : op.account # purge.account}
    /\ \E raises \in BOOLEAN :
            purge' = [purge EXCEPT !.pc = "done", !.failed = @ \/ raises]
    /\ UNCHANGED <<clock, raw, snapshot, run, asked, spoiled, shown>>

---------------------------------------------------------------------------
(* run-consolidate-analytics, in one step that is not beside another: it    *)
(* may fail without effect, and Orchestrator has its parts.                *)

\* Faulty: with no holdings there is nothing to do.
ConsolidateNothing ==
    /\ gold' = IF snapshot = {} /\ ~OthersHold THEN gold
               ELSE {[account |-> row.account, at |-> row.at] : row \in snapshot \union events}
    /\ settled' = ~Purging
    /\ UNCHANGED <<clock, raw, snapshot, events, run, purge, asked, spoiled>>

\* A snapshot or events table it cannot open goes for an empty one.  With no holdings at
\* all, cmd_consolidate ends the command with exit code 1.
Consolidate ==
    /\ \E held \in {snapshot, {}}, operations \in {events, {}} :
           /\ held # {} \/ OthersHold
           /\ gold' = {[account |-> row.account, at |-> row.at] : row \in held \union operations}
    /\ settled' = ~Purging
    /\ UNCHANGED <<clock, raw, snapshot, events, run, purge, asked, spoiled>>

---------------------------------------------------------------------------

Init ==
    /\ clock = 0
    /\ raw \in {{}} \union {{[key |-> NoId, account |-> a, asof |-> 1, good |-> TRUE, at |-> 0]} :
                              a \in {b \in Account : Legacy}}
    /\ snapshot = {}
    /\ events = {}
    /\ run = [r \in Run |-> NewRun]
    /\ purge = NoPurge
    /\ gold = {} /\ settled = FALSE
    /\ asked = {}
    /\ spoiled = {}

RunNext(r) ==
    \/ \E files \in Files : Upload(r, files)
    \/ Start(r) \/ DropFile(r) \/ IngestFile(r) \/ FileFails(r)
    \/ ReadRaw(r) \/ WriteSnapshot(r) \/ MergeEvents(r) \/ Aborted(r)

PurgeNext ==
    \/ \E a \in Account : PurgeAccount(a)
    \/ PurgeFails \/ PurgeRaises \/ PurgeRaw \/ PurgeSnapshot \/ PurgeEvents

Next == Consolidate \/ PurgeNext \/ \E r \in Run : RunNext(r)

Spec == Init /\ [][Next]_vars

---------------------------------------------------------------------------
(* Correctness.                                                            *)

RunRecord ==
    [pc : RunPC, files : Seq(Report), mine : SUBSET Row, failed : BOOLEAN,
     picked : SUBSET Row, outcome : {"none", "green", "red"}]
PurgeRecord ==
    [pc : {"idle", "raw", "snapshot", "events", "done"}, account : Account \union {NoId},
     failed : BOOLEAN, since : Nat, count : Nat]

\* The type of every variable.
TypeOK ==
    /\ clock \in Nat
    /\ raw \subseteq Row /\ snapshot \subseteq Row /\ events \subseteq Operation
    /\ run \in [Run -> RunRecord] /\ purge \in PurgeRecord
    /\ gold \subseteq [account : Account, at : Nat] /\ settled \in BOOLEAN
    /\ asked \subseteq [account : Account, upto : Nat]
    /\ spoiled \subseteq [account : Account, at : Nat]

\* Nothing fetched until then was asked to be purged of this account.
Wanted(account, at) == \A p \in asked : p.account = account => p.upto < at

\* No report of the account that came after it was malformed.
Sound(account, at) == \A m \in spoiled : m.account = account => m.at < at

\* A green run's last report of an account is what the snapshot shows of it, or a
\* newer one is, and its operations are in the events table, unless it was purged
\* since or a malformed report took its place in the raw table.
GreenShown ==
    \A r \in Run : run[r].outcome = "green" =>
        \A row \in LatestPerAccount(run[r].mine) :
            Wanted(row.account, row.at) /\ Sound(row.account, row.at) =>
            /\ \E s \in snapshot : s.account = row.account /\ s.at >= row.at
            /\ \A id \in 1 .. row.asof :
                    \E op \in events : op.account = row.account /\ op.id = id

\* What the snapshot shows of an account is replaced only by a report fetched
\* later, and disappears only when it was asked to be purged or a malformed report
\* replaced it: a run for one account never takes another's holdings away.
AccountsMoveOn ==
    [][\A s \in snapshot : Wanted(s.account, s.at) /\ Sound(s.account, s.at) =>
          \E t \in snapshot' : t.account = s.account /\ t.at >= s.at]_snapshot

\* An operation leaves the events table only with its purged account, whatever
\* ids the other accounts use.
OperationsKept ==
    [][\A op \in events : Wanted(op.account, op.at) =>
          \E new \in events' : /\ new.account = op.account /\ new.id = op.id
                               /\ new.at >= op.at]_events

\* A NULL-keyed raw row of the account is out of reach of its purge.
PurgeDone ==
    /\ purge.pc = "done" /\ ~purge.failed
    /\ \A row \in raw : row.account = purge.account => row.key # NoId

\* After a purge that exits 0, nothing that was fetched before it remains of the
\* account or comes back in raw, snapshot and events, unless a NULL-keyed raw row is
\* of that account, which no purge can address.
PurgedStays ==
    PurgeDone =>
        /\ \A row \in raw \union snapshot : row.account = purge.account => row.at > purge.since
        /\ \A op \in events : op.account = purge.account => op.at > purge.since

\* Once a consolidation ended green after such a purge, gold shows nothing of the
\* purged account, not even when it was the only one with holdings: then every
\* consolidation is red until there are some again.
PurgedLeavesGold ==
    PurgeDone /\ settled =>
        \A row \in gold : row.account = purge.account => row.at > purge.since
=============================================================================
