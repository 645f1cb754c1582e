---------------------------- MODULE Orchestrator ----------------------------
(***************************************************************************)
(* The Step Functions executions and the consolidate-allocate task they    *)
(* end with: a Map over the connectors of the execution's input, each task *)
(* retried, then one task that rewrites the consolidated tables and the    *)
(* gold tables from whatever silver holds.  Nothing keeps two executions   *)
(* apart: the schedule, a file arrival and `full` each start their own.    *)
(*                                                                         *)
(* A table's content is, per connector, the number of the fetch it comes   *)
(* from (0: no rows), and the connectors whose silver the consolidation    *)
(* behind it could not open or read: it goes on without their rows.  What  *)
(* a task does inside is in Connector.                                     *)
(***************************************************************************)
EXTENDS Integers, Sequences, FiniteSetsExt

CONSTANTS
    Connectors,      \* the registered connectors
    Executions,      \* the executions that may be started
    Listed,          \* the connectors in the input of each execution
    MaxConcurrency,  \* of the Map state
    MaxAttempts,     \* retries of a failed connector task
    MaxUnread,       \* bound on the tables one consolidation step cannot read
    Overlap          \* whether an execution may start while another is at work

ASSUME ListedAreRegistered == Listed \in [Executions -> SUBSET Connectors]
ASSUME BoundsAreNatural ==
    MaxConcurrency \in Nat \ {0} /\ MaxAttempts \in Nat /\ MaxUnread \in Nat
ASSUME OverlapIsBoolean == Overlap \in BOOLEAN

VARIABLES
    status,        \* what each execution is doing
    task,          \* its connector tasks
    job,           \* its consolidate-allocate task
    asked,         \* how many times each connector was fetched
    snapshot,      \* normalized/<connector>_snapshot
    brokerEvents,  \* normalized/<connector>_events
    holdings,      \* normalized/consolidated_holdings
    events,        \* normalized/events
    gold           \* the analytics tables

silver == <<asked, snapshot, brokerEvents>>
tables == <<holdings, events, gold>>
vars == <<status, task, job, silver, tables>>

Content == [Connectors -> Nat]
NoRows == [c \in Connectors |-> 0]

\* whole: no row lacks its target_value; missed: the connectors whose rows it lacks
\* because their table could not be read
Table == [of : Content, whole : BOOLEAN, missed : SUBSET Connectors]
NoTable == [of |-> NoRows, whole |-> TRUE, missed |-> {}]

\* The order of the builders in cmd_analytics.
Builders == <<"portfolio_holdings", "dividend_income", "interest_income",
              "cash_flow_summary">>
EventBuilder == 2 .. 4
Gold == DOMAIN Builders

Status == {"idle", "map", "consolidate", "succeeded", "failed"}
TaskPC == {"pending", "fetching", "transforming", "validating", "backoff",
           "green", "failed", "stopped"}
Live == {"fetching", "transforming", "validating"}

\* The job's place; held: the table it has read and not yet written; next: the
\* builder that is due; broken: whether a builder failed.
JobPC == {"snapshots", "holdings", "eventTables", "events", "targets", "normalise",
          "silver", "build", "write", "check"}
NewJob == [pc |-> "snapshots", held |-> NoTable, next |-> 1, broken |-> FALSE]
NewTask == [pc |-> "pending", tries |-> 0, fetched |-> 0]

LiveTasks(e) == {c \in Connectors : task[e][c].pc \in Live}
AtWork(e) == status[e] \in {"map", "consolidate"} \/ LiveTasks(e) # {}

---------------------------------------------------------------------------
(* The Map over the connectors.                                            *)

Start(e) ==
    /\ status[e] = "idle"
    /\ Overlap \/ \A other \in Executions : ~AtWork(other)
    /\ status' = [status EXCEPT ![e] = "map"]
    /\ UNCHANGED <<task, job, silver, tables>>

MoveTask(e, c, pc) == task' = [task EXCEPT ![e][c].pc = pc]

MayRun(e, c) ==
    /\ status[e] = "map"
    /\ c \in Listed[e]
    /\ task[e][c].pc \in {"pending", "backoff"}
    /\ Cardinality(LiveTasks(e)) < MaxConcurrency

\* Faulty: the retries are not counted.
RunTaskUncounted(e, c) ==
    /\ MayRun(e, c)
    /\ asked' = [asked EXCEPT ![c] = IF @ < 3 THEN @ + 1 ELSE @]
    /\ task' = [task EXCEPT ![e][c] = [pc |-> "fetching", tries |-> 1,
                                       fetched |-> asked'[c]]]
    /\ UNCHANGED <<status, job, snapshot, brokerEvents, tables>>

\* A container starts, for the first time or again, and fetches.
RunTask(e, c) ==
    /\ MayRun(e, c)
    /\ asked' = [asked EXCEPT ![c] = @ + 1]
    /\ task' = [task EXCEPT ![e][c] = [pc |-> "fetching", tries |-> @.tries + 1,
                                       fetched |-> asked'[c]]]
    /\ UNCHANGED <<status, job, snapshot, brokerEvents, tables>>

\* FetchResult.SKIPPED: exit code 0 with nothing stored.
SkipTask(e, c) ==
    /\ MayRun(e, c)
    /\ task' = [task EXCEPT ![e][c].pc = "green", ![e][c].fetched = 0]
    /\ UNCHANGED <<status, job, silver, tables>>

StoreSnapshot(e, c) ==
    /\ task[e][c].pc = "fetching"
    /\ snapshot' = [snapshot EXCEPT ![c] = task[e][c].fetched]
    /\ MoveTask(e, c, "transforming")
    /\ UNCHANGED <<status, job, asked, brokerEvents, tables>>

\* The events MERGE never puts an older row over a newer one.
StoreEvents(e, c) ==
    /\ task[e][c].pc = "transforming"
    /\ brokerEvents' = [brokerEvents EXCEPT ![c] = Max({@, task[e][c].fetched})]
    /\ MoveTask(e, c, "validating")
    /\ UNCHANGED <<status, job, asked, snapshot, tables>>

TaskGreen(e, c) ==
    /\ task[e][c].pc = "validating"
    /\ MoveTask(e, c, "green")
    /\ UNCHANGED <<status, job, silver, tables>>

\* A failure at any point: retried while the Map runs and tries are left, else it
\* fails the Map and with it the execution.
TaskFails(e, c) ==
    /\ task[e][c].pc \in Live
    /\ LET retried == status[e] = "map" /\ task[e][c].tries <= MaxAttempts
       IN  /\ MoveTask(e, c, IF retried THEN "backoff" ELSE "failed")
           /\ status' = IF status[e] = "map" /\ ~retried
                        THEN [status EXCEPT ![e] = "failed"] ELSE status
    /\ UNCHANGED <<job, silver, tables>>

\* The tasks of a failed Map are told to stop; one may get to its end first.
TaskStopped(e, c) ==
    /\ status[e] = "failed"
    /\ task[e][c].pc \in Live
    /\ MoveTask(e, c, "stopped")
    /\ UNCHANGED <<status, job, silver, tables>>

\* Faulty: the first green task ends the Map.
MapDoneAtFirst(e) ==
    /\ status[e] = "map"
    /\ \E c \in Listed[e] : task[e][c].pc = "green"
    /\ status' = [status EXCEPT ![e] = "consolidate"]
    /\ UNCHANGED <<task, job, silver, tables>>

MapDone(e) ==
    /\ status[e] = "map"
    /\ \A c \in Listed[e] : task[e][c].pc = "green"
    /\ status' = [status EXCEPT ![e] = "consolidate"]
    /\ UNCHANGED <<task, job, silver, tables>>

---------------------------------------------------------------------------
(* The consolidate-allocate task: cmd_run_consolidate_analytics.           *)

JobAt(e, pc) == status[e] = "consolidate" /\ job[e].pc = pc
JobReads(e, pc, table) ==
    /\ job' = [job EXCEPT ![e].pc = pc, ![e].held = table]
    /\ UNCHANGED <<status, task, silver, tables>>
JobMoves(e, pc) == job' = [job EXCEPT ![e].pc = pc, ![e].held = NoTable]

\* What is read of the connectors' tables when those in lost cannot be.
Reading(content, lost) ==
    [of |-> [c \in Connectors |-> IF c \in lost THEN 0 ELSE content[c]],
     whole |-> TRUE, missed |-> lost]
Unread(content) ==
    {lost \in SUBSET {c \in Connectors : content[c] # 0} : Cardinality(lost) <= MaxUnread}

\* Faulty: only the listed connectors are read.
ReadSnapshotsListed(e) ==
    /\ JobAt(e, "snapshots")
    /\ \E c \in Listed[e] : snapshot[c] # 0
    /\ JobReads(e, "holdings",
                [Reading(snapshot, Connectors \ Listed[e]) EXCEPT !.missed = {}])

\* cmd_consolidate reads the snapshot of every registered connector, listed or not;
\* extract_holdings takes one it cannot open for one without holdings, and without
\* any holding the command gives up.
ReadSnapshots(e) ==
    /\ JobAt(e, "snapshots")
    /\ \E lost \in Unread(snapshot) :
           /\ Reading(snapshot, lost).of # NoRows
           /\ JobReads(e, "holdings", Reading(snapshot, lost))

WriteHoldings(e) ==
    /\ JobAt(e, "holdings")
    /\ holdings' = job[e].held
    /\ JobMoves(e, "eventTables")
    /\ UNCHANGED <<status, task, silver, events, gold>>

\* A broker whose events table cannot be opened or read is skipped with a warning.
ReadEventTables(e) ==
    /\ JobAt(e, "eventTables")
    /\ \E lost \in Unread(brokerEvents) :
           LET read == Reading(brokerEvents, lost)
           IN  JobReads(e, "events", [read EXCEPT !.whole = (read.of = NoRows)])

\* consolidate_events overwrites `events` with rows that have no target_value yet.
WriteEvents(e) ==
    /\ JobAt(e, "events")
    /\ events' = job[e].held
    /\ JobMoves(e, "targets")
    /\ UNCHANGED <<status, task, silver, holdings, gold>>

\* normalize_currency reads `events` back, and leaves it alone when it is empty.
ReadForTargets(e) ==
    /\ JobAt(e, "targets")
    /\ JobReads(e, IF events.of = NoRows THEN "silver" ELSE "normalise",
                IF events.of = NoRows THEN NoTable ELSE events)

WriteTargets(e) ==
    /\ JobAt(e, "normalise")
    /\ events' = [job[e].held EXCEPT !.whole = TRUE]
    /\ JobMoves(e, "silver")
    /\ UNCHANGED <<status, task, silver, holdings, gold>>

ValidateSilver(e) ==
    /\ JobAt(e, "silver")
    /\ JobMoves(e, "build")
    /\ UNCHANGED <<status, task, silver, tables>>

\* What the builder that is due reads.
SourceOf(n) == IF n \in EventBuilder THEN events ELSE holdings

\* Faulty: null targets are not looked for.
BuildTrusting(e) ==
    /\ JobAt(e, "build")
    /\ JobReads(e, "write", SourceOf(job[e].next))

\* A builder reads its table; _read_events refuses one with a null target.
Build(e) ==
    /\ JobAt(e, "build")
    /\ SourceOf(job[e].next).whole
    /\ JobReads(e, "write", SourceOf(job[e].next))

NextBuilder(e, broken) ==
    job' = [job EXCEPT ![e] =
              [pc |-> IF job[e].next = Len(Builders) THEN "check" ELSE "build",
               held |-> NoTable,
               next |-> IF job[e].next = Len(Builders) THEN 1 ELSE job[e].next + 1,
               broken |-> job[e].broken \/ broken]]

WriteGold(e) ==
    /\ JobAt(e, "write")
    /\ gold' = [gold EXCEPT ![job[e].next] = job[e].held]
    /\ NextBuilder(e, FALSE)
    /\ UNCHANGED <<status, task, silver, holdings, events>>

\* Faulty: a builder that raises leaves an empty table behind.
BuilderFailsEmpty(e) ==
    /\ JobAt(e, "build") \/ JobAt(e, "write")
    /\ gold' = [gold EXCEPT ![job[e].next] = NoTable]
    /\ NextBuilder(e, TRUE)
    /\ UNCHANGED <<status, task, silver, holdings, events>>

\* cmd_analytics goes on after a builder that raised, and remembers it.
BuilderFails(e) ==
    /\ JobAt(e, "build") \/ JobAt(e, "write")
    /\ NextBuilder(e, TRUE)
    /\ UNCHANGED <<status, task, silver, tables>>

\* Faulty: a failed builder is only logged.
SucceedsAnyway(e) ==
    /\ JobAt(e, "check")
    /\ status' = [status EXCEPT ![e] = "succeeded"]
    /\ UNCHANGED <<task, job, silver, tables>>

\* Every builder went well and the gold tables validate.
Succeeds(e) ==
    /\ JobAt(e, "check")
    /\ ~job[e].broken
    /\ status' = [status EXCEPT ![e] = "succeeded"]
    /\ UNCHANGED <<task, job, silver, tables>>

\* A currency without a rate, a FAIL of a validation, a failed builder or a dead
\* container, with what it had in hand; this task is not retried.
JobFails(e) ==
    /\ status[e] = "consolidate"
    /\ status' = [status EXCEPT ![e] = "failed"]
    /\ job' = [job EXCEPT ![e] = NewJob]
    /\ UNCHANGED <<task, silver, tables>>

---------------------------------------------------------------------------
Init ==
    /\ status = [e \in Executions |-> "idle"]
    /\ task = [e \in Executions |-> [c \in Connectors |-> NewTask]]
    /\ job = [e \in Executions |-> NewJob]
    /\ asked = NoRows
    /\ snapshot = NoRows
    /\ brokerEvents = NoRows
    /\ holdings = NoTable
    /\ events = NoTable
    /\ gold = [n \in Gold |-> NoTable]

TaskStep(e, c) ==
    \/ RunTask(e, c) \/ SkipTask(e, c)
    \/ StoreSnapshot(e, c) \/ StoreEvents(e, c)
    \/ TaskGreen(e, c) \/ TaskFails(e, c) \/ TaskStopped(e, c)

JobStep(e) ==
    \/ ReadSnapshots(e) \/ WriteHoldings(e)
    \/ ReadEventTables(e) \/ WriteEvents(e)
    \/ ReadForTargets(e) \/ WriteTargets(e)
    \/ ValidateSilver(e)
    \/ Build(e) \/ WriteGold(e) \/ BuilderFails(e)
    \/ Succeeds(e) \/ JobFails(e)

\* Everything an execution does once it was started.
Proceed(e) == MapDone(e) \/ JobStep(e) \/ \E c \in Connectors : TaskStep(e, c)

Next == \E e \in Executions : Start(e) \/ Proceed(e)

Spec == Init /\ [][Next]_vars

\* Containers end, one way or the other, and Step Functions goes on.
FairSpec == Spec /\ \A e \in Executions : WF_vars(Proceed(e))

---------------------------------------------------------------------------
(* Properties.                                                             *)

\* Types.
TypeOK ==
    /\ status \in [Executions -> Status]
    /\ task \in [Executions -> [Connectors ->
                    [pc : TaskPC, tries : 0 .. MaxAttempts + 1, fetched : Nat]]]
    /\ job \in [Executions -> [pc : JobPC, held : Table, next : Gold, broken : BOOLEAN]]
    /\ asked \in Content /\ snapshot \in Content /\ brokerEvents \in Content
    /\ holdings \in Table /\ events \in Table /\ gold \in [Gold -> Table]

\* No gold table is built from events whose amounts were not converted, though
\* another execution may rewrite `events` unconverted between this one's
\* normalisation and its builders.
GoldConverted == \A n \in Gold : gold[n].whole

\* Gold changes only in an execution all of whose connectors ended green: a
\* failed or retrying connector keeps consolidation from starting.
GoldAfterGreen ==
    [][gold' # gold => \E e \in Executions :
           /\ status[e] = "consolidate"
           /\ \A c \in Listed[e] : task[e][c].pc = "green"]_vars

\* Once an execution succeeded, every gold table has what its connectors stored,
\* or something newer, but for a connector whose table the consolidation behind
\* that gold table could not read.
GoldHoldsItsRun ==
    \A e \in Executions : status[e] = "succeeded" =>
        \A n \in Gold, c \in Listed[e] :
            gold[n].of[c] >= task[e][c].fetched \/ c \in gold[n].missed

\* When every execution has succeeded, gold shows what silver holds of every
\* registered connector, XTB's too: each consolidation picks up all of silver that
\* can be read.
GoldShowsSilver ==
    (\A e \in Executions : status[e] = "succeeded") =>
        \A n \in Gold, c \in Connectors :
            \/ gold[n].of[c] >= (IF n \in EventBuilder THEN brokerEvents ELSE snapshot)[c]
            \/ c \in gold[n].missed

\* What gold shows of a connector never gets older, whether the executions that
\* write it succeed or fail, unless the connector's table could not be read.
GoldNeverOlder ==
    [][\A n \in Gold, c \in Connectors :
           gold'[n].of[c] >= gold[n].of[c] \/ c \in gold'[n].missed]_vars

\* Every started execution ends, whatever fails.
ExecutionsEnd ==
    \A e \in Executions : status[e] = "map" ~> status[e] \in {"succeeded", "failed"}
=============================================================================
