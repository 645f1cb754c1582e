---------------------------- MODULE IbkrConnector ----------------------------
(***************************************************************************)
(* The IBKR connector over the days of an account: every run fetches a     *)
(* report as FlexReport says, which covers a sliding window of days,       *)
(* replaces the one in bronze by it, makes events of it as IbkrRecords     *)
(* says and merges them into those kept from earlier windows.              *)
(*                                                                         *)
(* Runs come one after the other: Connector has the overlapping ones.      *)
(* Where IbkrRecords tells months apart, here it is days.                  *)
(***************************************************************************)
EXTENDS FlexReport, BrokerEvents

CONSTANTS
    Window,         \* days a report covers, its own included
    Paper,          \* is this a paper account?
    Accounts,       \* account ids
    Activities,     \* names of what may happen, also the ibExecID of a trade; its bound
    LastDay,        \* bound: days
    MaxRuns         \* bound: runs

ASSUME WindowIsPositive == Window \in Nat \ {0}
ASSUME PaperIsBoolean == Paper \in BOOLEAN
ASSUME AccountsAreFinite == IsFiniteSet(Accounts)
ASSUME NamesAreNotEmpty == "" \notin Activities

Records == INSTANCE IbkrRecords

VARIABLES
    today,
    activity,   \* what happened in the accounts
    informs,    \* does the Flex query include AccountInformation?
    report,     \* the report the service has generated for this run
    bronze,     \* the report in raw/ibkr
    events,     \* normalized/ibkr_events: rows with their fetched_at
    run,        \* the runs started, the time of their fetch too
    stage,      \* what the run is doing
    shown,      \* history: the report events were last made of
    gap         \* history: the most days between two of those

world == <<today, activity, informs>>
stored == <<bronze, events, run, stage, shown, gap>>
allVars == <<vars, report, world, stored>>

FirstDay == 3    \* two days after the fallback date of the deposit
NoReport == [day |-> FirstDay, activity |-> {}]

---------------------------------------------------------------------------
(* The accounts and the Flex service.                                      *)

\* Neither polls nor accounts look at each other: what happens between two polls might
\* as well happen before the first.
BetweenFetches == pc \in {"request", "starting"}

NewDay ==
    /\ BetweenFetches
    /\ today < LastDay
    /\ today' = today + 1
    /\ UNCHANGED <<vars, report, activity, informs, stored>>

\* A trade has an execution id; a fee has none, and two may be alike.
Happens ==
    /\ BetweenFetches
    /\ \E name \in Activities, kind \in {"trade", "fee"}, account \in Accounts :
           /\ \A a \in activity : a.name # name
           /\ activity' = activity \cup
                  {[name |-> name, kind |-> kind, account |-> account, day |-> today]}
    /\ UNCHANGED <<vars, report, today, informs, stored>>

ReportGenerated ==
    /\ Generated
    /\ report' = [day |-> today,
                  activity |-> {a \in activity : today - a.day < Window}]
    /\ UNCHANGED <<world, stored>>

\* The XML of a report.
Flex(given) ==
    LET element(a) ==
            [account |-> a.account, month |-> a.day, dateTime |-> a.day, symbol |-> "",
             currency |-> "USD", fx |-> 1, description |-> "fee", amount |-> Money(-1, "USD"),
             ibExecID |-> a.name, tradeID |-> "", quantity |-> 1, side |-> "BUY",
             netCash |-> Money(-1, "USD"), commission |-> Null, taxes |-> Null]
        elements(kind) ==
            LET some == SetToSeq({a \in given.activity : a.kind = kind})
            IN  [n \in DOMAIN some |-> element(some[n])]
        infos == SetToSeq({[id |-> account, currency |-> "EUR"] : account \in Accounts})
    IN  [accounts |-> IF informs THEN infos ELSE <<>>, trades |-> elements("trade"),
         transactionFees |-> elements("fee"), cashTransactions |-> <<>>, transfers |-> <<>>]

---------------------------------------------------------------------------
(* run-connector ibkr.                                                     *)

\* The next fetch is a new one.
FetchOver ==
    pc' = "request" /\ polls' = 0 /\ slept' = 0 /\ ready' = FALSE /\ last' = NoAnswer

StartRun ==
    /\ stage = "idle" /\ run < MaxRuns
    /\ run' = run + 1
    /\ stage' = "fetch"
    /\ UNCHANGED <<vars, report, world, bronze, events, shown, gap>>

FetchStep ==
    /\ stage = "fetch"
    /\ Client
    /\ UNCHANGED <<report, world, stored>>

\* A fetch that raised, or a run that is killed, leaves what is there.
RunEnds ==
    /\ \/ stage = "fetch" /\ pc \in {"stored", "fatal", "gaveup"}
       \/ stage = "transform"
    /\ stage' = "idle"
    /\ FetchOver
    /\ report' = NoReport
    /\ UNCHANGED <<world, bronze, events, run, shown, gap>>

\* The rows of a query have one retention key.
Ingest ==
    /\ stage = "fetch" /\ pc = "stored"
    /\ bronze' = report
    /\ stage' = "transform"
    /\ FetchOver
    /\ report' = NoReport
    /\ UNCHANGED <<world, events, run, shown, gap>>

\* Faulty: the table is replaced, as before AD-4.
MergedAnew(rows) == {[row |-> row, at |-> run] : row \in rows}

\* _merge_events: what is newer replaces its identity, what is absent stays.
Merged(rows) ==
    LET same(e, row) == Records!Identity(e.row) = Records!Identity(row)
        kept == {e \in events : ~\E row \in rows : same(e, row) /\ run > e.at}
    IN  kept \cup {[row |-> row, at |-> run] :
                       row \in {r \in rows : ~\E e \in kept : same(e, r)}}

Transform ==
    /\ stage = "transform"
    /\ \E table \in Records!EventTables(Flex(bronze), Paper) : events' = Merged(ToSet(table))
    /\ shown' = bronze
    /\ gap' = Max({gap, bronze.day - shown.day})
    /\ stage' = "idle"
    /\ UNCHANGED <<vars, report, world, bronze, run>>

---------------------------------------------------------------------------
ConnectorInit ==
    /\ Init
    /\ today = FirstDay /\ activity = {} /\ informs \in BOOLEAN
    /\ report = NoReport /\ bronze = NoReport
    /\ events = {} /\ run = 0 /\ stage = "idle"
    /\ shown = NoReport /\ gap = 0

ConnectorNext ==
    \/ NewDay \/ Happens \/ ReportGenerated
    \/ StartRun \/ FetchStep \/ RunEnds \/ Ingest \/ Transform

ConnectorSpec == ConnectorInit /\ [][ConnectorNext]_allVars

---------------------------------------------------------------------------
(* Properties.                                                             *)

\* While no two reports that became events are a window apart, nothing falls out of the
\* windows unseen: whatever happened before the day of the last one is in the events,
\* and once.  Fees that are alike are one event.
FillsKept ==
    gap < Window =>
        \A a \in activity : a.day < shown.day =>
            LET event == Records!Events(Flex([activity |-> {a}]))[1]
            IN  Cardinality({e \in events : e.row.id = event.id /\ e.row.type = event.type}) = 1

\* However the window slides, a paper account has one deposit, dated before all that
\* the last report shows (events of earlier windows may precede it, as it moves along):
\* one for each account there is information of, or else one for all of them.
OneDepositFirst ==
    LET deposits == {e \in events : e.row.type = "DEPOSIT"}
        owners == IF informs THEN Accounts ELSE {""}
    IN  /\ \A e \in deposits : Paper /\ e.row.account \in owners
        /\ \A e, other \in deposits : e.row.account = other.row.account => e = other
        /\ deposits # {} => \A owner \in owners : \E e \in deposits : e.row.account = owner
        /\ Paper /\ shown.activity # {} => deposits # {}
        /\ \A e \in deposits : \A a \in shown.activity : e.row.month < a.day
=============================================================================
