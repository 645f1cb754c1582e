------------------------------ MODULE GoldTables ------------------------------
(***************************************************************************)
(* From what the brokers reported to gold: the transforms of the three     *)
(* brokers, extract_holdings and consolidate_events, the conversion of     *)
(* CurrencyConversion, and the four builders of cmd_analytics.             *)
(*                                                                         *)
(* The reports stay as they are: Connector, XtbAccounts and IbkrConnector  *)
(* have the runs that store them.  Which tables cannot be read stays too:  *)
(* holdings and events are one consolidation's each, and every choice for  *)
(* the one meets every choice for the other in some behaviour.             *)
(***************************************************************************)
EXTENDS CurrencyConversion

CONSTANTS
    Reports,     \* what the brokers may have reported: a record of those that did
    Unreadable   \* bound: the brokers whose tables a consolidation may fail to read

T212 == INSTANCE Trading212Records
Ibkr == INSTANCE IbkrRecords
Xtb == INSTANCE XtbWorkbook

ASSUME ReportsAreCredible ==
    \A given \in Reports :
        /\ "ibkr" \in DOMAIN given => Ibkr!Credible(given.ibkr)
        /\ "trading212" \in DOMAIN given => T212!Credible(given.trading212)
        /\ "xtb" \in DOMAIN given => Xtb!Credible(given.xtb)
ASSUME AmountsAreIntegers ==
    \A list \in EventLists : \A n \in DOMAIN list : list[n].amount.n \in Int

VARIABLES
    report,   \* a member of Reports
    opened,   \* the brokers whose tables the consolidations can open and read
    gold,     \* the four gold tables
    due,      \* the builder that is due, 0 when no analytics is running
    failed,   \* a builder of this analytics run failed
    green     \* the last analytics run returned 0

analytics == <<gold, due, failed, green>>
reported == <<report, opened>>
goldVars == <<vars, reported, analytics>>

---------------------------------------------------------------------------
(* Silver.                                                                 *)

\* A transform that raises ends the run before anything is written, and a workbook
\* that cannot be parsed is skipped.
HasSilver(given, broker) ==
    /\ broker \in DOMAIN given
    /\ broker = "trading212" => ~T212!SnapshotRaises(given.trading212)
    /\ broker = "xtb" => ~Xtb!ParseRaises(given.xtb)

SnapshotOf(given, broker) ==
    IF ~HasSilver(given, broker) THEN <<>>
    ELSE CASE broker = "ibkr" -> Ibkr!Snapshot(given.ibkr)
           [] broker = "trading212" -> T212!Snapshot(given.trading212)
           [] broker = "xtb" -> Xtb!Snapshot(given.xtb)

EventTablesOf(given, broker) ==
    IF ~HasSilver(given, broker) THEN {<<>>}
    ELSE CASE broker = "ibkr" -> Ibkr!EventTables(given.ibkr, FALSE)
           [] broker = "trading212" -> T212!EventTables(given.trading212)
           [] broker = "xtb" -> Xtb!EventTables(given.xtb)

\* extract_holdings of every connector, in the registry's order.
Holdings(given) ==
    SnapshotOf(given, "ibkr") \o SnapshotOf(given, "trading212") \o SnapshotOf(given, "xtb")

\* extract_holdings gives no holdings of a broker whose snapshot it cannot open, and
\* consolidate_events skips one whose events it cannot open or read; both go on.
Openings(given) ==
    LET some == {brokers \in SUBSET DOMAIN given : DOMAIN given \ brokers \subseteq Unreadable}
    IN  [snapshots : some, events : some]
SnapshotsRead == Restrict(report, opened.snapshots)
EventsRead == Restrict(report, opened.events)

HoldingCurrencies(given) == [n \in DOMAIN Holdings(given) |-> Holdings(given)[n].ccy]

\* Faulty: an id is taken to be unique whatever it is of.
IdentityOfId(event) == <<event.broker, event.id>>

Identity(event) == <<event.broker, event.type, event.id, event.account>>

\* consolidate_events: one table after the other, deduplicated once more.
Concatenated(given) ==
    {i \o t \o x : i \in EventTablesOf(given, "ibkr"), t \in EventTablesOf(given, "trading212"),
                   x \in EventTablesOf(given, "xtb")}

Consolidated(given) ==
    UNION {Deduped(rows, [n \in DOMAIN rows |-> Identity(rows[n])]) : rows \in Concatenated(given)}

---------------------------------------------------------------------------
(* The builders of cmd_analytics, and the rows they make.                  *)

Builders == <<"portfolio_holdings", "dividend_income", "interest_income",
              "cash_flow_summary">>
TypeOf == [dividend_income |-> "DIVIDEND", interest_income |-> "INTEREST"]

NoGold == [to |-> "", rows |-> {}]

\* Faulty: interest is not kept apart by currency.
KeyMixing(name, e) ==
    CASE name = "dividend_income" -> <<e.month, e.broker, e.ticker, e.ccy>>
      [] name = "interest_income" -> <<e.month, e.broker, e.ccy>>
      [] name = "cash_flow_summary" -> <<e.month, e.broker, e.type, "">>

\* What group_by takes an event's row to be; the currency is last.
Key(name, e) ==
    CASE name = "dividend_income" -> <<e.month, e.broker, e.ticker, e.ccy>>
      [] name = "interest_income" -> <<e.month, e.broker, e.ccy>>
      [] name = "cash_flow_summary" -> <<e.month, e.broker, e.type, e.ccy>>

\* The events a table counts: those of its type, if their date could be parsed.
Counted(name) ==
    {n \in DOMAIN trades : /\ trades[n].month # 0
                           /\ name \in DOMAIN TypeOf => trades[n].type = TypeOf[name]}

\* The amounts of some events added up; different currencies make an amount of none.
Added(S) ==
    LET ccys == {trades[n].amount.ccy : n \in S}
    IN  Money(SumFunctionOnSet([n \in S |-> trades[n].amount.n], S),
              IF \E c \in ccys : ccys = {c} THEN CHOOSE c \in ccys : TRUE
              ELSE IF S = {} THEN Null.ccy ELSE "none")

EventRows(name) ==
    {LET members == {n \in Counted(name) : Key(name, trades[n]) = key}
     IN  [key |-> key, members |-> members,
          cash |-> Added({n \in members : trades[n].amount.n # 0})] :
        key \in {Key(name, trades[n]) : n \in Counted(name)}}

\* One row of every holding, in its own currency; percentages are left out.
HoldingRows ==
    LET list == Holdings(SnapshotsRead)
    IN  {[key |-> <<list[n].type, list[n].broker, list[n].label, list[n].ccy>>,
          members |-> {n}, cash |-> list[n].value] : n \in DOMAIN list}

\* Rows that no normalisation has converted are refused.
Readable(name) ==
    IF name = "portfolio_holdings" THEN holdings # NoTable ELSE events.to # ""

Built(name) ==
    IF name = "portfolio_holdings" THEN [to |-> holdings.to, rows |-> HoldingRows]
    ELSE [to |-> events.to, rows |-> EventRows(name)]

---------------------------------------------------------------------------
(* cmd_analytics, after a consolidation or by hand.                        *)

StartAnalytics ==
    /\ pc = "idle" /\ due = 0
    /\ due' = 1 /\ failed' = FALSE /\ green' = FALSE
    /\ UNCHANGED <<vars, reported, gold>>

BuilderDone(ok) ==
    /\ failed' = (failed \/ ~ok)
    /\ due' = IF due = Len(Builders) THEN 0 ELSE due + 1
    /\ green' = (due = Len(Builders) /\ ~failed')

Build ==
    /\ due # 0 /\ Readable(Builders[due])
    /\ gold' = [gold EXCEPT ![Builders[due]] = Built(Builders[due])]
    /\ BuilderDone(TRUE)
    /\ UNCHANGED <<vars, reported>>

\* A table that is not there or not converted, or any exception: it is logged, and
\* the next builder takes its turn.
BuildFails ==
    /\ due # 0
    /\ BuilderDone(FALSE)
    /\ UNCHANGED <<vars, reported, gold>>

AnalyticsKilled ==
    /\ due # 0
    /\ due' = 0
    /\ UNCHANGED <<vars, reported, gold, failed, green>>

---------------------------------------------------------------------------
GoldInit ==
    /\ report \in Reports /\ opened \in Openings(report)
    /\ securities = HoldingCurrencies(SnapshotsRead)
    /\ trades \in Consolidated(EventsRead)
    /\ Init
    /\ gold = [name \in {Builders[n] : n \in DOMAIN Builders} |-> NoGold]
    /\ due = 0 /\ failed = FALSE /\ green = FALSE

\* Nothing else runs beside this analytics: Orchestrator has the overlaps.
Pipeline == due = 0 /\ Next /\ UNCHANGED <<reported, analytics>>
Analytics == StartAnalytics \/ Build \/ BuildFails \/ AnalyticsKilled
GoldNext == Pipeline \/ Analytics

GoldSpec == GoldInit /\ [][GoldNext]_goldVars

\* As in FairSpec.
FairGoldSpec ==
    GoldSpec /\ WF_goldVars(due = 0 /\ (Request \/ Convert) /\ UNCHANGED <<reported, analytics>>)

---------------------------------------------------------------------------
(* Properties.                                                             *)

OrderEvents(Which(_)) ==
    IF "trading212" \notin DOMAIN report THEN {}
    ELSE {T212!OrderEvent(order) :
              order \in {o \in ToSet(report.trading212.orders) : Which(o)}}

\* Orders whose filledValue, already in the security's currency, is multiplied by the
\* wallet's rate; and those of another currency whose rate the API left out.
TwiceConverted == OrderEvents(LAMBDA order : order.net = Null /\ order.fx # 0)
Unrated == OrderEvents(LAMBDA order : order.fx = 0 /\ order.wallet # order.security)

\* Commissions in a third currency, or in the base's without fxRateToBase.
ForeignCommission(e) ==
    e.broker = Ibkr!Broker /\ (e.fee.ccy = e.base => ~e.fx)

\* Every amount that reaches gold is in the currency its row says, whichever of
\* wallet, security, payout, account base and commission it was reported in, and a
\* purchase takes cash where a sale brings it.  Exceptions the code has: those above
\* and the holdings of a workbook that has no Open Positions sheet to name their currency.
AmountsAsLabelled ==
    /\ \A row \in gold.portfolio_holdings.rows :
           Labelled(row.cash, Last(row.key)) \/ Last(row.key) = ""
    /\ \A name \in DOMAIN gold \ {"portfolio_holdings"} : \A row \in gold[name].rows :
           Labelled(row.cash, Last(row.key))
               \/ \E n \in row.members : trades[n] \in TwiceConverted \cup Unrated
    /\ \A n \in DOMAIN trades :
           LET e == trades[n]
           IN  /\ \/ Labelled(e.fee, e.ccy)
                  \/ ForeignCommission(e) \/ e \in Unrated \/ e.ccy = ""
               /\ Labelled(e.tax, e.ccy) \/ e \in Unrated
               /\ e.side = "BUY" => e.amount.n <= 0
               /\ e.side = "SELL" => e.amount.n >= 0

\* The amounts of some rows of a gold table added up.
CashOf(rows) == SumFunctionOnSet([row \in rows |-> row.cash.n], rows)

\* A workbook of the whole history: what its rows add up to is what its last Total says,
\* no row lacks its time, no two share an identity, and nothing left the two subaccounts.
WholeHistory(book) ==
    LET rows == Xtb!CashRows(book)
        sum(S) == SumFunctionOnSet([n \in S |-> rows[n].amount.n], S)
        entries == {n \in DOMAIN rows : rows[n].type \notin {"", "Total"}}
        identity(n) == Xtb!Identity(Xtb!OperationEvent(book, rows[n]))
    IN  /\ Xtb!FreeCash(book) # Null /\ Xtb!FreeCash(book).n = sum(entries)
        /\ sum({n \in entries : rows[n].type = "Subaccount transfer"}) = 0
        /\ \A n \in entries : rows[n].time # 0
        /\ \A m, n \in entries : identity(m) = identity(n) => m = n

\* docs/brokers/xtb.md: with the full history the Total is the account's cash.  Two ways
\* through the pipeline then agree in gold: the events, filtered, typed, deduplicated
\* with the other brokers', grouped and summed, and the CASH holding; unless one of the
\* two tables could not be read, which leaves its half out of a green gold.
CashReconciles ==
    green /\ HasSilver(report, "xtb") /\ WholeHistory(report.xtb)
        /\ "xtb" \in opened.snapshots \cap opened.events =>
        LET of(rows) == {row \in rows : row.key[2] = Xtb!Broker}
        IN  CashOf(of(gold.cash_flow_summary.rows)) =
                CashOf({row \in of(gold.portfolio_holdings.rows) : row.key[1] = "CASH"})

\* After a green analytics run the event tables tell one story: one target currency,
\* every dated event once in the summary, an undated one nowhere, and the income tables'
\* rows, grouped in their own ways, add up to the summary's of the same month, broker
\* and currency.
GoldTablesAgree ==
    green =>
        LET summary == gold.cash_flow_summary
            rowsOf(n) == {row \in summary.rows : n \in row.members}
            same(row, other) == row.key[1] = other.key[1] /\ row.key[2] = other.key[2]
                                    /\ Last(row.key) = Last(other.key)
        IN  /\ \A n \in DOMAIN trades :
                   Cardinality(rowsOf(n)) = IF trades[n].month = 0 THEN 0 ELSE 1
            /\ \A name \in DOMAIN TypeOf :
                   LET ofType == {row \in summary.rows : row.key[3] = TypeOf[name]}
                   IN  /\ gold[name].to = summary.to
                       /\ \A row \in ofType :
                              row.cash.n = CashOf({r \in gold[name].rows : same(r, row)})
                       /\ \A r \in gold[name].rows : \E row \in ofType : same(r, row)
=============================================================================
