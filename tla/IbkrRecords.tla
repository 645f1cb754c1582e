----------------------------- MODULE IbkrRecords -----------------------------
(***************************************************************************)
(* What ibkr/transform.py makes of one Flex report: trades, cash           *)
(* transactions, transfers and transaction fees become events, positions   *)
(* and the cash report become the snapshot.                                *)
(*                                                                         *)
(* A report is a record of lists of elements; an attribute that is not     *)
(* there is "", 0 or Null.                                                 *)
(***************************************************************************)
EXTENDS BrokerEvents

Broker == "IBKR"

---------------------------------------------------------------------------
(* AccountInformation.                                                     *)

\* The base currency of every account the report informs of: the last real one,
\* and USD if there is none.
BaseCurrencies(report) ==
    LET real(account) == SelectSeq(report.accounts, LAMBDA info :
                             info.id = account /\ info.currency \notin {"", "BASE"})
    IN  [account \in {report.accounts[n].id : n \in DOMAIN report.accounts} |->
            IF real(account) = <<>> THEN "USD" ELSE Last(real(account)).currency]

\* The base the events of an account are converted by; without account information
\* an event's own currency.
BaseOf(report, element) ==
    LET bases == BaseCurrencies(report)
    IN  IF element.account \in DOMAIN bases THEN bases[element.account] ELSE element.currency

\* A commission in the base currency is converted back; one in a third currency
\* stays as it is, with a warning.
Commission(trade, base) ==
    LET rate == IF trade.fx = 0 THEN One ELSE FxRate(trade.currency, base, trade.fx)
        fee == Magnitude(trade.commission)
    IN  IF fee.ccy # trade.currency /\ fee.ccy = base THEN Reversed(fee, rate) ELSE fee

---------------------------------------------------------------------------
(* The four event sections.                                                *)

CashType ==
    [x \in {"Dividends", "PaymentInLieue"} |-> "DIVIDEND"] @@
    [x \in {"Withholding Tax", "871(m) Withholding"} |-> "TAX"] @@
    [x \in {"Broker Interest Received", "Broker Interest Paid",
            "Bond Interest Received", "Bond Interest Paid"} |-> "INTEREST"] @@
    [x \in {"Broker Fees", "Other Fees", "Commission Adjustments"} |-> "FEE"] @@
    [x \in {"Other Income", "Price Adjustments"} |-> "ADJUSTMENT"]

ClassifiedCash(type, n) ==
    IF type = "Deposits/Withdrawals" THEN IF n >= 0 THEN "DEPOSIT" ELSE "WITHDRAWAL"
    ELSE IF type \in DOMAIN CashType THEN CashType[type] ELSE "UNKNOWN"

\* The broker's id, or else a hash of what tells the element from others.
EventId(ids, hashed) ==
    LET given == {n \in DOMAIN ids : ids[n] # ""}
    IN  IF given = {} THEN hashed ELSE <<ids[Min(given)]>>

\* What the four sections have in common.
Common(report, element) ==
    [NoEvent EXCEPT
        !.broker = Broker, !.account = element.account, !.month = element.month,
        !.ccy = element.currency, !.base = BaseOf(report, element), !.fx = element.fx # 0,
        !.ticker = element.symbol]

TradeEvent(report, trade) ==
    [Common(report, trade) EXCEPT
        !.id = EventId(<<trade.ibExecID, trade.tradeID>>,
                       <<"Trade", trade.account, trade.dateTime, trade.symbol, trade.quantity>>),
        !.type = "TRADE", !.amount = trade.netCash,
        !.fee = Commission(trade, BaseOf(report, trade)),
        !.tax = trade.taxes, !.side = trade.side]

CashTransactionEvent(report, ct) ==
    [Common(report, ct) EXCEPT
        !.id = EventId(<<ct.transactionID>>,
                       <<"CashTransaction", ct.account, ct.dateTime, ct.type, ct.amount.n>>),
        !.type = ClassifiedCash(ct.type, ct.amount.n), !.amount = ct.amount]

TransferEvent(report, transfer) ==
    [Common(report, transfer) EXCEPT
        !.id = EventId(<<transfer.transactionID>>, <<"Transfer", transfer.account,
                       transfer.dateTime, transfer.symbol, transfer.quantity>>),
        !.type = "TRANSFER", !.amount = transfer.cash]

\* The element has no id of its own.
TransactionFeeEvent(report, fee) ==
    [Common(report, fee) EXCEPT
        !.id = <<"TransactionFee", fee.account, fee.dateTime, fee.description, fee.amount.n>>,
        !.type = "FEE", !.amount = fee.amount, !.fee = fee.amount]

Events(report) ==
    LET of(Op(_, _), list) == [n \in DOMAIN list |-> Op(report, list[n])]
    IN  of(TradeEvent, report.trades) \o of(CashTransactionEvent, report.cashTransactions)
            \o of(TransferEvent, report.transfers)
            \o of(TransactionFeeEvent, report.transactionFees)

---------------------------------------------------------------------------
(* _inject_paper_deposit.                                                  *)

InitialDeposit == 100
FallbackDate == 1      \* 2020-01-01, before every other

\* The day before the earliest event that has a date.
DepositDate(events) ==
    LET dates == {events[n].month : n \in DOMAIN events} \ {0}
    IN  IF dates = {} THEN FallbackDate ELSE Min(dates) - 1

\* Faulty: the date is hashed too.
DepositDated(account, base, date) ==
    [NoEvent EXCEPT
        !.broker = Broker, !.account = account,
        !.id = <<"CashTransaction", account, "PAPER_INITIAL_DEPOSIT", date>>,
        !.type = "DEPOSIT", !.month = date, !.ccy = base, !.base = base,
        !.amount = Money(InitialDeposit, base)]

Deposit(account, base, date) ==
    [NoEvent EXCEPT
        !.broker = Broker, !.account = account,
        !.id = <<"CashTransaction", account, "PAPER_INITIAL_DEPOSIT">>,
        !.type = "DEPOSIT", !.month = date, !.ccy = base, !.base = base,
        !.amount = Money(InitialDeposit, base)]

\* One for every account the report informs of, or else for an account "" in USD;
\* none when the report is empty.
Deposits(report) ==
    LET bases == BaseCurrencies(report)
        date == DepositDate(Events(report))
    IN  IF DOMAIN bases # {}
        THEN {Deposit(account, bases[account], date) : account \in DOMAIN bases}
        ELSE {Deposit("", "USD", date) : n \in DOMAIN Events(report)}

Identity(event) == event.id

\* The events of a report, of a paper account or not.
EventTables(report, paper) ==
    LET rows == Events(report) \o (IF paper THEN SetToSeq(Deposits(report)) ELSE <<>>)
    IN  Deduped(rows, [n \in DOMAIN rows |-> Identity(rows[n])])

---------------------------------------------------------------------------
(* transform_snapshot.                                                     *)

\* A position the report values at nothing is worth its quantity times its price.
ValueOf(p) == IF p.positionValue # 0 THEN p.positionValue ELSE p.position * p.markPrice

\* The cash of every currency; a report that has only summaries gives the first of
\* them that is not empty, in its account's base currency.
CashEntries(report) ==
    LET isCurrency(entry) == entry.currency # "BASE SUMMARY"
        summaries == Passing(report.cash, LAMBDA entry : ~isCurrency(entry) /\ entry.n # 0)
        bases == BaseCurrencies(report)
    IN  IF \E n \in DOMAIN report.cash : isCurrency(report.cash[n])
        THEN Passing(report.cash, LAMBDA entry :
                 isCurrency(entry) /\ entry.currency # "" /\ entry.n # 0)
        ELSE IF summaries = <<>> THEN <<>>
        ELSE <<[summaries[1] EXCEPT !.currency =
                    IF summaries[1].account \in DOMAIN bases
                    THEN bases[summaries[1].account] ELSE "USD"]>>

Snapshot(report) ==
    LET worth == Passing(report.positions, LAMBDA p : ValueOf(p) # 0)
        ccy(p) == Coalesce(p.currency, "USD", "")
        equity(p) == Position(Broker, "EQUITY", p.symbol, Money(ValueOf(p), p.currency), ccy(p))
        cash(entry) == Position(Broker, "CASH", "CASH", Money(entry.n, entry.currency),
                                entry.currency)
        entries == CashEntries(report)
    IN  [n \in DOMAIN worth |-> equity(worth[n])] \o [n \in DOMAIN entries |-> cash(entries[n])]

---------------------------------------------------------------------------
\* What is taken for granted of a report: its elements name the currency their amounts are
\* in (the commission has its own), and a trade's netCash has the sign of its cash.
Credible(report) ==
    /\ IsSequence(report.trades) /\ IsSequence(report.cashTransactions)
    /\ IsSequence(report.transfers) /\ IsSequence(report.transactionFees)
    /\ IsSequence(report.positions) /\ IsSequence(report.cash)
    /\ \A trade \in ToSet(report.trades) :
           /\ Labelled(trade.netCash, trade.currency) /\ Labelled(trade.taxes, trade.currency)
           /\ trade.side = "BUY" => trade.netCash.n <= 0
           /\ trade.side = "SELL" => trade.netCash.n >= 0
    /\ \A ct \in ToSet(report.cashTransactions) : Labelled(ct.amount, ct.currency)
    /\ \A transfer \in ToSet(report.transfers) : Labelled(transfer.cash, transfer.currency)
    /\ \A fee \in ToSet(report.transactionFees) : Labelled(fee.amount, fee.currency)
    /\ \A position \in ToSet(report.positions) : position.currency # ""
=============================================================================
