---------------------------- MODULE XtbWorkbook ----------------------------
(***************************************************************************)
(* What xtb/parser.py reads from a workbook and what xtb/transform.py      *)
(* makes of it.                                                            *)
(*                                                                         *)
(* A workbook has the sheets that are in it; a sheet has the account       *)
(* number of its first row ("" if there is none), the rows under its       *)
(* header, and Open Positions the currencies of its summary block.  A cell *)
(* that is empty is "" or Null; a time is the month it falls in, 0 if the cell  *)
(* is empty and negative if it is no date.                                 *)
(***************************************************************************)
EXTENDS BrokerEvents

Broker == "XTB"

Has(book, sheet) == sheet \in DOMAIN book

---------------------------------------------------------------------------
(* parse_report.                                                           *)

AccountId(book) ==
    LET numbers == [n \in 1 .. 3 |-> LET sheet == <<"open", "cash", "closed">>[n]
                                     IN  IF Has(book, sheet) THEN book[sheet].number ELSE ""]
        given == SelectSeq(numbers, LAMBDA number : number # "")
    IN  IF given = <<>> THEN "" ELSE given[1]

\* The first currency of the summary block; "" without the sheet.
AccountCurrency(book) ==
    IF ~Has(book, "open") THEN ""
    ELSE LET given == SelectSeq(book.open.currencies, LAMBDA ccy : ccy # "")
         IN  IF given = <<>> THEN "" ELSE given[1]

\* The aggregate of every ticker: a lot has a Type, an aggregate has none.
OpenPositions(book) ==
    IF ~Has(book, "open") THEN <<>>
    ELSE Passing(book.open.rows, LAMBDA row :
             row.type = "" /\ row.ticker # "" /\ row.value.n # 0)

CashRows(book) == IF Has(book, "cash") THEN book.cash.rows ELSE <<>>

\* The last Total row says what cash is left.
FreeCash(book) ==
    LET totals == {n \in DOMAIN CashRows(book) : CashRows(book)[n].type = "Total"}
    IN  IF totals = {} THEN Null ELSE CashRows(book)[Max(totals)].amount

\* Neither a total nor a move between subaccounts; without a time it is dropped.
IsOperation(row) == row.type \notin {"", "Total", "Subaccount transfer"} /\ row.time # 0

CashOperations(book) == Passing(CashRows(book), IsOperation)

ClosedRows(book) ==
    IF ~Has(book, "closed") THEN <<>>
    ELSE Passing(book.closed.rows, LAMBDA row :
             row.instrument \notin {"", "Profit/loss", "Total"} /\ row.position # "")

\* What has no close time is no closed position.
ClosedPositions(book) == Passing(ClosedRows(book), LAMBDA row : row.time # 0)

\* XtbError: an Open Positions sheet without a currency, or a cell that is no date.
ParseRaises(book) ==
    \/ Has(book, "open") /\ AccountCurrency(book) = ""
    \/ \E n \in DOMAIN CashOperations(book) : CashOperations(book)[n].time < 0
    \/ \E n \in DOMAIN ClosedPositions(book) : ClosedPositions(book)[n].time < 0

---------------------------------------------------------------------------
(* transform_events.                                                       *)

EventType ==
    ("Free funds interest" :> "INTEREST") @@ ("Free funds interest tax" :> "TAX") @@
    [x \in {"Stock purchase", "Stock sell", "Open position", "Close position"} |-> "TRADE"] @@
    ("Transfer" :> "TRANSFER") @@ ("Deposit" :> "DEPOSIT") @@ ("Withdrawal" :> "WITHDRAWAL") @@
    ("Dividend" :> "DIVIDEND") @@ ("Fee" :> "FEE") @@
    [x \in {"Correction", "Profit/loss adjustment"} |-> "ADJUSTMENT"]

IsTrade(op) == op.type \in DOMAIN EventType /\ EventType[op.type] = "TRADE"
IsSale(op) == op.type \in {"Stock sell", "Close position"}

\* The places of the closed positions a sale may have come from; the last is taken.
ClosedBy(book, op) ==
    {n \in DOMAIN ClosedPositions(book) : ClosedPositions(book)[n].position = op.position}

\* Only what closes a position is charged for it.
FeeOf(book, op) ==
    IF IsSale(op) /\ ClosedBy(book, op) # {}
    THEN ClosedPositions(book)[Max(ClosedBy(book, op))].commission
    ELSE Null

\* Side comes from the comment, if it matches.
OperationEvent(book, op) ==
    [NoEvent EXCEPT
        !.broker = Broker, !.account = AccountId(book), !.id = <<op.id>>,
        !.type = IF op.type \in DOMAIN EventType THEN EventType[op.type] ELSE "UNKNOWN",
        !.month = op.time, !.ccy = AccountCurrency(book), !.amount = op.amount,
        !.fee = FeeOf(book, op),
        !.side = IF IsTrade(op) THEN op.comment ELSE "",
        !.ticker = IF IsTrade(op) THEN op.ticker ELSE ""]

Identity(event) == <<event.type, event.id, event.account>>

EventTables(book) ==
    LET operations == CashOperations(book)
        rows == [n \in DOMAIN operations |-> OperationEvent(book, operations[n])]
    IN  Deduped(rows, [n \in DOMAIN rows |-> Identity(rows[n])])

---------------------------------------------------------------------------
(* transform_snapshot.                                                     *)

Snapshot(book) ==
    LET ccy == AccountCurrency(book)
        open == OpenPositions(book)
        equity(row) == Position(Broker, "EQUITY", row.ticker, row.value, ccy)
        cash == Position(Broker, "CASH", "CASH", FreeCash(book), ccy)
    IN  [n \in DOMAIN open |-> equity(open[n])] \o
        (IF FreeCash(book) = Null THEN <<>> ELSE <<cash>>)

---------------------------------------------------------------------------
\* What is taken for granted of a workbook: all its amounts are in the one currency of
\* the account, and what a trade's comment says was bought was paid for.
Credible(book) ==
    LET ccy == AccountCurrency(book)
    IN  /\ IsSequence(CashRows(book))
        /\ \A row \in ToSet(CashRows(book)) :
               /\ row.amount.n \in Int
               /\ Has(book, "open") => Labelled(row.amount, ccy)
               /\ row.comment = "BUY" => row.amount.n <= 0
               /\ row.comment = "SELL" => row.amount.n >= 0
        /\ Has(book, "open") =>
               /\ IsSequence(book.open.rows)
               /\ \A row \in ToSet(book.open.rows) : Labelled(row.value, ccy)
        /\ Has(book, "closed") =>
               /\ IsSequence(book.closed.rows)
               /\ Has(book, "open") =>
                      \A row \in ToSet(book.closed.rows) : Labelled(row.commission, ccy)
=============================================================================
