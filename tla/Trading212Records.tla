-------------------------- MODULE Trading212Records --------------------------
(***************************************************************************)
(* What trading212/transform.py makes of the API's answers: orders with    *)
(* their fill, dividends and transactions become events, the summary and   *)
(* the positions become the snapshot.                                      *)
(*                                                                         *)
(* An answer is a record of lists; a field the API left out is "" or Null. *)
(***************************************************************************)
EXTENDS BrokerEvents

Broker == "Trading 212"

FeeNames == {"CURRENCY_CONVERSION_FEE", "FINRA_FEE", "PTM_LEVY", "STAMP_DUTY",
             "STAMP_DUTY_RESERVE_TAX", "TRANSACTION_FEE"}
TaxNames == {"FRENCH_TRANSACTION_TAX"}
TxnType == [WITHDRAW |-> "WITHDRAWAL", DEPOSIT |-> "DEPOSIT", FEE |-> "FEE",
            TRANSFER |-> "TRANSFER"]

\* The entries of walletImpact.taxes with one of these names, in the wallet's
\* currency and without their sign.
TaxesNamed(order, names) ==
    LET quantity(sum, tax) == IF tax.name \in names THEN sum + Abs(tax.quantity) ELSE sum
    IN  Money(FoldLeft(quantity, 0, order.taxes), order.wallet)

\* walletImpact.fxRate, from the wallet's currency to the security's.
WalletRate(order) ==
    IF order.fx = 0 THEN One ELSE FxRate(order.wallet, order.security, order.fx)

\* netValue is a magnitude; what is not a BUY is taken for an inflow.
Signed(m, side) == IF side = "BUY" THEN Money(-m.n, m.ccy) ELSE m

\* Faulty: fees stay in the wallet's currency, as before ADR 0078.
FeeInWallet(order) == TaxesNamed(order, FeeNames)

Fee(order) == Exchanged(TaxesNamed(order, FeeNames), WalletRate(order))

\* Without netValue the filledValue is taken for it, and multiplied like it.
OrderEvent(order) ==
    [NoEvent EXCEPT
        !.broker = Broker, !.id = <<order.id>>, !.type = "TRADE",
        !.month = Coalesce(order.created, order.filledAt, 0),
        !.ccy = Coalesce(order.security, order.currency, ""),
        !.amount = Signed(Exchanged(Coalesce(order.net, order.filled, Null), WalletRate(order)),
                          order.side),
        !.fee = Fee(order),
        !.tax = Exchanged(TaxesNamed(order, TaxNames), WalletRate(order)),
        !.side = order.side, !.ticker = order.ticker]

DividendEvent(dividend) ==
    [NoEvent EXCEPT
        !.broker = Broker, !.id = <<dividend.reference>>, !.type = "DIVIDEND",
        !.month = dividend.paidOn,
        !.ccy = Coalesce(dividend.currency, dividend.tickerCurrency, ""),
        !.amount = dividend.amount, !.ticker = dividend.ticker]

TransactionEvent(txn) ==
    [NoEvent EXCEPT
        !.broker = Broker, !.id = <<txn.reference>>,
        !.type = IF txn.type \in DOMAIN TxnType THEN TxnType[txn.type] ELSE "UNKNOWN",
        !.month = txn.dateTime, !.ccy = txn.currency, !.amount = txn.amount]

Mapped(Op(_), list) == [n \in DOMAIN list |-> Op(list[n])]

Identity(event) == <<event.type, event.id>>

\* transform_events: the three endpoints, one after the other.
EventTables(answer) ==
    LET rows == Mapped(OrderEvent, answer.orders) \o Mapped(DividendEvent, answer.dividends)
                    \o Mapped(TransactionEvent, answer.transactions)
    IN  Deduped(rows, Mapped(Identity, rows))

---------------------------------------------------------------------------
\* Whether both endpoints of the snapshot answered, each once.
BothThere(answer) == {"summary", "positions"} \subseteq answer.endpoints

\* A position without a price or a quantity raises ValueError.
SnapshotRaises(answer) ==
    BothThere(answer) /\ \E n \in DOMAIN answer.positions : answer.positions[n].value = Null

\* transform_snapshot: what is worth nothing is left out.
Snapshot(answer) ==
    LET worth == Passing(answer.positions, LAMBDA p : p.value.n # 0)
        equity(p) == Position(Broker, "EQUITY", p.ticker, p.value, p.currency)
        cash == Position(Broker, "CASH", "CASH", answer.cash, answer.cash.ccy)
    IN  IF ~BothThere(answer) THEN <<>>
        ELSE Mapped(equity, worth) \o (IF answer.cash.n = 0 THEN <<>> ELSE <<cash>>)

---------------------------------------------------------------------------
\* What is taken for granted of an answer: netValue is in the wallet's currency and
\* filledValue in the security's, both without a sign, and everything else is in the
\* currency it names.
Credible(answer) ==
    /\ IsSequence(answer.orders) /\ IsSequence(answer.dividends)
    /\ IsSequence(answer.transactions) /\ IsSequence(answer.positions)
    /\ \A order \in ToSet(answer.orders) :
           /\ order.security # "" /\ order.fx \in Nat
           /\ order.net.n \in Nat /\ Labelled(order.net, order.wallet)
           /\ order.filled.n \in Nat /\ Labelled(order.filled, order.security)
    /\ \A dividend \in ToSet(answer.dividends) :
           dividend.currency # "" /\ Labelled(dividend.amount, dividend.currency)
    /\ \A txn \in ToSet(answer.transactions) : Labelled(txn.amount, txn.currency)
    /\ \A position \in ToSet(answer.positions) : Labelled(position.value, position.currency)
=============================================================================
