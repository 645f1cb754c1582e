----------------------------- MODULE MCGoldTables -----------------------------
(* Instances of GoldTables for TLC: six sets of reports. *)
EXTENDS GoldTables

Eur(n) == Money(n, "EUR")
Usd(n) == Money(n, "USD")

\* IBKR elements: the defaults, and what an element says otherwise.
Element(given) ==
    given @@ [account |-> "U1", month |-> 2, dateTime |-> 2, symbol |-> "", currency |-> "USD",
              fx |-> 1, transactionID |-> ""]
Trade(given) ==
    Element(given @@ [ibExecID |-> "", tradeID |-> "", quantity |-> 1, netCash |-> Usd(-4),
                      commission |-> Usd(-1), taxes |-> Usd(0), side |-> "BUY"])
CashTransaction(id, type, amount, given) ==
    Element(given @@ [transactionID |-> id, type |-> type, amount |-> amount,
                      currency |-> amount.ccy])
Flex(given) ==
    given @@ [accounts |-> <<[id |-> "U1", currency |-> "EUR"]>>, trades |-> <<>>,
              cashTransactions |-> <<>>, transfers |-> <<>>, transactionFees |-> <<>>,
              positions |-> <<>>, cash |-> <<>>]
StockPosition(symbol, ccy, n) ==
    [symbol |-> symbol, currency |-> ccy, positionValue |-> 0, position |-> n, markPrice |-> 1]
CashEntry(ccy, n) == [account |-> "U1", currency |-> ccy, n |-> n]

\* Trading 212 items.
Order(id, given) ==
    given @@ [id |-> id, side |-> "BUY", security |-> "USD", currency |-> "EUR",
              wallet |-> "EUR", fx |-> 2, net |-> Eur(3), filled |-> Usd(6), taxes |-> <<>>,
              created |-> 1, filledAt |-> 2, ticker |-> "A"]
Dividend(ref, amount, month) ==
    [reference |-> ref, paidOn |-> month, currency |-> amount.ccy, tickerCurrency |-> "USD",
     amount |-> amount, ticker |-> "A"]
Transaction(ref, type, amount) ==
    [reference |-> ref, type |-> type, dateTime |-> 1, currency |-> amount.ccy,
     amount |-> amount]
Answer(given) ==
    given @@ [endpoints |-> {"summary", "positions"}, orders |-> <<>>, dividends |-> <<>>,
              transactions |-> <<>>, positions |-> <<>>, cash |-> Eur(0)]
Share(ticker, ccy, n) == [ticker |-> ticker, value |-> Money(n, ccy), currency |-> ccy]

\* XTB rows.
Op(id, type, n, given) ==
    given @@ [id |-> id, type |-> type, ticker |-> "", time |-> 1, amount |-> Money(n, "PLN"),
              position |-> "", comment |-> ""]
OpenSheet(rows) == [number |-> "X1", currencies |-> <<"", "PLN">>, rows |-> rows]
OpenRow(type, ticker, n) == [type |-> type, ticker |-> ticker, value |-> Money(n, "PLN")]
Nothing == [x \in {} |-> x]

\* The whole history of an account in PLN: a position bought and sold, a lot under its
\* aggregate, a move between subaccounts, interest and its tax with one id.
Whole ==
    [open |-> OpenSheet(<<OpenRow("", "B", 3), OpenRow("BUY", "B", 3)>>),
     cash |-> [number |-> "X1", rows |->
        <<Op("1", "Deposit", 9, Nothing),
          Op("2", "Stock purchase", -5, [position |-> "p", comment |-> "BUY", ticker |-> "B"]),
          Op("3", "Stock sell", 6, [position |-> "p", comment |-> "SELL", ticker |-> "B",
                                    time |-> 2]),
          Op("4", "Free funds interest", 2, [time |-> 2]),
          Op("4", "Free funds interest tax", -1, [time |-> 2]),
          Op("5", "Subaccount transfer", 4, Nothing),
          Op("6", "Subaccount transfer", -4, Nothing),
          Op("7", "Swap", -1, [time |-> 2]),
          Op("", "Total", 10, [time |-> 0])>>],
     closed |-> [number |-> "X1", rows |->
        <<[instrument |-> "B", position |-> "p", time |-> 2, commission |-> Money(1, "PLN")],
          [instrument |-> "Total", position |-> "", time |-> 0, commission |-> Null]>>]]

MCReports ==
    {\* Commissions in the base, with a rate and without; an event without a date.
     [ibkr |-> Flex([
        trades |-> <<Trade([ibExecID |-> "e1", fx |-> 2, commission |-> Eur(-1)]),
                     Trade([tradeID |-> "t1", side |-> "SELL", netCash |-> Usd(5),
                            fx |-> 0, commission |-> Eur(-1)])>>,
        cashTransactions |-> <<CashTransaction("c1", "Dividends", Usd(2), [fx |-> 2]),
                               CashTransaction("c2", "Broker Interest Paid", Eur(-1),
                                               [month |-> 0])>>,
        positions |-> <<StockPosition("A", "USD", 2)>>,
        cash |-> <<CashEntry("BASE SUMMARY", 5), CashEntry("EUR", 4)>>])],
     \* A base that is no target; a third currency; two fees told apart by nothing.
     [ibkr |-> Flex([
        accounts |-> <<[id |-> "U1", currency |-> "BASE"], [id |-> "U1", currency |-> "GBP"]>>,
        trades |-> <<Trade([currency |-> "GBP", netCash |-> Money(-4, "GBP"),
                            commission |-> Usd(-1), fx |-> 0])>>,
        transactionFees |-> [n \in 1 .. 2 |-> Element([description |-> "fee",
                                                       amount |-> Usd(-1), fx |-> 2])],
        transfers |-> <<Element([quantity |-> 1, cash |-> Null])>>,
        cash |-> <<CashEntry("BASE SUMMARY", 5)>>])],
     \* Wallet in EUR, security in USD, payout in GBP; no netValue, no rate; pounds and pence.
     [trading212 |-> Answer([
        orders |-> <<Order("1", [taxes |-> <<[name |-> "STAMP_DUTY", quantity |-> -1],
                                             [name |-> "FRENCH_TRANSACTION_TAX", quantity |-> 2]>>]),
                     Order("2", [side |-> "SELL", fx |-> 0, net |-> Usd(3), wallet |-> "USD"]),
                     Order("3", [net |-> Null, created |-> 0]),
                     Order("4", [fx |-> 0, taxes |-> <<[name |-> "STAMP_DUTY", quantity |-> -1]>>])>>,
        dividends |-> <<Dividend("d1", Money(2, "GBP"), 1), Dividend("d1", Money(2, "GBP"), 1)>>,
        transactions |-> <<Transaction("d1", "FEE", Eur(-1))>>,
        positions |-> <<Share("A", "GBP", 2), Share("B", "GBX", 3), Share("C", "USD", 0)>>,
        cash |-> Eur(1)])],
     \* Pence before and after pounds.
     [trading212 |-> Answer([
        orders |-> <<Order("1", [side |-> "SELL"])>>,
        positions |-> <<Share("B", "GBX", 3), Share("A", "GBP", 2), Share("C", "GBX", 1)>>])],
     \* A position without a price takes the broker out; ids that another broker has too.
     [ibkr |-> Flex([
        trades |-> <<Trade([tradeID |-> "2", currency |-> "EUR", netCash |-> Eur(-4)])>>]),
      trading212 |-> Answer([positions |-> <<[Share("A", "EUR", 1) EXCEPT !.value = Null]>>]),
      xtb |-> Whole],
     \* Nothing but a workbook, without its Open Positions.
     [xtb |-> [cash |-> Whole.cash]]}

MCHoldings ==
    UNION {{HoldingCurrencies(Restrict(given, S)) : S \in SUBSET DOMAIN given} :
               given \in MCReports}
MCEvents ==
    UNION {UNION {Consolidated(Restrict(given, S)) : S \in SUBSET DOMAIN given} :
               given \in MCReports}
=============================================================================
