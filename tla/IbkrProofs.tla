------------------------------ MODULE IbkrProofs ------------------------------
(***************************************************************************)
(* Proofs about the connector of Interactive Brokers, for any window,      *)
(* accounts, activity, number of polls and delays.  Of the client: what is *)
(* taken for a report is one, and giving up takes all the polls (Polling). *)
(* Of what becomes of the reports: Keeping is the invariant, and says that *)
(* every report is whole, that each row of the table is of an activity     *)
(* that happened or the deposit of an owner, that what happened before the *)
(* day shown is there if the windows met, and that the deposits are before *)
(* everything the report shows.  The steps of the table are proved through *)
(* what a transform makes of a report (TableIs) and what the merge keeps   *)
(* of both (MergedIs); of the earliest trade there is the least number of  *)
(* a set that is not empty (Least), which is well-founded induction.       *)
(***************************************************************************)
EXTENDS IbkrConnector, RowLemmas

-----------------------------------------------------------------------------
(* The client of the Flex Web Service.                                     *)

\* How often the client has polled and slept by where it is.
PollsAndSleeps ==
    /\ pc \in {"request", "starting"} => polls = 0 /\ slept = 0
    /\ pc = "poll" => polls < Retries /\ slept = InitialDelay + polls * Delay
    /\ pc = "sleep" => /\ polls \in 1 .. Retries - 1
                       /\ slept = InitialDelay + (polls - 1) * Delay

Polling == /\ TypeOK /\ PollsAndSleeps /\ OnlyFinishedStored
           /\ GivesUpAfterAllPolls /\ ReportTaken

LEMMA OneMoreDelay ==
  ASSUME NEW n \in Nat
  PROVE  n * Delay + Delay = (n + 1) * Delay /\ n * Delay \in Nat
  BY RetriesArePositive, DelaysAreNatural

\* What the client takes for a report is one, when the service keeps to Servable.
LEMMA ReportIsFinished ==
  ASSUME NEW done \in BOOLEAN, NEW a \in Servable(done) \cup {Broken}, IsReport(a)
  PROVE  done /\ a.statement /\ a.status # "WARN"
<1>1. CASE a = Broken
  BY <1>1 DEF Broken, IsReport
<1>2. CASE a \in Servable(done)
  <2>1. a \in Answer
    BY <1>2 DEF Servable
  <2>2. a.statement \/ a.status = "SUCCESS" => done /\ a.statement
    BY <1>2 DEF Servable
  <2> QED
    BY <2>1, <2>2 DEF Answer, IsReport
<1> QED
  BY <1>1, <1>2

\* A statement it goes on polling after came with a status that says otherwise.
LEMMA StatementIsReport ==
  ASSUME NEW done \in BOOLEAN, NEW a \in Servable(done) \cup {Broken}, ~IsReport(a)
  PROVE  ~a.statement \/ a.status \notin {"", "SUCCESS"}
<1>1. CASE a = Broken
  BY <1>1 DEF Broken
<1>2. CASE a \in Servable(done)
  <2>1. a.statement => a.flex
    BY <1>2 DEF Servable
  <2> QED
    BY <2>1 DEF IsReport
<1> QED
  BY <1>1, <1>2

LEMMA InitPolling == Init => Polling
<1>1. NoAnswer \in Answer
  BY DEF NoAnswer, Answer
<1> SUFFICES ASSUME Init PROVE Polling
  OBVIOUS
<1>2. TypeOK
  <2>1. 0 \in 0 .. Retries /\ 0 \in Nat
    BY RetriesArePositive, DelaysAreNatural
  <2>2. "request" \in PC
    BY DEF PC
  <2>3. ready \in BOOLEAN
    BY Zenon DEF Init
  <2> QED
    BY <1>1, <2>1, <2>2, <2>3, Zenon DEF Init, TypeOK
<1>3. PollsAndSleeps
  BY DEF Init, PollsAndSleeps
<1>4. OnlyFinishedStored /\ GivesUpAfterAllPolls /\ ReportTaken
  BY DEF Init, OnlyFinishedStored, GivesUpAfterAllPolls, ReportTaken
<1> QED
  BY <1>2, <1>3, <1>4 DEF Polling

LEMMA PollingStep == Polling /\ [Next]_vars => Polling'
<1> SUFFICES ASSUME Polling, [Next]_vars PROVE Polling'
  OBVIOUS
<1> USE RetriesArePositive, DelaysAreNatural DEF Polling, TypeOK, PC
<1>1. CASE UNCHANGED vars
  BY <1>1 DEF vars, PollsAndSleeps, OnlyFinishedStored, GivesUpAfterAllPolls,
              ReportTaken
<1>2. CASE Generated
  BY <1>2 DEF Generated, PollsAndSleeps, OnlyFinishedStored, GivesUpAfterAllPolls,
              ReportTaken
<1>3. CASE SendRequest
  <2>1. last' \in Answer \cup {Broken} /\ pc' \in {"starting", "fatal"}
    <3>1. NoAnswer \in Answer
      BY DEF NoAnswer, Answer
    <3>2. Servable(FALSE) \subseteq Answer
      BY DEF Servable
    <3> HIDE DEF TypeOK, Polling
    <3> QED
      BY <1>3, <3>1, <3>2 DEF SendRequest
  <2> QED
    BY <1>3, <2>1 DEF SendRequest, PollsAndSleeps, OnlyFinishedStored,
                      GivesUpAfterAllPolls, ReportTaken
<1>4. CASE FirstDelay
  <2>1. slept' = InitialDelay + polls' * Delay /\ polls' < Retries
    BY <1>4, OneMoreDelay DEF FirstDelay, PollsAndSleeps
  <2>2. last = NoAnswer \/ pc' = "poll"
    BY <1>4 DEF FirstDelay
  <2> QED
    BY <1>4, <2>1 DEF FirstDelay, PollsAndSleeps, OnlyFinishedStored,
                      GivesUpAfterAllPolls, ReportTaken
<1>5. CASE GetStatement
  <2> PICK a \in Servable(ready) \cup {Broken} : last' = a /\ pc' = AfterPoll(a)
    BY <1>5 DEF GetStatement
  <2>0. /\ polls < Retries /\ slept = InitialDelay + polls * Delay
        /\ polls' = polls + 1 /\ slept' = slept /\ ready' = ready
    BY <1>5 DEF GetStatement, PollsAndSleeps
  <2>1. last' \in Answer \cup {Broken} /\ polls' \in 0 .. Retries
    <3>1. Servable(ready) \subseteq Answer
      BY DEF Servable
    <3>2. last' \in Answer \cup {Broken}
      BY <3>1
    <3> QED
      BY <2>0, <3>2
  <2>2. CASE IsReport(a)
    BY <2>0, <2>1, <2>2, ReportIsFinished
       DEF AfterPoll, PollsAndSleeps, OnlyFinishedStored,
           GivesUpAfterAllPolls, ReportTaken
  <2>3. CASE ~IsReport(a) /\ IsFatal(a)
    BY <2>0, <2>1, <2>3
       DEF AfterPoll, PollsAndSleeps, OnlyFinishedStored,
           GivesUpAfterAllPolls, ReportTaken
  <2>4. CASE ~IsReport(a) /\ ~IsFatal(a) /\ polls + 1 < Retries
    <3>1. pc' = "sleep"
      BY <2>4 DEF AfterPoll
    <3>2. ~a.statement \/ a.status \notin {"", "SUCCESS"}
      BY <2>4, StatementIsReport
    <3>3. polls' - 1 = polls /\ polls' \in 1 .. Retries - 1
      BY <2>0, <2>4
    <3>4. slept' = InitialDelay + (polls' - 1) * Delay
      BY <2>0, <3>3
    <3> QED
      BY <2>0, <2>1, <3>1, <3>2, <3>3, <3>4
         DEF PollsAndSleeps, OnlyFinishedStored, GivesUpAfterAllPolls, ReportTaken
  <2>5. CASE ~IsReport(a) /\ ~IsFatal(a) /\ ~(polls + 1 < Retries)
    <3>1. pc' = "gaveup"
      BY <2>5 DEF AfterPoll
    <3>2. ~a.statement \/ a.status \notin {"", "SUCCESS"}
      BY <2>5, StatementIsReport
    <3>3. polls' = Retries /\ polls = Retries - 1
      BY <2>0, <2>5
    <3>4. slept' = InitialDelay + (Retries - 1) * Delay
      BY <2>0, <3>3
    <3> QED
      BY <2>0, <2>1, <3>1, <3>2, <3>3, <3>4
         DEF PollsAndSleeps, OnlyFinishedStored, GivesUpAfterAllPolls, ReportTaken
  <2> QED
    BY <2>2, <2>3, <2>4, <2>5
<1>6. CASE Sleep
  <2>1. /\ polls \in 1 .. Retries - 1 /\ slept = InitialDelay + (polls - 1) * Delay
        /\ slept' = slept + Delay /\ polls' = polls /\ pc' = "poll"
    BY <1>6 DEF Sleep, PollsAndSleeps
  <2>2. (polls - 1) * Delay + Delay = polls * Delay
    <3>1. polls - 1 \in Nat /\ (polls - 1) + 1 = polls
      BY <2>1
    <3> QED
      BY <3>1, OneMoreDelay
  <2>3. (polls - 1) * Delay \in Nat
    BY <2>1, OneMoreDelay
  <2>4. slept' = InitialDelay + polls' * Delay /\ polls' < Retries
    BY <2>1, <2>2, <2>3
  <2>5. slept' \in Nat
    BY <2>1
  <2>6. UNCHANGED <<polls, ready, last>>
    BY <1>6 DEF Sleep
  <2>7. TypeOK'
    BY <2>1, <2>5, <2>6
  <2>8. PollsAndSleeps'
    BY <2>1, <2>4 DEF PollsAndSleeps
  <2> QED
    BY <2>1, <2>7, <2>8 DEF OnlyFinishedStored, GivesUpAfterAllPolls, ReportTaken
<1> QED
  BY <1>1, <1>2, <1>3, <1>4, <1>5, <1>6 DEF Next, Client

-----------------------------------------------------------------------------
(* The rows of a report.                                                   *)

\* Records has the same lists.
LEMMA SameLists ==
  /\ \A S : Records!SetToSeq(S) = SetToSeq(S)
  /\ \A rows, identity : Records!Deduped(rows, identity) = Deduped(rows, identity)
<1>1. \A S : Records!SetToSeq(S) = SetToSeq(S)
  BY DEF Records!SetToSeq, SetToSeq, Records!IsInjective, IsInjective, Records!Cardinality,
         Cardinality
<1>2. \A rows, places : Records!Picked(rows, places) = Picked(rows, places)
  BY DEF Records!Picked, Picked, Records!Cardinality, Cardinality
<1>3. \A rows, identity : Records!Deduped(rows, identity) = Deduped(rows, identity)
  BY <1>2 DEF Records!Deduped, Deduped
<1> QED
  BY <1>1, <1>3

\* The element of the XML, and what is told of its event.
Element(a) ==
    [account |-> a.account, month |-> a.day, dateTime |-> a.day, symbol |-> "",
     currency |-> "USD", fx |-> 1, description |-> "fee", amount |-> Money(-1, "USD"),
     ibExecID |-> a.name, tradeID |-> "", quantity |-> 1, side |-> "BUY",
     netCash |-> Money(-1, "USD"), commission |-> Null, taxes |-> Null]

IdOf(a) == IF a.kind = "trade" THEN <<a.name>> ELSE <<"TransactionFee", a.account, a.day, "fee", -1>>
TypeOf(a) == IF a.kind = "trade" THEN "TRADE" ELSE "FEE"

IsOf(row, a) ==
    row.id = IdOf(a) /\ row.type = TypeOf(a) /\ row.month = a.day

DepositId(account) == <<"CashTransaction", account, "PAPER_INITIAL_DEPOSIT">>

Activity == [name : Activities, kind : {"trade", "fee"}, account : Accounts, day : Nat]

LEMMA TradeIs ==
  ASSUME NEW r, NEW a \in Activity, a.kind = "trade"
  PROVE  IsOf(Records!TradeEvent(r, Element(a)), a)
<1> DEFINE ids == <<a.name, "">>
           row == Records!TradeEvent(r, Element(a))
<1>1. {n \in DOMAIN ids : ids[n] # ""} = {1}
  <2>1. a.name # ""
    BY NamesAreNotEmpty DEF Activity
  <2>2. DOMAIN ids = {1, 2} /\ ids[1] = a.name /\ ids[2] = ""
    OBVIOUS
  <2> QED
    BY <2>1, <2>2
<1>2. Records!Min({1}) = 1
  BY DEF Records!Min
<1>3. \A hashed : Records!EventId(ids, hashed) = <<a.name>>
  <2> DEFINE given == {n \in DOMAIN ids : ids[n] # ""}
  <2>0. given = {1}
    BY <1>1
  <2>1. ids[Records!Min(given)] = a.name /\ given # {}
    <3>1. ids[1] = a.name
      OBVIOUS
    <3> HIDE DEF given, ids
    <3>2. Records!Min(given) = 1
      BY <1>2, <2>0
    <3> QED
      BY <2>0, <3>1, <3>2
  <2>2. \A hashed : Records!EventId(ids, hashed) = IF given = {} THEN hashed ELSE <<ids[Records!Min(given)]>>
    BY DEF Records!EventId
  <2> QED
    BY <2>1, <2>2
<1>4. row.id = <<a.name>>
  BY <1>3 DEF Records!TradeEvent, Records!Common, Records!NoEvent, Element
<1>5. row.type = "TRADE" /\ row.month = a.day
  BY DEF Records!TradeEvent, Records!Common, Records!NoEvent, Element
<1> QED
  BY <1>4, <1>5 DEF IsOf, IdOf, TypeOf

LEMMA FeeIs ==
  ASSUME NEW r, NEW a \in Activity, a.kind = "fee"
  PROVE  IsOf(Records!TransactionFeeEvent(r, Element(a)), a)
<1> DEFINE row == Records!TransactionFeeEvent(r, Element(a))
<1>1. row.id = <<"TransactionFee", a.account, a.day, "fee", -1>>
  BY DEF Records!TransactionFeeEvent, Records!Common, Records!NoEvent, Element, Money
<1>2. row.type = "FEE" /\ row.month = a.day
  BY DEF Records!TransactionFeeEvent, Records!Common, Records!NoEvent, Element
<1> QED
  BY <1>1, <1>2 DEF IsOf, IdOf, TypeOf

\* The elements of one kind.
Elements(S) == [n \in DOMAIN SetToSeq(S) |-> Element(SetToSeq(S)[n])]

LEMMA FlexIs ==
  ASSUME NEW given
  PROVE  /\ Flex(given).trades = Elements({a \in given.activity : a.kind = "trade"})
         /\ Flex(given).transactionFees = Elements({a \in given.activity : a.kind = "fee"})
         /\ Flex(given).cashTransactions = <<>> /\ Flex(given).transfers = <<>>
         /\ Flex(given).accounts =
                IF informs THEN SetToSeq({[id |-> account, currency |-> "EUR"] : account \in Accounts})
                ELSE <<>>
  BY DEF Flex, Elements, Element

\* The events are those of what happened.
LEMMA EventsAre ==
  ASSUME NEW given, given.activity \in SUBSET Activity, IsFiniteSet(given.activity)
  PROVE  LET rows == Records!Events(Flex(given))
         IN  /\ IsList(rows)
             /\ \A a \in given.activity : \E row \in ToSet(rows) : IsOf(row, a)
             /\ \A row \in ToSet(rows) : \E a \in given.activity : IsOf(row, a)
<1> DEFINE r == Flex(given)
           sale == {a \in given.activity : a.kind = "trade"}
           fee == {a \in given.activity : a.kind = "fee"}
           saleRows == [n \in DOMAIN r.trades |-> Records!TradeEvent(r, r.trades[n])]
           feeRows == [n \in DOMAIN r.transactionFees |->
                           Records!TransactionFeeEvent(r, r.transactionFees[n])]
           rows == Records!Events(r)
<1>1. rows = saleRows \o <<>> \o <<>> \o feeRows
  <2>1. [n \in DOMAIN <<>> |-> Records!CashTransactionEvent(r, <<>>[n])] = <<>>
    OBVIOUS
  <2>2. [n \in DOMAIN <<>> |-> Records!TransferEvent(r, <<>>[n])] = <<>>
    OBVIOUS
  <2>3. r.cashTransactions = <<>> /\ r.transfers = <<>>
    BY FlexIs
  <2> QED
    BY <2>1, <2>2, <2>3 DEF Records!Events
<1>2. IsFiniteSet(sale) /\ IsFiniteSet(fee)
  BY FS_Subset
<1>3. r.trades = Elements(sale) /\ r.transactionFees = Elements(fee)
  BY FlexIs
<1>4. given.activity = sale \cup fee /\ \A a \in given.activity : a \in Activity
  BY DEF Activity
<1> HIDE DEF r, rows
<1>5. IsList(saleRows) /\ ToSet(saleRows) = {Records!TradeEvent(r, Element(a)) : a \in sale}
  <2> DEFINE list == SetToSeq(sale)
             size == Cardinality(sale)
  <2>1. list \in [1 .. size -> sale] /\ size \in Nat /\ ToSet(list) = sale
    BY <1>2, ListedSet
  <2> HIDE DEF list, size
  <2>2. saleRows = [n \in 1 .. size |-> Records!TradeEvent(r, Element(list[n]))]
    BY <1>3, <2>1 DEF Elements, list
  <2> HIDE DEF saleRows
  <2>3. IsList(saleRows)
    <3>1. saleRows = [n \in 1 .. size |-> saleRows[n]]
      BY <2>2
    <3> QED
      BY <2>1, <3>1 DEF IsList
  <2>4. ToSet(saleRows) = {Records!TradeEvent(r, Element(list[n])) : n \in 1 .. size}
    BY <2>2 DEF ToSet
  <2>5. sale = {list[n] : n \in 1 .. size}
    BY <2>1 DEF ToSet
  <2> QED
    BY <2>3, <2>4, <2>5
<1>6. IsList(feeRows) /\ ToSet(feeRows) = {Records!TransactionFeeEvent(r, Element(a)) : a \in fee}
  <2> DEFINE list == SetToSeq(fee)
             size == Cardinality(fee)
  <2>1. list \in [1 .. size -> fee] /\ size \in Nat /\ ToSet(list) = fee
    BY <1>2, ListedSet
  <2> HIDE DEF list, size
  <2>2. feeRows = [n \in 1 .. size |-> Records!TransactionFeeEvent(r, Element(list[n]))]
    BY <1>3, <2>1 DEF Elements, list
  <2> HIDE DEF feeRows
  <2>3. IsList(feeRows)
    <3>1. feeRows = [n \in 1 .. size |-> feeRows[n]]
      BY <2>2
    <3> QED
      BY <2>1, <3>1 DEF IsList
  <2>4. ToSet(feeRows) = {Records!TransactionFeeEvent(r, Element(list[n])) : n \in 1 .. size}
    BY <2>2 DEF ToSet
  <2>5. fee = {list[n] : n \in 1 .. size}
    BY <2>1 DEF ToSet
  <2> QED
    BY <2>3, <2>4, <2>5
<1> HIDE DEF saleRows, feeRows
<1>7. IsList(rows) /\ ToSet(rows) = ToSet(saleRows) \cup ToSet(feeRows)
  <2>1. IsList(saleRows \o <<>>) /\ ToSet(saleRows \o <<>>) = ToSet(saleRows)
    BY <1>5, EmptyList, Joined
  <2>2. IsList(saleRows \o <<>> \o <<>>) /\ ToSet(saleRows \o <<>> \o <<>>) = ToSet(saleRows)
    BY <2>1, EmptyList, Joined
  <2> QED
    BY <1>1, <1>6, <2>2, Joined
<1> HIDE DEF sale, fee
<1>8. ASSUME NEW a \in sale PROVE IsOf(Records!TradeEvent(r, Element(a)), a)
  BY <1>4, TradeIs DEF sale
<1>9. ASSUME NEW a \in fee PROVE IsOf(Records!TransactionFeeEvent(r, Element(a)), a)
  BY <1>4, FeeIs DEF fee
<1>10. ASSUME NEW a \in given.activity PROVE \E row \in ToSet(rows) : IsOf(row, a)
  BY <1>4, <1>5, <1>6, <1>7, <1>8, <1>9
<1>11. ASSUME NEW row \in ToSet(rows) PROVE \E a \in given.activity : IsOf(row, a)
  BY <1>4, <1>5, <1>6, <1>7, <1>8, <1>9
<1> QED
  BY <1>7, <1>10, <1>11 DEF rows, r
-----------------------------------------------------------------------------
(* The deposits of a paper account.                                        *)

Owners == IF informs THEN Accounts ELSE {""}

\* Its date is before every event of the report.
LEMMA DatedBefore ==
  ASSUME NEW events_, \A n \in DOMAIN events_ : events_[n].month \in Nat \ {0}
  PROVE  \A n \in DOMAIN events_ : Records!DepositDate(events_) < events_[n].month
<1> SUFFICES ASSUME NEW n \in DOMAIN events_
             PROVE  Records!DepositDate(events_) < events_[n].month
  OBVIOUS
<1> DEFINE dates == {events_[k].month : k \in DOMAIN events_} \ {0}
<1>1. events_[n].month \in dates /\ dates \in SUBSET Nat
  OBVIOUS
<1> HIDE DEF dates
<1>2. \E x \in dates : \A y \in dates : x <= y
  BY <1>1, Least
<1>3. Records!Min(dates) \in dates /\ \A y \in dates : Records!Min(dates) <= y
  BY <1>2 DEF Records!Min
<1>4. Records!DepositDate(events_) = Records!Min(dates) - 1
  BY <1>1 DEF Records!DepositDate, dates
<1>5. Records!Min(dates) \in Nat /\ events_[n].month \in Nat /\ Records!Min(dates) <= events_[n].month
  BY <1>1, <1>3
<1> QED
  BY <1>4, <1>5

LEMMA DepositsAre ==
  ASSUME NEW given, given.activity \in SUBSET Activity, IsFiniteSet(given.activity),
         \A a \in given.activity : a.day # 0
  PROVE  LET deposits == Records!Deposits(Flex(given))
         IN  /\ IsFiniteSet(deposits)
             /\ \A d \in deposits :
                    /\ d.type = "DEPOSIT" /\ d.id = DepositId(d.account) /\ d.account \in Owners
                    /\ \A a \in given.activity : d.month < a.day
             /\ deposits # {} \/ given.activity # {} =>
                    \A owner \in Owners : \E d \in deposits : d.account = owner
<1> DEFINE r == Flex(given)
           rows == Records!Events(r)
           date == Records!DepositDate(rows)
           bases == Records!BaseCurrencies(r)
           infos == {[id |-> account, currency |-> "EUR"] : account \in Accounts}
           deposits == Records!Deposits(r)
<1>1. /\ IsList(rows)
      /\ \A a \in given.activity : \E row \in ToSet(rows) : IsOf(row, a)
      /\ \A row \in ToSet(rows) : \E a \in given.activity : IsOf(row, a)
  BY EventsAre
<1>2. r.accounts = IF informs THEN SetToSeq(infos) ELSE <<>>
  BY FlexIs
<1>3. IsFiniteSet(infos)
  <2> DEFINE f == [account \in Accounts |-> [id |-> account, currency |-> "EUR"]]
  <2>1. f \in Surjection(Accounts, infos)
    BY DEF Surjection
  <2> QED
    BY <2>1, AccountsAreFinite, FS_Surjection
<1>4. DOMAIN bases = IF informs THEN Accounts ELSE {}
  <2>1. DOMAIN bases = {r.accounts[n].id : n \in DOMAIN r.accounts}
    BY DEF Records!BaseCurrencies
  <2>2. CASE informs
    <3>1. ToSet(SetToSeq(infos)) = infos
      BY <1>3, ListedSet
    <3>2. {SetToSeq(infos)[n].id : n \in DOMAIN SetToSeq(infos)} = {info.id : info \in infos}
      <4> DEFINE list == SetToSeq(infos)
      <4> HIDE DEF list, infos
      <4>1. {list[n] : n \in DOMAIN list} = infos
        BY <3>1 DEF ToSet, list
      <4>2. {list[n].id : n \in DOMAIN list} = {info.id : info \in infos}
        BY <4>1
      <4> QED
        BY <4>2 DEF list
    <3>3. {info.id : info \in infos} = Accounts
      <4>1. ASSUME NEW account \in Accounts PROVE \E info \in infos : info.id = account
        <5>1. [id |-> account, currency |-> "EUR"] \in infos
          OBVIOUS
        <5>2. [id |-> account, currency |-> "EUR"].id = account
          OBVIOUS
        <5> HIDE DEF infos
        <5> QED
          BY <5>1, <5>2
      <4>2. \A info \in infos : info.id \in Accounts
        OBVIOUS
      <4> QED
        BY <4>1, <4>2
    <3> QED
      BY <1>2, <2>1, <2>2, <3>2, <3>3
  <2>3. CASE ~informs
    BY <1>2, <2>1, <2>3
  <2> QED
    BY <2>2, <2>3
<1>5. \A a \in given.activity : date < a.day
  <2>1. ASSUME NEW n \in DOMAIN rows PROVE rows[n].month \in Nat \ {0}
    <3>1. rows[n] \in ToSet(rows)
      BY DEF ToSet
    <3> QED
      BY <1>1, <3>1 DEF IsOf, Activity
  <2>2. \A n \in DOMAIN rows : date < rows[n].month
    BY <2>1, DatedBefore
  <2>3. \A row \in ToSet(rows) : date < row.month
    BY <2>2 DEF ToSet
  <2> QED
    BY <1>1, <2>3 DEF IsOf
<1> HIDE DEF r, rows, date, bases, infos
<1>6. ASSUME NEW account, NEW base
      PROVE  LET d == Records!Deposit(account, base, date)
             IN  /\ d.type = "DEPOSIT" /\ d.id = DepositId(d.account) /\ d.account = account
                 /\ d.month = date
  BY DEF Records!Deposit, Records!NoEvent, DepositId
<1>7. CASE DOMAIN bases # {}
  <2>1. deposits = {Records!Deposit(account, bases[account], date) : account \in Accounts}
    BY <1>4, <1>7 DEF Records!Deposits, bases, date, rows
  <2>2. IsFiniteSet(deposits)
    <3> DEFINE f == [account \in Accounts |-> Records!Deposit(account, bases[account], date)]
    <3>1. f \in Surjection(Accounts, deposits)
      BY <2>1 DEF Surjection
    <3> HIDE DEF f
    <3> QED
      BY <3>1, AccountsAreFinite, FS_Surjection
  <2>3. Owners = Accounts
    BY <1>4, <1>7 DEF Owners
  <2> HIDE DEF deposits
  <2> QED
    BY <1>5, <1>6, <2>1, <2>2, <2>3 DEF deposits, r
<1>8. CASE DOMAIN bases = {}
  <2>1. deposits = {Records!Deposit("", "USD", date) : n \in DOMAIN rows}
    BY <1>8 DEF Records!Deposits, bases, date, rows
  <2>2. IsFiniteSet(deposits)
    <3>1. deposits \in SUBSET {Records!Deposit("", "USD", date)}
      BY <2>1
    <3> QED
      BY <3>1, FS_Singleton, FS_Subset
  <2>3. CASE ~informs
    <3>1. Owners = {""}
      BY <2>3 DEF Owners
    <3>2. given.activity # {} => DOMAIN rows # {}
      BY <1>1 DEF ToSet
    <3> HIDE DEF deposits
    <3>3. \A d \in deposits : d = Records!Deposit("", "USD", date)
      BY <2>1
    <3>4. \A d \in deposits :
              /\ d.type = "DEPOSIT" /\ d.id = DepositId(d.account) /\ d.account = ""
              /\ d.month = date
      <4>1. LET d == Records!Deposit("", "USD", date)
            IN  /\ d.type = "DEPOSIT" /\ d.id = DepositId(d.account) /\ d.account = ""
                /\ d.month = date
        BY <1>6
      <4> QED
        BY <3>3, <4>1
    <3>5. given.activity # {} => deposits # {}
      BY <2>1, <3>2
    <3> QED
      BY <1>5, <2>2, <3>1, <3>4, <3>5 DEF deposits, r
  <2>4. CASE informs
    <3>1. Accounts = {} /\ Owners = {}
      BY <1>4, <1>8, <2>4 DEF Owners
    <3>2. given.activity = {}
      BY <3>1 DEF Activity
    <3>3. DOMAIN rows = {}
      BY <1>1, <3>2 DEF ToSet
    <3> HIDE DEF deposits
    <3> QED
      BY <2>1, <2>2, <3>1, <3>2, <3>3 DEF deposits, r
  <2> QED
    BY <2>3, <2>4
<1> QED
  BY <1>7, <1>8
-----------------------------------------------------------------------------
(* The table of a report and its merge.                                    *)

IsDeposit(row) ==
    Paper /\ row.type = "DEPOSIT" /\ row.id = DepositId(row.account) /\ row.account \in Owners

\* A table of a report has what happened and the deposits, one row of each identity.
LEMMA TableIs ==
  ASSUME NEW given, given.activity \in SUBSET Activity, IsFiniteSet(given.activity),
         \A a \in given.activity : a.day # 0,
         NEW table \in Records!EventTables(Flex(given), Paper)
  PROVE  LET rows == ToSet(table)
         IN  /\ \A row \in rows :
                    \/ \E a \in given.activity : IsOf(row, a)
                    \/ IsDeposit(row) /\ \A a \in given.activity : row.month < a.day
             /\ \A row, other \in rows : row.id = other.id => row = other
             /\ \A a \in given.activity : \E row \in rows : row.id = IdOf(a)
             /\ Paper /\ (given.activity # {} \/ \E row \in rows : IsDeposit(row)) =>
                    \A owner \in Owners : \E row \in rows : row.id = DepositId(owner)
<1> DEFINE r == Flex(given)
           deposits == IF Paper THEN Records!Deposits(r) ELSE {}
           some == IF Paper THEN SetToSeq(Records!Deposits(r)) ELSE <<>>
           all == Records!Events(r) \o some
           ids == [n \in DOMAIN all |-> Records!Identity(all[n])]
<1>1. /\ IsList(Records!Events(r))
      /\ \A a \in given.activity : \E row \in ToSet(Records!Events(r)) : IsOf(row, a)
      /\ \A row \in ToSet(Records!Events(r)) : \E a \in given.activity : IsOf(row, a)
  BY EventsAre
<1>2. /\ \A d \in deposits : IsDeposit(d) /\ \A a \in given.activity : d.month < a.day
      /\ Paper /\ (deposits # {} \/ given.activity # {}) =>
             \A owner \in Owners : \E d \in deposits : d.account = owner
      /\ Paper => IsFiniteSet(Records!Deposits(r))
  BY DepositsAre DEF IsDeposit
<1>3. IsList(some) /\ ToSet(some) = deposits
  <2>1. CASE Paper
    <3> DEFINE D == Records!Deposits(r)
    <3>1. SetToSeq(D) \in [1 .. Cardinality(D) -> D] /\ Cardinality(D) \in Nat /\ ToSet(SetToSeq(D)) = D
      BY <1>2, <2>1, ListedSet
    <3> HIDE DEF D
    <3>2. IsList(SetToSeq(D))
      BY <3>1 DEF IsList
    <3> QED
      BY <2>1, <3>1, <3>2 DEF D
  <2>2. CASE ~Paper
    BY <2>2, EmptyList
  <2> QED
    BY <2>1, <2>2
<1> HIDE DEF r, some, deposits
<1>4. IsList(all) /\ ToSet(all) = ToSet(Records!Events(r)) \cup deposits
  BY <1>1, <1>3, Joined
<1>5. table \in Deduped(all, ids)
  BY SameLists DEF Records!EventTables, r, some
<1> HIDE DEF all
<1>6. \A n \in DOMAIN all : ids[n] = all[n].id
  BY DEF Records!Identity
<1> HIDE DEF ids
<1>7. PICK K \in SUBSET DOMAIN all :
          /\ ToSet(table) = {all[k] : k \in K}
          /\ \A n \in DOMAIN all : \E k \in K :
                 /\ ids[k] = ids[n]
                 /\ \A j \in K : ids[j] = ids[k] => j = k
  BY <1>4, <1>5, DedupedAre
<1>8. ToSet(table) \subseteq ToSet(all)
  BY <1>7 DEF ToSet
<1>9. \A row, other \in ToSet(table) : row.id = other.id => row = other
  <2>1. \A j, k \in K : ids[j] = ids[k] => j = k
    BY <1>7
  <2> QED
    BY <1>6, <1>7, <2>1
<1>10. ASSUME NEW row \in ToSet(all) PROVE \E other \in ToSet(table) : other.id = row.id
  <2>1. PICK n \in DOMAIN all : row = all[n]
    BY DEF ToSet
  <2> QED
    BY <1>6, <1>7, <2>1
<1>11. ASSUME NEW row \in ToSet(table)
       PROVE  \/ \E a \in given.activity : IsOf(row, a)
              \/ IsDeposit(row) /\ \A a \in given.activity : row.month < a.day
  BY <1>1, <1>2, <1>4, <1>8
<1>12. ASSUME NEW a \in given.activity PROVE \E row \in ToSet(table) : row.id = IdOf(a)
  BY <1>1, <1>4, <1>10 DEF IsOf
<1>13. ASSUME Paper, given.activity # {} \/ \E row \in ToSet(table) : IsDeposit(row), NEW owner \in Owners
       PROVE  \E row \in ToSet(table) : row.id = DepositId(owner)
  <2>1. deposits # {} \/ given.activity # {}
    <3>1. CASE given.activity # {}
      BY <3>1
    <3>2. CASE \E row \in ToSet(table) : IsDeposit(row)
      <4> PICK row \in ToSet(table) : IsDeposit(row)
        BY <3>2
      <4>1. \A a \in given.activity : ~IsOf(row, a)
        BY DEF IsDeposit, IsOf, TypeOf
      <4> QED
        BY <1>1, <1>4, <1>8, <4>1
    <3> QED
      BY <1>13, <3>1, <3>2
  <2>2. PICK d \in deposits : d.account = owner
    BY <1>2, <1>13, <2>1
  <2>3. d \in ToSet(all) /\ d.id = DepositId(owner)
    BY <1>2, <1>4, <2>2 DEF IsDeposit
  <2> QED
    BY <1>10, <2>3
<1> QED
  BY <1>9, <1>11, <1>12, <1>13

\* What is merged by a later run replaces what has its identity, and all of it is there.
LEMMA MergedIs ==
  ASSUME NEW rows, \A e \in events : run > e.at
  PROVE  Merged(rows) = {e \in events : \A row \in rows : e.row.id # row.id}
                            \cup {[row |-> row, at |-> run] : row \in rows}
  BY DEF Merged, Records!Identity
-----------------------------------------------------------------------------
(* The inductive invariant of the connector.                               *)

World ==
    /\ today \in Nat /\ FirstDay <= today
    /\ informs \in BOOLEAN /\ run \in Nat /\ gap \in Int
    /\ stage \in {"idle", "fetch", "transform"}
    /\ activity \in SUBSET Activity /\ IsFiniteSet(activity)
    /\ \A a \in activity : FirstDay <= a.day /\ a.day <= today

\* A report has what happened before its day and within its window.
IsWhole(r) ==
    /\ r.day \in Nat /\ r.day <= today /\ r.activity \in SUBSET activity
    /\ \A a \in activity : a.day < r.day /\ r.day - a.day < Window => a \in r.activity

Reports == IsWhole(report) /\ IsWhole(bronze) /\ IsWhole(shown)

Rows ==
    /\ \A e \in events : e.at \in Nat /\ e.at <= run /\ (stage # "idle" => e.at < run)
    /\ \A e, other \in events : e.row.id = other.row.id => e = other
    /\ \A e \in events : IsDeposit(e.row) \/ \E a \in activity : IsOf(e.row, a)

Filled ==
    gap < Window =>
        \A a \in activity : a.day < shown.day => \E e \in events : e.row.id = IdOf(a)

Deposited ==
    /\ Paper /\ (shown.activity # {} \/ \E e \in events : IsDeposit(e.row)) =>
           \A owner \in Owners : \E e \in events : e.row.id = DepositId(owner)
    /\ \A e \in events : IsDeposit(e.row) => \A a \in shown.activity : e.row.month < a.day

Keeping == World /\ Reports /\ Rows /\ Filled /\ Deposited
\* What is an event of something is no deposit, and the identity says which it is.
LEMMA Kinds ==
  /\ \A row, a : IsOf(row, a) => ~IsDeposit(row)
  /\ \A a, account : IdOf(a) # DepositId(account)
  /\ \A account, other : DepositId(account) = DepositId(other) => account = other
<1>1. \A row, a : IsOf(row, a) => ~IsDeposit(row)
  BY DEF IsOf, TypeOf, IsDeposit
<1>2. ASSUME NEW a, NEW account PROVE IdOf(a) # DepositId(account)
  <2>1. Len(DepositId(account)) = 3
    BY DEF DepositId
  <2>2. Len(<<a.name>>) = 1 /\ Len(<<"TransactionFee", a.account, a.day, "fee", -1>>) = 5
    OBVIOUS
  <2>3. Len(IdOf(a)) \in {1, 5}
    BY <2>2 DEF IdOf
  <2> QED
    BY <2>1, <2>3
<1>3. \A account, other : DepositId(account) = DepositId(other) => account = other
  BY DEF DepositId
<1> QED
  BY <1>1, <1>2, <1>3

LEMMA InitKeeping == ConnectorInit => Keeping
<1> SUFFICES ASSUME ConnectorInit PROVE Keeping
  OBVIOUS
<1>1. World
  BY FS_EmptySet DEF ConnectorInit, World, FirstDay
<1>2. IsWhole(NoReport)
  BY DEF ConnectorInit, IsWhole, NoReport, FirstDay
<1>3. Reports
  BY <1>2 DEF ConnectorInit, Reports
<1>4. Rows /\ Filled /\ Deposited
  BY DEF ConnectorInit, Rows, Filled, Deposited, NoReport, Owners
<1> QED
  BY <1>1, <1>3, <1>4 DEF Keeping

\* Reports that stay are whole still, when a day passes or something happens today.
LEMMA StaysWhole ==
  ASSUME World, today' \in Nat, today <= today', activity \subseteq activity',
         \A a \in activity' \ activity : a.day = today, NEW r, IsWhole(r)
  PROVE  IsWhole(r)'
  BY DEF IsWhole, World, Activity

LEMMA NewDayKeeps == Keeping /\ NewDay => Keeping'
<1> SUFFICES ASSUME Keeping, NewDay PROVE Keeping'
  OBVIOUS
<1>1. /\ today' = today + 1 /\ UNCHANGED <<report, activity, informs, stored>>
  BY DEF NewDay
<1>2. World'
  BY <1>1 DEF Keeping, World, stored, Activity, FirstDay
<1>3. Reports'
  <2>1. \A r : IsWhole(r) => IsWhole(r)'
    BY <1>1, <1>2, StaysWhole DEF Keeping, World
  <2> QED
    BY <1>1, <2>1 DEF Keeping, Reports, stored
<1>4. Rows' /\ Filled' /\ Deposited'
  BY <1>1 DEF Keeping, Rows, Filled, Deposited, stored, IsDeposit, Owners
<1> QED
  BY <1>2, <1>3, <1>4 DEF Keeping

LEMMA HappensKeeps == Keeping /\ Happens => Keeping'
<1> SUFFICES ASSUME Keeping, Happens PROVE Keeping'
  OBVIOUS
<1> PICK name \in Activities, kind \in {"trade", "fee"}, account \in Accounts :
        activity' = activity \cup
            {[name |-> name, kind |-> kind, account |-> account, day |-> today]}
  BY DEF Happens
<1> DEFINE new == [name |-> name, kind |-> kind, account |-> account, day |-> today]
<1>1. UNCHANGED <<report, today, informs, stored>>
  BY DEF Happens
<1>2. new \in Activity /\ new.day = today /\ activity' = activity \cup {new}
  BY DEF Activity, Keeping, World
<1> HIDE DEF new
<1>3. World'
  <2>1. IsFiniteSet(activity')
    BY <1>2, FS_AddElement DEF Keeping, World
  <2>2. activity' \in SUBSET Activity
    BY <1>2 DEF Keeping, World
  <2>3. \A a \in activity' : FirstDay <= a.day /\ a.day <= today'
    BY <1>1, <1>2 DEF Keeping, World
  <2> QED
    BY <1>1, <2>1, <2>2, <2>3 DEF Keeping, World, stored
<1>4. Reports'
  <2>1. \A r : IsWhole(r) => IsWhole(r)'
    BY <1>1, <1>2, StaysWhole DEF Keeping, World
  <2> QED
    BY <1>1, <2>1 DEF Keeping, Reports, stored
<1>5. Rows'
  BY <1>1, <1>2 DEF Keeping, Rows, stored, IsDeposit, Owners
<1>6. Filled'
  <2>1. ~(today < shown.day)
    BY DEF Keeping, World, Reports, IsWhole
  <2> QED
    BY <1>1, <1>2, <2>1 DEF Keeping, Filled, stored
<1>7. Deposited'
  BY <1>1 DEF Keeping, Deposited, stored, IsDeposit, Owners
<1> QED
  BY <1>3, <1>4, <1>5, <1>6, <1>7 DEF Keeping

LEMMA EmptyIsWhole == World => IsWhole(NoReport)
  BY DEF World, IsWhole, NoReport, FirstDay, Activity

\* The fetch touches nothing of what was kept, and what it brings is whole.
LEMMA FetchKeeps ==
  Keeping /\ (ReportGenerated \/ StartRun \/ FetchStep \/ RunEnds \/ Ingest) => Keeping'
<1> SUFFICES ASSUME Keeping, ReportGenerated \/ StartRun \/ FetchStep \/ RunEnds \/ Ingest
             PROVE  Keeping'
  OBVIOUS
<1>1. UNCHANGED <<world, events, shown, gap>>
  BY DEF ReportGenerated, StartRun, FetchStep, RunEnds, Ingest, stored
<1>2. World'
  <2>1. run' \in Nat /\ stage' \in {"idle", "fetch", "transform"}
    BY DEF ReportGenerated, StartRun, FetchStep, RunEnds, Ingest, stored, Keeping, World
  <2> QED
    BY <1>1, <2>1 DEF Keeping, World, world
<1>3. Reports'
  <2>1. \A r : IsWhole(r) => IsWhole(r)'
    BY <1>1 DEF IsWhole, world
  <2>2. IsWhole(report)'
    <3>1. CASE ReportGenerated
      <4>1. report' = [day |-> today, activity |-> {a \in activity : today - a.day < Window}]
        BY <3>1 DEF ReportGenerated
      <4>2. IsWhole(report')
        BY <4>1 DEF IsWhole, Keeping, World
      <4> QED
        BY <2>1, <4>2
    <3>2. CASE ~ReportGenerated
      <4>1. report' = report \/ report' = NoReport
        BY <3>2 DEF StartRun, FetchStep, RunEnds, Ingest
      <4> QED
        BY <2>1, <4>1, EmptyIsWhole DEF Keeping, Reports
    <3> QED
      BY <3>1, <3>2
  <2>3. IsWhole(bronze)'
    <3>1. bronze' = bronze \/ bronze' = report
      BY DEF ReportGenerated, StartRun, FetchStep, RunEnds, Ingest, stored
    <3> QED
      BY <2>1, <3>1 DEF Keeping, Reports
  <2>4. IsWhole(shown)'
    BY <1>1, <2>1 DEF Keeping, Reports
  <2> QED
    BY <2>2, <2>3, <2>4 DEF Reports
<1>4. Rows'
  <2>1. /\ run <= run'
        /\ stage' # "idle" => run < run' \/ (stage # "idle" /\ run' = run)
    BY DEF ReportGenerated, StartRun, FetchStep, RunEnds, Ingest, stored, Keeping, World
  <2>2. \A e \in events' : e.at \in Nat /\ e.at <= run' /\ (stage' # "idle" => e.at < run')
    BY <1>1, <1>2, <2>1 DEF Keeping, Rows, World
  <2> QED
    BY <1>1, <2>2 DEF Keeping, Rows, world, IsDeposit, Owners
<1>5. Filled' /\ Deposited'
  BY <1>1 DEF Keeping, Filled, Deposited, world, IsDeposit, Owners
<1> QED
  BY <1>2, <1>3, <1>4, <1>5 DEF Keeping

LEMMA TransformKeeps == Keeping /\ Transform => Keeping'
<1> SUFFICES ASSUME Keeping, Transform PROVE Keeping'
  OBVIOUS
<1>0. /\ stage = "transform" /\ stage' = "idle" /\ shown' = bronze
      /\ gap' = Max({gap, bronze.day - shown.day})
      /\ UNCHANGED <<report, world, bronze, run>>
  BY DEF Transform
<1>1. /\ bronze.activity \in SUBSET Activity /\ IsFiniteSet(bronze.activity)
      /\ \A a \in bronze.activity : a.day # 0 /\ a \in activity
      /\ bronze.day \in Nat /\ shown.day \in Nat
  <2>1. IsFiniteSet(bronze.activity)
    BY FS_Subset DEF Keeping, World, Reports, IsWhole
  <2> QED
    BY <2>1 DEF Keeping, World, Reports, IsWhole, FirstDay
<1>a. gap \in Int /\ gap' \in Int /\ bronze.day - shown.day \in Int /\ gap <= gap' /\ bronze.day - shown.day <= gap'
  <2>1. gap \in Int /\ bronze.day - shown.day \in Int
    BY <1>1 DEF Keeping, World
  <2> HIDE DEF World
  <2> QED
    BY <1>0, <2>1, MaxIs
<1> PICK table \in Records!EventTables(Flex(bronze), Paper) : events' = Merged(ToSet(table))
  BY DEF Transform
<1> DEFINE rows == ToSet(table)
<1>2. /\ \A row \in rows :
             \/ \E a \in bronze.activity : IsOf(row, a)
             \/ IsDeposit(row) /\ \A a \in bronze.activity : row.month < a.day
      /\ \A row, other \in rows : row.id = other.id => row = other
      /\ \A a \in bronze.activity : \E row \in rows : row.id = IdOf(a)
      /\ Paper /\ (bronze.activity # {} \/ \E row \in rows : IsDeposit(row)) =>
             \A owner \in Owners : \E row \in rows : row.id = DepositId(owner)
  BY <1>1, TableIs
<1> HIDE DEF rows
<1>3. \A e \in events : run > e.at /\ e.at \in Nat
  BY <1>0 DEF Keeping, World, Rows
<1>4. events' = {e \in events : \A row \in rows : e.row.id # row.id}
                    \cup {[row |-> row, at |-> run] : row \in rows}
  <2>1. Merged(rows) = {e \in events : \A row \in rows : e.row.id # row.id}
                            \cup {[row |-> row, at |-> run] : row \in rows}
    BY <1>3, MergedIs
  <2> QED
    BY <2>1 DEF rows
<1>5. /\ \A e \in events' : (e \in events /\ \A row \in rows : e.row.id # row.id)
                                \/ (e.row \in rows /\ e.at = run /\ e = [row |-> e.row, at |-> run])
      /\ \A e \in events : \E other \in events' : other.row.id = e.row.id
      /\ \A row \in rows : \E e \in events' : e.row = row
  <2>1. \A row \in rows : [row |-> row, at |-> run] \in events'
    BY <1>4
  <2>2. \A e \in events : e \in events' \/ \E row \in rows : e.row.id = row.id
    BY <1>4
  <2>3. \A e \in events' : (e \in events /\ \A row \in rows : e.row.id # row.id)
                                \/ \E row \in rows : e = [row |-> row, at |-> run]
    BY <1>4
  <2>4. \A row \in rows : [row |-> row, at |-> run].row = row /\ [row |-> row, at |-> run].at = run
    OBVIOUS
  <2> HIDE DEF rows
  <2>5. \A e \in events' : (e \in events /\ \A row \in rows : e.row.id # row.id)
                                \/ (e.row \in rows /\ e.at = run /\ e = [row |-> e.row, at |-> run])
    BY <2>3, <2>4
  <2>6. \A e \in events : \E other \in events' : other.row.id = e.row.id
    BY <2>1, <2>2, <2>4
  <2>7. \A row \in rows : \E e \in events' : e.row = row
    BY <2>1, <2>4
  <2> QED
    BY <2>5, <2>6, <2>7
<1>6. World'
  <2> QED
    BY <1>0, <1>a DEF Keeping, World, world
<1>7. Reports'
  BY <1>0 DEF Keeping, Reports, IsWhole, world
<1>8. Rows'
  <2>1. \A e \in events' : e.at \in Nat /\ e.at <= run'
    BY <1>0, <1>3, <1>5 DEF Keeping, World
  <2>2. \A e, other \in events' : e.row.id = other.row.id => e = other
    BY <1>2, <1>5 DEF Keeping, Rows
  <2>3. \A e \in events' : IsDeposit(e.row)' \/ \E a \in activity' : IsOf(e.row, a)
    BY <1>0, <1>1, <1>2, <1>5 DEF Keeping, Rows, IsDeposit, Owners, world
  <2> QED
    BY <1>0, <2>1, <2>2, <2>3 DEF Rows
<1>9. Filled'
  <2> SUFFICES ASSUME gap' < Window, NEW a \in activity, a.day < bronze.day
               PROVE  \E e \in events' : e.row.id = IdOf(a)
    BY <1>0 DEF Filled, world
  <2>1. gap < Window /\ bronze.day - shown.day < Window
    BY <1>a, WindowIsPositive
  <2>2. a.day \in Nat
    BY DEF Keeping, World, Activity
  <2>3. CASE a.day < shown.day
    BY <1>5, <2>1, <2>3 DEF Keeping, Filled
  <2>4. CASE ~(a.day < shown.day)
    <3>1. bronze.day - a.day < Window
      BY <1>1, <2>1, <2>2, <2>4, WindowIsPositive
    <3>2. a \in bronze.activity
      BY <3>1 DEF Keeping, Reports, IsWhole
    <3> QED
      BY <1>2, <1>5, <3>2
  <2> QED
    BY <2>3, <2>4
<1>10. Deposited'
  <2>0. \A row : IsDeposit(row)' <=> IsDeposit(row)
    BY <1>0 DEF IsDeposit, Owners, world
  <2>1. ASSUME Paper, bronze.activity # {} \/ \E e \in events' : IsDeposit(e.row), NEW owner \in Owners
        PROVE  \E e \in events' : e.row.id = DepositId(owner)
    <3>1. CASE bronze.activity # {} \/ \E row \in rows : IsDeposit(row)
      <4>1. \E row \in rows : row.id = DepositId(owner)
        BY <1>2, <2>1, <3>1
      <4> QED
        BY <1>5, <4>1
    <3>2. CASE ~(bronze.activity # {} \/ \E row \in rows : IsDeposit(row))
      <4>1. \E e \in events : IsDeposit(e.row)
        BY <1>5, <2>1, <3>2
      <4>2. \E e \in events : e.row.id = DepositId(owner)
        BY <2>1, <4>1 DEF Keeping, Deposited
      <4> QED
        BY <1>5, <4>2
    <3> QED
      BY <3>1, <3>2
  <2>2. ASSUME NEW e \in events', IsDeposit(e.row), NEW a \in bronze.activity
        PROVE  e.row.month < a.day
    <3>1. Paper /\ e.row.id = DepositId(e.row.account) /\ e.row.account \in Owners
      BY <2>2 DEF IsDeposit
    <3>2. \E row \in rows : row.id = e.row.id
      BY <1>2, <2>2, <3>1
    <3>3. e.row \in rows
      BY <1>5, <3>2
    <3>4. \A b \in bronze.activity : ~IsOf(e.row, b)
      BY <2>2, Kinds
    <3> QED
      BY <1>2, <3>3, <3>4
  <2> QED
    BY <1>0, <2>0, <2>1, <2>2 DEF Deposited, world, Owners
<1> QED
  BY <1>6, <1>7, <1>8, <1>9, <1>10 DEF Keeping

LEMMA KeepingStep == Keeping /\ [ConnectorNext]_allVars => Keeping'
<1>1. ASSUME Keeping, UNCHANGED allVars PROVE Keeping'
  BY <1>1 DEF allVars, world, stored, Keeping, World, Reports, IsWhole, Rows, Filled, Deposited,
              IsDeposit, Owners
<1> QED
  BY <1>1, NewDayKeeps, HappensKeeps, FetchKeeps, TransformKeeps DEF ConnectorNext

\* The client goes on polling as by itself; between two fetches it begins anew.
LEMMA PollingOfConnector == Polling /\ [ConnectorNext]_allVars => Polling'
<1> SUFFICES ASSUME Polling, [ConnectorNext]_allVars PROVE Polling'
  OBVIOUS
<1>1. CASE UNCHANGED vars
  BY <1>1, PollingStep
<1>2. CASE ReportGenerated \/ FetchStep
  BY <1>2, PollingStep DEF ReportGenerated, FetchStep, Next
<1>3. CASE FetchOver
  <2>1. Init'
    BY <1>3 DEF FetchOver, Init
  <2>2. Init' => Polling'
    BY InitPolling, PTL
  <2> QED
    BY <2>1, <2>2
<1> QED
  BY <1>1, <1>2, <1>3 DEF ConnectorNext, NewDay, Happens, StartRun, RunEnds, Ingest, Transform, allVars

\* The variables of the client keep their types, and no report is polled more than Retries
\* times.
THEOREM FlexTypes == ConnectorSpec => []TypeOK
<1>1. ConnectorInit => Polling
  BY InitPolling DEF ConnectorInit
<1>2. Polling => TypeOK
  BY DEF Polling
<1> QED
  BY <1>1, PollingOfConnector, <1>2, PTL DEF ConnectorSpec

\* Bronze only ever gets a finished report.
THEOREM FinishedReports == ConnectorSpec => []OnlyFinishedStored
<1>1. ConnectorInit => Polling
  BY InitPolling DEF ConnectorInit
<1>2. Polling => OnlyFinishedStored
  BY DEF Polling
<1> QED
  BY <1>1, PollingOfConnector, <1>2, PTL DEF ConnectorSpec

\* Whatever the number of polls and the delays, giving up takes all of them, in every run.
THEOREM FullPatience == ConnectorSpec => []GivesUpAfterAllPolls
<1>1. ConnectorInit => Polling
  BY InitPolling DEF ConnectorInit
<1>2. Polling => GivesUpAfterAllPolls
  BY DEF Polling
<1> QED
  BY <1>1, PollingOfConnector, <1>2, PTL DEF ConnectorSpec

\* Whatever the window, no fill or fee falls between two windows that meet, and none is
\* there twice.
THEOREM NoFillIsLost == ConnectorSpec => []FillsKept
<1>1. Keeping => FillsKept
  <2> SUFFICES ASSUME Keeping, gap < Window, NEW a \in activity, a.day < shown.day
               PROVE  LET event == Records!Events(Flex([activity |-> {a}]))[1]
                      IN  Cardinality({e \in events : e.row.id = event.id /\ e.row.type = event.type}) = 1
    BY DEF FillsKept
  <2> DEFINE given == [activity |-> {a}]
             list == Records!Events(Flex(given))
             event == list[1]
             there == {e \in events : e.row.id = event.id /\ e.row.type = event.type}
  <2>1. /\ IsList(list) /\ (\E row \in ToSet(list) : IsOf(row, a))
        /\ \A row \in ToSet(list) : IsOf(row, a)
    <3>1. given.activity = {a} /\ IsFiniteSet({a}) /\ {a} \in SUBSET Activity
      BY FS_Singleton DEF Keeping, World
    <3> QED
      BY <3>1, EventsAre
  <2>2. IsOf(event, a)
    <3>1. PICK n \in Nat : list = [k \in 1 .. n |-> list[k]]
      BY <2>1 DEF IsList
    <3>2. DOMAIN list = 1 .. n
      BY <3>1
    <3>3. PICK k \in DOMAIN list : TRUE
      BY <2>1 DEF ToSet
    <3>4. 1 \in DOMAIN list
      BY <3>2, <3>3
    <3> QED
      BY <2>1, <3>4 DEF ToSet
  <2> HIDE DEF event
  <2>3. PICK e \in events : e.row.id = IdOf(a)
    BY DEF Keeping, Filled
  <2>4. e.row.type = TypeOf(a)
    <3>1. ~IsDeposit(e.row)
      BY <2>3, Kinds DEF IsDeposit
    <3>2. PICK b \in activity : IsOf(e.row, b)
      BY <3>1 DEF Keeping, Rows
    <3>3. IdOf(a) = IdOf(b) => TypeOf(a) = TypeOf(b)
      <4>1. Len(<<a.name>>) = 1 /\ Len(<<b.name>>) = 1
        OBVIOUS
      <4>2. /\ Len(<<"TransactionFee", a.account, a.day, "fee", -1>>) = 5
            /\ Len(<<"TransactionFee", b.account, b.day, "fee", -1>>) = 5
        OBVIOUS
      <4> QED
        BY <4>1, <4>2 DEF IdOf, TypeOf
    <3> QED
      BY <2>3, <3>2, <3>3 DEF IsOf
  <2>5. there = {e}
    BY <2>2, <2>3, <2>4 DEF Keeping, Rows, IsOf
  <2>6. Cardinality({e}) = 1
    BY FS_Singleton
  <2> QED
    BY <2>5, <2>6 DEF event
<1> QED
  BY InitKeeping, KeepingStep, <1>1, PTL DEF ConnectorSpec

\* However the window slides, a paper account keeps one deposit for each owner, before all
\* that the last report shows.
THEOREM OneDeposit == ConnectorSpec => []OneDepositFirst
<1>1. Keeping => OneDepositFirst
  <2> SUFFICES ASSUME Keeping PROVE OneDepositFirst
    OBVIOUS
  <2>1. \A e \in events : e.row.type = "DEPOSIT" <=> IsDeposit(e.row)
    BY DEF Keeping, Rows, IsOf, TypeOf, IsDeposit
  <2>2. \A e, other \in events :
            IsDeposit(e.row) /\ IsDeposit(other.row) /\ e.row.account = other.row.account => e = other
    BY DEF Keeping, Rows, IsDeposit
  <2>3. ASSUME NEW owner \in Owners, NEW e \in events, e.row.id = DepositId(owner)
        PROVE  IsDeposit(e.row) /\ e.row.account = owner
    <3>1. \A a \in activity : ~IsOf(e.row, a)
      BY <2>3, Kinds DEF IsOf
    <3>2. IsDeposit(e.row)
      BY <3>1 DEF Keeping, Rows
    <3> QED
      BY <2>3, <3>2, Kinds DEF IsDeposit
  <2>4. ASSUME Paper, shown.activity # {} \/ \E e \in events : IsDeposit(e.row), NEW owner \in Owners
        PROVE  \E e \in events : IsDeposit(e.row) /\ e.row.account = owner
    BY <2>3, <2>4 DEF Keeping, Deposited
  <2>5. shown.activity # {} => Owners # {}
    BY DEF Keeping, World, Reports, IsWhole, Activity, Owners
  <2> DEFINE deposits == {e \in events : e.row.type = "DEPOSIT"}
  <2>6. deposits = {e \in events : IsDeposit(e.row)}
    BY <2>1
  <2> HIDE DEF deposits
  <2>7. \A e \in deposits : Paper /\ e.row.account \in Owners
    BY <2>6 DEF IsDeposit
  <2>8. deposits # {} => \A owner \in Owners : \E e \in deposits : e.row.account = owner
    BY <2>4, <2>6, <2>7
  <2>9. Paper /\ shown.activity # {} => deposits # {}
    BY <2>4, <2>5, <2>6
  <2>10. \A e \in deposits : \A a \in shown.activity : e.row.month < a.day
    BY <2>6 DEF Keeping, Deposited
  <2> QED
    BY <2>2, <2>6, <2>7, <2>8, <2>9, <2>10 DEF OneDepositFirst, Owners, deposits
<1> QED
  BY InitKeeping, KeepingStep, <1>1, PTL DEF ConnectorSpec
=============================================================================
