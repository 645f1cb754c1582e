------------------------------ MODULE GoldProofs ------------------------------
(***************************************************************************)
(* The way to gold, for every report, list of holdings and events, target, *)
(* set of manual rates and number of quotes and consolidations.            *)
(*                                                                         *)
(* First the conversion: no amount is labelled with a currency its rate    *)
(* does not lead to, none passes at rate 1 that is foreign, and the rates  *)
(* of one table agree.  Then the gold tables: the event tables tell one    *)
(* story.  Then the transforms of the three brokers, and what follows for  *)
(* gold: an amount is in the currency of its row, and XTB's cash flows add *)
(* up to its cash.                                                         *)
(***************************************************************************)
EXTENDS GoldTables, RowLemmas

\* Every currency there can be.
HoldingCcy == UNION {ToSet(list) : list \in HoldingLists}
EventRow == UNION {ToSet(list) : list \in EventLists}
EventCcy == {row.ccy : row \in EventRow} \cup {row.base : row \in EventRow}
Ccy ==
    {"", "GBP", "GBX", DefaultTarget} \cup Targets \cup (UNION ManualRates)
        \cup HoldingCcy \cup EventCcy

Source == {"broker", "par", "none", "manual", "target", "provider"}
RateRecord == [from : Ccy, to : Ccy, source : Source, quote : Nat]

Phase == {"idle", "holdings", "consolidated", "events"}

\* The rates of the transform, once it has run; a consolidation only starts after it.
Rates ==
    /\ \/ rates = <<>>
       \/ rates = [n \in DOMAIN trades |-> TargetFxRate(trades[n])]
    /\ pc # "idle" => Transformed

Types ==
    /\ securities \in HoldingLists /\ trades \in EventLists
    /\ pc \in Phase
    /\ target \in Ccy /\ manual \in SUBSET Ccy
    /\ quote \in Nat
    /\ out \in Seq(RateRecord)
    /\ next = Len(out) + 1
    /\ next <= IF pc = "events" THEN Len(trades) + 1 ELSE Len(securities) + 1
    /\ Rates

\* What a converter knows leads to the target, and nobody asked for the target's own.
Knows ==
    pc \in {"holdings", "events"} =>
        /\ \A c \in DOMAIN converter :
               /\ converter[c] \in RateRecord
               /\ converter[c].from = c /\ converter[c].to = target
               /\ converter[c].source \in {"manual", "target", "provider"}
        /\ target \in DOMAIN converter
        /\ converter[target].source # "provider"

\* The rates a table is about to get are those the converter still has.
HoldingsOut ==
    pc = "holdings" =>
        \A n \in DOMAIN out :
            IF securities[n] \in {"", target} THEN out[n] = Par(securities[n])
            ELSE securities[n] \in DOMAIN converter /\ out[n] = converter[securities[n]]

\* The pounds with no pence up to them.
PoundsFirst ==
    {m \in DOMAIN out : securities[m] = "GBP" /\ \A k \in 1 .. m : securities[k] # "GBX"}

PoundKnown == pc = "holdings" /\ PoundsFirst # {} => "GBP" \in DOMAIN converter

\* Only a row of pence asks for theirs, and not once a pound was converted.
PenceAsked ==
    pc = "holdings" /\ "GBX" \in DOMAIN converter /\ converter["GBX"].source = "provider" =>
        /\ \E k \in 1 .. next : k <= Len(securities) /\ securities[k] = "GBX"
        /\ \A m \in PoundsFirst : out[m] = [converter["GBX"] EXCEPT !.from = "GBP"]

\* An event's rate is the broker's own or leads to the target, or the run will fail.
EventsOut ==
    pc = "events" =>
        \A n \in DOMAIN out :
            \/ unknown # {} /\ out[n].source # "par"
            \/ trades[n].ccy = target /\ out[n] = Par(target)
            \/ rates[n] # NoRate /\ out[n] = rates[n]
            \/ out[n].to = target /\ out[n].source # "par"

Converting ==
    /\ Types /\ Knows /\ HoldingsOut /\ PenceAsked /\ PoundKnown /\ EventsOut
    /\ RatesLeadToTarget /\ NothingAtPar /\ PenceFollowPounds

---------------------------------------------------------------------------
(* What the helpers return.                                                *)

LEMMA Literals == {"", "GBP", "GBX", DefaultTarget} \subseteq Ccy
  BY DEF Ccy

LEMMA Lists ==
    ASSUME Types
    PROVE  /\ securities \in Seq(Ccy)
           /\ Len(trades) \in Nat /\ DOMAIN trades = 1 .. Len(trades)
           /\ \A n \in DOMAIN trades : trades[n].ccy \in Ccy /\ trades[n].base \in Ccy
  <1>1. securities \in Seq(Ccy)
    <2>1. securities \in HoldingLists /\ securities \in Seq(ToSet(securities))
      BY ListsAreSequences DEF Types
    <2>2. ToSet(securities) \subseteq Ccy
      <3>1. ToSet(securities) \subseteq HoldingCcy
        <4>1. ToSet(securities) \in {ToSet(list) : list \in HoldingLists}
          BY <2>1
        <4>2. QED
          BY <4>1 DEF HoldingCcy
      <3>2. QED
        BY <3>1 DEF Ccy
    <2>3. \A S, T : \A list \in Seq(S) : S \subseteq T => list \in Seq(T)
      OBVIOUS
    <2>4. QED
      BY <2>1, <2>2, <2>3
  <1>2. trades \in EventLists /\ trades \in Seq(ToSet(trades))
    BY ListsAreSequences DEF Types
  <1>3. Len(trades) \in Nat /\ DOMAIN trades = 1 .. Len(trades)
    BY <1>2
  <1>4. \A n \in DOMAIN trades : trades[n] \in ToSet(trades)
    BY DEF ToSet
  <1>5. \A row \in ToSet(trades) : row.ccy \in Ccy /\ row.base \in Ccy
    <2>1. ToSet(trades) \subseteq EventRow
      <3>1. ToSet(trades) \in {ToSet(list) : list \in EventLists}
        BY <1>2
      <3>2. QED
        BY <3>1 DEF EventRow
    <2>2. \A row \in EventRow : row.ccy \in EventCcy /\ row.base \in EventCcy
      BY DEF EventCcy
    <2>3. QED
      BY <2>1, <2>2 DEF Ccy
  <1>6. QED
    BY <1>1, <1>3, <1>4, <1>5

\* The broker's own rate leads to the default target, from an account of that base, and
\* is 1 only when the report left it out.
LEMMA BrokerRate ==
    ASSUME NEW row, row.ccy \in Ccy, row.base \in Ccy
    PROVE  /\ TargetFxRate(row) \in RateRecord
           /\ TargetFxRate(row) # NoRate =>
                  row.base = DefaultTarget /\ TargetFxRate(row).to = DefaultTarget
           /\ TargetFxRate(row).source = "par" => ~row.fx /\ row.base = DefaultTarget
  <1>1. CASE row.base # DefaultTarget
    BY <1>1, Literals DEF TargetFxRate, NoRate, Rate, RateRecord, Source
  <1>2. CASE row.base = DefaultTarget /\ row.fx
    BY <1>2 DEF TargetFxRate, NoRate, Rate, RateRecord, Source
  <1>3. CASE row.base = DefaultTarget /\ ~row.fx
    BY <1>3 DEF TargetFxRate, NoRate, Rate, RateRecord, Source
  <1>4. QED
    BY <1>1, <1>2, <1>3

LEMMA RatesOf ==
    ASSUME Types, Transformed
    PROVE  /\ DOMAIN rates = DOMAIN trades
           /\ \A n \in DOMAIN trades :
                  /\ rates[n] \in RateRecord
                  /\ rates[n] # NoRate =>
                         trades[n].base = DefaultTarget /\ rates[n].to = DefaultTarget
                  /\ rates[n].source = "par" => ~trades[n].fx /\ trades[n].base = DefaultTarget
  <1>1. DOMAIN rates = DOMAIN trades
    BY DEF Transformed
  <1>2. \A n \in DOMAIN trades : rates[n] = TargetFxRate(trades[n])
    <2>1. CASE rates = <<>>
      BY <1>1, <2>1
    <2>2. CASE rates = [n \in DOMAIN trades |-> TargetFxRate(trades[n])]
      BY <2>2
    <2>3. QED
      BY <2>1, <2>2 DEF Types, Rates
  <1>3. DOMAIN rates = DOMAIN trades
    BY <1>1
  <1>4. QED
    BY <1>2, <1>3, Lists, BrokerRate

LEMMA NewConverterKnows ==
    ASSUME NEW to \in Ccy, NEW given, given \subseteq Ccy, NEW c \in given \cup {to}
    PROVE  NewConverter(to, given)[c] \in
               {[from |-> c, to |-> to, source |-> "manual", quote |-> 0],
                [from |-> c, to |-> to, source |-> "target", quote |-> 0]}
  BY DEF NewConverter, Rate

LEMMA HasKnown ==
    ASSUME Knows, pc \in {"holdings", "events"}, NEW c \in Ccy, NEW rate \in Has(c)
    PROVE  /\ rate \in RateRecord
           /\ rate.from = c /\ rate.to = target
           /\ rate.source \in {"manual", "target", "provider"}
           /\ c \in DOMAIN converter => rate = converter[c]
           /\ c \notin DOMAIN converter =>
                  /\ c = "GBX" /\ "GBP" \in DOMAIN converter
                  /\ rate = [converter["GBP"] EXCEPT !.from = "GBX"]
  <1>1. \A d \in DOMAIN converter :
            /\ converter[d] \in RateRecord /\ converter[d].from = d
            /\ converter[d].to = target
            /\ converter[d].source \in {"manual", "target", "provider"}
    BY DEF Knows
  <1>2. CASE c \in DOMAIN converter
    BY <1>1, <1>2 DEF Has
  <1>3. CASE c \notin DOMAIN converter
    <2>1. c = "GBX" /\ "GBP" \in DOMAIN converter
      BY <1>3 DEF Has, Major
    <2>2. rate = [converter["GBP"] EXCEPT !.from = "GBX"]
      BY <1>3, <2>1 DEF Has, Major
    <2>3. QED
      BY <1>1, <1>3, <2>1, <2>2 DEF RateRecord
  <1>4. QED
    BY <1>2, <1>3

LEMMA Kept ==
    ASSUME NEW c, NEW rate, Keep(c, rate)
    PROVE  /\ DOMAIN converter' = DOMAIN converter \cup {c}
           /\ converter'[c] = rate
           /\ \A d \in DOMAIN converter \ {c} : converter'[d] = converter[d]
  BY DEF Keep

---------------------------------------------------------------------------
(* The next row.                                                           *)

LEMMA Appended ==
    ASSUME Types, NEW rate \in RateRecord, NextRow(rate)
    PROVE  /\ out' \in Seq(RateRecord) /\ Len(out') = Len(out) + 1
           /\ DOMAIN out = 1 .. next - 1 /\ next \in Nat /\ next' = next + 1
           /\ DOMAIN out' = 1 .. next
           /\ out'[next] = rate
           /\ \A n \in DOMAIN out : out'[n] = out[n]
  BY DEF NextRow, Types

LEMMA Entered ==
    ASSUME NEW phase, NEW known, Enter(phase, known)
    PROVE  pc' = phase /\ converter' = known /\ next' = 1 /\ out' = <<>> /\ unknown' = {}
  BY DEF Enter

\* The steps that end a phase.
Ends == HoldingsFail \/ WriteHoldings \/ EventsFail \/ WriteTargets \/ Killed

LEMMA EndsSay ==
    ASSUME Ends
    PROVE  /\ pc # "idle" /\ pc' \in {"idle", "consolidated"}
           /\ next' = 1 /\ out' = <<>>
           /\ UNCHANGED <<securities, trades, rates, target, manual, quote>>
  BY Entered DEF Ends, HoldingsFail, WriteHoldings, EventsFail, WriteTargets, Killed, Leave,
     AtRow, brokerData

\* The steps at a row.
LEMMA RowSays ==
    ASSUME Types, Knows, ConvertHolding \/ ConvertEvent \/ EventUnknown
    PROVE  /\ UNCHANGED <<securities, trades, rates, pc, target, manual, quote, holdings, events>>
           /\ \E rate \in RateRecord : NextRow(rate)
           /\ ConvertHolding => pc = "holdings" /\ next <= Len(securities)
           /\ ~ConvertHolding => pc = "events" /\ next <= Len(trades)
  <1>1. CASE ConvertHolding
    <2>1. pc = "holdings" /\ next <= Len(securities)
      BY <1>1 DEF ConvertHolding, AtRow
    <2>2. securities[next] \in Ccy
      BY <2>1, Lists DEF Types
    <2>3. \E rate \in RateRecord : NextRow(rate)
      <3>1. CASE NextRow(Par(securities[next]))
        BY <2>2, <3>1 DEF Par, Rate, RateRecord, Source, Types
      <3>2. CASE \E rate \in Has(securities[next]) : NextRow(rate)
        BY <2>1, <2>2, <3>2, HasKnown
      <3>3. QED
        BY <1>1, <3>1, <3>2 DEF ConvertHolding
    <2>4. QED
      BY <1>1, <2>1, <2>3 DEF ConvertHolding, ConvertEvent, EventUnknown, AtRow, tables, brokerData
  <1>2. CASE ConvertEvent \/ EventUnknown
    <2>1. pc = "events" /\ next <= Len(trades)
      BY <1>2 DEF ConvertEvent, EventUnknown, AtRow
    <2>2. next \in DOMAIN trades /\ trades[next].ccy \in Ccy /\ Transformed
      BY <2>1, Lists DEF Types, Rates
    <2>3. \E rate \in RateRecord : NextRow(rate)
      <3>1. CASE NextRow(Par(trades[next].ccy))
        BY <2>2, <3>1 DEF Par, Rate, RateRecord, Source, Types
      <3>2. CASE \E rate \in Has(trades[next].ccy) : NextRow(rate)
        BY <2>1, <2>2, <3>2, HasKnown
      <3>3. CASE NextRow(rates[next])
        BY <2>2, <3>3, RatesOf
      <3>4. CASE NextRow(NoRate)
        BY <3>4, Literals DEF NoRate, Rate, RateRecord, Source
      <3>5. QED
        BY <1>2, <3>1, <3>2, <3>3, <3>4 DEF ConvertEvent, EventUnknown
    <2>4. QED
      BY <1>2, <2>1, <2>3 DEF ConvertHolding, ConvertEvent, EventUnknown, AtRow, tables, brokerData
  <1>3. QED
    BY <1>1, <1>2

\* What Converting says of the process is not about these.
Aside == Published \/ \E c \in Currency : Fails(c)

LEMMA AsideSays ==
    ASSUME Types, Aside
    PROVE  /\ quote' \in Nat
           /\ UNCHANGED <<securities, trades, rates, pc, target, manual, converter, next, out,
                          unknown, holdings, events>>
  BY DEF Types, Aside, Published, Fails, brokerData, process, tables

LEMMA TypesStay ==
    ASSUME Types, Knows, [Next]_vars
    PROVE  Types'
  <1>0. Len(out) \in Nat /\ Len(securities) \in Nat /\ Len(trades) \in Nat
    BY Lists DEF Types
  <1> DEFINE empty == <<>>
  <1>1. empty \in Seq(RateRecord) /\ Len(empty) = 0
    OBVIOUS
  <1> HIDE DEF empty
  <1>2. CASE TransformEvents
    BY <1>2 DEF TransformEvents, Types, Rates, Transformed, brokerData, process
  <1>3. CASE Aside
    BY <1>3, AsideSays DEF Types, Rates, Transformed
  <1>4. CASE Ends
    BY <1>0, <1>1, <1>4, EndsSay DEF Types, Rates, Transformed, Phase, empty
  <1>5. CASE ConvertHolding \/ ConvertEvent \/ EventUnknown
    <2>1. PICK rate \in RateRecord : NextRow(rate)
      BY <1>5, RowSays
    <2>2. out' \in Seq(RateRecord) /\ next' = Len(out') + 1 /\ next' = next + 1 /\ next \in Nat
      BY <2>1, Appended DEF Types
    <2>3. QED
      BY <1>0, <1>5, <2>2, RowSays DEF Types, Rates, Transformed
  <1>6. CASE \E c \in Currency : Answered(c)
    BY <1>6 DEF Answered, Types, Rates, Transformed, brokerData
  <1>7. CASE StartRun
    <2>1. target' \in Ccy /\ manual' \in SUBSET Ccy
      BY <1>7 DEF StartRun, Ccy
    <2>2. pc' = "holdings" /\ out' = empty /\ next' = 1
      BY <1>7, Entered DEF StartRun, empty
    <2>3. UNCHANGED <<securities, trades, rates, quote>> /\ Transformed
      BY <1>7 DEF StartRun, brokerData
    <2>4. QED
      BY <1>0, <1>1, <2>1, <2>2, <2>3 DEF Types, Rates, Transformed, Phase
  <1>8. CASE ConsolidateEvents
    <2>1. pc' = "events" /\ out' = empty /\ next' = 1 /\ pc = "consolidated"
      BY <1>8, Entered DEF ConsolidateEvents, empty
    <2>2. UNCHANGED <<securities, trades, rates, target, manual, quote>>
      BY <1>8 DEF ConsolidateEvents, brokerData
    <2>3. QED
      BY <1>0, <1>1, <2>1, <2>2 DEF Types, Rates, Transformed, Phase
  <1>9. CASE UNCHANGED vars
    BY <1>9 DEF vars, Types, Rates, Transformed, brokerData, process
  <1>10. QED
    BY <1>2, <1>3, <1>4, <1>5, <1>6, <1>7, <1>8, <1>9 DEF Next, Request, Convert, Ends, Aside

---------------------------------------------------------------------------
(* The converter.                                                          *)

LEMMA AnswerSays ==
    ASSUME Types, Knows, NEW c \in Currency, Answered(c)
    PROVE  /\ c \in Ccy /\ c # target /\ pc \in {"holdings", "events"}
           /\ pc = "holdings" => next <= Len(securities) /\ securities[next] = c
           /\ c \notin DOMAIN converter
           /\ c = "GBX" => "GBP" \notin DOMAIN converter
           /\ Rate(c, target, "provider", quote) \in RateRecord
           /\ Keep(c, Rate(c, target, "provider", quote))
           /\ UNCHANGED <<securities, trades, rates, pc, target, manual, next, out, unknown,
                          holdings, events>>
  <1>1. c \in Ccy
    <2>1. CASE \E n \in DOMAIN securities : c = securities[n]
      BY <2>1, Lists
    <2>2. CASE \E n \in DOMAIN trades : c = trades[n].ccy
      BY <2>2, Lists
    <2>3. QED
      BY <2>1, <2>2 DEF Currency
  <1>2. Asks(c)
    BY DEF Answered
  <1>3. c # target /\ pc \in {"holdings", "events"} /\ Has(c) = {}
    BY <1>2 DEF Asks, AtRow
  <1>4. pc = "holdings" => next <= Len(securities) /\ securities[next] = c
    BY <1>2 DEF Asks, AtRow
  <1>5. c \notin DOMAIN converter /\ (c = "GBX" => "GBP" \notin DOMAIN converter)
    BY <1>3 DEF Has, Major
  <1>6. Rate(c, target, "provider", quote) \in RateRecord
    BY <1>1 DEF Rate, RateRecord, Source, Types
  <1>7. QED
    BY <1>1, <1>3, <1>4, <1>5, <1>6 DEF Answered, tables, brokerData

LEMMA KnowsStays ==
    ASSUME Types, Knows, [Next]_vars
    PROVE  Knows'
  <1>1. CASE TransformEvents
    BY <1>1 DEF TransformEvents, Knows, process
  <1>2. CASE Aside
    BY <1>2, AsideSays DEF Knows
  <1>3. CASE Ends
    BY <1>3, EndsSay DEF Knows
  <1>4. ASSUME NEW c \in Ccy, c # target, NEW rate \in RateRecord, Keep(c, rate),
               rate.from = c, rate.to = target, rate.source \in {"manual", "target", "provider"},
               pc \in {"holdings", "events"}, target' = target
        PROVE  Knows'
    <2>1. /\ DOMAIN converter' = DOMAIN converter \cup {c} /\ converter'[c] = rate
          /\ \A d \in DOMAIN converter \ {c} : converter'[d] = converter[d]
      BY <1>4, Kept
    <2>2. QED
      BY <1>4, <2>1 DEF Knows
  <1>5. CASE ConvertHolding
    <2>1. pc = "holdings" /\ target' = target /\ pc' = pc /\ securities[next] \in Ccy
      BY <1>5, RowSays, Lists DEF Types
    <2>2. CASE converter' = converter
      BY <2>1, <2>2 DEF Knows
    <2>3. CASE /\ securities[next] \notin {"", target}
               /\ \E rate \in Has(securities[next]) : Keep(securities[next], rate)
      <3>1. PICK rate \in Has(securities[next]) : Keep(securities[next], rate)
        BY <2>3
      <3>2. /\ rate \in RateRecord /\ rate.from = securities[next] /\ rate.to = target
            /\ rate.source \in {"manual", "target", "provider"}
        BY <2>1, HasKnown
      <3>3. QED
        BY <1>4, <2>1, <2>3, <3>1, <3>2
    <2>4. QED
      BY <1>5, <2>2, <2>3 DEF ConvertHolding
  <1>6. CASE ConvertEvent
    <2>1. pc = "events" /\ target' = target /\ pc' = pc /\ trades[next].ccy \in Ccy
      <3>1. pc = "events" /\ target' = target /\ pc' = pc /\ next <= Len(trades)
        BY <1>6 DEF ConvertEvent, AtRow
      <3>2. next \in DOMAIN trades
        BY <3>1, Lists DEF Types
      <3>3. QED
        BY <3>1, <3>2, Lists
    <2>2. CASE converter' = converter
      BY <2>1, <2>2 DEF Knows
    <2>3. CASE /\ trades[next].ccy # target
               /\ \E rate \in Has(trades[next].ccy) : Keep(trades[next].ccy, rate)
      <3>1. PICK rate \in Has(trades[next].ccy) : Keep(trades[next].ccy, rate)
        BY <2>3
      <3>2. /\ rate \in RateRecord /\ rate.from = trades[next].ccy /\ rate.to = target
            /\ rate.source \in {"manual", "target", "provider"}
        BY <2>1, HasKnown
      <3>3. QED
        BY <1>4, <2>1, <2>3, <3>1, <3>2
    <2>4. QED
      BY <1>6, <2>2, <2>3 DEF ConvertEvent
  <1>7. CASE EventUnknown
    BY <1>7 DEF EventUnknown, Knows
  <1>8. ASSUME NEW c \in Currency, Answered(c)
        PROVE  Knows'
    BY <1>4, <1>8, AnswerSays DEF Rate
  <1>9. ASSUME NEW to \in Ccy, NEW given \in SUBSET Ccy, target' = to,
               converter' = NewConverter(to, given)
        PROVE  Knows'
    <2>1. \A c \in given \cup {to} :
              converter'[c] \in {[from |-> c, to |-> to, source |-> "manual", quote |-> 0],
                                 [from |-> c, to |-> to, source |-> "target", quote |-> 0]}
      BY <1>9, NewConverterKnows
    <2>2. DOMAIN converter' = given \cup {to}
      BY <1>9 DEF NewConverter
    <2>3. \A c \in given \cup {to} :
              /\ converter'[c] \in RateRecord
              /\ converter'[c].from = c /\ converter'[c].to = to
              /\ converter'[c].source \in {"manual", "target"}
      BY <2>1 DEF RateRecord, Source
    <2>4. QED
      BY <1>9, <2>2, <2>3 DEF Knows
  <1>10. CASE StartRun
    <2>1. target' \in Ccy /\ manual' \in SUBSET Ccy
      BY <1>10 DEF StartRun, Ccy
    <2>2. converter' = NewConverter(target', manual')
      BY <1>10, Entered DEF StartRun
    <2>3. QED
      BY <1>9, <2>1, <2>2
  <1>11. CASE ConsolidateEvents
    <2>1. target' = target /\ target \in Ccy /\ manual \in SUBSET Ccy
      BY <1>11 DEF ConsolidateEvents, Types
    <2>2. converter' = NewConverter(target, manual)
      BY <1>11, Entered DEF ConsolidateEvents
    <2>3. QED
      BY <1>9, <2>1, <2>2
  <1>12. CASE UNCHANGED vars
    BY <1>12 DEF vars, Knows, process
  <1>13. QED
    BY <1>1, <1>2, <1>3, <1>5, <1>6, <1>7, <1>8, <1>10, <1>11, <1>12
    DEF Next, Request, Convert, Ends, Aside

---------------------------------------------------------------------------
(* The rates a table is about to get.                                      *)

\* Everything but a run's start, a row and an answer leaves the holdings' phase or is
\* none of its business.
LEMMA HoldingsSteps ==
    ASSUME Types, [Next]_vars, pc' = "holdings"
    PROVE  \/ StartRun \/ ConvertHolding \/ \E c \in Currency : Answered(c)
           \/ /\ pc = "holdings"
              /\ UNCHANGED <<securities, target, converter, next, out>>
  <1>1. CASE TransformEvents
    BY <1>1 DEF TransformEvents, brokerData, process
  <1>2. CASE Aside
    BY <1>2, AsideSays
  <1>3. CASE Ends
    BY <1>3, EndsSay
  <1>4. CASE ConvertEvent \/ EventUnknown
    BY <1>4 DEF ConvertEvent, EventUnknown, AtRow
  <1>5. CASE ConsolidateEvents
    <2>1. pc' = "events"
      BY <1>5, Entered DEF ConsolidateEvents
    <2>2. QED
      BY <2>1
  <1>6. CASE UNCHANGED vars
    BY <1>6 DEF vars, brokerData, process
  <1>7. QED
    BY <1>1, <1>2, <1>3, <1>4, <1>5, <1>6 DEF Next, Request, Convert, Ends, Aside

LEMMA HoldingsOutStays ==
    ASSUME Types, Knows, HoldingsOut, [Next]_vars
    PROVE  HoldingsOut'
  <1>1. CASE pc' # "holdings"
    BY <1>1 DEF HoldingsOut
  <1>2. CASE StartRun
    <2>1. DOMAIN out' = {}
      BY <1>2, Entered DEF StartRun
    <2>2. QED
      BY <2>1 DEF HoldingsOut
  <1>3. CASE ConvertHolding
    <2>1. /\ pc = "holdings" /\ securities' = securities /\ target' = target
          /\ next <= Len(securities)
      BY <1>3, RowSays
    <2>2. PICK rate \in RateRecord : NextRow(rate)
      BY <1>3, RowSays
    <2>3. /\ DOMAIN out = 1 .. next - 1 /\ next \in Nat /\ DOMAIN out' = 1 .. next
          /\ \A n \in DOMAIN out : out'[n] = out[n]
      BY <2>2, Appended
    <2> DEFINE c == securities[next]
    <2>4. c \in Ccy
      BY <2>1, <2>3, Lists DEF Types
    <2>5. /\ \A d \in DOMAIN converter : d \in DOMAIN converter' /\ converter'[d] = converter[d]
          /\ IF c \in {"", target} THEN out'[next] = Par(c)
             ELSE c \in DOMAIN converter' /\ out'[next] = converter'[c]
      <3>1. CASE c \in {"", target} /\ NextRow(Par(c)) /\ converter' = converter
        <4>1. Par(c) \in RateRecord
          BY <2>4 DEF Par, Rate, RateRecord, Source, Types
        <4>2. QED
          BY <3>1, <4>1, Appended
      <3>2. CASE c \notin {"", target} /\ \E other \in Has(c) : NextRow(other) /\ Keep(c, other)
        <4>1. PICK other \in Has(c) : NextRow(other) /\ Keep(c, other)
          BY <3>2
        <4>2. other \in RateRecord /\ (c \in DOMAIN converter => other = converter[c])
          BY <2>1, <2>4, HasKnown
        <4>3. QED
          <5> HIDE DEF c
          <5>k. /\ DOMAIN converter' = DOMAIN converter \cup {c} /\ converter'[c] = other
                /\ \A d \in DOMAIN converter \ {c} : converter'[d] = converter[d]
            BY <4>1, Kept
          <5>1. \A d \in DOMAIN converter : d \in DOMAIN converter' /\ converter'[d] = converter[d]
            BY <4>2, <5>k
          <5>2. c \in DOMAIN converter' /\ converter'[c] = other
            BY <5>k
          <5>3. out'[next] = other
            BY <4>1, <4>2, Appended
          <5>4. QED
            BY <3>2, <5>1, <5>2, <5>3
      <3>3. QED
        BY <1>3, <3>1, <3>2 DEF ConvertHolding
    <2> HIDE DEF c
    <2>6. ASSUME NEW n \in DOMAIN out'
          PROVE  IF securities[n] \in {"", target} THEN out'[n] = Par(securities[n])
                 ELSE securities[n] \in DOMAIN converter' /\ out'[n] = converter'[securities[n]]
      <3>1. CASE n = next
        BY <2>5, <3>1 DEF c
      <3>2. CASE n # next
        <4>1. n \in DOMAIN out /\ out'[n] = out[n]
          BY <2>3, <3>2
        <4>2. QED
          BY <2>1, <2>5, <4>1 DEF HoldingsOut
      <3>3. QED
        BY <3>1, <3>2
    <2>7. QED
      BY <2>1, <2>6 DEF HoldingsOut, Par, Rate
  <1>4. ASSUME NEW c \in Currency, Answered(c)
        PROVE  HoldingsOut'
    <2>1. /\ c \notin DOMAIN converter
          /\ UNCHANGED <<securities, pc, target, out>>
          /\ \A d \in DOMAIN converter : d \in DOMAIN converter' /\ converter'[d] = converter[d]
      BY <1>4, AnswerSays, Kept
    <2>2. QED
      BY <2>1 DEF HoldingsOut, Par, Rate
  <1>5. CASE pc = "holdings" /\ UNCHANGED <<securities, target, converter, next, out>>
    BY <1>5 DEF HoldingsOut, Par, Rate
  <1>6. QED
    BY <1>1, <1>2, <1>3, <1>4, <1>5, HoldingsSteps

\* What a row of the holdings does to the converter.
LEMMA HoldingRow ==
    ASSUME Types, Knows, ConvertHolding
    PROVE  /\ pc = "holdings" /\ next \in 1 .. Len(securities)
           /\ \A d \in DOMAIN converter : d \in DOMAIN converter' /\ converter'[d] = converter[d]
           /\ securities[next] \in DOMAIN converter' \cup {"", target}
           /\ \A d \in DOMAIN converter' \ DOMAIN converter :
                  /\ d = "GBX" /\ securities[next] = "GBX" /\ "GBP" \in DOMAIN converter
                  /\ converter'[d] = [converter["GBP"] EXCEPT !.from = "GBX"]
  <1> DEFINE c == securities[next]
  <1>1. pc = "holdings" /\ next \in 1 .. Len(securities)
    BY RowSays DEF Types
  <1>2. c \in Ccy
    BY <1>1, Lists
  <1>3. CASE c \in {"", target} /\ converter' = converter
    BY <1>1, <1>3
  <1>4. CASE c \notin {"", target} /\ \E rate \in Has(c) : Keep(c, rate)
    <2>1. PICK rate \in Has(c) : Keep(c, rate)
      BY <1>4
    <2>2. /\ c \in DOMAIN converter => rate = converter[c]
          /\ c \notin DOMAIN converter =>
                 /\ c = "GBX" /\ "GBP" \in DOMAIN converter
                 /\ rate = [converter["GBP"] EXCEPT !.from = "GBX"]
      BY <1>1, <1>2, HasKnown
    <2>3. /\ DOMAIN converter' = DOMAIN converter \cup {c} /\ converter'[c] = rate
          /\ \A d \in DOMAIN converter \ {c} : converter'[d] = converter[d]
      BY <2>1, Kept
    <2> HIDE DEF c
    <2>4. QED
      BY <1>1, <2>2, <2>3 DEF c
  <1>5. QED
    BY <1>3, <1>4 DEF ConvertHolding

LEMMA PenceStay ==
    ASSUME Types, Knows, HoldingsOut, PenceAsked, PoundKnown, [Next]_vars
    PROVE  PenceAsked' /\ PoundKnown'
  <1>1. CASE pc' # "holdings"
    BY <1>1 DEF PenceAsked, PoundKnown
  <1>2. CASE StartRun
    <2>1. DOMAIN out' = {} /\ converter' = NewConverter(target', manual')
      BY <1>2, Entered DEF StartRun
    <2>2. \A c \in DOMAIN converter' : converter'[c].source # "provider"
      <3>1. target' \in Ccy /\ manual' \subseteq Ccy
        BY <1>2 DEF StartRun, Ccy
      <3>2. DOMAIN converter' = manual' \cup {target'}
        BY <2>1 DEF NewConverter
      <3>3. QED
        BY <2>1, <3>1, <3>2, NewConverterKnows
    <2>3. PoundsFirst' = {}
      BY <2>1 DEF PoundsFirst
    <2>4. QED
      BY <2>2, <2>3 DEF PenceAsked, PoundKnown
  <1>3. CASE ConvertHolding
    <2>1. PICK rate \in RateRecord : NextRow(rate)
      BY <1>3, RowSays
    <2>2. /\ DOMAIN out = 1 .. next - 1 /\ DOMAIN out' = 1 .. next
          /\ next \in Nat /\ next' = next + 1
          /\ \A n \in DOMAIN out : out'[n] = out[n]
      BY <2>1, Appended
    <2>3. UNCHANGED <<securities, pc, target>>
      BY <1>3, RowSays
    <2>4. \A m \in PoundsFirst' :
              \/ m \in PoundsFirst /\ out'[m] = out[m]
              \/ securities[next] = "GBP" /\ \A k \in 1 .. next : securities[k] # "GBX"
      BY <2>2, <2>3 DEF PoundsFirst
    <2>5. PoundKnown'
      <3> SUFFICES ASSUME NEW m \in PoundsFirst'
                   PROVE  "GBP" \in DOMAIN converter'
        BY DEF PoundKnown
      <3>1. CASE m \in PoundsFirst
        BY <1>3, <3>1, HoldingRow DEF PoundKnown
      <3>2. CASE securities[next] = "GBP"
        <4>1. target \in DOMAIN converter'
          BY <1>3, HoldingRow DEF Knows
        <4>2. QED
          BY <1>3, <3>2, <4>1, HoldingRow
      <3>3. QED
        BY <2>4, <3>1, <3>2
    <2>6. PenceAsked'
      <3> SUFFICES ASSUME "GBX" \in DOMAIN converter', converter'["GBX"].source = "provider"
                   PROVE  /\ \E k \in 1 .. next' : k <= Len(securities) /\ securities[k] = "GBX"
                          /\ \A m \in PoundsFirst' :
                                 out'[m] = [converter'["GBX"] EXCEPT !.from = "GBP"]
        BY <2>3 DEF PenceAsked
      <3>1. CASE "GBX" \in DOMAIN converter
        <4>1. converter'["GBX"] = converter["GBX"] /\ pc = "holdings"
          BY <1>3, <3>1, HoldingRow
        <4>2. PICK k \in 1 .. next : k <= Len(securities) /\ securities[k] = "GBX"
          BY <3>1, <4>1 DEF PenceAsked
        <4>3. \A m \in PoundsFirst' : m \in PoundsFirst /\ out'[m] = out[m]
          BY <2>4, <4>2
        <4>4. k \in 1 .. next'
          BY <2>2
        <4>5. QED
          BY <3>1, <4>1, <4>2, <4>3, <4>4 DEF PenceAsked
      <3>2. CASE "GBX" \notin DOMAIN converter
        <4>1. /\ pc = "holdings" /\ next \in 1 .. Len(securities)
              /\ securities[next] = "GBX" /\ "GBP" \in DOMAIN converter
              /\ converter'["GBX"] = [converter["GBP"] EXCEPT !.from = "GBX"]
          BY <1>3, <3>2, HoldingRow
        <4>2. converter["GBP"] \in RateRecord /\ converter["GBP"].from = "GBP"
          BY <4>1 DEF Knows
        <4>3. converter["GBP"].source = "provider"
          BY <4>1, <4>2 DEF RateRecord
        <4>4. target # "GBP"
          BY <4>1, <4>3 DEF Knows
        <4>5. converter["GBP"] = [converter'["GBX"] EXCEPT !.from = "GBP"]
          BY <4>1, <4>2 DEF RateRecord
        <4>6. ASSUME NEW m \in PoundsFirst'
              PROVE  out'[m] = converter["GBP"]
          <5>1. m \in PoundsFirst /\ out'[m] = out[m]
            BY <2>2, <2>4, <4>1, <4>6
          <5>2. out[m] = converter["GBP"]
            BY <4>1, <4>4, <5>1 DEF HoldingsOut, PoundsFirst
          <5>3. QED
            BY <5>1, <5>2
        <4>7. next \in 1 .. next'
          BY <2>2, <4>1
        <4>8. QED
          BY <4>1, <4>5, <4>6, <4>7
      <3>3. QED
        BY <3>1, <3>2
    <2>7. QED
      BY <2>5, <2>6
  <1>4. ASSUME NEW c \in Currency, Answered(c)
        PROVE  PenceAsked' /\ PoundKnown'
    <2>1. /\ UNCHANGED <<securities, pc, next, out>>
          /\ pc = "holdings" => next <= Len(securities) /\ securities[next] = c
          /\ c = "GBX" => "GBP" \notin DOMAIN converter
          /\ DOMAIN converter' = DOMAIN converter \cup {c}
          /\ \A d \in DOMAIN converter \ {c} : converter'[d] = converter[d]
      BY <1>4, AnswerSays, Kept
    <2>2. PoundsFirst' = PoundsFirst
      BY <2>1 DEF PoundsFirst
    <2>3. PoundKnown'
      BY <2>1, <2>2 DEF PoundKnown
    <2>4. CASE c = "GBX" /\ pc = "holdings"
      <3>1. PoundsFirst' = {}
        BY <2>1, <2>2, <2>4 DEF PoundKnown
      <3>2. next \in 1 .. next' /\ next <= Len(securities') /\ securities'[next] = "GBX"
        BY <2>1, <2>4 DEF Types
      <3>3. QED
        BY <2>3, <3>1, <3>2 DEF PenceAsked
    <2>5. CASE c # "GBX" \/ pc # "holdings"
      BY <2>1, <2>2, <2>3, <2>5 DEF PenceAsked
    <2>6. QED
      BY <2>4, <2>5
  <1>5. CASE pc = "holdings" /\ UNCHANGED <<securities, target, converter, next, out>>
    BY <1>5 DEF PenceAsked, PoundKnown, PoundsFirst
  <1>6. QED
    BY <1>1, <1>2, <1>3, <1>4, <1>5, HoldingsSteps

LEMMA EventsSteps ==
    ASSUME Types, Knows, [Next]_vars, pc' = "events"
    PROVE  \/ ConsolidateEvents \/ ConvertEvent \/ EventUnknown
           \/ pc = "events" /\ UNCHANGED <<trades, rates, target, unknown, out>>
  <1>1. CASE TransformEvents
    BY <1>1 DEF TransformEvents, process
  <1>2. CASE Aside
    BY <1>2, AsideSays
  <1>3. CASE Ends
    BY <1>3, EndsSay
  <1>4. CASE ConvertHolding
    BY <1>4, RowSays
  <1>5. CASE StartRun
    <2>1. pc' = "holdings"
      BY <1>5, Entered DEF StartRun
    <2>2. QED
      BY <2>1
  <1>6. CASE \E c \in Currency : Answered(c)
    BY <1>6, AnswerSays
  <1>7. CASE UNCHANGED vars
    BY <1>7 DEF vars, brokerData, process
  <1>8. QED
    BY <1>1, <1>2, <1>3, <1>4, <1>5, <1>6, <1>7 DEF Next, Request, Convert, Ends, Aside

LEMMA EventsOutStays ==
    ASSUME Types, Knows, EventsOut, [Next]_vars
    PROVE  EventsOut'
  <1>1. CASE pc' # "events"
    BY <1>1 DEF EventsOut
  <1>2. CASE ConsolidateEvents
    <2>1. DOMAIN out' = {}
      <3>1. out' = <<>>
        BY <1>2 DEF ConsolidateEvents, Enter
      <3>2. QED
        BY <3>1
    <2>2. QED
      BY <2>1 DEF EventsOut
  <1>3. CASE ConvertEvent \/ EventUnknown
    <2>1. PICK rate \in RateRecord : NextRow(rate)
      BY <1>3, RowSays
    <2>2. /\ DOMAIN out = 1 .. next - 1 /\ DOMAIN out' = 1 .. next /\ next \in Nat
          /\ out'[next] = rate
          /\ \A n \in DOMAIN out : out'[n] = out[n]
      BY <2>1, Appended
    <2>3. UNCHANGED <<trades, rates, pc, target>> /\ pc = "events" /\ unknown \subseteq unknown'
      BY <1>3 DEF ConvertEvent, EventUnknown, AtRow, brokerData
    <2>4. next \in DOMAIN trades /\ trades[next].ccy \in Ccy
      <3>1. next <= Len(trades)
        BY <1>3 DEF ConvertEvent, EventUnknown, AtRow
      <3>2. next \in DOMAIN trades
        BY <2>2, <3>1, Lists DEF Types
      <3>3. QED
        BY <3>2, Lists
    <2>5. \/ unknown' # {} /\ out'[next].source # "par"
          \/ trades[next].ccy = target /\ out'[next] = Par(target)
          \/ rates[next] # NoRate /\ out'[next] = rates[next]
          \/ out'[next].to = target /\ out'[next].source # "par"
      <3>1. \A other \in RateRecord : NextRow(other) => out'[next] = other
        BY Appended
      <3>2. CASE EventUnknown
        <4>1. NoRate \in RateRecord /\ NoRate.source = "none"
          BY Literals DEF NoRate, Rate, RateRecord, Source
        <4>2. NextRow(NoRate) /\ unknown' # {}
          BY <3>2 DEF EventUnknown
        <4>3. QED
          BY <3>1, <4>1, <4>2
      <3>3. CASE trades[next].ccy = target /\ NextRow(Par(trades[next].ccy))
        <4>1. Par(target) \in RateRecord
          BY DEF Par, Rate, RateRecord, Source, Types
        <4>2. QED
          BY <3>1, <3>3, <4>1
      <3>4. CASE rates[next] # NoRate /\ NextRow(rates[next])
        <4>1. rates[next] \in RateRecord
          BY <2>3, <2>4, RatesOf DEF Types, Rates
        <4>2. QED
          BY <3>1, <3>4, <4>1
      <3>5. CASE \E other \in Has(trades[next].ccy) : NextRow(other)
        <4>1. PICK other \in Has(trades[next].ccy) : NextRow(other)
          BY <3>5
        <4>2. other \in RateRecord /\ other.to = target /\ other.source # "par"
          BY <2>3, <2>4, HasKnown
        <4>3. QED
          BY <3>1, <4>1, <4>2
      <3>6. QED
        BY <1>3, <3>2, <3>3, <3>4, <3>5 DEF ConvertEvent
    <2>6. ASSUME NEW n \in DOMAIN out'
          PROVE  \/ unknown' # {} /\ out'[n].source # "par"
                 \/ trades[n].ccy = target /\ out'[n] = Par(target)
                 \/ rates[n] # NoRate /\ out'[n] = rates[n]
                 \/ out'[n].to = target /\ out'[n].source # "par"
      <3>1. CASE n = next
        BY <2>5, <3>1
      <3>2. CASE n # next
        <4>1. n \in DOMAIN out /\ out'[n] = out[n]
          BY <2>2, <3>2
        <4>2. \/ unknown # {} /\ out[n].source # "par"
              \/ trades[n].ccy = target /\ out[n] = Par(target)
              \/ rates[n] # NoRate /\ out[n] = rates[n]
              \/ out[n].to = target /\ out[n].source # "par"
          BY <2>3, <4>1 DEF EventsOut
        <4>3. QED
          BY <2>3, <4>1, <4>2
      <3>3. QED
        BY <3>1, <3>2
    <2>7. QED
      BY <2>3, <2>6 DEF EventsOut, Par, Rate, NoRate
  <1>4. CASE pc = "events" /\ UNCHANGED <<trades, rates, target, unknown, out>>
    BY <1>4 DEF EventsOut, Par, Rate, NoRate
  <1>5. QED
    BY <1>1, <1>2, <1>3, <1>4, EventsSteps

---------------------------------------------------------------------------
(* The tables.                                                             *)

LEMMA TableSteps ==
    ASSUME Types, Knows, [Next]_vars
    PROVE  /\ UNCHANGED <<securities, trades>>
           /\ \/ WriteHoldings \/ WriteTargets \/ ConsolidateEvents
              \/ UNCHANGED <<holdings, events>>
  <1>1. CASE Aside
    BY <1>1, AsideSays
  <1>2. CASE ConvertHolding \/ ConvertEvent \/ EventUnknown
    BY <1>2, RowSays
  <1>3. CASE \E c \in Currency : Answered(c)
    BY <1>3, AnswerSays
  <1>4. CASE TransformEvents \/ StartRun \/ HoldingsFail \/ EventsFail \/ Killed
    BY <1>4 DEF TransformEvents, StartRun, HoldingsFail, EventsFail, Killed, brokerData, tables
  <1>5. CASE WriteHoldings \/ WriteTargets \/ ConsolidateEvents
    BY <1>5 DEF WriteHoldings, WriteTargets, ConsolidateEvents, brokerData
  <1>6. CASE UNCHANGED vars
    BY <1>6 DEF vars, brokerData, tables
  <1>7. QED
    BY <1>1, <1>2, <1>3, <1>4, <1>5, <1>6 DEF Next, Request, Convert, Aside

\* What consolidated_holdings is written with.
LEMMA HoldingsToWrite ==
    ASSUME Types, Knows, HoldingsOut, pc = "holdings", NEW n \in DOMAIN out
    PROVE  /\ n \in DOMAIN securities
           /\ out[n].from = securities[n] /\ out[n].to = target
           /\ out[n].source = "par" => securities[n] \in {"", target}
           /\ out[n].source # "par" =>
                  securities[n] \in DOMAIN converter /\ out[n] = converter[securities[n]]
  <1>1. n \in DOMAIN securities
    BY Lists DEF Types
  <1>2. CASE securities[n] \in {"", target}
    <2>1. out[n] = [from |-> securities[n], to |-> target, source |-> "par", quote |-> 0]
      BY <1>2 DEF HoldingsOut, Par, Rate
    <2>2. out[n].from = securities[n] /\ out[n].to = target /\ out[n].source = "par"
      BY <2>1
    <2>3. QED
      BY <1>1, <1>2, <2>2
  <1>3. CASE securities[n] \notin {"", target}
    <2>1. securities[n] \in DOMAIN converter /\ out[n] = converter[securities[n]]
      BY <1>3 DEF HoldingsOut
    <2>2. QED
      BY <1>1, <2>1 DEF Knows
  <1>4. QED
    BY <1>2, <1>3

\* What normalize_currency writes.
LEMMA EventsToWrite ==
    ASSUME Types, EventsOut, pc = "events", unknown = {}, NEW n \in DOMAIN out
    PROVE  /\ out[n].to # target => trades[n].base = DefaultTarget /\ target # DefaultTarget
           /\ out[n].source = "par" =>
                  trades[n].ccy = target \/ (~trades[n].fx /\ trades[n].base = DefaultTarget)
  <1>1. n \in DOMAIN trades
    BY Lists DEF Types
  <1>2. Transformed
    BY DEF Types, Rates
  <1>3. /\ rates[n] # NoRate => trades[n].base = DefaultTarget /\ rates[n].to = DefaultTarget
        /\ rates[n].source = "par" => ~trades[n].fx /\ trades[n].base = DefaultTarget
    BY <1>1, <1>2, RatesOf
  <1>4. Par(target).to = target
    BY DEF Par, Rate
  <1>5. QED
    BY <1>3, <1>4 DEF EventsOut

LEMMA TablesStay ==
    ASSUME Converting, [Next]_vars
    PROVE  RatesLeadToTarget' /\ NothingAtPar' /\ PenceFollowPounds'
  <1>0. Types /\ Knows /\ UNCHANGED <<securities, trades>>
    BY TableSteps DEF Converting
  <1>1. CASE UNCHANGED <<holdings, events>>
    <2>1. RatesLeadToTarget'
      BY <1>0, <1>1 DEF Converting, RatesLeadToTarget
    <2>2. NothingAtPar'
      BY <1>0, <1>1 DEF Converting, NothingAtPar
    <2>3. PenceFollowPounds'
      BY <1>0, <1>1 DEF Converting, PenceFollowPounds
    <2>4. QED
      BY <2>1, <2>2, <2>3
  <1>2. CASE WriteHoldings
    <2>1. pc = "holdings" /\ holdings' = [to |-> target, rates |-> out] /\ events' = events
      BY <1>2 DEF WriteHoldings
    <2>2. ASSUME NEW n \in DOMAIN out
          PROVE  /\ n \in DOMAIN securities
                 /\ out[n].from = securities[n] /\ out[n].to = target
                 /\ out[n].source = "par" => securities[n] \in {"", target}
                 /\ out[n].source # "par" =>
                        securities[n] \in DOMAIN converter /\ out[n] = converter[securities[n]]
      BY <1>0, <2>1, HoldingsToWrite DEF Converting
    <2>3. RatesLeadToTarget' /\ NothingAtPar'
      BY <1>0, <2>1, <2>2 DEF Converting, RatesLeadToTarget, NothingAtPar
    <2>4. ASSUME NEW m \in DOMAIN out, NEW n \in DOMAIN out
          PROVE  /\ securities[m] = securities[n] => out[m] = out[n]
                 /\ (/\ out[m].from = "GBP" /\ out[n].from = "GBX"
                     /\ out[n].source = "provider"
                     /\ \A k \in 1 .. m : securities[k] # "GBX")
                        => out[m] = [out[n] EXCEPT !.from = "GBP"]
      <3>1. securities[m] = securities[n] => out[m] = out[n]
        BY <2>1 DEF Converting, HoldingsOut
      <3>2. ASSUME out[m].from = "GBP", out[n].from = "GBX", out[n].source = "provider",
                   \A k \in 1 .. m : securities[k] # "GBX"
            PROVE  out[m] = [out[n] EXCEPT !.from = "GBP"]
        <4>1. m \in PoundsFirst
          BY <2>2, <3>2 DEF PoundsFirst
        <4>2. "GBX" \in DOMAIN converter /\ out[n] = converter["GBX"]
          BY <2>2, <3>2
        <4>3. QED
          BY <2>1, <3>2, <4>1, <4>2 DEF Converting, PenceAsked
      <3>3. QED
        BY <3>1, <3>2
    <2>5. PenceFollowPounds'
      BY <1>0, <2>1, <2>4 DEF PenceFollowPounds
    <2>6. QED
      BY <2>3, <2>5
  <1>3. CASE ConsolidateEvents
    <2>1. holdings' = holdings /\ (events'.to = "" \/ DOMAIN events'.rates = {})
      <3>1. DOMAIN rates = DOMAIN trades
        BY <1>0, <1>3 DEF ConsolidateEvents, Types, Rates, Transformed
      <3>2. CASE trades = <<>>
        BY <1>3, <3>1, <3>2 DEF ConsolidateEvents
      <3>3. CASE trades # <<>>
        BY <1>3, <3>3 DEF ConsolidateEvents
      <3>4. QED
        BY <3>2, <3>3, <1>3 DEF ConsolidateEvents
    <2>2. RatesLeadToTarget'
      BY <2>1 DEF Converting, RatesLeadToTarget
    <2>3. NothingAtPar'
      BY <1>0, <2>1 DEF Converting, NothingAtPar
    <2>4. PenceFollowPounds'
      <3>1. UNCHANGED <<securities, holdings>> /\ PenceFollowPounds
        BY <1>0, <2>1 DEF Converting
      <3>2. QED
        BY <3>1 DEF PenceFollowPounds
    <2>5. QED
      BY <2>2, <2>3, <2>4
  <1>4. CASE WriteTargets
    <2>1. /\ pc = "events" /\ unknown = {}
          /\ events' = [to |-> target, rates |-> out] /\ holdings' = holdings
      BY <1>4 DEF WriteTargets
    <2>2. ASSUME NEW n \in DOMAIN out
          PROVE  /\ out[n].to # target =>
                        trades[n].base = DefaultTarget /\ target # DefaultTarget
                 /\ out[n].source = "par" =>
                        trades[n].ccy = target \/ (~trades[n].fx /\ trades[n].base = DefaultTarget)
      BY <1>0, <2>1, EventsToWrite DEF Converting
    <2>3. RatesLeadToTarget'
      BY <1>0, <2>1, <2>2 DEF Converting, RatesLeadToTarget
    <2>4. NothingAtPar'
      BY <1>0, <2>1, <2>2 DEF Converting, NothingAtPar
    <2>5. PenceFollowPounds'
      BY <1>0, <2>1 DEF Converting, PenceFollowPounds
    <2>6. QED
      BY <2>3, <2>4, <2>5
  <1>5. QED
    BY <1>0, <1>1, <1>2, <1>3, <1>4, TableSteps

---------------------------------------------------------------------------
(* The conversion.                                                         *)

LEMMA ConvertingFromTheStart == Spec => []Converting
  <1>1. Init => Converting
    <2> SUFFICES ASSUME Init PROVE Converting
      OBVIOUS
    <2>1. /\ securities \in HoldingLists /\ trades \in EventLists /\ rates = <<>>
          /\ pc = "idle" /\ target = DefaultTarget /\ manual = {} /\ out = <<>> /\ next = 1
          /\ quote = 0
          /\ holdings.rates = <<>> /\ events.to = ""
      BY DEF Init, NoTable
    <2>2. Len(securities) \in Nat
      <3>1. securities \in Seq(ToSet(securities))
        BY <2>1, ListsAreSequences
      <3>2. QED
        BY <3>1
    <2>3. Types
      <3> DEFINE empty == <<>>
      <3>0. empty \in Seq(RateRecord) /\ Len(empty) = 0
        OBVIOUS
      <3> HIDE DEF empty
      <3>1. out \in Seq(RateRecord) /\ Len(out) = 0
        <4>1. out = empty
          BY <2>1 DEF empty
        <4>2. QED
          BY <3>0, <4>1
      <3>2. Rates /\ pc \in Phase /\ target \in Ccy /\ manual \in SUBSET Ccy
        BY <2>1, Literals DEF Rates, Phase
      <3>3. /\ securities \in HoldingLists /\ trades \in EventLists /\ quote \in Nat
            /\ next = 1 /\ pc = "idle"
        BY <2>1
      <3>4. QED
        BY <2>2, <3>1, <3>2, <3>3 DEF Types
    <2>4. Knows /\ HoldingsOut /\ PenceAsked /\ PoundKnown /\ EventsOut
      BY <2>1 DEF Knows, HoldingsOut, PenceAsked, PoundKnown, EventsOut
    <2>5. RatesLeadToTarget /\ NothingAtPar /\ PenceFollowPounds
      <3> DEFINE empty == <<>>
      <3>0. DOMAIN empty = {}
        OBVIOUS
      <3> HIDE DEF empty
      <3>1. DOMAIN holdings.rates = {}
        <4>1. holdings.rates = empty
          BY <2>1 DEF empty
        <4>2. QED
          BY <3>0, <4>1
      <3>2. RatesLeadToTarget
        BY <2>1, <3>1 DEF RatesLeadToTarget
      <3>3. NothingAtPar
        BY <2>1, <3>1 DEF NothingAtPar
      <3>4. PenceFollowPounds
        BY <3>1 DEF PenceFollowPounds
      <3>5. QED
        BY <3>2, <3>3, <3>4
    <2>6. QED
      BY <2>3, <2>4, <2>5 DEF Converting
  <1>2. Converting /\ [Next]_vars => Converting'
    BY TypesStay, KnowsStays, HoldingsOutStays, PenceStay, EventsOutStays, TablesStay
    DEF Converting
  <1>3. QED
    BY <1>1, <1>2, PTL DEF Spec

\* The pipeline of GoldTables converts as this module's consolidations do: its analytics
\* and its reports leave a conversion alone.
THEOREM GoldConverts == GoldSpec => Spec
  <1>1. GoldInit => Init
    BY DEF GoldInit
  <1>2. [GoldNext]_goldVars => [Next]_vars
    BY DEF GoldNext, goldVars, Pipeline, Analytics, StartAnalytics, Build, BuildFails,
       AnalyticsKilled
  <1>3. QED
    BY <1>1, <1>2, PTL DEF GoldSpec, Spec

\* Whatever is asked, answered, retried or published in whatever order, a converted
\* amount is labelled with the currency its rate leads to, but for the events that keep
\* their broker's rate to the default target.
THEOREM RatesReachTheTarget == Spec => []RatesLeadToTarget
  <1>1. Converting => RatesLeadToTarget
    BY DEF Converting
  <1>2. QED
    BY <1>1, ConvertingFromTheStart, PTL

\* No amount passes at rate 1 that is in another currency, but for a holding without a
\* currency and an event without the broker's rate in an account of the default target.
THEOREM ForeignIsConverted == Spec => []NothingAtPar
  <1>1. Converting => NothingAtPar
    BY DEF Converting
  <1>2. QED
    BY <1>1, ConvertingFromTheStart, PTL

\* The rates of one consolidated_holdings agree whatever quotes come out while it is made:
\* a currency has one, and pence have a pound's that was converted before the first of them.
THEOREM OneRateInATable == Spec => []PenceFollowPounds
  <1>1. Converting => PenceFollowPounds
    BY DEF Converting
  <1>2. QED
    BY <1>1, ConvertingFromTheStart, PTL

---------------------------------------------------------------------------
(* The gold tables.                                                        *)

EventTables == {"dividend_income", "interest_income", "cash_flow_summary"}
Tables == EventTables \cup {"portfolio_holdings"}

\* The events of one row, and the row.
Members(name, key) == {n \in Counted(name) : Key(name, trades[n]) = key}
RowAt(name, key) ==
    [key |-> key, members |-> Members(name, key),
     cash |-> Added({n \in Members(name, key) : trades[n].amount.n # 0})]

\* Every table is empty or as a builder makes it of these reports; and as long as no builder
\* of an analytics run failed, those it has behind it made theirs of the silver there is.
Building ==
    /\ trades \in EventLists
    /\ DOMAIN gold = Tables
    /\ due \in 0 .. Len(Builders) /\ failed \in BOOLEAN /\ green \in BOOLEAN
    /\ due # 0 => ~green
    /\ due # 0 /\ ~failed => \A k \in 1 .. due - 1 : gold[Builders[k]] = Built(Builders[k])
    /\ green => /\ gold["portfolio_holdings"].rows = HoldingRows
                /\ \E to : \A name \in EventTables :
                       gold[name] = [to |-> to, rows |-> EventRows(name)]

LEMMA BuildersAre ==
  /\ Len(Builders) = 4 /\ DOMAIN Builders = 1 .. 4
  /\ Builders[1] = "portfolio_holdings" /\ Builders[2] = "dividend_income"
  /\ Builders[3] = "interest_income" /\ Builders[4] = "cash_flow_summary"
  /\ {Builders[n] : n \in DOMAIN Builders} = Tables
<1>1. /\ Len(Builders) = 4 /\ DOMAIN Builders = 1 .. 4
      /\ Builders[1] = "portfolio_holdings" /\ Builders[2] = "dividend_income"
      /\ Builders[3] = "interest_income" /\ Builders[4] = "cash_flow_summary"
  BY DEF Builders
<1> QED
  BY <1>1 DEF Tables, EventTables

\* What a builder makes depends on the reports and, for its label, on silver.
LEMMA RowsStay ==
  ASSUME UNCHANGED <<trades, report, opened>>
  PROVE  HoldingRows' = HoldingRows /\ \A name \in EventTables : EventRows(name)' = EventRows(name)
<1>1. HoldingRows' = HoldingRows
  BY DEF HoldingRows, SnapshotsRead
<1>2. ASSUME NEW name \in EventTables PROVE EventRows(name)' = EventRows(name)
  BY DEF EventRows, Counted, Added
<1> QED
  BY <1>1, <1>2

LEMMA BuiltStays ==
  ASSUME UNCHANGED <<trades, report, opened, holdings, events>>
  PROVE  \A name \in Tables : Built(name)' = Built(name)
<1>1. UNCHANGED <<trades, report, opened>>
  OBVIOUS
<1> QED
  BY <1>1, RowsStay DEF Built, Tables

LEMMA BuildingStays ==
  ASSUME Building, [GoldNext]_goldVars
  PROVE  Building'
<1>0. /\ UNCHANGED <<trades, report, opened>>
      /\ (due # 0 => UNCHANGED <<trades, report, opened, holdings, events>>)
  <2>1. [Next]_vars => UNCHANGED trades
    BY DEF Next, vars, TransformEvents, Published, StartRun, Request, Convert, Killed, Answered,
       Fails, ConvertHolding, HoldingsFail, WriteHoldings, ConsolidateEvents, ConvertEvent,
       EventUnknown, EventsFail, WriteTargets, brokerData, process, tables
  <2>2. CASE Pipeline
    BY <2>1, <2>2 DEF Pipeline, reported
  <2>3. CASE Analytics \/ UNCHANGED goldVars
    BY <2>3 DEF Analytics, StartAnalytics, Build, BuildFails, AnalyticsKilled, goldVars,
                reported, vars, brokerData, tables
  <2> QED
    BY <2>2, <2>3 DEF GoldNext
<1>r. HoldingRows' = HoldingRows /\ \A name \in EventTables : EventRows(name)' = EventRows(name)
  BY <1>0, RowsStay
<1>b. due # 0 => \A name \in Tables : Built(name)' = Built(name)
  BY <1>0, BuiltStays
<1>t. \A name \in EventTables : EventRows(name)' = EventRows(name)
  BY <1>r
<1>1. CASE Pipeline \/ UNCHANGED goldVars
  <2>1. CASE Pipeline
    BY <1>0, <1>r, <2>1 DEF Pipeline, analytics, Building
  <2>2. CASE UNCHANGED goldVars
    <3>1. UNCHANGED <<gold, due, failed, green, trades>>
      BY <2>2, <1>0 DEF goldVars, analytics
    <3>2. due # 0 => \A k \in 1 .. due - 1 : Built(Builders[k])' = Built(Builders[k])
      BY <1>b, BuildersAre DEF Building
    <3> QED
      BY <3>1, <3>2, <1>r DEF Building
  <2> QED
    BY <1>1, <2>1, <2>2
<1>2. CASE StartAnalytics
  <2>1. due' = 1 /\ failed' = FALSE /\ green' = FALSE /\ gold' = gold
    BY <1>2 DEF StartAnalytics
  <2>2. trades' \in EventLists /\ DOMAIN gold' = Tables
    BY <1>0, <2>1 DEF Building
  <2>3. due' \in 0 .. Len(Builders) /\ \A k \in 1 .. due' - 1 : FALSE
    BY <2>1, BuildersAre
  <2>4. ~green' /\ failed' \in BOOLEAN /\ green' \in BOOLEAN
    BY <2>1
  <2> QED
    BY <2>2, <2>3, <2>4 DEF Building
<1>3. CASE AnalyticsKilled
  BY <1>0, <1>3, BuildersAre DEF AnalyticsKilled, Building
<1>4. CASE Build \/ BuildFails
  <2>1. PICK ok \in BOOLEAN : BuilderDone(ok) /\ due # 0 /\ (ok => Build) /\ (~ok => gold' = gold)
    BY <1>4 DEF Build, BuildFails
  <2>2. /\ due \in 1 .. 4 /\ ~green /\ failed \in BOOLEAN /\ DOMAIN gold = Tables
        /\ failed' = (failed \/ ~ok) /\ due' = (IF due = 4 THEN 0 ELSE due + 1)
        /\ green' = (due = 4 /\ ~failed')
    BY <2>1, BuildersAre DEF Building, BuilderDone
  <2>3. DOMAIN gold' = Tables
    BY <2>1, <2>2 DEF Build
  <2>4. \A k \in 1 .. 4 : Builders[k] \in Tables
    BY BuildersAre
  <2>5. ~failed' => /\ gold' = [gold EXCEPT ![Builders[due]] = Built(Builders[due])]
                    /\ \A k \in 1 .. due - 1 : gold[Builders[k]] = Built(Builders[k])
    BY <2>1, <2>2 DEF Build, Building
  <2>6. ~failed' => \A k \in 1 .. due : gold'[Builders[k]] = Built(Builders[k])
    <3> SUFFICES ASSUME ~failed', NEW k \in 1 .. due PROVE gold'[Builders[k]] = Built(Builders[k])
      OBVIOUS
    <3>1. CASE k = due
      BY <2>2, <2>4, <2>5, <3>1
    <3>2. CASE k # due
      <4>1. Builders[k] # Builders[due]
        BY <2>2, <3>2, BuildersAre
      <4> QED
        BY <2>2, <2>4, <2>5, <3>2, <4>1
    <3> QED
      BY <3>1, <3>2
  <2>7. ~failed' => \A k \in 1 .. due : gold'[Builders[k]] = Built(Builders[k])'
    BY <1>b, <2>2, <2>4, <2>6
  <2>8. green' => /\ gold'["portfolio_holdings"].rows = HoldingRows
                  /\ \E to : \A name \in EventTables :
                         gold'[name] = [to |-> to, rows |-> EventRows(name)]
    <3> SUFFICES ASSUME green'
                 PROVE  /\ gold'["portfolio_holdings"].rows = HoldingRows
                        /\ \A name \in EventTables :
                               gold'[name] = [to |-> events.to, rows |-> EventRows(name)]
      OBVIOUS
    <3>1. \A k \in 1 .. 4 : gold'[Builders[k]] = Built(Builders[k])
      BY <2>2, <2>6
    <3>2. \A name \in Tables : gold'[name] = Built(name)
      BY <3>1, BuildersAre DEF Tables, EventTables
    <3> QED
      BY <3>2 DEF Built, Tables, EventTables
  <2>9. green' => /\ gold'["portfolio_holdings"].rows = HoldingRows'
                  /\ \E to : \A name \in EventTables :
                         gold'[name] = [to |-> to, rows |-> EventRows(name)']
    <3> SUFFICES ASSUME green'
                 PROVE  /\ gold'["portfolio_holdings"].rows = HoldingRows'
                        /\ \E to : \A name \in EventTables :
                                gold'[name] = [to |-> to, rows |-> EventRows(name)']
      OBVIOUS
    <3>1. PICK to : \A name \in EventTables : gold'[name] = [to |-> to, rows |-> EventRows(name)]
      BY <2>8
    <3> QED
      BY <1>r, <2>8, <3>1
  <2>10. trades' \in EventLists
    BY <1>0 DEF Building
  <2>11. due' # 0 => ~green' /\ \A k \in 1 .. due' - 1 : k \in 1 .. due
    <3>1. CASE due = 4
      BY <2>2, <3>1
    <3>2. CASE due # 4
      <4>1. ~green'
        BY <2>2, <3>2
      <4>2. due' = due + 1 /\ due' - 1 = due
        BY <2>2, <3>2
      <4> QED
        BY <4>1, <4>2
    <3> QED
      BY <3>1, <3>2
  <2>12. due' \in 0 .. 4 /\ failed' \in BOOLEAN /\ green' \in BOOLEAN
    BY <2>2
  <2> QED
    BY <2>3, <2>7, <2>9, <2>10, <2>11, <2>12, BuildersAre DEF Building
<1> QED
  BY <1>1, <1>2, <1>3, <1>4 DEF GoldNext, Analytics

LEMMA BuildingFromTheStart == GoldSpec => []Building
<1>1. GoldInit => Building
  <2> SUFFICES ASSUME GoldInit PROVE Building
    OBVIOUS
  <2>1. trades \in EventLists
    BY DEF GoldInit, Init
  <2>2. DOMAIN gold = Tables
    BY BuildersAre DEF GoldInit
  <2>3. due = 0 /\ failed = FALSE /\ green = FALSE
    BY DEF GoldInit
  <2>4. due \in 0 .. Len(Builders) /\ ~(due # 0)
    BY <2>3, BuildersAre
  <2>5. ~green /\ failed \in BOOLEAN /\ green \in BOOLEAN
    BY <2>3
  <2> QED
    BY <2>1, <2>2, <2>4, <2>5 DEF Building
<1> QED
  BY <1>1, BuildingStays, PTL DEF GoldSpec

---------------------------------------------------------------------------
(* Rows of the event tables.                                               *)

LEMMA RowsAre ==
  ASSUME NEW name
  PROVE  EventRows(name) = {RowAt(name, Key(name, trades[n])) : n \in Counted(name)}
<1>1. EventRows(name) = {RowAt(name, key) : key \in {Key(name, trades[n]) : n \in Counted(name)}}
  BY DEF EventRows, RowAt, Members
<1> QED
  BY <1>1

LEMMA RowParts ==
  \A name, key : RowAt(name, key).key = key /\ RowAt(name, key).members = Members(name, key)
  BY DEF RowAt

LEMMA KeyParts ==
  ASSUME NEW name \in EventTables, NEW e
  PROVE  /\ Key(name, e)[1] = e.month /\ Key(name, e)[2] = e.broker
         /\ Last(Key(name, e)) = e.ccy
         /\ name = "cash_flow_summary" =>
                Key(name, e)[3] = e.type /\ Key(name, e) = <<e.month, e.broker, e.type, e.ccy>>
<1>1. CASE name = "dividend_income"
  BY <1>1 DEF Key, Last
<1>2. CASE name = "interest_income"
  BY <1>2 DEF Key, Last
<1>3. CASE name = "cash_flow_summary"
  BY <1>3 DEF Key, Last
<1> QED
  BY <1>1, <1>2, <1>3 DEF EventTables

LEMMA CountedAre ==
  ASSUME trades \in EventLists, NEW name
  PROVE  /\ IsFiniteSet(Counted(name)) /\ Counted(name) \subseteq DOMAIN trades
         /\ \A n \in Counted(name) : trades[n].amount.n \in Int
<1>1. trades \in Seq(ToSet(trades))
  BY ListsAreSequences
<1>2. DOMAIN trades = 1 .. Len(trades) /\ Len(trades) \in Nat
  BY <1>1
<1>3. IsFiniteSet(DOMAIN trades)
  BY <1>2, FS_Interval
<1> QED
  BY <1>3, FS_Subset, AmountsAreIntegers DEF Counted

\* A row's cash is the sum of all its events' amounts.
LEMMA CashOfRow ==
  ASSUME trades \in EventLists, NEW name, NEW key, NEW f,
         \A n \in Members(name, key) : f[n] = trades[n].amount.n
  PROVE  RowAt(name, key).cash.n = SumFunctionOnSet(f, Members(name, key))
<1> DEFINE all == Members(name, key)
           some == {n \in all : trades[n].amount.n # 0}
           amounts == [n \in some |-> trades[n].amount.n]
<1>1. IsFiniteSet(all) /\ \A n \in all : f[n] \in Int
  BY CountedAre, FS_Subset DEF Members
<1>2. RowAt(name, key).cash = Added(some)
  BY DEF RowAt
<1>3. Added(some).n = SumFunctionOnSet(amounts, some)
  BY DEF Added, Money
<1>4. some = {n \in all : f[n] # 0} /\ \A n \in some : amounts[n] = f[n]
  OBVIOUS
<1>5. IsFiniteSet(some)
  BY <1>1, FS_Subset
<1> HIDE DEF all, some, amounts
<1>6. SumFunctionOnSet(amounts, some) = SumFunctionOnSet(f, some)
  BY <1>4, <1>5, SameSum
<1>7. SumFunctionOnSet(f, some) = SumFunctionOnSet(f, all)
  BY <1>1, <1>4, SumOfNothing
<1> QED
  BY <1>2, <1>3, <1>6, <1>7 DEF all

\* A dated event is in one row of the summary, the one of its key.
LEMMA OnceInTheSummary ==
  ASSUME trades \in EventLists, NEW n \in DOMAIN trades
  PROVE  Cardinality({row \in EventRows("cash_flow_summary") : n \in row.members}) =
             IF trades[n].month = 0 THEN 0 ELSE 1
<1> DEFINE name == "cash_flow_summary"
           in == {row \in EventRows(name) : n \in row.members}
           own == RowAt(name, Key(name, trades[n]))
<1>1. \A row \in EventRows(name) : \E m \in Counted(name) :
          row = RowAt(name, Key(name, trades[m]))
  BY RowsAre
<1>2. \A key : RowAt(name, key).members = Members(name, key)
  BY DEF RowAt
<1>3. CASE n \in Counted(name)
  <2>1. own \in EventRows(name)
    BY <1>3, RowsAre
  <2>2. own \in in
    BY <1>2, <1>3, <2>1 DEF Members
  <2>3. \A row \in in : row = own
    BY <1>1, <1>2 DEF Members
  <2>4. in = {own}
    BY <2>2, <2>3
  <2>5. Cardinality(in) = 1
    BY <2>4, FS_Singleton
  <2> QED
    BY <1>3, <2>5 DEF Counted
<1>4. CASE n \notin Counted(name)
  <2>1. in = {}
    BY <1>1, <1>2, <1>4 DEF Members
  <2>2. trades[n].month = 0
    BY <1>4 DEF Counted, TypeOf
  <2> QED
    BY <2>1, <2>2, FS_EmptySet
<1> QED
  BY <1>3, <1>4

Alike(row, other) ==
    row.key[1] = other.key[1] /\ row.key[2] = other.key[2] /\ Last(row.key) = Last(other.key)

LEMMA IncomeTables ==
  /\ DOMAIN TypeOf = {"dividend_income", "interest_income"}
  /\ DOMAIN TypeOf \subseteq EventTables /\ "cash_flow_summary" \in EventTables
  /\ "cash_flow_summary" \notin DOMAIN TypeOf
  BY DEF TypeOf, EventTables

\* The rows of an income table that are like a row of the summary split its events.
LEMMA RowsSplit ==
  ASSUME trades \in EventLists, NEW name \in DOMAIN TypeOf,
         NEW row \in EventRows("cash_flow_summary"), row.key[3] = TypeOf[name]
  PROVE  row.members = UNION {r.members : r \in {s \in EventRows(name) : Alike(s, row)}}
<1> DEFINE summary == "cash_flow_summary"
           like == {s \in EventRows(name) : Alike(s, row)}
<1>0. name \in EventTables /\ summary \in EventTables /\ summary \notin DOMAIN TypeOf
  BY IncomeTables
<1>1. PICK m \in Counted(summary) : row = RowAt(summary, Key(summary, trades[m]))
  BY RowsAre
<1>2. /\ row.key = Key(summary, trades[m]) /\ row.key[1] = trades[m].month
      /\ row.key[2] = trades[m].broker /\ row.key[3] = trades[m].type
      /\ Last(row.key) = trades[m].ccy
      /\ row.members = Members(summary, Key(summary, trades[m]))
  BY <1>0, <1>1, KeyParts DEF RowAt
<1>3. \A n : n \in row.members <=>
          /\ n \in Counted(summary) /\ trades[n].month = trades[m].month
          /\ trades[n].broker = trades[m].broker /\ trades[n].type = trades[m].type
          /\ trades[n].ccy = trades[m].ccy
  <2>1. \A n : n \in row.members <=>
            n \in Counted(summary) /\ Key(summary, trades[n]) = Key(summary, trades[m])
    BY <1>2 DEF Members
  <2>2. \A n : Key(summary, trades[n]) =
                   <<trades[n].month, trades[n].broker, trades[n].type, trades[n].ccy>>
    BY <1>0, KeyParts
  <2> QED
    BY <2>1, <2>2
<1>4. \A n : n \in Counted(name) <=> n \in Counted(summary) /\ trades[n].type = trades[m].type
  BY <1>0, <1>2 DEF Counted
<1>5. \A n \in Counted(name) :
          /\ RowAt(name, Key(name, trades[n])) \in EventRows(name)
          /\ RowAt(name, Key(name, trades[n])).members = Members(name, Key(name, trades[n]))
          /\ Alike(RowAt(name, Key(name, trades[n])), row) <=>
                 /\ trades[n].month = trades[m].month /\ trades[n].broker = trades[m].broker
                 /\ trades[n].ccy = trades[m].ccy
  <2> TAKE n \in Counted(name)
  <2> DEFINE r == RowAt(name, Key(name, trades[n]))
  <2>1. r \in EventRows(name)
    BY RowsAre
  <2>2. r.key = Key(name, trades[n]) /\ r.members = Members(name, Key(name, trades[n]))
    BY RowParts
  <2> HIDE DEF r
  <2>3. /\ r.key[1] = trades[n].month /\ r.key[2] = trades[n].broker
        /\ Last(r.key) = trades[n].ccy
    <3>1. LET key == Key(name, trades[n])
          IN  /\ key[1] = trades[n].month /\ key[2] = trades[n].broker
              /\ Last(key) = trades[n].ccy
      BY <1>0, KeyParts
    <3> QED
      BY <2>2, <3>1
  <2>4. Alike(r, row) <=>
            /\ trades[n].month = trades[m].month /\ trades[n].broker = trades[m].broker
            /\ trades[n].ccy = trades[m].ccy
    BY <1>2, <2>3 DEF Alike
  <2> QED
    BY <2>1, <2>2, <2>4 DEF r
<1>6. ASSUME NEW n \in row.members PROVE \E r \in like : n \in r.members
  <2>1. n \in Counted(name) /\ Alike(RowAt(name, Key(name, trades[n])), row)
    BY <1>3, <1>4, <1>5, <1>6
  <2>2. n \in Members(name, Key(name, trades[n]))
    BY <2>1 DEF Members
  <2> QED
    BY <1>5, <2>1, <2>2
<1>7. ASSUME NEW r \in like, NEW n \in r.members PROVE n \in row.members
  <2>1. PICK k \in Counted(name) : r = RowAt(name, Key(name, trades[k]))
    BY RowsAre
  <2>2. n \in Counted(name) /\ Key(name, trades[n]) = Key(name, trades[k])
    BY <1>5, <1>7, <2>1 DEF Members
  <2>3. r = RowAt(name, Key(name, trades[n])) /\ Alike(r, row)
    BY <2>1, <2>2
  <2> QED
    BY <1>3, <1>4, <1>5, <2>2, <2>3
<1> QED
  BY <1>6, <1>7

\* What the income tables tell of a month, broker and currency adds up to the summary's row.
LEMMA IncomeAddsUp ==
  ASSUME trades \in EventLists, NEW name \in DOMAIN TypeOf,
         NEW row \in EventRows("cash_flow_summary"), row.key[3] = TypeOf[name]
  PROVE  row.cash.n = CashOf({r \in EventRows(name) : Alike(r, row)})
<1> DEFINE summary == "cash_flow_summary"
           R == {r \in EventRows(name) : Alike(r, row)}
           f == [n \in DOMAIN trades |-> trades[n].amount.n]
           g == [r \in R |-> r.cash.n]
           part == [r \in R |-> r.members]
<1>1. \A r \in EventRows(name) : \E k \in Counted(name) :
          r = RowAt(name, Key(name, trades[k])) /\ r.members = Members(name, Key(name, trades[k]))
  BY RowsAre, RowParts
<1>2. IsFiniteSet(R)
  <2> DEFINE made == [n \in Counted(name) |-> RowAt(name, Key(name, trades[n]))]
  <2>1. made \in Surjection(Counted(name), EventRows(name))
    BY RowsAre DEF Surjection
  <2> HIDE DEF made
  <2>2. IsFiniteSet(EventRows(name))
    BY <2>1, CountedAre, FS_Surjection
  <2> QED
    BY <2>2, FS_Subset
<1>3. \A r \in EventRows(name) :
          /\ IsFiniteSet(r.members) /\ \A n \in r.members : f[n] \in Int
          /\ r.cash.n = SumFunctionOnSet(f, r.members)
  <2> TAKE r \in EventRows(name)
  <2>1. PICK k \in Counted(name) :
            r = RowAt(name, Key(name, trades[k])) /\ r.members = Members(name, Key(name, trades[k]))
    BY <1>1
  <2>2. r.members \subseteq Counted(name)
    BY <2>1 DEF Members
  <2>3. \A n \in r.members : f[n] = trades[n].amount.n /\ f[n] \in Int
    BY <2>2, CountedAre
  <2>4. IsFiniteSet(r.members)
    BY <2>2, CountedAre, FS_Subset
  <2> HIDE DEF f
  <2> QED
    BY <2>1, <2>3, <2>4, CashOfRow
<1>4. ASSUME NEW r \in R, NEW s \in R, r # s PROVE part[r] \intersect part[s] = {}
  BY <1>1, <1>4 DEF Members
<1>5. UNION {part[r] : r \in R} = row.members
  BY RowsSplit
<1>6. row.cash.n = SumFunctionOnSet(f, row.members)
  <2>1. PICK m \in Counted(summary) : row = RowAt(summary, Key(summary, trades[m]))
    BY RowsAre
  <2>2. row.members = Members(summary, Key(summary, trades[m]))
    BY <2>1 DEF RowAt
  <2>3. \A n \in row.members : f[n] = trades[n].amount.n
    BY <2>2, CountedAre DEF Members
  <2> HIDE DEF f
  <2> QED
    BY <2>1, <2>2, <2>3, CashOfRow
<1>7. \A r \in R : IsFiniteSet(part[r]) /\ g[r] = SumFunctionOnSet(f, part[r])
  BY <1>3
<1>8. \A r \in R : \A x \in part[r] : f[x] \in Int
  BY <1>3
<1>9. CashOf(R) = SumFunctionOnSet(g, R)
  BY DEF CashOf
<1> HIDE DEF R, f, g, part
<1>10. SumFunctionOnSet(g, R) = SumFunctionOnSet(f, UNION {part[r] : r \in R})
  BY <1>2, <1>4, <1>7, <1>8, SumOfParts
<1> QED
  BY <1>5, <1>6, <1>9, <1>10 DEF R

\* Whichever builders failed in earlier analytics runs, after one in which none did the
\* income tables and the summary tell one story.
THEOREM OneStory == GoldSpec => []GoldTablesAgree
<1>1. Building => GoldTablesAgree
  <2> SUFFICES ASSUME Building, green PROVE GoldTablesAgree
    BY DEF GoldTablesAgree
  <2> DEFINE name0 == "cash_flow_summary"
  <2>1. PICK to : \A name \in EventTables : gold[name] = [to |-> to, rows |-> EventRows(name)]
    BY DEF Building
  <2>2. trades \in EventLists
    BY DEF Building
  <2>a. \A name \in EventTables : gold[name].rows = EventRows(name) /\ gold[name].to = to
    <3> TAKE name \in EventTables
    <3>1. gold[name] = [to |-> to, rows |-> EventRows(name)]
      BY <2>1
    <3> QED
      BY <3>1
  <2>3. gold.cash_flow_summary.rows = EventRows(name0) /\ gold.cash_flow_summary.to = to
    BY <2>a, IncomeTables
  <2>4. \A name \in DOMAIN TypeOf : gold[name].rows = EventRows(name) /\ gold[name].to = to
    BY <2>a, IncomeTables
  <2>5. ASSUME NEW n \in DOMAIN trades
        PROVE  Cardinality({row \in gold.cash_flow_summary.rows : n \in row.members}) =
                   IF trades[n].month = 0 THEN 0 ELSE 1
    BY <2>2, <2>3, OnceInTheSummary
  <2>6. ASSUME NEW name \in DOMAIN TypeOf, NEW row \in gold.cash_flow_summary.rows,
               row.key[3] = TypeOf[name]
        PROVE  row.cash.n = CashOf({r \in gold[name].rows : Alike(r, row)})
    BY <2>2, <2>3, <2>4, <2>6, IncomeAddsUp
  <2>7. ASSUME NEW name \in DOMAIN TypeOf, NEW r \in gold[name].rows
        PROVE  \E row \in gold.cash_flow_summary.rows :
                   row.key[3] = TypeOf[name] /\ Alike(r, row)
    <3>1. PICK n \in Counted(name) : r = RowAt(name, Key(name, trades[n]))
      BY <2>4, RowsAre
    <3>2. n \in Counted(name0) /\ trades[n].type = TypeOf[name]
      BY <3>1, IncomeTables DEF Counted
    <3> DEFINE row == RowAt(name0, Key(name0, trades[n]))
    <3>3. row \in gold.cash_flow_summary.rows
      BY <2>3, <3>2, RowsAre
    <3>4. row.key = Key(name0, trades[n]) /\ r.key = Key(name, trades[n])
      BY <3>1, RowParts
    <3> HIDE DEF row
    <3>5. /\ row.key[1] = trades[n].month /\ row.key[2] = trades[n].broker
          /\ row.key[3] = trades[n].type /\ Last(row.key) = trades[n].ccy
      <4>1. LET key == Key(name0, trades[n])
            IN  /\ key[1] = trades[n].month /\ key[2] = trades[n].broker
                /\ key[3] = trades[n].type /\ Last(key) = trades[n].ccy
        BY KeyParts, IncomeTables
      <4> QED
        BY <3>4, <4>1
    <3>6. /\ r.key[1] = trades[n].month /\ r.key[2] = trades[n].broker
          /\ Last(r.key) = trades[n].ccy
      <4>1. LET key == Key(name, trades[n])
            IN  /\ key[1] = trades[n].month /\ key[2] = trades[n].broker
                /\ Last(key) = trades[n].ccy
        BY KeyParts, IncomeTables
      <4> QED
        BY <3>4, <4>1
    <3> QED
      BY <3>2, <3>3, <3>5, <3>6 DEF Alike
  <2> DEFINE summary == gold.cash_flow_summary
  <2>8. \A name \in DOMAIN TypeOf :
            /\ gold[name].to = summary.to
            /\ \A row \in {s \in summary.rows : s.key[3] = TypeOf[name]} :
                   row.cash.n = CashOf({r \in gold[name].rows : Alike(r, row)})
            /\ \A r \in gold[name].rows :
                   \E row \in {s \in summary.rows : s.key[3] = TypeOf[name]} : Alike(r, row)
    BY <2>3, <2>4, <2>6, <2>7
  <2>9. \A n \in DOMAIN trades : Cardinality({row \in summary.rows : n \in row.members}) =
                                     IF trades[n].month = 0 THEN 0 ELSE 1
    BY <2>5
  <2> QED
    BY <2>8, <2>9 DEF GoldTablesAgree, Alike
<1> QED
  BY <1>1, BuildingFromTheStart, PTL

---------------------------------------------------------------------------
(* Amounts and currencies: what every broker's rows say, and IBKR's.       *)

\* What AmountsAsLabelled says of an event.
Sound(e) ==
    /\ Labelled(e.amount, e.ccy) \/ e \in TwiceConverted \cup Unrated \/ e.ccy = ""
    /\ \/ Labelled(e.fee, e.ccy)
       \/ ForeignCommission(e) \/ e \in Unrated \/ e.ccy = ""
    /\ Labelled(e.tax, e.ccy) \/ e \in Unrated
    /\ e.side = "BUY" => e.amount.n <= 0
    /\ e.side = "SELL" => e.amount.n >= 0

\* Each broker's module has the same lists and amounts.
LEMMA SameForIbkr ==
  /\ \A rows, identity : Ibkr!Deduped(rows, identity) = Deduped(rows, identity)
  /\ \A list, places : Ibkr!Picked(list, places) = Picked(list, places)
  /\ \A m, ccy : Ibkr!Labelled(m, ccy) <=> Labelled(m, ccy)
  /\ \A list : Ibkr!IsSequence(list) <=> list \in Seq(ToSet(list))
  /\ \A list : Ibkr!ToSet(list) = ToSet(list)
  /\ Ibkr!Null = Null /\ \A n, ccy : Ibkr!Money(n, ccy) = Money(n, ccy)
<1>1. \A list, places : Ibkr!Picked(list, places) = Picked(list, places)
  BY DEF Ibkr!Picked, Picked, Ibkr!Cardinality, Cardinality
<1>2. \A rows, identity : Ibkr!Deduped(rows, identity) = Deduped(rows, identity)
  BY <1>1 DEF Ibkr!Deduped, Deduped
<1>3. \A list : Ibkr!IsSequence(list) <=> list \in Seq(ToSet(list))
  BY DEF Ibkr!IsSequence, Ibkr!ToSet, ToSet
<1> QED
  BY <1>1, <1>2, <1>3 DEF Ibkr!Labelled, Labelled, Ibkr!Null, Null, Ibkr!Money, Money, Ibkr!ToSet, ToSet

LEMMA SameForT212 ==
  /\ \A rows, identity : T212!Deduped(rows, identity) = Deduped(rows, identity)
  /\ \A list, places : T212!Picked(list, places) = Picked(list, places)
  /\ \A m, ccy : T212!Labelled(m, ccy) <=> Labelled(m, ccy)
  /\ \A list : T212!IsSequence(list) <=> list \in Seq(ToSet(list))
  /\ \A list : T212!ToSet(list) = ToSet(list)
  /\ T212!Null = Null /\ \A n, ccy : T212!Money(n, ccy) = Money(n, ccy)
<1>1. \A list, places : T212!Picked(list, places) = Picked(list, places)
  BY DEF T212!Picked, Picked, T212!Cardinality, Cardinality
<1>2. \A rows, identity : T212!Deduped(rows, identity) = Deduped(rows, identity)
  BY <1>1 DEF T212!Deduped, Deduped
<1>3. \A list : T212!IsSequence(list) <=> list \in Seq(ToSet(list))
  BY DEF T212!IsSequence, T212!ToSet, ToSet
<1> QED
  BY <1>1, <1>2, <1>3 DEF T212!Labelled, Labelled, T212!Null, Null, T212!Money, Money, T212!ToSet, ToSet

LEMMA SameForXtb ==
  /\ \A rows, identity : Xtb!Deduped(rows, identity) = Deduped(rows, identity)
  /\ \A list, places : Xtb!Picked(list, places) = Picked(list, places)
  /\ \A m, ccy : Xtb!Labelled(m, ccy) <=> Labelled(m, ccy)
  /\ \A list : Xtb!IsSequence(list) <=> list \in Seq(ToSet(list))
  /\ \A list : Xtb!ToSet(list) = ToSet(list)
  /\ Xtb!Null = Null /\ \A n, ccy : Xtb!Money(n, ccy) = Money(n, ccy)
<1>1. \A list, places : Xtb!Picked(list, places) = Picked(list, places)
  BY DEF Xtb!Picked, Picked, Xtb!Cardinality, Cardinality
<1>2. \A rows, identity : Xtb!Deduped(rows, identity) = Deduped(rows, identity)
  BY <1>1 DEF Xtb!Deduped, Deduped
<1>3. \A list : Xtb!IsSequence(list) <=> list \in Seq(ToSet(list))
  BY DEF Xtb!IsSequence, Xtb!ToSet, ToSet
<1> QED
  BY <1>1, <1>2, <1>3 DEF Xtb!Labelled, Labelled, Xtb!Null, Null, Xtb!Money, Money, Xtb!ToSet, ToSet

\* What is made of the elements of a list.
LEMMA EachMade ==
  ASSUME NEW list, NEW made, made = [n \in DOMAIN list |-> made[n]]
  PROVE  \A e \in ToSet(made) : \E n \in DOMAIN list : e = made[n] /\ list[n] \in ToSet(list)
  BY DEF ToSet

\* A commission is in its row's currency unless it is foreign.
LEMMA CommissionIs ==
  ASSUME NEW trade, NEW base
  PROVE  LET fee == Ibkr!Commission(trade, base)
         IN  \/ Labelled(fee, trade.currency)
             \/ fee.ccy = base => ~(trade.fx # 0)
<1> DEFINE magnitude == Ibkr!Magnitude(trade.commission)
           rate == IF trade.fx = 0 THEN Ibkr!One ELSE Ibkr!FxRate(trade.currency, base, trade.fx)
<1>1. Ibkr!Commission(trade, base) =
          IF magnitude.ccy # trade.currency /\ magnitude.ccy = base
          THEN Ibkr!Reversed(magnitude, rate) ELSE magnitude
  BY DEF Ibkr!Commission
<1> HIDE DEF magnitude
<1>2. CASE ~(magnitude.ccy # trade.currency /\ magnitude.ccy = base)
  BY <1>1, <1>2 DEF Labelled
<1>3. CASE magnitude.ccy # trade.currency /\ magnitude.ccy = base /\ trade.fx # 0
  <2>1. rate # Ibkr!One /\ rate.from = trade.currency /\ rate.to = base
    BY <1>3 DEF Ibkr!One, Ibkr!FxRate
  <2>2. Ibkr!Reversed(magnitude, rate).ccy = trade.currency
    BY <1>3, <2>1 DEF Ibkr!Reversed, Ibkr!Money
  <2> QED
    BY <1>1, <1>3, <2>2 DEF Labelled
<1>4. CASE trade.fx = 0
  BY <1>4
<1> QED
  BY <1>2, <1>3, <1>4

LEMMA IbkrTrade ==
  ASSUME NEW given, NEW trade,
         Labelled(trade.netCash, trade.currency), Labelled(trade.taxes, trade.currency),
         trade.side = "BUY" => trade.netCash.n <= 0,
         trade.side = "SELL" => trade.netCash.n >= 0
  PROVE  LET e == Ibkr!TradeEvent(given, trade) IN e.broker = Ibkr!Broker /\ Sound(e)
<1> DEFINE e == Ibkr!TradeEvent(given, trade)
           base == Ibkr!BaseOf(given, trade)
<1>1. /\ e.broker = Ibkr!Broker /\ e.ccy = trade.currency /\ e.base = base
      /\ e.fx = (trade.fx # 0) /\ e.amount = trade.netCash /\ e.tax = trade.taxes
      /\ e.fee = Ibkr!Commission(trade, base) /\ e.side = trade.side
  BY DEF Ibkr!TradeEvent, Ibkr!Common, Ibkr!NoEvent
<1> HIDE DEF e, base
<1>2. Labelled(e.fee, e.ccy) \/ (e.fee.ccy = e.base => ~e.fx)
  BY <1>1, CommissionIs
<1> QED
  BY <1>1, <1>2 DEF Sound, ForeignCommission, e

LEMMA IbkrOthers ==
  ASSUME NEW given, NEW element
  PROVE  /\ Labelled(element.amount, element.currency) =>
                LET e == Ibkr!CashTransactionEvent(given, element)
                IN  e.broker = Ibkr!Broker /\ Sound(e)
         /\ Labelled(element.cash, element.currency) =>
                LET e == Ibkr!TransferEvent(given, element)
                IN  e.broker = Ibkr!Broker /\ Sound(e)
         /\ Labelled(element.amount, element.currency) =>
                LET e == Ibkr!TransactionFeeEvent(given, element)
                IN  e.broker = Ibkr!Broker /\ Sound(e)
<1>0. Labelled(Ibkr!Null, element.currency)
  BY DEF Labelled, Ibkr!Null, Ibkr!Money
<1>1. LET e == Ibkr!CashTransactionEvent(given, element)
      IN  /\ e.broker = Ibkr!Broker /\ e.ccy = element.currency /\ e.amount = element.amount
          /\ e.fee = Ibkr!Null /\ e.tax = Ibkr!Null /\ e.side = ""
  BY DEF Ibkr!CashTransactionEvent, Ibkr!Common, Ibkr!NoEvent
<1>2. LET e == Ibkr!TransferEvent(given, element)
      IN  /\ e.broker = Ibkr!Broker /\ e.ccy = element.currency /\ e.amount = element.cash
          /\ e.fee = Ibkr!Null /\ e.tax = Ibkr!Null /\ e.side = ""
  BY DEF Ibkr!TransferEvent, Ibkr!Common, Ibkr!NoEvent
<1>3. LET e == Ibkr!TransactionFeeEvent(given, element)
      IN  /\ e.broker = Ibkr!Broker /\ e.ccy = element.currency /\ e.amount = element.amount
          /\ e.fee = element.amount /\ e.tax = Ibkr!Null /\ e.side = ""
  BY DEF Ibkr!TransactionFeeEvent, Ibkr!Common, Ibkr!NoEvent
<1> QED
  BY <1>0, <1>1, <1>2, <1>3 DEF Sound

LEMMA IbkrRows ==
  ASSUME NEW given, Ibkr!Credible(given)
  PROVE  LET rows == Ibkr!Events(given)
         IN  IsList(rows) /\ \A e \in ToSet(rows) : e.broker = Ibkr!Broker /\ Sound(e)
<1> DEFINE trades_ == [n \in DOMAIN given.trades |-> Ibkr!TradeEvent(given, given.trades[n])]
           cash == [n \in DOMAIN given.cashTransactions |->
                       Ibkr!CashTransactionEvent(given, given.cashTransactions[n])]
           transfers == [n \in DOMAIN given.transfers |->
                            Ibkr!TransferEvent(given, given.transfers[n])]
           fees == [n \in DOMAIN given.transactionFees |->
                       Ibkr!TransactionFeeEvent(given, given.transactionFees[n])]
           good(e) == e.broker = Ibkr!Broker /\ Sound(e)
<1>1. Ibkr!Events(given) = trades_ \o cash \o transfers \o fees
  BY DEF Ibkr!Events
<1>2. /\ IsList(given.trades) /\ IsList(given.cashTransactions)
      /\ IsList(given.transfers) /\ IsList(given.transactionFees)
  BY SameForIbkr, ListsAre DEF Ibkr!Credible
<1>3. /\ \A t \in ToSet(given.trades) :
             /\ Labelled(t.netCash, t.currency) /\ Labelled(t.taxes, t.currency)
             /\ t.side = "BUY" => t.netCash.n <= 0
             /\ t.side = "SELL" => t.netCash.n >= 0
      /\ \A t \in ToSet(given.cashTransactions) : Labelled(t.amount, t.currency)
      /\ \A t \in ToSet(given.transfers) : Labelled(t.cash, t.currency)
      /\ \A t \in ToSet(given.transactionFees) : Labelled(t.amount, t.currency)
  BY SameForIbkr DEF Ibkr!Credible
<1>4. IsList(trades_) /\ IsList(cash) /\ IsList(transfers) /\ IsList(fees)
  BY <1>2, ListsAre
<1>5. \A e \in ToSet(trades_) : good(e)
  <2>1. \A t \in ToSet(given.trades) : good(Ibkr!TradeEvent(given, t))
    BY <1>3, IbkrTrade
  <2>2. \A n \in DOMAIN given.trades : trades_[n] = Ibkr!TradeEvent(given, given.trades[n])
    OBVIOUS
  <2>3. \A e \in ToSet(trades_) : \E n \in DOMAIN given.trades :
            e = trades_[n] /\ given.trades[n] \in ToSet(given.trades)
    BY EachMade
  <2> HIDE DEF good, trades_
  <2> QED
    BY <2>1, <2>2, <2>3
<1>6. \A e \in ToSet(cash) : good(e)
  <2>1. \A t \in ToSet(given.cashTransactions) : good(Ibkr!CashTransactionEvent(given, t))
    BY <1>3, IbkrOthers
  <2>2. \A n \in DOMAIN given.cashTransactions : cash[n] = Ibkr!CashTransactionEvent(given, given.cashTransactions[n])
    OBVIOUS
  <2>3. \A e \in ToSet(cash) : \E n \in DOMAIN given.cashTransactions :
            e = cash[n] /\ given.cashTransactions[n] \in ToSet(given.cashTransactions)
    BY EachMade
  <2> HIDE DEF good, cash
  <2> QED
    BY <2>1, <2>2, <2>3
<1>7. \A e \in ToSet(transfers) : good(e)
  <2>1. \A t \in ToSet(given.transfers) : good(Ibkr!TransferEvent(given, t))
    BY <1>3, IbkrOthers
  <2>2. \A n \in DOMAIN given.transfers : transfers[n] = Ibkr!TransferEvent(given, given.transfers[n])
    OBVIOUS
  <2>3. \A e \in ToSet(transfers) : \E n \in DOMAIN given.transfers :
            e = transfers[n] /\ given.transfers[n] \in ToSet(given.transfers)
    BY EachMade
  <2> HIDE DEF good, transfers
  <2> QED
    BY <2>1, <2>2, <2>3
<1>8. \A e \in ToSet(fees) : good(e)
  <2>1. \A t \in ToSet(given.transactionFees) : good(Ibkr!TransactionFeeEvent(given, t))
    BY <1>3, IbkrOthers
  <2>2. \A n \in DOMAIN given.transactionFees : fees[n] = Ibkr!TransactionFeeEvent(given, given.transactionFees[n])
    OBVIOUS
  <2>3. \A e \in ToSet(fees) : \E n \in DOMAIN given.transactionFees :
            e = fees[n] /\ given.transactionFees[n] \in ToSet(given.transactionFees)
    BY EachMade
  <2> HIDE DEF good, fees
  <2> QED
    BY <2>1, <2>2, <2>3
<1> HIDE DEF trades_, cash, transfers, fees, good
<1>9. IsList(trades_ \o cash) /\ \A e \in ToSet(trades_ \o cash) : good(e)
  BY <1>4, <1>5, <1>6, Joined
<1>10. IsList(trades_ \o cash \o transfers) /\ \A e \in ToSet(trades_ \o cash \o transfers) : good(e)
  BY <1>4, <1>7, <1>9, Joined
<1>11. /\ IsList(trades_ \o cash \o transfers \o fees)
       /\ \A e \in ToSet(trades_ \o cash \o transfers \o fees) : good(e)
  BY <1>4, <1>8, <1>10, Joined
<1> QED
  BY <1>1, <1>11 DEF good

\* What AmountsAsLabelled says of a holding.
WellHeld(h) == Labelled(h.value, h.ccy) \/ h.ccy = ""

LEMMA IbkrSnapshot ==
  ASSUME NEW given, Ibkr!Credible(given)
  PROVE  LET rows == Ibkr!Snapshot(given)
         IN  IsList(rows) /\ \A h \in ToSet(rows) : h.broker = Ibkr!Broker /\ WellHeld(h)
<1> DEFINE worthPlaces == {n \in DOMAIN given.positions : Ibkr!ValueOf(given.positions[n]) # 0}
           worth == Picked(given.positions, worthPlaces)
           ccy(p) == Ibkr!Coalesce(p.currency, "USD", "")
           equity(p) == Ibkr!Position(Ibkr!Broker, "EQUITY", p.symbol,
                                      Ibkr!Money(Ibkr!ValueOf(p), p.currency), ccy(p))
           entries == Ibkr!CashEntries(given)
           cash(entry) == Ibkr!Position(Ibkr!Broker, "CASH", "CASH",
                                        Ibkr!Money(entry.n, entry.currency), entry.currency)
           held == [n \in DOMAIN worth |-> equity(worth[n])]
           cashes == [n \in DOMAIN entries |-> cash(entries[n])]
           good(h) == h.broker = Ibkr!Broker /\ WellHeld(h)
<1>1. Ibkr!Snapshot(given) = held \o cashes
  BY SameForIbkr DEF Ibkr!Snapshot, Ibkr!Passing
<1>2. IsList(given.positions) /\ IsList(given.cash)
  BY SameForIbkr, ListsAre DEF Ibkr!Credible
<1>3. IsList(worth) /\ \A p \in ToSet(worth) : p \in ToSet(given.positions)
  <2>1. worthPlaces \in SUBSET DOMAIN given.positions
    OBVIOUS
  <2> HIDE DEF worthPlaces
  <2> QED
    BY <1>2, <2>1, PickedList DEF ToSet
<1>4. IsList(entries)
  <2> DEFINE isCurrency(entry) == entry.currency # "BASE SUMMARY"
             sums == {n \in DOMAIN given.cash : ~isCurrency(given.cash[n]) /\ given.cash[n].n # 0}
             ones == {n \in DOMAIN given.cash : /\ isCurrency(given.cash[n])
                                                /\ given.cash[n].currency # ""
                                                /\ given.cash[n].n # 0}
  <2>1. entries \in {Picked(given.cash, ones), <<>>} \/ \E x : entries = <<x>>
    BY SameForIbkr DEF Ibkr!CashEntries, Ibkr!Passing
  <2>2. IsList(Picked(given.cash, ones))
    <3>1. ones \in SUBSET DOMAIN given.cash
      OBVIOUS
    <3> HIDE DEF ones
    <3> QED
      BY <1>2, <3>1, PickedList
  <2>3. \A x : IsList(<<x>>)
    <3>1. \A x : <<x>> = [k \in 1 .. 1 |-> <<x>>[k]]
      OBVIOUS
    <3> QED
      BY <3>1 DEF IsList
  <2> QED
    BY <2>1, <2>2, <2>3, EmptyList
<1> HIDE DEF worth, entries
<1>5. \A p \in ToSet(given.positions) : good(equity(p))
  <2>1. \A p \in ToSet(given.positions) : p.currency # ""
    BY SameForIbkr DEF Ibkr!Credible
  <2> QED
    BY <2>1 DEF Ibkr!Position, Ibkr!Money, Ibkr!Coalesce, WellHeld, Labelled
<1>6. \A entry : good(cash(entry))
  BY DEF Ibkr!Position, Ibkr!Money, WellHeld, Labelled
<1>7. IsList(held) /\ \A h \in ToSet(held) : good(h)
  <2>1. IsList(held)
    BY <1>3, ListsAre
  <2>2. \A n \in DOMAIN worth : held[n] = equity(worth[n])
    OBVIOUS
  <2>3. \A h \in ToSet(held) : \E n \in DOMAIN worth : h = held[n] /\ worth[n] \in ToSet(worth)
    BY EachMade
  <2> HIDE DEF good, held, equity
  <2> QED
    BY <1>3, <1>5, <2>1, <2>2, <2>3
<1>8. IsList(cashes) /\ \A h \in ToSet(cashes) : good(h)
  <2>1. IsList(cashes)
    BY <1>4, ListsAre
  <2>2. \A n \in DOMAIN entries : cashes[n] = cash(entries[n])
    OBVIOUS
  <2>3. \A h \in ToSet(cashes) : \E n \in DOMAIN entries : h = cashes[n] /\ entries[n] \in ToSet(entries)
    BY EachMade
  <2> HIDE DEF good, cashes, cash
  <2> QED
    BY <1>6, <2>1, <2>2, <2>3
<1> HIDE DEF held, cashes, good
<1>9. IsList(held \o cashes) /\ \A h \in ToSet(held \o cashes) : good(h)
  BY <1>7, <1>8, Joined
<1> QED
  BY <1>1, <1>9 DEF good

---------------------------------------------------------------------------
(* Trading 212.                                                            *)

LEMMA Products ==
  (\A fx \in Nat : 0 * fx = 0) /\ (\A n, fx \in Nat : n * fx \in Nat)
  OBVIOUS

LEMMA MoneyParts == \A n, ccy : Money(n, ccy).n = n /\ Money(n, ccy).ccy = ccy
  BY DEF Money

\* What a rate makes of an amount in the currency it leads from.
LEMMA ExchangedIs ==
  ASSUME NEW m, NEW from, NEW to, NEW fx, fx \in Nat,
         fx # 0, to # "", Labelled(m, from)
  PROVE  LET made == T212!Exchanged(m, T212!FxRate(from, to, fx))
         IN  Labelled(made, to) /\ (m = Null \/ made.n = m.n * fx)
<1> DEFINE rate == T212!FxRate(from, to, fx)
<1>1. rate # T212!One /\ rate.n = fx /\ rate.from = from /\ rate.to = to
  BY DEF T212!FxRate, T212!One
<1> HIDE DEF rate
<1>2. CASE m = Null
  <2>1. T212!Exchanged(m, rate) = Null /\ Null.n = 0
    BY <1>2, SameForT212 DEF T212!Exchanged, Null, Money
  <2> QED
    BY <1>2, <2>1 DEF Labelled, rate
<1>3. CASE m # Null
  <2>1. T212!Exchanged(m, rate) = Money(m.n * fx, IF m.ccy = from THEN to ELSE "none")
    BY <1>1, <1>3, SameForT212 DEF T212!Exchanged
  <2>2. m.n = 0 => m.n * fx = 0
    BY Products
  <2> DEFINE made == T212!Exchanged(m, rate)
  <2>a. made = Money(m.n * fx, IF m.ccy = from THEN to ELSE "none")
    BY <2>1
  <2> HIDE DEF made
  <2>3. made.n = m.n * fx /\ made.ccy = IF m.ccy = from THEN to ELSE "none"
    BY <2>a, MoneyParts, Zenon
  <2>4. Labelled(made, to) /\ made.n = m.n * fx
    BY <2>2, <2>3 DEF Labelled
  <2> QED
    BY <2>4 DEF rate, made
<1> QED
  BY <1>2, <1>3

Order212(order) ==
    /\ order.security # "" /\ order.fx \in Nat
    /\ order.net.n \in Nat /\ Labelled(order.net, order.wallet)
    /\ order.filled.n \in Nat /\ Labelled(order.filled, order.security)

\* A commission or tax of an order, taken from the wallet.
LEMMA TaxesIn ==
  ASSUME NEW order, Order212(order), NEW names
  PROVE  \/ Labelled(T212!Exchanged(T212!TaxesNamed(order, names), T212!WalletRate(order)),
                     order.security)
         \/ order.fx = 0 /\ order.wallet # order.security
<1> DEFINE taken == T212!TaxesNamed(order, names)
<1>1. Labelled(taken, order.wallet)
  BY DEF T212!TaxesNamed, T212!Money, Labelled
<1> HIDE DEF taken
<1>2. CASE order.fx = 0
  <2>1. T212!Exchanged(taken, T212!WalletRate(order)) = taken
    BY <1>2 DEF T212!Exchanged, T212!WalletRate
  <2> QED
    BY <1>1, <1>2, <2>1 DEF taken
<1>3. CASE order.fx # 0
  <2>1. T212!WalletRate(order) = T212!FxRate(order.wallet, order.security, order.fx)
    BY <1>3 DEF T212!WalletRate
  <2>2. order.fx \in Nat /\ order.security # ""
    BY DEF Order212
  <2>4. Labelled(T212!Exchanged(taken, T212!FxRate(order.wallet, order.security, order.fx)),
                 order.security)
    BY <1>1, <1>3, <2>2, ExchangedIs
  <2> QED
    BY <2>1, <2>4 DEF taken
<1> QED
  BY <1>2, <1>3

\* What an order moved: without netValue and with a rate it is multiplied twice.
LEMMA MovedIn ==
  ASSUME NEW order, Order212(order)
  PROVE  LET moved == T212!Exchanged(T212!Coalesce(order.net, order.filled, T212!Null),
                                     T212!WalletRate(order))
         IN  /\ moved.n \in Nat
             /\ \/ Labelled(moved, order.security)
                \/ order.fx = 0 /\ order.wallet # order.security
                \/ order.net = Null /\ order.fx # 0
<1> DEFINE given == T212!Coalesce(order.net, order.filled, T212!Null)
           moved == T212!Exchanged(given, T212!WalletRate(order))
<1>1. /\ given.n \in Nat
      /\ order.net # Null => given = order.net
      /\ order.net = Null => given = order.filled
  BY SameForT212 DEF T212!Coalesce, Order212
<1>2. /\ order.security # "" /\ order.fx \in Nat /\ Labelled(order.net, order.wallet)
      /\ Labelled(order.filled, order.security)
  BY DEF Order212
<1> HIDE DEF given
<1>3. CASE order.fx = 0
  <2>1. moved = given
    BY <1>3 DEF T212!Exchanged, T212!WalletRate
  <2> HIDE DEF moved
  <2>2. Labelled(moved, order.security) \/ order.wallet # order.security
    BY <1>1, <1>2, <2>1
  <2> QED
    BY <1>1, <1>3, <2>1, <2>2 DEF moved, given
<1>4. CASE order.fx # 0
  <2>1. T212!WalletRate(order) = T212!FxRate(order.wallet, order.security, order.fx)
    BY <1>4 DEF T212!WalletRate
  <2>2. moved.n \in Nat
    <3>1. moved.n = given.n \/ moved.n = given.n * order.fx
      BY <2>1 DEF T212!Exchanged, T212!FxRate, T212!Money
    <3>2. given.n * order.fx \in Nat
      BY <1>1, <1>2, Products
    <3> HIDE DEF moved
    <3> QED
      BY <1>1, <3>1, <3>2
  <2>3. order.net # Null => Labelled(moved, order.security)
    <3>2. order.net # Null => Labelled(given, order.wallet)
      BY <1>1, <1>2
    <3>3. ASSUME Labelled(given, order.wallet) PROVE Labelled(moved, order.security)
      <4>1. Labelled(T212!Exchanged(given, T212!FxRate(order.wallet, order.security, order.fx)),
                     order.security)
        BY <1>2, <1>4, <3>3, ExchangedIs
      <4> QED
        BY <2>1, <4>1
    <3> QED
      BY <3>2, <3>3
  <2> QED
    BY <1>4, <2>2, <2>3 DEF moved, given
<1> QED
  BY <1>3, <1>4

LEMMA NothingIsLabelled == Null.n = 0 /\ \A ccy : Labelled(Null, ccy)
  BY DEF Null, Money, Labelled

\* The exceptions AmountsAsLabelled makes of an order are those of its event.
LEMMA Excepted ==
  ASSUME "trading212" \in DOMAIN report, NEW order \in ToSet(report.trading212.orders)
  PROVE  LET e == T212!OrderEvent(order)
         IN  /\ order.net = Null /\ order.fx # 0 => e \in TwiceConverted
             /\ order.fx = 0 /\ order.wallet # order.security => e \in Unrated
  BY DEF TwiceConverted, Unrated, OrderEvents

LEMMA OrderRow ==
  ASSUME "trading212" \in DOMAIN report, NEW order \in ToSet(report.trading212.orders),
         Order212(order)
  PROVE  LET e == T212!OrderEvent(order) IN e.broker = T212!Broker /\ Sound(e)
<1> DEFINE e == T212!OrderEvent(order)
           moved == T212!Exchanged(T212!Coalesce(order.net, order.filled, T212!Null),
                                   T212!WalletRate(order))
<1>1. /\ e.broker = T212!Broker /\ e.ccy = order.security /\ e.side = order.side
      /\ e.amount = T212!Signed(moved, order.side)
      /\ e.fee = T212!Exchanged(T212!TaxesNamed(order, T212!FeeNames), T212!WalletRate(order))
      /\ e.tax = T212!Exchanged(T212!TaxesNamed(order, T212!TaxNames), T212!WalletRate(order))
  BY DEF T212!OrderEvent, T212!NoEvent, T212!Coalesce, T212!Fee, Order212
<1>2. /\ order.net = Null /\ order.fx # 0 => e \in TwiceConverted
      /\ order.fx = 0 /\ order.wallet # order.security => e \in Unrated
  BY Excepted
<1>3. Labelled(e.fee, e.ccy) \/ e \in Unrated
  BY <1>1, <1>2, TaxesIn
<1>4. Labelled(e.tax, e.ccy) \/ e \in Unrated
  BY <1>1, <1>2, TaxesIn
<1>5. /\ moved.n \in Nat
      /\ \/ Labelled(moved, order.security)
         \/ order.fx = 0 /\ order.wallet # order.security
         \/ order.net = Null /\ order.fx # 0
  BY MovedIn
<1>6. IF order.side = "BUY" THEN e.amount.n = -moved.n /\ e.amount.ccy = moved.ccy
      ELSE e.amount = moved
  <2>1. e.amount = IF order.side = "BUY" THEN Money(-moved.n, moved.ccy) ELSE moved
    BY <1>1, SameForT212 DEF T212!Signed
  <2> HIDE DEF e, moved
  <2>2. ASSUME order.side = "BUY" PROVE e.amount.n = -moved.n /\ e.amount.ccy = moved.ccy
    <3>1. e.amount = Money(-moved.n, moved.ccy)
      BY <2>1, <2>2
    <3>2. Money(-moved.n, moved.ccy).n = -moved.n /\ Money(-moved.n, moved.ccy).ccy = moved.ccy
      BY MoneyParts
    <3> QED
      BY <3>1, <3>2
  <2> QED
    BY <2>1, <2>2
<1> HIDE DEF e, moved
<1>7. (e.side = "BUY" => e.amount.n <= 0) /\ (e.side = "SELL" => e.amount.n >= 0)
  <2>1. -moved.n <= 0 /\ moved.n >= 0
    BY <1>5
  <2> QED
    BY <1>1, <1>6, <2>1
<1>8. Labelled(e.amount, e.ccy) \/ e \in TwiceConverted \cup Unrated
  <2>1. moved.n = 0 => e.amount.n = 0
    BY <1>5, <1>6
  <2>2. e.amount.ccy = moved.ccy
    BY <1>6
  <2> QED
    BY <1>1, <1>2, <1>5, <2>1, <2>2 DEF Labelled
<1>9. Sound(e)
  BY <1>3, <1>4, <1>7, <1>8 DEF Sound
<1> QED
  BY <1>1, <1>9 DEF e

LEMMA OtherRows212 ==
  ASSUME NEW item
  PROVE  /\ item.currency # "" /\ Labelled(item.amount, item.currency) =>
                LET e == T212!DividendEvent(item) IN e.broker = T212!Broker /\ Sound(e)
         /\ Labelled(item.amount, item.currency) =>
                LET e == T212!TransactionEvent(item) IN e.broker = T212!Broker /\ Sound(e)
<1>1. item.currency # "" =>
          LET e == T212!DividendEvent(item)
          IN  /\ e.broker = T212!Broker /\ e.ccy = item.currency /\ e.amount = item.amount
              /\ e.fee = Null /\ e.tax = Null /\ e.side = ""
  BY SameForT212 DEF T212!DividendEvent, T212!NoEvent, T212!Coalesce
<1>2. LET e == T212!TransactionEvent(item)
      IN  /\ e.broker = T212!Broker /\ e.ccy = item.currency /\ e.amount = item.amount
          /\ e.fee = Null /\ e.tax = Null /\ e.side = ""
  BY SameForT212 DEF T212!TransactionEvent, T212!NoEvent
<1> QED
  BY <1>1, <1>2, NothingIsLabelled DEF Sound

\* The rows of the three endpoints, before they are deduplicated.
Rows212(answer) ==
    T212!Mapped(T212!OrderEvent, answer.orders) \o T212!Mapped(T212!DividendEvent, answer.dividends)
        \o T212!Mapped(T212!TransactionEvent, answer.transactions)

LEMMA T212Rows ==
  ASSUME "trading212" \in DOMAIN report, T212!Credible(report.trading212)
  PROVE  LET rows == Rows212(report.trading212)
         IN  IsList(rows) /\ \A e \in ToSet(rows) : e.broker = T212!Broker /\ Sound(e)
<1> DEFINE given == report.trading212
           orders == [n \in DOMAIN given.orders |-> T212!OrderEvent(given.orders[n])]
           dividends == [n \in DOMAIN given.dividends |-> T212!DividendEvent(given.dividends[n])]
           others == [n \in DOMAIN given.transactions |->
                         T212!TransactionEvent(given.transactions[n])]
           good(e) == e.broker = T212!Broker /\ Sound(e)
<1>1. Rows212(given) = orders \o dividends \o others
  BY DEF Rows212, T212!Mapped
<1>2. IsList(given.orders) /\ IsList(given.dividends) /\ IsList(given.transactions)
  BY SameForT212, ListsAre DEF T212!Credible
<1>3. /\ \A t \in ToSet(given.orders) : Order212(t)
      /\ \A t \in ToSet(given.dividends) : t.currency # "" /\ Labelled(t.amount, t.currency)
      /\ \A t \in ToSet(given.transactions) : Labelled(t.amount, t.currency)
  BY SameForT212 DEF T212!Credible, Order212
<1>4. IsList(orders) /\ IsList(dividends) /\ IsList(others)
  BY <1>2, ListsAre
<1>5. \A e \in ToSet(orders) : good(e)
  <2>1. \A t \in ToSet(given.orders) : good(T212!OrderEvent(t))
    BY <1>3, OrderRow
  <2>2. \A n \in DOMAIN given.orders : orders[n] = T212!OrderEvent(given.orders[n])
    OBVIOUS
  <2>3. \A e \in ToSet(orders) : \E n \in DOMAIN given.orders :
            e = orders[n] /\ given.orders[n] \in ToSet(given.orders)
    BY EachMade
  <2> HIDE DEF good, orders
  <2> QED
    BY <2>1, <2>2, <2>3
<1>6. \A e \in ToSet(dividends) : good(e)
  <2>1. \A t \in ToSet(given.dividends) : good(T212!DividendEvent(t))
    BY <1>3, OtherRows212
  <2>2. \A n \in DOMAIN given.dividends : dividends[n] = T212!DividendEvent(given.dividends[n])
    OBVIOUS
  <2>3. \A e \in ToSet(dividends) : \E n \in DOMAIN given.dividends :
            e = dividends[n] /\ given.dividends[n] \in ToSet(given.dividends)
    BY EachMade
  <2> HIDE DEF good, dividends
  <2> QED
    BY <2>1, <2>2, <2>3
<1>7. \A e \in ToSet(others) : good(e)
  <2>1. \A t \in ToSet(given.transactions) : good(T212!TransactionEvent(t))
    BY <1>3, OtherRows212
  <2>2. \A n \in DOMAIN given.transactions : others[n] = T212!TransactionEvent(given.transactions[n])
    OBVIOUS
  <2>3. \A e \in ToSet(others) : \E n \in DOMAIN given.transactions :
            e = others[n] /\ given.transactions[n] \in ToSet(given.transactions)
    BY EachMade
  <2> HIDE DEF good, others
  <2> QED
    BY <2>1, <2>2, <2>3
<1> HIDE DEF orders, dividends, others, good
<1>8. IsList(orders \o dividends) /\ \A e \in ToSet(orders \o dividends) : good(e)
  BY <1>4, <1>5, <1>6, Joined
<1>9. IsList(orders \o dividends \o others) /\ \A e \in ToSet(orders \o dividends \o others) : good(e)
  BY <1>4, <1>7, <1>8, Joined
<1> QED
  BY <1>1, <1>9 DEF good

LEMMA T212Snapshot ==
  ASSUME NEW given, T212!Credible(given)
  PROVE  LET rows == T212!Snapshot(given)
         IN  IsList(rows) /\ \A h \in ToSet(rows) : h.broker = T212!Broker /\ WellHeld(h)
<1> DEFINE worthPlaces == {n \in DOMAIN given.positions : given.positions[n].value.n # 0}
           worth == Picked(given.positions, worthPlaces)
           equity(p) == T212!Position(T212!Broker, "EQUITY", p.ticker, p.value, p.currency)
           cash == T212!Position(T212!Broker, "CASH", "CASH", given.cash, given.cash.ccy)
           held == [n \in DOMAIN worth |-> equity(worth[n])]
           good(h) == h.broker = T212!Broker /\ WellHeld(h)
           rest == IF given.cash.n = 0 THEN <<>> ELSE <<cash>>
<1>1. T212!Snapshot(given) = <<>> \/ T212!Snapshot(given) = held \o rest
  BY SameForT212 DEF T212!Snapshot, T212!Passing, T212!Mapped
<1>2. IsList(worth) /\ \A p \in ToSet(worth) : p \in ToSet(given.positions)
  <2>1. IsList(given.positions) /\ worthPlaces \in SUBSET DOMAIN given.positions
    BY SameForT212, ListsAre DEF T212!Credible
  <2> HIDE DEF worthPlaces
  <2> QED
    BY <2>1, PickedList DEF ToSet
<1> HIDE DEF worth
<1>3. \A p \in ToSet(given.positions) : good(equity(p))
  <2>1. \A p \in ToSet(given.positions) : Labelled(p.value, p.currency)
    BY SameForT212 DEF T212!Credible
  <2> QED
    BY <2>1 DEF T212!Position, WellHeld
<1>4. good(cash)
  BY DEF T212!Position, WellHeld, Labelled
<1>5. IsList(held) /\ \A h \in ToSet(held) : good(h)
  <2>1. IsList(held)
    BY <1>2, ListsAre
  <2>2. \A n \in DOMAIN worth : held[n] = equity(worth[n])
    OBVIOUS
  <2>3. \A h \in ToSet(held) : \E n \in DOMAIN worth : h = held[n] /\ worth[n] \in ToSet(worth)
    BY EachMade
  <2> HIDE DEF good, held, equity
  <2> QED
    BY <1>2, <1>3, <2>1, <2>2, <2>3
<1>6. IsList(rest) /\ \A h \in ToSet(rest) : good(h)
  <2> HIDE DEF cash, good
  <2>1. IsList(<<cash>>) /\ ToSet(<<cash>>) = {cash}
    BY OneElement
  <2> QED
    BY <1>4, <2>1, EmptyList
<1> HIDE DEF held, rest, good
<1>7. IsList(held \o rest) /\ \A h \in ToSet(held \o rest) : good(h)
  BY <1>5, <1>6, Joined
<1> QED
  BY <1>1, <1>7, EmptyList DEF good

---------------------------------------------------------------------------
(* XTB.                                                                    *)

\* The rows that are operations, and the closed positions, are rows of their sheets.
LEMMA PassingXtb ==
  ASSUME NEW book, Xtb!Credible(book)
  PROVE  /\ IsList(Xtb!CashOperations(book))
         /\ ToSet(Xtb!CashOperations(book)) =
                {Xtb!CashRows(book)[n] :
                    n \in {k \in DOMAIN Xtb!CashRows(book) : Xtb!IsOperation(Xtb!CashRows(book)[k])}}
         /\ IsList(Xtb!ClosedPositions(book))
         /\ \A row \in ToSet(Xtb!ClosedPositions(book)) :
                Xtb!Has(book, "closed") /\ row \in ToSet(book.closed.rows)
         /\ IsList(Xtb!OpenPositions(book))
         /\ \A row \in ToSet(Xtb!OpenPositions(book)) :
                Xtb!Has(book, "open") /\ row \in ToSet(book.open.rows)
<1> DEFINE rows == Xtb!CashRows(book)
           closed == Xtb!ClosedRows(book)
           positions == Xtb!ClosedPositions(book)
<1>1. /\ IsList(rows)
      /\ Xtb!Has(book, "closed") => IsList(book.closed.rows)
      /\ Xtb!Has(book, "open") => IsList(book.open.rows)
  BY SameForXtb, ListsAre DEF Xtb!Credible
<1>2. /\ IsList(Xtb!CashOperations(book))
      /\ ToSet(Xtb!CashOperations(book)) =
             {rows[n] : n \in {k \in DOMAIN rows : Xtb!IsOperation(rows[k])}}
  <2> DEFINE places == {k \in DOMAIN rows : Xtb!IsOperation(rows[k])}
  <2>1. Xtb!CashOperations(book) = Picked(rows, places)
    BY SameForXtb DEF Xtb!CashOperations, Xtb!Passing
  <2>2. places \in SUBSET DOMAIN rows
    OBVIOUS
  <2> HIDE DEF places, rows
  <2>3. IsList(Picked(rows, places)) /\ ToSet(Picked(rows, places)) = {rows[n] : n \in places}
    BY <1>1, <2>2, PickedList
  <2> QED
    BY <2>1, <2>3 DEF places
<1>3. IsList(closed) /\ \A row \in ToSet(closed) :
          Xtb!Has(book, "closed") /\ row \in ToSet(book.closed.rows)
  <2>1. CASE ~Xtb!Has(book, "closed")
    <3>1. closed = <<>>
      BY <2>1 DEF Xtb!ClosedRows
    <3> QED
      BY <3>1, EmptyList
  <2>2. CASE Xtb!Has(book, "closed")
    <3> DEFINE places == {k \in DOMAIN book.closed.rows :
                             /\ book.closed.rows[k].instrument \notin {"", "Profit/loss", "Total"}
                             /\ book.closed.rows[k].position # ""}
    <3>1. closed = Picked(book.closed.rows, places)
      BY <2>2, SameForXtb DEF Xtb!ClosedRows, Xtb!Passing
    <3>2. places \in SUBSET DOMAIN book.closed.rows
      OBVIOUS
    <3> HIDE DEF places
    <3>3. IsList(book.closed.rows)
      BY <1>1, <2>2
    <3> HIDE DEF closed
    <3> QED
      BY <2>2, <3>1, <3>2, <3>3, PickedList DEF ToSet
  <2> QED
    BY <2>1, <2>2
<1>4. IsList(positions) /\ \A row \in ToSet(positions) : row \in ToSet(closed)
  <2> DEFINE places == {k \in DOMAIN closed : closed[k].time # 0}
  <2>1. positions = Picked(closed, places)
    BY SameForXtb DEF Xtb!ClosedPositions, Xtb!Passing
  <2>2. places \in SUBSET DOMAIN closed
    OBVIOUS
  <2> HIDE DEF places, closed
  <2> QED
    BY <1>3, <2>1, <2>2, PickedList DEF ToSet
<1>5. IsList(Xtb!OpenPositions(book)) /\ \A row \in ToSet(Xtb!OpenPositions(book)) :
          Xtb!Has(book, "open") /\ row \in ToSet(book.open.rows)
  <2>1. CASE ~Xtb!Has(book, "open")
    <3>1. Xtb!OpenPositions(book) = <<>>
      BY <2>1 DEF Xtb!OpenPositions
    <3> QED
      BY <3>1, EmptyList
  <2>2. CASE Xtb!Has(book, "open")
    <3> DEFINE places == {k \in DOMAIN book.open.rows :
                             /\ book.open.rows[k].type = "" /\ book.open.rows[k].ticker # ""
                             /\ book.open.rows[k].value.n # 0}
    <3>1. Xtb!OpenPositions(book) = Picked(book.open.rows, places)
      BY <2>2, SameForXtb DEF Xtb!OpenPositions, Xtb!Passing
    <3>2. places \in SUBSET DOMAIN book.open.rows
      OBVIOUS
    <3> HIDE DEF places
    <3> QED
      BY <1>1, <2>2, <3>1, <3>2, PickedList DEF ToSet
  <2> QED
    BY <2>1, <2>2
<1> QED
  BY <1>2, <1>3, <1>4, <1>5

LEMMA FeeIsLabelled ==
  ASSUME NEW book, Xtb!Credible(book), Xtb!Has(book, "open"), NEW op
  PROVE  Labelled(Xtb!FeeOf(book, op), Xtb!AccountCurrency(book))
<1> DEFINE positions == Xtb!ClosedPositions(book)
           by == Xtb!ClosedBy(book, op)
<1>1. CASE ~(Xtb!IsSale(op) /\ by # {})
  BY <1>1, SameForXtb, NothingIsLabelled DEF Xtb!FeeOf
<1>2. CASE Xtb!IsSale(op) /\ by # {}
  <2>1. Xtb!FeeOf(book, op) = positions[Xtb!Max(by)].commission
    BY <1>2 DEF Xtb!FeeOf
  <2>2. by \in SUBSET DOMAIN positions
    BY DEF Xtb!ClosedBy
  <2>3. PICK len \in Nat : DOMAIN positions = 1 .. len
    BY PassingXtb, ListsAre
  <2> HIDE DEF positions, by
  <2>4. \E x \in by : \A y \in by : x >= y
    BY <1>2, <2>2, <2>3, Greatest
  <2>5. Xtb!Max(by) \in by
    BY <2>4 DEF Xtb!Max
  <2>6. positions[Xtb!Max(by)] \in ToSet(positions)
    BY <2>2, <2>5 DEF ToSet
  <2>7. /\ Xtb!Has(book, "closed")
        /\ positions[Xtb!Max(by)] \in ToSet(book.closed.rows)
    BY <2>6, PassingXtb DEF positions
  <2> QED
    BY <2>1, <2>7, SameForXtb DEF Xtb!Credible
<1> QED
  BY <1>1, <1>2

LEMMA OperationRow ==
  ASSUME NEW book, Xtb!Credible(book), NEW op \in ToSet(Xtb!CashRows(book))
  PROVE  LET e == Xtb!OperationEvent(book, op) IN e.broker = Xtb!Broker /\ Sound(e)
<1> DEFINE e == Xtb!OperationEvent(book, op)
<1>1. /\ e.broker = Xtb!Broker /\ e.ccy = Xtb!AccountCurrency(book) /\ e.amount = op.amount
      /\ e.fee = Xtb!FeeOf(book, op) /\ e.tax = Null
      /\ e.side = (IF Xtb!IsTrade(op) THEN op.comment ELSE "")
  BY SameForXtb DEF Xtb!OperationEvent, Xtb!NoEvent
<1>2. /\ op.amount.n \in Int
      /\ Xtb!Has(book, "open") => Labelled(op.amount, Xtb!AccountCurrency(book))
      /\ op.comment = "BUY" => op.amount.n <= 0
      /\ op.comment = "SELL" => op.amount.n >= 0
  BY SameForXtb DEF Xtb!Credible
<1>3. ~Xtb!Has(book, "open") => Xtb!AccountCurrency(book) = ""
  BY DEF Xtb!AccountCurrency
<1>4. Xtb!Has(book, "open") => Labelled(Xtb!FeeOf(book, op), Xtb!AccountCurrency(book))
  BY FeeIsLabelled
<1> HIDE DEF e
<1>5. Sound(e)
  BY <1>1, <1>2, <1>3, <1>4, NothingIsLabelled DEF Sound
<1> QED
  BY <1>1, <1>5 DEF e

XtbRows(book) ==
    [n \in DOMAIN Xtb!CashOperations(book) |->
        Xtb!OperationEvent(book, Xtb!CashOperations(book)[n])]

LEMMA XtbRowsAre ==
  ASSUME NEW book, Xtb!Credible(book)
  PROVE  /\ IsList(XtbRows(book))
         /\ \A e \in ToSet(XtbRows(book)) : e.broker = Xtb!Broker /\ Sound(e)
         /\ ToSet(XtbRows(book)) =
                {Xtb!OperationEvent(book, op) : op \in ToSet(Xtb!CashOperations(book))}
<1> DEFINE operations == Xtb!CashOperations(book)
           good(e) == e.broker = Xtb!Broker /\ Sound(e)
<1>1. IsList(operations) /\ \A op \in ToSet(operations) : op \in ToSet(Xtb!CashRows(book))
  BY PassingXtb DEF ToSet
<1>2. IsList(XtbRows(book))
  BY <1>1, ListsAre DEF XtbRows
<1>3. ToSet(XtbRows(book)) = {Xtb!OperationEvent(book, op) : op \in ToSet(operations)}
  BY DEF XtbRows, ToSet
<1>4. \A op \in ToSet(operations) : good(Xtb!OperationEvent(book, op))
  BY <1>1, OperationRow
<1> HIDE DEF good
<1>5. \A e \in ToSet(XtbRows(book)) : good(e)
  BY <1>3, <1>4
<1> QED
  BY <1>2, <1>3, <1>5 DEF good

LEMMA XtbSnapshot ==
  ASSUME NEW book, Xtb!Credible(book)
  PROVE  LET rows == Xtb!Snapshot(book)
             ccy == Xtb!AccountCurrency(book)
             held == [n \in DOMAIN Xtb!OpenPositions(book) |->
                         Xtb!Position(Xtb!Broker, "EQUITY", Xtb!OpenPositions(book)[n].ticker,
                                      Xtb!OpenPositions(book)[n].value, ccy)]
             cash == Xtb!Position(Xtb!Broker, "CASH", "CASH", Xtb!FreeCash(book), ccy)
         IN  /\ rows = held \o (IF Xtb!FreeCash(book) = Null THEN <<>> ELSE <<cash>>)
             /\ IsList(held) /\ \A h \in ToSet(held) : h.type = "EQUITY"
             /\ IsList(rows) /\ \A h \in ToSet(rows) : h.broker = Xtb!Broker /\ WellHeld(h)
<1> DEFINE rows == Xtb!Snapshot(book)
           ccy == Xtb!AccountCurrency(book)
           open == Xtb!OpenPositions(book)
           equity(row) == Xtb!Position(Xtb!Broker, "EQUITY", row.ticker, row.value, ccy)
           held == [n \in DOMAIN open |-> equity(open[n])]
           cash == Xtb!Position(Xtb!Broker, "CASH", "CASH", Xtb!FreeCash(book), ccy)
           rest == IF Xtb!FreeCash(book) = Null THEN <<>> ELSE <<cash>>
           good(h) == h.broker = Xtb!Broker /\ WellHeld(h)
<1>1. rows = held \o rest
  BY SameForXtb DEF Xtb!Snapshot
<1>2. IsList(open) /\ \A row \in ToSet(open) :
          Xtb!Has(book, "open") /\ row \in ToSet(book.open.rows)
  BY PassingXtb
<1>3. ~Xtb!Has(book, "open") => ccy = ""
  BY DEF Xtb!AccountCurrency
<1>4. Xtb!Has(book, "open") => \A row \in ToSet(book.open.rows) : Labelled(row.value, ccy)
  BY SameForXtb DEF Xtb!Credible
<1> HIDE DEF open, ccy
<1>5. \A row \in ToSet(open) : good(equity(row)) /\ equity(row).type = "EQUITY"
  BY <1>2, <1>4 DEF Xtb!Position, WellHeld
<1>6. IsList(held) /\ \A h \in ToSet(held) : good(h) /\ h.type = "EQUITY"
  <2>1. IsList(held)
    BY <1>2, ListsAre
  <2>2. \A n \in DOMAIN open : held[n] = equity(open[n])
    OBVIOUS
  <2>3. \A h \in ToSet(held) : \E n \in DOMAIN open : h = held[n] /\ open[n] \in ToSet(open)
    BY EachMade
  <2> HIDE DEF good, held, equity
  <2> QED
    BY <1>5, <2>1, <2>2, <2>3
<1>7. Xtb!FreeCash(book) # Null => good(cash)
  <2> SUFFICES ASSUME Xtb!FreeCash(book) # Null PROVE Labelled(Xtb!FreeCash(book), ccy) \/ ccy = ""
    BY DEF Xtb!Position, WellHeld
  <2> DEFINE entries == Xtb!CashRows(book)
             totals == {n \in DOMAIN entries : entries[n].type = "Total"}
  <2>1. totals # {} /\ Xtb!FreeCash(book) = entries[Xtb!Max(totals)].amount
    BY SameForXtb DEF Xtb!FreeCash
  <2>2. IsList(entries)
    BY SameForXtb, ListsAre DEF Xtb!Credible
  <2>3. PICK len \in Nat : DOMAIN entries = 1 .. len
    BY <2>2, ListsAre
  <2>4. totals \in SUBSET DOMAIN entries
    OBVIOUS
  <2> HIDE DEF totals, entries
  <2>5. \E x \in totals : \A y \in totals : x >= y
    BY <2>1, <2>3, <2>4, Greatest
  <2>6. Xtb!Max(totals) \in DOMAIN entries
    BY <2>4, <2>5 DEF Xtb!Max
  <2>7. entries[Xtb!Max(totals)] \in ToSet(entries)
    BY <2>6 DEF ToSet
  <2>8. Xtb!Has(book, "open") => \A row \in ToSet(entries) : Labelled(row.amount, ccy)
    BY SameForXtb DEF Xtb!Credible, entries, ccy
  <2> QED
    BY <1>3, <2>1, <2>7, <2>8
<1>8. IsList(rest) /\ \A h \in ToSet(rest) : good(h)
  <2> HIDE DEF cash, good
  <2> QED
    BY <1>7, OneElement, EmptyList
<1> HIDE DEF held, rest, good, cash
<1>9. IsList(held \o rest) /\ \A h \in ToSet(held \o rest) : good(h)
  BY <1>6, <1>8, Joined
<1>10. /\ rows = held \o rest /\ IsList(rows) /\ \A h \in ToSet(rows) : good(h)
       /\ IsList(held) /\ \A h \in ToSet(held) : h.type = "EQUITY"
  BY <1>1, <1>6, <1>9
<1> HIDE DEF rows
<1> QED
  BY <1>10 DEF good, rest, cash, ccy, open, held, rows

---------------------------------------------------------------------------
(* All brokers.                                                            *)

\* What is read is of the reports there are; analytics and conversions leave both alone.
Reported ==
    report \in Reports /\ opened \in Openings(report) /\ trades \in Consolidated(EventsRead)

\* Some of the reports, as they are.
OfReport(given) ==
    \A broker \in DOMAIN given : broker \in DOMAIN report /\ given[broker] = report[broker]

LEMMA ReadIsOfReport ==
  ASSUME Reported
  PROVE  OfReport(SnapshotsRead) /\ OfReport(EventsRead)
<1>1. opened.snapshots \subseteq DOMAIN report /\ opened.events \subseteq DOMAIN report
  BY DEF Reported, Openings
<1>2. \A S : DOMAIN Restrict(report, S) = S /\ \A b \in S : Restrict(report, S)[b] = report[b]
  BY DEF Restrict
<1> QED
  BY <1>1, <1>2 DEF OfReport, SnapshotsRead, EventsRead

LEMMA CredibleReports ==
  ASSUME Reported, NEW given, OfReport(given)
  PROVE  /\ "ibkr" \in DOMAIN given => Ibkr!Credible(given.ibkr)
         /\ "trading212" \in DOMAIN given =>
                /\ T212!Credible(given.trading212)
                /\ "trading212" \in DOMAIN report /\ given.trading212 = report.trading212
         /\ "xtb" \in DOMAIN given => Xtb!Credible(given.xtb)
  BY ReportsAreCredible DEF Reported, OfReport

LEMMA DedupedKeeps ==
  ASSUME NEW rows, IsList(rows), NEW identity, NEW table \in Deduped(rows, identity)
  PROVE  IsList(table) /\ ToSet(table) \subseteq ToSet(rows)
<1>1. PICK K \in SUBSET DOMAIN rows : table = Picked(rows, K)
  BY DEF Deduped
<1>2. IsList(table) /\ ToSet(table) = {rows[k] : k \in K}
  BY <1>1, PickedList
<1> QED
  BY <1>2 DEF ToSet

LEMMA IbkrTables ==
  ASSUME Reported, NEW given, OfReport(given),
         NEW table \in EventTablesOf(given, "ibkr")
  PROVE  IsList(table) /\ \A e \in ToSet(table) : e.broker = "IBKR" /\ Sound(e)
<1>1. CASE ~HasSilver(given, "ibkr")
  <2>1. table = <<>>
    BY <1>1 DEF EventTablesOf
  <2> QED
    BY <2>1, EmptyList
<1>2. CASE HasSilver(given, "ibkr")
  <2> DEFINE rows == Ibkr!Events(given.ibkr) \o <<>>
             ids == [n \in DOMAIN rows |-> Ibkr!Identity(rows[n])]
  <2>1. table \in Deduped(rows, ids)
    BY <1>2, SameForIbkr DEF EventTablesOf, Ibkr!EventTables
  <2>2. /\ IsList(Ibkr!Events(given.ibkr))
        /\ \A e \in ToSet(Ibkr!Events(given.ibkr)) : e.broker = Ibkr!Broker /\ Sound(e)
    BY <1>2, CredibleReports, IbkrRows DEF HasSilver
  <2>3. IsList(rows) /\ ToSet(rows) = ToSet(Ibkr!Events(given.ibkr))
    BY <2>2, EmptyList, Joined
  <2> HIDE DEF rows, ids
  <2>4. IsList(table) /\ ToSet(table) \subseteq ToSet(rows)
    BY <2>1, <2>3, DedupedKeeps
  <2> QED
    BY <2>2, <2>3, <2>4 DEF Ibkr!Broker
<1> QED
  BY <1>1, <1>2

LEMMA T212Tables ==
  ASSUME Reported, NEW given, OfReport(given),
         NEW table \in EventTablesOf(given, "trading212")
  PROVE  IsList(table) /\ \A e \in ToSet(table) : e.broker = "Trading 212" /\ Sound(e)
<1>1. CASE ~HasSilver(given, "trading212")
  <2>1. table = <<>>
    BY <1>1 DEF EventTablesOf
  <2> QED
    BY <2>1, EmptyList
<1>2. CASE HasSilver(given, "trading212")
  <2> DEFINE rows == Rows212(given.trading212)
             ids == T212!Mapped(T212!Identity, rows)
  <2>1. table \in Deduped(rows, ids)
    BY <1>2, SameForT212 DEF EventTablesOf, T212!EventTables, Rows212
  <2>2. IsList(rows) /\ \A e \in ToSet(rows) : e.broker = T212!Broker /\ Sound(e)
    BY <1>2, CredibleReports, T212Rows DEF HasSilver
  <2> HIDE DEF rows, ids
  <2>3. IsList(table) /\ ToSet(table) \subseteq ToSet(rows)
    BY <2>1, <2>2, DedupedKeeps
  <2> QED
    BY <2>2, <2>3 DEF T212!Broker
<1> QED
  BY <1>1, <1>2

LEMMA XtbTables ==
  ASSUME Reported, NEW given, OfReport(given),
         NEW table \in EventTablesOf(given, "xtb")
  PROVE  IsList(table) /\ \A e \in ToSet(table) : e.broker = "XTB" /\ Sound(e)
<1>1. CASE ~HasSilver(given, "xtb")
  <2>1. table = <<>>
    BY <1>1 DEF EventTablesOf
  <2> QED
    BY <2>1, EmptyList
<1>2. CASE HasSilver(given, "xtb")
  <2> DEFINE rows == XtbRows(given.xtb)
             ids == [n \in DOMAIN rows |-> Xtb!Identity(rows[n])]
  <2>1. table \in Deduped(rows, ids)
    BY <1>2, SameForXtb DEF EventTablesOf, Xtb!EventTables, XtbRows
  <2>2. IsList(rows) /\ \A e \in ToSet(rows) : e.broker = Xtb!Broker /\ Sound(e)
    BY <1>2, CredibleReports, XtbRowsAre DEF HasSilver
  <2> HIDE DEF rows, ids
  <2>3. IsList(table) /\ ToSet(table) \subseteq ToSet(rows)
    BY <2>1, <2>2, DedupedKeeps
  <2> QED
    BY <2>2, <2>3 DEF Xtb!Broker
<1> QED
  BY <1>1, <1>2

\* Before the events of all brokers are deduplicated once more.
AllRows(rows) ==
    \E i \in EventTablesOf(EventsRead, "ibkr"), t \in EventTablesOf(EventsRead, "trading212"),
       x \in EventTablesOf(EventsRead, "xtb") :
        /\ rows = i \o t \o x /\ IsList(rows)
        /\ ToSet(rows) = ToSet(i) \cup ToSet(t) \cup ToSet(x)
        /\ \A e \in ToSet(rows) : e.broker = "XTB" => e \in ToSet(x)
        /\ trades \in Deduped(rows, [n \in DOMAIN rows |-> Identity(rows[n])])

LEMMA TradesFrom ==
  ASSUME Reported
  PROVE  \E rows : AllRows(rows) /\ \A e \in ToSet(rows) : Sound(e)
<1>0. PICK all \in Concatenated(EventsRead) :
          trades \in Deduped(all, [n \in DOMAIN all |-> Identity(all[n])])
  BY DEF Reported, Consolidated
<1>1. PICK i \in EventTablesOf(EventsRead, "ibkr"), t \in EventTablesOf(EventsRead, "trading212"),
           x \in EventTablesOf(EventsRead, "xtb") : all = i \o t \o x
  BY DEF Concatenated
<1>2. IsList(i) /\ \A e \in ToSet(i) : e.broker = "IBKR" /\ Sound(e)
  BY IbkrTables, ReadIsOfReport
<1>3. IsList(t) /\ \A e \in ToSet(t) : e.broker = "Trading 212" /\ Sound(e)
  BY T212Tables, ReadIsOfReport
<1>4. IsList(x) /\ \A e \in ToSet(x) : e.broker = "XTB" /\ Sound(e)
  BY XtbTables, ReadIsOfReport
<1> DEFINE rows == i \o t \o x
<1>5. IsList(i \o t) /\ ToSet(i \o t) = ToSet(i) \cup ToSet(t)
  BY <1>2, <1>3, Joined
<1>6. IsList(rows) /\ ToSet(rows) = ToSet(i) \cup ToSet(t) \cup ToSet(x)
  BY <1>4, <1>5, Joined
<1>7. \A e \in ToSet(rows) : Sound(e) /\ (e.broker = "XTB" => e \in ToSet(x))
  BY <1>2, <1>3, <1>4, <1>6
<1>8. AllRows(rows)
  <2> HIDE DEF rows
  <2>1. rows = i \o t \o x
    BY DEF rows
  <2>2. trades \in Deduped(rows, [n \in DOMAIN rows |-> Identity(rows[n])])
    BY <1>0, <1>1 DEF rows
  <2> QED
    BY <1>6, <1>7, <2>1, <2>2 DEF AllRows
<1> HIDE DEF rows
<1> QED
  BY <1>7, <1>8

LEMMA TradesAreSound ==
  ASSUME Reported
  PROVE  IsList(trades) /\ \A n \in DOMAIN trades : Sound(trades[n])
<1>1. PICK rows : AllRows(rows) /\ \A e \in ToSet(rows) : Sound(e)
  BY TradesFrom
<1>2. IsList(rows) /\ trades \in Deduped(rows, [n \in DOMAIN rows |-> Identity(rows[n])])
  BY <1>1 DEF AllRows
<1>3. IsList(trades) /\ ToSet(trades) \subseteq ToSet(rows)
  BY <1>2, DedupedKeeps
<1>4. \A n \in DOMAIN trades : trades[n] \in ToSet(trades)
  BY DEF ToSet
<1> QED
  BY <1>1, <1>3, <1>4

LEMMA SnapshotsAre ==
  ASSUME Reported, NEW given, OfReport(given)
  PROVE  /\ IsList(SnapshotOf(given, "ibkr"))
         /\ \A h \in ToSet(SnapshotOf(given, "ibkr")) : h.broker = "IBKR" /\ WellHeld(h)
         /\ IsList(SnapshotOf(given, "trading212"))
         /\ \A h \in ToSet(SnapshotOf(given, "trading212")) :
                h.broker = "Trading 212" /\ WellHeld(h)
         /\ IsList(SnapshotOf(given, "xtb"))
         /\ \A h \in ToSet(SnapshotOf(given, "xtb")) : h.broker = "XTB" /\ WellHeld(h)
<1>1. /\ IsList(SnapshotOf(given, "ibkr"))
      /\ \A h \in ToSet(SnapshotOf(given, "ibkr")) : h.broker = "IBKR" /\ WellHeld(h)
  <2>1. \/ SnapshotOf(given, "ibkr") = <<>>
        \/ "ibkr" \in DOMAIN given /\ SnapshotOf(given, "ibkr") = Ibkr!Snapshot(given.ibkr)
    BY DEF SnapshotOf, HasSilver
  <2> QED
    BY <2>1, EmptyList, CredibleReports, IbkrSnapshot DEF Ibkr!Broker
<1>2. /\ IsList(SnapshotOf(given, "trading212"))
      /\ \A h \in ToSet(SnapshotOf(given, "trading212")) :
             h.broker = "Trading 212" /\ WellHeld(h)
  <2>1. \/ SnapshotOf(given, "trading212") = <<>>
        \/ /\ "trading212" \in DOMAIN given
           /\ SnapshotOf(given, "trading212") = T212!Snapshot(given.trading212)
    BY DEF SnapshotOf, HasSilver
  <2> QED
    BY <2>1, EmptyList, CredibleReports, T212Snapshot DEF T212!Broker
<1>3. /\ IsList(SnapshotOf(given, "xtb"))
      /\ \A h \in ToSet(SnapshotOf(given, "xtb")) : h.broker = "XTB" /\ WellHeld(h)
  <2>1. \/ SnapshotOf(given, "xtb") = <<>>
        \/ "xtb" \in DOMAIN given /\ SnapshotOf(given, "xtb") = Xtb!Snapshot(given.xtb)
    BY DEF SnapshotOf, HasSilver
  <2> QED
    BY <2>1, EmptyList, CredibleReports, XtbSnapshot DEF Xtb!Broker
<1> QED
  BY <1>1, <1>2, <1>3

LEMMA HoldingsAre ==
  ASSUME Reported
  PROVE  IsList(Holdings(SnapshotsRead)) /\ \A h \in ToSet(Holdings(SnapshotsRead)) : WellHeld(h)
<1> DEFINE i == SnapshotOf(SnapshotsRead, "ibkr")
           t == SnapshotOf(SnapshotsRead, "trading212")
           x == SnapshotOf(SnapshotsRead, "xtb")
<1>1. /\ IsList(i) /\ IsList(t) /\ IsList(x)
      /\ \A h \in ToSet(i) \cup ToSet(t) \cup ToSet(x) : WellHeld(h)
  BY SnapshotsAre, ReadIsOfReport
<1>2. Holdings(SnapshotsRead) = i \o t \o x
  BY DEF Holdings
<1> HIDE DEF i, t, x
<1>3. IsList(i \o t) /\ ToSet(i \o t) = ToSet(i) \cup ToSet(t)
  BY <1>1, Joined
<1>4. IsList(i \o t \o x) /\ ToSet(i \o t \o x) = ToSet(i) \cup ToSet(t) \cup ToSet(x)
  BY <1>1, <1>3, Joined
<1> QED
  BY <1>1, <1>2, <1>4

---------------------------------------------------------------------------
(* A consolidation only converts events that all have a currency.          *)

\* The rows behind the one that is due named theirs, and a request that failed was for one.
Named ==
    /\ pc = "events" => \A n \in 1 .. next - 1 : trades[n].ccy # ""
    /\ pc = "events" /\ GivenUp => next <= Len(trades) /\ trades[next].ccy # ""
    /\ events.to # "" => \A n \in 1 .. Len(trades) : trades[n].ccy # ""

LEMMA NamedStays ==
  ASSUME Types, Knows, Named, [Next]_vars
  PROVE  Named'
<1>0. Len(trades) \in Nat /\ next \in Nat /\ UNCHANGED trades
  BY Lists, TableSteps DEF Types
<1>1. CASE ConsolidateEvents
  <2>1. /\ pc' = "events" /\ next' = 1 /\ tries' = 0 /\ refused' = FALSE
        /\ events'.to = "" \/ trades = <<>>
    BY <1>1 DEF ConsolidateEvents, Enter
  <2>c. trades = <<>> => \A n \in 1 .. Len(trades) : FALSE
    OBVIOUS
  <2>a. next' = 1 /\ tries' = 0
    BY <2>1
  <2>b. ~refused'
    BY <2>1
  <2>2. ~GivenUp'
    BY <2>a, <2>b, RetriesAreNatural DEF GivenUp
  <2>3. \A n \in 1 .. next' - 1 : FALSE
    BY <2>a
  <2> QED
    BY <1>0, <2>1, <2>2, <2>3, <2>c DEF Named
<1>2. CASE WriteTargets
  <2>1. pc' = "idle" /\ pc = "events" /\ next > Len(trades)
    BY <1>2 DEF WriteTargets, Leave, Enter
  <2>2. \A n \in 1 .. Len(trades) : n \in 1 .. next - 1
    BY <1>0, <2>1
  <2>3. \A n \in 1 .. Len(trades) : trades[n].ccy # ""
    BY <2>1, <2>2 DEF Named
  <2> QED
    BY <1>0, <2>1, <2>3 DEF Named
<1>3. CASE ConvertEvent \/ EventUnknown
  <2>1. /\ pc = "events" /\ pc' = "events" /\ next <= Len(trades) /\ next' = next + 1
        /\ tries' = 0 /\ refused' = FALSE /\ UNCHANGED events
    BY <1>3 DEF ConvertEvent, EventUnknown, AtRow, NextRow, tables
  <2>2. trades[next].ccy # ""
    BY <1>3, <2>1 DEF ConvertEvent, EventUnknown, Named
  <2>3. \A n \in 1 .. next' - 1 : n = next \/ n \in 1 .. next - 1
    BY <1>0, <2>1
  <2>4. ~GivenUp'
    BY <2>1, RetriesAreNatural DEF GivenUp
  <2> QED
    BY <1>0, <2>1, <2>2, <2>3, <2>4 DEF Named
<1>4. ASSUME NEW c \in Currency, Fails(c) PROVE Named'
  <2>1. UNCHANGED <<pc, next, events>> /\ Asks(c)
    BY <1>4 DEF Fails, tables
  <2>2. pc = "events" => next <= Len(trades) /\ trades[next].ccy # ""
    BY <2>1 DEF Asks, AtRow
  <2> QED
    BY <1>0, <2>1, <2>2 DEF Named
<1>5. CASE TransformEvents \/ Published \/ \E c \in Currency : Answered(c)
  <2>1. UNCHANGED <<pc, next, tries, refused, events>>
    BY <1>5 DEF TransformEvents, Published, Answered, process, tables
  <2> QED
    BY <1>0, <2>1 DEF Named, GivenUp
<1>6. CASE StartRun \/ ConvertHolding \/ HoldingsFail \/ WriteHoldings \/ EventsFail \/ Killed
  <2>1. pc' # "events" /\ UNCHANGED events
    BY <1>6 DEF StartRun, ConvertHolding, HoldingsFail, WriteHoldings, EventsFail, Killed, Leave,
                Enter, AtRow, tables
  <2> QED
    BY <1>0, <2>1 DEF Named
<1>7. CASE UNCHANGED vars
  BY <1>7 DEF vars, process, tables, brokerData, Named, GivenUp
<1> QED
  BY <1>1, <1>2, <1>3, <1>4, <1>5, <1>6, <1>7 DEF Next, Request, Convert

---------------------------------------------------------------------------
(* Amounts and currencies: the gold tables.                                *)

\* Every table is empty or as its builder makes it, an event table of events that all name
\* their currency.
Filled ==
    /\ gold["portfolio_holdings"].rows \in {{}, HoldingRows}
    /\ \A name \in EventTables :
           \/ gold[name].rows = {}
           \/ gold[name].rows = EventRows(name) /\ \A n \in DOMAIN trades : trades[n].ccy # ""

Labelling == Reported /\ Named /\ Filled

LEMMA FilledStays ==
  ASSUME Types, Knows, Building, Named, Filled, [GoldNext]_goldVars
  PROVE  Filled'
<1>0. /\ UNCHANGED <<trades, report, opened>>
      /\ DOMAIN gold = Tables /\ due \in 0 .. 4
      /\ DOMAIN trades = 1 .. Len(trades)
  <2>1. [Next]_vars
    BY DEF GoldNext, goldVars, Pipeline, Analytics, StartAnalytics, Build, BuildFails,
           AnalyticsKilled
  <2>2. UNCHANGED trades
    BY <2>1, TableSteps
  <2>3. UNCHANGED <<report, opened>>
    BY DEF GoldNext, goldVars, Pipeline, Analytics, StartAnalytics, Build, BuildFails,
           AnalyticsKilled, reported
  <2>4. DOMAIN trades = 1 .. Len(trades)
    BY Lists DEF Types
  <2> QED
    BY <2>2, <2>3, <2>4, BuildersAre DEF Building
<1>1. HoldingRows' = HoldingRows /\ \A name \in EventTables : EventRows(name)' = EventRows(name)
  BY <1>0, RowsStay
<1>2. CASE UNCHANGED gold
  BY <1>0, <1>1, <1>2 DEF Filled
<1>3. CASE Build
  <2>1. due \in 1 .. 4 /\ Readable(Builders[due])
        /\ gold' = [gold EXCEPT ![Builders[due]] = Built(Builders[due])]
    BY <1>0, <1>3 DEF Build
  <2>2. PICK built \in Tables : built = Builders[due]
    BY <2>1, BuildersAre DEF Tables, EventTables
  <2>3. \A name \in Tables : gold'[name] = IF name = built THEN Built(built) ELSE gold[name]
    BY <1>0, <2>1, <2>2
  <2>4. gold'["portfolio_holdings"].rows \in {{}, HoldingRows}
    <3>1. "portfolio_holdings" \in Tables
      BY DEF Tables
    <3>2. CASE built = "portfolio_holdings"
      <4>1. Built(built).rows = HoldingRows
        BY <3>2 DEF Built
      <4> QED
        BY <2>3, <3>1, <3>2, <4>1
    <3>3. CASE built # "portfolio_holdings"
      <4>1. gold'["portfolio_holdings"] = gold["portfolio_holdings"]
        BY <2>3, <3>1, <3>3
      <4> QED
        BY <4>1 DEF Filled
    <3> QED
      BY <3>2, <3>3
  <2>5. ASSUME NEW name \in EventTables
        PROVE  \/ gold'[name].rows = {}
               \/ /\ gold'[name].rows = EventRows(name)
                  /\ \A n \in DOMAIN trades : trades[n].ccy # ""
    <3>1. CASE name # built
      BY <2>3, <3>1 DEF Filled, Tables
    <3>2. CASE name = built
      <4>1. name \in Tables /\ name # "portfolio_holdings"
        BY DEF Tables, EventTables
      <4>2. gold'[name].rows = EventRows(name)
        BY <2>3, <3>2, <4>1 DEF Built
      <4>3. events.to # ""
        BY <2>1, <2>2, <3>2, <4>1 DEF Readable
      <4> QED
        BY <1>0, <4>2, <4>3 DEF Named
    <3> QED
      BY <3>1, <3>2
  <2> HIDE DEF Tables
  <2> QED
    BY <1>0, <1>1, <2>4, <2>5 DEF Filled
<1> QED
  BY <1>2, <1>3 DEF GoldNext, Pipeline, Analytics, StartAnalytics, BuildFails, AnalyticsKilled,
                    goldVars, analytics

LEMMA LabellingStays ==
  ASSUME Converting, Building, Labelling, [GoldNext]_goldVars
  PROVE  Labelling'
<1>1. [Next]_vars /\ UNCHANGED <<report, opened>>
  BY DEF GoldNext, goldVars, Pipeline, Analytics, StartAnalytics, Build, BuildFails,
         AnalyticsKilled, reported
<1>2. Types /\ Knows /\ UNCHANGED trades
  BY <1>1, TableSteps DEF Converting
<1>3. Named'
  BY <1>1, <1>2, NamedStays DEF Labelling
<1>4. Filled'
  BY <1>2, FilledStays DEF Labelling
<1>5. Reported'
  BY <1>1, <1>2 DEF Labelling, Reported, EventsRead
<1> QED
  BY <1>3, <1>4, <1>5 DEF Labelling

\* A row of an event table is an amount of its currency, when its events name theirs and
\* none of them is an exception.
LEMMA RowIsLabelled ==
  ASSUME Reported, trades \in EventLists, \A n \in DOMAIN trades : trades[n].ccy # "",
         NEW name \in EventTables, NEW row \in EventRows(name),
         \A n \in row.members : trades[n] \notin TwiceConverted \cup Unrated
  PROVE  Labelled(row.cash, Last(row.key))
<1>1. PICK m \in Counted(name) : row = RowAt(name, Key(name, trades[m]))
  BY RowsAre
<1> DEFINE key == Key(name, trades[m])
           some == {n \in Members(name, key) : trades[n].amount.n # 0}
           ccys == {trades[n].amount.ccy : n \in some}
           c == trades[m].ccy
<1>2. row.key = key /\ row.members = Members(name, key) /\ row.cash = Added(some)
  BY <1>1 DEF RowAt
<1>3. Last(key) = c
  BY KeyParts
<1>4. \A n \in some : trades[n].amount.ccy = c
  <2> TAKE n \in some
  <2>1. n \in DOMAIN trades /\ Key(name, trades[n]) = key /\ n \in row.members
    BY <1>2 DEF Members, Counted
  <2>2. trades[n].ccy = c
    <3>1. Last(Key(name, trades[n])) = trades[n].ccy
      BY KeyParts
    <3> QED
      BY <1>3, <2>1, <3>1
  <2>3. Labelled(trades[n].amount, trades[n].ccy)
    BY <2>1, TradesAreSound DEF Sound
  <2> QED
    BY <2>2, <2>3 DEF Labelled
<1> HIDE DEF key, c
<1>5. CASE some = {}
  <2>1. Added(some).n = SumFunctionOnSet([n \in some |-> trades[n].amount.n], some)
    BY DEF Added, Money
  <2>2. Added(some).n = 0
    BY <1>5, <2>1, NoSum
  <2> QED
    BY <1>2, <2>2 DEF Labelled
<1>6. CASE some # {}
  <2>1. ccys = {c}
    BY <1>4, <1>6
  <2>2. Added(some).ccy = IF \E d \in ccys : ccys = {d} THEN CHOOSE d \in ccys : TRUE
                          ELSE IF some = {} THEN Null.ccy ELSE "none"
    BY DEF Added, Money
  <2> HIDE DEF some, ccys
  <2>3. Added(some).ccy = c
    BY <2>1, <2>2
  <2> QED
    BY <1>2, <1>3, <2>3 DEF Labelled
<1> QED
  BY <1>5, <1>6

LEMMA HoldingIsLabelled ==
  ASSUME Reported, NEW row \in HoldingRows
  PROVE  Labelled(row.cash, Last(row.key)) \/ Last(row.key) = ""
<1> DEFINE list == Holdings(SnapshotsRead)
<1>1. PICK n \in DOMAIN list :
          row = [key |-> <<list[n].type, list[n].broker, list[n].label, list[n].ccy>>,
                 members |-> {n}, cash |-> list[n].value]
  BY DEF HoldingRows
<1>2. WellHeld(list[n])
  BY HoldingsAre DEF ToSet
<1> HIDE DEF list
<1>3. row.cash = list[n].value /\ Last(row.key) = list[n].ccy
  BY <1>1 DEF Last
<1> QED
  BY <1>2, <1>3 DEF WellHeld

LEMMA LabelledIs ==
  ASSUME Building, Labelling
  PROVE  AmountsAsLabelled
<1>1. \A row \in gold["portfolio_holdings"].rows :
          Labelled(row.cash, Last(row.key)) \/ Last(row.key) = ""
  BY HoldingIsLabelled DEF Labelling, Filled
<1>2. DOMAIN gold \ {"portfolio_holdings"} = EventTables
  BY DEF Building, Tables, EventTables
<1>3. \A name \in EventTables : \A row \in gold[name].rows :
          \/ Labelled(row.cash, Last(row.key))
          \/ \E n \in row.members : trades[n] \in TwiceConverted \cup Unrated
  BY RowIsLabelled DEF Labelling, Filled, Building
<1>4. \A n \in DOMAIN trades : Sound(trades[n])
  BY TradesAreSound DEF Labelling
<1> QED
  BY <1>1, <1>2, <1>3, <1>4 DEF AmountsAsLabelled, Sound

LEMMA LabellingFromTheStart == GoldSpec => []Labelling
<1>1. GoldInit => Labelling
  <2> SUFFICES ASSUME GoldInit PROVE Labelling
    OBVIOUS
  <2>1. Reported
    BY DEF GoldInit, Reported
  <2>2. Named
    BY DEF GoldInit, Init, NoTable, Named
  <2>3. \A name \in Tables : gold[name].rows = {}
    <3>1. gold = [name \in Tables |-> NoGold]
      BY BuildersAre DEF GoldInit
    <3> QED
      BY <3>1 DEF NoGold
  <2>4. Filled
    BY <2>3 DEF Filled, Tables
  <2> QED
    BY <2>1, <2>2, <2>4 DEF Labelling
<1>2. Converting /\ Building /\ Labelling /\ [GoldNext]_goldVars => Labelling'
  BY LabellingStays
<1> QED
  BY <1>1, <1>2, GoldConverts, ConvertingFromTheStart, BuildingFromTheStart, PTL DEF GoldSpec

\* Whatever the brokers reported and however often it is converted and analysed, an amount
\* in gold is in the currency of its row, but for the exceptions the property names.
THEOREM GoldIsLabelled == GoldSpec => []AmountsAsLabelled
<1>1. Building /\ Labelling => AmountsAsLabelled
  BY LabelledIs
<1> QED
  BY <1>1, LabellingFromTheStart, BuildingFromTheStart, PTL

---------------------------------------------------------------------------
(* XTB's cash, added up.                                                   *)

\* The places of a workbook's operations, their events, and the events in silver.
Operations(book) == {n \in DOMAIN Xtb!CashRows(book) : Xtb!IsOperation(Xtb!CashRows(book)[n])}
EventOf(book, n) == Xtb!OperationEvent(book, Xtb!CashRows(book)[n])
OfXtb == {n \in DOMAIN trades : trades[n].broker = "XTB"}

LEMMA EventParts ==
  ASSUME NEW book, NEW n
  PROVE  LET e == EventOf(book, n)
         IN  /\ e.broker = "XTB" /\ e.month = Xtb!CashRows(book)[n].time
             /\ e.amount = Xtb!CashRows(book)[n].amount
  BY DEF EventOf, Xtb!OperationEvent, Xtb!NoEvent, Xtb!Broker

\* No two operations of the whole history have the same identity.
LEMMA OperationsDiffer ==
  ASSUME NEW book, WholeHistory(book)
  PROVE  \A m, n \in Operations(book) :
             Xtb!Identity(EventOf(book, m)) = Xtb!Identity(EventOf(book, n)) => m = n
<1> DEFINE rows == Xtb!CashRows(book)
           entries == {n \in DOMAIN rows : rows[n].type \notin {"", "Total"}}
<1>1. \A m, n \in entries :
          Xtb!Identity(EventOf(book, m)) = Xtb!Identity(EventOf(book, n)) => m = n
  BY DEF WholeHistory, EventOf
<1>2. Operations(book) \subseteq entries
  BY DEF Operations, Xtb!IsOperation
<1> QED
  BY <1>1, <1>2

\* Their amounts add up to what its last Total says.
LEMMA OperationsAddUp ==
  ASSUME NEW book, Xtb!Credible(book), WholeHistory(book),
         NEW f, f = [n \in DOMAIN Xtb!CashRows(book) |-> Xtb!CashRows(book)[n].amount.n]
  PROVE  /\ SumFunctionOnSet(f, Operations(book)) = Xtb!FreeCash(book).n
         /\ IsFiniteSet(Operations(book)) /\ \A n \in Operations(book) : f[n] \in Int
<1> DEFINE rows == Xtb!CashRows(book)
           O == Operations(book)
           entries == {n \in DOMAIN rows : rows[n].type \notin {"", "Total"}}
           moves == {n \in entries : rows[n].type = "Subaccount transfer"}
           amounts(S) == [n \in S |-> rows[n].amount.n]
<1>1. /\ Xtb!FreeCash(book).n = SumFunctionOnSet(amounts(entries), entries)
      /\ SumFunctionOnSet(amounts(moves), moves) = 0
      /\ \A n \in entries : rows[n].time # 0
  BY DEF WholeHistory
<1>2. entries = O \cup moves /\ O \intersect moves = {} /\ entries \subseteq DOMAIN rows
  BY <1>1 DEF Operations, Xtb!IsOperation
<1>3. IsFiniteSet(DOMAIN rows) /\ \A n \in DOMAIN rows : f[n] \in Int
  <2>1. IsList(rows)
    BY SameForXtb, ListsAre DEF Xtb!Credible
  <2>2. PICK len \in Nat : DOMAIN rows = 1 .. len
    BY <2>1, ListsAre
  <2>3. \A row \in ToSet(rows) : row.amount.n \in Int
    BY SameForXtb DEF Xtb!Credible
  <2>4. \A n \in DOMAIN rows : rows[n] \in ToSet(rows)
    BY DEF ToSet
  <2> HIDE DEF rows
  <2>5. \A n \in DOMAIN rows : f[n] = rows[n].amount.n
    BY DEF rows
  <2>6. IsFiniteSet(1 .. len)
    BY FS_Interval
  <2> QED
    BY <2>2, <2>3, <2>4, <2>5, <2>6
<1>4. IsFiniteSet(entries) /\ IsFiniteSet(O) /\ IsFiniteSet(moves)
  BY <1>2, <1>3, FS_Subset
<1>5. \A S \in SUBSET DOMAIN rows : \A n \in S : amounts(S)[n] = f[n]
  OBVIOUS
<1>6. entries \in SUBSET DOMAIN rows /\ moves \in SUBSET DOMAIN rows
  OBVIOUS
<1> HIDE DEF amounts, entries, moves, O, rows
<1>7. /\ SumFunctionOnSet(amounts(entries), entries) = SumFunctionOnSet(f, entries)
      /\ SumFunctionOnSet(amounts(moves), moves) = SumFunctionOnSet(f, moves)
  BY <1>4, <1>5, <1>6, SameSum
<1>8. \A n \in O \cup moves : f[n] \in Int
  BY <1>2, <1>3
<1>9. SumFunctionOnSet(f, O \cup moves) = SumFunctionOnSet(f, O) + SumFunctionOnSet(f, moves)
  BY <1>2, <1>4, <1>8, SumOfBoth
<1>10. SumFunctionOnSet(f, O) \in Int
  BY <1>4, <1>8, SumTakes
<1> QED
  BY <1>1, <1>2, <1>4, <1>7, <1>8, <1>9, <1>10 DEF O

\* Every operation of the whole history is one event in silver, whatever the other brokers
\* reported and whichever row a dedup keeps.
LEMMA EachOperationOnce ==
  ASSUME Reported, HasSilver(EventsRead, "xtb"), WholeHistory(EventsRead.xtb)
  PROVE  /\ {trades[n] : n \in OfXtb} = {EventOf(EventsRead.xtb, n) : n \in Operations(EventsRead.xtb)}
         /\ \A m, n \in OfXtb : trades[m] = trades[n] => m = n
<1> DEFINE book == EventsRead.xtb
           V == {EventOf(book, n) : n \in Operations(book)}
           own == XtbRows(book)
           ids == [n \in DOMAIN own |-> Xtb!Identity(own[n])]
           id == [e \in V |-> Xtb!Identity(e)]
<1>0. Xtb!Credible(book)
  BY CredibleReports, ReadIsOfReport DEF HasSilver
<1>1. \A v, w \in V : Xtb!Identity(v) = Xtb!Identity(w) => v = w
  BY OperationsDiffer
<1>2. IsList(own) /\ ToSet(own) = V
  <2>1. ToSet(own) = {Xtb!OperationEvent(book, op) : op \in ToSet(Xtb!CashOperations(book))}
    BY <1>0, XtbRowsAre
  <2>2. ToSet(Xtb!CashOperations(book)) = {Xtb!CashRows(book)[n] : n \in Operations(book)}
    BY <1>0, PassingXtb DEF Operations
  <2> QED
    BY <1>0, <2>1, <2>2, XtbRowsAre DEF EventOf
<1>3. PICK rows : AllRows(rows)
  BY TradesFrom
<1>4. PICK i \in EventTablesOf(EventsRead, "ibkr"), t \in EventTablesOf(EventsRead, "trading212"),
           x \in EventTablesOf(EventsRead, "xtb") :
          /\ IsList(rows)
          /\ ToSet(rows) = ToSet(i) \cup ToSet(t) \cup ToSet(x)
          /\ \A e \in ToSet(rows) : e.broker = "XTB" => e \in ToSet(x)
          /\ trades \in Deduped(rows, [n \in DOMAIN rows |-> Identity(rows[n])])
  BY <1>3 DEF AllRows
<1>5. ToSet(x) = V
  <2>1. x \in Deduped(own, ids)
    BY SameForXtb DEF EventTablesOf, Xtb!EventTables, XtbRows
  <2>2. \A n \in DOMAIN own : ids[n] = id[own[n]]
    <3>1. \A n \in DOMAIN own : own[n] \in V
      BY <1>2 DEF ToSet
    <3> HIDE DEF own, V
    <3> QED
      BY <3>1
  <2> HIDE DEF ids, id
  <2>3. ToSet(x) \subseteq V /\ \A r \in V : \E kept \in ToSet(x) : id[kept] = id[r]
    <3> HIDE DEF own, V
    <3> QED
      BY <1>2, <2>1, <2>2, DedupedOnce
  <2> HIDE DEF V
  <2>4. \A v \in V : id[v] = Xtb!Identity(v)
    BY DEF id
  <2> QED
    BY <1>1, <2>3, <2>4
<1>6. \A v \in V : v.broker = "XTB"
  BY EventParts
<1> HIDE DEF V, own, ids, id, book
<1> DEFINE all == [e \in ToSet(rows) |-> Identity(e)]
<1>7. \A n \in DOMAIN rows : [k \in DOMAIN rows |-> Identity(rows[k])][n] = all[rows[n]]
  BY DEF ToSet
<1>8. \A e \in ToSet(rows) : all[e] = Identity(e)
  OBVIOUS
<1> HIDE DEF all
<1>9. /\ ToSet(trades) \subseteq ToSet(rows)
      /\ \A r \in ToSet(rows) : \E kept \in ToSet(trades) : all[kept] = all[r]
      /\ \A m, n \in DOMAIN trades : all[trades[m]] = all[trades[n]] => m = n
  BY <1>4, <1>7, DedupedOnce
<1>10. \A v, w : Identity(v) = Identity(w) => v.broker = w.broker /\ Xtb!Identity(v) = Xtb!Identity(w)
  BY DEF Identity, Xtb!Identity
<1>11. ASSUME NEW v \in V PROVE \E n \in OfXtb : trades[n] = v
  <2>1. v \in ToSet(rows)
    BY <1>4, <1>5
  <2>2. PICK kept \in ToSet(trades) : all[kept] = all[v]
    BY <1>9, <2>1
  <2>3. kept \in ToSet(rows) /\ Identity(kept) = Identity(v)
    BY <1>8, <1>9, <2>1, <2>2
  <2>4. kept.broker = "XTB" /\ Xtb!Identity(kept) = Xtb!Identity(v)
    BY <1>6, <1>10, <2>3
  <2>5. kept \in V
    BY <1>4, <1>5, <2>3, <2>4
  <2>6. kept = v
    BY <1>1, <2>4, <2>5
  <2> QED
    BY <2>4, <2>6 DEF OfXtb, ToSet
<1>12. ASSUME NEW n \in OfXtb PROVE trades[n] \in V
  <2>1. trades[n] \in ToSet(trades) /\ trades[n].broker = "XTB"
    BY DEF OfXtb, ToSet
  <2> QED
    BY <1>4, <1>5, <1>9, <2>1
<1>13. {trades[n] : n \in OfXtb} = V
  BY <1>11, <1>12
<1>14. \A m, n \in OfXtb : trades[m] = trades[n] => m = n
  BY <1>9 DEF OfXtb
<1> QED
  BY <1>13, <1>14 DEF V, book

\* XTB's rows of the summary add up to the amounts of its events.
LEMMA XtbSummary ==
  ASSUME trades \in EventLists, \A n \in OfXtb : trades[n].month # 0,
         NEW g, \A n \in DOMAIN trades : g[n] = trades[n].amount.n
  PROVE  CashOf({row \in EventRows("cash_flow_summary") : row.key[2] = "XTB"}) =
             SumFunctionOnSet(g, OfXtb)
<1> DEFINE name == "cash_flow_summary"
           R == {row \in EventRows(name) : row.key[2] = "XTB"}
           cash == [row \in R |-> row.cash.n]
           part == [row \in R |-> row.members]
<1>0. name \in EventTables /\ name \notin DOMAIN TypeOf
  BY IncomeTables
<1>1. \A n \in Counted(name) :
          LET row == RowAt(name, Key(name, trades[n]))
          IN  /\ row \in EventRows(name) /\ row.key[2] = trades[n].broker
              /\ row.members = Members(name, Key(name, trades[n]))
  <2> TAKE n \in Counted(name)
  <2>1. RowAt(name, Key(name, trades[n])) \in EventRows(name)
    BY RowsAre
  <2>2. Key(name, trades[n])[2] = trades[n].broker
    BY <1>0, KeyParts
  <2> QED
    BY <2>1, <2>2, RowParts
<1>2. \A row \in EventRows(name) :
          \E n \in Counted(name) : row = RowAt(name, Key(name, trades[n]))
  BY RowsAre
<1>3. IsFiniteSet(R)
  <2> DEFINE made == [n \in Counted(name) |-> RowAt(name, Key(name, trades[n]))]
  <2>1. made \in Surjection(Counted(name), EventRows(name))
    BY RowsAre DEF Surjection
  <2> HIDE DEF made
  <2>2. IsFiniteSet(EventRows(name))
    BY <2>1, CountedAre, FS_Surjection
  <2> QED
    BY <2>2, FS_Subset
<1>4. \A row \in R : /\ IsFiniteSet(row.members) /\ \A n \in row.members : g[n] \in Int
                     /\ row.cash.n = SumFunctionOnSet(g, row.members)
  <2> TAKE row \in R
  <2>1. PICK k \in Counted(name) : row = RowAt(name, Key(name, trades[k]))
    BY <1>2
  <2>2. row.members = Members(name, Key(name, trades[k]))
    BY <2>1, RowParts
  <2>3. row.members \subseteq Counted(name)
    BY <2>2 DEF Members
  <2>4. \A n \in row.members : g[n] = trades[n].amount.n /\ g[n] \in Int
    BY <2>3, CountedAre
  <2>5. IsFiniteSet(row.members)
    BY <2>3, CountedAre, FS_Subset
  <2> QED
    BY <2>1, <2>2, <2>4, <2>5, CashOfRow
<1>5. \A row, other \in R : row # other => part[row] \intersect part[other] = {}
  <2> SUFFICES ASSUME NEW row \in R, NEW other \in R, NEW n \in row.members \intersect other.members
               PROVE  row = other
    OBVIOUS
  <2>1. PICK k \in Counted(name) : row = RowAt(name, Key(name, trades[k]))
    BY <1>2
  <2>2. PICK m \in Counted(name) : other = RowAt(name, Key(name, trades[m]))
    BY <1>2
  <2>3. Key(name, trades[n]) = Key(name, trades[k]) /\ Key(name, trades[n]) = Key(name, trades[m])
    BY <2>1, <2>2, RowParts DEF Members
  <2> QED
    BY <2>1, <2>2, <2>3
<1>6. UNION {part[row] : row \in R} = OfXtb
  <2>1. ASSUME NEW row \in R, NEW n \in row.members PROVE n \in OfXtb
    <3>1. PICK k \in Counted(name) : row = RowAt(name, Key(name, trades[k]))
      BY <1>2
    <3>2. n \in Counted(name) /\ Key(name, trades[n]) = Key(name, trades[k])
      BY <2>1, <3>1, RowParts DEF Members
    <3>3. row.key[2] = trades[n].broker /\ row.key[2] = "XTB"
      BY <1>1, <3>1, <3>2
    <3> QED
      BY <3>2, <3>3 DEF OfXtb, Counted
  <2>2. ASSUME NEW n \in OfXtb PROVE \E row \in R : n \in row.members
    <3>1. n \in Counted(name)
      BY <1>0 DEF OfXtb, Counted
    <3>2. n \in Members(name, Key(name, trades[n]))
      BY <3>1 DEF Members
    <3> QED
      BY <1>1, <3>1, <3>2 DEF OfXtb
  <2> QED
    BY <2>1, <2>2
<1>7. CashOf(R) = SumFunctionOnSet(cash, R)
  BY DEF CashOf
<1>8. /\ \A row \in R : IsFiniteSet(part[row]) /\ cash[row] = SumFunctionOnSet(g, part[row])
      /\ \A row \in R : \A n \in part[row] : g[n] \in Int
  BY <1>4
<1> HIDE DEF R, cash, part
<1>9. SumFunctionOnSet(cash, R) = SumFunctionOnSet(g, UNION {part[row] : row \in R})
  BY <1>3, <1>5, <1>8, SumOfParts
<1> QED
  BY <1>6, <1>7, <1>9 DEF R

\* The amounts of XTB's events add up to those of the workbook's operations.
LEMMA XtbEventsAddUp ==
  ASSUME Reported, trades \in EventLists, HasSilver(EventsRead, "xtb"), WholeHistory(EventsRead.xtb),
         NEW g, \A n \in DOMAIN trades : g[n] = trades[n].amount.n
  PROVE  /\ SumFunctionOnSet(g, OfXtb) = Xtb!FreeCash(EventsRead.xtb).n
         /\ Xtb!FreeCash(EventsRead.xtb).n \in Int
         /\ \A n \in OfXtb : trades[n].month # 0
<1> DEFINE book == EventsRead.xtb
           O == Operations(book)
           V == {EventOf(book, n) : n \in O}
           f == [n \in DOMAIN Xtb!CashRows(book) |-> Xtb!CashRows(book)[n].amount.n]
           worth == [e \in V |-> e.amount.n]
           toEvent == [n \in O |-> EventOf(book, n)]
           toTrade == [n \in OfXtb |-> trades[n]]
<1>0. Xtb!Credible(book)
  BY CredibleReports, ReadIsOfReport DEF HasSilver
<1>1. /\ SumFunctionOnSet(f, O) = Xtb!FreeCash(book).n
      /\ IsFiniteSet(O) /\ \A n \in O : f[n] \in Int
  BY <1>0, OperationsAddUp
<1>2. {trades[n] : n \in OfXtb} = V /\ \A m, n \in OfXtb : trades[m] = trades[n] => m = n
  BY EachOperationOnce
<1>3. IsFiniteSet(OfXtb) /\ \A n \in OfXtb : g[n] \in Int
  <2>1. PICK len \in Nat : DOMAIN trades = 1 .. len
    BY TradesAreSound, ListsAre
  <2>2. IsFiniteSet(1 .. len)
    BY FS_Interval
  <2>3. OfXtb \subseteq DOMAIN trades
    BY DEF OfXtb
  <2>4. IsFiniteSet(OfXtb)
    BY <2>1, <2>2, <2>3, FS_Subset
  <2> QED
    BY <2>3, <2>4, AmountsAreIntegers
<1>4. \A n \in OfXtb : trades[n].month # 0
  <2>1. \A n \in O : EventOf(book, n).month # 0
    BY EventParts DEF Operations, Xtb!IsOperation
  <2>2. \A n \in OfXtb : trades[n] \in V
    BY <1>2
  <2> QED
    BY <2>1, <2>2
<1>5. \A n \in OfXtb : g[n] = worth[toTrade[n]] /\ toTrade[n] = trades[n]
  BY <1>2 DEF OfXtb
<1>6. \A n \in O : f[n] = worth[toEvent[n]] /\ toEvent[n] = EventOf(book, n)
  <2> TAKE n \in O
  <2>1. EventOf(book, n) \in V /\ n \in DOMAIN Xtb!CashRows(book)
    BY DEF Operations
  <2>2. EventOf(book, n).amount = Xtb!CashRows(book)[n].amount
    BY EventParts
  <2> HIDE DEF V
  <2> QED
    BY <2>1, <2>2
<1>7. \A m, n \in O : EventOf(book, m) = EventOf(book, n) => m = n
  BY OperationsDiffer
<1>8. {EventOf(book, n) : n \in O} = {toEvent[n] : n \in O}
  OBVIOUS
<1>9. {trades[n] : n \in OfXtb} = {toTrade[n] : n \in OfXtb}
  OBVIOUS
<1>10. V = {EventOf(book, n) : n \in O}
  OBVIOUS
<1> HIDE DEF O, V, f, worth, toEvent, toTrade, book
<1>11. SumFunctionOnSet(f, O) = SumFunctionOnSet(worth, {toEvent[n] : n \in O})
  BY <1>1, <1>6, <1>7, SumMoved
<1>12. SumFunctionOnSet(g, OfXtb) = SumFunctionOnSet(worth, {toTrade[n] : n \in OfXtb})
  BY <1>2, <1>3, <1>5, SumMoved
<1>13. SumFunctionOnSet(f, O) \in Int
  BY <1>1, SumTakes
<1> QED
  BY <1>1, <1>2, <1>4, <1>8, <1>9, <1>10, <1>11, <1>12, <1>13 DEF book

\* What is held in cash at XTB is one row, of what the last Total says.
LEMMA XtbHolding ==
  ASSUME Reported, HasSilver(SnapshotsRead, "xtb"), Xtb!FreeCash(SnapshotsRead.xtb) # Null,
         Xtb!FreeCash(SnapshotsRead.xtb).n \in Int
  PROVE  CashOf({row \in HoldingRows : row.key[2] = "XTB" /\ row.key[1] = "CASH"}) =
             Xtb!FreeCash(SnapshotsRead.xtb).n
<1> DEFINE book == SnapshotsRead.xtb
           ccy == Xtb!AccountCurrency(book)
           before == SnapshotOf(SnapshotsRead, "ibkr") \o SnapshotOf(SnapshotsRead, "trading212")
           held == [n \in DOMAIN Xtb!OpenPositions(book) |->
                       Xtb!Position(Xtb!Broker, "EQUITY", Xtb!OpenPositions(book)[n].ticker,
                                    Xtb!OpenPositions(book)[n].value, ccy)]
           cash == Xtb!Position(Xtb!Broker, "CASH", "CASH", Xtb!FreeCash(book), ccy)
           list == Holdings(SnapshotsRead)
           rowOf(n) == [key |-> <<list[n].type, list[n].broker, list[n].label, list[n].ccy>>,
                        members |-> {n}, cash |-> list[n].value]
           R == {row \in HoldingRows : row.key[2] = "XTB" /\ row.key[1] = "CASH"}
<1>0. Xtb!Credible(book)
  BY CredibleReports, ReadIsOfReport DEF HasSilver
<1>1. /\ Xtb!Snapshot(book) = held \o <<cash>>
      /\ IsList(held) /\ \A h \in ToSet(held) : h.type = "EQUITY"
  BY <1>0, XtbSnapshot
<1>2. list = before \o (held \o <<cash>>)
  BY <1>1 DEF Holdings, SnapshotOf
<1>3. IsList(before) /\ \A h \in ToSet(before) : h.broker # "XTB"
  <2> DEFINE i == SnapshotOf(SnapshotsRead, "ibkr")
             t == SnapshotOf(SnapshotsRead, "trading212")
  <2>1. /\ IsList(i) /\ IsList(t) /\ \A h \in ToSet(i) : h.broker = "IBKR"
        /\ \A h \in ToSet(t) : h.broker = "Trading 212"
    BY SnapshotsAre, ReadIsOfReport
  <2>2. before = i \o t
    OBVIOUS
  <2> HIDE DEF i, t, before
  <2>3. IsList(before) /\ ToSet(before) = ToSet(i) \cup ToSet(t)
    BY <2>1, <2>2, Joined
  <2> QED
    BY <2>1, <2>3
<1>4. cash.type = "CASH" /\ cash.broker = "XTB" /\ cash.value = Xtb!FreeCash(book)
  BY DEF Xtb!Position, Xtb!Broker
<1>5. HoldingRows = {rowOf(n) : n \in DOMAIN list}
  BY DEF HoldingRows
<1>6. \A n : /\ rowOf(n).key[1] = list[n].type /\ rowOf(n).key[2] = list[n].broker
             /\ rowOf(n).cash = list[n].value
  OBVIOUS
<1> HIDE DEF before, held, cash, list, rowOf
<1>7. PICK last \in DOMAIN list :
          /\ list[last] = cash
          /\ \A n \in DOMAIN list : n = last \/ list[n] \in ToSet(before) \cup ToSet(held)
  <2>1. IsList(before) /\ IsList(held)
    BY <1>1, <1>3
  <2>2. LET all == before \o (held \o <<cash>>)
        IN  \E last \in DOMAIN all :
                /\ all[last] = cash
                /\ \A n \in DOMAIN all : n = last \/ all[n] \in ToSet(before) \cup ToSet(held)
    BY <2>1, AddedLast
  <2> QED
    BY <1>2, <2>2
<1>8. R = {rowOf(last)}
  BY <1>1, <1>3, <1>4, <1>5, <1>6, <1>7
<1> DEFINE amounts == [row \in R |-> row.cash.n]
<1>9. amounts[rowOf(last)] = Xtb!FreeCash(book).n
  BY <1>4, <1>6, <1>7, <1>8
<1>10. CashOf(R) = SumFunctionOnSet(amounts, R)
  BY DEF CashOf
<1> HIDE DEF R, amounts, book
<1>11. IsFiniteSet(R) /\ \A row \in R : amounts[row] \in Int
  BY <1>8, <1>9, FS_Singleton DEF book
<1>12. SumFunctionOnSet(amounts, R) = amounts[rowOf(last)] + SumFunctionOnSet(amounts, R \ {rowOf(last)})
  BY <1>8, <1>11, SumTakes
<1>13. SumFunctionOnSet(amounts, R \ {rowOf(last)}) = 0
  <2>1. R \ {rowOf(last)} = {}
    BY <1>8
  <2> QED
    BY <2>1, NoSum
<1>14. amounts[rowOf(last)] \in Int
  BY <1>8, <1>11
<1> QED
  BY <1>9, <1>10, <1>12, <1>13, <1>14 DEF R, book

LEMMA CashIs ==
  ASSUME Building, Reported
  PROVE  CashReconciles
<1> SUFFICES ASSUME green, HasSilver(report, "xtb"), WholeHistory(report.xtb),
                    "xtb" \in opened.snapshots \cap opened.events
             PROVE  CashOf({row \in gold.cash_flow_summary.rows : row.key[2] = "XTB"}) =
                        CashOf({row \in {s \in gold.portfolio_holdings.rows : s.key[2] = "XTB"} :
                                    row.key[1] = "CASH"})
  BY DEF CashReconciles, Xtb!Broker
<1>0. /\ SnapshotsRead.xtb = report.xtb /\ HasSilver(SnapshotsRead, "xtb")
      /\ EventsRead.xtb = report.xtb /\ HasSilver(EventsRead, "xtb")
      /\ WholeHistory(EventsRead.xtb)
  <2>1. /\ "xtb" \in DOMAIN SnapshotsRead /\ SnapshotsRead["xtb"] = report["xtb"]
        /\ "xtb" \in DOMAIN EventsRead /\ EventsRead["xtb"] = report["xtb"]
    BY DEF SnapshotsRead, EventsRead, Restrict
  <2> QED
    BY <2>1 DEF HasSilver
<1> DEFINE g == [n \in DOMAIN trades |-> trades[n].amount.n]
<1>1. /\ gold.portfolio_holdings.rows = HoldingRows /\ trades \in EventLists
      /\ gold.cash_flow_summary.rows = EventRows("cash_flow_summary")
  <2>1. PICK to : \A name \in EventTables : gold[name] = [to |-> to, rows |-> EventRows(name)]
    BY DEF Building
  <2>2. gold["cash_flow_summary"] = [to |-> to, rows |-> EventRows("cash_flow_summary")]
    BY <2>1 DEF EventTables
  <2> QED
    BY <2>2 DEF Building
<1>2. Xtb!FreeCash(report.xtb) # Null
  BY SameForXtb DEF WholeHistory
<1>3. /\ SumFunctionOnSet(g, OfXtb) = Xtb!FreeCash(report.xtb).n
      /\ Xtb!FreeCash(report.xtb).n \in Int
      /\ \A n \in OfXtb : trades[n].month # 0
  <2>1. \A n \in DOMAIN trades : g[n] = trades[n].amount.n
    OBVIOUS
  <2> HIDE DEF g
  <2>2. /\ SumFunctionOnSet(g, OfXtb) = Xtb!FreeCash(EventsRead.xtb).n
        /\ Xtb!FreeCash(EventsRead.xtb).n \in Int
        /\ \A n \in OfXtb : trades[n].month # 0
    BY <1>0, <1>1, <2>1, XtbEventsAddUp
  <2> QED
    BY <1>0, <2>2
<1>4. CashOf({row \in EventRows("cash_flow_summary") : row.key[2] = "XTB"}) =
          SumFunctionOnSet(g, OfXtb)
  BY <1>1, <1>3, XtbSummary
<1>5. CashOf({row \in HoldingRows : row.key[2] = "XTB" /\ row.key[1] = "CASH"}) =
          Xtb!FreeCash(report.xtb).n
  BY <1>0, <1>2, <1>3, XtbHolding
<1>6. {row \in {s \in HoldingRows : s.key[2] = "XTB"} : row.key[1] = "CASH"} =
          {row \in HoldingRows : row.key[2] = "XTB" /\ row.key[1] = "CASH"}
  OBVIOUS
<1> HIDE DEF g
<1> QED
  BY <1>1, <1>3, <1>4, <1>5, <1>6

\* Whatever the other brokers reported and whichever rows the dedups keep, the cash flows of
\* XTB's whole history add up in gold to the cash its last Total tells, when both of its
\* tables could be read.
THEOREM CashIsAccountedFor == GoldSpec => []CashReconciles
<1>1. Building /\ Labelling => CashReconciles
  BY CashIs DEF Labelling
<1> QED
  BY <1>1, LabellingFromTheStart, BuildingFromTheStart, PTL
=============================================================================
