------------------------- MODULE CurrencyConversion -------------------------
(***************************************************************************)
(* The rates by which amounts reach the target currency.  A connector run  *)
(* may keep a broker's own rate with its events; a consolidation converts  *)
(* the holdings with one CurrencyConverter and the events with another,    *)
(* each with its cache, asking a provider that publishes new quotes and    *)
(* fails meanwhile.                                                        *)
(*                                                                         *)
(* A rate is where it comes from: amounts and arithmetic are left out.     *)
(***************************************************************************)
EXTENDS BrokerEvents

CONSTANTS
    HoldingLists,    \* the currencies of the holdings, in the order they are read
    EventLists,      \* the events, rows of BrokerEvents
    Targets,         \* what --target-currency may say
    ManualRates,     \* the sets of currencies --fx-rate may name
    Retries,         \* of a request that failed transiently
    MaxQuotes,       \* bound: quotes the provider publishes
    MaxRuns          \* bound: consolidations

DefaultTarget == "EUR"
Major == [c \in {"GBX"} |-> "GBP"]   \* MINOR_CURRENCY_UNITS

ASSUME RetriesAreNatural == Retries \in Nat
ASSUME ListsAreSequences ==
    /\ \A list \in HoldingLists : list \in Seq(ToSet(list))
    /\ \A list \in EventLists : list \in Seq(ToSet(list))

VARIABLES
    securities,  \* the holdings read from silver, their currencies
    trades,      \* the events read from silver, as the brokers' transforms leave them
    rates,       \* the target_fx_rate stored with each event by the transform
    pc,          \* what the consolidation is doing
    target,      \* its target currency
    manual,      \* the currencies with a rate given by hand
    converter,   \* the rates its converter knows
    next,        \* the row that is due
    out,         \* the rates of the rows before it
    unknown,     \* currencies that could not be converted
    tries,       \* requests that failed for this row
    refused,     \* the last request failed for good: a 4xx or a useless body
    holdings,    \* normalized/consolidated_holdings
    events,      \* normalized/events
    quote,       \* the quotes published so far
    runs         \* the consolidations started

brokerData == <<securities, trades>>
process == <<pc, target, manual, converter, next, out, unknown, tries, refused>>
tables == <<holdings, events>>
vars == <<brokerData, rates, process, tables, quote, runs>>

Rate(from, to, source, n) == [from |-> from, to |-> to, source |-> source, quote |-> n]
NoRate == Rate("", "", "none", 0)
\* The amount is taken as it is.
Par(c) == Rate(c, target, "par", 0)

NoTable == [to |-> "", rates |-> <<>>]

---------------------------------------------------------------------------
(* The connector run: transform_events is not told the target currency.    *)

\* Faulty: fxRateToBase is taken for the rate to the target whatever the base is.
TargetFxRateAnyBase(row) ==
    IF row.fx THEN Rate(row.ccy, row.base, "broker", 0)
    ELSE Rate(row.ccy, row.base, "par", 0)

\* A missing fxRateToBase reads as 1.
TargetFxRate(row) ==
    IF row.base # DefaultTarget THEN NoRate
    ELSE Rate(row.ccy, row.base, IF row.fx THEN "broker" ELSE "par", 0)

Transformed == DOMAIN rates = DOMAIN trades

TransformEvents ==
    /\ pc = "idle"
    /\ ~Transformed
    /\ rates' = [n \in DOMAIN trades |-> TargetFxRate(trades[n])]
    /\ UNCHANGED <<brokerData, process, tables, quote, runs>>

---------------------------------------------------------------------------
(* One CurrencyConverter.                                                  *)

\* The target's own rate of 1 is only ever used through a minor unit of it.
NewConverter(to, given) ==
    [c \in given \cup {to} |-> Rate(c, to, IF c \in given THEN "manual" ELSE "target", 0)]

\* Faulty: a minor unit never looks for a rate of its major one.
HasAlone(c) == IF c \in DOMAIN converter THEN {converter[c]} ELSE {}

\* The rate a converter has without asking: a minor unit shares its major one's.
Has(c) ==
    IF c \in DOMAIN converter THEN {converter[c]}
    ELSE IF c \in DOMAIN Major /\ Major[c] \in DOMAIN converter
         THEN {[converter[Major[c]] EXCEPT !.from = c]}
         ELSE {}

Keep(c, rate) ==
    converter' = [d \in DOMAIN converter \cup {c} |-> IF d = c THEN rate ELSE converter[d]]

AtRow(phase, list) == pc = phase /\ next <= Len(list)

\* The currency that is due, when only the provider can tell its rate.
Asks(c) ==
    /\ \/ AtRow("holdings", securities) /\ securities[next] = c
       \/ AtRow("events", trades) /\ trades[next].ccy = c /\ rates[next] = NoRate
    /\ c \notin {"", target}
    /\ Has(c) = {}
    /\ ~refused /\ tries <= Retries

\* The quote of a minor unit is its major one's, and only the minor one is kept.
Answered(c) ==
    /\ Asks(c)
    /\ Keep(c, Rate(c, target, "provider", quote))
    /\ UNCHANGED <<brokerData, rates, pc, target, manual, next, out, unknown, tries, refused,
                   tables, quote, runs>>

\* Faulty: a request that used up its tries starts over.
FailsStartOver(c) ==
    /\ Asks(c)
    /\ refused' \in BOOLEAN
    /\ tries' = IF refused' THEN tries ELSE (tries + 1) % (Retries + 1)
    /\ UNCHANGED <<brokerData, rates, pc, target, manual, converter, next, out, unknown,
                   tables, quote, runs>>

\* A timeout, a network error or a 5xx may be tried again; anything else may not.
Fails(c) ==
    /\ Asks(c)
    /\ refused' \in BOOLEAN
    /\ tries' = IF refused' THEN tries ELSE tries + 1
    /\ UNCHANGED <<brokerData, rates, pc, target, manual, converter, next, out, unknown,
                   tables, quote, runs>>

GivenUp == refused \/ tries > Retries

\* A new quote is published.
Published ==
    /\ quote < MaxQuotes
    /\ quote' = quote + 1
    /\ UNCHANGED <<brokerData, rates, process, tables, runs>>

---------------------------------------------------------------------------
(* cmd_consolidate.                                                        *)

Enter(phase, known) ==
    /\ pc' = phase
    /\ converter' = known
    /\ next' = 1 /\ out' = <<>> /\ unknown' = {} /\ tries' = 0 /\ refused' = FALSE

Leave(phase) == Enter(phase, <<>>)

NextRow(rate) ==
    /\ out' = Append(out, rate)
    /\ next' = next + 1
    /\ tries' = 0 /\ refused' = FALSE

StartRun ==
    /\ pc = "idle" /\ Transformed
    /\ runs < MaxRuns
    /\ runs' = runs + 1
    /\ target' \in Targets /\ manual' \in ManualRates
    /\ Enter("holdings", NewConverter(target', manual'))
    /\ UNCHANGED <<brokerData, rates, tables, quote>>

\* Without a currency the value is taken to be in the target's.
ConvertHolding ==
    /\ AtRow("holdings", securities)
    /\ LET c == securities[next]
       IN  \/ c \in {"", target} /\ NextRow(Par(c)) /\ UNCHANGED converter
           \/ c \notin {"", target} /\ \E rate \in Has(c) : NextRow(rate) /\ Keep(c, rate)
    /\ UNCHANGED <<brokerData, rates, pc, target, manual, unknown, tables, quote, runs>>

\* PortfolioConnectorError, or no holdings at all: the command ends before anything is
\* written.
HoldingsFail ==
    /\ pc = "holdings"
    /\ GivenUp \/ securities = <<>>
    /\ Leave("idle")
    /\ UNCHANGED <<brokerData, rates, target, manual, tables, quote, runs>>

WriteHoldings ==
    /\ pc = "holdings" /\ next > Len(securities)
    /\ securities # <<>>
    /\ holdings' = [to |-> target, rates |-> out]
    /\ Leave("consolidated")
    /\ UNCHANGED <<brokerData, rates, target, manual, events, quote, runs>>

---------------------------------------------------------------------------
(* consolidate_events and normalize_currency.                              *)

\* `events` is overwritten unconverted, and normalisation starts with a converter of
\* its own: the manual rates are known again, what the first one asked is not.  A table
\* without rows has nothing to convert.
ConsolidateEvents ==
    /\ pc = "consolidated"
    /\ events' = [to |-> IF trades = <<>> THEN target ELSE "", rates |-> rates]
    /\ Enter("events", NewConverter(target, manual))
    /\ UNCHANGED <<brokerData, rates, target, manual, holdings, quote, runs>>

\* Faulty: an event without a currency goes the way of a holding without one.
ConvertEventLenient ==
    /\ AtRow("events", trades)
    /\ LET c == trades[next].ccy
       IN  \/ c \in {"", target} /\ NextRow(Par(c)) /\ UNCHANGED converter
           \/ /\ c \notin {"", target} /\ rates[next] # NoRate
              /\ NextRow(rates[next]) /\ UNCHANGED converter
           \/ /\ c \notin {"", target} /\ rates[next] = NoRate
              /\ \E rate \in Has(c) : NextRow(rate) /\ Keep(c, rate)
    /\ UNCHANGED <<brokerData, rates, pc, target, manual, unknown, tables, quote, runs>>

\* The broker's rate comes before the converter's.
ConvertEvent ==
    /\ AtRow("events", trades)
    /\ trades[next].ccy # ""
    /\ LET c == trades[next].ccy
       IN  \/ c = target /\ NextRow(Par(c)) /\ UNCHANGED converter
           \/ c # target /\ rates[next] # NoRate /\ NextRow(rates[next]) /\ UNCHANGED converter
           \/ /\ c # target /\ rates[next] = NoRate
              /\ \E rate \in Has(c) : NextRow(rate) /\ Keep(c, rate)
    /\ UNCHANGED <<brokerData, rates, pc, target, manual, unknown, tables, quote, runs>>

\* The row is remembered as unconverted, and the next one is converted.
EventUnknown ==
    /\ AtRow("events", trades) /\ GivenUp
    /\ unknown' = unknown \cup {trades[next].ccy}
    /\ NextRow(NoRate)
    /\ UNCHANGED <<brokerData, rates, pc, target, manual, converter, tables, quote, runs>>

\* A row without a currency, or at the end any currency without a rate.
EventsFail ==
    /\ \/ AtRow("events", trades) /\ trades[next].ccy = ""
       \/ pc = "events" /\ next > Len(trades) /\ unknown # {}
    /\ Leave("idle")
    /\ UNCHANGED <<brokerData, rates, target, manual, tables, quote, runs>>

WriteTargets ==
    /\ pc = "events" /\ next > Len(trades) /\ unknown = {}
    /\ events' = [to |-> target, rates |-> out]
    /\ Leave("idle")
    /\ UNCHANGED <<brokerData, rates, target, manual, holdings, quote, runs>>

\* The process is killed, or a write raises.
Killed ==
    /\ pc # "idle"
    /\ Leave("idle")
    /\ UNCHANGED <<brokerData, rates, target, manual, tables, quote, runs>>

---------------------------------------------------------------------------
Init ==
    /\ securities \in HoldingLists /\ trades \in EventLists
    /\ rates = <<>>
    /\ pc = "idle"
    /\ target = DefaultTarget /\ manual = {}
    /\ converter = <<>> /\ next = 1 /\ out = <<>>
    /\ unknown = {} /\ tries = 0 /\ refused = FALSE
    /\ holdings = NoTable /\ events = NoTable
    /\ quote = 0 /\ runs = 0

Currency == {securities[n] : n \in DOMAIN securities}
                \cup {trades[n].ccy : n \in DOMAIN trades}

Request == \E c \in Currency : Answered(c) \/ Fails(c)
Convert ==
    \/ ConvertHolding \/ HoldingsFail \/ WriteHoldings \/ ConsolidateEvents
    \/ ConvertEvent \/ EventUnknown \/ EventsFail \/ WriteTargets
Next == TransformEvents \/ Published \/ StartRun \/ Request \/ Convert \/ Killed

Spec == Init /\ [][Next]_vars

\* A request ends by its timeout of 20 s and the loop goes on; the provider need
\* never answer, and nobody need start a run.
FairSpec == Spec /\ WF_vars(Request \/ Convert)

---------------------------------------------------------------------------
(* Properties.                                                             *)

\* A converted amount is labelled with the currency its rate leads to.  The one
\* exception: the transform of the broker's events always compares the account base
\* with its default target, so in a run for another target such an event keeps a
\* rate to the default.
RatesLeadToTarget ==
    /\ \A n \in DOMAIN holdings.rates : holdings.rates[n].to = holdings.to
    /\ events.to # "" => \A n \in DOMAIN events.rates :
           events.rates[n].to # events.to =>
               trades[n].base = DefaultTarget /\ events.to # DefaultTarget

\* No foreign amount passes at rate 1: a holding only when its currency is missing,
\* an event only when the broker's report left fxRateToBase out, as the synthetic
\* deposit does.
NothingAtPar ==
    /\ \A n \in DOMAIN holdings.rates :
           holdings.rates[n].source = "par" => securities[n] \in {"", holdings.to}
    /\ events.to # "" => \A n \in DOMAIN events.rates :
           events.rates[n].source = "par" =>
               trades[n].ccy = events.to \/ (~trades[n].fx /\ trades[n].base = DefaultTarget)

\* Within one table a currency has one rate, though new quotes come out between its
\* rows; and pence follow a pound that was converted before the first of them.  Pence
\* that came first keep the quote they got, before and after the pound.
PenceFollowPounds ==
    \A m, n \in DOMAIN holdings.rates :
        LET one == holdings.rates[m]  other == holdings.rates[n]
        IN  /\ securities[m] = securities[n] => one = other
            /\ (/\ one.from = "GBP" /\ other.from = "GBX" /\ other.source = "provider"
                /\ \A k \in 1 .. m : securities[k] # "GBX")
                   => one = [other EXCEPT !.from = "GBP"]

\* A run ends, with its tables or without, whatever the provider does.
ConversionEnds == pc = "holdings" ~> pc = "idle"
=============================================================================
