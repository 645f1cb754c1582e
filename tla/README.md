# The portfolio lakehouse in TLA+

This directory specifies and verifies the pipeline of the repository: three
brokers are fetched (IBKR, Trading 212, XTB), their answers kept as *bronze*
(raw Delta tables), normalised to *silver* tables per broker, consolidated and
converted to one currency, and aggregated to *gold* tables that a report shows.
It runs as threads of one process (docker mode) or as containers of a Step
Functions state machine (staging, prod), started by a schedule, by arriving
files and by hand.

Two facts make it hard. **Nothing excludes two runs from each other**: the
tables are the only thing they share, Delta Lake's commit conflicts are the
only arbitration, and most writes are overwrites. **Every step can be the
last**: a container is killed, a request fails, a commit is refused, and the
next run starts from whatever is there.

Contents: [parts](#the-systems-parts) · [modules](#modules-and-code) ·
[runs](#what-each-run-checks) · [fairness](#fairness) ·
[proofs](#what-is-proved) · [divergences](#where-code-and-documents-disagree) ·
[not modelled](#what-is-not-modelled) · [plan](#plan)

## The system's parts

Paths are under `src/pipeline/` unless they begin with `terraform/`.

| Part | State it keeps | Operations | Interacts through | Must be true |
|---|---|---|---|---|
| Bronze (`raw/`) | `raw/{broker}`: one row per retention key | `ingest_raw`, `vacuum_raw` | Delta commits of runs | one row per key; nothing still reported is lost |
| Connector run (`run.py` `cmd_run_connector`) | none of its own | fetch, transform, validate | raw, `{broker}_snapshot`, `{broker}_events`, `data_quality` | green means stored; events are never deleted or set back |
| IBKR (`connectors/ibkr/`) | reference code; nothing between runs | request, poll, parse; holdings, events, paper deposit | HTTP to the Flex service, bronze | bounded patience; what leaves the window stays in the events, once; one deposit |
| Trading 212 (`connectors/trading212/`) | cursor, captured pages | three paginated fetches; orders, dividends, transactions | HTTP, bronze | all of one fetch or nothing; amounts in the currency of their label |
| XTB (`connectors/xtb/`) | none | parse workbooks, ingest files, rebuild all accounts | uploads, bronze shared by accounts | accounts independent; cash and events reconcile |
| Purge (`cmd_purge_account`) | none | three deletes | the XTB tables, then gold | what is purged stays away, from gold too |
| Consolidation (`normalized/`) | rate cache of a converter | holdings, events, normalise | silver → consolidated tables | every rate leads to the target |
| Gold (`analytics/`) | four tables | four builders, overwrites | consolidated tables → gold | converted, current, never older, and agreeing with each other |
| Quality (`analytics/quality.py`) | `data_quality` | `run_validation` | overwritten by every run | green means valid |
| State machine (`terraform/modules/orchestrator/main.tf`) | executions | Map with retries, then consolidation | starts containers | consolidation only after green |
| `full` (`run.py`, `sfn.py`, `observability.py`) | threads, sampler, a poll loop | run or trigger and wait | threads; Step Functions API | its exit code is true; it ends |
| Migrations (`migrations/_staged_upload.py`) | an upload in progress | stage, upload, retry | S3 objects beside other writers | readers see old or new, whole |
| Report (`report/`) | one HTML file | load, hide, render | reads gold and `data_quality` | no section with a broken table is shown |
| Query, secrets, storage, crypto | — | read-only, I/O or configuration | — | see [below](#what-is-not-modelled) |

Behaviours that are hard: overlapping runs of one broker and overlapping
executions (interleaving, stale reads); failure between two table writes
(partial failure, crash); a report that covers a sliding window (loss);
histories that grow while they are paged (ordering); polls, retries and
timeouts at their limits; a `data_quality` table everybody overwrites. The
full list with source lines is in `PROJECT.json` under `hazards`.

## Modules and code

| Module | Models | State ↔ code | Actions ↔ code |
|---|---|---|---|
| `EventStore` | what an events table promises, abstractly | `events`: what it shows of each event; `served`: reports fetched | `Serve`: a fetch completes; `Apply`: a batch lands |
| `Connector` | one run's task, of IBKR or Trading 212 (`Broker`), `raw/ingest.py`, `run.py` 126–403, 804–848 | tables as sequences or functions of rows reduced to (`fetched_at`, version); `rawCurrent`/`eventsCurrent`: whose open handle no later commit made stale; `misled`: history, who wrote a raw table that is there as if it were missing | an open and a commit of one merge are two actions; every action that can raise leads to the code's `except` or out of the run; `Killed` at any place |
| `Trading212Events` | pagination, all-or-nothing fetch, dedups, merge | `history` is the broker's side, `fetch` the run's locals | one action per HTTP answer, `Ingest`, `Transform` |
| `XtbAccounts` | files, accounts, NULL-keyed legacy rows, purge, and the consolidations that carry a purge to gold | `raw`, `snapshot`, `events` as sets of rows; `run`, `purge` the processes | fetch per file, read, write, merge; one action per delete; `Consolidate` |
| `FlexReport` | `request_report`, `fetch_report` | `polls`, `slept` the loop; `last` the answer by the parts the client looks at | `SendRequest`, `FirstDelay`, `GetStatement`, `Sleep` |
| `Orchestrator` | the state machine, `cmd_run_consolidate_analytics`, `cmd_analytics` | a table's content is, per connector, the number of the fetch it shows, and the connectors whose tables could not be read for it | Map tasks with retries; each read and each overwrite of the consolidation is a step |
| `Quality` | `run_validation`, who calls it, and which sections the report shows by it | table contents by what the checks tell apart; `dq` the last results; `looked`, `blind`: history, what could not be read | each worker writes, checks (whatever it cannot read is a warning or a first run), publishes; `Shown` is `render_report`'s choice, over what it can read |
| `BrokerEvents` | the row every broker's events and positions become, `dedup_events` | an amount is a small number and the currency it is really in | operators |
| `IbkrRecords` | `ibkr/transform.py` | the parsed sections of a Flex report | operators: identities, base currencies, commissions, deposits |
| `Trading212Records` | `trading212/transform.py` | the decoded answers of the endpoints | operators: wallet rate, sign, fees and taxes, identities |
| `XtbWorkbook` | `xtb/parser.py`, `xtb/transform.py` | a workbook as sheets of rows | operators: the row rules, event types, fee of a sale, what raises |
| `IbkrConnector` | one account over days: `FlexReport`'s fetch, bronze, `IbkrRecords`' events, `_merge_events` | `activity` is the broker's side; `events` the silver rows; `gap`, `shown` history | `NewDay`, `Happens`, `ReportGenerated` outside; `FetchStep`, `Ingest`, `Transform`, `RunEnds` |
| `CurrencyConversion` | `CurrencyConverter`, `normalize_currency`, `consolidate_holdings` | a rate is *where it leads from and to and who said so* | one row at a time, one request at a time; a kill between any two |
| `GoldTables` | all of the above in a row: three transforms, `extract_holdings`, `consolidate_events`, conversion, the four builders of `cmd_analytics` | `report` what the brokers said; `opened` whose tables a consolidation can open; `gold` the tables' rows with the events each counts | `CurrencyConversion`'s, `StartAnalytics`, `Build`, `BuildFails`, `AnalyticsKilled` |
| `FullCommand` | `cmd_full`, `_run_connectors_parallel`, `_trigger_sfn_execution`, `wait_for_execution`, `MemorySampler` | `future` the pool's tasks, `sampler` its thread, `elapsed`/`polls` the wait | one per await of the main thread and per step of the others |
| `StagedUpload` | `rewrite_table`, `stage_and_upload` | the commit log, the objects in the bucket, the attempt's locals | one action per object; failure with and without effect; death; another writer; VACUUM |

`Connector` implements `EventStore`: `Promise == INSTANCE EventStore WITH …` is
the refinement mapping, `ImplementsEventStore` the property and the theorem.
`IbkrConnector` EXTENDS `FlexReport` and takes its steps as they are; `GoldTables`
does the same with `CurrencyConversion`, and both take the brokers' records by
INSTANCE. `Orchestrator` has a connector run shrunk to three
steps, justified by `Connector`; `FullCommand` has it shrunk to its outcome.
Amounts, names, payloads and ciphertexts are abstracted to what the properties
tell apart. `MC…` modules hold the instances for TLC; `…Proofs` modules the
theorems. Every definition that stands for code is listed with its lines under
`map` in `PROJECT.json`.

Operators marked *Faulty* in a module are plausible bugs of the code beside the
definition they replace. Each property is known to fail when its one replaces
the correct definition (`mutants`).

## What each run checks

| Run | Instance | Shows |
|---|---|---|
| `serial` | Trading 212: 3 runs one after another, 1 event, 6 fetches, 2 versions; fresh tables; raw opens that fail; kills; a sliding window | a green run has stored what it fetched, versions never go back, though a key has two raw rows, and nothing still reported is lost, whatever fails or is killed |
| `overlap` | IBKR: 2 runs at once, existing tables, raw opens that fail | the events table keeps `EventStore`'s promise: it never loses or sets back an event; until raw was taken for missing, one raw row per key, and a run that was alone and green has stored what it fetched |
| `pages` | 2 endpoints, pages of 2, up to 4 items, 3 fetches | a fetch covers the history though it grows; endpoints never mix |
| `allpages` | the same, up to 3 items, 2 fetches | **violated**: of several pages only one is stored |
| `accounts` | 2 accounts, 2 runs of up to 2 files, a purge, consolidations that may miss a table, malformed and legacy rows | accounts do not disturb each other; operations are kept; what a purge removed stays away, and leaves gold with the next green consolidation |
| `ibkr` | 3 runs over 3 days, reports of 2 days, 2 trades or fees of 2 accounts, any answer to 2 polls | giving up only after all polls; what leaves the window stays in the events, once; one paper deposit, before what it pays for |
| `executions` | a scheduled and a file-arrival execution in turn, a retry, any tables unreadable to a consolidation | but for a connector whose table was not read, green gold holds at least what its run stored, shows all silver and never gets older; and executions end |
| `together` | the same, overlapping, no retry, every table readable | no gold from unconverted events; gold changes only after green connectors |
| `validations` | 2 connectors, two commands among executions, `validate` and rewrites by hand; two tables broken or short at a time, one unreadable or not comparable; 1 or 3 rows | a green consolidation answers for the tables some validation read; a drop is noticed while its baselines are there; the report hides exactly what is known to be broken |
| `gold` | 6 sets of reports of one to three brokers, XTB's tables readable or not, in EUR, USD, GBP, GBX, PLN and none; targets EUR, GBP; a manual rate or none; one retry; a new quote; two runs | a rate leads to the target, nothing foreign passes at 1 but the stated exceptions, pence agree with pounds; every amount in gold is in the currency of its row; XTB's cash is the sum of its events; the tables agree; conversion ends |
| `command` | 3 connectors, timeout 6, interval 2 | nothing runs beside consolidation, an exit of 0 is earned, the wait tells the truth, the command ends |
| `upload` | 7 file names, copies of 2 files, 3 attempts, 4 commits, another writer | readers always find their files; old or new and never a mix; success means replaced |

Why the bounds suffice: the hazards need two of something — two runs, two
versions of an event, two pages, two accounts, two executions, two attempts —
and a third of what can be in the middle (a third run to meet the traces of two,
a third attempt after a failed retry, a third connector beside the one that
failed and the one that runs). `serial` has one event because runs treat
events independently; `Trading212Events` has several because pages do not.
`MaxConcurrency` is the state machine's own 3, above the two connectors listed.
`ibkr` has three days and a window of two so that an event can leave the window,
a gap can open, and a run can still follow; polls and delays are proved for all
values. `gold` enumerates reports rather than generating them: each set is made
of cases the transforms tell apart (three currencies in one order, a base that
is no target, ids two brokers share, fees alike, a workbook without a sheet, a
position without a price), and `MCGoldTables` says which. One retry and one new
quote are where a cached rate and a fetched one can differ. `validations` has
two commands, because what one leaves in `data_quality` serves the next: an
execution after another one that failed or skipped a connector, after a
`validate`, or after a rewrite by hand. Of 1 and 3 rows one is less than half of
the other, and half of 3 is no whole number. Two tables are broken or short of rows at a time (`MaxPoor`), so that one
command can leave a broken table and the other break one, and one is unreadable
(`MaxUnread`). Connectors are alike to it, hence the symmetry. `executions` may
fail to read both connectors' tables at a step (`MaxUnread`); in `together`, whose
overlaps need the states, all can be read, while its two properties are proved
for any number; in `gold` the unreadable are XTB's (`Unreadable`), the broker that `CashReconciles` is about. There a
table stays unreadable for the whole behaviour, which is no restriction: each
consolidation has its own holdings and events, and every choice is made.
Properties that are proved hold for all values (below). Every bound is a
CONSTANT of its module and named there. Deadlock is not checked where the
system rightly stops: all runs done, all executions ended, all bounds used.

Some properties are deliberately conditional, because the code does not keep the
unconditional form:

| Property | Holds | In the module |
|---|---|---|
| `RawOneRowPerKey` | until a raw table that is there is taken for missing | `misled` |
| `AloneGreenStored` | for runs never beside another; for IBKR, as above too | `alone`, `KeepsNewest`, `misled` |
| `GoldHoldsItsRun`, `GoldShowsSilver`, `GoldNeverOlder` | but for a connector whose table the consolidation could not read | `missed` |
| `GreenIsValid`, `GoldFromValidSilver` | but for a table that no validation of the execution could read | `looked`, `Answered` |
| `DropNoticedIfCovered` | while `data_quality` has all counts, for a check that can read it | `Covered`, `blind` |
| `ReportHidesBroken` | while `data_quality` can be read and has the verdicts on the section, and no table was rewritten by hand | `Judged`, `byHand` |
| `CashReconciles` | for a workbook of the whole history, both XTB tables opened | `WholeHistory`, `opened` |
| `GreenShown`, `AccountsMoveOn`, `PurgedLeavesGold` | for what no purge, replacement or malformed report took away | `Sound`, `Wanted` |
| `OldOrNew`, `ReturnedReplaced` | while no other writer's commit is the last | `OwnLast` |
| `RatesLeadToTarget`, `NothingAtPar`, `PenceFollowPounds` | but for the exceptions named in them | |
| `AmountsAsLabelled` | but for three exceptions and the workbook without a currency | `TwiceConverted`, `Unrated`, `ForeignCommission` |
| `FillsKept` | while no two reports are a window apart | `gap` |

Each condition is stated where it is used and its cause is under
[divergences](#where-code-and-documents-disagree).

## Fairness

Safety needs none. For liveness:

* `Orchestrator` (`FairSpec`): WF per execution. Step Functions drives its
  states; the state machine sets no `TimeoutSeconds`, so that containers end is
  an assumption about the tasks (their requests have timeouts), not about AWS.
* `GoldTables` (`FairGoldSpec`): WF of `Request \/ Convert`, as in
  `CurrencyConversion`'s `FairSpec`: each request has a timeout and its retries
  are bounded. New quotes and kills are not fair.
* `FullCommand`: WF of the threads, of the docker-mode main thread and of the
  triggering main thread. The execution waited for is *not* fair.

Nowhere is strong fairness assumed, and nothing of the brokers, who may never
finish a report or a history: no liveness is stated of the fetches, only that
the polls are bounded (`GivesUpAfterAllPolls`).

## What is proved

All proofs are checked by TLAPS, for every value of the constants under the
modules' named ASSUMEs. TLC evaluates the ASSUMEs in the runs.

* `TransferProofs`, of `StagedUpload`: `AlwaysReadable` — a reader finds every live file, for
  any number of attempts, files and other writers. The invariant adds that the
  files of the attempt not `pending` are in the bucket and that VACUUM spares
  live and staged files. `NeverAMix`, `SuccessMeansReplaced`, from
  `Replacing`: `stale_paths` is exactly what is live before `next_version`, and
  what the log has after that version is not the script's (`StaleIsBefore`); the
  staged copy is whole and shares no file with the old table (`CopyIsNew`); a
  script's commit that is the last of the log removes all that was live before it
  and adds a whole copy (`LastReplaces`). `StagedTypes`.
* `ConnectorProofs`, overlapping runs, raw opens that fail, for either broker:
  `TypeCorrect` (no run repeats it); `OneRowPerKey`; `AloneGreenIsStored`;
  `KeepsThePromise` (`Spec => EventStore!Spec`: initial states map to initial
  states, steps to steps or stutters). `OneRow` says that without a
  misled run a table has one row of a key, none before it is there, and the snapshot
  lists no holding twice: only `ingest_raw` writes the table (`RawLeft`), its merge
  adds no row beside another (`UpsertKeepsOne`), its append does only when the table
  is there, and that stays on record (`MisledStays`). `AloneInv`
  says, by the run's place, how far a lone run's report has got: raw, view, events;
  for IBKR under `misled = {}`, as one row of the key leaves its dedup no choice. It
  is what the property lacks: the report is safe only because, alone, nobody else
  could have replaced it on the way. For the refinement, `EventsOpened` (a run that
  merges opened an existing table) and `FromServed` (every row anywhere, in a run's
  hands too, is of a served report). `Established` is a hypothesis of
  `KeepsThePromise` alone.
* `ConnectorProofs`, runs one after another (`~Overlap`), tables fresh or not:
  `VersionsOnlyGrow`, `HeldAreKept`. `InOrder` = types ∧ `OneAtATime` ∧
  `FromServed` ∧ `FetchOrder` (a later report has no older version of an event)
  ∧ `EventsServed` ∧ `CreatesFirst` (who creates the events table found none, and
  there is none still) ∧ `FetchHasHeld` (the report about to replace the raw row
  has every event that is held and still reported).
* `OrchestratorProofs`, however executions overlap: `GoldIsConverted`,
  `GoldFollowsGreen`, `OrchestratorTypes`. IInv = types ∧ `TriesLeft` ∧
  `HeldConverted` ∧ `GoldConverted` ∧ `GreenBefore`. `HeldConverted` is the key:
  whatever the shared `events` table becomes meanwhile, the copy a job holds for
  the builders was checked to be whole when it was read.
* `OrchestratorProofs`, executions in turn (`~Overlap`): `GreenGoldHolds`,
  `GoldShowsAllSilver`, `GoldGetsNoOlder`, each for what a consolidation read
  (`missed` travels with a table's rows, from the read to gold). `Serial` says what a task has
  been through is in silver (`StoredSoFar`), which tables show all of silver by
  the job's place (`JobsSee`), that gold is never ahead of silver (`GoldBehind`:
  a builder that has read all of silver then writes nothing older) and level with
  it once nothing is going on and nothing has failed (`Settled`).
* `QualityProofs`: `GreenMeansValid`, `GoldBuiltFromValid`, `DropsAreNoticed`,
  `ReportIsHonest`, `QualityTypes`, from one invariant `QInv`: who can be at work
  beside whom (`Beside`); what a worker has found is still so when it writes it
  (`StillSo`); whoever succeeded has looked at all it answers for (`Looks`), and whoever read a
  broken table has failed or is about to (`StaysValid`);
  `data_quality`'s counts are of the last validation (`CountsKept`), and its
  verdicts on gold are true (`GoldTold`).
  Validity does not rest on `data_quality`: a worker that goes on has seen its own
  results, whoever overwrites them.
* `XtbAccountsProofs`: `AccountsTypes`. With no run beside a purge
  (`~PurgeOverlaps`): `PurgeIsLasting`, `PurgeReachesGold`, `OperationsStay`,
  from `Purged` = `Base` (rows are dated, one per key and account) ∧ `PurgeApart`
  (no run is active beside a purge) ∧ `PurgeCleans` (what the purge has been
  through holds nothing old of the account, nor has any run it in hand; gold no
  more once a green consolidation followed). With no run beside another either (`~RunsOverlap`):
  `GreenRunsAreShown`, `AccountsOnlyMoveOn`, from `Serial` = `Purged` ∧ `InStep`
  (what a run has in hand is what the tables hold) ∧ `SnapshotFromRaw` (what the
  snapshot shows can be rebuilt from raw) ∧ `GreenStored`. Both hypotheses are
  needed: the [divergences](#where-code-and-documents-disagree) at `run.py:367`
  and `:982` are what happens without them.
* `TransferProofs`, of `Trading212Events`: `AllOfTheHistory`, `AllEndpointsOrNone`,
  from `Paging`: the pages captured so far have what the endpoint had from the
  cursor on, nothing before it, and each item once (`UpToTheCursor`: items added
  meanwhile are in front of every cursor); a finished endpoint's rows are complete
  and, unless one failed, at the end all are (`DoneComplete`, `Requesting`); all
  rows are of this fetch (`RowsOfDone`), so that what `Ingest` keeps replaces
  every older row.
* `IbkrProofs`, of the Flex client inside the connector's runs: `FinishedReports`,
  `FullPatience`, `FlexTypes`, from `Polling`, whose `PollsAndSleeps` ties the time
  slept to the number of polls at each place of the loop.
* `IbkrProofs`, of the events kept from sliding windows: `NoFillIsLost`,
  `OneDeposit`, from `Keeping`: all that happened did so between
  the first day and today (`World`); each report in hand, in bronze and shown has
  everything before its day that its window covers (`Reports`); every row of the
  table is of an activity that happened or is an owner's deposit, one per identity,
  none newer than the run at hand (`Rows`);
  while the windows met, what happened before the day shown is in the table
  (`Filled`); and deposits are where and when they should be (`Deposited`). Neither
  property is inductive: that nothing is lost needs the reports to be whole, and
  that a deposit precedes what is shown needs the earliest activity of the window
  it was made from.
* `OrchestratorProofs`, of `FullCommand`: `NothingBeside`, `GreenIsAll`,
  `WaitIsTrue`, `CommandTypes`. `Pool` says what the thread pool holds at each
  place of the main thread (an early failure leaves `seen` short of all, and still
  no thread at work once the pool was left), `Waiting` that the elapsed time is the
  number of polls times the interval.
* `GoldProofs`, of conversion: `RatesReachTheTarget`, `ForeignIsConverted`,
  `OneRateInATable`, and `GoldConverts` (`GoldSpec => Spec`: transforms and
  builders leave a conversion alone, so the three hold of the whole pipeline that
  the run `gold` checks). `Converting` = types ∧ `Knows` (each entry of the cache
  leads from its currency to the target) ∧ `HoldingsOut` and `EventsOut` (the rates
  the table is about to get are those the cache still has, or the events' own) ∧
  `PoundKnown`, `PenceAsked` (a pound before any pence is in the cache, and pence
  asked of the provider have its rate) ∧ the properties.
* `GoldProofs`, of the gold tables:
  * `OneStory`. `Building` says what the builders a run has behind it made, as long
    as none failed. The rest is arithmetic: the rows of an income table that are
    like one of the summary split its events among them (`RowsSplit`), and a sum
    over a set is the sum of the sums over its parts (`SumOfParts`).
  * `GoldIsLabelled`. By broker, every event and holding that a transform makes is
    in the currency it says, or one of the exceptions (`IbkrRows`, `T212Rows`,
    `XtbRowsAre` and the three `…Snapshot`); the dedups and the concatenation add
    none (`TradesAreSound`). `Labelling` = `Reported` (what is converted is of the reports, as far as their tables were opened) ∧
    `Named` (`events` is only ever converted when every row names its currency:
    an empty currency in a row would make the row's label a lie) ∧ `Filled` (a
    table is empty or its builder's). Rows of one key then add up amounts of one
    currency (`RowIsLabelled`).
  * `CashIsAccountedFor`, when both XTB tables were opened; what else was not does not
    matter (`ReadIsOfReport`). With the whole history no two operations share an
    identity, so each survives both dedups, whatever ids the other brokers use
    (`EachOperationOnce`); moving a sum along a one-to-one map (`SumMoved`) takes it
    from the workbook's rows to the events and on to the summary (`XtbSummary`,
    `XtbEventsAddUp`), and the CASH holding is the one row of its kind
    (`XtbHolding`).
* `RowLemmas`: what `IbkrProofs` and `GoldProofs` need of lists, of what is picked from them, of
  `Deduped` and of sums over finite sets. The sums are folds, which the prover knows
  only by a CHOOSE of a recursive function; that one exists, and every law of sums,
  is shown by a least counterexample among the subsets of a finite set (`Minimal`),
  which takes the place of an induction theorem.

The properties were model-checked before they were proved. The assumptions on
constants are types, bounds that are naturals, non-empty sets, and distinctness:
`Quality`'s `NamesAreDistinct` and `OwnersAreDistinct` (a table's and a worker's
names are not each other's, and `data_quality` is no gold table), `Connector`'s
`BrokerIsOneOfTwo`, `Trading212Events`' `EndpointsAreDistinct`, `XtbAccounts`' `MaxAsOf` ≥ 1 (a report may have an
operation), `CurrencyConversion`'s `ListsAreSequences`, `IbkrConnector`'s
`AccountsAreFinite` and `NamesAreNotEmpty` (an execution has an id), and
`GoldTables`' `AmountsAreIntegers` and `ReportsAreCredible`.

`ReportsAreCredible` is what the code takes for granted of a broker's answer and
cannot check: an element's amounts are in the currency it names beside them, IBKR's
`netCash` and the amount of an XTB trade are negative for a purchase, Trading 212's
`netValue` (wallet's currency) and `filledValue` (security's) have no sign. It says
nothing of what the transforms have to get right: which of the currencies an
amount is to be converted from, whether a rate is there, ids, order and missing parts.

Only model-checked is liveness (`ExecutionsEnd`, `CommandEnds`, `ConversionEnds`),
which is beyond this prover. `AllPagesStored` is no theorem, as the code
violates it. Every other property of the runs is a theorem.

No module declares a RECURSIVE operator.

## Where code and documents disagree

One has a run (`allpages`). The others are reachable in the models with the
constant or condition named, and explain the conditions of the properties.

| Source | Code | Document | In the model |
|---|---|---|---|
| `raw/ingest.py:80` | of several Trading 212 pages one is kept | `trading212/client.py:168` "Fetch all historical orders, following pagination." | run `allpages` |
| `raw/ingest.py:165` | any error on opening is taken for "no table": a second row of the key is appended, stays for good, and IBKR's holdings count twice after a later merge | `:166` "First fetch" | `OpenMayFail`; hence `misled` |
| `raw/ingest.py:165` | two first runs leave two rows of each key for good | ADR 0117:72 "updates its row in place" | `Overlap`, not `Established`; hence `misled` |
| `ibkr/transform.py:349` | of an event's duplicates any is kept, so with two raw rows a green run may store the older version | `:345` "keeping the version from the latest fetched_at" | `KeepsNewest`, `misled` |
| `raw/ingest.py:178` | an older fetch committed later wins in bronze | ARCHITECTURE-SPINE.md:79 "latest `fetched_at` wins" | `Overlap` |
| `run.py:827` | a green run may transform another run's report | SPEC.md:25 of the retention spec | `Overlap`; hence `alone` |
| `run.py:842` | a kill between bronze and silver loses events that then leave the window | `ibkr/connector.py:25` "survive only via the accumulated raw table" | hence `reported` |
| `xtb/transform.py:135` | no older report is left to fall back to | `:89` "falls back to the previous good row" | hence `Sound` |
| `run.py:367` | of two overlapping XTB runs the slower puts back the older snapshot | ADR 0110:39 "cache of the latest uploaded file" | `RunsOverlap` |
| `run.py:982` | a run beside the purge writes the account back | ADR 0118:57 "removed end-to-end" | `PurgeOverlaps` |
| `ibkr/transform.py:461` | the synthetic deposit moves with the window, past events kept from earlier ones | `:411` "precedes all other activity" | hence `shown` in `OneDepositFirst` |
| `ibkr/transform.py:233` | rates lead to EUR whatever `--target-currency` is | comment at 601–603 | `RatesLeadToTarget`'s exception |
| `ibkr/client.py:122` | transient codes are fatal for the request | `:42` "should be retried" | `FlexReport`, `SendRequest` |
| `trading212/transform.py:367` | `filledValue`, in the security's currency, stands in for a missing `netValue` and is multiplied by the wallet's rate | comment at 397–400, "converted from wallet currency" | `TwiceConverted` |
| `ibkr/transform.py:485` | an account whose reports begin to have AccountInformation gets a second deposit | `:411` | `informs` does not change |
| `orchestrator/main.tf:254` | overlapping executions leave gold older than silver | `run.py:607` "picks up XTB silver on every run" | `Overlap` |
| `consolidate_events.py:57` | a broker's table that cannot be read for any reason is skipped and the job succeeds: green gold lacks the broker, or goes back to nothing of it | `:36` "Missing or empty tables are skipped"; `run.py:607` | `MaxUnread`, `Unreadable`; hence `missed`, `opened` |
| `extract.py:53` | a snapshot that cannot be opened has no holdings, with the same result (one opened that cannot be read raises) | `run.py:607` "picks up XTB silver on every run" | the same |
| `normalize.py:167` | the rows without values are already in the table | the comment there | `Orchestrator`: `events` not whole |
| `quality.py:781` | each validation overwrites the baselines of other tables | `:5` "(append mode)" | hence `Covered` |
| `quality.py:684` | a table that is there and cannot be read is one warning, "not found"; neither schema nor nulls are looked at | `:9` "FAIL-level issues (schema mismatch, nulls in required fields) cause `pipeline validate` to exit non-zero" | `MaxUnread`; hence `looked` |
| `quality.py:518` | `data_quality` that cannot be read is a first run, and a lost half passes | `:508` "if no previous result exists (first run)" | `MaxUnread`; hence `blind` |
| `report/loader.py:101` | `data_quality` that cannot be read is empty, and no section is hidden | `renderer.py:231` "have FAIL-level DQ checks are hidden" | `Shown`, `missing` |
| `report/renderer.py:234` | a failed table is hidden only until the next validation | `:231` | hence `Judged` |
| `_staged_upload.py:112` | a commit whose key is there, another writer's, is skipped, or overwritten when it comes between the check and the upload; success is reported either way | `:65` "an object that already exists remotely is from an interrupted attempt" | `OtherWriter`; hence `OwnLast` |
| `_staged_upload.py:73` | a retry uploads fresh names and resumes nothing | `:66` "re-runs resume where they stopped" | `StagedUpload`, `named` |

Also seen, with no document to contradict: a missing `fxRateToBase` reads as
rate 1 (`NothingAtPar` names it); a holding without currency converts at 1; one
workbook without its Open Positions sheet keeps the events of every broker out of
gold (`normalize.py:137`); fees alike in account, day and description are one
event; a commission in a third currency is taken for one in the security's; once pence were
converted before pounds, every amount in pence of the table keeps that quote and
the pounds may get another (`PenceFollowPounds` speaks of a pound before the first
pence: the attempt to prove it for each pence after a pound found this); a wait that times out, or a lost answer to StartExecution, leaves the execution
running.

## What is not modelled

`query.py` reads only, and so does `report/` but for its choice of sections:
charts and HTML are layout. `crypto.py`, `storage.py`, `s3.py`, `secrets.py`
choose keys, paths and options: their outcomes (secrets missing, an open that
fails) are alternatives of the actions. Terraform beyond the state machine is
configuration. Of parsing, XML, JSON, cell formats and header search are taken as
read; the row and field rules behind them are modelled. Dates are months (days in
`IbkrConnector`) or missing. The percentages of holdings are over reals and left
out, as are event counts beside the sums. Also left out: the schema-only
creation of a raw table on an empty fetch, which leaves no rows; the synthetic
warning an XTB file leaves that was dropped for its name, and every check that can
only warn and takes nothing from `data_quality`; a staged upload to a destination
without any version; in `XtbAccounts` operations without an ID, of which the code
keeps one per type. No property answers for the snapshot of a connector that an
execution skipped: the code does not validate it again. Delta Lake, S3, Step Functions,
Frankfurter and the brokers are external: modelled by what the code relies on.

## Plan

The modules were built from what the rest relies on outwards: `Connector` with
`EventStore` (the tables everybody reads), then `StagedUpload`,
`Trading212Events`, `XtbAccounts`, `Orchestrator`, `FlexReport`, `Quality`,
`CurrencyConversion` and `FullCommand`; then the brokers' records, `GoldTables`
and `IbkrConnector`, which join them to gold.

What is left to model is small: secrets by mode (`secrets.py`: precedence of
environment, `.env` and AWS), and the account whose reports begin to have
AccountInformation.
