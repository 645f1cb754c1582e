----------------------------- MODULE Connector -----------------------------
(***************************************************************************)
(* One broker's `run-connector` task: fetch the snapshot and the events,   *)
(* merge both onto the raw table, read the raw table back once, overwrite  *)
(* the broker's snapshot table and merge its events table, then validate.  *)
(*                                                                         *)
(* Several runs of the same broker may be alive at once (a scheduled       *)
(* execution, a manual one, a retry) and each may fail or be killed at any *)
(* step; nothing in the code excludes them from each other.  The tables    *)
(* are the only state they share.                                          *)
(*                                                                         *)
(* The broker is the environment: events happen, are corrected, and leave  *)
(* the period its report covers.                                           *)
(***************************************************************************)
EXTENDS Naturals, Sequences

CONSTANTS
    Run,          \* the run-connector tasks that ever start
    Event,        \* event identities (EVENT_IDENTITY_SUBSETS of the broker)
    MaxClock,     \* bound on the number of fetches that get a fetched_at
    MaxVersion,   \* bound on the corrections of one event
    Overlap,      \* may a run start while another one is active?
    Established,  \* do the raw and events tables exist from the start?
    OpenMayFail,  \* may opening an existing raw table raise?
    Broker,       \* whose task it is, "ibkr" or "trading212"
    WindowMoves   \* do events leave the period the report covers?

ASSUME BoundsAreNat == MaxClock \in Nat /\ MaxVersion \in Nat
ASSUME SwitchesAreBoolean ==
    {Overlap, Established, OpenMayFail, WindowMoves} \subseteq BOOLEAN
ASSUME BrokerIsOneOfTwo == Broker \in {"ibkr", "trading212"}

\* Trading 212 reads fetched_at before its request, IBKR after the answer.
StampFirst == Broker = "trading212"

\* Trading 212 keeps the newest of an event's duplicates (dedup_events), IBKR's
\* `unique` any of them.
KeepsNewest == Broker = "trading212"

Layer == {"snapshot", "events"}

Time    == 0 .. MaxClock        \* 0 is before every fetch
Version == 0 .. MaxVersion      \* 0 means the event is not there

Body == [Event -> Version]                \* what a report says of each event
Row  == [at: Time, body: Body]            \* a raw row, reduced to what is read
Stored == [at: Time, version: Version]    \* a row of the events table
NoEvent == [at |-> 0, version |-> 0]
NoBody == [e \in Event |-> 0]

VARIABLES
    book,         \* the broker's current version of each event
    reported,     \* the events inside the report period
    clock,        \* the last fetched_at given out
    served,       \* history: every events response a fetch completed with
    rawExists,    \* is raw/{broker} there?
    raw,          \* its rows, by the retention key of the layer that writes them
    rawCurrent,   \* the runs whose open handle is at the table's latest version
    snapshot,     \* normalized/{broker}_snapshot: the fetch it shows and the raw rows it lists
    eventsExist,  \* is normalized/{broker}_events there?
    events,       \* its rows, by identity
    eventsCurrent,\* the runs whose open handle is at the table's latest version
    run,          \* the state of each run
    alone,        \* history: the runs no other run was ever active beside
    misled        \* history: the runs that wrote an existing raw table as if it were missing

broker == <<book, reported>>
vars == <<book, reported, clock, served, rawExists, raw, rawCurrent, snapshot,
          eventsExist, events, eventsCurrent, run, alone, misled>>

PC == {"idle", "fetch", "answer", "open", "commit", "fetched", "vacuum", "read",
       "write", "openEvents", "merge", "validate", "done"}
Outcome == {"none", "green", "red", "skipped"}   \* red: failed or killed

RunState == [pc : PC, layer : Layer, at : Time, body : Body, failed : BOOLEAN,
             found : BOOLEAN, view : [Layer -> Seq(Row)], outcome : Outcome]

NewRun == [pc |-> "idle", layer |-> "snapshot", at |-> 0, body |-> NoBody,
           failed |-> FALSE, found |-> FALSE,
           view |-> [l \in Layer |-> <<>>], outcome |-> "none"]

Active(r) == run[r].pc \notin {"idle", "done"}

---------------------------------------------------------------------------
(* The raw table: merge on the retention key.                              *)

\* Faulty: the merge predicate never matches, every fetch is inserted.
UpsertInsertsOnly(rows, row) == Append(rows, row)

\* A matched key has every one of its rows replaced, a new key is inserted.
Upsert(rows, row) == IF rows = <<>> THEN <<row>> ELSE [i \in DOMAIN rows |-> row]

RowOf(r) == [at |-> run[r].at, body |-> run[r].body]

(* The events transform and the events table.                              *)

\* Faulty: the deduplication takes each column of an event from any of its rows.
PickedMixed(rows, e) ==
    LET having == {i \in DOMAIN rows : rows[i].body[e] > 0}
    IN  IF having = {} THEN {NoEvent}
        ELSE {[at |-> rows[i].at, version |-> rows[j].body[e]] : i, j \in having}

\* Faulty: Trading 212's transform keeps any of an event's duplicates too.
PickedAny(rows, e) ==
    LET having == {i \in DOMAIN rows : rows[i].body[e] > 0}
    IN  IF having = {} THEN {NoEvent}
        ELSE {[at |-> rows[i].at, version |-> rows[i].body[e]] : i \in having}

\* What one event may become in the normalized batch made from these rows.
Picked(rows, e) ==
    LET having == {i \in DOMAIN rows : rows[i].body[e] > 0}
        kept   == {i \in having : KeepsNewest =>
                                    \A j \in having : rows[j].at <= rows[i].at}
    IN  IF having = {} THEN {NoEvent}
        ELSE {[at |-> rows[i].at, version |-> rows[i].body[e]] : i \in kept}

\* The normalized batches the transform may make of these rows.
Normalized(rows) ==
    {n \in [Event -> UNION {Picked(rows, e) : e \in Event}] :
        \A e \in Event : n[e] \in Picked(rows, e)}

\* Faulty: the events table is overwritten by each run's batch.
MergeOverwrites(table, batch) == batch

\* Matched rows change only when the incoming fetch is newer; nothing is deleted.
MergeNewer(table, batch) ==
    [e \in Event |-> IF batch[e].at > table[e].at THEN batch[e] ELSE table[e]]

\* The rows the snapshot transform keeps: the latest fetch of the source.
LatestFetch(rows) ==
    {i \in DOMAIN rows : \A j \in DOMAIN rows : rows[j].at <= rows[i].at}

---------------------------------------------------------------------------
(* The broker.                                                             *)

Visible == [e \in Event |-> IF e \in reported THEN book[e] ELSE 0]

Happens(e) ==
    /\ book[e] = 0
    /\ 0 < MaxVersion
    /\ book' = [book EXCEPT ![e] = 1]
    /\ reported' = reported \union {e}
    /\ UNCHANGED <<clock, served, rawExists, raw, rawCurrent, snapshot,
                   eventsExist, events, eventsCurrent, run, alone, misled>>

Corrected(e) ==
    /\ e \in reported
    /\ book[e] < MaxVersion
    /\ book' = [book EXCEPT ![e] = @ + 1]
    /\ UNCHANGED <<reported, clock, served, rawExists, raw, rawCurrent, snapshot,
                   eventsExist, events, eventsCurrent, run, alone, misled>>

LeavesReport(e) ==
    /\ WindowMoves
    /\ e \in reported
    /\ reported' = reported \ {e}
    /\ UNCHANGED <<book, clock, served, rawExists, raw, rawCurrent, snapshot,
                   eventsExist, events, eventsCurrent, run, alone, misled>>

---------------------------------------------------------------------------
(* fetch_connector.                                                        *)

tables == <<rawExists, raw, rawCurrent, snapshot, eventsExist, events, eventsCurrent>>

Step(r, changed) == run' = [run EXCEPT ![r] = changed]

At(r, pc) == run[r].pc = pc

\* The task ends: only what it had fetched last is remembered of it.
End(r, outcome) ==
    Step(r, [NewRun EXCEPT !.pc = "done", !.at = run[r].at, !.body = run[r].body,
                           !.outcome = outcome])

\* Both fetches are tried, the events fetch even after the snapshot's failed.
AfterLayer(rec) ==
    IF rec.layer = "snapshot" THEN [rec EXCEPT !.pc = "fetch", !.layer = "events"]
                              ELSE [rec EXCEPT !.pc = "fetched"]

Start(r) ==
    /\ At(r, "idle")
    /\ Overlap \/ \A o \in Run : ~Active(o)
    /\ Step(r, [run[r] EXCEPT !.pc = "fetch"])
    /\ alone' = IF \E o \in Run : Active(o)
                THEN {a \in alone : ~Active(a)}
                ELSE alone \union {r}
    /\ UNCHANGED <<broker, clock, served, tables, misled>>

\* No credentials: fetch_kwargs is empty, the run ends green without a fetch.
Skip(r) ==
    /\ At(r, "idle")
    /\ End(r, "skipped")
    /\ UNCHANGED <<broker, clock, served, tables, alone, misled>>

\* The snapshot's payload plays no part here beyond the fetch it comes from.
FetchSnapshot(r) ==
    /\ At(r, "fetch")
    /\ run[r].layer = "snapshot"
    /\ clock < MaxClock
    /\ clock' = clock + 1
    /\ Step(r, [run[r] EXCEPT !.pc = "open", !.at = clock + 1])
    /\ UNCHANGED <<broker, served, tables, alone, misled>>

\* The events fetch reads the clock and the report at two different moments.
RequestEvents(r) ==
    /\ At(r, "fetch")
    /\ run[r].layer = "events"
    /\ clock < MaxClock
    /\ IF StampFirst
       THEN /\ clock' = clock + 1
            /\ Step(r, [run[r] EXCEPT !.pc = "answer", !.at = clock + 1])
       ELSE /\ Step(r, [run[r] EXCEPT !.pc = "answer", !.body = Visible])
            /\ UNCHANGED clock
    /\ UNCHANGED <<broker, served, tables, alone, misled>>

ReceiveEvents(r) ==
    /\ At(r, "answer")
    /\ IF StampFirst
       THEN /\ Step(r, [run[r] EXCEPT !.pc = "open", !.body = Visible])
            /\ UNCHANGED clock
       ELSE /\ clock < MaxClock
            /\ clock' = clock + 1
            /\ Step(r, [run[r] EXCEPT !.pc = "open", !.at = clock + 1])
    /\ served' = served \union {[at |-> run'[r].at, body |-> run'[r].body]}
    /\ UNCHANGED <<broker, tables, alone, misled>>

\* Faulty: a failed request is ingested as an empty report.
FetchFailsEmpty(r) ==
    /\ At(r, "answer")
    /\ Step(r, [run[r] EXCEPT !.pc = "open", !.body = NoBody])
    /\ UNCHANGED <<broker, clock, served, tables, alone, misled>>

\* Any exception of a fetch or of its ingest is recorded, the run goes on.
FetchFails(r) ==
    /\ run[r].pc \in {"fetch", "answer", "open", "commit"}
    /\ Step(r, AfterLayer([run[r] EXCEPT !.failed = TRUE]))
    /\ UNCHANGED <<broker, clock, served, tables, alone, misled>>

---------------------------------------------------------------------------
(* ingest_raw: open the table, then merge onto it or create it.            *)

OpenRaw(r) ==
    /\ At(r, "open")
    /\ rawExists
    /\ Step(r, [run[r] EXCEPT !.pc = "commit", !.found = TRUE])
    /\ rawCurrent' = rawCurrent \union {r}
    /\ UNCHANGED <<broker, clock, served, rawExists, raw, snapshot, eventsExist,
                   events, eventsCurrent, alone, misled>>

\* `except Exception`: every error of the open is taken for a missing table.
RawNotOpened(r) ==
    /\ At(r, "open")
    /\ ~rawExists \/ OpenMayFail
    /\ Step(r, [run[r] EXCEPT !.pc = "commit", !.found = FALSE])
    /\ UNCHANGED <<broker, clock, served, tables, alone, misled>>

\* A commit on a table that moved on since the open raises: then only FetchFails.
MergeRaw(r) ==
    /\ At(r, "commit")
    /\ run[r].found
    /\ r \in rawCurrent
    /\ raw' = [raw EXCEPT ![run[r].layer] = Upsert(@, RowOf(r))]
    /\ rawCurrent' = {}
    /\ Step(r, AfterLayer(run[r]))
    /\ UNCHANGED <<broker, clock, served, rawExists, snapshot, eventsExist,
                   events, eventsCurrent, alone, misled>>

\* The bootstrap write appends, whatever the table holds by now.
AppendRaw(r) ==
    /\ At(r, "commit")
    /\ ~run[r].found
    /\ rawExists' = TRUE
    /\ raw' = [raw EXCEPT ![run[r].layer] = Append(@, RowOf(r))]
    /\ rawCurrent' = {}
    /\ Step(r, AfterLayer(run[r]))
    /\ misled' = IF rawExists THEN misled \union {r} ELSE misled
    /\ UNCHANGED <<broker, clock, served, snapshot, eventsExist, events,
                   eventsCurrent, alone>>

\* Faulty: the errors of the fetches are dropped.
FinishFetchAnyway(r) ==
    /\ At(r, "fetched")
    /\ Step(r, [run[r] EXCEPT !.pc = "vacuum"])
    /\ UNCHANGED <<broker, clock, served, tables, alone, misled>>

FinishFetch(r) ==
    /\ At(r, "fetched")
    /\ IF run[r].failed THEN End(r, "red")
                        ELSE Step(r, [run[r] EXCEPT !.pc = "vacuum"])
    /\ UNCHANGED <<broker, clock, served, tables, alone, misled>>

\* VACUUM removes files no current row lives in.
Vacuum(r) ==
    /\ At(r, "vacuum")
    /\ Step(r, [run[r] EXCEPT !.pc = "read"])
    /\ UNCHANGED <<broker, clock, served, tables, alone, misled>>

---------------------------------------------------------------------------
(* transform_connector, run_validation.                                    *)

ReadRaw(r) ==
    /\ At(r, "read")
    /\ Step(r, [run[r] EXCEPT !.pc = "write", !.view = raw])
    /\ UNCHANGED <<broker, clock, served, tables, alone, misled>>

WriteSnapshot(r) ==
    /\ At(r, "write")
    /\ LET rows   == run[r].view["snapshot"]
           latest == LatestFetch(rows)
       IN  snapshot' = [at |-> IF latest = {} THEN 0
                               ELSE rows[CHOOSE i \in latest : TRUE].at,
                        rows |-> latest]
    /\ Step(r, [run[r] EXCEPT !.pc = "openEvents"])
    /\ UNCHANGED <<broker, clock, served, rawExists, raw, rawCurrent, eventsExist,
                   events, eventsCurrent, alone, misled>>

OpenEvents(r) ==
    /\ At(r, "openEvents")
    /\ Step(r, [run[r] EXCEPT !.pc = "merge", !.found = eventsExist])
    /\ eventsCurrent' = IF eventsExist THEN eventsCurrent \union {r} ELSE eventsCurrent
    /\ UNCHANGED <<broker, clock, served, rawExists, raw, rawCurrent, snapshot,
                   eventsExist, events, alone, misled>>

MergeEvents(r) ==
    /\ At(r, "merge")
    /\ run[r].found
    /\ r \in eventsCurrent
    /\ \E batch \in Normalized(run[r].view["events"]) :
            events' = MergeNewer(events, batch)
    /\ eventsCurrent' = {}
    /\ Step(r, [run[r] EXCEPT !.pc = "validate"])
    /\ UNCHANGED <<broker, clock, served, rawExists, raw, rawCurrent, snapshot,
                   eventsExist, alone, misled>>

\* The table was missing at the open: it is written with mode="overwrite".
CreateEvents(r) ==
    /\ At(r, "merge")
    /\ ~run[r].found
    /\ events' \in Normalized(run[r].view["events"])
    /\ eventsExist' = TRUE
    /\ eventsCurrent' = {}
    /\ Step(r, [run[r] EXCEPT !.pc = "validate"])
    /\ UNCHANGED <<broker, clock, served, rawExists, raw, rawCurrent, snapshot, alone,
                   misled>>

\* An exception of the vacuum, of a transform or of a write ends the task; a
\* merge onto an events table that moved on since its open is one.
Raises(r) ==
    /\ run[r].pc \in {"vacuum", "read", "write", "openEvents", "merge"}
    /\ End(r, "red")
    /\ UNCHANGED <<broker, clock, served, tables, alone, misled>>

Validate(r) ==
    /\ At(r, "validate")
    /\ \E outcome \in {"green", "red"} : End(r, outcome)
    /\ UNCHANGED <<broker, clock, served, tables, alone, misled>>

\* The task is stopped from outside (out of memory, a stopped execution).
Killed(r) ==
    /\ Active(r)
    /\ End(r, "red")
    /\ UNCHANGED <<broker, clock, served, tables, alone, misled>>

---------------------------------------------------------------------------

Init ==
    /\ book = NoBody
    /\ reported = {}
    /\ clock = 0
    /\ served = {}
    /\ rawExists = Established
    /\ raw = [l \in Layer |-> <<>>]
    /\ rawCurrent = {}
    /\ snapshot = [at |-> 0, rows |-> {}]
    /\ eventsExist = Established
    /\ events = [e \in Event |-> NoEvent]
    /\ eventsCurrent = {}
    /\ run = [r \in Run |-> NewRun]
    /\ alone = {}
    /\ misled = {}

BrokerNext == \E e \in Event : Happens(e) \/ Corrected(e) \/ LeavesReport(e)

RunNext(r) ==
    \/ Start(r) \/ Skip(r)
    \/ FetchSnapshot(r) \/ RequestEvents(r) \/ ReceiveEvents(r) \/ FetchFails(r)
    \/ OpenRaw(r) \/ RawNotOpened(r) \/ MergeRaw(r) \/ AppendRaw(r)
    \/ FinishFetch(r) \/ Vacuum(r)
    \/ ReadRaw(r) \/ WriteSnapshot(r) \/ OpenEvents(r)
    \/ MergeEvents(r) \/ CreateEvents(r)
    \/ Raises(r) \/ Validate(r) \/ Killed(r)

Next == BrokerNext \/ \E r \in Run : RunNext(r)

Spec == Init /\ [][Next]_vars

---------------------------------------------------------------------------
(* Correctness.                                                            *)

\* The type of every variable.
TypeOK ==
    /\ book \in Body
    /\ reported \in SUBSET Event
    /\ clock \in Time
    /\ served \in SUBSET Row
    /\ rawExists \in BOOLEAN
    /\ raw \in [Layer -> Seq(Row)]
    /\ rawCurrent \in SUBSET Run
    /\ snapshot \in [at : Time, rows : SUBSET Nat]
    /\ eventsExist \in BOOLEAN
    /\ events \in [Event -> Stored]
    /\ eventsCurrent \in SUBSET Run
    /\ run \in [Run -> RunState]
    /\ alone \in SUBSET Run
    /\ misled \in SUBSET Run

\* Until some run takes the raw table that is there for missing, a re-fetched key
\* replaces its row in place (ingest_raw): whatever runs overlap, fail or die, the
\* table never holds two rows of a retention key, and the snapshot table lists no
\* holding of the latest fetch twice.
RawOneRowPerKey ==
    misled = {} => /\ \A l \in Layer : Len(raw[l]) <= 1
                   /\ \A i, j \in snapshot.rows : i = j

\* A run that was never beside another one and ended green has put every event
\* it fetched into the events table, as new as its own fetch or newer: no error
\* on the way (a failed fetch, a commit conflict, an aborted transform) can
\* still end green, and no later run can take the events back.  IBKR's transform
\* keeps any of an event's duplicates, so for it the raw table may never have
\* been taken for missing.
AloneGreenStored ==
    KeepsNewest \/ misled = {} =>
        \A r \in alone : run[r].outcome = "green" =>
            \A e \in Event : run[r].body[e] > 0 => events[e].at >= run[r].at

\* A repeated event identity resolves to the broker's latest version: what the
\* events table says of an event never goes back to an earlier version.
VersionsNeverRegress ==
    [][\A e \in Event : events'[e].version >= events[e].version]_events

\* An event the pipeline holds, in the raw or in the events table, is gone from
\* both only after it left the report period: a failed fetch, or a kill between the
\* raw write that drops it and the events write, loses nothing the broker still
\* reports.
Held(e) ==
    \/ events[e] # NoEvent
    \/ \E i \in DOMAIN raw["events"] : raw["events"][i].body[e] > 0
HeldWhileReported ==
    [][\A e \in reported : Held(e) => Held(e)']_<<raw, events>>

\* The events table keeps the promise of EventStore: every row comes from a
\* report that was fetched, and moves only to a later one.
Promise == INSTANCE EventStore WITH served <- served, events <- events,
                                  Time <- Time, Version <- Version
ImplementsEventStore == Promise!Spec
============================================================================
