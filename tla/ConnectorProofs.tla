-------------------------- MODULE ConnectorProofs --------------------------
(***************************************************************************)
(* What is proved of Connector, for every value of its constants.          *)
(***************************************************************************)
EXTENDS Connector, TLAPS

---------------------------------------------------------------------------
(* What the helpers return.                                                *)

LEMMA RowOfType ==
    ASSUME NEW r \in Run, run \in [Run -> RunState]
    PROVE  RowOf(r) \in Row
  BY DEF RowOf, Row, RunState

LEMMA VisibleType ==
    ASSUME book \in Body
    PROVE  Visible \in Body
  BY BoundsAreNat DEF Visible, Body, Version

LEMMA UpsertType ==
    ASSUME NEW rows \in Seq(Row), NEW row \in Row
    PROVE  Upsert(rows, row) \in Seq(Row)
  <1>1. CASE rows = <<>>
    BY <1>1 DEF Upsert
  <1>2. CASE rows # <<>>
    <2>1. PICK n \in Nat : DOMAIN rows = 1 .. n
      OBVIOUS
    <2>2. [i \in DOMAIN rows |-> row] \in [1 .. n -> Row]
      BY <2>1
    <2>3. QED
      BY <1>2, <2>2 DEF Upsert
  <1>3. QED
    BY <1>1, <1>2

LEMMA PickedType ==
    ASSUME NEW rows \in Seq(Row), NEW e \in Event
    PROVE  Picked(rows, e) \in SUBSET Stored
  <1>1. NoEvent \in Stored
    BY BoundsAreNat DEF NoEvent, Stored, Time, Version
  <1>2. \A i \in DOMAIN rows : rows[i].at \in Time /\ rows[i].body[e] \in Version
    <2>1. TAKE i \in DOMAIN rows
    <2>2. rows[i] \in Row
      OBVIOUS
    <2>3. rows[i].at \in Time /\ rows[i].body \in [Event -> Version]
      BY <2>2 DEF Row, Body
    <2>4. QED
      BY <2>3
  <1>3. SUFFICES ASSUME NEW p \in Picked(rows, e)
                 PROVE  p \in Stored
    OBVIOUS
  <1>4. \/ p = NoEvent
        \/ \E i \in DOMAIN rows : p = [at |-> rows[i].at, version |-> rows[i].body[e]]
    BY <1>3 DEF Picked
  <1>5. QED
    BY <1>1, <1>2, <1>4 DEF Stored

LEMMA NormalizedType ==
    ASSUME NEW rows \in Seq(Row), NEW batch \in Normalized(rows)
    PROVE  batch \in [Event -> Stored]
  BY PickedType DEF Normalized

LEMMA MergeNewerType ==
    ASSUME NEW table \in [Event -> Stored], NEW batch \in [Event -> Stored]
    PROVE  MergeNewer(table, batch) \in [Event -> Stored]
  BY DEF MergeNewer

---------------------------------------------------------------------------
(* Type correctness.                                                       *)

LEMMA StepType ==
    ASSUME NEW r \in Run, run \in [Run -> RunState],
           NEW changed \in RunState, Step(r, changed)
    PROVE  run' \in [Run -> RunState]
  BY DEF Step

LEMMA AfterLayerType ==
    ASSUME NEW rec \in RunState
    PROVE  AfterLayer(rec) \in RunState
  BY DEF AfterLayer, RunState, PC, Layer

LEMMA FailedType ==
    ASSUME NEW rec \in RunState
    PROVE  AfterLayer([rec EXCEPT !.failed = TRUE]) \in RunState
  <1>1. [rec EXCEPT !.failed = TRUE] \in RunState
    BY DEF RunState
  <1>2. QED
    BY <1>1, AfterLayerType

LEMMA NewRunType == NewRun \in RunState
  BY BoundsAreNat
  DEF NewRun, RunState, PC, Layer, Outcome, NoBody, Body, Time, Version

LEMMA EmptyView == \A l \in Layer : NewRun.view[l] = <<>>
  BY DEF NewRun

LEMMA InitType == Init => TypeOK
  BY NewRunType, BoundsAreNat, SwitchesAreBoolean
  DEF Init, TypeOK, NoBody, Body, Time, Version, Stored, NoEvent

\* The run's record after each kind of step.
LEMMA EndType ==
    ASSUME NEW r \in Run, run \in [Run -> RunState],
           NEW outcome \in Outcome, End(r, outcome)
    PROVE  run' \in [Run -> RunState]
  <1>1. [NewRun EXCEPT !.pc = "done", !.at = run[r].at, !.body = run[r].body,
                       !.outcome = outcome] \in RunState
    BY NewRunType DEF RunState, PC
  <1>2. QED
    BY <1>1, StepType DEF End

LEMMA NextType == TypeOK /\ [Next]_vars => TypeOK'
  <1> SUFFICES ASSUME TypeOK, [Next]_vars
               PROVE  TypeOK'
    OBVIOUS
  <1> USE DEF TypeOK
  <1>1. ASSUME NEW e \in Event, Happens(e)
        PROVE  TypeOK'
    BY <1>1, BoundsAreNat DEF Happens, Body, Version
  <1>2. ASSUME NEW e \in Event, Corrected(e)
        PROVE  TypeOK'
    BY <1>2, BoundsAreNat DEF Corrected, Body, Version
  <1>3. ASSUME NEW e \in Event, LeavesReport(e)
        PROVE  TypeOK'
    BY <1>3 DEF LeavesReport
  <1>4. ASSUME NEW r \in Run, RunNext(r)
        PROVE  TypeOK'
    <2> USE DEF At, broker, tables
    <2>0. run[r] \in RunState
      OBVIOUS
    <2>1. CASE Start(r)
      <3>1. [run[r] EXCEPT !.pc = "fetch"] \in RunState
        BY <2>0 DEF RunState, PC
      <3>2. QED
        BY <2>1, <3>1, StepType DEF Start
    <2>2. CASE Skip(r)
      BY <2>2, EndType DEF Skip, Outcome
    <2>3. CASE FetchSnapshot(r)
      <3>1. clock + 1 \in Time
        BY <2>3, BoundsAreNat DEF FetchSnapshot, Time
      <3>2. [run[r] EXCEPT !.pc = "open", !.at = clock + 1] \in RunState
        BY <2>0, <3>1 DEF RunState, PC
      <3>3. QED
        BY <2>3, <3>1, <3>2, StepType DEF FetchSnapshot
    <2>4. CASE RequestEvents(r)
      <3>1. clock + 1 \in Time
        BY <2>4, BoundsAreNat DEF RequestEvents, Time
      <3>2. /\ [run[r] EXCEPT !.pc = "answer", !.at = clock + 1] \in RunState
            /\ [run[r] EXCEPT !.pc = "answer", !.body = Visible] \in RunState
        BY <2>0, <3>1, VisibleType DEF RunState, PC
      <3>3. QED
        BY <2>4, <3>1, <3>2, StepType DEF RequestEvents
    <2>5. CASE ReceiveEvents(r)
      <3>1. ~StampFirst => clock + 1 \in Time
        BY <2>5, BoundsAreNat DEF ReceiveEvents, Time
      <3>2. /\ [run[r] EXCEPT !.pc = "open", !.body = Visible] \in RunState
            /\ ~StampFirst => [run[r] EXCEPT !.pc = "open", !.at = clock + 1] \in RunState
        BY <2>0, <3>1, VisibleType DEF RunState, PC
      <3>3. run' \in [Run -> RunState]
        BY <2>5, <3>1, <3>2, StepType DEF ReceiveEvents
      <3>4. [at |-> run'[r].at, body |-> run'[r].body] \in Row
        BY <3>3 DEF Row, RunState
      <3>5. QED
        BY <2>5, <3>1, <3>3, <3>4 DEF ReceiveEvents
    <2>6. CASE FetchFails(r)
      <3>1. AfterLayer([run[r] EXCEPT !.failed = TRUE]) \in RunState
        BY <2>0, FailedType
      <3>2. QED
        BY <2>6, <3>1, StepType DEF FetchFails
    <2>7. CASE OpenRaw(r)
      <3>1. [run[r] EXCEPT !.pc = "commit", !.found = TRUE] \in RunState
        BY <2>0 DEF RunState, PC
      <3>2. QED
        BY <2>7, <3>1, StepType DEF OpenRaw
    <2>8. CASE RawNotOpened(r)
      <3>1. [run[r] EXCEPT !.pc = "commit", !.found = FALSE] \in RunState
        BY <2>0 DEF RunState, PC
      <3>2. QED
        BY <2>8, <3>1, StepType DEF RawNotOpened
    <2>9. CASE MergeRaw(r)
      <3>1. run[r].layer \in Layer /\ AfterLayer(run[r]) \in RunState
        BY <2>0, AfterLayerType DEF RunState
      <3>2. Upsert(raw[run[r].layer], RowOf(r)) \in Seq(Row)
        BY <3>1, RowOfType, UpsertType
      <3>3. run' \in [Run -> RunState]
        BY <2>9, <3>1, StepType DEF MergeRaw
      <3>4. QED
        BY <2>9, <3>2, <3>3 DEF MergeRaw
    <2>11. CASE AppendRaw(r)
      <3>1. run[r].layer \in Layer /\ AfterLayer(run[r]) \in RunState
        BY <2>0, AfterLayerType DEF RunState
      <3>2. Append(raw[run[r].layer], RowOf(r)) \in Seq(Row)
        BY <3>1, RowOfType
      <3>3. run' \in [Run -> RunState]
        BY <2>11, <3>1, StepType DEF AppendRaw
      <3>4. QED
        BY <2>11, <3>2, <3>3 DEF AppendRaw
    <2>12. CASE FinishFetch(r)
      <3>1. [run[r] EXCEPT !.pc = "vacuum"] \in RunState
        BY <2>0 DEF RunState, PC
      <3>2. QED
        BY <2>12, <3>1, StepType, EndType DEF FinishFetch, Outcome
    <2>13. CASE Vacuum(r)
      <3>1. [run[r] EXCEPT !.pc = "read"] \in RunState
        BY <2>0 DEF RunState, PC
      <3>2. QED
        BY <2>13, <3>1, StepType DEF Vacuum
    <2>14. CASE ReadRaw(r)
      <3>1. [run[r] EXCEPT !.pc = "write", !.view = raw] \in RunState
        BY <2>0 DEF RunState, PC
      <3>2. QED
        BY <2>14, <3>1, StepType DEF ReadRaw
    <2>15. CASE WriteSnapshot(r)
      <3>1. [run[r] EXCEPT !.pc = "openEvents"] \in RunState
        BY <2>0 DEF RunState, PC
      <3>2. snapshot' \in [at : Time, rows : SUBSET Nat]
        <4> DEFINE rows == run[r].view["snapshot"]
                   latest == LatestFetch(rows)
        <4>1. rows \in Seq(Row)
          BY <2>0 DEF RunState, Layer
        <4>2. latest \in SUBSET Nat /\ latest \subseteq DOMAIN rows
          BY <4>1 DEF LatestFetch
        <4>3. \A i \in DOMAIN rows : rows[i].at \in Time
          <5>1. TAKE i \in DOMAIN rows
          <5>2. rows[i] \in Row
            BY <4>1
          <5>3. QED
            BY <5>2 DEF Row
        <4>4. latest # {} => (CHOOSE i \in latest : TRUE) \in latest
          OBVIOUS
        <4>5. (IF latest = {} THEN 0 ELSE rows[CHOOSE i \in latest : TRUE].at) \in Time
          BY <4>2, <4>3, <4>4, BoundsAreNat DEF Time
        <4>6. QED
          BY <2>15, <4>2, <4>5 DEF WriteSnapshot
      <3>3. run' \in [Run -> RunState]
        BY <2>15, <3>1, StepType DEF WriteSnapshot
      <3>4. QED
        BY <2>15, <3>2, <3>3 DEF WriteSnapshot
    <2>16. CASE OpenEvents(r)
      <3>1. [run[r] EXCEPT !.pc = "merge", !.found = eventsExist] \in RunState
        BY <2>0 DEF RunState, PC
      <3>2. QED
        BY <2>16, <3>1, StepType DEF OpenEvents
    <2>17. CASE MergeEvents(r)
      <3>1. [run[r] EXCEPT !.pc = "validate"] \in RunState
        BY <2>0 DEF RunState, PC
      <3>2. run[r].view["events"] \in Seq(Row)
        BY <2>0 DEF RunState, Layer
      <3>3. events' \in [Event -> Stored]
        BY <2>17, <3>2, NormalizedType, MergeNewerType DEF MergeEvents
      <3>4. run' \in [Run -> RunState]
        BY <2>17, <3>1, StepType DEF MergeEvents
      <3>5. QED
        BY <2>17, <3>3, <3>4 DEF MergeEvents
    <2>18. CASE CreateEvents(r)
      <3>1. [run[r] EXCEPT !.pc = "validate"] \in RunState
        BY <2>0 DEF RunState, PC
      <3>2. run[r].view["events"] \in Seq(Row)
        BY <2>0 DEF RunState, Layer
      <3>3. events' \in [Event -> Stored]
        BY <2>18, <3>2, NormalizedType DEF CreateEvents
      <3>4. run' \in [Run -> RunState]
        BY <2>18, <3>1, StepType DEF CreateEvents
      <3>5. QED
        BY <2>18, <3>3, <3>4 DEF CreateEvents
    <2>19. CASE Raises(r) \/ Validate(r) \/ Killed(r)
      BY <2>19, EndType DEF Raises, Validate, Killed, Outcome
    <2>20. QED
      BY <1>4, <2>1, <2>2, <2>3, <2>4, <2>5, <2>6, <2>7, <2>8, <2>9, <2>11,
         <2>12, <2>13, <2>14, <2>15, <2>16, <2>17, <2>18, <2>19 DEF RunNext
  <1>5. CASE UNCHANGED vars
    BY <1>5 DEF vars
  <1>6. QED
    BY <1>1, <1>2, <1>3, <1>4, <1>5 DEF Next, BrokerNext

\* Every variable keeps its type, whatever the number of runs and events.
THEOREM TypeCorrect == Spec => []TypeOK
  BY InitType, NextType, PTL DEF Spec

---------------------------------------------------------------------------
(* One row of a key.                                                       *)

\* Once the events table exists it stays, and every later run merges onto it.
EventsOpened ==
    /\ eventsExist
    /\ \A r \in Run : At(r, "merge") => run[r].found

\* At most one row of a key is stored, read by a run, or shown as holdings, until
\* the raw table is taken for missing; a table that is missing has no rows and is
\* open in no run.
OneRow ==
    /\ ~rawExists => rawCurrent = {} /\ \A l \in Layer : raw[l] = <<>>
    /\ misled = {} =>
         /\ \A l \in Layer : Len(raw[l]) <= 1
         /\ \A r \in Run, l \in Layer : Len(run[r].view[l]) <= 1
         /\ snapshot.rows \subseteq {1}

\* Every row of event data in the pipeline was served by the broker.
FromServed ==
    /\ \A i \in DOMAIN raw["events"] : raw["events"][i] \in served
    /\ \A r \in Run :
        /\ \A i \in DOMAIN run[r].view["events"] : run[r].view["events"][i] \in served
        /\ run[r].pc \in {"open", "commit"} /\ run[r].layer = "events" => RowOf(r) \in served

\* The steps after which a run goes on to its other layer or leaves the fetch.
NextLayer(r) == FetchFails(r) \/ MergeRaw(r) \/ AppendRaw(r)

LEMMA OnlyOwnRun ==
    ASSUME TypeOK, NEW r \in Run, RunNext(r)
    PROVE  \A o \in Run \ {r} : run'[o] = run[o]
  BY DEF TypeOK, RunNext, Step, End, Start, Skip, FetchSnapshot, RequestEvents,
     ReceiveEvents, FetchFails, OpenRaw, RawNotOpened, MergeRaw, AppendRaw,
     FinishFetch, Vacuum, ReadRaw, WriteSnapshot, OpenEvents, MergeEvents, CreateEvents,
     Raises, Validate, Killed

LEMMA AfterNextLayer ==
    ASSUME TypeOK, NEW r \in Run, NextLayer(r)
    PROVE  /\ run'[r].pc \in {"fetch", "fetched"}
           /\ run'[r].at = run[r].at
           /\ run'[r].body = run[r].body
           /\ run'[r].view = run[r].view
           /\ run'[r].outcome = run[r].outcome
  <1>1. run[r] \in RunState
    BY DEF TypeOK
  <1>2. run'[r] = AfterLayer(run[r]) \/ run'[r] = AfterLayer([run[r] EXCEPT !.failed = TRUE])
    <2>1. \A rec : Step(r, rec) => run'[r] = rec
      BY DEF TypeOK, Step
    <2>2. QED
      BY <2>1 DEF NextLayer, FetchFails, MergeRaw, AppendRaw
  <1>3. CASE run'[r] = AfterLayer(run[r])
    BY <1>1, <1>3 DEF AfterLayer, RunState
  <1>4. CASE run'[r] = AfterLayer([run[r] EXCEPT !.failed = TRUE])
    <2> DEFINE rec == [run[r] EXCEPT !.failed = TRUE]
    <2>1. /\ rec \in RunState
          /\ rec.at = run[r].at /\ rec.body = run[r].body
          /\ rec.view = run[r].view /\ rec.outcome = run[r].outcome
      BY <1>1 DEF RunState
    <2> HIDE DEF rec
    <2>2. run'[r] = AfterLayer(rec)
      BY <1>4 DEF rec
    <2>3. QED
      BY <2>1, <2>2 DEF AfterLayer, RunState
  <1>5. QED
    BY <1>2, <1>3, <1>4

\* What the remaining steps of a run do to its own record.
LEMMA OtherSteps ==
    ASSUME TypeOK, NEW r \in Run, RunNext(r), ~NextLayer(r), ~OpenEvents(r)
    PROVE  /\ run'[r].pc # "merge"
           /\ run'[r].pc = "commit" => OpenRaw(r) \/ RawNotOpened(r)
           /\ run'[r].view \in {raw, run[r].view, NewRun.view}
  <1> USE DEF At
  <1>1. run[r] \in RunState /\ \A rec : Step(r, rec) => run'[r] = rec
    BY DEF TypeOK, Step
  <1>2. \A outcome : End(r, outcome) => run'[r].pc = "done" /\ run'[r].view = NewRun.view
    BY <1>1, NewRunType DEF End, RunState
  <1>3. CASE Start(r) \/ FetchSnapshot(r) \/ RequestEvents(r) \/ ReceiveEvents(r)
    <2>1. /\ run'[r].pc \in {"fetch", "open", "answer"}
          /\ run'[r].view = run[r].view
      BY <1>1, <1>3 DEF Start, FetchSnapshot, RequestEvents, ReceiveEvents, RunState
    <2>2. QED
      BY <2>1
  <1>4. CASE OpenRaw(r) \/ RawNotOpened(r)
    <2>1. run'[r].pc = "commit" /\ run'[r].view = run[r].view
      BY <1>1, <1>4 DEF OpenRaw, RawNotOpened, RunState
    <2>2. QED
      BY <1>4, <2>1
  <1>5. CASE FinishFetch(r) \/ Vacuum(r) \/ WriteSnapshot(r) \/ MergeEvents(r) \/ CreateEvents(r)
    <2>1. /\ run'[r].pc \in {"done", "vacuum", "read", "openEvents", "validate"}
          /\ run'[r].view \in {run[r].view, NewRun.view}
      BY <1>1, <1>2, <1>5
      DEF FinishFetch, Vacuum, WriteSnapshot, MergeEvents, CreateEvents, RunState
    <2>2. QED
      BY <2>1
  <1>6. CASE ReadRaw(r)
    BY <1>1, <1>6 DEF ReadRaw, RunState
  <1>7. CASE Skip(r) \/ Raises(r) \/ Validate(r) \/ Killed(r)
    BY <1>2, <1>7 DEF Skip, Raises, Validate, Killed
  <1>8. QED
    BY <1>3, <1>4, <1>5, <1>6, <1>7 DEF RunNext, NextLayer

LEMMA EventsStayOpened ==
    ASSUME TypeOK, EventsOpened, [Next]_vars
    PROVE  EventsOpened'
  <1> USE DEF TypeOK, EventsOpened, At
  <1>1. ASSUME NEW e \in Event, Happens(e) \/ Corrected(e) \/ LeavesReport(e)
        PROVE  EventsOpened'
    BY <1>1 DEF Happens, Corrected, LeavesReport
  <1>2. ASSUME NEW r \in Run, RunNext(r)
        PROVE  EventsOpened'
    <2>1. eventsExist'
      BY <1>2 DEF broker, tables, RunNext, Start, Skip, FetchSnapshot, RequestEvents,
         ReceiveEvents, FetchFails, OpenRaw, RawNotOpened, MergeRaw, AppendRaw, FinishFetch, Vacuum, ReadRaw, WriteSnapshot, OpenEvents, MergeEvents,
         CreateEvents, Raises, Validate, Killed
    <2>2. \A o \in Run \ {r} : run'[o] = run[o]
      BY <1>2, OnlyOwnRun
    <2>3. run'[r].pc = "merge" => run'[r].found
      <3>1. CASE NextLayer(r)
        BY <3>1, AfterNextLayer
      <3>2. CASE OpenEvents(r)
        BY <3>2 DEF OpenEvents, Step, RunState
      <3>3. CASE ~NextLayer(r) /\ ~OpenEvents(r)
        BY <1>2, <3>3, OtherSteps
      <3>4. QED
        BY <3>1, <3>2, <3>3
    <2>4. QED
      BY <2>1, <2>2, <2>3
  <1>3. CASE UNCHANGED vars
    BY <1>3 DEF vars
  <1>4. QED
    BY <1>1, <1>2, <1>3 DEF Next, BrokerNext

\* Only the two writes of ingest_raw change the raw table.
LEMMA RawLeft ==
    ASSUME NEW r \in Run, RunNext(r), ~MergeRaw(r), ~AppendRaw(r)
    PROVE  rawExists' = rawExists /\ raw' = raw /\ misled' = misled
  BY DEF broker, tables, RunNext, Start, Skip, FetchSnapshot,
     RequestEvents, ReceiveEvents, FetchFails, OpenRaw, RawNotOpened, FinishFetch,
     Vacuum, ReadRaw, WriteSnapshot, OpenEvents, MergeEvents, CreateEvents, Raises,
     Validate, Killed

\* That the table was taken for missing is never forgotten.
LEMMA MisledStays ==
    ASSUME [Next]_vars
    PROVE  misled \subseteq misled'
  <1>1. ASSUME NEW r \in Run, RunNext(r)
        PROVE  misled \subseteq misled'
    <2>1. MergeRaw(r) \/ AppendRaw(r) => misled \subseteq misled'
      BY DEF MergeRaw, AppendRaw
    <2>2. QED
      BY <1>1, <2>1, RawLeft
  <1>2. QED
    BY <1>1 DEF Next, BrokerNext, Happens, Corrected, LeavesReport, vars

LEMMA UpsertKeepsOne ==
    ASSUME NEW rows \in Seq(Row), Len(rows) <= 1, NEW row
    PROVE  Len(Upsert(rows, row)) <= 1
  <1>1. CASE rows = <<>>
    BY <1>1 DEF Upsert
  <1>2. CASE rows # <<>>
    <2>1. Upsert(rows, row) = [i \in 1 .. Len(rows) |-> row]
      BY <1>2 DEF Upsert
    <2>2. Len(rows) \in Nat
      OBVIOUS
    <2>3. Len(Upsert(rows, row)) = Len(rows)
      BY <2>1, <2>2
    <2>4. QED
      BY <2>3
  <1>3. QED
    BY <1>1, <1>2

LEMMA OneRowStays ==
    ASSUME TypeOK, OneRow, [Next]_vars
    PROVE  OneRow'
  <1> USE DEF OneRow, At
  <1>1. ASSUME NEW e \in Event, Happens(e) \/ Corrected(e) \/ LeavesReport(e)
        PROVE  OneRow'
    BY <1>1 DEF Happens, Corrected, LeavesReport
  <1>2. ASSUME NEW r \in Run, RunNext(r)
        PROVE  OneRow'
    <2>1. ~rawExists' => rawCurrent' = {} /\ \A l \in Layer : raw'[l] = <<>>
      <3>1. CASE MergeRaw(r)
        <4>1. rawExists
          BY <3>1 DEF MergeRaw
        <4>2. QED
          BY <3>1, <4>1 DEF MergeRaw
      <3>2. CASE AppendRaw(r)
        BY <3>2 DEF AppendRaw
      <3>3. CASE ~MergeRaw(r) /\ ~AppendRaw(r)
        <4>1. OpenRaw(r) => rawExists
          BY DEF OpenRaw
        <4>2. ~OpenRaw(r) => rawCurrent' = rawCurrent
          BY <1>2, <3>3 DEF broker, tables, RunNext, Start, Skip, FetchSnapshot,
             RequestEvents, ReceiveEvents, FetchFails, RawNotOpened, FinishFetch, Vacuum,
             ReadRaw, WriteSnapshot, OpenEvents, MergeEvents, CreateEvents, Raises,
             Validate, Killed
        <4>3. QED
          BY <1>2, <3>3, <4>1, <4>2, RawLeft
      <3>4. QED
        BY <3>1, <3>2, <3>3
    <2>2. ASSUME misled' = {}
          PROVE  \A l \in Layer : Len(raw'[l]) <= 1
      <3>1. misled = {}
        BY <1>2, <2>2, MisledStays DEF Next
      <3>2. \A l \in Layer : raw[l] \in Seq(Row) /\ Len(raw[l]) <= 1
        BY <3>1 DEF TypeOK
      <3>3. CASE MergeRaw(r)
        <4>1. \A l \in Layer : raw'[l] = raw[l] \/ raw'[l] = Upsert(raw[l], RowOf(r))
          BY <3>3 DEF MergeRaw, TypeOK
        <4>2. QED
          BY <3>2, <4>1, UpsertKeepsOne
      <3>4. CASE AppendRaw(r)
        <4>1. ~rawExists
          BY <2>2, <3>4 DEF AppendRaw
        <4>2. \A l \in Layer : raw'[l] = <<>> \/ raw'[l] = Append(<<>>, RowOf(r))
          BY <3>4, <4>1 DEF AppendRaw, TypeOK
        <4>3. Len(<<>>) <= 1 /\ Len(Append(<<>>, RowOf(r))) <= 1
          OBVIOUS
        <4>4. QED
          BY <4>2, <4>3
      <3>5. CASE ~MergeRaw(r) /\ ~AppendRaw(r)
        BY <1>2, <3>2, <3>5, RawLeft
      <3>6. QED
        BY <3>3, <3>4, <3>5
    <2>3. run'[r].view \in {raw, run[r].view, NewRun.view}
      <3>1. OpenEvents(r) => run'[r].view = run[r].view
        BY DEF OpenEvents, Step, TypeOK, RunState
      <3>2. QED
        BY <1>2, <3>1, AfterNextLayer, OtherSteps
    <2>4. ASSUME misled' = {}
          PROVE  \A o \in Run, l \in Layer : Len(run'[o].view[l]) <= 1
      <3>1. misled = {}
        BY <1>2, <2>4, MisledStays DEF Next
      <3>2. QED
        BY <1>2, <2>3, <3>1, OnlyOwnRun, EmptyView
    <2>5. ASSUME misled' = {}
          PROVE  snapshot'.rows \subseteq {1}
      <3>1. misled = {}
        BY <1>2, <2>5, MisledStays DEF Next
      <3>2. CASE WriteSnapshot(r)
        <4> DEFINE rows == run[r].view["snapshot"]
        <4>1. rows \in Seq(Row) /\ Len(rows) <= 1
          BY <3>1 DEF TypeOK, RunState, Layer
        <4>2. DOMAIN rows \subseteq {1}
          BY <4>1
        <4>3. LatestFetch(rows) \subseteq {1}
          BY <4>2 DEF LatestFetch
        <4>4. QED
          BY <3>2, <4>3 DEF WriteSnapshot
      <3>3. CASE ~WriteSnapshot(r)
        <4>1. snapshot' = snapshot
          BY <1>2, <3>3 DEF broker, tables, RunNext, Start, Skip, FetchSnapshot,
             RequestEvents, ReceiveEvents, FetchFails, OpenRaw, RawNotOpened, MergeRaw,
             AppendRaw, FinishFetch, Vacuum, ReadRaw, OpenEvents, MergeEvents,
             CreateEvents, Raises, Validate, Killed
        <4>2. QED
          BY <3>1, <4>1
      <3>4. QED
        BY <3>2, <3>3
    <2>6. QED
      BY <2>1, <2>2, <2>4, <2>5
  <1>3. CASE UNCHANGED vars
    BY <1>3 DEF vars
  <1>4. QED
    BY <1>1, <1>2, <1>3 DEF Next, BrokerNext

\* Unless the raw table that is there was taken for missing, no interleaving of
\* runs, failing or killed ones too, from fresh tables or existing ones, makes two
\* rows of one retention key, and no holding is counted twice (ingest_raw, the
\* snapshot transforms).
THEOREM OneRowPerKey == Spec => []RawOneRowPerKey
  <1>1. Init => OneRow
    BY DEF Init, OneRow, NewRun
  <1>2. OneRow => RawOneRowPerKey
    BY DEF OneRow, RawOneRowPerKey
  <1>3. QED
    BY <1>1, <1>2, TypeCorrect, OneRowStays, PTL DEF Spec

---------------------------------------------------------------------------
(* The events table implements EventStore.                                 *)

LEMMA ServedGrows ==
    ASSUME TypeOK, [Next]_vars
    PROVE  served \subseteq served'
  BY DEF vars, Next, BrokerNext, Happens, Corrected, LeavesReport, broker, tables, RunNext,
     Start, Skip, FetchSnapshot, RequestEvents, ReceiveEvents, FetchFails, OpenRaw,
     RawNotOpened, MergeRaw, AppendRaw, FinishFetch, Vacuum, ReadRaw,
     WriteSnapshot, OpenEvents, MergeEvents, CreateEvents, Raises,
     Validate, Killed

\* A run about to write event data to the raw table writes what was served.
LEMMA WritesServed ==
    ASSUME TypeOK, FromServed, NEW r \in Run, RunNext(r),
           run'[r].pc \in {"open", "commit"}, run'[r].layer = "events"
    PROVE  RowOf(r)' \in served'
  <1> USE DEF At
  <1>1. run[r] \in RunState /\ \A rec : Step(r, rec) => run'[r] = rec
    BY DEF TypeOK, Step
  <1>2. \A outcome : End(r, outcome) => run'[r].pc = "done"
    BY <1>1, NewRunType DEF End, RunState
  <1>3. CASE ReceiveEvents(r)
    BY <1>3 DEF ReceiveEvents, RowOf
  <1>4. CASE OpenRaw(r) \/ RawNotOpened(r)
    <2>1. /\ run[r].layer = "events" /\ run[r].pc = "open"
          /\ run'[r].at = run[r].at /\ run'[r].body = run[r].body
      BY <1>1, <1>4 DEF OpenRaw, RawNotOpened, RunState
    <2>2. served' = served
      BY <1>4 DEF OpenRaw, RawNotOpened
    <2>3. QED
      BY <2>1, <2>2 DEF FromServed, RowOf
  <1>5. CASE FetchSnapshot(r)
    <2>1. run'[r].layer = run[r].layer
      BY <1>1, <1>5 DEF FetchSnapshot, RunState
    <2>2. QED
      BY <1>5, <2>1 DEF FetchSnapshot
  <1>6. CASE Start(r) \/ RequestEvents(r) \/ FinishFetch(r) \/ Vacuum(r) \/ ReadRaw(r)
    <2>1. run'[r].pc \in {"fetch", "answer", "done", "vacuum", "read", "write"}
      BY <1>1, <1>2, <1>6 DEF Start, RequestEvents, FinishFetch, Vacuum, ReadRaw, RunState
    <2>2. QED
      BY <2>1
  <1>7. CASE WriteSnapshot(r) \/ OpenEvents(r) \/ MergeEvents(r) \/ CreateEvents(r)
    <2>1. run'[r].pc \in {"openEvents", "merge", "validate"}
      BY <1>1, <1>7 DEF WriteSnapshot, OpenEvents, MergeEvents, CreateEvents, RunState
    <2>2. QED
      BY <2>1
  <1>8. CASE Skip(r) \/ Raises(r) \/ Validate(r) \/ Killed(r)
    BY <1>2, <1>8 DEF Skip, Raises, Validate, Killed
  <1>9. CASE NextLayer(r)
    BY <1>9, AfterNextLayer
  <1>10. QED
    BY <1>3, <1>4, <1>5, <1>6, <1>7, <1>8, <1>9 DEF RunNext, NextLayer

\* The rows of event data a step leaves in the raw table were served.
LEMMA RawServed ==
    ASSUME TypeOK, FromServed, NEW r \in Run, RunNext(r)
    PROVE  \A i \in DOMAIN raw'["events"] : raw'["events"][i] \in served
  <1> USE DEF At
  <1>1. raw["events"] \in Seq(Row) /\ raw \in [Layer -> Seq(Row)] /\ "events" \in Layer
    BY DEF TypeOK, Layer
  <1>2. CASE MergeRaw(r) /\ run[r].layer = "events"
    <2>1. raw'["events"] = Upsert(raw["events"], RowOf(r))
      BY <1>1, <1>2 DEF MergeRaw
    <2>2. RowOf(r) \in served
      BY <1>2 DEF MergeRaw, FromServed
    <2>3. QED
      BY <2>1, <2>2 DEF Upsert
  <1>3. CASE AppendRaw(r) /\ run[r].layer = "events"
    <2>1. raw'["events"] = Append(raw["events"], RowOf(r))
      BY <1>1, <1>3 DEF AppendRaw
    <2>2. RowOf(r) \in served
      BY <1>3 DEF AppendRaw, FromServed
    <2>3. \A i \in DOMAIN raw'["events"] :
              raw'["events"][i] = RowOf(r) \/ (i \in DOMAIN raw["events"]
                                               /\ raw'["events"][i] = raw["events"][i])
      BY <1>1, <2>1
    <2>4. QED
      BY <2>2, <2>3 DEF FromServed
  <1>4. CASE (MergeRaw(r) \/ AppendRaw(r)) /\ run[r].layer # "events"
    <2>1. raw'["events"] = raw["events"]
      BY <1>1, <1>4 DEF MergeRaw, AppendRaw
    <2>2. QED
      BY <2>1 DEF FromServed
  <1>5. CASE ~MergeRaw(r) /\ ~AppendRaw(r)
    <2>1. raw' = raw
      BY <1>5 DEF broker, tables, RunNext, Start, Skip, FetchSnapshot,
         RequestEvents, ReceiveEvents, FetchFails, OpenRaw, RawNotOpened, FinishFetch, Vacuum, ReadRaw, WriteSnapshot, OpenEvents, MergeEvents,
         CreateEvents, Raises, Validate, Killed
    <2>2. QED
      BY <2>1 DEF FromServed
  <1>6. QED
    BY <1>2, <1>3, <1>4, <1>5

LEMMA FromServedStays ==
    ASSUME TypeOK, FromServed, [Next]_vars
    PROVE  FromServed'
  <1>1. ASSUME NEW e \in Event, Happens(e) \/ Corrected(e) \/ LeavesReport(e)
        PROVE  FromServed'
    BY <1>1 DEF FromServed, RowOf, Happens, Corrected, LeavesReport
  <1>2. ASSUME NEW r \in Run, RunNext(r)
        PROVE  FromServed'
    <2>1. served \subseteq served'
      BY <1>2, ServedGrows DEF Next
    <2>2. \A i \in DOMAIN raw'["events"] : raw'["events"][i] \in served'
      BY <1>2, <2>1, RawServed
    <2>3. run'[r].view \in {raw, run[r].view, NewRun.view}
      <3>1. OpenEvents(r) => run'[r].view = run[r].view
        BY DEF OpenEvents, Step, TypeOK, RunState
      <3>2. QED
        BY <1>2, <3>1, AfterNextLayer, OtherSteps
    <2>4. \A o \in Run \ {r} : run'[o] = run[o]
      BY <1>2, OnlyOwnRun
    <2>5. \A o \in Run : \A i \in DOMAIN run'[o].view["events"] :
                            run'[o].view["events"][i] \in served'
      <3>1. "events" \in Layer
        BY DEF Layer
      <3>2. \A i \in DOMAIN run'[r].view["events"] : run'[r].view["events"][i] \in served
        BY <2>3, <3>1, EmptyView DEF FromServed
      <3>3. QED
        BY <2>1, <2>4, <3>2 DEF FromServed
    <2>6. \A o \in Run : run'[o].pc \in {"open", "commit"} /\ run'[o].layer = "events" =>
                            RowOf(o)' \in served'
      <3>1. TAKE o \in Run
      <3>2. CASE o = r
        BY <1>2, <3>2, WritesServed
      <3>3. CASE o # r
        BY <2>1, <2>4, <3>3 DEF FromServed, RowOf
      <3>4. QED
        BY <3>2, <3>3
    <2>7. QED
      BY <2>2, <2>5, <2>6 DEF FromServed
  <1>3. CASE UNCHANGED vars
    BY <1>3 DEF vars, FromServed, RowOf
  <1>4. QED
    BY <1>1, <1>2, <1>3 DEF Next, BrokerNext

\* What a normalized batch says of an event, some row it was made from says.
LEMMA PickedFrom ==
    ASSUME NEW rows \in Seq(Row), NEW batch \in Normalized(rows), NEW e \in Event
    PROVE  \/ batch[e] = NoEvent
           \/ \E i \in DOMAIN rows :
                /\ rows[i].body[e] > 0
                /\ batch[e] = [at |-> rows[i].at, version |-> rows[i].body[e]]
  <1>1. batch[e] \in Picked(rows, e)
    BY DEF Normalized
  <1>2. QED
    BY <1>1 DEF Picked

\* Once it exists, the events table keeps the promise of EventStore: it shows
\* only what some completed fetch reported, and moves only to a later one.
THEOREM KeepsThePromise ==
    ASSUME Established
    PROVE  Spec => ImplementsEventStore
  <1>1. Init => EventsOpened /\ FromServed /\ Promise!Init
    BY DEF Init, EventsOpened, FromServed, RowOf, At, NewRun, Layer,
           Promise!Init, Promise!NoEvent, NoEvent
  <1>2. TypeOK /\ TypeOK' /\ EventsOpened /\ FromServed /\ [Next]_vars =>
            [Promise!Next]_(Promise!vars)
    <2> SUFFICES ASSUME TypeOK, TypeOK', EventsOpened, FromServed, Next,
                        <<served, events>>' # <<served, events>>
                 PROVE  Promise!Next
      BY DEF vars, Promise!vars
    <2>1. PICK r \in Run : ReceiveEvents(r) \/ MergeEvents(r) \/ CreateEvents(r)
      BY DEF Next, BrokerNext, Happens, Corrected, LeavesReport, broker, tables, RunNext,
         Start, Skip, FetchSnapshot, RequestEvents, FetchFails, OpenRaw, RawNotOpened,
         MergeRaw, AppendRaw, FinishFetch, Vacuum, ReadRaw, WriteSnapshot,
         OpenEvents, Raises, Validate, Killed
    <2>2. CASE ReceiveEvents(r)
      <3>1. [at |-> run'[r].at, body |-> run'[r].body] \in Promise!Report
        BY DEF TypeOK, RunState, Promise!Report, Body
      <3>2. UNCHANGED events
        BY <2>2 DEF ReceiveEvents, tables
      <3>3. Promise!Serve
        BY <2>2, <3>1, <3>2 DEF ReceiveEvents, Promise!Serve
      <3>4. QED
        BY <3>3 DEF Promise!Next
    <2>3. CASE MergeEvents(r)
      <3> DEFINE rows == run[r].view["events"]
      <3>1. PICK batch \in Normalized(rows) : events' = MergeNewer(events, batch)
        BY <2>3 DEF MergeEvents
      <3>2. rows \in Seq(Row) /\ \A i \in DOMAIN rows : rows[i] \in served
        BY DEF TypeOK, RunState, Layer, FromServed
      <3> DEFINE moved == {e \in Event : batch[e].at > events[e].at}
      <3>3. ASSUME NEW e \in moved
            PROVE  events'[e] \in Promise!Newer(e)
        <4>1. events'[e] = batch[e] /\ batch[e].at > events[e].at
          BY <3>1 DEF MergeNewer
        <4>2. batch[e] # NoEvent
          <5>1. events[e].at \in Nat
            BY DEF TypeOK, Stored, Time
          <5>2. QED
            BY <4>1, <5>1 DEF NoEvent
        <4>3. PICK i \in DOMAIN rows :
                  /\ rows[i].body[e] > 0
                  /\ batch[e] = [at |-> rows[i].at, version |-> rows[i].body[e]]
          BY <3>1, <3>2, <4>2, PickedFrom
        <4>4. batch[e].at = rows[i].at
          BY <4>3
        <4>5. QED
          BY <3>2, <4>1, <4>3, <4>4 DEF Promise!Newer
      <3>4. \A e \in Event \ moved : events'[e] = events[e]
        BY <3>1 DEF MergeNewer
      <3>5. events' \in [Event -> [at : Time, version : Version]]
        BY DEF TypeOK, Stored
      <3>6. UNCHANGED served
        BY <2>3 DEF MergeEvents
      <3>7. Promise!Apply
        BY <3>3, <3>4, <3>5, <3>6 DEF Promise!Apply
      <3>8. QED
        BY <3>7 DEF Promise!Next
    <2>4. QED
      BY <2>1, <2>2, <2>3 DEF EventsOpened, CreateEvents
  <1>3. QED
    BY <1>1, <1>2, TypeCorrect, EventsStayOpened, FromServedStays, PTL
    DEF Spec, ImplementsEventStore, Promise!Spec

---------------------------------------------------------------------------
(* A run that is alone and ends green has stored its events.               *)

HasRow(rows, r) == \E i \in DOMAIN rows : rows[i] = RowOf(r)

\* The events table is at least as new as r's own fetch.
Kept(r) == \A e \in Event : run[r].body[e] > 0 => events[e].at >= run[r].at

Ended == \A r \in Run : run[r].outcome # "none" => At(r, "done")

\* What is known of a run that is alone, from its last raw write to its end.
Lonely(r) ==
    /\ ~At(r, "idle")
    /\ Active(r) => \A o \in Run \ {r} : ~Active(o)
    /\ At(r, "vacuum") \/ At(r, "read") \/ (At(r, "fetched") /\ ~run[r].failed)
           => HasRow(raw["events"], r)
    /\ At(r, "write") \/ At(r, "openEvents") \/ At(r, "merge")
           => HasRow(run[r].view["events"], r)
    /\ At(r, "merge") /\ run[r].found => eventsExist
    /\ At(r, "validate") \/ run[r].outcome = "green" =>
           /\ Kept(r)
           /\ eventsExist
           /\ \A o \in Run \ {r} : At(o, "merge") => run[o].found

AloneInv == Ended /\ \A r \in alone : Lonely(r)

\* The newest duplicate of an event, or its only row, is at least as new as any row
\* that has it.
LEMMA NewestPicked ==
    ASSUME TypeOK, NEW rows \in Seq(Row), NEW batch \in Normalized(rows),
           NEW r \in Run, HasRow(rows, r), NEW e \in Event, run[r].body[e] > 0,
           KeepsNewest \/ Len(rows) <= 1
    PROVE  batch[e].at >= run[r].at
  <1>1. PICK i \in DOMAIN rows : rows[i] = RowOf(r)
    BY DEF HasRow
  <1>2. rows[i].at = run[r].at /\ rows[i].body[e] > 0
    BY <1>1 DEF RowOf
  <1>3. batch[e] \in Picked(rows, e)
    BY DEF Normalized
  <1>4. PICK j \in DOMAIN rows :
            /\ batch[e] = [at |-> rows[j].at, version |-> rows[j].body[e]]
            /\ KeepsNewest => \A k \in {l \in DOMAIN rows : rows[l].body[e] > 0} :
                                  rows[k].at <= rows[j].at
    BY <1>2, <1>3 DEF Picked
  <1>5. rows[i].at <= batch[e].at
    <2>1. CASE KeepsNewest
      BY <1>2, <1>4, <2>1
    <2>2. CASE Len(rows) <= 1
      <3>1. i = j
        BY <2>2
      <3>2. rows[i] \in Row
        OBVIOUS
      <3>3. QED
        BY <1>4, <3>1, <3>2 DEF Row, Time
    <2>3. QED
      BY <2>1, <2>2
  <1>6. rows[i] \in Row /\ rows[j] \in Row
    OBVIOUS
  <1>7. rows[i].at \in Nat /\ batch[e].at \in Nat
    BY <1>4, <1>6 DEF Row, Time
  <1>8. QED
    BY <1>2, <1>5, <1>7

\* What merging such a batch leaves behind.
LEMMA MergeKeeps ==
    ASSUME TypeOK, NEW batch \in [Event -> Stored], NEW e \in Event
    PROVE  /\ MergeNewer(events, batch)[e].at >= batch[e].at
           /\ MergeNewer(events, batch)[e].at >= events[e].at
  <1>1. batch[e].at \in Nat /\ events[e].at \in Nat
    BY DEF TypeOK, Stored, Time
  <1>2. QED
    BY <1>1 DEF MergeNewer

LEMMA EndedStays ==
    ASSUME TypeOK, Ended, [Next]_vars
    PROVE  Ended'
  <1> USE DEF Ended, At
  <1>1. ASSUME NEW e \in Event, Happens(e) \/ Corrected(e) \/ LeavesReport(e)
        PROVE  Ended'
    BY <1>1 DEF Happens, Corrected, LeavesReport
  <1>2. ASSUME NEW r \in Run, RunNext(r)
        PROVE  Ended'
    <2>1. run[r] \in RunState /\ \A rec : Step(r, rec) => run'[r] = rec
      BY DEF TypeOK, Step
    <2>2. run'[r].outcome # "none" => run'[r].pc = "done"
      <3>1. \A outcome : End(r, outcome) => run'[r].pc = "done"
        BY <2>1, NewRunType DEF End, RunState
      <3>2. CASE NextLayer(r)
        BY <3>2, AfterNextLayer
           DEF NextLayer, FetchFails, MergeRaw, AppendRaw
      <3>3. CASE \E outcome : End(r, outcome)
        BY <3>1, <3>3
      <3>4. CASE Start(r) \/ FetchSnapshot(r) \/ RequestEvents(r) \/ ReceiveEvents(r)
        <4>1. run'[r].outcome = run[r].outcome /\ run[r].pc # "done"
          BY <2>1, <3>4 DEF Start, FetchSnapshot, RequestEvents, ReceiveEvents, RunState
        <4>2. QED
          BY <4>1
      <3>5. CASE OpenRaw(r) \/ RawNotOpened(r) \/ Vacuum(r) \/ ReadRaw(r)
        <4>1. run'[r].outcome = run[r].outcome /\ run[r].pc # "done"
          BY <2>1, <3>5 DEF OpenRaw, RawNotOpened, Vacuum, ReadRaw, RunState
        <4>2. QED
          BY <4>1
      <3>6. CASE WriteSnapshot(r) \/ OpenEvents(r) \/ MergeEvents(r) \/ CreateEvents(r)
        <4>1. run'[r].outcome = run[r].outcome /\ run[r].pc # "done"
          BY <2>1, <3>6 DEF WriteSnapshot, OpenEvents, MergeEvents, CreateEvents, RunState
        <4>2. QED
          BY <4>1
      <3>7. CASE FinishFetch(r)
        <4>1. CASE run[r].failed
          BY <3>1, <3>7, <4>1 DEF FinishFetch
        <4>2. CASE ~run[r].failed
          <5>1. run'[r].outcome = run[r].outcome /\ run[r].pc # "done"
            BY <2>1, <3>7, <4>2 DEF FinishFetch, RunState
          <5>2. QED
            BY <5>1
        <4>3. QED
          BY <4>1, <4>2
      <3>8. QED
        BY <1>2, <3>2, <3>3, <3>4, <3>5, <3>6, <3>7
        DEF RunNext, NextLayer, Skip, Raises, Validate, Killed
    <2>3. QED
      BY <1>2, <2>2, OnlyOwnRun
  <1>3. CASE UNCHANGED vars
    BY <1>3 DEF vars
  <1>4. QED
    BY <1>1, <1>2, <1>3 DEF Next, BrokerNext

\* Another run's step leaves what is known of a lonely run true.
LEMMA OthersStep ==
    ASSUME TypeOK, AloneInv, NEW a \in Run, RunNext(a),
           NEW r \in alone', r # a
    PROVE  Lonely(r)'
  <1> USE DEF At
  <1>1. r \in Run /\ r \in alone /\ run'[r] = run[r] /\ Lonely(r) /\ RowOf(r)' = RowOf(r)
    <2>1. alone' \subseteq alone \union {a}
      BY DEF RunNext, Start, Skip, FetchSnapshot, RequestEvents, ReceiveEvents, FetchFails,
         OpenRaw, RawNotOpened, MergeRaw, AppendRaw, FinishFetch, Vacuum, ReadRaw,
         WriteSnapshot, OpenEvents, MergeEvents, CreateEvents, Raises, Validate, Killed
    <2>2. QED
      BY <2>1, OnlyOwnRun DEF TypeOK, AloneInv, RowOf
  <1>2. CASE Active(r)
    <2>1. ~Active(a)
      BY <1>1, <1>2 DEF Lonely
    <2>2. ~Start(a)
      BY <1>2, <1>1 DEF Start
    <2>3. Skip(a)
      BY <2>1, <2>2 DEF Active, RunNext, FetchSnapshot, RequestEvents, ReceiveEvents,
         FetchFails, OpenRaw, RawNotOpened, MergeRaw, AppendRaw, FinishFetch, Vacuum,
         ReadRaw, WriteSnapshot, OpenEvents, MergeEvents, CreateEvents, Raises, Validate,
         Killed
    <2>4. run'[a].pc = "done"
      BY <2>3, NewRunType DEF Skip, End, Step, TypeOK, RunState
    <2>5. \A o \in Run \ {r} : ~Active(o)' /\ run'[o].pc # "merge"
      BY <1>1, <1>2, <2>4, OnlyOwnRun DEF Lonely, Active
    <2>6. raw' = raw /\ events' = events /\ eventsExist' = eventsExist
      BY <2>3 DEF Skip, tables
    <2>7. QED
      BY <1>1, <1>2, <2>5, <2>6 DEF Lonely, HasRow, Kept, Active
  <1>3. CASE ~Active(r)
    <2>1. run[r].pc \in {"idle", "done"}
      BY <1>3 DEF Active
    <2>2. ASSUME run[r].outcome = "green"
          PROVE  /\ Kept(r)'
                 /\ eventsExist'
                 /\ \A o \in Run \ {r} : run'[o].pc = "merge" => run'[o].found
      <3>1. /\ Kept(r) /\ eventsExist
            /\ \A o \in Run \ {r} : run[o].pc = "merge" => run[o].found
        BY <1>1, <2>2 DEF Lonely
      <3>2. ~CreateEvents(a)
        BY <3>1 DEF CreateEvents
      <3>3. eventsExist'
        BY <3>1, <3>2 DEF broker, tables, RunNext, Start, Skip, FetchSnapshot,
           RequestEvents, ReceiveEvents, FetchFails, OpenRaw, RawNotOpened, MergeRaw,
           AppendRaw, FinishFetch, Vacuum, ReadRaw, WriteSnapshot, OpenEvents, MergeEvents,
           Raises, Validate, Killed
      <3>4. \A e \in Event : events'[e].at >= events[e].at
        <4>1. CASE MergeEvents(a)
          <5>1. run[a].view["events"] \in Seq(Row)
            BY DEF TypeOK, RunState, Layer
          <5>2. PICK batch \in Normalized(run[a].view["events"]) :
                    events' = MergeNewer(events, batch)
            BY <4>1 DEF MergeEvents
          <5>3. QED
            BY <5>1, <5>2, NormalizedType, MergeKeeps
        <4>2. CASE ~MergeEvents(a)
          <5>1. events' = events
            BY <3>2, <4>2 DEF broker, tables, RunNext, Start, Skip, FetchSnapshot,
               RequestEvents, ReceiveEvents, FetchFails, OpenRaw, RawNotOpened, MergeRaw,
               AppendRaw, FinishFetch, Vacuum, ReadRaw, WriteSnapshot, OpenEvents, Raises,
               Validate, Killed
          <5>2. \A e \in Event : events[e].at \in Nat
            BY DEF TypeOK, Stored, Time
          <5>3. QED
            BY <5>1, <5>2
        <4>3. QED
          BY <4>1, <4>2
      <3>5. \A e \in Event : events'[e].at \in Nat /\ events[e].at \in Nat /\ run[r].at \in Nat
        <4>1. TypeOK'
          BY NextType DEF Next
        <4>2. events \in [Event -> Stored] /\ events' \in [Event -> Stored] /\ run[r] \in RunState
          BY <1>1, <4>1 DEF TypeOK
        <4>3. QED
          BY <4>2 DEF Stored, Time, RunState
      <3>6. Kept(r)'
        BY <1>1, <3>1, <3>4, <3>5 DEF Kept
      <3>7. run'[a].pc = "merge" => run'[a].found
        <4>1. OpenEvents(a) => run'[a].found
          BY <3>1 DEF OpenEvents, Step, TypeOK, RunState
        <4>2. QED
          BY <4>1, AfterNextLayer, OtherSteps
      <3>8. QED
        BY <3>1, <3>3, <3>6, <3>7, OnlyOwnRun
    <2>3. QED
      BY <1>1, <2>1, <2>2 DEF Lonely, Active
  <1>4. QED
    BY <1>2, <1>3

\* A lonely run's own step leaves what is known of it true.
LEMMA OwnStep ==
    ASSUME KeepsNewest \/ misled = {}, TypeOK, OneRow, AloneInv, NEW r \in Run, RunNext(r), r \in alone'
    PROVE  Lonely(r)'
  <1> USE DEF At
  <1>1. run[r] \in RunState /\ \A rec : Step(r, rec) => run'[r] = rec
    BY DEF TypeOK, Step
  <1>2. \A o \in Run \ {r} : run'[o] = run[o]
    BY OnlyOwnRun
  <1>0. ASSUME NEW outcome, End(r, outcome)
        PROVE  /\ run'[r].pc = "done" /\ run'[r].outcome = outcome
               /\ run'[r].at = run[r].at /\ run'[r].body = run[r].body
    BY <1>0, <1>1, NewRunType DEF End, RunState
  <1>3. CASE Start(r)
    <2>1. /\ run'[r].pc = "fetch" /\ run'[r].outcome = run[r].outcome
          /\ run[r].pc = "idle"
      BY <1>1, <1>3 DEF Start, RunState
    <2>2. run[r].outcome = "none"
      BY <2>1 DEF AloneInv, Ended
    <2>3. \A o \in Run \ {r} : ~Active(o)'
      <3>1. ~ \E o \in Run : Active(o)
        <4>1. r \notin alone
          BY <2>1 DEF AloneInv, Lonely
        <4>2. QED
          BY <1>3, <4>1 DEF Start
      <3>2. QED
        BY <1>2, <3>1 DEF Active
    <2>4. QED
      BY <2>1, <2>2, <2>3 DEF Lonely, Active
  <1>4. CASE ~Start(r)
    <2>1. r \in alone /\ Lonely(r)
      BY <1>4 DEF AloneInv, RunNext, Skip, FetchSnapshot, RequestEvents, ReceiveEvents,
         FetchFails, OpenRaw, RawNotOpened, MergeRaw, AppendRaw, FinishFetch, Vacuum,
         ReadRaw, WriteSnapshot, OpenEvents, MergeEvents, CreateEvents, Raises, Validate,
         Killed
    <2>2. Active(r) => \A o \in Run \ {r} : ~Active(o)' /\ run'[o].pc # "merge"
      BY <1>2, <2>1 DEF Lonely, Active
    <2>3. run[r].pc # "done" => run[r].outcome = "none"
      BY DEF AloneInv, Ended
    <2>4. CASE Skip(r) \/ Raises(r) \/ Killed(r)
      <3>1. run'[r].pc = "done" /\ run'[r].outcome \in {"skipped", "red"}
        BY <1>0, <2>4 DEF Skip, Raises, Killed
      <3>2. QED
        BY <3>1 DEF Lonely, Active
    <2>5. CASE FetchSnapshot(r) \/ RequestEvents(r) \/ ReceiveEvents(r) \/ OpenRaw(r) \/ RawNotOpened(r)
      <3>1. /\ run'[r].pc \in {"open", "answer", "commit"}
            /\ run'[r].outcome = run[r].outcome
            /\ run[r].pc \in {"fetch", "answer", "open"}
        <4>1. CASE FetchSnapshot(r)
          BY <1>1, <4>1 DEF FetchSnapshot, RunState
        <4>2. CASE OpenRaw(r) \/ RawNotOpened(r)
          <5>1. \E found \in BOOLEAN :
                   run'[r] = [run[r] EXCEPT !.pc = "commit", !.found = found]
            BY <1>1, <4>2 DEF OpenRaw, RawNotOpened
          <5>2. run[r].pc = "open"
            BY <4>2 DEF OpenRaw, RawNotOpened
          <5>3. QED
            BY <1>1, <5>1, <5>2 DEF RunState
        <4>3. CASE RequestEvents(r) \/ ReceiveEvents(r)
          BY <1>1, <4>3 DEF RequestEvents, ReceiveEvents, RunState
        <4>4. QED
          BY <2>5, <4>1, <4>2, <4>3
      <3>2. QED
        BY <2>2, <2>3, <3>1 DEF Lonely, Active
    <2>6. CASE NextLayer(r)
      <3>1. /\ run'[r].pc \in {"fetch", "fetched"} /\ run'[r].outcome = "none"
            /\ RowOf(r)' = RowOf(r) /\ Active(r)
        BY <2>3, <2>6, AfterNextLayer
        DEF NextLayer, FetchFails, MergeRaw, AppendRaw, RowOf, Active
      <3>2. ASSUME run'[r].pc = "fetched", ~run'[r].failed
            PROVE  HasRow(raw'["events"], r)
        <4>1. ~FetchFails(r)
          <5> DEFINE rec == [run[r] EXCEPT !.failed = TRUE]
          <5>1. rec.failed
            BY <1>1 DEF RunState
          <5>2. rec \in RunState
            BY <1>1 DEF RunState
          <5> HIDE DEF rec
          <5>3. AfterLayer(rec).failed
            BY <5>1, <5>2 DEF AfterLayer, RunState
          <5>4. FetchFails(r) => run'[r] = AfterLayer(rec)
            BY <1>1 DEF FetchFails, rec
          <5>5. QED
            BY <3>2, <5>3, <5>4
        <4>2. MergeRaw(r) \/ AppendRaw(r)
          BY <2>6, <4>1 DEF NextLayer
        <4>3. run[r].layer = "events"
          <5>1. run'[r] = AfterLayer(run[r])
            BY <1>1, <4>2 DEF MergeRaw, AppendRaw
          <5>2. run[r].layer = "snapshot" => AfterLayer(run[r]).pc = "fetch"
            BY <1>1 DEF AfterLayer, RunState
          <5>3. QED
            BY <1>1, <3>2, <5>1, <5>2 DEF RunState, Layer
        <4>4. raw["events"] \in Seq(Row) /\ raw \in [Layer -> Seq(Row)] /\ RowOf(r) \in Row
          BY RowOfType DEF TypeOK, Layer
        <4>5. CASE MergeRaw(r)
          <5>1. raw'["events"] = Upsert(raw["events"], RowOf(r))
            BY <4>3, <4>4, <4>5 DEF MergeRaw, Layer
          <5>2. CASE raw["events"] = <<>>
            <6>1. raw'["events"] = <<RowOf(r)>>
              BY <5>1, <5>2 DEF Upsert
            <6>2. 1 \in DOMAIN raw'["events"] /\ raw'["events"][1] = RowOf(r)
              BY <6>1
            <6>3. QED
              BY <6>2 DEF HasRow
          <5>3. CASE raw["events"] # <<>>
            <6>1. 1 \in DOMAIN raw["events"]
              BY <4>4, <5>3
            <6>2. 1 \in DOMAIN raw'["events"] /\ raw'["events"][1] = RowOf(r)
              BY <5>1, <5>3, <6>1 DEF Upsert
            <6>3. QED
              BY <6>2 DEF HasRow
          <5>4. QED
            BY <5>2, <5>3
        <4>6. CASE AppendRaw(r)
          <5>1. raw'["events"] = Append(raw["events"], RowOf(r))
            BY <4>3, <4>4, <4>6 DEF AppendRaw, Layer
          <5> DEFINE n == Len(raw["events"]) + 1
          <5>2. n \in DOMAIN raw'["events"] /\ raw'["events"][n] = RowOf(r)
            BY <4>4, <5>1
          <5>3. QED
            BY <5>2 DEF HasRow
        <4>7. QED
          BY <4>2, <4>5, <4>6
      <3>3. HasRow(raw["events"], r)' <=> HasRow(raw'["events"], r)
        BY <3>1 DEF HasRow
      <3>4. QED
        BY <2>2, <3>1, <3>2, <3>3 DEF Lonely, Active
    <2>7. CASE FinishFetch(r)
      <3>1. CASE run[r].failed
        <4>1. run'[r].pc = "done" /\ run'[r].outcome = "red"
          BY <1>0, <2>7, <3>1 DEF FinishFetch
        <4>2. QED
          BY <4>1 DEF Lonely, Active
      <3>2. CASE ~run[r].failed
        <4>1. /\ run'[r].pc = "vacuum" /\ run'[r].outcome = "none" /\ RowOf(r)' = RowOf(r)
              /\ run[r].pc = "fetched" /\ raw' = raw
          BY <1>1, <2>3, <2>7, <3>2 DEF FinishFetch, RunState, RowOf, tables
        <4>2. QED
          BY <2>1, <2>2, <3>2, <4>1 DEF Lonely, Active, HasRow
      <3>3. QED
        BY <3>1, <3>2
    <2>8. CASE Vacuum(r)
      <3>1. /\ run'[r].pc = "read" /\ run'[r].outcome = "none" /\ RowOf(r)' = RowOf(r)
            /\ run[r].pc = "vacuum" /\ raw' = raw
        BY <1>1, <2>3, <2>8 DEF Vacuum, RunState, RowOf, tables
      <3>2. QED
        BY <2>1, <2>2, <3>1 DEF Lonely, Active, HasRow
    <2>9. CASE ReadRaw(r)
      <3>1. /\ run'[r].pc = "write" /\ run'[r].outcome = "none" /\ RowOf(r)' = RowOf(r)
            /\ run[r].pc = "read" /\ run'[r].view = raw
        BY <1>1, <2>3, <2>9 DEF ReadRaw, RunState, RowOf
      <3>2. QED
        BY <2>1, <2>2, <3>1 DEF Lonely, Active, HasRow
    <2>10. CASE WriteSnapshot(r) \/ OpenEvents(r)
      <3>1. /\ run'[r].pc \in {"openEvents", "merge"} /\ run'[r].outcome = "none"
            /\ RowOf(r)' = RowOf(r) /\ run[r].pc \in {"write", "openEvents"}
            /\ run'[r].view = run[r].view
        BY <1>1, <2>3, <2>10 DEF WriteSnapshot, OpenEvents, RunState, RowOf
      <3>2. run'[r].pc = "merge" /\ run'[r].found => eventsExist'
        <4>1. WriteSnapshot(r) => run'[r].pc = "openEvents"
          BY <1>1 DEF WriteSnapshot, RunState
        <4>2. OpenEvents(r) => (run'[r].found => eventsExist')
          <5>1. eventsExist \in BOOLEAN
            BY DEF TypeOK
          <5>2. OpenEvents(r) => run'[r].found = eventsExist
            BY <1>1, <5>1 DEF OpenEvents, RunState
          <5>3. OpenEvents(r) => eventsExist' = eventsExist
            BY DEF OpenEvents
          <5>4. QED
            BY <5>1, <5>2, <5>3
        <4>3. QED
          BY <2>10, <4>1, <4>2
      <3>3. QED
        BY <2>1, <2>2, <3>1, <3>2 DEF Lonely, Active, HasRow
    <2>11. CASE MergeEvents(r) \/ CreateEvents(r)
      <3>1. /\ run'[r].pc = "validate" /\ run'[r].at = run[r].at
            /\ run'[r].body = run[r].body /\ run[r].pc = "merge"
        BY <1>1, <2>11 DEF MergeEvents, CreateEvents, RunState
      <3>2. HasRow(run[r].view["events"], r) /\ run[r].view["events"] \in Seq(Row)
        BY <1>1, <2>1, <3>1 DEF Lonely, RunState, Layer
      <3>3. PICK batch \in Normalized(run[r].view["events"]) :
                events' = MergeNewer(events, batch) \/ events' = batch
        BY <2>11 DEF MergeEvents, CreateEvents
      <3>4. batch \in [Event -> Stored]
        BY <3>2, NormalizedType
      <3>5. ASSUME NEW e \in Event, run[r].body[e] > 0
            PROVE  events'[e].at >= run[r].at
        <4>1. batch[e].at >= run[r].at
          <5>1. KeepsNewest \/ Len(run[r].view["events"]) <= 1
            BY DEF OneRow, Layer
          <5>2. QED
            BY <3>2, <3>5, <5>1, NewestPicked
        <4>2. events'[e].at >= batch[e].at
          <5>1. batch[e] \in Stored
            BY <3>4
          <5>2. batch[e].at \in Nat
            BY <5>1 DEF Stored, Time
          <5>3. CASE events' = batch
            BY <5>2, <5>3
          <5>4. CASE events' = MergeNewer(events, batch)
            BY <3>4, <5>4, MergeKeeps
          <5>5. QED
            BY <3>3, <5>3, <5>4
        <4>3. events'[e].at \in Nat /\ batch[e].at \in Nat /\ run[r].at \in Nat
          <5>1. events' \in [Event -> Stored]
            BY NextType DEF Next, TypeOK
          <5>2. QED
            BY <1>1, <3>4, <5>1 DEF Stored, Time, RunState
        <4>4. QED
          BY <4>1, <4>2, <4>3
      <3>6. Kept(r)'
        BY <3>1, <3>5 DEF Kept
      <3>7. eventsExist'
        <4>1. CASE MergeEvents(r)
          <5>1. run[r].found
            BY <4>1 DEF MergeEvents
          <5>2. eventsExist' = eventsExist
            BY <4>1 DEF MergeEvents
          <5>3. QED
            BY <2>1, <3>1, <5>1, <5>2 DEF Lonely
        <4>2. CASE CreateEvents(r)
          BY <4>2 DEF CreateEvents
        <4>3. QED
          BY <2>11, <4>1, <4>2
      <3>8. QED
        BY <2>2, <3>1, <3>6, <3>7 DEF Lonely, Active
    <2>12. CASE Validate(r)
      <3>1. /\ run'[r].pc = "done" /\ run'[r].at = run[r].at /\ run'[r].body = run[r].body
            /\ run[r].pc = "validate"
        BY <1>0, <2>12 DEF Validate
      <3>2. Kept(r) /\ eventsExist
        BY <2>1, <3>1 DEF Lonely
      <3>3. Kept(r)' /\ eventsExist'
        BY <2>12, <3>1, <3>2 DEF Validate, Kept, tables
      <3>4. QED
        BY <2>2, <3>1, <3>3 DEF Lonely, Active
    <2>13. QED
      BY <1>4, <2>4, <2>5, <2>6, <2>7, <2>8, <2>9, <2>10, <2>11, <2>12
      DEF RunNext, NextLayer
  <1>5. QED
    BY <1>3, <1>4

LEMMA AloneInvStays ==
    ASSUME KeepsNewest \/ misled = {}, TypeOK, OneRow, AloneInv, [Next]_vars
    PROVE  AloneInv'
  <1>1. Ended'
    BY EndedStays DEF AloneInv
  <1>2. ASSUME NEW e \in Event, Happens(e) \/ Corrected(e) \/ LeavesReport(e)
        PROVE  \A r \in alone' : Lonely(r)'
    BY <1>2 DEF AloneInv, Lonely, At, Active, HasRow, RowOf, Kept, Happens, Corrected,
       LeavesReport
  <1>3. ASSUME NEW a \in Run, RunNext(a)
        PROVE  \A r \in alone' : Lonely(r)'
    BY <1>3, OthersStep, OwnStep
  <1>4. CASE UNCHANGED vars
    <2>1. \A r \in alone' : Lonely(r)'
      BY <1>4 DEF vars, AloneInv, Lonely, At, Active, HasRow, RowOf, Kept
    <2>2. QED
      BY <1>1, <2>1 DEF AloneInv
  <1>5. QED
    BY <1>1, <1>2, <1>3, <1>4 DEF Next, BrokerNext, AloneInv

\* A run no other run was active beside and that ended green has its events in the
\* events table for good, whatever failed, was killed, or found its tables missing
\* before and after: with Trading 212 always, with IBKR, whose transform keeps any
\* duplicate, as long as the raw table was not taken for missing.
THEOREM AloneGreenIsStored == Spec => []AloneGreenStored
  <1> DEFINE Clean == KeepsNewest \/ misled = {}
  <1>1. Init => OneRow /\ (Clean => AloneInv)
    BY DEF Init, OneRow, AloneInv, Ended, NewRun
  <1>2. (Clean => AloneInv) => AloneGreenStored
    BY DEF AloneInv, Lonely, Kept, AloneGreenStored
  <1>3. TypeOK /\ OneRow /\ (Clean => AloneInv) /\ [Next]_vars => (Clean => AloneInv)'
    <2> SUFFICES ASSUME TypeOK, OneRow, Clean => AloneInv, [Next]_vars, Clean'
                 PROVE  AloneInv'
      OBVIOUS
    <2>1. Clean
      BY MisledStays
    <2>2. QED
      BY <2>1, AloneInvStays
  <1>4. QED
    BY <1>1, <1>2, <1>3, TypeCorrect, OneRowStays, PTL DEF Spec

---------------------------------------------------------------------------
(* Runs one after the other.                                               *)

OneAtATime == \A r, o \in Run : Active(r) /\ Active(o) => r = o

\* Later fetches report later versions, and the one that is under way will too: its
\* time is the last one given out, or its report is no older than those served.
FetchOrder ==
    /\ \A s, t \in served : s.at < t.at =>
           \A e \in Event : s.body[e] > 0 /\ t.body[e] > 0 => s.body[e] <= t.body[e]
    /\ \A s \in served : s.at <= clock /\ \A e \in Event : s.body[e] <= book[e]
    /\ \A r \in Run : At(r, "answer") =>
           /\ run[r].layer = "events"
           /\ StampFirst => run[r].at = clock
           /\ ~StampFirst => \A e \in Event :
                  /\ run[r].body[e] <= book[e]
                  /\ \A s \in served : s.body[e] > 0 /\ run[r].body[e] > 0 =>
                                           s.body[e] <= run[r].body[e]

\* What the events table says of an event, a fetch that was served said.
EventsServed ==
    \A e \in Event : events[e] # NoEvent =>
        \E s \in served : s.body[e] > 0 /\ events[e] = [at |-> s.at, version |-> s.body[e]]

\* A run is about to create the events table only while there is none.
CreatesFirst ==
    /\ ~eventsExist => \A e \in Event : events[e] = NoEvent
    /\ \A r \in Run : At(r, "merge") => /\ run[r].found => eventsExist
                                        /\ ~run[r].found => ~eventsExist

\* A report that is about to replace the raw row has what the tables hold, unless it
\* left the period.
InHand(r) ==
    /\ run[r].layer = "events"
    /\ \/ run[r].pc \in {"open", "commit"}
       \/ At(r, "answer") /\ ~StampFirst

FetchHasHeld ==
    \A r \in Run : InHand(r) =>
        \A e \in reported : Held(e) => run[r].body[e] > 0

InOrder ==
    /\ TypeOK /\ OneAtATime /\ FromServed
    /\ FetchOrder /\ EventsServed /\ CreatesFirst /\ FetchHasHeld

\* Where a run's steps lead.
LEMMA RunGoes ==
    ASSUME TypeOK, NEW r \in Run, RunNext(r)
    PROVE  /\ run'[r].pc = "answer" => RequestEvents(r)
           /\ run'[r].pc = "open" => FetchSnapshot(r) \/ ReceiveEvents(r)
           /\ run'[r].pc = "commit" => OpenRaw(r) \/ RawNotOpened(r)
           /\ run'[r].pc = "merge" => OpenEvents(r)
  <1> USE DEF At
  <1>1. run[r] \in RunState /\ \A rec : Step(r, rec) => run'[r] = rec
    BY DEF TypeOK, Step
  <1>2. \A outcome : End(r, outcome) => run'[r].pc = "done"
    BY <1>1, NewRunType DEF End, RunState
  <1>3. CASE NextLayer(r)
    BY <1>3, AfterNextLayer
  <1>4. CASE RequestEvents(r) \/ FetchSnapshot(r) \/ ReceiveEvents(r)
    <2>1. RequestEvents(r) => run'[r].pc = "answer"
      BY <1>1 DEF RequestEvents, RunState
    <2>2. FetchSnapshot(r) \/ ReceiveEvents(r) => run'[r].pc = "open"
      BY <1>1 DEF FetchSnapshot, ReceiveEvents, RunState
    <2>3. QED
      BY <1>4, <2>1, <2>2
  <1>5. CASE OpenRaw(r) \/ RawNotOpened(r) \/ OpenEvents(r)
    <2>1. OpenRaw(r) \/ RawNotOpened(r) => run'[r].pc = "commit"
      BY <1>1 DEF OpenRaw, RawNotOpened, RunState
    <2>2. OpenEvents(r) => run'[r].pc = "merge"
      BY <1>1 DEF OpenEvents, RunState
    <2>3. QED
      BY <1>5, <2>1, <2>2
  <1>6. CASE Start(r) \/ FinishFetch(r) \/ Vacuum(r) \/ ReadRaw(r) \/ WriteSnapshot(r)
    <2>1. run'[r].pc \in {"fetch", "done", "vacuum", "read", "write", "openEvents"}
      BY <1>1, <1>2, <1>6 DEF Start, FinishFetch, Vacuum, ReadRaw, WriteSnapshot, RunState
    <2>2. QED
      BY <2>1
  <1>7. CASE MergeEvents(r) \/ CreateEvents(r)
    <2>1. run'[r].pc = "validate"
      BY <1>1, <1>7 DEF MergeEvents, CreateEvents, RunState
    <2>2. QED
      BY <2>1
  <1>8. CASE Skip(r) \/ Raises(r) \/ Validate(r) \/ Killed(r)
    BY <1>2, <1>8 DEF Skip, Raises, Validate, Killed
  <1>9. QED
    BY <1>3, <1>4, <1>5, <1>6, <1>7, <1>8 DEF RunNext, NextLayer

\* A run at work is the only one.
LEMMA AtWork ==
    ASSUME TypeOK, OneAtATime, NEW r \in Run, RunNext(r), ~Start(r), ~Skip(r)
    PROVE  Active(r) /\ \A o \in Run \ {r} : ~Active(o) /\ run'[o] = run[o]
  <1>1. Active(r)
    BY DEF Active, At, RunNext, FetchSnapshot, RequestEvents, ReceiveEvents, FetchFails,
       OpenRaw, RawNotOpened, MergeRaw, AppendRaw, FinishFetch, Vacuum, ReadRaw,
       WriteSnapshot, OpenEvents, MergeEvents, CreateEvents, Raises, Validate, Killed
  <1>2. QED
    BY <1>1, OnlyOwnRun DEF OneAtATime

LEMMA OneAtATimeStays ==
    ASSUME ~Overlap, TypeOK, OneAtATime, [Next]_vars
    PROVE  OneAtATime'
  <1>1. ASSUME NEW e \in Event, Happens(e) \/ Corrected(e) \/ LeavesReport(e)
        PROVE  OneAtATime'
    BY <1>1 DEF OneAtATime, Active, Happens, Corrected, LeavesReport
  <1>2. ASSUME NEW r \in Run, RunNext(r)
        PROVE  OneAtATime'
    <2>1. \A o \in Run \ {r} : run'[o] = run[o]
      BY <1>2, OnlyOwnRun
    <2>2. CASE Start(r)
      <3>1. \A o \in Run : ~Active(o)
        BY <2>2 DEF Start
      <3>2. QED
        BY <2>1, <3>1 DEF OneAtATime, Active
    <2>3. CASE Skip(r)
      <3>1. run'[r].pc = "done"
        BY <2>3, NewRunType DEF Skip, End, Step, TypeOK, RunState
      <3>2. QED
        BY <2>1, <3>1 DEF OneAtATime, Active
    <2>4. CASE ~Start(r) /\ ~Skip(r)
      <3>1. \A o \in Run \ {r} : ~Active(o)
        BY <1>2, <2>4, AtWork
      <3>2. QED
        BY <2>1, <3>1 DEF OneAtATime, Active
    <2>5. QED
      BY <2>2, <2>3, <2>4
  <1>3. CASE UNCHANGED vars
    BY <1>3 DEF vars, OneAtATime, Active
  <1>4. QED
    BY <1>1, <1>2, <1>3 DEF Next, BrokerNext

\* What everything else leaves alone.
LEMMA OnlyFetchesServe ==
    ASSUME NEW r \in Run, RunNext(r)
    PROVE  /\ book' = book /\ reported' = reported
           /\ ~FetchSnapshot(r) /\ ~RequestEvents(r) /\ ~ReceiveEvents(r) => clock' = clock
           /\ ~ReceiveEvents(r) => served' = served
           /\ ~MergeRaw(r) /\ ~AppendRaw(r) => raw' = raw
           /\ ~MergeEvents(r) /\ ~CreateEvents(r) => events' = events
           /\ ~CreateEvents(r) => eventsExist' = eventsExist
  BY DEF broker, tables, RunNext, Start, Skip, FetchSnapshot, RequestEvents, ReceiveEvents,
     FetchFails, OpenRaw, RawNotOpened, MergeRaw, AppendRaw, FinishFetch, Vacuum, ReadRaw,
     WriteSnapshot, OpenEvents, MergeEvents, CreateEvents, Raises, Validate, Killed

LEMMA BrokerLeaves ==
    ASSUME TypeOK, NEW e \in Event, Happens(e) \/ Corrected(e) \/ LeavesReport(e)
    PROVE  /\ UNCHANGED <<clock, served, rawExists, raw, rawCurrent, snapshot, eventsExist,
                          events, eventsCurrent, run, alone, misled>>
           /\ \A f \in Event : book[f] <= book'[f]
           /\ \A f \in reported' : f \in reported \/ book[f] = 0
  <1>1. \A f \in Event : book[f] \in Nat
    BY DEF TypeOK, Body, Version
  <1>2. CASE Happens(e)
    BY <1>1, <1>2 DEF Happens, TypeOK, Body
  <1>3. CASE Corrected(e)
    BY <1>1, <1>3 DEF Corrected, TypeOK, Body
  <1>4. CASE LeavesReport(e)
    BY <1>1, <1>4 DEF LeavesReport
  <1>5. QED
    BY <1>2, <1>3, <1>4

LEMMA FetchOrderStays ==
    ASSUME TypeOK, OneAtATime, FetchOrder, [Next]_vars
    PROVE  FetchOrder'
  <1>0. /\ clock \in Nat
        /\ \A e \in Event : book[e] \in Nat
        /\ \A s \in served : s.at \in Nat /\ \A e \in Event : s.body[e] \in Nat
        /\ \A r \in Run : run[r] \in RunState /\ run[r].at \in Nat
        /\ \A r \in Run : \A e \in Event : run[r].body[e] \in Nat
        /\ \A r \in Run : \A rec : Step(r, rec) => run'[r] = rec
    <2>1. /\ clock \in Nat
          /\ \A e \in Event : book[e] \in Nat
          /\ \A r \in Run : run[r] \in RunState
      BY DEF TypeOK, Time, Body, Version
    <2>2. \A s \in served : s.at \in Nat /\ \A e \in Event : s.body[e] \in Nat
      BY DEF TypeOK, Time, Body, Version, Row
    <2>3. \A r \in Run : run[r].at \in Nat /\ \A e \in Event : run[r].body[e] \in Nat
      BY <2>1 DEF RunState, Time, Body, Version
    <2>4. \A r \in Run : \A rec : Step(r, rec) => run'[r] = rec
      BY DEF TypeOK, Step
    <2>5. QED
      BY <2>1, <2>2, <2>3, <2>4
  <1>1. ASSUME NEW f \in Event, Happens(f) \/ Corrected(f) \/ LeavesReport(f)
        PROVE  FetchOrder'
    <2>1. /\ UNCHANGED <<clock, served, run>>
          /\ \A e \in Event : book[e] <= book'[e] /\ book'[e] \in Nat
      <3>1. TypeOK'
        BY <1>1, NextType DEF Next, BrokerNext
      <3>2. \A e \in Event : book'[e] \in Nat
        BY <3>1 DEF TypeOK, Body, Version
      <3>3. QED
        BY <1>1, <3>2, BrokerLeaves
    <2>2. \A s \in served : \A e \in Event : s.body[e] <= book'[e]
      BY <1>0, <2>1 DEF FetchOrder
    <2>3. \A r \in Run : At(r, "answer") /\ ~StampFirst =>
              \A e \in Event : run[r].body[e] <= book'[e]
      BY <1>0, <2>1 DEF FetchOrder
    <2>4. QED
      BY <2>1, <2>2, <2>3 DEF FetchOrder, At
  <1>2. ASSUME NEW r \in Run, RunNext(r)
        PROVE  FetchOrder'
    <2>1. \A o \in Run \ {r} : run'[o] = run[o]
      BY <1>2, OnlyOwnRun
    <2>2. book' = book
      BY <1>2, OnlyFetchesServe
    <2>3. CASE ReceiveEvents(r)
      <3> DEFINE new == [at |-> run'[r].at, body |-> run'[r].body]
      <3>1. run[r].pc = "answer" /\ run[r].layer = "events" /\ run'[r].pc = "open"
        <4>1. run[r].pc = "answer" /\ run[r].layer = "events"
          BY <2>3 DEF ReceiveEvents, At, FetchOrder
        <4>2. run'[r] \in {[run[r] EXCEPT !.pc = "open", !.body = Visible],
                           [run[r] EXCEPT !.pc = "open", !.at = clock + 1]}
          BY <1>0, <2>3 DEF ReceiveEvents
        <4>3. QED
          BY <1>0, <4>1, <4>2 DEF RunState
      <3>2. \A o \in Run : run'[o].pc # "answer"
        <4>1. ~Start(r) /\ ~Skip(r)
          BY <3>1 DEF Start, Skip, At
        <4>2. \A o \in Run \ {r} : run'[o].pc # "answer"
          BY <1>2, <4>1, AtWork DEF Active
        <4>3. QED
          BY <3>1, <4>2
      <3>3. served' = served \union {new}
        BY <2>3 DEF ReceiveEvents
      <3>4. /\ new.at = clock' /\ clock' \in Nat /\ clock <= clock'
            /\ \A e \in Event : new.body[e] \in Nat /\ new.body[e] <= book[e]
            /\ \A s \in served : \A e \in Event :
                   s.body[e] > 0 /\ new.body[e] > 0 => s.body[e] <= new.body[e]
        <4>1. CASE StampFirst
          <5>1. run'[r] = [run[r] EXCEPT !.pc = "open", !.body = Visible] /\ clock' = clock
            BY <1>0, <2>3, <4>1 DEF ReceiveEvents
          <5>2. new.at = clock /\ new.body = Visible
            BY <1>0, <3>1, <4>1, <5>1 DEF RunState, FetchOrder, At
          <5>3. \A e \in Event : Visible[e] \in {0, book[e]}
            BY DEF Visible
          <5>4. QED
            BY <1>0, <5>1, <5>2, <5>3 DEF FetchOrder
        <4>2. CASE ~StampFirst
          <5>1. run'[r] = [run[r] EXCEPT !.pc = "open", !.at = clock + 1] /\ clock' = clock + 1
            BY <1>0, <2>3, <4>2 DEF ReceiveEvents
          <5>2. new.at = clock + 1 /\ new.body = run[r].body
            BY <1>0, <5>1 DEF RunState
          <5>3. QED
            BY <1>0, <3>1, <4>2, <5>1, <5>2 DEF FetchOrder, At
        <4>3. QED
          BY <4>1, <4>2
      <3> HIDE DEF new
      <3>5. \A s \in served : s.at <= clock'
        BY <1>0, <3>4 DEF FetchOrder
      <3>6. \A s, t \in served' : s.at < t.at =>
               \A e \in Event : s.body[e] > 0 /\ t.body[e] > 0 => s.body[e] <= t.body[e]
        <4> SUFFICES ASSUME NEW s \in served', NEW t \in served', s.at < t.at,
                            NEW e \in Event, s.body[e] > 0, t.body[e] > 0
                     PROVE  s.body[e] <= t.body[e]
          OBVIOUS
        <4>1. s \in served
          BY <1>0, <3>3, <3>4, <3>5
        <4>2. QED
          BY <3>3, <3>4, <4>1 DEF FetchOrder
      <3>7. \A s \in served' : s.at <= clock' /\ \A e \in Event : s.body[e] <= book'[e]
        BY <1>0, <2>2, <3>3, <3>4, <3>5 DEF FetchOrder
      <3>8. QED
        BY <3>2, <3>6, <3>7 DEF FetchOrder, At
    <2>4. CASE FetchSnapshot(r)
      <3>1. run'[r].pc # "answer"
        BY <1>2, <1>0, <2>4 DEF FetchSnapshot, RunState
      <3>2. \A o \in Run : run'[o].pc # "answer"
        <4>1. ~Start(r) /\ ~Skip(r)
          BY <2>4 DEF FetchSnapshot, Start, Skip, At
        <4>2. QED
          BY <1>2, <3>1, <4>1, AtWork DEF Active
      <3>3. served' = served /\ clock' = clock + 1
        BY <2>4 DEF FetchSnapshot
      <3>4. \A s \in served : s.at <= clock'
        BY <1>0, <3>3 DEF FetchOrder
      <3>5. QED
        BY <2>2, <3>2, <3>3, <3>4 DEF FetchOrder, At
    <2>5. CASE RequestEvents(r)
      <3>1. run[r].layer = "events" /\ served' = served
        BY <2>5 DEF RequestEvents
      <3>2. \A o \in Run \ {r} : run'[o].pc # "answer"
        <4>1. ~Start(r) /\ ~Skip(r)
          BY <2>5 DEF RequestEvents, Start, Skip, At
        <4>2. QED
          BY <1>2, <4>1, AtWork DEF Active
      <3>3. run'[r].layer = "events" /\ clock' \in Nat /\ clock <= clock'
        <4>1. run'[r] \in {[run[r] EXCEPT !.pc = "answer", !.at = clock + 1],
                           [run[r] EXCEPT !.pc = "answer", !.body = Visible]}
          BY <1>0, <2>5 DEF RequestEvents
        <4>2. clock' \in {clock, clock + 1}
          BY <2>5 DEF RequestEvents
        <4>3. run'[r].layer = run[r].layer
          BY <1>0, <4>1 DEF RunState
        <4>4. QED
          BY <1>0, <3>1, <4>2, <4>3
      <3>4. StampFirst => run'[r].at = clock'
        BY <1>0, <2>5 DEF RequestEvents, RunState
      <3>5. ~StampFirst => run'[r].body = Visible
        BY <1>0, <2>5 DEF RequestEvents, RunState
      <3>6. \A e \in Event : Visible[e] \in {0, book[e]}
        BY DEF Visible
      <3>7. ~StampFirst => \A e \in Event :
                  /\ run'[r].body[e] <= book[e]
                  /\ \A s \in served : s.body[e] > 0 /\ run'[r].body[e] > 0 =>
                                           s.body[e] <= run'[r].body[e]
        BY <1>0, <3>5, <3>6 DEF FetchOrder
      <3>8. \A s \in served : s.at <= clock'
        BY <1>0, <3>3 DEF FetchOrder
      <3>9. QED
        BY <2>2, <3>1, <3>2, <3>3, <3>4, <3>7, <3>8 DEF FetchOrder, At
    <2>6. CASE ~FetchSnapshot(r) /\ ~RequestEvents(r) /\ ~ReceiveEvents(r)
      <3>1. UNCHANGED <<clock, served, book>>
        BY <1>2, <2>6, OnlyFetchesServe
      <3>2. run'[r].pc # "answer"
        BY <1>2, <2>6, RunGoes
      <3>3. QED
        BY <2>1, <3>1, <3>2 DEF FetchOrder, At
    <2>7. QED
      BY <2>3, <2>4, <2>5, <2>6
  <1>3. CASE UNCHANGED vars
    BY <1>3 DEF vars, FetchOrder, At
  <1>4. QED
    BY <1>1, <1>2, <1>3 DEF Next, BrokerNext

LEMMA EventsServedStay ==
    ASSUME TypeOK, FromServed, EventsServed, [Next]_vars
    PROVE  EventsServed'
  <1>1. served \subseteq served'
    BY ServedGrows
  <1>2. CASE events' = events
    BY <1>1, <1>2 DEF EventsServed
  <1>3. ASSUME NEW r \in Run, MergeEvents(r) \/ CreateEvents(r)
        PROVE  EventsServed'
    <2> DEFINE rows == run[r].view["events"]
    <2>1. rows \in Seq(Row) /\ \A i \in DOMAIN rows : rows[i] \in served
      BY DEF TypeOK, RunState, Layer, FromServed
    <2>2. PICK batch \in Normalized(rows) :
              events' = MergeNewer(events, batch) \/ events' = batch
      BY <1>3 DEF MergeEvents, CreateEvents
    <2> HIDE DEF rows
    <2>3. \A e \in Event : batch[e] # NoEvent =>
              \E s \in served : s.body[e] > 0 /\ batch[e] = [at |-> s.at, version |-> s.body[e]]
      BY <2>1, <2>2, PickedFrom
    <2>4. \A e \in Event : events'[e] \in {events[e], batch[e]}
      BY <2>2 DEF MergeNewer
    <2>5. QED
      BY <1>1, <2>3, <2>4 DEF EventsServed
  <1>4. ASSUME NEW e \in Event, Happens(e) \/ Corrected(e) \/ LeavesReport(e)
        PROVE  events' = events
    BY <1>4, BrokerLeaves
  <1>5. QED
    BY <1>2, <1>3, <1>4, OnlyFetchesServe DEF Next, BrokerNext, vars

LEMMA CreatesFirstStays ==
    ASSUME TypeOK, OneAtATime, CreatesFirst, [Next]_vars
    PROVE  CreatesFirst'
  <1>1. ASSUME NEW e \in Event, Happens(e) \/ Corrected(e) \/ LeavesReport(e)
        PROVE  CreatesFirst'
    BY <1>1 DEF CreatesFirst, At, Happens, Corrected, LeavesReport
  <1>2. ASSUME NEW r \in Run, RunNext(r)
        PROVE  CreatesFirst'
    <2>1. \A o \in Run \ {r} : run'[o] = run[o]
      BY <1>2, OnlyOwnRun
    <2>2. run[r] \in RunState /\ \A rec : Step(r, rec) => run'[r] = rec
      BY DEF TypeOK, Step
    <2>3. CASE CreateEvents(r)
      <3>1. eventsExist' /\ run'[r].pc = "validate"
        BY <2>2, <2>3 DEF CreateEvents, RunState
      <3>2. \A o \in Run \ {r} : run'[o].pc # "merge"
        <4>1. ~Start(r) /\ ~Skip(r)
          BY <2>3 DEF CreateEvents, Start, Skip, At
        <4>2. QED
          BY <1>2, <4>1, AtWork DEF Active
      <3>3. QED
        BY <3>1, <3>2 DEF CreatesFirst, At
    <2>4. CASE OpenEvents(r)
      <3>1. eventsExist' = eventsExist /\ events' = events /\ run'[r].found = eventsExist
        BY <2>2, <2>4 DEF OpenEvents, RunState
      <3>2. eventsExist \in BOOLEAN
        BY DEF TypeOK
      <3>3. (run'[r].found => eventsExist) /\ (~run'[r].found => ~eventsExist)
        BY <3>1, <3>2
      <3>4. QED
        BY <2>1, <3>1, <3>3 DEF CreatesFirst, At
    <2>5. CASE ~CreateEvents(r) /\ ~OpenEvents(r)
      <3>1. eventsExist' = eventsExist /\ run'[r].pc # "merge"
        BY <1>2, <2>5, OnlyFetchesServe, RunGoes
      <3>2. ~eventsExist => events' = events
        <4>1. ~eventsExist => ~MergeEvents(r)
          BY DEF MergeEvents, CreatesFirst
        <4>2. QED
          BY <1>2, <2>5, <4>1, OnlyFetchesServe
      <3>3. QED
        BY <2>1, <3>1, <3>2 DEF CreatesFirst, At
    <2>6. QED
      BY <2>3, <2>4, <2>5
  <1>3. CASE UNCHANGED vars
    BY <1>3 DEF vars, CreatesFirst, At
  <1>4. QED
    BY <1>1, <1>2, <1>3 DEF Next, BrokerNext

\* What the tables hold has happened.
LEMMA HeldHappened ==
    ASSUME TypeOK, FromServed, FetchOrder, EventsServed, NEW e \in Event, Held(e)
    PROVE  book[e] > 0
  <1>1. PICK s \in served : s.body[e] > 0
    <2>1. CASE events[e] # NoEvent
      BY <2>1 DEF EventsServed
    <2>2. CASE \E i \in DOMAIN raw["events"] : raw["events"][i].body[e] > 0
      BY <2>2 DEF FromServed
    <2>3. QED
      BY <2>1, <2>2 DEF Held
  <1>2. s.body[e] <= book[e] /\ s.body[e] \in Nat /\ book[e] \in Nat
    BY DEF FetchOrder, TypeOK, Row, Body, Version
  <1>3. QED
    BY <1>1, <1>2

LEMMA FetchHasHeldStays ==
    ASSUME TypeOK, OneAtATime, FromServed, FetchOrder, EventsServed, FetchHasHeld, [Next]_vars
    PROVE  FetchHasHeld'
  <1>1. ASSUME NEW f \in Event, Happens(f) \/ Corrected(f) \/ LeavesReport(f)
        PROVE  FetchHasHeld'
    <2>1. /\ UNCHANGED <<raw, events, run>>
          /\ \A e \in reported' : e \in reported \/ book[e] = 0
      BY <1>1, BrokerLeaves
    <2>2. \A e \in Event : book[e] = 0 => ~Held(e)
      BY HeldHappened
    <2>3. TypeOK'
      BY <1>1, NextType DEF Next, BrokerNext
    <2>4. reported' \subseteq Event
      BY <2>3 DEF TypeOK
    <2>5. QED
      BY <2>1, <2>2, <2>4 DEF FetchHasHeld, InHand, Held, At
  <1>2. ASSUME NEW r \in Run, RunNext(r)
        PROVE  FetchHasHeld'
    <2>0. /\ run[r] \in RunState /\ \A rec : Step(r, rec) => run'[r] = rec
          /\ reported \subseteq Event
      BY DEF TypeOK, Step
    <2>1. \A o \in Run \ {r} : run'[o] = run[o]
      BY <1>2, OnlyOwnRun
    <2>2. reported' = reported
      BY <1>2, OnlyFetchesServe
    <2>3. ASSUME NEW o \in Run \ {r}, InHand(o)'
          PROVE  \A e \in reported : Held(e)' => run'[o].body[e] > 0
      <3>1. Active(o) /\ InHand(o)
        BY <2>1, <2>3 DEF InHand, Active, At
      <3>2. Start(r) \/ Skip(r)
        BY <1>2, <3>1, AtWork
      <3>3. UNCHANGED <<raw, events>>
        BY <3>2 DEF Start, Skip, tables
      <3>4. QED
        BY <2>1, <3>1, <3>3 DEF FetchHasHeld, Held
    <2>4. ASSUME InHand(r)'
          PROVE  \A e \in reported : Held(e)' => run'[r].body[e] > 0
      <3>1. run'[r].pc \in {"answer", "open", "commit"} /\ run'[r].layer = "events"
        BY <2>4 DEF InHand, At
      <3>2. \/ RequestEvents(r) /\ ~StampFirst
            \/ FetchSnapshot(r) \/ ReceiveEvents(r) \/ OpenRaw(r) \/ RawNotOpened(r)
        <4>1. run'[r].pc = "answer" => ~StampFirst
          BY <2>4 DEF InHand, At
        <4>2. QED
          BY <1>2, <3>1, <4>1, RunGoes
      <3>3. UNCHANGED <<raw, events>>
        BY <3>2 DEF RequestEvents, FetchSnapshot, ReceiveEvents, OpenRaw, RawNotOpened, tables
      <3>4. \A e \in reported : Held(e) => Visible[e] > 0
        BY <2>0, HeldHappened DEF Visible
      <3>5. CASE run'[r].body = Visible
        BY <3>3, <3>4, <3>5 DEF Held
      <3>6. CASE InHand(r) /\ run'[r].body = run[r].body
        BY <3>3, <3>6 DEF FetchHasHeld, Held
      <3>7. CASE RequestEvents(r) /\ ~StampFirst
        <4>1. run'[r].body = Visible
          BY <2>0, <3>7 DEF RequestEvents, RunState
        <4>2. QED
          BY <3>5, <4>1
      <3>8. CASE FetchSnapshot(r)
        <4>1. run'[r].layer = "snapshot"
          BY <2>0, <3>8 DEF FetchSnapshot, RunState
        <4>2. QED
          BY <3>1, <4>1
      <3>9. CASE ReceiveEvents(r) /\ StampFirst
        <4>1. run'[r].body = Visible
          BY <2>0, <3>9 DEF ReceiveEvents, RunState
        <4>2. QED
          BY <3>5, <4>1
      <3>10. CASE ReceiveEvents(r) /\ ~StampFirst
        <4>1. run'[r].body = run[r].body
          BY <2>0, <3>10 DEF ReceiveEvents, RunState
        <4>2. InHand(r)
          BY <3>10 DEF ReceiveEvents, FetchOrder, InHand, At
        <4>3. QED
          BY <3>6, <4>1, <4>2
      <3>11. CASE OpenRaw(r) \/ RawNotOpened(r)
        <4>1. run'[r].body = run[r].body /\ run'[r].layer = run[r].layer /\ run[r].pc = "open"
          BY <2>0, <3>11 DEF OpenRaw, RawNotOpened, RunState, At
        <4>2. QED
          BY <3>1, <3>6, <4>1 DEF InHand
      <3>12. QED
        BY <3>2, <3>7, <3>8, <3>9, <3>10, <3>11
    <2>5. QED
      BY <2>2, <2>3, <2>4 DEF FetchHasHeld
  <1>3. CASE UNCHANGED vars
    BY <1>3 DEF vars, FetchHasHeld, InHand, Held, At
  <1>4. QED
    BY <1>1, <1>2, <1>3 DEF Next, BrokerNext

LEMMA InOrderStays ==
    ASSUME ~Overlap, InOrder, [Next]_vars
    PROVE  InOrder'
  BY NextType, OneAtATimeStays, FromServedStays, FetchOrderStays, EventsServedStay,
     CreatesFirstStays, FetchHasHeldStays DEF InOrder

LEMMA InOrderFromTheStart == ASSUME ~Overlap PROVE Spec => []InOrder
  <1>1. Init => InOrder
    <2> SUFFICES ASSUME Init PROVE InOrder
      OBVIOUS
    <2>1. TypeOK
      BY InitType
    <2>2. \A r \in Run : run[r].pc = "idle" /\ \A l \in Layer : run[r].view[l] = <<>>
      BY EmptyView DEF Init, NewRun
    <2>3. OneAtATime /\ FetchOrder /\ CreatesFirst /\ FetchHasHeld
      BY <2>2 DEF Init, OneAtATime, Active, FetchOrder, CreatesFirst, FetchHasHeld, InHand, At
    <2>4. FromServed /\ EventsServed
      BY <2>2 DEF Init, FromServed, EventsServed, Layer, NewRun
    <2>5. QED
      BY <2>1, <2>3, <2>4 DEF InOrder
  <1>2. QED
    BY <1>1, InOrderStays, PTL DEF Spec

\* What a write of the events table does to one event.
LEMMA WriteMovesOn ==
    ASSUME InOrder, NEW r \in Run, MergeEvents(r) \/ CreateEvents(r), NEW e \in Event
    PROVE  \/ events'[e] = events[e]
           \/ /\ events[e] # NoEvent => events'[e].at > events[e].at
              /\ \E t \in served :
                     /\ t.body[e] > 0
                     /\ events'[e] = [at |-> t.at, version |-> t.body[e]]
           \/ events[e] = NoEvent /\ events'[e] = NoEvent
  <1> DEFINE rows == run[r].view["events"]
  <1>1. rows \in Seq(Row) /\ \A i \in DOMAIN rows : rows[i] \in served
    BY DEF InOrder, TypeOK, RunState, Layer, FromServed
  <1>2. PICK batch \in Normalized(rows) :
            \/ events' = MergeNewer(events, batch)
            \/ events' = batch /\ CreateEvents(r)
    BY DEF MergeEvents, CreateEvents
  <1> HIDE DEF rows
  <1>3. batch[e] # NoEvent =>
            \E t \in served : t.body[e] > 0 /\ batch[e] = [at |-> t.at, version |-> t.body[e]]
    BY <1>1, <1>2, PickedFrom
  <1>4. batch[e] \in Stored /\ events[e] \in Stored
    BY <1>1, <1>2, NormalizedType DEF InOrder, TypeOK
  <1>5. CASE events' = MergeNewer(events, batch)
    <2>1. CASE batch[e].at > events[e].at
      <3>1. events'[e] = batch[e]
        BY <1>5, <2>1 DEF MergeNewer
      <3>2. batch[e] # NoEvent
        BY <1>4, <2>1 DEF NoEvent, Stored, Time
      <3>3. QED
        BY <1>3, <2>1, <3>1, <3>2
    <2>2. CASE ~(batch[e].at > events[e].at)
      BY <1>5, <2>2 DEF MergeNewer
    <2>3. QED
      BY <2>1, <2>2
  <1>6. CASE events' = batch /\ CreateEvents(r)
    <2>1. events[e] = NoEvent
      BY <1>6 DEF CreateEvents, InOrder, CreatesFirst
    <2>2. QED
      BY <1>3, <1>6, <2>1
  <1>7. QED
    BY <1>2, <1>5, <1>6

\* When no run starts while another is active, what the events table says of an event
\* never goes back to an earlier version: not through an event that several fetches
\* report, whichever duplicate the transform keeps, nor through a kill or a failed open
\* between a fetch and its write.
THEOREM VersionsOnlyGrow ==
    ASSUME ~Overlap
    PROVE  Spec => VersionsNeverRegress
  <1>1. InOrder /\ [Next]_vars => [\A e \in Event : events'[e].version >= events[e].version]_events
    <2> SUFFICES ASSUME InOrder, [Next]_vars, events' # events, NEW e \in Event
                 PROVE  events'[e].version >= events[e].version
      OBVIOUS
    <2>1. PICK r \in Run : MergeEvents(r) \/ CreateEvents(r)
      BY BrokerLeaves, OnlyFetchesServe DEF InOrder, Next, BrokerNext, vars
    <2>2. events[e].version \in Nat
      BY DEF InOrder, TypeOK, Stored, Version
    <2>3. CASE events'[e] = events[e]
      BY <2>2, <2>3
    <2>4. ASSUME NEW t \in served, t.body[e] > 0, events[e] # NoEvent => t.at > events[e].at,
                 events'[e] = [at |-> t.at, version |-> t.body[e]]
          PROVE  events'[e].version >= events[e].version
      <3>1. t.body[e] \in Nat /\ t.at \in Nat
        BY DEF InOrder, TypeOK, Row, Time, Body, Version
      <3>2. CASE events[e] = NoEvent
        BY <2>4, <3>1, <3>2 DEF NoEvent
      <3>3. CASE events[e] # NoEvent
        <4>1. PICK s \in served : s.body[e] > 0 /\ events[e] = [at |-> s.at, version |-> s.body[e]]
          BY <3>3 DEF InOrder, EventsServed
        <4>2. s.body[e] \in Nat /\ s.at \in Nat
          BY DEF InOrder, TypeOK, Row, Time, Body, Version
        <4>3. s.at < t.at
          BY <2>4, <3>1, <3>3, <4>1, <4>2
        <4>4. s.body[e] <= t.body[e]
          BY <2>4, <4>1, <4>3 DEF InOrder, FetchOrder
        <4>5. QED
          BY <2>4, <3>1, <4>1, <4>2, <4>4
      <3>4. QED
        BY <3>2, <3>3
    <2>5. CASE events[e] = NoEvent /\ events'[e] = NoEvent
      BY <2>2, <2>5
    <2>6. \/ events'[e] = events[e]
          \/ /\ events[e] # NoEvent => events'[e].at > events[e].at
             /\ \E t \in served :
                    t.body[e] > 0 /\ events'[e] = [at |-> t.at, version |-> t.body[e]]
          \/ events[e] = NoEvent /\ events'[e] = NoEvent
      BY <2>1, WriteMovesOn
    <2>7. CASE \E t \in served :
                   t.body[e] > 0 /\ events'[e] = [at |-> t.at, version |-> t.body[e]]
               /\ (events[e] # NoEvent => events'[e].at > events[e].at)
      <3>1. PICK t \in served : /\ t.body[e] > 0
                                /\ events'[e] = [at |-> t.at, version |-> t.body[e]]
                                /\ events[e] # NoEvent => t.at > events[e].at
        BY <2>7
      <3>2. QED
        BY <2>4, <3>1
    <2>8. QED
      BY <2>3, <2>5, <2>6, <2>7
  <1>2. QED
    BY <1>1, InOrderFromTheStart, PTL DEF Spec, VersionsNeverRegress

\* When no run starts while another is active, an event the raw or the events table
\* holds stays in one of them for as long as the broker reports it: the raw row that
\* replaces the one that has it has it too, and no write of the events table drops it.
THEOREM HeldAreKept ==
    ASSUME ~Overlap
    PROVE  Spec => HeldWhileReported
  <1>1. InOrder /\ [Next]_vars => [\A e \in reported : Held(e) => Held(e)']_<<raw, events>>
    <2> SUFFICES ASSUME InOrder, [Next]_vars, <<raw, events>>' # <<raw, events>>,
                        NEW e \in reported, Held(e)
                 PROVE  Held(e)'
      OBVIOUS
    <2>0. e \in Event /\ TypeOK
      BY DEF InOrder, TypeOK
    <2>1. PICK r \in Run : MergeRaw(r) \/ AppendRaw(r) \/ MergeEvents(r) \/ CreateEvents(r)
      <3>1. CASE \E f \in Event : Happens(f) \/ Corrected(f) \/ LeavesReport(f)
        BY <2>0, <3>1, BrokerLeaves
      <3>2. CASE \E o \in Run : RunNext(o)
        BY <3>2, OnlyFetchesServe
      <3>3. QED
        BY <3>1, <3>2 DEF Next, BrokerNext, vars
    <2>2. CASE MergeRaw(r) \/ AppendRaw(r)
      <3>1. events' = events
        BY <2>2 DEF MergeRaw, AppendRaw
      <3>2. CASE events[e] # NoEvent
        BY <3>1, <3>2 DEF Held
      <3>3. CASE events[e] = NoEvent
        <4>1. PICK i \in DOMAIN raw["events"] : raw["events"][i].body[e] > 0
          BY <3>3 DEF Held
        <4>2. raw \in [Layer -> Seq(Row)] /\ raw["events"] \in Seq(Row) /\ run[r].layer \in Layer
          BY <2>0 DEF TypeOK, Layer, RunState
        <4>3. CASE run[r].layer = "snapshot"
          <5>1. raw'["events"] = raw["events"]
            BY <2>2, <4>2, <4>3 DEF MergeRaw, AppendRaw, Layer
          <5>2. QED
            BY <4>1, <5>1 DEF Held
        <4>4. CASE run[r].layer = "events" /\ MergeRaw(r)
          <5>1. raw'["events"] = [j \in DOMAIN raw["events"] |-> RowOf(r)]
            <6>1. raw["events"] # <<>>
              BY <4>1, <4>2
            <6>2. raw'["events"] = Upsert(raw["events"], RowOf(r))
              BY <4>2, <4>4 DEF MergeRaw
            <6>3. QED
              BY <6>1, <6>2 DEF Upsert
          <5>2. raw'["events"][i].body[e] = run[r].body[e] /\ i \in DOMAIN raw'["events"]
            BY <4>1, <5>1 DEF RowOf
          <5>3. run[r].body[e] > 0
            BY <4>4 DEF InOrder, FetchHasHeld, InHand, MergeRaw, At
          <5>4. QED
            BY <5>2, <5>3 DEF Held
        <4>5. CASE run[r].layer = "events" /\ AppendRaw(r)
          <5>1. raw'["events"] = Append(raw["events"], RowOf(r))
            BY <4>2, <4>5 DEF AppendRaw
          <5>2. i \in DOMAIN raw'["events"] /\ raw'["events"][i] = raw["events"][i]
            <6>1. RowOf(r) \in Row
              <7>1. run[r].at \in Time /\ run[r].body \in Body
                BY <2>0 DEF TypeOK, RunState
              <7>2. QED
                BY <7>1 DEF RowOf, Row
            <6> DEFINE rows == raw["events"]
                       row  == RowOf(r)
            <6>2. rows \in Seq(Row) /\ i \in 1 .. Len(rows)
              BY <4>1, <4>2
            <6> HIDE DEF rows, row
            <6>3. i \in DOMAIN Append(rows, row) /\ Append(rows, row)[i] = rows[i]
              BY <6>1, <6>2
            <6>4. QED
              BY <5>1, <6>3 DEF rows, row
          <5>3. QED
            BY <4>1, <5>2 DEF Held
        <4>6. QED
          BY <2>2, <4>2, <4>3, <4>4, <4>5 DEF Layer
      <3>4. QED
        BY <3>2, <3>3
    <2>3. CASE MergeEvents(r) \/ CreateEvents(r)
      <3>1. raw' = raw
        BY <2>3 DEF MergeEvents, CreateEvents
      <3>2. CASE events[e] = NoEvent
        BY <3>1, <3>2 DEF Held
      <3>3. CASE events[e] # NoEvent
        <4>1. events'[e] # NoEvent
          <5>1. CASE events'[e] = events[e]
            BY <3>3, <5>1
          <5>2. CASE events'[e].at > events[e].at
            <6>1. events[e].at \in Nat
              BY <2>0 DEF TypeOK, Stored, Time
            <6>2. QED
              BY <5>2, <6>1 DEF NoEvent
          <5>3. QED
            BY <2>0, <2>3, <3>3, <5>1, <5>2, WriteMovesOn
        <4>2. QED
          BY <4>1 DEF Held
      <3>4. QED
        BY <3>2, <3>3
    <2>4. QED
      BY <2>1, <2>2, <2>3
  <1>2. QED
    BY <1>1, InOrderFromTheStart, PTL DEF Spec, HeldWhileReported
=============================================================================
