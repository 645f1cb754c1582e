-------------------------- MODULE XtbAccountsProofs --------------------------
(***************************************************************************)
(* Proofs about XtbAccounts, for every set of accounts and runs, any       *)
(* number of files, exports and purges, malformed and legacy rows: what a  *)
(* purge removes and what it leaves, and that accounts do not disturb each *)
(* other.  That no run is beside a purge, or beside another run, are       *)
(* hypotheses of the theorems that need them.                              *)
(***************************************************************************)
EXTENDS XtbAccounts, TLAPS

\* A row is named after its account or not at all, and was fetched before now.
Dated(row) == row.at <= clock /\ row.key \in {row.account, NoId}

RowsDated ==
    /\ \A row \in raw \union snapshot : Dated(row)
    /\ \A op \in events : op.at <= clock
    /\ \A row \in raw : row.key = NoId => row.at = 0
    /\ \A r \in Run :
        /\ \A row \in run[r].mine : Dated(row) /\ row.key # NoId /\ row.at > 0
        /\ \A row \in run[r].picked : Dated(row)
    /\ purge.since <= clock

\* The raw table has one row per key, a run picks one fetch per account, an operation
\* is in the events table once.
OneOfEach ==
    /\ \A x, y \in raw : x.key = y.key => x = y
    /\ \A r \in Run : \A x, y \in run[r].picked : x.account = y.account => x.at = y.at
    /\ \A x, y \in events : SameOperation(x, y) => x = y

\* The places of a run.
Places ==
    \A r \in Run :
        /\ run[r].pc \in {"triggered", "fetch"} => run[r].files # <<>>
        /\ run[r].pc \notin {"write", "merge"} => run[r].picked = {}
        /\ run[r].outcome # "none" => run[r].pc = "done"
        /\ run[r].pc \in {"idle", "triggered"} => run[r].mine = {}

Base == TypeOK /\ RowsDated /\ OneOfEach /\ Places

\* No run is beside a purge, and nothing is fetched during one.
PurgeApart ==
    Purging => /\ \A r \in Run : ~Active(r)
               /\ clock = purge.since /\ ~settled
               /\ [account |-> purge.account, upto |-> purge.since] \in asked

\* What the purge has been through holds nothing old of the account, and no later run
\* has anything old of it in hand.
Clean(rows) == \A row \in rows : row.account = purge.account => row.at > purge.since
Reachable == \A row \in raw : row.account = purge.account => row.key # NoId

PurgeCleans ==
    ~purge.failed /\ Reachable =>
        /\ purge.pc \in {"snapshot", "events", "done"} => Clean(raw)
        /\ purge.pc \in {"events", "done"} => Clean(snapshot)
        /\ purge.pc = "done" => /\ Clean(events)
                                /\ \A r \in Run : Clean(run[r].picked)
                                /\ settled => Clean(gold)

Purged == Base /\ PurgeApart /\ PurgeCleans

\* Runs one at a time: what a run has in hand is what the tables hold.
InStep ==
    \A r \in Run :
        /\ \A o \in Run : Active(r) /\ Active(o) => r = o
        /\ run[r].pc \in {"write", "merge"} => run[r].picked = LatestPerAccount(raw)
        /\ run[r].pc = "merge" => snapshot = run[r].picked
        /\ Active(r) => \A row \in LatestPerAccount(run[r].mine) :
                            Sound(row.account, row.at) => row \in raw

\* What the snapshot shows can be rebuilt from the raw table.
SnapshotFromRaw ==
    \A s \in snapshot : Wanted(s.account, s.at) /\ Sound(s.account, s.at) =>
        \E row \in raw : row.good /\ row.account = s.account /\ row.at >= s.at

\* GreenShown, with the fetch its operations are at least from.
GreenStored ==
    \A r \in Run : run[r].outcome = "green" =>
        \A row \in LatestPerAccount(run[r].mine) :
            Wanted(row.account, row.at) /\ Sound(row.account, row.at) =>
            /\ \E s \in snapshot : s.account = row.account /\ s.at >= row.at
            /\ \A id \in 1 .. row.asof :
                   \E op \in events : op.account = row.account /\ op.id = id /\ op.at >= row.at

Serial == Purged /\ InStep /\ SnapshotFromRaw /\ GreenStored

------------------------------------------------------------------------------
(* The steps of a run, by what they do to it.                              *)

LEMMA NewRunIs ==
  /\ NewRun \in RunRecord /\ NewRun.pc = "idle" /\ NewRun.files = <<>> /\ NewRun.mine = {}
  /\ NewRun.picked = {} /\ NewRun.outcome = "none"
  BY DEF NewRun, RunRecord, RunPC

LEMMA RedRunIs ==
  ASSUME NEW red, red = [NewRun EXCEPT !.pc = "done", !.outcome = "red"]
  PROVE  /\ red \in RunRecord /\ red.pc = "done" /\ red.outcome = "red"
         /\ red.mine = {} /\ red.picked = {}
  BY NewRunIs DEF RunRecord, RunPC

\* After a file a run goes on with what it has, or it is over and red.
LEMMA AfterFileIs ==
  ASSUME NEW rec \in RunRecord, rec.pc = "fetch", rec.files # <<>>
  PROVE  LET new == AfterFile(rec) IN
         /\ new \in RunRecord
         /\ \/ /\ new.pc \in {"fetch", "read"} /\ new.mine = rec.mine
               /\ new.picked = rec.picked /\ new.outcome = rec.outcome
            \/ new.pc = "done" /\ new.outcome = "red" /\ new.mine = {} /\ new.picked = {}
         /\ new.pc = "fetch" => new.files # <<>>
<1> DEFINE rest == [rec EXCEPT !.files = Tail(@)]
<1>1. rec.files \in Seq(Report) /\ Tail(rec.files) \in Seq(Report)
  BY DEF RunRecord
<1>2. /\ rest \in RunRecord /\ rest.files = Tail(rec.files) /\ rest.pc = "fetch"
      /\ rest.mine = rec.mine /\ rest.picked = rec.picked /\ rest.outcome = rec.outcome
  BY <1>1 DEF RunRecord
<1>3. AfterFile(rec) = IF rest.files # <<>> THEN rest
                       ELSE IF rest.failed THEN [NewRun EXCEPT !.pc = "done", !.outcome = "red"]
                       ELSE [rest EXCEPT !.pc = "read"]
  BY DEF AfterFile
<1> HIDE DEF rest
<1>4. CASE rest.files # <<>>
  BY <1>2, <1>3, <1>4
<1>5. CASE rest.files = <<>> /\ rest.failed
  BY <1>3, <1>5, RedRunIs
<1>6. CASE rest.files = <<>> /\ ~rest.failed
  <2> DEFINE new == [rest EXCEPT !.pc = "read"]
  <2>1. /\ new \in RunRecord /\ new.pc = "read" /\ new.mine = rest.mine
        /\ new.picked = rest.picked /\ new.outcome = rest.outcome
    BY <1>2 DEF RunRecord, RunPC
  <2>2. AfterFile(rec) = new
    BY <1>3, <1>6
  <2> HIDE DEF new
  <2> QED
    BY <1>2, <2>1, <2>2
<1> QED
  BY <1>4, <1>5, <1>6

\* Only one run changes.
LEMMA StepIs ==
  ASSUME TypeOK, NEW r \in Run, NEW changed \in RunRecord, Step(r, changed)
  PROVE  /\ run' \in [Run -> RunRecord] /\ run'[r] = changed
         /\ \A o \in Run : o # r => run'[o] = run[o]
  BY DEF TypeOK, Step

\* The record of a run that goes on without having written or read a table.
Onward(r) ==
    /\ run' \in [Run -> RunRecord]
    /\ \A o \in Run : o # r => run'[o] = run[o]
    /\ run'[r].pc \in {"triggered", "fetch"} => run'[r].files # <<>>
    /\ run'[r].picked = {}
    /\ \/ run'[r].pc \in {"triggered", "fetch", "read"} /\ run'[r].outcome = "none"
       \/ run'[r].pc = "done" /\ run'[r].outcome = "red" /\ run'[r].mine = {}
    /\ run'[r].pc \in {"fetch", "read"} =>
         \/ Active(r)
         \/ /\ run[r].mine = {}
            /\ RunsOverlap \/ \A o \in Run : ~Active(o)
            /\ PurgeOverlaps \/ ~Purging

Tables == <<clock, raw, snapshot, events, purge, asked, spoiled, gold, settled>>

QuietStep(r) ==
    \/ \E files \in Files : Upload(r, files)
    \/ Start(r) \/ DropFile(r) \/ FileFails(r) \/ Aborted(r)

LEMMA QuietIs ==
  ASSUME Base, NEW r \in Run, QuietStep(r)
  PROVE  /\ UNCHANGED Tables /\ Onward(r)
         /\ run'[r].mine = run[r].mine \/ run'[r].mine = {}
         /\ run'[r].pc = "triggered" => run'[r].mine = {}
         /\ run'[r].pc # "done" => run'[r].mine = run[r].mine
<1>0. /\ TypeOK /\ Places /\ run[r] \in RunRecord
      /\ run[r].pc \in {"triggered", "fetch"} => run[r].files # <<>>
      /\ run[r].pc \notin {"write", "merge"} => run[r].picked = {}
      /\ run[r].outcome # "none" => run[r].pc = "done"
      /\ run[r].pc \in {"idle", "triggered"} => run[r].mine = {}
      /\ run[r].outcome \in {"none", "green", "red"}
  BY DEF Base, TypeOK, Places, RunRecord
<1>1. ASSUME NEW files \in Files, Upload(r, files)
      PROVE  /\ UNCHANGED Tables /\ Onward(r)
             /\ run'[r].mine = run[r].mine /\ run[r].mine = {}
  <2> DEFINE new == [run[r] EXCEPT !.pc = "triggered", !.files = files]
  <2>1. files \in Seq(Report) /\ files # <<>>
    <3>1. PICK n \in 1 .. MaxFiles : files \in [1 .. n -> Report]
      BY <1>1 DEF Files
    <3>2. n \in Nat /\ n # 0
      BY <3>1, BoundsAreNat
    <3>3. files \in Seq(Report) /\ Len(files) = n
      BY <3>1, <3>2
    <3> QED
      BY <3>2, <3>3
  <2>2. /\ new \in RunRecord /\ new.pc = "triggered" /\ new.files = files
        /\ new.mine = run[r].mine /\ new.picked = run[r].picked /\ new.outcome = run[r].outcome
    BY <1>0, <2>1 DEF RunRecord, RunPC
  <2>3. Step(r, new) /\ run[r].pc = "idle" /\ UNCHANGED Tables
    BY <1>1 DEF Upload, Tables, shown
  <2> HIDE DEF new
  <2>4. /\ run' \in [Run -> RunRecord] /\ run'[r] = new
        /\ \A o \in Run : o # r => run'[o] = run[o]
    BY <1>0, <2>2, <2>3, StepIs
  <2> QED
    BY <1>0, <2>1, <2>2, <2>3, <2>4 DEF Onward
<1>2. CASE Start(r)
  <2> DEFINE new == [run[r] EXCEPT !.pc = "fetch"]
  <2>1. /\ new \in RunRecord /\ new.pc = "fetch" /\ new.files = run[r].files
        /\ new.mine = run[r].mine /\ new.picked = run[r].picked /\ new.outcome = run[r].outcome
    BY <1>0 DEF RunRecord, RunPC
  <2>2. /\ Step(r, new) /\ run[r].pc = "triggered" /\ UNCHANGED Tables
        /\ RunsOverlap \/ \A o \in Run : ~Active(o)
        /\ PurgeOverlaps \/ ~Purging
    BY <1>2 DEF Start, Tables, shown
  <2> HIDE DEF new
  <2>3. /\ run' \in [Run -> RunRecord] /\ run'[r] = new
        /\ \A o \in Run : o # r => run'[o] = run[o]
    BY <1>0, <2>1, <2>2, StepIs
  <2> QED
    BY <1>0, <2>1, <2>2, <2>3 DEF Onward
<1>3. ASSUME NEW rec \in RunRecord, rec.pc = "fetch", rec.files # <<>>, run[r].pc = "fetch",
             rec.mine = run[r].mine, rec.picked = run[r].picked, rec.outcome = run[r].outcome,
             Step(r, AfterFile(rec)), UNCHANGED Tables
      PROVE  /\ UNCHANGED Tables /\ Onward(r)
             /\ run'[r].mine = run[r].mine \/ run'[r].mine = {}
             /\ run'[r].pc # "triggered"
             /\ run'[r].pc # "done" => run'[r].mine = run[r].mine
  <2> DEFINE new == AfterFile(rec)
  <2>1. /\ new \in RunRecord
        /\ \/ /\ new.pc \in {"fetch", "read"} /\ new.mine = rec.mine
              /\ new.picked = rec.picked /\ new.outcome = rec.outcome
           \/ new.pc = "done" /\ new.outcome = "red" /\ new.mine = {} /\ new.picked = {}
        /\ new.pc = "fetch" => new.files # <<>>
    BY <1>3, AfterFileIs
  <2>2. Step(r, new)
    BY <1>3
  <2> HIDE DEF new
  <2>3. /\ run' \in [Run -> RunRecord] /\ run'[r] = new
        /\ \A o \in Run : o # r => run'[o] = run[o]
    BY <1>0, <2>1, <2>2, StepIs
  <2>4. Active(r)
    BY <1>3 DEF Active
  <2> QED
    BY <1>0, <1>3, <2>1, <2>3, <2>4 DEF Onward
<1>4. CASE DropFile(r)
  <2>1. Step(r, AfterFile(run[r])) /\ run[r].pc = "fetch" /\ UNCHANGED Tables
    BY <1>4 DEF DropFile, Tables, shown
  <2> QED
    BY <1>0, <1>3, <2>1
<1>5. CASE FileFails(r)
  <2> DEFINE rec == [run[r] EXCEPT !.failed = TRUE]
  <2>1. /\ rec \in RunRecord /\ rec.pc = run[r].pc /\ rec.files = run[r].files
        /\ rec.mine = run[r].mine /\ rec.picked = run[r].picked /\ rec.outcome = run[r].outcome
    BY <1>0 DEF RunRecord
  <2>2. Step(r, AfterFile(rec)) /\ run[r].pc = "fetch" /\ UNCHANGED Tables
    BY <1>5 DEF FileFails, Tables, shown
  <2> HIDE DEF rec
  <2> QED
    BY <1>0, <1>3, <2>1, <2>2
<1>6. CASE Aborted(r)
  <2> DEFINE new == [NewRun EXCEPT !.pc = "done", !.outcome = "red"]
  <2>1. /\ new \in RunRecord /\ new.pc = "done" /\ new.outcome = "red"
        /\ new.mine = {} /\ new.picked = {}
    BY RedRunIs
  <2>2. Step(r, new) /\ UNCHANGED Tables
    BY <1>6 DEF Aborted, Tables, shown
  <2> HIDE DEF new
  <2>3. /\ run' \in [Run -> RunRecord] /\ run'[r] = new
        /\ \A o \in Run : o # r => run'[o] = run[o]
    BY <1>0, <2>1, <2>2, StepIs
  <2> QED
    BY <2>1, <2>2, <2>3 DEF Onward
<1> QED
  BY <1>1, <1>2, <1>4, <1>5, <1>6 DEF QuietStep

\* A report takes its account's place in the raw table.
LEMMA IngestIs ==
  ASSUME Base, NEW r \in Run, IngestFile(r)
  PROVE  \E row \in Row :
           /\ row.at = clock + 1 /\ row.key = row.account /\ row.key # NoId
           /\ clock' = clock + 1
           /\ raw' = {old \in raw : old.key # row.key} \union {row}
           /\ spoiled' = IF row.good THEN spoiled
                         ELSE spoiled \union {[account |-> row.account, at |-> clock + 1]}
           /\ UNCHANGED <<snapshot, events, purge, asked, gold, settled>>
           /\ Onward(r) /\ Active(r) /\ run'[r].pc # "triggered"
           /\ run'[r].pc = "done" \/ run'[r].mine = run[r].mine \union {row}
<1>0. /\ TypeOK /\ run[r] \in RunRecord /\ clock \in Nat
      /\ run[r].pc = "fetch" /\ run[r].files # <<>> /\ run[r].picked = {}
      /\ run[r].outcome = "none"
  BY DEF Base, TypeOK, Places, IngestFile, RunRecord
<1> DEFINE f == Head(run[r].files)
           row == RowOf(f, clock')
           rec == [run[r] EXCEPT !.mine = @ \union {row}]
           new == AfterFile(rec)
<1>1. f \in Report /\ f.key # NoId
  BY <1>0 DEF IngestFile, RunRecord
<1>2. clock' = clock + 1
  BY DEF IngestFile
<1>3. /\ row \in Row /\ row.at = clock + 1 /\ row.key = row.account /\ row.key # NoId
  BY <1>0, <1>1, <1>2 DEF Report, RowOf, Row
<1>4. /\ raw' = {old \in raw : old.key # row.key} \union {row}
      /\ spoiled' = IF row.good THEN spoiled
                    ELSE spoiled \union {[account |-> row.account, at |-> clock + 1]}
      /\ UNCHANGED <<snapshot, events, purge, asked, gold, settled>>
      /\ Step(r, new)
  BY <1>2 DEF IngestFile, shown
<1>5. /\ rec \in RunRecord /\ rec.pc = "fetch" /\ rec.files # <<>>
      /\ rec.mine = run[r].mine \union {row} /\ rec.picked = {} /\ rec.outcome = "none"
  <2> HIDE DEF row
  <2> QED
    BY <1>0, <1>3 DEF RunRecord
<1> HIDE DEF row, rec
<1>6. /\ new \in RunRecord
      /\ \/ /\ new.pc \in {"fetch", "read"} /\ new.mine = rec.mine
            /\ new.picked = rec.picked /\ new.outcome = rec.outcome
         \/ new.pc = "done" /\ new.outcome = "red" /\ new.mine = {} /\ new.picked = {}
      /\ new.pc = "fetch" => new.files # <<>>
  BY <1>5, AfterFileIs
<1> HIDE DEF new
<1>7. /\ run' \in [Run -> RunRecord] /\ run'[r] = new
      /\ \A o \in Run : o # r => run'[o] = run[o]
  BY <1>0, <1>4, <1>6, StepIs
<1>8. Active(r)
  BY <1>0 DEF Active
<1>9. Onward(r) /\ run'[r].pc # "triggered"
      /\ (run'[r].pc = "done" \/ run'[r].mine = run[r].mine \union {row})
  BY <1>5, <1>6, <1>7, <1>8 DEF Onward
<1> QED
  BY <1>2, <1>3, <1>4, <1>8, <1>9

\* A row counts for its account.
LEMMA GroupIsAccount ==
  ASSUME NEW rows, \A row \in rows : row.key \in {row.account, NoId}
  PROVE  /\ \A row \in rows : GroupOf(row) = row.account
         /\ LatestPerAccount(rows) \subseteq rows
         /\ \A x, y \in LatestPerAccount(rows) : x.account = y.account => x.at <= y.at /\ y.at <= x.at
  BY DEF GroupOf, LatestPerAccount

\* What a run keeps when it goes on with its transforms.
OnlyChanges(r) ==
    /\ run' \in [Run -> RunRecord]
    /\ \A o \in Run : o # r => run'[o] = run[o]
    /\ run'[r].mine = run[r].mine

LEMMA ReadRawIs ==
  ASSUME Base, NEW r \in Run, ReadRaw(r)
  PROVE  /\ UNCHANGED Tables /\ OnlyChanges(r) /\ run[r].pc = "read" /\ Active(r)
         /\ \/ /\ raw = {} /\ run'[r].pc = "done" /\ run'[r].outcome = "green"
               /\ run'[r].picked = {}
            \/ /\ raw # {} /\ run'[r].pc = "write" /\ run'[r].outcome = "none"
               /\ run'[r].picked = LatestPerAccount(raw)
<1>0. /\ TypeOK /\ run[r] \in RunRecord /\ run[r].pc = "read" /\ raw \subseteq Row
      /\ run[r].picked = {} /\ run[r].outcome = "none" /\ LatestPerAccount(raw) \subseteq Row
  BY DEF Base, TypeOK, Places, ReadRaw, RunRecord, LatestPerAccount
<1>1. UNCHANGED Tables /\ Active(r)
  BY <1>0 DEF ReadRaw, Tables, shown, Active
<1>2. CASE raw = {}
  <2> DEFINE new == [run[r] EXCEPT !.pc = "done", !.outcome = "green"]
  <2>1. /\ new \in RunRecord /\ new.pc = "done" /\ new.outcome = "green"
        /\ new.mine = run[r].mine /\ new.picked = {}
    BY <1>0 DEF RunRecord, RunPC
  <2>2. Step(r, new)
    BY <1>2 DEF ReadRaw
  <2> HIDE DEF new
  <2> QED
    BY <1>0, <1>1, <1>2, <2>1, <2>2, StepIs DEF OnlyChanges
<1>3. CASE raw # {}
  <2> DEFINE new == [run[r] EXCEPT !.pc = "write", !.picked = LatestPerAccount(raw)]
  <2>1. /\ new \in RunRecord /\ new.pc = "write" /\ new.outcome = "none"
        /\ new.mine = run[r].mine /\ new.picked = LatestPerAccount(raw)
    BY <1>0 DEF RunRecord, RunPC
  <2>2. Step(r, new)
    BY <1>3 DEF ReadRaw
  <2> HIDE DEF new
  <2> QED
    BY <1>0, <1>1, <1>3, <2>1, <2>2, StepIs DEF OnlyChanges
<1> QED
  BY <1>2, <1>3

LEMMA WriteIs ==
  ASSUME Base, NEW r \in Run, WriteSnapshot(r)
  PROVE  /\ UNCHANGED <<clock, raw, events, purge, asked, spoiled, gold, settled>>
         /\ snapshot' = run[r].picked /\ OnlyChanges(r) /\ run[r].pc = "write" /\ Active(r)
         /\ run'[r].pc = "merge" /\ run'[r].outcome = "none" /\ run'[r].picked = run[r].picked
<1> DEFINE new == [run[r] EXCEPT !.pc = "merge"]
<1>0. /\ TypeOK /\ run[r] \in RunRecord /\ run[r].pc = "write" /\ run[r].outcome = "none"
      /\ Step(r, new)
  BY DEF Base, TypeOK, Places, WriteSnapshot, RunRecord
<1>1. /\ new \in RunRecord /\ new.pc = "merge" /\ new.outcome = "none"
      /\ new.mine = run[r].mine /\ new.picked = run[r].picked
  BY <1>0 DEF RunRecord, RunPC
<1> HIDE DEF new
<1>2. OnlyChanges(r) /\ run'[r] = new
  BY <1>0, <1>1, StepIs DEF OnlyChanges
<1> QED
  BY <1>0, <1>1, <1>2 DEF WriteSnapshot, shown, Active

\* The operations of the rows picked, one of each.
LEMMA BatchIs ==
  ASSUME Base, NEW r \in Run, NEW batch, batch = OperationsOf(run[r].picked)
  PROVE  /\ batch \subseteq Operation
         /\ \A op \in batch : \E row \in run[r].picked : op.account = row.account /\ op.at = row.at
         /\ \A row \in run[r].picked : \A id \in 1 .. row.asof :
                \E op \in batch : op.account = row.account /\ op.id = id /\ op.at = row.at
         /\ \A x, y \in batch : SameOperation(x, y) => x = y
<1>0. run[r].picked \subseteq Row /\ MaxAsOf \in Nat
  BY BoundsAreNat DEF Base, TypeOK, RunRecord
<1>1. \A op \in batch : \E row \in run[r].picked :
          op \in [account : {row.account}, id : 1 .. row.asof, at : {row.at}]
  BY DEF OperationsOf
<1>2. \A op \in batch : /\ op \in Operation
                        /\ \E row \in run[r].picked : op.account = row.account /\ op.at = row.at
  <2> SUFFICES ASSUME NEW op \in batch
               PROVE  /\ op \in Operation
                      /\ \E row \in run[r].picked : op.account = row.account /\ op.at = row.at
    OBVIOUS
  <2>1. PICK row \in run[r].picked :
            op \in [account : {row.account}, id : 1 .. row.asof, at : {row.at}]
    BY <1>1
  <2>2. row.account \in Account /\ row.asof \in 1 .. MaxAsOf /\ row.at \in Nat
    BY <1>0 DEF Row, AsOf
  <2>3. 1 .. row.asof \subseteq AsOf
    BY <1>0, <2>2 DEF AsOf
  <2> QED
    BY <2>1, <2>2, <2>3 DEF Operation
<1>3. \A row \in run[r].picked : \A id \in 1 .. row.asof :
          \E op \in batch : op.account = row.account /\ op.id = id /\ op.at = row.at
  <2> SUFFICES ASSUME NEW row \in run[r].picked, NEW id \in 1 .. row.asof
               PROVE  \E op \in batch : op.account = row.account /\ op.id = id /\ op.at = row.at
    OBVIOUS
  <2> DEFINE op == [account |-> row.account, id |-> id, at |-> row.at]
  <2>1. op \in [account : {row.account}, id : 1 .. row.asof, at : {row.at}]
    OBVIOUS
  <2>2. op \in batch
    BY <2>1 DEF OperationsOf
  <2> QED
    BY <2>2
<1>4. \A x, y \in batch : SameOperation(x, y) => x = y
  <2> SUFFICES ASSUME NEW x \in batch, NEW y \in batch, SameOperation(x, y)
               PROVE  x = y
    OBVIOUS
  <2>1. x.at = y.at /\ x.account = y.account /\ x.id = y.id
    BY <1>2 DEF SameOperation, Base, OneOfEach
  <2> QED
    BY <1>2, <2>1 DEF Operation
<1> QED
  BY <1>2, <1>3, <1>4

\* A merge keeps every operation, and has every one of its batch, at least as new.
LEMMA MergeIs ==
  ASSUME Base, NEW r \in Run, MergeEvents(r)
  PROVE  /\ UNCHANGED <<clock, raw, snapshot, purge, asked, spoiled, gold, settled>>
         /\ OnlyChanges(r) /\ run[r].pc = "merge" /\ Active(r)
         /\ run'[r].pc = "done" /\ run'[r].outcome = "green" /\ run'[r].picked = {}
         /\ events' \subseteq events \union OperationsOf(run[r].picked)
         /\ \A x, y \in events' : SameOperation(x, y) => x = y
         /\ \A op \in events \union OperationsOf(run[r].picked) :
                \E new \in events' : SameOperation(new, op) /\ new.at >= op.at
<1> DEFINE changed == [run[r] EXCEPT !.pc = "done", !.outcome = "green", !.picked = {}]
           batch == OperationsOf(run[r].picked)
           older(op) == \E new \in batch : SameOperation(new, op) /\ new.at > op.at
           insert == {new \in batch : \A op \in events : SameOperation(new, op) => new.at > op.at}
<1>0. /\ TypeOK /\ run[r] \in RunRecord /\ run[r].pc = "merge" /\ Step(r, changed)
      /\ events \subseteq Operation /\ \A x, y \in events : SameOperation(x, y) => x = y
  BY DEF Base, TypeOK, MergeEvents, OneOfEach
<1>1. /\ changed \in RunRecord /\ changed.pc = "done" /\ changed.outcome = "green"
      /\ changed.mine = run[r].mine /\ changed.picked = {}
  BY <1>0 DEF RunRecord, RunPC
<1> HIDE DEF changed
<1>2. OnlyChanges(r) /\ run'[r] = changed
  BY <1>0, <1>1, StepIs DEF OnlyChanges
<1>3. events' = {op \in events : ~older(op)} \union insert
  BY DEF MergeEvents
<1>4. /\ batch \subseteq Operation
      /\ \A x, y \in batch : SameOperation(x, y) => x = y
  BY BatchIs
<1> HIDE DEF batch
<1>5. \A op \in events \union batch : op.at \in Nat
  BY <1>0, <1>4 DEF Operation
<1>6. \A x, y \in events' : SameOperation(x, y) => x = y
  BY <1>0, <1>3, <1>4, <1>5 DEF SameOperation
<1>7. \A op \in events : \E new \in events' : SameOperation(new, op) /\ new.at >= op.at
  <2> SUFFICES ASSUME NEW op \in events
               PROVE  \E new \in events' : SameOperation(new, op) /\ new.at >= op.at
    OBVIOUS
  <2>1. CASE ~older(op)
    BY <1>3, <1>5, <2>1 DEF SameOperation
  <2>2. CASE older(op)
    <3>1. PICK new \in batch : SameOperation(new, op) /\ new.at > op.at
      BY <2>2
    <3>2. \A other \in events : SameOperation(new, other) => other = op
      BY <1>0, <3>1 DEF SameOperation
    <3> QED
      BY <1>3, <1>5, <3>1, <3>2
  <2> QED
    BY <2>1, <2>2
<1>8. \A op \in batch : \E new \in events' : SameOperation(new, op) /\ new.at >= op.at
  <2> SUFFICES ASSUME NEW op \in batch
               PROVE  \E new \in events' : SameOperation(new, op) /\ new.at >= op.at
    OBVIOUS
  <2>1. CASE op \in insert
    BY <1>3, <1>5, <2>1 DEF SameOperation
  <2>2. CASE op \notin insert
    <3>1. PICK old \in events : SameOperation(op, old) /\ ~(op.at > old.at)
      BY <2>2
    <3>2. \A new \in batch : SameOperation(new, old) => new = op
      BY <1>4, <3>1 DEF SameOperation
    <3> QED
      BY <1>3, <1>5, <3>1, <3>2 DEF SameOperation
  <2> QED
    BY <2>1, <2>2
<1>9. UNCHANGED <<clock, raw, snapshot, purge, asked, spoiled, gold, settled>> /\ Active(r)
  BY <1>0 DEF MergeEvents, shown, Active
<1>10. events' \subseteq events \union batch
  BY <1>3
<1> QED
  BY <1>0, <1>1, <1>2, <1>6, <1>7, <1>8, <1>9, <1>10 DEF batch

------------------------------------------------------------------------------
(* The steps of a purge and of a consolidation.                            *)

PurgeStep ==
    \/ \E a \in Account : PurgeAccount(a)
    \/ PurgeFails \/ PurgeRaises \/ PurgeRaw \/ PurgeSnapshot \/ PurgeEvents

\* A purge removes rows and adds none.
LEMMA PurgeIs ==
  ASSUME TypeOK, PurgeStep
  PROVE  /\ UNCHANGED <<clock, run, spoiled, gold>>
         /\ purge' \in PurgeRecord /\ purge'.since \in {purge.since, clock}
         /\ asked \subseteq asked' /\ asked' \subseteq [account : Account, upto : Nat]
         /\ raw' \subseteq raw /\ snapshot' \subseteq snapshot /\ events' \subseteq events
         /\ settled' \in {settled, FALSE}
<1>0. /\ purge \in PurgeRecord /\ clock \in Nat /\ asked \subseteq [account : Account, upto : Nat]
  BY DEF TypeOK
<1>1. ASSUME NEW a \in Account, PurgeAccount(a)
      PROVE  /\ UNCHANGED <<clock, run, spoiled, gold, raw, snapshot, events>>
             /\ purge' \in PurgeRecord /\ purge'.since = clock
             /\ asked \subseteq asked' /\ asked' \subseteq [account : Account, upto : Nat]
             /\ settled' = FALSE
  BY <1>0, <1>1 DEF PurgeAccount, PurgeRecord
<1>2. CASE PurgeFails
  <2>1. AfterPurgeOf[purge.pc] \in {"snapshot", "events", "done"}
    BY <1>2 DEF PurgeFails, Purging, AfterPurgeOf
  <2> QED
    BY <1>0, <1>2, <2>1 DEF PurgeFails, PurgeRecord, shown
<1>3. CASE PurgeRaises
  BY <1>0, <1>3 DEF PurgeRaises, PurgeRecord, shown
<1>4. CASE PurgeRaw
  BY <1>0, <1>4 DEF PurgeRaw, PurgeRecord, shown
<1>5. CASE PurgeSnapshot
  BY <1>0, <1>5 DEF PurgeSnapshot, PurgeRecord, shown
<1>6. CASE PurgeEvents
  <2>1. PICK raises \in BOOLEAN :
            purge' = [purge EXCEPT !.pc = "done", !.failed = @ \/ raises]
    BY <1>6 DEF PurgeEvents
  <2>2. (purge.failed \/ raises) \in BOOLEAN
    BY <1>0 DEF PurgeRecord
  <2>3. purge' \in PurgeRecord /\ purge'.since = purge.since
    BY <1>0, <2>1, <2>2 DEF PurgeRecord
  <2> QED
    BY <1>0, <1>6, <2>3 DEF PurgeEvents, shown
<1>7. CASE \E a \in Account : PurgeAccount(a)
  BY <1>1, <1>7
<1> QED
  BY <1>2, <1>3, <1>4, <1>5, <1>6, <1>7 DEF PurgeStep

LEMMA ConsolidateIs ==
  ASSUME TypeOK, Consolidate
  PROVE  /\ UNCHANGED <<clock, raw, snapshot, events, run, purge, asked, spoiled>>
         /\ gold' \subseteq [account : Account, at : Nat]
         /\ \A shows \in gold' : \E row \in snapshot \union events :
                shows.account = row.account /\ shows.at = row.at
         /\ settled' = ~Purging
<1>1. \A row \in snapshot \union events : row.account \in Account /\ row.at \in Nat
  BY DEF TypeOK, Row, Operation
<1> QED
  BY <1>1 DEF Consolidate

RunStep(r) ==
    QuietStep(r) \/ IngestFile(r) \/ ReadRaw(r) \/ WriteSnapshot(r) \/ MergeEvents(r)

LEMMA NextIs ==
  ASSUME Next
  PROVE  Consolidate \/ PurgeStep \/ \E r \in Run : RunStep(r)
  BY DEF Next, PurgeNext, RunNext, PurgeStep, RunStep, QuietStep

------------------------------------------------------------------------------
(* Types, and what is true of every row.                                   *)

LEMMA InitIs ==
  ASSUME Init
  PROVE  Base /\ PurgeApart /\ \A row \in raw : row.key = NoId
<1>1. /\ clock = 0 /\ snapshot = {} /\ events = {} /\ gold = {} /\ asked = {} /\ spoiled = {}
      /\ settled = FALSE /\ purge = NoPurge /\ run = [r \in Run |-> NewRun]
  BY DEF Init
<1>2. \/ raw = {}
      \/ \E a \in Account :
            raw = {[key |-> NoId, account |-> a, asof |-> 1, good |-> TRUE, at |-> 0]}
  BY DEF Init
<1>3. /\ \A row \in raw : row \in Row /\ row.key = NoId /\ row.at = 0
      /\ \A x, y \in raw : x = y
  <2>1. CASE raw = {}
    BY <2>1
  <2>2. ASSUME NEW a \in Account, NEW row,
               row = [key |-> NoId, account |-> a, asof |-> 1, good |-> TRUE, at |-> 0],
               raw = {row}
        PROVE  /\ \A x \in raw : x \in Row /\ x.key = NoId /\ x.at = 0
               /\ \A x, y \in raw : x = y
    <3>1. 1 \in AsOf
      BY BoundsAreNat DEF AsOf
    <3>2. row \in Row /\ row.key = NoId /\ row.at = 0
      BY <2>2, <3>1 DEF Row
    <3> QED
      BY <2>2, <3>2
  <2> QED
    BY <1>2, <2>1, <2>2
<1>4. purge \in PurgeRecord /\ purge.since = 0 /\ purge.pc = "idle"
  BY <1>1 DEF NoPurge, PurgeRecord
<1>5. TypeOK
  <2>1. raw \subseteq Row
    BY <1>3
  <2> QED
    BY <1>1, <1>4, <2>1, NewRunIs DEF TypeOK
<1>6. \A r \in Run : /\ run[r].pc = "idle" /\ run[r].mine = {} /\ run[r].picked = {}
                     /\ run[r].outcome = "none"
  BY <1>1, NewRunIs
<1>7. RowsDated
  <2>1. \A row \in raw : Dated(row)
    BY <1>1, <1>3 DEF Dated
  <2> QED
    BY <1>1, <1>3, <1>4, <1>6, <2>1 DEF RowsDated
<1>8. OneOfEach /\ Places
  BY <1>1, <1>3, <1>6 DEF OneOfEach, Places
<1>9. PurgeApart
  BY <1>4 DEF PurgeApart, Purging
<1> QED
  BY <1>3, <1>5, <1>7, <1>8, <1>9 DEF Base

LEMMA BaseStep ==
  ASSUME Base, [Next]_vars
  PROVE  Base'
<1>0. /\ TypeOK /\ RowsDated /\ OneOfEach /\ Places /\ clock \in Nat
      /\ run \in [Run -> RunRecord] /\ purge \in PurgeRecord /\ purge.since \in Nat
      /\ \A row \in Row : row.at \in Nat
      /\ \A op \in Operation : op.at \in Nat
      /\ \A r \in Run : run[r].mine \subseteq Row /\ run[r].picked \subseteq Row
  BY DEF Base, TypeOK, RunRecord, PurgeRecord, Row, Operation
<1>1. CASE UNCHANGED vars
  <2>1. UNCHANGED <<clock, raw, snapshot, events, run, purge, asked, spoiled, gold, settled>>
    BY <1>1 DEF vars, shown
  <2>2. TypeOK' /\ OneOfEach' /\ Places'
    BY <1>0, <2>1 DEF TypeOK, OneOfEach, Places
  <2>3. RowsDated'
    BY <1>0, <2>1 DEF RowsDated, Dated
  <2> QED
    BY <2>2, <2>3 DEF Base
<1>2. CASE Consolidate
  <2>1. /\ UNCHANGED <<clock, raw, snapshot, events, run, purge, asked, spoiled>>
        /\ gold' \subseteq [account : Account, at : Nat] /\ settled' \in BOOLEAN
    BY <1>0, <1>2, ConsolidateIs
  <2>2. TypeOK' /\ OneOfEach' /\ Places'
    BY <1>0, <2>1 DEF TypeOK, OneOfEach, Places
  <2>3. RowsDated'
    BY <1>0, <2>1 DEF RowsDated, Dated
  <2> QED
    BY <2>2, <2>3 DEF Base
<1>3. CASE PurgeStep
  <2>1. /\ UNCHANGED <<clock, run, spoiled, gold>>
        /\ purge' \in PurgeRecord /\ purge'.since \in {purge.since, clock}
        /\ asked' \subseteq [account : Account, upto : Nat]
        /\ raw' \subseteq raw /\ snapshot' \subseteq snapshot /\ events' \subseteq events
        /\ settled' \in {settled, FALSE}
    BY <1>0, <1>3, PurgeIs
  <2>2. TypeOK'
    BY <1>0, <2>1 DEF TypeOK
  <2>3. OneOfEach' /\ Places'
    BY <1>0, <2>1 DEF OneOfEach, Places
  <2>4. RowsDated'
    BY <1>0, <2>1 DEF RowsDated, Dated
  <2> QED
    BY <2>2, <2>3, <2>4 DEF Base
<1>4. ASSUME NEW r \in Run, QuietStep(r)
      PROVE  Base'
  <2>1. /\ UNCHANGED <<clock, raw, snapshot, events, purge, asked, spoiled, gold, settled>>
        /\ Onward(r)
        /\ run'[r].mine = run[r].mine \/ run'[r].mine = {}
        /\ run'[r].pc = "triggered" => run'[r].mine = {}
    BY <1>4, QuietIs DEF Tables
  <2>2. /\ run' \in [Run -> RunRecord] /\ run'[r].picked = {}
        /\ \A o \in Run : o # r => run'[o] = run[o]
    BY <2>1 DEF Onward
  <2>3. TypeOK'
    BY <1>0, <2>1, <2>2 DEF TypeOK
  <2>4. OneOfEach'
    BY <1>0, <2>1, <2>2 DEF OneOfEach
  <2>5. Places'
    BY <1>0, <2>1, <2>2 DEF Places, Onward
  <2>6. RowsDated'
    BY <1>0, <2>1, <2>2 DEF RowsDated, Dated
  <2> QED
    BY <2>3, <2>4, <2>5, <2>6 DEF Base
<1>5. ASSUME NEW r \in Run, IngestFile(r)
      PROVE  Base'
  <2>1. PICK row \in Row :
          /\ row.at = clock + 1 /\ row.key = row.account /\ row.key # NoId
          /\ clock' = clock + 1
          /\ raw' = {old \in raw : old.key # row.key} \union {row}
          /\ spoiled' = IF row.good THEN spoiled
                        ELSE spoiled \union {[account |-> row.account, at |-> clock + 1]}
          /\ UNCHANGED <<snapshot, events, purge, asked, gold, settled>>
          /\ Onward(r) /\ run'[r].pc # "triggered"
          /\ run'[r].pc = "done" \/ run'[r].mine = run[r].mine \union {row}
    BY <1>5, IngestIs
  <2>2. /\ run' \in [Run -> RunRecord] /\ run'[r].picked = {}
        /\ \A o \in Run : o # r => run'[o] = run[o]
        /\ run'[r].mine \subseteq run[r].mine \union {row}
    BY <2>1 DEF Onward
  <2>3. TypeOK'
    <3>1. row.account \in Account /\ clock + 1 \in Nat
      BY <1>0 DEF Row
    <3>2. [account |-> row.account, at |-> clock + 1] \in [account : Account, at : Nat]
      BY <3>1
    <3>3. spoiled' \subseteq [account : Account, at : Nat]
      BY <1>0, <2>1, <3>2 DEF TypeOK
    <3>4. raw' \subseteq Row
      BY <1>0, <2>1 DEF TypeOK
    <3> QED
      BY <1>0, <2>1, <2>2, <3>1, <3>3, <3>4 DEF TypeOK
  <2>4. OneOfEach'
    BY <1>0, <2>1, <2>2 DEF OneOfEach
  <2>5. Places'
    BY <1>0, <2>1, <2>2 DEF Places, Onward
  <2>6. RowsDated'
    <3>1. \A old : Dated(old) /\ old.at \in Nat => Dated(old)'
      BY <1>0, <2>1 DEF Dated
    <3>2. Dated(row)' /\ row.at > 0
      BY <1>0, <2>1 DEF Dated
    <3>3. \A old \in raw' \union snapshot' : Dated(old)'
      BY <1>0, <2>1, <3>1, <3>2 DEF RowsDated, TypeOK
    <3>4. \A o \in Run : /\ \A old \in run'[o].mine : Dated(old)' /\ old.key # NoId /\ old.at > 0
                         /\ \A old \in run'[o].picked : Dated(old)'
      BY <1>0, <2>1, <2>2, <3>1, <3>2 DEF RowsDated
    <3>5. \A op \in events' : op.at <= clock'
      BY <1>0, <2>1 DEF RowsDated, TypeOK
    <3>6. \A old \in raw' : old.key = NoId => old.at = 0
      BY <1>0, <2>1 DEF RowsDated
    <3>7. purge'.since <= clock'
      BY <1>0, <2>1 DEF RowsDated
    <3> QED
      BY <3>3, <3>4, <3>5, <3>6, <3>7 DEF RowsDated
  <2> QED
    BY <2>3, <2>4, <2>5, <2>6 DEF Base
<1>6. ASSUME NEW r \in Run, ReadRaw(r)
      PROVE  Base'
  <2>1. /\ UNCHANGED <<clock, raw, snapshot, events, purge, asked, spoiled, gold, settled>>
        /\ OnlyChanges(r) /\ run[r].pc = "read"
        /\ \/ run'[r].pc = "done" /\ run'[r].outcome = "green" /\ run'[r].picked = {}
           \/ /\ run'[r].pc = "write" /\ run'[r].outcome = "none"
              /\ run'[r].picked = LatestPerAccount(raw)
    BY <1>6, ReadRawIs DEF Tables
  <2>2. /\ run' \in [Run -> RunRecord] /\ run'[r].mine = run[r].mine
        /\ \A o \in Run : o # r => run'[o] = run[o]
    BY <2>1 DEF OnlyChanges
  <2>3. /\ LatestPerAccount(raw) \subseteq raw
        /\ \A x, y \in LatestPerAccount(raw) :
               x.account = y.account => x.at <= y.at /\ y.at <= x.at
    BY <1>0, GroupIsAccount DEF RowsDated, Dated
  <2>4. TypeOK'
    BY <1>0, <2>1, <2>2 DEF TypeOK
  <2>5. OneOfEach'
    <3>1. \A x, y \in run'[r].picked : x.account = y.account => x.at = y.at
      BY <1>0, <2>1, <2>3 DEF TypeOK
    <3> QED
      BY <1>0, <2>1, <2>2, <3>1 DEF OneOfEach
  <2>6. Places'
    BY <1>0, <2>1, <2>2 DEF Places
  <2>7. RowsDated'
    BY <1>0, <2>1, <2>2, <2>3 DEF RowsDated, Dated
  <2> QED
    BY <2>4, <2>5, <2>6, <2>7 DEF Base
<1>7. ASSUME NEW r \in Run, WriteSnapshot(r)
      PROVE  Base'
  <2>1. /\ UNCHANGED <<clock, raw, events, purge, asked, spoiled, gold, settled>>
        /\ snapshot' = run[r].picked /\ OnlyChanges(r) /\ run[r].pc = "write"
        /\ run'[r].pc = "merge" /\ run'[r].outcome = "none" /\ run'[r].picked = run[r].picked
    BY <1>7, WriteIs
  <2>2. /\ run' \in [Run -> RunRecord] /\ run'[r].mine = run[r].mine
        /\ \A o \in Run : o # r => run'[o] = run[o]
    BY <2>1 DEF OnlyChanges
  <2>3. TypeOK'
    BY <1>0, <2>1, <2>2 DEF TypeOK
  <2>4. OneOfEach' /\ Places'
    BY <1>0, <2>1, <2>2 DEF OneOfEach, Places
  <2>5. RowsDated'
    BY <1>0, <2>1, <2>2 DEF RowsDated, Dated
  <2> QED
    BY <2>3, <2>4, <2>5 DEF Base
<1>8. ASSUME NEW r \in Run, MergeEvents(r)
      PROVE  Base'
  <2> DEFINE batch == OperationsOf(run[r].picked)
  <2>1. /\ UNCHANGED <<clock, raw, snapshot, purge, asked, spoiled, gold, settled>>
        /\ OnlyChanges(r) /\ run[r].pc = "merge"
        /\ run'[r].pc = "done" /\ run'[r].outcome = "green" /\ run'[r].picked = {}
        /\ events' \subseteq events \union batch
        /\ \A x, y \in events' : SameOperation(x, y) => x = y
    BY <1>8, MergeIs
  <2>2. /\ run' \in [Run -> RunRecord] /\ run'[r].mine = run[r].mine
        /\ \A o \in Run : o # r => run'[o] = run[o]
    BY <2>1 DEF OnlyChanges
  <2>3. /\ batch \subseteq Operation
        /\ \A op \in batch : \E row \in run[r].picked : op.at = row.at
    BY BatchIs
  <2> HIDE DEF batch
  <2>4. TypeOK'
    BY <1>0, <2>1, <2>2, <2>3 DEF TypeOK
  <2>5. OneOfEach' /\ Places'
    BY <1>0, <2>1, <2>2 DEF OneOfEach, Places
  <2>6. RowsDated'
    <3>1. \A op \in events' : op.at <= clock'
      BY <1>0, <2>1, <2>3 DEF RowsDated, Dated
    <3> QED
      BY <1>0, <2>1, <2>2, <3>1 DEF RowsDated, Dated
  <2> QED
    BY <2>4, <2>5, <2>6 DEF Base
<1> QED
  BY <1>1, <1>2, <1>3, <1>4, <1>5, <1>6, <1>7, <1>8, NextIs DEF RunStep

LEMMA BaseAlways == Spec => []Base
<1>1. Init => Base
  BY InitIs
<1>2. Base /\ [Next]_vars => Base'
  BY BaseStep
<1> QED
  BY <1>1, <1>2, PTL DEF Spec

\* The tables, the runs and the purge are what they should be.
THEOREM AccountsTypes == Spec => []TypeOK
<1>1. Base => TypeOK
  BY DEF Base
<1> QED
  BY <1>1, BaseAlways, PTL

------------------------------------------------------------------------------
(* What a purge removes, and what it leaves.                               *)

LEMMA PurgeApartStep ==
  ASSUME ~PurgeOverlaps, Base, PurgeApart, [Next]_vars
  PROVE  PurgeApart'
<1>0. TypeOK /\ purge \in PurgeRecord
  BY DEF Base, TypeOK
<1>1. CASE UNCHANGED vars
  BY <1>1 DEF vars, shown, PurgeApart, Purging, Active
<1>2. CASE Consolidate
  <2>1. UNCHANGED <<clock, run, purge, asked>> /\ (Purging => ~settled')
    BY <1>0, <1>2, ConsolidateIs
  <2> QED
    BY <2>1 DEF PurgeApart, Purging, Active
<1>3. CASE PurgeStep
  <2>1. ASSUME NEW a \in Account, PurgeAccount(a)
        PROVE  PurgeApart'
    <3>1. /\ UNCHANGED <<clock, run>> /\ settled' = FALSE
          /\ purge' = [pc |-> "raw", account |-> a, failed |-> FALSE, since |-> clock,
                       count |-> purge.count + 1]
          /\ asked' = asked \union {[account |-> a, upto |-> clock]}
          /\ \A r \in Run : ~Active(r)
      BY <2>1 DEF PurgeAccount
    <3> QED
      BY <3>1 DEF PurgeApart, Active
  <2>2. ASSUME PurgeFails \/ PurgeRaises \/ PurgeRaw \/ PurgeSnapshot \/ PurgeEvents
        PROVE  PurgeApart'
    <3>1. /\ UNCHANGED <<clock, run, asked, settled>> /\ Purging
          /\ purge'.account = purge.account /\ purge'.since = purge.since
      BY <1>0, <2>2 DEF PurgeFails, PurgeRaises, PurgeRaw, PurgeSnapshot, PurgeEvents,
                        PurgeRecord, Purging, shown
    <3> QED
      BY <3>1 DEF PurgeApart, Active
  <2> QED
    BY <1>3, <2>1, <2>2 DEF PurgeStep
<1>4. ASSUME NEW r \in Run, QuietStep(r)
      PROVE  PurgeApart'
  <2>1. /\ UNCHANGED <<clock, raw, snapshot, events, purge, asked, spoiled, gold, settled>>
        /\ Onward(r)
    BY <1>4, QuietIs DEF Tables
  <2>2. UNCHANGED Purging
    BY <2>1 DEF Purging
  <2>3. ASSUME Purging
        PROVE  \A o \in Run : ~Active(o)'
    BY <2>1, <2>3 DEF Onward, PurgeApart, Active
  <2> QED
    BY <2>1, <2>2, <2>3 DEF PurgeApart
<1>5. ASSUME NEW r \in Run, Active(r), UNCHANGED purge
      PROVE  PurgeApart'
  BY <1>5 DEF PurgeApart, Purging
<1>6. ASSUME NEW r \in Run,
             IngestFile(r) \/ ReadRaw(r) \/ WriteSnapshot(r) \/ MergeEvents(r)
      PROVE  PurgeApart'
  <2>1. Active(r)
    BY <1>6 DEF IngestFile, ReadRaw, WriteSnapshot, MergeEvents, Active
  <2>2. UNCHANGED purge
    BY <1>6 DEF IngestFile, ReadRaw, WriteSnapshot, MergeEvents
  <2> QED
    BY <1>5, <2>1, <2>2
<1> QED
  BY <1>1, <1>2, <1>3, <1>4, <1>6, NextIs DEF RunStep

\* The rows no purge can address are neither added nor taken away.
LEMMA UnnamedRowsStay ==
  ASSUME Base, PurgeApart, [Next]_vars
  PROVE  \A row : row.key = NoId => (row \in raw <=> row \in raw')
<1>0. TypeOK /\ purge \in PurgeRecord
  BY DEF Base, TypeOK
<1>1. CASE PurgeStep
  <2>1. CASE PurgeRaw
    <3>1. [account |-> purge.account, upto |-> purge.since] \in asked
      BY <2>1 DEF PurgeApart, PurgeRaw, Purging
    <3>2. purge.account # NoId
      BY <1>0, <3>1, NoIdIsNoAccount DEF TypeOK
    <3> QED
      BY <2>1, <3>2 DEF PurgeRaw
  <2>2. ASSUME ~PurgeRaw
        PROVE  UNCHANGED raw
    BY <1>1, <2>2 DEF PurgeStep, PurgeAccount, PurgeFails, PurgeRaises, PurgeSnapshot,
                      PurgeEvents
  <2> QED
    BY <2>1, <2>2
<1>2. ASSUME NEW r \in Run, IngestFile(r)
      PROVE  \A row : row.key = NoId => (row \in raw <=> row \in raw')
  BY <1>2, IngestIs
<1>3. ASSUME NEW r \in Run,
             QuietStep(r) \/ ReadRaw(r) \/ WriteSnapshot(r) \/ MergeEvents(r)
      PROVE  UNCHANGED raw
  BY <1>3, QuietIs, ReadRawIs, WriteIs, MergeIs DEF Tables
<1>4. UNCHANGED vars \/ Consolidate => UNCHANGED raw
  BY DEF vars, Consolidate
<1> QED
  BY <1>1, <1>2, <1>3, <1>4, NextIs DEF RunStep

LEMMA PurgeCleansStep ==
  ASSUME ~PurgeOverlaps, Base, PurgeApart, PurgeCleans, [Next]_vars
  PROVE  PurgeCleans'
<1>0. /\ TypeOK /\ RowsDated /\ purge \in PurgeRecord /\ clock \in Nat /\ purge.since \in Nat
      /\ purge.since <= clock
      /\ \A row \in raw : row.key \in {row.account, NoId}
      /\ \A r \in Run : run[r].pc \notin {"write", "merge"} => run[r].picked = {}
  BY DEF Base, TypeOK, PurgeRecord, RowsDated, Dated, Places
<1> DEFINE Newer(rows) == \A row \in rows : row.account = purge.account => row.at > purge.since
<1>1. Reachable' /\ purge'.account = purge.account => Reachable
  BY UnnamedRowsStay DEF Reachable
<1>2. ASSUME UNCHANGED purge,
             purge.pc \in {"snapshot", "events", "done"} => (Newer(raw) => Newer(raw')),
             purge.pc \in {"events", "done"} => (Newer(raw) /\ Newer(snapshot) => Newer(snapshot')),
             purge.pc = "done" /\ Newer(raw) /\ Newer(snapshot) /\ Newer(events)
               /\ (\A r \in Run : Newer(run[r].picked)) /\ (settled => Newer(gold)) =>
                /\ Newer(events')
                /\ \A r \in Run : Newer(run'[r].picked)
                /\ settled' => Newer(gold')
      PROVE  PurgeCleans'
  BY <1>1, <1>2 DEF PurgeCleans, Clean
<1>3. CASE UNCHANGED vars
  BY <1>2, <1>3 DEF vars, shown
<1>4. CASE Consolidate
  <2>1. /\ UNCHANGED <<clock, raw, snapshot, events, run, purge>>
        /\ \A shows \in gold' : \E row \in snapshot \union events :
               shows.account = row.account /\ shows.at = row.at
    BY <1>0, <1>4, ConsolidateIs
  <2>2. Newer(snapshot) /\ Newer(events) => Newer(gold')
    BY <2>1
  <2> QED
    BY <1>2, <2>1, <2>2
<1>5. CASE PurgeStep
  <2>0. UNCHANGED <<clock, run, spoiled, gold>>
    BY <1>0, <1>5, PurgeIs
  <2>1. ASSUME NEW a \in Account, PurgeAccount(a)
        PROVE  PurgeCleans'
    <3>1. purge'.pc = "raw"
      BY <2>1 DEF PurgeAccount
    <3> QED
      BY <3>1 DEF PurgeCleans
  <2>2. CASE PurgeFails \/ PurgeRaises
    <3>1. purge'.failed
      BY <1>0, <2>2 DEF PurgeFails, PurgeRaises, PurgeRecord
    <3> QED
      BY <3>1 DEF PurgeCleans
  <2>3. CASE PurgeRaw
    <3>1. /\ raw' = {row \in raw : row.key # purge.account} /\ purge'.pc = "snapshot"
          /\ purge'.account = purge.account /\ purge'.failed = purge.failed
      BY <1>0, <2>3 DEF PurgeRaw, PurgeRecord
    <3>2. Reachable => \A row \in raw' : row.account # purge.account
      BY <1>0, <3>1 DEF Reachable
    <3> QED
      BY <1>1, <3>1, <3>2 DEF PurgeCleans, Clean
  <2>4. CASE PurgeSnapshot
    <3>1. /\ snapshot' = {row \in snapshot : row.account # purge.account} /\ UNCHANGED raw
          /\ purge.pc = "snapshot" /\ purge'.pc = "events" /\ purge'.since = purge.since
          /\ purge'.account = purge.account /\ purge'.failed = purge.failed
      BY <1>0, <2>4 DEF PurgeSnapshot, PurgeRecord
    <3> QED
      BY <1>1, <3>1 DEF PurgeCleans, Clean
  <2>5. CASE PurgeEvents
    <3>1. /\ events' = {op \in events : op.account # purge.account}
          /\ UNCHANGED <<raw, snapshot, settled>>
          /\ purge.pc = "events" /\ purge'.pc = "done" /\ purge'.since = purge.since
          /\ purge'.account = purge.account /\ (~purge'.failed => ~purge.failed)
      <4>1. PICK raises \in BOOLEAN :
                purge' = [purge EXCEPT !.pc = "done", !.failed = @ \/ raises]
        BY <2>5 DEF PurgeEvents
      <4>2. /\ purge'.pc = "done" /\ purge'.since = purge.since
            /\ purge'.account = purge.account /\ (~purge'.failed => ~purge.failed)
        BY <1>0, <4>1 DEF PurgeRecord
      <4> QED
        BY <2>5, <4>2 DEF PurgeEvents, shown
    <3>2. ~settled /\ \A r \in Run : run'[r].picked = {}
      BY <1>0, <2>0, <3>1 DEF PurgeApart, Purging, Active
    <3> QED
      BY <1>1, <3>1, <3>2 DEF PurgeCleans, Clean
  <2> QED
    BY <1>5, <2>1, <2>2, <2>3, <2>4, <2>5 DEF PurgeStep
<1>6. ASSUME NEW r \in Run, QuietStep(r)
      PROVE  PurgeCleans'
  <2>1. /\ UNCHANGED <<clock, raw, snapshot, events, purge, asked, spoiled, gold, settled>>
        /\ run'[r].picked = {} /\ \A o \in Run : o # r => run'[o] = run[o]
    BY <1>6, QuietIs DEF Tables, Onward
  <2> QED
    BY <1>2, <2>1
<1>7. ASSUME NEW r \in Run, IngestFile(r)
      PROVE  PurgeCleans'
  <2>1. PICK row \in Row :
          /\ row.at = clock + 1
          /\ raw' = {old \in raw : old.key # row.key} \union {row}
          /\ UNCHANGED <<snapshot, events, purge, asked, gold, settled>>
          /\ run'[r].picked = {} /\ \A o \in Run : o # r => run'[o] = run[o]
    BY <1>7, IngestIs DEF Onward
  <2>2. row.at > purge.since
    BY <1>0, <2>1
  <2> QED
    BY <1>2, <2>1, <2>2
<1>8. ASSUME NEW r \in Run, ReadRaw(r)
      PROVE  PurgeCleans'
  <2>1. /\ UNCHANGED <<clock, raw, snapshot, events, purge, asked, spoiled, gold, settled>>
        /\ run'[r].picked \subseteq raw /\ \A o \in Run : o # r => run'[o] = run[o]
    BY <1>8, ReadRawIs DEF Tables, OnlyChanges, LatestPerAccount
  <2> QED
    BY <1>2, <2>1
<1>9. ASSUME NEW r \in Run, WriteSnapshot(r)
      PROVE  PurgeCleans'
  <2>1. /\ UNCHANGED <<clock, raw, events, purge, asked, spoiled, gold, settled>>
        /\ snapshot' = run[r].picked /\ Active(r) /\ run'[r].picked = run[r].picked
        /\ \A o \in Run : o # r => run'[o] = run[o]
    BY <1>9, WriteIs DEF OnlyChanges
  <2>2. purge.pc \notin {"snapshot", "events"}
    BY <2>1 DEF PurgeApart, Purging
  <2> QED
    BY <1>1, <2>1, <2>2 DEF PurgeCleans, Clean
<1>10. ASSUME NEW r \in Run, MergeEvents(r)
       PROVE  PurgeCleans'
  <2>1. /\ UNCHANGED <<clock, raw, snapshot, purge, asked, spoiled, gold, settled>>
        /\ events' \subseteq events \union OperationsOf(run[r].picked)
        /\ run'[r].picked = {} /\ \A o \in Run : o # r => run'[o] = run[o]
    BY <1>10, MergeIs DEF OnlyChanges
  <2>2. \A op \in OperationsOf(run[r].picked) :
            \E row \in run[r].picked : op.account = row.account /\ op.at = row.at
    BY BatchIs
  <2>3. Newer(events) /\ Newer(run[r].picked) => Newer(events')
    BY <2>1, <2>2
  <2> QED
    BY <1>2, <2>1, <2>3
<1> QED
  BY <1>3, <1>4, <1>5, <1>6, <1>7, <1>8, <1>9, <1>10, NextIs DEF RunStep

LEMMA PurgedAlways ==
  ASSUME ~PurgeOverlaps
  PROVE  Spec => []Purged
<1>1. Init => Purged
  <2>1. Init => Base /\ PurgeApart
    BY InitIs
  <2>2. Init => PurgeCleans
    BY DEF Init, PurgeCleans, NoPurge
  <2> QED
    BY <2>1, <2>2 DEF Purged
<1>2. Purged /\ [Next]_vars => Purged'
  BY BaseStep, PurgeApartStep, PurgeCleansStep DEF Purged
<1> QED
  BY <1>1, <1>2, PTL DEF Spec

\* An exit-0 purge beside no run leaves nothing of the account, and nothing that was
\* fetched before it comes back from any run that starts later.
THEOREM PurgeIsLasting ==
  ASSUME ~PurgeOverlaps
  PROVE  Spec => []PurgedStays
<1>1. Purged => PurgedStays
  BY DEF Purged, PurgeCleans, PurgedStays, PurgeDone, Reachable, Clean
<1> QED
  BY <1>1, PurgedAlways, PTL

\* The first consolidation that ends green after such a purge takes the account out
\* of the gold tables, whatever else has holdings.
THEOREM PurgeReachesGold ==
  ASSUME ~PurgeOverlaps
  PROVE  Spec => []PurgedLeavesGold
<1>1. Purged => PurgedLeavesGold
  BY DEF Purged, PurgeCleans, PurgedLeavesGold, PurgeDone, Reachable, Clean
<1> QED
  BY <1>1, PurgedAlways, PTL

KeepsOperations ==
    \A op \in events : Wanted(op.account, op.at) =>
        \E new \in events' : /\ new.account = op.account /\ new.id = op.id
                             /\ new.at >= op.at

LEMMA OperationsStep ==
  ASSUME Base, PurgeApart, [Next]_vars
  PROVE  KeepsOperations
<1>0. /\ TypeOK /\ RowsDated
      /\ \A op \in events : op.at \in Nat /\ op.at <= clock
      /\ clock \in Nat
  BY DEF Base, TypeOK, Operation, RowsDated
<1>1. UNCHANGED events => KeepsOperations
  BY <1>0 DEF KeepsOperations
<1>2. CASE PurgeEvents
  <2>1. /\ events' = {op \in events : op.account # purge.account}
        /\ clock = purge.since
        /\ [account |-> purge.account, upto |-> purge.since] \in asked
    BY <1>2 DEF PurgeEvents, PurgeApart, Purging
  <2>2. \A op \in events : op.account = purge.account => ~Wanted(op.account, op.at)
    BY <1>0, <2>1 DEF Wanted
  <2> QED
    BY <1>0, <2>1, <2>2 DEF KeepsOperations
<1>3. ASSUME NEW r \in Run, MergeEvents(r)
      PROVE  KeepsOperations
  BY <1>0, <1>3, MergeIs DEF SameOperation, KeepsOperations
<1>4. ASSUME NEW r \in Run,
             QuietStep(r) \/ IngestFile(r) \/ ReadRaw(r) \/ WriteSnapshot(r)
      PROVE  UNCHANGED events
  BY <1>4, QuietIs, ReadRawIs, WriteIs DEF Tables, IngestFile
<1>5. ASSUME PurgeStep, ~PurgeEvents
      PROVE  UNCHANGED events
  BY <1>5 DEF PurgeStep, PurgeAccount, PurgeFails, PurgeRaises, PurgeSnapshot, PurgeRaw
<1>6. UNCHANGED vars \/ Consolidate => UNCHANGED events
  BY DEF vars, Consolidate
<1> QED
  BY <1>1, <1>2, <1>3, <1>4, <1>5, <1>6, NextIs DEF RunStep

\* No merge loses an operation and no purge takes another account's, or one that was
\* fetched after it was asked for.
THEOREM OperationsStay ==
  ASSUME ~PurgeOverlaps
  PROVE  Spec => OperationsKept
<1>1. Purged /\ [Next]_vars => [KeepsOperations]_events
  BY OperationsStep DEF Purged
<1>2. Spec => [][KeepsOperations]_events
  BY <1>1, PurgedAlways, PTL DEF Spec
<1> QED
  BY <1>2 DEF OperationsKept, KeepsOperations

------------------------------------------------------------------------------
(* Runs one at a time.                                                     *)

LEMMA Histories ==
  ASSUME Base, [Next]_vars
  PROVE  /\ asked \subseteq asked' /\ spoiled \subseteq spoiled'
         /\ \A account, at : Wanted(account, at)' => Wanted(account, at)
         /\ \A account, at : Sound(account, at)' => Sound(account, at)
<1>0. TypeOK
  BY DEF Base
<1>1. asked \subseteq asked' /\ spoiled \subseteq spoiled'
  <2>1. ASSUME NEW r \in Run, RunStep(r)
        PROVE  asked' = asked /\ spoiled \subseteq spoiled'
    <3>1. CASE IngestFile(r)
      BY <3>1, IngestIs
    <3> QED
      BY <2>1, <3>1, QuietIs, ReadRawIs, WriteIs, MergeIs DEF RunStep, Tables
  <2>2. UNCHANGED vars => UNCHANGED <<asked, spoiled>>
    BY DEF vars
  <2> QED
    BY <1>0, <2>1, <2>2, NextIs, PurgeIs, ConsolidateIs
<1> QED
  BY <1>1 DEF Wanted, Sound

\* What is true of a fetch is true of a later one of the account.
LEMMA LaterToo ==
  ASSUME TypeOK, NEW account, NEW at \in Nat, NEW later \in Nat, later >= at
  PROVE  /\ Wanted(account, at) => Wanted(account, later)
         /\ Sound(account, at) => Sound(account, later)
<1>1. /\ \A p \in asked : p.upto \in Nat
      /\ \A m \in spoiled : m.at \in Nat
  BY DEF TypeOK
<1> QED
  BY <1>1 DEF Wanted, Sound

\* The raw table has a newest row of every account that parses, and the row a run
\* wrote is it as long as it is there.
LEMMA LatestOfRaw ==
  ASSUME Base, NEW x \in raw, x.good
  PROVE  /\ x.key # NoId /\ x.at > 0 => x \in LatestPerAccount(raw)
         /\ \E y \in LatestPerAccount(raw) : y.account = x.account /\ y.at >= x.at
<1>0. /\ \A row \in raw : /\ row.at \in Nat /\ GroupOf(row) = row.account
                          /\ row.key \in {row.account, NoId}
                          /\ row.key = NoId => row.at = 0
                          /\ row.account # NoId
      /\ \A row, other \in raw : row.key = other.key => row = other
  <2>1. \A row \in raw : row \in Row /\ row.key \in {row.account, NoId}
    BY DEF Base, TypeOK, RowsDated, Dated
  <2>2. \A row \in raw : GroupOf(row) = row.account
    BY <2>1, GroupIsAccount
  <2> QED
    BY <2>1, <2>2, NoIdIsNoAccount DEF Base, RowsDated, OneOfEach, Row
<1>1. ASSUME NEW y \in raw, y.good, y.account = x.account, y.key # NoId
      PROVE  y \in LatestPerAccount(raw) /\ y.at >= 0
  <2>1. \A o \in raw : o.account = y.account => o = y \/ o.at = 0
    BY <1>0, <1>1
  <2> QED
    BY <1>0, <1>1, <2>1 DEF LatestPerAccount
<1>2. CASE \E y \in raw : y.good /\ y.account = x.account /\ y.key # NoId
  <2>1. PICK y \in raw : y.good /\ y.account = x.account /\ y.key # NoId
    BY <1>2
  <2>2. x = y \/ x.at = 0
    BY <1>0, <2>1
  <2> QED
    BY <1>0, <1>1, <2>1, <2>2
<1>3. CASE ~\E y \in raw : y.good /\ y.account = x.account /\ y.key # NoId
  <2>1. \A o \in raw : o.good /\ o.account = x.account => o.at = 0
    BY <1>0, <1>3
  <2>2. x \in LatestPerAccount(raw) /\ x.key = NoId
    BY <1>0, <1>3, <2>1 DEF LatestPerAccount
  <2> QED
    BY <1>0, <2>2
<1> QED
  BY <1>2, <1>3

\* While a run is active only its own reports change the raw table, and the runs that
\* are not at work stay where they are.
LEMMA ActiveOnes ==
  ASSUME ~RunsOverlap, ~PurgeOverlaps, Base, PurgeApart, InStep, [Next]_vars
  PROVE  /\ \A r, o \in Run : Active(r)' /\ Active(o)' => r = o
         /\ \A r \in Run : Active(r)' =>
              \/ run'[r].pc \notin {"write", "merge"} /\ run[r].mine = {} /\ run'[r].mine = {}
              \/ Active(r) /\ RunStep(r)
              \/ Active(r) /\ run'[r] = run[r] /\ UNCHANGED <<raw, snapshot, spoiled>>
<1>0. TypeOK
  BY DEF Base
<1>1. \A r, o \in Run : Active(r) /\ Active(o) => r = o
  BY DEF InStep
<1>2. ASSUME NEW r \in Run, RunStep(r)
      PROVE  /\ \A o \in Run : o # r => run'[o] = run[o]
             /\ Active(r)' => \/ Active(r)
                              \/ /\ run'[r].pc \notin {"write", "merge"}
                                 /\ run[r].mine = {} /\ run'[r].mine = {}
                                 /\ \A o \in Run : ~Active(o)
  <2>1. CASE QuietStep(r)
    <3>1. /\ \A o \in Run : o # r => run'[o] = run[o]
          /\ run'[r].pc \in {"triggered", "fetch", "read", "done"}
          /\ run'[r].pc # "done" => run'[r].mine = run[r].mine
          /\ run'[r].pc \in {"fetch", "read"} =>
               Active(r) \/ (run[r].mine = {} /\ \A o \in Run : ~Active(o))
      BY <2>1, QuietIs DEF Onward
    <3> QED
      BY <3>1 DEF Active
  <2>2. CASE ~QuietStep(r)
    <3>1. IngestFile(r) => Active(r) /\ \A o \in Run : o # r => run'[o] = run[o]
      BY IngestIs DEF Onward
    <3>2. ReadRaw(r) \/ WriteSnapshot(r) \/ MergeEvents(r) =>
             Active(r) /\ \A o \in Run : o # r => run'[o] = run[o]
      BY ReadRawIs, WriteIs, MergeIs DEF OnlyChanges
    <3> QED
      BY <1>2, <2>2, <3>1, <3>2 DEF RunStep
  <2> QED
    BY <2>1, <2>2
<1>3. CASE \E r \in Run : RunStep(r)
  <2>1. PICK r \in Run : RunStep(r)
    BY <1>3
  <2>2. \A o \in Run : o # r /\ Active(o)' => Active(o) /\ run'[o] = run[o]
    BY <1>2, <2>1 DEF Active
  <2>3. ~Active(r) => UNCHANGED <<raw, snapshot, spoiled>>
    BY <2>1, QuietIs, IngestIs, ReadRawIs, WriteIs, MergeIs DEF RunStep, Tables
  <2>4. \A o \in Run : o # r /\ Active(o)' => ~Active(r)
    BY <1>1, <2>2
  <2>5. Active(r)' => \/ Active(r)
                     \/ /\ run'[r].pc \notin {"write", "merge"}
                        /\ run[r].mine = {} /\ run'[r].mine = {}
                        /\ \A o \in Run : ~Active(o)
    BY <1>2, <2>1
  <2>6. \A o, q \in Run : Active(o)' /\ Active(q)' => o = q
    BY <1>1, <2>2, <2>5
  <2>7. ASSUME NEW o \in Run, Active(o)'
        PROVE  \/ run'[o].pc \notin {"write", "merge"} /\ run[o].mine = {} /\ run'[o].mine = {}
               \/ Active(o) /\ RunStep(o)
               \/ Active(o) /\ run'[o] = run[o] /\ UNCHANGED <<raw, snapshot, spoiled>>
    BY <2>1, <2>2, <2>3, <2>4, <2>5, <2>7
  <2> QED
    BY <2>6, <2>7
<1>4. CASE PurgeStep
  <2>1. run' = run
    BY <1>0, <1>4, PurgeIs
  <2>2. \A r \in Run : ~Active(r)
    BY <1>4 DEF PurgeStep, PurgeAccount, PurgeFails, PurgeRaises, PurgeRaw, PurgeSnapshot,
                PurgeEvents, PurgeApart, Purging
  <2> QED
    BY <2>1, <2>2 DEF Active
<1>5. ASSUME UNCHANGED vars \/ Consolidate
      PROVE  UNCHANGED <<run, raw, snapshot, spoiled>>
  BY <1>5 DEF vars, Consolidate
<1>6. CASE UNCHANGED vars \/ Consolidate
  <2>1. UNCHANGED <<run, raw, snapshot, spoiled>>
    BY <1>5, <1>6
  <2> QED
    BY <1>1, <2>1 DEF Active
<1> QED
  BY <1>3, <1>4, <1>6, NextIs

LEMMA InStepStep ==
  ASSUME ~RunsOverlap, ~PurgeOverlaps, Base, PurgeApart, InStep, [Next]_vars
  PROVE  InStep'
<1>0. /\ TypeOK /\ clock \in Nat
      /\ \A r \in Run : \A row \in run[r].mine :
             /\ row \in Row /\ row.key # NoId /\ row.key = row.account /\ row.at <= clock
             /\ row.at \in Nat
  BY DEF Base, TypeOK, RunRecord, RowsDated, Dated, Row
<1> DEFINE Own(r) == \A row \in LatestPerAccount(run[r].mine) :
                         Sound(row.account, row.at) => row \in raw
           Kept(r) == /\ run[r].pc \in {"write", "merge"} => run[r].picked = LatestPerAccount(raw)
                      /\ run[r].pc = "merge" => snapshot = run[r].picked
                      /\ Own(r)
<1>1. ASSUME NEW r \in Run, Active(r), RunStep(r), Active(r)'
      PROVE  Kept(r)'
  <2>0. Kept(r)
    BY <1>1 DEF InStep
  <2>1. CASE QuietStep(r)
    <3>1. /\ UNCHANGED <<raw, snapshot, spoiled>>
          /\ run'[r].pc \in {"fetch", "read"} /\ run'[r].mine = run[r].mine
      BY <1>1, <2>1, QuietIs DEF Onward, Tables, Active
    <3> QED
      BY <2>0, <3>1 DEF Sound
  <2>2. CASE IngestFile(r)
    <3>1. PICK row \in Row :
            /\ row.at = clock + 1 /\ row.key = row.account /\ row.key # NoId
            /\ raw' = {old \in raw : old.key # row.key} \union {row}
            /\ spoiled' = IF row.good THEN spoiled
                          ELSE spoiled \union {[account |-> row.account, at |-> clock + 1]}
            /\ run'[r].pc \in {"triggered", "fetch", "read", "done"} /\ run'[r].pc # "triggered"
            /\ run'[r].pc = "done" \/ run'[r].mine = run[r].mine \union {row}
      BY <2>2, IngestIs DEF Onward
    <3>2. /\ run'[r].pc \in {"fetch", "read"} /\ run'[r].mine = run[r].mine \union {row}
      BY <1>1, <3>1 DEF Active
    <3> SUFFICES ASSUME NEW x \in LatestPerAccount(run'[r].mine), Sound(x.account, x.at)'
                 PROVE  x \in raw'
      BY <3>2
    <3>3. x \in run[r].mine \union {row} /\ x.good
      BY <3>2 DEF LatestPerAccount
    <3>4. CASE x = row
      BY <3>1, <3>4
    <3>5. CASE x # row
      <4>1. x \in run[r].mine /\ x.at < row.at /\ GroupOf(x) = x.account
        BY <1>0, <3>1, <3>3, <3>5 DEF GroupOf
      <4>2. x.account # row.account
        <5>1. CASE row.good
          <6>1. GroupOf(row) = row.account
            BY <3>1 DEF GroupOf
          <6>2. x.account = row.account => x.at >= row.at
            BY <3>2, <4>1, <5>1, <6>1 DEF LatestPerAccount
          <6>3. x.at \in Nat /\ row.at \in Nat
            BY <1>0, <3>1, <4>1
          <6> QED
            BY <4>1, <6>2, <6>3
        <5>2. CASE ~row.good
          <6>1. [account |-> row.account, at |-> clock + 1] \in spoiled'
            BY <3>1, <5>2
          <6>2. x.account = row.account => clock + 1 < x.at
            BY <6>1 DEF Sound
          <6> QED
            BY <1>0, <3>1, <4>1, <6>2
        <5> QED
          BY <5>1, <5>2
      <4>3. x \in LatestPerAccount(run[r].mine)
        BY <3>2, <3>3, <4>1 DEF LatestPerAccount
      <4>4. Sound(x.account, x.at)
        BY Histories
      <4> QED
        BY <1>0, <2>0, <3>1, <4>1, <4>2, <4>3, <4>4
    <3> QED
      BY <3>4, <3>5
  <2>3. CASE ReadRaw(r)
    <3>1. /\ UNCHANGED <<raw, snapshot, spoiled>> /\ run'[r].mine = run[r].mine
          /\ run'[r].pc = "write" /\ run'[r].picked = LatestPerAccount(raw)
      BY <1>1, <2>3, ReadRawIs DEF Tables, OnlyChanges, Active
    <3> QED
      BY <2>0, <3>1 DEF Sound
  <2>4. CASE WriteSnapshot(r)
    <3>1. /\ UNCHANGED <<raw, spoiled>> /\ run'[r].mine = run[r].mine
          /\ run[r].pc = "write" /\ run'[r].pc = "merge"
          /\ snapshot' = run[r].picked /\ run'[r].picked = run[r].picked
      BY <2>4, WriteIs DEF OnlyChanges
    <3> QED
      BY <2>0, <3>1 DEF Sound
  <2>5. CASE MergeEvents(r)
    BY <1>1, <2>5, MergeIs DEF Active
  <2> QED
    BY <1>1, <2>1, <2>2, <2>3, <2>4, <2>5 DEF RunStep
<1>2. ASSUME NEW r \in Run, Active(r)'
      PROVE  Kept(r)'
  <2>1. CASE run'[r].pc \notin {"write", "merge"} /\ run'[r].mine = {}
    BY <2>1 DEF LatestPerAccount
  <2>2. CASE Active(r) /\ run'[r] = run[r] /\ UNCHANGED <<raw, snapshot, spoiled>>
    <3>1. Kept(r)
      BY <2>2 DEF InStep
    <3> QED
      BY <2>2, <3>1 DEF Sound
  <2> QED
    BY <1>1, <1>2, <2>1, <2>2, ActiveOnes
<1>3. ASSUME NEW r \in Run, ~Active(r)'
      PROVE  run'[r].pc \notin {"write", "merge"}
  BY <1>3 DEF Active
<1> HIDE DEF Kept, Own
<1>4. \A r \in Run : Active(r)' => Kept(r)'
  BY <1>2
<1> QED
  BY <1>3, <1>4, ActiveOnes DEF InStep, Kept, Own

LEMMA SnapshotFromRawStep ==
  ASSUME ~PurgeOverlaps, Base, PurgeApart, InStep, SnapshotFromRaw, [Next]_vars
  PROVE  SnapshotFromRaw'
<1>0. /\ TypeOK /\ clock \in Nat /\ raw \subseteq Row
      /\ \A s \in raw \union snapshot :
             s \in Row /\ s.at \in Nat /\ s.at <= clock /\ s.key \in {s.account, NoId}
  BY DEF Base, TypeOK, RowsDated, Dated, Row
<1> DEFINE Shows(s, rows) == \E row \in rows : row.good /\ row.account = s.account /\ row.at >= s.at
<1>1. \A s \in snapshot : Wanted(s.account, s.at)' /\ Sound(s.account, s.at)' => Shows(s, raw)
  BY Histories DEF SnapshotFromRaw
<1>2. ASSUME snapshot' \subseteq snapshot, raw \subseteq raw'
      PROVE  SnapshotFromRaw'
  BY <1>1, <1>2 DEF SnapshotFromRaw
<1>3. CASE UNCHANGED vars \/ Consolidate
  <2>1. UNCHANGED <<raw, snapshot>>
    BY <1>3 DEF vars, Consolidate
  <2> QED
    BY <1>2, <2>1
<1>4. CASE PurgeStep
  <2>0. raw' \subseteq raw /\ snapshot' \subseteq snapshot /\ asked \subseteq asked'
    BY <1>0, <1>4, PurgeIs
  <2>1. CASE PurgeRaw
    <3>1. /\ raw' = {row \in raw : row.key # purge.account} /\ UNCHANGED <<asked, snapshot>>
          /\ [account |-> purge.account, upto |-> purge.since] \in asked /\ clock = purge.since
      BY <2>1 DEF PurgeRaw, PurgeApart, Purging
    <3>2. \A s \in snapshot' : s.account = purge.account => ~Wanted(s.account, s.at)'
      BY <1>0, <3>1 DEF Wanted
    <3>3. purge.account # NoId
      BY <1>0, <3>1, NoIdIsNoAccount DEF TypeOK
    <3>4. ASSUME NEW s \in snapshot', Wanted(s.account, s.at)', Sound(s.account, s.at)'
          PROVE  Shows(s, raw')
      <4>1. s \in snapshot /\ s.account # purge.account
        BY <3>1, <3>2, <3>4
      <4>2. PICK row \in raw : row.good /\ row.account = s.account /\ row.at >= s.at
        BY <1>1, <3>4, <4>1
      <4>3. row.key # purge.account
        BY <1>0, <3>3, <4>1, <4>2
      <4> QED
        BY <3>1, <4>2, <4>3
    <3> QED
      BY <3>4 DEF SnapshotFromRaw
  <2>2. ASSUME ~PurgeRaw
        PROVE  UNCHANGED raw
    BY <1>4, <2>2 DEF PurgeStep, PurgeAccount, PurgeFails, PurgeRaises, PurgeSnapshot,
                      PurgeEvents
  <2> QED
    BY <1>2, <2>0, <2>1, <2>2
<1>5. ASSUME NEW r \in Run, QuietStep(r) \/ ReadRaw(r) \/ MergeEvents(r)
      PROVE  SnapshotFromRaw'
  <2>1. UNCHANGED <<raw, snapshot>>
    BY <1>5, QuietIs, ReadRawIs, MergeIs DEF Tables
  <2> QED
    BY <1>2, <2>1
<1>6. ASSUME NEW r \in Run, IngestFile(r)
      PROVE  SnapshotFromRaw'
  <2>1. PICK row \in Row :
          /\ row.at = clock + 1 /\ row.key = row.account /\ row.key # NoId
          /\ raw' = {old \in raw : old.key # row.key} \union {row}
          /\ spoiled' = IF row.good THEN spoiled
                        ELSE spoiled \union {[account |-> row.account, at |-> clock + 1]}
          /\ snapshot' = snapshot
    BY <1>6, IngestIs
  <2> SUFFICES ASSUME NEW s \in snapshot, Wanted(s.account, s.at)', Sound(s.account, s.at)'
               PROVE  Shows(s, raw')
    BY <2>1 DEF SnapshotFromRaw
  <2>2. CASE s.account = row.account /\ row.good
    <3>1. row.at >= s.at
      BY <1>0, <2>1
    <3> QED
      BY <2>1, <2>2, <3>1
  <2>3. CASE s.account = row.account /\ ~row.good
    <3>1. [account |-> s.account, at |-> clock + 1] \in spoiled'
      BY <2>1, <2>3
    <3>2. clock + 1 < s.at
      BY <3>1 DEF Sound
    <3> QED
      BY <1>0, <3>2
  <2>4. CASE s.account # row.account
    <3>1. PICK x \in raw : x.good /\ x.account = s.account /\ x.at >= s.at
      BY <1>1
    <3>2. x.key # row.key
      BY <1>0, <2>1, <2>4, <3>1
    <3> QED
      BY <2>1, <3>1, <3>2
  <2> QED
    BY <2>2, <2>3, <2>4
<1>7. ASSUME NEW r \in Run, WriteSnapshot(r)
      PROVE  SnapshotFromRaw'
  <2>1. raw' = raw /\ snapshot' = run[r].picked /\ run[r].pc = "write"
    BY <1>7, WriteIs
  <2>2. snapshot' = LatestPerAccount(raw)
    BY <2>1 DEF InStep
  <2>3. \A s \in snapshot' : s \in raw' /\ s.good /\ s.at >= s.at
    BY <1>0, <2>1, <2>2 DEF LatestPerAccount
  <2> QED
    BY <2>3 DEF SnapshotFromRaw
<1> QED
  BY <1>3, <1>4, <1>5, <1>6, <1>7, NextIs DEF RunStep

\* The snapshot gives up nothing but for a newer report, or what a purge was asked to
\* take or a malformed report replaced.
MovesOn ==
    \A s \in snapshot : Wanted(s.account, s.at) /\ Sound(s.account, s.at) =>
        \E t \in snapshot' : t.account = s.account /\ t.at >= s.at

LEMMA SnapshotMovesOn ==
  ASSUME ~PurgeOverlaps, Base, PurgeApart, InStep, SnapshotFromRaw, [Next]_vars
  PROVE  MovesOn
<1>0. /\ TypeOK /\ clock \in Nat
      /\ \A s \in raw \union snapshot : s \in Row /\ s.at \in Nat /\ s.at <= clock
  BY DEF Base, TypeOK, RowsDated, Dated, Row
<1>1. UNCHANGED snapshot => MovesOn
  BY <1>0 DEF MovesOn
<1>2. UNCHANGED vars \/ Consolidate => UNCHANGED snapshot
  BY DEF vars, Consolidate
<1>3. CASE PurgeSnapshot
  <2>1. /\ snapshot' = {row \in snapshot : row.account # purge.account}
        /\ [account |-> purge.account, upto |-> purge.since] \in asked /\ clock = purge.since
    BY <1>3 DEF PurgeSnapshot, PurgeApart, Purging
  <2>2. \A s \in snapshot : s.account = purge.account => ~Wanted(s.account, s.at)
    BY <1>0, <2>1 DEF Wanted
  <2> QED
    BY <1>0, <2>1, <2>2 DEF MovesOn
<1>4. ASSUME PurgeStep, ~PurgeSnapshot
      PROVE  UNCHANGED snapshot
  BY <1>4 DEF PurgeStep, PurgeAccount, PurgeFails, PurgeRaises, PurgeRaw, PurgeEvents
<1>5. ASSUME NEW r \in Run, QuietStep(r) \/ ReadRaw(r) \/ MergeEvents(r) \/ IngestFile(r)
      PROVE  UNCHANGED snapshot
  BY <1>5, QuietIs, ReadRawIs, MergeIs DEF Tables, IngestFile
<1>6. ASSUME NEW r \in Run, WriteSnapshot(r)
      PROVE  MovesOn
  <2>1. snapshot' = LatestPerAccount(raw)
    BY <1>6, WriteIs DEF InStep
  <2> SUFFICES ASSUME NEW s \in snapshot, Wanted(s.account, s.at), Sound(s.account, s.at)
               PROVE  \E t \in LatestPerAccount(raw) : t.account = s.account /\ t.at >= s.at
    BY <2>1 DEF MovesOn
  <2>2. PICK x \in raw : x.good /\ x.account = s.account /\ x.at >= s.at
    BY DEF SnapshotFromRaw
  <2>3. PICK y \in LatestPerAccount(raw) : y.account = x.account /\ y.at >= x.at
    BY <2>2, LatestOfRaw
  <2>4. y \in raw
    BY <2>3 DEF LatestPerAccount
  <2>5. y.at \in Nat /\ x.at \in Nat /\ s.at \in Nat
    BY <1>0, <2>2, <2>4
  <2> QED
    BY <2>2, <2>3, <2>5
<1> QED
  BY <1>1, <1>2, <1>3, <1>4, <1>5, <1>6, NextIs DEF RunStep

\* What a green run fetched stays where the gold tables are built from.
LEMMA GreenStoredStep ==
  ASSUME ~RunsOverlap, ~PurgeOverlaps, Base, PurgeApart, InStep, SnapshotFromRaw, GreenStored,
         [Next]_vars
  PROVE  GreenStored'
<1>0. /\ TypeOK /\ clock \in Nat
      /\ \A s \in raw \union snapshot : s \in Row /\ s.at \in Nat
      /\ \A op \in events : op \in Operation /\ op.at \in Nat
      /\ \A r \in Run : \A row \in run[r].mine :
             /\ row \in Row /\ row.key # NoId /\ row.at > 0 /\ row.at \in Nat
  BY DEF Base, TypeOK, RunRecord, RowsDated, Dated, Row, Operation
<1>1. ASSUME NEW r \in Run, run[r].outcome = "green", run'[r] = run[r],
             NEW row \in LatestPerAccount(run[r].mine),
             Wanted(row.account, row.at)', Sound(row.account, row.at)'
      PROVE  /\ \E s \in snapshot' : s.account = row.account /\ s.at >= row.at
             /\ \A id \in 1 .. row.asof :
                    \E op \in events' : op.account = row.account /\ op.id = id /\ op.at >= row.at
  <2>0. Wanted(row.account, row.at) /\ Sound(row.account, row.at)
    BY <1>1, Histories
  <2>1. row \in run[r].mine
    BY DEF LatestPerAccount
  <2>2. PICK s \in snapshot : s.account = row.account /\ s.at >= row.at
    BY <1>1, <2>0 DEF GreenStored
  <2>3. Wanted(s.account, s.at) /\ Sound(s.account, s.at)
    BY <1>0, <2>0, <2>1, <2>2, LaterToo
  <2>4. PICK t \in snapshot' : t.account = s.account /\ t.at >= s.at
    BY <2>3, SnapshotMovesOn DEF MovesOn
  <2>5. t.at \in Nat
    BY <2>4, BaseStep DEF Base, TypeOK, Row
  <2>6. t.account = row.account /\ t.at >= row.at
    BY <1>0, <2>1, <2>2, <2>4, <2>5
  <2>7. ASSUME NEW id \in 1 .. row.asof
        PROVE  \E op \in events' : op.account = row.account /\ op.id = id /\ op.at >= row.at
    <3>1. PICK op \in events : op.account = row.account /\ op.id = id /\ op.at >= row.at
      BY <1>1, <2>0 DEF GreenStored
    <3>2. Wanted(op.account, op.at)
      BY <1>0, <2>0, <2>1, <3>1, LaterToo
    <3>3. PICK new \in events' : new.account = op.account /\ new.id = op.id /\ new.at >= op.at
      BY <3>2, OperationsStep DEF KeepsOperations
    <3>4. new.at \in Nat
      BY <3>3, BaseStep DEF Base, TypeOK, Operation
    <3> QED
      BY <1>0, <2>1, <3>1, <3>3, <3>4
  <2> QED
    BY <2>6, <2>7
<1>2. ASSUME NEW r \in Run, Active(r), Base,
             NEW row \in LatestPerAccount(run[r].mine), Sound(row.account, row.at)
      PROVE  row \in LatestPerAccount(raw)
  <2>1. row \in raw /\ row \in run[r].mine /\ row.good
    BY <1>2 DEF InStep, LatestPerAccount
  <2> QED
    BY <1>0, <2>1, LatestOfRaw
<1>3. ASSUME NEW r \in Run, ReadRaw(r), run'[r].outcome = "green",
             NEW row \in LatestPerAccount(run'[r].mine), Sound(row.account, row.at)'
      PROVE  FALSE
  <2>1. run'[r].mine = run[r].mine /\ Active(r) /\ raw = {}
    BY <1>3, ReadRawIs DEF OnlyChanges
  <2>2. row \in LatestPerAccount(raw)
    BY <1>2, <1>3, <2>1, Histories
  <2> QED
    BY <2>1, <2>2 DEF LatestPerAccount
<1>4. ASSUME NEW r \in Run, MergeEvents(r),
             NEW row \in LatestPerAccount(run'[r].mine), Sound(row.account, row.at)'
      PROVE  /\ \E s \in snapshot' : s.account = row.account /\ s.at >= row.at
             /\ \A id \in 1 .. row.asof :
                    \E op \in events' : op.account = row.account /\ op.id = id /\ op.at >= row.at
  <2>1. /\ run'[r].mine = run[r].mine /\ Active(r) /\ run[r].pc = "merge" /\ snapshot' = snapshot
        /\ \A op \in OperationsOf(run[r].picked) :
               \E new \in events' : SameOperation(new, op) /\ new.at >= op.at
    BY <1>4, MergeIs DEF OnlyChanges
  <2>2. row \in LatestPerAccount(raw)
    BY <1>2, <1>4, <2>1, Histories
  <2>3. row \in run[r].picked /\ row \in snapshot'
    BY <2>1, <2>2 DEF InStep
  <2>4. row.at \in Nat /\ row.at >= row.at
    BY <1>0, <2>1, <2>2 DEF LatestPerAccount
  <2>5. ASSUME NEW id \in 1 .. row.asof
        PROVE  \E op \in events' : op.account = row.account /\ op.id = id /\ op.at >= row.at
    <3>1. PICK op \in OperationsOf(run[r].picked) :
              op.account = row.account /\ op.id = id /\ op.at = row.at
      BY <2>3, BatchIs
    <3> QED
      BY <2>1, <3>1 DEF SameOperation
  <2> QED
    BY <2>3, <2>4, <2>5
<1>5. ASSUME NEW r \in Run, run'[r].outcome = "green"
      PROVE  \/ run[r].outcome = "green" /\ run'[r] = run[r]
             \/ ReadRaw(r) \/ MergeEvents(r)
  <2>1. UNCHANGED vars \/ Consolidate \/ PurgeStep => run' = run
    BY <1>0, PurgeIs DEF vars, Consolidate
  <2>2. ASSUME NEW o \in Run, RunStep(o)
        PROVE  \A q \in Run : q # o => run'[q] = run[q]
    BY <2>2, QuietIs, IngestIs, ReadRawIs, WriteIs, MergeIs DEF RunStep, Onward, OnlyChanges
  <2>3. QuietStep(r) \/ IngestFile(r) => run'[r].outcome # "green"
    BY QuietIs, IngestIs DEF Onward
  <2>4. WriteSnapshot(r) => run'[r].outcome # "green"
    BY WriteIs
  <2> QED
    BY <1>5, <2>1, <2>2, <2>3, <2>4, NextIs DEF RunStep
<1> SUFFICES ASSUME NEW r \in Run, run'[r].outcome = "green",
                    NEW row \in LatestPerAccount(run'[r].mine),
                    Wanted(row.account, row.at)', Sound(row.account, row.at)'
             PROVE  /\ \E s \in snapshot' : s.account = row.account /\ s.at >= row.at
                    /\ \A id \in 1 .. row.asof :
                           \E op \in events' : /\ op.account = row.account /\ op.id = id
                                               /\ op.at >= row.at
  BY DEF GreenStored
<1> QED
  BY <1>1, <1>3, <1>4, <1>5

LEMMA SerialAlways ==
  ASSUME ~RunsOverlap, ~PurgeOverlaps
  PROVE  Spec => []Serial
<1>1. Init => Serial
  <2> SUFFICES ASSUME Init
               PROVE  Serial
    OBVIOUS
  <2>1. Purged
    BY InitIs DEF Purged, Init, PurgeCleans, NoPurge
  <2>2. \A r \in Run : run[r].pc = "idle" /\ run[r].outcome = "none"
    BY NewRunIs DEF Init
  <2>3. snapshot = {}
    BY DEF Init
  <2>4. InStep
    BY <2>2 DEF InStep, Active
  <2> QED
    BY <2>1, <2>2, <2>3, <2>4 DEF Serial, SnapshotFromRaw, GreenStored
<1>2. Serial /\ [Next]_vars => Serial'
  BY BaseStep, PurgeApartStep, PurgeCleansStep, InStepStep, SnapshotFromRawStep,
     GreenStoredStep DEF Serial, Purged
<1> QED
  BY <1>1, <1>2, PTL DEF Spec

\* A green run's accounts are in the snapshot and its operations in the events table,
\* until a purge or a malformed report takes them: no later run of another account, no
\* failed run and no purge of another account does.
THEOREM GreenRunsAreShown ==
  ASSUME ~RunsOverlap, ~PurgeOverlaps
  PROVE  Spec => []GreenShown
<1>1. Serial => GreenShown
  BY DEF Serial, GreenStored, GreenShown
<1> QED
  BY <1>1, SerialAlways, PTL

\* No run's rebuild of the snapshot loses an account or shows an older export of it.
THEOREM AccountsOnlyMoveOn ==
  ASSUME ~RunsOverlap, ~PurgeOverlaps
  PROVE  Spec => AccountsMoveOn
<1>1. Serial /\ [Next]_vars => [MovesOn]_snapshot
  BY SnapshotMovesOn DEF Serial, Purged
<1>2. Spec => [][MovesOn]_snapshot
  BY <1>1, SerialAlways, PTL DEF Spec
<1> QED
  BY <1>2 DEF AccountsMoveOn, MovesOn
==============================================================================
