------------------------- MODULE OrchestratorProofs -------------------------
(***************************************************************************)
(* Proofs about the executions of Orchestrator, for every set of           *)
(* connectors and executions, every bound, and whether or not executions   *)
(* overlap; and about FullCommand, which starts and awaits one or runs     *)
(* the connectors itself, for any connectors, timeout and interval.        *)
(***************************************************************************)
EXTENDS Orchestrator, FullCommand, TLAPS

Task == [pc : TaskPC, tries : 0 .. MaxAttempts + 1, fetched : Nat]
Job == [pc : JobPC, held : Table, next : Gold, broken : BOOLEAN]
TaskTypes == task \in [Executions -> [Connectors -> Task]]

\* A task that may run again has a try left.
TriesLeft ==
    \A e \in Executions, c \in Connectors :
        task[e][c].pc \in {"pending", "backoff"} => task[e][c].tries <= MaxAttempts

\* What a builder has read and not yet written is converted.
HeldConverted ==
    \A e \in Executions : job[e].pc = "write" => job[e].held.whole

\* Consolidation runs, and succeeds, only once every listed connector is green.
GreenBefore ==
    \A e \in Executions : status[e] \in {"consolidate", "succeeded"} =>
        \A c \in Listed[e] : task[e][c].pc = "green"

LEMMA EmptyTables == NoRows \in Content /\ NoTable \in Table /\ NewTask \in Task
  BY BoundsAreNatural DEF NoRows, Content, NoTable, Table, NewTask, Task, TaskPC

LEMMA GoldIs == Gold = 1 .. 4 /\ Len(Builders) = 4 /\ EventBuilder \subseteq Gold
  BY DEF Gold, Builders, EventBuilder

\* What a table shows of silver: all of it, but for the connectors it missed.
Shows(table, content) ==
    \A c \in Connectors :
        table.of[c] = content[c] \/ (c \in table.missed /\ table.of[c] = 0)

LEMMA ReadingShows ==
  ASSUME NEW content \in Content, NEW lost \in Unread(content), NEW whole \in BOOLEAN
  PROVE  LET read == Reading(content, lost)
         IN  /\ read \in Table /\ [read EXCEPT !.whole = whole] \in Table
             /\ Shows(read, content) /\ Shows([read EXCEPT !.whole = whole], content)
<1> DEFINE of == [c \in Connectors |-> IF c \in lost THEN 0 ELSE content[c]]
           read == Reading(content, lost)
<1>1. of \in Content /\ lost \in SUBSET Connectors
  BY DEF Content, Unread
<1>2. \A c \in Connectors : of[c] = content[c] \/ (c \in lost /\ of[c] = 0)
  OBVIOUS
<1>3. read = [of |-> of, whole |-> TRUE, missed |-> lost]
  BY DEF Reading
<1> HIDE DEF of, read
<1>4. /\ read \in Table /\ read.of = of /\ read.missed = lost
      /\ [read EXCEPT !.whole = whole] = [of |-> of, whole |-> whole, missed |-> lost]
  BY <1>1, <1>3 DEF Table
<1>5. [read EXCEPT !.whole = whole] \in Table
  BY <1>1, <1>4 DEF Table
<1> QED
  BY <1>2, <1>4, <1>5 DEF Shows, read

LEMMA ShownIsBehind ==
  ASSUME NEW table, NEW content \in Content, Shows(table, content)
  PROVE  \A c \in Connectors : table.of[c] <= content[c]
  BY DEF Shows, Content

LEMMA MaxOfTwo ==
  ASSUME NEW a \in Nat, NEW b \in Nat PROVE Max({a, b}) \in Nat
<1>1. \E x \in {a, b} : \A y \in {a, b} : x >= y
  OBVIOUS
<1>2. Max({a, b}) \in {a, b}
  BY <1>1 DEF Max
<1> QED
  BY <1>2

-----------------------------------------------------------------------------
(* The connector tasks.                                                    *)

\* Only the place of a task changes, and not to one it could run again from
\* without a try left.
LEMMA MovedTask ==
  ASSUME TaskTypes, TriesLeft,
         NEW e \in Executions, NEW c \in Connectors, NEW pc \in TaskPC,
         pc \in {"pending", "backoff"} => task[e][c].tries <= MaxAttempts,
         MoveTask(e, c, pc)
  PROVE  TaskTypes' /\ TriesLeft'
<1>1. task[e][c] \in Task /\ task[e] \in [Connectors -> Task]
  BY DEF TaskTypes
<1> DEFINE t == [task[e][c] EXCEPT !.pc = pc]
<1>2. t \in Task /\ t.pc = pc /\ t.tries = task[e][c].tries
  BY <1>1 DEF Task
<1>3. task' = [task EXCEPT ![e] = [task[e] EXCEPT ![c] = t]]
  BY <1>1 DEF MoveTask, TaskTypes
<1> HIDE DEF t
<1>4. TaskTypes'
  BY <1>1, <1>2, <1>3 DEF TaskTypes
<1>5. TriesLeft'
  <2>1. ASSUME NEW f \in Executions, NEW d \in Connectors
        PROVE  task'[f][d] = IF f = e /\ d = c THEN t ELSE task[f][d]
    BY <1>1, <1>3 DEF TaskTypes
  <2> QED
    BY <2>1, <1>2 DEF TriesLeft
<1> QED
  BY <1>4, <1>5

\* A task is replaced by one that is at work or green.
LEMMA ReplacedTask ==
  ASSUME TaskTypes, TriesLeft,
         NEW e \in Executions, NEW c \in Connectors, NEW t \in Task,
         t.pc \notin {"pending", "backoff"},
         task' = [task EXCEPT ![e][c] = t]
  PROVE  TaskTypes' /\ TriesLeft'
<1>1. task[e] \in [Connectors -> Task]
  BY DEF TaskTypes
<1>2. TaskTypes'
  BY <1>1 DEF TaskTypes
<1>3. ASSUME NEW f \in Executions, NEW d \in Connectors
      PROVE  task'[f][d] = IF f = e /\ d = c THEN t ELSE task[f][d]
  BY <1>1 DEF TaskTypes
<1>4. TriesLeft'
  BY <1>3 DEF TriesLeft
<1> QED
  BY <1>2, <1>4

LEMMA TaskStepTypes ==
  ASSUME TypeOK, TriesLeft,
         NEW e \in Executions, NEW c \in Connectors, TaskStep(e, c)
  PROVE  TypeOK' /\ TriesLeft'
<1>0. TaskTypes /\ task[e][c] \in Task
  BY DEF TypeOK, TaskTypes, Task
<1>a. /\ task[e][c].tries \in 0 .. MaxAttempts + 1
      /\ task[e][c].fetched \in Nat /\ task[e][c].pc \in TaskPC
  BY <1>0 DEF Task
<1>b. SUFFICES /\ TaskTypes' /\ TriesLeft'
               /\ status' \in [Executions -> Status]
               /\ asked' \in Content /\ snapshot' \in Content
               /\ brokerEvents' \in Content
               /\ UNCHANGED <<job, tables>>
  BY DEF TypeOK, TaskTypes, Task, tables
<1>1. CASE RunTask(e, c)
  <2> DEFINE t == [pc |-> "fetching", tries |-> task[e][c].tries + 1,
                   fetched |-> asked'[c]]
  <2>1. asked' \in Content /\ asked'[c] \in Nat
    BY <1>1 DEF RunTask, TypeOK, Content
  <2>2. task[e][c].tries <= MaxAttempts
    BY <1>1 DEF RunTask, MayRun, TriesLeft
  <2>3. t \in Task /\ t.pc \notin {"pending", "backoff"}
    BY <2>1, <2>2, <1>a, BoundsAreNatural DEF Task, TaskPC
  <2>4. task' = [task EXCEPT ![e][c] = t]
    BY <1>1, <1>0 DEF RunTask, TaskTypes
  <2> HIDE DEF t
  <2>5. TaskTypes' /\ TriesLeft'
    BY <1>0, <2>3, <2>4, ReplacedTask
  <2> QED
    BY <1>1, <2>1, <2>5 DEF RunTask, TypeOK, tables
<1>2. CASE SkipTask(e, c)
  <2> DEFINE t == [task[e][c] EXCEPT !.pc = "green", !.fetched = 0]
  <2>1. t \in Task /\ t.pc \notin {"pending", "backoff"}
    BY <1>0 DEF Task, TaskPC
  <2>2. task' = [task EXCEPT ![e][c] = t]
    BY <1>2, <1>0 DEF SkipTask, TaskTypes
  <2> HIDE DEF t
  <2>3. TaskTypes' /\ TriesLeft'
    BY <1>0, <2>1, <2>2, ReplacedTask
  <2> QED
    BY <1>2, <2>3 DEF SkipTask, TypeOK, silver, tables
<1>3. CASE StoreSnapshot(e, c)
  <2>1. TaskTypes' /\ TriesLeft'
    BY <1>3, <1>0, MovedTask DEF StoreSnapshot, TaskPC
  <2>2. snapshot' \in Content
    BY <1>3, <1>a DEF StoreSnapshot, TypeOK, Content
  <2> QED
    BY <1>3, <2>1, <2>2 DEF StoreSnapshot, TypeOK, tables
<1>4. CASE StoreEvents(e, c)
  <2>1. TaskTypes' /\ TriesLeft'
    BY <1>4, <1>0, MovedTask DEF StoreEvents, TaskPC
  <2>2. brokerEvents[c] \in Nat
    BY DEF TypeOK, Content
  <2>3. Max({brokerEvents[c], task[e][c].fetched}) \in Nat
    BY <2>2, <1>a, MaxOfTwo
  <2>4. brokerEvents' \in Content
    BY <1>4, <2>3 DEF StoreEvents, TypeOK, Content
  <2> QED
    BY <1>4, <2>1, <2>4 DEF StoreEvents, TypeOK, tables
<1>5. CASE TaskGreen(e, c)
  <2>1. TaskTypes' /\ TriesLeft'
    BY <1>5, <1>0, MovedTask DEF TaskGreen, TaskPC
  <2> QED
    BY <1>5, <2>1 DEF TaskGreen, TypeOK, silver, tables
<1>6. CASE TaskFails(e, c)
  <2> DEFINE retried == status[e] = "map" /\ task[e][c].tries <= MaxAttempts
             pc == IF retried THEN "backoff" ELSE "failed"
  <2>1. MoveTask(e, c, pc)
    BY <1>6 DEF TaskFails
  <2>2. pc \in TaskPC /\ (pc \in {"pending", "backoff"} => task[e][c].tries <= MaxAttempts)
    BY DEF TaskPC
  <2>3. TaskTypes' /\ TriesLeft'
    <3> HIDE DEF pc
    <3> QED
      BY <1>0, <2>1, <2>2, MovedTask
  <2>4. status' \in [Executions -> Status]
    BY <1>6 DEF TaskFails, TypeOK, Status
  <2> QED
    BY <1>6, <2>3, <2>4 DEF TaskFails, TypeOK, silver, tables
<1>7. CASE TaskStopped(e, c)
  <2>1. TaskTypes' /\ TriesLeft'
    BY <1>7, <1>0, MovedTask DEF TaskStopped, TaskPC
  <2> QED
    BY <1>7, <2>1 DEF TaskStopped, TypeOK, silver, tables
<1> QED
  BY <1>1, <1>2, <1>3, <1>4, <1>5, <1>6, <1>7 DEF TaskStep

-----------------------------------------------------------------------------
(* The consolidate-allocate task.                                          *)

\* A job moves with something it may hold; what is due to be written as gold is
\* converted.
LEMMA JobAdvances ==
  ASSUME TypeOK, HeldConverted, NEW e \in Executions, NEW pc \in JobPC,
         NEW table \in Table, pc = "write" => table.whole,
         job' = [job EXCEPT ![e].pc = pc, ![e].held = table]
  PROVE  job' \in [Executions -> Job] /\ HeldConverted'
<1>1. job \in [Executions -> Job] /\ job[e] \in Job
  BY DEF TypeOK, Job
<1> DEFINE j == [job[e] EXCEPT !.pc = pc, !.held = table]
<1>2. j \in Job /\ j.pc = pc /\ j.held = table
  BY <1>1 DEF Job
<1>3. job' = [job EXCEPT ![e] = j]
  BY <1>1
<1> HIDE DEF j
<1>4. \A f \in Executions : job'[f] = IF f = e THEN j ELSE job[f]
  BY <1>1, <1>3
<1> QED
  BY <1>1, <1>2, <1>3, <1>4 DEF HeldConverted

LEMMA JobReadsKeeps ==
  ASSUME TypeOK, HeldConverted, NEW e \in Executions, NEW pc \in JobPC,
         NEW table \in Table, pc = "write" => table.whole, JobReads(e, pc, table)
  PROVE  TypeOK' /\ HeldConverted' /\ gold' = gold
<1>1. job' \in [Executions -> Job] /\ HeldConverted'
  BY JobAdvances DEF JobReads
<1> QED
  BY <1>1 DEF JobReads, TypeOK, Job, silver, tables

LEMMA JobMovesKeeps ==
  ASSUME TypeOK, HeldConverted, NEW e \in Executions, NEW pc \in JobPC,
         pc # "write", JobMoves(e, pc)
  PROVE  job' \in [Executions -> Job] /\ HeldConverted'
  BY JobAdvances, EmptyTables DEF JobMoves

LEMMA NextBuilderKeeps ==
  ASSUME TypeOK, HeldConverted, NEW e \in Executions, NEW b \in BOOLEAN,
         NextBuilder(e, b)
  PROVE  job' \in [Executions -> Job] /\ HeldConverted'
<1>1. job \in [Executions -> Job] /\ job[e] \in Job
  BY DEF TypeOK, Job
<1>2. job[e].next \in 1 .. 4 /\ job[e].broken \in BOOLEAN
  BY <1>1, GoldIs DEF Job
<1> DEFINE last == job[e].next = Len(Builders)
           j == [pc |-> IF last THEN "check" ELSE "build", held |-> NoTable,
                 next |-> IF last THEN 1 ELSE job[e].next + 1,
                 broken |-> job[e].broken \/ b]
<1>3. (IF last THEN 1 ELSE job[e].next + 1) \in Gold
  BY <1>2, GoldIs
<1>4. (job[e].broken \/ b) \in BOOLEAN
  BY <1>2
<1>5. j \in Job /\ j.pc # "write"
  <2> HIDE DEF last
  <2> QED
    BY <1>3, <1>4, EmptyTables DEF Job, JobPC
<1>6. job' = [job EXCEPT ![e] = j]
  BY DEF NextBuilder
<1> HIDE DEF j
<1>7. \A f \in Executions : job'[f] = IF f = e THEN j ELSE job[f]
  BY <1>1, <1>6
<1> QED
  BY <1>1, <1>5, <1>6, <1>7 DEF HeldConverted

LEMMA JobStepTypes ==
  ASSUME TypeOK, HeldConverted, GoldConverted, NEW e \in Executions, JobStep(e)
  PROVE  TypeOK' /\ HeldConverted' /\ GoldConverted'
<1>0. /\ job[e].held \in Table /\ job[e].next \in Gold /\ events \in Table
      /\ holdings \in Table /\ snapshot \in Content /\ brokerEvents \in Content
  BY DEF TypeOK
<1>1. CASE ReadSnapshots(e)
  <2>1. PICK lost \in Unread(snapshot) : JobReads(e, "holdings", Reading(snapshot, lost))
    BY <1>1 DEF ReadSnapshots
  <2>2. Reading(snapshot, lost) \in Table
    BY <1>0, ReadingShows
  <2> QED
    BY <2>1, <2>2, JobReadsKeeps DEF JobPC, GoldConverted
<1>2. CASE WriteHoldings(e)
  <2>1. job' \in [Executions -> Job] /\ HeldConverted'
    BY <1>2, JobMovesKeeps DEF WriteHoldings, JobPC
  <2>2. holdings' \in Table
    BY <1>2, <1>0 DEF WriteHoldings
  <2> QED
    BY <1>2, <2>1, <2>2 DEF WriteHoldings, TypeOK, Job, silver, GoldConverted
<1>3. CASE ReadEventTables(e)
  <2>1. PICK lost \in Unread(brokerEvents) :
           LET read == Reading(brokerEvents, lost)
           IN  JobReads(e, "events", [read EXCEPT !.whole = (read.of = NoRows)])
    BY <1>3 DEF ReadEventTables
  <2> DEFINE read == Reading(brokerEvents, lost)
             table == [read EXCEPT !.whole = (read.of = NoRows)]
  <2>2. table \in Table
    BY <1>0, ReadingShows
  <2>3. JobReads(e, "events", table)
    BY <2>1
  <2> HIDE DEF table
  <2> QED
    BY <2>2, <2>3, JobReadsKeeps DEF JobPC, GoldConverted
<1>4. CASE WriteEvents(e)
  <2>1. job' \in [Executions -> Job] /\ HeldConverted'
    BY <1>4, JobMovesKeeps DEF WriteEvents, JobPC
  <2> QED
    BY <1>4, <1>0, <2>1 DEF WriteEvents, TypeOK, Job, silver, GoldConverted
<1>5. CASE ReadForTargets(e)
  <2> DEFINE pc == IF events.of = NoRows THEN "silver" ELSE "normalise"
             table == IF events.of = NoRows THEN NoTable ELSE events
  <2>1. pc \in JobPC /\ pc # "write" /\ table \in Table
    BY <1>0, EmptyTables DEF JobPC
  <2>2. JobReads(e, pc, table)
    BY <1>5 DEF ReadForTargets
  <2> HIDE DEF pc, table
  <2> QED
    BY <2>1, <2>2, JobReadsKeeps DEF GoldConverted
<1>6. CASE WriteTargets(e)
  <2>1. job' \in [Executions -> Job] /\ HeldConverted'
    BY <1>6, JobMovesKeeps DEF WriteTargets, JobPC
  <2>2. events' \in Table
    BY <1>6, <1>0 DEF WriteTargets, Table
  <2> QED
    BY <1>6, <2>1, <2>2 DEF WriteTargets, TypeOK, Job, silver, GoldConverted
<1>7. CASE ValidateSilver(e)
  <2>1. job' \in [Executions -> Job] /\ HeldConverted'
    BY <1>7, JobMovesKeeps DEF ValidateSilver, JobPC
  <2> QED
    BY <1>7, <2>1 DEF ValidateSilver, TypeOK, Job, silver, tables, GoldConverted
<1>8. CASE Build(e)
  <2>1. SourceOf(job[e].next) \in Table
    BY <1>0 DEF SourceOf
  <2> QED
    BY <1>8, <2>1, JobReadsKeeps DEF Build, JobPC, GoldConverted
<1>9. CASE WriteGold(e)
  <2>1. job' \in [Executions -> Job] /\ HeldConverted'
    BY <1>9, NextBuilderKeeps DEF WriteGold
  <2>2. job[e].held.whole
    BY <1>9 DEF WriteGold, JobAt, HeldConverted
  <2>3. gold' \in [Gold -> Table] /\ \A n \in Gold : gold'[n].whole
    BY <1>9, <1>0, <2>2 DEF WriteGold, TypeOK, GoldConverted
  <2> QED
    BY <1>9, <2>1, <2>3 DEF WriteGold, TypeOK, Job, silver, GoldConverted
<1>10. CASE BuilderFails(e)
  <2>1. job' \in [Executions -> Job] /\ HeldConverted'
    BY <1>10, NextBuilderKeeps DEF BuilderFails
  <2> QED
    BY <1>10, <2>1 DEF BuilderFails, TypeOK, Job, silver, tables, GoldConverted
<1>11. CASE Succeeds(e)
  BY <1>11 DEF Succeeds, TypeOK, Status, silver, tables, HeldConverted, GoldConverted
<1>12. CASE JobFails(e)
  <2>1. NewJob \in Job /\ NewJob.pc # "write"
    BY EmptyTables, GoldIs DEF NewJob, Job, JobPC
  <2>2. job' = [job EXCEPT ![e] = NewJob] /\ job \in [Executions -> Job]
    BY <1>12 DEF JobFails, TypeOK, Job
  <2>3. job' \in [Executions -> Job] /\ HeldConverted'
    BY <2>1, <2>2 DEF HeldConverted
  <2> QED
    BY <1>12, <2>3 DEF JobFails, TypeOK, Job, Status, silver, tables, GoldConverted
<1> QED
  BY <1>1, <1>2, <1>3, <1>4, <1>5, <1>6, <1>7, <1>8, <1>9, <1>10, <1>11, <1>12
     DEF JobStep

-----------------------------------------------------------------------------
(* The whole system.                                                       *)

IInv == TypeOK /\ TriesLeft /\ HeldConverted /\ GoldConverted /\ GreenBefore

LEMMA InitEstablishes == Init => IInv
<1> SUFFICES ASSUME Init PROVE IInv
  OBVIOUS
<1>1. TypeOK
  BY EmptyTables, GoldIs
     DEF Init, TypeOK, Task, Status, NewJob, JobPC
<1>2. TriesLeft
  BY BoundsAreNatural DEF Init, TriesLeft, NewTask
<1>3. HeldConverted /\ GoldConverted /\ GreenBefore
  BY DEF Init, HeldConverted, GoldConverted, GreenBefore, NewJob, NoTable
<1> QED
  BY <1>1, <1>2, <1>3 DEF IInv

\* A green task stays green.
LEMMA GreenStays ==
  ASSUME TypeOK, NEW e \in Executions, NEW c \in Connectors, TaskStep(e, c),
         NEW f \in Executions, NEW d \in Connectors, task[f][d].pc = "green"
  PROVE  task'[f][d].pc = "green"
<1>1. CASE f = e /\ d = c
  <2>1. task[e] \in [Connectors -> Task] /\ task[e][c] \in Task
    BY DEF TypeOK, Task
  <2>2. task[e][c].pc \notin Live \cup {"pending", "backoff"}
    BY <1>1 DEF Live
  <2>3. SkipTask(e, c)
    BY <2>2 DEF TaskStep, RunTask, MayRun, StoreSnapshot, StoreEvents, TaskGreen,
                TaskFails, TaskStopped, Live
  <2> QED
    BY <2>2, <2>3 DEF SkipTask, MayRun
<1>2. CASE ~(f = e /\ d = c)
  <2>1. task[e] \in [Connectors -> Task] /\ task \in [Executions -> [Connectors -> Task]]
    BY DEF TypeOK, Task
  <2>2. ASSUME NEW pc, MoveTask(e, c, pc) PROVE task'[f][d] = task[f][d]
    BY <1>2, <2>1, <2>2 DEF MoveTask
  <2>3. CASE RunTask(e, c)
    BY <1>2, <2>1, <2>3 DEF RunTask
  <2>4. CASE SkipTask(e, c)
    BY <1>2, <2>1, <2>4 DEF SkipTask
  <2>5. MoveTask(e, c, "backoff") \/ MoveTask(e, c, "failed") => task'[f][d] = task[f][d]
    BY <2>2
  <2>6. TaskFails(e, c) => MoveTask(e, c, "backoff") \/ MoveTask(e, c, "failed")
    BY DEF TaskFails
  <2>7. StoreSnapshot(e, c) \/ StoreEvents(e, c) \/ TaskGreen(e, c) \/ TaskStopped(e, c)
        => task'[f][d] = task[f][d]
    BY <2>2 DEF StoreSnapshot, StoreEvents, TaskGreen, TaskStopped
  <2> QED
    BY <2>3, <2>4, <2>5, <2>6, <2>7 DEF TaskStep
<1> QED
  BY <1>1, <1>2

LEMMA StepPreserves == IInv /\ [Next]_vars => IInv'
<1> SUFFICES ASSUME IInv, [Next]_vars PROVE IInv'
  OBVIOUS
<1> USE DEF IInv
<1>1. CASE UNCHANGED vars
  BY <1>1 DEF vars, silver, tables, TypeOK, TriesLeft, HeldConverted, GoldConverted,
              GreenBefore
<1>2. CASE Next
  <2> PICK e \in Executions : Start(e) \/ Proceed(e)
    BY <1>2 DEF Next
  <2>0. \A f \in Executions : Listed[f] \subseteq Connectors
    BY ListedAreRegistered
  <2>1. CASE Start(e)
    BY <2>1 DEF Start, silver, tables, TypeOK, Status, TriesLeft, HeldConverted,
                GoldConverted, GreenBefore
  <2>2. CASE MapDone(e)
    BY <2>2 DEF MapDone, silver, tables, TypeOK, Status, TriesLeft, HeldConverted,
                GoldConverted, GreenBefore
  <2>3. CASE JobStep(e)
    <3>1. TypeOK' /\ HeldConverted' /\ GoldConverted'
      BY <2>3, JobStepTypes
    <3>2. /\ task' = task
          /\ \A f \in Executions : status'[f] \in {"consolidate", "succeeded"} =>
                                     status[f] \in {"consolidate", "succeeded"}
      BY <2>3 DEF JobStep, ReadSnapshots, WriteHoldings, ReadEventTables, WriteEvents,
            ReadForTargets, WriteTargets, ValidateSilver, Build, WriteGold, BuilderFails,
            Succeeds, JobFails, JobReads, JobAt, TypeOK
    <3> QED
      BY <3>1, <3>2 DEF TriesLeft, GreenBefore
  <2>4. CASE \E c \in Connectors : TaskStep(e, c)
    <3> PICK c \in Connectors : TaskStep(e, c)
      BY <2>4
    <3>1. TypeOK' /\ TriesLeft'
      BY TaskStepTypes
    <3>2. UNCHANGED <<job, gold>>
      BY DEF TaskStep, RunTask, SkipTask, StoreSnapshot, StoreEvents, TaskGreen,
             TaskFails, TaskStopped, tables
    <3>3. \A f \in Executions : status'[f] \in {"consolidate", "succeeded"} =>
                                 status[f] \in {"consolidate", "succeeded"}
      BY DEF TaskStep, RunTask, SkipTask, StoreSnapshot, StoreEvents, TaskGreen,
             TaskFails, TaskStopped, TypeOK
    <3>4. GreenBefore'
      BY <3>3, <2>0, GreenStays DEF GreenBefore
    <3> QED
      BY <3>1, <3>2, <3>4 DEF HeldConverted, GoldConverted
  <2> QED
    BY <2>1, <2>2, <2>3, <2>4 DEF Proceed
<1> QED
  BY <1>1, <1>2

\* The variables keep their types, no task runs more often than its retries allow.
THEOREM OrchestratorTypes == Spec => []TypeOK
<1>1. IInv => TypeOK
  BY DEF IInv
<1> QED
  BY InitEstablishes, StepPreserves, <1>1, PTL DEF Spec

\* However executions overlap, no gold table is ever built from events whose
\* amounts were not converted: each builder refuses the table it read.
THEOREM GoldIsConverted == Spec => []GoldConverted
<1>1. IInv => GoldConverted
  BY DEF IInv
<1> QED
  BY InitEstablishes, StepPreserves, <1>1, PTL DEF Spec

\* Gold changes only in an execution all of whose connectors ended green.
THEOREM GoldFollowsGreen == Spec => GoldAfterGreen
<1> DEFINE A == gold' # gold => \E e \in Executions :
                   /\ status[e] = "consolidate"
                   /\ \A c \in Listed[e] : task[e][c].pc = "green"
<1>1. IInv /\ [Next]_vars => [A]_vars
  <2> SUFFICES ASSUME IInv, Next, gold' # gold
               PROVE  \E e \in Executions :
                        /\ status[e] = "consolidate"
                        /\ \A c \in Listed[e] : task[e][c].pc = "green"
    OBVIOUS
  <2> PICK e \in Executions : Start(e) \/ Proceed(e)
    BY DEF Next
  <2>1. ~Start(e) /\ ~MapDone(e)
    BY DEF Start, MapDone, tables
  <2>2. \A c \in Connectors : ~TaskStep(e, c)
    BY DEF TaskStep, RunTask, SkipTask, StoreSnapshot, StoreEvents, TaskGreen,
           TaskFails, TaskStopped, tables
  <2>3. status[e] = "consolidate"
    BY <2>1, <2>2 DEF Proceed, JobStep, ReadSnapshots, WriteHoldings, ReadEventTables,
         WriteEvents, ReadForTargets, WriteTargets, ValidateSilver, Build, WriteGold,
         BuilderFails, Succeeds, JobFails, JobAt
  <2> QED
    BY <2>3 DEF IInv, GreenBefore
<1> QED
  BY InitEstablishes, StepPreserves, <1>1, PTL DEF Spec, GoldAfterGreen

-----------------------------------------------------------------------------
(* Executions one at a time: gold shows what silver holds.                 *)

\* The table a builder reads from silver, by way of the consolidated tables.
Now(n) == IF n \in EventBuilder THEN brokerEvents ELSE snapshot

\* Two executions are never at work together.
Alone == \A e, f \in Executions : AtWork(e) /\ AtWork(f) => e = f

\* Only what the input lists runs, and only while the Map does or was just failed.
TasksOfTheMap ==
    \A e \in Executions, c \in Connectors :
        /\ task[e][c].pc # "pending" => c \in Listed[e]
        /\ task[e][c].pc \in Live => status[e] \in {"map", "failed"}

\* A task at work has the newest fetch of its connector; what it has been through
\* is in silver.
StoredSoFar ==
    \A e \in Executions, c \in Connectors :
        LET t == task[e][c] IN
        /\ t.fetched <= asked[c]
        /\ t.pc \in Live => t.fetched = asked[c]
        /\ t.pc \in {"transforming", "validating", "green"} => t.fetched <= snapshot[c]
        /\ t.pc \in {"validating", "green"} => t.fetched <= brokerEvents[c]

SilverFetched ==
    \A c \in Connectors : snapshot[c] <= asked[c] /\ brokerEvents[c] <= asked[c]

\* By the job's place, which of the tables show all of silver that could be read.
Sees(e) ==
    LET j == job[e] IN
    /\ j.pc \notin {"build", "write"} => j.next = 1
    /\ j.pc = "holdings" => Shows(j.held, snapshot)
    /\ j.pc \notin {"snapshots", "holdings"} => Shows(holdings, snapshot)
    /\ j.pc \in {"events", "normalise"} => Shows(j.held, brokerEvents)
    /\ j.pc \in {"targets", "normalise", "silver", "build", "write", "check"} =>
           Shows(events, brokerEvents)
    /\ j.pc = "write" => Shows(j.held, Now(j.next))
    /\ ~j.broken /\ j.pc \in {"build", "write"} =>
           \A n \in Gold : n < j.next => Shows(gold[n], Now(n))
    /\ ~j.broken /\ j.pc = "check" => \A n \in Gold : Shows(gold[n], Now(n))

JobsSee ==
    \A e \in Executions :
        /\ status[e] \in {"idle", "map"} => job[e].pc = "snapshots" /\ job[e].next = 1
        /\ status[e] = "consolidate" => Sees(e)

\* Gold is never ahead of silver ...
GoldBehind == \A n \in Gold, c \in Connectors : gold[n].of[c] <= Now(n)[c]

\* ... and level with it, where it could be read, when nothing is going on and
\* nothing has failed.
Settled ==
    (\A e \in Executions : status[e] \in {"idle", "succeeded"}) =>
        \A n \in Gold, c \in Connectors :
            gold[n].of[c] >= Now(n)[c] \/ c \in gold[n].missed

\* A step sets nothing that gold shows back but what could not be read.
AsNew ==
    \A n \in Gold, c \in Connectors :
        gold'[n].of[c] >= gold[n].of[c] \/ c \in gold'[n].missed

Serial == /\ IInv /\ Alone /\ TasksOfTheMap /\ StoredSoFar /\ SilverFetched
          /\ JobsSee /\ GoldBehind /\ Settled /\ GoldHoldsItsRun

LEMMA MaxOfTwoIs ==
  ASSUME NEW a \in Nat, NEW b \in Nat
  PROVE  Max({a, b}) \in {a, b} /\ Max({a, b}) >= a /\ Max({a, b}) >= b
<1>1. \E x \in {a, b} : \A y \in {a, b} : x >= y
  OBVIOUS
<1>2. Max({a, b}) \in {a, b} /\ \A y \in {a, b} : Max({a, b}) >= y
  BY <1>1 DEF Max
<1> QED
  BY <1>2

\* MoveTask, at every task.
LEMMA MovedAt ==
  ASSUME TypeOK, NEW e \in Executions, NEW c \in Connectors, NEW pc, MoveTask(e, c, pc)
  PROVE  /\ \A f \in Executions, d \in Connectors :
               ~(f = e /\ d = c) => task'[f][d] = task[f][d]
         /\ task'[e][c].pc = pc /\ task'[e][c].fetched = task[e][c].fetched
<1>1. /\ task \in [Executions -> [Connectors -> Task]]
      /\ task[e] \in [Connectors -> Task] /\ task[e][c] \in Task
  BY DEF TypeOK, Task
<1> DEFINE t == [task[e][c] EXCEPT !.pc = pc]
<1>2. t.pc = pc /\ t.fetched = task[e][c].fetched
  BY <1>1 DEF Task
<1>3. task' = [task EXCEPT ![e] = [task[e] EXCEPT ![c] = t]]
  BY <1>1 DEF MoveTask
<1> HIDE DEF t
<1> QED
  BY <1>1, <1>2, <1>3

LEMMA LiveIsAtWork ==
  ASSUME NEW e \in Executions, NEW c \in Connectors, task[e][c].pc \in Live
  PROVE  AtWork(e)
  BY DEF AtWork, LiveTasks

\* The task of a step: what it was, what it is, and what it did to silver.
Moved(e, c) ==
    /\ \A f \in Executions, d \in Connectors :
           ~(f = e /\ d = c) => task'[f][d] = task[f][d]
    /\ \A f \in Executions :
           status'[f] = status[f] \/ (f = e /\ status[e] = "map" /\ status'[e] = "failed")
    /\ UNCHANGED <<job, tables>>

Silver(c) ==
    /\ \A d \in Connectors : d # c => /\ asked'[d] = asked[d]
                                      /\ snapshot'[d] = snapshot[d]
                                      /\ brokerEvents'[d] = brokerEvents[d]
    /\ asked'[c] >= asked[c] /\ snapshot'[c] >= snapshot[c]
    /\ brokerEvents'[c] >= brokerEvents[c]
    /\ snapshot'[c] <= asked'[c] /\ brokerEvents'[c] <= asked'[c]

TaskNow(e, c) ==
    LET t == task'[e][c] IN
    /\ t.pc \in Live => status'[e] \in {"map", "failed"}
    /\ t.fetched <= asked'[c]
    /\ t.pc \in Live => t.fetched = asked'[c]
    /\ t.pc \in {"transforming", "validating", "green"} => t.fetched <= snapshot'[c]
    /\ t.pc \in {"validating", "green"} => t.fetched <= brokerEvents'[c]

LEMMA TaskEffects ==
  ASSUME Serial, NEW e \in Executions, NEW c \in Connectors, TaskStep(e, c)
  PROVE  /\ AtWork(e) /\ c \in Listed[e] /\ status[e] \in {"map", "failed"}
         /\ Moved(e, c) /\ Silver(c) /\ TaskNow(e, c)
<1>0. /\ TypeOK /\ task \in [Executions -> [Connectors -> Task]]
      /\ task[e] \in [Connectors -> Task] /\ task[e][c] \in Task
      /\ status \in [Executions -> Status]
      /\ asked \in Content /\ snapshot \in Content /\ brokerEvents \in Content
      /\ asked[c] \in Nat /\ snapshot[c] \in Nat /\ brokerEvents[c] \in Nat
      /\ task[e][c].fetched \in Nat
  BY DEF Serial, IInv, TypeOK, Task, Content
<1>1. AtWork(e) /\ c \in Listed[e] /\ status[e] \in {"map", "failed"}
  <2>1. CASE MayRun(e, c)
    BY <2>1 DEF MayRun, AtWork
  <2>2. CASE task[e][c].pc \in Live
    BY <2>2, LiveIsAtWork DEF Serial, TasksOfTheMap, Live
  <2> QED
    BY <2>1, <2>2 DEF TaskStep, RunTask, SkipTask, StoreSnapshot, StoreEvents, TaskGreen,
                      TaskFails, TaskStopped, Live
<1>2. Moved(e, c)
  <2>1. ASSUME NEW pc, MoveTask(e, c, pc), UNCHANGED <<job, tables>>, UNCHANGED status
        PROVE  Moved(e, c)
    BY <2>1, <1>0, MovedAt DEF Moved
  <2>2. CASE RunTask(e, c) \/ SkipTask(e, c)
    BY <2>2, <1>0 DEF RunTask, SkipTask, Moved
  <2>3. CASE StoreSnapshot(e, c) \/ StoreEvents(e, c) \/ TaskGreen(e, c) \/ TaskStopped(e, c)
    BY <2>3, <2>1 DEF StoreSnapshot, StoreEvents, TaskGreen, TaskStopped
  <2>4. CASE TaskFails(e, c)
    <3>1. PICK pc : MoveTask(e, c, pc)
      BY <2>4 DEF TaskFails
    <3>2. \A f \in Executions :
             status'[f] = status[f] \/ (f = e /\ status[e] = "map" /\ status'[e] = "failed")
      BY <2>4, <1>0 DEF TaskFails
    <3>3. UNCHANGED <<job, tables>>
      BY <2>4 DEF TaskFails
    <3> QED
      BY <3>1, <3>2, <3>3, <1>0, MovedAt DEF Moved
  <2> QED
    BY <2>2, <2>3, <2>4 DEF TaskStep
<1>3. /\ snapshot[c] <= asked[c] /\ brokerEvents[c] <= asked[c]
      /\ task[e][c].fetched <= asked[c]
      /\ task[e][c].pc \in Live => task[e][c].fetched = asked[c]
      /\ task[e][c].pc \in {"transforming", "validating", "green"} =>
             task[e][c].fetched <= snapshot[c]
      /\ task[e][c].pc \in {"validating", "green"} => task[e][c].fetched <= brokerEvents[c]
  BY DEF Serial, StoredSoFar, SilverFetched
<1>4. ASSUME UNCHANGED silver PROVE Silver(c)
  BY <1>0, <1>3, <1>4 DEF Silver, silver
<1>5. Silver(c) /\ TaskNow(e, c)
  <2>1. CASE RunTask(e, c)
    <3>1. /\ task'[e][c].pc = "fetching" /\ task'[e][c].fetched = asked'[c]
          /\ asked' = [asked EXCEPT ![c] = @ + 1]
          /\ UNCHANGED <<status, snapshot, brokerEvents>>
      BY <2>1, <1>0 DEF RunTask
    <3>2. asked'[c] = asked[c] + 1 /\ \A d \in Connectors : d # c => asked'[d] = asked[d]
      BY <3>1, <1>0 DEF Content
    <3>3. Silver(c)
      BY <3>1, <3>2, <1>0, <1>3 DEF Silver
    <3> QED
      BY <3>1, <3>2, <3>3, <1>0, <1>1 DEF TaskNow
  <2>2. CASE SkipTask(e, c)
    <3>1. /\ task'[e][c].pc = "green" /\ task'[e][c].fetched = 0
          /\ UNCHANGED silver
      BY <2>2, <1>0 DEF SkipTask, Task
    <3> QED
      BY <3>1, <1>0, <1>4 DEF TaskNow, Live, silver
  <2>3. CASE StoreSnapshot(e, c)
    <3>1. /\ task[e][c].pc = "fetching" /\ UNCHANGED <<status, asked, brokerEvents>>
          /\ snapshot' = [snapshot EXCEPT ![c] = task[e][c].fetched]
          /\ MoveTask(e, c, "transforming")
      BY <2>3 DEF StoreSnapshot
    <3>2. task'[e][c].pc = "transforming" /\ task'[e][c].fetched = task[e][c].fetched
      BY <3>1, <1>0, MovedAt
    <3>3. /\ task[e][c].fetched = asked[c] /\ snapshot'[c] = task[e][c].fetched
          /\ \A d \in Connectors : d # c => snapshot'[d] = snapshot[d]
      BY <3>1, <1>0, <1>3 DEF Live, Content
    <3>4. Silver(c)
      BY <3>1, <3>3, <1>0, <1>3 DEF Silver
    <3> QED
      BY <3>1, <3>2, <3>3, <3>4, <1>0, <1>1 DEF TaskNow, Live
  <2>4. CASE StoreEvents(e, c)
    <3> DEFINE m == Max({brokerEvents[c], task[e][c].fetched})
    <3>1. /\ task[e][c].pc = "transforming" /\ UNCHANGED <<status, asked, snapshot>>
          /\ brokerEvents' = [brokerEvents EXCEPT ![c] = m]
          /\ MoveTask(e, c, "validating")
      BY <2>4 DEF StoreEvents
    <3>2. task'[e][c].pc = "validating" /\ task'[e][c].fetched = task[e][c].fetched
      BY <3>1, <1>0, MovedAt
    <3>3. m \in {brokerEvents[c], task[e][c].fetched} /\ m >= brokerEvents[c]
          /\ m >= task[e][c].fetched
      BY <1>0, MaxOfTwoIs
    <3> HIDE DEF m
    <3>4. brokerEvents'[c] = m /\ \A d \in Connectors : d # c => brokerEvents'[d] = brokerEvents[d]
      BY <3>1, <1>0 DEF Content
    <3>5. Silver(c)
      BY <3>1, <3>3, <3>4, <1>0, <1>3 DEF Silver
    <3> QED
      BY <3>1, <3>2, <3>3, <3>4, <3>5, <1>0, <1>1, <1>3 DEF TaskNow, Live
  <2>5. CASE TaskGreen(e, c)
    <3>1. /\ task[e][c].pc = "validating" /\ UNCHANGED <<status, silver>>
          /\ task'[e][c].pc = "green" /\ task'[e][c].fetched = task[e][c].fetched
      BY <2>5, <1>0, MovedAt DEF TaskGreen
    <3> QED
      BY <3>1, <1>0, <1>3, <1>4 DEF TaskNow, Live, silver
  <2>6. CASE TaskFails(e, c)
    <3>1. /\ UNCHANGED silver
          /\ task'[e][c].pc \in {"backoff", "failed"}
          /\ task'[e][c].fetched = task[e][c].fetched
      <4>1. MoveTask(e, c, "backoff") \/ MoveTask(e, c, "failed")
        BY <2>6 DEF TaskFails
      <4> QED
        BY <4>1, <2>6, <1>0, MovedAt DEF TaskFails
    <3> QED
      BY <3>1, <1>0, <1>3, <1>4 DEF TaskNow, Live, silver
  <2>7. CASE TaskStopped(e, c)
    <3>1. /\ UNCHANGED silver
          /\ task'[e][c].pc = "stopped" /\ task'[e][c].fetched = task[e][c].fetched
      BY <2>7, <1>0, MovedAt DEF TaskStopped
    <3> QED
      BY <3>1, <1>0, <1>3, <1>4 DEF TaskNow, Live, silver
  <2> QED
    BY <2>1, <2>2, <2>3, <2>4, <2>5, <2>6, <2>7 DEF TaskStep
<1> QED
  BY <1>1, <1>2, <1>5

\* A step of a connector task, with nothing else at work: no job is reading, and
\* silver only gets newer.
LEMMA TaskStepSerial ==
  ASSUME Serial, NEW e \in Executions, NEW c \in Connectors, TaskStep(e, c), IInv'
  PROVE  Serial'
<1>0. /\ asked \in Content /\ snapshot \in Content /\ brokerEvents \in Content
      /\ asked' \in Content /\ snapshot' \in Content /\ brokerEvents' \in Content
      /\ task \in [Executions -> [Connectors -> Task]]
      /\ status \in [Executions -> Status] /\ gold \in [Gold -> Table]
  BY DEF Serial, IInv, TypeOK, Task
<1>1. /\ AtWork(e) /\ c \in Listed[e] /\ status[e] \in {"map", "failed"}
      /\ Moved(e, c) /\ Silver(c) /\ TaskNow(e, c)
  BY TaskEffects
<1>2. \A f \in Executions : AtWork(f)' => AtWork(f)
  <2> SUFFICES ASSUME NEW f \in Executions, AtWork(f)' PROVE AtWork(f)
    OBVIOUS
  <2>1. CASE f = e
    BY <2>1, <1>1
  <2>2. CASE f # e
    BY <2>2, <1>1 DEF AtWork, LiveTasks, Moved
  <2> QED
    BY <2>1, <2>2
<1>3. Alone'
  BY <1>2 DEF Serial, Alone
<1>4. TasksOfTheMap'
  <2> SUFFICES ASSUME NEW f \in Executions, NEW d \in Connectors
               PROVE  /\ task'[f][d].pc # "pending" => d \in Listed[f]
                      /\ task'[f][d].pc \in Live => status'[f] \in {"map", "failed"}
    BY DEF TasksOfTheMap
  <2> QED
    BY <1>1 DEF Serial, TasksOfTheMap, Moved, TaskNow
<1>5. SilverFetched'
  BY <1>1 DEF Serial, SilverFetched, Silver
<1>6. StoredSoFar'
  <2> SUFFICES ASSUME NEW f \in Executions, NEW d \in Connectors
               PROVE  LET t == task'[f][d] IN
                      /\ t.fetched <= asked'[d]
                      /\ t.pc \in Live => t.fetched = asked'[d]
                      /\ t.pc \in {"transforming", "validating", "green"} => t.fetched <= snapshot'[d]
                      /\ t.pc \in {"validating", "green"} => t.fetched <= brokerEvents'[d]
    BY DEF StoredSoFar
  <2>1. CASE f = e /\ d = c
    BY <2>1, <1>1 DEF TaskNow
  <2>2. CASE ~(f = e /\ d = c)
    <3>1. task'[f][d] = task[f][d] /\ task[f][d].fetched \in Nat
      BY <2>2, <1>0, <1>1 DEF Moved, Task
    <3>2. task[f][d].pc \in Live => d # c
      BY <2>2, <1>1, LiveIsAtWork DEF Serial, Alone
    <3>3. /\ asked'[d] >= asked[d] /\ snapshot'[d] >= snapshot[d]
          /\ brokerEvents'[d] >= brokerEvents[d]
          /\ d # c => asked'[d] = asked[d]
          /\ asked[d] \in Nat /\ snapshot[d] \in Nat /\ brokerEvents[d] \in Nat
          /\ asked'[d] \in Nat /\ snapshot'[d] \in Nat /\ brokerEvents'[d] \in Nat
      BY <1>0, <1>1 DEF Silver, Content
    <3> QED
      BY <3>1, <3>2, <3>3 DEF Serial, StoredSoFar
  <2> QED
    BY <2>1, <2>2
<1>7. JobsSee'
  <2>1. \A f \in Executions : status[f] # "consolidate" /\ status'[f] # "consolidate"
    <3> SUFFICES ASSUME NEW f \in Executions, status[f] = "consolidate" \/ status'[f] = "consolidate"
                 PROVE  FALSE
      OBVIOUS
    <3>1. status[f] = "consolidate"
      BY <1>1 DEF Moved
    <3>2. f = e
      BY <3>1, <1>1 DEF AtWork, Serial, Alone
    <3> QED
      BY <3>1, <3>2, <1>1
  <2>2. \A f \in Executions : status'[f] \in {"idle", "map"} => status[f] \in {"idle", "map"}
    BY <1>1 DEF Moved
  <2> QED
    BY <2>1, <2>2, <1>1 DEF Serial, JobsSee, Moved
<1>8. GoldBehind'
  <2> SUFFICES ASSUME NEW n \in Gold, NEW d \in Connectors
               PROVE  gold'[n].of[d] <= Now(n)'[d]
    BY DEF GoldBehind
  <2>1. gold' = gold /\ gold[n].of[d] \in Nat
    BY <1>0, <1>1 DEF Moved, tables, Table, Content
  <2>2. Now(n)'[d] >= Now(n)[d] /\ Now(n)[d] \in Nat /\ Now(n)'[d] \in Nat
    BY <1>0, <1>1 DEF Now, Silver, Content
  <2> QED
    BY <2>1, <2>2 DEF Serial, GoldBehind
<1>9. Settled'
  <2>1. status'[e] \in {"map", "failed"}
    BY <1>1 DEF Moved
  <2> QED
    BY <2>1 DEF Settled
<1>10. GoldHoldsItsRun'
  <2>1. gold' = gold
    BY <1>1 DEF Moved, tables
  <2>2. \A f \in Executions : status'[f] = "succeeded" => f # e /\ status[f] = "succeeded"
    BY <1>1 DEF Moved
  <2>3. \A f \in Executions : Listed[f] \subseteq Connectors
    BY ListedAreRegistered
  <2> QED
    BY <2>1, <2>2, <2>3, <1>1 DEF Serial, GoldHoldsItsRun, Moved
<1> QED
  BY <1>3, <1>4, <1>5, <1>6, <1>7, <1>8, <1>9, <1>10 DEF Serial

\* What a step of a job leaves alone, whatever the step.
LEMMA JobStepKeeps ==
  ASSUME TypeOK, NEW e \in Executions, JobStep(e)
  PROVE  /\ status[e] = "consolidate" /\ UNCHANGED <<task, silver>>
         /\ \A f \in Executions : f # e => job'[f] = job[f] /\ status'[f] = status[f]
         /\ status'[e] \in {"consolidate", "succeeded", "failed"}
<1>1. job \in [Executions -> Job] /\ status \in [Executions -> Status]
  BY DEF TypeOK, Job
<1>2. status[e] = "consolidate" /\ UNCHANGED <<task, silver>>
  BY DEF JobStep, ReadSnapshots, WriteHoldings, ReadEventTables, WriteEvents,
         ReadForTargets, WriteTargets, ValidateSilver, Build, WriteGold, BuilderFails,
         Succeeds, JobFails, JobReads, JobAt
<1>3. CASE Succeeds(e) \/ JobFails(e)
  BY <1>1, <1>2, <1>3 DEF Succeeds, JobFails
<1>4. CASE ReadSnapshots(e) \/ WriteHoldings(e) \/ ReadEventTables(e) \/ WriteEvents(e)
            \/ ReadForTargets(e) \/ WriteTargets(e) \/ ValidateSilver(e) \/ Build(e)
            \/ WriteGold(e) \/ BuilderFails(e)
  <2>1. status' = status
    BY <1>4 DEF ReadSnapshots, WriteHoldings, ReadEventTables, WriteEvents, ReadForTargets,
                WriteTargets, ValidateSilver, Build, WriteGold, BuilderFails, JobReads
  <2>2. \A f \in Executions : f # e => job'[f] = job[f]
    BY <1>1, <1>4 DEF ReadSnapshots, WriteHoldings, ReadEventTables, WriteEvents,
                ReadForTargets, WriteTargets, ValidateSilver, Build, WriteGold,
                BuilderFails, JobReads, JobMoves, NextBuilder
  <2> QED
    BY <1>2, <2>1, <2>2
<1> QED
  BY <1>2, <1>3, <1>4 DEF JobStep

\* What a read and a move do to the job.
LEMMA JobReadsAt ==
  ASSUME TypeOK, NEW e \in Executions, NEW pc, NEW table,
         job' = [job EXCEPT ![e].pc = pc, ![e].held = table]
  PROVE  /\ job'[e].pc = pc /\ job'[e].held = table
         /\ job'[e].next = job[e].next /\ job'[e].broken = job[e].broken
  BY DEF TypeOK, Job

LEMMA ReadsAt ==
  ASSUME TypeOK, NEW e \in Executions, NEW pc, NEW table, JobReads(e, pc, table)
  PROVE  /\ job'[e].pc = pc /\ job'[e].held = table
         /\ job'[e].next = job[e].next /\ job'[e].broken = job[e].broken
         /\ UNCHANGED <<holdings, events, gold>>
<1>1. job' = [job EXCEPT ![e].pc = pc, ![e].held = table]
  BY DEF JobReads
<1>2. UNCHANGED <<holdings, events, gold>>
  BY DEF JobReads, tables
<1> QED
  BY <1>1, <1>2 DEF TypeOK, Job

LEMMA NextBuilderAt ==
  ASSUME TypeOK, NEW e \in Executions, NEW b \in BOOLEAN, NextBuilder(e, b)
  PROVE  LET last == job[e].next = Len(Builders) IN
         /\ job'[e].pc = IF last THEN "check" ELSE "build"
         /\ job'[e].next = IF last THEN 1 ELSE job[e].next + 1
         /\ job'[e].broken = (job[e].broken \/ b)
  BY DEF TypeOK, NextBuilder

\* A job that reads and writes with nothing else at work sees all of silver that
\* can be read, and shows what it sees or leaves a gold table as it was.
LEMMA JobSeesOn ==
  ASSUME Serial, NEW e \in Executions, JobStep(e), status'[e] = "consolidate"
  PROVE  /\ Sees(e)'
         /\ \A n \in Gold : gold'[n] = gold[n] \/ Shows(gold'[n], Now(n))
<1>0. /\ TypeOK /\ status[e] = "consolidate" /\ UNCHANGED <<asked, snapshot, brokerEvents>>
      /\ job[e] \in Job /\ gold \in [Gold -> Table] /\ Sees(e)
      /\ snapshot \in Content /\ brokerEvents \in Content
      /\ status \in [Executions -> Status]
  BY JobStepKeeps DEF Serial, IInv, TypeOK, Job, JobsSee, silver
<1>n. \A n \in Gold : Now(n)' = Now(n)
  BY <1>0 DEF Now
<1>2. CASE ReadSnapshots(e)
  <2> PICK lost \in Unread(snapshot) : JobReads(e, "holdings", Reading(snapshot, lost))
    BY <1>2 DEF ReadSnapshots
  <2> DEFINE table == Reading(snapshot, lost)
  <2>0. Shows(table, snapshot) /\ JobReads(e, "holdings", table)
    BY <1>0, ReadingShows
  <2>s. job[e].pc = "snapshots"
    BY <1>2 DEF ReadSnapshots, JobAt
  <2> HIDE DEF table
  <2>1. /\ job'[e].pc = "holdings" /\ Shows(job'[e].held, snapshot)
        /\ job'[e].next = job[e].next /\ gold' = gold /\ job[e].pc = "snapshots"
    BY <1>0, <2>0, <2>s, ReadsAt
  <2> QED
    BY <1>0, <2>1 DEF Sees
<1>3. CASE WriteHoldings(e)
  <2>1. /\ job'[e].pc = "eventTables" /\ holdings' = job[e].held
        /\ job'[e].next = job[e].next /\ gold' = gold /\ job[e].pc = "holdings"
    BY <1>0, <1>3, JobReadsAt DEF WriteHoldings, JobMoves, JobAt
  <2> QED
    BY <1>0, <2>1 DEF Sees
<1>4. CASE ReadEventTables(e)
  <2> PICK lost \in Unread(brokerEvents) :
           LET read == Reading(brokerEvents, lost)
           IN  JobReads(e, "events", [read EXCEPT !.whole = (read.of = NoRows)])
    BY <1>4 DEF ReadEventTables
  <2> DEFINE read == Reading(brokerEvents, lost)
             table == [read EXCEPT !.whole = (read.of = NoRows)]
  <2>0. Shows(table, brokerEvents) /\ JobReads(e, "events", table)
    BY <1>0, ReadingShows
  <2> HIDE DEF table
  <2>1. /\ job'[e].pc = "events" /\ Shows(job'[e].held, brokerEvents)
        /\ job'[e].next = job[e].next /\ UNCHANGED <<gold, holdings>>
        /\ job[e].pc = "eventTables"
    BY <1>0, <1>4, <2>0, ReadsAt DEF ReadEventTables, JobAt
  <2> QED
    BY <1>0, <2>1 DEF Sees
<1>5. CASE WriteEvents(e)
  <2>1. /\ job'[e].pc = "targets" /\ events' = job[e].held
        /\ job'[e].next = job[e].next /\ UNCHANGED <<gold, holdings>>
        /\ job[e].pc = "events"
    BY <1>0, <1>5, JobReadsAt DEF WriteEvents, JobMoves, JobAt
  <2> QED
    BY <1>0, <2>1 DEF Sees
<1>6. CASE ReadForTargets(e)
  <2>1. /\ job'[e].pc = "silver" \/ (job'[e].pc = "normalise" /\ job'[e].held = events)
        /\ job'[e].next = job[e].next /\ UNCHANGED <<gold, holdings, events>>
        /\ job[e].pc = "targets"
    BY <1>0, <1>6, ReadsAt DEF ReadForTargets, JobAt
  <2> QED
    BY <1>0, <2>1 DEF Sees
<1>7. CASE WriteTargets(e)
  <2>1. /\ job'[e].pc = "silver"
        /\ job'[e].next = job[e].next /\ UNCHANGED <<gold, holdings>>
        /\ job[e].pc = "normalise"
    BY <1>0, <1>7, JobReadsAt DEF WriteTargets, JobMoves, JobAt
  <2>2. events'.of = job[e].held.of /\ events'.missed = job[e].held.missed
    BY <1>0, <1>7 DEF WriteTargets, Job, Table
  <2>3. Shows(events', brokerEvents)
    BY <1>0, <2>1, <2>2 DEF Sees, Shows
  <2> QED
    BY <1>0, <2>1, <2>3 DEF Sees
<1>8. CASE ValidateSilver(e)
  <2>1. /\ job'[e].pc = "build"
        /\ job'[e].next = job[e].next /\ UNCHANGED <<gold, holdings, events>>
        /\ job[e].pc = "silver"
    BY <1>0, <1>8, JobReadsAt DEF ValidateSilver, JobMoves, JobAt, tables
  <2>2. job'[e].next = 1 /\ \A n \in Gold : ~(n < 1)
    BY <1>0, <2>1, GoldIs DEF Sees
  <2> QED
    BY <1>0, <2>1, <2>2 DEF Sees
<1>9. CASE Build(e)
  <2>1. /\ job'[e].pc = "write" /\ job'[e].held = SourceOf(job[e].next)
        /\ job'[e].next = job[e].next /\ job'[e].broken = job[e].broken
        /\ UNCHANGED <<gold, holdings, events>>
        /\ job[e].pc = "build"
    BY <1>0, <1>9, ReadsAt DEF Build, JobAt
  <2>2. Shows(SourceOf(job[e].next), Now(job[e].next))
    BY <1>0, <2>1 DEF SourceOf, Now, Sees
  <2>3. Shows(job'[e].held, IF job'[e].next \in EventBuilder THEN brokerEvents' ELSE snapshot')
    BY <1>0, <2>1, <2>2 DEF Now
  <2>4. /\ Shows(holdings', snapshot') /\ Shows(events', brokerEvents')
        /\ ~job[e].broken => \A n \in Gold : n < job[e].next => Shows(gold'[n], Now(n)')
    BY <1>0, <1>n, <2>1 DEF Sees
  <2> QED
    BY <2>1, <2>3, <2>4 DEF Sees, Now
<1>10. CASE WriteGold(e)
  <2>1. /\ job[e].pc = "write" /\ gold' = [gold EXCEPT ![job[e].next] = job[e].held]
        /\ UNCHANGED <<holdings, events>> /\ NextBuilder(e, FALSE)
    BY <1>10 DEF WriteGold, JobAt
  <2>2. /\ job[e].next \in 1 .. 4 /\ job[e].broken \in BOOLEAN
        /\ Shows(job[e].held, Now(job[e].next))
    BY <1>0, <2>1, GoldIs DEF Job, Sees
  <2>3. /\ Shows(gold'[job[e].next], Now(job[e].next))
        /\ \A n \in Gold : n # job[e].next => gold'[n] = gold[n]
    BY <1>0, <2>1, <2>2, GoldIs
  <2>4. LET last == job[e].next = 4 IN
        /\ job'[e].pc = IF last THEN "check" ELSE "build"
        /\ job'[e].next = IF last THEN 1 ELSE job[e].next + 1
        /\ job'[e].broken = job[e].broken
    BY <1>0, <2>1, <2>2, NextBuilderAt, GoldIs
  <2>5. ~job[e].broken => \A n \in Gold : n <= job[e].next => Shows(gold'[n], Now(n))
    BY <1>0, <2>1, <2>2, <2>3, GoldIs DEF Sees
  <2>6. Sees(e)'
    <3>1. Shows(holdings', snapshot') /\ Shows(events', brokerEvents')
      BY <1>0, <2>1 DEF Sees
    <3>2. CASE job[e].next = 4
      <4>1. job'[e].pc = "check" /\ job'[e].next = 1 /\ job'[e].broken = job[e].broken
        BY <2>4, <3>2
      <4>2. ~job[e].broken => \A n \in Gold : Shows(gold'[n], Now(n)')
        BY <2>5, <3>2, <1>n, GoldIs
      <4> QED
        BY <3>1, <4>1, <4>2 DEF Sees
    <3>3. CASE job[e].next # 4
      <4>1. job'[e].pc = "build" /\ job'[e].next = job[e].next + 1 /\ job'[e].broken = job[e].broken
        BY <2>4, <3>3
      <4>2. ~job[e].broken => \A n \in Gold : n < job[e].next + 1 => Shows(gold'[n], Now(n)')
        BY <2>2, <2>5, <1>n, GoldIs
      <4> QED
        BY <3>1, <4>1, <4>2 DEF Sees
    <3> QED
      BY <3>2, <3>3
  <2> QED
    BY <2>3, <2>6
<1>11. CASE BuilderFails(e)
  <2>1. /\ job[e].pc \in {"build", "write"} /\ UNCHANGED <<gold, holdings, events>>
        /\ NextBuilder(e, TRUE)
    BY <1>11 DEF BuilderFails, JobAt, tables
  <2>2. /\ (job'[e].pc = "check" /\ job'[e].next = 1) \/ job'[e].pc = "build"
        /\ job'[e].broken = TRUE
    BY <1>0, <2>1, NextBuilderAt
  <2> QED
    BY <1>0, <2>1, <2>2 DEF Sees
<1>12. CASE Succeeds(e) \/ JobFails(e)
  BY <1>0, <1>12 DEF Succeeds, JobFails
<1> QED
  BY <1>2, <1>3, <1>4, <1>5, <1>6, <1>7, <1>8, <1>9, <1>10, <1>11, <1>12 DEF JobStep

LEMMA JobStepSerial ==
  ASSUME Serial, NEW e \in Executions, JobStep(e), IInv'
  PROVE  Serial' /\ AsNew
<1>0. /\ status[e] = "consolidate" /\ UNCHANGED <<task, silver>> /\ TypeOK
      /\ \A f \in Executions : f # e => job'[f] = job[f] /\ status'[f] = status[f]
      /\ status'[e] \in {"consolidate", "succeeded", "failed"}
      /\ gold \in [Gold -> Table] /\ gold' \in [Gold -> Table]
      /\ snapshot \in Content /\ brokerEvents \in Content
      /\ task \in [Executions -> [Connectors -> Task]]
  BY JobStepKeeps DEF Serial, IInv, TypeOK, Task
<1>1. \A f \in Executions : AtWork(f)' => AtWork(f)
  BY <1>0 DEF AtWork, LiveTasks
<1>2. Alone'
  BY <1>1 DEF Serial, Alone
<1>3. \A c \in Connectors : task[e][c].pc \notin Live
  BY <1>0 DEF Serial, TasksOfTheMap
<1>4. TasksOfTheMap' /\ StoredSoFar' /\ SilverFetched'
  <2>1. TasksOfTheMap'
    BY <1>0, <1>3 DEF Serial, TasksOfTheMap
  <2> QED
    BY <1>0, <2>1 DEF Serial, StoredSoFar, SilverFetched, silver
<1>5. \A f \in Executions : status'[f] = "consolidate" => f = e
  BY <1>0 DEF Serial, Alone, AtWork
<1>n. \A n \in Gold : Now(n)' = Now(n)
  BY <1>0 DEF Now, silver
<1>g. \A n \in Gold, c \in Connectors :
         gold[n].of[c] \in Nat /\ gold'[n].of[c] \in Nat /\ Now(n)[c] \in Nat
  BY <1>0 DEF Table, Content, Now
<1>6. \A n \in Gold : gold'[n] = gold[n] \/ Shows(gold'[n], Now(n))
  <2>1. CASE status'[e] = "consolidate"
    BY <2>1, JobSeesOn
  <2>2. CASE status'[e] # "consolidate"
    <3>1. Succeeds(e) \/ JobFails(e)
      BY <2>2, <1>0 DEF JobStep, ReadSnapshots, WriteHoldings, ReadEventTables, WriteEvents,
            ReadForTargets, WriteTargets, ValidateSilver, Build, WriteGold, BuilderFails,
            JobReads
    <3> QED
      BY <3>1 DEF Succeeds, JobFails, tables
  <2> QED
    BY <2>1, <2>2
<1>a. AsNew
  <2> SUFFICES ASSUME NEW n \in Gold, NEW c \in Connectors, c \notin gold'[n].missed
               PROVE  gold'[n].of[c] >= gold[n].of[c]
    BY DEF AsNew
  <2>1. gold[n].of[c] <= Now(n)[c]
    BY DEF Serial, GoldBehind
  <2> QED
    BY <1>6, <1>g, <2>1 DEF Shows
<1>7. JobsSee'
  <2> SUFFICES ASSUME NEW f \in Executions
               PROVE  /\ status'[f] \in {"idle", "map"} =>
                             job'[f].pc = "snapshots" /\ job'[f].next = 1
                      /\ status'[f] = "consolidate" => Sees(f)'
    BY DEF JobsSee
  <2>1. CASE f = e
    BY <1>0, <2>1, JobSeesOn
  <2>2. CASE f # e
    BY <1>0, <1>5, <2>2 DEF Serial, JobsSee
  <2> QED
    BY <2>1, <2>2
<1>8. GoldBehind'
  <2>1. \A n \in Gold : Now(n) \in Content
    BY <1>0 DEF Now
  <2> QED
    BY <1>6, <1>n, <2>1, ShownIsBehind DEF Serial, GoldBehind
<1>9. status'[e] = "succeeded" => gold' = gold /\ \A n \in Gold : Shows(gold[n], Now(n))
  <2> SUFFICES ASSUME status'[e] = "succeeded"
               PROVE  gold' = gold /\ \A n \in Gold : Shows(gold[n], Now(n))
    OBVIOUS
  <2>1. Succeeds(e)
    <3>1. status \in [Executions -> Status]
      BY <1>0 DEF TypeOK
    <3> QED
      BY <3>1, <1>0 DEF JobStep, ReadSnapshots, WriteHoldings, ReadEventTables, WriteEvents,
          ReadForTargets, WriteTargets, ValidateSilver, Build, WriteGold, BuilderFails,
          JobFails, JobReads
  <2>2. Sees(e) /\ job[e].pc = "check" /\ ~job[e].broken /\ gold' = gold
    BY <1>0, <2>1 DEF Succeeds, JobAt, Serial, JobsSee, tables
  <2> QED
    BY <2>2 DEF Sees
<1>10. Settled'
  <2> SUFFICES ASSUME \A f \in Executions : status'[f] \in {"idle", "succeeded"},
                      NEW n \in Gold, NEW c \in Connectors
               PROVE  gold'[n].of[c] >= Now(n)'[c] \/ c \in gold'[n].missed
    BY DEF Settled
  <2>1. status'[e] = "succeeded"
    BY <1>0
  <2>2. gold'[n].of[c] = Now(n)[c] \/ c \in gold'[n].missed
    BY <2>1, <1>9 DEF Shows
  <2> QED
    BY <2>2, <1>n, <1>g
<1>11. GoldHoldsItsRun'
  <2> SUFFICES ASSUME NEW f \in Executions, status'[f] = "succeeded",
                      NEW n \in Gold, NEW c \in Listed[f]
               PROVE  gold'[n].of[c] >= task'[f][c].fetched \/ c \in gold'[n].missed
    BY DEF GoldHoldsItsRun
  <2>1. c \in Connectors /\ task[f][c].fetched \in Nat /\ task' = task
    BY ListedAreRegistered, <1>0 DEF Task
  <2>2. status[f] \in {"consolidate", "succeeded"}
    BY <1>0
  <2>3. task[f][c].pc = "green"
    BY <2>2 DEF Serial, IInv, GreenBefore
  <2>4. task[f][c].fetched <= Now(n)[c]
    BY <2>1, <2>3 DEF Serial, StoredSoFar, Now
  <2>5. CASE Shows(gold'[n], Now(n))
    BY <2>1, <2>4, <2>5, <1>g DEF Shows
  <2>6. CASE ~Shows(gold'[n], Now(n))
    <3>1. gold'[n] = gold[n] /\ f # e
      BY <1>6, <1>9, <2>6
    <3> QED
      BY <3>1, <2>1, <1>0 DEF Serial, GoldHoldsItsRun
  <2> QED
    BY <2>5, <2>6
<1> QED
  BY <1>2, <1>4, <1>7, <1>8, <1>10, <1>11, <1>a DEF Serial

LEMMA InitSerial == Init => Serial
<1> SUFFICES ASSUME Init PROVE Serial
  OBVIOUS
<1>1. IInv
  BY InitEstablishes
<1>2. Alone /\ TasksOfTheMap
  BY DEF Init, Alone, TasksOfTheMap, AtWork, LiveTasks, NewTask, Live
<1>3. StoredSoFar /\ SilverFetched
  BY DEF Init, StoredSoFar, SilverFetched, NewTask, NoRows, Live
<1>4. JobsSee
  BY DEF Init, JobsSee, NewJob
<1>5. GoldBehind /\ Settled /\ GoldHoldsItsRun
  BY DEF Init, GoldBehind, Settled, GoldHoldsItsRun, Now, NoTable, NoRows
<1> QED
  BY <1>1, <1>2, <1>3, <1>4, <1>5 DEF Serial

\* A step with one execution at a time keeps what was said, and sets no gold back.
LEMMA StepSerial ==
  ASSUME ~Overlap, Serial, [Next]_vars
  PROVE  Serial' /\ AsNew
<1>0. /\ IInv' /\ TypeOK /\ gold \in [Gold -> Table]
      /\ status \in [Executions -> Status]
  BY StepPreserves DEF Serial, IInv, TypeOK
<1>g. ASSUME gold' = gold
      PROVE  AsNew
  <2>1. \A n \in Gold, c \in Connectors : gold[n].of[c] \in Nat
    BY <1>0 DEF Table, Content
  <2> QED
    BY <1>g, <2>1 DEF AsNew
<1>1. CASE UNCHANGED vars
  <2>1. /\ Alone' /\ TasksOfTheMap' /\ StoredSoFar' /\ SilverFetched' /\ JobsSee'
        /\ GoldBehind' /\ Settled' /\ GoldHoldsItsRun'
    BY <1>1 DEF vars, silver, tables, Serial, Alone, AtWork, LiveTasks, TasksOfTheMap,
       StoredSoFar, SilverFetched, JobsSee, Sees, GoldBehind, Settled, GoldHoldsItsRun, Now
  <2> QED
    BY <1>0, <1>1, <1>g, <2>1 DEF Serial, vars, tables
<1>2. CASE Next
  <2> PICK e \in Executions : Start(e) \/ Proceed(e)
    BY <1>2 DEF Next
  <2>1. CASE Start(e)
    <3>1. /\ status[e] = "idle" /\ \A f \in Executions : ~AtWork(f)
          /\ status' = [status EXCEPT ![e] = "map"] /\ UNCHANGED <<task, job, silver, tables>>
      BY <2>1 DEF Start
    <3>2. \A f \in Executions : AtWork(f)' => f = e
      BY <3>1, <1>0 DEF AtWork, LiveTasks
    <3>3. Alone'
      BY <3>2 DEF Alone
    <3>4. TasksOfTheMap' /\ StoredSoFar' /\ SilverFetched'
      BY <3>1, <1>0 DEF Serial, TasksOfTheMap, StoredSoFar, SilverFetched, silver
    <3>5. JobsSee'
      BY <3>1, <1>0 DEF Serial, JobsSee, AtWork
    <3>6. GoldBehind' /\ Settled' /\ GoldHoldsItsRun'
      BY <3>1, <1>0
         DEF Serial, GoldBehind, Settled, GoldHoldsItsRun, Now, silver, tables
    <3> QED
      BY <1>0, <1>g, <3>1, <3>3, <3>4, <3>5, <3>6 DEF Serial, tables
  <2>2. CASE MapDone(e)
    <3>1. /\ status[e] = "map" /\ \A c \in Listed[e] : task[e][c].pc = "green"
          /\ status' = [status EXCEPT ![e] = "consolidate"]
          /\ UNCHANGED <<task, job, silver, tables>>
      BY <2>2 DEF MapDone
    <3>2. \A f \in Executions : AtWork(f)' => AtWork(f)
      BY <3>1, <1>0 DEF AtWork, LiveTasks
    <3>3. Alone'
      BY <3>2 DEF Serial, Alone
    <3>4. \A c \in Connectors : task[e][c].pc \notin Live
      BY <3>1 DEF Serial, TasksOfTheMap, Live
    <3>5. TasksOfTheMap' /\ StoredSoFar' /\ SilverFetched'
      BY <3>1, <3>4, <1>0 DEF Serial, TasksOfTheMap, StoredSoFar, SilverFetched, silver
    <3>6. Sees(e)'
      BY <3>1, <1>0 DEF Serial, JobsSee, Sees
    <3>7. JobsSee'
      <4>1. \A f \in Executions : f # e => status'[f] # "consolidate"
        BY <3>1, <1>0 DEF Serial, Alone, AtWork
      <4> QED
        BY <3>1, <3>6, <4>1, <1>0 DEF Serial, JobsSee
    <3>8. GoldBehind' /\ Settled' /\ GoldHoldsItsRun'
      BY <3>1, <1>0
         DEF Serial, GoldBehind, Settled, GoldHoldsItsRun, Now, silver, tables
    <3> QED
      BY <1>0, <1>g, <3>1, <3>3, <3>5, <3>7, <3>8 DEF Serial, tables
  <2>3. CASE JobStep(e)
    BY <1>0, <2>3, JobStepSerial
  <2>4. CASE \E c \in Connectors : TaskStep(e, c)
    <3> PICK c \in Connectors : TaskStep(e, c)
      BY <2>4
    <3>1. gold' = gold
      BY TaskEffects DEF Moved, tables
    <3> QED
      BY <1>0, <1>g, <3>1, TaskStepSerial
  <2> QED
    BY <2>1, <2>2, <2>3, <2>4 DEF Proceed
<1> QED
  BY <1>1, <1>2

\* With one execution at a time, a green one leaves in every gold table at least what
\* its own connectors stored, and nothing later takes it away, unless a consolidation
\* could not read the connector's table and went on without it.
THEOREM GreenGoldHolds ==
  ASSUME ~Overlap PROVE Spec => []GoldHoldsItsRun
<1>1. Serial => GoldHoldsItsRun
  BY DEF Serial
<1>2. Serial /\ [Next]_vars => Serial'
  BY StepSerial
<1> QED
  BY InitSerial, <1>1, <1>2, PTL DEF Spec

\* With one execution at a time and none failed, gold shows all that silver holds, of
\* the connectors no execution listed too (cmd_consolidate reads every connector),
\* but for the tables it could not read.
THEOREM GoldShowsAllSilver ==
  ASSUME ~Overlap PROVE Spec => []GoldShowsSilver
<1>1. Serial => GoldShowsSilver
  BY DEF Serial, Settled, GoldShowsSilver, Now
<1>2. Serial /\ [Next]_vars => Serial'
  BY StepSerial
<1> QED
  BY InitSerial, <1>1, <1>2, PTL DEF Spec

\* With one execution at a time no gold table goes back to an older fetch of a
\* connector, though builders fail and consolidations die half-way, unless the
\* connector's table could not be read.
THEOREM GoldGetsNoOlder ==
  ASSUME ~Overlap PROVE Spec => GoldNeverOlder
<1>1. Serial /\ [Next]_vars => Serial' /\ [AsNew]_vars
  BY StepSerial
<1> QED
  BY InitSerial, <1>1, PTL DEF Spec, GoldNeverOlder, AsNew

-----------------------------------------------------------------------------
(* FullCommand: the phases of the main thread say what the pool holds      *)
(* meanwhile, and what the waiting has added up to.                        *)

AtTrigger == {"idle", "finding", "resolving", "starting", "polling", "sleeping",
              "explaining"}

\* The pool, by the main thread's place.
Pool ==
    /\ main \in AtTrigger => In({"new"}) = Registry /\ sampler = "off"
    /\ main \in AtTrigger \cup {"submitting", "collecting"} => ~errors /\ seen \subseteq In({"zero"})
    /\ main \in {"collecting", "leaving"} => In({"new"}) = {}
    /\ main \in {"leaving", "joining", "consolidating"} /\ ~errors => In({"zero"}) = Registry
    /\ main \in {"joining", "consolidating"} => In({"queued", "running", "new"}) = {}
    /\ main = "consolidating" => ~errors /\ sampler = "off"
    /\ main = "returned" => In({"queued", "running"}) = {} /\ sampler = "off"
    /\ exit = "zero" /\ execution = "none" => In({"zero"}) = Registry

\* The execution and the waiting, by the main thread's place.
Waiting ==
    /\ main = "returned" <=> exit # "none"
    /\ main \in AtTrigger \ {"idle"} \/ exit # "none" \/ execution = "none"
    /\ main \in {"idle", "submitting", "collecting", "leaving", "joining", "consolidating"} => ~wait
    /\ main \in {"polling", "sleeping", "explaining"} => wait /\ execution # "none"
    /\ exit = "zero" /\ wait => execution = "SUCCEEDED"
    /\ main \in {"polling", "sleeping"} => elapsed <= Timeout
    /\ main \in Main \ {"polling", "sleeping", "explaining", "returned"} => elapsed = 0 /\ polls = 0
    /\ main = "polling" => elapsed = polls * Interval
    /\ main = "sleeping" => elapsed = (polls - 1) * Interval
    /\ exit = "timeout" => (polls - 1) * Interval <= Timeout /\ Timeout < polls * Interval

CommandInv == CommandTypeOK /\ Pool /\ Waiting

LEMMA CommandInitEstablishes == CommandInit => CommandInv
<1> SUFFICES ASSUME CommandInit PROVE CommandInv
  OBVIOUS
<1>1. CommandTypeOK
  <2>1. wait \in BOOLEAN /\ errors \in BOOLEAN
    BY Zenon DEF CommandInit
  <2>2. future \in [Registry -> Gone \cup {"new", "queued", "running"}]
    BY DEF CommandInit
  <2> QED
    BY <2>1, <2>2 DEF CommandInit, CommandTypeOK, Main
<1>2. Pool
  BY DEF CommandInit, Pool, AtTrigger, In
<1>3. Waiting
  BY WaitsAreTimes DEF CommandInit, Waiting, AtTrigger
<1> QED
  BY <1>1, <1>2, <1>3 DEF CommandInv

\* Nothing the threads and the main thread do for the connectors touches the execution.
LEMMA DockerStep ==
  CommandInv /\ (StartDocker \/ Threads \/ SamplerDies \/ Docker) => CommandInv'
<1> SUFFICES ASSUME CommandInv, StartDocker \/ Threads \/ SamplerDies \/ Docker PROVE CommandInv'
  OBVIOUS
<1> USE DEF CommandInv, CommandTypeOK, Main, AtTrigger, In, Goes, Returns, Gone, Ended
<1>1. CASE StartDocker
  BY <1>1 DEF StartDocker, Pool, Waiting, remote
<1>2. ASSUME NEW c \in Registry, Submit(c) PROVE CommandInv'
  BY <1>2 DEF Submit, Pool, Waiting, remote
<1>3. ASSUME NEW c \in Registry, Run(c) PROVE CommandInv'
  BY <1>3 DEF Run, Pool, Waiting, remote
<1>4. ASSUME NEW c \in Registry, RunEnds(c) PROVE CommandInv'
  BY <1>4 DEF RunEnds, Pool, Waiting, remote
<1>5. ASSUME NEW c \in Registry, Collect(c) PROVE CommandInv'
  BY <1>5 DEF Collect, Pool, Waiting, remote
<1>6. CASE LeavePool
  BY <1>6 DEF LeavePool, Pool, Waiting, remote
<1>7. CASE SamplerEnds \/ SamplerDies
  BY <1>7 DEF SamplerEnds, SamplerDies, Pool, Waiting, remote
<1>8. CASE ConnectorsDone
  BY <1>8 DEF ConnectorsDone, Pool, Waiting, docker, remote
<1>9. CASE Consolidated
  BY <1>9 DEF Consolidated, Pool, Waiting, docker, remote
<1>10. CASE Threads
  BY <1>3, <1>4, <1>7, <1>10 DEF Threads
<1>11. CASE Docker
  BY <1>2, <1>5, <1>6, <1>8, <1>9, <1>11 DEF Docker
<1> QED
  BY <1>1, <1>7, <1>10, <1>11

\* Nor does waiting for an execution touch the connectors.
LEMMA RemoteStep ==
  CommandInv /\ (StartTrigger \/ Remote \/ ExecutionEnds) => CommandInv'
<1> SUFFICES ASSUME CommandInv, StartTrigger \/ Remote \/ ExecutionEnds PROVE CommandInv'
  OBVIOUS
<1> USE WaitsAreTimes DEF CommandInv, CommandTypeOK, Main, AtTrigger, In, Goes, Returns, Terminal
<1>1. CASE StartTrigger
  BY <1>1 DEF StartTrigger, Pool, Waiting, docker, remote
<1>2. CASE FindStateMachine \/ ResolveTasks
  BY <1>2 DEF FindStateMachine, ResolveTasks, Pool, Waiting, docker, remote
<1>3. CASE StartExecution
  BY <1>3 DEF StartExecution, Pool, Waiting, docker
<1>4. CASE ExecutionEnds
  BY <1>4 DEF ExecutionEnds, Pool, Waiting, docker
<1>5. CASE Poll
  BY <1>5 DEF Poll, Pool, Waiting, docker
<1>6. CASE PollFails \/ Explain
  BY <1>6 DEF PollFails, Explain, Pool, Waiting, docker, remote
<1>7. CASE Sleep
  BY <1>7 DEF Sleep, Pool, Waiting, docker
<1> QED
  BY <1>1, <1>2, <1>3, <1>4, <1>5, <1>6, <1>7 DEF Remote

LEMMA CommandStepPreserves == CommandInv /\ [CommandNext]_commandVars => CommandInv'
<1>1. ASSUME CommandInv, UNCHANGED commandVars PROVE CommandInv'
  BY <1>1 DEF commandVars, docker, remote, CommandInv, CommandTypeOK, Pool, Waiting, In
<1> QED
  BY <1>1, DockerStep, RemoteStep DEF CommandNext

\* Types.
THEOREM CommandTypes == CommandSpec => []CommandTypeOK
<1>1. CommandInv => CommandTypeOK
  BY DEF CommandInv
<1> QED
  BY CommandInitEstablishes, CommandStepPreserves, <1>1, PTL DEF CommandSpec

\* Neither the consolidation nor the exit of `full` meets a connector at work.
THEOREM NothingBeside == CommandSpec => []NothingRunsBeside
<1>1. CommandInv => NothingRunsBeside
  BY DEF CommandInv, Pool, NothingRunsBeside, In, Gone, Ended
<1> QED
  BY CommandInitEstablishes, CommandStepPreserves, <1>1, PTL DEF CommandSpec

\* Consolidation, and an exit with 0, follow only on success of every connector.
THEOREM GreenIsAll == CommandSpec => []GreenMeansAll
<1>1. CommandInv => GreenMeansAll
  BY DEF CommandInv, Pool, GreenMeansAll
<1> QED
  BY CommandInitEstablishes, CommandStepPreserves, <1>1, PTL DEF CommandSpec

\* For every timeout and interval --wait reports the execution's end, or has really
\* waited to the last poll.
THEOREM WaitIsTrue == CommandSpec => []WaitTellsTruth
<1>1. CommandInv => WaitTellsTruth
  BY DEF CommandInv, Waiting, WaitTellsTruth
<1> QED
  BY CommandInitEstablishes, CommandStepPreserves, <1>1, PTL DEF CommandSpec
=============================================================================
