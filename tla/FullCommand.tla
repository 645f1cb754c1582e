---------------------------- MODULE FullCommand ----------------------------
(***************************************************************************)
(* The `full` command.  In docker mode it runs every connector in a thread *)
(* of its own and consolidates when all of them ended well; in staging and *)
(* prod it starts an execution of the state machine and, with --wait,      *)
(* polls it until it ends or the patience does.                            *)
(*                                                                         *)
(* What a connector does is in Connector, what an execution and the        *)
(* consolidation do is in Orchestrator.                                    *)
(***************************************************************************)
EXTENDS Integers

CONSTANTS
    Registry,   \* the registered connectors
    Timeout,      \* how long --wait waits
    Interval      \* between two polls

ASSUME WaitsAreTimes == Timeout \in Nat /\ Interval \in Nat \ {0}

VARIABLES
    main,       \* what the command is doing
    exit,       \* its exit code, once it returned; "timeout" is the 1 of a TimeoutError
    wait,       \* --wait was given
    future,     \* the connector's task in the thread pool
    seen,       \* the tasks as_completed has yielded
    errors,     \* a connector failed
    sampler,    \* the memory sampler's thread
    execution,  \* the execution that was started
    elapsed,    \* time slept between polls
    polls       \* polls answered

docker == <<future, seen, errors, sampler>>
remote == <<execution, elapsed, polls>>
commandVars == <<main, exit, wait, docker, remote>>

Main == {"idle", "submitting", "collecting", "leaving", "joining", "consolidating",
         "finding", "resolving", "starting",
         "polling", "sleeping", "explaining", "returned"}
Terminal == {"SUCCEEDED", "FAILED", "TIMED_OUT", "ABORTED"}   \* TERMINAL_STATUSES

Ended == {"zero", "nonzero", "raised"}
Gone == Ended \cup {"cancelled"}
In(states) == {c \in Registry : future[c] \in states}

Returns(code) == main' = "returned" /\ exit' = code
Goes(to) == main' = to /\ UNCHANGED exit

---------------------------------------------------------------------------
(* docker: _run_connectors_parallel, then the consolidation.               *)

\* Without a connector nothing is started; without its secrets the command dies.
StartDocker ==
    /\ main = "idle"
    /\ \/ Registry # {} /\ Goes("submitting") /\ sampler' = "on"
       \/ Registry = {} /\ Goes("consolidating") /\ UNCHANGED sampler
       \/ Returns("nonzero") /\ UNCHANGED sampler
    /\ UNCHANGED <<wait, future, seen, errors, remote>>

\* The pool has a worker for each task, so one waits only until its worker has come up.
Submit(c) ==
    /\ main = "submitting"
    /\ future[c] = "new"
    /\ future' = [future EXCEPT ![c] = "queued"]
    /\ Goes(IF In({"new"}) = {c} THEN "collecting" ELSE "submitting")
    /\ UNCHANGED <<wait, seen, errors, sampler, remote>>

Run(c) ==
    /\ future[c] = "queued"
    /\ future' = [future EXCEPT ![c] = "running"]
    /\ UNCHANGED <<main, exit, wait, seen, errors, sampler, remote>>

RunEnds(c) ==
    /\ future[c] = "running"
    /\ \E how \in Ended : future' = [future EXCEPT ![c] = how]
    /\ UNCHANGED <<main, exit, wait, seen, errors, sampler, remote>>

\* Faulty: an exception of a connector is looked for only in its exit code.
CollectCodes(c) ==
    /\ main = "collecting"
    /\ future[c] \in Ended /\ c \notin seen
    /\ seen' = seen \cup {c}
    /\ errors' = (future[c] = "nonzero")
    /\ future' = [d \in Registry |->
                    IF errors' /\ future[d] = "queued" THEN "cancelled" ELSE future[d]]
    /\ Goes(IF errors' \/ seen' = Registry THEN "leaving" ELSE "collecting")
    /\ UNCHANGED <<wait, sampler, remote>>

\* The first failure cancels the tasks that have not begun; the others run on.
Collect(c) ==
    /\ main = "collecting"
    /\ future[c] \in Ended /\ c \notin seen
    /\ seen' = seen \cup {c}
    /\ errors' = (future[c] # "zero")
    /\ future' = [d \in Registry |->
                    IF errors' /\ future[d] = "queued" THEN "cancelled" ELSE future[d]]
    /\ Goes(IF errors' \/ seen' = Registry THEN "leaving" ELSE "collecting")
    /\ UNCHANGED <<wait, sampler, remote>>

\* Faulty: the sampler is joined without being told to stop.
LeavePoolUnstopped ==
    /\ main = "leaving"
    /\ In(Gone) = Registry
    /\ Goes("joining")
    /\ UNCHANGED <<wait, docker, remote>>

\* Faulty: the pool is left without waiting for its threads.
LeavePoolAtOnce ==
    /\ main = "leaving"
    /\ Goes("joining")
    /\ sampler' = IF sampler = "on" THEN "stopping" ELSE sampler
    /\ UNCHANGED <<wait, future, seen, errors, remote>>

\* The pool's block ends when every task did, and then the sampler is told to stop.
LeavePool ==
    /\ main = "leaving"
    /\ In(Gone) = Registry
    /\ Goes("joining")
    /\ sampler' = IF sampler = "on" THEN "stopping" ELSE sampler
    /\ UNCHANGED <<wait, future, seen, errors, remote>>

SamplerEnds ==
    /\ sampler = "stopping"
    /\ sampler' = "off"
    /\ UNCHANGED <<main, exit, wait, future, seen, errors, remote>>

\* It stops by itself when the process can no longer be sampled.
SamplerDies ==
    /\ sampler = "on"
    /\ sampler' = "off"
    /\ UNCHANGED <<main, exit, wait, future, seen, errors, remote>>

ConnectorsDone ==
    /\ main = "joining"
    /\ sampler = "off"
    /\ IF errors THEN Returns("nonzero") ELSE Goes("consolidating")
    /\ UNCHANGED <<wait, docker, remote>>

Consolidated ==
    /\ main = "consolidating"
    /\ \E code \in {"zero", "nonzero"} : Returns(code)
    /\ UNCHANGED <<wait, docker, remote>>

---------------------------------------------------------------------------
(* staging and prod: _trigger_sfn_execution.                               *)

\* --with-xtb and --xtb-file are refused, and so is a caller without credentials.
StartTrigger ==
    /\ main = "idle"
    /\ wait' \in BOOLEAN
    /\ Goes("finding") \/ Returns("nonzero")
    /\ UNCHANGED <<docker, remote>>

\* No state machine of that name, or no permission to look.
FindStateMachine ==
    /\ main = "finding"
    /\ Goes("resolving") \/ Returns("nonzero")
    /\ UNCHANGED <<wait, docker, remote>>

\* The newest task definitions of the default connectors and of the consolidation.
ResolveTasks ==
    /\ main = "resolving"
    /\ Goes("starting") \/ Returns("nonzero")
    /\ UNCHANGED <<wait, docker, remote>>

\* The call may fail, also after it took effect.
StartExecution ==
    /\ main = "starting"
    /\ \/ execution' = "RUNNING" /\ (IF wait THEN Goes("polling") ELSE Returns("zero"))
       \/ execution' \in {"none", "RUNNING"} /\ Returns("nonzero")
    /\ UNCHANGED <<wait, docker, elapsed, polls>>

\* The state machine has no timeout: TIMED_OUT and ABORTED come from outside.
ExecutionEnds ==
    /\ execution = "RUNNING"
    /\ execution' \in Terminal
    /\ UNCHANGED <<main, exit, wait, docker, elapsed, polls>>

Poll ==
    /\ main = "polling"
    /\ polls' = polls + 1
    /\ \/ execution = "SUCCEEDED" /\ Returns("zero")
       \/ execution \in Terminal \ {"SUCCEEDED"} /\ Goes("explaining")
       \/ execution = "RUNNING" /\ Goes("sleeping")
    /\ UNCHANGED <<wait, docker, execution, elapsed>>

\* An error of describe_execution is not caught.
PollFails ==
    /\ main = "polling"
    /\ Returns("nonzero")
    /\ UNCHANGED <<wait, docker, remote>>

\* Faulty: the last poll, at the timeout itself, is left out.
SleepShort ==
    /\ main = "sleeping"
    /\ elapsed' = elapsed + Interval
    /\ IF elapsed' < Timeout THEN Goes("polling") ELSE Returns("timeout")
    /\ UNCHANGED <<wait, docker, execution, polls>>

Sleep ==
    /\ main = "sleeping"
    /\ elapsed' = elapsed + Interval
    /\ IF elapsed' <= Timeout THEN Goes("polling") ELSE Returns("timeout")
    /\ UNCHANGED <<wait, docker, execution, polls>>

\* fetch_failure_details is printed, or raises: the exit code is the same.
Explain ==
    /\ main = "explaining"
    /\ Returns("nonzero")
    /\ UNCHANGED <<wait, docker, remote>>

---------------------------------------------------------------------------
CommandInit ==
    /\ main = "idle" /\ exit = "none" /\ wait = FALSE
    /\ future = [c \in Registry |-> "new"]
    /\ seen = {} /\ errors = FALSE /\ sampler = "off"
    /\ execution = "none" /\ elapsed = 0 /\ polls = 0

Threads == SamplerEnds \/ \E c \in Registry : Run(c) \/ RunEnds(c)
Docker ==
    \/ \E c \in Registry : Submit(c) \/ Collect(c)
    \/ LeavePool \/ ConnectorsDone \/ Consolidated
Remote ==
    \/ FindStateMachine \/ ResolveTasks \/ StartExecution
    \/ Poll \/ PollFails \/ Sleep \/ Explain

CommandNext ==
    \/ StartDocker \/ StartTrigger
    \/ Threads \/ SamplerDies \/ Docker
    \/ Remote \/ ExecutionEnds

CommandSpec == CommandInit /\ [][CommandNext]_commandVars

\* Threads are scheduled and their requests end by their timeouts; the command goes
\* on.  The execution need not end.
FairCommandSpec ==
    /\ CommandSpec
    /\ WF_commandVars(Threads) /\ WF_commandVars(Docker) /\ WF_commandVars(Remote)

---------------------------------------------------------------------------
(* Properties.                                                             *)

CommandTypeOK ==
    /\ main \in Main /\ exit \in {"none", "zero", "nonzero", "timeout"} /\ wait \in BOOLEAN
    /\ future \in [Registry -> Gone \cup {"new", "queued", "running"}]
    /\ seen \subseteq Registry /\ errors \in BOOLEAN
    /\ sampler \in {"off", "on", "stopping"}
    /\ execution \in Terminal \cup {"none", "RUNNING"}
    /\ elapsed \in Nat /\ polls \in Nat

\* Consolidation and the exit meet no connector at work: a connector that was running
\* when another failed is waited for, and none begins after the failure was seen.
NothingRunsBeside ==
    main \in {"consolidating", "returned"} =>
        In({"queued", "running"}) = {} /\ sampler = "off"

\* A docker run exits with 0, and consolidates at all, only when every connector
\* ended with 0: neither an exit code nor an exception of one is lost.
GreenMeansAll ==
    (main = "consolidating" \/ (exit = "zero" /\ execution = "none")) =>
        In({"zero"}) = Registry

\* With --wait, 0 means that the execution succeeded; and the command gives up only
\* when the execution was still running at every poll up to and including the one at
\* the timeout.
WaitTellsTruth ==
    /\ (exit = "zero" /\ wait) => execution = "SUCCEEDED"
    /\ exit = "timeout" =>
           (polls - 1) * Interval <= Timeout /\ Timeout < polls * Interval

\* The command ends, though the execution may not.
CommandEnds == main # "idle" ~> main = "returned"
=============================================================================
