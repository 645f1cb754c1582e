----------------------------- MODULE FlexReport -----------------------------
(***************************************************************************)
(* One report from the IBKR Flex Web Service: SendRequest hands out a      *)
(* reference code, GetStatement is polled until the report is there, with  *)
(* a delay before the first poll and between polls.  The service generates *)
(* the report meanwhile, and may answer a poll with anything that is not a *)
(* report, before and after it is ready.                                   *)
(***************************************************************************)
EXTENDS Integers

CONSTANTS
    Retries,       \* polls of one report
    Delay,         \* sleep between two polls
    InitialDelay   \* sleep before the first

ASSUME RetriesArePositive == Retries \in Nat \ {0}
ASSUME DelaysAreNatural == Delay \in Nat /\ InitialDelay \in Nat

VARIABLES
    pc,         \* where the fetch is
    polls,      \* polls answered
    slept,      \* time spent in sleeps
    ready,      \* the service has generated the report
    last        \* the last answer

vars == <<pc, polls, slept, ready, last>>

PC == {"request", "starting", "poll", "sleep", "stored", "fatal", "gaveup"}

\* An answer: whether its root is one of the two Flex tags, its Status, what kind
\* its ErrorCode is, and whether it carries a FlexStatement.  An HTTP or network
\* error and a body that is no XML have no such parts.
Answer == [flex : BOOLEAN, status : {"", "SUCCESS", "FAIL", "WARN", "OTHER"},
           code : {"", "transient", "fatal"}, statement : BOOLEAN]
Broken == [flex |-> FALSE, status |-> "broken", code |-> "", statement |-> FALSE]
NoAnswer == [flex |-> FALSE, status |-> "", code |-> "", statement |-> FALSE]

\* What the service serves: a statement, or a success, only of a finished report.
Servable(done) ==
    {a \in Answer : a.statement \/ a.status = "SUCCESS" =>
                        done /\ a.flex /\ a.statement /\ a.code = ""}

---------------------------------------------------------------------------
(* What fetch_report makes of an answer.                                   *)

IsReport(a) ==
    a.flex /\ (a.status = "SUCCESS" \/ (a.status = "" /\ a.statement))

IsFatal(a) ==
    \/ a = Broken
    \/ a.flex /\ a.status = "FAIL"
    \/ ~IsReport(a) /\ a.code = "fatal"

---------------------------------------------------------------------------
Generated ==
    /\ ~ready
    /\ pc \in {"starting", "poll", "sleep"}
    /\ ready' = TRUE
    /\ UNCHANGED <<pc, polls, slept, last>>

\* request_report: any status but SUCCESS raises, and so does a missing reference.
SendRequest ==
    /\ pc = "request"
    /\ \E granted \in BOOLEAN, a \in Servable(FALSE) \cup {Broken} :
           /\ pc' = IF granted THEN "starting" ELSE "fatal"
           /\ last' = IF granted THEN NoAnswer ELSE a
    /\ UNCHANGED <<polls, slept, ready>>

FirstDelay ==
    /\ pc = "starting"
    /\ pc' = "poll"
    /\ slept' = InitialDelay
    /\ UNCHANGED <<polls, ready, last>>

\* Faulty: the last attempt is not counted as one.
AfterPollOneMore(a) ==
    IF IsReport(a) THEN "stored" ELSE IF IsFatal(a) THEN "fatal"
    ELSE IF polls < Retries THEN "sleep" ELSE "gaveup"

\* `polls` answers came before this one.
AfterPoll(a) ==
    IF IsReport(a) THEN "stored" ELSE IF IsFatal(a) THEN "fatal"
    ELSE IF polls + 1 < Retries THEN "sleep" ELSE "gaveup"

GetStatement ==
    /\ pc = "poll"
    /\ \E a \in Servable(ready) \cup {Broken} :
           /\ last' = a
           /\ pc' = AfterPoll(a)
    /\ polls' = polls + 1
    /\ UNCHANGED <<slept, ready>>

Sleep ==
    /\ pc = "sleep"
    /\ pc' = "poll"
    /\ slept' = slept + Delay
    /\ UNCHANGED <<polls, ready, last>>

Init ==
    /\ pc = "request"
    /\ polls = 0
    /\ slept = 0
    /\ ready = FALSE
    /\ last = NoAnswer

Client == SendRequest \/ FirstDelay \/ GetStatement \/ Sleep
Next == Generated \/ Client

Spec == Init /\ [][Next]_vars

---------------------------------------------------------------------------
(* Properties.                                                             *)

TypeOK ==
    /\ pc \in PC /\ ready \in BOOLEAN
    /\ polls \in 0 .. Retries /\ slept \in Nat
    /\ last \in Answer \cup {Broken}

\* What is stored in bronze is a finished report with its statement, never an
\* answer that says the report is still being generated.
OnlyFinishedStored == pc = "stored" => ready /\ last.statement /\ last.status # "WARN"

\* The client gives up only after all its polls, having slept before each of them
\* and not after the last: the patience the service was promised, to the second.
GivesUpAfterAllPolls ==
    pc = "gaveup" => polls = Retries /\ slept = InitialDelay + (Retries - 1) * Delay

\* A poll answered with a ready report, without an error, is never polled past.
ReportTaken ==
    pc \in {"sleep", "gaveup"} => ~last.statement \/ last.status \notin {"", "SUCCESS"}

=============================================================================
