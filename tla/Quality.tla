------------------------------ MODULE Quality ------------------------------
(***************************************************************************)
(* The validations of an execution and the data_quality table they share:  *)
(* every connector task validates its own tables, the consolidate task the *)
(* unified silver tables and then the gold tables, and `validate` all of   *)
(* them.  Each validation overwrites data_quality with its own results;    *)
(* the row-count check takes its baseline from that table and the report   *)
(* hides the tables that failed in it.                                     *)
(*                                                                         *)
(* Checks that can only warn and take nothing from data_quality are left   *)
(* out, and so is --fail-on-warn.                                          *)
(***************************************************************************)
EXTENDS Integers, FiniteSets

CONSTANTS
    Connectors,   \* the connectors
    Silver,       \* the unified silver tables
    Gold,         \* the gold tables
    RowCounts,    \* bound: the row counts a table may have
    MaxCommands,  \* bound on the executions, runs of `validate` and rewrites by hand
    MaxPoor,      \* bound on the tables broken or short of rows at once
    MaxUnread     \* bound on the tables the validations may fail to read or compare

ASSUME BoundsAreNatural ==
    /\ RowCounts \subseteq Nat
    /\ MaxCommands \in Nat /\ MaxPoor \in Nat /\ MaxUnread \in Nat
ASSUME OwnersAreDistinct == {"silver", "gold", "main", "manual"} \cap Connectors = {}

TablesOf(owner) ==
    {owner} \X CASE owner = "silver" -> Silver
                 [] owner = "gold" -> Gold
                 [] OTHER -> {"snapshot", "events"}

Owners == Connectors \cup {"silver", "gold"}
Tables == UNION {TablesOf(o) : o \in Owners}
Workers == Connectors \cup {"main", "manual"}

\* broken: a schema mismatch or a null in a required field.
\* Only the longest are broken, for the bound.
Content == {t \in [rows : RowCounts, broken : BOOLEAN] :
                t.broken => \A n \in RowCounts : n <= t.rows}
Unwritten == [rows |-> -1, broken |-> FALSE]

Result == [table : Tables, check : {"schema", "row_count_stability", "table_present"},
           status : {"PASS", "WARN", "FAIL"}, actual : RowCounts \cup {0}]

PC == {"idle", "write", "check", "publish", "writeGold", "checkGold", "publishGold",
       "done", "skipped", "failed"}

VARIABLES
    content,   \* the tables
    dq,        \* analytics/data_quality
    pc,        \* where each worker is
    enabled,   \* the connectors of the execution
    found,     \* the results a worker has and has not yet written
    commands,  \* executions, runs of `validate` and rewrites by hand so far
    byHand,    \* history: some table was rewritten by hand
    unread,    \* the tables some validation has failed to read or to compare
    counted,   \* history: the rows of each table when last validated, -1 if never
    looked,    \* history: what the execution's validations have done with each table
               \* since it was last written: nothing, only failed to read it, or read it
    blind      \* history: the tables in found whose check could not read data_quality

vars == <<content, dq, pc, enabled, found, commands, byHand, unread,
          counted, looked, blind>>

---------------------------------------------------------------------------
(* run_validation.                                                         *)

\* _get_previous_row_count: -1 when data_quality has no row for the table.
Previous(t) ==
    LET rows == {r \in dq : r.table = t /\ r.check = "row_count_stability"
                                        /\ r.status # "FAIL"}
    IN  IF rows = {} THEN -1 ELSE (CHOOSE r \in rows : TRUE).actual

\* Faulty: half of the previous count is rounded down.
StabilityStatusRounded(rows, previous) ==
    IF previous # -1 /\ rows < previous \div 2 THEN "WARN" ELSE "PASS"

StabilityStatus(rows, previous) ==
    IF previous # -1 /\ 2 * rows < previous THEN "WARN" ELSE "PASS"

\* Faulty: nulls in required fields only warn.
SchemaStatusLenient(t) == IF content[t].broken THEN "WARN" ELSE "PASS"

SchemaStatus(t) == IF content[t].broken THEN "FAIL" ELSE "PASS"

\* A table that is not there, or that cannot be read, is one warning.
Missing(t) == {[table |-> t, check |-> "table_present", status |-> "WARN", actual |-> 0]}

\* The results for a table that was read, given the count to compare it with.
Checked(t, previous) ==
    {[table |-> t, check |-> "schema", status |-> SchemaStatus(t), actual |-> 0],
     [table |-> t, check |-> "row_count_stability",
      status |-> StabilityStatus(content[t].rows, previous), actual |-> content[t].rows]}

\* The results for one table. Tables in lost cannot be read; for those in fresh
\* data_quality cannot be, which passes for a first run.
ResultsOf(t, lost, fresh) ==
    IF content[t] = Unwritten \/ t \in lost THEN Missing(t)
    ELSE Checked(t, IF t \in fresh THEN -1 ELSE Previous(t))

\* The consolidate task looks at the events of the enabled connectors again, not
\* at their snapshots.
Scope(w) ==
    CASE w = "manual" -> Tables
      [] w \in Connectors -> TablesOf(w)
      [] w = "main" /\ pc[w] = "check" -> TablesOf("silver") \cup enabled \X {"events"}
      [] OTHER -> TablesOf("gold")

HasFail(results) == \E r \in results : r.status = "FAIL"

LookedAt(t, lost) == IF looked[t] = "read" \/ t \notin lost THEN "read" ELSE "lost"

Check(w) ==
    /\ pc[w] \in {"check", "checkGold"}
    /\ \E lost \in SUBSET {t \in Scope(w) : content[t] # Unwritten} :
       \E fresh \in SUBSET {t \in Scope(w) \ lost : Previous(t) # -1} :
           /\ unread' = unread \cup lost \cup fresh
           /\ Cardinality(unread') <= MaxUnread
           /\ found' = [found EXCEPT ![w] =
                            UNION {ResultsOf(t, lost, fresh) : t \in Scope(w)}]
           /\ looked' = [t \in Tables |-> IF w = "manual" \/ t \notin Scope(w) THEN looked[t]
                                           ELSE LookedAt(t, lost)]
           /\ blind' = blind \cup fresh
    /\ pc' = [pc EXCEPT ![w] = IF @ = "check" THEN "publish" ELSE "publishGold"]
    /\ UNCHANGED <<content, dq, enabled, commands, byHand, counted>>

\* What a worker goes on to: after a FAIL nothing.
AfterPublish(w) ==
    IF HasFail(found[w]) THEN "failed"
    ELSE IF w = "main" /\ pc[w] = "publish" THEN "writeGold" ELSE "done"

\* data_quality is overwritten, whatever it held of other tables.
Stored(w) == found[w]

Publish(w) ==
    /\ pc[w] \in {"publish", "publishGold"}
    /\ dq' = Stored(w)
    /\ pc' = [pc EXCEPT ![w] = AfterPublish(w)]
    /\ found' = [found EXCEPT ![w] = {}]
    /\ blind' = {t \in blind : \A r \in found[w] : r.table # t}
    /\ LET count(t) == {r \in found[w] : r.table = t /\ r.check = "row_count_stability"}
       IN  counted' = [t \in Tables |-> IF count(t) = {} THEN counted[t]
                                        ELSE (CHOOSE r \in count(t) : TRUE).actual]
    /\ UNCHANGED <<content, enabled, commands, byHand, unread, looked>>

\* The write raises: storage, or the commit of another task's overwrite.
PublishFails(w) ==
    /\ pc[w] \in {"publish", "publishGold"}
    /\ pc' = [pc EXCEPT ![w] = "failed"]
    /\ found' = [found EXCEPT ![w] = {}]
    /\ blind' = {t \in blind : \A r \in found[w] : r.table # t}
    /\ UNCHANGED <<content, dq, enabled, commands, byHand, unread, counted, looked>>

---------------------------------------------------------------------------
(* The execution around the validations.                                   *)

Ended == {"done", "skipped", "failed"}
AtRest == \A w \in Workers : pc[w] \in {"idle"} \cup Ended

StartRun ==
    /\ AtRest
    /\ commands < MaxCommands
    /\ commands' = commands + 1
    /\ enabled' \in SUBSET Connectors \ {{}}
    /\ pc' = [w \in Workers |-> IF w \in enabled' THEN "write" ELSE "idle"]
    /\ looked' = [t \in Tables |-> "no"]
    /\ UNCHANGED <<content, dq, found, byHand, unread, counted, blind>>

\* cmd_validate, by hand.
StartManual ==
    /\ AtRest
    /\ commands < MaxCommands
    /\ commands' = commands + 1
    /\ pc' = [w \in Workers |-> IF w = "manual" THEN "check" ELSE "idle"]
    /\ enabled' = {}
    /\ looked' = [t \in Tables |-> "no"]
    /\ UNCHANGED <<content, dq, found, byHand, unread, counted, blind>>

\* The tables with something to find are few at once, for the bound.
Poor(table) == table # Unwritten /\ (table.broken \/ \E n \in RowCounts : table.rows < n)

Rewrite(written) ==
    /\ \E new \in [written -> Content] :
           content' = [t \in Tables |-> IF t \in written THEN new[t] ELSE content[t]]
    /\ Cardinality({t \in Tables : Poor(content'[t])}) <= MaxPoor
    /\ looked' = [t \in Tables |-> IF t \in written THEN "no" ELSE looked[t]]

\* transform_connector, cmd_consolidate with the events, cmd_analytics.
Write(w) ==
    /\ pc[w] \in {"write", "writeGold"}
    /\ Rewrite(TablesOf(IF w \in Connectors THEN w
                        ELSE IF pc[w] = "write" THEN "silver" ELSE "gold"))
    /\ pc' = [pc EXCEPT ![w] = IF @ = "write" THEN "check" ELSE "checkGold"]
    /\ UNCHANGED <<dq, enabled, found, commands, byHand, unread, counted, blind>>

WriteFails(w) ==
    /\ pc[w] \in {"write", "writeGold"}
    /\ pc' = [pc EXCEPT ![w] = "failed"]
    /\ UNCHANGED <<content, dq, enabled, found, commands, byHand, unread, counted, looked, blind>>

\* A connector without credentials or input: nothing is written or validated.
Skip(c) ==
    /\ pc[c] = "write"
    /\ pc' = [pc EXCEPT ![c] = "skipped"]
    /\ UNCHANGED <<content, dq, enabled, found, commands, byHand, unread, counted, looked, blind>>

\* transform, consolidate or analytics by hand validates nothing.
WriteByHand(o) ==
    /\ AtRest
    /\ commands < MaxCommands
    /\ commands' = commands + 1
    /\ byHand' = TRUE
    /\ Rewrite(TablesOf(o))
    /\ pc' = [w \in Workers |-> "idle"]
    /\ enabled' = {}
    /\ UNCHANGED <<dq, found, unread, counted, blind>>

\* Faulty: a failed validation of a connector does not fail its task.
ConnectorsDoneAnyway ==
    /\ \A c \in enabled : pc[c] \in Ended
    /\ pc["main"] = "idle" /\ enabled # {}
    /\ pc' = [pc EXCEPT !["main"] = "write"]
    /\ UNCHANGED <<content, dq, enabled, found, commands, byHand, unread, counted, looked, blind>>

ConnectorsDone ==
    /\ \A c \in enabled : pc[c] \in {"done", "skipped"}
    /\ pc["main"] = "idle" /\ enabled # {}
    /\ pc' = [pc EXCEPT !["main"] = "write"]
    /\ UNCHANGED <<content, dq, enabled, found, commands, byHand, unread, counted, looked, blind>>

Init ==
    /\ content = [t \in Tables |-> Unwritten]
    /\ dq = {}
    /\ pc = [w \in Workers |-> "idle"]
    /\ enabled = {}
    /\ found = [w \in Workers |-> {}]
    /\ commands = 0 /\ byHand = FALSE /\ unread = {}
    /\ counted = [t \in Tables |-> -1]
    /\ looked = [t \in Tables |-> "no"] /\ blind = {}

Next ==
    \/ StartRun \/ StartManual \/ ConnectorsDone
    \/ \E w \in Workers : Check(w) \/ Publish(w) \/ PublishFails(w) \/ Write(w) \/ WriteFails(w)
    \/ \E c \in Connectors : Skip(c)
    \/ \E o \in Owners : WriteByHand(o)

Spec == Init /\ [][Next]_vars

---------------------------------------------------------------------------
(* The report, by hand and at any time: sections over the gold tables.     *)

Sections == {{"portfolio_holdings"}, {"dividend_income", "interest_income"},
             {"cash_flow_summary"}}

\* Tables are reported by their last name alone; no silver table has one of a section's.
ASSUME NamesAreDistinct == Silver \cap UNION Sections = {} /\ "data_quality" \notin Gold

\* load_all: a table that is not there or cannot be read counts as empty.
Rows(table, missing) ==
    IF <<"gold", table>> \in Tables /\ table \notin missing
    THEN content[<<"gold", table>>].rows ELSE 0

\* _dq_failed_tables, by name and over whatever data_quality holds; it is loaded as
\* the others are.
FailedTables(missing) ==
    IF "data_quality" \in missing THEN {}
    ELSE {r.table[2] : r \in {q \in dq : q.status = "FAIL"}}

\* Faulty: a section goes only when all its tables failed.
HidesTogether(section, missing) == section \subseteq FailedTables(missing)

Hides(section, missing) == section \cap FailedTables(missing) # {}

\* render_report: the sections it shows when the tables in missing cannot be read.
Shown(missing) ==
    {s \in Sections : (\E t \in s : Rows(t, missing) > 0) /\ ~Hides(s, missing)}

---------------------------------------------------------------------------
(* Properties.                                                             *)

TypeOK ==
    /\ content \in [Tables -> Content \cup {Unwritten}]
    /\ dq \subseteq Result
    /\ pc \in [Workers -> PC]
    /\ enabled \subseteq Connectors
    /\ found \in [Workers -> SUBSET Result]
    /\ commands \in 0 .. MaxCommands /\ byHand \in BOOLEAN
    /\ unread \subseteq Tables
    /\ counted \in [Tables -> RowCounts \cup {-1, 0}]
    /\ looked \in [Tables -> {"no", "lost", "read"}] /\ blind \subseteq Tables

\* What an execution answers for: the unified silver, and its connectors' tables,
\* except the snapshot of a connector that was skipped.
Answered ==
    TablesOf("silver") \cup enabled \X {"events"}
        \cup {c \in enabled : pc[c] # "skipped"} \X {"snapshot"}

\* The consolidate task rewrites gold only when none of the silver tables its
\* execution answers for is broken, unless all of its validations that looked at it
\* failed to read it.
GoldFromValidSilver ==
    [][pc["main"] = "writeGold" /\ content' # content =>
           \A t \in Answered : looked[t] = "lost" \/ ~content[t].broken]_vars

\* When the consolidate task has succeeded none of the tables its execution
\* answers for, nor any gold table, is broken, unless all of its validations
\* that looked at it failed to read it, though most of the results that say so are
\* overwritten by then.
GreenIsValid ==
    pc["main"] = "done" =>
        \A t \in Answered \cup TablesOf("gold") : looked[t] = "lost" \/ ~content[t].broken

\* What the row-count check is for: a table that lost more than half its rows since it
\* was last validated is never reported stable by a check that could read data_quality.
DropNoticed ==
    \A w \in Workers : \A r \in found[w] :
        /\ r.check = "row_count_stability"
        /\ 2 * r.actual < counted[r.table]
        /\ r.table \notin blind
        => r.status = "WARN"

\* No validation has overwritten the count of a table without counting it again.
Covered ==
    \A t \in Tables : counted[t] # -1 =>
        \E r \in dq : r.table = t /\ r.check = "row_count_stability"

\* A lost half is noticed as long as data_quality has the counts of every table that
\* was ever counted: by `validate` after a `validate` that could read every table, and
\* by the first validation of an execution after it.  DropNoticed itself does not hold:
\* inside an execution each validation overwrites the counts of the tables it does not
\* look at.
DropNoticedIfCovered == Covered => DropNoticed

\* data_quality has the verdict on a gold table: it was read.
Judged(name) == \E r \in dq : r.table = <<"gold", name>> /\ r.check = "schema"

\* Between executions a report that can read data_quality shows no section with a
\* broken table and hides no other, whichever gold tables it fails to read and however
\* the executions before it ended, as long as data_quality has the verdicts on the
\* section's tables and nobody rewrote a table by hand.  Without the verdicts it does
\* not hold: the next connector's validation overwrites the failure of a gold table,
\* or a validation fails to read it, and the report shows it.
ReportHidesBroken ==
    AtRest /\ ~byHand =>
        \A missing \in SUBSET Gold : \A s \in Sections :
            (\A n \in s \cap Gold : Judged(n)) =>
                (s \in Shown(missing) <=>
                    /\ \E t \in s : Rows(t, missing) > 0
                    /\ \A t \in s \cap Gold : ~content[<<"gold", t>>].broken)
=============================================================================
