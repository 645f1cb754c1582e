---------------------------- MODULE QualityProofs ----------------------------
(***************************************************************************)
(* Proofs about Quality, for every set of connectors and tables and every  *)
(* bound: what a green consolidation answers for, when a drop is noticed,  *)
(* and what the report hides, though every validation overwrites the       *)
(* results of the others.                                                  *)
(***************************************************************************)
EXTENDS Quality, TLAPS

\* What the consolidate task validates before it touches gold.
SilverScope == TablesOf("silver") \cup enabled \X {"events"}

AtPublish == {"publish", "publishGold"}
AtGold == {"writeGold", "checkGold", "publishGold"}

\* Who is at work beside whom.
Beside ==
    /\ \A c \in Connectors :
           /\ pc[c] \in {"idle", "write", "check", "publish"} \cup Ended
           /\ c \notin enabled => pc[c] = "idle"
    /\ pc["manual"] \in {"idle", "check", "publish", "done", "failed"}
    /\ pc["manual"] # "idle" => enabled = {} /\ pc["main"] = "idle"
    /\ pc["main"] # "idle" => enabled # {} /\ \A c \in enabled : pc[c] \in {"done", "skipped"}

\* The results tell what the table is, if it was read: failed exactly when it is broken,
\* and its rows.
Tells(results, t) ==
    /\ \A r \in results : r.table = t =>
           /\ r.status = "FAIL" => content[t].broken
           /\ r.check = "row_count_stability" => r.actual = content[t].rows /\ r.status # "FAIL"
    /\ (\E r \in results : r.table = t /\ r.check = "schema") =>
           ((\E r \in results : r.table = t /\ r.status = "FAIL") <=> content[t].broken)

\* The tables of the results a worker has and has not yet written.
FoundFor(w) ==
    IF w = "main" THEN IF pc[w] = "publish" THEN SilverScope ELSE TablesOf("gold")
    ELSE IF w = "manual" THEN Tables ELSE TablesOf(w)

\* What a worker has found is still so when it writes it, whoever works beside it.
StillSo ==
    \A w \in Workers :
        IF pc[w] \in AtPublish
        THEN /\ \A r \in found[w] : r.table \in FoundFor(w)
             /\ \A t \in FoundFor(w) : Tells(found[w], t)
        ELSE found[w] = {}

\* Whoever has succeeded has looked at the tables it answers for.
Looks ==
    /\ \A c \in Connectors : pc[c] \in {"publish", "done"} =>
           \A t \in TablesOf(c) : looked[t] # "no"
    /\ pc["main"] \in AtGold \cup {"publish", "done"} => \A t \in SilverScope : looked[t] # "no"
    /\ pc["main"] \in {"publishGold", "done"} => \A t \in TablesOf("gold") : looked[t] # "no"

\* Whoever read a broken table has failed, or is about to.
Fails(w) == pc[w] = "failed" \/ (pc[w] \in AtPublish /\ HasFail(found[w]))
StaysValid ==
    enabled # {} => \A t \in Tables :
        looked[t] = "read" /\ content[t].broken => \E w \in Workers : Fails(w)

\* data_quality's counts are of the last validation of the table.
CountsKept ==
    \A t \in Tables :
        /\ content[t] = Unwritten => counted[t] = -1
        /\ \A r \in dq : r.table = t /\ r.check = "row_count_stability" =>
               r.actual = counted[t] /\ r.status # "FAIL"

\* data_quality is silent about gold while gold is rewritten, and its verdicts on gold
\* are true else.
GoldTold ==
    /\ pc["main"] \in AtGold => \A r \in dq : r.table \notin TablesOf("gold")
    /\ ~byHand => \A t \in TablesOf("gold") :
           (\E r \in dq : r.table = t /\ r.check = "schema") =>
               ((\E r \in dq : r.table = t /\ r.status = "FAIL") <=> content[t].broken)

QInv == TypeOK /\ Beside /\ StillSo /\ Looks /\ StaysValid /\ CountsKept /\ GoldTold
        /\ DropNoticedIfCovered

------------------------------------------------------------------------------
(* Tables and who owns them.                                               *)

LEMMA OwnerTables ==
  /\ TablesOf("silver") = {"silver"} \X Silver
  /\ TablesOf("gold") = {"gold"} \X Gold
  /\ \A c \in Connectors : TablesOf(c) = {c} \X {"snapshot", "events"}
<1>1. TablesOf("silver") = {"silver"} \X Silver /\ TablesOf("gold") = {"gold"} \X Gold
  BY DEF TablesOf
<1>2. ASSUME NEW c \in Connectors PROVE TablesOf(c) = {c} \X {"snapshot", "events"}
  <2>1. c # "silver" /\ c # "gold"
    BY OwnersAreDistinct
  <2> QED
    BY <2>1 DEF TablesOf
<1> QED
  BY <1>1, <1>2

LEMMA TableOfOwner ==
  ASSUME NEW o \in Owners, NEW t \in TablesOf(o)
  PROVE  t \in Tables /\ t[1] = o
<1>1. t \in Tables
  BY DEF Tables
<1>2. CASE o \in Connectors
  <2>1. t \in {o} \X {"snapshot", "events"}
    BY <1>2, OwnerTables
  <2> QED
    BY <2>1, <1>1
<1>3. CASE o = "silver"
  <2>1. t \in {"silver"} \X Silver
    BY <1>3, OwnerTables
  <2> QED
    BY <2>1, <1>1, <1>3
<1>4. CASE o = "gold"
  <2>1. t \in {"gold"} \X Gold
    BY <1>4, OwnerTables
  <2> QED
    BY <2>1, <1>1, <1>4
<1> QED
  BY <1>2, <1>3, <1>4 DEF Owners

\* No table has two owners.
LEMMA OneOwner ==
  ASSUME NEW o \in Owners, NEW p \in Owners, NEW t \in TablesOf(o), t \in TablesOf(p)
  PROVE  o = p
  BY TableOfOwner

LEMMA SilverScopeIs ==
  ASSUME enabled \subseteq Connectors
  PROVE  /\ SilverScope \subseteq Tables
         /\ \A t \in SilverScope : t \notin TablesOf("gold")
         /\ \A c \in Connectors, t \in SilverScope : t \in TablesOf(c) => c \in enabled
<1> SUFFICES ASSUME NEW t \in SilverScope
             PROVE  /\ t \in Tables /\ t \notin TablesOf("gold")
                    /\ \A c \in Connectors : t \in TablesOf(c) => c \in enabled
  OBVIOUS
<1>0. {"silver", "gold"} \subseteq Owners /\ Connectors \subseteq Owners
  BY DEF Owners
<1>1. CASE t \in TablesOf("silver")
  <2>1. t \in Tables /\ t[1] = "silver"
    BY <1>0, <1>1, TableOfOwner
  <2>2. t \notin TablesOf("gold")
    BY <1>0, <2>1, TableOfOwner
  <2>3. \A c \in Connectors : t \notin TablesOf(c)
    BY <1>0, <2>1, TableOfOwner, OwnersAreDistinct
  <2> QED
    BY <2>1, <2>2, <2>3
<1>2. CASE t \in enabled \X {"events"}
  <2>1. PICK d \in enabled : t = <<d, "events">>
    BY <1>2
  <2>2. d \in Connectors /\ t \in TablesOf(d)
    <3>1. d \in Connectors
      BY <2>1
    <3> QED
      BY <2>1, <3>1, OwnerTables
  <2>3. t \in Tables
    BY <1>0, <2>2, TableOfOwner
  <2>4. \A o \in Owners : t \in TablesOf(o) => o = d
    BY <1>0, <2>2, OneOwner
  <2> QED
    BY <1>0, <2>1, <2>2, <2>3, <2>4, OwnersAreDistinct
<1> QED
  BY <1>1, <1>2 DEF SilverScope

------------------------------------------------------------------------------
(* Who is at work beside whom.                                             *)

LEMMA WorkersAre ==
  /\ "main" \in Workers /\ "manual" \in Workers
  /\ \A c \in Connectors : c \in Workers /\ c # "main" /\ c # "manual"
  BY OwnersAreDistinct DEF Workers

LEMMA MainAlone ==
  ASSUME Beside, pc["main"] # "idle", NEW v \in Workers, v # "main"
  PROVE  pc[v] \in {"idle", "done", "skipped"}
  BY DEF Beside, Workers

LEMMA ManualAlone ==
  ASSUME Beside, pc["manual"] # "idle", NEW v \in Workers, v # "manual"
  PROVE  pc[v] = "idle" /\ enabled = {}
  BY DEF Beside, Workers

LEMMA ConnectorAtWork ==
  ASSUME Beside, NEW c \in Connectors, pc[c] \notin {"idle", "done", "skipped"}
  PROVE  c \in enabled /\ pc["main"] = "idle" /\ pc["manual"] = "idle"
  BY DEF Beside

\* The tables two workers are about to report on are not the same.
LEMMA FoundApart ==
  ASSUME QInv, NEW v \in Workers, NEW w \in Workers, v # w,
         pc[v] \in AtPublish, pc[w] \notin {"idle"} \cup Ended
  PROVE  v \in Connectors /\ w \in Connectors
<1>0. Beside
  BY DEF QInv
<1>1. v # "main" /\ v # "manual"
  BY <1>0, MainAlone, ManualAlone DEF AtPublish, Ended
<1>2. w # "main" /\ w # "manual"
  BY <1>0, MainAlone, ManualAlone DEF AtPublish, Ended
<1> QED
  BY <1>1, <1>2 DEF Workers

------------------------------------------------------------------------------
(* What a check finds.                                                     *)

LEMMA ContentIs ==
  ASSUME TypeOK, NEW t \in Tables
  PROVE  /\ content[t] = Unwritten \/ content[t] \in Content
         /\ content[t] \in Content => /\ content[t].rows \in RowCounts /\ content[t].rows \in Nat
                                      /\ content[t].broken \in BOOLEAN
                                      /\ content[t] # Unwritten
         /\ content[t] = Unwritten => content[t].rows = -1 /\ ~content[t].broken
<1>1. content[t] = Unwritten \/ content[t] \in Content
  BY DEF TypeOK
<1>2. ASSUME NEW c \in Content
      PROVE  c.rows \in RowCounts /\ c.rows \in Nat /\ c.broken \in BOOLEAN /\ c # Unwritten
  <2>1. c \in [rows : RowCounts, broken : BOOLEAN]
    BY DEF Content
  <2>2. c.rows \in RowCounts /\ c.rows \in Nat /\ c.broken \in BOOLEAN
    BY <2>1, BoundsAreNatural
  <2>3. Unwritten.rows = -1
    BY DEF Unwritten
  <2> QED
    BY <2>2, <2>3
<1>3. Unwritten.rows = -1 /\ ~Unwritten.broken
  BY DEF Unwritten
<1> QED
  BY <1>1, <1>2, <1>3

LEMMA CountsAreInts ==
  ASSUME TypeOK
  PROVE  /\ \A t \in Tables : counted[t] \in Int
         /\ \A w \in Workers : \A r \in found[w] : r.table \in Tables /\ r.actual \in Nat
<1>1. counted \in [Tables -> RowCounts \cup {-1, 0}] /\ RowCounts \cup {-1, 0} \subseteq Int
  BY BoundsAreNatural DEF TypeOK
<1>2. ASSUME NEW w \in Workers, NEW r \in found[w]
      PROVE  r.table \in Tables /\ r.actual \in RowCounts \cup {0}
  <2>1. r \in Result
    BY DEF TypeOK
  <2> QED
    BY <2>1 DEF Result
<1>3. RowCounts \cup {0} \subseteq Nat
  BY BoundsAreNatural
<1> QED
  BY <1>1, <1>2, <1>3

\* The baseline is the count of the last validation, if data_quality still has it.
LEMMA PreviousIs ==
  ASSUME TypeOK, CountsKept, NEW t \in Tables
  PROVE  /\ Previous(t) \in {-1, counted[t]}
         /\ (\E r \in dq : r.table = t /\ r.check = "row_count_stability") =>
                Previous(t) = counted[t]
<1> DEFINE rows == {r \in dq : r.table = t /\ r.check = "row_count_stability"
                                           /\ r.status # "FAIL"}
<1>1. Previous(t) = IF rows = {} THEN -1 ELSE (CHOOSE r \in rows : TRUE).actual
  BY DEF Previous
<1>2. CASE rows = {}
  <2>1. Previous(t) = -1
    BY <1>1, <1>2
  <2>2. \A q \in dq : q.table = t => q.check # "row_count_stability"
    BY <1>2 DEF CountsKept
  <2> QED
    BY <2>1, <2>2
<1>3. CASE rows # {}
  <2>1. (CHOOSE r \in rows : TRUE) \in rows
    BY <1>3
  <2> HIDE DEF rows
  <2>2. PICK r \in rows : Previous(t) = r.actual
    BY <1>1, <1>3, <2>1
  <2>3. r \in dq /\ r.table = t /\ r.check = "row_count_stability"
    BY <2>2 DEF rows
  <2> QED
    BY <2>2, <2>3 DEF CountsKept
<1> QED
  BY <1>2, <1>3

LEMMA ResultsAre ==
  ASSUME TypeOK, NEW t \in Tables, NEW lost, NEW fresh
  PROVE  /\ ResultsOf(t, lost, fresh) \subseteq Result
         /\ \A r \in ResultsOf(t, lost, fresh) : r.table = t
         /\ Tells(ResultsOf(t, lost, fresh), t)
         /\ content[t].broken /\ t \notin lost => HasFail(ResultsOf(t, lost, fresh))
<1>1. CASE content[t] = Unwritten \/ t \in lost
  <2> DEFINE r0 == [table |-> t, check |-> "table_present", status |-> "WARN", actual |-> 0]
  <2>1. ResultsOf(t, lost, fresh) = {r0}
    BY <1>1 DEF ResultsOf, Missing
  <2>2. r0 \in Result
    BY DEF Result
  <2>3. content[t].broken => t \in lost
    BY <1>1, ContentIs
  <2> QED
    BY <2>1, <2>2, <2>3 DEF Tells
<1>2. CASE content[t] # Unwritten /\ t \notin lost
  <2> DEFINE previous == IF t \in fresh THEN -1 ELSE Previous(t)
             r1 == [table |-> t, check |-> "schema", status |-> SchemaStatus(t), actual |-> 0]
             r2 == [table |-> t, check |-> "row_count_stability",
                    status |-> StabilityStatus(content[t].rows, previous),
                    actual |-> content[t].rows]
  <2>1. ResultsOf(t, lost, fresh) = {r1, r2}
    BY <1>2 DEF ResultsOf, Checked
  <2>2. content[t].rows \in RowCounts
    BY <1>2, ContentIs
  <2>3. /\ SchemaStatus(t) \in {"PASS", "FAIL"} /\ (SchemaStatus(t) = "FAIL" <=> content[t].broken)
        /\ StabilityStatus(content[t].rows, previous) \in {"PASS", "WARN"}
    <3>1. content[t].broken \in BOOLEAN
      BY <1>2, ContentIs
    <3> QED
      BY <3>1 DEF SchemaStatus, StabilityStatus
  <2>4. r1 \in Result /\ r2 \in Result
    BY <2>2, <2>3 DEF Result
  <2>5. /\ r1.table = t /\ r1.check = "schema" /\ r1.status = SchemaStatus(t)
        /\ r2.table = t /\ r2.check = "row_count_stability"
        /\ r2.status \in {"PASS", "WARN"} /\ r2.actual = content[t].rows
    BY <2>3
  <2> HIDE DEF r1, r2
  <2>6. /\ (\E r \in {r1, r2} : r.table = t /\ r.status = "FAIL") <=> content[t].broken
        /\ \A r \in {r1, r2} : r.status = "FAIL" => content[t].broken
        /\ content[t].broken => HasFail({r1, r2})
    BY <2>3, <2>5 DEF HasFail
  <2>7. \A r \in {r1, r2} : r.check = "row_count_stability" =>
           r.actual = content[t].rows /\ r.status # "FAIL"
    BY <2>5
  <2> QED
    BY <2>1, <2>4, <2>5, <2>6, <2>7 DEF Tells
<1> QED
  BY <1>1, <1>2

\* Checking several tables tells of each.
LEMMA AllCheckedTell ==
  ASSUME TypeOK, NEW S \in SUBSET Tables, NEW lost, NEW fresh, NEW results,
         \A r : r \in results <=> \E t \in S : r \in ResultsOf(t, lost, fresh)
  PROVE  /\ results \subseteq Result
         /\ \A r \in results : r.table \in S
         /\ \A t \in S : Tells(results, t)
         /\ \A t \in S : content[t].broken /\ t \notin lost => HasFail(results)
<1>1. \A r \in results : r.table \in S /\ r \in ResultsOf(r.table, lost, fresh) /\ r \in Result
  BY ResultsAre
<1>2. ASSUME NEW t \in S
      PROVE  /\ Tells(results, t)
             /\ content[t].broken /\ t \notin lost => HasFail(results)
  <2>1. /\ ResultsOf(t, lost, fresh) \subseteq results
        /\ Tells(ResultsOf(t, lost, fresh), t)
        /\ content[t].broken /\ t \notin lost => HasFail(ResultsOf(t, lost, fresh))
    BY ResultsAre
  <2>2. \A r \in results : r.table = t => r \in ResultsOf(t, lost, fresh)
    BY <1>1
  <2>3. Tells(results, t)
    BY <2>1, <2>2 DEF Tells
  <2> QED
    BY <2>1, <2>3 DEF HasFail
<1> QED
  BY <1>1, <1>2

------------------------------------------------------------------------------
(* Steps that touch neither the tables nor data_quality.                   *)

\* Who moved, and to a place where nothing is found yet.
LEMMA PlainSteps ==
  ASSUME QInv, StartRun \/ StartManual \/ ConnectorsDone \/ (\E w \in Workers : WriteFails(w))
                 \/ (\E c \in Connectors : Skip(c))
  PROVE  QInv'
<1>0. /\ TypeOK /\ Beside /\ StillSo /\ Looks /\ StaysValid /\ CountsKept /\ GoldTold /\ DropNoticedIfCovered
      /\ pc \in [Workers -> PC] /\ enabled \subseteq Connectors
      /\ commands \in Nat /\ MaxCommands \in Nat
      /\ looked \in [Tables -> {"no", "lost", "read"}]
  BY BoundsAreNatural DEF QInv, TypeOK
<1>1. UNCHANGED <<content, dq, found, unread, counted, byHand, blind>>
  BY DEF StartRun, StartManual, ConnectorsDone, WriteFails, Skip
<1>2. CountsKept'
  BY <1>0, <1>1 DEF CountsKept
<1>3. DropNoticedIfCovered'
  BY <1>0, <1>1 DEF DropNoticedIfCovered, Covered, DropNoticed
<1>10. /\ looked' \in [Tables -> {"no", "lost", "read"}]
       /\ looked' = [t \in Tables |-> "no"]
             \/ (looked' = looked /\ enabled' = enabled /\ ~StartRun /\ ~StartManual)
  <2>1. CASE StartRun \/ StartManual
    BY <2>1 DEF StartRun, StartManual
  <2>2. CASE ~StartRun /\ ~StartManual
    BY <2>2, <1>0 DEF ConnectorsDone, WriteFails, Skip
  <2> QED
    BY <2>1, <2>2
<1>4. TypeOK' /\ Beside'
  <2>1. CASE StartRun
    <3>1. /\ enabled' \in SUBSET Connectors \ {{}}
          /\ commands' = commands + 1 /\ commands < MaxCommands
          /\ pc' = [w \in Workers |-> IF w \in enabled' THEN "write" ELSE "idle"]
      BY <2>1 DEF StartRun
    <3>2. pc' \in [Workers -> PC]
      BY <3>1 DEF PC
    <3>3. TypeOK'
      BY <1>0, <1>1, <1>10, <3>1, <3>2 DEF TypeOK
    <3> QED
      BY <3>1, <3>3, WorkersAre DEF Beside
  <2>2. CASE StartManual
    <3>1. /\ enabled' = {} /\ commands' = commands + 1 /\ commands < MaxCommands
          /\ pc' = [w \in Workers |-> IF w = "manual" THEN "check" ELSE "idle"]
      BY <2>2 DEF StartManual
    <3>2. pc' \in [Workers -> PC]
      BY <3>1 DEF PC
    <3>3. TypeOK'
      BY <1>0, <1>1, <1>10, <3>1, <3>2 DEF TypeOK
    <3> QED
      BY <3>1, <3>3, WorkersAre DEF Beside
  <2>3. CASE ConnectorsDone
    <3>1. /\ \A c \in enabled : pc[c] \in {"done", "skipped"}
          /\ pc["main"] = "idle" /\ enabled # {}
          /\ pc' = [pc EXCEPT !["main"] = "write"] /\ UNCHANGED <<enabled, commands, unread>>
      BY <2>3 DEF ConnectorsDone
    <3>2. /\ pc' \in [Workers -> PC] /\ pc'["main"] = "write"
          /\ \A w \in Workers : w # "main" => pc'[w] = pc[w]
      BY <1>0, <3>1, WorkersAre DEF PC
    <3>3. TypeOK'
      BY <1>0, <1>1, <1>10, <3>1, <3>2 DEF TypeOK
    <3>4. "main" \notin Connectors /\ "manual" # "main" /\ \A c \in enabled : c \in Workers /\ c # "main"
      BY <1>0, WorkersAre
    <3>5. pc["manual"] = "idle"
      BY <1>0, <3>1 DEF Beside
    <3> QED
      BY <1>0, <3>1, <3>2, <3>3, <3>4, <3>5, WorkersAre DEF Beside
  <2>4. ASSUME NEW w \in Workers, WriteFails(w)
        PROVE  TypeOK' /\ Beside'
    <3>1. /\ pc[w] \in {"write", "writeGold"} /\ pc' = [pc EXCEPT ![w] = "failed"]
          /\ UNCHANGED <<enabled, commands, unread>>
      BY <2>4 DEF WriteFails
    <3>2. /\ pc' \in [Workers -> PC] /\ pc'[w] = "failed"
          /\ \A v \in Workers : v # w => pc'[v] = pc[v]
      BY <1>0, <3>1 DEF PC
    <3>3. TypeOK'
      BY <1>0, <1>1, <1>10, <3>1, <3>2 DEF TypeOK
    <3>4. w # "manual" /\ \A c \in enabled : pc["main"] # "idle" => c # w
      BY <1>0, <3>1 DEF Beside
    <3> QED
      BY <1>0, <3>1, <3>2, <3>3, <3>4, WorkersAre DEF Beside, Ended
  <2>5. ASSUME NEW c \in Connectors, Skip(c)
        PROVE  TypeOK' /\ Beside'
    <3>1. /\ pc[c] = "write" /\ pc' = [pc EXCEPT ![c] = "skipped"]
          /\ UNCHANGED <<enabled, commands, unread>>
      BY <2>5 DEF Skip
    <3>2. /\ pc' \in [Workers -> PC] /\ pc'[c] = "skipped"
          /\ \A v \in Workers : v # c => pc'[v] = pc[v]
      BY <1>0, <3>1, WorkersAre DEF PC
    <3>3. TypeOK'
      BY <1>0, <1>1, <1>10, <3>1, <3>2 DEF TypeOK
    <3> QED
      BY <1>0, <3>1, <3>2, <3>3, WorkersAre DEF Beside, Ended
  <2> QED
    BY <2>1, <2>2, <2>3, <2>4, <2>5
<1>5. \A w \in Workers : pc'[w] \in AtPublish => pc[w] = pc'[w]
  BY <1>0, WorkersAre
     DEF StartRun, StartManual, ConnectorsDone, WriteFails, Skip, AtPublish
<1>6. (\E w \in Workers : pc'[w] \in AtPublish) => enabled' = enabled
  BY DEF StartRun, StartManual, ConnectorsDone, WriteFails, Skip, AtPublish
<1>7. StillSo'
  <2>1. ASSUME NEW w \in Workers, pc'[w] \in AtPublish
        PROVE  /\ \A r \in found'[w] : r.table \in FoundFor(w)'
               /\ \A t \in FoundFor(w)' : Tells(found[w], t)'
    <3>1. FoundFor(w)' = FoundFor(w) /\ found' = found
      BY <2>1, <1>1, <1>5, <1>6 DEF FoundFor, SilverScope
    <3>2. /\ \A r \in found[w] : r.table \in FoundFor(w)
          /\ \A t \in FoundFor(w) : Tells(found[w], t)
      BY <1>0, <1>5, <2>1 DEF StillSo
    <3>3. \A t \in FoundFor(w) : Tells(found[w], t)'
      BY <1>1, <3>2 DEF Tells
    <3> QED
      BY <3>1, <3>2, <3>3
  <2>2. ASSUME NEW w \in Workers, pc'[w] \notin AtPublish
        PROVE  found'[w] = {}
    <3>1. pc[w] \notin AtPublish
      <4>1. CASE StartRun \/ StartManual
        BY <4>1 DEF StartRun, StartManual, AtRest, AtPublish, Ended
      <4>2. CASE ConnectorsDone \/ (\E v \in Workers : WriteFails(v)) \/ (\E c \in Connectors : Skip(c))
        BY <4>2, <2>2, <1>0, WorkersAre DEF ConnectorsDone, WriteFails, Skip, AtPublish
      <4> QED
        BY <4>1, <4>2
    <3> QED
      BY <1>0, <1>1, <3>1 DEF StillSo
  <2>3. ASSUME NEW w \in Workers
        PROVE  IF pc'[w] \in AtPublish
               THEN /\ \A r \in found'[w] : r.table \in FoundFor(w)'
                    /\ \A t \in FoundFor(w)' : Tells(found[w], t)'
               ELSE found'[w] = {}
    BY <2>1, <2>2
  <2> QED
    BY <2>3 DEF StillSo
<1>11. ASSUME StartRun \/ StartManual PROVE Looks' /\ StaysValid'
  <2>1. /\ \A c \in Connectors : pc'[c] \in {"idle", "write"}
        /\ pc'["main"] = "idle"
        /\ looked' = [t \in Tables |-> "no"]
    BY <1>11, WorkersAre DEF StartRun, StartManual
  <2> QED
    BY <2>1 DEF Looks, StaysValid, AtGold
<1>12. ASSUME ConnectorsDone \/ (\E w \in Workers : WriteFails(w)) \/ (\E c \in Connectors : Skip(c))
       PROVE  Looks' /\ StaysValid'
  <2>1. looked' = looked /\ enabled' = enabled
    BY <1>12 DEF ConnectorsDone, WriteFails, Skip
  <2>2. \A w \in Workers : pc'[w] \in AtGold \cup {"publish", "done"} => pc'[w] = pc[w]
    BY <1>12, <1>0, WorkersAre DEF ConnectorsDone, WriteFails, Skip, AtGold
  <2>3. \A w \in Workers : pc[w] \in AtPublish \cup {"failed"} => pc'[w] = pc[w]
    BY <1>12, <1>0, WorkersAre DEF ConnectorsDone, WriteFails, Skip, AtPublish
  <2>4. Looks'
    BY <1>0, <2>1, <2>2, WorkersAre DEF Looks, SilverScope, AtGold
  <2>5. \A w \in Workers : Fails(w) => Fails(w)'
    BY <1>1, <2>3 DEF Fails
  <2>6. StaysValid'
    BY <1>0, <1>1, <2>1, <2>5 DEF StaysValid
  <2> QED
    BY <2>4, <2>6
<1>8. Looks' /\ StaysValid'
  BY <1>11, <1>12
<1>9. GoldTold'
  <2>1. pc'["main"] \in AtGold => pc["main"] \in AtGold
    <3>1. CASE StartRun \/ StartManual
      BY <3>1, WorkersAre DEF StartRun, StartManual, AtGold
    <3>2. CASE ConnectorsDone \/ (\E w \in Workers : WriteFails(w)) \/ (\E c \in Connectors : Skip(c))
      BY <3>2, <1>0, WorkersAre DEF ConnectorsDone, WriteFails, Skip, AtGold
    <3> QED
      BY <3>1, <3>2
  <2> QED
    BY <1>0, <1>1, <2>1 DEF GoldTold
<1> QED
  BY <1>2, <1>3, <1>4, <1>7, <1>8, <1>9 DEF QInv

------------------------------------------------------------------------------
(* A worker checks its tables.                                             *)

LEMMA CheckSteps ==
  ASSUME QInv, NEW w \in Workers, Check(w)
  PROVE  QInv'
<1>0. /\ TypeOK /\ Beside /\ StillSo /\ Looks /\ StaysValid /\ CountsKept /\ GoldTold /\ DropNoticedIfCovered
      /\ pc \in [Workers -> PC] /\ enabled \subseteq Connectors
      /\ found \in [Workers -> SUBSET Result]
  BY DEF QInv, TypeOK
<1>1. /\ UNCHANGED <<content, dq, enabled, commands, byHand, counted>>
      /\ pc[w] \in {"check", "checkGold"}
      /\ pc' = [pc EXCEPT ![w] = IF @ = "check" THEN "publish" ELSE "publishGold"]
  BY DEF Check
<1>15. PICK lost \in SUBSET Scope(w), fresh \in SUBSET Scope(w) :
             /\ unread' = unread \cup lost \cup fresh
             /\ found' = [found EXCEPT ![w] =
                              UNION {ResultsOf(t, lost, fresh) : t \in Scope(w)}]
             /\ looked' = [t \in Tables |-> IF w = "manual" \/ t \notin Scope(w) THEN looked[t]
                                             ELSE LookedAt(t, lost)]
             /\ blind' = blind \cup fresh
  BY DEF Check
<1>2. /\ pc'[w] = IF pc[w] = "check" THEN "publish" ELSE "publishGold"
      /\ \A v \in Workers : v # w => pc'[v] = pc[v] /\ found'[v] = found[v]
      /\ found'[w] = UNION {ResultsOf(t, lost, fresh) : t \in Scope(w)}
      /\ pc' \in [Workers -> PC]
  BY <1>0, <1>1, <1>15 DEF PC
<1>3. pc[w] = "checkGold" => w = "main"
  BY <1>0 DEF Beside, Workers, Ended
<1>4. FoundFor(w)' = Scope(w) /\ Scope(w) \in SUBSET Tables
  <2>1. CASE w = "main" /\ pc[w] = "check"
    <3>1. Scope(w) = SilverScope
      BY <2>1, OwnersAreDistinct DEF Scope, SilverScope
    <3>2. FoundFor(w)' = SilverScope
      BY <2>1, <1>1, <1>2 DEF FoundFor, SilverScope
    <3> QED
      BY <3>1, <3>2, <1>0, SilverScopeIs
  <2>2. CASE w = "main" /\ pc[w] = "checkGold"
    <3>1. Scope(w) = TablesOf("gold")
      BY <2>2, OwnersAreDistinct DEF Scope
    <3>2. FoundFor(w)' = TablesOf("gold")
      BY <2>2, <1>1, <1>2 DEF FoundFor
    <3> QED
      BY <3>1, <3>2, TableOfOwner DEF Owners
  <2>3. CASE w = "manual"
    <3>1. Scope(w) = Tables
      BY <2>3, OwnersAreDistinct DEF Scope
    <3>2. FoundFor(w)' = Tables
      BY <2>3 DEF FoundFor
    <3> QED
      BY <3>1, <3>2
  <2>4. CASE w \in Connectors
    <3>0. w # "main" /\ w # "manual"
      BY <2>4, WorkersAre
    <3>1. Scope(w) = TablesOf(w)
      BY <2>4, <3>0 DEF Scope
    <3>2. FoundFor(w)' = TablesOf(w)
      BY <3>0 DEF FoundFor
    <3> QED
      BY <2>4, <3>1, <3>2, TableOfOwner DEF Owners
  <2> QED
    BY <1>1, <2>1, <2>2, <2>3, <2>4 DEF Workers
<1>5. /\ found'[w] \subseteq Result
      /\ \A r \in found'[w] : r.table \in Scope(w)
      /\ \A t \in Scope(w) : Tells(found'[w], t)
      /\ \A t \in Scope(w) : content[t].broken /\ t \notin lost => HasFail(found'[w])
  <2> DEFINE results == found'[w]
  <2>1. \A r : r \in results <=> \E t \in Scope(w) : r \in ResultsOf(t, lost, fresh)
    BY <1>2
  <2> HIDE DEF results
  <2>2. /\ results \subseteq Result
        /\ \A r \in results : r.table \in Scope(w)
        /\ \A t \in Scope(w) : Tells(results, t)
        /\ \A t \in Scope(w) : content[t].broken /\ t \notin lost => HasFail(results)
    BY <1>0, <1>4, <2>1, AllCheckedTell
  <2> QED
    BY <2>2 DEF results
<1>6. TypeOK'
  <2>1. looked' \in [Tables -> {"no", "lost", "read"}]
    BY <1>0, <1>15 DEF TypeOK, LookedAt
  <2>2. unread' \subseteq Tables /\ blind' \subseteq Tables
    BY <1>0, <1>4, <1>15 DEF TypeOK
  <2>3. found' \in [Workers -> SUBSET Result]
    BY <1>0, <1>15, <1>5
  <2> QED
    BY <1>0, <1>1, <1>2, <2>1, <2>2, <2>3 DEF TypeOK
<1>7. Beside'
  BY <1>0, <1>1, <1>2, <1>3, WorkersAre DEF Beside, Ended
<1>8. StillSo'
  <2>1. ASSUME NEW v \in Workers
        PROVE  IF pc'[v] \in AtPublish
               THEN /\ \A r \in found'[v] : r.table \in FoundFor(v)'
                    /\ \A t \in FoundFor(v)' : Tells(found[v], t)'
               ELSE found'[v] = {}
    <3>1. CASE v = w
      BY <3>1, <1>1, <1>2, <1>4, <1>5 DEF Tells, AtPublish
    <3>2. CASE v # w
      <4>1. FoundFor(v)' = FoundFor(v) /\ found'[v] = found[v] /\ pc'[v] = pc[v]
        BY <3>2, <1>1, <1>2 DEF FoundFor, SilverScope
      <4>2. \A t : Tells(found[v], t)' <=> Tells(found[v], t)
        BY <1>1, <4>1 DEF Tells
      <4> QED
        BY <1>0, <4>1, <4>2 DEF StillSo
    <3> QED
      BY <3>1, <3>2
  <2> QED
    BY <2>1 DEF StillSo
<1>12. /\ \A t \in Tables : looked[t] # "no" => looked'[t] # "no"
       /\ w # "manual" => \A t \in Scope(w) : looked'[t] # "no"
  BY <1>0, <1>4, <1>15 DEF LookedAt, TypeOK
<1>13. Looks'
  <2>1. ASSUME NEW c \in Connectors, pc'[c] \in {"publish", "done"}
        PROVE  \A t \in TablesOf(c) : looked'[t] # "no"
    <3>1. CASE c = w
      BY <3>1, <1>4, <1>12, WorkersAre DEF FoundFor
    <3>2. CASE c # w
      <4>1. \A t \in TablesOf(c) : t \in Tables
        BY TableOfOwner DEF Owners
      <4> QED
        BY <3>2, <4>1, <2>1, <1>0, <1>2, <1>12, WorkersAre DEF Looks
    <3> QED
      BY <3>1, <3>2
  <2>2. ASSUME pc'["main"] \in AtGold \cup {"publish", "done"}
        PROVE  \A t \in SilverScope : looked'[t] # "no"
    <3>1. CASE w = "main" /\ pc[w] = "check"
      <4>1. FoundFor(w)' = SilverScope
        BY <3>1, <1>1, <1>2 DEF FoundFor, SilverScope
      <4> QED
        BY <3>1, <4>1, <1>4, <1>12
    <3>2. CASE w # "main" \/ pc[w] # "check"
      <4>1. pc["main"] \in AtGold \cup {"publish", "done"}
        BY <3>2, <2>2, <1>1, <1>2, WorkersAre DEF AtGold
      <4>2. SilverScope \subseteq Tables
        BY <1>0, SilverScopeIs
      <4> QED
        BY <4>1, <4>2, <1>0, <1>12 DEF Looks
    <3> QED
      BY <3>1, <3>2
  <2>3. ASSUME pc'["main"] \in {"publishGold", "done"}
        PROVE  \A t \in TablesOf("gold") : looked'[t] # "no"
    <3>1. CASE w = "main"
      <4>1. FoundFor(w)' = TablesOf("gold")
        BY <3>1, <2>3 DEF FoundFor
      <4> QED
        BY <3>1, <4>1, <1>4, <1>12
    <3>2. CASE w # "main"
      <4>1. \A t \in TablesOf("gold") : t \in Tables
        BY TableOfOwner DEF Owners
      <4> QED
        BY <3>2, <4>1, <2>3, <1>0, <1>2, <1>12, WorkersAre DEF Looks
    <3> QED
      BY <3>1, <3>2
  <2>4. SilverScope' = SilverScope
    BY <1>1 DEF SilverScope
  <2> QED
    BY <2>1, <2>2, <2>3, <2>4 DEF Looks
<1>14. StaysValid'
  <2> SUFFICES ASSUME enabled # {}, NEW t \in Tables, looked'[t] = "read", content[t].broken
               PROVE  \E v \in Workers : Fails(v)'
    BY <1>1 DEF StaysValid
  <2>1. CASE looked[t] = "read"
    <3>1. PICK v \in Workers : Fails(v)
      BY <2>1, <1>0 DEF StaysValid
    <3>2. v # w
      BY <3>1, <1>1 DEF Fails, AtPublish
    <3> QED
      BY <3>1, <3>2, <1>2 DEF Fails
  <2>2. CASE looked[t] # "read"
    <3>1. t \in Scope(w) /\ t \notin lost
      BY <2>2, <1>15 DEF LookedAt
    <3>2. HasFail(found'[w]) /\ pc'[w] \in AtPublish
      BY <3>1, <1>2, <1>5 DEF AtPublish
    <3>3. Fails(w)'
      BY <3>2 DEF Fails, HasFail
    <3> QED
      BY <3>3
  <2> QED
    BY <2>1, <2>2
<1>9. GoldTold'
  <2>1. pc'["main"] \in AtGold => pc["main"] \in AtGold
    BY <1>1, <1>2, WorkersAre DEF AtGold
  <2> QED
    BY <1>0, <1>1, <2>1 DEF GoldTold
<1>10. CountsKept'
  BY <1>0, <1>1 DEF CountsKept
<1>11. DropNoticedIfCovered'
  <2> SUFFICES ASSUME Covered, NEW v \in Workers, NEW r \in found'[v],
                      r.check = "row_count_stability", 2 * r.actual < counted[r.table],
                      r.table \notin blind'
               PROVE  r.status = "WARN"
    BY <1>1 DEF DropNoticedIfCovered, DropNoticed, Covered
  <2>1. CASE v # w
    BY <2>1, <1>0, <1>2, <1>15 DEF DropNoticedIfCovered, DropNoticed
  <2>2. CASE v = w
    <3>1. PICK t \in Scope(w) : r \in ResultsOf(t, lost, fresh)
      BY <2>2, <1>2
    <3>2. t \in Tables /\ r.table = t /\ t \notin fresh
      BY <1>0, <1>4, <1>15, <3>1, ResultsAre
    <3>3. content[t] # Unwritten /\ t \notin lost
      BY <3>1 DEF ResultsOf, Missing
    <3>4. r.actual = content[t].rows /\ r.status = StabilityStatus(content[t].rows, Previous(t))
      BY <3>1, <3>2, <3>3 DEF ResultsOf, Checked
    <3>5. content[t].rows \in Nat /\ counted[t] \in Int
      BY <1>0, <3>2, <3>3, ContentIs, CountsAreInts
    <3>6. counted[t] # -1
      BY <3>2, <3>4, <3>5
    <3>7. Previous(t) = counted[t]
      BY <1>0, <3>2, <3>6, PreviousIs DEF Covered
    <3> QED
      BY <3>2, <3>4, <3>5, <3>6, <3>7 DEF StabilityStatus
  <2> QED
    BY <2>1, <2>2
<1> QED
  BY <1>6, <1>7, <1>8, <1>9, <1>10, <1>11, <1>13, <1>14 DEF QInv

------------------------------------------------------------------------------
(* A worker writes its results, over everybody else's.                     *)

\* Where a worker goes with what it found.
LEMMA PublishMoves ==
  ASSUME QInv, NEW w \in Workers, Publish(w) \/ PublishFails(w)
  PROVE  /\ TypeOK' /\ Beside'
         /\ \A v \in Workers : v # w => pc'[v] = pc[v] /\ found'[v] = found[v]
         /\ found'[w] = {} /\ pc'[w] \notin AtPublish
         /\ pc[w] = "publishGold" => w = "main"
         /\ HasFail(found[w]) => pc'[w] = "failed"
         /\ pc'[w] = "failed" \/ (Publish(w) /\ ~HasFail(found[w])
                /\ pc'[w] = IF w = "main" /\ pc[w] = "publish" THEN "writeGold" ELSE "done")
<1>0. /\ TypeOK /\ Beside /\ StillSo
      /\ pc \in [Workers -> PC] /\ enabled \subseteq Connectors
      /\ found \in [Workers -> SUBSET Result]
  BY DEF QInv, TypeOK
<1>1. /\ UNCHANGED <<content, enabled, commands, byHand, unread, looked>>
      /\ blind' = {t \in blind : \A r \in found[w] : r.table # t}
      /\ pc[w] \in AtPublish
      /\ found' = [found EXCEPT ![w] = {}]
      /\ \E p \in {"failed", "writeGold", "done"} : pc' = [pc EXCEPT ![w] = p]
  BY DEF Publish, PublishFails, AfterPublish, AtPublish
<1>2. /\ \A v \in Workers : v # w => pc'[v] = pc[v] /\ found'[v] = found[v]
      /\ found'[w] = {} /\ pc'[w] \in {"failed", "writeGold", "done"}
      /\ pc' \in [Workers -> PC] /\ found' \in [Workers -> SUBSET Result]
  BY <1>0, <1>1 DEF PC
<1>3. pc[w] = "publishGold" => w = "main"
  BY <1>0 DEF Beside, Workers, Ended
<1>4. pc'[w] = "failed" \/ (Publish(w) /\ ~HasFail(found[w])
                /\ pc'[w] = IF w = "main" /\ pc[w] = "publish" THEN "writeGold" ELSE "done")
  BY <1>0 DEF Publish, PublishFails, AfterPublish
<1>7. HasFail(found[w]) => pc'[w] = "failed"
  BY <1>0 DEF Publish, PublishFails, AfterPublish
<1>8. blind' \subseteq Tables
  BY <1>0, <1>1 DEF TypeOK
<1>5. TypeOK'
  <2>1. CASE PublishFails(w)
    BY <2>1, <1>0, <1>1, <1>2, <1>8 DEF PublishFails, TypeOK
  <2>2. CASE Publish(w)
    <3>1. dq' \subseteq Result
      BY <2>2, <1>0 DEF Publish, Stored
    <3>2. counted' \in [Tables -> RowCounts \cup {-1, 0}]
      <4> DEFINE count(t) == {r \in found[w] : r.table = t /\ r.check = "row_count_stability"}
      <4>1. counted' = [t \in Tables |-> IF count(t) = {} THEN counted[t]
                                         ELSE (CHOOSE r \in count(t) : TRUE).actual]
        BY <2>2 DEF Publish
      <4>2. ASSUME NEW t \in Tables, count(t) # {}
            PROVE  (CHOOSE r \in count(t) : TRUE).actual \in RowCounts \cup {-1, 0}
        <5>1. (CHOOSE r \in count(t) : TRUE) \in count(t)
          BY <4>2
        <5>2. \A r \in count(t) : r.actual \in RowCounts \cup {-1, 0}
          BY <1>0, BoundsAreNatural DEF Result
        <5> HIDE DEF count
        <5> QED
          BY <5>1, <5>2
      <4>3. \A t \in Tables : counted[t] \in RowCounts \cup {-1, 0}
        BY <1>0 DEF TypeOK
      <4> HIDE DEF count
      <4> QED
        BY <4>1, <4>2, <4>3
    <3> QED
      BY <1>0, <1>1, <1>2, <1>8, <3>1, <3>2 DEF TypeOK
  <2> QED
    BY <2>1, <2>2
<1>6. Beside'
  <2>1. w \in Connectors \/ w = "manual" => pc'[w] \in {"failed", "done"}
    BY <1>4, WorkersAre
  <2>2. w \in Connectors => w \in enabled /\ pc["main"] = "idle" /\ pc["manual"] = "idle"
    BY <1>0, <1>1, ConnectorAtWork DEF AtPublish
  <2> QED
    BY <1>0, <1>1, <1>2, <2>1, <2>2, WorkersAre DEF Beside, Ended, AtPublish
<1> QED
  BY <1>2, <1>3, <1>4, <1>5, <1>6, <1>7 DEF AtPublish

\* Two workers that are about to write do not write of the same table.
LEMMA FoundTables ==
  ASSUME QInv, NEW v \in Workers, NEW w \in Workers, v # w,
         pc[v] \in AtPublish, pc[w] \in AtPublish,
         NEW r \in found[v], NEW q \in found[w]
  PROVE  q.table # r.table
<1>1. v \in Connectors /\ w \in Connectors
  BY FoundApart DEF AtPublish, Ended
<1>2. FoundFor(v) = TablesOf(v) /\ FoundFor(w) = TablesOf(w)
  BY <1>1, WorkersAre DEF FoundFor
<1>3. r.table \in TablesOf(v) /\ q.table \in TablesOf(w)
  BY <1>2 DEF QInv, StillSo
<1> QED
  BY <1>1, <1>3, OneOwner DEF Owners

LEMMA PublishSteps ==
  ASSUME QInv, NEW w \in Workers, Publish(w) \/ PublishFails(w)
  PROVE  QInv'
<1>0. /\ TypeOK /\ Beside /\ StillSo /\ Looks /\ StaysValid /\ CountsKept /\ GoldTold /\ DropNoticedIfCovered
      /\ pc \in [Workers -> PC] /\ enabled \subseteq Connectors
      /\ found \in [Workers -> SUBSET Result]
  BY DEF QInv, TypeOK
<1>1. /\ UNCHANGED <<content, enabled, byHand, looked>> /\ pc[w] \in AtPublish
      /\ blind' = {t \in blind : \A r \in found[w] : r.table # t}
  BY DEF Publish, PublishFails, AtPublish
<1>2. /\ TypeOK' /\ Beside'
      /\ \A v \in Workers : v # w => pc'[v] = pc[v] /\ found'[v] = found[v]
      /\ found'[w] = {} /\ pc'[w] \notin AtPublish
      /\ pc[w] = "publishGold" => w = "main"
      /\ HasFail(found[w]) => pc'[w] = "failed"
      /\ pc'[w] = "failed" \/ (Publish(w) /\ ~HasFail(found[w])
                /\ pc'[w] = IF w = "main" /\ pc[w] = "publish" THEN "writeGold" ELSE "done")
  BY PublishMoves
<1>3. /\ \A r \in found[w] : r.table \in FoundFor(w)
      /\ \A t \in FoundFor(w) : Tells(found[w], t)
  BY <1>0, <1>1 DEF StillSo
<1>4. StillSo'
  <2>1. ASSUME NEW v \in Workers, v # w
        PROVE  IF pc'[v] \in AtPublish
               THEN /\ \A r \in found'[v] : r.table \in FoundFor(v)'
                    /\ \A t \in FoundFor(v)' : Tells(found[v], t)'
               ELSE found'[v] = {}
    <3>1. FoundFor(v)' = FoundFor(v) /\ found'[v] = found[v] /\ pc'[v] = pc[v]
      BY <2>1, <1>1, <1>2 DEF FoundFor, SilverScope
    <3>2. \A t : Tells(found[v], t)' <=> Tells(found[v], t)
      BY <1>1, <3>1 DEF Tells
    <3> QED
      BY <1>0, <3>1, <3>2 DEF StillSo
  <2> QED
    BY <2>1, <1>2 DEF StillSo
<1>5. StaysValid'
  <2> SUFFICES ASSUME enabled # {}, NEW t \in Tables, looked[t] = "read", content[t].broken
               PROVE  \E v \in Workers : Fails(v)'
    BY <1>1 DEF StaysValid
  <2>1. PICK v \in Workers : Fails(v)
    BY <1>0 DEF StaysValid
  <2>2. CASE v = w
    <3>1. pc'[w] = "failed"
      BY <2>1, <2>2, <1>1, <1>2 DEF Fails, AtPublish
    <3> QED
      BY <3>1 DEF Fails
  <2>3. CASE v # w
    BY <2>1, <2>3, <1>2 DEF Fails
  <2> QED
    BY <2>2, <2>3
<1>6. Looks'
  <2>1. \A c \in Connectors : pc'[c] \in {"publish", "done"} => pc[c] \in {"publish", "done"}
    <3>1. \A c \in Connectors : c = w => pc[c] = "publish"
      BY <1>1, <1>2, WorkersAre DEF AtPublish
    <3> QED
      BY <3>1, <1>2, WorkersAre
  <2>2. /\ pc'["main"] \in AtGold \cup {"publish", "done"} =>
               pc["main"] \in AtGold \cup {"publish", "done"}
        /\ pc'["main"] \in {"publishGold", "done"} => pc["main"] \in {"publishGold", "done"}
    <3>1. CASE w = "main"
      BY <3>1, <1>1, <1>2 DEF AtPublish, AtGold
    <3>2. CASE w # "main"
      BY <3>2, <1>2, WorkersAre
    <3> QED
      BY <3>1, <3>2
  <2>3. SilverScope' = SilverScope
    BY <1>1 DEF SilverScope
  <2> QED
    BY <1>0, <1>1, <2>1, <2>2, <2>3 DEF Looks
<1>7. CASE PublishFails(w)
  <2>1. UNCHANGED <<dq, counted>>
    BY <1>7 DEF PublishFails
  <2>2. CountsKept'
    BY <1>0, <1>1, <2>1 DEF CountsKept
  <2>3. DropNoticedIfCovered'
    <3> SUFFICES ASSUME Covered, NEW v \in Workers, NEW r \in found'[v],
                        r.check = "row_count_stability", 2 * r.actual < counted[r.table],
                        r.table \notin blind'
                 PROVE  r.status = "WARN"
      BY <2>1 DEF DropNoticedIfCovered, DropNoticed, Covered
    <3>1. v # w /\ r \in found[v] /\ pc[v] \in AtPublish
      BY <1>0, <1>2 DEF StillSo
    <3>2. \A q \in found[w] : q.table # r.table
      BY <1>0, <1>1, <1>3, <3>1, FoundTables
    <3> QED
      BY <1>0, <1>1, <3>1, <3>2 DEF DropNoticedIfCovered, DropNoticed
  <2>4. pc'["main"] \in AtGold => pc["main"] \in AtGold
    BY <1>0, <1>7, WorkersAre DEF PublishFails, AtGold
  <2>5. GoldTold'
    BY <1>0, <1>1, <2>1, <2>4 DEF GoldTold
  <2> QED
    BY <1>2, <1>4, <1>5, <1>6, <2>2, <2>3, <2>5 DEF QInv
<1>8. CASE Publish(w)
  <2> DEFINE count(t) == {r \in found[w] : r.table = t /\ r.check = "row_count_stability"}
  <2>1. /\ dq' = found[w]
        /\ counted' = [t \in Tables |-> IF count(t) = {} THEN counted[t]
                                        ELSE (CHOOSE r \in count(t) : TRUE).actual]
    BY <1>8 DEF Publish, Stored
  <2>2. ASSUME NEW t \in Tables
        PROVE  /\ count(t) = {} => counted'[t] = counted[t]
               /\ count(t) # {} => counted'[t] = content[t].rows /\ content[t] # Unwritten
    <3>1. CASE count(t) = {}
      BY <2>1, <3>1
    <3>2. CASE count(t) # {}
      <4>1. PICK r \in count(t) : counted'[t] = r.actual
        <5>1. (CHOOSE r \in count(t) : TRUE) \in count(t)
          BY <3>2
        <5>2. counted'[t] = (CHOOSE r \in count(t) : TRUE).actual
          BY <2>1, <3>2
        <5> HIDE DEF count
        <5> QED
          BY <5>1, <5>2
      <4>2. r \in found[w] /\ r.table = t /\ r.check = "row_count_stability"
        BY <4>1
      <4>3. r.actual = content[t].rows
        <5>1. t \in FoundFor(w)
          BY <1>3, <4>2
        <5> QED
          BY <1>3, <4>2, <5>1 DEF Tells
      <4>4. r.actual \in Nat
        BY <1>0, <4>2, CountsAreInts
      <4>5. content[t] # Unwritten
        BY <1>0, <4>3, <4>4, ContentIs, BoundsAreNatural
      <4> QED
        BY <3>2, <4>1, <4>3, <4>5
    <3> QED
      BY <3>1, <3>2
  <2>3. CountsKept'
    <3> SUFFICES ASSUME NEW t \in Tables
                 PROVE  /\ content[t] = Unwritten => counted'[t] = -1
                        /\ \A r \in found[w] : r.table = t /\ r.check = "row_count_stability" =>
                              r.actual = counted'[t] /\ r.status # "FAIL"
      BY <1>1, <2>1 DEF CountsKept
    <3>1. content[t] = Unwritten => counted'[t] = -1
      BY <1>0, <2>2 DEF CountsKept
    <3>2. ASSUME NEW r \in found[w], r.table = t, r.check = "row_count_stability"
          PROVE  r.actual = counted'[t] /\ r.status # "FAIL"
      <4>1. Tells(found[w], t)
        BY <1>3, <3>2
      <4>2. r \in count(t)
        BY <3>2
      <4> HIDE DEF count
      <4> QED
        BY <2>2, <3>2, <4>1, <4>2 DEF Tells
    <3> QED
      BY <3>1, <3>2
  <2>4. GoldTold'
    <3>1. ASSUME pc'["main"] \in AtGold, NEW r \in found[w]
          PROVE  r.table \notin TablesOf("gold")
      <4>1. w = "main"
        <5>1. SUFFICES ASSUME w # "main" PROVE FALSE
          OBVIOUS
        <5>2. pc["main"] # "idle"
          BY <3>1, <5>1, <1>2, WorkersAre DEF AtGold
        <5> QED
          BY <1>0, <1>1, <5>1, <5>2, MainAlone DEF AtPublish
      <4>2. FoundFor(w) = SilverScope
        BY <3>1, <4>1, <1>2 DEF FoundFor, AtGold
      <4> QED
        BY <1>0, <1>3, <4>2, SilverScopeIs
    <3>2. ASSUME NEW t \in TablesOf("gold"),
                 \E r \in found[w] : r.table = t /\ r.check = "schema"
          PROVE  (\E r \in found[w] : r.table = t /\ r.status = "FAIL") <=> content[t].broken
      BY <1>3, <3>2 DEF Tells
    <3> QED
      BY <1>1, <2>1, <3>1, <3>2 DEF GoldTold
  <2>5. DropNoticedIfCovered'
    <3> SUFFICES ASSUME Covered', NEW v \in Workers, NEW r \in found'[v],
                        r.check = "row_count_stability", 2 * r.actual < counted'[r.table]
                 PROVE  FALSE
      BY DEF DropNoticedIfCovered, DropNoticed
    <3>1. v # w /\ r \in found[v] /\ pc[v] \in AtPublish
      BY <1>0, <1>2 DEF StillSo
    <3>2. \A q \in found[w] : q.table # r.table
      BY <1>0, <1>1, <1>3, <3>1, FoundTables
    <3>3. r.table \in Tables /\ r.actual \in Nat /\ counted'[r.table] \in Int
      <4>1. r.table \in Tables /\ r.actual \in Nat
        BY <1>0, <3>1, CountsAreInts
      <4>2. counted'[r.table] = counted[r.table]
        <5>1. count(r.table) = {}
          BY <3>2
        <5> QED
          BY <2>2, <4>1, <5>1
      <4> QED
        BY <1>0, <4>1, <4>2, CountsAreInts
    <3> QED
      BY <2>1, <3>2, <3>3 DEF Covered
  <2> QED
    BY <1>2, <1>4, <1>5, <1>6, <2>3, <2>4, <2>5 DEF QInv
<1> QED
  BY <1>7, <1>8

------------------------------------------------------------------------------
(* Tables are rewritten, by a worker or by hand.                           *)

LEMMA Rewritten ==
  ASSUME TypeOK, NEW written, Rewrite(written)
  PROVE  /\ content' \in [Tables -> Content \cup {Unwritten}]
         /\ \A t \in Tables : t \notin written => content'[t] = content[t]
         /\ \A t \in Tables : content'[t] = Unwritten => content[t] = Unwritten
         /\ looked' \in [Tables -> {"no", "lost", "read"}]
         /\ \A t \in Tables : looked'[t] = IF t \in written THEN "no" ELSE looked[t]
<1>3. looked' = [t \in Tables |-> IF t \in written THEN "no" ELSE looked[t]]
  BY DEF Rewrite
<1>1. PICK new \in [written -> Content] :
          content' = [t \in Tables |-> IF t \in written THEN new[t] ELSE content[t]]
  BY DEF Rewrite
<1>2. \A t \in written : new[t] \in Content /\ new[t] # Unwritten
  BY BoundsAreNatural DEF Content, Unwritten
<1> QED
  BY <1>1, <1>2, <1>3 DEF TypeOK

LEMMA WriteSteps ==
  ASSUME QInv, NEW w \in Workers, Write(w)
  PROVE  QInv'
<1>0. /\ TypeOK /\ Beside /\ StillSo /\ Looks /\ StaysValid /\ CountsKept /\ GoldTold /\ DropNoticedIfCovered
      /\ pc \in [Workers -> PC] /\ enabled \subseteq Connectors
  BY DEF QInv, TypeOK
<1> DEFINE o == IF w \in Connectors THEN w ELSE IF pc[w] = "write" THEN "silver" ELSE "gold"
<1>1. /\ UNCHANGED <<dq, enabled, found, commands, byHand, unread, counted, blind>>
      /\ pc[w] \in {"write", "writeGold"} /\ Rewrite(TablesOf(o))
      /\ pc' = [pc EXCEPT ![w] = IF @ = "write" THEN "check" ELSE "checkGold"]
  BY DEF Write
<1>2. /\ pc'[w] = IF pc[w] = "write" THEN "check" ELSE "checkGold"
      /\ \A v \in Workers : v # w => pc'[v] = pc[v]
      /\ pc' \in [Workers -> PC]
  BY <1>0, <1>1 DEF PC
\* A connector at its own tables, or the consolidate task with nobody beside it.
<1>3. \/ /\ w \in Connectors /\ o = w /\ pc[w] = "write" /\ w \in enabled
         /\ pc["main"] = "idle" /\ pc["manual"] = "idle" /\ w # "main"
      \/ w = "main" /\ o = IF pc[w] = "write" THEN "silver" ELSE "gold"
  <2>1. CASE w \in Connectors
    BY <2>1, <1>0, <1>1, ConnectorAtWork, WorkersAre DEF Beside, Ended
  <2>2. CASE w = "main"
    BY <2>2, WorkersAre
  <2>3. w # "manual"
    BY <1>0, <1>1 DEF Beside
  <2> QED
    BY <2>1, <2>2, <2>3 DEF Workers
<1>4. o \in Owners
  BY <1>3 DEF Owners
<1> HIDE DEF o
<1>5. /\ content' \in [Tables -> Content \cup {Unwritten}]
      /\ \A t \in Tables : content'[t] = Unwritten => content[t] = Unwritten
      /\ \A t \in Tables : t \notin TablesOf(o) => content'[t] = content[t]
      /\ looked' \in [Tables -> {"no", "lost", "read"}]
      /\ \A t \in Tables : looked'[t] = IF t \in TablesOf(o) THEN "no" ELSE looked[t]
  BY <1>0, <1>1, Rewritten
\* Whatever is somebody else's stays.
<1>6. ASSUME NEW p \in Owners, p # o
      PROVE  \A t \in TablesOf(p) : content'[t] = content[t] /\ looked'[t] = looked[t]
  BY <1>4, <1>5, <1>6, OneOwner, TableOfOwner
<1>7. TypeOK'
  BY <1>0, <1>1, <1>2, <1>5 DEF TypeOK
<1>8. Beside'
  BY <1>0, <1>1, <1>2, <1>3, WorkersAre DEF Beside
<1>9. \A v \in Workers : pc'[v] \in AtPublish =>
         /\ v # w /\ pc[v] \in AtPublish
         /\ v \in Connectors /\ w \in Connectors /\ v # o
  <2> SUFFICES ASSUME NEW v \in Workers, pc'[v] \in AtPublish
               PROVE  v # w /\ pc[v] \in AtPublish /\ v \in Connectors /\ w \in Connectors /\ v # o
    OBVIOUS
  <2>1. v # w /\ pc[v] \in AtPublish
    BY <1>2 DEF AtPublish
  <2>2. v \in Connectors /\ w \in Connectors
    BY <1>1, <2>1, FoundApart DEF Ended
  <2> QED
    BY <1>3, <2>1, <2>2, WorkersAre
<1>10. StillSo'
  <2>1. ASSUME NEW v \in Workers
        PROVE  IF pc'[v] \in AtPublish
               THEN /\ \A r \in found'[v] : r.table \in FoundFor(v)'
                    /\ \A t \in FoundFor(v)' : Tells(found[v], t)'
               ELSE found'[v] = {}
    <3>1. CASE pc'[v] \in AtPublish
      <4>1. v # o /\ v \in Connectors /\ v \in Owners /\ pc[v] \in AtPublish
        BY <3>1, <1>9 DEF Owners
      <4>2. FoundFor(v) = TablesOf(v) /\ FoundFor(v)' = TablesOf(v)
        BY <4>1, WorkersAre DEF FoundFor
      <4>3. \A t \in TablesOf(v) : content'[t] = content[t]
        BY <4>1, <1>6
      <4>4. /\ \A r \in found[v] : r.table \in FoundFor(v)
            /\ \A t \in FoundFor(v) : Tells(found[v], t)
        BY <1>0, <4>1 DEF StillSo
      <4> QED
        BY <1>1, <3>1, <4>2, <4>3, <4>4 DEF Tells
    <3>2. CASE pc'[v] \notin AtPublish
      <4>1. pc[v] \notin AtPublish
        BY <3>2, <1>1, <1>2 DEF AtPublish
      <4> QED
        BY <3>2, <4>1, <1>0, <1>1 DEF StillSo
    <3> QED
      BY <3>1, <3>2
  <2> QED
    BY <2>1 DEF StillSo
<1>11. StaysValid'
  <2> SUFFICES ASSUME enabled # {}, NEW t \in Tables, looked'[t] = "read", content'[t].broken
               PROVE  \E v \in Workers : Fails(v)'
    BY <1>1 DEF StaysValid
  <2>1. t \notin TablesOf(o) /\ looked[t] = "read" /\ content[t].broken
    BY <1>5
  <2>2. PICK v \in Workers : Fails(v)
    BY <2>1, <1>0 DEF StaysValid
  <2>3. v # w
    BY <2>2, <1>1 DEF Fails, AtPublish
  <2> QED
    BY <2>2, <2>3, <1>1, <1>2 DEF Fails
<1>15. Looks'
  <2>1. ASSUME NEW c \in Connectors, pc'[c] \in {"publish", "done"}
        PROVE  \A t \in TablesOf(c) : looked'[t] # "no"
    <3>1. c # w /\ pc[c] \in {"publish", "done"}
      BY <2>1, <1>2, WorkersAre
    <3>2. c # o /\ c \in Owners
      BY <3>1, <1>3, OwnersAreDistinct DEF Owners
    <3> QED
      BY <3>1, <3>2, <1>0, <1>6 DEF Looks
  <2>2. ASSUME pc'["main"] \in AtGold \cup {"publish", "done"}
        PROVE  \A t \in SilverScope : looked'[t] # "no"
    <3>1. pc'["main"] # "idle" /\ pc'["main"] # "check"
      BY <2>2 DEF AtGold
    <3>2. w = "main" /\ pc[w] = "writeGold" /\ o = "gold"
      BY <3>1, <1>1, <1>2, <1>3, WorkersAre
    <3>3. \A t \in SilverScope : t \in Tables /\ t \notin TablesOf(o)
      BY <3>2, <1>0, SilverScopeIs
    <3> QED
      BY <3>2, <3>3, <1>0, <1>5 DEF Looks, AtGold
  <2>3. pc'["main"] \notin {"publishGold", "done"}
    <3>1. CASE w = "main"
      BY <3>1, <1>2
    <3>2. CASE w # "main"
      BY <3>2, <1>2, <1>3, WorkersAre
    <3> QED
      BY <3>1, <3>2
  <2> QED
    BY <1>1, <2>1, <2>2, <2>3 DEF Looks, SilverScope
<1>12. CountsKept'
  BY <1>0, <1>1, <1>5 DEF CountsKept
<1>13. GoldTold'
  <2>1. pc'["main"] \in AtGold => pc["main"] \in AtGold
    BY <1>1, <1>2, WorkersAre DEF AtGold
  <2>2. ASSUME NEW t \in TablesOf("gold"), NEW r \in dq, r.table = t
        PROVE  content'[t] = content[t]
    <3>1. CASE o = "gold"
      <4>1. w = "main" /\ pc[w] = "writeGold"
        BY <3>1, <1>1, <1>3, OwnersAreDistinct
      <4> QED
        BY <4>1, <2>2, <1>0 DEF GoldTold, AtGold
    <3>2. CASE o # "gold"
      BY <3>2, <1>6 DEF Owners
    <3> QED
      BY <3>1, <3>2
  <2> QED
    BY <1>0, <1>1, <2>1, <2>2 DEF GoldTold
<1>14. DropNoticedIfCovered'
  BY <1>0, <1>1 DEF DropNoticedIfCovered, Covered, DropNoticed
<1> QED
  BY <1>7, <1>8, <1>10, <1>11, <1>12, <1>13, <1>14, <1>15 DEF QInv

LEMMA ByHandSteps ==
  ASSUME QInv, NEW o \in Owners, WriteByHand(o)
  PROVE  QInv'
<1>0. /\ TypeOK /\ StillSo /\ CountsKept /\ DropNoticedIfCovered
      /\ commands \in Nat /\ MaxCommands \in Nat
  BY BoundsAreNatural DEF QInv, TypeOK
<1>1. /\ UNCHANGED <<dq, found, unread, counted, blind>>
      /\ AtRest /\ byHand' = TRUE /\ Rewrite(TablesOf(o))
      /\ commands' = commands + 1 /\ commands < MaxCommands
      /\ pc' = [w \in Workers |-> "idle"] /\ enabled' = {}
  BY DEF WriteByHand
<1>2. /\ content' \in [Tables -> Content \cup {Unwritten}]
      /\ \A t \in Tables : content'[t] = Unwritten => content[t] = Unwritten
      /\ looked' \in [Tables -> {"no", "lost", "read"}]
  BY <1>0, <1>1, Rewritten
<1>3. pc' \in [Workers -> PC] /\ \A w \in Workers : pc'[w] = "idle"
  BY <1>1 DEF PC
<1>4. TypeOK' /\ Beside'
  <2>1. TypeOK'
    BY <1>0, <1>1, <1>2, <1>3 DEF TypeOK
  <2> QED
    BY <1>1, <1>3, <2>1, WorkersAre DEF Beside
<1>5. StillSo'
  <2>1. \A w \in Workers : found[w] = {}
    BY <1>0, <1>1 DEF StillSo, AtRest, Ended, AtPublish
  <2> QED
    BY <1>1, <1>3, <2>1 DEF StillSo, AtPublish
<1>6. StaysValid' /\ Looks'
  BY <1>1, <1>3, WorkersAre DEF StaysValid, Looks, AtGold
<1>7. CountsKept'
  BY <1>0, <1>1, <1>2 DEF CountsKept
<1>8. GoldTold'
  BY <1>0, <1>1, <1>3, WorkersAre DEF GoldTold, AtGold
<1>9. DropNoticedIfCovered'
  BY <1>0, <1>1 DEF DropNoticedIfCovered, Covered, DropNoticed
<1> QED
  BY <1>4, <1>5, <1>6, <1>7, <1>8, <1>9 DEF QInv

------------------------------------------------------------------------------
(* The whole system.                                                       *)

LEMMA InitQuality == Init => QInv
<1> SUFFICES ASSUME Init PROVE QInv
  OBVIOUS
<1>1. TypeOK
  <2>1. commands \in 0 .. MaxCommands
    BY BoundsAreNatural DEF Init
  <2>4. byHand \in BOOLEAN
    BY Zenon DEF Init
  <2>2. pc \in [Workers -> PC] /\ found \in [Workers -> SUBSET Result]
    BY DEF Init, PC
  <2>3. /\ content \in [Tables -> Content \cup {Unwritten}]
        /\ counted \in [Tables -> RowCounts \cup {-1, 0}]
        /\ looked \in [Tables -> {"no", "lost", "read"}]
    BY DEF Init
  <2> QED
    BY <2>1, <2>2, <2>3, <2>4 DEF Init, TypeOK
<1>2. Beside /\ StillSo /\ StaysValid /\ Looks
  BY WorkersAre DEF Init, Beside, StillSo, StaysValid, Looks, AtPublish, AtGold
<1>3. CountsKept /\ GoldTold /\ DropNoticedIfCovered
  BY WorkersAre
     DEF Init, CountsKept, GoldTold, DropNoticedIfCovered, DropNoticed, AtGold
<1> QED
  BY <1>1, <1>2, <1>3 DEF QInv

LEMMA NextQuality == QInv /\ [Next]_vars => QInv'
<1> SUFFICES ASSUME QInv, [Next]_vars PROVE QInv'
  OBVIOUS
<1>1. CASE UNCHANGED vars
  <2>1. TypeOK' /\ Beside' /\ StaysValid' /\ Looks'
    BY <1>1 DEF vars, QInv, TypeOK, Beside, StaysValid, Fails, Looks, SilverScope
  <2>2. StillSo'
    BY <1>1 DEF vars, QInv, StillSo, FoundFor, SilverScope, Tells
  <2>3. CountsKept' /\ GoldTold' /\ DropNoticedIfCovered'
    BY <1>1 DEF vars, QInv, CountsKept, GoldTold, DropNoticedIfCovered, DropNoticed, Covered
  <2> QED
    BY <2>1, <2>2, <2>3 DEF QInv
<1>2. CASE Next
  BY <1>2, PlainSteps, CheckSteps, PublishSteps, WriteSteps, ByHandSteps DEF Next
<1> QED
  BY <1>1, <1>2

\* The silver that gold is built from is as valid as the connectors' tasks and the
\* consolidate task left it, if they could read it, whoever has overwritten data_quality
\* since.
LEMMA AnsweredIsValid ==
  ASSUME QInv, pc["main"] \in {"writeGold", "done"}
  PROVE  \A t \in Answered : looked[t] = "lost" \/ ~content[t].broken
<1>1. /\ TypeOK /\ Beside /\ Looks /\ StaysValid
      /\ enabled \subseteq Connectors /\ enabled # {}
      /\ \A c \in enabled : pc[c] \in {"done", "skipped"}
  BY DEF QInv, TypeOK, Beside
<1>2. ASSUME NEW t \in Tables, looked[t] = "read"
      PROVE  ~content[t].broken
  <2>1. ASSUME NEW v \in Workers PROVE ~Fails(v)
    <3>1. CASE v = "main"
      BY <3>1 DEF Fails, AtPublish
    <3>2. CASE v # "main"
      BY <3>2, <1>1, MainAlone DEF Fails, AtPublish
    <3> QED
      BY <3>1, <3>2
  <2> QED
    BY <2>1, <1>1, <1>2 DEF StaysValid
<1> SUFFICES ASSUME NEW t \in Answered PROVE looked[t] = "lost" \/ ~content[t].broken
  OBVIOUS
<1>3. t \in Tables /\ looked[t] # "no"
  <2>1. CASE t \in SilverScope
    BY <2>1, <1>1, SilverScopeIs DEF Looks, AtGold
  <2>2. CASE t \in {c \in enabled : pc[c] # "skipped"} \X {"snapshot"}
    <3>1. PICK c \in {c \in enabled : pc[c] # "skipped"} : t = <<c, "snapshot">>
      BY <2>2
    <3>2. c \in Connectors /\ pc[c] = "done"
      BY <1>1, <3>1
    <3>3. t \in TablesOf(c)
      BY <3>1, <3>2, OwnerTables
    <3>4. t \in Tables
      BY <3>2, <3>3, TableOfOwner DEF Owners
    <3> QED
      BY <1>1, <3>2, <3>3, <3>4 DEF Looks
  <2> QED
    BY <2>1, <2>2 DEF Answered, SilverScope
<1>4. looked[t] \in {"no", "lost", "read"}
  BY <1>1, <1>3 DEF TypeOK
<1> QED
  BY <1>2, <1>3, <1>4

LEMMA GreenIsRight == QInv => GreenIsValid
<1> SUFFICES ASSUME QInv, pc["main"] = "done", NEW t \in TablesOf("gold"), content[t].broken
             PROVE  looked[t] = "lost"
  BY AnsweredIsValid DEF GreenIsValid
<1>1. t \in Tables /\ looked[t] # "no"
  BY TableOfOwner DEF QInv, Looks, Owners
<1>2. ASSUME NEW v \in Workers PROVE ~Fails(v)
  <2>1. CASE v = "main"
    BY <2>1 DEF Fails, AtPublish
  <2>2. CASE v # "main"
    BY <2>2, MainAlone DEF QInv, Fails, AtPublish
  <2> QED
    BY <2>1, <2>2
<1>3. enabled # {}
  BY DEF QInv, Beside
<1>4. looked[t] # "read"
  BY <1>1, <1>2, <1>3 DEF QInv, StaysValid
<1> QED
  BY <1>1, <1>4 DEF QInv, TypeOK

\* The variables keep their types.
THEOREM QualityTypes == Spec => []TypeOK
<1>1. QInv => TypeOK
  BY DEF QInv
<1> QED
  BY InitQuality, NextQuality, <1>1, PTL DEF Spec

\* When the consolidate task has succeeded, no table its execution answers for and no
\* gold table is broken, unless no validation of the execution could read it, though
\* each of its validations overwrote the one before (cmd_run_connector and
\* cmd_run_consolidate_analytics exit non-zero on a FAIL, and a table that cannot be
\* read is a WARN).
THEOREM GreenMeansValid == Spec => []GreenIsValid
<1> QED
  BY InitQuality, NextQuality, GreenIsRight, PTL DEF Spec

\* Gold is rewritten only from silver none of which is broken, unless no validation of
\* the execution could read it.
THEOREM GoldBuiltFromValid == Spec => GoldFromValidSilver
<1>1. QInv /\ [Next]_vars =>
         [pc["main"] = "writeGold" /\ content' # content =>
              \A t \in Answered : looked[t] = "lost" \/ ~content[t].broken]_vars
  BY AnsweredIsValid
<1> QED
  BY InitQuality, NextQuality, <1>1, PTL DEF Spec, GoldFromValidSilver

\* As long as data_quality has the counts of every table ever counted, a table that lost
\* more than half of its rows since its last validation is reported by a check that can
\* read data_quality, not called stable.
THEOREM DropsAreNoticed == Spec => []DropNoticedIfCovered
<1>1. QInv => DropNoticedIfCovered
  BY DEF QInv
<1> QED
  BY InitQuality, NextQuality, <1>1, PTL DEF Spec

\* A section is hidden by the failure of one of its gold tables and by nothing else.
LEMMA HiddenByGold ==
  ASSUME QInv, NEW s \in Sections, NEW missing \in SUBSET Gold
  PROVE  s \cap FailedTables(missing) =
           {n \in s \cap Gold : \E r \in dq : r.table = <<"gold", n>> /\ r.status = "FAIL"}
<1>1. \A t \in Tables : \/ t \in {"gold"} \X Gold \/ t[2] \in Silver
                        \/ t[2] \in {"snapshot", "events"}
  <2> SUFFICES ASSUME NEW o \in Owners, NEW t \in TablesOf(o)
               PROVE  \/ t \in {"gold"} \X Gold \/ t[2] \in Silver
                      \/ t[2] \in {"snapshot", "events"}
    BY DEF Tables
  <2>1. CASE o \in Connectors
    <3>1. t \in {o} \X {"snapshot", "events"}
      BY <2>1, OwnerTables
    <3> QED
      BY <3>1
  <2>2. CASE o = "silver"
    <3>1. t \in {"silver"} \X Silver
      BY <2>2, OwnerTables
    <3> QED
      BY <3>1
  <2>3. CASE o = "gold"
    BY <2>3, OwnerTables
  <2> QED
    BY <2>1, <2>2, <2>3 DEF Owners
<1>2. \A n \in s : n \notin Silver /\ n \notin {"snapshot", "events"}
  BY NamesAreDistinct DEF Sections
<1>3. \A r \in dq : r.table \in Tables
  BY DEF QInv, TypeOK, Result
<1>6. FailedTables(missing) = {r.table[2] : r \in {q \in dq : q.status = "FAIL"}}
  BY NamesAreDistinct DEF FailedTables
<1>4. ASSUME NEW n \in s, n \in FailedTables(missing)
      PROVE  n \in Gold /\ \E r \in dq : r.table = <<"gold", n>> /\ r.status = "FAIL"
  <2>1. PICK r \in dq : r.status = "FAIL" /\ n = r.table[2]
    BY <1>4, <1>6
  <2>2. r.table \in {"gold"} \X Gold
    BY <1>1, <1>2, <1>3, <2>1
  <2>3. r.table = <<"gold", n>> /\ n \in Gold
    BY <2>1, <2>2
  <2> QED
    BY <2>1, <2>3
<1>5. ASSUME NEW n \in s \cap Gold, NEW r \in dq, r.table = <<"gold", n>>, r.status = "FAIL"
      PROVE  n \in FailedTables(missing)
  <2>1. r.table[2] = n
    BY <1>5
  <2> QED
    BY <1>5, <1>6, <2>1
<1> QED
  BY <1>4, <1>5

LEMMA ReportIsRight == QInv => ReportHidesBroken
<1> SUFFICES ASSUME QInv, ~byHand,
                    NEW missing \in SUBSET Gold, NEW s \in Sections,
                    \A n \in s \cap Gold : Judged(n)
             PROVE  s \in Shown(missing) <=>
                      /\ \E t \in s : Rows(t, missing) > 0
                      /\ \A t \in s \cap Gold : ~content[<<"gold", t>>].broken
  BY DEF ReportHidesBroken
<1>1. \A n \in Gold : <<"gold", n>> \in TablesOf("gold")
  BY OwnerTables
<1>2. ASSUME NEW n \in s \cap Gold
      PROVE  (\E r \in dq : r.table = <<"gold", n>> /\ r.status = "FAIL")
                 <=> content[<<"gold", n>>].broken
  BY <1>1 DEF QInv, GoldTold, Judged
<1>3. Hides(s, missing) <=> \E n \in s \cap Gold : content[<<"gold", n>>].broken
  BY <1>2, HiddenByGold DEF Hides
<1> QED
  BY <1>3 DEF Shown

\* As long as data_quality can be read and has the verdicts on a section's gold tables,
\* and no table was rewritten by hand, the report shows the section if and only if none
\* of its tables is broken and one it could read has rows (_dq_failed_tables), however
\* executions ended and whichever gold tables it fails to read.
THEOREM ReportIsHonest == Spec => []ReportHidesBroken
<1> QED
  BY InitQuality, NextQuality, ReportIsRight, PTL DEF Spec
==============================================================================
