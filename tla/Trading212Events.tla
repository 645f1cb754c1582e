-------------------------- MODULE Trading212Events --------------------------
(***************************************************************************)
(* The Trading 212 events fetch in detail: three paginated history         *)
(* endpoints, newest item first, each followed by `nextPagePath` until it  *)
(* ends, all of them or nothing ingested; the raw table's retention key    *)
(* without the pagination suffix; and the events transform and MERGE on    *)
(* (event_type, event_id).  New items are added to the histories between   *)
(* any two requests.  One run at a time; Connector has the overlaps.       *)
(***************************************************************************)
EXTENDS Integers, Sequences, FiniteSetsExt

CONSTANTS
    Endpoints,   \* the history endpoints, in the order they are requested
    PageSize,    \* items per page
    MaxItems,    \* bound on the items of one history
    MaxFetches   \* bound on the number of runs

ASSUME SizesArePositive == PageSize \in Nat \ {0} /\ MaxItems \in Nat /\ MaxFetches \in Nat

Endpoint == {Endpoints[i] : i \in DOMAIN Endpoints}

ASSUME EndpointsAreDistinct ==
    /\ Endpoints \in Seq(Endpoint) /\ Endpoints # <<>>
    /\ \A i, j \in DOMAIN Endpoints : Endpoints[i] = Endpoints[j] => i = j

Id == 1 .. MaxItems       \* an item's place in its endpoint's history; the endpoints
                          \* number their items independently of each other
Fetched == 1 .. MaxFetches

RawRow == [source : Endpoint, at : Fetched, items : SUBSET Id]
Event  == [source : Endpoint, id : Id, at : Fetched]

VARIABLES
    history,    \* how many items each endpoint's history has
    fetch,      \* the current or last run
    raw,        \* raw/trading212
    stored,     \* normalized/trading212_events
    before      \* history: the histories when the current run began

vars == <<history, fetch, raw, stored, before>>

PC == {"idle", "request", "ingest", "transform", "green", "red"}

\* left: endpoints still to request, the first of them now; next: the cursor of
\* the page asked for, every item when MaxItems + 1; captured: the current
\* endpoint's pages; rows: the pages of the finished endpoints.
NoFetch == [pc |-> "idle", at |-> 0, left |-> <<>>, next |-> MaxItems + 1,
            captured |-> <<>>, rows |-> <<>>, failed |-> FALSE]

---------------------------------------------------------------------------
(* The API.                                                                *)

\* The newest PageSize items older than the cursor.
Page(ep, cursor) ==
    LET top == Min({cursor - 1, history[ep]})
    IN  {i \in 1 .. top : i > top - PageSize}

\* nextPagePath: the cursor after a page, 0 when there is none.
NextPage(items) == IF items = {} \/ 1 \in items THEN 0 ELSE Min(items)

ItemAdded(ep) ==
    /\ history[ep] < MaxItems
    /\ history' = [history EXCEPT ![ep] = @ + 1]
    /\ UNCHANGED <<fetch, raw, stored, before>>

---------------------------------------------------------------------------
(* fetch_events and _fetch_paginated.                                      *)

Begin ==
    /\ fetch.pc \in {"idle", "green", "red"}
    /\ fetch.at < MaxFetches
    /\ fetch' = [NoFetch EXCEPT !.pc = "request", !.at = fetch.at + 1,
                                !.left = Endpoints]
    /\ before' = history
    /\ UNCHANGED <<history, raw, stored>>

\* The fetch after the endpoint at the head of `left`, whose rows are given: once
\* the last endpoint is done, a failure of any of them raises.
AfterEndpoint(rec, rows) ==
    LET done == [rec EXCEPT !.left = Tail(@), !.next = MaxItems + 1,
                            !.captured = <<>>, !.rows = @ \o rows]
    IN  IF done.left # <<>> THEN done
        ELSE [done EXCEPT !.pc = IF done.failed THEN "red" ELSE "ingest"]

RowsOf(rec, pages) ==
    [i \in DOMAIN pages |-> [source |-> Head(rec.left), at |-> rec.at, items |-> pages[i]]]

\* Faulty: the pages after the first are not requested.
AnswerFirstOnly ==
    /\ fetch.pc = "request"
    /\ LET items == Page(Head(fetch.left), fetch.next)
       IN  fetch' = AfterEndpoint(fetch, RowsOf(fetch, <<items>>))
    /\ UNCHANGED <<history, raw, stored, before>>

\* One request and its answer.
Answer ==
    /\ fetch.pc = "request"
    /\ LET items == Page(Head(fetch.left), fetch.next)
           pages == Append(fetch.captured, items)
       IN  fetch' = IF NextPage(items) # 0
                    THEN [fetch EXCEPT !.next = NextPage(items), !.captured = pages]
                    ELSE AfterEndpoint(fetch, RowsOf(fetch, pages))
    /\ UNCHANGED <<history, raw, stored, before>>

\* Faulty: an endpoint that failed is skipped.
RequestFailsSilently ==
    /\ fetch.pc = "request"
    /\ fetch' = AfterEndpoint(fetch, <<>>)
    /\ UNCHANGED <<history, raw, stored, before>>

\* An HTTP error, a non-JSON or an unexpected answer: the endpoint's pages are
\* dropped, the next endpoint is still requested.
RequestFails ==
    /\ fetch.pc = "request"
    /\ fetch' = AfterEndpoint([fetch EXCEPT !.failed = TRUE], <<>>)
    /\ UNCHANGED <<history, raw, stored, before>>

---------------------------------------------------------------------------
(* ingest_raw, transform_events, _merge_events.                            *)

\* Of the rows of one key, all of one fetch, the last of the batch is kept.
Retained(rows) ==
    {rows[i] : i \in {j \in DOMAIN rows :
                        \A k \in j + 1 .. Len(rows) : rows[k].source # rows[j].source}}

\* Matched keys are replaced, new keys inserted, absent keys left alone.
Ingest ==
    /\ fetch.pc = "ingest"
    /\ LET kept == Retained(fetch.rows)
       IN  raw' = kept \union
                  {row \in raw : \A new \in kept : new.source # row.source}
    /\ fetch' = [fetch EXCEPT !.pc = "transform"]
    /\ UNCHANGED <<history, stored, before>>

\* The identity of an event is (event_type, event_id).
SameEvent(a, b) == a.source = b.source /\ a.id = b.id

EventsOf(rows) ==
    {ev \in Event : \E row \in rows :
        row.source = ev.source /\ row.at = ev.at /\ ev.id \in row.items}

\* The in-batch deduplication, then update-if-newer, insert, never delete.
Transform ==
    /\ fetch.pc = "transform"
    /\ LET all   == EventsOf(raw)
           newest(ev) == CHOOSE o \in all :
                            /\ SameEvent(o, ev)
                            /\ \A p \in all : SameEvent(p, ev) => p.at <= o.at
           batch == {newest(ev) : ev \in all}
           older(ev) == \E new \in batch : SameEvent(new, ev) /\ new.at > ev.at
           insert == {new \in batch : \A ev \in stored : SameEvent(new, ev) => new.at > ev.at}
       IN  stored' = {ev \in stored : ~older(ev)} \union insert
    /\ fetch' = [fetch EXCEPT !.pc = "green"]
    /\ UNCHANGED <<history, raw, before>>

\* The ingest or the transform raises, or the task is killed.
Aborted ==
    /\ fetch.pc \in {"request", "ingest", "transform"}
    /\ fetch' = [fetch EXCEPT !.pc = "red"]
    /\ UNCHANGED <<history, raw, stored, before>>

---------------------------------------------------------------------------

Init ==
    /\ history = [ep \in Endpoint |-> 0]
    /\ fetch = NoFetch
    /\ raw = {}
    /\ stored = {}
    /\ before = history

RunStep == Begin \/ Answer \/ RequestFails \/ Ingest \/ Transform \/ Aborted

Next == RunStep \/ \E ep \in Endpoint : ItemAdded(ep)

Spec == Init /\ [][Next]_vars

---------------------------------------------------------------------------
(* Correctness.                                                            *)

FetchRecord ==
    [pc : PC, at : 0 .. MaxFetches, left : Seq(Endpoint), next : 1 .. MaxItems + 1,
     captured : Seq(SUBSET Id), rows : Seq(RawRow), failed : BOOLEAN]

\* The type of every variable.
TypeOK ==
    /\ history \in [Endpoint -> 0 .. MaxItems]
    /\ fetch \in FetchRecord
    /\ raw \subseteq RawRow /\ stored \subseteq Event
    /\ before \in [Endpoint -> 0 .. MaxItems]

PagesOf(ep) == {i \in DOMAIN fetch.rows : fetch.rows[i].source = ep}

\* The pages of a fetch that did not fail hold every item that was there when it
\* began, each once, although items are added between the requests.
PagesCoverHistory ==
    fetch.pc \in {"ingest", "transform", "green"} =>
        \A ep \in Endpoint :
            /\ 1 .. before[ep] \subseteq UNION {fetch.rows[i].items : i \in PagesOf(ep)}
            /\ \A i, j \in PagesOf(ep) :
                    i # j => fetch.rows[i].items \intersect fetch.rows[j].items = {}

\* The raw rows of the three endpoints are always of one fetch: a fetch with a
\* failed endpoint leaves all of them alone.
EndpointsOfOneFetch ==
    /\ \A a, b \in raw : a.at = b.at
    /\ raw # {} => \A ep \in Endpoint : \E row \in raw : row.source = ep

\* A run that ends green has stored every item it was served, of every page.
AllPagesStored ==
    fetch.pc = "green" =>
        \A i \in DOMAIN fetch.rows : \A id \in fetch.rows[i].items :
            \E ev \in stored : ev.source = fetch.rows[i].source /\ ev.id = id
============================================================================
