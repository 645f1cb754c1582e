--------------------------- MODULE TransferProofs ---------------------------
(***************************************************************************)
(* Proofs about the transfers that go piece by piece.  Of the fetch of     *)
(* Trading 212's history: for any endpoints, page size, histories and      *)
(* fetches, what is served in pages is the whole history, and bronze has   *)
(* all endpoints of one fetch.  Of the staged upload, for any files and    *)
(* attempts: the current snapshot can always be read, even with another    *)
(* writer about, and until that one commits again it is the old table or   *)
(* one new copy.                                                           *)
(***************************************************************************)
EXTENDS Trading212Events, StagedUpload, TLAPS

\* The endpoints the fetch is not done with.
Due == {fetch.left[k] : k \in DOMAIN fetch.left}

\* The rows have every item an endpoint had when the fetch began, and there is a last
\* row of it.
Complete(rows, ep) ==
    /\ 1 .. before[ep] \subseteq
           UNION {rows[i].items : i \in {j \in DOMAIN rows : rows[j].source = ep}}
    /\ \E i \in DOMAIN rows :
           /\ rows[i].source = ep
           /\ \A k \in i + 1 .. Len(rows) : rows[k].source # ep

\* No item is in two rows of an endpoint.
Apart(rows) ==
    \A i, j \in DOMAIN rows :
        i # j /\ rows[i].source = rows[j].source => rows[i].items \intersect rows[j].items = {}

\* What is requested and what is done at the places of a fetch.
Requesting ==
    /\ fetch.pc = "request" => fetch.left # <<>> /\ fetch.at > 0
    /\ fetch.pc \in {"ingest", "transform", "green"} => fetch.left = <<>> /\ ~fetch.failed
    /\ \A i, j \in DOMAIN fetch.left : fetch.left[i] = fetch.left[j] => i = j

RowsOfDone ==
    \A i \in DOMAIN fetch.rows : fetch.rows[i].at = fetch.at /\ fetch.rows[i].source \notin Due

DoneComplete ==
    fetch.pc # "red" /\ ~fetch.failed =>
        \A ep \in Endpoint \ Due : fetch.pc # "idle" => Complete(fetch.rows, ep)

\* The pages captured so far have what the endpoint had from the cursor on, and nothing
\* before it, each item once.
UpToTheCursor ==
    fetch.pc = "request" =>
        /\ fetch.next .. before[Head(fetch.left)] \subseteq
               UNION {fetch.captured[i] : i \in DOMAIN fetch.captured}
        /\ \A i \in DOMAIN fetch.captured : \A id \in fetch.captured[i] : id >= fetch.next
        /\ \A i, j \in DOMAIN fetch.captured :
               i # j => fetch.captured[i] \intersect fetch.captured[j] = {}

HistoryGrows == \A ep \in Endpoint : before[ep] <= history[ep]

Paging ==
    /\ TypeOK /\ HistoryGrows /\ Requesting /\ RowsOfDone /\ Apart(fetch.rows)
    /\ DoneComplete /\ UpToTheCursor /\ EndpointsOfOneFetch

-----------------------------------------------------------------------------
(* A page and its cursor.                                                  *)

LEMMA LessOfTwo ==
  ASSUME NEW a \in Int, NEW b \in Int
  PROVE  Min({a, b}) \in Int /\ Min({a, b}) <= a /\ Min({a, b}) <= b /\ Min({a, b}) \in {a, b}
<1>1. \E x \in {a, b} : \A y \in {a, b} : x =< y
  OBVIOUS
<1>2. Min({a, b}) \in {a, b} /\ \A y \in {a, b} : Min({a, b}) =< y
  BY <1>1 DEF Min
<1> QED
  BY <1>2

\* A page has the newest items before its cursor: between its cursor and the next lies
\* nothing else that was there.
LEMMA PageIs ==
  ASSUME TypeOK, NEW ep \in Endpoint, NEW cursor \in 1 .. MaxItems + 1
  PROVE  /\ Page(ep, cursor) \in SUBSET Id
         /\ \A id \in Page(ep, cursor) : id < cursor
         /\ NextPage(Page(ep, cursor)) \in 0 .. MaxItems
         /\ \A id \in Page(ep, cursor) : id >= NextPage(Page(ep, cursor))
         /\ \A id \in 1 .. history[ep] :
                NextPage(Page(ep, cursor)) <= id /\ id < cursor => id \in Page(ep, cursor)
<1> DEFINE top == Min({cursor - 1, history[ep]})
           items == Page(ep, cursor)
<1>1. MaxItems \in Nat /\ PageSize \in Nat /\ PageSize > 0
  BY SizesArePositive
<1>2. cursor \in Int /\ cursor - 1 \in Int /\ history[ep] \in Int /\ history[ep] \in 0 .. MaxItems
  BY <1>1 DEF TypeOK
<1>3. top \in Int /\ top <= cursor - 1 /\ top <= history[ep] /\ top \in {cursor - 1, history[ep]}
  BY <1>2, LessOfTwo
<1>4. items = {i \in 1 .. top : i > top - PageSize}
  BY DEF Page
<1> HIDE DEF top, items
<1>5. items \in SUBSET Id /\ \A id \in items : id < cursor
  BY <1>1, <1>2, <1>3, <1>4 DEF Id
<1>6. CASE items = {} \/ 1 \in items
  <2>1. NextPage(items) = 0
    BY <1>6 DEF NextPage
  <2>2. \A id \in 1 .. history[ep] : id < cursor => id \in items
    <3> SUFFICES ASSUME NEW id \in 1 .. history[ep], id < cursor
                 PROVE  id \in items
      OBVIOUS
    <3>1. id <= top
      BY <1>2, <1>3
    <3>2. top \in items
      BY <1>1, <1>3, <1>4, <3>1
    <3>3. 1 > top - PageSize
      BY <1>4, <1>6, <3>2
    <3> QED
      BY <1>1, <1>2, <1>3, <1>4, <3>1, <3>3
  <2> QED
    BY <1>1, <1>5, <2>1, <2>2 DEF items, Id
<1>7. CASE items # {} /\ 1 \notin items
  <2>1. top >= 1 /\ top - PageSize >= 1
    BY <1>1, <1>3, <1>4, <1>7
  <2>2. top - PageSize + 1 \in items /\ \A id \in items : top - PageSize + 1 =< id
    BY <1>1, <1>3, <1>4, <2>1
  <2>3. Min(items) \in items /\ \A id \in items : Min(items) =< id
    BY <2>2 DEF Min
  <2>4. NextPage(items) = Min(items)
    BY <1>7 DEF NextPage
  <2>5. Min(items) > top - PageSize /\ Min(items) \in 1 .. MaxItems
    BY <1>4, <1>5, <2>3 DEF Id
  <2>6. \A id \in 1 .. history[ep] : Min(items) <= id /\ id < cursor => id \in items
    BY <1>1, <1>2, <1>3, <1>4, <2>5
  <2> QED
    BY <1>1, <1>5, <2>3, <2>4, <2>5, <2>6 DEF items
<1> QED
  BY <1>6, <1>7

-----------------------------------------------------------------------------
(* An endpoint's pages become rows.                                        *)

PageRows(ep, at, pages) ==
    [i \in DOMAIN pages |-> [source |-> ep, at |-> at, items |-> pages[i]]]

WithPages(rows, ep, at, pages) == rows \o PageRows(ep, at, pages)

\* A row is one of the rows before, or of the endpoint and this fetch.
OldOrOf(all, rows, ep, at) ==
    \A i \in DOMAIN all : \/ i \in DOMAIN rows /\ all[i] = rows[i]
                          \/ all[i].source = ep /\ all[i].at = at

LEMMA PageRowsType ==
  ASSUME NEW ep \in Endpoint, NEW at \in Fetched, NEW pages \in Seq(SUBSET Id)
  PROVE  PageRows(ep, at, pages) \in Seq(RawRow) /\ Len(PageRows(ep, at, pages)) = Len(pages)
<1>1. PageRows(ep, at, pages) \in [1 .. Len(pages) -> RawRow] /\ Len(pages) \in Nat
  BY DEF PageRows, RawRow
<1> QED
  BY <1>1

LEMMA AddEndpoint ==
  ASSUME NEW rows \in Seq(RawRow), NEW ep \in Endpoint, NEW at \in Fetched,
         NEW pages \in Seq(SUBSET Id),
         \A i \in DOMAIN rows : rows[i].source # ep
  PROVE  LET all == WithPages(rows, ep, at, pages) IN
         /\ all \in Seq(RawRow)
         /\ OldOrOf(all, rows, ep, at)
         /\ \A other \in Endpoint \ {ep} : Complete(rows, other) => Complete(all, other)
         /\ /\ pages # <<>>
            /\ 1 .. before[ep] \subseteq UNION {pages[i] : i \in DOMAIN pages}
            => Complete(all, ep)
         /\ /\ Apart(rows)
            /\ \A i, j \in DOMAIN pages : i # j => pages[i] \intersect pages[j] = {}
            => Apart(all)
<1> DEFINE new == PageRows(ep, at, pages)
           all == WithPages(rows, ep, at, pages)
           n == Len(rows)
           m == Len(pages)
<1>1. n \in Nat /\ m \in Nat /\ DOMAIN rows = 1 .. n /\ DOMAIN pages = 1 .. m
  OBVIOUS
<1>2. new \in Seq(RawRow) /\ Len(new) = m
  BY PageRowsType
<1>3. \A i \in 1 .. m : new[i].source = ep /\ new[i].at = at /\ new[i].items = pages[i]
  BY <1>1 DEF PageRows
<1>0. all = rows \o new
  BY DEF WithPages
<1> HIDE DEF new, all
<1>4. all \in Seq(RawRow) /\ Len(all) = n + m /\ DOMAIN all = 1 .. n + m
  <2>1. rows \o new \in Seq(RawRow) /\ Len(rows \o new) = n + m
    BY <1>2
  <2>2. all \in Seq(RawRow) /\ Len(all) = n + m
    BY <1>0, <2>1
  <2> QED
    BY <2>2
<1>5. \A i \in 1 .. n : all[i] = rows[i]
  BY <1>0, <1>1, <1>2
<1>6. \A i \in 1 .. m : all[n + i] = new[i]
  BY <1>0, <1>1, <1>2
<1>7. \A i \in n + 1 .. n + m :
          i - n \in 1 .. m /\ all[i].source = ep /\ all[i].at = at /\ all[i].items = pages[i - n]
  <2> TAKE i \in n + 1 .. n + m
  <2>1. i - n \in 1 .. m /\ n + (i - n) = i
    BY <1>1
  <2>2. all[i] = new[i - n]
    BY <1>6, <2>1
  <2> QED
    BY <1>3, <2>1, <2>2
<1>8. \A i \in 1 .. n + m : i \in 1 .. n \/ i \in n + 1 .. n + m
  BY <1>1
<1> HIDE DEF all, n, m
<1>9. OldOrOf(all, rows, ep, at)
  BY <1>1, <1>4, <1>5, <1>7, <1>8 DEF OldOrOf
<1>10. ASSUME NEW other \in Endpoint \ {ep}, Complete(rows, other)
       PROVE  Complete(all, other)
  <2>1. {rows[i].items : i \in {j \in DOMAIN rows : rows[j].source = other}}
            \subseteq {all[i].items : i \in {j \in DOMAIN all : all[j].source = other}}
    BY <1>1, <1>4, <1>5
  <2>2. 1 .. before[other] \subseteq
            UNION {all[i].items : i \in {j \in DOMAIN all : all[j].source = other}}
    BY <1>10, <2>1 DEF Complete
  <2>3. PICK i \in DOMAIN rows : /\ rows[i].source = other
                                 /\ \A k \in i + 1 .. n : rows[k].source # other
    BY <1>10 DEF Complete, n
  <2>4. i \in DOMAIN all /\ all[i].source = other
    BY <1>1, <1>4, <1>5, <2>3
  <2>5. \A k \in i + 1 .. n + m : all[k].source # other
    BY <1>1, <1>5, <1>7, <1>8, <2>3
  <2> QED
    BY <1>4, <2>2, <2>4, <2>5 DEF Complete
<1>11. ASSUME pages # <<>>, 1 .. before[ep] \subseteq UNION {pages[i] : i \in DOMAIN pages}
       PROVE  Complete(all, ep)
  <2>1. \A i \in DOMAIN pages :
            pages[i] \in {all[k].items : k \in {j \in DOMAIN all : all[j].source = ep}}
    <3> TAKE i \in DOMAIN pages
    <3>1. n + i \in n + 1 .. n + m /\ (n + i) - n = i /\ n + i \in DOMAIN all
      BY <1>1, <1>4
    <3> QED
      BY <1>7, <3>1
  <2>2. 1 .. before[ep] \subseteq
            UNION {all[k].items : k \in {j \in DOMAIN all : all[j].source = ep}}
    BY <1>11, <2>1
  <2>3. m > 0
    BY <1>11, <1>1 DEF m
  <2>4. n + m \in n + 1 .. n + m /\ n + m \in DOMAIN all /\ (n + m) + 1 .. n + m = {}
    BY <1>1, <1>4, <2>3
  <2> QED
    BY <1>4, <1>7, <2>2, <2>4 DEF Complete
<1>12. ASSUME Apart(rows),
              \A i, j \in DOMAIN pages : i # j => pages[i] \intersect pages[j] = {}
       PROVE  Apart(all)
  <2> SUFFICES ASSUME NEW i \in DOMAIN all, NEW j \in DOMAIN all,
                      i # j, all[i].source = all[j].source
               PROVE  all[i].items \intersect all[j].items = {}
    BY DEF Apart
  <2>1. CASE i \in 1 .. n /\ j \in 1 .. n
    BY <1>1, <1>5, <1>12, <2>1 DEF Apart
  <2>2. CASE i \in n + 1 .. n + m /\ j \in n + 1 .. n + m
    <3>1. i - n # j - n
      BY <1>1, <2>2
    <3> QED
      BY <1>1, <1>7, <1>12, <2>2, <3>1
  <2>3. CASE i \in 1 .. n /\ j \in n + 1 .. n + m
    BY <1>1, <1>5, <1>7, <2>3
  <2>4. CASE j \in 1 .. n /\ i \in n + 1 .. n + m
    BY <1>1, <1>5, <1>7, <2>4
  <2> QED
    BY <1>4, <1>8, <2>1, <2>2, <2>3, <2>4
<1> QED
  BY <1>4, <1>9, <1>10, <1>11, <1>12 DEF all

-----------------------------------------------------------------------------
(* The steps of a fetch.                                                   *)

LEMMA TailIsDue ==
  ASSUME NEW left \in Seq(Endpoint), left # <<>>,
         \A i, j \in DOMAIN left : left[i] = left[j] => i = j
  PROVE  /\ Head(left) \in Endpoint /\ Tail(left) \in Seq(Endpoint)
         /\ Head(left) \in {left[k] : k \in DOMAIN left}
         /\ {Tail(left)[k] : k \in DOMAIN Tail(left)} =
                {left[k] : k \in DOMAIN left} \ {Head(left)}
         /\ \A i, j \in DOMAIN Tail(left) : Tail(left)[i] = Tail(left)[j] => i = j
<1>1. /\ Len(left) \in Nat /\ Len(left) > 0 /\ DOMAIN left = 1 .. Len(left)
      /\ Head(left) = left[1] /\ Tail(left) \in Seq(Endpoint)
      /\ DOMAIN Tail(left) = 1 .. Len(left) - 1
      /\ \A k \in 1 .. Len(left) - 1 : Tail(left)[k] = left[k + 1]
  OBVIOUS
<1>2. \A i, j \in DOMAIN Tail(left) : Tail(left)[i] = Tail(left)[j] => i = j
  BY <1>1
<1>3. \A k \in DOMAIN Tail(left) : k + 1 \in DOMAIN left /\ k + 1 # 1
  BY <1>1
<1>4. {Tail(left)[k] : k \in DOMAIN Tail(left)} \subseteq
          {left[k] : k \in DOMAIN left} \ {Head(left)}
  BY <1>1, <1>3
<1>5. \A k \in DOMAIN left : k # 1 => k - 1 \in DOMAIN Tail(left) /\ left[k] = Tail(left)[k - 1]
  BY <1>1
<1>6. {left[k] : k \in DOMAIN left} \ {Head(left)} \subseteq
          {Tail(left)[k] : k \in DOMAIN Tail(left)}
  <2> SUFFICES ASSUME NEW k \in DOMAIN left, left[k] # Head(left)
               PROVE  left[k] \in {Tail(left)[i] : i \in DOMAIN Tail(left)}
    OBVIOUS
  <2>1. k # 1
    BY <1>1
  <2> QED
    BY <1>5, <2>1
<1> QED
  BY <1>1, <1>2, <1>4, <1>6

LEMMA AfterEndpointIs ==
  ASSUME NEW rec \in FetchRecord, rec.pc = "request", rec.left # <<>>,
         NEW rows \in Seq(RawRow)
  PROVE  LET done == AfterEndpoint(rec, rows) IN
         /\ done \in FetchRecord
         /\ done.left = Tail(rec.left) /\ done.next = MaxItems + 1 /\ done.captured = <<>>
         /\ done.rows = rec.rows \o rows /\ done.failed = rec.failed /\ done.at = rec.at
         /\ done.pc = IF Tail(rec.left) # <<>> THEN "request"
                      ELSE IF rec.failed THEN "red" ELSE "ingest"
<1> DEFINE on == [rec EXCEPT !.left = Tail(@), !.next = MaxItems + 1,
                             !.captured = <<>>, !.rows = @ \o rows]
<1>1. MaxItems + 1 \in 1 .. MaxItems + 1
  BY SizesArePositive
<1>2. /\ Tail(rec.left) \in Seq(Endpoint) /\ <<>> \in Seq(SUBSET Id)
      /\ rec.rows \o rows \in Seq(RawRow)
  BY DEF FetchRecord
<1>3. /\ on \in FetchRecord
      /\ on.left = Tail(rec.left) /\ on.next = MaxItems + 1 /\ on.captured = <<>>
      /\ on.rows = rec.rows \o rows /\ on.failed = rec.failed /\ on.at = rec.at
      /\ on.pc = "request"
  BY <1>1, <1>2 DEF FetchRecord
<1>4. AfterEndpoint(rec, rows) =
          IF on.left # <<>> THEN on ELSE [on EXCEPT !.pc = IF on.failed THEN "red" ELSE "ingest"]
  BY DEF AfterEndpoint
<1> HIDE DEF on
<1>5. "red" \in PC /\ "ingest" \in PC
  BY DEF PC
<1> QED
  BY <1>3, <1>4, <1>5 DEF FetchRecord

\* The endpoint is done, with all of its pages or with a failure.
LEMMA EndpointDone ==
  ASSUME Paging, fetch.pc = "request", NEW failed \in BOOLEAN, fetch.failed => failed,
         NEW pages \in Seq(SUBSET Id),
         \A i, j \in DOMAIN pages : i # j => pages[i] \intersect pages[j] = {},
         ~failed => /\ pages # <<>>
                    /\ 1 .. before[Head(fetch.left)] \subseteq
                           UNION {pages[i] : i \in DOMAIN pages},
         fetch' = AfterEndpoint([fetch EXCEPT !.failed = failed],
                                PageRows(Head(fetch.left), fetch.at, pages)),
         UNCHANGED <<history, raw, stored, before>>
  PROVE  Paging'
<1> DEFINE ep == Head(fetch.left)
           rec == [fetch EXCEPT !.failed = failed]
           new == PageRows(ep, fetch.at, pages)
           all == WithPages(fetch.rows, ep, fetch.at, pages)
<1>1. /\ fetch \in FetchRecord /\ fetch.left \in Seq(Endpoint) /\ fetch.left # <<>>
      /\ \A i, j \in DOMAIN fetch.left : fetch.left[i] = fetch.left[j] => i = j
      /\ fetch.rows \in Seq(RawRow) /\ fetch.at \in Fetched
  BY SizesArePositive DEF Paging, TypeOK, FetchRecord, Requesting, Fetched
<1>2. /\ ep \in Endpoint /\ Tail(fetch.left) \in Seq(Endpoint) /\ ep \in Due
      /\ {Tail(fetch.left)[k] : k \in DOMAIN Tail(fetch.left)} = Due \ {ep}
      /\ \A i, j \in DOMAIN Tail(fetch.left) :
             Tail(fetch.left)[i] = Tail(fetch.left)[j] => i = j
  BY <1>1, TailIsDue DEF Due
<1>3. /\ rec \in FetchRecord /\ rec.pc = "request" /\ rec.left = fetch.left
      /\ rec.rows = fetch.rows /\ rec.failed = failed /\ rec.at = fetch.at
  BY <1>1 DEF FetchRecord
<1>4. \A i \in DOMAIN fetch.rows : fetch.rows[i].source # ep
  BY <1>2 DEF Paging, RowsOfDone
<1>5. new \in Seq(RawRow)
  BY <1>1, <1>2, PageRowsType
<1>6. /\ all \in Seq(RawRow) /\ OldOrOf(all, fetch.rows, ep, fetch.at)
      /\ \A other \in Endpoint \ {ep} : Complete(fetch.rows, other) => Complete(all, other)
      /\ ~failed => Complete(all, ep)
      /\ Apart(all)
  <2>1. Apart(fetch.rows)
    BY DEF Paging
  <2>2. ~failed => pages # <<>> /\ 1 .. before[ep] \subseteq UNION {pages[i] : i \in DOMAIN pages}
    OBVIOUS
  <2>3. fetch.rows \in Seq(RawRow) /\ ep \in Endpoint /\ fetch.at \in Fetched
    BY <1>1, <1>2
  <2> HIDE DEF ep
  <2>4. all \in Seq(RawRow) /\ OldOrOf(all, fetch.rows, ep, fetch.at)
    BY <1>4, <2>3, AddEndpoint
  <2>5. /\ \A other \in Endpoint \ {ep} : Complete(fetch.rows, other) => Complete(all, other)
        /\ ~failed => Complete(all, ep)
    BY <1>4, <2>1, <2>2, <2>3, AddEndpoint
  <2>6. Apart(all)
    BY <1>4, <2>1, <2>3, AddEndpoint
  <2> QED
    BY <2>4, <2>5, <2>6
<1>7. /\ fetch' \in FetchRecord
      /\ fetch'.left = Tail(fetch.left) /\ fetch'.next = MaxItems + 1 /\ fetch'.captured = <<>>
      /\ fetch'.rows = all /\ fetch'.failed = failed /\ fetch'.at = fetch.at
      /\ fetch'.pc = IF Tail(fetch.left) # <<>> THEN "request"
                     ELSE IF failed THEN "red" ELSE "ingest"
  <2>1. fetch' = AfterEndpoint(rec, new)
    OBVIOUS
  <2>2. rec.left # <<>> /\ rec.rows \o new = all
    BY <1>1, <1>3 DEF WithPages
  <2> HIDE DEF rec, new, all
  <2> QED
    <3> DEFINE done == AfterEndpoint(rec, new)
    <3>1. /\ done \in FetchRecord
          /\ done.left = Tail(rec.left) /\ done.next = MaxItems + 1 /\ done.captured = <<>>
          /\ done.rows = rec.rows \o new /\ done.failed = rec.failed /\ done.at = rec.at
          /\ done.pc = IF Tail(rec.left) # <<>> THEN "request"
                       ELSE IF rec.failed THEN "red" ELSE "ingest"
      BY <1>3, <1>5, <2>2, AfterEndpointIs
    <3> HIDE DEF done
    <3>2. fetch' = done
      BY <2>1 DEF done
    <3> QED
      BY <1>3, <2>2, <3>1, <3>2
<1>8. Due' = Due \ {ep}
  <2>1. fetch'.left = Tail(fetch.left)
    BY <1>7
  <2>2. Due' = {Tail(fetch.left)[k] : k \in DOMAIN Tail(fetch.left)}
    BY <2>1 DEF Due
  <2> QED
    BY <1>2, <2>2
<1> HIDE DEF ep, rec, new, all
<1>9. TypeOK' /\ HistoryGrows' /\ EndpointsOfOneFetch'
  BY <1>7 DEF Paging, TypeOK, HistoryGrows, EndpointsOfOneFetch
<1>10. Requesting'
  <2>1. fetch'.left = Tail(fetch.left) /\ fetch'.at > 0
    BY <1>1, <1>7, SizesArePositive DEF Fetched
  <2>2. \A i, j \in DOMAIN fetch'.left : fetch'.left[i] = fetch'.left[j] => i = j
    BY <1>2, <2>1
  <2>3. /\ fetch'.pc = "request" => fetch'.left # <<>>
        /\ fetch'.pc \in {"ingest", "transform", "green"} => fetch'.left = <<>> /\ ~fetch'.failed
    BY <1>7, <2>1
  <2> QED
    BY <2>1, <2>2, <2>3 DEF Requesting
<1>11. RowsOfDone'
  BY <1>6, <1>7, <1>8 DEF Paging, RowsOfDone, OldOrOf
<1>12. Apart(fetch.rows)'
  BY <1>6, <1>7 DEF Apart
<1>13. DoneComplete'
  <2> SUFFICES ASSUME ~failed, NEW other \in Endpoint, other \notin Due \ {ep}
               PROVE  Complete(fetch.rows, other)'
    BY <1>7, <1>8 DEF DoneComplete
  <2>1. Complete(all, other)
    BY <1>6 DEF Paging, DoneComplete
  <2>2. fetch'.rows = all /\ before' = before
    BY <1>7
  <2> QED
    BY <2>1, <2>2 DEF Complete
<1>14. UpToTheCursor'
  <2> SUFFICES ASSUME fetch'.pc = "request"
               PROVE  fetch'.next .. before[Head(fetch'.left)] = {}
    BY <1>7 DEF UpToTheCursor
  <2>1. Tail(fetch.left) # <<>>
    BY <1>7
  <2>2. Head(fetch'.left) \in Endpoint
    <3>1. Head(Tail(fetch.left)) \in Endpoint
      BY <1>2, <2>1
    <3> QED
      BY <1>7, <3>1
  <2>3. before[Head(fetch'.left)] \in 0 .. MaxItems
    BY <2>2 DEF Paging, TypeOK
  <2>4. fetch'.next = MaxItems + 1
    BY <1>7
  <2>5. \A b \in 0 .. MaxItems : MaxItems + 1 .. b = {}
    BY SizesArePositive
  <2> QED
    BY <2>3, <2>4, <2>5, Zenon
<1> QED
  BY <1>9, <1>10, <1>11, <1>12, <1>13, <1>14 DEF Paging

LEMMA InitPaging == Init => Paging
<1> SUFFICES ASSUME Init PROVE Paging
  OBVIOUS
<1> USE SizesArePositive
<1>1. fetch = NoFetch /\ NoFetch \in FetchRecord
  <2>1. "idle" \in PC /\ 0 \in 0 .. MaxFetches /\ MaxItems + 1 \in 1 .. MaxItems + 1
    BY DEF PC
  <2> QED
    BY <2>1 DEF Init, NoFetch, FetchRecord
<1>2. /\ fetch.pc = "idle" /\ fetch.left = <<>> /\ fetch.rows = <<>>
  BY <1>1 DEF NoFetch
<1>3. history \in [Endpoint -> 0 .. MaxItems] /\ before = history /\ raw = {} /\ stored = {}
  BY DEF Init
<1>4. TypeOK /\ HistoryGrows /\ EndpointsOfOneFetch
  BY <1>1, <1>3 DEF TypeOK, HistoryGrows, EndpointsOfOneFetch
<1>5. Requesting /\ RowsOfDone /\ Apart(fetch.rows) /\ DoneComplete /\ UpToTheCursor
  BY <1>2 DEF Requesting, RowsOfDone, Apart, DoneComplete, UpToTheCursor
<1> QED
  BY <1>4, <1>5 DEF Paging

LEMMA BeginPaging ==
  ASSUME Paging, Begin
  PROVE  Paging'
<1> USE SizesArePositive
<1>1. /\ fetch' = [NoFetch EXCEPT !.pc = "request", !.at = fetch.at + 1, !.left = Endpoints]
      /\ fetch.at < MaxFetches /\ before' = history /\ UNCHANGED <<history, raw, stored>>
  BY DEF Begin
<1>2. fetch.at + 1 \in 0 .. MaxFetches /\ fetch.at + 1 > 0
  BY <1>1 DEF Paging, TypeOK, FetchRecord
<1>3. /\ fetch'.pc = "request" /\ fetch'.at = fetch.at + 1 /\ fetch'.left = Endpoints
      /\ fetch'.next = MaxItems + 1 /\ fetch'.captured = <<>> /\ fetch'.rows = <<>>
      /\ fetch'.failed = FALSE
  BY <1>1 DEF NoFetch
<1>4. fetch' \in FetchRecord
  <2>1. "request" \in PC /\ MaxItems + 1 \in 1 .. MaxItems + 1
    BY DEF PC
  <2> QED
    <3>1. fetch' = [pc |-> "request", at |-> fetch.at + 1, left |-> Endpoints,
                    next |-> MaxItems + 1, captured |-> <<>>, rows |-> <<>>, failed |-> FALSE]
      BY <1>1 DEF NoFetch
    <3>2. <<>> \in Seq(SUBSET Id) /\ <<>> \in Seq(RawRow) /\ FALSE \in BOOLEAN
      OBVIOUS
    <3> QED
      BY <1>2, <2>1, <3>1, <3>2, EndpointsAreDistinct DEF FetchRecord
<1>5. TypeOK' /\ HistoryGrows' /\ EndpointsOfOneFetch'
  BY <1>1, <1>4 DEF Paging, TypeOK, HistoryGrows, EndpointsOfOneFetch
<1>6. Requesting' /\ RowsOfDone' /\ Apart(fetch.rows)'
  BY <1>2, <1>3, EndpointsAreDistinct DEF Requesting, RowsOfDone, Apart
<1>7. DoneComplete'
  BY <1>3 DEF DoneComplete, Due, Endpoint
<1>8. UpToTheCursor'
  <2>1. Head(Endpoints) \in Endpoint
    BY EndpointsAreDistinct
  <2>2. before'[Head(Endpoints)] \in 0 .. MaxItems
    BY <1>1, <2>1 DEF Paging, TypeOK
  <2>3. MaxItems + 1 .. before'[Head(Endpoints)] = {}
    BY <2>2
  <2> QED
    BY <1>3, <2>3 DEF UpToTheCursor
<1> QED
  BY <1>5, <1>6, <1>7, <1>8 DEF Paging

LEMMA AnswerPaging ==
  ASSUME Paging, Answer
  PROVE  Paging'
<1> USE SizesArePositive
<1> DEFINE ep == Head(fetch.left)
           items == Page(ep, fetch.next)
           pages == Append(fetch.captured, items)
<1>1. /\ fetch.pc = "request" /\ fetch \in FetchRecord /\ UNCHANGED <<history, raw, stored, before>>
      /\ fetch.left # <<>> /\ fetch.left \in Seq(Endpoint) /\ fetch.captured \in Seq(SUBSET Id)
      /\ fetch.next \in 1 .. MaxItems + 1
  BY DEF Answer, Paging, TypeOK, FetchRecord, Requesting
<1>2. ep \in Endpoint
  BY <1>1
<1>3. /\ items \in SUBSET Id
      /\ \A id \in items : id < fetch.next
      /\ NextPage(items) \in 0 .. MaxItems
      /\ \A id \in items : id >= NextPage(items)
      /\ \A id \in 1 .. history[ep] : NextPage(items) <= id /\ id < fetch.next => id \in items
  <2> HIDE DEF ep
  <2> QED
    BY <1>1, <1>2, PageIs DEF Paging
<1>4. fetch' = IF NextPage(items) # 0
               THEN [fetch EXCEPT !.next = NextPage(items), !.captured = pages]
               ELSE AfterEndpoint(fetch, RowsOf(fetch, pages))
  BY DEF Answer
<1>5. /\ before[ep] \in 0 .. MaxItems /\ history[ep] \in 0 .. MaxItems /\ before[ep] <= history[ep]
  BY <1>2 DEF Paging, TypeOK, HistoryGrows
<1>6. /\ fetch.next .. before[ep] \subseteq UNION {fetch.captured[i] : i \in DOMAIN fetch.captured}
      /\ \A i \in DOMAIN fetch.captured : \A id \in fetch.captured[i] : id >= fetch.next
      /\ \A i, j \in DOMAIN fetch.captured :
             i # j => fetch.captured[i] \intersect fetch.captured[j] = {}
  BY <1>1 DEF Paging, UpToTheCursor
<1> HIDE DEF ep, items
<1>7. /\ pages \in Seq(SUBSET Id) /\ Len(pages) = Len(fetch.captured) + 1
      /\ Len(fetch.captured) \in Nat
      /\ DOMAIN pages = 1 .. Len(fetch.captured) + 1
      /\ DOMAIN fetch.captured = 1 .. Len(fetch.captured)
      /\ \A i \in 1 .. Len(fetch.captured) : pages[i] = fetch.captured[i]
      /\ pages[Len(fetch.captured) + 1] = items
  BY <1>1, <1>3
<1> HIDE DEF pages
<1>8. NextPage(items) .. before[ep] \ {0} \subseteq UNION {pages[i] : i \in DOMAIN pages}
  <2> SUFFICES ASSUME NEW id \in NextPage(items) .. before[ep], id # 0
               PROVE  \E i \in DOMAIN pages : id \in pages[i]
    OBVIOUS
  <2>1. CASE id < fetch.next
    <3>1. id \in items
      BY <1>1, <1>3, <1>5, <2>1
    <3>2. Len(fetch.captured) + 1 \in DOMAIN pages
      BY <1>7
    <3> QED
      BY <1>7, <3>1, <3>2
  <2>2. CASE id >= fetch.next
    <3>1. id \in fetch.next .. before[ep]
      BY <1>1, <1>3, <1>5, <2>2
    <3>2. PICK i \in DOMAIN fetch.captured : id \in fetch.captured[i]
      BY <1>6, <3>1
    <3> QED
      BY <1>7, <3>2
  <2> QED
    BY <1>1, <1>3, <1>5, <2>1, <2>2
<1>9. \A i \in DOMAIN pages : \A id \in pages[i] : id >= NextPage(items)
  <2> SUFFICES ASSUME NEW i \in DOMAIN pages, NEW id \in pages[i]
               PROVE  id >= NextPage(items)
    OBVIOUS
  <2>1. CASE i = Len(fetch.captured) + 1
    BY <1>3, <1>7, <2>1
  <2>2. CASE i \in 1 .. Len(fetch.captured)
    <3>1. id >= fetch.next /\ id \in Id
      BY <1>1, <1>6, <1>7, <2>2
    <3>2. CASE items = {}
      BY <1>3, <3>1, <3>2 DEF Id, NextPage
    <3>3. CASE items # {}
      <4>1. PICK other \in items : other < fetch.next /\ other >= NextPage(items)
        BY <1>3, <3>3
      <4>2. other \in Id
        BY <1>3, <4>1
      <4> QED
        BY <1>1, <1>3, <3>1, <4>1, <4>2 DEF Id
    <3> QED
      BY <3>2, <3>3
  <2> QED
    BY <1>7, <2>1, <2>2
<1>10. \A i, j \in DOMAIN pages : i # j => pages[i] \intersect pages[j] = {}
  <2>1. \A i \in 1 .. Len(fetch.captured) : pages[i] \intersect items = {}
    <3> SUFFICES ASSUME NEW i \in 1 .. Len(fetch.captured), NEW id \in pages[i], id \in items
                 PROVE  FALSE
      OBVIOUS
    <3>1. id >= fetch.next /\ id < fetch.next /\ id \in Id
      BY <1>3, <1>6, <1>7
    <3> QED
      BY <1>1, <3>1 DEF Id
  <2> SUFFICES ASSUME NEW i \in DOMAIN pages, NEW j \in DOMAIN pages, i # j
               PROVE  pages[i] \intersect pages[j] = {}
    OBVIOUS
  <2>2. CASE i \in 1 .. Len(fetch.captured) /\ j \in 1 .. Len(fetch.captured)
    BY <1>6, <1>7, <2>2
  <2>3. CASE i = Len(fetch.captured) + 1 \/ j = Len(fetch.captured) + 1
    <3>1. CASE i = Len(fetch.captured) + 1
      <4>1. j \in 1 .. Len(fetch.captured)
        BY <1>7, <3>1
      <4> QED
        BY <1>7, <2>1, <3>1, <4>1
    <3>2. CASE j = Len(fetch.captured) + 1
      <4>1. i \in 1 .. Len(fetch.captured)
        BY <1>7, <3>2
      <4> QED
        BY <1>7, <2>1, <3>2, <4>1
    <3> QED
      BY <2>3, <3>1, <3>2
  <2> QED
    BY <1>7, <2>2, <2>3
<1>11. CASE NextPage(items) = 0
  <2>1. 1 .. before[ep] \subseteq UNION {pages[i] : i \in DOMAIN pages}
    BY <1>5, <1>8, <1>11
  <2>2. pages # <<>>
    BY <1>7
  <2>3. fetch.failed \in BOOLEAN /\ [fetch EXCEPT !.failed = fetch.failed] = fetch
    BY <1>1 DEF FetchRecord
  <2>4. RowsOf(fetch, pages) = PageRows(ep, fetch.at, pages)
    BY DEF RowsOf, PageRows, ep
  <2>5. fetch' = AfterEndpoint([fetch EXCEPT !.failed = fetch.failed],
                               PageRows(Head(fetch.left), fetch.at, pages))
    BY <1>4, <1>11, <2>3, <2>4 DEF ep
  <2> QED
    BY <1>1, <1>7, <1>10, <2>1, <2>2, <2>3, <2>5, EndpointDone DEF ep
<1>12. CASE NextPage(items) # 0
  <2>1. NextPage(items) \in 1 .. MaxItems + 1
    BY <1>3, <1>12
  <2>2. /\ fetch' \in FetchRecord
        /\ fetch'.next = NextPage(items) /\ fetch'.captured = pages
        /\ fetch'.pc = fetch.pc /\ fetch'.at = fetch.at /\ fetch'.left = fetch.left
        /\ fetch'.rows = fetch.rows /\ fetch'.failed = fetch.failed
    BY <1>1, <1>4, <1>7, <1>12, <2>1 DEF FetchRecord
  <2>3. Due' = Due
    BY <2>2 DEF Due
  <2>4. TypeOK' /\ HistoryGrows' /\ EndpointsOfOneFetch'
    BY <1>1, <2>2 DEF Paging, TypeOK, HistoryGrows, EndpointsOfOneFetch
  <2>5. Requesting' /\ RowsOfDone' /\ Apart(fetch.rows)'
    BY <2>2, <2>3 DEF Paging, Requesting, RowsOfDone, Apart
  <2>6. DoneComplete'
    BY <1>1, <2>2, <2>3 DEF Paging, DoneComplete, Complete
  <2>7. NextPage(items) .. before[ep] \subseteq UNION {pages[i] : i \in DOMAIN pages}
    BY <1>5, <1>8, <2>1
  <2>8. UpToTheCursor'
    BY <1>1, <1>9, <1>10, <2>2, <2>7 DEF UpToTheCursor, ep
  <2> QED
    BY <2>4, <2>5, <2>6, <2>8 DEF Paging
<1> QED
  BY <1>11, <1>12

LEMMA RequestFailsPaging ==
  ASSUME Paging, RequestFails
  PROVE  Paging'
<1>1. /\ fetch.pc = "request" /\ UNCHANGED <<history, raw, stored, before>>
      /\ fetch' = AfterEndpoint([fetch EXCEPT !.failed = TRUE], <<>>)
  BY DEF RequestFails
<1>2. PageRows(Head(fetch.left), fetch.at, <<>>) = <<>>
  BY DEF PageRows
<1>3. <<>> \in Seq(SUBSET Id) /\ DOMAIN <<>> = {}
  OBVIOUS
<1> QED
  BY <1>1, <1>2, <1>3, EndpointDone

LEMMA IngestPaging ==
  ASSUME Paging, Ingest
  PROVE  Paging'
<1> DEFINE kept == Retained(fetch.rows)
<1>1. /\ fetch.pc = "ingest" /\ fetch \in FetchRecord /\ fetch.rows \in Seq(RawRow)
      /\ fetch' = [fetch EXCEPT !.pc = "transform"] /\ UNCHANGED <<history, stored, before>>
      /\ raw' = kept \union {row \in raw : \A new \in kept : new.source # row.source}
  BY DEF Ingest, Paging, TypeOK, FetchRecord
<1>2. /\ fetch' \in FetchRecord /\ fetch'.pc = "transform"
      /\ fetch'.at = fetch.at /\ fetch'.left = fetch.left
      /\ fetch'.rows = fetch.rows /\ fetch'.failed = fetch.failed
  BY <1>1 DEF FetchRecord, PC
<1>3. Due' = Due /\ Due = {} /\ ~fetch.failed
  BY <1>1, <1>2 DEF Due, Paging, Requesting
<1>4. kept = {fetch.rows[i] : i \in {j \in DOMAIN fetch.rows :
                  \A k \in j + 1 .. Len(fetch.rows) : fetch.rows[k].source # fetch.rows[j].source}}
  BY DEF Retained
<1> HIDE DEF kept
<1>5. kept \subseteq RawRow /\ \A row \in kept : row.at = fetch.at
  BY <1>1, <1>4 DEF Paging, RowsOfDone
<1>6. \A ep \in Endpoint : \E row \in kept : row.source = ep
  <2> TAKE ep \in Endpoint
  <2>1. Complete(fetch.rows, ep)
    BY <1>1, <1>3 DEF Paging, DoneComplete
  <2>2. PICK i \in DOMAIN fetch.rows :
            /\ fetch.rows[i].source = ep
            /\ \A k \in i + 1 .. Len(fetch.rows) : fetch.rows[k].source # ep
    BY <2>1 DEF Complete
  <2> QED
    BY <1>4, <2>2
<1>7. \A row \in raw : row.source \in Endpoint
  BY DEF Paging, TypeOK, RawRow
<1>8. raw' = kept
  BY <1>1, <1>6, <1>7
<1>9. TypeOK' /\ HistoryGrows'
  BY <1>1, <1>2, <1>5, <1>8 DEF Paging, TypeOK, HistoryGrows
<1>10. EndpointsOfOneFetch'
  BY <1>5, <1>6, <1>8 DEF EndpointsOfOneFetch
<1>11. Requesting' /\ RowsOfDone' /\ Apart(fetch.rows)' /\ UpToTheCursor'
  BY <1>1, <1>2, <1>3 DEF Paging, Requesting, RowsOfDone, Apart, UpToTheCursor
<1>12. DoneComplete'
  BY <1>1, <1>2, <1>3 DEF Paging, DoneComplete, Complete
<1> QED
  BY <1>9, <1>10, <1>11, <1>12 DEF Paging

LEMMA TransformPaging ==
  ASSUME Paging, Transform
  PROVE  Paging'
<1>1. /\ fetch.pc = "transform" /\ fetch' = [fetch EXCEPT !.pc = "green"]
      /\ UNCHANGED <<history, raw, before>> /\ fetch \in FetchRecord
  BY DEF Transform, Paging, TypeOK
<1>2. /\ fetch' \in FetchRecord /\ fetch'.pc = "green"
      /\ fetch'.at = fetch.at /\ fetch'.left = fetch.left
      /\ fetch'.rows = fetch.rows /\ fetch'.failed = fetch.failed
  BY <1>1 DEF FetchRecord, PC
<1>3. Due' = Due
  BY <1>2 DEF Due
<1>4. stored' \subseteq Event
  <2> DEFINE all == EventsOf(raw)
             newest(ev) == CHOOSE o \in all : /\ SameEvent(o, ev)
                                              /\ \A p \in all : SameEvent(p, ev) => p.at <= o.at
  <2>1. stored' \subseteq stored \union {newest(ev) : ev \in all}
    BY DEF Transform
  <2>2. ASSUME NEW ev \in all PROVE newest(ev) \in all
    <3>1. \A p \in all : p.at = ev.at /\ p.at \in Int
      BY <2>2 DEF EventsOf, Event, Fetched, Paging, EndpointsOfOneFetch
    <3>2. SameEvent(ev, ev)
      BY DEF SameEvent
    <3>3. \A p \in all : SameEvent(p, ev) => p.at <= ev.at
      BY <3>1
    <3> HIDE DEF all
    <3> QED
      BY <2>2, <3>2, <3>3
  <2>3. all \subseteq Event /\ stored \subseteq Event
    BY DEF EventsOf, Paging, TypeOK
  <2> HIDE DEF all, newest
  <2> QED
    BY <2>1, <2>2, <2>3
<1>5. TypeOK' /\ HistoryGrows' /\ EndpointsOfOneFetch'
  BY <1>1, <1>2, <1>4 DEF Paging, TypeOK, HistoryGrows, EndpointsOfOneFetch
<1>6. Requesting' /\ RowsOfDone' /\ Apart(fetch.rows)' /\ UpToTheCursor'
  BY <1>1, <1>2, <1>3 DEF Paging, Requesting, RowsOfDone, Apart, UpToTheCursor
<1>7. DoneComplete'
  BY <1>1, <1>2, <1>3 DEF Paging, DoneComplete, Complete
<1> QED
  BY <1>5, <1>6, <1>7 DEF Paging

LEMMA PagingStep == Paging /\ [Next]_vars => Paging'
<1> SUFFICES ASSUME Paging, [Next]_vars PROVE Paging'
  OBVIOUS
<1>1. CASE UNCHANGED vars
  BY <1>1 DEF vars, Paging, TypeOK, HistoryGrows, Requesting, RowsOfDone, Due, Apart,
              DoneComplete, Complete, UpToTheCursor, EndpointsOfOneFetch
<1>2. CASE \E ep \in Endpoint : ItemAdded(ep)
  <2> PICK ep \in Endpoint : ItemAdded(ep)
    BY <1>2
  <2>1. /\ history[ep] < MaxItems /\ history' = [history EXCEPT ![ep] = @ + 1]
        /\ UNCHANGED <<fetch, raw, stored, before>>
    BY DEF ItemAdded
  <2>2. TypeOK' /\ HistoryGrows'
    BY <2>1, SizesArePositive DEF Paging, TypeOK, HistoryGrows
  <2>3. /\ Requesting' /\ RowsOfDone' /\ Apart(fetch.rows)' /\ DoneComplete' /\ UpToTheCursor'
        /\ EndpointsOfOneFetch'
    BY <2>1 DEF Paging, Requesting, RowsOfDone, Due, Apart, DoneComplete, Complete,
                UpToTheCursor, EndpointsOfOneFetch
  <2> QED
    BY <2>2, <2>3 DEF Paging
<1>3. CASE Begin
  BY <1>3, BeginPaging
<1>4. CASE Answer
  BY <1>4, AnswerPaging
<1>5. CASE RequestFails
  BY <1>5, RequestFailsPaging
<1>6. CASE Ingest
  BY <1>6, IngestPaging
<1>7. CASE Transform
  BY <1>7, TransformPaging
<1>8. CASE Aborted
  <2>1. /\ fetch' = [fetch EXCEPT !.pc = "red"] /\ UNCHANGED <<history, raw, stored, before>>
        /\ fetch \in FetchRecord
    BY <1>8 DEF Aborted, Paging, TypeOK
  <2>2. /\ fetch' \in FetchRecord /\ fetch'.pc = "red"
        /\ fetch'.at = fetch.at /\ fetch'.left = fetch.left
        /\ fetch'.rows = fetch.rows /\ fetch'.failed = fetch.failed
    BY <2>1 DEF FetchRecord, PC
  <2> QED
    BY <2>1, <2>2 DEF Paging, TypeOK, HistoryGrows, Requesting, RowsOfDone, Due, Apart,
                      DoneComplete, UpToTheCursor, EndpointsOfOneFetch
<1> QED
  BY <1>1, <1>2, <1>3, <1>4, <1>5, <1>6, <1>7, <1>8 DEF Next, RunStep

\* A fetch that did not fail has every item of every endpoint's history that was there
\* when it began, each once, whatever is added between any two of its requests
\* (_fetch_paginated follows nextPagePath to its end).
THEOREM AllOfTheHistory == Spec => []PagesCoverHistory
<1>1. Paging => PagesCoverHistory
  BY DEF Paging, Requesting, DoneComplete, Complete, Apart, Due, PagesCoverHistory, PagesOf
<1> QED
  BY InitPaging, PagingStep, <1>1, PTL DEF Spec

\* The raw table has rows of every endpoint, all of one fetch, or none: a fetch with an
\* endpoint that failed is not ingested (fetch_events raises).
THEOREM AllEndpointsOrNone == Spec => []EndpointsOfOneFetch
<1>1. Paging => EndpointsOfOneFetch
  BY DEF Paging
<1> QED
  BY InitPaging, PagingStep, <1>1, PTL DEF Spec

-----------------------------------------------------------------------------
(* The staged upload.                                                      *)

\* What is staged and already looked at is in the bucket.
StagedThere ==
    /\ pc \in {"data", "commit", "put"} => staged \ pending \subseteq objects
    /\ pc \in {"commit", "put"} => pending = {}

\* stale_paths holds every file live before next_version: replacing the commit of
\* that version brings none of them back.
LiveBefore(n) ==
    {f \in File : \E i \in 1 .. n - 1 :
        f \in log[i].add /\ \A j \in 1 .. n - 1 : j > i => f \notin log[j].remove}

StaleCovers == Working => LiveBefore(version) \subseteq stale

Inv == UploadTypeOK /\ version \in Nat /\ (Working => version >= 1)
        /\ SnapshotReadable /\ StagedThere /\ StaleCovers

LEMMA InitInv == UploadInit => Inv
  <1> SUFFICES ASSUME UploadInit
               PROVE  Inv
    OBVIOUS
  <1>1. log \in Seq(Commit)
    BY OldIsFile DEF UploadInit, Commit
  <1>2. Live \subseteq Old
    BY DEF UploadInit, Live
  <1>3. QED
    BY <1>1, <1>2, OldIsFile, SizesAreNat
    DEF UploadInit, Inv, UploadTypeOK, SnapshotReadable, StagedThere, StaleCovers, LiveBefore, Working

\* The log after the commit object of this version is written.
LEMMA PutLog ==
    ASSUME Inv, Working, Put
    PROVE  /\ log' \in Seq(Commit)
           /\ version \in 1 .. Len(log')
           /\ Len(log) <= Len(log')
           /\ DOMAIN log' = DOMAIN log \union {version}
           /\ log'[version] = [add |-> staged, remove |-> stale, foreign |-> FALSE]
           /\ \A i \in DOMAIN log \ {version} : log'[i] = log[i]
  <1>1. /\ log \in Seq(Commit) /\ Len(log) \in Nat /\ DOMAIN log = 1 .. Len(log)
        /\ version \in 1 .. Len(log) + 1
        /\ NewCommit \in Commit
    BY DEF Inv, UploadTypeOK, Commit, NewCommit
  <1>2. CASE version = Len(log) + 1
    <2> DEFINE len == Len(log) + 1
    <2>1. DOMAIN log \union {version} = 1 .. len /\ len \in Nat
      BY <1>1, <1>2
    <2>2. log' = [i \in 1 .. len |-> IF i = version THEN NewCommit ELSE log[i]]
      BY <2>1 DEF Put
    <2>3. \A i \in 1 .. len : (IF i = version THEN NewCommit ELSE log[i]) \in Commit
      BY <1>1, <1>2
    <2>4. log' \in Seq(Commit) /\ Len(log') = len /\ DOMAIN log' = 1 .. len
      BY <2>1, <2>2, <2>3
    <2>5. \A i \in DOMAIN log \ {version} : log'[i] = log[i]
      BY <2>1, <2>2
    <2>6. log'[version] = [add |-> staged, remove |-> stale, foreign |-> FALSE] /\ version \in 1 .. len
      BY <1>1, <1>2, <2>1, <2>2 DEF NewCommit
    <2>7. QED
      BY <1>1, <1>2, <2>1, <2>4, <2>5, <2>6
  <1>3. CASE version <= Len(log)
    <2> DEFINE len == Len(log)
    <2>1. DOMAIN log \union {version} = 1 .. len /\ len \in Nat
      BY <1>1, <1>3
    <2>2. log' = [i \in 1 .. len |-> IF i = version THEN NewCommit ELSE log[i]]
      BY <2>1 DEF Put
    <2>3. \A i \in 1 .. len : (IF i = version THEN NewCommit ELSE log[i]) \in Commit
      BY <1>1, <1>3
    <2>4. log' \in Seq(Commit) /\ Len(log') = len /\ DOMAIN log' = 1 .. len
      BY <2>1, <2>2, <2>3
    <2>5. \A i \in DOMAIN log \ {version} : log'[i] = log[i]
      BY <2>1, <2>2
    <2>6. log'[version] = [add |-> staged, remove |-> stale, foreign |-> FALSE] /\ version \in 1 .. len
      BY <1>1, <1>3, <2>1, <2>2 DEF NewCommit
    <2>7. QED
      BY <1>1, <1>3, <2>1, <2>4, <2>5, <2>6
  <1>4. QED
    BY <1>1, <1>2, <1>3

\* Replacing the commit brings no removed file back.
LEMMA PutLive ==
    ASSUME Inv, Working, Put
    PROVE  Live' \subseteq Live \union staged
  <1> SUFFICES ASSUME NEW f \in Live', f \notin staged
               PROVE  f \in Live
    OBVIOUS
  <1>1. PICK i \in DOMAIN log' : /\ f \in log'[i].add
                                 /\ \A j \in DOMAIN log' : j > i => f \notin log'[j].remove
    BY DEF Live
  <1>2. i # version /\ i \in DOMAIN log /\ log'[i] = log[i]
    BY <1>1, PutLog
  <1>3. f \in File
    BY DEF Live
  <1>4. /\ log \in Seq(Commit) /\ DOMAIN log = 1 .. Len(log) /\ Len(log) \in Nat
        /\ version \in 1 .. Len(log) + 1 /\ i \in 1 .. Len(log)
    BY <1>2 DEF Inv, UploadTypeOK
  <1>5. CASE i < version
    <2>1. f \notin stale
      BY <1>1, <1>4, <1>5, PutLog
    <2>2. \A j \in 1 .. version - 1 : j > i => f \notin log[j].remove
      BY <1>1, <1>4, PutLog
    <2>3. f \in stale
      BY <1>1, <1>2, <1>3, <1>4, <1>5, <2>2 DEF Inv, StaleCovers, LiveBefore
    <2>4. QED
      BY <2>1, <2>3
  <1>6. CASE i > version
    <2>1. \A j \in DOMAIN log : j > i => f \notin log[j].remove
      BY <1>1, <1>4, <1>6, PutLog
    <2>2. QED
      BY <1>1, <1>2, <1>3, <2>1 DEF Live
  <1>7. QED
    BY <1>2, <1>4, <1>5, <1>6

\* The commit lands: the invariant of everything but the script's own state.
LEMMA PutKeeps ==
    ASSUME Inv, pc = "put", Put, UNCHANGED <<objects, named, version, stale, staged, pending>>
    PROVE  SnapshotReadable' /\ log' \in Seq(Commit) /\ version' \in 0 .. Len(log') + 1
  <1>1. Working
    BY DEF Working
  <1>2. staged \subseteq objects
    BY <1>1 DEF Inv, StagedThere
  <1>3. SnapshotReadable'
    BY <1>1, <1>2, PutLive DEF Inv, SnapshotReadable
  <1>4. QED
    BY <1>1, <1>3, PutLog

\* A script that stops working owes nothing but the table itself.
LEMMA NextInv == Inv /\ [UploadNext]_uploadVars => Inv'
  <1> SUFFICES ASSUME Inv, [UploadNext]_uploadVars
               PROVE  Inv'
    OBVIOUS
  <1>0. /\ log \in Seq(Commit) /\ Len(log) \in Nat /\ DOMAIN log = 1 .. Len(log)
        /\ version \in 0 .. Len(log) + 1 /\ version \in Nat
        /\ attempt \in 0 .. Attempts /\ Attempts \in Nat \ {0}
    BY SizesAreNat DEF Inv, UploadTypeOK
  <1>1. CASE BeginUpload
    <2>1. Live' = Live /\ log' = log
      BY <1>1 DEF BeginUpload, Live
    <2>2. StaleCovers'
      <3>1. version' - 1 = Len(log) /\ stale' = Live
        BY <1>0, <1>1 DEF BeginUpload
      <3>2. LiveBefore(version)' = LiveBefore(Len(log) + 1)
        BY <1>0, <1>1, <2>1 DEF LiveBefore, BeginUpload
      <3>3. LiveBefore(Len(log) + 1) = Live
        <4>1. 1 .. (Len(log) + 1) - 1 = DOMAIN log
          BY <1>0
        <4>2. QED
          BY <4>1, Zenon DEF LiveBefore, Live
      <3>4. QED
        BY <3>1, <3>2, <3>3 DEF StaleCovers
    <2>3. UploadTypeOK'
      BY <1>0, <1>1, <2>1 DEF BeginUpload, Inv, UploadTypeOK, Live
    <2>4. QED
      BY <1>0, <1>1, <2>1, <2>2, <2>3
      DEF BeginUpload, Inv, UploadTypeOK, SnapshotReadable, StagedThere, Working
  <1>2. CASE Stage
    <2>1. Live' = Live /\ log' = log /\ Working /\ Working'
      BY <1>2 DEF Stage, Live, Working
    <2>2. StaleCovers'
      BY <1>2, <2>1 DEF Stage, Inv, StaleCovers, LiveBefore
    <2>3. UploadTypeOK'
      BY <1>0, <1>2, <2>1 DEF Stage, Inv, UploadTypeOK
    <2>4. QED
      BY <1>0, <1>2, <2>1, <2>2, <2>3
      DEF Stage, Inv, SnapshotReadable, StagedThere
  <1>3. ASSUME NEW f \in File, UploadData(f)
        PROVE  Inv'
    <2>1. Live' = Live /\ log' = log /\ Working /\ Working'
      BY <1>3 DEF UploadData, Live, Working
    <2>2. StaleCovers'
      BY <1>3, <2>1 DEF UploadData, Inv, StaleCovers, LiveBefore
    <2>3. UploadTypeOK'
      BY <1>0, <1>3, <2>1 DEF UploadData, Inv, UploadTypeOK
    <2>4. StagedThere'
      BY <1>3, <2>1 DEF UploadData, Inv, StagedThere
    <2>5. QED
      BY <1>0, <1>3, <2>1, <2>2, <2>3, <2>4
      DEF UploadData, Inv, SnapshotReadable
  <1>4. CASE SkipCommit \/ CheckCommit
    <2>1. Live' = Live /\ log' = log /\ Working
      BY <1>4 DEF SkipCommit, CheckCommit, Live, Working
    <2>2. StaleCovers'
      BY <1>4, <2>1 DEF SkipCommit, CheckCommit, Inv, StaleCovers, LiveBefore
    <2>3. UploadTypeOK'
      BY <1>0, <1>4, <2>1 DEF SkipCommit, CheckCommit, Inv, UploadTypeOK
    <2>4. QED
      BY <1>0, <1>4, <2>1, <2>2, <2>3
      DEF SkipCommit, CheckCommit, Inv, SnapshotReadable, StagedThere, Working
  <1>5. CASE PutCommit
    <2>1. SnapshotReadable' /\ log' \in Seq(Commit) /\ version' \in 0 .. Len(log') + 1
      BY <1>5, PutKeeps DEF PutCommit
    <2>2. ~Working'
      BY <1>5 DEF PutCommit, Working
    <2>3. UploadTypeOK'
      BY <1>5, <2>1 DEF PutCommit, Inv, UploadTypeOK
    <2>4. QED
      BY <1>0, <1>5, <2>1, <2>2, <2>3 DEF PutCommit, Inv, StagedThere, StaleCovers, LiveBefore, Working
  <1>6. CASE UploadFails
    <2>1. SnapshotReadable' /\ log' \in Seq(Commit) /\ version' \in 0 .. Len(log') + 1
      <3>1. CASE UNCHANGED log
        BY <1>0, <1>6, <3>1 DEF UploadFails, Inv, UploadTypeOK, SnapshotReadable, Live
      <3>2. CASE pc = "put" /\ Put
        BY <1>6, <3>2, PutKeeps DEF UploadFails
      <3>3. QED
        BY <1>6, <3>1, <3>2 DEF UploadFails
    <2>2. pc' \in {"stage", "raised"} /\ attempt' \in 0 .. Attempts
      BY <1>0, <1>6 DEF UploadFails, Caught, GivesUp
    <2>3. UploadTypeOK'
      BY <1>6, <2>1, <2>2 DEF UploadFails, Inv, UploadTypeOK
    <2>4. StagedThere'
      BY <1>6, <2>2 DEF UploadFails, Inv, StagedThere, Working
    <2>5. StaleCovers'
      <3>1. Working /\ version >= 1 /\ version' = version /\ stale' = stale
        BY <1>6 DEF UploadFails, Inv
      <3>2. \A i \in 1 .. version - 1 : log'[i] = log[i]
        <4>1. CASE UNCHANGED log
          BY <4>1
        <4>2. CASE Put
          BY <1>0, <3>1, <4>2, PutLog
        <4>3. QED
          BY <1>6, <4>1, <4>2 DEF UploadFails
      <3>3. QED
        BY <3>1, <3>2 DEF Inv, StaleCovers, LiveBefore
    <2>6. QED
      BY <1>0, <1>6, <2>1, <2>3, <2>4, <2>5 DEF UploadFails, Inv
  <1>7. CASE Dies
    <2>1. Live' = Live /\ log' = log /\ ~Working'
      BY <1>7 DEF Dies, Live, Working
    <2>2. UploadTypeOK'
      BY <1>0, <1>7, <2>1 DEF Dies, Inv, UploadTypeOK
    <2>3. QED
      BY <1>0, <1>7, <2>1, <2>2
      DEF Dies, Inv, SnapshotReadable, StagedThere, StaleCovers, LiveBefore, Working
  <1>8. CASE OtherCommit
    <2>1. PICK f \in File \ named, gone \in SUBSET Live :
              /\ log' = Append(log, [add |-> {f}, remove |-> gone, foreign |-> TRUE])
              /\ objects' = objects \union {f}
              /\ named' = named \union {f}
      BY <1>8 DEF OtherCommit
    <2>2. UNCHANGED <<pc, attempt, version, stale, staged, pending>>
      BY <1>8 DEF OtherCommit
    <2>3. [add |-> {f}, remove |-> gone, foreign |-> TRUE] \in Commit
      BY <2>1 DEF Commit, Live
    <2>4. /\ log' \in Seq(Commit) /\ Len(log') = Len(log) + 1
          /\ DOMAIN log' = 1 .. Len(log) + 1
          /\ log'[Len(log) + 1] = [add |-> {f}, remove |-> gone, foreign |-> TRUE]
          /\ \A i \in 1 .. Len(log) : log'[i] = log[i]
      BY <1>0, <2>1, <2>3
    <2>5. Live' \subseteq Live \union {f}
      <3> SUFFICES ASSUME NEW g \in Live', g # f
                   PROVE  g \in Live
        OBVIOUS
      <3>1. PICK i \in DOMAIN log' : /\ g \in log'[i].add
                                     /\ \A j \in DOMAIN log' : j > i => g \notin log'[j].remove
        BY DEF Live
      <3>2. i \in 1 .. Len(log)
        BY <1>0, <2>4, <3>1
      <3>3. g \in File
        BY DEF Live
      <3>4. \A j \in 1 .. Len(log) : j > i => g \notin log[j].remove
        BY <1>0, <2>4, <3>1
      <3>5. QED
        BY <1>0, <2>4, <3>1, <3>2, <3>3, <3>4 DEF Live
    <2>6. SnapshotReadable'
      BY <2>1, <2>5 DEF Inv, SnapshotReadable
    <2>7. UploadTypeOK'
      BY <1>0, <2>1, <2>2, <2>4 DEF Inv, UploadTypeOK
    <2>8. StaleCovers'
      <3>1. \A i \in 1 .. version - 1 : log'[i] = log[i]
        BY <1>0, <2>4
      <3>2. QED
        BY <2>2, <3>1 DEF Inv, StaleCovers, LiveBefore, Working
    <2>9. QED
      BY <1>0, <2>1, <2>2, <2>6, <2>7, <2>8 DEF Inv, StagedThere, Working
  <1>9. CASE Vacuum
    <2>1. Live' = Live /\ log' = log /\ (Working' <=> Working)
      BY <1>9 DEF Vacuum, Live, Working
    <2>2. objects' = objects \intersect (Live \union IF Working THEN staged ELSE {})
      BY <1>9 DEF Vacuum, Inv, UploadTypeOK
    <2>3. SnapshotReadable'
      BY <2>1, <2>2 DEF Inv, SnapshotReadable
    <2>4. StagedThere'
      BY <1>9, <2>1, <2>2 DEF Vacuum, Inv, StagedThere, Working
    <2>5. UploadTypeOK'
      BY <1>0, <1>9, <2>1, <2>2 DEF Vacuum, Inv, UploadTypeOK
    <2>6. QED
      BY <1>0, <1>9, <2>1, <2>3, <2>4, <2>5 DEF Vacuum, Inv, StaleCovers, LiveBefore, Working
  <1>10. CASE UNCHANGED uploadVars
    <2>1. Live' = Live
      BY <1>10 DEF uploadVars, Live
    <2>2. QED
      BY <1>10, <2>1
      DEF uploadVars, Inv, UploadTypeOK, SnapshotReadable, StagedThere, StaleCovers, LiveBefore, Working
  <1>11. QED
    BY <1>1, <1>2, <1>3, <1>4, <1>5, <1>6, <1>7, <1>8, <1>9, <1>10 DEF UploadNext

\* Every file of the table's current snapshot is in the bucket, at whatever step an
\* upload stopped, was retried or was raced by another writer (stage_and_upload:
\* the commit is uploaded last).
THEOREM AlwaysReadable == UploadSpec => []SnapshotReadable
  <1>1. Inv => SnapshotReadable
    BY DEF Inv
  <1>2. QED
    BY <1>1, InitInv, NextInv, PTL DEF UploadSpec

\* Every variable keeps its type.
THEOREM StagedTypes == UploadSpec => []UploadTypeOK
  <1>1. Inv => UploadTypeOK
    BY DEF Inv
  <1>2. QED
    BY <1>1, InitInv, NextInv, PTL DEF UploadSpec

---------------------------------------------------------------------------
(* Old or new, and never a mix.                                            *)

\* The log begins with the table's first commit, which no script writes again.
FirstIsOld ==
    /\ Len(log) >= 1
    /\ log[1] = [add |-> Old, remove |-> {}, foreign |-> FALSE]
    /\ Working => version >= 2
    /\ pc = "returned" => Len(log) >= 2

\* A staged copy is whole, and shares no file with the old table.
CopyIsNew ==
    /\ Old \subseteq named
    /\ pc \in {"data", "commit", "put"} => staged \intersect Old = {} /\ Cardinality(staged) = Size

\* stale_paths is exact, and what follows next_version is not this script's: the
\* commits before it cannot change any more.
StaleIsBefore ==
    Working => /\ stale = LiveBefore(version)
               /\ \A i \in DOMAIN log : i > version => log[i].foreign

\* The script's commit, when it is the last, adds a whole copy and removes all else.
LastReplaces ==
    Len(log) > 1 /\ OwnLast =>
        LET last == log[Len(log)] IN
        /\ last.remove = LiveBefore(Len(log))
        /\ last.add \intersect Old = {}
        /\ Cardinality(last.add) = Size

Replacing == Inv /\ FirstIsOld /\ CopyIsNew /\ StaleIsBefore /\ LastReplaces

LEMMA InitReplacing == UploadInit => Replacing
  <1> SUFFICES ASSUME UploadInit
               PROVE  Replacing
    OBVIOUS
  <1>1. Len(log) = 1 /\ log[1] = [add |-> Old, remove |-> {}, foreign |-> FALSE]
    BY DEF UploadInit
  <1>2. QED
    BY <1>1, InitInv
    DEF UploadInit, Replacing, FirstIsOld, CopyIsNew, StaleIsBefore, LastReplaces, Working

\* What is live before a version depends on the earlier commits only.
LEMMA BeforeUnchanged ==
    ASSUME NEW n \in Nat, \A i \in 1 .. n - 1 : log'[i] = log[i]
    PROVE  LiveBefore(n)' = LiveBefore(n)
  BY DEF LiveBefore

\* Only a script's commit can be the last and its own: it replaced everything.
LEMMA ReplacedIsLive ==
    ASSUME Replacing, OwnLast, Len(log) > 1
    PROVE  Live = log[Len(log)].add
  <1> DEFINE n == Len(log)
  <1>1. /\ log \in Seq(Commit) /\ n \in Nat /\ n > 1 /\ DOMAIN log = 1 .. n
        /\ log[n] \in Commit
    BY DEF Replacing, Inv, UploadTypeOK
  <1>2. log[n].remove = LiveBefore(n)
    BY DEF Replacing, LastReplaces
  <1>3. log[n].add \subseteq Live
    <2> SUFFICES ASSUME NEW f \in log[n].add
                 PROVE  f \in Live
      OBVIOUS
    <2>1. f \in File
      BY <1>1 DEF Commit
    <2>2. n \in DOMAIN log /\ \A j \in DOMAIN log : ~(j > n)
      BY <1>1
    <2>3. QED
      BY <2>1, <2>2 DEF Live
  <1>4. Live \subseteq log[n].add
    <2> SUFFICES ASSUME NEW f \in Live, f \notin log[n].add
                 PROVE  FALSE
      OBVIOUS
    <2>1. PICK i \in DOMAIN log : /\ f \in log[i].add
                                  /\ \A j \in DOMAIN log : j > i => f \notin log[j].remove
      BY DEF Live
    <2>2. i \in 1 .. n - 1 /\ f \in File
      BY <1>1, <2>1 DEF Live
    <2>3. f \in LiveBefore(n)
      BY <1>1, <2>1, <2>2 DEF LiveBefore
    <2>4. f \notin log[n].remove
      BY <1>1, <2>1, <2>2
    <2>5. QED
      BY <1>2, <2>3, <2>4
  <1>5. QED
    BY <1>3, <1>4

\* Writing the commit keeps the first one, and the one written replaces everything.
LEMMA PutReplaces ==
    ASSUME Replacing, pc = "put", Put, UNCHANGED <<named, version, stale, staged>>
    PROVE  /\ Len(log') >= 2
           /\ log'[1] = log[1]
           /\ LiveBefore(version)' = LiveBefore(version)
           /\ \A i \in DOMAIN log' : i > version => log'[i].foreign
           /\ LastReplaces'
  <1> DEFINE n == Len(log')
  <1>1. /\ Inv /\ Working /\ log \in Seq(Commit) /\ Len(log) \in Nat /\ Len(log) >= 1
        /\ DOMAIN log = 1 .. Len(log) /\ version \in Nat /\ version >= 2
    BY DEF Replacing, Inv, UploadTypeOK, FirstIsOld, Working
  <1>2. /\ log' \in Seq(Commit)
        /\ version \in 1 .. Len(log')
        /\ Len(log) <= Len(log')
        /\ DOMAIN log' = DOMAIN log \union {version}
        /\ log'[version] = [add |-> staged, remove |-> stale, foreign |-> FALSE]
        /\ \A i \in DOMAIN log \ {version} : log'[i] = log[i]
    BY <1>1, PutLog
  <1>3. n \in Nat /\ DOMAIN log' = 1 .. n /\ n >= 2 /\ log'[1] = log[1]
    <2>1. n \in Nat /\ DOMAIN log' = 1 .. n
      BY <1>2
    <2>2. n >= 2 /\ 1 \in DOMAIN log \ {version}
      BY <1>1, <1>2, <2>1
    <2>3. QED
      BY <1>2, <2>1, <2>2
  <1>4. \A i \in 1 .. version - 1 : log'[i] = log[i]
    BY <1>1, <1>2, <1>3
  <1>5. LiveBefore(version)' = LiveBefore(version)
    BY <1>4 DEF LiveBefore
  <1>6. \A i \in DOMAIN log' : i > version => log'[i].foreign
    BY <1>1, <1>2 DEF Replacing, StaleIsBefore
  <1>7. LastReplaces'
    <2>1. CASE n = version
      <3>1. log'[n] = [add |-> staged, remove |-> stale, foreign |-> FALSE]
        BY <1>2, <2>1
      <3>2. LiveBefore(Len(log))' = LiveBefore(version)'
        BY <1>4, <2>1 DEF LiveBefore
      <3>3. stale = LiveBefore(Len(log))'
        BY <1>1, <1>5, <3>2 DEF Replacing, StaleIsBefore
      <3>4. staged \intersect Old = {} /\ Cardinality(staged) = Size
        BY DEF Replacing, CopyIsNew
      <3>5. QED
        BY <3>1, <3>3, <3>4 DEF LastReplaces
    <2>2. CASE n # version
      <3>1. n \in DOMAIN log' /\ n > version
        BY <1>1, <1>2, <1>3, <2>2
      <3>2. log'[n].foreign
        BY <1>6, <3>1
      <3>3. QED
        BY <3>2 DEF LastReplaces, OwnLast
    <2>3. QED
      BY <2>1, <2>2
  <1>8. QED
    BY <1>3, <1>5, <1>6, <1>7

LEMMA NextReplacing == Replacing /\ [UploadNext]_uploadVars => Replacing'
  <1> SUFFICES ASSUME Replacing, [UploadNext]_uploadVars
               PROVE  Replacing'
    OBVIOUS
  <1>0. /\ Inv' /\ log \in Seq(Commit) /\ Len(log) \in Nat /\ Len(log) >= 1
        /\ DOMAIN log = 1 .. Len(log) /\ version \in Nat
    BY NextInv DEF Replacing, Inv, UploadTypeOK, FirstIsOld
  \* Steps that leave the log alone: what is stated of it alone stays true.
  <1>a. ASSUME UNCHANGED log
        PROVE  LastReplaces'
    BY <1>a DEF Replacing, LastReplaces, OwnLast, LiveBefore
  <1>1. CASE BeginUpload
    <2>1. log' = log /\ version' = Len(log) + 1 /\ stale' = Live /\ pc' = "stage" /\ UNCHANGED named
      BY <1>1 DEF BeginUpload
    <2>2. stale' = LiveBefore(version)'
      <3>1. LiveBefore(version)' = LiveBefore(Len(log) + 1)
        BY <2>1 DEF LiveBefore
      <3>2. 1 .. (Len(log) + 1) - 1 = DOMAIN log
        BY <1>0
      <3>3. LiveBefore(Len(log) + 1) = Live
        BY <3>2, Zenon DEF LiveBefore, Live
      <3>4. QED
        BY <2>1, <3>1, <3>3
    <2>3. StaleIsBefore'
      BY <1>0, <2>1, <2>2 DEF StaleIsBefore
    <2>4. FirstIsOld' /\ CopyIsNew'
      BY <1>0, <2>1 DEF Replacing, FirstIsOld, CopyIsNew
    <2>5. QED
      BY <1>0, <1>a, <2>1, <2>3, <2>4 DEF Replacing
  <1>2. CASE Stage
    <2>1. UNCHANGED <<log, version, stale>> /\ Working /\ pc' = "data"
      BY <1>2 DEF Stage, Working
    <2>2. PICK fresh \in SUBSET (File \ named) :
              Cardinality(fresh) = Size /\ staged' = fresh /\ named' = named \union fresh
      BY <1>2 DEF Stage
    <2>3. CopyIsNew'
      BY <2>1, <2>2 DEF Replacing, CopyIsNew
    <2>4. StaleIsBefore' /\ FirstIsOld'
      BY <2>1 DEF Replacing, StaleIsBefore, FirstIsOld, LiveBefore
    <2>5. QED
      BY <1>0, <1>a, <2>1, <2>3, <2>4 DEF Replacing
  <1>3. ASSUME NEW f \in File, UploadData(f)
        PROVE  Replacing'
    <2>1. /\ UNCHANGED <<log, version, stale, staged, named>> /\ Working
          /\ pc = "data" /\ pc' \in {"data", "commit"}
      BY <1>3 DEF UploadData, Working
    <2>2. CopyIsNew' /\ StaleIsBefore' /\ FirstIsOld'
      BY <2>1 DEF Replacing, CopyIsNew, StaleIsBefore, FirstIsOld, LiveBefore
    <2>3. QED
      BY <1>0, <1>a, <2>1, <2>2 DEF Replacing
  <1>4. CASE SkipCommit \/ CheckCommit
    <2>1. /\ UNCHANGED <<log, version, stale, staged, named>> /\ Working
          /\ pc = "commit"
          /\ pc' = "put" \/ (pc' = "returned" /\ version <= Len(log))
      BY <1>4 DEF SkipCommit, CheckCommit, Working
    <2>2. CopyIsNew' /\ StaleIsBefore'
      BY <2>1 DEF Replacing, CopyIsNew, StaleIsBefore, LiveBefore, Working
    <2>3. FirstIsOld'
      BY <1>0, <2>1 DEF Replacing, FirstIsOld, Working
    <2>4. QED
      BY <1>0, <1>a, <2>1, <2>2, <2>3 DEF Replacing
  <1>5. CASE PutCommit
    <2>1. /\ pc = "put" /\ Put /\ pc' = "returned" /\ UNCHANGED <<named, version, stale, staged>>
      BY <1>5 DEF PutCommit
    <2>2. Len(log') >= 2 /\ log'[1] = log[1] /\ LastReplaces'
      BY <2>1, PutReplaces
    <2>3. FirstIsOld' /\ CopyIsNew' /\ StaleIsBefore'
      BY <1>0, <2>1, <2>2 DEF Replacing, FirstIsOld, CopyIsNew, StaleIsBefore, Working
    <2>4. QED
      BY <1>0, <2>2, <2>3 DEF Replacing
  <1>6. CASE UploadFails
    <2>1. UNCHANGED <<named, version, stale, staged>> /\ Working /\ pc' \in {"stage", "raised"}
      BY <1>6 DEF UploadFails, Caught, GivesUp
    <2>2. CASE UNCHANGED log
      BY <1>0, <1>a, <2>1, <2>2
      DEF Replacing, FirstIsOld, CopyIsNew, StaleIsBefore, LiveBefore
    <2>3. CASE pc = "put" /\ Put
      <3>1. /\ Len(log') >= 2 /\ log'[1] = log[1] /\ LastReplaces'
            /\ LiveBefore(version)' = LiveBefore(version)
            /\ \A i \in DOMAIN log' : i > version => log'[i].foreign
        BY <2>1, <2>3, PutReplaces
      <3>2. FirstIsOld' /\ CopyIsNew'
        BY <1>0, <2>1, <3>1 DEF Replacing, FirstIsOld, CopyIsNew
      <3>3. StaleIsBefore'
        BY <2>1, <3>1 DEF Replacing, StaleIsBefore
      <3>4. QED
        BY <1>0, <3>1, <3>2, <3>3 DEF Replacing
    <2>4. QED
      BY <1>6, <2>2, <2>3 DEF UploadFails
  <1>7. CASE Dies
    <2>1. UNCHANGED <<log, named>> /\ pc' = "raised"
      BY <1>7 DEF Dies
    <2>2. QED
      BY <1>0, <1>a, <2>1 DEF Replacing, FirstIsOld, CopyIsNew, StaleIsBefore, Working
  <1>8. CASE OtherCommit
    <2>1. PICK f \in File \ named, gone \in SUBSET Live :
              /\ log' = Append(log, [add |-> {f}, remove |-> gone, foreign |-> TRUE])
              /\ named' = named \union {f}
      BY <1>8 DEF OtherCommit
    <2>2. UNCHANGED <<pc, attempt, version, stale, staged, pending>>
      BY <1>8 DEF OtherCommit
    <2>3. [add |-> {f}, remove |-> gone, foreign |-> TRUE] \in Commit
      BY <2>1 DEF Commit, Live
    <2>4. /\ Len(log') = Len(log) + 1 /\ DOMAIN log' = 1 .. Len(log) + 1
          /\ log'[Len(log) + 1] = [add |-> {f}, remove |-> gone, foreign |-> TRUE]
          /\ \A i \in 1 .. Len(log) : log'[i] = log[i]
      BY <1>0, <2>1, <2>3
    <2>5. FirstIsOld' /\ CopyIsNew'
      BY <1>0, <2>1, <2>2, <2>4 DEF Replacing, FirstIsOld, CopyIsNew, Working
    <2>6. LastReplaces'
      BY <2>4 DEF LastReplaces, OwnLast
    <2>7. StaleIsBefore'
      <3>1. version - 1 <= Len(log)
        BY <1>0 DEF Replacing, Inv, UploadTypeOK
      <3>2. \A i \in 1 .. version - 1 : log'[i] = log[i]
        BY <1>0, <2>4, <3>1
      <3>3. LiveBefore(version)' = LiveBefore(version)
        BY <2>2, <3>2 DEF LiveBefore
      <3>4. \A i \in DOMAIN log' : i \in DOMAIN log \/ log'[i].foreign
        BY <1>0, <2>4
      <3>5. QED
        BY <1>0, <2>2, <2>4, <3>3, <3>4 DEF Replacing, StaleIsBefore, Working
    <2>8. QED
      BY <1>0, <2>5, <2>6, <2>7 DEF Replacing
  <1>9. CASE Vacuum
    <2>1. UNCHANGED <<log, named, pc, version, stale, staged>>
      BY <1>9 DEF Vacuum
    <2>2. QED
      BY <1>0, <1>a, <2>1
      DEF Replacing, FirstIsOld, CopyIsNew, StaleIsBefore, LiveBefore, Working
  <1>10. CASE UNCHANGED uploadVars
    BY <1>0, <1>a, <1>10
    DEF uploadVars, Replacing, FirstIsOld, CopyIsNew, StaleIsBefore, LiveBefore, Working
  <1>11. QED
    BY <1>1, <1>2, <1>3, <1>4, <1>5, <1>6, <1>7, <1>8, <1>9, <1>10 DEF UploadNext

LEMMA ReplacingOldOrNew == Replacing => OldOrNew /\ ReturnedReplaced
  <1> SUFFICES ASSUME Replacing, OwnLast
               PROVE  /\ Live = Old \/ (Live \intersect Old = {} /\ Cardinality(Live) = Size)
                      /\ pc = "returned" => Live \intersect Old = {}
    BY DEF OldOrNew, ReturnedReplaced
  <1>1. Len(log) \in Nat /\ Len(log) >= 1 /\ DOMAIN log = 1 .. Len(log)
    BY DEF Replacing, Inv, UploadTypeOK, FirstIsOld
  <1>2. CASE Len(log) = 1
    <2>1. DOMAIN log = {1} /\ log[1] = [add |-> Old, remove |-> {}, foreign |-> FALSE]
      BY <1>1, <1>2 DEF Replacing, FirstIsOld
    <2>2. Live = Old
      BY <2>1, OldIsFile DEF Live
    <2>3. QED
      BY <1>2, <2>2 DEF Replacing, FirstIsOld
  <1>3. CASE Len(log) > 1
    BY <1>3, ReplacedIsLive DEF Replacing, LastReplaces
  <1>4. QED
    BY <1>1, <1>2, <1>3

\* Unless another writer committed last, a reader sees the old table or one whole copy
\* of the new frame, never a mix and never two copies: however often an upload failed,
\* took effect unseen, was started again or overwrote another writer's commit
\* (build_commit: every stale path is removed by the commit that adds the copy).
THEOREM NeverAMix == UploadSpec => []OldOrNew
  <1>1. QED
    BY ReplacingOldOrNew, InitReplacing, NextReplacing, PTL DEF UploadSpec

\* A script that reports success has replaced the table, also when it found its commit
\* uploaded by an attempt whose answer was lost ("already uploaded, skipping").
THEOREM SuccessMeansReplaced == UploadSpec => []ReturnedReplaced
  <1>1. QED
    BY ReplacingOldOrNew, InitReplacing, NextReplacing, PTL DEF UploadSpec
=============================================================================
