---------------------------- MODULE BrokerEvents ----------------------------
(***************************************************************************)
(* The rows every broker's transform writes to normalized/{broker}_events  *)
(* and normalized/{broker}_snapshot.                                       *)
(*                                                                         *)
(* An amount carries the currency it really is in.  The table has no such  *)
(* column: its security_ccy is what the transform claims.  Amounts are     *)
(* small integers, and of a date only its month is told apart.             *)
(***************************************************************************)
EXTENDS Integers, SequencesExt

Money(n, ccy) == [n |-> n, ccy |-> ccy]
Null == Money(0, "null")

\* The first of two values that is not null: pl.coalesce, or Python's `or`.
Coalesce(value, other, null) == IF value # null THEN value ELSE other

Abs(n) == IF n < 0 THEN -n ELSE n
Magnitude(m) == Money(Abs(m.n), m.ccy)

---------------------------------------------------------------------------
(* Multiplying by a rate from one currency to another.  An amount of any   *)
(* other currency comes out as an amount of none.  Where a broker left the *)
(* rate out it is One, which changes nothing.                              *)

FxRate(from, to, n) == [from |-> from, to |-> to, n |-> n]
One == FxRate("", "", 1)

Exchanged(m, rate) ==
    IF m = Null \/ rate = One THEN m
    ELSE Money(m.n * rate.n, IF m.ccy = rate.from THEN rate.to ELSE "none")

\* Dividing by it.
Reversed(m, rate) ==
    IF rate = One THEN m
    ELSE Money(m.n \div rate.n, IF m.ccy = rate.to THEN rate.from ELSE "none")

\* An amount is in the currency its row says; nothing is in any.
Labelled(m, ccy) == m.n = 0 \/ m.ccy = ccy

---------------------------------------------------------------------------
\* A row of events: `base` and `fx` say where its target_fx_rate would come from,
\* `month` is the one its event_datetime parses to, 0 when it does not.
NoEvent ==
    [broker |-> "", account |-> "", id |-> <<>>, type |-> "UNKNOWN", month |-> 0,
     ccy |-> "", base |-> "", fx |-> FALSE, amount |-> Null, fee |-> Null, tax |-> Null,
     side |-> "", ticker |-> ""]

\* A row of the snapshot.
Position(broker, type, label, value, ccy) ==
    [broker |-> broker, type |-> type, label |-> label, value |-> value, ccy |-> ccy]

---------------------------------------------------------------------------
IsSequence(list) == list \in Seq(ToSet(list))

\* The elements of a list at some of its places, in their order.
Picked(list, places) ==
    [n \in 1 .. Cardinality(places) |->
        list[CHOOSE k \in places : Cardinality({j \in places : j <= k}) = n]]

\* Those that pass a test: SelectSeq by places, which proofs can take apart.
Passing(list, Test(_)) == Picked(list, {n \in DOMAIN list : Test(list[n])})

\* The tables a dedup may leave of rows with these identities: one row of each.  The
\* rows of one fetch have one fetched_at, and the sort by it leaves their order open.
Deduped(rows, identity) ==
    LET one == {K \in SUBSET DOMAIN rows :
                   \A n \in DOMAIN rows : \E k \in K :
                       /\ identity[k] = identity[n]
                       /\ \A j \in K : identity[j] = identity[k] => j = k}
    IN  {Picked(rows, K) : K \in one}
=============================================================================
