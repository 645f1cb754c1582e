------------------------------- MODULE RowLemmas -------------------------------
(***************************************************************************)
(* Lemmas about the operators that the proofs about rows of events use:    *)
(* lists and what is picked from them, and sums over finite sets.          *)
(*                                                                         *)
(* What holds of every finite set is proved by a least counterexample:     *)
(* numbers are well-founded, so a set of finite sets that is not empty has *)
(* a smallest member.                                                      *)
(***************************************************************************)
EXTENDS BrokerEvents, FiniteSetTheorems, WellFoundedInduction, TLAPS

-----------------------------------------------------------------------------
(* Least and greatest.                                                     *)

\* A set of natural numbers that is not empty has a least.
LEMMA Least ==
  ASSUME NEW S \in SUBSET Nat, S # {}
  PROVE  \E least \in S : \A n \in S : least <= n
<1>1. PICK least \in S : \A n \in S : ~(<<n, least>> \in OpToRel(<, Nat))
  BY WFMin, NatLessThanWellFounded
<1>2. ASSUME NEW n \in S PROVE least <= n
  <2>1. ~(<<n, least>> \in OpToRel(<, Nat))
    BY <1>1
  <2>2. ~(n < least)
    BY <2>1 DEF OpToRel
  <2> QED
    BY <2>2
<1> QED
  BY <1>2

LEMMA MaxIs ==
  ASSUME NEW a \in Int, NEW b \in Int
  PROVE  Max({a, b}) \in Int /\ a <= Max({a, b}) /\ b <= Max({a, b})
<1>1. \E x \in {a, b} : \A y \in {a, b} : x >= y
  OBVIOUS
<1>2. Max({a, b}) \in {a, b} /\ \A y \in {a, b} : Max({a, b}) >= y
  BY <1>1 DEF Max
<1> QED
  BY <1>2

\* Of some of the numbers from 1 to len the greatest is one of them.
LEMMA Greatest ==
  ASSUME NEW len \in Nat, NEW S \in SUBSET (1 .. len), S # {}
  PROVE  \E x \in S : \A y \in S : x >= y
<1> DEFINE down == {len - x : x \in S}
<1>1. down \in SUBSET Nat /\ down # {}
  <2>1. \A x \in S : x \in Int /\ x <= len
    OBVIOUS
  <2>2. \A x \in S : len - x \in Nat
    BY <2>1
  <2> QED
    BY <2>2
<1>2. PICK least \in down : \A n \in down : least <= n
  BY <1>1, Least
<1>3. PICK x \in S : least = len - x
  OBVIOUS
<1>4. \A y \in S : len - y \in down /\ y \in Int
  OBVIOUS
<1> HIDE DEF down
<1>5. \A y \in S : x >= y
  BY <1>2, <1>3, <1>4
<1> QED
  BY <1>5

-----------------------------------------------------------------------------
(* Lists.                                                                  *)

\* A finite set can be listed.
LEMMA ListedSet ==
  ASSUME NEW S, IsFiniteSet(S)
  PROVE  /\ SetToSeq(S) \in [1 .. Cardinality(S) -> S] /\ Cardinality(S) \in Nat
         /\ ToSet(SetToSeq(S)) = S
<1>1. Cardinality(S) \in Nat /\ ExistsBijection(1 .. Cardinality(S), S)
  BY FS_CardinalityType
<1>2. PICK f \in Bijection(1 .. Cardinality(S), S) : TRUE
  BY <1>1 DEF ExistsBijection
<1>3. f \in [1 .. Cardinality(S) -> S] /\ IsInjective(f)
  BY <1>2 DEF Bijection, Injection, IsInjective
<1> DEFINE g == SetToSeq(S)
<1>4. g \in [1 .. Cardinality(S) -> S] /\ IsInjective(g)
  BY <1>3 DEF SetToSeq
<1> HIDE DEF g
<1>5. g \in Injection(1 .. Cardinality(S), S)
  BY <1>4 DEF Injection, IsInjective
<1>6. Cardinality(1 .. Cardinality(S)) = Cardinality(S)
  BY <1>1, FS_Interval
<1>7. g \in Surjection(1 .. Cardinality(S), S)
  BY <1>5, <1>6, FS_Injection
<1>8. \A x \in S : \E n \in 1 .. Cardinality(S) : g[n] = x
  BY <1>7 DEF Surjection
<1>9. ToSet(g) = S
  BY <1>4, <1>8 DEF ToSet
<1> QED
  BY <1>1, <1>4, <1>9 DEF g

\* `place` says where each element was that is picked, every place once.
Enumerates(place, places, list) ==
    /\ Cardinality(places) \in Nat
    /\ place \in [1 .. Cardinality(places) -> places]
    /\ \A k \in places : \E n \in 1 .. Cardinality(places) : place[n] = k
    /\ \A m, n \in 1 .. Cardinality(places) : place[m] = place[n] => m = n
    /\ Picked(list, places) = [n \in 1 .. Cardinality(places) |-> list[place[n]]]

LEMMA PlacesPicked ==
  ASSUME NEW list, NEW len \in Nat, NEW places \in SUBSET (1 .. len)
  PROVE  \E place : Enumerates(place, places, list)
<1> DEFINE upTo(k) == {j \in places : j <= k}
           rank == [k \in places |-> Cardinality(upTo(k))]
           size == Cardinality(places)
<1>0. places \subseteq Int
  OBVIOUS
<1>1. IsFiniteSet(places) /\ size \in Nat
  <2>1. IsFiniteSet(1 .. len)
    BY FS_Interval
  <2> QED
    BY <2>1, FS_Subset, FS_CardinalityType
<1>2. ASSUME NEW k \in places PROVE rank[k] \in 1 .. size /\ IsFiniteSet(upTo(k))
  <2>1. upTo(k) \in SUBSET places /\ k \in upTo(k)
    BY <1>0
  <2>2. IsFiniteSet(upTo(k)) /\ Cardinality(upTo(k)) <= size
    BY <1>1, <2>1, FS_Subset
  <2>3. Cardinality(upTo(k)) \in Nat /\ Cardinality(upTo(k)) # 0
    BY <2>1, <2>2, FS_CardinalityType, FS_EmptySet
  <2> QED
    BY <1>1, <2>2, <2>3
<1>3. ASSUME NEW k \in places, NEW m \in places, k < m PROVE rank[k] # rank[m]
  <2>1. upTo(k) \in SUBSET upTo(m) /\ m \in upTo(m) /\ m \notin upTo(k)
    <3>1. k \in Int /\ m \in Int /\ k <= m /\ m <= m /\ ~(m <= k)
      BY <1>0, <1>3
    <3>2. \A j \in places : j <= k => j <= m
      BY <1>0, <3>1
    <3> QED
      BY <3>1, <3>2
  <2>2. Cardinality(upTo(m)) # Cardinality(upTo(k))
    BY <1>2, <2>1, FS_Subset
  <2> QED
    BY <2>2
<1> HIDE DEF size
<1>4. rank \in Injection(places, 1 .. size)
  <2>1. rank \in [places -> 1 .. size]
    BY <1>2
  <2>2. \A k, m \in places : k # m => k < m \/ m < k
    BY <1>0
  <2>3. \A k, m \in places : rank[k] = rank[m] => k = m
    BY <2>2, <1>3
  <2> QED
    BY <2>1, <2>3 DEF Injection, IsInjective
<1>5. rank \in Surjection(places, 1 .. size)
  <2>1. IsFiniteSet(1 .. size) /\ Cardinality(1 .. size) = size
    BY <1>1, FS_Interval
  <2>2. Cardinality(places) = Cardinality(1 .. size)
    BY <2>1 DEF size
  <2> QED
    BY <1>4, <2>1, <2>2, FS_Injection
<1> DEFINE at(n) == CHOOSE k \in places : Cardinality(upTo(k)) = n
<1>6. ASSUME NEW n \in 1 .. size PROVE at(n) \in places
  <2>1. \E k \in places : Cardinality(upTo(k)) = n
    BY <1>5 DEF Surjection
  <2> QED
    BY <2>1
<1>7. ASSUME NEW k \in places PROVE rank[k] \in 1 .. size /\ at(rank[k]) = k
  <2>1. \A m \in places : Cardinality(upTo(m)) = rank[k] => m = k
    BY <1>4 DEF Injection, IsInjective
  <2>2. Cardinality(upTo(at(rank[k]))) = rank[k] /\ at(rank[k]) \in places
    OBVIOUS
  <2> QED
    BY <1>2, <2>1, <2>2
<1>8. Picked(list, places) = [n \in 1 .. size |-> list[at(n)]]
  BY DEF Picked, size
<1>9. ASSUME NEW m \in 1 .. size, NEW n \in 1 .. size, at(m) = at(n) PROVE m = n
  <2>1. PICK k \in places : rank[k] = m
    BY <1>5 DEF Surjection
  <2>2. PICK j \in places : rank[j] = n
    BY <1>5 DEF Surjection
  <2> HIDE DEF at, rank
  <2> QED
    BY <1>7, <1>9, <2>1, <2>2
<1> DEFINE place == [n \in 1 .. size |-> at(n)]
<1>10. /\ place \in [1 .. size -> places]
        /\ \A k \in places : \E n \in 1 .. size : place[n] = k
  <2>1. \A k \in places : \E n \in 1 .. size : at(n) = k
    <3> HIDE DEF at, rank
    <3> QED
      BY <1>7
  <2> HIDE DEF at
  <2> QED
    BY <1>6, <2>1
<1>11. \A m, n \in 1 .. size : place[m] = place[n] => m = n
  <2> HIDE DEF at
  <2> QED
    BY <1>9
<1>12. Picked(list, places) = [n \in 1 .. size |-> list[place[n]]]
  <2> HIDE DEF at
  <2> QED
    BY <1>8
<1> HIDE DEF place
<1>13. Enumerates(place, places, list)
  BY <1>1, <1>10, <1>11, <1>12 DEF Enumerates, size
<1> QED
  BY <1>13

\* What is picked from a list is what is there at the places.
LEMMA PickedAre ==
  ASSUME NEW list, NEW len \in Nat, NEW places \in SUBSET (1 .. len)
  PROVE  ToSet(Picked(list, places)) = {list[k] : k \in places}
<1>0. PICK place : Enumerates(place, places, list)
  BY PlacesPicked
<1> DEFINE size == Cardinality(places)
<1>1. Picked(list, places) = [n \in 1 .. size |-> list[place[n]]]
  BY <1>0 DEF Enumerates
<1>2. (\A n \in 1 .. size : place[n] \in places) /\ \A k \in places : \E n \in 1 .. size : place[n] = k
  BY <1>0 DEF Enumerates
<1> HIDE DEF size
<1>3. ToSet(Picked(list, places)) = {list[place[n]] : n \in 1 .. size}
  BY <1>1 DEF ToSet
<1> QED
  BY <1>2, <1>3

\* A list is a function from 1 to its length.
IsList(s) == \E n \in Nat : s = [k \in 1 .. n |-> s[k]]

LEMMA EmptyList == IsList(<<>>) /\ ToSet(<<>>) = {}
<1>1. <<>> = [k \in 1 .. 0 |-> <<>>[k]]
  OBVIOUS
<1>2. IsList(<<>>)
  BY <1>1 DEF IsList
<1> QED
  BY <1>2 DEF ToSet

LEMMA OneElement == \A x : IsList(<<x>>) /\ ToSet(<<x>>) = {x}
<1>1. \A x : <<x>> = [k \in 1 .. 1 |-> <<x>>[k]]
  OBVIOUS
<1>2. \A x : IsList(<<x>>)
  BY <1>1 DEF IsList
<1>3. ASSUME NEW x PROVE ToSet(<<x>>) = {x}
  <2>1. DOMAIN <<x>> = {1} /\ <<x>>[1] = x
    OBVIOUS
  <2> QED
    BY <2>1 DEF ToSet
<1> QED
  BY <1>2, <1>3

LEMMA Joined ==
  ASSUME NEW s, NEW t, IsList(s), IsList(t)
  PROVE  IsList(s \o t) /\ ToSet(s \o t) = ToSet(s) \cup ToSet(t)
<1> PICK m \in Nat : s = [k \in 1 .. m |-> s[k]]
  BY DEF IsList
<1> PICK n \in Nat : t = [k \in 1 .. n |-> t[k]]
  BY DEF IsList
<1> DEFINE S == ToSet(s) \cup ToSet(t)
<1>1. DOMAIN s = 1 .. m /\ DOMAIN t = 1 .. n
  OBVIOUS
<1>2. (\A k \in 1 .. m : s[k] \in S) /\ (\A k \in 1 .. n : t[k] \in S)
  BY <1>1 DEF ToSet
<1> HIDE DEF S
<1>3. s \in Seq(S) /\ t \in Seq(S) /\ Len(s) = m /\ Len(t) = n
  BY <1>1, <1>2
<1>4. s \o t = [k \in 1 .. m + n |-> IF k <= m THEN s[k] ELSE t[k - m]]
  BY <1>3
<1>5. IsList(s \o t)
  <2>1. m + n \in Nat
    OBVIOUS
  <2>2. s \o t = [k \in 1 .. m + n |-> (s \o t)[k]]
    BY <1>4
  <2> QED
    BY <2>1, <2>2 DEF IsList
<1>6. ToSet(s \o t) \subseteq ToSet(s) \cup ToSet(t)
  BY <1>1, <1>4 DEF ToSet
<1>7. ASSUME NEW k \in 1 .. m PROVE s[k] \in ToSet(s \o t)
  <2>1. k \in 1 .. m + n /\ k <= m
    OBVIOUS
  <2> QED
    BY <1>4, <2>1 DEF ToSet
<1>8. ASSUME NEW k \in 1 .. n PROVE t[k] \in ToSet(s \o t)
  <2>1. k + m \in 1 .. m + n /\ ~(k + m <= m) /\ (k + m) - m = k
    OBVIOUS
  <2> QED
    BY <1>4, <2>1 DEF ToSet
<1>9. ToSet(s) \cup ToSet(t) \subseteq ToSet(s \o t)
  <2> HIDE DEF S
  <2>1. \A x \in ToSet(s) : \E k \in 1 .. m : x = s[k]
    BY <1>1 DEF ToSet
  <2>2. \A x \in ToSet(t) : \E k \in 1 .. n : x = t[k]
    BY <1>1 DEF ToSet
  <2> QED
    BY <1>7, <1>8, <2>1, <2>2
<1> QED
  BY <1>5, <1>6, <1>9

\* A sequence is a list, and so is what is made of each of a list's elements or picked
\* from it.
LEMMA ListsAre ==
  /\ \A list : list \in Seq(ToSet(list)) => IsList(list)
  /\ \A list, made : IsList(list) /\ made = [n \in DOMAIN list |-> made[n]] => IsList(made)
  /\ \A list : IsList(list) => \E len \in Nat : DOMAIN list = 1 .. len
<1>1. ASSUME NEW list, list \in Seq(ToSet(list)) PROVE IsList(list)
  <2>1. Len(list) \in Nat /\ list = [n \in 1 .. Len(list) |-> list[n]]
    BY <1>1
  <2> QED
    BY <2>1 DEF IsList
<1>2. ASSUME NEW list, IsList(list) PROVE \E len \in Nat : DOMAIN list = 1 .. len
  BY <1>2 DEF IsList
<1>3. ASSUME NEW list, NEW made, IsList(list), made = [n \in DOMAIN list |-> made[n]]
      PROVE  IsList(made)
  <2>1. PICK len \in Nat : DOMAIN list = 1 .. len
    BY <1>2, <1>3
  <2> QED
    BY <1>3, <2>1 DEF IsList
<1> QED
  BY <1>1, <1>2, <1>3

LEMMA PickedList ==
  ASSUME NEW list, IsList(list), NEW places \in SUBSET DOMAIN list
  PROVE  IsList(Picked(list, places)) /\ ToSet(Picked(list, places)) = {list[k] : k \in places}
<1>1. PICK len \in Nat : DOMAIN list = 1 .. len
  BY ListsAre
<1>2. PICK place : Enumerates(place, places, list)
  BY <1>1, PlacesPicked
<1> DEFINE size == Cardinality(places)
<1>3. size \in Nat /\ Picked(list, places) = [n \in 1 .. size |-> list[place[n]]]
  BY <1>2 DEF Enumerates
<1> HIDE DEF size
<1>4. Picked(list, places) = [n \in 1 .. size |-> Picked(list, places)[n]]
  BY <1>3
<1>5. IsList(Picked(list, places))
  BY <1>3, <1>4 DEF IsList
<1> QED
  BY <1>1, <1>5, PickedAre

\* What is added at the end of two lists is at the last place and nowhere else.
LEMMA AddedLast ==
  ASSUME NEW s, IsList(s), NEW t, IsList(t), NEW x
  PROVE  LET all == s \o (t \o <<x>>)
         IN  \E last \in DOMAIN all :
                 /\ all[last] = x
                 /\ \A n \in DOMAIN all : n = last \/ all[n] \in ToSet(s) \cup ToSet(t)
<1> PICK m \in Nat : s = [k \in 1 .. m |-> s[k]]
  BY DEF IsList
<1> PICK n \in Nat : t = [k \in 1 .. n |-> t[k]]
  BY DEF IsList
<1> DEFINE S == ToSet(s) \cup ToSet(t) \cup {x}
           tail == t \o <<x>>
           all == s \o tail
<1>1. DOMAIN s = 1 .. m /\ DOMAIN t = 1 .. n
  OBVIOUS
<1>2. (\A k \in 1 .. m : s[k] \in ToSet(s)) /\ (\A k \in 1 .. n : t[k] \in ToSet(t))
  BY <1>1 DEF ToSet
<1>3. (\A k \in 1 .. m : s[k] \in S) /\ (\A k \in 1 .. n : t[k] \in S) /\ x \in S
  BY <1>2
<1> HIDE DEF S
<1>4. s \in Seq(S) /\ t \in Seq(S) /\ Len(s) = m /\ Len(t) = n
  BY <1>1, <1>3
<1>5. /\ tail \in Seq(S) /\ Len(tail) = n + 1 /\ tail[n + 1] = x
      /\ \A k \in 1 .. n : tail[k] = t[k]
  BY <1>3, <1>4
<1> HIDE DEF tail
<1>6. all = [k \in 1 .. m + (n + 1) |-> IF k <= m THEN s[k] ELSE tail[k - m]]
  BY <1>4, <1>5
<1> HIDE DEF all
<1>7. m + (n + 1) \in DOMAIN all /\ all[m + (n + 1)] = x
  <2>1. m + (n + 1) \in 1 .. m + (n + 1) /\ ~(m + (n + 1) <= m) /\ (m + (n + 1)) - m = n + 1
    OBVIOUS
  <2> QED
    BY <1>5, <1>6, <2>1
<1>8. ASSUME NEW k \in DOMAIN all, k # m + (n + 1) PROVE all[k] \in ToSet(s) \cup ToSet(t)
  <2>0. k \in 1 .. m + (n + 1)
    BY <1>6
  <2>1. CASE k <= m
    <3>1. k \in 1 .. m
      BY <2>0, <2>1
    <3> QED
      BY <1>2, <1>6, <2>0, <2>1, <3>1
  <2>2. CASE ~(k <= m)
    <3>0. k \in Int /\ k <= m + (n + 1) /\ k # m + (n + 1) /\ ~(k <= m)
      BY <1>8, <2>0, <2>2
    <3>1. k - m \in 1 .. n
      <4>1. \A i \in Int : i <= m + (n + 1) /\ i # m + (n + 1) /\ ~(i <= m) => i - m \in 1 .. n
        OBVIOUS
      <4> QED
        BY <3>0, <4>1
    <3>2. all[k] = tail[k - m]
      BY <1>6, <2>0, <2>2
    <3> QED
      BY <1>2, <1>5, <3>1, <3>2
  <2> QED
    BY <2>1, <2>2
<1> QED
  BY <1>7, <1>8 DEF all, tail

\* What is left by a dedup: rows that were there, one of each identity.
LEMMA DedupedAre ==
  ASSUME NEW rows, IsList(rows), NEW identity, NEW table \in Deduped(rows, identity)
  PROVE  \E K \in SUBSET DOMAIN rows :
             /\ ToSet(table) = {rows[k] : k \in K}
             /\ \A n \in DOMAIN rows : \E k \in K :
                    /\ identity[k] = identity[n]
                    /\ \A j \in K : identity[j] = identity[k] => j = k
<1>1. PICK K \in SUBSET DOMAIN rows :
          /\ table = Picked(rows, K)
          /\ \A n \in DOMAIN rows : \E k \in K :
                 /\ identity[k] = identity[n]
                 /\ \A j \in K : identity[j] = identity[k] => j = k
  BY DEF Deduped
<1>2. PICK n \in Nat : rows = [k \in 1 .. n |-> rows[k]]
  BY DEF IsList
<1>3. K \in SUBSET (1 .. n)
  BY <1>2
<1>4. ToSet(Picked(rows, K)) = {rows[k] : k \in K}
  BY <1>3, PickedAre
<1> QED
  BY <1>1, <1>4

\* When a row's identity is told by the row, no two places of the table have the same one.
LEMMA DedupedOnce ==
  ASSUME NEW rows, IsList(rows), NEW id, NEW identity,
         \A n \in DOMAIN rows : identity[n] = id[rows[n]],
         NEW table \in Deduped(rows, identity)
  PROVE  /\ IsList(table) /\ ToSet(table) \subseteq ToSet(rows)
         /\ \A r \in ToSet(rows) : \E kept \in ToSet(table) : id[kept] = id[r]
         /\ \A m, n \in DOMAIN table : id[table[m]] = id[table[n]] => m = n
<1>1. PICK K \in SUBSET DOMAIN rows :
          /\ table = Picked(rows, K)
          /\ \A n \in DOMAIN rows : \E k \in K :
                 /\ identity[k] = identity[n]
                 /\ \A j \in K : identity[j] = identity[k] => j = k
  BY DEF Deduped
<1>2. PICK len \in Nat : DOMAIN rows = 1 .. len
  BY ListsAre
<1>3. IsList(table) /\ ToSet(table) = {rows[k] : k \in K}
  BY <1>1, PickedList
<1>4. ToSet(table) \subseteq ToSet(rows)
  BY <1>3 DEF ToSet
<1>5. ASSUME NEW r \in ToSet(rows) PROVE \E kept \in ToSet(table) : id[kept] = id[r]
  <2>1. PICK n \in DOMAIN rows : r = rows[n]
    BY DEF ToSet
  <2>2. PICK k \in K : identity[k] = identity[n]
    BY <1>1
  <2> QED
    BY <1>3, <2>1, <2>2
<1>6. \A j, k \in K : id[rows[j]] = id[rows[k]] => j = k
  BY <1>1
<1>7. PICK place : Enumerates(place, K, rows)
  BY <1>2, PlacesPicked
<1> DEFINE size == Cardinality(K)
<1>8. /\ table = [n \in 1 .. size |-> rows[place[n]]]
      /\ \A n \in 1 .. size : place[n] \in K
      /\ \A m, n \in 1 .. size : place[m] = place[n] => m = n
  BY <1>1, <1>7 DEF Enumerates
<1> HIDE DEF size
<1>9. \A m, n \in DOMAIN table : id[table[m]] = id[table[n]] => m = n
  BY <1>6, <1>8
<1> QED
  BY <1>3, <1>4, <1>5, <1>9
-----------------------------------------------------------------------------
(* Sums.                                                                   *)

\* Of some finite sets one is smallest.
LEMMA Smallest ==
  ASSUME NEW Sets, Sets # {}, \A S \in Sets : IsFiniteSet(S)
  PROVE  \E S \in Sets : \A T \in Sets : Cardinality(S) <= Cardinality(T)
<1> DEFINE sizes == {Cardinality(S) : S \in Sets}
<1>1. sizes \in SUBSET Nat /\ sizes # {}
  BY FS_CardinalityType
<1>2. PICK least \in sizes : \A n \in sizes : least <= n
  BY <1>1, Least
<1> QED
  BY <1>2

\* Without one of its elements a set has one element less.
LEMMA OneLess ==
  ASSUME NEW S, IsFiniteSet(S), NEW x \in S
  PROVE  /\ IsFiniteSet(S \ {x}) /\ Cardinality(S \ {x}) \in Nat
         /\ Cardinality(S) \in Nat /\ Cardinality(S \ {x}) = Cardinality(S) - 1
  BY FS_RemoveElement, FS_CardinalityType

\* A set of subsets of a finite set that is not empty has one none of whose elements can
\* be taken away.
LEMMA Minimal ==
  ASSUME NEW S, IsFiniteSet(S), NEW Sets \in SUBSET (SUBSET S), Sets # {}
  PROVE  \E T \in Sets : IsFiniteSet(T) /\ \A x \in T : T \ {x} \notin Sets
<1>1. \A T \in Sets : IsFiniteSet(T) /\ Cardinality(T) \in Nat
  BY FS_Subset, FS_CardinalityType
<1>2. PICK T \in Sets : \A U \in Sets : Cardinality(T) <= Cardinality(U)
  BY <1>1, Smallest
<1>3. ASSUME NEW x \in T PROVE T \ {x} \notin Sets
  <2>1. Cardinality(T \ {x}) = Cardinality(T) - 1 /\ Cardinality(T) \in Nat
    BY <1>1, OneLess
  <2> QED
    BY <1>2, <2>1
<1> QED
  BY <1>1, <1>2, <1>3

Chosen(S) == CHOOSE x \in S : TRUE

\* The function that SumFunctionOnSet chooses.
AddsUp(g, f, S) ==
    g = [s \in SUBSET S |-> IF s = {} THEN 0 ELSE f[Chosen(s)] + g[s \ {Chosen(s)}]]

LEMMA SumIsChosen ==
  ASSUME NEW f, NEW S
  PROVE  SumFunctionOnSet(f, S) = (CHOOSE g : AddsUp(g, f, S))[S]
  BY DEF SumFunctionOnSet, FoldFunctionOnSet, MapThenFoldSet, AddsUp, Chosen

LEMMA SomethingAddsUp ==
  ASSUME NEW f, NEW S, IsFiniteSet(S)
  PROVE  \E g : AddsUp(g, f, S)
<1> DEFINE next(g, s) == IF s = {} THEN 0 ELSE f[Chosen(s)] + g[s \ {Chosen(s)}]
           upTo(n) == {s \in SUBSET S : Cardinality(s) <= n}
           bad == {n \in Nat : ~\E g : \A s \in upTo(n) : g[s] = next(g, s)}
<1>0. \A s \in SUBSET S : IsFiniteSet(s) /\ Cardinality(s) \in Nat
  BY FS_Subset, FS_CardinalityType
<1>1. bad = {}
  <2> SUFFICES ASSUME bad # {} PROVE FALSE
    OBVIOUS
  <2>1. PICK n \in bad : \A k \in bad : n <= k
    <3>1. bad \in SUBSET Nat
      OBVIOUS
    <3> HIDE DEF bad
    <3> QED
      BY <3>1, Least
  <2>2. CASE n = 0
    <3>1. \A s \in upTo(0) : s = {}
      BY <1>0, FS_EmptySet
    <3>2. \A s \in upTo(0) : [t \in SUBSET S |-> 0][s] = next([t \in SUBSET S |-> 0], s)
      BY <3>1
    <3> QED
      BY <2>2, <3>2
  <2>3. CASE n # 0
    <3>0. n \in Nat
      OBVIOUS
    <3>1. n - 1 \in Nat /\ n - 1 \notin bad /\ n \in Nat
      <4> HIDE DEF bad
      <4> QED
        BY <2>1, <2>3, <3>0
    <3>2. PICK g : \A s \in upTo(n - 1) : g[s] = next(g, s)
      BY <3>1
    <3> DEFINE h == [s \in SUBSET S |-> next(g, s)]
    <3>3. ASSUME NEW s \in upTo(n) PROVE h[s] = next(h, s)
      <4>1. CASE s = {}
        BY <4>1
      <4>2. CASE s # {}
        <5>1. Chosen(s) \in s
          BY <4>2 DEF Chosen
        <5>2. s \ {Chosen(s)} \in upTo(n - 1)
          BY <1>0, <3>1, <5>1, OneLess
        <5>3. h[s \ {Chosen(s)}] = g[s \ {Chosen(s)}]
          BY <3>2, <5>2
        <5> QED
          BY <4>2, <5>3
      <4> QED
        BY <4>1, <4>2
    <3> HIDE DEF h
    <3>4. \E g2 : \A s \in upTo(n) : g2[s] = next(g2, s)
      BY <3>3
    <3> QED
      BY <2>1, <3>4
  <2> QED
    BY <2>2, <2>3
<1>2. PICK g : \A s \in upTo(Cardinality(S)) : g[s] = next(g, s)
  BY <1>0, <1>1
<1>3. \A s \in SUBSET S : s \in upTo(Cardinality(S))
  BY FS_Subset
<1> DEFINE h == [s \in SUBSET S |-> g[s]]
<1>4. ASSUME NEW s \in SUBSET S PROVE h[s] = next(h, s)
  BY <1>2, <1>3
<1>5. h = [s \in SUBSET S |-> next(h, s)]
  BY <1>4
<1> HIDE DEF h
<1>6. AddsUp(h, f, S)
  BY <1>5 DEF AddsUp
<1> QED
  BY <1>6

\* A sum takes an element chosen from the set and adds what the rest sums up to.
LEMMA SumByChoice ==
  ASSUME NEW f, NEW S, IsFiniteSet(S)
  PROVE  SumFunctionOnSet(f, S) =
             IF S = {} THEN 0 ELSE f[Chosen(S)] + SumFunctionOnSet(f, S \ {Chosen(S)})
<1> DEFINE of(T) == CHOOSE g : AddsUp(g, f, T)
           rest == S \ {Chosen(S)}
<1>1. ASSUME NEW T, IsFiniteSet(T) PROVE AddsUp(of(T), f, T)
  BY <1>1, SomethingAddsUp
<1> HIDE DEF of
<1>2. \A s \in SUBSET S :
          of(S)[s] = IF s = {} THEN 0 ELSE f[Chosen(s)] + of(S)[s \ {Chosen(s)}]
  BY <1>1 DEF AddsUp
<1>3. SumFunctionOnSet(f, S) = of(S)[S] /\ SumFunctionOnSet(f, rest) = of(rest)[rest]
  BY SumIsChosen DEF of
<1>4. rest \in SUBSET S /\ IsFiniteSet(rest)
  BY FS_Subset
<1> HIDE DEF rest
<1>5. \A s \in SUBSET rest :
          of(rest)[s] = IF s = {} THEN 0 ELSE f[Chosen(s)] + of(rest)[s \ {Chosen(s)}]
  BY <1>1, <1>4 DEF AddsUp
<1>6. of(rest)[rest] = of(S)[rest]
  <2> DEFINE apart == {s \in SUBSET rest : of(rest)[s] # of(S)[s]}
  <2>1. CASE apart # {}
    <3>1. apart \in SUBSET (SUBSET rest)
      OBVIOUS
    <3>2. PICK s \in apart : \A x \in s : s \ {x} \notin apart
      <4> HIDE DEF apart
      <4> QED
        BY <1>4, <2>1, <3>1, Minimal
    <3>3. s # {} /\ Chosen(s) \in s
      BY <1>2, <1>4, <1>5 DEF Chosen
    <3> QED
      BY <1>2, <1>4, <1>5, <3>2, <3>3
  <2>2. CASE apart = {}
    BY <2>2
  <2> QED
    BY <2>1, <2>2
<1> QED
  BY <1>2, <1>3, <1>6 DEF rest

LEMMA NoSum == \A f : SumFunctionOnSet(f, {}) = 0
  BY SumByChoice, FS_EmptySet

\* It is the same whichever element is taken.
LEMMA SumTakes ==
  ASSUME NEW f, NEW S, IsFiniteSet(S), \A x \in S : f[x] \in Int
  PROVE  /\ SumFunctionOnSet(f, S) \in Int
         /\ \A x \in S : SumFunctionOnSet(f, S) = f[x] + SumFunctionOnSet(f, S \ {x})
<1> DEFINE sum == [T \in SUBSET S |-> SumFunctionOnSet(f, T)]
           holds(T) == /\ sum[T] \in Int
                       /\ \A x \in T : sum[T \ {x}] \in Int /\ sum[T] = f[x] + sum[T \ {x}]
           bad == {T \in SUBSET S : ~holds(T)}
<1>1. \A T \in SUBSET S :
          sum[T] = IF T = {} THEN 0 ELSE f[Chosen(T)] + sum[T \ {Chosen(T)}]
  BY SumByChoice, FS_Subset
<1> HIDE DEF sum
<1>2. bad = {}
  <2> SUFFICES ASSUME bad # {} PROVE FALSE
    OBVIOUS
  <2>1. PICK T \in bad : \A x \in T : T \ {x} \notin bad
    <3>1. bad \in SUBSET (SUBSET S)
      OBVIOUS
    <3> HIDE DEF bad
    <3> QED
      BY <3>1, Minimal
  <2>2. ASSUME NEW x \in T PROVE holds(T \ {x})
    BY <2>1
  <2>3. T # {} /\ Chosen(T) \in T
    <3>1. sum[{}] = 0
      BY <1>1
    <3>2. T = {} => holds(T)
      BY <3>1
    <3>3. ~holds(T)
      OBVIOUS
    <3> HIDE DEF holds
    <3> QED
      BY <3>2, <3>3 DEF Chosen
  <2> DEFINE c == Chosen(T)
  <2>4. c \in T /\ f[c] \in Int /\ sum[T \ {c}] \in Int /\ sum[T] = f[c] + sum[T \ {c}]
    BY <1>1, <2>2, <2>3
  <2> HIDE DEF c
  <2>5. ASSUME NEW x \in T PROVE sum[T \ {x}] \in Int /\ sum[T] = f[x] + sum[T \ {x}]
    <3>1. CASE x = c
      BY <2>4, <3>1
    <3>2. CASE x # c
      <4> DEFINE both == (T \ {c}) \ {x}
      <4>1. both = (T \ {x}) \ {c} /\ x \in T \ {c} /\ c \in T \ {x}
        BY <2>4, <3>2
      <4>2. sum[T \ {c}] = f[x] + sum[both] /\ sum[both] \in Int
        BY <2>2, <2>4, <4>1
      <4>3. sum[T \ {x}] = f[c] + sum[both] /\ sum[T \ {x}] \in Int
        BY <2>2, <2>4, <4>1
      <4>4. f[x] \in Int
        OBVIOUS
      <4> HIDE DEF both
      <4> QED
        BY <2>4, <4>2, <4>3, <4>4
    <3> QED
      BY <3>1, <3>2
  <2>6. holds(T)
    BY <2>4, <2>5
  <2> HIDE DEF holds
  <2> QED
    BY <2>6
<1>3. holds(S)
  BY <1>2
<1> QED
  BY <1>3 DEF sum

\* The sum only depends on the values in the set.
LEMMA SameSum ==
  ASSUME NEW f, NEW g, NEW S, IsFiniteSet(S), \A x \in S : f[x] = g[x]
  PROVE  SumFunctionOnSet(f, S) = SumFunctionOnSet(g, S)
<1> DEFINE F == [T \in SUBSET S |-> SumFunctionOnSet(f, T)]
           G == [T \in SUBSET S |-> SumFunctionOnSet(g, T)]
           bad == {T \in SUBSET S : F[T] # G[T]}
<1>1. \A T \in SUBSET S :
          /\ F[T] = IF T = {} THEN 0 ELSE f[Chosen(T)] + F[T \ {Chosen(T)}]
          /\ G[T] = IF T = {} THEN 0 ELSE g[Chosen(T)] + G[T \ {Chosen(T)}]
  BY SumByChoice, FS_Subset
<1> HIDE DEF F, G
<1>2. bad = {}
  <2> SUFFICES ASSUME bad # {} PROVE FALSE
    OBVIOUS
  <2>1. PICK T \in bad : \A x \in T : T \ {x} \notin bad
    <3>1. bad \in SUBSET (SUBSET S)
      OBVIOUS
    <3> HIDE DEF bad
    <3> QED
      BY <3>1, Minimal
  <2>2. T # {} /\ Chosen(T) \in T
    BY <1>1 DEF Chosen
  <2> QED
    BY <1>1, <2>1, <2>2
<1>3. F[S] = G[S]
  BY <1>2
<1> QED
  BY <1>3 DEF F, G

\* Two sets with nothing in common add up to their union.
LEMMA SumOfBoth ==
  ASSUME NEW f, NEW S, NEW T, IsFiniteSet(S), IsFiniteSet(T), S \intersect T = {},
         \A x \in S \cup T : f[x] \in Int
  PROVE  SumFunctionOnSet(f, S \cup T) = SumFunctionOnSet(f, S) + SumFunctionOnSet(f, T)
<1> DEFINE sum == [U \in SUBSET (S \cup T) |-> SumFunctionOnSet(f, U)]
           bad == {U \in SUBSET S : sum[U \cup T] # sum[U] + sum[T]}
<1>1. \A U \in SUBSET (S \cup T) :
          sum[U] \in Int /\ \A x \in U : sum[U] = f[x] + sum[U \ {x}]
  <2>1. \A U \in SUBSET (S \cup T) : IsFiniteSet(U)
    BY FS_Subset, FS_Union
  <2> QED
    BY <2>1, SumTakes
<1>2. sum[{}] = 0
  BY NoSum
<1> HIDE DEF sum
<1>3. bad = {}
  <2> SUFFICES ASSUME bad # {} PROVE FALSE
    OBVIOUS
  <2>1. PICK U \in bad : \A x \in U : U \ {x} \notin bad
    <3>1. bad \in SUBSET (SUBSET S)
      OBVIOUS
    <3> HIDE DEF bad
    <3> QED
      BY <3>1, Minimal
  <2>2. U # {}
    <3>1. {} \cup T = T /\ sum[T] \in Int /\ 0 + sum[T] = sum[T]
      BY <1>1
    <3>2. {} \notin bad
      BY <1>2, <3>1
    <3> HIDE DEF bad
    <3> QED
      BY <3>2
  <2>3. PICK x \in U : TRUE
    BY <2>2
  <2>4. sum[(U \ {x}) \cup T] = sum[U \ {x}] + sum[T]
    BY <2>1
  <2>5. (U \cup T) \ {x} = (U \ {x}) \cup T
    BY <2>1
  <2>6. /\ sum[U] = f[x] + sum[U \ {x}] /\ sum[U \cup T] = f[x] + sum[(U \ {x}) \cup T]
        /\ sum[U \ {x}] \in Int /\ sum[T] \in Int /\ f[x] \in Int
    <3>1. /\ U \in SUBSET (S \cup T) /\ U \cup T \in SUBSET (S \cup T) /\ x \in U \cup T
          /\ U \ {x} \in SUBSET (S \cup T) /\ T \in SUBSET (S \cup T) /\ x \in S
      OBVIOUS
    <3>2. /\ sum[U] = f[x] + sum[U \ {x}] /\ sum[U \cup T] = f[x] + sum[(U \cup T) \ {x}]
          /\ sum[U \ {x}] \in Int /\ sum[T] \in Int /\ f[x] \in Int
      BY <1>1, <3>1
    <3> HIDE DEF bad
    <3> QED
      BY <2>5, <3>2
  <2>7. sum[U \cup T] = sum[U] + sum[T]
    BY <2>4, <2>6
  <2> QED
    BY <2>1, <2>7
<1>4. sum[S \cup T] = sum[S] + sum[T]
  BY <1>3
<1> QED
  BY <1>4 DEF sum

\* What is 0 may be left out.
LEMMA SumOfNothing ==
  ASSUME NEW f, NEW S, IsFiniteSet(S), \A x \in S : f[x] \in Int
  PROVE  SumFunctionOnSet(f, {x \in S : f[x] # 0}) = SumFunctionOnSet(f, S)
<1> DEFINE zero == {x \in S : f[x] = 0}
           sum == [T \in SUBSET zero |-> SumFunctionOnSet(f, T)]
           bad == {T \in SUBSET zero : sum[T] # 0}
<1>1. IsFiniteSet(zero) /\ IsFiniteSet({x \in S : f[x] # 0})
  BY FS_Subset
<1>2. \A T \in SUBSET zero :
          sum[T] = IF T = {} THEN 0 ELSE f[Chosen(T)] + sum[T \ {Chosen(T)}]
  <2>1. \A T \in SUBSET zero : IsFiniteSet(T)
    BY <1>1, FS_Subset
  <2> QED
    BY <2>1, SumByChoice
<1> HIDE DEF sum
<1>3. bad = {}
  <2> SUFFICES ASSUME bad # {} PROVE FALSE
    OBVIOUS
  <2>1. PICK T \in bad : \A x \in T : T \ {x} \notin bad
    <3>1. bad \in SUBSET (SUBSET zero)
      OBVIOUS
    <3> HIDE DEF bad, zero
    <3> QED
      BY <1>1, <3>1, Minimal
  <2>2. T # {} /\ Chosen(T) \in T
    BY <1>2 DEF Chosen
  <2>3. sum[T] = f[Chosen(T)] + sum[T \ {Chosen(T)}] /\ f[Chosen(T)] = 0
    BY <1>2, <2>2
  <2>4. sum[T \ {Chosen(T)}] = 0
    BY <2>1, <2>2
  <2> QED
    BY <2>3, <2>4
<1>4. SumFunctionOnSet(f, zero) = 0
  BY <1>3 DEF sum
<1>5. S = {x \in S : f[x] # 0} \cup zero /\ {x \in S : f[x] # 0} \intersect zero = {}
  OBVIOUS
<1> HIDE DEF zero
<1>6. SumFunctionOnSet(f, S) =
          SumFunctionOnSet(f, {x \in S : f[x] # 0}) + SumFunctionOnSet(f, zero)
  BY <1>1, <1>5, SumOfBoth
<1>7. SumFunctionOnSet(f, {x \in S : f[x] # 0}) \in Int
  BY <1>1, SumTakes
<1> QED
  BY <1>4, <1>6, <1>7

\* Sums over parts that have nothing in common add up to the sum over all of them.
LEMMA SumOfParts ==
  ASSUME NEW f, NEW g, NEW part, NEW R, IsFiniteSet(R),
         \A r \in R : IsFiniteSet(part[r]) /\ g[r] = SumFunctionOnSet(f, part[r]),
         \A r, s \in R : r # s => part[r] \intersect part[s] = {},
         \A r \in R : \A x \in part[r] : f[x] \in Int
  PROVE  SumFunctionOnSet(g, R) = SumFunctionOnSet(f, UNION {part[r] : r \in R})
<1> DEFINE all(Q) == UNION {part[r] : r \in Q}
           over == [Q \in SUBSET R |-> SumFunctionOnSet(g, Q)]
           in == [Q \in SUBSET R |-> SumFunctionOnSet(f, all(Q))]
           bad == {Q \in SUBSET R : over[Q] # in[Q]}
<1>1. ASSUME NEW Q \in SUBSET R PROVE IsFiniteSet(all(Q)) /\ \A x \in all(Q) : f[x] \in Int
  <2> DEFINE parts == {part[r] : r \in Q}
             the == [r \in Q |-> part[r]]
  <2>1. IsFiniteSet(Q)
    BY FS_Subset
  <2>2. the \in Surjection(Q, parts)
    BY DEF Surjection
  <2> HIDE DEF the
  <2>3. IsFiniteSet(parts)
    BY <2>1, <2>2, FS_Surjection
  <2>4. \A P \in parts : IsFiniteSet(P)
    OBVIOUS
  <2>5. \A x \in UNION parts : f[x] \in Int
    OBVIOUS
  <2> HIDE DEF parts
  <2>6. IsFiniteSet(UNION parts)
    BY <2>3, <2>4, FS_UNION
  <2> QED
    BY <2>5, <2>6 DEF parts
<1>2. \A r \in R : g[r] \in Int
  BY SumTakes
<1>3. ASSUME NEW Q \in SUBSET R, NEW r \in Q PROVE over[Q] = g[r] + over[Q \ {r}]
  <2>1. IsFiniteSet(Q)
    BY FS_Subset
  <2> QED
    BY <1>2, <2>1, SumTakes
<1>4. ASSUME NEW Q \in SUBSET R, NEW r \in Q PROVE in[Q] = g[r] + in[Q \ {r}]
  <2> DEFINE others == all(Q \ {r})
             own == part[r]
  <2>1. all(Q) = own \cup others /\ own \intersect others = {}
    OBVIOUS
  <2>2. IsFiniteSet(others) /\ \A x \in others : f[x] \in Int
    BY <1>1
  <2>3. IsFiniteSet(own) /\ (\A x \in own : f[x] \in Int) /\ g[r] = SumFunctionOnSet(f, own)
    OBVIOUS
  <2>4. in[Q] = SumFunctionOnSet(f, all(Q)) /\ in[Q \ {r}] = SumFunctionOnSet(f, others)
    OBVIOUS
  <2> HIDE DEF all, in, own, others
  <2>5. \A x \in own \cup others : f[x] \in Int
    BY <2>2, <2>3
  <2>6. SumFunctionOnSet(f, own \cup others) = SumFunctionOnSet(f, own) + SumFunctionOnSet(f, others)
    BY <2>1, <2>2, <2>3, <2>5, SumOfBoth
  <2> QED
    BY <2>1, <2>3, <2>4, <2>6
<1>5. over[{}] = in[{}]
  <2>1. all({}) = {}
    OBVIOUS
  <2> HIDE DEF all
  <2> QED
    BY <2>1, NoSum
<1> HIDE DEF over, in
<1>6. bad = {}
  <2> SUFFICES ASSUME bad # {} PROVE FALSE
    OBVIOUS
  <2>1. PICK Q \in bad : \A r \in Q : Q \ {r} \notin bad
    <3>1. bad \in SUBSET (SUBSET R)
      OBVIOUS
    <3> HIDE DEF bad
    <3> QED
      BY <3>1, Minimal
  <2>2. PICK r \in Q : TRUE
    BY <1>5, <2>1
  <2>3. over[Q] = g[r] + over[Q \ {r}] /\ in[Q] = g[r] + in[Q \ {r}] /\ Q \in SUBSET R
    BY <1>3, <1>4, <2>2
  <2>4. over[Q \ {r}] = in[Q \ {r}]
    BY <2>1, <2>2
  <2> QED
    BY <2>3, <2>4
<1>7. over[R] = in[R]
  BY <1>6
<1> QED
  BY <1>7 DEF over, in

\* Adding up what is found one by one elsewhere.
LEMMA SumMoved ==
  ASSUME NEW f, NEW g, NEW to, NEW S, IsFiniteSet(S),
         \A x \in S : g[x] = f[to[x]] /\ g[x] \in Int,
         \A x, y \in S : to[x] = to[y] => x = y
  PROVE  SumFunctionOnSet(g, S) = SumFunctionOnSet(f, {to[x] : x \in S})
<1> DEFINE part == [x \in S |-> {to[x]}]
<1>1. ASSUME NEW x \in S PROVE IsFiniteSet(part[x]) /\ g[x] = SumFunctionOnSet(f, part[x])
  <2>1. IsFiniteSet({to[x]})
    BY FS_Singleton
  <2>2. SumFunctionOnSet(f, {to[x]}) = f[to[x]] + SumFunctionOnSet(f, {to[x]} \ {to[x]})
    BY <2>1, SumTakes
  <2>3. {to[x]} \ {to[x]} = {}
    OBVIOUS
  <2>4. SumFunctionOnSet(f, {to[x]} \ {to[x]}) = 0
    BY <2>3, NoSum
  <2>5. f[to[x]] \in Int /\ g[x] = f[to[x]]
    OBVIOUS
  <2>6. g[x] = SumFunctionOnSet(f, {to[x]})
    BY <2>2, <2>4, <2>5
  <2> QED
    BY <2>1, <2>6
<1>2. \A x, y \in S : x # y => part[x] \intersect part[y] = {}
  OBVIOUS
<1>3. \A x \in S : \A y \in part[x] : f[y] \in Int
  OBVIOUS
<1>4. UNION {part[x] : x \in S} = {to[x] : x \in S}
  OBVIOUS
<1> HIDE DEF part
<1>5. SumFunctionOnSet(g, S) = SumFunctionOnSet(f, UNION {part[x] : x \in S})
  BY <1>1, <1>2, <1>3, SumOfParts
<1> QED
  BY <1>4, <1>5
=============================================================================
