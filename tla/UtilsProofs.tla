---------------------------- MODULE UtilsProofs ----------------------------
(***************************************************************************)
(* Proofs about the utilities.  HTable, for any keys, hashes, values and   *)
(* probe window and any number of buckets: the table is a map, and a walk  *)
(* meets all of it.  Crest, for any resources, requests and connections:   *)
(* where a request is routed to, when a handler runs and what body it is   *)
(* given.                                                                  *)
(***************************************************************************)
EXTENDS HTable, Crest, FiniteSetTheorems, TLAPS

-----------------------------------------------------------------------------
(* The hash table.                                                          *)

\* A struct htable: its buckets are those of its capacity.
Table(t) ==
    /\ t.cap \in Nat
    /\ t \in [len : Nat, cap : Nat, table : [0..(t.cap - 1) -> Bucket]]

InWindow(cap, k, b) == \E n \in 0..(ProbeWindow - 1) : b = Probe(cap, k, n)

\* Every key is inside its window, ...
Placed(t) == \A i \in Used(t) : InWindow(t.cap, t.table[i].key, i)

\* ... and in one bucket only.
Single(t) == \A i, j \in Used(t) : t.table[i].key = t.table[j].key => i = j

WellFormed(t) == Table(t) /\ Placed(t) /\ Single(t)

Counted(t) == IsFiniteSet(Names(t)) /\ t.len = Cardinality(Names(t))

\* The loop over htable_next has met what lies behind it.
Behind(k) == \E i \in Used(ht) : i < it /\ ht.table[i].key = k
WalkInv == it \in 0..ht.cap /\ met = [k \in Keys |-> IF Behind(k) THEN 1 ELSE 0]

CallInv == call = Zeroed \/ call \in [key : Keys, value : Values]

TableInv ==
    /\ WellFormed(ht)
    /\ Counted(ht)
    /\ ret \in [ok : BOOLEAN, value : Values \cup {0}]
    /\ CallInv
    /\ WalkInv

-----------------------------------------------------------------------------
(* Buckets.                                                                 *)

\* Every set of natural numbers has a least member,
LEMMA Least ==
    ASSUME NEW S \in SUBSET Nat, S # {}
    PROVE  \E x \in S : \A y \in S : x <= y
<1>1. IsWellFoundedOn(OpToRel(<, Nat), Nat)
  BY NatLessThanWellFounded
<1>2. PICK x \in S : \A y \in S : ~(<<y, x>> \in OpToRel(<, Nat))
  BY <1>1, WFMin
<1>3. \A y \in S : ~(y < x)
  BY <1>2 DEF OpToRel
<1> QED
  BY <1>3

\* ... so a set that has 0 and every successor up to n has all numbers up to n.
LEMMA UpTo ==
    ASSUME NEW n \in Nat, NEW S, 0 \in S, \A i \in 0..(n - 1) : i \in S => i + 1 \in S
    PROVE  0..n \subseteq S
<1> DEFINE B == {i \in 0..n : i \notin S}
<1>1. SUFFICES ASSUME B # {} PROVE FALSE
  OBVIOUS
<1>2. B \in SUBSET Nat
  OBVIOUS
<1>3. PICK i \in B : \A j \in B : i <= j
  <2> HIDE DEF B
  <2> QED
    BY <1>1, <1>2, Least
<1>4. i # 0 /\ i \in 0..n /\ i \notin S
  BY <1>3
<1>5. i - 1 \in 0..(n - 1) /\ ~(i <= i - 1) /\ i - 1 \in 0..n /\ (i - 1) + 1 = i
  BY <1>4
<1>6. i - 1 \in S
  BY <1>3, <1>5
<1> QED
  BY <1>4, <1>5, <1>6

\* A probe stays inside the table, also where it wraps around its end.
LEMMA ProbeRange ==
    ASSUME NEW k \in Keys, NEW n \in Nat, NEW cap \in Nat, cap # 0
    PROVE  Probe(cap, k, n) \in 0..(cap - 1)
<1>1. Hash[k] \in Nat
  BY HashAssumption
<1> QED
  BY <1>1 DEF Probe

\* The first of some probes that hold x is one of them.
LEMMA FirstProbe ==
    ASSUME NEW t, NEW k \in Keys, NEW x, t.cap \in Nat, t.cap # 0, Holding(t, k, x) # {}
    PROVE  LET b == First(t, k, Holding(t, k, x))
           IN  b \in 0..(t.cap - 1) /\ InWindow(t.cap, k, b) /\ t.table[b].key = x
<1> DEFINE H == Holding(t, k, x)
<1>1. H \in SUBSET Nat /\ H # {}
  BY DEF Holding
<1>2. \E i \in H : \A j \in H : i <= j
  <2> HIDE DEF H
  <2> QED
    BY <1>1, Least
<1>3. PICK i \in H : First(t, k, H) = Probe(t.cap, k, i)
  <2> HIDE DEF H
  <2> QED
    BY <1>2 DEF First
<1>4. i \in 0..(ProbeWindow - 1) /\ t.table[Probe(t.cap, k, i)].key = x
  BY DEF Holding
<1>5. i \in Nat
  BY <1>4, WindowAssumption
<1> QED
  BY <1>3, <1>4, <1>5, ProbeRange DEF InWindow

\* A key is found wherever it is: the window has it, or the table has not.
LEMMA FoundOrAbsent ==
    ASSUME NEW t, NEW k \in Keys, WellFormed(t), Holding(t, k, k) = {}
    PROVE  k \notin Names(t)
<1> SUFFICES ASSUME NEW i \in Used(t), t.table[i].key = k
             PROVE  FALSE
  BY DEF Names
<1>1. PICK n \in 0..(ProbeWindow - 1) : i = Probe(t.cap, k, n)
  BY DEF WellFormed, Placed, InWindow
<1> QED
  BY <1>1 DEF Holding

-----------------------------------------------------------------------------
(* Contents.                                                                *)

Pairs(t) == {<<t.table[i].key, t.table[i].value>> : i \in Used(t)}

\* A bucket's key and value are in the map,
LEMMA ContentsAt ==
    ASSUME NEW t, Single(t), NEW i \in Used(t)
    PROVE  t.table[i].key \in Names(t) /\ Contents(t)[t.table[i].key] = t.table[i].value
<1>1. t.table[i].key \in Names(t)
  BY DEF Names
<1> DEFINE j == CHOOSE j \in Used(t) : t.table[j].key = t.table[i].key
<1>2. j \in Used(t) /\ t.table[j].key = t.table[i].key
  OBVIOUS
<1>3. j = i
  BY <1>2 DEF Single
<1> HIDE DEF j
<1>4. Contents(t)[t.table[i].key] = t.table[j].value
  BY <1>1 DEF Contents, j
<1> QED
  BY <1>1, <1>3, <1>4

\* ... and nothing else is.
LEMMA PairIn ==
    ASSUME NEW t, Single(t), NEW k, NEW v
    PROVE  <<k, v>> \in Pairs(t) <=> (k \in Names(t) /\ Contents(t)[k] = v)
<1>1. ASSUME <<k, v>> \in Pairs(t)
      PROVE  k \in Names(t) /\ Contents(t)[k] = v
  <2>1. PICK i \in Used(t) : <<k, v>> = <<t.table[i].key, t.table[i].value>>
    BY <1>1 DEF Pairs
  <2>2. t.table[i].key = k /\ t.table[i].value = v
    BY <2>1
  <2> QED
    BY <2>2, ContentsAt
<1>2. ASSUME k \in Names(t), Contents(t)[k] = v
      PROVE  <<k, v>> \in Pairs(t)
  <2>1. PICK i \in Used(t) : k = t.table[i].key
    BY <1>2 DEF Names
  <2>2. t.table[i].value = v
    BY <1>2, <2>1, ContentsAt
  <2> QED
    BY <2>1, <2>2 DEF Pairs
<1> QED
  BY <1>1, <1>2

\* The domain of the map.
LEMMA ContentsDomain ==
    ASSUME NEW t
    PROVE  DOMAIN Contents(t) = Names(t) /\ Contents(t) = [k \in Names(t) |-> Contents(t)[k]]
BY DEF Contents

\* Tables with the same pairs are the same map.
LEMMA SameContents ==
    ASSUME NEW t, NEW u, Single(t), Single(u), Pairs(t) = Pairs(u)
    PROVE  Names(t) = Names(u) /\ Contents(t) = Contents(u)
<1>1. ASSUME NEW k \in Names(t) PROVE k \in Names(u) /\ Contents(u)[k] = Contents(t)[k]
  <2>1. <<k, Contents(t)[k]>> \in Pairs(t)
    BY PairIn
  <2>2. <<k, Contents(t)[k]>> \in Pairs(u)
    BY <2>1
  <2> QED
    BY <2>2, PairIn
<1>2. ASSUME NEW k \in Names(u) PROVE k \in Names(t)
  <2>1. <<k, Contents(u)[k]>> \in Pairs(u)
    BY PairIn
  <2>2. <<k, Contents(u)[k]>> \in Pairs(t)
    BY <2>1
  <2> QED
    BY <2>2, PairIn
<1>3. Names(t) = Names(u)
  BY <1>1, <1>2
<1> QED
  BY <1>1, <1>3, ContentsDomain

\* u is t but for the bucket b.
Changed(t, u, b, k, v) ==
    /\ u.cap = t.cap
    /\ u.table[b] = [key |-> k, value |-> v]
    /\ \A i \in 0..(t.cap - 1) : i # b => u.table[i] = t.table[i]

\* The map of t with the value of k set to v.
Set(t, k, v) == [x \in Names(t) \cup {k} |-> IF x = k THEN v ELSE Contents(t)[x]]

\* u has one pair more than t.
Adds(t, u, k, v) == Pairs(u) = Pairs(t) \cup {<<k, v>>}

\* A key that goes into a hole of its window,
LEMMA HoleFilled ==
    ASSUME NEW t, NEW u, NEW b \in 0..(t.cap - 1), NEW k \in Keys, NEW v,
           WellFormed(t), Table(u), Changed(t, u, b, k, v),
           t.table[b].key = Null, k \notin Names(t), InWindow(t.cap, k, b)
    PROVE  WellFormed(u) /\ Adds(t, u, k, v)
<1>1. Used(u) = Used(t) \cup {b}
  BY NullAssumption DEF Used, Changed
<1>2. \A i \in Used(t) : i # b /\ u.table[i] = t.table[i] /\ t.table[i].key # k
  BY DEF Used, Changed, Names
<1>3. u.table[b].key = k /\ u.table[b].value = v
  BY DEF Changed
<1>4. Placed(u)
  BY <1>1, <1>2, <1>3 DEF Placed, WellFormed, Changed
<1>5. Single(u)
  BY <1>1, <1>2, <1>3 DEF Single, WellFormed
<1>6. Pairs(u) = Pairs(t) \cup {<<k, v>>}
  BY <1>1, <1>2, <1>3 DEF Pairs
<1> QED
  BY <1>4, <1>5, <1>6 DEF WellFormed, Adds

\* ... adds it to the map.
LEMMA PairAdded ==
    ASSUME NEW t, NEW u, Single(t), Single(u), NEW k, NEW v,
           k \notin Names(t), Adds(t, u, k, v)
    PROVE  /\ Names(u) = Names(t) \cup {k}
           /\ Contents(u) = Set(t, k, v)
<1>1. k \in Names(u) /\ Contents(u)[k] = v
  <2>1. <<k, v>> \in Pairs(u)
    BY DEF Adds
  <2> QED
    BY <2>1, PairIn
<1>2. ASSUME NEW x \in Names(t) PROVE x \in Names(u) /\ Contents(u)[x] = Contents(t)[x]
  <2>1. <<x, Contents(t)[x]>> \in Pairs(t)
    BY PairIn
  <2>2. <<x, Contents(t)[x]>> \in Pairs(u)
    BY <2>1 DEF Adds
  <2> QED
    BY <2>2, PairIn
<1>3. ASSUME NEW x \in Names(u), x # k PROVE x \in Names(t)
  <2>1. <<x, Contents(u)[x]>> \in Pairs(u)
    BY PairIn
  <2>2. <<x, Contents(u)[x]>> \in Pairs(t)
    BY <2>1, <1>3 DEF Adds
  <2> QED
    BY <2>2, PairIn
<1>4. Names(u) = Names(t) \cup {k}
  BY <1>1, <1>2, <1>3
<1>5. \A x \in Names(u) : Contents(u)[x] = IF x = k THEN v ELSE Contents(t)[x]
  BY <1>1, <1>2, <1>3
<1> QED
  BY <1>4, <1>5, ContentsDomain DEF Set

\* The two together.
LEMMA KeyAdded ==
    ASSUME NEW t, NEW u, NEW b \in 0..(t.cap - 1), NEW k \in Keys, NEW v,
           WellFormed(t), Table(u), Changed(t, u, b, k, v),
           t.table[b].key = Null, k \notin Names(t), InWindow(t.cap, k, b)
    PROVE  /\ WellFormed(u)
           /\ Names(u) = Names(t) \cup {k}
           /\ Contents(u) = Set(t, k, v)
<1>1. WellFormed(u) /\ Adds(t, u, k, v)
  BY HoleFilled
<1>2. Single(t) /\ Single(u)
  BY <1>1 DEF WellFormed
<1> QED
  BY <1>1, <1>2, PairAdded

\* A bucket whose value is exchanged keeps its key and the others theirs.
LEMMA ValueSet ==
    ASSUME NEW t, NEW u, NEW b \in Used(t), NEW k \in Keys, NEW v,
           WellFormed(t), Table(u), Changed(t, u, b, k, v), t.table[b].key = k
    PROVE  /\ WellFormed(u)
           /\ Names(u) = Names(t) /\ k \in Names(t)
           /\ Contents(u) = Set(t, k, v)
<1>1. Used(u) = Used(t)
  BY NullAssumption DEF Used, Changed
<1>2. \A i \in Used(t) : u.table[i].key = t.table[i].key /\ (i # b => u.table[i] = t.table[i])
  BY DEF Used, Changed
<1>3. WellFormed(u)
  BY <1>1, <1>2 DEF WellFormed, Placed, Single, Changed
<1>4. Names(u) = Names(t)
  BY <1>1, <1>2 DEF Names
<1>5. k \in Names(t)
  BY DEF Names
<1>6. ASSUME NEW x \in Names(t)
      PROVE  Contents(u)[x] = IF x = k THEN v ELSE Contents(t)[x]
  <2>1. PICK i \in Used(t) : x = t.table[i].key
    BY DEF Names
  <2>2. Contents(t)[x] = t.table[i].value
    BY <2>1, ContentsAt DEF WellFormed
  <2>3. Contents(u)[x] = u.table[i].value
    BY <2>1, <1>1, <1>2, <1>3, ContentsAt DEF WellFormed
  <2>4. x = k <=> i = b
    BY <2>1 DEF WellFormed, Single
  <2>5. u.table[b].value = v
    BY DEF Changed
  <2> QED
    BY <2>2, <2>3, <2>4, <2>5, <1>2
<1>7. Contents(u) = [x \in Names(t) |-> Contents(u)[x]]
  BY <1>4, ContentsDomain
<1> QED
  BY <1>3, <1>4, <1>5, <1>6, <1>7 DEF Set

\* Table u is without the key that t has.
Removes(t, u, k) ==
    /\ Names(u) = Names(t) \ {k} /\ k \in Names(t)
    /\ Contents(u) = [x \in Names(t) \ {k} |-> Contents(t)[x]]

\* A bucket that becomes a hole takes its key out of the map.
LEMMA HoleMade ==
    ASSUME NEW t, NEW u, NEW b \in Used(t), NEW k, NEW v,
           WellFormed(t), Table(u), Changed(t, u, b, Null, v), t.table[b].key = k
    PROVE  WellFormed(u) /\ Removes(t, u, k)
<1>1. Used(u) = Used(t) \ {b}
  BY DEF Used, Changed
<1>2. \A i \in Used(t) \ {b} : u.table[i] = t.table[i] /\ t.table[i].key # k
  BY DEF Used, Changed, WellFormed, Single
<1>3. WellFormed(u)
  BY <1>1, <1>2 DEF WellFormed, Placed, Single, Changed
<1>4. Names(u) = Names(t) \ {k} /\ k \in Names(t)
  BY <1>1, <1>2 DEF Names
<1>5. ASSUME NEW x \in Names(t) \ {k}
      PROVE  Contents(u)[x] = Contents(t)[x]
  <2>1. PICK i \in Used(u) : x = u.table[i].key
    BY <1>4 DEF Names
  <2>2. i \in Used(t) /\ u.table[i] = t.table[i]
    BY <1>1, <1>2
  <2>3. Contents(t)[x] = t.table[i].value
    BY <2>1, <2>2, ContentsAt DEF WellFormed
  <2>4. Contents(u)[x] = u.table[i].value
    BY <2>1, <1>3, ContentsAt DEF WellFormed
  <2> QED
    BY <2>2, <2>3, <2>4
<1>6. Contents(u) = [x \in Names(u) |-> Contents(u)[x]]
  BY ContentsDomain
<1>7. Contents(u) = [x \in Names(t) \ {k} |-> Contents(t)[x]]
  BY <1>4, <1>5, <1>6
<1> QED
  BY <1>3, <1>4, <1>7 DEF Removes

-----------------------------------------------------------------------------
(* The rehash.  It is a recursive function; that there is one, and what it   *)
(* has done after n buckets, are inductions over n.                          *)

Put(f, t, cap, i) == IF i = 0 THEN Fresh(t, cap) ELSE table_put(f[i - 1], t.table[i - 1])

\* f holds the tables of a rehash of the first n buckets.
Moves(f, t, cap, n) == f = [i \in 0..n |-> Put(f, t, cap, i)]

\* The rehash is defined for any number of buckets.
LEMMA MovesExist ==
    ASSUME NEW t, NEW cap, NEW n \in Nat
    PROVE  \E f : Moves(f, t, cap, n)
<1> DEFINE S == {i \in Nat : \E f : Moves(f, t, cap, i)}
<1>1. 0 \in S
  <2> DEFINE f == [i \in 0..0 |-> Fresh(t, cap)]
  <2>1. \A i \in 0..0 : Put(f, t, cap, i) = Fresh(t, cap)
    BY DEF Put
  <2>2. f = [i \in 0..0 |-> Put(f, t, cap, i)]
    BY <2>1
  <2> HIDE DEF f
  <2> QED
    BY <2>2 DEF Moves
<1>2. ASSUME NEW i \in 0..(n - 1), i \in S PROVE i + 1 \in S
  <2>1. PICK f : Moves(f, t, cap, i)
    BY <1>2
  <2> DEFINE g == [j \in 0..(i + 1) |-> Put(f, t, cap, j)]
  <2>2. \A j \in 0..i : f[j] = Put(f, t, cap, j)
    BY <2>1 DEF Moves
  <2>3. \A j \in 0..i : g[j] = f[j]
    BY <2>2
  <2>4. \A j \in 0..(i + 1) : Put(g, t, cap, j) = Put(f, t, cap, j)
    <3> SUFFICES ASSUME NEW j \in 0..(i + 1) PROVE Put(g, t, cap, j) = Put(f, t, cap, j)
      OBVIOUS
    <3>1. CASE j = 0
      BY <3>1 DEF Put
    <3>2. CASE j # 0
      <4>1. j - 1 \in 0..i
        BY <3>2
      <4>2. g[j - 1] = f[j - 1]
        BY <2>3, <4>1
      <4> HIDE DEF g
      <4> QED
        BY <3>2, <4>2 DEF Put
    <3> QED
      BY <3>1, <3>2
  <2>5. \A j \in 0..(i + 1) : g[j] = Put(f, t, cap, j)
    OBVIOUS
  <2>6. g = [j \in 0..(i + 1) |-> g[j]]
    OBVIOUS
  <2> HIDE DEF g
  <2>7. g = [j \in 0..(i + 1) |-> Put(g, t, cap, j)]
    BY <2>4, <2>5, <2>6
  <2>8. \E h : Moves(h, t, cap, i + 1)
    BY <2>7 DEF Moves
  <2> QED
    BY <2>8
<1>3. 0..n \subseteq S
  <2> HIDE DEF S
  <2> QED
    BY <1>1, <1>2, UpTo
<1> QED
  BY <1>3

\* What a rehash comes to.
LEMMA RehashedMoves ==
    ASSUME NEW t, t.cap \in Nat, NEW cap
    PROVE  \E f : Moves(f, t, cap, t.cap) /\ Rehashed(t, cap) = f[t.cap]
<1>1. Rehashed(t, cap) = (CHOOSE f : Moves(f, t, cap, t.cap))[t.cap]
  BY DEF Rehashed, Moves, Put
<1>2. \E f : Moves(f, t, cap, t.cap)
  BY MovesExist
<1>3. Moves(CHOOSE f : Moves(f, t, cap, t.cap), t, cap, t.cap)
  BY <1>2
<1> QED
  BY <1>1, <1>3

\* The pairs of the first n buckets.
PairsBelow(t, n) == {<<t.table[i].key, t.table[i].value>> : i \in {j \in Used(t) : j < n}}

\* A table into which the first n buckets of t were put.
MovedUpTo(u, t, cap, n) ==
    /\ WellFormed(u)
    /\ u.cap = cap /\ u.len = t.len
    /\ Pairs(u) = PairsBelow(t, n)

\* A bucket that is put where there is room joins the others.
LEMMA BucketMoved ==
    ASSUME NEW t, WellFormed(t), NEW cap \in Nat, cap # 0, NEW n \in 0..(t.cap - 1),
           NEW u, MovedUpTo(u, t, cap, n), table_put(u, t.table[n]) # Empty
    PROVE  MovedUpTo(table_put(u, t.table[n]), t, cap, n + 1)
<1> DEFINE k == t.table[n].key
           v == t.table[n].value
           H == Holding(u, k, Null)
           b == First(u, k, H)
           w == Fill(u, b, k, v)
<1>1. t.table[n] \in Bucket /\ k \in Keys \cup {Null} /\ v \in Values \cup {0} /\ n \in Nat
  BY DEF WellFormed, Table, Bucket
<1>2. CASE k = Null
  <2>1. table_put(u, t.table[n]) = u
    BY <1>2 DEF table_put
  <2>2. n \notin Used(t)
    BY <1>2 DEF Used
  <2>3. \A j \in Used(t) : j < n + 1 <=> j < n
    BY <2>2, <1>1 DEF Used
  <2>4. PairsBelow(t, n + 1) = PairsBelow(t, n)
    BY <2>3 DEF PairsBelow
  <2> QED
    BY <2>1, <2>4 DEF MovedUpTo
<1>3. CASE k # Null
  <2>1. k \in Keys
    BY <1>1, <1>3
  <2>2. u # Empty
    BY DEF MovedUpTo, Empty
  <2>3. H # {} /\ table_put(u, t.table[n]) = w
    BY <1>3, <2>2 DEF table_put
  <2>4. u.cap \in Nat /\ u.cap # 0
    BY DEF MovedUpTo
  <2>5. b \in 0..(u.cap - 1) /\ InWindow(u.cap, k, b) /\ u.table[b].key = Null
    BY <2>1, <2>3, <2>4, FirstProbe
  <2>6. n \in Used(t)
    BY <1>3 DEF Used
  <2>7. k \notin Names(u)
    <3> SUFFICES ASSUME k \in Names(u) PROVE FALSE
      OBVIOUS
    <3>1. PICK i \in Used(u) : u.table[i].key = k
      BY DEF Names
    <3>2. <<u.table[i].key, u.table[i].value>> \in Pairs(u)
      BY DEF Pairs
    <3>3. PICK j \in {x \in Used(t) : x < n} :
             <<u.table[i].key, u.table[i].value>> = <<t.table[j].key, t.table[j].value>>
      BY <3>2 DEF MovedUpTo, PairsBelow
    <3>4. t.table[j].key = k /\ j < n /\ j \in Used(t)
      BY <3>1, <3>3
    <3> QED
      BY <3>4, <2>6 DEF WellFormed, Single
  <2> HIDE DEF k, v, H, b
  <2>8. Table(u)
    BY DEF MovedUpTo, WellFormed
  <2>9. [key |-> k, value |-> v] \in Bucket
    BY <1>1 DEF Bucket
  <2>10. Table(w) /\ Changed(u, w, b, k, v) /\ w.len = u.len
    BY <2>5, <2>8, <2>9 DEF Table, Changed, Fill
  <2> HIDE DEF w
  <2>11. WellFormed(w) /\ Pairs(w) = Pairs(u) \cup {<<k, v>>}
    BY <2>1, <2>5, <2>7, <2>10, HoleFilled DEF MovedUpTo, Adds
  <2>12. PairsBelow(t, n + 1) = PairsBelow(t, n) \cup {<<k, v>>}
    <3>1. {j \in Used(t) : j < n + 1} = {j \in Used(t) : j < n} \cup {n}
      BY <2>6, <1>1 DEF Used
    <3> QED
      BY <3>1 DEF PairsBelow, k, v
  <2> QED
    BY <2>3, <2>10, <2>11, <2>12 DEF MovedUpTo, Changed
<1> QED
  BY <1>2, <1>3

\* A rehash that overflows no window has moved every bucket.
LEMMA AllMoved ==
    ASSUME NEW t, WellFormed(t), NEW cap \in Nat, cap # 0, Rehashed(t, cap) # Empty
    PROVE  MovedUpTo(Rehashed(t, cap), t, cap, t.cap)
<1>0. t.cap \in Nat /\ t.len \in Nat
  BY DEF WellFormed, Table
<1>1. PICK f : Moves(f, t, cap, t.cap) /\ Rehashed(t, cap) = f[t.cap]
  BY <1>0, RehashedMoves
<1>2. \A i \in 0..t.cap : f[i] = Put(f, t, cap, i)
  BY <1>1 DEF Moves
<1> DEFINE S == {i \in 0..t.cap : f[i] # Empty => MovedUpTo(f[i], t, cap, i)}
<1>3. 0 \in S
  <2>1. f[0] = Fresh(t, cap)
    BY <1>0, <1>2 DEF Put
  <2> DEFINE u == Fresh(t, cap)
  <2>2. Used(u) = {}
    BY DEF Fresh, Used, Zeroed
  <2>3. Table(u)
    BY <1>0 DEF Table, Fresh, Zeroed, Bucket
  <2>4. WellFormed(u) /\ Pairs(u) = {}
    BY <2>2, <2>3 DEF WellFormed, Placed, Single, Pairs
  <2>5. PairsBelow(t, 0) = {}
    BY DEF PairsBelow, Used
  <2>6. u.cap = cap /\ u.len = t.len
    BY DEF Fresh
  <2>7. MovedUpTo(u, t, cap, 0)
    BY <2>4, <2>5, <2>6 DEF MovedUpTo
  <2> QED
    BY <1>0, <2>1, <2>7
<1>4. ASSUME NEW i \in 0..(t.cap - 1), i \in S PROVE i + 1 \in S
  <2>1. i + 1 \in 0..t.cap /\ i \in 0..t.cap /\ i + 1 # 0 /\ (i + 1) - 1 = i
    BY <1>0
  <2>2. f[i + 1] = table_put(f[i], t.table[i])
    BY <1>2, <2>1 DEF Put
  <2>3. CASE f[i] = Empty
    BY <2>1, <2>2, <2>3 DEF table_put
  <2>4. CASE f[i] # Empty
    <3>1. MovedUpTo(f[i], t, cap, i)
      BY <1>4, <2>4
    <3> QED
      BY <2>1, <2>2, <3>1, BucketMoved
  <2> QED
    BY <2>3, <2>4
<1>5. 0..t.cap \subseteq S
  <2> HIDE DEF S
  <2> QED
    BY <1>0, <1>3, <1>4, UpTo
<1>6. t.cap \in S
  BY <1>0, <1>5
<1> QED
  BY <1>1, <1>6

\* A resize keeps the map, and gives the table the buckets asked for.
LEMMA Resized ==
    ASSUME NEW t, WellFormed(t), NEW want \in Nat, NEW u \in htable_resize(t, want)
    PROVE  /\ WellFormed(u)
           /\ Names(u) = Names(t) /\ Contents(u) = Contents(t)
           /\ u.len = t.len
           /\ u.cap >= want
<1>0. t.cap \in Nat
  BY DEF WellFormed, Table
<1>1. CASE want <= t.cap
  BY <1>0, <1>1 DEF htable_resize
<1>2. CASE ~(want <= t.cap)
  <2>1. PICK c \in Capacities(t, want) : Rehashed(t, c) # Empty /\ u = Rehashed(t, c)
    BY <1>2 DEF htable_resize
  <2>2. c \in Nat /\ c >= want /\ c # 0
    BY <1>0, <1>2, WindowAssumption DEF Capacities
  <2>3. MovedUpTo(u, t, c, t.cap)
    BY <2>1, <2>2, AllMoved
  <2>4. PairsBelow(t, t.cap) = Pairs(t)
    <3>1. {j \in Used(t) : j < t.cap} = Used(t)
      BY <1>0 DEF Used
    <3> QED
      BY <3>1 DEF PairsBelow, Pairs
  <2>5. WellFormed(u) /\ Pairs(u) = Pairs(t) /\ u.cap = c /\ u.len = t.len
    BY <2>3, <2>4 DEF MovedUpTo
  <2> QED
    BY <2>2, <2>5, SameContents DEF WellFormed
<1> QED
  BY <1>1, <1>2

\* ... which is some, when an operation begins.
LEMMA SizedTable ==
    ASSUME NEW t, WellFormed(t), NEW u \in Sized(t)
    PROVE  /\ WellFormed(u) /\ u.cap \in Nat /\ u.cap # 0
           /\ Names(u) = Names(t) /\ Contents(u) = Contents(t)
           /\ u.len = t.len
<1>1. ProbeWindow \in Nat /\ ProbeWindow # 0
  BY WindowAssumption
<1>2. /\ WellFormed(u) /\ u.cap >= ProbeWindow /\ u.len = t.len
      /\ Names(u) = Names(t) /\ Contents(u) = Contents(t)
  BY <1>1, Resized DEF Sized
<1>3. u.cap \in Nat
  BY <1>2 DEF WellFormed, Table
<1> QED
  BY <1>1, <1>2, <1>3

\* The bucket that an operation finds for a key is the key's.
LEMMA Lookup ==
    ASSUME NEW t, WellFormed(t), t.cap # 0, NEW k \in Keys, Holding(t, k, k) # {}
    PROVE  LET b == First(t, k, Holding(t, k, k))
           IN  /\ b \in Used(t) /\ b \in 0..(t.cap - 1) /\ t.table[b].key = k
               /\ k \in Names(t)
               /\ t.table[b].value \in Values \cup {0}
               /\ Contents(t)[k] = t.table[b].value
<1> DEFINE b == First(t, k, Holding(t, k, k))
<1>1. t.cap \in Nat
  BY DEF WellFormed, Table
<1>2. b \in 0..(t.cap - 1) /\ t.table[b].key = k
  BY <1>1, FirstProbe
<1> HIDE DEF b
<1>3. b \in Used(t)
  BY <1>2, NullAssumption DEF Used
<1>4. t.table[b].value \in Values \cup {0}
  BY <1>2 DEF WellFormed, Table, Bucket
<1>5. k \in Names(t) /\ Contents(t)[k] = t.table[b].value
  BY <1>2, <1>3, ContentsAt DEF WellFormed
<1> QED
  BY <1>2, <1>3, <1>4, <1>5 DEF b

\* The key of a bucket in use is a key.
LEMMA NamesKeys ==
    ASSUME NEW t, WellFormed(t)
    PROVE  Names(t) \subseteq Keys
BY DEF Names, Used, WellFormed, Table, Bucket

-----------------------------------------------------------------------------
(* The operations: each keeps the invariant and does to the map what its     *)
(* namesake of KeyMap does.                                                  *)

\* A loop that has not begun has met nothing.
LEMMA NotWalking ==
    ASSUME WellFormed(ht'), it' = 0, met' = Unmet
    PROVE  WalkInv'
<1>1. ht'.cap \in Nat /\ 0 \in 0..ht'.cap
  BY DEF WellFormed, Table
<1>2. \A k \in Keys : ~Behind(k)'
  BY DEF Behind, Used
<1>3. met' = [k \in Keys |-> IF Behind(k)' THEN 1 ELSE 0]
  BY <1>2 DEF Unmet
<1> QED
  BY <1>1, <1>3 DEF WalkInv

\* A table with the names and the len of another counts them as well.
LEMMA SameCount ==
    ASSUME NEW t, NEW u, Counted(t), Names(u) = Names(t), u.len = t.len
    PROVE  Counted(u)
BY DEF Counted

\* htable_reset
LEMMA ResetStep ==
    ASSUME TableInv, htable_reset
    PROVE  TableInv' /\ Map!Reset
<1>1. ht' = Empty /\ it' = 0 /\ met' = Unmet /\ ret' = ret /\ call' = call
  BY DEF htable_reset, Starts
<1>2. Used(Empty) = {}
  BY DEF Used, Empty
<1>3. Table(Empty)
  BY DEF Table, Empty
<1>4. WellFormed(Empty)
  BY <1>2, <1>3 DEF WellFormed, Placed, Single
<1>5. Names(Empty) = {}
  BY <1>2 DEF Names
<1>6. Counted(Empty)
  BY <1>5, FS_EmptySet DEF Counted, Empty
<1>7. Contents(Empty) = [x \in {} |-> 0]
  BY <1>5 DEF Contents
<1>8. WalkInv'
  BY <1>1, <1>4, NotWalking
<1> QED
  BY <1>1, <1>4, <1>6, <1>7, <1>8 DEF TableInv, CallInv, Map!Reset

\* htable_reserve
LEMMA ReserveStep ==
    ASSUME TableInv, NEW items \in Reserves, htable_reserve(items)
    PROVE  TableInv' /\ UNCHANGED <<Contents(ht), ret>>
<1>1. items * 4 \in Nat
  BY WindowAssumption
<1>2. ht' \in htable_resize(ht, items * 4) /\ it' = 0 /\ met' = Unmet
      /\ ret' = ret /\ call' = call
  BY DEF htable_reserve, Starts
<1>3. WellFormed(ht)
  BY DEF TableInv
<1>4. /\ WellFormed(ht') /\ ht'.len = ht.len
      /\ Names(ht') = Names(ht) /\ Contents(ht') = Contents(ht)
  BY <1>1, <1>2, <1>3, Resized
<1>5. Counted(ht')
  BY <1>4, SameCount DEF TableInv
<1>6. WalkInv'
  BY <1>2, <1>4, NotWalking
<1> QED
  BY <1>2, <1>4, <1>5, <1>6 DEF TableInv, CallInv

\* htable_get
LEMMA GetStep ==
    ASSUME TableInv, NEW k \in Keys, htable_get(k)
    PROVE  TableInv' /\ Map!Get(k)
<1> DEFINE at == Holding(ht', k, k)
<1>1. /\ ht' \in Sized(ht) /\ it' = 0 /\ met' = Unmet /\ call' = call
      /\ ret' = IF at = {} THEN [ok |-> FALSE, value |-> 0]
                ELSE [ok |-> TRUE, value |-> ht'.table[First(ht', k, at)].value]
  BY DEF htable_get, Starts
<1>2. WellFormed(ht)
  BY DEF TableInv
<1>3. /\ WellFormed(ht') /\ ht'.cap # 0 /\ ht'.len = ht.len
      /\ Names(ht') = Names(ht) /\ Contents(ht') = Contents(ht)
  BY <1>1, <1>2, SizedTable
<1>4. Counted(ht')
  BY <1>3, SameCount DEF TableInv
<1>5. WalkInv'
  BY <1>1, <1>3, NotWalking
<1>6. DOMAIN Contents(ht) = Names(ht)
  BY ContentsDomain
<1>7. CASE at = {}
  <2>1. k \notin Names(ht)
    BY <1>3, <1>7, FoundOrAbsent
  <2>2. ret' = [ok |-> FALSE, value |-> 0]
    BY <1>1, <1>7
  <2>3. Map!Get(k)
    BY <1>3, <1>6, <2>1, <2>2 DEF Map!Get, Map!Present, Map!Refused
  <2> QED
    BY <1>1, <1>3, <1>4, <1>5, <2>2, <2>3 DEF TableInv, CallInv
<1>8. CASE at # {}
  <2> DEFINE b == First(ht', k, at)
  <2>1. /\ k \in Names(ht') /\ Contents(ht')[k] = ht'.table[b].value
        /\ ht'.table[b].value \in Values \cup {0}
    BY <1>3, <1>8, Lookup
  <2>2. ret' = [ok |-> TRUE, value |-> ht'.table[b].value]
    BY <1>1, <1>8
  <2> HIDE DEF b
  <2>3. Map!Get(k)
    BY <1>3, <1>6, <2>1, <2>2 DEF Map!Get, Map!Present, Map!Found
  <2> QED
    BY <1>1, <1>3, <1>4, <1>5, <2>1, <2>2, <2>3 DEF TableInv, CallInv
<1> QED
  BY <1>7, <1>8

\* htable_xchg
LEMMA XchgStep ==
    ASSUME TableInv, NEW k \in Keys, NEW v \in Values, htable_xchg(k, v)
    PROVE  TableInv' /\ Map!Xchg(k, v)
<1>1. it' = 0 /\ met' = Unmet /\ call' = call
  BY DEF htable_xchg, Starts
<1>2. PICK t \in Sized(ht) :
        LET at == Holding(t, k, k)
            b == First(t, k, at)
        IN  IF at = {} THEN ht' = t /\ ret' = [ok |-> FALSE, value |-> 0]
            ELSE ht' = Fill(t, b, k, v) /\ ret' = [ok |-> TRUE, value |-> t.table[b].value]
  BY DEF htable_xchg
<1>3. WellFormed(ht) /\ Counted(ht)
  BY DEF TableInv
<1>4. /\ WellFormed(t) /\ t.cap # 0 /\ t.len = ht.len
      /\ Names(t) = Names(ht) /\ Contents(t) = Contents(ht)
  BY <1>3, SizedTable
<1>5. DOMAIN Contents(ht) = Names(ht)
  BY ContentsDomain
<1> DEFINE at == Holding(t, k, k)
           b == First(t, k, at)
<1>6. CASE at = {}
  <2>1. ht' = t /\ ret' = [ok |-> FALSE, value |-> 0]
    BY <1>2, <1>6
  <2>2. k \notin Names(ht)
    BY <1>4, <1>6, FoundOrAbsent
  <2>3. Counted(ht') /\ WalkInv'
    BY <1>1, <1>3, <1>4, <2>1, SameCount, NotWalking
  <2>4. Map!Xchg(k, v)
    BY <1>4, <1>5, <2>1, <2>2 DEF Map!Xchg, Map!Present, Map!Refused
  <2> QED
    BY <1>1, <1>4, <2>1, <2>3, <2>4 DEF TableInv, CallInv
<1>7. CASE at # {}
  <2>1. ht' = Fill(t, b, k, v) /\ ret' = [ok |-> TRUE, value |-> t.table[b].value]
    BY <1>2, <1>7
  <2>2. /\ b \in Used(t) /\ b \in 0..(t.cap - 1) /\ t.table[b].key = k
        /\ k \in Names(t)
        /\ t.table[b].value \in Values \cup {0}
        /\ Contents(t)[k] = t.table[b].value
    BY <1>4, <1>7, Lookup
  <2> HIDE DEF b, at
  <2>3. [key |-> k, value |-> v] \in Bucket /\ Table(t)
    BY <1>4 DEF Bucket, WellFormed
  <2>4. Table(ht') /\ Changed(t, ht', b, k, v) /\ ht'.len = t.len
    BY <2>1, <2>2, <2>3 DEF Table, Changed, Fill
  <2>5. /\ WellFormed(ht') /\ Names(ht') = Names(t)
        /\ Contents(ht') = Set(t, k, v)
    BY <1>4, <2>2, <2>4, ValueSet
  <2>6. Counted(ht') /\ WalkInv'
    BY <1>1, <1>3, <1>4, <2>4, <2>5, SameCount, NotWalking
  <2>7. Map!Xchg(k, v)
    BY <1>4, <1>5, <2>1, <2>2, <2>5 DEF Map!Xchg, Map!Present, Map!Found, Map!With, Set
  <2> QED
    BY <1>1, <2>1, <2>2, <2>5, <2>6, <2>7 DEF TableInv, CallInv
<1> QED
  BY <1>6, <1>7

\* htable_del
LEMMA DelStep ==
    ASSUME TableInv, NEW k \in Keys, htable_del(k)
    PROVE  TableInv' /\ Map!Del(k)
<1>1. it' = 0 /\ met' = Unmet /\ call' = call
  BY DEF htable_del, Starts
<1>2. PICK t \in Sized(ht) :
        LET at == Holding(t, k, k)
            b == First(t, k, at)
        IN  IF at = {} THEN ht' = t /\ ret' = [ok |-> FALSE, value |-> 0]
            ELSE ht' = Vacate(t, b) /\ ret' = [ok |-> TRUE, value |-> t.table[b].value]
  BY DEF htable_del
<1>3. WellFormed(ht) /\ Counted(ht)
  BY DEF TableInv
<1>4. /\ WellFormed(t) /\ t.cap # 0 /\ t.len = ht.len
      /\ Names(t) = Names(ht) /\ Contents(t) = Contents(ht)
  BY <1>3, SizedTable
<1>5. DOMAIN Contents(ht) = Names(ht)
  BY ContentsDomain
<1> DEFINE at == Holding(t, k, k)
           b == First(t, k, at)
<1>6. CASE at = {}
  <2>1. ht' = t /\ ret' = [ok |-> FALSE, value |-> 0]
    BY <1>2, <1>6
  <2>2. k \notin Names(ht)
    BY <1>4, <1>6, FoundOrAbsent
  <2>3. Counted(ht') /\ WalkInv'
    BY <1>1, <1>3, <1>4, <2>1, SameCount, NotWalking
  <2>4. Map!Del(k)
    BY <1>4, <1>5, <2>1, <2>2 DEF Map!Del, Map!Present, Map!Refused
  <2> QED
    BY <1>1, <1>4, <2>1, <2>3, <2>4 DEF TableInv, CallInv
<1>7. CASE at # {}
  <2>1. ht' = Vacate(t, b) /\ ret' = [ok |-> TRUE, value |-> t.table[b].value]
    BY <1>2, <1>7
  <2>2. /\ b \in Used(t) /\ b \in 0..(t.cap - 1) /\ t.table[b].key = k
        /\ k \in Names(t)
        /\ t.table[b].value \in Values \cup {0}
        /\ Contents(t)[k] = t.table[b].value
    BY <1>4, <1>7, Lookup
  <2> HIDE DEF b, at
  <2>3. /\ Cardinality(Names(t) \ {k}) = Cardinality(Names(t)) - 1
        /\ IsFiniteSet(Names(t) \ {k}) /\ t.len = Cardinality(Names(t))
    BY <1>3, <1>4, <2>2, FS_RemoveElement DEF Counted
  <2>4. t.len - 1 \in Nat
    BY <2>3, FS_CardinalityType
  <2>5. [key |-> Null, value |-> t.table[b].value] \in Bucket /\ Table(t)
    BY <1>4, <2>2 DEF Bucket, WellFormed
  <2>6. t.table[b] = [key |-> k, value |-> t.table[b].value]
    BY <2>2, <2>5 DEF Table, Bucket
  <2>7. [t.table[b] EXCEPT !.key = Null] = [key |-> Null, value |-> t.table[b].value]
    BY <2>6
  <2>8. Table(ht') /\ Changed(t, ht', b, Null, t.table[b].value) /\ ht'.len = t.len - 1
    BY <2>1, <2>2, <2>4, <2>5, <2>7 DEF Table, Changed, Vacate
  <2>9. /\ WellFormed(ht') /\ Names(ht') = Names(t) \ {k}
        /\ Contents(ht') = [x \in Names(t) \ {k} |-> Contents(t)[x]]
    <3>1. WellFormed(ht') /\ Removes(t, ht', k)
      BY <1>4, <2>2, <2>8, HoleMade
    <3> QED
      BY <3>1 DEF Removes
  <2>10. Counted(ht')
    BY <2>3, <2>8, <2>9 DEF Counted
  <2>11. WalkInv'
    BY <1>1, <2>9, NotWalking
  <2>12. Map!Del(k)
    BY <1>4, <1>5, <2>1, <2>2, <2>9 DEF Map!Del, Map!Present, Map!Found, Map!Without
  <2> QED
    BY <1>1, <2>1, <2>2, <2>9, <2>10, <2>11, <2>12 DEF TableInv, CallInv
<1> QED
  BY <1>6, <1>7

\* htable_put: a call that has to make room changes nothing of the map.
LEMMA PutStep ==
    ASSUME TableInv, NEW k \in Keys, NEW v \in Values, htable_put(k, v)
    PROVE  TableInv' /\ (Map!Put(k, v) \/ UNCHANGED <<Contents(ht), ret>>)
<1>1. it' = 0 /\ met' = Unmet
  BY DEF htable_put
<1>2. PICK t \in Sized(ht) :
        IF PutSlot(t, k) # {}
        THEN PutAt(t, First(t, k, PutSlot(t, k)), k, v) /\ call' = Zeroed
        ELSE /\ ht' \in htable_resize(t, t.cap * 2)
             /\ call' = [key |-> k, value |-> v]
             /\ UNCHANGED ret
  BY DEF htable_put
<1>3. WellFormed(ht) /\ Counted(ht)
  BY DEF TableInv
<1>4. /\ WellFormed(t) /\ t.cap \in Nat /\ t.cap # 0 /\ t.len = ht.len
      /\ Names(t) = Names(ht) /\ Contents(t) = Contents(ht)
  BY <1>3, SizedTable
<1>5. DOMAIN Contents(ht) = Names(ht)
  BY ContentsDomain
<1>6. CASE PutSlot(t, k) = {}
  <2>1. ht' \in htable_resize(t, t.cap * 2) /\ call' = [key |-> k, value |-> v] /\ ret' = ret
    BY <1>2, <1>6
  <2>2. t.cap * 2 \in Nat
    BY <1>4
  <2>3. /\ WellFormed(ht') /\ ht'.len = t.len
        /\ Names(ht') = Names(t) /\ Contents(ht') = Contents(t)
    BY <1>4, <2>1, <2>2, Resized
  <2>4. Counted(ht') /\ WalkInv'
    BY <1>1, <1>3, <1>4, <2>3, SameCount, NotWalking
  <2>5. call' \in [key : Keys, value : Values]
    BY <2>1
  <2> QED
    BY <1>4, <2>1, <2>3, <2>4, <2>5 DEF TableInv, CallInv
<1>7. CASE Holding(t, k, k) # {}
  <2> DEFINE b == First(t, k, Holding(t, k, k))
  <2>1. PutSlot(t, k) = Holding(t, k, k)
    BY <1>7 DEF PutSlot
  <2>2. /\ b \in Used(t) /\ b \in 0..(t.cap - 1) /\ t.table[b].key = k
        /\ k \in Names(t)
        /\ t.table[b].value \in Values \cup {0}
        /\ Contents(t)[k] = t.table[b].value
    BY <1>4, <1>7, Lookup
  <2>3. PutAt(t, b, k, v) /\ call' = Zeroed
    BY <1>2, <1>7, <2>1
  <2> HIDE DEF b
  <2>4. ht' = t /\ ret' = [ok |-> FALSE, value |-> t.table[b].value]
    BY <2>2, <2>3 DEF PutAt
  <2>5. Counted(ht') /\ WalkInv'
    BY <1>1, <1>3, <1>4, <2>4, SameCount, NotWalking
  <2>6. Map!Put(k, v)
    BY <1>4, <1>5, <2>2, <2>4 DEF Map!Put, Map!Present
  <2> QED
    BY <1>4, <2>2, <2>3, <2>4, <2>5, <2>6 DEF TableInv, CallInv
<1>8. CASE Holding(t, k, k) = {} /\ PutSlot(t, k) # {}
  <2> DEFINE b == First(t, k, Holding(t, k, Null))
             u == [Fill(t, b, k, v) EXCEPT !.len = @ + 1]
  <2>1. PutSlot(t, k) = Holding(t, k, Null) /\ Holding(t, k, Null) # {}
    BY <1>8 DEF PutSlot
  <2>2. b \in 0..(t.cap - 1) /\ InWindow(t.cap, k, b) /\ t.table[b].key = Null
    BY <1>4, <2>1, FirstProbe
  <2>3. PutAt(t, b, k, v) /\ call' = Zeroed
    BY <1>2, <1>8, <2>1
  <2> HIDE DEF b
  <2>4. ht' = u /\ ret' = [ok |-> TRUE, value |-> 0]
    BY <2>2, <2>3, NullAssumption DEF PutAt
  <2>5. k \notin Names(t)
    BY <1>4, <1>8, FoundOrAbsent
  <2>6. [key |-> k, value |-> v] \in Bucket /\ Table(t) /\ t.len \in Nat
    BY <1>4 DEF Bucket, WellFormed, Table
  <2>7. Table(u) /\ Changed(t, u, b, k, v) /\ u.len = t.len + 1
    <3>1. u = [len |-> t.len + 1, cap |-> t.cap,
               table |-> [t.table EXCEPT ![b] = [key |-> k, value |-> v]]]
      <4>1. t = [len |-> t.len, cap |-> t.cap, table |-> t.table]
        BY <2>6 DEF Table
      <4> DEFINE f == [t.table EXCEPT ![b] = [key |-> k, value |-> v]]
      <4>2. Fill(t, b, k, v) = [len |-> t.len, cap |-> t.cap, table |-> f]
        BY <4>1 DEF Fill
      <4> HIDE DEF f
      <4>3. u = [len |-> t.len + 1, cap |-> t.cap, table |-> f]
        BY <4>2
      <4> QED
        BY <4>3 DEF f
    <3> HIDE DEF u
    <3> QED
      BY <1>4, <2>2, <2>6, <3>1 DEF Table, Changed
  <2> HIDE DEF u
  <2>8. WellFormed(u)
    BY <1>4, <2>2, <2>5, <2>7, KeyAdded
  <2>9. /\ Names(u) = Names(t) \cup {k}
        /\ Contents(u) = Set(t, k, v)
    BY <1>4, <2>2, <2>5, <2>7, KeyAdded
  <2>10. Counted(ht')
    BY <1>3, <1>4, <2>4, <2>5, <2>7, <2>9, FS_AddElement DEF Counted
  <2>11. WalkInv'
    BY <1>1, <2>4, <2>8, NotWalking
  <2>12. Map!Put(k, v)
    BY <1>4, <1>5, <2>4, <2>5, <2>9 DEF Map!Put, Map!Present, Map!With, Set
  <2> QED
    BY <2>3, <2>4, <2>8, <2>10, <2>11, <2>12 DEF TableInv, CallInv
<1> QED
  BY <1>6, <1>7, <1>8

\* htable_next gives the next bucket in use, and the end when there is none.
LEMMA NextUsed ==
    ASSUME NEW t, WellFormed(t), NEW i \in 0..t.cap
    PROVE  LET j == htable_next(t, i)
           IN  /\ j \in i..t.cap
               /\ j # t.cap => j \in Used(t)
               /\ \A l \in Used(t) : l < i \/ j <= l
<1>1. t.cap \in Nat
  BY DEF WellFormed, Table
<1> DEFINE rest == {l \in i..(t.cap - 1) : t.table[l].key # Null}
<1>2. CASE rest = {}
  <2>1. htable_next(t, i) = t.cap
    BY <1>2 DEF htable_next
  <2> QED
    BY <1>1, <1>2, <2>1 DEF Used
<1>3. CASE rest # {}
  <2> DEFINE j == CHOOSE j \in rest : \A l \in rest : j <= l
  <2>1. rest \in SUBSET Nat
    BY <1>1
  <2>2. j \in rest /\ \A l \in rest : j <= l
    <3> HIDE DEF rest
    <3> QED
      BY <1>3, <2>1, Least
  <2>3. htable_next(t, i) = j
    BY <1>3 DEF htable_next
  <2> HIDE DEF j
  <2>4. j \in i..(t.cap - 1) /\ t.table[j].key # Null
    BY <2>2
  <2>5. \A l \in Used(t) : l < i \/ l \in rest
    BY <1>1 DEF Used
  <2> QED
    BY <1>1, <2>2, <2>3, <2>4, <2>5 DEF Used
<1> QED
  BY <1>2, <1>3

\* A round of the loop meets one key more, and that for the first time.
LEMMA WalkStep ==
    ASSUME TableInv, walk
    PROVE  TableInv' /\ UNCHANGED <<Contents(ht), ret>>
<1>1. ht' = ht /\ ret' = ret /\ call' = call
  BY DEF walk
<1>2. WellFormed(ht) /\ it \in 0..ht.cap /\ ht.cap \in Nat
  BY DEF TableInv, WalkInv, WellFormed, Table
<1> DEFINE j == htable_next(ht, it)
<1>3. /\ j \in it..ht.cap
      /\ j # ht.cap => j \in Used(ht)
      /\ \A l \in Used(ht) : l < it \/ j <= l
  BY <1>2, NextUsed
<1>4. IF j = ht.cap THEN it' = 0 /\ met' = Unmet
      ELSE it' = j + 1 /\ met' = [met EXCEPT ![ht.table[j].key] = @ + 1]
  BY DEF walk
<1> HIDE DEF j
<1>5. CASE j = ht.cap
  <2>1. WalkInv'
    BY <1>1, <1>2, <1>4, <1>5, NotWalking
  <2> QED
    BY <1>1, <2>1 DEF TableInv, CallInv
<1>6. CASE j # ht.cap
  <2> DEFINE n == ht.table[j].key
  <2>1. it' = j + 1 /\ met' = [met EXCEPT ![n] = @ + 1] /\ j \in Used(ht)
    BY <1>3, <1>4, <1>6
  <2>2. n \in Keys
    BY <1>2, <2>1, NamesKeys DEF Names
  <2>3. \A i \in Used(ht) : i < it' <=> (i < it \/ i = j)
    BY <1>2, <1>3, <2>1 DEF Used
  <2>4. ~Behind(n)
    <3> SUFFICES ASSUME NEW i \in Used(ht), i < it, ht.table[i].key = n PROVE FALSE
      BY DEF Behind
    <3>1. i = j
      BY <1>2, <2>1 DEF WellFormed, Single
    <3> QED
      BY <1>2, <1>3, <3>1
  <2>5. \A k \in Keys : Behind(k)' <=> (Behind(k) \/ k = n)
    BY <1>1, <2>1, <2>3 DEF Behind
  <2>6. met = [k \in Keys |-> IF Behind(k) THEN 1 ELSE 0]
    BY DEF TableInv, WalkInv
  <2> HIDE DEF n
  <2>7. met' = [k \in Keys |-> IF Behind(k)' THEN 1 ELSE 0]
    BY <2>1, <2>2, <2>4, <2>5, <2>6
  <2>8. it' \in 0..ht'.cap
    BY <1>1, <1>2, <1>3, <1>6, <2>1
  <2>9. WalkInv'
    BY <2>7, <2>8 DEF WalkInv
  <2> QED
    BY <1>1, <2>9 DEF TableInv, CallInv
<1> QED
  BY <1>5, <1>6

\* The invariant holds initially,
LEMMA TableInitInv == Init => TableInv /\ Map!Init
<1> SUFFICES ASSUME Init PROVE TableInv /\ Map!Init
  OBVIOUS
<1>1. ht = Empty /\ ret = [ok |-> FALSE, value |-> 0] /\ call = Zeroed /\ it = 0 /\ met = Unmet
  BY DEF Init
<1>2. Used(ht) = {} /\ Names(ht) = {}
  BY <1>1 DEF Used, Empty, Names
<1>3. Table(ht) /\ ht.cap = 0 /\ ht.len = 0
  BY <1>1 DEF Table, Empty
<1>4. WellFormed(ht) /\ Counted(ht)
  BY <1>2, <1>3, FS_EmptySet DEF WellFormed, Placed, Single, Counted
<1>5. Contents(ht) = [x \in {} |-> 0]
  BY <1>2 DEF Contents
<1>6. WalkInv
  BY <1>1, <1>2, <1>3 DEF WalkInv, Behind, Unmet
<1> QED
  BY <1>1, <1>4, <1>5, <1>6 DEF TableInv, CallInv, Map!Init, Map!Refused

\* ... and every step keeps it and is one of the map or none.
LEMMA NextStep ==
    ASSUME TableInv, [Next]_vars
    PROVE  TableInv' /\ [Map!Next]_(Map!mvars)
<1>1. ASSUME UNCHANGED vars
      PROVE  TableInv' /\ UNCHANGED <<Contents(ht), ret>>
  BY <1>1 DEF vars, TableInv, CallInv, WalkInv, Behind
<1> QED
  BY <1>1, GetStep, DelStep, PutStep, XchgStep, ReserveStep, ResetStep, WalkStep
     DEF Next, Map!Next, Map!mvars

\* The table stays well formed in every reachable state.
THEOREM TableInvariant == Spec => []TableInv
<1>1. Init => TableInv
  BY TableInitInv
<1>2. TableInv /\ [Next]_vars => TableInv'
  BY NextStep
<1> QED
  BY <1>1, <1>2, PTL DEF Spec

\* The hash table of htable.c is a map, whatever the hashes and however often
\* it is resized.
THEOREM TableIsMap == Spec => ImplementsMap
<1>1. Init => Map!Init
  BY TableInitInv
<1>2. TableInv /\ [Next]_vars => [Map!Next]_(Map!mvars)
  BY NextStep
<1> QED
  BY <1>1, <1>2, TableInvariant, PTL DEF Spec, ImplementsMap, Map!Spec

\* len counts the keys, no key is stored twice, and the loop over htable_next
\* ends having met each key exactly once.
THEOREM WalkMeetsAll == Spec => []TableSound
<1>1. TableInv => TableSound
  <2> SUFFICES ASSUME TableInv PROVE TableSound
    OBVIOUS
  <2>1. WellFormed(ht) /\ Counted(ht) /\ it \in 0..ht.cap /\ ht.cap \in Nat
    BY DEF TableInv, WellFormed, Table, WalkInv
  <2>2. met = [k \in Keys |-> IF Behind(k) THEN 1 ELSE 0]
    BY DEF TableInv, WalkInv
  <2>3. TypeOK
    <3>1. call \in Bucket
      BY DEF TableInv, CallInv, Zeroed, Bucket
    <3>2. met \in [Keys -> Nat]
      BY <2>2
    <3> QED
      BY <2>1, <3>1, <3>2 DEF TableInv, TypeOK, WellFormed, Table
  <2>4. ASSUME htable_next(ht, it) = ht.cap
        PROVE  met = [k \in Keys |-> IF k \in Names(ht) THEN 1 ELSE 0]
    <3>1. \A l \in Used(ht) : l < it
      <4>1. \A l \in Used(ht) : l < it \/ ht.cap <= l
        BY <2>1, <2>4, NextUsed
      <4> QED
        BY <2>1, <4>1 DEF Used
    <3>2. \A k \in Keys : Behind(k) <=> k \in Names(ht)
      BY <3>1 DEF Behind, Names
    <3> QED
      BY <2>2, <3>2
  <2> QED
    BY <2>1, <2>3, <2>4 DEF TableSound, Counted, WellFormed, Single
<1> QED
  BY <1>1, TableInvariant, PTL

-----------------------------------------------------------------------------
(* Sequences, whatever they are of.                                         *)

IsSeq(s) == Len(s) \in Nat /\ s = [i \in 1 .. Len(s) |-> s[i]]

\* A function over 1 .. n is one.
LEMMA FunctionIsSeq ==
    ASSUME NEW n \in Nat, NEW f, f = [i \in 1 .. n |-> f[i]]
    PROVE  IsSeq(f) /\ Len(f) = n
<1> DEFINE S == {f[i] : i \in 1 .. n}
<1>1. f \in [1 .. n -> S]
  OBVIOUS
<1> HIDE DEF S
<1>2. f \in Seq(S) /\ Len(f) = n
  BY <1>1
<1> QED
  BY <1>2 DEF IsSeq

\* So is what Append makes.
LEMMA AppendIsSeq ==
    ASSUME NEW s, IsSeq(s), NEW x
    PROVE  /\ IsSeq(Append(s, x)) /\ Len(Append(s, x)) = Len(s) + 1
           /\ Append(s, x)[Len(s) + 1] = x
           /\ \A i \in 1 .. Len(s) : Append(s, x)[i] = s[i]
<1> DEFINE S == {s[i] : i \in 1 .. Len(s)} \cup {x}
<1>1. s \in [1 .. Len(s) -> S] /\ x \in S /\ Len(s) \in Nat
  BY DEF IsSeq
<1> HIDE DEF S
<1>2. s \in Seq(S)
  BY <1>1
<1>3. /\ Append(s, x) \in Seq(S) /\ Len(Append(s, x)) = Len(s) + 1
      /\ Append(s, x)[Len(s) + 1] = x
      /\ \A i \in 1 .. Len(s) : Append(s, x)[i] = s[i]
  BY <1>1, <1>2
<1> DEFINE t == Append(s, x)
<1>4. t \in Seq(S)
  BY <1>3
<1> HIDE DEF t
<1>5. IsSeq(t)
  BY <1>4 DEF IsSeq
<1> QED
  BY <1>3, <1>5 DEF t

\* Sequences of the same length and elements are the same.
LEMMA SameSeq ==
    ASSUME NEW s, NEW t, IsSeq(s), IsSeq(t), Len(s) = Len(t), \A i \in 1 .. Len(s) : s[i] = t[i]
    PROVE  s = t
BY DEF IsSeq

\* The empty sequence.
LEMMA EmptyIsSeq == IsSeq(<<>>) /\ Len(<<>>) = 0
BY DEF IsSeq

-----------------------------------------------------------------------------
(* Paths and patterns are sequences.                                        *)

Take(f, url, i) ==
    IF i = 0 THEN <<>>
    ELSE IF url[i] = "" \/ \E j \in 1 .. i : url[j] = "?" THEN f[i - 1]
    ELSE Append(f[i - 1], url[i])

Takes(f, url, n) == f = [i \in 0 .. n |-> Take(f, url, i)]

\* The loop of path_new is defined for any number of segments,
LEMMA TakesExist ==
    ASSUME NEW url, NEW n \in Nat
    PROVE  \E f : Takes(f, url, n)
<1> DEFINE S == {i \in Nat : \E f : Takes(f, url, i)}
<1>1. 0 \in S
  <2> DEFINE f == [i \in 0 .. 0 |-> <<>>]
  <2>1. \A i \in 0 .. 0 : Take(f, url, i) = <<>>
    BY DEF Take
  <2>2. f = [i \in 0 .. 0 |-> Take(f, url, i)]
    BY <2>1
  <2> HIDE DEF f
  <2> QED
    BY <2>2 DEF Takes
<1>2. ASSUME NEW i \in 0 .. (n - 1), i \in S PROVE i + 1 \in S
  <2>1. PICK f : Takes(f, url, i)
    BY <1>2
  <2> DEFINE g == [j \in 0 .. (i + 1) |-> Take(f, url, j)]
  <2>2. \A j \in 0 .. i : f[j] = Take(f, url, j)
    BY <2>1 DEF Takes
  <2>3. \A j \in 0 .. i : g[j] = f[j]
    BY <2>2
  <2>4. \A j \in 0 .. (i + 1) : Take(g, url, j) = Take(f, url, j)
    <3> SUFFICES ASSUME NEW j \in 0 .. (i + 1) PROVE Take(g, url, j) = Take(f, url, j)
      OBVIOUS
    <3>1. CASE j = 0
      BY <3>1 DEF Take
    <3>2. CASE j # 0
      <4> HIDE DEF g
      <4>1. j - 1 \in 0 .. i
        BY <3>2
      <4>2. g[j - 1] = f[j - 1]
        BY <2>3, <4>1
      <4> QED
        BY <3>2, <4>2 DEF Take
    <3> QED
      BY <3>1, <3>2
  <2>5. \A j \in 0 .. (i + 1) : g[j] = Take(f, url, j)
    OBVIOUS
  <2>6. g = [j \in 0 .. (i + 1) |-> g[j]]
    OBVIOUS
  <2> HIDE DEF g
  <2>7. g = [j \in 0 .. (i + 1) |-> Take(g, url, j)]
    BY <2>4, <2>5, <2>6
  <2>8. \E h : Takes(h, url, i + 1)
    BY <2>7 DEF Takes
  <2> QED
    BY <2>8
<1>3. 0 .. n \subseteq S
  <2> HIDE DEF S
  <2> QED
    BY <1>1, <1>2, UpTo
<1> QED
  BY <1>3

\* ... so path_new gives a sequence.
LEMMA PathIsSeq ==
    ASSUME NEW url \in Seq(STRING)
    PROVE  IsSeq(path_new(url))
<1> DEFINE n == Len(url)
           f == CHOOSE g : Takes(g, url, n)
<1>1. n \in Nat
  OBVIOUS
<1>2. Takes(f, url, n)
  BY <1>1, TakesExist
<1>3. path_new(url) = f[n]
  BY DEF path_new, Takes, Take
<1> HIDE DEF f, n
<1>4. \A i \in 0 .. n : f[i] = Take(f, url, i)
  BY <1>2 DEF Takes
<1> DEFINE S == {i \in 0 .. n : IsSeq(f[i])}
<1>5. 0 \in S
  <2>1. f[0] = Take(f, url, 0)
    BY <1>1, <1>4
  <2>2. Take(f, url, 0) = <<>>
    BY DEF Take
  <2> QED
    BY <1>1, <2>1, <2>2, EmptyIsSeq
<1>6. ASSUME NEW i \in 0 .. (n - 1), i \in S PROVE i + 1 \in S
  <2>1. i + 1 \in 0 .. n /\ i + 1 # 0 /\ (i + 1) - 1 = i
    BY <1>1
  <2>2. f[i + 1] = f[i] \/ f[i + 1] = Append(f[i], url[i + 1])
    BY <1>4, <2>1 DEF Take
  <2>3. IsSeq(f[i])
    BY <1>6
  <2>4. IsSeq(Append(f[i], url[i + 1]))
    BY <2>3, AppendIsSeq
  <2>5. IsSeq(f[i + 1])
    BY <2>2, <2>3, <2>4
  <2> QED
    BY <2>1, <2>5
<1>7. 0 .. n \subseteq S
  <2> HIDE DEF S
  <2> QED
    BY <1>1, <1>5, <1>6, UpTo
<1> QED
  BY <1>1, <1>3, <1>7

\* The node of a pattern.
LEMMA NodeIsSeq ==
    ASSUME NEW p, IsSeq(p)
    PROVE  /\ IsSeq(Node(p).edges) /\ Node(p).star \in BOOLEAN
           /\ Node(p) = [edges |-> Node(p).edges, star |-> Node(p).star]
<1> DEFINE stars == {i \in 1 .. Len(p) : p[i] \in Stars}
           end == IF stars = {} THEN Len(p)
                  ELSE (CHOOSE i \in stars : \A j \in stars : i <= j) - 1
           f == [i \in 1 .. end |-> Edge(p[i])]
<1>1. Len(p) \in Nat
  BY DEF IsSeq
<1>2. end \in Nat
  <2>1. CASE stars = {}
    BY <1>1, <2>1
  <2>2. CASE stars # {}
    <3>1. stars \in SUBSET Nat /\ stars \subseteq 1 .. Len(p)
      BY <1>1
    <3> DEFINE l == CHOOSE i \in stars : \A j \in stars : i <= j
    <3>2. l \in stars
      <4> HIDE DEF stars
      <4> QED
        BY <2>2, <3>1, Least
    <3>3. end = l - 1
      BY <2>2
    <3> HIDE DEF l, stars
    <3> QED
      BY <1>1, <3>1, <3>2, <3>3
  <2> QED
    BY <2>1, <2>2
<1>3. Node(p) = [edges |-> f, star |-> stars # {}]
  BY DEF Node
<1>4. IsSeq(f)
  <2> HIDE DEF end
  <2>1. f = [i \in 1 .. end |-> f[i]]
    OBVIOUS
  <2> HIDE DEF f
  <2> QED
    BY <1>2, <2>1, FunctionIsSeq
<1> HIDE DEF f, stars
<1> QED
  BY <1>3, <1>4

-----------------------------------------------------------------------------
(* The search of the tree, as a function of the node it starts from.        *)

Nodes(path, d) == {e \in wired : Len(e) <= Len(path) /\ Len(path) - Len(e) <= d}
Routes(g, path, d) == g = [e \in Nodes(path, d) |-> RouteFrom(g, path, e)]

NodesAreSeqs == \A e \in wired : IsSeq(e)

\* What a node answers depends only on the nodes one level below it.
LEMMA RouteSame ==
    ASSUME NEW f, NEW g, NEW path, IsSeq(path), NEW e, IsSeq(e),
           Len(e) < Len(path) => \A n \in wired : Len(n) = Len(e) + 1 => f[n] = g[n]
    PROVE  RouteFrom(f, path, e) = RouteFrom(g, path, e)
<1> DEFINE const == Append(e, path[Len(e) + 1])
           wild == Append(e, ":")
<1>1. Len(const) = Len(e) + 1 /\ Len(wild) = Len(e) + 1
  BY AppendIsSeq
<1>2. \A h : RouteFrom(h, path, e) =
        Or(IF Len(e) < Len(path)
           THEN Or(IF const \in wired THEN h[const] ELSE None,
                   IF wild \in wired THEN h[wild] ELSE None) ELSE At(exact, e), At(star, e))
  BY DEF RouteFrom, router_backtracks
<1> HIDE DEF const, wild
<1>3. CASE Len(e) < Len(path)
  <2>1. /\ (IF const \in wired THEN f[const] ELSE None) = (IF const \in wired THEN g[const] ELSE None)
        /\ (IF wild \in wired THEN f[wild] ELSE None) = (IF wild \in wired THEN g[wild] ELSE None)
    BY <1>1, <1>3
  <2> QED
    BY <1>2, <2>1
<1>4. CASE ~(Len(e) < Len(path))
  BY <1>2, <1>4
<1> QED
  BY <1>3, <1>4

\* The search is defined from every node that is not deeper than the path.
LEMMA RoutesExist ==
    ASSUME NodesAreSeqs, NEW path, IsSeq(path), NEW n \in Nat
    PROVE  \E g : Routes(g, path, n)
<1> DEFINE S == {d \in Nat : \E g : Routes(g, path, d)}
<1>0. Len(path) \in Nat /\ \A e \in wired : Len(e) \in Nat /\ IsSeq(e)
  BY DEF NodesAreSeqs, IsSeq
<1>1. 0 \in S
  <2> DEFINE g == [e \in Nodes(path, 0) |-> RouteFrom(<<>>, path, e)]
  <2>1. \A e \in Nodes(path, 0) : RouteFrom(g, path, e) = RouteFrom(<<>>, path, e)
    <3> SUFFICES ASSUME NEW e \in Nodes(path, 0)
                 PROVE  RouteFrom(g, path, e) = RouteFrom(<<>>, path, e)
      OBVIOUS
    <3>1. IsSeq(e) /\ ~(Len(e) < Len(path))
      BY <1>0 DEF Nodes
    <3> HIDE DEF g
    <3> QED
      BY <3>1, RouteSame
  <2>2. \A e \in Nodes(path, 0) : g[e] = RouteFrom(<<>>, path, e)
    OBVIOUS
  <2>3. g = [e \in Nodes(path, 0) |-> g[e]]
    OBVIOUS
  <2> HIDE DEF g
  <2>4. g = [e \in Nodes(path, 0) |-> RouteFrom(g, path, e)]
    BY <2>1, <2>2, <2>3
  <2> QED
    BY <2>4 DEF Routes
<1>2. ASSUME NEW d \in 0 .. (n - 1), d \in S PROVE d + 1 \in S
  <2>1. PICK f : Routes(f, path, d)
    BY <1>2
  <2> DEFINE g == [e \in Nodes(path, d + 1) |-> RouteFrom(f, path, e)]
  <2>2. \A e \in Nodes(path, d) : f[e] = RouteFrom(f, path, e)
    BY <2>1 DEF Routes
  <2>3. \A e \in Nodes(path, d) : e \in Nodes(path, d + 1)
    BY <1>0 DEF Nodes
  <2>4. \A e \in Nodes(path, d + 1) : g[e] = RouteFrom(f, path, e)
    OBVIOUS
  <2>5. g = [e \in Nodes(path, d + 1) |-> g[e]]
    OBVIOUS
  <2> HIDE DEF g
  <2>6. \A e \in Nodes(path, d) : g[e] = f[e]
    BY <2>2, <2>3, <2>4
  <2>7. \A e \in Nodes(path, d + 1) : RouteFrom(g, path, e) = RouteFrom(f, path, e)
    <3> SUFFICES ASSUME NEW e \in Nodes(path, d + 1)
                 PROVE  RouteFrom(g, path, e) = RouteFrom(f, path, e)
      OBVIOUS
    <3>1. IsSeq(e) /\ Len(e) \in Nat /\ Len(path) - Len(e) <= d + 1
      BY <1>0 DEF Nodes
    <3>2. Len(e) < Len(path) => \A m \in wired : Len(m) = Len(e) + 1 => m \in Nodes(path, d)
      BY <1>0, <3>1 DEF Nodes
    <3>3. Len(e) < Len(path) => \A m \in wired : Len(m) = Len(e) + 1 => g[m] = f[m]
      BY <2>6, <3>2
    <3> QED
      BY <3>1, <3>3, RouteSame
  <2>8. g = [e \in Nodes(path, d + 1) |-> RouteFrom(g, path, e)]
    BY <2>4, <2>5, <2>7
  <2>9. \E h : Routes(h, path, d + 1)
    BY <2>8 DEF Routes
  <2> QED
    BY <2>9
<1>3. 0 .. n \subseteq S
  <2> HIDE DEF S
  <2> QED
    BY <1>1, <1>2, UpTo
<1> QED
  BY <1>3

\* So router_route is what that function gives at the root.
LEMMA RouterRoutes ==
    ASSUME NodesAreSeqs, NEW path, IsSeq(path)
    PROVE  \E g : /\ router_route(path) = g[<<>>]
                  /\ \A e \in wired : Len(e) <= Len(path) => g[e] = RouteFrom(g, path, e)
<1> DEFINE D == {e \in wired : Len(e) <= Len(path)}
           g == CHOOSE f : f = [e \in D |-> RouteFrom(f, path, e)]
<1>1. Len(path) \in Nat /\ \A e \in wired : Len(e) \in Nat
  BY DEF NodesAreSeqs, IsSeq
<1>2. Nodes(path, Len(path)) = D
  BY <1>1 DEF Nodes
<1>3. router_route(path) = g[<<>>]
  BY DEF router_route
<1>4. \E f : f = [e \in D |-> RouteFrom(f, path, e)]
  <2> HIDE DEF D
  <2> QED
    BY <1>1, <1>2, RoutesExist DEF Routes
<1>5. g = [e \in D |-> RouteFrom(g, path, e)]
  BY <1>4
<1> HIDE DEF g
<1>6. \A e \in D : g[e] = RouteFrom(g, path, e)
  <2> HIDE DEF D
  <2> QED
    BY <1>5
<1> QED
  BY <1>3, <1>6

-----------------------------------------------------------------------------
(* The router finds the most definite of the patterns that match.           *)

Pat(res) == path_new(res.path)
Edges(res) == Node(Pat(res)).edges
Star(res) == Node(Pat(res)).star

\* What the tree holds: a node for each step of every pattern that was
\* accepted, and each resource in the node of its pattern, and nowhere else.
RouterInv ==
    /\ NodesAreSeqs /\ <<>> \in wired
    /\ DOMAIN exact \subseteq wired /\ DOMAIN star \subseteq wired
    /\ added \subseteq Resources
    /\ \A e \in DOMAIN exact : exact[e] \in added /\ Edges(exact[e]) = e /\ ~Star(exact[e])
    /\ \A e \in DOMAIN star : star[e] \in added /\ Edges(star[e]) = e /\ Star(star[e])
    /\ \A res \in added : Prefixes(Edges(res)) \subseteq wired
    /\ \A res \in added :
        IF Star(res) THEN Edges(res) \in DOMAIN star /\ star[Edges(res)] = res
        ELSE Edges(res) \in DOMAIN exact /\ exact[Edges(res)] = res

\* The patterns of resources are sequences of edges.
LEMMA Patterns ==
    ASSUME NEW res \in Resources
    PROVE  /\ res # None /\ IsSeq(Pat(res)) /\ IsSeq(Edges(res)) /\ Len(Edges(res)) \in Nat
           /\ Star(res) \in BOOLEAN
           /\ Node(Pat(res)) = [edges |-> Edges(res), star |-> Star(res)]
<1>1. res # None /\ res.path \in Seq(STRING)
  BY ResourcesAssumption
<1>2. IsSeq(Pat(res))
  BY <1>1, PathIsSeq DEF Pat
<1> QED
  BY <1>1, <1>2, NodeIsSeq DEF Edges, Star, IsSeq

\* The resources below node e whose patterns match.
Under(res, e) == Len(e) <= Len(Edges(res)) /\ \A i \in 1 .. Len(e) : Edges(res)[i] = e[i]
Fit(e, path) == {res \in added : Under(res, e) /\ Matches(Pat(res), path)}

\* The ones that are registered at it.
StarAt(e) == {res \in added : Edges(res) = e /\ Star(res)}
ExactAt(e) == {res \in added : Edges(res) = e /\ ~Star(res)}

\* x is the one of A that goes before all others; None when there is none.
Best(x, A, path) ==
    \/ x = None /\ A = {}
    \/ x \in A /\ \A q \in A \ {x} : Precedes(Pat(x), Pat(q), path)

\* Trying one set of resources after another that each of them precedes.
LEMMA BestOr ==
    ASSUME NEW A, NEW B, NEW path, NEW x, NEW y, Best(x, A, path), Best(y, B, path), None \notin A,
           \A a \in A, b \in B : Precedes(Pat(a), Pat(b), path)
    PROVE  Best(Or(x, y), A \cup B, path)
<1>1. CASE x = None
  BY <1>1 DEF Best, Or
<1>2. CASE x # None
  BY <1>2 DEF Best, Or
<1> QED
  BY <1>1, <1>2

\* At most one resource is registered at a node, of each kind.
LEMMA BestAt ==
    ASSUME RouterInv, NEW e, NEW path
    PROVE  Best(At(star, e), StarAt(e), path) /\ Best(At(exact, e), ExactAt(e), path)
<1>1. \A res \in added : Star(res) \in BOOLEAN
  BY Patterns DEF RouterInv
<1>2. Best(At(star, e), StarAt(e), path)
  <2>1. CASE e \in DOMAIN star
    <3>1. StarAt(e) = {star[e]}
      BY <1>1, <2>1 DEF RouterInv, StarAt
    <3> QED
      BY <2>1, <3>1 DEF Best, At
  <2>2. CASE e \notin DOMAIN star
    <3>1. StarAt(e) = {}
      BY <1>1, <2>2 DEF RouterInv, StarAt
    <3> QED
      BY <2>2, <3>1 DEF Best, At
  <2> QED
    BY <2>1, <2>2
<1>3. Best(At(exact, e), ExactAt(e), path)
  <2>1. CASE e \in DOMAIN exact
    <3>1. ExactAt(e) = {exact[e]}
      BY <1>1, <2>1 DEF RouterInv, ExactAt
    <3> QED
      BY <2>1, <3>1 DEF Best, At
  <2>2. CASE e \notin DOMAIN exact
    <3>1. ExactAt(e) = {}
      BY <1>1, <2>2 DEF RouterInv, ExactAt
    <3> QED
      BY <2>2, <3>1 DEF Best, At
  <2> QED
    BY <2>1, <2>2
<1> QED
  BY <1>2, <1>3

\* Below one node, the next step decides which pattern goes first.
LEMMA NextStepDecides ==
    ASSUME RouterInv, NEW a \in added, NEW b \in added, NEW path, IsSeq(path),
           NEW e, IsSeq(e), Len(e) <= Len(path), Under(a, e), Under(b, e),
           Rank(Pat(a), Len(e) + 1) < Rank(Pat(b), Len(e) + 1)
    PROVE  Precedes(Pat(a), Pat(b), path)
<1>1. Len(e) \in Nat /\ Len(path) \in Nat
  BY DEF IsSeq
<1>2. Len(Edges(a)) \in Nat /\ Len(Edges(b)) \in Nat
  BY Patterns DEF RouterInv
<1>3. Len(e) + 1 \in 1 .. Len(path) + 1
  BY <1>1
<1>4. ASSUME NEW j \in 1 .. (Len(e) + 1 - 1) PROVE Rank(Pat(a), j) = Rank(Pat(b), j)
  <2>1. /\ j \in 1 .. Len(e) /\ j <= Len(Edges(a)) /\ j <= Len(Edges(b))
        /\ Edges(a)[j] = Edges(b)[j]
    BY <1>1, <1>2, <1>4 DEF Under
  <2> QED
    BY <2>1 DEF Rank, Edges
<1> QED
  BY <1>3, <1>4 DEF Precedes

\* The kind of a pattern at the step after a node above it.
LEMMA RankBelow ==
    ASSUME RouterInv, NEW res \in added, NEW e, IsSeq(e), Under(res, e)
    PROVE  /\ res \in ExactAt(e) => Rank(Pat(res), Len(e) + 1) = 1
           /\ res \in StarAt(e) => Rank(Pat(res), Len(e) + 1) = 3
           /\ Len(e) < Len(Edges(res)) =>
                Rank(Pat(res), Len(e) + 1) = IF Edges(res)[Len(e) + 1] = ":" THEN 2 ELSE 1
<1>1. Len(e) \in Nat /\ Len(Edges(res)) \in Nat /\ Star(res) \in BOOLEAN
  BY Patterns DEF RouterInv, IsSeq
<1>2. Rank(Pat(res), Len(e) + 1) =
        IF Len(e) + 1 <= Len(Edges(res)) THEN (IF Edges(res)[Len(e) + 1] = ":" THEN 2 ELSE 1)
        ELSE IF Star(res) THEN 3 ELSE 1
  BY DEF Rank, Edges, Star
<1> QED
  BY <1>1, <1>2 DEF ExactAt, StarAt

\* A node whose edges match the path so far.
Along(e, path) == \A i \in 1 .. Len(e) : e[i] \in {":", path[i]}

\* The resources registered at a node that is as deep as the path, or less.
LEMMA FitHere ==
    ASSUME RouterInv, NEW path, IsSeq(path), NEW e, IsSeq(e), Along(e, path), Len(e) <= Len(path)
    PROVE  /\ StarAt(e) \subseteq Fit(e, path)
           /\ Len(e) = Len(path) => Fit(e, path) = ExactAt(e) \cup StarAt(e)
<1>1. Len(e) \in Nat /\ Len(path) \in Nat
  BY DEF IsSeq
<1>2. \A res \in added : IsSeq(Edges(res)) /\ Len(Edges(res)) \in Nat /\ Star(res) \in BOOLEAN
  BY Patterns DEF RouterInv
<1>3. \A res \in added : Matches(Pat(res), path) <=>
        /\ IF Star(res) THEN Len(Edges(res)) <= Len(path) ELSE Len(Edges(res)) = Len(path)
        /\ \A i \in 1 .. Len(Edges(res)) : Edges(res)[i] \in {":", path[i]}
  BY DEF Matches, Edges, Star
<1>4. StarAt(e) \subseteq Fit(e, path)
  BY <1>1, <1>3 DEF StarAt, Fit, Under, Along
<1>5. ASSUME Len(e) = Len(path) PROVE Fit(e, path) = ExactAt(e) \cup StarAt(e)
  <2>1. ExactAt(e) \subseteq Fit(e, path)
    BY <1>1, <1>3, <1>5 DEF ExactAt, Fit, Under, Along
  <2>2. ASSUME NEW res \in Fit(e, path) PROVE Edges(res) = e
    <3>1. res \in added /\ Len(Edges(res)) = Len(e) /\ \A i \in 1 .. Len(e) : Edges(res)[i] = e[i]
      BY <1>1, <1>2, <1>3, <1>5, <2>2 DEF Fit, Under
    <3> QED
      BY <1>2, <3>1, SameSeq
  <2>3. \A res \in Fit(e, path) : res \in ExactAt(e) \cup StarAt(e)
    BY <1>2, <2>2 DEF Fit, ExactAt, StarAt
  <2> QED
    BY <1>4, <2>1, <2>3
<1> QED
  BY <1>4, <1>5

Child(n, e, path) ==
    IsSeq(n) /\ Len(n) = Len(e) + 1 /\ Along(n, path) /\ (n \in wired \/ Fit(n, path) = {})

Splits(e, const, wild, path) ==
    /\ Fit(e, path) = (Fit(const, path) \cup Fit(wild, path)) \cup StarAt(e)
    /\ \A res \in Fit(const, path) : /\ Under(res, e) /\ Len(e) < Len(Edges(res))
                                      /\ Edges(res)[Len(e) + 1] = path[Len(e) + 1]
    /\ \A res \in Fit(wild, path) : /\ Under(res, e) /\ Len(e) < Len(Edges(res))
                                     /\ Edges(res)[Len(e) + 1] = ":"
    /\ Child(const, e, path) /\ Child(wild, e, path)

\* The others are below the node for the next segment or for a wildcard.
LEMMA FitBelow ==
    ASSUME RouterInv, NEW path, IsSeq(path), NEW e, IsSeq(e), Along(e, path), Len(e) < Len(path),
           NEW const, const = Append(e, path[Len(e) + 1]), NEW wild, wild = Append(e, ":")
    PROVE  Splits(e, const, wild, path)
<1> DEFINE m == Len(e)
<1>1. m \in Nat /\ Len(path) \in Nat
  BY DEF IsSeq
<1>2. \A res \in added : IsSeq(Edges(res)) /\ Len(Edges(res)) \in Nat /\ Star(res) \in BOOLEAN
  BY Patterns DEF RouterInv
<1>3. \A res \in added : Matches(Pat(res), path) =>
        /\ IF Star(res) THEN Len(Edges(res)) <= Len(path) ELSE Len(Edges(res)) = Len(path)
        /\ \A i \in 1 .. Len(Edges(res)) : Edges(res)[i] \in {":", path[i]}
  BY DEF Matches, Edges, Star
<1>4. /\ IsSeq(const) /\ Len(const) = m + 1 /\ const[m + 1] = path[m + 1]
      /\ \A i \in 1 .. m : const[i] = e[i]
  BY AppendIsSeq
<1>5. /\ IsSeq(wild) /\ Len(wild) = m + 1 /\ wild[m + 1] = ":"
      /\ \A i \in 1 .. m : wild[i] = e[i]
  BY AppendIsSeq
<1>6. \A res \in added :
        /\ Under(res, const) <=> Under(res, e) /\ m < Len(Edges(res)) /\ Edges(res)[m + 1] = path[m + 1]
        /\ Under(res, wild) <=> Under(res, e) /\ m < Len(Edges(res)) /\ Edges(res)[m + 1] = ":"
  <2> SUFFICES ASSUME NEW res \in added
               PROVE  /\ Under(res, const) <=>
                            Under(res, e) /\ m < Len(Edges(res)) /\ Edges(res)[m + 1] = path[m + 1]
                      /\ Under(res, wild) <=>
                            Under(res, e) /\ m < Len(Edges(res)) /\ Edges(res)[m + 1] = ":"
    OBVIOUS
  <2>1. \A i : i \in 1 .. m + 1 <=> i \in 1 .. m \/ i = m + 1
    BY <1>1
  <2>2. Len(Edges(res)) \in Nat
    BY <1>2
  <2>3. m + 1 <= Len(Edges(res)) <=> m <= Len(Edges(res)) /\ m < Len(Edges(res))
    BY <1>1, <2>2
  <2> QED
    BY <1>4, <1>5, <2>1, <2>3 DEF Under
<1>7. ASSUME NEW res \in Fit(e, path)
      PROVE  res \in (Fit(const, path) \cup Fit(wild, path)) \cup StarAt(e)
  <2>1. res \in added /\ Under(res, e) /\ m <= Len(Edges(res)) /\ Len(Edges(res)) \in Nat
    BY <1>2, <1>7 DEF Fit, Under
  <2>2. CASE m < Len(Edges(res))
    <3>1. m + 1 \in 1 .. Len(Edges(res))
      BY <1>1, <2>1, <2>2
    <3>2. Edges(res)[m + 1] \in {":", path[m + 1]}
      BY <1>3, <1>7, <3>1 DEF Fit
    <3> QED
      BY <1>6, <1>7, <2>1, <2>2, <3>2 DEF Fit
  <2>3. CASE Len(Edges(res)) = m
    <3>1. Edges(res) = e
      BY <1>2, <2>1, <2>3, SameSeq DEF Under
    <3>2. Star(res)
      BY <1>1, <1>3, <1>7, <2>1, <2>3 DEF Fit
    <3> QED
      BY <2>1, <3>1, <3>2 DEF StarAt
  <2> QED
    BY <1>1, <2>1, <2>2, <2>3
<1>8. StarAt(e) \subseteq Fit(e, path)
  BY <1>1, FitHere
<1>9. Fit(const, path) \subseteq Fit(e, path) /\ Fit(wild, path) \subseteq Fit(e, path)
  BY <1>6 DEF Fit
<1>10. ASSUME NEW n \in {const, wild}
       PROVE  Child(n, e, path)
  <2>1. IsSeq(n) /\ Len(n) = m + 1 /\ n[m + 1] \in {":", path[m + 1]} /\ \A i \in 1 .. m : n[i] = e[i]
    BY <1>4, <1>5
  <2>2. Along(n, path)
    BY <1>1, <2>1 DEF Along
  <2>3. ASSUME NEW res \in Fit(n, path) PROVE n \in wired
    <3>1. res \in added /\ Len(n) \in 0 .. Len(Edges(res)) /\ \A i \in 1 .. Len(n) : Edges(res)[i] = n[i]
      BY <1>1, <1>2, <2>1, <2>3 DEF Fit, Under
    <3>2. n = [i \in 1 .. Len(n) |-> Edges(res)[i]]
      BY <2>1, <3>1 DEF IsSeq
    <3>3. n \in Prefixes(Edges(res))
      BY <3>1, <3>2 DEF Prefixes
    <3> QED
      BY <3>1, <3>3 DEF RouterInv
  <2> QED
    BY <2>1, <2>2, <2>3 DEF Child
<1> QED
  BY <1>6, <1>7, <1>8, <1>9, <1>10 DEF Fit, Splits

\* One level of the search, when the nodes below were searched correctly.
LEMMA BestFrom ==
    ASSUME RouterInv, NEW path, IsSeq(path), NEW e \in wired, Along(e, path), Len(e) <= Len(path), NEW g,
           \A n \in wired : Len(n) = Len(e) + 1 /\ Len(n) <= Len(path) /\ Along(n, path)
                                => Best(g[n], Fit(n, path), path)
    PROVE  Best(RouteFrom(g, path, e), Fit(e, path), path)
<1> DEFINE m == Len(e)
           const == Append(e, path[m + 1])
           wild == Append(e, ":")
           below(n) == IF n \in wired THEN g[n] ELSE None
<1>1. IsSeq(e) /\ m \in Nat /\ Len(path) \in Nat
  BY DEF IsSeq, RouterInv, NodesAreSeqs
<1>2. None \notin added
  BY ResourcesAssumption DEF RouterInv
<1>3. RouteFrom(g, path, e) =
        Or(IF m < Len(path) THEN Or(below(const), below(wild)) ELSE At(exact, e), At(star, e))
  BY DEF RouteFrom, router_backtracks
<1>4. Best(At(star, e), StarAt(e), path) /\ Best(At(exact, e), ExactAt(e), path)
  BY BestAt
<1>5. \A res \in StarAt(e) : res \in added /\ Under(res, e) /\ Rank(Pat(res), m + 1) = 3
  <2>1. \A res \in StarAt(e) : res \in added /\ Under(res, e)
    BY <1>1 DEF StarAt, Under
  <2> QED
    BY <1>1, <2>1, RankBelow
<1>6. CASE m = Len(path)
  <2>1. Fit(e, path) = ExactAt(e) \cup StarAt(e)
    BY <1>1, <1>6, FitHere
  <2>2. \A res \in ExactAt(e) : res \in added /\ Under(res, e) /\ Rank(Pat(res), m + 1) = 1
    <3>1. \A res \in ExactAt(e) : res \in added /\ Under(res, e)
      BY <1>1 DEF ExactAt, Under
    <3> QED
      BY <1>1, <3>1, RankBelow
  <2>3. \A a \in ExactAt(e), b \in StarAt(e) : Precedes(Pat(a), Pat(b), path)
    <3> SUFFICES ASSUME NEW a \in ExactAt(e), NEW b \in StarAt(e)
                 PROVE  Precedes(Pat(a), Pat(b), path)
      OBVIOUS
    <3>1. Rank(Pat(a), m + 1) < Rank(Pat(b), m + 1)
      BY <1>5, <2>2
    <3> QED
      BY <1>1, <1>5, <2>2, <3>1, NextStepDecides
  <2>4. None \notin ExactAt(e)
    BY <1>2 DEF ExactAt
  <2>5. Best(Or(At(exact, e), At(star, e)), ExactAt(e) \cup StarAt(e), path)
    BY <1>4, <2>3, <2>4, BestOr
  <2> QED
    BY <1>1, <1>3, <1>6, <2>1, <2>5
<1>7. CASE m < Len(path)
  <2> HIDE DEF const, wild, below
  <2>1. const = Append(e, path[m + 1]) /\ wild = Append(e, ":")
    BY DEF const, wild
  <2>2. /\ Fit(e, path) = (Fit(const, path) \cup Fit(wild, path)) \cup StarAt(e)
        /\ \A res \in Fit(const, path) : Under(res, e) /\ m < Len(Edges(res))
                                         /\ Edges(res)[m + 1] = path[m + 1]
        /\ \A res \in Fit(wild, path) : Under(res, e) /\ m < Len(Edges(res))
                                        /\ Edges(res)[m + 1] = ":"
        /\ \A n \in {const, wild} : Child(n, e, path)
    <3>1. Splits(e, const, wild, path)
      BY <1>1, <1>7, <2>1, FitBelow
    <3>2. Fit(e, path) = (Fit(const, path) \cup Fit(wild, path)) \cup StarAt(e)
      BY <3>1 DEF Splits
    <3>3. \A res \in Fit(const, path) : Under(res, e) /\ m < Len(Edges(res))
                                         /\ Edges(res)[m + 1] = path[m + 1]
      BY <3>1 DEF Splits
    <3>4. \A res \in Fit(wild, path) : Under(res, e) /\ m < Len(Edges(res))
                                        /\ Edges(res)[m + 1] = ":"
      BY <3>1 DEF Splits
    <3>5. \A n \in {const, wild} : Child(n, e, path)
      BY <3>1 DEF Splits
    <3> QED
      BY <3>2, <3>3, <3>4, <3>5
  <2>3. \A n \in {const, wild} : Best(below(n), Fit(n, path), path)
    <3> SUFFICES ASSUME NEW n \in {const, wild} PROVE Best(below(n), Fit(n, path), path)
      OBVIOUS
    <3>1. CASE n \in wired
      <4>1. Len(n) = m + 1 /\ Len(n) <= Len(path) /\ Along(n, path)
        BY <1>1, <1>7, <2>2 DEF Child
      <4> QED
        BY <3>1, <4>1 DEF below
    <3>2. CASE n \notin wired
      BY <2>2, <3>2 DEF below, Best, Child
    <3> QED
      BY <3>1, <3>2
  <2>4. /\ \A n \in {const, wild} : None \notin Fit(n, path) /\ Fit(n, path) \subseteq added
    BY <1>2 DEF Fit
  <2>5. \A n \in {const, wild} : \A res \in Fit(n, path) :
            Rank(Pat(res), m + 1) = IF Edges(res)[m + 1] = ":" THEN 2 ELSE 1
    <3> SUFFICES ASSUME NEW n \in {const, wild}, NEW res \in Fit(n, path)
                 PROVE  Rank(Pat(res), m + 1) = IF Edges(res)[m + 1] = ":" THEN 2 ELSE 1
      OBVIOUS
    <3>1. res \in added /\ Under(res, e) /\ m < Len(Edges(res))
      BY <2>2, <2>4
    <3> QED
      BY <1>1, <3>1, RankBelow
  <2>6. Best(Or(below(const), below(wild)), Fit(const, path) \cup Fit(wild, path), path)
    <3>1. CASE path[m + 1] = ":"
      <4>1. const = wild
        BY <2>1, <3>1
      <4>2. Or(below(const), below(wild)) = below(const)
        BY <4>1 DEF Or
      <4>3. Fit(const, path) \cup Fit(wild, path) = Fit(const, path)
        BY <4>1
      <4> QED
        BY <2>3, <4>2, <4>3
    <3>2. CASE path[m + 1] # ":"
      <4>1. ASSUME NEW a \in Fit(const, path), NEW b \in Fit(wild, path)
            PROVE  Precedes(Pat(a), Pat(b), path)
        <5>1. Rank(Pat(a), m + 1) = 1 /\ Rank(Pat(b), m + 1) = 2
          BY <2>2, <2>5, <3>2
        <5>2. Rank(Pat(a), m + 1) < Rank(Pat(b), m + 1)
          BY <5>1
        <5>3. a \in added /\ b \in added /\ Under(a, e) /\ Under(b, e)
          BY <2>2, <2>4
        <5> QED
          BY <1>1, <5>2, <5>3, NextStepDecides
      <4> QED
        BY <2>3, <2>4, <4>1, BestOr
    <3> QED
      BY <3>1, <3>2
  <2>7. ASSUME NEW a \in Fit(const, path) \cup Fit(wild, path), NEW b \in StarAt(e)
        PROVE  Precedes(Pat(a), Pat(b), path)
    <3>1. Rank(Pat(a), m + 1) \in {1, 2} /\ Rank(Pat(b), m + 1) = 3
      BY <1>5, <2>5
    <3>2. Rank(Pat(a), m + 1) < Rank(Pat(b), m + 1)
      BY <3>1
    <3>3. a \in added /\ b \in added /\ Under(a, e) /\ Under(b, e)
      BY <1>5, <2>2, <2>4
    <3> QED
      BY <1>1, <3>2, <3>3, NextStepDecides
  <2>8. None \notin Fit(const, path) \cup Fit(wild, path)
    BY <2>4
  <2>9. Best(Or(Or(below(const), below(wild)), At(star, e)),
             (Fit(const, path) \cup Fit(wild, path)) \cup StarAt(e), path)
    BY <1>4, <2>6, <2>7, <2>8, BestOr
  <2> QED
    BY <1>3, <1>7, <2>2, <2>9
<1> QED
  BY <1>1, <1>6, <1>7

\* So router_route gives the best of all the resources that match.
LEMMA RouteIsBest ==
    ASSUME RouterInv, NEW path, IsSeq(path)
    PROVE  Best(router_route(path), {res \in added : Matches(Pat(res), path)}, path)
<1>1. PICK g : /\ router_route(path) = g[<<>>]
               /\ \A e \in wired : Len(e) <= Len(path) => g[e] = RouteFrom(g, path, e)
  BY RouterRoutes DEF RouterInv
<1> DEFINE Right(e) == Best(g[e], Fit(e, path), path)
           S == {d \in Nat : \A e \in wired : Len(e) + d = Len(path) /\ Along(e, path) => Right(e)}
<1>2. Len(path) \in Nat /\ \A e \in wired : Len(e) \in Nat
  BY DEF IsSeq, RouterInv, NodesAreSeqs
<1> HIDE DEF Right
<1>3. 0 \in S
  <2> SUFFICES ASSUME NEW e \in wired, Len(e) = Len(path), Along(e, path) PROVE Right(e)
    BY <1>2
  <2>1. \A n \in wired : ~(Len(n) = Len(e) + 1 /\ Len(n) <= Len(path))
    BY <1>2
  <2> QED
    BY <1>1, <1>2, <2>1, BestFrom DEF Right
<1>4. ASSUME NEW d \in 0 .. (Len(path) - 1), d \in S PROVE d + 1 \in S
  <2> SUFFICES ASSUME NEW e \in wired, Len(e) + (d + 1) = Len(path), Along(e, path) PROVE Right(e)
    BY <1>2
  <2>1. \A n \in wired : Len(n) = Len(e) + 1 => Len(n) + d = Len(path)
    BY <1>2
  <2>2. \A n \in wired : Len(n) = Len(e) + 1 /\ Along(n, path) => Right(n)
    BY <1>4, <2>1
  <2>3. Len(e) <= Len(path)
    BY <1>2
  <2> QED
    BY <1>1, <2>2, <2>3, BestFrom DEF Right
<1>5. 0 .. Len(path) \subseteq S
  <2> HIDE DEF S
  <2> QED
    BY <1>2, <1>3, <1>4, UpTo
<1>6. Len(<<>>) = 0 /\ <<>> \in wired
  BY EmptyIsSeq DEF RouterInv
<1>7. Along(<<>>, path) /\ \A res \in added : Under(res, <<>>)
  BY <1>6, Patterns DEF Along, Under, RouterInv
<1>8. Right(<<>>)
  BY <1>2, <1>5, <1>6, <1>7
<1>9. Fit(<<>>, path) = {res \in added : Matches(Pat(res), path)}
  BY <1>7 DEF Fit
<1> QED
  BY <1>1, <1>8, <1>9 DEF Right

-----------------------------------------------------------------------------
(* The invariant.                                                           *)

\* What is known of the connections: nothing is asked before the server is
\* started, so the router no longer changes; and what was stored of a body
\* and what has yet to come make up the request's bytes.
ConnInv ==
    /\ cpc \in [Conns -> {"idle", "headers", "upload", "answered", "dead"}]
    /\ req = [c \in Conns |-> req[c]] /\ resp = [c \in Conns |-> resp[c]]
    /\ body \in [Conns -> [cap : Nat, pos : Nat]] /\ left \in [Conns -> Nat]
    /\ \A c \in Conns :
        /\ cpc[c] # "idle" => started
        /\ cpc[c] \notin {"idle", "dead"} => req[c] \in Requests
        /\ body[c].pos <= body[c].cap
        /\ cpc[c] # "upload" => body[c] = NoBody
        /\ cpc[c] = "headers" => left[c] = req[c].bytes
        /\ cpc[c] = "upload" =>
            /\ body[c].cap = req[c].length
            /\ req[c].length = req[c].bytes => body[c].pos + left[c] = req[c].bytes

\* The properties, of one request r and its answer a.
Routed(r, x, A) ==
    LET path == path_new(r.url)
        fits == {res \in A : Matches(path_new(res.path), path)}
    IN  IF fits = {} THEN x = None
        ELSE x \in fits /\ \A q \in fits \ {x} : Precedes(path_new(x.path), path_new(q.path), path)

Guarded(r, a) ==
    /\ a.answer.ran =>
        /\ r.method \in a.res.ops
        /\ a.res.checks \ {"exists"} \subseteq a.passed
        /\ "exists" \in a.res.checks =>
            IF "exists" \in a.passed THEN r.method # "PUT" ELSE r.method \notin {"GET", "DELETE"}
    /\ a.answer.code < 300 => a.answer.ran

Whole(r, a) == r.length = r.bytes => a.filled = r.bytes /\ a.data_len = r.bytes

AnswersInv ==
    \A c \in Conns : cpc[c] = "answered" =>
        Routed(req[c], resp[c].res, added) /\ Guarded(req[c], resp[c]) /\ Whole(req[c], resp[c])

CrestInv == RouterInv /\ ConnInv /\ AnswersInv

\* What crest_process answers, whatever the callbacks say.
LEMMA ProcessGuarded ==
    ASSUME NEW r \in Requests, NEW res \in Resources \cup {None},
           NEW passed, NEW result \in {"ok", "err", "conflict"},
           NEW a, a.answer = crest_process(r, res, passed, result), a.res = res, a.passed = passed
    PROVE  Guarded(r, a)
<1> DEFINE ok(check) == check \in res.checks => check \in passed
           ans == crest_process(r, res, passed, result)
<1>1. r.method \in Methods
  BY RequestsAssumption
<1>2. CASE res = None
  <2>1. ans = [code |-> 404, ran |-> FALSE]
    BY <1>2 DEF crest_process
  <2> QED
    BY <2>1 DEF Guarded
<1>3. CASE res # None
  <2>1. res.ops \subseteq Methods \ {"unsupported"} /\ res.checks \subseteq Checks
    BY <1>3, ResourcesAssumption
  <2>2. ans.code < 300 => ans.ran
    BY <1>3 DEF crest_process
  <2>3. ans.ran =>
            /\ r.method \in res.ops /\ ok("authorized") /\ ok("forbidden") /\ ok("accepts")
            /\ Suits(r.method, ok("exists"))
    BY <1>3 DEF crest_process
  <2>4. ans.ran => res.checks \ {"exists"} \subseteq passed
    BY <2>1, <2>3 DEF Checks
  <2>5. ans.ran /\ "exists" \in res.checks =>
            IF "exists" \in passed THEN r.method # "PUT" ELSE r.method \notin {"GET", "DELETE"}
    BY <2>3 DEF Suits
  <2> HIDE DEF ans
  <2>6. a.answer = ans
    BY DEF ans
  <2> QED
    BY <2>2, <2>3, <2>4, <2>5, <2>6 DEF Guarded
<1> QED
  BY <1>2, <1>3

\* What router_route gives, as the property says it.
LEMMA RouteRouted ==
    ASSUME RouterInv, NEW r \in Requests, NEW x, x = router_route(path_new(r.url))
    PROVE  Routed(r, x, added) /\ x \in added \cup {None}
<1> DEFINE path == path_new(r.url)
           fits == {res \in added : Matches(Pat(res), path)}
<1>1. IsSeq(path)
  BY RequestsAssumption, PathIsSeq
<1>2. Best(x, fits, path)
  BY <1>1, RouteIsBest
<1>3. \/ x = None /\ fits = {}
      \/ x \in fits /\ \A q \in fits \ {x} : Precedes(Pat(x), Pat(q), path)
  BY <1>2 DEF Best
<1>4. Routed(r, x, added)
  BY <1>3 DEF Routed, Pat
<1> QED
  BY <1>3, <1>4

\* Initially.
LEMMA CrestInitInv == CrestInit => CrestInv
<1> SUFFICES ASSUME CrestInit PROVE CrestInv
  OBVIOUS
<1>1. RouterInv
  BY EmptyIsSeq DEF CrestInit, RouterInv, NodesAreSeqs
<1>2. ConnInv
  BY DEF CrestInit, ConnInv, NoBody
<1>3. AnswersInv
  BY DEF CrestInit, AnswersInv
<1> QED
  BY <1>1, <1>2, <1>3 DEF CrestInv

\* crest_add, before the server is started.
LEMMA AddInv ==
    ASSUME CrestInv, NEW res \in Resources, crest_add(res)
    PROVE  CrestInv'
<1> DEFINE e == Edges(res)
           node == Node(Pat(res))
<1>1. IsSeq(e) /\ Star(res) \in BOOLEAN /\ node.edges = e /\ node.star = Star(res)
  BY Patterns DEF Edges, Star
<1>2. wired' = wired \cup Prefixes(e) /\ ~started /\ UNCHANGED <<started, connVars>>
  BY DEF crest_add, Edges, Pat
<1>3. \A n \in Prefixes(e) : IsSeq(n)
  <2> SUFFICES ASSUME NEW i \in 0 .. Len(e), NEW n, n = [j \in 1 .. i |-> e[j]] PROVE IsSeq(n)
    BY DEF Prefixes
  <2>1. i \in Nat /\ n = [j \in 1 .. i |-> n[j]]
    BY <1>1 DEF IsSeq
  <2> QED
    BY <2>1, FunctionIsSeq
<1>4. e \in Prefixes(e)
  BY <1>1 DEF IsSeq, Prefixes
<1>5. \/ UNCHANGED <<exact, star, added>>
      \/ /\ Star(res) /\ e \notin DOMAIN star /\ star' = With(star, e, res)
         /\ exact' = exact /\ added' = added \cup {res}
      \/ /\ ~Star(res) /\ e \notin DOMAIN exact /\ exact' = With(exact, e, res)
         /\ star' = star /\ added' = added \cup {res}
  BY <1>1 DEF crest_add, Taken, Edges, Star, Pat
<1>6. \A f : /\ DOMAIN With(f, e, res) = DOMAIN f \cup {e}
             /\ \A z \in DOMAIN f \cup {e} : With(f, e, res)[z] = IF z = e THEN res ELSE f[z]
  BY DEF With
<1> HIDE DEF e, node
<1>7. RouterInv'
  <2>1. NodesAreSeqs' /\ <<>> \in wired'
    BY <1>2, <1>3 DEF CrestInv, RouterInv, NodesAreSeqs
  <2>2. wired \subseteq wired' /\ Prefixes(e) \subseteq wired' /\ e \in wired'
    BY <1>2, <1>4
  <2>3. e = Edges(res)
    BY DEF e
  <2>4. CASE UNCHANGED <<exact, star, added>>
    BY <2>1, <2>2, <2>4 DEF CrestInv, RouterInv, Edges, Star, Pat
  <2>5. CASE /\ Star(res) /\ e \notin DOMAIN star /\ star' = With(star, e, res)
             /\ exact' = exact /\ added' = added \cup {res}
    <3>1. /\ DOMAIN star' = DOMAIN star \cup {e}
          /\ \A z \in DOMAIN star \cup {e} : star'[z] = IF z = e THEN res ELSE star[z]
      BY <1>6, <2>5
    <3> QED
      BY <2>1, <2>2, <2>3, <2>5, <3>1 DEF CrestInv, RouterInv
  <2>6. CASE /\ ~Star(res) /\ e \notin DOMAIN exact /\ exact' = With(exact, e, res)
             /\ star' = star /\ added' = added \cup {res}
    <3>1. /\ DOMAIN exact' = DOMAIN exact \cup {e}
          /\ \A z \in DOMAIN exact \cup {e} : exact'[z] = IF z = e THEN res ELSE exact[z]
      BY <1>6, <2>6
    <3> QED
      BY <2>1, <2>2, <2>3, <2>6, <3>1 DEF CrestInv, RouterInv
  <2> QED
    BY <1>5, <2>4, <2>5, <2>6
<1>8. ConnInv'
  BY <1>2 DEF CrestInv, ConnInv, connVars
<1>9. AnswersInv'
  BY <1>2 DEF CrestInv, ConnInv, AnswersInv, connVars
<1> QED
  BY <1>7, <1>8, <1>9 DEF CrestInv

\* A step of one connection, by what it leaves behind.
LEMMA ConnStep ==
    ASSUME CrestInv, UNCHANGED routerVars, NEW c \in Conns, NEW p, NEW r, NEW b, NEW l, NEW a,
           cpc' = [cpc EXCEPT ![c] = p], req' = [req EXCEPT ![c] = r],
           body' = [body EXCEPT ![c] = b], left' = [left EXCEPT ![c] = l],
           resp' = [resp EXCEPT ![c] = a],
           p \in {"idle", "headers", "upload", "answered"},
           b \in [cap : Nat, pos : Nat], l \in Nat,
           p # "idle" => started /\ r \in Requests, b.pos <= b.cap, p # "upload" => b = NoBody,
           p = "headers" => l = r.bytes,
           p = "upload" => b.cap = r.length /\ (r.length = r.bytes => b.pos + l = r.bytes),
           p = "answered" => Routed(r, a.res, added) /\ Guarded(r, a) /\ Whole(r, a)
    PROVE  CrestInv'
<1>1. /\ cpc'[c] = p /\ req'[c] = r /\ body'[c] = b /\ left'[c] = l /\ resp'[c] = a
      /\ \A d \in Conns \ {c} : /\ cpc'[d] = cpc[d] /\ req'[d] = req[d] /\ body'[d] = body[d]
                                /\ left'[d] = left[d] /\ resp'[d] = resp[d]
  BY DEF CrestInv, ConnInv
<1>2. /\ cpc' \in [Conns -> {"idle", "headers", "upload", "answered", "dead"}]
      /\ req' = [d \in Conns |-> req'[d]] /\ resp' = [d \in Conns |-> resp'[d]]
      /\ body' \in [Conns -> [cap : Nat, pos : Nat]] /\ left' \in [Conns -> Nat]
  BY DEF CrestInv, ConnInv
<1>3. RouterInv'
  BY DEF CrestInv, RouterInv, NodesAreSeqs, routerVars, Edges, Star, Pat
<1>4. started' = started /\ added' = added
  BY DEF routerVars
<1>5. ConnInv'
  BY <1>1, <1>2, <1>4 DEF CrestInv, ConnInv
<1>6. AnswersInv'
  BY <1>1, <1>4 DEF CrestInv, AnswersInv
<1> QED
  BY <1>3, <1>5, <1>6 DEF CrestInv

\* The variables of a connection that a step leaves alone.
LEMMA Kept ==
    ASSUME CrestInv, NEW c \in Conns
    PROVE  /\ req = [req EXCEPT ![c] = req[c]] /\ resp = [resp EXCEPT ![c] = resp[c]]
           /\ body = [body EXCEPT ![c] = body[c]] /\ left = [left EXCEPT ![c] = left[c]]
           /\ cpc = [cpc EXCEPT ![c] = cpc[c]]
           /\ body[c] \in [cap : Nat, pos : Nat] /\ left[c] \in Nat /\ body[c].pos <= body[c].cap
           /\ body[c] = [cap |-> body[c].cap, pos |-> body[c].pos]
BY DEF CrestInv, ConnInv

\* A request arrives.
LEMMA RequestInv ==
    ASSUME CrestInv, NEW c \in Conns, NEW r \in Requests, request(c, r)
    PROVE  CrestInv'
<1>1. r.bytes \in Nat
  BY RequestsAssumption
<1>2. body[c] = NoBody /\ started
  BY DEF request, CrestInv, ConnInv
<1>3. /\ body' = [body EXCEPT ![c] = NoBody] /\ resp' = [resp EXCEPT ![c] = resp[c]]
      /\ cpc' = [cpc EXCEPT ![c] = "headers"] /\ req' = [req EXCEPT ![c] = r]
      /\ left' = [left EXCEPT ![c] = r.bytes] /\ UNCHANGED routerVars
  BY <1>2, Kept DEF request
<1>4. NoBody \in [cap : Nat, pos : Nat] /\ NoBody.pos <= NoBody.cap
  BY DEF NoBody
<1> QED
  BY <1>1, <1>2, <1>3, <1>4, ConnStep

\* The answer to a request whose body has come.
LEMMA AnswerInv ==
    ASSUME CrestInv, NEW c \in Conns, cpc[c] \in {"headers", "upload"}, Answer(c),
           req[c].length = req[c].bytes =>
                body[c].cap = req[c].bytes /\ body[c].pos = req[c].bytes
    PROVE  CrestInv'
<1> DEFINE x == router_route(path_new(req[c].url))
           answer(passed, result) ==
                [answer |-> crest_process(req[c], x, passed, result), res |-> x, passed |-> passed,
                 data_len |-> body[c].cap, filled |-> body[c].pos]
<1>1. PICK passed \in SUBSET (IF x = None THEN {} ELSE x.checks),
           result \in {"ok", "err", "conflict"} :
        /\ resp' = [resp EXCEPT ![c] = answer(passed, result)]
        /\ body' = [body EXCEPT ![c] = NoBody] /\ cpc' = [cpc EXCEPT ![c] = "answered"]
        /\ UNCHANGED <<routerVars, req, left>>
  BY DEF Answer
<1> DEFINE a == answer(passed, result)
<1>2. started /\ req[c] \in Requests
  BY DEF CrestInv, ConnInv
<1>3. /\ a.answer = crest_process(req[c], x, passed, result) /\ a.res = x /\ a.passed = passed
      /\ a.data_len = body[c].cap /\ a.filled = body[c].pos
  OBVIOUS
<1>4. resp' = [resp EXCEPT ![c] = a]
  BY <1>1
<1> HIDE DEF a, answer
<1>5. Routed(req[c], x, added) /\ x \in added \cup {None}
  BY <1>2, RouteRouted DEF CrestInv
<1>6. x \in Resources \cup {None}
  BY <1>5 DEF CrestInv, RouterInv
<1> HIDE DEF x
<1>7. Guarded(req[c], a)
  BY <1>2, <1>3, <1>6, ProcessGuarded
<1>8. Whole(req[c], a)
  BY <1>3 DEF Whole
<1>9. NoBody \in [cap : Nat, pos : Nat] /\ NoBody.pos <= NoBody.cap
  BY DEF NoBody
<1>10. req' = [req EXCEPT ![c] = req[c]] /\ left' = [left EXCEPT ![c] = left[c]] /\ left[c] \in Nat
  BY <1>1, Kept
<1>11. Routed(req[c], a.res, added)
  BY <1>3, <1>5
<1> QED
  <2>1. /\ UNCHANGED routerVars
        /\ body' = [body EXCEPT ![c] = NoBody] /\ cpc' = [cpc EXCEPT ![c] = "answered"]
    BY <1>1
  <2> QED
    BY <1>2, <1>4, <1>7, <1>8, <1>9, <1>10, <1>11, <2>1, ConnStep

\* The end of the process.
LEMMA AbortInv ==
    ASSUME CrestInv, started, optics_abort
    PROVE  CrestInv'
<1>1. RouterInv'
  BY DEF optics_abort, CrestInv, RouterInv, NodesAreSeqs, routerVars, Edges, Star, Pat
<1>2. ConnInv'
  BY DEF optics_abort, routerVars, CrestInv, ConnInv, NoBody
<1>3. AnswersInv'
  BY DEF optics_abort, AnswersInv
<1> QED
  BY <1>1, <1>2, <1>3 DEF CrestInv

\* The first call of microhttpd_cb for a request.
LEMMA HeadersInv ==
    ASSUME CrestInv, NEW c \in Conns, call_headers(c)
    PROVE  CrestInv'
<1>1. /\ cpc[c] = "headers" /\ started /\ req[c] \in Requests
      /\ body[c] = NoBody /\ left[c] = req[c].bytes
  BY DEF call_headers, CrestInv, ConnInv
<1>2. req[c].length \in Int /\ req[c].bytes \in Nat
  BY <1>1, RequestsAssumption
<1>3. CASE req[c].length > 0 /\ ~optics_abort
  <2> DEFINE b == [cap |-> req[c].length, pos |-> 0]
  <2>1. /\ b \in [cap : Nat, pos : Nat] /\ b.pos <= b.cap /\ b.cap = req[c].length
        /\ req[c].length = req[c].bytes => b.pos + left[c] = req[c].bytes
    BY <1>1, <1>2, <1>3
  <2>2. /\ cpc' = [cpc EXCEPT ![c] = "upload"] /\ body' = [body EXCEPT ![c] = b]
        /\ req' = [req EXCEPT ![c] = req[c]] /\ left' = [left EXCEPT ![c] = left[c]]
        /\ resp' = [resp EXCEPT ![c] = resp[c]] /\ UNCHANGED routerVars /\ left[c] \in Nat
    BY <1>3, Kept DEF call_headers
  <2> HIDE DEF b
  <2> QED
    BY <1>1, <2>1, <2>2, ConnStep
<1>4. CASE optics_abort
  BY <1>1, <1>4, AbortInv
<1>5. CASE ~(req[c].length > 0)
  <2>1. Answer(c)
    BY <1>5 DEF call_headers
  <2>2. req[c].length = req[c].bytes =>
            body[c].cap = req[c].bytes /\ body[c].pos = req[c].bytes
    BY <1>1, <1>2, <1>5 DEF NoBody
  <2> QED
    BY <1>1, <2>1, <2>2, AnswerInv
<1> QED
  BY <1>3, <1>4, <1>5

\* A chunk of the body: it is cut to what is free, which loses nothing of a
\* body that is as long as announced.
LEMMA DataInv ==
    ASSUME CrestInv, NEW c \in Conns, NEW n \in 1 .. left[c], call_data(c, n)
    PROVE  CrestInv'
<1> DEFINE b == Appended(body[c], n)
<1>1. /\ cpc[c] = "upload" /\ started /\ req[c] \in Requests /\ body[c].cap = req[c].length
      /\ req[c].length = req[c].bytes => body[c].pos + left[c] = req[c].bytes
  BY DEF call_data, CrestInv, ConnInv
<1>2. /\ left[c] \in Nat /\ body[c].pos \in Nat /\ body[c].cap \in Nat /\ body[c].pos <= body[c].cap
      /\ body[c] = [cap |-> body[c].cap, pos |-> body[c].pos]
  BY Kept
<1>3. Cut(body[c], n) \in Nat /\ body[c].pos + Cut(body[c], n) <= body[c].cap
  BY <1>2 DEF Cut
<1>4. body[c].cap = body[c].pos + left[c] => Cut(body[c], n) = n
  BY <1>2 DEF Cut
<1>5. b.cap = body[c].cap /\ b.pos = body[c].pos + Cut(body[c], n)
      /\ b = [cap |-> b.cap, pos |-> b.pos]
  BY <1>2 DEF Appended
<1>6. /\ body' = [body EXCEPT ![c] = b] /\ left' = [left EXCEPT ![c] = left[c] - n]
      /\ cpc' = [cpc EXCEPT ![c] = "upload"] /\ req' = [req EXCEPT ![c] = req[c]]
      /\ resp' = [resp EXCEPT ![c] = resp[c]] /\ UNCHANGED routerVars
  <2>1. left[c] - n + Unread(body[c], n) = left[c] - n
    BY <1>2 DEF Unread
  <2> QED
    BY <1>1, <2>1, Kept DEF call_data
<1> HIDE DEF b
<1>7. b \in [cap : Nat, pos : Nat] /\ b.pos <= b.cap
  BY <1>2, <1>3, <1>5
<1>8. req[c].bytes \in Nat
  BY <1>1, RequestsAssumption
<1>9. left[c] - n \in Nat /\ (req[c].length = req[c].bytes => b.pos + (left[c] - n) = req[c].bytes)
  BY <1>1, <1>2, <1>4, <1>5, <1>8
<1>10. b.cap = req[c].length
  BY <1>1, <1>5
<1> QED
  BY <1>1, <1>6, <1>7, <1>9, <1>10, ConnStep

\* The last call of microhttpd_cb for a request with a body.
LEMMA EndInv ==
    ASSUME CrestInv, NEW c \in Conns, call_end(c)
    PROVE  CrestInv'
<1>1. /\ cpc[c] = "upload" /\ left[c] = 0 /\ Answer(c) /\ body[c].cap = req[c].length
      /\ req[c].length = req[c].bytes => body[c].pos + left[c] = req[c].bytes
  BY DEF call_end, Complete, CrestInv, ConnInv
<1>2. body[c].pos \in Nat
  BY Kept
<1> QED
  BY <1>1, <1>2, AnswerInv

\* The connection is closed, by the client or after the answer.
LEMMA CloseInv ==
    ASSUME CrestInv, NEW c \in Conns, client_gone(c) \/ sent(c)
    PROVE  CrestInv'
<1>1. cpc[c] = "answered" => body[c] = NoBody
  BY DEF CrestInv, ConnInv
<1>2. PICK a : resp' = [resp EXCEPT ![c] = a]
  <2>1. CASE client_gone(c)
    <3>1. resp' = [resp EXCEPT ![c] = resp[c]]
      BY <2>1, Kept DEF client_gone
    <3> QED
      BY <3>1
  <2>2. CASE sent(c)
    <3>1. resp' = [resp EXCEPT ![c] = None]
      BY <2>2 DEF sent
    <3> QED
      BY <3>1
  <2> QED
    BY <2>1, <2>2
<1>3. /\ cpc' = [cpc EXCEPT ![c] = "idle"] /\ req' = [req EXCEPT ![c] = None]
      /\ body' = [body EXCEPT ![c] = NoBody] /\ left' = [left EXCEPT ![c] = 0]
      /\ UNCHANGED routerVars
  BY <1>1, Kept DEF client_gone, sent
<1>4. NoBody \in [cap : Nat, pos : Nat] /\ NoBody.pos <= NoBody.cap
  BY DEF NoBody
<1> QED
  BY <1>2, <1>3, <1>4, ConnStep

\* Every step keeps the invariant.
LEMMA CrestNextInv == CrestInv /\ [CrestNext]_crestVars => CrestInv'
<1> SUFFICES ASSUME CrestInv, [CrestNext]_crestVars PROVE CrestInv'
  OBVIOUS
<1>1. CASE \E res \in Resources : crest_add(res)
  BY <1>1, AddInv
<1>2. CASE crest_bind
  <2>1. /\ exact' = exact /\ star' = star /\ wired' = wired /\ added' = added
        /\ UNCHANGED connVars /\ started'
    BY <1>2 DEF crest_bind
  <2>2. RouterInv'
    BY <2>1 DEF CrestInv, RouterInv, NodesAreSeqs, Edges, Star, Pat
  <2>3. ConnInv' /\ AnswersInv'
    BY <2>1 DEF CrestInv, ConnInv, AnswersInv, connVars
  <2> QED
    BY <2>2, <2>3 DEF CrestInv
<1>3. CASE \E c \in Conns : \E r \in Requests : request(c, r)
  BY <1>3, RequestInv
<1>4. CASE \E c \in Conns : Serve(c)
  BY <1>4, HeadersInv, DataInv, EndInv, CloseInv DEF Serve
<1>5. CASE \E c \in Conns : client_gone(c)
  BY <1>5, CloseInv
<1>6. CASE UNCHANGED crestVars
  BY <1>6 DEF crestVars, routerVars, connVars, CrestInv, RouterInv, NodesAreSeqs, ConnInv, AnswersInv,
              Edges, Star, Pat
<1> QED
  BY <1>1, <1>2, <1>3, <1>4, <1>5, <1>6 DEF CrestNext

\* The invariant holds throughout.
THEOREM CrestInvariant == CrestSpec => []CrestInv
BY CrestInitInv, CrestNextInv, PTL DEF CrestSpec

-----------------------------------------------------------------------------
(* The properties.                                                          *)

\* A request is routed to the most definite of the patterns that match, for
\* any set of patterns and any order of crest_add.
THEOREM RoutingCorrect == CrestSpec => []RoutedToBest
<1>1. CrestInv => RoutedToBest
  BY DEF CrestInv, AnswersInv, Routed, RoutedToBest
<1> QED
  BY <1>1, CrestInvariant, PTL

\* A handler runs only for a request that passed every check of crest_process.
THEOREM HandlersAreGuarded == CrestSpec => []HandlersGuarded
<1>1. CrestInv => HandlersGuarded
  BY DEF CrestInv, AnswersInv, Guarded, HandlersGuarded
<1> QED
  BY <1>1, CrestInvariant, PTL

\* A body that is as long as announced reaches the handler whole, however it
\* was cut into chunks; none is written beyond its buffer.
THEOREM BodyDelivered == CrestSpec => []BodyWhole
<1>1. CrestInv => CrestTypeOK
  BY DEF CrestInv, RouterInv, ConnInv, CrestTypeOK
<1>2. CrestInv => BodyWhole
  BY <1>1 DEF CrestInv, AnswersInv, Whole, BodyWhole
<1> QED
  BY <1>2, CrestInvariant, PTL
=============================================================================
