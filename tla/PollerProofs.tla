---------------------------- MODULE PollerProofs ----------------------------
(***************************************************************************)
(* Proofs about Poller, for any number of regions, keys, backends and      *)
(* polls: the arrays of a poll, the elapsed times that its values are      *)
(* normalised by, the events that it drops, and the events as a whole.     *)
(***************************************************************************)
EXTENDS Poller, FiniteSetTheorems, TLAPS

-----------------------------------------------------------------------------
(* The inductive invariant.                                                 *)

\* What TypeOK leaves out.
ValueInv ==
    /\ at \in Nat /\ ts \in Nat
    /\ backends \in Seq(Range(Backends)) /\ Len(backends) <= MaxBackends
    /\ lost \in [Keys -> Nat]
    /\ told \in [1 .. MaxBackends -> [Keys -> Nat]]
    /\ missed \in [1 .. MaxBackends -> [Keys -> Nat]]
    /\ met \in [Keys -> SUBSET Regions]
    /\ covered \in [Regions -> Nat]
    /\ steady \in BOOLEAN

\* The lens that item i holds for key k.
LensOf(i, k) == lens[list[i].region][k]

\* The list of a poll: it grows while there is room, from entries that it does
\* not hold yet, the loops over it stay inside, and the keys to be read of an
\* item are the ones it has.
ListInv ==
    /\ Len(list) <= MaxOptics
    /\ ppc = "setup" => at # 0
    /\ ppc \in {"setup", "sleep"} => list = <<>>
    /\ ppc = "list" => /\ Len(list) < MaxOptics
                       /\ list # <<>> => dir # {}
                       /\ \A i \in 1 .. Len(list) : list[i].region \notin dir
    /\ ppc \in {"flip", "nap", "read", "record"} => at \in 1 .. Len(list)
    /\ ppc = "read" => \A k \in todo : LensOf(at, k) # None
    /\ \A i, j \in 1 .. Len(list) : i # j => list[i].region # list[j].region

\* The table of a poll: empty before the first read, and no backend is told of
\* a key before the last one.  While the regions are read, a key without a value
\* was not met yet, the layout of a quantile is the one of some region that was
\* read, and what was read so far is behind the loop, or was visited in this turn.
TableInv ==
    /\ ppc \notin {"read", "record"} => \A k \in Keys : values[k] = None /\ met[k] = {}
    /\ \A k \in Keys : heard[k] # 0 => ppc = "record" /\ values[k] # None
    /\ ppc = "read" => \A k \in Keys :
          /\ values[k] = None => met[k] = {}
          /\ values[k] # None /\ values[k].type = "quantile" =>
                \E r \in met[k] : /\ lens[r][k] # None /\ lens[r][k].type = "quantile"
                                  /\ lens[r][k].layout = values[k].layout
          /\ \A i \in 1 .. Len(list) :
                i >= at /\ list[i].region \in met[k] => i = at /\ k \notin todo

\* The items that were flipped in this poll and not read yet.
Pending ==
    {i \in 1 .. Len(list) : \/ ppc = "flip" /\ i < at
                            \/ ppc = "nap"
                            \/ ppc = "read" /\ i > at}

\* Each region's windows cover the time since its creation up to its last flip,
\* or up to the flip before that while the last window is still to be read.
TileInv ==
    steady /\ ppc \notin {"ended", "aborted"} =>
        /\ \A i \in Pending :
              LET r == list[i].region
              IN  /\ epoch_last_inc[r] = ts /\ ts > list[i].last_poll
                  /\ covered[r] = list[i].last_poll - Created[r]
        /\ \A r \in Regions : (\A i \in Pending : list[i].region # r) =>
              covered[r] = epoch_last_inc[r] - Created[r]

IndInv ==
    /\ TypeOK /\ ValueInv
    /\ ListInv /\ TableInv
    /\ ElapsedSound /\ LossExplained /\ TileInv

-----------------------------------------------------------------------------
(* The operators of a read.                                                 *)

\* A value is known by its fields.
LEMMA ValueFields ==
    ASSUME NEW v, v \in Value
    PROVE  /\ v = [type |-> v.type, layout |-> v.layout, count |-> v.count, elapsed |-> v.elapsed]
           /\ v.type \in {l.type : l \in Lenses}
           /\ v.layout \in Nat /\ v.count \in Nat /\ v.elapsed \in Nat
           /\ v # None
BY LensesAssumption DEF Value

\* The elapsed time of an item is a positive number.
LEMMA ElapsedPositive ==
    ASSUME ts \in Nat, NEW item \in Item
    PROVE  Elapsed(item) \in Nat /\ Elapsed(item) > 0
BY DEF Elapsed, Item

\* What the backends are going to divide by is no shorter than before, and no
\* shorter than the window of the region at hand.
LEMMA GotValue ==
    ASSUME NEW k \in Keys, NEW l \in Lenses, NEW e \in Nat, values[k] \in Value \cup {None}
    PROVE  LET v == poller_get_value(k, l, e)
           IN  /\ v \in Value /\ v.elapsed >= e
               /\ values[k] = None => v.type = l.type /\ v.layout = 0 /\ v.count = 0
               /\ values[k] # None => /\ v.type = values[k].type /\ v.layout = values[k].layout
                                      /\ v.count = values[k].count
                                      /\ v.elapsed >= values[k].elapsed
<1> DEFINE v == poller_get_value(k, l, e)
<1>1. CASE values[k] = None
  <2>1. v = [type |-> l.type, layout |-> 0, count |-> 0, elapsed |-> e]
    BY <1>1 DEF poller_get_value
  <2>2. l.type \in {x.type : x \in Lenses}
    OBVIOUS
  <2>3. v \in Value
    BY <2>1, <2>2 DEF Value
  <2> QED
    BY <1>1, <2>1, <2>3
<1>2. CASE values[k] # None
  <2>1. values[k] \in Value
    BY <1>2
  <2>2. CASE e > values[k].elapsed
    <3>1. v = [values[k] EXCEPT !.elapsed = e]
      BY <1>2, <2>2 DEF poller_get_value, Longer
    <3> QED
      BY <1>2, <2>1, <2>2, <3>1 DEF Value
  <2>3. CASE ~(e > values[k].elapsed)
    <3>1. v = values[k]
      BY <1>2, <2>3 DEF poller_get_value, Longer
    <3> QED
      BY <1>2, <2>1, <2>3, <3>1 DEF Value
  <2> QED
    BY <2>2, <2>3
<1> QED
  BY <1>1, <1>2

\* What a read leaves of the value and of the events: nothing is made up, and
\* what was drained and is not counted belongs to a quantile that found a value
\* without a target or with another one.
LEMMA MergedOutcome ==
    ASSUME NEW l \in Lenses, NEW v \in Value, NEW n \in Nat
    PROVE  LET m == Merged(l, v, n)
           IN  /\ m \in Value /\ m.type = v.type /\ m.elapsed = v.elapsed
               /\ m.count <= v.count + n
               /\ Drains(l, v) /\ m.count # v.count + n =>
                     /\ l.type = "quantile" /\ v.type = "quantile"
                     /\ \/ v.layout = 0 /\ v.count > 0
                        \/ v.layout # 0 /\ v.layout # l.layout
               /\ v.type = "quantile" => \/ l.type = "quantile" /\ m.layout = l.layout
                                         \/ ~(l.type = "quantile" /\ v.layout = 0)
                                            /\ m.layout = v.layout
<1> DEFINE m == Merged(l, v, n)
<1>0. /\ l.type \in LensTypes /\ l.layout \in Nat
      /\ v.type \in {x.type : x \in Lenses} /\ v.layout \in Nat /\ v.count \in Nat /\ v.elapsed \in Nat
  BY LensesAssumption, ValueFields
<1>1. CASE m = v /\ ~Drains(l, v)
  <2>1. v.type = "quantile" => ~(l.type = "quantile" /\ v.layout = 0)
    BY <1>1 DEF Drains
  <2> QED
    BY <1>0, <1>1, <2>1
<1>2. CASE m = [v EXCEPT !.count = @ + n] /\ v.type \in {"counter", "dist"}
  <2>1. m \in Value /\ m.type = v.type /\ m.elapsed = v.elapsed /\ m.count = v.count + n
    BY <1>0, <1>2 DEF Value
  <2> QED
    BY <1>0, <1>2, <2>1
<1>3. CASE m = [v EXCEPT !.count = n] /\ v.type = "gauge" /\ l.type = "gauge"
  <2>1. m \in Value /\ m.type = v.type /\ m.elapsed = v.elapsed /\ m.count = n
    BY <1>0, <1>3 DEF Value
  <2> QED
    BY <1>0, <1>3, <2>1 DEF Drains
<1>4. CASE m = [v EXCEPT !.layout = l.layout, !.count = @ + n] /\ v.type = "histo"
  <2>1. m = [type |-> v.type, layout |-> l.layout, count |-> v.count + n, elapsed |-> v.elapsed]
    BY <1>4, ValueFields DEF Value
  <2>2. m \in Value /\ m.type = v.type /\ m.elapsed = v.elapsed /\ m.count = v.count + n
    BY <1>0, <2>1 DEF Value
  <2> QED
    BY <1>0, <1>4, <2>2
<1>5. CASE /\ v.type = "quantile" /\ l.type = "quantile" /\ v.layout = 0
           /\ m = [v EXCEPT !.layout = l.layout, !.count = n]
  <2>1. m \in Value /\ m.type = v.type /\ m.elapsed = v.elapsed /\ m.count = n /\ m.layout = l.layout
    BY <1>0, <1>5 DEF Value
  <2> QED
    BY <1>0, <1>5, <2>1
<1>6. CASE /\ v.type = "quantile" /\ l.type = "quantile" /\ v.layout # 0 /\ v.layout = l.layout
           /\ m = [v EXCEPT !.count = @ + n]
  <2>1. /\ m \in Value /\ m.type = v.type /\ m.elapsed = v.elapsed
        /\ m.count = v.count + n /\ m.layout = v.layout
    BY <1>0, <1>6 DEF Value
  <2> QED
    BY <1>0, <1>6, <2>1
<1>7. CASE v.type = "quantile" /\ l.type = "quantile" /\ v.layout # 0 /\ v.layout # l.layout /\ m = v
  BY <1>0, <1>7
<1>8. CASE l.type # v.type
  BY <1>1, <1>8 DEF Merged, Drains
<1>9. CASE l.type = v.type
  <2>1. CASE l.type \in {"counter", "dist"}
    BY <1>2, <1>9, <2>1 DEF Merged, lens_counter_read, lens_dist_read
  <2>2. CASE l.type = "gauge"
    BY <1>3, <1>9, <2>2 DEF Merged, lens_gauge_read
  <2>3. CASE l.type = "histo"
    BY <1>1, <1>4, <1>9, <2>3 DEF Merged, lens_histo_read, Drains
  <2>4. CASE l.type = "quantile"
    BY <1>5, <1>6, <1>7, <1>9, <2>4 DEF Merged, lens_quantile_read
  <2> QED
    BY <1>0, <2>1, <2>2, <2>3, <2>4 DEF LensTypes
<1> QED
  BY <1>8, <1>9

\* What is not drained is not counted.
LEMMA MergedKept ==
    ASSUME NEW l \in Lenses, NEW v, NEW n, ~Drains(l, v), v.type # "gauge"
    PROVE  Merged(l, v, n) = v
<1>1. CASE l.type # v.type
  BY <1>1 DEF Merged
<1>2. CASE l.type = v.type
  <2>1. l.type = "histo" /\ v.layout \notin {0, l.layout}
    BY <1>2 DEF Drains
  <2>2. Merged(l, v, n) = lens_histo_read(l, v, n)
    BY <1>2, <2>1 DEF Merged
  <2> QED
    BY <2>1, <2>2 DEF lens_histo_read
<1> QED
  BY <1>1, <1>2

-----------------------------------------------------------------------------
(* What the steps of a poll come to.                                        *)

\* An entry of the directory is skipped, or put at the end of the list.
Lists(r) ==
    /\ ppc = "list" /\ r \in dir /\ r \in Regions
    /\ \/ list' = list /\ dir' = dir \ {r}
       \/ /\ list' = Append(list, [region |-> r, last_poll |-> 0, epoch |-> 0])
          /\ \/ dir' = {}
             \/ dir' = dir \ {r} /\ Len(list') < MaxOptics
    /\ ppc' = IF dir' = {} /\ list' # <<>> THEN "flip" ELSE "list"
    /\ at' = 1
    /\ UNCHANGED <<regionVars, ts, todo, values, heard, driverVars, history>>

\* The callback of the listing does that.
LEMMA ListOutcome ==
    ASSUME TypeOK, NEW r \in Regions, NEW opens \in BOOLEAN, poller_shm_cb(r, opens)
    PROVE  Lists(r)
<1>1. CASE ~opens
  BY <1>1 DEF poller_shm_cb, Lists
<1>2. CASE opens
  <2> DEFINE items == Append(list, [region |-> r, last_poll |-> 0, epoch |-> 0])
  <2>1. list' = items /\ dir' = IF ListFull(items) THEN {} ELSE dir \ {r}
    BY <1>2 DEF poller_shm_cb
  <2>2. Len(items) \in Nat /\ MaxOptics \in Nat
    BY BoundsAssumption DEF TypeOK
  <2>3. dir' = {} \/ (dir' = dir \ {r} /\ Len(list') < MaxOptics)
    BY <2>1, <2>2 DEF ListFull
  <2> QED
    BY <1>2, <2>1, <2>3 DEF poller_shm_cb, Lists
<1> QED
  BY <1>1, <1>2

\* Two of the fields of an item are assigned.
LEMMA FilledItem ==
    ASSUME NEW x \in Item, NEW a, NEW b
    PROVE  [[x EXCEPT !.last_poll = a] EXCEPT !.epoch = b]
               = [region |-> x.region, last_poll |-> a, epoch |-> b]
<1> DEFINE y == [[x EXCEPT !.last_poll = a] EXCEPT !.epoch = b]
<1>1. DOMAIN x = {"region", "last_poll", "epoch"}
  BY DEF Item
<1>2. /\ DOMAIN y = {"region", "last_poll", "epoch"}
      /\ y = [i \in {"region", "last_poll", "epoch"} |-> y[i]]
  BY <1>1
<1>3. y.region = x.region
  BY <1>1
<1>4. y.last_poll = a
  BY <1>1
<1>5. y.epoch = b
  BY <1>1
<1> HIDE DEF y
<1>6. y = [region |-> x.region, last_poll |-> a, epoch |-> b]
  BY <1>2, <1>3, <1>4, <1>5
<1> QED
  BY <1>6 DEF y

\* The item that a flip fills in.
Flips(r) ==
    /\ ppc = "flip" /\ at \in 1 .. Len(list) /\ r \in Regions /\ r = list[at].region
    /\ list' \in Seq(Item) /\ Len(list') = Len(list)
    /\ \A i \in 1 .. Len(list) : /\ list'[i].region = list[i].region
                                 /\ i # at => list'[i] = list[i]
    /\ list'[at].last_poll = epoch_last_inc[r]
    /\ epoch_last_inc' = [epoch_last_inc EXCEPT ![r] = ts]
    /\ epoch' \in [Regions -> Epochs]
    /\ steady' = (steady /\ ts > epoch_last_inc[r])
    /\ \/ at = Len(list) /\ ppc' = "nap" /\ at' = 1
       \/ at < Len(list) /\ ppc' = "flip" /\ at' = at + 1
    /\ UNCHANGED <<lens, slot, recorded, ts, dir, todo, values, heard, driverVars,
                   polls, told, missed, lost, met, covered>>

\* optics_epoch_inc_at does that.
LEMMA FlipOutcome ==
    ASSUME TypeOK, ValueInv, ListInv, optics_epoch_inc_at
    PROVE  \E r \in Regions : Flips(r)
<1> DEFINE r == list[at].region
<1>1. /\ ppc = "flip" /\ at \in 1 .. Len(list)
      /\ list \in Seq(Item) /\ Len(list) \in Nat
  BY DEF optics_epoch_inc_at, ListInv, TypeOK
<1>2. list[at] \in Item /\ r \in Regions
  <2>1. list[at] \in Item
    BY <1>1
  <2> QED
    BY <2>1 DEF Item
<1>3. epoch[r] \in Epochs /\ epoch_last_inc[r] \in Nat
  BY <1>2 DEF TypeOK
<1> DEFINE item == [region |-> r, last_poll |-> epoch_last_inc[r], epoch |-> epoch[r]]
<1>4. item \in Item
  BY <1>2, <1>3 DEF Item
<1>5. list' = [list EXCEPT ![at] = item]
  <2>1. list' = [list EXCEPT ![at].last_poll = epoch_last_inc[r], ![at].epoch = epoch[r]]
    BY DEF optics_epoch_inc_at
  <2>2. [[list[at] EXCEPT !.last_poll = epoch_last_inc[r]] EXCEPT !.epoch = epoch[r]] = item
    BY <1>2, FilledItem
  <2>3. list' = [list EXCEPT ![at] =
                    [[list[at] EXCEPT !.last_poll = epoch_last_inc[r]] EXCEPT !.epoch = epoch[r]]]
    BY <2>1, <1>1
  <2> QED
    BY <2>2, <2>3
<1>6. /\ list' \in Seq(Item) /\ Len(list') = Len(list)
      /\ list'[at] = item
      /\ \A i \in 1 .. Len(list) : i # at => list'[i] = list[i]
  BY <1>1, <1>4, <1>5
<1>7. epoch' \in [Regions -> Epochs]
  <2>1. epoch' = [epoch EXCEPT ![r] = 1 - epoch[r]] /\ epoch \in [Regions -> Epochs]
    BY DEF optics_epoch_inc_at, TypeOK
  <2>2. 1 - epoch[r] \in Epochs
    BY <1>3 DEF Epochs
  <2> QED
    BY <1>2, <2>1, <2>2
<1>8. /\ epoch_last_inc' = [epoch_last_inc EXCEPT ![r] = ts]
      /\ steady' = (steady /\ ts > epoch_last_inc[r])
  BY DEF optics_epoch_inc_at, LastInc
<1>9. \/ at = Len(list) /\ ppc' = "nap" /\ at' = 1
      \/ at < Len(list) /\ ppc' = "flip" /\ at' = at + 1
  BY <1>1 DEF optics_epoch_inc_at
<1>10. UNCHANGED <<lens, slot, recorded, ts, dir, todo, values, heard, driverVars,
                   polls, told, missed, lost, met, covered>>
  BY DEF optics_epoch_inc_at
<1>11. /\ item.region = r /\ item.last_poll = epoch_last_inc[r]
  OBVIOUS
<1> HIDE DEF item
<1>12. \A i \in 1 .. Len(list) : /\ list'[i].region = list[i].region
                                 /\ i # at => list'[i] = list[i]
  BY <1>6, <1>11
<1> QED
  BY <1>1, <1>2, <1>6, <1>7, <1>8, <1>9, <1>10, <1>11, <1>12 DEF Flips

\* c events are taken from the slot that the item at hand has left.
Takes(k, c) ==
    LET r == list[at].region
        e == list[at].epoch
    IN  /\ r \in Regions /\ e \in Epochs
        /\ slot' = [slot EXCEPT ![r][e][k] = slot[r][e][k] - c]

\* What a read of key k of the item at hand makes of its value: v is the value
\* it finds, m the one it leaves, d the number of events that are lost.
Reads(k, l, v, m, d) ==
    /\ ppc = "read" /\ ppc' = "read" /\ at \in 1 .. Len(list)
    /\ k \in todo /\ todo' = todo \ {k}
    /\ l = LensOf(at, k)
    /\ v.elapsed >= Elapsed(list[at])
    /\ values[k] = None => v.type = l.type /\ v.layout = 0 /\ v.count = 0
    /\ values[k] # None => /\ v.type = values[k].type /\ v.layout = values[k].layout
                           /\ v.elapsed >= values[k].elapsed
                           /\ v.count = values[k].count
    /\ m.type = v.type /\ m.elapsed = v.elapsed
    /\ m.type = "quantile" => \/ l.type = "quantile" /\ m.layout = l.layout
                              \/ values[k] # None /\ m.layout = values[k].layout
    /\ values' = [values EXCEPT ![k] = m]
    /\ lost' = [lost EXCEPT ![k] = @ + d]
    /\ d > 0 => /\ values[k] # None /\ l.type = "quantile" /\ v.type = "quantile"
                /\ v.layout = 0 \/ v.layout # l.layout
    /\ slot' \in [Regions -> [Epochs -> [Keys -> Nat]]]
    /\ v.type # "gauge" => \E c \in Nat : Takes(k, c) /\ m.count + d = v.count + c
    /\ met' = [met EXCEPT ![k] = @ \cup {list[at].region}]
    /\ UNCHANGED <<lens, epoch, epoch_last_inc, recorded, ts, dir, list, at, heard,
                   driverVars, polls, told, missed, covered, steady>>

\* poller_poll_lens does that.
LEMMA ReadOutcome ==
    ASSUME TypeOK, ValueInv, ListInv,
           NEW k \in Keys, NEW busy \in BOOLEAN, poller_poll_lens(k, busy)
    PROVE  \E l \in Lenses, v \in Value, m \in Value, d \in Nat : Reads(k, l, v, m, d)
<1> DEFINE item == list[at]
           r == item.region
           l == lens[r][k]
           n == slot[r][item.epoch][k]
           v == poller_get_value(k, l, Elapsed(item))
           m == IF busy THEN v ELSE Merged(l, v, n)
           drained == Drains(l, v) /\ ~busy
           d == IF drained THEN v.count + n - m.count ELSE 0
<1>1. /\ ppc = "read" /\ k \in todo /\ at \in 1 .. Len(list)
      /\ list \in Seq(Item) /\ Len(list) \in Nat
      /\ l # None
  BY DEF poller_poll_lens, ListInv, TypeOK, LensOf
<1>2. item \in Item /\ r \in Regions /\ item.epoch \in Epochs
  <2>1. item \in Item
    BY <1>1
  <2> QED
    BY <2>1 DEF Item
<1>3. l \in Lenses /\ n \in Nat
  BY <1>1, <1>2 DEF TypeOK
<1>4. Elapsed(item) \in Nat
  BY <1>2, ElapsedPositive DEF ValueInv
<1>5. values[k] \in Value \cup {None}
  BY DEF TypeOK
<1>6. /\ busy => l.type = "dist" /\ v.type = "dist"
      /\ values' = [values EXCEPT ![k] = m]
      /\ slot' = [slot EXCEPT ![r][item.epoch][k] = IF drained THEN 0 ELSE @]
      /\ lost' = IF drained THEN [lost EXCEPT ![k] = @ + v.count + n - m.count] ELSE lost
      /\ todo' = todo \ {k}
      /\ met' = [met EXCEPT ![k] = @ \cup {r}]
      /\ UNCHANGED <<lens, epoch, epoch_last_inc, recorded, ppc, ts, dir, list, at, heard,
                     driverVars, polls, told, missed, covered, steady>>
  BY DEF poller_poll_lens
<1>7. slot' \in [Regions -> [Epochs -> [Keys -> Nat]]]
  <2>1. slot \in [Regions -> [Epochs -> [Keys -> Nat]]]
    BY DEF TypeOK
  <2>2. n \in Nat /\ (IF drained THEN 0 ELSE n) \in Nat
    BY <1>3
  <2>3. slot' = [slot EXCEPT ![r][item.epoch][k] = IF drained THEN 0 ELSE n]
    BY <1>2, <1>6, <2>1
  <2> HIDE DEF item, r, n, drained
  <2> QED
    BY <1>2, <2>1, <2>2, <2>3
<1>8. /\ v \in Value /\ v.elapsed >= Elapsed(item)
      /\ values[k] = None => v.type = l.type /\ v.layout = 0 /\ v.count = 0
      /\ values[k] # None => /\ v.type = values[k].type /\ v.layout = values[k].layout
                             /\ v.count = values[k].count
                             /\ v.elapsed >= values[k].elapsed
  BY <1>3, <1>4, <1>5, GotValue
<1>9. LensOf(at, k) = l
  BY DEF LensOf
<1> HIDE DEF item, r, l, n, v
<1>10. v.count \in Nat /\ v.layout \in Nat
  BY <1>8, ValueFields
<1>11. /\ m \in Value /\ m.type = v.type /\ m.elapsed = v.elapsed
       /\ m.type = "quantile" => \/ l.type = "quantile" /\ m.layout = l.layout
                                 \/ values[k] # None /\ m.layout = values[k].layout
       /\ d \in Nat
       /\ d > 0 => /\ values[k] # None /\ l.type = "quantile" /\ v.type = "quantile"
                   /\ v.layout = 0 \/ v.layout # l.layout
  <2>1. CASE busy
    BY <1>6, <1>8, <2>1
  <2>2. CASE ~busy
    <3>1. m = Merged(l, v, n)
      BY <2>2
    <3>2. /\ m \in Value /\ m.type = v.type /\ m.elapsed = v.elapsed
          /\ m.count <= v.count + n
          /\ Drains(l, v) /\ m.count # v.count + n =>
                /\ l.type = "quantile" /\ v.type = "quantile"
                /\ \/ v.layout = 0 /\ v.count > 0
                   \/ v.layout # 0 /\ v.layout # l.layout
          /\ v.type = "quantile" => \/ l.type = "quantile" /\ m.layout = l.layout
                                    \/ ~(l.type = "quantile" /\ v.layout = 0)
                                       /\ m.layout = v.layout
      BY <1>3, <1>8, <3>1, MergedOutcome
    <3>3. m.count \in Nat
      BY <3>2, ValueFields
    <3> HIDE DEF m
    <3>4. d \in Nat
      BY <1>3, <1>10, <3>2, <3>3
    <3>5. d > 0 => drained /\ m.count # v.count + n
      BY <1>3, <1>10, <3>3
    <3>6. v.count > 0 => v.count # 0
      BY <1>10
    <3>7. d > 0 => /\ values[k] # None /\ l.type = "quantile" /\ v.type = "quantile"
                   /\ v.layout = 0 \/ v.layout # l.layout
      BY <1>8, <3>2, <3>5, <3>6, Zenon
    <3>8. m.type = "quantile" => \/ l.type = "quantile" /\ m.layout = l.layout
                                 \/ values[k] # None /\ m.layout = values[k].layout
      BY <1>8, <3>2
    <3> QED
      BY <3>2, <3>4, <3>7, <3>8
  <2> QED
    BY <2>1, <2>2
<1>12. lost' = [lost EXCEPT ![k] = @ + d]
  <2>1. lost \in [Keys -> Nat]
    BY DEF ValueInv
  <2>2. CASE drained
    <3>1. lost' = [lost EXCEPT ![k] = lost[k] + v.count + n - m.count]
      BY <1>6, <2>2
    <3>2. d = v.count + n - m.count
      BY <2>2
    <3>3. m.count \in Nat
      BY <1>11, ValueFields
    <3> HIDE DEF m, d
    <3>4. lost[k] + v.count + n - m.count = lost[k] + d
      BY <1>3, <1>10, <2>1, <3>2, <3>3
    <3> QED
      BY <3>1, <3>4
  <2>3. CASE ~drained
    <3>1. d = 0 /\ lost' = lost
      BY <1>6, <2>3
    <3> HIDE DEF d
    <3> QED
      BY <2>1, <3>1
  <2> QED
    BY <2>2, <2>3
<1>13. /\ v.elapsed >= Elapsed(list[at])
       /\ met' = [met EXCEPT ![k] = @ \cup {list[at].region}]
  BY <1>6, <1>8 DEF item, r
<1>14. ASSUME v.type # "gauge"
       PROVE  \E c \in Nat : Takes(k, c) /\ m.count + d = v.count + c
  <2> DEFINE c == IF drained THEN n ELSE 0
  <2>1. slot' = [slot EXCEPT ![r][item.epoch][k] = n - c]
    <3>1. slot' = [slot EXCEPT ![r][item.epoch][k] = IF drained THEN 0 ELSE n]
      BY <1>6 DEF n
    <3>2. (IF drained THEN 0 ELSE n) = n - c
      BY <1>3
    <3> QED
      BY <3>1, <3>2
  <2>2. Takes(k, c)
    BY <1>2, <2>1 DEF Takes, r, item, n
  <2>3. m.count + d = v.count + c
    <3>1. m.count \in Nat
      BY <1>11, ValueFields
    <3>2. CASE drained
      <4>1. d = v.count + n - m.count /\ c = n
        BY <3>2
      <4> HIDE DEF m, d, c
      <4> QED
        BY <1>3, <1>10, <3>1, <4>1
    <3>3. CASE ~drained
      <4>1. m = v
        BY <1>3, <1>14, <3>3, MergedKept
      <4>2. d = 0 /\ c = 0
        BY <3>3
      <4> HIDE DEF m, d, c
      <4> QED
        BY <1>10, <4>1, <4>2
    <3> QED
      BY <3>2, <3>3
  <2>4. c \in Nat
    BY <1>3
  <2> HIDE DEF c
  <2> QED
    BY <2>2, <2>3, <2>4
<1> HIDE DEF m, d, drained
<1>15. Reads(k, l, v, m, d)
  BY <1>1, <1>6, <1>7, <1>8, <1>9, <1>11, <1>12, <1>13, <1>14 DEF Reads
<1> QED
  BY <1>3, <1>8, <1>11, <1>15

-----------------------------------------------------------------------------
(* Every step preserves the invariant.                                      *)

\* What a backend has yet to be told is a number.
LEMMA UntoldNat ==
    ASSUME TypeOK
    PROVE  \A i, k : k \in Keys => Untold(i, k) \in Nat
<1> SUFFICES ASSUME NEW i, NEW k \in Keys PROVE Untold(i, k) \in Nat
  OBVIOUS
<1>1. values[k] # None => values[k].count \in Nat
  BY ValueFields DEF TypeOK
<1> QED
  BY <1>1 DEF Untold

\* The types,
LEMMA TypeStep ==
    ASSUME TypeOK, ValueInv, ListInv, [Next]_vars
    PROVE  TypeOK' /\ ValueInv'
<1> USE DEF regionVars, pollVars, driverVars, history, TypeOK, ValueInv
<1>1. ASSUME NEW r \in Regions, NEW k \in Keys, record(r, k)
      PROVE  TypeOK' /\ ValueInv'
  <2>1. slot' \in [Regions -> [Epochs -> [Keys -> Nat]]]
    <3>1. CASE lens[r][k].type = "gauge"
      <4>1. slot' = [slot EXCEPT ![r] = [e \in Epochs |-> [slot[r][e] EXCEPT ![k] = 1]]]
        BY <1>1, <3>1 DEF record
      <4>2. [e \in Epochs |-> [slot[r][e] EXCEPT ![k] = 1]] \in [Epochs -> [Keys -> Nat]]
        OBVIOUS
      <4> QED
        BY <4>1, <4>2
    <3>2. CASE lens[r][k].type # "gauge"
      <4>1. slot' = [slot EXCEPT ![r][epoch[r]][k] = @ + 1]
        BY <1>1, <3>2 DEF record
      <4>2. epoch[r] \in Epochs /\ slot[r][epoch[r]][k] \in Nat
        OBVIOUS
      <4> QED
        BY <4>1, <4>2
    <3> QED
      BY <3>1, <3>2
  <2> QED
    BY <1>1, <2>1 DEF record
<1>2. ASSUME optics_poller_backend
      PROVE  TypeOK' /\ ValueInv'
  <2>1. backends' \in Seq(Range(Backends)) /\ Len(backends') <= MaxBackends
    <3>1. CASE at <= Len(Backends)
      <4>1. at \in 1 .. Len(Backends)
        BY <1>2, <3>1, BackendsAssumption DEF optics_poller_backend, ListInv
      <4>2. Backends[at] \in Range(Backends)
        BY <4>1, BackendsAssumption
      <4> QED
        <5>1. CASE HasRoom
          <6>1. backends' = Append(backends, Backends[at])
            BY <1>2, <3>1, <5>1 DEF optics_poller_backend
          <6>2. backends' \in Seq(Range(Backends)) /\ Len(backends') = Len(backends) + 1
            BY <4>2, <6>1
          <6>3. Len(backends) \in Nat /\ Len(backends) < MaxBackends
            BY <5>1 DEF HasRoom
          <6> QED
            BY <6>2, <6>3, BoundsAssumption
        <5>2. CASE ~HasRoom
          BY <1>2, <3>1, <5>2 DEF optics_poller_backend
        <5> QED
          BY <5>1, <5>2
    <3>2. CASE ~(at <= Len(Backends))
      BY <1>2, <3>2 DEF optics_poller_backend
    <3> QED
      BY <3>1, <3>2
  <2> QED
    BY <1>2, <2>1 DEF optics_poller_backend, Phases
<1>3. ASSUME NEW now \in Times, NEW entries \in {{}, Regions}, poll_at(now, entries)
      PROVE  TypeOK' /\ ValueInv'
  BY <1>3, TimesAssumption DEF poll_at, Phases
<1>4. ASSUME NEW r \in Regions, NEW opens \in BOOLEAN, poller_shm_cb(r, opens)
      PROVE  TypeOK' /\ ValueInv'
  <2>1. Lists(r)
    BY <1>4, ListOutcome
  <2>2. [region |-> r, last_poll |-> 0, epoch |-> 0] \in Item
    BY DEF Item, Epochs
  <2>3. list' \in Seq(Item) /\ dir' \subseteq Regions
    <3>1. CASE list' = list /\ dir' = dir \ {r}
      BY <3>1
    <3>2. CASE /\ list' = Append(list, [region |-> r, last_poll |-> 0, epoch |-> 0])
               /\ dir' = {} \/ dir' = dir \ {r}
      BY <2>2, <3>2
    <3> QED
      BY <2>1, <3>1, <3>2 DEF Lists
  <2> QED
    BY <2>1, <2>3 DEF Lists, Phases
<1>5. ASSUME poll_nothing
      PROVE  TypeOK' /\ ValueInv'
  <2>1. /\ list' = <<>> \/ list' = list
        /\ at' \in Nat /\ ts' \in Nat /\ ppc' \in Phases
    BY <1>5 DEF poll_nothing, Returned, Phases
  <2>2. list' \in Seq(Item)
    <3>1. <<>> \in Seq(Item) /\ list \in Seq(Item)
      OBVIOUS
    <3> QED
      BY <2>1, <3>1, Zenon
  <2> QED
    BY <1>5, <2>1, <2>2 DEF poll_nothing
<1>6. ASSUME optics_epoch_inc_at
      PROVE  TypeOK' /\ ValueInv'
  <2>1. PICK r \in Regions : Flips(r)
    BY <1>6, FlipOutcome
  <2>2. epoch_last_inc' \in [Regions -> Nat]
    BY <2>1 DEF Flips
  <2>3. steady' \in BOOLEAN
    BY <2>1 DEF Flips
  <2> QED
    BY <2>1, <2>2, <2>3 DEF Flips, Phases
<1>7. ASSUME nap
      PROVE  TypeOK' /\ ValueInv'
  <2>1. list[1] \in Item
    BY <1>7 DEF nap, ListInv
  <2>2. Elapsed(list[1]) \in Nat /\ list[1].region \in Regions
    BY <2>1, ElapsedPositive DEF Item
  <2> QED
    BY <1>7, <2>2 DEF nap, Visit, Phases
<1>8. ASSUME NEW k \in Keys, NEW busy \in BOOLEAN, poller_poll_lens(k, busy)
      PROVE  TypeOK' /\ ValueInv'
  <2>1. PICK l \in Lenses, v \in Value, m \in Value, d \in Nat : Reads(k, l, v, m, d)
    BY <1>8, ReadOutcome
  <2>2. values' \in [Keys -> Value \cup {None}] /\ lost' \in [Keys -> Nat]
    BY <2>1 DEF Reads
  <2>3. met' \in [Keys -> SUBSET Regions]
    <3>1. list[at].region \in Regions
      <4>1. list[at] \in Item
        BY <2>1 DEF Reads
      <4> QED
        BY <4>1 DEF Item
    <3> QED
      BY <2>1, <3>1 DEF Reads
  <2> QED
    BY <2>1, <2>2, <2>3 DEF Reads
<1>9. ASSUME foreach_end
      PROVE  TypeOK' /\ ValueInv'
  <2>1. CASE at < Len(list)
    <3>1. list[at + 1] \in Item
      BY <2>1
    <3>2. Elapsed(list[at + 1]) \in Nat /\ list[at + 1].region \in Regions
      BY <3>1, ElapsedPositive DEF Item
    <3>3. covered' = [covered EXCEPT ![list[at + 1].region] = @ + Elapsed(list[at + 1])]
          /\ at' = at + 1 /\ todo' \subseteq Keys /\ ppc' = ppc
      BY <1>9, <2>1 DEF foreach_end, Visit
    <3>4. covered' \in [Regions -> Nat] /\ at' \in Nat
      BY <3>2, <3>3
    <3> QED
      BY <1>9, <3>3, <3>4 DEF foreach_end
  <2>2. CASE ~(at < Len(list))
    BY <1>9, <2>2 DEF foreach_end, Phases
  <2> QED
    BY <2>1, <2>2
<1>10. ASSUME NEW k \in Keys, poller_backend_record(k)
       PROVE  TypeOK' /\ ValueInv'
  <2>1. /\ heard[k] \in Nat /\ Len(backends) \in Nat /\ heard[k] < Len(backends)
        /\ MaxBackends \in Nat /\ Len(backends) <= MaxBackends
    BY <1>10, BoundsAssumption DEF poller_backend_record, Loop
  <2>2. heard[k] + 1 \in 1 .. MaxBackends
    BY <2>1
  <2>3. told' = [told EXCEPT ![heard[k] + 1][k] = @ + Untold(heard[k] + 1, k)]
    BY <1>10 DEF poller_backend_record
  <2>4. Untold(heard[k] + 1, k) \in Nat
    BY UntoldNat
  <2>5. told' \in [1 .. MaxBackends -> [Keys -> Nat]]
    <3> DEFINE h == heard[k] + 1
               u == Untold(h, k)
    <3>1. told' = [told EXCEPT ![h][k] = @ + u]
      BY <2>3
    <3>2. h \in 1 .. MaxBackends /\ u \in Nat
      BY <2>2, <2>4
    <3>3. told \in [1 .. MaxBackends -> [Keys -> Nat]] /\ told[h][k] \in Nat
      BY <3>2
    <3> HIDE DEF h, u, TypeOK, ValueInv
    <3>4. told[h][k] + u \in Nat
      BY <3>2, <3>3
    <3> QED
      BY <3>1, <3>2, <3>3, <3>4
  <2>6. heard' \in [Keys -> Nat]
    <3>1. heard' = [heard EXCEPT ![k] = @ + 1]
      BY <1>10 DEF poller_backend_record
    <3> QED
      BY <3>1
  <2> QED
    BY <1>10, <2>5, <2>6 DEF poller_backend_record
<1>11. ASSUME poll_done
       PROVE  TypeOK' /\ ValueInv'
  <2>1. list' = <<>> /\ list' \in Seq(Item)
    BY <1>11 DEF poll_done, Returned
  <2> QED
    BY <1>11, <2>1 DEF poll_done, Returned, Phases, NoneMet
<1>12. ASSUME stop_requested
       PROVE  TypeOK' /\ ValueInv'
  BY <1>12 DEF stop_requested
<1>13. ASSUME thread_cancelled
       PROVE  TypeOK' /\ ValueInv'
  <2>1. missed' \in [1 .. MaxBackends -> [Keys -> Nat]]
    <3>0. /\ \A i \in 1 .. MaxBackends, k \in Keys : missed[i][k] \in Nat
          /\ \A i, k : k \in Keys => Untold(i, k) \in Nat
      BY UntoldNat
    <3>1. \A i \in 1 .. MaxBackends, k \in Keys : missed[i][k] + Untold(i, k) \in Nat
      BY <3>0
    <3>2. missed' = [i \in 1 .. MaxBackends |-> [k \in Keys |-> missed[i][k] + Untold(i, k)]]
      BY <1>13 DEF thread_cancelled
    <3> QED
      BY <3>1, <3>2
  <2> QED
    BY <1>13, <2>1 DEF thread_cancelled, Phases, NoneMet
<1>14. ASSUME UNCHANGED vars
       PROVE  TypeOK' /\ ValueInv'
  BY <1>14 DEF vars
<1>15. ASSUME NEW k \in Keys, poll_freed(k)
       PROVE  TypeOK' /\ ValueInv'
  <2>1. values' \in [Keys -> Value \cup {None}] /\ heard' \in [Keys -> Nat]
    BY <1>15 DEF poll_freed
  <2> QED
    BY <1>15, <2>1 DEF poll_freed
<1> QED
  BY <1>1, <1>2, <1>3, <1>4, <1>5, <1>6, <1>7, <1>8, <1>9, <1>10,
     <1>11, <1>12, <1>13, <1>14, <1>15
     DEF Next, PollStep

\* ... the list and the loops over it,
LEMMA ListStep ==
    ASSUME TypeOK, ValueInv, ListInv, [Next]_vars
    PROVE  ListInv'
<1> USE DEF regionVars, pollVars, driverVars, history, TypeOK, ListInv, LensOf
<1>1. ASSUME NEW r \in Regions, NEW k \in Keys, record(r, k)
      PROVE  ListInv'
  BY <1>1 DEF record
<1>2. ASSUME optics_poller_backend
      PROVE  ListInv'
  <2>1. list' = list /\ list = <<>> /\ at' # 0 /\ ppc' \in {"setup", "sleep"}
    BY <1>2 DEF optics_poller_backend, ValueInv
  <2> QED
    BY <2>1
<1>3. ASSUME NEW now \in Times, NEW entries \in {{}, Regions}, poll_at(now, entries)
      PROVE  ListInv'
  BY <1>3, BoundsAssumption DEF poll_at
<1>4. ASSUME NEW r \in Regions, NEW opens \in BOOLEAN, poller_shm_cb(r, opens)
      PROVE  ListInv'
  <2>1. Lists(r)
    BY <1>4, ListOutcome
  <2>2. CASE list' = list /\ dir' = dir \ {r}
    BY <2>1, <2>2 DEF Lists
  <2>3. CASE /\ list' = Append(list, [region |-> r, last_poll |-> 0, epoch |-> 0])
             /\ \/ dir' = {}
                \/ dir' = dir \ {r} /\ Len(list') < MaxOptics
    <3>1. ppc = "list" /\ r \in dir /\ Len(list) < MaxOptics
      BY <2>1 DEF Lists
    <3>2. /\ Len(list) \in Nat /\ Len(list') = Len(list) + 1 /\ list' # <<>>
          /\ list'[Len(list) + 1].region = r
          /\ \A i \in 1 .. Len(list) : list'[i] = list[i]
      <4> DEFINE item == [region |-> r, last_poll |-> 0, epoch |-> 0]
      <4>1. item.region = r /\ list' = Append(list, item) /\ list \in Seq(Item)
        BY <2>3
      <4> HIDE DEF item, TypeOK, ListInv
      <4>2. /\ Len(list) \in Nat /\ Len(list') = Len(list) + 1 /\ list' # <<>>
            /\ list'[Len(list) + 1] = item
            /\ \A i \in 1 .. Len(list) : list'[i] = list[i]
        BY <4>1
      <4> QED
        BY <4>1, <4>2
    <3>3. \A i \in 1 .. Len(list) : list[i].region \notin dir
      BY <3>1
    <3>4. \A i, j \in 1 .. Len(list') : i # j => list'[i].region # list'[j].region
      <4>1. \A i \in 1 .. Len(list') : i \in 1 .. Len(list) \/ i = Len(list) + 1
        BY <3>2
      <4>2. \A i \in 1 .. Len(list) : list[i].region # r
        BY <3>1, <3>3
      <4>3. \A i, j \in 1 .. Len(list) : i # j => list[i].region # list[j].region
        OBVIOUS
      <4> HIDE DEF TypeOK, ListInv
      <4> QED
        BY <3>2, <4>1, <4>2, <4>3
    <3>5. \A i \in 1 .. Len(list') : list'[i].region \notin dir'
      BY <2>3, <3>2, <3>3
    <3>6. Len(list') <= MaxOptics
      BY <3>1, <3>2, BoundsAssumption
    <3>7. at' = 1 /\ ppc' = IF dir' = {} THEN "flip" ELSE "list"
      BY <2>1, <3>2 DEF Lists
    <3>8. dir' # {} => Len(list') < MaxOptics
      BY <2>3
    <3> HIDE DEF TypeOK
    <3> QED
      BY <3>2, <3>4, <3>5, <3>6, <3>7, <3>8
  <2> QED
    BY <2>1, <2>2, <2>3 DEF Lists
<1>5. ASSUME poll_nothing
      PROVE  ListInv'
  BY <1>5 DEF poll_nothing, Returned
<1>6. ASSUME optics_epoch_inc_at
      PROVE  ListInv'
  <2>1. PICK r \in Regions : Flips(r)
    BY <1>6, FlipOutcome
  <2>2. Len(list) \in Nat /\ Len(list') = Len(list)
    BY <2>1 DEF Flips
  <2>3. \A i, j \in 1 .. Len(list') : i # j => list'[i].region # list'[j].region
    BY <2>1, <2>2 DEF Flips
  <2> QED
    BY <2>1, <2>2, <2>3 DEF Flips
<1>7. ASSUME nap
      PROVE  ListInv'
  BY <1>7 DEF nap, Visit
<1>8. ASSUME NEW k \in Keys, NEW busy \in BOOLEAN, poller_poll_lens(k, busy)
      PROVE  ListInv'
  <2>1. PICK l \in Lenses, v \in Value, m \in Value, d \in Nat : Reads(k, l, v, m, d)
    BY <1>8, ReadOutcome
  <2> QED
    BY <2>1 DEF Reads
<1>9. ASSUME foreach_end
      PROVE  ListInv'
  BY <1>9 DEF foreach_end, Visit
<1>10. ASSUME NEW k \in Keys, poller_backend_record(k)
       PROVE  ListInv'
  BY <1>10 DEF poller_backend_record
<1>11. ASSUME poll_done
       PROVE  ListInv'
  <2>1. list' = <<>> /\ ppc' \in {"sleep", "ended"}
    BY <1>11 DEF poll_done, Returned
  <2> QED
    BY <2>1, BoundsAssumption
<1>12. ASSUME stop_requested
       PROVE  ListInv'
  BY <1>12 DEF stop_requested
<1>13. ASSUME thread_cancelled
       PROVE  ListInv'
  BY <1>13 DEF thread_cancelled
<1>14. ASSUME UNCHANGED vars
       PROVE  ListInv'
  BY <1>14 DEF vars
<1>15. ASSUME NEW k \in Keys, poll_freed(k)
       PROVE  ListInv'
  BY <1>15 DEF poll_freed
<1> QED
  BY <1>1, <1>2, <1>3, <1>4, <1>5, <1>6, <1>7, <1>8, <1>9, <1>10,
     <1>11, <1>12, <1>13, <1>14, <1>15
     DEF Next, PollStep

\* ... the table of a poll,
LEMMA TableStep ==
    ASSUME TypeOK, ValueInv, ListInv, TableInv, [Next]_vars
    PROVE  TableInv'
<1> USE DEF regionVars, pollVars, driverVars, history, TypeOK, TableInv
<1>1. ASSUME NEW r \in Regions, NEW k \in Keys, record(r, k)
      PROVE  TableInv'
  <2>1. UNCHANGED <<list, at, todo, lens, values, heard, met, ppc>>
    BY <1>1 DEF record
  <2> QED
    BY <2>1
<1>2. ASSUME optics_poller_backend
      PROVE  TableInv'
  BY <1>2 DEF optics_poller_backend, HasRoom
<1>3. ASSUME NEW now \in Times, NEW entries \in {{}, Regions}, poll_at(now, entries)
      PROVE  TableInv'
  BY <1>3 DEF poll_at
<1>4. ASSUME NEW r \in Regions, NEW opens \in BOOLEAN, poller_shm_cb(r, opens)
      PROVE  TableInv'
  <2>1. Lists(r)
    BY <1>4, ListOutcome
  <2> QED
    BY <2>1 DEF Lists
<1>5. ASSUME poll_nothing
      PROVE  TableInv'
  BY <1>5 DEF poll_nothing, Returned
<1>6. ASSUME optics_epoch_inc_at
      PROVE  TableInv'
  <2>1. PICK r \in Regions : Flips(r)
    BY <1>6, FlipOutcome
  <2> QED
    BY <2>1 DEF Flips
<1>7. ASSUME nap
      PROVE  TableInv'
  <2>1. ppc = "nap" /\ ppc' = "read" /\ UNCHANGED <<values, heard, met>>
    BY <1>7 DEF nap, Visit
  <2>2. \A x \in Keys : values'[x] = None /\ met'[x] = {} /\ heard'[x] = 0
    BY <2>1
  <2> QED
    BY <2>1, <2>2
<1>8. ASSUME NEW k \in Keys, NEW busy \in BOOLEAN, poller_poll_lens(k, busy)
      PROVE  TableInv'
  <2>1. PICK l \in Lenses, v \in Value, m \in Value, d \in Nat : Reads(k, l, v, m, d)
    BY <1>8, ReadOutcome
  <2> DEFINE r == list[at].region
             Quantile(q, x, y) == /\ lens[q][x] # None /\ lens[q][x].type = "quantile"
                                  /\ lens[q][x].layout = y
  <2>2. /\ ppc' = "read" /\ ppc = "read" /\ UNCHANGED <<at, list, lens, heard>>
        /\ at \in 1 .. Len(list) /\ k \in todo /\ todo' = todo \ {k}
        /\ l = lens[r][k] /\ l # None
        /\ values'[k] = m /\ m # None /\ met'[k] = met[k] \cup {r}
        /\ \A x \in Keys : x # k => values'[x] = values[x] /\ met'[x] = met[x]
    BY <2>1, ValueFields, LensesAssumption DEF Reads, ValueInv, LensOf
  <2>3. /\ m.type = "quantile" => \/ l.type = "quantile" /\ m.layout = l.layout
                                  \/ values[k] # None /\ m.layout = values[k].layout
        /\ values[k] # None => m.type = values[k].type
    BY <2>1 DEF Reads
  <2>4. m.type = "quantile" => \E q \in met'[k] : Quantile(q, k, m.layout)
    <3>1. CASE l.type = "quantile" /\ m.layout = l.layout
      BY <2>2, <3>1
    <3>2. CASE values[k] # None /\ m.layout = values[k].layout
      BY <2>2, <2>3, <3>2
    <3> QED
      BY <2>3, <3>1, <3>2
  <2>5. \A i \in 1 .. Len(list) : i # at => list[i].region # r
    BY <2>2 DEF ListInv
  <2>6. ASSUME NEW x \in Keys
        PROVE  /\ values'[x] = None => met'[x] = {}
               /\ values'[x] # None /\ values'[x].type = "quantile" =>
                     \E q \in met'[x] : Quantile(q, x, values'[x].layout)
               /\ \A i \in 1 .. Len(list) :
                     i >= at /\ list[i].region \in met'[x] => i = at /\ x \notin todo'
               /\ heard'[x] = 0
    <3>1. CASE x = k
      <4>1. \A i \in 1 .. Len(list) :
                i >= at /\ list[i].region \in met'[k] => i = at /\ k \notin todo'
        BY <2>2, <2>5
      <4> HIDE DEF Quantile
      <4> QED
        BY <2>2, <2>4, <3>1, <4>1
    <3>2. CASE x # k
      BY <2>2, <3>2
    <3> QED
      BY <3>1, <3>2
  <2> HIDE DEF r, TypeOK
  <2> QED
    BY <2>2, <2>6
<1>9. ASSUME foreach_end
      PROVE  TableInv'
  <2>1. /\ ppc = "read" /\ UNCHANGED <<list, lens, values, heard, met>>
        /\ at \in Nat /\ at >= 1
    BY <1>9 DEF foreach_end, ListInv, ValueInv
  <2>2. CASE at < Len(list)
    <3>1. at' = at + 1 /\ ppc' = "read"
      BY <1>9, <2>1, <2>2 DEF foreach_end, Visit
    <3>2. \A x \in Keys : \A i \in 1 .. Len(list) : i >= at + 1 => list[i].region \notin met[x]
      <4>1. \A x \in Keys : \A i \in 1 .. Len(list) : i >= at /\ list[i].region \in met[x] => i = at
        BY <2>1
      <4>2. \A i \in 1 .. Len(list) : i >= at + 1 => i >= at /\ i # at
        BY <2>1
      <4> HIDE DEF TypeOK, TableInv
      <4> QED
        BY <4>1, <4>2
    <3> HIDE DEF TypeOK
    <3> QED
      BY <2>1, <3>1, <3>2
  <2>3. CASE ~(at < Len(list))
    <3>1. ppc' = "record"
      BY <1>9, <2>1, <2>3 DEF foreach_end
    <3> QED
      BY <2>1, <3>1
  <2> QED
    BY <2>2, <2>3
<1>10. ASSUME NEW k \in Keys, poller_backend_record(k)
       PROVE  TableInv'
  <2>1. /\ ppc = "record" /\ ppc' = "record" /\ values' = values /\ values[k] # None
        /\ heard' = [heard EXCEPT ![k] = @ + 1]
    BY <1>10 DEF poller_backend_record
  <2> QED
    BY <2>1
<1>11. ASSUME poll_done
       PROVE  TableInv'
  <2>1. /\ \A x \in Keys : values'[x] = None /\ met'[x] = {} /\ heard'[x] = 0
        /\ ppc' \in {"sleep", "ended"}
    BY <1>11 DEF poll_done, Returned, NoneMet
  <2> QED
    BY <2>1
<1>12. ASSUME stop_requested
       PROVE  TableInv'
  <2>1. UNCHANGED <<list, at, todo, lens, values, heard, met, ppc>>
    BY <1>12 DEF stop_requested
  <2> QED
    BY <2>1
<1>13. ASSUME thread_cancelled
       PROVE  TableInv'
  <2>1. /\ \A x \in Keys : values'[x] = None /\ met'[x] = {} /\ heard'[x] = 0
        /\ ppc' = "ended"
    BY <1>13 DEF thread_cancelled, NoneMet
  <2> QED
    BY <2>1
<1>14. ASSUME UNCHANGED vars
       PROVE  TableInv'
  <2>1. UNCHANGED <<list, at, todo, lens, values, heard, met, ppc>>
    BY <1>14 DEF vars
  <2> QED
    BY <2>1
<1>15. ASSUME NEW k \in Keys, poll_freed(k)
       PROVE  TableInv'
  <2>1. /\ ppc = "record" /\ ppc' = "record"
        /\ values' = [values EXCEPT ![k] = None] /\ heard' = [heard EXCEPT ![k] = 0]
    BY <1>15 DEF poll_freed
  <2> QED
    BY <2>1
<1> QED
  BY <1>1, <1>2, <1>3, <1>4, <1>5, <1>6, <1>7, <1>8, <1>9, <1>10,
     <1>11, <1>12, <1>13, <1>14, <1>15
     DEF Next, PollStep

\* ... the elapsed times of the values,
LEMMA ElapsedStep ==
    ASSUME TypeOK, ValueInv, ListInv, TableInv, ElapsedSound, [Next]_vars
    PROVE  ElapsedSound'
<1> USE DEF regionVars, pollVars, driverVars, history, ElapsedSound
<1>1. ASSUME NEW r \in Regions, NEW k \in Keys, record(r, k)
      PROVE  ElapsedSound'
  <2>1. UNCHANGED <<list, met, values, ppc, ts>>
    BY <1>1 DEF record
  <2> QED
    BY <2>1 DEF Elapsed
<1>2. ASSUME optics_poller_backend
      PROVE  ElapsedSound'
  BY <1>2 DEF optics_poller_backend, HasRoom
<1>3. ASSUME NEW now \in Times, NEW entries \in {{}, Regions}, poll_at(now, entries)
      PROVE  ElapsedSound'
  BY <1>3 DEF poll_at
<1>4. ASSUME NEW r \in Regions, NEW opens \in BOOLEAN, poller_shm_cb(r, opens)
      PROVE  ElapsedSound'
  <2>1. Lists(r)
    BY <1>4, ListOutcome
  <2> QED
    BY <2>1 DEF Lists
<1>5. ASSUME poll_nothing
      PROVE  ElapsedSound'
  BY <1>5 DEF poll_nothing, Returned
<1>6. ASSUME optics_epoch_inc_at
      PROVE  ElapsedSound'
  <2>1. PICK r \in Regions : Flips(r)
    BY <1>6, FlipOutcome
  <2> QED
    BY <2>1 DEF Flips
<1>7. ASSUME nap
      PROVE  ElapsedSound'
  <2>1. \A x \in Keys : values'[x] = None
    BY <1>7 DEF nap, TableInv
  <2> QED
    BY <2>1
<1>8. ASSUME NEW k \in Keys, NEW busy \in BOOLEAN, poller_poll_lens(k, busy)
      PROVE  ElapsedSound'
  <2>1. PICK l \in Lenses, v \in Value, m \in Value, d \in Nat : Reads(k, l, v, m, d)
    BY <1>8, ReadOutcome
  <2>2. /\ ppc = "read" /\ at \in 1 .. Len(list) /\ UNCHANGED <<list, ts>>
        /\ values' = [values EXCEPT ![k] = m]
        /\ values \in [Keys -> Value \cup {None}]
        /\ \A i \in 1 .. Len(list) : list[i] \in Item
    BY <2>1 DEF Reads, TypeOK
  <2>3. \A i \in 1 .. Len(list) : Elapsed(list[i]) \in Nat /\ Elapsed(list[i]) > 0
    BY <2>2, ElapsedPositive DEF ValueInv
  <2>4. /\ m.elapsed >= Elapsed(list[at]) /\ m.elapsed \in Nat
        /\ values[k] # None => m.elapsed >= values[k].elapsed /\ values[k].elapsed \in Nat
    <3>1. m.elapsed \in Nat /\ (values[k] # None => values[k].elapsed \in Nat)
      BY <2>2, ValueFields
    <3> QED
      BY <2>1, <3>1 DEF Reads
  <2>5. /\ met'[k] = met[k] \cup {list[at].region}
        /\ \A x \in Keys : x # k => met'[x] = met[x]
    BY <2>1 DEF Reads, ValueInv
  <2>6. \A i \in 1 .. Len(list) : i # at => list[i].region # list[at].region
    BY <2>2 DEF ListInv
  <2>7. \A i \in 1 .. Len(list) : list[i].region \in met[k] => m.elapsed >= Elapsed(list[i])
    <3>1. CASE values[k] = None
      BY <2>2, <3>1 DEF TableInv
    <3>2. CASE values[k] # None
      <4>1. \A i \in 1 .. Len(list) :
                list[i].region \in met[k] => values[k].elapsed >= Elapsed(list[i])
        BY <2>2, <3>2
      <4> HIDE DEF ElapsedSound
      <4> QED
        BY <2>3, <2>4, <3>2, <4>1
    <3> QED
      BY <3>1, <3>2
  <2>8. /\ m.elapsed > 0
        /\ \A i \in 1 .. Len(list) : list[i].region \in met'[k] => m.elapsed >= Elapsed(list[i])
    <3>1. m.elapsed > 0
      BY <2>2, <2>3, <2>4
    <3>2. \A i \in 1 .. Len(list) :
              list[i].region \in met'[k] => i = at \/ list[i].region \in met[k]
      BY <2>5, <2>6
    <3> HIDE DEF ElapsedSound
    <3> QED
      BY <2>4, <2>7, <3>1, <3>2
  <2> SUFFICES ASSUME NEW x \in Keys, values'[x] # None
               PROVE  /\ values'[x].elapsed > 0
                      /\ \A i \in 1 .. Len(list) : list[i].region \in met'[x]
                            => values'[x].elapsed >= Elapsed(list[i])
    BY <2>2 DEF Elapsed
  <2>9. CASE x = k
    BY <2>2, <2>8, <2>9
  <2>10. CASE x # k
    <3>1. values'[x] = values[x] /\ met'[x] = met[x]
      BY <2>2, <2>5, <2>10
    <3> QED
      BY <2>2, <3>1
  <2> QED
    BY <2>9, <2>10
<1>9. ASSUME foreach_end
      PROVE  ElapsedSound'
  <2>1. ppc = "read" /\ UNCHANGED <<list, met, values, ts>>
    BY <1>9 DEF foreach_end
  <2> QED
    BY <2>1 DEF Elapsed
<1>10. ASSUME NEW k \in Keys, poller_backend_record(k)
       PROVE  ElapsedSound'
  <2>1. ppc = "record" /\ UNCHANGED <<list, met, values, ts>>
    BY <1>10 DEF poller_backend_record
  <2> QED
    BY <2>1 DEF Elapsed
<1>11. ASSUME poll_done
       PROVE  ElapsedSound'
  BY <1>11 DEF poll_done, Returned
<1>12. ASSUME stop_requested
       PROVE  ElapsedSound'
  <2>1. UNCHANGED <<list, met, values, ppc, ts>>
    BY <1>12 DEF stop_requested
  <2> QED
    BY <2>1 DEF Elapsed
<1>13. ASSUME thread_cancelled
       PROVE  ElapsedSound'
  BY <1>13 DEF thread_cancelled
<1>14. ASSUME UNCHANGED vars
       PROVE  ElapsedSound'
  <2>1. UNCHANGED <<list, met, values, ppc, ts>>
    BY <1>14 DEF vars
  <2> QED
    BY <2>1 DEF Elapsed
<1>15. ASSUME NEW k \in Keys, poll_freed(k)
       PROVE  ElapsedSound'
  <2>1. /\ ppc = "record" /\ UNCHANGED <<list, ts, met>>
        /\ \A x \in Keys : values'[x] = None \/ values'[x] = values[x]
    BY <1>15 DEF poll_freed, TypeOK
  <2> QED
    BY <2>1 DEF Elapsed
<1> QED
  BY <1>1, <1>2, <1>3, <1>4, <1>5, <1>6, <1>7, <1>8, <1>9, <1>10,
     <1>11, <1>12, <1>13, <1>14, <1>15
     DEF Next, PollStep

\* Steps that drop no event, and after which an ended poller stays so.
LEMMA LossKept ==
    ASSUME LossExplained, UNCHANGED <<lens, lost, missed, driver>>,
           ppc = "ended" => ppc' = "ended"
    PROVE  LossExplained'
BY DEF LossExplained

\* ... what was lost,
LEMMA LossStep ==
    ASSUME TypeOK, ValueInv, ListInv, TableInv, LossExplained, [Next]_vars
    PROVE  LossExplained'
<1> USE DEF regionVars, pollVars, driverVars, history
<1>1. ASSUME NEW r \in Regions, NEW k \in Keys, record(r, k)
      PROVE  LossExplained'
  BY <1>1, LossKept DEF record
<1>2. ASSUME optics_poller_backend
      PROVE  LossExplained'
  BY <1>2, LossKept DEF optics_poller_backend
<1>3. ASSUME NEW now \in Times, NEW entries \in {{}, Regions}, poll_at(now, entries)
      PROVE  LossExplained'
  BY <1>3, LossKept DEF poll_at
<1>4. ASSUME NEW r \in Regions, NEW opens \in BOOLEAN, poller_shm_cb(r, opens)
      PROVE  LossExplained'
  <2>1. Lists(r)
    BY <1>4, ListOutcome
  <2> QED
    BY <2>1, LossKept DEF Lists
<1>5. ASSUME poll_nothing
      PROVE  LossExplained'
  BY <1>5, LossKept DEF poll_nothing, Returned
<1>6. ASSUME optics_epoch_inc_at
      PROVE  LossExplained'
  <2>1. PICK r \in Regions : Flips(r)
    BY <1>6, FlipOutcome
  <2> QED
    BY <2>1, LossKept DEF Flips
<1>7. ASSUME nap
      PROVE  LossExplained'
  BY <1>7, LossKept DEF nap, Visit
<1>8. ASSUME NEW k \in Keys, NEW busy \in BOOLEAN, poller_poll_lens(k, busy)
      PROVE  LossExplained'
  <2>1. PICK l \in Lenses, v \in Value, m \in Value, d \in Nat : Reads(k, l, v, m, d)
    BY <1>8, ReadOutcome
  <2>2. /\ UNCHANGED <<lens, missed, driver>> /\ ppc' = ppc
        /\ lost' = [lost EXCEPT ![k] = @ + d] /\ lost \in [Keys -> Nat]
    BY <2>1 DEF Reads, ValueInv
  <2>3. CASE d = 0
    <3>1. lost' = lost
      BY <2>2, <2>3
    <3> QED
      BY <2>2, <3>1, LossKept
  <2>4. CASE d > 0
    <3> DEFINE r == list[at].region
    <3>1. /\ ppc = "read" /\ at \in 1 .. Len(list)
          /\ l = lens[r][k] /\ l # None /\ l.type = "quantile" /\ k \in todo
          /\ values[k] # None /\ values[k].type = "quantile"
          /\ values[k].layout = 0 \/ values[k].layout # l.layout
      BY <2>1, <2>4, LensesAssumption DEF Reads, LensOf
    <3>2. PICK q \in met[k] : /\ lens[q][k] # None /\ lens[q][k].type = "quantile"
                              /\ lens[q][k].layout = values[k].layout
      BY <3>1 DEF TableInv
    <3>3. list[at] \in Item
      BY <3>1 DEF TypeOK
    <3>4. q \in Regions /\ r \in Regions /\ q # r
      <4>1. r \in Regions
        BY <3>3 DEF Item
      <4>2. r \notin met[k]
        BY <3>1 DEF TableInv, TypeOK
      <4> QED
        BY <3>2, <4>1, <4>2 DEF ValueInv
    <3>5. /\ lens[q][k] # None /\ lens[q][k].type = "quantile"
          /\ lens[r][k] # None /\ lens[r][k].type = "quantile"
          /\ lens[q][k].layout = 0 \/ lens[q][k].layout # lens[r][k].layout
      BY <3>1, <3>2
    <3>6. \A x \in {q, r} : /\ lens'[x][k] # None
                            /\ lens'[x][k].type = "quantile"
                            /\ lens'[q][k].layout # lens'[r][k].layout \/ lens'[x][k].layout = 0
      BY <2>2, <3>5
    <3> HIDE DEF r
    <3>7. \A x \in Keys : x # k => lost'[x] = lost[x]
      BY <2>2
    <3>8. \E a, b \in Regions : a # b /\ \A x \in {a, b} :
              /\ lens'[x][k] # None
              /\ lens'[x][k].type = "quantile"
              /\ lens'[a][k].layout # lens'[b][k].layout \/ lens'[x][k].layout = 0
      BY <3>4, <3>6
    <3> QED
      BY <2>2, <3>7, <3>8 DEF LossExplained
  <2> QED
    BY <2>3, <2>4
<1>9. ASSUME foreach_end
      PROVE  LossExplained'
  BY <1>9, LossKept DEF foreach_end, Visit
<1>10. ASSUME NEW k \in Keys, poller_backend_record(k)
       PROVE  LossExplained'
  BY <1>10, LossKept DEF poller_backend_record
<1>11. ASSUME poll_done
       PROVE  LossExplained'
  BY <1>11, LossKept DEF poll_done, Returned
<1>12. ASSUME stop_requested
       PROVE  LossExplained'
  BY <1>12, LossKept DEF stop_requested
<1>13. ASSUME thread_cancelled
       PROVE  LossExplained'
  <2>1. /\ UNCHANGED <<lens, lost>> /\ ppc # "ended" /\ ppc' = "ended" /\ driver' = "thread"
        /\ missed' = [i \in 1 .. MaxBackends |-> [k \in Keys |-> missed[i][k] + Untold(i, k)]]
    BY <1>13 DEF thread_cancelled, Cancelled
  <2>2. \A i \in 1 .. MaxBackends, k \in Keys : missed[i][k] = 0
    <3> SUFFICES ASSUME NEW i \in 1 .. MaxBackends, NEW k \in Keys PROVE missed[i][k] = 0
      OBVIOUS
    <3>1. missed[i][k] \in Nat
      BY DEF ValueInv
    <3>2. ~(missed[i][k] > 0)
      BY <2>1 DEF LossExplained
    <3> QED
      BY <3>1, <3>2
  <2>3. \A i, k : k \in Keys => Untold(i, k) \in Nat
    BY UntoldNat
  <2>4. \A i \in 1 .. MaxBackends, k \in Keys : missed'[i][k] = Untold(i, k)
    BY <2>1, <2>2, <2>3
  <2>5. ASSUME NEW k \in Keys, NEW i \in 1 .. MaxBackends, NEW j \in i .. MaxBackends,
               missed'[i][k] > 0
        PROVE  missed'[j][k] >= missed'[i][k]
    <3>1. j \in 1 .. MaxBackends /\ j >= i
      BY BoundsAssumption
    <3>2. missed'[i][k] = Untold(i, k) /\ missed'[j][k] = Untold(j, k)
      BY <2>4, <3>1
    <3>3. Untold(i, k) # 0
      BY <2>5, <3>2
    <3>4. ~(values[k] = None \/ heard[k] >= i \/ values[k].type = "gauge") /\ heard[k] \in Nat
      BY <3>3 DEF Untold, TypeOK
    <3>5. ~(heard[k] >= j)
      BY <3>1, <3>4
    <3>6. Untold(j, k) = Untold(i, k)
      BY <3>4, <3>5 DEF Untold
    <3> QED
      BY <2>3, <3>2, <3>6
  <2> QED
    BY <2>1, <2>5 DEF LossExplained
<1>14. ASSUME UNCHANGED vars
       PROVE  LossExplained'
  BY <1>14, LossKept DEF vars
<1>15. ASSUME NEW k \in Keys, poll_freed(k)
       PROVE  LossExplained'
  BY <1>15, LossKept DEF poll_freed
<1> QED
  BY <1>1, <1>2, <1>3, <1>4, <1>5, <1>6, <1>7, <1>8, <1>9, <1>10,
     <1>11, <1>12, <1>13, <1>14, <1>15
     DEF Next, PollStep

\* To read an item adds its window to what is covered of its region.
LEMMA WindowRead ==
    ASSUME TypeOK, ValueInv, ListInv, TileInv, NEW i \in Pending, Visit(i),
           ppc \notin {"ended", "aborted"}, Pending' = Pending \ {i},
           UNCHANGED <<list, ts, epoch_last_inc, steady>>
    PROVE  TileInv'
<1> SUFFICES ASSUME steady
             PROVE  /\ \A j \in Pending \ {i} :
                          /\ epoch_last_inc[list[j].region] = ts /\ ts > list[j].last_poll
                          /\ covered'[list[j].region] = list[j].last_poll - Created[list[j].region]
                    /\ \A x \in Regions : (\A j \in Pending \ {i} : list[j].region # x) =>
                          covered'[x] = epoch_last_inc[x] - Created[x]
  BY DEF TileInv
<1> DEFINE r == list[i].region
<1>1. /\ \A j \in Pending :
            /\ epoch_last_inc[list[j].region] = ts /\ ts > list[j].last_poll
            /\ covered[list[j].region] = list[j].last_poll - Created[list[j].region]
      /\ \A x \in Regions : (\A j \in Pending : list[j].region # x) =>
            covered[x] = epoch_last_inc[x] - Created[x]
  BY DEF TileInv
<1>2. \A j \in Pending : j # i => list[j].region # r
  BY DEF Pending, ListInv
<1>3. list[i] \in Item /\ r \in Regions /\ list[i].last_poll \in Nat
  <2>1. list[i] \in Item
    BY DEF Pending, TypeOK
  <2> QED
    BY <2>1 DEF Item
<1>4. covered'[r] = epoch_last_inc[r] - Created[r]
  <2>1. covered'[r] = covered[r] + Elapsed(list[i])
    BY <1>3 DEF Visit, ValueInv
  <2>2. /\ Elapsed(list[i]) = ts - list[i].last_poll /\ epoch_last_inc[r] = ts
        /\ covered[r] = list[i].last_poll - Created[r]
    BY <1>1 DEF Elapsed
  <2>3. Created[r] \in Nat /\ ts \in Nat
    BY <1>3, TimesAssumption DEF ValueInv
  <2> QED
    BY <1>3, <2>1, <2>2, <2>3
<1>5. \A x \in Regions : x # r => covered'[x] = covered[x]
  BY <1>3 DEF Visit, ValueInv
<1>6. \A j \in Pending : list[j].region \in Regions
  <2>1. \A j \in Pending : list[j] \in Item
    BY DEF Pending, TypeOK
  <2> QED
    BY <2>1 DEF Item
<1> HIDE DEF r
<1>7. ASSUME NEW j \in Pending \ {i}
      PROVE  /\ epoch_last_inc[list[j].region] = ts /\ ts > list[j].last_poll
             /\ covered'[list[j].region] = list[j].last_poll - Created[list[j].region]
  BY <1>1, <1>2, <1>5, <1>6, <1>7
<1>8. ASSUME NEW x \in Regions, \A j \in Pending \ {i} : list[j].region # x
      PROVE  covered'[x] = epoch_last_inc[x] - Created[x]
  <2>1. CASE x = r
    BY <1>4, <2>1
  <2>2. CASE x # r
    <3>1. \A j \in Pending : list[j].region # x
      BY <1>8, <2>2 DEF r
    <3> QED
      BY <1>1, <1>5, <2>2, <3>1
  <2> QED
    BY <2>1, <2>2
<1> QED
  BY <1>7, <1>8

\* A step that changes neither what is pending nor what is covered.
LEMMA WindowKept ==
    ASSUME TileInv, ppc \notin {"ended", "aborted"}, Pending' = Pending,
           \A i \in Pending : list'[i] = list[i],
           Pending # {} => ts' = ts,
           UNCHANGED <<epoch_last_inc, covered, steady>>
    PROVE  TileInv'
<1> SUFFICES ASSUME steady
             PROVE  /\ \A i \in Pending :
                          /\ epoch_last_inc[list'[i].region] = ts' /\ ts' > list'[i].last_poll
                          /\ covered[list'[i].region] = list'[i].last_poll - Created[list'[i].region]
                    /\ \A r \in Regions : (\A i \in Pending : list'[i].region # r) =>
                          covered[r] = epoch_last_inc[r] - Created[r]
  BY DEF TileInv
<1>1. /\ \A i \in Pending :
            /\ epoch_last_inc[list[i].region] = ts /\ ts > list[i].last_poll
            /\ covered[list[i].region] = list[i].last_poll - Created[list[i].region]
      /\ \A r \in Regions : (\A i \in Pending : list[i].region # r) =>
            covered[r] = epoch_last_inc[r] - Created[r]
  BY DEF TileInv
<1> QED
  BY <1>1

\* ... and what the windows cover.
LEMMA TileStep ==
    ASSUME TypeOK, ValueInv, ListInv, TileInv, [Next]_vars
    PROVE  TileInv'
<1> USE DEF regionVars, pollVars, driverVars, history
<1>1. ASSUME NEW r \in Regions, NEW k \in Keys, record(r, k)
      PROVE  TileInv'
  <2>1. Pending' = Pending /\ UNCHANGED <<list, ts, epoch_last_inc, covered, steady, ppc>>
    BY <1>1 DEF record, Pending
  <2>2. CASE ppc \in {"ended", "aborted"}
    BY <2>1, <2>2 DEF TileInv
  <2>3. CASE ppc \notin {"ended", "aborted"}
    BY <2>1, <2>3, WindowKept
  <2> QED
    BY <2>2, <2>3
<1>2. ASSUME optics_poller_backend
      PROVE  TileInv'
  <2>1. Pending = {} /\ Pending' = {} /\ ppc \notin {"ended", "aborted"}
    BY <1>2 DEF optics_poller_backend, Pending
  <2>2. UNCHANGED <<epoch_last_inc, covered, steady>>
    BY <1>2 DEF optics_poller_backend
  <2> QED
    BY <2>1, <2>2, WindowKept
<1>3. ASSUME NEW now \in Times, NEW entries \in {{}, Regions}, poll_at(now, entries)
      PROVE  TileInv'
  <2>1. Pending = {} /\ Pending' = {} /\ ppc \notin {"ended", "aborted"}
    BY <1>3 DEF poll_at, Pending
  <2>2. UNCHANGED <<epoch_last_inc, covered, steady>>
    BY <1>3 DEF poll_at
  <2> QED
    BY <2>1, <2>2, WindowKept
<1>4. ASSUME NEW r \in Regions, NEW opens \in BOOLEAN, poller_shm_cb(r, opens)
      PROVE  TileInv'
  <2>1. Lists(r)
    BY <1>4, ListOutcome
  <2>2. Pending = {} /\ Pending' = {} /\ ppc \notin {"ended", "aborted"}
    <3>1. ppc = "list" /\ (ppc' = "list" \/ (ppc' = "flip" /\ at' = 1))
      BY <2>1 DEF Lists
    <3> QED
      BY <3>1 DEF Pending
  <2>3. UNCHANGED <<epoch_last_inc, covered, steady>>
    BY <2>1 DEF Lists
  <2> QED
    BY <2>2, <2>3, WindowKept
<1>5. ASSUME poll_nothing
      PROVE  TileInv'
  <2>1. Pending = {} /\ Pending' = {} /\ ppc \notin {"ended", "aborted"}
    BY <1>5 DEF poll_nothing, Returned, Pending
  <2>2. UNCHANGED <<epoch_last_inc, covered, steady>>
    BY <1>5 DEF poll_nothing, Returned
  <2> QED
    BY <2>1, <2>2, WindowKept
<1>6. ASSUME optics_epoch_inc_at
      PROVE  TileInv'
  <2>1. PICK r \in Regions : Flips(r)
    BY <1>6, FlipOutcome
  <2>2. /\ at \in 1 .. Len(list) /\ Len(list) \in Nat /\ r = list[at].region
        /\ Len(list') = Len(list) /\ ppc = "flip"
        /\ UNCHANGED <<covered, ts>>
        /\ list'[at].region = r /\ list'[at].last_poll = epoch_last_inc[r]
        /\ epoch_last_inc' = [epoch_last_inc EXCEPT ![r] = ts]
        /\ epoch_last_inc \in [Regions -> Nat]
    BY <2>1 DEF Flips, TypeOK
  <2>3. Pending' = Pending \cup {at}
    BY <2>1, <2>2 DEF Flips, Pending
  <2>4. /\ at \notin Pending
        /\ \A i \in Pending : list'[i] = list[i] /\ list[i].region # r /\ list[i].region \in Regions
    <3>1. \A i \in Pending : i # at /\ i \in 1 .. Len(list) /\ list[i] \in Item
      BY <2>2 DEF Pending, TypeOK
    <3>2. \A i \in Pending : list[i].region \in Regions
      BY <3>1 DEF Item
    <3>3. at \notin Pending /\ \A i \in Pending : list[i].region # r
      BY <2>2, <3>1 DEF ListInv
    <3> QED
      BY <2>1, <3>1, <3>2, <3>3 DEF Flips
  <2> SUFFICES ASSUME steady'
               PROVE  /\ \A i \in Pending' :
                            /\ epoch_last_inc'[list'[i].region] = ts /\ ts > list'[i].last_poll
                            /\ covered[list'[i].region] = list'[i].last_poll - Created[list'[i].region]
                      /\ \A x \in Regions : (\A i \in Pending' : list'[i].region # x) =>
                            covered[x] = epoch_last_inc'[x] - Created[x]
    BY <2>2 DEF TileInv
  <2>5. steady /\ ts > epoch_last_inc[r]
    BY <2>1 DEF Flips
  <2>6. /\ \A i \in Pending :
              /\ epoch_last_inc[list[i].region] = ts /\ ts > list[i].last_poll
              /\ covered[list[i].region] = list[i].last_poll - Created[list[i].region]
        /\ \A x \in Regions : (\A i \in Pending : list[i].region # x) =>
              covered[x] = epoch_last_inc[x] - Created[x]
    BY <2>2, <2>5 DEF TileInv
  <2>7. covered[r] = epoch_last_inc[r] - Created[r]
    BY <2>4, <2>6
  <2>8. epoch_last_inc'[r] = ts /\ \A x \in Regions : x # r => epoch_last_inc'[x] = epoch_last_inc[x]
    BY <2>2
  <2>9. \A i \in Pending' :
            /\ epoch_last_inc'[list'[i].region] = ts /\ ts > list'[i].last_poll
            /\ covered[list'[i].region] = list'[i].last_poll - Created[list'[i].region]
    BY <2>2, <2>3, <2>4, <2>5, <2>6, <2>7, <2>8
  <2>10. ASSUME NEW x \in Regions, \A i \in Pending' : list'[i].region # x
         PROVE  covered[x] = epoch_last_inc'[x] - Created[x]
    BY <2>2, <2>3, <2>4, <2>6, <2>8, <2>10
  <2> QED
    BY <2>9, <2>10
<1>7. ASSUME nap
      PROVE  TileInv'
  <2>1. /\ ppc = "nap" /\ ppc' = "read" /\ at' = 1 /\ Visit(1)
        /\ UNCHANGED <<list, ts, epoch_last_inc, steady>>
    BY <1>7 DEF nap, Visit
  <2>2. Len(list) \in Nat /\ 1 \in 1 .. Len(list)
    BY <2>1 DEF ListInv, TypeOK
  <2>3. 1 \in Pending /\ Pending' = Pending \ {1}
    BY <2>1, <2>2 DEF Pending
  <2> QED
    BY <2>1, <2>3, WindowRead
<1>8. ASSUME NEW k \in Keys, NEW busy \in BOOLEAN, poller_poll_lens(k, busy)
      PROVE  TileInv'
  <2>1. PICK l \in Lenses, v \in Value, m \in Value, d \in Nat : Reads(k, l, v, m, d)
    BY <1>8, ReadOutcome
  <2>2. /\ UNCHANGED <<list, ts, epoch_last_inc, covered, steady>>
        /\ ppc = "read" /\ ppc' = "read" /\ at' = at
    BY <2>1 DEF Reads
  <2>3. Pending' = Pending
    BY <2>2 DEF Pending
  <2> QED
    BY <2>2, <2>3, WindowKept
<1>9. ASSUME foreach_end
      PROVE  TileInv'
  <2>1. /\ ppc = "read" /\ at \in 1 .. Len(list) /\ Len(list) \in Nat
        /\ UNCHANGED <<list, ts, epoch_last_inc, steady>>
    BY <1>9 DEF foreach_end, ListInv, TypeOK
  <2>2. CASE at < Len(list)
    <3>1. at' = at + 1 /\ ppc' = "read" /\ Visit(at + 1)
      BY <1>9, <2>1, <2>2 DEF foreach_end, Visit
    <3>2. at + 1 \in Pending /\ Pending' = Pending \ {at + 1}
      BY <2>1, <2>2, <3>1 DEF Pending
    <3> QED
      BY <2>1, <3>1, <3>2, WindowRead
  <2>3. CASE ~(at < Len(list))
    <3>1. ppc' = "record" /\ UNCHANGED covered
      BY <1>9, <2>1, <2>3 DEF foreach_end
    <3>2. Pending = {} /\ Pending' = {}
      BY <2>1, <2>3, <3>1 DEF Pending
    <3> QED
      BY <2>1, <3>1, <3>2, WindowKept
  <2> QED
    BY <2>2, <2>3
<1>10. ASSUME NEW k \in Keys, poller_backend_record(k)
       PROVE  TileInv'
  <2>1. Pending = {} /\ Pending' = {} /\ ppc \notin {"ended", "aborted"}
    BY <1>10 DEF poller_backend_record, Pending
  <2>2. UNCHANGED <<epoch_last_inc, covered, steady>>
    BY <1>10 DEF poller_backend_record
  <2> QED
    BY <2>1, <2>2, WindowKept
<1>11. ASSUME poll_done
       PROVE  TileInv'
  <2>1. Pending = {} /\ Pending' = {} /\ ppc \notin {"ended", "aborted"}
    BY <1>11 DEF poll_done, Returned, Pending
  <2>2. UNCHANGED <<epoch_last_inc, covered, steady>>
    BY <1>11 DEF poll_done, Returned
  <2> QED
    BY <2>1, <2>2, WindowKept
<1>12. ASSUME stop_requested
       PROVE  TileInv'
  <2>1. Pending' = Pending /\ UNCHANGED <<list, ts, epoch_last_inc, covered, steady, ppc>>
    BY <1>12 DEF stop_requested, Pending
  <2>2. CASE ppc \in {"ended", "aborted"}
    BY <2>1, <2>2 DEF TileInv
  <2>3. CASE ppc \notin {"ended", "aborted"}
    BY <2>1, <2>3, WindowKept
  <2> QED
    BY <2>2, <2>3
<1>13. ASSUME thread_cancelled
       PROVE  TileInv'
  BY <1>13 DEF thread_cancelled, TileInv
<1>14. ASSUME UNCHANGED vars
       PROVE  TileInv'
  <2>1. Pending' = Pending /\ UNCHANGED <<list, ts, epoch_last_inc, covered, steady, ppc>>
    BY <1>14 DEF vars, Pending
  <2>2. CASE ppc \in {"ended", "aborted"}
    BY <2>1, <2>2 DEF TileInv
  <2>3. CASE ppc \notin {"ended", "aborted"}
    BY <2>1, <2>3, WindowKept
  <2> QED
    BY <2>2, <2>3
<1>15. ASSUME NEW k \in Keys, poll_freed(k)
       PROVE  TileInv'
  <2>1. Pending = {} /\ Pending' = {} /\ ppc \notin {"ended", "aborted"}
    BY <1>15 DEF poll_freed, Pending
  <2>2. UNCHANGED <<epoch_last_inc, covered, steady>>
    BY <1>15 DEF poll_freed
  <2> QED
    BY <2>1, <2>2, WindowKept
<1> QED
  BY <1>1, <1>2, <1>3, <1>4, <1>5, <1>6, <1>7, <1>8, <1>9, <1>10,
     <1>11, <1>12, <1>13, <1>14, <1>15
     DEF Next, PollStep

-----------------------------------------------------------------------------
(* The theorems.                                                            *)

\* The invariant holds of every behaviour of the poller, whatever the regions,
\* what they hold, the backends and the clock.
THEOREM Invariant == Spec => []IndInv
<1>1. Init => IndInv
  <2> SUFFICES ASSUME Init PROVE IndInv
    OBVIOUS
  <2>1. TypeOK
    <3>1. lens \in [Regions -> [Keys -> Lenses \cup {None}]]
      BY LensesAssumption DEF Init
    <3>2. slot \in [Regions -> [Epochs -> [Keys -> Nat]]]
      BY DEF Init
    <3>3. epoch \in [Regions -> Epochs] /\ epoch_last_inc \in [Regions -> Nat]
      BY TimesAssumption DEF Init, Epochs
    <3>4. list \in Seq(Item) /\ values \in [Keys -> Value \cup {None}]
      BY DEF Init
    <3> QED
      BY <3>1, <3>2, <3>3, <3>4 DEF Init, TypeOK, Phases
  <2>2. ValueInv
    BY BoundsAssumption DEF Init, ValueInv, NoneMet
  <2>3. ListInv /\ TableInv
    BY BoundsAssumption DEF Init, ListInv, TableInv, NoneMet
  <2>4. ElapsedSound /\ LossExplained
    BY DEF Init, ElapsedSound, LossExplained
  <2>5. TileInv
    <3>1. Pending = {}
      BY DEF Init, Pending
    <3>2. \A r \in Regions : covered[r] = 0 /\ epoch_last_inc[r] = Created[r] /\ Created[r] \in Nat
      BY TimesAssumption DEF Init
    <3> QED
      BY <3>1, <3>2 DEF TileInv
  <2> QED
    BY <2>1, <2>2, <2>3, <2>4, <2>5 DEF IndInv
<1>2. IndInv /\ [Next]_vars => IndInv'
  BY TypeStep, ListStep, TableStep, ElapsedStep, LossStep, TileStep DEF IndInv
<1> QED
  BY <1>1, <1>2, PTL DEF Spec

\* poller_shm_cb stops the listing, and optics_poller_backend refuses a backend,
\* before an array of the poller is written beyond its end.
THEOREM ArraysAreBounded == Spec => []ArraysBounded
<1>1. IndInv => ArraysBounded
  BY DEF IndInv, ValueInv, ListInv, ArraysBounded
<1> QED
  BY <1>1, Invariant, PTL

\* A backend never divides by 0, nor by less than the window of a region that
\* the value was read from, whatever the clock did between two polls.
THEOREM ElapsedIsSound == Spec => []ElapsedSound
BY Invariant, PTL DEF IndInv

\* Events are dropped only where quantiles of one key disagree, and only a
\* backend behind the one at which the thread was cancelled misses any.
THEOREM LossIsExplained == Spec => []LossExplained
BY Invariant, PTL DEF IndInv

\* As long as the clock moves forward the windows of a region follow one
\* another without a gap, whichever polls met it.
THEOREM WindowsDoTile == Spec => []WindowsTile
<1>1. ASSUME IndInv PROVE WindowsTile
  <2> SUFFICES ASSUME steady, ppc \in {"sleep", "list", "record"}, NEW r \in Regions
               PROVE  covered[r] = epoch_last_inc[r] - Created[r]
    BY DEF WindowsTile
  <2>1. Pending = {}
    BY DEF Pending
  <2> QED
    BY <1>1, <2>1 DEF IndInv, TileInv
<1> QED
  BY <1>1, Invariant, PTL

-----------------------------------------------------------------------------
(* Sums.  Total is a fold, whose value for a set of regions is defined      *)
(* through that for the set without one of its members; that it is a        *)
(* number, and how it changes with one of its terms, are inductions over    *)
(* the size of the set.  Each is done by a smallest counterexample.         *)

\* Every set of natural numbers has a least member.
LEMMA Least ==
    ASSUME NEW S \in SUBSET Nat, S # {}
    PROVE  \E x \in S : \A y \in S : x <= y
<1>1. IsWellFoundedOn(OpToRel(<, Nat), Nat)
  BY NatLessThanWellFounded
<1>2. PICK x \in S : \A y \in S : ~(<<y, x>> \in OpToRel(<, Nat))
  BY <1>1, WFMin
<1>3. \A y \in S : ~(y < x)
  BY <1>2 DEF OpToRel
<1> QED
  BY <1>3

\* The member by which a fold goes on, and the set that is left.
First(s) == CHOOSE x \in s : TRUE
Rest(s) == s \ {First(s)}

\* One step of the fold, in terms of what it comes to for smaller sets.
Step(f, it, s) == IF s = {} THEN 0 ELSE f[First(s)] + it[Rest(s)]

\* it holds the sums of f over the sets of regions.
Sums(it, f) == it = [s \in SUBSET DOMAIN f |-> Step(f, it, s)]

\* The sets of at most n of the members of D.
UpTo(D, n) == {s \in SUBSET D : Cardinality(s) <= n}

\* The same for the sets of at most n regions.
SumsUpTo(it, f, n) == it = [s \in UpTo(DOMAIN f, n) |-> Step(f, it, s)]

\* The total is the last of the sums.
LEMMA TotalSum ==
    ASSUME NEW f
    PROVE  Total(f) = (CHOOSE it : Sums(it, f))[DOMAIN f]
BY DEF Total, FoldFunction, FoldFunctionOnSet, MapThenFoldSet, Sums, Step, First, Rest

\* A fold goes on with a smaller set.
LEMMA RestSmaller ==
    ASSUME NEW D, IsFiniteSet(D), NEW s \in SUBSET D, s # {}
    PROVE  /\ First(s) \in s /\ First(s) \in D
           /\ Rest(s) \in SUBSET D
           /\ Cardinality(s) \in Nat /\ Cardinality(Rest(s)) \in Nat
           /\ Cardinality(Rest(s)) = Cardinality(s) - 1
<1>1. First(s) \in s
  BY DEF First
<1>2. IsFiniteSet(s) /\ Cardinality(s) \in Nat
  BY FS_Subset, FS_CardinalityType
<1>3. IsFiniteSet(Rest(s)) /\ Cardinality(Rest(s)) = Cardinality(s) - 1
  BY <1>1, <1>2, FS_RemoveElement DEF Rest
<1>4. Cardinality(Rest(s)) \in Nat
  BY <1>3, FS_CardinalityType
<1> QED
  BY <1>1, <1>2, <1>3, <1>4 DEF Rest

\* A family of sets of regions has a smallest member.
LEMMA Smallest ==
    ASSUME NEW D, IsFiniteSet(D), NEW B \in SUBSET SUBSET D, B # {}
    PROVE  \E s \in B : \A t \in B : Cardinality(s) <= Cardinality(t)
<1> DEFINE S == {Cardinality(s) : s \in B}
<1>1. S \in SUBSET Nat /\ S # {}
  BY FS_Subset, FS_CardinalityType
<1>2. PICK x \in S : \A y \in S : x <= y
  BY <1>1, Least
<1> QED
  BY <1>2

\* The fold is defined for sets of one more region.
LEMMA SumsStep ==
    ASSUME NEW f, IsFiniteSet(DOMAIN f), NEW n \in Nat, NEW it, SumsUpTo(it, f, n)
    PROVE  \E j : SumsUpTo(j, f, n + 1)
<1> DEFINE D == DOMAIN f
           j == [s \in UpTo(D, n + 1) |-> Step(f, it, s)]
<1>1. \A s \in UpTo(D, n) : it[s] = Step(f, it, s)
  BY DEF SumsUpTo
<1>2. \A s \in UpTo(D, n) : s \in UpTo(D, n + 1)
  <2> SUFFICES ASSUME NEW s \in UpTo(D, n) PROVE s \in UpTo(D, n + 1)
    OBVIOUS
  <2>1. s \in SUBSET D /\ Cardinality(s) <= n
    BY DEF UpTo
  <2>2. Cardinality(s) \in Nat
    BY <2>1, FS_Subset, FS_CardinalityType
  <2> QED
    BY <2>1, <2>2 DEF UpTo
<1>3. \A s \in UpTo(D, n) : j[s] = it[s]
  BY <1>1, <1>2
<1>4. ASSUME NEW s \in UpTo(D, n + 1) PROVE Step(f, j, s) = Step(f, it, s)
  <2>1. CASE s = {}
    BY <2>1 DEF Step
  <2>2. CASE s # {}
    <3>1. s \in SUBSET D /\ Cardinality(s) <= n + 1
      BY DEF UpTo
    <3>2. Rest(s) \in SUBSET D /\ Cardinality(Rest(s)) <= n
      BY <2>2, <3>1, RestSmaller
    <3>3. j[Rest(s)] = it[Rest(s)]
      BY <1>3, <3>2 DEF UpTo
    <3> HIDE DEF j
    <3> QED
      BY <2>2, <3>3 DEF Step
  <2> QED
    BY <2>1, <2>2
<1>5. \A s \in UpTo(D, n + 1) : j[s] = Step(f, it, s)
  OBVIOUS
<1>6. j = [s \in UpTo(D, n + 1) |-> j[s]]
  OBVIOUS
<1> HIDE DEF j
<1>7. j = [s \in UpTo(D, n + 1) |-> Step(f, j, s)]
  BY <1>4, <1>5, <1>6
<1> QED
  BY <1>7 DEF SumsUpTo

\* So it is defined for any number of them,
LEMMA SumsAll ==
    ASSUME NEW f, IsFiniteSet(DOMAIN f)
    PROVE  \A n \in Nat : \E it : SumsUpTo(it, f, n)
<1> DEFINE B == {n \in Nat : ~ \E it : SumsUpTo(it, f, n)}
<1>1. SUFFICES ASSUME B # {} PROVE FALSE
  OBVIOUS
<1>2. PICK n \in B : \A m \in B : n <= m
  <2>1. B \in SUBSET Nat
    OBVIOUS
  <2> HIDE DEF B
  <2> QED
    BY <1>1, <2>1, Least
<1>3. CASE n = 0
  <2> DEFINE it == [s \in UpTo(DOMAIN f, 0) |-> 0]
  <2>1. \A s \in UpTo(DOMAIN f, 0) : s = {}
    <3> SUFFICES ASSUME NEW s \in UpTo(DOMAIN f, 0) PROVE s = {}
      OBVIOUS
    <3>1. IsFiniteSet(s) /\ Cardinality(s) \in Nat /\ Cardinality(s) <= 0
      BY FS_Subset, FS_CardinalityType DEF UpTo
    <3>2. Cardinality(s) = 0
      BY <3>1
    <3> QED
      BY <3>1, <3>2, FS_EmptySet
  <2>2. \A s \in UpTo(DOMAIN f, 0) : Step(f, it, s) = 0
    BY <2>1 DEF Step
  <2>3. it = [s \in UpTo(DOMAIN f, 0) |-> Step(f, it, s)]
    BY <2>2
  <2> HIDE DEF it
  <2>4. SumsUpTo(it, f, 0)
    BY <2>3 DEF SumsUpTo
  <2> QED
    BY <1>3, <2>4
<1>4. CASE n # 0
  <2>1. n - 1 \in Nat /\ ~(n <= n - 1) /\ (n - 1) + 1 = n
    BY <1>4
  <2>2. n - 1 \notin B
    BY <1>2, <2>1
  <2>3. PICK it : SumsUpTo(it, f, n - 1)
    BY <2>1, <2>2
  <2>4. \E j : SumsUpTo(j, f, (n - 1) + 1)
    BY <2>1, <2>3, SumsStep
  <2> QED
    BY <2>1, <2>4
<1> QED
  BY <1>3, <1>4

\* and for all of them at once.
LEMMA SumsExist ==
    ASSUME NEW f, IsFiniteSet(DOMAIN f)
    PROVE  Sums(CHOOSE it : Sums(it, f), f)
<1> DEFINE n == Cardinality(DOMAIN f)
<1>1. n \in Nat
  BY FS_CardinalityType
<1>2. PICK it : SumsUpTo(it, f, n)
  BY <1>1, SumsAll
<1>3. UpTo(DOMAIN f, n) = SUBSET DOMAIN f
  BY FS_Subset DEF UpTo
<1>4. Sums(it, f)
  BY <1>2, <1>3 DEF Sums, SumsUpTo
<1> QED
  BY <1>4

\* A sum of natural numbers is one.
LEMMA SumsNat ==
    ASSUME NEW D, IsFiniteSet(D), NEW f \in [D -> Nat], NEW it, Sums(it, f)
    PROVE  \A s \in SUBSET D : it[s] \in Nat
<1> DEFINE B == {s \in SUBSET D : it[s] \notin Nat}
<1>1. SUFFICES ASSUME B # {} PROVE FALSE
  OBVIOUS
<1>2. PICK s \in B : \A t \in B : Cardinality(s) <= Cardinality(t)
  <2>1. B \in SUBSET SUBSET D
    OBVIOUS
  <2> HIDE DEF B
  <2> QED
    BY <1>1, <2>1, Smallest
<1>3. \A t \in SUBSET D : it[t] = Step(f, it, t)
  BY DEF Sums
<1>4. s # {}
  BY <1>3 DEF Step
<1>5. /\ First(s) \in D /\ Rest(s) \in SUBSET D
      /\ Cardinality(s) \in Nat
      /\ Cardinality(Rest(s)) = Cardinality(s) - 1
  BY <1>4, RestSmaller
<1>6. ~(Cardinality(s) <= Cardinality(Rest(s)))
  BY <1>5
<1>7. it[Rest(s)] \in Nat
  BY <1>2, <1>5, <1>6
<1>8. it[s] = f[First(s)] + it[Rest(s)]
  BY <1>3, <1>4 DEF Step
<1>9. f[First(s)] \in Nat
  BY <1>5
<1> QED
  BY <1>7, <1>8, <1>9

\* g is f with d more at r.
Raises(f, g, r, d) == g[r] = f[r] + d /\ \A x \in DOMAIN f : x # r => g[x] = f[x]

\* The sums over sets that r belongs to change by what the term of r does, and
\* no others.
LEMMA SumsRaised ==
    ASSUME NEW D, IsFiniteSet(D), NEW f \in [D -> Nat], NEW g \in [D -> Nat],
           NEW i, NEW j, Sums(i, f), Sums(j, g),
           NEW r \in D, NEW d \in Int, Raises(f, g, r, d)
    PROVE  \A s \in SUBSET D : j[s] = i[s] + (IF r \in s THEN d ELSE 0)
<1> DEFINE Good(s) == j[s] = i[s] + (IF r \in s THEN d ELSE 0)
           B == {s \in SUBSET D : ~Good(s)}
<1>1. SUFFICES ASSUME B # {} PROVE FALSE
  OBVIOUS
<1>2. PICK s \in B : \A t \in B : Cardinality(s) <= Cardinality(t)
  <2>1. B \in SUBSET SUBSET D
    OBVIOUS
  <2> HIDE DEF B
  <2> QED
    BY <1>1, <2>1, Smallest
<1>3. \A t \in SUBSET D : i[t] = Step(f, i, t) /\ j[t] = Step(g, j, t)
  BY DEF Sums
<1>4. s # {}
  BY <1>3 DEF Step
<1>5. /\ First(s) \in s /\ First(s) \in D /\ Rest(s) \in SUBSET D
      /\ Cardinality(s) \in Nat
      /\ Cardinality(Rest(s)) = Cardinality(s) - 1
  BY <1>4, RestSmaller
<1>6. ~(Cardinality(s) <= Cardinality(Rest(s)))
  BY <1>5
<1>7. Good(Rest(s))
  BY <1>2, <1>5, <1>6
<1>8. /\ i[s] = f[First(s)] + i[Rest(s)]
      /\ j[s] = g[First(s)] + j[Rest(s)]
  BY <1>3, <1>4 DEF Step
<1>9. f[First(s)] \in Nat /\ g[First(s)] \in Nat /\ i[Rest(s)] \in Nat /\ j[Rest(s)] \in Nat
  BY <1>5, SumsNat
<1>10. ~Good(s)
  OBVIOUS
<1>11. CASE r = First(s)
  <2>1. r \in s /\ r \notin Rest(s)
    BY <1>5, <1>11 DEF Rest
  <2>2. g[First(s)] = f[First(s)] + d
    BY <1>11 DEF Raises
  <2>3. j[Rest(s)] = i[Rest(s)] + 0
    BY <1>7, <2>1
  <2> QED
    BY <1>8, <1>9, <1>10, <2>1, <2>2, <2>3
<1>12. CASE r # First(s)
  <2>1. r \in s <=> r \in Rest(s)
    BY <1>12 DEF Rest
  <2>2. g[First(s)] = f[First(s)]
    BY <1>5, <1>12 DEF Raises
  <2> QED
    BY <1>7, <1>8, <1>9, <1>10, <2>1, <2>2
<1> QED
  BY <1>11, <1>12

\* A total of natural numbers is one,
LEMMA TotalNat ==
    ASSUME NEW D, IsFiniteSet(D), NEW f \in [D -> Nat]
    PROVE  Total(f) \in Nat
<1>1. DOMAIN f = D
  OBVIOUS
<1>2. Sums(CHOOSE it : Sums(it, f), f)
  BY <1>1, SumsExist
<1> QED
  BY <1>1, <1>2, SumsNat, TotalSum

\* and it changes by what one of them does.
LEMMA TotalRaised ==
    ASSUME NEW D, IsFiniteSet(D), NEW f \in [D -> Nat], NEW g \in [D -> Nat],
           NEW r \in D, NEW d \in Int, Raises(f, g, r, d)
    PROVE  Total(g) = Total(f) + d
<1> DEFINE i == CHOOSE it : Sums(it, f)
           j == CHOOSE it : Sums(it, g)
<1>1. DOMAIN f = D /\ DOMAIN g = D
  OBVIOUS
<1>2. Sums(i, f) /\ Sums(j, g)
  BY <1>1, SumsExist
<1>3. Total(f) = i[D] /\ Total(g) = j[D]
  BY <1>1, TotalSum
<1> HIDE DEF i, j
<1>4. \A s \in SUBSET D : j[s] = i[s] + (IF r \in s THEN d ELSE 0)
  BY <1>2, SumsRaised
<1>5. D \in SUBSET D
  OBVIOUS
<1> QED
  BY <1>3, <1>4, <1>5

-----------------------------------------------------------------------------
(* Where the events of a key are.                                           *)

Recorded(k) == Total([r \in Regions |-> recorded[r][k]])
InSlots(k) == Total([r \in Regions |-> slot[r][0][k] + slot[r][1][k]])

\* Every event of k is somewhere, as the i-th backend sees it.
Balance(i, k) ==
    Recorded(k) = told[i][k] + missed[i][k] + lost[k] + Untold(i, k) + InSlots(k)

\* As long as backends are registered nobody was told anything, so that it does
\* not matter how many of them the poller accepts.
Registered(i) == ppc = "setup" \/ i <= Len(backends)

BalanceInv ==
    /\ recorded \in [Regions -> [Keys -> Nat]]
    /\ \A k \in Keys : Counted(k) /\ values[k] # None => values[k].type # "gauge"
    /\ \A i \in 1 .. MaxBackends, k \in Keys : Registered(i) /\ Counted(k) => Balance(i, k)

\* The totals are numbers.
LEMMA TotalsNat ==
    ASSUME TypeOK, BalanceInv, NEW k \in Keys
    PROVE  /\ [r \in Regions |-> recorded[r][k]] \in [Regions -> Nat]
           /\ [r \in Regions |-> slot[r][0][k] + slot[r][1][k]] \in [Regions -> Nat]
           /\ Recorded(k) \in Nat /\ InSlots(k) \in Nat
<1>1. [r \in Regions |-> recorded[r][k]] \in [Regions -> Nat]
  BY DEF BalanceInv
<1>2. [r \in Regions |-> slot[r][0][k] + slot[r][1][k]] \in [Regions -> Nat]
  <2>1. \A r \in Regions : slot[r][0][k] \in Nat /\ slot[r][1][k] \in Nat
    BY DEF TypeOK, Epochs
  <2> QED
    BY <2>1
<1>3. Recorded(k) \in Nat
  BY <1>1, RegionsAssumption, TotalNat DEF Recorded
<1>4. InSlots(k) \in Nat
  BY <1>2, RegionsAssumption, TotalNat DEF InSlots
<1> QED
  BY <1>1, <1>2, <1>3, <1>4

\* So is what was told, missed, lost and is still to be told.
LEMMA PartsNat ==
    ASSUME TypeOK, ValueInv, NEW i \in 1 .. MaxBackends, NEW k \in Keys
    PROVE  told[i][k] \in Nat /\ missed[i][k] \in Nat /\ lost[k] \in Nat /\ Untold(i, k) \in Nat
BY UntoldNat DEF ValueInv

\* One cell of one slot changes by d.
Changes(r, e, k, d) == slot' = [slot EXCEPT ![r][e][k] = slot[r][e][k] + d]

\* Then so do the events of its key that are in slots, and those of no other key.
LEMMA SlotChanged ==
    ASSUME TypeOK, TypeOK', NEW r \in Regions, NEW e \in Epochs, NEW k \in Keys,
           NEW d \in Int, Changes(r, e, k, d)
    PROVE  /\ InSlots(k)' = InSlots(k) + d
           /\ \A q \in Keys : q # k => InSlots(q)' = InSlots(q)
<1> DEFINE F(q) == [x \in Regions |-> slot[x][0][q] + slot[x][1][q]]
           G(q) == [x \in Regions |-> slot'[x][0][q] + slot'[x][1][q]]
<1>0. /\ slot \in [Regions -> [Epochs -> [Keys -> Nat]]]
      /\ slot' \in [Regions -> [Epochs -> [Keys -> Nat]]]
  BY DEF TypeOK
<1>1. /\ slot'[r][e][k] = slot[r][e][k] + d
      /\ \A x \in Regions, y \in Epochs, q \in Keys :
            x # r \/ y # e \/ q # k => slot'[x][y][q] = slot[x][y][q]
  BY <1>0 DEF Changes
<1>2. \A x \in Regions, y \in Epochs, q \in Keys : slot[x][y][q] \in Nat /\ slot'[x][y][q] \in Nat
  BY <1>0
<1>3. 0 \in Epochs /\ 1 \in Epochs /\ e \in {0, 1}
  BY DEF Epochs
<1>4. ASSUME NEW q \in Keys PROVE F(q) \in [Regions -> Nat] /\ G(q) \in [Regions -> Nat]
  BY <1>2, <1>3
<1>5. ASSUME NEW q \in Keys, q # k PROVE G(q) = F(q)
  BY <1>1, <1>3, <1>5
<1>6. Raises(F(k), G(k), r, d)
  <2>1. F(k)[r] = slot[r][0][k] + slot[r][1][k] /\ G(k)[r] = slot'[r][0][k] + slot'[r][1][k]
    OBVIOUS
  <2>2. G(k)[r] = F(k)[r] + d
    <3>1. CASE e = 0
      BY <1>1, <1>2, <1>3, <2>1, <3>1
    <3>2. CASE e = 1
      BY <1>1, <1>2, <1>3, <2>1, <3>2
    <3> QED
      BY <1>3, <3>1, <3>2
  <2>3. \A x \in Regions : x # r => G(k)[x] = F(k)[x]
    BY <1>1, <1>3
  <2>4. DOMAIN F(k) = Regions
    OBVIOUS
  <2> HIDE DEF F, G
  <2> QED
    BY <2>2, <2>3, <2>4 DEF Raises
<1>7. \A q \in Keys : InSlots(q) = Total(F(q)) /\ InSlots(q)' = Total(G(q))
  BY DEF InSlots
<1>8. F(k) \in [Regions -> Nat] /\ G(k) \in [Regions -> Nat]
  BY <1>4
<1> HIDE DEF F, G
<1>9. Total(G(k)) = Total(F(k)) + d
  BY <1>6, <1>8, RegionsAssumption, TotalRaised
<1> QED
  BY <1>5, <1>7, <1>9

\* The same for the events recorded.
LEMMA RecordedOne ==
    ASSUME BalanceInv, NEW r \in Regions, NEW k \in Keys,
           recorded' = [recorded EXCEPT ![r][k] = @ + 1]
    PROVE  /\ recorded' \in [Regions -> [Keys -> Nat]]
           /\ Recorded(k)' = Recorded(k) + 1
           /\ \A q \in Keys : q # k => Recorded(q)' = Recorded(q)
<1> DEFINE F(q) == [x \in Regions |-> recorded[x][q]]
           G(q) == [x \in Regions |-> recorded'[x][q]]
<1>0. recorded \in [Regions -> [Keys -> Nat]] /\ recorded' \in [Regions -> [Keys -> Nat]]
  BY DEF BalanceInv
<1>1. /\ recorded'[r][k] = recorded[r][k] + 1
      /\ \A x \in Regions, q \in Keys : x # r \/ q # k => recorded'[x][q] = recorded[x][q]
  BY <1>0
<1>2. F(k) \in [Regions -> Nat] /\ G(k) \in [Regions -> Nat]
  BY <1>0
<1>3. ASSUME NEW q \in Keys, q # k PROVE G(q) = F(q)
  BY <1>1, <1>3
<1>4. Raises(F(k), G(k), r, 1)
  BY <1>1 DEF Raises
<1>5. \A q \in Keys : Recorded(q) = Total(F(q)) /\ Recorded(q)' = Total(G(q))
  BY DEF Recorded
<1> HIDE DEF F, G
<1>6. Total(G(k)) = Total(F(k)) + 1
  BY <1>2, <1>4, RegionsAssumption, TotalRaised
<1> QED
  BY <1>0, <1>3, <1>5, <1>6

\* Steps that move no events.
LEMMA BalanceKept ==
    ASSUME BalanceInv, UNCHANGED <<lens, slot, recorded, told, missed, lost, values, heard>>,
           ppc' = "setup" => ppc = "setup",
           ppc = "setup" \/ backends' = backends
    PROVE  BalanceInv'
<1>1. \A k \in Keys : Counted(k)' <=> Counted(k)
  BY DEF Counted
<1>2. \A i \in 1 .. MaxBackends, k \in Keys : Balance(i, k)' <=> Balance(i, k)
  BY DEF Balance, Recorded, InSlots, Untold
<1>3. \A i \in 1 .. MaxBackends : Registered(i)' => Registered(i)
  BY DEF Registered
<1> QED
  BY <1>1, <1>2, <1>3 DEF BalanceInv

\* An event that is recorded is in a slot.
LEMMA RecordBalance ==
    ASSUME TypeOK, TypeOK', ValueInv, BalanceInv, NEW r \in Regions, NEW k \in Keys, record(r, k)
    PROVE  BalanceInv'
<1> USE DEF pollVars, driverVars, history
<1>1. UNCHANGED <<lens, told, missed, lost, values, heard, ppc, backends>> /\ lens[r][k] # None
  BY DEF record
<1>2. /\ recorded' \in [Regions -> [Keys -> Nat]]
      /\ Recorded(k)' = Recorded(k) + 1
      /\ \A q \in Keys : q # k => Recorded(q)' = Recorded(q)
  BY RecordedOne DEF record
<1>3. /\ \A q \in Keys : Counted(q)' <=> Counted(q)
      /\ \A b, q : Untold(b, q)' = Untold(b, q)
  BY <1>1 DEF Counted, Untold
<1>4. \A b \in 1 .. MaxBackends : Registered(b)' <=> Registered(b)
  BY <1>1 DEF Registered
<1>5. \A q \in Keys : q # k => InSlots(q)' = InSlots(q)
  <2>1. CASE lens[r][k].type = "gauge"
    <3>1. slot' = [slot EXCEPT ![r] = [e \in Epochs |-> [slot[r][e] EXCEPT ![k] = 1]]]
      BY <2>1 DEF record
    <3>2. \A x \in Regions, y \in Epochs, q \in Keys : q # k => slot'[x][y][q] = slot[x][y][q]
      BY <3>1 DEF TypeOK
    <3>3. 0 \in Epochs /\ 1 \in Epochs
      BY DEF Epochs
    <3> QED
      BY <3>2, <3>3 DEF InSlots
  <2>2. CASE lens[r][k].type # "gauge"
    <3>1. Changes(r, epoch[r], k, 1) /\ epoch[r] \in Epochs /\ 1 \in Int
      BY <2>2 DEF record, TypeOK, Changes
    <3> QED
      BY <3>1, SlotChanged
  <2> QED
    BY <2>1, <2>2
<1>6. Counted(k) => InSlots(k)' = InSlots(k) + 1
  <2> SUFFICES ASSUME Counted(k) PROVE InSlots(k)' = InSlots(k) + 1
    OBVIOUS
  <2>1. lens[r][k].type # "gauge"
    BY <1>1 DEF Counted
  <2>2. Changes(r, epoch[r], k, 1) /\ epoch[r] \in Epochs /\ 1 \in Int
    BY <2>1 DEF record, TypeOK, Changes
  <2> QED
    BY <2>2, SlotChanged
<1>7. ASSUME NEW b \in 1 .. MaxBackends, NEW q \in Keys, Counted(q), Balance(b, q)
      PROVE  Balance(b, q)'
  <2>1. CASE q # k
    BY <1>1, <1>2, <1>3, <1>5, <1>7, <2>1 DEF Balance
  <2>2. CASE q = k
    <3>1. Recorded(k) = told[b][k] + missed[b][k] + lost[k] + Untold(b, k) + InSlots(k)
      BY <1>7, <2>2 DEF Balance
    <3>2. Recorded(k)' = Recorded(k) + 1 /\ InSlots(k)' = InSlots(k) + 1
      BY <1>2, <1>6, <1>7, <2>2
    <3>3. Recorded(k) \in Nat /\ InSlots(k) \in Nat
      BY TotalsNat
    <3>5. told[b][k] \in Nat /\ missed[b][k] \in Nat /\ lost[k] \in Nat /\ Untold(b, k) \in Nat
      BY PartsNat
    <3>6. Recorded(k)' = told[b][k] + missed[b][k] + lost[k] + Untold(b, k) + InSlots(k)'
      BY <3>1, <3>2, <3>3, <3>5
    <3> QED
      BY <1>1, <1>3, <2>2, <3>6 DEF Balance
  <2> QED
    BY <2>1, <2>2
<1> QED
  BY <1>1, <1>2, <1>3, <1>4, <1>7 DEF BalanceInv

\* A read moves what it takes from a slot to the value, or loses it.
LEMMA ReadBalance ==
    ASSUME TypeOK, TypeOK', ValueInv, ValueInv', ListInv, TableInv, BalanceInv,
           NEW k \in Keys, NEW busy \in BOOLEAN, poller_poll_lens(k, busy)
    PROVE  BalanceInv'
<1> USE DEF driverVars
<1>1. PICK l \in Lenses, v \in Value, m \in Value, d \in Nat : Reads(k, l, v, m, d)
  BY ReadOutcome
<1>2. /\ UNCHANGED <<lens, recorded, told, missed, heard, backends>> /\ ppc = "read" /\ ppc' = "read"
      /\ values' = [values EXCEPT ![k] = m] /\ values \in [Keys -> Value \cup {None}]
      /\ lost' = [lost EXCEPT ![k] = @ + d] /\ lost \in [Keys -> Nat]
  BY <1>1 DEF Reads, TypeOK, ValueInv
<1>3. /\ values'[k] = m /\ m \in Value /\ m # None
      /\ \A q \in Keys : q # k => values'[q] = values[q] /\ lost'[q] = lost[q]
      /\ lost'[k] = lost[k] + d /\ lost[k] \in Nat
  BY <1>2, ValueFields
<1>4. \A q \in Keys : (Counted(q)' <=> Counted(q)) /\ Recorded(q)' = Recorded(q)
  BY <1>2 DEF Counted, Recorded
<1>5. \A b \in 1 .. MaxBackends : Registered(b)' <=> Registered(b)
  BY <1>2 DEF Registered
<1>6. Counted(k) => m.type # "gauge" /\ v.type # "gauge"
  <2> SUFFICES ASSUME Counted(k) PROVE m.type # "gauge" /\ v.type # "gauge"
    OBVIOUS
  <2>1. l = lens[list[at].region][k] /\ l # None /\ list[at].region \in Regions
    <3>1. l = LensOf(at, k) /\ at \in 1 .. Len(list)
      BY <1>1 DEF Reads
    <3>2. list[at] \in Item
      BY <3>1 DEF TypeOK
    <3> QED
      BY <3>1, <3>2, LensesAssumption DEF LensOf, Item
  <2>2. l.type # "gauge"
    BY <2>1 DEF Counted
  <2>3. values[k] # None => values[k].type # "gauge"
    BY DEF BalanceInv
  <2> QED
    BY <1>1, <2>2, <2>3 DEF Reads
<1>7. ASSUME v.type # "gauge"
      PROVE  \E c \in Nat : /\ m.count + d = v.count + c
                            /\ InSlots(k)' = InSlots(k) - c
                            /\ \A q \in Keys : q # k => InSlots(q)' = InSlots(q)
  <2>1. PICK c \in Nat : Takes(k, c) /\ m.count + d = v.count + c
    BY <1>1, <1>7 DEF Reads
  <2> DEFINE r == list[at].region
             e == list[at].epoch
  <2>2. r \in Regions /\ e \in Epochs /\ slot' = [slot EXCEPT ![r][e][k] = slot[r][e][k] - c]
    BY <2>1 DEF Takes
  <2>3. slot[r][e][k] - c = slot[r][e][k] + (0 - c) /\ 0 - c \in Int
    BY <2>2 DEF TypeOK
  <2> HIDE DEF r, e
  <2>4. Changes(r, e, k, 0 - c)
    BY <2>2, <2>3 DEF Changes
  <2>5. /\ InSlots(k)' = InSlots(k) + (0 - c)
        /\ \A q \in Keys : q # k => InSlots(q)' = InSlots(q)
    BY <2>2, <2>3, <2>4, SlotChanged
  <2>6. InSlots(k)' = InSlots(k) - c
    BY <2>5, TotalsNat
  <2> QED
    BY <2>1, <2>5, <2>6
<1>8. \A q \in Keys : q # k => InSlots(q)' = InSlots(q)
  <2>1. CASE v.type # "gauge"
    BY <1>7, <2>1
  <2>2. CASE v.type = "gauge"
    <3>0. \E x, y, n : slot' = [slot EXCEPT ![x][y][k] = n]
      BY Zenon DEF poller_poll_lens
    <3>1. \A x \in Regions, y \in Epochs, q \in Keys : q # k => slot'[x][y][q] = slot[x][y][q]
      BY <3>0 DEF TypeOK
    <3>2. 0 \in Epochs /\ 1 \in Epochs
      BY DEF Epochs
    <3> QED
      BY <3>1, <3>2 DEF InSlots
  <2> QED
    BY <2>1, <2>2
<1>9. ASSUME NEW b \in 1 .. MaxBackends, NEW q \in Keys, Counted(q), Balance(b, q)
      PROVE  Balance(b, q)'
  <2>0. heard[q] = 0 /\ ~(0 >= b)
    BY <1>2 DEF TableInv
  <2>1. CASE q # k
    <3>1. Untold(b, q)' = Untold(b, q)
      BY <1>2, <1>3, <2>1 DEF Untold
    <3> QED
      BY <1>2, <1>3, <1>4, <1>8, <1>9, <2>1, <3>1 DEF Balance
  <2>2. CASE q = k
    <3>1. PICK c \in Nat : m.count + d = v.count + c /\ InSlots(k)' = InSlots(k) - c
      BY <1>6, <1>7, <1>9, <2>2
    <3>2. Untold(b, k)' = m.count /\ Untold(b, k) = v.count
      <4>1. m.type # "gauge" /\ v.type # "gauge"
        BY <1>6, <1>9, <2>2
      <4>2. Untold(b, k)' = m.count
        BY <1>2, <1>3, <2>0, <2>2, <4>1 DEF Untold
      <4>3. /\ values[k] = None => v.count = 0
            /\ values[k] # None => v.type = values[k].type /\ v.count = values[k].count
        BY <1>1 DEF Reads
      <4>4. Untold(b, k) = v.count
        BY <2>0, <2>2, <4>1, <4>3 DEF Untold
      <4> QED
        BY <4>2, <4>4
    <3>3. m.count \in Nat /\ v.count \in Nat
      BY ValueFields
    <3>4. told[b][k] \in Nat /\ missed[b][k] \in Nat /\ InSlots(k) \in Nat /\ Recorded(k) \in Nat
      BY TotalsNat, PartsNat
    <3>5. Recorded(k) = told[b][k] + missed[b][k] + lost[k] + v.count + InSlots(k)
      BY <1>9, <2>2, <3>2 DEF Balance
    <3>6. Recorded(k) = told[b][k] + missed[b][k] + lost'[k] + m.count + InSlots(k)'
      BY <1>3, <3>1, <3>3, <3>4, <3>5
    <3> QED
      BY <1>2, <1>4, <2>2, <3>2, <3>6 DEF Balance
  <2> QED
    BY <2>1, <2>2
<1>10. \A q \in Keys : Counted(q)' /\ values'[q] # None => values'[q].type # "gauge"
  <2> SUFFICES ASSUME NEW q \in Keys, Counted(q), values'[q] # None
               PROVE  values'[q].type # "gauge"
    BY <1>4
  <2>1. CASE q = k
    BY <1>3, <1>6, <2>1
  <2>2. CASE q # k
    BY <1>3, <2>2 DEF BalanceInv
  <2> QED
    BY <2>1, <2>2
<1>11. \A b \in 1 .. MaxBackends, q \in Keys : Registered(b)' /\ Counted(q)' => Balance(b, q)'
  BY <1>4, <1>5, <1>9 DEF BalanceInv
<1> QED
  BY <1>2, <1>10, <1>11 DEF BalanceInv

\* One turn of the loop moves the events of the value to one backend,
LEMMA ToldBalance ==
    ASSUME TypeOK, TypeOK', ValueInv, BalanceInv, NEW k \in Keys, poller_backend_record(k)
    PROVE  BalanceInv'
<1> USE DEF regionVars, driverVars
<1>2. PICK h \in 1 .. MaxBackends : h = heard[k] + 1
  <2>1. heard[k] + 1 \in 1 .. MaxBackends
    BY BoundsAssumption DEF poller_backend_record, Loop, TypeOK, ValueInv
  <2> QED
    BY <2>1
<1>3. PICK u \in Nat : u = Untold(h, k)
  <2>1. Untold(h, k) \in Nat
    BY UntoldNat
  <2> QED
    BY <2>1
<1>1. /\ UNCHANGED <<lens, slot, recorded, backends, lost, missed, ppc, values>> /\ ppc = "record"
      /\ told' = [told EXCEPT ![h][k] = @ + u]
      /\ heard' = [heard EXCEPT ![k] = h]
      /\ told \in [1 .. MaxBackends -> [Keys -> Nat]] /\ heard \in [Keys -> Nat]
  BY <1>2, <1>3 DEF poller_backend_record, TypeOK, ValueInv
<1>4. Untold(h, k)' = 0
  <2>1. heard'[k] >= h
    BY <1>1, <1>2
  <2> QED
    BY <2>1 DEF Untold
<1>5. \A b \in 1 .. MaxBackends, q \in Keys : b # h \/ q # k => Untold(b, q)' = Untold(b, q)
  <2> SUFFICES ASSUME NEW b \in 1 .. MaxBackends, NEW q \in Keys, b # h \/ q # k
               PROVE  Untold(b, q)' = Untold(b, q)
    OBVIOUS
  <2>1. heard'[q] >= b <=> heard[q] >= b
    BY <1>1, <1>2
  <2> QED
    BY <1>1, <2>1 DEF Untold
<1>6. /\ told'[h][k] = told[h][k] + u
      /\ \A b \in 1 .. MaxBackends, q \in Keys : b # h \/ q # k => told'[b][q] = told[b][q]
  BY <1>1, <1>2
<1>7. \A q \in Keys : (Counted(q)' <=> Counted(q)) /\ Recorded(q)' = Recorded(q) /\ InSlots(q)' = InSlots(q)
  BY <1>1 DEF Counted, Recorded, InSlots
<1>8. \A b \in 1 .. MaxBackends : Registered(b)' => Registered(b)
  BY <1>1 DEF Registered
<1>9. ASSUME NEW b \in 1 .. MaxBackends, NEW q \in Keys, Balance(b, q)
      PROVE  Balance(b, q)'
  <2>1. CASE b # h \/ q # k
    BY <1>1, <1>5, <1>6, <1>7, <1>9, <2>1 DEF Balance
  <2>2. CASE b = h /\ q = k
    <3>1. Recorded(k) = told[h][k] + missed[h][k] + lost[k] + u + InSlots(k)
      BY <1>3, <1>9, <2>2 DEF Balance
    <3>2. /\ told[h][k] \in Nat /\ missed[h][k] \in Nat /\ lost[k] \in Nat
          /\ InSlots(k) \in Nat /\ Recorded(k) \in Nat
      BY <1>2, TotalsNat, PartsNat
    <3>3. Recorded(k) = told'[h][k] + missed[h][k] + lost[k] + 0 + InSlots(k)
      BY <1>3, <1>6, <3>1, <3>2
    <3> QED
      BY <1>1, <1>4, <1>7, <2>2, <3>3 DEF Balance
  <2> QED
    BY <2>1, <2>2
<1>10. \A q \in Keys : Counted(q)' /\ values'[q] # None => values'[q].type # "gauge"
  BY <1>1, <1>7 DEF BalanceInv
<1>11. \A b \in 1 .. MaxBackends, q \in Keys : Registered(b)' /\ Counted(q)' => Balance(b, q)'
  BY <1>7, <1>8, <1>9 DEF BalanceInv
<1> QED
  BY <1>1, <1>10, <1>11 DEF BalanceInv

\* when the value is freed every backend has been told of it,
LEMMA FreedBalance ==
    ASSUME TypeOK, TypeOK', ValueInv, BalanceInv, NEW k \in Keys, poll_freed(k)
    PROVE  BalanceInv'
<1> USE DEF regionVars, driverVars, history
<1>1. /\ UNCHANGED <<lens, slot, recorded, backends, lost, told, missed, ppc>> /\ ppc = "record"
      /\ values' = [values EXCEPT ![k] = None] /\ heard' = [heard EXCEPT ![k] = 0]
      /\ values \in [Keys -> Value \cup {None}] /\ heard \in [Keys -> Nat]
      /\ heard[k] >= Len(backends) /\ Len(backends) \in Nat
  BY DEF poll_freed, Loop, TypeOK, ValueInv
<1>2. \A q \in Keys : (Counted(q)' <=> Counted(q)) /\ Recorded(q)' = Recorded(q) /\ InSlots(q)' = InSlots(q)
  BY <1>1 DEF Counted, Recorded, InSlots
<1>3. \A b \in 1 .. MaxBackends : Registered(b)' => Registered(b) /\ b <= Len(backends)
  BY <1>1 DEF Registered
<1>4. ASSUME NEW b \in 1 .. MaxBackends, b <= Len(backends), NEW q \in Keys, Balance(b, q)
      PROVE  Balance(b, q)'
  <2>1. Untold(b, q)' = Untold(b, q)
    <3>1. CASE q = k
      <4>1. heard[k] >= b
        BY <1>1, <1>4
      <4>2. Untold(b, k) = 0
        BY <4>1 DEF Untold
      <4>3. Untold(b, k)' = 0
        BY <1>1 DEF Untold
      <4> QED
        BY <3>1, <4>2, <4>3
    <3>2. CASE q # k
      BY <1>1, <3>2 DEF Untold
    <3> QED
      BY <3>1, <3>2
  <2> QED
    BY <1>1, <1>2, <1>4, <2>1 DEF Balance
<1>5. \A q \in Keys : Counted(q)' /\ values'[q] # None => values'[q].type # "gauge"
  BY <1>1, <1>2 DEF BalanceInv
<1>6. \A b \in 1 .. MaxBackends, q \in Keys : Registered(b)' /\ Counted(q)' => Balance(b, q)'
  BY <1>2, <1>3, <1>4 DEF BalanceInv
<1> QED
  BY <1>1, <1>5, <1>6 DEF BalanceInv

\* and a cancellation makes those miss it that were not told.
LEMMA CancelBalance ==
    ASSUME TypeOK, TypeOK', ValueInv, BalanceInv, thread_cancelled
    PROVE  BalanceInv'
<1> USE DEF regionVars, driverVars
<1>1. /\ UNCHANGED <<lens, slot, recorded, backends, told, lost>> /\ ppc # "setup" /\ ppc' = "ended"
      /\ missed' = [i \in 1 .. MaxBackends |-> [k \in Keys |-> missed[i][k] + Untold(i, k)]]
      /\ values' = [k \in Keys |-> None]
  BY DEF thread_cancelled
<1>2. \A q \in Keys : (Counted(q)' <=> Counted(q)) /\ Recorded(q)' = Recorded(q) /\ InSlots(q)' = InSlots(q)
  BY <1>1 DEF Counted, Recorded, InSlots
<1>3. \A b \in 1 .. MaxBackends : Registered(b)' => Registered(b)
  BY <1>1 DEF Registered
<1>4. ASSUME NEW b \in 1 .. MaxBackends, NEW q \in Keys, Counted(q), Balance(b, q)
      PROVE  Balance(b, q)'
  <2>1. missed'[b][q] = missed[b][q] + Untold(b, q)
    BY <1>1
  <2>2. Untold(b, q)' = 0
    BY <1>1 DEF Untold
  <2>3. /\ told[b][q] \in Nat /\ missed[b][q] \in Nat /\ lost[q] \in Nat
        /\ Untold(b, q) \in Nat /\ InSlots(q) \in Nat
    BY TotalsNat, PartsNat
  <2>4. Recorded(q) = told[b][q] + missed[b][q] + lost[q] + Untold(b, q) + InSlots(q)
    BY <1>4 DEF Balance
  <2>5. Recorded(q) = told[b][q] + missed'[b][q] + lost[q] + 0 + InSlots(q)
    BY <2>1, <2>3, <2>4
  <2> QED
    BY <1>1, <1>2, <2>2, <2>5 DEF Balance
<1>5. \A q \in Keys : values'[q] = None
  BY <1>1
<1>6. \A b \in 1 .. MaxBackends, q \in Keys : Registered(b)' /\ Counted(q)' => Balance(b, q)'
  BY <1>2, <1>3, <1>4 DEF BalanceInv
<1> QED
  BY <1>1, <1>5, <1>6 DEF BalanceInv

\* No other step moves an event.
LEMMA BalanceStep ==
    ASSUME TypeOK, TypeOK', ValueInv, ValueInv', ListInv, TableInv, BalanceInv, [Next]_vars
    PROVE  BalanceInv'
<1> USE DEF regionVars, pollVars, driverVars, history
<1>1. ASSUME NEW r \in Regions, NEW k \in Keys, record(r, k)
      PROVE  BalanceInv'
  BY <1>1, RecordBalance
<1>2. ASSUME optics_poller_backend
      PROVE  BalanceInv'
  BY <1>2, BalanceKept DEF optics_poller_backend
<1>3. ASSUME NEW now \in Times, NEW entries \in {{}, Regions}, poll_at(now, entries)
      PROVE  BalanceInv'
  BY <1>3, BalanceKept DEF poll_at
<1>4. ASSUME NEW r \in Regions, NEW opens \in BOOLEAN, poller_shm_cb(r, opens)
      PROVE  BalanceInv'
  <2>1. Lists(r)
    BY <1>4, ListOutcome
  <2> QED
    BY <2>1, BalanceKept DEF Lists
<1>5. ASSUME poll_nothing
      PROVE  BalanceInv'
  BY <1>5, BalanceKept DEF poll_nothing, Returned
<1>6. ASSUME optics_epoch_inc_at
      PROVE  BalanceInv'
  <2>1. PICK r \in Regions : Flips(r)
    BY <1>6, FlipOutcome
  <2> QED
    BY <2>1, BalanceKept DEF Flips
<1>7. ASSUME nap
      PROVE  BalanceInv'
  BY <1>7, BalanceKept DEF nap
<1>8. ASSUME NEW k \in Keys, NEW busy \in BOOLEAN, poller_poll_lens(k, busy)
      PROVE  BalanceInv'
  BY <1>8, ReadBalance
<1>9. ASSUME foreach_end
      PROVE  BalanceInv'
  BY <1>9, BalanceKept DEF foreach_end
<1>10. ASSUME NEW k \in Keys, poller_backend_record(k)
       PROVE  BalanceInv'
  BY <1>10, ToldBalance
<1>11. ASSUME poll_done
       PROVE  BalanceInv'
  BY <1>11, BalanceKept DEF poll_done, Returned
<1>12. ASSUME stop_requested
       PROVE  BalanceInv'
  BY <1>12, BalanceKept DEF stop_requested
<1>13. ASSUME thread_cancelled
       PROVE  BalanceInv'
  BY <1>13, CancelBalance
<1>14. ASSUME UNCHANGED vars
       PROVE  BalanceInv'
  BY <1>14, BalanceKept DEF vars
<1>15. ASSUME NEW k \in Keys, poll_freed(k)
       PROVE  BalanceInv'
  BY <1>15, FreedBalance
<1> QED
  BY <1>1, <1>2, <1>3, <1>4, <1>5, <1>6, <1>7, <1>8, <1>9, <1>10,
     <1>11, <1>12, <1>13, <1>14, <1>15
     DEF Next, PollStep

\* Every event that clients record is, for each of the registered backends, told
\* to it, still in the table or in a slot of some region, or missed or dropped
\* for one of the reasons of LossIsExplained: none is told twice, none forgotten,
\* for any number of regions, keys, backends, events and polls, wherever in the
\* loop over the backends the thread was cancelled.
THEOREM NoEventForgotten == Spec => []CountsConserved
<1>1. Init => BalanceInv
  <2> SUFFICES ASSUME Init PROVE BalanceInv
    OBVIOUS
  <2>1. /\ recorded \in [Regions -> [Keys -> Nat]]
        /\ \A k \in Keys : values[k] = None
    BY DEF Init
  <2>2. ASSUME NEW b \in 1 .. MaxBackends, NEW k \in Keys PROVE Balance(b, k)
    <3>1. told[b][k] = 0 /\ missed[b][k] = 0 /\ lost[k] = 0 /\ Untold(b, k) = 0
      BY DEF Init, Untold
    <3>2. \A r \in Regions : recorded[r][k] = slot[r][0][k] + slot[r][1][k] /\ recorded[r][k] = 0
      BY DEF Init, Epochs
    <3>3. Recorded(k) = InSlots(k)
      BY <3>2 DEF Recorded, InSlots
    <3>4. Recorded(k) \in Nat
      <4>1. [r \in Regions |-> recorded[r][k]] \in [Regions -> Nat]
        BY <2>1
      <4> QED
        BY <4>1, RegionsAssumption, TotalNat DEF Recorded
    <3> QED
      BY <3>1, <3>3, <3>4 DEF Balance
  <2> QED
    BY <2>1, <2>2 DEF BalanceInv
<1>2. IndInv /\ IndInv' /\ BalanceInv /\ [Next]_vars => BalanceInv'
  BY BalanceStep DEF IndInv
<1>3. IndInv /\ BalanceInv => CountsConserved
  <2> SUFFICES ASSUME IndInv, BalanceInv, NEW b \in 1 .. Len(backends), NEW k \in Keys, Counted(k)
               PROVE  Balance(b, k)
    BY DEF CountsConserved, Balance, Recorded, InSlots
  <2>1. b \in 1 .. MaxBackends /\ b <= Len(backends)
    BY BoundsAssumption DEF IndInv, ValueInv
  <2> QED
    BY <2>1 DEF BalanceInv, Registered
<1> QED
  BY <1>1, <1>2, <1>3, Invariant, PTL DEF Spec
=============================================================================
