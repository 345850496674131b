# A verification project for optics

Optics is a metrics library.  Client processes keep their metrics ("lenses") in
a shared-memory region and record into them from many threads; a polling
process opens every region once a second, reads and resets the lenses and hands
the values to its backends.  Client and poller share memory and no lock, so the
correctness of the library rests on a handful of lock-free protocols; around
them are a poller that merges what many processes left behind, backends that
publish it, and a small HTTP server.  This directory models them in TLA+, checks
the models with TLC and proves with TLAPS that the safety properties hold of the
models for every value of their constants.

## Inventory

| component | state | operations | shared with | what makes it correct |
|---|---|---|---|---|
| lens registry (`optics.c`, `lens.c`) | name table, doubly linked list, two deferred-free lists, epoch | alloc, alloc_get, get, free, foreach, epoch_inc | client threads (lock), poller (no lock) | the list's assertions; a walk stays on live memory, misses and repeats nothing; a removed lens is reclaimed once, not too early, and eventually |
| counting lenses (`lens_counter.c`, `lens_histo.c`, `lens_quantile.c`) | two slots per cell | inc, update, read | recording threads, poller | no event lost or counted twice; bounded delay of stragglers |
| distribution lens (`lens_dist.c`) | two locked reservoirs | record, read, merge | recording threads, poller | count and samples are those of the records, merged ones included, as long as no record overlaps a read; the poller never waits |
| gauge (`lens_gauge.c`) | one atomic word | set, read | recording threads, poller | last value wins: no protocol |
| region (`region.c`) | shm file, mappings, end of the used part | create, open, close, unlink, grow, ptr | client threads, other processes | translated offsets lie in a mapping, growth hands out disjoint memory, one owner per file, nothing left behind |
| allocator (`alloc.c`) | per class a locked list and a lock-free free list | alloc, fill, free | client threads, poller | every block in exactly one place |
| poller (`poller.c`, `poller_poll.c`) | regions of a poll, table of merged values, backends | poll, record to the backends | clients, backends | every event told once; rates divided by the right window; arrays not overrun |
| poller thread, daemon (`poller_thread.c`, `opticsd.c`) | thread handle, signal flag | start, stop, loop | poller | a stop request ends the loop |
| backends (`backend_rest.c`, `backend_carbon.c`, `backend_stdout.c`) | REST: two tables and a lock; Carbon: a socket | begin, metric, done; HTTP get | poller, HTTP thread | a reader sees exactly one finished poll; a fault of the network costs little |
| hash table (`utils/htable.c`) | buckets, probed within a window | get, put, xchg, del, next, reserve, reset | registry, poller | behaves as a map; a walk meets each key once |
| keys, shm listing (`utils/key.c`, `utils/shm.c`) | bounded name; directory | push, pop; foreach | poller | push and pop are inverse |
| HTTP server (`utils/crest/`) | tree of routes, requests, bodies | add, bind, route, process | REST backend | a request reaches the best resource, passes all checks and is answered |

Clients and the poller interact only through memory: the epoch word (read by
every record, written by the poller), the list head and next pointers (written
under the client's lock, followed by the poller without it), the deferred-free
heads (pushed by clients, exchanged by the poller), the allocator's free lists
(pushed by both, taken by clients), the slots of the lenses, and the length and
the name of the file.  The hard behaviours follow from that: stragglers that use
an epoch they read long ago, removal under a walk, growth of the file after the
poller mapped it, death of the poller in the middle of a poll or of a client
with a lock, compare-and-swap loops against exchanges, a creation that is opened
half way.  The polling process has its own: clocks that go back, lenses of
several regions that disagree, cancellation, readers of a table that is being
replaced, servers that stop answering.  `PROJECT.json` lists each as a hazard
with its line.

## Modules

| module | models | state and actions |
|---|---|---|
| `LensList` | one region's registry and one poll of it after another | `lens_alloc` / `optics_lens_alloc` / `optics_lens_exists` / `lens_free` are the four outcomes of registration; `optics_lens_free`, `defer_alloc`, `optics_epoch`, `defer_load`, `defer_cas`, `defer_cas_fail` are removal, one shared access per action; `optics_open` ... `optics_close` are the steps of a poll |
| `Snapshot` | the two slots of counting cells | `record_epoch`, `record_add`; `optics_epoch_inc`, `read`, `foreach_broken` (a walk that breaks off), `backend_record`, `poller_killed` |
| `Delivery` | abstract: events are published at most once and never before they are recorded | `Record`, `Publish` |
| `DistLens` | one distribution lens and the value its reads are merged into | `record_*` are the accesses of `lens_dist_record`, `read_*` those of `lens_dist_read`, which looks at the lock and does not take it, so that a record can begin during a read (`overlapped` remembers it); `lens_dist_merge` with what other regions hold (`Others`) is part of `read_unlock`; `client_dies` with the lock |
| `Region` | `region_grow` against `region_ptr` | `grow_*` (under the region's lock), `ptr_*` (without it) |
| `Alloc` | one size class of the allocator | `alloc_*`, `fill_*` (the slab, outside the lock), `free_*` (lock-free) |
| `RegionFile` | the life of region files: several creators, a poller, names, crashes, failing calls | `create_wipe` ... `create_finish` are `region_create` and `optics_create_at`, one store visible to a poller per action (magic and version, without both of which no poller opens the file, are one); `record` loads the epoch and `record_add` adds; `optics_close` with a `region_close` that may fail before its unlink, `optics_unlink`, `crash`; `poll_*`, of which `poll_last`, `poll_store` and `poll_flip` are the three accesses of `optics_epoch_inc_at` |
| `HTable` | the hash table, as a function from bucket numbers to buckets | one action per operation, with its resize; a `htable_put` that makes room and calls itself is two; `walk` is one round of a loop over `htable_next` |
| `KeyMap` | abstract: a finite map with the answers of its operations | `Get`, `Put`, `Xchg`, `Del`, `Reset` |
| `Poller` | polls over several regions, composed with the thread or the daemon that drives them and with the backends' side of a record | `poll_at`, `poller_shm_cb`, `optics_epoch_inc_at`, `nap`, `poller_poll_lens`, `foreach_end` (the walk ends or breaks off), `poller_backend_record` (one backend is told of one key), `poll_freed`, `poll_done`; `stop_requested`, `thread_cancelled` |
| `Backends` | REST and Carbon backends, composed on one stream of records | `poll_begin`, `poll_metric`, `poll_done`, `swap_*`; `rest_get_*` on the HTTP thread; `carbon_*` line by line; `cancelled` inside a connect or a send, and the two frees |
| `Crest` | the HTTP server | `crest_add`, `crest_bind`; `request`, then the calls of libmicrohttpd `call_headers`, which may end the process (`optics_abort`), `call_data`, `call_end`; `sent`, `client_gone` |
| `MC*` | instances for TLC | sets of model values, symmetry |
| `*Proofs` | theorems and their proofs; those about `Region` are in `RegionFileProofs`, those about `HTable` and `Crest` in `UtilsProofs` | |

Operators named "faulty variant" are never used by a specification; they are
plausible bugs against which each property was tried, one at a time, in place
of the operator that follows them.

Modelling decisions:

* A critical section is one action when it makes a single access that somebody
  outside the lock can observe.  That holds for the registry (one store of the
  head or of one next pointer) and for the allocator (one exchange).  It does
  not hold for `region_grow`, the distribution lens and the REST table, which
  are split.
* Memory is sequentially consistent, in program order.  The code's
  acquire/release pairs order the accesses the models rely on; weaker outcomes
  of the relaxed accesses are not modelled.  The non-atomic `dist->n++` is: it
  may start from the `n` loaded earlier in the call.
* Of the epoch only its parity is kept; the code uses nothing else.
* A freed block is scrubbed, as `alloc_free` does (`memset 0xFF`).  `LensList`
  draws lenses and deferred-free nodes from two pools and leaves the lists of
  the allocator to `Alloc`, and keeps the name table as a map (`KeyMap` is what
  it relies on, `HTable` how the code does it).
* One poller at a time, as `arch.md` requires.  In `LensList` and `Snapshot` it
  can be killed at any step and another one takes over.
* `Region` keeps of an access only its end.  The test of `region_ptr` against
  the header's length is left out: every offset the library translates was
  handed out after the header.
* `Poller` keeps of a value its type, its layout and the number of events in it,
  and takes records as single steps: stragglers are the subject of `Snapshot`
  and `DistLens`.  A distribution may be found busy at any read.  `Total` adds
  the events of all regions up; their number is finite, as that of the files of
  a directory is.
* Whether a name fits the prefix of the header is left open in `RegionFile`: a
  creation may fail there.  It marks an event as late when the poll that should have drained it is
  over: its record was a straggler, or the walk of that poll broke off.  `early`
  marks a region whose creation ended inside a poll.
* `DistLens` keeps of a sample the record it came from.  A reservoir of another
  region is its length, and its samples are told apart by their index.
* A table of `HTable` that needs more than `MaxCap` buckets has no successor, as
  `optics_assert_alloc` ends the process; the set of outcomes of `htable_resize`
  is then empty.  `call` remembers the arguments of a `htable_put` between its
  two calls, `it` and `met` are the loop over `htable_next`; every other
  operation ends that loop.
* A path of `Crest` is a sequence of segments; `Wildcards` and `Stars` are the
  tokens that begin with `:` and `*`.  A node of the tree is the edges that lead
  to it.
* `Backends` keeps of a value the parity of its poll, `Crest` of a body how many
  bytes arrived.  `qsort` is its contract: any permutation in the order of
  `metrics_cmp`.  The network, libmicrohttpd and process death are external:
  they are the outcomes that the code handles.

## Runs

| run | instance | checks |
|---|---|---|
| `lens_registry` | 1 thread, 3 lenses, 2 nodes, 3 names, file that grows from empty, killed poller | `DrainSound`, `GracePeriod`, `ListAsserts`, `SafeTraversal`, `WalkExact` |
| `lens_live` | 1 thread, 2 lenses, 3 nodes, 2 names | `Reclaimed` |
| `snapshot` | 2 threads, 2 cells, 2 records each, one poll that is killed or breaks off | `Conservation`, `BoundedDelay`, `ImplementsDelivery`, `AllPublished` |
| `dist_reservoir` | 2 threads, reservoir of 2, 3 records, merged with what 0, 1 and 3 records of other regions left, stragglers at any moment, a client that dies | `LostOnlyByOverlap`, `ReservoirSound`, `MergedWhole`, `FaultOnlyByOverlap`, `AllCollected`, `NeverStuck` |
| `dist_overlap` | the same specification | violates `CountConserved` |
| `region_safety` | 2 threads, file of 2 doubling to 8 | `AccessSound`, `LegitResolves`, `GrowDisjoint` |
| `alloc_safety` | 2 threads, 2 slabs of 3 | `NextBlockSound`, `EveryBlockAccounted` |
| `htable` | 5 keys, 2 values, window of 2, at most 16 buckets | `TableSound`, `ImplementsMap` |
| `poller` | 3 regions of which 2 fit a poll, 3 backends of which 2 are accepted, 2 polls, 1 event, times 2 and 3 | `CountsConserved`, `LossExplained`, `ElapsedSound`, `WindowsTile`, `ArraysBounded`, `StopEnds` |
| `region_file` | 2 clients that use one name, 2 files, clock to 2, 1 event at a time | `OneOwner`, `NoLeftover`, `WindowSound` |
| `backends` | a counter and a histogram, 3 tables, times 1 and 2 | `ResponseWhole`, `TablesOwned`, `DamageBounded`, `PollEnds` |
| `crest` | 7 overlapping patterns, 1 connection, bodies shorter, equal to and longer than announced | `RoutedToBest`, `HandlersGuarded`, `BodyWhole`, `Answered` |

The type invariant of `HTable`, `Poller`, `RegionFile`, `Backends` and `Crest`
is a conjunct of `TableSound`, `ArraysBounded`, `OneOwner`, `TablesOwned` and
`BodyWhole` and is proved with it; that of the other five is a theorem of its own
(`TypeCorrect`, `RegionTypeCorrect`).  `Region` and `Crest` put their name in front
of `Init`, `Next`, `Spec` and `TypeOK`, so that a proof module can extend them
together with another.

What the properties say, in the order of the hazards:

* A removed lens is given back once, not before the epoch has moved on, and
  eventually; what a drain touches lies in the poller's mapping
  (`DrainSound`, `GracePeriod`, `Reclaimed`).  The walk stays on live lenses,
  meets none twice and none that was there all along is missed, unless it lies
  beyond the mapping (`SafeTraversal`, `WalkExact`).
* No event is lost or counted twice, and the poll that is killed takes only what
  it held with it (`Conservation`, `ImplementsDelivery`, `AllPublished`).  An
  event is published by the next poll, a straggler's by the one after it at the
  latest; a poll that is killed starts that count again, and so does a walk that
  breaks off, for the cells it did not reach (`BoundedDelay`).
* A reservoir holds samples of the records of its epoch, each at most once, and
  its maximum (`ReservoirSound`); merging fills or draws, and leaves no place
  undefined (`MergedWhole`); and every record that was counted is collected once
  (`LostOnlyByOverlap`).  Each of these holds until a straggler takes the lock
  between the poller's look at it and the poller's unlock, and only such a
  straggler can make a client draw from an empty range (`FaultOnlyByOverlap`).
  Held locks, late records and a dead client alone are harmless: the lens is
  skipped, and the poller gets on (`AllCollected`, `NeverStuck`).
* The hash table answers like a map through every collision, hole and resize
  (`ImplementsMap`), and a walk by `htable_next` meets each key once.
* Seen from each registered backend, an event was told to it or is still
  somewhere.  It is dropped by quantiles of one key that disagree on their
  target or have the target 0, and missed by a backend when the thread is
  cancelled: then those in front of it in the loop may have been told of the key
  (`CountsConserved`, `LossExplained`).  A key's rate is divided by the longest
  window it was collected over, and windows leave no gap when a poll misses a
  region (`ElapsedSound`, `WindowsTile`).
* However two creations of one name interleave with closes, crashes and failing
  calls, no file has two owners (`OneOwner`), and the only files left are those of
  processes that died or whose `munmap` or `close` failed (`NoLeftover`).  What a
  poll takes was recorded inside the window it divides by, unless it was late;
  and the window does not reach back behind the creation of the region, unless
  that ended inside this poll or the one before it (`WindowSound`).
* An HTTP response is the table of one finished poll, sorted, never a freed or a
  half built one (`ResponseWhole`, `TablesOwned`).  Carbon connects at most once
  a poll, and a line it cannot send in full costs that line and the next
  (`DamageBounded`).  A poll comes to its end, unless a connect or a send never
  returns or requests for the table never cease (`PollEnds`).
* The router finds the most definite of the patterns that match, coming back from
  every dead end (`RoutedToBest`), which is stated without the tree.  A request is
  answered, also when its body is longer than announced, unless its client goes
  away or the allocation of the body ends the process (`Answered`).

Why the bounds are enough.  Three lenses are needed for a walk that stands in
the middle of a list while both neighbours change, two nodes for a list with a
tail, three of them in `lens_live` because a node is freed after its lens.  Two
threads on two cells give a straggler beside a record of the new epoch.  A
reservoir of two with three records overflows; other reservoirs that are empty,
partly full and overflown make a merge copy, copy and then draw, and draw from
two samples.  Two doublings pair an old mapping with a new end; slabs of three
are the smallest the code accepts, and two of them are filled by two threads at
once.  Five keys with chosen hashes collide in a window of two, wrap around the
end of the table and overflow it during a resize; no sequence of calls needs more
than the 16 buckets of `MaxCap`.  Three regions for two places
leave one out of a poll, and the two polls read it late; two accepted backends
can be told apart by a cancellation, and a third finds no room; the two times and the
creation times make the clock advance, stand still and go back.  REST never has
more than two tables at a time (the current one, and the one that is built or
about to be freed); a third is there so that a leak does not stop the model.  The
patterns of
`crest` contain a token, a wildcard and a star at the same place of the tree and a
dead end behind each.  Clients of `LensList`, `Region`, `Alloc` and `HTable` never
stop; the caps are `MaxRecords`, `MaxCuts`, `MaxPolls`, `MaxFiles`, `MaxTime`,
`MaxEvents`, `MaxCap` and the sets `Times` and `Requests`.

In `RegionFile` one event at a time is enough (`MaxEvents`): `WindowSound` speaks of
each event by itself, and no step looks at the others.  Two seconds tell before
from after, and a clock that moves inside a poll from one that stands.  One name is
enough as well: what two processes do to each other they do through a name they
share, and the two files that it stood for are open side by side.

Fairness.  The polling thread loops for ever (`poller_thread.c`), so its steps
are weakly fair; a client thread inside a library call keeps running, so the
steps of a deferred free and of a record are weakly fair once begun.  Nothing
makes a client register, free or record, nothing kills a process for certain.
The spin locks are not fair (`lock.h`), so no action has strong fairness: a
thread that spins on the lock of a distribution lens, and the polling thread
that swaps the REST tables, are sure of it only when it stays free.  `PollEnds`
makes an exception of requests that take the lock again and again.  A connect or
a send of Carbon has no timeout and need not return: these steps have no
fairness, and `PollEnds` makes an exception of a thread that stays in one.
`Poller` takes the callbacks of the backends to return.  For the thread
`StopEnds` does not depend on it, since connect and send are cancellation
points; for the daemon it does, beyond the one call that SIGINT interrupts.  In
`Crest` the loop of libmicrohttpd serves every connection, and a client that
does not go away sends its bytes.  The deferred push is lock-free and not
wait-free: with two threads a single one may starve in its compare-and-swap loop
while the other gets through again and again, so `Reclaimed` is checked with one
client thread against the poller.

## Findings

`dist_overlap`: `lens_dist_read` tests the lock and does not take it; a
straggler in that window loses its record, can find the range of
`rng_gen_range` empty, and has its lock opened by the poller, so that it opens in
turn the lock of the next thread.  `LostOnlyByOverlap` and `FaultOnlyByOverlap` say
that nothing else does such damage; `slock_try_lock` would close the window.

Behaviours of the code seen while modelling it, for which there is no run:

* A lens pushed into a part of the file younger than the poller's mapping makes
  `optics_foreach_lens` give up, and the lenses behind it miss that poll
  (`optics.c:378`); the poller drops the result (`poller_poll.c:163`) and publishes
  what it has.  `WalkExact` is stated for walks that reach the end; `BoundedDelay`
  and `CountsConserved` say what becomes of the others.
* `optics_lens_free` looks its lens up by name: a stale handle of a name that was
  registered again meets the assertion of `lens.c:158`.  `StaleFree = TRUE`
  models it; the runs and proofs assume handles are not used after a free.
* Reading `pos` after `ptr` does not make the bounds check of `region_ptr_unsafe`
  exact during a resize (`region.c:301-303`); what the library translates is safe
  all the same (`AccessSound`).
* A poll that opens a region in the middle of its creation may find `epoch_last_inc`
  still 0, and the creation may store its own time before, after or between the
  accesses of the poll (`optics.c:140`, `330-331`).  The window then begins before
  the creation, in that poll or in the next: a rate comes out too low, but no event
  lies outside of its window (`WindowSound`).
* An owner whose `munmap` or `close` fails returns from `region_close` before the
  unlink, and `optics_close` does not look at the result (`region.c:197-211`).
* The close of a region unlinks by name, so the first of two creators of one name
  removes the file of the second.  `optics_unlink_all` stops after one file.
* `shm_foreach` returns an uninitialised value when the directory is empty, on
  which the daemon may abort (`poll_nothing`).
* A quantile compares its target after it has drained the cell (`LossExplained`).
* `lens_dist_value_cmp` truncates the difference of two doubles to `int`
  (`lens_dist.c:63`): samples less than 1 apart sort as equal.
* The REST backend goes on serving the last table when no region is left, and
  writes a histogram's two outer cells under each other's name
  (`backend_rest.c:148-149`).
* Carbon closes descriptor 0 when it never connected, and sends nothing when two
  polls fall into the same second and the connection is down (`MayAttempt`).
* Carbon's `send` has no timeout: a server that stops reading while it keeps the
  connection open holds up the polling thread, and with it all backends.
* A body of the announced length is allocated before any of it arrives, and
  `optics_assert_alloc` ends the process when that fails (`crest.c:263-264`).
* `crest.c:261` has `MHD_NO;` without `return`; a body is leaked when its client
  goes away during the upload; `crest_req_read` does not advance.

## Proofs

Every safety property of the passing runs, the two refinements included, is
proved of the models for any number of threads, processes, regions, keys, requests
and polls and any size of the other constants.  The assumptions on the constants are
the named `ASSUME`s of the modules, which TLC evaluates on the instances;
`LensListProofs` assumes in addition that no stale handle is freed.

* `LensListProofs` (assumes no stale handle is freed).  No property is
  inductive alone.  `IndInv` adds: what a thread's control point says of the
  blocks it holds (`LocalsInv`, `DistinctInv`), that table and list hold the
  same lenses (`KeysInv`, `ListInv`), that the deferred-free lists are disjoint
  chains nothing else points into (`ChainInv`) and that each removed lens is
  claimed by one node or thread (`ClaimInv`).  `FreshInv` is the heart of the
  grace period: what is on the idle epoch's list, or held by a thread late
  enough to push there, was removed before the last increment.  `ViewInv`
  carries that over to the mapping, which is younger than that increment.
  `CoverInv` says a walk can only reach what was linked when it began: lenses
  are reclaimed between walks only, as long as there is one poller.
  `WalkIsExact` needs the order of the list, which no variable holds: `OrderInv`
  says there is a rank that falls along the next pointers, those of lenses
  removed under the walk included, such that what the walk has seen lies above
  its cursor and what it has still to meet at or below it.  A push ranks the new
  lens above the head; a removed lens keeps its rank, and what lies between it
  and the lens it still points to has left the list.
* `SnapshotProofs` (any number of polls that are cut short): `Conservation` is
  inductive with the types and with `PollInv`, which ties a poll to the slot its
  flip vacated.  `AgeInv` says how old the events in the two slots can be: what
  is in the current slot was recorded after the last flip but one, and so was
  what is in both together once the vacated slot is drained.  Both count from
  the last poll that was cut short before the cell, which the two marks forget.
  `DelayBounded` combines the age of a straggler's event with what a poll must
  drain.  Delivery is proved as a refinement: every step is a step of `Delivery`
  or leaves its variables alone.
* `DistLensProofs`: the inductive invariant is `TypeOK` and, until a straggler
  takes the lock during a read, `IInv` and `SInv` (`Undamaged`); an overlap is
  remembered for good.  `LockHeld` and `ReadFree` tie the lock word to who is in
  the critical section, `Loaded` and `Copied` say that what was loaded is still
  there when it is used. For the samples, `SInv` adds who holds a value: a
  thread on its way to store it, one place in use of one slot, or the poller
  (`SampleInv`, `DistinctInv`, `HolderInv`, `FreshInv`, `GotInv`).  Which places
  are in use is what `n` says, since the reset leaves the samples where they
  are; the place a thread stores to is the first that is not, until the
  reservoir is full (`IndexInv`), and the maximum covers all but the one that is
  about to be counted (`MaxInv`).  `MergeIntoWhole` is what `lens_dist_merge`
  makes of two reservoirs: it copies, then overwrites drawn places, of which the
  last draw of each decides (`LastDraw`), so that the result is again full and
  without repetition.
* `Region`, at the end of `RegionFileProofs` (`RegionInv`): `PosInv` says how
  far each step of a growth has come and that the end never passes the mapping
  that will be in use with it; `ReadInv` keeps an access that was legitimate
  within the mapping it loaded.
* `AllocProofs`: `PlaceInv` partitions the blocks, `Lists` and `LinkInv` say
  each list is closed under its links and points into nobody else's blocks.
  `NoBlockLost` is about reachability: `ChainsInv` says that the blocks of each
  list have heights, the numbers of links to its end, that no two share and of
  which the head has the greatest, so that a closed set that holds the head holds
  the list: the highest block it missed would have a predecessor that it holds
  (`ReachableIsList`).  `SomewhereInv` says that no block is in no place.
* `RegionFileProofs`: `ClientInv` says what a client's control point tells of its
  file and name, `OwnerInv` that no two have the same file, `NameInv` who a name
  stands for: a creator that still has the file, or one that left it.  A file
  belongs to the one client whose exclusive creation made it; a wipe takes the name
  from it and no more.  For the windows, `Fits` places an event, counted (`SlotInv`)
  or still to be added by a record that has loaded the epoch (`RecordInv`), against
  the time that a poll will find, has found or has replaced, depending on how far
  the three accesses of the poll have come; an event that fits none of these is
  late.  `EarlyInv` says when these times lie behind the creation.
* `BackendsProofs`: `RefInv` says that the tables that live are those the three
  pointers name, and which of the pointers may be equal at which step;
  `BuildInv`, `ServedInv` and `RespInv` follow the metrics of a poll from the
  table under construction through the sort (`Sorted`) and the swap to the
  response.  `CarbonInv` keeps the account of the lines that a fault may still
  cost (`Owes`).
* `PollerProofs`: `ListInv` keeps the loops inside the list, `TableInv` says
  which regions a value was read from, `TileInv` how far the windows of a region
  reach while its last one is still to be read.  `NoEventForgotten` balances the
  events of a key for each backend by itself: recorded = told + missed + lost + in the
  value, as long as this backend has not heard of it (`Untold`), + in slots
  (`BalanceInv`); each read moves what it takes (`Takes`) or accounts for it, and
  while backends are registered the balance holds for those that will be refused
  too.  It rests on what a sum is (`SumsExist`, `TotalNat`, `TotalRaised`).
* `UtilsProofs`, the hash table (`TableInv`): a table is `WellFormed` when every
  key lies in a bucket of its window (`Placed`) and in no second one
  (`Single`).  Both are needed for a lookup that stops at the end of the window
  to be right, and a deletion must keep them with holes anywhere in the window.
  The contents of a table are determined by the set of its pairs
  (`SameContents`); a rehash moves the pairs of the buckets one after the other
  or overflows (`MovedUpTo`), so a resize changes nothing that a caller can see
  and every call is the step of `KeyMap` with the same name. `WalkInv` says what
  a walk has met: each key that is behind it, once.
* `UtilsProofs`, the HTTP server (`CrestInv`): `RouterInv` says that the tree
  holds each accepted resource in the node of its pattern, that no two share
  one, and that every step on the way to it has a node.  The resources that
  match and lie below a node are those below its two children and those
  registered at it (`FitHere`, `FitBelow`), and all patterns below a node have
  the same kinds up to it, so that the next step decides which goes first
  (`NextStepDecides`).  Searching the child of the token, then that of the
  wildcard, then taking the star is therefore searching them in the order of
  preference (`BestFrom`); `RouteIsBest` is the induction over the distance to
  the end of the path.  `ConnInv` ties the router to the requests (no request
  before `crest_bind`, no `crest_add` after it) and the bytes stored and still
  to come to those of the request.

Induction over data, which the provers cannot take from the library's induction
theorems, is done by a smallest counterexample where it is needed: the least
member of a set of numbers (`Least`) is a consequence of well-foundedness that
has no operator as a parameter.  The sums of `Poller`, the draws of a merge, the
chains of the allocator, the loops of `path_new` and of a rehash and the search of
the router are proved that way.  That a function defined by such a recursion
exists is proved the same way (`MovesExist`, `TakesExist`, `RoutesExist`).

Only model-checked: the liveness properties (`Reclaimed`, `AllPublished`,
`AllCollected`, `NeverStuck`, `StopEnds`, `PollEnds`, `Answered`); fairness and
`ENABLED` are out of the prover's reach.

## Not modelled

Left out, and why:

* metric keys (`utils/key.c`), the stdout backend, logging, JSON and text: string
  building without shared state or failure handling; the models use whole keys.
* percentiles, the bucket of a value, the drift of a quantile's estimate and
  normalisation by the elapsed time: arithmetic on doubles.  `Poller` checks what
  goes into them.
* the size class of a length in `alloc.c`: stateless bit arithmetic.
* option parsing, daemonize and syslog of `opticsd.c`; errors and timers.
* weak memory, beyond the one non-atomic increment above.
