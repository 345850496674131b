------------------------------ MODULE LensList ------------------------------
(***************************************************************************)
(* The lens registry of one optics region (src/src/optics.c, lens.c): the  *)
(* name table, the doubly linked list of lenses that the poller walks      *)
(* without a lock, the two-slot epoch and the deferred free lists keyed by *)
(* it, and the blocks each poll can see of a file that keeps growing.      *)
(*                                                                         *)
(* Threads are the threads of the process that created the region; the     *)
(* poller is another process, and the system has one (arch.md).  Critical  *)
(* sections under optics->lock are single actions: each makes exactly one  *)
(* store the lock-free poller can observe (the head, or one next pointer), *)
(* since prev and the name table are only touched under that lock.         *)
(*                                                                         *)
(* Blocks for lenses and blocks for deferred-free nodes are drawn from two *)
(* pools; the allocator itself is the subject of module Alloc.             *)
(***************************************************************************)
EXTENDS Naturals, FiniteSets

CONSTANTS
    Threads,    \* client threads of the process that owns the region
    Lenses,     \* blocks that can hold a struct lens
    Nodes,      \* blocks that can hold a struct optics_defer
    Names,      \* metric names
    Null,       \* offset 0
    Base,       \* blocks inside the file when the region is created
    StaleFree,  \* TRUE: a thread may free through a handle it kept too long
    PollerDies  \* TRUE: the polling process can be killed at any point

ASSUME NullAssumption == Null \notin Lenses \cup Nodes
ASSUME PoolsAssumption == Lenses \cap Nodes = {}
ASSUME BaseAssumption == Base \subseteq Lenses \cup Nodes
ASSUME FlagsAssumption == StaleFree \in BOOLEAN /\ PollerDies \in BOOLEAN

VARIABLES
    \* struct optics_header and struct optics
    lens_head,     \* first lens of the list
    epoch,         \* header->epoch & 1, the only part of it that is used
    epoch_defers,  \* heads of the two deferred-free lists
    keys,          \* name table of the owning process
    \* struct lens
    next, prev, name,
    state,         \* life of the block: free, private, linked, removed
    \* struct optics_defer
    nodeOff, nodeNext,
    \* locals of the client threads
    pc, arg, node, ep, old,
    \* locals of the poller
    ppc, view, reap, cursor,
    \* blocks the file has been grown to hold
    file,
    \* history variables
    usedNodes,     \* nodes handed out by the allocator
    chain,         \* nodes pushed on each deferred-free list
    reaping,       \* nodes of the list the poller is draining
    fresh,         \* lenses removed since the last epoch increment
    cover,         \* lenses linked when the running walk read the head
    visited        \* lenses the running walk handed to the callback

header  == <<lens_head, epoch, epoch_defers, keys>>
lensVars == <<next, prev, name, state>>
nodeVars == <<nodeOff, nodeNext, usedNodes, chain>>
threadVars == <<pc, arg, node, ep, old>>
pollerVars == <<ppc, view, reap, cursor, reaping, cover, visited>>
vars == <<header, lensVars, nodeVars, threadVars, pollerVars, file, fresh>>

Epochs == {0, 1}
PcStates == {"idle", "insert", "dup", "defer", "epoch", "load", "cas"}
PpcStates == {"closed", "exchange", "reap", "reapNode", "head", "walk", "done", "err"}
LensOrNull == Lenses \cup {Null}
NodeOrNull == Nodes \cup {Null}

TypeOK ==
    /\ lens_head \in LensOrNull
    /\ epoch \in Epochs
    /\ epoch_defers \in [Epochs -> NodeOrNull]
    /\ keys \in [Names -> LensOrNull]
    /\ next \in [Lenses -> LensOrNull]
    /\ prev \in [Lenses -> LensOrNull]
    /\ name \in [Lenses -> Names \cup {Null}]
    /\ state \in [Lenses -> {"free", "private", "linked", "removed"}]
    /\ nodeOff \in [Nodes -> LensOrNull]
    /\ nodeNext \in [Nodes -> NodeOrNull]
    /\ pc \in [Threads -> PcStates]
    /\ arg \in [Threads -> LensOrNull]
    /\ node \in [Threads -> NodeOrNull]
    /\ ep \in [Threads -> Epochs]
    /\ old \in [Threads -> NodeOrNull]
    /\ ppc \in PpcStates
    /\ view \subseteq Lenses \cup Nodes
    /\ reap \in NodeOrNull
    /\ cursor \in LensOrNull
    /\ file \subseteq Lenses \cup Nodes
    /\ usedNodes \subseteq Nodes
    /\ chain \in [Epochs -> SUBSET Nodes]
    /\ reaping \subseteq Nodes
    /\ fresh \subseteq Lenses
    /\ cover \subseteq Lenses
    /\ visited \subseteq Lenses

Linked == {l \in Lenses : state[l] = "linked"}

Init ==
    /\ lens_head = Null
    /\ epoch = 0
    /\ epoch_defers = [e \in Epochs |-> Null]
    /\ keys = [n \in Names |-> Null]
    /\ next = [l \in Lenses |-> Null]
    /\ prev = [l \in Lenses |-> Null]
    /\ name = [l \in Lenses |-> Null]
    /\ state = [l \in Lenses |-> "free"]
    /\ nodeOff = [d \in Nodes |-> Null]
    /\ nodeNext = [d \in Nodes |-> Null]
    /\ pc = [t \in Threads |-> "idle"]
    /\ arg = [t \in Threads |-> Null]
    /\ node = [t \in Threads |-> Null]
    /\ ep = [t \in Threads |-> 0]
    /\ old = [t \in Threads |-> Null]
    /\ ppc = "closed"
    /\ view = {}
    /\ reap = Null
    /\ cursor = Null
    /\ file = Base
    /\ usedNodes = {}
    /\ chain = [e \in Epochs |-> {}]
    /\ reaping = {}
    /\ fresh = {}
    /\ cover = {}
    /\ visited = {}

-----------------------------------------------------------------------------
(* Registration: optics_<type>_alloc and optics_<type>_alloc_get.           *)

\* lens_alloc: a zeroed block of the region, grown when it has to be.
lens_alloc(t, n) ==
    /\ pc[t] = "idle"
    /\ \E l \in Lenses :
        /\ state[l] = "free"
        /\ arg' = [arg EXCEPT ![t] = l]
        /\ state' = [state EXCEPT ![l] = "private"]
        /\ next' = [next EXCEPT ![l] = Null]
        /\ prev' = [prev EXCEPT ![l] = Null]
        /\ name' = [name EXCEPT ![l] = n]
        /\ file' = file \cup {l}
    /\ pc' = [pc EXCEPT ![t] = "insert"]
    /\ UNCHANGED <<header, nodeVars, node, ep, old, pollerVars, fresh>>

\* lens_set_next, then the store of the head, both under optics->lock.
optics_push_lens(l) ==
    /\ next' = [next EXCEPT ![l] = lens_head]
    /\ prev' = [x \in Lenses |-> IF x = lens_head THEN l ELSE prev[x]]
    /\ lens_head' = l

\* The assertion of lens_set_next.
SetNextAssert == lens_head # Null => prev[lens_head] = Null

\* The name was free: enter it and push the lens.
optics_lens_alloc(t) ==
    /\ pc[t] = "insert"
    /\ keys[name[arg[t]]] = Null
    /\ SetNextAssert
    /\ keys' = [keys EXCEPT ![name[arg[t]]] = arg[t]]
    /\ optics_push_lens(arg[t])
    /\ state' = [state EXCEPT ![arg[t]] = "linked"]
    /\ pc' = [pc EXCEPT ![t] = "idle"]
    /\ arg' = [arg EXCEPT ![t] = Null]
    /\ UNCHANGED <<epoch, epoch_defers, name, nodeVars, node, ep, old,
                   pollerVars, file, fresh>>

\* htable_put found the name: the caller keeps, or gets, the other lens.
optics_lens_exists(t) ==
    /\ pc[t] = "insert"
    /\ keys[name[arg[t]]] # Null
    /\ pc' = [pc EXCEPT ![t] = "dup"]
    /\ UNCHANGED <<header, lensVars, nodeVars, arg, node, ep, old,
                   pollerVars, file, fresh>>

\* alloc_free overwrites the block: what it held is gone.
Overwrite(l) ==
    /\ state' = [state EXCEPT ![l] = "free"]
    /\ next' = [next EXCEPT ![l] = Null]
    /\ prev' = [prev EXCEPT ![l] = Null]
    /\ name' = [name EXCEPT ![l] = Null]

\* The lens that lost is freed at once: it was never linked.
lens_free(t) ==
    /\ pc[t] = "dup"
    /\ Overwrite(arg[t])
    /\ pc' = [pc EXCEPT ![t] = "idle"]
    /\ arg' = [arg EXCEPT ![t] = Null]
    /\ UNCHANGED <<header, nodeVars, node, ep, old, pollerVars, file, fresh>>

-----------------------------------------------------------------------------
(* Removal: optics_lens_free, then the deferred free of the block.          *)

\* The two assertions of lens_kill, "corrupted lens list".
KillAssert(l) ==
    /\ next[l] # Null => prev[next[l]] = l
    /\ prev[l] # Null => next[prev[l]] = l

\* Faulty variant: the successor keeps its prev pointer.
lens_kill_one_way(l) ==
    /\ prev' = prev
    /\ next' = [x \in Lenses |-> IF x = prev[l] THEN next[l] ELSE next[x]]

\* Faulty variant: the killed lens loses its own next pointer.
lens_kill_clears(l) ==
    /\ prev' = [x \in Lenses |-> IF x = next[l] THEN prev[l] ELSE prev[x]]
    /\ next' = [x \in Lenses |-> CASE x = prev[l] -> next[l]
                                   [] x = l -> Null
                                   [] OTHER -> next[x]]

\* Unlinks l.  Its own pointers stay: a walk standing on l goes on from it.
lens_kill(l) ==
    /\ prev' = [x \in Lenses |-> IF x = next[l] THEN prev[l] ELSE prev[x]]
    /\ next' = [x \in Lenses |-> IF x = prev[l] THEN next[l] ELSE next[x]]

\* optics_remove_lens moves the head when it named the removed lens.
HeadWithout(l) == IF lens_head = l THEN next[l] ELSE lens_head

\* htable_del succeeds whenever the NAME is registered, whatever lens holds
\* it: a handle kept after the lens was freed names its successor.
MayFree(l) ==
    /\ state[l] \in {"linked", "removed"}
    /\ keys[name[l]] # Null
    /\ StaleFree \/ keys[name[l]] = l

\* The locked section of optics_lens_free: htable_del, optics_remove_lens.
optics_lens_free(t, l) ==
    /\ pc[t] = "idle"
    /\ MayFree(l)
    /\ KillAssert(l)
    /\ keys' = [keys EXCEPT ![name[l]] = Null]
    /\ lens_kill(l)
    /\ lens_head' = HeadWithout(l)
    /\ state' = [state EXCEPT ![l] = "removed"]
    /\ fresh' = fresh \cup {l}
    /\ pc' = [pc EXCEPT ![t] = "defer"]
    /\ arg' = [arg EXCEPT ![t] = l]
    /\ UNCHANGED <<epoch, epoch_defers, name, nodeVars, node, ep, old,
                   pollerVars, file>>

\* Faulty variant: the lens is freed on the spot.
defer_alloc_immediate(t) ==
    /\ pc[t] = "defer"
    /\ Overwrite(arg[t])
    /\ pc' = [pc EXCEPT ![t] = "idle"]
    /\ arg' = [arg EXCEPT ![t] = Null]
    /\ UNCHANGED <<header, nodeVars, node, ep, old, pollerVars, file, fresh>>

\* optics_defer_free, its node allocated and filled.
defer_alloc(t) ==
    /\ pc[t] = "defer"
    /\ \E d \in Nodes \ usedNodes :
        /\ node' = [node EXCEPT ![t] = d]
        /\ nodeOff' = [nodeOff EXCEPT ![d] = arg[t]]
        /\ usedNodes' = usedNodes \cup {d}
        /\ file' = file \cup {d}
    /\ pc' = [pc EXCEPT ![t] = "epoch"]
    /\ UNCHANGED <<header, lensVars, nodeNext, chain, arg, ep, old,
                   pollerVars, fresh>>

\* No memory for the node: optics_lens_free returns false and the lens,
\* already out of the list and of the table, is never reclaimed.
defer_alloc_fail(t) ==
    /\ pc[t] = "defer"
    /\ Nodes \subseteq usedNodes
    /\ pc' = [pc EXCEPT ![t] = "idle"]
    /\ arg' = [arg EXCEPT ![t] = Null]
    /\ UNCHANGED <<header, lensVars, nodeVars, node, ep, old, pollerVars,
                   file, fresh>>

\* Faulty variant: the node goes to the list drained by the next poll.
Running_idle == 1 - epoch

\* The slot clients use, header->epoch & 1.
Running == epoch

\* optics_epoch: which of the two lists the node goes to.
optics_epoch(t) ==
    /\ pc[t] = "epoch"
    /\ ep' = [ep EXCEPT ![t] = Running]
    /\ pc' = [pc EXCEPT ![t] = "load"]
    /\ UNCHANGED <<header, lensVars, nodeVars, arg, node, old, pollerVars,
                   file, fresh>>

\* Faulty variant: the node is not linked to the rest of the list.
ReloadHead_unlinked(t) ==
    /\ old' = [old EXCEPT ![t] = epoch_defers[ep[t]]]
    /\ nodeNext' = [nodeNext EXCEPT ![node[t]] = Null]

\* Load of the list head into old and into the node's next.
ReloadHead(t) ==
    /\ old' = [old EXCEPT ![t] = epoch_defers[ep[t]]]
    /\ nodeNext' = [nodeNext EXCEPT ![node[t]] = epoch_defers[ep[t]]]

defer_load(t) ==
    /\ pc[t] = "load"
    /\ ReloadHead(t)
    /\ pc' = [pc EXCEPT ![t] = "cas"]
    /\ UNCHANGED <<header, lensVars, nodeOff, usedNodes, chain, arg, node, ep,
                   pollerVars, file, fresh>>

\* The compare-and-swap that publishes the node.
defer_cas(t) ==
    /\ pc[t] = "cas"
    /\ epoch_defers[ep[t]] = old[t]
    /\ epoch_defers' = [epoch_defers EXCEPT ![ep[t]] = node[t]]
    /\ chain' = [chain EXCEPT ![ep[t]] = @ \cup {node[t]}]
    /\ pc' = [pc EXCEPT ![t] = "idle"]
    /\ arg' = [arg EXCEPT ![t] = Null]
    /\ node' = [node EXCEPT ![t] = Null]
    /\ ep' = [ep EXCEPT ![t] = 0]
    /\ old' = [old EXCEPT ![t] = Null]
    /\ UNCHANGED <<lens_head, epoch, keys, lensVars, nodeOff, nodeNext,
                   usedNodes, pollerVars, file, fresh>>

\* The compare-and-swap lost a race: retry with the head it returned.
defer_cas_fail(t) ==
    /\ pc[t] = "cas"
    /\ epoch_defers[ep[t]] # old[t]
    /\ ReloadHead(t)
    /\ UNCHANGED <<header, lensVars, nodeOff, usedNodes, chain, pc, arg, node,
                   ep, pollerVars, file, fresh>>

-----------------------------------------------------------------------------
(* One poll of the region by the polling process.                           *)

\* optics_open maps the file at the length it has now.
optics_open ==
    /\ ppc = "closed"
    /\ view' = file
    /\ ppc' = "exchange"
    /\ UNCHANGED <<header, lensVars, nodeVars, threadVars, reap, cursor,
                   reaping, cover, visited, file, fresh>>

\* The slot clients left at the last increment, (epoch & 1) ^ 1.
Idle == 1 - epoch

\* Faulty variant: the list is read and left in place.
Detached_not(e) == epoch_defers

\* atomic_exchange: list e becomes empty.
Detached(e) == [epoch_defers EXCEPT ![e] = Null]

\* optics_free_defered takes the whole list of the idle epoch.
free_defered_exchange ==
    /\ ppc = "exchange"
    /\ reap' = epoch_defers[Idle]
    /\ epoch_defers' = Detached(Idle)
    /\ reaping' = chain[Idle]
    /\ chain' = [chain EXCEPT ![Idle] = {}]
    /\ ppc' = "reap"
    /\ UNCHANGED <<lens_head, epoch, keys, lensVars, nodeOff, nodeNext,
                   usedNodes, threadVars, view, cursor, cover, visited, file,
                   fresh>>

\* The lens of the node is given back to the allocator; alloc_free returns
\* without effect for a block outside the mapping.
free_defered_lens ==
    /\ ppc = "reap"
    /\ reap \in view
    /\ IF nodeOff[reap] \in view
       THEN Overwrite(nodeOff[reap])
       ELSE UNCHANGED lensVars
    /\ ppc' = "reapNode"
    /\ UNCHANGED <<header, nodeVars, threadVars, view, reap, cursor, reaping,
                   cover, visited, file, fresh>>

\* The node's next is read, the node given back, and the loop goes on.
free_defered_node ==
    /\ ppc = "reapNode"
    /\ reap' = nodeNext[reap]
    /\ nodeOff' = [nodeOff EXCEPT ![reap] = Null]
    /\ nodeNext' = [nodeNext EXCEPT ![reap] = Null]
    /\ usedNodes' = usedNodes \ {reap}
    /\ reaping' = reaping \ {reap}
    /\ ppc' = "reap"
    /\ UNCHANGED <<header, lensVars, chain, threadVars, view, cursor, cover,
                   visited, file, fresh>>

\* atomic_fetch_add, of which only the low bit is ever used.
Flipped == 1 - epoch

\* The loop is over, or broke off at a node outside the mapping and leaked
\* the rest of the list: the epoch flips.
optics_epoch_inc ==
    /\ ppc = "reap"
    /\ reap \notin view
    /\ epoch' = Flipped
    /\ reap' = Null
    /\ reaping' = {}
    /\ fresh' = {}
    /\ ppc' = "head"
    /\ UNCHANGED <<lens_head, epoch_defers, keys, lensVars, nodeVars,
                   threadVars, view, cursor, cover, visited, file>>

\* optics_foreach_lens reads the head.
foreach_head ==
    /\ ppc = "head"
    /\ cursor' = lens_head
    /\ cover' = Linked
    /\ visited' = {}
    /\ ppc' = "walk"
    /\ UNCHANGED <<header, lensVars, nodeVars, threadVars, view, reap,
                   reaping, file, fresh>>

\* One turn of its loop: the callback runs on the lens, then lens_next.
foreach_next ==
    /\ ppc = "walk"
    /\ cursor \in view
    /\ visited' = visited \cup {cursor}
    /\ cursor' = next[cursor]
    /\ UNCHANGED <<header, lensVars, nodeVars, threadVars, ppc, view, reap,
                   reaping, cover, file, fresh>>

\* lens_ptr fails outside the mapping: the loop returns -1, unvisited
\* lenses and all, and poller_poll_optics drops the result.
foreach_fail ==
    /\ ppc = "walk"
    /\ cursor \notin view
    /\ cursor # Null
    /\ ppc' = "err"
    /\ UNCHANGED <<header, lensVars, nodeVars, threadVars, view, reap, cursor,
                   reaping, cover, visited, file, fresh>>

\* End of the list.
foreach_end ==
    /\ ppc = "walk"
    /\ cursor = Null
    /\ ppc' = "done"
    /\ UNCHANGED <<header, lensVars, nodeVars, threadVars, view, reap, cursor,
                   reaping, cover, visited, file, fresh>>

\* The mapping and every local of the poll are gone.
Drop ==
    /\ ppc' = "closed"
    /\ view' = {}
    /\ reap' = Null
    /\ cursor' = Null
    /\ reaping' = {}
    /\ cover' = {}
    /\ visited' = {}
    /\ UNCHANGED <<header, lensVars, nodeVars, threadVars, file, fresh>>

optics_close == ppc \in {"done", "err"} /\ Drop

\* The polling process is killed; the next one starts from optics_open.
poller_killed == PollerDies /\ ppc # "closed" /\ Drop

-----------------------------------------------------------------------------
DeferStep(t) ==
    \/ defer_alloc(t)
    \/ defer_alloc_fail(t)
    \/ optics_epoch(t)
    \/ defer_load(t)
    \/ defer_cas(t)
    \/ defer_cas_fail(t)

ClientStep(t) ==
    \/ \E n \in Names : lens_alloc(t, n)
    \/ optics_lens_alloc(t)
    \/ optics_lens_exists(t)
    \/ lens_free(t)
    \/ \E l \in Lenses : optics_lens_free(t, l)
    \/ DeferStep(t)

PollStep ==
    \/ optics_open
    \/ free_defered_exchange
    \/ free_defered_lens
    \/ free_defered_node
    \/ optics_epoch_inc
    \/ foreach_head
    \/ foreach_next
    \/ foreach_fail
    \/ foreach_end
    \/ optics_close

Next == (\E t \in Threads : ClientStep(t)) \/ PollStep \/ poller_killed

Spec == Init /\ [][Next]_vars

(* A thread inside optics_lens_free keeps running; the polling thread polls *)
(* every second for ever.  Nothing makes a client register or free.         *)
Fairness == WF_vars(PollStep) /\ \A t \in Threads : WF_vars(DeferStep(t))

LiveSpec == Spec /\ Fairness

-----------------------------------------------------------------------------
(* Properties.                                                              *)

\* The "adding node not in a list" and "corrupted lens list" assertions of
\* lens_set_next and lens_kill hold whenever a client could evaluate them,
\* whatever registrations, removals and reclamations came before.
ListAsserts ==
    /\ SetNextAssert
    /\ \A l \in Lenses : MayFree(l) => KillAssert(l)

\* A walk only ever stands on a lens that is linked, or removed and not yet
\* reclaimed: lens_next's claim that a stale next pointer is safe to follow.
SafeTraversal == ppc = "walk" /\ cursor # Null => state[cursor] \in {"linked", "removed"}

\* A walk never meets a lens twice.
NoRevisit == ppc = "walk" => cursor \notin visited

\* A walk that reports success has visited every lens that was in the list
\* when it started and still is.
WalkComplete == ppc = "done" => (cover \cap Linked) \subseteq visited

\* Whatever is unlinked, pushed and reclaimed under a walk of
\* optics_foreach_lens, it reads every lens once: no counter is read twice in a
\* poll, and none is missed that was there throughout.
WalkExact == NoRevisit /\ WalkComplete

\* A lens on a deferred-free list is reclaimed exactly once: when the poller
\* reaches its node the block is removed, and not free or in use again.
ReclaimOnce ==
    (ppc = "reap" /\ reap \in view /\ nodeOff[reap] \in view)
        => state[nodeOff[reap]] = "removed"

\* A lens removed since the last epoch increment is not reclaimed: every
\* removed lens outlives at least one increment, the grace period that
\* stragglers recording into it are given.
GracePeriod == \A l \in fresh : state[l] = "removed"

\* The "leaked memory during defered free" branch is never taken and the
\* silent return of alloc_free neither: the file may grow after optics_open,
\* but a list of the idle epoch only holds blocks older than the mapping.
NoDeferLeak == reaping \subseteq view /\ {nodeOff[d] : d \in reaping} \subseteq view

\* optics_free_defered gives back what it detached, all of it and once: no
\* block that the poller cannot reach, and none that is free or in use again.
DrainSound == ReclaimOnce /\ NoDeferLeak

\* Every lens taken out of the list is given back to the allocator, and a poll
\* ends, however the clients churn the list under the walk.
Reclaimed ==
    /\ \A l \in Lenses : state[l] = "removed" ~> state[l] # "removed"
    /\ ppc = "walk" ~> ppc = "closed"

=============================================================================
