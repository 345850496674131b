--------------------------- MODULE LensListProofs ---------------------------
(***************************************************************************)
(* Proofs about LensList, for any number of threads, lenses, nodes and     *)
(* names, and a polling process that may die at any point.                 *)
(***************************************************************************)
EXTENDS LensList, TLAPS

DeferPcs == {"epoch", "load", "cas"}

\* What a thread's program counter says about the blocks it holds.
LocalsInv ==
    \A t \in Threads :
        /\ pc[t] = "idle" => arg[t] = Null
        /\ pc[t] \in {"insert", "dup"} => arg[t] \in Lenses /\ state[arg[t]] = "private"
        /\ pc[t] \in {"defer"} \cup DeferPcs => arg[t] \in Lenses /\ state[arg[t]] = "removed"
        /\ pc[t] \in DeferPcs => node[t] \in usedNodes /\ nodeOff[node[t]] = arg[t]
        /\ pc[t] \notin DeferPcs => node[t] = Null

\* Two threads never hold the same block.
DistinctInv ==
    \A t, u \in Threads :
        t # u => /\ arg[t] # Null => arg[t] # arg[u]
                 /\ node[t] # Null => node[t] # node[u]

\* A block that is not free carries a name and is inside the file.
BlocksInv ==
    /\ \A l \in Lenses : state[l] # "free" => name[l] \in Names /\ l \in file
    /\ \A l \in Lenses : state[l] = "private" => prev[l] = Null
    /\ usedNodes \subseteq file

\* The name table and the list hold the same lenses.
KeysInv ==
    /\ \A n \in Names : keys[n] # Null => state[keys[n]] = "linked" /\ name[keys[n]] = n
    /\ \A l \in Lenses : state[l] = "linked" => keys[name[l]] = l

\* The linked lenses form a doubly linked list that starts at lens_head.
ListInv ==
    /\ lens_head # Null => state[lens_head] = "linked" /\ prev[lens_head] = Null
    /\ \A l \in Lenses : state[l] = "linked" =>
        /\ next[l] # Null => state[next[l]] = "linked" /\ prev[next[l]] = l
        /\ prev[l] # Null => state[prev[l]] = "linked" /\ next[prev[l]] = l
        /\ prev[l] = Null => l = lens_head

\* A running walk can only reach lenses that nobody can reclaim.
CoverInv ==
    ppc = "walk" =>
        /\ cursor \in cover \cup {Null}
        /\ \A l \in cover : /\ state[l] \in {"linked", "removed"}
                            /\ next[l] \in cover \cup {Null}

\* Nodes on a deferred-free list, or on the one being drained.
Pending == chain[0] \cup chain[1] \cup reaping

\* Nodes whose lens is still theirs to free.
Claims == Pending \ (IF ppc = "reapNode" THEN {reap} ELSE {})

\* The lists are disjoint, apart from the nodes threads still hold, and each
\* holds whole chains that nothing else points into.
ChainInv ==
    /\ Pending \subseteq usedNodes
    /\ chain[0] \cap chain[1] = {}
    /\ (chain[0] \cup chain[1]) \cap reaping = {}
    /\ \A t \in Threads : node[t] \notin Pending
    /\ \A t \in Threads : pc[t] = "cas" => nodeNext[node[t]] = old[t]
    /\ \A e \in Epochs :
        /\ epoch_defers[e] \in chain[e] \cup {Null}
        /\ \A d \in chain[e] :
            /\ nodeNext[d] \in chain[e] \cup {Null}
            /\ nodeNext[d] # Null => nodeNext[d] # epoch_defers[e]
            /\ \A c \in chain[e] : c # d /\ nodeNext[d] # Null => nodeNext[c] # nodeNext[d]
    /\ \A d \in reaping :
        /\ nodeNext[d] \in reaping \cup {Null}
        /\ nodeNext[d] # Null => nodeNext[d] # reap
        /\ \A c \in reaping : c # d /\ nodeNext[d] # Null => nodeNext[c] # nodeNext[d]
    /\ ppc = "reap" => reap \in reaping \cup {Null}
    /\ ppc = "reapNode" => reap \in reaping
    /\ ppc \notin {"reap", "reapNode"} => reaping = {}

\* A removed lens is claimed at most once: by a node, or by a thread.
ClaimInv ==
    \A d \in Claims :
        /\ nodeOff[d] \in Lenses
        /\ state[nodeOff[d]] = "removed"
        /\ \A t \in Threads : arg[t] # nodeOff[d]
        /\ \A c \in Claims : c # d => nodeOff[c] # nodeOff[d]

\* A thread that is late enough to push on the idle epoch's list.
Late(t) == pc[t] \in {"load", "cas"} /\ ep[t] # epoch

\* What is on, or on its way to, the idle epoch's list was removed before
\* the last increment.
FreshInv ==
    /\ \A l \in fresh : state[l] = "removed"
    /\ \A d \in chain[1 - epoch] \cup reaping : d \in Claims => nodeOff[d] \notin fresh
    /\ \A t \in Threads : Late(t) => arg[t] \notin fresh

\* ... and is inside the mapping the poller opened after that increment.
ViewInv ==
    /\ ppc = "exchange" =>
        /\ \A d \in chain[1 - epoch] : d \in view /\ nodeOff[d] \in view
        /\ \A t \in Threads : Late(t) => node[t] \in view /\ arg[t] \in view
    /\ \A d \in reaping : d \in view /\ nodeOff[d] \in view

IndInv ==
    /\ TypeOK
    /\ LocalsInv
    /\ DistinctInv
    /\ BlocksInv
    /\ KeysInv
    /\ ListInv
    /\ CoverInv
    /\ ChainInv
    /\ ClaimInv
    /\ FreshInv
    /\ ViewInv

\* A live handle names a linked lens.
LEMMA FreeLinked ==
    ASSUME BlocksInv, KeysInv, ~StaleFree, NEW l \in Lenses, MayFree(l)
    PROVE  state[l] = "linked" /\ name[l] \in Names /\ keys[name[l]] = l
BY DEF BlocksInv, KeysInv, MayFree

\* The node the poller is about to process still owns its lens.
LEMMA ReapClaim ==
    ASSUME TypeOK, ChainInv, ppc = "reap", reap \in view
    PROVE  reap \in reaping /\ reap \in Claims /\ reap \in Nodes
BY NullAssumption DEF TypeOK, ChainInv, Claims, Pending

\* Every step preserves the type invariant,
LEMMA TypeStep ==
    ASSUME TypeOK, LocalsInv, ChainInv, [Next]_vars
    PROVE  TypeOK'
<1> USE NullAssumption DEF TypeOK, Epochs, PcStates, PpcStates, LensOrNull, NodeOrNull,
            header, lensVars, nodeVars, threadVars, pollerVars
<1>1. ASSUME NEW t \in Threads, NEW n \in Names, lens_alloc(t, n)
      PROVE  TypeOK'
  BY <1>1 DEF lens_alloc
<1>2. ASSUME NEW t \in Threads, optics_lens_alloc(t)
      PROVE  TypeOK'
  BY <1>2 DEF optics_lens_alloc, optics_push_lens, SetNextAssert
<1>3. ASSUME NEW t \in Threads, optics_lens_exists(t)
      PROVE  TypeOK'
  BY <1>3 DEF optics_lens_exists
<1>4. ASSUME NEW t \in Threads, lens_free(t)
      PROVE  TypeOK'
  BY <1>4 DEF lens_free, Overwrite
<1>5. ASSUME NEW t \in Threads, NEW l \in Lenses, optics_lens_free(t, l)
      PROVE  TypeOK'
  BY <1>5 DEF optics_lens_free, MayFree, KillAssert, lens_kill, HeadWithout
<1>6. ASSUME NEW t \in Threads, defer_alloc(t)
      PROVE  TypeOK'
  BY <1>6 DEF defer_alloc
<1>7. ASSUME NEW t \in Threads, defer_alloc_fail(t)
      PROVE  TypeOK'
  BY <1>7 DEF defer_alloc_fail
<1>8. ASSUME NEW t \in Threads, optics_epoch(t)
      PROVE  TypeOK'
  BY <1>8 DEF optics_epoch, Running
<1>9. ASSUME NEW t \in Threads, defer_load(t)
      PROVE  TypeOK'
  BY <1>9 DEF defer_load, ReloadHead
<1>10. ASSUME NEW t \in Threads, defer_cas(t)
      PROVE  TypeOK'
  <2>1. node[t] \in Nodes
    BY <1>10 DEF defer_cas, LocalsInv, DeferPcs
  <2> QED
    BY <1>10, <2>1 DEF defer_cas
<1>11. ASSUME NEW t \in Threads, defer_cas_fail(t)
      PROVE  TypeOK'
  BY <1>11 DEF defer_cas_fail, ReloadHead
<1>12. ASSUME optics_open
      PROVE  TypeOK'
  BY <1>12 DEF optics_open
<1>13. ASSUME free_defered_exchange
      PROVE  TypeOK'
  BY <1>13 DEF free_defered_exchange, Idle, Detached
<1>14. ASSUME free_defered_lens
      PROVE  TypeOK'
  BY <1>14 DEF free_defered_lens, Overwrite
<1>15. ASSUME free_defered_node
      PROVE  TypeOK'
  <2>1. reap \in Nodes
    BY <1>15 DEF free_defered_node, ChainInv
  <2> QED
    BY <1>15, <2>1 DEF free_defered_node
<1>16. ASSUME optics_epoch_inc
      PROVE  TypeOK'
  BY <1>16 DEF optics_epoch_inc, Flipped
<1>17. ASSUME foreach_head
      PROVE  TypeOK'
  BY <1>17 DEF foreach_head, Linked
<1>18. ASSUME foreach_next
      PROVE  TypeOK'
  BY <1>18 DEF foreach_next
<1>19. ASSUME foreach_fail
      PROVE  TypeOK'
  BY <1>19 DEF foreach_fail
<1>20. ASSUME foreach_end
      PROVE  TypeOK'
  BY <1>20 DEF foreach_end
<1>21. ASSUME optics_close
      PROVE  TypeOK'
  BY <1>21 DEF optics_close, Drop
<1>22. ASSUME poller_killed
      PROVE  TypeOK'
  BY <1>22 DEF poller_killed, Drop
<1>23. ASSUME UNCHANGED vars
      PROVE  TypeOK'
  BY <1>23 DEF vars
<1> QED
  BY <1>1, <1>2, <1>3, <1>4, <1>5, <1>6, <1>7, <1>8, <1>9, <1>10, <1>11, <1>12, <1>13, <1>14, <1>15, <1>16, <1>17, <1>18, <1>19, <1>20, <1>21, <1>22, <1>23
     DEF Next, ClientStep, DeferStep, PollStep

\* ... what the threads hold,
LEMMA LocalsStep ==
    ASSUME TypeOK, LocalsInv, DistinctInv, BlocksInv, KeysInv, ChainInv, ClaimInv, ~StaleFree, [Next]_vars
    PROVE  LocalsInv'
<1> USE NullAssumption DEF TypeOK, PcStates, LensOrNull, NodeOrNull, LocalsInv, DeferPcs,
            header, lensVars, nodeVars, threadVars, pollerVars
<1>1. ASSUME NEW t \in Threads, NEW n \in Names, lens_alloc(t, n)
      PROVE  LocalsInv'
  BY <1>1 DEF lens_alloc
<1>2. ASSUME NEW t \in Threads, optics_lens_alloc(t)
      PROVE  LocalsInv'
  BY <1>2 DEF optics_lens_alloc, optics_push_lens, DistinctInv
<1>3. ASSUME NEW t \in Threads, optics_lens_exists(t)
      PROVE  LocalsInv'
  BY <1>3 DEF optics_lens_exists
<1>4. ASSUME NEW t \in Threads, lens_free(t)
      PROVE  LocalsInv'
  BY <1>4 DEF lens_free, Overwrite, DistinctInv
<1>5. ASSUME NEW t \in Threads, NEW l \in Lenses, optics_lens_free(t, l)
      PROVE  LocalsInv'
  <2>1. state[l] = "linked"
    BY <1>5, FreeLinked DEF optics_lens_free
  <2> QED
    BY <1>5, <2>1 DEF optics_lens_free
<1>6. ASSUME NEW t \in Threads, defer_alloc(t)
      PROVE  LocalsInv'
  BY <1>6 DEF defer_alloc
<1>7. ASSUME NEW t \in Threads, defer_alloc_fail(t)
      PROVE  LocalsInv'
  BY <1>7 DEF defer_alloc_fail
<1>8. ASSUME NEW t \in Threads, optics_epoch(t)
      PROVE  LocalsInv'
  BY <1>8 DEF optics_epoch, Running
<1>9. ASSUME NEW t \in Threads, defer_load(t)
      PROVE  LocalsInv'
  BY <1>9 DEF defer_load, ReloadHead
<1>10. ASSUME NEW t \in Threads, defer_cas(t)
      PROVE  LocalsInv'
  BY <1>10 DEF defer_cas
<1>11. ASSUME NEW t \in Threads, defer_cas_fail(t)
      PROVE  LocalsInv'
  BY <1>11 DEF defer_cas_fail, ReloadHead
<1>12. ASSUME optics_open
      PROVE  LocalsInv'
  BY <1>12 DEF optics_open
<1>13. ASSUME free_defered_exchange
      PROVE  LocalsInv'
  BY <1>13 DEF free_defered_exchange, Idle, Detached
<1>14. ASSUME free_defered_lens
      PROVE  LocalsInv'
  <2>1. reap \in Claims
    BY <1>14, ReapClaim DEF free_defered_lens
  <2>2. state[nodeOff[reap]] = "removed" /\ \A t \in Threads : arg[t] # nodeOff[reap]
    BY <2>1 DEF ClaimInv
  <2> QED
    BY <1>14, <2>2 DEF free_defered_lens, Overwrite
<1>15. ASSUME free_defered_node
      PROVE  LocalsInv'
  <2>1. \A t \in Threads : node[t] # reap
    BY <1>15 DEF free_defered_node, ChainInv, Pending
  <2> QED
    BY <1>15, <2>1 DEF free_defered_node
<1>16. ASSUME optics_epoch_inc
      PROVE  LocalsInv'
  BY <1>16 DEF optics_epoch_inc, Flipped
<1>17. ASSUME foreach_head
      PROVE  LocalsInv'
  BY <1>17 DEF foreach_head, Linked
<1>18. ASSUME foreach_next
      PROVE  LocalsInv'
  BY <1>18 DEF foreach_next
<1>19. ASSUME foreach_fail
      PROVE  LocalsInv'
  BY <1>19 DEF foreach_fail
<1>20. ASSUME foreach_end
      PROVE  LocalsInv'
  BY <1>20 DEF foreach_end
<1>21. ASSUME optics_close
      PROVE  LocalsInv'
  BY <1>21 DEF optics_close, Drop
<1>22. ASSUME poller_killed
      PROVE  LocalsInv'
  BY <1>22 DEF poller_killed, Drop
<1>23. ASSUME UNCHANGED vars
      PROVE  LocalsInv'
  BY <1>23 DEF vars
<1> QED
  BY <1>1, <1>2, <1>3, <1>4, <1>5, <1>6, <1>7, <1>8, <1>9, <1>10, <1>11, <1>12, <1>13, <1>14, <1>15, <1>16, <1>17, <1>18, <1>19, <1>20, <1>21, <1>22, <1>23
     DEF Next, ClientStep, DeferStep, PollStep

\* ... that they hold different blocks,
LEMMA DistinctStep ==
    ASSUME TypeOK, LocalsInv, DistinctInv, BlocksInv, KeysInv, ~StaleFree, [Next]_vars
    PROVE  DistinctInv'
<1> USE NullAssumption DEF TypeOK, PcStates, LensOrNull, NodeOrNull, LocalsInv, DistinctInv, DeferPcs,
            header, lensVars, nodeVars, threadVars, pollerVars
<1>1. ASSUME NEW t \in Threads, NEW n \in Names, lens_alloc(t, n)
      PROVE  DistinctInv'
  BY <1>1 DEF lens_alloc
<1>2. ASSUME NEW t \in Threads, optics_lens_alloc(t)
      PROVE  DistinctInv'
  BY <1>2 DEF optics_lens_alloc, optics_push_lens, SetNextAssert
<1>3. ASSUME NEW t \in Threads, optics_lens_exists(t)
      PROVE  DistinctInv'
  BY <1>3 DEF optics_lens_exists
<1>4. ASSUME NEW t \in Threads, lens_free(t)
      PROVE  DistinctInv'
  BY <1>4 DEF lens_free, Overwrite
<1>5. ASSUME NEW t \in Threads, NEW l \in Lenses, optics_lens_free(t, l)
      PROVE  DistinctInv'
  <2>1. state[l] = "linked"
    BY <1>5, FreeLinked DEF optics_lens_free
  <2>2. \A u \in Threads : arg[u] # l
    BY <2>1
  <2> QED
    BY <1>5, <2>2 DEF optics_lens_free
<1>6. ASSUME NEW t \in Threads, defer_alloc(t)
      PROVE  DistinctInv'
  BY <1>6 DEF defer_alloc
<1>7. ASSUME NEW t \in Threads, defer_alloc_fail(t)
      PROVE  DistinctInv'
  BY <1>7 DEF defer_alloc_fail
<1>8. ASSUME NEW t \in Threads, optics_epoch(t)
      PROVE  DistinctInv'
  BY <1>8 DEF optics_epoch, Running
<1>9. ASSUME NEW t \in Threads, defer_load(t)
      PROVE  DistinctInv'
  BY <1>9 DEF defer_load, ReloadHead
<1>10. ASSUME NEW t \in Threads, defer_cas(t)
      PROVE  DistinctInv'
  BY <1>10 DEF defer_cas
<1>11. ASSUME NEW t \in Threads, defer_cas_fail(t)
      PROVE  DistinctInv'
  BY <1>11 DEF defer_cas_fail, ReloadHead
<1>12. ASSUME optics_open
      PROVE  DistinctInv'
  BY <1>12 DEF optics_open
<1>13. ASSUME free_defered_exchange
      PROVE  DistinctInv'
  BY <1>13 DEF free_defered_exchange, Idle, Detached
<1>14. ASSUME free_defered_lens
      PROVE  DistinctInv'
  BY <1>14 DEF free_defered_lens, Overwrite
<1>15. ASSUME free_defered_node
      PROVE  DistinctInv'
  BY <1>15 DEF free_defered_node
<1>16. ASSUME optics_epoch_inc
      PROVE  DistinctInv'
  BY <1>16 DEF optics_epoch_inc, Flipped
<1>17. ASSUME foreach_head
      PROVE  DistinctInv'
  BY <1>17 DEF foreach_head, Linked
<1>18. ASSUME foreach_next
      PROVE  DistinctInv'
  BY <1>18 DEF foreach_next
<1>19. ASSUME foreach_fail
      PROVE  DistinctInv'
  BY <1>19 DEF foreach_fail
<1>20. ASSUME foreach_end
      PROVE  DistinctInv'
  BY <1>20 DEF foreach_end
<1>21. ASSUME optics_close
      PROVE  DistinctInv'
  BY <1>21 DEF optics_close, Drop
<1>22. ASSUME poller_killed
      PROVE  DistinctInv'
  BY <1>22 DEF poller_killed, Drop
<1>23. ASSUME UNCHANGED vars
      PROVE  DistinctInv'
  BY <1>23 DEF vars
<1> QED
  BY <1>1, <1>2, <1>3, <1>4, <1>5, <1>6, <1>7, <1>8, <1>9, <1>10, <1>11, <1>12, <1>13, <1>14, <1>15, <1>16, <1>17, <1>18, <1>19, <1>20, <1>21, <1>22, <1>23
     DEF Next, ClientStep, DeferStep, PollStep

\* ... the facts on allocated blocks,
LEMMA BlocksStep ==
    ASSUME TypeOK, LocalsInv, BlocksInv, KeysInv, ListInv, ~StaleFree, [Next]_vars
    PROVE  BlocksInv'
<1> USE NullAssumption DEF TypeOK, LensOrNull, NodeOrNull, BlocksInv,
            header, lensVars, nodeVars, threadVars, pollerVars
<1>1. ASSUME NEW t \in Threads, NEW n \in Names, lens_alloc(t, n)
      PROVE  BlocksInv'
  BY <1>1 DEF lens_alloc
<1>2. ASSUME NEW t \in Threads, optics_lens_alloc(t)
      PROVE  BlocksInv'
  <2>1. arg[t] \in Lenses /\ state[arg[t]] = "private"
    BY <1>2 DEF optics_lens_alloc, LocalsInv
  <2>2. \A x \in Lenses : x = lens_head => state[x] = "linked"
    BY DEF ListInv
  <2> QED
    BY <1>2, <2>1, <2>2 DEF optics_lens_alloc, optics_push_lens
<1>3. ASSUME NEW t \in Threads, optics_lens_exists(t)
      PROVE  BlocksInv'
  BY <1>3 DEF optics_lens_exists
<1>4. ASSUME NEW t \in Threads, lens_free(t)
      PROVE  BlocksInv'
  BY <1>4 DEF lens_free, Overwrite
<1>5. ASSUME NEW t \in Threads, NEW l \in Lenses, optics_lens_free(t, l)
      PROVE  BlocksInv'
  <2>1. state[l] = "linked"
    BY <1>5, FreeLinked DEF optics_lens_free
  <2>2. \A x \in Lenses : x = next[l] => state[x] = "linked"
    BY <2>1 DEF ListInv
  <2> QED
    BY <1>5, <2>1, <2>2 DEF optics_lens_free, lens_kill
<1>6. ASSUME NEW t \in Threads, defer_alloc(t)
      PROVE  BlocksInv'
  BY <1>6 DEF defer_alloc
<1>7. ASSUME NEW t \in Threads, defer_alloc_fail(t)
      PROVE  BlocksInv'
  BY <1>7 DEF defer_alloc_fail
<1>8. ASSUME NEW t \in Threads, optics_epoch(t)
      PROVE  BlocksInv'
  BY <1>8 DEF optics_epoch, Running
<1>9. ASSUME NEW t \in Threads, defer_load(t)
      PROVE  BlocksInv'
  BY <1>9 DEF defer_load, ReloadHead
<1>10. ASSUME NEW t \in Threads, defer_cas(t)
      PROVE  BlocksInv'
  BY <1>10 DEF defer_cas
<1>11. ASSUME NEW t \in Threads, defer_cas_fail(t)
      PROVE  BlocksInv'
  BY <1>11 DEF defer_cas_fail, ReloadHead
<1>12. ASSUME optics_open
      PROVE  BlocksInv'
  BY <1>12 DEF optics_open
<1>13. ASSUME free_defered_exchange
      PROVE  BlocksInv'
  BY <1>13 DEF free_defered_exchange, Idle, Detached
<1>14. ASSUME free_defered_lens
      PROVE  BlocksInv'
  BY <1>14 DEF free_defered_lens, Overwrite
<1>15. ASSUME free_defered_node
      PROVE  BlocksInv'
  BY <1>15 DEF free_defered_node
<1>16. ASSUME optics_epoch_inc
      PROVE  BlocksInv'
  BY <1>16 DEF optics_epoch_inc, Flipped
<1>17. ASSUME foreach_head
      PROVE  BlocksInv'
  BY <1>17 DEF foreach_head, Linked
<1>18. ASSUME foreach_next
      PROVE  BlocksInv'
  BY <1>18 DEF foreach_next
<1>19. ASSUME foreach_fail
      PROVE  BlocksInv'
  BY <1>19 DEF foreach_fail
<1>20. ASSUME foreach_end
      PROVE  BlocksInv'
  BY <1>20 DEF foreach_end
<1>21. ASSUME optics_close
      PROVE  BlocksInv'
  BY <1>21 DEF optics_close, Drop
<1>22. ASSUME poller_killed
      PROVE  BlocksInv'
  BY <1>22 DEF poller_killed, Drop
<1>23. ASSUME UNCHANGED vars
      PROVE  BlocksInv'
  BY <1>23 DEF vars
<1> QED
  BY <1>1, <1>2, <1>3, <1>4, <1>5, <1>6, <1>7, <1>8, <1>9, <1>10, <1>11, <1>12, <1>13, <1>14, <1>15, <1>16, <1>17, <1>18, <1>19, <1>20, <1>21, <1>22, <1>23
     DEF Next, ClientStep, DeferStep, PollStep

\* ... the agreement of table and list,
LEMMA KeysStep ==
    ASSUME TypeOK, LocalsInv, DistinctInv, BlocksInv, KeysInv, ChainInv, ClaimInv, ~StaleFree, [Next]_vars
    PROVE  KeysInv'
<1> USE NullAssumption DEF TypeOK, LensOrNull, KeysInv,
            header, lensVars, nodeVars, threadVars, pollerVars
<1>1. ASSUME NEW t \in Threads, NEW n \in Names, lens_alloc(t, n)
      PROVE  KeysInv'
  BY <1>1 DEF lens_alloc
<1>2. ASSUME NEW t \in Threads, optics_lens_alloc(t)
      PROVE  KeysInv'
  <2>1. arg[t] \in Lenses /\ state[arg[t]] = "private"
    BY <1>2 DEF optics_lens_alloc, LocalsInv
  <2>2. name[arg[t]] \in Names
    BY <2>1 DEF BlocksInv
  <2> QED
    BY <1>2, <2>1, <2>2 DEF optics_lens_alloc
<1>3. ASSUME NEW t \in Threads, optics_lens_exists(t)
      PROVE  KeysInv'
  BY <1>3 DEF optics_lens_exists
<1>4. ASSUME NEW t \in Threads, lens_free(t)
      PROVE  KeysInv'
  <2>1. arg[t] \in Lenses /\ state[arg[t]] = "private"
    BY <1>4 DEF lens_free, LocalsInv
  <2> QED
    BY <1>4, <2>1 DEF lens_free, Overwrite
<1>5. ASSUME NEW t \in Threads, NEW l \in Lenses, optics_lens_free(t, l)
      PROVE  KeysInv'
  <2>1. state[l] = "linked" /\ name[l] \in Names /\ keys[name[l]] = l
    BY <1>5, FreeLinked DEF optics_lens_free
  <2>2. \A x \in Lenses : state[x] = "linked" => name[x] \in Names
    BY DEF BlocksInv
  <2> QED
    BY <1>5, <2>1, <2>2 DEF optics_lens_free
<1>6. ASSUME NEW t \in Threads, defer_alloc(t)
      PROVE  KeysInv'
  BY <1>6 DEF defer_alloc
<1>7. ASSUME NEW t \in Threads, defer_alloc_fail(t)
      PROVE  KeysInv'
  BY <1>7 DEF defer_alloc_fail
<1>8. ASSUME NEW t \in Threads, optics_epoch(t)
      PROVE  KeysInv'
  BY <1>8 DEF optics_epoch, Running
<1>9. ASSUME NEW t \in Threads, defer_load(t)
      PROVE  KeysInv'
  BY <1>9 DEF defer_load, ReloadHead
<1>10. ASSUME NEW t \in Threads, defer_cas(t)
      PROVE  KeysInv'
  BY <1>10 DEF defer_cas
<1>11. ASSUME NEW t \in Threads, defer_cas_fail(t)
      PROVE  KeysInv'
  BY <1>11 DEF defer_cas_fail, ReloadHead
<1>12. ASSUME optics_open
      PROVE  KeysInv'
  BY <1>12 DEF optics_open
<1>13. ASSUME free_defered_exchange
      PROVE  KeysInv'
  BY <1>13 DEF free_defered_exchange, Idle, Detached
<1>14. ASSUME free_defered_lens
      PROVE  KeysInv'
  <2>1. reap \in Claims
    BY <1>14, ReapClaim DEF free_defered_lens
  <2>2. nodeOff[reap] \in Lenses /\ state[nodeOff[reap]] = "removed"
    BY <2>1 DEF ClaimInv
  <2> QED
    BY <1>14, <2>2 DEF free_defered_lens, Overwrite
<1>15. ASSUME free_defered_node
      PROVE  KeysInv'
  BY <1>15 DEF free_defered_node
<1>16. ASSUME optics_epoch_inc
      PROVE  KeysInv'
  BY <1>16 DEF optics_epoch_inc, Flipped
<1>17. ASSUME foreach_head
      PROVE  KeysInv'
  BY <1>17 DEF foreach_head, Linked
<1>18. ASSUME foreach_next
      PROVE  KeysInv'
  BY <1>18 DEF foreach_next
<1>19. ASSUME foreach_fail
      PROVE  KeysInv'
  BY <1>19 DEF foreach_fail
<1>20. ASSUME foreach_end
      PROVE  KeysInv'
  BY <1>20 DEF foreach_end
<1>21. ASSUME optics_close
      PROVE  KeysInv'
  BY <1>21 DEF optics_close, Drop
<1>22. ASSUME poller_killed
      PROVE  KeysInv'
  BY <1>22 DEF poller_killed, Drop
<1>23. ASSUME UNCHANGED vars
      PROVE  KeysInv'
  BY <1>23 DEF vars
<1> QED
  BY <1>1, <1>2, <1>3, <1>4, <1>5, <1>6, <1>7, <1>8, <1>9, <1>10, <1>11, <1>12, <1>13, <1>14, <1>15, <1>16, <1>17, <1>18, <1>19, <1>20, <1>21, <1>22, <1>23
     DEF Next, ClientStep, DeferStep, PollStep

\* ... the doubly linked list,
LEMMA ListStep ==
    ASSUME TypeOK, LocalsInv, BlocksInv, KeysInv, ListInv, ChainInv, ClaimInv, ~StaleFree, [Next]_vars
    PROVE  ListInv'
<1> USE NullAssumption DEF TypeOK, LensOrNull, ListInv,
            header, lensVars, nodeVars, threadVars, pollerVars
<1>1. ASSUME NEW t \in Threads, NEW n \in Names, lens_alloc(t, n)
      PROVE  ListInv'
  BY <1>1 DEF lens_alloc
<1>2. ASSUME NEW t \in Threads, optics_lens_alloc(t)
      PROVE  ListInv'
  <2>1. arg[t] \in Lenses /\ state[arg[t]] = "private"
    BY <1>2 DEF optics_lens_alloc, LocalsInv
  <2>2. prev[arg[t]] = Null
    BY <2>1 DEF BlocksInv
  <2> QED
    BY <1>2, <2>1, <2>2 DEF optics_lens_alloc, optics_push_lens
<1>3. ASSUME NEW t \in Threads, optics_lens_exists(t)
      PROVE  ListInv'
  BY <1>3 DEF optics_lens_exists
<1>4. ASSUME NEW t \in Threads, lens_free(t)
      PROVE  ListInv'
  <2>1. arg[t] \in Lenses /\ state[arg[t]] = "private"
    BY <1>4 DEF lens_free, LocalsInv
  <2> QED
    BY <1>4, <2>1 DEF lens_free, Overwrite
<1>5. ASSUME NEW t \in Threads, NEW l \in Lenses, optics_lens_free(t, l)
      PROVE  ListInv'
  <2>1. state[l] = "linked"
    BY <1>5, FreeLinked DEF optics_lens_free
  <2> QED
    BY <1>5, <2>1 DEF optics_lens_free, lens_kill, HeadWithout
<1>6. ASSUME NEW t \in Threads, defer_alloc(t)
      PROVE  ListInv'
  BY <1>6 DEF defer_alloc
<1>7. ASSUME NEW t \in Threads, defer_alloc_fail(t)
      PROVE  ListInv'
  BY <1>7 DEF defer_alloc_fail
<1>8. ASSUME NEW t \in Threads, optics_epoch(t)
      PROVE  ListInv'
  BY <1>8 DEF optics_epoch, Running
<1>9. ASSUME NEW t \in Threads, defer_load(t)
      PROVE  ListInv'
  BY <1>9 DEF defer_load, ReloadHead
<1>10. ASSUME NEW t \in Threads, defer_cas(t)
      PROVE  ListInv'
  BY <1>10 DEF defer_cas
<1>11. ASSUME NEW t \in Threads, defer_cas_fail(t)
      PROVE  ListInv'
  BY <1>11 DEF defer_cas_fail, ReloadHead
<1>12. ASSUME optics_open
      PROVE  ListInv'
  BY <1>12 DEF optics_open
<1>13. ASSUME free_defered_exchange
      PROVE  ListInv'
  BY <1>13 DEF free_defered_exchange, Idle, Detached
<1>14. ASSUME free_defered_lens
      PROVE  ListInv'
  <2>1. reap \in Claims
    BY <1>14, ReapClaim DEF free_defered_lens
  <2>2. nodeOff[reap] \in Lenses /\ state[nodeOff[reap]] = "removed"
    BY <2>1 DEF ClaimInv
  <2> QED
    BY <1>14, <2>2 DEF free_defered_lens, Overwrite
<1>15. ASSUME free_defered_node
      PROVE  ListInv'
  BY <1>15 DEF free_defered_node
<1>16. ASSUME optics_epoch_inc
      PROVE  ListInv'
  BY <1>16 DEF optics_epoch_inc, Flipped
<1>17. ASSUME foreach_head
      PROVE  ListInv'
  BY <1>17 DEF foreach_head, Linked
<1>18. ASSUME foreach_next
      PROVE  ListInv'
  BY <1>18 DEF foreach_next
<1>19. ASSUME foreach_fail
      PROVE  ListInv'
  BY <1>19 DEF foreach_fail
<1>20. ASSUME foreach_end
      PROVE  ListInv'
  BY <1>20 DEF foreach_end
<1>21. ASSUME optics_close
      PROVE  ListInv'
  BY <1>21 DEF optics_close, Drop
<1>22. ASSUME poller_killed
      PROVE  ListInv'
  BY <1>22 DEF poller_killed, Drop
<1>23. ASSUME UNCHANGED vars
      PROVE  ListInv'
  BY <1>23 DEF vars
<1> QED
  BY <1>1, <1>2, <1>3, <1>4, <1>5, <1>6, <1>7, <1>8, <1>9, <1>10, <1>11, <1>12, <1>13, <1>14, <1>15, <1>16, <1>17, <1>18, <1>19, <1>20, <1>21, <1>22, <1>23
     DEF Next, ClientStep, DeferStep, PollStep

\* ... what a walk can reach,
LEMMA CoverStep ==
    ASSUME TypeOK, LocalsInv, BlocksInv, KeysInv, ListInv, CoverInv, ~StaleFree, [Next]_vars
    PROVE  CoverInv'
<1> USE NullAssumption DEF TypeOK, LensOrNull, CoverInv,
            header, lensVars, nodeVars, threadVars, pollerVars
<1>1. ASSUME NEW t \in Threads, NEW n \in Names, lens_alloc(t, n)
      PROVE  CoverInv'
  BY <1>1 DEF lens_alloc
<1>2. ASSUME NEW t \in Threads, optics_lens_alloc(t)
      PROVE  CoverInv'
  <2>1. arg[t] \in Lenses /\ state[arg[t]] = "private"
    BY <1>2 DEF optics_lens_alloc, LocalsInv
  <2> QED
    BY <1>2, <2>1 DEF optics_lens_alloc, optics_push_lens
<1>3. ASSUME NEW t \in Threads, optics_lens_exists(t)
      PROVE  CoverInv'
  BY <1>3 DEF optics_lens_exists
<1>4. ASSUME NEW t \in Threads, lens_free(t)
      PROVE  CoverInv'
  <2>1. arg[t] \in Lenses /\ state[arg[t]] = "private"
    BY <1>4 DEF lens_free, LocalsInv
  <2> QED
    BY <1>4, <2>1 DEF lens_free, Overwrite
<1>5. ASSUME NEW t \in Threads, NEW l \in Lenses, optics_lens_free(t, l)
      PROVE  CoverInv'
  <2>1. state[l] = "linked"
    BY <1>5, FreeLinked DEF optics_lens_free
  <2>2. prev[l] # Null => next[prev[l]] = l
    BY <2>1 DEF ListInv
  <2> QED
    BY <1>5, <2>1, <2>2 DEF optics_lens_free, lens_kill
<1>6. ASSUME NEW t \in Threads, defer_alloc(t)
      PROVE  CoverInv'
  BY <1>6 DEF defer_alloc
<1>7. ASSUME NEW t \in Threads, defer_alloc_fail(t)
      PROVE  CoverInv'
  BY <1>7 DEF defer_alloc_fail
<1>8. ASSUME NEW t \in Threads, optics_epoch(t)
      PROVE  CoverInv'
  BY <1>8 DEF optics_epoch, Running
<1>9. ASSUME NEW t \in Threads, defer_load(t)
      PROVE  CoverInv'
  BY <1>9 DEF defer_load, ReloadHead
<1>10. ASSUME NEW t \in Threads, defer_cas(t)
      PROVE  CoverInv'
  BY <1>10 DEF defer_cas
<1>11. ASSUME NEW t \in Threads, defer_cas_fail(t)
      PROVE  CoverInv'
  BY <1>11 DEF defer_cas_fail, ReloadHead
<1>12. ASSUME optics_open
      PROVE  CoverInv'
  BY <1>12 DEF optics_open
<1>13. ASSUME free_defered_exchange
      PROVE  CoverInv'
  BY <1>13 DEF free_defered_exchange, Idle, Detached
<1>14. ASSUME free_defered_lens
      PROVE  CoverInv'
  BY <1>14 DEF free_defered_lens, Overwrite
<1>15. ASSUME free_defered_node
      PROVE  CoverInv'
  BY <1>15 DEF free_defered_node
<1>16. ASSUME optics_epoch_inc
      PROVE  CoverInv'
  BY <1>16 DEF optics_epoch_inc, Flipped
<1>17. ASSUME foreach_head
      PROVE  CoverInv'
  BY <1>17 DEF foreach_head, Linked, ListInv
<1>18. ASSUME foreach_next
      PROVE  CoverInv'
  BY <1>18 DEF foreach_next
<1>19. ASSUME foreach_fail
      PROVE  CoverInv'
  BY <1>19 DEF foreach_fail
<1>20. ASSUME foreach_end
      PROVE  CoverInv'
  BY <1>20 DEF foreach_end
<1>21. ASSUME optics_close
      PROVE  CoverInv'
  BY <1>21 DEF optics_close, Drop
<1>22. ASSUME poller_killed
      PROVE  CoverInv'
  BY <1>22 DEF poller_killed, Drop
<1>23. ASSUME UNCHANGED vars
      PROVE  CoverInv'
  BY <1>23 DEF vars
<1> QED
  BY <1>1, <1>2, <1>3, <1>4, <1>5, <1>6, <1>7, <1>8, <1>9, <1>10, <1>11, <1>12, <1>13, <1>14, <1>15, <1>16, <1>17, <1>18, <1>19, <1>20, <1>21, <1>22, <1>23
     DEF Next, ClientStep, DeferStep, PollStep

\* ... the shape of the deferred-free lists,
LEMMA ChainStep ==
    ASSUME TypeOK, LocalsInv, DistinctInv, ChainInv, [Next]_vars
    PROVE  ChainInv'
<1> USE NullAssumption DEF TypeOK, PcStates, Epochs, NodeOrNull, ChainInv, Pending,
            header, lensVars, nodeVars, threadVars, pollerVars
<1>1. ASSUME NEW t \in Threads, NEW n \in Names, lens_alloc(t, n)
      PROVE  ChainInv'
  BY <1>1 DEF lens_alloc
<1>2. ASSUME NEW t \in Threads, optics_lens_alloc(t)
      PROVE  ChainInv'
  BY <1>2 DEF optics_lens_alloc, optics_push_lens, SetNextAssert
<1>3. ASSUME NEW t \in Threads, optics_lens_exists(t)
      PROVE  ChainInv'
  BY <1>3 DEF optics_lens_exists
<1>4. ASSUME NEW t \in Threads, lens_free(t)
      PROVE  ChainInv'
  BY <1>4 DEF lens_free, Overwrite
<1>5. ASSUME NEW t \in Threads, NEW l \in Lenses, optics_lens_free(t, l)
      PROVE  ChainInv'
  BY <1>5 DEF optics_lens_free, MayFree, KillAssert, lens_kill, HeadWithout
<1>6. ASSUME NEW t \in Threads, defer_alloc(t)
      PROVE  ChainInv'
  <2>1. PICK d \in Nodes \ usedNodes :
            /\ node' = [node EXCEPT ![t] = d]
            /\ usedNodes' = usedNodes \cup {d}
    BY <1>6 DEF defer_alloc
  <2> QED
    BY <1>6, <2>1 DEF defer_alloc
<1>7. ASSUME NEW t \in Threads, defer_alloc_fail(t)
      PROVE  ChainInv'
  BY <1>7 DEF defer_alloc_fail
<1>8. ASSUME NEW t \in Threads, optics_epoch(t)
      PROVE  ChainInv'
  BY <1>8 DEF optics_epoch, Running
<1>9. ASSUME NEW t \in Threads, defer_load(t)
      PROVE  ChainInv'
  <2>1. node[t] \in Nodes
    BY <1>9 DEF defer_load, LocalsInv, DeferPcs
  <2>2. \A u \in Threads : u # t => node[u] # node[t]
    BY <2>1 DEF DistinctInv
  <2> QED
    BY <1>9, <2>1, <2>2 DEF defer_load, ReloadHead
<1>10. ASSUME NEW t \in Threads, defer_cas(t)
      PROVE  ChainInv'
  <2>1. node[t] \in Nodes /\ node[t] \in usedNodes
    BY <1>10 DEF defer_cas, LocalsInv, DeferPcs
  <2>2. \A u \in Threads : u # t => node[u] # node[t]
    BY <2>1 DEF DistinctInv
  <2>3. nodeNext[node[t]] = epoch_defers[ep[t]]
    BY <1>10 DEF defer_cas
  <2> QED
    BY <1>10, <2>1, <2>2, <2>3 DEF defer_cas
<1>11. ASSUME NEW t \in Threads, defer_cas_fail(t)
      PROVE  ChainInv'
  <2>1. node[t] \in Nodes
    BY <1>11 DEF defer_cas_fail, LocalsInv, DeferPcs
  <2>2. \A u \in Threads : u # t => node[u] # node[t]
    BY <2>1 DEF DistinctInv
  <2> QED
    BY <1>11, <2>1, <2>2 DEF defer_cas_fail, ReloadHead
<1>12. ASSUME optics_open
      PROVE  ChainInv'
  BY <1>12 DEF optics_open
<1>13. ASSUME free_defered_exchange
      PROVE  ChainInv'
  BY <1>13 DEF free_defered_exchange, Idle, Detached
<1>14. ASSUME free_defered_lens
      PROVE  ChainInv'
  BY <1>14 DEF free_defered_lens, Overwrite
<1>15. ASSUME free_defered_node
      PROVE  ChainInv'
  BY <1>15 DEF free_defered_node
<1>16. ASSUME optics_epoch_inc
      PROVE  ChainInv'
  BY <1>16 DEF optics_epoch_inc, Flipped
<1>17. ASSUME foreach_head
      PROVE  ChainInv'
  BY <1>17 DEF foreach_head, Linked
<1>18. ASSUME foreach_next
      PROVE  ChainInv'
  BY <1>18 DEF foreach_next
<1>19. ASSUME foreach_fail
      PROVE  ChainInv'
  BY <1>19 DEF foreach_fail
<1>20. ASSUME foreach_end
      PROVE  ChainInv'
  BY <1>20 DEF foreach_end
<1>21. ASSUME optics_close
      PROVE  ChainInv'
  BY <1>21 DEF optics_close, Drop
<1>22. ASSUME poller_killed
      PROVE  ChainInv'
  BY <1>22 DEF poller_killed, Drop
<1>23. ASSUME UNCHANGED vars
      PROVE  ChainInv'
  BY <1>23 DEF vars
<1> QED
  BY <1>1, <1>2, <1>3, <1>4, <1>5, <1>6, <1>7, <1>8, <1>9, <1>10, <1>11, <1>12, <1>13, <1>14, <1>15, <1>16, <1>17, <1>18, <1>19, <1>20, <1>21, <1>22, <1>23
     DEF Next, ClientStep, DeferStep, PollStep

\* ... that a removed lens is claimed once,
LEMMA ClaimStep ==
    ASSUME TypeOK, LocalsInv, DistinctInv, BlocksInv, KeysInv, ChainInv, ClaimInv, ~StaleFree, [Next]_vars
    PROVE  ClaimInv'
<1> USE NullAssumption DEF TypeOK, LensOrNull, NodeOrNull, ClaimInv, Claims, Pending,
            header, lensVars, nodeVars, threadVars, pollerVars
<1>1. ASSUME NEW t \in Threads, NEW n \in Names, lens_alloc(t, n)
      PROVE  ClaimInv'
  BY <1>1 DEF lens_alloc
<1>2. ASSUME NEW t \in Threads, optics_lens_alloc(t)
      PROVE  ClaimInv'
  BY <1>2 DEF optics_lens_alloc, optics_push_lens, SetNextAssert
<1>3. ASSUME NEW t \in Threads, optics_lens_exists(t)
      PROVE  ClaimInv'
  BY <1>3 DEF optics_lens_exists
<1>4. ASSUME NEW t \in Threads, lens_free(t)
      PROVE  ClaimInv'
  BY <1>4 DEF lens_free, Overwrite
<1>5. ASSUME NEW t \in Threads, NEW l \in Lenses, optics_lens_free(t, l)
      PROVE  ClaimInv'
  <2>1. state[l] = "linked"
    BY <1>5, FreeLinked DEF optics_lens_free
  <2>2. \A d \in Claims : nodeOff[d] # l
    BY <2>1
  <2> QED
    BY <1>5, <2>1, <2>2 DEF optics_lens_free
<1>6. ASSUME NEW t \in Threads, defer_alloc(t)
      PROVE  ClaimInv'
  <2>1. PICK d \in Nodes \ usedNodes : nodeOff' = [nodeOff EXCEPT ![d] = arg[t]]
    BY <1>6 DEF defer_alloc
  <2>2. d \notin Claims
    BY DEF ChainInv
  <2> QED
    BY <1>6, <2>1, <2>2 DEF defer_alloc
<1>7. ASSUME NEW t \in Threads, defer_alloc_fail(t)
      PROVE  ClaimInv'
  BY <1>7 DEF defer_alloc_fail
<1>8. ASSUME NEW t \in Threads, optics_epoch(t)
      PROVE  ClaimInv'
  BY <1>8 DEF optics_epoch, Running
<1>9. ASSUME NEW t \in Threads, defer_load(t)
      PROVE  ClaimInv'
  BY <1>9 DEF defer_load, ReloadHead
<1>10. ASSUME NEW t \in Threads, defer_cas(t)
      PROVE  ClaimInv'
  <2>1. /\ arg[t] \in Lenses /\ state[arg[t]] = "removed"
        /\ node[t] \in Nodes /\ nodeOff[node[t]] = arg[t]
    BY <1>10 DEF defer_cas, LocalsInv, DeferPcs
  <2>2. \A u \in Threads : u # t => arg[u] # arg[t]
    BY <2>1 DEF DistinctInv
  <2>3. Claims' \subseteq Claims \cup {node[t]}
    BY <1>10, <2>1 DEF defer_cas, Epochs
  <2> QED
    BY <1>10, <2>1, <2>2, <2>3 DEF defer_cas
<1>11. ASSUME NEW t \in Threads, defer_cas_fail(t)
      PROVE  ClaimInv'
  BY <1>11 DEF defer_cas_fail, ReloadHead
<1>12. ASSUME optics_open
      PROVE  ClaimInv'
  BY <1>12 DEF optics_open
<1>13. ASSUME free_defered_exchange
      PROVE  ClaimInv'
  <2>1. Claims' \subseteq Claims
    BY <1>13 DEF free_defered_exchange, Idle, Detached, Epochs
  <2> QED
    BY <1>13, <2>1 DEF free_defered_exchange, Idle, Detached
<1>14. ASSUME free_defered_lens
      PROVE  ClaimInv'
  <2>1. reap \in Claims
    BY <1>14, ReapClaim DEF free_defered_lens
  <2>2. Claims' = Claims \ {reap}
    BY <1>14 DEF free_defered_lens
  <2> QED
    BY <1>14, <2>1, <2>2 DEF free_defered_lens, Overwrite
<1>15. ASSUME free_defered_node
      PROVE  ClaimInv'
  <2>1. reap \in Nodes /\ Claims' \subseteq Claims /\ reap \notin Claims'
    BY <1>15 DEF free_defered_node, ChainInv
  <2> QED
    BY <1>15, <2>1 DEF free_defered_node
<1>16. ASSUME optics_epoch_inc
      PROVE  ClaimInv'
  BY <1>16 DEF optics_epoch_inc, Flipped
<1>17. ASSUME foreach_head
      PROVE  ClaimInv'
  BY <1>17 DEF foreach_head, Linked
<1>18. ASSUME foreach_next
      PROVE  ClaimInv'
  BY <1>18 DEF foreach_next
<1>19. ASSUME foreach_fail
      PROVE  ClaimInv'
  BY <1>19 DEF foreach_fail
<1>20. ASSUME foreach_end
      PROVE  ClaimInv'
  BY <1>20 DEF foreach_end
<1>21. ASSUME optics_close
      PROVE  ClaimInv'
  BY <1>21 DEF optics_close, Drop
<1>22. ASSUME poller_killed
      PROVE  ClaimInv'
  <2>1. Claims' \subseteq Claims
    BY <1>22 DEF poller_killed, Drop, ChainInv
  <2> QED
    BY <1>22, <2>1 DEF poller_killed, Drop
<1>23. ASSUME UNCHANGED vars
      PROVE  ClaimInv'
  BY <1>23 DEF vars
<1> QED
  BY <1>1, <1>2, <1>3, <1>4, <1>5, <1>6, <1>7, <1>8, <1>9, <1>10, <1>11, <1>12, <1>13, <1>14, <1>15, <1>16, <1>17, <1>18, <1>19, <1>20, <1>21, <1>22, <1>23
     DEF Next, ClientStep, DeferStep, PollStep

\* ... the grace period
LEMMA FreshStep ==
    ASSUME TypeOK, LocalsInv, DistinctInv, BlocksInv, KeysInv, ChainInv, ClaimInv, FreshInv, ~StaleFree, [Next]_vars
    PROVE  FreshInv'
<1> USE NullAssumption DEF TypeOK, Epochs, PcStates, LensOrNull, NodeOrNull, FreshInv, Late,
            Claims, Pending, header, lensVars, nodeVars, threadVars, pollerVars
<1>1. ASSUME NEW t \in Threads, NEW n \in Names, lens_alloc(t, n)
      PROVE  FreshInv'
  BY <1>1 DEF lens_alloc
<1>2. ASSUME NEW t \in Threads, optics_lens_alloc(t)
      PROVE  FreshInv'
  <2>1. state[arg[t]] = "private"
    BY <1>2 DEF optics_lens_alloc, LocalsInv
  <2> QED
    BY <1>2, <2>1 DEF optics_lens_alloc
<1>3. ASSUME NEW t \in Threads, optics_lens_exists(t)
      PROVE  FreshInv'
  BY <1>3 DEF optics_lens_exists
<1>4. ASSUME NEW t \in Threads, lens_free(t)
      PROVE  FreshInv'
  <2>1. state[arg[t]] = "private"
    BY <1>4 DEF lens_free, LocalsInv
  <2> QED
    BY <1>4, <2>1 DEF lens_free, Overwrite
<1>5. ASSUME NEW t \in Threads, NEW l \in Lenses, optics_lens_free(t, l)
      PROVE  FreshInv'
  <2>1. state[l] = "linked"
    BY <1>5, FreeLinked DEF optics_lens_free
  <2>2. \A d \in Claims : nodeOff[d] # l
    BY <2>1 DEF ClaimInv
  <2>3. \A u \in Threads : Late(u) => arg[u] # l
    BY <2>1 DEF LocalsInv, DeferPcs
  <2> QED
    BY <1>5, <2>1, <2>2, <2>3 DEF optics_lens_free
<1>6. ASSUME NEW t \in Threads, defer_alloc(t)
      PROVE  FreshInv'
  <2>1. PICK d \in Nodes \ usedNodes : nodeOff' = [nodeOff EXCEPT ![d] = arg[t]]
    BY <1>6 DEF defer_alloc
  <2>2. d \notin Pending
    BY DEF ChainInv
  <2> QED
    BY <1>6, <2>1, <2>2 DEF defer_alloc
<1>7. ASSUME NEW t \in Threads, defer_alloc_fail(t)
      PROVE  FreshInv'
  BY <1>7 DEF defer_alloc_fail
<1>8. ASSUME NEW t \in Threads, optics_epoch(t)
      PROVE  FreshInv'
  BY <1>8 DEF optics_epoch, Running
<1>9. ASSUME NEW t \in Threads, defer_load(t)
      PROVE  FreshInv'
  BY <1>9 DEF defer_load, ReloadHead
<1>10. ASSUME NEW t \in Threads, defer_cas(t)
      PROVE  FreshInv'
  <2>1. arg[t] \in Lenses /\ node[t] \in Nodes /\ nodeOff[node[t]] = arg[t]
    BY <1>10 DEF defer_cas, LocalsInv, DeferPcs
  <2>2. ep[t] # epoch => arg[t] \notin fresh
    BY <1>10 DEF defer_cas
  <2> QED
    BY <1>10, <2>1, <2>2 DEF defer_cas
<1>11. ASSUME NEW t \in Threads, defer_cas_fail(t)
      PROVE  FreshInv'
  BY <1>11 DEF defer_cas_fail, ReloadHead
<1>12. ASSUME optics_open
      PROVE  FreshInv'
  BY <1>12 DEF optics_open
<1>13. ASSUME free_defered_exchange
      PROVE  FreshInv'
  BY <1>13 DEF free_defered_exchange, Idle, Detached
<1>14. ASSUME free_defered_lens
      PROVE  FreshInv'
  <2>1. reap \in Claims /\ reap \in reaping
    BY <1>14, ReapClaim DEF free_defered_lens
  <2>2. nodeOff[reap] \in Lenses /\ nodeOff[reap] \notin fresh
    BY <2>1 DEF ClaimInv
  <2> QED
    BY <1>14, <2>1, <2>2 DEF free_defered_lens, Overwrite
<1>15. ASSUME free_defered_node
      PROVE  FreshInv'
  <2>1. reap \in Nodes /\ reap \notin chain[0] \cup chain[1]
    BY <1>15 DEF free_defered_node, ChainInv
  <2> QED
    BY <1>15, <2>1 DEF free_defered_node
<1>16. ASSUME optics_epoch_inc
      PROVE  FreshInv'
  BY <1>16 DEF optics_epoch_inc, Flipped
<1>17. ASSUME foreach_head
      PROVE  FreshInv'
  BY <1>17 DEF foreach_head, Linked
<1>18. ASSUME foreach_next
      PROVE  FreshInv'
  BY <1>18 DEF foreach_next
<1>19. ASSUME foreach_fail
      PROVE  FreshInv'
  BY <1>19 DEF foreach_fail
<1>20. ASSUME foreach_end
      PROVE  FreshInv'
  BY <1>20 DEF foreach_end
<1>21. ASSUME optics_close
      PROVE  FreshInv'
  BY <1>21 DEF optics_close, Drop
<1>22. ASSUME poller_killed
      PROVE  FreshInv'
  <2>1. Claims' \subseteq Claims
    BY <1>22 DEF poller_killed, Drop, ChainInv
  <2> QED
    BY <1>22, <2>1 DEF poller_killed, Drop
<1>23. ASSUME UNCHANGED vars
      PROVE  FreshInv'
  BY <1>23 DEF vars
<1> QED
  BY <1>1, <1>2, <1>3, <1>4, <1>5, <1>6, <1>7, <1>8, <1>9, <1>10, <1>11, <1>12, <1>13, <1>14, <1>15, <1>16, <1>17, <1>18, <1>19, <1>20, <1>21, <1>22, <1>23
     DEF Next, ClientStep, DeferStep, PollStep

\* ... and the blocks the poller has mapped.
LEMMA ViewStep ==
    ASSUME TypeOK, LocalsInv, DistinctInv, BlocksInv, ChainInv, ClaimInv, ViewInv, [Next]_vars
    PROVE  ViewInv'
<1> USE NullAssumption DEF TypeOK, Epochs, PcStates, LensOrNull, NodeOrNull, ViewInv, Late,
            header, lensVars, nodeVars, threadVars, pollerVars
<1>1. ASSUME NEW t \in Threads, NEW n \in Names, lens_alloc(t, n)
      PROVE  ViewInv'
  BY <1>1 DEF lens_alloc
<1>2. ASSUME NEW t \in Threads, optics_lens_alloc(t)
      PROVE  ViewInv'
  BY <1>2 DEF optics_lens_alloc, optics_push_lens, SetNextAssert
<1>3. ASSUME NEW t \in Threads, optics_lens_exists(t)
      PROVE  ViewInv'
  BY <1>3 DEF optics_lens_exists
<1>4. ASSUME NEW t \in Threads, lens_free(t)
      PROVE  ViewInv'
  BY <1>4 DEF lens_free, Overwrite
<1>5. ASSUME NEW t \in Threads, NEW l \in Lenses, optics_lens_free(t, l)
      PROVE  ViewInv'
  BY <1>5 DEF optics_lens_free, MayFree, KillAssert, lens_kill, HeadWithout
<1>6. ASSUME NEW t \in Threads, defer_alloc(t)
      PROVE  ViewInv'
  <2>1. PICK d \in Nodes \ usedNodes : nodeOff' = [nodeOff EXCEPT ![d] = arg[t]]
    BY <1>6 DEF defer_alloc
  <2>2. d \notin Pending
    BY DEF ChainInv
  <2> QED
    BY <1>6, <2>1, <2>2 DEF defer_alloc, Pending
<1>7. ASSUME NEW t \in Threads, defer_alloc_fail(t)
      PROVE  ViewInv'
  BY <1>7 DEF defer_alloc_fail
<1>8. ASSUME NEW t \in Threads, optics_epoch(t)
      PROVE  ViewInv'
  BY <1>8 DEF optics_epoch, Running
<1>9. ASSUME NEW t \in Threads, defer_load(t)
      PROVE  ViewInv'
  BY <1>9 DEF defer_load, ReloadHead
<1>10. ASSUME NEW t \in Threads, defer_cas(t)
      PROVE  ViewInv'
  <2>1. node[t] \in Nodes /\ nodeOff[node[t]] = arg[t]
    BY <1>10 DEF defer_cas, LocalsInv, DeferPcs
  <2>2. ppc = "exchange" /\ ep[t] # epoch => node[t] \in view /\ arg[t] \in view
    BY <1>10 DEF defer_cas
  <2> QED
    BY <1>10, <2>1, <2>2 DEF defer_cas
<1>11. ASSUME NEW t \in Threads, defer_cas_fail(t)
      PROVE  ViewInv'
  BY <1>11 DEF defer_cas_fail, ReloadHead
<1>12. ASSUME optics_open
      PROVE  ViewInv'
  <2>1. reaping = {} /\ Claims = Pending /\ Pending \subseteq file
    BY <1>12 DEF optics_open, ChainInv, Claims, Pending, BlocksInv
  <2>2. \A d \in chain[0] \cup chain[1] : nodeOff[d] \in file
    BY <2>1 DEF ClaimInv, BlocksInv, Pending
  <2>3. \A u \in Threads : Late(u) => node[u] \in file /\ arg[u] \in file
    BY DEF LocalsInv, DeferPcs, BlocksInv
  <2> QED
    BY <1>12, <2>1, <2>2, <2>3 DEF optics_open, Pending
<1>13. ASSUME free_defered_exchange
      PROVE  ViewInv'
  BY <1>13 DEF free_defered_exchange, Idle, Detached
<1>14. ASSUME free_defered_lens
      PROVE  ViewInv'
  BY <1>14 DEF free_defered_lens, Overwrite
<1>15. ASSUME free_defered_node
      PROVE  ViewInv'
  BY <1>15 DEF free_defered_node
<1>16. ASSUME optics_epoch_inc
      PROVE  ViewInv'
  BY <1>16 DEF optics_epoch_inc, Flipped
<1>17. ASSUME foreach_head
      PROVE  ViewInv'
  BY <1>17 DEF foreach_head, Linked
<1>18. ASSUME foreach_next
      PROVE  ViewInv'
  BY <1>18 DEF foreach_next
<1>19. ASSUME foreach_fail
      PROVE  ViewInv'
  BY <1>19 DEF foreach_fail
<1>20. ASSUME foreach_end
      PROVE  ViewInv'
  BY <1>20 DEF foreach_end
<1>21. ASSUME optics_close
      PROVE  ViewInv'
  BY <1>21 DEF optics_close, Drop
<1>22. ASSUME poller_killed
      PROVE  ViewInv'
  BY <1>22 DEF poller_killed, Drop
<1>23. ASSUME UNCHANGED vars
      PROVE  ViewInv'
  BY <1>23 DEF vars
<1> QED
  BY <1>1, <1>2, <1>3, <1>4, <1>5, <1>6, <1>7, <1>8, <1>9, <1>10, <1>11, <1>12, <1>13, <1>14, <1>15, <1>16, <1>17, <1>18, <1>19, <1>20, <1>21, <1>22, <1>23
     DEF Next, ClientStep, DeferStep, PollStep

\* The inductive invariant holds in every reachable state, if no thread frees
\* a lens through a handle that outlived it.
THEOREM IndInvariant ==
    ASSUME ~StaleFree
    PROVE  Spec => []IndInv
<1>1. Init => IndInv
  BY NullAssumption, BaseAssumption
     DEF Init, IndInv, TypeOK, Epochs, PcStates, PpcStates, LensOrNull, NodeOrNull,
         LocalsInv, DeferPcs, DistinctInv, BlocksInv, KeysInv, ListInv, CoverInv,
         ChainInv, ClaimInv, Claims, Pending, FreshInv, Late, ViewInv
<1>2. IndInv /\ [Next]_vars => IndInv'
  BY TypeStep, LocalsStep, DistinctStep, BlocksStep, KeysStep, ListStep, CoverStep,
     ChainStep, ClaimStep, FreshStep, ViewStep
     DEF IndInv
<1> QED
  BY <1>1, <1>2, PTL DEF Spec

\* Every variable of the registry keeps its type; in particular the epoch
\* stays a parity and indexes the two deferred-free lists.
THEOREM TypeCorrect ==
    ASSUME ~StaleFree
    PROVE  Spec => []TypeOK
<1>1. IndInv => TypeOK
  BY DEF IndInv
<1> QED
  BY <1>1, IndInvariant, PTL

\* No client can trip the assertions of lens_set_next and lens_kill.
THEOREM AssertsHold ==
    ASSUME ~StaleFree
    PROVE  Spec => []ListAsserts
<1>1. IndInv => ListAsserts
  <2> SUFFICES ASSUME IndInv
               PROVE  ListAsserts
    OBVIOUS
  <2>1. SetNextAssert
    BY DEF SetNextAssert, IndInv, ListInv
  <2>2. ASSUME NEW l \in Lenses, MayFree(l)
        PROVE  KillAssert(l)
    BY <2>2, FreeLinked DEF IndInv, ListInv, KillAssert
  <2> QED
    BY <2>1, <2>2 DEF ListAsserts
<1> QED
  BY <1>1, IndInvariant, PTL

\* The lock-free walk never stands on a reclaimed block.
THEOREM TraversalSafe ==
    ASSUME ~StaleFree
    PROVE  Spec => []SafeTraversal
<1>1. IndInv => SafeTraversal
  BY DEF IndInv, CoverInv, SafeTraversal
<1> QED
  BY <1>1, IndInvariant, PTL

\* Everything the poller drains is inside the mapping it opened, and is given
\* back once.
THEOREM DrainedOnce ==
    ASSUME ~StaleFree
    PROVE  Spec => []DrainSound
<1>1. IndInv => DrainSound
  BY ReapClaim DEF IndInv, ViewInv, ClaimInv, DrainSound, ReclaimOnce, NoDeferLeak
<1> QED
  BY <1>1, IndInvariant, PTL

\* A removed lens outlives an epoch increment.
THEOREM GraceKept ==
    ASSUME ~StaleFree
    PROVE  Spec => []GracePeriod
<1>1. IndInv => GracePeriod
  BY DEF IndInv, FreshInv, GracePeriod
<1> QED
  BY <1>1, IndInvariant, PTL

-----------------------------------------------------------------------------
(* The walk of optics_foreach_lens.  The lenses in the list are ordered by  *)
(* a rank that falls along next, and a pushed lens ranks above all others.  *)
(* A removed lens keeps its rank, and what lies between it and the lens it  *)
(* still points to has left the list.                                       *)

\* r falls along nx through L, from hd on, and skips nothing of L.
Ordered(r, nx, L, hd) ==
    /\ \A l, m \in L : r[l] = r[m] => l = m
    /\ \A l \in L : nx[l] # Null => r[nx[l]] < r[l]
    /\ \A l, m \in L : r[m] < r[l] => nx[l] # Null /\ r[m] <= r[nx[l]]
    /\ \A m \in L : hd # Null /\ r[m] <= r[hd]

\* The same of the lenses C that a walk covers, where L is what is left of the
\* list; V was visited and ranks above cur, and what is left and was not
\* visited does not.
WalkOrdered(r, nx, C, L, V, cur) ==
    /\ \A l, m \in C : r[l] = r[m] => l = m
    /\ \A l \in C : nx[l] # Null => r[nx[l]] < r[l]
    /\ \A l \in C : \A m \in C \cap L : r[m] < r[l] => nx[l] # Null /\ r[m] <= r[nx[l]]
    /\ \A v \in V : cur # Null => r[cur] < r[v]
    /\ \A m \in C \cap L : m \in V \/ (cur # Null /\ r[m] <= r[cur])

OrderInv ==
    \E r \in [Lenses -> Nat] :
        /\ Ordered(r, next, Linked, lens_head)
        /\ ppc = "walk" => WalkOrdered(r, next, cover, Linked, visited, cursor)

\* A walk visits what it covers, and once it came to its end it has visited what
\* is left of that.
VisitedInv ==
    /\ ppc = "walk" => visited \subseteq cover
    /\ ppc = "done" => /\ cover \cap Linked \subseteq visited
                       /\ \A l \in cover : state[l] \in {"linked", "removed"}

\* Pointers of other lenses do not matter.
LEMMA OrderedSame ==
    ASSUME NEW r, NEW nx, NEW nx2, NEW L, NEW hd, Ordered(r, nx, L, hd),
           \A l \in L : nx2[l] = nx[l]
    PROVE  Ordered(r, nx2, L, hd)
BY DEF Ordered

\* ... and to the walk only those it covers.
LEMMA WalkOrderedSame ==
    ASSUME NEW r, NEW r2, NEW nx, NEW nx2, NEW C, NEW L, NEW L2, NEW V, NEW cur,
           WalkOrdered(r, nx, C, L, V, cur), C \cap L2 \subseteq L, V \subseteq C,
           cur \in C \cup {Null}, \A l \in C : nx[l] \in C \cup {Null},
           \A l \in C : nx2[l] = nx[l] /\ r2[l] = r[l]
    PROVE  WalkOrdered(r2, nx2, C, L2, V, cur)
<1>1. \A m \in C \cap L2 : m \in C \cap L
  OBVIOUS
<1> QED
  BY <1>1 DEF WalkOrdered

\* The lens new ranks above the head hd.
Raised(r, new, hd) == [r EXCEPT ![new] = IF hd = Null THEN 0 ELSE r[hd] + 1]

\* ... and the other ranks stay.
LEMMA RaisedRank ==
    ASSUME NEW r \in [Lenses -> Nat], NEW new \in Lenses, NEW hd, hd # Null => hd \in Lenses
    PROVE  /\ Raised(r, new, hd) \in [Lenses -> Nat]
           /\ \A l \in Lenses : l # new => Raised(r, new, hd)[l] = r[l]
BY DEF Raised

\* new points to hd, and the lenses L keep pointing to each other.
Pushes(new, hd, nx, nx2, L) ==
    nx2[new] = hd /\ \A l \in L : nx[l] \in L \cup {Null} /\ nx2[l] = nx[l]

\* optics_push_lens: the new head ranks above the old one.
LEMMA PushOrdered ==
    ASSUME NEW r \in [Lenses -> Nat], NEW nx, NEW nx2, NEW L \in SUBSET Lenses,
           NEW hd \in L \cup {Null}, Ordered(r, nx, L, hd),
           NEW new \in Lenses \ L, Pushes(new, hd, nx, nx2, L)
    PROVE  Ordered(Raised(r, new, hd), nx2, L \cup {new}, new)
<1> DEFINE top == IF hd = Null THEN 0 ELSE r[hd] + 1
           q == [r EXCEPT ![new] = top]
<1>1. nx2[new] = hd /\ \A l \in L : nx[l] \in L \cup {Null} /\ nx2[l] = nx[l]
  BY DEF Pushes
<1>2. q[new] = top /\ top \in Nat /\ new # Null /\ \A l \in L : q[l] = r[l] /\ r[l] \in Nat /\ l # Null
  BY NullAssumption
<1>3. \A l \in L : hd # Null /\ r[l] <= r[hd] /\ r[hd] \in Nat
  BY DEF Ordered
<1>4. \A l \in L : r[l] < top
  BY <1>2, <1>3
<1>5. hd # Null => top = r[hd] + 1 /\ hd \in L /\ q[hd] = r[hd]
  OBVIOUS
<1>6. q \in [Lenses -> Nat] /\ (\A l \in Lenses : l # new => q[l] = r[l]) /\ Raised(r, new, hd) = q
  BY <1>2 DEF Raised
<1> HIDE DEF q, top
<1>7. \A l, m \in L \cup {new} : q[l] = q[m] => l = m
  BY <1>2, <1>4 DEF Ordered
<1>8. \A l \in L \cup {new} : nx2[l] # Null => q[nx2[l]] < q[l]
  <2>1. hd # Null => q[hd] < q[new]
    BY <1>2, <1>5
  <2> QED
    BY <1>1, <1>2, <2>1 DEF Ordered
<1>9. ASSUME NEW l \in L \cup {new}, NEW m \in L \cup {new}, q[m] < q[l]
      PROVE  nx2[l] # Null /\ q[m] <= q[nx2[l]]
  <2>1. m \in L
    BY <1>2, <1>4, <1>9
  <2>2. CASE l \in L
    <3>1. nx[l] # Null /\ r[m] <= r[nx[l]] /\ nx[l] \in L
      BY <1>1, <1>2, <1>9, <2>1, <2>2 DEF Ordered
    <3> QED
      BY <1>1, <1>2, <2>1, <2>2, <3>1
  <2>3. CASE l = new
    BY <1>1, <1>2, <1>3, <1>5, <2>1, <2>3
  <2> QED
    BY <2>2, <2>3
<1>10. \A m \in L \cup {new} : new # Null /\ q[m] <= q[new]
  BY <1>2, <1>4
<1> QED
  BY <1>6, <1>7, <1>8, <1>9, <1>10 DEF Ordered

\* lens_kill: what comes before l now points past it.
Unlinks(l, p, nx, nx2, C) ==
    \A x \in C : nx2[x] = IF x = p THEN nx[l] ELSE nx[x]

\* ... which leaves the others in order,
LEMMA KillOrdered ==
    ASSUME NEW r \in [Lenses -> Nat], NEW nx, NEW nx2, NEW L \in SUBSET Lenses, NEW hd, NEW hd2,
           Ordered(r, nx, L, hd), \A x \in L : nx[x] \in L \cup {Null}, hd \in L \cup {Null},
           NEW l \in L, NEW p, Unlinks(l, p, nx, nx2, L),
           \A x \in L : (nx[x] = l <=> x = p), hd2 = IF hd = l THEN nx[l] ELSE hd
    PROVE  Ordered(r, nx2, L \ {l}, hd2)
<1>1. \A x \in L : r[x] \in Nat /\ x # Null
  BY NullAssumption
<1>2. \A x \in L : nx[x] # Null => nx[x] \in L /\ r[nx[x]] < r[x]
  BY DEF Ordered
<1>3. \A x, y \in L : r[x] = r[y] => x = y
  BY DEF Ordered
<1>4. \A x, y \in L : r[y] < r[x] => nx[x] # Null /\ r[y] <= r[nx[x]]
  BY DEF Ordered
<1>5. \A y \in L : hd # Null /\ r[y] <= r[hd]
  BY DEF Ordered
<1>6. ASSUME NEW x \in L \ {l}, nx2[x] # Null
      PROVE  r[nx2[x]] < r[x]
  <2>1. CASE x = p
    <3>1. nx2[x] = nx[l] /\ nx[x] = l
      BY <2>1 DEF Unlinks
    <3>2. r[nx[l]] < r[l] /\ r[l] < r[x] /\ nx[l] \in L
      BY <1>1, <1>2, <1>6, <3>1
    <3> QED
      BY <1>1, <3>1, <3>2
  <2>2. CASE x # p
    BY <1>2, <1>6, <2>2 DEF Unlinks
  <2> QED
    BY <2>1, <2>2
<1>7. ASSUME NEW x \in L \ {l}, NEW y \in L \ {l}, r[y] < r[x]
      PROVE  nx2[x] # Null /\ r[y] <= r[nx2[x]]
  <2>1. CASE x = p
    <3>1. nx2[x] = nx[l] /\ nx[x] = l
      BY <2>1 DEF Unlinks
    <3>2. r[y] <= r[l] /\ r[y] # r[l]
      BY <1>3, <1>4, <1>7, <3>1
    <3>3. r[y] < r[l]
      BY <1>1, <3>2
    <3> QED
      BY <1>4, <3>1, <3>3
  <2>2. CASE x # p
    BY <1>4, <1>7, <2>2 DEF Unlinks
  <2> QED
    BY <2>1, <2>2
<1>8. ASSUME NEW y \in L \ {l}
      PROVE  hd2 # Null /\ r[y] <= r[hd2]
  <2>1. CASE hd = l
    <3>1. r[y] <= r[l] /\ r[y] # r[l]
      BY <1>3, <1>5, <2>1
    <3>2. r[y] < r[l]
      BY <1>1, <3>1
    <3> QED
      BY <1>4, <2>1, <3>2
  <2>2. CASE hd # l
    BY <1>5, <2>2
  <2> QED
    BY <2>1, <2>2
<1> QED
  BY <1>3, <1>6, <1>7, <1>8 DEF Ordered

\* ... the walk over them included.
LEMMA KillWalkOrdered ==
    ASSUME NEW r \in [Lenses -> Nat], NEW nx, NEW nx2, NEW C \in SUBSET Lenses,
           NEW L, NEW V, NEW cur, WalkOrdered(r, nx, C, L, V, cur),
           \A x \in C : nx[x] \in C \cup {Null},
           NEW l \in L, l # Null, NEW p, Unlinks(l, p, nx, nx2, C), p \in C => nx[p] = l
    PROVE  WalkOrdered(r, nx2, C, L \ {l}, V, cur)
<1>1. \A x \in C : r[x] \in Nat /\ x # Null
  BY NullAssumption
<1>2. \A x \in C : nx[x] # Null => nx[x] \in C /\ r[nx[x]] < r[x]
  BY DEF WalkOrdered
<1>3. \A x, y \in C : r[x] = r[y] => x = y
  BY DEF WalkOrdered
<1>4. \A x \in C : \A y \in C \cap L : r[y] < r[x] => nx[x] # Null /\ r[y] <= r[nx[x]]
  BY DEF WalkOrdered
<1>5. \A y \in C \cap (L \ {l}) : y \in C \cap L /\ y # l
  OBVIOUS
<1>6. ASSUME NEW x \in C, x = p
      PROVE  nx2[x] = nx[l] /\ nx[x] = l /\ l \in C
  BY <1>6 DEF Unlinks
<1>7. ASSUME NEW x \in C, nx2[x] # Null
      PROVE  r[nx2[x]] < r[x]
  <2>1. CASE x = p
    <3>1. r[nx[l]] < r[l] /\ r[l] < r[x] /\ nx[l] \in C
      BY <1>1, <1>2, <1>6, <1>7, <2>1
    <3> QED
      BY <1>1, <1>6, <2>1, <3>1
  <2>2. CASE x # p
    BY <1>2, <1>7, <2>2 DEF Unlinks
  <2> QED
    BY <2>1, <2>2
<1>8. ASSUME NEW x \in C, NEW y \in C \cap (L \ {l}), r[y] < r[x]
      PROVE  nx2[x] # Null /\ r[y] <= r[nx2[x]]
  <2>1. CASE x = p
    <3>1. r[y] <= r[l] /\ r[y] # r[l]
      BY <1>3, <1>4, <1>5, <1>6, <1>8, <2>1
    <3>2. r[y] < r[l]
      BY <1>1, <1>6, <2>1, <3>1
    <3> QED
      BY <1>4, <1>5, <1>6, <2>1, <3>2
  <2>2. CASE x # p
    BY <1>4, <1>5, <1>8, <2>2 DEF Unlinks
  <2> QED
    BY <2>1, <2>2
<1>9. /\ \A v \in V : cur # Null => r[cur] < r[v]
      /\ \A m \in C \cap (L \ {l}) : m \in V \/ (cur # Null /\ r[m] <= r[cur])
  BY <1>5 DEF WalkOrdered
<1> QED
  BY <1>3, <1>7, <1>8, <1>9 DEF WalkOrdered

\* Every step keeps the lenses in order,
LEMMA OrderStep ==
    ASSUME TypeOK, LocalsInv, BlocksInv, KeysInv, ListInv, CoverInv, ChainInv, ClaimInv,
           OrderInv, VisitedInv, ~StaleFree, [Next]_vars
    PROVE  OrderInv'
<1> USE DEF header, lensVars, nodeVars, threadVars, pollerVars
<1>1. ASSUME NEW t \in Threads, NEW n \in Names, lens_alloc(t, n)
      PROVE  OrderInv'
  <2>0. PICK l \in Lenses : /\ state[l] = "free"
                           /\ state' = [state EXCEPT ![l] = "private"]
                           /\ next' = [next EXCEPT ![l] = Null]
    BY <1>1 DEF lens_alloc
  <2>1. PICK r \in [Lenses -> Nat] :
             /\ Ordered(r, next, Linked, lens_head)
             /\ ppc = "walk" => WalkOrdered(r, next, cover, Linked, visited, cursor)
    BY DEF OrderInv
  <2>2. l \in Lenses /\ state[l] \notin {"linked", "removed"}
    BY <2>0
  <2>3. /\ \A x \in Lenses : x # l => next'[x] = next[x] /\ state'[x] = state[x]
        /\ state'[l] # "linked" /\ UNCHANGED <<lens_head, ppc, cover, visited, cursor>>
    BY <1>1, <2>0, <2>2 DEF lens_alloc, TypeOK
  <2>4. Linked' = Linked /\ \A x \in Linked : x \in Lenses /\ x # l
    BY <2>2, <2>3 DEF Linked
  <2>5. Ordered(r, next', Linked, lens_head)
    BY <2>1, <2>3, <2>4, OrderedSame
  <2>6. ASSUME ppc = "walk"
        PROVE  WalkOrdered(r, next', cover, Linked, visited, cursor)
    <3>1. /\ \A x \in cover : next'[x] = next[x] /\ next[x] \in cover \cup {Null}
          /\ cursor \in cover \cup {Null} /\ visited \subseteq cover
      BY <2>2, <2>3, <2>6 DEF CoverInv, VisitedInv, TypeOK
    <3> QED
      BY <2>1, <2>6, <3>1, WalkOrderedSame
  <2> QED
    BY <2>3, <2>4, <2>5, <2>6 DEF OrderInv
<1>2. ASSUME NEW t \in Threads, optics_lens_alloc(t)
      PROVE  OrderInv'
  <2>1. PICK r \in [Lenses -> Nat] :
             /\ Ordered(r, next, Linked, lens_head)
             /\ ppc = "walk" => WalkOrdered(r, next, cover, Linked, visited, cursor)
    BY DEF OrderInv
  <2> DEFINE q == Raised(r, arg[t], lens_head)
  <2>2. arg[t] \in Lenses /\ state[arg[t]] = "private"
    BY <1>2 DEF optics_lens_alloc, LocalsInv
  <2>3. /\ next' = [next EXCEPT ![arg[t]] = lens_head] /\ lens_head' = arg[t]
        /\ state' = [state EXCEPT ![arg[t]] = "linked"]
        /\ UNCHANGED <<ppc, cover, visited, cursor>>
    BY <1>2 DEF optics_lens_alloc, optics_push_lens
  <2>4. /\ arg[t] \in Lenses \ Linked /\ Linked' = Linked \cup {arg[t]}
        /\ next'[arg[t]] = lens_head /\ \A x \in Lenses : x # arg[t] => next'[x] = next[x]
    BY <2>2, <2>3 DEF Linked, TypeOK
  <2>5. /\ lens_head \in Linked \cup {Null} /\ Linked \in SUBSET Lenses
        /\ \A x \in Linked : next[x] \in Linked \cup {Null}
    BY DEF ListInv, Linked, TypeOK, LensOrNull
  <2>6. \A x \in Linked : next'[x] = next[x]
    BY <2>4, <2>5
  <2>7. /\ q \in [Lenses -> Nat] /\ \A x \in Lenses : x # arg[t] => q[x] = r[x]
        /\ Ordered(q, next', Linked \cup {arg[t]}, arg[t])
    <3>1. Ordered(r, next, Linked, lens_head) /\ arg[t] \in Lenses \ Linked
      BY <2>1, <2>4
    <3>2. Pushes(arg[t], lens_head, next, next', Linked)
      BY <2>4, <2>5, <2>6 DEF Pushes
    <3>3. lens_head \in Linked \cup {Null} /\ Linked \in SUBSET Lenses
      BY <2>5
    <3>4. q \in [Lenses -> Nat] /\ \A x \in Lenses : x # arg[t] => q[x] = r[x]
      BY <3>1, <3>3, RaisedRank
    <3>5. Ordered(q, next', Linked \cup {arg[t]}, arg[t])
      BY <3>1, <3>2, <3>3, PushOrdered
    <3> QED
      BY <3>4, <3>5
  <2>9. ASSUME ppc = "walk"
        PROVE  WalkOrdered(q, next', cover, Linked \cup {arg[t]}, visited, cursor)
    <3>1. /\ \A x \in cover : x # arg[t] /\ x \in Lenses /\ next[x] \in cover \cup {Null}
          /\ cursor \in cover \cup {Null} /\ visited \subseteq cover
      BY <2>2, <2>9 DEF CoverInv, VisitedInv, TypeOK
    <3>2. \A x \in cover : next'[x] = next[x] /\ q[x] = r[x]
      BY <2>4, <2>7, <3>1
    <3>3. cover \cap (Linked \cup {arg[t]}) \subseteq Linked
      BY <3>1
    <3> HIDE DEF q
    <3> QED
      BY <2>1, <2>9, <3>1, <3>2, <3>3, WalkOrderedSame
  <2> HIDE DEF q
  <2> QED
    BY <2>3, <2>4, <2>7, <2>9 DEF OrderInv
<1>3. ASSUME NEW t \in Threads, optics_lens_exists(t)
      PROVE  OrderInv'
  <2>1. /\ UNCHANGED <<next, lens_head, state>>
        /\ ppc' = "walk" => UNCHANGED <<ppc, cover, visited, cursor>>
    BY <1>3 DEF optics_lens_exists
  <2> QED
    BY <2>1 DEF OrderInv, Linked
<1>4. ASSUME NEW t \in Threads, lens_free(t)
      PROVE  OrderInv'
  <2>1. PICK r \in [Lenses -> Nat] :
             /\ Ordered(r, next, Linked, lens_head)
             /\ ppc = "walk" => WalkOrdered(r, next, cover, Linked, visited, cursor)
    BY DEF OrderInv
  <2>2. arg[t] \in Lenses /\ state[arg[t]] \notin {"linked", "removed"}
    BY <1>4 DEF lens_free, LocalsInv
  <2>3. /\ \A x \in Lenses : x # arg[t] => next'[x] = next[x] /\ state'[x] = state[x]
        /\ state'[arg[t]] # "linked" /\ UNCHANGED <<lens_head, ppc, cover, visited, cursor>>
    BY <1>4, <2>2 DEF lens_free, Overwrite, TypeOK
  <2>4. Linked' = Linked /\ \A x \in Linked : x \in Lenses /\ x # arg[t]
    BY <2>2, <2>3 DEF Linked
  <2>5. Ordered(r, next', Linked, lens_head)
    BY <2>1, <2>3, <2>4, OrderedSame
  <2>6. ASSUME ppc = "walk"
        PROVE  WalkOrdered(r, next', cover, Linked, visited, cursor)
    <3>1. /\ \A x \in cover : next'[x] = next[x] /\ next[x] \in cover \cup {Null}
          /\ cursor \in cover \cup {Null} /\ visited \subseteq cover
      BY <2>2, <2>3, <2>6 DEF CoverInv, VisitedInv, TypeOK
    <3> QED
      BY <2>1, <2>6, <3>1, WalkOrderedSame
  <2> QED
    BY <2>3, <2>4, <2>5, <2>6 DEF OrderInv
<1>5. ASSUME NEW t \in Threads, NEW l \in Lenses, optics_lens_free(t, l)
      PROVE  OrderInv'
  <2>1. PICK r \in [Lenses -> Nat] :
             /\ Ordered(r, next, Linked, lens_head)
             /\ ppc = "walk" => WalkOrdered(r, next, cover, Linked, visited, cursor)
    BY DEF OrderInv
  <2>2. l \in Linked
    BY <1>5, FreeLinked DEF optics_lens_free, Linked
  <2>3. /\ next' = [x \in Lenses |-> IF x = prev[l] THEN next[l] ELSE next[x]]
        /\ lens_head' = IF lens_head = l THEN next[l] ELSE lens_head
        /\ state' = [state EXCEPT ![l] = "removed"]
        /\ UNCHANGED <<ppc, cover, visited, cursor>>
    BY <1>5 DEF optics_lens_free, lens_kill, HeadWithout
  <2>4. Linked' = Linked \ {l}
    BY <2>3 DEF Linked, TypeOK
  <2>5. /\ lens_head \in Linked \cup {Null} /\ Linked \in SUBSET Lenses
        /\ \A x \in Linked : next[x] \in Linked \cup {Null}
    BY DEF ListInv, Linked, TypeOK, LensOrNull
  <2>6. prev[l] # Null => prev[l] \in Linked /\ next[prev[l]] = l
    BY <2>2 DEF ListInv, Linked, TypeOK, LensOrNull
  <2>7. \A x \in Linked : next[x] = l <=> x = prev[l]
    <3>1. \A x \in Linked : next[x] = l => x = prev[l]
      BY <2>2, NullAssumption DEF ListInv, Linked
    <3>2. \A x \in Linked : x # Null
      BY <2>5, NullAssumption
    <3> QED
      BY <2>6, <3>1, <3>2
  <2>8. \A C \in SUBSET Lenses : Unlinks(l, prev[l], next, next', C)
    BY <2>3 DEF Unlinks
  <2>9. Ordered(r, next', Linked \ {l}, lens_head')
    <3>1. Unlinks(l, prev[l], next, next', Linked)
      BY <2>5, <2>8
    <3> QED
      BY <2>1, <2>2, <2>3, <2>5, <2>7, <3>1, KillOrdered
  <2>10. ASSUME ppc = "walk"
         PROVE  WalkOrdered(r, next', cover, Linked \ {l}, visited, cursor)
    <3>1. cover \in SUBSET Lenses /\ \A x \in cover : next[x] \in cover \cup {Null}
      BY <2>10 DEF CoverInv, TypeOK
    <3>2. Unlinks(l, prev[l], next, next', cover)
      BY <2>8, <3>1
    <3>3. l # Null /\ (prev[l] \in cover => next[prev[l]] = l)
      BY <2>5, <2>2, <2>6, <3>1, NullAssumption
    <3> QED
      BY <2>1, <2>2, <2>10, <3>1, <3>2, <3>3, KillWalkOrdered
  <2> QED
    BY <2>3, <2>4, <2>9, <2>10 DEF OrderInv
<1>6. ASSUME NEW t \in Threads, defer_alloc(t)
      PROVE  OrderInv'
  <2>1. /\ UNCHANGED <<next, lens_head, state>>
        /\ ppc' = "walk" => UNCHANGED <<ppc, cover, visited, cursor>>
    BY <1>6 DEF defer_alloc
  <2> QED
    BY <2>1 DEF OrderInv, Linked
<1>7. ASSUME NEW t \in Threads, defer_alloc_fail(t)
      PROVE  OrderInv'
  <2>1. /\ UNCHANGED <<next, lens_head, state>>
        /\ ppc' = "walk" => UNCHANGED <<ppc, cover, visited, cursor>>
    BY <1>7 DEF defer_alloc_fail
  <2> QED
    BY <2>1 DEF OrderInv, Linked
<1>8. ASSUME NEW t \in Threads, optics_epoch(t)
      PROVE  OrderInv'
  <2>1. /\ UNCHANGED <<next, lens_head, state>>
        /\ ppc' = "walk" => UNCHANGED <<ppc, cover, visited, cursor>>
    BY <1>8 DEF optics_epoch
  <2> QED
    BY <2>1 DEF OrderInv, Linked
<1>9. ASSUME NEW t \in Threads, defer_load(t)
      PROVE  OrderInv'
  <2>1. /\ UNCHANGED <<next, lens_head, state>>
        /\ ppc' = "walk" => UNCHANGED <<ppc, cover, visited, cursor>>
    BY <1>9 DEF defer_load
  <2> QED
    BY <2>1 DEF OrderInv, Linked
<1>10. ASSUME NEW t \in Threads, defer_cas(t)
       PROVE  OrderInv'
  <2>1. /\ UNCHANGED <<next, lens_head, state>>
        /\ ppc' = "walk" => UNCHANGED <<ppc, cover, visited, cursor>>
    BY <1>10 DEF defer_cas
  <2> QED
    BY <2>1 DEF OrderInv, Linked
<1>11. ASSUME NEW t \in Threads, defer_cas_fail(t)
       PROVE  OrderInv'
  <2>1. /\ UNCHANGED <<next, lens_head, state>>
        /\ ppc' = "walk" => UNCHANGED <<ppc, cover, visited, cursor>>
    BY <1>11 DEF defer_cas_fail
  <2> QED
    BY <2>1 DEF OrderInv, Linked
<1>12. ASSUME optics_open
       PROVE  OrderInv'
  <2>1. /\ UNCHANGED <<next, lens_head, state>>
        /\ ppc' = "walk" => UNCHANGED <<ppc, cover, visited, cursor>>
    BY <1>12 DEF optics_open
  <2> QED
    BY <2>1 DEF OrderInv, Linked
<1>13. ASSUME free_defered_exchange
       PROVE  OrderInv'
  <2>1. /\ UNCHANGED <<next, lens_head, state>>
        /\ ppc' = "walk" => UNCHANGED <<ppc, cover, visited, cursor>>
    BY <1>13 DEF free_defered_exchange
  <2> QED
    BY <2>1 DEF OrderInv, Linked
<1>14. ASSUME free_defered_lens
       PROVE  OrderInv'
  <2>1. PICK r \in [Lenses -> Nat] :
             /\ Ordered(r, next, Linked, lens_head)
             /\ ppc = "walk" => WalkOrdered(r, next, cover, Linked, visited, cursor)
    BY DEF OrderInv
  <2>2. nodeOff[reap] \in Lenses /\ state[nodeOff[reap]] = "removed"
    BY <1>14, ReapClaim DEF free_defered_lens, ClaimInv
  <2>3. /\ \A x \in Lenses : x # nodeOff[reap] => next'[x] = next[x] /\ state'[x] = state[x]
        /\ state'[nodeOff[reap]] # "linked" /\ UNCHANGED lens_head /\ ppc' # "walk"
    BY <1>14, <2>2 DEF free_defered_lens, Overwrite, TypeOK
  <2>4. Linked' = Linked /\ \A x \in Linked : x \in Lenses /\ x # nodeOff[reap]
    BY <2>2, <2>3 DEF Linked
  <2>5. Ordered(r, next', Linked, lens_head)
    BY <2>1, <2>3, <2>4, OrderedSame
  <2> QED
    BY <2>3, <2>4, <2>5 DEF OrderInv
<1>15. ASSUME free_defered_node
       PROVE  OrderInv'
  <2>1. /\ UNCHANGED <<next, lens_head, state>>
        /\ ppc' = "walk" => UNCHANGED <<ppc, cover, visited, cursor>>
    BY <1>15 DEF free_defered_node
  <2> QED
    BY <2>1 DEF OrderInv, Linked
<1>16. ASSUME optics_epoch_inc
       PROVE  OrderInv'
  <2>1. /\ UNCHANGED <<next, lens_head, state>>
        /\ ppc' = "walk" => UNCHANGED <<ppc, cover, visited, cursor>>
    BY <1>16 DEF optics_epoch_inc
  <2> QED
    BY <2>1 DEF OrderInv, Linked
<1>17. ASSUME foreach_head
       PROVE  OrderInv'
  <2>1. PICK r \in [Lenses -> Nat] :
             /\ Ordered(r, next, Linked, lens_head)
             /\ ppc = "walk" => WalkOrdered(r, next, cover, Linked, visited, cursor)
    BY DEF OrderInv
  <2>2. /\ UNCHANGED <<next, lens_head, state>> /\ Linked' = Linked
        /\ cursor' = lens_head /\ cover' = Linked /\ visited' = {}
    BY <1>17 DEF foreach_head, Linked
  <2>3. WalkOrdered(r, next, Linked, Linked, {}, lens_head)
    BY <2>1 DEF Ordered, WalkOrdered
  <2> QED
    BY <2>1, <2>2, <2>3 DEF OrderInv
<1>18. ASSUME foreach_next
       PROVE  OrderInv'
  <2>1. PICK r \in [Lenses -> Nat] :
             /\ Ordered(r, next, Linked, lens_head)
             /\ ppc = "walk" => WalkOrdered(r, next, cover, Linked, visited, cursor)
    BY DEF OrderInv
  <2>2. /\ UNCHANGED <<next, lens_head, state, cover, ppc>> /\ Linked' = Linked /\ ppc = "walk"
        /\ cursor' = next[cursor] /\ visited' = visited \cup {cursor} /\ cursor # Null
    BY <1>18, NullAssumption DEF foreach_next, Linked, TypeOK
  <2>3. /\ cursor \in cover /\ next[cursor] \in cover \cup {Null}
        /\ visited \subseteq cover /\ \A x \in cover : r[x] \in Nat
    BY <2>1, <2>2 DEF CoverInv, VisitedInv, TypeOK
  <2>4. WalkOrdered(r, next, cover, Linked, visited, cursor)
    BY <2>1, <2>2
  <2>5. \A v \in visited \cup {cursor} : next[cursor] # Null => r[next[cursor]] < r[v]
    <3>1. next[cursor] # Null => r[next[cursor]] < r[cursor]
      BY <2>3, <2>4 DEF WalkOrdered
    <3>2. \A v \in visited : r[cursor] < r[v]
      BY <2>2, <2>4 DEF WalkOrdered
    <3> QED
      BY <2>3, <3>1, <3>2
  <2>6. ASSUME NEW m \in cover \cap Linked, m \notin visited \cup {cursor}
        PROVE  next[cursor] # Null /\ r[m] <= r[next[cursor]]
    <3>1. r[m] <= r[cursor] /\ r[m] # r[cursor]
      BY <2>3, <2>4, <2>6 DEF WalkOrdered
    <3>2. r[m] < r[cursor]
      BY <2>3, <3>1
    <3> QED
      BY <2>3, <2>4, <3>2 DEF WalkOrdered
  <2>7. WalkOrdered(r, next, cover, Linked, visited \cup {cursor}, next[cursor])
    BY <2>4, <2>5, <2>6 DEF WalkOrdered
  <2> QED
    BY <2>1, <2>2, <2>7 DEF OrderInv
<1>19. ASSUME foreach_fail
       PROVE  OrderInv'
  <2>1. /\ UNCHANGED <<next, lens_head, state>>
        /\ ppc' = "walk" => UNCHANGED <<ppc, cover, visited, cursor>>
    BY <1>19 DEF foreach_fail
  <2> QED
    BY <2>1 DEF OrderInv, Linked
<1>20. ASSUME foreach_end
       PROVE  OrderInv'
  <2>1. /\ UNCHANGED <<next, lens_head, state>>
        /\ ppc' = "walk" => UNCHANGED <<ppc, cover, visited, cursor>>
    BY <1>20 DEF foreach_end
  <2> QED
    BY <2>1 DEF OrderInv, Linked
<1>21. ASSUME optics_close
       PROVE  OrderInv'
  <2>1. /\ UNCHANGED <<next, lens_head, state>>
        /\ ppc' = "walk" => UNCHANGED <<ppc, cover, visited, cursor>>
    BY <1>21 DEF optics_close, Drop
  <2> QED
    BY <2>1 DEF OrderInv, Linked
<1>22. ASSUME poller_killed
       PROVE  OrderInv'
  <2>1. /\ UNCHANGED <<next, lens_head, state>>
        /\ ppc' = "walk" => UNCHANGED <<ppc, cover, visited, cursor>>
    BY <1>22 DEF poller_killed, Drop
  <2> QED
    BY <2>1 DEF OrderInv, Linked
<1>23. ASSUME UNCHANGED vars
       PROVE  OrderInv'
  <2>1. /\ UNCHANGED <<next, lens_head, state>>
        /\ ppc' = "walk" => UNCHANGED <<ppc, cover, visited, cursor>>
    BY <1>23 DEF vars
  <2> QED
    BY <2>1 DEF OrderInv, Linked
<1> QED
  BY <1>1, <1>2, <1>3, <1>4, <1>5, <1>6, <1>7, <1>8, <1>9, <1>10,
     <1>11, <1>12, <1>13, <1>14, <1>15, <1>16, <1>17, <1>18, <1>19, <1>20, <1>21, <1>22, <1>23
     DEF Next, ClientStep, DeferStep, PollStep

\* ... and what a walk has visited among those it covers.
LEMMA VisitedStep ==
    ASSUME TypeOK, LocalsInv, CoverInv, OrderInv, VisitedInv, ~StaleFree, [Next]_vars
    PROVE  VisitedInv'
<1> USE DEF header, lensVars, nodeVars, threadVars, pollerVars
<1>1. ASSUME NEW t \in Threads, NEW n \in Names, lens_alloc(t, n)
      PROVE  VisitedInv'
  <2>0. PICK l \in Lenses : state[l] = "free" /\ state' = [state EXCEPT ![l] = "private"]
    BY <1>1 DEF lens_alloc
  <2>1. l \in Lenses /\ state[l] \notin {"linked", "removed"}
    BY <2>0
  <2>2. /\ \A x \in Lenses : x # l => state'[x] = state[x]
        /\ UNCHANGED <<ppc, cover, visited>>
    BY <1>1, <2>0 DEF lens_alloc, TypeOK
  <2> QED
    BY <2>1, <2>2 DEF VisitedInv, Linked, TypeOK
<1>2. ASSUME NEW t \in Threads, optics_lens_alloc(t)
      PROVE  VisitedInv'
  <2>1. arg[t] \in Lenses /\ state[arg[t]] \notin {"linked", "removed"}
    BY <1>2 DEF optics_lens_alloc, LocalsInv
  <2>2. /\ \A x \in Lenses : x # arg[t] => state'[x] = state[x]
        /\ UNCHANGED <<ppc, cover, visited>>
    BY <1>2, <2>1 DEF optics_lens_alloc, TypeOK
  <2> QED
    BY <2>1, <2>2 DEF VisitedInv, Linked, TypeOK
<1>3. ASSUME NEW t \in Threads, optics_lens_exists(t)
      PROVE  VisitedInv'
  <2>1. /\ UNCHANGED state
        /\ ppc' \in {"walk", "done"} => UNCHANGED <<ppc, cover, visited>>
    BY <1>3 DEF optics_lens_exists
  <2> QED
    BY <2>1 DEF VisitedInv, Linked
<1>4. ASSUME NEW t \in Threads, lens_free(t)
      PROVE  VisitedInv'
  <2>1. arg[t] \in Lenses /\ state[arg[t]] \notin {"linked", "removed"}
    BY <1>4 DEF lens_free, LocalsInv
  <2>2. /\ \A x \in Lenses : x # arg[t] => state'[x] = state[x]
        /\ UNCHANGED <<ppc, cover, visited>>
    BY <1>4, <2>1 DEF lens_free, Overwrite, TypeOK
  <2> QED
    BY <2>1, <2>2 DEF VisitedInv, Linked, TypeOK
<1>5. ASSUME NEW t \in Threads, NEW l \in Lenses, optics_lens_free(t, l)
      PROVE  VisitedInv'
  <2>1. /\ state' = [state EXCEPT ![l] = "removed"] /\ UNCHANGED <<ppc, cover, visited>>
    BY <1>5 DEF optics_lens_free
  <2> QED
    BY <2>1 DEF VisitedInv, Linked, TypeOK
<1>6. ASSUME NEW t \in Threads, defer_alloc(t)
      PROVE  VisitedInv'
  <2>1. /\ UNCHANGED state
        /\ ppc' \in {"walk", "done"} => UNCHANGED <<ppc, cover, visited>>
    BY <1>6 DEF defer_alloc
  <2> QED
    BY <2>1 DEF VisitedInv, Linked
<1>7. ASSUME NEW t \in Threads, defer_alloc_fail(t)
      PROVE  VisitedInv'
  <2>1. /\ UNCHANGED state
        /\ ppc' \in {"walk", "done"} => UNCHANGED <<ppc, cover, visited>>
    BY <1>7 DEF defer_alloc_fail
  <2> QED
    BY <2>1 DEF VisitedInv, Linked
<1>8. ASSUME NEW t \in Threads, optics_epoch(t)
      PROVE  VisitedInv'
  <2>1. /\ UNCHANGED state
        /\ ppc' \in {"walk", "done"} => UNCHANGED <<ppc, cover, visited>>
    BY <1>8 DEF optics_epoch
  <2> QED
    BY <2>1 DEF VisitedInv, Linked
<1>9. ASSUME NEW t \in Threads, defer_load(t)
      PROVE  VisitedInv'
  <2>1. /\ UNCHANGED state
        /\ ppc' \in {"walk", "done"} => UNCHANGED <<ppc, cover, visited>>
    BY <1>9 DEF defer_load
  <2> QED
    BY <2>1 DEF VisitedInv, Linked
<1>10. ASSUME NEW t \in Threads, defer_cas(t)
       PROVE  VisitedInv'
  <2>1. /\ UNCHANGED state
        /\ ppc' \in {"walk", "done"} => UNCHANGED <<ppc, cover, visited>>
    BY <1>10 DEF defer_cas
  <2> QED
    BY <2>1 DEF VisitedInv, Linked
<1>11. ASSUME NEW t \in Threads, defer_cas_fail(t)
       PROVE  VisitedInv'
  <2>1. /\ UNCHANGED state
        /\ ppc' \in {"walk", "done"} => UNCHANGED <<ppc, cover, visited>>
    BY <1>11 DEF defer_cas_fail
  <2> QED
    BY <2>1 DEF VisitedInv, Linked
<1>12. ASSUME optics_open
       PROVE  VisitedInv'
  <2>1. /\ UNCHANGED state
        /\ ppc' \in {"walk", "done"} => UNCHANGED <<ppc, cover, visited>>
    BY <1>12 DEF optics_open
  <2> QED
    BY <2>1 DEF VisitedInv, Linked
<1>13. ASSUME free_defered_exchange
       PROVE  VisitedInv'
  <2>1. /\ UNCHANGED state
        /\ ppc' \in {"walk", "done"} => UNCHANGED <<ppc, cover, visited>>
    BY <1>13 DEF free_defered_exchange
  <2> QED
    BY <2>1 DEF VisitedInv, Linked
<1>14. ASSUME free_defered_lens
       PROVE  VisitedInv'
  BY <1>14 DEF free_defered_lens, VisitedInv
<1>15. ASSUME free_defered_node
       PROVE  VisitedInv'
  <2>1. /\ UNCHANGED state
        /\ ppc' \in {"walk", "done"} => UNCHANGED <<ppc, cover, visited>>
    BY <1>15 DEF free_defered_node
  <2> QED
    BY <2>1 DEF VisitedInv, Linked
<1>16. ASSUME optics_epoch_inc
       PROVE  VisitedInv'
  <2>1. /\ UNCHANGED state
        /\ ppc' \in {"walk", "done"} => UNCHANGED <<ppc, cover, visited>>
    BY <1>16 DEF optics_epoch_inc
  <2> QED
    BY <2>1 DEF VisitedInv, Linked
<1>17. ASSUME foreach_head
       PROVE  VisitedInv'
  BY <1>17 DEF foreach_head, VisitedInv
<1>18. ASSUME foreach_next
       PROVE  VisitedInv'
  <2>1. cursor \in cover
    BY <1>18, NullAssumption DEF foreach_next, CoverInv, TypeOK
  <2> QED
    BY <1>18, <2>1 DEF foreach_next, VisitedInv
<1>19. ASSUME foreach_fail
       PROVE  VisitedInv'
  <2>1. /\ UNCHANGED state
        /\ ppc' \in {"walk", "done"} => UNCHANGED <<ppc, cover, visited>>
    BY <1>19 DEF foreach_fail
  <2> QED
    BY <2>1 DEF VisitedInv, Linked
<1>20. ASSUME foreach_end
       PROVE  VisitedInv'
  <2>1. \A l \in cover : state[l] \in {"linked", "removed"}
    BY <1>20 DEF foreach_end, CoverInv
  <2>2. cover \cap Linked \subseteq visited
    BY <1>20 DEF foreach_end, OrderInv, WalkOrdered
  <2> QED
    BY <1>20, <2>1, <2>2 DEF foreach_end, VisitedInv, Linked
<1>21. ASSUME optics_close
       PROVE  VisitedInv'
  <2>1. /\ UNCHANGED state
        /\ ppc' \in {"walk", "done"} => UNCHANGED <<ppc, cover, visited>>
    BY <1>21 DEF optics_close, Drop
  <2> QED
    BY <2>1 DEF VisitedInv, Linked
<1>22. ASSUME poller_killed
       PROVE  VisitedInv'
  <2>1. /\ UNCHANGED state
        /\ ppc' \in {"walk", "done"} => UNCHANGED <<ppc, cover, visited>>
    BY <1>22 DEF poller_killed, Drop
  <2> QED
    BY <2>1 DEF VisitedInv, Linked
<1>23. ASSUME UNCHANGED vars
       PROVE  VisitedInv'
  <2>1. /\ UNCHANGED state
        /\ ppc' \in {"walk", "done"} => UNCHANGED <<ppc, cover, visited>>
    BY <1>23 DEF vars
  <2> QED
    BY <2>1 DEF VisitedInv, Linked
<1> QED
  BY <1>1, <1>2, <1>3, <1>4, <1>5, <1>6, <1>7, <1>8, <1>9, <1>10,
     <1>11, <1>12, <1>13, <1>14, <1>15, <1>16, <1>17, <1>18, <1>19, <1>20, <1>21, <1>22, <1>23
     DEF Next, ClientStep, DeferStep, PollStep

\* However lenses are registered, unlinked and reclaimed under its feet, the
\* lock-free walk of optics_foreach_lens meets no lens twice and misses none that
\* was in the list throughout.
THEOREM WalkIsExact ==
    ASSUME ~StaleFree
    PROVE  Spec => []WalkExact
<1>1. Init => OrderInv /\ VisitedInv
  <2> SUFFICES ASSUME Init
               PROVE  OrderInv /\ VisitedInv
    OBVIOUS
  <2>1. Linked = {} /\ ppc = "closed"
    BY DEF Init, Linked
  <2>2. [l \in Lenses |-> 0] \in [Lenses -> Nat] /\ Ordered([l \in Lenses |-> 0], next, {}, lens_head)
    BY DEF Ordered
  <2> QED
    BY <2>1, <2>2 DEF OrderInv, VisitedInv
<1>2. IndInv /\ OrderInv /\ VisitedInv /\ [Next]_vars => (OrderInv /\ VisitedInv)'
  BY OrderStep, VisitedStep DEF IndInv
<1>3. IndInv /\ OrderInv /\ VisitedInv => WalkExact
  <2> SUFFICES ASSUME IndInv, OrderInv, VisitedInv
               PROVE  WalkExact
    OBVIOUS
  <2>1. WalkComplete
    BY DEF VisitedInv, WalkComplete
  <2>2. ASSUME ppc = "walk", cursor \in visited
        PROVE  FALSE
    <3>1. PICK r \in [Lenses -> Nat] : WalkOrdered(r, next, cover, Linked, visited, cursor)
      BY <2>2 DEF OrderInv
    <3>2. cursor \in Lenses /\ cursor # Null
      BY <2>2, NullAssumption DEF IndInv, TypeOK
    <3>3. r[cursor] < r[cursor] /\ r[cursor] \in Nat
      BY <2>2, <3>1, <3>2 DEF WalkOrdered
    <3> QED
      BY <3>3
  <2> QED
    BY <2>1, <2>2 DEF WalkExact, NoRevisit
<1> QED
  BY <1>1, <1>2, <1>3, IndInvariant, PTL DEF Spec

=============================================================================
