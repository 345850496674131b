----------------------------- MODULE AllocProofs ----------------------------
(***************************************************************************)
(* Proofs about Alloc, for any number of threads and slabs and any length  *)
(* of a slab.                                                              *)
(***************************************************************************)
EXTENDS Alloc, WellFoundedInduction, TLAPS

\* A slab belongs to the thread that is about to push it, and to no other.
SlabInv ==
    \A t \in Threads :
        /\ pc[t] = "push" => slab[t] \in grown
        /\ pc[t] # "push" => slab[t] = Null
        /\ \A u \in Threads : u # t /\ slab[t] # Null => slab[u] # slab[t]

\* Blocks others can know of: their slab was pushed.
Pushed(b) == b[1] \in grown /\ \A t \in Threads : slab[t] # b[1]

\* A block is handed out, on one list or being freed by one thread.
PlaceInv ==
    /\ owned \cap inAlloc = {}
    /\ owned \cap inFree = {}
    /\ inAlloc \cap inFree = {}
    /\ \A b \in owned \cup inAlloc \cup inFree : Pushed(b)
    /\ \A t \in Threads :
        /\ pc[t] = "cas" => /\ off[t] \in Blocks
                            /\ off[t] \notin owned \cup inAlloc \cup inFree
                            /\ Pushed(off[t])
        /\ pc[t] # "cas" => off[t] = Null
        /\ \A u \in Threads : u # t /\ off[t] # Null => off[u] # off[t]

\* S holds whole chains, nothing points to head and nothing is shared.
ListInv(head, S) ==
    /\ head \in S \cup {Null}
    /\ \A b \in S :
        /\ link[b] \in S \cup {Null}
        /\ link[b] # Null => link[b] # head
        /\ \A c \in S : c # b /\ link[b] # Null => link[c] # link[b]

\* What a thread has written into blocks that are not on a list yet.
LinkInv ==
    \A t \in Threads :
        /\ pc[t] = "cas" => link[off[t]] = old[t]
        /\ pc[t] = "push" =>
            \A i \in 2 .. SlabLen : i < SlabLen => link[<<slab[t], i>>] = <<slab[t], i + 1>>

Lists == ListInv(alloc, inAlloc) /\ ListInv(free, inFree)

IndInv == TypeOK /\ SlabInv /\ PlaceInv /\ LinkInv /\ Lists

\* The blocks of a slab, linked in order and then to head, form a chain that
\* starts at the second and is entered nowhere else.
LEMMA SlabChain ==
    ASSUME NEW s, NEW nxt, NEW head,
           \A i \in 2 .. SlabLen : i # SlabLen => nxt[<<s, i>>] = <<s, i + 1>>,
           nxt[<<s, SlabLen>>] = head,
           \A i \in 2 .. SlabLen : head # <<s, i>>
    PROVE  \A b \in {<<s, i>> : i \in 2 .. SlabLen} :
               /\ nxt[b] \in {<<s, i>> : i \in 2 .. SlabLen} \cup {head}
               /\ nxt[b] # <<s, 2>>
               /\ \A c \in {<<s, i>> : i \in 2 .. SlabLen} : c # b => nxt[c] # nxt[b]
<1> USE SlabLenAssumption
<1> SUFFICES ASSUME NEW i \in 2 .. SlabLen, NEW j \in 2 .. SlabLen
             PROVE  /\ nxt[<<s, i>>] \in {<<s, k>> : k \in 2 .. SlabLen} \cup {head}
                    /\ nxt[<<s, i>>] # <<s, 2>>
                    /\ i # j => nxt[<<s, j>>] # nxt[<<s, i>>]
  OBVIOUS
<1>1. CASE i = SlabLen
  <2>1. nxt[<<s, i>>] = head
    BY <1>1
  <2>2. ASSUME i # j
        PROVE  nxt[<<s, j>>] # head
    <3>1. nxt[<<s, j>>] = <<s, j + 1>> /\ j + 1 \in 2 .. SlabLen
      BY <1>1, <2>2
    <3> QED
      BY <3>1
  <2> QED
    BY <2>1, <2>2
<1>2. CASE i # SlabLen
  <2>1. nxt[<<s, i>>] = <<s, i + 1>> /\ i + 1 \in 2 .. SlabLen /\ i + 1 # 2
    BY <1>2
  <2>2. ASSUME i # j
        PROVE  nxt[<<s, j>>] # <<s, i + 1>>
    <3>1. CASE j = SlabLen
      BY <3>1, <2>1
    <3>2. CASE j # SlabLen
      <4>1. nxt[<<s, j>>] = <<s, j + 1>> /\ j + 1 # i + 1
        BY <3>2, <2>2
      <4> QED
        BY <4>1
    <3> QED
      BY <3>1, <3>2
  <2> QED
    BY <2>1, <2>2
<1> QED
  BY <1>1, <1>2

\* Every step preserves the type invariant,
LEMMA TypeStep ==
    ASSUME TypeOK, SlabInv, PlaceInv, [Next]_vars
    PROVE  TypeOK'
<1> USE NullAssumption, SlabLenAssumption
    DEF TypeOK, BlockOrNull, threadVars, Blocks
<1>1. ASSUME NEW t \in Threads, alloc_pop(t)
      PROVE  TypeOK'
  BY <1>1 DEF alloc_pop
<1>2. ASSUME NEW t \in Threads, alloc_drain(t)
      PROVE  TypeOK'
  BY <1>2 DEF alloc_drain, Drained
<1>3. ASSUME NEW t \in Threads, alloc_empty(t)
      PROVE  TypeOK'
  BY <1>3 DEF alloc_empty
<1>4. ASSUME NEW t \in Threads, fill_grow(t)
      PROVE  TypeOK'
  BY <1>4 DEF fill_grow, SlabLinks
<1>5. ASSUME NEW t \in Threads, fill_fail(t)
      PROVE  TypeOK'
  BY <1>5 DEF fill_fail
<1>6. ASSUME NEW t \in Threads, fill_push(t)
      PROVE  TypeOK'
  BY <1>6 DEF fill_push, SlabHead, SlabInv
<1>7. ASSUME NEW t \in Threads, NEW b \in Blocks, free_load(t, b)
      PROVE  TypeOK'
  BY <1>7 DEF free_load
<1>8. ASSUME NEW t \in Threads, free_cas(t)
      PROVE  TypeOK'
  <2>1. off[t] \in Blocks
    BY <1>8 DEF free_cas, PlaceInv
  <2> QED
    BY <1>8, <2>1 DEF free_cas
<1>9. ASSUME NEW t \in Threads, free_cas_fail(t)
      PROVE  TypeOK'
  BY <1>9 DEF free_cas_fail, Relinked
<1>10. ASSUME UNCHANGED vars
      PROVE  TypeOK'
  BY <1>10 DEF vars
<1> QED
  BY <1>1, <1>2, <1>3, <1>4, <1>5, <1>6, <1>7, <1>8, <1>9, <1>10
     DEF Next, Step

\* ... the ownership of slabs,
LEMMA SlabStep ==
    ASSUME TypeOK, SlabInv, [Next]_vars
    PROVE  SlabInv'
<1> USE NullAssumption, SlabLenAssumption
    DEF TypeOK, BlockOrNull, threadVars, SlabInv
<1>1. ASSUME NEW t \in Threads, alloc_pop(t)
      PROVE  SlabInv'
  BY <1>1 DEF alloc_pop
<1>2. ASSUME NEW t \in Threads, alloc_drain(t)
      PROVE  SlabInv'
  BY <1>2 DEF alloc_drain, Drained
<1>3. ASSUME NEW t \in Threads, alloc_empty(t)
      PROVE  SlabInv'
  BY <1>3 DEF alloc_empty
<1>4. ASSUME NEW t \in Threads, fill_grow(t)
      PROVE  SlabInv'
  BY <1>4 DEF fill_grow
<1>5. ASSUME NEW t \in Threads, fill_fail(t)
      PROVE  SlabInv'
  BY <1>5 DEF fill_fail
<1>6. ASSUME NEW t \in Threads, fill_push(t)
      PROVE  SlabInv'
  BY <1>6 DEF fill_push, SlabHead
<1>7. ASSUME NEW t \in Threads, NEW b \in Blocks, free_load(t, b)
      PROVE  SlabInv'
  BY <1>7 DEF free_load
<1>8. ASSUME NEW t \in Threads, free_cas(t)
      PROVE  SlabInv'
  BY <1>8 DEF free_cas
<1>9. ASSUME NEW t \in Threads, free_cas_fail(t)
      PROVE  SlabInv'
  BY <1>9 DEF free_cas_fail, Relinked
<1>10. ASSUME UNCHANGED vars
      PROVE  SlabInv'
  BY <1>10 DEF vars
<1> QED
  BY <1>1, <1>2, <1>3, <1>4, <1>5, <1>6, <1>7, <1>8, <1>9, <1>10
     DEF Next, Step

\* ... the one place of a block,
LEMMA PlaceStep ==
    ASSUME TypeOK, SlabInv, PlaceInv, Lists, [Next]_vars
    PROVE  PlaceInv'
<1> USE NullAssumption, SlabLenAssumption
    DEF TypeOK, BlockOrNull, threadVars, SlabInv, PlaceInv, Pushed, Lists, ListInv
<1>1. ASSUME NEW t \in Threads, alloc_pop(t)
      PROVE  PlaceInv'
  BY <1>1 DEF alloc_pop
<1>2. ASSUME NEW t \in Threads, alloc_drain(t)
      PROVE  PlaceInv'
  BY <1>2 DEF alloc_drain, Drained
<1>3. ASSUME NEW t \in Threads, alloc_empty(t)
      PROVE  PlaceInv'
  BY <1>3 DEF alloc_empty
<1>4. ASSUME NEW t \in Threads, fill_grow(t)
      PROVE  PlaceInv'
  BY <1>4 DEF fill_grow
<1>5. ASSUME NEW t \in Threads, fill_fail(t)
      PROVE  PlaceInv'
  BY <1>5 DEF fill_fail
<1>6. ASSUME NEW t \in Threads, fill_push(t)
      PROVE  PlaceInv'
  BY <1>6 DEF fill_push, SlabHead
<1>7. ASSUME NEW t \in Threads, NEW b \in Blocks, free_load(t, b)
      PROVE  PlaceInv'
  BY <1>7 DEF free_load
<1>8. ASSUME NEW t \in Threads, free_cas(t)
      PROVE  PlaceInv'
  BY <1>8 DEF free_cas
<1>9. ASSUME NEW t \in Threads, free_cas_fail(t)
      PROVE  PlaceInv'
  BY <1>9 DEF free_cas_fail, Relinked
<1>10. ASSUME UNCHANGED vars
      PROVE  PlaceInv'
  BY <1>10 DEF vars
<1> QED
  BY <1>1, <1>2, <1>3, <1>4, <1>5, <1>6, <1>7, <1>8, <1>9, <1>10
     DEF Next, Step

\* ... what threads have written,
LEMMA LinkStep ==
    ASSUME TypeOK, SlabInv, PlaceInv, LinkInv, Lists, [Next]_vars
    PROVE  LinkInv'
<1> USE NullAssumption, SlabLenAssumption
    DEF TypeOK, BlockOrNull, threadVars, SlabInv, PlaceInv, Pushed, LinkInv, Lists, ListInv
<1>1. ASSUME NEW t \in Threads, alloc_pop(t)
      PROVE  LinkInv'
  BY <1>1 DEF alloc_pop
<1>2. ASSUME NEW t \in Threads, alloc_drain(t)
      PROVE  LinkInv'
  BY <1>2 DEF alloc_drain, Drained
<1>3. ASSUME NEW t \in Threads, alloc_empty(t)
      PROVE  LinkInv'
  BY <1>3 DEF alloc_empty
<1>4. ASSUME NEW t \in Threads, fill_grow(t)
      PROVE  LinkInv'
  <2>1. PICK s \in Slabs \ grown :
            slab' = [slab EXCEPT ![t] = s] /\ link' = SlabLinks(s)
    BY <1>4 DEF fill_grow
  <2>2. \A b \in Blocks : b[1] # s => link'[b] = link[b]
    BY <2>1 DEF SlabLinks
  <2>3. \A i \in 2 .. SlabLen : i < SlabLen => link'[<<s, i>>] = <<s, i + 1>>
    BY <2>1 DEF SlabLinks, Blocks
  <2>4. ASSUME NEW u \in Threads, pc[u] = "push", NEW i \in 2 .. SlabLen, i < SlabLen
        PROVE  link'[<<slab[u], i>>] = <<slab[u], i + 1>>
    BY <2>1, <2>2, <2>4 DEF Blocks
  <2>5. \A u \in Threads : pc[u] = "cas" => link'[off[u]] = old[u]
    BY <2>1, <2>2
  <2> QED
    BY <1>4, <2>1, <2>3, <2>4, <2>5 DEF fill_grow
<1>5. ASSUME NEW t \in Threads, fill_fail(t)
      PROVE  LinkInv'
  BY <1>5 DEF fill_fail
<1>6. ASSUME NEW t \in Threads, fill_push(t)
      PROVE  LinkInv'
  BY <1>6 DEF fill_push, SlabHead
<1>7. ASSUME NEW t \in Threads, NEW b \in Blocks, free_load(t, b)
      PROVE  LinkInv'
  BY <1>7 DEF free_load
<1>8. ASSUME NEW t \in Threads, free_cas(t)
      PROVE  LinkInv'
  BY <1>8 DEF free_cas
<1>9. ASSUME NEW t \in Threads, free_cas_fail(t)
      PROVE  LinkInv'
  BY <1>9 DEF free_cas_fail, Relinked
<1>10. ASSUME UNCHANGED vars
      PROVE  LinkInv'
  BY <1>10 DEF vars
<1> QED
  BY <1>1, <1>2, <1>3, <1>4, <1>5, <1>6, <1>7, <1>8, <1>9, <1>10
     DEF Next, Step

\* ... and the shape of the two lists.
LEMMA ListStep ==
    ASSUME TypeOK, SlabInv, PlaceInv, LinkInv, Lists, [Next]_vars
    PROVE  Lists'
<1> USE NullAssumption, SlabLenAssumption
    DEF TypeOK, BlockOrNull, threadVars, PlaceInv, Pushed, Lists, ListInv
<1>1. ASSUME NEW t \in Threads, alloc_pop(t)
      PROVE  Lists'
  BY <1>1 DEF alloc_pop
<1>2. ASSUME NEW t \in Threads, alloc_drain(t)
      PROVE  Lists'
  BY <1>2 DEF alloc_drain, Drained
<1>3. ASSUME NEW t \in Threads, alloc_empty(t)
      PROVE  Lists'
  BY <1>3 DEF alloc_empty
<1>4. ASSUME NEW t \in Threads, fill_grow(t)
      PROVE  Lists'
  <2>1. PICK s \in Slabs \ grown : link' = SlabLinks(s)
    BY <1>4 DEF fill_grow
  <2>2. \A b \in inAlloc \cup inFree : link'[b] = link[b]
    BY <2>1 DEF SlabLinks
  <2> QED
    BY <1>4, <2>2 DEF fill_grow
<1>5. ASSUME NEW t \in Threads, fill_fail(t)
      PROVE  Lists'
  BY <1>5 DEF fill_fail
<1>6. ASSUME NEW t \in Threads, fill_push(t)
      PROVE  Lists'
  <2> DEFINE s == slab[t]
             fresh == {<<s, i>> : i \in 2 .. SlabLen}
  <2>1. s \in Slabs
    BY <1>6 DEF fill_push, SlabHead, SlabInv
  <2>2. \A b \in inAlloc \cup inFree : b \in Blocks /\ b[1] # s
    BY <1>6
  <2>3. fresh \subseteq Blocks /\ (\A b \in fresh : b[1] = s) /\ <<s, 2>> \in fresh
    BY <2>1 DEF Blocks
  <2>4. \A b \in inAlloc \cup inFree : link'[b] = link[b]
    BY <1>6, <2>2 DEF fill_push, SlabHead
  <2>5. /\ \A i \in 2 .. SlabLen : i # SlabLen => link'[<<s, i>>] = <<s, i + 1>>
        /\ link'[<<s, SlabLen>>] = alloc
    <3>1. \A i \in 2 .. SlabLen : <<s, i>> \in Blocks
      BY <2>1 DEF Blocks
    <3>2. link' = [link EXCEPT ![<<s, SlabLen>>] = alloc]
      BY <1>6 DEF fill_push, SlabHead
    <3>3. \A i \in 2 .. SlabLen : i < SlabLen => link[<<s, i>>] = <<s, i + 1>>
      BY <1>6 DEF fill_push, SlabHead, LinkInv
    <3>4. ASSUME NEW i \in 2 .. SlabLen, i # SlabLen
          PROVE  link'[<<s, i>>] = <<s, i + 1>>
      <4>1. i < SlabLen /\ <<s, i>> # <<s, SlabLen>>
        BY <3>4
      <4> QED
        BY <4>1, <3>1, <3>2, <3>3
    <3>5. link'[<<s, SlabLen>>] = alloc
      <4>1. SlabLen \in 2 .. SlabLen
        OBVIOUS
      <4> QED
        BY <4>1, <3>1, <3>2
    <3> QED
      BY <3>4, <3>5
  <2>6. \A b \in fresh :
            /\ link'[b] \in fresh \cup {alloc}
            /\ link'[b] # <<s, 2>>
            /\ \A c \in fresh : c # b => link'[c] # link'[b]
    <3>1. alloc \notin fresh
      BY <2>2, <2>3
    <3>2. \A i \in 2 .. SlabLen : alloc # <<s, i>>
      BY <3>1
    <3> HIDE DEF TypeOK, BlockOrNull, threadVars, PlaceInv, Pushed, Lists, ListInv
    <3> HIDE SlabLenAssumption, NullAssumption
    <3> QED
      BY <3>2, <2>5, SlabChain
  <2>7. alloc' = <<s, 2>> /\ inAlloc' = inAlloc \cup fresh /\ free' = free /\ inFree' = inFree
    BY <1>6 DEF fill_push, SlabHead
  <2>8. ListInv(free, inFree)'
    BY <2>4, <2>7
  <2> HIDE DEF s, fresh
  <2>9. ASSUME NEW b \in inAlloc \cup fresh
        PROVE  /\ link'[b] \in inAlloc \cup fresh \cup {Null}
               /\ link'[b] # Null => link'[b] # <<s, 2>>
               /\ \A c \in inAlloc \cup fresh : c # b /\ link'[b] # Null => link'[c] # link'[b]
    <3>1. CASE b \in inAlloc
      BY <3>1, <2>2, <2>3, <2>4, <2>6
    <3>2. CASE b \in fresh
      BY <3>2, <2>2, <2>3, <2>4, <2>6
    <3> QED
      BY <3>1, <3>2
  <2>10. ListInv(alloc, inAlloc)'
    BY <2>3, <2>7, <2>9
  <2> QED
    BY <2>8, <2>10
<1>7. ASSUME NEW t \in Threads, NEW b \in Blocks, free_load(t, b)
      PROVE  Lists'
  BY <1>7 DEF free_load
<1>8. ASSUME NEW t \in Threads, free_cas(t)
      PROVE  Lists'
  <2>1. link[off[t]] = free /\ off[t] \in Blocks
    BY <1>8 DEF free_cas, LinkInv
  <2> QED
    BY <1>8, <2>1 DEF free_cas
<1>9. ASSUME NEW t \in Threads, free_cas_fail(t)
      PROVE  Lists'
  BY <1>9 DEF free_cas_fail, Relinked
<1>10. ASSUME UNCHANGED vars
      PROVE  Lists'
  BY <1>10 DEF vars
<1> QED
  BY <1>1, <1>2, <1>3, <1>4, <1>5, <1>6, <1>7, <1>8, <1>9, <1>10
     DEF Next, Step

\* The inductive invariant holds in every reachable state.
THEOREM IndInvariant == Spec => []IndInv
<1>1. Init => IndInv
  BY NullAssumption
     DEF Init, IndInv, TypeOK, BlockOrNull, SlabInv, PlaceInv, LinkInv, Lists, ListInv
<1>2. IndInv /\ [Next]_vars => IndInv'
  BY TypeStep, SlabStep, PlaceStep, LinkStep, ListStep DEF IndInv
<1> QED
  BY <1>1, <1>2, PTL DEF Spec

\* Every variable of the allocator keeps its type; in particular the links of
\* a new slab stay inside it.
THEOREM TypeCorrect == Spec => []TypeOK
<1>1. IndInv => TypeOK
  BY DEF IndInv
<1> QED
  BY <1>1, IndInvariant, PTL

\* No block is handed out while somebody holds it.
THEOREM AllocExclusive == Spec => []ExclusiveAlloc
<1>1. IndInv => ExclusiveAlloc
  BY DEF IndInv, PlaceInv, Lists, ListInv, ExclusiveAlloc, Transit, TypeOK, BlockOrNull
<1> QED
  BY <1>1, IndInvariant, PTL

\* The self-reference assertion of alloc_alloc never fails.
THEOREM NeverSelfReferent == Spec => []NoSelfReference
<1>1. IndInv => NoSelfReference
  BY NullAssumption DEF IndInv, TypeOK, BlockOrNull, Lists, ListInv, NoSelfReference, NotSelf
<1> QED
  BY <1>1, IndInvariant, PTL

\* The next block of either list can be handed out.
THEOREM NextBlockFree == Spec => []NextBlockSound
<1>1. ExclusiveAlloc /\ NoSelfReference => NextBlockSound
  BY DEF NextBlockSound
<1> QED
  BY <1>1, AllocExclusive, NeverSelfReferent, PTL

-----------------------------------------------------------------------------
(* No block is lost: what is on a list can be reached from its head, and    *)
(* what was pushed is somewhere.                                            *)

\* Every block that was pushed has a place.
SomewhereInv ==
    \A b \in Blocks : Pushed(b) => \/ b \in owned \cup inAlloc \cup inFree
                                   \/ \E t \in Threads : off[t] = b

\* h counts the links lk from a block of S to the end of its chain, and all of
\* S is the one chain that starts at head.
Heights(h, lk, head, S) ==
    /\ head = Null => S = {}
    /\ \A b \in S :
        /\ h[b] = IF lk[b] = Null THEN 0 ELSE h[lk[b]] + 1
        /\ h[b] <= h[head]
        /\ \A c \in S : h[c] = h[b] => c = b
        /\ b # head => \E c \in S : lk[c] = b

OneChain(head, S) == \E h \in [Blocks -> Nat] : Heights(h, link, head, S)

ChainsInv == OneChain(alloc, inAlloc) /\ OneChain(free, inFree)

\* Links outside of a chain do not matter.
LEMMA SameHeights ==
    ASSUME NEW h, NEW lk, NEW lk2, NEW head, NEW S,
           Heights(h, lk, head, S), \A b \in S : lk2[b] = lk[b]
    PROVE  Heights(h, lk2, head, S)
BY DEF Heights

\* The tail of a chain is a chain.
LEMMA PopHeights ==
    ASSUME NEW h \in [Blocks -> Nat], NEW lk, NEW lk2, NEW S \in SUBSET Blocks, NEW head \in S,
           Heights(h, lk, head, S), lk[head] \in S \cup {Null},
           \A b \in S \ {head} : lk2[b] = lk[b]
    PROVE  Heights(h, lk2, lk[head], S \ {head})
<1>1. \A b \in S : h[b] \in Nat
  OBVIOUS
<1>2. CASE lk[head] = Null
  <2>1. h[head] = 0
    BY <1>2 DEF Heights
  <2>2. ASSUME NEW b \in S
        PROVE  b = head
    <3>1. h[b] <= h[head]
      BY DEF Heights
    <3>2. h[b] = h[head]
      BY <1>1, <2>1, <3>1
    <3> QED
      BY <3>2 DEF Heights
  <2>3. S \ {head} = {}
    BY <2>2
  <2> QED
    BY <2>3 DEF Heights
<1>3. CASE lk[head] # Null
  <2>1. lk[head] \in S /\ h[head] = h[lk[head]] + 1
    BY <1>3 DEF Heights
  <2>2. ASSUME NEW b \in S \ {head}
        PROVE  /\ h[b] = IF lk2[b] = Null THEN 0 ELSE h[lk2[b]] + 1
               /\ h[b] <= h[lk[head]]
               /\ \A c \in S \ {head} : h[c] = h[b] => c = b
               /\ b # lk[head] => \E c \in S \ {head} : lk2[c] = b
    <3>1. h[b] <= h[head] /\ h[b] # h[head]
      BY DEF Heights
    <3>2. h[b] <= h[lk[head]]
      BY <1>1, <2>1, <3>1
    <3>3. ASSUME b # lk[head]
          PROVE  \E c \in S \ {head} : lk2[c] = b
      <4>1. PICK c \in S : lk[c] = b
        BY DEF Heights
      <4> QED
        BY <3>3, <4>1
    <3>4. lk2[b] = lk[b] /\ h[b] = IF lk[b] = Null THEN 0 ELSE h[lk[b]] + 1
      BY DEF Heights
    <3>5. \A c \in S \ {head} : h[c] = h[b] => c = b
      BY DEF Heights
    <3> QED
      BY <3>2, <3>3, <3>4, <3>5
  <2> QED
    BY <1>3, <2>2 DEF Heights
<1> QED
  BY <1>2, <1>3

\* A block that is linked to the head of a chain makes it a longer one.
LEMMA PushHeights ==
    ASSUME NEW h \in [Blocks -> Nat], NEW lk, NEW lk2, NEW S \in SUBSET Blocks,
           NEW head \in S \cup {Null}, Heights(h, lk, head, S),
           \A c \in S : lk[c] \in S \cup {Null},
           NEW b \in Blocks \ S, lk2[b] = head, \A c \in S : lk2[c] = lk[c]
    PROVE  \E h2 \in [Blocks -> Nat] : Heights(h2, lk2, b, S \cup {b})
<1> DEFINE top == IF head = Null THEN 0 ELSE h[head] + 1
           h2 == [h EXCEPT ![b] = top]
<1>1. top \in Nat /\ h2 \in [Blocks -> Nat]
  BY NullAssumption
<1>2. h2[b] = top /\ \A c \in S : h2[c] = h[c]
  OBVIOUS
<1>3. ASSUME NEW c \in S
      PROVE  h[c] < top /\ h[c] \in Nat
  <2>1. head # Null /\ h[c] <= h[head] /\ head \in S
    BY DEF Heights
  <2> QED
    BY <2>1
<1>4. h2[b] = IF lk2[b] = Null THEN 0 ELSE h2[lk2[b]] + 1
  BY <1>2
<1> HIDE DEF top, h2
<1>5. ASSUME NEW c \in S
      PROVE  /\ h2[c] = IF lk2[c] = Null THEN 0 ELSE h2[lk2[c]] + 1
             /\ h2[c] <= h2[b]
             /\ \A d \in S \cup {b} : h2[d] = h2[c] => d = c
             /\ \E d \in S \cup {b} : lk2[d] = c
  <2>1. h2[c] = IF lk2[c] = Null THEN 0 ELSE h2[lk2[c]] + 1
    BY <1>2 DEF Heights
  <2>2. h2[c] <= h2[b]
    BY <1>1, <1>2, <1>3
  <2>3. ASSUME NEW d \in S \cup {b}, h2[d] = h2[c]
        PROVE  d = c
    <3>1. CASE d = b
      BY <1>1, <1>2, <1>3, <2>3, <3>1
    <3>2. CASE d \in S
      BY <1>2, <2>3, <3>2 DEF Heights
    <3> QED
      BY <3>1, <3>2
  <2>4. \E d \in S \cup {b} : lk2[d] = c
    BY DEF Heights
  <2> QED
    BY <2>1, <2>2, <2>3, <2>4
<1>6. \A d \in S \cup {b} : h2[d] = h2[b] => d = b
  BY <1>1, <1>2, <1>3
<1>7. h2[b] <= h2[b] /\ b # Null
  BY <1>1, <1>2, NullAssumption
<1> QED
  BY <1>1, <1>4, <1>5, <1>6, <1>7 DEF Heights

\* The blocks of slab s from the second on are linked in order and then to head,
\* and the chains of S do not run through it.
SlabLinked(s, lk, lk2, head, S) ==
    /\ \A i \in 2 .. SlabLen : i # SlabLen => lk2[<<s, i>>] = <<s, i + 1>>
    /\ lk2[<<s, SlabLen>>] = head
    /\ \A c \in S : c[1] # s /\ lk[c] \in S \cup {Null} /\ lk2[c] = lk[c]

SlabBlocks(s) == {<<s, i>> : i \in 2 .. SlabLen}

\* A slab whose last block is linked to the head makes it longer as well.
LEMMA SlabHeights ==
    ASSUME NEW h \in [Blocks -> Nat], NEW lk, NEW lk2, NEW S \in SUBSET Blocks,
           NEW head \in S \cup {Null}, Heights(h, lk, head, S),
           NEW s \in Slabs, SlabLinked(s, lk, lk2, head, S)
    PROVE  \E h2 \in [Blocks -> Nat] : Heights(h2, lk2, <<s, 2>>, S \cup SlabBlocks(s))
<1>0. /\ \A i \in 2 .. SlabLen : i # SlabLen => lk2[<<s, i>>] = <<s, i + 1>>
      /\ lk2[<<s, SlabLen>>] = head
      /\ \A c \in S : c[1] # s /\ lk[c] \in S \cup {Null} /\ lk2[c] = lk[c]
  BY DEF SlabLinked
<1> DEFINE base == IF head = Null THEN 0 ELSE h[head] + 1
           up(i) == base + (SlabLen - i)
           new == {<<s, i>> : i \in 2 .. SlabLen}
           h2 == [b \in Blocks |-> IF b[1] = s THEN up(b[2]) ELSE h[b]]
<1>1. base \in Nat
  BY NullAssumption
<1>2. \A i \in 1 .. SlabLen : up(i) \in Nat /\ up(i) >= base
  <2> HIDE DEF base
  <2> QED
    BY <1>1, SlabLenAssumption
<1>3. h2 \in [Blocks -> Nat]
  <2> HIDE DEF up
  <2> QED
    BY <1>2 DEF Blocks
<1>4. \A c \in S : h2[c] = h[c] /\ h[c] \in Nat
  BY <1>0
<1>5. \A i \in 2 .. SlabLen : <<s, i>> \in Blocks /\ i \in 1 .. SlabLen /\ <<s, i>> # Null
  BY SlabLenAssumption, NullAssumption DEF Blocks
<1>6. \A i \in 2 .. SlabLen : h2[<<s, i>>] = up(i)
  BY <1>5
<1>7. ASSUME NEW c \in S
      PROVE  h[c] < base
  <2>1. head # Null /\ h[c] <= h[head] /\ head \in S
    BY DEF Heights
  <2> QED
    BY <2>1
<1>8. \A i, j \in 2 .. SlabLen : (up(i) = up(j) => i = j) /\ up(i) <= up(2)
  <2> HIDE DEF base
  <2> QED
    BY <1>1, SlabLenAssumption
<1>9. up(SlabLen) = base /\ \A i \in 2 .. SlabLen : i # SlabLen => up(i) = up(i + 1) + 1
  <2> HIDE DEF base
  <2> QED
    BY <1>1, SlabLenAssumption
<1>10. SlabLen \in 2 .. SlabLen /\ 2 \in 2 .. SlabLen /\ 2 # SlabLen
  BY SlabLenAssumption
<1>11. \A i \in 2 .. SlabLen : i # SlabLen => i + 1 \in 2 .. SlabLen
  BY SlabLenAssumption
<1>12. \A i \in 2 .. SlabLen : i # 2 => i - 1 \in 2 .. SlabLen /\ i - 1 # SlabLen /\ (i - 1) + 1 = i
  BY SlabLenAssumption
<1>13. base = IF head = Null THEN 0 ELSE h2[head] + 1
  BY <1>4
<1> HIDE DEF up, h2, base
<1>14. ASSUME NEW i \in 2 .. SlabLen
       PROVE  /\ h2[<<s, i>>] = IF lk2[<<s, i>>] = Null THEN 0 ELSE h2[lk2[<<s, i>>]] + 1
              /\ h2[<<s, i>>] <= h2[<<s, 2>>]
              /\ \A d \in S \cup new : h2[d] = h2[<<s, i>>] => d = <<s, i>>
              /\ <<s, i>> # <<s, 2>> => \E d \in S \cup new : lk2[d] = <<s, i>>
  <2>1. h2[<<s, i>>] = IF lk2[<<s, i>>] = Null THEN 0 ELSE h2[lk2[<<s, i>>]] + 1
    <3>1. CASE i = SlabLen
      <4>1. lk2[<<s, i>>] = head /\ h2[<<s, i>>] = base
        BY <1>0, <1>6, <1>9, <1>10, <3>1
      <4> QED
        BY <1>13, <4>1
    <3>2. CASE i # SlabLen
      <4>1. i + 1 \in 2 .. SlabLen
        BY <1>11, <3>2
      <4>2. lk2[<<s, i>>] = <<s, i + 1>> /\ <<s, i + 1>> # Null
        BY <1>0, <1>5, <3>2, <4>1
      <4>3. h2[<<s, i + 1>>] = up(i + 1) /\ h2[<<s, i>>] = up(i) /\ up(i) = up(i + 1) + 1
        BY <1>6, <1>9, <3>2, <4>1
      <4> QED
        BY <4>2, <4>3
    <3> QED
      BY <3>1, <3>2
  <2>2. h2[<<s, i>>] <= h2[<<s, 2>>]
    BY <1>6, <1>8, <1>10
  <2>3. ASSUME NEW d \in S, h2[d] = h2[<<s, i>>]
        PROVE  FALSE
    <3>1. h[d] < base /\ h2[d] = h[d] /\ h[d] \in Nat
      BY <1>4, <1>7
    <3>2. h2[<<s, i>>] >= base /\ h2[<<s, i>>] \in Nat
      BY <1>2, <1>5, <1>6
    <3> QED
      BY <1>1, <2>3, <3>1, <3>2
  <2>4. \A j \in 2 .. SlabLen : h2[<<s, j>>] = h2[<<s, i>>] => <<s, j>> = <<s, i>>
    BY <1>6, <1>8
  <2>5. ASSUME i # 2
        PROVE  \E d \in new : lk2[d] = <<s, i>>
    <3>1. i - 1 \in 2 .. SlabLen /\ i - 1 # SlabLen /\ (i - 1) + 1 = i
      BY <1>12, <2>5
    <3>2. lk2[<<s, i - 1>>] = <<s, i>>
      BY <1>0, <3>1
    <3> QED
      BY <3>1, <3>2
  <2> QED
    BY <2>1, <2>2, <2>3, <2>4, <2>5
<1>15. ASSUME NEW c \in S
       PROVE  /\ h2[c] = IF lk2[c] = Null THEN 0 ELSE h2[lk2[c]] + 1
              /\ h2[c] <= h2[<<s, 2>>]
              /\ \A d \in S \cup new : h2[d] = h2[c] => d = c
              /\ \E d \in S \cup new : lk2[d] = c
  <2>1. h2[c] = IF lk2[c] = Null THEN 0 ELSE h2[lk2[c]] + 1
    <3>1. h[c] = IF lk[c] = Null THEN 0 ELSE h[lk[c]] + 1
      BY DEF Heights
    <3>2. lk2[c] = lk[c] /\ h2[c] = h[c] /\ (lk[c] # Null => h2[lk[c]] = h[lk[c]])
      BY <1>0, <1>4
    <3> QED
      BY <3>1, <3>2
  <2>2. h2[c] <= h2[<<s, 2>>]
    <3>1. up(2) \in Nat /\ up(2) >= base /\ h2[<<s, 2>>] = up(2)
      BY <1>2, <1>5, <1>6, <1>10
    <3> QED
      BY <1>1, <1>4, <1>7, <3>1
  <2>3. ASSUME NEW d \in S, h2[d] = h2[c]
        PROVE  d = c
    BY <1>4, <2>3 DEF Heights
  <2>4. \A i \in 2 .. SlabLen : h2[<<s, i>>] # h2[c]
    BY <1>0, <1>14
  <2>5. \E d \in S \cup new : lk2[d] = c
    <3>1. CASE c = head
      <4>1. <<s, SlabLen>> \in new
        BY <1>10
      <4> QED
        BY <1>0, <3>1, <4>1
    <3>2. CASE c # head
      <4>1. PICK d \in S : lk[d] = c
        BY <3>2 DEF Heights
      <4> QED
        BY <1>0, <4>1
    <3> QED
      BY <3>1, <3>2
  <2> QED
    BY <2>1, <2>2, <2>3, <2>4, <2>5
<1>16. <<s, 2>> # Null
  BY <1>5, <1>10
<1>17. \A b \in new : \E i \in 2 .. SlabLen : b = <<s, i>>
  OBVIOUS
<1> HIDE DEF new
<1>18. ASSUME NEW b \in S \cup new
       PROVE  /\ h2[b] = IF lk2[b] = Null THEN 0 ELSE h2[lk2[b]] + 1
              /\ h2[b] <= h2[<<s, 2>>]
              /\ \A d \in S \cup new : h2[d] = h2[b] => d = b
              /\ b # <<s, 2>> => \E d \in S \cup new : lk2[d] = b
  <2>1. CASE b \in S
    BY <1>15, <2>1
  <2>2. CASE b \in new
    <3>1. PICK i \in 2 .. SlabLen : b = <<s, i>>
      BY <1>17, <2>2
    <3> QED
      BY <1>14, <3>1
  <2> QED
    BY <2>1, <2>2
<1>19. Heights(h2, lk2, <<s, 2>>, S \cup new)
  BY <1>16, <1>18 DEF Heights
<1> QED
  BY <1>3, <1>19 DEF new, SlabBlocks

\* No step loses a block that was pushed,
LEMMA SomewhereStep ==
    ASSUME TypeOK, SlabInv, PlaceInv, Lists, SomewhereInv, [Next]_vars
    PROVE  SomewhereInv'
<1> USE NullAssumption, SlabLenAssumption
    DEF TypeOK, BlockOrNull, threadVars, SlabInv, PlaceInv, Pushed, SomewhereInv
<1>1. ASSUME NEW t \in Threads, alloc_pop(t)
      PROVE  SomewhereInv'
  BY <1>1 DEF alloc_pop
<1>2. ASSUME NEW t \in Threads, alloc_drain(t)
      PROVE  SomewhereInv'
  BY <1>2 DEF alloc_drain, Drained
<1>3. ASSUME NEW t \in Threads, alloc_empty(t)
      PROVE  SomewhereInv'
  BY <1>3 DEF alloc_empty
<1>4. ASSUME NEW t \in Threads, fill_grow(t)
      PROVE  SomewhereInv'
  BY <1>4 DEF fill_grow
<1>5. ASSUME NEW t \in Threads, fill_fail(t)
      PROVE  SomewhereInv'
  BY <1>5 DEF fill_fail
<1>6. ASSUME NEW t \in Threads, fill_push(t)
      PROVE  SomewhereInv'
  <2>1. \A b \in Blocks : b[1] = slab[t] => b = <<slab[t], 1>> \/ b \in {<<slab[t], i>> : i \in 2 .. SlabLen}
    BY DEF Blocks
  <2> QED
    BY <1>6, <2>1 DEF fill_push
<1>7. ASSUME NEW t \in Threads, NEW b \in Blocks, free_load(t, b)
      PROVE  SomewhereInv'
  BY <1>7 DEF free_load
<1>8. ASSUME NEW t \in Threads, free_cas(t)
      PROVE  SomewhereInv'
  BY <1>8 DEF free_cas
<1>9. ASSUME NEW t \in Threads, free_cas_fail(t)
      PROVE  SomewhereInv'
  BY <1>9 DEF free_cas_fail, Relinked
<1>10. ASSUME UNCHANGED vars
       PROVE  SomewhereInv'
  BY <1>10 DEF vars
<1> QED
  BY <1>1, <1>2, <1>3, <1>4, <1>5, <1>6, <1>7, <1>8, <1>9, <1>10
     DEF Next, Step

\* ... or leaves one behind on a list.
LEMMA ChainsStep ==
    ASSUME TypeOK, SlabInv, PlaceInv, LinkInv, Lists, ChainsInv, [Next]_vars
    PROVE  ChainsInv'
<1> USE NullAssumption
<1>1. ASSUME NEW t \in Threads, alloc_pop(t)
      PROVE  ChainsInv'
  <2>1. PICK h \in [Blocks -> Nat] : Heights(h, link, alloc, inAlloc)
    BY DEF ChainsInv, OneChain
  <2>2. PICK g \in [Blocks -> Nat] : Heights(g, link, free, inFree)
    BY DEF ChainsInv, OneChain
  <2>3. /\ alloc \in inAlloc /\ inAlloc \in SUBSET Blocks /\ link[alloc] \in inAlloc \cup {Null}
        /\ alloc' = link[alloc] /\ inAlloc' = inAlloc \ {alloc} /\ UNCHANGED <<free, inFree>>
        /\ \A c \in inAlloc \ {alloc} : link'[c] = link[c]
        /\ \A c \in inFree : link'[c] = link[c]
    BY <1>1 DEF alloc_pop, TypeOK, PlaceInv, Lists, ListInv
  <2>4. Heights(h, link', link[alloc], inAlloc \ {alloc})
    BY <2>1, <2>3, PopHeights
  <2>5. Heights(g, link', free, inFree)
    BY <2>2, <2>3, SameHeights
  <2> QED
    BY <2>3, <2>4, <2>5 DEF ChainsInv, OneChain
<1>2. ASSUME NEW t \in Threads, alloc_drain(t)
      PROVE  ChainsInv'
  <2>1. PICK h \in [Blocks -> Nat] : Heights(h, link, alloc, inAlloc)
    BY DEF ChainsInv, OneChain
  <2>2. PICK g \in [Blocks -> Nat] : Heights(g, link, free, inFree)
    BY DEF ChainsInv, OneChain
  <2>3. inAlloc = {}
    BY <1>2, <2>1 DEF alloc_drain, Heights
  <2>4. /\ free \in inFree /\ inFree \in SUBSET Blocks /\ link[free] \in inFree \cup {Null}
        /\ alloc' = link[free] /\ free' = Null /\ inFree' = {}
        /\ \A c \in inFree \ {free} : link'[c] = link[c]
    BY <1>2 DEF alloc_drain, Drained, TypeOK, PlaceInv, Lists, ListInv
  <2>5. inAlloc' = inFree \ {free}
    BY <1>2, <2>3 DEF alloc_drain
  <2>6. Heights(g, link', link[free], inFree \ {free})
    BY <2>2, <2>4, PopHeights
  <2>7. Heights(h, link', Null, {})
    BY DEF Heights
  <2> QED
    BY <2>4, <2>5, <2>6, <2>7 DEF ChainsInv, OneChain
<1>3. ASSUME NEW t \in Threads, alloc_empty(t)
      PROVE  ChainsInv'
  <2>1. PICK h \in [Blocks -> Nat] : Heights(h, link, alloc, inAlloc)
    BY DEF ChainsInv, OneChain
  <2>2. PICK g \in [Blocks -> Nat] : Heights(g, link, free, inFree)
    BY DEF ChainsInv, OneChain
  <2>3. UNCHANGED <<alloc, free, inAlloc, inFree>> /\ \A c \in inAlloc \cup inFree : link'[c] = link[c]
    BY <1>3 DEF alloc_empty, TypeOK, threadVars, PlaceInv, Pushed
  <2>4. Heights(h, link', alloc, inAlloc) /\ Heights(g, link', free, inFree)
    BY <2>1, <2>2, <2>3, SameHeights
  <2> QED
    BY <2>3, <2>4 DEF ChainsInv, OneChain
<1>4. ASSUME NEW t \in Threads, fill_grow(t)
      PROVE  ChainsInv'
  <2>1. PICK h \in [Blocks -> Nat] : Heights(h, link, alloc, inAlloc)
    BY DEF ChainsInv, OneChain
  <2>2. PICK g \in [Blocks -> Nat] : Heights(g, link, free, inFree)
    BY DEF ChainsInv, OneChain
  <2>3. UNCHANGED <<alloc, free, inAlloc, inFree>> /\ \A c \in inAlloc \cup inFree : link'[c] = link[c]
    BY <1>4 DEF fill_grow, SlabLinks, TypeOK, threadVars, PlaceInv, Pushed
  <2>4. Heights(h, link', alloc, inAlloc) /\ Heights(g, link', free, inFree)
    BY <2>1, <2>2, <2>3, SameHeights
  <2> QED
    BY <2>3, <2>4 DEF ChainsInv, OneChain
<1>5. ASSUME NEW t \in Threads, fill_fail(t)
      PROVE  ChainsInv'
  <2>1. PICK h \in [Blocks -> Nat] : Heights(h, link, alloc, inAlloc)
    BY DEF ChainsInv, OneChain
  <2>2. PICK g \in [Blocks -> Nat] : Heights(g, link, free, inFree)
    BY DEF ChainsInv, OneChain
  <2>3. UNCHANGED <<alloc, free, inAlloc, inFree>> /\ \A c \in inAlloc \cup inFree : link'[c] = link[c]
    BY <1>5 DEF fill_fail, TypeOK, threadVars, PlaceInv, Pushed
  <2>4. Heights(h, link', alloc, inAlloc) /\ Heights(g, link', free, inFree)
    BY <2>1, <2>2, <2>3, SameHeights
  <2> QED
    BY <2>3, <2>4 DEF ChainsInv, OneChain
<1>6. ASSUME NEW t \in Threads, fill_push(t)
      PROVE  ChainsInv'
  <2>1. PICK h \in [Blocks -> Nat] : Heights(h, link, alloc, inAlloc)
    BY DEF ChainsInv, OneChain
  <2>2. PICK g \in [Blocks -> Nat] : Heights(g, link, free, inFree)
    BY DEF ChainsInv, OneChain
  <2>3. /\ slab[t] \in Slabs /\ inAlloc \in SUBSET Blocks /\ alloc \in inAlloc \cup {Null}
        /\ \A c \in inAlloc : link[c] \in inAlloc \cup {Null}
        /\ \A c \in inAlloc \cup inFree : c \in Blocks /\ c[1] # slab[t]
    BY <1>6 DEF fill_push, SlabInv, TypeOK, PlaceInv, Pushed, Lists, ListInv
  <2>4. /\ link' = [link EXCEPT ![<<slab[t], SlabLen>>] = alloc] /\ alloc' = <<slab[t], 2>>
        /\ inAlloc' = inAlloc \cup {<<slab[t], i>> : i \in 2 .. SlabLen}
        /\ UNCHANGED <<free, inFree>> /\ link \in [Blocks -> BlockOrNull]
    BY <1>6 DEF fill_push, SlabHead, TypeOK
  <2>5. \A c \in inAlloc \cup inFree : link'[c] = link[c]
    BY <2>3, <2>4
  <2>6. \A i \in 2 .. SlabLen : <<slab[t], i>> \in Blocks /\ (i # SlabLen => i < SlabLen)
    BY <2>3, SlabLenAssumption DEF Blocks
  <2>7. \A i \in 2 .. SlabLen : i # SlabLen => link'[<<slab[t], i>>] = <<slab[t], i + 1>>
    <3>1. \A i \in 2 .. SlabLen : i < SlabLen => link[<<slab[t], i>>] = <<slab[t], i + 1>>
      BY <1>6 DEF fill_push, LinkInv
    <3> QED
      BY <2>4, <2>6, <3>1
  <2>8. link'[<<slab[t], SlabLen>>] = alloc
    <3>1. SlabLen \in 2 .. SlabLen
      BY SlabLenAssumption
    <3> QED
      BY <2>4, <2>6, <3>1
  <2>9. \E h2 \in [Blocks -> Nat] : Heights(h2, link', <<slab[t], 2>>, inAlloc \cup SlabBlocks(slab[t]))
    <3>1. SlabLinked(slab[t], link, link', alloc, inAlloc)
      BY <2>3, <2>5, <2>7, <2>8 DEF SlabLinked
    <3> QED
      BY <2>1, <2>3, <3>1, SlabHeights
  <2>10. Heights(g, link', free, inFree)
    BY <2>2, <2>5, SameHeights
  <2> QED
    BY <2>4, <2>9, <2>10 DEF ChainsInv, OneChain, SlabBlocks
<1>7. ASSUME NEW t \in Threads, NEW b \in Blocks, free_load(t, b)
      PROVE  ChainsInv'
  <2>1. PICK h \in [Blocks -> Nat] : Heights(h, link, alloc, inAlloc)
    BY DEF ChainsInv, OneChain
  <2>2. PICK g \in [Blocks -> Nat] : Heights(g, link, free, inFree)
    BY DEF ChainsInv, OneChain
  <2>3. UNCHANGED <<alloc, free, inAlloc, inFree>> /\ \A c \in inAlloc \cup inFree : link'[c] = link[c]
    BY <1>7 DEF free_load, TypeOK, threadVars, PlaceInv, Pushed
  <2>4. Heights(h, link', alloc, inAlloc) /\ Heights(g, link', free, inFree)
    BY <2>1, <2>2, <2>3, SameHeights
  <2> QED
    BY <2>3, <2>4 DEF ChainsInv, OneChain
<1>8. ASSUME NEW t \in Threads, free_cas(t)
      PROVE  ChainsInv'
  <2>1. PICK h \in [Blocks -> Nat] : Heights(h, link, alloc, inAlloc)
    BY DEF ChainsInv, OneChain
  <2>2. PICK g \in [Blocks -> Nat] : Heights(g, link, free, inFree)
    BY DEF ChainsInv, OneChain
  <2>3. /\ off[t] \in Blocks \ inFree /\ inFree \in SUBSET Blocks /\ free \in inFree \cup {Null}
        /\ link'[off[t]] = free /\ link' = link /\ \A c \in inFree : link[c] \in inFree \cup {Null}
        /\ free' = off[t] /\ inFree' = inFree \cup {off[t]} /\ UNCHANGED <<alloc, inAlloc>>
    BY <1>8 DEF free_cas, TypeOK, PlaceInv, Lists, ListInv, LinkInv
  <2>4. \E h2 \in [Blocks -> Nat] : Heights(h2, link', off[t], inFree \cup {off[t]})
    BY <2>2, <2>3, PushHeights
  <2> QED
    BY <2>1, <2>3, <2>4 DEF ChainsInv, OneChain
<1>9. ASSUME NEW t \in Threads, free_cas_fail(t)
      PROVE  ChainsInv'
  <2>1. PICK h \in [Blocks -> Nat] : Heights(h, link, alloc, inAlloc)
    BY DEF ChainsInv, OneChain
  <2>2. PICK g \in [Blocks -> Nat] : Heights(g, link, free, inFree)
    BY DEF ChainsInv, OneChain
  <2>3. UNCHANGED <<alloc, free, inAlloc, inFree>> /\ \A c \in inAlloc \cup inFree : link'[c] = link[c]
    BY <1>9 DEF free_cas_fail, Relinked, TypeOK, threadVars, PlaceInv, Pushed
  <2>4. Heights(h, link', alloc, inAlloc) /\ Heights(g, link', free, inFree)
    BY <2>1, <2>2, <2>3, SameHeights
  <2> QED
    BY <2>3, <2>4 DEF ChainsInv, OneChain
<1>10. ASSUME UNCHANGED vars
       PROVE  ChainsInv'
  <2>1. PICK h \in [Blocks -> Nat] : Heights(h, link, alloc, inAlloc)
    BY DEF ChainsInv, OneChain
  <2>2. PICK g \in [Blocks -> Nat] : Heights(g, link, free, inFree)
    BY DEF ChainsInv, OneChain
  <2>3. UNCHANGED <<alloc, free, inAlloc, inFree>> /\ \A c \in inAlloc \cup inFree : link'[c] = link[c]
    BY <1>10 DEF vars, TypeOK, threadVars, PlaceInv, Pushed
  <2>4. Heights(h, link', alloc, inAlloc) /\ Heights(g, link', free, inFree)
    BY <2>1, <2>2, <2>3, SameHeights
  <2> QED
    BY <2>3, <2>4 DEF ChainsInv, OneChain
<1> QED
  BY <1>1, <1>2, <1>3, <1>4, <1>5, <1>6, <1>7, <1>8, <1>9, <1>10
     DEF Next, Step

\* Every set of natural numbers has a least member.
LEMMA Least ==
    ASSUME NEW S \in SUBSET Nat, S # {}
    PROVE  \E x \in S : \A y \in S : x <= y
<1>1. IsWellFoundedOn(OpToRel(<, Nat), Nat)
  BY NatLessThanWellFounded
<1>2. PICK x \in S : \A y \in S : ~(<<y, x>> \in OpToRel(<, Nat))
  BY <1>1, WFMin
<1>3. \A y \in S : ~(y < x)
  BY <1>2 DEF OpToRel
<1> QED
  BY <1>3

\* What is on a list is what can be reached from its head.
LEMMA ReachableIsList ==
    ASSUME NEW head, NEW S \in SUBSET Blocks, ListInv(head, S), OneChain(head, S)
    PROVE  Reachable(head) = S
<1> DEFINE Closed(C) == head \in C \cup {Null} /\ \A b \in C : link[b] \in C \cup {Null}
<1>1. Closed(S)
  BY DEF ListInv
<1>2. PICK h \in [Blocks -> Nat] : Heights(h, link, head, S)
  BY DEF OneChain
<1>3. ASSUME NEW C \in SUBSET Blocks, Closed(C), NEW b0 \in S \ C
      PROVE  FALSE
  <2> DEFINE depth(b) == h[head] - h[b]
             D == {depth(b) : b \in S \ C}
  <2>1. head \in S /\ head \in C
    BY <1>2, <1>3, NullAssumption DEF Heights, ListInv
  <2>2. \A b \in S : depth(b) \in Nat
    <3>1. \A b \in S : h[b] \in Nat /\ h[b] <= h[head] /\ h[head] \in Nat
      BY <1>2, <2>1 DEF Heights
    <3> QED
      BY <3>1
  <2>3. D \in SUBSET Nat /\ D # {}
    <3> HIDE DEF depth
    <3> QED
      BY <1>3, <2>2
  <2>4. PICK x \in D : \A y \in D : x <= y
    <3> HIDE DEF D
    <3> QED
      BY <2>3, Least
  <2>5. PICK b \in S \ C : x = depth(b)
    BY <2>4
  <2>6. PICK c \in S : link[c] = b
    BY <1>2, <2>1 DEF Heights
  <2>7. h[c] = h[b] + 1 /\ h[b] \in Nat /\ h[head] \in Nat
    BY <1>2, <2>1, <2>6, NullAssumption DEF Heights
  <2>8. depth(c) < depth(b)
    BY <2>7
  <2>9. c \in C
    <3>1. depth(c) \in Nat /\ depth(b) \in Nat
      BY <2>2
    <3> HIDE DEF depth
    <3> QED
      BY <2>4, <2>5, <2>8, <3>1
  <2> QED
    BY <1>3, <2>6, <2>9, NullAssumption
<1> HIDE DEF Closed
<1>4. \A b \in S : \A C \in SUBSET Blocks : Closed(C) => b \in C
  BY <1>3
<1> QED
  BY <1>1, <1>4 DEF Reachable, Closed

\* Nothing alloc_alloc, alloc_fill_class and alloc_free do, in any order, loses
\* a block or puts it in two places.
THEOREM NoBlockLost == Spec => []EveryBlockAccounted
<1>1. Init => SomewhereInv /\ ChainsInv
  <2> SUFFICES ASSUME Init
               PROVE  SomewhereInv /\ ChainsInv
    OBVIOUS
  <2>1. SomewhereInv
    BY DEF Init, SomewhereInv, Pushed
  <2>2. [b \in Blocks |-> 0] \in [Blocks -> Nat] /\ Heights([b \in Blocks |-> 0], link, Null, {})
    BY DEF Heights
  <2> QED
    BY <2>1, <2>2 DEF Init, ChainsInv, OneChain
<1>2. IndInv /\ SomewhereInv /\ ChainsInv /\ [Next]_vars => (SomewhereInv /\ ChainsInv)'
  BY SomewhereStep, ChainsStep DEF IndInv
<1>3. IndInv /\ SomewhereInv /\ ChainsInv => EveryBlockAccounted
  <2> SUFFICES ASSUME IndInv, SomewhereInv, ChainsInv
               PROVE  EveryBlockAccounted
    OBVIOUS
  <2>1. TypeOK /\ PlaceInv /\ Lists
    BY DEF IndInv
  <2>2. Reachable(alloc) = inAlloc /\ Reachable(free) = inFree
    BY <2>1, ReachableIsList DEF TypeOK, Lists, ChainsInv
  <2>3. \A b \in Blocks : Pushed(b) => b \in owned \cup Transit \cup inAlloc \cup inFree
    BY NullAssumption DEF SomewhereInv, Transit
  <2>4. \A b \in owned \cup Transit \cup inAlloc \cup inFree : b \in Blocks /\ Pushed(b)
    BY <2>1 DEF TypeOK, PlaceInv, Transit
  <2>5. /\ inAlloc \cap inFree = {}
        /\ (inAlloc \cup inFree) \cap (owned \cup Transit) = {}
    BY <2>1 DEF PlaceInv, Transit
  <2>6. {b \in Blocks : b[1] \in grown /\ \A t \in Threads : slab[t] # b[1]}
          = owned \cup Transit \cup inAlloc \cup inFree
    BY <2>3, <2>4 DEF Pushed
  <2> QED
    BY <2>2, <2>5, <2>6 DEF EveryBlockAccounted
<1> QED
  BY <1>1, <1>2, <1>3, IndInvariant, PTL DEF Spec
=============================================================================
