-------------------------- MODULE RegionFileProofs --------------------------
(***************************************************************************)
(* Proofs about RegionFile, for any number of processes, names and files:  *)
(* a file has one owner, a name that stays behind is that of a process     *)
(* which died or could not close its region, and the events that a poll    *)
(* takes are those of the window it divides by, whatever moment of a       *)
(* creation it gets in at; and, at the end, about the mapping of a region  *)
(* that grows.                                                             *)
(***************************************************************************)
EXTENDS RegionFile, Region, TLAPS

-----------------------------------------------------------------------------
(* The inductive invariant.                                                 *)

\* What a client's control point says of its region: it began no later than
\* now, has a file once it created one, and that file is as far as it is.
ClientInv ==
    \A c \in Clients :
        /\ cpc[c] \in {"open", "header"} => started[c] \in 1 .. now
        /\ cpc[c] \in {"header", "live", "add"} <=> fd[c] # NoFile
        /\ fd[c] # NoFile =>
              /\ stage[fd[c]] # "none"
              /\ stage[fd[c]] = "complete" <=> cpc[c] \in {"live", "add"}
              /\ cpc[c] = "header" => created[fd[c]] = started[c]

\* No two clients have the same file.
OwnerInv == \A c, d \in Clients : c # d /\ fd[c] # NoFile => fd[c] # fd[d]

\* A name stands for a file that was created, under that name; its creator
\* still has it, or left it.
NameInv ==
    \A n \in Names : dir[n] # NoFile =>
        /\ stage[dir[n]] # "none"
        /\ \A c \in Clients : fd[c] = dir[n] => name[c] = n
        /\ dir[n] \in left \/ \E c \in Clients : fd[c] = dir[n]

\* The file at hand in a poll has passed the checks of optics_open, and during
\* the read clients count into the other slot.
PollInv ==
    /\ ppc \in {"check", "flip", "store", "inc", "read"} =>
          pfile \in Files /\ stage[pfile] # "none"
    /\ ppc \in {"flip", "store", "inc", "read"} => Opens(pfile)
    /\ ppc = "read" => epoch[pfile] # pepoch

\* No time that is kept anywhere is in the future.
ClockInv ==
    /\ ts <= now /\ last_poll <= now /\ flipped <= now
    /\ \A i \in Files : created[i] <= now /\ epoch_last_inc[i] <= now

\* An event v of slot e of file i comes after the creation.  It is late; or in
\* the running epoch, and no older than the time that a poll will find there
\* or has found; or in the epoch that a poll is about to read, and in the
\* window which that poll found.
Fits(i, e, v) ==
    /\ stage[i] = "complete" /\ v.time <= now
    /\ e = epoch[i] => \/ v.late
                       \/ /\ ~(ppc = "inc" /\ pfile = i) => epoch_last_inc[i] <= v.time
                          /\ ppc \in {"store", "inc"} /\ pfile = i => last_poll <= v.time
    /\ e # epoch[i] => \/ ~(ppc = "read" /\ pfile = i) /\ v.late
                       \/ /\ ppc = "read" /\ pfile = i
                          /\ v.time <= flipped /\ (v.late \/ last_poll <= v.time)

\* That is so of the events counted,
SlotInv == \A i \in Files, e \in {0, 1} : \A v \in slot[i][e] : Fits(i, e, v)

\* and of those whose record has loaded the epoch and has yet to add.
RecordInv == \A c \in Clients : cpc[c] = "add" => Fits(fd[c], rec[c].epoch, rec[c])

\* A complete region whose creation no poll saw: the times it and its poll keep
\* are not before its creation.
EarlyInv ==
    /\ ppc = "idle" => \A i \in Files : early[i] # 2
    /\ \A i \in Files : stage[i] = "complete" =>
        /\ early[i] # 2 /\ ppc \in {"list", "check", "flip", "store"} => created[i] <= ts
        /\ early[i] # 2 /\ ppc \in {"inc", "read"} /\ pfile = i => created[i] <= epoch_last_inc[i]
        /\ early[i] = 0 => created[i] <= epoch_last_inc[i]
        /\ early[i] = 0 /\ ppc \in {"store", "inc", "read"} /\ pfile = i => created[i] <= last_poll

IndInv ==
    /\ TypeOK
    /\ ClientInv /\ OwnerInv /\ NameInv
    /\ PollInv /\ ClockInv /\ SlotInv /\ RecordInv /\ EarlyInv

-----------------------------------------------------------------------------
\* The flip of an epoch's parity.
LEMMA FlippedValue ==
    \A e \in {0, 1} : Flipped(e) = 1 - e /\ Flipped(e) \in {0, 1}
BY DEF Flipped

\* What stands for no file is none, and the name of an idle client is one.
LEMMA NoFileNotFile == NoFile \notin Files /\ AnyName \in Names
BY BoundsAssumption, NamesAssumption DEF Files, AnyName

(* The outcomes of a step, each with what it changes.                       *)

\* A client is rid of its region: it found its name taken, failed in a
\* creation, closed the region or died.
Leaves(c) ==
    /\ Released(c)
    /\ \/ dir' = Unlinked(name[c]) /\ left' = left
       \/ dir' = dir /\ left' = left \cup {fd[c]} /\ fd[c] # NoFile
       \/ dir' = dir /\ left' = left /\ fd[c] = NoFile
    /\ UNCHANGED <<stage, epoch, epoch_last_inc, slot, now, pollVars, created, early, flipped>>

\* A client creates the file i, which nobody has yet.
Opened(c, i) ==
    /\ stage[i] = "none"
    /\ cpc[c] = "open" /\ dir[name[c]] = NoFile
    /\ dir' = [dir EXCEPT ![name[c]] = i]
    /\ stage' = [stage EXCEPT ![i] = "empty"]
    /\ created' = [created EXCEPT ![i] = started[c]]
    /\ fd' = [fd EXCEPT ![c] = i]
    /\ cpc' = [cpc EXCEPT ![c] = "header"]
    /\ UNCHANGED <<name, started, rec, epoch, epoch_last_inc, slot, now, pollVars,
                   left, early, flipped>>

\* The creation of its file gets as far as s.
Wrote(c, s) ==
    /\ cpc[c] = "header"
    /\ s \notin {"none", "complete"}
    /\ stage[fd[c]] \notin {"none", "complete", "prefix"}
    /\ stage[fd[c]] = "version" => s = "prefix"
    /\ stage' = [stage EXCEPT ![fd[c]] = s]
    /\ UNCHANGED <<dir, clientVars, epoch, epoch_last_inc, slot, now, pollVars, history>>

\* The poll is over before it came to a region.
GaveUp ==
    /\ ppc \in {"list", "check"}
    /\ Forget({})
    /\ UNCHANGED <<fileVars, now, clientVars, left, created>>

\* The region passes the checks of optics_open.
Passed ==
    /\ ppc = "check" /\ Opens(pfile)
    /\ ppc' = "flip"
    /\ UNCHANGED <<fileVars, now, clientVars, pfile, last_poll, pepoch, ts, history>>

\* What create_open does,
LEMMA OpenOutcome ==
    ASSUME NEW c \in Clients, ClientInv, create_open(c)
    PROVE  Leaves(c) \/ \E i \in Files : Opened(c, i)
<1>1. CASE ~OpenExcl(c)
  BY <1>1 DEF create_open, Leaves, ClientInv, fileVars, history
<1>2. CASE OpenExcl(c)
  BY <1>2 DEF create_open, OpenExcl, Opened
<1> QED
  BY <1>1, <1>2

\* ... the steps of a header,
LEMMA HeaderOutcome ==
    ASSUME NEW c \in Clients, ClientInv, create_map(c) \/ create_header(c)
    PROVE  Leaves(c) \/ \E s \in Stages : Wrote(c, s)
<1>1. ASSUME create_map(c)
      PROVE  Leaves(c) \/ \E s \in Stages : Wrote(c, s)
  <2>1. CASE Failed(c) /\ UNCHANGED stage
    BY <1>1, <2>1 DEF create_map, Failed, Leaves, history
  <2>2. CASE stage' = [stage EXCEPT ![fd[c]] = "sized"] /\ UNCHANGED <<dir, clientVars>>
    BY <1>1, <2>2 DEF create_map, Wrote, Stages
  <2> QED
    BY <1>1, <2>1, <2>2 DEF create_map
<1>2. ASSUME create_header(c)
      PROVE  Leaves(c) \/ \E s \in Stages : Wrote(c, s)
  <2>1. CASE region_close(c) /\ UNCHANGED stage
    BY <1>2, <2>1 DEF create_header, region_close, Failed, Leaves, ClientInv
  <2>2. CASE /\ stage' = [stage EXCEPT ![fd[c]] =
                              [sized |-> "version", version |-> "prefix"][@]]
             /\ UNCHANGED <<dir, clientVars, left>>
    <3>1. CASE stage[fd[c]] = "sized"
      <4>1. Wrote(c, "version")
        BY <1>2, <2>2, <3>1 DEF create_header, Wrote, history
      <4> QED
        BY <4>1 DEF Stages
    <3>2. CASE stage[fd[c]] = "version"
      <4>1. Wrote(c, "prefix")
        BY <1>2, <2>2, <3>2 DEF create_header, Wrote, history
      <4> QED
        BY <4>1 DEF Stages
    <3> QED
      BY <1>2, <3>1, <3>2 DEF create_header
  <2> QED
    BY <1>2, <2>1, <2>2 DEF create_header
<1> QED
  BY <1>1, <1>2

\* ... a close and a crash,
LEMMA LeaveOutcome ==
    ASSUME NEW c \in Clients, ClientInv, optics_close(c) \/ crash(c)
    PROVE  Leaves(c)
<1>1. CASE optics_close(c)
  BY <1>1 DEF optics_close, region_close, Failed, Leaves, ClientInv
<1>2. CASE crash(c)
  BY <1>2 DEF crash, Leaves, fileVars
<1> QED
  BY <1>1, <1>2

\* ... and the steps of a poll that may be its last.
LEMMA PollOutcome ==
    ASSUME poll_none \/ poll_check
    PROVE  GaveUp \/ Passed
<1>1. CASE poll_none
  BY <1>1 DEF poll_none, GaveUp
<1>2. CASE poll_check
  BY <1>2 DEF poll_check, GaveUp, Passed, history
<1> QED
  BY <1>1, <1>2

\* Every step preserves the types,
LEMMA TypeStep ==
    ASSUME TypeOK, ClientInv, PollInv, [Next]_vars
    PROVE  TypeOK'
<1> USE NoFileNotFile, BoundsAssumption
    DEF Stages, fileVars, clientVars, pollVars, history, TypeOK
<1>1. ASSUME NEW c \in Clients, NEW n \in Names, create_wipe(c, n)
      PROVE  TypeOK'
  BY <1>1 DEF create_wipe, Unlinked
<1>2. ASSUME NEW c \in Clients, Leaves(c)
      PROVE  TypeOK'
  BY <1>2 DEF Leaves, Released, Unlinked, NoEvent, Event
<1>3. ASSUME NEW c \in Clients, NEW i \in Files, Opened(c, i)
      PROVE  TypeOK'
  BY <1>3 DEF Opened
<1>4. ASSUME NEW c \in Clients, NEW s \in Stages, Wrote(c, s)
      PROVE  TypeOK'
  BY <1>4 DEF Wrote, ClientInv
<1>5. ASSUME NEW c \in Clients, create_finish(c)
      PROVE  TypeOK'
  BY <1>5 DEF create_finish, FirstInc, ClientInv
<1>6. ASSUME NEW c \in Clients, record(c)
      PROVE  TypeOK'
  BY <1>6 DEF record, ClientInv, Event
<1>7. ASSUME NEW c \in Clients, record_add(c)
      PROVE  TypeOK'
  BY <1>7 DEF record_add, ClientInv, NoEvent, Event
<1>8. ASSUME NEW n \in Names, optics_unlink(n)
      PROVE  TypeOK'
  BY <1>8 DEF optics_unlink, Unlinked
<1>9. ASSUME tick
      PROVE  TypeOK'
  BY <1>9 DEF tick
<1>10. ASSUME poll_begin
       PROVE  TypeOK'
  BY <1>10 DEF poll_begin
<1>11. ASSUME NEW n \in Names, poll_open(n)
       PROVE  TypeOK'
  BY <1>11 DEF poll_open
<1>12. ASSUME GaveUp
       PROVE  TypeOK'
  BY <1>12 DEF GaveUp, Forget
<1>13. ASSUME Passed
       PROVE  TypeOK'
  BY <1>13 DEF Passed
<1>14. ASSUME poll_last
       PROVE  TypeOK'
  BY <1>14 DEF poll_last, PollInv
<1>15. ASSUME poll_store
       PROVE  TypeOK'
  BY <1>15 DEF poll_store, PollInv
<1>16. ASSUME poll_flip
       PROVE  TypeOK'
  BY <1>16, FlippedValue DEF poll_flip, PollInv
<1>17. ASSUME poll_read
       PROVE  TypeOK'
  <2>1. slot' \in [Files -> [{0, 1} -> SUBSET Event]]
    <3>1. pfile \in Files /\ \A v \in Event : [v EXCEPT !.late = TRUE] \in Event
      BY <1>17 DEF poll_read, PollInv, Event
    <3>2. CASE slot' = [slot EXCEPT ![pfile][pepoch] = {}]
      BY <3>1, <3>2
    <3>3. CASE slot' = [slot EXCEPT ![pfile][pepoch] = {[v EXCEPT !.late = TRUE] : v \in @}]
      <4>1. {[v EXCEPT !.late = TRUE] : v \in slot[pfile][pepoch]} \in SUBSET Event
        BY <3>1
      <4> QED
        BY <3>1, <3>3, <4>1
    <3> QED
      BY <1>17, <3>2, <3>3 DEF poll_read
  <2>2. rec' \in [Clients -> Event]
    <3>1. \A v \in Event : [v EXCEPT !.late = TRUE] \in Event
      BY DEF Event
    <3>2. \A c \in Clients : [rec[c] EXCEPT !.late = TRUE] \in Event /\ rec[c] \in Event
      BY <3>1
    <3> QED
      BY <1>17, <3>2 DEF poll_read
  <2> QED
    BY <1>17, <2>1, <2>2 DEF poll_read, Forget
<1>18. ASSUME UNCHANGED vars
       PROVE  TypeOK'
  BY <1>18 DEF vars
<1> QED
  BY <1>1, <1>2, <1>3, <1>4, <1>5, <1>6, <1>7, <1>8, <1>9,
     <1>10, <1>11, <1>12, <1>13, <1>14, <1>15, <1>16, <1>17, <1>18,
     OpenOutcome, HeaderOutcome, LeaveOutcome, PollOutcome DEF Next

\* ... what is known of each client's region,
LEMMA ClientStep ==
    ASSUME TypeOK, ClientInv, OwnerInv, [Next]_vars
    PROVE  ClientInv'
<1> USE NoFileNotFile, BoundsAssumption
    DEF Stages, fileVars, clientVars, pollVars, history, TypeOK, ClientInv, OwnerInv
<1>1. ASSUME NEW c \in Clients, NEW n \in Names, create_wipe(c, n)
      PROVE  ClientInv'
  BY <1>1 DEF create_wipe, Unlinked
<1>2. ASSUME NEW c \in Clients, Leaves(c)
      PROVE  ClientInv'
  BY <1>2 DEF Leaves, Released, Unlinked
<1>3. ASSUME NEW c \in Clients, NEW i \in Files, Opened(c, i)
      PROVE  ClientInv'
  BY <1>3 DEF Opened
<1>4. ASSUME NEW c \in Clients, NEW s \in Stages, Wrote(c, s)
      PROVE  ClientInv'
  BY <1>4 DEF Wrote
<1>5. ASSUME NEW c \in Clients, create_finish(c)
      PROVE  ClientInv'
  BY <1>5 DEF create_finish, FirstInc
<1>6. ASSUME NEW c \in Clients, record(c)
      PROVE  ClientInv'
  BY <1>6 DEF record
<1>7. ASSUME NEW c \in Clients, record_add(c)
      PROVE  ClientInv'
  BY <1>7 DEF record_add
<1>8. ASSUME NEW n \in Names, optics_unlink(n)
      PROVE  ClientInv'
  BY <1>8 DEF optics_unlink, Unlinked
<1>9. ASSUME tick
      PROVE  ClientInv'
  BY <1>9 DEF tick
<1>10. ASSUME poll_begin
       PROVE  ClientInv'
  BY <1>10 DEF poll_begin
<1>11. ASSUME NEW n \in Names, poll_open(n)
       PROVE  ClientInv'
  BY <1>11 DEF poll_open
<1>12. ASSUME GaveUp
       PROVE  ClientInv'
  BY <1>12 DEF GaveUp, Forget
<1>13. ASSUME Passed
       PROVE  ClientInv'
  BY <1>13 DEF Passed
<1>14. ASSUME poll_last
       PROVE  ClientInv'
  BY <1>14 DEF poll_last
<1>15. ASSUME poll_store
       PROVE  ClientInv'
  BY <1>15 DEF poll_store
<1>16. ASSUME poll_flip
       PROVE  ClientInv'
  BY <1>16, FlippedValue DEF poll_flip
<1>17. ASSUME poll_read
       PROVE  ClientInv'
  BY <1>17 DEF poll_read, Forget
<1>18. ASSUME UNCHANGED vars
       PROVE  ClientInv'
  BY <1>18 DEF vars
<1> QED
  BY <1>1, <1>2, <1>3, <1>4, <1>5, <1>6, <1>7, <1>8, <1>9,
     <1>10, <1>11, <1>12, <1>13, <1>14, <1>15, <1>16, <1>17, <1>18,
     OpenOutcome, HeaderOutcome, LeaveOutcome, PollOutcome DEF Next

\* ... that no file has two owners,
LEMMA OwnerStep ==
    ASSUME TypeOK, ClientInv, OwnerInv, [Next]_vars
    PROVE  OwnerInv'
<1> USE NoFileNotFile, BoundsAssumption
    DEF Stages, fileVars, clientVars, pollVars, history, TypeOK, ClientInv, OwnerInv
<1>1. ASSUME NEW c \in Clients, NEW n \in Names, create_wipe(c, n)
      PROVE  OwnerInv'
  BY <1>1 DEF create_wipe, Unlinked
<1>2. ASSUME NEW c \in Clients, Leaves(c)
      PROVE  OwnerInv'
  BY <1>2 DEF Leaves, Released, Unlinked
<1>3. ASSUME NEW c \in Clients, NEW i \in Files, Opened(c, i)
      PROVE  OwnerInv'
  BY <1>3 DEF Opened
<1>4. ASSUME NEW c \in Clients, NEW s \in Stages, Wrote(c, s)
      PROVE  OwnerInv'
  BY <1>4 DEF Wrote
<1>5. ASSUME NEW c \in Clients, create_finish(c)
      PROVE  OwnerInv'
  BY <1>5 DEF create_finish, FirstInc
<1>6. ASSUME NEW c \in Clients, record(c)
      PROVE  OwnerInv'
  BY <1>6 DEF record
<1>7. ASSUME NEW c \in Clients, record_add(c)
      PROVE  OwnerInv'
  BY <1>7 DEF record_add
<1>8. ASSUME NEW n \in Names, optics_unlink(n)
      PROVE  OwnerInv'
  BY <1>8 DEF optics_unlink, Unlinked
<1>9. ASSUME tick
      PROVE  OwnerInv'
  BY <1>9 DEF tick
<1>10. ASSUME poll_begin
       PROVE  OwnerInv'
  BY <1>10 DEF poll_begin
<1>11. ASSUME NEW n \in Names, poll_open(n)
       PROVE  OwnerInv'
  BY <1>11 DEF poll_open
<1>12. ASSUME GaveUp
       PROVE  OwnerInv'
  BY <1>12 DEF GaveUp, Forget
<1>13. ASSUME Passed
       PROVE  OwnerInv'
  BY <1>13 DEF Passed
<1>14. ASSUME poll_last
       PROVE  OwnerInv'
  BY <1>14 DEF poll_last
<1>15. ASSUME poll_store
       PROVE  OwnerInv'
  BY <1>15 DEF poll_store
<1>16. ASSUME poll_flip
       PROVE  OwnerInv'
  BY <1>16 DEF poll_flip
<1>17. ASSUME poll_read
       PROVE  OwnerInv'
  BY <1>17 DEF poll_read, Forget
<1>18. ASSUME UNCHANGED vars
       PROVE  OwnerInv'
  BY <1>18 DEF vars
<1> QED
  BY <1>1, <1>2, <1>3, <1>4, <1>5, <1>6, <1>7, <1>8, <1>9,
     <1>10, <1>11, <1>12, <1>13, <1>14, <1>15, <1>16, <1>17, <1>18,
     OpenOutcome, HeaderOutcome, LeaveOutcome, PollOutcome DEF Next

\* ... what names stand for,
LEMMA NameStep ==
    ASSUME TypeOK, ClientInv, OwnerInv, NameInv, [Next]_vars
    PROVE  NameInv'
<1> USE NoFileNotFile, BoundsAssumption
    DEF Stages, fileVars, clientVars, pollVars, history, TypeOK, ClientInv, OwnerInv, NameInv
<1>1. ASSUME NEW c \in Clients, NEW n \in Names, create_wipe(c, n)
      PROVE  NameInv'
  BY <1>1 DEF create_wipe, Unlinked
<1>2. ASSUME NEW c \in Clients, Leaves(c)
      PROVE  NameInv'
  BY <1>2 DEF Leaves, Released, Unlinked
<1>3. ASSUME NEW c \in Clients, NEW i \in Files, Opened(c, i)
      PROVE  NameInv'
  BY <1>3 DEF Opened
<1>4. ASSUME NEW c \in Clients, NEW s \in Stages, Wrote(c, s)
      PROVE  NameInv'
  BY <1>4 DEF Wrote
<1>5. ASSUME NEW c \in Clients, create_finish(c)
      PROVE  NameInv'
  BY <1>5 DEF create_finish, FirstInc
<1>6. ASSUME NEW c \in Clients, record(c)
      PROVE  NameInv'
  BY <1>6 DEF record
<1>7. ASSUME NEW c \in Clients, record_add(c)
      PROVE  NameInv'
  BY <1>7 DEF record_add
<1>8. ASSUME NEW n \in Names, optics_unlink(n)
      PROVE  NameInv'
  BY <1>8 DEF optics_unlink, Unlinked
<1>9. ASSUME tick
      PROVE  NameInv'
  BY <1>9 DEF tick
<1>10. ASSUME poll_begin
       PROVE  NameInv'
  BY <1>10 DEF poll_begin
<1>11. ASSUME NEW n \in Names, poll_open(n)
       PROVE  NameInv'
  BY <1>11 DEF poll_open
<1>12. ASSUME GaveUp
       PROVE  NameInv'
  BY <1>12 DEF GaveUp, Forget
<1>13. ASSUME Passed
       PROVE  NameInv'
  BY <1>13 DEF Passed
<1>14. ASSUME poll_last
       PROVE  NameInv'
  BY <1>14 DEF poll_last
<1>15. ASSUME poll_store
       PROVE  NameInv'
  BY <1>15 DEF poll_store
<1>16. ASSUME poll_flip
       PROVE  NameInv'
  BY <1>16 DEF poll_flip
<1>17. ASSUME poll_read
       PROVE  NameInv'
  BY <1>17 DEF poll_read, Forget
<1>18. ASSUME UNCHANGED vars
       PROVE  NameInv'
  BY <1>18 DEF vars
<1> QED
  BY <1>1, <1>2, <1>3, <1>4, <1>5, <1>6, <1>7, <1>8, <1>9,
     <1>10, <1>11, <1>12, <1>13, <1>14, <1>15, <1>16, <1>17, <1>18,
     OpenOutcome, HeaderOutcome, LeaveOutcome, PollOutcome DEF Next

\* ... the region at hand in a poll,
LEMMA PollStep ==
    ASSUME TypeOK, ClientInv, NameInv, PollInv, [Next]_vars
    PROVE  PollInv'
<1> USE NoFileNotFile, BoundsAssumption
    DEF Stages, fileVars, clientVars, pollVars, history, TypeOK, ClientInv, NameInv, PollInv, Opens
<1>1. ASSUME NEW c \in Clients, NEW n \in Names, create_wipe(c, n)
      PROVE  PollInv'
  BY <1>1 DEF create_wipe, Unlinked
<1>2. ASSUME NEW c \in Clients, Leaves(c)
      PROVE  PollInv'
  BY <1>2 DEF Leaves, Released, Unlinked
<1>3. ASSUME NEW c \in Clients, NEW i \in Files, Opened(c, i)
      PROVE  PollInv'
  BY <1>3 DEF Opened
<1>4. ASSUME NEW c \in Clients, NEW s \in Stages, Wrote(c, s)
      PROVE  PollInv'
  BY <1>4 DEF Wrote
<1>5. ASSUME NEW c \in Clients, create_finish(c)
      PROVE  PollInv'
  BY <1>5 DEF create_finish, FirstInc
<1>6. ASSUME NEW c \in Clients, record(c)
      PROVE  PollInv'
  BY <1>6 DEF record
<1>7. ASSUME NEW c \in Clients, record_add(c)
      PROVE  PollInv'
  BY <1>7 DEF record_add
<1>8. ASSUME NEW n \in Names, optics_unlink(n)
      PROVE  PollInv'
  BY <1>8 DEF optics_unlink, Unlinked
<1>9. ASSUME tick
      PROVE  PollInv'
  BY <1>9 DEF tick
<1>10. ASSUME poll_begin
       PROVE  PollInv'
  BY <1>10 DEF poll_begin
<1>11. ASSUME NEW n \in Names, poll_open(n)
       PROVE  PollInv'
  BY <1>11 DEF poll_open
<1>12. ASSUME GaveUp
       PROVE  PollInv'
  BY <1>12 DEF GaveUp, Forget
<1>13. ASSUME Passed
       PROVE  PollInv'
  BY <1>13 DEF Passed
<1>14. ASSUME poll_last
       PROVE  PollInv'
  BY <1>14 DEF poll_last
<1>15. ASSUME poll_store
       PROVE  PollInv'
  BY <1>15 DEF poll_store
<1>16. ASSUME poll_flip
       PROVE  PollInv'
  BY <1>16, FlippedValue DEF poll_flip
<1>17. ASSUME poll_read
       PROVE  PollInv'
  BY <1>17 DEF poll_read, Forget
<1>18. ASSUME UNCHANGED vars
       PROVE  PollInv'
  BY <1>18 DEF vars
<1> QED
  BY <1>1, <1>2, <1>3, <1>4, <1>5, <1>6, <1>7, <1>8, <1>9,
     <1>10, <1>11, <1>12, <1>13, <1>14, <1>15, <1>16, <1>17, <1>18,
     OpenOutcome, HeaderOutcome, LeaveOutcome, PollOutcome DEF Next

\* ... that no time is in the future,
LEMMA ClockStep ==
    ASSUME TypeOK, ClientInv, PollInv, ClockInv, [Next]_vars
    PROVE  ClockInv'
<1> USE NoFileNotFile, BoundsAssumption
    DEF Stages, fileVars, clientVars, pollVars, history, TypeOK, ClientInv, PollInv, ClockInv
<1>1. ASSUME NEW c \in Clients, NEW n \in Names, create_wipe(c, n)
      PROVE  ClockInv'
  BY <1>1 DEF create_wipe, Unlinked
<1>2. ASSUME NEW c \in Clients, Leaves(c)
      PROVE  ClockInv'
  BY <1>2 DEF Leaves, Released, Unlinked
<1>3. ASSUME NEW c \in Clients, NEW i \in Files, Opened(c, i)
      PROVE  ClockInv'
  BY <1>3 DEF Opened
<1>4. ASSUME NEW c \in Clients, NEW s \in Stages, Wrote(c, s)
      PROVE  ClockInv'
  BY <1>4 DEF Wrote
<1>5. ASSUME NEW c \in Clients, create_finish(c)
      PROVE  ClockInv'
  BY <1>5 DEF create_finish, FirstInc
<1>6. ASSUME NEW c \in Clients, record(c)
      PROVE  ClockInv'
  BY <1>6 DEF record
<1>7. ASSUME NEW c \in Clients, record_add(c)
      PROVE  ClockInv'
  BY <1>7 DEF record_add
<1>8. ASSUME NEW n \in Names, optics_unlink(n)
      PROVE  ClockInv'
  BY <1>8 DEF optics_unlink, Unlinked
<1>9. ASSUME tick
      PROVE  ClockInv'
  BY <1>9 DEF tick
<1>10. ASSUME poll_begin
       PROVE  ClockInv'
  BY <1>10 DEF poll_begin
<1>11. ASSUME NEW n \in Names, poll_open(n)
       PROVE  ClockInv'
  BY <1>11 DEF poll_open
<1>12. ASSUME GaveUp
       PROVE  ClockInv'
  BY <1>12 DEF GaveUp, Forget
<1>13. ASSUME Passed
       PROVE  ClockInv'
  BY <1>13 DEF Passed
<1>14. ASSUME poll_last
       PROVE  ClockInv'
  BY <1>14 DEF poll_last
<1>15. ASSUME poll_store
       PROVE  ClockInv'
  BY <1>15 DEF poll_store
<1>16. ASSUME poll_flip
       PROVE  ClockInv'
  BY <1>16 DEF poll_flip
<1>17. ASSUME poll_read
       PROVE  ClockInv'
  BY <1>17 DEF poll_read, Forget
<1>18. ASSUME UNCHANGED vars
       PROVE  ClockInv'
  BY <1>18 DEF vars
<1> QED
  BY <1>1, <1>2, <1>3, <1>4, <1>5, <1>6, <1>7, <1>8, <1>9,
     <1>10, <1>11, <1>12, <1>13, <1>14, <1>15, <1>16, <1>17, <1>18,
     OpenOutcome, HeaderOutcome, LeaveOutcome, PollOutcome DEF Next

\* ... the times of a region that was created between polls,
LEMMA EarlyStep ==
    ASSUME TypeOK, ClientInv, PollInv, ClockInv, EarlyInv, [Next]_vars
    PROVE  EarlyInv'
<1> USE NoFileNotFile, BoundsAssumption
    DEF Stages, fileVars, clientVars, pollVars, history, TypeOK, ClientInv, PollInv, ClockInv, EarlyInv
<1>1. ASSUME NEW c \in Clients, NEW n \in Names, create_wipe(c, n)
      PROVE  EarlyInv'
  BY <1>1 DEF create_wipe, Unlinked
<1>2. ASSUME NEW c \in Clients, Leaves(c)
      PROVE  EarlyInv'
  BY <1>2 DEF Leaves, Released, Unlinked
<1>3. ASSUME NEW c \in Clients, NEW i \in Files, Opened(c, i)
      PROVE  EarlyInv'
  BY <1>3 DEF Opened
<1>4. ASSUME NEW c \in Clients, NEW s \in Stages, Wrote(c, s)
      PROVE  EarlyInv'
  BY <1>4 DEF Wrote
<1>5. ASSUME NEW c \in Clients, create_finish(c)
      PROVE  EarlyInv'
  BY <1>5 DEF create_finish, FirstInc
<1>6. ASSUME NEW c \in Clients, record(c)
      PROVE  EarlyInv'
  BY <1>6 DEF record
<1>7. ASSUME NEW c \in Clients, record_add(c)
      PROVE  EarlyInv'
  BY <1>7 DEF record_add
<1>8. ASSUME NEW n \in Names, optics_unlink(n)
      PROVE  EarlyInv'
  BY <1>8 DEF optics_unlink, Unlinked
<1>9. ASSUME tick
      PROVE  EarlyInv'
  BY <1>9 DEF tick
<1>10. ASSUME poll_begin
       PROVE  EarlyInv'
  BY <1>10 DEF poll_begin
<1>11. ASSUME NEW n \in Names, poll_open(n)
       PROVE  EarlyInv'
  BY <1>11 DEF poll_open
<1>12. ASSUME GaveUp
       PROVE  EarlyInv'
  BY <1>12 DEF GaveUp, Forget
<1>13. ASSUME Passed
       PROVE  EarlyInv'
  BY <1>13 DEF Passed
<1>14. ASSUME poll_last
       PROVE  EarlyInv'
  BY <1>14 DEF poll_last
<1>15. ASSUME poll_store
       PROVE  EarlyInv'
  BY <1>15 DEF poll_store
<1>16. ASSUME poll_flip
       PROVE  EarlyInv'
  BY <1>16 DEF poll_flip
<1>17. ASSUME poll_read
       PROVE  EarlyInv'
  BY <1>17 DEF poll_read, Forget
<1>18. ASSUME UNCHANGED vars
       PROVE  EarlyInv'
  BY <1>18 DEF vars
<1> QED
  BY <1>1, <1>2, <1>3, <1>4, <1>5, <1>6, <1>7, <1>8, <1>9,
     <1>10, <1>11, <1>12, <1>13, <1>14, <1>15, <1>16, <1>17, <1>18,
     OpenOutcome, HeaderOutcome, LeaveOutcome, PollOutcome DEF Next

\* ... where an event fits, if the step does not read its slot,
LEMMA FitsStep ==
    ASSUME TypeOK, ClientInv, PollInv, ClockInv, NEW k \in Files, NEW e \in {0, 1}, NEW v \in Event, Fits(k, e, v),
           ~(poll_read /\ k = pfile /\ e = pepoch), [Next]_vars
    PROVE  Fits(k, e, v)'
<1> USE NoFileNotFile, BoundsAssumption
    DEF Stages, fileVars, clientVars, pollVars, history, TypeOK, Event, ClientInv, PollInv, ClockInv, Fits
<1>1. ASSUME NEW c \in Clients, NEW n \in Names, create_wipe(c, n)
      PROVE  Fits(k, e, v)'
  BY <1>1 DEF create_wipe, Unlinked
<1>2. ASSUME NEW c \in Clients, Leaves(c)
      PROVE  Fits(k, e, v)'
  BY <1>2 DEF Leaves, Released, Unlinked
<1>3. ASSUME NEW c \in Clients, NEW i \in Files, Opened(c, i)
      PROVE  Fits(k, e, v)'
  BY <1>3 DEF Opened
<1>4. ASSUME NEW c \in Clients, NEW s \in Stages, Wrote(c, s)
      PROVE  Fits(k, e, v)'
  BY <1>4 DEF Wrote
<1>5. ASSUME NEW c \in Clients, create_finish(c)
      PROVE  Fits(k, e, v)'
  BY <1>5 DEF create_finish, FirstInc
<1>6. ASSUME NEW c \in Clients, record(c)
      PROVE  Fits(k, e, v)'
  BY <1>6 DEF record
<1>7. ASSUME NEW c \in Clients, record_add(c)
      PROVE  Fits(k, e, v)'
  BY <1>7 DEF record_add
<1>8. ASSUME NEW n \in Names, optics_unlink(n)
      PROVE  Fits(k, e, v)'
  BY <1>8 DEF optics_unlink, Unlinked
<1>9. ASSUME tick
      PROVE  Fits(k, e, v)'
  BY <1>9 DEF tick
<1>10. ASSUME poll_begin
       PROVE  Fits(k, e, v)'
  BY <1>10 DEF poll_begin
<1>11. ASSUME NEW n \in Names, poll_open(n)
       PROVE  Fits(k, e, v)'
  BY <1>11 DEF poll_open
<1>12. ASSUME GaveUp
       PROVE  Fits(k, e, v)'
  BY <1>12 DEF GaveUp, Forget
<1>13. ASSUME Passed
       PROVE  Fits(k, e, v)'
  BY <1>13 DEF Passed
<1>14. ASSUME poll_last
       PROVE  Fits(k, e, v)'
  BY <1>14 DEF poll_last
<1>15. ASSUME poll_store
       PROVE  Fits(k, e, v)'
  BY <1>15 DEF poll_store
<1>16. ASSUME poll_flip
       PROVE  Fits(k, e, v)'
  BY <1>16, FlippedValue DEF poll_flip
<1>17. ASSUME poll_read
       PROVE  Fits(k, e, v)'
  BY <1>17 DEF poll_read, Forget
<1>18. ASSUME UNCHANGED vars
       PROVE  Fits(k, e, v)'
  BY <1>18 DEF vars
<1> QED
  BY <1>1, <1>2, <1>3, <1>4, <1>5, <1>6, <1>7, <1>8, <1>9,
     <1>10, <1>11, <1>12, <1>13, <1>14, <1>15, <1>16, <1>17, <1>18,
     OpenOutcome, HeaderOutcome, LeaveOutcome, PollOutcome DEF Next

\* An event that the read of its slot leaves there is late.
LEMMA FitsLate ==
    ASSUME TypeOK, PollInv, NEW k \in Files, NEW e \in {0, 1}, NEW v \in Event, Fits(k, e, v),
           poll_read, k = pfile, e = pepoch
    PROVE  Fits(k, e, [v EXCEPT !.late = TRUE])'
<1> DEFINE w == [v EXCEPT !.late = TRUE]
<1>1. w.late = TRUE /\ w.time = v.time
  BY DEF Event
<1> HIDE DEF w
<1>2. stage[k] = "complete" /\ v.time <= now /\ e # epoch[k]
  BY DEF Fits, PollInv, poll_read
<1>3. ppc' = "idle" /\ stage' = stage /\ now' = now /\ epoch' = epoch
  BY DEF poll_read, Forget
<1>4. Fits(k, e, w)'
  BY <1>1, <1>2, <1>3 DEF Fits
<1> QED
  BY <1>4 DEF w

\* A new event fits the epoch it loaded.
LEMMA FitsNew ==
    ASSUME TypeOK, ClientInv, PollInv, ClockInv, NEW c \in Clients, record(c)
    PROVE  Fits(fd[c], rec[c].epoch, rec[c])'
<1>1. fd[c] \in Files /\ stage[fd[c]] = "complete"
  BY NoFileNotFile DEF TypeOK, ClientInv, record
<1>2. /\ fd' = fd /\ stage' = stage /\ now' = now /\ epoch' = epoch
      /\ ppc' = ppc /\ last_poll' = last_poll /\ epoch_last_inc' = epoch_last_inc
      /\ rec'[c].epoch = epoch[fd[c]] /\ rec'[c].time = now
  BY DEF record, fileVars, pollVars, TypeOK
<1>3. now <= now /\ epoch_last_inc[fd[c]] <= now /\ last_poll <= now
  BY <1>1 DEF ClockInv, TypeOK
<1> QED
  BY <1>1, <1>2, <1>3 DEF Fits

\* ... the events counted,
LEMMA SlotStep ==
    ASSUME TypeOK, ClientInv, PollInv, ClockInv, SlotInv, RecordInv, [Next]_vars
    PROVE  SlotInv'
<1> SUFFICES ASSUME NEW i \in Files, NEW e \in {0, 1}, NEW v \in slot'[i][e]
             PROVE  Fits(i, e, v)'
  BY DEF SlotInv
<1>1. CASE poll_read /\ i = pfile /\ e = pepoch
  <2>1. PICK w \in slot[i][e] : v = [w EXCEPT !.late = TRUE]
    BY <1>1 DEF poll_read, TypeOK, PollInv
  <2>2. w \in Event /\ Fits(i, e, w)
    BY <2>1 DEF TypeOK, SlotInv
  <2> QED
    BY <1>1, <2>1, <2>2, FitsLate
<1>2. CASE ~(poll_read /\ i = pfile /\ e = pepoch)
  <2>1. v \in slot[i][e] \/ \E c \in Clients : cpc[c] = "add" /\ i = fd[c] /\ e = rec[c].epoch /\ v = rec[c]
    <3>1. CASE \E c \in Clients : record_add(c)
      BY <3>1 DEF record_add, TypeOK, Event, ClientInv
    <3>2. CASE poll_read
      BY <1>2, <3>2 DEF poll_read, TypeOK, PollInv
    <3>3. CASE ~poll_read /\ ~\E c \in Clients : record_add(c)
      <4>1. slot' = slot
        BY <3>3 DEF Next, vars, fileVars, create_wipe, create_open, create_map, create_header,
              create_finish, record, optics_close, crash, optics_unlink, tick, poll_begin,
              poll_open, poll_none, poll_check, poll_last, poll_store, poll_flip
      <4> QED
        BY <4>1
    <3> QED
      BY <3>1, <3>2, <3>3
  <2>2. v \in Event /\ Fits(i, e, v)
    BY <2>1 DEF TypeOK, SlotInv, RecordInv
  <2> QED
    BY <1>2, <2>2, FitsStep
<1> QED
  BY <1>1, <1>2

\* ... and those under way.
LEMMA RecordStep ==
    ASSUME TypeOK, ClientInv, PollInv, ClockInv, RecordInv, [Next]_vars
    PROVE  RecordInv'
<1> SUFFICES ASSUME NEW c \in Clients, cpc'[c] = "add"
             PROVE  Fits(fd[c], rec[c].epoch, rec[c])'
  BY DEF RecordInv
<1>1. CASE record(c)
  BY <1>1, FitsNew DEF record
<1>2. CASE poll_read
  <2>1. cpc[c] = "add" /\ fd'[c] = fd[c] /\ fd[c] \in Files /\ rec[c] \in Event
    BY <1>2, NoFileNotFile DEF poll_read, TypeOK, ClientInv
  <2>2. Fits(fd[c], rec[c].epoch, rec[c]) /\ rec[c].epoch \in {0, 1}
    BY <2>1 DEF RecordInv, Event
  <2>3. CASE fd[c] = pfile /\ rec[c].epoch = pepoch
    <3>1. rec'[c] = [rec[c] EXCEPT !.late = TRUE] /\ rec'[c].epoch = rec[c].epoch
      BY <1>2, <2>1, <2>3 DEF poll_read, Event
    <3> QED
      BY <1>2, <2>1, <2>2, <2>3, <3>1, FitsLate
  <2>4. CASE ~(fd[c] = pfile /\ rec[c].epoch = pepoch)
    <3>1. rec'[c] = rec[c]
      BY <1>2, <2>1, <2>4 DEF poll_read, TypeOK
    <3> QED
      BY <2>1, <2>2, <2>4, <3>1, FitsStep
  <2> QED
    BY <2>3, <2>4
<1>3. CASE ~record(c) /\ ~poll_read
  <2>1. cpc[c] = "add" /\ fd'[c] = fd[c] /\ rec'[c] = rec[c]
    <3> USE <1>3 DEF TypeOK, clientVars
    <3>1. ASSUME NEW d \in Clients, NEW n \in Names, create_wipe(d, n)
          PROVE  cpc[c] = "add" /\ fd'[c] = fd[c] /\ rec'[c] = rec[c]
      BY <3>1 DEF create_wipe
    <3>2. ASSUME NEW d \in Clients, Leaves(d)
          PROVE  cpc[c] = "add" /\ fd'[c] = fd[c] /\ rec'[c] = rec[c]
      BY <3>2 DEF Leaves, Released
    <3>3. ASSUME NEW d \in Clients, NEW i \in Files, Opened(d, i)
          PROVE  cpc[c] = "add" /\ fd'[c] = fd[c] /\ rec'[c] = rec[c]
      BY <3>3 DEF Opened
    <3>4. ASSUME NEW d \in Clients, create_finish(d) \/ record(d) \/ record_add(d)
          PROVE  cpc[c] = "add" /\ fd'[c] = fd[c] /\ rec'[c] = rec[c]
      BY <3>4 DEF create_finish, record, record_add
    <3>5. CASE UNCHANGED clientVars
      BY <3>5
    <3>6. ASSUME NEW d \in Clients, NEW s \in Stages, Wrote(d, s)
          PROVE  UNCHANGED clientVars
      BY <3>6 DEF Wrote
    <3>7. ASSUME UNCHANGED vars \/ tick \/ poll_begin \/ poll_none \/ poll_check \/ poll_last
                 \/ poll_store \/ poll_flip \/ \E n \in Names : optics_unlink(n) \/ poll_open(n)
          PROVE  UNCHANGED clientVars
      BY <3>7 DEF vars, tick, poll_begin, poll_none, poll_check, poll_last, poll_store,
         poll_flip, optics_unlink, poll_open
    <3> QED
      BY <3>1, <3>2, <3>3, <3>4, <3>5, <3>6, <3>7, OpenOutcome, HeaderOutcome, LeaveOutcome DEF Next
  <2>2. fd[c] \in Files /\ rec[c] \in Event /\ rec[c].epoch \in {0, 1}
    BY <2>1 DEF TypeOK, ClientInv, Event
  <2>3. Fits(fd[c], rec[c].epoch, rec[c])
    BY <2>1 DEF RecordInv
  <2> QED
    BY <1>3, <2>1, <2>2, <2>3, FitsStep
<1> QED
  BY <1>1, <1>2, <1>3

\* All of it holds in every reachable state.
THEOREM Invariant == Spec => []IndInv
<1>1. Init => IndInv
  BY NamesAssumption, BoundsAssumption, NoFileNotFile
     DEF Init, IndInv, TypeOK, Stages, Event, NoEvent, ClientInv, OwnerInv, NameInv, PollInv,
         ClockInv, SlotInv, RecordInv, EarlyInv
<1>2. IndInv /\ [Next]_vars => IndInv'
  BY TypeStep, ClientStep, OwnerStep, NameStep, PollStep, ClockStep, EarlyStep, SlotStep,
     RecordStep DEF IndInv
<1> QED
  BY <1>1, <1>2, PTL DEF Spec

\* No two processes own one file, however creations, closes and crashes under
\* one name interleave, and every file is in a state that region_create and
\* optics_create_at take it to.
THEOREM FileOwned == Spec => []OneOwner
<1>1. IndInv => OneOwner
  BY DEF IndInv, OwnerInv, OneOwner
<1> QED
  BY <1>1, Invariant, PTL

\* A name that stands for a file nobody owns is that of a process which died,
\* or in whose region_close munmap or close failed before shm_unlink: no other
\* error path, and no order of two users of a name, leaves a file behind.
THEOREM NothingLeftBehind == Spec => []NoLeftover
<1>1. IndInv => NoLeftover
  BY DEF IndInv, NameInv, NoLeftover
<1> QED
  BY <1>1, Invariant, PTL

\* With the accesses of optics_epoch_inc_at, of a record and of the end of a
\* creation in any order, what a poll drains began between the last poll and
\* its flip or was late, and the window begins no earlier than the creation
\* unless that ended inside this poll or the one before.
THEOREM WindowCovers == Spec => []WindowSound
<1>1. IndInv => WindowSound
  <2> SUFFICES ASSUME IndInv, ppc = "read"
               PROVE  /\ \A v \in slot[pfile][pepoch] :
                            v.time <= flipped /\ (v.late \/ last_poll <= v.time)
                      /\ stage[pfile] = "complete" /\ early[pfile] = 0 =>
                            created[pfile] <= last_poll
    BY DEF WindowSound
  <2>1. \A v \in slot[pfile][pepoch] : v.time <= flipped /\ (v.late \/ last_poll <= v.time)
    BY DEF IndInv, TypeOK, PollInv, SlotInv, Fits
  <2>2. stage[pfile] = "complete" /\ early[pfile] = 0 => created[pfile] <= last_poll
    BY DEF IndInv, PollInv, EarlyInv
  <2> QED
    BY <2>1, <2>2
<1> QED
  BY <1>1, Invariant, PTL

-----------------------------------------------------------------------------
(* The mapping of a file while it grows (Region), for any number of threads *)
(* and any lengths that region_create can begin with.                       *)

Growing == {"trunc", "map", "ptr", "pos"}

\* The lock is held by the one thread inside the slow path of region_grow.
LockInv == \A t \in Threads : pc[t] \in Growing <=> lock = t

\* The current mapping covers pos, and pos only moves to what is mapped.
PosInv ==
    /\ pos <= maps[ptr]
    /\ len = maps[Len(maps)]
    /\ len <= file
    /\ \A i \in 1 .. Len(maps) : maps[i] <= len
    /\ (\E t \in Threads : pc[t] = "ptr") \/ ptr = Len(maps)
    /\ \A t \in Threads :
        /\ pc[t] \in Growing => old_pos = pos /\ pos < new_pos
        /\ pc[t] \in {"trunc", "map"} => len < new_pos
        /\ pc[t] \in {"map", "ptr", "pos"} => new_pos <= new_len /\ new_len <= file
        /\ pc[t] \in {"ptr", "pos"} => len = new_len

\* A reader's mapping covers every legitimate access.
ReadInv ==
    \A t \in Threads :
        /\ vma_ptr[t] \in 1 .. Len(maps)
        /\ t \in legit => end[t] <= maps[vma_ptr[t]] /\ end[t] <= pos
        /\ pc[t] = "null" => t \notin legit

\* Extents lie below pos and do not overlap.
ExtentInv ==
    /\ \A i \in 1 .. Len(extents) : extents[i].from <= extents[i].to /\ extents[i].to <= pos
    /\ GrowDisjoint

RegionInv == RegionTypeOK /\ LockInv /\ PosInv /\ ReadInv /\ ExtentInv

\* The elements of a sequence over S are in S.
LEMMA ElementType ==
    ASSUME NEW S, NEW s \in Seq(S), NEW i \in 1 .. Len(s)
    PROVE  s[i] \in S
OBVIOUS

\* What Append does to lengths and elements.
LEMMA AppendFacts ==
    ASSUME NEW S, NEW s \in Seq(S), NEW x \in S
    PROVE  /\ Len(Append(s, x)) = Len(s) + 1
           /\ Append(s, x)[Len(s) + 1] = x
           /\ \A i \in 1 .. Len(s) : Append(s, x)[i] = s[i]
           /\ \A i \in 1 .. Len(Append(s, x)) : i \in 1 .. Len(s) \/ i = Len(s) + 1
OBVIOUS

\* Every step preserves the type invariant,
LEMMA RegionTypeStep ==
    ASSUME RegionTypeOK, [RegionNext]_regionVars
    PROVE  RegionTypeOK'
<1> USE ThreadAssumption, LenAssumption, SizesAssumption
           DEF RegionTypeOK, PcStates, Ends, growVars, readVars
<1>1. ASSUME NEW t \in Threads, grow_in_place(t)
      PROVE  RegionTypeOK'
  BY <1>1 DEF grow_in_place, Unlocked, Goto
<1>2. ASSUME NEW t \in Threads, grow_begin(t)
      PROVE  RegionTypeOK'
  BY <1>2 DEF grow_begin, Unlocked, Goto
<1>3. ASSUME NEW t \in Threads, grow_trunc(t)
      PROVE  RegionTypeOK'
  BY <1>3 DEF grow_trunc, Truncated, Goto
<1>4. ASSUME NEW t \in Threads, grow_fail(t)
      PROVE  RegionTypeOK'
  BY <1>4 DEF grow_fail, Goto
<1>5. ASSUME NEW t \in Threads, grow_map(t)
      PROVE  RegionTypeOK'
  BY <1>5 DEF grow_map, Goto
<1>6. ASSUME NEW t \in Threads, grow_ptr(t)
      PROVE  RegionTypeOK'
  BY <1>6 DEF grow_ptr, Newest, Goto
<1>7. ASSUME NEW t \in Threads, grow_pos(t)
      PROVE  RegionTypeOK'
  BY <1>7 DEF grow_pos, Goto
<1>8. ASSUME NEW t \in Threads, NEW e \in Ends, ptr_load(t, e)
      PROVE  RegionTypeOK'
  BY <1>8 DEF ptr_load, Goto
<1>9. ASSUME NEW t \in Threads, ptr_ok(t)
      PROVE  RegionTypeOK'
  BY <1>9 DEF ptr_ok, Outside, Goto
<1>10. ASSUME NEW t \in Threads, ptr_fail(t)
      PROVE  RegionTypeOK'
  BY <1>10 DEF ptr_fail, Outside, Goto
<1>11. ASSUME NEW t \in Threads, ptr_return(t)
      PROVE  RegionTypeOK'
  BY <1>11 DEF ptr_return, Goto
<1>12. ASSUME UNCHANGED regionVars
      PROVE  RegionTypeOK'
  BY <1>12 DEF regionVars
<1> QED
  BY <1>1, <1>2, <1>3, <1>4, <1>5, <1>6, <1>7, <1>8, <1>9, <1>10, <1>11, <1>12
     DEF RegionNext, Grow, Deref

\* ... that the slow path excludes itself,
LEMMA LockStep ==
    ASSUME RegionTypeOK, LockInv, [RegionNext]_regionVars
    PROVE  LockInv'
<1> USE ThreadAssumption, LenAssumption, SizesAssumption
           DEF RegionTypeOK, PcStates, growVars, readVars, LockInv, Growing
<1>1. ASSUME NEW t \in Threads, grow_in_place(t)
      PROVE  LockInv'
  BY <1>1 DEF grow_in_place, Unlocked, Goto
<1>2. ASSUME NEW t \in Threads, grow_begin(t)
      PROVE  LockInv'
  BY <1>2 DEF grow_begin, Unlocked, Goto
<1>3. ASSUME NEW t \in Threads, grow_trunc(t)
      PROVE  LockInv'
  BY <1>3 DEF grow_trunc, Truncated, Goto
<1>4. ASSUME NEW t \in Threads, grow_fail(t)
      PROVE  LockInv'
  BY <1>4 DEF grow_fail, Goto
<1>5. ASSUME NEW t \in Threads, grow_map(t)
      PROVE  LockInv'
  BY <1>5 DEF grow_map, Goto
<1>6. ASSUME NEW t \in Threads, grow_ptr(t)
      PROVE  LockInv'
  BY <1>6 DEF grow_ptr, Newest, Goto
<1>7. ASSUME NEW t \in Threads, grow_pos(t)
      PROVE  LockInv'
  BY <1>7 DEF grow_pos, Goto
<1>8. ASSUME NEW t \in Threads, NEW e \in Ends, ptr_load(t, e)
      PROVE  LockInv'
  BY <1>8 DEF ptr_load, Goto
<1>9. ASSUME NEW t \in Threads, ptr_ok(t)
      PROVE  LockInv'
  BY <1>9 DEF ptr_ok, Outside, Goto
<1>10. ASSUME NEW t \in Threads, ptr_fail(t)
      PROVE  LockInv'
  BY <1>10 DEF ptr_fail, Outside, Goto
<1>11. ASSUME NEW t \in Threads, ptr_return(t)
      PROVE  LockInv'
  BY <1>11 DEF ptr_return, Goto
<1>12. ASSUME UNCHANGED regionVars
      PROVE  LockInv'
  BY <1>12 DEF regionVars
<1> QED
  BY <1>1, <1>2, <1>3, <1>4, <1>5, <1>6, <1>7, <1>8, <1>9, <1>10, <1>11, <1>12
     DEF RegionNext, Grow, Deref

\* ... that pos stays inside the current mapping,
LEMMA PosStep ==
    ASSUME RegionTypeOK, LockInv, PosInv, [RegionNext]_regionVars
    PROVE  PosInv'
<1> USE ThreadAssumption, LenAssumption, SizesAssumption
           DEF RegionTypeOK, PcStates, growVars, readVars, LockInv, PosInv, Growing
<1>1. ASSUME NEW t \in Threads, grow_in_place(t)
      PROVE  PosInv'
  BY <1>1 DEF grow_in_place, Unlocked, Goto
<1>2. ASSUME NEW t \in Threads, grow_begin(t)
      PROVE  PosInv'
  BY <1>2 DEF grow_begin, Unlocked, Goto
<1>3. ASSUME NEW t \in Threads, grow_trunc(t)
      PROVE  PosInv'
  BY <1>3 DEF grow_trunc, Truncated, Goto, FirstDoubling
<1>4. ASSUME NEW t \in Threads, grow_fail(t)
      PROVE  PosInv'
  BY <1>4 DEF grow_fail, Goto
<1>5. ASSUME NEW t \in Threads, grow_map(t)
      PROVE  PosInv'
  <2>1. /\ Len(maps') = Len(maps) + 1
        /\ maps'[Len(maps) + 1] = new_len
        /\ \A i \in 1 .. Len(maps) : maps'[i] = maps[i]
        /\ \A i \in 1 .. Len(maps') : i \in 1 .. Len(maps) \/ i = Len(maps) + 1
    BY <1>5, AppendFacts DEF grow_map
  <2>2. \A u \in Threads \ {t} : pc[u] \notin Growing
    BY <1>5 DEF grow_map
  <2>3. len < new_pos /\ new_pos <= new_len /\ new_len <= file
    BY <1>5 DEF grow_map
  <2>4. ASSUME NEW i \in 1 .. Len(maps)
        PROVE  maps'[i] <= new_len
    <3>1. maps'[i] = maps[i]
      BY <2>1
    <3>2. maps[i] \in 0 .. MaxLen /\ maps[i] <= len
      <4>1. maps \in Seq(0 .. MaxLen) /\ maps[i] <= len
        BY DEF RegionTypeOK, PosInv
      <4> HIDE DEF RegionTypeOK, PosInv, LockInv
      <4> QED
        BY <4>1, ElementType
    <3>3. len \in Nat /\ new_pos \in Nat /\ new_len \in Nat
      OBVIOUS
    <3> HIDE DEF RegionTypeOK, PosInv, LockInv
    <3> QED
      BY <3>1, <3>2, <3>3, <2>3
  <2>5. \A i \in 1 .. Len(maps') : maps'[i] <= new_len
    BY <2>1, <2>4
  <2> QED
    BY <1>5, <2>1, <2>2, <2>3, <2>5 DEF grow_map, Goto
<1>6. ASSUME NEW t \in Threads, grow_ptr(t)
      PROVE  PosInv'
  BY <1>6 DEF grow_ptr, Newest, Goto
<1>7. ASSUME NEW t \in Threads, grow_pos(t)
      PROVE  PosInv'
  BY <1>7 DEF grow_pos, Goto
<1>8. ASSUME NEW t \in Threads, NEW e \in Ends, ptr_load(t, e)
      PROVE  PosInv'
  BY <1>8 DEF ptr_load, Goto
<1>9. ASSUME NEW t \in Threads, ptr_ok(t)
      PROVE  PosInv'
  BY <1>9 DEF ptr_ok, Outside, Goto
<1>10. ASSUME NEW t \in Threads, ptr_fail(t)
      PROVE  PosInv'
  BY <1>10 DEF ptr_fail, Outside, Goto
<1>11. ASSUME NEW t \in Threads, ptr_return(t)
      PROVE  PosInv'
  BY <1>11 DEF ptr_return, Goto
<1>12. ASSUME UNCHANGED regionVars
      PROVE  PosInv'
  BY <1>12 DEF regionVars
<1> QED
  BY <1>1, <1>2, <1>3, <1>4, <1>5, <1>6, <1>7, <1>8, <1>9, <1>10, <1>11, <1>12
     DEF RegionNext, Grow, Deref

\* ... that a reader's mapping covers its access,
LEMMA ReadStep ==
    ASSUME RegionTypeOK, LockInv, PosInv, ReadInv, [RegionNext]_regionVars
    PROVE  ReadInv'
<1> USE ThreadAssumption, LenAssumption, SizesAssumption
           DEF RegionTypeOK, PcStates, growVars, readVars, ReadInv
<1>1. ASSUME NEW t \in Threads, grow_in_place(t)
      PROVE  ReadInv'
  BY <1>1 DEF grow_in_place, Unlocked, Goto
<1>2. ASSUME NEW t \in Threads, grow_begin(t)
      PROVE  ReadInv'
  BY <1>2 DEF grow_begin, Unlocked, Goto
<1>3. ASSUME NEW t \in Threads, grow_trunc(t)
      PROVE  ReadInv'
  BY <1>3 DEF grow_trunc, Truncated, Goto
<1>4. ASSUME NEW t \in Threads, grow_fail(t)
      PROVE  ReadInv'
  BY <1>4 DEF grow_fail, Goto
<1>5. ASSUME NEW t \in Threads, grow_map(t)
      PROVE  ReadInv'
  BY <1>5 DEF grow_map, Goto
<1>6. ASSUME NEW t \in Threads, grow_ptr(t)
      PROVE  ReadInv'
  BY <1>6 DEF grow_ptr, Newest, Goto
<1>7. ASSUME NEW t \in Threads, grow_pos(t)
      PROVE  ReadInv'
  <2>1. pos < new_pos
    BY <1>7 DEF grow_pos, PosInv, Growing
  <2> QED
    BY <1>7, <2>1 DEF grow_pos, Goto
<1>8. ASSUME NEW t \in Threads, NEW e \in Ends, ptr_load(t, e)
      PROVE  ReadInv'
  <2>1. pos <= maps[ptr] /\ ptr \in 1 .. Len(maps)
    BY DEF PosInv
  <2>2. maps[ptr] \in Nat /\ e \in Nat
    BY <2>1 DEF Ends
  <2> QED
    BY <1>8, <2>1, <2>2 DEF ptr_load, Goto
<1>9. ASSUME NEW t \in Threads, ptr_ok(t)
      PROVE  ReadInv'
  BY <1>9 DEF ptr_ok, Outside, Goto
<1>10. ASSUME NEW t \in Threads, ptr_fail(t)
      PROVE  ReadInv'
  BY <1>10 DEF ptr_fail, Outside, Goto
<1>11. ASSUME NEW t \in Threads, ptr_return(t)
      PROVE  ReadInv'
  BY <1>11 DEF ptr_return, Goto
<1>12. ASSUME UNCHANGED regionVars
      PROVE  ReadInv'
  BY <1>12 DEF regionVars
<1> QED
  BY <1>1, <1>2, <1>3, <1>4, <1>5, <1>6, <1>7, <1>8, <1>9, <1>10, <1>11, <1>12
     DEF RegionNext, Grow, Deref

\* An extent that begins at pos, or above it, overlaps none before it.
LEMMA ExtentAdded ==
    ASSUME RegionTypeOK, ExtentInv, NEW x \in [from : Nat, to : Nat], pos <= x.from,
           x.from <= x.to, extents' = Append(extents, x), x.to <= pos', pos' \in Nat
    PROVE  ExtentInv'
<1> DEFINE E == [from : Nat, to : Nat]
<1>1. /\ Len(extents') = Len(extents) + 1
      /\ extents'[Len(extents) + 1] = x
      /\ \A i \in 1 .. Len(extents) : extents'[i] = extents[i] /\ extents[i] \in E
      /\ \A i \in 1 .. Len(extents') : i \in 1 .. Len(extents) \/ i = Len(extents) + 1
  <2>1. extents \in Seq(E) /\ x \in E
    BY DEF RegionTypeOK
  <2> HIDE DEF E
  <2> QED
    BY <2>1, AppendFacts, ElementType
<1>2. \A i \in 1 .. Len(extents) :
          /\ extents[i].from \in Nat /\ extents[i].to \in Nat
          /\ extents[i].from <= extents[i].to /\ extents[i].to <= pos
  BY <1>1 DEF ExtentInv
<1>3. pos \in Nat /\ pos <= pos' /\ Len(extents) \in Nat
  BY DEF RegionTypeOK
<1>4. \A i \in 1 .. Len(extents') :
          extents'[i].from <= extents'[i].to /\ extents'[i].to <= pos'
  <2> SUFFICES ASSUME NEW i \in 1 .. Len(extents')
               PROVE  extents'[i].from <= extents'[i].to /\ extents'[i].to <= pos'
    OBVIOUS
  <2>1. CASE i \in 1 .. Len(extents)
    BY <1>1, <1>2, <1>3, <2>1
  <2>2. CASE i = Len(extents) + 1
    BY <1>1, <2>2
  <2> QED
    BY <1>1, <2>1, <2>2
<1>5. \A i, j \in 1 .. Len(extents') : i # j =>
          extents'[i].to <= extents'[j].from \/ extents'[j].to <= extents'[i].from
  <2> SUFFICES ASSUME NEW i \in 1 .. Len(extents'), NEW j \in 1 .. Len(extents'), i # j
               PROVE  extents'[i].to <= extents'[j].from \/ extents'[j].to <= extents'[i].from
    OBVIOUS
  <2>1. CASE i \in 1 .. Len(extents) /\ j \in 1 .. Len(extents)
    BY <1>1, <2>1 DEF ExtentInv, GrowDisjoint
  <2>2. CASE i \in 1 .. Len(extents) /\ j = Len(extents) + 1
    BY <1>1, <1>2, <1>3, <2>2
  <2>3. CASE i = Len(extents) + 1 /\ j \in 1 .. Len(extents)
    BY <1>1, <1>2, <1>3, <2>3
  <2> QED
    BY <1>1, <2>1, <2>2, <2>3
<1> QED
  BY <1>4, <1>5 DEF ExtentInv, GrowDisjoint

\* ... and that extents do not overlap.
LEMMA ExtentStep ==
    ASSUME RegionTypeOK, LockInv, PosInv, ExtentInv, [RegionNext]_regionVars
    PROVE  ExtentInv'
<1> USE ThreadAssumption, LenAssumption, SizesAssumption
           DEF RegionTypeOK, PcStates, growVars, readVars, LockInv, PosInv, ExtentInv, GrowDisjoint, Growing
<1>1. ASSUME NEW t \in Threads, grow_in_place(t)
      PROVE  ExtentInv'
  <2>1. PICK size \in Sizes :
            /\ extents' = Append(extents, [from |-> pos, to |-> pos + size])
            /\ pos' = pos + size
    BY <1>1 DEF grow_in_place
  <2>2. pos \in Nat /\ size \in Nat
    BY DEF RegionTypeOK
  <2> HIDE DEF RegionTypeOK, LockInv, PosInv, ExtentInv, GrowDisjoint
  <2> DEFINE x == [from |-> pos, to |-> pos + size]
  <2>3. x \in [from : Nat, to : Nat] /\ x.from = pos /\ x.to = pos + size
    BY <2>2
  <2>4. RegionTypeOK /\ ExtentInv /\ extents' = Append(extents, x)
    BY <2>1
  <2> HIDE DEF x
  <2>5. pos <= x.from /\ x.from <= x.to /\ x.to <= pos' /\ pos' \in Nat
    BY <2>1, <2>2, <2>3
  <2> QED
    BY <2>3, <2>4, <2>5, ExtentAdded
<1>2. ASSUME NEW t \in Threads, grow_begin(t)
      PROVE  ExtentInv'
  BY <1>2 DEF grow_begin, Unlocked, Goto
<1>3. ASSUME NEW t \in Threads, grow_trunc(t)
      PROVE  ExtentInv'
  BY <1>3 DEF grow_trunc, Truncated, Goto
<1>4. ASSUME NEW t \in Threads, grow_fail(t)
      PROVE  ExtentInv'
  BY <1>4 DEF grow_fail, Goto
<1>5. ASSUME NEW t \in Threads, grow_map(t)
      PROVE  ExtentInv'
  BY <1>5 DEF grow_map, Goto
<1>6. ASSUME NEW t \in Threads, grow_ptr(t)
      PROVE  ExtentInv'
  BY <1>6 DEF grow_ptr, Newest, Goto
<1>7. ASSUME NEW t \in Threads, grow_pos(t)
      PROVE  ExtentInv'
  <2>1. /\ extents' = Append(extents, [from |-> old_pos, to |-> new_pos])
        /\ pos' = new_pos
        /\ old_pos = pos /\ pos < new_pos
    BY <1>7 DEF grow_pos
  <2>2. pos \in Nat /\ new_pos \in Nat
    BY DEF RegionTypeOK
  <2> DEFINE x == [from |-> old_pos, to |-> new_pos]
  <2>3. x \in [from : Nat, to : Nat] /\ x.from = pos /\ x.to = new_pos
    BY <2>1, <2>2
  <2>4. RegionTypeOK /\ ExtentInv /\ extents' = Append(extents, x)
    BY <2>1
  <2> HIDE DEF x, RegionTypeOK, ExtentInv
  <2>5. pos <= x.from /\ x.from <= x.to /\ x.to <= pos' /\ pos' \in Nat
    BY <2>1, <2>2, <2>3
  <2> QED
    BY <2>3, <2>4, <2>5, ExtentAdded
<1>8. ASSUME NEW t \in Threads, NEW e \in Ends, ptr_load(t, e)
      PROVE  ExtentInv'
  BY <1>8 DEF ptr_load, Goto
<1>9. ASSUME NEW t \in Threads, ptr_ok(t)
      PROVE  ExtentInv'
  BY <1>9 DEF ptr_ok, Outside, Goto
<1>10. ASSUME NEW t \in Threads, ptr_fail(t)
      PROVE  ExtentInv'
  BY <1>10 DEF ptr_fail, Outside, Goto
<1>11. ASSUME NEW t \in Threads, ptr_return(t)
      PROVE  ExtentInv'
  BY <1>11 DEF ptr_return, Goto
<1>12. ASSUME UNCHANGED regionVars
      PROVE  ExtentInv'
  BY <1>12 DEF regionVars
<1> QED
  BY <1>1, <1>2, <1>3, <1>4, <1>5, <1>6, <1>7, <1>8, <1>9, <1>10, <1>11, <1>12
     DEF RegionNext, Grow, Deref

\* The inductive invariant holds in every reachable state.
THEOREM RegionInvariant == RegionSpec => []RegionInv
<1>1. RegionInit => RegionInv
  BY ThreadAssumption, LenAssumption, SizesAssumption
     DEF RegionInit, RegionInv, RegionTypeOK, PcStates, LockInv, Growing, PosInv, ReadInv,
         ExtentInv, GrowDisjoint
<1>2. RegionInv /\ [RegionNext]_regionVars => RegionInv'
  BY RegionTypeStep, LockStep, PosStep, ReadStep, ExtentStep DEF RegionInv
<1> QED
  BY <1>1, <1>2, PTL DEF RegionSpec

\* Every variable of a region keeps its type.
THEOREM RegionTypeCorrect == RegionSpec => []RegionTypeOK
<1>1. RegionInv => RegionTypeOK
  BY DEF RegionInv
<1> QED
  BY <1>1, RegionInvariant, PTL

\* A legitimate offset gives a pointer inside its mapping during any growth.
THEOREM AccessMapped == RegionSpec => []MappedAccess
<1>1. RegionInv => MappedAccess
  BY DEF RegionInv, ReadInv, MappedAccess
<1> QED
  BY <1>1, RegionInvariant, PTL

\* ... and is never refused.
THEOREM LegitNeverRefused == RegionSpec => []LegitResolves
<1>1. RegionInv => LegitResolves
  BY DEF RegionInv, ReadInv, LegitResolves
<1> QED
  BY <1>1, RegionInvariant, PTL

\* No mapping reaches past the end of the file.
THEOREM MappingsBacked == RegionSpec => []Backed
<1>1. RegionInv => Backed
  BY LenAssumption DEF RegionInv, RegionTypeOK, PosInv, Backed
<1> QED
  BY <1>1, RegionInvariant, PTL

\* region_grow hands out every part of the region once.
THEOREM ExtentsDisjoint == RegionSpec => []GrowDisjoint
<1>1. RegionInv => GrowDisjoint
  BY DEF RegionInv, ExtentInv
<1> QED
  BY <1>1, RegionInvariant, PTL

\* A legitimate pointer can be used: it is mapped, and the mapping is backed.
THEOREM AccessNeverFaults == RegionSpec => []AccessSound
<1>1. MappedAccess /\ Backed => AccessSound
  BY DEF AccessSound
<1> QED
  BY <1>1, AccessMapped, MappingsBacked, PTL
=============================================================================
