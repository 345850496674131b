----------------------------- MODULE RegionFile -----------------------------
(***************************************************************************)
(* The life of a region as a file of /dev/shm: region_create, region_open, *)
(* region_close and region_unlink of region.c, under optics_create_at,     *)
(* optics_open, optics_close and optics_unlink_all of optics.c.            *)
(*                                                                         *)
(* Client processes create and close regions, and may die; a name can be   *)
(* used by several of them, and is all that ties a process to a file when  *)
(* it unlinks.  A poller opens what it finds by name, at any moment of the *)
(* creation.  A file outlives its name as long as a process maps it.       *)
(*                                                                         *)
(* Of the contents of a region the model keeps how far its header has been *)
(* written, the epoch and its time, and one counting lens.  The accesses   *)
(* to the epoch and its time are steps of their own: the two of a record,  *)
(* the one that ends a creation, and the three of a poll.                  *)
(***************************************************************************)
EXTENDS Naturals, FiniteSets

CONSTANTS
    Clients,    \* processes that create regions
    Names,      \* names they use
    MaxFiles,   \* bound on the files ever created
    MaxTime,    \* bound on the wall clock
    MaxEvents,  \* bound on the events that are not yet drained
    NoFile

ASSUME NamesAssumption == Names # {}
ASSUME BoundsAssumption == MaxFiles \in Nat /\ MaxTime \in Nat \ {0} /\ MaxEvents \in Nat /\ NoFile \notin Nat

VARIABLES
    dir,             \* the file a name stands for
    stage,           \* per file: how far region_create and optics_create_at got
    epoch,           \* per file: header->epoch & 1
    epoch_last_inc,  \* per file: header->epoch_last_inc, 0 in a new file
    slot,            \* per file and epoch: the events counted there
    now,             \* the wall clock, in seconds
    cpc, fd, name,    \* per client: its region
    started,         \* per client: the time optics_create took before it began
    rec,             \* per client: the event at hand, with the epoch it loaded
    ppc, pfile, last_poll, pepoch, ts,  \* the poller, with one region at hand
    \* history variables
    left,            \* files whose creator died or could not close them
    created,         \* per file: argument now of optics_create_at
    early,           \* per file: 2 when its creation ended inside a poll, 1 after
                     \* that poll, 0 after the next one that read it
    flipped          \* the time of the poller's latest flip

fileVars == <<dir, stage, epoch, epoch_last_inc, slot>>
clientVars == <<cpc, fd, name, started, rec>>
pollVars == <<ppc, pfile, last_poll, pepoch, ts>>
history == <<left, created, early, flipped>>
vars == <<fileVars, now, clientVars, pollVars, history>>

Files == 1 .. MaxFiles
\* An event is late when the poll that should have drained it was over.
Event == [epoch : {0, 1}, time : 0 .. MaxTime, late : BOOLEAN]
NoEvent == [epoch |-> 0, time |-> 0, late |-> FALSE]
AnyName == CHOOSE n \in Names : TRUE
Stages == {"none", "empty", "sized", "version", "prefix", "complete"}

TypeOK ==
    /\ dir \in [Names -> Files \cup {NoFile}]
    /\ stage \in [Files -> Stages]
    /\ epoch \in [Files -> {0, 1}]
    /\ epoch_last_inc \in [Files -> 0 .. MaxTime]
    /\ slot \in [Files -> [{0, 1} -> SUBSET Event]]
    /\ now \in 1 .. MaxTime
    /\ cpc \in [Clients -> {"idle", "open", "header", "live", "add"}]
    /\ fd \in [Clients -> Files \cup {NoFile}]
    /\ name \in [Clients -> Names]
    /\ started \in [Clients -> 0 .. MaxTime]
    /\ rec \in [Clients -> Event]
    /\ created \in [Files -> 0 .. MaxTime]
    /\ early \in [Files -> 0 .. 2]
    /\ flipped \in 0 .. MaxTime
    /\ ppc \in {"idle", "list", "check", "flip", "store", "inc", "read"}
    /\ pfile \in Files \cup {NoFile}
    /\ last_poll \in 0 .. MaxTime /\ ts \in 0 .. MaxTime
    /\ pepoch \in {0, 1}
    /\ left \subseteq Files

Init ==
    /\ dir = [n \in Names |-> NoFile]
    /\ stage = [i \in Files |-> "none"]
    /\ epoch = [i \in Files |-> 0]
    /\ epoch_last_inc = [i \in Files |-> 0]
    /\ slot = [i \in Files |-> [e \in {0, 1} |-> {}]]
    /\ now = 1
    /\ cpc = [c \in Clients |-> "idle"]
    /\ fd = [c \in Clients |-> NoFile]
    /\ name = [c \in Clients |-> AnyName]
    /\ started = [c \in Clients |-> 0]
    /\ rec = [c \in Clients |-> NoEvent]
    /\ ppc = "idle" /\ pfile = NoFile /\ last_poll = 0 /\ pepoch = 0 /\ ts = 0
    /\ left = {}
    /\ created = [i \in Files |-> 0]
    /\ early = [i \in Files |-> 0]
    /\ flipped = 0

-----------------------------------------------------------------------------
\* shm_unlink: the name goes, the file stays for those who have it open.
Unlinked(n) == [dir EXCEPT ![n] = NoFile]

\* The client is left without a region.
Released(c) ==
    /\ cpc' = [cpc EXCEPT ![c] = "idle"]
    /\ fd' = [fd EXCEPT ![c] = NoFile]
    /\ name' = [name EXCEPT ![c] = AnyName]
    /\ started' = [started EXCEPT ![c] = 0]
    /\ rec' = [rec EXCEPT ![c] = NoEvent]

\* optics_create_at, region_create: a file that is left over is wiped.
create_wipe(c, n) ==
    /\ cpc[c] = "idle"
    /\ started' = [started EXCEPT ![c] = now]
    /\ name' = [name EXCEPT ![c] = n]
    /\ dir' = Unlinked(n)
    /\ cpc' = [cpc EXCEPT ![c] = "open"]
    /\ UNCHANGED <<stage, epoch, epoch_last_inc, slot, now, fd, rec, pollVars, history>>

\* Faulty variant: without O_EXCL a file of that name is opened.
OpenExcl_shared(c) == TRUE

OpenExcl(c) == dir[name[c]] = NoFile

\* shm_open, O_CREAT | O_EXCL.
create_open(c) ==
    /\ cpc[c] = "open"
    /\ IF ~OpenExcl(c)
       THEN Released(c) /\ UNCHANGED <<dir, stage, created>>
       ELSE \E i \in Files :
            /\ IF dir[name[c]] # NoFile THEN i = dir[name[c]]
               ELSE stage[i] = "none" /\ \A j \in 1 .. (i - 1) : stage[j] # "none"
            /\ dir' = [dir EXCEPT ![name[c]] = i]
            /\ stage' = [stage EXCEPT ![i] = "empty"]
            /\ created' = [created EXCEPT ![i] = started[c]]
            /\ fd' = [fd EXCEPT ![c] = i]
            /\ cpc' = [cpc EXCEPT ![c] = "header"]
            /\ UNCHANGED <<name, started, rec>>
    /\ UNCHANGED <<epoch, epoch_last_inc, slot, now, pollVars,
                   left, early, flipped>>

\* The error paths of region_create close the file and unlink the name.
Failed(c) == Released(c) /\ dir' = Unlinked(name[c])

\* Faulty variant: the owner does not unlink the name.
region_close_left(c) == Released(c) /\ UNCHANGED <<dir, left>>

\* region_close of an owner: what has its name is unlinked, whoever created
\* that; but when munmap or close fails it returns before it gets there.
region_close(c) ==
    \/ Failed(c) /\ UNCHANGED left
    \/ Released(c) /\ left' = left \cup {fd[c]} /\ UNCHANGED dir

\* ftruncate and mmap; either can fail.
create_map(c) ==
    /\ cpc[c] = "header" /\ stage[fd[c]] = "empty"
    /\ \/ Failed(c) /\ UNCHANGED stage
       \/ stage' = [stage EXCEPT ![fd[c]] = "sized"] /\ UNCHANGED <<dir, clientVars>>
    /\ UNCHANGED <<epoch, epoch_last_inc, slot, now, pollVars, history>>

\* The header: magic and version, without both of which optics_open refuses the
\* file, and the prefix.  Either may fail: when region_ptr_unsafe refuses the
\* header, and when the name does not fit the prefix.
create_header(c) ==
    /\ cpc[c] = "header"
    /\ LET next == [sized |-> "version", version |-> "prefix"]
       IN  /\ stage[fd[c]] \in DOMAIN next
           /\ \/ region_close(c) /\ UNCHANGED stage
              \/ /\ stage' = [stage EXCEPT ![fd[c]] = next[@]]
                 /\ UNCHANGED <<dir, clientVars, left>>
    /\ UNCHANGED <<epoch, epoch_last_inc, slot, now, pollVars, created, early, flipped>>

\* Faulty variant: the time of the creation is not stored.
FirstInc_missing(c) == epoch_last_inc[fd[c]]

FirstInc(c) == started[c]

\* alloc_init and the time: a poll that got in first has left its own there,
\* or is about to.
create_finish(c) ==
    /\ cpc[c] = "header" /\ stage[fd[c]] = "prefix"
    /\ stage' = [stage EXCEPT ![fd[c]] = "complete"]
    /\ epoch_last_inc' = [epoch_last_inc EXCEPT ![fd[c]] = FirstInc(c)]
    /\ cpc' = [cpc EXCEPT ![c] = "live"]
    /\ early' = [early EXCEPT ![fd[c]] = IF ppc = "idle" THEN 0 ELSE 2]
    /\ started' = [started EXCEPT ![c] = 0]
    /\ UNCHANGED <<dir, epoch, slot, now, fd, name, rec, pollVars, left, created, flipped>>

\* The events recorded and not yet drained.
Pending ==
    {d \in Clients : cpc[d] = "add"} \cup
    UNION {{i} \X (slot[i][0] \cup slot[i][1]) : i \in Files}

\* An event of the client's lens: optics_counter_inc loads the epoch,
record(c) ==
    /\ cpc[c] = "live"
    /\ Cardinality(Pending) < MaxEvents
    /\ cpc' = [cpc EXCEPT ![c] = "add"]
    /\ rec' = [rec EXCEPT ![c] = [epoch |-> epoch[fd[c]], time |-> now, late |-> FALSE]]
    /\ UNCHANGED <<fileVars, now, fd, name, started, pollVars, history>>

\* and lens_counter_inc adds to that slot, however many polls have passed.
record_add(c) ==
    /\ cpc[c] = "add"
    /\ cpc' = [cpc EXCEPT ![c] = "live"]
    /\ slot' = [slot EXCEPT ![fd[c]][rec[c].epoch] = @ \cup {rec[c]}]
    /\ rec' = [rec EXCEPT ![c] = NoEvent]
    /\ UNCHANGED <<dir, stage, epoch, epoch_last_inc, now, fd, name, started, pollVars, history>>

\* optics_close does not look at what region_close returns.
optics_close(c) ==
    /\ cpc[c] = "live"
    /\ region_close(c)
    /\ UNCHANGED <<stage, epoch, epoch_last_inc, slot, now, pollVars,
                   created, early, flipped>>

\* The client dies wherever it is, and leaves its file behind.
crash(c) ==
    /\ cpc[c] # "idle"
    /\ left' = IF fd[c] = NoFile THEN left ELSE left \cup {fd[c]}
    /\ Released(c)
    /\ UNCHANGED <<fileVars, now, pollVars, created, early, flipped>>

\* optics_unlink, or optics_unlink_all, whose callback ends the enumeration
\* after one file: either way one name goes.
optics_unlink(n) ==
    /\ dir[n] # NoFile
    /\ dir' = Unlinked(n)
    /\ UNCHANGED <<stage, epoch, epoch_last_inc, slot, now, clientVars, pollVars, history>>

tick ==
    /\ now < MaxTime
    /\ now' = now + 1
    /\ UNCHANGED <<fileVars, clientVars, pollVars, history>>

-----------------------------------------------------------------------------
(* A poll, with optics_open and region_open of one region.                  *)

\* optics_poller_poll reads the clock before it lists the regions.
poll_begin ==
    /\ ppc = "idle"
    /\ ppc' = "list" /\ ts' = now
    /\ UNCHANGED <<fileVars, now, clientVars, pfile, last_poll, pepoch, history>>

poll_open(n) ==
    /\ ppc = "list"
    /\ dir[n] # NoFile
    /\ ppc' = "check" /\ pfile' = dir[n]
    /\ UNCHANGED <<fileVars, now, clientVars, last_poll, pepoch, ts, history>>

\* mmap refuses an empty file, then come the magic number and the version.
Opens(i) == stage[i] \in {"version", "prefix", "complete"}

\* The poll is over; those in read have read their region.
Forget(read) ==
    /\ ppc' = "idle" /\ pfile' = NoFile /\ ts' = 0 /\ last_poll' = 0 /\ pepoch' = 0
    /\ flipped' = 0
    /\ early' = [i \in Files |-> IF early[i] = 2 THEN 1 ELSE IF i \in read THEN 0 ELSE early[i]]

\* There is nothing to poll.
poll_none ==
    /\ ppc = "list"
    /\ \A n \in Names : dir[n] = NoFile
    /\ Forget({})
    /\ UNCHANGED <<fileVars, now, clientVars, left, created>>

poll_check ==
    /\ ppc = "check"
    /\ IF Opens(pfile) THEN ppc' = "flip" /\ UNCHANGED <<pfile, ts, last_poll, pepoch, early, flipped>>
       ELSE Forget({})
    /\ UNCHANGED <<fileVars, now, clientVars, left, created>>

\* optics_epoch_inc_at loads the time of the last poll,
poll_last ==
    /\ ppc = "flip"
    /\ ppc' = "store"
    /\ last_poll' = epoch_last_inc[pfile]
    /\ UNCHANGED <<fileVars, now, clientVars, pfile, pepoch, ts, history>>

\* stores its own,
poll_store ==
    /\ ppc = "store"
    /\ ppc' = "inc"
    /\ epoch_last_inc' = [epoch_last_inc EXCEPT ![pfile] = ts]
    /\ ts' = 0
    /\ UNCHANGED <<dir, stage, epoch, slot, now, clientVars, pfile, last_poll, pepoch, history>>

Flipped(e) == (e + 1) % 2

\* and increments the epoch.  (The load by which it first finds the deferred
\* frees of the idle epoch is of no account here: see LensList.)
poll_flip ==
    /\ ppc = "inc"
    /\ ppc' = "read"
    /\ pepoch' = epoch[pfile]
    /\ epoch' = [epoch EXCEPT ![pfile] = Flipped(@)]
    /\ flipped' = now
    /\ UNCHANGED <<dir, stage, epoch_last_inc, slot, now, clientVars, pfile, last_poll, ts,
                   left, created, early>>

\* The nap is over, and the slot is drained; or the walk over the lenses breaks
\* off before it, and the events stay for a later poll.  Then the region is
\* closed, by one that does not own it.
poll_read ==
    /\ ppc = "read"
    /\ \/ slot' = [slot EXCEPT ![pfile][pepoch] = {}]
       \/ slot' = [slot EXCEPT ![pfile][pepoch] = {[v EXCEPT !.late = TRUE] : v \in @}]
    /\ rec' = [c \in Clients |->
                  IF cpc[c] = "add" /\ fd[c] = pfile /\ rec[c].epoch = pepoch
                  THEN [rec[c] EXCEPT !.late = TRUE] ELSE rec[c]]
    /\ Forget({pfile})
    /\ UNCHANGED <<dir, stage, epoch, epoch_last_inc, now, cpc, fd, name, started,
                   left, created>>

Next ==
    \/ \E c \in Clients :
        \/ \E n \in Names : create_wipe(c, n)
        \/ create_open(c) \/ create_map(c) \/ create_header(c) \/ create_finish(c)
        \/ record(c) \/ record_add(c) \/ optics_close(c) \/ crash(c)
    \/ \E n \in Names : optics_unlink(n) \/ poll_open(n)
    \/ poll_begin \/ poll_none \/ poll_check \/ poll_last \/ poll_store \/ poll_flip \/ poll_read
    \/ tick

Spec == Init /\ [][Next]_vars

-----------------------------------------------------------------------------
(* Properties.                                                              *)

\* Two processes never own the same file, however their creations of one name
\* interleave: the wipe and the exclusive creation are two calls.  And no file
\* is in a state that region_create and optics_create_at do not take it to.
OneOwner ==
    /\ TypeOK
    /\ \A c, d \in Clients : c # d /\ fd[c] # NoFile => fd[c] # fd[d]

\* A name stands for a file whose creator still uses it, died, or could not
\* unmap or close it: whatever else fails, and in whatever order two users of a
\* name come and go, none leaves a file for pollers to find.
NoLeftover ==
    \A n \in Names : dir[n] # NoFile =>
        dir[n] \in left \/ \E c \in Clients : fd[c] = dir[n]

\* The events that a poll takes from a region belong to the window it divides
\* them by.  None began after the flip, and none before the last poll, unless
\* its record, or the walk of a poll, was too late for the poll that should
\* have taken it.  The window does not reach back beyond the creation of the
\* region, unless that ended inside this poll or the one before it: then the
\* time the poll finds can be none yet, or that of a poll that began earlier.
WindowSound ==
    ppc = "read" =>
        /\ \A v \in slot[pfile][pepoch] :
              v.time <= flipped /\ (v.late \/ last_poll <= v.time)
        /\ stage[pfile] = "complete" /\ early[pfile] = 0 => created[pfile] <= last_poll
=============================================================================
