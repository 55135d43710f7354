----------------------------- MODULE EventStream ------------------------------
(***************************************************************************)
(* The event stream of one run (event_stream, _publish_snapshot and        *)
(* _handle_graph_progress in src/backend/app/research_service.py).         *)
(* Writers commit versions of the row and then publish a snapshot; each    *)
(* open stream has a bounded channel.  A lock per run is held by one       *)
(* publisher or one new reader at a time, from before its SELECT until the *)
(* snapshot is in the channels, or until the reader has its first one.     *)
(* A step of a writer or reader lies between two awaits.                   *)
(***************************************************************************)
EXTENDS Integers, Sequences, FiniteSets

CONSTANTS
    Readers,         \* client connections
    Writers,         \* coroutines that change the row
    Interruptible,   \* the writers that may be cancelled: the workers
    Nobody,          \* holder of a free lock
    ChannelSize,     \* 20 in the code
    LastVersion,     \* bound on the versions of the row
    Finals           \* the versions with a terminal status

ASSUME StreamAssumption ==
    /\ Interruptible \subseteq Writers
    /\ Readers \cap Writers = {}
    /\ Nobody \notin Readers \cup Writers
    /\ ChannelSize \in Nat \ {0}
    /\ LastVersion \in Nat \ {0}
    /\ Finals \subseteq 1..LastVersion
    /\ LastVersion \in Finals

VARIABLES
    row,        \* number of the version of the row last committed
    deleted,    \* the row has been deleted (retention)
    lock,       \* the publish lock of the run
    wpc,        \* what each writer does next
    wver,       \* the version it has committed
    wsnap,      \* the version it has read to publish
    missed,     \* versions whose writer never got to publish them
    channel,    \* the channel of each stream; an item is a version, or 0
    rpc,        \* what each stream does next
    rsnap,      \* its first snapshot
    seen        \* the newest version its client has been shown; 0: none

writerVars == <<wpc, wver, wsnap>>
readerVars == <<channel, rpc, rsnap, seen>>
vars == <<row, deleted, lock, missed, writerVars, readerVars>>

Feed == INSTANCE SnapshotFeed

(* The channels in _subscribers.                                           *)
Registered == {r \in Readers : rpc[r] \in {"load", "first", "loop"}}

Init ==
    /\ row = 1 /\ deleted = FALSE
    /\ lock = Nobody
    /\ wpc = [w \in Writers |-> "idle"]
    /\ wver = [w \in Writers |-> 0]
    /\ wsnap = [w \in Writers |-> 0]
    /\ missed = {}
    /\ channel = [r \in Readers |-> <<>>]
    /\ rpc = [r \in Readers |-> "off"]
    /\ rsnap = [r \in Readers |-> 0]
    /\ seen = [r \in Readers |-> 0]

-----------------------------------------------------------------------------
(* Writers.                                                                *)

Commit(w) ==
    /\ wpc[w] = "idle"
    /\ ~deleted /\ row < LastVersion
    /\ row' = row + 1
    /\ wver' = [wver EXCEPT ![w] = row + 1]
    /\ wpc' = [wpc EXCEPT ![w] = "lock"]
    /\ UNCHANGED <<deleted, lock, missed, wsnap, readerVars>>

(* A definition named Mutant... is a plausible slip in the definition that *)
(* follows it.  No specification uses it: replacing the definition by it   *)
(* shows which property would notice.                                      *)
MutantLockFree == lock \notin Readers
LockFree == lock = Nobody

Acquire(w) ==
    /\ wpc[w] = "lock"
    /\ LockFree
    /\ lock' = w
    /\ wpc' = [wpc EXCEPT ![w] = "load"]
    /\ UNCHANGED <<row, deleted, missed, wver, wsnap, readerVars>>

(* get: SELECT; nothing is published of a row that is gone.                *)
Load(w) ==
    /\ wpc[w] = "load"
    /\ IF deleted
       THEN /\ wpc' = [wpc EXCEPT ![w] = "idle"]
            /\ lock' = Nobody
            /\ UNCHANGED wsnap
       ELSE /\ wpc' = [wpc EXCEPT ![w] = "put"]
            /\ wsnap' = [wsnap EXCEPT ![w] = row]
            /\ UNCHANGED lock
    /\ UNCHANGED <<row, deleted, missed, wver, readerVars>>

(* A snapshot takes the place of the oldest item of a full channel ...     *)
MutantUnbounded(ch, v) == Append(ch, v)
MutantOffered(ch, v) == IF Len(ch) = ChannelSize THEN ch ELSE Append(ch, v)
Offered(ch, v) == Append(IF Len(ch) = ChannelSize THEN Tail(ch) ELSE ch, v)

Put(w) ==
    /\ wpc[w] = "put"
    /\ channel' = [r \in Readers |-> IF r \in Registered
                                     THEN Offered(channel[r], wsnap[w])
                                     ELSE channel[r]]
    /\ lock' = Nobody
    /\ wpc' = [wpc EXCEPT ![w] = "idle"]
    /\ UNCHANGED <<row, deleted, missed, wver, wsnap, rpc, rsnap, seen>>

(* A cancelled worker lets go of the lock and publishes nothing, and so    *)
(* does every writer whose read fails.                                     *)
Interrupted(w) ==
    /\ \/ w \in Interruptible /\ wpc[w] # "idle"
       \/ wpc[w] = "load"
    /\ wpc' = [wpc EXCEPT ![w] = "idle"]
    /\ lock' = IF lock = w THEN Nobody ELSE lock
    /\ missed' = missed \cup {wver[w]}
    /\ UNCHANGED <<row, deleted, wver, wsnap, readerVars>>

(* ... and a progress item is dropped if the channel is full.  It takes no *)
(* lock.                                                                   *)
Progress ==
    /\ channel' = [r \in Readers |->
                      IF r \in Registered /\ Len(channel[r]) < ChannelSize
                      THEN Append(channel[r], 0) ELSE channel[r]]
    /\ UNCHANGED <<row, deleted, lock, missed, writerVars, rpc, rsnap, seen>>

(* The daily cleanup deletes runs by age, whatever happens to them.        *)
Delete ==
    /\ ~deleted
    /\ deleted' = TRUE
    /\ UNCHANGED <<row, lock, missed, writerVars, readerVars>>

-----------------------------------------------------------------------------
(* Streams.                                                                *)

(* research_events: 404 if there is no row, else start the generator.      *)
Connect(r) ==
    /\ rpc[r] = "off"
    /\ ~deleted
    /\ rpc' = [rpc EXCEPT ![r] = "lock"]
    /\ UNCHANGED <<row, deleted, lock, missed, writerVars, channel, rsnap, seen>>

Register(r) ==
    /\ rpc[r] = "lock"
    /\ LockFree
    /\ lock' = r
    /\ rpc' = [rpc EXCEPT ![r] = "load"]
    /\ UNCHANGED <<row, deleted, missed, writerVars, channel, rsnap, seen>>

(* The finally block: the channel leaves _subscribers.                     *)
Close(r) ==
    /\ rpc' = [rpc EXCEPT ![r] = "off"]
    /\ channel' = [channel EXCEPT ![r] = <<>>]

LoadFirst(r) ==
    /\ rpc[r] = "load"
    /\ lock' = Nobody
    /\ IF deleted
       THEN Close(r) /\ UNCHANGED rsnap
       ELSE /\ rpc' = [rpc EXCEPT ![r] = "first"]
            /\ rsnap' = [rsnap EXCEPT ![r] = row]
            /\ UNCHANGED channel
    /\ UNCHANGED <<row, deleted, missed, writerVars, seen>>

YieldFirst(r) ==
    /\ rpc[r] = "first"
    /\ seen' = [seen EXCEPT ![r] = rsnap[r]]
    /\ IF rsnap[r] \in Finals THEN Close(r)
       ELSE rpc' = [rpc EXCEPT ![r] = "loop"] /\ UNCHANGED channel
    /\ UNCHANGED <<row, deleted, lock, missed, writerVars, rsnap>>

(* channel.get and yield.  A timeout of get yields a heartbeat and changes *)
(* nothing.                                                                *)
Take(r) ==
    /\ rpc[r] = "loop"
    /\ channel[r] # <<>>
    /\ LET item == Head(channel[r])
       IN /\ seen' = IF item = 0 THEN seen ELSE [seen EXCEPT ![r] = item]
          /\ IF item \in Finals THEN Close(r)
             ELSE channel' = [channel EXCEPT ![r] = Tail(@)] /\ UNCHANGED rpc
    /\ UNCHANGED <<row, deleted, lock, missed, writerVars, rsnap>>

(* The client goes away, or the connection breaks.                         *)
Disconnect(r) ==
    /\ rpc[r] # "off"
    /\ Close(r)
    /\ lock' = IF lock = r THEN Nobody ELSE lock
    /\ UNCHANGED <<row, deleted, missed, writerVars, rsnap, seen>>

WriterStep(w) == Acquire(w) \/ Load(w) \/ Put(w)
ReaderStep(r) == Register(r) \/ LoadFirst(r) \/ YieldFirst(r) \/ Take(r)

Next ==
    \/ \E w \in Writers : Commit(w) \/ WriterStep(w) \/ Interrupted(w)
    \/ \E r \in Readers : Connect(r) \/ ReaderStep(r) \/ Disconnect(r)
    \/ Progress
    \/ Delete

Spec == Init /\ [][Next]_vars

(* The event loop runs what is ready.  asyncio.Lock serves its waiters in  *)
(* order, so a waiter gets it although others keep coming: strong fairness.*)
(* A connected client reads.  Nobody needs to commit, connect, break off,  *)
(* report progress, cancel or delete.                                      *)
Fairness ==
    /\ \A w \in Writers : SF_vars(Acquire(w)) /\ WF_vars(Load(w) \/ Put(w))
    /\ \A r \in Readers :
          /\ SF_vars(Register(r))
          /\ WF_vars(LoadFirst(r) \/ YieldFirst(r) \/ Take(r))

FairSpec == Spec /\ Fairness

-----------------------------------------------------------------------------
Typed ==
    /\ row \in 1..LastVersion
    /\ deleted \in BOOLEAN
    /\ lock \in Readers \cup Writers \cup {Nobody}
    /\ wpc \in [Writers -> {"idle", "lock", "load", "put"}]
    /\ wver \in [Writers -> 0..LastVersion]
    /\ wsnap \in [Writers -> 0..LastVersion]
    /\ missed \subseteq 0..LastVersion
    /\ channel \in [Readers -> Seq(0..LastVersion)]
    /\ rpc \in [Readers -> {"off", "lock", "load", "first", "loop"}]
    /\ rsnap \in [Readers -> 0..LastVersion]
    /\ seen \in [Readers -> 0..LastVersion]

LockInv ==
    /\ \A w \in Writers : wpc[w] \in {"load", "put"} <=> lock = w
    /\ \A r \in Readers : rpc[r] = "load" <=> lock = r

(* Every variable holds a value the service can give it, and exactly the   *)
(* holder of the lock, if there is one, is reading the row for the streams *)
(* or about to publish.                                                    *)
TypeOK == Typed /\ LockInv

(* No channel outgrows its size: put_nowait never raises QueueFull, which  *)
(* would break off the publication for the remaining streams and turn the  *)
(* run into a failed one.                                                  *)
ChannelsFit == \A r \in Readers : Len(channel[r]) <= ChannelSize

(* A reader is shown newer and newer versions, also over several           *)
(* connections: no snapshot read early arrives late, whatever the channel  *)
(* drops and however publishers and new readers interleave.                *)
ShowsInOrder == Feed!Spec

(* Some snapshot the reader has seen or is about to be given is as new as  *)
(* version v.                                                              *)
Reaches(r, v) ==
    \/ seen[r] >= v
    \/ rpc[r] = "first" /\ rsnap[r] >= v
    \/ \E i \in 1..Len(channel[r]) : channel[r][i] >= v

(* Version v is with its writer still, or that one will never publish it.  *)
WithWriter(v) ==
    \/ \E w \in Writers : wpc[w] # "idle" /\ wver[w] = v
    \/ v \in missed

(* No update is lost: the newest version is in the hands of its writer, or *)
(* on its way to every open stream, unless its writer was interrupted.     *)
NoUpdateLost ==
    \A r \in Readers :
        rpc[r] \in {"first", "loop"} /\ ~deleted =>
            Reaches(r, row) \/ WithWriter(row)

(* The last version, a final one, ends every open stream: nobody is left   *)
(* with heartbeats.  Exceptions are a writer that was interrupted before   *)
(* it published, and a row that was deleted.                               *)
StreamsEnd ==
    \A r \in Readers :
        row = LastVersion /\ rpc[r] # "off"
            ~> rpc[r] = "off" \/ deleted \/ LastVersion \in missed
=============================================================================
