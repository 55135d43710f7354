---------------------------- MODULE Maintenance -----------------------------
(***************************************************************************)
(* Retention (src/backend/app/maintenance.py and the lifespan in main.py): *)
(* at startup and once a day the runs older than the retention period are  *)
(* deleted, their rows from the one database and the checkpoints of their  *)
(* graphs from the other, while requests and workers use both.  At startup *)
(* the examples shown on the home page are brought up to date as well.     *)
(*                                                                         *)
(* The rows are deleted in a transaction that is committed after the       *)
(* checkpoints are gone; until then it holds the write lock of the rows.   *)
(* Checkpoints are deleted one by one, each at once and for good.          *)
(*                                                                         *)
(* Of a run only what the cleanup touches is kept: see ResearchService for *)
(* the rest.  Examples are runs too, written whole by the startup; all     *)
(* that can differ in one is the version of the program that wrote it.  An *)
(* orderly stop is a crash here: it rolls back as well.                    *)
(***************************************************************************)
EXTENDS Integers, FiniteSets

CONSTANTS
    Runs,
    Examples,
    LastVersion,
    ExamplesOf       \* the examples of a version

ASSUME MaintenanceAssumption ==
    /\ Runs \cap Examples = {}
    /\ IsFiniteSet(Examples)
    /\ LastVersion \in Nat \ {0}
    /\ ExamplesOf \in [1..LastVersion -> SUBSET Examples]

VARIABLES
    row,         \* "none" before its creation, "gone" after its deletion
    example,     \* the version an example was written by, 0 if there is none
    version,     \* of the program
    old,         \* the runs created before the cutoff
    checkpoint,  \* the runs with checkpoints
    worker,      \* what the worker of a run does
    server,
    cleanup,     \* the deletion under way
    overtaken    \* history: runs cleaned up while a graph was at work

vars == <<row, example, version, old, checkpoint, worker, server, cleanup, overtaken>>

(* on: it holds the lock; pending: checkpoints it still has to delete;     *)
(* daily: the task that repeats it is alive.                               *)
NoCleanup(daily) ==
    [on |-> FALSE, expired |-> {}, pending |-> {}, daily |-> daily]

Init ==
    /\ row = [r \in Runs |-> "none"]
    /\ example = [e \in Examples |-> 0]
    /\ version = 1
    /\ old = {} /\ checkpoint = {} /\ overtaken = {}
    /\ worker = [r \in Runs |-> "off"]
    /\ server = "down"
    /\ cleanup = NoCleanup(FALSE)

Present(r) == IF r \in Examples THEN example[r] # 0
              ELSE row[r] \notin {"none", "gone"}

examples == <<example, version>>

-----------------------------------------------------------------------------
(* Requests and workers.                                                   *)

(* Somebody may commit a change of a row.                                  *)
CanWrite == server = "up" /\ ~cleanup.on

Create(r) ==
    /\ CanWrite
    /\ row[r] = "none"
    /\ row' = [row EXCEPT ![r] = "active"]
    /\ worker' = [worker EXCEPT ![r] = "planning"]
    /\ UNCHANGED <<examples, old, checkpoint, server, cleanup, overtaken>>

InGraph(r) == worker[r] \in {"planning", "researching"}

(* The graph saves its state after every node.                             *)
SaveCheckpoint(r) ==
    /\ InGraph(r)
    /\ checkpoint' = checkpoint \cup {r}
    /\ UNCHANGED <<examples, row, old, worker, server, cleanup, overtaken>>

(* The planning graph stops at the review, its last act being to save its  *)
(* state.                                                                  *)
PlanReady(r) ==
    /\ worker[r] = "planning"
    /\ worker' = [worker EXCEPT ![r] = "planned"]
    /\ checkpoint' = checkpoint \cup {r}
    /\ UNCHANGED <<examples, row, old, server, cleanup, overtaken>>

(* A graph fails, or the research graph is through.                        *)
GraphEnds(r) ==
    /\ InGraph(r)
    /\ worker' = [worker EXCEPT ![r] = "over"]
    /\ UNCHANGED <<examples, row, old, checkpoint, server, cleanup, overtaken>>

(* The worker stores the outcome, unless the row is gone.                  *)
StoreOutcome(r) ==
    /\ CanWrite
    /\ worker[r] \in {"planned", "over"}
    /\ row' = [row EXCEPT ![r] = IF ~Present(r) THEN @
                                 ELSE IF worker[r] = "planned" THEN "review"
                                 ELSE "done"]
    /\ worker' = [worker EXCEPT ![r] = "off"]
    /\ UNCHANGED <<examples, old, checkpoint, server, cleanup, overtaken>>

(* A writer that waits for the lock for more than 5 s gets an error.  The  *)
(* worker then stores a failure, and gives up if that takes too long too.  *)
LockTimeout(r) ==
    /\ cleanup.on
    /\ \/ worker[r] = "planned" /\ worker' = [worker EXCEPT ![r] = "over"]
       \/ worker[r] = "over" /\ worker' = [worker EXCEPT ![r] = "off"]
    /\ UNCHANGED <<examples, row, old, checkpoint, server, cleanup, overtaken>>

(* The plan is confirmed.  The graph continues from its checkpoint; where  *)
(* there is none it has nothing to do.                                     *)
Confirm(r) ==
    /\ CanWrite
    /\ row[r] = "review"
    /\ row' = [row EXCEPT ![r] = "active"]
    /\ worker' = [worker EXCEPT ![r] =
                    IF r \in checkpoint THEN "researching" ELSE "over"]
    /\ UNCHANGED <<examples, old, checkpoint, server, cleanup, overtaken>>

(* The retention period is days, planning takes minutes; but a run may be  *)
(* confirmed on its last day.                                              *)
Age(r) ==
    /\ Present(r) /\ r \notin old
    /\ r \in Runs => worker[r] \notin {"planning", "planned"}
    /\ old' = old \cup {r}
    /\ UNCHANGED <<examples, row, checkpoint, worker, server, cleanup, overtaken>>

-----------------------------------------------------------------------------
(* The cleanup, and the startup it is part of.                             *)

(* A definition named Mutant... is a plausible slip in the definition that *)
(* follows it.  No specification uses it: replacing the definition by it   *)
(* shows which property would notice.                                      *)
MutantIsShowcase(r) == FALSE
IsShowcase(r) == r \in Examples

MutantExpired(r) == Present(r) /\ ~IsShowcase(r)
Expired(r) == Present(r) /\ r \in old /\ ~IsShowcase(r)

Begun ==
    LET expired == {r \in Runs \cup Examples : Expired(r)}
    IN  [ on |-> TRUE, expired |-> expired, pending |-> expired,
          daily |-> cleanup.daily ]

Startup ==
    /\ server = "down"
    /\ server' = "starting"
    /\ cleanup' = Begun
    /\ UNCHANGED <<examples, row, old, checkpoint, worker, overtaken>>

DailyCleanup ==
    /\ server = "up" /\ cleanup.daily /\ ~cleanup.on
    /\ cleanup' = Begun
    /\ UNCHANGED <<examples, row, old, checkpoint, worker, server, overtaken>>

DeleteCheckpoint(r) ==
    /\ cleanup.on /\ r \in cleanup.pending
    /\ checkpoint' = checkpoint \ {r}
    /\ cleanup' = [cleanup EXCEPT !.pending = @ \ {r}]
    /\ overtaken' = IF r \in Runs /\ InGraph(r) THEN overtaken \cup {r} ELSE overtaken
    /\ UNCHANGED <<examples, row, old, worker, server>>

MutantCheckpointsGone == TRUE
CheckpointsGone == cleanup.pending = {}

Recovered(r) == IF row[r] = "active" THEN "done" ELSE row[r]

(* The examples the database holds once the cleanup has deleted from it.   *)
Kept(e) == IF e \in cleanup.expired THEN 0 ELSE example[e]
Existing == {e \in Examples : Kept(e) # 0}

MutantSeeded == \A e \in Existing : Kept(e) = version
Seeded ==
    /\ Cardinality(Existing) = Cardinality(ExamplesOf[version])
    /\ \A e \in Existing : e \in ExamplesOf[version] /\ Kept(e) = version

(* Examples are left alone if they are those of the program, each as the   *)
(* program has it; otherwise all are deleted and written anew.             *)
Reseeds == server = "starting" /\ ~Seeded

(* At startup the recovery of interrupted runs and the examples are in the *)
(* same transaction.                                                       *)
CommitCleanup ==
    /\ cleanup.on /\ CheckpointsGone
    /\ row' = [r \in Runs |->
                 IF r \in cleanup.expired THEN "gone"
                 ELSE IF server = "starting" THEN Recovered(r)
                 ELSE row[r]]
    /\ example' = [e \in Examples |->
                     IF ~Reseeds THEN Kept(e)
                     ELSE IF e \in ExamplesOf[version] THEN version ELSE 0]
    /\ old' = (old \ cleanup.expired) \ (IF Reseeds THEN Examples ELSE {})
    /\ server' = "up"
    /\ cleanup' = NoCleanup(TRUE)
    /\ UNCHANGED <<version, checkpoint, worker, overtaken>>

MutantNextCycle == FALSE
NextCycle == cleanup.daily

(* An error of either database rolls the rows back.  The daily cleanup is  *)
(* tried again the next day; a startup fails.                              *)
CleanupFails ==
    /\ cleanup.on
    /\ cleanup' = NoCleanup(NextCycle)
    /\ server' = IF server = "starting" THEN "down" ELSE server
    /\ UNCHANGED <<examples, row, old, checkpoint, worker, overtaken>>

Crash ==
    /\ server # "down"
    /\ server' = "down"
    /\ cleanup' = NoCleanup(FALSE)
    /\ worker' = [r \in Runs |-> "off"]
    /\ UNCHANGED <<examples, row, old, checkpoint, overtaken>>

(* A newer program is installed.                                           *)
Upgrade ==
    /\ server = "down"
    /\ version < LastVersion
    /\ version' = version + 1
    /\ UNCHANGED <<row, example, old, checkpoint, worker, server, cleanup, overtaken>>

Next ==
    \/ \E r \in Runs :
          \/ Create(r)
          \/ SaveCheckpoint(r)
          \/ PlanReady(r)
          \/ GraphEnds(r)
          \/ StoreOutcome(r)
          \/ LockTimeout(r)
          \/ Confirm(r)
    \/ \E r \in Runs \cup Examples : Age(r) \/ DeleteCheckpoint(r)
    \/ Startup
    \/ DailyCleanup
    \/ CommitCleanup
    \/ CleanupFails
    \/ Crash
    \/ Upgrade

Spec == Init /\ [][Next]_vars

(* The service is restarted, the cleanup runs every day, and its steps are *)
(* calls that return.                                                      *)
Fairness ==
    /\ WF_vars(Startup)
    /\ WF_vars(DailyCleanup)
    /\ WF_vars(CommitCleanup)
    /\ \A r \in Runs \cup Examples : WF_vars(DeleteCheckpoint(r))

FairSpec == Spec /\ Fairness

-----------------------------------------------------------------------------
(* Every variable holds a value the code can give it; a cleanup is about   *)
(* expired runs that are no examples; a stopped server does nothing.       *)
TypeOK ==
    /\ row \in [Runs -> {"none", "active", "review", "done", "gone"}]
    /\ example \in [Examples -> 0..LastVersion]
    /\ version \in 1..LastVersion
    /\ old \subseteq {r \in Runs \cup Examples : Present(r)}
    /\ checkpoint \subseteq Runs
    /\ worker \in [Runs -> {"off", "planning", "planned", "researching", "over"}]
    /\ server \in {"down", "starting", "up"}
    /\ cleanup \in [ on : BOOLEAN, expired : SUBSET (old \ Examples),
                     pending : SUBSET cleanup.expired, daily : BOOLEAN ]
    /\ overtaken \subseteq Runs
    /\ server # "up" => /\ \A r \in Runs : worker[r] = "off"
                        /\ ~cleanup.daily
    /\ server = "down" => ~cleanup.on

(* The two databases agree: when a run is deleted its checkpoints are      *)
(* deleted too, wherever an error or a crash interrupts the cleanup, as    *)
(* long as no graph was working on the run at that moment.                 *)
NothingIsLeftBehind ==
    \A r \in checkpoint : row[r] = "gone" => r \in overtaken

(* A plan under review can be researched: its graph has a checkpoint to    *)
(* continue from, unless the run has expired and a cleanup of it was       *)
(* interrupted.                                                            *)
ReviewCanResume ==
    \A r \in Runs : row[r] = "review" /\ r \notin old => r \in checkpoint

(* While the service runs, the examples are those of the program, all of   *)
(* them and no others, whatever an earlier version left behind, however    *)
(* often a startup failed, and however old they get.                       *)
ExamplesAreCurrent ==
    server = "up" =>
        \A e \in Examples :
            example[e] = IF e \in ExamplesOf[version] THEN version ELSE 0

(* Once errors and crashes stop, every expired run is deleted: a cleanup   *)
(* that fails is tried again.                                              *)
ExpiredIsDeleted ==
    <>[][~CleanupFails /\ ~Crash]_vars =>
        \A r \in Runs : r \in old ~> row[r] = "gone"
=============================================================================
