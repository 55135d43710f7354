--------------------------- MODULE ResearchService ---------------------------
(***************************************************************************)
(* ResearchService (src/backend/app/research_service.py) on top of the     *)
(* BoundedTaskQueue: request handlers create, review and cancel research   *)
(* runs, workers started by the queue plan and research them, and all of   *)
(* them read and write the same row of the database.                       *)
(*                                                                         *)
(* A process is a worker, named by its run, or a handler, a slot for one   *)
(* request at a time.  One step of a process lies between two awaits: a    *)
(* SELECT and the UPDATE with its COMMIT that follow it are two steps, and *)
(* others may commit in between (SQLite starts the transaction at the      *)
(* UPDATE).  Any of these steps may raise a database error instead.        *)
(***************************************************************************)
EXTENDS Integers, FiniteSets, Sequences

CONSTANTS
    Runs,            \* ids of research runs
    Deep,            \* the runs in deep mode
    Plans,           \* research plans
    NoPlan,
    Handlers,        \* concurrent requests
    Cancellers,      \* the handlers that may serve a cancel request
    Keys,            \* (client, mode, day) triples quota is counted by
    QuotaKey,        \* the key a run is charged to, or NoKey if exempt
    NoKey,
    DailyLimit,
    SubmitAttempts,  \* 5 in the code
    ActiveLimit,
    WaitingLimit,
    NoRun,
    MaxErrors        \* bound on the database errors

ASSUME ServiceAssumption ==
    /\ Deep \subseteq Runs
    /\ Cancellers \subseteq Handlers
    /\ Runs \cap Handlers = {}
    /\ NoPlan \notin Plans /\ NoRun \notin Runs /\ NoKey \notin Keys
    /\ QuotaKey \in [Runs -> Keys \cup {NoKey}]
    /\ DailyLimit \in Nat \ {0} /\ SubmitAttempts \in Nat \ {0}
    /\ ActiveLimit \in Nat \ {0} /\ WaitingLimit \in Nat
    /\ MaxErrors \in Nat

VARIABLES
    task, waiting, cancelReq, future, closing,  \* the queue: see TaskQueue
    status,     \* research_runs.status; "absent" where there is no row
    plan,       \* research_runs.plan
    report,     \* research_runs.report, as the plan it was researched from
    usage,      \* rate_usage.count
    published,  \* status in the last snapshot every open stream has seen
    proc,       \* what each process is doing
    errors,     \* the database errors so far
    orphaned    \* the runs left behind by a process that such an error ended

queueVars == <<task, waiting, cancelReq, future, closing>>
rowVars == <<status, plan, report>>
errorVars == <<errors, orphaned>>
vars == <<queueVars, rowVars, usage, published, proc, errorVars>>

Queue == INSTANCE TaskQueue WITH TaskIds <- Runs

Processes == Runs \cup Handlers

(* The runs about to be marked as cancelled, by a request or by a worker   *)
(* that has been cancelled.                                                *)
Cancelling ==
    {r \in Runs : \E p \in Processes :
        proc[p].run = r /\ proc[p].pc = "commit" /\ proc[p].goal = "cancelled"}

Lifecycle == INSTANCE RunLifecycle
    WITH cancelling <- Cancelling, faulted <- errors > 0

Terminal == Lifecycle!Terminal
InProgress == Lifecycle!InProgress

(* job: the coroutine; pc: what it does next; scope: where a worker stands *)
(* with respect to its try block; op, goal, seen and next: the helper it   *)
(* is in, the status it writes, the status it has read, and where it       *)
(* continues.                                                              *)
Rest(p) ==
    [ job |-> "none", pc |-> "off", scope |-> "outside",
      run |-> IF p \in Runs THEN p ELSE NoRun, plan |-> NoPlan, tries |-> 0,
      op |-> "none", goal |-> "absent", seen |-> "absent", next |-> "off" ]

Init ==
    /\ Queue!Init
    /\ status = [r \in Runs |-> "absent"]
    /\ plan = [r \in Runs |-> NoPlan]
    /\ report = [r \in Runs |-> NoPlan]
    /\ usage = [k \in Keys |-> 0]
    /\ published = [r \in Runs |-> "absent"]
    /\ proc = [p \in Processes |-> Rest(p)]
    /\ errors = 0
    /\ orphaned = {}

-----------------------------------------------------------------------------
(* The helpers: _set_status, _set_failure, the last block of               *)
(* _execute_planning ("plan") and _persist_completed ("report").  Each     *)
(* reads the row, returns if a guard says so, writes the row, publishes.   *)

Call(rec, op, goal, next) ==
    [rec EXCEPT !.pc = "read", !.op = op, !.goal = goal, !.next = next]

(* A worker makes progress while its task runs and no cancellation is due; *)
(* a handler is an ordinary request coroutine.                             *)
CanStep(p) == p \in Runs => task[p] = "running" /\ p \notin cancelReq

(* The helper p awaited is over.                                           *)
Return(p) ==
    \/ /\ proc[p].next = "graph"
       /\ proc' = [proc EXCEPT ![p].pc = "graph", ![p].scope = "graph"]
       /\ UNCHANGED queueVars
    \/ /\ proc[p].next = "off"
       /\ proc' = [proc EXCEPT ![p] = Rest(p)]
       /\ UNCHANGED queueVars
    \/ /\ proc[p].next = "end"
       /\ proc' = [proc EXCEPT ![p] = Rest(p)]
       /\ Queue!WorkEnds(p, "result")
    \/ /\ proc[p].next = "raise"
       /\ proc' = [proc EXCEPT ![p] = Rest(p)]
       /\ Queue!WorkEnds(p, "cancelled")

(* A definition named Mutant... is a plausible slip in the definition that *)
(* follows it.  No specification uses it: replacing the definition by it   *)
(* shows which property would notice.                                      *)
MutantGivesWay(p) == status[proc[p].run] = "absent"

(* The guards: _set_status gives way to any other final status, the others *)
(* only to a cancellation.                                                 *)
GivesWay(p) ==
    LET now == status[proc[p].run]
    IN \/ now = "absent"
       \/ proc[p].op = "set" /\ now \in Terminal /\ now # proc[p].goal
       \/ proc[p].op # "set" /\ now = "cancelled"

Read(p) ==
    /\ proc[p].pc = "read"
    /\ CanStep(p)
    /\ \/ GivesWay(p) /\ Return(p)
       \/ /\ ~GivesWay(p)
          /\ proc' = [proc EXCEPT ![p].pc = "commit",
                                  ![p].seen = status[proc[p].run]]
          /\ UNCHANGED queueVars
    /\ UNCHANGED <<rowVars, usage, published, errorVars>>

(* The UPDATE holds the columns whose value differs from the one read.     *)
Write(p) ==
    LET r == proc[p].run
    IN /\ status' = IF proc[p].goal = proc[p].seen THEN status
                    ELSE [status EXCEPT ![r] = proc[p].goal]
       /\ plan' = IF proc[p].op = "plan"
                  THEN [plan EXCEPT ![r] = proc[p].plan] ELSE plan
       /\ report' = IF proc[p].op = "report"
                    THEN [report EXCEPT ![r] = proc[p].plan] ELSE report

(* A worker whose cancellation is due may still have a COMMIT on its way.  *)
(* Others wait for it: it holds SQLite's write lock.                       *)
Commit(p) ==
    /\ proc[p].pc = "commit"
    /\ CanStep(p)
    /\ proc[p].run \notin cancelReq
    /\ Write(p)
    /\ proc' = [proc EXCEPT ![p].pc = "publish"]
    /\ UNCHANGED <<queueVars, usage, published, errorVars>>

(* _publish_snapshot reads the row again and serves every open stream,     *)
(* under a lock per run.                                                   *)
MutantSnapshot(p) ==
    IF proc[p].job = "review" THEN "researching" ELSE proc[p].goal
Snapshot(p) == status[proc[p].run]

Publish(p) ==
    /\ proc[p].pc = "publish"
    /\ CanStep(p)
    /\ published' = [published EXCEPT ![proc[p].run] = Snapshot(p)]
    /\ Return(p)
    /\ UNCHANGED <<rowVars, usage, errorVars>>

HelperStep(p) == Read(p) \/ Commit(p) \/ Publish(p)

-----------------------------------------------------------------------------
(* Workers: _execute_planning and _execute_research.                       *)

Start(r) ==
    /\ Queue!Start(r)
    /\ proc' = [proc EXCEPT ![r].pc = "get"]
    /\ UNCHANGED <<rowVars, usage, published, errorVars>>

(* The read both begin with; setting PLANNING comes before the try block.  *)
BeginPlanning(r) ==
    /\ proc[r].job = "planning" /\ proc[r].pc = "get"
    /\ CanStep(r)
    /\ status[r] # "absent"
    /\ proc' = [proc EXCEPT ![r] = Call(@, "set", "planning", "graph")]
    /\ UNCHANGED <<queueVars, rowVars, usage, published, errorVars>>

BeginResearch(r) ==
    /\ proc[r].job = "research" /\ proc[r].pc = "get"
    /\ CanStep(r)
    /\ IF status[r] = "researching"
       THEN /\ proc' = [proc EXCEPT ![r].pc = "graph", ![r].scope = "graph"]
            /\ UNCHANGED queueVars
       ELSE /\ proc' = [proc EXCEPT ![r] = Rest(r)]
            /\ Queue!WorkEnds(r, "result")
    /\ UNCHANGED <<rowVars, usage, published, errorVars>>

(* The stages the graph reports next, by the last one reported.            *)
NextStages(r) ==
    LET last == proc[r].goal
    IN IF proc[r].job = "planning" THEN {"planning"}
       ELSE {stage \in {"researching", "writing", "verifying"} :
               \/ stage = "researching" /\ last \in {"absent", "researching"}
               \/ stage = "writing" /\ last = "researching"
               \/ stage = "verifying" /\ last = "writing" /\ r \in Deep}

InGraph(r) == proc[r].pc = "graph" /\ CanStep(r)

(* A progress event of the graph sets the status and waits for it.         *)
GraphProgress(r) ==
    /\ InGraph(r)
    /\ \E stage \in NextStages(r) :
          proc' = [proc EXCEPT ![r] = Call(@, "set", stage, "graph")]
    /\ UNCHANGED <<queueVars, rowVars, usage, published, errorVars>>

(* The planning graph stops at the review with a plan of the model's.      *)
PlanReady(r) ==
    /\ InGraph(r)
    /\ proc[r].job = "planning"
    /\ \E pl \in Plans :
          proc' = [proc EXCEPT ![r] =
                     [Call(@, "plan", "waiting_for_review", "end")
                         EXCEPT !.scope = "try", !.plan = pl]]
    /\ UNCHANGED <<queueVars, rowVars, usage, published, errorVars>>

(* The research graph has gone through all its stages.                     *)
ReportReady(r) ==
    /\ InGraph(r)
    /\ proc[r].job = "research"
    /\ proc[r].goal = IF r \in Deep THEN "verifying" ELSE "writing"
    /\ proc' = [proc EXCEPT ![r] =
                  [Call(@, "report", "completed", "end") EXCEPT !.scope = "try"]]
    /\ UNCHANGED <<queueVars, rowVars, usage, published, errorVars>>

Fails(r) ==
    proc' = [proc EXCEPT ![r] =
               [Call(@, "fail", "failed", "end") EXCEPT !.scope = "handler"]]

(* A provider, or the validation of its answer, raises.                    *)
GraphFails(r) ==
    /\ InGraph(r)
    /\ Fails(r)
    /\ UNCHANGED <<queueVars, rowVars, usage, published, errorVars>>

(* What an interrupted process leaves of a write it was waiting for.       *)
InterruptedWrite(p) ==
    \/ UNCHANGED rowVars
    \/ proc[p].pc = "commit" /\ Write(p)

(* wait_for gives up on the graph, wherever in it the worker is, the       *)
(* status updates of its progress events included.                         *)
MutantTimed(r) == proc[r].scope = "graph" /\ proc[r].job = "planning"
Timed(r) == proc[r].scope = "graph"

Timeout(r) ==
    /\ Timed(r)
    /\ CanStep(r)
    /\ InterruptedWrite(r)
    /\ Fails(r)
    /\ UNCHANGED <<queueVars, usage, published, errorVars>>

(* The cancellation of a worker arrives.  Within the try block the handler *)
(* sets CANCELLED and raises again; before it, or in an exception handler, *)
(* nothing stops it; before the first step there is nothing to stop.       *)
DeliverCancel(r) ==
    /\ r \in cancelReq
    /\ InterruptedWrite(r)
    /\ IF proc[r].scope \in {"graph", "try"}
       THEN /\ Queue!DeliverCancel(r)
            /\ proc' = [proc EXCEPT ![r] =
                          [Call(@, "set", "cancelled", "raise")
                              EXCEPT !.scope = "handler"]]
       ELSE /\ IF task[r] = "created" THEN Queue!DeliverCancel(r)
               ELSE Queue!WorkEnds(r, "cancelled")
            /\ proc' = [proc EXCEPT ![r] = Rest(r)]
    /\ UNCHANGED <<usage, published, errorVars>>

-----------------------------------------------------------------------------
(* Request handlers.                                                       *)

Free(h) == closing = "open" /\ proc[h].pc = "off"

(* A client acts on a run once its creation has been answered.             *)
Known(r) ==
    /\ status[r] # "absent"
    /\ \A h \in Handlers : ~(proc[h].run = r /\ proc[h].job = "create")

(* The limiter's upsert: one more for the key, if that is allowed.  A run  *)
(* without a key is exempt.                                                *)
WithinLimit(key) == key # NoKey => usage[key] < DailyLimit

Consumed(key) ==
    IF key = NoKey THEN usage ELSE [usage EXCEPT ![key] = @ + 1]

(* create, first transaction: charge the quota and insert the row.  Over   *)
(* the limit nothing is written.                                           *)
CreateRequest(h, r) ==
    /\ Free(h)
    /\ status[r] = "absent"
    /\ WithinLimit(QuotaKey[r])
    /\ usage' = Consumed(QuotaKey[r])
    /\ status' = [status EXCEPT ![r] = "queued"]
    /\ published' = [published EXCEPT ![r] = "queued"]
    /\ proc' = [proc EXCEPT ![h] =
                  [Rest(h) EXCEPT !.job = "create", !.pc = "submit", !.run = r]]
    /\ UNCHANGED <<queueVars, plan, report, errorVars>>

(* What the worker of r will run: the lambda given to _submit.             *)
Work(h) ==
    LET r == proc[h].run
    IN [Rest(r) EXCEPT
          !.job = IF proc[h].job = "create" THEN "planning" ELSE "research",
          !.plan = proc[h].plan]

SubmitAccepted(h) ==
    /\ proc[h].pc = "submit"
    /\ LET r == proc[h].run
           after == IF proc[h].job = "create" THEN Rest(h)
                    ELSE [proc[h] EXCEPT !.pc = "publish", !.next = "off"]
       IN /\ Queue!SubmitStarts(r) \/ Queue!SubmitWaits(r)
          /\ proc' = [proc EXCEPT ![h] = after, ![r] = Work(h)]
    /\ UNCHANGED <<rowVars, usage, published, errorVars>>

(* No room: a creation is rolled back, a confirmed review fails.           *)
MutantRefused(h) ==
    IF proc[h].job = "create" THEN [proc[h] EXCEPT !.pc = "rollback"]
    ELSE Rest(h)
Refused(h) ==
    IF proc[h].job = "create" THEN [proc[h] EXCEPT !.pc = "rollback"]
    ELSE Call(proc[h], "fail", "failed", "off")

SubmitRefused(h) ==
    /\ proc[h].pc = "submit"
    /\ ~Queue!Duplicate(proc[h].run)
    /\ Queue!Full
    /\ proc' = [proc EXCEPT ![h] = Refused(h)]
    /\ UNCHANGED <<queueVars, rowVars, usage, published, errorVars>>

(* The planning worker may not have left the queue yet when its plan is    *)
(* confirmed: _submit tries again after a pause, a bounded number of times.*)
(* The id of a new run is never a duplicate.                               *)
MutantTriesAgain(h) == proc[h].tries < SubmitAttempts
TriesAgain(h) == proc[h].tries + 1 < SubmitAttempts

SubmitDuplicate(h) ==
    /\ proc[h].pc = "submit" /\ proc[h].job = "review"
    /\ Queue!Duplicate(proc[h].run)
    /\ proc' = [proc EXCEPT ![h] =
                  IF TriesAgain(h) THEN [proc[h] EXCEPT !.tries = @ + 1]
                  ELSE Call(proc[h], "fail", "failed", "off")]
    /\ UNCHANGED <<queueVars, rowVars, usage, published, errorVars>>

(* _rollback_rejected_create: delete the row and give the quota back.      *)
MutantRefund(k) == usage
Refund(k) ==
    IF k # NoKey /\ usage[k] > 0 THEN [usage EXCEPT ![k] = @ - 1] ELSE usage

Rollback(h) ==
    /\ proc[h].pc = "rollback"
    /\ LET r == proc[h].run
       IN /\ status' = [status EXCEPT ![r] = "absent"]
          /\ published' = [published EXCEPT ![r] = "absent"]
          /\ usage' = Refund(QuotaKey[r])
    /\ proc' = [proc EXCEPT ![h] = Rest(h)]
    /\ UNCHANGED <<queueVars, plan, report, errorVars>>

(* update_plan: read the row, then UPDATE it if it still is under review.  *)
ReviewRequest(h, r, pl) ==
    /\ Free(h)
    /\ Known(r)
    /\ status[r] = "waiting_for_review"
    /\ proc' = [proc EXCEPT ![h] =
                  [Rest(h) EXCEPT !.job = "review", !.pc = "confirm",
                                  !.run = r, !.plan = pl]]
    /\ UNCHANGED <<queueVars, rowVars, usage, published, errorVars>>

MutantUnderReview(r) == TRUE
UnderReview(r) == status[r] = "waiting_for_review"

Confirm(h) ==
    /\ proc[h].pc = "confirm"
    /\ LET r == proc[h].run
       IN IF UnderReview(r)
          THEN /\ status' = [status EXCEPT ![r] = "researching"]
               /\ plan' = [plan EXCEPT ![r] = proc[h].plan]
               /\ proc' = [proc EXCEPT ![h].pc = "submit"]
          ELSE /\ proc' = [proc EXCEPT ![h] = Rest(h)]
               /\ UNCHANGED <<status, plan>>
    /\ UNCHANGED <<queueVars, report, usage, published, errorVars>>

(* cancel: read the row, cancel in the queue, set CANCELLED.               *)
CancelRequest(h, r) ==
    /\ Free(h)
    /\ h \in Cancellers
    /\ Known(r)
    /\ status[r] \notin Terminal
    /\ proc' = [proc EXCEPT ![h] =
                  [Rest(h) EXCEPT !.job = "cancel", !.pc = "dequeue", !.run = r]]
    /\ UNCHANGED <<queueVars, rowVars, usage, published, errorVars>>

AfterDequeue(h) == Call(proc[h], "set", "cancelled", "off")

Dequeue(h) ==
    /\ proc[h].pc = "dequeue"
    /\ LET r == proc[h].run
           set == AfterDequeue(h)
       IN \/ /\ Queue!CancelActive(r)
             /\ proc' = [proc EXCEPT ![h] = set]
          \/ /\ Queue!CancelWaiting(r)
             /\ proc' = [proc EXCEPT ![h] = set, ![r] = Rest(r)]
          \/ /\ ~Queue!Duplicate(r)
             /\ proc' = [proc EXCEPT ![h] = set]
             /\ UNCHANGED queueVars
    /\ UNCHANGED <<rowVars, usage, published, errorVars>>

HandlerStep(h) ==
    \/ SubmitAccepted(h) \/ SubmitRefused(h) \/ SubmitDuplicate(h)
    \/ Rollback(h) \/ Confirm(h) \/ Dequeue(h)

-----------------------------------------------------------------------------
(* A SELECT, an UPDATE or a COMMIT raises: the database is locked for too  *)
(* long, the disk is full.  Nothing is written by the step that raises; a  *)
(* creation has read its new row again (session.refresh) when it submits,  *)
(* and publishing reads a row that is already committed.                   *)
UsesDatabase(p) ==
    \/ proc[p].pc \in {"get", "read", "commit", "publish", "rollback", "confirm"}
    \/ proc[p].pc = "submit" /\ proc[p].job = "create"

(* Within its try block a worker fails the run, also one it has completed  *)
(* and not yet published.  Before it, and in an exception handler, the     *)
(* error ends the worker; it ends any request.  A confirmation that has    *)
(* not been written leaves nothing behind.                                 *)
Caught(p) == proc[p].scope \in {"graph", "try"}

DatabaseError(p) ==
    /\ errors < MaxErrors
    /\ UsesDatabase(p)
    /\ CanStep(p)
    /\ IF Caught(p)
       THEN Fails(p) /\ UNCHANGED <<queueVars, orphaned>>
       ELSE /\ proc' = [proc EXCEPT ![p] = Rest(p)]
            /\ orphaned' = IF proc[p].pc = "confirm" THEN orphaned
                           ELSE orphaned \cup {proc[p].run}
            /\ IF p \in Runs THEN Queue!WorkEnds(p, "exception")
               ELSE UNCHANGED queueVars
    /\ errors' = errors + 1
    /\ UNCHANGED <<rowVars, usage, published>>

-----------------------------------------------------------------------------
(* The process: an orderly stop cancels the workers once no request is     *)
(* being served; a new process fails the runs the old one left in progress *)
(* (recover_interrupted_runs), whether that one stopped or crashed.        *)
Shutdown ==
    /\ \A h \in Handlers : proc[h].pc = "off"
    /\ Queue!Shutdown
    /\ proc' = [p \in Processes |->
                  IF p \in Queue!Waiting THEN Rest(p) ELSE proc[p]]
    /\ UNCHANGED <<rowVars, usage, published, errorVars>>

ShutdownReturns ==
    /\ Queue!ShutdownReturns
    /\ UNCHANGED <<rowVars, usage, published, proc, errorVars>>

Recovered(s) == IF s \in InProgress THEN "failed" ELSE s

Restart ==
    /\ Queue!Restart
    /\ proc' = [p \in Processes |-> Rest(p)]
    /\ status' = [r \in Runs |-> Recovered(status[r])]
    /\ published' = status'
    /\ orphaned' = {}
    /\ UNCHANGED <<plan, report, usage, errors>>

Next ==
    \/ \E r \in Runs :
          \/ Start(r)
          \/ BeginPlanning(r)
          \/ BeginResearch(r)
          \/ GraphProgress(r)
          \/ PlanReady(r)
          \/ ReportReady(r)
          \/ GraphFails(r)
          \/ Timeout(r)
          \/ DeliverCancel(r)
    \/ \E p \in Processes : HelperStep(p) \/ DatabaseError(p)
    \/ \E h \in Handlers :
          \/ HandlerStep(h)
          \/ \E r \in Runs :
                \/ CreateRequest(h, r)
                \/ CancelRequest(h, r)
                \/ \E pl \in Plans : ReviewRequest(h, r, pl)
    \/ Shutdown
    \/ ShutdownReturns
    \/ Restart

Spec == Init /\ [][Next]_vars

(* The event loop runs every coroutine that is ready, and the timeout ends *)
(* a graph that does not end by itself.  Requests, stops and restarts need *)
(* never come.                                                             *)
Fairness ==
    /\ \A r \in Runs :
          /\ WF_vars(Start(r))
          /\ WF_vars(BeginPlanning(r) \/ BeginResearch(r))
          /\ WF_vars(Timeout(r))
          /\ WF_vars(DeliverCancel(r))
    /\ \A p \in Processes : WF_vars(HelperStep(p))
    /\ \A h \in Handlers : WF_vars(HandlerStep(h))
    /\ WF_vars(ShutdownReturns)

FairSpec == Spec /\ Fairness

-----------------------------------------------------------------------------
Jobs == {"none", "planning", "research", "create", "review", "cancel"}
Places == {"off", "get", "graph", "read", "commit", "publish",
           "submit", "rollback", "confirm", "dequeue"}
Scopes == {"outside", "graph", "try", "handler"}
Helpers == {"none", "set", "fail", "plan", "report"}
Continuations == {"off", "graph", "end", "raise"}

ProcStates ==
    [ job  : Jobs, pc : Places, scope : Scopes,
      run  : Runs \cup {NoRun}, plan : Plans \cup {NoPlan},
      tries : 0..(SubmitAttempts - 1),
      op : Helpers, goal : Lifecycle!Statuses, seen : Lifecycle!Statuses,
      next : Continuations ]

(* Every column and every process holds a value the code can give it; in   *)
(* particular no client is charged beyond its limit, and a submission is   *)
(* tried at most SubmitAttempts times.                                     *)
TypeOK ==
    /\ status \in [Runs -> Lifecycle!Statuses]
    /\ plan \in [Runs -> Plans \cup {NoPlan}]
    /\ report \in [Runs -> Plans \cup {NoPlan}]
    /\ usage \in [Keys -> 0..DailyLimit]
    /\ published \in [Runs -> Lifecycle!Statuses]
    /\ proc \in [Processes -> ProcStates]
    /\ errors \in 0..MaxErrors
    /\ orphaned \subseteq Runs

(* A request is being served for the run.                                  *)
Served(r) == \E h \in Handlers : proc[h].run = r

(* The run has a worker that can still do something.                       *)
HasWorker(r) == r \in Queue!Waiting \/ Queue!Live(r)

(* A run whose status says that something is going on is in somebody's     *)
(* hands: a live or waiting worker, or a request that will submit it, undo *)
(* it or fail it.  No refusal, race or cancellation leaves a run in        *)
(* progress for ever, nor does a database error the worker can catch.      *)
(* Only a shutdown and an error that ends the worker or the request leave  *)
(* a run to the next restart.                                              *)
InProgressIsOwned ==
    closing = "open" =>
        \A r \in Runs \ orphaned :
            status[r] \in InProgress => HasWorker(r) \/ Served(r)

(* A client is charged for exactly the runs it has: whatever way a creation*)
(* goes, database errors included, the count of a key is the number of     *)
(* rows charged to it, and stays within the daily limit.                   *)
QuotaConserved ==
    \A k \in Keys :
        /\ usage[k] = Cardinality({r \in Runs : QuotaKey[r] = k /\ status[r] # "absent"})
        /\ usage[k] <= DailyLimit

(* However many requests confirm a review at the same time, the plan a     *)
(* research worker follows is the one on file, and a report is the outcome *)
(* of that plan.                                                           *)
PlanAgreement ==
    \A r \in Runs :
        /\ proc[r].job = "research" => proc[r].plan = plan[r]
        /\ report[r] # NoPlan => report[r] = plan[r]

(* A client never sees a completed run without report, or is asked to      *)
(* review a run without plan; a run without result has no report.  After a *)
(* database error a failed run may have one: it had been completed.        *)
ResultMatchesStatus ==
    \A r \in Runs :
        /\ status[r] = "completed" => report[r] # NoPlan
        /\ status[r] \in {"waiting_for_review", "researching", "writing",
                            "verifying", "completed"} => plan[r] # NoPlan
        /\ status[r] \in InProgress \cup {"absent", "waiting_for_review"}
              => report[r] = NoPlan
        /\ status[r] = "failed" /\ errors = 0 => report[r] = NoPlan

(* When nobody works on a finished run any more, every open stream has     *)
(* been told how it ended: a page that waits for the end is not left       *)
(* waiting, unless a database error ended the one who would have told it.  *)
StreamsSeeTheEnd ==
    closing = "open" =>
        \A r \in Runs \ orphaned :
            status[r] \in Terminal /\ ~HasWorker(r) /\ ~Served(r)
                => published[r] = status[r]

(* RunPage.tsx tells the user of a cancelled run that its task has stopped *)
(* and consumes no more: no graph runs on for it, unless the cancellation  *)
(* of its worker is on the way.                                            *)
CancelStopsWork ==
    \A r \in Runs :
        status[r] = "cancelled" => ~InGraph(r)

(* Statuses move as the life cycle promises.                               *)
FollowsLifecycle == Lifecycle!Spec

(* While the service is up no run stays in progress for ever: it reaches   *)
(* its review or an end, as long as the slots of the queue hold tasks that *)
(* can still finish, and no database error has ended the one who works on  *)
(* it.                                                                     *)
EveryRunSettles ==
    []Queue!SlotsAreLive =>
        \A r \in Runs :
            status[r] \in InProgress
              ~> \/ status[r] \notin InProgress
                 \/ closing # "open"
                 \/ r \in orphaned
=============================================================================
