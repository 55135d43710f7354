-------------------------- MODULE RunLifecycleProofs --------------------------
(***************************************************************************)
(* Three results about the life of a run, for any number of runs, requests,*)
(* plans and database errors: ResearchService implements RunLifecycle, a   *)
(* run in progress is always in somebody's hands, and, where nobody        *)
(* cancels, every stream is told how a run ended.  Each looks at one run   *)
(* at a time: its row, its worker, its place in the queue, and the         *)
(* requests that are served for it.                                        *)
(***************************************************************************)
EXTENDS ResearchServiceProofs

-----------------------------------------------------------------------------
(* A step on one run.                                                      *)

(* What happens to the other runs and to the requests for them: nothing.   *)
Apart(r) ==
    /\ closing' = closing
    /\ \A q \in Runs \ {r} :
          /\ QP!SameTask(q) /\ SameRow(q) /\ proc'[q] = proc[q]
          /\ q \in orphaned' <=> q \in orphaned
    /\ \A h \in Handlers :
          \/ proc'[h] = proc[h]
          \/ proc[h].run \in {r, NoRun} /\ proc'[h].run \in {r, NoRun}

SameOrphan(r) == r \in orphaned' <=> r \in orphaned

SameRows(r) == \A q \in Runs : q # r => SameRow(q)

(* The worker of r goes on.                                                *)
GoesOn(r) ==
    /\ Apart(r) /\ HandlersStay /\ UNCHANGED queueVars /\ SameOrphan(r)
    /\ task[r] = "running" /\ r \notin cancelReq
    /\ proc'[r].job = proc[r].job

(* The worker of r is over.                                                *)
IsOver(r) ==
    /\ Apart(r) /\ HandlersStay
    /\ task[r] = "running"
    /\ proc'[r] = Rest(r) /\ QP!Away(r)'

(* Request h does something for r, or begins or ends to be served.         *)
Serves(h, r) ==
    /\ Apart(r) /\ UNCHANGED queueVars
    /\ \A q \in Processes : q # h => proc'[q] = proc[q]

LEMMA QuietOthers ==
    ASSUME UNCHANGED queueVars, NEW r \in Runs
    PROVE  QP!OthersStay(r) /\ QP!SameTask(r)
PROOF BY DEF queueVars, QP!OthersStay, QP!SameTask, QP!Ready, QP!Waiting

LEMMA RowsSame ==
    ASSUME UNCHANGED rowVars
    PROVE  \A q \in Runs : SameRow(q)
PROOF BY DEF rowVars, SameRow

LEMMA WorkerApart ==
    ASSUME NEW r \in Runs, Moved(r), QP!OthersStay(r), SameRows(r),
           \A q \in Runs : q # r => SameOrphan(q)
    PROVE  Apart(r) /\ HandlersStay
PROOF
  <1>1. r \notin Handlers /\ Runs \subseteq Processes /\ Handlers \subseteq Processes
    BY RunsAreNoHandlers, Names
  <1> QED BY <1>1, ServiceAssumption
          DEF Moved, HandlersStay, QP!OthersStay, SameRows, SameOrphan, Apart

LEMMA WorkerGoesOn ==
    ASSUME NEW r \in Runs, CanStep(r), Moved(r), UNCHANGED queueVars,
           SameRows(r), orphaned' = orphaned, proc'[r].job = proc[r].job
    PROVE  GoesOn(r)
PROOF BY QuietOthers, WorkerApart DEF CanStep, GoesOn, SameOrphan

LEMMA WorkerIsOver ==
    ASSUME Base, NEW r \in Runs, Moved(r), Ends(r), SameRows(r),
           \A q \in Runs : q # r => SameOrphan(q)
    PROVE  IsOver(r)
PROOF
  <1>1. PICK outcome \in QP!Outcomes : QP!WorkEnds(r, outcome)
    BY DEF Ends
  <1>2. QP!OthersStay(r) /\ QP!Away(r)'
    BY <1>1, QP!AfterEnd, ServiceAssumption DEF Base
  <1>3. task[r] = "running"
    BY <1>1 DEF QP!WorkEnds
  <1> QED BY <1>2, <1>3, WorkerApart DEF IsOver, Ends

LEMMA RequestServes ==
    ASSUME NEW h \in Handlers, NEW r \in Runs, Moved(h), UNCHANGED queueVars,
           SameRows(r), \A q \in Runs : q # r => SameOrphan(q),
           proc[h].run \in {r, NoRun}, proc'[h].run \in {r, NoRun}
    PROVE  Serves(h, r)
PROOF
  <1>1. h \notin Runs /\ Runs \subseteq Processes /\ Handlers \subseteq Processes
    BY RunsAreNoHandlers, Names
  <1> QED BY <1>1, QuietOthers DEF Moved, SameRows, Serves, Apart, QP!OthersStay, SameOrphan

-----------------------------------------------------------------------------
(* Every action of a worker or a request is such a step.                   *)

(* Which rows a write changes, and how.                                    *)
LEMMA WriteStatus ==
    ASSUME Base, NEW p \in Processes, proc[p].run \in Runs, Write(p)
    PROVE  /\ status'[proc[p].run] = (IF proc[p].goal = proc[p].seen
                                      THEN status[proc[p].run] ELSE proc[p].goal)
           /\ proc[p].op # "plan" => plan'[proc[p].run] = plan[proc[p].run]
           /\ SameRows(proc[p].run)
PROOF
  <1>1. /\ status \in [Runs -> Lifecycle!Statuses]
        /\ plan \in [Runs -> Plans \cup {NoPlan}]
        /\ report \in [Runs -> Plans \cup {NoPlan}]
    BY BaseParts DEF RowsTyped
  <1> QED BY <1>1 DEF Write, SameRows, SameRow

LEMMA InterruptedStatus ==
    ASSUME Base, NEW r \in Runs, InterruptedWrite(r)
    PROVE  /\ SameRows(r)
           /\ \/ SameRow(r)
              \/ /\ proc[r].pc = "commit"
                 /\ status'[r] = (IF proc[r].goal = proc[r].seen
                                  THEN status[r] ELSE proc[r].goal)
                 /\ proc[r].op # "plan" => plan'[r] = plan[r]
PROOF
  <1>1. r \in Processes /\ proc[r].run = r
    BY Names, StateOf DEF WorkerShape, Base
  <1>2. CASE UNCHANGED rowVars
    BY <1>2, RowsSame DEF SameRows
  <1>3. CASE proc[r].pc = "commit" /\ Write(r)
    BY <1>1, <1>3, WriteStatus
  <1> QED BY <1>2, <1>3 DEF InterruptedWrite

LEMMA WorkerRun ==
    ASSUME Base, NEW r \in Runs
    PROVE  /\ r \in Processes /\ r \notin Handlers
           /\ proc[r] \in ProcStates /\ proc[r].run = r
           /\ WorkerShape(r, proc[r])
PROOF BY Names, RunsAreNoHandlers, StateOf DEF WorkerShape, Base

LEMMA WorkGoesOn ==
    ASSUME Base, NEW r \in Runs,
           \/ BeginPlanning(r) \/ GraphProgress(r) \/ PlanReady(r)
           \/ ReportReady(r) \/ GraphFails(r)
    PROVE  GoesOn(r) /\ SameRow(r) /\ errors' = errors
PROOF
  <1>1. Typed
    BY DEF Base
  <1>2. CASE BeginPlanning(r)
    <2>1. CanStep(r) /\ UNCHANGED <<queueVars, rowVars, errorVars>>
      BY <1>2 DEF BeginPlanning
    <2>2. Moved(r) /\ proc'[r].job = proc[r].job
      BY <1>1, <1>2, BeginPlanningEffect DEF Calls, SameWork
    <2> QED BY <2>1, <2>2, RowsSame, WorkerGoesOn DEF SameRows, errorVars
  <1>3. CASE GraphProgress(r)
    <2>1. CanStep(r) /\ UNCHANGED <<queueVars, rowVars, errorVars>>
      BY <1>3 DEF GraphProgress, InGraph
    <2>2. Moved(r) /\ proc'[r].job = proc[r].job
      BY <1>1, <1>3, GraphProgressEffect DEF Calls, SameWork
    <2> QED BY <2>1, <2>2, RowsSame, WorkerGoesOn DEF SameRows, errorVars
  <1>4. CASE PlanReady(r)
    <2>1. CanStep(r) /\ UNCHANGED <<queueVars, rowVars, errorVars>>
      BY <1>4 DEF PlanReady, InGraph
    <2>2. Moved(r) /\ proc'[r].job = proc[r].job
      BY <1>1, <1>4, PlanReadyEffect
    <2> QED BY <2>1, <2>2, RowsSame, WorkerGoesOn DEF SameRows, errorVars
  <1>5. CASE ReportReady(r)
    <2>1. CanStep(r) /\ UNCHANGED <<queueVars, rowVars, errorVars>>
      BY <1>5 DEF ReportReady, InGraph
    <2>2. Moved(r) /\ proc'[r].job = proc[r].job
      BY <1>1, <1>5, ReportReadyEffect DEF Calls, SameWork
    <2> QED BY <2>1, <2>2, RowsSame, WorkerGoesOn DEF SameRows, errorVars
  <1>6. CASE GraphFails(r)
    <2>1. CanStep(r) /\ UNCHANGED <<queueVars, rowVars, errorVars>> /\ Fails(r)
          /\ proc[r].pc = "graph"
      BY <1>6 DEF GraphFails, InGraph
    <2>2. Moved(r) /\ proc'[r].job = proc[r].job
      BY <1>1, <2>1, FailsEffect DEF Calls, SameWork
    <2> QED BY <2>1, <2>2, RowsSame, WorkerGoesOn DEF SameRows, errorVars
  <1> QED BY <1>2, <1>3, <1>4, <1>5, <1>6

LEMMA BeginResearchKind ==
    ASSUME Base, NEW r \in Runs, BeginResearch(r)
    PROVE  /\ SameRow(r) /\ SameOrphan(r) /\ errors' = errors
           /\ \/ /\ GoesOn(r) /\ status[r] = "researching"
                 /\ SameWork(r) /\ SameCall(r)
                 /\ proc'[r].pc = "graph" /\ proc'[r].scope = "graph"
              \/ IsOver(r) /\ status[r] # "researching"
PROOF
  <1>1. Typed
    BY DEF Base
  <1>2. /\ CanStep(r) /\ UNCHANGED <<rowVars, errorVars>>
        /\ task[r] = "running"
    BY DEF BeginResearch, CanStep
  <1>3. SameRow(r) /\ SameRows(r) /\ errors' = errors /\ orphaned' = orphaned
        /\ SameOrphan(r) /\ \A q \in Runs : SameOrphan(q)
    BY <1>2, RowsSame DEF SameRows, errorVars, SameOrphan
  <1>4. CASE status[r] = "researching"
    <2>1. ~(status[r] # "researching" /\ Ends(r))
      BY <1>4
    <2>2. /\ Moved(r) /\ SameWork(r) /\ SameCall(r)
          /\ proc'[r].pc = "graph" /\ proc'[r].scope = "graph"
          /\ UNCHANGED queueVars
      BY <1>1, <2>1, BeginResearchEffect
    <2>3. proc'[r].job = proc[r].job
      BY <2>2 DEF SameWork
    <2> QED BY <1>2, <1>3, <1>4, <2>2, <2>3, WorkerGoesOn
  <1>5. CASE status[r] # "researching"
    <2>1. Queue!WorkEnds(r, "result") /\ proc' = [proc EXCEPT ![r] = Rest(r)]
      BY <1>5 DEF BeginResearch
    <2>2. "result" \in QP!Outcomes
      BY DEF QP!Outcomes
    <2>3. Moved(r) /\ Ends(r)
      BY <1>1, <2>1, <2>2, WorkerRun, SameWorkEnds, RestMoves DEF Ends
    <2> QED BY <1>3, <1>5, <2>3, WorkerIsOver
  <1> QED BY <1>4, <1>5

(* A helper that returns takes the worker back to its graph or ends it.    *)
LEMMA ReturnKind ==
    ASSUME Base, NEW r \in Runs, InHelper(proc[r]), Return(r), CanStep(r),
           SameRows(r), orphaned' = orphaned
    PROVE  \/ /\ GoesOn(r) /\ proc[r].next = "graph"
              /\ SameWork(r) /\ SameCall(r)
              /\ proc'[r].pc = "graph" /\ proc'[r].scope = "graph"
           \/ IsOver(r) /\ proc[r].scope \in {"try", "handler"}
PROOF
  <1>1. Typed /\ r \in Processes /\ r \notin Handlers
    BY WorkerRun DEF Base
  <1>2. CASE /\ proc[r].next = "graph"
             /\ SameWork(r) /\ SameCall(r) /\ Moved(r)
             /\ proc'[r].pc = "graph" /\ proc'[r].scope = "graph"
             /\ UNCHANGED queueVars
    <2>1. proc'[r].job = proc[r].job
      BY <1>2 DEF SameWork
    <2> QED BY <1>2, <2>1, WorkerGoesOn
  <1>3. CASE proc[r].scope \in {"try", "handler"} /\ Ends(r) /\ Moved(r)
    BY <1>3, WorkerIsOver DEF SameOrphan
  <1> QED BY <1>1, <1>2, <1>3, ReturnEffect

LEMMA WorkerReadKind ==
    ASSUME Base, NEW r \in Runs, Read(r)
    PROVE  /\ SameRow(r) /\ SameOrphan(r) /\ errors' = errors /\ InHelper(proc[r])
           /\ \/ /\ GoesOn(r) /\ ~GivesWay(r)
                 /\ StepsTo(r, "commit") /\ proc'[r].seen = status[r]
              \/ /\ GoesOn(r) /\ GivesWay(r) /\ proc[r].next = "graph"
                 /\ SameWork(r) /\ SameCall(r)
                 /\ proc'[r].pc = "graph" /\ proc'[r].scope = "graph"
              \/ IsOver(r) /\ GivesWay(r)
PROOF
  <1>1. Typed /\ r \in Processes /\ proc[r].run = r
    BY WorkerRun DEF Base
  <1>2. /\ CanStep(r) /\ UNCHANGED <<rowVars, errorVars>>
        /\ InHelper(proc[r])
    BY DEF Read, InHelper
  <1>3. SameRow(r) /\ SameRows(r) /\ errors' = errors /\ orphaned' = orphaned
        /\ SameOrphan(r)
    BY <1>2, RowsSame DEF SameRows, errorVars, SameOrphan
  <1>4. CASE GivesWay(r) /\ Return(r)
    BY <1>2, <1>3, <1>4, ReturnKind
  <1>5. CASE ~GivesWay(r) /\ StepsTo(r, "commit") /\ Moved(r)
             /\ proc'[r].seen = status[r] /\ UNCHANGED queueVars
    <2>1. proc'[r].job = proc[r].job
      BY <1>5 DEF StepsTo, SameWork
    <2> QED BY <1>2, <1>3, <1>5, <2>1, WorkerGoesOn
  <1> QED BY <1>1, <1>4, <1>5, ReadEffect

LEMMA WorkerCommitKind ==
    ASSUME Base, NEW r \in Runs, Commit(r)
    PROVE  /\ GoesOn(r) /\ StepsTo(r, "publish") /\ errors' = errors
           /\ proc[r].pc = "commit"
           /\ status'[r] = (IF proc[r].goal = proc[r].seen
                            THEN status[r] ELSE proc[r].goal)
           /\ proc[r].op # "plan" => plan'[r] = plan[r]
PROOF
  <1>1. Typed /\ r \in Processes /\ proc[r].run = r
    BY WorkerRun DEF Base
  <1>2. /\ CanStep(r) /\ UNCHANGED <<queueVars, errorVars>> /\ Write(r)
        /\ proc[r].pc = "commit"
    BY DEF Commit
  <1>3. errors' = errors /\ orphaned' = orphaned
    BY <1>2 DEF errorVars
  <1>4. Moved(r) /\ StepsTo(r, "publish")
    BY <1>1, CommitEffect
  <1>5. proc'[r].job = proc[r].job
    BY <1>4 DEF StepsTo, SameWork
  <1>6. /\ status'[r] = (IF proc[r].goal = proc[r].seen
                            THEN status[r] ELSE proc[r].goal)
        /\ proc[r].op # "plan" => plan'[r] = plan[r]
        /\ SameRows(r)
    BY <1>1, <1>2, WriteStatus
  <1> QED BY <1>2, <1>3, <1>4, <1>5, <1>6, WorkerGoesOn

LEMMA WorkerPublishKind ==
    ASSUME Base, NEW r \in Runs, Publish(r)
    PROVE  /\ SameRow(r) /\ SameOrphan(r) /\ errors' = errors
           /\ proc[r].pc = "publish"
           /\ \/ /\ GoesOn(r) /\ proc[r].next = "graph"
                 /\ SameWork(r) /\ SameCall(r)
                 /\ proc'[r].pc = "graph" /\ proc'[r].scope = "graph"
              \/ IsOver(r) /\ proc[r].scope \in {"try", "handler"}
PROOF
  <1>1. Typed /\ r \in Processes
    BY WorkerRun DEF Base
  <1>2. /\ CanStep(r) /\ UNCHANGED <<rowVars, errorVars>> /\ Return(r)
        /\ proc[r].pc = "publish" /\ InHelper(proc[r])
    BY DEF Publish, InHelper
  <1>3. SameRow(r) /\ SameRows(r) /\ errors' = errors /\ orphaned' = orphaned
        /\ SameOrphan(r)
    BY <1>2, RowsSame DEF SameRows, errorVars, SameOrphan
  <1> QED BY <1>2, <1>3, ReturnKind

(* A worker that times out may have written before.                        *)
LEMMA TimeoutKind ==
    ASSUME Base, NEW r \in Runs, Timeout(r)
    PROVE  /\ GoesOn(r) /\ errors' = errors
           /\ proc[r].scope = "graph"
           /\ Calls(r, "fail", "failed", "handler")
           /\ \/ SameRow(r)
              \/ /\ proc[r].pc = "commit"
                 /\ status'[r] = (IF proc[r].goal = proc[r].seen
                                  THEN status[r] ELSE proc[r].goal)
                 /\ proc[r].op # "plan" => plan'[r] = plan[r]
PROOF
  <1>1. Typed
    BY DEF Base
  <1>2. /\ CanStep(r) /\ UNCHANGED <<queueVars, errorVars>> /\ InterruptedWrite(r)
        /\ proc[r].scope = "graph"
    BY DEF Timeout, Timed
  <1>3. errors' = errors /\ orphaned' = orphaned
    BY <1>2 DEF errorVars
  <1>4. Moved(r) /\ Calls(r, "fail", "failed", "handler")
    BY <1>1, TimeoutEffect
  <1>5. proc'[r].job = proc[r].job
    BY <1>4 DEF Calls, SameWork
  <1> QED BY <1>2, <1>3, <1>4, <1>5, InterruptedStatus, WorkerGoesOn

(* A cancelled worker may have written before; then it cleans up, or it is *)
(* over.                                                                   *)
LEMMA DeliverCancelKind ==
    ASSUME Base, NEW r \in Runs, DeliverCancel(r)
    PROVE  /\ Apart(r) /\ HandlersStay /\ SameOrphan(r) /\ errors' = errors
           /\ r \in cancelReq /\ r \notin cancelReq' /\ ~QP!Ready(r)'
           /\ \/ SameRow(r)
              \/ /\ proc[r].pc = "commit"
                 /\ status'[r] = (IF proc[r].goal = proc[r].seen
                                  THEN status[r] ELSE proc[r].goal)
                 /\ proc[r].op # "plan" => plan'[r] = plan[r]
           /\ \/ /\ proc[r].scope \in {"graph", "try"}
                 /\ Calls(r, "set", "cancelled", "handler")
                 /\ task[r] = "running" => task'[r] = "running"
              \/ /\ proc[r].scope \notin {"graph", "try"}
                 /\ proc'[r] = Rest(r)
                 /\ task'[r] # "running"
PROOF
  <1>1. Typed /\ QP!IInv
    BY DEF Base
  <1>2. r \in cancelReq /\ InterruptedWrite(r) /\ UNCHANGED errorVars
    BY DEF DeliverCancel
  <1>3. errors' = errors /\ \A q \in Runs : SameOrphan(q)
    BY <1>2 DEF errorVars, SameOrphan
  <1>4. /\ SameRows(r)
        /\ \/ SameRow(r)
           \/ /\ proc[r].pc = "commit"
              /\ status'[r] = (IF proc[r].goal = proc[r].seen
                               THEN status[r] ELSE proc[r].goal)
              /\ proc[r].op # "plan" => plan'[r] = plan[r]
    BY <1>2, InterruptedStatus
  <1>5. Moved(r)
    BY <1>1, DeliverCancelEffect
  <1>6. CASE Queue!DeliverCancel(r)
    <2>1. QP!DeliverCancel(r)
      BY <1>6, SameActions
    <2>2. /\ QP!OthersStay(r)
          /\ ~QP!Ready(r)' /\ r \notin cancelReq'
          /\ task[r] = "running" => task'[r] = "running"
          /\ task[r] = "created" => task'[r] # "running"
      BY <1>1, <2>1, QP!AfterDelivery, ServiceAssumption
    <2>3. Apart(r) /\ HandlersStay
      BY <1>3, <1>4, <1>5, <2>2, WorkerApart
    <2>4. ~Ends(r) \/ task[r] = "created" \/ task'[r] # "running"
      <3>1. ASSUME Ends(r) PROVE task'[r] # "running"
        <4>1. PICK outcome \in QP!Outcomes : QP!WorkEnds(r, outcome)
          BY <3>1 DEF Ends
        <4> QED BY <1>1, <4>1, QP!AfterEnd, ServiceAssumption DEF QP!Away
      <3> QED BY <3>1
    <2>5. Ends(r) => proc'[r] = Rest(r)
      BY DEF Ends
    <2> QED BY <1>1, <1>2, <1>3, <1>4, <2>2, <2>3, <2>4, <2>5, DeliverCancelEffect
  <1>7. CASE Ends(r) /\ proc[r].scope \notin {"graph", "try"}
    <2>1. PICK outcome \in QP!Outcomes : QP!WorkEnds(r, outcome)
      BY <1>7 DEF Ends
    <2>2. QP!OthersStay(r) /\ QP!Away(r)'
      BY <1>1, <2>1, QP!AfterEnd, ServiceAssumption
    <2>3. Apart(r) /\ HandlersStay
      BY <1>3, <1>4, <1>5, <2>2, WorkerApart
    <2> QED BY <1>2, <1>3, <1>4, <1>7, <2>2, <2>3 DEF QP!Away, Ends
  <1> QED BY <1>1, <1>6, <1>7, DeliverCancelEffect

LEMMA WorkerErrorKind ==
    ASSUME Base, NEW r \in Runs, DatabaseError(r)
    PROVE  /\ SameRow(r) /\ errors' # 0
           /\ \/ GoesOn(r) /\ Calls(r, "fail", "failed", "handler")
              \/ IsOver(r) /\ r \in orphaned'
PROOF
  <1>1. Typed /\ r \in Processes /\ r \notin Handlers /\ proc[r].run = r
        /\ WorkerShape(r, proc[r])
    BY WorkerRun DEF Base
  <1>2. CanStep(r) /\ UNCHANGED rowVars /\ errors' = errors + 1
        /\ UsesDatabase(r)
    BY DEF DatabaseError
  <1>3. SameRow(r) /\ SameRows(r) /\ errors' # 0
    BY <1>2, RowsSame, BaseParts DEF SameRows, RowsTyped
  <1>4. CASE Caught(r)
    <2>1. orphaned' = orphaned /\ UNCHANGED queueVars /\ Fails(r)
      BY <1>4 DEF DatabaseError
    <2>2. proc[r].pc # "off"
      BY <1>2 DEF UsesDatabase
    <2>3. Moved(r) /\ Calls(r, "fail", "failed", "handler")
      BY <1>1, <2>1, <2>2, FailsEffect
    <2>4. proc'[r].job = proc[r].job
      BY <2>3 DEF Calls, SameWork
    <2> QED BY <1>2, <1>3, <2>1, <2>3, <2>4, WorkerGoesOn
  <1>5. CASE ~Caught(r)
    <2>1. /\ proc' = [proc EXCEPT ![r] = Rest(r)]
          /\ orphaned' = IF proc[r].pc = "confirm" THEN orphaned
                         ELSE orphaned \cup {r}
          /\ Queue!WorkEnds(r, "exception")
      BY <1>1, <1>5 DEF DatabaseError
    <2>2. proc[r].pc # "confirm"
      BY <1>1 DEF WorkerShape, InHelper, ProcStates, Scopes, Typed, TypeOK
    <2>3. "exception" \in QP!Outcomes
      BY DEF QP!Outcomes
    <2>4. Moved(r) /\ Ends(r)
      BY <1>1, <2>1, <2>3, SameWorkEnds, RestMoves DEF Ends
    <2>5. r \in orphaned' /\ \A q \in Runs : q # r => SameOrphan(q)
      BY <2>1, <2>2 DEF SameOrphan
    <2> QED BY <1>3, <2>4, <2>5, WorkerIsOver
  <1> QED BY <1>4, <1>5

LEMMA StartKind ==
    ASSUME Base, NEW r \in Runs, Start(r)
    PROVE  /\ Apart(r) /\ HandlersStay /\ SameRow(r) /\ SameOrphan(r)
           /\ errors' = errors /\ StepsTo(r, "get")
           /\ QP!Ready(r) /\ proc[r].pc = "off" /\ proc[r].scope = "outside"
           /\ proc[r].job # "none"
           /\ r \notin cancelReq /\ r \notin cancelReq'
           /\ ~QP!Ready(r)' /\ task'[r] = "running"
PROOF
  <1>1. QP!Start(r) /\ UNCHANGED <<rowVars, errorVars>> /\ QP!IInv
    BY SameActions DEF Start, Base
  <1>2. /\ QP!OthersStay(r)
        /\ ~QP!Ready(r)' /\ task'[r] = "running" /\ r \notin cancelReq'
    BY <1>1, QP!AfterStart, ServiceAssumption
  <1>3. QP!Ready(r) /\ r \notin cancelReq
    BY <1>1 DEF QP!Start, QP!Ready
  <1>4. SameRow(r) /\ SameRows(r) /\ errors' = errors
        /\ \A q \in Runs : SameOrphan(q)
    BY <1>1, RowsSame DEF SameRows, errorVars, SameOrphan
  <1>5. Moved(r) /\ StepsTo(r, "get")
    BY StartBase
  <1> QED BY <1>2, <1>3, <1>4, <1>5, WorkerApart DEF Base, Linked

(* Requests.  Request h is idle, or it is served for a run.                *)
LEMMA RequestRun ==
    ASSUME Base, NEW h \in Handlers
    PROVE  /\ h \in Processes /\ h \notin Runs
           /\ proc[h] \in ProcStates /\ HandlerShape(proc[h])
           /\ proc[h].pc = "off" => proc[h].run = NoRun
           /\ proc[h].pc # "off" => proc[h].run \in Runs
           /\ Rest(h).run = NoRun /\ Rest(h).job = "none" /\ Rest(h).pc = "off"
PROOF BY HandlerOf DEF Base, HandlerShape, Rest

LEMMA NewRequestKind ==
    ASSUME Base, NEW h \in Handlers, NEW r \in Runs,
           \/ CreateRequest(h, r) \/ CancelRequest(h, r)
           \/ \E pl \in Plans : ReviewRequest(h, r, pl)
    PROVE  /\ Serves(h, r) /\ SameOrphan(r) /\ errors' = errors
           /\ proc[h].run = NoRun /\ proc'[h].run = r
           /\ \/ /\ status[r] = "absent" /\ status'[r] = "queued"
                 /\ plan'[r] = plan[r]
                 /\ proc'[h].job = "create" /\ proc'[h].pc = "submit"
              \/ /\ SameRow(r)
                 /\ proc'[h].job = "cancel" /\ proc'[h].pc = "dequeue"
              \/ /\ SameRow(r) /\ status[r] = "waiting_for_review"
                 /\ proc'[h].job = "review" /\ proc'[h].pc = "confirm"
PROOF
  <1>1. Typed /\ (proc[h].pc = "off" => proc[h].run = NoRun)
    BY RequestRun DEF Base
  <1>2. CASE CreateRequest(h, r)
    <2>1. /\ proc[h].pc = "off" /\ status[r] = "absent"
          /\ status' = [status EXCEPT ![r] = "queued"]
          /\ UNCHANGED <<queueVars, plan, report, errorVars>>
      BY <1>2 DEF CreateRequest, Free
    <2>2. /\ Moved(h) /\ proc'[h].run = r
          /\ proc'[h].job = "create" /\ proc'[h].pc = "submit"
      BY <1>1, <1>2, CreateEffect
    <2>3. status'[r] = "queued" /\ plan'[r] = plan[r] /\ SameRows(r)
      BY <2>1, BaseParts DEF RowsTyped, SameRows, SameRow
    <2>4. errors' = errors /\ \A q \in Runs : SameOrphan(q)
      BY <2>1 DEF errorVars, SameOrphan
    <2> QED BY <1>1, <2>1, <2>2, <2>3, <2>4, RequestServes
  <1>3. CASE CancelRequest(h, r)
    <2>1. proc[h].pc = "off" /\ UNCHANGED <<queueVars, rowVars, errorVars>>
      BY <1>3 DEF CancelRequest, Free
    <2>2. /\ Moved(h) /\ proc'[h].run = r
          /\ proc'[h].job = "cancel" /\ proc'[h].pc = "dequeue"
      BY <1>1, <1>3, CancelEffect
    <2>3. SameRow(r) /\ SameRows(r) /\ errors' = errors
          /\ \A q \in Runs : SameOrphan(q)
      BY <2>1, RowsSame DEF SameRows, errorVars, SameOrphan
    <2> QED BY <1>1, <2>1, <2>2, <2>3, RequestServes
  <1>4. ASSUME NEW pl \in Plans, ReviewRequest(h, r, pl)
        PROVE  /\ Serves(h, r) /\ SameOrphan(r) /\ errors' = errors
               /\ proc[h].run = NoRun /\ proc'[h].run = r
               /\ SameRow(r) /\ status[r] = "waiting_for_review"
               /\ proc'[h].job = "review" /\ proc'[h].pc = "confirm"
    <2>1. proc[h].pc = "off" /\ UNCHANGED <<queueVars, rowVars, errorVars>>
          /\ status[r] = "waiting_for_review"
      BY <1>4 DEF ReviewRequest, Free
    <2>2. /\ Moved(h) /\ proc'[h].run = r
          /\ proc'[h].job = "review" /\ proc'[h].pc = "confirm"
      BY <1>1, <1>4, ReviewEffect
    <2>3. SameRow(r) /\ SameRows(r) /\ errors' = errors
          /\ \A q \in Runs : SameOrphan(q)
      BY <2>1, RowsSame DEF SameRows, errorVars, SameOrphan
    <2> QED BY <1>1, <2>1, <2>2, <2>3, RequestServes
  <1> QED BY <1>2, <1>3, <1>4

(* A submission that is not accepted.                                      *)
LEMMA NotAcceptedKind ==
    ASSUME Base, NEW h \in Handlers, NEW r \in Runs, proc[h].run = r,
           SubmitRefused(h) \/ SubmitDuplicate(h)
    PROVE  /\ Serves(h, r) /\ SameOrphan(r) /\ SameRow(r) /\ errors' = errors
           /\ proc[h].pc = "submit"
           /\ proc'[h].run = r /\ proc'[h].job = proc[h].job
           /\ \/ proc[h].job = "create" /\ proc'[h].pc = "rollback"
              \/ proc[h].job = "review" /\ proc'[h].pc \in {"submit", "read"}
PROOF
  <1>1. Typed
    BY DEF Base
  <1>2. proc[h].pc = "submit" /\ UNCHANGED <<queueVars, rowVars, errorVars>>
    BY DEF SubmitRefused, SubmitDuplicate
  <1>3. /\ Moved(h) /\ SameWork(h)
        /\ \/ proc[h].job = "create" /\ proc'[h].pc = "rollback"
           \/ proc[h].job = "review" /\ proc'[h].pc \in {"submit", "read"}
    BY <1>1, RefusedEffect, DuplicateEffect DEF StepsTo, Calls
  <1>4. SameRow(r) /\ SameRows(r) /\ errors' = errors
        /\ \A q \in Runs : SameOrphan(q)
    BY <1>2, RowsSame DEF SameRows, errorVars, SameOrphan
  <1> QED BY <1>2, <1>3, <1>4, RequestServes DEF SameWork

LEMMA RollbackKind ==
    ASSUME Base, NEW h \in Handlers, NEW r \in Runs, proc[h].run = r, Rollback(h)
    PROVE  /\ Serves(h, r) /\ SameOrphan(r) /\ errors' = errors
           /\ proc[h].job = "create" /\ proc'[h] = Rest(h)
           /\ status'[r] = "absent" /\ plan'[r] = plan[r]
PROOF
  <1>1. Typed /\ Rest(h).run = NoRun
    BY RequestRun DEF Base
  <1>2. /\ status' = [status EXCEPT ![r] = "absent"]
        /\ UNCHANGED <<queueVars, plan, report, errorVars>>
    BY DEF Rollback
  <1>3. Moved(h) /\ proc'[h] = Rest(h) /\ proc[h].job = "create"
    BY <1>1, RollbackEffect DEF Leaves
  <1>4. status'[r] = "absent" /\ plan'[r] = plan[r] /\ SameRows(r)
    BY <1>2, BaseParts DEF RowsTyped, SameRows, SameRow
  <1>5. errors' = errors /\ \A q \in Runs : SameOrphan(q)
    BY <1>2 DEF errorVars, SameOrphan
  <1> QED BY <1>1, <1>2, <1>3, <1>4, <1>5, RequestServes

LEMMA ConfirmKind ==
    ASSUME Base, NEW h \in Handlers, NEW r \in Runs, proc[h].run = r, Confirm(h)
    PROVE  /\ Serves(h, r) /\ SameOrphan(r) /\ errors' = errors
           /\ proc[h].pc = "confirm"
           /\ \/ /\ status[r] = "waiting_for_review" /\ status'[r] = "researching"
                 /\ StepsTo(h, "submit") /\ proc[h].job = "review"
              \/ SameRow(r) /\ proc'[h] = Rest(h)
PROOF
  <1>1. Typed /\ Rest(h).run = NoRun
    BY RequestRun DEF Base
  <1>2. proc[h].pc = "confirm" /\ UNCHANGED <<queueVars, report, errorVars>>
    BY DEF Confirm
  <1>3. errors' = errors /\ \A q \in Runs : SameOrphan(q)
    BY <1>2 DEF errorVars, SameOrphan
  <1>4. CASE UnderReview(r)
    <2>1. /\ status' = [status EXCEPT ![r] = "researching"]
          /\ plan' = [plan EXCEPT ![r] = proc[h].plan]
      BY <1>4 DEF Confirm
    <2>2. Moved(h) /\ StepsTo(h, "submit") /\ proc[h].job = "review"
      BY <1>1, <1>4, ConfirmEffect
    <2>3. status'[r] = "researching" /\ SameRows(r)
      BY <1>2, <2>1, BaseParts DEF RowsTyped, SameRows, SameRow
    <2>4. proc'[h].run = r
      BY <2>2 DEF StepsTo, SameWork
    <2> QED BY <1>2, <1>3, <1>4, <2>2, <2>3, <2>4, RequestServes DEF UnderReview
  <1>5. CASE ~UnderReview(r)
    <2>1. UNCHANGED rowVars
      BY <1>2, <1>5 DEF Confirm, rowVars
    <2>2. Moved(h) /\ proc'[h] = Rest(h)
      BY <1>1, <1>5, ConfirmEffect DEF Leaves
    <2>3. SameRow(r) /\ SameRows(r)
      BY <2>1, RowsSame DEF SameRows
    <2> QED BY <1>1, <1>2, <1>3, <2>2, <2>3, RequestServes
  <1> QED BY <1>4, <1>5

(* A request returns from its helper to its end.                           *)
LEMMA RequestReturns ==
    ASSUME Base, NEW h \in Handlers, InHelper(proc[h]), Return(h)
    PROVE  Moved(h) /\ proc'[h] = Rest(h) /\ UNCHANGED queueVars
PROOF
  <1>1. Typed /\ h \in Processes /\ h \notin Runs
    BY RequestRun DEF Base
  <1>2. ~Ends(h)
    BY <1>1 DEF Ends
  <1> QED BY <1>1, <1>2, ReturnEffect

LEMMA RequestReadKind ==
    ASSUME Base, NEW h \in Handlers, NEW r \in Runs, proc[h].run = r, Read(h)
    PROVE  /\ Serves(h, r) /\ SameOrphan(r) /\ SameRow(r) /\ errors' = errors
           /\ proc[h].pc = "read"
           /\ \/ GivesWay(h) /\ proc'[h] = Rest(h)
              \/ ~GivesWay(h) /\ StepsTo(h, "commit") /\ proc'[h].seen = status[r]
PROOF
  <1>1. Typed /\ h \in Processes /\ Rest(h).run = NoRun
    BY RequestRun DEF Base
  <1>2. proc[h].pc = "read" /\ InHelper(proc[h]) /\ UNCHANGED <<rowVars, errorVars>>
    BY DEF Read, InHelper
  <1>3. SameRow(r) /\ SameRows(r) /\ errors' = errors
        /\ \A q \in Runs : SameOrphan(q)
    BY <1>2, RowsSame DEF SameRows, errorVars, SameOrphan
  <1>4. CASE GivesWay(h) /\ Return(h)
    BY <1>1, <1>2, <1>3, <1>4, RequestReturns, RequestServes
  <1>5. CASE ~GivesWay(h) /\ StepsTo(h, "commit") /\ Moved(h)
             /\ proc'[h].seen = status[r] /\ UNCHANGED queueVars
    <2>1. proc'[h].run = r
      BY <1>5 DEF StepsTo, SameWork
    <2> QED BY <1>2, <1>3, <1>5, <2>1, RequestServes
  <1> QED BY <1>1, <1>4, <1>5, ReadEffect

LEMMA RequestCommitKind ==
    ASSUME Base, NEW h \in Handlers, NEW r \in Runs, proc[h].run = r, Commit(h)
    PROVE  /\ Serves(h, r) /\ SameOrphan(r) /\ errors' = errors
           /\ proc[h].pc = "commit" /\ r \notin cancelReq
           /\ StepsTo(h, "publish") /\ plan'[r] = plan[r]
           /\ status'[r] = (IF proc[h].goal = proc[h].seen
                            THEN status[r] ELSE proc[h].goal)
PROOF
  <1>1. Typed /\ h \in Processes /\ HandlerShape(proc[h])
    BY RequestRun DEF Base
  <1>2. /\ proc[h].pc = "commit" /\ r \notin cancelReq
        /\ UNCHANGED <<queueVars, errorVars>> /\ Write(h)
    BY DEF Commit
  <1>3. Moved(h) /\ StepsTo(h, "publish")
    BY <1>1, CommitEffect
  <1>4. proc[h].op # "plan"
    BY <1>1, <1>2 DEF HandlerShape, InHelper
  <1>5. /\ status'[r] = (IF proc[h].goal = proc[h].seen
                         THEN status[r] ELSE proc[h].goal)
        /\ plan'[r] = plan[r] /\ SameRows(r)
    BY <1>1, <1>2, <1>4, WriteStatus
  <1>6. errors' = errors /\ \A q \in Runs : SameOrphan(q)
    BY <1>2 DEF errorVars, SameOrphan
  <1>7. proc'[h].run = r
    BY <1>3 DEF StepsTo, SameWork
  <1> QED BY <1>2, <1>3, <1>5, <1>6, <1>7, RequestServes

LEMMA RequestPublishKind ==
    ASSUME Base, NEW h \in Handlers, NEW r \in Runs, proc[h].run = r, Publish(h)
    PROVE  /\ Serves(h, r) /\ SameOrphan(r) /\ SameRow(r) /\ errors' = errors
           /\ proc[h].pc = "publish" /\ proc'[h] = Rest(h)
PROOF
  <1>1. Rest(h).run = NoRun
    BY RequestRun
  <1>2. /\ proc[h].pc = "publish" /\ InHelper(proc[h]) /\ Return(h)
        /\ UNCHANGED <<rowVars, errorVars>>
    BY DEF Publish, InHelper
  <1>3. SameRow(r) /\ SameRows(r) /\ errors' = errors
        /\ \A q \in Runs : SameOrphan(q)
    BY <1>2, RowsSame DEF SameRows, errorVars, SameOrphan
  <1> QED BY <1>1, <1>2, <1>3, RequestReturns, RequestServes

LEMMA RequestErrorKind ==
    ASSUME Base, NEW h \in Handlers, NEW r \in Runs, proc[h].run = r, DatabaseError(h)
    PROVE  /\ Serves(h, r) /\ SameRow(r) /\ errors' # 0
           /\ proc'[h] = Rest(h)
           /\ r \in orphaned' \/ (proc[h].pc = "confirm" /\ SameOrphan(r))
PROOF
  <1>1. /\ Typed /\ h \in Processes /\ h \notin Runs /\ Rest(h).run = NoRun
        /\ proc[h].scope = "outside"
    BY RequestRun DEF Base, HandlerShape
  <1>2. ~Caught(h)
    BY <1>1 DEF Caught
  <1>3. /\ proc' = [proc EXCEPT ![h] = Rest(h)]
        /\ orphaned' = IF proc[h].pc = "confirm" THEN orphaned
                       ELSE orphaned \cup {r}
        /\ UNCHANGED queueVars /\ UNCHANGED rowVars /\ errors' = errors + 1
    BY <1>1, <1>2 DEF DatabaseError
  <1>4. Moved(h) /\ proc'[h] = Rest(h)
    BY <1>1, <1>3, RestMoves
  <1>5. SameRow(r) /\ SameRows(r) /\ errors' # 0
    BY <1>3, RowsSame, BaseParts DEF SameRows, RowsTyped
  <1>6. \A q \in Runs : q # r => SameOrphan(q)
    BY <1>3 DEF SameOrphan
  <1>7. r \in orphaned' \/ (proc[h].pc = "confirm" /\ SameOrphan(r))
    BY <1>3 DEF SameOrphan
  <1> QED BY <1>1, <1>3, <1>4, <1>5, <1>6, <1>7, RequestServes

(* A submission that is accepted: the worker of r waits to be called.      *)
LEMMA AcceptedKind ==
    ASSUME Base, NEW h \in Handlers, NEW r \in Runs, proc[h].run = r, SubmitAccepted(h)
    PROVE  /\ Apart(r) /\ SameOrphan(r) /\ SameRow(r) /\ errors' = errors
           /\ \A g \in Handlers : g # h => proc'[g] = proc[g]
           /\ proc[h].pc = "submit"
           /\ QP!Ready(r)' /\ task'[r] # "running" /\ r \notin cancelReq'
           /\ \/ proc[h].job = "create" /\ proc'[h] = Rest(h)
              \/ proc[h].job = "review" /\ SameWork(h) /\ proc'[h].pc = "publish"
           /\ proc'[r].pc = "off" /\ proc'[r].scope = "outside"
           /\ proc'[r].op = "none" /\ proc'[r].goal = "absent"
           /\ proc'[r].job = (IF proc[h].job = "create" THEN "planning" ELSE "research")
PROOF
  <1>1. Typed /\ QP!IInv /\ h \in Processes /\ h \notin Runs /\ Rest(h).run = NoRun
    BY RequestRun DEF Base
  <1>2. /\ proc[h].pc = "submit" /\ UNCHANGED <<rowVars, errorVars>>
        /\ Queue!SubmitStarts(r) \/ Queue!SubmitWaits(r)
    BY DEF SubmitAccepted
  <1>3. QP!OthersStay(r) /\ QP!Ready(r)' /\ task'[r] # "running" /\ r \notin cancelReq'
    <2>1. QP!SubmitStarts(r) \/ QP!SubmitWaits(r)
      BY <1>2, SameActions
    <2> QED BY <1>1, <2>1, QP!AfterSubmit, ServiceAssumption
  <1>4. SameRow(r) /\ SameRows(r) /\ errors' = errors
        /\ \A q \in Runs : SameOrphan(q)
    BY <1>2, RowsSame DEF SameRows, errorVars, SameOrphan
  <1>5. /\ \A q \in Processes : q # h /\ q # r => proc'[q] = proc[q]
        /\ \/ proc[h].job = "create" /\ proc'[h] = Rest(h)
           \/ proc[h].job = "review" /\ SameWork(h) /\ proc'[h].pc = "publish"
        /\ proc'[r].pc = "off" /\ proc'[r].scope = "outside"
        /\ proc'[r].op = "none" /\ proc'[r].goal = "absent"
        /\ proc'[r].job = (IF proc[h].job = "create" THEN "planning" ELSE "research")
    BY <1>1, AcceptedEffect
  <1>6. proc'[h].run \in {r, NoRun}
    BY <1>1, <1>5 DEF SameWork
  <1>7. \A g \in Handlers : g # h => proc'[g] = proc[g]
    BY <1>5, RunsAreNoHandlers, Names
  <1>8. \A q \in Runs \ {r} : proc'[q] = proc[q]
    BY <1>1, <1>5, Names
  <1>9. Apart(r)
    BY <1>3, <1>4, <1>6, <1>7, <1>8
       DEF Apart, QP!OthersStay, SameRows, SameOrphan
  <1> QED BY <1>2, <1>3, <1>4, <1>5, <1>7, <1>9

(* A cancellation reaches the queue: the worker of r is told, or taken out *)
(* of the line, or there is none.                                          *)
LEMMA DequeueKind ==
    ASSUME Base, NEW h \in Handlers, NEW r \in Runs, proc[h].run = r, Dequeue(h)
    PROVE  /\ Apart(r) /\ SameOrphan(r) /\ SameRow(r) /\ errors' = errors
           /\ \A g \in Handlers : g # h => proc'[g] = proc[g]
           /\ proc[h].pc = "dequeue" /\ proc[h].job = "cancel"
           /\ Calls(h, "set", "cancelled", "outside")
           /\ \/ /\ proc'[r] = proc[r]
                 /\ QP!Ready(r)' <=> QP!Ready(r)
                 /\ task'[r] = "running" <=> task[r] = "running"
                 /\ QP!Ready(r) \/ task[r] = "running" => r \in cancelReq'
              \/ proc'[r] = Rest(r) /\ QP!Away(r)'
PROOF
  <1>1. Typed /\ QP!IInv /\ h \in Processes /\ h \notin Runs
    BY RequestRun DEF Base
  <1>2. /\ proc[h].pc = "dequeue" /\ UNCHANGED <<rowVars, errorVars>>
        /\ \/ Queue!CancelActive(r)
           \/ Queue!CancelWaiting(r) /\ proc'[r] = Rest(r)
           \/ ~Queue!Duplicate(r) /\ UNCHANGED queueVars /\ proc'[r] = proc[r]
    BY <1>1, Names DEF Dequeue, Typed, TypeOK
  <1>3. /\ proc[h].job = "cancel"
        /\ Calls(h, "set", "cancelled", "outside")
        /\ \A q \in Processes : q # h /\ q # r => proc'[q] = proc[q]
        /\ \/ /\ proc'[r] = proc[r]
              /\ Queue!CancelActive(r) \/ UNCHANGED queueVars
           \/ /\ proc'[r] = Rest(r)
              /\ Queue!CancelWaiting(r)
    BY <1>1, DequeueEffect
  <1>4. SameRow(r) /\ SameRows(r) /\ errors' = errors
        /\ \A q \in Runs : SameOrphan(q)
    BY <1>2, RowsSame DEF SameRows, errorVars, SameOrphan
  <1>5. \A g \in Handlers : g # h => proc'[g] = proc[g]
    BY <1>3, RunsAreNoHandlers, Names
  <1>6. \A q \in Runs \ {r} : proc'[q] = proc[q]
    BY <1>1, <1>3, Names
  <1>7. proc'[h].run = r
    BY <1>3 DEF Calls, SameWork
  <1>8. QP!OthersStay(r) => Apart(r)
    BY <1>4, <1>5, <1>6, <1>7 DEF Apart, QP!OthersStay, SameRows, SameOrphan
  <1>9. CASE Queue!CancelActive(r)
    <2>1. QP!CancelActive(r)
      BY <1>9, SameActions
    <2>2. /\ QP!OthersStay(r)
          /\ QP!Ready(r)' <=> QP!Ready(r)
          /\ task'[r] = "running" <=> task[r] = "running"
          /\ QP!Ready(r) \/ task[r] = "running" => r \in cancelReq'
      BY <1>1, <2>1, QP!AfterCancelActive, ServiceAssumption
    <2>3. ~Queue!CancelWaiting(r)
      BY <1>9 DEF Queue!CancelActive, Queue!CancelWaiting
    <2> QED BY <1>2, <1>3, <1>4, <1>5, <1>8, <2>2, <2>3
  <1>10. CASE Queue!CancelWaiting(r) /\ proc'[r] = Rest(r)
    <2>1. QP!CancelWaiting(r)
      BY <1>10, SameActions
    <2>2. QP!OthersStay(r) /\ QP!Away(r)'
      BY <1>1, <2>1, QP!AfterCancelWaiting, ServiceAssumption
    <2> QED BY <1>2, <1>3, <1>4, <1>5, <1>8, <1>10, <2>2
  <1>11. CASE ~Queue!Duplicate(r) /\ UNCHANGED queueVars /\ proc'[r] = proc[r]
    <2>1. QP!OthersStay(r) /\ QP!SameTask(r)
      BY <1>11, QuietOthers
    <2>2. ~QP!Ready(r) /\ task[r] # "running"
      <3>1. r \notin QP!Active /\ r \notin QP!Waiting
        BY <1>11, SameViews DEF QP!Duplicate
      <3> QED BY <3>1 DEF QP!Ready, QP!Active
    <2> QED BY <1>2, <1>3, <1>4, <1>5, <1>8, <1>11, <2>1, <2>2 DEF QP!SameTask
  <1> QED BY <1>2, <1>3, <1>9, <1>10, <1>11

-----------------------------------------------------------------------------
(* A worker has something to do exactly while its task is in the queue.    *)

Busy(r) == proc[r].job # "none" <=> QP!Ready(r) \/ task[r] = "running"

BusyInv == \A r \in Runs : Busy(r)

LEMMA BusyApart ==
    ASSUME BusyInv, NEW r \in Runs, Apart(r), Busy(r)'
    PROVE  BusyInv'
PROOF
  <1> SUFFICES ASSUME NEW q \in Runs, q # r PROVE Busy(q)'
    BY DEF BusyInv
  <1>1. QP!SameTask(q) /\ proc'[q] = proc[q] /\ Busy(q)
    BY DEF Apart, BusyInv
  <1> QED BY <1>1 DEF Busy, QP!SameTask

LEMMA BusyGoesOn ==
    ASSUME BusyInv, NEW r \in Runs, GoesOn(r)
    PROVE  BusyInv'
PROOF
  <1>1. QP!SameTask(r) /\ proc'[r].job = proc[r].job /\ Busy(r) /\ Apart(r)
    BY QuietOthers DEF GoesOn, BusyInv
  <1> QED BY <1>1, BusyApart DEF Busy, QP!SameTask

LEMMA BusyIsOver ==
    ASSUME BusyInv, NEW r \in Runs, IsOver(r)
    PROVE  BusyInv'
PROOF
  <1>1. proc'[r].job = "none" /\ ~QP!Ready(r)' /\ task'[r] # "running" /\ Apart(r)
    BY DEF IsOver, QP!Away, Rest
  <1> QED BY <1>1, BusyApart DEF Busy

LEMMA BusyServes ==
    ASSUME BusyInv, NEW h \in Handlers, NEW r \in Runs, Serves(h, r)
    PROVE  BusyInv'
PROOF
  <1>1. QP!SameTask(r) /\ Apart(r) /\ Busy(r) /\ proc'[r] = proc[r]
    BY QuietOthers, RunsAreNoHandlers, Names DEF Serves, BusyInv
  <1> QED BY <1>1, BusyApart DEF Busy, QP!SameTask

LEMMA BusyWork ==
    ASSUME Base, BusyInv, NEW r \in Runs,
           \/ BeginPlanning(r) \/ BeginResearch(r) \/ GraphProgress(r)
           \/ PlanReady(r) \/ ReportReady(r) \/ GraphFails(r)
           \/ Read(r) \/ Commit(r) \/ Publish(r)
           \/ Timeout(r) \/ DatabaseError(r)
    PROVE  BusyInv'
PROOF
  <1>1. GoesOn(r) \/ IsOver(r)
    BY WorkGoesOn, BeginResearchKind, WorkerReadKind, WorkerCommitKind,
       WorkerPublishKind, TimeoutKind, WorkerErrorKind
  <1> QED BY <1>1, BusyGoesOn, BusyIsOver

LEMMA BusyQueue ==
    ASSUME Base, BusyInv, NEW r \in Runs,
           \/ Start(r) \/ DeliverCancel(r)
           \/ \E h \in Handlers :
                 proc[h].run = r /\ (SubmitAccepted(h) \/ Dequeue(h))
    PROVE  BusyInv'
PROOF
  <1>1. Busy(r)
    BY DEF BusyInv
  <1>2. CASE Start(r)
    <2>1. /\ Apart(r) /\ proc'[r].job # "none" /\ task'[r] = "running"
      BY <1>2, StartKind DEF StepsTo, SameWork
    <2> QED BY <2>1, BusyApart DEF Busy
  <1>3. CASE DeliverCancel(r)
    <2>1. Apart(r) /\ ~QP!Ready(r)'
      BY <1>3, DeliverCancelKind
    <2>2. CASE /\ proc[r].scope \in {"graph", "try"}
               /\ Calls(r, "set", "cancelled", "handler")
               /\ task[r] = "running" => task'[r] = "running"
      <3>1. proc'[r].job = proc[r].job /\ proc[r].job # "none"
        BY <2>2, WorkerRun DEF Calls, SameWork, WorkerShape, InHelper
      <3>2. ~QP!Ready(r)
        BY <2>2 DEF Base, Linked
      <3> QED BY <1>1, <2>1, <2>2, <3>1, <3>2, BusyApart DEF Busy
    <2>3. CASE proc'[r] = Rest(r) /\ task'[r] # "running"
      BY <2>1, <2>3, BusyApart DEF Busy, Rest
    <2> QED BY <1>3, <2>2, <2>3, DeliverCancelKind
  <1>4. ASSUME NEW h \in Handlers, proc[h].run = r, SubmitAccepted(h)
        PROVE  BusyInv'
    <2>1. Apart(r) /\ QP!Ready(r)' /\ proc'[r].job # "none"
      BY <1>4, AcceptedKind
    <2> QED BY <2>1, BusyApart DEF Busy
  <1>5. ASSUME NEW h \in Handlers, proc[h].run = r, Dequeue(h)
        PROVE  BusyInv'
    <2>1. /\ Apart(r)
          /\ \/ /\ proc'[r] = proc[r]
                /\ QP!Ready(r)' <=> QP!Ready(r)
                /\ task'[r] = "running" <=> task[r] = "running"
             \/ proc'[r] = Rest(r) /\ QP!Away(r)'
      BY <1>5, DequeueKind
    <2> QED BY <1>1, <2>1, BusyApart DEF Busy, QP!Away, Rest
  <1> QED BY <1>2, <1>3, <1>4, <1>5

LEMMA RequestIsServed ==
    ASSUME Base, NEW h \in Handlers, proc[h].pc # "off"
    PROVE  \E r \in Runs : proc[h].run = r
PROOF BY RequestRun

LEMMA BusyRequests ==
    ASSUME Base, BusyInv, NEW h \in Handlers, NEW r \in Runs,
           \/ CreateRequest(h, r) \/ CancelRequest(h, r)
           \/ \E pl \in Plans : ReviewRequest(h, r, pl)
           \/ /\ proc[h].run = r
              /\ \/ SubmitRefused(h) \/ SubmitDuplicate(h)
                 \/ Rollback(h) \/ Confirm(h)
                 \/ Read(h) \/ Commit(h) \/ Publish(h) \/ DatabaseError(h)
    PROVE  BusyInv'
PROOF
  <1>1. Serves(h, r)
    BY NewRequestKind, NotAcceptedKind, RollbackKind, ConfirmKind, RequestReadKind,
       RequestCommitKind, RequestPublishKind, RequestErrorKind
  <1> QED BY <1>1, BusyServes

-----------------------------------------------------------------------------
(* Every step of the service is a step on one run or one of the process.   *)

WorkerStep(r) ==
    \/ Start(r) \/ DeliverCancel(r) \/ Timeout(r) \/ DatabaseError(r)
    \/ BeginPlanning(r) \/ BeginResearch(r) \/ GraphProgress(r)
    \/ PlanReady(r) \/ ReportReady(r) \/ GraphFails(r)
    \/ Read(r) \/ Commit(r) \/ Publish(r)

RequestStep(h, r) ==
    \/ CreateRequest(h, r) \/ CancelRequest(h, r)
    \/ \E pl \in Plans : ReviewRequest(h, r, pl)
    \/ /\ proc[h].run = r
       /\ \/ SubmitAccepted(h) \/ SubmitRefused(h) \/ SubmitDuplicate(h)
          \/ Rollback(h) \/ Confirm(h) \/ Dequeue(h)
          \/ Read(h) \/ Commit(h) \/ Publish(h) \/ DatabaseError(h)

ProcessStep == Shutdown \/ ShutdownReturns \/ Restart \/ UNCHANGED vars

LEMMA Steps ==
    ASSUME Base, [Next]_vars
    PROVE  \/ \E r \in Runs : WorkerStep(r)
           \/ \E h \in Handlers, r \in Runs : RequestStep(h, r)
           \/ ProcessStep
PROOF
  <1>1. ASSUME NEW r \in Runs,
               \/ Start(r) \/ BeginPlanning(r) \/ BeginResearch(r) \/ GraphProgress(r)
               \/ PlanReady(r) \/ ReportReady(r) \/ GraphFails(r)
               \/ Timeout(r) \/ DeliverCancel(r)
        PROVE  WorkerStep(r)
    BY <1>1 DEF WorkerStep
  <1>2. ASSUME NEW p \in Processes, HelperStep(p) \/ DatabaseError(p)
        PROVE  \/ \E r \in Runs : WorkerStep(r)
               \/ \E h \in Handlers, r \in Runs : RequestStep(h, r)
    <2>1. CASE p \in Runs
      <3>1. WorkerStep(p)
        BY <1>2, <2>1 DEF WorkerStep, HelperStep
      <3> QED BY <2>1, <3>1
    <2>2. CASE p \in Handlers
      <3>1. proc[p].pc # "off"
        BY <1>2 DEF HelperStep, Read, Commit, Publish, DatabaseError, UsesDatabase
      <3>2. PICK r \in Runs : proc[p].run = r
        BY <2>2, <3>1, RequestIsServed
      <3>3. RequestStep(p, r)
        BY <1>2, <3>2 DEF RequestStep, HelperStep
      <3> QED BY <2>2, <3>3
    <2> QED BY <2>1, <2>2 DEF Processes
  <1>3. ASSUME NEW h \in Handlers, HandlerStep(h)
        PROVE  \E r \in Runs : RequestStep(h, r)
    <2>1. proc[h].pc # "off"
      BY <1>3 DEF HandlerStep, SubmitAccepted, SubmitRefused, SubmitDuplicate,
                  Rollback, Confirm, Dequeue
    <2>2. PICK r \in Runs : proc[h].run = r
      BY <2>1, RequestIsServed
    <2>3. RequestStep(h, r)
      BY <1>3, <2>2 DEF RequestStep, HandlerStep
    <2> QED BY <2>3
  <1>4. ASSUME NEW h \in Handlers, NEW r \in Runs,
               \/ CreateRequest(h, r) \/ CancelRequest(h, r)
               \/ \E pl \in Plans : ReviewRequest(h, r, pl)
        PROVE  RequestStep(h, r)
    BY <1>4 DEF RequestStep
  <1> QED BY <1>1, <1>2, <1>3, <1>4 DEF Next, ProcessStep

LEMMA BusyProcess ==
    ASSUME Base, BusyInv, ProcessStep
    PROVE  BusyInv'
PROOF
  <1> SUFFICES ASSUME NEW r \in Runs PROVE Busy(r)'
    BY DEF BusyInv
  <1>1. Busy(r) /\ r \in Processes
    BY Names DEF BusyInv
  <1>2. CASE Shutdown
    <2>1. /\ QP!Shutdown /\ Queue!Waiting = QP!Waiting
      BY <1>2, SameProcessActions, SameViews DEF Shutdown
    <2>2. proc'[r] = IF r \in QP!Waiting THEN Rest(r) ELSE proc[r]
      BY <1>1, <1>2, <2>1 DEF Shutdown
    <2>3. task' = task /\ QP!Waiting' = {}
      BY <2>1 DEF QP!Shutdown, QP!LineDropped, QP!Waiting, QP!ToSet
    <2>4. r \in QP!Waiting => task[r] = "none"
      BY DEF Base, QP!IInv, QP!AdmittedOnce, QP!Active
    <2> QED BY <1>1, <2>2, <2>3, <2>4 DEF Busy, Rest, QP!Ready
  <1>3. CASE Restart
    <2>1. proc'[r] = Rest(r) /\ QP!Restart
      BY <1>1, <1>3, SameProcessActions DEF Restart
    <2> QED BY <2>1 DEF QP!Restart, Busy, Rest, QP!Ready, QP!Waiting, QP!ToSet
  <1>4. CASE ShutdownReturns \/ UNCHANGED vars
    <2>1. proc' = proc /\ task' = task /\ waiting' = waiting
      BY <1>4, SameProcessActions DEF ShutdownReturns, QP!ShutdownReturns, vars, queueVars
    <2> QED BY <1>1, <2>1 DEF Busy, QP!Ready, QP!Waiting
  <1> QED BY <1>2, <1>3, <1>4 DEF ProcessStep

LEMMA InitBusy == Init => BusyInv
PROOF
  <1> SUFFICES ASSUME Init, NEW r \in Runs PROVE Busy(r)
    BY DEF BusyInv
  <1>1. proc[r] = Rest(r) /\ QP!Init
    BY Names, SameProcessActions DEF Init
  <1> QED BY <1>1 DEF QP!Init, Busy, Rest, QP!Ready, QP!Waiting, QP!ToSet

LEMMA NextBusy == Base /\ BusyInv /\ [Next]_vars => BusyInv'
PROOF
  <1> SUFFICES ASSUME Base, BusyInv, [Next]_vars PROVE BusyInv'
    OBVIOUS
  <1>1. ASSUME NEW r \in Runs, WorkerStep(r) PROVE BusyInv'
    BY <1>1, BusyWork, BusyQueue DEF WorkerStep
  <1>2. ASSUME NEW h \in Handlers, NEW r \in Runs, RequestStep(h, r) PROVE BusyInv'
    BY <1>2, BusyRequests, BusyQueue DEF RequestStep
  <1> QED BY <1>1, <1>2, BusyProcess, Steps

-----------------------------------------------------------------------------
(* Where a run stands, by what its worker is doing.                        *)

(* The research worker has not looked at its run yet.                      *)
NotBegun(r) == proc[r].job = "research" /\ proc[r].pc \in {"off", "get"}

(* Between the confirmation of a review and the first step of research     *)
(* nobody moves the run but those who end it.                              *)
Fresh(r) ==
    /\ (\E h \in Handlers : Confirmed(h, r)) \/ NotBegun(r)
          => status[r] \in {"researching", "cancelled", "failed"}
    /\ NotBegun(r) => proc[r].goal = "absent" /\ proc[r].op = "none"

(* Until its plan is stored, a run is moved by its planning worker only:   *)
(* whoever cancels it has the queue cancel the worker first.               *)
Early(r) ==
    PlanPending(r) =>
        /\ status[r] \in {"queued", "planning"}
        /\ status[r] = "queued" =>
              /\ proc[r].scope = "outside"
              /\ proc[r].pc \in {"off", "get", "read", "commit"}
              /\ proc[r].pc = "commit" => proc[r].seen = "queued"
        /\ r \in cancelReq
           \/ \A h \in Handlers : proc[h].run = r => proc[h].pc = "dequeue"

(* The statuses a research worker w has brought its run to.                *)
About(w) == w.pc \in {"read", "commit"}
Reached(w) ==
    IF w.goal = "completed" THEN {"writing", "verifying"}
    ELSE IF w.goal = "verifying" THEN IF About(w) THEN {"writing"} ELSE {"verifying"}
    ELSE IF w.goal = "writing" THEN IF About(w) THEN {"researching"} ELSE {"writing"}
    ELSE {"researching"}

Stage(r) ==
    ReportPending(r) /\ ~NotBegun(r) =>
        /\ status[r] \in Reached(proc[r]) \cup {"cancelled"}
        /\ proc[r].pc = "commit" => proc[r].seen \in Reached(proc[r])

(* With no database error, only a planning worker without plan fails.      *)
Unplanned(r) ==
    proc[r].job = "planning" /\ proc[r].op = "fail" /\ errors = 0 => plan[r] = NoPlan

Course(r) ==
    Fresh(r) /\ Early(r) /\ Stage(r) /\ Unplanned(r) /\ status[r] # "expired"

CourseInv == \A r \in Runs : Course(r)

LEMMA CourseApart ==
    ASSUME CourseInv, NEW r \in Runs, Apart(r), ErrorsKept, Course(r)'
    PROVE  CourseInv'
PROOF
  <1> SUFFICES ASSUME NEW q \in Runs, q # r PROVE Course(q)'
    BY DEF CourseInv
  <1>1. /\ QP!SameTask(q) /\ SameRow(q) /\ proc'[q] = proc[q] /\ Course(q)
    BY DEF Apart, CourseInv
  <1>2. \A h \in Handlers : proc'[h] = proc[h] \/ (proc[h].run # q /\ proc'[h].run # q)
    BY RunsAreNoHandlers DEF Apart
  <1>3. \A h \in Handlers : Confirmed(h, q)' => Confirmed(h, q)
    BY <1>2 DEF Confirmed
  <1>4. /\ NotBegun(q)' <=> NotBegun(q)
        /\ PlanPending(q)' <=> PlanPending(q)
        /\ ReportPending(q)' <=> ReportPending(q)
    BY <1>1 DEF NotBegun, PlanPending, ReportPending
  <1>5. Fresh(q)'
    BY <1>1, <1>3, <1>4 DEF Course, Fresh, SameRow
  <1>6. Early(q)'
    BY <1>1, <1>2, <1>4 DEF Course, Early, SameRow, QP!SameTask
  <1>7. Stage(q)'
    BY <1>1, <1>4 DEF Course, Stage, SameRow, Reached, About
  <1>8. Unplanned(q)' /\ status'[q] # "expired"
    BY <1>1 DEF Course, Unplanned, SameRow, ErrorsKept
  <1> QED BY <1>5, <1>6, <1>7, <1>8 DEF Course

(* While a confirmed review waits to be submitted, no worker has anything  *)
(* to write but an end.                                                    *)
LEMMA ConfirmedAlone ==
    ASSUME NEW r \in Runs, RowInv(r), NEW h \in Handlers, Confirmed(h, r)
    PROVE  ~PlanPending(r) /\ proc[r].job # "research"
PROOF BY DEF RowInv, Planning, Confirmation, Confirmed

(* The worker of r has nothing to report any more.                         *)
LEMMA CourseEnds ==
    ASSUME NEW r \in Runs, Course(r), HandlersStay,
           ~NotBegun(r)', ~PlanPending(r)', ~ReportPending(r)', Unplanned(r)',
           status'[r] # "expired",
           (\E h \in Handlers : Confirmed(h, r)) =>
                status'[r] \in {status[r], "failed", "cancelled"}
    PROVE  Course(r)'
PROOF
  <1>1. \A h \in Handlers : Confirmed(h, r)' <=> Confirmed(h, r)
    BY DEF HandlersStay, Confirmed
  <1>2. Fresh(r)'
    BY <1>1 DEF Course, Fresh
  <1> QED BY <1>2 DEF Course, Early, Stage

LEMMA CourseOver ==
    ASSUME CourseInv, NEW r \in Runs, IsOver(r), SameRow(r), ErrorsKept
    PROVE  CourseInv'
PROOF
  <1>1. proc'[r].job = "none" /\ Apart(r) /\ HandlersStay /\ Course(r)
    BY DEF IsOver, Rest, CourseInv
  <1>2. /\ ~NotBegun(r)' /\ ~PlanPending(r)' /\ ~ReportPending(r)' /\ Unplanned(r)'
    BY <1>1 DEF NotBegun, PlanPending, ReportPending, Unplanned
  <1>3. Course(r)'
    BY <1>1, <1>2, CourseEnds DEF SameRow, Course
  <1> QED BY <1>1, <1>3, CourseApart

(* The worker of r begins to fail its run.                                 *)
LEMMA CourseFails ==
    ASSUME CourseInv, NEW r \in Runs, RowInv(r), Apart(r), HandlersStay, ErrorsKept,
           Calls(r, "fail", "failed", "handler"),
           proc[r].job = "planning" /\ errors' = 0 => PlanPending(r) /\ plan'[r] = plan[r],
           status'[r] # "expired",
           (\E h \in Handlers : Confirmed(h, r)) =>
                status'[r] \in {status[r], "failed", "cancelled"}
    PROVE  CourseInv'
PROOF
  <1>1. Course(r) /\ proc'[r].job = proc[r].job
    BY DEF CourseInv, Calls, SameWork
  <1>2. ~NotBegun(r)' /\ ~PlanPending(r)' /\ ~ReportPending(r)'
    BY DEF NotBegun, PlanPending, ReportPending, Calls
  <1>3. Unplanned(r)'
    BY <1>1 DEF Unplanned, RowInv, Planning
  <1> QED BY <1>1, <1>2, <1>3, CourseEnds, CourseApart

-----------------------------------------------------------------------------
(* The moves of the life cycle.                                            *)

MovesOn(r) == status'[r] = status[r] \/ status'[r] \in Lifecycle!Moves(r)

LEMMA PhaseMoves ==
    ASSUME NEW r \in Runs
    PROVE  /\ status[r] = "absent" => "queued" \in Lifecycle!Moves(r)
           /\ status[r] = "queued" => {"absent", "planning"} \subseteq Lifecycle!Moves(r)
           /\ status[r] = "planning" => "waiting_for_review" \in Lifecycle!Moves(r)
           /\ status[r] = "waiting_for_review" => "researching" \in Lifecycle!Moves(r)
           /\ status[r] = "researching" => "writing" \in Lifecycle!Moves(r)
           /\ status[r] = "writing" =>
                 {"verifying", "completed"} \subseteq Lifecycle!Moves(r)
           /\ status[r] = "verifying" => "completed" \in Lifecycle!Moves(r)
PROOF
  <1>1. Lifecycle!From(Lifecycle!Phases, status[r]) \subseteq Lifecycle!Moves(r)
    BY DEF Lifecycle!Moves
  <1>2. /\ Lifecycle!From(Lifecycle!Phases, "absent") = {"queued"}
        /\ Lifecycle!From(Lifecycle!Phases, "queued") = {"absent", "planning"}
        /\ Lifecycle!From(Lifecycle!Phases, "planning") = {"waiting_for_review"}
        /\ Lifecycle!From(Lifecycle!Phases, "waiting_for_review") = {"researching"}
        /\ Lifecycle!From(Lifecycle!Phases, "researching") = {"writing"}
        /\ Lifecycle!From(Lifecycle!Phases, "writing") = {"verifying", "completed"}
        /\ Lifecycle!From(Lifecycle!Phases, "verifying") = {"completed"}
    BY DEF Lifecycle!From, Lifecycle!Phases
  <1> QED BY <1>1, <1>2

LEMMA OtherMoves ==
    ASSUME NEW r \in Runs
    PROVE  /\ status[r] \in InProgress => "failed" \in Lifecycle!Moves(r)
           /\ status[r] = "cancelled" =>
                 {"writing", "verifying", "completed", "failed"} \subseteq Lifecycle!Moves(r)
           /\ r \in Cancelling /\ status[r] # "absent" =>
                 "cancelled" \in Lifecycle!Moves(r)
           /\ errors > 0 /\ status[r] \in {"completed", "waiting_for_review"} =>
                 "failed" \in Lifecycle!Moves(r)
PROOF
  <1>1. status[r] \in InProgress => "failed" \in Lifecycle!Moves(r)
    BY DEF Lifecycle!Moves, Lifecycle!Failures, InProgress
  <1>2. status[r] = "cancelled" =>
           {"writing", "verifying", "completed", "failed"} \subseteq Lifecycle!Moves(r)
    <2>1. Lifecycle!From(Lifecycle!RaceMoves, "cancelled")
             = {"writing", "verifying", "completed", "failed"}
      BY DEF Lifecycle!From, Lifecycle!RaceMoves
    <2> QED BY <2>1 DEF Lifecycle!Moves
  <1>3. r \in Cancelling /\ status[r] # "absent" => "cancelled" \in Lifecycle!Moves(r)
    BY DEF Lifecycle!Moves, Lifecycle!Cancellations
  <1>4. errors > 0 /\ status[r] \in {"completed", "waiting_for_review"} =>
           "failed" \in Lifecycle!Moves(r)
    <2>1. /\ "failed" \in Lifecycle!From(Lifecycle!ErrorMoves, "completed")
          /\ "failed" \in Lifecycle!From(Lifecycle!ErrorMoves, "waiting_for_review")
      BY DEF Lifecycle!From, Lifecycle!ErrorMoves
    <2> QED BY <2>1 DEF Lifecycle!Moves
  <1> QED BY <1>1, <1>2, <1>3, <1>4

(* A worker writes what its run is to become.                              *)
Writes(p, r) ==
    /\ proc[p].pc = "commit"
    /\ status'[r] = (IF proc[p].goal = proc[p].seen THEN status[r] ELSE proc[p].goal)

LEMMA PlanningWrite ==
    ASSUME Base, NEW r \in Runs, RowInv(r), Course(r), Writes(r, r), PlanPending(r)
    PROVE  /\ MovesOn(r)
           /\ proc[r].op = "set" => status'[r] = "planning"
           /\ status'[r] \in {"queued", "planning", "waiting_for_review"}
PROOF
  <1>1. /\ proc[r].pc = "commit" /\ proc[r].job = "planning"
        /\ \/ proc[r].op = "set" /\ proc[r].goal = "planning"
           \/ /\ proc[r].scope = "try" /\ proc[r].op = "plan"
              /\ proc[r].goal = "waiting_for_review"
    BY WorkerRun, Names DEF WorkerShape, PlanPending, Writes, ProcStates, Scopes, Stages
  <1>2. /\ status[r] \in {"queued", "planning"}
        /\ status[r] = "queued" =>
              proc[r].scope = "outside" /\ proc[r].seen = "queued"
    BY <1>1 DEF Course, Early
  <1>3. /\ status'[r] \in {status[r], proc[r].goal}
        /\ proc[r].goal # proc[r].seen => status'[r] = proc[r].goal
    BY DEF Writes
  <1> QED BY <1>1, <1>2, <1>3, PhaseMoves DEF MovesOn

LEMMA ResearchWrite ==
    ASSUME Base, NEW r \in Runs, RowInv(r), Course(r), Writes(r, r), ReportPending(r)
    PROVE  /\ MovesOn(r)
           /\ proc[r].op = "set" => status'[r] \in {proc[r].goal, "cancelled"}
           /\ status'[r] \in {"researching", "writing", "verifying", "completed", "cancelled"}
           /\ proc[r].op = "set" => proc[r].goal \in {"researching", "writing", "verifying"}
PROOF
  <1>1. /\ proc[r].pc = "commit" /\ ~NotBegun(r)
        /\ \/ proc[r].op = "set" /\ proc[r].goal \in {"researching", "writing", "verifying"}
           \/ proc[r].op = "report" /\ proc[r].goal = "completed"
    BY WorkerRun, Names
       DEF WorkerShape, ReportPending, NotBegun, Writes, ProcStates, Scopes, Stages
  <1>2. /\ status[r] \in Reached(proc[r]) \cup {"cancelled"}
        /\ proc[r].seen \in Reached(proc[r])
    BY <1>1 DEF Course, Stage
  <1>3. status'[r] = (IF proc[r].goal = proc[r].seen THEN status[r] ELSE proc[r].goal)
    BY DEF Writes
  <1>4. CASE proc[r].goal = "researching"
    <2>1. Reached(proc[r]) = {"researching"}
      BY <1>4 DEF Reached
    <2> QED BY <1>1, <1>2, <1>3, <1>4, <2>1 DEF MovesOn
  <1>5. CASE proc[r].goal = "writing"
    <2>1. Reached(proc[r]) = {"researching"}
      BY <1>1, <1>5 DEF Reached, About
    <2> QED BY <1>1, <1>2, <1>3, <1>5, <2>1, PhaseMoves, OtherMoves DEF MovesOn
  <1>6. CASE proc[r].goal = "verifying"
    <2>1. Reached(proc[r]) = {"writing"}
      BY <1>1, <1>6 DEF Reached, About
    <2> QED BY <1>1, <1>2, <1>3, <1>6, <2>1, PhaseMoves, OtherMoves DEF MovesOn
  <1>7. CASE proc[r].goal = "completed"
    <2>1. Reached(proc[r]) = {"writing", "verifying"}
      BY <1>7 DEF Reached
    <2> QED BY <1>1, <1>2, <1>3, <1>7, <2>1, PhaseMoves, OtherMoves DEF MovesOn
  <1> QED BY <1>1, <1>4, <1>5, <1>6, <1>7

(* The end a worker gives its run in an exception handler.                 *)
LEMMA EndWrite ==
    ASSUME Base, NEW r \in Runs, RowInv(r), Course(r), Writes(r, r),
           proc[r].scope = "handler"
    PROVE  MovesOn(r) /\ status'[r] \in {status[r], "failed", "cancelled"}
PROOF
  <1>1. /\ proc[r].pc = "commit" /\ proc[r].run = r /\ r \in Processes
        /\ proc[r].job \in {"planning", "research"}
        /\ \/ proc[r].op = "fail" /\ proc[r].goal = "failed"
           \/ proc[r].op = "set" /\ proc[r].goal = "cancelled"
    BY WorkerRun DEF WorkerShape, Writes
  <1>2. status'[r] \in {status[r], proc[r].goal}
    BY DEF Writes
  <1>3. status[r] # "absent" /\ status[r] # "expired"
    BY <1>1 DEF RowInv, NoRow, Course
  <1>4. CASE proc[r].goal = "cancelled"
    <2>1. r \in Cancelling
      BY <1>1, <1>4 DEF Cancelling
    <2> QED BY <1>2, <1>3, <1>4, <2>1, OtherMoves DEF MovesOn
  <1>5. CASE proc[r].op = "fail" /\ proc[r].goal = "failed"
    <2>1. /\ errors \in Nat /\ status[r] \in Lifecycle!Statuses
      BY BaseParts, ServiceAssumption DEF RowsTyped
    <2>2. status[r] \in {"completed", "waiting_for_review"} => errors > 0
      <3>1. CASE proc[r].job = "planning"
        <4>1. report[r] = NoPlan /\ (errors = 0 => plan[r] = NoPlan)
          BY <1>5, <3>1 DEF RowInv, Planning, Course, Unplanned
        <4> QED BY <2>1, <4>1 DEF RowInv, Outcome
      <3>2. CASE proc[r].job = "research"
        <4>1. status[r] # "waiting_for_review" /\ (errors = 0 => report[r] = NoPlan)
          BY <1>5, <3>2 DEF RowInv, Research, Reviewed
        <4> QED BY <2>1, <4>1 DEF RowInv, Outcome
      <3> QED BY <1>1, <3>1, <3>2
    <2>3. status[r] \in InProgress \cup {"completed", "waiting_for_review", "failed", "cancelled"}
      BY <1>3, <2>1 DEF Lifecycle!Statuses, Lifecycle!InProgress, Lifecycle!Terminal, InProgress
    <2> QED BY <1>2, <1>5, <2>2, <2>3, OtherMoves DEF MovesOn
  <1> QED BY <1>1, <1>4, <1>5

LEMMA WorkerWrite ==
    ASSUME Base, NEW r \in Runs, RowInv(r), Course(r), Writes(r, r)
    PROVE  /\ MovesOn(r) /\ status'[r] # "expired"
           /\ (\E h \in Handlers : Confirmed(h, r)) =>
                 status'[r] \in {status[r], "failed", "cancelled"}
PROOF
  <1>1. /\ proc[r].job \in {"planning", "research"}
        /\ status[r] # "expired"
    BY WorkerRun DEF WorkerShape, Writes, Course
  <1>2. CASE proc[r].scope = "handler"
    BY <1>1, <1>2, EndWrite
  <1>3. CASE proc[r].scope # "handler" /\ proc[r].job = "planning"
    <2>1. PlanPending(r)
      BY <1>3 DEF PlanPending, Writes
    <2> QED BY <2>1, PlanningWrite, ConfirmedAlone
  <1>4. CASE proc[r].scope # "handler" /\ proc[r].job = "research"
    <2>1. ReportPending(r)
      BY <1>4 DEF ReportPending, Writes
    <2> QED BY <1>4, <2>1, ResearchWrite, ConfirmedAlone
  <1> QED BY <1>1, <1>2, <1>3, <1>4

-----------------------------------------------------------------------------
(* The steps of workers keep a run on its course.                          *)

LEMMA CourseGoesOn ==
    ASSUME CourseInv, NEW r \in Runs, GoesOn(r), ErrorsKept,
           ~NotBegun(r)', Stage(r)', Unplanned(r)', status'[r] # "expired",
           PlanPending(r)' =>
               /\ PlanPending(r)
               /\ status'[r] \in {"queued", "planning"}
               /\ status'[r] = "queued" =>
                     /\ proc'[r].scope = "outside"
                     /\ proc'[r].pc \in {"off", "get", "read", "commit"}
                     /\ proc'[r].pc = "commit" => proc'[r].seen = "queued",
           (\E h \in Handlers : Confirmed(h, r)) =>
                status'[r] \in {status[r], "failed", "cancelled"}
    PROVE  CourseInv'
PROOF
  <1>1. Apart(r) /\ HandlersStay /\ Course(r) /\ cancelReq' = cancelReq
    BY DEF GoesOn, CourseInv, queueVars
  <1>2. \A h \in Handlers : Confirmed(h, r)' <=> Confirmed(h, r)
    BY <1>1 DEF HandlersStay, Confirmed
  <1>3. Fresh(r)'
    BY <1>1, <1>2 DEF Course, Fresh
  <1>4. Early(r)'
    BY <1>1 DEF Course, Early, HandlersStay
  <1>5. Course(r)'
    BY <1>3, <1>4 DEF Course
  <1> QED BY <1>1, <1>5, CourseApart

(* Where the worker is in its graph.                                       *)
LEMMA InGraphShape ==
    ASSUME Base, NEW r \in Runs, proc[r].pc = "graph"
    PROVE  /\ proc[r].scope = "graph" /\ proc[r].job \in {"planning", "research"}
           /\ proc[r].job = "planning" => PlanPending(r)
           /\ proc[r].job = "research" => ReportPending(r) /\ ~NotBegun(r)
PROOF
  <1>1. proc[r].scope = "graph" /\ proc[r].job \in {"planning", "research"}
    BY WorkerRun DEF WorkerShape, InHelper, ProcStates, Scopes
  <1> QED BY <1>1 DEF PlanPending, ReportPending, NotBegun

LEMMA CoursePlanningWork ==
    ASSUME Base, RowsInv, CourseInv, NEW r \in Runs, proc[r].job = "planning",
           BeginPlanning(r) \/ GraphProgress(r) \/ PlanReady(r)
    PROVE  CourseInv'
PROOF
  <1>1. /\ GoesOn(r) /\ SameRow(r) /\ errors' = errors
        /\ RowInv(r) /\ Course(r) /\ Typed
    BY WorkGoesOn DEF RowsInv, CourseInv, Base
  <1>2. /\ proc'[r].job = "planning" /\ proc'[r].pc = "read"
        /\ proc'[r].op # "fail" /\ proc'[r].scope # "handler"
        /\ \/ proc'[r].scope = "outside" /\ proc[r].pc = "get"
           \/ proc[r].pc = "graph"
    <2>1. CASE BeginPlanning(r)
      <3>1. proc[r].pc = "get"
        BY <2>1 DEF BeginPlanning
      <3>2. Calls(r, "set", "planning", "outside")
        BY <1>1, <2>1, BeginPlanningEffect
      <3> QED BY <3>1, <3>2 DEF Calls, SameWork
    <2>2. CASE GraphProgress(r)
      <3>1. proc[r].pc = "graph"
        BY <2>2 DEF GraphProgress, InGraph
      <3>2. \E stage \in Stages(proc[r].job) : Calls(r, "set", stage, "graph")
        BY <1>1, <2>2, GraphProgressEffect
      <3> QED BY <3>1, <3>2 DEF Calls, SameWork
    <2>3. CASE PlanReady(r)
      <3>1. proc[r].pc = "graph"
        BY <2>3, Zenon DEF PlanReady, InGraph
      <3>2. /\ proc'[r].job = proc[r].job /\ proc'[r].pc = "read"
            /\ proc'[r].op = "plan" /\ proc'[r].scope = "try"
        BY <1>1, <2>3, PlanReadyEffect
      <3> QED BY <3>1, <3>2
    <2> QED BY <2>1, <2>2, <2>3
  <1>3. PlanPending(r)
    <2>1. proc[r].pc = "get" => proc[r].scope = "outside"
      BY WorkerRun DEF WorkerShape, InHelper, ProcStates, Scopes
    <2> QED BY <1>2, <2>1, InGraphShape DEF PlanPending
  <1>4. proc[r].pc = "graph" => status[r] = "planning"
    BY <1>1, <1>3 DEF Course, Early
  <1>5. /\ ~NotBegun(r)' /\ Stage(r)' /\ Unplanned(r)'
    BY <1>2 DEF NotBegun, Stage, ReportPending, Unplanned
  <1>6. status'[r] = status[r] /\ status[r] \in {"queued", "planning"}
    BY <1>1, <1>3 DEF SameRow, Course, Early
  <1> QED BY <1>1, <1>2, <1>3, <1>4, <1>5, <1>6, CourseGoesOn DEF ErrorsKept

LEMMA CourseResearchWork ==
    ASSUME Base, RowsInv, CourseInv, NEW r \in Runs, proc[r].job = "research",
           GraphProgress(r) \/ ReportReady(r)
    PROVE  CourseInv'
PROOF
  <1>1. /\ GoesOn(r) /\ SameRow(r) /\ errors' = errors
        /\ RowInv(r) /\ Course(r) /\ Typed
    BY WorkGoesOn DEF RowsInv, CourseInv, Base
  <1>2. proc[r].pc = "graph"
    BY DEF GraphProgress, ReportReady, InGraph
  <1>3. status[r] \in Reached(proc[r]) \cup {"cancelled"}
    BY <1>1, <1>2, InGraphShape DEF Course, Stage
  <1>4. /\ proc'[r].job = "research" /\ proc'[r].pc = "read"
        /\ proc'[r].op # "fail" /\ Reached(proc[r]) \subseteq Reached(proc'[r])
    <2>1. CASE GraphProgress(r)
      <3>1. PICK stage \in NextStages(r) : Calls(r, "set", stage, "graph")
        BY <1>1, <2>1, GraphProgressEffect
      <3>2. \/ stage = "researching" /\ proc[r].goal \in {"absent", "researching"}
            \/ stage = "writing" /\ proc[r].goal = "researching"
            \/ stage = "verifying" /\ proc[r].goal = "writing"
        BY DEF NextStages
      <3>3. proc'[r].goal = stage /\ proc'[r].pc = "read"
        BY <3>1 DEF Calls
      <3>4. Reached(proc[r]) \subseteq Reached(proc'[r])
        BY <1>2, <3>2, <3>3 DEF Reached, About
      <3> QED BY <3>1, <3>4 DEF Calls, SameWork
    <2>2. CASE ReportReady(r)
      <3>1. Calls(r, "report", "completed", "try")
        BY <1>1, <2>2, ReportReadyEffect
      <3>2. proc[r].goal \in {"writing", "verifying"}
        BY <2>2 DEF ReportReady
      <3>3. proc'[r].goal = "completed" /\ proc'[r].pc = "read"
        BY <3>1 DEF Calls
      <3>4. Reached(proc[r]) \subseteq Reached(proc'[r])
        BY <1>2, <3>2, <3>3 DEF Reached, About
      <3> QED BY <3>1, <3>4 DEF Calls, SameWork
    <2> QED BY <2>1, <2>2
  <1>5. Stage(r)'
    BY <1>1, <1>3, <1>4 DEF Stage, SameRow
  <1>6. ~NotBegun(r)' /\ ~PlanPending(r)' /\ Unplanned(r)'
    BY <1>4 DEF NotBegun, PlanPending, Unplanned
  <1>7. status'[r] = status[r] /\ status[r] # "expired"
    BY <1>1 DEF SameRow, Course
  <1> QED BY <1>1, <1>5, <1>6, <1>7, CourseGoesOn DEF ErrorsKept

LEMMA CourseGraphFails ==
    ASSUME Base, RowsInv, CourseInv, NEW r \in Runs, GraphFails(r)
    PROVE  CourseInv'
PROOF
  <1>1. /\ GoesOn(r) /\ SameRow(r) /\ errors' = errors
        /\ RowInv(r) /\ Course(r) /\ Typed
    BY WorkGoesOn DEF RowsInv, CourseInv, Base
  <1>2. proc[r].pc = "graph" /\ Fails(r)
    BY DEF GraphFails, InGraph
  <1>3. Calls(r, "fail", "failed", "handler")
    BY <1>1, <1>2, FailsEffect
  <1> QED BY <1>1, <1>2, <1>3, InGraphShape, CourseFails
          DEF GoesOn, SameRow, Course, ErrorsKept

LEMMA CourseBeginResearch ==
    ASSUME Base, RowsInv, CourseInv, NEW r \in Runs, BeginResearch(r)
    PROVE  CourseInv'
PROOF
  <1>1. /\ proc[r].job = "research" /\ proc[r].pc = "get"
        /\ SameRow(r) /\ errors' = errors /\ Course(r)
    BY BeginResearchKind DEF BeginResearch, CourseInv
  <1>2. CASE IsOver(r)
    BY <1>1, <1>2, CourseOver DEF ErrorsKept
  <1>3. CASE /\ GoesOn(r) /\ status[r] = "researching"
             /\ SameWork(r) /\ SameCall(r)
             /\ proc'[r].pc = "graph" /\ proc'[r].scope = "graph"
    <2>1. proc'[r].goal = "absent" /\ proc'[r].op = "none" /\ proc'[r].job = "research"
      BY <1>1, <1>3 DEF Course, Fresh, NotBegun, SameWork, SameCall
    <2>2. Stage(r)'
      BY <1>1, <1>3, <2>1 DEF Stage, Reached, SameRow
    <2>3. ~NotBegun(r)' /\ ~PlanPending(r)' /\ Unplanned(r)'
      BY <1>3, <2>1 DEF NotBegun, PlanPending, Unplanned
    <2> QED BY <1>1, <1>3, <2>2, <2>3, CourseGoesOn DEF ErrorsKept, SameRow
  <1> QED BY <1>2, <1>3, BeginResearchKind

(* A helper that goes back to the graph is one that reports a stage.       *)
LEMMA StageHelper ==
    ASSUME Base, NEW r \in Runs, InHelper(proc[r]), proc[r].next = "graph"
    PROVE  /\ proc[r].op = "set" /\ proc[r].scope \in {"outside", "graph"}
           /\ proc[r].goal \in Stages(proc[r].job)
           /\ proc[r].job \in {"planning", "research"}
           /\ proc[r].job = "planning" => PlanPending(r)
           /\ proc[r].job = "research" => ReportPending(r) /\ ~NotBegun(r)
PROOF
  <1>1. /\ proc[r].op = "set" /\ proc[r].scope \in {"outside", "graph"}
        /\ proc[r].goal \in Stages(proc[r].job)
        /\ proc[r].job \in {"planning", "research"}
    BY WorkerRun DEF WorkerShape, InHelper, ProcStates, Scopes, Stages
  <1> QED BY <1>1 DEF PlanPending, ReportPending, NotBegun, InHelper

(* What a run can be when its worker is back in the graph.                 *)
LEMMA CourseBack ==
    ASSUME Base, RowsInv, CourseInv, NEW r \in Runs, InHelper(proc[r]),
           proc[r].next = "graph", GoesOn(r), SameRow(r), errors' = errors,
           SameWork(r), SameCall(r), proc'[r].pc = "graph", proc'[r].scope = "graph",
           \/ proc[r].pc = "publish"
           \/ proc[r].pc = "read" /\ GivesWay(r)
    PROVE  CourseInv'
PROOF
  <1>1. /\ Course(r) /\ status'[r] = status[r] /\ status[r] # "expired"
        /\ proc[r].op = "set" /\ proc[r].goal \in Stages(proc[r].job)
        /\ proc[r].job \in {"planning", "research"}
        /\ proc'[r].job = proc[r].job /\ proc'[r].op = proc[r].op
        /\ proc'[r].goal = proc[r].goal
    BY StageHelper DEF CourseInv, Course, SameRow, SameWork, SameCall
  <1>2. GivesWay(r) => status[r] = "absent" \/ status[r] \in Terminal
    BY <1>1, WorkerRun DEF GivesWay
  <1>3. CASE proc[r].job = "planning"
    <2>1. PlanPending(r)
      BY <1>3, StageHelper
    <2>2. status[r] \in {"queued", "planning"}
      BY <1>1, <2>1 DEF Course, Early
    <2>3. proc[r].pc = "publish" /\ status[r] = "planning"
      BY <1>1, <1>2, <2>1, <2>2, Names DEF Course, Early
    <2>4. ~NotBegun(r)' /\ Stage(r)' /\ Unplanned(r)'
      BY <1>1, <1>3 DEF NotBegun, Stage, ReportPending, Unplanned
    <2> QED BY <1>1, <2>1, <2>3, <2>4, CourseGoesOn DEF ErrorsKept
  <1>4. CASE proc[r].job = "research"
    <2>1. ReportPending(r) /\ ~NotBegun(r) /\ proc[r].goal \in {"researching", "writing", "verifying"}
      BY <1>1, <1>4, StageHelper DEF Stages
    <2>2. status[r] \in Reached(proc[r]) \cup {"cancelled"}
      BY <1>1, <2>1 DEF Course, Stage
    <2>3. CASE proc[r].pc = "publish"
      <3>1. Reached(proc'[r]) = Reached(proc[r])
        BY <1>1, <2>3 DEF Reached, About
      <3>2. Stage(r)'
        BY <1>1, <2>2, <3>1 DEF Stage
      <3>3. ~NotBegun(r)' /\ ~PlanPending(r)' /\ Unplanned(r)'
        BY <1>1, <1>4 DEF NotBegun, PlanPending, Unplanned
      <3> QED BY <1>1, <3>2, <3>3, CourseGoesOn DEF ErrorsKept
    <2>4. CASE proc[r].pc = "read" /\ GivesWay(r)
      <3>1. Reached(proc[r]) \subseteq {"researching", "writing", "verifying"}
        BY <2>1 DEF Reached
      <3>2. status[r] = "cancelled"
        BY <1>2, <2>2, <2>4, <3>1, Names
      <3>3. Stage(r)'
        BY <1>1, <3>2 DEF Stage
      <3>4. ~NotBegun(r)' /\ ~PlanPending(r)' /\ Unplanned(r)'
        BY <1>1, <1>4 DEF NotBegun, PlanPending, Unplanned
      <3> QED BY <1>1, <3>3, <3>4, CourseGoesOn DEF ErrorsKept
    <2> QED BY <2>3, <2>4
  <1> QED BY <1>1, <1>3, <1>4

LEMMA CourseRead ==
    ASSUME Base, RowsInv, CourseInv, NEW r \in Runs, Read(r)
    PROVE  CourseInv'
PROOF
  <1>1. /\ SameRow(r) /\ errors' = errors /\ InHelper(proc[r]) /\ Course(r)
        /\ proc[r].pc = "read" /\ proc[r].run = r
        /\ status'[r] = status[r] /\ status[r] # "expired"
    BY WorkerReadKind, WorkerRun DEF Read, CourseInv, Course, SameRow
  <1>2. CASE IsOver(r)
    BY <1>1, <1>2, CourseOver DEF ErrorsKept
  <1>3. CASE /\ GoesOn(r) /\ GivesWay(r) /\ proc[r].next = "graph"
             /\ SameWork(r) /\ SameCall(r)
             /\ proc'[r].pc = "graph" /\ proc'[r].scope = "graph"
    BY <1>1, <1>3, CourseBack
  <1>4. CASE /\ GoesOn(r) /\ ~GivesWay(r)
             /\ StepsTo(r, "commit") /\ proc'[r].seen = status[r]
    <2>1. /\ proc'[r].pc = "commit" /\ proc'[r].job = proc[r].job
          /\ proc'[r].op = proc[r].op /\ proc'[r].goal = proc[r].goal
          /\ proc'[r].scope = proc[r].scope
      BY <1>4 DEF StepsTo, SameWork, SameCall
    <2>2. /\ PlanPending(r)' <=> PlanPending(r)
          /\ ReportPending(r)' <=> ReportPending(r)
          /\ ~NotBegun(r)' /\ ~NotBegun(r)
      BY <1>1, <2>1 DEF PlanPending, ReportPending, NotBegun
    <2>3. Unplanned(r)'
      BY <1>1, <2>1 DEF Course, Unplanned, SameRow
    <2>4. Stage(r)'
      <3> SUFFICES ASSUME ReportPending(r)
                   PROVE  status[r] \in Reached(proc'[r])
        BY <1>1, <1>4, <2>2 DEF Stage
      <3>1. status[r] \in Reached(proc[r]) \cup {"cancelled"}
        BY <1>1, <2>2 DEF Course, Stage
      <3>2. proc[r].op = "set" => proc[r].goal # "cancelled"
        BY <1>1, WorkerRun, Names
           DEF ReportPending, WorkerShape, ProcStates, Scopes, Stages
      <3>3. status[r] # "cancelled"
        BY <1>1, <1>4, <3>2, Names DEF GivesWay
      <3>4. Reached(proc'[r]) = Reached(proc[r])
        BY <1>1, <2>1 DEF Reached, About
      <3> QED BY <3>1, <3>3, <3>4
    <2>5. PlanPending(r)' =>
               /\ PlanPending(r)
               /\ status'[r] \in {"queued", "planning"}
               /\ status'[r] = "queued" =>
                     /\ proc'[r].scope = "outside"
                     /\ proc'[r].pc \in {"off", "get", "read", "commit"}
                     /\ proc'[r].pc = "commit" => proc'[r].seen = "queued"
      BY <1>1, <1>4, <2>1, <2>2 DEF Course, Early
    <2> QED BY <1>1, <1>4, <2>2, <2>3, <2>4, <2>5, CourseGoesOn DEF ErrorsKept
  <1> QED BY <1>2, <1>3, <1>4, WorkerReadKind

LEMMA CoursePublish ==
    ASSUME Base, RowsInv, CourseInv, NEW r \in Runs, Publish(r)
    PROVE  CourseInv'
PROOF
  <1>1. SameRow(r) /\ errors' = errors /\ proc[r].pc = "publish" /\ InHelper(proc[r])
    BY WorkerPublishKind DEF InHelper
  <1>2. CASE IsOver(r)
    BY <1>1, <1>2, CourseOver DEF ErrorsKept
  <1>3. CASE /\ GoesOn(r) /\ proc[r].next = "graph"
             /\ SameWork(r) /\ SameCall(r)
             /\ proc'[r].pc = "graph" /\ proc'[r].scope = "graph"
    BY <1>1, <1>3, CourseBack
  <1> QED BY <1>2, <1>3, WorkerPublishKind

LEMMA CourseCommit ==
    ASSUME Base, RowsInv, CourseInv, NEW r \in Runs, Commit(r)
    PROVE  CourseInv' /\ MovesOn(r)
PROOF
  <1>1. /\ GoesOn(r) /\ errors' = errors /\ Writes(r, r)
        /\ proc'[r].pc = "publish" /\ proc'[r].job = proc[r].job
        /\ proc'[r].op = proc[r].op /\ proc'[r].goal = proc[r].goal
        /\ proc'[r].scope = proc[r].scope
        /\ proc[r].op # "plan" => plan'[r] = plan[r]
    BY WorkerCommitKind DEF Writes, StepsTo, SameWork, SameCall
  <1>2. /\ RowInv(r) /\ Course(r) /\ proc[r].pc = "commit"
        /\ proc[r].job \in {"planning", "research"}
    BY <1>1, WorkerRun DEF WorkerShape, RowsInv, CourseInv, Writes
  <1>3. /\ MovesOn(r) /\ status'[r] # "expired"
        /\ (\E h \in Handlers : Confirmed(h, r)) =>
              status'[r] \in {status[r], "failed", "cancelled"}
    BY <1>1, <1>2, WorkerWrite
  <1>4. ~NotBegun(r)' /\ Unplanned(r)'
    BY <1>1, <1>2 DEF NotBegun, Unplanned, Course
  <1>5. PlanPending(r)' =>
           /\ PlanPending(r) /\ status'[r] = "planning"
    <2> SUFFICES ASSUME PlanPending(r)'
                 PROVE  PlanPending(r) /\ status'[r] = "planning"
      OBVIOUS
    <2>1. PlanPending(r) /\ proc[r].op # "plan"
      BY <1>1, <1>2 DEF PlanPending
    <2>2. proc[r].op = "set"
      BY <1>2, <2>1, WorkerRun DEF PlanPending, WorkerShape, ProcStates, Scopes
    <2> QED BY <1>1, <1>2, <2>1, <2>2, PlanningWrite
  <1>6. Stage(r)'
    <2> SUFFICES ASSUME ReportPending(r)'
                 PROVE  status'[r] \in Reached(proc'[r]) \cup {"cancelled"}
      BY <1>1 DEF Stage
    <2>1. ReportPending(r) /\ proc[r].op # "report"
      BY <1>1, <1>2 DEF ReportPending
    <2>2. proc[r].op = "set"
      BY <1>2, <2>1, WorkerRun DEF ReportPending, WorkerShape, ProcStates, Scopes
    <2>3. /\ status'[r] \in {proc[r].goal, "cancelled"}
          /\ proc[r].goal \in {"researching", "writing", "verifying"}
      BY <1>1, <1>2, <2>1, <2>2, ResearchWrite
    <2>4. proc[r].goal \in Reached(proc'[r])
      BY <1>1, <2>3 DEF Reached, About
    <2> QED BY <2>3, <2>4
  <1>7. CourseInv'
    BY <1>1, <1>3, <1>4, <1>5, <1>6, CourseGoesOn DEF ErrorsKept
  <1> QED BY <1>3, <1>7

(* What an interrupted worker may have written.                            *)
LEMMA InterruptedMoves ==
    ASSUME Base, NEW r \in Runs, RowInv(r), Course(r), SameRow(r) \/ Writes(r, r)
    PROVE  /\ MovesOn(r) /\ status'[r] # "expired"
           /\ (\E h \in Handlers : Confirmed(h, r)) =>
                 status'[r] \in {status[r], "failed", "cancelled"}
PROOF BY WorkerWrite DEF SameRow, MovesOn, Course

LEMMA CourseTimeout ==
    ASSUME Base, RowsInv, CourseInv, NEW r \in Runs, Timeout(r)
    PROVE  CourseInv' /\ MovesOn(r)
PROOF
  <1>1. /\ Apart(r) /\ HandlersStay /\ errors' = errors
        /\ RowInv(r) /\ Course(r) /\ proc[r].scope = "graph"
        /\ Calls(r, "fail", "failed", "handler")
        /\ \/ SameRow(r)
           \/ /\ Writes(r, r)
              /\ proc[r].op # "plan" => plan'[r] = plan[r]
    BY TimeoutKind DEF GoesOn, RowsInv, CourseInv, Writes
  <1>2. proc[r].op # "plan" \/ proc[r].pc = "graph"
    BY <1>1, WorkerRun DEF WorkerShape
  <1>3. plan'[r] = plan[r]
    BY <1>1, <1>2 DEF SameRow, Writes
  <1>4. proc[r].job = "planning" => PlanPending(r)
    BY <1>1, <1>2 DEF PlanPending
  <1>5. /\ MovesOn(r) /\ status'[r] # "expired"
        /\ (\E h \in Handlers : Confirmed(h, r)) =>
              status'[r] \in {status[r], "failed", "cancelled"}
    BY <1>1, InterruptedMoves
  <1> QED BY <1>1, <1>3, <1>4, <1>5, CourseFails DEF ErrorsKept

LEMMA CourseDeliverCancel ==
    ASSUME Base, RowsInv, CourseInv, NEW r \in Runs, DeliverCancel(r)
    PROVE  CourseInv' /\ MovesOn(r)
PROOF
  <1>1. /\ Apart(r) /\ HandlersStay /\ errors' = errors
        /\ RowInv(r) /\ Course(r)
        /\ SameRow(r) \/ Writes(r, r)
        /\ proc'[r] = Rest(r) \/ Calls(r, "set", "cancelled", "handler")
    BY DeliverCancelKind DEF RowsInv, CourseInv, Writes
  <1>2. /\ MovesOn(r) /\ status'[r] # "expired"
        /\ (\E h \in Handlers : Confirmed(h, r)) =>
              status'[r] \in {status[r], "failed", "cancelled"}
    BY <1>1, InterruptedMoves
  <1>3. /\ ~NotBegun(r)' /\ ~PlanPending(r)' /\ ~ReportPending(r)' /\ Unplanned(r)'
    BY <1>1 DEF NotBegun, PlanPending, ReportPending, Unplanned, Rest, Calls
  <1>4. Course(r)'
    BY <1>1, <1>2, <1>3, CourseEnds
  <1> QED BY <1>1, <1>2, <1>4, CourseApart DEF ErrorsKept

LEMMA CourseError ==
    ASSUME Base, RowsInv, CourseInv, NEW r \in Runs, DatabaseError(r)
    PROVE  CourseInv'
PROOF
  <1>1. SameRow(r) /\ errors' # 0 /\ ErrorsKept /\ RowInv(r) /\ Course(r)
    BY WorkerErrorKind DEF ErrorsKept, RowsInv, CourseInv
  <1>2. CASE IsOver(r)
    BY <1>1, <1>2, CourseOver
  <1>3. CASE GoesOn(r) /\ Calls(r, "fail", "failed", "handler")
    BY <1>1, <1>3, CourseFails DEF GoesOn, SameRow, Course
  <1> QED BY <1>2, <1>3, WorkerErrorKind

LEMMA CourseStart ==
    ASSUME Base, RowsInv, CourseInv, NEW r \in Runs, Start(r)
    PROVE  CourseInv'
PROOF
  <1>1. /\ Apart(r) /\ HandlersStay /\ SameRow(r) /\ errors' = errors
        /\ proc[r].pc = "off" /\ r \notin cancelReq
        /\ proc'[r].pc = "get" /\ proc'[r].job = proc[r].job
        /\ proc'[r].scope = proc[r].scope
        /\ proc'[r].op = proc[r].op /\ proc'[r].goal = proc[r].goal
        /\ Course(r)
    BY StartKind DEF StepsTo, SameWork, SameCall, CourseInv
  <1>2. \A h \in Handlers : Confirmed(h, r)' <=> Confirmed(h, r)
    BY <1>1 DEF HandlersStay, Confirmed
  <1>3. /\ NotBegun(r)' <=> NotBegun(r)
        /\ PlanPending(r)' <=> PlanPending(r)
        /\ ReportPending(r)' => NotBegun(r)'
    BY <1>1 DEF NotBegun, PlanPending, ReportPending
  <1>4. Fresh(r)'
    BY <1>1, <1>2, <1>3 DEF Course, Fresh, SameRow
  <1>5. Early(r)'
    BY <1>1, <1>3 DEF Course, Early, SameRow, HandlersStay
  <1>6. Stage(r)' /\ Unplanned(r)' /\ status'[r] # "expired"
    BY <1>1, <1>3 DEF Course, Stage, Unplanned, SameRow
  <1>7. Course(r)'
    BY <1>4, <1>5, <1>6 DEF Course
  <1> QED BY <1>1, <1>7, CourseApart DEF ErrorsKept

-----------------------------------------------------------------------------
(* So do the steps of requests.                                            *)

LEMMA CourseServed ==
    ASSUME CourseInv, NEW h \in Handlers, NEW r \in Runs, Serves(h, r), ErrorsKept,
           status'[r] # "expired",
           (\E g \in Handlers : Confirmed(g, r)') \/ NotBegun(r) =>
                status'[r] \in {"researching", "cancelled", "failed"},
           PlanPending(r) =>
                /\ status'[r] = status[r]
                /\ r \in cancelReq \/ proc'[h].run # r \/ proc'[h].pc = "dequeue",
           ReportPending(r) => status'[r] \in {status[r], "cancelled"},
           \/ plan'[r] = plan[r]
           \/ ~(proc[r].job = "planning" /\ proc[r].op = "fail" /\ errors = 0)
    PROVE  CourseInv'
PROOF
  <1>1. /\ Apart(r) /\ Course(r) /\ cancelReq' = cancelReq /\ proc'[r] = proc[r]
        /\ \A g \in Handlers : g # h => proc'[g] = proc[g]
    BY Names, RunsAreNoHandlers DEF Serves, CourseInv, queueVars
  <1>2. /\ NotBegun(r)' <=> NotBegun(r)
        /\ PlanPending(r)' <=> PlanPending(r)
        /\ ReportPending(r)' <=> ReportPending(r)
    BY <1>1 DEF NotBegun, PlanPending, ReportPending
  <1>3. Fresh(r)'
    BY <1>1, <1>2 DEF Course, Fresh
  <1>4. Early(r)'
    BY <1>1, <1>2 DEF Course, Early
  <1>5. Stage(r)'
    BY <1>1, <1>2 DEF Course, Stage, Reached, About
  <1>6. Unplanned(r)'
    BY <1>1 DEF Course, Unplanned, ErrorsKept
  <1>7. Course(r)'
    BY <1>3, <1>4, <1>5, <1>6 DEF Course
  <1> QED BY <1>1, <1>7, CourseApart

(* A request that does not write the row.                                  *)
LEMMA CourseAsked ==
    ASSUME CourseInv, NEW h \in Handlers, NEW r \in Runs, Serves(h, r), SameRow(r),
           ErrorsKept,
           Confirmed(h, r)' => Confirmed(h, r),
           PlanPending(r) =>
                r \in cancelReq \/ proc'[h].run # r \/ proc'[h].pc = "dequeue"
    PROVE  CourseInv'
PROOF
  <1>1. /\ Course(r) /\ status'[r] = status[r] /\ plan'[r] = plan[r]
        /\ \A g \in Handlers : g # h => proc'[g] = proc[g]
    BY Names DEF Serves, CourseInv, SameRow
  <1>2. \A g \in Handlers : Confirmed(g, r)' => Confirmed(g, r)
    BY <1>1 DEF Confirmed
  <1>3. (\E g \in Handlers : Confirmed(g, r)') \/ NotBegun(r) =>
            status'[r] \in {"researching", "cancelled", "failed"}
    BY <1>1, <1>2 DEF Course, Fresh
  <1> QED BY <1>1, <1>3, CourseServed DEF Course

LEMMA CourseNewRequest ==
    ASSUME Base, RowsInv, CourseInv, NEW h \in Handlers, NEW r \in Runs,
           \/ CreateRequest(h, r) \/ CancelRequest(h, r)
           \/ \E pl \in Plans : ReviewRequest(h, r, pl)
    PROVE  CourseInv' /\ MovesOn(r)
PROOF
  <1>1. /\ Serves(h, r) /\ errors' = errors /\ RowInv(r) /\ Course(r)
        /\ \A g \in Handlers : g # h => proc'[g] = proc[g]
    BY NewRequestKind, Names DEF RowsInv, CourseInv, Serves
  <1>2. CASE /\ status[r] = "absent" /\ status'[r] = "queued" /\ plan'[r] = plan[r]
             /\ proc'[h].job = "create" /\ proc'[h].pc = "submit"
    <2>1. /\ proc[r].job = "none" /\ \A g \in Handlers : proc[g].run # r
      BY <1>1, <1>2 DEF RowInv, NoRow
    <2>2. /\ ~NotBegun(r) /\ ~PlanPending(r) /\ ~ReportPending(r)
      BY <2>1 DEF NotBegun, PlanPending, ReportPending
    <2>3. \A g \in Handlers : ~Confirmed(g, r)'
      BY <1>1, <1>2, <2>1 DEF Confirmed
    <2>4. MovesOn(r)
      BY <1>2, PhaseMoves DEF MovesOn
    <2> QED BY <1>1, <1>2, <2>2, <2>3, <2>4, CourseServed DEF ErrorsKept
  <1>3. CASE SameRow(r) /\ proc'[h].job = "cancel" /\ proc'[h].pc = "dequeue"
    <2>1. ~Confirmed(h, r)' /\ MovesOn(r)
      BY <1>3 DEF Confirmed, MovesOn, SameRow
    <2> QED BY <1>1, <1>3, <2>1, CourseAsked DEF ErrorsKept
  <1>4. CASE /\ SameRow(r) /\ status[r] = "waiting_for_review"
             /\ proc'[h].job = "review" /\ proc'[h].pc = "confirm"
    <2>1. ~Confirmed(h, r)' /\ ~PlanPending(r) /\ MovesOn(r)
      BY <1>1, <1>4 DEF Confirmed, MovesOn, SameRow, Course, Early
    <2> QED BY <1>1, <1>4, <2>1, CourseAsked DEF ErrorsKept
  <1> QED BY <1>2, <1>3, <1>4, NewRequestKind

LEMMA CourseQuietRequest ==
    ASSUME Base, RowsInv, CourseInv, NEW h \in Handlers, NEW r \in Runs,
           proc[h].run = r,
           \/ SubmitRefused(h) \/ SubmitDuplicate(h)
           \/ Read(h) \/ Publish(h) \/ DatabaseError(h)
    PROVE  CourseInv' /\ MovesOn(r)
PROOF
  <1>1. /\ RowInv(r) /\ Course(r) /\ Rest(h).run = NoRun
    BY RequestRun DEF RowsInv, CourseInv
  <1>2. /\ Serves(h, r) /\ SameRow(r) /\ ErrorsKept
    BY NotAcceptedKind, RequestReadKind, RequestPublishKind, RequestErrorKind
       DEF ErrorsKept
  <1>3. MovesOn(r)
    BY <1>2 DEF MovesOn, SameRow
  <1>4. CASE SubmitRefused(h) \/ SubmitDuplicate(h)
    <2>1. /\ proc[h].pc = "submit" /\ proc[h].job \in {"create", "review"}
          /\ proc'[h].job = proc[h].job
      BY <1>4, NotAcceptedKind
    <2>2. (Confirmed(h, r)' => Confirmed(h, r)) /\ ~PlanPending(r)
      BY <1>1, <2>1 DEF Confirmed, RowInv, Planning
    <2> QED BY <1>2, <1>3, <2>2, CourseAsked
  <1>5. CASE proc'[h] = Rest(h)
    <2>1. ~Confirmed(h, r)' /\ proc'[h].run # r
      BY <1>1, <1>5, RunsAreNoHandlers DEF Confirmed
    <2> QED BY <1>2, <1>3, <2>1, CourseAsked
  <1>6. CASE proc[h].pc = "read" /\ StepsTo(h, "commit")
    <2>1. Confirmed(h, r)' => Confirmed(h, r)
      BY <1>6 DEF Confirmed, StepsTo, SameWork
    <2>2. PlanPending(r) => r \in cancelReq
      BY <1>1, <1>6 DEF Course, Early
    <2> QED BY <1>2, <1>3, <2>1, <2>2, CourseAsked
  <1> QED BY <1>4, <1>5, <1>6, RequestReadKind, RequestPublishKind, RequestErrorKind

LEMMA CourseRollback ==
    ASSUME Base, RowsInv, CourseInv, NEW h \in Handlers, NEW r \in Runs,
           proc[h].run = r, Rollback(h)
    PROVE  CourseInv' /\ MovesOn(r)
PROOF
  <1>1. /\ Serves(h, r) /\ errors' = errors /\ RowInv(r)
        /\ proc[h].job = "create" /\ proc'[h] = Rest(h) /\ Rest(h).run = NoRun
        /\ status'[r] = "absent" /\ plan'[r] = plan[r]
        /\ \A g \in Handlers : g # h => proc'[g] = proc[g]
    BY RollbackKind, RequestRun, Names DEF RowsInv, Serves
  <1>2. /\ status[r] = "queued" /\ proc[r].job = "none"
        /\ \A g \in Handlers : proc[g].run = r => g = h
    BY <1>1 DEF RowInv, Creation
  <1>3. /\ ~NotBegun(r) /\ ~PlanPending(r) /\ ~ReportPending(r)
    BY <1>2 DEF NotBegun, PlanPending, ReportPending
  <1>4. \A g \in Handlers : ~Confirmed(g, r)'
    BY <1>1, <1>2, RunsAreNoHandlers DEF Confirmed
  <1>5. MovesOn(r)
    BY <1>1, <1>2, PhaseMoves DEF MovesOn
  <1> QED BY <1>1, <1>3, <1>4, <1>5, CourseServed DEF ErrorsKept

LEMMA CourseConfirm ==
    ASSUME Base, RowsInv, CourseInv, NEW h \in Handlers, NEW r \in Runs,
           proc[h].run = r, Confirm(h)
    PROVE  CourseInv' /\ MovesOn(r)
PROOF
  <1>1. /\ Serves(h, r) /\ errors' = errors /\ RowInv(r) /\ Course(r)
        /\ Rest(h).run = NoRun
    BY ConfirmKind, RequestRun DEF RowsInv, CourseInv
  <1>2. CASE SameRow(r) /\ proc'[h] = Rest(h)
    <2>1. ~Confirmed(h, r)' /\ proc'[h].run # r /\ MovesOn(r)
      BY <1>1, <1>2, RunsAreNoHandlers DEF Confirmed, MovesOn, SameRow
    <2> QED BY <1>1, <1>2, <2>1, CourseAsked DEF ErrorsKept
  <1>3. CASE status[r] = "waiting_for_review" /\ status'[r] = "researching"
    <2>1. ~PlanPending(r) /\ plan[r] # NoPlan /\ ~ReportPending(r)
      BY <1>1, <1>3 DEF Course, Early, RowInv, Outcome, Research, Reviewed, ReportPending
    <2>2. ~(proc[r].job = "planning" /\ proc[r].op = "fail" /\ errors = 0)
      BY <1>1, <2>1 DEF Course, Unplanned
    <2>3. MovesOn(r)
      BY <1>3, PhaseMoves DEF MovesOn
    <2> QED BY <1>1, <1>3, <2>1, <2>2, <2>3, CourseServed DEF ErrorsKept
  <1> QED BY <1>2, <1>3, ConfirmKind

LEMMA CourseRequestCommit ==
    ASSUME Base, RowsInv, CourseInv, NEW h \in Handlers, NEW r \in Runs,
           proc[h].run = r, Commit(h)
    PROVE  CourseInv' /\ MovesOn(r)
PROOF
  <1>1. /\ Serves(h, r) /\ errors' = errors /\ RowInv(r) /\ Course(r)
        /\ proc[h].pc = "commit" /\ r \notin cancelReq
        /\ StepsTo(h, "publish") /\ plan'[r] = plan[r]
        /\ status'[r] \in {status[r], proc[h].goal}
        /\ h \in Processes
    BY RequestCommitKind, RequestRun DEF RowsInv, CourseInv
  <1>2. ~PlanPending(r) /\ status[r] # "absent" /\ status[r] # "expired"
    BY <1>1 DEF Course, Early, RowInv, NoRow
  <1>3. \/ proc[h].job = "cancel" /\ proc[h].goal = "cancelled"
        \/ proc[h].job = "review" /\ proc[h].goal = "failed"
    BY <1>1, RequestRun DEF HandlerShape, InHelper
  <1>4. \A g \in Handlers : Confirmed(g, r)' => Confirmed(g, r)
    BY <1>1, Names DEF Confirmed, Serves, StepsTo, SameWork
  <1>5. CASE proc[h].job = "cancel" /\ proc[h].goal = "cancelled"
    <2>1. r \in Cancelling
      BY <1>1, <1>5 DEF Cancelling
    <2>2. MovesOn(r)
      BY <1>1, <1>2, <1>5, <2>1, OtherMoves DEF MovesOn
    <2>3. (\E g \in Handlers : Confirmed(g, r)') \/ NotBegun(r) =>
             status'[r] \in {"researching", "cancelled", "failed"}
      BY <1>1, <1>4, <1>5 DEF Course, Fresh
    <2> QED BY <1>1, <1>2, <1>5, <2>2, <2>3, CourseServed DEF ErrorsKept
  <1>6. CASE proc[h].job = "review" /\ proc[h].goal = "failed"
    <2>1. Confirmed(h, r)
      BY <1>1, <1>6 DEF Confirmed
    <2>2. /\ status[r] \in {"researching", "cancelled", "failed"}
          /\ ~ReportPending(r)
      BY <1>1, <2>1, ConfirmedAlone DEF Course, Fresh, ReportPending
    <2>3. MovesOn(r)
      BY <1>1, <1>6, <2>2, OtherMoves, Names DEF MovesOn
    <2> QED BY <1>1, <1>2, <1>6, <2>2, <2>3, CourseServed DEF ErrorsKept
  <1> QED BY <1>3, <1>5, <1>6

LEMMA CourseAccepted ==
    ASSUME Base, RowsInv, CourseInv, NEW h \in Handlers, NEW r \in Runs,
           proc[h].run = r, SubmitAccepted(h)
    PROVE  CourseInv' /\ MovesOn(r)
PROOF
  <1>1. /\ Apart(r) /\ errors' = errors /\ RowInv(r) /\ Course(r)
        /\ status'[r] = status[r] /\ status[r] # "expired"
        /\ \A g \in Handlers : g # h => proc'[g] = proc[g]
        /\ proc[h].pc = "submit" /\ Rest(h).run = NoRun
        /\ proc'[r].pc = "off" /\ proc'[r].scope = "outside"
        /\ proc'[r].op = "none" /\ proc'[r].goal = "absent"
        /\ proc'[r].job = (IF proc[h].job = "create" THEN "planning" ELSE "research")
    BY AcceptedKind, RequestRun DEF RowsInv, CourseInv, Course, SameRow
  <1>2. Unplanned(r)' /\ MovesOn(r)
    BY <1>1 DEF Unplanned, MovesOn
  <1>3. CASE proc[h].job = "create" /\ proc'[h] = Rest(h)
    <2>1. status[r] = "queued" /\ \A g \in Handlers : proc'[g].run # r
      BY <1>1, <1>3, RunsAreNoHandlers DEF RowInv, Creation
    <2>2. /\ \A g \in Handlers : ~Confirmed(g, r)'
          /\ ~NotBegun(r)' /\ ~ReportPending(r)'
      BY <1>1, <1>3, <2>1 DEF Confirmed, NotBegun, ReportPending
    <2>3. Course(r)'
      BY <1>1, <1>2, <2>1, <2>2 DEF Course, Fresh, Early, Stage
    <2> QED BY <1>1, <1>2, <2>3, CourseApart DEF ErrorsKept
  <1>4. CASE proc[h].job = "review"
    <2>1. Confirmed(h, r)
      BY <1>1, <1>4 DEF Confirmed
    <2>2. status[r] \in {"researching", "cancelled", "failed"}
      BY <1>1, <2>1 DEF Course, Fresh
    <2>3. NotBegun(r)' /\ ~PlanPending(r)'
      BY <1>1, <1>4 DEF NotBegun, PlanPending
    <2>4. Course(r)'
      BY <1>1, <1>2, <2>2, <2>3 DEF Course, Fresh, Early, Stage
    <2> QED BY <1>1, <1>2, <2>4, CourseApart DEF ErrorsKept
  <1> QED BY <1>3, <1>4, AcceptedKind

LEMMA CourseDequeue ==
    ASSUME Base, RowsInv, BusyInv, CourseInv, NEW h \in Handlers, NEW r \in Runs,
           proc[h].run = r, Dequeue(h)
    PROVE  CourseInv' /\ MovesOn(r)
PROOF
  <1>1. /\ Apart(r) /\ SameRow(r) /\ errors' = errors /\ Course(r) /\ Busy(r)
        /\ \A g \in Handlers : g # h => proc'[g] = proc[g]
        /\ proc[h].job = "cancel" /\ Calls(h, "set", "cancelled", "outside")
    BY DequeueKind DEF CourseInv, BusyInv
  <1>2. MovesOn(r) /\ status'[r] = status[r] /\ plan'[r] = plan[r]
    BY <1>1 DEF MovesOn, SameRow
  <1>3. \A g \in Handlers : Confirmed(g, r)' => Confirmed(g, r)
    BY <1>1 DEF Confirmed, Calls, SameWork
  <1>4. CASE /\ proc'[r] = proc[r]
             /\ QP!Ready(r) \/ task[r] = "running" => r \in cancelReq'
    <2>1. /\ NotBegun(r)' <=> NotBegun(r)
          /\ PlanPending(r)' <=> PlanPending(r)
          /\ ReportPending(r)' <=> ReportPending(r)
      BY <1>4 DEF NotBegun, PlanPending, ReportPending
    <2>2. PlanPending(r) => r \in cancelReq'
      BY <1>1, <1>4 DEF PlanPending, Busy
    <2>3. Fresh(r)'
      BY <1>1, <1>2, <1>3, <1>4, <2>1 DEF Course, Fresh
    <2>4. Early(r)'
      BY <1>1, <1>2, <1>4, <2>1, <2>2 DEF Course, Early
    <2>5. Stage(r)' /\ Unplanned(r)' /\ status'[r] # "expired"
      BY <1>1, <1>2, <1>4, <2>1 DEF Course, Stage, Unplanned, Reached, About
    <2>6. Course(r)'
      BY <2>3, <2>4, <2>5 DEF Course
    <2> QED BY <1>1, <1>2, <2>6, CourseApart DEF ErrorsKept
  <1>5. CASE proc'[r] = Rest(r)
    <2>1. proc'[r].job = "none"
      BY <1>5 DEF Rest
    <2>2. ~NotBegun(r)' /\ ~PlanPending(r)' /\ ~ReportPending(r)' /\ Unplanned(r)'
      BY <2>1 DEF NotBegun, PlanPending, ReportPending, Unplanned
    <2>3. Course(r)'
      BY <1>1, <1>2, <1>3, <2>2 DEF Course, Fresh, Early, Stage
    <2> QED BY <1>1, <1>2, <2>3, CourseApart DEF ErrorsKept
  <1> QED BY <1>4, <1>5, DequeueKind

LEMMA CourseProcess ==
    ASSUME Base, CourseInv, ProcessStep
    PROVE  CourseInv'
PROOF
  <1> SUFFICES ASSUME NEW r \in Runs PROVE Course(r)'
    BY DEF CourseInv
  <1>1. Course(r) /\ r \in Processes
    BY Names DEF CourseInv
  <1>2. CASE Shutdown
    <2>1. /\ UNCHANGED <<rowVars, errorVars>>
          /\ proc'[r] = proc[r] \/ proc'[r] = Rest(r)
          /\ \A h \in Handlers : proc[h].pc = "off"
      BY <1>1, <1>2 DEF Shutdown
    <2>2. \A h \in Handlers : proc'[h].run # r
      <3> SUFFICES ASSUME NEW h \in Handlers PROVE proc'[h].run # r
        OBVIOUS
      <3>1. h \in Processes /\ proc[h].run = NoRun /\ Rest(h).run = NoRun
        BY <2>1, RequestRun
      <3>2. proc'[h] = proc[h] \/ proc'[h] = Rest(h)
        BY <1>2, <3>1 DEF Shutdown
      <3> QED BY <3>1, <3>2, RunsAreNoHandlers
    <2>3. /\ status'[r] = status[r] /\ plan'[r] = plan[r] /\ errors' = errors
          /\ \A h \in Handlers : ~Confirmed(h, r)'
      BY <2>1, <2>2 DEF rowVars, errorVars, Confirmed
    <2>4. CASE proc'[r] = proc[r]
      <3>1. /\ NotBegun(r)' <=> NotBegun(r)
            /\ PlanPending(r)' <=> PlanPending(r)
            /\ ReportPending(r)' <=> ReportPending(r)
        BY <2>4 DEF NotBegun, PlanPending, ReportPending
      <3>2. Fresh(r)' /\ Early(r)'
        BY <1>1, <2>2, <2>3, <2>4, <3>1 DEF Course, Fresh, Early
      <3>3. Stage(r)' /\ Unplanned(r)' /\ status'[r] # "expired"
        BY <1>1, <2>3, <2>4, <3>1 DEF Course, Stage, Unplanned, Reached, About
      <3> QED BY <3>2, <3>3 DEF Course
    <2>5. CASE proc'[r] = Rest(r)
      <3>1. proc'[r].job = "none"
        BY <2>5 DEF Rest
      <3>2. ~NotBegun(r)' /\ ~PlanPending(r)' /\ ~ReportPending(r)' /\ Unplanned(r)'
        BY <3>1 DEF NotBegun, PlanPending, ReportPending, Unplanned
      <3> QED BY <1>1, <2>3, <3>2 DEF Course, Fresh, Early, Stage
    <2> QED BY <2>1, <2>4, <2>5
  <1>3. CASE Restart
    <2>1. proc'[r].job = "none" /\ \A h \in Handlers : proc'[h].run # r
      BY <1>1, <1>3, Names, RequestRun, RunsAreNoHandlers DEF Restart, Rest
    <2>2. /\ ~NotBegun(r)' /\ ~PlanPending(r)' /\ ~ReportPending(r)' /\ Unplanned(r)'
          /\ \A h \in Handlers : ~Confirmed(h, r)'
      BY <2>1 DEF NotBegun, PlanPending, ReportPending, Unplanned, Confirmed
    <2>3. status'[r] # "expired"
      BY <1>1, <1>3 DEF Restart, Recovered, Course
    <2> QED BY <2>2, <2>3 DEF Course, Fresh, Early, Stage
  <1>4. CASE ShutdownReturns \/ UNCHANGED vars
    <2>1. /\ proc' = proc /\ status' = status /\ plan' = plan /\ errors' = errors
          /\ cancelReq' = cancelReq
      BY <1>4, SameProcessActions
         DEF ShutdownReturns, QP!ShutdownReturns, vars, queueVars, rowVars, errorVars
    <2>2. /\ NotBegun(r)' <=> NotBegun(r)
          /\ PlanPending(r)' <=> PlanPending(r)
          /\ ReportPending(r)' <=> ReportPending(r)
          /\ \A h \in Handlers : Confirmed(h, r)' <=> Confirmed(h, r)
      BY <2>1 DEF NotBegun, PlanPending, ReportPending, Confirmed
    <2>3. Fresh(r)' /\ Early(r)'
      BY <1>1, <2>1, <2>2 DEF Course, Fresh, Early
    <2>4. Stage(r)' /\ Unplanned(r)' /\ status'[r] # "expired"
      BY <1>1, <2>1, <2>2 DEF Course, Stage, Unplanned, Reached, About
    <2> QED BY <2>3, <2>4 DEF Course
  <1> QED BY <1>2, <1>3, <1>4 DEF ProcessStep

LEMMA InitCourse == Init => CourseInv
PROOF
  <1> SUFFICES ASSUME Init, NEW r \in Runs PROVE Course(r)
    BY DEF CourseInv
  <1>1. /\ proc[r].job = "none" /\ status[r] = "absent"
        /\ \A h \in Handlers : proc[h].run # r
    BY Names, RunsAreNoHandlers DEF Init, Rest
  <1>2. /\ ~NotBegun(r) /\ ~PlanPending(r) /\ ~ReportPending(r) /\ Unplanned(r)
        /\ \A h \in Handlers : ~Confirmed(h, r)
    BY <1>1 DEF NotBegun, PlanPending, ReportPending, Unplanned, Confirmed
  <1> QED BY <1>1, <1>2 DEF Course, Fresh, Early, Stage

(* One step of a worker or a request keeps all runs on their courses, and  *)
(* makes at most one move of the life cycle.                               *)
LEMMA CourseSteps ==
    ASSUME Base, RowsInv, BusyInv, CourseInv, NEW r \in Runs,
           WorkerStep(r) \/ \E h \in Handlers : RequestStep(h, r)
    PROVE  /\ CourseInv' /\ Apart(r) /\ MovesOn(r)
           /\ errors' = errors \/ errors' # 0
PROOF
  <1>0. SameRow(r) => MovesOn(r)
    BY DEF SameRow, MovesOn
  <1>1. CASE \/ BeginPlanning(r) \/ GraphProgress(r) \/ PlanReady(r)
             \/ ReportReady(r) \/ GraphFails(r)
    <2>1. Apart(r) /\ SameRow(r) /\ errors' = errors
      BY <1>1, WorkGoesOn DEF GoesOn
    <2>2. proc[r].job \in {"planning", "research"}
      <3>1. proc[r].pc # "off"
        BY <1>1, Zenon DEF BeginPlanning, GraphProgress, PlanReady, ReportReady, GraphFails, InGraph
      <3> QED BY <3>1, WorkerRun DEF WorkerShape
    <2>3. /\ BeginPlanning(r) => proc[r].job = "planning"
          /\ PlanReady(r) => proc[r].job = "planning"
          /\ ReportReady(r) => proc[r].job = "research"
      BY Zenon DEF BeginPlanning, PlanReady, ReportReady
    <2>4. CourseInv'
      BY <1>1, <2>2, <2>3, CoursePlanningWork, CourseResearchWork, CourseGraphFails
    <2> QED BY <1>0, <2>1, <2>4
  <1>2. CASE BeginResearch(r)
    <2>1. Apart(r) /\ SameRow(r) /\ errors' = errors
      BY <1>2, BeginResearchKind DEF GoesOn, IsOver
    <2> QED BY <1>0, <1>2, <2>1, CourseBeginResearch
  <1>3. CASE Read(r) \/ Publish(r)
    <2>1. Apart(r) /\ SameRow(r) /\ errors' = errors
      BY <1>3, WorkerReadKind, WorkerPublishKind DEF GoesOn, IsOver
    <2> QED BY <1>0, <1>3, <2>1, CourseRead, CoursePublish
  <1>4. CASE Commit(r) \/ Timeout(r) \/ DeliverCancel(r)
    <2>1. Apart(r) /\ errors' = errors
      BY <1>4, WorkerCommitKind, TimeoutKind, DeliverCancelKind DEF GoesOn
    <2> QED BY <1>4, <2>1, CourseCommit, CourseTimeout, CourseDeliverCancel
  <1>5. CASE Start(r)
    <2>1. Apart(r) /\ SameRow(r) /\ errors' = errors
      BY <1>5, StartKind
    <2> QED BY <1>0, <1>5, <2>1, CourseStart
  <1>6. CASE DatabaseError(r)
    <2>1. Apart(r) /\ SameRow(r) /\ errors' # 0
      BY <1>6, WorkerErrorKind DEF GoesOn, IsOver
    <2> QED BY <1>0, <1>6, <2>1, CourseError
  <1>7. ASSUME NEW h \in Handlers, RequestStep(h, r)
        PROVE  /\ CourseInv' /\ Apart(r) /\ MovesOn(r)
               /\ errors' = errors \/ errors' # 0
    <2>1. CASE \/ CreateRequest(h, r) \/ CancelRequest(h, r)
               \/ \E pl \in Plans : ReviewRequest(h, r, pl)
      BY <2>1, NewRequestKind, CourseNewRequest DEF Serves
    <2>2. CASE proc[h].run = r /\ (SubmitAccepted(h) \/ Dequeue(h))
      BY <2>2, AcceptedKind, DequeueKind, CourseAccepted, CourseDequeue
    <2>3. CASE proc[h].run = r /\ (SubmitRefused(h) \/ SubmitDuplicate(h))
      BY <2>3, NotAcceptedKind, CourseQuietRequest DEF Serves
    <2>4. CASE proc[h].run = r /\ (Read(h) \/ Publish(h) \/ DatabaseError(h))
      BY <2>4, RequestReadKind, RequestPublishKind, RequestErrorKind,
         CourseQuietRequest DEF Serves
    <2>5. CASE proc[h].run = r /\ (Rollback(h) \/ Confirm(h) \/ Commit(h))
      BY <2>5, RollbackKind, ConfirmKind, RequestCommitKind,
         CourseRollback, CourseConfirm, CourseRequestCommit DEF Serves
    <2> QED BY <1>7, <2>1, <2>2, <2>3, <2>4, <2>5 DEF RequestStep
  <1> QED BY <1>1, <1>2, <1>3, <1>4, <1>5, <1>6, <1>7 DEF WorkerStep

LEMMA NextCourse == Base /\ RowsInv /\ BusyInv /\ CourseInv /\ [Next]_vars => CourseInv'
PROOF BY Steps, CourseSteps, CourseProcess

LEMMA CourseAlways == Spec => [](Base /\ RowsInv /\ BusyInv /\ CourseInv)
PROOF
  <1>1. Spec => []BusyInv
    BY RowsAlways, InitBusy, NextBusy, PTL DEF Spec
  <1>2. Spec => []CourseInv
    BY <1>1, RowsAlways, InitCourse, NextCourse, PTL DEF Spec
  <1> QED BY <1>1, <1>2, RowsAlways, PTL

-----------------------------------------------------------------------------
(* Refinement.                                                             *)

LEMMA InitLifecycle == Init => Lifecycle!Init
PROOF
  <1> SUFFICES ASSUME Init PROVE Lifecycle!Init
    OBVIOUS
  <1>1. \A p \in Processes : proc[p].pc = "off"
    BY DEF Init, Rest
  <1>2. Cancelling = {}
    BY <1>1 DEF Cancelling
  <1> QED BY <1>2 DEF Init, Lifecycle!Init

LEMMA RowsTypedNext ==
    ASSUME Base'
    PROVE  RowsTyped'
PROOF BY DEF Base, Typed, TypeOK, RowsTyped

LEMMA AroundLifecycle ==
    ASSUME Base, errors' = errors \/ (errors' # 0 /\ Base')
    PROVE  Lifecycle!Around
PROOF
  <1>1. Cancelling' \in SUBSET Runs
    BY DEF Cancelling
  <1>2. (errors > 0) => (errors > 0)'
    <2>1. CASE errors' = errors
      BY <2>1
    <2>2. CASE errors' # 0 /\ Base'
      <3>1. errors' \in 0..MaxErrors
        BY <2>2, RowsTypedNext DEF RowsTyped
      <3>2. errors' > 0
        BY <2>2, <3>1, ServiceAssumption
      <3> QED BY <3>2
    <2> QED BY <2>1, <2>2
  <1> QED BY <1>1, <1>2 DEF Lifecycle!Around

LEMMA NextLifecycle ==
    ASSUME Base, Base', RowsInv, BusyInv, CourseInv, [Next]_vars
    PROVE  [Lifecycle!Next]_(Lifecycle!vars)
PROOF
  <1>1. status \in [Runs -> Lifecycle!Statuses] /\ status' \in [Runs -> Lifecycle!Statuses]
    <2>1. RowsTyped /\ RowsTyped'
      BY BaseParts, RowsTypedNext
    <2> QED BY <2>1 DEF RowsTyped
  <1>2. ASSUME NEW r \in Runs, WorkerStep(r) \/ \E h \in Handlers : RequestStep(h, r)
        PROVE  Lifecycle!Next
    <2>1. /\ \A q \in Runs : q # r => status'[q] = status[q]
          /\ MovesOn(r)
      BY <1>2, CourseSteps DEF Apart, SameRow
    <2>2. Lifecycle!Around
      BY <1>2, CourseSteps, AroundLifecycle
    <2>3. status' = [status EXCEPT ![r] = status'[r]]
      BY <1>1, <2>1
    <2>4. CASE status'[r] = status[r]
      <3>1. UNCHANGED status
        BY <1>1, <2>1, <2>4
      <3> QED BY <2>2, <3>1 DEF Lifecycle!Next
    <2>5. CASE status'[r] \in Lifecycle!Moves(r)
      <3>1. Lifecycle!Move(r)
        BY <2>3, <2>5 DEF Lifecycle!Move
      <3> QED BY <2>2, <3>1 DEF Lifecycle!Next
    <2> QED BY <2>1, <2>4, <2>5 DEF MovesOn
  <1>3. CASE Shutdown \/ ShutdownReturns \/ UNCHANGED vars
    <2>1. UNCHANGED status /\ errors' = errors
      BY <1>3 DEF Shutdown, ShutdownReturns, vars, rowVars, errorVars
    <2> QED BY <2>1, AroundLifecycle DEF Lifecycle!Next
  <1>4. CASE Restart
    <2>1. Lifecycle!Recover /\ errors' = errors
      BY <1>4 DEF Restart, Recovered, Lifecycle!Recover, InProgress
    <2> QED BY <2>1, AroundLifecycle DEF Lifecycle!Next
  <1> QED BY <1>2, <1>3, <1>4, Steps DEF ProcessStep

(* Whatever the workers, the requests, the database errors and the         *)
(* restarts do to a row (_set_status, _set_failure, _persist_completed,    *)
(* update_plan, recover_interrupted_runs), its status moves as the life    *)
(* cycle promises: the races and the errors the specification names are    *)
(* the only exceptions.                                                    *)
THEOREM ImplementsLifecycle == Spec => FollowsLifecycle
PROOF
  <1>1. /\ Base /\ RowsInv /\ BusyInv /\ CourseInv
        /\ (Base /\ RowsInv /\ BusyInv /\ CourseInv)'
        /\ [Next]_vars
        => [Lifecycle!Next]_(Lifecycle!vars)
    BY NextLifecycle
  <1> QED BY <1>1, InitLifecycle, CourseAlways, PTL DEF Spec, FollowsLifecycle, Lifecycle!Spec

(* What the life cycle allows is little: from a final status only the      *)
(* exceptions lead on, and to research only the review.                    *)
LEMMA LifecycleMoves ==
    ASSUME NEW r \in Runs, NEW s \in Lifecycle!Moves(r)
    PROVE  /\ status[r] \in {"completed", "failed"} => r \in Cancelling \/ errors > 0
           /\ s = "researching" => status[r] = "waiting_for_review"
PROOF
  <1>1. /\ "completed" \notin DOMAIN Lifecycle!Phases
        /\ "failed" \notin DOMAIN Lifecycle!Phases
        /\ \A t \in DOMAIN Lifecycle!Phases :
              "researching" \in Lifecycle!Phases[t] => t = "waiting_for_review"
    BY DEF Lifecycle!Phases
  <1>2. /\ "completed" \notin DOMAIN Lifecycle!RaceMoves
        /\ "failed" \notin DOMAIN Lifecycle!RaceMoves
        /\ \A t \in DOMAIN Lifecycle!RaceMoves :
              "researching" \notin Lifecycle!RaceMoves[t]
    BY DEF Lifecycle!RaceMoves
  <1>3. \A t \in DOMAIN Lifecycle!ErrorMoves :
           "researching" \notin Lifecycle!ErrorMoves[t]
    BY DEF Lifecycle!ErrorMoves
  <1>4. \A t : /\ "researching" \notin Lifecycle!Failures(t)
               /\ "researching" \notin Lifecycle!Cancellations(t)
    BY DEF Lifecycle!Failures, Lifecycle!Cancellations
  <1>5. /\ Lifecycle!Failures("completed") = {}
        /\ Lifecycle!Failures("failed") = {}
    BY DEF Lifecycle!Failures, Lifecycle!InProgress
  <1>6. \/ s \in Lifecycle!From(Lifecycle!Phases, status[r])
        \/ s \in Lifecycle!Failures(status[r])
        \/ s \in Lifecycle!From(Lifecycle!RaceMoves, status[r])
        \/ r \in Cancelling /\ s \in Lifecycle!Cancellations(status[r])
        \/ errors > 0 /\ s \in Lifecycle!From(Lifecycle!ErrorMoves, status[r])
    BY DEF Lifecycle!Moves
  <1> QED BY <1>1, <1>2, <1>3, <1>4, <1>5, <1>6 DEF Lifecycle!From

LEMMA LifecycleStep ==
    ASSUME [Lifecycle!Next]_(Lifecycle!vars), Base, NEW r \in Runs
    PROVE  /\ status[r] \in {"completed", "failed"} =>
                 status'[r] = status[r] \/ r \in Cancelling \/ errors > 0
           /\ status'[r] = "researching" =>
                 status[r] \in {"waiting_for_review", "researching"}
PROOF
  <1>1. CASE \E q \in Runs : Lifecycle!Move(q)
    <2>1. PICK q \in Runs : Lifecycle!Move(q)
      BY <1>1
    <2>2. PICK s \in Lifecycle!Moves(q) : status' = [status EXCEPT ![q] = s]
      BY <2>1 DEF Lifecycle!Move
    <2>3. status \in [Runs -> Lifecycle!Statuses]
      BY BaseParts DEF RowsTyped
    <2> QED BY <2>2, <2>3, LifecycleMoves
  <1>2. CASE Lifecycle!Recover
    BY <1>2 DEF Lifecycle!Recover, Lifecycle!InProgress
  <1>3. CASE UNCHANGED status
    BY <1>3
  <1> QED BY <1>1, <1>2, <1>3 DEF Lifecycle!Next, Lifecycle!vars

(* A run that is completed or failed stays so: the workers, requests and   *)
(* restarts change it only while somebody is cancelling it, or after an    *)
(* error of the database.                                                  *)
THEOREM ResultsAreFinal ==
    Spec => [][\A r \in Runs : status[r] \in {"completed", "failed"} =>
                  status'[r] = status[r] \/ r \in Cancelling \/ errors > 0]_vars
PROOF
  <1>1. /\ Base /\ RowsInv /\ BusyInv /\ CourseInv
        /\ (Base /\ RowsInv /\ BusyInv /\ CourseInv)'
        /\ [Next]_vars
        => [\A r \in Runs : status[r] \in {"completed", "failed"} =>
               status'[r] = status[r] \/ r \in Cancelling \/ errors > 0]_vars
    BY NextLifecycle, LifecycleStep
  <1> QED BY <1>1, CourseAlways, PTL DEF Spec

(* The review cannot be passed by: research of a run begins only when its  *)
(* plan is under review (update_plan), whatever cancellations, retries and *)
(* restarts come in between.                                               *)
THEOREM ResearchIsReviewed ==
    Spec => [][\A r \in Runs : status'[r] = "researching" =>
                  status[r] \in {"waiting_for_review", "researching"}]_vars
PROOF
  <1>1. /\ Base /\ RowsInv /\ BusyInv /\ CourseInv
        /\ (Base /\ RowsInv /\ BusyInv /\ CourseInv)'
        /\ [Next]_vars
        => [\A r \in Runs : status'[r] = "researching" =>
               status[r] \in {"waiting_for_review", "researching"}]_vars
    BY NextLifecycle, LifecycleStep
  <1> QED BY <1>1, CourseAlways, PTL DEF Spec

-----------------------------------------------------------------------------
(* Ownership.  Having a task in the queue is not enough: its worker may    *)
(* have written all it will write, or be about to be cancelled.            *)

NothingToWrite(p) == proc[p].pc = "commit" /\ proc[p].seen = proc[p].goal

(* The worker of r only publishes and ends.                                *)
Finished(r) ==
    /\ proc[r].scope \in {"try", "handler"}
    /\ proc[r].pc = "publish" \/ NothingToWrite(r)

Working(r) ==
    /\ QP!Ready(r) \/ task[r] = "running"
    /\ r \notin cancelReq
    /\ ~Finished(r)

(* Request h will write the row of r, or hand r over to a worker.          *)
Serving(h, r) ==
    /\ proc[h].run = r
    /\ proc[h].pc \notin {"confirm", "publish"}
    /\ ~NothingToWrite(h)

Watched(r) == closing = "open" /\ r \notin orphaned

Cared(r) ==
    Watched(r) /\ status[r] \in InProgress =>
        Working(r) \/ \E h \in Handlers : Serving(h, r)

(* A request that has had the worker of r cancelled sees to the row.       *)
CancelCared(r) ==
    Watched(r) /\ r \in cancelReq =>
        \/ status[r] \in Terminal
        \/ \E h \in Handlers :
              /\ Serving(h, r) /\ proc[h].job = "cancel"
              /\ proc[h].pc \in {"read", "commit"}

Owned(r) == Cared(r) /\ CancelCared(r)

OwnedInv == \A r \in Runs : Owned(r)

LEMMA SameServing ==
    ASSUME NEW h \in Handlers, NEW q \in Runs,
           \/ proc'[h] = proc[h]
           \/ proc[h].run # q /\ proc'[h].run # q
    PROVE  /\ Serving(h, q)' <=> Serving(h, q)
           /\ Serving(h, q) => proc'[h].job = proc[h].job /\ proc'[h].pc = proc[h].pc
PROOF BY DEF Serving, NothingToWrite

LEMMA OwnedApart ==
    ASSUME OwnedInv, NEW r \in Runs, Apart(r), Owned(r)'
    PROVE  OwnedInv'
PROOF
  <1> SUFFICES ASSUME NEW q \in Runs, q # r PROVE Owned(q)'
    BY DEF OwnedInv
  <1>1. /\ QP!SameTask(q) /\ SameRow(q) /\ proc'[q] = proc[q] /\ Owned(q)
        /\ Watched(q)' <=> Watched(q)
    BY DEF Apart, OwnedInv, Watched
  <1>2. \A h \in Handlers : proc'[h] = proc[h] \/ (proc[h].run # q /\ proc'[h].run # q)
    BY RunsAreNoHandlers DEF Apart
  <1>3. Working(q)' <=> Working(q)
    BY <1>1 DEF Working, Finished, NothingToWrite, QP!SameTask
  <1>4. \A h \in Handlers :
            /\ Serving(h, q)' <=> Serving(h, q)
            /\ Serving(h, q) => proc'[h].job = proc[h].job /\ proc'[h].pc = proc[h].pc
    BY <1>2, SameServing
  <1>5. status'[q] = status[q] /\ (q \in cancelReq' <=> q \in cancelReq)
    BY <1>1 DEF SameRow, QP!SameTask
  <1>6. Cared(q)'
    BY <1>1, <1>3, <1>4, <1>5 DEF Owned, Cared
  <1>7. CancelCared(q)'
    BY <1>1, <1>4, <1>5 DEF Owned, CancelCared
  <1> QED BY <1>6, <1>7 DEF Owned

(* Steps of the worker of r.                                               *)

LEMMA WatchedKept ==
    ASSUME NEW r \in Runs, Apart(r), SameOrphan(r)
    PROVE  Watched(r)' <=> Watched(r)
PROOF BY DEF Apart, SameOrphan, Watched

LEMMA ServingStays ==
    ASSUME NEW r \in Runs, HandlersStay
    PROVE  \A h \in Handlers : Serving(h, r)' <=> Serving(h, r)
PROOF BY SameServing DEF HandlersStay

(* Either the worker still works, or it did not work before and leaves the *)
(* row alone, or the run is not in progress.                               *)
LEMMA OwnedGoesOn ==
    ASSUME OwnedInv, NEW r \in Runs, GoesOn(r),
           \/ Working(r)'
           \/ ~Working(r) /\ status'[r] = status[r]
           \/ status'[r] \notin InProgress
    PROVE  OwnedInv'
PROOF
  <1>1. /\ Apart(r) /\ Owned(r) /\ r \notin cancelReq'
        /\ Watched(r)' <=> Watched(r)
        /\ \A h \in Handlers : Serving(h, r)' <=> Serving(h, r)
    BY WatchedKept, ServingStays DEF GoesOn, OwnedInv, queueVars
  <1>2. Cared(r)'
    BY <1>1 DEF Owned, Cared
  <1>3. CancelCared(r)'
    BY <1>1 DEF CancelCared
  <1> QED BY <1>1, <1>2, <1>3, OwnedApart DEF Owned

LEMMA StillWorks ==
    ASSUME NEW r \in Runs, GoesOn(r), proc'[r].pc \in {"read", "graph"}
    PROVE  Working(r)'
PROOF
  <1>1. task'[r] = "running" /\ r \notin cancelReq'
    BY DEF GoesOn, queueVars
  <1> QED BY <1>1 DEF Working, Finished, NothingToWrite

LEMMA OwnedIsOver ==
    ASSUME OwnedInv, NEW r \in Runs, IsOver(r), SameOrphan(r), SameRow(r),
           ~Working(r) \/ status[r] \notin InProgress
    PROVE  OwnedInv'
PROOF
  <1>1. /\ Apart(r) /\ Owned(r) /\ r \notin cancelReq' /\ status'[r] = status[r]
        /\ Watched(r)' <=> Watched(r)
        /\ \A h \in Handlers : Serving(h, r)' <=> Serving(h, r)
    BY WatchedKept, ServingStays DEF IsOver, OwnedInv, QP!Away, SameRow
  <1>2. Cared(r)'
    BY <1>1 DEF Owned, Cared
  <1>3. CancelCared(r)'
    BY <1>1 DEF CancelCared
  <1> QED BY <1>1, <1>2, <1>3, OwnedApart DEF Owned

LEMMA GivenWay ==
    ASSUME NEW p \in Processes, GivesWay(p)
    PROVE  status[proc[p].run] \notin InProgress
PROOF BY Names DEF GivesWay

(* What the try block and the exception handlers write ends the progress.  *)
LEMMA LastGoal ==
    ASSUME Base, NEW r \in Runs, proc[r].scope \in {"try", "handler"}
    PROVE  proc[r].goal \notin InProgress
PROOF BY WorkerRun, Names DEF WorkerShape

LEMMA OwnedBeginResearch ==
    ASSUME Base, CourseInv, OwnedInv, NEW r \in Runs, BeginResearch(r)
    PROVE  OwnedInv'
PROOF
  <1>1. NotBegun(r)
    BY DEF BeginResearch, NotBegun
  <1>2. status[r] \in {"researching", "cancelled", "failed"}
    BY <1>1 DEF CourseInv, Course, Fresh
  <1>3. CASE GoesOn(r) /\ proc'[r].pc = "graph"
    BY <1>3, StillWorks, OwnedGoesOn
  <1>4. CASE IsOver(r) /\ status[r] # "researching"
    <2>1. status[r] \notin InProgress
      BY <1>2, <1>4, Names
    <2> QED BY <1>4, <2>1, BeginResearchKind, OwnedIsOver
  <1> QED BY <1>3, <1>4, BeginResearchKind

LEMMA OwnedWork ==
    ASSUME Base, OwnedInv, NEW r \in Runs,
           \/ BeginPlanning(r) \/ GraphProgress(r) \/ PlanReady(r)
           \/ ReportReady(r) \/ GraphFails(r)
    PROVE  OwnedInv'
PROOF
  <1>1. proc'[r].pc = "read"
    <2>1. Typed
      BY DEF Base
    <2>2. CASE GraphFails(r)
      <3>1. Fails(r) /\ proc[r].pc # "off"
        BY <2>2 DEF GraphFails, InGraph
      <3> QED BY <2>1, <3>1, FailsEffect DEF Calls
    <2> QED BY <2>1, <2>2, BeginPlanningEffect, GraphProgressEffect,
               PlanReadyEffect, ReportReadyEffect DEF Calls
  <1> QED BY <1>1, WorkGoesOn, StillWorks, OwnedGoesOn

LEMMA OwnedRead ==
    ASSUME Base, OwnedInv, NEW r \in Runs, Read(r)
    PROVE  OwnedInv'
PROOF
  <1>1. proc[r].run = r /\ r \in Processes
    BY WorkerRun
  <1>2. CASE GoesOn(r) /\ StepsTo(r, "commit") /\ proc'[r].seen = status[r]
    <2>1. /\ proc'[r].scope = proc[r].scope /\ proc'[r].goal = proc[r].goal
          /\ proc'[r].pc = "commit"
      BY <1>2 DEF StepsTo, SameCall
    <2>2. status'[r] = status[r]
      BY WorkerReadKind DEF SameRow
    <2>3. CASE Finished(r)'
      <3>1. proc[r].scope \in {"try", "handler"} /\ status[r] = proc[r].goal
        BY <1>2, <2>1, <2>3 DEF Finished, NothingToWrite
      <3> QED BY <1>2, <2>2, <3>1, LastGoal, OwnedGoesOn
    <2>4. CASE ~Finished(r)'
      <3>1. Working(r)'
        BY <1>2, <2>4 DEF GoesOn, queueVars, Working
      <3> QED BY <1>2, <3>1, OwnedGoesOn
    <2> QED BY <2>3, <2>4
  <1>3. CASE GoesOn(r) /\ proc'[r].pc = "graph"
    BY <1>3, StillWorks, OwnedGoesOn
  <1>4. CASE IsOver(r) /\ GivesWay(r)
    <2>1. status[r] \notin InProgress
      BY <1>1, <1>4, GivenWay
    <2> QED BY <1>4, <2>1, WorkerReadKind, OwnedIsOver
  <1> QED BY <1>2, <1>3, <1>4, WorkerReadKind

LEMMA OwnedCommit ==
    ASSUME Base, OwnedInv, NEW r \in Runs, Commit(r)
    PROVE  OwnedInv'
PROOF
  <1>1. /\ GoesOn(r) /\ proc[r].pc = "commit"
        /\ proc'[r].scope = proc[r].scope
        /\ status'[r] = (IF proc[r].goal = proc[r].seen THEN status[r] ELSE proc[r].goal)
    BY WorkerCommitKind DEF StepsTo
  <1>2. CASE proc[r].scope \notin {"try", "handler"}
    <2>1. Working(r)'
      BY <1>1, <1>2 DEF GoesOn, queueVars, Working, Finished
    <2> QED BY <1>1, <2>1, OwnedGoesOn
  <1>3. CASE proc[r].scope \in {"try", "handler"} /\ proc[r].goal = proc[r].seen
    <2>1. ~Working(r)
      BY <1>1, <1>3 DEF Working, Finished, NothingToWrite
    <2> QED BY <1>1, <1>3, <2>1, OwnedGoesOn
  <1>4. CASE proc[r].scope \in {"try", "handler"} /\ proc[r].goal # proc[r].seen
    <2>1. status'[r] \notin InProgress
      BY <1>1, <1>4, LastGoal
    <2> QED BY <1>1, <2>1, OwnedGoesOn
  <1> QED BY <1>2, <1>3, <1>4

LEMMA OwnedPublish ==
    ASSUME Base, OwnedInv, NEW r \in Runs, Publish(r)
    PROVE  OwnedInv'
PROOF
  <1>1. CASE GoesOn(r) /\ proc'[r].pc = "graph"
    BY <1>1, StillWorks, OwnedGoesOn
  <1>2. CASE IsOver(r) /\ proc[r].scope \in {"try", "handler"}
    <2>1. ~Working(r)
      BY <1>2, WorkerPublishKind DEF Working, Finished
    <2> QED BY <1>2, <2>1, WorkerPublishKind, OwnedIsOver
  <1> QED BY <1>1, <1>2, WorkerPublishKind

LEMMA OwnedTimeout ==
    ASSUME Base, OwnedInv, NEW r \in Runs, Timeout(r)
    PROVE  OwnedInv'
PROOF
  <1>1. GoesOn(r) /\ proc'[r].pc = "read"
    BY TimeoutKind DEF Calls
  <1> QED BY <1>1, StillWorks, OwnedGoesOn

LEMMA OwnedLost ==
    ASSUME OwnedInv, NEW r \in Runs, Apart(r), r \in orphaned'
    PROVE  OwnedInv'
PROOF BY OwnedApart DEF Owned, Cared, CancelCared, Watched

LEMMA OwnedError ==
    ASSUME Base, OwnedInv, NEW r \in Runs, DatabaseError(r)
    PROVE  OwnedInv'
PROOF
  <1>1. CASE GoesOn(r) /\ proc'[r].pc = "read"
    BY <1>1, StillWorks, OwnedGoesOn
  <1>2. CASE IsOver(r) /\ r \in orphaned'
    BY <1>2, OwnedLost DEF IsOver
  <1> QED BY <1>1, <1>2, WorkerErrorKind DEF Calls

LEMMA OwnedStart ==
    ASSUME Base, OwnedInv, NEW r \in Runs, Start(r)
    PROVE  OwnedInv'
PROOF
  <1>1. /\ Apart(r) /\ task'[r] = "running" /\ r \notin cancelReq'
        /\ proc'[r].pc = "get"
    BY StartKind DEF StepsTo
  <1>2. Working(r)'
    BY <1>1 DEF Working, Finished, NothingToWrite
  <1> QED BY <1>1, <1>2, OwnedApart DEF Owned, Cared, CancelCared

(* A write that the cancellation interrupted, of a run that has ended.     *)
LEMMA LateWrite ==
    ASSUME Base, CourseInv, NEW r \in Runs, proc[r].scope \in {"outside", "handler"},
           SameRow(r) \/ Writes(r, r), status[r] \in Terminal
    PROVE  status'[r] \notin InProgress
PROOF
  <1>1. status[r] \notin InProgress
    BY Names
  <1>2. CASE SameRow(r)
    BY <1>1, <1>2 DEF SameRow
  <1>3. CASE proc[r].pc = "commit" /\ status'[r] \in {status[r], proc[r].goal}
    <2>1. CASE proc[r].scope = "handler"
      BY <1>1, <1>3, <2>1, LastGoal
    <2>2. CASE proc[r].scope = "outside"
      <3>1. proc[r].job = "planning" /\ proc[r].op = "set"
        BY <1>3, <2>2, WorkerRun DEF WorkerShape
      <3>2. PlanPending(r)
        BY <2>2, <3>1 DEF PlanPending
      <3>3. status[r] \in {"queued", "planning"}
        BY <3>2 DEF CourseInv, Course, Early
      <3> QED BY <3>3, Names
    <2> QED BY <2>1, <2>2
  <1> QED BY <1>2, <1>3 DEF Writes

LEMMA OwnedDeliverCancel ==
    ASSUME Base, BusyInv, CourseInv, OwnedInv, NEW r \in Runs, DeliverCancel(r)
    PROVE  OwnedInv'
PROOF
  <1>1. /\ Apart(r) /\ r \in cancelReq /\ r \notin cancelReq' /\ Owned(r) /\ Busy(r)
        /\ Watched(r)' <=> Watched(r)
        /\ \A h \in Handlers : Serving(h, r)' <=> Serving(h, r)
    BY DeliverCancelKind, WatchedKept, ServingStays DEF OwnedInv, BusyInv
  <1>2. CancelCared(r)'
    BY <1>1 DEF CancelCared
  <1>3. CASE /\ proc[r].scope \in {"graph", "try"}
             /\ Calls(r, "set", "cancelled", "handler")
             /\ task[r] = "running" => task'[r] = "running"
    <2>1. proc[r].job # "none"
      BY <1>3, WorkerRun DEF WorkerShape, InHelper
    <2>2. ~QP!Ready(r)
      BY <1>3 DEF Base, Linked
    <2>3. task'[r] = "running" /\ proc'[r].pc = "read"
      BY <1>1, <1>3, <2>1, <2>2 DEF Busy, Calls
    <2>4. Working(r)'
      BY <1>1, <2>3 DEF Working, Finished, NothingToWrite
    <2> QED BY <1>1, <1>2, <2>4, OwnedApart DEF Owned, Cared
  <1>4. CASE proc[r].scope \notin {"graph", "try"}
    <2>1. proc[r].scope \in {"outside", "handler"}
      BY <1>4, WorkerRun DEF ProcStates, Scopes
    <2>2. SameRow(r) \/ Writes(r, r)
      BY DeliverCancelKind DEF Writes
    <2>3. status[r] \in Terminal => status'[r] \notin InProgress
      BY <2>1, <2>2, LateWrite
    <2>4. Watched(r) => \/ status[r] \in Terminal
                        \/ \E h \in Handlers : Serving(h, r)
      BY <1>1 DEF Owned, CancelCared
    <2>5. Cared(r)'
      BY <1>1, <2>3, <2>4 DEF Cared
    <2> QED BY <1>1, <1>2, <2>5, OwnedApart DEF Owned
  <1> QED BY <1>3, <1>4, DeliverCancelKind

(* Steps of the requests.                                                  *)

(* A request that leaves the queue alone: the worker of r works on.        *)
LEMMA ServesKeeps ==
    ASSUME NEW h \in Handlers, NEW r \in Runs, Serves(h, r)
    PROVE  /\ Apart(r) /\ (r \in cancelReq' <=> r \in cancelReq)
           /\ Working(r)' <=> Working(r)
           /\ \A g \in Handlers : g # h =>
                 proc'[g] = proc[g] /\ (Serving(g, r)' <=> Serving(g, r))
           /\ Watched(r)' => Watched(r) \/ ~SameOrphan(r)
PROOF
  <1>1. r # h /\ r \in Processes /\ \A g \in Handlers : g \in Processes
    BY RunsAreNoHandlers, Names
  <1>2. /\ proc'[r] = proc[r] /\ QP!SameTask(r) /\ Apart(r)
        /\ \A g \in Handlers : g # h => proc'[g] = proc[g]
    BY <1>1, QuietOthers DEF Serves
  <1>3. Working(r)' <=> Working(r)
    BY <1>2 DEF Working, Finished, NothingToWrite, QP!SameTask
  <1>4. r \in cancelReq' <=> r \in cancelReq
    BY <1>2 DEF QP!SameTask
  <1>5. \A g \in Handlers : g # h => (Serving(g, r)' <=> Serving(g, r))
    BY <1>2, SameServing
  <1>6. Watched(r)' => Watched(r) \/ ~SameOrphan(r)
    BY <1>2 DEF Apart, Watched, SameOrphan
  <1> QED BY <1>2, <1>3, <1>4, <1>5, <1>6

(* It goes on serving r: in particular for one that cancels.               *)
LEMMA OwnedServed ==
    ASSUME OwnedInv, NEW h \in Handlers, NEW r \in Runs, Serves(h, r), SameOrphan(r),
           status'[r] \in InProgress =>
                \/ Serving(h, r)'
                \/ status[r] \in InProgress /\ ~Serving(h, r),
           \/ r \notin cancelReq
           \/ status'[r] \in Terminal
           \/ /\ status'[r] = status[r]
              /\ Serving(h, r) /\ proc[h].job = "cancel" /\ proc[h].pc \in {"read", "commit"}
                    => /\ Serving(h, r)' /\ proc'[h].job = "cancel"
                       /\ proc'[h].pc \in {"read", "commit"}
           \/ status[r] \notin Terminal /\ proc[h].job # "cancel"
    PROVE  OwnedInv'
PROOF
  <1>1. /\ Apart(r) /\ Owned(r) /\ (r \in cancelReq' <=> r \in cancelReq)
        /\ Working(r)' <=> Working(r)
        /\ \A g \in Handlers : g # h =>
              proc'[g] = proc[g] /\ (Serving(g, r)' <=> Serving(g, r))
        /\ Watched(r)' => Watched(r)
    BY ServesKeeps DEF OwnedInv
  <1>2. Cared(r)'
    BY <1>1 DEF Owned, Cared
  <1>3. CancelCared(r)'
    BY <1>1 DEF Owned, CancelCared
  <1> QED BY <1>1, <1>2, <1>3, OwnedApart DEF Owned

LEMMA OwnedNewRequest ==
    ASSUME Base, OwnedInv, NEW h \in Handlers, NEW r \in Runs,
           \/ CreateRequest(h, r) \/ CancelRequest(h, r)
           \/ \E pl \in Plans : ReviewRequest(h, r, pl)
    PROVE  OwnedInv'
PROOF
  <1>1. /\ Serves(h, r) /\ SameOrphan(r) /\ proc[h].run = NoRun /\ proc'[h].run = r
    BY NewRequestKind
  <1>2. ~Serving(h, r) /\ proc[h].job # "cancel"
    BY <1>1, RequestRun, RunsAreNoHandlers DEF Serving, HandlerShape
  <1>3. CASE status[r] = "absent" /\ proc'[h].pc = "submit"
    <2>1. Serving(h, r)' /\ status[r] \notin Terminal
      BY <1>1, <1>3, Names DEF Serving, NothingToWrite
    <2> QED BY <1>1, <1>2, <2>1, OwnedServed
  <1>4. CASE SameRow(r)
    BY <1>1, <1>2, <1>4, OwnedServed DEF SameRow
  <1> QED BY <1>3, <1>4, NewRequestKind

LEMMA OwnedNotAccepted ==
    ASSUME Base, OwnedInv, NEW h \in Handlers, NEW r \in Runs, proc[h].run = r,
           SubmitRefused(h) \/ SubmitDuplicate(h)
    PROVE  OwnedInv'
PROOF
  <1>1. /\ Serves(h, r) /\ SameOrphan(r) /\ status'[r] = status[r]
        /\ proc'[h].run = r /\ proc'[h].pc \in {"rollback", "submit", "read"}
        /\ proc[h].job # "cancel"
    BY NotAcceptedKind DEF SameRow
  <1>2. Serving(h, r)'
    BY <1>1 DEF Serving, NothingToWrite
  <1> QED BY <1>1, <1>2, OwnedServed

LEMMA OwnedRollback ==
    ASSUME Base, RowsInv, OwnedInv, NEW h \in Handlers, NEW r \in Runs,
           proc[h].run = r, Rollback(h)
    PROVE  OwnedInv'
PROOF
  <1>1. /\ Serves(h, r) /\ SameOrphan(r) /\ status'[r] = "absent"
        /\ proc[h].job = "create" /\ RowInv(r)
    BY RollbackKind DEF RowsInv
  <1>2. status[r] = "queued"
    BY <1>1 DEF RowInv, Creation
  <1>3. status[r] \notin Terminal /\ status'[r] \notin InProgress
    BY <1>1, <1>2, Names
  <1> QED BY <1>1, <1>3, OwnedServed

LEMMA OwnedConfirm ==
    ASSUME Base, OwnedInv, NEW h \in Handlers, NEW r \in Runs,
           proc[h].run = r, Confirm(h)
    PROVE  OwnedInv'
PROOF
  <1>1. /\ Serves(h, r) /\ SameOrphan(r) /\ ~Serving(h, r)
    BY ConfirmKind DEF Serving
  <1>2. CASE /\ status[r] = "waiting_for_review"
             /\ StepsTo(h, "submit") /\ proc[h].job = "review"
    <2>1. Serving(h, r)' /\ status[r] \notin Terminal
      BY <1>2, Names DEF Serving, NothingToWrite, StepsTo, SameWork
    <2> QED BY <1>1, <1>2, <2>1, OwnedServed
  <1>3. CASE SameRow(r)
    BY <1>1, <1>3, OwnedServed DEF SameRow
  <1> QED BY <1>2, <1>3, ConfirmKind

LEMMA OwnedRequestRead ==
    ASSUME Base, RowsInv, OwnedInv, NEW h \in Handlers, NEW r \in Runs,
           proc[h].run = r, Read(h)
    PROVE  OwnedInv'
PROOF
  <1>1. /\ Serves(h, r) /\ SameOrphan(r) /\ status'[r] = status[r]
        /\ proc[h].pc = "read" /\ h \in Processes
        /\ status[r] # "absent"
    BY RequestReadKind, RequestRun DEF SameRow, RowsInv, RowInv, NoRow
  <1>2. proc[h].goal \in Terminal /\ Terminal \cap InProgress = {}
    BY <1>1, RequestRun, Names DEF HandlerShape
  <1>3. CASE GivesWay(h)
    <2>1. status[r] \in Terminal
      BY <1>1, <1>3, Names DEF GivesWay
    <2> QED BY <1>1, <1>2, <2>1, OwnedServed
  <1>4. CASE StepsTo(h, "commit") /\ proc'[h].seen = status[r]
    <2>1. /\ proc'[h].run = r /\ proc'[h].pc = "commit" /\ proc'[h].job = proc[h].job
          /\ proc'[h].goal = proc[h].goal
      BY <1>4 DEF StepsTo, SameWork, SameCall
    <2>2. CASE status[r] = proc[h].goal
      BY <1>1, <1>2, <2>2, OwnedServed
    <2>3. CASE status[r] # proc[h].goal
      <3>1. Serving(h, r)'
        BY <1>4, <2>1, <2>3 DEF Serving, NothingToWrite
      <3> QED BY <1>1, <2>1, <3>1, OwnedServed
    <2> QED BY <2>2, <2>3
  <1> QED BY <1>3, <1>4, RequestReadKind

LEMMA OwnedRequestCommit ==
    ASSUME Base, OwnedInv, NEW h \in Handlers, NEW r \in Runs,
           proc[h].run = r, Commit(h)
    PROVE  OwnedInv'
PROOF
  <1>1. /\ Serves(h, r) /\ SameOrphan(r) /\ r \notin cancelReq
        /\ proc[h].pc = "commit"
        /\ status'[r] = (IF proc[h].goal = proc[h].seen THEN status[r] ELSE proc[h].goal)
    BY RequestCommitKind
  <1>2. proc[h].goal \notin InProgress
    BY <1>1, RequestRun, Names DEF HandlerShape
  <1>3. CASE proc[h].goal = proc[h].seen
    <2>1. ~Serving(h, r) /\ status'[r] = status[r]
      BY <1>1, <1>3 DEF Serving, NothingToWrite
    <2> QED BY <1>1, <2>1, OwnedServed
  <1>4. CASE proc[h].goal # proc[h].seen
    BY <1>1, <1>2, <1>4, OwnedServed
  <1> QED BY <1>3, <1>4

LEMMA OwnedRequestPublish ==
    ASSUME Base, OwnedInv, NEW h \in Handlers, NEW r \in Runs,
           proc[h].run = r, Publish(h)
    PROVE  OwnedInv'
PROOF
  <1>1. /\ Serves(h, r) /\ SameOrphan(r) /\ status'[r] = status[r] /\ ~Serving(h, r)
    BY RequestPublishKind DEF SameRow, Serving
  <1> QED BY <1>1, OwnedServed

LEMMA OwnedRequestError ==
    ASSUME Base, OwnedInv, NEW h \in Handlers, NEW r \in Runs,
           proc[h].run = r, DatabaseError(h)
    PROVE  OwnedInv'
PROOF
  <1>1. Serves(h, r) /\ status'[r] = status[r] /\ Apart(r)
    BY RequestErrorKind DEF SameRow, Serves
  <1>2. CASE r \in orphaned'
    BY <1>1, <1>2, OwnedLost
  <1>3. CASE proc[h].pc = "confirm" /\ SameOrphan(r)
    <2>1. ~Serving(h, r)
      BY <1>3 DEF Serving
    <2> QED BY <1>1, <1>3, <2>1, OwnedServed
  <1> QED BY <1>2, <1>3, RequestErrorKind

LEMMA OwnedAccepted ==
    ASSUME Base, OwnedInv, NEW h \in Handlers, NEW r \in Runs,
           proc[h].run = r, SubmitAccepted(h)
    PROVE  OwnedInv'
PROOF
  <1>1. /\ Apart(r) /\ QP!Ready(r)' /\ r \notin cancelReq' /\ proc'[r].pc = "off"
    BY AcceptedKind
  <1>2. Working(r)'
    BY <1>1 DEF Working, Finished, NothingToWrite
  <1> QED BY <1>1, <1>2, OwnedApart DEF Owned, Cared, CancelCared

LEMMA OwnedDequeue ==
    ASSUME Base, OwnedInv, NEW h \in Handlers, NEW r \in Runs,
           proc[h].run = r, Dequeue(h)
    PROVE  OwnedInv'
PROOF
  <1>1. /\ Apart(r) /\ proc'[h].run = r /\ proc'[h].pc = "read"
        /\ proc'[h].job = "cancel"
    BY DequeueKind DEF Calls, SameWork
  <1>2. Serving(h, r)'
    BY <1>1 DEF Serving, NothingToWrite
  <1> QED BY <1>1, <1>2, OwnedApart DEF Owned, Cared, CancelCared

(* Stop and restart.                                                       *)

LEMMA OwnedProcess ==
    ASSUME Base, OwnedInv, ProcessStep
    PROVE  OwnedInv'
PROOF
  <1> SUFFICES ASSUME NEW r \in Runs PROVE Owned(r)'
    BY DEF OwnedInv
  <1>1. Owned(r)
    BY DEF OwnedInv
  <1>2. CASE Shutdown \/ ShutdownReturns
    <2>1. closing' # "open"
      BY <1>2, SameProcessActions
         DEF Shutdown, ShutdownReturns, QP!Shutdown, QP!ShutdownReturns
    <2> QED BY <2>1 DEF Owned, Cared, CancelCared, Watched
  <1>3. CASE Restart
    <2>1. status'[r] \notin InProgress /\ r \notin cancelReq'
      BY <1>3, SameProcessActions, Names DEF Restart, Recovered, QP!Restart
    <2> QED BY <2>1 DEF Owned, Cared, CancelCared
  <1>4. CASE UNCHANGED vars
    <2>1. /\ proc' = proc /\ status' = status /\ orphaned' = orphaned
          /\ task' = task /\ waiting' = waiting /\ cancelReq' = cancelReq
          /\ closing' = closing
      BY <1>4 DEF vars, queueVars, rowVars, errorVars
    <2>2. Working(r)' <=> Working(r)
      BY <2>1 DEF Working, Finished, NothingToWrite, QP!Ready, QP!Waiting
    <2>3. \A h \in Handlers : Serving(h, r)' <=> Serving(h, r)
      BY <2>1 DEF Serving, NothingToWrite
    <2> QED BY <1>1, <2>1, <2>2, <2>3 DEF Owned, Cared, CancelCared, Watched
  <1> QED BY <1>2, <1>3, <1>4 DEF ProcessStep

LEMMA InitOwned == Init => OwnedInv
PROOF
  <1> SUFFICES ASSUME Init, NEW r \in Runs PROVE Owned(r)
    BY DEF OwnedInv
  <1>1. status[r] \notin InProgress /\ r \notin cancelReq
    BY Names, SameProcessActions DEF Init, QP!Init
  <1> QED BY <1>1 DEF Owned, Cared, CancelCared

LEMMA NextOwned ==
    Base /\ RowsInv /\ BusyInv /\ CourseInv /\ OwnedInv /\ [Next]_vars => OwnedInv'
PROOF
  <1> SUFFICES ASSUME Base, RowsInv, BusyInv, CourseInv, OwnedInv, [Next]_vars
               PROVE  OwnedInv'
    OBVIOUS
  <1>1. ASSUME NEW r \in Runs, WorkerStep(r) PROVE OwnedInv'
    BY <1>1, OwnedStart, OwnedDeliverCancel, OwnedTimeout, OwnedError, OwnedWork,
       OwnedBeginResearch, OwnedRead, OwnedCommit, OwnedPublish DEF WorkerStep
  <1>2. ASSUME NEW h \in Handlers, NEW r \in Runs, RequestStep(h, r) PROVE OwnedInv'
    BY <1>2, OwnedNewRequest, OwnedNotAccepted, OwnedRollback, OwnedConfirm,
       OwnedRequestRead, OwnedRequestCommit, OwnedRequestPublish, OwnedRequestError,
       OwnedAccepted, OwnedDequeue DEF RequestStep
  <1> QED BY <1>1, <1>2, OwnedProcess, Steps

(* While the service is up, a run whose status says that something is      *)
(* going on has a worker in the queue or a request that is being served    *)
(* for it, unless a database error has ended the one who had it: however   *)
(* create, update_plan, cancel, the workers of research_service.py and the *)
(* queue of task_queue.py get in each other's way.                         *)
THEOREM RunsAreOwned == Spec => []InProgressIsOwned
PROOF
  <1>1. Base /\ OwnedInv => InProgressIsOwned
    <2> SUFFICES ASSUME Base, OwnedInv, closing = "open",
                        NEW r \in Runs \ orphaned, status[r] \in InProgress
                 PROVE  HasWorker(r) \/ Served(r)
      BY DEF InProgressIsOwned
    <2>1. Working(r) \/ \E h \in Handlers : Serving(h, r)
      BY DEF OwnedInv, Owned, Cared, Watched
    <2>2. CASE Working(r)
      <3>1. r \in QP!Waiting \/ QP!Live(r)
        BY <2>2 DEF Working, QP!Ready, QP!Live
      <3> QED BY <3>1, SameViews DEF HasWorker
    <2>3. CASE \E h \in Handlers : Serving(h, r)
      BY <2>3 DEF Serving, Served
    <2> QED BY <2>1, <2>2, <2>3
  <1>2. Spec => []OwnedInv
    BY InitOwned, NextOwned, CourseAlways, PTL DEF Spec
  <1> QED BY <1>1, <1>2, CourseAlways, PTL

-----------------------------------------------------------------------------
(* What the open streams have been told, where nobody cancels.             *)

(* Process w publishes next, or after it has marked the run as failed.     *)
Teller(w) == w.pc = "publish" \/ (w.op = "fail" /\ w.pc \in {"read", "commit"})

Told(r) ==
    \/ published[r] = status[r]
    \/ Teller(proc[r])
    \/ \E h \in Handlers : proc[h].run = r /\ Teller(proc[h])

(* Only a stopping service cancels a worker, and the next process begins   *)
(* by telling everybody where the runs are.                                *)
Tame(r) ==
    closing = "open" =>
        /\ r \notin cancelReq
        /\ proc[r].goal # "cancelled"
        /\ status[r] = "cancelled" =>
              /\ published[r] = "cancelled" /\ proc[r].job = "none"
              /\ \A h \in Handlers : proc[h].run # r

Heard(r) ==
    /\ \A h \in Handlers : proc[h].run = r => proc[h].job # "cancel"
    /\ Tame(r)
    /\ Watched(r) /\ status[r] \in Terminal => Told(r)

HeardInv == \A r \in Runs : Heard(r)

OthersTold(r) == \A q \in Runs : q # r => published'[q] = published[q]

LEMMA PublishedQuietly ==
    ASSUME NEW r \in Runs,
           \/ Start(r) \/ DeliverCancel(r) \/ Timeout(r) \/ DatabaseError(r)
           \/ BeginPlanning(r) \/ BeginResearch(r) \/ GraphProgress(r)
           \/ PlanReady(r) \/ ReportReady(r) \/ GraphFails(r)
           \/ Read(r) \/ Commit(r)
    PROVE  published' = published
PROOF
  <1>1. Start(r) => published' = published
    BY DEF Start
  <1>2. DeliverCancel(r) => published' = published
    BY Zenon DEF DeliverCancel
  <1>3. Timeout(r) => published' = published
    BY Zenon DEF Timeout
  <1>4. DatabaseError(r) => published' = published
    BY Zenon DEF DatabaseError
  <1>5. BeginPlanning(r) \/ BeginResearch(r) \/ GraphProgress(r) => published' = published
    BY Zenon DEF BeginPlanning, BeginResearch, GraphProgress
  <1>6. PlanReady(r) \/ ReportReady(r) \/ GraphFails(r) => published' = published
    BY Zenon DEF PlanReady, ReportReady, GraphFails
  <1>7. Read(r) \/ Commit(r) => published' = published
    BY Zenon DEF Read, Commit
  <1> QED BY <1>1, <1>2, <1>3, <1>4, <1>5, <1>6, <1>7

LEMMA RequestedQuietly ==
    ASSUME NEW h \in Handlers, NEW r \in Runs,
           \/ CancelRequest(h, r) \/ \E pl \in Plans : ReviewRequest(h, r, pl)
           \/ SubmitAccepted(h) \/ SubmitRefused(h) \/ SubmitDuplicate(h)
           \/ Confirm(h) \/ Dequeue(h) \/ Read(h) \/ Commit(h) \/ DatabaseError(h)
    PROVE  published' = published
PROOF
  <1>1. CancelRequest(h, r) => published' = published
    BY Zenon DEF CancelRequest
  <1>2. (\E pl \in Plans : ReviewRequest(h, r, pl)) => published' = published
    BY Zenon DEF ReviewRequest
  <1>3. SubmitAccepted(h) \/ SubmitRefused(h) \/ SubmitDuplicate(h) => published' = published
    BY Zenon DEF SubmitAccepted, SubmitRefused, SubmitDuplicate
  <1>4. Confirm(h) \/ Dequeue(h) => published' = published
    BY Zenon DEF Confirm, Dequeue
  <1>5. Read(h) \/ Commit(h) \/ DatabaseError(h) => published' = published
    BY Zenon DEF Read, Commit, DatabaseError
  <1> QED BY <1>1, <1>2, <1>3, <1>4, <1>5

LEMMA PublishTells ==
    ASSUME Base, NEW p \in Processes, NEW r \in Runs, proc[p].run = r, Publish(p)
    PROVE  published'[r] = status[r] /\ OthersTold(r)
PROOF
  <1>1. published \in [Runs -> Lifecycle!Statuses]
    BY BaseParts DEF RowsTyped
  <1>2. published' = [published EXCEPT ![proc[p].run] = Snapshot(p)]
    BY Zenon DEF Publish
  <1> QED BY <1>1, <1>2 DEF Snapshot, OthersTold

LEMMA CreateTells ==
    ASSUME Base, NEW h \in Handlers, NEW r \in Runs, CreateRequest(h, r)
    PROVE  OthersTold(r)
PROOF
  <1>1. published \in [Runs -> Lifecycle!Statuses]
    BY BaseParts DEF RowsTyped
  <1>2. published' = [published EXCEPT ![r] = "queued"]
    BY Zenon DEF CreateRequest
  <1> QED BY <1>1, <1>2 DEF OthersTold

LEMMA RollbackTells ==
    ASSUME Base, NEW h \in Handlers, NEW r \in Runs, proc[h].run = r, Rollback(h)
    PROVE  OthersTold(r)
PROOF
  <1>1. published \in [Runs -> Lifecycle!Statuses]
    BY BaseParts DEF RowsTyped
  <1>2. published' = [published EXCEPT ![r] = "absent"]
    BY Zenon DEF Rollback
  <1> QED BY <1>1, <1>2 DEF OthersTold

LEMMA QuietTells ==
    ASSUME NEW r \in Runs, published' = published
    PROVE  OthersTold(r) /\ published'[r] = published[r]
PROOF BY DEF OthersTold

LEMMA HeardApart ==
    ASSUME HeardInv, NEW r \in Runs, Apart(r), OthersTold(r), Heard(r)'
    PROVE  HeardInv'
PROOF
  <1> SUFFICES ASSUME NEW q \in Runs, q # r PROVE Heard(q)'
    BY DEF HeardInv
  <1>1. /\ QP!SameTask(q) /\ SameRow(q) /\ proc'[q] = proc[q] /\ Heard(q)
        /\ closing' = closing /\ published'[q] = published[q]
        /\ Watched(q)' <=> Watched(q)
    BY DEF Apart, HeardInv, Watched, OthersTold
  <1>2. \A h \in Handlers : proc'[h] = proc[h] \/ (proc[h].run # q /\ proc'[h].run # q)
    BY RunsAreNoHandlers DEF Apart
  <1>3. status'[q] = status[q] /\ (q \in cancelReq' <=> q \in cancelReq)
    BY <1>1 DEF SameRow, QP!SameTask
  <1>4. \A h \in Handlers : proc'[h].run = q => proc'[h].job # "cancel"
    BY <1>1, <1>2 DEF Heard
  <1>5. Tame(q)'
    BY <1>1, <1>2, <1>3 DEF Heard, Tame
  <1>6. Told(q) => Told(q)'
    BY <1>1, <1>2, <1>3 DEF Told, Teller
  <1>7. Watched(q)' /\ status'[q] \in Terminal => Told(q)'
    BY <1>1, <1>3, <1>6 DEF Heard
  <1> QED BY <1>4, <1>5, <1>7 DEF Heard

LEMMA HeardWorker ==
    ASSUME HeardInv, NEW r \in Runs, Apart(r), HandlersStay, OthersTold(r),
           closing = "open" =>
                /\ r \notin cancelReq' /\ proc'[r].goal # "cancelled"
                /\ status'[r] # "cancelled",
           Watched(r)' /\ status'[r] \in Terminal =>
                \/ published'[r] = status'[r]
                \/ Teller(proc'[r])
                \/ /\ Watched(r) /\ ~Teller(proc[r])
                   /\ status'[r] = status[r] /\ published'[r] = published[r]
    PROVE  HeardInv'
PROOF
  <1>1. /\ closing' = closing /\ Heard(r)
        /\ \A h \in Handlers : proc'[h] = proc[h]
    BY DEF Apart, HandlersStay, HeardInv
  <1>2. \A h \in Handlers : proc'[h].run = r => proc'[h].job # "cancel"
    BY <1>1 DEF Heard
  <1>3. Tame(r)'
    BY <1>1 DEF Tame
  <1>4. Watched(r)' /\ status'[r] \in Terminal => Told(r)'
    BY <1>1 DEF Heard, Told
  <1>5. Heard(r)'
    BY <1>2, <1>3, <1>4 DEF Heard
  <1> QED BY <1>5, HeardApart

LEMMA WorkerTame ==
    ASSUME Base, HeardInv, NEW r \in Runs, proc[r].pc # "off" \/ proc[r].job # "none"
    PROVE  closing = "open" =>
                /\ r \notin cancelReq /\ proc[r].goal # "cancelled"
                /\ status[r] # "cancelled"
PROOF
  <1>1. proc[r].job # "none"
    BY WorkerRun DEF WorkerShape
  <1> QED BY <1>1 DEF HeardInv, Heard, Tame

(* The worker goes on without writing.                                     *)
LEMMA HeardGoesOn ==
    ASSUME Base, HeardInv, NEW r \in Runs, GoesOn(r), SameRow(r),
           proc[r].job # "none", published' = published,
           proc'[r].goal # "cancelled" \/ proc'[r].goal = proc[r].goal,
           Teller(proc'[r]) \/ ~Teller(proc[r])
    PROVE  HeardInv'
PROOF
  <1>1. /\ Apart(r) /\ HandlersStay /\ OthersTold(r) /\ cancelReq' = cancelReq
        /\ status'[r] = status[r] /\ published'[r] = published[r]
        /\ Watched(r)' <=> Watched(r)
    BY QuietTells, WatchedKept DEF GoesOn, SameRow, queueVars
  <1>2. closing = "open" =>
            /\ r \notin cancelReq' /\ proc'[r].goal # "cancelled"
            /\ status'[r] # "cancelled"
    BY <1>1, WorkerTame
  <1> QED BY <1>1, <1>2, HeardWorker

LEMMA HeardOver ==
    ASSUME Base, HeardInv, NEW r \in Runs, IsOver(r), SameRow(r),
           proc[r].job # "none", OthersTold(r),
           Watched(r)' /\ status'[r] \in Terminal =>
                \/ published'[r] = status'[r]
                \/ Watched(r) /\ ~Teller(proc[r]) /\ published' = published
    PROVE  HeardInv'
PROOF
  <1>1. /\ Apart(r) /\ HandlersStay /\ r \notin cancelReq'
        /\ status'[r] = status[r] /\ proc'[r].goal # "cancelled"
    BY DEF IsOver, SameRow, QP!Away, Rest
  <1>2. closing = "open" =>
            /\ r \notin cancelReq' /\ proc'[r].goal # "cancelled"
            /\ status'[r] # "cancelled"
    BY <1>1, WorkerTame
  <1> QED BY <1>1, <1>2, HeardWorker

LEMMA HeardStart ==
    ASSUME Base, HeardInv, NEW r \in Runs, Start(r)
    PROVE  HeardInv'
PROOF
  <1>1. /\ Apart(r) /\ HandlersStay /\ r \notin cancelReq'
        /\ status'[r] = status[r] /\ proc'[r].goal = proc[r].goal
        /\ proc[r].pc = "off" /\ proc[r].job # "none"
        /\ Watched(r)' <=> Watched(r)
    BY StartKind, WatchedKept DEF StepsTo, SameCall, SameRow
  <1>2. ~Teller(proc[r])
    BY <1>1 DEF Teller
  <1>3. OthersTold(r) /\ published'[r] = published[r]
    BY PublishedQuietly, QuietTells
  <1> QED BY <1>1, <1>2, <1>3, WorkerTame, HeardWorker

LEMMA HeardWork ==
    ASSUME Base, HeardInv, NEW r \in Runs,
           \/ BeginPlanning(r) \/ GraphProgress(r) \/ PlanReady(r)
           \/ ReportReady(r) \/ GraphFails(r)
    PROVE  HeardInv'
PROOF
  <1>1. GoesOn(r) /\ SameRow(r) /\ published' = published /\ Typed
    BY WorkGoesOn, PublishedQuietly DEF Base
  <1>2. proc[r].pc \in {"get", "graph"}
    BY Zenon DEF BeginPlanning, GraphProgress, PlanReady, ReportReady, GraphFails, InGraph
  <1>3. ~Teller(proc[r]) /\ proc[r].job # "none"
    BY <1>2, WorkerRun DEF Teller, WorkerShape
  <1>4. proc'[r].goal # "cancelled"
    <2>1. CASE BeginPlanning(r)
      BY <1>1, <2>1, BeginPlanningEffect DEF Calls
    <2>2. CASE GraphProgress(r)
      BY <1>1, <2>2, GraphProgressEffect DEF Calls, Stages
    <2>3. CASE PlanReady(r)
      <3>1. ProcsOK' /\ proc'[r].scope = "try"
        BY <1>1, <2>3, PlanReadyEffect
      <3>2. WorkerShape(r, proc'[r])
        BY <3>1 DEF ProcsOK, Shapes
      <3> QED BY <3>1, <3>2 DEF WorkerShape
    <2>4. CASE ReportReady(r)
      BY <1>1, <2>4, ReportReadyEffect DEF Calls
    <2>5. CASE GraphFails(r)
      <3>1. Fails(r) /\ proc[r].pc # "off"
        BY <2>5 DEF GraphFails, InGraph
      <3> QED BY <1>1, <3>1, FailsEffect DEF Calls
    <2> QED BY <2>1, <2>2, <2>3, <2>4, <2>5
  <1> QED BY <1>1, <1>3, <1>4, HeardGoesOn

LEMMA HeardBeginResearch ==
    ASSUME Base, HeardInv, NEW r \in Runs, BeginResearch(r)
    PROVE  HeardInv'
PROOF
  <1>1. /\ SameRow(r) /\ published' = published /\ OthersTold(r)
        /\ Watched(r)' /\ (GoesOn(r) \/ IsOver(r)) => Watched(r)
    BY BeginResearchKind, PublishedQuietly, QuietTells, WatchedKept DEF GoesOn, IsOver
  <1>2. proc[r].pc = "get" /\ proc[r].job # "none"
    BY DEF BeginResearch
  <1>3. ~Teller(proc[r])
    BY <1>2 DEF Teller
  <1>4. CASE GoesOn(r) /\ SameCall(r)
    BY <1>1, <1>2, <1>3, <1>4, HeardGoesOn DEF SameCall
  <1>5. CASE IsOver(r)
    BY <1>1, <1>2, <1>3, <1>5, HeardOver
  <1> QED BY <1>4, <1>5, BeginResearchKind

LEMMA HeardRead ==
    ASSUME Base, HeardInv, NEW r \in Runs, Read(r)
    PROVE  HeardInv'
PROOF
  <1>1. /\ SameRow(r) /\ published' = published /\ OthersTold(r)
        /\ Watched(r)' /\ (GoesOn(r) \/ IsOver(r)) => Watched(r)
    BY WorkerReadKind, PublishedQuietly, QuietTells, WatchedKept DEF GoesOn, IsOver
  <1>2. /\ proc[r].pc = "read" /\ proc[r].job # "none" /\ proc[r].run = r
    BY WorkerRun DEF Read, WorkerShape
  <1>3. CASE GoesOn(r) /\ StepsTo(r, "commit")
    <2>1. /\ proc'[r].goal = proc[r].goal /\ proc'[r].op = proc[r].op
          /\ proc'[r].pc = "commit"
      BY <1>3 DEF StepsTo, SameCall
    <2>2. Teller(proc[r]) => Teller(proc'[r])
      BY <1>2, <2>1 DEF Teller
    <2> QED BY <1>1, <1>2, <1>3, <2>1, <2>2, HeardGoesOn
  <1>4. CASE GoesOn(r) /\ proc[r].next = "graph" /\ SameCall(r)
    <2>1. proc[r].op = "set"
      BY <1>2, <1>4, StageHelper DEF InHelper
    <2>2. ~Teller(proc[r]) /\ proc'[r].goal = proc[r].goal
      BY <1>2, <1>4, <2>1 DEF Teller, SameCall
    <2> QED BY <1>1, <1>2, <1>4, <2>2, HeardGoesOn
  <1>5. CASE IsOver(r) /\ GivesWay(r)
    <2>1. Watched(r)' /\ status'[r] \in Terminal => ~Teller(proc[r])
      <3> SUFFICES ASSUME Watched(r)', status'[r] \in Terminal, Teller(proc[r])
                   PROVE  FALSE
        OBVIOUS
      <3>1. proc[r].op = "fail" /\ status[r] # "absent"
        BY <1>1, <1>2, Names DEF Teller, SameRow
      <3>2. status[r] = "cancelled"
        BY <1>2, <1>5, <3>1 DEF GivesWay
      <3>3. closing = "open"
        BY <1>1, <1>5 DEF Watched
      <3> QED BY <1>2, <3>2, <3>3, WorkerTame
    <2> QED BY <1>1, <1>2, <1>5, <2>1, HeardOver
  <1> QED BY <1>3, <1>4, <1>5, WorkerReadKind

LEMMA HeardCommit ==
    ASSUME Base, HeardInv, NEW r \in Runs, Commit(r)
    PROVE  HeardInv'
PROOF
  <1>1. /\ Apart(r) /\ HandlersStay /\ cancelReq' = cancelReq
        /\ proc[r].pc = "commit" /\ proc'[r].pc = "publish"
        /\ proc'[r].goal = proc[r].goal
        /\ status'[r] \in {status[r], proc[r].goal}
        /\ OthersTold(r)
    BY WorkerCommitKind, PublishedQuietly, QuietTells
       DEF GoesOn, queueVars, StepsTo, SameCall
  <1>2. Teller(proc'[r])
    BY <1>1 DEF Teller
  <1>3. closing = "open" =>
            /\ r \notin cancelReq /\ proc[r].goal # "cancelled"
            /\ status[r] # "cancelled"
    BY <1>1, WorkerTame
  <1> QED BY <1>1, <1>2, <1>3, HeardWorker

LEMMA HeardPublish ==
    ASSUME Base, HeardInv, NEW r \in Runs, Publish(r)
    PROVE  HeardInv'
PROOF
  <1>1. /\ SameRow(r) /\ proc[r].pc = "publish" /\ status'[r] = status[r]
        /\ proc[r].run = r /\ r \in Processes /\ proc[r].job # "none"
    BY WorkerPublishKind, WorkerRun DEF SameRow, WorkerShape
  <1>2. published'[r] = status[r] /\ OthersTold(r)
    BY <1>1, PublishTells
  <1>3. CASE GoesOn(r) /\ SameCall(r)
    <2>1. /\ Apart(r) /\ HandlersStay /\ cancelReq' = cancelReq
          /\ proc'[r].goal = proc[r].goal
      BY <1>3 DEF GoesOn, queueVars, SameCall
    <2>2. closing = "open" =>
              /\ r \notin cancelReq /\ proc[r].goal # "cancelled"
              /\ status[r] # "cancelled"
      BY <1>1, WorkerTame
    <2> QED BY <1>1, <1>2, <2>1, <2>2, HeardWorker
  <1>4. CASE IsOver(r)
    BY <1>1, <1>2, <1>4, HeardOver
  <1> QED BY <1>3, <1>4, WorkerPublishKind

LEMMA HeardTimeout ==
    ASSUME Base, HeardInv, NEW r \in Runs, Timeout(r)
    PROVE  HeardInv'
PROOF
  <1>1. /\ Apart(r) /\ HandlersStay /\ cancelReq' = cancelReq
        /\ proc[r].scope = "graph"
        /\ proc'[r].pc = "read" /\ proc'[r].op = "fail" /\ proc'[r].goal = "failed"
        /\ status'[r] \in {status[r], proc[r].goal}
        /\ OthersTold(r)
    BY TimeoutKind, PublishedQuietly, QuietTells DEF GoesOn, queueVars, Calls, SameRow
  <1>2. Teller(proc'[r])
    BY <1>1 DEF Teller
  <1>3. proc[r].pc # "off"
    BY <1>1, WorkerRun DEF WorkerShape, InHelper
  <1>4. closing = "open" =>
            /\ r \notin cancelReq /\ proc[r].goal # "cancelled"
            /\ status[r] # "cancelled"
    BY <1>3, WorkerTame
  <1> QED BY <1>1, <1>2, <1>4, HeardWorker

LEMMA HeardDeliverCancel ==
    ASSUME Base, HeardInv, NEW r \in Runs, DeliverCancel(r)
    PROVE  HeardInv'
PROOF
  <1>1. /\ Apart(r) /\ HandlersStay /\ r \in cancelReq /\ OthersTold(r)
    BY DeliverCancelKind, PublishedQuietly, QuietTells
  <1>2. closing # "open" /\ closing' = closing
    BY <1>1 DEF HeardInv, Heard, Tame, Apart
  <1>3. ~Watched(r)'
    BY <1>2 DEF Watched
  <1> QED BY <1>1, <1>2, <1>3, HeardWorker

LEMMA HeardError ==
    ASSUME Base, HeardInv, NEW r \in Runs, DatabaseError(r)
    PROVE  HeardInv'
PROOF
  <1>1. SameRow(r) /\ published' = published /\ OthersTold(r)
    BY WorkerErrorKind, PublishedQuietly, QuietTells
  <1>2. proc[r].pc # "off"
    BY DEF DatabaseError, UsesDatabase
  <1>3. proc[r].job # "none"
    BY <1>2, WorkerRun DEF WorkerShape
  <1>4. CASE GoesOn(r) /\ Calls(r, "fail", "failed", "handler")
    <2>1. proc'[r].goal = "failed" /\ Teller(proc'[r])
      BY <1>4 DEF Calls, Teller
    <2>2. /\ Apart(r) /\ HandlersStay /\ cancelReq' = cancelReq
          /\ status'[r] = status[r]
      BY <1>1, <1>4 DEF GoesOn, queueVars, SameRow
    <2>3. closing = "open" =>
              /\ r \notin cancelReq /\ proc[r].goal # "cancelled"
              /\ status[r] # "cancelled"
      BY <1>3, WorkerTame
    <2> QED BY <1>1, <2>1, <2>2, <2>3, HeardWorker
  <1>5. CASE IsOver(r) /\ r \in orphaned'
    <2>1. ~Watched(r)'
      BY <1>5 DEF Watched
    <2> QED BY <1>1, <1>3, <1>5, <2>1, HeardOver
  <1> QED BY <1>4, <1>5, WorkerErrorKind

LEMMA HeardServed ==
    ASSUME HeardInv, NEW h \in Handlers, NEW r \in Runs, Serves(h, r), OthersTold(r),
           proc'[h].run = r => proc'[h].job # "cancel",
           closing = "open" => status'[r] # "cancelled",
           Watched(r)' /\ status'[r] \in Terminal =>
                \/ published'[r] = status'[r]
                \/ proc'[h].run = r /\ Teller(proc'[h])
                \/ /\ Watched(r) /\ ~(proc[h].run = r /\ Teller(proc[h]))
                   /\ status'[r] = status[r] /\ published'[r] = published[r]
    PROVE  HeardInv'
PROOF
  <1>1. /\ Apart(r) /\ closing' = closing /\ cancelReq' = cancelReq /\ Heard(r)
        /\ proc'[r] = proc[r] /\ \A g \in Handlers : g # h => proc'[g] = proc[g]
    BY Names, RunsAreNoHandlers DEF Serves, Apart, HeardInv, queueVars
  <1>2. \A g \in Handlers : proc'[g].run = r => proc'[g].job # "cancel"
    BY <1>1 DEF Heard
  <1>3. Tame(r)'
    BY <1>1 DEF Heard, Tame
  <1>4. Watched(r)' /\ status'[r] \in Terminal => Told(r)'
    BY <1>1 DEF Heard, Told
  <1>5. Heard(r)'
    BY <1>2, <1>3, <1>4 DEF Heard
  <1> QED BY <1>1, <1>5, HeardApart

LEMMA RequestTame ==
    ASSUME Base, HeardInv, NEW h \in Handlers, NEW r \in Runs, proc[h].run = r
    PROVE  /\ closing = "open" => status[r] # "cancelled"
           /\ proc[h].job \in {"create", "review"}
PROOF
  <1>1. Heard(r)
    BY DEF HeardInv
  <1>2. proc[h].pc # "off"
    BY RequestRun, RunsAreNoHandlers
  <1> QED BY <1>1, <1>2, RequestRun DEF Heard, Tame, HandlerShape

(* A request that neither tells nor writes.                                *)
LEMMA HeardQuiet ==
    ASSUME HeardInv, NEW h \in Handlers, NEW r \in Runs, Serves(h, r), SameRow(r),
           published' = published,
           proc'[h].run = r => proc'[h].job # "cancel",
           closing = "open" => status[r] # "cancelled",
           \/ SameOrphan(r) /\ ~(proc[h].run = r /\ Teller(proc[h]))
           \/ SameOrphan(r) /\ proc'[h].run = r /\ Teller(proc'[h])
           \/ r \in orphaned'
    PROVE  HeardInv'
PROOF
  <1>1. /\ OthersTold(r) /\ status'[r] = status[r] /\ published'[r] = published[r]
    BY QuietTells DEF SameRow
  <1>2. CASE SameOrphan(r) /\ ~(proc[h].run = r /\ Teller(proc[h]))
    <2>1. Watched(r)' => Watched(r)
      BY <1>2, WatchedKept DEF Serves
    <2> QED BY <1>1, <1>2, <2>1, HeardServed
  <1>3. CASE proc'[h].run = r /\ Teller(proc'[h])
    BY <1>1, <1>3, HeardServed
  <1>4. CASE r \in orphaned'
    <2>1. ~Watched(r)'
      BY <1>4 DEF Watched
    <2> QED BY <1>1, <2>1, HeardServed
  <1> QED BY <1>2, <1>3, <1>4

LEMMA HeardNewRequest ==
    ASSUME Cancellers = {}, Base, HeardInv, NEW h \in Handlers, NEW r \in Runs,
           \/ CreateRequest(h, r) \/ CancelRequest(h, r)
           \/ \E pl \in Plans : ReviewRequest(h, r, pl)
    PROVE  HeardInv'
PROOF
  <1>1. ~CancelRequest(h, r)
    BY DEF CancelRequest
  <1>2. /\ Serves(h, r) /\ SameOrphan(r) /\ proc[h].run # r
        /\ status[r] = "absent" \/ SameRow(r)
    BY NewRequestKind, RunsAreNoHandlers
  <1>3. CASE CreateRequest(h, r)
    <2>1. OthersTold(r)
      BY <1>3, CreateTells
    <2>2. status'[r] = "queued" /\ proc'[h].job = "create"
      <3>1. RowsTyped
        BY BaseParts
      <3>2. status' = [status EXCEPT ![r] = "queued"]
        BY Zenon, <1>3 DEF CreateRequest
      <3> QED BY <1>3, <3>1, <3>2, CreateEffect DEF Base, RowsTyped
    <2>3. status'[r] \notin Terminal
      BY <2>2, Names
    <2> QED BY <1>2, <2>1, <2>2, <2>3, HeardServed
  <1>4. CASE \E pl \in Plans : ReviewRequest(h, r, pl)
    <2>1. /\ status[r] = "waiting_for_review" /\ proc'[h].job = "review"
      <3>1. PICK pl \in Plans : ReviewRequest(h, r, pl)
        BY <1>4
      <3>2. status[r] = "waiting_for_review"
        BY Zenon, <3>1 DEF ReviewRequest
      <3>3. proc'[h].job = "review"
        BY <3>1, ReviewEffect DEF Base
      <3> QED BY <3>2, <3>3
    <2>2. published' = published
      BY <1>4, RequestedQuietly
    <2>3. SameRow(r)
      BY <1>2, <2>1
    <2> QED BY <1>2, <2>1, <2>2, <2>3, HeardQuiet
  <1> QED BY <1>1, <1>3, <1>4

LEMMA HeardNotAccepted ==
    ASSUME Base, HeardInv, NEW h \in Handlers, NEW r \in Runs, proc[h].run = r,
           SubmitRefused(h) \/ SubmitDuplicate(h)
    PROVE  HeardInv'
PROOF
  <1>1. /\ Serves(h, r) /\ SameOrphan(r) /\ SameRow(r) /\ proc[h].pc = "submit"
        /\ proc'[h].job = proc[h].job /\ published' = published
    BY NotAcceptedKind, RequestedQuietly
  <1>2. ~Teller(proc[h])
    BY <1>1 DEF Teller
  <1> QED BY <1>1, <1>2, RequestTame, HeardQuiet

LEMMA HeardRollback ==
    ASSUME Base, HeardInv, NEW h \in Handlers, NEW r \in Runs, proc[h].run = r,
           Rollback(h)
    PROVE  HeardInv'
PROOF
  <1>1. /\ Serves(h, r) /\ status'[r] = "absent" /\ proc'[h] = Rest(h)
        /\ Rest(h).run = NoRun /\ OthersTold(r)
    BY RollbackKind, RequestRun, RollbackTells
  <1>2. status'[r] \notin Terminal
    BY <1>1, Names
  <1> QED BY <1>1, <1>2, RunsAreNoHandlers, HeardServed

LEMMA HeardConfirm ==
    ASSUME Base, HeardInv, NEW h \in Handlers, NEW r \in Runs, proc[h].run = r,
           Confirm(h)
    PROVE  HeardInv'
PROOF
  <1>1. /\ Serves(h, r) /\ SameOrphan(r) /\ proc[h].pc = "confirm"
        /\ published' = published /\ OthersTold(r)
        /\ Rest(h).run # r
    BY ConfirmKind, RequestedQuietly, QuietTells, RequestRun, RunsAreNoHandlers
  <1>2. CASE /\ status'[r] = "researching" /\ proc[h].job = "review"
             /\ StepsTo(h, "submit")
    <2>1. status'[r] \notin Terminal /\ proc'[h].job # "cancel"
      BY <1>2, Names DEF StepsTo, SameWork
    <2> QED BY <1>1, <1>2, <2>1, HeardServed
  <1>3. CASE SameRow(r) /\ proc'[h] = Rest(h)
    <2>1. ~Teller(proc[h])
      BY <1>1 DEF Teller
    <2> QED BY <1>1, <1>3, <2>1, RequestTame, HeardQuiet
  <1> QED BY <1>2, <1>3, ConfirmKind

LEMMA HeardRequestRead ==
    ASSUME Base, RowsInv, HeardInv, NEW h \in Handlers, NEW r \in Runs,
           proc[h].run = r, Read(h)
    PROVE  HeardInv'
PROOF
  <1>1. /\ Serves(h, r) /\ SameOrphan(r) /\ SameRow(r) /\ proc[h].pc = "read"
        /\ published' = published /\ OthersTold(r) /\ Rest(h).run # r
        /\ status'[r] = status[r]
    BY RequestReadKind, RequestedQuietly, QuietTells, RequestRun, RunsAreNoHandlers
       DEF SameRow
  <1>2. proc[h].job = "review" /\ proc[h].op = "fail"
    BY <1>1, RequestTame, RequestRun DEF HandlerShape
  <1>3. CASE GivesWay(h) /\ proc'[h] = Rest(h)
    <2>1. status[r] # "absent"
      BY DEF RowsInv, RowInv, NoRow
    <2>2. status[r] = "cancelled"
      BY <1>2, <1>3, <2>1 DEF GivesWay
    <2>3. closing' = closing /\ closing # "open"
      BY <1>1, <2>2, RequestTame DEF Serves, Apart
    <2>4. ~Watched(r)'
      BY <2>3 DEF Watched
    <2> QED BY <1>1, <1>3, <2>3, <2>4, HeardServed
  <1>4. CASE StepsTo(h, "commit")
    <2>1. /\ proc'[h].run = r /\ proc'[h].job = "review" /\ Teller(proc'[h])
      BY <1>2, <1>4 DEF StepsTo, SameWork, SameCall, Teller
    <2> QED BY <1>1, <2>1, RequestTame, HeardQuiet
  <1> QED BY <1>3, <1>4, RequestReadKind

LEMMA HeardRequestCommit ==
    ASSUME Base, HeardInv, NEW h \in Handlers, NEW r \in Runs,
           proc[h].run = r, Commit(h)
    PROVE  HeardInv'
PROOF
  <1>1. /\ Serves(h, r) /\ proc[h].pc = "commit" /\ OthersTold(r)
        /\ proc'[h].run = r /\ proc'[h].job = proc[h].job /\ proc'[h].pc = "publish"
        /\ status'[r] \in {status[r], proc[h].goal}
    BY RequestCommitKind, RequestedQuietly, QuietTells DEF StepsTo, SameWork
  <1>2. proc[h].job = "review" /\ proc[h].goal = "failed"
    BY <1>1, RequestTame, RequestRun DEF HandlerShape
  <1>3. Teller(proc'[h])
    BY <1>1 DEF Teller
  <1> QED BY <1>1, <1>2, <1>3, RequestTame, HeardServed

LEMMA HeardRequestPublish ==
    ASSUME Base, HeardInv, NEW h \in Handlers, NEW r \in Runs,
           proc[h].run = r, Publish(h)
    PROVE  HeardInv'
PROOF
  <1>1. /\ Serves(h, r) /\ status'[r] = status[r] /\ proc'[h] = Rest(h)
        /\ Rest(h).run # r /\ h \in Processes
    BY RequestPublishKind, RequestRun, RunsAreNoHandlers DEF SameRow
  <1>2. published'[r] = status[r] /\ OthersTold(r)
    BY <1>1, PublishTells
  <1> QED BY <1>1, <1>2, RequestTame, HeardServed

LEMMA HeardRequestError ==
    ASSUME Base, HeardInv, NEW h \in Handlers, NEW r \in Runs,
           proc[h].run = r, DatabaseError(h)
    PROVE  HeardInv'
PROOF
  <1>1. /\ Serves(h, r) /\ SameRow(r) /\ published' = published
        /\ proc'[h] = Rest(h) /\ Rest(h).run # r
    BY RequestErrorKind, RequestedQuietly, RequestRun, RunsAreNoHandlers
  <1>2. r \in orphaned' \/ (SameOrphan(r) /\ ~Teller(proc[h]))
    BY RequestErrorKind DEF Teller
  <1> QED BY <1>1, <1>2, RequestTame, HeardQuiet

LEMMA HeardAccepted ==
    ASSUME Base, RowsInv, BusyInv, HeardInv, NEW h \in Handlers, NEW r \in Runs,
           proc[h].run = r, SubmitAccepted(h)
    PROVE  HeardInv'
PROOF
  <1>1. /\ Apart(r) /\ SameRow(r) /\ r \notin cancelReq'
        /\ \A g \in Handlers : g # h => proc'[g] = proc[g]
        /\ proc'[r].goal = "absent" /\ Rest(h).run # r
        /\ status'[r] = status[r] /\ closing' = closing
    BY AcceptedKind, RequestRun, RunsAreNoHandlers DEF SameRow, Apart
  <1>2. OthersTold(r) /\ published'[r] = published[r]
    BY RequestedQuietly, QuietTells
  <1>3. closing = "open" => status[r] # "cancelled"
    BY RequestTame
  <1>4. Tame(r)'
    BY <1>1, <1>3 DEF Tame
  <1>5. CASE proc[h].job = "create" /\ proc'[h] = Rest(h)
    <2>1. \A g \in Handlers : proc'[g].run = r => proc'[g].job # "cancel"
      BY <1>1, <1>5 DEF HeardInv, Heard
    <2>2. status[r] = "queued"
      BY <1>5 DEF RowsInv, RowInv, Creation
    <2>3. status'[r] \notin Terminal
      BY <1>1, <2>2, Names
    <2>4. Heard(r)'
      BY <1>4, <2>1, <2>3 DEF Heard
    <2> QED BY <1>1, <1>2, <2>4, HeardApart
  <1>6. CASE proc[h].job = "review" /\ SameWork(h) /\ proc'[h].pc = "publish"
    <2>1. \A g \in Handlers : proc'[g].run = r => proc'[g].job # "cancel"
      BY <1>1, <1>6 DEF HeardInv, Heard, SameWork
    <2>2. Told(r)'
      BY <1>6 DEF Told, Teller, SameWork
    <2>3. Heard(r)'
      BY <1>4, <2>1, <2>2 DEF Heard
    <2> QED BY <1>1, <1>2, <2>3, HeardApart
  <1> QED BY <1>5, <1>6, AcceptedKind

LEMMA HeardProcess ==
    ASSUME Base, HeardInv, ProcessStep
    PROVE  HeardInv'
PROOF
  <1> SUFFICES ASSUME NEW r \in Runs PROVE Heard(r)'
    BY DEF HeardInv
  <1>1. Heard(r) /\ r \in Processes
    BY Names DEF HeardInv
  <1>2. \A h \in Handlers :
            h \in Processes /\ Rest(h).run # r
    BY RequestRun, RunsAreNoHandlers
  <1>3. CASE Shutdown \/ ShutdownReturns
    <2>1. closing' # "open"
      BY <1>3, SameProcessActions
         DEF Shutdown, ShutdownReturns, QP!Shutdown, QP!ShutdownReturns
    <2>2. \A h \in Handlers : proc'[h] = proc[h] \/ proc'[h] = Rest(h)
      BY <1>2, <1>3 DEF Shutdown, ShutdownReturns
    <2> QED BY <1>1, <1>2, <2>1, <2>2 DEF Heard, Tame, Watched
  <1>4. CASE Restart
    <2>1. /\ proc'[r] = Rest(r) /\ r \notin cancelReq' /\ published' = status'
          /\ \A h \in Handlers : proc'[h] = Rest(h)
      BY <1>1, <1>2, <1>4, SameProcessActions DEF Restart, QP!Restart
    <2>2. proc'[r].job = "none" /\ proc'[r].goal = "absent"
      BY <2>1 DEF Rest
    <2>3. \A h \in Handlers : proc'[h].run # r
      BY <1>2, <2>1
    <2> QED BY <2>1, <2>2, <2>3 DEF Heard, Tame, Told
  <1>5. CASE UNCHANGED vars
    <2>1. /\ proc' = proc /\ status' = status /\ orphaned' = orphaned
          /\ cancelReq' = cancelReq /\ closing' = closing /\ published' = published
      BY <1>5 DEF vars, queueVars, rowVars, errorVars
    <2> QED BY <1>1, <2>1 DEF Heard, Tame, Told, Teller, Watched
  <1> QED BY <1>3, <1>4, <1>5 DEF ProcessStep

LEMMA InitHeard == Init => HeardInv
PROOF
  <1> SUFFICES ASSUME Init, NEW r \in Runs PROVE Heard(r)
    BY DEF HeardInv
  <1>1. /\ proc[r].goal = "absent" /\ status[r] = "absent" /\ r \notin cancelReq
        /\ \A h \in Handlers : proc[h].run # r
    BY Names, RunsAreNoHandlers, SameProcessActions DEF Init, Rest, QP!Init
  <1>2. status[r] \notin Terminal
    BY <1>1, Names
  <1> QED BY <1>1, <1>2 DEF Heard, Tame

LEMMA NextHeard ==
    ASSUME Cancellers = {}, Base, RowsInv, BusyInv, HeardInv, [Next]_vars
    PROVE  HeardInv'
PROOF
  <1>1. ASSUME NEW r \in Runs, WorkerStep(r) PROVE HeardInv'
    BY <1>1, HeardStart, HeardDeliverCancel, HeardTimeout, HeardError, HeardWork,
       HeardBeginResearch, HeardRead, HeardCommit, HeardPublish DEF WorkerStep
  <1>2. ASSUME NEW h \in Handlers, NEW r \in Runs, RequestStep(h, r) PROVE HeardInv'
    <2>1. ASSUME proc[h].run = r PROVE ~Dequeue(h)
      BY <2>1, RequestTame, DequeueKind
    <2> QED BY <1>2, <2>1, HeardNewRequest, HeardNotAccepted, HeardRollback,
               HeardConfirm, HeardRequestRead, HeardRequestCommit,
               HeardRequestPublish, HeardRequestError, HeardAccepted DEF RequestStep
  <1> QED BY <1>1, <1>2, HeardProcess, Steps

(* Where nobody cancels, every open stream has been told how a run ended   *)
(* when nobody works on it any more: whoever writes the last status, and   *)
(* whoever a timeout, a full queue or a database error makes take over     *)
(* from it, publishes afterwards (_publish_snapshot).                      *)
THEOREM EndsAreTold ==
    ASSUME Cancellers = {}
    PROVE  Spec => []StreamsSeeTheEnd
PROOF
  <1>1. Base /\ BusyInv /\ HeardInv => StreamsSeeTheEnd
    <2> SUFFICES ASSUME Base, BusyInv, HeardInv, closing = "open",
                        NEW r \in Runs \ orphaned, status[r] \in Terminal,
                        ~HasWorker(r), ~Served(r)
                 PROVE  published[r] = status[r]
      BY DEF StreamsSeeTheEnd
    <2>1. Told(r)
      BY DEF HeardInv, Heard, Watched
    <2>2. ~Teller(proc[r])
      <3>1. r \notin QP!Waiting /\ ~QP!Live(r)
        BY SameViews DEF HasWorker
      <3>2. proc[r].job = "none"
        BY <3>1 DEF BusyInv, Busy, QP!Ready, QP!Live
      <3> QED BY <3>2, WorkerRun DEF WorkerShape, Teller
    <2>3. \A h \in Handlers : proc[h].run # r
      BY DEF Served
    <2> QED BY <2>1, <2>2, <2>3 DEF Told
  <1>2. Base /\ RowsInv /\ BusyInv /\ HeardInv /\ [Next]_vars => HeardInv'
    BY NextHeard
  <1>3. Spec => []HeardInv
    BY <1>2, InitHeard, CourseAlways, PTL DEF Spec
  <1> QED BY <1>1, <1>3, CourseAlways, PTL
=============================================================================
