------------------------------ MODULE TaskQueue ------------------------------
(***************************************************************************)
(* BoundedTaskQueue (src/backend/app/task_queue.py): at most ActiveLimit   *)
(* tasks run, at most WaitingLimit wait in first-come order, everything    *)
(* else is refused.  The methods and the final block of _execute never     *)
(* await while they hold the lock, so each is one atomic step of the event *)
(* loop.  What IS spread over several steps is the life of an              *)
(* asyncio.Task: created, first step, cancellation requested, cancellation *)
(* delivered, body finished.                                               *)
(***************************************************************************)
EXTENDS Integers, FiniteSets, SequencesExt

CONSTANTS
    TaskIds,       \* the task ids callers submit (research run ids)
    ActiveLimit,   \* size of the running set
    WaitingLimit   \* size of the waiting line

\* The constructor raises ValueError outside these ranges.
ASSUME LimitsAssumption ==
    /\ ActiveLimit \in Nat \ {0}
    /\ WaitingLimit \in Nat

VARIABLES
    task,       \* "none": not in _active; otherwise the state of its asyncio.Task
    waiting,    \* _waiting, a line of ids
    cancelReq,  \* tasks with a cancellation requested and not yet delivered
    future,     \* the future of the last submission of each id
    closing     \* where the shutdown of the process stands

vars == <<task, waiting, cancelReq, future, closing>>

Active == {id \in TaskIds : task[id] # "none"}
Waiting == ToSet(waiting)

(* A "dead" task finished before its first step: its coroutine was never   *)
(* entered, so the finally block of _execute did not run.                  *)
Live(id) == task[id] \in {"created", "running"}

(* A definition named Mutant... is a plausible slip in the definition that *)
(* follows it.  No specification uses it: replacing the definition by it   *)
(* shows which property would notice.                                      *)
MutantDuplicate(id) == id \in Active
Duplicate(id) == id \in Active \/ id \in Waiting

MutantHasSlot == Cardinality(Active) <= ActiveLimit
HasSlot == Cardinality(Active) < ActiveLimit
HasPlace == Len(waiting) < WaitingLimit
Full == ~HasSlot /\ ~HasPlace

Init ==
    /\ task = [id \in TaskIds |-> "none"]
    /\ waiting = <<>>
    /\ cancelReq = {}
    /\ future = [id \in TaskIds |-> "none"]
    /\ closing = "open"

-----------------------------------------------------------------------------
(* submit: a free slot starts the task, a free place in the line keeps it. *)
(* The remaining two outcomes, Duplicate(id) and Full, raise and change    *)
(* nothing.  main.py shuts the queue down after the server has stopped     *)
(* serving, so nobody submits once it is closing.                          *)
SubmitStarts(id) ==
    /\ closing = "open"
    /\ ~Duplicate(id)
    /\ HasSlot
    /\ task' = [task EXCEPT ![id] = "created"]
    /\ future' = [future EXCEPT ![id] = "pending"]
    /\ UNCHANGED <<waiting, cancelReq, closing>>

MutantLineWith(id) == <<id>> \o waiting
LineWith(id) == Append(waiting, id)

SubmitWaits(id) ==
    /\ closing = "open"
    /\ ~Duplicate(id)
    /\ ~HasSlot /\ HasPlace
    /\ waiting' = LineWith(id)
    /\ future' = [future EXCEPT ![id] = "pending"]
    /\ UNCHANGED <<task, cancelReq, closing>>

(* The event loop gives a created task its first step: work() is called.   *)
Start(id) ==
    /\ task[id] = "created"
    /\ id \notin cancelReq
    /\ task' = [task EXCEPT ![id] = "running"]
    /\ UNCHANGED <<waiting, cancelReq, future, closing>>

(* cancel of an active id only requests cancellation; a finished task      *)
(* ignores the request.                                                    *)
MutantRequests(id) == cancelReq \cup {id}
Requests(id) == IF Live(id) THEN cancelReq \cup {id} ELSE cancelReq

CancelActive(id) ==
    /\ id \in Active
    /\ cancelReq' = Requests(id)
    /\ UNCHANGED <<task, waiting, future, closing>>

CancelWaiting(id) ==
    /\ id \notin Active
    /\ \E i \in 1..Len(waiting) :
          /\ waiting[i] = id
          /\ waiting' = RemoveAt(waiting, i)
    /\ future' = [future EXCEPT ![id] = "cancelled"]
    /\ UNCHANGED <<task, cancelReq, closing>>

(* CancelledError arrives at the await the task is suspended on.  A body   *)
(* that has been entered sees it and may still take steps of its own (its  *)
(* exception handlers); one that has not is finished on the spot.  A body  *)
(* that ends at once is WorkEnds below.                                    *)
DeliverCancel(id) ==
    /\ id \in cancelReq
    /\ task' = IF task[id] = "created"
               THEN [task EXCEPT ![id] = "dead"] ELSE task
    /\ cancelReq' = cancelReq \ {id}
    /\ UNCHANGED <<waiting, future, closing>>

(* How many the final block of _execute starts once id has left _active:   *)
(* as many as wait and fit.                                                *)
MutantPromoted(id) == 0
Promoted(id) ==
    LET room == ActiveLimit - Cardinality(Active \ {id})
    IN IF Len(waiting) < room THEN Len(waiting) ELSE room

(* work() is over, by itself or because it lets a delivered cancellation   *)
(* through: the future is settled and the final block frees the slot and   *)
(* starts from the head of the line.                                       *)
WorkEnds(id, outcome) ==
    /\ task[id] = "running"
    /\ id \in cancelReq => outcome = "cancelled"
    /\ cancelReq' = cancelReq \ {id}
    /\ LET n    == Promoted(id)
           next == {waiting[i] : i \in 1..n}
       IN /\ task' = [t \in TaskIds |-> IF t \in next THEN "created"
                                        ELSE IF t = id THEN "none" ELSE task[t]]
          /\ waiting' = SubSeq(waiting, n + 1, Len(waiting))
    /\ future' = [future EXCEPT ![id] = outcome]
    /\ UNCHANGED closing

(* shutdown: cancel what is active, drop what waits, gather the active.    *)
MutantLineDropped == waiting
LineDropped == <<>>

MutantFuturesDropped == future
FuturesDropped ==
    [id \in TaskIds |-> IF id \in Waiting THEN "cancelled" ELSE future[id]]

Shutdown ==
    /\ closing = "open"
    /\ closing' = IF Active = {} THEN "closed" ELSE "gathering"
    /\ cancelReq' = {id \in TaskIds : Live(id)}
    /\ future' = FuturesDropped
    /\ waiting' = LineDropped
    /\ UNCHANGED task

(* What gather awaits; a dead task counts as done.                         *)
MutantGathered == Active = {}
Gathered == \A id \in TaskIds : ~Live(id)

ShutdownReturns ==
    /\ closing = "gathering"
    /\ Gathered
    /\ closing' = "closed"
    /\ UNCHANGED <<task, waiting, cancelReq, future>>

(* A new process, after an orderly stop or a crash: nothing is persisted.  *)
Restart ==
    /\ task' = [id \in TaskIds |-> "none"]
    /\ waiting' = <<>>
    /\ cancelReq' = {}
    /\ future' = [id \in TaskIds |-> "none"]
    /\ closing' = "open"

Outcomes == {"result", "exception", "cancelled"}

Next ==
    \/ \E id \in TaskIds :
          \/ SubmitStarts(id)
          \/ SubmitWaits(id)
          \/ Start(id)
          \/ CancelActive(id)
          \/ CancelWaiting(id)
          \/ DeliverCancel(id)
          \/ \E outcome \in Outcomes : WorkEnds(id, outcome)
    \/ Shutdown
    \/ ShutdownReturns
    \/ Restart

Spec == Init /\ [][Next]_vars

(* The event loop runs what is ready, delivers what is cancelled, and the  *)
(* work itself is bounded (research_service.py runs it under a timeout).   *)
(* Nothing makes a caller submit, cancel, stop or restart.                 *)
Fairness ==
    /\ \A id \in TaskIds :
          /\ WF_vars(Start(id))
          /\ WF_vars(DeliverCancel(id))
          /\ WF_vars(\E outcome \in Outcomes : WorkEnds(id, outcome))
    /\ WF_vars(ShutdownReturns)

FairSpec == Spec /\ Fairness

-----------------------------------------------------------------------------
(* Every variable holds a value the class can give it; a request to cancel *)
(* is only outstanding for a task that is still alive.                     *)
TypeOK ==
    /\ task \in [TaskIds -> {"none", "created", "running", "dead"}]
    /\ waiting \in Seq(TaskIds)
    /\ cancelReq \subseteq TaskIds
    /\ \A id \in cancelReq : Live(id)
    /\ future \in [TaskIds -> {"none", "pending"} \cup Outcomes]
    /\ closing \in {"open", "gathering", "closed"}

(* However submissions, cancellations and promotions interleave, the two   *)
(* bounds given to the constructor are never exceeded.                     *)
CapacityBound ==
    /\ Cardinality(Active) <= ActiveLimit
    /\ Len(waiting) <= WaitingLimit

(* A task id is admitted once at a time: it holds one place in the line or *)
(* one slot, never two and never both, so its work cannot run twice at the *)
(* same time.                                                              *)
AdmittedOnce ==
    /\ \A i, j \in 1..Len(waiting) : waiting[i] = waiting[j] => i = j
    /\ Waiting \cap Active = {}

(* Nobody waits while a slot is free: every way of giving a slot back also *)
(* starts the head of the line.                                            *)
WorkConserving == waiting # <<>> => Cardinality(Active) = ActiveLimit

(* The future handed to the submitter is open exactly as long as its task  *)
(* is in the queue: nobody is left awaiting a task the queue has forgotten,*)
(* and no settled future belongs to a task that can still run.             *)
FutureMatchesAdmission ==
    \A id \in TaskIds : future[id] = "pending" <=> Duplicate(id)

(* Once shutdown has been called no further task is started, and once it   *)
(* has returned none is alive: a task that ends because of the shutdown    *)
(* does not promote another one.                                           *)
ShutdownIsComplete ==
    /\ closing # "open" =>
          /\ waiting = <<>>
          /\ \A id \in TaskIds : task[id] = "created" => id \in cancelReq
    /\ closing = "closed" => \A id \in TaskIds : ~Live(id)

(* First come, first served: while a task stays in the line, nobody who was*)
(* behind it or not in the queue at all gets a slot or a place before it.  *)
NoOvertaking ==
    [][\A i \in 1..Len(waiting), other \in TaskIds :
         LET before == waiting[i]
         IN /\ before \in Waiting'
            /\ task[other] = "none"
            /\ \A k \in 1..i : waiting[k] # other
            => /\ task'[other] = "none"
               /\ \A k, m \in 1..Len(waiting') :
                     waiting'[k] = before /\ waiting'[m] = other => k < m]_vars

(* Every slot holds a task that can still finish.                          *)
SlotsAreLive == \A id \in Active : Live(id)

(* A waiting task eventually leaves the line, as long as slots hold tasks  *)
(* that can still finish.                                                  *)
WaitingIsServed ==
    []SlotsAreLive => \A id \in TaskIds : id \in Waiting ~> id \notin Waiting

(* What tests/test_task_queue.py promises: cancelling an active task makes *)
(* room for whoever waits behind it.                                       *)
CancelPromotesNext ==
    \A a, b \in TaskIds : (a \in cancelReq /\ b \in Waiting) ~> b \notin Waiting

(* shutdown returns (or the process is replaced): the gathered tasks end,  *)
(* none of them is waited for once dead, and none starts another.          *)
ShutdownTerminates == closing = "gathering" ~> closing # "gathering"
=============================================================================
