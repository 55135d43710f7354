------------------------ MODULE ResearchServiceProofs ------------------------
(***************************************************************************)
(* For any number of runs, requests, plans and database errors, the        *)
(* safety of ResearchService.  First what a process can be doing at all    *)
(* (Shapes), then how that fits the state of its task in the queue         *)
(* (Linked), then what follows for the rows of the database.               *)
(***************************************************************************)
EXTENDS ResearchService, FiniteSetTheorems, TLAPS

QP == INSTANCE TaskQueueProofs WITH TaskIds <- Runs

-----------------------------------------------------------------------------
(* What each process can be doing.                                         *)

InHelper(s) == s.pc \in {"read", "commit", "publish"}

Stages(job) ==
    IF job = "planning" THEN {"planning"}
    ELSE {"researching", "writing", "verifying"}

WorkerShape(r, w) ==
    /\ w.run = r
    /\ w.job \in {"none", "planning", "research"}
    /\ w.pc # "off" => w.job # "none"
    /\ w.job = "research" => w.plan \in Plans
    /\ w.scope = "outside" =>
          \/ w.pc \in {"off", "get"}
          \/ /\ InHelper(w) /\ w.job = "planning"
             /\ w.op = "set" /\ w.goal = "planning" /\ w.next = "graph"
    /\ w.scope = "graph" =>
          \/ w.pc = "graph"
          \/ /\ InHelper(w) /\ w.op = "set"
             /\ w.goal \in Stages(w.job) /\ w.next = "graph"
    /\ w.scope = "try" =>
          /\ InHelper(w) /\ w.next = "end"
          /\ \/ /\ w.job = "planning" /\ w.op = "plan"
                /\ w.goal = "waiting_for_review" /\ w.plan \in Plans
             \/ w.job = "research" /\ w.op = "report" /\ w.goal = "completed"
    /\ w.scope = "handler" =>
          /\ InHelper(w)
          /\ \/ w.op = "fail" /\ w.goal = "failed" /\ w.next = "end"
             \/ w.op = "set" /\ w.goal = "cancelled" /\ w.next = "raise"

HandlerShape(w) ==
    /\ w.scope = "outside" /\ w.next = "off"
    /\ (w.pc = "off" <=> w.run = NoRun) /\ (w.pc = "off" <=> w.job = "none")
    /\ w.job \in {"none", "create", "review", "cancel"}
    /\ w.job = "create" => w.pc \in {"submit", "rollback"}
    /\ w.job = "review" =>
          /\ w.plan \in Plans
          /\ \/ w.pc \in {"confirm", "submit", "publish"}
             \/ w.pc \in {"read", "commit"} /\ w.op = "fail" /\ w.goal = "failed"
    /\ w.job = "cancel" =>
          \/ w.pc = "dequeue"
          \/ InHelper(w) /\ w.op = "set" /\ w.goal = "cancelled"

Shapes ==
    /\ \A r \in Runs : WorkerShape(r, proc[r])
    /\ \A h \in Handlers : HandlerShape(proc[h])

Typed == TypeOK /\ Shapes

-----------------------------------------------------------------------------
LEMMA RunsAreNoHandlers == Runs \cap Handlers = {} /\ NoRun \notin Runs
PROOF BY ServiceAssumption

LEMMA RestState ==
    ASSUME NEW p \in Processes
    PROVE  /\ Rest(p) \in ProcStates
           /\ p \in Runs => WorkerShape(p, Rest(p))
           /\ p \in Handlers => HandlerShape(Rest(p))
PROOF
  <1>1. Rest(p) = [ job |-> "none", pc |-> "off", scope |-> "outside",
          run |-> IF p \in Runs THEN p ELSE NoRun, plan |-> NoPlan, tries |-> 0,
          op |-> "none", goal |-> "absent", seen |-> "absent", next |-> "off" ]
    BY DEF Rest
  <1>2. 0 \in 0..(SubmitAttempts - 1) /\ "absent" \in Lifecycle!Statuses
    BY ServiceAssumption DEF Lifecycle!Statuses
  <1>3. /\ "none" \in Jobs /\ "off" \in Places /\ "outside" \in Scopes
        /\ "none" \in Helpers /\ "off" \in Continuations
    BY DEF Jobs, Places, Scopes, Helpers, Continuations
  <1>4. Rest(p) \in ProcStates
    BY <1>1, <1>2, <1>3 DEF ProcStates
  <1>5. p \in Runs => WorkerShape(p, Rest(p))
    BY <1>1 DEF WorkerShape, InHelper
  <1>6. p \in Handlers => HandlerShape(Rest(p))
    BY <1>1, RunsAreNoHandlers DEF HandlerShape, InHelper
  <1> QED BY <1>4, <1>5, <1>6

(* One process moves: it is enough to look at its new state.               *)
LEMMA OneMoves ==
    ASSUME Typed, NEW p \in Processes, NEW s \in ProcStates,
           proc' = [proc EXCEPT ![p] = s],
           p \in Runs => WorkerShape(p, s),
           p \in Handlers => HandlerShape(s)
    PROVE  /\ proc' \in [Processes -> ProcStates]
           /\ Shapes'
           /\ proc'[p] = s
           /\ \A q \in Processes : q # p => proc'[q] = proc[q]
PROOF
  <1>1. /\ proc' \in [Processes -> ProcStates]
        /\ proc'[p] = s
        /\ \A q \in Processes : q # p => proc'[q] = proc[q]
    BY DEF Typed, TypeOK
  <1>2. Runs \subseteq Processes /\ Handlers \subseteq Processes
    BY DEF Processes
  <1>3. \A r \in Runs : WorkerShape(r, proc'[r])
    BY <1>1, <1>2 DEF Typed, Shapes
  <1>4. \A h \in Handlers : HandlerShape(proc'[h])
    BY <1>1, <1>2 DEF Typed, Shapes
  <1> QED BY <1>1, <1>3, <1>4 DEF Shapes

(* The names the states are made of.                                       *)
LEMMA Names ==
    /\ {"planning", "researching", "writing", "verifying", "waiting_for_review",
        "completed", "failed", "cancelled", "queued", "absent"}
          \subseteq Lifecycle!Statuses
    /\ InProgress = {"queued", "planning", "researching", "writing", "verifying"}
    /\ Terminal = {"completed", "failed", "cancelled", "expired"}
    /\ {"get", "graph", "read", "commit", "publish", "submit", "rollback",
        "confirm", "dequeue"} \subseteq Places
    /\ {"graph", "try", "handler"} \subseteq Scopes
    /\ {"planning", "research", "create", "review", "cancel"} \subseteq Jobs
    /\ {"set", "fail", "plan", "report"} \subseteq Helpers
    /\ {"off", "graph", "end", "raise"} \subseteq Continuations
    /\ Runs \subseteq Processes /\ Handlers \subseteq Processes
PROOF BY DEF Lifecycle!Statuses, Lifecycle!InProgress, Lifecycle!Terminal,
             InProgress, Terminal, Places, Scopes, Jobs, Helpers, Continuations,
             Processes

(* What the updates of a state leave alone.                                *)
LEMMA AtState ==
    ASSUME NEW s \in ProcStates, NEW pc \in Places,
           NEW t, t = [s EXCEPT !.pc = pc]
    PROVE  /\ t \in ProcStates
           /\ t.pc = pc /\ t.job = s.job /\ t.scope = s.scope /\ t.run = s.run
           /\ t.plan = s.plan /\ t.op = s.op /\ t.goal = s.goal
           /\ t.seen = s.seen /\ t.next = s.next
PROOF BY DEF ProcStates

LEMMA SeenState ==
    ASSUME NEW s \in ProcStates, NEW seen \in Lifecycle!Statuses,
           NEW t, t = [s EXCEPT !.pc = "commit", !.seen = seen]
    PROVE  /\ t \in ProcStates
           /\ t.pc = "commit" /\ t.job = s.job /\ t.scope = s.scope
           /\ t.run = s.run /\ t.plan = s.plan /\ t.op = s.op
           /\ t.goal = s.goal /\ t.seen = seen /\ t.next = s.next
PROOF BY Names DEF ProcStates

LEMMA GraphState ==
    ASSUME NEW s \in ProcStates,
           NEW t, t = [s EXCEPT !.pc = "graph", !.scope = "graph"]
    PROVE  /\ t \in ProcStates
           /\ t.pc = "graph" /\ t.job = s.job /\ t.scope = "graph"
           /\ t.run = s.run /\ t.plan = s.plan /\ t.op = s.op
           /\ t.goal = s.goal /\ t.seen = s.seen /\ t.next = s.next
PROOF BY Names DEF ProcStates

LEMMA CallState ==
    ASSUME NEW s \in ProcStates, NEW op \in Helpers,
           NEW goal \in Lifecycle!Statuses, NEW next \in Continuations,
           NEW t, t = Call(s, op, goal, next)
    PROVE  /\ t \in ProcStates
           /\ t.pc = "read" /\ t.job = s.job /\ t.scope = s.scope
           /\ t.run = s.run /\ t.plan = s.plan /\ t.op = op
           /\ t.goal = goal /\ t.seen = s.seen /\ t.next = next
PROOF BY Names DEF Call, ProcStates

LEMMA ScopeState ==
    ASSUME NEW s \in ProcStates, NEW scope \in Scopes,
           NEW t, t = [s EXCEPT !.scope = scope]
    PROVE  /\ t \in ProcStates
           /\ t.pc = s.pc /\ t.job = s.job /\ t.scope = scope /\ t.run = s.run
           /\ t.plan = s.plan /\ t.op = s.op /\ t.goal = s.goal
           /\ t.seen = s.seen /\ t.next = s.next
PROOF BY DEF ProcStates

LEMMA PlannedState ==
    ASSUME NEW s \in ProcStates, NEW pl \in Plans,
           NEW t, t = [s EXCEPT !.scope = "try", !.plan = pl]
    PROVE  /\ t \in ProcStates
           /\ t.pc = s.pc /\ t.job = s.job /\ t.scope = "try" /\ t.run = s.run
           /\ t.plan = pl /\ t.op = s.op /\ t.goal = s.goal
           /\ t.seen = s.seen /\ t.next = s.next
PROOF BY Names DEF ProcStates

(* A request for run r begins.                                             *)
Request(h, r, job, pc) == [Rest(h) EXCEPT !.job = job, !.pc = pc, !.run = r]
Review(h, r, pl) == [Rest(h) EXCEPT !.job = "review", !.pc = "confirm",
                                    !.run = r, !.plan = pl]

LEMMA RequestState ==
    ASSUME NEW h \in Handlers, NEW r \in Runs, NEW job \in Jobs, NEW pc \in Places,
           NEW t, t = Request(h, r, job, pc)
    PROVE  /\ t \in ProcStates
           /\ t.pc = pc /\ t.job = job /\ t.scope = "outside" /\ t.run = r
           /\ t.plan = NoPlan /\ t.next = "off"
PROOF
  <1>1. Rest(h) \in ProcStates /\ Rest(h).scope = "outside"
        /\ Rest(h).plan = NoPlan /\ Rest(h).next = "off"
    BY RestState, Names DEF Rest
  <1> QED BY <1>1 DEF ProcStates, Request

LEMMA ReviewState ==
    ASSUME NEW h \in Handlers, NEW r \in Runs, NEW pl \in Plans,
           NEW t, t = Review(h, r, pl)
    PROVE  /\ t \in ProcStates
           /\ t.pc = "confirm" /\ t.job = "review" /\ t.scope = "outside"
           /\ t.run = r /\ t.plan = pl /\ t.next = "off"
PROOF
  <1>1. Rest(h) \in ProcStates /\ Rest(h).scope = "outside" /\ Rest(h).next = "off"
    BY RestState, Names DEF Rest
  <1> QED BY <1>1, Names DEF ProcStates, Review

LEMMA TriedState ==
    ASSUME NEW s \in ProcStates, s.tries + 1 < SubmitAttempts,
           NEW t, t = [s EXCEPT !.tries = s.tries + 1]
    PROVE  /\ t \in ProcStates
           /\ t.pc = s.pc /\ t.job = s.job /\ t.scope = s.scope /\ t.run = s.run
           /\ t.plan = s.plan /\ t.op = s.op /\ t.goal = s.goal
           /\ t.seen = s.seen /\ t.next = s.next
PROOF
  <1>1. s.tries + 1 \in 0..(SubmitAttempts - 1)
    BY ServiceAssumption DEF ProcStates
  <1> QED BY <1>1 DEF ProcStates

(* The state of a worker when it is submitted by request h.                *)
LEMMA WorkState ==
    ASSUME Typed, NEW h \in Handlers, proc[h].run \in Runs,
           NEW t, t = Work(h)
    PROVE  /\ t \in ProcStates
           /\ t.pc = "off" /\ t.scope = "outside" /\ t.run = proc[h].run
           /\ t.job = (IF proc[h].job = "create" THEN "planning" ELSE "research")
           /\ t.plan = proc[h].plan /\ t.op = "none" /\ t.goal = "absent"
PROOF
  <1> DEFINE r == proc[h].run
             job == IF proc[h].job = "create" THEN "planning" ELSE "research"
             pl == proc[h].plan
  <1>1. proc[h] \in ProcStates /\ r \in Processes /\ job \in Jobs
    BY Names DEF Typed, TypeOK
  <1>2. Rest(r) \in ProcStates /\ Rest(r).pc = "off" /\ Rest(r).run = r
        /\ Rest(r).scope = "outside" /\ Rest(r).op = "none" /\ Rest(r).goal = "absent"
    BY <1>1, RestState DEF Rest
  <1>3. pl \in Plans \cup {NoPlan}
    BY <1>1 DEF ProcStates
  <1>4. t = [Rest(r) EXCEPT !.job = job, !.plan = pl]
    BY DEF Work
  <1> HIDE DEF r, job, pl
  <1>5. /\ t \in ProcStates
        /\ t.pc = "off" /\ t.scope = "outside" /\ t.run = r
        /\ t.job = job /\ t.plan = pl /\ t.op = "none" /\ t.goal = "absent"
    BY <1>1, <1>2, <1>3, <1>4 DEF ProcStates
  <1> QED BY <1>5 DEF r, job, pl

-----------------------------------------------------------------------------
(* What each step does to the process that takes it.                       *)

ProcsOK == proc \in [Processes -> ProcStates] /\ Shapes

Moved(p) == \A q \in Processes : q # p => proc'[q] = proc[q]

SameWork(p) ==
    /\ proc'[p].job = proc[p].job
    /\ proc'[p].run = proc[p].run
    /\ proc'[p].plan = proc[p].plan

SameCall(p) ==
    /\ proc'[p].op = proc[p].op
    /\ proc'[p].goal = proc[p].goal
    /\ proc'[p].next = proc[p].next

(* A worker is over, in one of the ways the queue knows.                   *)
Ends(p) ==
    /\ p \in Runs
    /\ proc'[p] = Rest(p)
    /\ \E outcome \in QP!Outcomes : QP!WorkEnds(p, outcome)

LEMMA SameWorkEnds ==
    ASSUME NEW r, NEW outcome, Queue!WorkEnds(r, outcome)
    PROVE  QP!WorkEnds(r, outcome)
PROOF BY DEF Queue!WorkEnds, QP!WorkEnds, Queue!Promoted, QP!Promoted,
             Queue!Active, QP!Active, Queue!Cardinality, QP!Cardinality

LEMMA StateOf ==
    ASSUME Typed, NEW p \in Processes
    PROVE  /\ proc[p] \in ProcStates
           /\ p \in Runs => WorkerShape(p, proc[p])
           /\ p \in Handlers => HandlerShape(proc[p])
           /\ p \in Runs \/ p \in Handlers
PROOF BY DEF Typed, TypeOK, Shapes, Processes

LEMMA RestMoves ==
    ASSUME Typed, NEW p \in Processes, proc' = [proc EXCEPT ![p] = Rest(p)]
    PROVE  ProcsOK' /\ Moved(p) /\ proc'[p] = Rest(p)
PROOF
  <1>1. Rest(p) \in ProcStates
    BY RestState
  <1> QED BY <1>1, RestState, OneMoves DEF ProcsOK, Moved

LEMMA ReturnEffect ==
    ASSUME Typed, NEW p \in Processes, InHelper(proc[p]), Return(p)
    PROVE  /\ ProcsOK' /\ Moved(p)
           /\ \/ /\ p \in Runs /\ proc[p].next = "graph"
                 /\ SameWork(p) /\ SameCall(p)
                 /\ proc'[p].pc = "graph" /\ proc'[p].scope = "graph"
                 /\ UNCHANGED queueVars
              \/ /\ p \in Handlers
                 /\ proc'[p] = Rest(p)
                 /\ UNCHANGED queueVars
              \/ /\ proc[p].scope \in {"try", "handler"}
                 /\ Ends(p)
PROOF
  <1>1. CASE proc[p].next = "graph"
    <2> DEFINE t == [proc[p] EXCEPT !.pc = "graph", !.scope = "graph"]
    <2>1. proc' = [proc EXCEPT ![p] = t] /\ UNCHANGED queueVars
      BY <1>1 DEF Return, Typed, TypeOK
    <2>2. p \in Runs /\ p \notin Handlers /\ WorkerShape(p, proc[p])
      BY <1>1, StateOf, RunsAreNoHandlers DEF HandlerShape
    <2>3. /\ t \in ProcStates
          /\ t.pc = "graph" /\ t.job = proc[p].job /\ t.scope = "graph"
          /\ t.run = proc[p].run /\ t.plan = proc[p].plan /\ t.op = proc[p].op
          /\ t.goal = proc[p].goal /\ t.seen = proc[p].seen /\ t.next = proc[p].next
      BY StateOf, GraphState
    <2> HIDE DEF t
    <2>4. WorkerShape(p, t)
      BY <2>2, <2>3 DEF WorkerShape, InHelper
    <2>5. ProcsOK' /\ Moved(p) /\ proc'[p] = t
      BY <2>1, <2>2, <2>3, <2>4, OneMoves DEF ProcsOK, Moved
    <2> QED BY <1>1, <2>1, <2>2, <2>3, <2>5 DEF SameWork, SameCall
  <1>2. CASE proc[p].next = "off"
    <2>1. proc' = [proc EXCEPT ![p] = Rest(p)] /\ UNCHANGED queueVars
      BY <1>2 DEF Return
    <2>2. p \in Handlers
      BY <1>2, StateOf, Names DEF WorkerShape, InHelper, ProcStates, Scopes
    <2> QED BY <2>1, <2>2, RestMoves
  <1>3. CASE proc[p].next \in {"end", "raise"}
    <2>1. proc' = [proc EXCEPT ![p] = Rest(p)]
          /\ (Queue!WorkEnds(p, "result") \/ Queue!WorkEnds(p, "cancelled"))
      BY <1>3 DEF Return
    <2>2. p \in Runs /\ proc[p].scope \in {"try", "handler"}
      BY <1>3, StateOf, Names DEF WorkerShape, HandlerShape, InHelper, ProcStates, Scopes
    <2>3. \E outcome \in QP!Outcomes : QP!WorkEnds(p, outcome)
      <3>1. "result" \in QP!Outcomes /\ "cancelled" \in QP!Outcomes
        BY DEF QP!Outcomes
      <3> QED BY <2>1, <3>1, SameWorkEnds
    <2> QED BY <2>1, <2>2, <2>3, RestMoves DEF Ends
  <1> QED BY <1>1, <1>2, <1>3 DEF Return

(* The step takes p to another place of the same helper.                   *)
StepsTo(p, pc) ==
    /\ SameWork(p) /\ SameCall(p)
    /\ proc'[p].scope = proc[p].scope
    /\ proc'[p].pc = pc

(* The step begins a helper.                                               *)
Calls(p, op, goal, scope) ==
    /\ SameWork(p)
    /\ proc'[p].pc = "read" /\ proc'[p].op = op /\ proc'[p].goal = goal
    /\ proc'[p].scope = scope

LEMMA StepEffect ==
    ASSUME Typed, NEW p \in Processes, NEW pc \in Places, pc # "off",
           proc' = [proc EXCEPT ![p].pc = pc],
           NEW s, s = [proc[p] EXCEPT !.pc = pc],
           p \in Runs => WorkerShape(p, s),
           p \in Handlers => HandlerShape(s)
    PROVE  ProcsOK' /\ Moved(p) /\ StepsTo(p, pc)
PROOF
  <1>1. proc' = [proc EXCEPT ![p] = s]
    BY DEF Typed, TypeOK
  <1>2. /\ s \in ProcStates
        /\ s.pc = pc /\ s.job = proc[p].job /\ s.scope = proc[p].scope
        /\ s.run = proc[p].run /\ s.plan = proc[p].plan /\ s.op = proc[p].op
        /\ s.goal = proc[p].goal /\ s.seen = proc[p].seen /\ s.next = proc[p].next
    BY StateOf, AtState
  <1> QED BY <1>1, <1>2, OneMoves DEF ProcsOK, Moved, StepsTo, SameWork, SameCall

LEMMA ReadEffect ==
    ASSUME Typed, NEW p \in Processes, Read(p)
    PROVE  /\ ProcsOK' /\ Moved(p)
           /\ proc[p].run \in Runs
           /\ \/ GivesWay(p) /\ Return(p)
              \/ /\ ~GivesWay(p)
                 /\ StepsTo(p, "commit")
                 /\ proc'[p].seen = status[proc[p].run]
                 /\ UNCHANGED queueVars
PROOF
  <1>1. proc[p].pc = "read" /\ InHelper(proc[p])
    BY DEF Read, InHelper
  <1>2. proc[p].run \in Runs
    BY <1>1, StateOf DEF WorkerShape, HandlerShape, ProcStates
  <1>3. CASE GivesWay(p)
    BY <1>1, <1>2, <1>3, ReturnEffect DEF Read
  <1>4. CASE ~GivesWay(p)
    <2> DEFINE now == status[proc[p].run]
               t == [proc[p] EXCEPT !.pc = "commit", !.seen = now]
    <2>1. proc' = [proc EXCEPT ![p] = t] /\ UNCHANGED queueVars
      BY <1>4 DEF Read, Typed, TypeOK
    <2>2. now \in Lifecycle!Statuses
      BY <1>2 DEF Typed, TypeOK
    <2>3. /\ t \in ProcStates
          /\ t.pc = "commit" /\ t.job = proc[p].job /\ t.scope = proc[p].scope
          /\ t.run = proc[p].run /\ t.plan = proc[p].plan /\ t.op = proc[p].op
          /\ t.goal = proc[p].goal /\ t.seen = now /\ t.next = proc[p].next
      <3>1. proc[p] \in ProcStates
        BY StateOf
      <3>2. t = [proc[p] EXCEPT !.pc = "commit", !.seen = now]
        OBVIOUS
      <3> HIDE DEF now, t
      <3> QED BY <2>2, <3>1, <3>2, Names DEF ProcStates
    <2> HIDE DEF t
    <2>4. p \in Runs => WorkerShape(p, t)
      BY <1>1, <2>3, StateOf DEF WorkerShape, InHelper
    <2>5. p \in Handlers => HandlerShape(t)
      <3> SUFFICES ASSUME p \in Handlers
                   PROVE  HandlerShape(t)
        OBVIOUS
      <3>1. HandlerShape(proc[p])
        BY StateOf
      <3>2. proc[p].run # NoRun /\ proc[p].job # "none"
        BY <1>1, <3>1 DEF HandlerShape
      <3> QED BY <1>1, <2>3, <3>1, <3>2 DEF HandlerShape, InHelper
    <2>6. ProcsOK' /\ Moved(p) /\ proc'[p] = t
      BY <2>1, <2>3, <2>4, <2>5, OneMoves DEF ProcsOK, Moved
    <2> QED BY <1>2, <1>4, <2>1, <2>3, <2>6 DEF StepsTo, SameWork, SameCall
  <1> QED BY <1>3, <1>4

LEMMA CommitEffect ==
    ASSUME Typed, NEW p \in Processes, Commit(p)
    PROVE  ProcsOK' /\ Moved(p) /\ StepsTo(p, "publish") /\ proc[p].run \in Runs
PROOF
  <1> DEFINE t == [proc[p] EXCEPT !.pc = "publish"]
  <1>1. proc[p].pc = "commit" /\ InHelper(proc[p])
    BY DEF Commit, InHelper
  <1>2. proc[p].run \in Runs
    BY <1>1, StateOf DEF WorkerShape, HandlerShape, ProcStates
  <1>3. /\ t.pc = "publish" /\ t.job = proc[p].job /\ t.scope = proc[p].scope
        /\ t.run = proc[p].run /\ t.plan = proc[p].plan /\ t.op = proc[p].op
        /\ t.goal = proc[p].goal /\ t.next = proc[p].next
    BY StateOf, AtState, Names
  <1>4. p \in Runs => WorkerShape(p, t)
    BY <1>1, <1>3, StateOf DEF WorkerShape, InHelper
  <1>5. p \in Handlers => HandlerShape(t)
    BY <1>1, <1>3, StateOf DEF HandlerShape, InHelper
  <1>6. proc' = [proc EXCEPT ![p].pc = "publish"] /\ "publish" \in Places
    BY Names DEF Commit
  <1> QED BY <1>2, <1>4, <1>5, <1>6, StepEffect

LEMMA StartEffect ==
    ASSUME Typed, NEW r \in Runs, Start(r), proc[r].pc = "off", proc[r].scope = "outside",
           proc[r].job # "none"
    PROVE  ProcsOK' /\ Moved(r) /\ StepsTo(r, "get")
PROOF
  <1> DEFINE t == [proc[r] EXCEPT !.pc = "get"]
  <1>1. r \in Processes /\ r \notin Handlers
    BY Names, RunsAreNoHandlers
  <1>2. /\ t.pc = "get" /\ t.job = proc[r].job /\ t.scope = proc[r].scope
        /\ t.run = proc[r].run /\ t.plan = proc[r].plan /\ t.op = proc[r].op
        /\ t.goal = proc[r].goal /\ t.next = proc[r].next
    BY <1>1, StateOf, AtState, Names
  <1>3. WorkerShape(r, t)
    BY <1>1, <1>2, StateOf DEF WorkerShape, InHelper
  <1>4. proc' = [proc EXCEPT ![r].pc = "get"] /\ "get" \in Places
    BY Names DEF Start
  <1> QED BY <1>1, <1>3, <1>4, StepEffect

(* A helper is called, in the scope the process is in or in another one.   *)
LEMMA PlainCallEffect ==
    ASSUME Typed, NEW p \in Processes, NEW op \in Helpers,
           NEW goal \in Lifecycle!Statuses, NEW next \in Continuations,
           proc' = [proc EXCEPT ![p] = Call(@, op, goal, next)],
           \A s \in ProcStates :
              /\ s.pc = "read" /\ s.job = proc[p].job /\ s.run = proc[p].run
              /\ s.plan = proc[p].plan /\ s.op = op /\ s.goal = goal
              /\ s.next = next /\ s.scope = proc[p].scope
              => /\ p \in Runs => WorkerShape(p, s)
                 /\ p \in Handlers => HandlerShape(s)
    PROVE  ProcsOK' /\ Moved(p) /\ Calls(p, op, goal, proc[p].scope)
PROOF
  <1> DEFINE c == Call(proc[p], op, goal, next)
  <1>1. proc' = [proc EXCEPT ![p] = c]
    BY DEF Typed, TypeOK
  <1>2. /\ c \in ProcStates
        /\ c.pc = "read" /\ c.job = proc[p].job /\ c.run = proc[p].run
        /\ c.plan = proc[p].plan /\ c.op = op /\ c.goal = goal
        /\ c.next = next /\ c.scope = proc[p].scope
    BY StateOf, CallState
  <1> HIDE DEF c
  <1>3. /\ p \in Runs => WorkerShape(p, c)
        /\ p \in Handlers => HandlerShape(c)
    BY <1>2
  <1> QED BY <1>1, <1>2, <1>3, OneMoves DEF ProcsOK, Moved, Calls, SameWork

LEMMA CallEffect ==
    ASSUME Typed, NEW r \in Runs, NEW op \in Helpers,
           NEW goal \in Lifecycle!Statuses, NEW next \in Continuations,
           NEW scope \in Scopes,
           proc' = [proc EXCEPT ![r] = [Call(@, op, goal, next) EXCEPT !.scope = scope]],
           \A s \in ProcStates :
              /\ s.pc = "read" /\ s.job = proc[r].job /\ s.run = proc[r].run
              /\ s.plan = proc[r].plan /\ s.op = op /\ s.goal = goal
              /\ s.next = next /\ s.scope = scope
              => WorkerShape(r, s)
    PROVE  ProcsOK' /\ Moved(r) /\ Calls(r, op, goal, scope)
PROOF
  <1> DEFINE c == Call(proc[r], op, goal, next)
             t == [c EXCEPT !.scope = scope]
  <1>1. r \in Processes /\ r \notin Handlers
    BY Names, RunsAreNoHandlers
  <1>2. proc' = [proc EXCEPT ![r] = t]
    BY DEF Typed, TypeOK
  <1>3. /\ c \in ProcStates
        /\ c.pc = "read" /\ c.job = proc[r].job /\ c.run = proc[r].run
        /\ c.plan = proc[r].plan /\ c.op = op /\ c.goal = goal /\ c.next = next
    BY <1>1, StateOf, CallState
  <1> HIDE DEF c
  <1>4. /\ t \in ProcStates
        /\ t.pc = "read" /\ t.job = proc[r].job /\ t.run = proc[r].run
        /\ t.plan = proc[r].plan /\ t.op = op /\ t.goal = goal
        /\ t.next = next /\ t.scope = scope
    BY <1>3, ScopeState
  <1> HIDE DEF t
  <1>5. WorkerShape(r, t)
    BY <1>4
  <1> QED BY <1>1, <1>2, <1>4, <1>5, OneMoves DEF ProcsOK, Moved, Calls, SameWork

-----------------------------------------------------------------------------
(* The steps of workers.                                                   *)

LEMMA BeginPlanningEffect ==
    ASSUME Typed, NEW r \in Runs, BeginPlanning(r)
    PROVE  ProcsOK' /\ Moved(r) /\ Calls(r, "set", "planning", "outside")
PROOF
  <1>1. r \in Processes /\ WorkerShape(r, proc[r])
        /\ r \notin Handlers /\ proc[r] \in ProcStates
    BY Names, StateOf, RunsAreNoHandlers
  <1>2. proc[r].job = "planning" /\ proc[r].pc = "get"
        /\ proc' = [proc EXCEPT ![r] = Call(@, "set", "planning", "graph")]
    BY DEF BeginPlanning
  <1>3. proc[r].scope = "outside"
    BY <1>1, <1>2 DEF WorkerShape, InHelper, ProcStates, Scopes
  <1>4. \A s \in ProcStates :
           /\ s.pc = "read" /\ s.job = proc[r].job /\ s.run = proc[r].run
           /\ s.plan = proc[r].plan /\ s.op = "set" /\ s.goal = "planning"
           /\ s.next = "graph" /\ s.scope = proc[r].scope
           => /\ r \in Runs => WorkerShape(r, s)
              /\ r \in Handlers => HandlerShape(s)
    <2>1. proc[r].run = r
      BY <1>1 DEF WorkerShape
    <2> QED BY <1>1, <1>2, <1>3, <2>1 DEF WorkerShape, InHelper
  <1>5. /\ "set" \in Helpers /\ "planning" \in Lifecycle!Statuses
        /\ "graph" \in Continuations
    BY Names
  <1>6. ProcsOK' /\ Moved(r) /\ Calls(r, "set", "planning", proc[r].scope)
    BY <1>1, <1>2, <1>4, <1>5, PlainCallEffect
  <1> QED BY <1>3, <1>6

LEMMA BeginResearchEffect ==
    ASSUME Typed, NEW r \in Runs, BeginResearch(r)
    PROVE  /\ ProcsOK' /\ Moved(r)
           /\ \/ /\ SameWork(r) /\ SameCall(r)
                 /\ proc'[r].pc = "graph" /\ proc'[r].scope = "graph"
                 /\ UNCHANGED queueVars
              \/ status[r] # "researching" /\ Ends(r)
PROOF
  <1>1. r \in Processes /\ r \notin Handlers
    BY Names, RunsAreNoHandlers
  <1>2. CASE status[r] = "researching"
    <2> DEFINE t == [proc[r] EXCEPT !.pc = "graph", !.scope = "graph"]
    <2>1. proc' = [proc EXCEPT ![r] = t] /\ UNCHANGED queueVars
      BY <1>2 DEF BeginResearch, Typed, TypeOK
    <2>2. WorkerShape(r, proc[r]) /\ proc[r].job = "research"
      BY <1>1, StateOf DEF BeginResearch
    <2>3. /\ t \in ProcStates
          /\ t.pc = "graph" /\ t.job = proc[r].job /\ t.scope = "graph"
          /\ t.run = proc[r].run /\ t.plan = proc[r].plan /\ t.op = proc[r].op
          /\ t.goal = proc[r].goal /\ t.seen = proc[r].seen /\ t.next = proc[r].next
      BY <1>1, StateOf, GraphState
    <2> HIDE DEF t
    <2>4. WorkerShape(r, t)
      BY <2>2, <2>3 DEF WorkerShape, InHelper
    <2>5. ProcsOK' /\ Moved(r) /\ proc'[r] = t
      BY <1>1, <2>1, <2>3, <2>4, OneMoves DEF ProcsOK, Moved
    <2> QED BY <2>1, <2>3, <2>5 DEF SameWork, SameCall
  <1>3. CASE status[r] # "researching"
    <2>1. proc' = [proc EXCEPT ![r] = Rest(r)] /\ Queue!WorkEnds(r, "result")
      BY <1>3 DEF BeginResearch
    <2>2. "result" \in QP!Outcomes
      BY DEF QP!Outcomes
    <2> QED BY <1>1, <1>3, <2>1, <2>2, SameWorkEnds, RestMoves DEF Ends
  <1> QED BY <1>2, <1>3

LEMMA GraphProgressEffect ==
    ASSUME Typed, NEW r \in Runs, GraphProgress(r)
    PROVE  /\ ProcsOK' /\ Moved(r)
           /\ \E stage \in Stages(proc[r].job) :
                 stage \in NextStages(r) /\ Calls(r, "set", stage, "graph")
PROOF
  <1>1. r \in Processes /\ WorkerShape(r, proc[r])
        /\ r \notin Handlers /\ proc[r] \in ProcStates
    BY Names, StateOf, RunsAreNoHandlers
  <1>2. PICK stage \in NextStages(r) :
           proc' = [proc EXCEPT ![r] = Call(@, "set", stage, "graph")]
    BY DEF GraphProgress
  <1>3. proc[r].pc = "graph"
    BY DEF GraphProgress, InGraph
  <1>4. proc[r].scope = "graph" /\ proc[r].job \in {"planning", "research"}
    BY <1>1, <1>3 DEF WorkerShape, InHelper, ProcStates, Scopes
  <1>5. stage \in Stages(proc[r].job)
    BY <1>2, <1>4 DEF NextStages, Stages
  <1>6. /\ "set" \in Helpers /\ stage \in Lifecycle!Statuses
        /\ "graph" \in Continuations
    BY <1>5, Names DEF Stages
  <1>7. \A s \in ProcStates :
           /\ s.pc = "read" /\ s.job = proc[r].job /\ s.run = proc[r].run
           /\ s.plan = proc[r].plan /\ s.op = "set" /\ s.goal = stage
           /\ s.next = "graph" /\ s.scope = proc[r].scope
           => /\ r \in Runs => WorkerShape(r, s)
              /\ r \in Handlers => HandlerShape(s)
    <2>1. proc[r].run = r /\ (proc[r].job = "research" => proc[r].plan \in Plans)
      BY <1>1 DEF WorkerShape
    <2> QED BY <1>1, <1>4, <1>5, <2>1 DEF WorkerShape, InHelper
  <1>8. ProcsOK' /\ Moved(r) /\ Calls(r, "set", stage, proc[r].scope)
    BY <1>1, <1>2, <1>6, <1>7, PlainCallEffect
  <1> QED BY <1>4, <1>5, <1>8

LEMMA PlanReadyEffect ==
    ASSUME Typed, NEW r \in Runs, PlanReady(r)
    PROVE  /\ ProcsOK' /\ Moved(r)
           /\ proc'[r].job = proc[r].job /\ proc'[r].run = proc[r].run
           /\ proc'[r].pc = "read" /\ proc'[r].op = "plan"
           /\ proc'[r].scope = "try" /\ proc'[r].plan \in Plans
PROOF
  <1>1. r \in Processes /\ r \notin Handlers /\ WorkerShape(r, proc[r])
    BY Names, StateOf, RunsAreNoHandlers
  <1>2. PICK pl \in Plans :
           proc' = [proc EXCEPT ![r] =
                      [Call(@, "plan", "waiting_for_review", "end")
                          EXCEPT !.scope = "try", !.plan = pl]]
    BY DEF PlanReady
  <1> DEFINE c == Call(proc[r], "plan", "waiting_for_review", "end")
             t == [c EXCEPT !.scope = "try", !.plan = pl]
  <1>3. proc' = [proc EXCEPT ![r] = t]
    BY <1>2 DEF Typed, TypeOK
  <1>4. "plan" \in Helpers /\ "waiting_for_review" \in Lifecycle!Statuses
        /\ "end" \in Continuations /\ "try" \in Scopes
    BY Names
  <1>5. /\ c \in ProcStates
        /\ c.pc = "read" /\ c.job = proc[r].job /\ c.run = proc[r].run
        /\ c.op = "plan" /\ c.goal = "waiting_for_review" /\ c.next = "end"
    BY <1>1, <1>4, StateOf, CallState
  <1> HIDE DEF c
  <1>6. /\ t \in ProcStates
        /\ t.pc = "read" /\ t.job = proc[r].job /\ t.run = proc[r].run
        /\ t.plan = pl /\ t.op = "plan" /\ t.goal = "waiting_for_review"
        /\ t.next = "end" /\ t.scope = "try"
    BY <1>4, <1>5 DEF ProcStates
  <1> HIDE DEF t
  <1>7. WorkerShape(r, t)
    <2>1. proc[r].job = "planning" /\ pl \in Plans
      BY DEF PlanReady
    <2> QED BY <1>1, <1>6, <2>1 DEF WorkerShape, InHelper
  <1> QED BY <1>1, <1>3, <1>6, <1>7, OneMoves DEF ProcsOK, Moved

LEMMA ReportReadyEffect ==
    ASSUME Typed, NEW r \in Runs, ReportReady(r)
    PROVE  ProcsOK' /\ Moved(r) /\ Calls(r, "report", "completed", "try")
PROOF
  <1>1. r \in Processes /\ WorkerShape(r, proc[r])
    BY Names, StateOf
  <1>2. proc[r].job = "research"
        /\ proc' = [proc EXCEPT ![r] =
                      [Call(@, "report", "completed", "end") EXCEPT !.scope = "try"]]
    BY DEF ReportReady
  <1>3. \A s \in ProcStates :
           /\ s.pc = "read" /\ s.job = proc[r].job /\ s.run = proc[r].run
           /\ s.plan = proc[r].plan /\ s.op = "report" /\ s.goal = "completed"
           /\ s.next = "end" /\ s.scope = "try"
           => WorkerShape(r, s)
    BY <1>1, <1>2 DEF WorkerShape, InHelper
  <1>4. "report" \in Helpers /\ "completed" \in Lifecycle!Statuses
        /\ "end" \in Continuations /\ "try" \in Scopes
    BY Names
  <1> QED BY <1>2, <1>3, <1>4, CallEffect

LEMMA FailsEffect ==
    ASSUME Typed, NEW r \in Runs, Fails(r), proc[r].pc # "off"
    PROVE  ProcsOK' /\ Moved(r) /\ Calls(r, "fail", "failed", "handler")
PROOF
  <1>1. r \in Processes /\ WorkerShape(r, proc[r])
    BY Names, StateOf
  <1>2. proc' = [proc EXCEPT ![r] =
                   [Call(@, "fail", "failed", "end") EXCEPT !.scope = "handler"]]
    BY DEF Fails
  <1>3. \A s \in ProcStates :
           /\ s.pc = "read" /\ s.job = proc[r].job /\ s.run = proc[r].run
           /\ s.plan = proc[r].plan /\ s.op = "fail" /\ s.goal = "failed"
           /\ s.next = "end" /\ s.scope = "handler"
           => WorkerShape(r, s)
    BY <1>1 DEF WorkerShape, InHelper
  <1>4. "fail" \in Helpers /\ "failed" \in Lifecycle!Statuses
        /\ "end" \in Continuations /\ "handler" \in Scopes
    BY Names
  <1> QED BY <1>2, <1>3, <1>4, CallEffect

(* Within the try block a delivered cancellation is handled; elsewhere it  *)
(* ends the worker, or the task that has not begun.                        *)
LEMMA DeliverCancelEffect ==
    ASSUME Typed, NEW r \in Runs, DeliverCancel(r)
    PROVE  /\ ProcsOK' /\ Moved(r)
           /\ \/ /\ proc[r].scope \in {"graph", "try"}
                 /\ Calls(r, "set", "cancelled", "handler")
                 /\ Queue!DeliverCancel(r)
              \/ /\ proc[r].scope \notin {"graph", "try"}
                 /\ proc'[r] = Rest(r)
                 /\ task[r] = "created"
                 /\ Queue!DeliverCancel(r)
              \/ /\ proc[r].scope \notin {"graph", "try"}
                 /\ task[r] # "created"
                 /\ Ends(r)
PROOF
  <1>1. r \in Processes /\ WorkerShape(r, proc[r]) /\ r \in cancelReq
    BY Names, StateOf DEF DeliverCancel
  <1>2. CASE proc[r].scope \in {"graph", "try"}
    <2>1. proc' = [proc EXCEPT ![r] =
                     [Call(@, "set", "cancelled", "raise") EXCEPT !.scope = "handler"]]
          /\ Queue!DeliverCancel(r)
      BY <1>2 DEF DeliverCancel
    <2>2. proc[r].job # "none"
      BY <1>1, <1>2 DEF WorkerShape, InHelper
    <2>3. \A s \in ProcStates :
             /\ s.pc = "read" /\ s.job = proc[r].job /\ s.run = proc[r].run
             /\ s.plan = proc[r].plan /\ s.op = "set" /\ s.goal = "cancelled"
             /\ s.next = "raise" /\ s.scope = "handler"
             => WorkerShape(r, s)
      BY <1>1, <2>2 DEF WorkerShape, InHelper
    <2>4. "set" \in Helpers /\ "cancelled" \in Lifecycle!Statuses
          /\ "raise" \in Continuations /\ "handler" \in Scopes
      BY Names
    <2>5. ProcsOK' /\ Moved(r) /\ Calls(r, "set", "cancelled", "handler")
      BY <2>1, <2>3, <2>4, CallEffect
    <2> QED BY <1>2, <2>1, <2>5
  <1>3. CASE proc[r].scope \notin {"graph", "try"}
    <2>1. /\ proc' = [proc EXCEPT ![r] = Rest(r)]
          /\ IF task[r] = "created" THEN Queue!DeliverCancel(r)
             ELSE Queue!WorkEnds(r, "cancelled")
      BY <1>3 DEF DeliverCancel
    <2>2. "cancelled" \in QP!Outcomes
      BY DEF QP!Outcomes
    <2> QED BY <1>1, <1>3, <2>1, <2>2, SameWorkEnds, RestMoves DEF Ends
  <1> QED BY <1>2, <1>3

-----------------------------------------------------------------------------
(* The steps of requests.                                                  *)

LEMMA HandlerMoves ==
    ASSUME Typed, NEW h \in Handlers, NEW s \in ProcStates,
           proc' = [proc EXCEPT ![h] = s], HandlerShape(s)
    PROVE  ProcsOK' /\ Moved(h) /\ proc'[h] = s
PROOF
  <1>1. h \in Processes /\ h \notin Runs
    BY Names, RunsAreNoHandlers
  <1> QED BY <1>1, OneMoves DEF ProcsOK, Moved

(* The run a busy request is for.                                          *)
LEMMA HandlerOf ==
    ASSUME Typed, NEW h \in Handlers
    PROVE  /\ h \in Processes /\ h \notin Runs
           /\ proc[h] \in ProcStates /\ HandlerShape(proc[h])
           /\ proc[h].pc # "off" => proc[h].run \in Runs
PROOF
  <1>1. h \in Processes /\ h \notin Runs
    BY Names, RunsAreNoHandlers
  <1>2. proc[h] \in ProcStates /\ HandlerShape(proc[h])
    BY <1>1, StateOf
  <1>3. proc[h].run \in Runs \cup {NoRun}
    BY <1>2 DEF ProcStates
  <1> QED BY <1>1, <1>2, <1>3 DEF HandlerShape

LEMMA CreateEffect ==
    ASSUME Typed, NEW h \in Handlers, NEW r \in Runs, CreateRequest(h, r)
    PROVE  /\ ProcsOK' /\ Moved(h)
           /\ proc'[h].job = "create" /\ proc'[h].pc = "submit"
           /\ proc'[h].run = r
PROOF
  <1> DEFINE t == Request(h, r, "create", "submit")
  <1>1. "create" \in Jobs /\ "submit" \in Places
    BY Names
  <1>2. /\ t \in ProcStates
        /\ t.pc = "submit" /\ t.job = "create" /\ t.scope = "outside" /\ t.run = r
        /\ t.plan = NoPlan /\ t.next = "off"
    BY <1>1, RequestState
  <1>3. proc' = [proc EXCEPT ![h] = t]
    BY DEF CreateRequest, Request
  <1> HIDE DEF t
  <1>4. HandlerShape(t)
    BY <1>2, RunsAreNoHandlers DEF HandlerShape, InHelper
  <1> QED BY <1>2, <1>3, <1>4, HandlerMoves

LEMMA ReviewEffect ==
    ASSUME Typed, NEW h \in Handlers, NEW r \in Runs, NEW pl \in Plans,
           ReviewRequest(h, r, pl)
    PROVE  /\ ProcsOK' /\ Moved(h)
           /\ proc'[h].job = "review" /\ proc'[h].pc = "confirm"
           /\ proc'[h].run = r
PROOF
  <1> DEFINE t == Review(h, r, pl)
  <1>1. /\ t \in ProcStates
        /\ t.pc = "confirm" /\ t.job = "review" /\ t.scope = "outside"
        /\ t.run = r /\ t.plan = pl /\ t.next = "off"
    BY ReviewState
  <1>2. proc' = [proc EXCEPT ![h] = t]
    BY DEF ReviewRequest, Review
  <1> HIDE DEF t
  <1>3. HandlerShape(t)
    BY <1>1, RunsAreNoHandlers DEF HandlerShape, InHelper
  <1> QED BY <1>1, <1>2, <1>3, HandlerMoves

LEMMA CancelEffect ==
    ASSUME Typed, NEW h \in Handlers, NEW r \in Runs, CancelRequest(h, r)
    PROVE  /\ ProcsOK' /\ Moved(h)
           /\ proc'[h].job = "cancel" /\ proc'[h].pc = "dequeue"
           /\ proc'[h].run = r
PROOF
  <1> DEFINE t == Request(h, r, "cancel", "dequeue")
  <1>1. "cancel" \in Jobs /\ "dequeue" \in Places
    BY Names
  <1>2. /\ t \in ProcStates
        /\ t.pc = "dequeue" /\ t.job = "cancel" /\ t.scope = "outside" /\ t.run = r
        /\ t.plan = NoPlan /\ t.next = "off"
    BY <1>1, RequestState
  <1>3. proc' = [proc EXCEPT ![h] = t]
    BY DEF CancelRequest, Request
  <1> HIDE DEF t
  <1>4. HandlerShape(t)
    BY <1>2, RunsAreNoHandlers DEF HandlerShape, InHelper
  <1> QED BY <1>2, <1>3, <1>4, HandlerMoves

(* A request that gives up fails the run.                                  *)
LEMMA GivesUpEffect ==
    ASSUME Typed, NEW h \in Handlers, proc[h].pc = "submit", proc[h].job = "review",
           proc' = [proc EXCEPT ![h] = Call(@, "fail", "failed", "off")]
    PROVE  ProcsOK' /\ Moved(h) /\ Calls(h, "fail", "failed", "outside")
PROOF
  <1>1. /\ h \in Processes /\ h \notin Runs /\ HandlerShape(proc[h])
        /\ proc[h].scope = "outside"
    BY HandlerOf DEF HandlerShape
  <1>2. \A s \in ProcStates :
           /\ s.pc = "read" /\ s.job = proc[h].job /\ s.run = proc[h].run
           /\ s.plan = proc[h].plan /\ s.op = "fail" /\ s.goal = "failed"
           /\ s.next = "off" /\ s.scope = proc[h].scope
           => /\ h \in Runs => WorkerShape(h, s)
              /\ h \in Handlers => HandlerShape(s)
    BY <1>1 DEF HandlerShape, InHelper
  <1>3. "fail" \in Helpers /\ "failed" \in Lifecycle!Statuses /\ "off" \in Continuations
    BY Names
  <1>4. ProcsOK' /\ Moved(h) /\ Calls(h, "fail", "failed", proc[h].scope)
    BY <1>1, <1>2, <1>3, PlainCallEffect
  <1> QED BY <1>1, <1>4

LEMMA RefusedEffect ==
    ASSUME Typed, NEW h \in Handlers, SubmitRefused(h)
    PROVE  /\ ProcsOK' /\ Moved(h)
           /\ \/ proc[h].job = "create" /\ StepsTo(h, "rollback")
              \/ proc[h].job = "review" /\ Calls(h, "fail", "failed", "outside")
PROOF
  <1>1. proc[h].pc = "submit" /\ HandlerShape(proc[h]) /\ h \in Processes
    BY HandlerOf DEF SubmitRefused
  <1>2. CASE proc[h].job = "create"
    <2>1. proc' = [proc EXCEPT ![h].pc = "rollback"]
      BY <1>1, <1>2 DEF SubmitRefused, Refused, Typed, TypeOK
    <2>2. ProcsOK' /\ Moved(h) /\ StepsTo(h, "rollback")
      <3> DEFINE t == [proc[h] EXCEPT !.pc = "rollback"]
      <3>1. "rollback" \in Places /\ proc[h] \in ProcStates /\ h \notin Runs
        BY Names, HandlerOf
      <3>2. /\ t.pc = "rollback" /\ t.job = proc[h].job /\ t.scope = proc[h].scope
            /\ t.run = proc[h].run /\ t.plan = proc[h].plan /\ t.next = proc[h].next
        BY <3>1, AtState
      <3>3. HandlerShape(t)
        <4> HIDE DEF t
        <4> QED BY <1>1, <1>2, <3>2 DEF HandlerShape, InHelper
      <3> QED BY <1>1, <2>1, <3>1, <3>3, StepEffect
    <2> QED BY <1>2, <2>2
  <1>3. CASE proc[h].job # "create"
    <2>1. proc[h].job = "review"
      BY <1>1, <1>3 DEF HandlerShape, InHelper
    <2>2. proc' = [proc EXCEPT ![h] = Call(@, "fail", "failed", "off")]
      BY <1>1, <1>3 DEF SubmitRefused, Refused, Typed, TypeOK
    <2> QED BY <1>1, <2>1, <2>2, GivesUpEffect
  <1> QED BY <1>2, <1>3

LEMMA DuplicateEffect ==
    ASSUME Typed, NEW h \in Handlers, SubmitDuplicate(h)
    PROVE  /\ ProcsOK' /\ Moved(h) /\ proc[h].job = "review"
           /\ \/ StepsTo(h, "submit")
              \/ Calls(h, "fail", "failed", "outside")
PROOF
  <1>1. /\ proc[h].pc = "submit" /\ proc[h].job = "review"
        /\ HandlerShape(proc[h]) /\ h \in Processes /\ proc[h] \in ProcStates
    BY HandlerOf DEF SubmitDuplicate
  <1>2. CASE TriesAgain(h)
    <2> DEFINE t == [proc[h] EXCEPT !.tries = proc[h].tries + 1]
    <2>1. proc' = [proc EXCEPT ![h] = t]
      BY <1>1, <1>2 DEF SubmitDuplicate, Typed, TypeOK
    <2>2. t = [proc[h] EXCEPT !.tries = proc[h].tries + 1]
          /\ proc[h].tries + 1 < SubmitAttempts
      BY <1>2 DEF TriesAgain
    <2> HIDE DEF t
    <2>3. /\ t \in ProcStates
          /\ t.pc = proc[h].pc /\ t.job = proc[h].job /\ t.scope = proc[h].scope
          /\ t.run = proc[h].run /\ t.plan = proc[h].plan /\ t.op = proc[h].op
          /\ t.goal = proc[h].goal /\ t.next = proc[h].next
      BY <1>1, <2>2, TriedState
    <2>4. HandlerShape(t)
      BY <1>1, <2>3 DEF HandlerShape, InHelper
    <2>5. ProcsOK' /\ Moved(h) /\ proc'[h] = t
      BY <2>1, <2>3, <2>4, HandlerMoves
    <2> QED BY <1>1, <2>3, <2>5 DEF StepsTo, SameWork, SameCall
  <1>3. CASE ~TriesAgain(h)
    <2>1. proc' = [proc EXCEPT ![h] = Call(@, "fail", "failed", "off")]
      BY <1>1, <1>3 DEF SubmitDuplicate, Typed, TypeOK
    <2> QED BY <1>1, <2>1, GivesUpEffect
  <1> QED BY <1>2, <1>3

(* A request that is over.                                                 *)
Leaves(h) ==
    /\ ProcsOK' /\ Moved(h)
    /\ proc'[h] = Rest(h)

LEMMA RollbackEffect ==
    ASSUME Typed, NEW h \in Handlers, Rollback(h)
    PROVE  Leaves(h) /\ proc[h].job = "create" /\ proc[h].run \in Runs
PROOF
  <1>1. h \in Processes /\ HandlerShape(proc[h]) /\ proc[h].pc = "rollback"
        /\ proc[h].run \in Runs
    BY HandlerOf DEF Rollback
  <1>2. proc[h].job = "create"
    BY <1>1 DEF HandlerShape, InHelper
  <1> QED BY <1>1, <1>2, RestMoves DEF Rollback, Leaves

LEMMA ConfirmEffect ==
    ASSUME Typed, NEW h \in Handlers, Confirm(h)
    PROVE  /\ proc[h].job = "review" /\ proc[h].run \in Runs /\ proc[h].plan \in Plans
           /\ \/ /\ UnderReview(proc[h].run)
                 /\ ProcsOK' /\ Moved(h) /\ StepsTo(h, "submit")
              \/ /\ ~UnderReview(proc[h].run)
                 /\ Leaves(h)
PROOF
  <1>1. h \in Processes /\ HandlerShape(proc[h]) /\ proc[h].pc = "confirm"
        /\ proc[h].run \in Runs
    BY HandlerOf DEF Confirm
  <1>2. proc[h].job = "review" /\ proc[h].plan \in Plans
    BY <1>1 DEF HandlerShape, InHelper
  <1>3. CASE UnderReview(proc[h].run)
    <2> DEFINE t == [proc[h] EXCEPT !.pc = "submit"]
    <2>1. "submit" \in Places /\ proc[h] \in ProcStates /\ h \notin Runs
      BY Names, HandlerOf
    <2>2. /\ t.pc = "submit" /\ t.job = proc[h].job /\ t.scope = proc[h].scope
          /\ t.run = proc[h].run /\ t.plan = proc[h].plan /\ t.next = proc[h].next
      BY <2>1, AtState
    <2>3. HandlerShape(t)
      <3> HIDE DEF t
      <3> QED BY <1>1, <1>2, <2>2 DEF HandlerShape, InHelper
    <2>4. proc' = [proc EXCEPT ![h].pc = "submit"]
      BY <1>3 DEF Confirm
    <2>5. ProcsOK' /\ Moved(h) /\ StepsTo(h, "submit")
      BY <1>1, <2>1, <2>3, <2>4, StepEffect
    <2> QED BY <1>1, <1>2, <1>3, <2>5
  <1>4. CASE ~UnderReview(proc[h].run)
    BY <1>1, <1>2, <1>4, RestMoves DEF Confirm, Leaves
  <1> QED BY <1>3, <1>4

(* A request and the worker of its run move together.                      *)
LEMMA TwoMove ==
    ASSUME Typed, NEW h \in Handlers, NEW r \in Runs,
           NEW a \in ProcStates, NEW b \in ProcStates,
           proc' = [proc EXCEPT ![h] = a, ![r] = b],
           HandlerShape(a), WorkerShape(r, b)
    PROVE  /\ ProcsOK'
           /\ proc'[h] = a /\ proc'[r] = b
           /\ \A q \in Processes : q # h /\ q # r => proc'[q] = proc[q]
PROOF
  <1>1. h \in Processes /\ r \in Processes /\ h # r /\ r \notin Handlers /\ h \notin Runs
    BY Names, RunsAreNoHandlers
  <1>2. /\ proc' \in [Processes -> ProcStates]
        /\ proc'[h] = a /\ proc'[r] = b
        /\ \A q \in Processes : q # h /\ q # r => proc'[q] = proc[q]
    BY <1>1 DEF Typed, TypeOK
  <1>3. \A q \in Runs : WorkerShape(q, proc'[q])
    BY <1>1, <1>2, Names DEF Typed, Shapes
  <1>4. \A g \in Handlers : HandlerShape(proc'[g])
    BY <1>1, <1>2, Names DEF Typed, Shapes
  <1> QED BY <1>2, <1>3, <1>4 DEF ProcsOK, Shapes

LEMMA DropsEffect ==
    ASSUME Typed, NEW h \in Handlers, NEW r \in Runs, NEW a \in ProcStates,
           proc' = [proc EXCEPT ![h] = a, ![r] = Rest(r)], HandlerShape(a)
    PROVE  /\ ProcsOK'
           /\ proc'[h] = a /\ proc'[r] = Rest(r)
           /\ \A q \in Processes : q # h /\ q # r => proc'[q] = proc[q]
PROOF
  <1>1. r \in Processes
    BY Names
  <1>2. Rest(r) \in ProcStates /\ WorkerShape(r, Rest(r))
    BY <1>1, RestState
  <1> QED BY <1>2, TwoMove

(* The worker begins with the plan of the request that submits it.         *)
LEMMA AcceptedEffect ==
    ASSUME Typed, NEW h \in Handlers, SubmitAccepted(h)
    PROVE  /\ proc[h].run \in Runs
           /\ ProcsOK'
           /\ \A q \in Processes : q # h /\ q # proc[h].run => proc'[q] = proc[q]
           /\ \/ proc[h].job = "create" /\ proc'[h] = Rest(h)
              \/ proc[h].job = "review" /\ SameWork(h) /\ proc'[h].pc = "publish"
           /\ LET w == proc'[proc[h].run]
              IN /\ w.pc = "off" /\ w.scope = "outside" /\ w.run = proc[h].run
                 /\ w.job = (IF proc[h].job = "create" THEN "planning" ELSE "research")
                 /\ w.plan = proc[h].plan /\ w.op = "none" /\ w.goal = "absent"
PROOF
  <1> DEFINE r == proc[h].run
             b == Work(h)
             done == [proc[h] EXCEPT !.pc = "publish", !.next = "off"]
             a == IF proc[h].job = "create" THEN Rest(h) ELSE done
  <1>1. /\ h \in Processes /\ HandlerShape(proc[h]) /\ proc[h].pc = "submit"
        /\ r \in Runs /\ proc[h] \in ProcStates
    BY HandlerOf DEF SubmitAccepted
  <1>2. proc[h].job \in {"create", "review"}
    BY <1>1 DEF HandlerShape, InHelper
  <1>3. /\ b \in ProcStates
        /\ b.pc = "off" /\ b.scope = "outside" /\ b.run = r
        /\ b.job = (IF proc[h].job = "create" THEN "planning" ELSE "research")
        /\ b.plan = proc[h].plan /\ b.op = "none" /\ b.goal = "absent"
    BY <1>1, WorkState
  <1>4. proc' = [proc EXCEPT ![h] = a, ![r] = b]
    BY DEF SubmitAccepted
  <1>5. /\ done \in ProcStates
        /\ done.pc = "publish" /\ done.job = proc[h].job /\ done.run = r
        /\ done.plan = proc[h].plan /\ done.scope = proc[h].scope /\ done.next = "off"
    BY <1>1, Names DEF ProcStates
  <1>6. Rest(h) \in ProcStates /\ HandlerShape(Rest(h))
    BY <1>1, RestState
  <1>7. proc[h].job = "review" => HandlerShape(done)
    <2> HIDE DEF done, r
    <2> QED BY <1>1, <1>5, RunsAreNoHandlers DEF HandlerShape, InHelper
  <1>8. a \in ProcStates /\ HandlerShape(a)
    BY <1>2, <1>5, <1>6, <1>7
  <1>9. WorkerShape(r, b)
    <2>1. proc[h].job = "review" => proc[h].plan \in Plans
      BY <1>1 DEF HandlerShape
    <2> HIDE DEF b, r
    <2> QED BY <1>2, <1>3, <2>1 DEF WorkerShape, InHelper
  <1>10. /\ ProcsOK'
         /\ proc'[h] = a /\ proc'[r] = b
         /\ \A q \in Processes : q # h /\ q # r => proc'[q] = proc[q]
    <2> HIDE DEF a, b, r
    <2> QED BY <1>1, <1>3, <1>4, <1>8, <1>9, TwoMove
  <1>11. \/ proc[h].job = "create" /\ proc'[h] = Rest(h)
         \/ proc[h].job = "review" /\ SameWork(h) /\ proc'[h].pc = "publish"
    BY <1>2, <1>5, <1>10 DEF SameWork
  <1> HIDE DEF b
  <1> QED BY <1>1, <1>3, <1>10, <1>11

LEMMA DequeueEffect ==
    ASSUME Typed, NEW h \in Handlers, Dequeue(h)
    PROVE  /\ proc[h].run \in Runs /\ proc[h].job = "cancel"
           /\ ProcsOK'
           /\ Calls(h, "set", "cancelled", "outside")
           /\ \A q \in Processes : q # h /\ q # proc[h].run => proc'[q] = proc[q]
           /\ \/ /\ proc'[proc[h].run] = proc[proc[h].run]
                 /\ Queue!CancelActive(proc[h].run) \/ UNCHANGED queueVars
              \/ /\ proc'[proc[h].run] = Rest(proc[h].run)
                 /\ Queue!CancelWaiting(proc[h].run)
PROOF
  <1> DEFINE r == proc[h].run
             set == AfterDequeue(h)
  <1>1. /\ h \in Processes /\ h \notin Runs /\ HandlerShape(proc[h])
        /\ proc[h].pc = "dequeue" /\ r \in Runs /\ proc[h] \in ProcStates
    BY HandlerOf DEF Dequeue
  <1>2. proc[h].job = "cancel" /\ proc[h].scope = "outside" /\ r \in Processes /\ r # h
    BY <1>1, Names DEF HandlerShape, InHelper
  <1>3. "set" \in Helpers /\ "cancelled" \in Lifecycle!Statuses /\ "off" \in Continuations
    BY Names
  <1>4. /\ set \in ProcStates
        /\ set.pc = "read" /\ set.job = "cancel" /\ set.scope = "outside"
        /\ set.run = r /\ set.plan = proc[h].plan /\ set.op = "set"
        /\ set.goal = "cancelled" /\ set.next = "off"
    BY <1>1, <1>2, <1>3, CallState DEF AfterDequeue
  <1>5. \/ /\ Queue!CancelActive(r) \/ UNCHANGED queueVars
           /\ proc' = [proc EXCEPT ![h] = set]
        \/ /\ Queue!CancelWaiting(r)
           /\ proc' = [proc EXCEPT ![h] = set, ![r] = Rest(r)]
    BY DEF Dequeue
  <1>6. Rest(r) \in ProcStates /\ WorkerShape(r, Rest(r))
    BY <1>1, <1>2, RestState
  <1> HIDE DEF set
  <1>7. HandlerShape(set)
    <2> HIDE DEF r
    <2> QED BY <1>1, <1>4, RunsAreNoHandlers DEF HandlerShape, InHelper
  <1>8. CASE /\ Queue!CancelActive(r) \/ UNCHANGED queueVars
             /\ proc' = [proc EXCEPT ![h] = set]
    <2>1. ProcsOK' /\ Moved(h) /\ proc'[h] = set
      BY <1>4, <1>7, <1>8, HandlerMoves
    <2> QED BY <1>1, <1>2, <1>4, <1>8, <2>1 DEF Calls, SameWork, Moved
  <1>9. CASE /\ Queue!CancelWaiting(r)
             /\ proc' = [proc EXCEPT ![h] = set, ![r] = Rest(r)]
    <2>1. /\ ProcsOK' /\ proc'[h] = set /\ proc'[r] = Rest(r)
          /\ \A q \in Processes : q # h /\ q # r => proc'[q] = proc[q]
      <3>1. proc' = [proc EXCEPT ![h] = set, ![r] = Rest(r)]
        BY <1>9
      <3>2. r \in Runs /\ set \in ProcStates
        BY <1>1, <1>4
      <3> HIDE DEF r
      <3> QED BY <3>1, <3>2, <1>7, DropsEffect
    <2> QED BY <1>1, <1>2, <1>4, <1>9, <2>1 DEF Calls, SameWork
  <1> QED BY <1>5, <1>8, <1>9

(* A database error fails the run where it is caught and ends the process  *)
(* where it is not.                                                        *)
LEMMA DatabaseErrorEffect ==
    ASSUME Typed, NEW p \in Processes, DatabaseError(p)
    PROVE  /\ ProcsOK' /\ Moved(p)
           /\ \/ /\ p \in Runs /\ Caught(p)
                 /\ Calls(p, "fail", "failed", "handler")
                 /\ UNCHANGED queueVars
              \/ /\ p \in Handlers
                 /\ proc'[p] = Rest(p)
                 /\ UNCHANGED queueVars
              \/ Ends(p)
           /\ proc[p].run \in Runs
PROOF
  <1>1. proc[p].pc # "off" /\ proc[p].run \in Runs
    <2>1. proc[p].pc # "off"
      BY DEF DatabaseError, UsesDatabase
    <2> QED BY <2>1, StateOf, HandlerOf DEF WorkerShape
  <1>2. CASE Caught(p)
    <2>1. p \in Runs
      <3>1. proc[p].scope # "outside"
        BY <1>2 DEF Caught
      <3> QED BY <3>1, StateOf DEF HandlerShape
    <2>2. Fails(p) /\ UNCHANGED queueVars
      BY <1>2 DEF DatabaseError
    <2> QED BY <1>1, <1>2, <2>1, <2>2, FailsEffect
  <1>3. CASE ~Caught(p)
    <2>1. /\ proc' = [proc EXCEPT ![p] = Rest(p)]
          /\ IF p \in Runs THEN Queue!WorkEnds(p, "exception") ELSE UNCHANGED queueVars
      BY <1>3 DEF DatabaseError
    <2>2. "exception" \in QP!Outcomes
      BY DEF QP!Outcomes
    <2>3. p \in Runs => Ends(p)
      BY <2>1, <2>2, SameWorkEnds, RestMoves DEF Ends
    <2> QED BY <1>1, <2>1, <2>3, StateOf, RestMoves
  <1> QED BY <1>2, <1>3

(* A process that stops, and a new one.                                    *)
LEMMA AllRest ==
    ASSUME Typed, NEW S,
           proc' = [p \in Processes |-> IF p \in S THEN Rest(p) ELSE proc[p]]
    PROVE  ProcsOK'
PROOF
  <1>1. \A p \in Processes : proc'[p] \in ProcStates
    BY RestState DEF Typed, TypeOK
  <1>2. proc' \in [Processes -> ProcStates]
    BY <1>1
  <1>3. /\ \A r \in Runs : WorkerShape(r, proc'[r])
        /\ \A h \in Handlers : HandlerShape(proc'[h])
    BY Names, RestState DEF Typed, Shapes
  <1> QED BY <1>2, <1>3 DEF ProcsOK, Shapes

-----------------------------------------------------------------------------
(* Every step is a step of the queue, or leaves it alone.                  *)

LEMMA SameViews ==
    /\ Queue!Active = QP!Active /\ Queue!Waiting = QP!Waiting
    /\ Queue!HasSlot <=> QP!HasSlot
    /\ Queue!HasPlace <=> QP!HasPlace
    /\ \A r : Queue!Live(r) <=> QP!Live(r)
    /\ \A r : Queue!Duplicate(r) <=> QP!Duplicate(r)
PROOF
  <1>1. Queue!Active = QP!Active /\ Queue!Waiting = QP!Waiting
    BY DEF Queue!Active, QP!Active, Queue!Waiting, QP!Waiting, Queue!ToSet, QP!ToSet
  <1>2. \A S : Queue!Cardinality(S) = QP!Cardinality(S)
    BY DEF Queue!Cardinality, QP!Cardinality
  <1> QED BY <1>1, <1>2 DEF Queue!HasSlot, QP!HasSlot, Queue!HasPlace, QP!HasPlace,
                            Queue!Live, QP!Live, Queue!Duplicate, QP!Duplicate

LEMMA SameActions ==
    ASSUME NEW r
    PROVE  /\ Queue!SubmitStarts(r) => QP!SubmitStarts(r)
           /\ Queue!SubmitWaits(r) => QP!SubmitWaits(r)
           /\ Queue!Start(r) => QP!Start(r)
           /\ Queue!CancelActive(r) => QP!CancelActive(r)
           /\ Queue!CancelWaiting(r) => QP!CancelWaiting(r)
           /\ Queue!DeliverCancel(r) => QP!DeliverCancel(r)
PROOF
  <1>1. Queue!SubmitStarts(r) => QP!SubmitStarts(r)
    BY SameViews DEF Queue!SubmitStarts, QP!SubmitStarts
  <1>2. Queue!SubmitWaits(r) => QP!SubmitWaits(r)
    BY SameViews DEF Queue!SubmitWaits, QP!SubmitWaits, Queue!LineWith, QP!LineWith
  <1>3. Queue!Start(r) => QP!Start(r)
    BY DEF Queue!Start, QP!Start
  <1>4. Queue!CancelActive(r) => QP!CancelActive(r)
    BY SameViews DEF Queue!CancelActive, QP!CancelActive, Queue!Requests, QP!Requests
  <1>5. Queue!CancelWaiting(r) => QP!CancelWaiting(r)
    <2>1. \A s, i : Queue!RemoveAt(s, i) = QP!RemoveAt(s, i)
      BY DEF Queue!RemoveAt, QP!RemoveAt
    <2> QED BY SameViews, <2>1 DEF Queue!CancelWaiting, QP!CancelWaiting
  <1>6. Queue!DeliverCancel(r) => QP!DeliverCancel(r)
    BY DEF Queue!DeliverCancel, QP!DeliverCancel
  <1> QED BY <1>1, <1>2, <1>3, <1>4, <1>5, <1>6

LEMMA SameProcessActions ==
    /\ Queue!Init => QP!Init
    /\ Queue!Shutdown => QP!Shutdown
    /\ Queue!ShutdownReturns => QP!ShutdownReturns
    /\ Queue!Restart => QP!Restart
PROOF
  <1>1. Queue!Init => QP!Init
    BY DEF Queue!Init, QP!Init
  <1>2. Queue!Shutdown => QP!Shutdown
    BY SameViews DEF Queue!Shutdown, QP!Shutdown, Queue!FuturesDropped,
                     QP!FuturesDropped, Queue!LineDropped, QP!LineDropped
  <1>3. Queue!ShutdownReturns => QP!ShutdownReturns
    BY SameViews DEF Queue!ShutdownReturns, QP!ShutdownReturns,
                     Queue!Gathered, QP!Gathered
  <1>4. Queue!Restart => QP!Restart
    BY DEF Queue!Restart, QP!Restart
  <1> QED BY <1>1, <1>2, <1>3, <1>4

LEMMA QueueNext ==
    ASSUME QP!IInv, QP!Next \/ UNCHANGED queueVars
    PROVE  QP!IInv'
PROOF BY QP!NextIInv, ServiceAssumption DEF QP!vars, queueVars

(* How the queue and its workers fit together: a task whose work has not   *)
(* been called has a worker at rest with work to do.                       *)
Linked ==
    \A r \in Runs :
        QP!Ready(r) => /\ proc[r].pc = "off" /\ proc[r].scope = "outside"
                       /\ proc[r].job # "none"

Base == Typed /\ QP!IInv /\ Linked

(* What every step but a submission does to the tasks not yet called.      *)
Kept == \A r \in Runs : QP!Ready(r)' => QP!Ready(r) /\ proc'[r] = proc[r]

LEMMA KeptLinked ==
    ASSUME Base, Kept
    PROVE  Linked'
PROOF BY DEF Base, Kept, Linked

LEMMA QuietQueue ==
    ASSUME Base, NEW p \in Processes, Moved(p), UNCHANGED queueVars,
           p \in Runs => task[p] = "running"
    PROVE  Kept /\ QP!IInv'
PROOF
  <1>1. \A r \in Runs : QP!Ready(r)' <=> QP!Ready(r)
    BY DEF queueVars, QP!Ready, QP!Waiting
  <1>2. p \in Runs => ~QP!Ready(p)
    BY QP!RunningIsNotReady, ServiceAssumption DEF Base
  <1> QED BY <1>1, <1>2, Names, QueueNext DEF Kept, Moved, Base

LEMMA EndsQueue ==
    ASSUME Base, NEW r \in Runs, Moved(r), Ends(r)
    PROVE  Kept /\ QP!IInv'
PROOF
  <1>1. PICK outcome \in QP!Outcomes : QP!WorkEnds(r, outcome)
    BY DEF Ends
  <1>2. ~QP!Ready(r)' /\ QP!NoMoreReady(Runs)
    BY <1>1, QP!ReadyAfterEnd, ServiceAssumption DEF Base
  <1>3. QP!Next
    BY <1>1 DEF QP!Next
  <1> QED BY <1>2, <1>3, Names, QueueNext DEF Kept, Moved, Base, QP!NoMoreReady

-----------------------------------------------------------------------------
(* Base is an invariant.                                                   *)

RowsTyped ==
    /\ status \in [Runs -> Lifecycle!Statuses]
    /\ plan \in [Runs -> Plans \cup {NoPlan}]
    /\ report \in [Runs -> Plans \cup {NoPlan}]
    /\ usage \in [Keys -> 0..DailyLimit]
    /\ published \in [Runs -> Lifecycle!Statuses]
    /\ errors \in 0..MaxErrors
    /\ orphaned \subseteq Runs

LEMMA BaseParts ==
    /\ Base => Typed /\ RowsTyped /\ ProcsOK /\ QP!IInv /\ Linked
    /\ RowsTyped /\ ProcsOK /\ QP!IInv /\ Linked => Base
    /\ (RowsTyped /\ ProcsOK /\ QP!IInv /\ Linked => Base)'
PROOF BY DEF Base, Typed, TypeOK, RowsTyped, ProcsOK

LEMMA StepBase ==
    ASSUME Base, NEW p \in Processes, CanStep(p), ProcsOK', Moved(p), RowsTyped',
           UNCHANGED queueVars \/ Ends(p)
    PROVE  Base'
PROOF
  <1>1. p \in Runs => task[p] = "running"
    BY DEF CanStep
  <1>2. Kept /\ QP!IInv'
    BY <1>1, QuietQueue, EndsQueue DEF Ends
  <1> QED BY <1>2, KeptLinked, BaseParts

LEMMA HandlerCanStep ==
    ASSUME NEW h \in Handlers
    PROVE  CanStep(h) /\ h \in Processes
PROOF BY RunsAreNoHandlers, Names DEF CanStep

LEMMA SameRowsTyped ==
    ASSUME Base, UNCHANGED <<rowVars, usage, published, errorVars>>
    PROVE  RowsTyped'
PROOF BY BaseParts DEF RowsTyped, rowVars, errorVars

LEMMA WriteTyped ==
    ASSUME Base, NEW p \in Processes, proc[p].run \in Runs, Write(p)
    PROVE  /\ status' \in [Runs -> Lifecycle!Statuses]
           /\ plan' \in [Runs -> Plans \cup {NoPlan}]
           /\ report' \in [Runs -> Plans \cup {NoPlan}]
PROOF
  <1>1. /\ proc[p].goal \in Lifecycle!Statuses
        /\ proc[p].plan \in Plans \cup {NoPlan}
    BY StateOf, BaseParts DEF ProcStates
  <1> QED BY <1>1, BaseParts DEF Write, RowsTyped

LEMMA InterruptedTyped ==
    ASSUME Base, NEW r \in Runs, InterruptedWrite(r)
    PROVE  /\ status' \in [Runs -> Lifecycle!Statuses]
           /\ plan' \in [Runs -> Plans \cup {NoPlan}]
           /\ report' \in [Runs -> Plans \cup {NoPlan}]
PROOF
  <1>1. r \in Processes /\ proc[r].run = r
    BY StateOf, BaseParts, Names DEF WorkerShape
  <1>2. CASE UNCHANGED rowVars
    BY <1>2, BaseParts DEF RowsTyped, rowVars
  <1> QED BY <1>1, <1>2, WriteTyped DEF InterruptedWrite

LEMMA ReadBase ==
    ASSUME Base, NEW p \in Processes, Read(p)
    PROVE  Base'
PROOF
  <1>1. RowsTyped' /\ CanStep(p) /\ Typed /\ InHelper(proc[p])
    BY SameRowsTyped, BaseParts DEF Read, InHelper
  <1>2. ProcsOK' /\ Moved(p) /\ (Return(p) \/ UNCHANGED queueVars)
    BY <1>1, ReadEffect
  <1>3. UNCHANGED queueVars \/ Ends(p)
    BY <1>1, <1>2, ReturnEffect
  <1> QED BY <1>1, <1>2, <1>3, StepBase

LEMMA CommitBase ==
    ASSUME Base, NEW p \in Processes, Commit(p)
    PROVE  Base'
PROOF
  <1>1. Typed /\ CanStep(p) /\ UNCHANGED queueVars /\ Write(p)
    BY BaseParts DEF Commit
  <1>2. ProcsOK' /\ Moved(p) /\ proc[p].run \in Runs
    BY <1>1, CommitEffect
  <1>3. RowsTyped'
    BY <1>1, <1>2, WriteTyped, BaseParts DEF Commit, RowsTyped, errorVars
  <1> QED BY <1>1, <1>2, <1>3, StepBase

LEMMA PublishEffect ==
    ASSUME Typed, NEW p \in Processes, Publish(p)
    PROVE  proc[p].run \in Runs /\ InHelper(proc[p]) /\ Return(p)
PROOF BY StateOf, HandlerOf DEF Publish, InHelper, WorkerShape

LEMMA PublishBase ==
    ASSUME Base, NEW p \in Processes, Publish(p)
    PROVE  Base'
PROOF
  <1>1. Typed /\ CanStep(p)
    BY BaseParts DEF Publish
  <1>2. proc[p].run \in Runs /\ InHelper(proc[p]) /\ Return(p)
    BY <1>1, PublishEffect
  <1>3. ProcsOK' /\ Moved(p) /\ (UNCHANGED queueVars \/ Ends(p))
    BY <1>1, <1>2, ReturnEffect
  <1>4. RowsTyped'
    BY <1>2, BaseParts DEF Publish, Snapshot, RowsTyped, rowVars, errorVars
  <1> QED BY <1>1, <1>3, <1>4, StepBase

LEMMA StartBase ==
    ASSUME Base, NEW r \in Runs, Start(r)
    PROVE  /\ Base' /\ ProcsOK' /\ Moved(r) /\ StepsTo(r, "get")
PROOF
  <1>1. QP!Start(r) /\ QP!Ready(r)
    BY SameActions DEF Start, QP!Start, QP!Ready
  <1>2. proc[r].pc = "off" /\ proc[r].scope = "outside" /\ proc[r].job # "none"
    BY <1>1 DEF Base, Linked
  <1>3. ProcsOK' /\ Moved(r) /\ StepsTo(r, "get")
    BY <1>2, BaseParts, StartEffect
  <1>4. Kept
    <2>1. ~QP!Ready(r)' /\ QP!NoMoreReady(Runs)
      BY <1>1, QP!ReadyAfterStart, ServiceAssumption DEF Base
    <2> QED BY <1>3, <2>1, Names DEF Kept, Moved, QP!NoMoreReady
  <1>5. QP!IInv'
    BY <1>1, QueueNext DEF Base, QP!Next
  <1>6. RowsTyped'
    BY SameRowsTyped DEF Start
  <1> QED BY <1>3, <1>4, <1>5, <1>6, KeptLinked, BaseParts

(* The steps of a worker that write nothing.                               *)
LEMMA WorkBase ==
    ASSUME Base, NEW r \in Runs,
           \/ BeginPlanning(r) \/ BeginResearch(r) \/ GraphProgress(r)
           \/ PlanReady(r) \/ ReportReady(r) \/ GraphFails(r)
    PROVE  Base'
PROOF
  <1>1. Typed /\ CanStep(r) /\ RowsTyped' /\ r \in Processes
    BY SameRowsTyped, BaseParts, Names
       DEF BeginPlanning, BeginResearch, GraphProgress, PlanReady, ReportReady,
           GraphFails, InGraph
  <1>2. ProcsOK' /\ Moved(r) /\ (UNCHANGED queueVars \/ Ends(r))
    <2>1. CASE BeginPlanning(r)
      BY <1>1, <2>1, BeginPlanningEffect DEF BeginPlanning
    <2>2. CASE BeginResearch(r)
      BY <1>1, <2>2, BeginResearchEffect
    <2>3. CASE GraphProgress(r)
      BY <1>1, <2>3, GraphProgressEffect DEF GraphProgress
    <2>4. CASE PlanReady(r)
      BY <1>1, <2>4, PlanReadyEffect DEF PlanReady
    <2>5. CASE ReportReady(r)
      BY <1>1, <2>5, ReportReadyEffect DEF ReportReady
    <2>6. CASE GraphFails(r)
      BY <1>1, <2>6, FailsEffect DEF GraphFails, InGraph
    <2> QED BY <2>1, <2>2, <2>3, <2>4, <2>5, <2>6
  <1> QED BY <1>1, <1>2, StepBase

(* A timed-out worker is in its graph.                                     *)
LEMMA TimeoutEffect ==
    ASSUME Typed, NEW r \in Runs, Timeout(r)
    PROVE  ProcsOK' /\ Moved(r) /\ Calls(r, "fail", "failed", "handler")
PROOF
  <1>1. WorkerShape(r, proc[r]) /\ proc[r].scope = "graph"
    BY StateOf, Names DEF Timeout, Timed
  <1>2. proc[r].pc # "off"
    BY <1>1 DEF WorkerShape, InHelper
  <1> QED BY <1>2, FailsEffect DEF Timeout

LEMMA TimeoutBase ==
    ASSUME Base, NEW r \in Runs, Timeout(r)
    PROVE  Base'
PROOF
  <1>1. Typed /\ CanStep(r) /\ UNCHANGED queueVars /\ r \in Processes
    BY BaseParts, Names DEF Timeout
  <1>2. RowsTyped'
    BY InterruptedTyped, BaseParts DEF Timeout, RowsTyped, errorVars
  <1> QED BY <1>1, <1>2, TimeoutEffect, StepBase

LEMMA DeliverCancelBase ==
    ASSUME Base, NEW r \in Runs, DeliverCancel(r)
    PROVE  Base'
PROOF
  <1>1. Typed /\ r \in Processes
    BY BaseParts, Names
  <1>2. RowsTyped'
    BY InterruptedTyped, BaseParts DEF DeliverCancel, RowsTyped, errorVars
  <1>3. ProcsOK' /\ Moved(r) /\ (Queue!DeliverCancel(r) \/ Ends(r))
    BY <1>1, DeliverCancelEffect
  <1>4. Kept /\ QP!IInv'
    <2>1. CASE Queue!DeliverCancel(r)
      <3>1. QP!DeliverCancel(r)
        BY <2>1, SameActions
      <3>2. ~QP!Ready(r)' /\ QP!NoMoreReady(Runs)
        BY <3>1, QP!ReadyAfterDelivery, ServiceAssumption DEF Base
      <3>3. QP!IInv'
        BY <3>1, QueueNext DEF Base, QP!Next
      <3> QED BY <1>3, <3>2, <3>3, Names DEF Kept, Moved, QP!NoMoreReady
    <2>2. CASE Ends(r)
      BY <1>3, <2>2, EndsQueue
    <2> QED BY <1>3, <2>1, <2>2
  <1> QED BY <1>2, <1>3, <1>4, KeptLinked, BaseParts

LEMMA DatabaseErrorBase ==
    ASSUME Base, NEW p \in Processes, DatabaseError(p)
    PROVE  Base'
PROOF
  <1>1. Typed /\ CanStep(p)
    BY BaseParts DEF DatabaseError
  <1>2. ProcsOK' /\ Moved(p) /\ (UNCHANGED queueVars \/ Ends(p)) /\ proc[p].run \in Runs
    BY <1>1, DatabaseErrorEffect
  <1>3. RowsTyped'
    <2>1. errors' \in 0..MaxErrors
      BY BaseParts, ServiceAssumption DEF DatabaseError, RowsTyped
    <2>2. orphaned' \subseteq Runs
      BY <1>2, BaseParts DEF DatabaseError, RowsTyped
    <2> QED BY <2>1, <2>2, BaseParts DEF DatabaseError, RowsTyped, rowVars
  <1> QED BY <1>1, <1>2, <1>3, StepBase

LEMMA RequestBase ==
    ASSUME Base, NEW h \in Handlers, NEW r \in Runs,
           \/ CreateRequest(h, r) \/ CancelRequest(h, r)
           \/ \E pl \in Plans : ReviewRequest(h, r, pl)
    PROVE  Base'
PROOF
  <1>1. Typed /\ CanStep(h) /\ h \in Processes
    BY BaseParts, HandlerCanStep
  <1>2. CASE CreateRequest(h, r)
    <2>1. ProcsOK' /\ Moved(h) /\ UNCHANGED queueVars
      BY <1>1, <1>2, CreateEffect DEF CreateRequest
    <2>2. usage' \in [Keys -> 0..DailyLimit]
      <3>1. QuotaKey[r] \in Keys \cup {NoKey} /\ DailyLimit \in Nat
        BY ServiceAssumption
      <3>2. usage \in [Keys -> 0..DailyLimit]
        BY BaseParts DEF RowsTyped
      <3>3. usage' = Consumed(QuotaKey[r]) /\ WithinLimit(QuotaKey[r])
        BY <1>2 DEF CreateRequest
      <3> QED BY <3>1, <3>2, <3>3 DEF Consumed, WithinLimit
    <2>3. "queued" \in Lifecycle!Statuses
      BY Names
    <2>4. RowsTyped'
      BY <1>2, <2>2, <2>3, BaseParts DEF CreateRequest, RowsTyped, errorVars
    <2> QED BY <1>1, <2>1, <2>4, StepBase
  <1>3. CASE CancelRequest(h, r)
    BY <1>1, <1>3, CancelEffect, SameRowsTyped, StepBase DEF CancelRequest
  <1>4. CASE \E pl \in Plans : ReviewRequest(h, r, pl)
    BY <1>1, <1>4, ReviewEffect, SameRowsTyped, StepBase DEF ReviewRequest
  <1> QED BY <1>2, <1>3, <1>4

LEMMA RefusedBase ==
    ASSUME Base, NEW h \in Handlers, SubmitRefused(h) \/ SubmitDuplicate(h)
    PROVE  Base'
PROOF
  <1>1. Typed /\ CanStep(h) /\ h \in Processes
    BY BaseParts, HandlerCanStep
  <1>2. ProcsOK' /\ Moved(h) /\ UNCHANGED queueVars
    BY <1>1, RefusedEffect, DuplicateEffect DEF SubmitRefused, SubmitDuplicate
  <1>3. RowsTyped'
    BY SameRowsTyped DEF SubmitRefused, SubmitDuplicate
  <1> QED BY <1>1, <1>2, <1>3, StepBase

LEMMA RollbackBase ==
    ASSUME Base, NEW h \in Handlers, Rollback(h)
    PROVE  Base'
PROOF
  <1>1. Typed /\ CanStep(h) /\ h \in Processes
    BY BaseParts, HandlerCanStep
  <1>2. ProcsOK' /\ Moved(h) /\ UNCHANGED queueVars /\ proc[h].run \in Runs
    BY <1>1, RollbackEffect DEF Rollback, Leaves
  <1>3. usage' \in [Keys -> 0..DailyLimit]
    <2>1. QuotaKey[proc[h].run] \in Keys \cup {NoKey} /\ DailyLimit \in Nat
      BY <1>2, ServiceAssumption
    <2>2. usage \in [Keys -> 0..DailyLimit]
      BY BaseParts DEF RowsTyped
    <2>3. usage' = Refund(QuotaKey[proc[h].run])
      BY DEF Rollback
    <2> QED BY <2>1, <2>2, <2>3 DEF Refund
  <1>4. "absent" \in Lifecycle!Statuses
    BY Names
  <1>5. RowsTyped'
    BY <1>2, <1>3, <1>4, BaseParts DEF Rollback, RowsTyped, errorVars
  <1> QED BY <1>1, <1>2, <1>5, StepBase

LEMMA ConfirmBase ==
    ASSUME Base, NEW h \in Handlers, Confirm(h)
    PROVE  Base'
PROOF
  <1>1. Typed /\ CanStep(h) /\ h \in Processes
    BY BaseParts, HandlerCanStep
  <1>2. /\ ProcsOK' /\ Moved(h) /\ UNCHANGED queueVars
        /\ proc[h].run \in Runs /\ proc[h].plan \in Plans
    BY <1>1, ConfirmEffect DEF Confirm, Leaves
  <1>3. "researching" \in Lifecycle!Statuses
    BY Names
  <1>4. RowsTyped'
    BY <1>2, <1>3, BaseParts DEF Confirm, RowsTyped, errorVars
  <1> QED BY <1>1, <1>2, <1>4, StepBase

LEMMA AcceptedBase ==
    ASSUME Base, NEW h \in Handlers, SubmitAccepted(h)
    PROVE  Base'
PROOF
  <1> DEFINE r == proc[h].run
  <1>1. /\ r \in Runs /\ ProcsOK'
        /\ \A q \in Processes : q # h /\ q # r => proc'[q] = proc[q]
        /\ proc'[r].pc = "off" /\ proc'[r].scope = "outside" /\ proc'[r].job # "none"
    BY BaseParts, AcceptedEffect
  <1>2. QP!SubmitStarts(r) \/ QP!SubmitWaits(r)
    BY SameActions DEF SubmitAccepted
  <1>3. QP!IInv'
    BY <1>1, <1>2, QueueNext DEF Base, QP!Next
  <1>4. QP!NoMoreReady(Runs \ {r})
    BY <1>1, <1>2, QP!ReadyAfterSubmit, ServiceAssumption DEF Base
  <1>5. Linked'
    <2> SUFFICES ASSUME NEW q \in Runs, QP!Ready(q)'
                 PROVE  /\ proc'[q].pc = "off" /\ proc'[q].scope = "outside"
                        /\ proc'[q].job # "none"
      BY DEF Linked
    <2>1. CASE q = r
      BY <1>1, <2>1
    <2>2. CASE q # r
      <3>1. QP!Ready(q)
        BY <1>4, <2>2 DEF QP!NoMoreReady
      <3>2. proc'[q] = proc[q]
        BY <1>1, <2>2, Names, RunsAreNoHandlers
      <3> QED BY <3>1, <3>2 DEF Base, Linked
    <2> QED BY <2>1, <2>2
  <1>6. RowsTyped'
    BY SameRowsTyped DEF SubmitAccepted
  <1> QED BY <1>1, <1>3, <1>5, <1>6, BaseParts

LEMMA DequeueBase ==
    ASSUME Base, NEW h \in Handlers, Dequeue(h)
    PROVE  Base'
PROOF
  <1>0. PICK r \in Runs : r = proc[h].run
    BY HandlerOf, BaseParts DEF Dequeue
  <1>1. /\ ProcsOK'
        /\ \A q \in Processes : q # h /\ q # r => proc'[q] = proc[q]
        /\ \/ /\ proc'[r] = proc[r]
              /\ Queue!CancelActive(r) \/ UNCHANGED queueVars
           \/ Queue!CancelWaiting(r)
    BY <1>0, BaseParts, DequeueEffect
  <1>2. \A q \in Runs : q # r => proc'[q] = proc[q]
    BY <1>1, Names, RunsAreNoHandlers
  <1>3. CASE Queue!CancelActive(r) /\ proc'[r] = proc[r]
    <2>1. QP!CancelActive(r)
      BY <1>3, SameActions
    <2>2. Kept
      BY <1>2, <1>3, <2>1 DEF Kept, QP!CancelActive, QP!Ready, QP!Waiting
    <2>3. QP!IInv'
      BY <1>1, <2>1, QueueNext DEF Base, QP!Next
    <2> QED BY <1>1, <2>2, <2>3, KeptLinked, SameRowsTyped, BaseParts DEF Dequeue
  <1>4. CASE UNCHANGED queueVars /\ proc'[r] = proc[r]
    <2>1. Kept
      BY <1>2, <1>4 DEF Kept, queueVars, QP!Ready, QP!Waiting
    <2>2. QP!IInv'
      BY <1>4, QueueNext DEF Base
    <2> QED BY <1>1, <2>1, <2>2, KeptLinked, SameRowsTyped, BaseParts DEF Dequeue
  <1>5. CASE Queue!CancelWaiting(r)
    <2>1. QP!CancelWaiting(r)
      BY <1>5, SameActions
    <2>2. ~QP!Ready(r)' /\ QP!NoMoreReady(Runs)
      BY <1>1, <2>1, QP!ReadyAfterCancelWaiting, ServiceAssumption DEF Base
    <2>3. Kept
      BY <1>2, <2>2 DEF Kept, QP!NoMoreReady
    <2>4. QP!IInv'
      BY <1>1, <2>1, QueueNext DEF Base, QP!Next
    <2> QED BY <1>1, <2>3, <2>4, KeptLinked, SameRowsTyped, BaseParts DEF Dequeue
  <1> QED BY <1>1, <1>3, <1>4, <1>5

LEMMA ProcessBase ==
    ASSUME Base, Shutdown \/ ShutdownReturns \/ Restart
    PROVE  Base'
PROOF
  <1>1. CASE Shutdown
    <2>1. QP!Shutdown /\ Queue!Waiting = QP!Waiting
      BY <1>1, SameProcessActions, SameViews DEF Shutdown
    <2>2. proc' = [p \in Processes |-> IF p \in QP!Waiting THEN Rest(p) ELSE proc[p]]
      BY <1>1, <2>1 DEF Shutdown
    <2>3. ProcsOK'
      BY <2>2, AllRest, BaseParts
    <2>4. Kept
      <3>1. \A q \in Runs : QP!Ready(q)' => QP!Ready(q) /\ q \notin QP!Waiting
        BY <2>1, QP!ReadyAfterShutdown, ServiceAssumption DEF Base
      <3> QED BY <2>2, <3>1, Names DEF Kept
    <2>5. QP!IInv'
      BY <2>1, QueueNext DEF Base, QP!Next
    <2>6. RowsTyped'
      BY <1>1, SameRowsTyped DEF Shutdown
    <2> QED BY <2>3, <2>4, <2>5, <2>6, KeptLinked, BaseParts
  <1>2. CASE ShutdownReturns
    <2>1. QP!ShutdownReturns
      BY <1>2, SameProcessActions DEF ShutdownReturns
    <2>2. Kept
      BY <1>2, <2>1 DEF ShutdownReturns, Kept, QP!ShutdownReturns, QP!Ready, QP!Waiting
    <2>3. QP!IInv'
      BY <2>1, QueueNext DEF Base, QP!Next
    <2>4. ProcsOK'
      BY <1>2, BaseParts DEF ShutdownReturns, ProcsOK, Shapes
    <2> QED BY <1>2, <2>2, <2>3, <2>4, KeptLinked, SameRowsTyped, BaseParts
            DEF ShutdownReturns
  <1>3. CASE Restart
    <2>1. QP!Restart
      BY <1>3, SameProcessActions DEF Restart
    <2>2. ProcsOK'
      <3>1. proc' = [p \in Processes |-> IF p \in Processes THEN Rest(p) ELSE proc[p]]
        BY <1>3 DEF Restart
      <3> QED BY <3>1, AllRest, BaseParts
    <2>3. Linked'
      BY <2>1 DEF Linked, QP!Restart, QP!Ready, QP!Waiting, QP!ToSet
    <2>4. QP!IInv'
      BY <2>1, QueueNext DEF Base, QP!Next
    <2>5. RowsTyped'
      <3>1. \A s \in Lifecycle!Statuses : Recovered(s) \in Lifecycle!Statuses
        BY Names DEF Recovered
      <3> QED BY <1>3, <3>1, BaseParts, ServiceAssumption DEF Restart, RowsTyped
    <2> QED BY <2>2, <2>3, <2>4, <2>5, BaseParts
  <1> QED BY <1>1, <1>2, <1>3

LEMMA InitBase == Init => Base
PROOF
  <1> SUFFICES ASSUME Init PROVE Base
    OBVIOUS
  <1>1. RowsTyped
    <2>1. "absent" \in Lifecycle!Statuses /\ 0 \in 0..DailyLimit /\ 0 \in 0..MaxErrors
      BY Names, ServiceAssumption
    <2> QED BY <2>1 DEF Init, RowsTyped
  <1>2. ProcsOK
    BY RestState, Names DEF Init, ProcsOK, Shapes
  <1>3. QP!Init
    BY SameProcessActions DEF Init
  <1>4. QP!IInv
    BY <1>3, QP!InitIInv, ServiceAssumption
  <1>5. Linked
    BY <1>3 DEF Linked, QP!Init, QP!Ready, QP!Waiting, QP!ToSet
  <1> QED BY <1>1, <1>2, <1>4, <1>5, BaseParts

LEMMA NextBase == Base /\ [Next]_vars => Base'
PROOF
  <1> SUFFICES ASSUME Base, [Next]_vars PROVE Base'
    OBVIOUS
  <1>1. ASSUME NEW r \in Runs, Start(r) PROVE Base'
    BY <1>1, StartBase
  <1>2. ASSUME NEW r \in Runs,
               \/ BeginPlanning(r) \/ BeginResearch(r) \/ GraphProgress(r)
               \/ PlanReady(r) \/ ReportReady(r) \/ GraphFails(r)
        PROVE  Base'
    BY <1>2, WorkBase
  <1>3. ASSUME NEW r \in Runs, Timeout(r) \/ DeliverCancel(r) PROVE Base'
    BY <1>3, TimeoutBase, DeliverCancelBase
  <1>4. ASSUME NEW p \in Processes, HelperStep(p) \/ DatabaseError(p) PROVE Base'
    BY <1>4, ReadBase, CommitBase, PublishBase, DatabaseErrorBase DEF HelperStep
  <1>5. ASSUME NEW h \in Handlers, HandlerStep(h) PROVE Base'
    BY <1>5, AcceptedBase, RefusedBase, RollbackBase, ConfirmBase, DequeueBase
       DEF HandlerStep
  <1>6. ASSUME NEW h \in Handlers, NEW r \in Runs,
               \/ CreateRequest(h, r) \/ CancelRequest(h, r)
               \/ \E pl \in Plans : ReviewRequest(h, r, pl)
        PROVE  Base'
    BY <1>6, RequestBase
  <1>7. CASE Shutdown \/ ShutdownReturns \/ Restart
    BY <1>7, ProcessBase
  <1>8. CASE UNCHANGED vars
    <2>1. UNCHANGED queueVars
      BY <1>8 DEF vars
    <2>2. RowsTyped' /\ ProcsOK' /\ Linked'
      BY <1>8, BaseParts DEF vars, queueVars, rowVars, errorVars, RowsTyped, ProcsOK,
                             Shapes, Linked, QP!Ready, QP!Waiting
    <2> QED BY <2>1, <2>2, QueueNext, BaseParts DEF Base
  <1> QED BY <1>1, <1>2, <1>3, <1>4, <1>5, <1>6, <1>7, <1>8 DEF Next

(* Type correctness of the whole service: whatever the requests, workers   *)
(* and database errors do, every row and every process holds a value the   *)
(* code can give it, and no count exceeds the daily limit.                 *)
THEOREM TypeCorrect == Spec => []TypeOK
PROOF
  <1>1. Spec => []Base
    BY InitBase, NextBase, PTL DEF Spec
  <1>2. Base => TypeOK
    BY DEF Base, Typed
  <1> QED BY <1>1, <1>2, PTL

-----------------------------------------------------------------------------
(* The service uses the queue as the queue is specified.                   *)

LEMMA EndsIsQueueStep ==
    ASSUME NEW r \in Runs, Ends(r)
    PROVE  QP!Next
PROOF BY DEF Ends, QP!Next

LEMMA WorkerQueueStep ==
    ASSUME Base, NEW r \in Runs,
           \/ Start(r) \/ Timeout(r) \/ DeliverCancel(r)
           \/ BeginPlanning(r) \/ BeginResearch(r) \/ GraphProgress(r)
           \/ PlanReady(r) \/ ReportReady(r) \/ GraphFails(r)
    PROVE  QP!Next \/ UNCHANGED queueVars
PROOF
  <1>1. Typed
    BY BaseParts
  <1>2. CASE Start(r)
    <2>1. QP!Start(r)
      BY <1>2, SameActions DEF Start
    <2> QED BY <2>1 DEF QP!Next
  <1>3. CASE DeliverCancel(r)
    <2>1. Queue!DeliverCancel(r) \/ Ends(r)
      BY <1>1, <1>3, DeliverCancelEffect
    <2>2. QP!DeliverCancel(r) \/ Ends(r)
      BY <2>1, SameActions
    <2> QED BY <2>2, EndsIsQueueStep DEF QP!Next
  <1>4. CASE BeginResearch(r)
    BY <1>1, <1>4, BeginResearchEffect, EndsIsQueueStep
  <1>5. CASE \/ Timeout(r) \/ BeginPlanning(r) \/ GraphProgress(r)
             \/ PlanReady(r) \/ ReportReady(r) \/ GraphFails(r)
    <2>1. Timeout(r) \/ BeginPlanning(r) => UNCHANGED queueVars
      BY DEF Timeout, BeginPlanning
    <2>2. GraphProgress(r) => UNCHANGED queueVars
      BY DEF GraphProgress
    <2>3. PlanReady(r) => UNCHANGED queueVars
      <3>1. PlanReady(r) => UNCHANGED <<queueVars, rowVars, usage, published, errorVars>>
        BY Zenon DEF PlanReady
      <3> QED BY <3>1
    <2>4. ReportReady(r) \/ GraphFails(r) => UNCHANGED queueVars
      BY DEF ReportReady, GraphFails
    <2> QED BY <1>5, <2>1, <2>2, <2>3, <2>4
  <1> QED BY <1>2, <1>3, <1>4, <1>5

LEMMA HelperQueueStep ==
    ASSUME Base, NEW p \in Processes, HelperStep(p) \/ DatabaseError(p)
    PROVE  QP!Next \/ UNCHANGED queueVars
PROOF
  <1>1. Typed
    BY BaseParts
  <1>2. CASE Read(p)
    <2>1. InHelper(proc[p])
      BY <1>2 DEF Read, InHelper
    <2>2. Return(p) \/ UNCHANGED queueVars
      BY <1>1, <1>2, ReadEffect
    <2> QED BY <1>1, <2>1, <2>2, ReturnEffect, EndsIsQueueStep DEF Ends
  <1>3. CASE Commit(p)
    BY <1>3 DEF Commit
  <1>4. CASE Publish(p)
    <2>1. InHelper(proc[p]) /\ Return(p)
      BY <1>1, <1>4, PublishEffect
    <2> QED BY <1>1, <2>1, ReturnEffect, EndsIsQueueStep DEF Ends
  <1>5. CASE DatabaseError(p)
    BY <1>1, <1>5, DatabaseErrorEffect, EndsIsQueueStep DEF Ends
  <1> QED BY <1>2, <1>3, <1>4, <1>5 DEF HelperStep

LEMMA HandlerQueueStep ==
    ASSUME Base, NEW h \in Handlers, HandlerStep(h)
    PROVE  QP!Next \/ UNCHANGED queueVars
PROOF
  <1>1. PICK r \in Runs : proc[h].pc # "off" => r = proc[h].run
    BY HandlerOf, BaseParts DEF HandlerStep, SubmitAccepted, SubmitRefused,
       SubmitDuplicate, Rollback, Confirm, Dequeue
  <1>2. CASE SubmitAccepted(h)
    <2>1. Queue!SubmitStarts(r) \/ Queue!SubmitWaits(r)
      BY <1>1, <1>2 DEF SubmitAccepted
    <2>2. QP!SubmitStarts(r) \/ QP!SubmitWaits(r)
      BY <2>1, SameActions
    <2> QED BY <2>2 DEF QP!Next
  <1>3. CASE Dequeue(h)
    <2>1. Queue!CancelActive(r) \/ Queue!CancelWaiting(r) \/ UNCHANGED queueVars
      BY <1>1, <1>3 DEF Dequeue
    <2>2. QP!CancelActive(r) \/ QP!CancelWaiting(r) \/ UNCHANGED queueVars
      BY <2>1, SameActions
    <2> QED BY <2>2 DEF QP!Next
  <1>4. CASE SubmitRefused(h) \/ SubmitDuplicate(h) \/ Rollback(h) \/ Confirm(h)
    BY <1>4 DEF SubmitRefused, SubmitDuplicate, Rollback, Confirm
  <1> QED BY <1>2, <1>3, <1>4 DEF HandlerStep

(* A step of the service is a step of the queue or leaves it alone.        *)
LEMMA QueueStep == Base /\ [Next]_vars => [QP!Next]_queueVars
PROOF
  <1> SUFFICES ASSUME Base, [Next]_vars PROVE QP!Next \/ UNCHANGED queueVars
    OBVIOUS
  <1>1. ASSUME NEW h \in Handlers, NEW r \in Runs,
               \/ CreateRequest(h, r) \/ CancelRequest(h, r)
               \/ \E pl \in Plans : ReviewRequest(h, r, pl)
        PROVE  UNCHANGED queueVars
    <2>1. CreateRequest(h, r) => UNCHANGED queueVars
      BY DEF CreateRequest
    <2>2. CancelRequest(h, r) => UNCHANGED queueVars
      BY DEF CancelRequest
    <2>3. \A pl \in Plans : ReviewRequest(h, r, pl) => UNCHANGED queueVars
      BY DEF ReviewRequest
    <2> QED BY <1>1, <2>1, <2>2, <2>3
  <1>2. CASE Shutdown \/ ShutdownReturns \/ Restart
    <2>1. QP!Shutdown \/ QP!ShutdownReturns \/ QP!Restart
      BY <1>2, SameProcessActions DEF Shutdown, ShutdownReturns, Restart
    <2> QED BY <2>1 DEF QP!Next
  <1>3. CASE UNCHANGED vars
    BY <1>3 DEF vars
  <1> QED BY <1>1, <1>2, <1>3, WorkerQueueStep, HelperQueueStep, HandlerQueueStep DEF Next

(* The service implements the queue it was composed with: with all that    *)
(* workers, requests and database errors do to it, the five variables of   *)
(* BoundedTaskQueue change by the steps of its own methods and of the      *)
(* event loop only, and from its own initial state.                        *)
THEOREM UsesQueue == Spec => QP!Spec
PROOF
  <1>1. Init => QP!Init
    BY SameProcessActions DEF Init
  <1>2. Base /\ [Next]_vars => [QP!Next]_(QP!vars)
    BY QueueStep DEF QP!vars, queueVars
  <1> QED BY <1>1, <1>2, InitBase, NextBase, PTL DEF Spec, QP!Spec

(* What the queue promises its callers holds where it is used: no run is   *)
(* in the queue twice, the limits hold, no slot is idle while a run waits, *)
(* no future is lost, and runs are started in the order they were taken.   *)
THEOREM QueuePromisesKept ==
    Spec => /\ [](/\ QP!CapacityBound /\ QP!AdmittedOnce /\ QP!WorkConserving
                  /\ QP!FutureMatchesAdmission /\ QP!ShutdownIsComplete)
            /\ QP!NoOvertaking
PROOF
  <1>1. QP!Spec => []QP!CapacityBound
    BY QP!Capacity, ServiceAssumption
  <1>2. QP!Spec => []QP!AdmittedOnce
    BY QP!NoDoubleAdmission, ServiceAssumption
  <1>3. QP!Spec => []QP!WorkConserving
    BY QP!NoIdleSlot, ServiceAssumption
  <1>4. QP!Spec => []QP!FutureMatchesAdmission
    BY QP!FuturesMatch, ServiceAssumption
  <1>5. QP!Spec => []QP!ShutdownIsComplete
    BY QP!ShutdownComplete, ServiceAssumption
  <1>6. QP!Spec => QP!NoOvertaking
    BY QP!FirstComeFirstServed, ServiceAssumption
  <1> QED BY <1>1, <1>2, <1>3, <1>4, <1>5, <1>6, UsesQueue, PTL

-----------------------------------------------------------------------------
(* What holds of a row and of everybody who works on it.                   *)

(* The planning worker has not stored its plan yet, nor the research       *)
(* worker its report; neither is on its way out with an error.             *)
PlanPending(r) ==
    /\ proc[r].job = "planning"
    /\ proc[r].scope # "handler"
    /\ ~(proc[r].op = "plan" /\ proc[r].pc = "publish")

ReportPending(r) ==
    /\ proc[r].job = "research"
    /\ proc[r].scope # "handler"
    /\ ~(proc[r].op = "report" /\ proc[r].pc = "publish")

(* Request h has confirmed the review of r and not submitted it yet.       *)
Confirmed(h, r) ==
    /\ proc[h].run = r /\ proc[h].job = "review"
    /\ proc[h].pc \in {"submit", "read", "commit"}

(* The statuses after a review.                                            *)
Reviewed ==
    {"researching", "writing", "verifying", "completed", "failed", "cancelled"}

NoRow(r) ==
    status[r] = "absent" =>
        /\ plan[r] = NoPlan /\ report[r] = NoPlan
        /\ proc[r].job = "none"
        /\ \A h \in Handlers : proc[h].run # r

Creation(r) ==
    \A h \in Handlers :
        proc[h].run = r /\ proc[h].job = "create" =>
            /\ status[r] = "queued"
            /\ plan[r] = NoPlan /\ report[r] = NoPlan
            /\ proc[r].job = "none"
            /\ \A g \in Handlers : proc[g].run = r => g = h

Planning(r) ==
    /\ proc[r].job = "planning" => report[r] = NoPlan
    /\ PlanPending(r) =>
          /\ plan[r] = NoPlan
          /\ status[r] \in {"queued", "planning", "cancelled"}
          /\ \A h \in Handlers : proc[h].run = r => proc[h].job = "cancel"

Confirmation(r) ==
    \A h \in Handlers :
        Confirmed(h, r) =>
            /\ proc[h].plan = plan[r] /\ report[r] = NoPlan
            /\ proc[r].job # "research"
            /\ status[r] \in Reviewed
            /\ \A g \in Handlers : Confirmed(g, r) => g = h

(* With no database error only a run without report fails; and the report  *)
(* is written by a worker that did not find the run completed.             *)
Research(r) ==
    proc[r].job = "research" =>
        /\ proc[r].plan = plan[r]
        /\ status[r] \in Reviewed
        /\ ReportPending(r) => report[r] = NoPlan
        /\ proc[r].op = "fail" /\ errors = 0 => report[r] = NoPlan
        /\ proc[r].op = "report" /\ proc[r].pc = "commit" =>
              proc[r].seen # "completed"

Outcome(r) ==
    /\ report[r] # NoPlan => report[r] = plan[r]
    /\ status[r] = "completed" => report[r] # NoPlan
    /\ status[r] \in {"waiting_for_review", "researching", "writing",
                        "verifying", "completed"} => plan[r] # NoPlan
    /\ status[r] \in InProgress \cup {"absent", "waiting_for_review"}
          => report[r] = NoPlan
    /\ status[r] = "failed" /\ errors = 0 => report[r] = NoPlan

RowInv(r) ==
    /\ NoRow(r) /\ Creation(r) /\ Planning(r)
    /\ Confirmation(r) /\ Research(r) /\ Outcome(r)

RowsInv == \A r \in Runs : RowInv(r)

-----------------------------------------------------------------------------
(* Steps that do not touch the row of r.                                   *)

SameRow(r) ==
    status'[r] = status[r] /\ plan'[r] = plan[r] /\ report'[r] = report[r]

ErrorsKept == errors' = 0 => errors = 0

HandlerKeeps(h, r) ==
    proc'[h].run = r =>
        /\ proc[h].run = r
        /\ proc'[h].job = proc[h].job
        /\ proc'[h].plan = proc[h].plan
        /\ Confirmed(h, r)' => Confirmed(h, r)

WorkerKeeps(r) ==
    \/ proc'[r].job = "none"
    \/ /\ proc'[r].job = proc[r].job
       /\ proc[r].job = "research" => proc'[r].plan = proc[r].plan
       /\ PlanPending(r)' => PlanPending(r)
       /\ ReportPending(r)' => ReportPending(r)
       /\ proc'[r].op = "fail" /\ errors' = 0 =>
             proc[r].op = "fail" \/ ReportPending(r) \/ proc[r].job # "research"
       /\ proc'[r].op = "report" /\ proc'[r].pc = "commit" /\ proc[r].job = "research" =>
             proc'[r].seen # "completed"

LEMMA FrameRow ==
    ASSUME NEW r \in Runs, RowInv(r), SameRow(r), ErrorsKept,
           \A h \in Handlers : HandlerKeeps(h, r), WorkerKeeps(r)
    PROVE  RowInv(r)'
PROOF
  <1>1. NoRow(r)'
    BY DEF RowInv, NoRow, SameRow, HandlerKeeps, WorkerKeeps
  <1>2. Creation(r)'
    <2> SUFFICES ASSUME NEW h \in Handlers, proc'[h].run = r, proc'[h].job = "create"
                 PROVE  /\ status'[r] = "queued"
                        /\ plan'[r] = NoPlan /\ report'[r] = NoPlan
                        /\ proc'[r].job = "none"
                        /\ \A g \in Handlers : proc'[g].run = r => g = h
      BY DEF Creation
    <2>1. proc[h].run = r /\ proc[h].job = "create"
      BY DEF HandlerKeeps
    <2>2. /\ status[r] = "queued" /\ plan[r] = NoPlan /\ report[r] = NoPlan
          /\ proc[r].job = "none"
          /\ \A g \in Handlers : proc[g].run = r => g = h
      BY <2>1 DEF RowInv, Creation
    <2> QED BY <2>2 DEF SameRow, HandlerKeeps, WorkerKeeps
  <1>3. Planning(r)'
    <2>1. CASE proc'[r].job = "none"
      BY <2>1 DEF Planning, PlanPending
    <2>2. CASE proc'[r].job # "none"
      <3>1. proc'[r].job = proc[r].job /\ (PlanPending(r)' => PlanPending(r))
        BY <2>2 DEF WorkerKeeps
      <3>2. proc'[r].job = "planning" => report'[r] = NoPlan
        BY <3>1 DEF RowInv, Planning, SameRow
      <3>3. ASSUME PlanPending(r)'
            PROVE  /\ plan'[r] = NoPlan
                   /\ status'[r] \in {"queued", "planning", "cancelled"}
                   /\ \A h \in Handlers : proc'[h].run = r => proc'[h].job = "cancel"
        <4>1. PlanPending(r)
          BY <3>1, <3>3
        <4> QED BY <4>1 DEF RowInv, Planning, SameRow, HandlerKeeps
      <3> QED BY <3>2, <3>3 DEF Planning
    <2> QED BY <2>1, <2>2
  <1>4. Confirmation(r)'
    <2> SUFFICES ASSUME NEW h \in Handlers, Confirmed(h, r)'
                 PROVE  /\ proc'[h].plan = plan'[r] /\ report'[r] = NoPlan
                        /\ proc'[r].job # "research"
                        /\ status'[r] \in Reviewed
                        /\ \A g \in Handlers : Confirmed(g, r)' => g = h
      BY DEF Confirmation
    <2>1. \A g \in Handlers : Confirmed(g, r)' => Confirmed(g, r) /\ proc'[g].plan = proc[g].plan
      BY DEF HandlerKeeps, Confirmed
    <2>2. /\ proc[h].plan = plan[r] /\ report[r] = NoPlan
          /\ proc[r].job # "research"
          /\ status[r] \in Reviewed
          /\ \A g \in Handlers : Confirmed(g, r) => g = h
      BY <2>1 DEF RowInv, Confirmation
    <2> QED BY <2>1, <2>2 DEF SameRow, WorkerKeeps
  <1>5. Research(r)'
    <2>1. CASE proc'[r].job = "none"
      BY <2>1 DEF Research
    <2>2. CASE proc'[r].job # "none"
      BY <2>2 DEF RowInv, Research, WorkerKeeps, SameRow, ErrorsKept
    <2> QED BY <2>1, <2>2
  <1>6. Outcome(r)'
    BY DEF RowInv, Outcome, SameRow, ErrorsKept
  <1> QED BY <1>1, <1>2, <1>3, <1>4, <1>5, <1>6 DEF RowInv

(* A worker or request that stays as it is keeps everything.               *)
LEMMA SameKeeps ==
    ASSUME NEW r \in Runs, RowInv(r)
    PROVE  /\ proc'[r] = proc[r] => WorkerKeeps(r)
           /\ \A h \in Handlers : proc'[h] = proc[h] => HandlerKeeps(h, r)
PROOF
  <1>1. proc'[r] = proc[r] => WorkerKeeps(r)
    <2> SUFFICES ASSUME proc'[r] = proc[r] PROVE WorkerKeeps(r)
      OBVIOUS
    <2>1. (PlanPending(r)' <=> PlanPending(r)) /\ (ReportPending(r)' <=> ReportPending(r))
      BY DEF PlanPending, ReportPending
    <2> QED BY <2>1 DEF WorkerKeeps, RowInv, Research
  <1>2. \A h \in Handlers : proc'[h] = proc[h] => HandlerKeeps(h, r)
    BY DEF HandlerKeeps, Confirmed
  <1> QED BY <1>1, <1>2

(* Only the row of r and those who work on it may change.                  *)
LEMMA OthersKeep ==
    ASSUME RowsInv, NEW r \in Runs, ErrorsKept,
           \A q \in Runs : q # r => SameRow(q) /\ proc'[q] = proc[q],
           \A h \in Handlers : proc'[h] = proc[h] \/ proc'[h].run \in {r, NoRun},
           RowInv(r)'
    PROVE  RowsInv'
PROOF
  <1> SUFFICES ASSUME NEW q \in Runs, q # r
               PROVE  RowInv(q)'
    BY DEF RowsInv
  <1>1. RowInv(q)
    BY DEF RowsInv
  <1>2. \A h \in Handlers : HandlerKeeps(h, q)
    <2> SUFFICES ASSUME NEW h \in Handlers PROVE HandlerKeeps(h, q)
      OBVIOUS
    <2>1. CASE proc'[h] = proc[h]
      BY <1>1, <2>1, SameKeeps
    <2>2. CASE proc'[h].run \in {r, NoRun}
      BY <2>2, RunsAreNoHandlers DEF HandlerKeeps
    <2> QED BY <2>1, <2>2
  <1>3. WorkerKeeps(q)
    BY <1>1, SameKeeps
  <1> QED BY <1>1, <1>2, <1>3, FrameRow

LEMMA WorkerFrame ==
    ASSUME RowsInv, NEW r \in Runs, Moved(r), WorkerKeeps(r), ErrorsKept,
           UNCHANGED rowVars
    PROVE  RowsInv'
PROOF
  <1>1. /\ \A q \in Runs : SameRow(q) /\ (q # r => proc'[q] = proc[q])
        /\ \A h \in Handlers : proc'[h] = proc[h]
    BY Names, RunsAreNoHandlers DEF Moved, SameRow, rowVars
  <1>2. RowInv(r)
    BY DEF RowsInv
  <1>3. RowInv(r)'
    BY <1>1, <1>2, SameKeeps, FrameRow
  <1> QED BY <1>1, <1>3, OthersKeep

LEMMA HandlerFrame ==
    ASSUME RowsInv, NEW h \in Handlers, Moved(h), ErrorsKept, UNCHANGED rowVars,
           \A r \in Runs : HandlerKeeps(h, r)
    PROVE  RowsInv'
PROOF
  <1> SUFFICES ASSUME NEW r \in Runs PROVE RowInv(r)'
    BY DEF RowsInv
  <1>1. /\ SameRow(r) /\ proc'[r] = proc[r]
        /\ \A g \in Handlers : g # h => proc'[g] = proc[g]
    BY Names, RunsAreNoHandlers DEF Moved, SameRow, rowVars
  <1>2. RowInv(r)
    BY DEF RowsInv
  <1>3. WorkerKeeps(r) /\ \A g \in Handlers : HandlerKeeps(g, r)
    BY <1>1, <1>2, SameKeeps
  <1> QED BY <1>1, <1>2, <1>3, FrameRow

-----------------------------------------------------------------------------
(* The steps of workers keep RowsInv.                                      *)

(* A worker that is over keeps everything.                                 *)
LEMMA EndsKeeps ==
    ASSUME NEW r \in Runs, proc'[r] = Rest(r)
    PROVE  WorkerKeeps(r)
PROOF BY DEF WorkerKeeps, Rest

(* A new helper, called in the scope the worker is in or in its handler.   *)
LEMMA CallKeeps ==
    ASSUME NEW r \in Runs, NEW op, NEW goal, NEW scope,
           Calls(r, op, goal, scope), proc[r].pc # "publish",
           scope = "handler" \/ proc[r].scope # "handler",
           op = "fail" => errors' # 0 \/ ReportPending(r) \/ proc[r].job # "research"
    PROVE  WorkerKeeps(r)
PROOF BY DEF Calls, SameWork, WorkerKeeps, PlanPending, ReportPending

(* The same from any place, when the call is the last one of the worker.   *)
LEMMA LastCallKeeps ==
    ASSUME NEW r \in Runs, NEW op, NEW goal,
           Calls(r, op, goal, "handler"),
           op = "fail" => errors' # 0 \/ ReportPending(r) \/ proc[r].job # "research"
    PROVE  WorkerKeeps(r)
PROOF BY DEF Calls, SameWork, WorkerKeeps, PlanPending, ReportPending

LEMMA ReturnKeeps ==
    ASSUME Typed, NEW r \in Runs, InHelper(proc[r]), Return(r)
    PROVE  WorkerKeeps(r)
PROOF
  <1>1. r \in Processes /\ r \notin Handlers /\ WorkerShape(r, proc[r])
    BY Names, RunsAreNoHandlers, StateOf
  <1>2. \/ /\ proc[r].next = "graph" /\ SameWork(r) /\ SameCall(r)
           /\ proc'[r].pc = "graph" /\ proc'[r].scope = "graph"
        \/ Ends(r)
    BY <1>1, ReturnEffect
  <1>3. CASE /\ proc[r].next = "graph" /\ SameWork(r) /\ SameCall(r)
             /\ proc'[r].pc = "graph" /\ proc'[r].scope = "graph"
    <2>1. proc[r].op = "set" /\ proc[r].scope # "handler"
      <3>1. proc[r].scope \in Scopes
        BY <1>1, StateOf DEF ProcStates
      <3> QED BY <1>1, <1>3, <3>1 DEF WorkerShape, InHelper, Scopes
    <2> QED BY <1>3, <2>1
            DEF SameWork, SameCall, WorkerKeeps, PlanPending, ReportPending
  <1>4. CASE Ends(r)
    BY <1>4, EndsKeeps DEF Ends
  <1> QED BY <1>2, <1>3, <1>4

LEMMA WorkerReadRows ==
    ASSUME Base, RowsInv, NEW r \in Runs, Read(r)
    PROVE  RowsInv'
PROOF
  <1>1. /\ Typed /\ r \in Processes /\ proc[r].pc = "read" /\ InHelper(proc[r])
        /\ UNCHANGED rowVars /\ ErrorsKept /\ RowInv(r)
    BY BaseParts, Names DEF Read, InHelper, ErrorsKept, errorVars, RowsInv
  <1>2. Moved(r)
    BY <1>1, ReadEffect
  <1>3. WorkerKeeps(r)
    <2>1. CASE Return(r)
      BY <1>1, <2>1, ReturnKeeps
    <2>2. CASE /\ StepsTo(r, "commit")
               /\ proc'[r].seen = status[proc[r].run]
      <3>1. proc[r].run = r
        BY <1>1, StateOf DEF WorkerShape
      <3>2. ReportPending(r) => status[r] # "completed"
        BY <1>1 DEF RowInv, Research, Outcome, ReportPending
      <3>3. proc[r].op = "report" /\ proc[r].job = "research" => ReportPending(r)
        BY <1>1, StateOf DEF WorkerShape, ReportPending
      <3> QED BY <1>1, <2>2, <3>1, <3>2, <3>3
              DEF StepsTo, SameWork, SameCall, WorkerKeeps, PlanPending, ReportPending
    <2> QED BY <1>1, <2>1, <2>2, ReadEffect
  <1> QED BY <1>1, <1>2, <1>3, WorkerFrame

LEMMA WorkerPublishRows ==
    ASSUME Base, RowsInv, NEW r \in Runs, Publish(r)
    PROVE  RowsInv'
PROOF
  <1>1. Typed /\ r \in Processes /\ UNCHANGED rowVars /\ ErrorsKept
    BY BaseParts, Names DEF Publish, ErrorsKept, errorVars
  <1>2. InHelper(proc[r]) /\ Return(r)
    BY <1>1, PublishEffect
  <1>3. Moved(r)
    BY <1>1, <1>2, ReturnEffect
  <1> QED BY <1>1, <1>2, <1>3, ReturnKeeps, WorkerFrame

LEMMA StartRows ==
    ASSUME Base, RowsInv, NEW r \in Runs, Start(r)
    PROVE  RowsInv'
PROOF
  <1>1. Moved(r) /\ StepsTo(r, "get") /\ UNCHANGED rowVars /\ ErrorsKept
    BY StartBase DEF Start, ErrorsKept, errorVars
  <1>2. proc[r].pc = "off"
    <2>1. QP!Ready(r)
      BY SameActions DEF Start, QP!Start, QP!Ready
    <2> QED BY <2>1 DEF Base, Linked
  <1>3. RowInv(r)
    BY DEF RowsInv
  <1>4. WorkerKeeps(r)
    BY <1>1, <1>2 DEF StepsTo, SameWork, SameCall, WorkerKeeps, PlanPending, ReportPending
  <1> QED BY <1>1, <1>4, WorkerFrame

LEMMA WorkRows ==
    ASSUME Base, RowsInv, NEW r \in Runs,
           \/ BeginPlanning(r) \/ BeginResearch(r) \/ GraphProgress(r)
           \/ PlanReady(r) \/ ReportReady(r) \/ GraphFails(r)
    PROVE  RowsInv'
PROOF
  <1>1. Typed /\ UNCHANGED rowVars /\ ErrorsKept /\ RowInv(r) /\ r \in Processes
    BY BaseParts, Names
       DEF BeginPlanning, BeginResearch, GraphProgress, PlanReady, ReportReady,
           GraphFails, ErrorsKept, errorVars, RowsInv
  <1>2. WorkerShape(r, proc[r]) /\ proc[r].scope \in Scopes
    BY <1>1, StateOf DEF ProcStates
  <1>3. proc[r].pc \in {"get", "graph"} => proc[r].scope \in {"outside", "graph"}
    BY <1>2 DEF WorkerShape, InHelper, Scopes
  <1>4. Moved(r) /\ WorkerKeeps(r)
    <2>1. CASE BeginPlanning(r)
      <3>1. Moved(r) /\ Calls(r, "set", "planning", "outside")
        BY <1>1, <2>1, BeginPlanningEffect
      <3>2. proc[r].pc = "get"
        BY <2>1 DEF BeginPlanning
      <3> QED BY <1>3, <3>1, <3>2, CallKeeps
    <2>2. CASE BeginResearch(r)
      <3>1. /\ Moved(r)
            /\ \/ /\ SameWork(r) /\ SameCall(r)
                  /\ proc'[r].pc = "graph" /\ proc'[r].scope = "graph"
               \/ Ends(r)
        BY <1>1, <2>2, BeginResearchEffect
      <3>2. proc[r].pc = "get"
        BY <2>2 DEF BeginResearch
      <3>3. CASE /\ SameWork(r) /\ SameCall(r)
                 /\ proc'[r].pc = "graph" /\ proc'[r].scope = "graph"
        BY <1>3, <3>1, <3>2, <3>3
           DEF SameWork, SameCall, WorkerKeeps, PlanPending, ReportPending
      <3> QED BY <3>1, <3>3, EndsKeeps DEF Ends
    <2>3. CASE GraphProgress(r)
      <3>1. Moved(r) /\ \E stage \in Stages(proc[r].job) : Calls(r, "set", stage, "graph")
        BY <1>1, <2>3, GraphProgressEffect
      <3>2. proc[r].pc = "graph"
        BY <2>3 DEF GraphProgress, InGraph
      <3> QED BY <1>3, <3>1, <3>2, CallKeeps
    <2>4. CASE PlanReady(r)
      <3>1. /\ Moved(r) /\ proc'[r].job = proc[r].job
            /\ proc'[r].pc = "read" /\ proc'[r].op = "plan" /\ proc'[r].scope = "try"
        BY <1>1, <2>4, PlanReadyEffect
      <3>2. proc[r].pc = "graph" /\ proc[r].job = "planning"
        BY <2>4 DEF PlanReady, InGraph
      <3> QED BY <1>3, <3>1, <3>2 DEF WorkerKeeps, PlanPending, ReportPending
    <2>5. CASE ReportReady(r)
      <3>1. Moved(r) /\ Calls(r, "report", "completed", "try")
        BY <1>1, <2>5, ReportReadyEffect
      <3>2. proc[r].pc = "graph"
        BY <2>5 DEF ReportReady, InGraph
      <3> QED BY <1>3, <3>1, <3>2, CallKeeps
    <2>6. CASE GraphFails(r)
      <3>1. proc[r].pc = "graph" /\ Fails(r)
        BY <2>6 DEF GraphFails, InGraph
      <3>2. Moved(r) /\ Calls(r, "fail", "failed", "handler")
        BY <1>1, <3>1, FailsEffect
      <3>3. proc[r].job = "research" => ReportPending(r)
        BY <1>3, <3>1 DEF ReportPending
      <3> QED BY <3>2, <3>3, LastCallKeeps
    <2> QED BY <2>1, <2>2, <2>3, <2>4, <2>5, <2>6
  <1> QED BY <1>1, <1>4, WorkerFrame

-----------------------------------------------------------------------------
(* What workers write.                                                     *)

(* A worker that has written goes on to publish, or, if it has been        *)
(* interrupted, to its exception handler or to its end.                    *)
WroteThen(r) ==
    \/ proc'[r].job = "none"
    \/ /\ proc'[r].job = proc[r].job /\ proc'[r].plan = proc[r].plan
       /\ proc'[r].pc # "commit"
       /\ \/ /\ proc'[r].pc = "publish" /\ proc'[r].op = proc[r].op
             /\ proc'[r].scope = proc[r].scope
          \/ /\ proc'[r].scope = "handler"
             /\ proc'[r].op = "fail" => proc[r].scope = "graph"

SetsTo(r, s) == status'[r] \in {status[r], s}

LEMMA WriteKinds ==
    ASSUME Base, NEW r \in Runs, proc[r].pc = "commit", Write(r)
    PROVE  \/ /\ PlanPending(r) /\ proc[r].op = "set"
              /\ SetsTo(r, "planning") /\ plan' = plan /\ report' = report
           \/ /\ ReportPending(r) /\ proc[r].op = "set"
              /\ \E stage \in {"researching", "writing", "verifying"} : SetsTo(r, stage)
              /\ plan' = plan /\ report' = report
           \/ /\ PlanPending(r) /\ proc[r].op = "plan" /\ proc[r].scope = "try"
              /\ SetsTo(r, "waiting_for_review")
              /\ plan'[r] \in Plans /\ report' = report
           \/ /\ ReportPending(r) /\ proc[r].op = "report" /\ proc[r].scope = "try"
              /\ proc[r].seen # "completed" => status'[r] = "completed"
              /\ plan' = plan /\ report'[r] = proc[r].plan
              /\ proc[r].plan \in Plans
           \/ /\ proc[r].scope = "handler" /\ proc[r].op = "fail"
              /\ SetsTo(r, "failed") /\ plan' = plan /\ report' = report
              /\ proc[r].job \in {"planning", "research"}
           \/ /\ proc[r].scope = "handler" /\ proc[r].op = "set"
              /\ SetsTo(r, "cancelled") /\ plan' = plan /\ report' = report
              /\ proc[r].job \in {"planning", "research"}
PROOF
  <1>1. /\ WorkerShape(r, proc[r]) /\ proc[r].scope \in Scopes
        /\ proc[r].run = r
        /\ proc[r].job \in {"planning", "research"}
    BY BaseParts, StateOf, Names DEF WorkerShape, ProcStates
  <1>2. /\ status \in [Runs -> Lifecycle!Statuses]
        /\ plan \in [Runs -> Plans \cup {NoPlan}]
        /\ report \in [Runs -> Plans \cup {NoPlan}]
    BY BaseParts DEF RowsTyped
  <1>3. /\ SetsTo(r, proc[r].goal)
        /\ proc[r].goal # proc[r].seen => status'[r] = proc[r].goal
    BY <1>1, <1>2 DEF Write, SetsTo
  <1>4. /\ proc[r].op # "plan" => plan' = plan
        /\ proc[r].op # "report" => report' = report
        /\ proc[r].op = "plan" => plan'[r] = proc[r].plan
        /\ proc[r].op = "report" => report'[r] = proc[r].plan
    BY <1>1, <1>2 DEF Write
  <1>5. CASE proc[r].scope = "outside"
    <2>1. proc[r].job = "planning" /\ proc[r].op = "set" /\ proc[r].goal = "planning"
      BY <1>1, <1>5 DEF WorkerShape
    <2> QED BY <1>3, <1>4, <1>5, <2>1 DEF PlanPending
  <1>6. CASE proc[r].scope = "graph"
    <2>1. proc[r].op = "set" /\ proc[r].goal \in Stages(proc[r].job)
      BY <1>1, <1>6 DEF WorkerShape
    <2>2. CASE proc[r].job = "planning"
      BY <1>3, <1>4, <1>6, <2>1, <2>2 DEF PlanPending, Stages
    <2>3. CASE proc[r].job = "research"
      <3>1. proc[r].goal \in {"researching", "writing", "verifying"}
        BY <2>1, <2>3 DEF Stages
      <3>2. ReportPending(r)
        BY <1>6, <2>1, <2>3 DEF ReportPending
      <3> QED BY <1>3, <1>4, <2>1, <3>1, <3>2
    <2> QED BY <1>1, <2>2, <2>3
  <1>7. CASE proc[r].scope = "try"
    <2>1. \/ /\ proc[r].job = "planning" /\ proc[r].op = "plan"
             /\ proc[r].goal = "waiting_for_review" /\ proc[r].plan \in Plans
          \/ /\ proc[r].job = "research" /\ proc[r].op = "report"
             /\ proc[r].goal = "completed" /\ proc[r].plan \in Plans
      BY <1>1, <1>7 DEF WorkerShape
    <2>2. CASE proc[r].op = "plan"
      BY <1>3, <1>4, <1>7, <2>1, <2>2 DEF PlanPending
    <2>3. CASE proc[r].op = "report"
      BY <1>3, <1>4, <1>7, <2>1, <2>3 DEF ReportPending
    <2> QED BY <2>1, <2>2, <2>3
  <1>8. CASE proc[r].scope = "handler"
    <2>1. \/ proc[r].op = "fail" /\ proc[r].goal = "failed"
          \/ proc[r].op = "set" /\ proc[r].goal = "cancelled"
      BY <1>1, <1>8 DEF WorkerShape
    <2>2. plan' = plan /\ report' = report
      BY <1>4, <2>1
    <2> QED BY <1>1, <1>3, <1>8, <2>1, <2>2
  <1> QED BY <1>1, <1>5, <1>6, <1>7, <1>8 DEF Scopes

HandlersStay == \A h \in Handlers : proc'[h] = proc[h]

(* A planning worker reports its stage or stores its plan.                 *)
LEMMA PlanningWrites ==
    ASSUME NEW r \in Runs, RowInv(r), PlanPending(r), HandlersStay, WroteThen(r),
           report'[r] = report[r],
           \/ proc[r].op = "set" /\ SetsTo(r, "planning") /\ plan'[r] = plan[r]
           \/ /\ proc[r].op = "plan" /\ proc[r].scope = "try"
              /\ SetsTo(r, "waiting_for_review") /\ plan'[r] \in Plans
    PROVE  RowInv(r)'
PROOF
  <1>1. /\ report'[r] = NoPlan /\ plan[r] = NoPlan
        /\ status[r] \in {"queued", "planning", "cancelled"}
        /\ \A h \in Handlers : proc'[h].run = r => proc'[h].job = "cancel"
        /\ proc'[r].job \in {"none", "planning"}
    BY DEF RowInv, Planning, PlanPending, HandlersStay, WroteThen
  <1>2. status'[r] \in {"queued", "planning", "cancelled", "waiting_for_review"}
    BY <1>1 DEF SetsTo
  <1>3. NoRow(r)'
    BY <1>2 DEF NoRow
  <1>4. Creation(r)'
    BY <1>1 DEF Creation
  <1>5. Planning(r)'
    <2>1. ASSUME PlanPending(r)'
          PROVE  plan'[r] = NoPlan /\ status'[r] \in {"queued", "planning", "cancelled"}
      <3>1. proc[r].op # "plan"
        BY <2>1 DEF PlanPending, WroteThen
      <3> QED BY <1>1, <3>1 DEF SetsTo
    <2> QED BY <1>1, <2>1 DEF Planning
  <1>6. Confirmation(r)'
    BY <1>1 DEF Confirmation, Confirmed
  <1>7. Research(r)'
    BY <1>1 DEF Research
  <1>8. Outcome(r)'
    <2>1. status'[r] = "waiting_for_review" => plan'[r] # NoPlan
      BY <1>1, ServiceAssumption DEF SetsTo
    <2> QED BY <1>1, <1>2, <2>1 DEF Outcome
  <1> QED BY <1>3, <1>4, <1>5, <1>6, <1>7, <1>8 DEF RowInv

(* A research worker reports its stage or stores its report.               *)
LEMMA ResearchWrites ==
    ASSUME NEW r \in Runs, RowInv(r), ReportPending(r), HandlersStay, WroteThen(r),
           plan'[r] = plan[r], proc[r].plan \in Plans, errors' = errors,
           proc[r].pc = "commit",
           \/ /\ proc[r].op = "set" /\ report'[r] = report[r]
              /\ \E stage \in {"researching", "writing", "verifying"} : SetsTo(r, stage)
           \/ /\ proc[r].op = "report" /\ proc[r].scope = "try"
              /\ proc[r].seen # "completed" => status'[r] = "completed"
              /\ report'[r] = proc[r].plan
    PROVE  RowInv(r)'
PROOF
  <1>1. /\ plan'[r] = proc[r].plan /\ plan'[r] # NoPlan
        /\ report[r] = NoPlan /\ status[r] \in Reviewed
        /\ proc[r].op = "report" => proc[r].seen # "completed"
        /\ proc[r].job = "research"
    BY ServiceAssumption DEF RowInv, Research, ReportPending
  <1>2. proc'[r].job \in {"none", "research"}
    BY <1>1 DEF WroteThen
  <1>3. /\ \A h \in Handlers : proc'[h].run = r => proc'[h].job # "create"
        /\ \A h \in Handlers : ~Confirmed(h, r)'
    BY <1>1 DEF RowInv, Creation, Confirmation, Confirmed, HandlersStay
  <1>4. /\ status'[r] \in Reviewed
        /\ \/ report'[r] = NoPlan /\ status'[r] # "completed"
           \/ report'[r] = plan'[r] /\ status'[r] = "completed"
    <2>1. status[r] # "completed"
      BY <1>1 DEF RowInv, Outcome
    <2> QED BY <1>1, <2>1 DEF SetsTo, Reviewed
  <1>5. NoRow(r)' /\ Creation(r)' /\ Planning(r)' /\ Confirmation(r)'
    BY <1>2, <1>3, <1>4 DEF NoRow, Creation, Planning, PlanPending, Confirmation, Reviewed
  <1>6. Research(r)'
    <2>1. CASE proc[r].op = "set"
      <3>1. report'[r] = NoPlan
        BY <1>1, <2>1
      <3> QED BY <1>1, <1>2, <1>4, <2>1, <3>1 DEF Research, WroteThen
    <2>2. CASE proc[r].op = "report"
      <3>1. ~ReportPending(r)'
        BY <2>2 DEF ReportPending, WroteThen
      <3>2. proc'[r].job = "research" =>
              proc'[r].op # "fail" /\ proc'[r].pc # "commit" /\ proc'[r].plan = proc[r].plan
        BY <2>2 DEF WroteThen
      <3> QED BY <1>1, <1>4, <3>1, <3>2 DEF Research
    <2> QED BY <2>1, <2>2
  <1>7. Outcome(r)'
    BY <1>1, <1>4 DEF Outcome, Reviewed, InProgress, Lifecycle!InProgress
  <1> QED BY <1>5, <1>6, <1>7 DEF RowInv

(* An exception handler marks the run as failed or cancelled.              *)
LEMMA HandlerWrites ==
    ASSUME NEW r \in Runs, RowInv(r), HandlersStay, WroteThen(r), errors' = errors,
           proc[r].scope = "handler", proc[r].job \in {"planning", "research"},
           plan'[r] = plan[r], report'[r] = report[r],
           \/ proc[r].op = "fail" /\ SetsTo(r, "failed")
           \/ proc[r].op = "set" /\ SetsTo(r, "cancelled")
    PROVE  RowInv(r)'
PROOF
  <1>1. status'[r] \in {status[r], "failed", "cancelled"} /\ status[r] # "absent"
    BY DEF SetsTo, RowInv, NoRow
  <1>2. proc'[r].job \in {"none", proc[r].job}
        /\ (proc'[r].job # "none" => proc'[r].scope = "handler" /\ proc'[r].pc # "commit")
    BY DEF WroteThen
  <1>3. proc'[r].op = "fail" /\ proc'[r].job # "none" => proc[r].op = "fail"
    BY DEF WroteThen
  <1>4. NoRow(r)'
    BY <1>1 DEF NoRow
  <1>5. Creation(r)'
    BY DEF RowInv, Creation, HandlersStay
  <1>6. Planning(r)'
    BY <1>2 DEF RowInv, Planning, PlanPending
  <1>7. Confirmation(r)'
    <2> SUFFICES ASSUME NEW h \in Handlers, Confirmed(h, r)'
                 PROVE  /\ proc'[h].plan = plan'[r] /\ report'[r] = NoPlan
                        /\ proc'[r].job # "research"
                        /\ status'[r] \in Reviewed
                        /\ \A g \in Handlers : Confirmed(g, r)' => g = h
      BY DEF Confirmation
    <2>1. \A g \in Handlers : Confirmed(g, r)' <=> Confirmed(g, r)
      BY DEF HandlersStay, Confirmed
    <2>2. /\ proc[h].plan = plan[r] /\ report[r] = NoPlan
          /\ proc[r].job # "research"
          /\ status[r] \in Reviewed
          /\ \A g \in Handlers : Confirmed(g, r) => g = h
      BY <2>1 DEF RowInv, Confirmation
    <2>3. status'[r] \in Reviewed
      BY <1>1, <2>2 DEF Reviewed
    <2> QED BY <1>2, <2>1, <2>2, <2>3 DEF HandlersStay
  <1>8. Research(r)'
    <2> SUFFICES ASSUME proc'[r].job = "research" PROVE Research(r)'
      BY DEF Research
    <2>1. proc[r].job = "research" /\ proc'[r].plan = proc[r].plan
      BY <1>2 DEF WroteThen
    <2>2. status'[r] \in Reviewed /\ proc[r].plan = plan[r]
      BY <1>1, <2>1 DEF RowInv, Research, Reviewed
    <2>3. proc'[r].op = "fail" /\ errors' = 0 => report'[r] = NoPlan
      BY <1>3, <2>1 DEF RowInv, Research
    <2>4. ~ReportPending(r)'
      BY <1>2, <2>1 DEF ReportPending
    <2> QED BY <1>2, <2>1, <2>2, <2>3, <2>4 DEF Research
  <1>9. Outcome(r)'
    <2>1. SetsTo(r, "failed") /\ proc[r].op = "fail" /\ errors = 0 => report[r] = NoPlan
      BY DEF RowInv, Planning, Research
    <2>2. \/ status'[r] = status[r]
          \/ status'[r] = "failed" /\ proc[r].op = "fail"
          \/ status'[r] = "cancelled"
      BY DEF SetsTo
    <2>3. CASE status'[r] = status[r]
      BY <2>3 DEF RowInv, Outcome
    <2>4. CASE status'[r] = "failed" /\ proc[r].op = "fail"
      BY <2>1, <2>4 DEF RowInv, Outcome, SetsTo, InProgress, Lifecycle!InProgress
    <2>5. CASE status'[r] = "cancelled"
      BY <2>5 DEF RowInv, Outcome, InProgress, Lifecycle!InProgress
    <2> QED BY <2>2, <2>3, <2>4, <2>5
  <1> QED BY <1>4, <1>5, <1>6, <1>7, <1>8, <1>9 DEF RowInv

LEMMA WorkerWrites ==
    ASSUME Base, RowsInv, NEW r \in Runs, proc[r].pc = "commit", Write(r),
           Moved(r), WroteThen(r), errors' = errors
    PROVE  RowsInv'
PROOF
  <1>1. HandlersStay /\ \A q \in Runs : q # r => proc'[q] = proc[q]
    BY Names, RunsAreNoHandlers DEF Moved, HandlersStay
  <1>2. RowInv(r) /\ ErrorsKept
    BY DEF RowsInv, ErrorsKept
  <1>3. \A q \in Runs : q # r => SameRow(q)
    <2>1. proc[r].run = r
      BY BaseParts, StateOf, Names DEF WorkerShape
    <2> QED BY <2>1, BaseParts DEF Write, SameRow, RowsTyped
  <1>4. proc[r].job = "research" => proc[r].plan \in Plans
    BY BaseParts, StateOf, Names DEF WorkerShape
  <1>5. RowInv(r)'
    BY <1>1, <1>2, <1>4, WriteKinds, PlanningWrites, ResearchWrites, HandlerWrites
       DEF ReportPending
  <1> QED BY <1>1, <1>2, <1>3, <1>5, OthersKeep DEF HandlersStay

(* An interrupted worker, with or without a write on its way.              *)
LEMMA InterruptedRows ==
    ASSUME Base, RowsInv, NEW r \in Runs, InterruptedWrite(r), Moved(r),
           WroteThen(r), WorkerKeeps(r), errors' = errors
    PROVE  RowsInv'
PROOF
  <1>1. CASE UNCHANGED rowVars
    BY <1>1, WorkerFrame DEF ErrorsKept
  <1>2. CASE proc[r].pc = "commit" /\ Write(r)
    BY <1>2, WorkerWrites
  <1> QED BY <1>1, <1>2 DEF InterruptedWrite

LEMMA WorkerCommitRows ==
    ASSUME Base, RowsInv, NEW r \in Runs, Commit(r)
    PROVE  RowsInv'
PROOF
  <1>1. proc[r].pc = "commit" /\ Write(r) /\ errors' = errors
    BY DEF Commit, errorVars
  <1>2. Moved(r) /\ StepsTo(r, "publish")
    BY BaseParts, Names, CommitEffect
  <1>3. WroteThen(r)
    BY <1>2 DEF StepsTo, SameWork, SameCall, WroteThen
  <1> QED BY <1>1, <1>2, <1>3, WorkerWrites

LEMMA TimeoutRows ==
    ASSUME Base, RowsInv, NEW r \in Runs, Timeout(r)
    PROVE  RowsInv'
PROOF
  <1>1. /\ InterruptedWrite(r) /\ errors' = errors /\ proc[r].scope = "graph"
        /\ WorkerShape(r, proc[r])
    BY BaseParts, StateOf, Names DEF Timeout, Timed, errorVars
  <1>2. Moved(r) /\ Calls(r, "fail", "failed", "handler")
    BY BaseParts, TimeoutEffect
  <1>3. WroteThen(r)
    BY <1>1, <1>2 DEF Calls, SameWork, WroteThen
  <1>4. proc[r].job = "research" => ReportPending(r)
    BY <1>1 DEF WorkerShape, InHelper, ReportPending
  <1>5. WorkerKeeps(r)
    BY <1>2, <1>4, LastCallKeeps
  <1> QED BY <1>1, <1>2, <1>3, <1>5, InterruptedRows

LEMMA DeliverCancelRows ==
    ASSUME Base, RowsInv, NEW r \in Runs, DeliverCancel(r)
    PROVE  RowsInv'
PROOF
  <1>1. InterruptedWrite(r) /\ errors' = errors
    BY DEF DeliverCancel, errorVars
  <1>2. /\ Moved(r)
        /\ Calls(r, "set", "cancelled", "handler") \/ proc'[r] = Rest(r)
    BY BaseParts, DeliverCancelEffect DEF Ends
  <1>3. CASE Calls(r, "set", "cancelled", "handler")
    <2>1. WroteThen(r)
      BY <1>3 DEF Calls, SameWork, WroteThen
    <2>2. WorkerKeeps(r)
      BY <1>3, LastCallKeeps
    <2> QED BY <1>1, <1>2, <2>1, <2>2, InterruptedRows
  <1>4. CASE proc'[r] = Rest(r)
    <2>1. WroteThen(r)
      BY <1>4 DEF Rest, WroteThen
    <2> QED BY <1>1, <1>2, <1>4, <2>1, EndsKeeps, InterruptedRows
  <1> QED BY <1>2, <1>3, <1>4

-----------------------------------------------------------------------------
(* The steps of requests keep RowsInv.                                     *)

LEMMA LeavesKeeps ==
    ASSUME NEW h \in Handlers, NEW r \in Runs, proc'[h] = Rest(h)
    PROVE  HandlerKeeps(h, r)
PROOF BY RunsAreNoHandlers DEF Rest, HandlerKeeps

LEMMA HandlerReadRows ==
    ASSUME Base, RowsInv, NEW h \in Handlers, Read(h) \/ Publish(h)
    PROVE  RowsInv'
PROOF
  <1>1. /\ h \in Processes /\ h \notin Runs /\ Typed
        /\ UNCHANGED rowVars /\ ErrorsKept
    BY BaseParts, HandlerOf DEF Read, Publish, ErrorsKept, errorVars
  <1>2. InHelper(proc[h])
    BY DEF Read, Publish, InHelper
  <1>3. /\ Moved(h)
        /\ proc'[h] = Rest(h) \/ (proc[h].pc = "read" /\ StepsTo(h, "commit"))
    <2>1. CASE Return(h)
      BY <1>1, <1>2, <2>1, ReturnEffect DEF Ends
    <2>2. CASE Read(h) /\ ~Return(h)
      BY <1>1, <2>2, ReadEffect DEF Read
    <2> QED BY <2>1, <2>2 DEF Publish
  <1>4. \A r \in Runs : HandlerKeeps(h, r)
    BY <1>3, LeavesKeeps DEF HandlerKeeps, StepsTo, SameWork, Confirmed
  <1> QED BY <1>1, <1>3, <1>4, HandlerFrame

LEMMA RefusedRows ==
    ASSUME Base, RowsInv, NEW h \in Handlers, SubmitRefused(h) \/ SubmitDuplicate(h)
    PROVE  RowsInv'
PROOF
  <1>1. UNCHANGED rowVars /\ ErrorsKept /\ Typed /\ proc[h].pc = "submit"
    BY BaseParts DEF SubmitRefused, SubmitDuplicate, ErrorsKept, errorVars
  <1>2. /\ Moved(h) /\ SameWork(h)
        /\ proc[h].job = "review" \/ proc'[h].job = "create"
    BY <1>1, RefusedEffect, DuplicateEffect DEF StepsTo, Calls, SameWork
  <1>3. \A r \in Runs : HandlerKeeps(h, r)
    BY <1>1, <1>2 DEF HandlerKeeps, SameWork, Confirmed
  <1> QED BY <1>1, <1>2, <1>3, HandlerFrame

LEMMA DequeueRows ==
    ASSUME Base, RowsInv, NEW h \in Handlers, Dequeue(h)
    PROVE  RowsInv'
PROOF
  <1>1. PICK r \in Runs : r = proc[h].run
    BY BaseParts, HandlerOf DEF Dequeue
  <1>2. /\ proc[h].job = "cancel" /\ SameWork(h)
        /\ \A q \in Processes : q # h /\ q # r => proc'[q] = proc[q]
        /\ proc'[r] = proc[r] \/ proc'[r] = Rest(r)
        /\ UNCHANGED rowVars /\ ErrorsKept
    BY <1>1, BaseParts, DequeueEffect DEF Calls, Dequeue, ErrorsKept, errorVars
  <1>3. \A q \in Runs : SameRow(q)
    BY <1>2 DEF SameRow, rowVars
  <1>4. RowInv(r)
    BY DEF RowsInv
  <1>5. /\ \A g \in Handlers : g # h => proc'[g] = proc[g]
        /\ \A q \in Runs : q # r => proc'[q] = proc[q]
    BY <1>2, Names, RunsAreNoHandlers
  <1>6. HandlerKeeps(h, r)
    BY <1>2 DEF HandlerKeeps, SameWork, Confirmed
  <1>7. WorkerKeeps(r) /\ \A g \in Handlers : HandlerKeeps(g, r)
    BY <1>2, <1>4, <1>5, <1>6, SameKeeps, EndsKeeps
  <1>8. RowInv(r)'
    BY <1>2, <1>3, <1>4, <1>7, FrameRow
  <1>9. \A g \in Handlers : proc'[g] = proc[g] \/ proc'[g].run \in {r, NoRun}
    BY <1>1, <1>2, <1>5 DEF SameWork
  <1> QED BY <1>2, <1>3, <1>5, <1>8, <1>9, OthersKeep

LEMMA DatabaseErrorRows ==
    ASSUME Base, RowsInv, NEW p \in Processes, DatabaseError(p)
    PROVE  RowsInv'
PROOF
  <1>1. /\ Typed /\ UNCHANGED rowVars
        /\ errors' # 0 /\ ErrorsKept
    <2>1. errors' = errors + 1 /\ errors \in 0..MaxErrors /\ MaxErrors \in Nat
      BY BaseParts, ServiceAssumption DEF DatabaseError, RowsTyped
    <2> QED BY <2>1, BaseParts DEF DatabaseError, ErrorsKept
  <1>2. /\ Moved(p)
        /\ \/ p \in Runs /\ Calls(p, "fail", "failed", "handler")
           \/ p \in Handlers /\ proc'[p] = Rest(p)
           \/ p \in Runs /\ proc'[p] = Rest(p)
    BY <1>1, DatabaseErrorEffect DEF Ends
  <1>3. CASE p \in Runs /\ Calls(p, "fail", "failed", "handler")
    BY <1>1, <1>2, <1>3, LastCallKeeps, WorkerFrame
  <1>4. CASE p \in Runs /\ proc'[p] = Rest(p)
    BY <1>1, <1>2, <1>4, EndsKeeps, WorkerFrame
  <1>5. CASE p \in Handlers /\ proc'[p] = Rest(p)
    BY <1>1, <1>2, <1>5, LeavesKeeps, HandlerFrame
  <1> QED BY <1>2, <1>3, <1>4, <1>5

(* A request marks its run as failed, if it could not submit a confirmed   *)
(* review, or as cancelled.                                                *)
LEMMA HandlerCommitRows ==
    ASSUME Base, RowsInv, NEW h \in Handlers, Commit(h)
    PROVE  RowsInv'
PROOF
  <1>1. PICK r \in Runs : r = proc[h].run
    BY BaseParts, HandlerOf DEF Commit
  <1>2. /\ h \in Processes /\ HandlerShape(proc[h]) /\ proc[h].pc = "commit"
        /\ Write(h) /\ errors' = errors
    BY BaseParts, HandlerOf DEF Commit, errorVars
  <1>3. Moved(h) /\ SameWork(h) /\ proc'[h].pc = "publish"
    BY <1>2, BaseParts, CommitEffect DEF StepsTo
  <1>4. \/ proc[h].job = "review" /\ proc[h].op = "fail" /\ proc[h].goal = "failed"
        \/ proc[h].job = "cancel" /\ proc[h].op = "set" /\ proc[h].goal = "cancelled"
    BY <1>2 DEF HandlerShape, InHelper
  <1>5. /\ SetsTo(r, proc[h].goal) /\ plan' = plan /\ report' = report
        /\ \A q \in Runs : q # r => SameRow(q)
    BY <1>1, <1>2, <1>4, BaseParts DEF Write, SetsTo, SameRow, RowsTyped
  <1>6. /\ \A g \in Handlers : g # h => proc'[g] = proc[g]
        /\ \A q \in Runs : proc'[q] = proc[q]
    BY <1>3, Names, RunsAreNoHandlers DEF Moved
  <1>7. RowInv(r)
    BY DEF RowsInv
  <1>8. /\ status[r] # "absent" /\ status'[r] # "absent"
        /\ proc[h].job = "review" => Confirmed(h, r)
    <2>1. status[r] # "absent"
      BY <1>1, <1>7 DEF RowInv, NoRow
    <2> QED BY <1>1, <1>2, <1>4, <1>5, <2>1 DEF SetsTo, Confirmed
  <1>9. \A g \in Handlers :
           /\ proc'[g].run = proc[g].run /\ proc'[g].job = proc[g].job
           /\ proc'[g].plan = proc[g].plan
           /\ Confirmed(g, r)' => Confirmed(g, r)
    BY <1>3, <1>6 DEF SameWork, Confirmed
  <1>10. NoRow(r)'
    BY <1>8 DEF NoRow
  <1>11. Creation(r)'
    <2>1. \A g \in Handlers : proc[g].run = r => proc[g].job # "create"
      BY <1>1, <1>4, <1>7 DEF RowInv, Creation
    <2> QED BY <1>9, <2>1 DEF Creation
  <1>12. Planning(r)'
    <2>1. PlanPending(r)' <=> PlanPending(r)
      BY <1>6 DEF PlanPending
    <2>2. PlanPending(r) => proc[h].job = "cancel"
      BY <1>1, <1>7 DEF RowInv, Planning
    <2> QED BY <1>4, <1>5, <1>6, <1>7, <1>9, <2>1, <2>2
            DEF RowInv, Planning, SetsTo
  <1>13. Confirmation(r)'
    <2>1. status[r] \in Reviewed => status'[r] \in Reviewed
      BY <1>4, <1>5 DEF SetsTo, Reviewed
    <2> QED BY <1>5, <1>6, <1>7, <1>9, <2>1 DEF RowInv, Confirmation
  <1>14. Research(r)'
    <2>1. status[r] \in Reviewed => status'[r] \in Reviewed
      BY <1>4, <1>5 DEF SetsTo, Reviewed
    <2>2. ReportPending(r)' <=> ReportPending(r)
      BY <1>6 DEF ReportPending
    <2> QED BY <1>2, <1>5, <1>6, <1>7, <2>1, <2>2 DEF RowInv, Research
  <1>15. Outcome(r)'
    <2>1. proc[h].job = "review" => report[r] = NoPlan
      BY <1>7, <1>8 DEF RowInv, Confirmation
    <2>2. CASE status'[r] = status[r]
      BY <1>2, <1>5, <1>7, <2>2 DEF RowInv, Outcome
    <2>3. CASE status'[r] = "failed" /\ proc[h].job = "review"
      BY <1>5, <1>7, <2>1, <2>3 DEF RowInv, Outcome
    <2>4. CASE status'[r] = "cancelled"
      BY <1>5, <1>7, <2>4 DEF RowInv, Outcome, InProgress, Lifecycle!InProgress
    <2> QED BY <1>4, <1>5, <2>2, <2>3, <2>4 DEF SetsTo
  <1>16. RowInv(r)'
    BY <1>10, <1>11, <1>12, <1>13, <1>14, <1>15 DEF RowInv
  <1> QED BY <1>1, <1>2, <1>3, <1>5, <1>6, <1>16, OthersKeep DEF SameWork, ErrorsKept

(* A run is created where there was no row and nobody at work on it.       *)
LEMMA CreateRows ==
    ASSUME Base, RowsInv, NEW h \in Handlers, NEW r \in Runs, CreateRequest(h, r)
    PROVE  RowsInv'
PROOF
  <1>1. /\ Moved(h) /\ proc'[h].job = "create" /\ proc'[h].run = r
        /\ ErrorsKept
    <2>1. ErrorsKept
      BY DEF CreateRequest, ErrorsKept, errorVars
    <2> QED BY <2>1, BaseParts, CreateEffect
  <1>2. /\ status'[r] = "queued" /\ plan' = plan /\ report' = report
        /\ status[r] = "absent"
        /\ \A q \in Runs : q # r => SameRow(q)
    BY BaseParts DEF CreateRequest, SameRow, RowsTyped
  <1>3. /\ \A g \in Handlers : g # h => proc'[g] = proc[g]
        /\ \A q \in Runs : proc'[q] = proc[q]
    BY <1>1, Names, RunsAreNoHandlers DEF Moved
  <1>4. /\ plan[r] = NoPlan /\ report[r] = NoPlan /\ proc[r].job = "none"
        /\ \A g \in Handlers : proc[g].run # r
    BY <1>2 DEF RowsInv, RowInv, NoRow
  <1>5. \A g \in Handlers : proc'[g].run = r => g = h
    BY <1>3, <1>4
  <1>6. NoRow(r)' /\ Creation(r)' /\ Planning(r)'
    BY <1>2, <1>3, <1>4, <1>5 DEF NoRow, Creation, Planning, PlanPending
  <1>7. Confirmation(r)' /\ Research(r)' /\ Outcome(r)'
    BY <1>1, <1>2, <1>3, <1>4, <1>5 DEF Confirmation, Confirmed, Research, Outcome
  <1>8. RowInv(r)'
    BY <1>6, <1>7 DEF RowInv
  <1> QED BY <1>1, <1>2, <1>3, <1>8, OthersKeep

(* A request for a run that is known and, to review it, under review.      *)
LEMMA NewRequestRows ==
    ASSUME Base, RowsInv, NEW h \in Handlers, NEW r \in Runs,
           CancelRequest(h, r) \/ \E pl \in Plans : ReviewRequest(h, r, pl)
    PROVE  RowsInv'
PROOF
  <1>1. /\ Moved(h) /\ proc'[h].run = r
        /\ \/ proc'[h].job = "cancel"
           \/ /\ proc'[h].job = "review" /\ proc'[h].pc = "confirm"
              /\ status[r] = "waiting_for_review"
    <2>1. CASE CancelRequest(h, r)
      BY <2>1, BaseParts, CancelEffect
    <2>2. CASE \E pl \in Plans : ReviewRequest(h, r, pl)
      <3>1. PICK pl \in Plans : ReviewRequest(h, r, pl)
        BY <2>2
      <3>2. status[r] = "waiting_for_review"
        BY <3>1, Zenon DEF ReviewRequest
      <3> QED BY <3>1, <3>2, BaseParts, ReviewEffect
    <2> QED BY <2>1, <2>2
  <1>2. /\ UNCHANGED rowVars /\ ErrorsKept /\ status[r] # "absent"
        /\ \A g \in Handlers : proc[g].run = r => proc[g].job # "create"
    <2>1. UNCHANGED rowVars /\ UNCHANGED errorVars /\ Known(r)
      BY Zenon DEF CancelRequest, ReviewRequest
    <2> QED BY <2>1 DEF Known, ErrorsKept, errorVars
  <1>3. /\ \A g \in Handlers : g # h => proc'[g] = proc[g]
        /\ \A q \in Runs : proc'[q] = proc[q] /\ SameRow(q)
    BY <1>1, <1>2, Names, RunsAreNoHandlers DEF Moved, SameRow, rowVars
  <1>4. RowInv(r)
    BY DEF RowsInv
  <1>5. NoRow(r)' /\ Creation(r)'
    BY <1>1, <1>2, <1>3 DEF NoRow, Creation, SameRow
  <1>6. Planning(r)'
    <2>1. PlanPending(r)' <=> PlanPending(r)
      BY <1>3 DEF PlanPending
    <2>2. PlanPending(r) => status[r] # "waiting_for_review"
      BY <1>4 DEF RowInv, Planning
    <2> QED BY <1>1, <1>3, <1>4, <2>1, <2>2 DEF RowInv, Planning, SameRow
  <1>7. Confirmation(r)'
    <2>1. \A g \in Handlers : Confirmed(g, r)' => g # h /\ Confirmed(g, r)
      BY <1>1, <1>3 DEF Confirmed
    <2> QED BY <1>3, <1>4, <2>1 DEF RowInv, Confirmation, SameRow
  <1>8. Research(r)' /\ Outcome(r)'
    <2>1. ReportPending(r)' <=> ReportPending(r)
      BY <1>3 DEF ReportPending
    <2> QED BY <1>2, <1>3, <1>4, <2>1
            DEF RowInv, Research, Outcome, SameRow, ErrorsKept
  <1>9. RowInv(r)'
    BY <1>5, <1>6, <1>7, <1>8 DEF RowInv
  <1> QED BY <1>1, <1>2, <1>3, <1>9, OthersKeep

(* The planning worker of a run that has been created begins.              *)
LEMMA CreationAcceptedRows ==
    ASSUME Base, RowsInv, NEW h \in Handlers, SubmitAccepted(h),
           proc[h].job = "create"
    PROVE  RowsInv'
PROOF
  <1>1. PICK r \in Runs : r = proc[h].run
    BY BaseParts, AcceptedEffect
  <1>2. /\ \A q \in Processes : q # h /\ q # r => proc'[q] = proc[q]
        /\ proc'[h] = Rest(h) /\ proc'[r].job = "planning"
        /\ UNCHANGED rowVars /\ ErrorsKept
    <2>1. UNCHANGED rowVars /\ ErrorsKept /\ proc[h].pc = "submit"
      BY DEF SubmitAccepted, ErrorsKept, errorVars
    <2> QED BY <1>1, <2>1, BaseParts, AcceptedEffect
  <1>3. /\ \A g \in Handlers : g # h => proc'[g] = proc[g]
        /\ \A q \in Runs : SameRow(q) /\ (q # r => proc'[q] = proc[q])
        /\ proc'[h].run = NoRun
    BY <1>2, Names, RunsAreNoHandlers DEF SameRow, rowVars, Rest
  <1>4. /\ status[r] = "queued" /\ plan[r] = NoPlan /\ report[r] = NoPlan
        /\ \A g \in Handlers : proc[g].run = r => g = h
        /\ Outcome(r)
    BY <1>1 DEF RowsInv, RowInv, Creation
  <1>5. \A g \in Handlers : proc'[g].run # r
    BY <1>3, <1>4, RunsAreNoHandlers
  <1>6. NoRow(r)' /\ Creation(r)' /\ Planning(r)'
    BY <1>3, <1>4, <1>5 DEF NoRow, Creation, Planning, SameRow
  <1>7. Confirmation(r)' /\ Research(r)' /\ Outcome(r)'
    BY <1>2, <1>3, <1>4, <1>5
       DEF Confirmation, Confirmed, Research, Outcome, SameRow, ErrorsKept
  <1>8. RowInv(r)'
    BY <1>6, <1>7 DEF RowInv
  <1> QED BY <1>2, <1>3, <1>8, OthersKeep

(* The research worker begins with the plan of the only request that has   *)
(* confirmed the review, which is the one on file.                         *)
LEMMA ReviewAcceptedRows ==
    ASSUME Base, RowsInv, NEW h \in Handlers, SubmitAccepted(h),
           proc[h].job = "review"
    PROVE  RowsInv'
PROOF
  <1>1. PICK r \in Runs : r = proc[h].run
    BY BaseParts, AcceptedEffect
  <1>2. /\ \A q \in Processes : q # h /\ q # r => proc'[q] = proc[q]
        /\ proc[h].pc = "submit"
        /\ SameWork(h) /\ proc'[h].pc = "publish"
        /\ proc'[r].job = "research" /\ proc'[r].plan = proc[h].plan
        /\ proc'[r].op = "none"
        /\ UNCHANGED rowVars /\ ErrorsKept
    <2>1. UNCHANGED rowVars /\ ErrorsKept /\ proc[h].pc = "submit"
      BY DEF SubmitAccepted, ErrorsKept, errorVars
    <2> QED BY <1>1, <2>1, BaseParts, AcceptedEffect
  <1>3. /\ \A g \in Handlers : g # h => proc'[g] = proc[g]
        /\ \A q \in Runs : SameRow(q) /\ (q # r => proc'[q] = proc[q])
        /\ proc'[h].run = r /\ proc'[h].job = "review"
    BY <1>1, <1>2, Names, RunsAreNoHandlers DEF SameRow, rowVars, SameWork
  <1>4. RowInv(r) /\ Confirmed(h, r)
    BY <1>1, <1>2 DEF RowsInv, Confirmed
  <1>5. /\ proc[h].plan = plan[r] /\ report[r] = NoPlan /\ status[r] \in Reviewed
        /\ \A g \in Handlers : Confirmed(g, r) => g = h
    BY <1>4 DEF RowInv, Confirmation
  <1>6. NoRow(r)' /\ Planning(r)'
    BY <1>2, <1>3, <1>5 DEF NoRow, Reviewed, Planning, PlanPending, SameRow
  <1>7. Creation(r)'
    BY <1>1, <1>3, <1>4 DEF RowInv, Creation
  <1>8. Confirmation(r)'
    <2>1. \A g \in Handlers : ~Confirmed(g, r)'
      BY <1>2, <1>3, <1>5 DEF Confirmed
    <2> QED BY <2>1 DEF Confirmation
  <1>9. Research(r)' /\ Outcome(r)'
    BY <1>2, <1>3, <1>4, <1>5 DEF RowInv, Research, Outcome, SameRow, ErrorsKept
  <1>10. RowInv(r)'
    BY <1>6, <1>7, <1>8, <1>9 DEF RowInv
  <1> QED BY <1>2, <1>3, <1>10, OthersKeep

LEMMA RollbackRows ==
    ASSUME Base, RowsInv, NEW h \in Handlers, Rollback(h)
    PROVE  RowsInv'
PROOF
  <1>1. PICK r \in Runs : r = proc[h].run
    BY BaseParts, RollbackEffect
  <1>2. /\ Moved(h) /\ proc'[h] = Rest(h) /\ proc[h].job = "create"
        /\ ErrorsKept
    BY BaseParts, RollbackEffect DEF Leaves, Rollback, ErrorsKept, errorVars
  <1>3. /\ status'[r] = "absent" /\ plan' = plan /\ report' = report
        /\ \A q \in Runs : q # r => SameRow(q)
    BY <1>1, BaseParts DEF Rollback, SameRow, RowsTyped
  <1>4. /\ \A g \in Handlers : g # h => proc'[g] = proc[g]
        /\ \A q \in Runs : proc'[q] = proc[q]
        /\ proc'[h].run = NoRun
    BY <1>2, Names, RunsAreNoHandlers DEF Moved, Rest
  <1>5. /\ plan[r] = NoPlan /\ report[r] = NoPlan /\ proc[r].job = "none"
        /\ \A g \in Handlers : proc[g].run = r => g = h
    BY <1>1, <1>2 DEF RowsInv, RowInv, Creation
  <1>6. \A g \in Handlers : proc'[g].run # r
    BY <1>4, <1>5, RunsAreNoHandlers
  <1>7. NoRow(r)' /\ Creation(r)' /\ Planning(r)'
    BY <1>3, <1>4, <1>5, <1>6 DEF NoRow, Creation, Planning, PlanPending
  <1>8. Confirmation(r)' /\ Research(r)' /\ Outcome(r)'
    BY <1>3, <1>4, <1>5, <1>6 DEF Confirmation, Confirmed, Research, Outcome
  <1>9. RowInv(r)'
    BY <1>7, <1>8 DEF RowInv
  <1> QED BY <1>2, <1>3, <1>4, <1>9, OthersKeep

(* At most one request confirms a review.                                  *)
LEMMA ConfirmRows ==
    ASSUME Base, RowsInv, NEW h \in Handlers, Confirm(h)
    PROVE  RowsInv'
PROOF
  <1>1. PICK r \in Runs : r = proc[h].run
    BY BaseParts, ConfirmEffect
  <1>2. proc[h].job = "review" /\ proc[h].plan \in Plans /\ ErrorsKept
    BY BaseParts, ConfirmEffect DEF Confirm, ErrorsKept, errorVars
  <1>3. CASE UnderReview(r)
    <2>1. Moved(h) /\ StepsTo(h, "submit")
      BY <1>1, <1>3, BaseParts, ConfirmEffect
    <2>2. /\ status[r] = "waiting_for_review" /\ status'[r] = "researching"
          /\ plan'[r] = proc[h].plan /\ report' = report
          /\ \A q \in Runs : q # r => SameRow(q)
      BY <1>1, <1>3, BaseParts DEF Confirm, UnderReview, SameRow, RowsTyped
    <2>3. /\ \A g \in Handlers : g # h => proc'[g] = proc[g]
          /\ \A q \in Runs : proc'[q] = proc[q]
          /\ proc'[h].run = r /\ proc'[h].job = "review"
          /\ proc'[h].plan = proc[h].plan
      BY <1>1, <1>2, <2>1, Names, RunsAreNoHandlers DEF Moved, StepsTo, SameWork
    <2>4. RowInv(r) /\ plan'[r] # NoPlan /\ report[r] = NoPlan
      BY <1>2, <2>2, ServiceAssumption DEF RowsInv, RowInv, Outcome
    <2>5. /\ ~PlanPending(r) /\ proc[r].job # "research"
          /\ \A g \in Handlers : ~Confirmed(g, r)
      BY <2>2, <2>4 DEF RowInv, Planning, Research, Confirmation, Reviewed
    <2>6. NoRow(r)' /\ Creation(r)'
      BY <1>1, <1>2, <2>2, <2>3, <2>4 DEF NoRow, RowInv, Creation
    <2>7. Planning(r)'
      <3>1. ~PlanPending(r)'
        BY <2>3, <2>5 DEF PlanPending
      <3> QED BY <2>2, <2>4, <3>1 DEF Planning
    <2>8. Confirmation(r)'
      <3>1. \A g \in Handlers : Confirmed(g, r)' => g = h
        BY <2>3, <2>5 DEF Confirmed
      <3> QED BY <2>2, <2>3, <2>4, <2>5, <3>1 DEF Confirmation, Reviewed
    <2>9. Research(r)' /\ Outcome(r)'
      BY <2>2, <2>3, <2>4, <2>5 DEF Research, Outcome
    <2>10. RowInv(r)'
      BY <2>6, <2>7, <2>8, <2>9 DEF RowInv
    <2> QED BY <1>2, <2>2, <2>3, <2>10, OthersKeep
  <1>4. CASE ~UnderReview(r)
    <2>1. Moved(h) /\ proc'[h] = Rest(h) /\ UNCHANGED rowVars
      BY <1>1, <1>4, BaseParts, ConfirmEffect DEF Leaves, Confirm, rowVars
    <2> QED BY <1>2, <2>1, LeavesKeeps, HandlerFrame
  <1> QED BY <1>3, <1>4

-----------------------------------------------------------------------------
(* Stops and restarts.                                                     *)

LEMMA StopRows ==
    ASSUME RowsInv, UNCHANGED rowVars, errors' = errors,
           \A p \in Processes : proc'[p] = proc[p] \/ proc'[p] = Rest(p)
    PROVE  RowsInv'
PROOF
  <1> SUFFICES ASSUME NEW r \in Runs PROVE RowInv(r)'
    BY DEF RowsInv
  <1>1. RowInv(r) /\ SameRow(r) /\ ErrorsKept
    BY DEF RowsInv, SameRow, rowVars, ErrorsKept
  <1>2. WorkerKeeps(r) /\ \A h \in Handlers : HandlerKeeps(h, r)
    BY <1>1, Names, SameKeeps, EndsKeeps, LeavesKeeps
  <1> QED BY <1>1, <1>2, FrameRow

LEMMA ProcessRows ==
    ASSUME Base, RowsInv, Shutdown \/ ShutdownReturns \/ UNCHANGED vars
    PROVE  RowsInv'
PROOF
  <1>1. UNCHANGED rowVars /\ errors' = errors
    BY DEF Shutdown, ShutdownReturns, vars, errorVars
  <1>2. \A p \in Processes : proc'[p] = proc[p] \/ proc'[p] = Rest(p)
    BY DEF Shutdown, ShutdownReturns, vars
  <1> QED BY <1>1, <1>2, StopRows

LEMMA RestartRows ==
    ASSUME Base, RowsInv, Restart
    PROVE  RowsInv'
PROOF
  <1> SUFFICES ASSUME NEW r \in Runs PROVE RowInv(r)'
    BY DEF RowsInv
  <1>1. /\ proc'[r].job = "none"
        /\ \A h \in Handlers : proc'[h].run = NoRun
    BY Names, RunsAreNoHandlers DEF Restart, Rest
  <1>2. /\ plan' = plan /\ report' = report /\ errors' = errors
        /\ status'[r] = Recovered(status[r])
    BY DEF Restart
  <1>3. NoRow(r) /\ Outcome(r)
    BY DEF RowsInv, RowInv
  <1>4. /\ NoRow(r)' /\ Creation(r)' /\ Planning(r)'
        /\ Confirmation(r)' /\ Research(r)'
    <2>1. status'[r] = "absent" => status[r] = "absent"
      BY <1>2, Names DEF Recovered
    <2> QED BY <1>1, <1>2, <1>3, <2>1, RunsAreNoHandlers
            DEF NoRow, Creation, Planning, PlanPending, Confirmation, Confirmed, Research
  <1>5. Outcome(r)'
    <2>1. CASE status[r] \in InProgress
      BY <1>2, <1>3, <2>1, Names DEF Recovered, Outcome
    <2>2. CASE status[r] \notin InProgress
      BY <1>2, <1>3, <2>2 DEF Recovered, Outcome
    <2> QED BY <2>1, <2>2
  <1> QED BY <1>4, <1>5 DEF RowInv

-----------------------------------------------------------------------------
LEMMA InitRows == Init => RowsInv
PROOF
  <1> SUFFICES ASSUME Init, NEW r \in Runs PROVE RowInv(r)
    BY DEF RowsInv
  <1>1. /\ status[r] = "absent" /\ plan[r] = NoPlan /\ report[r] = NoPlan
        /\ proc[r].job = "none" /\ \A h \in Handlers : proc[h].run = NoRun
    BY Names, RunsAreNoHandlers DEF Init, Rest
  <1> QED BY <1>1, RunsAreNoHandlers
          DEF RowInv, NoRow, Creation, Planning, PlanPending, Confirmation, Confirmed,
              Research, Outcome

LEMMA NextRows == Base /\ RowsInv /\ [Next]_vars => RowsInv'
PROOF
  <1> SUFFICES ASSUME Base, RowsInv, [Next]_vars PROVE RowsInv'
    OBVIOUS
  <1>1. ASSUME NEW r \in Runs, Start(r) PROVE RowsInv'
    BY <1>1, StartRows
  <1>2. ASSUME NEW r \in Runs,
               \/ BeginPlanning(r) \/ BeginResearch(r) \/ GraphProgress(r)
               \/ PlanReady(r) \/ ReportReady(r) \/ GraphFails(r)
        PROVE  RowsInv'
    BY <1>2, WorkRows
  <1>3. ASSUME NEW r \in Runs, Timeout(r) \/ DeliverCancel(r) PROVE RowsInv'
    BY <1>3, TimeoutRows, DeliverCancelRows
  <1>4. ASSUME NEW p \in Processes, HelperStep(p) \/ DatabaseError(p) PROVE RowsInv'
    <2>1. p \in Runs \/ p \in Handlers
      BY DEF Processes
    <2> QED BY <1>4, <2>1, DatabaseErrorRows, WorkerReadRows, WorkerCommitRows,
               WorkerPublishRows, HandlerReadRows, HandlerCommitRows DEF HelperStep
  <1>5. ASSUME NEW h \in Handlers, HandlerStep(h) PROVE RowsInv'
    <2>1. SubmitAccepted(h) => proc[h].job \in {"create", "review"}
      BY BaseParts, AcceptedEffect
    <2> QED BY <1>5, <2>1, CreationAcceptedRows, ReviewAcceptedRows, RefusedRows,
               RollbackRows, ConfirmRows, DequeueRows DEF HandlerStep
  <1>6. ASSUME NEW h \in Handlers, NEW r \in Runs,
               \/ CreateRequest(h, r) \/ CancelRequest(h, r)
               \/ \E pl \in Plans : ReviewRequest(h, r, pl)
        PROVE  RowsInv'
    BY <1>6, CreateRows, NewRequestRows
  <1>7. CASE Shutdown \/ ShutdownReturns \/ UNCHANGED vars
    BY <1>7, ProcessRows
  <1>8. CASE Restart
    BY <1>8, RestartRows
  <1> QED BY <1>1, <1>2, <1>3, <1>4, <1>5, <1>6, <1>7, <1>8 DEF Next

LEMMA RowsAlways == Spec => [](Base /\ RowsInv)
PROOF
  <1>1. Spec => []Base
    BY InitBase, NextBase, PTL DEF Spec
  <1>2. Spec => []RowsInv
    BY <1>1, InitRows, NextRows, PTL DEF Spec
  <1> QED BY <1>1, <1>2, PTL

(* However many requests confirm a review at the same time, research       *)
(* follows the plan on file and a report is the outcome of that plan       *)
(* (update_plan, _persist_completed).                                      *)
THEOREM PlansAgree == Spec => []PlanAgreement
PROOF
  <1>1. RowsInv => PlanAgreement
    BY DEF RowsInv, RowInv, Research, Outcome, PlanAgreement
  <1> QED BY <1>1, RowsAlways, PTL

(* No client sees a completed run without report or is asked to review a   *)
(* run without plan, whichever of the workers and requests that write the  *)
(* row comes first.                                                        *)
THEOREM ResultsMatch == Spec => []ResultMatchesStatus
PROOF
  <1>1. RowsInv => ResultMatchesStatus
    BY DEF RowsInv, RowInv, Outcome, ResultMatchesStatus
  <1> QED BY <1>1, RowsAlways, PTL

-----------------------------------------------------------------------------
(* The count of a key is the number of rows charged to it.                 *)

Charged(k) == {r \in Runs : QuotaKey[r] = k /\ status[r] # "absent"}

CountsInv ==
    \A k \in Keys : IsFiniteSet(Charged(k)) /\ usage[k] = Cardinality(Charged(k))

RowsStay == \A r \in Runs : status'[r] = "absent" <=> status[r] = "absent"

LEMMA SameCounts ==
    ASSUME CountsInv, RowsStay, usage' = usage
    PROVE  CountsInv'
PROOF
  <1>1. \A k \in Keys : Charged(k)' = Charged(k)
    BY DEF RowsStay, Charged
  <1> QED BY <1>1 DEF CountsInv

(* A helper only writes rows that exist, and a status they go on with.     *)
LEMMA WriteStays ==
    ASSUME Base, RowsInv, NEW p \in Processes, proc[p].pc = "commit", Write(p)
    PROVE  RowsStay
PROOF
  <1>1. proc[p].goal # "absent"
    <2>1. CASE p \in Runs
      <3>1. WorkerShape(p, proc[p]) /\ proc[p].scope \in Scopes
        BY <2>1, BaseParts, StateOf DEF ProcStates
      <3>2. proc[p].job = "none" \/ Stages(proc[p].job) \subseteq
              {"planning", "researching", "writing", "verifying"}
        BY DEF Stages
      <3> QED BY <3>1, <3>2 DEF WorkerShape, Scopes
    <2>2. CASE p \in Handlers
      BY <2>2, BaseParts, HandlerOf DEF HandlerShape, InHelper
    <2> QED BY <2>1, <2>2 DEF Processes
  <1>2. proc[p].run \in Runs => status[proc[p].run] # "absent"
    <2> SUFFICES ASSUME NEW r \in Runs, r = proc[p].run
                 PROVE  status[r] # "absent"
      OBVIOUS
    <2>1. NoRow(r)
      BY DEF RowsInv, RowInv
    <2>2. p \in Runs => p = r /\ proc[p].job # "none"
      BY BaseParts, StateOf DEF WorkerShape
    <2> QED BY <2>1, <2>2 DEF NoRow, Processes
  <1>3. \A r \in Runs : status'[r] = status[r]
                        \/ (r = proc[p].run /\ status'[r] = proc[p].goal)
    BY BaseParts DEF Write, RowsTyped
  <1> QED BY <1>1, <1>2, <1>3 DEF RowsStay

LEMMA CreateCounts ==
    ASSUME Base, CountsInv, NEW h \in Handlers, NEW r \in Runs, CreateRequest(h, r)
    PROVE  CountsInv'
PROOF
  <1>1. /\ status[r] = "absent" /\ status' = [status EXCEPT ![r] = "queued"]
        /\ usage' = Consumed(QuotaKey[r])
    BY Zenon DEF CreateRequest
  <1>2. /\ status \in [Runs -> Lifecycle!Statuses]
        /\ usage \in [Keys -> 0..DailyLimit]
    BY BaseParts DEF RowsTyped
  <1>3. QuotaKey[r] \in Keys \cup {NoKey} /\ NoKey \notin Keys
    BY ServiceAssumption
  <1> SUFFICES ASSUME NEW k \in Keys
               PROVE  /\ IsFiniteSet(Charged(k)')
                      /\ usage'[k] = Cardinality(Charged(k)')
    BY DEF CountsInv
  <1>4. IsFiniteSet(Charged(k)) /\ usage[k] = Cardinality(Charged(k))
    BY DEF CountsInv
  <1>5. CASE QuotaKey[r] = k
    <2>1. Charged(k)' = Charged(k) \cup {r} /\ r \notin Charged(k)
      BY <1>1, <1>2, <1>5 DEF Charged
    <2>2. usage'[k] = usage[k] + 1
      BY <1>1, <1>2, <1>3, <1>5 DEF Consumed
    <2> QED BY <1>4, <2>1, <2>2, FS_AddElement
  <1>6. CASE QuotaKey[r] # k
    <2>1. Charged(k)' = Charged(k)
      BY <1>1, <1>2, <1>6 DEF Charged
    <2>2. usage'[k] = usage[k]
      BY <1>1, <1>2, <1>3, <1>6 DEF Consumed
    <2> QED BY <1>4, <2>1, <2>2
  <1> QED BY <1>5, <1>6

(* The row that is taken back has been charged, so the count is positive.  *)
LEMMA RollbackCounts ==
    ASSUME Base, RowsInv, CountsInv, NEW h \in Handlers, Rollback(h)
    PROVE  CountsInv'
PROOF
  <1>1. PICK r \in Runs : r = proc[h].run
    BY BaseParts, RollbackEffect
  <1>2. /\ status' = [status EXCEPT ![r] = "absent"]
        /\ usage' = Refund(QuotaKey[r])
    BY <1>1 DEF Rollback
  <1>3. status[r] # "absent"
    <2>1. Creation(r) /\ proc[h].job = "create"
      BY BaseParts, RollbackEffect DEF RowsInv, RowInv
    <2> QED BY <1>1, <2>1 DEF Creation
  <1>4. /\ status \in [Runs -> Lifecycle!Statuses]
        /\ usage \in [Keys -> 0..DailyLimit]
    BY BaseParts DEF RowsTyped
  <1>5. QuotaKey[r] \in Keys \cup {NoKey} /\ NoKey \notin Keys /\ DailyLimit \in Nat
    BY ServiceAssumption
  <1> SUFFICES ASSUME NEW k \in Keys
               PROVE  /\ IsFiniteSet(Charged(k)')
                      /\ usage'[k] = Cardinality(Charged(k)')
    BY DEF CountsInv
  <1>6. IsFiniteSet(Charged(k)) /\ usage[k] = Cardinality(Charged(k))
    BY DEF CountsInv
  <1>7. CASE QuotaKey[r] = k
    <2>1. Charged(k)' = Charged(k) \ {r} /\ r \in Charged(k)
      BY <1>2, <1>3, <1>4, <1>7 DEF Charged
    <2>2. /\ IsFiniteSet(Charged(k)')
          /\ Cardinality(Charged(k)') = Cardinality(Charged(k)) - 1
      BY <1>6, <2>1, FS_RemoveElement
    <2>3. usage[k] > 0
      <3>1. Charged(k) # {}
        BY <2>1
      <3>2. Cardinality(Charged(k)) # 0 /\ Cardinality(Charged(k)) \in Nat
        BY <1>6, <3>1, FS_EmptySet, FS_CardinalityType
      <3> QED BY <1>6, <3>2
    <2>4. usage'[k] = usage[k] - 1
      BY <1>2, <1>4, <1>5, <1>7, <2>3 DEF Refund
    <2> QED BY <1>6, <2>2, <2>4
  <1>8. CASE QuotaKey[r] # k
    <2>1. Charged(k)' = Charged(k)
      BY <1>2, <1>4, <1>8 DEF Charged
    <2>2. usage'[k] = usage[k]
      BY <1>2, <1>4, <1>8 DEF Refund
    <2> QED BY <1>6, <2>1, <2>2
  <1> QED BY <1>7, <1>8

LEMMA OtherCounts ==
    ASSUME Base, RowsInv, CountsInv, usage' = usage,
           \/ UNCHANGED rowVars
           \/ \E p \in Processes : proc[p].pc = "commit" /\ Write(p)
           \/ \E h \in Handlers : Confirm(h)
           \/ Restart
    PROVE  CountsInv'
PROOF
  <1>1. CASE UNCHANGED rowVars
    BY <1>1, SameCounts DEF RowsStay, rowVars
  <1>2. CASE \E p \in Processes : proc[p].pc = "commit" /\ Write(p)
    BY <1>2, WriteStays, SameCounts
  <1>3. ASSUME NEW h \in Handlers, Confirm(h) PROVE CountsInv'
    <2>1. RowsStay
      BY <1>3, BaseParts, ConfirmEffect DEF Confirm, UnderReview, RowsStay, RowsTyped
    <2> QED BY <2>1, SameCounts
  <1>4. CASE Restart
    <2>1. RowsStay
      BY <1>4, Names DEF Restart, Recovered, RowsStay
    <2> QED BY <2>1, SameCounts
  <1> QED BY <1>1, <1>2, <1>3, <1>4

LEMMA InitCounts == Init => CountsInv
PROOF
  <1> SUFFICES ASSUME Init, NEW k \in Keys
               PROVE  IsFiniteSet(Charged(k)) /\ usage[k] = Cardinality(Charged(k))
    BY DEF CountsInv
  <1>1. Charged(k) = {} /\ usage[k] = 0
    BY DEF Init, Charged
  <1> QED BY <1>1, FS_EmptySet

LEMMA NextCounts == Base /\ RowsInv /\ CountsInv /\ [Next]_vars => CountsInv'
PROOF
  <1> SUFFICES ASSUME Base, RowsInv, CountsInv, [Next]_vars PROVE CountsInv'
    OBVIOUS
  <1>1. ASSUME NEW r \in Runs,
               \/ Start(r) \/ BeginPlanning(r) \/ BeginResearch(r)
               \/ GraphProgress(r) \/ PlanReady(r) \/ ReportReady(r) \/ GraphFails(r)
        PROVE  CountsInv'
    <2>1. UNCHANGED rowVars /\ usage' = usage
      BY <1>1, Zenon DEF Start, BeginPlanning, BeginResearch, GraphProgress, PlanReady,
                         ReportReady, GraphFails
    <2> QED BY <2>1, OtherCounts
  <1>2. ASSUME NEW r \in Runs, Timeout(r) \/ DeliverCancel(r) PROVE CountsInv'
    <2>1. InterruptedWrite(r) /\ usage' = usage /\ r \in Processes
      BY <1>2, Names DEF Timeout, DeliverCancel
    <2> QED BY <2>1, OtherCounts DEF InterruptedWrite
  <1>3. ASSUME NEW p \in Processes, HelperStep(p) \/ DatabaseError(p) PROVE CountsInv'
    <2>1. /\ usage' = usage
          /\ UNCHANGED rowVars \/ (proc[p].pc = "commit" /\ Write(p))
      BY <1>3 DEF HelperStep, Read, Commit, Publish, DatabaseError
    <2> QED BY <2>1, OtherCounts
  <1>4. ASSUME NEW h \in Handlers, HandlerStep(h) PROVE CountsInv'
    <2>1. CASE SubmitAccepted(h) \/ SubmitRefused(h) \/ SubmitDuplicate(h) \/ Dequeue(h)
      <3>1. UNCHANGED rowVars /\ usage' = usage
        BY <2>1, Zenon DEF SubmitAccepted, SubmitRefused, SubmitDuplicate, Dequeue
      <3> QED BY <3>1, OtherCounts
    <2>2. CASE Rollback(h)
      BY <2>2, RollbackCounts
    <2>3. CASE Confirm(h)
      <3>1. usage' = usage
        BY <2>3 DEF Confirm
      <3> QED BY <2>3, <3>1, OtherCounts
    <2> QED BY <1>4, <2>1, <2>2, <2>3 DEF HandlerStep
  <1>5. ASSUME NEW h \in Handlers, NEW r \in Runs,
               \/ CreateRequest(h, r) \/ CancelRequest(h, r)
               \/ \E pl \in Plans : ReviewRequest(h, r, pl)
        PROVE  CountsInv'
    <2>1. CASE CreateRequest(h, r)
      BY <2>1, CreateCounts
    <2>2. CASE CancelRequest(h, r) \/ \E pl \in Plans : ReviewRequest(h, r, pl)
      <3>1. UNCHANGED rowVars /\ usage' = usage
        BY <2>2, Zenon DEF CancelRequest, ReviewRequest
      <3> QED BY <3>1, OtherCounts
    <2> QED BY <1>5, <2>1, <2>2
  <1>6. CASE Shutdown \/ ShutdownReturns \/ UNCHANGED vars
    <2>1. UNCHANGED rowVars /\ usage' = usage
      BY <1>6 DEF Shutdown, ShutdownReturns, vars
    <2> QED BY <2>1, OtherCounts
  <1>7. CASE Restart
    <2>1. usage' = usage
      BY <1>7 DEF Restart
    <2> QED BY <1>7, <2>1, OtherCounts
  <1> QED BY <1>1, <1>2, <1>3, <1>4, <1>5, <1>6, <1>7 DEF Next

(* A client is charged for exactly the runs it has, whatever way their     *)
(* creation goes: RateLimiter.consume and _rollback_rejected_create        *)
(* together lose and invent no charge.                                     *)
THEOREM QuotaKept == Spec => []QuotaConserved
PROOF
  <1>1. Spec => []CountsInv
    BY RowsAlways, InitCounts, NextCounts, PTL DEF Spec
  <1>2. Base /\ CountsInv => QuotaConserved
    <2> SUFFICES ASSUME Base, CountsInv, NEW k \in Keys
                 PROVE  usage[k] = Cardinality(Charged(k)) /\ usage[k] <= DailyLimit
      BY DEF QuotaConserved, Charged
    <2>1. usage[k] \in 0..DailyLimit /\ DailyLimit \in Nat
      BY BaseParts, ServiceAssumption DEF RowsTyped
    <2> QED BY <2>1 DEF CountsInv
  <1> QED BY <1>1, <1>2, RowsAlways, PTL
=============================================================================
