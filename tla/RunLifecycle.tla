---------------------------- MODULE RunLifecycle -----------------------------
(***************************************************************************)
(* What ResearchFlow promises about the status of a research run           *)
(* (ResearchStatus in src/backend/app/schemas.py), whatever processes work *)
(* on it: it moves along the phases plan, review, research, write, verify, *)
(* may fail on the way, is cancelled only while somebody is cancelling it, *)
(* and a finished run stays what it is.  ResearchService implements this   *)
(* specification with the exceptions listed in RaceMoves and ErrorMoves.   *)
(***************************************************************************)
CONSTANT Runs     \* ids of research runs

VARIABLES
    status,
    cancelling,   \* the runs somebody is about to mark as cancelled
    faulted       \* an error of the database has occurred

InProgress == {"queued", "planning", "researching", "writing", "verifying"}
Terminal == {"completed", "failed", "cancelled", "expired"}
Statuses == InProgress \cup Terminal \cup {"absent", "waiting_for_review"}

(* The phases a run is meant to go through; "absent" is a run with no row, *)
(* before its creation or after its creation was undone for lack of room.  *)
Phases == [ absent             |-> {"queued"},
            queued             |-> {"absent", "planning"},
            planning           |-> {"waiting_for_review"},
            waiting_for_review |-> {"researching"},
            researching        |-> {"writing"},
            writing            |-> {"verifying", "completed"},
            verifying          |-> {"completed"} ]

(* Whatever goes on can fail.  A run under review has no process that      *)
(* could fail.                                                             *)
Failures(s) == IF s \in InProgress THEN {"failed"} ELSE {}

(* Whoever cancels a run read that it was not finished.  A worker that has *)
(* finished it since then is overruled: completed and failed runs can      *)
(* become cancelled ones.                                                  *)
Cancellations(s) == IF s = "absent" THEN {} ELSE {"cancelled"}

(* A worker that read the status before the cancellation goes on as if it  *)
(* had not happened.                                                       *)
RaceMoves == [ cancelled |-> {"writing", "verifying", "completed", "failed"} ]

(* A worker that cannot publish what it has stored fails the run, whether  *)
(* it was a plan or a report.                                              *)
ErrorMoves == [ completed          |-> {"failed"},
                waiting_for_review |-> {"failed"} ]

From(moves, s) == IF s \in DOMAIN moves THEN moves[s] ELSE {}

Moves(r) ==
    From(Phases, status[r]) \cup Failures(status[r]) \cup From(RaceMoves, status[r])
        \cup (IF r \in cancelling THEN Cancellations(status[r]) ELSE {})
        \cup (IF faulted THEN From(ErrorMoves, status[r]) ELSE {})

vars == <<status, cancelling, faulted>>

Init ==
    /\ status = [r \in Runs |-> "absent"]
    /\ cancelling = {}
    /\ faulted = FALSE

Move(r) == \E s \in Moves(r) : status' = [status EXCEPT ![r] = s]

(* A restart ends every run that was in progress, and keeps the others,    *)
(* the ones under review included.                                         *)
Recover == status' = [r \in Runs |->
                         IF status[r] \in InProgress THEN "failed" ELSE status[r]]

(* Somebody begins or ceases to cancel, or an error occurs.                *)
Around ==
    /\ cancelling' \in SUBSET Runs
    /\ faulted' \in BOOLEAN /\ (faulted => faulted')

Next ==
    /\ (\E r \in Runs : Move(r)) \/ Recover \/ UNCHANGED status
    /\ Around

Spec == Init /\ [][Next]_vars
=============================================================================
