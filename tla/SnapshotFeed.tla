----------------------------- MODULE SnapshotFeed -----------------------------
(***************************************************************************)
(* What the event stream of a run promises its readers: every reader is    *)
(* shown versions of the row, each newer than the one before, never one    *)
(* that has not been committed.  Versions may be skipped.  EventStream     *)
(* implements this specification.                                          *)
(***************************************************************************)
EXTENDS Integers

CONSTANT Readers   \* clients that follow the run

VARIABLES
    row,    \* number of the version of the row last committed
    seen    \* the newest version each reader has been shown; 0: none

vars == <<row, seen>>

Init == row = 1 /\ seen = [r \in Readers |-> 0]

Commit == row' = row + 1 /\ UNCHANGED seen

Show(r) ==
    /\ \E v \in seen[r]..row : seen' = [seen EXCEPT ![r] = v]
    /\ UNCHANGED row

Next == Commit \/ \E r \in Readers : Show(r)

Spec == Init /\ [][Next]_vars
=============================================================================
