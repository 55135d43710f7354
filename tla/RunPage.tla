------------------------------- MODULE RunPage --------------------------------
(***************************************************************************)
(* The page of one run in the browser: subscribeToResearch in              *)
(* src/frontend/src/lib/api.ts and what RunPage.tsx shows.  Snapshots come *)
(* on the event stream, which keeps SnapshotFeed's promise, and in answers *)
(* to REST requests, which may be late.  A snapshot is the number of the   *)
(* version of the row that the server read for it.                         *)
(***************************************************************************)
EXTENDS Integers, Sequences

CONSTANTS
    LastVersion,     \* bound on the versions of the row
    Finals,          \* the versions with a terminal status
    Reviews,         \* the versions that wait for a review
    Buttons,         \* what the user may press: confirm, cancel
    InTransit        \* bound on the items of a stream in transit

ASSUME PageAssumption ==
    /\ LastVersion \in Nat \ {0}
    /\ Finals \subseteq 1..LastVersion
    /\ Reviews \subseteq 1..LastVersion
    /\ Buttons \subseteq {"confirm", "cancel"}
    /\ InTransit \in Nat \ {0}

VARIABLES
    row,        \* number of the version of the row last committed
    missed,     \* versions that nobody published
    phase,      \* the subscription: open, recovering, pausing or left
    up,         \* the server is sending on the current connection
    since,      \* the version of the row when that connection was made
    sent,       \* the newest version sent on it; 0: none
    line,       \* the items in transit on it
    request,    \* per kind of request: idle, sent or answered
    answer,     \* the version in its answer
    heard,      \* the last snapshot of the subscription; 0: none
    shown       \* the snapshot the page shows; 0: none

connection == <<up, since, sent, line>>
rest == <<request, answer>>
vars == <<row, missed, phase, connection, rest, heard, shown>>

(* The page's first read, and its buttons.                                 *)
PageRequests == {"load"} \cup Buttons
Requests == PageRequests \cup {"recover"}

(* What the subscription tells the page, as a reader of the stream.        *)
Feed == INSTANCE SnapshotFeed
            WITH Readers <- {"page"}, seen <- [r \in {"page"} |-> heard]

(* The effect of RunPage: one read, one subscription.                      *)
Init ==
    /\ row = 1 /\ missed = {}
    /\ phase = "open"
    /\ up = TRUE /\ since = 1 /\ sent = 0 /\ line = <<>>
    /\ request = [q \in Requests |-> IF q = "load" THEN "sent" ELSE "idle"]
    /\ answer = [q \in Requests |-> 0]
    /\ heard = 0 /\ shown = 0

-----------------------------------------------------------------------------
(* The server.                                                             *)

(* Whatever changes the run: workers, the requests of this page, others.   *)
Commit ==
    /\ row < LastVersion
    /\ row' = row + 1
    /\ UNCHANGED <<missed, phase, connection, rest, heard, shown>>

(* The writer of the newest version is cancelled after its COMMIT, or      *)
(* fails, and publishes nothing (missed of EventStream).  It matters to a  *)
(* connection made before the COMMIT that has not got the version; a newer *)
(* one reads the row itself.                                               *)
Missed ==
    /\ up /\ since < row /\ sent < row
    /\ missed' = missed \cup {row}
    /\ UNCHANGED <<row, phase, connection, rest, heard, shown>>

(* The answer to a button is read after its effect, a Commit: the plan is  *)
(* confirmed, or the run is over.  Without an effect the request fails.    *)
Respond(q) ==
    /\ request[q] = "sent"
    /\ q = "confirm" => row \notin Reviews
    /\ q = "cancel" => row \in Finals
    /\ request' = [request EXCEPT ![q] = "answered"]
    /\ answer' = [answer EXCEPT ![q] = row]
    /\ UNCHANGED <<row, missed, phase, connection, heard, shown>>

(* An item is never older than the connection, and newer than the item     *)
(* before it (one that only repeats it shows nothing new); a final one is  *)
(* the last.                                                               *)
Send(v) ==
    /\ up /\ Len(line) < InTransit
    /\ since <= v /\ sent < v /\ v <= row
    /\ line' = Append(line, v)
    /\ sent' = v
    /\ up' = (v \notin Finals)
    /\ UNCHANGED <<row, missed, phase, since, rest, heard, shown>>

-----------------------------------------------------------------------------
(* The subscription.                                                       *)

(* handleSnapshot.  The page accepts whatever comes.                       *)
Deliver ==
    /\ phase # "left"
    /\ line # <<>>
    /\ heard' = Head(line) /\ shown' = Head(line)
    /\ line' = Tail(line)
    /\ UNCHANGED <<row, missed, phase, up, since, sent, rest>>

(* Nothing comes from a closed source any more.  A definition named        *)
(* Mutant... is a plausible slip in the definition that follows it.  No    *)
(* specification uses it: replacing the definition by it shows which       *)
(* property would notice.                                                  *)
MutantClose == UNCHANGED <<line, up>>
Close == line' = <<>> /\ up' = FALSE

(* onerror: the connection breaks, or the server has ended the stream.     *)
Error ==
    /\ phase = "open"
    /\ Close
    /\ phase' = "recovering"
    /\ request' = [request EXCEPT !["recover"] = "sent"]
    /\ UNCHANGED <<row, missed, since, sent, answer, heard, shown>>

(* The end of recover: what it read is passed on, the next connection      *)
(* comes after a pause.                                                    *)
MutantPassedOn == UNCHANGED <<heard, shown>>
PassedOn == heard' = answer["recover"] /\ shown' = answer["recover"]

Recovered ==
    /\ phase = "recovering"
    /\ request["recover"] = "answered"
    /\ PassedOn
    /\ phase' = "pausing"
    /\ request' = [request EXCEPT !["recover"] = "idle"]
    /\ UNCHANGED <<row, missed, connection, answer>>

(* A request that fails is reported; a failed recovery reconnects, too.    *)
Fail(q) ==
    /\ request[q] = "sent"
    /\ request' = [request EXCEPT ![q] = "idle"]
    /\ phase' = IF q = "recover" THEN "pausing" ELSE phase
    /\ UNCHANGED <<row, missed, connection, answer, heard, shown>>

(* connect, when the timer fires.                                          *)
Connect ==
    /\ phase = "pausing"
    /\ phase' = "open"
    /\ up' = TRUE /\ since' = row /\ sent' = 0
    /\ UNCHANGED <<row, missed, line, rest, heard, shown>>

-----------------------------------------------------------------------------
(* The page.                                                               *)

(* The plan form is shown during the review, the button to cancel as long *)
(* as the run goes on.  Bound: one request of each kind (saving; the       *)
(* button could be pressed again).                                         *)
Post(q) ==
    /\ phase # "left"
    /\ request[q] = "idle"
    /\ shown # 0
    /\ \/ q = "confirm" /\ shown \in Reviews
       \/ q = "cancel" /\ shown \notin Finals
    /\ request' = [request EXCEPT ![q] = "sent"]
    /\ UNCHANGED <<row, missed, phase, connection, answer, heard, shown>>

(* accept and setSnapshot: the answer replaces what is shown.              *)
Accept(q) ==
    /\ request[q] = "answered"
    /\ request' = [request EXCEPT ![q] = "idle"]
    /\ shown' = IF phase = "left" THEN shown ELSE answer[q]
    /\ UNCHANGED <<row, missed, phase, connection, answer, heard>>

(* The cleanup of the effect: active and stopped are set, the timer and    *)
(* the source are gone, the answer to a recovery will be ignored.          *)
Leave ==
    /\ phase # "left"
    /\ phase' = "left"
    /\ Close
    /\ request' = [request EXCEPT !["recover"] = "idle"]
    /\ UNCHANGED <<row, missed, since, sent, answer, heard, shown>>

Next ==
    \/ Commit \/ Missed
    \/ \E q \in Requests : Respond(q) \/ Fail(q)
    \/ \E v \in 1..LastVersion : Send(v)
    \/ Deliver \/ Error \/ Recovered \/ Connect
    \/ \E q \in Buttons : Post(q)
    \/ \E q \in PageRequests : Accept(q)
    \/ Leave

Spec == Init /\ [][Next]_vars

(* The newest version is on its way to the connection, which hears of it   *)
(* from the publisher or, made after the COMMIT, in its first snapshot     *)
(* (NoUpdateLost of EventStream).                                          *)
Due == sent < row /\ (row \in missed => since = row)

(* The server answers and sends what is due, the network delivers, timers  *)
(* fire, and the browser reports the end of a stream.  Connections may     *)
(* break and requests may fail, but not every read after a break fails.    *)
(* Nobody needs to commit, press or leave, and publications may be missed. *)
Fairness ==
    /\ \A q \in Requests : WF_vars(Respond(q))
    /\ SF_vars(Respond("recover"))
    /\ WF_vars(Due /\ Send(row))
    /\ WF_vars(Deliver) /\ WF_vars(Recovered) /\ WF_vars(Connect)
    /\ WF_vars(~up /\ line = <<>> /\ Error)
    /\ \A q \in PageRequests : WF_vars(Accept(q))

FairSpec == Spec /\ Fairness

-----------------------------------------------------------------------------
(* Every variable holds a value the page can give it; there is a recovery  *)
(* under way exactly in its phase, and never beside a connection.          *)
TypeOK ==
    /\ row \in 1..LastVersion
    /\ missed \subseteq 1..LastVersion
    /\ phase \in {"open", "recovering", "pausing", "left"}
    /\ up \in BOOLEAN
    /\ since \in 1..LastVersion
    /\ sent \in 0..LastVersion
    /\ line \in Seq(1..LastVersion)
    /\ request \in [Requests -> {"idle", "sent", "answered"}]
    /\ answer \in [Requests -> 0..LastVersion]
    /\ heard \in 0..LastVersion
    /\ shown \in 0..LastVersion
    /\ phase = "recovering" <=> request["recover"] # "idle"
    /\ phase # "open" => line = <<>> /\ ~up

(* The subscription reads the newest snapshot after a break and connects   *)
(* only then, so what it passes on never goes back (api.test.ts:161).      *)
HeardInOrder == Feed!Spec

(* The page hangs on a connection from before the last COMMIT, which       *)
(* nobody published: it gets heartbeats and no error.                      *)
Unaware == LastVersion \in missed /\ up /\ since < LastVersion

(* The page comes to show the last version, for good, whatever answers are *)
(* late and however often the connection breaks, until the user leaves.    *)
(* The exception is a last version that nobody published, and only while   *)
(* the connection that missed it never breaks.                             *)
NewestIsShown ==
    row = LastVersion ~>
        \/ [](shown = LastVersion \/ phase = "left")
        \/ []Unaware
=============================================================================
