------------------------------- MODULE HomePage --------------------------------
(***************************************************************************)
(* The home page and the list of recent research in the browser:           *)
(* src/frontend/src/pages/HomePage.tsx and lib/recent.ts.  The list is     *)
(* kept in localStorage.  Whoever follows a run saves it there, the home   *)
(* page shows it, removes from it, and asks the server for the mode of     *)
(* records an earlier version saved without one.  Of a record the model    *)
(* keeps the run and whether it has a mode.                                *)
(***************************************************************************)
EXTENDS Integers, Sequences

CONSTANTS
    Ids,             \* ids of research runs
    NoId,
    MaxRecent,       \* MAX_RECENT, 8 in the code
    MaxCreations     \* creations under way at once: a bound of the model

ASSUME HomeAssumption ==
    /\ NoId \notin Ids
    /\ MaxRecent \in Nat \ {0}
    /\ MaxCreations \in Nat

(* The mode requests of a run, by number.  The code is meant to have one   *)
(* at a time (see ModeRequestsShared); there is room for another.          *)
Numbers == {1, 2}
Requests == Ids \X Numbers

VARIABLES
    list,       \* localStorage: the records, newest first
    page,       \* the page the browser is on: home, run or other
    opened,     \* the run of the run page
    pressed,    \* the runs a confirmation or cancellation is under way for
    submitting, \* state of the home page: its form has been sent
    creating,   \* number of creations under way, of left home pages included
    unborn,     \* the runs not created yet
    shown,      \* the state `recent` of the home page
    request,    \* per mode request: idle, first attempt, pause, second attempt
    shared,     \* recentModeRequests: number of the request of a run; 0: none
    awaited     \* the requests the home page, still active, waits for

modeVars == <<request, shared, awaited>>
vars == <<list, page, opened, pressed, submitting, creating, unborn, shown, modeVars>>

-----------------------------------------------------------------------------
(* lib/recent.ts                                                           *)

IdsOf(l) == {l[i].id : i \in DOMAIN l}

Cut(l) == SubSeq(l, 1, IF Len(l) < MaxRecent THEN Len(l) ELSE MaxRecent)

(* A definition named Mutant... is a plausible slip in the definition that *)
(* follows it; no specification uses it.                                   *)

(* The filter on ids: a list holds an id once, so what stands behind it    *)
(* moves up by one.                                                        *)
MutantWithout(l, id) == l
Without(l, id) ==
    LET rest == IF id \in IdsOf(l) THEN Len(l) - 1 ELSE Len(l)
    IN  [i \in 1..rest |-> IF id \in {l[j].id : j \in 1..i} THEN l[i + 1] ELSE l[i]]

(* saveRecentResearch: a snapshot has a mode.                              *)
Saved(id) == Cut(<<[id |-> id, mode |-> TRUE]>> \o Without(list, id))

(* updateRecentResearchMode: only what is still in the list.               *)
MutantWithMode(id) == Cut(<<[id |-> id, mode |-> TRUE]>> \o Without(list, id))
WithMode(id) ==
    [i \in DOMAIN list |->
        IF list[i].id = id THEN [list[i] EXCEPT !.mode = TRUE] ELSE list[i]]

Records == [id : Ids, mode : BOOLEAN]

(* An earlier version of the program may have left records without mode.   *)
Distinct(l) == \A i, j \in DOMAIN l : l[i].id = l[j].id => i = j
Lists == {l \in UNION {[1..n -> Records] : n \in 0..MaxRecent} : Distinct(l)}

Init ==
    /\ list \in Lists
    /\ page = "other" /\ opened = NoId
    /\ pressed = {} /\ submitting = FALSE /\ creating = 0
    /\ unborn = Ids \ IdsOf(list)
    /\ shown = <<>>
    /\ request = [q \in Requests |-> "idle"]
    /\ shared = [id \in Ids |-> 0]
    /\ awaited = {}

-----------------------------------------------------------------------------
(* The mode requests.                                                      *)

UnderWay(q) == request[q] # "idle"
Asking(q) == request[q] \in {"first", "second"}

(* getRecentMode: the request that exists, or a new one.                   *)
MutantExisting(id) == shared[id] # 0 /\ Asking(<<id, shared[id]>>)
Existing(id) == shared[id] # 0

Number(id) ==
    IF Existing(id) THEN shared[id]
    ELSE CHOOSE n \in Numbers : ~UnderWay(<<id, n>>)

(* The effect of the home page, once: every record without mode is asked   *)
(* for.                                                                    *)
Legacy ==
    {id \in Ids : \E i \in DOMAIN list : list[i].id = id /\ ~list[i].mode}

Ask ==
    LET new == {<<id, Number(id)>> : id \in {l \in Legacy : ~Existing(l)}}
    IN /\ awaited' = {<<id, Number(id)>> : id \in Legacy}
       /\ request' = [q \in Requests |-> IF q \in new THEN "first" ELSE request[q]]
       /\ shared' = [id \in Ids |-> IF id \in Legacy THEN Number(id) ELSE shared[id]]

(* The promise is settled: finally removes its entry from the map, unless  *)
(* another request has taken its place, and whoever waits goes on.         *)
Settle(q) ==
    /\ request' = [request EXCEPT ![q] = "idle"]
    /\ shared' = [shared EXCEPT ![q[1]] = IF @ = q[2] THEN 0 ELSE @]
    /\ awaited' = awaited \ {q}

(* The server answers with the snapshot of the run.                        *)
ModeAnswered(q) ==
    /\ Asking(q)
    /\ Settle(q)
    /\ list' = IF q \in awaited THEN WithMode(q[1]) ELSE list
    /\ shown' = IF q \in awaited THEN Cut(list') ELSE shown
    /\ UNCHANGED <<page, opened, pressed, submitting, creating, unborn>>

(* A failure that may pass is answered by one more attempt after a pause:  *)
(* no answer within the limit, which aborts the request, no connection, or *)
(* a status of 429 or 5xx.  Any other, or a second one, is final; the      *)
(* record stays without mode.                                              *)
MutantFinalAttempt(q) == FALSE
FinalAttempt(q) == request[q] = "second"

AttemptFails(q) ==
    /\ Asking(q)
    /\ \/ Settle(q)
       \/ /\ ~FinalAttempt(q)
          /\ request' = [request EXCEPT ![q] = "pause"]
          /\ UNCHANGED <<shared, awaited>>
    /\ UNCHANGED <<list, page, opened, pressed, submitting, creating, unborn, shown>>

(* An attempt that is not answered is over after five seconds.             *)
TimesOut(q) ==
    /\ Asking(q)
    /\ IF FinalAttempt(q) THEN Settle(q)
       ELSE /\ request' = [request EXCEPT ![q] = "pause"]
            /\ UNCHANGED <<shared, awaited>>
    /\ UNCHANGED <<list, page, opened, pressed, submitting, creating, unborn, shown>>

PauseOver(q) ==
    /\ request[q] = "pause"
    /\ request' = [request EXCEPT ![q] = "second"]
    /\ UNCHANGED <<list, page, opened, pressed, submitting, creating, unborn, shown, shared, awaited>>

-----------------------------------------------------------------------------
(* The pages.                                                              *)

(* The home page is mounted: it shows what is stored.                      *)
OpenHome ==
    /\ page # "home"
    /\ page' = "home" /\ opened' = NoId
    /\ shown' = Cut(list)
    /\ Ask
    /\ UNCHANGED <<list, pressed, submitting, creating, unborn>>

(* Another page takes its place; an effect of the home page is undone.     *)
Goes(to, id) ==
    /\ page' = to /\ opened' = id
    /\ shown' = <<>> /\ submitting' = FALSE
    /\ awaited' = {}

OpenOther ==
    /\ page # "other"
    /\ Goes("other", NoId)
    /\ UNCHANGED <<list, pressed, creating, unborn, request, shared>>

OpenRun(id) ==
    /\ id \notin unborn
    /\ opened # id
    /\ Goes("run", id)
    /\ UNCHANGED <<list, pressed, creating, unborn, request, shared>>

(* The user confirms that a record is to be removed.                       *)
ShownWithout(id) == Without(shown, id)

Remove(id) ==
    /\ page = "home" /\ id \in IdsOf(shown)
    /\ list' = Without(list, id)
    /\ shown' = ShownWithout(id)
    /\ UNCHANGED <<page, opened, pressed, submitting, creating, unborn, modeVars>>

(* submit, once per home page: the new run is saved and its page opened,   *)
(* whatever page the user has gone to meanwhile.  A creation that fails    *)
(* lets the page that sent the form, if it is still there, send it again.  *)
Submit ==
    /\ page = "home" /\ ~submitting
    /\ creating < MaxCreations
    /\ submitting' = TRUE /\ creating' = creating + 1
    /\ UNCHANGED <<list, page, opened, pressed, unborn, shown, modeVars>>

Created(id) ==
    /\ creating > 0 /\ id \in unborn
    /\ creating' = creating - 1
    /\ unborn' = unborn \ {id}
    /\ list' = Saved(id)
    /\ Goes("run", id)
    /\ UNCHANGED <<pressed, request, shared>>

NotCreated ==
    /\ creating > 0
    /\ \/ submitting /\ submitting' = FALSE
       \/ creating > (IF submitting THEN 1 ELSE 0) /\ UNCHANGED submitting
    /\ creating' = creating - 1
    /\ UNCHANGED <<list, page, opened, pressed, unborn, shown, modeVars>>

(* accept in RunPage.tsx: every snapshot that comes while the page is open *)
(* is saved.                                                               *)
Snapshot ==
    /\ page = "run"
    /\ list' = Saved(opened)
    /\ UNCHANGED <<page, opened, pressed, submitting, creating, unborn, shown, modeVars>>

(* confirmPlan and cancel in RunPage.tsx: the answer is saved even if the  *)
(* page has been left.                                                     *)
Press ==
    /\ page = "run"
    /\ pressed' = pressed \cup {opened}
    /\ UNCHANGED <<list, page, opened, submitting, creating, unborn, shown, modeVars>>

Answered(id) ==
    /\ id \in pressed
    /\ pressed' = pressed \ {id}
    /\ list' \in {Saved(id), list}
    /\ UNCHANGED <<page, opened, submitting, creating, unborn, shown, modeVars>>

(* The document is loaded anew: only localStorage survives.                *)
Reload ==
    /\ page' = "other" /\ opened' = NoId
    /\ pressed' = {} /\ submitting' = FALSE /\ creating' = 0
    /\ shown' = <<>>
    /\ request' = [q \in Requests |-> "idle"]
    /\ shared' = [id \in Ids |-> 0]
    /\ awaited' = {}
    /\ UNCHANGED <<list, unborn>>

Timers(q) == TimesOut(q) \/ PauseOver(q)

Next ==
    \/ \E q \in Requests :
          ModeAnswered(q) \/ AttemptFails(q) \/ Timers(q)
    \/ OpenHome \/ OpenOther
    \/ \E id \in Ids : OpenRun(id) \/ Remove(id) \/ Created(id) \/ Answered(id)
    \/ Submit \/ NotCreated \/ Snapshot \/ Press
    \/ Reload

Spec == Init /\ [][Next]_vars

(* Timers fire.  The server need not answer, and the user need not do      *)
(* anything.                                                               *)
Fairness == \A q \in Requests : WF_vars(Timers(q))

FairSpec == Spec /\ Fairness

-----------------------------------------------------------------------------
TypeOK ==
    /\ list \in Lists /\ shown \in Lists
    /\ page \in {"home", "run", "other"}
    /\ opened \in Ids \cup {NoId}
    /\ (page = "run") <=> (opened # NoId)
    /\ pressed \subseteq Ids /\ unborn \subseteq Ids
    /\ submitting \in BOOLEAN /\ creating \in 0..MaxCreations
    /\ submitting => page = "home" /\ creating > 0
    /\ page # "home" => shown = <<>> /\ awaited = {}
    /\ request \in [Requests -> {"idle", "first", "pause", "second"}]
    /\ shared \in [Ids -> {0} \cup Numbers]
    /\ awaited \subseteq Requests

(* However often the home page is left and opened again, with requests     *)
(* that are answered, fail or are tried again meanwhile, a run has at most *)
(* one mode request under way, getRecentMode knows it, and the page waits  *)
(* for no other (recentModeRequests in HomePage.tsx): an entry that stayed *)
(* after its request would keep the record without a mode for good.        *)
ModeRequestsShared ==
    /\ \A q \in Requests : UnderWay(q) <=> shared[q[1]] = q[2]
    /\ \A q \in awaited : UnderWay(q)

(* While the home page stays open, what it shows and what is stored change *)
(* together (confirmRemoveRecent, and the answer to a mode request), but   *)
(* for the answer to a button of a run page that was left.                 *)
StaysInStep ==
    page = "home" /\ page' = "home" /\ pressed' = pressed /\ shown = list
        => shown' = list'

(* A record the user removed, or that newer ones displaced, comes back     *)
(* only with a snapshot of its run: its run page is open, its button       *)
(* answers, or it has just been created.  An answer to a mode request that *)
(* the home page sent before does not bring it back.                       *)
NothingComesBack ==
    \A id \in IdsOf(list') \ IdsOf(list) :
        id = opened \/ id \in pressed \/ id \in unborn

(* A mode once known is not forgotten while the record is kept.            *)
ModesAreKept ==
    \A i \in DOMAIN list, j \in DOMAIN list' :
        list[i].id = list'[j].id => (list[i].mode => list'[j].mode)

HomeAndStorageAgree ==
    [][StaysInStep /\ NothingComesBack /\ ModesAreKept]_vars

(* A home page does not wait for modes for ever: two attempts of at most   *)
(* five seconds each, then a record keeps its place without a mode         *)
(* (requestRecentMode and timeoutAfter).                                   *)
ModesSettle == awaited # {} ~> awaited = {}
=============================================================================
