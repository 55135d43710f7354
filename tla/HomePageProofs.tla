---------------------------- MODULE HomePageProofs ----------------------------
(***************************************************************************)
(* For any number of runs and records: the mode requests of the home page  *)
(* are shared (at most one is under way for a run, and getRecentMode knows *)
(* it), an invariant that is inductive once the types of the requests are  *)
(* added to it; and the stored list and the home page agree, step by step. *)
(***************************************************************************)
EXTENDS HomePage, SequenceTheorems, TLAPS

ModeTypes ==
    /\ request \in [Requests -> {"idle", "first", "pause", "second"}]
    /\ shared \in [Ids -> {0} \cup Numbers]
    /\ awaited \subseteq Requests

IInv == ModeTypes /\ ModeRequestsShared

(* A run without an entry in the map has no request, so whichever number   *)
(* its next one takes is free.                                             *)
LEMMA NextNumber ==
    ASSUME IInv, NEW id \in Ids
    PROVE  /\ Number(id) \in Numbers
           /\ Existing(id) => Number(id) = shared[id]
           /\ ~Existing(id) => \A n \in Numbers : ~UnderWay(<<id, n>>)
PROOF
  <1>1. CASE Existing(id)
    BY <1>1 DEF IInv, ModeTypes, Existing, Number
  <1>2. CASE ~Existing(id)
    <2>1. \A n \in Numbers : ~UnderWay(<<id, n>>)
      BY <1>2 DEF IInv, ModeRequestsShared, Existing, Requests, Numbers
    <2>2. 1 \in Numbers
      BY DEF Numbers
    <2> QED BY <1>2, <2>1, <2>2 DEF Number
  <1> QED BY <1>1, <1>2

(* A settled request takes its own entry with it, and nothing else.        *)
LEMMA SettleKeeps ==
    ASSUME IInv, NEW q \in Requests, UnderWay(q), Settle(q)
    PROVE  IInv'
PROOF
  <1>1. q[1] \in Ids /\ q[2] \in Numbers /\ q = <<q[1], q[2]>>
    BY DEF Requests
  <1>2. ModeTypes'
    BY <1>1 DEF IInv, ModeTypes, Settle
  <1>3. shared[q[1]] = q[2]
    BY DEF IInv, ModeRequestsShared
  <1>4. ASSUME NEW o \in Requests
        PROVE  (request'[o] # "idle") <=> shared'[o[1]] = o[2]
    <2>1. o[1] \in Ids /\ o[2] \in Numbers /\ o = <<o[1], o[2]>> /\ o[2] # 0
      BY DEF Requests, Numbers
    <2>2. (request[o] # "idle") <=> shared[o[1]] = o[2]
      BY DEF IInv, ModeRequestsShared, UnderWay
    <2>3. request' = [request EXCEPT ![q] = "idle"]
          /\ shared' = [shared EXCEPT ![q[1]] = 0]
      BY <1>1, <1>3 DEF Settle, IInv, ModeTypes
    <2>4. CASE o = q
      BY <1>1, <2>1, <2>3, <2>4 DEF IInv, ModeTypes
    <2>5. CASE o # q /\ o[1] = q[1]
      BY <1>1, <1>3, <2>1, <2>2, <2>3, <2>5 DEF IInv, ModeTypes
    <2>6. CASE o[1] # q[1]
      BY <1>1, <2>1, <2>2, <2>3, <2>6 DEF IInv, ModeTypes
    <2> QED BY <2>4, <2>5, <2>6
  <1>5. \A o \in awaited' : request'[o] # "idle"
    BY DEF IInv, ModeTypes, ModeRequestsShared, UnderWay, Settle
  <1> QED BY <1>2, <1>4, <1>5 DEF IInv, ModeRequestsShared, UnderWay

(* The pause between two attempts is part of the request.                  *)
LEMMA PhaseKeeps ==
    ASSUME IInv, NEW q \in Requests, UnderWay(q),
           NEW phase \in {"first", "pause", "second"},
           request' = [request EXCEPT ![q] = phase],
           UNCHANGED <<shared, awaited>>
    PROVE  IInv'
PROOF
  <1>1. ModeTypes'
    BY DEF IInv, ModeTypes
  <1>2. \A o \in Requests : (request'[o] # "idle") <=> (request[o] # "idle")
    BY DEF IInv, ModeTypes, UnderWay
  <1> QED BY <1>1, <1>2 DEF IInv, ModeTypes, ModeRequestsShared, UnderWay

(* The home page joins the requests there are, and adds the others.        *)
LEMMA AskKeeps ==
    ASSUME IInv, Ask
    PROVE  IInv'
PROOF
  <1> DEFINE new == {<<id, Number(id)>> : id \in {l \in Legacy : ~Existing(l)}}
  <1>1. Legacy \subseteq Ids
    BY DEF Legacy
  <1>2. \A id \in Ids : Number(id) \in Numbers
    BY NextNumber
  <1>3. /\ awaited' = {<<id, Number(id)>> : id \in Legacy}
        /\ request' = [q \in Requests |-> IF q \in new THEN "first" ELSE request[q]]
        /\ shared' = [id \in Ids |-> IF id \in Legacy THEN Number(id) ELSE shared[id]]
    BY DEF Ask
  <1>4. ModeTypes'
    BY <1>1, <1>2, <1>3 DEF IInv, ModeTypes, Requests
  <1>5. ASSUME NEW id \in Ids, NEW n \in Numbers
        PROVE  (request'[<<id, n>>] # "idle") <=> shared'[id] = n
    <2>1. (request[<<id, n>>] # "idle") <=> shared[id] = n
      BY DEF IInv, ModeRequestsShared, UnderWay, Requests
    <2>2. <<id, n>> \in new <=> id \in Legacy /\ ~Existing(id) /\ n = Number(id)
      OBVIOUS
    <2>3. <<id, n>> \in Requests
      BY DEF Requests
    <2>4. request'[<<id, n>>] = IF <<id, n>> \in new THEN "first" ELSE request[<<id, n>>]
      BY <1>3, <2>3
    <2>5. shared'[id] = IF id \in Legacy THEN Number(id) ELSE shared[id]
      BY <1>3
    <2> HIDE DEF new
    <2>6. CASE id \in Legacy /\ ~Existing(id)
      <3>1. request[<<id, n>>] = "idle"
        BY <2>6, NextNumber DEF UnderWay
      <3> QED BY <2>2, <2>4, <2>5, <2>6, <3>1
    <2>7. CASE id \in Legacy /\ Existing(id)
      <3>1. Number(id) = shared[id]
        BY <2>7, NextNumber
      <3> QED BY <2>1, <2>2, <2>4, <2>5, <2>7, <3>1
    <2>8. CASE id \notin Legacy
      BY <2>1, <2>2, <2>4, <2>5, <2>8
    <2> QED BY <2>6, <2>7, <2>8
  <1>6. \A q \in Requests : (request'[q] # "idle") <=> shared'[q[1]] = q[2]
    <2> SUFFICES ASSUME NEW q \in Requests
                 PROVE  (request'[q] # "idle") <=> shared'[q[1]] = q[2]
      OBVIOUS
    <2>1. PICK id \in Ids, n \in Numbers : q = <<id, n>>
      BY DEF Requests
    <2> QED BY <1>5, <2>1
  <1>7. ASSUME NEW q \in awaited'
        PROVE  request'[q] # "idle"
    <2>1. PICK id \in Legacy : q = <<id, Number(id)>>
      BY <1>3
    <2>2. id \in Ids /\ Number(id) \in Numbers
      BY <1>1, <1>2
    <2>3. shared'[id] = Number(id)
      BY <1>3, <2>1, <2>2
    <2> QED BY <1>5, <2>1, <2>2, <2>3
  <1> QED BY <1>4, <1>6, <1>7 DEF IInv, ModeRequestsShared, UnderWay

LEMMA InitHolds == Init => IInv
PROOF BY DEF Init, IInv, ModeTypes, ModeRequestsShared, UnderWay, Requests, Numbers

(* A page that is left waits for nothing.                                  *)
LEMMA LeaveKeeps ==
    ASSUME IInv, awaited' = {}, UNCHANGED <<request, shared>>
    PROVE  IInv'
PROOF BY DEF IInv, ModeTypes, ModeRequestsShared, UnderWay

LEMMA StepKeeps == IInv /\ [Next]_vars => IInv'
PROOF
  <1> SUFFICES ASSUME IInv, [Next]_vars
               PROVE  IInv'
    OBVIOUS
  <1>0. ASSUME UNCHANGED modeVars
        PROVE  IInv'
    BY <1>0 DEF modeVars, IInv, ModeTypes, ModeRequestsShared, UnderWay
  <1>1. ASSUME NEW q \in Requests, ModeAnswered(q)
        PROVE  IInv'
    BY <1>1, SettleKeeps DEF ModeAnswered, Asking, UnderWay
  <1>2. ASSUME NEW q \in Requests, AttemptFails(q)
        PROVE  IInv'
    <2>1. UnderWay(q)
      BY <1>2 DEF AttemptFails, Asking, UnderWay
    <2>2. CASE Settle(q)
      BY <2>1, <2>2, SettleKeeps
    <2>3. CASE ~Settle(q)
      BY <1>2, <2>1, <2>3, PhaseKeeps DEF AttemptFails
    <2> QED BY <2>2, <2>3
  <1>3. ASSUME NEW q \in Requests, TimesOut(q)
        PROVE  IInv'
    <2>1. UnderWay(q)
      BY <1>3 DEF TimesOut, Asking, UnderWay
    <2>2. CASE FinalAttempt(q)
      BY <1>3, <2>1, <2>2, SettleKeeps DEF TimesOut
    <2>3. CASE ~FinalAttempt(q)
      BY <1>3, <2>1, <2>3, PhaseKeeps DEF TimesOut
    <2> QED BY <2>2, <2>3
  <1>4. ASSUME NEW q \in Requests, PauseOver(q)
        PROVE  IInv'
    BY <1>4, PhaseKeeps DEF PauseOver, UnderWay
  <1>5. CASE OpenHome
    BY <1>5, AskKeeps DEF OpenHome
  <1>6. CASE OpenOther
    BY <1>6, LeaveKeeps DEF OpenOther, Goes
  <1>7. ASSUME NEW id \in Ids, OpenRun(id)
        PROVE  IInv'
    BY <1>7, LeaveKeeps DEF OpenRun, Goes
  <1>8. ASSUME NEW id \in Ids, Remove(id)
        PROVE  IInv'
    BY <1>0, <1>8 DEF Remove
  <1>9. ASSUME NEW id \in Ids, Created(id)
        PROVE  IInv'
    BY <1>9, LeaveKeeps DEF Created, Goes
  <1>10. ASSUME NEW id \in Ids, Answered(id)
         PROVE  IInv'
    BY <1>0, <1>10 DEF Answered
  <1>11. CASE Submit
    BY <1>0, <1>11 DEF Submit
  <1>12. CASE NotCreated
    BY <1>0, <1>12 DEF NotCreated
  <1>13. CASE Snapshot
    BY <1>0, <1>13 DEF Snapshot
  <1>14. CASE Press
    BY <1>0, <1>14 DEF Press
  <1>15. CASE Reload
    BY <1>15 DEF Reload, IInv, ModeTypes, ModeRequestsShared, UnderWay, Requests, Numbers
  <1>16. CASE UNCHANGED vars
    BY <1>0, <1>16 DEF vars
  <1> QED
    BY <1>1, <1>2, <1>3, <1>4, <1>5, <1>6, <1>7, <1>8, <1>9, <1>10, <1>11,
       <1>12, <1>13, <1>14, <1>15, <1>16 DEF Next, Timers

(* However pages come and go and requests end, a run has at most one mode  *)
(* request under way, the map knows it, and no page waits for a request    *)
(* that is over (recentModeRequests in HomePage.tsx).                      *)
THEOREM ModesShared == Spec => []ModeRequestsShared
PROOF
  <1>1. IInv => ModeRequestsShared
    BY DEF IInv
  <1> QED BY <1>1, InitHolds, StepKeeps, PTL DEF Spec
-----------------------------------------------------------------------------
(* The list and what is done to it.                                        *)

LEMMA ListsAre ==
    ASSUME NEW l
    PROVE  l \in Lists <=> /\ l \in Seq(Records) /\ Len(l) <= MaxRecent
                           /\ Distinct(l)
PROOF
  <1>1. ASSUME l \in Lists
        PROVE  l \in Seq(Records) /\ Len(l) <= MaxRecent /\ Distinct(l)
    <2>1. PICK n \in 0..MaxRecent : l \in [1..n -> Records]
      BY <1>1 DEF Lists
    <2>2. n \in Nat /\ n <= MaxRecent
      BY HomeAssumption
    <2>3. l \in Seq(Records) /\ Len(l) = n
      BY <2>1, <2>2
    <2> QED BY <1>1, <2>2, <2>3 DEF Lists
  <1>2. ASSUME l \in Seq(Records), Len(l) <= MaxRecent, Distinct(l)
        PROVE  l \in Lists
    <2>1. Len(l) \in 0..MaxRecent /\ l \in [1..Len(l) -> Records]
      BY <1>2, HomeAssumption
    <2> QED BY <1>2, <2>1 DEF Lists
  <1> QED BY <1>1, <1>2

(* Without id a list holds what it held, in the same order, but for the    *)
(* record of id.                                                           *)
LEMMA WithoutIs ==
    ASSUME NEW l \in Seq(Records), Distinct(l), NEW id
    PROVE  /\ Without(l, id) \in Seq(Records)
           /\ Len(Without(l, id)) <= Len(l)
           /\ Distinct(Without(l, id))
           /\ IdsOf(Without(l, id)) = IdsOf(l) \ {id}
           /\ \A i \in 1..Len(Without(l, id)) :
                 \E j \in 1..Len(l) : Without(l, id)[i] = l[j] /\ l[j].id # id
PROOF
  <1> DEFINE rest == IF id \in IdsOf(l) THEN Len(l) - 1 ELSE Len(l)
             at(i) == IF id \in {l[j].id : j \in 1..i} THEN i + 1 ELSE i
             w == Without(l, id)
  <1>1. Len(l) \in Nat /\ DOMAIN l = 1..Len(l) /\ \A i \in 1..Len(l) : l[i] \in Records
    OBVIOUS
  <1>2. rest \in Nat /\ rest <= Len(l)
    BY <1>1 DEF IdsOf
  <1>3. ASSUME NEW i \in 1..rest
        PROVE  at(i) \in 1..Len(l) /\ l[at(i)].id # id
    <2>1. CASE \E k \in 1..i : l[k].id = id
      <3>1. PICK k \in 1..i : l[k].id = id
        BY <2>1
      <3>2. id \in IdsOf(l)
        BY <1>1, <1>2, <3>1 DEF IdsOf
      <3>3. i + 1 \in 1..Len(l) /\ k \in 1..Len(l) /\ k # i + 1
        BY <1>1, <1>2, <3>1, <3>2
      <3>4. l[i + 1].id # id
        BY <1>1, <3>1, <3>3 DEF Distinct
      <3> QED BY <3>1, <3>3, <3>4
    <2>2. CASE ~ \E k \in 1..i : l[k].id = id
      BY <1>1, <1>2, <2>2
    <2> QED BY <2>1, <2>2
  <1>4. w = [i \in 1..rest |-> l[at(i)]]
    BY DEF Without
  <1> HIDE DEF w, rest
  <1>5. w \in [1..rest -> Records]
    BY <1>1, <1>3, <1>4
  <1>6. w \in Seq(Records) /\ Len(w) = rest /\ DOMAIN w = 1..rest
    BY <1>2, <1>5
  <1>7. \A i, j \in 1..rest : i < j => at(i) < at(j)
    BY <1>2
  <1>8. Distinct(w)
    <2> SUFFICES ASSUME NEW i \in 1..rest, NEW j \in 1..rest, w[i].id = w[j].id
                 PROVE  i = j
      BY <1>6 DEF Distinct
    <2>1. at(i) \in 1..Len(l) /\ at(j) \in 1..Len(l) /\ l[at(i)].id = l[at(j)].id
      BY <1>3, <1>4
    <2>2. at(i) = at(j)
      BY <1>1, <2>1 DEF Distinct
    <2> HIDE DEF at
    <2> QED BY <1>2, <1>7, <2>1, <2>2
  <1>9. ASSUME NEW k \in 1..Len(l), l[k].id # id
        PROVE  \E i \in 1..rest : at(i) = k
    <2>1. CASE \E g \in 1..(k - 1) : l[g].id = id
      <3>1. PICK g \in 1..(k - 1) : l[g].id = id
        BY <2>1
      <3>2. id \in IdsOf(l)
        BY <1>1, <3>1 DEF IdsOf
      <3>3. k - 1 \in 1..rest
        BY <1>1, <3>1, <3>2 DEF rest
      <3> QED BY <3>1, <3>3
    <2>2. CASE ~ \E g \in 1..(k - 1) : l[g].id = id
      <3>1. ~ \E g \in 1..k : l[g].id = id
        BY <1>9, <2>2
      <3>2. k \in 1..rest
        <4>1. CASE id \in IdsOf(l)
          <5>1. PICK g \in 1..Len(l) : l[g].id = id
            BY <1>1, <4>1 DEF IdsOf
          <5>2. g > k
            BY <1>1, <3>1, <5>1
          <5> QED BY <1>1, <4>1, <5>1, <5>2 DEF rest
        <4>2. CASE id \notin IdsOf(l)
          BY <1>1, <4>2 DEF rest
        <4> QED BY <4>1, <4>2
      <3> QED BY <3>1, <3>2
    <2> QED BY <2>1, <2>2
  <1>10. IdsOf(w) = {l[at(i)].id : i \in 1..rest}
    BY <1>4, <1>6 DEF IdsOf
  <1>11. IdsOf(w) = IdsOf(l) \ {id}
    <2> HIDE DEF at
    <2>1. IdsOf(l) = {l[k].id : k \in 1..Len(l)}
      BY <1>1 DEF IdsOf
    <2> QED BY <1>3, <1>9, <1>10, <2>1
  <1>12. \A i \in 1..rest : \E j \in 1..Len(l) : w[i] = l[j] /\ l[j].id # id
    BY <1>3, <1>4
  <1> QED BY <1>2, <1>6, <1>8, <1>11, <1>12 DEF w

(* slice(0, MAX_RECENT) leaves a list alone and makes one of a longer      *)
(* sequence.                                                               *)
LEMMA CutIs ==
    ASSUME NEW l \in Seq(Records), Distinct(l)
    PROVE  /\ Cut(l) \in Lists
           /\ Len(Cut(l)) <= Len(l)
           /\ \A i \in 1..Len(Cut(l)) : Cut(l)[i] = l[i]
           /\ l \in Lists => Cut(l) = l
PROOF
  <1> DEFINE n == IF Len(l) < MaxRecent THEN Len(l) ELSE MaxRecent
  <1>1. n \in 0..Len(l) /\ n <= MaxRecent
    BY HomeAssumption
  <1> HIDE DEF n
  <1>2. Cut(l) = SubSeq(l, 1, n)
    BY DEF Cut, n
  <1>3. \A i \in 1..n : l[i] \in Records
    BY <1>1
  <1>4. /\ Cut(l) \in Seq(Records)
        /\ Len(Cut(l)) = n
        /\ \A i \in 1..n : Cut(l)[i] = l[i]
    BY <1>1, <1>2, <1>3
  <1>5. Distinct(Cut(l))
    BY <1>1, <1>4 DEF Distinct
  <1>6. l \in Lists => Cut(l) = l
    <2> SUFFICES ASSUME l \in Lists
                 PROVE  Cut(l) = l
      OBVIOUS
    <2>1. n = Len(l)
      BY ListsAre, HomeAssumption DEF n
    <2> QED BY <1>4, <2>1, SeqEqual
  <1> QED BY <1>1, <1>4, <1>5, <1>6, ListsAre

(* saveRecentResearch leaves a list, with the run in front and otherwise   *)
(* only records that were there.                                           *)
LEMMA SavedIs ==
    ASSUME list \in Lists, NEW id \in Ids
    PROVE  /\ Saved(id) \in Lists
           /\ \A i \in 1..Len(Saved(id)) :
                 \/ Saved(id)[i] = [id |-> id, mode |-> TRUE]
                 \/ \E j \in 1..Len(list) : /\ Saved(id)[i] = list[j]
                                            /\ list[j].id # id
PROOF
  <1> DEFINE new == [id |-> id, mode |-> TRUE]
             w == Without(list, id)
             s == <<new>> \o w
  <1>1. list \in Seq(Records) /\ Distinct(list)
    BY ListsAre
  <1>2. /\ w \in Seq(Records) /\ Distinct(w)
        /\ \A i \in 1..Len(w) : \E j \in 1..Len(list) : w[i] = list[j] /\ list[j].id # id
    BY <1>1, WithoutIs
  <1>3. new \in Records /\ new.id = id
    BY DEF Records
  <1> HIDE DEF w, new
  <1>4. /\ s \in Seq(Records)
        /\ Len(s) = Len(w) + 1
        /\ s[1] = new
        /\ \A i \in 2..Len(s) : s[i] = w[i - 1]
    <2>1. <<new>> \in Seq(Records) /\ Len(<<new>>) = 1 /\ <<new>>[1] = new
      BY <1>3
    <2> QED BY <1>2, <2>1
  <1> HIDE DEF s
  <1>5. \A i \in 2..Len(s) : \E j \in 1..Len(list) : s[i] = list[j] /\ list[j].id # id
    <2> SUFFICES ASSUME NEW i \in 2..Len(s)
                 PROVE  \E j \in 1..Len(list) : s[i] = list[j] /\ list[j].id # id
      OBVIOUS
    <2>1. i - 1 \in 1..Len(w)
      BY <1>2, <1>4
    <2> QED BY <1>2, <1>4, <2>1
  <1>6. Distinct(s)
    <2> SUFFICES ASSUME NEW i \in 1..Len(s), NEW j \in 1..Len(s), s[i].id = s[j].id
                 PROVE  i = j
      BY <1>4 DEF Distinct
    <2>1. CASE i = 1 \/ j = 1
      BY <1>3, <1>4, <1>5, <2>1
    <2>2. CASE i # 1 /\ j # 1
      <3>1. /\ i - 1 \in 1..Len(w) /\ j - 1 \in 1..Len(w)
            /\ w[i - 1].id = w[j - 1].id
        BY <1>2, <1>4, <2>2
      <3>2. i - 1 = j - 1
        BY <1>2, <3>1 DEF Distinct
      <3> QED BY <3>2
    <2> QED BY <2>1, <2>2
  <1>7. Saved(id) = Cut(s)
    BY DEF Saved, s, w, new
  <1>8. /\ Cut(s) \in Lists /\ Len(Cut(s)) <= Len(s)
        /\ \A i \in 1..Len(Cut(s)) : Cut(s)[i] = s[i]
    BY <1>4, <1>6, CutIs
  <1>9. ASSUME NEW i \in 1..Len(Cut(s))
        PROVE  \/ Cut(s)[i] = new
               \/ \E j \in 1..Len(list) : Cut(s)[i] = list[j] /\ list[j].id # id
    <2>1. i \in 1..Len(s) /\ Cut(s)[i] = s[i]
      BY <1>4, <1>8, ListsAre
    <2> QED BY <1>4, <1>5, <2>1
  <1> QED BY <1>7, <1>8, <1>9 DEF new

(* updateRecentResearchMode changes nothing but a mode.                    *)
LEMMA WithModeIs ==
    ASSUME list \in Lists, NEW id \in Ids
    PROVE  /\ WithMode(id) \in Lists
           /\ Len(WithMode(id)) = Len(list)
           /\ \A i \in 1..Len(list) : /\ WithMode(id)[i].id = list[i].id
                                      /\ list[i].mode => WithMode(id)[i].mode
PROOF
  <1>1. list \in Seq(Records) /\ Len(list) <= MaxRecent /\ Distinct(list)
    BY ListsAre
  <1>2. \A i \in 1..Len(list) :
           LET r == IF list[i].id = id THEN [list[i] EXCEPT !.mode = TRUE] ELSE list[i]
           IN  /\ r \in Records /\ r.id = list[i].id
               /\ list[i].mode => r.mode
    <2> SUFFICES ASSUME NEW i \in 1..Len(list)
                 PROVE  LET r == IF list[i].id = id THEN [list[i] EXCEPT !.mode = TRUE]
                                 ELSE list[i]
                        IN  /\ r \in Records /\ r.id = list[i].id
                            /\ list[i].mode => r.mode
      OBVIOUS
    <2>1. list[i] \in Records
      BY <1>1
    <2> QED BY <2>1 DEF Records
  <1>3. WithMode(id) =
           [i \in 1..Len(list) |->
              IF list[i].id = id THEN [list[i] EXCEPT !.mode = TRUE] ELSE list[i]]
    BY <1>1 DEF WithMode
  <1>4. WithMode(id) \in Seq(Records) /\ Len(WithMode(id)) = Len(list)
    BY <1>1, <1>2, <1>3
  <1>5. \A i \in 1..Len(list) : /\ WithMode(id)[i].id = list[i].id
                                /\ list[i].mode => WithMode(id)[i].mode
    BY <1>2, <1>3
  <1>6. Distinct(WithMode(id))
    BY <1>1, <1>4, <1>5 DEF Distinct
  <1> QED BY <1>1, <1>4, <1>5, <1>6, ListsAre

-----------------------------------------------------------------------------
(* Types, but for those of the requests.                                   *)
PageTypes ==
    /\ list \in Lists /\ shown \in Lists
    /\ page \in {"home", "run", "other"}
    /\ opened \in Ids \cup {NoId}
    /\ (page = "run") <=> (opened # NoId)
    /\ pressed \subseteq Ids /\ unborn \subseteq Ids
    /\ submitting \in BOOLEAN /\ creating \in 0..MaxCreations
    /\ submitting => page = "home" /\ creating > 0
    /\ page # "home" => shown = <<>> /\ awaited = {}

LEMMA TypesAre == ModeTypes /\ PageTypes <=> TypeOK
PROOF BY DEF ModeTypes, PageTypes, TypeOK

LEMMA NoRecords == <<>> \in Lists
PROOF
  <1>1. <<>> \in Seq(Records) /\ Len(<<>>) = 0 /\ DOMAIN <<>> = {}
    OBVIOUS
  <1>2. Len(<<>>) <= MaxRecent /\ Distinct(<<>>)
    BY <1>1, HomeAssumption DEF Distinct
  <1> QED BY <1>1, <1>2, ListsAre

LEMMA CutOfList ==
    ASSUME NEW l \in Lists
    PROVE  Cut(l) = l
PROOF BY ListsAre, CutIs

LEMMA WithoutOfList ==
    ASSUME NEW l \in Lists, NEW id
    PROVE  Without(l, id) \in Lists
PROOF
  <1>1. l \in Seq(Records) /\ Len(l) <= MaxRecent /\ Distinct(l)
    BY ListsAre
  <1>2. /\ Without(l, id) \in Seq(Records) /\ Distinct(Without(l, id))
        /\ Len(Without(l, id)) <= Len(l)
    BY <1>1, WithoutIs
  <1>3. Len(Without(l, id)) <= MaxRecent
    BY <1>1, <1>2, HomeAssumption
  <1> QED BY <1>2, <1>3, ListsAre

LEMMA PageTypesInit == Init => PageTypes
PROOF
  <1>1. 0 \in 0..MaxCreations
    BY HomeAssumption
  <1>2. Init => shown \in Lists
    BY NoRecords DEF Init
  <1> QED BY <1>1, <1>2 DEF Init, PageTypes

(* What a settled request or a page that is left does to the awaited       *)
(* requests, the other pages wait for none.                                *)
LEMMA PageTypesStep == TypeOK /\ [Next]_vars => PageTypes'
PROOF
  <1> SUFFICES ASSUME PageTypes, [Next]_vars
               PROVE  PageTypes'
    BY TypesAre
  <1> USE HomeAssumption
  <1>1. ASSUME NEW q \in Requests, ModeAnswered(q)
        PROVE  PageTypes'
    <2>1. list' \in Lists
      <3>1. q[1] \in Ids
        BY DEF Requests
      <3> QED BY <1>1, <3>1, WithModeIs DEF ModeAnswered, PageTypes
    <2>2. shown' \in Lists
      BY <1>1, <2>1, CutOfList DEF ModeAnswered, PageTypes
    <2>3. page # "home" => shown' = shown /\ awaited' = {}
      BY <1>1 DEF ModeAnswered, Settle, PageTypes
    <2>4. UNCHANGED <<page, opened, pressed, submitting, creating, unborn>>
      BY <1>1 DEF ModeAnswered
    <2> QED BY <2>1, <2>2, <2>3, <2>4 DEF PageTypes
  <1>2. ASSUME NEW q \in Requests, AttemptFails(q) \/ TimesOut(q) \/ PauseOver(q)
        PROVE  PageTypes'
    <2>1. UNCHANGED <<list, page, opened, pressed, submitting, creating, unborn, shown>>
      BY <1>2 DEF AttemptFails, TimesOut, PauseOver
    <2>2. awaited = {} => awaited' = {}
      BY <1>2 DEF AttemptFails, TimesOut, PauseOver, Settle
    <2> QED BY <2>1, <2>2 DEF PageTypes
  <1>3. CASE OpenHome
    BY <1>3, CutOfList DEF OpenHome, PageTypes
  <1>4. CASE OpenOther
    BY <1>4, NoRecords DEF OpenOther, Goes, PageTypes
  <1>5. ASSUME NEW id \in Ids, OpenRun(id)
        PROVE  PageTypes'
    BY <1>5, NoRecords DEF OpenRun, Goes, PageTypes
  <1>6. ASSUME NEW id \in Ids, Remove(id)
        PROVE  PageTypes'
    <2>1. list' \in Lists /\ shown' \in Lists /\ page = "home"
      BY <1>6, WithoutOfList DEF Remove, ShownWithout, PageTypes
    <2>2. UNCHANGED <<page, opened, pressed, submitting, creating, unborn, modeVars>>
      BY <1>6 DEF Remove
    <2> QED BY <2>1, <2>2 DEF PageTypes, modeVars
  <1>7. ASSUME NEW id \in Ids, Created(id)
        PROVE  PageTypes'
    <2>1. list' \in Lists
      BY <1>7, SavedIs DEF Created, PageTypes
    <2>2. creating' \in 0..MaxCreations
      BY <1>7 DEF Created, PageTypes
    <2>3. shown' \in Lists
      BY <1>7, NoRecords DEF Created, Goes
    <2> QED BY <1>7, <2>1, <2>2, <2>3 DEF Created, Goes, PageTypes
  <1>8. ASSUME NEW id \in Ids, Answered(id)
        PROVE  PageTypes'
    <2>1. list' \in Lists
      BY <1>8, SavedIs DEF Answered, PageTypes
    <2> QED BY <1>8, <2>1 DEF Answered, PageTypes, modeVars
  <1>9. CASE Submit
    BY <1>9 DEF Submit, PageTypes, modeVars
  <1>10. CASE NotCreated
    <2>1. creating' \in 0..MaxCreations
      BY <1>10 DEF NotCreated, PageTypes
    <2>2. /\ submitting' \in BOOLEAN
          /\ submitting' => submitting /\ creating' > 0
      <3>1. CASE submitting'
        <4>1. creating > (IF submitting THEN 1 ELSE 0) /\ submitting' = submitting
          BY <1>10, <3>1 DEF NotCreated
        <4>2. submitting /\ creating > 1 /\ creating' = creating - 1
          BY <1>10, <3>1, <4>1 DEF NotCreated
        <4> QED BY <4>1, <4>2 DEF PageTypes
      <3>2. CASE ~submitting'
        BY <1>10, <3>2 DEF NotCreated, PageTypes
      <3> QED BY <3>1, <3>2
    <2>3. UNCHANGED <<list, page, opened, pressed, unborn, shown, awaited>>
      BY <1>10 DEF NotCreated, modeVars
    <2> QED BY <2>1, <2>2, <2>3 DEF PageTypes
  <1>11. CASE Snapshot
    <2>1. list' \in Lists
      BY <1>11, SavedIs DEF Snapshot, PageTypes
    <2> QED BY <1>11, <2>1 DEF Snapshot, PageTypes, modeVars
  <1>12. CASE Press
    BY <1>12 DEF Press, PageTypes, modeVars
  <1>13. CASE Reload
    <2>1. 0 \in 0..MaxCreations
      OBVIOUS
    <2>2. shown' \in Lists
      BY <1>13, NoRecords DEF Reload
    <2> QED BY <1>13, <2>1, <2>2 DEF Reload, PageTypes
  <1>14. CASE UNCHANGED vars
    BY <1>14 DEF vars, modeVars, PageTypes
  <1> QED
    BY <1>1, <1>2, <1>3, <1>4, <1>5, <1>6, <1>7, <1>8, <1>9, <1>10, <1>11,
       <1>12, <1>13, <1>14 DEF Next, Timers

(* A list never holds a run twice nor more than MAX_RECENT records, what   *)
(* is shown included; only the home page shows records or waits for modes. *)
THEOREM HomeTypes == Spec => []TypeOK
PROOF
  <1>1. Init => TypeOK /\ ModeRequestsShared
    BY InitHolds, PageTypesInit, TypesAre DEF IInv
  <1>2. (TypeOK /\ ModeRequestsShared) /\ [Next]_vars => (TypeOK /\ ModeRequestsShared)'
    <2> SUFFICES ASSUME TypeOK, ModeRequestsShared, [Next]_vars
                 PROVE  (TypeOK /\ ModeRequestsShared)'
      OBVIOUS
    <2>1. IInv'
      BY StepKeeps, TypesAre DEF IInv
    <2>2. PageTypes'
      BY PageTypesStep
    <2>3. ModeTypes' /\ PageTypes' => TypeOK'
      BY DEF ModeTypes, PageTypes, TypeOK
    <2> QED BY <2>1, <2>2, <2>3 DEF IInv
  <1> QED BY <1>1, <1>2, PTL DEF Spec

-----------------------------------------------------------------------------
(* A step that leaves the list alone, and the three that change it.        *)
LEMMA ListKept ==
    ASSUME list \in Lists, list' = list
    PROVE  NothingComesBack /\ ModesAreKept
PROOF
  <1>1. DOMAIN list = 1..Len(list) /\ Distinct(list)
    BY ListsAre
  <1> QED BY <1>1 DEF NothingComesBack, ModesAreKept, Distinct

LEMMA ListWithout ==
    ASSUME list \in Lists, NEW id, list' = Without(list, id)
    PROVE  NothingComesBack /\ ModesAreKept
PROOF
  <1>1. list \in Seq(Records) /\ Distinct(list)
    BY ListsAre
  <1>2. /\ list' \in Seq(Records)
        /\ IdsOf(list') \subseteq IdsOf(list)
        /\ \A i \in 1..Len(list') : \E j \in 1..Len(list) : list'[i] = list[j]
    BY <1>1, WithoutIs
  <1>3. NothingComesBack
    BY <1>2 DEF NothingComesBack
  <1>4. ASSUME NEW i \in DOMAIN list, NEW j \in DOMAIN list', list[i].id = list'[j].id
        PROVE  list[i].mode => list'[j].mode
    <2>1. PICK k \in 1..Len(list) : list'[j] = list[k]
      BY <1>2
    <2>2. k = i
      BY <1>1, <1>4, <2>1 DEF Distinct
    <2> QED BY <2>1, <2>2
  <1> QED BY <1>3, <1>4 DEF ModesAreKept

LEMMA ListSaved ==
    ASSUME list \in Lists, NEW id \in Ids, list' = Saved(id),
           id = opened \/ id \in pressed \/ id \in unborn
    PROVE  NothingComesBack /\ ModesAreKept
PROOF
  <1>1. list \in Seq(Records) /\ Distinct(list)
    BY ListsAre
  <1>2. /\ list' \in Seq(Records)
        /\ \A i \in 1..Len(list') :
              \/ list'[i] = [id |-> id, mode |-> TRUE]
              \/ \E j \in 1..Len(list) : list'[i] = list[j]
    BY SavedIs, ListsAre
  <1>3. NothingComesBack
    <2> SUFFICES ASSUME NEW i \in 1..Len(list'), list'[i].id \notin IdsOf(list)
                 PROVE  list'[i].id = id
      BY <1>2 DEF NothingComesBack, IdsOf
    <2> QED BY <1>1, <1>2 DEF IdsOf
  <1>4. ASSUME NEW i \in DOMAIN list, NEW j \in DOMAIN list', list[i].id = list'[j].id
        PROVE  list[i].mode => list'[j].mode
    <2>1. CASE list'[j] = [id |-> id, mode |-> TRUE]
      BY <2>1
    <2>2. CASE \E k \in 1..Len(list) : list'[j] = list[k]
      <3>1. PICK k \in 1..Len(list) : list'[j] = list[k]
        BY <2>2
      <3>2. k = i
        BY <1>1, <1>4, <3>1 DEF Distinct
      <3> QED BY <3>1, <3>2
    <2> QED BY <1>2, <2>1, <2>2
  <1> QED BY <1>3, <1>4 DEF ModesAreKept

LEMMA ListWithMode ==
    ASSUME list \in Lists, NEW id \in Ids, list' = WithMode(id)
    PROVE  NothingComesBack /\ ModesAreKept
PROOF
  <1>1. list \in Seq(Records) /\ Distinct(list)
    BY ListsAre
  <1>2. /\ list' \in Seq(Records) /\ Len(list') = Len(list)
        /\ \A i \in 1..Len(list) : list'[i].id = list[i].id
    <2>1. WithMode(id) \in Lists
      BY WithModeIs
    <2>2. /\ Len(WithMode(id)) = Len(list)
          /\ \A i \in 1..Len(list) : WithMode(id)[i].id = list[i].id
      BY WithModeIs
    <2>3. WithMode(id) \in Seq(Records)
      BY <2>1, ListsAre
    <2> QED BY <2>2, <2>3, Zenon
  <1>3. \A i \in 1..Len(list) : list[i].mode => list'[i].mode
    <2>1. \A i \in 1..Len(list) : list[i].mode => WithMode(id)[i].mode
      BY WithModeIs
    <2> QED BY <2>1, Zenon
  <1>4. DOMAIN list = 1..Len(list) /\ DOMAIN list' = 1..Len(list)
    BY <1>1, <1>2
  <1>5. NothingComesBack
    <2>1. IdsOf(list') = IdsOf(list)
      BY <1>2, <1>4 DEF IdsOf
    <2> QED BY <2>1 DEF NothingComesBack
  <1>6. ASSUME NEW i \in DOMAIN list, NEW j \in DOMAIN list', list[i].id = list'[j].id
        PROVE  list[i].mode => list'[j].mode
    <2>1. i \in 1..Len(list) /\ j \in 1..Len(list) /\ list[i].id = list[j].id
      BY <1>2, <1>6, <1>4
    <2>2. i = j
      BY <1>1, <1>4, <2>1 DEF Distinct
    <2> QED BY <1>3, <2>1, <2>2
  <1> QED BY <1>5, <1>6 DEF ModesAreKept

LEMMA StepAgrees ==
    TypeOK /\ [Next]_vars => [StaysInStep /\ NothingComesBack /\ ModesAreKept]_vars
PROOF
  <1> DEFINE P == StaysInStep /\ NothingComesBack /\ ModesAreKept
  <1> SUFFICES ASSUME PageTypes, Next
               PROVE  P
    BY TypesAre
  <1>0. ASSUME UNCHANGED <<list, shown>>
        PROVE  P
    BY <1>0, ListKept DEF PageTypes, StaysInStep
  <1>1. ASSUME NEW q \in Requests, ModeAnswered(q)
        PROVE  P
    <2>1. CASE q \in awaited
      <3>1. list' = WithMode(q[1]) /\ shown' = Cut(list')
        BY <1>1, <2>1 DEF ModeAnswered
      <3>2. list' \in Lists /\ q[1] \in Ids
        BY <3>1, WithModeIs DEF PageTypes, Requests
      <3>3. StaysInStep
        BY <3>1, <3>2, CutOfList DEF StaysInStep
      <3> QED BY <3>1, <3>2, <3>3, ListWithMode DEF PageTypes
    <2>2. CASE q \notin awaited
      BY <1>0, <1>1, <2>2 DEF ModeAnswered
    <2> QED BY <2>1, <2>2
  <1>2. ASSUME NEW q \in Requests, AttemptFails(q) \/ TimesOut(q) \/ PauseOver(q)
        PROVE  P
    <2>1. UNCHANGED <<list, shown>>
      BY <1>2 DEF AttemptFails, TimesOut, PauseOver
    <2> QED BY <1>0, <2>1
  <1>3. CASE OpenHome \/ OpenOther \/ Reload
    <2>1. list' = list /\ ~(page = "home" /\ page' = "home")
      BY <1>3 DEF OpenHome, OpenOther, Reload, Goes
    <2>2. list \in Lists
      BY DEF PageTypes
    <2> QED BY <2>1, <2>2, ListKept DEF StaysInStep
  <1>4. ASSUME NEW id \in Ids, OpenRun(id)
        PROVE  P
    <2>1. list' = list /\ page' = "run"
      BY <1>4 DEF OpenRun, Goes
    <2> QED BY <2>1, ListKept DEF PageTypes, StaysInStep
  <1>5. ASSUME NEW id \in Ids, Remove(id)
        PROVE  P
    <2>1. list' = Without(list, id) /\ shown' = Without(shown, id)
      BY <1>5 DEF Remove, ShownWithout
    <2> QED BY <2>1, ListWithout DEF PageTypes, StaysInStep
  <1>6. ASSUME NEW id \in Ids, Created(id)
        PROVE  P
    <2>1. list' = Saved(id) /\ id \in unborn /\ page' = "run"
      BY <1>6 DEF Created, Goes
    <2> QED BY <2>1, ListSaved DEF PageTypes, StaysInStep
  <1>7. ASSUME NEW id \in Ids, Answered(id)
        PROVE  P
    <2>1. id \in pressed /\ pressed' # pressed /\ list' \in {Saved(id), list}
      BY <1>7 DEF Answered
    <2> QED BY <2>1, ListSaved, ListKept DEF PageTypes, StaysInStep
  <1>8. CASE Snapshot
    <2>1. list' = Saved(opened) /\ page = "run" /\ opened \in Ids
      BY <1>8 DEF Snapshot, PageTypes
    <2> QED BY <2>1, ListSaved DEF PageTypes, StaysInStep
  <1>9. CASE Submit \/ NotCreated \/ Press
    BY <1>0, <1>9 DEF Submit, NotCreated, Press
  <1> QED
    BY <1>1, <1>2, <1>3, <1>4, <1>5, <1>6, <1>7, <1>8, <1>9 DEF Next, Timers

(* Storage and the open home page change together, a record that was       *)
(* removed or displaced comes back only with a snapshot of its run, and a  *)
(* known mode is not forgotten: whatever late answers, retries, creations  *)
(* and pages come in between (lib/recent.ts and its callers).              *)
THEOREM StorageAgrees == Spec => HomeAndStorageAgree
PROOF BY HomeTypes, StepAgrees, PTL DEF Spec, HomeAndStorageAgree

=============================================================================
