--------------------------- MODULE TaskQueueProofs ---------------------------
(***************************************************************************)
(* For every set of task ids and all limits the constructor accepts, the   *)
(* safety invariants of TaskQueue and its first-come-first-served order.   *)
(* The argument: while somebody waits every slot is taken                  *)
(* (WorkConserving), so a finished task hands its slot to exactly the head *)
(* of the line; with that, every action moves one id at a time and the     *)
(* counting is that of a finite set with one element added or removed.     *)
(***************************************************************************)
EXTENDS TaskQueue, FiniteSetTheorems, SequenceTheorems, TLAPS

IInv ==
    /\ TypeOK
    /\ IsFiniteSet(Active)
    /\ CapacityBound
    /\ AdmittedOnce
    /\ WorkConserving
    /\ FutureMatchesAdmission
    /\ ShutdownIsComplete

-----------------------------------------------------------------------------
(* What removing one position does to a sequence.                          *)
LEMMA RemoveAtProperties ==
    ASSUME NEW S, NEW s \in Seq(S), NEW i \in 1..Len(s)
    PROVE  /\ RemoveAt(s, i) \in Seq(S)
           /\ Len(RemoveAt(s, i)) = Len(s) - 1
           /\ \A j \in 1..(Len(s) - 1) :
                 RemoveAt(s, i)[j] = s[IF j < i THEN j ELSE j + 1]
PROOF
  <1> DEFINE before == SubSeq(s, 1, i - 1)
             after == SubSeq(s, i + 1, Len(s))
  <1>1. Len(s) \in Nat /\ i \in Nat /\ i >= 1 /\ i <= Len(s)
    OBVIOUS
  <1>2. /\ before \in Seq(S)
        /\ Len(before) = i - 1
        /\ \A j \in 1..(i - 1) : before[j] = s[j]
    BY <1>1
  <1>3. /\ after \in Seq(S)
        /\ Len(after) = Len(s) - i
        /\ \A j \in 1..(Len(s) - i) : after[j] = s[i + j]
    BY <1>1
  <1> HIDE DEF before, after
  <1>4. /\ before \o after \in Seq(S)
        /\ Len(before \o after) = Len(s) - 1
    <2>1. /\ before \o after \in Seq(S)
          /\ Len(before \o after) = Len(before) + Len(after)
      BY <1>2, <1>3, ConcatProperties
    <2> QED BY <1>1, <1>2, <1>3, <2>1
  <1>5. ASSUME NEW j \in 1..(Len(s) - 1)
        PROVE  (before \o after)[j] = s[IF j < i THEN j ELSE j + 1]
    <2>1. CASE j < i
      BY <1>1, <1>2, <1>3, <2>1
    <2>2. CASE ~(j < i)
      <3>1. (before \o after)[j] = after[j - (i - 1)]
        BY <1>1, <1>2, <1>3, <2>2
      <3>2. j - (i - 1) \in 1..(Len(s) - i)
        BY <1>1, <2>2
      <3>3. after[j - (i - 1)] = s[i + (j - (i - 1))]
        BY <1>3, <3>2
      <3> QED BY <1>1, <2>2, <3>1, <3>3
    <2> QED BY <2>1, <2>2
  <1> QED BY <1>4, <1>5 DEF RemoveAt, before, after

(* The ids in the line, by position.                                       *)
LEMMA WaitingByPosition ==
    ASSUME NEW s \in Seq(TaskIds)
    PROVE  ToSet(s) = {s[i] : i \in 1..Len(s)}
PROOF BY DEF ToSet

(* A line without repetitions.                                             *)
Distinct(s) == \A i, j \in 1..Len(s) : s[i] = s[j] => i = j

(* Joining the line at its end.                                            *)
LEMMA LineAppend ==
    ASSUME NEW s \in Seq(TaskIds), NEW id \in TaskIds,
           Distinct(s), id \notin ToSet(s)
    PROVE  /\ Append(s, id) \in Seq(TaskIds)
           /\ Len(Append(s, id)) = Len(s) + 1
           /\ ToSet(Append(s, id)) = ToSet(s) \cup {id}
           /\ Distinct(Append(s, id))
PROOF
  <1>1. /\ Append(s, id) \in Seq(TaskIds)
        /\ Len(s) \in Nat
        /\ Len(Append(s, id)) = Len(s) + 1
        /\ \A i \in 1..Len(s) : Append(s, id)[i] = s[i]
        /\ Append(s, id)[Len(s) + 1] = id
    BY AppendProperties, LenProperties
  <1>2. ToSet(s) = {s[i] : i \in 1..Len(s)}
    BY WaitingByPosition
  <1>3. ToSet(Append(s, id)) = {Append(s, id)[i] : i \in 1..(Len(s) + 1)}
    BY <1>1, WaitingByPosition
  <1>4. 1..(Len(s) + 1) = 1..Len(s) \cup {Len(s) + 1}
    BY <1>1
  <1>5. ToSet(Append(s, id)) = ToSet(s) \cup {id}
    BY <1>1, <1>2, <1>3, <1>4
  <1>6. \A i \in 1..Len(s) : s[i] # id
    BY <1>2
  <1>7. Distinct(Append(s, id))
    BY <1>1, <1>6 DEF Distinct
  <1> QED BY <1>1, <1>5, <1>7

(* Leaving the line from any position.                                     *)
LEMMA LineRemove ==
    ASSUME NEW s \in Seq(TaskIds), NEW i \in 1..Len(s), Distinct(s)
    PROVE  /\ ToSet(RemoveAt(s, i)) = ToSet(s) \ {s[i]}
           /\ Distinct(RemoveAt(s, i))
PROOF
  <1> DEFINE r == RemoveAt(s, i)
             old(j) == IF j < i THEN j ELSE j + 1
  <1>1. /\ r \in Seq(TaskIds)
        /\ Len(r) = Len(s) - 1
        /\ \A j \in 1..(Len(s) - 1) : r[j] = s[old(j)]
    BY RemoveAtProperties
  <1>2. Len(s) \in Nat /\ i \in Nat /\ 1 <= i /\ i <= Len(s)
    BY LenProperties
  <1> HIDE DEF r
  <1>3. /\ ToSet(s) = {s[j] : j \in 1..Len(s)}
        /\ ToSet(r) = {r[j] : j \in 1..(Len(s) - 1)}
    BY <1>1, WaitingByPosition
  <1>4. \A j \in 1..(Len(s) - 1) : old(j) \in 1..Len(s) /\ old(j) # i
    BY <1>2
  <1>5. \A k \in 1..Len(s) : k # i => \E j \in 1..(Len(s) - 1) : old(j) = k
    <2> SUFFICES ASSUME NEW k \in 1..Len(s), k # i
                 PROVE  \E j \in 1..(Len(s) - 1) : old(j) = k
      OBVIOUS
    <2>1. CASE k < i
      BY <1>2, <2>1
    <2>2. CASE k > i
      <3>1. k - 1 \in 1..(Len(s) - 1) /\ old(k - 1) = k
        BY <1>2, <2>2
      <3> QED BY <3>1
    <2> QED BY <1>2, <2>1, <2>2
  <1>6. ToSet(r) \subseteq ToSet(s) \ {s[i]}
    BY <1>1, <1>3, <1>4 DEF Distinct
  <1>7. ToSet(s) \ {s[i]} \subseteq ToSet(r)
    <2> SUFFICES ASSUME NEW k \in 1..Len(s), s[k] # s[i]
                 PROVE  s[k] \in ToSet(r)
      BY <1>3
    <2>1. PICK j \in 1..(Len(s) - 1) : old(j) = k
      BY <1>5
    <2> QED BY <1>1, <1>3, <2>1
  <1>8. Distinct(r)
    <2> SUFFICES ASSUME NEW j \in 1..(Len(s) - 1), NEW k \in 1..(Len(s) - 1),
                        s[old(j)] = s[old(k)]
                 PROVE  j = k
      BY <1>1 DEF Distinct
    <2>1. old(j) = old(k)
      BY <1>4 DEF Distinct
    <2> QED BY <1>2, <2>1
  <1> QED BY <1>6, <1>7, <1>8 DEF r

(* Being served from the head of the line.                                 *)
LEMMA LineTail ==
    ASSUME NEW s \in Seq(TaskIds), s # <<>>, Distinct(s)
    PROVE  /\ Head(s) \in ToSet(s)
           /\ ToSet(Tail(s)) = ToSet(s) \ {Head(s)}
           /\ Distinct(Tail(s))
PROOF
  <1>1. /\ Tail(s) \in Seq(TaskIds)
        /\ Len(s) \in Nat
        /\ Len(s) >= 1
        /\ Len(Tail(s)) = Len(s) - 1
        /\ \A j \in 1..Len(Tail(s)) : Tail(s)[j] = s[j + 1]
        /\ Head(s) = s[1]
    BY HeadTailProperties, LenProperties, EmptySeq
  <1>2. /\ ToSet(s) = {s[j] : j \in 1..Len(s)}
        /\ ToSet(Tail(s)) = {Tail(s)[j] : j \in 1..(Len(s) - 1)}
    BY <1>1, WaitingByPosition
  <1>3. Head(s) \in ToSet(s)
    BY <1>1, <1>2
  <1>4. ToSet(Tail(s)) \subseteq ToSet(s) \ {Head(s)}
    BY <1>1, <1>2 DEF Distinct
  <1>5. ToSet(s) \ {Head(s)} \subseteq ToSet(Tail(s))
    <2> SUFFICES ASSUME NEW k \in 1..Len(s), s[k] # s[1]
                 PROVE  s[k] \in ToSet(Tail(s))
      BY <1>1, <1>2
    <2>1. k - 1 \in 1..(Len(s) - 1) /\ Tail(s)[k - 1] = s[k]
      BY <1>1
    <2> QED BY <1>2, <2>1
  <1>6. Distinct(Tail(s))
    BY <1>1 DEF Distinct
  <1> QED BY <1>3, <1>4, <1>5, <1>6

(* Whoever waits implies a full house, so the loop in the final block of   *)
(* _execute promotes the head of the line if there is one, and only it.    *)
LEMMA WorkEndsEffect ==
    ASSUME IInv, NEW id \in TaskIds, NEW outcome \in Outcomes,
           WorkEnds(id, outcome)
    PROVE  \/ /\ waiting = <<>>
              /\ waiting' = <<>>
              /\ task' = [task EXCEPT ![id] = "none"]
           \/ /\ waiting # <<>>
              /\ waiting' = Tail(waiting)
              /\ Head(waiting) # id
              /\ task' = [task EXCEPT ![id] = "none", ![Head(waiting)] = "created"]
PROOF
  <1> DEFINE stay == Active \ {id}
             room == ActiveLimit - Cardinality(stay)
             n    == IF Len(waiting) < room THEN Len(waiting) ELSE room
             next == {waiting[i] : i \in 1..n}
  <1>1. /\ task' = [t \in TaskIds |-> IF t \in next THEN "created"
                                        ELSE IF t = id THEN "none" ELSE task[t]]
        /\ waiting' = SubSeq(waiting, n + 1, Len(waiting))
    BY DEF WorkEnds, Promoted
  <1>2. /\ task \in [TaskIds -> {"none", "created", "running", "dead"}]
        /\ waiting \in Seq(TaskIds) /\ Len(waiting) \in Nat
        /\ ActiveLimit \in Nat \ {0}
    BY LimitsAssumption DEF IInv, TypeOK
  <1>3. id \in Active
    BY DEF WorkEnds, Active
  <1>4. Cardinality(Active) \in Nat /\ Cardinality(stay) = Cardinality(Active) - 1
    BY <1>3, FS_CardinalityType, FS_RemoveElement DEF IInv
  <1>5. Cardinality(Active) <= ActiveLimit
    BY DEF IInv, CapacityBound
  <1>6. CASE waiting = <<>>
    <2>1. n = 0
      BY <1>2, <1>4, <1>5, <1>6
    <2>2. next = {}
      BY <2>1
    <2>3. waiting' = <<>>
      BY <1>1, <1>6, <2>1
    <2> QED BY <1>1, <1>2, <1>6, <2>2, <2>3
  <1>7. CASE waiting # <<>>
    <2>1. Cardinality(Active) = ActiveLimit
      BY <1>7 DEF IInv, WorkConserving
    <2>2. room = 1 /\ Len(waiting) >= 1
      BY <1>2, <1>4, <1>7, <2>1
    <2>3. n = 1
      BY <2>2, <1>2
    <2>4. next = {Head(waiting)} /\ Head(waiting) = waiting[1]
      BY <1>2, <1>7, <2>2, <2>3
    <2>5. waiting' = Tail(waiting)
      <3>1. waiting' = SubSeq(waiting, 2, Len(waiting))
        <4> HIDE DEF n
        <4> QED BY <1>1, <2>3
      <3> QED BY <1>2, <1>7, <3>1, TailIsSubSeq
    <2>6. Head(waiting) \in Waiting
      BY <1>2, <2>2, <2>4, WaitingByPosition DEF Waiting
    <2>7. Head(waiting) # id /\ Head(waiting) \in TaskIds
      BY <1>2, <1>3, <1>7, <2>6 DEF IInv, AdmittedOnce
    <2>8. task' = [task EXCEPT ![id] = "none", ![Head(waiting)] = "created"]
      BY <1>1, <1>2, <2>4, <2>7
    <2> QED BY <1>7, <2>5, <2>7, <2>8
  <1> QED BY <1>6, <1>7

-----------------------------------------------------------------------------
(* The inductive step, one lemma per group of actions.                     *)

LEMMA InitIInv == Init => IInv
PROOF
  <1> SUFFICES ASSUME Init PROVE IInv
    OBVIOUS
  <1>1. Active = {} /\ waiting = <<>> /\ Waiting = {}
    BY DEF Init, Active, Waiting, ToSet
  <1>2. IsFiniteSet(Active) /\ Cardinality(Active) = 0
    BY <1>1, FS_EmptySet
  <1>3. TypeOK
    BY EmptySeq DEF Init, TypeOK, Outcomes
  <1>4. CapacityBound
    BY <1>1, <1>2, LimitsAssumption DEF CapacityBound
  <1>5. AdmittedOnce /\ WorkConserving
    BY <1>1 DEF AdmittedOnce, WorkConserving
  <1>6. FutureMatchesAdmission
    BY <1>1 DEF Init, FutureMatchesAdmission, Duplicate
  <1>7. ShutdownIsComplete
    BY DEF Init, ShutdownIsComplete
  <1> QED BY <1>2, <1>3, <1>4, <1>5, <1>6, <1>7 DEF IInv

LEMMA SubmitPreserves ==
    ASSUME IInv, NEW id \in TaskIds, SubmitStarts(id) \/ SubmitWaits(id)
    PROVE  IInv'
PROOF
  <1> USE DEF IInv
  <1>1. /\ waiting \in Seq(TaskIds) /\ Len(waiting) \in Nat
        /\ Distinct(waiting)
        /\ Waiting = ToSet(waiting)
        /\ Waiting \subseteq TaskIds
    BY WaitingByPosition, LenProperties, ElementOfSeq
       DEF TypeOK, AdmittedOnce, Distinct, Waiting
  <1>2. Cardinality(Active) \in Nat
    BY FS_CardinalityType
  <1>3. ASSUME SubmitStarts(id) PROVE IInv'
    <2> USE <1>3 DEF SubmitStarts, HasSlot
    <2>1. Active' = Active \cup {id} /\ id \notin Active
      BY DEF Active, TypeOK, Duplicate
    <2>2. /\ IsFiniteSet(Active)'
          /\ Cardinality(Active') = Cardinality(Active) + 1
      BY <2>1, FS_AddElement
    <2>3. waiting = <<>>
      BY <1>2 DEF WorkConserving
    <2>4. TypeOK'
      BY DEF TypeOK, Live
    <2>5. CapacityBound'
      BY <1>1, <1>2, <2>2, LimitsAssumption DEF CapacityBound
    <2>6. AdmittedOnce'
      BY <2>1 DEF AdmittedOnce, Duplicate, Waiting
    <2>7. WorkConserving'
      BY <2>3 DEF WorkConserving
    <2>8. FutureMatchesAdmission'
      BY <2>1 DEF FutureMatchesAdmission, Duplicate, Waiting, TypeOK
    <2>9. ShutdownIsComplete'
      BY DEF ShutdownIsComplete
    <2> QED BY <2>2, <2>4, <2>5, <2>6, <2>7, <2>8, <2>9
  <1>4. ASSUME SubmitWaits(id) PROVE IInv'
    <2> USE <1>4 DEF SubmitWaits, HasSlot, HasPlace, LineWith
    <2>1. Active' = Active
      BY DEF Active
    <2>2. /\ waiting' \in Seq(TaskIds)
          /\ Len(waiting') = Len(waiting) + 1
          /\ Waiting' = Waiting \cup {id}
          /\ Distinct(waiting')
          /\ id \notin Active
      BY <1>1, LineAppend DEF Duplicate, Waiting
    <2>3. TypeOK'
      BY <2>2 DEF TypeOK, Live
    <2>4. CapacityBound'
      BY <1>1, <2>1, <2>2, LimitsAssumption DEF CapacityBound
    <2>5. AdmittedOnce'
      BY <2>1, <2>2 DEF AdmittedOnce, Distinct
    <2>6. WorkConserving'
      BY <1>2, <2>1, LimitsAssumption DEF WorkConserving, CapacityBound
    <2>7. FutureMatchesAdmission'
      BY <2>1, <2>2 DEF FutureMatchesAdmission, Duplicate, TypeOK
    <2>8. ShutdownIsComplete'
      BY DEF ShutdownIsComplete
    <2> QED BY <2>1, <2>3, <2>4, <2>5, <2>6, <2>7, <2>8
  <1> QED BY <1>3, <1>4

(* Steps that move no id into or out of the queue.                         *)
LEMMA QuietPreserves ==
    ASSUME IInv, NEW id \in TaskIds,
           Start(id) \/ CancelActive(id) \/ DeliverCancel(id)
    PROVE  IInv'
PROOF
  <1> USE DEF IInv
  <1>1. Active' = Active
    BY DEF Active, Start, CancelActive, DeliverCancel, TypeOK
  <1>2. UNCHANGED <<waiting, future, closing>> /\ Waiting' = Waiting
    BY DEF Start, CancelActive, DeliverCancel, Waiting
  <1>3. TypeOK'
    <2>1. CASE Start(id)
      BY <2>1 DEF Start, TypeOK, Live
    <2>2. CASE CancelActive(id)
      BY <2>2 DEF CancelActive, Requests, TypeOK, Live
    <2>3. CASE DeliverCancel(id)
      BY <2>3 DEF DeliverCancel, TypeOK, Live
    <2> QED BY <2>1, <2>2, <2>3
  <1>4. ShutdownIsComplete'
    <2>1. CASE Start(id)
      BY <1>2, <2>1 DEF Start, ShutdownIsComplete, Live, TypeOK
    <2>2. CASE CancelActive(id)
      BY <1>2, <2>2 DEF CancelActive, Requests, ShutdownIsComplete, Live, TypeOK
    <2>3. CASE DeliverCancel(id)
      BY <1>2, <2>3 DEF DeliverCancel, ShutdownIsComplete, Live, TypeOK
    <2> QED BY <2>1, <2>2, <2>3
  <1>5. CapacityBound' /\ AdmittedOnce' /\ WorkConserving'
    BY <1>1, <1>2 DEF CapacityBound, AdmittedOnce, WorkConserving
  <1>6. FutureMatchesAdmission'
    BY <1>1, <1>2 DEF FutureMatchesAdmission, Duplicate
  <1> QED BY <1>1, <1>3, <1>4, <1>5, <1>6

LEMMA CancelWaitingPreserves ==
    ASSUME IInv, NEW id \in TaskIds, CancelWaiting(id)
    PROVE  IInv'
PROOF
  <1> USE DEF IInv
  <1>1. PICK i \in 1..Len(waiting) :
           waiting[i] = id /\ waiting' = RemoveAt(waiting, i)
    BY DEF CancelWaiting
  <1>2. /\ waiting \in Seq(TaskIds) /\ Len(waiting) \in Nat
        /\ Distinct(waiting)
    BY LenProperties DEF TypeOK, AdmittedOnce, Distinct
  <1>3. /\ waiting' \in Seq(TaskIds)
        /\ Len(waiting') = Len(waiting) - 1
    BY <1>1, <1>2, RemoveAtProperties
  <1>4. /\ Waiting' = Waiting \ {id}
        /\ Distinct(waiting')
    BY <1>1, <1>2, LineRemove DEF Waiting
  <1>5. Active' = Active /\ id \notin Active
    BY DEF CancelWaiting, Active
  <1>6. TypeOK'
    BY <1>3 DEF CancelWaiting, TypeOK, Live, Outcomes
  <1>7. CapacityBound'
    BY <1>2, <1>3, <1>5, LimitsAssumption DEF CapacityBound
  <1>8. AdmittedOnce'
    BY <1>4, <1>5 DEF AdmittedOnce, Distinct
  <1>9. WorkConserving'
    <2>1. waiting # <<>>
      BY <1>1, <1>2, EmptySeq
    <2> QED BY <1>5, <2>1 DEF WorkConserving
  <1>10. FutureMatchesAdmission'
    BY <1>4, <1>5 DEF CancelWaiting, FutureMatchesAdmission, Duplicate, TypeOK
  <1>11. ShutdownIsComplete'
    BY <1>1, <1>2, EmptySeq DEF CancelWaiting, ShutdownIsComplete
  <1> QED BY <1>5, <1>6, <1>7, <1>8, <1>9, <1>10, <1>11

(* A finished task gives its slot to the head of the line, if any.         *)
LEMMA WorkEndsPreserves ==
    ASSUME IInv, NEW id \in TaskIds, NEW outcome \in Outcomes,
           WorkEnds(id, outcome)
    PROVE  IInv'
PROOF
  <1> USE DEF IInv
  <1>1. /\ waiting \in Seq(TaskIds) /\ Len(waiting) \in Nat
        /\ Distinct(waiting)
        /\ Cardinality(Active) \in Nat
        /\ task \in [TaskIds -> {"none", "created", "running", "dead"}]
    BY LenProperties, FS_CardinalityType DEF TypeOK, AdmittedOnce, Distinct
  <1>2. /\ id \in Active
        /\ cancelReq' = cancelReq \ {id}
        /\ future' = [future EXCEPT ![id] = outcome]
        /\ UNCHANGED closing
    BY DEF WorkEnds, Active
  <1>3. /\ IsFiniteSet(Active \ {id})
        /\ Cardinality(Active \ {id}) = Cardinality(Active) - 1
    BY <1>2, FS_RemoveElement
  <1>4. CASE /\ waiting = <<>>
             /\ waiting' = <<>>
             /\ task' = [task EXCEPT ![id] = "none"]
    <2>1. Active' = Active \ {id}
      BY <1>1, <1>4 DEF Active
    <2>2. Waiting' = {} /\ Waiting = {}
      BY <1>4 DEF Waiting, ToSet
    <2>3. TypeOK'
      BY <1>2, <1>4 DEF TypeOK, Live, Outcomes
    <2>4. CapacityBound'
      BY <1>1, <1>3, <1>4, <2>1, LimitsAssumption DEF CapacityBound
    <2>5. AdmittedOnce' /\ WorkConserving'
      BY <1>4, <2>2 DEF AdmittedOnce, WorkConserving
    <2>6. FutureMatchesAdmission'
      BY <1>2, <2>1, <2>2 DEF FutureMatchesAdmission, Duplicate, TypeOK, Outcomes
    <2>7. ShutdownIsComplete'
      BY <1>1, <1>2, <1>4 DEF ShutdownIsComplete, Live
    <2> QED BY <1>3, <2>1, <2>3, <2>4, <2>5, <2>6, <2>7
  <1>5. CASE /\ waiting # <<>>
             /\ waiting' = Tail(waiting)
             /\ Head(waiting) # id
             /\ task' = [task EXCEPT ![id] = "none", ![Head(waiting)] = "created"]
    <2> DEFINE head == Head(waiting)
    <2>1. /\ head \in TaskIds /\ head # id
          /\ waiting' \in Seq(TaskIds)
          /\ Len(waiting') = Len(waiting) - 1
      BY <1>1, <1>5, HeadTailProperties
    <2>2. /\ head \in Waiting
          /\ Waiting' = Waiting \ {head}
          /\ Distinct(waiting')
      BY <1>1, <1>5, LineTail DEF Waiting
    <2>3. head \notin Active
      BY <2>2 DEF AdmittedOnce
    <2> HIDE DEF head
    <2>4. Active' = (Active \ {id}) \cup {head}
      BY <1>1, <1>5, <2>1 DEF Active, head
    <2>5. /\ IsFiniteSet(Active)'
          /\ Cardinality(Active') = Cardinality(Active)
      <3>1. /\ IsFiniteSet((Active \ {id}) \cup {head})
            /\ Cardinality((Active \ {id}) \cup {head})
                  = Cardinality(Active \ {id}) + 1
        BY <1>3, <2>3, FS_AddElement
      <3> QED BY <1>1, <1>3, <2>4, <3>1
    <2>6. TypeOK'
      <3>1. \A t \in cancelReq' : task'[t] = task[t]
        BY <1>1, <1>2, <1>5, <2>1, <2>3 DEF TypeOK, Live, Active, head
      <3> QED BY <1>2, <1>5, <2>1, <3>1 DEF TypeOK, Live, Outcomes, head
    <2>7. CapacityBound'
      BY <1>1, <2>1, <2>5, LimitsAssumption DEF CapacityBound
    <2>8. AdmittedOnce'
      BY <2>2, <2>4 DEF AdmittedOnce, Distinct
    <2>9. WorkConserving'
      BY <1>5, <2>5 DEF WorkConserving
    <2>10. FutureMatchesAdmission'
      <3>1. id \notin Waiting
        BY <1>2 DEF AdmittedOnce
      <3> QED BY <1>2, <2>1, <2>2, <2>4, <3>1
              DEF FutureMatchesAdmission, Duplicate, TypeOK, Outcomes
    <2>11. ShutdownIsComplete'
      BY <1>2, <1>5 DEF ShutdownIsComplete
    <2> QED BY <2>5, <2>6, <2>7, <2>8, <2>9, <2>10, <2>11
  <1> QED BY <1>4, <1>5, WorkEndsEffect

LEMMA ProcessPreserves ==
    ASSUME IInv, Shutdown \/ ShutdownReturns \/ Restart
    PROVE  IInv'
PROOF
  <1> USE DEF IInv
  <1>1. ASSUME Shutdown PROVE IInv'
    <2> USE <1>1 DEF Shutdown, LineDropped, FuturesDropped
    <2>1. Active' = Active /\ waiting' = <<>> /\ Waiting' = {}
      BY DEF Active, Waiting, ToSet
    <2>2. TypeOK'
      BY EmptySeq DEF TypeOK, Live, Outcomes
    <2>3. CapacityBound'
      BY <2>1, EmptySeq, LimitsAssumption DEF CapacityBound
    <2>4. AdmittedOnce' /\ WorkConserving'
      BY <2>1 DEF AdmittedOnce, WorkConserving
    <2>5. FutureMatchesAdmission'
      BY <2>1 DEF FutureMatchesAdmission, Duplicate, TypeOK, AdmittedOnce
    <2>6. ShutdownIsComplete'
      BY <2>1 DEF ShutdownIsComplete, Live, Active
    <2> QED BY <2>1, <2>2, <2>3, <2>4, <2>5, <2>6
  <1>2. ASSUME ShutdownReturns PROVE IInv'
    <2> USE <1>2 DEF ShutdownReturns, Gathered
    <2>1. Active' = Active /\ Waiting' = Waiting
      BY DEF Active, Waiting
    <2>2. TypeOK'
      BY DEF TypeOK, Live
    <2>3. ShutdownIsComplete'
      BY DEF ShutdownIsComplete, Live
    <2> QED BY <2>1, <2>2, <2>3
            DEF CapacityBound, AdmittedOnce, WorkConserving,
                FutureMatchesAdmission, Duplicate
  <1>3. ASSUME Restart PROVE IInv'
    <2>1. Init'
      BY <1>3 DEF Restart, Init
    <2>2. Init' => IInv'
      BY InitIInv, PTL
    <2> QED BY <2>1, <2>2
  <1> QED BY <1>1, <1>2, <1>3

LEMMA NextIInv == IInv /\ [Next]_vars => IInv'
PROOF
  <1> SUFFICES ASSUME IInv, [Next]_vars PROVE IInv'
    OBVIOUS
  <1>1. ASSUME NEW id \in TaskIds, SubmitStarts(id) \/ SubmitWaits(id)
        PROVE  IInv'
    BY <1>1, SubmitPreserves
  <1>2. ASSUME NEW id \in TaskIds, Start(id) \/ CancelActive(id) \/ DeliverCancel(id)
        PROVE  IInv'
    BY <1>2, QuietPreserves
  <1>3. ASSUME NEW id \in TaskIds, CancelWaiting(id) PROVE IInv'
    BY <1>3, CancelWaitingPreserves
  <1>4. ASSUME NEW id \in TaskIds, NEW outcome \in Outcomes, WorkEnds(id, outcome)
        PROVE  IInv'
    BY <1>4, WorkEndsPreserves
  <1>5. CASE Shutdown \/ ShutdownReturns \/ Restart
    BY <1>5, ProcessPreserves
  <1>6. CASE UNCHANGED vars
    BY <1>6 DEF vars, IInv, TypeOK, CapacityBound, AdmittedOnce, WorkConserving,
                FutureMatchesAdmission, ShutdownIsComplete, Duplicate, Live,
                Active, Waiting
  <1> QED BY <1>1, <1>2, <1>3, <1>4, <1>5, <1>6 DEF Next

THEOREM Invariance == Spec => []IInv
PROOF
  <1> QED BY InitIInv, NextIInv, PTL DEF Spec

-----------------------------------------------------------------------------
(* The named invariants of TaskQueue, for every value of its constants.    *)

(* Type correctness, and requests to cancel only for live tasks.           *)
THEOREM TypeCorrect == Spec => []TypeOK
PROOF BY Invariance, PTL DEF IInv

(* The two limits of the constructor are never exceeded.                   *)
THEOREM Capacity == Spec => []CapacityBound
PROOF BY Invariance, PTL DEF IInv

(* No id is in the queue twice.                                            *)
THEOREM NoDoubleAdmission == Spec => []AdmittedOnce
PROOF BY Invariance, PTL DEF IInv

(* Nobody waits beside a free slot.                                        *)
THEOREM NoIdleSlot == Spec => []WorkConserving
PROOF BY Invariance, PTL DEF IInv

(* A future is open exactly while its task is in the queue.                *)
THEOREM FuturesMatch == Spec => []FutureMatchesAdmission
PROOF BY Invariance, PTL DEF IInv

(* After shutdown nothing starts, and when it returned nothing is alive.   *)
THEOREM ShutdownComplete == Spec => []ShutdownIsComplete
PROOF BY Invariance, PTL DEF IInv

-----------------------------------------------------------------------------
(* First come, first served.                                               *)

(* What NoOvertaking asks of one step.                                     *)
OrderKept ==
    \A i \in 1..Len(waiting), other \in TaskIds :
         LET before == waiting[i]
         IN /\ before \in Waiting'
            /\ task[other] = "none"
            /\ \A k \in 1..i : waiting[k] # other
            => /\ task'[other] = "none"
               /\ \A k, m \in 1..Len(waiting') :
                     waiting'[k] = before /\ waiting'[m] = other => k < m

(* A task in the line, and one that is behind it or not in the queue.      *)
LEMMA StepKeepsOrder == IInv /\ Next => OrderKept
PROOF
  <1> SUFFICES ASSUME IInv, Next,
                      NEW i \in 1..Len(waiting), NEW other \in TaskIds,
                      waiting[i] \in Waiting', task[other] = "none",
                      \A k \in 1..i : waiting[k] # other
               PROVE  /\ task'[other] = "none"
                      /\ \A k, m \in 1..Len(waiting') :
                            waiting'[k] = waiting[i] /\ waiting'[m] = other => k < m
    BY DEF OrderKept
  <1>1. /\ waiting \in Seq(TaskIds) /\ Len(waiting) \in Nat
        /\ Distinct(waiting)
        /\ task \in [TaskIds -> {"none", "created", "running", "dead"}]
        /\ i \in Nat /\ 1 <= i /\ i <= Len(waiting)
    BY LenProperties DEF IInv, TypeOK, AdmittedOnce, Distinct
  <1>2. waiting # <<>>
    BY <1>1
  <1>3. ASSUME waiting' = waiting, task'[other] = "none"
        PROVE  /\ task'[other] = "none"
               /\ \A k, m \in 1..Len(waiting') :
                     waiting'[k] = waiting[i] /\ waiting'[m] = other => k < m
    BY <1>1, <1>3 DEF Distinct
  <1>4. ASSUME NEW id \in TaskIds, SubmitStarts(id) PROVE FALSE
    <2>1. Cardinality(Active) = ActiveLimit
      BY <1>2 DEF IInv, WorkConserving
    <2> QED BY <1>4, <2>1, LimitsAssumption DEF SubmitStarts, HasSlot
  <1>5. ASSUME NEW id \in TaskIds, SubmitWaits(id)
        PROVE  /\ task'[other] = "none"
               /\ \A k, m \in 1..Len(waiting') :
                     waiting'[k] = waiting[i] /\ waiting'[m] = other => k < m
    <2>1. /\ Len(waiting') = Len(waiting) + 1
          /\ \A k \in 1..Len(waiting) : waiting'[k] = waiting[k]
          /\ Distinct(waiting')
          /\ task' = task
      BY <1>1, <1>5, AppendProperties, LineAppend DEF SubmitWaits, LineWith, Duplicate, Waiting
    <2>2. \A k \in 1..Len(waiting') : waiting'[k] = waiting[i] => k = i
      BY <1>1, <2>1 DEF Distinct
    <2>3. \A m \in 1..Len(waiting') : waiting'[m] = other => i < m
      BY <1>1, <2>1
    <2> QED BY <1>1, <2>1, <2>2, <2>3
  <1>6. ASSUME NEW id \in TaskIds, Start(id) \/ CancelActive(id) \/ DeliverCancel(id)
        PROVE  waiting' = waiting /\ task'[other] = "none"
    <2>1. CASE Start(id)
      BY <1>1, <2>1 DEF Start
    <2>2. CASE CancelActive(id)
      BY <1>1, <2>2 DEF CancelActive
    <2>3. CASE DeliverCancel(id)
      BY <1>1, <2>3 DEF DeliverCancel
    <2> QED BY <1>6, <2>1, <2>2, <2>3
  <1>7. ASSUME NEW id \in TaskIds, CancelWaiting(id)
        PROVE  /\ task'[other] = "none"
               /\ \A k, m \in 1..Len(waiting') :
                     waiting'[k] = waiting[i] /\ waiting'[m] = other => k < m
    <2>1. PICK p \in 1..Len(waiting) :
             waiting[p] = id /\ waiting' = RemoveAt(waiting, p)
      BY <1>7 DEF CancelWaiting
    <2>2. /\ Len(waiting') = Len(waiting) - 1
          /\ \A k \in 1..(Len(waiting) - 1) :
                waiting'[k] = waiting[IF k < p THEN k ELSE k + 1]
      BY <1>1, <2>1, RemoveAtProperties
    <2>3. task' = task
      BY <1>7 DEF CancelWaiting
    <2> SUFFICES ASSUME NEW k \in 1..(Len(waiting) - 1),
                        NEW m \in 1..(Len(waiting) - 1),
                        waiting'[k] = waiting[i], waiting'[m] = other
                 PROVE  k < m
      BY <2>2, <2>3
    <2> DEFINE old(x) == IF x < p THEN x ELSE x + 1
    <2>4. old(k) \in 1..Len(waiting) /\ old(m) \in 1..Len(waiting)
      BY <1>1
    <2>5. old(k) = i
      BY <1>1, <2>2, <2>4 DEF Distinct
    <2>6. i < old(m)
      BY <1>1, <2>2, <2>4
    <2> QED BY <1>1, <2>5, <2>6
  <1>8. ASSUME NEW id \in TaskIds, NEW outcome \in Outcomes, WorkEnds(id, outcome)
        PROVE  /\ task'[other] = "none"
               /\ \A k, m \in 1..Len(waiting') :
                     waiting'[k] = waiting[i] /\ waiting'[m] = other => k < m
    <2>1. /\ waiting' = Tail(waiting)
          /\ task' = [task EXCEPT ![id] = "none", ![Head(waiting)] = "created"]
      BY <1>2, <1>8, WorkEndsEffect
    <2>2. /\ Len(waiting') = Len(waiting) - 1
          /\ \A k \in 1..Len(waiting') : waiting'[k] = waiting[k + 1]
          /\ Head(waiting) = waiting[1]
      BY <1>1, <1>2, <2>1, HeadTailProperties
    <2>3. task'[other] = "none"
      <3>1. other # Head(waiting)
        BY <1>1, <2>2
      <3> QED BY <1>1, <2>1, <3>1
    <2>4. \A k \in 1..Len(waiting') : waiting'[k] = waiting[i] => k + 1 = i
      BY <1>1, <2>2 DEF Distinct
    <2>5. \A m \in 1..Len(waiting') : waiting'[m] = other => i < m + 1
      BY <1>1, <2>2
    <2> QED BY <1>1, <2>2, <2>3, <2>4, <2>5
  <1>9. ASSUME Shutdown \/ Restart PROVE FALSE
    <2>1. Waiting' = {}
      BY <1>9 DEF Shutdown, LineDropped, Restart, Waiting, ToSet
    <2> QED BY <2>1
  <1>10. ASSUME ShutdownReturns PROVE waiting' = waiting /\ task'[other] = "none"
    BY <1>10 DEF ShutdownReturns
  <1> QED BY <1>3, <1>4, <1>5, <1>6, <1>7, <1>8, <1>9, <1>10 DEF Next

(* Nobody in the line is passed by anybody behind it or not yet in it.     *)
THEOREM FirstComeFirstServed == Spec => NoOvertaking
PROOF
  <1>1. IInv /\ [Next]_vars => [OrderKept]_vars
    BY StepKeepsOrder
  <1>2. [][OrderKept]_vars => NoOvertaking
    BY PTL DEF OrderKept, NoOvertaking
  <1> QED BY <1>1, <1>2, Invariance, PTL DEF Spec

-----------------------------------------------------------------------------
(* The tasks whose work has not been called: nothing but a submission adds *)
(* one, and only a task's own start, its cancellation and a stop of the    *)
(* queue take one away.                                                    *)

Ready(id) == task[id] = "created" \/ id \in Waiting

NoMoreReady(ids) == \A other \in ids : Ready(other)' => Ready(other)

LEMMA RunningIsNotReady ==
    ASSUME IInv, NEW id \in TaskIds, task[id] = "running"
    PROVE  ~Ready(id)
PROOF BY DEF IInv, AdmittedOnce, Ready, Active

(* What a step on one id does to the other ids, and to that one.           *)

SameTask(id) ==
    /\ Ready(id)' <=> Ready(id)
    /\ task'[id] = "running" <=> task[id] = "running"
    /\ id \in cancelReq' <=> id \in cancelReq

OthersStay(id) == closing' = closing /\ \A other \in TaskIds \ {id} : SameTask(other)

(* A task that has left the queue, or never gets there.                    *)
Away(id) == ~Ready(id) /\ task[id] # "running" /\ id \notin cancelReq

LEMMA AfterSubmit ==
    ASSUME IInv, NEW id \in TaskIds, SubmitStarts(id) \/ SubmitWaits(id)
    PROVE  /\ OthersStay(id)
           /\ Ready(id)' /\ task'[id] # "running" /\ id \notin cancelReq'
PROOF
  <1>1. task[id] = "none" /\ id \notin Waiting /\ id \notin cancelReq
    BY DEF SubmitStarts, SubmitWaits, Duplicate, Active, IInv, TypeOK, Live
  <1>2. CASE SubmitStarts(id)
    BY <1>1, <1>2 DEF SubmitStarts, OthersStay, SameTask, Ready, Waiting, IInv, TypeOK
  <1>3. CASE SubmitWaits(id)
    <2>1. waiting \in Seq(TaskIds) /\ Distinct(waiting) /\ id \notin ToSet(waiting)
      BY <1>1 DEF Waiting, IInv, TypeOK, AdmittedOnce, Distinct
    <2>2. Waiting' = Waiting \cup {id} /\ task' = task
      BY <1>3, <2>1, LineAppend DEF SubmitWaits, LineWith, Waiting
    <2> QED BY <1>1, <1>3, <2>2 DEF SubmitWaits, OthersStay, SameTask, Ready
  <1> QED BY <1>2, <1>3

LEMMA AfterStart ==
    ASSUME IInv, NEW id \in TaskIds, Start(id)
    PROVE  /\ OthersStay(id)
           /\ ~Ready(id)' /\ task'[id] = "running" /\ id \notin cancelReq'
PROOF
  <1>1. id \notin Waiting
    BY DEF Start, IInv, AdmittedOnce, Active
  <1> QED BY <1>1 DEF Start, OthersStay, SameTask, Ready, Waiting, IInv, TypeOK

LEMMA AfterCancelActive ==
    ASSUME IInv, NEW id \in TaskIds, CancelActive(id)
    PROVE  /\ OthersStay(id)
           /\ Ready(id)' <=> Ready(id)
           /\ task'[id] = "running" <=> task[id] = "running"
           /\ Ready(id) \/ task[id] = "running" => id \in cancelReq'
PROOF
  <1>1. id \notin Waiting /\ task' = task /\ Waiting' = Waiting
    BY DEF CancelActive, IInv, AdmittedOnce, Waiting
  <1> QED BY <1>1 DEF CancelActive, Requests, Live, OthersStay, SameTask, Ready

LEMMA AfterCancelWaiting ==
    ASSUME IInv, NEW id \in TaskIds, CancelWaiting(id)
    PROVE  OthersStay(id) /\ Away(id)'
PROOF
  <1>1. PICK i \in 1..Len(waiting) :
           waiting[i] = id /\ waiting' = RemoveAt(waiting, i)
    BY DEF CancelWaiting
  <1>2. waiting \in Seq(TaskIds) /\ Distinct(waiting)
    BY DEF IInv, TypeOK, AdmittedOnce, Distinct
  <1>3. Waiting' = Waiting \ {id}
    BY <1>1, <1>2, LineRemove DEF Waiting
  <1>4. task[id] = "none" /\ id \notin cancelReq
    BY DEF CancelWaiting, Active, IInv, TypeOK, Live
  <1> QED BY <1>3, <1>4 DEF CancelWaiting, OthersStay, SameTask, Away, Ready

LEMMA AfterDelivery ==
    ASSUME IInv, NEW id \in TaskIds, DeliverCancel(id)
    PROVE  /\ OthersStay(id)
           /\ ~Ready(id)' /\ id \notin cancelReq'
           /\ task[id] = "running" => task'[id] = "running"
           /\ task[id] = "created" => task'[id] # "running"
PROOF
  <1>1. task[id] \in {"created", "running"} /\ id \notin Waiting
    BY DEF DeliverCancel, IInv, TypeOK, Live, AdmittedOnce, Active
  <1> QED BY <1>1 DEF DeliverCancel, OthersStay, SameTask, Ready, Waiting, IInv, TypeOK

LEMMA AfterEnd ==
    ASSUME IInv, NEW id \in TaskIds, NEW outcome \in Outcomes, WorkEnds(id, outcome)
    PROVE  OthersStay(id) /\ Away(id)'
PROOF
  <1>1. id \notin Waiting /\ task \in [TaskIds -> {"none", "created", "running", "dead"}]
    BY DEF WorkEnds, IInv, TypeOK, AdmittedOnce, Active
  <1>2. closing' = closing /\ cancelReq' = cancelReq \ {id}
    BY DEF WorkEnds
  <1>3. CASE /\ waiting = <<>>
             /\ waiting' = <<>>
             /\ task' = [task EXCEPT ![id] = "none"]
    BY <1>1, <1>2, <1>3 DEF OthersStay, SameTask, Away, Ready, Waiting
  <1>4. CASE /\ waiting # <<>>
             /\ waiting' = Tail(waiting)
             /\ Head(waiting) # id
             /\ task' = [task EXCEPT ![id] = "none", ![Head(waiting)] = "created"]
    <2>1. waiting \in Seq(TaskIds) /\ Distinct(waiting)
      BY DEF IInv, TypeOK, AdmittedOnce, Distinct
    <2>2. Head(waiting) \in Waiting /\ Waiting' = Waiting \ {Head(waiting)}
      BY <1>4, <2>1, LineTail DEF Waiting
    <2>3. Head(waiting) \in TaskIds /\ task[Head(waiting)] # "running"
      BY <1>4, <2>1, <2>2 DEF IInv, AdmittedOnce, Active
    <2>4. /\ task'[id] = "none" /\ task'[Head(waiting)] = "created"
          /\ \A t \in TaskIds : t # id /\ t # Head(waiting) => task'[t] = task[t]
      BY <1>1, <1>4, <2>3
    <2>5. Away(id)'
      BY <1>1, <1>2, <2>2, <2>4 DEF Away, Ready
    <2>6. ASSUME NEW other \in TaskIds \ {id} PROVE SameTask(other)
      BY <1>2, <2>2, <2>3, <2>4 DEF SameTask, Ready
    <2> QED BY <1>2, <2>5, <2>6 DEF OthersStay
  <1> QED BY <1>3, <1>4, WorkEndsEffect

LEMMA ReadyAfterSubmit ==
    ASSUME IInv, NEW id \in TaskIds, SubmitStarts(id) \/ SubmitWaits(id)
    PROVE  NoMoreReady(TaskIds \ {id})
PROOF BY AfterSubmit DEF OthersStay, SameTask, NoMoreReady

LEMMA ReadyAfterStart ==
    ASSUME IInv, NEW id \in TaskIds, Start(id)
    PROVE  ~Ready(id)' /\ NoMoreReady(TaskIds)
PROOF BY AfterStart DEF OthersStay, SameTask, NoMoreReady

LEMMA ReadyAfterCancelWaiting ==
    ASSUME IInv, NEW id \in TaskIds, CancelWaiting(id)
    PROVE  ~Ready(id)' /\ NoMoreReady(TaskIds)
PROOF BY AfterCancelWaiting DEF OthersStay, SameTask, Away, NoMoreReady

LEMMA ReadyAfterDelivery ==
    ASSUME IInv, NEW id \in TaskIds, DeliverCancel(id)
    PROVE  ~Ready(id)' /\ NoMoreReady(TaskIds)
PROOF BY AfterDelivery DEF OthersStay, SameTask, NoMoreReady

LEMMA ReadyAfterEnd ==
    ASSUME IInv, NEW id \in TaskIds, NEW outcome \in Outcomes, WorkEnds(id, outcome)
    PROVE  ~Ready(id)' /\ NoMoreReady(TaskIds)
PROOF BY AfterEnd DEF OthersStay, SameTask, Away, NoMoreReady

LEMMA ReadyAfterShutdown ==
    ASSUME IInv, Shutdown
    PROVE  \A id \in TaskIds : Ready(id)' => Ready(id) /\ id \notin Waiting
PROOF
  <1>1. Waiting' = {} /\ task' = task
    BY DEF Shutdown, LineDropped, Waiting, ToSet
  <1> QED BY <1>1 DEF Ready, IInv, AdmittedOnce, Active
=============================================================================
