----------------------------- MODULE RunPageProofs ----------------------------
(***************************************************************************)
(* For every number of versions, every set of final versions and whatever  *)
(* the buttons are: the page keeps at most one recovery and one connection *)
(* at a time, and the subscription implements SnapshotFeed.  The argument  *)
(* (OrderInv): what is in transit is sorted and not older than what the    *)
(* subscription has passed on, and the answer to a recovery was read after *)
(* all of that, because nothing is in transit during a recovery.           *)
(***************************************************************************)
EXTENDS RunPage, SequenceTheorems, TLAPS

OrderInv ==
    /\ heard <= row /\ since <= row /\ sent <= row
    /\ request["recover"] = "answered" =>
          heard <= answer["recover"] /\ answer["recover"] <= row
    /\ up => heard <= since \/ heard <= sent
    /\ \A i \in 1..Len(line) : heard <= line[i] /\ line[i] <= sent
    /\ \A i, j \in 1..Len(line) : i < j => line[i] <= line[j]

IInv == TypeOK /\ OrderInv

-----------------------------------------------------------------------------
(* What is read from the head of the line, and what stays.                 *)
LEMMA LineHead ==
    ASSUME TypeOK, line # <<>>
    PROVE  /\ Head(line) \in 1..LastVersion /\ Head(line) = line[1]
           /\ Tail(line) \in Seq(1..LastVersion)
           /\ Len(line) \in Nat /\ Len(line) >= 1
           /\ Len(Tail(line)) = Len(line) - 1
           /\ \A i \in 1..Len(Tail(line)) : Tail(line)[i] = line[i + 1]
PROOF
  <1>1. line \in Seq(1..LastVersion) /\ Len(line) \in Nat
    BY LenProperties DEF TypeOK
  <1>2. /\ Head(line) \in 1..LastVersion
        /\ Tail(line) \in Seq(1..LastVersion)
        /\ Len(Tail(line)) = Len(line) - 1
        /\ \A i \in 1..Len(Tail(line)) : Tail(line)[i] = line[i + 1]
    BY <1>1, HeadTailProperties
  <1>3. Len(line) >= 1 /\ Head(line) = line[1]
    BY <1>1
  <1> QED BY <1>1, <1>2, <1>3

LEMMA LineAppend ==
    ASSUME TypeOK, NEW v \in 1..LastVersion
    PROVE  /\ Append(line, v) \in Seq(1..LastVersion)
           /\ Len(line) \in Nat
           /\ Len(Append(line, v)) = Len(line) + 1
           /\ \A i \in 1..Len(line) : Append(line, v)[i] = line[i]
           /\ Append(line, v)[Len(line) + 1] = v
PROOF
  <1>1. line \in Seq(1..LastVersion)
    BY DEF TypeOK
  <1> QED BY <1>1, AppendProperties, LenProperties

LEMMA EmptyLine == <<>> \in Seq(1..LastVersion) /\ Len(<<>>) = 0
PROOF
  OBVIOUS

LEMMA Numbers ==
    ASSUME TypeOK
    PROVE  /\ row \in Nat /\ row >= 1 /\ row \in 0..LastVersion
           /\ since \in Nat /\ sent \in Nat /\ heard \in Nat
           /\ \A q \in Requests : answer[q] \in Nat
           /\ "recover" \in Requests
           /\ \A i \in 1..Len(line) : line[i] \in Nat
PROOF
  <1>1. LastVersion \in Nat
    BY PageAssumption
  <1>2. \A i \in 1..Len(line) : line[i] \in 1..LastVersion
    <2>1. line \in Seq(1..LastVersion)
      BY DEF TypeOK
    <2> QED BY <2>1, ElementOfSeq
  <1> QED BY <1>1, <1>2 DEF TypeOK, Requests

-----------------------------------------------------------------------------
LEMMA InitIInv == Init => IInv
PROOF
  <1> SUFFICES ASSUME Init PROVE IInv
    OBVIOUS
  <1> USE PageAssumption, EmptyLine DEF Init
  <1>1. "recover" \in Requests
    BY DEF Requests
  <1>2. up \in BOOLEAN
    OBVIOUS
  <1>3. /\ request \in [Requests -> {"idle", "sent", "answered"}]
        /\ answer \in [Requests -> 0..LastVersion]
    OBVIOUS
  <1>4. TypeOK
    BY <1>1, <1>2, <1>3 DEF TypeOK
  <1>5. OrderInv
    BY <1>1 DEF OrderInv
  <1> QED BY <1>4, <1>5 DEF IInv

LEMMA NextIInv == IInv /\ [Next]_vars => IInv'
PROOF
  <1> SUFFICES ASSUME IInv, [Next]_vars PROVE IInv'
    OBVIOUS
  <1>1. TypeOK /\ OrderInv /\ "recover" \in Requests
    BY DEF IInv, Requests
  <1>2. /\ row \in Nat /\ row >= 1 /\ row \in 0..LastVersion
        /\ since \in Nat /\ sent \in Nat /\ heard \in Nat
        /\ \A q \in Requests : answer[q] \in Nat
        /\ \A i \in 1..Len(line) : line[i] \in Nat
    BY <1>1, Numbers
  <1> USE PageAssumption
  <1>3. ASSUME Commit PROVE IInv'
    <2>1. TypeOK'
      BY <1>1, <1>3 DEF Commit, TypeOK, connection, rest
    <2>2. OrderInv'
      BY <1>1, <1>2, <1>3 DEF Commit, OrderInv, connection, rest
    <2> QED BY <2>1, <2>2 DEF IInv
  <1>4. ASSUME Missed PROVE IInv'
    <2>1. missed' \subseteq 1..LastVersion
      BY <1>1, <1>4 DEF Missed, TypeOK
    <2>2. TypeOK'
      BY <1>1, <1>4, <2>1 DEF Missed, TypeOK, connection, rest
    <2>3. OrderInv'
      BY <1>1, <1>4 DEF Missed, OrderInv, connection, rest
    <2> QED BY <2>2, <2>3 DEF IInv
  <1>5. ASSUME NEW q \in Requests, Respond(q) PROVE IInv'
    <2>1. /\ request' = [request EXCEPT ![q] = "answered"]
          /\ answer' = [answer EXCEPT ![q] = row]
          /\ request[q] = "sent"
      BY <1>5 DEF Respond
    <2>2. /\ request' \in [Requests -> {"idle", "sent", "answered"}]
          /\ answer' \in [Requests -> 0..LastVersion]
      BY <1>1, <1>2, <2>1 DEF TypeOK
    <2>3. request["recover"] # "idle" <=> request'["recover"] # "idle"
      BY <1>1, <2>1 DEF TypeOK
    <2>4. TypeOK'
      BY <1>1, <1>5, <2>2, <2>3 DEF Respond, TypeOK, connection
    <2>5. OrderInv'
      BY <1>1, <1>2, <1>5, <2>1 DEF Respond, OrderInv, TypeOK, connection
    <2> QED BY <2>4, <2>5 DEF IInv
  <1>6. ASSUME NEW q \in Requests, Fail(q) PROVE IInv'
    <2>1. TypeOK'
      BY <1>1, <1>6 DEF Fail, TypeOK, connection
    <2>2. OrderInv'
      BY <1>1, <1>6 DEF Fail, OrderInv, TypeOK, connection
    <2> QED BY <2>1, <2>2 DEF IInv
  <1>7. ASSUME NEW v \in 1..LastVersion, Send(v) PROVE IInv'
    <2>1. /\ line' \in Seq(1..LastVersion) /\ Len(line) \in Nat
          /\ Len(line') = Len(line) + 1
          /\ \A i \in 1..Len(line) : line'[i] = line[i]
          /\ line'[Len(line) + 1] = v
      BY <1>1, <1>7, LineAppend DEF Send
    <2>2. up' \in BOOLEAN /\ sent' \in 0..LastVersion
      BY <1>7 DEF Send
    <2>3. TypeOK'
      BY <1>1, <1>7, <2>1, <2>2 DEF Send, TypeOK, rest
    <2>4. /\ sent' = v /\ sent < v /\ since <= v /\ v <= row /\ up
          /\ UNCHANGED <<row, since, rest, heard>>
      BY <1>7 DEF Send
    <2>5. heard <= v
      BY <1>1, <1>2, <2>4 DEF OrderInv
    <2>6. \A i \in 1..Len(line') :
             \/ i \in 1..Len(line) /\ line'[i] = line[i]
             \/ i = Len(line') /\ line'[i] = v
      BY <2>1
    <2>7. \A i \in 1..Len(line') : heard <= line'[i] /\ line'[i] <= v
      BY <1>1, <1>2, <2>4, <2>5, <2>6 DEF OrderInv
    <2>8. ASSUME NEW i \in 1..Len(line'), NEW j \in 1..Len(line'), i < j
          PROVE  line'[i] <= line'[j]
      <3>1. i \in 1..Len(line) /\ line'[i] = line[i]
        BY <2>1, <2>6, <2>8
      <3>2. CASE line'[j] = v
        BY <2>7, <3>2
      <3>3. CASE j \in 1..Len(line) /\ line'[j] = line[j]
        BY <1>1, <2>8, <3>1, <3>3 DEF OrderInv
      <3> QED BY <2>6, <3>2, <3>3
    <2>9. OrderInv'
      BY <1>1, <1>2, <2>4, <2>5, <2>7, <2>8 DEF OrderInv, rest
    <2> QED BY <2>3, <2>9 DEF IInv
  <1>8. ASSUME Deliver PROVE IInv'
    <2>1. /\ heard' = Head(line) /\ shown' = Head(line) /\ line' = Tail(line)
          /\ UNCHANGED <<row, missed, phase, up, since, sent, rest>>
          /\ phase # "left" /\ line # <<>>
      BY <1>8 DEF Deliver
    <2>2. /\ Head(line) \in 1..LastVersion /\ Head(line) = line[1]
          /\ Tail(line) \in Seq(1..LastVersion)
          /\ Len(line) \in Nat /\ Len(line) >= 1
          /\ Len(Tail(line)) = Len(line) - 1
          /\ \A i \in 1..Len(Tail(line)) : Tail(line)[i] = line[i + 1]
      BY <1>1, <2>1, LineHead
    <2>3. phase = "open" /\ request["recover"] = "idle"
      BY <1>1, <2>1 DEF TypeOK
    <2>4. TypeOK'
      BY <1>1, <2>1, <2>2, <2>3 DEF TypeOK, rest
    <2>5. /\ 1 \in 1..Len(line) /\ heard <= line[1] /\ line[1] <= sent
          /\ line[1] \in Nat
      BY <1>1, <1>2, <2>2 DEF OrderInv
    <2>6. \A i \in 1..Len(Tail(line)) : i + 1 \in 1..Len(line) /\ 1 < i + 1
      BY <2>2
    <2>7. \A i \in 1..Len(line') : heard' <= line'[i] /\ line'[i] <= sent
      BY <1>1, <2>1, <2>2, <2>5, <2>6 DEF OrderInv
    <2>8. \A i, j \in 1..Len(line') : i < j => line'[i] <= line'[j]
      <3> SUFFICES ASSUME NEW i \in 1..Len(line'), NEW j \in 1..Len(line'), i < j
                   PROVE  line'[i] <= line'[j]
        OBVIOUS
      <3>1. i + 1 < j + 1
        OBVIOUS
      <3> QED BY <1>1, <2>1, <2>2, <2>6, <3>1 DEF OrderInv
    <2>9. OrderInv'
      BY <1>1, <1>2, <2>1, <2>2, <2>3, <2>5, <2>7, <2>8 DEF OrderInv, rest
    <2> QED BY <2>4, <2>9 DEF IInv
  <1>9. ASSUME Error PROVE IInv'
    <2>1. TypeOK'
      BY <1>1, <1>9, EmptyLine DEF Error, Close, TypeOK
    <2>2. OrderInv'
      BY <1>1, <1>2, <1>9, EmptyLine DEF Error, Close, OrderInv, TypeOK
    <2> QED BY <2>1, <2>2 DEF IInv
  <1>10. ASSUME Recovered PROVE IInv'
    <2>1. /\ heard' = answer["recover"] /\ shown' = answer["recover"]
          /\ phase = "recovering" /\ phase' = "pausing"
          /\ request' = [request EXCEPT !["recover"] = "idle"]
          /\ UNCHANGED <<row, missed, connection, answer>>
          /\ request["recover"] = "answered"
      BY <1>10 DEF Recovered, PassedOn
    <2>2. TypeOK'
      BY <1>1, <2>1 DEF TypeOK, connection
    <2>3. line = <<>> /\ ~up
      BY <1>1, <2>1 DEF TypeOK
    <2>4. OrderInv'
      BY <1>1, <2>1, <2>3, EmptyLine DEF OrderInv, TypeOK, connection
    <2> QED BY <2>2, <2>4 DEF IInv
  <1>11. ASSUME Connect PROVE IInv'
    <2>1. line = <<>>
      BY <1>1, <1>11 DEF Connect, TypeOK
    <2>2. up' \in BOOLEAN
      BY <1>11 DEF Connect
    <2>3. TypeOK'
      BY <1>1, <1>11, <2>2 DEF Connect, TypeOK, rest
    <2>4. OrderInv'
      BY <1>1, <1>2, <1>11, <2>1, EmptyLine DEF Connect, OrderInv, rest
    <2> QED BY <2>3, <2>4 DEF IInv
  <1>12. ASSUME NEW q \in Buttons, Post(q) PROVE IInv'
    <2>1. q \in Requests /\ q # "recover"
      BY DEF Requests, PageRequests
    <2>2. TypeOK'
      BY <1>1, <1>12, <2>1 DEF Post, TypeOK, connection
    <2>3. OrderInv'
      BY <1>1, <1>12, <2>1 DEF Post, OrderInv, TypeOK, connection
    <2> QED BY <2>2, <2>3 DEF IInv
  <1>13. ASSUME NEW q \in PageRequests, Accept(q) PROVE IInv'
    <2>1. q \in Requests /\ q # "recover"
      BY DEF Requests, PageRequests
    <2>2. shown' \in 0..LastVersion
      BY <1>1, <1>13, <2>1 DEF Accept, TypeOK
    <2>3. TypeOK'
      BY <1>1, <1>13, <2>1, <2>2 DEF Accept, TypeOK, connection
    <2>4. OrderInv'
      BY <1>1, <1>13, <2>1 DEF Accept, OrderInv, TypeOK, connection
    <2> QED BY <2>3, <2>4 DEF IInv
  <1>14. ASSUME Leave PROVE IInv'
    <2>1. TypeOK'
      BY <1>1, <1>14, EmptyLine DEF Leave, Close, TypeOK
    <2>2. OrderInv'
      BY <1>1, <1>2, <1>14, EmptyLine DEF Leave, Close, OrderInv, TypeOK
    <2> QED BY <2>1, <2>2 DEF IInv
  <1>15. ASSUME UNCHANGED vars PROVE IInv'
    BY <1>1, <1>15 DEF IInv, TypeOK, OrderInv, vars, connection, rest
  <1> QED BY <1>3, <1>4, <1>5, <1>6, <1>7, <1>8, <1>9, <1>10, <1>11, <1>12,
             <1>13, <1>14, <1>15 DEF Next

(* The inductive invariant holds.                                          *)
THEOREM Invariance == Spec => []IInv
PROOF
  BY InitIInv, NextIInv, PTL DEF Spec

-----------------------------------------------------------------------------
(* One recovery or one connection at a time, never both (subscribe-        *)
(* ToResearch), and the types of all variables.                            *)
THEOREM TypeCorrect == Spec => []TypeOK
PROOF
  <1>1. IInv => TypeOK
    BY DEF IInv
  <1> QED BY <1>1, Invariance, PTL

(* A step of the page is a step of the feed, or passes nothing on.         *)
LEMMA FeedStep == IInv /\ [Next]_vars => [Feed!Next]_(Feed!vars)
PROOF
  <1> SUFFICES ASSUME IInv, [Next]_vars PROVE [Feed!Next]_(Feed!vars)
    OBVIOUS
  <1>1. TypeOK /\ OrderInv /\ row \in Nat /\ heard \in Nat
    BY Numbers DEF IInv
  <1>2. ASSUME UNCHANGED <<row, heard>> PROVE [Feed!Next]_(Feed!vars)
    BY <1>2 DEF Feed!vars
  <1>3. ASSUME row' = row, heard' \in Nat, heard <= heard', heard' <= row
        PROVE  [Feed!Next]_(Feed!vars)
    <2>1. heard' \in heard..row
      BY <1>1, <1>3
    <2>2. [r \in {"page"} |-> heard'] =
             [[r \in {"page"} |-> heard] EXCEPT !["page"] = heard']
      OBVIOUS
    <2>3. [r \in {"page"} |-> heard]["page"] = heard
      OBVIOUS
    <2>4. Feed!Show("page")
      BY <1>3, <2>1, <2>2, <2>3 DEF Feed!Show
    <2> QED BY <2>4 DEF Feed!Next
  <1>4. ASSUME Commit PROVE [Feed!Next]_(Feed!vars)
    BY <1>4 DEF Commit, Feed!Next, Feed!Commit
  <1>5. ASSUME Deliver PROVE [Feed!Next]_(Feed!vars)
    <2>1. /\ heard' = line[1] /\ line[1] \in Nat /\ 1 \in 1..Len(line)
          /\ row' = row
      BY <1>1, <1>5, LineHead, PageAssumption DEF Deliver
    <2>2. heard <= line[1] /\ line[1] <= row
      BY <1>1, <2>1, Numbers DEF OrderInv
    <2> QED BY <1>3, <2>1, <2>2
  <1>6. ASSUME Recovered PROVE [Feed!Next]_(Feed!vars)
    <2>1. /\ heard' = answer["recover"] /\ answer["recover"] \in Nat
          /\ heard <= answer["recover"] /\ answer["recover"] <= row
          /\ row' = row
      BY <1>1, <1>6, Numbers DEF Recovered, PassedOn, OrderInv
    <2> QED BY <1>3, <2>1
  <1>7. CASE \/ Missed
             \/ \E q \in Requests : Respond(q) \/ Fail(q)
             \/ \E v \in 1..LastVersion : Send(v)
             \/ Error \/ Connect
             \/ \E q \in Buttons : Post(q)
             \/ \E q \in PageRequests : Accept(q)
             \/ Leave
             \/ UNCHANGED vars
    BY <1>2, <1>7 DEF Missed, Respond, Fail, Send, Error, Connect, Post, Accept,
                      Leave, vars
  <1> QED BY <1>4, <1>5, <1>6, <1>7 DEF Next

(* The subscription implements SnapshotFeed: what it passes on are         *)
(* committed versions in their order, over breaks and recoveries.          *)
THEOREM ImplementsFeed == Spec => HeardInOrder
PROOF
  <1>1. Init => Feed!Init
    BY DEF Init, Feed!Init
  <1>2. IInv /\ [Next]_vars => [Feed!Next]_(Feed!vars)
    BY FeedStep
  <1> QED BY <1>1, <1>2, Invariance, PTL DEF Spec, HeardInOrder, Feed!Spec
=============================================================================
