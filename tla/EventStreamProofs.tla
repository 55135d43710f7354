--------------------------- MODULE EventStreamProofs ---------------------------
(***************************************************************************)
(* For all numbers of readers, writers and versions and every channel      *)
(* size: the channels fit, no update is lost, and EventStream implements   *)
(* SnapshotFeed.  The argument: the lock keeps everything that is read     *)
(* from the row for the streams in the order in which it is read, so that  *)
(* what a publisher is about to put is never older than what is in the     *)
(* channels (WriterInv), and each channel is sorted and not older than     *)
(* what its reader has seen (ReaderInv).                                   *)
(***************************************************************************)
EXTENDS EventStream, SequenceTheorems, TLAPS

(* What the reader will have seen before it takes from its channel.        *)
Lowest(r) == IF rpc[r] = "first" THEN rsnap[r] ELSE seen[r]

Ordered(ch) ==
    \A i, j \in 1..Len(ch) : i < j /\ ch[i] # 0 /\ ch[j] # 0 => ch[i] <= ch[j]

Within(ch, low, high) ==
    \A i \in 1..Len(ch) : ch[i] # 0 => low <= ch[i] /\ ch[i] <= high

ReaderOK(r) ==
    /\ seen[r] <= row
    /\ rpc[r] = "first" => seen[r] <= rsnap[r] /\ rsnap[r] <= row
    /\ Ordered(channel[r])
    /\ Within(channel[r], Lowest(r), row)
    /\ rpc[r] \in {"off", "lock"} => channel[r] = <<>>
    /\ rpc[r] = "load" => \A i \in 1..Len(channel[r]) : channel[r][i] = 0

ReaderInv == \A r \in Readers : ReaderOK(r)

(* Nothing the reader has, or is to get, is newer than version v.          *)
NotNewer(r, v) ==
    rpc[r] \in {"first", "loop"} => Lowest(r) <= v /\ Within(channel[r], 0, v)

WriterOK(w) ==
    /\ wver[w] <= row
    /\ wpc[w] = "put" =>
          /\ wver[w] <= wsnap[w] /\ wsnap[w] <= row
          /\ \A r \in Readers : NotNewer(r, wsnap[w])

WriterInv == \A w \in Writers : WriterOK(w)

IInv ==
    /\ Typed
    /\ ChannelsFit
    /\ LockInv
    /\ ReaderInv
    /\ WriterInv
    /\ NoUpdateLost

-----------------------------------------------------------------------------
(* What the two ways of filling a channel, and taking from it, do.         *)

(* d is 1 if the oldest item has been dropped.                             *)
LEMMA OfferedProperties ==
    ASSUME NEW ch \in Seq(0..LastVersion), Len(ch) <= ChannelSize,
           NEW v \in 0..LastVersion
    PROVE  /\ Offered(ch, v) \in Seq(0..LastVersion)
           /\ Len(Offered(ch, v)) <= ChannelSize
           /\ \E d \in {0, 1} :
                 /\ d = 1 => Len(ch) >= 1
                 /\ Len(Offered(ch, v)) = Len(ch) - d + 1
                 /\ \A i \in 1..(Len(ch) - d) : Offered(ch, v)[i] = ch[i + d]
                 /\ Offered(ch, v)[Len(ch) - d + 1] = v
PROOF
  <1>1. ChannelSize \in Nat /\ ChannelSize >= 1 /\ Len(ch) \in Nat
    BY StreamAssumption, LenProperties
  <1>2. CASE Len(ch) = ChannelSize
    <2>1. ch # <<>>
      BY <1>1, <1>2
    <2>2. /\ Tail(ch) \in Seq(0..LastVersion)
          /\ Len(Tail(ch)) = Len(ch) - 1
          /\ \A i \in 1..(Len(ch) - 1) : Tail(ch)[i] = ch[i + 1]
      BY <2>1, HeadTailProperties
    <2>3. Offered(ch, v) = Append(Tail(ch), v)
      BY <1>2 DEF Offered
    <2>4. /\ Append(Tail(ch), v) \in Seq(0..LastVersion)
          /\ Len(Append(Tail(ch), v)) = Len(ch)
          /\ \A i \in 1..(Len(ch) - 1) : Append(Tail(ch), v)[i] = Tail(ch)[i]
          /\ Append(Tail(ch), v)[Len(ch)] = v
      BY <1>1, <2>2, AppendProperties
    <2>5. /\ 1 \in {0, 1} /\ Len(ch) >= 1
          /\ Len(Offered(ch, v)) = Len(ch) - 1 + 1
          /\ \A i \in 1..(Len(ch) - 1) : Offered(ch, v)[i] = ch[i + 1]
          /\ Offered(ch, v)[Len(ch) - 1 + 1] = v
      BY <1>1, <1>2, <2>2, <2>3, <2>4
    <2> QED BY <1>1, <1>2, <2>3, <2>4, <2>5
  <1>3. CASE Len(ch) # ChannelSize
    <2>1. Offered(ch, v) = Append(ch, v)
      BY <1>3 DEF Offered
    <2>2. /\ Append(ch, v) \in Seq(0..LastVersion)
          /\ Len(Append(ch, v)) = Len(ch) + 1
          /\ \A i \in 1..Len(ch) : Append(ch, v)[i] = ch[i]
          /\ Append(ch, v)[Len(ch) + 1] = v
      BY AppendProperties
    <2>3. /\ 0 \in {0, 1}
          /\ Len(Offered(ch, v)) = Len(ch) - 0 + 1
          /\ \A i \in 1..(Len(ch) - 0) : Offered(ch, v)[i] = ch[i + 0]
          /\ Offered(ch, v)[Len(ch) - 0 + 1] = v
      BY <1>1, <2>1, <2>2
    <2> QED BY <1>1, <1>3, <2>1, <2>2, <2>3
  <1> QED BY <1>2, <1>3

(* A snapshot not older than what the channel holds keeps it sorted.       *)
LEMMA OfferedInOrder ==
    ASSUME NEW ch \in Seq(0..LastVersion), Len(ch) <= ChannelSize,
           NEW v \in 0..LastVersion, NEW low \in 0..LastVersion,
           Ordered(ch), Within(ch, low, v), low <= v
    PROVE  /\ Ordered(Offered(ch, v))
           /\ Within(Offered(ch, v), low, v)
           /\ \E i \in 1..Len(Offered(ch, v)) : Offered(ch, v)[i] = v
PROOF
  <1> DEFINE new == Offered(ch, v)
  <1>1. PICK d \in {0, 1} :
           /\ d = 1 => Len(ch) >= 1
           /\ Len(new) = Len(ch) - d + 1
           /\ \A i \in 1..(Len(ch) - d) : new[i] = ch[i + d]
           /\ new[Len(ch) - d + 1] = v
    BY OfferedProperties
  <1>2. /\ Len(ch) \in Nat
        /\ new \in Seq(0..LastVersion)
        /\ LastVersion \in Nat
        /\ \A i \in 1..Len(ch) : ch[i] \in 0..LastVersion
    BY OfferedProperties, StreamAssumption, LenProperties, ElementOfSeq
  <1> HIDE DEF new
  <1>3. ASSUME NEW i \in 1..Len(new)
        PROVE  \/ i = Len(new) /\ new[i] = v
               \/ i < Len(new) /\ i + d \in 1..Len(ch) /\ new[i] = ch[i + d]
    <2>1. Len(new) = Len(ch) - d + 1 /\ Len(ch) \in Nat /\ d \in {0, 1} /\ i \in Nat
      BY <1>1, <1>2
    <2>2. CASE i = Len(new)
      <3>1. i = Len(ch) - d + 1
        BY <2>1, <2>2
      <3> QED BY <1>1, <2>2, <3>1
    <2>3. CASE i # Len(new)
      <3>1. i \in 1..(Len(ch) - d) /\ i < Len(new) /\ i + d \in 1..Len(ch)
        BY <1>3, <2>1, <2>3
      <3> QED BY <1>1, <3>1
    <2> QED BY <2>2, <2>3
  <1>4. Within(new, low, v)
    <2> SUFFICES ASSUME NEW i \in 1..Len(new), new[i] # 0
                 PROVE  low <= new[i] /\ new[i] <= v
      BY DEF Within
    <2>1. CASE new[i] = v
      BY <1>2, <2>1
    <2>2. CASE i + d \in 1..Len(ch) /\ new[i] = ch[i + d]
      BY <2>2 DEF Within
    <2> QED BY <1>3, <2>1, <2>2
  <1>5. Ordered(new)
    <2> SUFFICES ASSUME NEW i \in 1..Len(new), NEW j \in 1..Len(new),
                        i < j, new[i] # 0, new[j] # 0
                 PROVE  new[i] <= new[j]
      BY DEF Ordered
    <2>1. i + d \in 1..Len(ch) /\ new[i] = ch[i + d]
      BY <1>1, <1>2, <1>3
    <2>2. CASE j = Len(new) /\ new[j] = v
      BY <2>1, <2>2 DEF Within
    <2>3. CASE j + d \in 1..Len(ch) /\ new[j] = ch[j + d]
      <3>1. i + d < j + d
        BY <1>1, <1>2
      <3> QED BY <2>1, <2>3, <3>1 DEF Ordered
    <2> QED BY <1>3, <2>2, <2>3
  <1>6. \E i \in 1..Len(new) : new[i] = v
    BY <1>1, <1>2
  <1> QED BY <1>4, <1>5, <1>6 DEF new

-----------------------------------------------------------------------------
(* Types and channel sizes.                                                *)

LEMMA EmptyChannel ==
    /\ <<>> \in Seq(0..LastVersion)
    /\ Len(<<>>) = 0 /\ 0 <= ChannelSize
PROOF
  BY StreamAssumption

(* Closing a stream empties its channel.                                   *)
LEMMA CloseType ==
    ASSUME Typed, ChannelsFit, NEW r \in Readers, Close(r)
    PROVE  /\ channel' \in [Readers -> Seq(0..LastVersion)]
           /\ \A q \in Readers : Len(channel'[q]) <= ChannelSize
           /\ rpc' \in [Readers -> {"off", "lock", "load", "first", "loop"}]
PROOF
  <1>1. channel' = [channel EXCEPT ![r] = <<>>]
    BY DEF Close
  <1>2. channel \in [Readers -> Seq(0..LastVersion)]
    BY DEF Typed
  <1>3. channel' \in [Readers -> Seq(0..LastVersion)]
    <2> DEFINE S == Seq(0..LastVersion)
    <2>1. <<>> \in S
      BY EmptyChannel
    <2> HIDE DEF S
    <2> QED BY <1>1, <1>2, <2>1 DEF S
  <1>4. \A q \in Readers : Len(channel'[q]) <= ChannelSize
    BY <1>1, <1>2, EmptyChannel DEF ChannelsFit
  <1>5. rpc' \in [Readers -> {"off", "lock", "load", "first", "loop"}]
    BY DEF Close, Typed
  <1> QED BY <1>3, <1>4, <1>5

LEMMA InitIInv == Init => IInv
PROOF
  <1> SUFFICES ASSUME Init PROVE IInv
    OBVIOUS
  <1> USE StreamAssumption DEF Init
  <1>1. Typed
    <2>1. channel \in [Readers -> Seq(0..LastVersion)]
      BY EmptyChannel
    <2>2. deleted \in BOOLEAN
      OBVIOUS
    <2>3. /\ row \in 1..LastVersion
          /\ lock \in Readers \cup Writers \cup {Nobody}
          /\ missed \subseteq 0..LastVersion
      OBVIOUS
    <2>4. /\ wpc \in [Writers -> {"idle", "lock", "load", "put"}]
          /\ wver \in [Writers -> 0..LastVersion]
          /\ wsnap \in [Writers -> 0..LastVersion]
      OBVIOUS
    <2>5. /\ rpc \in [Readers -> {"off", "lock", "load", "first", "loop"}]
          /\ rsnap \in [Readers -> 0..LastVersion]
          /\ seen \in [Readers -> 0..LastVersion]
      OBVIOUS
    <2> QED BY <2>1, <2>2, <2>3, <2>4, <2>5 DEF Typed
  <1>2. ChannelsFit
    BY DEF ChannelsFit
  <1>3. LockInv
    BY DEF LockInv
  <1>4. ReaderInv
    BY DEF ReaderInv, ReaderOK, Ordered, Within, Lowest
  <1>5. WriterInv
    BY DEF WriterInv, WriterOK
  <1>6. NoUpdateLost
    BY DEF NoUpdateLost
  <1> QED BY <1>1, <1>2, <1>3, <1>4, <1>5, <1>6 DEF IInv

(* The two actions that fill channels.                                     *)
LEMMA PutType ==
    ASSUME Typed, ChannelsFit, NEW w \in Writers, Put(w)
    PROVE  /\ channel' \in [Readers -> Seq(0..LastVersion)]
           /\ \A r \in Readers : Len(channel'[r]) <= ChannelSize
PROOF
  <1>1. \A r \in Readers :
           /\ channel[r] \in Seq(0..LastVersion)
           /\ Len(channel[r]) <= ChannelSize
    BY DEF Typed, ChannelsFit
  <1>2. wsnap[w] \in 0..LastVersion
    BY DEF Typed
  <1>3. \A r \in Readers :
           /\ Offered(channel[r], wsnap[w]) \in Seq(0..LastVersion)
           /\ Len(Offered(channel[r], wsnap[w])) <= ChannelSize
    BY <1>1, <1>2, OfferedProperties
  <1>4. channel' = [r \in Readers |-> IF r \in Registered
                                     THEN Offered(channel[r], wsnap[w])
                                     ELSE channel[r]]
    BY DEF Put
  <1> QED BY <1>1, <1>3, <1>4

LEMMA ProgressType ==
    ASSUME Typed, ChannelsFit, Progress
    PROVE  /\ channel' \in [Readers -> Seq(0..LastVersion)]
           /\ \A r \in Readers : Len(channel'[r]) <= ChannelSize
PROOF
  <1>1. /\ 0 \in 0..LastVersion
        /\ ChannelSize \in Nat
    BY StreamAssumption
  <1>2. \A r \in Readers :
           /\ channel[r] \in Seq(0..LastVersion)
           /\ Len(channel[r]) \in Nat
           /\ Len(channel[r]) <= ChannelSize
    BY LenProperties DEF Typed, ChannelsFit
  <1>3. \A r \in Readers :
           /\ Append(channel[r], 0) \in Seq(0..LastVersion)
           /\ Len(Append(channel[r], 0)) = Len(channel[r]) + 1
    BY <1>1, <1>2, AppendProperties
  <1>4. channel' = [r \in Readers |->
                      IF r \in Registered /\ Len(channel[r]) < ChannelSize
                      THEN Append(channel[r], 0) ELSE channel[r]]
    BY DEF Progress
  <1>5. ASSUME NEW r \in Readers
        PROVE  \/ channel'[r] = channel[r]
               \/ /\ channel'[r] = Append(channel[r], 0)
                  /\ Len(channel[r]) < ChannelSize
    <2>1. CASE r \in Registered /\ Len(channel[r]) < ChannelSize
      BY <1>4, <2>1
    <2>2. CASE ~(r \in Registered /\ Len(channel[r]) < ChannelSize)
      BY <1>4, <2>2
    <2> QED BY <2>1, <2>2
  <1>6. ASSUME NEW r \in Readers PROVE channel'[r] \in Seq(0..LastVersion)
    BY <1>2, <1>3, <1>5
  <1>7. ASSUME NEW r \in Readers PROVE Len(channel'[r]) <= ChannelSize
    BY <1>1, <1>2, <1>3, <1>5
  <1>8. channel' \in [Readers -> Seq(0..LastVersion)]
    BY <1>4, <1>6
  <1> QED BY <1>7, <1>8

LEMMA TypePreserves ==
    ASSUME Typed, ChannelsFit, [Next]_vars
    PROVE  Typed' /\ ChannelsFit'
PROOF
  <1> USE StreamAssumption
  <1>1. ASSUME NEW w \in Writers, Commit(w) PROVE Typed' /\ ChannelsFit'
    BY <1>1 DEF Commit, Typed, ChannelsFit, readerVars
  <1>2. ASSUME NEW w \in Writers, Acquire(w) PROVE Typed' /\ ChannelsFit'
    BY <1>2 DEF Acquire, Typed, ChannelsFit, readerVars
  <1>3. ASSUME NEW w \in Writers, Load(w) PROVE Typed' /\ ChannelsFit'
    <2>1. row \in 0..LastVersion
      BY DEF Typed
    <2>2. CASE deleted
      BY <1>3, <2>2 DEF Load, Typed, ChannelsFit, readerVars
    <2>3. CASE ~deleted
      <3>1. wsnap' = [wsnap EXCEPT ![w] = row]
        BY <1>3, <2>3 DEF Load
      <3>2. wsnap' \in [Writers -> 0..LastVersion]
        BY <2>1, <3>1 DEF Typed
      <3> QED BY <1>3, <2>3, <3>2 DEF Load, Typed, ChannelsFit, readerVars
    <2> QED BY <2>2, <2>3
  <1>4. ASSUME NEW w \in Writers, Put(w) PROVE Typed' /\ ChannelsFit'
    BY <1>4, PutType DEF Put, Typed, ChannelsFit
  <1>5. ASSUME NEW w \in Writers, Interrupted(w) PROVE Typed' /\ ChannelsFit'
    BY <1>5 DEF Interrupted, Typed, ChannelsFit, readerVars
  <1>6. ASSUME NEW r \in Readers, Connect(r) PROVE Typed' /\ ChannelsFit'
    BY <1>6 DEF Connect, Typed, ChannelsFit, writerVars
  <1>7. ASSUME NEW r \in Readers, Register(r) PROVE Typed' /\ ChannelsFit'
    BY <1>7 DEF Register, Typed, ChannelsFit, writerVars
  <1>8. ASSUME NEW r \in Readers, LoadFirst(r) PROVE Typed' /\ ChannelsFit'
    <2>1. CASE deleted
      BY <1>8, <2>1, CloseType DEF LoadFirst, Typed, ChannelsFit, writerVars
    <2>2. CASE ~deleted
      <3>1. row \in 0..LastVersion
        BY DEF Typed
      <3>2. rsnap' \in [Readers -> 0..LastVersion]
        BY <1>8, <2>2, <3>1 DEF LoadFirst, Typed
      <3> QED BY <1>8, <2>2, <3>2 DEF LoadFirst, Typed, ChannelsFit, writerVars
    <2> QED BY <2>1, <2>2
  <1>9. ASSUME NEW r \in Readers, YieldFirst(r) PROVE Typed' /\ ChannelsFit'
    <2>1. CASE rsnap[r] \in Finals
      BY <1>9, <2>1, CloseType DEF YieldFirst, Typed, ChannelsFit, writerVars
    <2>2. CASE rsnap[r] \notin Finals
      BY <1>9, <2>2 DEF YieldFirst, Typed, ChannelsFit, writerVars
    <2> QED BY <2>1, <2>2
  <1>10. ASSUME NEW r \in Readers, Take(r) PROVE Typed' /\ ChannelsFit'
    <2>1. /\ channel[r] \in Seq(0..LastVersion) /\ channel[r] # <<>>
          /\ Len(channel[r]) \in Nat
      BY <1>10, LenProperties DEF Take, Typed
    <2>2. /\ Head(channel[r]) \in 0..LastVersion
          /\ Tail(channel[r]) \in Seq(0..LastVersion)
          /\ Len(Tail(channel[r])) = Len(channel[r]) - 1
      BY <2>1, HeadTailProperties
    <2>3. CASE Head(channel[r]) \in Finals
      BY <1>10, <2>2, <2>3, CloseType DEF Take, Typed, ChannelsFit, writerVars
    <2>4. CASE Head(channel[r]) \notin Finals
      <3>1. channel' = [channel EXCEPT ![r] = Tail(channel[r])]
        BY <1>10, <2>4 DEF Take, Typed
      <3>2. channel' \in [Readers -> Seq(0..LastVersion)]
        BY <2>2, <3>1 DEF Typed
      <3>3. \A q \in Readers : Len(channel'[q]) <= ChannelSize
        BY <2>1, <2>2, <3>1, StreamAssumption DEF Typed, ChannelsFit
      <3>4. seen' \in [Readers -> 0..LastVersion]
        BY <1>10, <2>2 DEF Take, Typed
      <3> QED BY <1>10, <2>4, <3>2, <3>3, <3>4 DEF Take, Typed, ChannelsFit, writerVars
    <2> QED BY <2>3, <2>4
  <1>11. ASSUME NEW r \in Readers, Disconnect(r) PROVE Typed' /\ ChannelsFit'
    BY <1>11, CloseType DEF Disconnect, Typed, ChannelsFit, writerVars
  <1>12. ASSUME Progress PROVE Typed' /\ ChannelsFit'
    BY <1>12, ProgressType DEF Progress, Typed, ChannelsFit, writerVars
  <1>13. ASSUME Delete PROVE Typed' /\ ChannelsFit'
    BY <1>13 DEF Delete, Typed, ChannelsFit, writerVars, readerVars
  <1>14. ASSUME UNCHANGED vars PROVE Typed' /\ ChannelsFit'
    BY <1>14 DEF vars, Typed, ChannelsFit, writerVars, readerVars
  <1> QED BY <1>1, <1>2, <1>3, <1>4, <1>5, <1>6, <1>7, <1>8, <1>9, <1>10, <1>11,
             <1>12, <1>13, <1>14 DEF Next, WriterStep, ReaderStep

-----------------------------------------------------------------------------
(* The lock has one holder.                                                *)

LEMMA LockPreserves ==
    ASSUME Typed, LockInv, [Next]_vars
    PROVE  LockInv'
PROOF
  <1> USE StreamAssumption DEF Typed, LockInv
  <1>1. ASSUME NEW w \in Writers, Commit(w) PROVE LockInv'
    BY <1>1 DEF Commit, readerVars
  <1>2. ASSUME NEW w \in Writers, Acquire(w) PROVE LockInv'
    BY <1>2 DEF Acquire, LockFree, readerVars
  <1>3. ASSUME NEW w \in Writers, Load(w) PROVE LockInv'
    BY <1>3 DEF Load, readerVars
  <1>4. ASSUME NEW w \in Writers, Put(w) PROVE LockInv'
    BY <1>4 DEF Put
  <1>5. ASSUME NEW w \in Writers, Interrupted(w) PROVE LockInv'
    BY <1>5 DEF Interrupted, readerVars
  <1>6. ASSUME NEW r \in Readers, Connect(r) PROVE LockInv'
    BY <1>6 DEF Connect, writerVars
  <1>7. ASSUME NEW r \in Readers, Register(r) PROVE LockInv'
    BY <1>7 DEF Register, LockFree, writerVars
  <1>8. ASSUME NEW r \in Readers, LoadFirst(r) PROVE LockInv'
    BY <1>8 DEF LoadFirst, Close, writerVars
  <1>9. ASSUME NEW r \in Readers, YieldFirst(r) PROVE LockInv'
    BY <1>9 DEF YieldFirst, Close, writerVars
  <1>10. ASSUME NEW r \in Readers, Take(r) PROVE LockInv'
    BY <1>10 DEF Take, Close, writerVars
  <1>11. ASSUME NEW r \in Readers, Disconnect(r) PROVE LockInv'
    BY <1>11 DEF Disconnect, Close, writerVars
  <1>12. ASSUME Progress \/ Delete \/ UNCHANGED vars PROVE LockInv'
    BY <1>12 DEF Progress, Delete, vars, writerVars, readerVars
  <1> QED BY <1>1, <1>2, <1>3, <1>4, <1>5, <1>6, <1>7, <1>8, <1>9, <1>10, <1>11,
             <1>12 DEF Next, WriterStep, ReaderStep

-----------------------------------------------------------------------------
(* Every channel is sorted and starts no earlier than its reader stands.   *)

(* The numbers in use.                                                     *)
LEMMA Numbers ==
    ASSUME Typed
    PROVE  /\ row \in Nat /\ row >= 1 /\ row \in 0..LastVersion
           /\ \A w \in Writers : wver[w] \in Nat /\ wsnap[w] \in 0..LastVersion
           /\ \A r \in Readers :
                 /\ seen[r] \in 0..LastVersion
                 /\ rsnap[r] \in 0..LastVersion
                 /\ Lowest(r) \in 0..LastVersion
                 /\ channel[r] \in Seq(0..LastVersion)
                 /\ Len(channel[r]) \in Nat
                 /\ \A i \in 1..Len(channel[r]) : channel[r][i] \in Nat
PROOF
  <1>1. LastVersion \in Nat
    BY StreamAssumption
  <1>2. /\ row \in Nat /\ row >= 1 /\ row \in 0..LastVersion
        /\ \A w \in Writers : wver[w] \in Nat /\ wsnap[w] \in 0..LastVersion
    BY <1>1 DEF Typed
  <1>3. \A r \in Readers :
           /\ seen[r] \in 0..LastVersion
           /\ rsnap[r] \in 0..LastVersion
           /\ channel[r] \in Seq(0..LastVersion)
    BY DEF Typed
  <1>4. \A r \in Readers :
           /\ Len(channel[r]) \in Nat
           /\ \A i \in 1..Len(channel[r]) : channel[r][i] \in 0..LastVersion
    BY <1>3, LenProperties, ElementOfSeq
  <1>5. \A r \in Readers : Lowest(r) \in 0..LastVersion
    BY <1>3 DEF Lowest
  <1> QED BY <1>1, <1>2, <1>3, <1>4, <1>5

(* Nothing the reader sees has changed, but the row may have moved on.     *)
LEMMA ReaderStill ==
    ASSUME Typed, Typed', NEW r \in Readers, ReaderOK(r), row <= row',
           channel'[r] = channel[r], rpc'[r] = rpc[r],
           rsnap'[r] = rsnap[r], seen'[r] = seen[r]
    PROVE  ReaderOK(r)'
PROOF
  <1>1. row \in Nat /\ row' \in Nat
    BY Numbers DEF Typed
  <1>2. /\ seen[r] \in Nat /\ rsnap[r] \in Nat
        /\ \A i \in 1..Len(channel[r]) : channel[r][i] \in Nat
    BY Numbers
  <1>3. Lowest(r)' = Lowest(r)
    BY DEF Lowest
  <1>4. Within(channel'[r], Lowest(r)', row')
    BY <1>1, <1>2, <1>3 DEF ReaderOK, Within
  <1>5. Ordered(channel'[r])
    BY DEF ReaderOK
  <1> QED BY <1>1, <1>2, <1>4, <1>5 DEF ReaderOK

(* A publisher fills the channel of an open stream.                        *)
LEMMA ReaderPut ==
    ASSUME IInv, Typed', NEW w \in Writers, Put(w), NEW r \in Readers
    PROVE  ReaderOK(r)'
PROOF
  <1>1. /\ rpc' = rpc /\ rsnap' = rsnap /\ seen' = seen /\ row' = row
        /\ channel'[r] = IF r \in Registered THEN Offered(channel[r], wsnap[w])
                         ELSE channel[r]
    BY DEF Put
  <1>2. ReaderOK(r) /\ WriterOK(w) /\ NotNewer(r, wsnap[w])
    BY DEF IInv, ReaderInv, WriterInv, WriterOK, Put
  <1>3. rpc[r] # "load"
    BY StreamAssumption DEF IInv, LockInv, Put
  <1>4. CASE r \notin Registered
    BY <1>1, <1>2, <1>4, ReaderStill, Numbers DEF IInv
  <1>5. CASE r \in Registered
    <2>1. rpc[r] \in {"first", "loop"}
      BY <1>3, <1>5 DEF Registered
    <2>2. /\ Within(channel[r], Lowest(r), wsnap[w])
          /\ Lowest(r) <= wsnap[w]
      BY <1>2, <2>1 DEF NotNewer, ReaderOK, Within
    <2>3. /\ Ordered(Offered(channel[r], wsnap[w]))
          /\ Within(Offered(channel[r], wsnap[w]), Lowest(r), wsnap[w])
      BY <1>2, <2>2, OfferedInOrder, Numbers DEF IInv, ChannelsFit, ReaderOK
    <2>4. wsnap[w] <= row
      BY <1>2 DEF WriterOK, Put
    <2>5. Within(channel'[r], Lowest(r), row)
      <3>1. channel'[r] = Offered(channel[r], wsnap[w])
        BY <1>1, <1>5
      <3>2. \A i \in 1..Len(channel'[r]) : channel'[r][i] \in Nat
        <4>1. channel'[r] \in Seq(0..LastVersion)
          BY DEF Typed
        <4> QED BY <4>1, ElementOfSeq, StreamAssumption
      <3>3. wsnap[w] \in Nat /\ row \in Nat
        BY Numbers, StreamAssumption DEF IInv
      <3> QED BY <2>3, <2>4, <3>1, <3>2, <3>3 DEF Within
    <2>6. Lowest(r)' = Lowest(r)
      BY <1>1 DEF Lowest
    <2> QED BY <1>1, <1>2, <1>5, <2>1, <2>3, <2>5, <2>6 DEF ReaderOK
  <1> QED BY <1>4, <1>5

(* A progress item, which carries no version, changes no order.            *)
LEMMA ReaderProgress ==
    ASSUME IInv, Typed', Progress, NEW r \in Readers
    PROVE  ReaderOK(r)'
PROOF
  <1>1. /\ rpc' = rpc /\ rsnap' = rsnap /\ seen' = seen /\ row' = row
        /\ \/ channel'[r] = channel[r]
           \/ r \in Registered /\ channel'[r] = Append(channel[r], 0)
    BY DEF Progress
  <1>2. ReaderOK(r)
    BY DEF IInv, ReaderInv
  <1>3. CASE channel'[r] = channel[r]
    BY <1>1, <1>2, <1>3, ReaderStill, Numbers DEF IInv
  <1>4. CASE r \in Registered /\ channel'[r] = Append(channel[r], 0)
    <2>1. channel[r] \in Seq(0..LastVersion) /\ 0 \in 0..LastVersion
      BY Numbers, StreamAssumption DEF IInv
    <2>2. /\ Len(channel[r]) \in Nat
          /\ Len(channel'[r]) = Len(channel[r]) + 1
          /\ \A i \in 1..Len(channel[r]) : channel'[r][i] = channel[r][i]
          /\ channel'[r][Len(channel[r]) + 1] = 0
      BY <1>4, <2>1, AppendProperties, LenProperties
    <2>3. \A i \in 1..Len(channel'[r]) :
             i \in 1..Len(channel[r]) \/ channel'[r][i] = 0
      BY <2>2
    <2>4. Ordered(channel'[r])
      BY <1>2, <2>2, <2>3 DEF ReaderOK, Ordered
    <2>5. Lowest(r)' = Lowest(r)
      BY <1>1 DEF Lowest
    <2>6. Within(channel'[r], Lowest(r)', row')
      BY <1>1, <1>2, <2>2, <2>3, <2>5 DEF ReaderOK, Within
    <2>7. rpc[r] \notin {"off", "lock"}
      BY <1>4 DEF Registered
    <2>8. rpc[r] = "load" => \A i \in 1..Len(channel'[r]) : channel'[r][i] = 0
      BY <1>2, <2>2, <2>3 DEF ReaderOK
    <2> QED BY <1>1, <1>2, <2>4, <2>6, <2>7, <2>8 DEF ReaderOK
  <1> QED BY <1>1, <1>3, <1>4

(* A reader takes the first item of its channel, which is not older than   *)
(* what it has seen, and the rest is not older than that item.             *)
LEMMA TakeFacts ==
    ASSUME IInv, NEW r \in Readers, Take(r)
    PROVE  LET ch == channel[r]
           IN /\ Head(ch) \in 0..LastVersion /\ Head(ch) <= row
              /\ Head(ch) # 0 => seen[r] <= Head(ch)
              /\ Len(Tail(ch)) = Len(ch) - 1
              /\ \A i \in 1..Len(Tail(ch)) : Tail(ch)[i] = ch[i + 1]
              /\ Ordered(Tail(ch))
              /\ Within(Tail(ch), IF Head(ch) = 0 THEN seen[r] ELSE Head(ch), row)
PROOF
  <1> DEFINE ch == channel[r]
  <1>1. /\ ch \in Seq(0..LastVersion) /\ ch # <<>>
        /\ Len(ch) \in Nat /\ row \in Nat
        /\ seen[r] \in Nat
        /\ \A i \in 1..Len(ch) : ch[i] \in Nat
    BY Numbers, StreamAssumption DEF IInv, Take
  <1>2. /\ Len(ch) >= 1
        /\ Head(ch) = ch[1] /\ Head(ch) \in 0..LastVersion
        /\ Len(Tail(ch)) = Len(ch) - 1
        /\ \A i \in 1..Len(Tail(ch)) : Tail(ch)[i] = ch[i + 1]
    <2> HIDE DEF ch
    <2>1. Len(ch) >= 1
      BY <1>1
    <2>2. Head(ch) = ch[1]
      BY <1>1
    <2>3. /\ Head(ch) \in 0..LastVersion
          /\ Len(Tail(ch)) = Len(ch) - 1
          /\ \A i \in 1..Len(Tail(ch)) : Tail(ch)[i] = ch[i + 1]
      BY <1>1, HeadTailProperties
    <2> QED BY <2>1, <2>2, <2>3
  <1>3. Ordered(ch) /\ Within(ch, seen[r], row)
    BY DEF IInv, ReaderInv, ReaderOK, Take, Lowest
  <1> HIDE DEF ch
  <1>4. Head(ch) <= row
    BY <1>1, <1>2, <1>3 DEF Within
  <1>5. Head(ch) # 0 => seen[r] <= Head(ch)
    BY <1>1, <1>2, <1>3 DEF Within
  <1>6. \A i \in 1..Len(Tail(ch)) : i + 1 \in 1..Len(ch) /\ 1 < i + 1
    BY <1>1, <1>2
  <1>7. Ordered(Tail(ch))
    <2> SUFFICES ASSUME NEW i \in 1..Len(Tail(ch)), NEW j \in 1..Len(Tail(ch)),
                        i < j, Tail(ch)[i] # 0, Tail(ch)[j] # 0
                 PROVE  Tail(ch)[i] <= Tail(ch)[j]
      BY DEF Ordered
    <2>1. i + 1 < j + 1
      OBVIOUS
    <2> QED BY <1>2, <1>3, <1>6, <2>1 DEF Ordered
  <1>8. CASE Head(ch) = 0
    <2>1. Within(Tail(ch), seen[r], row)
      BY <1>2, <1>3, <1>6 DEF Within
    <2> QED BY <1>2, <1>4, <1>5, <1>7, <1>8, <2>1 DEF ch
  <1>9. CASE Head(ch) # 0
    <2>1. Within(Tail(ch), Head(ch), row)
      <3> SUFFICES ASSUME NEW i \in 1..Len(Tail(ch)), Tail(ch)[i] # 0
                   PROVE  Head(ch) <= Tail(ch)[i] /\ Tail(ch)[i] <= row
        BY DEF Within
      <3>1. 1 \in 1..Len(ch)
        BY <1>1, <1>2
      <3>2. Tail(ch)[i] = ch[i + 1] /\ i + 1 \in 1..Len(ch) /\ 1 < i + 1
        BY <1>2, <1>6
      <3>3. ch[1] <= ch[i + 1]
        BY <1>2, <1>3, <1>9, <3>1, <3>2 DEF Ordered
      <3> QED BY <1>2, <1>3, <3>2, <3>3 DEF Within
    <2> QED BY <1>2, <1>4, <1>5, <1>7, <1>9, <2>1 DEF ch
  <1> QED BY <1>8, <1>9

(* A closed stream has nothing left to be in order.                        *)
LEMMA ReaderClosed ==
    ASSUME Typed, Typed', NEW r \in Readers, Close(r), seen'[r] <= row'
    PROVE  ReaderOK(r)'
PROOF
  <1>1. rpc'[r] = "off" /\ channel'[r] = <<>>
    BY DEF Close, Typed
  <1> QED BY <1>1, EmptyChannel DEF ReaderOK, Ordered, Within

(* A step of the stream itself.                                            *)
LEMMA ReaderSteps ==
    ASSUME IInv, Typed', NEW r \in Readers,
           Connect(r) \/ ReaderStep(r) \/ Disconnect(r)
    PROVE  ReaderOK(r)'
PROOF
  <1>1. ReaderOK(r) /\ row' = row /\ Typed
    BY DEF IInv, ReaderInv, ReaderStep, Connect, Register, LoadFirst, YieldFirst,
           Take, Disconnect
  <1>2. /\ row \in Nat
        /\ seen[r] \in Nat /\ rsnap[r] \in Nat /\ seen[r] <= row
        /\ \A i \in 1..Len(channel[r]) : channel[r][i] \in Nat
    BY <1>1, Numbers, StreamAssumption DEF ReaderOK
  <1>3. CASE Connect(r)
    <2>1. /\ channel'[r] = <<>> /\ rpc'[r] = "lock" /\ seen'[r] = seen[r]
      BY <1>1, <1>3 DEF Connect, ReaderOK, Typed
    <2> QED BY <1>1, <1>2, <2>1, EmptyChannel DEF ReaderOK, Ordered, Within
  <1>4. CASE Register(r)
    <2>1. /\ channel'[r] = <<>> /\ rpc'[r] = "load" /\ seen'[r] = seen[r]
      BY <1>1, <1>4 DEF Register, ReaderOK, Typed
    <2> QED BY <1>1, <1>2, <2>1, EmptyChannel DEF ReaderOK, Ordered, Within
  <1>5. CASE LoadFirst(r)
    <2>1. CASE deleted
      BY <1>1, <1>2, <1>5, <2>1, ReaderClosed DEF LoadFirst
    <2>2. CASE ~deleted
      <3>1. /\ channel'[r] = channel[r] /\ rpc'[r] = "first"
            /\ rsnap'[r] = row /\ seen'[r] = seen[r]
        BY <1>1, <1>5, <2>2 DEF LoadFirst, Typed
      <3>2. \A i \in 1..Len(channel[r]) : channel[r][i] = 0
        BY <1>1, <1>5 DEF LoadFirst, ReaderOK
      <3> QED BY <1>1, <1>2, <3>1, <3>2 DEF ReaderOK, Ordered, Within
    <2> QED BY <2>1, <2>2
  <1>6. CASE YieldFirst(r)
    <2>1. seen'[r] = rsnap[r] /\ seen[r] <= rsnap[r] /\ rsnap[r] <= row
      BY <1>1, <1>6 DEF YieldFirst, ReaderOK, Typed
    <2>2. CASE rsnap[r] \in Finals
      BY <1>1, <1>6, <2>1, <2>2, ReaderClosed DEF YieldFirst
    <2>3. CASE rsnap[r] \notin Finals
      <3>1. channel'[r] = channel[r] /\ rpc'[r] = "loop"
        BY <1>1, <1>6, <2>3 DEF YieldFirst, Typed
      <3>2. Lowest(r) = rsnap[r] /\ Lowest(r)' = rsnap[r]
        BY <1>6, <2>1, <3>1 DEF YieldFirst, Lowest
      <3> QED BY <1>1, <1>2, <2>1, <3>1, <3>2 DEF ReaderOK
    <2> QED BY <2>2, <2>3
  <1>7. CASE Take(r)
    <2> DEFINE item == Head(channel[r])
    <2>1. /\ item \in 0..LastVersion /\ item <= row
          /\ item # 0 => seen[r] <= item
          /\ Ordered(Tail(channel[r]))
          /\ Within(Tail(channel[r]), IF item = 0 THEN seen[r] ELSE item, row)
      BY <1>7, TakeFacts
    <2>2. seen'[r] = (IF item = 0 THEN seen[r] ELSE item) /\ seen'[r] <= row
      BY <1>1, <1>2, <1>7, <2>1 DEF Take, Typed
    <2>3. CASE item \in Finals
      BY <1>1, <1>7, <2>2, <2>3, ReaderClosed DEF Take
    <2>4. CASE item \notin Finals
      <3>1. channel'[r] = Tail(channel[r]) /\ rpc'[r] = "loop"
        BY <1>1, <1>7, <2>4 DEF Take, Typed
      <3>2. Lowest(r)' = seen'[r]
        BY <3>1 DEF Lowest
      <3> QED BY <1>1, <2>1, <2>2, <3>1, <3>2 DEF ReaderOK
    <2> QED BY <2>3, <2>4
  <1>8. CASE Disconnect(r)
    BY <1>1, <1>2, <1>8, ReaderClosed DEF Disconnect
  <1> QED BY <1>3, <1>4, <1>5, <1>6, <1>7, <1>8 DEF ReaderStep

(* A step of one stream leaves the others alone.                           *)
LEMMA OthersStill ==
    ASSUME Typed, NEW r \in Readers, NEW q \in Readers, q # r,
           Connect(r) \/ ReaderStep(r) \/ Disconnect(r)
    PROVE  /\ channel'[q] = channel[q] /\ rpc'[q] = rpc[q]
           /\ rsnap'[q] = rsnap[q] /\ seen'[q] = seen[q]
PROOF
  BY DEF Typed, ReaderStep, Connect, Register, LoadFirst, YieldFirst, Take,
         Disconnect, Close

LEMMA ReaderPreserves ==
    ASSUME IInv, Typed', [Next]_vars
    PROVE  ReaderInv'
PROOF
  <1> SUFFICES ASSUME NEW q \in Readers PROVE ReaderOK(q)'
    BY DEF ReaderInv
  <1>1. Typed /\ ReaderOK(q) /\ row \in Nat
    BY Numbers DEF IInv, ReaderInv
  <1>2. ASSUME UNCHANGED readerVars, row' = row \/ row' = row + 1 PROVE ReaderOK(q)'
    BY <1>1, <1>2, ReaderStill DEF readerVars
  <1>3. ASSUME NEW w \in Writers, Commit(w) \/ Acquire(w) \/ Load(w) \/ Interrupted(w)
        PROVE  ReaderOK(q)'
    BY <1>2, <1>3 DEF Commit, Acquire, Load, Interrupted
  <1>4. ASSUME NEW w \in Writers, Put(w) PROVE ReaderOK(q)'
    BY <1>4, ReaderPut
  <1>5. ASSUME NEW r \in Readers, Connect(r) \/ ReaderStep(r) \/ Disconnect(r)
        PROVE  ReaderOK(q)'
    <2>1. CASE q = r
      BY <1>5, <2>1, ReaderSteps
    <2>2. CASE q # r
      <3>1. row' = row
        BY <1>5 DEF ReaderStep, Connect, Register, LoadFirst, YieldFirst, Take, Disconnect
      <3> QED BY <1>1, <1>5, <2>2, <3>1, OthersStill, ReaderStill
    <2> QED BY <2>1, <2>2
  <1>6. CASE Progress
    BY <1>6, ReaderProgress
  <1>7. CASE Delete \/ UNCHANGED vars
    BY <1>2, <1>7 DEF Delete, vars
  <1> QED BY <1>3, <1>4, <1>5, <1>6, <1>7 DEF Next, WriterStep

-----------------------------------------------------------------------------
(* What a publisher is about to put is not older than what is there.       *)

(* A step that leaves a stream alone.                                      *)
LEMMA NotNewerStill ==
    ASSUME NEW r \in Readers, NEW w \in Writers,
           NotNewer(r, wsnap[w]), wsnap'[w] = wsnap[w],
           channel'[r] = channel[r], rpc'[r] = rpc[r],
           rsnap'[r] = rsnap[r], seen'[r] = seen[r]
    PROVE  NotNewer(r, wsnap[w])'
PROOF
  BY DEF NotNewer, Within, Lowest

(* A step of the stream itself while a publisher has read the row.         *)
LEMMA NotNewerReader ==
    ASSUME IInv, Typed', NEW r \in Readers, NEW w \in Writers, wpc[w] = "put",
           NotNewer(r, wsnap[w]), wsnap'[w] = wsnap[w],
           Connect(r) \/ ReaderStep(r) \/ Disconnect(r)
    PROVE  NotNewer(r, wsnap[w])'
PROOF
  <1>1. Typed /\ rpc' \in [Readers -> {"off", "lock", "load", "first", "loop"}]
    BY DEF IInv, Typed
  <1>2. CASE Connect(r) \/ Register(r) \/ Disconnect(r)
    <2>1. rpc'[r] \in {"lock", "load", "off"}
      BY <1>1, <1>2 DEF Connect, Register, Disconnect, Close, Typed
    <2> QED BY <2>1 DEF NotNewer
  <1>3. CASE LoadFirst(r)
    <2>1. lock = r /\ lock = w
      BY <1>3 DEF IInv, LockInv, LoadFirst
    <2> QED BY <2>1, StreamAssumption
  <1>4. CASE YieldFirst(r)
    <2>1. CASE rsnap[r] \in Finals
      <3>1. rpc'[r] = "off"
        BY <1>1, <1>4, <2>1 DEF YieldFirst, Close, Typed
      <3> QED BY <3>1 DEF NotNewer
    <2>2. CASE rsnap[r] \notin Finals
      <3>1. /\ channel'[r] = channel[r] /\ rpc'[r] = "loop"
            /\ seen'[r] = rsnap[r] /\ rpc[r] = "first"
        BY <1>1, <1>4, <2>2 DEF YieldFirst, Typed
      <3> QED BY <3>1 DEF NotNewer, Lowest, Within
    <2> QED BY <2>1, <2>2
  <1>5. CASE Take(r)
    <2> DEFINE item == Head(channel[r])
    <2>1. /\ Len(Tail(channel[r])) = Len(channel[r]) - 1
          /\ \A i \in 1..Len(Tail(channel[r])) : Tail(channel[r])[i] = channel[r][i + 1]
          /\ item = channel[r][1] /\ item \in Nat
          /\ Len(channel[r]) \in Nat /\ Len(channel[r]) >= 1
      <3>1. /\ channel[r] \in Seq(0..LastVersion) /\ channel[r] # <<>>
            /\ Len(channel[r]) \in Nat
        BY <1>1, <1>5, Numbers DEF Take
      <3>2. Len(channel[r]) >= 1 /\ item = channel[r][1]
        BY <3>1
      <3>3. item \in Nat
        BY <1>1, <3>1, <3>2, Numbers
      <3>4. /\ Len(Tail(channel[r])) = Len(channel[r]) - 1
            /\ \A i \in 1..Len(Tail(channel[r])) : Tail(channel[r])[i] = channel[r][i + 1]
        BY <3>1, HeadTailProperties
      <3> QED BY <3>1, <3>2, <3>3, <3>4
    <2>2. /\ rpc[r] = "loop" /\ seen[r] <= wsnap[w]
          /\ Within(channel[r], 0, wsnap[w])
      BY <1>5 DEF Take, NotNewer, Lowest
    <2>3. seen'[r] = (IF item = 0 THEN seen[r] ELSE item)
      BY <1>1, <1>5 DEF Take, Typed
    <2>4. seen'[r] <= wsnap[w]
      <3>1. 1 \in 1..Len(channel[r])
        BY <2>1
      <3> QED BY <2>1, <2>2, <2>3, <3>1 DEF Within
    <2>5. CASE item \in Finals
      <3>1. rpc'[r] = "off"
        BY <1>1, <1>5, <2>5 DEF Take, Close, Typed
      <3> QED BY <3>1 DEF NotNewer
    <2>6. CASE item \notin Finals
      <3>1. channel'[r] = Tail(channel[r]) /\ rpc'[r] = "loop"
        BY <1>1, <1>5, <2>6 DEF Take, Typed
      <3>2. Within(Tail(channel[r]), 0, wsnap[w])
        BY <2>1, <2>2 DEF Within
      <3>3. Lowest(r)' = seen'[r]
        BY <3>1 DEF Lowest
      <3> QED BY <2>4, <3>1, <3>2, <3>3 DEF NotNewer
    <2> QED BY <2>5, <2>6
  <1> QED BY <1>2, <1>3, <1>4, <1>5 DEF ReaderStep

(* A progress item is newer than nothing.                                  *)
LEMMA NotNewerProgress ==
    ASSUME IInv, Progress, NEW r \in Readers, NEW w \in Writers,
           NotNewer(r, wsnap[w])
    PROVE  NotNewer(r, wsnap[w])'
PROOF
  <1>1. /\ rpc' = rpc /\ rsnap' = rsnap /\ seen' = seen /\ wsnap' = wsnap
        /\ \/ channel'[r] = channel[r]
           \/ channel'[r] = Append(channel[r], 0)
    BY DEF Progress, writerVars
  <1>2. CASE channel'[r] = channel[r]
    BY <1>1, <1>2, NotNewerStill
  <1>3. CASE channel'[r] = Append(channel[r], 0)
    <2>1. channel[r] \in Seq(0..LastVersion) /\ 0 \in 0..LastVersion
      BY Numbers, StreamAssumption DEF IInv
    <2>2. /\ Len(channel[r]) \in Nat
          /\ Len(channel'[r]) = Len(channel[r]) + 1
          /\ \A i \in 1..Len(channel[r]) : channel'[r][i] = channel[r][i]
          /\ channel'[r][Len(channel[r]) + 1] = 0
      BY <1>3, <2>1, AppendProperties, LenProperties
    <2>3. Within(channel[r], 0, wsnap[w]) => Within(channel'[r], 0, wsnap[w])
      BY <2>2 DEF Within
    <2>4. Lowest(r)' = Lowest(r)
      BY <1>1 DEF Lowest
    <2> QED BY <1>1, <2>3, <2>4 DEF NotNewer
  <1> QED BY <1>1, <1>2, <1>3

LEMMA WriterStill ==
    ASSUME IInv, Typed', NEW w \in Writers, row <= row',
           wver'[w] = wver[w], wsnap'[w] = wsnap[w],
           wpc'[w] = "put" => wpc[w] = "put",
           \A r \in Readers : wpc[w] = "put" => NotNewer(r, wsnap[w])'
    PROVE  WriterOK(w)'
PROOF
  <1>1. /\ row \in Nat /\ row' \in Nat
        /\ wver[w] \in Nat /\ wsnap[w] \in Nat
    BY StreamAssumption, Numbers DEF IInv, Typed
  <1>2. WriterOK(w)
    BY DEF IInv, WriterInv
  <1>3. wver'[w] <= row' /\ (wpc[w] = "put" => wsnap'[w] <= row')
    BY <1>1, <1>2 DEF WriterOK
  <1> QED BY <1>2, <1>3 DEF WriterOK

LEMMA WriterPreserves ==
    ASSUME IInv, Typed', [Next]_vars
    PROVE  WriterInv'
PROOF
  <1> SUFFICES ASSUME NEW x \in Writers PROVE WriterOK(x)'
    BY DEF WriterInv
  <1>1. /\ Typed /\ WriterOK(x) /\ row \in Nat
        /\ \A r \in Readers : ReaderOK(r)
        /\ \A r \in Readers : wpc[x] = "put" => NotNewer(r, wsnap[x])
    BY Numbers DEF IInv, WriterInv, ReaderInv, WriterOK
  <1>2. ASSUME UNCHANGED readerVars, row <= row', wver'[x] = wver[x],
               wsnap'[x] = wsnap[x], wpc'[x] = "put" => wpc[x] = "put"
        PROVE  WriterOK(x)'
    <2>1. \A r \in Readers : wpc[x] = "put" => NotNewer(r, wsnap[x])'
      BY <1>1, <1>2, NotNewerStill DEF readerVars
    <2> QED BY <1>2, <2>1, WriterStill
  <1>3. ASSUME NEW w \in Writers, Commit(w) PROVE WriterOK(x)'
    <2>1. CASE x = w
      <3>1. wver'[x] = row' /\ wpc'[x] = "lock" /\ row' \in Nat
        BY <1>1, <1>3, <2>1 DEF Commit, Typed
      <3> QED BY <3>1 DEF WriterOK
    <2>2. CASE x # w
      BY <1>1, <1>2, <1>3, <2>2 DEF Commit, Typed
    <2> QED BY <2>1, <2>2
  <1>4. ASSUME NEW w \in Writers, Acquire(w) \/ Interrupted(w) PROVE WriterOK(x)'
    <2>1. /\ UNCHANGED <<readerVars, row, wver, wsnap>>
          /\ wpc'[x] = "put" => wpc[x] = "put"
      BY <1>1, <1>4 DEF Acquire, Interrupted, Typed
    <2> QED BY <1>1, <1>2, <2>1
  <1>5. ASSUME NEW w \in Writers, Load(w) PROVE WriterOK(x)'
    <2>1. UNCHANGED <<readerVars, row, wver>>
      BY <1>5 DEF Load
    <2>2. CASE x = w /\ ~deleted
      <3>1. wsnap'[x] = row /\ wver'[x] <= row /\ row' = row
        BY <1>1, <1>5, <2>1, <2>2 DEF Load, Typed, WriterOK
      <3>2. ASSUME NEW r \in Readers PROVE NotNewer(r, wsnap[x])'
        <4>1. /\ channel'[r] = channel[r] /\ rpc'[r] = rpc[r]
              /\ rsnap'[r] = rsnap[r] /\ seen'[r] = seen[r]
          BY <2>1 DEF readerVars
        <4>2. Lowest(r)' = Lowest(r)
          BY <4>1 DEF Lowest
        <4>3. /\ Within(channel[r], Lowest(r), row)
              /\ \A i \in 1..Len(channel[r]) : channel[r][i] \in Nat
              /\ Lowest(r) <= row
          BY <1>1, Numbers DEF ReaderOK, Lowest
        <4>4. Within(channel[r], 0, row)
          BY <4>3 DEF Within
        <4> QED BY <3>1, <4>1, <4>2, <4>3, <4>4 DEF NotNewer
      <3> QED BY <1>1, <3>1, <3>2 DEF WriterOK
    <2>3. CASE x # w \/ deleted
      <3>1. wsnap'[x] = wsnap[x] /\ (wpc'[x] = "put" => wpc[x] = "put")
        BY <1>1, <1>5, <2>3 DEF Load, Typed
      <3> QED BY <1>1, <1>2, <2>1, <3>1
    <2> QED BY <2>2, <2>3
  <1>6. ASSUME NEW w \in Writers, Put(w) PROVE WriterOK(x)'
    <2>1. wpc'[x] # "put"
      BY <1>1, <1>6 DEF Put, Typed, IInv, LockInv
    <2>2. wver' = wver /\ row' = row
      BY <1>6 DEF Put
    <2> QED BY <1>1, <2>1, <2>2 DEF WriterOK
  <1>7. ASSUME NEW r \in Readers, Connect(r) \/ ReaderStep(r) \/ Disconnect(r)
        PROVE  WriterOK(x)'
    <2>1. UNCHANGED <<writerVars, row>>
      BY <1>7 DEF ReaderStep, Connect, Register, LoadFirst, YieldFirst, Take, Disconnect
    <2>2. ASSUME NEW q \in Readers, wpc[x] = "put" PROVE NotNewer(q, wsnap[x])'
      <3>1. wsnap'[x] = wsnap[x] /\ NotNewer(q, wsnap[x])
        BY <1>1, <2>1, <2>2 DEF writerVars
      <3>2. CASE q = r
        BY <1>7, <2>2, <3>1, <3>2, NotNewerReader
      <3>3. CASE q # r
        BY <1>1, <1>7, <3>1, <3>3, OthersStill, NotNewerStill
      <3> QED BY <3>2, <3>3
    <2> QED BY <1>1, <2>1, <2>2, WriterStill DEF writerVars
  <1>8. CASE Progress
    <2>1. UNCHANGED <<writerVars, row>>
      BY <1>8 DEF Progress
    <2>2. \A q \in Readers : wpc[x] = "put" => NotNewer(q, wsnap[x])'
      BY <1>1, <1>8, NotNewerProgress
    <2> QED BY <1>1, <2>1, <2>2, WriterStill DEF writerVars
  <1>9. CASE Delete \/ UNCHANGED vars
    <2>1. UNCHANGED <<readerVars, writerVars, row>>
      BY <1>9 DEF Delete, vars
    <2> QED BY <1>1, <1>2, <2>1 DEF writerVars
  <1> QED BY <1>3, <1>4, <1>5, <1>6, <1>7, <1>8, <1>9 DEF Next, WriterStep

-----------------------------------------------------------------------------
(* The newest version is on its way to every open stream.                  *)

(* The part of NoUpdateLost about one stream.                              *)
Informed(r) ==
    rpc[r] \in {"first", "loop"} /\ ~deleted =>
        Reaches(r, row) \/ WithWriter(row)

(* A step that leaves a stream and the row alone, and no writer idle that  *)
(* was not.                                                                *)
LEMMA InformedStill ==
    ASSUME NEW r \in Readers, Informed(r), row' = row, deleted' = deleted,
           UNCHANGED <<missed, writerVars>>,
           channel'[r] = channel[r], rpc'[r] = rpc[r],
           rsnap'[r] = rsnap[r], seen'[r] = seen[r]
    PROVE  Informed(r)'
PROOF
  BY DEF Informed, Reaches, WithWriter, writerVars

(* A publication reaches every open stream.                                *)
LEMMA InformedPut ==
    ASSUME IInv, Typed', NEW w \in Writers, Put(w), NEW r \in Readers
    PROVE  Informed(r)'
PROOF
  <1> SUFFICES ASSUME rpc'[r] \in {"first", "loop"}, ~deleted'
               PROVE  Reaches(r, row)' \/ WithWriter(row)'
    BY DEF Informed
  <1>1. /\ rpc' = rpc /\ rsnap' = rsnap /\ seen' = seen /\ row' = row
        /\ deleted' = deleted /\ missed' = missed /\ wver' = wver
        /\ wpc' = [wpc EXCEPT ![w] = "idle"]
        /\ r \in Registered
        /\ channel'[r] = Offered(channel[r], wsnap[w])
    BY DEF Put, Registered
  <1>2. /\ Typed /\ ChannelsFit /\ ReaderOK(r) /\ WriterOK(w)
        /\ Reaches(r, row) \/ WithWriter(row)
    BY <1>1 DEF IInv, ReaderInv, WriterInv, NoUpdateLost
  <1>3. /\ row \in Nat /\ row >= 1
        /\ channel[r] \in Seq(0..LastVersion)
        /\ wsnap[w] \in 0..LastVersion /\ wsnap[w] \in Nat
        /\ wver[w] \in Nat
        /\ Lowest(r) \in 0..LastVersion
        /\ \A i \in 1..Len(channel[r]) : channel[r][i] \in Nat
    BY <1>2, Numbers, StreamAssumption
  <1>4. /\ Lowest(r) <= wsnap[w] /\ Within(channel[r], 0, wsnap[w])
        /\ wver[w] <= wsnap[w]
    BY <1>1, <1>2 DEF WriterOK, NotNewer, Put
  <1>5. Within(channel[r], Lowest(r), wsnap[w])
    BY <1>2, <1>4 DEF ReaderOK, Within
  <1>6. \E i \in 1..Len(channel'[r]) : channel'[r][i] = wsnap[w]
    BY <1>1, <1>2, <1>3, <1>4, <1>5, OfferedInOrder DEF ChannelsFit, ReaderOK
  <1>7. CASE wsnap[w] >= row
    BY <1>1, <1>6, <1>7 DEF Reaches
  <1>8. CASE Reaches(r, row)
    <2>1. CASE seen[r] >= row \/ (rpc[r] = "first" /\ rsnap[r] >= row)
      BY <1>1, <2>1 DEF Reaches
    <2>2. CASE \E i \in 1..Len(channel[r]) : channel[r][i] >= row
      <3>1. PICK i \in 1..Len(channel[r]) : channel[r][i] >= row
        BY <2>2
      <3>2. channel[r][i] \in Nat /\ channel[r][i] # 0
        BY <1>3, <3>1
      <3>3. channel[r][i] <= wsnap[w]
        BY <1>4, <3>2 DEF Within
      <3> QED BY <1>3, <1>7, <3>1, <3>2, <3>3
    <2> QED BY <1>8, <2>1, <2>2 DEF Reaches
  <1>9. CASE WithWriter(row)
    <2>1. CASE row \in missed
      BY <1>1, <2>1 DEF WithWriter
    <2>2. CASE \E x \in Writers : wpc[x] # "idle" /\ wver[x] = row
      <3>1. PICK x \in Writers : wpc[x] # "idle" /\ wver[x] = row
        BY <2>2
      <3>2. CASE x = w
        BY <1>3, <1>4, <1>7, <3>1, <3>2
      <3>3. CASE x # w
        <4>1. wpc'[x] # "idle" /\ wver'[x] = row'
          BY <1>1, <1>2, <3>1, <3>3 DEF Typed
        <4> QED BY <4>1 DEF WithWriter
      <3> QED BY <3>2, <3>3
    <2> QED BY <1>9, <2>1, <2>2 DEF WithWriter
  <1> QED BY <1>2, <1>8, <1>9

(* What a reader takes it has seen.                                        *)
LEMMA InformedReader ==
    ASSUME IInv, Typed', NEW r \in Readers,
           Connect(r) \/ ReaderStep(r) \/ Disconnect(r)
    PROVE  Informed(r)'
PROOF
  <1>1. /\ Typed /\ ReaderOK(r) /\ Informed(r)
    BY DEF IInv, ReaderInv, NoUpdateLost, Informed
  <1>2. /\ row' = row /\ deleted' = deleted /\ missed' = missed
        /\ wpc' = wpc /\ wver' = wver
    BY DEF ReaderStep, Connect, Register, LoadFirst, YieldFirst, Take,
           Disconnect, writerVars
  <1>3. /\ row \in Nat /\ row >= 1 /\ seen[r] \in Nat /\ rsnap[r] \in Nat
    BY <1>1, Numbers, StreamAssumption
  <1>4. WithWriter(row)' = WithWriter(row)
    BY <1>2 DEF WithWriter
  <1>5. CASE Connect(r) \/ Register(r) \/ Disconnect(r)
    <2>1. rpc'[r] \in {"lock", "load", "off"}
      BY <1>1, <1>5 DEF Connect, Register, Disconnect, Close, Typed
    <2> QED BY <2>1 DEF Informed
  <1>6. CASE LoadFirst(r)
    <2>1. CASE deleted
      BY <1>2, <2>1 DEF Informed
    <2>2. CASE ~deleted
      <3>1. rpc'[r] = "first" /\ rsnap'[r] = row
        BY <1>1, <1>6, <2>2 DEF LoadFirst, Typed
      <3> QED BY <1>2, <1>3, <3>1 DEF Informed, Reaches
    <2> QED BY <2>1, <2>2
  <1>7. CASE YieldFirst(r)
    <2>1. /\ rpc[r] = "first" /\ seen'[r] = rsnap[r] /\ seen[r] <= rsnap[r]
      BY <1>1, <1>7 DEF YieldFirst, Typed, ReaderOK
    <2>2. CASE rsnap[r] \in Finals
      <3>1. rpc'[r] = "off"
        BY <1>1, <1>7, <2>2 DEF YieldFirst, Close, Typed
      <3> QED BY <3>1 DEF Informed
    <2>3. CASE rsnap[r] \notin Finals
      <3>1. channel'[r] = channel[r]
        BY <1>7, <2>3 DEF YieldFirst
      <3>2. Reaches(r, row) => Reaches(r, row)'
        BY <1>2, <1>3, <2>1, <3>1 DEF Reaches
      <3> QED BY <1>1, <1>2, <1>4, <2>1, <3>2 DEF Informed
    <2> QED BY <2>2, <2>3
  <1>8. CASE Take(r)
    <2> DEFINE item == Head(channel[r])
    <2>1. /\ item \in 0..LastVersion /\ item \in Nat
          /\ item # 0 => seen[r] <= item
          /\ Len(Tail(channel[r])) = Len(channel[r]) - 1
          /\ \A i \in 1..Len(Tail(channel[r])) : Tail(channel[r])[i] = channel[r][i + 1]
      BY <1>8, TakeFacts, StreamAssumption
    <2>2. /\ channel[r] \in Seq(0..LastVersion) /\ channel[r] # <<>>
          /\ Len(channel[r]) \in Nat
      BY <1>1, <1>8, Numbers DEF Take
    <2>3. item = channel[r][1]
      BY <2>2
    <2>4. seen'[r] = (IF item = 0 THEN seen[r] ELSE item) /\ rpc[r] = "loop"
      BY <1>1, <1>8, <2>1 DEF Take, Typed
    <2>5. CASE item \in Finals
      <3>1. rpc'[r] = "off"
        BY <1>1, <1>8, <2>5 DEF Take, Close, Typed
      <3> QED BY <3>1 DEF Informed
    <2>6. CASE item \notin Finals
      <3>1. channel'[r] = Tail(channel[r])
        BY <1>1, <1>8, <2>6 DEF Take, Typed
      <3>2. ASSUME Reaches(r, row) PROVE Reaches(r, row)'
        <4>1. CASE seen[r] >= row
          BY <1>2, <1>3, <2>1, <2>4, <4>1 DEF Reaches
        <4>2. CASE \E i \in 1..Len(channel[r]) : channel[r][i] >= row
          <5>1. PICK i \in 1..Len(channel[r]) : channel[r][i] >= row
            BY <4>2
          <5>2. CASE i = 1
            <6>1. item >= row
              BY <2>3, <5>1, <5>2
            <6>2. seen'[r] >= row'
              BY <1>2, <1>3, <2>1, <2>4, <6>1
            <6> QED BY <6>2 DEF Reaches
          <5>3. CASE i # 1
            <6>1. i - 1 \in 1..Len(Tail(channel[r])) /\ (i - 1) + 1 = i
              BY <2>1, <2>2, <5>3
            <6>2. channel'[r][i - 1] >= row'
              BY <1>2, <2>1, <3>1, <5>1, <6>1
            <6> QED BY <3>1, <6>1, <6>2 DEF Reaches
          <5> QED BY <5>2, <5>3
        <4> QED BY <2>4, <3>2, <4>1, <4>2 DEF Reaches
      <3> QED BY <1>1, <1>2, <1>4, <2>4, <3>2 DEF Informed
    <2> QED BY <2>5, <2>6
  <1> QED BY <1>5, <1>6, <1>7, <1>8 DEF ReaderStep

LEMMA UpdatePreserves ==
    ASSUME IInv, Typed', [Next]_vars
    PROVE  NoUpdateLost'
PROOF
  <1> SUFFICES ASSUME NEW q \in Readers PROVE Informed(q)'
    BY DEF NoUpdateLost, Informed
  <1>1. Typed /\ Informed(q)
    BY DEF IInv, NoUpdateLost, Informed
  <1>2. ASSUME NEW w \in Writers, Commit(w) PROVE Informed(q)'
    <2>1. wpc'[w] # "idle" /\ wver'[w] = row'
      BY <1>1, <1>2 DEF Commit, Typed
    <2> QED BY <2>1 DEF Informed, WithWriter
  <1>3. ASSUME NEW w \in Writers, Acquire(w) \/ Load(w) \/ Interrupted(w)
        PROVE  Informed(q)'
    <2> SUFFICES ASSUME rpc'[q] \in {"first", "loop"}, ~deleted'
                 PROVE  Reaches(q, row)' \/ WithWriter(row)'
      BY DEF Informed
    <2>1. /\ UNCHANGED <<row, deleted, wver, readerVars>>
          /\ missed \subseteq missed'
      BY <1>3 DEF Acquire, Load, Interrupted
    <2>2. ASSUME NEW x \in Writers, wpc[x] # "idle"
          PROVE  wpc'[x] # "idle" \/ wver[x] \in missed'
      <3>1. CASE Acquire(w) \/ Load(w)
        BY <1>1, <2>1, <2>2, <3>1 DEF Acquire, Load, Typed
      <3>2. CASE Interrupted(w)
        BY <1>1, <2>2, <3>2 DEF Interrupted, Typed
      <3> QED BY <1>3, <3>1, <3>2
    <2>3. Reaches(q, row) \/ WithWriter(row)
      BY <1>1, <2>1 DEF Informed, readerVars
    <2>4. Reaches(q, row)' = Reaches(q, row)
      BY <2>1 DEF Reaches, readerVars
    <2>5. WithWriter(row) => WithWriter(row)'
      BY <2>1, <2>2 DEF WithWriter
    <2> QED BY <2>3, <2>4, <2>5
  <1>4. ASSUME NEW w \in Writers, Put(w) PROVE Informed(q)'
    BY <1>4, InformedPut
  <1>5. ASSUME NEW r \in Readers, Connect(r) \/ ReaderStep(r) \/ Disconnect(r)
        PROVE  Informed(q)'
    <2>1. CASE q = r
      BY <1>5, <2>1, InformedReader
    <2>2. CASE q # r
      <3>1. UNCHANGED <<row, deleted, missed, writerVars>>
        BY <1>5 DEF ReaderStep, Connect, Register, LoadFirst, YieldFirst, Take,
                    Disconnect
      <3> QED BY <1>1, <1>5, <2>2, <3>1, OthersStill, InformedStill
    <2> QED BY <2>1, <2>2
  <1>6. CASE Progress
    <2>1. /\ UNCHANGED <<row, deleted, missed, writerVars, rpc, rsnap, seen>>
          /\ \/ channel'[q] = channel[q]
             \/ channel'[q] = Append(channel[q], 0)
      BY <1>6 DEF Progress
    <2>2. CASE channel'[q] = channel[q]
      BY <1>1, <2>1, <2>2, InformedStill
    <2>3. CASE channel'[q] = Append(channel[q], 0)
      <3>1. /\ channel[q] \in Seq(0..LastVersion) /\ 0 \in 0..LastVersion
        BY <1>1, Numbers, StreamAssumption
      <3>2. \A i \in 1..Len(channel[q]) :
               /\ i \in 1..Len(channel'[q])
               /\ channel'[q][i] = channel[q][i]
        BY <2>3, <3>1, AppendProperties, LenProperties
      <3>3. Reaches(q, row) => Reaches(q, row)'
        BY <2>1, <3>2 DEF Reaches
      <3>4. WithWriter(row)' = WithWriter(row)
        BY <2>1 DEF WithWriter, writerVars
      <3> QED BY <1>1, <2>1, <3>3, <3>4 DEF Informed
    <2> QED BY <2>1, <2>2, <2>3
  <1>7. CASE Delete
    BY <1>7 DEF Delete, Informed
  <1>8. CASE UNCHANGED vars
    BY <1>1, <1>8, InformedStill DEF vars, readerVars
  <1> QED BY <1>2, <1>3, <1>4, <1>5, <1>6, <1>7, <1>8 DEF Next, WriterStep

-----------------------------------------------------------------------------
(* The theorems.                                                           *)

LEMMA NextIInv == IInv /\ [Next]_vars => IInv'
PROOF
  <1> SUFFICES ASSUME IInv, [Next]_vars PROVE IInv'
    OBVIOUS
  <1>1. Typed' /\ ChannelsFit'
    BY TypePreserves DEF IInv
  <1>2. LockInv'
    BY LockPreserves DEF IInv
  <1>3. ReaderInv'
    BY <1>1, ReaderPreserves
  <1>4. WriterInv'
    BY <1>1, WriterPreserves
  <1>5. NoUpdateLost'
    BY <1>1, UpdatePreserves
  <1> QED BY <1>1, <1>2, <1>3, <1>4, <1>5 DEF IInv

(* The inductive invariant holds.                                          *)
THEOREM Invariance == Spec => []IInv
PROOF
  BY InitIInv, NextIInv, PTL DEF Spec

(* The variables keep their types, and exactly the lock's holder reads the *)
(* row and publishes (async with publish_lock).                            *)
THEOREM TypeCorrect == Spec => []TypeOK
PROOF
  <1>1. IInv => TypeOK
    BY DEF IInv, TypeOK
  <1> QED BY <1>1, Invariance, PTL

(* put_nowait never meets a full channel, for every size from 1 on.        *)
THEOREM ChannelsNeverOverflow == Spec => []ChannelsFit
PROOF
  <1>1. IInv => ChannelsFit
    BY DEF IInv
  <1> QED BY <1>1, Invariance, PTL

(* The newest version of the row reaches every open stream, although full  *)
(* channels drop their oldest item, unless its writer is cancelled.        *)
THEOREM NothingLost == Spec => []NoUpdateLost
PROOF
  <1>1. IInv => NoUpdateLost
    BY DEF IInv
  <1> QED BY <1>1, Invariance, PTL

(* A step of the stream commits a version, shows one that is not older, or *)
(* changes neither the row nor what has been shown.                        *)
LEMMA FeedStep == IInv /\ IInv' /\ [Next]_vars => [Feed!Next]_(Feed!vars)
PROOF
  <1> SUFFICES ASSUME IInv, IInv', [Next]_vars PROVE [Feed!Next]_(Feed!vars)
    OBVIOUS
  <1>1. /\ Typed /\ row \in Nat
        /\ \A r \in Readers : seen[r] \in Nat /\ rsnap[r] \in Nat /\ ReaderOK(r)
    BY Numbers, StreamAssumption DEF IInv, ReaderInv
  <1>2. ASSUME UNCHANGED <<row, seen>> PROVE [Feed!Next]_(Feed!vars)
    BY <1>2 DEF Feed!vars
  <1>3. ASSUME NEW w \in Writers, Commit(w) PROVE [Feed!Next]_(Feed!vars)
    BY <1>3 DEF Commit, readerVars, Feed!Next, Feed!Commit
  <1>4. ASSUME NEW r \in Readers, NEW v \in Nat, seen[r] <= v, v <= row,
               seen' = [seen EXCEPT ![r] = v], row' = row
        PROVE  [Feed!Next]_(Feed!vars)
    <2>1. v \in seen[r]..row
      BY <1>1, <1>4
    <2> QED BY <1>4, <2>1 DEF Feed!Next, Feed!Show
  <1>5. ASSUME NEW r \in Readers, YieldFirst(r) PROVE [Feed!Next]_(Feed!vars)
    BY <1>1, <1>4, <1>5 DEF YieldFirst, ReaderOK
  <1>6. ASSUME NEW r \in Readers, Take(r) PROVE [Feed!Next]_(Feed!vars)
    <2> DEFINE item == Head(channel[r])
    <2>1. item \in Nat /\ item <= row /\ (item # 0 => seen[r] <= item)
      BY <1>6, TakeFacts, StreamAssumption
    <2>2. row' = row /\ seen' = IF item = 0 THEN seen ELSE [seen EXCEPT ![r] = item]
      BY <1>6 DEF Take
    <2>3. CASE item = 0
      BY <1>2, <2>2, <2>3
    <2>4. CASE item # 0
      BY <1>4, <2>1, <2>2, <2>4
    <2> QED BY <2>3, <2>4
  <1>7. CASE \E w \in Writers : Acquire(w) \/ Load(w) \/ Put(w) \/ Interrupted(w)
    BY <1>2, <1>7 DEF Acquire, Load, Put, Interrupted, readerVars
  <1>8. CASE \E r \in Readers :
                Connect(r) \/ Register(r) \/ LoadFirst(r) \/ Disconnect(r)
    BY <1>2, <1>8 DEF Connect, Register, LoadFirst, Disconnect
  <1>9. CASE Progress \/ Delete \/ UNCHANGED vars
    BY <1>2, <1>9 DEF Progress, Delete, vars, readerVars
  <1> QED BY <1>3, <1>5, <1>6, <1>7, <1>8, <1>9 DEF Next, WriterStep, ReaderStep

(* EventStream implements SnapshotFeed: each client is shown versions that *)
(* were committed, in their order, also over reconnections.                *)
THEOREM ImplementsFeed == Spec => ShowsInOrder
PROOF
  <1>1. Init => Feed!Init
    BY DEF Init, Feed!Init
  <1>2. IInv /\ IInv' /\ [Next]_vars => [Feed!Next]_(Feed!vars)
    BY FeedStep
  <1> QED BY <1>1, <1>2, Invariance, PTL DEF Spec, ShowsInOrder, Feed!Spec
=============================================================================
