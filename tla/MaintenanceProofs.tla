-------------------------- MODULE MaintenanceProofs --------------------------
(***************************************************************************)
(* The two databases agree, for any number of runs and wherever a cleanup  *)
(* is interrupted.                                                         *)
(***************************************************************************)
EXTENDS Maintenance, FiniteSetTheorems, TLAPS

Cleaned == IF cleanup.on THEN cleanup.expired \ cleanup.pending ELSE {}

(* No run is planned when it expires: planning takes minutes.              *)
AgeInv ==
    \A r \in Runs :
        /\ worker[r] \in {"planning", "planned"} => r \notin old
        /\ worker[r] = "planned" => r \in checkpoint
        /\ row[r] = "review" /\ r \notin old => r \in checkpoint

(* A run whose checkpoints are deleted, and whose row is or is about to    *)
(* be, can get new ones only from a graph that was overtaken: no new graph *)
(* starts during the cleanup, and none after it.                           *)
LeftInv ==
    \A r \in Runs :
        row[r] = "gone" \/ r \in Cleaned =>
            (r \in checkpoint \/ InGraph(r) => r \in overtaken)

IInv == TypeOK /\ AgeInv /\ LeftInv /\ ExamplesAreCurrent

-----------------------------------------------------------------------------
LEMMA InitOK == Init => IInv
  BY MaintenanceAssumption
  DEF Init, IInv, TypeOK, AgeInv, LeftInv, ExamplesAreCurrent, Cleaned, Present,
      NoCleanup, InGraph

LEMMA CleanupType ==
    ASSUME TypeOK
    PROVE  cleanup \in [ on : BOOLEAN, expired : SUBSET (old \ Examples),
                         pending : SUBSET cleanup.expired, daily : BOOLEAN ]
  BY DEF TypeOK

(* A cleanup that begins has all its checkpoints still to delete.          *)
AllExpired == {r \in Runs \cup Examples : Expired(r)}

LEMMA BegunIs ==
    Begun = [ on |-> TRUE, expired |-> AllExpired, pending |-> AllExpired,
              daily |-> cleanup.daily ]
  BY DEF Begun, AllExpired

LEMMA DeleteKeepsType ==
    ASSUME TypeOK, NEW r \in Runs \cup Examples, DeleteCheckpoint(r)
    PROVE  TypeOK'
<1>1. cleanup' = [ on |-> cleanup.on, expired |-> cleanup.expired,
                   pending |-> cleanup.pending \ {r}, daily |-> cleanup.daily ]
  BY CleanupType DEF DeleteCheckpoint
<1>2. UNCHANGED <<examples, row, old, worker, server>>
  BY DEF DeleteCheckpoint
<1>3. cleanup' \in [ on : BOOLEAN, expired : SUBSET (old' \ Examples),
                     pending : SUBSET cleanup'.expired, daily : BOOLEAN ]
  BY <1>1, <1>2, CleanupType
<1>4. checkpoint' \subseteq Runs /\ overtaken' \subseteq Runs
  BY DEF DeleteCheckpoint, TypeOK
<1>5. server' # "up" => (\A q \in Runs : worker'[q] = "off") /\ ~cleanup'.daily
  BY <1>1, <1>2 DEF TypeOK
<1>6. server' = "down" => ~cleanup'.on
  BY <1>1, <1>2 DEF TypeOK
<1> QED
  BY <1>2, <1>3, <1>4, <1>5, <1>6 DEF TypeOK, Present, examples

LEMMA TypeStep == TypeOK /\ [Next]_vars => TypeOK'
<1> SUFFICES ASSUME TypeOK, [Next]_vars PROVE TypeOK'
  OBVIOUS
<1> USE MaintenanceAssumption DEF TypeOK, Present, NoCleanup, InGraph, examples
<1>1. ASSUME NEW r \in Runs, Create(r) PROVE TypeOK'
  BY <1>1 DEF Create, CanWrite
<1>2. ASSUME NEW r \in Runs, SaveCheckpoint(r) PROVE TypeOK'
  BY <1>2 DEF SaveCheckpoint
<1>3. ASSUME NEW r \in Runs, PlanReady(r) PROVE TypeOK'
  BY <1>3 DEF PlanReady
<1>4. ASSUME NEW r \in Runs, GraphEnds(r) PROVE TypeOK'
  BY <1>4 DEF GraphEnds
<1>5. ASSUME NEW r \in Runs, StoreOutcome(r) PROVE TypeOK'
  BY <1>5 DEF StoreOutcome, CanWrite
<1>6. ASSUME NEW r \in Runs, LockTimeout(r) PROVE TypeOK'
  BY <1>6 DEF LockTimeout
<1>7. ASSUME NEW r \in Runs, Confirm(r) PROVE TypeOK'
  BY <1>7 DEF Confirm, CanWrite
<1>8. ASSUME NEW r \in Runs \cup Examples, Age(r) PROVE TypeOK'
  BY <1>8 DEF Age
<1>9. ASSUME NEW r \in Runs \cup Examples, DeleteCheckpoint(r) PROVE TypeOK'
  BY <1>9, DeleteKeepsType
<1>10. ASSUME Startup \/ DailyCleanup PROVE TypeOK'
  <2>1. cleanup' = [ on |-> TRUE, expired |-> AllExpired, pending |-> AllExpired,
                     daily |-> cleanup.daily ]
    BY <1>10, BegunIs DEF Startup, DailyCleanup
  <2>2. AllExpired \subseteq old \ Examples
    BY DEF AllExpired, Expired, IsShowcase
  <2>3. cleanup' \in [ on : BOOLEAN, expired : SUBSET (old' \ Examples),
                       pending : SUBSET cleanup'.expired, daily : BOOLEAN ]
    BY <1>10, <2>1, <2>2 DEF Startup, DailyCleanup
  <2>4. server' # "up" => (\A q \in Runs : worker'[q] = "off") /\ ~cleanup'.daily
    BY <1>10, <2>1 DEF Startup, DailyCleanup
  <2>5. server' # "down"
    BY <1>10 DEF Startup, DailyCleanup
  <2> QED
    BY <1>10, <2>3, <2>4, <2>5 DEF Startup, DailyCleanup
<1>11. ASSUME CommitCleanup PROVE TypeOK'
  <2>1. row' \in [Runs -> {"none", "active", "review", "done", "gone"}]
    BY <1>11 DEF CommitCleanup, Recovered
  <2>2. example' \in [Examples -> 0..LastVersion]
    BY <1>11 DEF CommitCleanup, Kept
  <2>3. old' \subseteq {r \in Runs \cup Examples : Present(r)'}
    <3> SUFFICES ASSUME NEW r \in old'
                 PROVE  r \in Runs \cup Examples /\ Present(r)'
      OBVIOUS
    <3>1. r \in old /\ r \notin cleanup.expired /\ (Reseeds => r \notin Examples)
      BY <1>11 DEF CommitCleanup
    <3>2. CASE r \in Examples
      BY <1>11, <3>1, <3>2 DEF CommitCleanup, Kept
    <3>3. CASE r \in Runs
      BY <1>11, <3>1, <3>3 DEF CommitCleanup, Recovered
    <3> QED
      BY <3>1, <3>2, <3>3
  <2>4. cleanup' \in [ on : BOOLEAN, expired : SUBSET (old' \ Examples),
                       pending : SUBSET cleanup'.expired, daily : BOOLEAN ]
    BY <1>11 DEF CommitCleanup
  <2> QED
    BY <1>11, <2>1, <2>2, <2>3, <2>4 DEF CommitCleanup
<1>12. CASE CleanupFails
  BY <1>12 DEF CleanupFails, NextCycle
<1>13. CASE Crash
  BY <1>13 DEF Crash
<1>14. CASE Upgrade
  BY <1>14 DEF Upgrade
<1>15. CASE UNCHANGED vars
  BY <1>15 DEF vars
<1> QED
  BY <1>1, <1>2, <1>3, <1>4, <1>5, <1>6, <1>7, <1>8, <1>9, <1>10, <1>11, <1>12,
     <1>13, <1>14, <1>15 DEF Next

LEMMA AgeStep == TypeOK /\ AgeInv /\ [Next]_vars => AgeInv'
<1> SUFFICES ASSUME TypeOK, AgeInv, [Next]_vars, NEW q \in Runs
             PROVE  /\ worker'[q] \in {"planning", "planned"} => q \notin old'
                    /\ worker'[q] = "planned" => q \in checkpoint'
                    /\ row'[q] = "review" /\ q \notin old' => q \in checkpoint'
  BY DEF AgeInv
<1> USE MaintenanceAssumption DEF TypeOK, AgeInv, Present, InGraph
<1>1. CASE \E r \in Runs : Create(r) \/ SaveCheckpoint(r) \/ PlanReady(r) \/ GraphEnds(r)
  BY <1>1 DEF Create, SaveCheckpoint, PlanReady, GraphEnds
<1>2. CASE \E r \in Runs : StoreOutcome(r) \/ LockTimeout(r) \/ Confirm(r)
  BY <1>2 DEF StoreOutcome, LockTimeout, Confirm
<1>3. CASE \E r \in Runs \cup Examples : Age(r) \/ DeleteCheckpoint(r)
  BY <1>3 DEF Age, DeleteCheckpoint
<1>4. CASE Startup \/ DailyCleanup \/ CleanupFails \/ Crash \/ Upgrade
  BY <1>4 DEF Startup, DailyCleanup, CleanupFails, Crash, Upgrade
<1>5. CASE CommitCleanup
  BY <1>5 DEF CommitCleanup, Recovered
<1>6. CASE UNCHANGED vars
  BY <1>6 DEF vars
<1> QED
  BY <1>1, <1>2, <1>3, <1>4, <1>5, <1>6 DEF Next

LEMMA LeftStep == TypeOK /\ LeftInv /\ [Next]_vars => LeftInv'
<1> SUFFICES ASSUME TypeOK, LeftInv, [Next]_vars, NEW q \in Runs
             PROVE  row'[q] = "gone" \/ q \in Cleaned' =>
                      (q \in checkpoint' \/ InGraph(q)' => q \in overtaken')
  BY DEF LeftInv
<1> USE MaintenanceAssumption DEF TypeOK, LeftInv, Present, InGraph, Cleaned, NoCleanup
<1>1. CASE \E r \in Runs : Create(r) \/ Confirm(r)
  BY <1>1 DEF Create, Confirm, CanWrite
<1>2. CASE \E r \in Runs : SaveCheckpoint(r) \/ PlanReady(r) \/ GraphEnds(r)
  BY <1>2 DEF SaveCheckpoint, PlanReady, GraphEnds
<1>3. CASE \/ \E r \in Runs : StoreOutcome(r) \/ LockTimeout(r)
           \/ \E r \in Runs \cup Examples : Age(r)
  BY <1>3 DEF StoreOutcome, LockTimeout, Age, CanWrite
<1>4. CASE \E r \in Runs \cup Examples : DeleteCheckpoint(r)
  BY <1>4 DEF DeleteCheckpoint
<1>5. CASE Startup \/ DailyCleanup
  <2>1. cleanup'.expired = cleanup'.pending
    BY <1>5, BegunIs DEF Startup, DailyCleanup
  <2>2. q \notin Cleaned'
    BY <2>1
  <2> QED
    BY <1>5, <2>2 DEF Startup, DailyCleanup
<1>6. CASE CommitCleanup
  BY <1>6 DEF CommitCleanup, CheckpointsGone, Recovered
<1>7. CASE CleanupFails \/ Crash \/ Upgrade
  BY <1>7 DEF CleanupFails, Crash, Upgrade
<1>8. CASE UNCHANGED vars
  BY <1>8 DEF vars
<1> QED
  BY <1>1, <1>2, <1>3, <1>4, <1>5, <1>6, <1>7, <1>8 DEF Next

(* What is found to be seeded is the list of examples of the program: no   *)
(* other examples, and as many as there should be.                         *)
LEMMA SeededAll ==
    ASSUME TypeOK, Seeded
    PROVE  Existing = ExamplesOf[version]
<1>1. ExamplesOf[version] \subseteq Examples
  BY MaintenanceAssumption DEF TypeOK
<1>2. IsFiniteSet(ExamplesOf[version])
  BY <1>1, MaintenanceAssumption, FS_Subset
<1>3. Existing \subseteq ExamplesOf[version]
  BY DEF Seeded
<1> QED
  BY <1>2, <1>3, FS_Subset DEF Seeded

LEMMA ExamplesStep == TypeOK /\ ExamplesAreCurrent /\ [Next]_vars => ExamplesAreCurrent'
<1> SUFFICES ASSUME TypeOK, ExamplesAreCurrent, [Next]_vars, server' = "up",
                    NEW e \in Examples
             PROVE  example'[e] = IF e \in ExamplesOf[version'] THEN version' ELSE 0
  BY DEF ExamplesAreCurrent
<1> USE MaintenanceAssumption DEF examples
<1>1. CASE CommitCleanup
  <2>1. version' = version /\ e \notin cleanup.expired
    BY <1>1 DEF CommitCleanup, TypeOK
  <2>2. CASE server # "starting"
    <3>1. server = "up"
      BY <1>1, <2>2 DEF CommitCleanup, TypeOK
    <3>2. example'[e] = example[e]
      BY <1>1, <2>1, <2>2 DEF CommitCleanup, Reseeds, Kept
    <3> QED
      BY <2>1, <3>1, <3>2 DEF ExamplesAreCurrent
  <2>3. CASE Reseeds
    BY <1>1, <2>1, <2>3 DEF CommitCleanup
  <2>4. CASE Seeded /\ ~Reseeds
    <3>1. example'[e] = Kept(e)
      BY <1>1, <2>4 DEF CommitCleanup
    <3>2. CASE e \in Existing
      BY <2>1, <2>4, <3>1, <3>2, SeededAll DEF Seeded
    <3>3. CASE e \notin Existing
      BY <2>1, <2>4, <3>1, <3>3, SeededAll DEF Existing
    <3> QED
      BY <3>2, <3>3
  <2> QED
    BY <2>2, <2>3, <2>4 DEF Reseeds
<1>2. CASE \E r \in Runs : Create(r) \/ SaveCheckpoint(r) \/ PlanReady(r) \/ GraphEnds(r)
  BY <1>2 DEF Create, SaveCheckpoint, PlanReady, GraphEnds, ExamplesAreCurrent
<1>3. CASE \E r \in Runs : StoreOutcome(r) \/ LockTimeout(r) \/ Confirm(r)
  BY <1>3 DEF StoreOutcome, LockTimeout, Confirm, ExamplesAreCurrent
<1>4. CASE \E r \in Runs \cup Examples : Age(r) \/ DeleteCheckpoint(r)
  BY <1>4 DEF Age, DeleteCheckpoint, ExamplesAreCurrent
<1>5. CASE Startup \/ DailyCleanup \/ CleanupFails \/ Crash \/ Upgrade
  BY <1>5 DEF Startup, DailyCleanup, CleanupFails, Crash, Upgrade, ExamplesAreCurrent
<1>6. CASE UNCHANGED vars
  BY <1>6 DEF vars, ExamplesAreCurrent
<1> QED
  BY <1>1, <1>2, <1>3, <1>4, <1>5, <1>6 DEF Next

LEMMA Invariance == Spec => []IInv
<1>1. IInv /\ [Next]_vars => IInv'
  BY TypeStep, AgeStep, LeftStep, ExamplesStep DEF IInv
<1> QED
  BY <1>1, InitOK, PTL DEF Spec

-----------------------------------------------------------------------------
(* Types, and a cleanup only ever works on expired runs.                   *)
THEOREM TypeCorrect == Spec => []TypeOK
<1>1. IInv => TypeOK
  BY DEF IInv
<1> QED
  BY <1>1, Invariance, PTL

(* A run cleaned up while no graph was at work on it leaves nothing in the *)
(* second database.                                                        *)
THEOREM DatabasesAgree == Spec => []NothingIsLeftBehind
<1>1. IInv => NothingIsLeftBehind
  BY DEF IInv, TypeOK, LeftInv, NothingIsLeftBehind
<1> QED
  BY <1>1, Invariance, PTL

(* A plan under review can be researched until its run expires.            *)
THEOREM PlansCanResume == Spec => []ReviewCanResume
<1>1. IInv => ReviewCanResume
  BY DEF IInv, AgeInv, ReviewCanResume
<1> QED
  BY <1>1, Invariance, PTL

(* While the service runs it shows exactly the examples of its version.    *)
THEOREM ExamplesCurrent == Spec => []ExamplesAreCurrent
<1>1. IInv => ExamplesAreCurrent
  BY DEF IInv
<1> QED
  BY <1>1, Invariance, PTL
=============================================================================
