------------------------- MODULE ResearchGraphProofs -------------------------
(***************************************************************************)
(* What holds of the research graph for every set of pages and documents,  *)
(* whatever the providers answer and however the searches interleave:      *)
(* first what the state of the graph refers to, then what the ranking      *)
(* computes, then what is kept of the answers and what the reader is       *)
(* shown.                                                                  *)
(*                                                                         *)
(* What is said of every list or every order is shown by the least number  *)
(* it could fail at (Least): a set of naturals that is not empty has a     *)
(* least member.                                                           *)
(***************************************************************************)
EXTENDS ResearchGraph, FiniteSetTheorems, FunctionTheorems, SequenceTheorems,
        WellFoundedInduction, TLAPS

(* The facts name sources of docs.                                         *)
Names(facts, docs) ==
    \A fact \in facts : /\ fact.source_id \in DOMAIN docs
                        /\ docs[fact.source_id].url.page = fact.page

(* There is no evidence before the extraction has ended, and no report     *)
(* before it is written: sources are replaced only while nothing, or what  *)
(* is replaced with them, refers to them.                                  *)
EvidenceInv ==
    /\ pc \in {"plan", "review", "search", "searching", "extract"} => evidence = {}
    /\ pc \in {"plan", "review", "search", "searching", "extract", "gap",
               "gap searching", "gap extract", "write"} => report = {}
    /\ Names(evidence, sources)
    /\ Names(report, sources)

(* There are n searches.                                                   *)
Calls(n) == n \in Nat /\ calls = [c \in 1..n |-> calls[c]]

Counted(n) ==
    /\ Calls(n)
    /\ AllFound
    /\ metrics = [search_calls |-> n, source_count |-> Len(sources)]

(* The searches made, by node.  Once the state that rests on them is       *)
(* committed they all have been answered, and none changes any more.       *)
CallsInv ==
    /\ At("search") => plan \in Nat
    /\ At("searching") => Calls(plan)
    /\ pc \in {"extract", "gap"} => Counted(plan)
    /\ pc \in {"gap searching", "gap extract"} =>
          Calls(plan + 1) /\ metrics.search_calls = plan
    /\ At("gap extract") => AllFound
    /\ pc \in {"write", "verify", "finish", "stored"} => \E n \in Nat : Counted(n)

-----------------------------------------------------------------------------
(* Facts extracted from documents name them.                               *)
LEMMA EvidenceOf ==
    ASSUME NEW docs, NEW ids
    PROVE  Names(Evidence(docs, ids), docs)
  BY DEF Names, Evidence

LEMMA EvidenceInit == Init => EvidenceInv
  BY DEF Init, EvidenceInv, Names

LEMMA EvidenceStep == EvidenceInv /\ [Next]_vars => EvidenceInv'
<1> SUFFICES ASSUME EvidenceInv, [Next]_vars PROVE EvidenceInv'
  OBVIOUS
<1> USE DEF EvidenceInv, Names, At, Ended, graphState
<1>1. CASE PlanNode \/ ReviewNode \/ SearchNode \/ SearchFails \/ ExtractAgain
           \/ GapNode \/ GapSearchEnds \/ ModelFails \/ Persist \/ Stop
  BY <1>1 DEF PlanNode, ReviewNode, SearchNode, SearchFails, ExtractAgain, GapNode,
              GapSearchEnds, ModelFails, Persist, Stop
<1>2. CASE SearchNodeEnds
  BY <1>2 DEF SearchNodeEnds
<1>3. CASE ExtractNode
  <2>1. PICK ids \in Claims(sources) : evidence' = Evidence(sources, ids)
    BY <1>3 DEF ExtractNode
  <2>2. Names(evidence', sources)
    BY <2>1, EvidenceOf
  <2> QED
    BY <1>3, <2>2 DEF ExtractNode
<1>4. CASE GapNodeEnds
  <2>1. PICK ids \in Claims(draft) : evidence' = Evidence(draft, ids)
    BY <1>4 DEF GapNodeEnds, GapEvidence
  <2>2. Names(evidence', draft)
    BY <2>1, EvidenceOf
  <2> QED
    BY <1>4, <2>2 DEF GapNodeEnds
<1>5. CASE WriteNode
  BY <1>5 DEF WriteNode
<1>6. CASE VerifyNode
  BY <1>6 DEF VerifyNode
<1>7. ASSUME NEW c \in DOMAIN calls, Search(c) PROVE EvidenceInv'
  BY <1>7 DEF Search, SearchAnswers, SearchRaises, SearchAgain
<1>8. CASE UNCHANGED vars
  BY <1>8 DEF vars
<1> QED
  BY <1>1, <1>2, <1>3, <1>4, <1>5, <1>6, <1>7, <1>8 DEF Next, Node

(* Evidence and report refer to the sources they were taken from, in every *)
(* reachable state of the graph.                                           *)
THEOREM EvidenceTraceable == Spec => []EvidenceNamesItsSource
<1>1. EvidenceInv => EvidenceNamesItsSource
  BY DEF EvidenceInv, EvidenceNamesItsSource, Names
<1> QED
  BY <1>1, EvidenceInit, EvidenceStep, PTL DEF Spec

-----------------------------------------------------------------------------
LEMMA CallsInit == Init => CallsInv
  BY DEF Init, CallsInv, At

(* An answer of a search changes neither their number nor, where the state *)
(* is committed, anything else.                                            *)
LEMMA SearchKeepsCalls ==
    ASSUME NEW c \in DOMAIN calls, Search(c)
    PROVE  /\ calls[c].state # "found"
           /\ \A n : Calls(n) => Calls(n)'
           /\ UNCHANGED <<pc, plan, sources, metrics>>
<1> USE DEF Search, SearchAnswers, SearchRaises, SearchAgain, graphState
<1>1. calls[c].state \in {"asking", "pausing"}
  OBVIOUS
<1>2. calls' = [d \in DOMAIN calls |-> calls'[d]] /\ DOMAIN calls' = DOMAIN calls
  OBVIOUS
<1>3. ASSUME NEW n, Calls(n) PROVE Calls(n)'
  <2>1. DOMAIN calls = 1..n
    BY <1>3 DEF Calls
  <2> QED
    BY <1>2, <1>3, <2>1 DEF Calls
<1> QED
  BY <1>1, <1>3

(* Appending one to n calls makes n + 1.                                   *)
LEMMA OneMoreCall ==
    ASSUME NEW n \in Nat, NEW s, s = [c \in 1..n |-> s[c]], NEW e, NEW t,
           t = Append(s, e)
    PROVE  t = [c \in 1..(n + 1) |-> t[c]]
<1> DEFINE E == {s[c] : c \in 1..n} \cup {e}
<1>1. s \in Seq(E) /\ Len(s) = n
  <2>1. s \in [1..n -> E]
    OBVIOUS
  <2> QED
    BY <2>1
<1>2. t \in Seq(E) /\ Len(t) = n + 1
  BY <1>1
<1> QED
  BY <1>2

LEMMA CallsStep == CallsInv /\ [Next]_vars => CallsInv'
<1> SUFFICES ASSUME CallsInv, [Next]_vars PROVE CallsInv'
  OBVIOUS
<1> USE DEF At, Ended, graphState, CallsInv
<1>1. CASE PlanNode \/ SearchFails \/ ModelFails
  BY <1>1 DEF PlanNode, SearchFails, ModelFails
<1>2. CASE ReviewNode
  BY <1>2, GraphAssumption DEF ReviewNode, GraphAssumption, Modes
<1>3. CASE SearchNode
  BY <1>3 DEF SearchNode, Calls
<1>4. CASE SearchNodeEnds
  BY <1>4 DEF SearchNodeEnds, Counted, Calls, AllFound
<1>5. CASE ExtractNode
  BY <1>5 DEF ExtractNode, Counted, Calls, AllFound
<1>6. CASE ExtractAgain
  BY <1>6 DEF ExtractAgain, Counted, Calls, AllFound
<1>7. CASE GapNode
  <2>1. Counted(plan)
    BY <1>7 DEF GapNode
  <2>2. CASE UNCHANGED calls /\ pc' = "write"
    BY <1>7, <2>1, <2>2 DEF GapNode, Counted, Calls, AllFound
  <2>3. CASE pc' = "gap searching" /\ calls' = Append(calls, NewCall)
    <3>1. Calls(plan + 1)'
      <4>1. plan \in Nat /\ calls = [c \in 1..plan |-> calls[c]]
        BY <2>1 DEF Counted, Calls
      <4>2. calls' = Append(calls, NewCall)
        BY <2>3
      <4>3. calls' = [c \in 1..(plan + 1) |-> calls'[c]]
        BY ONLY <4>1, <4>2, OneMoreCall
      <4>4. plan' = plan
        BY <1>7 DEF GapNode
      <4>5. calls' = [c \in 1..(plan' + 1) |-> calls'[c]] /\ plan' + 1 \in Nat
        BY ONLY <4>1, <4>3, <4>4
      <4> QED
        BY ONLY <4>5 DEF Calls
    <3> QED
      BY <1>7, <2>1, <2>3, <3>1 DEF GapNode, Counted
  <2> QED
    BY <1>7, <2>2, <2>3 DEF GapNode
<1>8. CASE GapSearchEnds
  BY <1>8 DEF GapSearchEnds, Calls, AllFound
<1>9. CASE GapNodeEnds
  BY <1>9 DEF GapNodeEnds, GapCalls, Counted, Calls, AllFound
<1>10. CASE WriteNode \/ VerifyNode \/ Persist
  BY <1>10 DEF WriteNode, VerifyNode, Persist, Counted, Calls, AllFound
<1>11. CASE Stop
  BY <1>11 DEF Stop
<1>12. ASSUME NEW c \in DOMAIN calls, Search(c) PROVE CallsInv'
  BY <1>12, SearchKeepsCalls DEF Counted, AllFound
<1>13. CASE UNCHANGED vars
  BY <1>13 DEF vars, Counted, Calls, AllFound
<1> QED
  BY <1>1, <1>2, <1>3, <1>4, <1>5, <1>6, <1>7, <1>8, <1>9, <1>10, <1>11, <1>12,
     <1>13 DEF Next, Node

(* The metrics count the searches and the sources of every committed state.*)
THEOREM MetricsTrue == Spec => []MetricsCount
<1>1. ASSUME CallsInv PROVE MetricsCount
  <2> SUFFICES ASSUME pc \in Committed
               PROVE  /\ metrics.source_count = Len(sources)
                      /\ metrics.search_calls =
                            Cardinality({c \in DOMAIN calls : calls[c].state = "found"})
    BY DEF MetricsCount
  <2>1. PICK n \in Nat : Counted(n)
    BY <1>1 DEF CallsInv, Committed, Counted, Calls
  <2>2. {c \in DOMAIN calls : calls[c].state = "found"} = 1..n
    BY <2>1 DEF Counted, Calls, AllFound
  <2>3. Cardinality(1..n) = n
    BY <2>1, FS_Interval
  <2> QED
    BY <2>1, <2>2, <2>3 DEF Counted
<1> QED
  BY <1>1, CallsInit, CallsStep, PTL DEF Spec

-----------------------------------------------------------------------------
(* A strict order of all members of S.                                     *)
Orders(R, S) ==
    /\ \A x \in S : <<x, x>> \notin R
    /\ \A x, y, z \in S : <<x, y>> \in R /\ <<y, z>> \in R => <<x, z>> \in R
    /\ \A x, y \in S : x = y \/ <<x, y>> \in R \/ <<y, x>> \in R

Arranges(f, S, R) ==
    /\ f \in [1..Cardinality(S) -> S]
    /\ \A i, j \in 1..Cardinality(S) : i < j => <<f[i], f[j]>> \in R
    /\ \A x \in S : \E i \in 1..Cardinality(S) : f[i] = x

(* A finite set can be arranged in any such order: the place of a member   *)
(* is the number of those before it, and one.                              *)
LEMMA ArrangedIs ==
    ASSUME NEW S, IsFiniteSet(S), NEW R, Orders(R, S)
    PROVE  /\ Cardinality(S) \in Nat
           /\ Arranges(Arranged(S, R), S, R)
PROOF
  <1> DEFINE n == Cardinality(S)
             earlier(x) == {y \in S : <<y, x>> \in R}
             place == [x \in S |-> Cardinality(earlier(x)) + 1]
  <1>1. n \in Nat
    BY FS_CardinalityType
  <1>2. ASSUME NEW x \in S
        PROVE  /\ IsFiniteSet(earlier(x))
               /\ Cardinality(earlier(x)) \in Nat
               /\ Cardinality(earlier(x)) + 1 \in 1..n
    <2>1. IsFiniteSet(S \ {x}) /\ Cardinality(S \ {x}) = n - 1
      BY FS_RemoveElement
    <2>2. earlier(x) \in SUBSET (S \ {x})
      BY DEF Orders
    <2> HIDE DEF earlier
    <2>3. /\ IsFiniteSet(earlier(x))
          /\ Cardinality(earlier(x)) <= Cardinality(S \ {x})
      BY <2>1, <2>2, FS_Subset
    <2>4. Cardinality(earlier(x)) \in Nat
      BY <2>3, FS_CardinalityType
    <2> QED BY <1>1, <2>1, <2>3, <2>4
  <1>3. ASSUME NEW x \in S, NEW y \in S, <<x, y>> \in R
        PROVE  place[x] < place[y]
    <2>1. earlier(x) \in SUBSET earlier(y)
      BY <1>3 DEF Orders
    <2>2. x \in earlier(y) /\ x \notin earlier(x)
      BY <1>3 DEF Orders
    <2>3. Cardinality(earlier(x)) <= Cardinality(earlier(y))
          /\ Cardinality(earlier(x)) # Cardinality(earlier(y))
      BY <1>2, <2>1, <2>2, FS_Subset
    <2>4. Cardinality(earlier(x)) \in Nat /\ Cardinality(earlier(y)) \in Nat
      BY <1>2
    <2> HIDE DEF earlier
    <2> QED BY <2>3, <2>4
  <1>4. place \in [S -> 1..n]
    BY <1>2
  <1> HIDE DEF place
  <1>5. ASSUME NEW x \in S, NEW y \in S, place[x] <= place[y], x # y
        PROVE  <<x, y>> \in R
    <2>1. place[x] \in Int /\ place[y] \in Int
      BY <1>1, <1>4
    <2>2. <<y, x>> \notin R
      <3> SUFFICES ASSUME <<y, x>> \in R
                   PROVE  FALSE
        OBVIOUS
      <3>1. place[y] < place[x]
        BY <1>3
      <3> QED BY <1>5, <2>1, <3>1
    <2> QED BY <1>5, <2>2 DEF Orders
  <1>6. \A x, y \in S : place[x] = place[y] => x = y
    <2> SUFFICES ASSUME NEW x \in S, NEW y \in S, place[x] = place[y], x # y
                 PROVE  FALSE
      OBVIOUS
    <2>1. place[x] \in Int /\ place[y] \in Int
      BY <1>1, <1>4
    <2>2. <<x, y>> \in R /\ <<y, x>> \in R
      BY <1>5, <2>1
    <2> QED BY <2>2 DEF Orders
  <1>7. place \in Injection(S, 1..n)
    BY <1>4, <1>6, Fun_IsInj
  <1>8. IsFiniteSet(1..n) /\ Cardinality(1..n) = n
    BY <1>1, FS_Interval
  <1>9. place \in Surjection(S, 1..n)
    BY <1>7, <1>8, FS_Injection
  <1>10. \A i \in 1..n : \E x \in S : place[x] = i
    BY <1>9, Fun_SurjectionProperties
  <1> DEFINE ordered == [i \in 1..n |-> CHOOSE x \in S : place[x] = i]
             Good(f) == /\ f \in [1..n -> S]
                        /\ \A i, j \in DOMAIN f : i < j => <<f[i], f[j]>> \in R
  <1>11. \A i \in 1..n : ordered[i] \in S /\ place[ordered[i]] = i
    BY <1>10
  <1>12. Good(ordered)
    <2> HIDE DEF ordered
    <2>1. ordered \in [1..n -> S]
      BY <1>11 DEF ordered
    <2> SUFFICES ASSUME NEW i \in 1..n, NEW j \in 1..n, i < j
                 PROVE  <<ordered[i], ordered[j]>> \in R
      BY <2>1
    <2>2. place[ordered[i]] <= place[ordered[j]] /\ ordered[i] # ordered[j]
      BY <1>11
    <2> QED BY <1>5, <1>11, <2>2
  <1>13. Arranged(S, R) = CHOOSE f \in [1..n -> S] :
                             \A i, j \in DOMAIN f : i < j => <<f[i], f[j]>> \in R
    BY DEF Arranged
  <1> HIDE DEF ordered
  <1>14. Good(Arranged(S, R))
    BY <1>12, <1>13
  <1> DEFINE f == Arranged(S, R)
  <1> HIDE DEF f
  <1>15. f \in [1..n -> S] /\ \A i, j \in 1..n : i < j => <<f[i], f[j]>> \in R
    BY <1>14 DEF f
  <1>16. \A i, j \in 1..n : f[i] = f[j] => i = j
    <2> SUFFICES ASSUME NEW i \in 1..n, NEW j \in 1..n, f[i] = f[j], i < j
                 PROVE  FALSE
      BY <1>1
    <2> QED BY <1>15 DEF Orders
  <1>17. f \in Injection(1..n, S)
    BY <1>15, <1>16, Fun_IsInj
  <1>18. f \in Surjection(1..n, S)
    BY <1>8, <1>17, FS_Injection
  <1>19. \A x \in S : \E i \in 1..n : f[i] = x
    BY <1>18 DEF Surjection
  <1> QED BY <1>1, <1>15, <1>19 DEF f, Arranges
(* Induction, over sets: a set of natural numbers has a least member.      *)
LEMMA Least ==
    ASSUME NEW A \in SUBSET Nat, A # {}
    PROVE  \E m \in A : \A k \in A : m <= k
PROOF
  <1> DEFINE less == OpToRel(<, Nat)
  <1>1. IsWellFoundedOn(less, Nat)
    BY NatLessThanWellFounded
  <1>2. \A k, m \in Nat : <<k, m>> \in less <=> k < m
    BY DEF OpToRel
  <1> HIDE DEF less
  <1>3. PICK m \in A : \A k \in A : <<k, m>> \notin less
    BY <1>1, WFMin
  <1>4. ASSUME NEW k \in A
        PROVE  m <= k
    <2>1. k \in Nat /\ m \in Nat /\ ~(k < m)
      BY <1>2, <1>3
    <2> QED BY <2>1
  <1> QED BY <1>4

(* There is one such arrangement only.                                     *)
LEMMA ArrangedOnce ==
    ASSUME NEW S, IsFiniteSet(S), NEW R, Orders(R, S),
           NEW f, Arranges(f, S, R), NEW g, Arranges(g, S, R)
    PROVE  f = g
PROOF
  <1> DEFINE n == Cardinality(S)
  <1>1. n \in Nat
    BY FS_CardinalityType
  <1> HIDE DEF n
  <1>2. f \in [1..n -> S] /\ g \in [1..n -> S]
    BY DEF Arranges, n
  <1>3. ASSUME NEW u, NEW v, Arranges(u, S, R), Arranges(v, S, R), NEW m \in 1..n,
               u[m] # v[m], \A k \in 1..n : u[k] # v[k] => m <= k
        PROVE  <<v[m], u[m]>> \in R
    <2>1. /\ u \in [1..n -> S] /\ v \in [1..n -> S]
          /\ \A i, j \in 1..n : i < j => <<u[i], u[j]>> \in R /\ <<v[i], v[j]>> \in R
          /\ \A x \in S : \E i \in 1..n : v[i] = x
      BY <1>3 DEF Arranges, n
    <2>2. PICK j \in 1..n : v[j] = u[m]
      BY <2>1
    <2>3. CASE j < m
      <3>1. u[j] = v[j]
        BY <1>1, <1>3, <2>3
      <3>2. <<u[j], u[m]>> \in R
        BY <2>1, <2>3
      <3> QED BY <2>1, <2>2, <3>1, <3>2 DEF Orders
    <2>4. CASE m < j
      BY <2>1, <2>2, <2>4
    <2> QED BY <1>1, <1>3, <2>2, <2>3, <2>4
  <1>4. ASSUME f # g
        PROVE  FALSE
    <2> DEFINE A == {k \in 1..n : f[k] # g[k]}
    <2>1. A \in SUBSET Nat /\ A # {}
      BY <1>1, <1>2, <1>4
    <2>2. PICK m \in A : \A k \in A : m <= k
      BY <2>1, Least
    <2>3. /\ m \in 1..n /\ f[m] # g[m]
          /\ \A k \in 1..n : f[k] # g[k] => m <= k
      BY <2>2
    <2>4. <<g[m], f[m]>> \in R /\ <<f[m], g[m]>> \in R
      BY <1>3, <2>3
    <2> QED BY <1>2, <2>3, <2>4 DEF Orders
  <1> QED BY <1>4

(* Numbers are arranged by size.                                           *)
LEMMA NumbersOrdered ==
    ASSUME NEW S \in SUBSET Nat
    PROVE  Orders({p \in S \X S : p[1] < p[2]}, S)
PROOF
  <1>1. \A x, y \in S : <<x, y>> \in {p \in S \X S : p[1] < p[2]} <=> x < y
    OBVIOUS
  <1> QED BY <1>1 DEF Orders

(* What a search passes on are documents.                                  *)
LEMMA ResultsAre ==
    ASSUME NEW payload \in Payloads, Invalid \notin Range(payload)
    PROVE  Results(payload) \in Seq(Documents)
PROOF
  <1> DEFINE kept == {i \in DOMAIN payload : payload[i] # Blank}
             order == Arranged(kept, {p \in kept \X kept : p[1] < p[2]})
  <1>1. payload \in Seq(Documents \cup {Blank, Invalid})
    BY GraphAssumption
  <1>2. /\ Len(payload) \in Nat /\ DOMAIN payload = 1..Len(payload)
        /\ \A i \in 1..Len(payload) : payload[i] \in Documents \cup {Blank, Invalid}
    BY <1>1
  <1>3. \A i \in DOMAIN payload : payload[i] # Invalid
    BY DEF Range
  <1>4. kept \in SUBSET Nat /\ kept \in SUBSET (1..Len(payload))
    BY <1>2
  <1>5. IsFiniteSet(kept)
    <2>1. IsFiniteSet(1..Len(payload))
      BY <1>2, FS_Interval
    <2> HIDE DEF kept
    <2> QED BY <1>4, <2>1, FS_Subset
  <1>6. \A i \in kept : payload[i] \in Documents
    BY <1>2, <1>3
  <1>7. Cardinality(kept) \in Nat /\ order \in [1..Cardinality(kept) -> kept]
    <2> HIDE DEF kept
    <2>1. Orders({p \in kept \X kept : p[1] < p[2]}, kept)
      BY <1>4, NumbersOrdered
    <2> QED BY <1>5, <2>1, ArrangedIs DEF Arranges
  <1>8. Results(payload) = [k \in DOMAIN order |-> payload[order[k]]]
    BY DEF Results
  <1> HIDE DEF order, kept
  <1>9. Results(payload) \in [1..Cardinality(kept) -> Documents]
    BY <1>6, <1>7, <1>8
  <1> QED BY <1>7, <1>9, SeqDef

(* The results of several searches, one after the other.                   *)
LEMMA FlattenIs ==
    ASSUME NEW S, NEW s \in Seq(Seq(S))
    PROVE  /\ FlattenSeq(s) \in Seq(S)
           /\ Range(FlattenSeq(s)) = UNION {Range(s[c]) : c \in DOMAIN s}
PROOF
  <1> DEFINE n == Len(s)
             Rec(g, m) == g = [i \in 1..m |-> IF i = 1 THEN s[i] ELSE g[i - 1] \o s[i]]
  <1>1. n \in Nat /\ DOMAIN s = 1..n /\ \A i \in 1..n : s[i] \in Seq(S)
    OBVIOUS
  <1>2. CASE n = 0
    <2>1. s = <<>>
      BY <1>2
    <2>2. FlattenSeq(s) = <<>>
      BY <2>1 DEF FlattenSeq
    <2>3. Range(<<>>) = {} /\ DOMAIN s = {} /\ <<>> \in Seq(S)
      BY <2>1 DEF Range
    <2> QED BY <2>2, <2>3
  <1>3. CASE n # 0
    <2> HIDE DEF n
    <2>1. \A m \in 1..n : \E g : Rec(g, m)
      <3> SUFFICES ASSUME {m \in 1..n : ~ \E g : Rec(g, m)} # {}
                   PROVE  FALSE
        OBVIOUS
      <3> DEFINE A == {m \in 1..n : ~ \E g : Rec(g, m)}
      <3>1. A \in SUBSET Nat
        <4> HIDE DEF Rec
        <4> QED BY <1>1
      <3> HIDE DEF A
      <3>2. A # {}
        BY DEF A
      <3>3. PICK m \in A : \A k \in A : m <= k
        BY <3>1, <3>2, Least
      <3>4. m \in 1..n /\ ~ \E g : Rec(g, m)
        BY DEF A
      <3>5. CASE m = 1
        <4>1. Rec([i \in 1..1 |-> s[i]], m)
          BY <3>5
        <4> HIDE DEF Rec
        <4> QED BY <3>4, <4>1
      <3>6. CASE m # 1
        <4>1. m - 1 \in 1..n /\ m - 1 \notin A
          BY <1>1, <3>3, <3>4, <3>6
        <4>2. PICK g : Rec(g, m - 1)
          BY <4>1 DEF A
        <4> DEFINE h == [i \in 1..m |-> IF i < m THEN g[i] ELSE g[m - 1] \o s[m]]
        <4>3. \A i \in 1..(m - 1) : g[i] = IF i = 1 THEN s[i] ELSE g[i - 1] \o s[i]
          BY <4>2
        <4>4. \A i \in 1..m : h[i] = IF i = 1 THEN s[i] ELSE h[i - 1] \o s[i]
          <5> SUFFICES ASSUME NEW i \in 1..m
                       PROVE  h[i] = IF i = 1 THEN s[i] ELSE h[i - 1] \o s[i]
            OBVIOUS
          <5>1. CASE i = m
            <6>1. /\ m \in Nat /\ m # 1 /\ m \in 1..m /\ m - 1 \in 1..m
                  /\ ~(m < m) /\ m - 1 < m
              BY <1>1, <3>4, <3>6
            <6>2. h[m] = g[m - 1] \o s[m] /\ h[m - 1] = g[m - 1]
              BY <6>1
            <6> QED BY <5>1, <6>1, <6>2
          <5>2. CASE i # m
            <6>1. i \in 1..(m - 1) /\ h[i] = g[i] /\ (i # 1 => h[i - 1] = g[i - 1])
              BY <1>1, <3>4, <5>2
            <6> QED BY <4>3, <6>1
          <5> QED BY <5>1, <5>2
        <4>5. Rec(h, m)
          BY <4>4
        <4> HIDE DEF Rec, h
        <4> QED BY <3>4, <4>5
      <3> QED BY <3>5, <3>6
    <2> DEFINE F == CHOOSE g : Rec(g, n)
    <2>2. Rec(F, n)
      <3>1. \E g : Rec(g, n)
        <4>1. n \in 1..n
          BY <1>1, <1>3
        <4> HIDE DEF Rec
        <4> QED BY <2>1, <4>1
      <3> HIDE DEF Rec
      <3> QED BY <3>1
    <2>3. FlattenSeq(s) = F[n]
      BY <1>1, <1>3 DEF FlattenSeq, n
    <2> HIDE DEF F
    <2>4. \A i \in 1..n : F[i] = IF i = 1 THEN s[i] ELSE F[i - 1] \o s[i]
      BY <2>2
    <2> HIDE DEF Rec
    <2> DEFINE Holds(m) == /\ F[m] \in Seq(S)
                           /\ Range(F[m]) = UNION {Range(s[c]) : c \in 1..m}
               B == {m \in 1..n : ~Holds(m)}
    <2>5. B = {}
      <3> SUFFICES ASSUME B # {}
                   PROVE  FALSE
        OBVIOUS
      <3>1. B \in SUBSET Nat
        BY <1>1
      <3> HIDE DEF B
      <3>2. PICK m \in B : \A k \in B : m <= k
        BY <3>1, Least
      <3>3. m \in 1..n /\ ~Holds(m)
        BY DEF B
      <3>4. CASE m = 1
        BY <1>1, <2>4, <3>3, <3>4
      <3>5. CASE m # 1
        <4>1. m - 1 \in 1..n /\ m - 1 \notin B
          BY <1>1, <3>2, <3>3, <3>5
        <4>2. Holds(m - 1)
          BY <4>1 DEF B
        <4>3. F[m] = F[m - 1] \o s[m] /\ s[m] \in Seq(S)
          BY <1>1, <2>4, <3>3, <3>5
        <4>4. F[m] \in Seq(S) /\ Range(F[m]) = Range(F[m - 1]) \cup Range(s[m])
          BY <4>2, <4>3, RangeConcatenation, ConcatProperties
        <4>5. 1..m = (1..(m - 1)) \cup {m}
          BY <1>1, <3>3
        <4>6. UNION {Range(s[c]) : c \in 1..m} =
                 (UNION {Range(s[c]) : c \in 1..(m - 1)}) \cup Range(s[m])
          BY <4>5
        <4> QED BY <3>3, <4>2, <4>4, <4>6
      <3> QED BY <3>4, <3>5
    <2>6. n \in 1..n
      BY <1>1, <1>3
    <2>7. Holds(n)
      BY <2>5, <2>6
    <2> QED BY <1>1, <2>3, <2>7
  <1> QED BY <1>2, <1>3

-----------------------------------------------------------------------------
(* Documents, as the searches find them or as the graph keeps them.        *)
Found == Documents \cup {[d EXCEPT !.url = canonical_url(@)] : d \in Documents}

LEMMA UrlWith ==
    ASSUME NEW P, NEW C, NEW u \in [page : P, canonical : C], NEW c
    PROVE  [u EXCEPT !.canonical = c] = [page |-> u.page, canonical |-> c]
PROOF OBVIOUS

LEMMA FoundAre ==
    ASSUME NEW d \in Found
    PROVE  /\ d.score \in Nat
           /\ _source_quality(d) \in -1..1
           /\ d.url.page \in Pages
           /\ canonical_url(d.url) = [page |-> d.url.page, canonical |-> TRUE]
PROOF
  <1>1. \A u \in [page : Pages, canonical : BOOLEAN] :
           /\ u.page \in Pages
           /\ canonical_url(u) = [page |-> u.page, canonical |-> TRUE]
    <2> SUFFICES ASSUME NEW u \in [page : Pages, canonical : BOOLEAN]
                 PROVE  /\ u.page \in Pages
                        /\ [u EXCEPT !.canonical = TRUE] = [page |-> u.page, canonical |-> TRUE]
      BY DEF canonical_url
    <2> QED BY UrlWith
  <1>2. ASSUME NEW e \in Documents
        PROVE  /\ e.url \in [page : Pages, canonical : BOOLEAN]
               /\ e.score \in Nat
    BY GraphAssumption
  <1>3. /\ d.url.page \in Pages /\ d.score \in Nat
        /\ canonical_url(d.url) = [page |-> d.url.page, canonical |-> TRUE]
    <2>1. CASE d \in Documents
      BY <1>1, <1>2, <2>1
    <2>2. CASE \E e \in Documents : d = [e EXCEPT !.url = canonical_url(@)]
      <3>1. PICK e \in Documents : d = [e EXCEPT !.url = canonical_url(@)]
        BY <2>2
      <3>2. e \in [url : [page : Pages, canonical : BOOLEAN], score : Nat]
        BY GraphAssumption
      <3>3. d.url = canonical_url(e.url) /\ d.score = e.score
        BY <3>1, <3>2
      <3>4. canonical_url(e.url) = [page |-> e.url.page, canonical |-> TRUE]
            /\ e.url.page \in Pages
        BY <1>1, <1>2
      <3>5. d.url = [page |-> e.url.page, canonical |-> TRUE]
        BY <3>3, <3>4
      <3>6. d.url \in [page : Pages, canonical : BOOLEAN] /\ d.score \in Nat
        BY <1>2, <3>3, <3>4, <3>5
      <3> QED BY <1>1, <3>6
    <2> QED BY <2>1, <2>2 DEF Found
  <1> QED BY <1>3, GraphAssumption DEF _source_quality

(* Scores and qualities can be compared.                                   *)
LEMMA Measured ==
    ASSUME NEW d \in Found
    PROVE  d.score \in Int /\ _source_quality(d) \in Int
PROOF
  <1>1. d.score \in Nat /\ _source_quality(d) \in -1..1
    BY FoundAre
  <1>2. \A q \in -1..1 : q \in Int
    OBVIOUS
  <1> QED BY <1>1, <1>2

(* URLs have one canonical form when they lead to one page.                *)
LEMMA SameCanonical ==
    ASSUME NEW d \in Found, NEW e \in Found
    PROVE  canonical_url(d.url) = canonical_url(e.url) <=> d.url.page = e.url.page
PROOF
  <1>1. \A p, q : [page |-> p, canonical |-> TRUE] = [page |-> q, canonical |-> TRUE]
                    <=> p = q
    <2> SUFFICES ASSUME NEW p, NEW q, NEW c
                 PROVE  [page |-> p, canonical |-> c] = [page |-> q, canonical |-> c]
                           <=> p = q
      OBVIOUS
    <2>1. /\ [page |-> p, canonical |-> c].page = p
          /\ [page |-> q, canonical |-> c].page = q
      OBVIOUS
    <2> QED BY <2>1
  <1>2. /\ canonical_url(d.url) = [page |-> d.url.page, canonical |-> TRUE]
        /\ canonical_url(e.url) = [page |-> e.url.page, canonical |-> TRUE]
    BY FoundAre
  <1> QED BY <1>1, <1>2

(* The canonical form of a document is one again, of the same page and     *)
(* with the same score.                                                    *)
LEMMA CanonicalIs ==
    ASSUME NEW d \in Found
    PROVE  LET c == [d EXCEPT !.url = canonical_url(@)]
           IN  c \in Found /\ c.url.page = d.url.page /\ c.score = d.score
PROOF
  <1> DEFINE c == [d EXCEPT !.url = canonical_url(@)]
  <1>1. canonical_url(d.url) = [page |-> d.url.page, canonical |-> TRUE]
    BY FoundAre
  <1>2. CASE d \in Documents
    <2>1. d \in [url : [page : Pages, canonical : BOOLEAN], score : Nat]
      BY <1>2, GraphAssumption
    <2>2. c.url = canonical_url(d.url) /\ c.score = d.score
      BY <2>1
    <2>3. c.url.page = d.url.page
      BY <1>1, <2>2
    <2>4. c \in Found
      BY <1>2 DEF Found
    <2> QED BY <2>2, <2>3, <2>4
  <1>3. CASE \E e \in Documents : d = [e EXCEPT !.url = canonical_url(@)]
    <2>1. PICK e \in Documents : d = [e EXCEPT !.url = canonical_url(@)]
      BY <1>3
    <2>2. e \in [url : [page : Pages, canonical : BOOLEAN], score : Nat]
      BY GraphAssumption
    <2>3. e \in Found
      BY DEF Found
    <2>4. canonical_url(e.url) = [page |-> e.url.page, canonical |-> TRUE]
      BY <2>3, FoundAre
    <2>5. d = [url |-> canonical_url(e.url), score |-> e.score]
      BY <2>1, <2>2
    <2>6. d.url.page = e.url.page
      BY <2>4, <2>5
    <2>7. canonical_url(d.url) = d.url
      BY <1>1, <2>4, <2>5, <2>6
    <2>8. c = d
      BY <2>5, <2>7
    <2> QED BY <2>8
  <1> QED BY <1>2, <1>3 DEF Found

(* The order of scores, and that of quality and score, are strict orders   *)
(* of the documents of a sequence.                                         *)
Pairs(S, items) == {p \in S \X S : ByScore(items, p[1], p[2])}
Ranks(S, items) == {p \in S \X S : ByQuality(items, p[1], p[2])}

LEMMA SortsOrder ==
    ASSUME NEW items \in Seq(Found), NEW S \in SUBSET DOMAIN items
    PROVE  /\ IsFiniteSet(S)
           /\ Orders(Pairs(S, items), S)
           /\ Orders(Ranks(S, items), S)
PROOF
  <1>1. S \in SUBSET (1..Len(items)) /\ Len(items) \in Nat
    OBVIOUS
  <1>2. IsFiniteSet(S)
    <2>1. IsFiniteSet(1..Len(items))
      BY <1>1, FS_Interval
    <2> QED BY <1>1, <2>1, FS_Subset
  <1>3. \A i \in S : /\ i \in Int
                     /\ items[i].score \in Int
                     /\ _source_quality(items[i]) \in Int
    <2> SUFFICES ASSUME NEW i \in S
                 PROVE  /\ i \in Int
                        /\ items[i].score \in Int
                        /\ _source_quality(items[i]) \in Int
      OBVIOUS
    <2>1. items[i] \in Found /\ i \in Int
      BY <1>1
    <2> QED BY <2>1, Measured
  <1> DEFINE sc == [i \in S |-> items[i].score]
             ql == [i \in S |-> _source_quality(items[i])]
  <1>4. sc \in [S -> Int] /\ ql \in [S -> Int] /\ S \subseteq Int
    BY <1>3
  <1>5. \A i, j \in S : <<i, j>> \in Pairs(S, items) <=>
                            sc[i] > sc[j] \/ (sc[i] = sc[j] /\ i < j)
    BY DEF Pairs, ByScore
  <1>6. \A i, j \in S : <<i, j>> \in Ranks(S, items) <=>
                            \/ ql[i] > ql[j]
                            \/ ql[i] = ql[j] /\ (sc[i] > sc[j] \/ (sc[i] = sc[j] /\ i < j))
    BY DEF Ranks, ByQuality, ByScore
  <1> HIDE DEF sc, ql
  <1>7. Orders(Pairs(S, items), S)
    <2> DEFINE R == Pairs(S, items)
    <2>1. \A i, j \in S : <<i, j>> \in R <=> sc[i] > sc[j] \/ (sc[i] = sc[j] /\ i < j)
      BY <1>5
    <2> HIDE DEF R
    <2>2. \A x \in S : <<x, x>> \notin R
      BY <1>4, <2>1
    <2>3. \A x, y, z \in S : <<x, y>> \in R /\ <<y, z>> \in R => <<x, z>> \in R
      <3> SUFFICES ASSUME NEW x \in S, NEW y \in S, NEW z \in S,
                          <<x, y>> \in R, <<y, z>> \in R
                   PROVE  <<x, z>> \in R
        OBVIOUS
      <3>1. /\ sc[x] \in Int /\ sc[y] \in Int /\ sc[z] \in Int
            /\ x \in Int /\ y \in Int /\ z \in Int
        BY <1>4
      <3>2. /\ sc[x] > sc[y] \/ (sc[x] = sc[y] /\ x < y)
            /\ sc[y] > sc[z] \/ (sc[y] = sc[z] /\ y < z)
        BY <2>1
      <3>3. sc[x] > sc[z] \/ (sc[x] = sc[z] /\ x < z)
        BY <3>1, <3>2
      <3> QED BY <2>1, <3>3
    <2>4. \A x, y \in S : x = y \/ <<x, y>> \in R \/ <<y, x>> \in R
      <3> SUFFICES ASSUME NEW x \in S, NEW y \in S, x # y
                   PROVE  <<x, y>> \in R \/ <<y, x>> \in R
        OBVIOUS
      <3>1. sc[x] \in Int /\ sc[y] \in Int /\ x \in Int /\ y \in Int
        BY <1>4
      <3> QED BY <2>1, <3>1
    <2>5. Orders(R, S)
      BY <2>2, <2>3, <2>4 DEF Orders
    <2> QED BY <2>5 DEF R
  <1>8. Orders(Ranks(S, items), S)
    <2> DEFINE R == Ranks(S, items)
    <2>1. \A i, j \in S : <<i, j>> \in R <=>
             \/ ql[i] > ql[j]
             \/ ql[i] = ql[j] /\ (sc[i] > sc[j] \/ (sc[i] = sc[j] /\ i < j))
      BY <1>6
    <2> HIDE DEF R
    <2>2. \A x \in S : <<x, x>> \notin R
      BY <1>4, <2>1
    <2>3. \A x, y, z \in S : <<x, y>> \in R /\ <<y, z>> \in R => <<x, z>> \in R
      <3> SUFFICES ASSUME NEW x \in S, NEW y \in S, NEW z \in S,
                          <<x, y>> \in R, <<y, z>> \in R
                   PROVE  <<x, z>> \in R
        OBVIOUS
      <3>1. /\ sc[x] \in Int /\ sc[y] \in Int /\ sc[z] \in Int
            /\ ql[x] \in Int /\ ql[y] \in Int /\ ql[z] \in Int
            /\ x \in Int /\ y \in Int /\ z \in Int
        BY <1>4
      <3>2. /\ \/ ql[x] > ql[y]
               \/ ql[x] = ql[y] /\ (sc[x] > sc[y] \/ (sc[x] = sc[y] /\ x < y))
            /\ \/ ql[y] > ql[z]
               \/ ql[y] = ql[z] /\ (sc[y] > sc[z] \/ (sc[y] = sc[z] /\ y < z))
        BY <2>1
      <3>3. \/ ql[x] > ql[z]
            \/ ql[x] = ql[z] /\ (sc[x] > sc[z] \/ (sc[x] = sc[z] /\ x < z))
        BY <3>1, <3>2
      <3> QED BY <2>1, <3>3
    <2>4. \A x, y \in S : x = y \/ <<x, y>> \in R \/ <<y, x>> \in R
      <3> SUFFICES ASSUME NEW x \in S, NEW y \in S, x # y
                   PROVE  <<x, y>> \in R \/ <<y, x>> \in R
        OBVIOUS
      <3>1. /\ sc[x] \in Int /\ sc[y] \in Int /\ x \in Int /\ y \in Int
            /\ ql[x] \in Int /\ ql[y] \in Int
        BY <1>4
      <3> QED BY <2>1, <3>1
    <2>5. Orders(R, S)
      BY <2>2, <2>3, <2>4 DEF Orders
    <2> QED BY <2>5 DEF R
  <1> QED BY <1>2, <1>7, <1>8

(* The document of a page that is kept: the first in the order of scores.  *)
Selected(items, i) ==
    \A j \in DOMAIN items \ {i} :
        canonical_url(items[j].url) = canonical_url(items[i].url)
            => ByScore(items, i, j)

LEMMA SelectedIs ==
    ASSUME NEW items \in Seq(Found), NEW x \in DOMAIN items
    PROVE  \E i \in DOMAIN items :
              /\ Selected(items, i)
              /\ items[i].url.page = items[x].url.page
              /\ items[i].score >= items[x].score
PROOF
  <1> DEFINE S == {i \in DOMAIN items :
                      canonical_url(items[i].url) = canonical_url(items[x].url)}
             n == Cardinality(S)
             f == Arranged(S, Pairs(S, items))
  <1>1. S \in SUBSET DOMAIN items /\ x \in S
    OBVIOUS
  <1>2. \A i \in DOMAIN items : items[i] \in Found /\ i \in Nat
    OBVIOUS
  <1> HIDE DEF S
  <1>3. n \in Nat /\ Arranges(f, S, Pairs(S, items))
    BY <1>1, SortsOrder, ArrangedIs
  <1> HIDE DEF n, f
  <1>4. /\ f \in [1..n -> S]
        /\ \A i, j \in 1..n : i < j => <<f[i], f[j]>> \in Pairs(S, items)
        /\ \A y \in S : \E i \in 1..n : f[i] = y
    BY <1>3 DEF Arranges, n
  <1>5. 1 \in 1..n
    BY <1>1, <1>3, <1>4
  <1>6. ASSUME NEW y \in S, y # f[1]
        PROVE  ByScore(items, f[1], y)
    <2>1. PICK k \in 1..n : f[k] = y
      BY <1>4
    <2>2. 1 < k
      BY <1>3, <1>6, <2>1
    <2>3. <<f[1], y>> \in Pairs(S, items)
      BY <1>4, <1>5, <2>1, <2>2
    <2> QED BY <2>3 DEF Pairs
  <1>7. f[1] \in S /\ f[1] \in DOMAIN items
    BY <1>1, <1>4, <1>5
  <1>8. canonical_url(items[f[1]].url) = canonical_url(items[x].url)
    BY <1>7 DEF S
  <1>9. Selected(items, f[1])
    <2> SUFFICES ASSUME NEW j \in DOMAIN items, j # f[1],
                        canonical_url(items[j].url) = canonical_url(items[f[1]].url)
                 PROVE  ByScore(items, f[1], j)
      BY DEF Selected
    <2>1. j \in S
      BY <1>8 DEF S
    <2> QED BY <1>6, <2>1
  <1>10. items[f[1]].url.page = items[x].url.page
    <2>1. items[f[1]] \in Found /\ items[x] \in Found
      BY <1>2, <1>7
    <2> QED BY <1>8, <2>1, SameCanonical
  <1>11. items[f[1]].score >= items[x].score
    <2>1. items[f[1]].score \in Nat /\ items[x].score \in Nat
      BY <1>2, <1>7, FoundAre
    <2>2. CASE x = f[1]
      BY <2>1, <2>2
    <2>3. CASE x # f[1]
      BY <1>1, <1>6, <2>1, <2>3 DEF ByScore
    <2> QED BY <2>2, <2>3
  <1> QED BY <1>7, <1>9, <1>10, <1>11

LEMMA MinIs ==
    ASSUME NEW a \in Int, NEW b \in Int
    PROVE  Min({a, b}) = IF a <= b THEN a ELSE b
PROOF
  <1>1. \E x \in {a, b} : \A y \in {a, b} : x <= y
    OBVIOUS
  <1>2. Min({a, b}) = CHOOSE x \in {a, b} : \A y \in {a, b} : x <= y
    BY DEF Min
  <1>3. Min({a, b}) \in {a, b} /\ \A y \in {a, b} : Min({a, b}) <= y
    BY <1>1, <1>2
  <1> QED BY <1>3

(* _deduplicate keeps the best: of any list of search results, and for any *)
(* limit, it returns the best documents of distinct pages, best first.     *)
THEOREM DeduplicateIs ==
    ASSUME NEW items \in Seq(Found), NEW limit \in Nat
    PROVE  /\ Deduplicate(items, limit) \in Seq(Found)
           /\ BestOf(Deduplicate(items, limit), Range(items), limit)
PROOF
  <1> DEFINE A == {i \in DOMAIN items : Selected(items, i) /\ _source_quality(items[i]) >= 0}
             n == Cardinality(A)
             f == Arranged(A, Ranks(A, items))
             m == Min({n, limit})
             out == Deduplicate(items, limit)
  <1>1. out = [k \in 1..m |-> [items[f[k]] EXCEPT !.url = canonical_url(@)]]
    BY DEF Deduplicate, Selected, Ranks
  <1>2. A \in SUBSET DOMAIN items
    OBVIOUS
  <1>3. \A i \in A : Selected(items, i) /\ _source_quality(items[i]) >= 0 /\ items[i] \in Found
    OBVIOUS
  <1>4. \A i \in DOMAIN items :
           Selected(items, i) /\ _source_quality(items[i]) >= 0 => i \in A
    OBVIOUS
  <1> HIDE DEF A
  <1>5. n \in Nat /\ Arranges(f, A, Ranks(A, items))
    BY <1>2, SortsOrder, ArrangedIs
  <1>6. /\ f \in [1..n -> A]
        /\ \A i, j \in 1..n : i < j => <<f[i], f[j]>> \in Ranks(A, items)
        /\ \A y \in A : \E i \in 1..n : f[i] = y
    BY <1>5 DEF Arranges
  <1>7. m \in Nat /\ m <= n /\ m <= limit /\ (m = n \/ m = limit)
    BY <1>5, MinIs
  <1> HIDE DEF n, f, m, out
  <1> DEFINE doc == [k \in 1..n |-> items[f[k]]]
             sc == [k \in 1..n |-> doc[k].score]
             ql == [k \in 1..n |-> _source_quality(doc[k])]
  <1>8. \A k \in 1..n : /\ f[k] \in A /\ doc[k] = items[f[k]]
                        /\ doc[k] \in Found
    BY <1>3, <1>6
  <1>9. \A k \in 1..n : sc[k] = doc[k].score /\ ql[k] = _source_quality(doc[k])
    OBVIOUS
  <1>10. \A k \in 1..n : doc[k].score \in Int /\ ql[k] \in Int
    BY <1>8, <1>9, Measured
  <1>11. \A k \in 1..n : ql[k] >= 0
    BY <1>3, <1>8, <1>9
  <1> HIDE DEF doc, sc, ql
  <1>12. ASSUME NEW i \in 1..n, NEW j \in 1..n, i < j
         PROVE  /\ f[i] # f[j]
                /\ ql[i] > ql[j] \/ (ql[i] = ql[j] /\ sc[i] >= sc[j])
                /\ doc[i].url.page # doc[j].url.page
    <2>1. f[i] \in Int /\ f[j] \in Int
      BY <1>2, <1>8
    <2>2. <<f[i], f[j]>> \in Ranks(A, items)
      BY <1>6, <1>12
    <2>3. ByQuality(items, f[i], f[j])
      BY <2>2 DEF Ranks
    <2>4. \/ ql[i] > ql[j]
          \/ ql[i] = ql[j] /\ (sc[i] > sc[j] \/ (sc[i] = sc[j] /\ f[i] < f[j]))
      BY <2>3, <1>8, <1>9 DEF ByQuality, ByScore
    <2>5. sc[i] \in Int /\ sc[j] \in Int /\ ql[i] \in Int /\ ql[j] \in Int
      BY <1>9, <1>10
    <2>6. f[i] # f[j]
      <3> SUFFICES ASSUME f[i] = f[j]
                   PROVE  FALSE
        OBVIOUS
      <3>1. sc[i] = sc[j] /\ ql[i] = ql[j]
        BY <1>8, <1>9
      <3> QED BY <2>1, <2>4, <2>5, <3>1
    <2>7. doc[i].url.page # doc[j].url.page
      <3> SUFFICES ASSUME doc[i].url.page = doc[j].url.page
                   PROVE  FALSE
        OBVIOUS
      <3>1. canonical_url(doc[i].url) = canonical_url(doc[j].url)
        BY <1>8, SameCanonical
      <3>2. /\ f[i] \in DOMAIN items \ {f[j]} /\ f[j] \in DOMAIN items \ {f[i]}
            /\ canonical_url(items[f[i]].url) = canonical_url(items[f[j]].url)
        BY <1>2, <1>8, <2>6, <3>1
      <3>3. ByScore(items, f[i], f[j])
        BY <1>3, <1>8, <3>2 DEF Selected
      <3>4. ByScore(items, f[j], f[i])
        BY <1>3, <1>8, <3>2 DEF Selected
      <3>5. /\ sc[i] > sc[j] \/ (sc[i] = sc[j] /\ f[i] < f[j])
            /\ sc[j] > sc[i] \/ (sc[j] = sc[i] /\ f[j] < f[i])
        BY <1>8, <1>9, <3>3, <3>4 DEF ByScore
      <3> QED BY <2>1, <2>5, <3>5
    <2> QED BY <2>4, <2>5, <2>6, <2>7
  <1>13. \A k \in 1..m : k \in 1..n
    BY <1>5, <1>7
  <1>14. ASSUME NEW k \in 1..m
         PROVE  /\ out[k] \in Found
                /\ out[k].url.page = doc[k].url.page
                /\ out[k].score = sc[k]
                /\ _source_quality(out[k]) = ql[k]
    <2>1. doc[k] \in Found /\ out[k] = [doc[k] EXCEPT !.url = canonical_url(@)]
      BY <1>1, <1>8, <1>13
    <2>2. out[k] \in Found /\ out[k].url.page = doc[k].url.page /\ out[k].score = doc[k].score
      BY <2>1, CanonicalIs
    <2> QED BY <1>9, <1>13, <2>2 DEF _source_quality
  <1>15. out \in Seq(Found) /\ Len(out) = m /\ DOMAIN out = 1..m
    <2>1. out \in [1..m -> Found]
      BY <1>1, <1>14
    <2> QED BY <1>7, <2>1
  <1>16. ASSUME NEW i \in DOMAIN out
         PROVE  /\ _source_quality(out[i]) >= 0
                /\ \E e \in Range(items) : /\ e.url.page = out[i].url.page
                                           /\ e.score = out[i].score
                /\ \A j \in 1..(i - 1) : /\ out[j].url.page # out[i].url.page
                                         /\ ~Better(out[i], out[j])
    <2>1. i \in 1..m /\ i \in 1..n
      BY <1>13, <1>15
    <2>2. _source_quality(out[i]) >= 0
      BY <1>11, <1>14, <2>1
    <2>3. doc[i] \in Range(items)
      BY <1>2, <1>8, <2>1 DEF Range
    <2>4. ASSUME NEW j \in 1..(i - 1)
          PROVE  out[j].url.page # out[i].url.page /\ ~Better(out[i], out[j])
      <3>1. j \in 1..m /\ j \in 1..n /\ j < i
        BY <1>7, <1>13, <2>1
      <3>2. /\ ql[j] > ql[i] \/ (ql[j] = ql[i] /\ sc[j] >= sc[i])
            /\ doc[j].url.page # doc[i].url.page
        BY <1>12, <2>1, <3>1
      <3>3. sc[i] \in Int /\ sc[j] \in Int /\ ql[i] \in Int /\ ql[j] \in Int
        BY <1>9, <1>10, <2>1, <3>1
      <3>4. ~(ql[i] > ql[j] \/ (ql[i] = ql[j] /\ sc[i] > sc[j]))
        BY <3>2, <3>3
      <3> QED BY <1>14, <2>1, <3>1, <3>2, <3>4 DEF Better
    <2> QED BY <1>9, <1>14, <2>1, <2>2, <2>3, <2>4
  <1>17. ASSUME NEW e \in Range(items)
         PROVE  \/ _source_quality(e) < 0
                \/ \E i \in DOMAIN out : /\ out[i].url.page = e.url.page
                                         /\ out[i].score >= e.score
                \/ /\ Len(out) = limit
                   /\ \A i \in DOMAIN out : /\ out[i].url.page # e.url.page
                                            /\ ~Better(e, out[i])
    <2>1. PICK x \in DOMAIN items : e = items[x]
      BY DEF Range
    <2>2. e \in Found
      BY <2>1
    <2>3. e.score \in Int /\ _source_quality(e) \in Int
      BY <2>2, Measured
    <2>4. SUFFICES ASSUME _source_quality(e) >= 0
                   PROVE  \/ \E i \in DOMAIN out : /\ out[i].url.page = e.url.page
                                                   /\ out[i].score >= e.score
                          \/ /\ Len(out) = limit
                             /\ \A i \in DOMAIN out : /\ out[i].url.page # e.url.page
                                                      /\ ~Better(e, out[i])
      BY <2>3
    <2>5. PICK y \in DOMAIN items : /\ Selected(items, y)
                                    /\ items[y].url.page = e.url.page
                                    /\ items[y].score >= e.score
      BY <2>1, SelectedIs
    <2>6. _source_quality(items[y]) = _source_quality(e)
      BY <2>5 DEF _source_quality
    <2>7. y \in A
      BY <1>4, <2>4, <2>5, <2>6
    <2>8. PICK k \in 1..n : f[k] = y
      BY <1>6, <2>7
    <2>9. doc[k].url.page = e.url.page /\ sc[k] >= e.score /\ ql[k] = _source_quality(e)
      BY <1>8, <1>9, <2>5, <2>6, <2>8
    <2>10. CASE k <= m
      <3>1. k \in 1..m
        BY <1>7, <2>10
      <3> QED BY <1>14, <1>15, <2>9, <3>1
    <2>11. CASE m < k
      <3>1. m = limit
        BY <1>5, <1>7, <2>11
      <3>2. ASSUME NEW i \in 1..m
            PROVE  out[i].url.page # e.url.page /\ ~Better(e, out[i])
        <4>1. i \in 1..n /\ i < k
          BY <1>7, <1>13, <2>11
        <4>2. /\ ql[i] > ql[k] \/ (ql[i] = ql[k] /\ sc[i] >= sc[k])
              /\ doc[i].url.page # doc[k].url.page
          BY <1>12, <4>1
        <4>3. sc[i] \in Int /\ sc[k] \in Int /\ ql[i] \in Int /\ ql[k] \in Int
          BY <1>9, <1>10, <4>1
        <4>4. ~(ql[k] > ql[i] \/ (ql[k] = ql[i] /\ e.score > sc[i]))
          BY <2>3, <2>9, <4>2, <4>3
        <4> QED BY <1>14, <2>9, <4>2, <4>4 DEF Better
      <3> QED BY <1>15, <3>1, <3>2
    <2> QED BY <1>5, <1>7, <2>10, <2>11
  <1>18. Len(out) <= limit
    BY <1>7, <1>15
  <1>19. BestOf(out, Range(items), limit)
    <2> HIDE DEF Range
    <2> QED BY <1>16, <1>17, <1>18 DEF BestOf
  <1> QED BY <1>15, <1>19 DEF out

LEMMA CountTo ==
    ASSUME NEW n \in Nat
    PROVE  IsFiniteSet(1..n) /\ Cardinality(1..n) = n
  BY FS_Interval

LEMMA CountWithout ==
    ASSUME NEW n \in Nat, NEW k \in 1..n
    PROVE  IsFiniteSet((1..n) \ {k}) /\ Cardinality((1..n) \ {k}) = n - 1
PROOF
  <1> DEFINE S == 1..n
  <1>1. IsFiniteSet(S) /\ Cardinality(S) = n /\ k \in S
    BY CountTo
  <1> HIDE DEF S
  <1>2. IsFiniteSet(S \ {k}) /\ Cardinality(S \ {k}) = n - 1
    BY <1>1, FS_RemoveElement
  <1> QED BY <1>2 DEF S

(* Pages of one sequence that another holds at the places in T: there are  *)
(* as many of these.                                                       *)
LEMMA PagesFit ==
    ASSUME NEW s \in Seq(Found), NEW T, IsFiniteSet(T), NEW docs,
           \A i, j \in DOMAIN s : j < i => s[j].url.page # s[i].url.page,
           \A i \in DOMAIN s : \E k \in T : docs[k].url.page = s[i].url.page
    PROVE  Len(s) <= Cardinality(T)
PROOF
  <1> DEFINE n == Len(s)
             at == [i \in 1..n |-> CHOOSE k \in T : docs[k].url.page = s[i].url.page]
  <1>1. n \in Nat /\ DOMAIN s = 1..n
    OBVIOUS
  <1> HIDE DEF n
  <1>2. ASSUME NEW i \in 1..n
        PROVE  at[i] \in T /\ docs[at[i]].url.page = s[i].url.page
    <2>1. \E k \in T : docs[k].url.page = s[i].url.page
      BY <1>1
    <2> QED BY <2>1
  <1> HIDE DEF at
  <1>3. at \in [1..n -> T]
    BY <1>2 DEF at
  <1>4. \A i, j \in 1..n : at[i] = at[j] => i = j
    <2> SUFFICES ASSUME NEW i \in 1..n, NEW j \in 1..n, at[i] = at[j], j < i
                 PROVE  FALSE
      BY <1>1
    <2>1. s[i].url.page = s[j].url.page
      BY <1>2
    <2> QED BY <1>1, <2>1
  <1>5. at \in Injection(1..n, T)
    BY <1>3, <1>4, Fun_IsInj
  <1>6. Cardinality(1..n) <= Cardinality(T)
    BY <1>5, FS_Injection
  <1>7. Cardinality(1..n) = n
    BY <1>1, FS_Interval
  <1> QED BY <1>6, <1>7 DEF n

(* What is better than one no better than another, the other is better     *)
(* than too.                                                               *)
LEMMA BetterIs ==
    ASSUME NEW d \in Found, NEW e \in Found, NEW g \in Found
    PROVE  /\ ~Better(d, d)
           /\ Better(e, g) /\ ~Better(e, d) => Better(d, g)
           /\ d.url.page = e.url.page => /\ ~Better(d, e) => d.score <= e.score
                                         /\ d.score <= e.score => ~Better(d, e)
PROOF
  <1>1. \A x \in Found : x.score \in Int /\ _source_quality(x) \in Int
    BY Measured
  <1>2. ~Better(d, d)
    BY <1>1 DEF Better
  <1>3. Better(e, g) /\ ~Better(e, d) => Better(d, g)
    <2> DEFINE sd == d.score se == e.score sg == g.score
               qd == _source_quality(d) qe == _source_quality(e) qg == _source_quality(g)
    <2>1. sd \in Int /\ se \in Int /\ sg \in Int /\ qd \in Int /\ qe \in Int /\ qg \in Int
      BY <1>1
    <2>2. /\ Better(e, g) <=> (qe > qg \/ (qe = qg /\ se > sg))
          /\ Better(e, d) <=> (qe > qd \/ (qe = qd /\ se > sd))
          /\ Better(d, g) <=> (qd > qg \/ (qd = qg /\ sd > sg))
      BY DEF Better
    <2> HIDE DEF sd, se, sg, qd, qe, qg
    <2> QED BY <2>1, <2>2
  <1>4. ASSUME d.url.page = e.url.page
        PROVE  /\ ~Better(d, e) => d.score <= e.score
               /\ d.score <= e.score => ~Better(d, e)
    <2>1. _source_quality(d) = _source_quality(e)
      BY <1>4 DEF _source_quality
    <2> QED BY <1>1, <2>1 DEF Better
  <1> QED BY <1>2, <1>3, <1>4

(* The parts of BestOf, for the documents and for what was found.          *)
Held(docs, found, i) ==
    /\ _source_quality(docs[i]) >= 0
    /\ \E e \in found : e.url.page = docs[i].url.page /\ e.score = docs[i].score
    /\ \A j \in 1..(i - 1) : /\ docs[j].url.page # docs[i].url.page
                             /\ ~Better(docs[i], docs[j])

Placed(docs, e, limit) ==
    \/ _source_quality(e) < 0
    \/ \E i \in DOMAIN docs : /\ docs[i].url.page = e.url.page
                              /\ docs[i].score >= e.score
    \/ /\ Len(docs) = limit
       /\ \A i \in DOMAIN docs : /\ docs[i].url.page # e.url.page
                                 /\ ~Better(e, docs[i])

LEMMA BestParts ==
    ASSUME NEW docs, NEW found, NEW limit
    PROVE  BestOf(docs, found, limit) <=>
              /\ Len(docs) <= limit
              /\ \A i \in DOMAIN docs : Held(docs, found, i)
              /\ \A e \in found : Placed(docs, e, limit)
  BY DEF BestOf, Held, Placed

(* The best of the best of some documents and of others are the best of    *)
(* all of them: a list that is already cut may be ranked with more, as     *)
(* gap_node does after search_node.                                        *)
THEOREM BestMerged ==
    ASSUME NEW kept \in Seq(Found), NEW docs \in Seq(Found), NEW limit \in Nat,
           NEW F \in SUBSET Found, NEW G \in SUBSET Found,
           BestOf(kept, F, limit), BestOf(docs, Range(kept) \cup G, limit)
    PROVE  BestOf(docs, F \cup G, limit)
PROOF
  <1>1. /\ Len(kept) \in Nat /\ DOMAIN kept = 1..Len(kept)
        /\ Len(docs) \in Nat /\ DOMAIN docs = 1..Len(docs)
        /\ \A i \in DOMAIN kept : kept[i] \in Found /\ kept[i] \in Range(kept)
        /\ \A i \in DOMAIN docs : docs[i] \in Found
    BY DEF Range
  <1>2. /\ Len(kept) <= limit
        /\ \A i \in DOMAIN kept : Held(kept, F, i)
        /\ \A e \in F : Placed(kept, e, limit)
        /\ Len(docs) <= limit
        /\ \A i \in DOMAIN docs : Held(docs, Range(kept) \cup G, i)
        /\ \A e \in Range(kept) \cup G : Placed(docs, e, limit)
    BY BestParts
  <1>3. \A x \in Found : x.score \in Int /\ _source_quality(x) \in Int
    BY Measured
  <1>4. \A i, j \in DOMAIN kept : j < i => kept[j].url.page # kept[i].url.page
    BY <1>1, <1>2 DEF Held
  <1>5. \A i \in DOMAIN kept : Placed(docs, kept[i], limit) /\ ~(_source_quality(kept[i]) < 0)
    <2>1. \A i \in DOMAIN kept : Placed(docs, kept[i], limit)
      BY <1>1, <1>2
    <2>2. ASSUME NEW i \in DOMAIN kept
          PROVE  ~(_source_quality(kept[i]) < 0)
      <3>1. _source_quality(kept[i]) >= 0
        BY <1>2 DEF Held
      <3>2. kept[i] \in Found
        BY <1>1
      <3>3. _source_quality(kept[i]) \in Int
        BY <1>3, <3>2
      <3> QED BY <3>1, <3>3
    <2> QED BY <2>1, <2>2
  <1>6. ASSUME NEW i \in DOMAIN docs
        PROVE  Held(docs, F \cup G, i)
    <2>1. PICK e \in Range(kept) \cup G : /\ e.url.page = docs[i].url.page
                                          /\ e.score = docs[i].score
      BY <1>2 DEF Held
    <2>2. \E g \in F \cup G : g.url.page = docs[i].url.page /\ g.score = docs[i].score
      <3>1. CASE e \in G
        BY <2>1, <3>1
      <3>2. CASE e \in Range(kept)
        <4>1. PICK k \in DOMAIN kept : e = kept[k]
          BY <3>2 DEF Range
        <4>2. PICK g \in F : g.url.page = kept[k].url.page /\ g.score = kept[k].score
          BY <1>2 DEF Held
        <4> QED BY <2>1, <4>1, <4>2
      <3> QED BY <2>1, <3>1, <3>2
    <2> QED BY <1>2, <2>2 DEF Held
  (* A document of docs that is worse than all that was kept: then docs    *)
  (* holds all that was kept, and it besides.                              *)
  <1>7. ASSUME NEW k \in DOMAIN docs, \A i \in DOMAIN kept : Better(kept[i], docs[k])
        PROVE  Len(kept) < Len(docs)
    <2> DEFINE T == (1..Len(docs)) \ {k}
    <2>1. IsFiniteSet(T) /\ Cardinality(T) = Len(docs) - 1
      <3> DEFINE n == Len(docs)
      <3>1. n \in Nat /\ k \in 1..n
        BY <1>1
      <3> HIDE DEF n
      <3> QED BY <3>1, CountWithout DEF n
    <2>2. ASSUME NEW i \in DOMAIN kept
          PROVE  \E j \in T : docs[j].url.page = kept[i].url.page
      <3>1. Placed(docs, kept[i], limit) /\ ~(_source_quality(kept[i]) < 0)
        BY <1>5
      <3>2. PICK j \in DOMAIN docs : /\ docs[j].url.page = kept[i].url.page
                                     /\ docs[j].score >= kept[i].score
        <4> QED BY <1>7, <3>1 DEF Placed
      <3>3. j # k
        <4> SUFFICES ASSUME j = k
                     PROVE  FALSE
          OBVIOUS
        <4>1. kept[i] \in Found /\ docs[k] \in Found
          BY <1>1
        <4>2. kept[i].score <= docs[k].score
          BY <1>3, <3>2, <4>1
        <4>3. ~Better(kept[i], docs[k])
          BY <3>2, <4>1, <4>2, BetterIs
        <4> QED BY <1>7, <4>3
      <3> QED BY <1>1, <3>2, <3>3
    <2> HIDE DEF T
    <2>3. Len(kept) <= Cardinality(T)
      BY <1>4, <2>1, <2>2, PagesFit
    <2> QED BY <1>1, <2>1, <2>3
  <1>8. ASSUME NEW e \in F
        PROVE  Placed(docs, e, limit)
    <2>1. e \in Found /\ Placed(kept, e, limit)
      BY <1>2
    <2>2. CASE _source_quality(e) < 0
      BY <2>2 DEF Placed
    <2>3. ASSUME NEW i \in DOMAIN kept, kept[i].url.page = e.url.page,
                 kept[i].score >= e.score
          PROVE  Placed(docs, e, limit)
      <3>1. kept[i] \in Found /\ Placed(docs, kept[i], limit)
        BY <1>1, <1>2
      <3>2. _source_quality(kept[i]) = _source_quality(e)
        BY <2>3 DEF _source_quality
      <3>3. e.score \in Int /\ kept[i].score \in Int
        BY <1>3, <2>1, <3>1
      <3>4. CASE _source_quality(kept[i]) < 0
        BY <3>2, <3>4 DEF Placed
      <3>5. ASSUME NEW j \in DOMAIN docs, docs[j].url.page = kept[i].url.page,
                   docs[j].score >= kept[i].score
            PROVE  Placed(docs, e, limit)
        <4>1. docs[j].score \in Int
          BY <1>1, <1>3
        <4>2. docs[j].url.page = e.url.page /\ docs[j].score >= e.score
          BY <2>3, <3>3, <3>5, <4>1
        <4> QED BY <4>2 DEF Placed
      <3>6. ASSUME Len(docs) = limit,
                   \A j \in DOMAIN docs : /\ docs[j].url.page # kept[i].url.page
                                          /\ ~Better(kept[i], docs[j])
            PROVE  Placed(docs, e, limit)
        <4>1. ASSUME NEW j \in DOMAIN docs
              PROVE  docs[j].url.page # e.url.page /\ ~Better(e, docs[j])
          <5>1. docs[j] \in Found /\ ~Better(kept[i], docs[j])
            BY <1>1, <3>6
          <5>2. e.score <= kept[i].score
            BY <2>3, <3>3
          <5>3. ~Better(e, kept[i])
            BY <2>1, <2>3, <3>1, <5>2, BetterIs
          <5>4. ~Better(e, docs[j])
            BY <2>1, <3>1, <5>1, <5>3, BetterIs
          <5> QED BY <2>3, <3>6, <5>4
        <4> QED BY <3>6, <4>1 DEF Placed
      <3> QED BY <3>1, <3>4, <3>5, <3>6 DEF Placed
    <2>4. ASSUME Len(kept) = limit,
                 \A i \in DOMAIN kept : ~Better(e, kept[i])
          PROVE  Placed(docs, e, limit)
      <3>1. ASSUME NEW k \in DOMAIN docs
            PROVE  ~Better(e, docs[k])
        <4> SUFFICES ASSUME Better(e, docs[k])
                     PROVE  FALSE
          OBVIOUS
        <4>1. ASSUME NEW i \in DOMAIN kept
              PROVE  Better(kept[i], docs[k])
          <5>1. kept[i] \in Found /\ docs[k] \in Found /\ ~Better(e, kept[i])
            BY <1>1, <2>4
          <5> QED BY <2>1, <5>1, BetterIs
        <4>2. Len(kept) < Len(docs)
          BY <1>7, <4>1
        <4> QED BY <1>1, <1>2, <2>4, <4>2
      <3>2. ASSUME NEW k \in DOMAIN docs, docs[k].url.page = e.url.page
            PROVE  docs[k].score >= e.score
        <4>1. docs[k] \in Found /\ ~Better(e, docs[k])
          BY <1>1, <3>1
        <4>2. e.score <= docs[k].score
          BY <2>1, <3>2, <4>1, BetterIs
        <4> QED BY <1>3, <2>1, <4>1, <4>2
      <3>3. CASE \E k \in DOMAIN docs : docs[k].url.page = e.url.page
        BY <3>2, <3>3 DEF Placed
      <3>4. CASE Len(docs) = limit /\ \A k \in DOMAIN docs : docs[k].url.page # e.url.page
        BY <3>1, <3>4 DEF Placed
      <3>5. Len(docs) = limit
        <4> SUFFICES ASSUME Len(docs) # limit
                     PROVE  FALSE
          OBVIOUS
        <4>1. ASSUME NEW i \in DOMAIN kept
              PROVE  \E j \in 1..Len(docs) : docs[j].url.page = kept[i].url.page
          <5>1. Placed(docs, kept[i], limit) /\ ~(_source_quality(kept[i]) < 0)
            BY <1>5
          <5>2. \E j \in DOMAIN docs : docs[j].url.page = kept[i].url.page
            BY <5>1 DEF Placed
          <5>3. DOMAIN docs = 1..Len(docs)
            BY <1>1
          <5> QED BY ONLY <5>2, <5>3
        <4>2. IsFiniteSet(1..Len(docs)) /\ Cardinality(1..Len(docs)) = Len(docs)
          BY <1>1, CountTo
        <4>3. Len(kept) <= Len(docs)
          <5> DEFINE T == 1..Len(docs)
          <5>1. IsFiniteSet(T) /\ Cardinality(T) = Len(docs)
            BY <4>2
          <5>2. \A i \in DOMAIN kept : \E k \in T : docs[k].url.page = kept[i].url.page
            BY <4>1
          <5> HIDE DEF T
          <5>3. Len(kept) <= Cardinality(T)
            BY <1>4, <5>1, <5>2, PagesFit
          <5> QED BY <5>1, <5>3
        <4>4. Len(docs) <= limit /\ Len(docs) \in Nat
          BY <1>1, <1>2
        <4> QED BY <2>4, <4>3, <4>4
      <3> QED BY <3>3, <3>4, <3>5
    <2> QED BY <2>1, <2>2, <2>3, <2>4 DEF Placed
  <1>9. \A e \in F \cup G : Placed(docs, e, limit)
    BY <1>2, <1>8
  <1> QED BY <1>2, <1>6, <1>9, BestParts

-----------------------------------------------------------------------------
(* Where the graph is, how far it has got.                                 *)
Phases ==
    /\ pc \in {"plan", "review", "search"} => calls = <<>>
    /\ pc \in {"gap", "gap searching", "gap extract", "verify"} => mode = "deep"
    /\ Len(draft) <= SourceLimit[mode]

CallRecs == [ state : {"asking", "pausing", "found", "failed", "dropped"},
              tries : 0..(Attempts - 1),
              docs : Seq(Documents) ]

Places == {"plan", "review", "search", "searching", "gap searching",
           "gap extract"} \cup Committed \cup Ended

Room == plan + (IF mode = "deep" THEN 1 ELSE 0)

(* The parts of TypeOK, by the actions that touch them.                    *)
GraphTyped ==
    /\ mode \in Modes
    /\ pc \in Places
    /\ plan \in 0..QueryCount[mode]
    /\ again \in BOOLEAN

CallsTyped ==
    /\ calls \in Seq(CallRecs)
    /\ Len(calls) <= Room

SourcesTyped ==
    /\ sources \in Seq(Found) /\ draft \in Seq(Found)
    /\ evidence \subseteq Facts /\ report \subseteq Facts
    /\ metrics \in [search_calls : 0..MaxCalls, source_count : 0..SourceLimit[mode]]

TypeInv == GraphTyped /\ CallsTyped /\ SourcesTyped /\ Phases

LEMMA TypeInvIs == TypeInv => TypeOK
  BY DEF TypeInv, GraphTyped, CallsTyped, SourcesTyped, TypeOK, CallRecs, Places,
         Room, SourceSeqs, Found

LEMMA Limits ==
    ASSUME NEW m \in Modes
    PROVE  /\ QueryCount[m] \in Nat /\ QueryCount[m] >= 1
           /\ SourceLimit[m] \in Nat /\ QueryCount["deep"] \in Nat
           /\ QueryCount[m] <= QueryCount["deep"]
           /\ MaxCalls = QueryCount["deep"] + 1
           /\ Attempts \in Nat /\ Attempts >= 1
PROOF
  <1>1. /\ QueryCount \in [Modes -> Nat \ {0}] /\ SourceLimit \in [Modes -> Nat \ {0}]
        /\ QueryCount["quick"] <= QueryCount["deep"] /\ Attempts \in Nat \ {0}
    BY GraphAssumption
  <1>2. "deep" \in Modes /\ (m = "quick" \/ m = "deep")
    BY DEF Modes
  <1>3. \A k \in Modes : QueryCount[k] \in Nat \ {0} /\ SourceLimit[k] \in Nat \ {0}
    BY <1>1
  <1> QED BY <1>1, <1>2, <1>3 DEF MaxCalls

LEMMA TypeInit == Init => TypeInv
PROOF
  <1> SUFFICES ASSUME Init PROVE TypeInv
    OBVIOUS
  <1>1. mode \in Modes
    BY DEF Init
  <1>2. QueryCount[mode] \in Nat /\ SourceLimit[mode] \in Nat /\ MaxCalls \in Nat
    BY <1>1, Limits
  <1>3. GraphTyped
    <2>1. pc \in Places /\ again \in BOOLEAN /\ plan = 0
      BY DEF Init, Places
    <2> QED BY <1>1, <1>2, <2>1 DEF GraphTyped
  <1>4. CallsTyped
    <2>1. calls = <<>> /\ Len(<<>>) = 0 /\ <<>> \in Seq(CallRecs) /\ plan = 0
      BY DEF Init
    <2>2. 0 <= Room
      BY <2>1 DEF Room
    <2> QED BY <2>1, <2>2 DEF CallsTyped
  <1>5. SourcesTyped
    BY <1>2 DEF Init, SourcesTyped
  <1>6. Phases
    BY <1>2 DEF Init, Phases
  <1> QED BY <1>3, <1>4, <1>5, <1>6 DEF TypeInv

(* One answer, or one attempt, changes one search.                         *)
LEMMA CallWith ==
    ASSUME NEW S, NEW s \in Seq(S), NEW c \in DOMAIN s, NEW e \in S
    PROVE  /\ [s EXCEPT ![c] = e] \in Seq(S)
           /\ Len([s EXCEPT ![c] = e]) = Len(s)
  OBVIOUS

LEMMA StateAndDocs ==
    ASSUME NEW s, NEW c \in DOMAIN s, NEW v, NEW w
    PROVE  [s EXCEPT ![c].state = v, ![c].docs = w] =
              [s EXCEPT ![c] = [[s[c] EXCEPT !.state = v] EXCEPT !.docs = w]]
PROOF
  <1> DEFINE a == [s EXCEPT ![c].state = v, ![c].docs = w]
             e == [[s[c] EXCEPT !.state = v] EXCEPT !.docs = w]
  <1>1. \A d \in DOMAIN s : d # c => a[d] = s[d]
    OBVIOUS
  <1>2. a[c] = e
    OBVIOUS
  <1>3. a = [d \in DOMAIN s |-> a[d]]
    OBVIOUS
  <1> HIDE DEF a, e
  <1>4. a = [d \in DOMAIN s |-> IF d = c THEN e ELSE s[d]]
    BY <1>1, <1>2, <1>3
  <1>5. [s EXCEPT ![c] = e] = [d \in DOMAIN s |-> IF d = c THEN e ELSE s[d]]
    OBVIOUS
  <1> QED BY <1>4, <1>5 DEF a, e

LEMMA StateAndTries ==
    ASSUME NEW s, NEW c \in DOMAIN s, NEW v, NEW w
    PROVE  [s EXCEPT ![c].state = v, ![c].tries = w] =
              [s EXCEPT ![c] = [[s[c] EXCEPT !.state = v] EXCEPT !.tries = w]]
PROOF
  <1> DEFINE a == [s EXCEPT ![c].state = v, ![c].tries = w]
             e == [[s[c] EXCEPT !.state = v] EXCEPT !.tries = w]
  <1>1. \A d \in DOMAIN s : d # c => a[d] = s[d]
    OBVIOUS
  <1>2. a[c] = e
    OBVIOUS
  <1>3. a = [d \in DOMAIN s |-> a[d]]
    OBVIOUS
  <1> HIDE DEF a, e
  <1>4. a = [d \in DOMAIN s |-> IF d = c THEN e ELSE s[d]]
    BY <1>1, <1>2, <1>3
  <1>5. [s EXCEPT ![c] = e] = [d \in DOMAIN s |-> IF d = c THEN e ELSE s[d]]
    OBVIOUS
  <1> QED BY <1>4, <1>5 DEF a, e

LEMMA OneCall ==
    ASSUME NEW c \in DOMAIN calls, Search(c), calls \in Seq(CallRecs)
    PROVE  /\ \E e \in CallRecs : calls' = [calls EXCEPT ![c] = e]
           /\ calls[c].state # "found"
           /\ UNCHANGED <<mode, pc, plan, graphState, draft, again, row>>
PROOF
  <1>1. calls[c] \in CallRecs /\ calls = [d \in DOMAIN calls |-> calls[d]]
    OBVIOUS
  <1>2. /\ calls[c].tries \in 0..(Attempts - 1) /\ calls[c].docs \in Seq(Documents)
        /\ calls[c].state \in {"asking", "pausing", "found", "failed", "dropped"}
        /\ Attempts \in Nat
    BY <1>1, GraphAssumption DEF CallRecs
  <1>3. ASSUME NEW st \in {"asking", "pausing", "found", "failed", "dropped"},
               NEW t \in 0..(Attempts - 1), NEW ds \in Seq(Documents)
        PROVE  [state |-> st, tries |-> t, docs |-> ds] \in CallRecs
    BY DEF CallRecs
  <1>4. calls[c] = [state |-> calls[c].state, tries |-> calls[c].tries,
                    docs |-> calls[c].docs]
    BY <1>1 DEF CallRecs
  <1>5. UNCHANGED <<mode, pc, plan, graphState, draft, again, row>>
        /\ calls[c].state # "found"
    BY DEF Search, SearchAnswers, SearchRaises, SearchAgain
  <1>6. CASE SearchAnswers(c)
    <2>1. PICK payload \in Payloads :
             calls' = IF Invalid \in Range(payload)
                      THEN [calls EXCEPT ![c].state = "failed"]
                      ELSE [calls EXCEPT ![c].state = "found", ![c].docs = Results(payload)]
      BY <1>6 DEF SearchAnswers
    <2>2. CASE Invalid \in Range(payload)
      <3> DEFINE e == [state |-> "failed", tries |-> calls[c].tries, docs |-> calls[c].docs]
      <3>1. [calls[c] EXCEPT !.state = "failed"] = e
        BY <1>4
      <3>2. calls' = [calls EXCEPT ![c] = e]
        BY <2>1, <2>2, <3>1
      <3> QED BY <1>2, <1>3, <1>5, <3>2
    <2>3. CASE Invalid \notin Range(payload)
      <3> DEFINE e == [state |-> "found", tries |-> calls[c].tries, docs |-> Results(payload)]
      <3>1. calls' = [calls EXCEPT ![c] = e]
        <4>1. calls' = [calls EXCEPT ![c].state = "found", ![c].docs = Results(payload)]
          BY <2>1, <2>3
        <4>2. calls' = [calls EXCEPT ![c] =
                          [[calls[c] EXCEPT !.state = "found"] EXCEPT !.docs = Results(payload)]]
          BY <4>1, StateAndDocs, Zenon
        <4>3. [[calls[c] EXCEPT !.state = "found"] EXCEPT !.docs = Results(payload)] = e
          <5> DEFINE st == calls[c].state  t == calls[c].tries  ds == calls[c].docs
          <5>1. calls[c] = [state |-> st, tries |-> t, docs |-> ds]
            BY <1>4
          <5> HIDE DEF st, t, ds
          <5>2. [[state |-> st, tries |-> t, docs |-> ds] EXCEPT !.state = "found"] =
                   [state |-> "found", tries |-> t, docs |-> ds]
            OBVIOUS
          <5>3. [[state |-> "found", tries |-> t, docs |-> ds] EXCEPT !.docs = Results(payload)] =
                   [state |-> "found", tries |-> t, docs |-> Results(payload)]
            OBVIOUS
          <5>4. [calls[c] EXCEPT !.state = "found"] = [state |-> "found", tries |-> t, docs |-> ds]
            BY <5>1, <5>2, Zenon
          <5>5. [[calls[c] EXCEPT !.state = "found"] EXCEPT !.docs = Results(payload)] =
                   [state |-> "found", tries |-> t, docs |-> Results(payload)]
            BY <5>3, <5>4, Zenon
          <5> QED BY <5>5 DEF st, t, ds
        <4> QED BY <4>2, <4>3, Zenon
      <3>2. Results(payload) \in Seq(Documents)
        BY <2>3, ResultsAre
      <3>3. e \in CallRecs
        BY <1>2, <1>3, <3>2
      <3> QED BY <1>5, <3>1, <3>3
    <2> QED BY <2>2, <2>3
  <1>7. CASE SearchRaises(c)
    <2>1. CASE calls' = [calls EXCEPT ![c].state = "failed"]
      <3> DEFINE e == [state |-> "failed", tries |-> calls[c].tries, docs |-> calls[c].docs]
      <3>1. [calls[c] EXCEPT !.state = "failed"] = e
        BY <1>4
      <3>2. calls' = [calls EXCEPT ![c] = e]
        BY <2>1, <3>1
      <3> QED BY <1>2, <1>3, <1>5, <3>2
    <2>2. CASE /\ AttemptsLeft(c)
               /\ calls' = [calls EXCEPT ![c].state = "pausing", ![c].tries = Tried(c)]
      <3> DEFINE e == [state |-> "pausing", tries |-> Tried(c), docs |-> calls[c].docs]
      <3>1. calls' = [calls EXCEPT ![c] = e]
        <4>1. calls' = [calls EXCEPT ![c].state = "pausing", ![c].tries = Tried(c)]
          BY <2>2
        <4>2. calls' = [calls EXCEPT ![c] =
                          [[calls[c] EXCEPT !.state = "pausing"] EXCEPT !.tries = Tried(c)]]
          BY <4>1, StateAndTries, Zenon
        <4>3. [[calls[c] EXCEPT !.state = "pausing"] EXCEPT !.tries = Tried(c)] = e
          <5> DEFINE st == calls[c].state  t == calls[c].tries  ds == calls[c].docs
          <5>1. calls[c] = [state |-> st, tries |-> t, docs |-> ds]
            BY <1>4
          <5> HIDE DEF st, t, ds
          <5>2. [[state |-> st, tries |-> t, docs |-> ds] EXCEPT !.state = "pausing"] =
                   [state |-> "pausing", tries |-> t, docs |-> ds]
            OBVIOUS
          <5>3. [[state |-> "pausing", tries |-> t, docs |-> ds] EXCEPT !.tries = Tried(c)] =
                   [state |-> "pausing", tries |-> Tried(c), docs |-> ds]
            OBVIOUS
          <5>4. [calls[c] EXCEPT !.state = "pausing"] = [state |-> "pausing", tries |-> t, docs |-> ds]
            BY <5>1, <5>2, Zenon
          <5>5. [[calls[c] EXCEPT !.state = "pausing"] EXCEPT !.tries = Tried(c)] =
                   [state |-> "pausing", tries |-> Tried(c), docs |-> ds]
            BY <5>3, <5>4, Zenon
          <5> QED BY <5>5 DEF st, t, ds
        <4> QED BY <4>2, <4>3, Zenon
      <3>2. Tried(c) \in 0..(Attempts - 1)
        BY <1>2, <2>2 DEF Tried, AttemptsLeft
      <3>3. e \in CallRecs
        BY <1>2, <1>3, <3>2
      <3> QED BY <1>5, <3>1, <3>3
    <2> QED BY <1>7, <2>1, <2>2 DEF SearchRaises
  <1>8. CASE SearchAgain(c)
    <2> DEFINE e == [state |-> "asking", tries |-> calls[c].tries, docs |-> calls[c].docs]
    <2>1. [calls[c] EXCEPT !.state = "asking"] = e
      BY <1>4
    <2>2. calls' = [calls EXCEPT ![c] = e]
      BY <1>8, <2>1 DEF SearchAgain
    <2> QED BY <1>2, <1>3, <1>5, <2>2
  <1> QED BY <1>6, <1>7, <1>8 DEF Search

LEMMA LastOf ==
    ASSUME NEW S, NEW s \in Seq(S), NEW n \in Nat, DOMAIN s = 1..(n + 1)
    PROVE  Len(s) = n + 1 /\ Last(s) = s[n + 1] /\ s[n + 1] \in S
PROOF
  <1>1. Len(s) = n + 1
    OBVIOUS
  <1> QED BY <1>1 DEF Last

LEMMA DocsFound ==
    ASSUME NEW r \in CallRecs
    PROVE  r.docs \in Seq(Found)
PROOF
  <1>1. r.docs \in Seq(Documents) /\ Documents \subseteq Found
    BY DEF CallRecs, Found
  <1> QED BY <1>1

LEMMA AnswersAre ==
    ASSUME calls \in Seq(CallRecs), NEW n \in Nat, n <= Len(calls)
    PROVE  LET answers == [c \in 1..n |-> calls[c].docs]
           IN  /\ FlattenSeq(answers) \in Seq(Found)
               /\ Range(FlattenSeq(answers)) = UNION {Range(calls[c].docs) : c \in 1..n}
PROOF
  <1> DEFINE answers == [c \in 1..n |-> calls[c].docs]
  <1>1. ASSUME NEW c \in 1..n
        PROVE  calls[c].docs \in Seq(Found)
    <2>1. calls[c] \in CallRecs
      OBVIOUS
    <2> QED BY <2>1, DocsFound
  <1>2. answers \in Seq(Seq(Found)) /\ DOMAIN answers = 1..n
    <2>1. answers \in [1..n -> Seq(Found)]
      BY <1>1
    <2> QED BY <2>1
  <1>3. \A c \in 1..n : answers[c] = calls[c].docs
    OBVIOUS
  <1> HIDE DEF answers
  <1>4. /\ FlattenSeq(answers) \in Seq(Found)
        /\ Range(FlattenSeq(answers)) = UNION {Range(answers[c]) : c \in 1..n}
    BY <1>2, FlattenIs
  <1>5. {Range(answers[c]) : c \in 1..n} = {Range(calls[c].docs) : c \in 1..n}
    BY <1>3
  <1> QED BY <1>4, <1>5 DEF answers

LEMMA DeduplicateFits ==
    ASSUME NEW items \in Seq(Found), NEW limit \in Nat
    PROVE  /\ Deduplicate(items, limit) \in Seq(Found)
           /\ Len(Deduplicate(items, limit)) \in 0..limit
PROOF
  <1>1. /\ Deduplicate(items, limit) \in Seq(Found)
        /\ BestOf(Deduplicate(items, limit), Range(items), limit)
    BY DeduplicateIs
  <1>2. Len(Deduplicate(items, limit)) <= limit
    BY <1>1 DEF BestOf
  <1> QED BY <1>1, <1>2

LEMMA FactsAre ==
    ASSUME NEW docs \in Seq(Found), NEW ids
    PROVE  Evidence(docs, ids) \subseteq Facts
PROOF
  <1> SUFFICES ASSUME NEW i \in DOMAIN docs
               PROVE  [source_id |-> i, page |-> docs[i].url.page] \in Facts
    BY DEF Evidence
  <1>1. docs[i] \in Found /\ i \in Nat
    OBVIOUS
  <1>2. docs[i].url.page \in Pages
    BY <1>1, FoundAre
  <1> QED BY <1>1, <1>2 DEF Facts

-----------------------------------------------------------------------------
LEMMA Typed ==
    ASSUME TypeInv
    PROVE  /\ mode \in Modes /\ pc \in Places /\ plan \in Nat /\ again \in BOOLEAN
           /\ plan \in 0..QueryCount[mode]
           /\ SourceLimit[mode] \in Nat /\ QueryCount[mode] \in Nat
           /\ calls \in Seq(CallRecs) /\ Len(calls) <= Room
           /\ sources \in Seq(Found) /\ draft \in Seq(Found)
           /\ evidence \subseteq Facts /\ report \subseteq Facts
PROOF
  <1>1. /\ mode \in Modes /\ pc \in Places /\ plan \in 0..QueryCount[mode]
        /\ again \in BOOLEAN /\ calls \in Seq(CallRecs) /\ Len(calls) <= Room
        /\ sources \in Seq(Found) /\ draft \in Seq(Found)
        /\ evidence \subseteq Facts /\ report \subseteq Facts
    BY DEF TypeInv, GraphTyped, CallsTyped, SourcesTyped
  <1>2. SourceLimit[mode] \in Nat /\ QueryCount[mode] \in Nat
    BY <1>1, Limits
  <1> QED BY <1>1, <1>2

LEMMA GraphTypedStep ==
    ASSUME TypeInv, [Next]_vars
    PROVE  GraphTyped'
PROOF
  <1>1. /\ mode \in Modes /\ pc \in Places /\ plan \in 0..QueryCount[mode]
        /\ again \in BOOLEAN
        /\ QueryCount[mode] \in Nat /\ QueryCount[mode] >= 1
    BY Limits DEF TypeInv, GraphTyped
  <1>2. CASE PlanNode
    <2>1. PICK n \in 1..MaxSubqueries : plan' = Min({n, QueryCount[mode]})
      BY <1>2 DEF PlanNode
    <2>2. n \in Nat
      BY <2>1, GraphAssumption
    <2>3. plan' \in 0..QueryCount[mode]
      BY <1>1, <2>1, <2>2, MinIs
    <2>4. UNCHANGED <<mode, again>> /\ pc' \in Places
      BY <1>2 DEF PlanNode, Places
    <2> QED BY <1>1, <2>3, <2>4 DEF GraphTyped
  <1>3. CASE ReviewNode
    <2>1. UNCHANGED <<mode, again>> /\ pc' \in Places /\ plan' \in 1..QueryCount[mode]
      BY <1>3 DEF ReviewNode, Places
    <2> QED BY <1>1, <2>1 DEF GraphTyped
  <1>4. CASE \/ SearchNode \/ SearchNodeEnds \/ SearchFails \/ ExtractNode
             \/ ExtractAgain \/ GapNode \/ GapSearchEnds \/ GapNodeEnds \/ WriteNode
             \/ VerifyNode \/ ModelFails \/ Persist \/ Stop
    <2>1. UNCHANGED <<mode, plan>> /\ pc' \in Places /\ again' \in BOOLEAN
      BY <1>1, <1>4 DEF Places, Committed, Ended, graphState, SearchNode, SearchNodeEnds,
         SearchFails, ExtractNode, ExtractAgain, GapNode, GapSearchEnds, GapNodeEnds,
         WriteNode, VerifyNode, ModelFails, Persist, Stop
    <2> QED BY <1>1, <2>1 DEF GraphTyped
  <1>5. ASSUME NEW c \in DOMAIN calls, Search(c)
        PROVE  GraphTyped'
    BY <1>1, <1>5 DEF Search, SearchAnswers, SearchRaises, SearchAgain, GraphTyped
  <1>6. CASE UNCHANGED vars
    BY <1>1, <1>6 DEF vars, GraphTyped
  <1> QED BY <1>2, <1>3, <1>4, <1>5, <1>6 DEF Next, Node

LEMMA CallsTypedStep ==
    ASSUME TypeInv, CallsInv, [Next]_vars
    PROVE  CallsTyped'
PROOF
  <1>1. /\ mode \in Modes /\ plan \in Nat /\ Room \in Nat /\ plan <= Room
        /\ calls \in Seq(CallRecs) /\ Len(calls) <= Room
    BY Limits DEF TypeInv, GraphTyped, CallsTyped, Room
  <1>2. NewCall \in CallRecs
    BY Limits, <1>1 DEF NewCall, CallRecs
  <1>3. CASE PlanNode \/ ReviewNode
    <2>1. calls = <<>> /\ calls' = calls
      BY <1>3 DEF PlanNode, ReviewNode, At, TypeInv, Phases
    <2>2. plan' \in Nat /\ mode' \in Modes
      <3>1. mode' \in Modes /\ plan' \in 0..QueryCount[mode']
        BY GraphTypedStep DEF GraphTyped
      <3>2. QueryCount[mode'] \in Nat
        BY <3>1, Limits
      <3> QED BY <3>1, <3>2
    <2>3. 0 <= Room'
      <3>1. \A p \in Nat : \A m : 0 <= p + (IF m = "deep" THEN 1 ELSE 0)
        OBVIOUS
      <3>2. Room' = plan' + (IF mode' = "deep" THEN 1 ELSE 0)
        BY DEF Room
      <3> QED BY <2>2, <3>1, <3>2
    <2>4. Len(<<>>) = 0 /\ <<>> \in Seq(CallRecs)
      OBVIOUS
    <2> QED BY <2>1, <2>3, <2>4 DEF CallsTyped
  <1>4. CASE SearchNode
    <2>1. calls' = [c \in 1..plan |-> NewCall] /\ Room' = Room
      BY <1>4 DEF SearchNode, Room
    <2>2. calls' \in Seq(CallRecs) /\ Len(calls') = plan
      BY <1>1, <1>2, <2>1
    <2> QED BY <1>1, <2>1, <2>2 DEF CallsTyped
  <1>5. CASE GapNode
    <2>1. Room' = Room /\ At("gap") /\ (calls' = calls \/ calls' = Append(calls, NewCall))
      BY <1>5 DEF GapNode, Room
    <2>2. DOMAIN calls = 1..plan /\ mode = "deep"
      BY <2>1 DEF CallsInv, Counted, Calls, At, TypeInv, Phases
    <2>3. Len(calls) = plan /\ Room = plan + 1
      BY <1>1, <2>2 DEF Room
    <2> QED BY <1>1, <1>2, <2>1, <2>3 DEF CallsTyped
  <1>6. CASE Stop
    <2>1. /\ Room' = Room
          /\ calls' = [c \in DOMAIN calls |->
                         IF Live(c) THEN [calls[c] EXCEPT !.state = "dropped"] ELSE calls[c]]
      BY <1>6 DEF Stop, Room
    <2>2. ASSUME NEW r \in CallRecs
          PROVE  [r EXCEPT !.state = "dropped"] \in CallRecs
      BY DEF CallRecs
    <2>3. \A c \in DOMAIN calls : calls[c] \in CallRecs
      BY <1>1
    <2>4. DOMAIN calls = 1..Len(calls) /\ Len(calls) \in Nat
      BY <1>1
    <2>5. calls' \in [1..Len(calls) -> CallRecs]
      BY <2>1, <2>2, <2>3, <2>4
    <2>6. calls' \in Seq(CallRecs) /\ Len(calls') = Len(calls)
      BY <2>4, <2>5
    <2> QED BY <1>1, <2>1, <2>6 DEF CallsTyped
  <1>7. ASSUME NEW c \in DOMAIN calls, Search(c)
        PROVE  CallsTyped'
    <2>1. PICK e \in CallRecs : calls' = [calls EXCEPT ![c] = e]
      BY <1>1, <1>7, OneCall
    <2>2. Room' = Room
      BY <1>1, <1>7, OneCall DEF Room
    <2>3. calls' \in Seq(CallRecs) /\ Len(calls') = Len(calls)
      BY <1>1, <2>1, CallWith
    <2> QED BY <1>1, <2>2, <2>3 DEF CallsTyped
  <1>8. CASE \/ SearchNodeEnds \/ SearchFails \/ ExtractNode \/ ExtractAgain
             \/ GapSearchEnds \/ GapNodeEnds \/ WriteNode \/ VerifyNode \/ ModelFails
             \/ Persist \/ UNCHANGED vars
    <2>1. UNCHANGED <<mode, plan, calls>>
      BY <1>8 DEF SearchNodeEnds, SearchFails, ExtractNode, ExtractAgain, GapSearchEnds,
         GapNodeEnds, WriteNode, VerifyNode, ModelFails, Persist, vars
    <2> QED BY <1>1, <2>1 DEF CallsTyped, Room
  <1> QED BY <1>3, <1>4, <1>5, <1>6, <1>7, <1>8 DEF Next, Node

(* What the search for gaps adds to: the sources and its own answer.       *)
LEMMA GapItemsAre ==
    ASSUME TypeInv, CallsInv, At("gap searching") 
    PROVE  /\ Last(calls) = calls[plan + 1] /\ plan \in Nat
           /\ Len(calls) = plan + 1 /\ DOMAIN calls = 1..(plan + 1)
           /\ calls[plan + 1].docs \in Seq(Found)
           /\ sources \o Last(calls).docs \in Seq(Found)
           /\ Range(sources \o Last(calls).docs) =
                 Range(sources) \cup Range(calls[plan + 1].docs)
PROOF
  <1>1. DOMAIN calls = 1..(plan + 1)
    BY DEF CallsInv, Calls, At
  <1>2. /\ calls \in Seq(CallRecs) /\ sources \in Seq(Found) /\ plan \in Nat
        /\ DOMAIN calls = 1..(plan + 1)
    BY <1>1, Typed
  <1>3. /\ Len(calls) = plan + 1 /\ Last(calls) = calls[plan + 1]
        /\ calls[plan + 1] \in CallRecs
    BY <1>2, LastOf
  <1>4. calls[plan + 1].docs \in Seq(Found)
    BY <1>3, DocsFound
  <1> DEFINE new == calls[plan + 1].docs
  <1> HIDE DEF new
  <1>5. new \in Seq(Found)
    BY <1>4 DEF new
  <1>6. sources \o new \in Seq(Found) /\ Range(sources \o new) = Range(sources) \cup Range(new)
    BY <1>2, <1>5, RangeConcatenation, ConcatProperties
  <1> QED BY <1>2, <1>3, <1>4, <1>6 DEF new

LEMMA PhasesStep ==
    ASSUME TypeInv, CallsInv, [Next]_vars
    PROVE  Phases'
PROOF
  <1>1. /\ mode \in Modes /\ calls \in Seq(CallRecs) /\ draft \in Seq(Found)
        /\ sources \in Seq(Found) /\ Phases /\ SourceLimit[mode] \in Nat
    BY Typed DEF TypeInv
  <1> USE DEF Phases, At
  <1>2. CASE PlanNode \/ ReviewNode \/ SearchNode \/ GapNode \/ Stop
    <2>1. UNCHANGED <<mode, draft>>
      BY <1>2 DEF PlanNode, ReviewNode, SearchNode, GapNode, Stop
    <2>2. /\ pc' \in {"plan", "review", "search"} => calls' = <<>>
          /\ pc' \in {"gap", "gap searching", "gap extract", "verify"} => mode' = "deep"
      BY <1>1, <1>2, <2>1 DEF PlanNode, ReviewNode, SearchNode, GapNode, Stop
    <2> QED BY <1>1, <2>1, <2>2
  <1>3. CASE GapNodeEnds
    <2>1. UNCHANGED <<mode, calls>> /\ draft' = <<>> /\ pc' = "write" /\ Len(<<>>) = 0
      BY <1>3 DEF GapNodeEnds
    <2>2. Len(draft') <= SourceLimit[mode']
      <3>1. \A n \in Nat : Len(<<>>) <= n
        OBVIOUS
      <3>2. SourceLimit[mode'] \in Nat
        BY <1>1, <2>1
      <3> QED BY <2>1, <3>1, <3>2
    <2> QED BY <2>1, <2>2
  <1>4. CASE GapSearchEnds
    <2>1. /\ UNCHANGED <<mode, calls>> /\ mode = "deep" /\ pc' = "gap extract"
          /\ draft' = Deduplicate(sources \o Last(calls).docs, SourceLimit["deep"])
      BY <1>1, <1>4 DEF GapSearchEnds
    <2>2. sources \o Last(calls).docs \in Seq(Found)
      BY <1>1, <1>4, GapItemsAre DEF GapSearchEnds
    <2>3. Len(draft') <= SourceLimit[mode]
      <3>1. SourceLimit["deep"] \in Nat /\ SourceLimit["deep"] = SourceLimit[mode]
        BY <1>1, <2>1
      <3>2. Len(draft') \in 0..SourceLimit["deep"]
        BY <2>1, <2>2, <3>1, DeduplicateFits
      <3>3. \A n \in Nat : \A k \in 0..n : k <= n
        OBVIOUS
      <3> QED BY <3>1, <3>2, <3>3
    <2> QED BY <2>1, <2>3
  <1>5. CASE \/ SearchNodeEnds \/ SearchFails \/ ExtractNode \/ ExtractAgain
             \/ WriteNode \/ VerifyNode \/ ModelFails
             \/ Persist \/ UNCHANGED vars
    <2>1. UNCHANGED <<mode, draft, calls>>
      BY <1>5 DEF SearchNodeEnds, SearchFails, ExtractNode, ExtractAgain,
         WriteNode, VerifyNode, ModelFails, Persist, vars
    <2>2. \/ pc' \notin {"plan", "review", "search", "gap", "gap searching",
                         "gap extract", "verify"}
          \/ pc' = pc
          \/ pc' = "gap" /\ mode = "deep"
          \/ pc' = "verify" /\ mode = "deep"
      BY <1>5 DEF SearchNodeEnds, SearchFails, ExtractNode, ExtractAgain,
         WriteNode, VerifyNode, ModelFails, Persist, vars
    <2> QED BY <1>1, <2>1, <2>2
  <1>6. ASSUME NEW c \in DOMAIN calls, Search(c)
        PROVE  Phases'
    <2>1. UNCHANGED <<mode, pc, draft>>
      BY <1>1, <1>6, OneCall
    <2>2. pc \notin {"plan", "review", "search"}
      <3>1. DOMAIN <<>> = {}
        OBVIOUS
      <3>2. calls # <<>>
        BY <3>1
      <3> QED BY <1>1, <3>2
    <2> QED BY <1>1, <2>1, <2>2
  <1> QED BY <1>2, <1>3, <1>4, <1>5, <1>6 DEF Next, Node

(* The metrics a node writes.                                              *)
LEMMA MetricsFit ==
    ASSUME NEW n \in 0..MaxCalls, NEW k \in 0..SourceLimit[mode]
    PROVE  [search_calls |-> n, source_count |-> k] \in
              [search_calls : 0..MaxCalls, source_count : 0..SourceLimit[mode]]
  OBVIOUS

LEMMA SearchNodeTyped ==
    ASSUME TypeInv, CallsInv, SearchNodeEnds
    PROVE  SourcesTyped'
PROOF
  <1> DEFINE answers == [c \in 1..plan |-> calls[c].docs]
             items == FlattenSeq(answers)
  <1>1. /\ plan \in Nat /\ mode \in Modes /\ SourceLimit[mode] \in Nat
        /\ calls \in Seq(CallRecs) /\ draft \in Seq(Found)
        /\ evidence \subseteq Facts /\ report \subseteq Facts
        /\ plan \in 0..QueryCount[mode]
    BY Typed
  <1>2. DOMAIN calls = 1..plan
    BY DEF SearchNodeEnds, CallsInv, Calls, At
  <1>3. plan <= Len(calls)
    BY <1>1, <1>2
  <1>4. items \in Seq(Found)
    BY <1>1, <1>3, AnswersAre
  <1>5. /\ sources' = Deduplicate(items, SourceLimit[mode])
        /\ metrics' = [search_calls |-> plan, source_count |-> Len(sources')]
        /\ UNCHANGED <<mode, draft, evidence, report>>
    BY DEF SearchNodeEnds
  <1> HIDE DEF items
  <1>6. sources' \in Seq(Found) /\ Len(sources') \in 0..SourceLimit[mode]
    BY <1>1, <1>4, <1>5, DeduplicateFits
  <1>7. plan \in 0..MaxCalls
    BY <1>1, Limits
  <1>8. metrics' \in [search_calls : 0..MaxCalls, source_count : 0..SourceLimit[mode]]
    BY <1>5, <1>6, <1>7, MetricsFit
  <1> QED BY <1>1, <1>5, <1>6, <1>8 DEF SourcesTyped

LEMMA GapNodeTyped ==
    ASSUME TypeInv, CallsInv, GapNodeEnds
    PROVE  SourcesTyped'
PROOF
  <1>1. /\ plan \in Nat /\ mode \in Modes /\ SourceLimit[mode] \in Nat
        /\ draft \in Seq(Found) /\ report \subseteq Facts
        /\ plan \in 0..QueryCount[mode]
    BY Typed
  <1>2. /\ UNCHANGED <<mode, report>> /\ sources' = draft /\ draft' = <<>>
        /\ metrics' = [search_calls |-> GapCalls, source_count |-> Len(draft)]
    BY DEF GapNodeEnds
  <1>3. PICK ids \in Claims(draft) : evidence' = Evidence(draft, ids)
    BY DEF GapNodeEnds, GapEvidence
  <1>4. evidence' \subseteq Facts
    BY <1>1, <1>3, FactsAre
  <1>5. GapCalls = plan + 1
    BY DEF GapNodeEnds, CallsInv, At, GapCalls
  <1>6. GapCalls \in 0..MaxCalls
    BY <1>1, <1>5, Limits
  <1>7. Len(draft) \in 0..SourceLimit[mode]
    <2>1. Len(draft) <= SourceLimit[mode]
      BY DEF TypeInv, Phases
    <2>2. Len(draft) \in Nat
      BY <1>1
    <2> QED BY <1>1, <2>1, <2>2
  <1>8. metrics' \in [search_calls : 0..MaxCalls, source_count : 0..SourceLimit[mode]]
    BY <1>2, <1>6, <1>7, MetricsFit
  <1>9. <<>> \in Seq(Found)
    OBVIOUS
  <1> QED BY <1>1, <1>2, <1>4, <1>8, <1>9 DEF SourcesTyped

LEMMA SourcesTypedStep ==
    ASSUME TypeInv, CallsInv, [Next]_vars
    PROVE  SourcesTyped'
PROOF
  <1>1. /\ mode \in Modes /\ SourceLimit[mode] \in Nat
        /\ sources \in Seq(Found) /\ draft \in Seq(Found)
        /\ evidence \subseteq Facts /\ report \subseteq Facts
        /\ metrics \in [search_calls : 0..MaxCalls, source_count : 0..SourceLimit[mode]]
    BY Typed DEF TypeInv, SourcesTyped
  <1>2. CASE ExtractNode
    <2>1. PICK ids \in Claims(sources) : evidence' = Evidence(sources, ids)
      BY <1>2 DEF ExtractNode
    <2>2. evidence' \subseteq Facts
      BY <1>1, <2>1, FactsAre
    <2>3. UNCHANGED <<mode, sources, report, metrics, draft>>
      BY <1>2 DEF ExtractNode
    <2> QED BY <1>1, <2>2, <2>3 DEF SourcesTyped
  <1>3. CASE GapSearchEnds
    <2>1. /\ UNCHANGED <<mode, sources, evidence, report, metrics>> /\ mode = "deep"
          /\ draft' = Deduplicate(sources \o Last(calls).docs, SourceLimit["deep"])
      BY <1>3 DEF GapSearchEnds, TypeInv, Phases, At, graphState
    <2>2. sources \o Last(calls).docs \in Seq(Found)
      BY <1>3, GapItemsAre DEF GapSearchEnds
    <2>3. SourceLimit["deep"] \in Nat
      BY <1>1, <2>1
    <2>4. draft' \in Seq(Found)
      BY <2>1, <2>2, <2>3, DeduplicateFits
    <2> QED BY <1>1, <2>1, <2>4 DEF SourcesTyped
  <1>4. CASE WriteNode \/ VerifyNode
    <2>1. UNCHANGED <<mode, sources, evidence, metrics, draft>> /\ report' \subseteq Facts
      BY <1>1, <1>4 DEF WriteNode, VerifyNode
    <2> QED BY <1>1, <2>1 DEF SourcesTyped
  <1>5. CASE \/ PlanNode \/ ReviewNode \/ SearchNode \/ SearchFails \/ ExtractAgain
             \/ GapNode \/ ModelFails \/ Persist \/ Stop \/ UNCHANGED vars
    <2>1. UNCHANGED <<mode, sources, evidence, report, metrics, draft>>
      BY <1>5 DEF PlanNode, ReviewNode, SearchNode, SearchFails, ExtractAgain, GapNode,
         ModelFails, Persist, Stop, vars, graphState
    <2> QED BY <1>1, <2>1 DEF SourcesTyped
  <1>6. ASSUME NEW c \in DOMAIN calls, Search(c)
        PROVE  SourcesTyped'
    <2>1. UNCHANGED <<mode, sources, evidence, report, metrics, draft>>
      BY <1>6, Typed, OneCall DEF graphState
    <2> QED BY <1>1, <2>1 DEF SourcesTyped
  <1> QED BY <1>2, <1>3, <1>4, <1>5, <1>6, SearchNodeTyped, GapNodeTyped DEF Next, Node

LEMMA TypeStep == TypeInv /\ CallsInv /\ [Next]_vars => TypeInv'
  BY GraphTypedStep, CallsTypedStep, SourcesTypedStep, PhasesStep DEF TypeInv

(* Every state of the graph has the shape of its schema (ResearchState in  *)
(* agent/types.py), asks no more than its mode allows and counts no more   *)
(* sources than it may keep.                                               *)
THEOREM GraphTypes == Spec => []TypeOK
PROOF
  <1>1. Spec => [](TypeInv /\ CallsInv)
    BY TypeInit, TypeStep, CallsInit, CallsStep, PTL DEF Spec
  <1> QED BY <1>1, TypeInvIs, PTL

-----------------------------------------------------------------------------
AllDocs == UNION {Range(calls[c].docs) : c \in DOMAIN calls}

(* The sources are the best of the answers they were ranked from: all that *)
(* there are, except while the search for gaps is made.                    *)
BestInv ==
    /\ SourcesAreBest
    /\ At("gap searching") =>
          /\ \A c \in 1..plan : calls[c].state = "found"
          /\ BestOf(sources, UNION {Range(calls[c].docs) : c \in 1..plan}, SourceLimit[mode])
    /\ At("gap extract") => BestOf(draft, AllDocs, SourceLimit[mode])

LEMMA BestInit == Init => BestInv
  BY DEF Init, BestInv, SourcesAreBest, Committed, At

LEMMA SearchNodeBest ==
    ASSUME TypeInv, CallsInv, SearchNodeEnds
    PROVE  BestInv'
PROOF
  <1> DEFINE answers == [c \in 1..plan |-> calls[c].docs]
             items == FlattenSeq(answers)
             all == UNION {Range(calls[c].docs) : c \in 1..plan}
  <1>1. plan \in Nat /\ SourceLimit[mode] \in Nat /\ calls \in Seq(CallRecs)
    BY Typed
  <1>2. DOMAIN calls = 1..plan
    BY DEF SearchNodeEnds, CallsInv, Calls, At
  <1>3. plan <= Len(calls)
    BY <1>1, <1>2
  <1>4. items \in Seq(Found) /\ Range(items) = all
    BY <1>1, <1>3, AnswersAre
  <1>5. /\ sources' = Deduplicate(items, SourceLimit[mode])
        /\ UNCHANGED <<mode, calls>> /\ pc' = "extract"
    BY DEF SearchNodeEnds
  <1> HIDE DEF items, all
  <1>6. BestOf(sources', all, SourceLimit[mode])
    BY <1>1, <1>4, <1>5, DeduplicateIs
  <1>7. all = AllDocs'
    BY <1>2, <1>5 DEF all, AllDocs
  <1>8. BestOf(sources', AllDocs', SourceLimit[mode'])
    BY <1>5, <1>6, <1>7
  <1> QED BY <1>5, <1>8 DEF BestInv, SourcesAreBest, At, AllDocs

LEMMA AppendKeeps ==
    ASSUME NEW S, NEW s \in Seq(S), NEW n, Len(s) = n, NEW e
    PROVE  \A c \in 1..n : Append(s, e)[c] = s[c]
  OBVIOUS

(* The search for gaps: the answers of the plan are found, and one more is *)
(* asked for.                                                              *)
LEMMA GapNodeBest ==
    ASSUME TypeInv, CallsInv, BestInv, GapNode
    PROVE  BestInv'
PROOF
  <1>1. /\ plan \in Nat /\ calls \in Seq(CallRecs)
        /\ UNCHANGED <<mode, plan, sources, draft>> /\ At("gap")
    BY Typed DEF GapNode, graphState
  <1>2. DOMAIN calls = 1..plan /\ \A c \in 1..plan : calls[c].state = "found"
    BY <1>1 DEF CallsInv, Counted, Calls, AllFound, At
  <1>3. BestOf(sources, AllDocs, SourceLimit[mode])
    BY <1>1 DEF BestInv, SourcesAreBest, Committed, At, AllDocs
  <1>4. CASE pc' = "write" /\ UNCHANGED calls
    <2>1. AllDocs' = AllDocs
      BY <1>4 DEF AllDocs
    <2> QED BY <1>1, <1>3, <1>4, <2>1 DEF BestInv, SourcesAreBest, At, AllDocs
  <1>5. CASE pc' = "gap searching" /\ calls' = Append(calls, NewCall)
    <2>1. Len(calls) = plan
      BY <1>1, <1>2
    <2>2. \A c \in 1..plan : calls'[c] = calls[c]
      BY <1>1, <1>5, <2>1, AppendKeeps
    <2>3. {Range(calls'[c].docs) : c \in 1..plan} = {Range(calls[c].docs) : c \in 1..plan}
      BY <2>2
    <2>4. BestOf(sources, UNION {Range(calls'[c].docs) : c \in 1..plan}, SourceLimit[mode])
      BY <1>2, <1>3, <2>3 DEF AllDocs
    <2>5. \A c \in 1..plan : calls'[c].state = "found"
      BY <1>2, <2>2
    <2> QED BY <1>1, <1>5, <2>4, <2>5 DEF BestInv, SourcesAreBest, Committed, Ended, At
  <1> QED BY <1>4, <1>5 DEF GapNode

LEMMA GapSearchBest ==
    ASSUME TypeInv, CallsInv, BestInv, GapSearchEnds
    PROVE  BestInv'
PROOF
  <1> DEFINE new == calls[plan + 1].docs
             items == sources \o Last(calls).docs
             F == UNION {Range(calls[c].docs) : c \in 1..plan}
             G == Range(new)
  <1>1. /\ UNCHANGED <<mode, calls>> /\ mode = "deep" /\ pc' = "gap extract"
        /\ draft' = Deduplicate(items, SourceLimit["deep"]) /\ At("gap searching")
    BY DEF GapSearchEnds, TypeInv, Phases, At
  <1>2. /\ plan \in Nat /\ calls \in Seq(CallRecs) /\ sources \in Seq(Found)
        /\ SourceLimit[mode] \in Nat
    BY Typed
  <1>3. /\ Len(calls) = plan + 1 /\ DOMAIN calls = 1..(plan + 1)
        /\ new \in Seq(Found) /\ items \in Seq(Found)
        /\ Range(items) = Range(sources) \cup G
    BY <1>1, GapItemsAre
  <1>4. BestOf(sources, F, SourceLimit[mode])
    BY <1>1 DEF BestInv
  <1>5. F \in SUBSET Found /\ G \in SUBSET Found
    <2>1. \A c \in 1..(plan + 1) : calls[c].docs \in Seq(Found)
      BY <1>2, <1>3, DocsFound
    <2>2. \A s \in Seq(Found) : Range(s) \in SUBSET Found
      BY DEF Range
    <2>3. \A c \in 1..(plan + 1) : Range(calls[c].docs) \in SUBSET Found
      BY <2>1, <2>2
    <2>4. \A c \in 1..plan : c \in 1..(plan + 1)
      BY <1>2
    <2> QED BY <1>3, <2>2, <2>3, <2>4
  <1>6. SourceLimit["deep"] = SourceLimit[mode]
    BY <1>1
  <1> HIDE DEF items, new, F, G
  <1>7. BestOf(draft', Range(sources) \cup G, SourceLimit[mode]) /\ draft' \in Seq(Found)
    BY <1>1, <1>2, <1>3, <1>6, DeduplicateIs
  <1>8. BestOf(draft', F \cup G, SourceLimit[mode])
    BY <1>2, <1>4, <1>5, <1>7, BestMerged
  <1>9. F \cup G = AllDocs'
    <2>1. 1..(plan + 1) = (1..plan) \cup {plan + 1}
      BY <1>2
    <2>2. UNION {Range(calls[c].docs) : c \in 1..(plan + 1)} = F \cup G
      BY <2>1 DEF F, G, new
    <2> QED BY <1>1, <1>3, <2>2 DEF AllDocs
  <1>10. BestOf(draft', AllDocs', SourceLimit[mode'])
    BY <1>1, <1>8, <1>9
  <1> QED BY <1>1, <1>10 DEF BestInv, SourcesAreBest, Committed, Ended, At

LEMMA BestStep == TypeInv /\ CallsInv /\ BestInv /\ [Next]_vars => BestInv'
PROOF
  <1> SUFFICES ASSUME TypeInv, CallsInv, BestInv, [Next]_vars PROVE BestInv'
    OBVIOUS
  <1>1. CASE GapNodeEnds
    <2>1. /\ sources' = draft /\ pc' = "write" /\ UNCHANGED <<mode, calls>>
          /\ BestOf(draft, AllDocs, SourceLimit[mode])
      BY <1>1 DEF GapNodeEnds, BestInv, At
    <2>2. BestOf(sources', AllDocs', SourceLimit[mode'])
      BY <2>1 DEF AllDocs
    <2> QED BY <2>1, <2>2 DEF BestInv, SourcesAreBest, Committed, Ended, At, AllDocs
  <1>2. CASE PlanNode \/ ReviewNode \/ SearchNode \/ SearchFails \/ ModelFails \/ Stop
    <2>1. pc' \notin Committed \cup {"gap searching", "gap extract"}
      BY <1>2 DEF PlanNode, ReviewNode, SearchNode, SearchFails, ModelFails, Stop, Committed
    <2> QED BY <2>1 DEF BestInv, SourcesAreBest, At
  <1>3. CASE ExtractNode \/ WriteNode \/ VerifyNode \/ Persist
    <2>1. /\ pc \in Committed /\ pc' \in Committed
          /\ UNCHANGED <<mode, sources, calls>>
      BY <1>3 DEF ExtractNode, WriteNode, VerifyNode, Persist, Committed, At, graphState
    <2>2. BestOf(sources, AllDocs, SourceLimit[mode])
      BY <2>1 DEF BestInv, SourcesAreBest, AllDocs
    <2>3. AllDocs' = AllDocs
      BY <2>1 DEF AllDocs
    <2>4. BestOf(sources', AllDocs', SourceLimit[mode'])
      BY <2>1, <2>2, <2>3
    <2> QED BY <2>1, <2>4 DEF BestInv, SourcesAreBest, Committed, At, AllDocs
  <1>4. CASE ExtractAgain \/ UNCHANGED vars
    <2>1. UNCHANGED <<mode, pc, plan, sources, draft, calls>>
      BY <1>4 DEF ExtractAgain, vars, graphState
    <2> QED BY <2>1 DEF BestInv, SourcesAreBest, At, AllDocs
  <1>5. ASSUME NEW c \in DOMAIN calls, Search(c)
        PROVE  BestInv'
    <2>1. PICK e \in CallRecs : calls' = [calls EXCEPT ![c] = e]
      BY <1>5, Typed, OneCall
    <2>2. UNCHANGED <<mode, pc, plan, sources, draft>> /\ calls[c].state # "found"
      BY <1>5, Typed, OneCall DEF graphState
    <2>3. pc \notin Committed \cup {"gap extract"}
      <3>1. ~AllFound
        BY <2>2 DEF AllFound
      <3>2. ~(\E n \in Nat : Counted(n)) /\ ~Counted(plan)
        BY <3>1 DEF Counted
      <3> QED BY <3>1, <3>2 DEF CallsInv, Committed, At
    <2>4. CASE At("gap searching")
      <3>1. /\ \A d \in 1..plan : calls[d].state = "found"
            /\ BestOf(sources, UNION {Range(calls[d].docs) : d \in 1..plan}, SourceLimit[mode])
        BY <2>4 DEF BestInv
      <3>2. \A d \in 1..plan : calls'[d] = calls[d]
        BY <2>1, <2>2, <3>1
      <3>3. /\ \A d \in 1..plan : calls'[d].state = "found"
            /\ {Range(calls'[d].docs) : d \in 1..plan} = {Range(calls[d].docs) : d \in 1..plan}
        BY <3>1, <3>2
      <3>4. BestOf(sources, UNION {Range(calls'[d].docs) : d \in 1..plan}, SourceLimit[mode])
        BY <3>1, <3>3
      <3> QED BY <2>2, <2>4, <3>3, <3>4 DEF BestInv, SourcesAreBest, Committed, Ended, At
    <2>5. CASE ~At("gap searching")
      BY <2>2, <2>3, <2>5 DEF BestInv, SourcesAreBest, At
    <2> QED BY <2>4, <2>5
  <1> QED BY <1>1, <1>2, <1>3, <1>4, <1>5, SearchNodeBest, GapNodeBest, GapSearchBest
          DEF Next, Node

(* Whatever the searches find, in whatever order they answer, and also     *)
(* after the gap search has ranked a list that was already cut, the state  *)
(* of the graph holds the best sources of all (_deduplicate, gap_node).    *)
THEOREM BestSources == Spec => []SourcesAreBest
PROOF
  <1>1. Spec => [](TypeInv /\ CallsInv /\ BestInv)
    BY TypeInit, TypeStep, CallsInit, CallsStep, BestInit, BestStep, PTL DEF Spec
  <1>2. BestInv => SourcesAreBest
    BY DEF BestInv
  <1> QED BY <1>1, <1>2, PTL

-----------------------------------------------------------------------------
(* The finished run is what Persist wrote: no two sources have one id.     *)
RowInv ==
    At("stored") =>
        /\ row.source_ids \in [DOMAIN sources -> SourceIds]
        /\ IsInjective(row.source_ids)
        /\ row.sources = {[id |-> row.source_ids[i], url |-> sources[i].url] :
                             i \in DOMAIN sources}
        /\ row.report = report
        /\ row.citation_count = Len(sources)

LEMMA RowInit == Init => RowInv
  BY DEF Init, RowInv, At

LEMMA RowStep == RowInv /\ [Next]_vars => RowInv'
PROOF
  <1> SUFFICES ASSUME RowInv, [Next]_vars PROVE RowInv'
    OBVIOUS
  <1>1. CASE Persist
    <2>1. PICK id \in [DOMAIN sources -> SourceIds] :
             /\ IsInjective(id)
             /\ row' = [ sources |-> {[id |-> id[i], url |-> sources[i].url] :
                                        i \in DOMAIN sources},
                         source_ids |-> id,
                         report |-> report,
                         citation_count |-> Len(sources) ]
      BY <1>1 DEF Persist
    <2>2. UNCHANGED <<sources, report>>
      BY <1>1 DEF Persist, graphState
    <2>3. /\ row'.source_ids = id /\ row'.report = report
          /\ row'.citation_count = Len(sources)
          /\ row'.sources = {[id |-> id[i], url |-> sources[i].url] : i \in DOMAIN sources}
      BY <2>1
    <2> QED BY <2>1, <2>2, <2>3 DEF RowInv
  <1>2. CASE ExtractAgain \/ UNCHANGED vars
    <2>1. UNCHANGED <<pc, sources, report, row>>
      BY <1>2 DEF ExtractAgain, vars, graphState
    <2> QED BY <2>1 DEF RowInv, At
  <1>3. ASSUME NEW c \in DOMAIN calls, Search(c)
        PROVE  RowInv'
    <2>1. UNCHANGED <<pc, sources, report, row>>
      BY <1>3 DEF Search, SearchAnswers, SearchRaises, SearchAgain, graphState
    <2> QED BY <2>1 DEF RowInv, At
  <1>4. CASE \/ PlanNode \/ ReviewNode \/ SearchNode \/ SearchNodeEnds \/ SearchFails
             \/ ExtractNode \/ GapNode \/ GapSearchEnds \/ GapNodeEnds \/ WriteNode
             \/ VerifyNode \/ ModelFails \/ Stop
    <2>1. pc' # "stored"
      BY <1>4 DEF PlanNode, ReviewNode, SearchNode, SearchNodeEnds, SearchFails,
         ExtractNode, GapNode, GapSearchEnds, GapNodeEnds, WriteNode, VerifyNode,
         ModelFails, Stop
    <2> QED BY <2>1 DEF RowInv, At
  <1> QED BY <1>1, <1>2, <1>3, <1>4 DEF Next, Node

(* The rows of the sources, read in the order of the report's ids, are the *)
(* sources in the order of the graph.                                      *)
LEMMA ShownAre ==
    ASSUME At("stored"), RowInv, sources \in Seq(Found)
    PROVE  /\ DOMAIN Shown = DOMAIN sources /\ Len(Shown) = Len(sources)
           /\ \A i \in DOMAIN sources : Shown[i].url = sources[i].url
PROOF
  <1> DEFINE n == Len(sources)
             ids == row.source_ids
             rec(i) == [id |-> ids[i], url |-> sources[i].url]
             S == row.sources
             cited == {s \in S : ids = <<>> \/ s.id \in Range(ids)}
             before(s, t) == \/ Position(s) < Position(t)
                             \/ Position(s) = Position(t) /\ s.id < t.id
             R == {p \in S \X S : before(p[1], p[2])}
             g == [i \in 1..n |-> rec(i)]
  <1>1. /\ n \in Nat /\ DOMAIN sources = 1..n
        /\ ids \in [1..n -> SourceIds] /\ IsInjective(ids)
        /\ S = {rec(i) : i \in 1..n}
    BY DEF RowInv
  <1>2. \A i, j \in 1..n : ids[i] = ids[j] => i = j
    BY <1>1 DEF IsInjective
  <1>3. \A i \in 1..n : ids[i] \in Nat
    BY <1>1, GraphAssumption
  <1>4. \A i \in 1..n : rec(i).id = ids[i] /\ rec(i).url = sources[i].url /\ rec(i) \in S
    BY <1>1
  <1>5. \A s \in S : \E i \in 1..n : s = rec(i)
    BY <1>1
  <1>6. \A i, j \in 1..n : rec(i) = rec(j) => i = j
    BY <1>2, <1>4
  <1>7. cited = S
    <2>1. \A i \in 1..n : ids[i] \in Range(ids)
      BY <1>1 DEF Range
    <2> HIDE DEF rec, S, ids
    <2> QED BY <1>4, <1>5, <2>1
  <1>8. \A i \in 1..n : Position(rec(i)) = i - 1
    <2> SUFFICES ASSUME NEW i \in 1..n
                 PROVE  Position(rec(i)) = i - 1
      OBVIOUS
    <2>1. i \in DOMAIN ids /\ ids[i] = rec(i).id
      BY <1>1, <1>4
    <2>2. \A k \in DOMAIN ids : ids[k] = rec(i).id => k = i
      BY <1>1, <1>2, <1>4
    <2> HIDE DEF rec
    <2>3. (CHOOSE k \in DOMAIN ids : ids[k] = rec(i).id) = i
      BY <2>1, <2>2
    <2> QED BY <2>1, <2>3 DEF Position
  <1> HIDE DEF rec, S, ids, n
  <1>9. \A i, j \in 1..n : <<rec(i), rec(j)>> \in R <=> i < j
    <2> SUFFICES ASSUME NEW i \in 1..n, NEW j \in 1..n
                 PROVE  <<rec(i), rec(j)>> \in R <=> i < j
      OBVIOUS
    <2>1. <<rec(i), rec(j)>> \in R <=> before(rec(i), rec(j))
      BY <1>4
    <2>2. before(rec(i), rec(j)) <=> \/ i - 1 < j - 1
                                     \/ i - 1 = j - 1 /\ ids[i] < ids[j]
      BY <1>4, <1>8
    <2>3. i \in Int /\ j \in Int /\ ids[i] \in Nat /\ ids[j] \in Nat
      BY <1>1, <1>3
    <2>4. i = j => ids[i] = ids[j]
      OBVIOUS
    <2> HIDE DEF R, before
    <2> QED BY <2>1, <2>2, <2>3, <2>4
  <1>10. Shown = Arranged(S, R)
    <2>1. Shown = Arranged(cited, {p \in cited \X cited : before(p[1], p[2])})
      BY DEF Shown, ids, S
    <2> QED BY <1>7, <2>1
  <1> HIDE DEF R, before, cited
  <1>11. Orders(R, S)
    <2>1. \A s \in S : <<s, s>> \notin R
      BY <1>1, <1>5, <1>9
    <2>2. \A s, t, u \in S : <<s, t>> \in R /\ <<t, u>> \in R => <<s, u>> \in R
      <3> SUFFICES ASSUME NEW s \in S, NEW t \in S, NEW u \in S,
                          <<s, t>> \in R, <<t, u>> \in R
                   PROVE  <<s, u>> \in R
        OBVIOUS
      <3>1. PICK i \in 1..n, j \in 1..n, k \in 1..n : s = rec(i) /\ t = rec(j) /\ u = rec(k)
        BY <1>5
      <3>2. i < j /\ j < k
        BY <1>9, <3>1
      <3>3. i < k
        BY <1>1, <3>2
      <3> QED BY <1>9, <3>1, <3>3
    <2>3. \A s, t \in S : s = t \/ <<s, t>> \in R \/ <<t, s>> \in R
      <3> SUFFICES ASSUME NEW s \in S, NEW t \in S, s # t
                   PROVE  <<s, t>> \in R \/ <<t, s>> \in R
        OBVIOUS
      <3>1. PICK i \in 1..n, j \in 1..n : s = rec(i) /\ t = rec(j)
        BY <1>5
      <3>2. i < j \/ j < i
        BY <1>1, <3>1
      <3> QED BY <1>9, <3>1, <3>2
    <2> QED BY <2>1, <2>2, <2>3 DEF Orders
  <1>12. IsFiniteSet(S) /\ Cardinality(S) = n
    <2>1. g \in Bijection(1..n, S)
      <3>1. g \in [1..n -> S]
        BY <1>4
      <3>2. \A i, j \in 1..n : g[i] = g[j] => i = j
        BY <1>6
      <3>3. \A s \in S : \E i \in 1..n : g[i] = s
        BY <1>5
      <3> HIDE DEF g
      <3> QED BY <3>1, <3>2, <3>3, Fun_IsBij
    <2>2. IsFiniteSet(1..n) /\ Cardinality(1..n) = n
      BY <1>1, CountTo
    <2> HIDE DEF g
    <2> QED BY <2>1, <2>2, FS_Bijection DEF ExistsBijection
  <1>13. Arranges(g, S, R)
    <2>1. g \in [1..n -> S]
      BY <1>4
    <2>2. \A i, j \in 1..n : i < j => <<g[i], g[j]>> \in R
      BY <1>9
    <2>3. \A s \in S : \E i \in 1..n : g[i] = s
      BY <1>5
    <2> HIDE DEF g
    <2> QED BY <1>12, <2>1, <2>2, <2>3 DEF Arranges
  <1>14. Arranges(Shown, S, R)
    BY <1>10, <1>11, <1>12, ArrangedIs
  <1> HIDE DEF g
  <1>15. Shown = g
    BY <1>11, <1>12, <1>13, <1>14, ArrangedOnce
  <1>16. /\ DOMAIN g = 1..n /\ g \in Seq(S) /\ Len(g) = n
         /\ \A i \in 1..n : g[i].url = sources[i].url
    <2>1. g \in [1..n -> S] /\ \A i \in 1..n : g[i].url = sources[i].url
      BY <1>4 DEF g
    <2> QED BY <1>1, <2>1
  <1> QED BY <1>1, <1>15, <1>16 DEF n

(* A citation of a finished report leads to the page its fact was taken    *)
(* from, whatever ids the rows of the sources have, and there are as many  *)
(* sources as the run says.                                                *)
THEOREM CitationsLead == Spec => []CitationsResolve
PROOF
  <1>1. ASSUME TypeInv, EvidenceInv, RowInv
        PROVE  CitationsResolve
    <2> SUFFICES ASSUME At("stored")
                 PROVE  /\ \A fact \in row.report :
                              /\ fact.source_id \in DOMAIN Shown
                              /\ Shown[fact.source_id].url.page = fact.page
                        /\ row.citation_count = Len(Shown)
      BY DEF CitationsResolve
    <2>1. /\ DOMAIN Shown = DOMAIN sources /\ Len(Shown) = Len(sources)
          /\ \A i \in DOMAIN sources : Shown[i].url = sources[i].url
      BY <1>1, Typed, ShownAre
    <2>2. Names(report, sources) /\ row.report = report /\ row.citation_count = Len(sources)
      BY <1>1 DEF EvidenceInv, RowInv
    <2> QED BY <2>1, <2>2 DEF Names
  <1>2. Spec => [](TypeInv /\ CallsInv /\ EvidenceInv /\ RowInv)
    BY TypeInit, TypeStep, CallsInit, CallsStep, EvidenceInit, EvidenceStep,
       RowInit, RowStep, PTL DEF Spec
  <1> QED BY <1>1, <1>2, PTL
=============================================================================
