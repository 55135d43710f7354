---------------------------- MODULE ResearchGraph ----------------------------
(***************************************************************************)
(* The research graph (src/backend/app/agent/workflow.py) with the         *)
(* providers it asks (providers/tavily.py, providers/deepseek.py), for one *)
(* run: plan, review, search, extract, in deep mode one more search for    *)
(* gaps, write, in deep mode verify, and the way of the result through the *)
(* database to the list of sources the reader of the report is shown.      *)
(*                                                                         *)
(* A node changes the state of the graph only when it ends.  Searches of a *)
(* node run concurrently; one that fails ends the node, not the others.    *)
(*                                                                         *)
(* A plan is the number of its queries.  A document is what ranking and    *)
(* citing tell apart: the page its URL leads to, whether the URL is        *)
(* written in another way than the canonical one (tracking parameters,     *)
(* case, trailing slash, fragment), and the score.  A fact is a source     *)
(* number with the page the fact was taken from; evidence and report are   *)
(* sets of facts.                                                          *)
(***************************************************************************)
EXTENDS Integers, FiniteSets, SequencesExt

CONSTANTS
    Pages,
    Quality,         \* of a page, by its host: 1 official, 0, -1 excluded
    Documents,
    Blank,           \* a search result without text or URL
    Invalid,         \* one that SearchDocument refuses
    Payloads,        \* what a search may answer: sequences of results
    MaxSubqueries,   \* of a plan the model answers: 6 in the code
    QueryCount,      \* of a plan that is followed, per mode: 2 and 4
    SourceLimit,     \* per mode: 4 and 8
    Attempts,        \* of a search: 3
    SourceIds        \* ids the database may give to sources; they have an order

Modes == {"quick", "deep"}

ASSUME GraphAssumption ==
    /\ Quality \in [Pages -> -1..1]
    /\ Documents \subseteq [url : [page : Pages, canonical : BOOLEAN], score : Nat]
    /\ Payloads \subseteq Seq(Documents \cup {Blank, Invalid})
    /\ Blank \notin Documents /\ Invalid \notin Documents /\ Blank # Invalid
    /\ MaxSubqueries \in Nat \ {0} /\ Attempts \in Nat \ {0}
    /\ QueryCount \in [Modes -> Nat \ {0}]
    /\ QueryCount["quick"] <= QueryCount["deep"]
    /\ SourceLimit \in [Modes -> Nat \ {0}]
    /\ SourceIds \subseteq Nat

VARIABLES
    mode,
    pc,        \* the node the graph is in, and where it waits in it
    plan,
    sources, evidence, report, metrics,   \* the state of the graph
    draft,     \* sources of the gap node before it ends
    again,     \* the extraction is asked a second time
    calls,     \* the searches, those of the plan before that for gaps
    row        \* the finished run in the database

graphState == <<sources, evidence, report, metrics>>
vars == <<mode, pc, plan, graphState, draft, again, calls, row>>

NoRow == [sources |-> {}, source_ids |-> <<>>, report |-> {}, citation_count |-> 0]

Init ==
    /\ mode \in Modes
    /\ pc = "plan"
    /\ plan = 0
    /\ sources = <<>> /\ evidence = {} /\ report = {}
    /\ metrics = [search_calls |-> 0, source_count |-> 0]
    /\ draft = <<>> /\ again = FALSE /\ calls = <<>>
    /\ row = NoRow

-----------------------------------------------------------------------------
(* Ranking.                                                                *)

canonical_url(url) == [url EXCEPT !.canonical = TRUE]

_source_quality(d) == Quality[d.url.page]

(* The orders of the two sorts, by index: both are stable.                 *)
(*                                                                         *)
(* A definition named Mutant... is a plausible slip in the definition that *)
(* follows it.  No specification uses it: replacing the definition by it   *)
(* shows which property would notice.                                      *)
MutantByScore(items, i, j) == i < j
ByScore(items, i, j) ==
    \/ items[i].score > items[j].score
    \/ items[i].score = items[j].score /\ i < j

ByQuality(items, i, j) ==
    LET q(x) == _source_quality(items[x])
    IN  \/ q(i) > q(j)
        \/ q(i) = q(j) /\ ByScore(items, i, j)

(* sorted: the members of S in the order that a set of pairs is.           *)
Arranged(S, before) ==
    CHOOSE f \in [1..Cardinality(S) -> S] :
        \A i, j \in DOMAIN f : i < j => <<f[i], f[j]>> \in before

(* The first document of each page in the order of scores, without pages   *)
(* of low quality, best first.                                             *)
Deduplicate(items, limit) ==
    LET selected(i) ==
            \A j \in DOMAIN items \ {i} :
                canonical_url(items[j].url) = canonical_url(items[i].url)
                    => ByScore(items, i, j)
        acceptable ==
            {i \in DOMAIN items : selected(i) /\ _source_quality(items[i]) >= 0}
        ranked == Arranged(acceptable,
            {p \in acceptable \X acceptable : ByQuality(items, p[1], p[2])})
    IN  [k \in 1..Min({Cardinality(acceptable), limit}) |->
            [items[ranked[k]] EXCEPT !.url = canonical_url(@)]]

-----------------------------------------------------------------------------
(* The search provider.                                                    *)

NewCall == [state |-> "asking", tries |-> 0, docs |-> <<>>]

Live(c) == calls[c].state \in {"asking", "pausing"}

MutantTried(c) == calls[c].tries
Tried(c) == calls[c].tries + 1

MutantAttemptsLeft(c) == calls[c].tries < Attempts
AttemptsLeft(c) == calls[c].tries + 1 < Attempts

(* Results without text are left out; one the schema refuses fails the     *)
(* search.                                                                 *)
Results(payload) ==
    LET kept == {i \in DOMAIN payload : payload[i] # Blank}
        order == Arranged(kept, {p \in kept \X kept : p[1] < p[2]})
    IN  [k \in DOMAIN order |-> payload[order[k]]]

SearchAnswers(c) ==
    /\ calls[c].state = "asking"
    /\ \E payload \in Payloads :
          calls' = IF Invalid \in Range(payload)
                   THEN [calls EXCEPT ![c].state = "failed"]
                   ELSE [calls EXCEPT ![c].state = "found",
                            ![c].docs = Results(payload)]
    /\ UNCHANGED <<mode, pc, plan, graphState, draft, again, row>>

(* A timeout or a usage limit is tried again, anything else is raised.     *)
SearchRaises(c) ==
    /\ calls[c].state = "asking"
    /\ \/ calls' = [calls EXCEPT ![c].state = "failed"]
       \/ /\ AttemptsLeft(c)
          /\ calls' = [calls EXCEPT ![c].state = "pausing", ![c].tries = Tried(c)]
    /\ UNCHANGED <<mode, pc, plan, graphState, draft, again, row>>

SearchAgain(c) ==
    /\ calls[c].state = "pausing"
    /\ calls' = [calls EXCEPT ![c].state = "asking"]
    /\ UNCHANGED <<mode, pc, plan, graphState, draft, again, row>>

-----------------------------------------------------------------------------
(* The nodes.                                                              *)

At(place) == pc = place

Ended == {"stored", "failed", "stopped"}

(* The state of the graph, at the start of a node and after its end.       *)
Committed == {"extract", "gap", "write", "verify", "finish", "stored"}

PlanNode ==
    /\ At("plan")
    /\ \E n \in 1..MaxSubqueries :
          plan' = Min({n, QueryCount[mode]})
    /\ pc' = "review"
    /\ UNCHANGED <<mode, graphState, draft, again, calls, row>>

(* The user confirms the plan or changes its queries; update_plan accepts  *)
(* no more of them than the mode allows.                                   *)
ReviewNode ==
    /\ At("review")
    /\ plan' \in 1..QueryCount[mode]
    /\ pc' = "search"
    /\ UNCHANGED <<mode, graphState, draft, again, calls, row>>

SearchNode ==
    /\ At("search")
    /\ calls' = [c \in 1..plan |-> NewCall]
    /\ pc' = "searching"
    /\ UNCHANGED <<mode, plan, graphState, draft, again, row>>

(* The queries of the plan and one for gaps.                               *)
MaxCalls == QueryCount["deep"] + 1

AllFound == \A c \in DOMAIN calls : calls[c].state = "found"

(* The results are taken in the order of the queries, not of arrival.      *)
SearchNodeEnds ==
    /\ At("searching") /\ AllFound
    /\ sources' = Deduplicate(FlattenSeq([c \in 1..plan |-> calls[c].docs]),
                              SourceLimit[mode])
    /\ metrics' = [search_calls |-> plan, source_count |-> Len(sources')]
    /\ pc' = "extract"
    /\ UNCHANGED <<mode, plan, evidence, report, draft, again, calls, row>>

(* gather raises as soon as one search fails.                              *)
SearchFails ==
    /\ pc \in {"searching", "gap searching"}
    /\ \E c \in DOMAIN calls : calls[c].state = "failed"
    /\ pc' = "failed"
    /\ UNCHANGED <<mode, plan, graphState, draft, again, calls, row>>

(* The model cites any numbers; those beyond the sources are left out.     *)
Claims(docs) == SUBSET (1..(Len(docs) + 1))

Evidence(docs, ids) ==
    {[source_id |-> i, page |-> docs[i].url.page] : i \in ids \cap DOMAIN docs}

ExtractNode ==
    /\ At("extract")
    /\ \E ids \in Claims(sources) : evidence' = Evidence(sources, ids)
    /\ again' = FALSE
    /\ pc' = IF mode = "deep" THEN "gap" ELSE "write"
    /\ UNCHANGED <<mode, plan, sources, report, metrics, draft, calls, row>>

(* An answer that does not have the shape of evidence is asked for once    *)
(* more.                                                                   *)
ExtractAgain ==
    /\ pc \in {"extract", "gap extract"}
    /\ ~again
    /\ again' = TRUE
    /\ UNCHANGED <<mode, pc, plan, graphState, draft, calls, row>>

GapNode ==
    /\ At("gap")
    /\ \/ pc' = "write" /\ UNCHANGED calls
       \/ pc' = "gap searching" /\ calls' = Append(calls, NewCall)
    /\ UNCHANGED <<mode, plan, graphState, draft, again, row>>

GapSearchEnds ==
    /\ At("gap searching") /\ AllFound
    /\ draft' = Deduplicate(sources \o Last(calls).docs, SourceLimit["deep"])
    /\ pc' = "gap extract"
    /\ UNCHANGED <<mode, plan, graphState, again, calls, row>>

MutantGapEvidence(ids) == evidence \cup Evidence(draft, ids)
GapEvidence(ids) == Evidence(draft, ids)

MutantGapCalls == Len(calls) - plan
GapCalls == metrics.search_calls + 1

GapNodeEnds ==
    /\ At("gap extract")
    /\ \E ids \in Claims(draft) : evidence' = GapEvidence(ids)
    /\ sources' = draft
    /\ metrics' = [search_calls |-> GapCalls, source_count |-> Len(draft)]
    /\ draft' = <<>> /\ again' = FALSE
    /\ pc' = "write"
    /\ UNCHANGED <<mode, plan, report, calls, row>>

(* The report cites evidence it was given; the verification returns it     *)
(* with the citations the model finds supported.                           *)
WriteNode ==
    /\ At("write")
    /\ report' \in SUBSET evidence
    /\ pc' = IF mode = "deep" THEN "verify" ELSE "finish"
    /\ UNCHANGED <<mode, plan, sources, evidence, metrics, draft, again, calls, row>>

VerifyNode ==
    /\ At("verify")
    /\ report' \in SUBSET report
    /\ pc' = "finish"
    /\ UNCHANGED <<mode, plan, sources, evidence, metrics, draft, again, calls, row>>

(* The model provider raises, or its answer is not what was asked for.     *)
ModelFails ==
    /\ pc \in {"plan", "extract", "gap", "gap extract", "write", "verify"}
    /\ pc' = "failed"
    /\ UNCHANGED <<mode, plan, graphState, draft, again, calls, row>>

(* _persist_completed: the database gives every row an id of its own, and  *)
(* keeps no order among them.                                              *)
Persist ==
    /\ At("finish")
    /\ \E id \in [DOMAIN sources -> SourceIds] :
          /\ IsInjective(id)
          /\ row' = [ sources |-> {[id |-> id[i], url |-> sources[i].url] :
                                     i \in DOMAIN sources},
                      source_ids |-> id,
                      report |-> report,
                      citation_count |-> Len(sources) ]
    /\ pc' = "stored"
    /\ UNCHANGED <<mode, plan, graphState, draft, again, calls>>

(* The timeout or a cancellation ends the graph, with every search it is   *)
(* waiting for.                                                            *)
Stop ==
    /\ pc \notin Ended \cup {"review"}
    /\ pc' = "stopped"
    /\ calls' = [c \in DOMAIN calls |->
                   IF Live(c) THEN [calls[c] EXCEPT !.state = "dropped"]
                   ELSE calls[c]]
    /\ UNCHANGED <<mode, plan, graphState, draft, again, row>>

Node ==
    \/ PlanNode \/ SearchNode \/ SearchNodeEnds \/ SearchFails
    \/ ExtractNode \/ ExtractAgain \/ GapNode \/ GapSearchEnds \/ GapNodeEnds
    \/ WriteNode \/ VerifyNode \/ ModelFails \/ Persist

Search(c) == SearchAnswers(c) \/ SearchRaises(c) \/ SearchAgain(c)

Next ==
    \/ Node
    \/ ReviewNode
    \/ Stop
    \/ \E c \in DOMAIN calls : Search(c)

Spec == Init /\ [][Next]_vars

(* Every request to a provider has a timeout, so it is answered or raises; *)
(* a plan need not be reviewed, and nobody need stop the run.              *)
Fairness ==
    /\ WF_vars(Node)
    /\ \A c \in 1..MaxCalls : WF_vars(c \in DOMAIN calls /\ Search(c))

FairSpec == Spec /\ Fairness

-----------------------------------------------------------------------------
(* What the reader of the report sees: ResearchService._snapshot orders    *)
(* the rows, normalizeReport keeps those of the report, and a citation [n] *)
(* leads to the n-th of them.                                              *)

MutantPosition(source) == 0
Position(source) ==
    IF \E i \in DOMAIN row.source_ids : row.source_ids[i] = source.id
    THEN (CHOOSE i \in DOMAIN row.source_ids : row.source_ids[i] = source.id) - 1
    ELSE Len(row.source_ids)

Shown ==
    LET cited == {s \in row.sources : row.source_ids = <<>> \/
                                      s.id \in Range(row.source_ids)}
    IN  Arranged(cited, {p \in cited \X cited :
            \/ Position(p[1]) < Position(p[2])
            \/ Position(p[1]) = Position(p[2]) /\ p[1].id < p[2].id})

-----------------------------------------------------------------------------
Facts == [source_id : Nat, page : Pages]
SourceSeqs == Seq(Documents \cup {[d EXCEPT !.url = canonical_url(@)] : d \in Documents})

(* The state of the graph has the shape its schema says; a quick run asks  *)
(* and keeps no more than its mode allows, a deep run searches once more   *)
(* at most, and no search is tried more than Attempts times.               *)
TypeOK ==
    /\ mode \in Modes
    /\ pc \in {"plan", "review", "search", "searching", "gap searching",
               "gap extract"} \cup Committed \cup Ended
    /\ plan \in 0..QueryCount[mode]
    /\ sources \in SourceSeqs /\ draft \in SourceSeqs
    /\ evidence \subseteq Facts /\ report \subseteq Facts
    /\ metrics \in [search_calls : 0..MaxCalls, source_count : 0..SourceLimit[mode]]
    /\ again \in BOOLEAN
    /\ calls \in Seq([ state : {"asking", "pausing", "found", "failed", "dropped"},
                       tries : 0..(Attempts - 1),
                       docs : Seq(Documents) ])
    /\ Len(calls) <= plan + (IF mode = "deep" THEN 1 ELSE 0)

(* Evidence and report speak of the sources of the same state: the source  *)
(* a fact names is the one the fact was taken from, also after a second    *)
(* search has ranked and numbered the sources anew.                        *)
EvidenceNamesItsSource ==
    \A fact \in evidence \cup report :
        /\ fact.source_id \in DOMAIN sources
        /\ sources[fact.source_id].url.page = fact.page

(* A citation of the finished report leads the reader to the page the      *)
(* cited fact was taken from, whatever ids the database gave the sources,  *)
(* and the count of citations shown is that of the sources shown.          *)
CitationsResolve ==
    At("stored") =>
        /\ \A fact \in row.report :
              /\ fact.source_id \in DOMAIN Shown
              /\ Shown[fact.source_id].url.page = fact.page
        /\ row.citation_count = Len(Shown)

(* d is of better quality than e, or as good with a higher score.          *)
Better(d, e) ==
    \/ _source_quality(d) > _source_quality(e)
    \/ _source_quality(d) = _source_quality(e) /\ d.score > e.score

(* docs are the best pages of what was found, as many as the limit allows. *)
BestOf(docs, found, limit) ==
    /\ Len(docs) <= limit
    /\ \A i \in DOMAIN docs :
          /\ _source_quality(docs[i]) >= 0
          /\ \E e \in found : e.url.page = docs[i].url.page /\ e.score = docs[i].score
          /\ \A j \in 1..(i - 1) : /\ docs[j].url.page # docs[i].url.page
                                   /\ ~Better(docs[i], docs[j])
    /\ \A e \in found :
          \/ _source_quality(e) < 0
          \/ \E i \in DOMAIN docs : /\ docs[i].url.page = e.url.page
                                    /\ docs[i].score >= e.score
          \/ /\ Len(docs) = limit
             /\ \A i \in DOMAIN docs : /\ docs[i].url.page # e.url.page
                                       /\ ~Better(e, docs[i])

(* Of everything the searches have found the graph holds the best: each    *)
(* page once, with its highest score, no page of low quality, in order of  *)
(* quality and score, and a page is left out only for others that are no   *)
(* worse.  That the gap search starts from a list already cut makes no     *)
(* difference.                                                             *)
SourcesAreBest ==
    pc \in Committed =>
        BestOf(sources, UNION {Range(calls[c].docs) : c \in DOMAIN calls},
               SourceLimit[mode])

(* The metrics the user is shown count the searches whose results are in   *)
(* the state, and the sources that are.                                    *)
MetricsCount ==
    pc \in Committed =>
        /\ metrics.source_count = Len(sources)
        /\ metrics.search_calls =
              Cardinality({c \in DOMAIN calls : calls[c].state = "found"})

(* Planning ends at the review or with a failure, research ends, and no    *)
(* search is tried for ever, not even one its run no longer waits for.     *)
GraphEnds ==
    /\ <>(pc \in Ended \cup {"review"})
    /\ At("search") ~> pc \in Ended
    /\ <>[](\A c \in DOMAIN calls : ~Live(c))
=============================================================================
