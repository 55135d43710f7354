-------------------------- MODULE MCResearchService --------------------------
(* ResearchService with one to three runs and up to two requests at a time. *)
EXTENDS ResearchService, TLC

CONSTANTS r1, r2, r3, h1, h2, p1, p2, k1

(* All runs on the quota of one client, or one of them exempt.             *)
OneKey == [r \in Runs |-> k1]
SecondExempt == [OneKey EXCEPT ![r2] = NoKey]
ThirdExempt == [OneKey EXCEPT ![r3] = NoKey]

HandlersAreAlike == Permutations(Handlers)
PlansAreAlike == Permutations(Plans)
Symmetry == HandlersAreAlike \cup PlansAreAlike

(* The two charged runs beside an exempt one, too.                         *)
RoomsSymmetry == Symmetry \cup Permutations({r1, r2})
=============================================================================
