---------------------------- MODULE MCMaintenance ----------------------------
(* Two runs, each through its whole life.  The second version of the       *)
(* program replaces one example and keeps the other.                       *)
EXTENDS Maintenance

MCExamplesOf == <<{"battery", "coding"}, {"coding", "energy"}>>
=============================================================================
