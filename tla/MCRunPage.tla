------------------------------ MODULE MCRunPage -------------------------------
(* RunPage for TLC: the versions are numbers, so that its constants are    *)
(* given in the configurations.                                            *)
EXTENDS RunPage
=============================================================================
