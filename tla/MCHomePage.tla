------------------------------ MODULE MCHomePage ------------------------------
(* HomePage with three runs and room for two records.                      *)
EXTENDS HomePage

CONSTANTS a, b, c
=============================================================================
