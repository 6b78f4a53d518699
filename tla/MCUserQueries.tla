---------------------------- MODULE MCUserQueries ---------------------------
(***************************************************************************)
(* Instances of UserQueries for TLC.                                       *)
(***************************************************************************)
EXTENDS UserQueries

CONSTANTS q1, q2, q3
=============================================================================
