--------------------------- MODULE MCRepairAgent ---------------------------
(***************************************************************************)
(* Instances of RepairAgent for TLC.                                       *)
(***************************************************************************)
EXTENDS RepairAgent, TLC

CONSTANTS t1, t2, q1, q2, q3

SameTicket == [r \in Requests |-> t1]
TwoAndOne == [r \in Requests |-> IF r = q3 THEN t2 ELSE t1]

(* Requests for one ticket differ in nothing. *)
RequestSymmetry == Permutations(Requests)
=============================================================================
