--------------------------- MODULE MCTestingAgent ---------------------------
(***************************************************************************)
(* Instances of TestingAgent for TLC.                                      *)
(***************************************************************************)
EXTENDS TestingAgent, FiniteSets, TLC

CONSTANTS r1, r2,           \* generation runs
          good, bad,        \* a query the grammar accepts, one it refuses
          a1, a2,           \* two answers
          q                 \* a question

(* Any run may submit any body, first and repeated. *)
AllSubmissions == [run : Runs, body : Bodies]

FailedGeneration == [run : {r1}, status : {"generation_failed"}, body : Bodies]

NoRequests == {}

TwoRuns == {r1, r2}

(* Answers are only compared for equality. *)
AnswerSymmetry == Permutations(Answers)
AnswerRunSymmetry == Permutations(Answers) \cup Permutations(Runs)
=============================================================================
