----------------------------- MODULE MCWorkflow -----------------------------
(***************************************************************************)
(* Instances of Workflow for TLC.                                          *)
(***************************************************************************)
EXTENDS Workflow, TLC

CONSTANTS r1, r2, good, empty, a1, a2, q

(* A report carries no query; a generated query is good. *)
Generated == [status |-> "generated", body |-> good]
Failed == [status |-> "generation_failed", body |-> empty]
Serviceless == [status |-> "service_failed", body |-> empty]

AllOutputs == {Generated, Failed, Serviceless}
AttemptOutputs == {Generated, Failed}

GoodSubmissions == [run : Runs, body : {good}]
AllReports == [run : Runs, status : {"generation_failed", "service_failed"}, body : {empty}]
OneReceiptPerRun == [run : Runs, question : {q}]
NoAnswers == {}

RunSymmetry == Permutations(Runs)
=============================================================================
