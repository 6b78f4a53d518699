--------------------------- MODULE PipelineProofs ----------------------------
(***************************************************************************)
(* Theorems about Pipeline.  PipelineInv says where in which route's order *)
(* a run stands: until it is done the trace is exactly the part of the     *)
(* route before its next stage, every stage of it a success, no issue has  *)
(* been raised unless the repair controller is next, and the calls made    *)
(* leave room for those to come.                                           *)
(***************************************************************************)
EXTENDS Pipeline, TLAPS

Entry == [stage : Stage, status : {"success", "failed"}]

(* The trace is the first n stages of an order. *)
Along(order, n) ==
    /\ Len(trace) = n
    /\ \A i \in 1 .. n : trace[i] = [stage |-> order[i], status |-> "success"]

Place ==
    /\ step = "client" => trace = <<>>
    /\ step = "graph_model_loader" => Along(GENERATED_STAGE_ORDER, 0)
    /\ step = "input_clarification_gate" => Along(GENERATED_STAGE_ORDER, 1)
    /\ step = "question_decomposer" => Along(GENERATED_STAGE_ORDER, 2)
    /\ step = "candidate_retrieval" => Along(GENERATED_STAGE_ORDER, 3)
    /\ step = "candidate_reranker" => Along(GENERATED_STAGE_ORDER, 4)
    /\ step = "literal_resolver" => Along(GENERATED_STAGE_ORDER, 5)
    /\ step = "deterministic_assembler" => Along(GENERATED_STAGE_ORDER, 6)
    /\ step = "grounded_understanding" => Along(GENERATED_STAGE_ORDER, 7)
    /\ step = "semantic_binder" => Along(GENERATED_STAGE_ORDER, 8)
    /\ step = "semantic_validator" => Along(GENERATED_STAGE_ORDER, 9)
    /\ step = "dsl_builder" => Along(GENERATED_STAGE_ORDER, 10)
    /\ step = "dsl_parser" =>
          Along(GENERATED_STAGE_ORDER, 11) \/ Along(DETERMINISTIC_GENERATED_STAGE_ORDER, 7)
    /\ step = "dsl_structural_coverage_gate" =>
          Along(GENERATED_STAGE_ORDER, 12) \/ Along(DETERMINISTIC_GENERATED_STAGE_ORDER, 8)
    /\ step = "cypher_compiler" =>
          Along(GENERATED_STAGE_ORDER, 13) \/ Along(DETERMINISTIC_GENERATED_STAGE_ORDER, 9)
    /\ step = "cypher_self_validation" =>
          Along(GENERATED_STAGE_ORDER, 14) \/ Along(DETERMINISTIC_GENERATED_STAGE_ORDER, 10)

Room ==
    /\ step \in {"client", "graph_model_loader", "input_clarification_gate"} => calls = 0
    /\ step = "question_decomposer" => calls <= MaxSchemaRetries
    /\ step \in {"candidate_retrieval", "candidate_reranker", "literal_resolver",
                 "deterministic_assembler", "grounded_understanding"} => calls <= MaxSchemaRetries + 1

Closed ==
    /\ answer \in Answer
    /\ OutputIsAccepted
    /\ GeneratedIsSound

Answered ==
    /\ step = "done" => Closed
    /\ step # "done" => answer = NoAnswer
    /\ step \notin {"done", "repair_controller"} => issue = NoReason
    /\ provider = "raised" =>
          step = "done" /\ answer = [status |-> "service_failed", reason |-> "model_invocation_failed"]

PipelineInv == TypeOK /\ Place /\ Room /\ Answered

-----------------------------------------------------------------------------
(* A stage that succeeds takes the run one place further along its order. *)
LEMMA Further ==
    ASSUME NEW order, NEW n \in Nat, NEW m, m = n + 1, trace \in Seq(Entry),
           Along(order, n), step = order[m], trace' = Passed
    PROVE  Along(order, m)'
<1>1. Len(trace) = n /\ \A i \in 1 .. n : trace[i] = [stage |-> order[i], status |-> "success"]
  BY DEF Along
<1>2. trace' = Append(trace, [stage |-> step, status |-> "success"])  BY DEF Passed
<1>3. Len(trace') = m  BY <1>1, <1>2
<1>4. ASSUME NEW i \in 1 .. m
      PROVE  trace'[i] = [stage |-> order[i], status |-> "success"]
  <2>1. CASE i = m  BY <1>1, <1>2, <2>1
  <2>2. CASE i \in 1 .. n
    <3>1. trace'[i] = trace[i]  BY <1>1, <1>2, <2>2
    <3> QED  BY <1>1, <2>2, <3>1
  <2> QED  BY <2>1, <2>2
<1> QED  BY <1>3, <1>4 DEF Along

(* Both orders are sequences of stages; they agree on the first seven. *)
LEMMA Orders ==
    /\ GENERATED_STAGE_ORDER \in Seq(Stage) /\ Len(GENERATED_STAGE_ORDER) = 16
    /\ DETERMINISTIC_GENERATED_STAGE_ORDER \in Seq(Stage)
    /\ Len(DETERMINISTIC_GENERATED_STAGE_ORDER) = 12
    /\ \A i \in 1 .. 7 : DETERMINISTIC_GENERATED_STAGE_ORDER[i] = GENERATED_STAGE_ORDER[i]
<1>1. GENERATED_STAGE_ORDER \in Seq(Stage) /\ Len(GENERATED_STAGE_ORDER) = 16
  <2>1. DOMAIN GENERATED_STAGE_ORDER = 1 .. 16 /\ Len(GENERATED_STAGE_ORDER) = 16
    BY DEF GENERATED_STAGE_ORDER
  <2>2. GENERATED_STAGE_ORDER = [i \in 1 .. 16 |-> GENERATED_STAGE_ORDER[i]]
    BY DEF GENERATED_STAGE_ORDER
  <2>3. \A i \in 1 .. 16 : GENERATED_STAGE_ORDER[i] \in Stage  BY <2>1 DEF Stage
  <2> QED  BY <2>1, <2>2, <2>3
<1> QED  BY <1>1 DEF GENERATED_STAGE_ORDER, DETERMINISTIC_GENERATED_STAGE_ORDER, Stage

LEMMA StagesTyped ==
    ASSUME TypeOK, step \in Stage
    PROVE  /\ trace \in Seq(Entry) /\ Passed \in Seq(Entry) /\ Broken \in Seq(Entry)
BY DEF TypeOK, Entry, Passed, Broken

(* An output without a query is accepted as it is. *)
LEMMA Finishing ==
    ASSUME NEW stages \in Seq(Entry), NEW status, NEW reason,
           [status |-> status, reason |-> reason] \in Answer, status # "generated",
           Finish(stages, status, reason)
    PROVE  /\ trace' \in Seq(Entry) /\ step' = "done" /\ Closed'
           /\ answer' = [status |-> status, reason |-> reason]
<1>1. /\ trace' = Append(stages, [stage |-> "output", status |-> "failed"])
      /\ answer' = [status |-> status, reason |-> reason] /\ step' = "done"
  BY DEF Finish
<1>2. [stage |-> "output", status |-> "failed"] \in Entry
  <2>1. "output" \in Stage
    <3>1. 16 \in DOMAIN GENERATED_STAGE_ORDER /\ GENERATED_STAGE_ORDER[16] = "output"
      BY DEF GENERATED_STAGE_ORDER
    <3> QED  BY <3>1 DEF Stage
  <2> QED  BY <2>1 DEF Entry
<1>3. /\ trace' \in Seq(Entry) /\ trace' # <<>>
      /\ trace'[Len(trace')] = [stage |-> "output", status |-> "failed"]
  BY <1>1, <1>2
<1>4. answer'.status # "generated"  BY <1>1
<1>5. Accepted'  BY <1>3, <1>4 DEF Accepted
<1> QED  BY <1>1, <1>3, <1>4, <1>5 DEF Closed, OutputIsAccepted, GeneratedIsSound

LEMMA Failing ==
    ASSUME NEW stages \in Seq(Entry),
           NEW reason \in GenerationFailureReason \cup ServiceFailureReason,
           Fail(stages, reason)
    PROVE  /\ trace' \in Seq(Entry) /\ step' = "done" /\ Closed'
           /\ answer' = [status |-> StatusForFailureReason(reason), reason |-> reason]
<1>1. /\ [status |-> StatusForFailureReason(reason), reason |-> reason] \in Answer
      /\ StatusForFailureReason(reason) # "generated"
  BY DEF StatusForFailureReason, Answer, GenerationFailureReason, ServiceFailureReason
<1>2. Finish(stages, StatusForFailureReason(reason), reason)  BY DEF Fail
<1> QED  BY <1>1, <1>2, Finishing

LEMMA FailingUnexpectedly ==
    ASSUME NEW stages \in Seq(Entry), Unexpected(stages)
    PROVE  trace' \in Seq(Entry) /\ step' = "done" /\ Closed'
<1>1. PICK reason \in {"knowledge_context_unavailable", "semantic_contract_unaligned"} :
          Fail(stages, reason)
  BY DEF Unexpected
<1>2. reason \in ServiceFailureReason  BY DEF ServiceFailureReason
<1> QED  BY <1>1, <1>2, Failing

(* A failure with any reason, of either enumeration or of none. *)
LEMMA FailingAnyway ==
    ASSUME NEW stages \in Seq(Entry), NEW reason, Failure(stages, reason)
    PROVE  trace' \in Seq(Entry) /\ step' = "done" /\ Closed'
<1>1. CASE reason \in GenerationFailureReason \cup ServiceFailureReason
  BY <1>1, Failing DEF Failure
<1>2. CASE reason \notin GenerationFailureReason \cup ServiceFailureReason
  <2>1. Unexpected(Append(stages, [stage |-> "output", status |-> "failed"]))
    BY <1>2 DEF Failure
  <2>2. Append(stages, [stage |-> "output", status |-> "failed"]) \in Seq(Entry)
    <3>1. 16 \in DOMAIN GENERATED_STAGE_ORDER /\ GENERATED_STAGE_ORDER[16] = "output"
      BY DEF GENERATED_STAGE_ORDER
    <3>2. [stage |-> "output", status |-> "failed"] \in Entry  BY <3>1 DEF Stage, Entry
    <3> QED  BY <3>2
  <2> QED  BY <2>1, <2>2, FailingUnexpectedly
<1> QED  BY <1>1, <1>2

LEMMA Clarifying ==
    ASSUME NEW stages \in Seq(Entry), Clarification(stages)
    PROVE  trace' \in Seq(Entry) /\ step' = "done" /\ Closed'
<1>1. [status |-> "clarification_required", reason |-> NoReason] \in Answer  BY DEF Answer
<1>2. Finish(stages, "clarification_required", NoReason)  BY DEF Clarification
<1> QED  BY <1>1, <1>2, Finishing

(* A run that ends, the LLM's refusal reported if there was one, keeps the  *)
(* invariant.                                                               *)
LEMMA Ending ==
    ASSUME PipelineInv, trace' \in Seq(Entry), step' = "done", Closed',
           llmEnabled' = llmEnabled, issue' = issue, calls' \in 0 .. MaxSchemaRetries + 2,
           provider' \in {"up", "raised"},
           provider' = "raised" =>
               answer' = [status |-> "service_failed", reason |-> "model_invocation_failed"]
    PROVE  PipelineInv'
<1>1. TypeOK'  BY DEF PipelineInv, TypeOK, Entry, Closed
<1>2. Place' /\ Room'  BY DEF Place, Room
<1>3. Answered'  BY DEF Answered
<1> QED  BY <1>1, <1>2, <1>3 DEF PipelineInv

(* A run that goes on is one place further along, with its issue still      *)
(* none unless the controller is next, and no more calls than there is room *)
(* for.                                                                     *)
LEMMA GoingOn ==
    ASSUME PipelineInv, step # "done",
           trace' \in Seq(Entry), step' \in (Stage \ {"output"}) \cup {"client"},
           UNCHANGED <<answer, llmEnabled, provider>>,
           issue' \in ValidatorCode \cup {"literal_unresolved", NoReason},
           step' # "repair_controller" => issue' = NoReason,
           calls' \in 0 .. MaxSchemaRetries + 2, Room', Place'
    PROVE  PipelineInv'
<1>1. answer = NoAnswer /\ provider = "up"  BY DEF PipelineInv, TypeOK, Answered
<1>2. step' # "done"
  BY DEF Stage, GENERATED_STAGE_ORDER
<1>3. TypeOK'  BY <1>1 DEF PipelineInv, TypeOK, Entry
<1>4. Answered'  BY <1>1, <1>2 DEF Answered
<1> QED  BY <1>3, <1>4 DEF PipelineInv

-----------------------------------------------------------------------------
LEMMA InitInv == Init => PipelineInv
<1> SUFFICES ASSUME Init PROVE PipelineInv  OBVIOUS
<1> USE RetriesAssumption DEF Init
<1>1. TypeOK  BY DEF TypeOK
<1>2. Place /\ Room  BY DEF Place, Room
<1>3. Answered  BY DEF Answered
<1> QED  BY <1>1, <1>2, <1>3 DEF PipelineInv

LEMMA BuildClientStep == PipelineInv /\ BuildClient => PipelineInv'
<1> SUFFICES ASSUME PipelineInv, BuildClient PROVE PipelineInv'  OBVIOUS
<1>1. /\ step = "client" /\ step' = "graph_model_loader" /\ trace = <<>> /\ trace' = trace
      /\ UNCHANGED <<answer, llmEnabled, issue, calls, provider>> /\ calls = 0 /\ issue = NoReason
  BY DEF BuildClient, PipelineInv, Place, Room, Answered
<1>2. "graph_model_loader" \in Stage \ {"output"}
  BY DEF Stage, GENERATED_STAGE_ORDER
<1>3. Along(GENERATED_STAGE_ORDER, 0)'  BY <1>1 DEF Along
<1>4. Place' /\ Room'  BY <1>1, <1>3 DEF Place, Room
<1> QED  BY <1>1, <1>2, <1>4, GoingOn, RetriesAssumption DEF PipelineInv, TypeOK, Entry

(* Where each stage has its place. *)
LEMMA Places ==
    /\ GENERATED_STAGE_ORDER[1] = "graph_model_loader"
    /\ GENERATED_STAGE_ORDER[2] = "input_clarification_gate"
    /\ GENERATED_STAGE_ORDER[3] = "question_decomposer"
    /\ GENERATED_STAGE_ORDER[4] = "candidate_retrieval"
    /\ GENERATED_STAGE_ORDER[5] = "candidate_reranker"
    /\ GENERATED_STAGE_ORDER[6] = "literal_resolver"
    /\ GENERATED_STAGE_ORDER[7] = "deterministic_assembler"
    /\ GENERATED_STAGE_ORDER[8] = "grounded_understanding"
    /\ GENERATED_STAGE_ORDER[9] = "semantic_binder"
    /\ GENERATED_STAGE_ORDER[10] = "semantic_validator"
    /\ GENERATED_STAGE_ORDER[11] = "dsl_builder"
    /\ GENERATED_STAGE_ORDER[12] = "dsl_parser"
    /\ GENERATED_STAGE_ORDER[13] = "dsl_structural_coverage_gate"
    /\ GENERATED_STAGE_ORDER[14] = "cypher_compiler"
    /\ GENERATED_STAGE_ORDER[15] = "cypher_self_validation"
    /\ DETERMINISTIC_GENERATED_STAGE_ORDER[7] = "deterministic_assembler"
    /\ DETERMINISTIC_GENERATED_STAGE_ORDER[8] = "dsl_parser"
    /\ DETERMINISTIC_GENERATED_STAGE_ORDER[9] = "dsl_structural_coverage_gate"
    /\ DETERMINISTIC_GENERATED_STAGE_ORDER[10] = "cypher_compiler"
    /\ DETERMINISTIC_GENERATED_STAGE_ORDER[11] = "cypher_self_validation"
BY DEF GENERATED_STAGE_ORDER, DETERMINISTIC_GENERATED_STAGE_ORDER

(* The stages that may follow one another when a stage has passed, the      *)
(* repair controller apart.                                                 *)
Follows ==
    {<<"graph_model_loader", "input_clarification_gate">>,
     <<"input_clarification_gate", "question_decomposer">>,
     <<"question_decomposer", "candidate_retrieval">>,
     <<"candidate_retrieval", "candidate_reranker">>,
     <<"candidate_reranker", "literal_resolver">>,
     <<"literal_resolver", "deterministic_assembler">>,
     <<"deterministic_assembler", "grounded_understanding">>,
     <<"grounded_understanding", "semantic_binder">>,
     <<"semantic_binder", "semantic_validator">>,
     <<"semantic_validator", "dsl_builder">>,
     <<"dsl_builder", "dsl_parser">>,
     <<"dsl_parser", "dsl_structural_coverage_gate">>,
     <<"dsl_structural_coverage_gate", "cypher_compiler">>,
     <<"cypher_compiler", "cypher_self_validation">>,
     <<"deterministic_assembler", "dsl_parser">>}

LEMMA Moving ==
    ASSUME PipelineInv, NEW next, <<step, next>> \in Follows, Continue(next)
    PROVE  Place'
<1>1. trace \in Seq(Entry)
  BY DEF PipelineInv, TypeOK, Entry
<1>2. trace' = Passed /\ step' = next
  BY DEF Continue
<1>3. CASE step = "graph_model_loader" /\ next = "input_clarification_gate"
  <2>1. Along(GENERATED_STAGE_ORDER, 0)  BY <1>3 DEF PipelineInv, Place
  <2>2. Along(GENERATED_STAGE_ORDER, 1)'  BY <1>1, <1>2, <1>3, <2>1, Further, Places
  <2> QED  BY <1>2, <1>3, <2>2 DEF Place
<1>4. CASE step = "input_clarification_gate" /\ next = "question_decomposer"
  <2>1. Along(GENERATED_STAGE_ORDER, 1)  BY <1>4 DEF PipelineInv, Place
  <2>2. Along(GENERATED_STAGE_ORDER, 2)'  BY <1>1, <1>2, <1>4, <2>1, Further, Places
  <2> QED  BY <1>2, <1>4, <2>2 DEF Place
<1>5. CASE step = "question_decomposer" /\ next = "candidate_retrieval"
  <2>1. Along(GENERATED_STAGE_ORDER, 2)  BY <1>5 DEF PipelineInv, Place
  <2>2. Along(GENERATED_STAGE_ORDER, 3)'  BY <1>1, <1>2, <1>5, <2>1, Further, Places
  <2> QED  BY <1>2, <1>5, <2>2 DEF Place
<1>6. CASE step = "candidate_retrieval" /\ next = "candidate_reranker"
  <2>1. Along(GENERATED_STAGE_ORDER, 3)  BY <1>6 DEF PipelineInv, Place
  <2>2. Along(GENERATED_STAGE_ORDER, 4)'  BY <1>1, <1>2, <1>6, <2>1, Further, Places
  <2> QED  BY <1>2, <1>6, <2>2 DEF Place
<1>7. CASE step = "candidate_reranker" /\ next = "literal_resolver"
  <2>1. Along(GENERATED_STAGE_ORDER, 4)  BY <1>7 DEF PipelineInv, Place
  <2>2. Along(GENERATED_STAGE_ORDER, 5)'  BY <1>1, <1>2, <1>7, <2>1, Further, Places
  <2> QED  BY <1>2, <1>7, <2>2 DEF Place
<1>8. CASE step = "literal_resolver" /\ next = "deterministic_assembler"
  <2>1. Along(GENERATED_STAGE_ORDER, 5)  BY <1>8 DEF PipelineInv, Place
  <2>2. Along(GENERATED_STAGE_ORDER, 6)'  BY <1>1, <1>2, <1>8, <2>1, Further, Places
  <2> QED  BY <1>2, <1>8, <2>2 DEF Place
<1>9. CASE step = "deterministic_assembler" /\ next = "grounded_understanding"
  <2>1. Along(GENERATED_STAGE_ORDER, 6)  BY <1>9 DEF PipelineInv, Place
  <2>2. Along(GENERATED_STAGE_ORDER, 7)'  BY <1>1, <1>2, <1>9, <2>1, Further, Places
  <2> QED  BY <1>2, <1>9, <2>2 DEF Place
<1>10. CASE step = "grounded_understanding" /\ next = "semantic_binder"
  <2>1. Along(GENERATED_STAGE_ORDER, 7)  BY <1>10 DEF PipelineInv, Place
  <2>2. Along(GENERATED_STAGE_ORDER, 8)'  BY <1>1, <1>2, <1>10, <2>1, Further, Places
  <2> QED  BY <1>2, <1>10, <2>2 DEF Place
<1>11. CASE step = "semantic_binder" /\ next = "semantic_validator"
  <2>1. Along(GENERATED_STAGE_ORDER, 8)  BY <1>11 DEF PipelineInv, Place
  <2>2. Along(GENERATED_STAGE_ORDER, 9)'  BY <1>1, <1>2, <1>11, <2>1, Further, Places
  <2> QED  BY <1>2, <1>11, <2>2 DEF Place
<1>12. CASE step = "semantic_validator" /\ next = "dsl_builder"
  <2>1. Along(GENERATED_STAGE_ORDER, 9)  BY <1>12 DEF PipelineInv, Place
  <2>2. Along(GENERATED_STAGE_ORDER, 10)'  BY <1>1, <1>2, <1>12, <2>1, Further, Places
  <2> QED  BY <1>2, <1>12, <2>2 DEF Place
<1>13. CASE step = "dsl_builder" /\ next = "dsl_parser"
  <2>1. Along(GENERATED_STAGE_ORDER, 10)  BY <1>13 DEF PipelineInv, Place
  <2>2. Along(GENERATED_STAGE_ORDER, 11)'  BY <1>1, <1>2, <1>13, <2>1, Further, Places
  <2> QED  BY <1>2, <1>13, <2>2 DEF Place
<1>14. CASE step = "dsl_parser" /\ next = "dsl_structural_coverage_gate"
  <2>1. ASSUME Along(GENERATED_STAGE_ORDER, 11) PROVE Along(GENERATED_STAGE_ORDER, 12)'
    BY <1>1, <1>2, <1>14, <2>1, Further, Places
  <2>2. ASSUME Along(DETERMINISTIC_GENERATED_STAGE_ORDER, 7) PROVE Along(DETERMINISTIC_GENERATED_STAGE_ORDER, 8)'
    BY <1>1, <1>2, <1>14, <2>2, Further, Places
  <2>3. Along(GENERATED_STAGE_ORDER, 11) \/ Along(DETERMINISTIC_GENERATED_STAGE_ORDER, 7)
    BY <1>14 DEF PipelineInv, Place
  <2> QED  BY <1>2, <1>14, <2>1, <2>2, <2>3 DEF Place
<1>15. CASE step = "dsl_structural_coverage_gate" /\ next = "cypher_compiler"
  <2>1. ASSUME Along(GENERATED_STAGE_ORDER, 12) PROVE Along(GENERATED_STAGE_ORDER, 13)'
    BY <1>1, <1>2, <1>15, <2>1, Further, Places
  <2>2. ASSUME Along(DETERMINISTIC_GENERATED_STAGE_ORDER, 8) PROVE Along(DETERMINISTIC_GENERATED_STAGE_ORDER, 9)'
    BY <1>1, <1>2, <1>15, <2>2, Further, Places
  <2>3. Along(GENERATED_STAGE_ORDER, 12) \/ Along(DETERMINISTIC_GENERATED_STAGE_ORDER, 8)
    BY <1>15 DEF PipelineInv, Place
  <2> QED  BY <1>2, <1>15, <2>1, <2>2, <2>3 DEF Place
<1>16. CASE step = "cypher_compiler" /\ next = "cypher_self_validation"
  <2>1. ASSUME Along(GENERATED_STAGE_ORDER, 13) PROVE Along(GENERATED_STAGE_ORDER, 14)'
    BY <1>1, <1>2, <1>16, <2>1, Further, Places
  <2>2. ASSUME Along(DETERMINISTIC_GENERATED_STAGE_ORDER, 9) PROVE Along(DETERMINISTIC_GENERATED_STAGE_ORDER, 10)'
    BY <1>1, <1>2, <1>16, <2>2, Further, Places
  <2>3. Along(GENERATED_STAGE_ORDER, 13) \/ Along(DETERMINISTIC_GENERATED_STAGE_ORDER, 9)
    BY <1>16 DEF PipelineInv, Place
  <2> QED  BY <1>2, <1>16, <2>1, <2>2, <2>3 DEF Place
<1>17. CASE step = "deterministic_assembler" /\ next = "dsl_parser"
  <2>1. Along(GENERATED_STAGE_ORDER, 6)  BY <1>17 DEF PipelineInv, Place
  <2>2. Along(DETERMINISTIC_GENERATED_STAGE_ORDER, 6)  BY <2>1, Orders DEF Along
  <2>3. Along(DETERMINISTIC_GENERATED_STAGE_ORDER, 7)'  BY <1>1, <1>2, <1>17, <2>2, Further, Places
  <2> QED  BY <1>2, <1>17, <2>3 DEF Place
<1> QED  BY <1>3, <1>4, <1>5, <1>6, <1>7, <1>8, <1>9, <1>10, <1>11, <1>12, <1>13, <1>14, <1>15, <1>16, <1>17 DEF Follows

LEMMA Following ==
    ASSUME PipelineInv, NEW next, <<step, next>> \in Follows, Continue(next), Room',
           UNCHANGED <<llmEnabled, issue, provider>>, calls' \in 0 .. MaxSchemaRetries + 2
    PROVE  PipelineInv'
<1>1. /\ step \in Stage /\ step # "done" /\ step # "repair_controller"
      /\ next \in Stage \ {"output"} /\ next # "repair_controller"
  BY Places DEF Follows, Stage, GENERATED_STAGE_ORDER
<1>2. issue' = NoReason /\ step' = next /\ UNCHANGED answer /\ trace' = Passed
  BY <1>1 DEF PipelineInv, Answered, Continue
<1>3. trace' \in Seq(Entry)
  BY <1>1, <1>2, StagesTyped DEF PipelineInv
<1>4. Place'  BY Moving
<1> QED  BY <1>1, <1>2, <1>3, <1>4, GoingOn

(* A run that ends in a step that leaves the rest alone. *)
LEMMA EndingHere ==
    ASSUME PipelineInv, step # "done", trace' \in Seq(Entry), step' = "done", Closed',
           UNCHANGED <<llmEnabled, issue, calls, provider>>
    PROVE  PipelineInv'
<1>1. provider = "up" /\ calls \in 0 .. MaxSchemaRetries + 2
  BY DEF PipelineInv, TypeOK, Answered
<1> QED  BY <1>1, Ending

LEMMA RepairNext ==
    ASSUME PipelineInv, step \in Stage, Continue("repair_controller"),
           UNCHANGED <<llmEnabled, calls, provider>>, issue' \in ValidatorCode \cup {"literal_unresolved"}
    PROVE  PipelineInv'
<1>1. /\ step' = "repair_controller" /\ UNCHANGED answer /\ trace' \in Seq(Entry) /\ step # "done"
  BY StagesTyped DEF PipelineInv, Continue, Stage, GENERATED_STAGE_ORDER
<1>2. Place' /\ Room' /\ "repair_controller" \in Stage \ {"output"}
  BY <1>1 DEF Place, Room, Stage, GENERATED_STAGE_ORDER
<1>3. calls' \in 0 .. MaxSchemaRetries + 2  BY DEF PipelineInv, TypeOK
<1> QED  BY <1>1, <1>2, <1>3, GoingOn

-----------------------------------------------------------------------------
(* One lemma for each action. *)
LEMMA RunStageStep == PipelineInv /\ RunStage => PipelineInv'
<1> SUFFICES ASSUME PipelineInv, RunStage PROVE PipelineInv'  OBVIOUS
<1>1. /\ step \in DOMAIN After /\ Continue(After[step])
      /\ UNCHANGED <<llmEnabled, issue, calls, provider>>
  BY DEF RunStage
<1>2. <<step, After[step]>> \in Follows /\ step' = After[step]
  BY <1>1 DEF After, Follows, Continue
<1>3. Room' /\ calls \in 0 .. MaxSchemaRetries + 2
  BY <1>1, <1>2, RetriesAssumption DEF PipelineInv, Room, TypeOK, After
<1> QED  BY <1>1, <1>2, <1>3, Following

LEMMA InputClarificationGateStep == PipelineInv /\ InputClarificationGate => PipelineInv'
<1> SUFFICES ASSUME PipelineInv, InputClarificationGate PROVE PipelineInv'  OBVIOUS
<1>1. /\ step = "input_clarification_gate" /\ UNCHANGED <<llmEnabled, issue, calls, provider>>
      /\ calls = 0
  BY DEF InputClarificationGate, PipelineInv, Room
<1>2. CASE Continue("question_decomposer")
  <2>1. <<step, "question_decomposer">> \in Follows  BY <1>1 DEF Follows
  <2>2. Room' /\ calls' \in 0 .. MaxSchemaRetries + 2
    BY <1>1, <1>2, RetriesAssumption DEF Room, Continue
  <2> QED  BY <1>1, <1>2, <2>1, <2>2, Following
<1>3. CASE Clarification(Passed)
  <2>1. Passed \in Seq(Entry)
    BY <1>1, Places, StagesTyped DEF PipelineInv, Stage, GENERATED_STAGE_ORDER
  <2> QED  BY <1>1, <1>3, <2>1, Clarifying, EndingHere
<1> QED  BY <1>2, <1>3 DEF InputClarificationGate

LEMMA AskDecomposerStep == PipelineInv /\ AskDecomposer => PipelineInv'
<1> SUFFICES ASSUME PipelineInv, AskDecomposer PROVE PipelineInv'  OBVIOUS
<1>1. /\ step = "question_decomposer" /\ calls' = calls + 1 /\ UNCHANGED <<llmEnabled, issue>>
      /\ calls \in 0 .. MaxSchemaRetries /\ provider = "up"
  BY DEF AskDecomposer, PipelineInv, Room, TypeOK, Answered
<1>2. step \in Stage /\ Passed \in Seq(Entry)
  BY <1>1, Places, StagesTyped DEF PipelineInv, Stage, GENERATED_STAGE_ORDER
<1>3. calls' \in 0 .. MaxSchemaRetries + 2  BY <1>1, RetriesAssumption
<1>4. CASE Continue("candidate_retrieval") /\ UNCHANGED provider
  <2>1. <<step, "candidate_retrieval">> \in Follows  BY <1>1 DEF Follows
  <2>2. Room'  BY <1>1, <1>4, RetriesAssumption DEF Room, Continue
  <2> QED  BY <1>1, <1>3, <1>4, <2>1, <2>2, Following
<1>5. CASE Clarification(Passed) /\ UNCHANGED provider
  BY <1>1, <1>2, <1>3, <1>5, Clarifying, Ending
<1>6. CASE Failure(Passed, "question_decomposer_schema_invalid") /\ UNCHANGED provider
  BY <1>1, <1>2, <1>3, <1>6, FailingAnyway, Ending
<1>7. CASE Retry /\ UNCHANGED <<answer, step, trace, provider>>
  <2>1. Room'  BY <1>1, <1>7, RetriesAssumption DEF Room, Retry
  <2>2. Place'  BY <1>7 DEF PipelineInv, Place, Along
  <2>3. Answered'  BY <1>1, <1>7 DEF PipelineInv, Answered
  <2>4. TypeOK'  BY <1>1, <1>3, <1>7 DEF PipelineInv, TypeOK
  <2> QED  BY <2>1, <2>2, <2>3, <2>4 DEF PipelineInv
<1>8. CASE Failure(Passed, "model_invocation_failed") /\ provider' = "raised"
  <2>1. /\ trace' \in Seq(Entry) /\ step' = "done" /\ Closed'
        /\ answer' = [status |-> "service_failed", reason |-> "model_invocation_failed"]
    BY <1>2, <1>8, Failing DEF Failure, StatusForFailureReason, ServiceFailureReason
  <2> QED  BY <1>1, <1>3, <1>8, <2>1, Ending
<1> QED  BY <1>4, <1>5, <1>6, <1>7, <1>8 DEF AskDecomposer

LEMMA MockDecomposeStep == PipelineInv /\ MockDecompose => PipelineInv'
<1> SUFFICES ASSUME PipelineInv, MockDecompose PROVE PipelineInv'  OBVIOUS
<1>1. /\ step = "question_decomposer" /\ Continue("candidate_retrieval")
      /\ UNCHANGED <<llmEnabled, issue, calls, provider>> /\ calls \in 0 .. MaxSchemaRetries
  BY DEF MockDecompose, PipelineInv, Room, TypeOK
<1>2. <<step, "candidate_retrieval">> \in Follows  BY <1>1 DEF Follows
<1>3. Room' /\ calls' \in 0 .. MaxSchemaRetries + 2
  BY <1>1, RetriesAssumption DEF Room, Continue
<1> QED  BY <1>1, <1>2, <1>3, Following

LEMMA ResolveLiteralsStep == PipelineInv /\ ResolveLiterals => PipelineInv'
<1> SUFFICES ASSUME PipelineInv, ResolveLiterals PROVE PipelineInv'  OBVIOUS
<1>1. /\ step = "literal_resolver" /\ UNCHANGED <<llmEnabled, calls, provider>>
      /\ calls \in 0 .. MaxSchemaRetries + 1
  BY DEF ResolveLiterals, PipelineInv, Room, TypeOK
<1>2. step \in Stage /\ Passed \in Seq(Entry)
  BY <1>1, Places, StagesTyped DEF PipelineInv, Stage, GENERATED_STAGE_ORDER
<1>3. CASE Continue("deterministic_assembler") /\ UNCHANGED issue
  <2>1. <<step, "deterministic_assembler">> \in Follows  BY <1>1 DEF Follows
  <2>2. Room' /\ calls' \in 0 .. MaxSchemaRetries + 2
    BY <1>1, <1>3, RetriesAssumption DEF Room, Continue
  <2> QED  BY <1>1, <1>3, <2>1, <2>2, Following
<1>4. CASE Clarification(Passed) /\ UNCHANGED issue
  BY <1>1, <1>2, <1>4, Clarifying, EndingHere
<1>5. CASE Continue("repair_controller") /\ issue' = "literal_unresolved"
  BY <1>1, <1>2, <1>5, RepairNext
<1> QED  BY <1>3, <1>4, <1>5 DEF ResolveLiterals

LEMMA AssembleStep == PipelineInv /\ Assemble => PipelineInv'
<1> SUFFICES ASSUME PipelineInv, Assemble PROVE PipelineInv'  OBVIOUS
<1>1. /\ step = "deterministic_assembler" /\ UNCHANGED <<llmEnabled, issue, calls, provider>>
      /\ calls \in 0 .. MaxSchemaRetries + 1
  BY DEF Assemble, PipelineInv, Room, TypeOK
<1>2. ASSUME NEW next \in {"dsl_parser", "grounded_understanding"}, Continue(next)
      PROVE  PipelineInv'
  <2>1. <<step, next>> \in Follows  BY <1>1 DEF Follows
  <2>2. Room' /\ calls' \in 0 .. MaxSchemaRetries + 2
    BY <1>1, <1>2, RetriesAssumption DEF Room, Continue
  <2> QED  BY <1>1, <1>2, <2>1, <2>2, Following
<1> QED  BY <1>2 DEF Assemble

LEMMA AskGroundingStep == PipelineInv /\ AskGrounding => PipelineInv'
<1> SUFFICES ASSUME PipelineInv, AskGrounding PROVE PipelineInv'  OBVIOUS
<1>1. /\ step = "grounded_understanding" /\ calls' = calls + 1 /\ UNCHANGED <<llmEnabled, issue>>
      /\ calls \in 0 .. MaxSchemaRetries + 1 /\ provider = "up"
  BY DEF AskGrounding, PipelineInv, Room, TypeOK, Answered
<1>2. step \in Stage /\ Passed \in Seq(Entry)
  BY <1>1, Places, StagesTyped DEF PipelineInv, Stage, GENERATED_STAGE_ORDER
<1>3. calls' \in 0 .. MaxSchemaRetries + 2  BY <1>1, RetriesAssumption
<1>4. CASE Continue("semantic_binder") /\ UNCHANGED provider
  <2>1. <<step, "semantic_binder">> \in Follows  BY <1>1 DEF Follows
  <2>2. Room'  BY <1>1, <1>4, RetriesAssumption DEF Room, Continue
  <2> QED  BY <1>1, <1>3, <1>4, <2>1, <2>2, Following
<1>5. CASE Clarification(Passed) /\ UNCHANGED provider
  BY <1>1, <1>2, <1>3, <1>5, Clarifying, Ending
<1>6. ASSUME NEW reason, Failure(Passed, reason), UNCHANGED provider
      PROVE  PipelineInv'
  BY <1>1, <1>2, <1>3, <1>6, FailingAnyway, Ending
<1>7. CASE Failure(Passed, "model_invocation_failed") /\ provider' = "raised"
  <2>1. /\ trace' \in Seq(Entry) /\ step' = "done" /\ Closed'
        /\ answer' = [status |-> "service_failed", reason |-> "model_invocation_failed"]
    BY <1>2, <1>7, Failing DEF Failure, StatusForFailureReason, ServiceFailureReason
  <2> QED  BY <1>1, <1>3, <1>7, <2>1, Ending
<1> QED  BY <1>4, <1>5, <1>6, <1>7 DEF AskGrounding

LEMMA MockGroundingStep == PipelineInv /\ MockGrounding => PipelineInv'
<1> SUFFICES ASSUME PipelineInv, MockGrounding PROVE PipelineInv'  OBVIOUS
<1>1. /\ step = "grounded_understanding" /\ Continue("semantic_binder")
      /\ UNCHANGED <<llmEnabled, issue, calls, provider>>
  BY DEF MockGrounding
<1>2. <<step, "semantic_binder">> \in Follows  BY <1>1 DEF Follows
<1>3. Room' /\ calls' \in 0 .. MaxSchemaRetries + 2
  BY <1>1 DEF Room, Continue, PipelineInv, TypeOK
<1> QED  BY <1>1, <1>2, <1>3, Following

LEMMA ValidateSemanticsStep == PipelineInv /\ ValidateSemantics => PipelineInv'
<1> SUFFICES ASSUME PipelineInv, ValidateSemantics PROVE PipelineInv'  OBVIOUS
<1>1. step = "semantic_validator" /\ UNCHANGED <<llmEnabled, calls, provider>> /\ step \in Stage
  BY Places DEF ValidateSemantics, Stage, GENERATED_STAGE_ORDER
<1>2. CASE Continue("dsl_builder") /\ UNCHANGED issue
  <2>1. <<step, "dsl_builder">> \in Follows  BY <1>1 DEF Follows
  <2>2. Room' /\ calls' \in 0 .. MaxSchemaRetries + 2
    BY <1>1, <1>2 DEF Room, Continue, PipelineInv, TypeOK
  <2> QED  BY <1>1, <1>2, <2>1, <2>2, Following
<1>3. CASE Continue("repair_controller") /\ issue' \in ValidatorCode
  BY <1>1, <1>3, RepairNext
<1> QED  BY <1>2, <1>3 DEF ValidateSemantics

LEMMA DecideRepairStep == PipelineInv /\ DecideRepair => PipelineInv'
<1> SUFFICES ASSUME PipelineInv, DecideRepair PROVE PipelineInv'  OBVIOUS
<1>1. /\ step = "repair_controller" /\ UNCHANGED <<llmEnabled, issue, calls, provider>>
      /\ Clarification(Passed) \/ Failure(Passed, issue)
  BY DEF DecideRepair
<1>2. Passed \in Seq(Entry)  BY <1>1, StagesTyped DEF PipelineInv, Stage
<1>3. trace' \in Seq(Entry) /\ step' = "done" /\ Closed'
  BY <1>1, <1>2, Clarifying, FailingAnyway
<1> QED  BY <1>1, <1>3, EndingHere

LEMMA CheckCoverageStep == PipelineInv /\ CheckCoverage => PipelineInv'
<1> SUFFICES ASSUME PipelineInv, CheckCoverage PROVE PipelineInv'  OBVIOUS
<1>1. /\ step = "dsl_structural_coverage_gate" /\ UNCHANGED <<llmEnabled, issue, calls, provider>>
      /\ step \in Stage
  BY Places DEF CheckCoverage, Stage, GENERATED_STAGE_ORDER
<1>2. CASE Continue("cypher_compiler")
  <2>1. <<step, "cypher_compiler">> \in Follows  BY <1>1 DEF Follows
  <2>2. Room' /\ calls' \in 0 .. MaxSchemaRetries + 2
    BY <1>1, <1>2 DEF Room, Continue, PipelineInv, TypeOK
  <2> QED  BY <1>1, <1>2, <2>1, <2>2, Following
<1>3. CASE Failure(Broken, "coverage_failure")
  <2>1. Broken \in Seq(Entry)  BY <1>1, StagesTyped DEF PipelineInv
  <2> QED  BY <1>1, <1>3, <2>1, FailingAnyway, EndingHere
<1> QED  BY <1>2, <1>3 DEF CheckCoverage

(* A run along the whole of an order is one the service accepts. *)
LEMMA Complete ==
    ASSUME trace \in Seq(Entry),
           NEW order \in {GENERATED_STAGE_ORDER, DETERMINISTIC_GENERATED_STAGE_ORDER},
           NEW n \in Nat, NEW m, m = n + 1, NEW k, k = n + 2, Len(order) = k, Along(order, n),
           order[m] = step, order[k] = "output", step \in Stage, issue' = NoReason,
           Finish(Passed, "generated", NoReason)
    PROVE  trace' \in Seq(Entry) /\ Closed'
<1>1. /\ trace' = Append(Passed, [stage |-> "output", status |-> "success"])
      /\ answer' = [status |-> "generated", reason |-> NoReason]
  BY DEF Finish
<1>2. Passed = Append(trace, [stage |-> step, status |-> "success"])  BY DEF Passed
<1>3. Len(trace) = n /\ \A i \in 1 .. n : trace[i] = [stage |-> order[i], status |-> "success"]
  BY DEF Along
<1>4. "output" \in Stage
  <2>1. 16 \in DOMAIN GENERATED_STAGE_ORDER /\ GENERATED_STAGE_ORDER[16] = "output"
    BY DEF GENERATED_STAGE_ORDER
  <2> QED  BY <2>1 DEF Stage
<1>5. trace' \in Seq(Entry) /\ Len(trace') = n + 2 /\ DOMAIN trace' = 1 .. n + 2
  BY <1>1, <1>2, <1>3, <1>4 DEF Entry
<1>6. ASSUME NEW i \in 1 .. n + 2
      PROVE  trace'[i] = [stage |-> order[i], status |-> "success"]
  <2>1. CASE i = n + 2  BY <1>1, <1>2, <1>3, <2>1
  <2>2. CASE i = n + 1  BY <1>1, <1>2, <1>3, <2>2
  <2>3. CASE i \in 1 .. n
    <3>1. trace'[i] = trace[i]  BY <1>1, <1>2, <1>3, <2>3
    <3> QED  BY <1>3, <2>3, <3>1
  <2> QED  BY <2>1, <2>2, <2>3
<1>7. StageNames' = order
  <2>1. order \in Seq(Stage)  BY Orders
  <2>2. order = [i \in 1 .. n + 2 |-> order[i]]  BY <2>1
  <2>3. StageNames' = [i \in 1 .. n + 2 |-> trace'[i].stage]
    <3>1. StageNames' = [i \in DOMAIN trace' |-> trace'[i].stage]  BY DEF StageNames
    <3>2. DOMAIN trace' = 1 .. n + 2  BY <1>5
    <3> QED  BY <3>1, <3>2, Zenon
  <2>4. ASSUME NEW i \in 1 .. n + 2 PROVE trace'[i].stage = order[i]
    <3>1. trace'[i] = [stage |-> order[i], status |-> "success"]  BY <1>6
    <3> QED  BY <3>1
  <2> QED  BY <2>2, <2>3, <2>4
<1>8. Accepted'  BY <1>1, <1>7 DEF Accepted
<1>9. GeneratedIsSound'  BY <1>5, <1>6 DEF GeneratedIsSound
<1>10. answer' \in Answer  BY <1>1 DEF Answer
<1> QED  BY <1>5, <1>8, <1>9, <1>10 DEF Closed, OutputIsAccepted

LEMMA ValidateCypherStep == PipelineInv /\ ValidateCypher => PipelineInv'
<1> SUFFICES ASSUME PipelineInv, ValidateCypher PROVE PipelineInv'  OBVIOUS
<1>1. /\ step = "cypher_self_validation" /\ UNCHANGED <<llmEnabled, issue, calls, provider>>
      /\ step \in Stage /\ issue' = NoReason
  BY Places DEF ValidateCypher, PipelineInv, Answered, Stage, GENERATED_STAGE_ORDER
<1>2. trace \in Seq(Entry) /\ Broken \in Seq(Entry)  BY <1>1, StagesTyped DEF PipelineInv
<1>3. CASE Finish(Passed, "generated", NoReason)
  <2>1. CASE Along(GENERATED_STAGE_ORDER, 14)
    <3>1. GENERATED_STAGE_ORDER[15] = step /\ GENERATED_STAGE_ORDER[16] = "output"
      BY <1>1 DEF GENERATED_STAGE_ORDER
    <3>2. Len(GENERATED_STAGE_ORDER) = 16  BY Orders
    <3>3. trace' \in Seq(Entry) /\ Closed'
      <4>1. GENERATED_STAGE_ORDER \in {GENERATED_STAGE_ORDER, DETERMINISTIC_GENERATED_STAGE_ORDER}
        OBVIOUS
      <4>2. 14 \in Nat /\ 15 = 14 + 1 /\ 16 = 14 + 2  OBVIOUS
      <4> QED  BY <1>1, <1>2, <1>3, <2>1, <3>1, <3>2, <4>1, <4>2, Complete, ZenonT(30)
    <3> QED  BY <1>1, <1>3, <3>3, EndingHere DEF Finish
  <2>2. CASE Along(DETERMINISTIC_GENERATED_STAGE_ORDER, 10)
    <3>1. /\ DETERMINISTIC_GENERATED_STAGE_ORDER[11] = step
          /\ DETERMINISTIC_GENERATED_STAGE_ORDER[12] = "output"
      BY <1>1 DEF DETERMINISTIC_GENERATED_STAGE_ORDER
    <3>2. Len(DETERMINISTIC_GENERATED_STAGE_ORDER) = 12  BY Orders
    <3>3. trace' \in Seq(Entry) /\ Closed'
      <4>1. DETERMINISTIC_GENERATED_STAGE_ORDER \in {GENERATED_STAGE_ORDER, DETERMINISTIC_GENERATED_STAGE_ORDER}
        OBVIOUS
      <4>2. 10 \in Nat /\ 11 = 10 + 1 /\ 12 = 10 + 2  OBVIOUS
      <4> QED  BY <1>1, <1>2, <1>3, <2>2, <3>1, <3>2, <4>1, <4>2, Complete, ZenonT(30)
    <3> QED  BY <1>1, <1>3, <3>3, EndingHere DEF Finish
  <2> QED  BY <1>1, <2>1, <2>2 DEF PipelineInv, Place
<1>4. ASSUME NEW code, Failure(Broken, code) PROVE PipelineInv'
  BY <1>1, <1>2, <1>4, FailingAnyway, EndingHere
<1> QED  BY <1>3, <1>4 DEF ValidateCypher

LEMMA RaiseStep == PipelineInv /\ Raise => PipelineInv'
<1> SUFFICES ASSUME PipelineInv, Raise PROVE PipelineInv'  OBVIOUS
<1>1. UNCHANGED <<llmEnabled, issue, calls, provider>>  BY DEF Raise
<1>2. trace \in Seq(Entry)  BY DEF PipelineInv, TypeOK, Entry
<1>3. CASE step \in Stage /\ Unexpected(Broken)
  <2>1. Broken \in Seq(Entry)  BY <1>3, StagesTyped DEF PipelineInv
  <2>2. step # "done"  BY <1>3 DEF Stage, GENERATED_STAGE_ORDER
  <2> QED  BY <1>1, <1>3, <2>1, <2>2, FailingUnexpectedly, EndingHere
<1>4. CASE step \in DOMAIN Handled /\ Failure(Broken, Handled[step])
  <2>1. step \in Stage /\ step # "done"
    BY <1>4, Places DEF Handled, Stage, GENERATED_STAGE_ORDER
  <2>2. Broken \in Seq(Entry)  BY <2>1, StagesTyped DEF PipelineInv
  <2> QED  BY <1>1, <1>4, <2>1, <2>2, FailingAnyway, EndingHere
<1>5. CASE step \in Unrecorded /\ Unexpected(trace)
  <2>1. step # "done"  BY <1>5 DEF Unrecorded
  <2> QED  BY <1>1, <1>2, <1>5, <2>1, FailingUnexpectedly, EndingHere
<1>6. CASE /\ step \in {"dsl_structural_coverage_gate", "cypher_self_validation"}
           /\ Failure(trace, "compiler_shape_mismatch")
  <2>1. step # "done"  BY <1>6
  <2> QED  BY <1>1, <1>2, <1>6, <2>1, FailingAnyway, EndingHere
<1> QED  BY <1>3, <1>4, <1>5, <1>6 DEF Raise

-----------------------------------------------------------------------------
LEMMA NextInv == PipelineInv /\ [Next]_vars => PipelineInv'
<1> SUFFICES ASSUME PipelineInv, [Next]_vars PROVE PipelineInv'  OBVIOUS
<1>1. CASE Next
  BY <1>1, BuildClientStep, RunStageStep, InputClarificationGateStep, AskDecomposerStep,
     MockDecomposeStep, ResolveLiteralsStep, AssembleStep, AskGroundingStep, MockGroundingStep,
     ValidateSemanticsStep, DecideRepairStep, CheckCoverageStep, ValidateCypherStep, RaiseStep
  DEF Next
<1>2. CASE UNCHANGED vars
  <2>1. TypeOK'  BY <1>2 DEF vars, PipelineInv, TypeOK
  <2>2. Place'  BY <1>2 DEF vars, PipelineInv, Place, Along
  <2>3. Room'  BY <1>2 DEF vars, PipelineInv, Room
  <2>4. Answered'
    BY <1>2 DEF vars, PipelineInv, Answered, Closed, OutputIsAccepted, GeneratedIsSound,
                Accepted, StageNames
  <2> QED  BY <2>1, <2>2, <2>3, <2>4 DEF PipelineInv
<1> QED  BY <1>1, <1>2

LEMMA Invariance == Spec => []PipelineInv
  BY InitInv, NextInv, PTL DEF Spec

(* Every variable keeps its type; in particular the LLM is asked at most    *)
(* MaxSchemaRetries + 2 times in a run, however often its answers break the *)
(* schema.                                                                  *)
THEOREM TypeCorrect == Spec => []TypeOK
<1>1. PipelineInv => TypeOK  BY DEF PipelineInv
<1> QED  BY <1>1, Invariance, PTL

(* Whatever its stages do, a run ends with an output the service accepts.   *)
THEOREM OutputAccepted == Spec => []OutputIsAccepted
<1>1. PipelineInv => OutputIsAccepted
  BY DEF PipelineInv, Answered, Closed, OutputIsAccepted
<1> QED  BY <1>1, Invariance, PTL

(* A query is generated only if every stage of the run succeeded and the    *)
(* repair controller had nothing to decide.                                 *)
THEOREM GeneratedSound == Spec => []GeneratedIsSound
<1>1. PipelineInv => GeneratedIsSound
  BY DEF PipelineInv, Answered, Closed, GeneratedIsSound
<1> QED  BY <1>1, Invariance, PTL

(* When the LLM cannot be called the run ends, and says so.                 *)
THEOREM ProviderFailureReported == Spec => []ProviderFailureIsReported
<1>1. PipelineInv => ProviderFailureIsReported
  BY DEF PipelineInv, Answered, ProviderFailureIsReported
<1> QED  BY <1>1, Invariance, PTL

(* The pipeline implements the safety part of GenerationSpec: it gives one  *)
(* answer, well formed, and never revises it.                               *)
THEOREM PipelineGeneratesOnce == Spec => answer = NoAnswer /\ [][Generate]_answer
<1>1. Init => answer = NoAnswer  BY DEF Init
<1>2. PipelineInv /\ PipelineInv' /\ [Next]_vars => [Generate]_answer
  <2> SUFFICES ASSUME PipelineInv, PipelineInv', Next PROVE [Generate]_answer
    BY DEF vars
  <2>1. step # "done"
    <3>1. "done" \notin Stage  BY DEF Stage, GENERATED_STAGE_ORDER
    <3> QED
      BY <3>1 DEF Next, BuildClient, RunStage, After, InputClarificationGate, AskDecomposer,
                  MockDecompose, ResolveLiterals, Assemble, AskGrounding, MockGrounding,
                  ValidateSemantics, DecideRepair, CheckCoverage, ValidateCypher, Raise,
                  Handled, Unrecorded
  <2>2. answer = NoAnswer  BY <2>1 DEF PipelineInv, Answered
  <2>3. answer' \in Answer \cup {NoAnswer}  BY DEF PipelineInv, TypeOK
  <2> QED  BY <2>2, <2>3 DEF Generate
<1> QED  BY <1>1, <1>2, Invariance, PTL DEF Spec
=============================================================================
