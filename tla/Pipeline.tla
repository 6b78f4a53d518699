------------------------------ MODULE Pipeline -------------------------------
(***************************************************************************)
(* One run of the Cypher generation pipeline                               *)
(* (src/services/cypher_generator_agent/app/core/pipeline.py,              *)
(* _run_pipeline_steps): the stages, what each may end the run with, the   *)
(* trace they leave behind, and the contract by which the service          *)
(* (api/service.py) takes the output or refuses to submit it.              *)
(*                                                                         *)
(* What a stage computes is abstracted to what the control flow tells      *)
(* apart: it has a usable result, an unusable one of some kind, or raises. *)
(* A run shares no state with the others; it is one sequential process.    *)
(***************************************************************************)
EXTENDS Generation, Integers, Sequences

CONSTANT MaxSchemaRetries  \* llm_max_schema_retries

ASSUME RetriesAssumption == MaxSchemaRetries \in Nat

VARIABLES
    llmEnabled,  \* settings.llm_enabled
    step,        \* the stage to run next
    trace,       \* GraphTraceBuilder._stages
    issue,       \* the first issue the repair controller is to decide about
    calls,       \* LLM calls made
    provider     \* history: whether a call of the LLM has raised

vars == <<answer, llmEnabled, step, trace, issue, calls, provider>>

(* The two orders a generated trace may have. *)
DETERMINISTIC_GENERATED_STAGE_ORDER ==
    <<"graph_model_loader", "input_clarification_gate", "question_decomposer",
      "candidate_retrieval", "candidate_reranker", "literal_resolver",
      "deterministic_assembler", "dsl_parser", "dsl_structural_coverage_gate",
      "cypher_compiler", "cypher_self_validation", "output">>

GENERATED_STAGE_ORDER ==
    <<"graph_model_loader", "input_clarification_gate", "question_decomposer",
      "candidate_retrieval", "candidate_reranker", "literal_resolver",
      "deterministic_assembler", "grounded_understanding", "semantic_binder",
      "semantic_validator", "dsl_builder", "dsl_parser", "dsl_structural_coverage_gate",
      "cypher_compiler", "cypher_self_validation", "output">>

Stage == {GENERATED_STAGE_ORDER[i] : i \in DOMAIN GENERATED_STAGE_ORDER} \cup {"repair_controller"}

(* The code of the first error of SemanticValidator, the only one decided on. *)
ValidatorCode ==
    {"coverage_failure", "projection_coverage_missing", "unsupported_query_shape",
     "binding_plan_incomplete", "edge_endpoint_mismatch", "property_owner_mismatch",
     "metric_dimension_invalid", "metric_group_by_invalid", "invalid_aggregate_property_type"}

(* The first error of CypherSelfValidator.  A parameter placeholder is none *)
(* of them: inlining the parameters raises before.                          *)
SelfValidationCode ==
    {"cypher_syntax_invalid", "cypher_readonly_violation", "target_dialect_static_error",
     "cypher_schema_reference_invalid", "compiler_shape_mismatch"}

Init ==
    /\ answer = NoAnswer
    /\ llmEnabled \in BOOLEAN
    /\ step = "client"
    /\ trace = <<>>
    /\ issue = NoReason
    /\ calls = 0
    /\ provider = "up"

-----------------------------------------------------------------------------
(***************************************************************************)
(* How a stage, and the run, ends.                                         *)
(***************************************************************************)
Passed == Append(trace, [stage |-> step, status |-> "success"])
Broken == Append(trace, [stage |-> step, status |-> "failed"])

Continue(next) ==
    /\ trace' = Passed
    /\ step' = next
    /\ UNCHANGED answer

(* The output stage and the GenerationOutput. *)
Finish(stages, status, reason) ==
    /\ trace' = Append(stages, [stage |-> "output",
                                status |-> IF status = "generated" THEN "success" ELSE "failed"])
    /\ answer' = [status |-> status, reason |-> reason]
    /\ step' = "done"

StatusForFailureReason(reason) ==
    CASE reason \in ServiceFailureReason -> "service_failed"
      [] reason = "unsupported_query_shape" -> "unsupported_query_shape"
      [] reason \notin GenerationFailureReason \cup ServiceFailureReason -> "service_failed"
      [] OTHER -> "generation_failed"

Fail(stages, reason) == Finish(stages, StatusForFailureReason(reason), reason)

(* An exception that no stage handles. *)
Unexpected(stages) ==
    Fail(stages, IF stages # <<>> /\ stages[Len(stages)].stage = "graph_model_loader"
                 THEN "knowledge_context_unavailable" ELSE "semantic_contract_unaligned")

(* _failure.  A reason that is in neither enumeration fails the validation  *)
(* of the output when its stage is already in the trace.                    *)
Failure(stages, reason) ==
    IF reason \in GenerationFailureReason \cup ServiceFailureReason
    THEN Fail(stages, reason)
    ELSE Unexpected(Append(stages, [stage |-> "output", status |-> "failed"]))

Clarification(stages) == Finish(stages, "clarification_required", NoReason)

-----------------------------------------------------------------------------
(***************************************************************************)
(* The stages.                                                             *)
(***************************************************************************)

(* The LLM client is built before the first stage. *)
BuildClient ==
    /\ step = "client"
    /\ step' = "graph_model_loader"
    /\ UNCHANGED <<answer, llmEnabled, trace, issue, calls, provider>>

SkipReranker ==
    [graph_model_loader |-> "input_clarification_gate",
     candidate_retrieval |-> "literal_resolver",
     candidate_reranker |-> "literal_resolver",
     semantic_binder |-> "semantic_validator",
     dsl_builder |-> "dsl_parser",
     dsl_parser |-> "dsl_structural_coverage_gate",
     cypher_compiler |-> "cypher_self_validation"]

(* Stages whose result is used whatever it is. *)
After ==
    [graph_model_loader |-> "input_clarification_gate",
     candidate_retrieval |-> "candidate_reranker",
     candidate_reranker |-> "literal_resolver",
     semantic_binder |-> "semantic_validator",
     dsl_builder |-> "dsl_parser",
     dsl_parser |-> "dsl_structural_coverage_gate",
     cypher_compiler |-> "cypher_self_validation"]

RunStage ==
    /\ step \in DOMAIN After
    /\ Continue(After[step])
    /\ UNCHANGED <<llmEnabled, issue, calls, provider>>

(* The question is empty or refers to something it does not name. *)
InputClarificationGate ==
    /\ step = "input_clarification_gate"
    /\ Continue("question_decomposer") \/ Clarification(Passed)
    /\ UNCHANGED <<llmEnabled, issue, calls, provider>>

Retry == calls < MaxSchemaRetries

MockOnProviderFailure ==
    /\ step = "question_decomposer"
    /\ llmEnabled
    /\ calls' = calls + 1
    /\ Continue("candidate_retrieval")
    /\ provider' \in {"up", "raised"}
    /\ UNCHANGED <<llmEnabled, issue>>

(* QuestionDecomposer.decompose: an answer against the schema is asked for  *)
(* again, a provider that fails is not.                                     *)
AskDecomposer ==
    /\ step = "question_decomposer"
    /\ llmEnabled
    /\ calls' = calls + 1
    /\ \/ /\ Continue("candidate_retrieval") \/ Clarification(Passed)
          /\ UNCHANGED provider
       \/ /\ IF Retry THEN UNCHANGED <<answer, step, trace>>
             ELSE Failure(Passed, "question_decomposer_schema_invalid")
          /\ UNCHANGED provider
       \/ /\ Failure(Passed, "model_invocation_failed")
          /\ provider' = "raised"
    /\ UNCHANGED <<llmEnabled, issue>>

(* Without an LLM the decomposition is looked up. *)
MockDecompose ==
    /\ step = "question_decomposer"
    /\ ~ llmEnabled
    /\ Continue("candidate_retrieval")
    /\ UNCHANGED <<llmEnabled, issue, calls, provider>>

(* An unresolved literal goes to the repair controller, a projection of a   *)
(* bare object back to the user.                                            *)
ResolveLiterals ==
    /\ step = "literal_resolver"
    /\ \/ /\ Continue("deterministic_assembler") \/ Clarification(Passed)
          /\ UNCHANGED issue
       \/ /\ Continue("repair_controller")
          /\ issue' = "literal_unresolved"
    /\ UNCHANGED <<llmEnabled, calls, provider>>

(* A hit skips the stages in between, a miss is the fallback's. *)
Assemble ==
    /\ step = "deterministic_assembler"
    /\ Continue("dsl_parser") \/ Continue("grounded_understanding")
    /\ UNCHANGED <<llmEnabled, issue, calls, provider>>

(* GroundedUnderstandingSelector.select, in a single shot. *)
AskGrounding ==
    /\ step = "grounded_understanding"
    /\ llmEnabled
    /\ calls' = calls + 1
    /\ \/ /\ \/ Continue("semantic_binder")
             \/ Clarification(Passed)
             \/ \E reason \in {"grounded_understanding_schema_invalid", "semantic_match_rejected",
                               "unsupported_query_shape", "single_shot_fallback_failed"} :
                   Failure(Passed, reason)
          /\ UNCHANGED provider
       \/ /\ Failure(Passed, "model_invocation_failed")
          /\ provider' = "raised"
    /\ UNCHANGED <<llmEnabled, issue>>

MockGrounding ==
    /\ step = "grounded_understanding"
    /\ ~ llmEnabled
    /\ Continue("semantic_binder")
    /\ UNCHANGED <<llmEnabled, issue, calls, provider>>

ValidateSemantics ==
    /\ step = "semantic_validator"
    /\ \/ Continue("dsl_builder") /\ UNCHANGED issue
       \/ Continue("repair_controller") /\ issue' \in ValidatorCode
    /\ UNCHANGED <<llmEnabled, calls, provider>>

(* RepairController.decide and _handle_repair_decision: it never sends the  *)
(* run back to a stage.                                                     *)
DecideRepair ==
    /\ step = "repair_controller"
    /\ IF issue \in {"coverage_failure", "literal_unresolved"} THEN Clarification(Passed)
       ELSE Failure(Passed, issue)
    /\ UNCHANGED <<llmEnabled, issue, calls, provider>>

UncoveredGoesOn ==
    /\ step = "dsl_structural_coverage_gate"
    /\ \E status \in {"success", "failed"} :
          trace' = Append(trace, [stage |-> step, status |-> status])
    /\ step' = "cypher_compiler"
    /\ UNCHANGED <<answer, llmEnabled, issue, calls, provider>>

FailWithoutReturn ==
    /\ step = "dsl_structural_coverage_gate"
    /\ \/ Continue("cypher_compiler")
       \/ /\ trace' = Append(Broken, [stage |-> "output", status |-> "failed"])
          /\ answer' = [status |-> "generation_failed", reason |-> "coverage_failure"]
          /\ step' = "cypher_compiler"
    /\ UNCHANGED <<llmEnabled, issue, calls, provider>>

(* The DSL lacks something the question's structure requires. *)
CheckCoverage ==
    /\ step = "dsl_structural_coverage_gate"
    /\ Continue("cypher_compiler") \/ Failure(Broken, "coverage_failure")
    /\ UNCHANGED <<llmEnabled, issue, calls, provider>>

ValidateCypher ==
    /\ step = "cypher_self_validation"
    /\ \/ Finish(Passed, "generated", NoReason)
       \/ \E code \in SelfValidationCode : Failure(Broken, code)
    /\ UNCHANGED <<llmEnabled, issue, calls, provider>>

(* A stage raises.  The binder's and the DSL's and compiler's errors have a *)
(* reason of their own; what raises around a stage leaves no trace of it.   *)
Handled ==
    [s \in {"semantic_binder", "dsl_builder", "dsl_parser", "cypher_compiler"} |->
        IF s = "semantic_binder" THEN "semantic_match_rejected" ELSE "compiler_shape_mismatch"]

Unrecorded ==
    {"client", "question_decomposer", "candidate_retrieval", "literal_resolver",
     "deterministic_assembler", "grounded_understanding", "semantic_binder", "dsl_builder",
     "dsl_structural_coverage_gate", "cypher_self_validation"}

Raise ==
    /\ \/ /\ step \in Stage \ {"input_clarification_gate", "dsl_structural_coverage_gate",
                               "cypher_self_validation", "output"}
          /\ Unexpected(Broken)
       \/ step \in DOMAIN Handled /\ Failure(Broken, Handled[step])
       \/ step \in Unrecorded /\ Unexpected(trace)
       \/ /\ step \in {"dsl_structural_coverage_gate", "cypher_self_validation"}
          /\ Failure(trace, "compiler_shape_mismatch")
    /\ UNCHANGED <<llmEnabled, issue, calls, provider>>

Next ==
    \/ BuildClient \/ RunStage \/ InputClarificationGate
    \/ AskDecomposer \/ MockDecompose
    \/ ResolveLiterals \/ Assemble
    \/ AskGrounding \/ MockGrounding
    \/ ValidateSemantics \/ DecideRepair
    \/ CheckCoverage \/ ValidateCypher
    \/ Raise

(* The stages run one after the other in one thread; the LLM's client has   *)
(* a timeout.                                                               *)
Spec == Init /\ [][Next]_vars /\ WF_vars(Next)

-----------------------------------------------------------------------------
(***************************************************************************)
(* build_testing_agent_payload: an output that is not accepted raises and  *)
(* is not submitted.                                                       *)
(***************************************************************************)
StageNames == [i \in DOMAIN trace |-> trace[i].stage]

Accepted ==
    IF answer.status = "generated"
    THEN StageNames \in {GENERATED_STAGE_ORDER, DETERMINISTIC_GENERATED_STAGE_ORDER}
    ELSE trace # <<>> /\ trace[Len(trace)].stage = "output"

-----------------------------------------------------------------------------
(* The prompt for an answer is repeated at most MaxSchemaRetries times for  *)
(* the decomposition and never for the grounding.                           *)
TypeOK ==
    /\ answer \in Answer \cup {NoAnswer}
    /\ llmEnabled \in BOOLEAN
    /\ step \in (Stage \ {"output"}) \cup {"client", "done"}
    /\ trace \in Seq([stage : Stage, status : {"success", "failed"}])
    /\ issue \in ValidatorCode \cup {"literal_unresolved", NoReason}
    /\ calls \in 0 .. MaxSchemaRetries + 2
    /\ provider \in {"up", "raised"}

(* Whatever the stages do, the service accepts the output of the run: the   *)
(* orders it knows are the ones the pipeline's two routes take, and a run   *)
(* that ends early still ends in the output stage.                          *)
OutputIsAccepted == answer # NoAnswer => Accepted

(* A query is generated only if no stage of the run failed, and only if the *)
(* validator had no issue when the query is the fallback's.                 *)
GeneratedIsSound ==
    (answer # NoAnswer /\ answer.status = "generated") =>
        /\ \A i \in DOMAIN trace : trace[i].status = "success"
        /\ issue = NoReason

(* A run whose LLM could not be called is reported as just that, and so     *)
(* stays out of the evaluation.                                             *)
ProviderFailureIsReported ==
    (answer # NoAnswer /\ provider = "raised") =>
        answer = [status |-> "service_failed", reason |-> "model_invocation_failed"]

(* What the design says of the repair controller: whatever the issue, it    *)
(* asks the user, finds the shape unsupported or fails the generation.      *)
DecidedIsNoServiceFailure ==
    (/\ answer # NoAnswer
     /\ \E i \in DOMAIN trace : trace[i] = [stage |-> "repair_controller", status |-> "success"])
        => answer.status # "service_failed"
=============================================================================
