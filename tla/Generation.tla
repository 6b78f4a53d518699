----------------------------- MODULE Generation ------------------------------
(***************************************************************************)
(* What a run of the generation pipeline promises its caller: one answer,  *)
(* given once and never revised, whose status agrees with its reason       *)
(* (src/services/cypher_generator_agent/app/core/result.py and errors.py). *)
(***************************************************************************)

CONSTANTS
    NoAnswer,  \* run_pipeline has not returned
    NoReason   \* an answer without failure

VARIABLE answer  \* the GenerationOutput

(* The failure reasons the pipeline gives. *)
GenerationFailureReason ==
    {"semantic_match_rejected", "edge_endpoint_mismatch", "property_owner_mismatch",
     "metric_dimension_invalid", "metric_group_by_invalid", "binding_plan_incomplete",
     "cypher_syntax_invalid", "cypher_readonly_violation", "cypher_schema_reference_invalid",
     "compiler_shape_mismatch", "target_dialect_static_error", "unsupported_query_shape",
     "coverage_failure", "question_decomposer_schema_invalid",
     "grounded_understanding_schema_invalid", "single_shot_fallback_failed"}

ServiceFailureReason ==
    {"knowledge_context_unavailable", "semantic_contract_unaligned", "model_invocation_failed"}

(* validate_status_payload *)
Answer ==
    [status : {"generated", "clarification_required"}, reason : {NoReason}]
    \cup [status : {"unsupported_query_shape"}, reason : {"unsupported_query_shape"}]
    \cup [status : {"generation_failed"}, reason : GenerationFailureReason]
    \cup [status : {"service_failed"}, reason : ServiceFailureReason]

ASSUME NoAnswerAssumption == NoAnswer \notin Answer
ASSUME NoReasonAssumption == NoReason \notin GenerationFailureReason \cup ServiceFailureReason

Generate ==
    /\ answer = NoAnswer
    /\ answer' \in Answer

GenerationSpec == answer = NoAnswer /\ [][Generate]_answer /\ WF_answer(Generate)
=============================================================================
