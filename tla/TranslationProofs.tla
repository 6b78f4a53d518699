------------------------- MODULE TranslationProofs -------------------------
(* That Translation implements Pipeline, whatever the graph model, the       *)
(* questions and the answers of the LLM are: each action of a run is one of  *)
(* Pipeline's, as the stages compute one of the errors Pipeline knows. Two   *)
(* facts make it so: a run of Translation always has an LLM, and the code a  *)
(* failed check reports is one of its stage's.                               *)
(*                                                                           *)
(* And that the compiler does not break on what the parser has accepted.     *)
(* Each role it looks up has a variable (CompilerHolds) if the roles of the  *)
(* DSL are on its path or in its aggregate (Wired), which is not the parser's *)
(* doing but the builder's and the assemblers' (BuiltIsWired,                *)
(* AssembledIsWired). GapsInv carries it to the runs.                        *)
EXTENDS Translation, FiniteSetTheorems, WellFoundedInduction, TLAPS

LLMEnabled == llmEnabled = TRUE

-----------------------------------------------------------------------------
(* The validator's codes: a plan with errors is reported with one of them.     *)

LEMMA ErrorsOfThePlan ==
    ASSUME NEW p, NEW coverage
    PROVE  Validate(p, coverage) \subseteq {IssueOrder[i] : i \in DOMAIN IssueOrder}
<1> DEFINE Codes == {IssueOrder[i] : i \in DOMAIN IssueOrder}
<1>1. /\ IssueOrder[1] = "coverage_failure" /\ IssueOrder[2] = "projection_coverage_missing"
      /\ IssueOrder[3] = "unsupported_query_shape" /\ IssueOrder[4] = "binding_plan_incomplete"
      /\ IssueOrder[5] = "edge_endpoint_mismatch" /\ IssueOrder[6] = "property_owner_mismatch"
      /\ IssueOrder[7] = "metric_dimension_invalid" /\ IssueOrder[8] = "invalid_aggregate_property_type"
      /\ DOMAIN IssueOrder = 1..8
  BY DEF IssueOrder
<1>2. \A i \in 1..8 : IssueOrder[i] \in Codes  BY <1>1
<1>3. CoverageErrors(p, coverage) \subseteq Codes  BY <1>1, <1>2 DEF CoverageErrors
<1>4. DslSupportErrors(p) \subseteq Codes  BY <1>1, <1>2 DEF DslSupportErrors
<1>5. EdgeEndpointErrors(p) \subseteq Codes  BY <1>1, <1>2 DEF EdgeEndpointErrors
<1>6. PropertyOwnerErrors(p) \subseteq Codes  BY <1>1, <1>2 DEF PropertyOwnerErrors
<1>7. MetricDimensionErrors(p) \subseteq Codes  BY <1>1, <1>2 DEF MetricDimensionErrors
<1>8. AggregateFunctionErrors(p) \subseteq Codes  BY <1>1, <1>2 DEF AggregateFunctionErrors
<1> QED  BY <1>3, <1>4, <1>5, <1>6, <1>7, <1>8 DEF Validate

LEMMA FirstIssueIsOne ==
    ASSUME NEW errors, errors # {}, errors \subseteq {IssueOrder[i] : i \in DOMAIN IssueOrder}
    PROVE  FirstIssue(errors) \in errors
<1> DEFINE Reported(i) == i \in DOMAIN IssueOrder /\ IssueOrder[i] \in errors
           First(i) == Reported(i) /\ \A j \in DOMAIN IssueOrder : IssueOrder[j] \in errors => i <= j
<1>1. DOMAIN IssueOrder = 1..8  BY DEF IssueOrder
<1>2. \E i \in 1..8 : Reported(i)  BY <1>1
<1>3. \E i \in 1..8 : First(i)  BY <1>1, <1>2
<1>4. PICK k \in DOMAIN IssueOrder :
        /\ IssueOrder[k] \in errors
        /\ \A j \in DOMAIN IssueOrder : IssueOrder[j] \in errors => k <= j
  BY <1>1, <1>3
<1> QED  BY <1>4 DEF FirstIssue, Min

LEMMA IssueIsPipelines ==
    ASSUME NEW p, NEW coverage, Validate(p, coverage) # {}
    PROVE  FirstIssue(Validate(p, coverage)) \in P!ValidatorCode
<1>1. FirstIssue(Validate(p, coverage)) \in {IssueOrder[i] : i \in DOMAIN IssueOrder}
  BY ErrorsOfThePlan, FirstIssueIsOne
<1> QED  BY <1>1 DEF IssueOrder, P!ValidatorCode

-----------------------------------------------------------------------------
(* The codes of the self-validation.                                           *)

LEMMA SelfValidationIsPipelines ==
    ASSUME NEW q, NEW expected
    PROVE  SelfValidationErrors(q, expected) \subseteq P!SelfValidationCode
<1> DEFINE checks == <<SyntaxErrors(q), ReadonlyErrors(q), DialectErrors(q), SchemaErrors(q), ShapeErrors(q, expected)>>
           failed == {i \in DOMAIN checks : checks[i] # {}}
<1>1. DOMAIN checks = 1..5  OBVIOUS
<1>2. \A i \in 1..5 : checks[i] \subseteq P!SelfValidationCode
  BY DEF SyntaxErrors, ReadonlyErrors, DialectErrors, SchemaErrors, ShapeErrors, P!SelfValidationCode
<1>3. CASE failed = {}
  <2>1. SelfValidationErrors(q, expected) = {}  BY <1>3 DEF SelfValidationErrors, FirstFailure
  <2> QED  BY <2>1
<1>4. CASE failed # {}
  <2>1. failed \subseteq 1..5  BY <1>1
  <2>2. PICK k \in failed : \A j \in failed : k <= j  BY <1>4, <2>1
  <2>3. Min(failed) \in 1..5  BY <2>1, <2>2 DEF Min
  <2>4. SelfValidationErrors(q, expected) = checks[Min(failed)]  BY <1>4 DEF SelfValidationErrors, FirstFailure
  <2> QED  BY <1>2, <2>3, <2>4
<1> QED  BY <1>3, <1>4

-----------------------------------------------------------------------------
(* A run never goes without its LLM.                                           *)

LEMMA LLMStays == Spec => []LLMEnabled
<1>1. Init => LLMEnabled  BY DEF Init, LLMEnabled, P!Init
<1>2. LLMEnabled /\ [Next]_vars => LLMEnabled'
  <2> SUFFICES ASSUME LLMEnabled, [Next]_vars PROVE llmEnabled' = llmEnabled  BY DEF LLMEnabled
  <2>1. CASE Prepare  BY <2>1 DEF Prepare, P!BuildClient, P!RunStage, settings
  <2>2. CASE Decompose  BY <2>2 DEF Decompose, settings
  <2>3. CASE ResolveLiterals  BY <2>3 DEF ResolveLiterals, settings
  <2>4. CASE AssembleDsl  BY <2>4 DEF AssembleDsl, Go, settings
  <2>5. CASE Understand  BY <2>5 DEF Understand, settings
  <2>6. CASE BindUnderstanding  BY <2>6 DEF BindUnderstanding, Go, Stop, settings
  <2>7. CASE ValidatePlan  BY <2>7 DEF ValidatePlan, settings
  <2>8. CASE DecideRepair  BY <2>8 DEF DecideRepair, P!DecideRepair
  <2>9. CASE BuildDsl  BY <2>9 DEF BuildDsl, Go, Stop, settings
  <2>10. CASE ParseDsl  BY <2>10 DEF ParseDsl, Go, Stop, settings
  <2>11. CASE CheckCoverage  BY <2>11 DEF CheckCoverage, Go, Stop, settings
  <2>12. CASE CompileQuery  BY <2>12 DEF CompileQuery, Go, Stop, settings
  <2>13. CASE ValidateQuery  BY <2>13 DEF ValidateQuery, Stop, settings
  <2>14. CASE Returned \/ UNCHANGED vars  BY <2>14 DEF Returned, vars, settings
  <2> QED  BY <2>1, <2>2, <2>3, <2>4, <2>5, <2>6, <2>7, <2>8, <2>9, <2>10, <2>11, <2>12, <2>13, <2>14 DEF Next
<1> QED  BY <1>1, <1>2, PTL DEF Spec

-----------------------------------------------------------------------------
(* Each action is one of Pipeline's.                                           *)

LEMMA StagePasses ==
    ASSUME step \in DOMAIN P!After, P!Continue(P!After[step]), UNCHANGED <<issue, calls, settings>>
    PROVE  P!RunStage
BY DEF P!RunStage, settings

LEMMA StageRaises ==
    ASSUME step \in {"semantic_binder", "dsl_builder", "dsl_parser", "cypher_compiler"},
           P!Unexpected(P!Broken) \/ P!Failure(P!Broken, P!Handled[step]),
           UNCHANGED <<issue, calls, settings>>
    PROVE  P!Raise
<1>1. step \in P!Stage \ {"input_clarification_gate", "dsl_structural_coverage_gate",
                          "cypher_self_validation", "output"}
  <2>1. /\ P!GENERATED_STAGE_ORDER[9] = "semantic_binder" /\ P!GENERATED_STAGE_ORDER[11] = "dsl_builder"
        /\ P!GENERATED_STAGE_ORDER[12] = "dsl_parser" /\ P!GENERATED_STAGE_ORDER[14] = "cypher_compiler"
        /\ DOMAIN P!GENERATED_STAGE_ORDER = 1..16
    BY DEF P!GENERATED_STAGE_ORDER
  <2> QED  BY <2>1 DEF P!Stage
<1>2. step \in DOMAIN P!Handled  BY DEF P!Handled
<1> QED  BY <1>1, <1>2 DEF P!Raise, settings

LEMMA StepIsPipelines ==
    ASSUME LLMEnabled, [Next]_vars
    PROVE  [P!Next]_(P!vars)
<1>1. CASE Prepare
  <2>1. CASE P!BuildClient  BY <2>1 DEF P!Next
  <2>2. CASE P!RunStage  BY <2>2 DEF P!Next
  <2>3. CASE /\ step = "input_clarification_gate"
             /\ P!Continue("question_decomposer") /\ UNCHANGED <<issue, calls, settings>>
    BY <2>3 DEF P!InputClarificationGate, P!Next, settings
  <2> QED  BY <1>1, <2>1, <2>2, <2>3 DEF Prepare
<1>2. CASE Decompose
  <2>1. P!AskDecomposer  BY <1>2 DEF Decompose, P!AskDecomposer, LLMEnabled, settings
  <2> QED  BY <2>1 DEF P!Next
<1>3. CASE ResolveLiterals
  <2>1. P!ResolveLiterals  BY <1>3 DEF ResolveLiterals, P!ResolveLiterals, settings
  <2> QED  BY <2>1 DEF P!Next
<1>4. CASE AssembleDsl
  <2>1. P!Assemble  BY <1>4 DEF AssembleDsl, Go, P!Assemble, settings
  <2> QED  BY <2>1 DEF P!Next
<1>5. CASE Understand
  <2>1. P!AskGrounding  BY <1>5 DEF Understand, P!AskGrounding, LLMEnabled, settings
  <2> QED  BY <2>1 DEF P!Next
<1>6. CASE BindUnderstanding
  <2>1. step = "semantic_binder" /\ UNCHANGED <<issue, calls, settings>>
    BY <1>6 DEF BindUnderstanding, Go, Stop
  <2>2. step \in DOMAIN P!After /\ P!After[step] = "semantic_validator"  BY <2>1 DEF P!After
  <2>3. P!Handled[step] = "semantic_match_rejected"  BY <2>1 DEF P!Handled
  <2>4. \/ P!Continue("semantic_validator")
        \/ P!Unexpected(P!Broken) \/ P!Failure(P!Broken, "semantic_match_rejected")
    BY <1>6 DEF BindUnderstanding, Go, Stop
  <2> QED  BY <2>1, <2>2, <2>3, <2>4, StagePasses, StageRaises DEF P!Next
<1>7. CASE ValidatePlan
  <2>1. P!ValidateSemantics
    BY <1>7, IssueIsPipelines DEF ValidatePlan, P!ValidateSemantics, settings
  <2> QED  BY <2>1 DEF P!Next
<1>8. CASE DecideRepair  BY <1>8 DEF DecideRepair, P!Next
<1>9. CASE BuildDsl
  <2>1. step = "dsl_builder" /\ UNCHANGED <<issue, calls, settings>>  BY <1>9 DEF BuildDsl, Go, Stop
  <2>2. step \in DOMAIN P!After /\ P!After[step] = "dsl_parser"  BY <2>1 DEF P!After
  <2>3. P!Handled[step] = "compiler_shape_mismatch"  BY <2>1 DEF P!Handled
  <2>4. P!Continue("dsl_parser") \/ P!Failure(P!Broken, "compiler_shape_mismatch")
    BY <1>9 DEF BuildDsl, Go, Stop
  <2> QED  BY <2>1, <2>2, <2>3, <2>4, StagePasses, StageRaises DEF P!Next
<1>10. CASE ParseDsl
  <2>1. step = "dsl_parser" /\ UNCHANGED <<issue, calls, settings>>  BY <1>10 DEF ParseDsl, Go, Stop
  <2>2. step \in DOMAIN P!After /\ P!After[step] = "dsl_structural_coverage_gate"  BY <2>1 DEF P!After
  <2>3. P!Handled[step] = "compiler_shape_mismatch"  BY <2>1 DEF P!Handled
  <2>4. P!Continue("dsl_structural_coverage_gate") \/ P!Failure(P!Broken, "compiler_shape_mismatch")
    BY <1>10 DEF ParseDsl, Go, Stop
  <2> QED  BY <2>1, <2>2, <2>3, <2>4, StagePasses, StageRaises DEF P!Next
<1>11. CASE CheckCoverage
  <2>1. P!CheckCoverage  BY <1>11 DEF CheckCoverage, Go, Stop, P!CheckCoverage, settings
  <2> QED  BY <2>1 DEF P!Next
<1>12. CASE CompileQuery
  <2>1. step = "cypher_compiler" /\ UNCHANGED <<issue, calls, settings>>  BY <1>12 DEF CompileQuery, Go, Stop
  <2>2. step \in DOMAIN P!After /\ P!After[step] = "cypher_self_validation"  BY <2>1 DEF P!After
  <2>3. P!Handled[step] = "compiler_shape_mismatch"  BY <2>1 DEF P!Handled
  <2>4. \/ P!Continue("cypher_self_validation")
        \/ P!Unexpected(P!Broken) \/ P!Failure(P!Broken, "compiler_shape_mismatch")
    BY <1>12 DEF CompileQuery, Go, Stop
  <2> QED  BY <2>1, <2>2, <2>3, <2>4, StagePasses, StageRaises DEF P!Next
<1>13. CASE ValidateQuery
  <2>1. P!ValidateCypher
    BY <1>13, SelfValidationIsPipelines DEF ValidateQuery, Stop, P!ValidateCypher, settings
  <2> QED  BY <2>1 DEF P!Next
<1>14. CASE Returned \/ UNCHANGED vars  BY <1>14 DEF Returned, vars, settings, P!vars
<1> QED  BY <1>1, <1>2, <1>3, <1>4, <1>5, <1>6, <1>7, <1>8, <1>9, <1>10, <1>11, <1>12, <1>13, <1>14 DEF Next

(* A run of Translation goes a way Pipeline allows, whatever its stages       *)
(* compute: what is proved of every way Pipeline allows holds of the runs in  *)
(* which the stages do their work.                                            *)
THEOREM TranslationImplementsPipeline == Spec => ImplementsPipeline
<1>1. Init => P!Init  BY DEF Init
<1>2. LLMEnabled /\ [Next]_vars => [P!Next]_(P!vars)  BY StepIsPipelines
<1> QED  BY <1>1, <1>2, LLMStays, PTL DEF Spec, ImplementsPipeline

-----------------------------------------------------------------------------
(* What the parser has accepted does not break the compiler. Of the roles a   *)
(* DSL binds the parser knows; that the compiler gives each one a variable    *)
(* rests on how the DSL was made: along a path every role is an end of an     *)
(* edge (BuiltIsWired, AssembledIsWired).                                     *)

Wired(d) ==
    /\ d.shape = "single_hop_traversal" => DOMAIN d.vertexRoles \subseteq RolesWalked(d)
    /\ d.shape = "top_n" /\ Has(d, "traverse_edge") =>
         DOMAIN d.vertexRoles \subseteq RolesWalked(d) /\ Has(d, "aggregate")
    /\ d.shape = "variable_path_traversal" =>
         /\ Has(d, "variable_path")
         /\ \A o \in ToSet(d.operations) :
              o.op = "variable_path" => DOMAIN d.vertexRoles \subseteq {o.start, o.through}

\* A list: something Len and the provers can speak of.
IsList(s) == s \in Seq(ToSet(s))

LEMMA SingleOperationIsOne ==
    ASSUME NEW ast, NEW op, Has(ast, op)
    PROVE  SingleOperation(ast, op) \in ToSet(ast.operations) /\ SingleOperation(ast, op).op = op
BY DEF Has, Operations, SingleOperation

LEMMA AcceptedFilters ==
    ASSUME NEW filters, NEW roles, FilterErrors(filters, roles) = {}, NEW f \in ToSet(filters)
    PROVE  f.target = None \/ f.target \in DOMAIN roles
<1> DEFINE errors(x) == CASE x.target # None /\ x.target \notin DOMAIN roles -> {"unknown_filter_target"}
                          [] x.target # None /\ x.target \in DOMAIN roles /\ roles[x.target] # x.owner -> {"filter_owner_mismatch"}
                          [] OTHER -> Code(HasProperty(x.owner, x.name), "unknown_property")
<1>1. UNION {errors(x) : x \in ToSet(filters)} = {}  BY DEF FilterErrors
<1>2. errors(f) \subseteq UNION {errors(x) : x \in ToSet(filters)}  OBVIOUS
<1>3. errors(f) = {}  BY <1>1, <1>2
<1> QED  BY <1>3

LEMMA AcceptedProjection ==
    ASSUME NEW d, ProjectionErrors(d) = {}, NEW x \in ToSet(d.projection), x.kind # "source"
    PROVE  x.target \in DOMAIN d.vertexRoles
<1> DEFINE errors(y) ==
             CASE y.kind = "source" -> Code(y.source \in SourceOutputs(d), "unknown_source_output")
               [] y.kind # "source" /\ y.target \notin DOMAIN d.vertexRoles -> {"unknown_projection_target"}
               [] y.kind = "property" /\ y.target \in DOMAIN d.vertexRoles ->
                    Code(d.vertexRoles[y.target] = y.owner, "projection_owner_mismatch")
                    \cup Code(HasProperty(y.owner, y.name), "unknown_property")
               [] OTHER -> {}
<1>1. UNION {errors(y) : y \in ToSet(d.projection)} = {}  BY DEF ProjectionErrors
<1>2. errors(x) \subseteq UNION {errors(y) : y \in ToSet(d.projection)}  OBVIOUS
<1>3. errors(x) = {}  BY <1>1, <1>2
<1> QED  BY <1>3

LEMMA AcceptedAggregate ==
    ASSUME NEW d, NEW o, AggregateErrors(d, o) = {}, NEW x \in ToSet(o.group_by) \cup ToSet(o.measures)
    PROVE  x.target \in DOMAIN d.vertexRoles
<1> DEFINE errors(y) ==
             CASE y.target \notin DOMAIN d.vertexRoles -> {"unknown_aggregate_target"}
               [] y.target \in DOMAIN d.vertexRoles /\ d.vertexRoles[y.target] # y.owner -> {"aggregate_owner_mismatch"}
               [] OTHER -> Code(HasProperty(y.owner, y.name), "unknown_property")
<1>1. UNION {errors(y) : y \in ToSet(o.group_by) \cup ToSet(o.measures)} = {}  BY DEF AggregateErrors
<1>2. errors(x) \subseteq UNION {errors(y) : y \in ToSet(o.group_by) \cup ToSet(o.measures)}  OBVIOUS
<1>3. errors(x) = {}  BY <1>1, <1>2
<1> QED  BY <1>3

LEMMA AcceptedParts ==
    ASSUME NEW d, ParserErrors(d) = {}
    PROVE  /\ d.shape \in QueryShape
           /\ \A o \in ToSet(d.operations) : OperationErrors(d, o) = {}
           /\ FilterErrors(d.filters, d.vertexRoles) = {}
           /\ ProjectionErrors(d) = {}
<1>1. WellFormed(d) /\ SequenceAllowed(d)  BY DEF ParserErrors
<1>2. BindingErrors(d) \cup (UNION {OperationErrors(d, o) : o \in ToSet(d.operations)})
      \cup FilterErrors(d.filters, d.vertexRoles) \cup ProjectionErrors(d) = {}
  BY <1>1 DEF ParserErrors
<1>3. \A o \in ToSet(d.operations) :
        OperationErrors(d, o) \subseteq UNION {OperationErrors(d, p) : p \in ToSet(d.operations)}
  OBVIOUS
<1>4. d.shape \in QueryShape  BY <1>1 DEF WellFormed
<1>5. \A o \in ToSet(d.operations) : OperationErrors(d, o) = {}  BY <1>2, <1>3
<1>6. FilterErrors(d.filters, d.vertexRoles) = {} /\ ProjectionErrors(d) = {}
  <2> DEFINE ops == UNION {OperationErrors(d, o) : o \in ToSet(d.operations)}
             filters == FilterErrors(d.filters, d.vertexRoles)
  <2>1. BindingErrors(d) \cup ops \cup filters \cup ProjectionErrors(d) = {}  BY <1>2
  <2> HIDE DEF ops, filters
  <2>2. filters = {} /\ ProjectionErrors(d) = {}  BY <2>1
  <2> QED  BY <2>2 DEF filters
<1> QED  BY <1>4, <1>5, <1>6

LEMMA CompilerHolds ==
    ASSUME NEW d, ParserErrors(d) = {}, Wired(d)
    PROVE  ~CompilerBreaks(BuildAst(d))
<1> DEFINE ast == BuildAst(d)
           projected == {x.target : x \in {y \in ToSet(d.projection) : y.kind # "source"}}
           filtered == {f.target : f \in ToSet(d.filters)} \ {None}
<1>1. /\ ast.shape = d.shape /\ ast.vertexRoles = d.vertexRoles /\ ast.operations = d.operations
      /\ ast.filters = d.filters /\ ast.projection = d.projection
  BY DEF BuildAst
<1> HIDE DEF ast
<1>2. /\ d.shape \in QueryShape
      /\ \A o \in ToSet(d.operations) : OperationErrors(d, o) = {}
      /\ FilterErrors(d.filters, d.vertexRoles) = {}
      /\ ProjectionErrors(d) = {}
  BY AcceptedParts
<1>3. filtered \subseteq DOMAIN d.vertexRoles  BY <1>2, AcceptedFilters
<1>4. projected \subseteq DOMAIN d.vertexRoles  BY <1>2, AcceptedProjection
<1>5. \A op : Has(ast, op) <=> Has(d, op)  BY <1>1 DEF Has, Operations
<1>6. RolesWalked(ast) = RolesWalked(d)  BY <1>1 DEF RolesWalked, Operations
<1> SUFFICES RolesLookedUp(ast) \subseteq RolesWithVariable(ast)  BY DEF CompilerBreaks, ast
<1>7. CASE Form(ast) = "vertex_lookup"
  <2>1. FiltersCompiled(ast) = ToSet(d.filters)  BY <1>1, <1>7 DEF FiltersCompiled
  <2> QED  BY <1>1, <1>7, <2>1 DEF RolesLookedUp, RolesWithVariable, SingleVertexRole
<1>8. CASE Form(ast) = "single_hop_traversal"
  <2>1. FiltersCompiled(ast) = ToSet(d.filters)  BY <1>1, <1>8 DEF FiltersCompiled
  <2>2. d.shape = "single_hop_traversal"  BY <1>1, <1>8 DEF Form
  <2>3. RolesLookedUp(ast) = filtered \cup projected  BY <1>1, <1>8, <2>1 DEF RolesLookedUp
  <2>4. RolesWithVariable(ast) = RolesWalked(d)  BY <1>6, <1>8 DEF RolesWithVariable
  <2> QED  BY <1>3, <1>4, <2>2, <2>3, <2>4 DEF Wired
<1>9. CASE Form(ast) = "path_top_n"
  <2> DEFINE o == SingleOperation(ast, "aggregate")
             outputs == {x.target : x \in ToSet(o.group_by) \cup ToSet(o.measures)}
  <2>1. FiltersCompiled(ast) = ToSet(d.filters)  BY <1>1, <1>9 DEF FiltersCompiled
  <2>2. d.shape = "top_n" /\ Has(d, "traverse_edge")
    <3>1. ast.shape # "path_top_n"  BY <1>1, <1>2 DEF QueryShape
    <3> QED  BY <1>1, <1>5, <1>9, <3>1 DEF Form
  <2>3. DOMAIN d.vertexRoles \subseteq RolesWalked(d) /\ Has(ast, "aggregate")  BY <1>5, <2>2 DEF Wired
  <2>4. o \in ToSet(d.operations) /\ o.op = "aggregate"  BY <1>1, <2>3, SingleOperationIsOne
  <2>5. RolesLookedUp(ast) = filtered \cup outputs  BY <1>1, <1>9, <2>1 DEF RolesLookedUp
  <2> HIDE DEF o
  <2>6. AggregateErrors(d, o) = {}  BY <1>2, <2>4 DEF OperationErrors
  <2>7. outputs \subseteq DOMAIN d.vertexRoles  BY <2>6, AcceptedAggregate
  <2>8. RolesWithVariable(ast) = RolesWalked(d)  BY <1>6, <1>9 DEF RolesWithVariable
  <2> QED  BY <1>3, <2>3, <2>5, <2>7, <2>8
<1>10. CASE Form(ast) = "variable_path_traversal"
  <2> DEFINE o == SingleOperation(ast, "variable_path")
             own == {f.target : f \in ToSet(o.filters)} \ {None}
             through == [r \in {o.through} \cap DOMAIN d.vertexRoles |-> d.vertexRoles[r]]
  <2>1. FiltersCompiled(ast) = ToSet(o.filters) \cup ToSet(d.filters)  BY <1>1, <1>10 DEF FiltersCompiled
  <2>2. d.shape = "variable_path_traversal"  BY <1>1, <1>10 DEF Form
  <2>3. o \in ToSet(d.operations) /\ o.op = "variable_path"  BY <1>1, <1>5, <2>2, SingleOperationIsOne DEF Wired
  <2>4. RolesLookedUp(ast) = own \cup filtered \cup projected  BY <1>1, <1>10, <2>1 DEF RolesLookedUp
  <2>5. RolesWithVariable(ast) = {o.start, o.through}  BY <1>10 DEF RolesWithVariable
  <2> HIDE DEF o
  <2>6. DOMAIN d.vertexRoles \subseteq {o.start, o.through}  BY <2>2, <2>3 DEF Wired
  <2>7. FilterErrors(o.filters, through) = {}  BY <1>2, <2>3 DEF OperationErrors, VariablePathErrors
  <2>8. own \subseteq DOMAIN through
    <3> HIDE DEF through
    <3> QED  BY <2>7, AcceptedFilters
  <2>9. own \subseteq {o.through}  BY <2>8
  <2> QED  BY <1>3, <1>4, <2>4, <2>5, <2>6, <2>9
<1>11. CASE Form(ast) = "metric_aggregate"
  BY <1>11 DEF RolesLookedUp, RolesWithVariable
<1>12. CASE Form(ast) = "ad_hoc_aggregate"
  <2>1. FiltersCompiled(ast) = ToSet(ast.filters)  BY <1>12 DEF FiltersCompiled
  <2> QED  BY <1>12, <2>1 DEF RolesLookedUp, RolesWithVariable, AggregateRoles
<1>13. CASE Form(ast) \in {"two_step_aggregate", "named_path_pattern"}
  <2>1. FiltersCompiled(ast) = {}  BY <1>13 DEF FiltersCompiled
  <2> QED  BY <1>13, <2>1 DEF RolesLookedUp
<1>14. Form(ast) \in QueryShape \cup {"path_top_n"} /\ Form(ast) # "top_n"
  BY <1>1, <1>2 DEF Form, QueryShape
<1> QED  BY <1>7, <1>8, <1>9, <1>10, <1>11, <1>12, <1>13, <1>14 DEF QueryShape

-----------------------------------------------------------------------------
(* What is built from a plan.                                                  *)

LEMMA TraversalIsWired ==
    ASSUME NEW p, IsList(p.edges), p.shape = "single_hop_traversal", Buildable(p)
    PROVE  Wired(BuildTraversal(p))
<1> DEFINE n == Len(p.edges)
           d == BuildTraversal(p)
           walk == [i \in DOMAIN p.edges |->
                      [op |-> "traverse_edge", from |-> VertexRole(p, i), edge |-> EdgeRole(p, i),
                       to |-> VertexRole(p, i + 1), direction |-> p.edges[i].direction]]
<1>1. n \in Nat /\ n > 0 /\ DOMAIN p.edges = 1..n  BY DEF IsList, Buildable, TraversalBuildable
<1>2. SortLimit(p, NoRoles) = <<>>
  <2>1. p.sort = <<>> /\ p.limit = None  BY DEF Buildable, SortLimitCompiled
  <2>2. SortLimit(p, NoRoles) = <<>> \o <<>>  BY <2>1, Zenon DEF SortLimit
  <2>3. <<>> \o <<>> = <<>>  OBVIOUS
  <2> QED  BY <2>2, <2>3
<1>3. DOMAIN Stops(p) = 1..n + 1  BY <1>1 DEF Stops
<1>4. /\ d.shape = "single_hop_traversal"
      /\ DOMAIN d.vertexRoles = {VertexRole(p, i) : i \in 1..n + 1}
      /\ d.operations = walk \o <<>>
  BY <1>2, <1>3 DEF BuildTraversal, Dsl
<1>5. walk \in Seq({walk[i] : i \in 1..n}) /\ DOMAIN walk = 1..n  BY <1>1
<1>6. /\ DOMAIN (walk \o <<>>) = 1..n
      /\ \A i \in 1..n : (walk \o <<>>)[i] = walk[i]
  <2> HIDE DEF walk, n
  <2> QED  BY <1>1, <1>5
<1>7. \A i \in 1..n : {VertexRole(p, i), VertexRole(p, i + 1)} \subseteq RolesWalked(d)
  <2> SUFFICES ASSUME NEW i \in 1..n PROVE {VertexRole(p, i), VertexRole(p, i + 1)} \subseteq RolesWalked(d)
    OBVIOUS
  <2> DEFINE o == walk[i]
  <2>1. o.op = "traverse_edge" /\ o.from = VertexRole(p, i) /\ o.to = VertexRole(p, i + 1)  BY <1>1
  <2>2. o \in ToSet(d.operations)  BY <1>4, <1>6 DEF ToSet
  <2> HIDE DEF o, d
  <2> QED  BY <2>1, <2>2 DEF RolesWalked, Operations
<1>8. \A i \in 1..n + 1 : VertexRole(p, i) \in RolesWalked(d)
  <2> SUFFICES ASSUME NEW i \in 1..n + 1 PROVE VertexRole(p, i) \in RolesWalked(d)  OBVIOUS
  <2>1. CASE i \in 1..n  BY <1>7, <2>1
  <2>2. CASE i = n + 1
    <3>1. n \in 1..n  BY <1>1
    <3> QED  BY <1>7, <2>2, <3>1
  <2> QED  BY <1>1, <2>1, <2>2
<1> QED  BY <1>4, <1>8 DEF Wired

LEMMA SortLimitOps ==
    ASSUME NEW p, NEW namespaces, NEW first
    PROVE  \A o \in ToSet(<<first>> \o SortLimit(p, namespaces)) : o = first \/ o.op \in {"sort", "limit"}
<1>1. PICK sort, limit :
        /\ sort.op = "sort" /\ limit.op = "limit"
        /\ SortLimit(p, namespaces) \in {<<>> \o <<>>, <<sort>> \o <<>>, <<>> \o <<limit>>, <<sort>> \o <<limit>>}
  <2> DEFINE sort == [op |-> "sort", by |-> MapSeq(p.sort, LAMBDA item : [source |-> AsNamed(namespaces, item.source),
                                                                              direction |-> item.direction])]
             limit == [op |-> "limit", value |-> p.limit]
  <2>1. SortLimit(p, namespaces) = (IF p.sort = <<>> THEN <<>> ELSE <<sort>>)
                                      \o (IF p.limit = None THEN <<>> ELSE <<limit>>)
    BY DEF SortLimit
  <2>2. sort.op = "sort" /\ limit.op = "limit"  OBVIOUS
  <2> HIDE DEF sort, limit
  <2> QED  BY <2>1, <2>2
<1>2. \A s : s \in {<<>> \o <<>>, <<sort>> \o <<>>, <<>> \o <<limit>>, <<sort>> \o <<limit>>}
              => \A i \in DOMAIN (<<first>> \o s) : (<<first>> \o s)[i] \in {first, sort, limit}
  <2>1. \A i \in DOMAIN (<<first>> \o (<<>> \o <<>>)) : (<<first>> \o (<<>> \o <<>>))[i] \in {first, sort, limit}
    OBVIOUS
  <2>2. \A i \in DOMAIN (<<first>> \o (<<sort>> \o <<>>)) :
          (<<first>> \o (<<sort>> \o <<>>))[i] \in {first, sort, limit}
    OBVIOUS
  <2>3. \A i \in DOMAIN (<<first>> \o (<<>> \o <<limit>>)) :
          (<<first>> \o (<<>> \o <<limit>>))[i] \in {first, sort, limit}
    OBVIOUS
  <2>4. \A i \in DOMAIN (<<first>> \o (<<sort>> \o <<limit>>)) :
          (<<first>> \o (<<sort>> \o <<limit>>))[i] \in {first, sort, limit}
    OBVIOUS
  <2> QED  BY <2>1, <2>2, <2>3, <2>4
<1> QED  BY <1>1, <1>2 DEF ToSet

LEMMA BuiltIsWired ==
    ASSUME NEW p, IsList(p.edges), Buildable(p)
    PROVE  Wired(Build(p))
<1> DEFINE d == Build(p)
<1> SUFFICES Wired(d)  OBVIOUS
<1>1. CASE p.shape = "single_hop_traversal"
  BY <1>1, TraversalIsWired DEF Build, ByMetric
<1>2. CASE p.shape = "variable_path_traversal"
  <2>1. d = BuildVariablePath(p)  BY <1>2 DEF Build, ByMetric
  <2>2. /\ d.shape = "variable_path_traversal" /\ DOMAIN d.vertexRoles = {"start", "through"}
        /\ \E o : /\ d.operations = <<o>> /\ o.op = "variable_path"
                  /\ o.start = "start" /\ o.through = "through"
    <3> DEFINE ofThrough == {i \in DOMAIN p.filters : p.filters[i].owner = p.vertices[2]}
               fs == FilterItems(ItemsAt(p.filters, ofThrough), VariablePathRoles(p))
               others == FilterItems(ItemsAt(p.filters, DOMAIN p.filters \ ofThrough), VariablePathRoles(p))
               items == ProjectionItems(p.projection, VariablePathRoles(p))
               o == [op |-> "variable_path", bind_as |-> "path", start |-> "start", through |-> "through",
                     filters |-> fs, edges |-> <<p.edges[1].name>>, min |-> 1, max |-> 8]
               roles == [r \in {"start", "through"} |-> p.vertices[IF r = "start" THEN 1 ELSE 2]]
    <3>1. d = Dsl(p, roles, NoRoles, <<o>>, others, items)  BY <2>1, Zenon DEF BuildVariablePath
    <3>2. o.op = "variable_path" /\ o.start = "start" /\ o.through = "through"  OBVIOUS
    <3>3. DOMAIN roles = {"start", "through"}  OBVIOUS
    <3> HIDE DEF fs, others, items, o, roles, d
    <3>4. d.shape = p.shape /\ d.vertexRoles = roles /\ d.operations = <<o>>  BY <3>1 DEF Dsl
    <3> QED  BY <1>2, <3>2, <3>3, <3>4
  <2>3. \E o : ToSet(d.operations) = {o} /\ o.op = "variable_path" /\ {o.start, o.through} = {"start", "through"}
    BY <2>2 DEF ToSet
  <2> HIDE DEF d
  <2> QED  BY <2>2, <2>3 DEF Wired, Has, Operations
<1>3. CASE p.shape = "top_n"
  <2>1. d \in {BuildMetricAggregate(p), BuildAdHocAggregate(p)}  BY <1>3 DEF Build, ByMetric
  <2>2. d.shape = "top_n" /\ \E o : o.op # "traverse_edge" /\ d.operations = <<o>> \o SortLimit(p, NoRoles)
    <3>1. CASE d = BuildMetricAggregate(p)
      <4> DEFINE o == [op |-> "metric_aggregate", metric |-> p.metrics[1], group_by |-> p.group_by,
                       filters |-> FilterItems(p.filters, MetricRoles(p.metrics[1]))]
      <4>1. \E projection : d = Dsl(p, NoRoles, NoRoles, <<o>> \o SortLimit(p, NoRoles), <<>>, projection)
        BY <3>1, Zenon DEF BuildMetricAggregate
      <4>2. o.op # "traverse_edge"  OBVIOUS
      <4> HIDE DEF o, d
      <4>3. PICK projection : d = Dsl(p, NoRoles, NoRoles, <<o>> \o SortLimit(p, NoRoles), <<>>, projection)
        BY <4>1, Zenon
      <4>4. d.shape = p.shape /\ d.operations = <<o>> \o SortLimit(p, NoRoles)
        BY <4>3 DEF Dsl
      <4>5. d.shape = "top_n"
        BY <1>3, <4>4, Zenon
      <4>6. \E x : x.op # "traverse_edge" /\ d.operations = <<x>> \o SortLimit(p, NoRoles)
        BY <4>2, <4>4, Zenon
      <4> QED  BY <4>5, <4>6, Zenon
    <3>2. CASE d = BuildAdHocAggregate(p)
      <4> DEFINE o == [op |-> "aggregate", group_by |-> p.group_by, measures |-> p.measures]
      <4>1. d = Dsl(p, AggregateVertexRoles(p), NoRoles, <<o>> \o SortLimit(p, NoRoles),
                    FilterItems(p.filters, AggregateRoleByOwner(p)), AggregateProjection(p, NoRoles))
        BY <3>2, Zenon DEF BuildAdHocAggregate
      <4>2. o.op # "traverse_edge"  OBVIOUS
      <4> HIDE DEF o, d
      <4>3. d.shape = p.shape /\ d.operations = <<o>> \o SortLimit(p, NoRoles)
        BY <4>1 DEF Dsl
      <4>4. d.shape = "top_n"
        BY <1>3, <4>3, Zenon
      <4>5. \E x : x.op # "traverse_edge" /\ d.operations = <<x>> \o SortLimit(p, NoRoles)
        BY <4>2, <4>3, Zenon
      <4> QED  BY <4>4, <4>5, Zenon
    <3> QED  BY <2>1, <3>1, <3>2
  <2>3. ~Has(d, "traverse_edge")
    <3> HIDE DEF d
    <3> QED  BY <2>2, SortLimitOps DEF Has, Operations
  <2> QED  BY <2>2, <2>3 DEF Wired
<1>4. CASE p.shape \notin {"single_hop_traversal", "variable_path_traversal", "top_n"}
  <2>1. d.shape = p.shape
    BY <1>4 DEF Build, ByMetric, BuildVertexLookup, BuildNamedPathPattern, BuildTwoStepAggregate,
                BuildMetricAggregate, BuildAdHocAggregate, Dsl
  <2> QED  BY <1>4, <2>1 DEF Wired
<1> QED  BY <1>1, <1>2, <1>3, <1>4

-----------------------------------------------------------------------------
(* What is built from an understanding: the binder keeps its edges a list.     *)

LEMMA FunctionIsList ==
    ASSUME NEW n \in Nat, NEW f, f = [i \in 1..n |-> f[i]]
    PROVE  IsList(f) /\ Len(f) = n
<1>1. DOMAIN f = 1..n /\ \A i \in 1..n : f[i] \in ToSet(f)  BY DEF ToSet
<1>2. f \in [1..n -> ToSet(f)]  BY <1>1
<1> QED  BY <1>2 DEF IsList

LEMMA ListOfItsItems ==
    ASSUME NEW S, NEW s \in Seq(S)
    PROVE  IsList(s)
<1>1. Len(s) \in Nat /\ s = [i \in 1..Len(s) |-> s[i]]  OBVIOUS
<1> QED  BY <1>1, FunctionIsList

LEMMA UniqueIsList ==
    ASSUME NEW s, IsList(s)
    PROVE  IsList(Unique(s))
<1> DEFINE firsts == {i \in DOMAIN s : \A j \in 1..i - 1 : s[j] # s[i]}
           u == Unique(s)
<1>1. DOMAIN u = 1..Cardinality(firsts) /\ u = [i \in DOMAIN u |-> u[i]]  BY DEF Unique, ItemsAt, MapSeq, InOrder
<1>2. Len(s) \in Nat /\ DOMAIN s = 1..Len(s)  BY DEF IsList
<1>3. IsFiniteSet(firsts)
  <2>1. IsFiniteSet(1..Len(s)) /\ firsts \in SUBSET (1..Len(s))  BY <1>2, FS_Interval
  <2> HIDE DEF firsts
  <2> QED  BY <2>1, FS_Subset
<1>4. Cardinality(firsts) \in Nat  BY <1>3, FS_CardinalityType
<1> HIDE DEF firsts, u
<1> QED  BY <1>1, <1>4, FunctionIsList DEF u

LEMMA BoundEdges ==
    ASSUME NEW u, IsList(u.edges)
    PROVE  IsList(Bind(u).edges)
<1>1. PICK e : Bind(u).edges \in {Unique(u.edges), <<e>>}  BY DEF Bind
<1>2. IsList(<<e>>)  BY DEF IsList, ToSet
<1> QED  BY <1>1, <1>2, UniqueIsList

LEMMA EnrichedEdges ==
    ASSUME NEW a \in Understandings, NEW literals
    PROVE  IsList(EnrichProjection(ToBinderPayload(Hydrate(a, literals))).edges)
<1>1. "edges" \in DOMAIN a /\ IsList(a.edges)  BY UnderstandingsAssumption DEF IsList
<1> DEFINE h == Hydrate(a, literals)
           p == ToBinderPayload(h)
<1>2. "edges" \in DOMAIN h /\ h.edges = a.edges  BY <1>1 DEF Hydrate
<1> HIDE DEF h
<1>3. "edges" \in DOMAIN p /\ p.edges = a.edges  BY <1>2 DEF ToBinderPayload
<1> HIDE DEF p
<1>4. EnrichProjection(p).edges = a.edges  BY <1>3 DEF EnrichProjection
<1> QED  BY <1>1, <1>4 DEF p, h

-----------------------------------------------------------------------------
(* What is assembled without an understanding.                                 *)

LEMMA UpTo ==
    ASSUME NEW n \in Nat
    PROVE  IsFiniteSet(1..n) /\ Cardinality(1..n) = n
<1>1. IsFiniteSet(1..n) /\ Cardinality(1..n) = IF 1 > n THEN 0 ELSE n - 1 + 1  BY FS_Interval
<1> QED  BY <1>1

LEMMA OrderedIsList ==
    ASSUME NEW candidates, NEW path
    PROVE  LET o == OrderedVertices(candidates, path)
           IN  IsList(o) /\ Len(o) <= Len(Alphabetical)
<1> DEFINE mentioned == {i \in DOMAIN Alphabetical : /\ Alphabetical[i] \in NamesOf(candidates, "vertex")
                                                     /\ FirstMention(path, Alphabetical[i]) # None}
           o == OrderedVertices(candidates, path)
<1>1. DOMAIN o = 1..Cardinality(mentioned) /\ o = [i \in DOMAIN o |-> o[i]]
  BY DEF OrderedVertices, MapSeq, InOrder
<1>2. Len(Alphabetical) \in Nat /\ DOMAIN Alphabetical = 1..Len(Alphabetical)  BY AlphabeticalAssumption
<1>3. IsFiniteSet(mentioned)
  <2>1. IsFiniteSet(1..Len(Alphabetical)) /\ mentioned \in SUBSET (1..Len(Alphabetical))  BY <1>2, FS_Interval
  <2> HIDE DEF mentioned
  <2> QED  BY <2>1, FS_Subset
<1>4. Cardinality(mentioned) \in Nat  BY <1>3, FS_CardinalityType
<1>5. Cardinality(mentioned) <= Len(Alphabetical)
  <2>1. IsFiniteSet(1..Len(Alphabetical)) /\ Cardinality(1..Len(Alphabetical)) = Len(Alphabetical)
    BY <1>2, UpTo
  <2>2. mentioned \in SUBSET (1..Len(Alphabetical))  BY <1>2
  <2> HIDE DEF mentioned
  <2> QED  BY <2>1, <2>2, FS_Subset
<1> HIDE DEF mentioned, o
<1> QED  BY <1>1, <1>4, <1>5, FunctionIsList DEF o

LEMMA LeastNumber ==
    ASSUME NEW S, S \subseteq Nat, S # {}
    PROVE  \E m \in S : \A k \in S : m <= k
<1>1. PICK m \in S : \A k \in S : ~(<<k, m>> \in OpToRel(<, Nat))  BY NatLessThanWellFounded, WFMin
<1>2. ASSUME NEW k \in S PROVE m <= k
  <2>1. ~(k < m)  BY <1>1 DEF OpToRel
  <2> QED  BY <2>1
<1> QED  BY <1>2

(* A path never gets shorter, and no longer than there are vertices to add. *)
LEMMA ExtendedIsList ==
    ASSUME NEW w, NEW edges, NEW candidates, NamesOf(candidates, "vertex") \subseteq Vertices,
           NEW path, NEW vertices, IsList(vertices)
    PROVE  LET p == ExtendPath(w, edges, candidates, path, vertices)
           IN  IsList(p) /\ Len(p) >= Len(vertices) /\ Len(p) <= Len(vertices) + Cardinality(Vertices)
<1> DEFINE owners == RequiredOwners(w)
           missing == (ToSet(owners) \cap NamesOf(candidates, "vertex")) \ ToSet(vertices)
           extend(vs) == LET fit == {i \in DOMAIN owners : /\ owners[i] \in missing \ ToSet(vs)
                                                          /\ ExtensionContext(edges, path, Last(vs), owners[i]) # None}
                         IN  IF fit = {} THEN vs ELSE Append(vs, owners[Min(fit)])
           n == Cardinality(missing)
           Steps(f) == f = [k \in 0..n |-> IF k = 0 THEN vertices ELSE extend(f[k - 1])]
           extended == CHOOSE f : Steps(f)
           Grown(vs, k) == IsList(vs) /\ Len(vs) >= Len(vertices) /\ Len(vs) <= Len(vertices) + k
<1>1. ExtendPath(w, edges, candidates, path, vertices) = extended[n]  BY Zenon DEF ExtendPath
<1>2. n \in Nat /\ n <= Cardinality(Vertices) /\ Cardinality(Vertices) \in Nat
  <2>1. missing \in SUBSET Vertices  OBVIOUS
  <2> HIDE DEF missing
  <2> QED  BY <2>1, GraphModelAssumption, FS_Subset, FS_CardinalityType
<1>3. ASSUME NEW k \in Nat, NEW vs, Grown(vs, k) PROVE Grown(extend(vs), k + 1)
  <2>1. PICK x : extend(vs) \in {vs, Append(vs, x)}  OBVIOUS
  <2> HIDE DEF extend
  <2>2. IsList(Append(vs, x)) /\ Len(Append(vs, x)) = Len(vs) + 1
    <3>1. vs \in Seq(ToSet(vs) \cup {x})  BY <1>3 DEF IsList
    <3>2. Append(vs, x) \in Seq(ToSet(vs) \cup {x}) /\ Len(Append(vs, x)) = Len(vs) + 1  BY <3>1
    <3> QED  BY <3>2, ListOfItsItems
  <2>3. CASE extend(vs) = vs
    <3>1. Len(vs) \in Nat /\ Len(vertices) \in Nat  BY <1>3 DEF IsList
    <3> QED  BY <1>3, <2>3, <3>1
  <2>4. CASE extend(vs) = Append(vs, x)
    <3>1. Len(vs) \in Nat /\ Len(vertices) \in Nat  BY <1>3 DEF IsList
    <3> QED  BY <1>3, <2>2, <2>4, <3>1
  <2> QED  BY <2>1, <2>3, <2>4
<1> HIDE DEF extend, n
<1>4. \E f : Steps(f)
  <2> DEFINE StepsTo(m, f) == f = [k \in 0..m |-> IF k = 0 THEN vertices ELSE extend(f[k - 1])]
             Without == {m \in Nat : \A f : ~StepsTo(m, f)}
  <2>1. Without = {}
    <3> SUFFICES ASSUME Without # {} PROVE FALSE  OBVIOUS
    <3>1. PICK m \in Without : \A k \in Without : m <= k
      <4>1. Without \subseteq Nat  OBVIOUS
      <4> HIDE DEF Without
      <4> QED  BY <4>1, LeastNumber
    <3>2. m # 0
      <4>1. StepsTo(0, [k \in 0..0 |-> vertices])  OBVIOUS
      <4> QED  BY <4>1
    <3>3. m - 1 \in Nat /\ m - 1 \notin Without
      <4>1. m \in Nat  OBVIOUS
      <4> HIDE DEF Without
      <4> QED  BY <3>1, <3>2, <4>1
    <3>4. PICK f : StepsTo(m - 1, f)  BY <3>3
    <3> DEFINE g == [k \in 0..m |-> IF k = m THEN extend(f[m - 1]) ELSE f[k]]
    <3>5. StepsTo(m, g)  BY <3>2, <3>4
    <3> QED  BY <3>5
  <2> QED  BY <1>2, <2>1
<1>5. Steps(extended)  BY <1>4
<1> HIDE DEF extended
<1>6. DOMAIN extended = 0..n /\ \A k \in 0..n : extended[k] = IF k = 0 THEN vertices ELSE extend(extended[k - 1])
  BY <1>5
<1>7. Grown(extended[n], n)
  <2> HIDE DEF Grown
  <2> DEFINE Shrunk == {k \in 0..n : ~Grown(extended[k], k)}
  <2> SUFFICES ASSUME Shrunk # {} PROVE FALSE  BY <1>2
  <2>1. PICK k \in Shrunk : \A j \in Shrunk : k <= j
    <3>1. Shrunk \subseteq Nat  BY <1>2
    <3> HIDE DEF Shrunk
    <3> QED  BY <3>1, LeastNumber
  <2>2. k # 0
    <3>1. Grown(vertices, 0)  BY DEF Grown, IsList
    <3> QED  BY <1>2, <1>6, <3>1
  <2>3. k - 1 \in 0..n /\ k - 1 \notin Shrunk  BY <1>2, <2>1, <2>2
  <2>4. Grown(extend(extended[k - 1]), k)
    <3>1. k - 1 \in Nat /\ (k - 1) + 1 = k /\ Grown(extended[k - 1], k - 1)  BY <2>3
    <3> QED  BY <1>3, <3>1
  <2> QED  BY <1>6, <2>2, <2>4
<1>8. Len(extended[n]) \in Nat /\ Len(vertices) \in Nat  BY <1>7 DEF IsList
<1> QED  BY <1>1, <1>2, <1>7, <1>8

LEMMA PathIsWired ==
    ASSUME NEW shape, NEW path, IsList(path.vertices), Len(path.vertices) >= 2,
           DOMAIN path.edges = 1..Len(path.vertices) - 1,
           NEW tail, IsList(tail), NEW filters, NEW projection
    PROVE  LET d == PathDsl(shape, path, tail, filters, projection)
           IN  /\ d.shape = shape /\ DOMAIN d.vertexRoles \subseteq RolesWalked(d)
               /\ ToSet(tail) \subseteq ToSet(d.operations)
<1> DEFINE d == PathDsl(shape, path, tail, filters, projection)
           n == Len(path.vertices) - 1
           walk == [i \in DOMAIN path.edges |->
                      [op |-> "traverse_edge", from |-> PathRole(i), edge |-> EdgeName(i), to |-> PathRole(i + 1),
                       direction |-> IF From[path.edges[i]] = path.vertices[i] THEN "forward" ELSE "backward"]]
<1>1. n \in Nat /\ n > 0 /\ DOMAIN path.vertices = 1..n + 1 /\ DOMAIN path.edges = 1..n  BY DEF IsList
<1>2. d.shape = shape /\ DOMAIN d.vertexRoles = {PathRole(i) : i \in 1..n + 1} /\ d.operations = walk \o tail
  <2>1. d.shape = shape  BY DEF PathDsl
  <2>2. DOMAIN d.vertexRoles = {PathRole(i) : i \in 1..n + 1}
    <3>1. DOMAIN d.vertexRoles = {PathRole(i) : i \in DOMAIN path.vertices}  BY DEF PathDsl
    <3> QED  BY <1>1, <3>1
  <2>3. d.operations = walk \o tail  BY Zenon DEF PathDsl
  <2> QED  BY <2>1, <2>2, <2>3
<1>3. IsList(walk) /\ Len(walk) = n
  <2>1. walk = [i \in 1..n |-> walk[i]]  BY <1>1
  <2> HIDE DEF walk
  <2> QED  BY <1>1, <2>1, FunctionIsList
<1>4. \A i \in 1..n : /\ walk[i].op = "traverse_edge"
                      /\ walk[i].from = PathRole(i) /\ walk[i].to = PathRole(i + 1)
  BY <1>1
<1> HIDE DEF walk, n, d
<1>5. \A i \in 1..n : walk[i] \in ToSet(d.operations)
  <2>1. \A i \in 1..n : i \in DOMAIN (walk \o tail) /\ (walk \o tail)[i] = walk[i]  BY <1>1, <1>3 DEF IsList
  <2> QED  BY <1>2, <2>1 DEF ToSet
<1>6. \A i \in 1..n : {PathRole(i), PathRole(i + 1)} \subseteq RolesWalked(d)
  <2> SUFFICES ASSUME NEW i \in 1..n PROVE {PathRole(i), PathRole(i + 1)} \subseteq RolesWalked(d)  OBVIOUS
  <2> DEFINE o == walk[i]
  <2>1. /\ o \in ToSet(d.operations) /\ o.op = "traverse_edge"
        /\ o.from = PathRole(i) /\ o.to = PathRole(i + 1)
    BY <1>4, <1>5
  <2> HIDE DEF o
  <2> QED  BY <2>1 DEF RolesWalked, Operations
<1>7. \A i \in 1..n + 1 : PathRole(i) \in RolesWalked(d)
  <2> SUFFICES ASSUME NEW i \in 1..n + 1 PROVE PathRole(i) \in RolesWalked(d)  OBVIOUS
  <2>1. CASE i \in 1..n  BY <1>6, <2>1
  <2>2. CASE i = n + 1
    <3>1. n \in 1..n  BY <1>1
    <3> QED  BY <1>6, <2>2, <3>1
  <2> QED  BY <1>1, <2>1, <2>2
<1>8. ToSet(tail) \subseteq ToSet(d.operations)
  <2> SUFFICES ASSUME NEW i \in DOMAIN tail PROVE tail[i] \in ToSet(d.operations)  BY DEF ToSet
  <2>1. n + i \in DOMAIN (walk \o tail) /\ (walk \o tail)[n + i] = tail[i]  BY <1>1, <1>3 DEF IsList
  <2> QED  BY <1>2, <2>1 DEF ToSet
<1> QED  BY <1>2, <1>7, <1>8 DEF d

(* A plan of a path has two vertices or more, and an edge from each to the next. *)
LEMMA PlanIsPath ==
    ASSUME NEW w, NEW candidates, NamesOf(candidates, "vertex") \subseteq Vertices, PathPlan(w, candidates) # None
    PROVE  LET p == PathPlan(w, candidates)
           IN  IsList(p.vertices) /\ Len(p.vertices) >= 2 /\ DOMAIN p.edges = 1..Len(p.vertices) - 1
<1> DEFINE path == PathTexts(w.terms)
           edges == MultihopEdges(candidates)
           mentioned == OrderedVertices(candidates, path)
           vertices == ExtendPath(w, edges, candidates, path, mentioned)
           steps == [i \in 1..Len(vertices) - 1 |-> PathEdge(edges, path, vertices, Len(mentioned), i)]
<1>1. Len(mentioned) >= 2
  <2>1. ~(Len(mentioned) < 2)  BY DEF PathPlan
  <2>2. Len(mentioned) \in Nat  BY OrderedIsList DEF IsList
  <2> QED  BY <2>1, <2>2
<1>2. IsList(vertices) /\ Len(vertices) >= Len(mentioned)  BY OrderedIsList, ExtendedIsList
<1>3. PathPlan(w, candidates) = [vertices |-> vertices, edges |-> steps]  BY DEF PathPlan
<1>4. Len(vertices) \in Nat /\ Len(mentioned) \in Nat  BY <1>2, OrderedIsList DEF IsList
<1> HIDE DEF vertices, mentioned
<1> QED  BY <1>1, <1>2, <1>3, <1>4

LEMMA ZeroHopIsWired ==
    ASSUME NEW w, NEW req, NEW candidates, NEW family, NEW v, AssembleZeroHop(w, req, candidates, family, v) # None
    PROVE  Wired(AssembleZeroHop(w, req, candidates, family, v))
<1>1. \A vertex, operations, filters, projection :
        /\ Wired(ZeroHopDsl("vertex_lookup", vertex, operations, filters, projection))
        /\ Wired(ZeroHopDsl("ad_hoc_aggregate", vertex, operations, filters, projection))
  BY DEF Wired, ZeroHopDsl
<1>2. \A vertex, properties : AssembleF1(w, req, vertex, properties) # None
        => Wired(AssembleF1(w, req, vertex, properties))
  BY <1>1, Zenon DEF AssembleF1
<1>3. \A vertex, properties : AssembleF2(w, req, vertex, properties) # None
        => Wired(AssembleF2(w, req, vertex, properties))
  BY <1>1, Zenon DEF AssembleF2
<1>4. \A vertex, properties : AssembleF3(w, vertex, properties) # None
        => Wired(AssembleF3(w, vertex, properties))
  BY <1>1, Zenon DEF AssembleF3
<1> QED  BY <1>2, <1>3, <1>4 DEF AssembleZeroHop

(* What a "top n" along a path is made of: one group, one measure, the order  *)
(* by the measure and the limit.                                             *)
PropertyAt(properties, x) == UniqueProperty(properties, x.name, x.owner)
TopGroupAlias(w, properties) ==
  AliasOr(w.group_by[1], SnakeCase[PropertyAt(properties, w.group_by[1]).owner] \o "_" \o w.group_by[1].name)
TopMeasureAlias(w, properties) ==
  AliasOr(w.measures[1], SnakeCase[PropertyAt(properties, w.measures[1]).owner] \o "_" \o w.measures[1].function)
TopGroup(w, path, properties) ==
  [alias |-> TopGroupAlias(w, properties), target |-> RoleInPath(path)[PropertyAt(properties, w.group_by[1]).owner],
   owner |-> PropertyAt(properties, w.group_by[1]).owner, name |-> w.group_by[1].name]
TopMeasure(w, path, properties) ==
  [alias |-> TopMeasureAlias(w, properties), function |-> w.measures[1].function,
   target |-> RoleInPath(path)[PropertyAt(properties, w.measures[1]).owner],
   owner |-> PropertyAt(properties, w.measures[1]).owner, name |-> w.measures[1].name]
TopAggregate(w, path, properties) ==
  [op |-> "aggregate", group_by |-> <<TopGroup(w, path, properties)>>, measures |-> <<TopMeasure(w, path, properties)>>]
TopSort(w, req, properties) ==
  [op |-> "sort", by |-> <<[source |-> [ns |-> "measure", name |-> TopMeasureAlias(w, properties)],
                            direction |-> req.direction]>>]
TopLimit(req) == [op |-> "limit", value |-> req.value]
TopGroupItem(w, properties) ==
  [kind |-> "source", alias |-> TopGroupAlias(w, properties),
   source |-> [ns |-> "group", name |-> TopGroupAlias(w, properties)], terms |-> w.group_by[1].terms]

LEMMA TopIsPath ==
    ASSUME NEW w, NEW req, NEW path, NEW properties, AssembleF6(w, req, path, properties) # None
    PROVE  AssembleF6(w, req, path, properties) =
             PathDsl("top_n", path,
                     <<TopAggregate(w, path, properties), TopSort(w, req, properties), TopLimit(req)>>, <<>>,
                     <<TopGroupItem(w, properties), MeasureItem(w.measures[1], TopMeasureAlias(w, properties))>>)
BY ZenonT(60) DEF AssembleF6, TopAggregate, TopSort, TopLimit, TopGroupItem, TopGroup, TopMeasure, TopGroupAlias,
                  TopMeasureAlias, PropertyAt

LEMMA MultihopIsWired ==
    ASSUME NEW w, NEW req, NEW candidates, NamesOf(candidates, "vertex") \subseteq Vertices, NEW family,
           AssembleMultihop(w, req, candidates, family) # None
    PROVE  Wired(AssembleMultihop(w, req, candidates, family))
<1> DEFINE p == PathPlan(w, candidates)
           properties == MultihopProperties(candidates)
           d == AssembleMultihop(w, req, candidates, family)
<1> SUFFICES Wired(d)  OBVIOUS
<1>1. /\ p # None
      /\ d \in {AssembleF4(w, p, properties), AssembleF5(w, p, properties), AssembleF6(w, req, p, properties)}
  BY DEF AssembleMultihop
<1>2. IsList(p.vertices) /\ Len(p.vertices) >= 2 /\ DOMAIN p.edges = 1..Len(p.vertices) - 1
  BY <1>1, PlanIsPath
<1>3. IsList(<<>>)  BY DEF IsList, ToSet
<1>4. CASE d = AssembleF4(w, p, properties)
  <2>1. \E filters, projection : d = PathDsl("single_hop_traversal", p, <<>>, filters, projection)
    <3> HIDE DEF d, p
    <3>1. AssembleF4(w, p, properties) # None =>
            \E filters, projection :
              AssembleF4(w, p, properties) = PathDsl("single_hop_traversal", p, <<>>, filters, projection)
      BY Zenon DEF AssembleF4
    <3> QED  BY <1>4, <3>1 DEF d
  <2> HIDE DEF d, p
  <2>2. d.shape = "single_hop_traversal" /\ DOMAIN d.vertexRoles \subseteq RolesWalked(d)
    BY <1>2, <1>3, <2>1, PathIsWired
  <2> QED  BY <2>2 DEF Wired
<1>5. CASE d = AssembleF5(w, p, properties)
  <2>1. \E filters, projection : d = PathDsl("single_hop_traversal", p, <<>>, filters, projection)
    <3> HIDE DEF d, p
    <3>1. AssembleF5(w, p, properties) # None =>
            \E filters, projection :
              AssembleF5(w, p, properties) = PathDsl("single_hop_traversal", p, <<>>, filters, projection)
      BY Zenon DEF AssembleF5
    <3> QED  BY <1>5, <3>1 DEF d
  <2> HIDE DEF d, p
  <2>2. d.shape = "single_hop_traversal" /\ DOMAIN d.vertexRoles \subseteq RolesWalked(d)
    BY <1>2, <1>3, <2>1, PathIsWired
  <2> QED  BY <2>2 DEF Wired
<1>6. CASE d = AssembleF6(w, req, p, properties)
  <2>1. \E a, sort, limit, projection :
           a.op = "aggregate" /\ d = PathDsl("top_n", p, <<a, sort, limit>>, <<>>, projection)
    <3> DEFINE a == TopAggregate(w, p, properties)
               sort == TopSort(w, req, properties)
               limit == TopLimit(req)
               columns == <<TopGroupItem(w, properties), MeasureItem(w.measures[1], TopMeasureAlias(w, properties))>>
    <3>1. d # None  OBVIOUS
    <3> HIDE DEF d, p
    <3>2. d = PathDsl("top_n", p, <<a, sort, limit>>, <<>>, columns)  BY <1>6, <3>1, TopIsPath
    <3>3. a.op = "aggregate"  BY DEF TopAggregate
    <3> HIDE DEF a, sort, limit, columns
    <3> QED  BY <3>2, <3>3
  <2> HIDE DEF d, p
  <2>2. PICK a, sort, limit, projection :
           a.op = "aggregate" /\ d = PathDsl("top_n", p, <<a, sort, limit>>, <<>>, projection)
    BY <2>1
  <2>3. IsList(<<a, sort, limit>>) /\ a \in ToSet(<<a, sort, limit>>)  BY DEF IsList, ToSet
  <2>4. /\ d.shape = "top_n" /\ DOMAIN d.vertexRoles \subseteq RolesWalked(d)
        /\ ToSet(<<a, sort, limit>>) \subseteq ToSet(d.operations)
    BY <1>2, <2>2, <2>3, PathIsWired
  <2>5. Has(d, "aggregate")  BY <2>2, <2>3, <2>4 DEF Has, Operations
  <2> QED  BY <2>4, <2>5 DEF Wired
<1> QED  BY <1>1, <1>4, <1>5, <1>6

LEMMA AssembledIsWired ==
    ASSUME NEW w, NEW req, NEW candidates, NamesOf(candidates, "vertex") \subseteq Vertices,
           Assemble(w, req, candidates) # None
    PROVE  Wired(Assemble(w, req, candidates))
<1> DEFINE family == Family(w, req)
           request == RequestFor(w, req, family, SelectedVertices(w, req, candidates, family))
           vertex == OnlyMember(ZeroHopVertices(w, req, candidates))
           d == Assemble(w, req, candidates)
<1>1. \/ d = AssembleZeroHop(request, req, candidates, family, vertex)
      \/ d = AssembleMultihop(request, req, candidates, family)
  BY DEF Assemble, AssembleFamily, AssembleRequest
<1> HIDE DEF request, vertex, family
<1> QED  BY <1>1, ZeroHopIsWired, MultihopIsWired

-----------------------------------------------------------------------------
(* The runs. Until a run ends there is no answer; what each stage hands on is *)
(* what the next one needs not to break; the issue the repair controller gets *)
(* is one of those a failure is reported for, or the one that is a gap.       *)

Issues == {"coverage_failure", "literal_unresolved", "unsupported_query_shape", "binding_plan_incomplete",
           "edge_endpoint_mismatch", "property_owner_mismatch", "metric_dimension_invalid",
           "invalid_aggregate_property_type"}

KnownCandidates ==
    "candidates" \in DOMAIN question /\ \E q \in Questions : question.candidates = q.candidates

HandedOn ==
    /\ step = "semantic_binder" => IsList(understanding.edges)
    /\ step \in {"semantic_validator", "dsl_builder"} => IsList(plan.edges)
    /\ step \in {"dsl_parser", "dsl_structural_coverage_gate", "cypher_compiler"} => Wired(dsl)
    /\ step \in {"dsl_structural_coverage_gate", "cypher_compiler"} => ParserErrors(dsl) = {}
    /\ step = "repair_controller" => issue \in Issues

GapsInv ==
    /\ KnownCandidates
    /\ HandedOn
    /\ step # "done" => answer = NoAnswer
    /\ OnlyKnownGapsBreak

LEMMA IssueIsKnown ==
    ASSUME NEW p, Validate(p, Coverage) # {}
    PROVE  FirstIssue(Validate(p, Coverage)) \in Issues
<1>1. Validate(p, Coverage) \subseteq Issues
  <2>1. CoverageErrors(p, Coverage) = {}  BY DEF CoverageErrors, Coverage
  <2>2. DslSupportErrors(p) \subseteq Issues  BY DEF DslSupportErrors, Issues
  <2>3. EdgeEndpointErrors(p) \subseteq Issues  BY DEF EdgeEndpointErrors, Issues
  <2>4. PropertyOwnerErrors(p) \subseteq Issues  BY DEF PropertyOwnerErrors, Issues
  <2>5. MetricDimensionErrors(p) \subseteq Issues  BY DEF MetricDimensionErrors, Issues
  <2>6. AggregateFunctionErrors(p) \subseteq Issues  BY DEF AggregateFunctionErrors, Issues
  <2> QED  BY <2>1, <2>2, <2>3, <2>4, <2>5, <2>6 DEF Validate
<1>2. FirstIssue(Validate(p, Coverage)) \in Validate(p, Coverage)  BY ErrorsOfThePlan, FirstIssueIsOne
<1> QED  BY <1>1, <1>2

\* How a run ends that is no gap.
EndsWell == step' = "done" /\ answer'.status # "service_failed"

LEMMA KnownReasons ==
    ASSUME NEW stages, NEW reason \in P!GenerationFailureReason
    PROVE  P!Failure(stages, reason) => EndsWell
<1>1. P!StatusForFailureReason(reason) # "service_failed"
  BY DEF P!StatusForFailureReason, P!GenerationFailureReason, P!ServiceFailureReason
<1> QED  BY <1>1 DEF P!Failure, P!Fail, P!Finish, EndsWell

LEMMA OtherEnds ==
    ASSUME NEW stages
    PROVE  /\ P!Clarification(stages) => EndsWell
           /\ P!Finish(stages, "generated", NoReason) => EndsWell
           /\ P!Unexpected(stages) => step' = "done"
BY DEF P!Clarification, P!Finish, P!Unexpected, P!Fail, EndsWell

LEMMA RunEnds ==
    ASSUME KnownCandidates', EndsWell
    PROVE  GapsInv'
BY DEF GapsInv, HandedOn, EndsWell, OnlyKnownGapsBreak

LEMMA RunGoesOn ==
    ASSUME GapsInv, step # "done", NEW next, P!Continue(next), KnownCandidates', HandedOn'
    PROVE  GapsInv'
BY DEF GapsInv, P!Continue, OnlyKnownGapsBreak

LEMMA GapsStep ==
    ASSUME GapsInv, [Next]_vars
    PROVE  GapsInv'
<1>1. CASE Prepare
  <2>1. KnownCandidates'  BY <1>1 DEF Prepare, GapsInv, KnownCandidates
  <2>2. /\ step # "done" /\ answer' = answer
        /\ step' \in {"graph_model_loader", "input_clarification_gate", "question_decomposer", "candidate_reranker",
                      "literal_resolver"}
    BY <1>1 DEF Prepare, P!BuildClient, P!RunStage, P!Continue, P!After
  <2>3. HandedOn'  BY <2>2 DEF HandedOn
  <2> QED  BY <2>1, <2>2, <2>3 DEF GapsInv, OnlyKnownGapsBreak
<1>2. CASE Decompose
  <2>1. step # "done" /\ P!Continue("candidate_retrieval") /\ question' = [question EXCEPT !.terms = NormalizeTerms(@, question.said)]
    BY <1>2 DEF Decompose
  <2>2. KnownCandidates'
    <3>1. DOMAIN question' = DOMAIN question /\ question'.candidates = question.candidates
      BY <2>1 DEF GapsInv, KnownCandidates
    <3> QED  BY <3>1 DEF GapsInv, KnownCandidates
  <2>3. HandedOn'  BY <2>1 DEF HandedOn, P!Continue
  <2> QED  BY <2>1, <2>2, <2>3, RunGoesOn
<1>3. CASE ResolveLiterals
  <2>1. step # "done" /\ question' = [question EXCEPT !.literals = Literals(question)]  BY <1>3 DEF ResolveLiterals
  <2>2. KnownCandidates'
    <3>1. DOMAIN question' = DOMAIN question /\ question'.candidates = question.candidates
      BY <2>1 DEF GapsInv, KnownCandidates
    <3> QED  BY <3>1 DEF GapsInv, KnownCandidates
  <2>3. CASE P!Continue("repair_controller") /\ issue' = "literal_unresolved"
    <3>1. HandedOn'  BY <2>3 DEF HandedOn, P!Continue, Issues
    <3> QED  BY <2>1, <2>2, <2>3, <3>1, RunGoesOn
  <2>4. CASE P!Clarification(P!Passed)  BY <2>2, <2>4, OtherEnds, RunEnds
  <2>5. CASE P!Continue("deterministic_assembler")
    <3>1. HandedOn'  BY <2>5 DEF HandedOn, P!Continue
    <3> QED  BY <2>1, <2>2, <2>5, <3>1, RunGoesOn
  <2> QED  BY <1>3, <2>3, <2>4, <2>5 DEF ResolveLiterals
<1>4. CASE AssembleDsl
  <2>1. /\ step # "done" /\ question' = question
        /\ dsl' = Assemble(question, Required, question.candidates)
        /\ P!Continue(IF dsl' = None THEN "grounded_understanding" ELSE "dsl_parser")
    BY <1>4 DEF AssembleDsl, Go
  <2>2. KnownCandidates'  BY <2>1 DEF GapsInv, KnownCandidates
  <2>3. NamesOf(question.candidates, "vertex") \subseteq Vertices  BY QuestionsAssumption DEF GapsInv, KnownCandidates
  <2>4. dsl' # None => Wired(dsl')  BY <2>1, <2>3, AssembledIsWired
  <2>5. step' = IF dsl' = None THEN "grounded_understanding" ELSE "dsl_parser"  BY <2>1 DEF P!Continue
  <2>6. HandedOn'
    <3>1. CASE dsl' = None  BY <2>5, <3>1 DEF HandedOn
    <3>2. CASE dsl' # None
      <4>1. Wired(dsl)'  BY <2>4, <3>2 DEF Wired, RolesWalked, Has, Operations
      <4> QED  BY <2>5, <3>2, <4>1 DEF HandedOn
    <3> QED  BY <3>1, <3>2
  <2> QED  BY <2>1, <2>2, <2>6, RunGoesOn
<1>5. CASE Understand
  <2>1. step # "done" /\ question' = question  BY <1>5 DEF Understand
  <2>2. KnownCandidates'  BY <2>1 DEF GapsInv, KnownCandidates
  <2>3. PICK a \in Understandings :
          \/ P!Failure(P!Passed, "semantic_match_rejected")
          \/ P!Failure(P!Passed, "grounded_understanding_schema_invalid")
          \/ /\ P!Continue("semantic_binder")
             /\ understanding' = EnrichProjection(ToBinderPayload(Hydrate(a, question.literals)))
    BY <1>5 DEF Understand
  <2>4. CASE \/ P!Failure(P!Passed, "semantic_match_rejected")
             \/ P!Failure(P!Passed, "grounded_understanding_schema_invalid")
    <3>1. {"semantic_match_rejected", "grounded_understanding_schema_invalid"} \subseteq P!GenerationFailureReason
      BY DEF P!GenerationFailureReason
    <3> QED  BY <2>2, <2>4, <3>1, KnownReasons, RunEnds
  <2>5. CASE /\ P!Continue("semantic_binder")
             /\ understanding' = EnrichProjection(ToBinderPayload(Hydrate(a, question.literals)))
    <3>1. IsList(understanding'.edges)  BY <2>5, EnrichedEdges
    <3>2. HandedOn'  BY <2>5, <3>1 DEF HandedOn, P!Continue
    <3> QED  BY <2>1, <2>2, <2>5, <3>2, RunGoesOn
  <2> QED  BY <2>3, <2>4, <2>5
<1>6. CASE BindUnderstanding
  <2>1. step = "semantic_binder" /\ question' = question  BY <1>6 DEF BindUnderstanding, Go, Stop
  <2>2. KnownCandidates'  BY <2>1 DEF GapsInv, KnownCandidates
  <2>3. \/ BinderRaises(understanding) /\ P!Unexpected(P!Broken) /\ understanding' = understanding
        \/ P!Failure(P!Broken, "semantic_match_rejected")
        \/ P!Continue("semantic_validator") /\ plan' = Bind(understanding)
    BY <1>6 DEF BindUnderstanding, Go, Stop, work
  <2>4. CASE BinderRaises(understanding) /\ P!Unexpected(P!Broken) /\ understanding' = understanding
    <3>1. step' = "done" /\ BinderRaises(understanding)'  BY <2>4, OtherEnds DEF BinderRaises
    <3> QED  BY <2>2, <3>1 DEF GapsInv, HandedOn, OnlyKnownGapsBreak
  <2>5. CASE P!Failure(P!Broken, "semantic_match_rejected")
    <3>1. "semantic_match_rejected" \in P!GenerationFailureReason  BY DEF P!GenerationFailureReason
    <3> QED  BY <2>2, <2>5, <3>1, KnownReasons, RunEnds
  <2>6. CASE P!Continue("semantic_validator") /\ plan' = Bind(understanding)
    <3>1. IsList(plan'.edges)  BY <2>1, <2>6, BoundEdges DEF GapsInv, HandedOn
    <3>2. HandedOn'  BY <2>6, <3>1 DEF HandedOn, P!Continue
    <3> QED  BY <2>1, <2>2, <2>6, <3>2, RunGoesOn
  <2> QED  BY <2>3, <2>4, <2>5, <2>6
<1>7. CASE ValidatePlan
  <2>1. step = "semantic_validator" /\ question' = question /\ plan' = plan  BY <1>7 DEF ValidatePlan, work
  <2>2. KnownCandidates'  BY <2>1 DEF GapsInv, KnownCandidates
  <2>3. CASE P!Continue("dsl_builder")
    <3>1. HandedOn'  BY <2>1, <2>3 DEF GapsInv, HandedOn, P!Continue
    <3> QED  BY <2>1, <2>2, <2>3, <3>1, RunGoesOn
  <2>4. CASE /\ Validate(plan, Coverage) # {} /\ P!Continue("repair_controller")
             /\ issue' = FirstIssue(Validate(plan, Coverage))
    <3>1. issue' \in Issues  BY <2>4, IssueIsKnown
    <3>2. HandedOn'  BY <2>4, <3>1 DEF HandedOn, P!Continue
    <3> QED  BY <2>1, <2>2, <2>4, <3>2, RunGoesOn
  <2> QED  BY <1>7, <2>3, <2>4 DEF ValidatePlan
<1>8. CASE DecideRepair
  <2>1. step = "repair_controller" /\ UNCHANGED <<question, understanding, issue>>
    BY <1>8 DEF DecideRepair, P!DecideRepair, work
  <2>2. KnownCandidates' /\ issue \in Issues  BY <2>1 DEF GapsInv, KnownCandidates, HandedOn
  <2>3. CASE P!Clarification(P!Passed)  BY <2>2, <2>3, OtherEnds, RunEnds
  <2>4. CASE issue \notin {"coverage_failure", "literal_unresolved"} /\ P!Failure(P!Passed, issue)
    <3>1. CASE issue = "invalid_aggregate_property_type"
      <4>1. step' = "done"  BY <2>4 DEF P!Failure, P!Fail, P!Unexpected, P!Finish
      <4> QED  BY <2>1, <2>2, <3>1, <4>1 DEF GapsInv, HandedOn, OnlyKnownGapsBreak
    <3>2. CASE issue # "invalid_aggregate_property_type"
      <4>1. issue \in P!GenerationFailureReason  BY <2>2, <2>4, <3>2 DEF Issues, P!GenerationFailureReason
      <4>2. EndsWell  BY <2>4, <4>1, KnownReasons
      <4> QED  BY <2>2, <4>2, RunEnds
    <3> QED  BY <3>1, <3>2
  <2> QED  BY <1>8, <2>3, <2>4 DEF DecideRepair, P!DecideRepair
<1>9. CASE BuildDsl
  <2>1. step = "dsl_builder" /\ question' = question  BY <1>9 DEF BuildDsl, Go, Stop
  <2>2. KnownCandidates'  BY <2>1 DEF GapsInv, KnownCandidates
  <2>3. CASE P!Failure(P!Broken, "compiler_shape_mismatch")
    <3>1. "compiler_shape_mismatch" \in P!GenerationFailureReason  BY DEF P!GenerationFailureReason
    <3> QED  BY <2>2, <2>3, <3>1, KnownReasons, RunEnds
  <2>4. CASE Buildable(plan) /\ P!Continue("dsl_parser") /\ dsl' = Build(plan)
    <3>1. Wired(dsl')  BY <2>1, <2>4, BuiltIsWired DEF GapsInv, HandedOn
    <3>2. Wired(dsl)'  BY <3>1 DEF Wired, RolesWalked, Has, Operations
    <3>3. HandedOn'  BY <2>4, <3>2 DEF HandedOn, P!Continue
    <3> QED  BY <2>1, <2>2, <2>4, <3>3, RunGoesOn
  <2> QED  BY <1>9, <2>3, <2>4 DEF BuildDsl, Go, Stop
<1>10. CASE ParseDsl
  <2>1. step = "dsl_parser" /\ question' = question /\ dsl' = dsl  BY <1>10 DEF ParseDsl, Go, Stop, work
  <2>2. KnownCandidates'  BY <2>1 DEF GapsInv, KnownCandidates
  <2>3. CASE P!Failure(P!Broken, "compiler_shape_mismatch")
    <3>1. "compiler_shape_mismatch" \in P!GenerationFailureReason  BY DEF P!GenerationFailureReason
    <3> QED  BY <2>2, <2>3, <3>1, KnownReasons, RunEnds
  <2>4. CASE ParserErrors(dsl) = {} /\ P!Continue("dsl_structural_coverage_gate")
    <3>1. HandedOn'  BY <2>1, <2>4 DEF GapsInv, HandedOn, P!Continue
    <3> QED  BY <2>1, <2>2, <2>4, <3>1, RunGoesOn
  <2> QED  BY <1>10, <2>3, <2>4 DEF ParseDsl, Go, Stop
<1>11. CASE CheckCoverage
  <2>1. step = "dsl_structural_coverage_gate" /\ question' = question /\ dsl' = dsl
    BY <1>11 DEF CheckCoverage, Go, Stop, work
  <2>2. KnownCandidates'  BY <2>1 DEF GapsInv, KnownCandidates
  <2>3. CASE P!Failure(P!Broken, "coverage_failure")
    <3>1. "coverage_failure" \in P!GenerationFailureReason  BY DEF P!GenerationFailureReason
    <3> QED  BY <2>2, <2>3, <3>1, KnownReasons, RunEnds
  <2>4. CASE P!Continue("cypher_compiler")
    <3>1. HandedOn'  BY <2>1, <2>4 DEF GapsInv, HandedOn, P!Continue
    <3> QED  BY <2>1, <2>2, <2>4, <3>1, RunGoesOn
  <2> QED  BY <1>11, <2>3, <2>4 DEF CheckCoverage, Go, Stop
<1>12. CASE CompileQuery
  <2>1. step = "cypher_compiler" /\ question' = question  BY <1>12 DEF CompileQuery, Go, Stop
  <2>2. KnownCandidates'  BY <2>1 DEF GapsInv, KnownCandidates
  <2>3. ~CompilerBreaks(BuildAst(dsl))  BY <2>1, CompilerHolds DEF GapsInv, HandedOn
  <2>4. CASE P!Failure(P!Broken, "compiler_shape_mismatch")
    <3>1. "compiler_shape_mismatch" \in P!GenerationFailureReason  BY DEF P!GenerationFailureReason
    <3> QED  BY <2>2, <2>4, <3>1, KnownReasons, RunEnds
  <2>5. CASE P!Continue("cypher_self_validation")
    <3>1. HandedOn'  BY <2>5 DEF HandedOn, P!Continue
    <3> QED  BY <2>1, <2>2, <2>5, <3>1, RunGoesOn
  <2> QED  BY <1>12, <2>3, <2>4, <2>5 DEF CompileQuery, Go, Stop
<1>13. CASE ValidateQuery
  <2>1. question' = question  BY <1>13 DEF ValidateQuery, Stop
  <2>2. KnownCandidates'  BY <2>1 DEF GapsInv, KnownCandidates
  <2>3. CASE P!Finish(P!Passed, "generated", NoReason)  BY <2>2, <2>3, OtherEnds, RunEnds
  <2>4. CASE \E code \in P!SelfValidationCode : P!Failure(P!Broken, code)
    <3>1. P!SelfValidationCode \subseteq P!GenerationFailureReason
      BY DEF P!SelfValidationCode, P!GenerationFailureReason
    <3> QED  BY <2>2, <2>4, <3>1, KnownReasons, RunEnds
  <2> QED  BY <1>13, <2>3, <2>4, SelfValidationIsPipelines DEF ValidateQuery, Stop
<1>14. CASE Returned \/ UNCHANGED vars
  <2>1. UNCHANGED <<question, understanding, plan, dsl, step, issue, answer>>  BY <1>14 DEF Returned, vars, work
  <2>2. HandedOn'
    <3>1. Wired(dsl)' <=> Wired(dsl)  BY <2>1 DEF Wired, RolesWalked, Has, Operations
    <3> QED  BY <2>1, <3>1 DEF GapsInv, HandedOn
  <2>3. KnownCandidates'  BY <2>1 DEF GapsInv, KnownCandidates
  <2>4. OnlyKnownGapsBreak'  BY <2>1 DEF GapsInv, OnlyKnownGapsBreak, BinderRaises
  <2> QED  BY <2>1, <2>2, <2>3, <2>4 DEF GapsInv
<1> QED  BY <1>1, <1>2, <1>3, <1>4, <1>5, <1>6, <1>7, <1>8, <1>9, <1>10, <1>11, <1>12, <1>13, <1>14 DEF Next

(* Whatever is asked, and whatever the LLM answers, a run ends as the         *)
(* service's own failure only for an issue of the validator no reason stands  *)
(* for, or for a measure of a vertex that is none.                            *)
THEOREM OnlyKnownGaps == Spec => []OnlyKnownGapsBreak
<1>1. Init => GapsInv
  <2> SUFFICES ASSUME Init PROVE GapsInv  OBVIOUS
  <2>1. question \in Questions /\ step = "client" /\ answer = NoAnswer  BY DEF Init, P!Init
  <2> QED  BY <2>1, QuestionsAssumption DEF GapsInv, KnownCandidates, HandedOn, OnlyKnownGapsBreak
<1>2. GapsInv /\ [Next]_vars => GapsInv'  BY GapsStep
<1>3. GapsInv => OnlyKnownGapsBreak  BY DEF GapsInv
<1> QED  BY <1>1, <1>2, <1>3, PTL DEF Spec
=============================================================================
