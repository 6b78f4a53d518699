---------------------------- MODULE Translation ----------------------------
(* One run of core/pipeline.py with what its stages compute: a question is    *)
(* assembled to a DSL, or understood by the LLM, bound, validated and built;  *)
(* the DSL is parsed, held against the question, compiled and validated. What *)
(* the decomposition and the retrieval find in the wording is the question's  *)
(* own here, and the LLM may understand it in any way at all. Pipeline, which *)
(* says how a run may go, is what this module implements.                     *)
EXTENDS PathAssembly

CONSTANTS NoAnswer, NoReason, MaxSchemaRetries,
          Questions,       \* what may be asked, with what is found in its wording
          Understandings   \* what the LLM may answer

\* What retrieval finds is in the graph model.
ASSUME QuestionsAssumption ==
  \A q \in Questions : /\ "candidates" \in DOMAIN q
                       /\ NamesOf(q.candidates, "vertex") \subseteq Vertices
                       /\ NamesOf(q.candidates, "edge") \subseteq Edges
                       /\ \A p \in PropertiesOf(q.candidates) : HasProperty(p.owner, p.name)

\* An answer's edges, groups, measures, filters and literals are lists.
ASSUME UnderstandingsAssumption ==
  \A a \in Understandings : \A x \in {"edges", "group_by", "measures", "filters", "literals"} :
    x \in DOMAIN a /\ a[x] \in Seq(ToSet(a[x]))

VARIABLES
  answer, llmEnabled, step, trace, issue, calls, provider,  \* Pipeline's
  question,                        \* what is asked, one of Questions with what was made of it
  understanding, plan, dsl, query  \* what the stages made of it

settings == <<llmEnabled, provider>>
work == <<understanding, plan, dsl, query>>
vars == <<answer, step, trace, issue, calls, settings, question, work>>

\* The run as Pipeline sees it.
P == INSTANCE Pipeline WITH
       answer <- answer, llmEnabled <- llmEnabled, step <- step, trace <- trace,
       issue <- issue, calls <- calls, provider <- provider

Required == Requirements(question)

Init ==
  /\ P!Init /\ llmEnabled
  /\ question \in Questions
  /\ understanding = None /\ plan = None /\ dsl = None /\ query = None

\* A stage's work is done; the ones the run skips keep None.
Go(next) == P!Continue(next) /\ UNCHANGED <<issue, calls, settings, question>>
Stop(how) == how /\ UNCHANGED <<issue, calls, settings, question, work>>

-----------------------------------------------------------------------------
(* Up to the literals, where a stage finds something to go on with: Pipeline   *)
(* has what else can happen there.                                             *)

Prepare ==
  /\ \/ P!BuildClient
     \/ step \in {"graph_model_loader", "candidate_retrieval", "candidate_reranker"} /\ P!RunStage
     \/ /\ step = "input_clarification_gate"
        /\ P!Continue("question_decomposer") /\ UNCHANGED <<issue, calls, settings>>
  /\ UNCHANGED <<question, work>>

\* The LLM's decomposition of the question.
Decompose ==
  /\ step = "question_decomposer"
  /\ P!Continue("candidate_retrieval") /\ calls' = calls + 1
  /\ question' = [question EXCEPT !.terms = NormalizeTerms(@, question.said)]
  /\ UNCHANGED <<issue, settings, work>>

Resolved(literals) == \A l \in ToSet(literals) : l.match # "unresolved"

ResolveLiterals ==
  /\ step = "literal_resolver"
  /\ question' = [question EXCEPT !.literals = Literals(question)]
  /\ \/ ~Resolved(question'.literals) /\ P!Continue("repair_controller") /\ issue' = "literal_unresolved"
     \/ Resolved(question'.literals) /\ Naked(question) /\ P!Clarification(P!Passed) /\ UNCHANGED issue
     \/ /\ Resolved(question'.literals) /\ ~Naked(question)
        /\ P!Continue("deterministic_assembler") /\ UNCHANGED issue
  /\ UNCHANGED <<calls, settings, work>>

-----------------------------------------------------------------------------
(* To a DSL.                                                                   *)

AssembleDsl ==
  /\ step = "deterministic_assembler"
  /\ dsl' = Assemble(question, Required, question.candidates)
  /\ Go(IF dsl' = None THEN "grounded_understanding" ELSE "dsl_parser")
  /\ UNCHANGED <<understanding, plan, query>>

\* An empty projection is filled with the selected vertices the terms to return mean as a whole.
EnrichProjection(u) ==
  IF u.projection # <<>> \/ u.vertices = <<>> THEN u
  ELSE [u EXCEPT !.projection = MapSeq(WholesAmong(question, u.vertices), LAMBDA v : WholeItem(v, {}))]

\* One answer, which is taken, or refused for what it refers to or for its form.
Understand ==
  /\ step = "grounded_understanding"
  /\ calls' = calls + 1
  /\ \E a \in Understandings :
       \/ /\ ~Hydratable(a, question.candidates, question.literals)
          /\ P!Failure(P!Passed, "semantic_match_rejected") /\ UNCHANGED understanding
       \/ /\ Hydratable(a, question.candidates, question.literals)
          /\ \E u \in {Hydrate(a, question.literals)} :
               LET within == WithinBoundaries(u, question.candidates, question.literals)
               IN  \/ /\ SchemaValid(u) /\ ~within
                      /\ P!Failure(P!Passed, "semantic_match_rejected") /\ UNCHANGED understanding
                   \/ /\ ~SchemaValid(u)
                      /\ P!Failure(P!Passed, "grounded_understanding_schema_invalid") /\ UNCHANGED understanding
                   \/ /\ SchemaValid(u) /\ within
                      /\ P!Continue("semantic_binder") /\ understanding' = EnrichProjection(ToBinderPayload(u))
  /\ UNCHANGED <<issue, settings, question, plan, dsl, query>>

\* A measure of a vertex that is none is an error no stage expects.
BindUnderstanding ==
  /\ step = "semantic_binder"
  /\ LET operands == OperandsBindable(understanding, question.candidates)
     IN  \/ operands /\ BinderRaises(understanding) /\ Stop(P!Unexpected(P!Broken))
         \/ /\ ~operands \/ (~BinderRaises(understanding) /\ ~Bindable(understanding, question.candidates))
            /\ Stop(P!Failure(P!Broken, "semantic_match_rejected"))
         \/ /\ ~BinderRaises(understanding) /\ Bindable(understanding, question.candidates)
            /\ Go("semantic_validator")
            /\ plan' = Bind(understanding)
            /\ UNCHANGED <<understanding, dsl, query>>

\* The validator's checks in order; the first error is the one that counts.
IssueOrder == <<"coverage_failure", "projection_coverage_missing", "unsupported_query_shape",
                "binding_plan_incomplete", "edge_endpoint_mismatch", "property_owner_mismatch",
                "metric_dimension_invalid", "invalid_aggregate_property_type">>

FirstIssue(errors) == IssueOrder[Min({i \in DOMAIN IssueOrder : IssueOrder[i] \in errors})]

\* The report that is made for an LLM's decomposition leaves no term over and asks for none.
Coverage == [unresolved |-> FALSE, required |-> {}, covered |-> {}]

ValidatePlan ==
  /\ step = "semantic_validator"
  /\ LET errors == Validate(plan, Coverage)
     IN  \/ errors = {} /\ P!Continue("dsl_builder") /\ UNCHANGED issue
         \/ errors # {} /\ P!Continue("repair_controller") /\ issue' = FirstIssue(errors)
  /\ UNCHANGED <<calls, settings, question, work>>

DecideRepair == P!DecideRepair /\ UNCHANGED <<question, work>>

BuildDsl ==
  /\ step = "dsl_builder"
  /\ \/ ~Buildable(plan) /\ Stop(P!Failure(P!Broken, "compiler_shape_mismatch"))
     \/ /\ Buildable(plan)
        /\ Go("dsl_parser")
        /\ dsl' = Build(plan)
        /\ UNCHANGED <<understanding, plan, query>>

-----------------------------------------------------------------------------
(* To a query: _complete_dsl_generation.                                       *)

ParseUngated ==
  /\ step = "dsl_parser"
  /\ \/ ParserErrors(dsl) # {} /\ Stop(P!Failure(P!Broken, "compiler_shape_mismatch"))
     \/ ParserErrors(dsl) = {} /\ Go("cypher_compiler") /\ UNCHANGED work

ParseDsl ==
  /\ step = "dsl_parser"
  /\ \/ ParserErrors(dsl) # {} /\ Stop(P!Failure(P!Broken, "compiler_shape_mismatch"))
     \/ ParserErrors(dsl) = {} /\ Go("dsl_structural_coverage_gate") /\ UNCHANGED work

CheckCoverage ==
  /\ step = "dsl_structural_coverage_gate"
  /\ \/ MissingRequirements(Required, dsl) # {} /\ Stop(P!Failure(P!Broken, "coverage_failure"))
     \/ MissingRequirements(Required, dsl) = {} /\ Go("cypher_compiler") /\ UNCHANGED work

\* A role without a variable is a KeyError, which no stage expects.
CompileQuery ==
  /\ step = "cypher_compiler"
  /\ LET ast == BuildAst(dsl)
     IN  \/ ~Compiles(ast) /\ Stop(P!Failure(P!Broken, "compiler_shape_mismatch"))
         \/ Compiles(ast) /\ CompilerBreaks(ast) /\ Stop(P!Unexpected(P!Broken))
         \/ /\ Compiles(ast) /\ ~CompilerBreaks(ast)
            /\ Go("cypher_self_validation")
            /\ query' = Compile(ast)
            /\ UNCHANGED <<understanding, plan, dsl>>

ValidateQuery ==
  /\ step = "cypher_self_validation"
  /\ LET errors == SelfValidationErrors(query, ProjectionAliases(BuildAst(dsl)))
     IN  \/ errors = {} /\ Stop(P!Finish(P!Passed, "generated", NoReason))
         \/ \E code \in errors : Stop(P!Failure(P!Broken, code))

\* The output is given; there is no step after it.
Returned == step = "done" /\ UNCHANGED vars

Next ==
  \/ Prepare \/ Decompose \/ ResolveLiterals \/ AssembleDsl \/ Understand \/ BindUnderstanding
  \/ ValidatePlan \/ DecideRepair \/ BuildDsl
  \/ ParseDsl \/ CheckCoverage \/ CompileQuery \/ ValidateQuery
  \/ Returned

Spec == Init /\ [][Next]_vars

-----------------------------------------------------------------------------
Generated == answer # NoAnswer /\ answer.status = "generated"

\* The DSL is made without asking the LLM what the question means: the one call is the decomposition's.
Assembled == dsl # None /\ calls = 1

(* Whatever the stages compute, a run goes the way Pipeline says it may: the   *)
(* stages come in one of its orders, and what ends a run is reported with one  *)
(* of its reasons.                                                             *)
ImplementsPipeline == P!Init /\ [][P!Next]_(P!vars)

Aggregated(q) ==
  \E c \in ToSet(q.returns) \cup ToSet(q.with) : c.expression.kind \in {"measure", "metric"}

MeasureAsked(d) ==
  \E x \in ToSet(d.projection) : x.kind = "source" /\ x.source.ns \in {"measure", "metric"}

\* An edge may be walked as many times as it says.
HopsWalked(q) == Cardinality(UNION {{i} \X (1..q.edges[i].max) : i \in DOMAIN q.edges})

RequirementsReached ==
  /\ Required.order_by => \E x \in ToSet(query.order) : Required.direction \in {x.direction, None}
  /\ Required.limit => query.limit # None /\ Required.value \in {query.limit, None}
  /\ Required.aggregate /\ (Assembled \/ MeasureAsked(dsl)) => Aggregated(query)
  /\ dsl.shape = "named_path_pattern" \/ HopsWalked(query) >= Required.hops

(* What the wording of the question requires reaches the query, through the    *)
(* DSL the gate looks at and the clauses the compiler takes from it: the       *)
(* order and its direction, the limit, the length of the path unless a named   *)
(* pattern stands for it, and an aggregate: always where no LLM is asked, and  *)
(* else where a measure is to be returned, for the gate asks no more of a DSL  *)
(* than the shape of an aggregate.                                             *)
RequirementsReachQuery == Generated => RequirementsReached

(* The query says what was bound. Each condition of the DSL is among its      *)
(* conditions, on a node with the label of its owner, with its operator and,  *)
(* unless the property is only to be there, its value; each condition the     *)
(* LLM's answer was bound to is, with the value of its literal. There is one  *)
(* column for each item of the DSL, in its order, and where that is a         *)
(* property, the column reads this property of a node with its owner's label. *)
(* Left out are the shapes that do lose conditions: a two-step aggregate,     *)
(* which builds none, and a named path, which takes the literals of the plan  *)
(* first and whose columns, when nothing is asked, are the template's own.    *)
Conditioned(owner, name, operator, value) ==
  \E c \in ToSet(query.where) : /\ LabelOf(query, c.variable) = owner /\ c.name = name
                                /\ c.operator = operator /\ c.value = value

InQuery(operator, l) == Conditioned(l.owner, l.property, operator, EffectiveValue(l))

ValueCompiled(f) == IF f.operator = "is_not_null" THEN None ELSE EffectiveValue(f.value)

ConditionsCompiled ==
  \A f \in FiltersCompiled(BuildAst(dsl)) : Conditioned(f.owner, f.name, f.operator, ValueCompiled(f))

ConditionsBound ==
  (plan # None /\ plan.shape \notin {"two_step_aggregate", "named_path_pattern"}) =>
    \A f \in ToSet(plan.filters) : InQuery(f.operator, f.literal)

ColumnsInOrder ==
  /\ DOMAIN query.returns = DOMAIN dsl.projection \/ (dsl.shape = "named_path_pattern" /\ dsl.projection = <<>>)
  /\ \A i \in DOMAIN dsl.projection : dsl.projection[i].kind = "property" =>
       LET read == query.returns[i].expression
       IN  <<LabelOf(query, read.variable), read.name>> = <<dsl.projection[i].owner, dsl.projection[i].name>>

QuerySaysWhatIsBound == Generated => ConditionsCompiled /\ ConditionsBound /\ ColumnsInOrder

(* Nothing that is asked is lost or mistaken where no LLM is asked. Each      *)
(* literal the decomposition named is in the query, on a node with the label  *)
(* of its owner and with its value; a count has a condition for each property *)
(* that is said to be present. A property that is asked of a vertex retrieval *)
(* found, both by their names, is read of that vertex and not of another that *)
(* is at hand; and the property, or the vertex along a path, is counted that  *)
(* "how many" is attached to, if it is only one. Left out is what the code    *)
(* does lose: a literal only retrieval recognised, when the words give no     *)
(* other sign of a condition; one that is among the words for what is         *)
(* counted; and one of another owner than the counted vertex, when a literal  *)
(* of that vertex is of a property of the same name, for the assembler of a   *)
(* count is handed the conditions by the name of their property alone. With   *)
(* the LLM or without, no two columns have one name.                          *)
CountsOne(d) == d.shape = "ad_hoc_aggregate"

\* A literal whose condition the counted vertex takes for one of its own.
TakenOver(l) ==
  /\ l.owner \notin Range(dsl.vertexRoles)
  /\ \E own \in ToSet(question.literals) : own.owner \in Range(dsl.vertexRoles) /\ own.property = l.property

\* The properties a filter names right before the word that they are present.
SaidPresent ==
  LET filters == Filtering(question)
  IN  {r[3] : r \in {x \in DOMAIN Suits : Suits[x] = 100 /\ \E i \in 2..Len(filters) :
                       /\ Is(filters[i], "present") /\ filters[i].attached = None
                       /\ filters[i - 1].text = x[1] /\ x[2] \in Range(dsl.vertexRoles)}}

Read == {<<LabelOf(query, c.expression.variable), c.expression.name>> :
           c \in {x \in ToSet(query.returns) : x.expression.kind = "property"}}

CountedIn == {<<LabelOf(query, c.expression.variable), c.expression.name>> :
                c \in {x \in ToSet(query.returns) \cup ToSet(query.with) : x.expression.kind = "measure"}}

\* What a text names outright of a vertex.
Outright(text, v) == {<<v, p>> : p \in {x \in Properties[v] : At(Suits, <<text, v, x>>, 0) = 100}}

AskedOutright(t) ==
  UNION {Outright(t.text, v) : v \in {x \in NamesOf(question.candidates, "vertex") \ question.weak :
                                        At(Mentioned, t.attached, <<>>) = <<x>>}}

CountAskedOutright ==
  LET texts == {t.attached : t \in {x \in ToSet(Projected(question)) : Is(x, "number")}}
      vertices == Range(dsl.vertexRoles)
  IN  IF CountsOne(dsl) THEN UNION {Outright(text, v) : text \in texts, v \in vertices}
      ELSE {<<v, IdProperty[v]>> : v \in (UNION {At(NamesAt, text, {}) : text \in texts}) \cap vertices}

NothingAskedIsLost ==
  Generated =>
    /\ Assembled =>
         \A l \in ToSet(question.literals) :
           \/ \A s \in ToSet(question.said) : s.text # l.raw
           \/ CountsOne(dsl) /\ (TakenOver(l) \/ \E x \in ToSet(dsl.projection) : l.raw \in x.terms)
           \/ InQuery(FilterOperator(question.terms, l), l)
    /\ Assembled /\ CountsOne(dsl) =>
         \A name \in SaidPresent : \E c \in ToSet(query.where) : <<c.name, c.operator>> = <<name, "is_not_null">>
    /\ Assembled /\ dsl.shape \in {"vertex_lookup", "single_hop_traversal"} =>
         \A t \in ToSet(Asked(question)) : AskedOutright(t) \subseteq Read
    /\ Assembled /\ dsl.shape \in {"ad_hoc_aggregate", "top_n"} /\ Cardinality(CountAskedOutright) = 1 =>
         CountAskedOutright \subseteq CountedIn
    /\ \A i, j \in DOMAIN query.returns : i # j => query.returns[i].alias # query.returns[j].alias

(* What is assembled without the LLM is a DSL the parser and the compiler take *)
(* as it is; only a literal's value may still be in the way.                   *)
AssembledIsCompiled ==
  Assembled =>
    ParserErrors(dsl) = {} /\ ShapeCompiles(BuildAst(dsl)) /\ ~CompilerBreaks(BuildAst(dsl))

(* An assembled path does not guess: where several edges of the model join    *)
(* the same two vertices, the one that is walked is one the question's words   *)
(* for that step mean, or the only one of them that retrieval found.           *)
Walked(d) == {d.edgeRoles[r] : r \in DOMAIN d.edgeRoles}

Alternatives(e) == {x \in Edges \ {e} : {From[x], To[x]} = {From[e], To[e]}}

\* What the words for a step between two vertices may be: those between their first mentions, those from one on.
Parts(texts, from) == {texts, <<>>} \cup {SubSeq(texts, p[1], p[2]) : p \in from \X (from \cup {Len(texts)})}

Contexts(texts, ends) == Parts(texts, {FirstMention(texts, v) : v \in ends} \ {None})

AssembledPathIsMeant ==
  Assembled =>
    \A e \in Walked(dsl) :
      \/ \E words \in Contexts(PathTexts(question.terms), {From[e], To[e]}) : e \in DirectionEdges(words)
      \/ \A other \in Alternatives(e) : <<"edge", other>> \notin question.candidates

(* What the parser has accepted does not break the compiler: the only runs     *)
(* that end as the service's own failure are those with an issue of the        *)
(* validator that no failure reason stands for, and those in which the LLM     *)
(* counts a vertex that is none.                                               *)
OnlyKnownGapsBreak ==
  (answer # NoAnswer /\ answer.status = "service_failed") =>
    \/ issue = "invalid_aggregate_property_type"
    \/ BinderRaises(understanding)
===========================================================================
