------------------------------ MODULE DslParser ------------------------------
(* dsl/models.py and dsl/parser.py: what the parser finds wrong with a       *)
(* restricted query DSL, and the query it is parsed to. A role and the       *)
(* vertex it is bound to stay apart, as in the DSL.                          *)
EXTENDS DslBuilder

DslOperator == Operators \cup {"is_not_null"}

-----------------------------------------------------------------------------
(* The payload's own model.                                                    *)

AllFilters(dsl) ==
  ToSet(dsl.filters) \cup UNION {ToSet(o.filters) : o \in {x \in ToSet(dsl.operations) :
                                                        x.op \in {"metric_aggregate", "variable_path"}}}

\* The operations of one kind; the places of the edges among them.
Operations(dsl, op) == {o \in ToSet(dsl.operations) : o.op = op}
Has(dsl, op) == Operations(dsl, op) # {}
EdgePlaces(dsl) == {i \in DOMAIN dsl.operations : dsl.operations[i].op = "traverse_edge"}

\* The one of a kind no sequence has two of.
SingleOperation(dsl, op) == CHOOSE o \in Operations(dsl, op) : TRUE

WellFormed(dsl) ==
  /\ dsl.shape \in QueryShape
  /\ \A f \in AllFilters(dsl) : f.operator \in DslOperator
  /\ \A o \in ToSet(dsl.operations) :
       /\ o.op = "limit" => o.value > 0
       /\ o.op = "sort" => o.by # <<>>
       /\ o.op = "aggregate" => o.measures # <<>>
       /\ o.op = "variable_path" => o.edges # <<>> /\ o.min <= o.max /\ o.max \in 1..8
       /\ o.op \in {"aggregate", "subquery"} => \A m \in ToSet(o.measures) : m.function \in AggregateFunctions

-----------------------------------------------------------------------------
(* The order of the operations.                                                *)

Tails == {<<>>, <<"sort">>, <<"limit">>, <<"sort", "limit">>}

\* A chain of edges, then one of the tails.
ChainThen(ops, tails) ==
  \E n \in 1..Len(ops) : /\ \A i \in 1..n : ops[i] = "traverse_edge"
                         /\ SubSeq(ops, n + 1, Len(ops)) \in tails

ShapeOperation ==
  [variable_path_traversal |-> "variable_path", named_path_pattern |-> "use_path_pattern",
   metric_aggregate |-> "metric_aggregate", ad_hoc_aggregate |-> "aggregate", two_step_aggregate |-> "subquery"]

SequenceAllowed(dsl) ==
  LET ops == MapSeq(dsl.operations, LAMBDA o : o.op)
  IN  CASE dsl.shape = "vertex_lookup" -> ops \in {<<>>, <<"limit">>}
        [] dsl.shape = "single_hop_traversal" -> ChainThen(ops, Tails)
        [] dsl.shape = "top_n" -> \/ ops \in {<<o, "sort", "limit">> : o \in {"metric_aggregate", "aggregate"}}
                                  \/ ChainThen(ops, {<<"aggregate", "sort", "limit">>})
        [] OTHER -> ops \in {<<ShapeOperation[dsl.shape]>> \o tail : tail \in Tails}

-----------------------------------------------------------------------------
(* What the operations mean.                                                   *)

Code(holds, code) == IF holds THEN {} ELSE {code}

BindingErrors(dsl) ==
  Code(\A r \in DOMAIN dsl.vertexRoles : dsl.vertexRoles[r] \in Vertices, "unknown_vertex")
  \cup Code(\A r \in DOMAIN dsl.edgeRoles : dsl.edgeRoles[r] \in Edges, "unknown_edge")

TraverseErrors(dsl, o) ==
  IF \/ {o.from, o.to} \ DOMAIN dsl.vertexRoles # {}
     \/ o.edge \notin DOMAIN dsl.edgeRoles
  THEN {"unknown_role_alias"}
  ELSE Code(EdgeConnects(dsl.edgeRoles[o.edge], dsl.vertexRoles[o.from], dsl.vertexRoles[o.to], o.direction),
            "invalid_edge_endpoint")

\* A filter without target may be on any property there is.
FilterErrors(filters, roles) ==
  UNION {CASE f.target # None /\ f.target \notin DOMAIN roles -> {"unknown_filter_target"}
           [] f.target # None /\ f.target \in DOMAIN roles /\ roles[f.target] # f.owner -> {"filter_owner_mismatch"}
           [] OTHER -> Code(HasProperty(f.owner, f.name), "unknown_property") : f \in ToSet(filters)}

\* Where the edges lead is not looked at.
VariablePathErrors(dsl, o) ==
  Code({o.start, o.through} \subseteq DOMAIN dsl.vertexRoles, "unknown_role_alias")
  \cup Code(ToSet(o.edges) \subseteq Edges, "unknown_edge")
  \cup FilterErrors(o.filters, [r \in {o.through} \cap DOMAIN dsl.vertexRoles |-> dsl.vertexRoles[r]])

PathPatternErrors(o) ==
  IF o.pattern \notin PathPatterns THEN {"unknown_path_pattern"}
  ELSE Code(DOMAIN o.parameters \subseteq Parameters[o.pattern], "unknown_path_pattern_parameter")
       \cup Code(Parameters[o.pattern] \subseteq DOMAIN o.parameters, "missing_path_pattern_parameter")
       \cup Code(\A p \in DOMAIN o.parameters : o.parameters[p].typed, "path_pattern_parameter_type")

MetricTargetErrors(metric, target, owner, name) ==
  CASE target \notin DOMAIN MetricAliases[metric] -> {"unknown_metric_alias"}
    [] target \in DOMAIN MetricAliases[metric] /\ MetricAliases[metric][target] # owner ->
         {"metric_dimension_owner_mismatch"}
    [] OTHER -> Code(<<target, name>> \in ValidDimensions[metric], "invalid_metric_dimension")

MetricErrors(o) ==
  IF o.metric \notin Metrics THEN {"unknown_metric"}
  ELSE (UNION {MetricTargetErrors(o.metric, x.target, x.owner, x.name) \cup Code(HasProperty(x.owner, x.name),
                                                                              "unknown_property") :
                x \in ToSet(o.group_by) \cup {f \in ToSet(o.filters) : f.target # None}})
       \cup Code(\A f \in ToSet(o.filters) : f.target # None, "missing_filter_target")

AggregateErrors(dsl, o) ==
  (UNION {CASE x.target \notin DOMAIN dsl.vertexRoles -> {"unknown_aggregate_target"}
           [] x.target \in DOMAIN dsl.vertexRoles /\ dsl.vertexRoles[x.target] # x.owner -> {"aggregate_owner_mismatch"}
           [] OTHER -> Code(HasProperty(x.owner, x.name), "unknown_property") :
           x \in ToSet(o.group_by) \cup ToSet(o.measures)})
  \cup Code(\A m \in ToSet(o.measures) : m.function \in {"sum", "avg"} => <<m.owner, m.name>> \in Numeric,
            "invalid_aggregate_property_type")

SubqueryErrors(dsl, o) ==
  CASE o.measures = <<>> -> {"missing_subquery_measures"}
    [] Cardinality({x.target : x \in ToSet(o.group_by) \cup ToSet(o.measures)}) > 1 ->
         {"unsupported_subquery_vertex_roles"}
    [] OTHER -> AggregateErrors(dsl, o)

OperationErrors(dsl, o) ==
  CASE o.op = "traverse_edge" -> TraverseErrors(dsl, o)
    [] o.op = "variable_path" -> VariablePathErrors(dsl, o)
    [] o.op = "use_path_pattern" -> PathPatternErrors(o)
    [] o.op = "metric_aggregate" -> MetricErrors(o)
    [] o.op = "aggregate" -> AggregateErrors(dsl, o)
    [] o.op = "subquery" -> SubqueryErrors(dsl, o)
    [] OTHER -> {}

-----------------------------------------------------------------------------
(* What the projection and the order may refer to.                             *)

OperationOutputs(o) ==
  LET of(ns, items) == {[ns |-> ns, name |-> x.alias] : x \in ToSet(items)}
  IN  CASE o.op = "use_path_pattern" ->
             {[ns |-> o.bind_as, name |-> c] : c \in IF o.pattern \in PathPatterns THEN ToSet(PatternOutputs[o.pattern]) ELSE {}}
        [] o.op = "metric_aggregate" -> of("group", o.group_by) \cup {[ns |-> "metric", name |-> o.metric]}
        [] o.op = "aggregate" -> of("group", o.group_by) \cup of("measure", o.measures)
        [] o.op = "subquery" -> of(o.bind_as, o.group_by \o o.measures)
        [] OTHER -> {}

SourceOutputs(dsl) == UNION {OperationOutputs(o) : o \in ToSet(dsl.operations)}

ProjectionErrors(dsl) ==
  (UNION {CASE x.kind = "source" -> Code(x.source \in SourceOutputs(dsl), "unknown_source_output")
           [] x.kind # "source" /\ x.target \notin DOMAIN dsl.vertexRoles -> {"unknown_projection_target"}
           [] x.kind = "property" /\ x.target \in DOMAIN dsl.vertexRoles ->
                Code(dsl.vertexRoles[x.target] = x.owner, "projection_owner_mismatch")
                \cup Code(HasProperty(x.owner, x.name), "unknown_property")
           [] OTHER -> {} : x \in ToSet(dsl.projection)})
  \cup Code(\A o \in Operations(dsl, "sort") : \A x \in ToSet(o.by) : x.source \in SourceOutputs(dsl),
            "unknown_source_output")

ParserErrors(dsl) ==
  CASE ~WellFormed(dsl) -> {"model_parse_error"}
    [] WellFormed(dsl) /\ ~SequenceAllowed(dsl) -> {"invalid_operation_sequence"}
    [] OTHER -> BindingErrors(dsl) \cup (UNION {OperationErrors(dsl, o) : o \in ToSet(dsl.operations)})
                \cup FilterErrors(dsl.filters, dsl.vertexRoles) \cup ProjectionErrors(dsl)

-----------------------------------------------------------------------------
(* The order and the limit leave the operations; a target is a role that is bound. *)
BuildAst(dsl) ==
  [shape |-> dsl.shape, vertexRoles |-> dsl.vertexRoles, edgeRoles |-> dsl.edgeRoles,
   operations |-> dsl.operations, filters |-> dsl.filters, projection |-> dsl.projection,
   sort |-> IF Has(dsl, "sort") THEN SingleOperation(dsl, "sort").by ELSE <<>>,
   limit |-> IF Has(dsl, "limit") THEN SingleOperation(dsl, "limit").value ELSE None]
===========================================================================
