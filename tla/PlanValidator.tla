--------------------------- MODULE PlanValidator ---------------------------
(* validation/semantic_validator.py: the codes of the errors found in a      *)
(* binding plan; a plan without any is valid. A coverage report says whether *)
(* terms of the question are left over, which terms the answer must return   *)
(* and which of those are covered; an item of the projection covers its own. *)
EXTENDS SemanticBinder

CoverageErrors(plan, coverage) ==
  LET covered == coverage.covered \cup UNION {item.terms : item \in ToSet(plan.projection)}
  IN  (IF coverage.unresolved THEN {"coverage_failure"} ELSE {})
      \cup (IF coverage.required \subseteq covered THEN {} ELSE {"projection_coverage_missing"})

DslSupportErrors(plan) == IF plan.shape \in QueryShape THEN {} ELSE {"unsupported_query_shape"}

EndpointsMissing(plan) ==
  \/ Len(plan.vertices) < 2
  \/ plan.edges = <<>>
  \/ Len(plan.edges) > 1 /\ Len(plan.vertices) # Len(plan.edges) + 1

\* With one edge the vertices beyond the second are not looked at.
EdgeEndpointErrors(plan) ==
  IF plan.shape # "single_hop_traversal" THEN {}
  ELSE IF EndpointsMissing(plan) THEN {"binding_plan_incomplete"}
  ELSE IF \A i \in DOMAIN plan.edges :
            EdgeConnects(plan.edges[i].name, plan.vertices[i], plan.vertices[i + 1], plan.edges[i].direction)
       THEN {} ELSE {"edge_endpoint_mismatch"}

PropertyReferences(plan) ==
  {<<p.owner, p.name>> : p \in ToSet(plan.properties)}
  \cup {<<f.owner, f.property>> : f \in ToSet(plan.filters)}
  \cup {<<x.owner, x.name>> : x \in {y \in ToSet(plan.projection) \cup ToSet(plan.sort) :
                                       y.kind \in {"property", "unlabelled", "reference"}}
                                    \cup ToSet(plan.group_by) \cup ToSet(plan.measures)}

PropertyOwnerErrors(plan) ==
  IF \A r \in PropertyReferences(plan) : HasProperty(r[1], r[2]) THEN {} ELSE {"property_owner_mismatch"}

\* A dimension counts by its target, or else by an alias of its owner.
CanonicalTargets(metric, d) ==
  IF <<d.target, d.name>> \in ValidDimensions[metric] THEN {d.target}
  ELSE {a \in DOMAIN MetricAliases[metric] : /\ MetricAliases[metric][a] = d.owner
                                             /\ <<a, d.name>> \in ValidDimensions[metric]}

GroupByAllowed(metric, d) ==
  LET targets == CanonicalTargets(metric, d)
  IN  targets # {} /\ \A t \in targets : MetricAliases[metric][t] = d.owner

\* Of several aliases of one vertex the filter gets the last in the metric's pattern.
AliasByOwner(metric, owner) ==
  LET aliases == SelectSeq(AliasOrder[metric], LAMBDA a : MetricAliases[metric][a] = owner)
  IN  IF aliases = <<>> THEN None ELSE Last(aliases)

MetricDimensionErrors(plan) ==
  IF /\ plan.shape \in {"metric_aggregate", "top_n"}
     /\ \E metric \in ToSet(plan.metrics) :
          \/ \E d \in ToSet(plan.group_by) : ~GroupByAllowed(metric, d)
          \/ \E f \in ToSet(plan.filters) :
               <<AliasByOwner(metric, f.owner), f.property>> \notin ValidDimensions[metric]
  THEN {"metric_dimension_invalid"} ELSE {}

AggregateFunctionErrors(plan) ==
  IF \E m \in ToSet(plan.measures) : m.function \in {"sum", "avg"} /\ <<m.owner, m.name>> \notin Numeric
  THEN {"invalid_aggregate_property_type"} ELSE {}

Validate(plan, coverage) ==
  CoverageErrors(plan, coverage) \cup DslSupportErrors(plan) \cup EdgeEndpointErrors(plan)
  \cup PropertyOwnerErrors(plan) \cup MetricDimensionErrors(plan) \cup AggregateFunctionErrors(plan)
===========================================================================
