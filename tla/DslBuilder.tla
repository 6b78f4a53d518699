----------------------------- MODULE DslBuilder -----------------------------
(* dsl/builder.py: from a validated binding plan to the restricted query     *)
(* DSL. The payload keeps what the later stages read: the roles and what     *)
(* they are bound to, the operations, the filters and the projection.        *)
EXTENDS PlanValidator

RoleOf(roles, owner) == IF owner \in DOMAIN roles THEN roles[owner] ELSE None

\* One role for each owner of a list of <<owner, role>>; of several the last one stays.
RoleByOwner(pairs) ==
  [owner \in {p[1] : p \in ToSet(pairs)} |-> pairs[Max({i \in DOMAIN pairs : pairs[i][1] = owner})][2]]

-----------------------------------------------------------------------------
(* Items.                                                                      *)

FilterItem(f, roles) ==
  [target |-> RoleOf(roles, f.owner), owner |-> f.owner, name |-> f.property,
   operator |-> f.operator, value |-> f.literal]

\* A property is projected by the role it names, or else by its owner's.
ProjectionTarget(item, roles) ==
  CASE item.kind = "reference" /\ item.target \in {roles[o] : o \in DOMAIN roles} -> item.target
    [] item.kind = "vertex_full" -> RoleOf(roles, item.name)
    [] OTHER -> RoleOf(roles, item.owner)

Projectable(item, roles) ==
  \/ item.kind = "source"
  \/ item.kind \in {"reference", "property", "vertex_full"} /\ ProjectionTarget(item, roles) # None

DefaultAlias(item) ==
  CASE item.alias # None -> item.alias
    [] item.kind = "vertex_full" -> SnakeCase[item.name]
    [] item.kind = "property" -> item.name
    [] OTHER -> None

ProjectionItem(item, roles) ==
  CASE item.kind = "source" -> [kind |-> "source", alias |-> item.alias, source |-> item.source, terms |-> item.terms]
    [] item.kind = "vertex_full" ->
         [kind |-> "vertex_full", alias |-> DefaultAlias(item), target |-> ProjectionTarget(item, roles),
          terms |-> item.terms]
    [] OTHER ->
         [kind |-> "property", alias |-> DefaultAlias(item), target |-> ProjectionTarget(item, roles),
          owner |-> item.owner, name |-> item.name, terms |-> item.terms]

FilterItems(fs, roles) == MapSeq(fs, LAMBDA f : FilterItem(f, roles))
ProjectionItems(items, roles) == MapSeq(items, LAMBDA item : ProjectionItem(item, roles))

\* Without a projection the id of a vertex is returned.
OrIdentifier(projection, vertex) ==
  IF projection # <<>> THEN projection
  ELSE <<[kind |-> "property", owner |-> vertex, name |-> IdProperty[vertex],
          alias |-> SnakeCase[vertex] \o "_" \o IdProperty[vertex], terms |-> {}]>>

AsNamed(namespaces, source) ==
  IF source.ns \in DOMAIN namespaces THEN [source EXCEPT !.ns = namespaces[source.ns]] ELSE source

SortLimit(plan, namespaces) ==
  (IF plan.sort = <<>> THEN <<>>
   ELSE <<[op |-> "sort", by |-> MapSeq(plan.sort, LAMBDA item : [source |-> AsNamed(namespaces, item.source),
                                                                direction |-> item.direction])]>>)
  \o (IF plan.limit = None THEN <<>> ELSE <<[op |-> "limit", value |-> plan.limit]>>)

Sortable(plan) == \A item \in ToSet(plan.sort) : item.kind = "source"

Dsl(plan, vertexRoles, edgeRoles, operations, filters, projection) ==
  [shape |-> plan.shape, vertexRoles |-> vertexRoles, edgeRoles |-> edgeRoles,
   operations |-> operations, filters |-> filters, projection |-> projection]

NoRoles == <<>>
-----------------------------------------------------------------------------
(* Traversals.                                                                 *)

SortLimitCompiled(plan) ==
  \/ plan.shape \in {"metric_aggregate", "ad_hoc_aggregate", "top_n", "two_step_aggregate"}
  \/ plan.shape = "vertex_lookup" /\ plan.sort = <<>>
  \/ plan.sort = <<>> /\ plan.limit = None

AllProjectable(projection, roles) == \A item \in ToSet(projection) : Projectable(item, roles)

LookupRoles(plan) == [o \in {plan.vertices[1]} |-> "target"]

LookupBuildable(plan) ==
  Len(plan.vertices) = 1 /\ AllProjectable(OrIdentifier(plan.projection, plan.vertices[1]), LookupRoles(plan))

BuildVertexLookup(plan) ==
  LET roles == LookupRoles(plan)
  IN  Dsl(plan, [r \in {"target"} |-> plan.vertices[1]], NoRoles, SortLimit(plan, NoRoles),
          FilterItems(plan.filters, roles), ProjectionItems(OrIdentifier(plan.projection, plan.vertices[1]), roles))

\* One edge joins the roles start and end, several the roles v0, v1 and so on.
VertexRole(plan, i) ==
  IF Len(plan.edges) = 1 THEN IF i = 1 THEN "start" ELSE "end" ELSE "v" \o ToString(i - 1)
EdgeRole(plan, i) == IF Len(plan.edges) = 1 THEN "edge" ELSE "e" \o ToString(i - 1)

\* Vertices beyond those the edges join get no role.
Stops(plan) == SubSeq(plan.vertices, 1, Len(plan.edges) + 1)

TraversalRoles(plan) == RoleByOwner([i \in DOMAIN Stops(plan) |-> <<Stops(plan)[i], VertexRole(plan, i)>>])

TraversalBuildable(plan) ==
  /\ Len(plan.vertices) >= 2 /\ plan.edges # <<>>
  /\ Len(plan.edges) > 1 => Len(plan.vertices) = Len(plan.edges) + 1
  /\ AllProjectable(OrIdentifier(plan.projection, Last(Stops(plan))), TraversalRoles(plan))

BuildTraversal(plan) ==
  LET roles == TraversalRoles(plan)
      stops == Stops(plan)
  IN  Dsl(plan,
          [r \in {VertexRole(plan, i) : i \in DOMAIN stops} |->
             stops[CHOOSE i \in DOMAIN stops : VertexRole(plan, i) = r]],
          [r \in {EdgeRole(plan, i) : i \in DOMAIN plan.edges} |->
             plan.edges[CHOOSE i \in DOMAIN plan.edges : EdgeRole(plan, i) = r].name],
          [i \in DOMAIN plan.edges |->
             [op |-> "traverse_edge", from |-> VertexRole(plan, i), edge |-> EdgeRole(plan, i),
              to |-> VertexRole(plan, i + 1), direction |-> plan.edges[i].direction]] \o SortLimit(plan, NoRoles),
          FilterItems(plan.filters, roles), ProjectionItems(OrIdentifier(plan.projection, Last(stops)), roles))

VariablePathRoles(plan) == RoleByOwner(<< <<plan.vertices[1], "start">>, <<plan.vertices[2], "through">> >>)

VariablePathBuildable(plan) ==
  Len(plan.vertices) >= 2 /\ Len(plan.edges) = 1 /\ AllProjectable(plan.projection, VariablePathRoles(plan))

\* The edge's direction is not looked at; an order or a limit has been refused before.
BuildVariablePath(plan) ==
  LET roles == VariablePathRoles(plan)
      ofThrough == {i \in DOMAIN plan.filters : plan.filters[i].owner = plan.vertices[2]}
  IN  Dsl(plan, [r \in {"start", "through"} |-> plan.vertices[IF r = "start" THEN 1 ELSE 2]], NoRoles,
          <<[op |-> "variable_path", bind_as |-> "path", start |-> "start", through |-> "through",
             filters |-> FilterItems(ItemsAt(plan.filters, ofThrough), roles),
             edges |-> <<plan.edges[1].name>>, min |-> 1, max |-> 8]>>,
          FilterItems(ItemsAt(plan.filters, DOMAIN plan.filters \ ofThrough), roles),
          ProjectionItems(plan.projection, roles))

-----------------------------------------------------------------------------
(* Named path patterns.                                                        *)

PrimaryVertex(plan) == IF plan.vertices = <<>> THEN None ELSE plan.vertices[1]

MatchesParameter(plan, parameter, owner, property) ==
  \/ parameter = property
  \/ owner # None /\ parameter = SnakeCase[owner] \o "_" \o property
  \/ /\ owner # None /\ owner = PrimaryVertex(plan) /\ property = IdProperty[owner]
     /\ parameter = SnakeCase[owner] \o "_id"

\* The literals of the plan come first, whatever the filters say of them.
LiteralForParameter(plan, parameter) ==
  LET ofPlan == SelectSeq(plan.literals, LAMBDA l : MatchesParameter(plan, parameter, l.owner, l.property))
      ofFilters == SelectSeq(plan.filters, LAMBDA f : /\ f.literal # None
                                                     /\ MatchesParameter(plan, parameter, f.owner, f.property))
  IN  CASE ofPlan # <<>> -> Head(ofPlan)
        [] ofFilters # <<>> -> Head(ofFilters).literal
        [] OTHER -> None

FilterConsumed(plan, pattern, f) ==
  f.operator = "eq" /\ \E p \in Parameters[pattern] : MatchesParameter(plan, p, f.owner, f.property)

NamedPathBuildable(plan) ==
  /\ plan.patterns # <<>>
  /\ \A f \in ToSet(plan.filters) : FilterConsumed(plan, plan.patterns[1], f)
  /\ AllProjectable(plan.projection, NoRoles)

BuildNamedPathPattern(plan) ==
  LET pattern == plan.patterns[1]
      given == {p \in Parameters[pattern] : LiteralForParameter(plan, p) # None}
  IN  Dsl(plan,
          IF plan.vertices = <<>> THEN NoRoles ELSE [r \in {"primary_vertex"} |-> plan.vertices[1]], NoRoles,
          <<[op |-> "use_path_pattern", pattern |-> pattern, bind_as |-> "path",
             parameters |-> [p \in given |-> LiteralForParameter(plan, p)]]>> \o SortLimit(plan, NoRoles),
          <<>>, ProjectionItems(plan.projection, NoRoles))

-----------------------------------------------------------------------------
(* Aggregates.                                                                 *)

MetricRoles(metric) ==
  RoleByOwner(MapSeq(AliasOrder[metric], LAMBDA a : <<MetricAliases[metric][a], a>>))

MetricBuildable(plan) == Len(plan.metrics) = 1 /\ AllProjectable(plan.projection, NoRoles) /\ Sortable(plan)

Sources(items, ns) ==
  MapSeq(items, LAMBDA item : [kind |-> "source", alias |-> item.alias,
                               source |-> [ns |-> ns, name |-> item.alias], terms |-> {}])

BuildMetricAggregate(plan) ==
  LET metric == plan.metrics[1]
  IN  Dsl(plan, NoRoles, NoRoles,
          <<[op |-> "metric_aggregate", metric |-> metric, group_by |-> plan.group_by,
             filters |-> FilterItems(plan.filters, MetricRoles(metric))]>> \o SortLimit(plan, NoRoles),
          <<>>,
          IF plan.projection # <<>> THEN ProjectionItems(plan.projection, NoRoles)
          ELSE Sources(plan.group_by, "group")
               \o <<[kind |-> "source", alias |-> metric, source |-> [ns |-> "metric", name |-> metric],
                     terms |-> {}]>>)

\* The roles the dimensions, measures and projected properties name; the other vertices get one of their own.
AggregateRoleByOwner(plan) ==
  LET named == MapSeq(plan.group_by \o plan.measures
                      \o SelectSeq(plan.projection, LAMBDA x : x.kind = "reference" /\ x.target # None),
                      LAMBDA x : <<x.owner, x.target>>)
      others == SelectSeq(plan.vertices, LAMBDA v : \A i \in DOMAIN named : named[i][1] # v)
  IN  RoleByOwner(named \o MapSeq(others, LAMBDA v : <<v, SnakeCase[v]>>))

\* Of two owners with one role the later one keeps it.
AggregateVertexRoles(plan) ==
  LET roles == AggregateRoleByOwner(plan)
      owners == Unique(MapSeq(plan.group_by \o plan.measures
                              \o SelectSeq(plan.projection, LAMBDA x : x.kind = "reference" /\ x.target # None),
                              LAMBDA x : x.owner) \o plan.vertices)
  IN  [r \in {roles[o] : o \in DOMAIN roles} |-> Last(SelectSeq(owners, LAMBDA o : roles[o] = r))]

\* The outputs a projected property may stand for: those of the property, and of the item's alias if there are any.
AggregateOutputs(plan, item) ==
  LET kinds == [i \in 1..Len(plan.group_by) + Len(plan.measures) |->
                  [kind |-> IF i <= Len(plan.group_by) THEN "group" ELSE "measure",
                   item |-> (plan.group_by \o plan.measures)[i]]]
      matches == SelectSeq(kinds, LAMBDA o : o.item.owner = item.owner /\ o.item.name = item.name)
      named == SelectSeq(matches, LAMBDA o : o.item.alias = item.alias)
  IN  IF item.alias # None /\ named # <<>> THEN named ELSE matches

AggregateProjectable(plan, item) ==
  \/ item.kind = "source"
  \/ item.kind \in {"reference", "property"} /\ Len(AggregateOutputs(plan, item)) = 1

AggregateProjection(plan, namespaces) ==
  IF plan.projection = <<>>
  THEN Sources(plan.group_by, AsNamed(namespaces, [ns |-> "group"]).ns)
       \o Sources(plan.measures, AsNamed(namespaces, [ns |-> "measure"]).ns)
  ELSE MapSeq(plan.projection, LAMBDA item :
         IF item.kind = "source"
         THEN [kind |-> "source", alias |-> item.alias, source |-> AsNamed(namespaces, item.source),
               terms |-> item.terms]
         ELSE LET output == AggregateOutputs(plan, item)[1]
              IN  [kind |-> "source", alias |-> IF item.alias = None THEN output.item.alias ELSE item.alias,
                   source |-> AsNamed(namespaces, [ns |-> output.kind, name |-> output.item.alias]),
                   terms |-> item.terms])

AggregateBuildable(plan) ==
  /\ plan.measures # <<>>
  /\ DOMAIN AggregateRoleByOwner(plan) \subseteq ToSet(plan.vertices)
  /\ \A item \in ToSet(plan.projection) : AggregateProjectable(plan, item)
  /\ Sortable(plan)

BuildAdHocAggregate(plan) ==
  Dsl(plan, AggregateVertexRoles(plan), NoRoles,
      <<[op |-> "aggregate", group_by |-> plan.group_by, measures |-> plan.measures]>> \o SortLimit(plan, NoRoles),
      FilterItems(plan.filters, AggregateRoleByOwner(plan)), AggregateProjection(plan, NoRoles))

\* The subquery is called what the first source outside the namespaces of an aggregate calls it.
SubqueryBindAs(plan) ==
  LET named == SelectSeq(plan.projection \o plan.sort,
                         LAMBDA x : x.kind = "source" /\ x.source.ns \notin {"group", "measure", "metric"})
  IN  IF named = <<>> THEN "subquery" ELSE Head(named).source.ns

\* The filters of the plan are not among what is built.
BuildTwoStepAggregate(plan) ==
  LET bindAs == SubqueryBindAs(plan)
      namespaces == [ns \in {"group", "measure"} |-> bindAs]
  IN  Dsl(plan, AggregateVertexRoles(plan), NoRoles,
          <<[op |-> "subquery", bind_as |-> bindAs, group_by |-> plan.group_by, measures |-> plan.measures]>>
            \o SortLimit(plan, namespaces),
          <<>>, AggregateProjection(plan, namespaces))

-----------------------------------------------------------------------------
TopNBuildable(plan) == plan.sort # <<>> /\ plan.limit # None

ByMetric(plan) == plan.shape = "metric_aggregate" \/ (plan.shape = "top_n" /\ plan.metrics # <<>>)

Buildable(plan) ==
  /\ SortLimitCompiled(plan)
  /\ CASE plan.shape = "vertex_lookup" -> LookupBuildable(plan)
       [] plan.shape = "single_hop_traversal" -> TraversalBuildable(plan)
       [] plan.shape = "named_path_pattern" -> NamedPathBuildable(plan)
       [] plan.shape = "variable_path_traversal" -> VariablePathBuildable(plan)
       [] plan.shape = "top_n" -> TopNBuildable(plan) /\ IF ByMetric(plan) THEN MetricBuildable(plan)
                                                                          ELSE AggregateBuildable(plan)
       [] OTHER -> IF ByMetric(plan) THEN MetricBuildable(plan) ELSE AggregateBuildable(plan)

Build(plan) ==
  CASE plan.shape = "vertex_lookup" -> BuildVertexLookup(plan)
    [] plan.shape = "single_hop_traversal" -> BuildTraversal(plan)
    [] plan.shape = "named_path_pattern" -> BuildNamedPathPattern(plan)
    [] plan.shape = "variable_path_traversal" -> BuildVariablePath(plan)
    [] plan.shape = "two_step_aggregate" -> BuildTwoStepAggregate(plan)
    [] ByMetric(plan) -> BuildMetricAggregate(plan)
    [] OTHER -> BuildAdHocAggregate(plan)
===========================================================================
