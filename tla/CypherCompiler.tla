--------------------------- MODULE CypherCompiler ---------------------------
(* compiler/: from a parsed query to Cypher. A query is what its clauses say: *)
(* the nodes and edges it matches, its conditions with the parameter each    *)
(* one's value is inlined for, the columns a WITH carries on, the columns    *)
(* returned, the order and the limit. A column's expression is a property,   *)
(* a vertex, a measure, a metric or a name.                                  *)
EXTENDS StructuralCoverage

CONSTANTS
  VariableBase,    \* vertex to the letters its variables start with
  Reserved,        \* the words Cypher does not take as an alias
  NonIdentifiers,  \* the names no identifier can be
  Placeholders     \* the literal values with a "$" and a name in them

-----------------------------------------------------------------------------
(* Names.                                                                      *)

\* The name, or its first numbered form that is free.
FirstFree(name, used, separator) ==
  LET numbered(n) == name \o separator \o ToString(n)
      free == {n \in 2..Cardinality(used) + 2 : numbered(n) \notin used}
  IN  IF name \notin used THEN name ELSE numbered(CHOOSE n \in free : \A k \in free : n <= k)

SanitizeIdentifier(name) == IF name \in NonIdentifiers THEN "field" ELSE name

ProjectionItemAlias(item) ==
  IF item.alias # None /\ item.alias \notin NonIdentifiers THEN item.alias
  ELSE SanitizeIdentifier(CASE item.kind = "property" -> item.name
                            [] item.kind = "source" -> item.source.name
                            [] OTHER -> item.target)

OwnerPrefix(item, roles) ==
  CASE item.kind = "property" -> SnakeCase[item.owner]
    [] item.kind = "source" -> item.source.ns
    [] OTHER -> SnakeCase[roles[item.target]]

\* A reserved alias gets another name: a whole vertex that of its label.
SafeAlias(alias, item, roles) ==
  IF alias \notin Reserved THEN alias
  ELSE IF item.kind = "vertex_full"
       THEN IF SnakeCase[roles[item.target]] \in Reserved THEN SnakeCase[roles[item.target]] \o "_value"
            ELSE SnakeCase[roles[item.target]]
       ELSE alias \o "_value"

PlainAliases(ast) == MapSeq(ast.projection, ProjectionItemAlias)

\* An alias that several items share is told apart by their owners, and if that does not do by number.
ProjectionAliases(ast) ==
  LET items == ast.projection
      shared(i) == \E j \in DOMAIN items \ {i} : ProjectionItemAlias(items[j]) = ProjectionItemAlias(items[i])
      alias(i) == LET base == ProjectionItemAlias(items[i])
                      named == IF shared(i) THEN OwnerPrefix(items[i], ast.vertexRoles) \o "_" \o base ELSE base
                  IN  SafeAlias(named, items[i], ast.vertexRoles)
      name[i \in DOMAIN items] == FirstFree(alias(i), {name[j] : j \in 1..i - 1}, "_")
  IN  [i \in DOMAIN items |-> name[i]]

\* Roles to their variables: the vertex's letters, with a number from the second role with these letters on.
RoleVariables(ast, roles) ==
  LET base(r) == VariableBase[ast.vertexRoles[r]]
      first(r) == Min({i \in DOMAIN roles : roles[i] = r})
      upTo(r) == {x \in ToSet(roles) : base(x) = base(r) /\ first(x) <= first(r)}
  IN  [r \in ToSet(roles) |-> [base |-> base(r), number |-> Cardinality(upTo(r))]]

-----------------------------------------------------------------------------
(* Clauses.                                                                    *)

ResolvedMatchTypes == {"exact", "id_exact", "manual_fixture", "synonym", "text_exact", "value_index_exact",
                       "literal_passthrough", "value_model", "value_synonym"}

HasResolutionEvidence(l) == l.match # "unresolved" /\ (l.value # None \/ l.match \in ResolvedMatchTypes)

EffectiveValue(l) == IF l.value # None THEN l.value ELSE l.raw

\* One parameter for all conditions on a property.
OneParameterEach(filters, vs) ==
  LET first(f) == SelectSeq(filters, LAMBDA g : g.name = f.name)[1]
  IN  MapSeq(filters, LAMBDA f : [variable |-> vs[f.target], name |-> f.name, operator |-> f.operator,
                                  value |-> IF first(f).value = None THEN None ELSE EffectiveValue(first(f).value),
                                  parameter |-> SanitizeIdentifier(f.name)])

\* Each value gets a parameter of its own, named after the property.
ParameterNames(filters) ==
  FoldLeft(LAMBDA acc, f : Append(acc, IF f.operator = "is_not_null" THEN None
                                       ELSE FirstFree(SanitizeIdentifier(f.name), ToSet(acc), "_")), <<>>, filters)

\* Conditions in order.
CompileFilters(filters, vs) ==
  [i \in DOMAIN filters |->
     LET f == filters[i]
     IN  [variable |-> vs[f.target], name |-> f.name, operator |-> f.operator,
          value |-> IF f.operator = "is_not_null" THEN None ELSE EffectiveValue(f.value),
          parameter |-> ParameterNames(filters)[i]]]

FiltersCompile(filters) ==
  \A f \in filters : /\ f.target # None
                     /\ f.operator # "is_not_null" => HasResolutionEvidence(f.value)

\* The value of a placeholder's parameter would leave a placeholder in the query.
Inlines(values) == values \cap Placeholders = {}

Nodes(ast, vs, roles) == MapSeq(roles, LAMBDA r : [variable |-> vs[r], label |-> ast.vertexRoles[r]])

PropertyOf(variable, name) == [kind |-> "property", variable |-> variable, name |-> name]
Column(alias, expression) == [alias |-> alias, expression |-> expression]

ItemExpression(item, vs) ==
  IF item.kind = "vertex_full" THEN [kind |-> "vertex", variable |-> vs[item.target]]
  ELSE PropertyOf(vs[item.target], item.name)

\* The output of a name: of two with one alias the later one.
Output(items, alias) == items[Max({i \in DOMAIN items : items[i].alias = alias})]

\* What the outputs of an aggregate stand for, by namespace and name.
SourceExpressions(groupBy, measures, vs) ==
  LET expression(s) ==
        IF s.ns = "group" THEN LET d == Output(groupBy, s.name) IN PropertyOf(vs[d.target], d.name)
        ELSE LET m == Output(measures, s.name)
             IN  [kind |-> "measure", function |-> m.function, variable |-> vs[m.target], name |-> m.name]
  IN  [s \in {[ns |-> "group", name |-> d.alias] : d \in ToSet(groupBy)}
              \cup {[ns |-> "measure", name |-> m.alias] : m \in ToSet(measures)} |-> expression(s)]

MetricExpressions(o) ==
  LET expression(s) ==
        IF s.ns = "metric" THEN [kind |-> "metric", metric |-> o.metric]
        ELSE LET d == Output(o.group_by, s.name) IN PropertyOf(d.target, d.name)
  IN  [s \in {[ns |-> "metric", name |-> o.metric]}
              \cup {[ns |-> "group", name |-> d.alias] : d \in ToSet(o.group_by)} |-> expression(s)]

SubqueryColumns(o) ==
  [s \in {[ns |-> o.bind_as, name |-> x.alias] : x \in ToSet(o.group_by) \cup ToSet(o.measures)} |->
     [kind |-> "name", name |-> s.name]]

CompileReturn(ast, vs) ==
  [i \in DOMAIN ast.projection |-> Column(ProjectionAliases(ast)[i], ItemExpression(ast.projection[i], vs))]

CompileSourceReturn(ast, expressions) ==
  [i \in DOMAIN ast.projection |->
     Column(ProjectionAliases(ast)[i], expressions[ast.projection[i].source])]

SourcesKnown(ast, expressions) ==
  \A x \in ToSet(ast.projection) : x.kind = "source" /\ x.source \in DOMAIN expressions

\* An order by a column that is returned names the column.
OrderBy(ast, expressions) ==
  LET returned(s) == {i \in DOMAIN ast.projection : /\ ast.projection[i].kind = "source"
                                                   /\ ast.projection[i].source = s}
  IN  MapSeq(ast.sort, LAMBDA x :
        [expression |-> IF returned(x.source) # {}
                        THEN [kind |-> "name", name |-> ProjectionAliases(ast)[Max(returned(x.source))]]
                        ELSE expressions[x.source],
         direction |-> x.direction])

OrderCompiles(ast, expressions) ==
  \A x \in ToSet(ast.sort) : \/ x.source \in DOMAIN expressions
                             \/ \E i \in ToSet(ast.projection) : i.kind = "source" /\ i.source = x.source

Query(nodes, edges, where, with, returns, order, limit) ==
  [nodes |-> nodes, edges |-> edges, where |-> where, with |-> with, returns |-> returns,
   order |-> order, limit |-> limit]

-----------------------------------------------------------------------------
(* Shapes.                                                                     *)

SingleVertexRole(ast) ==
  {f.target : f \in ToSet(ast.filters)} \cup {x.target : x \in {y \in ToSet(ast.projection) : y.kind # "source"}}

CompileVertexLookup(ast) ==
  LET roles == SetToSeq(SingleVertexRole(ast) \ {None})
      vs == RoleVariables(ast, roles)
  IN  Query(Nodes(ast, vs, roles), <<>>, CompileFilters(ast.filters, vs), <<>>, CompileReturn(ast, vs),
            OrderBy(ast, <<>>), ast.limit)

\* The edges in order.
Traverses(ast) == ItemsAt(ast.operations, EdgePlaces(ast))

ChainRoles(traverses) == <<traverses[1].from>> \o MapSeq(traverses, LAMBDA o : o.to)

Contiguous(traverses) == \A i \in 1..Len(traverses) - 1 : traverses[i].to = traverses[i + 1].from

TraverseEdges(ast) ==
  MapSeq(Traverses(ast),
         LAMBDA o : [name |-> ast.edgeRoles[o.edge], direction |-> o.direction, min |-> 1, max |-> 1])

CompileChain(ast, vs, returns, order, limit) ==
  Query(Nodes(ast, vs, ChainRoles(Traverses(ast))), TraverseEdges(ast),
        CompileFilters(ast.filters, vs), <<>>, returns, order, limit)

\* The order and the limit are not among the clauses.
CompileSingleHop(ast) ==
  LET vs == RoleVariables(ast, ChainRoles(Traverses(ast)))
  IN  CompileChain(ast, vs, CompileReturn(ast, vs), <<>>, None)

\* The text of the pattern is taken as it is; its parameters are inlined.
CompileNamedPathPattern(ast) ==
  LET o == SingleOperation(ast, "use_path_pattern")
  IN  Query(<<>>, <<>>,
            MapSeq(SetToSeq(DOMAIN o.parameters), LAMBDA p :
                     [variable |-> None, name |-> p, operator |-> "eq", parameter |-> p,
                      value |-> EffectiveValue(o.parameters[p])]),
            <<>>, MapSeq(PatternOutputs[o.pattern], LAMBDA c : Column(c, [kind |-> "name", name |-> c])), <<>>, None)

\* Always walked along the edge's declaration; again without order and limit.
CompileVariablePath(ast) ==
  LET o == SingleOperation(ast, "variable_path")
      roles == <<o.start, o.through>>
      vs == RoleVariables(ast, roles)
  IN  Query(Nodes(ast, vs, roles), <<[name |-> o.edges[1], direction |-> "forward", min |-> o.min, max |-> o.max]>>,
            CompileFilters(o.filters \o ast.filters, vs), <<>>, CompileReturn(ast, vs), <<>>, None)

CompileMetricAggregate(ast) ==
  LET o == SingleOperation(ast, "metric_aggregate")
      aliases == [a \in DOMAIN MetricAliases[o.metric] |-> a]
      expressions == MetricExpressions(o)
  IN  Query(MapSeq(AliasOrder[o.metric], LAMBDA a : [variable |-> a, label |-> MetricAliases[o.metric][a]]), <<>>,
            CompileFilters(o.filters, aliases), <<>>, CompileSourceReturn(ast, expressions),
            OrderBy(ast, expressions), ast.limit)

OutputRoles(o, filters) == {x.target : x \in ToSet(o.group_by) \cup ToSet(o.measures)}

AggregateRoles(o, filters) ==
  {x.target : x \in ToSet(o.group_by) \cup ToSet(o.measures) \cup ToSet(filters)} \ {None}

CompileAdHocAggregate(ast) ==
  LET o == SingleOperation(ast, "aggregate")
      roles == SetToSeq(AggregateRoles(o, ast.filters))
      vs == RoleVariables(ast, roles)
      expressions == SourceExpressions(o.group_by, o.measures, vs)
  IN  Query(Nodes(ast, vs, roles), <<>>, CompileFilters(ast.filters, vs), <<>>,
            CompileSourceReturn(ast, expressions), OrderBy(ast, expressions), ast.limit)

CompilePathTopN(ast) ==
  LET vs == RoleVariables(ast, ChainRoles(Traverses(ast)))
      o == SingleOperation(ast, "aggregate")
      expressions == SourceExpressions(o.group_by, o.measures, vs)
  IN  CompileChain(ast, vs, CompileSourceReturn(ast, expressions), OrderBy(ast, expressions), ast.limit)

\* The WITH takes the outputs' aliases as they are; what follows names them. The filters of the query are not looked at.
CompileTwoStepAggregate(ast) ==
  LET o == SingleOperation(ast, "subquery")
      roles == SetToSeq(AggregateRoles(o, <<>>))
      vs == RoleVariables(ast, roles)
      expressions == SourceExpressions(o.group_by, o.measures, vs)
      with(ns, items) == MapSeq(items, LAMBDA x : Column(x.alias, expressions[[ns |-> ns, name |-> x.alias]]))
  IN  Query(Nodes(ast, vs, roles), <<>>, <<>>, with("group", o.group_by) \o with("measure", o.measures),
            CompileSourceReturn(ast, SubqueryColumns(o)), OrderBy(ast, SubqueryColumns(o)), ast.limit)

-----------------------------------------------------------------------------
(* Which shape compiles how, what the compiler refuses and where it breaks.    *)

Form(ast) ==
  CASE ast.shape = "top_n" /\ Has(ast, "traverse_edge") -> "path_top_n"
    [] ast.shape = "top_n" /\ ~Has(ast, "traverse_edge") ->
         IF Has(ast, "metric_aggregate") THEN "metric_aggregate" ELSE "ad_hoc_aggregate"
    [] OTHER -> ast.shape

\* The names of the outputs an aggregate's query may return and be ordered by.
OutputNames(ast) == [s \in SourceOutputs(ast) |-> s]

FiltersCompiled(ast) ==
  CASE Form(ast) = "metric_aggregate" -> ToSet(SingleOperation(ast, "metric_aggregate").filters)
    [] Form(ast) = "variable_path_traversal" ->
         ToSet(SingleOperation(ast, "variable_path").filters) \cup ToSet(ast.filters)
    [] Form(ast) \in {"two_step_aggregate", "named_path_pattern"} -> {}
    [] OTHER -> ToSet(ast.filters)

ValuesInlined(ast) ==
  {EffectiveValue(f.value) : f \in {x \in FiltersCompiled(ast) : x.operator # "is_not_null"}}
  \cup IF Form(ast) # "named_path_pattern" THEN {}
       ELSE LET given == SingleOperation(ast, "use_path_pattern").parameters
            IN  {EffectiveValue(given[p]) : p \in DOMAIN given}

ShapeCompiles(ast) ==
  LET form == Form(ast)
      sourced == SourcesKnown(ast, OutputNames(ast)) /\ OrderCompiles(ast, OutputNames(ast))
  IN  CASE form = "vertex_lookup" -> Cardinality(SingleVertexRole(ast) \ {None}) = 1 /\ OrderCompiles(ast, <<>>)
        [] form = "single_hop_traversal" -> Contiguous(Traverses(ast))
        [] form = "path_top_n" -> Contiguous(Traverses(ast)) /\ sourced
        [] form = "named_path_pattern" ->
             LET o == SingleOperation(ast, "use_path_pattern")
             IN  /\ DOMAIN o.parameters = Parameters[o.pattern]
                 /\ \A p \in DOMAIN o.parameters : HasResolutionEvidence(o.parameters[p])
        [] form = "variable_path_traversal" ->
             Len(SingleOperation(ast, "variable_path").edges) = 1 /\ SingleOperation(ast, "variable_path").max <= 8
        [] form = "metric_aggregate" -> sourced
        [] form = "ad_hoc_aggregate" ->
             Cardinality(AggregateRoles(SingleOperation(ast, "aggregate"), ast.filters)) = 1 /\ sourced
        [] OTHER -> Cardinality(AggregateRoles(SingleOperation(ast, "subquery"), <<>>)) = 1 /\ sourced

Compiles(ast) ==
  ShapeCompiles(ast) /\ FiltersCompile(FiltersCompiled(ast)) /\ Inlines(ValuesInlined(ast))

RolesWalked(ast) == UNION {{o.from, o.to} : o \in Operations(ast, "traverse_edge")}

\* The roles the compiler gives a variable; looking up another one is an error that is not the compiler's own.
RolesWithVariable(ast) ==
  LET form == Form(ast)
  IN  CASE form = "vertex_lookup" -> SingleVertexRole(ast)
        [] form \in {"single_hop_traversal", "path_top_n"} -> RolesWalked(ast)
        [] form = "variable_path_traversal" ->
             {SingleOperation(ast, "variable_path").start, SingleOperation(ast, "variable_path").through}
        [] form = "metric_aggregate" ->
             {f.target : f \in FiltersCompiled(ast)}
             \cup DOMAIN MetricAliases[SingleOperation(ast, "metric_aggregate").metric]
        [] form = "ad_hoc_aggregate" -> AggregateRoles(SingleOperation(ast, "aggregate"), ast.filters)
        [] OTHER -> {}

RolesLookedUp(ast) ==
  ({f.target : f \in FiltersCompiled(ast)} \ {None})
  \cup (IF Form(ast) \in {"vertex_lookup", "single_hop_traversal", "variable_path_traversal"}
        THEN {x.target : x \in {y \in ToSet(ast.projection) : y.kind # "source"}} ELSE {})
  \cup (IF Form(ast) = "path_top_n"
        THEN LET o == SingleOperation(ast, "aggregate")
             IN  {x.target : x \in ToSet(o.group_by) \cup ToSet(o.measures)} ELSE {})

CompilerBreaks(ast) == ~(RolesLookedUp(ast) \subseteq RolesWithVariable(ast))

Compile(ast) ==
  CASE Form(ast) = "vertex_lookup" -> CompileVertexLookup(ast)
    [] Form(ast) = "single_hop_traversal" -> CompileSingleHop(ast)
    [] Form(ast) = "named_path_pattern" -> CompileNamedPathPattern(ast)
    [] Form(ast) = "variable_path_traversal" -> CompileVariablePath(ast)
    [] Form(ast) = "metric_aggregate" -> CompileMetricAggregate(ast)
    [] Form(ast) = "ad_hoc_aggregate" -> CompileAdHocAggregate(ast)
    [] Form(ast) = "path_top_n" -> CompilePathTopN(ast)
    [] OTHER -> CompileTwoStepAggregate(ast)
===========================================================================
