---------------------------- MODULE GraphModel ----------------------------
(* The graph semantic model the generator translates into: what            *)
(* semantic_model/model.py declares and the lookups of registry.py. Names    *)
(* are strings, as in the model's artifact; the model never changes while    *)
(* the service runs, so that it is a constant.                               *)
EXTENDS Naturals, Sequences, FiniteSets, SequencesExt

CONSTANTS
  Vertices, Edges,
  From, To,          \* the declared ends of each edge
  Properties,        \* owner, a vertex or an edge, to the names of its properties
  IdProperty,        \* vertex to the property that identifies it
  Numeric,           \* the <<owner, property>> a sum or an average is defined on
  Metrics,
  MetricAliases,     \* metric to its pattern's aliases, alias to vertex
  AliasOrder,        \* metric to those aliases as its pattern lists them
  ValidDimensions,   \* metric to the <<alias, property>> it may be grouped by
  PathPatterns,
  Parameters,        \* path pattern to the names of its template's parameters
  PatternOutputs,    \* path pattern to the list of columns its template returns
  SnakeCase,         \* vertex to its name in snake case
  None               \* a field that is absent

ASSUME GraphModelAssumption ==
  /\ IsFiniteSet(Vertices) /\ IsFiniteSet(Edges) /\ None \notin Vertices
  /\ From \in [Edges -> Vertices] /\ To \in [Edges -> Vertices]
  /\ DOMAIN Properties = Vertices \cup Edges
  /\ \A v \in Vertices : IdProperty[v] \in Properties[v]
  /\ \A m \in Metrics : \A d \in ValidDimensions[m] :
       d[1] \in DOMAIN MetricAliases[m] /\ d[2] \in Properties[MetricAliases[m][d[1]]]
  /\ \A m \in Metrics : /\ AliasOrder[m] \in Seq(DOMAIN MetricAliases[m])
                        /\ DOMAIN MetricAliases[m] \subseteq ToSet(AliasOrder[m])

HasProperty(owner, name) == owner \in Vertices \cup Edges /\ name \in Properties[owner]

\* "backward" walks an edge against its declaration; the registry calls it reverse.
EdgeConnects(edge, a, b, direction) ==
  IF direction = "forward" THEN From[edge] = a /\ To[edge] = b
                           ELSE From[edge] = b /\ To[edge] = a

Departure(e) == IF e.direction = "forward" THEN From[e.name] ELSE To[e.name]
Arrival(e)   == IF e.direction = "forward" THEN To[e.name] ELSE From[e.name]

QueryShape == {"vertex_lookup", "single_hop_traversal", "variable_path_traversal", "named_path_pattern",
               "metric_aggregate", "ad_hoc_aggregate", "top_n", "two_step_aggregate"}

\* The members of a finite set, each after those that come before it.
InOrder(S, before(_, _)) ==
  [k \in 1..Cardinality(S) |-> CHOOSE x \in S : Cardinality({y \in S : before(y, x)}) = k - 1]

\* The first of the alternatives there is.
FirstFound(xs) ==
  LET found == {i \in DOMAIN xs : xs[i] # None}
  IN  IF found = {} THEN None ELSE xs[Min(found)]

\* The list of what f says of each item.
MapSeq(s, f(_)) == [i \in DOMAIN s |-> f(s[i])]

\* What a list has at some of its places, in its order.
ItemsAt(s, places) == MapSeq(InOrder(places, LAMBDA i, j : i < j), LAMBDA i : s[i])

\* A list without its later repetitions.
Unique(s) == ItemsAt(s, {i \in DOMAIN s : \A j \in 1..i - 1 : s[j] # s[i]})
===========================================================================
