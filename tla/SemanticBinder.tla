-------------------------- MODULE SemanticBinder --------------------------
(* binding/binder.py: from a grounded understanding u and the candidate set *)
(* to a binding plan. A choice of the LLM is known by what the extractors    *)
(* get out of it: a selected element by its name, an edge by name and        *)
(* direction, a property by owner and name. The spellings the extractors     *)
(* accept are alike from there on. Candidates are <<type, name>> pairs,      *)
(* "property" with <<"property", owner, name>>.                              *)
EXTENDS GroundedUnderstanding

Operators == {"eq", "neq", "gt", "gte", "lt", "lte", "in", "contains"}
AggregateFunctions == {"count", "sum", "avg", "min", "max"}

-----------------------------------------------------------------------------
(* Literals and filters. A literal has raw text, a value, an owner and a       *)
(* property; a filter may leave out owner and raw text, or carry a literal.    *)

\* Without raw text every literal matches.
LiteralMatchesRawValue(l, raw) == raw = None \/ raw \in {l.raw, l.value}

RawLiteral(f) == IF f.raw = None /\ f.inline # None THEN f.inline.raw ELSE f.raw

\* The literals the i-th filter sees: the selected ones and those the filters before it brought.
LiteralsAt(u, i) ==
  u.literals \o [k \in 1..Cardinality({j \in 1..i - 1 : u.filters[j].inline # None}) |->
                   SelectSeq(SubSeq(u.filters, 1, i - 1), LAMBDA f : f.inline # None)[k].inline]

OnlyMember(S) == IF Cardinality(S) = 1 THEN CHOOSE x \in S : TRUE ELSE None

\* An owner that is left out is that of the literals that fit, or else of the selected properties.
FilterOwner(u, i) ==
  LET f == u.filters[i]
      seen == ToSet(LiteralsAt(u, i)) \cup (IF f.inline = None THEN {} ELSE {f.inline})
      byLiteral == OnlyMember({l.owner : l \in {x \in seen : /\ x.owner # None /\ x.property = f.property
                                                            /\ LiteralMatchesRawValue(x, f.raw)}})
      byProperty == OnlyMember({p.owner : p \in {x \in ToSet(u.properties) : x.name = f.property}})
  IN  IF f.owner # None THEN f.owner ELSE IF byLiteral # None THEN byLiteral ELSE byProperty

\* The first literal of the property that matches; the filter's own literal comes first.
FilterLiteral(u, i) ==
  LET f == u.filters[i]
      ls == LiteralsAt(u, i)
      fits(l) == /\ l.owner = FilterOwner(u, i) /\ l.property = f.property
                 /\ LiteralMatchesRawValue(l, RawLiteral(f))
      k == SelectInSeq(ls, fits)
  IN  IF f.inline # None THEN f.inline ELSE IF k = 0 THEN None ELSE ls[k]

InlineFits(u, i) ==
  LET f == u.filters[i]
  IN  f.inline # None => /\ f.inline.owner = FilterOwner(u, i) /\ f.inline.property = f.property
                         /\ f.raw \in {None, f.inline.raw}

\* With no filter, every literal of a selected property is an equality.
FiltersFromSelectedLiterals(u) ==
  LET picks(l) == /\ l.match # "unresolved"
                  /\ u.properties = <<>> \/ [owner |-> l.owner, name |-> l.property] \in ToSet(u.properties)
  IN  MapSeq(ItemsAt(u.literals, {i \in DOMAIN u.literals : picks(u.literals[i])}),
             LAMBDA l : [owner |-> l.owner, property |-> l.property, operator |-> "eq", literal |-> l])

FilterBindings(u) ==
  IF u.filters = <<>> THEN FiltersFromSelectedLiterals(u)
  ELSE [i \in DOMAIN u.filters |-> [owner |-> FilterOwner(u, i), property |-> u.filters[i].property,
                                    operator |-> u.filters[i].operator, literal |-> FilterLiteral(u, i)]]

LiteralBindings(u) ==
  IF u.filters = <<>> THEN u.literals ELSE LiteralsAt(u, Len(u.filters) + 1)

-----------------------------------------------------------------------------
(* What makes the binder reject an understanding.                              *)

PropertyBindable(owner, name, candidates) ==
  HasProperty(owner, name) /\ <<"property", owner, name>> \in candidates

BoundIn(S, type, name, candidates) == name \in S /\ <<type, name>> \in candidates

FilterBindable(u, i, candidates) ==
  /\ FilterOwner(u, i) # None
  /\ PropertyBindable(FilterOwner(u, i), u.filters[i].property, candidates)
  /\ InlineFits(u, i)
  /\ FilterLiteral(u, i) # None
  /\ u.filters[i].operator \in Operators

\* A projection or sort item refers to a source, to a property or to a whole vertex.
ReferenceBindable(item, candidates) ==
  CASE item.kind = "source" -> TRUE
    [] item.kind = "label" -> FALSE
    [] item.kind = "vertex_full" -> BoundIn(Vertices, "vertex", item.name, candidates)
    [] OTHER -> PropertyBindable(item.owner, item.name, candidates)

DimensionBindable(d, candidates) ==
  d.alias # None /\ d.target # None /\ PropertyBindable(d.owner, d.name, candidates)

\* A measure may name a vertex in place of a property: its instances are counted by their id.
NormalizeMeasure(m) ==
  IF m.name # None \/ m.owner = None THEN m
  ELSE [m EXCEPT !.alias = IF @ = None THEN SnakeCase[m.owner] \o "_count" ELSE @,
                 !.target = IF @ = None THEN SnakeCase[m.owner] ELSE @,
                 !.name = IdProperty[m.owner]]

MeasureBindable(m, candidates) == m.function \in AggregateFunctions /\ DimensionBindable(m, candidates)

\* get_vertex of a measure's vertex is the one lookup whose error the binder does not turn into its own.
BinderRaises(u) == \E m \in ToSet(u.measures) : m.name = None /\ m.owner \notin Vertices \cup {None}

\* What is bound before the measures are.
OperandsBindable(u, candidates) ==
  /\ \A l \in ToSet(u.literals) : l.owner # None => HasProperty(l.owner, l.property)
  /\ \A p \in ToSet(u.properties) : PropertyBindable(p.owner, p.name, candidates)
  /\ \A i \in DOMAIN u.filters : FilterBindable(u, i, candidates)
  /\ \A f \in ToSet(FilterBindings(u)) : PropertyBindable(f.owner, f.property, candidates)
  /\ \A item \in ToSet(u.projection) \cup ToSet(u.sort) : ReferenceBindable(item, candidates)
  /\ \A d \in ToSet(u.group_by) : DimensionBindable(d, candidates)

Bindable(u, candidates) ==
  /\ OperandsBindable(u, candidates)
  /\ \A m \in ToSet(u.measures) : MeasureBindable(NormalizeMeasure(m), candidates)
  /\ \A v \in ToSet(u.vertices) : BoundIn(Vertices, "vertex", v, candidates)
  /\ \A e \in ToSet(u.edges) : BoundIn(Edges, "edge", e.name, candidates)
  /\ \A m \in ToSet(u.metrics) : BoundIn(Metrics, "metric", m, candidates)
  /\ \A p \in ToSet(u.patterns) : BoundIn(PathPatterns, "path_pattern", p, candidates)

-----------------------------------------------------------------------------
(* What the binder infers.                                                     *)

\* The edges that join two of the vertices, each with the direction that leads from the earlier to the later.
InferredEdge(vs) ==
  LET pairs == {p \in (DOMAIN vs) \X (DOMAIN vs) : p[1] < p[2]}
      found == {[name |-> e, direction |-> d] : e \in Edges, d \in {"forward", "backward"}}
      joins(m) == {p \in pairs : EdgeConnects(m.name, vs[p[1]], vs[p[2]], m.direction)}
      matches == {m \in found : joins(m) # {}}
  IN  IF Cardinality(matches) = 1 /\ \A m \in matches : Cardinality(joins(m)) = 1
      THEN OnlyMember(matches) ELSE None

\* The vertices a list of edges runs through, none when one edge does not start where the last one ended.
VertexChain(es) ==
  IF \A i \in 1..Len(es) - 1 : Arrival(es[i]) = Departure(es[i + 1])
  THEN Unique(<<Departure(es[1])>> \o MapSeq(es, Arrival))
  ELSE None

\* The one vertex that owns a property, filter, projection or literal of the understanding.
PropertyOwner(u) ==
  OnlyMember(Vertices \cap
    ({p.owner : p \in ToSet(u.properties)} \cup {f.owner : f \in ToSet(FilterBindings(u))}
     \cup {item.owner : item \in {x \in ToSet(u.projection) : x.kind \notin {"source", "vertex_full"}}}
     \cup {l.owner : l \in ToSet(LiteralBindings(u))}))

QueryShapeAlias(shape) ==
  CASE shape = "lookup" -> "vertex_lookup"
    [] shape = "single_hop" -> "single_hop_traversal"
    [] shape = "variable_path" -> "variable_path_traversal"
    [] OTHER -> shape

Bind(u) ==
  LET shape0 == QueryShapeAlias(u.shape)
      es0 == Unique(u.edges)
      vs0 == Unique(u.vertices)
      vs1 == IF /\ shape0 = "variable_path_traversal" /\ Len(es0) > 1 /\ Len(vs0) # Len(es0) + 1
                /\ VertexChain(es0) # None
             THEN IF ToSet(vs0) \subseteq ToSet(VertexChain(es0)) THEN VertexChain(es0) ELSE vs0
             ELSE vs0
      es1 == IF es0 = <<>> /\ shape0 \in {"vertex_lookup", "single_hop_traversal"} /\ InferredEdge(vs1) # None
             THEN <<InferredEdge(vs1)>> ELSE es0
      shape1 == IF shape0 = "vertex_lookup" /\ es1 # <<>> /\ Len(vs1) >= 2
                THEN "single_hop_traversal" ELSE shape0
      vs2 == IF shape1 = "vertex_lookup" /\ vs1 = <<>> /\ PropertyOwner(u) # None
             THEN <<PropertyOwner(u)>> ELSE vs1
      shape2 == IF shape1 = "variable_path_traversal" /\ Len(es1) > 1 /\ Len(vs2) = Len(es1) + 1
                THEN "single_hop_traversal" ELSE shape1
      shape3 == IF shape2 = "metric_aggregate" /\ u.metrics = <<>> /\ u.measures # <<>>
                THEN "ad_hoc_aggregate" ELSE shape2
  IN  [shape |-> shape3, vertices |-> vs2, edges |-> es1, metrics |-> Unique(u.metrics),
       patterns |-> Unique(u.patterns),
       properties |-> Unique(u.properties
                             \o MapSeq(FilterBindings(u), LAMBDA f : [owner |-> f.owner, name |-> f.property])),
       literals |-> LiteralBindings(u), filters |-> FilterBindings(u), group_by |-> u.group_by,
       measures |-> MapSeq(u.measures, NormalizeMeasure), projection |-> u.projection,
       sort |-> u.sort, limit |-> u.limit]
===========================================================================
