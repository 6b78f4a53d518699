------------------------ MODULE GroundedUnderstanding ------------------------
(* understanding/: from what the LLM answers to an understanding the binder  *)
(* takes. A compact answer selects candidates and literals by their ids and  *)
(* may call a group, a measure or a column by a label; a full one gives them *)
(* as the binder wants them. Neither may go beyond what retrieval and the    *)
(* literal resolver found.                                                   *)
EXTENDS GraphModel

AggregateShapes == {"ad_hoc_aggregate", "metric_aggregate", "top_n", "two_step_aggregate"}

PropertyLabel(p) == p.owner \o "." \o p.name

\* The alias a list of <<label, alias>> has for a label: the last one given.
Labelled(pairs, label) ==
  LET found == SelectSeq(pairs, LAMBDA p : p[1] = label)
  IN  IF found = <<>> THEN None ELSE Last(found)[2]

Selected(a) ==
  UNION {{<<"vertex", v>> : v \in ToSet(a.vertices)}, {<<"edge", e.name>> : e \in ToSet(a.edges)},
         {<<"metric", m>> : m \in ToSet(a.metrics)}, {<<"path_pattern", p>> : p \in ToSet(a.patterns)},
         {<<"property", p.owner, p.name>> : p \in ToSet(a.properties)}}

-----------------------------------------------------------------------------
(* Groups and measures.                                                        *)

\* A bare property is grouped by under a name made of its own and its owner's.
HydrateGroup(g) ==
  CASE g.kind = "item" -> [alias |-> g.alias, target |-> g.target, owner |-> g.owner, name |-> g.name]
    [] g.kind = "property" -> [alias |-> SnakeCase[g.owner] \o "_" \o g.name, target |-> SnakeCase[g.owner],
                               owner |-> g.owner, name |-> g.name]
    [] OTHER -> [alias |-> None, target |-> None, owner |-> None, name |-> None]

GroupLabels(a) ==
  FoldLeft(LAMBDA acc, g :
             CASE g.kind = "item" -> Append(acc, <<PropertyLabel(g), g.alias>>)
               [] g.kind = "property" -> acc \o << <<PropertyLabel(g), HydrateGroup(g).alias>>,
                                                    <<g.name, HydrateGroup(g).alias>> >>
               [] OTHER -> acc, <<>>, a.group_by)

\* count(Owner) counts the owner's property "id", under one name if the answer gives it any.
HydrateMeasure(m) ==
  CASE m.kind = "item" -> [alias |-> m.alias, function |-> m.function, target |-> m.target,
                           owner |-> m.owner, name |-> m.name]
    [] m.kind = "count" -> [alias |-> IF m.text = None THEN SnakeCase[m.owner] \o "_count" ELSE "cnt",
                            function |-> "count", target |-> SnakeCase[m.owner], owner |-> m.owner, name |-> "id"]
    [] OTHER -> [alias |-> None, function |-> None, target |-> None, owner |-> None, name |-> None]

MeasureLabels(a) ==
  FoldLeft(LAMBDA acc, m :
             LET alias == HydrateMeasure(m).alias
             IN  CASE m.kind = "item" -> IF alias = None THEN acc ELSE Append(acc, <<alias, alias>>)
                   [] m.kind = "count" -> acc \o << <<m.hint, alias>>, <<"count", alias>>,
                                                     <<"count(" \o m.owner \o ")", alias>>,
                                                     <<m.text, alias>>, <<alias, alias>> >>
                   [] OTHER -> acc, <<>>, a.measures)

Sourced(ns, name) == IF name = None THEN None ELSE [ns |-> ns, name |-> name]

\* A label is a measure's before it is a group's.
SourceForLabel(a, label) ==
  FirstFound(<<Sourced("measure", Labelled(MeasureLabels(a), label)), Sourced("group", Labelled(GroupLabels(a), label))>>)

-----------------------------------------------------------------------------
(* The order and the columns.                                                  *)

\* A label nothing is called by is left for the binder to refuse.
HydrateSort(a, s) ==
  IF s.kind = "source" THEN s
  ELSE LET source == SourceForLabel(a, s.text)
       IN  [kind |-> IF source = None THEN "label" ELSE "source", source |-> source, direction |-> s.direction]

SourceItem(source, alias) ==
  IF source = None THEN None ELSE
  [kind |-> "source", alias |-> IF alias = None THEN source.name ELSE alias, source |-> source, terms |-> {}]

\* What an item of an aggregate may be called: its alias, or else its name where it has one beside the property.
ItemSource(a, x) ==
  FirstFound(<<IF x.alias = None THEN None ELSE SourceForLabel(a, x.alias),
               IF x.kind = "reference" THEN None ELSE SourceForLabel(a, x.name)>>)

\* Only a group stands for the property of an item; the role an item names and its terms are left behind.
HydrateProperty(a, x) ==
  LET group == FirstFound(<<Labelled(GroupLabels(a), PropertyLabel(x)), Labelled(GroupLabels(a), x.name)>>)
      sources == IF a.shape \in AggregateShapes
                 THEN <<SourceItem(ItemSource(a, x), x.alias), SourceItem(Sourced("group", group), None)>> ELSE <<>>
  IN  FirstFound(Append(sources, [kind |-> "property", owner |-> x.owner, name |-> x.name, alias |-> x.alias,
                                  terms |-> {}]))

HydrateItem(a, x) ==
  CASE x.kind \in {"source", "vertex_full"} -> x
    [] x.kind = "vertex" -> [kind |-> "vertex_full", name |-> x.name, alias |-> x.alias, terms |-> x.terms]
    [] x.kind = "label" ->
         FirstFound(<<IF a.shape \in AggregateShapes THEN SourceItem(SourceForLabel(a, x.text), None) ELSE None, x>>)
    [] OTHER -> HydrateProperty(a, x)

-----------------------------------------------------------------------------
(* The understanding.                                                          *)

\* Without a projection the selected elements whose role says so are returned.
ToBinderPayload(u) ==
  [x \in DOMAIN u \ {"full", "returned"} |-> IF x = "projection" /\ u.projection = <<>> THEN Unique(u.returned) ELSE u[x]]

Hydrate(a, literals) ==
  IF a.full THEN a
  ELSE [a EXCEPT !.literals = MapSeq(@, LAMBDA l : literals[l.id]),
                 !.group_by = MapSeq(@, HydrateGroup),
                 !.measures = MapSeq(@, HydrateMeasure),
                 !.sort = MapSeq(@, LAMBDA s : HydrateSort(a, s)),
                 !.projection = MapSeq(@, LAMBDA x : HydrateItem(a, x))]

\* What hydration looks up must be there.
Hydratable(a, candidates, literals) ==
  ~a.full =>
    /\ Selected(a) \subseteq candidates
    /\ \A l \in ToSet(a.literals) : l.id \in DOMAIN literals
    /\ \A g \in ToSet(a.group_by) : g.kind = "property" => <<"property", g.owner, g.name>> \in candidates
    /\ \A m \in ToSet(a.measures) : m.kind = "count" => <<"property", m.owner, "id">> \in candidates
    /\ \A x \in ToSet(a.projection) :
         /\ x.kind = "vertex" => <<"vertex", x.name>> \in candidates
         /\ /\ x.kind \in {"property", "reference", "unlabelled"}
            /\ a.shape \in AggregateShapes => ItemSource(a, x) = None
            => <<"property", x.owner, x.name>> \in candidates

\* The model of an understanding takes no column that is a mere label.
SchemaValid(u) == \A x \in ToSet(u.projection) : x.kind # "label"

\* The measures are not looked at.
WithinBoundaries(u, candidates, literals) ==
  /\ Selected(u) \subseteq candidates
  /\ \A f \in ToSet(u.filters) : f.owner # None => <<"property", f.owner, f.property>> \in candidates
  /\ \A x \in ToSet(u.projection) \cup ToSet(u.sort) :
       /\ x.kind = "vertex_full" => <<"vertex", x.name>> \in candidates
       /\ x.kind \in {"property", "reference", "unlabelled"} => <<"property", x.owner, x.name>> \in candidates
  /\ \A g \in ToSet(u.group_by) : g.owner # None => <<"property", g.owner, g.name>> \in candidates
  /\ ToSet(u.literals) \subseteq ToSet(literals)
===========================================================================
