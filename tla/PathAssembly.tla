---------------------------- MODULE PathAssembly ----------------------------
(* assembly/ and the pipeline's stage around it: a question whose form is    *)
(* clear becomes a DSL without the LLM. Of the question w gives the wording, *)
(* the resolved literals and what the pipeline asks for: the items to        *)
(* return, the groups and the measures, the properties that must be there.   *)
(* The result is a DSL, or None when the question is the LLM's.              *)
EXTENDS AssemblyRequests

CONSTANTS
  Alphabetical,   \* the vertices, sorted by name
  Mentions,       \* text to the vertices whose terms it contains or is part of
  WordsIn(_),     \* a list of texts to the direction words that occur in them
  EdgesOf,        \* direction word to the edges it is a word for
  DomainWords,    \* direction words that name a domain,
  GenericWords    \* and those that any domain uses

ASSUME AlphabeticalAssumption == Alphabetical \in Seq(Vertices)

-----------------------------------------------------------------------------
(* Which family a question belongs to: taxonomy.py.                            *)

FilterHint(w) == \E t \in ToSet(w.terms) : t.slot \in {"filter", "literal", "value"}

GroupTopNSignal(req) == req.group_by \/ req.order_by \/ req.limit

PropertyCountSignal(w) ==
  Bears(w.terms, "count_modifier") /\ (Bears(w.terms, "quantity") \/ CountAsked(w))

\* What looks like a filter may be the words of a count.
ZeroHopFilterSignal(w, req) ==
  CASE req.aggregate /\ PropertyCountSignal(w) -> w.said # <<>>
    [] req.aggregate /\ ~PropertyCountSignal(w) /\ CountAsked(w) -> FALSE
    [] OTHER -> FilterHint(w)

ZeroHopFamilies(w, req) ==
  LET clear == (IF req.aggregate /\ ~GroupTopNSignal(req) THEN {"F3"} ELSE {})
               \cup (IF ZeroHopFilterSignal(w, req) THEN {"F2"} ELSE {})
  IN  IF clear = {} /\ (req.projection # <<>> \/ w.object_info) THEN {"F1"} ELSE clear

MultihopFamilies(w, req) ==
  LET clear == (IF req.aggregate /\ GroupTopNSignal(req) THEN {"F6"} ELSE {})
               \cup (IF FilterHint(w) THEN {"F5"} ELSE {})
  IN  IF clear = {} THEN {"F4"} ELSE clear

\* None when several families fit, or none.
Family(w, req) ==
  IF w.intent = "two_stage_aggregate" THEN "F8"
  ELSE OnlyMember(IF req.hops = 0 THEN ZeroHopFamilies(w, req) ELSE MultihopFamilies(w, req))

-----------------------------------------------------------------------------
(* What the pipeline hands the assemblers.                                     *)

NamesOf(candidates, type) == {c[2] : c \in {x \in candidates : x[1] = type}}
PropertiesOf(candidates) == {[owner |-> c[2], name |-> c[3]] : c \in {x \in candidates : x[1] = "property"}}

\* The owner of the literals, unless another vertex is a strong candidate too.
PreferredVertex(w, req, candidates) ==
  LET owner == OnlyMember({l.owner : l \in ToSet(w.literals)} \cap Vertices)
  IN  IF Len(PathTerms(w.terms)) <= 1 /\ NamesOf(candidates, "vertex") \ w.weak \subseteq {owner} THEN owner ELSE None

\* The vertices the words are taken to be about.
SelectedVertices(w, req, candidates, family) ==
  LET preferred == IF family \in {"F1", "F2", "F3"} THEN PreferredVertex(w, req, candidates) ELSE None
  IN  IF preferred = None THEN VertexIds(w) ELSE <<preferred>>

\* Along a path without a word for what to return it is the last vertex no literal is about.
TraversalProjection(w, items, family, vertices) ==
  LET free == SelectSeq(vertices, LAMBDA v : \A l \in ToSet(w.literals) : l.owner # v)
  IN  IF items # <<>> \/ Projected(w) # <<>> \/ family \notin {"F4", "F5"} \/ vertices = <<>> THEN items
      ELSE <<IdItem(Last(IF free = <<>> THEN vertices ELSE free), {})>>

\* What is asked of the assembler of the family.
RequestWith(w, req, family, vertices, items, groups, measures) ==
  LET strict == family \in {"F1", "F2"} \/ (family \in {"F4", "F5"} /\ req.projection # <<>>)
  IN  [terms |-> w.terms, literals |-> w.literals, group_by |-> groups, measures |-> measures,
       projection |-> TraversalProjection(w, items, family, vertices),
       uncovered |-> strict /\ Uncovered(w, items, vertices),
       non_null |-> IF family = "F3" /\ Len(vertices) = 1 THEN PresentProperties(w, vertices[1], measures) ELSE <<>>]

RequestFor(w, req, family, vertices) ==
  LET groups == IF family = "F6" THEN GroupBy(w, vertices) ELSE <<>>
  IN  RequestWith(w, req, family, vertices, IF family = "F3" THEN <<>> ELSE TermItems(w, vertices), groups,
              CASE family = "F3" /\ Len(vertices) = 1 -> CountMeasures(w, vertices[1])
                [] family = "F6" -> PathMeasures(w, vertices, groups)
                [] OTHER -> <<>>)

ZeroHopVertices(w, req, candidates) ==
  IF PreferredVertex(w, req, candidates) # None THEN {PreferredVertex(w, req, candidates)}
  ELSE NamesOf(candidates, "vertex")

\* With several vertices the properties and edges are those among them.
MultihopProperties(candidates) ==
  LET vertices == NamesOf(candidates, "vertex")
  IN  {p \in PropertiesOf(candidates) : Cardinality(vertices) < 2 \/ p.owner \in vertices}

MultihopEdges(candidates) ==
  LET vertices == NamesOf(candidates, "vertex")
  IN  {e \in NamesOf(candidates, "edge") : Cardinality(vertices) < 2 \/ {From[e], To[e]} \subseteq vertices}

UniqueProperty(properties, name, owner) ==
  OnlyMember({p \in properties : p.name = name /\ owner \in {None, p.owner}})

UniqueLiteral(w, owner, name) ==
  LET fit == SelectSeq(w.literals, LAMBDA l : l.owner = owner /\ l.property = name)
  IN  IF Len(fit) = 1 THEN fit[1] ELSE None

AliasOr(item, default) == IF item.alias = None THEN default ELSE item.alias

PropertyItem(item, target, p) ==
  [kind |-> "property", alias |-> item.alias, target |-> target, owner |-> p.owner, name |-> p.name,
   terms |-> item.terms]
VertexItem(item, target) ==
  [kind |-> "vertex_full", alias |-> AliasOr(item, SnakeCase[item.name]), target |-> target, terms |-> item.terms]
MeasureItem(m, alias) ==
  [kind |-> "source", alias |-> alias, source |-> [ns |-> "measure", name |-> alias], terms |-> m.terms]

\* A condition for each literal and, in a count, for each property that must be there.
Condition(w, target, p, operator) ==
  [target |-> target, owner |-> p.owner, name |-> p.name, operator |-> operator,
   value |-> IF operator = "is_not_null" THEN None ELSE UniqueLiteral(w, p.owner, p.name)]

-----------------------------------------------------------------------------
(* One vertex: zero_hop.py.                                                    *)

ZeroHopDsl(shape, vertex, operations, filters, projection) ==
  [shape |-> shape, vertexRoles |-> [r \in {"target"} |-> vertex], edgeRoles |-> NoRoles,
   operations |-> operations, filters |-> filters, projection |-> projection]

LookupLimit(req) == IF req.value = None THEN <<>> ELSE <<[op |-> "limit", value |-> req.value]>>

\* A property is the vertex's only if no other candidate has one of its name.
OwnedBy(vertex, properties, name) == {p \in properties : p.name = name} = {[owner |-> vertex, name |-> name]}

ZeroHopItems(w, vertex, properties) ==
  IF /\ ToSet(w.projection) # {}
     /\ \A x \in ToSet(w.projection) : IF x.kind = "vertex_full" THEN x.name = vertex
                                       ELSE OwnedBy(vertex, properties, x.name)
  THEN MapSeq(w.projection, LAMBDA x : IF x.kind = "vertex_full" THEN VertexItem(x, "target")
                                       ELSE PropertyItem(x, "target", [owner |-> vertex, name |-> x.name]))
  ELSE None

ZeroHopConditions(w, vertex, properties, names) ==
  IF \A c \in ToSet(names) : /\ OwnedBy(vertex, properties, c.name) /\ c.operator \in DslOperator
                             /\ c.operator = "is_not_null" \/ UniqueLiteral(w, vertex, c.name) # None
  THEN MapSeq(names, LAMBDA c : Condition(w, "target", [owner |-> vertex, name |-> c.name], c.operator))
  ELSE None

\* The words of a measure are no conditions.
ByLiterals(w) ==
  MapSeq(SelectSeq(w.literals, LAMBDA l : \A m \in ToSet(w.measures) : l.raw \notin m.terms),
         LAMBDA l : [name |-> l.property, operator |-> FilterOperator(w.terms, l)])
ByPresence(w) == MapSeq(w.non_null, LAMBDA name : [name |-> name, operator |-> "is_not_null"])

AssembleF1(w, req, vertex, properties) ==
  LET items == ZeroHopItems(w, vertex, properties)
  IN  IF items = None THEN None ELSE ZeroHopDsl("vertex_lookup", vertex, LookupLimit(req), <<>>, items)

AssembleF2(w, req, vertex, properties) ==
  LET items == ZeroHopItems(w, vertex, properties)
      conditions == ZeroHopConditions(w, vertex, properties, ByLiterals(w))
  IN  IF Len(w.literals) # 1 \/ conditions = None \/ items = None THEN None
      ELSE ZeroHopDsl("vertex_lookup", vertex, LookupLimit(req), conditions, items)

\* A count of the vertex, or of its named properties; the id may be counted without being a candidate.
AssembleF3(w, vertex, properties) ==
  LET measures == IF w.measures = <<>> THEN <<[alias |-> None, function |-> "count", name |-> None, terms |-> {}]>>
                  ELSE w.measures
      named(m) == IF m.name = None THEN IdProperty[vertex] ELSE m.name
      alias(m) == AliasOr(m, SnakeCase[vertex] \o "_count")
      owned(m) == \/ OwnedBy(vertex, properties, named(m))
                  \/ HasProperty(vertex, named(m)) /\ \A p \in properties : p.name # named(m)
      conditions == ZeroHopConditions(w, vertex, properties, ByLiterals(w) \o ByPresence(w))
  IN  IF (\E m \in ToSet(measures) : m.function # "count" \/ ~owned(m)) \/ conditions = None THEN None
      ELSE ZeroHopDsl("ad_hoc_aggregate", vertex,
             <<[op |-> "aggregate", group_by |-> <<>>,
                measures |-> MapSeq(measures, LAMBDA m : [alias |-> alias(m), function |-> "count", target |-> "target",
                                                          owner |-> vertex, name |-> named(m)])]>>,
             conditions, MapSeq(measures, LAMBDA m : MeasureItem(m, alias(m))))

AssembleZeroHop(w, req, candidates, family, vertex) ==
  LET properties == {p \in PropertiesOf(candidates) : p.owner = vertex}
  IN  CASE vertex = None -> None
        [] vertex # None /\ family = "F1" -> AssembleF1(w, req, vertex, properties)
        [] vertex # None /\ family = "F2" -> AssembleF2(w, req, vertex, properties)
        [] OTHER -> AssembleF3(w, vertex, properties)

-----------------------------------------------------------------------------
(* Which edges the words of a path are for: direction.py.                      *)

\* A generic word in the company of one domain means that domain's edges; a word within a longer one says nothing.
DirectionEdges(texts) ==
  LET words == WordsIn(texts) \cap DOMAIN EdgesOf
      domain == OnlyMember(WordsIn(texts) \cap DomainWords)
      edges(word) == IF domain # None /\ word \in GenericWords /\ domain \o word \in DOMAIN EdgesOf
                     THEN EdgesOf[word] \cap EdgesOf[domain \o word] ELSE EdgesOf[word]
      longest == {word \in words : \A other \in words : <<word, other>> \notin Within}
  IN  UNION {edges(word) : word \in longest}

-----------------------------------------------------------------------------
(* Several vertices: multihop.py.                                              *)

FirstMention(path, vertex) ==
  LET at == {i \in DOMAIN path : vertex \in Mentions[path[i]]}
  IN  IF at = {} THEN None ELSE Min(at)

PathTexts(terms) == MapSeq(PathTerms(terms), LAMBDA t : t.text)

\* The candidate vertices in the order the path mentions them, those of one term by name.
OrderedVertices(candidates, path) ==
  LET at(i) == FirstMention(path, Alphabetical[i])
      mentioned == {i \in DOMAIN Alphabetical : Alphabetical[i] \in NamesOf(candidates, "vertex") /\ at(i) # None}
      before(i, j) == at(i) < at(j) \/ (at(i) = at(j) /\ i < j)
  IN  MapSeq(InOrder(mentioned, before), LAMBDA i : Alphabetical[i])

SegmentContext(path, start, end) ==
  LET i == FirstMention(path, start)
      j == FirstMention(path, end)
  IN  CASE i = None \/ j = None -> path
        [] i # None /\ j # None /\ i <= j -> SubSeq(path, i, j)
        [] OTHER -> SubSeq(path, j, i)

TailContext(path, start) == SubSeq(path, FirstMention(path, start), Len(path))

AnyStepEdge(edges, start, end, context) ==
  LET connecting == {e \in edges : {From[e], To[e]} = {start, end}}
  IN  IF connecting = {} THEN None ELSE CHOOSE e \in connecting : TRUE

\* The edge from one vertex to the next: the only one there is, or the one the words of the context are for.
StepEdge(edges, start, end, context) ==
  LET connecting == {e \in edges : {From[e], To[e]} = {start, end}}
      meant == DirectionEdges(context)
      meantHere == {e \in meant : {From[e], To[e]} = {start, end}}
  IN  CASE connecting = {} -> None
        [] connecting # {} /\ Cardinality(meant) > 1 ->
             CASE Cardinality(meantHere) = 1 /\ meantHere \subseteq connecting -> OnlyMember(meantHere)
               [] meantHere = {} -> OnlyMember(connecting)
               [] OTHER -> None
        [] connecting # {} /\ Cardinality(meant) <= 1 /\ Cardinality(connecting) = 1 ->
             IF meantHere \subseteq connecting THEN OnlyMember(connecting) ELSE None
        [] OTHER -> OnlyMember(connecting \cap meant)

ExtensionContext(edges, path, start, end) ==
  LET contexts == <<SegmentContext(path, start, end),
                    IF FirstMention(path, start) = None THEN path ELSE TailContext(path, start), <<>>>>
      enough == {i \in 1..3 : StepEdge(edges, start, end, contexts[i]) # None}
  IN  IF enough = {} THEN None ELSE contexts[Min(enough)]

RequiredOwners(w) ==
  MapSeq(SelectSeq(w.projection, LAMBDA x : x.kind = "property") \o w.group_by \o w.measures, LAMBDA x : x.owner)

\* Owners of what is asked for that an edge joins to the end of the path are added to it, the first that fits each time.
ExtendPath(w, edges, candidates, path, vertices) ==
  LET owners == RequiredOwners(w)
      missing == (ToSet(owners) \cap NamesOf(candidates, "vertex")) \ ToSet(vertices)
      extend(vs) == LET fit == {i \in DOMAIN owners : /\ owners[i] \in missing \ ToSet(vs)
                                                     /\ ExtensionContext(edges, path, Last(vs), owners[i]) # None}
                    IN  IF fit = {} THEN vs ELSE Append(vs, owners[Min(fit)])
      extended[n \in 0..Cardinality(missing)] == IF n = 0 THEN vertices ELSE extend(extended[n - 1])
  IN  extended[Cardinality(missing)]

PathEdge(edges, path, vertices, known, i) ==
  LET context == IF i < known THEN SegmentContext(path, vertices[i], vertices[i + 1])
                 ELSE ExtensionContext(edges, path, vertices[i], vertices[i + 1])
  IN  IF context = None THEN None ELSE StepEdge(edges, vertices[i], vertices[i + 1], context)

\* The vertices of the path and the edges between them.
PathPlan(w, candidates) ==
  LET path == PathTexts(w.terms)
      edges == MultihopEdges(candidates)
      mentioned == OrderedVertices(candidates, path)
      steps(vertices) == [i \in 1..Len(vertices) - 1 |-> PathEdge(edges, path, vertices, Len(mentioned), i)]
      plan(vertices) == [vertices |-> vertices, edges |-> steps(vertices)]
      complete(p) == IF \E i \in DOMAIN p.edges : p.edges[i] = None THEN None ELSE p
  IN  IF Len(mentioned) < 2 THEN None ELSE complete(plan(ExtendPath(w, edges, candidates, path, mentioned)))

PathRole(i) == "v" \o ToString(i - 1)
EdgeName(i) == "edge_" \o ToString(i - 1)

\* No path is longer: it has the vertices the words mention, and others once each.
LongestPath == Len(Alphabetical) + Cardinality(Vertices)

\* Names that are made with different numbers differ.
ASSUME RoleAssumption ==
  /\ "target" # None
  /\ \A i, j \in 1..LongestPath : PathRole(i) = PathRole(j) \/ EdgeName(i) = EdgeName(j) => i = j

RoleOfNext(plan) == RoleByOwner([i \in DOMAIN plan.vertices |-> <<plan.vertices[i], PathRole(i + 1)>>])
RoleInPath(plan) == RoleByOwner([i \in DOMAIN plan.vertices |-> <<plan.vertices[i], PathRole(i)>>])

PathDsl(shape, plan, tail, filters, projection) ==
  [shape |-> shape,
   vertexRoles |-> [r \in {PathRole(i) : i \in DOMAIN plan.vertices} |->
                      plan.vertices[CHOOSE i \in DOMAIN plan.vertices : PathRole(i) = r]],
   edgeRoles |-> [r \in {EdgeName(i) : i \in DOMAIN plan.edges} |->
                    plan.edges[CHOOSE i \in DOMAIN plan.edges : EdgeName(i) = r]],
   operations |-> [i \in DOMAIN plan.edges |->
                     [op |-> "traverse_edge", from |-> PathRole(i), edge |-> EdgeName(i), to |-> PathRole(i + 1),
                      direction |-> IF From[plan.edges[i]] = plan.vertices[i] THEN "forward" ELSE "backward"]] \o tail,
   filters |-> filters, projection |-> projection]

\* An item's owner is taken at its word, if the property is there.
ItemProperty(x, properties) ==
  IF x.owner # None THEN IF HasProperty(x.owner, x.name) THEN [owner |-> x.owner, name |-> x.name] ELSE None
  ELSE UniqueProperty(properties, x.name, None)

PathItems(w, plan, properties) ==
  LET roles == RoleInPath(plan)
      owner(x) == IF x.kind = "vertex_full" THEN x.name
                  ELSE IF ItemProperty(x, properties) = None THEN None ELSE ItemProperty(x, properties).owner
  IN  IF ToSet(w.projection) = {} \/ \E x \in ToSet(w.projection) : owner(x) \notin DOMAIN roles THEN None
      ELSE MapSeq(w.projection, LAMBDA x : IF x.kind = "vertex_full" THEN VertexItem(x, roles[owner(x)])
                                           ELSE PropertyItem(x, roles[owner(x)], ItemProperty(x, properties)))

AssembleF4(w, plan, properties) ==
  LET items == PathItems(w, plan, properties)
  IN  IF items = None THEN None ELSE PathDsl("single_hop_traversal", plan, <<>>, <<>>, items)

\* There may be one literal only for a property.
AssembleF5(w, plan, properties) ==
  LET roles == RoleInPath(plan)
      items == PathItems(w, plan, properties)
      usable(l) == /\ UniqueProperty(properties, l.property, l.owner) # None
                   /\ l.owner \in DOMAIN roles /\ UniqueLiteral(w, l.owner, l.property) # None
                   /\ FilterOperator(w.terms, l) \in Operators
  IN  IF w.literals = <<>> \/ items = None \/ \E l \in ToSet(w.literals) : ~usable(l)
      THEN None
      ELSE PathDsl("single_hop_traversal", plan, <<>>,
                   MapSeq(w.literals, LAMBDA l : Condition(w, roles[l.owner], [owner |-> l.owner, name |-> l.property],
                                                           FilterOperator(w.terms, l))), items)

\* One group, one measure, ordered by the measure and cut off; the literals have no part in it.
AssembleF6(w, req, plan, properties) ==
  LET roles == RoleInPath(plan)
      usable(x) == UniqueProperty(properties, x.name, x.owner) # None
                   /\ UniqueProperty(properties, x.name, x.owner).owner \in DOMAIN roles
      g == w.group_by[1]
      m == w.measures[1]
      at(x) == UniqueProperty(properties, x.name, x.owner)
      groupAlias == AliasOr(g, SnakeCase[at(g).owner] \o "_" \o g.name)
      measureAlias == AliasOr(m, SnakeCase[at(m).owner] \o "_" \o m.function)
      group == [alias |-> groupAlias, target |-> roles[at(g).owner], owner |-> at(g).owner, name |-> g.name]
      measure == [alias |-> measureAlias, function |-> m.function, target |-> roles[at(m).owner], owner |-> at(m).owner,
                  name |-> m.name]
  IN  IF \/ Len(w.group_by) # 1 \/ Len(w.measures) # 1
         \/ ~usable(g) \/ ~usable(m) \/ m.function \notin AggregateFunctions
         \/ ~req.order_by \/ req.direction = None \/ req.value = None
      THEN None
      ELSE PathDsl("top_n", plan,
             <<[op |-> "aggregate", group_by |-> <<group>>, measures |-> <<measure>>],
               [op |-> "sort", by |-> <<[source |-> [ns |-> "measure", name |-> measureAlias],
                                         direction |-> req.direction]>>],
               [op |-> "limit", value |-> req.value]>>,
             <<>>,
             <<[kind |-> "source", alias |-> groupAlias, source |-> [ns |-> "group", name |-> groupAlias],
                terms |-> g.terms], MeasureItem(m, measureAlias)>>)

AssembleMultihop(w, req, candidates, family) ==
  LET properties == MultihopProperties(candidates)
      along(plan) == CASE plan = None -> None
                       [] plan # None /\ family = "F4" -> AssembleF4(w, plan, properties)
                       [] plan # None /\ family = "F5" -> AssembleF5(w, plan, properties)
                       [] OTHER -> AssembleF6(w, req, plan, properties)
  IN  along(PathPlan(w, candidates))

\* Terms to return that no item covers leave the question to the LLM.
AssembleRequest(request, req, candidates, family, vertex) ==
  CASE family \in {"F1", "F2", "F3"} /\ ~request.uncovered -> AssembleZeroHop(request, req, candidates, family, vertex)
    [] family \in {"F4", "F5", "F6"} /\ ~request.uncovered -> AssembleMultihop(request, req, candidates, family)
    [] OTHER -> None

AssembleFamily(w, req, candidates, family) ==
  AssembleRequest(RequestFor(w, req, family, SelectedVertices(w, req, candidates, family)), req, candidates, family,
                  OnlyMember(ZeroHopVertices(w, req, candidates)))

Assemble(w, req, candidates) == AssembleFamily(w, req, candidates, Family(w, req))
===========================================================================
