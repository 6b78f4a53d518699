--------------------------- MODULE ProjectionTerms ---------------------------
(* What the words for what to return stand for: core/pipeline.py makes items *)
(* of them, of a vertex as a whole or of a property, for those of the        *)
(* vertices that are selected. Beside its terms a question has the texts it  *)
(* asks all about (informed), the <<before, after>> of each "and its"        *)
(* (possessive), whether it has a word for a relation (linked) or for both   *)
(* of two things (paired), and the shape of its answer (output_shape): rows, *)
(* grouped_rows, or the scalar that is one number. The marks of a text are   *)
(* here whole and vague ("all information", "info"), endpoint, source and    *)
(* target, number and noise.                                                 *)
EXTENDS LiteralResolution

CONSTANTS
  NamedBy,      \* text to the vertices of which it is a name
  Mentioned,    \* text to the list of vertices it mentions
  Coordinated,  \* the texts that mention their vertices side by side
  Compound,     \* text to what stands in it before "node" or "info"
  Suits         \* <<text, vertex, property>> to how well the text names the property, if it does

Is(t, mark) == mark \in Marks(t.text)
IsAny(t, marks) == marks \cap Marks(t.text) # {}

Projected(q) == OfSlot(q.terms, "projection")
Filtering(q) == OfSlot(q.terms, "filter")

-----------------------------------------------------------------------------
(* What a text names among the selected vertices.                              *)

ObjectOwner(text, selected) == OnlyMember(At(NamedBy, text, {}) \cap ToSet(selected))

\* Of several vertices in a chain the last is meant.
AttachedOwners(text, selected) ==
  LET found == SelectSeq(At(Mentioned, text, <<>>), LAMBDA v : Contains(selected, v))
  IN  IF Len(found) < 2 \/ text \in Coordinated THEN found ELSE <<Last(found)>>

CompoundOwners(text, selected) ==
  Unique(FlattenSeq(MapSeq(At(Compound, text, <<>>), LAMBDA prefix : AttachedOwners(prefix, selected))))

\* The best property, of the first owner if it need not be the only one.
PropertyAmong(text, owners, unique) ==
  LET suits(r) == At(Suits, <<text, r[1], r[2]>>, 0)
      refs == UNION {{<<o, name>> : name \in Properties[o]} : o \in ToSet(owners)}
      best == {r \in refs : suits(r) > 0 /\ \A other \in refs : suits(other) <= suits(r)}
      first == Head(SelectSeq(owners, LAMBDA o : \E r \in best : r[1] = o))
  IN  IF best = {} \/ (unique /\ Cardinality(best) > 1) THEN None
      ELSE OnlyMember({r \in best : r[1] = first})

\* A property of each owner, or none at all.
EachProperty(text, owners) ==
  LET refs == MapSeq(owners, LAMBDA o : PropertyAmong(text, <<o>>, FALSE))
  IN  IF Contains(refs, None) THEN <<>> ELSE refs

\* The vertices a text attached to another may be about.
Owners(attached, selected) ==
  LET owners == AttachedOwners(attached, selected)
  IN  IF owners = <<>> THEN selected ELSE SelectSeq(selected, LAMBDA v : Contains(owners, v))

\* The one property that a text attached to another names, or None if there are several.
PropertyRef(text, attached, selected) ==
  IF Len(AttachedOwners(attached, selected)) > 1 THEN None
  ELSE PropertyAmong(text, Owners(attached, selected), attached = None /\ Len(selected) > 1)

RefOf(t, selected) == PropertyRef(t.text, t.attached, selected)
RefAttached(t, selected) == PropertyRef(t.attached, None, selected)

-----------------------------------------------------------------------------
(* Which terms are asked for, and of what.                                     *)

\* Terms others are attached to are not asked for themselves.
Asked(q) ==
  LET attached == {t.attached : t \in ToSet(Projected(q))} \ {None}
  IN  SelectSeq(Projected(q), LAMBDA t : \A a \in attached : a # t.text /\ <<t.text, a>> \notin Within)

AttachedOrNamed(t, selected) == AttachedOwners(IF t.attached = None THEN t.text ELSE t.attached, selected)

IsEndpoint(t, selected) == Is(t, "endpoint") /\ Len(AttachedOrNamed(t, selected)) = 1

\* The two ends of a path, when there are words for two.
Endpoints(q, selected) ==
  LET ends == SelectSeq(Projected(q), LAMBDA t : IsEndpoint(t, selected))
      owners == Unique(MapSeq(ends, LAMBDA t : AttachedOrNamed(t, selected)[1]))
  IN  IF Len(owners) = 2 THEN owners ELSE <<>>

\* The vertex of another word for a whole that the term is attached to.
ChainedOwners(q, t, selected) ==
  LET links == SelectSeq(Projected(q), LAMBDA x : /\ x.text = t.attached /\ Is(x, "whole")
                                                  /\ Len(AttachedOwners(x.attached, selected)) = 1)
  IN  IF links = <<>> THEN <<>> ELSE AttachedOwners(Head(links).attached, selected)

\* The vertex a term means as a whole.
WholeVertex(q, t, selected) ==
  LET owners == <<AttachedOrNamed(t, selected), ChainedOwners(q, t, selected),
                  IF Len(selected) = 1 THEN selected ELSE <<>>>>
      found == SelectSeq(owners, LAMBDA s : s # <<>>)
  IN  CASE ~Is(t, "whole") -> IF Len(selected) > 2 THEN None ELSE OnlyMember(ToSet(CompoundOwners(t.text, selected)))
        [] Is(t, "whole") /\ ((Is(t, "vague") /\ Len(selected) > 2) \/ found = <<>>) -> None
        [] OTHER -> OnlyMember(ToSet(Head(found)))

\* With words for both ends, or for both of two things, a property of each is meant.
ExpandedOwners(q, t, owners, selected) ==
  CASE Len(owners) < 2 -> <<>>
    [] Len(owners) >= 2 /\ Endpoints(q, selected) # <<>> ->
         SelectSeq(owners, LAMBDA o : Contains(Endpoints(q, selected), o))
    [] OTHER -> LET fit == SelectSeq(owners, LAMBDA o : q.paired /\ PropertyAmong(t.text, <<o>>, FALSE) # None)
                IN  IF Len(fit) < 2 THEN <<>> ELSE fit

PropertyRefs(q, t, selected) ==
  LET attached == AttachedOwners(t.attached, selected)
      expanded == ExpandedOwners(q, t, Owners(t.attached, selected), selected)
      ref == RefOf(t, selected)
  IN  CASE Len(attached) > 1 -> EachProperty(t.text, attached)
        [] Len(attached) <= 1 /\ expanded # <<>> -> EachProperty(t.text, expanded)
        [] OTHER -> IF ref = None THEN <<>> ELSE <<ref>>

\* Unless a term is merely a vertex's name it has to be found a property.
RequiresProperty(t, selected) ==
  LET named == SelectSeq(selected, LAMBDA v : v \in At(NamesAt, t.text, {}))
      owners == IF named = <<>> THEN selected ELSE named
  IN  \/ t.attached # None \/ named = <<>> \/ CompoundOwners(t.text, selected) # <<>>
      \/ \E o \in ToSet(owners) : \E name \in Properties[o] : At(Suits, <<t.text, o, name>>, 0) = 100

\* A vertex's name among the words of the path.
IsPathContext(q, t) == OfSlot(q.terms, "path") # <<>> /\ (q.linked \/ \E x \in ToSet(q.terms) : x.slot = "path" /\ x.text = t.text)

\* A vertex that is named is meant as a whole if the question asks all about it, or for nothing but it along a path.
NamedAsWhole(q, t, selected) ==
  \/ t.text \in q.informed
  \/ /\ IsPathContext(q, t)
     /\ \A x \in ToSet(Projected(q)) : RequiresProperty(x, selected) => <<x.text, x.attached>> = <<t.text, t.attached>>

-----------------------------------------------------------------------------
(* The items to return: _projection_items_from_substantive_terms.              *)

Alias(owner, name) == SnakeCase[owner] \o "_" \o name
WholeItem(v, terms) == [kind |-> "vertex_full", owner |-> None, name |-> v, alias |-> SnakeCase[v], terms |-> terms]
RefItem(ref, alias, terms) == [kind |-> "property", owner |-> ref[1], name |-> ref[2], alias |-> alias, terms |-> terms]
IdItem(v, terms) == RefItem(<<v, IdProperty[v]>>, Alias(v, IdProperty[v]), terms)

\* Of two items for the same the terms of both count; an alias of a path's end is kept.
PutItem(items, item) ==
  LET same(x) == <<x.kind, x.owner, x.name>> = <<item.kind, item.owner, item.name>>
      alias(x) == IF item.alias \in {"source", "target"} THEN item.alias ELSE x.alias
  IN  IF \E x \in ToSet(items) : same(x)
      THEN MapSeq(items, LAMBDA x : IF same(x) THEN [x EXCEPT !.terms = @ \cup item.terms, !.alias = alias(x)] ELSE x)
      ELSE Append(items, item)

\* The term of another whole it is attached to goes with it.
WholeItems(q, selected) ==
  LET links(t) == {x.text : x \in {y \in ToSet(Projected(q)) : y.text = t.attached /\ Is(y, "whole")}}
      wholes == SelectSeq(Asked(q), LAMBDA t : WholeVertex(q, t, selected) # None)
      known(v, i) == \E j \in 1..i - 1 : WholeVertex(q, wholes[j], selected) = v
  IN  [i \in DOMAIN wholes |->
         LET v == WholeVertex(q, wholes[i], selected)
         IN  WholeItem(v, {wholes[i].text} \cup (IF known(v, i) THEN {} ELSE links(wholes[i])))]

\* The end of the path a term means, with the name it is returned by. There must be several vertices.
EndMeant(t, selected) ==
  CASE Len(selected) < 2 -> None
    [] Len(selected) >= 2 /\ Is(t, "source") -> [owner |-> Head(selected), alias |-> "source"]
    [] Len(selected) >= 2 /\ Is(t, "target") -> [owner |-> Last(selected), alias |-> "target"]
    [] OTHER -> None

EndItems(t, end) ==
  LET ref == PropertyAmong(t.text, <<end.owner>>, FALSE)
  IN  IF ref = None THEN <<>> ELSE <<RefItem(ref, end.alias, {t.text})>>

\* Of several the properties of the path's ends are told apart by their names.
PropertyItems(t, refs, ends) ==
  LET endName(ref) == (IF ref[1] = ends[1] THEN "source_" ELSE "target_") \o (IF ref[2] = "elem_type" THEN "type" ELSE ref[2])
      alias(ref) == IF Len(refs) > 1 /\ Contains(ends, ref[1]) THEN endName(ref) ELSE Alias(ref[1], ref[2])
  IN  MapSeq(refs, LAMBDA ref : RefItem(ref, alias(ref), {t.text}))

\* What a single term that is no whole stands for.
ItemsOf(q, t, selected) ==
  LET object == ObjectOwner(t.text, selected)
      named == object # None /\ ~(Len(selected) > 2 /\ CompoundOwners(t.text, selected) # <<>>)
      end == EndMeant(t, selected)
  IN  CASE named -> <<IF NamedAsWhole(q, t, selected) THEN WholeItem(object, {t.text}) ELSE IdItem(object, {t.text})>>
        [] ~named /\ end # None -> EndItems(t, end)
        [] OTHER -> PropertyItems(t, PropertyRefs(q, t, selected), Endpoints(q, selected))

\* The terms that something must be found for.
RequiredSlots(q, selected) ==
  SelectSeq(Asked(q), LAMBDA t : /\ ~IsEndpoint(t, selected)
                                 /\ \/ WholeVertex(q, t, selected) # None \/ ObjectOwner(t.text, selected) # None
                                    \/ RequiresProperty(t, selected))

\* In the order of their first terms.
InTermOrder(q, items) ==
  LET texts == MapSeq(Projected(q), LAMBDA t : t.text)
      first(x) == LET at == {i \in DOMAIN texts : texts[i] \in x.terms} IN IF at = {} THEN Len(texts) + 1 ELSE Min(at)
  IN  FlattenSeq([i \in 1..Len(texts) + 1 |-> SelectSeq(items, LAMBDA x : first(x) = i)])

\* The vertices of which the question asks "and its" something of another.
RelationSources(q, selected) ==
  LET source(p) == AttachedOwners(p[1], selected)
  IN  IF Len(selected) < 2 THEN <<>>
      ELSE Unique(MapSeq(SelectSeq(q.possessive, LAMBDA p : /\ Len(source(p)) = 1
                                                           /\ ToSet(AttachedOwners(p[2], selected)) \ ToSet(source(p)) # {}),
                         LAMBDA p : Head(source(p))))

\* They are returned too, by their names: instead of an id that stands for the vertex, or before the items of others.
WithSource(items, v, selected) ==
  LET identity == IF "name" \in Properties[v] THEN "name" ELSE IdProperty[v]
      own == SelectSeq(items, LAMBDA x : x.kind = "property" /\ x.owner = v)
      stands(x) == /\ x.owner = v /\ x.name = IdProperty[v] /\ x.name # identity /\ \E text \in x.terms : ObjectOwner(text, selected) = v
      others == {i \in DOMAIN items : items[i].kind = "property" /\ items[i].owner # v}
      at == IF others = {} THEN Len(items) + 1 ELSE Min(others)
  IN  CASE own = <<>> ->
             InsertAt(items, at, RefItem(<<v, identity>>, Alias(v, identity), {"name"}))
        [] Len(own) = 1 -> MapSeq(items, LAMBDA x : IF x.kind = "property" /\ stands(x)
                                                    THEN [x EXCEPT !.name = identity, !.alias = Alias(v, identity)] ELSE x)
        [] OTHER -> items

WithSources(items, sources, selected) ==
  IF \E x \in ToSet(items) : x.kind = "property" /\ ~Contains(sources, x.owner)
  THEN FoldLeft(LAMBDA acc, v : WithSource(acc, v, selected), items, sources) ELSE items

TermItems(q, selected) ==
  LET singles == SelectSeq(RequiredSlots(q, selected), LAMBDA t : WholeVertex(q, t, selected) = None)
      found == WholeItems(q, selected) \o FlattenSeq(MapSeq(singles, LAMBDA t : ItemsOf(q, t, selected)))
  IN  WithSources(InTermOrder(q, FoldLeft(PutItem, <<>>, found)), RelationSources(q, selected), selected)

\* Whether a term is without its item.
Uncovered(q, items, selected) ==
  LET has(kind, owner, name) == \E x \in ToSet(items) : <<x.kind, x.owner, x.name>> = <<kind, owner, name>>
      about(v) == has("vertex_full", None, v) \/ \E x \in ToSet(items) : x.kind = "property" /\ x.owner = v
      covered(t) ==
        CASE WholeVertex(q, t, selected) # None -> has("vertex_full", None, WholeVertex(q, t, selected))
          [] WholeVertex(q, t, selected) = None /\ PropertyRefs(q, t, selected) # <<>> ->
               \A ref \in ToSet(PropertyRefs(q, t, selected)) : has("property", ref[1], ref[2])
          [] OTHER -> ObjectOwner(t.text, selected) # None /\ about(ObjectOwner(t.text, selected))
  IN  \E t \in ToSet(RequiredSlots(q, selected)) : ~covered(t)

-----------------------------------------------------------------------------
(* The candidate vertices, as they are ranked, and the question that names     *)
(* nothing but vertices, of which one must be asked what to return of it.      *)

VertexIds(q) == MapSeq(SelectSeq(q.ranked, LAMBDA c : c[1] = "vertex" /\ c \in q.candidates), LAMBDA c : c[2])

ScalarOrAggregate(q) ==
  \/ q.output_shape = "scalar" \/ Requirements(q).aggregate
  \/ \E t \in ToSet(q.terms) : t.slot \in {"group_by", "order_by", "limit"} \/ (t.slot = "projection" /\ Is(t, "number"))

Naked(q) ==
  LET selected == VertexIds(q)
      bare(t) == /\ WholeVertex(q, t, selected) = None /\ t.text \notin q.informed
                 /\ ~RequiresProperty(t, selected) /\ ObjectOwner(t.text, selected) # None
  IN  /\ ~ScalarOrAggregate(q) /\ selected # <<>>
      /\ \A t \in ToSet(Projected(q)) : bare(t)
      /\ \E t \in ToSet(Projected(q)) : ~IsPathContext(q, t)

\* The wholes an answer that returns nothing is taken to ask for.
WholesAmong(q, selected) ==
  LET meant(t) == IF WholeVertex(q, t, selected) # None THEN WholeVertex(q, t, selected)
                  ELSE IF NamedAsWhole(q, t, selected) THEN ObjectOwner(t.text, selected) ELSE None
  IN  Unique(SelectSeq(MapSeq(Projected(q), meant), LAMBDA v : v # None))
=============================================================================
