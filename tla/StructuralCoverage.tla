------------------------- MODULE StructuralCoverage -------------------------
(* validation/structural_requirements.py: what the wording of a question     *)
(* requires of the query, and what of it a DSL does not do. The last gate    *)
(* before a query is compiled. A term is [text, slot, attached, position];   *)
(* what a text contains is known by the marks it bears.                      *)
EXTENDS DslParser

CONSTANTS
  Says,      \* text to its marks: relation, aggregate, field, quantity, node_count, generic, asc, desc, count
  NumberIn,  \* text to the first number in it, if there is any
  Within,    \* the <<a, b>> of which text a is a proper part of text b
  Surface    \* a name to the texts that occur in what it is also called, "vertex_full" for a whole vertex

ASSUME NumberAssumption == \A text \in DOMAIN NumberIn : NumberIn[text] \in Nat

Marks(x) == IF x \in DOMAIN Says THEN Says[x] ELSE {}
Bears(terms, mark) == \E t \in ToSet(terms) : mark \in Marks(t.text)
OfSlot(terms, slot) == SelectSeq(terms, LAMBDA t : t.slot = slot)

-----------------------------------------------------------------------------
(* What the question requires.                                                 *)

\* A text other terms are attached to is not required itself; nor is one that names no field.
ProjectionTexts(terms) ==
  LET asked == OfSlot(terms, "projection")
      owners == {t.attached : t \in ToSet(asked)}
  IN  Unique(MapSeq(SelectSeq(asked, LAMBDA t : /\ t.text \notin owners
                                               /\ (t.attached # None \/ "field" \in Marks(t.text))),
                    LAMBDA t : t.text))

\* The terms of the path, in the question's order when it is known for all of them.
PathTerms(terms) ==
  LET path == OfSlot(terms, "path")
  IN  IF \E t \in ToSet(path) : t.position = None THEN path
      ELSE SortSeq(path, LAMBDA a, b : a.position < b.position)

\* The words for the relation, and the texts with another anchor in them, are no anchors.
PathAnchors(terms) ==
  LET named == SelectSeq(PathTerms(terms), LAMBDA t : "relation" \notin Marks(t.text))
  IN  SelectSeq(named, LAMBDA t : \A o \in ToSet(named) : <<o.text, t.text>> \notin Within)

MinimumPathHops(terms) == IF Len(PathAnchors(terms)) < 2 THEN 0 ELSE Len(PathAnchors(terms)) - 1

OrderDirection(terms) ==
  LET order == OfSlot(terms, "order_by")
  IN  IF Bears(order, "desc") THEN "desc" ELSE IF Bears(order, "asc") THEN "asc" ELSE None

LimitValue(terms) ==
  LET limits == OfSlot(terms, "limit")
      given == {i \in DOMAIN limits : limits[i].text \in DOMAIN NumberIn /\ NumberIn[limits[i].text] # 0}
      first == {i \in given : \A j \in given : i <= j}
  IN  IF first = {} THEN None ELSE NumberIn[limits[CHOOSE i \in first : TRUE].text]

Requirements(q) ==
  [aggregate |-> \/ q.intent \in {"count", "aggregate", "top_n"} \/ q.output_shape = "grouped_rows"
                 \/ Bears(q.terms, "aggregate"),
   group_by |-> OfSlot(q.terms, "group_by") # <<>>,
   order_by |-> OfSlot(q.terms, "order_by") # <<>>, direction |-> OrderDirection(q.terms),
   limit |-> OfSlot(q.terms, "limit") # <<>>, value |-> LimitValue(q.terms),
   hops |-> MinimumPathHops(q.terms), projection |-> ProjectionTexts(q.terms)]

-----------------------------------------------------------------------------
(* What the DSL has of it.                                                     *)

HasAggregate(dsl) ==
  \/ dsl.shape \in {"metric_aggregate", "ad_hoc_aggregate", "top_n", "two_step_aggregate"}
  \/ \E o \in ToSet(dsl.operations) : o.op \in {"aggregate", "metric_aggregate", "subquery"}

Grouping == {"aggregate", "metric_aggregate", "subquery"}
HasGroupBy(dsl) == \E o \in ToSet(dsl.operations) : o.op \in Grouping /\ o.group_by # <<>>

SortDirections(dsl) == {x.direction : x \in UNION {ToSet(o.by) : o \in Operations(dsl, "sort")}}
LimitValues(dsl) == {o.value : o \in Operations(dsl, "limit")}

VerticesOnPath(dsl) ==
  Max({Cardinality(EdgePlaces(dsl)) + 1} \cup {o.max : o \in Operations(dsl, "variable_path")}
      \cup {99 : o \in Operations(dsl, "use_path_pattern")})

\* Each edge is a hop; a variable path reaches as far as its bound, a named one wherever it likes.
PathHopCapacity(dsl) ==
  Max({Cardinality(EdgePlaces(dsl))} \cup {o.max : o \in Operations(dsl, "variable_path")}
      \cup {99 : o \in Operations(dsl, "use_path_pattern")})

Stands(name) == IF name \in DOMAIN Surface THEN Surface[name] ELSE {}

CoveredBy(item) ==
  item.terms \cup Stands(item.alias)
  \cup CASE item.kind = "source" -> Stands(item.source.name)
         [] item.kind = "property" -> Stands(item.name)
         [] OTHER -> Stands("vertex_full")

MeasureProjected(items) ==
  \E x \in ToSet(items) : \/ x.kind = "source" /\ (x.source.ns \in {"measure", "metric"}
                                                   \/ "count" \in Marks(x.source.name))
                          \/ "count" \in Marks(x.alias)

HasCountMeasure(dsl) ==
  \E o \in ToSet(dsl.operations) :
    \/ o.op = "metric_aggregate" /\ "count" \in Marks(o.metric)
    \/ o.op \in {"aggregate", "subquery"} /\ \E m \in ToSet(o.measures) : m.function = "count"

\* A measure answers for the words of a quantity; a word that says nothing of its own needs no cover beside one that does.
UncoveredTerms(req, dsl) ==
  LET required == ToSet(req.projection)
      counts(t) == /\ MeasureProjected(dsl.projection)
                   /\ "quantity" \in Marks(t) \/ ("node_count" \in Marks(t) /\ HasCountMeasure(dsl))
      covered == {t \in required : counts(t) \/ \E x \in ToSet(dsl.projection) : t \in CoveredBy(x)}
      concrete == {t \in required : "generic" \notin Marks(t)}
  IN  (IF concrete \cap covered = {} THEN required ELSE concrete) \ covered

ProjectionMissing(req, dsl) ==
  CASE req.projection = <<>> -> {}
    [] req.projection # <<>> /\ dsl.projection = <<>> -> {"projection_required"}
    [] OTHER -> Code(UncoveredTerms(req, dsl) = {}, "projection_terms_uncovered")

OrderMissing(req, dsl) ==
  CASE ~req.order_by -> {}
    [] req.order_by /\ SortDirections(dsl) = {} -> {"order_by_required"}
    [] OTHER -> Code(req.direction \in SortDirections(dsl) \cup {None}, "order_by_direction_mismatch")

LimitMissing(req, dsl) ==
  CASE ~req.limit -> {}
    [] req.limit /\ LimitValues(dsl) = {} -> {"limit_required"}
    [] OTHER -> Code(req.value \in LimitValues(dsl) \cup {None}, "limit_value_mismatch")

MissingRequirements(req, dsl) ==
  Code(req.aggregate => HasAggregate(dsl), "aggregate_required")
  \cup Code(req.group_by => HasGroupBy(dsl), "group_by_required")
  \cup OrderMissing(req, dsl) \cup LimitMissing(req, dsl)
  \cup Code(PathHopCapacity(dsl) >= req.hops, "path_hops_insufficient")
  \cup ProjectionMissing(req, dsl)
===========================================================================
