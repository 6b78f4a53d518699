------------------------- MODULE LiteralResolution -------------------------
(* From the words a decomposition takes for values to literals: pipeline.py  *)
(* asks for a property of an owner for each of them, literals/ looks the     *)
(* value up there. A question has terms, what it says are literals (text,    *)
(* kind, attached), the candidates retrieval found, ranked, and the values   *)
(* retrieval recognised in it, of which none is the name of a vertex. Texts  *)
(* are compared as the code normalises them, and a value is known by a text. *)
EXTENDS CypherValidator

CONSTANTS
  NamesAt,       \* text to the vertices with a name that it is or that it begins with
  IdLike,        \* the texts that look like an id,
  IdPrefix,      \* and the text of an id to the vertices its prefix stands for
  IdHints,       \* the texts that name an id property
  HintsAt,       \* text to the <<owner, property>> whose names or evidence contain it, or it them
  OperatorOf,    \* the words for a comparison to its operator
  ValidValues,   \* <<owner, property>> to its values, where it is an enumeration
  SynonymOf,     \* <<owner, property>> to the value its other words stand for
  Displays,      \* text to the words that stand in it by themselves
  ValueIndex,    \* <<owner, property>> to the values the static index has
  Similarity,    \* <<text, text>> to how alike they are, in hundredths
  Numeral,       \* text to the number in it
  Period         \* text to the time before now that it is the name of

At(f, x, default) == IF x \in DOMAIN f THEN f[x] ELSE default

-----------------------------------------------------------------------------
(* The terms of the question.                                                  *)

\* Slots of which no term is a value.
StructuralSlots == {"limit", "order_by", "group_by", "path", "projection"}

HasStructuralSlot(terms, text) == \E t \in ToSet(terms) : t.text = text /\ t.slot \in StructuralSlots

AddTerm(terms, text, slot, attached) ==
  IF \E t \in ToSet(terms) : <<t.text, t.slot, t.attached>> = <<text, slot, attached>> THEN terms
  ELSE Append(terms, [text |-> text, slot |-> slot, attached |-> attached, position |-> None])

\* What a literal is attached to becomes a term, and so does the literal, unless it has a place already.
NormalizeTerms(terms, literals) ==
  FoldLeft(LAMBDA acc, l :
             LET named == IF l.attached = None THEN acc ELSE AddTerm(acc, l.attached, "unknown", None)
             IN  IF HasStructuralSlot(named, l.text) THEN named ELSE AddTerm(named, l.text, "filter", l.attached),
           terms, literals)

-----------------------------------------------------------------------------
(* The property a literal is looked up under.                                  *)

\* The texts of the filters that say which property is meant: one the literal is attached to, the last one
\* before it, one attached to the literal's owner.
PropertyHints(q, l) ==
  LET filters == OfSlot(q.terms, "filter")
      itself == {i \in DOMAIN filters : filters[i].text = l.text}
      before(i) == SelectSeq(SubSeq(filters, 1, i - 1), LAMBDA t : t.text # l.text /\ t.text \notin DOMAIN OperatorOf)
  IN  {filters[i].attached : i \in {j \in itself : filters[j].attached \notin {None, l.attached}}}
      \cup {Last(before(i)).text : i \in {j \in itself : filters[j].attached = None /\ before(j) # <<>>}}
      \cup {t.text : t \in {x \in ToSet(filters) : /\ x.text # l.text
                                                   /\ l.attached # None /\ x.attached = l.attached}}

CandidateVertices(q) == {c[2] : c \in {x \in q.candidates : x[1] = "vertex"}}

\* The one vertex of vs the question's path, filters and columns are about, if there is only one.
ContextVertices(q, vs) ==
  LET texts == {IF t.attached = None THEN t.text ELSE t.attached :
                  t \in {x \in ToSet(q.terms) : x.slot \in {"path", "filter", "projection"}}}
      owners == UNION {At(NamesAt, x, {}) \cap vs : x \in texts}
  IN  IF Cardinality(owners) = 1 THEN owners ELSE {}

LiteralOwners(q, l) ==
  LET attached == At(NamesAt, l.attached, {}) \cap CandidateVertices(q)
      context == ContextVertices(q, CandidateVertices(q))
  IN  IF attached # {} THEN attached ELSE IF context # {} THEN context ELSE ContextVertices(q, Vertices)

BestRanked(q, S) == LET ranked == SelectSeq(q.ranked, LAMBDA c : c \in S) IN IF ranked = <<>> THEN None ELSE ranked[1]

LooksLikeId(l) == l.kind = "id" \/ l.text \in IdLike

\* An id is looked up as the id of its owner, or of the vertex its prefix stands for, unless something else is meant.
IdOwner(q, l) ==
  LET vertices(owners) == {<<"vertex", v>> : v \in CandidateVertices(q) \cap owners}
      owned == vertices(LiteralOwners(q, l))
  IN  IF ~LooksLikeId(l) \/ ~(PropertyHints(q, l) \subseteq IdHints) THEN None
      ELSE BestRanked(q, IF owned # {} THEN owned ELSE vertices(At(IdPrefix, l.text, {})))

\* How well a property suits a literal, from fifty.
PropertyScore(l, hints, owners, p) ==
  LET values == At(ValidValues, p, {})
      points(holds, n) == IF holds THEN n ELSE 0
  IN  points(\E h \in hints : p \in At(HintsAt, h, {}), 120)
      + points(\E v \in values : v = l.text \/ v \in At(Displays, l.text, {}) \/ l.text \in At(Displays, v, {}), 100)
      + points(values # {} /\ l.kind \in {"enum_or_name", "unknown"}, 30)
      + points(p[1] \in owners, 25)
      + IF p[2] # "id" THEN 50 ELSE points(LooksLikeId(l), 55)

BestProperty(q, l) ==
  LET properties == {c \in q.candidates : c[1] = "property"}
      score(c) == PropertyScore(l, PropertyHints(q, l), LiteralOwners(q, l), <<c[2], c[3]>>)
      scores == [c \in properties |-> score(c)]
  IN  BestRanked(q, {c \in properties : \A d \in properties : scores[d] <= scores[c]})

Request(l, owner, property) == [raw |-> l.text, owner |-> owner, property |-> property, kind |-> l.kind]

\* A literal without any property to look it up under is dropped.
RequestsOf(q, l) ==
  LET ask(v, p) == CASE v # None -> <<Request(l, v[2], IdProperty[v[2]])>>
                     [] v = None /\ p # None -> <<Request(l, p[2], p[3])>>
                     [] OTHER -> <<>>
  IN  ask(IdOwner(q, l), BestProperty(q, l))

\* Only when the literals ask for nothing are the values retrieval recognised looked up.
ValueRequests(q) ==
  Unique(MapSeq(SelectSeq(q.recognised, LAMBDA r : /\ r.owner \in CandidateVertices(q)
                                                   /\ <<"property", r.owner, r.property>> \in q.candidates
                                                   /\ <<r.owner, r.property>> \in DOMAIN ValidValues),
                LAMBDA r : [raw |-> r.text, owner |-> r.owner, property |-> r.property, kind |-> "enum"]))

LiteralRequests(q) ==
  LET asked == FlattenSeq(MapSeq(SelectSeq(q.said, LAMBDA l : ~HasStructuralSlot(q.terms, l.text)),
                                 LAMBDA l : RequestsOf(q, l)))
  IN  IF asked # <<>> THEN asked ELSE ValueRequests(q)

-----------------------------------------------------------------------------
(* LiteralResolver.resolve.                                                    *)

ExactValidValue(r, p) == IF r.raw \in At(ValidValues, p, {}) THEN r.raw ELSE None

ValueSynonym(r, p) == At(At(SynonymOf, p, <<>>), r.raw, None)

\* The one value that stands in the literal's text by its own or another word.
ContainedValidValue(r, p) ==
  OnlyMember({v \in At(ValidValues, p, {}) :
                \E word \in At(Displays, r.raw, {}) \ {r.raw} : v \in {word, At(At(SynonymOf, p, <<>>), word, None)}})

\* A time before now is read as one whatever the property, if that is what the question says it is.
TypedParse(r, p) ==
  IF r.kind = "datetime" /\ r.raw \in DOMAIN Period THEN Period[r.raw]
  ELSE IF p \in Numeric THEN At(Numeral, r.raw, None) ELSE None

\* The values that are at least half like the literal.
NearValues(r, p) ==
  LET known == IF At(ValidValues, p, {}) # {} THEN ValidValues[p]
               ELSE IF p \in Textual THEN At(ValueIndex, p, {}) ELSE {}
  IN  {v \in known : At(Similarity, <<r.raw, v>>, 0) >= 50}

\* Of an enumeration nothing is guessed; else the nearest value is taken if no other is near.
FuzzyText(r, p) ==
  LET alike(v) == Similarity[<<r.raw, v>>]
  IN  IF At(ValidValues, p, {}) # {} THEN None
      ELSE OnlyMember({v \in NearValues(r, p) : /\ alike(v) >= 95
                                                  /\ \A o \in NearValues(r, p) \ {v} : alike(o) + 10 <= alike(v)})

ValueIndexExact(r, p) == IF r.raw \in At(ValueIndex, p, {}) THEN r.raw ELSE None

Passthrough(r, p) == IF p \in Textual /\ At(ValidValues, p, {}) = {} THEN r.raw ELSE None

Resolution(match, value) == IF value = None THEN None ELSE [match |-> match, value |-> value]
Unresolved == [match |-> "unresolved", value |-> None]

\* An id is one of the index or is taken as it is. Another literal that is like a value but not enough is ambiguous,
\* even where the index has it.
ResolveRequest(r) ==
  LET p == <<r.owner, r.property>>
      indexed == <<Resolution("value_index_exact", ValueIndexExact(r, p)),
                   Resolution("literal_passthrough", Passthrough(r, p)), Unresolved>>
      isId == IF r.owner \in Vertices THEN r.property = IdProperty[r.owner] ELSE r.property = "id"
      read == <<Resolution("exact", ExactValidValue(r, p)), Resolution("value_synonym", ValueSynonym(r, p)),
                Resolution("exact", ContainedValidValue(r, p)), Resolution("typed_parse", TypedParse(r, p)),
                Resolution("fuzzy_text", FuzzyText(r, p))>>
  IN  CASE ~HasProperty(r.owner, r.property) -> Unresolved
        [] HasProperty(r.owner, r.property) /\ isId -> FirstFound(indexed)
        [] OTHER -> FirstFound(read \o (IF NearValues(r, p) = {} THEN indexed ELSE <<Unresolved>>))

\* The parameters of the path patterns are texts.
LiteralOf(r) ==
  LET found == ResolveRequest(r)
  IN  [raw |-> r.raw, value |-> found.value, owner |-> r.owner, property |-> r.property, match |-> found.match,
       typed |-> found.match # "typed_parse"]

Literals(q) == MapSeq(LiteralRequests(q), LiteralOf)

-----------------------------------------------------------------------------
(* How a literal compares: as the one word for a comparison among the filters  *)
(* says, or None if they say more than one.                                    *)
FilterOperator(terms, l) ==
  LET said == {OperatorOf[t.text] : t \in {x \in ToSet(OfSlot(terms, "filter")) :
                                             x.text \in DOMAIN OperatorOf \ {l.raw, l.property}}}
  IN  IF said = {} THEN "eq" ELSE OnlyMember(said)
============================================================================
