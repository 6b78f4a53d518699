-------------------------- MODULE AssemblyRequests --------------------------
(* What core/pipeline.py asks the assemblers for besides: what a count        *)
(* counts, what its groups are, which properties must be there. A question    *)
(* also has the texts it uses as "those with such a property" (owned), and    *)
(* whether it joins two wishes with an "and" (joined). The marks of a text    *)
(* are number and total (it asks how many), property_word and filler (such as *)
(* "field" or "instance"), noise, and present.                                *)
EXTENDS ProjectionTerms

-----------------------------------------------------------------------------
(* What a count of one vertex counts. v is the vertex.                         *)

CountAsked(q) == q.intent = "count" \/ q.output_shape = "scalar"

OwnedPhrase(q) == \E t \in ToSet(Filtering(q)) : t.text \in q.owned

\* The words that ask how many of the vertex there are.
EntityTexts(q, v) ==
  LET counts(t) == /\ Is(t, "number")
                   /\ OwnedPhrase(q) => Is(t, "total")
                   /\ t.attached # None /\ ObjectOwner(t.attached, <<v>>) = v
      alone(t) == q.joined /\ Is(t, "number") /\ Is(t, "total") /\ t.attached = None
      attached == {t \in ToSet(Projected(q)) : counts(t)}
  IN  {t.text : t \in IF attached # {} THEN attached ELSE {x \in ToSet(Projected(q)) : alone(x)}}

\* The words how many that are attached to a property.
CountedTerms(q, v) ==
  SelectSeq(Projected(q), LAMBDA t : /\ Is(t, "number") /\ t.attached # None
                                     /\ ObjectOwner(t.attached, <<v>>) = None /\ RefAttached(t, <<v>>) # None)

\* A count's words that name a property, if they all name one.
ImpliedTerms(q, v) ==
  LET named(t) == /\ ~IsAny(t, {"number", "noise", "filler", "property_word"})
                  /\ ObjectOwner(t.text, <<v>>) = None /\ RefOf(t, <<v>>) # None
      found == SelectSeq(Projected(q) \o (IF OwnedPhrase(q) THEN Filtering(q) ELSE <<>>), named)
  IN  IF CountAsked(q) /\ Cardinality({RefOf(t, <<v>>) : t \in ToSet(found)}) = 1 THEN found ELSE <<>>

\* What may be counted besides: the words themselves, and those a word such as "field" is attached to.
CandidateTerms(q, v) ==
  LET spread(t) == IF Is(t, "property_word") /\ t.attached # None
                   THEN <<t, [t EXCEPT !.text = t.attached, !.attached = None]>> ELSE <<t>>
  IN  SelectSeq(FlattenSeq(MapSeq(Projected(q) \o Filtering(q), spread)),
                LAMBDA t : /\ ~IsAny(t, {"number", "noise", "property_word", "present"})
                           /\ ObjectOwner(t.text, <<v>>) = None /\ RefOf(t, <<v>>) # None)

\* The words that ask how many, those of other properties left out.
NumberTexts(q, v, ref) ==
  LET all == {t.text : t \in {x \in ToSet(Projected(q)) : IsAny(x, {"number", "filler", "property_word"})}}
      its == {t.text : t \in {x \in ToSet(Projected(q)) :
                                Is(x, "number") /\ (x.attached = None \/ RefAttached(x, <<v>>) = ref)}}
  IN  IF its # {} THEN its ELSE all

PropertyWords(q) == SelectSeq(Projected(q) \o Filtering(q), LAMBDA t : Is(t, "property_word"))

PropertyMeasure(q, v, ref, texts) ==
  [function |-> "count", owner |-> v, name |-> ref[2], alias |-> SnakeCase[v] \o "_" \o ref[2] \o "_count",
   terms |-> texts \cup NumberTexts(q, v, ref)]

\* A property is counted if a word how many is attached to it; or if it is the only one there is, and a word for
\* properties or the intent says that one is.
CountedProperty(q, v) ==
  LET counted == CountedTerms(q, v)
      words == {t \in ToSet(PropertyWords(q)) : t.attached # None /\ RefAttached(t, <<v>>) # None}
      implied == ImpliedTerms(q, v)
      found == CandidateTerms(q, v) \o implied
      refs == IF counted # <<>> THEN {RefAttached(t, <<v>>) : t \in ToSet(counted)}
              ELSE {RefOf(t, <<v>>) : t \in ToSet(found)}
      asked == \/ \E t \in ToSet(Projected(q)) : IsAny(t, {"number", "filler", "property_word"})
               \/ CountAsked(q) /\ (implied # <<>> \/ \E t \in ToSet(Filtering(q)) : Is(t, "present"))
      ref == OnlyMember(refs)
  IN  CASE ref = None -> None
        [] ref # None /\ counted # <<>> ->
             PropertyMeasure(q, v, ref, {t.attached : t \in ToSet(counted)}
                                        \cup {t.text : t \in {x \in words : RefAttached(x, <<v>>) = ref}})
        [] ref # None /\ counted = <<>> /\ asked /\ (PropertyWords(q) # <<>> \/ implied # <<>>) ->
             PropertyMeasure(q, v, ref, {Head(found).text} \cup {t.text : t \in ToSet(PropertyWords(q))})
        [] OTHER -> None

\* None for a plain count; how many there are goes before how many have the property.
MeasuresFor(v, property, texts) ==
  LET own == {x \in property.terms \ texts : "filler" \in Marks(x) => "property_word" \in Marks(x)}
      entity == [function |-> "count", owner |-> None, name |-> None, alias |-> SnakeCase[v] \o "_count", terms |-> texts]
  IN  CASE property = None -> <<>>
        [] property # None /\ texts = {} -> <<property>>
        [] OTHER -> <<entity, IF own = {} THEN property ELSE [property EXCEPT !.terms = own]>>

CountMeasures(q, v) == MeasuresFor(v, CountedProperty(q, v), EntityTexts(q, v))

-----------------------------------------------------------------------------
(* The properties that must be there: by a word such as "present" and, if a    *)
(* count is of those with such a property, by that.                            *)

PresentProperties(q, v, measures) ==
  LET filters == Filtering(q)
      before(i) == SelectSeq(SubSeq(filters, 1, i - 1), LAMBDA t : /\ ~IsAny(t, {"present", "property_word"})
                                                                  /\ t.text \notin DOMAIN OperatorOf)
      subject(i) == IF filters[i].attached # None THEN filters[i].attached
                    ELSE IF before(i) = <<>> THEN None ELSE Last(before(i)).text
      counted == {<<m.owner, m.name>> : m \in ToSet(measures)}
      present(i) == IF Is(filters[i], "present") /\ subject(i) # None THEN PropertyRef(subject(i), None, <<v>>) ELSE None
      owned(t) == IF t.text \in q.owned /\ Len(measures) < 2 /\ RefOf(t, <<v>>) \notin counted
                  THEN RefOf(t, <<v>>) ELSE None
      refs == [i \in DOMAIN filters |-> present(i)] \o MapSeq(filters, owned)
  IN  Unique(MapSeq(SelectSeq(refs, LAMBDA r : r # None), LAMBDA r : r[2]))

-----------------------------------------------------------------------------
(* The group and the count along a path.                                       *)

GroupItem(t, selected) ==
  LET ref == RefOf(t, selected)
  IN  [owner |-> ref[1], name |-> ref[2], alias |-> SnakeCase[ref[1]] \o "_" \o ref[2], terms |-> {t.text}]

\* What the words for the group name, or else the one property that is to be returned.
GroupBy(q, selected) ==
  LET named(terms) == SelectSeq(terms, LAMBDA t : RefOf(t, selected) # None)
      groups == MapSeq(named(OfSlot(q.terms, "group_by")), LAMBDA t : GroupItem(t, selected))
      firsts == FoldLeft(LAMBDA acc, g : IF \E o \in ToSet(acc) : <<o.owner, o.name>> = <<g.owner, g.name>>
                                         THEN acc ELSE Append(acc, g), <<>>, groups)
      returned == {GroupItem(t, selected) :
                     t \in ToSet(named(SelectSeq(Projected(q), LAMBDA t : ~IsAny(t, {"noise", "number"}))))}
  IN  CASE groups # <<>> -> firsts
        [] groups = <<>> /\ Cardinality(returned) = 1 -> <<OnlyMember(returned)>>
        [] OTHER -> <<>>

\* What is counted: what the words how many are about, else what is returned, else what is grouped by.
CountOwner(q, selected, groups) ==
  LET numbers == {t \in ToSet(Projected(q) \o OfSlot(q.terms, "order_by")) : Is(t, "number")}
      about == (UNION {At(NamesAt, t.attached, {}) \cup At(NamesAt, t.text, {}) : t \in numbers}) \cap ToSet(selected)
      returned == {ObjectOwner(t.text, selected) :
                     t \in {x \in ToSet(Projected(q)) : ~IsAny(x, {"number", "noise", "filler"})}} \ {None}
      owners == SelectSeq(<<about, returned, {g.owner : g \in ToSet(groups)}>>, LAMBDA S : S # {})
  IN  IF owners = <<>> THEN None ELSE OnlyMember(Head(owners))

PathMeasures(q, selected, groups) ==
  LET owner == CountOwner(q, selected, groups)
      texts == {t.text : t \in {x \in ToSet(Projected(q) \o OfSlot(q.terms, "order_by")) : Is(x, "number")}}
  IN  IF owner = None \/ texts = {} THEN <<>>
      ELSE <<[function |-> "count", owner |-> owner, name |-> IdProperty[owner], alias |-> SnakeCase[owner] \o "_count",
              terms |-> texts]>>
=============================================================================
