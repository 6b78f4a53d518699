--------------------------- MODULE AssemblyProofs ---------------------------
(* What a query keeps of its question, for every graph model, dictionary of  *)
(* words, set of candidates and answer of the LLM.                           *)
(*                                                                           *)
(* That an assembled path does not guess. A step of a path takes an edge that *)
(* the words of its context mean or the only one there is among the          *)
(* candidates (StepIsMeant); the context is a part of the question's words    *)
(* (PathEdgeIsMeant); the edges of the DSL are those of the path's steps      *)
(* (AssembledEdges). AssembledInv carries it to the runs: a DSL that comes    *)
(* without a second call of the LLM is the one Assemble makes of the question *)
(* as it is then, for nothing changes the question any more.                  *)
(*                                                                           *)
(* That what the wording requires reaches the query. The gate looks at the    *)
(* operations of the DSL, the compiler at one operation of each kind: the     *)
(* parser lets no kind but the edges come twice (AllowedSequences), and each  *)
(* form takes order, limit, columns and edges from that one (the Clauses      *)
(* lemmas). Two of the forms drop an order and a limit: no DSL of theirs has  *)
(* one (Shaped), which is the builder's doing and the assemblers'             *)
(* (BuiltIsShaped, AssembledIsShaped) and not the parser's. ReachInv carries  *)
(* it to the runs.                                                            *)
(*                                                                           *)
(* That what is assembled is compiled. The assemblers do not check their DSL: *)
(* each part of it is right by how it is made (Accepted). A path's edges join *)
(* its vertices (PlanIsWalked) and its roles, named by number, are bound to   *)
(* them (RolesOfPath), so that an owner's role is bound to the owner          *)
(* (PathIsOwn); the properties are some retrieval found, or there is one of   *)
(* the name (UniquePropertyIsKnown, OwnedIsKnown); the limit is a number the  *)
(* words give (LimitIsPositive); and what is measured along a path is a count *)
(* (PathIsCounted), which any property stands.                                *)
(*                                                                           *)
(* That the query says what is bound. A condition or a column is written with *)
(* the variable its role has, and the query knows the variable's label by the *)
(* pattern: each role a form looks up has a node (RolesReached), labelled     *)
(* with what the role is bound to, and that is the owner the parser has held  *)
(* the condition and the column against (CompiledSays, from Worded). The      *)
(* binder takes no literal but one of the condition's own property            *)
(* (LiteralIsOwn), and the builder drops no condition (BuiltKeeps). BoundInv  *)
(* carries it to the runs.                                                    *)
EXTENDS TranslationProofs

-----------------------------------------------------------------------------
(* An assembled path does not guess: one step.                                 *)

LEMMA OnlyMemberIsIn ==
    ASSUME NEW S, OnlyMember(S) # None
    PROVE  OnlyMember(S) \in S
<1>1. Cardinality(S) = 1 /\ OnlyMember(S) = CHOOSE x \in S : TRUE  BY DEF OnlyMember
<1>2. S # {}  BY <1>1, FS_EmptySet
<1> QED  BY <1>1, <1>2

LEMMA OnlyMemberIsAlone ==
    ASSUME NEW S, IsFiniteSet(S), OnlyMember(S) # None
    PROVE  S = {OnlyMember(S)}
<1>1. Cardinality(S) = 1  BY DEF OnlyMember
<1>2. PICK x : S = {x}  BY <1>1, FS_Singleton
<1> QED  BY <1>2, OnlyMemberIsIn

Joins(e, start, end) == {From[e], To[e]} = {start, end}

\* One of the edges that joins the two vertices, which the words mean or which is the only one.
Meant(edges, start, end, context, e) ==
    /\ e \in edges /\ Joins(e, start, end)
    /\ e \in DirectionEdges(context) \/ \A x \in edges : Joins(x, start, end) => x = e

(* The edge of a step is meant by the words, or there is no other. *)
LEMMA StepIsMeant ==
    ASSUME NEW edges, IsFiniteSet(edges), NEW start, NEW end, NEW context,
           StepEdge(edges, start, end, context) # None
    PROVE  Meant(edges, start, end, context, StepEdge(edges, start, end, context))
<1> DEFINE e == StepEdge(edges, start, end, context)
           connecting == {x \in edges : {From[x], To[x]} = {start, end}}
           meant == DirectionEdges(context)
           meantHere == {x \in meant : {From[x], To[x]} = {start, end}}
<1>1. IsFiniteSet(connecting)  BY FS_Subset
<1>2. \/ e = OnlyMember(meantHere) /\ meantHere \subseteq connecting
      \/ e \in {None, OnlyMember(connecting), OnlyMember(connecting \cap meant)}
  <2>1. e = CASE connecting = {} -> None
              [] connecting # {} /\ Cardinality(meant) > 1 ->
                   CASE Cardinality(meantHere) = 1 /\ meantHere \subseteq connecting -> OnlyMember(meantHere)
                     [] meantHere = {} -> OnlyMember(connecting)
                     [] OTHER -> None
              [] connecting # {} /\ Cardinality(meant) <= 1 /\ Cardinality(connecting) = 1 ->
                   IF meantHere \subseteq connecting THEN OnlyMember(connecting) ELSE None
              [] OTHER -> OnlyMember(connecting \cap meant)
    BY Zenon DEF StepEdge
  <2> HIDE DEF e, connecting, meant, meantHere
  <2> QED  BY <2>1
<1>3. CASE e = OnlyMember(meantHere) /\ meantHere \subseteq connecting
  BY <1>3, OnlyMemberIsIn DEF Meant, Joins
<1>4. CASE e = OnlyMember(connecting)
  <2>1. connecting = {e}  BY <1>1, <1>4, OnlyMemberIsAlone
  <2> QED  BY <2>1 DEF Meant, Joins
<1>5. CASE e = OnlyMember(connecting \cap meant)  BY <1>5, OnlyMemberIsIn DEF Meant, Joins
<1> QED  BY <1>2, <1>3, <1>4, <1>5

(* The only candidate for a step is the only one retrieval found. *)
LEMMA AloneAmongCandidates ==
    ASSUME NEW candidates, NEW start, NEW end, NEW context, NEW e,
           Meant(MultihopEdges(candidates), start, end, context, e)
    PROVE  \/ e \in DirectionEdges(context)
           \/ \A x \in Alternatives(e) : <<"edge", x>> \notin candidates
<1> SUFFICES ASSUME e \notin DirectionEdges(context),
                    NEW x \in Alternatives(e), <<"edge", x>> \in candidates
             PROVE  FALSE
  OBVIOUS
<1>1. /\ e \in MultihopEdges(candidates) /\ Joins(e, start, end)
      /\ \A y \in MultihopEdges(candidates) : Joins(y, start, end) => y = e
  BY DEF Meant
<1>2. x # e /\ {From[x], To[x]} = {From[e], To[e]}  BY DEF Alternatives
<1>3. x \in NamesOf(candidates, "edge")
  <2>1. <<"edge", x>> \in {c \in candidates : c[1] = "edge"}  OBVIOUS
  <2>2. x = <<"edge", x>>[2]  OBVIOUS
  <2> QED  BY <2>1, <2>2 DEF NamesOf
<1>4. x \in MultihopEdges(candidates)  BY <1>1, <1>2, <1>3 DEF MultihopEdges
<1> QED  BY <1>1, <1>2, <1>4 DEF Joins

-----------------------------------------------------------------------------
(* The path.                                                                   *)

LEMMA SegmentIsContext ==
    ASSUME NEW path, NEW start, NEW end
    PROVE  /\ SegmentContext(path, start, end) \in Contexts(path, {start, end})
           /\ FirstMention(path, start) # None => TailContext(path, start) \in Contexts(path, {start, end})
<1> DEFINE from == {FirstMention(path, v) : v \in {start, end}} \ {None}
<1>1. /\ FirstMention(path, start) # None => FirstMention(path, start) \in from
      /\ FirstMention(path, end) # None => FirstMention(path, end) \in from
  OBVIOUS
<1>2. \A i \in from, j \in from \cup {Len(path)} : SubSeq(path, i, j) \in Parts(path, from)
  <2> SUFFICES ASSUME NEW i \in from, NEW j \in from \cup {Len(path)} PROVE SubSeq(path, i, j) \in Parts(path, from)
    OBVIOUS
  <2>1. <<i, j>> \in from \X (from \cup {Len(path)}) /\ i = <<i, j>>[1] /\ j = <<i, j>>[2]  OBVIOUS
  <2>2. SubSeq(path, i, j) \in {SubSeq(path, p[1], p[2]) : p \in from \X (from \cup {Len(path)})}  BY <2>1
  <2> QED  BY <2>2 DEF Parts
<1>3. path \in Parts(path, from)  BY DEF Parts
<1>4. SegmentContext(path, start, end) \in Parts(path, from)  BY <1>1, <1>2, <1>3 DEF SegmentContext
<1>5. FirstMention(path, start) # None => TailContext(path, start) \in Parts(path, from)
  BY <1>1, <1>2 DEF TailContext
<1> QED  BY <1>4, <1>5 DEF Contexts

LEMMA ExtensionIsContext ==
    ASSUME NEW edges, NEW path, NEW start, NEW end, ExtensionContext(edges, path, start, end) # None
    PROVE  ExtensionContext(edges, path, start, end) \in Contexts(path, {start, end})
<1> DEFINE contexts == <<SegmentContext(path, start, end),
                         IF FirstMention(path, start) = None THEN path ELSE TailContext(path, start), <<>>>>
           enough == {i \in 1..3 : StepEdge(edges, start, end, contexts[i]) # None}
<1>1. enough # {} /\ ExtensionContext(edges, path, start, end) = contexts[Min(enough)]
  BY DEF ExtensionContext
<1>2. Min(enough) \in 1..3
  <2>1. PICK k \in enough : \A j \in enough : k <= j  BY <1>1
  <2> QED  BY <2>1 DEF Min
<1>3. \A i \in 1..3 : contexts[i] \in Contexts(path, {start, end})
  <2>1. path \in Contexts(path, {start, end}) /\ <<>> \in Contexts(path, {start, end})  BY DEF Contexts, Parts
  <2> QED  BY <2>1, SegmentIsContext
<1> QED  BY <1>1, <1>2, <1>3

\* What the walked edges of an assembled DSL are like.
IsMeant(candidates, path, e) ==
    \/ \E words \in Contexts(path, {From[e], To[e]}) : e \in DirectionEdges(words)
    \/ \A other \in Alternatives(e) : <<"edge", other>> \notin candidates

LEMMA PathEdgeIsMeant ==
    ASSUME NEW candidates, IsFiniteSet(MultihopEdges(candidates)), NEW path, NEW vertices, NEW known, NEW i,
           PathEdge(MultihopEdges(candidates), path, vertices, known, i) # None
    PROVE  IsMeant(candidates, path, PathEdge(MultihopEdges(candidates), path, vertices, known, i))
<1> DEFINE edges == MultihopEdges(candidates)
           start == vertices[i]
           end == vertices[i + 1]
           context == IF i < known THEN SegmentContext(path, start, end) ELSE ExtensionContext(edges, path, start, end)
           e == PathEdge(edges, path, vertices, known, i)
<1>1. context # None /\ e = StepEdge(edges, start, end, context)  BY DEF PathEdge
<1>2. context \in Contexts(path, {start, end})  BY <1>1, SegmentIsContext, ExtensionIsContext
<1>3. Meant(edges, start, end, context, e)  BY <1>1, StepIsMeant
<1>4. {start, end} = {From[e], To[e]}  BY <1>3 DEF Meant, Joins
<1>5. e \in DirectionEdges(context) \/ \A x \in Alternatives(e) : <<"edge", x>> \notin candidates
  BY <1>3, AloneAmongCandidates
<1> QED  BY <1>2, <1>4, <1>5 DEF IsMeant

-----------------------------------------------------------------------------
(* The DSL.                                                                    *)

LEMMA EdgesOfThePlan ==
    ASSUME NEW w, NEW candidates, IsFiniteSet(MultihopEdges(candidates)), PathPlan(w, candidates) # None,
           NEW i \in DOMAIN PathPlan(w, candidates).edges
    PROVE  IsMeant(candidates, PathTexts(w.terms), PathPlan(w, candidates).edges[i])
<1> DEFINE path == PathTexts(w.terms)
           edges == MultihopEdges(candidates)
           mentioned == OrderedVertices(candidates, path)
           vertices == ExtendPath(w, edges, candidates, path, mentioned)
           steps == [k \in 1..Len(vertices) - 1 |-> PathEdge(edges, path, vertices, Len(mentioned), k)]
<1>1. PathPlan(w, candidates) = [vertices |-> vertices, edges |-> steps] /\ \A k \in DOMAIN steps : steps[k] # None
  BY DEF PathPlan
<1>2. PathPlan(w, candidates).edges = steps  BY <1>1
<1>3. steps[i] # None /\ steps[i] = PathEdge(edges, path, vertices, Len(mentioned), i)  BY <1>1, <1>2
<1> QED  BY <1>2, <1>3, PathEdgeIsMeant

LEMMA EdgesOfThePath ==
    ASSUME NEW shape, NEW p, NEW tail, NEW filters, NEW projection,
           NEW e \in Walked(PathDsl(shape, p, tail, filters, projection))
    PROVE  \E i \in DOMAIN p.edges : e = p.edges[i]
<1> DEFINE roles == {EdgeName(i) : i \in DOMAIN p.edges}
           d == PathDsl(shape, p, tail, filters, projection)
<1>1. d.edgeRoles = [r \in roles |-> p.edges[CHOOSE i \in DOMAIN p.edges : EdgeName(i) = r]]
  BY DEF PathDsl
<1>2. PICK r \in roles : e = p.edges[CHOOSE i \in DOMAIN p.edges : EdgeName(i) = r]
  <2>1. PICK r \in DOMAIN d.edgeRoles : e = d.edgeRoles[r]  BY DEF Walked
  <2> QED  BY <1>1, <2>1
<1>3. \E i \in DOMAIN p.edges : EdgeName(i) = r  BY <1>2
<1> QED  BY <1>2, <1>3

LEMMA EdgesOfZeroHop ==
    ASSUME NEW w, NEW req, NEW candidates, NEW family, NEW v, AssembleZeroHop(w, req, candidates, family, v) # None
    PROVE  Walked(AssembleZeroHop(w, req, candidates, family, v)) = {}
<1>1. \A shape, vertex, operations, filters, projection :
        Walked(ZeroHopDsl(shape, vertex, operations, filters, projection)) = {}
  BY DEF Walked, ZeroHopDsl, NoRoles
<1>2. \A vertex, properties : AssembleF1(w, req, vertex, properties) # None
        => Walked(AssembleF1(w, req, vertex, properties)) = {}
  BY <1>1 DEF AssembleF1
<1>3. \A vertex, properties : AssembleF2(w, req, vertex, properties) # None
        => Walked(AssembleF2(w, req, vertex, properties)) = {}
  BY <1>1, Zenon DEF AssembleF2
<1>4. \A vertex, properties : AssembleF3(w, vertex, properties) # None
        => Walked(AssembleF3(w, vertex, properties)) = {}
  BY <1>1, Zenon DEF AssembleF3
<1> QED  BY <1>2, <1>3, <1>4 DEF AssembleZeroHop

LEMMA EdgesOfMultihop ==
    ASSUME NEW w, NEW req, NEW candidates, NEW family, AssembleMultihop(w, req, candidates, family) # None,
           NEW e \in Walked(AssembleMultihop(w, req, candidates, family))
    PROVE  /\ PathPlan(w, candidates) # None
           /\ \E i \in DOMAIN PathPlan(w, candidates).edges : e = PathPlan(w, candidates).edges[i]
<1> DEFINE p == PathPlan(w, candidates)
           properties == MultihopProperties(candidates)
           d == AssembleMultihop(w, req, candidates, family)
<1>1. AssembleF4(w, p, properties) # None =>
        \E filters, projection : AssembleF4(w, p, properties) = PathDsl("single_hop_traversal", p, <<>>, filters, projection)
  BY Zenon DEF AssembleF4
<1>2. AssembleF5(w, p, properties) # None =>
        \E filters, projection : AssembleF5(w, p, properties) = PathDsl("single_hop_traversal", p, <<>>, filters, projection)
  BY Zenon DEF AssembleF5
<1>3. AssembleF6(w, req, p, properties) # None =>
        \E tail, projection : AssembleF6(w, req, p, properties) = PathDsl("top_n", p, tail, <<>>, projection)
  BY Zenon DEF AssembleF6
<1>4. /\ p # None
      /\ d \in {AssembleF4(w, p, properties), AssembleF5(w, p, properties), AssembleF6(w, req, p, properties)}
  BY DEF AssembleMultihop
<1>5. \E shape, tail, filters, projection : d = PathDsl(shape, p, tail, filters, projection)
  BY <1>1, <1>2, <1>3, <1>4
<1> QED  BY <1>4, <1>5, EdgesOfThePath

(* What is asked of the assemblers leaves the words of the path as they are. *)
LEMMA RequestKeepsTerms ==
    ASSUME NEW w, NEW req, NEW family, NEW vertices
    PROVE  RequestFor(w, req, family, vertices).terms = w.terms
BY DEF RequestFor, RequestWith

LEMMA AssembledEdges ==
    ASSUME NEW w, NEW req, NEW candidates, IsFiniteSet(MultihopEdges(candidates)),
           Assemble(w, req, candidates) # None, NEW e \in Walked(Assemble(w, req, candidates))
    PROVE  IsMeant(candidates, PathTexts(w.terms), e)
<1> DEFINE family == Family(w, req)
           request == RequestFor(w, req, family, SelectedVertices(w, req, candidates, family))
           vertex == OnlyMember(ZeroHopVertices(w, req, candidates))
           d == Assemble(w, req, candidates)
<1>1. \/ d = AssembleZeroHop(request, req, candidates, family, vertex)
      \/ d = AssembleMultihop(request, req, candidates, family)
  BY DEF Assemble, AssembleFamily, AssembleRequest
<1>2. CASE d = AssembleZeroHop(request, req, candidates, family, vertex)
  <2> HIDE DEF request, vertex, family
  <2> QED  BY <1>2, EdgesOfZeroHop
<1>3. CASE d = AssembleMultihop(request, req, candidates, family)
  <2>1. request.terms = w.terms  BY RequestKeepsTerms
  <2> HIDE DEF request, vertex, family
  <2>2. PICK i \in DOMAIN PathPlan(request, candidates).edges :
          /\ PathPlan(request, candidates) # None
          /\ e = PathPlan(request, candidates).edges[i]
    BY <1>3, EdgesOfMultihop
  <2> QED  BY <2>1, <2>2, EdgesOfThePlan
<1> QED  BY <1>1, <1>2, <1>3

-----------------------------------------------------------------------------
(* The runs.                                                                   *)

BeforeDecomposition == {"client", "graph_model_loader", "input_clarification_gate", "question_decomposer"}
BeforeDsl == {"candidate_retrieval", "candidate_reranker", "literal_resolver", "deterministic_assembler",
              "grounded_understanding"}
AfterAnswer == {"semantic_binder", "semantic_validator", "dsl_builder"}

AssembledInv ==
    /\ "candidates" \in DOMAIN question /\ \E q \in Questions : question.candidates = q.candidates
    /\ step \in BeforeDecomposition => calls = 0 /\ dsl = None
    /\ step \in BeforeDsl => calls = 1 /\ dsl = None
    /\ step \in AfterAnswer => calls = 2
    /\ Assembled => dsl = Assemble(question, Required, question.candidates)

LEMMA FailureEnds ==
    ASSUME NEW stages, NEW reason
    PROVE  /\ P!Failure(stages, reason) => step' = "done"
           /\ P!Unexpected(stages) => step' = "done"
           /\ P!Clarification(stages) => step' = "done"
           /\ P!Finish(stages, "generated", reason) => step' = "done"
BY DEF P!Failure, P!Fail, P!Unexpected, P!Clarification, P!Finish

(* From the DSL on a run only goes on or ends. *)
LEMMA DslStays ==
    ASSUME AssembledInv, UNCHANGED <<question, calls, dsl>>,
           step' \notin BeforeDecomposition \cup BeforeDsl \cup AfterAnswer
    PROVE  AssembledInv'
BY DEF AssembledInv, Assembled, Required

LEMMA AssembledStep ==
    ASSUME AssembledInv, [Next]_vars
    PROVE  AssembledInv'
<1> USE DEF BeforeDecomposition, BeforeDsl, AfterAnswer
<1>1. CASE Prepare
  <2>1. UNCHANGED <<question, dsl, calls>>
    BY <1>1 DEF Prepare, P!BuildClient, P!RunStage, work
  <2>2. \/ step \in BeforeDecomposition \ {"question_decomposer"} /\ step' \in BeforeDecomposition
        \/ step \in {"candidate_retrieval", "candidate_reranker"} /\ step' \in BeforeDsl
    BY <1>1 DEF Prepare, P!BuildClient, P!RunStage, P!Continue, P!After
  <2> QED  BY <2>1, <2>2 DEF AssembledInv, Assembled, Required
<1>2. CASE Decompose
  <2>1. /\ step' = "candidate_retrieval" /\ calls' = 1 /\ dsl' = None
        /\ question' = [question EXCEPT !.terms = NormalizeTerms(@, question.said)]
    BY <1>2 DEF Decompose, P!Continue, AssembledInv, work
  <2>2. DOMAIN question' = DOMAIN question /\ question'.candidates = question.candidates
    BY <2>1 DEF AssembledInv
  <2> QED  BY <2>1, <2>2 DEF AssembledInv, Assembled
<1>3. CASE ResolveLiterals
  <2>1. /\ step = "literal_resolver" /\ calls' = calls /\ dsl' = dsl
        /\ question' = [question EXCEPT !.literals = Literals(question)]
    BY <1>3 DEF ResolveLiterals, work
  <2>2. step' \in {"repair_controller", "done", "deterministic_assembler"}
    BY <1>3, FailureEnds DEF ResolveLiterals, P!Continue
  <2>3. DOMAIN question' = DOMAIN question /\ question'.candidates = question.candidates
    BY <2>1 DEF AssembledInv
  <2> QED  BY <2>1, <2>2, <2>3 DEF AssembledInv, Assembled
<1>4. CASE AssembleDsl
  <2>1. /\ step = "deterministic_assembler" /\ UNCHANGED <<question, calls>>
        /\ dsl' = Assemble(question, Required, question.candidates)
        /\ step' = IF dsl' = None THEN "grounded_understanding" ELSE "dsl_parser"
    BY <1>4 DEF AssembleDsl, Go, P!Continue
  <2> QED  BY <2>1 DEF AssembledInv, Assembled, Required
<1>5. CASE Understand
  <2>1. step = "grounded_understanding" /\ calls' = calls + 1 /\ UNCHANGED <<question, dsl>>
    BY <1>5 DEF Understand
  <2>2. step' \in {"done", "semantic_binder"}  BY <1>5, FailureEnds DEF Understand, P!Continue
  <2> QED  BY <2>1, <2>2 DEF AssembledInv, Assembled
<1>6. CASE BindUnderstanding
  <2>1. step = "semantic_binder" /\ UNCHANGED <<question, calls, dsl>>
    BY <1>6 DEF BindUnderstanding, Go, Stop, work
  <2>2. step' \in {"done", "semantic_validator"}  BY <1>6, FailureEnds DEF BindUnderstanding, Go, Stop, P!Continue
  <2> QED  BY <2>1, <2>2 DEF AssembledInv, Assembled
<1>7. CASE ValidatePlan
  <2>1. step = "semantic_validator" /\ UNCHANGED <<question, calls, dsl>>  BY <1>7 DEF ValidatePlan, work
  <2>2. step' \in {"repair_controller", "dsl_builder"}  BY <1>7 DEF ValidatePlan, P!Continue
  <2> QED  BY <2>1, <2>2 DEF AssembledInv, Assembled
<1>8. CASE DecideRepair
  <2>1. step' = "done" /\ UNCHANGED <<question, calls, dsl>>
    BY <1>8, FailureEnds DEF DecideRepair, P!DecideRepair, work
  <2> QED  BY <2>1, DslStays
<1>9. CASE BuildDsl
  <2>1. step = "dsl_builder" /\ UNCHANGED <<question, calls>>  BY <1>9 DEF BuildDsl, Go, Stop
  <2>2. step' \in {"done", "dsl_parser"}  BY <1>9, FailureEnds DEF BuildDsl, Go, Stop, P!Continue
  <2> QED  BY <2>1, <2>2 DEF AssembledInv, Assembled
<1>10. CASE ParseDsl
  <2>1. UNCHANGED <<question, calls, dsl>>  BY <1>10 DEF ParseDsl, Go, Stop, work
  <2>2. step' \in {"done", "dsl_structural_coverage_gate"}
    BY <1>10, FailureEnds DEF ParseDsl, Go, Stop, P!Continue
  <2> QED  BY <2>1, <2>2, DslStays
<1>11. CASE CheckCoverage
  <2>1. UNCHANGED <<question, calls, dsl>>  BY <1>11 DEF CheckCoverage, Go, Stop, work
  <2>2. step' \in {"done", "cypher_compiler"}  BY <1>11, FailureEnds DEF CheckCoverage, Go, Stop, P!Continue
  <2> QED  BY <2>1, <2>2, DslStays
<1>12. CASE CompileQuery
  <2>1. UNCHANGED <<question, calls, dsl>>  BY <1>12 DEF CompileQuery, Go, Stop, work
  <2>2. step' \in {"done", "cypher_self_validation"}
    BY <1>12, FailureEnds DEF CompileQuery, Go, Stop, P!Continue
  <2> QED  BY <2>1, <2>2, DslStays
<1>13. CASE ValidateQuery
  <2>1. UNCHANGED <<question, calls, dsl>> /\ step' = "done"
    BY <1>13, FailureEnds DEF ValidateQuery, Stop, work
  <2> QED  BY <2>1, DslStays
<1>14. CASE Returned \/ UNCHANGED vars
  <2>1. UNCHANGED <<question, calls, dsl, step>>  BY <1>14 DEF Returned, vars, work
  <2> QED  BY <2>1 DEF AssembledInv, Assembled, Required
<1> QED  BY <1>1, <1>2, <1>3, <1>4, <1>5, <1>6, <1>7, <1>8, <1>9, <1>10, <1>11, <1>12, <1>13, <1>14 DEF Next

LEMMA AssembledIsMeant ==
    ASSUME AssembledInv
    PROVE  AssembledPathIsMeant
<1> SUFFICES ASSUME Assembled, NEW e \in Walked(dsl)
             PROVE  IsMeant(question.candidates, PathTexts(question.terms), e)
  BY DEF AssembledPathIsMeant, IsMeant
<1>1. dsl # None /\ dsl = Assemble(question, Required, question.candidates)  BY DEF AssembledInv, Assembled
<1>2. IsFiniteSet(MultihopEdges(question.candidates))
  <2>1. NamesOf(question.candidates, "edge") \subseteq Edges  BY QuestionsAssumption DEF AssembledInv
  <2>2. MultihopEdges(question.candidates) \in SUBSET Edges  BY <2>1 DEF MultihopEdges
  <2> QED  BY <2>2, GraphModelAssumption, FS_Subset DEF GraphModelAssumption
<1> QED  BY <1>1, <1>2, AssembledEdges

(* Whatever the graph model, the dictionary and the candidates are: an edge  *)
(* that an assembled query walks is one the words mean for that step, or no   *)
(* other edge between its vertices was found.                                *)
THEOREM AssembledPathMeant == Spec => []AssembledPathIsMeant
<1>1. Init => AssembledInv
  BY QuestionsAssumption DEF Init, P!Init, AssembledInv, Assembled, BeforeDecomposition, BeforeDsl, AfterAnswer
<1>2. AssembledInv /\ [Next]_vars => AssembledInv'  BY AssembledStep
<1>3. AssembledInv => AssembledPathIsMeant  BY AssembledIsMeant
<1> QED  BY <1>1, <1>2, <1>3, PTL DEF Spec

-----------------------------------------------------------------------------
(* What is required reaches the query. What a sequence the parser allows consists of: no two of a kind but the    *)
(* edges.                                                                     *)

Kinds(d) == {o.op : o \in ToSet(d.operations)}

Once(ops) == \A i, j \in DOMAIN ops : ops[i] = ops[j] /\ ops[i] # "traverse_edge" => i = j

LEMMA TailsOnce ==
    ASSUME NEW tail \in Tails
    PROVE  Once(tail) /\ IsList(tail) /\ ToSet(tail) \subseteq {"sort", "limit"}
<1>1. Once(<<>>) /\ IsList(<<>>) /\ ToSet(<<>>) \subseteq {"sort", "limit"}  BY DEF Once, IsList, ToSet
<1>2. Once(<<"sort">>) /\ IsList(<<"sort">>) /\ ToSet(<<"sort">>) \subseteq {"sort", "limit"}
  BY DEF Once, IsList, ToSet
<1>3. Once(<<"limit">>) /\ IsList(<<"limit">>) /\ ToSet(<<"limit">>) \subseteq {"sort", "limit"}
  BY DEF Once, IsList, ToSet
<1>4. Once(<<"sort", "limit">>) /\ IsList(<<"sort", "limit">>) /\ ToSet(<<"sort", "limit">>) \subseteq {"sort", "limit"}
  BY DEF Once, IsList, ToSet
<1> QED  BY <1>1, <1>2, <1>3, <1>4 DEF Tails

LEMMA FirstThenTail ==
    ASSUME NEW first, first \notin {"sort", "limit"}, NEW tail \in Tails
    PROVE  LET ops == <<first>> \o tail
           IN  Once(ops) /\ first \in ToSet(ops) /\ ToSet(ops) \subseteq {first, "sort", "limit"}
<1> DEFINE ops == <<first>> \o tail
<1>1. /\ Len(tail) \in Nat /\ DOMAIN tail = 1..Len(tail)
      /\ Once(tail) /\ \A i \in DOMAIN tail : tail[i] \in {"sort", "limit"}
  <2>1. Once(tail) /\ tail \in Seq(ToSet(tail))  BY TailsOnce DEF IsList
  <2>2. \A i \in DOMAIN tail : tail[i] \in {"sort", "limit"}  BY TailsOnce DEF ToSet
  <2> QED  BY <2>1, <2>2
<1>2. tail \in Seq({"sort", "limit"})
  <2>1. IsList(tail) /\ ToSet(tail) \subseteq {"sort", "limit"}  BY TailsOnce
  <2> QED  BY <2>1 DEF IsList
<1>3. /\ DOMAIN ops = 1..Len(tail) + 1 /\ ops[1] = first
      /\ \A i \in DOMAIN tail : ops[i + 1] = tail[i]
  <2>1. <<first>> \in Seq({first, "sort", "limit"}) /\ tail \in Seq({first, "sort", "limit"})  BY <1>2
  <2> QED  BY <1>1, <2>1
<1> HIDE DEF ops
<1>4. Once(ops)
  <2> SUFFICES ASSUME NEW i \in DOMAIN ops, NEW j \in DOMAIN ops, ops[i] = ops[j] PROVE i = j  BY DEF Once
  <2>1. CASE i = 1 \/ j = 1
    <3>1. \A k \in DOMAIN ops : k # 1 => k - 1 \in DOMAIN tail /\ ops[k] = tail[k - 1]  BY <1>1, <1>3
    <3> QED  BY <1>1, <1>3, <2>1, <3>1
  <2>2. CASE i # 1 /\ j # 1
    <3>1. i - 1 \in DOMAIN tail /\ j - 1 \in DOMAIN tail /\ i \in Nat /\ j \in Nat  BY <1>1, <1>3, <2>2
    <3>2. ops[i] = tail[i - 1] /\ ops[j] = tail[j - 1]  BY <1>3, <3>1
    <3>3. i - 1 = j - 1  BY <1>1, <3>1, <3>2 DEF Once
    <3> QED  BY <3>1, <3>3
  <2> QED  BY <2>1, <2>2
<1>5. \A i \in DOMAIN ops : ops[i] \in {first, "sort", "limit"}
  <2> SUFFICES ASSUME NEW i \in DOMAIN ops, i # 1 PROVE ops[i] \in {"sort", "limit"}  BY <1>3
  <2>1. i - 1 \in DOMAIN tail /\ i \in Nat  BY <1>1, <1>3
  <2> QED  BY <1>1, <1>3, <2>1
<1>6. 1 \in DOMAIN ops  BY <1>1, <1>3
<1> QED  BY <1>3, <1>4, <1>5, <1>6 DEF ToSet, ops

LEMMA ChainThenTail ==
    ASSUME NEW ops, IsList(ops), NEW tails, ChainThen(ops, tails),
           \A t \in tails : Once(t) /\ "traverse_edge" \notin ToSet(t)
    PROVE  Once(ops) /\ \E t \in tails : ToSet(ops) = {"traverse_edge"} \cup ToSet(t)
<1>1. PICK n \in 1..Len(ops) : /\ \A i \in 1..n : ops[i] = "traverse_edge"
                               /\ SubSeq(ops, n + 1, Len(ops)) \in tails
  BY DEF ChainThen
<1> DEFINE t == SubSeq(ops, n + 1, Len(ops))
<1>2. Len(ops) \in Nat /\ DOMAIN ops = 1..Len(ops)  BY DEF IsList
<1>3. DOMAIN t = 1..Len(ops) - n /\ \A i \in DOMAIN t : t[i] = ops[n + i]  BY <1>2 DEF IsList
<1>4. Once(t) /\ \A i \in DOMAIN t : t[i] # "traverse_edge"  BY <1>1 DEF ToSet
<1>5. t \in tails  BY <1>1
<1> HIDE DEF t
<1>6. \A i \in DOMAIN ops : i \in 1..n \/ (i - n \in DOMAIN t /\ ops[i] = t[i - n])  BY <1>2, <1>3
<1>7. Once(ops)
  <2> SUFFICES ASSUME NEW i \in DOMAIN ops, NEW j \in DOMAIN ops, ops[i] = ops[j], ops[i] # "traverse_edge"
               PROVE  i = j
    BY DEF Once
  <2>1. /\ i - n \in DOMAIN t /\ ops[i] = t[i - n]
        /\ j - n \in DOMAIN t /\ ops[j] = t[j - n]
    BY <1>1, <1>6
  <2>2. i - n = j - n  BY <1>4, <2>1 DEF Once
  <2>3. i \in Nat /\ j \in Nat /\ n \in Nat  BY <1>2
  <2> QED  BY <2>2, <2>3
<1>8. ToSet(ops) \subseteq {"traverse_edge"} \cup ToSet(t)  BY <1>1, <1>6 DEF ToSet
<1>9. {"traverse_edge"} \cup ToSet(t) \subseteq ToSet(ops)
  <2>1. 1 \in DOMAIN ops /\ ops[1] = "traverse_edge"  BY <1>1, <1>2
  <2>2. \A i \in DOMAIN t : n + i \in DOMAIN ops  BY <1>2, <1>3
  <2> QED  BY <1>3, <2>1, <2>2 DEF ToSet
<1> QED  BY <1>5, <1>7, <1>8, <1>9

(* The kinds each shape has. *)
Framed(d) ==
    /\ d.shape = "vertex_lookup" => Kinds(d) \subseteq {"limit"}
    /\ d.shape = "single_hop_traversal" => Kinds(d) \subseteq {"traverse_edge", "sort", "limit"}
    /\ d.shape \in DOMAIN ShapeOperation =>
         ShapeOperation[d.shape] \in Kinds(d) /\ Kinds(d) \subseteq {ShapeOperation[d.shape], "sort", "limit"}
    /\ d.shape = "top_n" =>
         \/ "metric_aggregate" \in Kinds(d) /\ Kinds(d) \subseteq {"metric_aggregate", "sort", "limit"}
         \/ "aggregate" \in Kinds(d) /\ Kinds(d) \subseteq {"traverse_edge", "aggregate", "sort", "limit"}

Single(d) ==
    \A o, p \in ToSet(d.operations) : o.op = p.op /\ o.op # "traverse_edge" => o = p

LEMMA AllowedSequences ==
    ASSUME NEW d, IsList(d.operations), d.shape \in QueryShape, SequenceAllowed(d)
    PROVE  Framed(d) /\ Single(d)
<1> DEFINE ops == MapSeq(d.operations, LAMBDA o : o.op)
<1>1. ops = [i \in DOMAIN d.operations |-> d.operations[i].op]  BY DEF MapSeq
<1>2. Len(d.operations) \in Nat /\ DOMAIN d.operations = 1..Len(d.operations)  BY DEF IsList
<1>3. IsList(ops)
  <2>1. ops = [i \in 1..Len(d.operations) |-> ops[i]]  BY <1>1, <1>2
  <2> HIDE DEF ops
  <2> QED  BY <1>2, <2>1, FunctionIsList
<1>4. SequenceAllowed(d) =
        CASE d.shape = "vertex_lookup" -> ops \in {<<>>, <<"limit">>}
          [] d.shape = "single_hop_traversal" -> ChainThen(ops, Tails)
          [] d.shape = "top_n" -> \/ ops \in {<<o, "sort", "limit">> : o \in {"metric_aggregate", "aggregate"}}
                                  \/ ChainThen(ops, {<<"aggregate", "sort", "limit">>})
          [] OTHER -> ops \in {<<ShapeOperation[d.shape]>> \o tail : tail \in Tails}
  BY DEF SequenceAllowed
<1>5. DOMAIN ops = DOMAIN d.operations /\ \A i \in DOMAIN ops : ops[i] = d.operations[i].op  BY <1>1
<1> HIDE DEF ops
<1>6. Kinds(d) = ToSet(ops)  BY <1>5 DEF Kinds, ToSet
<1>7. Once(ops) => Single(d)  BY <1>5 DEF Once, Single, ToSet
<1>8. CASE d.shape = "vertex_lookup"
  <2>1. ops \in {<<>>, <<"limit">>}  BY <1>4, <1>8
  <2>2. Once(ops) /\ ToSet(ops) \subseteq {"limit"}  BY <2>1 DEF Once, ToSet
  <2> QED  BY <1>6, <1>7, <1>8, <2>2 DEF Framed, ShapeOperation
<1>9. CASE d.shape = "single_hop_traversal"
  <2>1. ChainThen(ops, Tails)  BY <1>4, <1>9
  <2>2. \A t \in Tails : Once(t) /\ "traverse_edge" \notin ToSet(t)  BY TailsOnce
  <2>3. Once(ops) /\ \E t \in Tails : ToSet(ops) = {"traverse_edge"} \cup ToSet(t)
    BY <1>3, <2>1, <2>2, ChainThenTail
  <2>4. Once(ops) /\ ToSet(ops) \subseteq {"traverse_edge", "sort", "limit"}  BY <2>3, TailsOnce
  <2> QED  BY <1>6, <1>7, <1>9, <2>4 DEF Framed, ShapeOperation
<1>10. CASE d.shape = "top_n"
  <2> DEFINE cut == <<"aggregate", "sort", "limit">>
  <2>1. CASE ops = <<"metric_aggregate", "sort", "limit">>
    <3>1. /\ Once(ops) /\ "metric_aggregate" \in ToSet(ops)
          /\ ToSet(ops) \subseteq {"metric_aggregate", "sort", "limit"}
      BY <2>1 DEF Once, ToSet
    <3> QED  BY <1>6, <1>7, <1>10, <3>1 DEF Framed, ShapeOperation
  <2>2. Once(cut) /\ ToSet(cut) = {"aggregate", "sort", "limit"}  BY DEF Once, ToSet
  <2>3. CASE ops = cut
    <3>1. /\ Once(ops) /\ "aggregate" \in ToSet(ops)
          /\ ToSet(ops) \subseteq {"traverse_edge", "aggregate", "sort", "limit"}
      BY <2>2, <2>3
    <3> QED  BY <1>6, <1>7, <1>10, <3>1 DEF Framed, ShapeOperation
  <2>4. CASE ChainThen(ops, {cut})
    <3>1. \A t \in {cut} : Once(t) /\ "traverse_edge" \notin ToSet(t)  BY <2>2
    <3> HIDE DEF cut
    <3>2. Once(ops) /\ ToSet(ops) = {"traverse_edge"} \cup ToSet(cut)  BY <1>3, <2>4, <3>1, ChainThenTail
    <3> QED  BY <1>6, <1>7, <1>10, <2>2, <3>2 DEF Framed, ShapeOperation
  <2> QED  BY <1>4, <1>10, <2>1, <2>3, <2>4
<1>11. CASE d.shape \in DOMAIN ShapeOperation
  <2> DEFINE first == ShapeOperation[d.shape]
  <2>1. first \in {"variable_path", "use_path_pattern", "metric_aggregate", "aggregate", "subquery"}
    BY <1>11 DEF ShapeOperation
  <2>2. d.shape \notin {"vertex_lookup", "single_hop_traversal", "top_n"}  BY <1>11 DEF ShapeOperation
  <2>3. PICK tail \in Tails : ops = <<first>> \o tail  BY <1>4, <2>2
  <2> HIDE DEF first
  <2>4. Once(ops) /\ first \in ToSet(ops) /\ ToSet(ops) \subseteq {first, "sort", "limit"}
    BY <2>1, <2>3, FirstThenTail
  <2> QED  BY <1>6, <1>7, <1>11, <2>2, <2>4 DEF Framed, first
<1>12. d.shape \in {"vertex_lookup", "single_hop_traversal", "top_n"} \cup DOMAIN ShapeOperation
  BY DEF QueryShape, ShapeOperation
<1> QED  BY <1>8, <1>9, <1>10, <1>11, <1>12

\* The groups and measures are lists.
Listed(u) == IsList(u.group_by) /\ IsList(u.measures)

\* A DSL none of whose operations is dropped or means nothing: what the builder and the assemblers see to.
Shaped(d) ==
    /\ IsList(d.operations)
    /\ d.shape \in {"single_hop_traversal", "variable_path_traversal", "named_path_pattern"} =>
         ~Has(d, "sort") /\ ~Has(d, "limit")
    /\ \A o \in ToSet(d.operations) :
         /\ o.op = "limit" => o.value # None
         /\ o.op = "use_path_pattern" => o.bind_as = "path"
         /\ o.op = "subquery" => Listed(o)

(* What the compiler needs of a DSL the parser has accepted. *)
LEMMA AcceptedOperations ==
    ASSUME NEW d, ParserErrors(d) = {}, IsList(d.operations)
    PROVE  /\ d.shape \in QueryShape /\ Framed(d) /\ Single(d)
           /\ \A o \in ToSet(d.operations) :
                /\ o.op = "variable_path" => o.max \in 1..8
                /\ OperationErrors(d, o) = {}
           /\ \A x \in ToSet(d.projection) : x.kind = "source" => x.source \in SourceOutputs(d)
<1>1. WellFormed(d) /\ SequenceAllowed(d)  BY DEF ParserErrors
<1>2. d.shape \in QueryShape /\ \A o \in ToSet(d.operations) : o.op = "variable_path" => o.max \in 1..8
  BY <1>1 DEF WellFormed
<1>3. Framed(d) /\ Single(d)  BY <1>1, <1>2, AllowedSequences
<1>4. ProjectionErrors(d) = {} /\ \A o \in ToSet(d.operations) : OperationErrors(d, o) = {}  BY AcceptedParts
<1>5. ASSUME NEW x \in ToSet(d.projection), x.kind = "source"
      PROVE  x.source \in SourceOutputs(d)
  <2> DEFINE errors(y) ==
               CASE y.kind = "source" -> Code(y.source \in SourceOutputs(d), "unknown_source_output")
                 [] y.kind # "source" /\ y.target \notin DOMAIN d.vertexRoles -> {"unknown_projection_target"}
                 [] y.kind = "property" /\ y.target \in DOMAIN d.vertexRoles ->
                      Code(d.vertexRoles[y.target] = y.owner, "projection_owner_mismatch")
                      \cup Code(HasProperty(y.owner, y.name), "unknown_property")
                 [] OTHER -> {}
  <2>1. UNION {errors(y) : y \in ToSet(d.projection)} = {}  BY <1>4 DEF ProjectionErrors
  <2>2. errors(x) \subseteq UNION {errors(y) : y \in ToSet(d.projection)}  OBVIOUS
  <2>3. errors(x) = {}  BY <2>1, <2>2
  <2>4. Code(x.source \in SourceOutputs(d), "unknown_source_output") = {}  BY <1>5, <2>3
  <2> QED  BY <2>4 DEF Code
<1> QED  BY <1>2, <1>3, <1>4, <1>5

(* Of an operation that comes once the compiler takes the one the gate saw. *)
LEMMA SoleOperation ==
    ASSUME NEW d, Single(d), NEW o \in ToSet(d.operations), o.op # "traverse_edge"
    PROVE  Has(d, o.op) /\ SingleOperation(d, o.op) = o /\ Operations(d, o.op) = {o}
<1>1. Operations(d, o.op) = {o}  BY DEF Operations, Single
<1> QED  BY <1>1 DEF Has, SingleOperation

LEMMA HasKind ==
    ASSUME NEW d, NEW op
    PROVE  Has(d, op) <=> op \in Kinds(d)
BY DEF Has, Operations, Kinds

LEMMA AstOfDsl ==
    ASSUME NEW d
    PROVE  LET ast == BuildAst(d)
           IN  /\ ast.shape = d.shape /\ ast.operations = d.operations /\ ast.projection = d.projection
               /\ ast.sort = (IF Has(d, "sort") THEN SingleOperation(d, "sort").by ELSE <<>>)
               /\ ast.limit = (IF Has(d, "limit") THEN SingleOperation(d, "limit").value ELSE None)
               /\ Form(ast) = Form(d) /\ EdgePlaces(ast) = EdgePlaces(d)
               /\ \A op : SingleOperation(ast, op) = SingleOperation(d, op)
<1> DEFINE ast == BuildAst(d)
<1>1. /\ ast.shape = d.shape /\ ast.operations = d.operations /\ ast.projection = d.projection
      /\ ast.sort = (IF Has(d, "sort") THEN SingleOperation(d, "sort").by ELSE <<>>)
      /\ ast.limit = (IF Has(d, "limit") THEN SingleOperation(d, "limit").value ELSE None)
  BY DEF BuildAst
<1> HIDE DEF ast
<1>2. \A op : Operations(ast, op) = Operations(d, op)  BY <1>1 DEF Operations
<1>3. \A op : SingleOperation(ast, op) = SingleOperation(d, op)  BY <1>2 DEF SingleOperation
<1>4. EdgePlaces(ast) = EdgePlaces(d)  BY <1>1 DEF EdgePlaces
<1>5. Form(ast) = Form(d)  BY <1>1, <1>2 DEF Form, Has
<1> QED  BY <1>1, <1>3, <1>4, <1>5 DEF ast

(* What each form consists of. *)
LEMMA FormKinds ==
    ASSUME NEW d, d.shape \in QueryShape, Framed(d)
    PROVE  LET form == Form(d)
           IN  /\ form \in {"vertex_lookup", "single_hop_traversal", "named_path_pattern", "variable_path_traversal",
                            "metric_aggregate", "ad_hoc_aggregate", "path_top_n", "two_step_aggregate"}
               /\ form \notin {"metric_aggregate", "ad_hoc_aggregate", "path_top_n"} => form = d.shape
               /\ form = "vertex_lookup" => Kinds(d) \subseteq {"limit"}
               /\ form = "single_hop_traversal" => Kinds(d) \subseteq {"traverse_edge", "sort", "limit"}
               /\ form = "named_path_pattern" => Kinds(d) \subseteq {"use_path_pattern", "sort", "limit"}
               /\ form = "variable_path_traversal" =>
                    "variable_path" \in Kinds(d) /\ Kinds(d) \subseteq {"variable_path", "sort", "limit"}
               /\ form = "metric_aggregate" => Kinds(d) \subseteq {"metric_aggregate", "sort", "limit"}
               /\ form = "ad_hoc_aggregate" => Kinds(d) \subseteq {"aggregate", "sort", "limit"}
               /\ form = "path_top_n" => Kinds(d) \subseteq {"traverse_edge", "aggregate", "sort", "limit"}
               /\ form = "two_step_aggregate" => Kinds(d) \subseteq {"subquery", "sort", "limit"}
<1>1. CASE d.shape = "top_n"
  <2>1. CASE "traverse_edge" \in Kinds(d)
    <3>1. Form(d) = "path_top_n"  BY <1>1, <2>1, HasKind DEF Form
    <3> QED  BY <1>1, <2>1, <3>1 DEF Framed
  <2>2. CASE "traverse_edge" \notin Kinds(d) /\ "metric_aggregate" \in Kinds(d)
    <3>1. Form(d) = "metric_aggregate"  BY <1>1, <2>2, HasKind DEF Form
    <3> QED  BY <1>1, <2>2, <3>1 DEF Framed
  <2>3. CASE "traverse_edge" \notin Kinds(d) /\ "metric_aggregate" \notin Kinds(d)
    <3>1. Form(d) = "ad_hoc_aggregate"  BY <1>1, <2>3, HasKind DEF Form
    <3> QED  BY <1>1, <2>3, <3>1 DEF Framed
  <2> QED  BY <2>1, <2>2, <2>3
<1>2. CASE d.shape # "top_n"
  <2>1. Form(d) = d.shape  BY <1>2 DEF Form
  <2> QED  BY <1>2, <2>1 DEF QueryShape, Framed, ShapeOperation
<1> QED  BY <1>1, <1>2

-----------------------------------------------------------------------------
(* What the clauses of each form are.                                          *)

LEMMA QueryClauses ==
    ASSUME NEW nodes, NEW edges, NEW where, NEW with, NEW returns, NEW order, NEW limit
    PROVE  LET q == Query(nodes, edges, where, with, returns, order, limit)
           IN  q.edges = edges /\ q.with = with /\ q.returns = returns /\ q.order = order /\ q.limit = limit
BY DEF Query

LEMMA LookupClauses ==
    ASSUME NEW ast
    PROVE  LET q == CompileVertexLookup(ast)
           IN  q.edges = <<>> /\ q.order = OrderBy(ast, <<>>) /\ q.limit = ast.limit
<1>1. \E nodes, where, returns :
        CompileVertexLookup(ast) = Query(nodes, <<>>, where, <<>>, returns, OrderBy(ast, <<>>), ast.limit)
  BY Zenon DEF CompileVertexLookup
<1> QED  BY <1>1, QueryClauses

LEMMA SingleHopClauses ==
    ASSUME NEW ast
    PROVE  CompileSingleHop(ast).edges = TraverseEdges(ast)
<1>1. \E nodes, where, returns :
        CompileSingleHop(ast) = Query(nodes, TraverseEdges(ast), where, <<>>, returns, <<>>, None)
  BY Zenon DEF CompileSingleHop, CompileChain
<1> QED  BY <1>1, QueryClauses

LEMMA VariablePathClauses ==
    ASSUME NEW ast
    PROVE  \E e : CompileVariablePath(ast).edges = <<e>> /\ e.max = SingleOperation(ast, "variable_path").max
<1> DEFINE o == SingleOperation(ast, "variable_path")
           e == [name |-> o.edges[1], direction |-> "forward", min |-> o.min, max |-> o.max]
<1>1. \E nodes, where, returns : CompileVariablePath(ast) = Query(nodes, <<e>>, where, <<>>, returns, <<>>, None)
  BY Zenon DEF CompileVariablePath
<1>2. e.max = o.max  OBVIOUS
<1> HIDE DEF e
<1> QED  BY <1>1, <1>2, QueryClauses

LEMMA MetricClauses ==
    ASSUME NEW ast
    PROVE  LET q == CompileMetricAggregate(ast)
               expressions == MetricExpressions(SingleOperation(ast, "metric_aggregate"))
           IN  /\ q.edges = <<>> /\ q.returns = CompileSourceReturn(ast, expressions)
               /\ q.order = OrderBy(ast, expressions) /\ q.limit = ast.limit
<1> DEFINE expressions == MetricExpressions(SingleOperation(ast, "metric_aggregate"))
<1>1. \E nodes, where :
        CompileMetricAggregate(ast) = Query(nodes, <<>>, where, <<>>, CompileSourceReturn(ast, expressions),
                                            OrderBy(ast, expressions), ast.limit)
  BY Zenon DEF CompileMetricAggregate
<1> HIDE DEF expressions
<1>2. LET q == CompileMetricAggregate(ast)
      IN  /\ q.edges = <<>> /\ q.returns = CompileSourceReturn(ast, expressions)
          /\ q.order = OrderBy(ast, expressions) /\ q.limit = ast.limit
  BY <1>1, QueryClauses
<1> QED  BY <1>2 DEF expressions

LEMMA AdHocClauses ==
    ASSUME NEW ast
    PROVE  LET q == CompileAdHocAggregate(ast)
               o == SingleOperation(ast, "aggregate")
           IN  \E vs : LET expressions == SourceExpressions(o.group_by, o.measures, vs)
                       IN  /\ q.edges = <<>> /\ q.returns = CompileSourceReturn(ast, expressions)
                           /\ q.order = OrderBy(ast, expressions) /\ q.limit = ast.limit
<1> DEFINE o == SingleOperation(ast, "aggregate")
           vs == RoleVariables(ast, SetToSeq(AggregateRoles(o, ast.filters)))
           expressions == SourceExpressions(o.group_by, o.measures, vs)
<1>1. \E nodes, where :
        CompileAdHocAggregate(ast) = Query(nodes, <<>>, where, <<>>, CompileSourceReturn(ast, expressions),
                                           OrderBy(ast, expressions), ast.limit)
  BY Zenon DEF CompileAdHocAggregate
<1> HIDE DEF expressions
<1>2. LET q == CompileAdHocAggregate(ast)
      IN  /\ q.edges = <<>> /\ q.returns = CompileSourceReturn(ast, expressions)
          /\ q.order = OrderBy(ast, expressions) /\ q.limit = ast.limit
  BY <1>1, QueryClauses
<1> QED  BY <1>2, Zenon DEF expressions

LEMMA PathClauses ==
    ASSUME NEW ast
    PROVE  LET q == CompilePathTopN(ast)
               o == SingleOperation(ast, "aggregate")
           IN  \E vs : LET expressions == SourceExpressions(o.group_by, o.measures, vs)
                       IN  /\ q.edges = TraverseEdges(ast) /\ q.returns = CompileSourceReturn(ast, expressions)
                           /\ q.order = OrderBy(ast, expressions) /\ q.limit = ast.limit
<1> DEFINE o == SingleOperation(ast, "aggregate")
           vs == RoleVariables(ast, ChainRoles(Traverses(ast)))
           expressions == SourceExpressions(o.group_by, o.measures, vs)
<1>1. \E nodes, where :
        CompilePathTopN(ast) = Query(nodes, TraverseEdges(ast), where, <<>>, CompileSourceReturn(ast, expressions),
                                     OrderBy(ast, expressions), ast.limit)
  BY Zenon DEF CompilePathTopN, CompileChain
<1> HIDE DEF expressions
<1>2. LET q == CompilePathTopN(ast)
      IN  /\ q.edges = TraverseEdges(ast) /\ q.returns = CompileSourceReturn(ast, expressions)
          /\ q.order = OrderBy(ast, expressions) /\ q.limit = ast.limit
  BY <1>1, QueryClauses
<1> QED  BY <1>2, Zenon DEF expressions

CarriedOn(o, vs, ns, items) ==
    MapSeq(items, LAMBDA x : Column(x.alias, SourceExpressions(o.group_by, o.measures, vs)[[ns |-> ns, name |-> x.alias]]))

LEMMA TwoStepClauses ==
    ASSUME NEW ast
    PROVE  LET q == CompileTwoStepAggregate(ast)
               o == SingleOperation(ast, "subquery")
           IN  /\ q.edges = <<>> /\ q.order = OrderBy(ast, SubqueryColumns(o)) /\ q.limit = ast.limit
               /\ \E vs : q.with = CarriedOn(o, vs, "group", o.group_by) \o CarriedOn(o, vs, "measure", o.measures)
<1> DEFINE o == SingleOperation(ast, "subquery")
           vs == RoleVariables(ast, SetToSeq(AggregateRoles(o, <<>>)))
           with == CarriedOn(o, vs, "group", o.group_by) \o CarriedOn(o, vs, "measure", o.measures)
<1>1. \E nodes, returns :
        CompileTwoStepAggregate(ast) = Query(nodes, <<>>, <<>>, with, returns, OrderBy(ast, SubqueryColumns(o)), ast.limit)
  BY Zenon DEF CompileTwoStepAggregate, CarriedOn
<1> HIDE DEF with
<1>2. LET q == CompileTwoStepAggregate(ast)
      IN  /\ q.edges = <<>> /\ q.order = OrderBy(ast, SubqueryColumns(o)) /\ q.limit = ast.limit /\ q.with = with
  BY <1>1, QueryClauses
<1> QED  BY <1>2, Zenon DEF with

CompiledForm(ast) ==
    LET q == Compile(ast)
        form == Form(ast)
    IN  /\ form = "vertex_lookup" => q = CompileVertexLookup(ast)
        /\ form = "single_hop_traversal" => q = CompileSingleHop(ast)
        /\ form = "variable_path_traversal" => q = CompileVariablePath(ast)
        /\ form = "metric_aggregate" => q = CompileMetricAggregate(ast)
        /\ form = "ad_hoc_aggregate" => q = CompileAdHocAggregate(ast)
        /\ form = "path_top_n" => q = CompilePathTopN(ast)
        /\ form = "two_step_aggregate" => q = CompileTwoStepAggregate(ast)

LEMMA CompiledByForm == \A ast : CompiledForm(ast)
BY DEF CompiledForm, Compile

\* The forms with an order.
Ordering == {"metric_aggregate", "ad_hoc_aggregate", "path_top_n", "two_step_aggregate"}

LEMMA OrderAndLimit ==
    ASSUME NEW ast, Form(ast) \in Ordering \cup {"vertex_lookup"}
    PROVE  Compile(ast).limit = ast.limit /\ \E expressions : Compile(ast).order = OrderBy(ast, expressions)
<1>1. CASE Form(ast) = "vertex_lookup"  BY <1>1, CompiledByForm, LookupClauses DEF CompiledForm
<1>2. CASE Form(ast) = "metric_aggregate"  BY <1>2, CompiledByForm, MetricClauses DEF CompiledForm
<1>3. CASE Form(ast) = "ad_hoc_aggregate"  BY <1>3, CompiledByForm, AdHocClauses DEF CompiledForm
<1>4. CASE Form(ast) = "path_top_n"  BY <1>4, CompiledByForm, PathClauses DEF CompiledForm
<1>5. CASE Form(ast) = "two_step_aggregate"  BY <1>5, CompiledByForm, TwoStepClauses DEF CompiledForm
<1> QED  BY <1>1, <1>2, <1>3, <1>4, <1>5 DEF Ordering

(* The order keeps its directions. *)
LEMMA OrderKeepsDirections ==
    ASSUME NEW ast, NEW expressions, NEW x \in ToSet(ast.sort)
    PROVE  \E y \in ToSet(OrderBy(ast, expressions)) : y.direction = x.direction
<1> DEFINE returned(s) == {i \in DOMAIN ast.projection : /\ ast.projection[i].kind = "source"
                                                        /\ ast.projection[i].source = s}
           expression(s) == IF returned(s) # {}
                            THEN [kind |-> "name", name |-> ProjectionAliases(ast)[Max(returned(s))]]
                            ELSE expressions[s]
           item(y) == [expression |-> expression(y.source), direction |-> y.direction]
           order == OrderBy(ast, expressions)
<1>1. order = [i \in DOMAIN ast.sort |-> item(ast.sort[i])]  BY Zenon DEF OrderBy, MapSeq
<1>2. PICK i \in DOMAIN ast.sort : x = ast.sort[i]  BY DEF ToSet
<1> HIDE DEF expression
<1>3. i \in DOMAIN order /\ order[i].direction = x.direction  BY <1>1, <1>2
<1> QED  BY <1>3 DEF ToSet

(* The order and its direction are the query's, whatever the shape. *)
LEMMA OrderReaches ==
    ASSUME NEW d, ParserErrors(d) = {}, Shaped(d), NEW req, MissingRequirements(req, d) = {}, req.order_by
    PROVE  \E x \in ToSet(Compile(BuildAst(d)).order) : req.direction \in {x.direction, None}
<1> DEFINE ast == BuildAst(d)
<1>1. d.shape \in QueryShape /\ Framed(d) /\ Single(d)  BY AcceptedOperations DEF Shaped
<1>2. OrderMissing(req, d) = {}  BY DEF MissingRequirements
<1>3. SortDirections(d) # {} /\ req.direction \in SortDirections(d) \cup {None}  BY <1>2 DEF OrderMissing, Code
<1>4. PICK o \in Operations(d, "sort") : \E x \in ToSet(o.by) : req.direction \in {x.direction, None}
  BY <1>3 DEF SortDirections
<1> PICK x \in ToSet(o.by) : req.direction \in {x.direction, None}  BY <1>4
<1>5. o \in ToSet(d.operations) /\ o.op = "sort"  BY DEF Operations
<1>6. Has(d, "sort") /\ SingleOperation(d, "sort") = o  BY <1>1, <1>5, SoleOperation
<1>7. ast.sort = o.by /\ Form(ast) = Form(d)  BY <1>6, AstOfDsl
<1>8. Form(ast) \in Ordering
  <2>1. "sort" \in Kinds(d)  BY <1>6, HasKind
  <2>2. d.shape \notin {"single_hop_traversal", "variable_path_traversal", "named_path_pattern"}
    BY <1>6 DEF Shaped
  <2> QED  BY <1>1, <1>7, <2>1, <2>2, FormKinds DEF Ordering
<1>9. PICK expressions : Compile(ast).order = OrderBy(ast, expressions)  BY <1>8, OrderAndLimit
<1> HIDE DEF ast
<1>10. \E y \in ToSet(OrderBy(ast, expressions)) : y.direction = x.direction
  BY <1>7, OrderKeepsDirections
<1> QED  BY <1>4, <1>9, <1>10 DEF ast

(* So is the limit. *)
LEMMA LimitReaches ==
    ASSUME NEW d, ParserErrors(d) = {}, Shaped(d), NEW req, MissingRequirements(req, d) = {}, req.limit
    PROVE  LET q == Compile(BuildAst(d))
           IN  q.limit # None /\ req.value \in {q.limit, None}
<1> DEFINE ast == BuildAst(d)
<1>1. d.shape \in QueryShape /\ Framed(d) /\ Single(d)  BY AcceptedOperations DEF Shaped
<1>2. LimitMissing(req, d) = {}  BY DEF MissingRequirements
<1>3. LimitValues(d) # {} /\ req.value \in LimitValues(d) \cup {None}  BY <1>2 DEF LimitMissing, Code
<1>4. PICK o \in Operations(d, "limit") : req.value \in {o.value, None}  BY <1>3 DEF LimitValues
<1>5. o \in ToSet(d.operations) /\ o.op = "limit"  BY DEF Operations
<1>6. Has(d, "limit") /\ SingleOperation(d, "limit") = o  BY <1>1, <1>5, SoleOperation
<1>7. ast.limit = o.value /\ Form(ast) = Form(d) /\ o.value # None  BY <1>5, <1>6, AstOfDsl DEF Shaped
<1>8. Form(ast) \in Ordering \cup {"vertex_lookup"}
  <2>1. d.shape \notin {"single_hop_traversal", "variable_path_traversal", "named_path_pattern"}
    BY <1>6 DEF Shaped
  <2> QED  BY <1>1, <1>7, <2>1, FormKinds DEF Ordering
<1> QED  BY <1>4, <1>7, <1>8, OrderAndLimit

-----------------------------------------------------------------------------
(* The aggregate: a measure that is to be returned is one of an operation's.   *)

LEMMA SourceColumns ==
    ASSUME NEW ast, NEW expressions, NEW x \in ToSet(ast.projection)
    PROVE  \E c \in ToSet(CompileSourceReturn(ast, expressions)) : c.expression = expressions[x.source]
<1> DEFINE r == CompileSourceReturn(ast, expressions)
<1>1. PICK i \in DOMAIN ast.projection : x = ast.projection[i]  BY DEF ToSet
<1>2. DOMAIN r = DOMAIN ast.projection /\ r[i] = Column(ProjectionAliases(ast)[i], expressions[x.source])
  BY <1>1 DEF CompileSourceReturn
<1>3. r[i].expression = expressions[x.source]  BY <1>2 DEF Column
<1> QED  BY <1>2, <1>3 DEF ToSet

LEMMA MeasuredSource ==
    ASSUME NEW groupBy, NEW measures, NEW vs, NEW m \in ToSet(measures)
    PROVE  SourceExpressions(groupBy, measures, vs)[[ns |-> "measure", name |-> m.alias]].kind = "measure"
<1> DEFINE s == [ns |-> "measure", name |-> m.alias]
           sources == {[ns |-> "group", name |-> d.alias] : d \in ToSet(groupBy)}
                      \cup {[ns |-> "measure", name |-> k.alias] : k \in ToSet(measures)}
           expression(t) ==
             IF t.ns = "group" THEN LET d == Output(groupBy, t.name) IN PropertyOf(vs[d.target], d.name)
             ELSE LET k == Output(measures, t.name)
                  IN  [kind |-> "measure", function |-> k.function, variable |-> vs[k.target], name |-> k.name]
<1>1. SourceExpressions(groupBy, measures, vs) = [t \in sources |-> expression(t)]  BY Zenon DEF SourceExpressions
<1>2. s \in sources /\ s.ns # "group"  OBVIOUS
<1>3. expression(s).kind = "measure"  BY <1>2
<1> HIDE DEF s, sources, expression
<1>4. SourceExpressions(groupBy, measures, vs)[s].kind = "measure"  BY <1>1, <1>2, <1>3
<1> QED  BY <1>4 DEF s

LEMMA MetricSource ==
    ASSUME NEW o
    PROVE  MetricExpressions(o)[[ns |-> "metric", name |-> o.metric]].kind = "metric"
<1> DEFINE s == [ns |-> "metric", name |-> o.metric]
           sources == {[ns |-> "metric", name |-> o.metric]}
                      \cup {[ns |-> "group", name |-> d.alias] : d \in ToSet(o.group_by)}
           expression(t) == IF t.ns = "metric" THEN [kind |-> "metric", metric |-> o.metric]
                            ELSE LET d == Output(o.group_by, t.name) IN PropertyOf(d.target, d.name)
<1>1. MetricExpressions(o) = [t \in sources |-> expression(t)]  BY Zenon DEF MetricExpressions
<1>2. s \in sources /\ s.ns = "metric"  OBVIOUS
<1>3. expression(s).kind = "metric"  BY <1>2
<1> HIDE DEF s, sources, expression
<1>4. MetricExpressions(o)[s].kind = "metric"  BY <1>1, <1>2, <1>3
<1> QED  BY <1>4 DEF s

(* What a source among the outputs of an operation says of the operation. *)
LEMMA OutputKinds ==
    ASSUME NEW o, NEW s \in OperationOutputs(o), s.ns \in {"measure", "metric"},
           o.op = "use_path_pattern" => o.bind_as = "path"
    PROVE  \/ o.op = "metric_aggregate" /\ s = [ns |-> "metric", name |-> o.metric]
           \/ o.op = "aggregate" /\ \E m \in ToSet(o.measures) : s = [ns |-> "measure", name |-> m.alias]
           \/ o.op = "subquery"
<1> DEFINE of(ns, items) == {[ns |-> ns, name |-> x.alias] : x \in ToSet(items)}
<1>1. o.op = "use_path_pattern" =>
        \E S : OperationOutputs(o) = {[ns |-> o.bind_as, name |-> c] : c \in S}
  BY Zenon DEF OperationOutputs
<1>2. o.op = "metric_aggregate" => OperationOutputs(o) = of("group", o.group_by) \cup {[ns |-> "metric", name |-> o.metric]}
  BY DEF OperationOutputs
<1>3. o.op = "aggregate" => OperationOutputs(o) = of("group", o.group_by) \cup of("measure", o.measures)
  BY DEF OperationOutputs
<1>4. o.op \in {"use_path_pattern", "metric_aggregate", "aggregate", "subquery"}
  BY DEF OperationOutputs
<1>5. o.op # "use_path_pattern"  BY <1>1
<1> QED  BY <1>2, <1>3, <1>4, <1>5

LEMMA FirstOfList ==
    ASSUME NEW s, IsList(s), s # <<>>
    PROVE  Len(s) \in Nat /\ 1 \in DOMAIN s /\ DOMAIN s = 1..Len(s)
<1>1. Len(s) \in Nat /\ DOMAIN s = 1..Len(s) /\ Len(s) # 0  BY DEF IsList
<1> QED  BY <1>1

LEMMA WithMeasures ==
    ASSUME NEW o, Listed(o), o.measures # <<>>, NEW vs
    PROVE  \E c \in ToSet(CarriedOn(o, vs, "group", o.group_by) \o CarriedOn(o, vs, "measure", o.measures)) :
             c.expression.kind = "measure"
<1> DEFINE groups == CarriedOn(o, vs, "group", o.group_by)
           measures == CarriedOn(o, vs, "measure", o.measures)
           n == Len(o.group_by)
           column(x) == Column(x.alias, SourceExpressions(o.group_by, o.measures, vs)[[ns |-> "measure", name |-> x.alias]])
<1>1. IsList(groups) /\ Len(groups) = n /\ n \in Nat
  <2>1. n \in Nat /\ DOMAIN o.group_by = 1..n  BY DEF Listed, IsList
  <2>2. groups = [i \in 1..n |-> groups[i]]  BY <2>1 DEF CarriedOn, MapSeq
  <2> HIDE DEF groups
  <2> QED  BY <2>1, <2>2, FunctionIsList
<1>2. 1 \in DOMAIN o.measures /\ Len(o.measures) \in Nat /\ DOMAIN o.measures = 1..Len(o.measures)
  BY FirstOfList DEF Listed
<1>3. DOMAIN measures = DOMAIN o.measures /\ measures[1] = column(o.measures[1])
  BY <1>2, Zenon DEF CarriedOn, MapSeq
<1>4. IsList(measures)
  <2>1. measures = [i \in DOMAIN o.measures |-> measures[i]]  BY DEF CarriedOn, MapSeq
  <2> HIDE DEF measures
  <2> QED  BY <1>2, <2>1, FunctionIsList
<1>5. measures[1].expression.kind = "measure"
  <2>1. o.measures[1] \in ToSet(o.measures)  BY <1>2 DEF ToSet
  <2> QED  BY <1>3, <2>1, MeasuredSource DEF Column
<1> HIDE DEF groups, measures
<1>6. n + 1 \in DOMAIN (groups \o measures) /\ (groups \o measures)[n + 1] = measures[1]
  BY <1>1, <1>2, <1>3, <1>4 DEF IsList
<1>7. (groups \o measures)[n + 1] \in ToSet(groups \o measures)  BY <1>6 DEF ToSet
<1> QED  BY <1>5, <1>6, <1>7 DEF groups, measures

(* A measure that is to be returned is computed. *)
LEMMA AggregateReaches ==
    ASSUME NEW d, ParserErrors(d) = {}, Shaped(d), MeasureAsked(d)
    PROVE  Aggregated(Compile(BuildAst(d)))
<1> DEFINE ast == BuildAst(d)
           q == Compile(ast)
<1>1. /\ d.shape \in QueryShape /\ Framed(d) /\ Single(d)
      /\ \A o \in ToSet(d.operations) : OperationErrors(d, o) = {}
      /\ \A x \in ToSet(d.projection) : x.kind = "source" => x.source \in SourceOutputs(d)
  BY AcceptedOperations DEF Shaped
<1>2. PICK x \in ToSet(d.projection) : x.kind = "source" /\ x.source.ns \in {"measure", "metric"}  BY DEF MeasureAsked
<1>3. PICK o \in ToSet(d.operations) : x.source \in OperationOutputs(o)  BY <1>1, <1>2 DEF SourceOutputs
<1>4. \/ o.op = "metric_aggregate" /\ x.source = [ns |-> "metric", name |-> o.metric]
      \/ o.op = "aggregate" /\ \E m \in ToSet(o.measures) : x.source = [ns |-> "measure", name |-> m.alias]
      \/ o.op = "subquery"
  BY <1>2, <1>3, OutputKinds DEF Shaped
<1>5. SingleOperation(d, o.op) = o  BY <1>1, <1>4, SoleOperation
<1>6. ast.projection = d.projection /\ Form(ast) = Form(d) /\ SingleOperation(ast, o.op) = o  BY <1>5, AstOfDsl
<1>7. o.op \in Kinds(d)  BY DEF Kinds
<1> HIDE DEF ast
<1> SUFFICES \E c \in ToSet(q.returns) \cup ToSet(q.with) : c.expression.kind \in {"measure", "metric"}
  BY DEF Aggregated, ast
<1>8. CASE o.op = "metric_aggregate"
  <2>1. Form(ast) = "metric_aggregate"  BY <1>1, <1>6, <1>7, <1>8, FormKinds
  <2>2. q.returns = CompileSourceReturn(ast, MetricExpressions(o))
    BY <1>6, <1>8, <2>1, CompiledByForm, MetricClauses DEF CompiledForm
  <2>3. PICK c \in ToSet(q.returns) : c.expression = MetricExpressions(o)[x.source]
    BY <1>6, <2>2, SourceColumns
  <2>4. c.expression.kind = "metric"  BY <1>4, <1>8, <2>3, MetricSource
  <2> QED  BY <2>3, <2>4
<1>9. CASE o.op = "aggregate"
  <2>1. Form(ast) \in {"ad_hoc_aggregate", "path_top_n"}  BY <1>1, <1>6, <1>7, <1>9, FormKinds
  <2>2. PICK vs : q.returns = CompileSourceReturn(ast, SourceExpressions(o.group_by, o.measures, vs))
    <3>1. CASE Form(ast) = "ad_hoc_aggregate"
      BY <1>6, <1>9, <3>1, CompiledByForm, AdHocClauses DEF CompiledForm
    <3>2. CASE Form(ast) = "path_top_n"
      BY <1>6, <1>9, <3>2, CompiledByForm, PathClauses DEF CompiledForm
    <3> QED  BY <2>1, <3>1, <3>2
  <2>3. PICK c \in ToSet(q.returns) : c.expression = SourceExpressions(o.group_by, o.measures, vs)[x.source]
    BY <1>6, <2>2, SourceColumns
  <2>4. PICK m \in ToSet(o.measures) : x.source = [ns |-> "measure", name |-> m.alias]  BY <1>4, <1>9
  <2>5. SourceExpressions(o.group_by, o.measures, vs)[[ns |-> "measure", name |-> m.alias]].kind = "measure"
    BY MeasuredSource
  <2>6. c.expression.kind = "measure"  BY <2>3, <2>4, <2>5
  <2> QED  BY <2>3, <2>6
<1>10. CASE o.op = "subquery"
  <2>1. Form(ast) = "two_step_aggregate"  BY <1>1, <1>6, <1>7, <1>10, FormKinds
  <2>2. PICK vs : q.with = CarriedOn(o, vs, "group", o.group_by) \o CarriedOn(o, vs, "measure", o.measures)
    BY <1>6, <1>10, <2>1, CompiledByForm, TwoStepClauses DEF CompiledForm
  <2>3. o.measures # <<>>
    <3>1. SubqueryErrors(d, o) = {}  BY <1>1, <1>10 DEF OperationErrors
    <3> QED  BY <3>1 DEF SubqueryErrors
  <2>4. Listed(o)  BY <1>10 DEF Shaped
  <2> QED  BY <2>2, <2>3, <2>4, WithMeasures
<1> QED  BY <1>4, <1>8, <1>9, <1>10

-----------------------------------------------------------------------------
(* The length of the path.                                                     *)

LEMMA MaxOfOne ==
    ASSUME NEW n \in Nat
    PROVE  Max({n}) = n
<1> QED  BY DEF Max

\* As many pairs as the first of a and the first of b numbers make.
LEMMA Pairs ==
    ASSUME NEW a \in Nat, NEW b \in Nat
    PROVE  Cardinality((1..a) \X (1..b)) = a * b
<1>1. /\ IsFiniteSet(1..a) /\ Cardinality(1..a) = a
      /\ IsFiniteSet(1..b) /\ Cardinality(1..b) = b
  BY UpTo
<1>2. Cardinality((1..a) \X (1..b)) = Cardinality(1..a) * Cardinality(1..b)  BY <1>1, FS_Product
<1> QED  BY <1>1, <1>2

(* The query walks as far as the gate took the DSL to. *)
LEMMA HopsReach ==
    ASSUME NEW d, ParserErrors(d) = {}, Shaped(d), NEW req, MissingRequirements(req, d) = {},
           d.shape # "named_path_pattern"
    PROVE  HopsWalked(Compile(BuildAst(d))) >= req.hops
<1> DEFINE ast == BuildAst(d)
           q == Compile(ast)
           c == Cardinality(EdgePlaces(d))
           paths == Operations(d, "variable_path")
<1>1. /\ d.shape \in QueryShape /\ Framed(d) /\ Single(d)
      /\ \A o \in ToSet(d.operations) : o.op = "variable_path" => o.max \in 1..8
  BY AcceptedOperations DEF Shaped
<1>2. PathHopCapacity(d) >= req.hops  BY DEF MissingRequirements, Code
<1>3. Form(ast) = Form(d) /\ EdgePlaces(ast) = EdgePlaces(d) /\ ast.operations = d.operations
      /\ \A op : SingleOperation(ast, op) = SingleOperation(d, op)
  BY AstOfDsl
<1>4. c \in Nat
  <2>1. Len(d.operations) \in Nat /\ DOMAIN d.operations = 1..Len(d.operations)  BY DEF Shaped, IsList
  <2>2. EdgePlaces(d) \in SUBSET (1..Len(d.operations))  BY <2>1 DEF EdgePlaces
  <2>3. IsFiniteSet(1..Len(d.operations))  BY <2>1, UpTo
  <2>4. IsFiniteSet(EdgePlaces(d))  BY <2>2, <2>3, FS_Subset
  <2> QED  BY <2>4, FS_CardinalityType
<1>5. Operations(d, "use_path_pattern") = {}
  <2>1. "use_path_pattern" \notin Kinds(d)  BY <1>1, FormKinds
  <2> QED  BY <2>1, HasKind DEF Has
<1>6. PathHopCapacity(d) = Max({c} \cup {o.max : o \in paths})
  <2>1. {99 : o \in Operations(d, "use_path_pattern")} = {}  BY <1>5
  <2> QED  BY <2>1 DEF PathHopCapacity
<1> HIDE DEF ast
<1> SUFFICES HopsWalked(q) = PathHopCapacity(d)  BY <1>2 DEF ast
<1>7. paths = {} => Max({c} \cup {o.max : o \in paths}) = c
  <2>1. paths = {} => {c} \cup {o.max : o \in paths} = {c}  OBVIOUS
  <2> QED  BY <1>4, <2>1, MaxOfOne
<1>8. CASE Form(ast) \in {"single_hop_traversal", "path_top_n"}
  <2>1. paths = {}
    <3>1. "variable_path" \notin Kinds(d)  BY <1>1, <1>3, <1>8, FormKinds
    <3> QED  BY <3>1, HasKind DEF Has
  <2>2. q.edges = TraverseEdges(ast)
    <3>1. CASE Form(ast) = "single_hop_traversal"  BY <3>1, CompiledByForm, SingleHopClauses DEF CompiledForm
    <3>2. CASE Form(ast) = "path_top_n"  BY <3>2, CompiledByForm, PathClauses DEF CompiledForm
    <3> QED  BY <1>8, <3>1, <3>2
  <2>3. DOMAIN q.edges = 1..c /\ \A i \in 1..c : q.edges[i].max = 1
    <3> DEFINE edge(o) == [name |-> ast.edgeRoles[o.edge], direction |-> o.direction, min |-> 1, max |-> 1]
               t == Traverses(ast)
    <3>1. DOMAIN t = 1..c  BY <1>3 DEF Traverses, ItemsAt, MapSeq, InOrder
    <3>2. q.edges = [i \in DOMAIN t |-> edge(t[i])]  BY <2>2, Zenon DEF TraverseEdges, MapSeq
    <3> HIDE DEF t
    <3> QED  BY <3>1, <3>2
  <2>4. HopsWalked(q) = c
    <3>1. UNION {{i} \X (1..q.edges[i].max) : i \in DOMAIN q.edges} = (1..c) \X (1..1)
      <4>1. \A i \in DOMAIN q.edges : {i} \X (1..q.edges[i].max) = {i} \X (1..1)  BY <2>3
      <4>2. UNION {{i} \X (1..q.edges[i].max) : i \in DOMAIN q.edges} = UNION {{i} \X (1..1) : i \in 1..c}
        BY <2>3, <4>1
      <4>3. UNION {{i} \X (1..1) : i \in 1..c} = (1..c) \X (1..1)  OBVIOUS
      <4> QED  BY <4>2, <4>3
    <3> HIDE DEF c
    <3>2. Cardinality((1..c) \X (1..1)) = c * 1  BY <1>4, Pairs
    <3>3. HopsWalked(q) = c * 1  BY <3>1, <3>2 DEF HopsWalked
    <3> QED  BY <1>4, <3>3
  <2> QED  BY <1>6, <1>7, <2>1, <2>4
<1>9. CASE Form(ast) = "variable_path_traversal"
  <2> DEFINE o == SingleOperation(d, "variable_path")
  <2>1. o \in ToSet(d.operations) /\ o.op = "variable_path" /\ "traverse_edge" \notin Kinds(d)
    <3>1. Has(d, "variable_path") /\ "traverse_edge" \notin Kinds(d)  BY <1>1, <1>3, <1>9, FormKinds, HasKind
    <3> QED  BY <3>1, SingleOperationIsOne
  <2> HIDE DEF o
  <2>2. paths = {o} /\ o.max \in 1..8  BY <1>1, <2>1, SoleOperation
  <2>3. c = 0
    <3>1. EdgePlaces(d) = {}
      <4>1. \A i \in DOMAIN d.operations : d.operations[i] \in ToSet(d.operations)  BY DEF ToSet
      <4>2. \A i \in DOMAIN d.operations : d.operations[i].op \in Kinds(d)  BY <4>1 DEF Kinds
      <4> QED  BY <2>1, <4>2 DEF EdgePlaces
    <3> QED  BY <3>1, FS_EmptySet
  <2>4. PathHopCapacity(d) = o.max
    <3>1. {c} \cup {p.max : p \in paths} = {0, o.max}  BY <2>2, <2>3
    <3>2. Max({0, o.max}) = o.max  BY <2>2 DEF Max
    <3> QED  BY <1>6, <3>1, <3>2
  <2>5. PICK e : q.edges = <<e>> /\ e.max = o.max
    <3>1. q = CompileVariablePath(ast)  BY <1>9, CompiledByForm DEF CompiledForm
    <3>2. SingleOperation(ast, "variable_path") = o  BY <1>3 DEF o
    <3> QED  BY <3>1, <3>2, VariablePathClauses
  <2>6. HopsWalked(q) = o.max
    <3>1. UNION {{i} \X (1..q.edges[i].max) : i \in DOMAIN q.edges} = (1..1) \X (1..o.max)
      <4>1. DOMAIN q.edges = {1} /\ q.edges[1].max = o.max  BY <2>5
      <4>2. UNION {{i} \X (1..q.edges[i].max) : i \in {1}} = {1} \X (1..q.edges[1].max)  OBVIOUS
      <4> QED  BY <4>1, <4>2
    <3>2. o.max \in Nat  BY <2>2
    <3>3. Cardinality((1..1) \X (1..o.max)) = 1 * o.max  BY <3>2, Pairs
    <3>4. HopsWalked(q) = 1 * o.max  BY <3>1, <3>3 DEF HopsWalked
    <3> QED  BY <3>2, <3>4
  <2> QED  BY <2>4, <2>6
<1>10. CASE Form(ast) \in {"vertex_lookup", "metric_aggregate", "ad_hoc_aggregate", "two_step_aggregate"}
  <2>1. "traverse_edge" \notin Kinds(d) /\ "variable_path" \notin Kinds(d)  BY <1>1, <1>3, <1>10, FormKinds
  <2>2. paths = {}  BY <2>1, HasKind DEF Has
  <2>3. c = 0
    <3>1. EdgePlaces(d) = {}
      <4>1. \A i \in DOMAIN d.operations : d.operations[i] \in ToSet(d.operations)  BY DEF ToSet
      <4>2. \A i \in DOMAIN d.operations : d.operations[i].op \in Kinds(d)  BY <4>1 DEF Kinds
      <4> QED  BY <2>1, <4>2 DEF EdgePlaces
    <3> QED  BY <3>1, FS_EmptySet
  <2>4. q.edges = <<>>
    <3>1. CASE Form(ast) = "vertex_lookup"  BY <3>1, CompiledByForm, LookupClauses DEF CompiledForm
    <3>2. CASE Form(ast) = "metric_aggregate"  BY <3>2, CompiledByForm, MetricClauses DEF CompiledForm
    <3>3. CASE Form(ast) = "ad_hoc_aggregate"  BY <3>3, CompiledByForm, AdHocClauses DEF CompiledForm
    <3>4. CASE Form(ast) = "two_step_aggregate"  BY <3>4, CompiledByForm, TwoStepClauses DEF CompiledForm
    <3> QED  BY <1>10, <3>1, <3>2, <3>3, <3>4
  <2>5. HopsWalked(q) = 0
    <3>1. UNION {{i} \X (1..q.edges[i].max) : i \in DOMAIN q.edges} = {}  BY <2>4
    <3> QED  BY <3>1, FS_EmptySet DEF HopsWalked
  <2> QED  BY <1>6, <1>7, <2>2, <2>3, <2>5
<1>11. Form(ast) # "named_path_pattern"  BY <1>1, <1>3, FormKinds
<1> QED  BY <1>1, <1>3, <1>8, <1>9, <1>10, <1>11, FormKinds

-----------------------------------------------------------------------------
(* What is handed to the parser.                                               *)

AsksForMeasure(d) == HasAggregate(d) => MeasureAsked(d)

LEMMA EmptyIsList == IsList(<<>>) /\ ToSet(<<>>) = {}
BY DEF IsList, ToSet

LEMMA OneIsList ==
    ASSUME NEW x
    PROVE  IsList(<<x>>) /\ ToSet(<<x>>) = {x}
BY DEF IsList, ToSet

LEMMA JoinedIsList ==
    ASSUME NEW a, IsList(a), NEW b, IsList(b)
    PROVE  IsList(a \o b) /\ ToSet(a \o b) = ToSet(a) \cup ToSet(b)
<1> DEFINE s == a \o b
           n == Len(a)
<1>1. /\ n \in Nat /\ DOMAIN a = 1..n
      /\ Len(b) \in Nat /\ DOMAIN b = 1..Len(b)
  BY DEF IsList
<1>2. a \in Seq(ToSet(a) \cup ToSet(b)) /\ b \in Seq(ToSet(a) \cup ToSet(b))  BY DEF IsList
<1>3. s \in Seq(ToSet(a) \cup ToSet(b))  BY <1>2
<1>4. /\ DOMAIN s = 1..n + Len(b)
      /\ \A i \in 1..n : s[i] = a[i]
      /\ \A i \in 1..Len(b) : s[n + i] = b[i]
  BY <1>1, <1>2
<1>5. IsList(s)  BY <1>3, ListOfItsItems
<1> HIDE DEF s, n
<1>6. ToSet(s) \subseteq ToSet(a) \cup ToSet(b)
  <2> SUFFICES ASSUME NEW i \in 1..n + Len(b) PROVE s[i] \in ToSet(a) \cup ToSet(b)  BY <1>4 DEF ToSet
  <2>1. i \in 1..n \/ (i - n \in 1..Len(b) /\ s[i] = b[i - n])  BY <1>1, <1>4
  <2> QED  BY <1>1, <1>4, <2>1 DEF ToSet
<1>7. ToSet(a) \cup ToSet(b) \subseteq ToSet(s)
  <2>1. \A i \in 1..n : i \in DOMAIN s  BY <1>1, <1>4
  <2>2. \A i \in 1..Len(b) : n + i \in DOMAIN s  BY <1>1, <1>4
  <2> QED  BY <1>1, <1>4, <2>1, <2>2 DEF ToSet
<1> QED  BY <1>5, <1>6, <1>7 DEF s

\* What no shape is refused for: an order, and a limit with a value.
Closing(o) == o.op = "sort" \/ (o.op = "limit" /\ o.value # None)

LEMMA SortLimitCloses ==
    ASSUME NEW p, NEW namespaces
    PROVE  LET s == SortLimit(p, namespaces)
           IN  /\ IsList(s) /\ \A o \in ToSet(s) : Closing(o)
               /\ p.sort = <<>> /\ p.limit = None => ToSet(s) = {}
<1> DEFINE sort == [op |-> "sort", by |-> MapSeq(p.sort, LAMBDA item : [source |-> AsNamed(namespaces, item.source),
                                                                         direction |-> item.direction])]
           limit == [op |-> "limit", value |-> p.limit]
           a == IF p.sort = <<>> THEN <<>> ELSE <<sort>>
           b == IF p.limit = None THEN <<>> ELSE <<limit>>
<1>1. SortLimit(p, namespaces) = a \o b  BY DEF SortLimit
<1>2. Closing(sort) /\ (p.limit # None => Closing(limit))  BY DEF Closing
<1>3. IsList(a) /\ (\A o \in ToSet(a) : Closing(o)) /\ (p.sort = <<>> => ToSet(a) = {})
  <2> HIDE DEF sort
  <2> QED  BY <1>2, EmptyIsList, OneIsList
<1>4. IsList(b) /\ (\A o \in ToSet(b) : Closing(o)) /\ (p.limit = None => ToSet(b) = {})
  <2> HIDE DEF limit
  <2> QED  BY <1>2, EmptyIsList, OneIsList
<1> HIDE DEF a, b
<1>5. IsList(a \o b) /\ ToSet(a \o b) = ToSet(a) \cup ToSet(b)  BY <1>3, <1>4, JoinedIsList
<1> QED  BY <1>1, <1>3, <1>4, <1>5

LEMMA ClosingIsShaped ==
    ASSUME NEW d, IsList(d.operations), \A o \in ToSet(d.operations) : Closing(o),
           d.shape \notin {"single_hop_traversal", "variable_path_traversal", "named_path_pattern"}
    PROVE  Shaped(d)
BY DEF Closing, Shaped

\* An operation that is neither an order nor a limit, as Shaped has it.
Leading(o) ==
    /\ o.op \notin {"sort", "limit"}
    /\ o.op = "use_path_pattern" => o.bind_as = "path"
    /\ o.op = "subquery" => Listed(o)

LEMMA LeadingThenClosing ==
    ASSUME NEW d, IsList(d.operations), \A o \in ToSet(d.operations) : Leading(o) \/ Closing(o),
           d.shape \in {"single_hop_traversal", "variable_path_traversal", "named_path_pattern"} =>
             \A o \in ToSet(d.operations) : Leading(o)
    PROVE  Shaped(d)
BY DEF Leading, Closing, Shaped, Has, Operations

LEMMA FirstThenSortLimit ==
    ASSUME NEW p, Buildable(p), NEW first, Leading(first), NEW namespaces,
           NEW d, d.shape = p.shape, d.operations = <<first>> \o SortLimit(p, namespaces)
    PROVE  Shaped(d)
<1> DEFINE s == SortLimit(p, namespaces)
<1>1. /\ IsList(s) /\ \A o \in ToSet(s) : Closing(o)
      /\ p.sort = <<>> /\ p.limit = None => ToSet(s) = {}
  BY SortLimitCloses
<1>2. p.shape \in {"single_hop_traversal", "variable_path_traversal", "named_path_pattern"} =>
        p.sort = <<>> /\ p.limit = None
  BY DEF Buildable, SortLimitCompiled
<1> HIDE DEF s
<1>3. IsList(<<first>> \o s) /\ ToSet(<<first>> \o s) = {first} \cup ToSet(s)  BY <1>1, OneIsList, JoinedIsList
<1>4. d.operations = <<first>> \o s  BY DEF s
<1> QED  BY <1>1, <1>2, <1>3, <1>4, LeadingThenClosing

LEMMA TraversalIsShaped ==
    ASSUME NEW p, IsList(p.edges), p.shape = "single_hop_traversal", Buildable(p)
    PROVE  Shaped(BuildTraversal(p))
<1> DEFINE d == BuildTraversal(p)
           s == SortLimit(p, NoRoles)
           walk == [i \in DOMAIN p.edges |->
                      [op |-> "traverse_edge", from |-> VertexRole(p, i), edge |-> EdgeRole(p, i),
                       to |-> VertexRole(p, i + 1), direction |-> p.edges[i].direction]]
<1>1. d.shape = "single_hop_traversal" /\ d.operations = walk \o s  BY DEF BuildTraversal, Dsl
<1>2. IsList(s) /\ ToSet(s) = {}
  <2>1. p.sort = <<>> /\ p.limit = None  BY DEF Buildable, SortLimitCompiled
  <2> QED  BY <2>1, SortLimitCloses
<1>3. IsList(walk)
  <2>1. Len(p.edges) \in Nat /\ DOMAIN p.edges = 1..Len(p.edges)  BY DEF IsList
  <2>2. walk = [i \in 1..Len(p.edges) |-> walk[i]]  BY <2>1
  <2> HIDE DEF walk
  <2> QED  BY <2>1, <2>2, FunctionIsList
<1>4. \A o \in ToSet(walk) : Leading(o)
  <2> SUFFICES ASSUME NEW i \in DOMAIN walk PROVE Leading(walk[i])  BY DEF ToSet
  <2> DEFINE o == walk[i]
  <2>1. o.op = "traverse_edge"  OBVIOUS
  <2> HIDE DEF o, walk
  <2>2. Leading(o)  BY <2>1 DEF Leading
  <2> QED  BY <2>2 DEF o
<1> HIDE DEF walk, s, d
<1>5. IsList(walk \o s) /\ ToSet(walk \o s) = ToSet(walk)  BY <1>2, <1>3, JoinedIsList
<1>6. Shaped(d)  BY <1>1, <1>4, <1>5, LeadingThenClosing
<1> QED  BY <1>6 DEF d

(* The builder makes no DSL the compiler would drop an order or a limit of. *)
LEMMA BuiltIsShaped ==
    ASSUME NEW p, IsList(p.edges), Listed(p), Buildable(p)
    PROVE  Shaped(Build(p))
<1> DEFINE d == Build(p)
<1> SUFFICES Shaped(d)  OBVIOUS
<1>1. CASE p.shape = "single_hop_traversal"
  <2>1. d = BuildTraversal(p)  BY <1>1 DEF Build, ByMetric
  <2> QED  BY <1>1, <2>1, TraversalIsShaped
<1>2. CASE p.shape = "vertex_lookup"
  <2>1. d = BuildVertexLookup(p)  BY <1>2 DEF Build, ByMetric
  <2>2. d.shape = "vertex_lookup" /\ d.operations = SortLimit(p, NoRoles)  BY <1>2, <2>1 DEF BuildVertexLookup, Dsl
  <2> HIDE DEF d
  <2> QED  BY <2>2, SortLimitCloses, ClosingIsShaped
<1>3. CASE p.shape = "variable_path_traversal"
  <2>1. d = BuildVariablePath(p)  BY <1>3 DEF Build, ByMetric
  <2>2. d.shape = p.shape /\ \E o : d.operations = <<o>> /\ o.op = "variable_path"
    <3> DEFINE ofThrough == {i \in DOMAIN p.filters : p.filters[i].owner = p.vertices[2]}
               fs == FilterItems(ItemsAt(p.filters, ofThrough), VariablePathRoles(p))
               others == FilterItems(ItemsAt(p.filters, DOMAIN p.filters \ ofThrough), VariablePathRoles(p))
               items == ProjectionItems(p.projection, VariablePathRoles(p))
               o == [op |-> "variable_path", bind_as |-> "path", start |-> "start", through |-> "through",
                     filters |-> fs, edges |-> <<p.edges[1].name>>, min |-> 1, max |-> 8]
               roles == [r \in {"start", "through"} |-> p.vertices[IF r = "start" THEN 1 ELSE 2]]
    <3>1. d = Dsl(p, roles, NoRoles, <<o>>, others, items)  BY <2>1, Zenon DEF BuildVariablePath
    <3>2. o.op = "variable_path"  OBVIOUS
    <3> HIDE DEF fs, others, items, o, roles, d
    <3>3. d.shape = p.shape /\ d.operations = <<o>>  BY <3>1 DEF Dsl
    <3> QED  BY <3>2, <3>3
  <2>3. PICK o : d.operations = <<o>> /\ o.op = "variable_path"  BY <2>2
  <2>4. IsList(d.operations) /\ \A x \in ToSet(d.operations) : Leading(x)  BY <2>3, OneIsList DEF Leading
  <2> HIDE DEF d
  <2> QED  BY <2>4, LeadingThenClosing
<1>4. CASE p.shape = "named_path_pattern"
  <2>1. d = BuildNamedPathPattern(p)  BY <1>4 DEF Build, ByMetric
  <2> DEFINE pattern == p.patterns[1]
             given == {x \in Parameters[pattern] : LiteralForParameter(p, x) # None}
             o == [op |-> "use_path_pattern", pattern |-> pattern, bind_as |-> "path",
                   parameters |-> [x \in given |-> LiteralForParameter(p, x)]]
  <2>2. \E roles, items : d = Dsl(p, roles, NoRoles, <<o>> \o SortLimit(p, NoRoles), <<>>, items)
    BY <2>1, Zenon DEF BuildNamedPathPattern
  <2>3. Leading(o)  BY DEF Leading
  <2> HIDE DEF o, d
  <2>4. d.shape = p.shape /\ d.operations = <<o>> \o SortLimit(p, NoRoles)  BY <2>2 DEF Dsl
  <2> QED  BY <2>3, <2>4, FirstThenSortLimit
<1>5. CASE p.shape = "two_step_aggregate"
  <2>1. d = BuildTwoStepAggregate(p)  BY <1>5 DEF Build, ByMetric
  <2> DEFINE bindAs == SubqueryBindAs(p)
             namespaces == [ns \in {"group", "measure"} |-> bindAs]
             o == [op |-> "subquery", bind_as |-> bindAs, group_by |-> p.group_by, measures |-> p.measures]
  <2>2. \E roles, items : d = Dsl(p, roles, NoRoles, <<o>> \o SortLimit(p, namespaces), <<>>, items)
    BY <2>1, Zenon DEF BuildTwoStepAggregate
  <2>3. Leading(o)  BY DEF Leading, Listed
  <2> HIDE DEF o, d, namespaces
  <2>4. d.shape = p.shape /\ d.operations = <<o>> \o SortLimit(p, namespaces)  BY <2>2 DEF Dsl
  <2> QED  BY <2>3, <2>4, FirstThenSortLimit
<1>6. CASE d = BuildMetricAggregate(p)
  <2> DEFINE o == [op |-> "metric_aggregate", metric |-> p.metrics[1], group_by |-> p.group_by,
                   filters |-> FilterItems(p.filters, MetricRoles(p.metrics[1]))]
  <2>1. \E items : d = Dsl(p, NoRoles, NoRoles, <<o>> \o SortLimit(p, NoRoles), <<>>, items)
    BY <1>6, Zenon DEF BuildMetricAggregate
  <2>2. Leading(o)  BY DEF Leading
  <2> HIDE DEF o, d
  <2>3. d.shape = p.shape /\ d.operations = <<o>> \o SortLimit(p, NoRoles)  BY <2>1 DEF Dsl
  <2> QED  BY <2>2, <2>3, FirstThenSortLimit
<1>7. CASE d = BuildAdHocAggregate(p)
  <2> DEFINE o == [op |-> "aggregate", group_by |-> p.group_by, measures |-> p.measures]
  <2>1. d = Dsl(p, AggregateVertexRoles(p), NoRoles, <<o>> \o SortLimit(p, NoRoles),
                FilterItems(p.filters, AggregateRoleByOwner(p)), AggregateProjection(p, NoRoles))
    BY <1>7, Zenon DEF BuildAdHocAggregate
  <2>2. Leading(o)  BY DEF Leading
  <2> HIDE DEF o, d
  <2>3. d.shape = p.shape /\ d.operations = <<o>> \o SortLimit(p, NoRoles)  BY <2>1 DEF Dsl
  <2> QED  BY <2>2, <2>3, FirstThenSortLimit
<1> QED  BY <1>1, <1>2, <1>3, <1>4, <1>5, <1>6, <1>7 DEF Build

LEMMA LookupIsShaped ==
    ASSUME NEW req, NEW vertex, NEW filters, NEW items
    PROVE  LET d == ZeroHopDsl("vertex_lookup", vertex, LookupLimit(req), filters, items)
           IN  Shaped(d) /\ AsksForMeasure(d)
<1> DEFINE d == ZeroHopDsl("vertex_lookup", vertex, LookupLimit(req), filters, items)
           limit == [op |-> "limit", value |-> req.value]
<1> SUFFICES Shaped(d) /\ AsksForMeasure(d)  OBVIOUS
<1>1. d.shape = "vertex_lookup" /\ d.operations = LookupLimit(req)  BY DEF ZeroHopDsl
<1>2. limit.op = "limit" /\ limit.value = req.value
  BY DEF TopAggregate, TopSort, TopLimit
<1>3. LookupLimit(req) = IF req.value = None THEN <<>> ELSE <<limit>>  BY DEF LookupLimit
<1> HIDE DEF d, limit
<1>4. IsList(d.operations) /\ \A o \in ToSet(d.operations) : o.op = "limit" /\ o.value # None
  BY <1>1, <1>2, <1>3, EmptyIsList, OneIsList
<1>5. Shaped(d)  BY <1>1, <1>4, ClosingIsShaped DEF Closing
<1>6. ~HasAggregate(d)  BY <1>1, <1>4 DEF HasAggregate
<1> QED  BY <1>5, <1>6 DEF AsksForMeasure

LEMMA CountIsShaped ==
    ASSUME NEW w, w.measures = <<>> \/ 1 \in DOMAIN w.measures, NEW vertex, NEW properties,
           AssembleF3(w, vertex, properties) # None
    PROVE  Shaped(AssembleF3(w, vertex, properties)) /\ AsksForMeasure(AssembleF3(w, vertex, properties))
<1> DEFINE measures == IF w.measures = <<>> THEN <<[alias |-> None, function |-> "count", name |-> None, terms |-> {}]>>
                       ELSE w.measures
           named(m) == IF m.name = None THEN IdProperty[vertex] ELSE m.name
           alias(m) == AliasOr(m, SnakeCase[vertex] \o "_count")
           conditions == ZeroHopConditions(w, vertex, properties, ByLiterals(w) \o ByPresence(w))
           o == [op |-> "aggregate", group_by |-> <<>>,
                 measures |-> MapSeq(measures, LAMBDA m : [alias |-> alias(m), function |-> "count", target |-> "target",
                                                           owner |-> vertex, name |-> named(m)])]
           items == MapSeq(measures, LAMBDA m : MeasureItem(m, alias(m)))
           d == AssembleF3(w, vertex, properties)
<1> SUFFICES Shaped(d) /\ AsksForMeasure(d)  OBVIOUS
<1>1. d = ZeroHopDsl("ad_hoc_aggregate", vertex, <<o>>, conditions, items)  BY Zenon DEF AssembleF3
<1>2. o.op = "aggregate"  OBVIOUS
<1>3. 1 \in DOMAIN items /\ items[1].kind = "source" /\ items[1].source.ns = "measure"
  <2>1. 1 \in DOMAIN measures  OBVIOUS
  <2> HIDE DEF measures
  <2>2. 1 \in DOMAIN items /\ items[1] = MeasureItem(measures[1], alias(measures[1]))  BY <2>1 DEF MapSeq
  <2> HIDE DEF items
  <2> QED  BY <2>2 DEF MeasureItem
<1> HIDE DEF o, items, conditions, measures, d
<1>4. d.shape = "ad_hoc_aggregate" /\ d.operations = <<o>> /\ d.projection = items  BY <1>1 DEF ZeroHopDsl
<1>5. Shaped(d)
  <2>1. Leading(o)  BY <1>2 DEF Leading
  <2>2. IsList(d.operations) /\ \A x \in ToSet(d.operations) : Leading(x)  BY <1>4, <2>1, OneIsList
  <2> QED  BY <2>2, LeadingThenClosing
<1>6. MeasureAsked(d)  BY <1>3, <1>4 DEF MeasureAsked, ToSet
<1> QED  BY <1>5, <1>6 DEF AsksForMeasure

LEMMA ZeroHopIsShaped ==
    ASSUME NEW w, w.measures = <<>> \/ 1 \in DOMAIN w.measures, NEW req, NEW candidates, NEW family, NEW v,
           AssembleZeroHop(w, req, candidates, family, v) # None
    PROVE  LET d == AssembleZeroHop(w, req, candidates, family, v)
           IN  Shaped(d) /\ AsksForMeasure(d)
<1> DEFINE Good(d) == Shaped(d) /\ AsksForMeasure(d)
<1>1. \A vertex, filters, items : Good(ZeroHopDsl("vertex_lookup", vertex, LookupLimit(req), filters, items))
  BY LookupIsShaped
<1>2. \A vertex, properties : AssembleF3(w, vertex, properties) # None => Good(AssembleF3(w, vertex, properties))
  BY CountIsShaped
<1> HIDE DEF Good
<1>3. \A vertex, properties : AssembleF1(w, req, vertex, properties) # None => Good(AssembleF1(w, req, vertex, properties))
  BY <1>1, Zenon DEF AssembleF1
<1>4. \A vertex, properties : AssembleF2(w, req, vertex, properties) # None => Good(AssembleF2(w, req, vertex, properties))
  BY <1>1, Zenon DEF AssembleF2
<1>5. Good(AssembleZeroHop(w, req, candidates, family, v))  BY <1>2, <1>3, <1>4 DEF AssembleZeroHop
<1> QED  BY <1>5 DEF Good

(* A path is walked before anything else is done. *)
LEMMA PathOperations ==
    ASSUME NEW shape, NEW path, NEW n \in Nat, DOMAIN path.edges = 1..n,
           NEW tail, IsList(tail), NEW filters, NEW projection
    PROVE  LET d == PathDsl(shape, path, tail, filters, projection)
           IN  /\ d.shape = shape /\ d.projection = projection /\ IsList(d.operations)
               /\ \A o \in ToSet(d.operations) : o \in ToSet(tail) \/ o.op = "traverse_edge"
<1> DEFINE d == PathDsl(shape, path, tail, filters, projection)
           walk == [i \in DOMAIN path.edges |->
                      [op |-> "traverse_edge", from |-> PathRole(i), edge |-> EdgeName(i), to |-> PathRole(i + 1),
                       direction |-> IF From[path.edges[i]] = path.vertices[i] THEN "forward" ELSE "backward"]]
<1>1. d.shape = shape /\ d.projection = projection  BY DEF PathDsl
<1>2. d.operations = walk \o tail  BY Zenon DEF PathDsl
<1>3. IsList(walk)
  <2>1. walk = [i \in 1..n |-> walk[i]]  OBVIOUS
  <2> HIDE DEF walk
  <2> QED  BY <2>1, FunctionIsList
<1>4. \A i \in DOMAIN walk : walk[i].op = "traverse_edge"  OBVIOUS
<1> HIDE DEF walk, d
<1>5. IsList(walk \o tail) /\ ToSet(walk \o tail) = ToSet(walk) \cup ToSet(tail)  BY <1>3, JoinedIsList
<1>6. \A o \in ToSet(walk) : o.op = "traverse_edge"  BY <1>4 DEF ToSet
<1> QED  BY <1>1, <1>2, <1>5, <1>6 DEF d

LEMMA WalkIsShaped ==
    ASSUME NEW path, NEW n \in Nat, DOMAIN path.edges = 1..n, NEW filters, NEW items
    PROVE  LET d == PathDsl("single_hop_traversal", path, <<>>, filters, items)
           IN  Shaped(d) /\ AsksForMeasure(d)
<1> DEFINE d == PathDsl("single_hop_traversal", path, <<>>, filters, items)
<1> SUFFICES Shaped(d) /\ AsksForMeasure(d)  OBVIOUS
<1>1. /\ d.shape = "single_hop_traversal" /\ IsList(d.operations)
      /\ \A o \in ToSet(d.operations) : o \in ToSet(<<>>) \/ o.op = "traverse_edge"
  BY EmptyIsList, PathOperations
<1> HIDE DEF d
<1>2. \A o \in ToSet(d.operations) : o.op = "traverse_edge"  BY <1>1, EmptyIsList
<1>3. Shaped(d)  BY <1>1, <1>2, LeadingThenClosing DEF Leading
<1>4. ~HasAggregate(d)  BY <1>1, <1>2 DEF HasAggregate
<1> QED  BY <1>3, <1>4 DEF AsksForMeasure

LEMMA ThreeAreList ==
    ASSUME NEW a, NEW b, NEW c
    PROVE  IsList(<<a, b, c>>) /\ ToSet(<<a, b, c>>) = {a, b, c}
BY DEF IsList, ToSet

LEMMA TopIsShaped ==
    ASSUME NEW w, NEW req, NEW p, NEW n \in Nat, DOMAIN p.edges = 1..n, NEW properties,
           AssembleF6(w, req, p, properties) # None
    PROVE  LET d == AssembleF6(w, req, p, properties)
           IN  Shaped(d) /\ AsksForMeasure(d)
<1> DEFINE d == AssembleF6(w, req, p, properties)
           a == TopAggregate(w, p, properties)
           sort == TopSort(w, req, properties)
           limit == TopLimit(req)
           group == TopGroupItem(w, properties)
           measure == MeasureItem(w.measures[1], TopMeasureAlias(w, properties))
<1> SUFFICES Shaped(d) /\ AsksForMeasure(d)  OBVIOUS
<1>1. d = PathDsl("top_n", p, <<a, sort, limit>>, <<>>, <<group, measure>>)  BY TopIsPath
<1>2. req.value # None  BY Zenon DEF AssembleF6
<1>3. a.op = "aggregate" /\ sort.op = "sort" /\ limit.op = "limit" /\ limit.value = req.value
  BY DEF TopAggregate, TopSort, TopLimit
<1>4. measure.kind = "source" /\ measure.source.ns = "measure"  BY DEF MeasureItem
<1> HIDE DEF d, a, sort, limit, group, measure
<1>5. /\ d.shape = "top_n" /\ d.projection = <<group, measure>> /\ IsList(d.operations)
      /\ \A o \in ToSet(d.operations) : o \in {a, sort, limit} \/ o.op = "traverse_edge"
  BY <1>1, ThreeAreList, PathOperations
<1>6. Shaped(d)
  <2>1. Leading(a) /\ Closing(sort) /\ Closing(limit)  BY <1>2, <1>3 DEF Leading, Closing
  <2>2. \A o \in ToSet(d.operations) : Leading(o) \/ Closing(o)  BY <1>5, <2>1 DEF Leading
  <2> QED  BY <1>5, <2>2, LeadingThenClosing
<1>7. MeasureAsked(d)
  <2>1. measure \in ToSet(d.projection)  BY <1>5 DEF ToSet
  <2> QED  BY <1>4, <2>1 DEF MeasureAsked
<1> QED  BY <1>6, <1>7 DEF AsksForMeasure

LEMMA MultihopIsShaped ==
    ASSUME NEW w, NEW req, NEW candidates, NamesOf(candidates, "vertex") \subseteq Vertices, NEW family,
           AssembleMultihop(w, req, candidates, family) # None
    PROVE  LET d == AssembleMultihop(w, req, candidates, family)
           IN  Shaped(d) /\ AsksForMeasure(d)
<1> DEFINE p == PathPlan(w, candidates)
           properties == MultihopProperties(candidates)
           d == AssembleMultihop(w, req, candidates, family)
           n == Len(p.vertices) - 1
           Good(x) == Shaped(x) /\ AsksForMeasure(x)
<1> SUFFICES Good(d)  OBVIOUS
<1>1. /\ p # None
      /\ d \in {AssembleF4(w, p, properties), AssembleF5(w, p, properties), AssembleF6(w, req, p, properties)}
      /\ d # None
  BY DEF AssembleMultihop
<1>2. n \in Nat /\ DOMAIN p.edges = 1..n
  <2>1. IsList(p.vertices) /\ Len(p.vertices) >= 2 /\ DOMAIN p.edges = 1..Len(p.vertices) - 1
    BY <1>1, PlanIsPath
  <2>2. Len(p.vertices) \in Nat  BY <2>1 DEF IsList
  <2> QED  BY <2>1, <2>2
<1> HIDE DEF p, d, n, properties
<1>3. \A filters, items : Good(PathDsl("single_hop_traversal", p, <<>>, filters, items))  BY <1>2, WalkIsShaped
<1>4. AssembleF6(w, req, p, properties) # None => Good(AssembleF6(w, req, p, properties))  BY <1>2, TopIsShaped
<1> HIDE DEF Good
<1>5. AssembleF4(w, p, properties) # None => Good(AssembleF4(w, p, properties))  BY <1>3, Zenon DEF AssembleF4
<1>6. AssembleF5(w, p, properties) # None => Good(AssembleF5(w, p, properties))  BY <1>3, Zenon DEF AssembleF5
<1> QED  BY <1>1, <1>4, <1>5, <1>6

LEMMA RequestedMeasures ==
    ASSUME NEW w, NEW req, NEW family, NEW vertices
    PROVE  LET measures == RequestFor(w, req, family, vertices).measures
           IN  measures = <<>> \/ 1 \in DOMAIN measures
<1> DEFINE First(s) == s = <<>> \/ 1 \in DOMAIN s
           groups == IF family = "F6" THEN GroupBy(w, vertices) ELSE <<>>
           measures == CASE family = "F3" /\ Len(vertices) = 1 -> CountMeasures(w, vertices[1])
                         [] family = "F6" -> PathMeasures(w, vertices, groups)
                         [] OTHER -> <<>>
<1>1. RequestFor(w, req, family, vertices).measures = measures  BY DEF RequestFor, RequestWith
<1>2. First(CountMeasures(w, vertices[1]))
  <2>1. \A v, property, texts : First(MeasuresFor(v, property, texts))
    <3> TAKE v, property, texts
    <3>1. CASE property = None  BY <3>1 DEF MeasuresFor
    <3>2. CASE property # None /\ texts = {}  BY <3>2 DEF MeasuresFor
    <3>3. CASE property # None /\ texts # {}
      <4>1. \E a, b : MeasuresFor(v, property, texts) = <<a, b>>  BY <3>3, Zenon DEF MeasuresFor
      <4> QED  BY <4>1
    <3> QED  BY <3>1, <3>2, <3>3
  <2> QED  BY <2>1 DEF CountMeasures
<1>3. First(PathMeasures(w, vertices, groups))
  <2>1. PathMeasures(w, vertices, groups) = <<>> \/ \E a : PathMeasures(w, vertices, groups) = <<a>>
    BY Zenon DEF PathMeasures
  <2> QED  BY <2>1
<1>4. First(measures)
  <2> HIDE DEF groups, First
  <2>1. First(<<>>)  BY DEF First
  <2> QED  BY <1>2, <1>3, <2>1
<1> QED  BY <1>1, <1>4

(* Nor do the assemblers, and what they count they return. *)
LEMMA AssembledIsShaped ==
    ASSUME NEW w, NEW req, NEW candidates, NamesOf(candidates, "vertex") \subseteq Vertices,
           Assemble(w, req, candidates) # None
    PROVE  Shaped(Assemble(w, req, candidates)) /\ AsksForMeasure(Assemble(w, req, candidates))
<1> DEFINE family == Family(w, req)
           request == RequestFor(w, req, family, SelectedVertices(w, req, candidates, family))
           vertex == OnlyMember(ZeroHopVertices(w, req, candidates))
           d == Assemble(w, req, candidates)
<1>1. \/ d = AssembleZeroHop(request, req, candidates, family, vertex)
      \/ d = AssembleMultihop(request, req, candidates, family)
  BY DEF Assemble, AssembleFamily, AssembleRequest
<1>2. request.measures = <<>> \/ 1 \in DOMAIN request.measures  BY RequestedMeasures
<1> HIDE DEF request, vertex, family
<1> QED  BY <1>1, <1>2, ZeroHopIsShaped, MultihopIsShaped

-----------------------------------------------------------------------------
(* What the LLM's way hands on.                                                *)

LEMMA MappedIsList ==
    ASSUME NEW s, IsList(s), NEW t, NEW F, t = [i \in DOMAIN s |-> F[i]]
    PROVE  IsList(t)
<1>1. Len(s) \in Nat /\ DOMAIN s = 1..Len(s)  BY DEF IsList
<1> QED  BY <1>1, FunctionIsList

LEMMA BoundLists ==
    ASSUME NEW u, Listed(u)
    PROVE  Listed(Bind(u))
<1> DEFINE measures == MapSeq(u.measures, NormalizeMeasure)
<1>1. Bind(u).group_by = u.group_by /\ Bind(u).measures = measures  BY DEF Bind
<1>2. measures = [i \in DOMAIN u.measures |-> [k \in DOMAIN u.measures |-> NormalizeMeasure(u.measures[k])][i]]
  BY DEF MapSeq
<1>3. IsList(measures)  BY <1>2, MappedIsList DEF Listed
<1> QED  BY <1>1, <1>3 DEF Listed

LEMMA EnrichedLists ==
    ASSUME NEW a \in Understandings, NEW literals
    PROVE  Listed(EnrichProjection(ToBinderPayload(Hydrate(a, literals))))
<1> DEFINE h == Hydrate(a, literals)
           u == ToBinderPayload(h)
<1>1. /\ "group_by" \in DOMAIN a /\ IsList(a.group_by) /\ "measures" \in DOMAIN a /\ IsList(a.measures)
  BY UnderstandingsAssumption DEF IsList
<1>2. \A s, f : IsList(s) /\ f = [i \in DOMAIN s |-> f[i]] => IsList(f)  BY MappedIsList
<1>3. IsList(MapSeq(a.group_by, HydrateGroup)) /\ IsList(MapSeq(a.measures, HydrateMeasure))
  <2>1. \A s : IsList(s) => IsList(MapSeq(s, HydrateGroup)) /\ IsList(MapSeq(s, HydrateMeasure))
    BY <1>2 DEF MapSeq
  <2> QED  BY <1>1, <2>1
<1>4. DOMAIN h = DOMAIN a /\ IsList(h.group_by) /\ IsList(h.measures)  BY <1>1, <1>3 DEF Hydrate
<1>5. u.group_by = h.group_by /\ u.measures = h.measures  BY <1>1, <1>4 DEF ToBinderPayload
<1> HIDE DEF h, u
<1>6. EnrichProjection(u).group_by = u.group_by /\ EnrichProjection(u).measures = u.measures  BY DEF EnrichProjection
<1> QED  BY <1>4, <1>5, <1>6 DEF Listed, u, h

-----------------------------------------------------------------------------
(* The runs.                                                                   *)

BeforeQuery == {"dsl_parser", "dsl_structural_coverage_gate", "cypher_compiler"}

\* What each stage hands on for a requirement to survive the next ones.
ReachInv ==
    /\ step = "semantic_binder" => Listed(understanding)
    /\ step \in {"semantic_validator", "dsl_builder"} => Listed(plan)
    /\ step \in BeforeQuery => Shaped(dsl) /\ (Assembled => AsksForMeasure(dsl))
    /\ step = "cypher_compiler" => MissingRequirements(Required, dsl) = {}
    /\ step = "cypher_self_validation" => RequirementsReached
    /\ RequirementsReachQuery

Steps == {"semantic_binder", "semantic_validator", "dsl_builder", "cypher_self_validation"} \cup BeforeQuery

\* How a run ends that generates nothing.
LEMMA NotGenerated ==
    ASSUME NEW stages, NEW reason
    PROVE  /\ P!Failure(stages, reason) => step' = "done" /\ answer'.status # "generated"
           /\ P!Unexpected(stages) => step' = "done" /\ answer'.status # "generated"
           /\ P!Clarification(stages) => step' = "done" /\ answer'.status # "generated"
<1>1. \A r : P!StatusForFailureReason(r) # "generated"  BY DEF P!StatusForFailureReason
<1> QED  BY <1>1 DEF P!Failure, P!Fail, P!Unexpected, P!Clarification, P!Finish

LEMMA ReachStops ==
    ASSUME step' = "done", answer'.status # "generated"
    PROVE  ReachInv'
BY DEF ReachInv, BeforeQuery, RequirementsReachQuery, Generated

LEMMA ReachPasses ==
    ASSUME GapsInv, step # "done", answer' = answer, step' \notin Steps
    PROVE  ReachInv'
BY DEF ReachInv, Steps, BeforeQuery, GapsInv, RequirementsReachQuery, Generated

LEMMA SameShape ==
    ASSUME dsl' = dsl
    PROVE  (Shaped(dsl)' <=> Shaped(dsl)) /\ (AsksForMeasure(dsl)' <=> AsksForMeasure(dsl))
BY DEF Shaped, Has, Operations, Listed, IsList, AsksForMeasure, HasAggregate, MeasureAsked

LEMMA SameReach ==
    ASSUME UNCHANGED <<question, calls, dsl, query>>
    PROVE  RequirementsReached' <=> RequirementsReached
BY DEF RequirementsReached, Required, Assembled, Aggregated, MeasureAsked, HopsWalked

(* The query of a DSL the parser and the gate have let through does what the  *)
(* question's wording requires.                                               *)
LEMMA CompiledReaches ==
    ASSUME ParserErrors(dsl) = {}, Shaped(dsl), MissingRequirements(Required, dsl) = {},
           Assembled => AsksForMeasure(dsl),
           UNCHANGED <<question, calls, dsl>>, query' = Compile(BuildAst(dsl))
    PROVE  RequirementsReached'
<1> DEFINE req == Required
           q == Compile(BuildAst(dsl))
<1>1. req.order_by => \E x \in ToSet(q.order) : req.direction \in {x.direction, None}  BY OrderReaches
<1>2. req.limit => q.limit # None /\ req.value \in {q.limit, None}  BY LimitReaches
<1>3. req.aggregate /\ (Assembled \/ MeasureAsked(dsl)) => Aggregated(q)
  <2> SUFFICES ASSUME req.aggregate, Assembled \/ MeasureAsked(dsl) PROVE Aggregated(q)  OBVIOUS
  <2>1. Code(req.aggregate => HasAggregate(dsl), "aggregate_required") = {}
    BY Zenon DEF MissingRequirements
  <2>2. HasAggregate(dsl)  BY <2>1 DEF Code
  <2>3. MeasureAsked(dsl)  BY <2>2 DEF AsksForMeasure
  <2> QED  BY <2>3, AggregateReaches
<1>4. dsl.shape = "named_path_pattern" \/ HopsWalked(q) >= req.hops  BY HopsReach
<1>5. UNCHANGED Required /\ UNCHANGED Assembled /\ UNCHANGED MeasureAsked(dsl)
  BY DEF Required, Assembled, MeasureAsked
<1>6. query' = q  OBVIOUS
<1> HIDE DEF q
<1>7. /\ req.order_by => \E x \in ToSet(query'.order) : req.direction \in {x.direction, None}
      /\ req.limit => query'.limit # None /\ req.value \in {query'.limit, None}
      /\ req.aggregate /\ (Assembled \/ MeasureAsked(dsl)) => Aggregated(query')
      /\ dsl.shape = "named_path_pattern" \/ HopsWalked(query') >= req.hops
  BY <1>1, <1>2, <1>3, <1>4, <1>6
<1>8. /\ Aggregated(query') <=> Aggregated(query)'
      /\ HopsWalked(query') = HopsWalked(query)'
  BY DEF Aggregated, HopsWalked
<1>9. dsl' = dsl /\ Required' = req  BY <1>5
<1> HIDE DEF req
<1> QED  BY <1>5, <1>7, <1>8, <1>9 DEF RequirementsReached

LEMMA ReachStep ==
    ASSUME GapsInv, AssembledInv, ReachInv, [Next]_vars
    PROVE  ReachInv'
<1> USE DEF Steps, BeforeQuery
<1>1. CASE Prepare
  <2>1. /\ step # "done" /\ answer' = answer
        /\ step' \in {"graph_model_loader", "input_clarification_gate", "question_decomposer", "candidate_reranker",
                      "literal_resolver"}
    BY <1>1 DEF Prepare, P!BuildClient, P!RunStage, P!Continue, P!After
  <2> QED  BY <2>1, ReachPasses
<1>2. CASE Decompose
  <2>1. step # "done" /\ answer' = answer /\ step' = "candidate_retrieval"  BY <1>2 DEF Decompose, P!Continue
  <2> QED  BY <2>1, ReachPasses
<1>3. CASE ResolveLiterals
  <2>1. \/ P!Clarification(P!Passed)
        \/ step # "done" /\ answer' = answer /\ step' \in {"repair_controller", "deterministic_assembler"}
    BY <1>3 DEF ResolveLiterals, P!Continue
  <2> QED  BY <2>1, NotGenerated, ReachStops, ReachPasses
<1>4. CASE AssembleDsl
  <2>1. /\ step # "done" /\ answer' = answer
        /\ dsl' = Assemble(question, Required, question.candidates)
        /\ step' = IF dsl' = None THEN "grounded_understanding" ELSE "dsl_parser"
    BY <1>4 DEF AssembleDsl, Go, P!Continue
  <2>2. CASE dsl' = None  BY <2>1, <2>2, ReachPasses
  <2>3. CASE dsl' # None
    <3>1. NamesOf(question.candidates, "vertex") \subseteq Vertices  BY QuestionsAssumption DEF GapsInv, KnownCandidates
    <3>2. Shaped(dsl') /\ AsksForMeasure(dsl')  BY <2>1, <2>3, <3>1, AssembledIsShaped
    <3>3. Shaped(dsl)' /\ AsksForMeasure(dsl)'
      BY <3>2 DEF Shaped, Has, Operations, Listed, IsList, AsksForMeasure, HasAggregate, MeasureAsked
    <3>4. ~Generated'  BY <2>1 DEF GapsInv, Generated
    <3> QED  BY <2>1, <2>3, <3>3, <3>4 DEF ReachInv, RequirementsReachQuery
  <2> QED  BY <2>2, <2>3
<1>5. CASE Understand
  <2>1. PICK a \in Understandings :
          \/ P!Failure(P!Passed, "semantic_match_rejected")
          \/ P!Failure(P!Passed, "grounded_understanding_schema_invalid")
          \/ /\ step # "done" /\ P!Continue("semantic_binder")
             /\ understanding' = EnrichProjection(ToBinderPayload(Hydrate(a, question.literals)))
    BY <1>5 DEF Understand
  <2>2. CASE \/ P!Failure(P!Passed, "semantic_match_rejected")
             \/ P!Failure(P!Passed, "grounded_understanding_schema_invalid")
    BY <2>2, NotGenerated, ReachStops
  <2>3. CASE /\ step # "done" /\ P!Continue("semantic_binder")
             /\ understanding' = EnrichProjection(ToBinderPayload(Hydrate(a, question.literals)))
    <3>1. Listed(understanding')  BY <2>3, EnrichedLists
    <3>2. Listed(understanding)'  BY <3>1 DEF Listed, IsList
    <3>3. step' = "semantic_binder" /\ ~Generated'  BY <2>3 DEF P!Continue, GapsInv, Generated
    <3> QED  BY <3>2, <3>3 DEF ReachInv, RequirementsReachQuery
  <2> QED  BY <2>1, <2>2, <2>3
<1>6. CASE BindUnderstanding
  <2>1. step = "semantic_binder"  BY <1>6 DEF BindUnderstanding
  <2>2. \/ P!Unexpected(P!Broken)
        \/ P!Failure(P!Broken, "semantic_match_rejected")
        \/ P!Continue("semantic_validator") /\ plan' = Bind(understanding)
    BY <1>6 DEF BindUnderstanding, Go, Stop
  <2>3. CASE P!Unexpected(P!Broken) \/ P!Failure(P!Broken, "semantic_match_rejected")
    BY <2>3, NotGenerated, ReachStops
  <2>4. CASE P!Continue("semantic_validator") /\ plan' = Bind(understanding)
    <3>1. Listed(plan')  BY <2>1, <2>4, BoundLists DEF ReachInv
    <3>2. Listed(plan)'  BY <3>1 DEF Listed, IsList
    <3>3. step' = "semantic_validator" /\ ~Generated'  BY <2>1, <2>4 DEF P!Continue, GapsInv, Generated
    <3> QED  BY <3>2, <3>3 DEF ReachInv, RequirementsReachQuery
  <2> QED  BY <2>2, <2>3, <2>4
<1>7. CASE ValidatePlan
  <2>1. step = "semantic_validator" /\ plan' = plan /\ step' \in {"dsl_builder", "repair_controller"} /\ answer' = answer
    BY <1>7 DEF ValidatePlan, work, P!Continue
  <2>2. Listed(plan)'  BY <2>1 DEF ReachInv, Listed, IsList
  <2>3. ~Generated'  BY <2>1 DEF GapsInv, Generated
  <2> QED  BY <2>1, <2>2, <2>3 DEF ReachInv, RequirementsReachQuery
<1>8. CASE DecideRepair
  <2>1. P!Clarification(P!Passed) \/ \E reason : P!Failure(P!Passed, reason)
    BY <1>8 DEF DecideRepair, P!DecideRepair
  <2> QED  BY <2>1, NotGenerated, ReachStops
<1>9. CASE BuildDsl
  <2>1. step = "dsl_builder" /\ calls' = calls  BY <1>9 DEF BuildDsl, Go, Stop
  <2>2. \/ P!Failure(P!Broken, "compiler_shape_mismatch")
        \/ Buildable(plan) /\ P!Continue("dsl_parser") /\ dsl' = Build(plan)
    BY <1>9 DEF BuildDsl, Go, Stop
  <2>3. CASE P!Failure(P!Broken, "compiler_shape_mismatch")  BY <2>3, NotGenerated, ReachStops
  <2>4. CASE Buildable(plan) /\ P!Continue("dsl_parser") /\ dsl' = Build(plan)
    <3>1. IsList(plan.edges) /\ Listed(plan)  BY <2>1 DEF GapsInv, HandedOn, ReachInv
    <3>2. Shaped(dsl')  BY <2>4, <3>1, BuiltIsShaped
    <3>3. Shaped(dsl)'  BY <3>2 DEF Shaped, Has, Operations, Listed, IsList
    <3>4. ~Assembled'  BY <2>1 DEF AssembledInv, AfterAnswer, Assembled
    <3>5. step' = "dsl_parser" /\ ~Generated'  BY <2>1, <2>4 DEF P!Continue, GapsInv, Generated
    <3> QED  BY <3>3, <3>4, <3>5 DEF ReachInv, RequirementsReachQuery
  <2> QED  BY <2>2, <2>3, <2>4
<1>10. CASE ParseDsl
  <2>1. step = "dsl_parser" /\ calls' = calls
    BY <1>10 DEF ParseDsl, Go, Stop
  <2>2. \/ P!Failure(P!Broken, "compiler_shape_mismatch")
        \/ P!Continue("dsl_structural_coverage_gate") /\ dsl' = dsl
    BY <1>10 DEF ParseDsl, Go, Stop, work
  <2>3. CASE P!Failure(P!Broken, "compiler_shape_mismatch")  BY <2>3, NotGenerated, ReachStops
  <2>4. CASE P!Continue("dsl_structural_coverage_gate") /\ dsl' = dsl
    <3>1. (Shaped(dsl) /\ (Assembled => AsksForMeasure(dsl)))'
      BY <2>1, <2>4, SameShape DEF ReachInv, Assembled
    <3>2. step' = "dsl_structural_coverage_gate" /\ ~Generated'  BY <2>1, <2>4 DEF P!Continue, GapsInv, Generated
    <3> QED  BY <3>1, <3>2 DEF ReachInv, RequirementsReachQuery
  <2> QED  BY <2>2, <2>3, <2>4
<1>11. CASE CheckCoverage
  <2>1. step = "dsl_structural_coverage_gate" /\ UNCHANGED <<calls, question>>
    BY <1>11 DEF CheckCoverage, Go, Stop
  <2>2. \/ P!Failure(P!Broken, "coverage_failure")
        \/ MissingRequirements(Required, dsl) = {} /\ P!Continue("cypher_compiler") /\ dsl' = dsl
    BY <1>11 DEF CheckCoverage, Go, Stop, work
  <2>3. CASE P!Failure(P!Broken, "coverage_failure")  BY <2>3, NotGenerated, ReachStops
  <2>4. CASE MissingRequirements(Required, dsl) = {} /\ P!Continue("cypher_compiler") /\ dsl' = dsl
    <3>1. (Shaped(dsl) /\ (Assembled => AsksForMeasure(dsl)))'
      BY <2>1, <2>4, SameShape DEF ReachInv, Assembled
    <3>2. (MissingRequirements(Required, dsl) = {})'
      <4>1. Required' = Required  BY <2>1 DEF Required
      <4>2. MissingRequirements(Required, dsl)' = MissingRequirements(Required', dsl')  OBVIOUS
      <4> QED  BY <2>4, <4>1, <4>2
    <3>3. step' = "cypher_compiler" /\ ~Generated'  BY <2>1, <2>4 DEF P!Continue, GapsInv, Generated
    <3> QED  BY <3>1, <3>2, <3>3 DEF ReachInv, RequirementsReachQuery
  <2> QED  BY <2>2, <2>3, <2>4
<1>12. CASE CompileQuery
  <2>1. step = "cypher_compiler" /\ UNCHANGED <<calls, question>>  BY <1>12 DEF CompileQuery, Go, Stop
  <2>2. \/ P!Failure(P!Broken, "compiler_shape_mismatch") \/ P!Unexpected(P!Broken)
        \/ P!Continue("cypher_self_validation") /\ dsl' = dsl /\ query' = Compile(BuildAst(dsl))
    BY <1>12 DEF CompileQuery, Go, Stop
  <2>3. CASE P!Failure(P!Broken, "compiler_shape_mismatch") \/ P!Unexpected(P!Broken)
    BY <2>3, NotGenerated, ReachStops
  <2>4. CASE P!Continue("cypher_self_validation") /\ dsl' = dsl /\ query' = Compile(BuildAst(dsl))
    <3>1. /\ ParserErrors(dsl) = {} /\ Shaped(dsl) /\ MissingRequirements(Required, dsl) = {}
          /\ Assembled => AsksForMeasure(dsl)
      BY <2>1 DEF GapsInv, HandedOn, ReachInv
    <3>2. RequirementsReached'  BY <2>1, <2>4, <3>1, CompiledReaches
    <3>3. step' = "cypher_self_validation"  BY <2>4 DEF P!Continue
    <3> QED  BY <3>2, <3>3 DEF ReachInv, RequirementsReachQuery
  <2> QED  BY <2>2, <2>3, <2>4
<1>13. CASE ValidateQuery
  <2>1. step = "cypher_self_validation" /\ UNCHANGED <<calls, question, dsl, query>>
    BY <1>13 DEF ValidateQuery, Stop, work
  <2>2. \/ P!Finish(P!Passed, "generated", NoReason)
        \/ \E code : P!Failure(P!Broken, code)
    BY <1>13 DEF ValidateQuery, Stop
  <2>3. CASE P!Finish(P!Passed, "generated", NoReason)
    <3>1. RequirementsReached'  BY <2>1, SameReach DEF ReachInv
    <3>2. step' = "done"  BY <2>3 DEF P!Finish
    <3> QED  BY <3>1, <3>2 DEF ReachInv, RequirementsReachQuery
  <2>4. CASE \E code : P!Failure(P!Broken, code)  BY <2>4, NotGenerated, ReachStops
  <2> QED  BY <2>2, <2>3, <2>4
<1>14. CASE Returned \/ UNCHANGED vars
  <2>1. UNCHANGED <<question, understanding, plan, dsl, query, calls, step, answer>>  BY <1>14 DEF Returned, vars, work
  <2>2. (Listed(understanding)' <=> Listed(understanding)) /\ (Listed(plan)' <=> Listed(plan))
    BY <2>1 DEF Listed, IsList
  <2>3. (RequirementsReached' <=> RequirementsReached) /\ (Assembled' <=> Assembled)
    BY <2>1, SameReach DEF Assembled
  <2>4. (Shaped(dsl)' <=> Shaped(dsl)) /\ (AsksForMeasure(dsl)' <=> AsksForMeasure(dsl))  BY <2>1, SameShape
  <2>5. MissingRequirements(Required, dsl)' = MissingRequirements(Required, dsl)
    <3>1. Required' = Required  BY <2>1 DEF Required
    <3>2. MissingRequirements(Required, dsl)' = MissingRequirements(Required', dsl')  OBVIOUS
    <3> QED  BY <2>1, <3>1, <3>2
  <2>6. step' = step /\ (Generated' <=> Generated)  BY <2>1 DEF Generated
  <2> QED  BY <2>2, <2>3, <2>4, <2>5, <2>6 DEF ReachInv, RequirementsReachQuery
<1> QED  BY <1>1, <1>2, <1>3, <1>4, <1>5, <1>6, <1>7, <1>8, <1>9, <1>10, <1>11, <1>12, <1>13, <1>14 DEF Next

(* Whatever the question is, whatever the LLM understands and whatever the     *)
(* graph model: a generated query has the order and its direction, the limit, *)
(* the length of path and, as far as a measure is to be returned, the         *)
(* aggregate that the question's words require.                                *)
THEOREM RequirementsReach == Spec => []RequirementsReachQuery
<1>1. Init => GapsInv /\ AssembledInv /\ ReachInv
  <2> SUFFICES ASSUME Init PROVE GapsInv /\ AssembledInv /\ ReachInv  OBVIOUS
  <2>1. question \in Questions /\ step = "client" /\ answer = NoAnswer /\ calls = 0 /\ dsl = None
    BY DEF Init, P!Init
  <2>2. GapsInv  BY <2>1, QuestionsAssumption DEF GapsInv, KnownCandidates, HandedOn, OnlyKnownGapsBreak
  <2>3. AssembledInv
    BY <2>1, QuestionsAssumption DEF AssembledInv, Assembled, BeforeDecomposition, BeforeDsl, AfterAnswer
  <2>4. ReachInv  BY <2>1 DEF ReachInv, BeforeQuery, RequirementsReachQuery, Generated
  <2> QED  BY <2>2, <2>3, <2>4
<1>2. GapsInv /\ AssembledInv /\ ReachInv /\ [Next]_vars => (GapsInv /\ AssembledInv /\ ReachInv)'
  BY GapsStep, AssembledStep, ReachStep
<1>3. ReachInv => RequirementsReachQuery  BY DEF ReachInv
<1> QED  BY <1>1, <1>2, <1>3, PTL DEF Spec

-----------------------------------------------------------------------------
(* What is assembled is compiled: what the parser takes, part by part.         *)

Accepted(d) == ParserErrors(d) = {} /\ ShapeCompiles(BuildAst(d))

Known(properties) == \A p \in properties : HasProperty(p.owner, p.name)

FitsCondition(f, roles) ==
    f.target \in DOMAIN roles /\ roles[f.target] = f.owner /\ HasProperty(f.owner, f.name) /\ f.operator \in DslOperator

FitsColumn(x, d) ==
    \/ x.kind = "source" /\ x.source \in SourceOutputs(d)
    \/ x.kind = "vertex_full" /\ x.target \in DOMAIN d.vertexRoles
    \/ /\ x.kind = "property" /\ x.target \in DOMAIN d.vertexRoles
       /\ d.vertexRoles[x.target] = x.owner /\ HasProperty(x.owner, x.name)

LEMMA NoErrors ==
    ASSUME NEW d, WellFormed(d), SequenceAllowed(d), BindingErrors(d) = {},
           \A o \in ToSet(d.operations) : OperationErrors(d, o) = {},
           FilterErrors(d.filters, d.vertexRoles) = {}, ProjectionErrors(d) = {}
    PROVE  ParserErrors(d) = {}
BY DEF ParserErrors

LEMMA ConditionsPass ==
    ASSUME NEW filters, NEW roles, \A f \in ToSet(filters) : FitsCondition(f, roles)
    PROVE  FilterErrors(filters, roles) = {}
BY DEF FilterErrors, FitsCondition, Code

LEMMA ColumnsPass ==
    ASSUME NEW d, \A x \in ToSet(d.projection) : FitsColumn(x, d),
           \A o \in ToSet(d.operations) : o.op = "sort" => \A x \in ToSet(o.by) : x.source \in SourceOutputs(d)
    PROVE  ProjectionErrors(d) = {}
<1> DEFINE errors(x) ==
             CASE x.kind = "source" -> Code(x.source \in SourceOutputs(d), "unknown_source_output")
               [] x.kind # "source" /\ x.target \notin DOMAIN d.vertexRoles -> {"unknown_projection_target"}
               [] x.kind = "property" /\ x.target \in DOMAIN d.vertexRoles ->
                    Code(d.vertexRoles[x.target] = x.owner, "projection_owner_mismatch")
                    \cup Code(HasProperty(x.owner, x.name), "unknown_property")
               [] OTHER -> {}
<1>1. ASSUME NEW x \in ToSet(d.projection) PROVE errors(x) = {}
  <2>1. FitsColumn(x, d)  OBVIOUS
  <2>2. CASE x.kind = "source"
    <3>1. x.source \in SourceOutputs(d)  BY <2>1, <2>2 DEF FitsColumn
    <3>2. errors(x) = Code(x.source \in SourceOutputs(d), "unknown_source_output")  BY <2>2
    <3> QED  BY <3>1, <3>2 DEF Code
  <2>3. CASE x.kind = "vertex_full"
    <3>1. x.target \in DOMAIN d.vertexRoles  BY <2>1, <2>3 DEF FitsColumn
    <3> QED  BY <2>3, <3>1
  <2>4. CASE x.kind = "property"
    <3>1. x.target \in DOMAIN d.vertexRoles /\ d.vertexRoles[x.target] = x.owner /\ HasProperty(x.owner, x.name)
      BY <2>1, <2>4 DEF FitsColumn
    <3> QED  BY <2>4, <3>1 DEF Code
  <2> QED  BY <2>1, <2>2, <2>3, <2>4 DEF FitsColumn
<1>2. Code(\A o \in Operations(d, "sort") : \A x \in ToSet(o.by) : x.source \in SourceOutputs(d),
           "unknown_source_output") = {}
  BY DEF Code, Operations
<1>3. ProjectionErrors(d) = (UNION {errors(x) : x \in ToSet(d.projection)})
                            \cup Code(\A o \in Operations(d, "sort") : \A x \in ToSet(o.by) :
                                        x.source \in SourceOutputs(d), "unknown_source_output")
  BY DEF ProjectionErrors
<1> HIDE DEF errors
<1> QED  BY <1>1, <1>2, <1>3

-----------------------------------------------------------------------------
(* One vertex.                                                                 *)

LEMMA OwnedIsKnown ==
    ASSUME NEW properties, Known(properties), NEW vertex, NEW name, OwnedBy(vertex, properties, name)
    PROVE  HasProperty(vertex, name)
<1>1. [owner |-> vertex, name |-> name] \in properties  BY DEF OwnedBy
<1> QED  BY <1>1 DEF Known

LEMMA ZeroHopColumns ==
    ASSUME NEW w, NEW vertex, NEW properties, Known(properties), ZeroHopItems(w, vertex, properties) # None
    PROVE  LET items == ZeroHopItems(w, vertex, properties)
           IN  /\ ToSet(items) # {}
               /\ \A x \in ToSet(items) :
                    /\ x.kind \in {"vertex_full", "property"} /\ x.target = "target"
                    /\ x.kind = "property" => x.owner = vertex /\ HasProperty(vertex, x.name)
<1> DEFINE items == ZeroHopItems(w, vertex, properties)
           item(x) == IF x.kind = "vertex_full" THEN VertexItem(x, "target")
                      ELSE PropertyItem(x, "target", [owner |-> vertex, name |-> x.name])
<1>1. /\ ToSet(w.projection) # {}
      /\ \A x \in ToSet(w.projection) : IF x.kind = "vertex_full" THEN x.name = vertex
                                        ELSE OwnedBy(vertex, properties, x.name)
      /\ items = [i \in DOMAIN w.projection |-> item(w.projection[i])]
  BY DEF ZeroHopItems, MapSeq
<1> HIDE DEF items
<1>2. ASSUME NEW x \in ToSet(w.projection)
      PROVE  /\ item(x).kind \in {"vertex_full", "property"} /\ item(x).target = "target"
             /\ item(x).kind = "property" => item(x).owner = vertex /\ HasProperty(vertex, item(x).name)
  <2>1. CASE x.kind = "vertex_full"  BY <2>1 DEF VertexItem
  <2>2. CASE x.kind # "vertex_full"
    <3>1. HasProperty(vertex, x.name)  BY <1>1, <2>2, OwnedIsKnown
    <3> QED  BY <2>2, <3>1 DEF PropertyItem
  <2> QED  BY <2>1, <2>2
<1> HIDE DEF item
<1>3. ToSet(items) = {item(x) : x \in ToSet(w.projection)}  BY <1>1 DEF ToSet
<1> QED  BY <1>1, <1>2, <1>3 DEF items

LEMMA ZeroHopFilters ==
    ASSUME NEW w, NEW vertex, NEW properties, Known(properties), NEW names,
           ZeroHopConditions(w, vertex, properties, names) # None
    PROVE  \A f \in ToSet(ZeroHopConditions(w, vertex, properties, names)) :
             f.target = "target" /\ f.owner = vertex /\ HasProperty(vertex, f.name) /\ f.operator \in DslOperator
<1> DEFINE filters == ZeroHopConditions(w, vertex, properties, names)
           of(c) == Condition(w, "target", [owner |-> vertex, name |-> c.name], c.operator)
<1>1. /\ \A c \in ToSet(names) : OwnedBy(vertex, properties, c.name) /\ c.operator \in DslOperator
      /\ filters = [i \in DOMAIN names |-> of(names[i])]
  BY DEF ZeroHopConditions, MapSeq
<1> HIDE DEF filters
<1>2. ASSUME NEW c \in ToSet(names)
      PROVE  /\ of(c).target = "target" /\ of(c).owner = vertex /\ HasProperty(vertex, of(c).name)
             /\ of(c).operator \in DslOperator
  BY <1>1, OwnedIsKnown DEF Condition
<1> HIDE DEF of
<1>3. ToSet(filters) = {of(c) : c \in ToSet(names)}  BY <1>1 DEF ToSet
<1> QED  BY <1>2, <1>3 DEF filters

LEMMA AllFields ==
    ASSUME NEW d
    PROVE  LET ast == BuildAst(d)
           IN  /\ ast.shape = d.shape /\ ast.vertexRoles = d.vertexRoles /\ ast.operations = d.operations
               /\ ast.filters = d.filters /\ ast.projection = d.projection
               /\ ast.sort = IF Has(d, "sort") THEN SingleOperation(d, "sort").by ELSE <<>>
BY DEF BuildAst

(* A vertex is looked up. *)
LEMMA LookupAccepted ==
    ASSUME NEW req, req.value = None \/ (req.value \in Nat /\ req.value > 0), NEW vertex \in Vertices,
           NEW filters, NEW items, ToSet(items) # {},
           \A x \in ToSet(items) : /\ x.kind \in {"vertex_full", "property"} /\ x.target = "target"
                                   /\ x.kind = "property" => x.owner = vertex /\ HasProperty(vertex, x.name),
           \A f \in ToSet(filters) : /\ f.target = "target" /\ f.owner = vertex /\ HasProperty(vertex, f.name)
                                     /\ f.operator \in DslOperator
    PROVE  Accepted(ZeroHopDsl("vertex_lookup", vertex, LookupLimit(req), filters, items))
<1> DEFINE d == ZeroHopDsl("vertex_lookup", vertex, LookupLimit(req), filters, items)
           ast == BuildAst(d)
<1>1. /\ d.shape = "vertex_lookup" /\ d.vertexRoles = [r \in {"target"} |-> vertex] /\ d.edgeRoles = <<>>
      /\ d.operations = LookupLimit(req) /\ d.filters = filters /\ d.projection = items
  BY DEF ZeroHopDsl, NoRoles
<1>2. /\ \A o \in ToSet(d.operations) : o.op = "limit" /\ o.value > 0
      /\ \/ d.operations = <<>>
         \/ \E o : d.operations = <<o>> /\ o.op = "limit"
  BY <1>1 DEF LookupLimit, ToSet
<1> HIDE DEF d
<1>3. WellFormed(d)
  <2>1. AllFilters(d) = ToSet(filters)  BY <1>1, <1>2 DEF AllFilters
  <2> QED  BY <1>1, <1>2, <2>1 DEF WellFormed, QueryShape
<1>4. SequenceAllowed(d)
  <2>1. MapSeq(d.operations, LAMBDA o : o.op) \in {<<>>, <<"limit">>}  BY <1>2 DEF MapSeq
  <2> QED  BY <1>1, <2>1 DEF SequenceAllowed
<1>5. BindingErrors(d) = {}  BY <1>1 DEF BindingErrors, Code
<1>6. \A o \in ToSet(d.operations) : OperationErrors(d, o) = {}  BY <1>2 DEF OperationErrors
<1>7. FilterErrors(d.filters, d.vertexRoles) = {}
  <2>1. \A f \in ToSet(d.filters) : FitsCondition(f, d.vertexRoles)  BY <1>1 DEF FitsCondition
  <2> QED  BY <2>1, ConditionsPass
<1>8. ProjectionErrors(d) = {}
  <2>1. \A x \in ToSet(d.projection) : FitsColumn(x, d)  BY <1>1 DEF FitsColumn
  <2> QED  BY <1>2, <2>1, ColumnsPass
<1>9. ShapeCompiles(ast)
  <2>1. /\ ast.shape = "vertex_lookup" /\ ast.filters = filters /\ ast.projection = items
        /\ ast.operations = d.operations /\ ast.sort = <<>>
    <3>1. ~Has(d, "sort")  BY <1>2 DEF Has, Operations
    <3> QED  BY <1>1, <3>1, AllFields
  <2> HIDE DEF ast
  <2>2. Form(ast) = "vertex_lookup"  BY <2>1 DEF Form
  <2>3. SingleVertexRole(ast) \ {None} = {"target"}  BY <2>1, RoleAssumption DEF SingleVertexRole
  <2>4. OrderCompiles(ast, <<>>)  BY <2>1 DEF OrderCompiles, ToSet
  <2>5. Cardinality({"target"}) = 1  BY FS_Singleton
  <2> QED  BY <2>2, <2>3, <2>4, <2>5 DEF ShapeCompiles
<1> QED  BY <1>3, <1>4, <1>5, <1>6, <1>7, <1>8, <1>9, NoErrors DEF Accepted, d

LEMMA OutputsOfAggregate ==
    ASSUME NEW o, o.op = "aggregate"
    PROVE  OperationOutputs(o) = {[ns |-> "group", name |-> x.alias] : x \in ToSet(o.group_by)}
                                 \cup {[ns |-> "measure", name |-> x.alias] : x \in ToSet(o.measures)}
BY Zenon DEF OperationOutputs

LEMMA SourcesOfAst ==
    ASSUME NEW d
    PROVE  SourceOutputs(BuildAst(d)) = SourceOutputs(d) /\ DOMAIN OutputNames(BuildAst(d)) = SourceOutputs(d)
<1>1. BuildAst(d).operations = d.operations  BY AllFields
<1> HIDE DEF SourceOutputs
<1>2. SourceOutputs(BuildAst(d)) = SourceOutputs(d)  BY <1>1 DEF SourceOutputs
<1> QED  BY <1>2 DEF OutputNames

(* A vertex is counted, or properties of it. *)
LEMMA CountAccepted ==
    ASSUME NEW vertex \in Vertices, NEW measures, ToSet(measures) # {},
           \A m \in ToSet(measures) : /\ m.function = "count" /\ m.target = "target" /\ m.owner = vertex
                                      /\ HasProperty(vertex, m.name),
           NEW items, \A x \in ToSet(items) : /\ x.kind = "source"
                                              /\ \E m \in ToSet(measures) : x.source = [ns |-> "measure", name |-> m.alias],
           NEW filters,
           \A f \in ToSet(filters) : /\ f.target = "target" /\ f.owner = vertex /\ HasProperty(vertex, f.name)
                                     /\ f.operator \in DslOperator,
           NEW o, o = [op |-> "aggregate", group_by |-> <<>>, measures |-> measures]
    PROVE  Accepted(ZeroHopDsl("ad_hoc_aggregate", vertex, <<o>>, filters, items))
<1> DEFINE d == ZeroHopDsl("ad_hoc_aggregate", vertex, <<o>>, filters, items)
           ast == BuildAst(d)
<1>1. /\ d.shape = "ad_hoc_aggregate" /\ d.vertexRoles = [r \in {"target"} |-> vertex] /\ d.edgeRoles = <<>>
      /\ d.operations = <<o>> /\ d.filters = filters /\ d.projection = items
  BY DEF ZeroHopDsl, NoRoles
<1>2. ToSet(d.operations) = {o}  BY <1>1 DEF ToSet
<1>3. o.op = "aggregate" /\ o.group_by = <<>> /\ o.measures = measures /\ ToSet(o.group_by) = {}  BY DEF ToSet
<1> HIDE DEF d
<1>4. WellFormed(d)
  <2>1. AllFilters(d) = ToSet(filters)  BY <1>1, <1>2, <1>3 DEF AllFilters
  <2>2. measures # <<>>  BY DEF ToSet
  <2>3. \A m \in ToSet(measures) : m.function \in AggregateFunctions  BY DEF AggregateFunctions
  <2> QED  BY <1>1, <1>2, <1>3, <2>1, <2>2, <2>3 DEF WellFormed, QueryShape
<1>5. SequenceAllowed(d)
  <2> DEFINE ops == MapSeq(d.operations, LAMBDA x : x.op)
  <2>1. ops = <<"aggregate">> \o <<>>  BY <1>1, <1>3 DEF MapSeq
  <2>2. <<>> \in Tails  BY DEF Tails
  <2>3. ShapeOperation[d.shape] = "aggregate"  BY <1>1 DEF ShapeOperation
  <2> QED  BY <1>1, <2>1, <2>2, <2>3 DEF SequenceAllowed
<1>6. BindingErrors(d) = {}  BY <1>1 DEF BindingErrors, Code
<1>7. \A x \in ToSet(d.operations) : OperationErrors(d, x) = {}
  <2>1. AggregateErrors(d, o) = {}
    <3> DEFINE errors(x) ==
                 CASE x.target \notin DOMAIN d.vertexRoles -> {"unknown_aggregate_target"}
                   [] x.target \in DOMAIN d.vertexRoles /\ d.vertexRoles[x.target] # x.owner -> {"aggregate_owner_mismatch"}
                   [] OTHER -> Code(HasProperty(x.owner, x.name), "unknown_property")
    <3>1. \A x \in ToSet(measures) : errors(x) = {}  BY <1>1 DEF Code
    <3>2. Code(\A m \in ToSet(measures) : m.function \in {"sum", "avg"} => <<m.owner, m.name>> \in Numeric,
               "invalid_aggregate_property_type") = {}
      BY DEF Code
    <3>3. AggregateErrors(d, o) =
            (UNION {errors(x) : x \in ToSet(o.group_by) \cup ToSet(o.measures)})
            \cup Code(\A m \in ToSet(o.measures) : m.function \in {"sum", "avg"} => <<m.owner, m.name>> \in Numeric,
                      "invalid_aggregate_property_type")
      BY DEF AggregateErrors
    <3>4. \A x \in ToSet(o.group_by) \cup ToSet(o.measures) : x \in ToSet(measures)  BY <1>3
    <3> HIDE DEF errors
    <3>5. \A x \in ToSet(o.group_by) \cup ToSet(o.measures) : errors(x) = {}  BY <3>1, <3>4
    <3>6. UNION {errors(x) : x \in ToSet(o.group_by) \cup ToSet(o.measures)} = {}  BY <3>5
    <3> QED  BY <3>2, <3>3, <3>6
  <2> QED  BY <1>2, <1>3, <2>1 DEF OperationErrors
<1>8. FilterErrors(d.filters, d.vertexRoles) = {}
  <2>1. \A f \in ToSet(d.filters) : FitsCondition(f, d.vertexRoles)  BY <1>1 DEF FitsCondition
  <2> QED  BY <2>1, ConditionsPass
<1>9. \A x \in ToSet(d.projection) : x.kind = "source" /\ x.source \in SourceOutputs(d)
  <2> SUFFICES ASSUME NEW x \in ToSet(items) PROVE x.kind = "source" /\ x.source \in SourceOutputs(d)  BY <1>1
  <2>1. PICK m \in ToSet(measures) : x.source = [ns |-> "measure", name |-> m.alias]  OBVIOUS
  <2>2. x.source \in OperationOutputs(o)  BY <1>3, <2>1, OutputsOfAggregate
  <2> QED  BY <1>2, <2>2 DEF SourceOutputs
<1>10. ProjectionErrors(d) = {}
  <2>1. \A x \in ToSet(d.projection) : FitsColumn(x, d)  BY <1>9 DEF FitsColumn
  <2> QED  BY <1>2, <1>3, <2>1, ColumnsPass
<1>11. ShapeCompiles(ast)
  <2>1. /\ ast.shape = "ad_hoc_aggregate" /\ ast.filters = filters /\ ast.projection = items
        /\ ast.operations = d.operations /\ ast.sort = <<>>
    <3>1. ~Has(d, "sort")  BY <1>2, <1>3 DEF Has, Operations
    <3> QED  BY <1>1, <3>1, AllFields
  <2>2. DOMAIN OutputNames(ast) = SourceOutputs(d)  BY SourcesOfAst
  <2> HIDE DEF ast
  <2>3. Form(ast) = "ad_hoc_aggregate"  BY <2>1 DEF Form
  <2>4. SingleOperation(ast, "aggregate") = o
    <3>1. Operations(ast, "aggregate") = {o}  BY <1>2, <1>3, <2>1 DEF Operations
    <3> QED  BY <3>1 DEF SingleOperation
  <2>5. AggregateRoles(o, ast.filters) = {"target"}  BY <1>3, <2>1, RoleAssumption DEF AggregateRoles
  <2>6. SourcesKnown(ast, OutputNames(ast))  BY <1>1, <1>9, <2>1, <2>2 DEF SourcesKnown
  <2>7. OrderCompiles(ast, OutputNames(ast))  BY <2>1 DEF OrderCompiles, ToSet
  <2>8. Cardinality({"target"}) = 1  BY FS_Singleton
  <2> QED  BY <2>3, <2>4, <2>5, <2>6, <2>7, <2>8 DEF ShapeCompiles
<1> QED  BY <1>4, <1>5, <1>6, <1>7, <1>8, <1>10, <1>11, NoErrors DEF Accepted, d

LEMMA CountedIsAccepted ==
    ASSUME NEW w, w.measures = <<>> \/ 1 \in DOMAIN w.measures, NEW vertex \in Vertices, NEW properties, Known(properties),
           AssembleF3(w, vertex, properties) # None
    PROVE  Accepted(AssembleF3(w, vertex, properties))
<1> DEFINE measures == IF w.measures = <<>> THEN <<[alias |-> None, function |-> "count", name |-> None, terms |-> {}]>>
                       ELSE w.measures
           named(m) == IF m.name = None THEN IdProperty[vertex] ELSE m.name
           alias(m) == AliasOr(m, SnakeCase[vertex] \o "_count")
           owned(m) == \/ OwnedBy(vertex, properties, named(m))
                       \/ HasProperty(vertex, named(m)) /\ \A p \in properties : p.name # named(m)
           conditions == ZeroHopConditions(w, vertex, properties, ByLiterals(w) \o ByPresence(w))
           of(m) == [alias |-> alias(m), function |-> "count", target |-> "target", owner |-> vertex, name |-> named(m)]
           counts == MapSeq(measures, LAMBDA m : of(m))
           o == [op |-> "aggregate", group_by |-> <<>>, measures |-> counts]
           items == MapSeq(measures, LAMBDA m : MeasureItem(m, alias(m)))
           d == AssembleF3(w, vertex, properties)
<1>1. d = ZeroHopDsl("ad_hoc_aggregate", vertex, <<o>>, conditions, items)  BY Zenon DEF AssembleF3
<1>2. conditions # None /\ \A m \in ToSet(measures) : m.function = "count" /\ owned(m)  BY Zenon DEF AssembleF3
<1>3. 1 \in DOMAIN measures  OBVIOUS
<1>4. \A m \in ToSet(measures) : HasProperty(vertex, named(m))  BY <1>2, OwnedIsKnown
<1> HIDE DEF measures, named, owned, conditions, d
<1>5. ToSet(counts) = {of(m) : m \in ToSet(measures)}  BY DEF ToSet, MapSeq
<1>6. ToSet(items) = {MeasureItem(m, alias(m)) : m \in ToSet(measures)}  BY DEF ToSet, MapSeq
<1>7. ToSet(counts) # {}
  <2>1. measures[1] \in ToSet(measures)  BY <1>3 DEF ToSet
  <2> QED  BY <1>5, <2>1
<1>8. \A m \in ToSet(counts) : /\ m.function = "count" /\ m.target = "target" /\ m.owner = vertex
                               /\ HasProperty(vertex, m.name)
  <2> HIDE DEF counts
  <2> QED  BY <1>4, <1>5
<1>9. \A x \in ToSet(items) : /\ x.kind = "source"
                              /\ \E m \in ToSet(counts) : x.source = [ns |-> "measure", name |-> m.alias]
  <2> SUFFICES ASSUME NEW m \in ToSet(measures)
               PROVE  LET x == MeasureItem(m, alias(m))
                      IN  x.kind = "source" /\ \E c \in ToSet(counts) : x.source = [ns |-> "measure", name |-> c.alias]
    BY <1>6
  <2>1. of(m) \in ToSet(counts) /\ of(m).alias = alias(m)  BY <1>5
  <2> HIDE DEF of, alias, counts
  <2> QED  BY <2>1 DEF MeasureItem
<1>10. \A f \in ToSet(conditions) : /\ f.target = "target" /\ f.owner = vertex /\ HasProperty(vertex, f.name)
                                    /\ f.operator \in DslOperator
  BY <1>2, ZeroHopFilters DEF conditions
<1> HIDE DEF counts, items, of
<1> QED  BY <1>1, <1>7, <1>8, <1>9, <1>10, CountAccepted DEF d

LEMMA ZeroHopIsAccepted ==
    ASSUME NEW w, w.measures = <<>> \/ 1 \in DOMAIN w.measures,
           NEW req, req.value = None \/ (req.value \in Nat /\ req.value > 0),
           NEW candidates, Known(PropertiesOf(candidates)), NEW family, NEW v, v \in Vertices \cup {None},
           AssembleZeroHop(w, req, candidates, family, v) # None
    PROVE  Accepted(AssembleZeroHop(w, req, candidates, family, v))
<1> DEFINE properties == {p \in PropertiesOf(candidates) : p.owner = v}
           d == AssembleZeroHop(w, req, candidates, family, v)
<1>1. Known(properties)  BY DEF Known
<1>2. ToSet(<<>>) = {}  BY DEF ToSet
<1> HIDE DEF properties
<1>3. /\ v \in Vertices
      /\ d \in {AssembleF1(w, req, v, properties), AssembleF2(w, req, v, properties), AssembleF3(w, v, properties)}
  BY DEF AssembleZeroHop, properties
<1>4. AssembleF1(w, req, v, properties) # None => Accepted(AssembleF1(w, req, v, properties))
  <2> DEFINE items == ZeroHopItems(w, v, properties)
  <2> SUFFICES ASSUME AssembleF1(w, req, v, properties) # None PROVE Accepted(AssembleF1(w, req, v, properties))
    OBVIOUS
  <2>1. items # None /\ AssembleF1(w, req, v, properties) = ZeroHopDsl("vertex_lookup", v, LookupLimit(req), <<>>, items)
    BY Zenon DEF AssembleF1
  <2>2. /\ ToSet(items) # {}
        /\ \A x \in ToSet(items) : /\ x.kind \in {"vertex_full", "property"} /\ x.target = "target"
                                   /\ x.kind = "property" => x.owner = v /\ HasProperty(v, x.name)
    BY <1>1, <2>1, ZeroHopColumns
  <2> HIDE DEF items
  <2> QED  BY <1>2, <1>3, <2>1, <2>2, LookupAccepted
<1>5. AssembleF2(w, req, v, properties) # None => Accepted(AssembleF2(w, req, v, properties))
  <2> DEFINE items == ZeroHopItems(w, v, properties)
             conditions == ZeroHopConditions(w, v, properties, ByLiterals(w))
  <2> SUFFICES ASSUME AssembleF2(w, req, v, properties) # None PROVE Accepted(AssembleF2(w, req, v, properties))
    OBVIOUS
  <2>1. /\ items # None /\ conditions # None
        /\ AssembleF2(w, req, v, properties) = ZeroHopDsl("vertex_lookup", v, LookupLimit(req), conditions, items)
    BY Zenon DEF AssembleF2
  <2>2. /\ ToSet(items) # {}
        /\ \A x \in ToSet(items) : /\ x.kind \in {"vertex_full", "property"} /\ x.target = "target"
                                   /\ x.kind = "property" => x.owner = v /\ HasProperty(v, x.name)
    BY <1>1, <2>1, ZeroHopColumns
  <2>3. \A f \in ToSet(conditions) : /\ f.target = "target" /\ f.owner = v /\ HasProperty(v, f.name)
                                     /\ f.operator \in DslOperator
    BY <1>1, <2>1, ZeroHopFilters
  <2> HIDE DEF items, conditions
  <2> QED  BY <1>3, <2>1, <2>2, <2>3, LookupAccepted
<1>6. AssembleF3(w, v, properties) # None => Accepted(AssembleF3(w, v, properties))
  BY <1>1, <1>3, CountedIsAccepted
<1> QED  BY <1>3, <1>4, <1>5, <1>6

-----------------------------------------------------------------------------
(* A path: an edge joins each of its vertices to the next.                     *)

WalkedPath(p) ==
    /\ IsList(p.vertices) /\ Len(p.vertices) \in 2..LongestPath /\ DOMAIN p.edges = 1..Len(p.vertices) - 1
    /\ \A i \in DOMAIN p.edges :
         p.edges[i] \in Edges /\ {From[p.edges[i]], To[p.edges[i]]} = {p.vertices[i], p.vertices[i + 1]}

LEMMA GreatestNumber ==
    ASSUME NEW n \in Nat, NEW S, S \subseteq 1..n, S # {}
    PROVE  Max(S) \in S
<1> DEFINE Above == {k \in Nat : \A s \in S : s <= k}
<1>1. PICK m \in Above : \A k \in Above : m <= k
  <2>1. n \in Above  OBVIOUS
  <2>2. Above \subseteq Nat  OBVIOUS
  <2> HIDE DEF Above
  <2> QED  BY <2>1, <2>2, LeastNumber
<1>2. m \in Nat /\ \A s \in S : s \in Nat /\ s > 0 /\ s <= m  BY <1>1
<1>3. m \in S
  <2> SUFFICES ASSUME m \notin S PROVE FALSE  OBVIOUS
  <2>1. m > 0
    <3>1. PICK s \in S : TRUE  OBVIOUS
    <3> QED  BY <1>2, <3>1
  <2>2. m - 1 \in Above  BY <1>2, <2>1
  <2> HIDE DEF Above
  <2> QED  BY <1>1, <1>2, <2>2
<1>4. \E x \in S : \A y \in S : x >= y  BY <1>2, <1>3
<1> QED  BY <1>4 DEF Max

LEMMA StepJoins ==
    ASSUME NEW candidates, NamesOf(candidates, "edge") \subseteq Edges, NEW path, NEW vertices, NEW known, NEW i,
           PathEdge(MultihopEdges(candidates), path, vertices, known, i) # None
    PROVE  LET e == PathEdge(MultihopEdges(candidates), path, vertices, known, i)
           IN  e \in Edges /\ {From[e], To[e]} = {vertices[i], vertices[i + 1]}
<1> DEFINE edges == MultihopEdges(candidates)
           start == vertices[i]
           end == vertices[i + 1]
           context == IF i < known THEN SegmentContext(path, start, end) ELSE ExtensionContext(edges, path, start, end)
           e == PathEdge(edges, path, vertices, known, i)
<1>1. edges \in SUBSET Edges  BY DEF MultihopEdges
<1>2. IsFiniteSet(edges)  BY <1>1, GraphModelAssumption, FS_Subset
<1>3. e = StepEdge(edges, start, end, context)  BY DEF PathEdge
<1>4. Meant(edges, start, end, context, e)  BY <1>2, <1>3, StepIsMeant
<1> QED  BY <1>1, <1>4 DEF Meant, Joins

LEMMA RolesOfPath ==
    ASSUME NEW p, WalkedPath(p), NEW shape, NEW tail, NEW filters, NEW items
    PROVE  LET d == PathDsl(shape, p, tail, filters, items)
           IN  /\ DOMAIN d.vertexRoles = {PathRole(i) : i \in DOMAIN p.vertices}
               /\ \A i \in DOMAIN p.vertices : d.vertexRoles[PathRole(i)] = p.vertices[i]
               /\ DOMAIN d.edgeRoles = {EdgeName(i) : i \in DOMAIN p.edges}
               /\ \A i \in DOMAIN p.edges : d.edgeRoles[EdgeName(i)] = p.edges[i]
<1> DEFINE d == PathDsl(shape, p, tail, filters, items)
<1>1. d.vertexRoles = [r \in {PathRole(i) : i \in DOMAIN p.vertices} |->
                         p.vertices[CHOOSE i \in DOMAIN p.vertices : PathRole(i) = r]]
  BY DEF PathDsl
<1>2. d.edgeRoles = [r \in {EdgeName(i) : i \in DOMAIN p.edges} |->
                       p.edges[CHOOSE i \in DOMAIN p.edges : EdgeName(i) = r]]
  BY DEF PathDsl
<1>3. DOMAIN p.vertices \subseteq 1..LongestPath /\ DOMAIN p.edges \subseteq 1..LongestPath
  <2>1. LongestPath \in Nat  BY GraphModelAssumption, AlphabeticalAssumption, FS_CardinalityType DEF LongestPath
  <2>2. DOMAIN p.vertices = 1..Len(p.vertices)  BY DEF WalkedPath, IsList
  <2> QED  BY <2>1, <2>2 DEF WalkedPath
<1>4. \A i \in DOMAIN p.vertices : (CHOOSE j \in DOMAIN p.vertices : PathRole(j) = PathRole(i)) = i
  BY <1>3, RoleAssumption
<1>5. \A i \in DOMAIN p.edges : (CHOOSE j \in DOMAIN p.edges : EdgeName(j) = EdgeName(i)) = i
  BY <1>3, RoleAssumption
<1> HIDE DEF d
<1>6. \A i \in DOMAIN p.vertices : d.vertexRoles[PathRole(i)] = p.vertices[i]
  <2> SUFFICES ASSUME NEW i \in DOMAIN p.vertices PROVE d.vertexRoles[PathRole(i)] = p.vertices[i]  OBVIOUS
  <2>1. PathRole(i) \in {PathRole(j) : j \in DOMAIN p.vertices}  OBVIOUS
  <2>2. d.vertexRoles[PathRole(i)] = p.vertices[CHOOSE j \in DOMAIN p.vertices : PathRole(j) = PathRole(i)]
    BY <1>1, <2>1, Zenon
  <2> QED  BY <1>4, <2>2, Zenon
<1>7. \A i \in DOMAIN p.edges : d.edgeRoles[EdgeName(i)] = p.edges[i]
  <2> SUFFICES ASSUME NEW i \in DOMAIN p.edges PROVE d.edgeRoles[EdgeName(i)] = p.edges[i]  OBVIOUS
  <2>1. EdgeName(i) \in {EdgeName(j) : j \in DOMAIN p.edges}  OBVIOUS
  <2>2. d.edgeRoles[EdgeName(i)] = p.edges[CHOOSE j \in DOMAIN p.edges : EdgeName(j) = EdgeName(i)]
    BY <1>2, <2>1, Zenon
  <2> QED  BY <1>5, <2>2, Zenon
<1>8. DOMAIN d.vertexRoles = {PathRole(i) : i \in DOMAIN p.vertices}  BY <1>1
<1>9. DOMAIN d.edgeRoles = {EdgeName(i) : i \in DOMAIN p.edges}  BY <1>2
<1> QED  BY <1>6, <1>7, <1>8, <1>9 DEF d

LEMMA RoleIsOnPath ==
    ASSUME NEW p, WalkedPath(p), NEW v \in DOMAIN RoleInPath(p)
    PROVE  /\ v \in Vertices
           /\ \E i \in DOMAIN p.vertices : RoleInPath(p)[v] = PathRole(i) /\ p.vertices[i] = v
<1> DEFINE pairs == [i \in DOMAIN p.vertices |-> <<p.vertices[i], PathRole(i)>>]
           of == {i \in DOMAIN pairs : pairs[i][1] = v}
           n == Len(p.vertices)
<1>1. n \in Nat /\ n >= 2 /\ DOMAIN p.vertices = 1..n  BY DEF WalkedPath, IsList
<1>2. RoleInPath(p) = RoleByOwner(pairs)  BY DEF RoleInPath
<1>3. v \in {x[1] : x \in ToSet(pairs)} /\ RoleInPath(p)[v] = pairs[Max(of)][2]  BY <1>2 DEF RoleByOwner
<1>4. of # {}  BY <1>3 DEF ToSet
<1>5. Max(of) \in of
  <2>1. of \subseteq 1..n  BY <1>1
  <2> HIDE DEF of
  <2> QED  BY <1>1, <1>4, <2>1, GreatestNumber
<1>6. RoleInPath(p)[v] = PathRole(Max(of)) /\ p.vertices[Max(of)] = v /\ Max(of) \in DOMAIN p.vertices
  BY <1>3, <1>5
<1>7. v \in Vertices
  <2> DEFINE k == Max(of)
  <2>1. k \in 1..n /\ p.vertices[k] = v  BY <1>1, <1>6
  <2> HIDE DEF k
  <2>2. \A i \in 1..n - 1 : {p.vertices[i], p.vertices[i + 1]} \subseteq Vertices
    <3> SUFFICES ASSUME NEW i \in 1..n - 1 PROVE {p.vertices[i], p.vertices[i + 1]} \subseteq Vertices  OBVIOUS
    <3> DEFINE e == p.edges[i]
    <3>1. e \in Edges /\ {From[e], To[e]} = {p.vertices[i], p.vertices[i + 1]}  BY DEF WalkedPath
    <3> HIDE DEF e
    <3>2. From[e] \in Vertices /\ To[e] \in Vertices  BY <3>1, GraphModelAssumption
    <3>3. {From[e], To[e]} \subseteq Vertices  BY <3>2
    <3> QED  BY <3>1, <3>3, Zenon
  <2>3. CASE k = n  
    <3>1. n - 1 \in 1..n - 1 /\ (n - 1) + 1 = n  BY <1>1
    <3> QED  BY <2>1, <2>2, <2>3, <3>1
  <2>4. CASE k # n
    <3>1. k \in 1..n - 1  BY <1>1, <2>1, <2>4
    <3> QED  BY <2>1, <2>2, <3>1
  <2> QED  BY <2>3, <2>4
<1> QED  BY <1>6, <1>7

(* The first numbers are in order. *)
LEMMA NumbersInOrder ==
    ASSUME NEW n \in Nat
    PROVE  InOrder(1..n, LAMBDA i, j : i < j) = [k \in 1..n |-> k]
<1> DEFINE below(x) == {y \in 1..n : y < x}
<1>1. \A x \in 1..n : Cardinality(below(x)) = x - 1
  <2> SUFFICES ASSUME NEW x \in 1..n PROVE Cardinality(below(x)) = x - 1  OBVIOUS
  <2>1. below(x) = 1..x - 1  OBVIOUS
  <2>2. x - 1 \in Nat  OBVIOUS
  <2> HIDE DEF below
  <2> QED  BY <2>1, <2>2, UpTo
<1>2. Cardinality(1..n) = n  BY UpTo
<1>3. InOrder(1..n, LAMBDA i, j : i < j) = [k \in 1..n |-> CHOOSE x \in 1..n : Cardinality(below(x)) = k - 1]
  BY <1>2 DEF InOrder
<1> HIDE DEF below
<1>4. \A k \in 1..n : (CHOOSE x \in 1..n : Cardinality(below(x)) = k - 1) = k  
  <2> SUFFICES ASSUME NEW k \in 1..n PROVE (CHOOSE x \in 1..n : Cardinality(below(x)) = k - 1) = k  OBVIOUS
  <2>1. \A x \in 1..n : Cardinality(below(x)) = k - 1 <=> x = k  BY <1>1
  <2> QED  BY <2>1
<1> QED  BY <1>3, <1>4

(* What a path's DSL is made of. *)
HopsOf(p) == Len(p.vertices) - 1

AlongPath(p, tail, d) ==
    /\ IsList(d.operations) /\ Len(d.operations) = HopsOf(p) + Len(tail)
    /\ \A i \in 1..HopsOf(p) :
         /\ d.operations[i].op = "traverse_edge"
         /\ d.operations[i].from = PathRole(i) /\ d.operations[i].to = PathRole(i + 1)
         /\ d.operations[i].edge = EdgeName(i)
         /\ d.operations[i].direction = IF From[p.edges[i]] = p.vertices[i] THEN "forward" ELSE "backward"
    /\ \A i \in 1..Len(tail) : d.operations[HopsOf(p) + i] = tail[i]

LEMMA HopsOfPath ==
    ASSUME NEW p, WalkedPath(p)
    PROVE  /\ HopsOf(p) \in Nat /\ HopsOf(p) >= 1
           /\ DOMAIN p.edges = 1..HopsOf(p) /\ DOMAIN p.vertices = 1..HopsOf(p) + 1
BY DEF WalkedPath, IsList, HopsOf

LEMMA OperationsOfPath ==
    ASSUME NEW p, WalkedPath(p), NEW shape, NEW tail, IsList(tail), NEW filters, NEW items
    PROVE  AlongPath(p, tail, PathDsl(shape, p, tail, filters, items))
<1> DEFINE d == PathDsl(shape, p, tail, filters, items)
           n == HopsOf(p)
           walk == [i \in DOMAIN p.edges |->
                      [op |-> "traverse_edge", from |-> PathRole(i), edge |-> EdgeName(i), to |-> PathRole(i + 1),
                       direction |-> IF From[p.edges[i]] = p.vertices[i] THEN "forward" ELSE "backward"]]
<1>1. n \in Nat /\ n >= 1 /\ DOMAIN p.edges = 1..n  BY HopsOfPath
<1>2. d.operations = walk \o tail  BY Zenon DEF PathDsl
<1>3. IsList(walk) /\ Len(walk) = n
  <2>1. walk = [i \in 1..n |-> walk[i]]  BY <1>1
  <2> HIDE DEF walk
  <2> QED  BY <1>1, <2>1, FunctionIsList
<1>4. \A i \in 1..n : /\ walk[i].op = "traverse_edge"
                      /\ walk[i].from = PathRole(i) /\ walk[i].to = PathRole(i + 1) /\ walk[i].edge = EdgeName(i)
                      /\ walk[i].direction = IF From[p.edges[i]] = p.vertices[i] THEN "forward" ELSE "backward"
  BY <1>1
<1> HIDE DEF walk, n, d
<1>5. IsList(walk \o tail)  BY <1>3, JoinedIsList
<1>6. /\ Len(walk \o tail) = n + Len(tail)
      /\ \A i \in 1..n : (walk \o tail)[i] = walk[i]
      /\ \A i \in 1..Len(tail) : (walk \o tail)[n + i] = tail[i]
  BY <1>1, <1>3 DEF IsList
<1>7. \A i \in 1..n : d.operations[i] = walk[i]  BY <1>2, <1>6
<1>8. IsList(d.operations) /\ Len(d.operations) = n + Len(tail)  BY <1>2, <1>5, <1>6
<1>9. \A i \in 1..Len(tail) : d.operations[n + i] = tail[i]  BY <1>2, <1>6
<1>10. \A i \in 1..n : /\ d.operations[i].op = "traverse_edge"
                       /\ d.operations[i].from = PathRole(i) /\ d.operations[i].to = PathRole(i + 1)
                       /\ d.operations[i].edge = EdgeName(i)
                       /\ d.operations[i].direction = IF From[p.edges[i]] = p.vertices[i] THEN "forward" ELSE "backward"
  BY <1>4, <1>7
<1>11. AlongPath(p, tail, d)  BY <1>8, <1>9, <1>10 DEF AlongPath, n
<1> QED  BY <1>11 DEF d

LEMMA PathIsChain ==
    ASSUME NEW p, WalkedPath(p), NEW shape, NEW tail, IsList(tail), NEW filters, NEW items, NEW tails,
           MapSeq(tail, LAMBDA o : o.op) \in tails
    PROVE  ChainThen(MapSeq(PathDsl(shape, p, tail, filters, items).operations, LAMBDA o : o.op), tails)
<1> DEFINE d == PathDsl(shape, p, tail, filters, items)
           n == HopsOf(p)
           m == Len(tail)
           ops == MapSeq(d.operations, LAMBDA o : o.op)
           last == MapSeq(tail, LAMBDA o : o.op)
<1>0. AlongPath(p, tail, d)  BY OperationsOfPath
<1> HIDE DEF d
<1>1. /\ n \in Nat /\ n >= 1 /\ IsList(d.operations) /\ Len(d.operations) = n + m
      /\ \A i \in 1..n : d.operations[i].op = "traverse_edge"
      /\ \A i \in 1..m : d.operations[n + i] = tail[i]
  BY <1>0, HopsOfPath DEF AlongPath
<1> HIDE DEF n
<1>2. m \in Nat /\ DOMAIN tail = 1..m /\ DOMAIN d.operations = 1..n + m  BY <1>1 DEF IsList
<1>3. DOMAIN ops = 1..n + m /\ \A i \in 1..n + m : ops[i] = d.operations[i].op  BY <1>2 DEF MapSeq
<1>4. ops = [i \in 1..n + m |-> ops[i]]  BY <1>2 DEF MapSeq
<1>5. last = [i \in 1..m |-> tail[i].op]  BY <1>2 DEF MapSeq
<1> HIDE DEF ops, last, m
<1>6. Len(ops) = n + m /\ IsList(ops)  BY <1>1, <1>2, <1>4, FunctionIsList
<1>7. SubSeq(ops, n + 1, Len(ops)) = last
  <2>1. SubSeq(ops, n + 1, n + m) = [i \in 1..m |-> ops[i + n]]
    <3>1. 1 + (n + m) - (n + 1) = m  BY <1>1, <1>2
    <3>2. ops \in Seq(ToSet(ops))  BY <1>6 DEF IsList
    <3> QED  BY <1>1, <1>2, <1>6, <3>1, <3>2
  <2>2. \A i \in 1..m : ops[i + n] = tail[i].op
    <3> SUFFICES ASSUME NEW i \in 1..m PROVE ops[i + n] = tail[i].op  OBVIOUS
    <3>1. i + n \in 1..n + m /\ i + n = n + i  BY <1>1, <1>2
    <3> QED  BY <1>1, <1>3, <3>1 DEF m
  <2> QED  BY <1>5, <1>6, <2>1, <2>2
<1>8. n \in 1..Len(ops) /\ \A i \in 1..n : ops[i] = "traverse_edge"  BY <1>1, <1>2, <1>3, <1>6 DEF m
<1>9. last \in tails  BY DEF last
<1> QED  BY <1>7, <1>8, <1>9 DEF ChainThen, ops, d

LEMMA PathIsContiguous ==
    ASSUME NEW p, WalkedPath(p), NEW shape, NEW tail, IsList(tail), NEW filters, NEW items,
           \A o \in ToSet(tail) : o.op # "traverse_edge"
    PROVE  Contiguous(Traverses(BuildAst(PathDsl(shape, p, tail, filters, items))))
<1> DEFINE d == PathDsl(shape, p, tail, filters, items)
           ast == BuildAst(d)
           n == HopsOf(p)
           m == Len(tail)
           t == Traverses(ast)
<1>0. AlongPath(p, tail, d)  BY OperationsOfPath
<1> HIDE DEF d
<1>1. /\ n \in Nat /\ n >= 1 /\ IsList(d.operations) /\ Len(d.operations) = n + m
      /\ \A i \in 1..n : /\ d.operations[i].op = "traverse_edge"
                         /\ d.operations[i].from = PathRole(i) /\ d.operations[i].to = PathRole(i + 1)
      /\ \A i \in 1..m : d.operations[n + i] = tail[i]
  BY <1>0, HopsOfPath DEF AlongPath
<1>2. ast.operations = d.operations  BY AllFields
<1> HIDE DEF n, ast
<1>3. m \in Nat /\ DOMAIN tail = 1..m /\ DOMAIN d.operations = 1..n + m  BY <1>1 DEF IsList
<1>4. \A i \in 1..m : tail[i].op # "traverse_edge"  BY <1>3 DEF ToSet
<1> HIDE DEF m
<1>5. EdgePlaces(ast) = 1..n
  <2>1. ASSUME NEW i \in 1..n + m, i \notin 1..n PROVE d.operations[i].op # "traverse_edge"
    <3>1. i - n \in 1..m /\ n + (i - n) = i  BY <1>1, <1>3, <2>1
    <3>2. d.operations[n + (i - n)] = tail[i - n]  BY <1>1, <3>1 DEF m
    <3> QED  BY <1>4, <3>1, <3>2
  <2>2. \A i \in 1..n : i \in 1..n + m  BY <1>1, <1>3
  <2> QED  BY <1>1, <1>2, <1>3, <2>1, <2>2 DEF EdgePlaces
<1>6. InOrder(EdgePlaces(ast), LAMBDA i, j : i < j) = [k \in 1..n |-> k]  BY <1>1, <1>5, NumbersInOrder
<1>7. t = [k \in 1..n |-> d.operations[k]]  BY <1>2, <1>6 DEF Traverses, ItemsAt, MapSeq
<1> HIDE DEF t
<1>8. Len(t) = n
  <2>1. t = [k \in 1..n |-> t[k]]  BY <1>7
  <2> QED  BY <1>1, <2>1, FunctionIsList
<1>9. \A i \in 1..n - 1 : t[i].to = t[i + 1].from
  <2> SUFFICES ASSUME NEW i \in 1..n - 1 PROVE t[i].to = t[i + 1].from  OBVIOUS
  <2>1. i \in 1..n /\ i + 1 \in 1..n  BY <1>1
  <2> QED  BY <1>1, <1>7, <2>1
<1> QED  BY <1>8, <1>9 DEF Contiguous, t, ast, d

LEMMA PathIsBound ==
    ASSUME NEW p, WalkedPath(p), NEW shape, NEW tail, IsList(tail), NEW filters, NEW items
    PROVE  LET d == PathDsl(shape, p, tail, filters, items)
           IN  /\ BindingErrors(d) = {}
               /\ \A o \in ToSet(d.operations) :
                    \/ o \in ToSet(tail)
                    \/ o.op = "traverse_edge" /\ OperationErrors(d, o) = {}
<1> DEFINE d == PathDsl(shape, p, tail, filters, items)
           n == HopsOf(p)
<1>0. AlongPath(p, tail, d)  BY OperationsOfPath
<1> HIDE DEF d
<1>1. /\ n \in Nat /\ n >= 1 /\ IsList(d.operations) /\ Len(d.operations) = n + Len(tail)
      /\ \A i \in 1..n : /\ d.operations[i].op = "traverse_edge"
                         /\ d.operations[i].from = PathRole(i) /\ d.operations[i].to = PathRole(i + 1)
                         /\ d.operations[i].edge = EdgeName(i)
                         /\ d.operations[i].direction =
                              IF From[p.edges[i]] = p.vertices[i] THEN "forward" ELSE "backward"
      /\ \A i \in 1..Len(tail) : d.operations[n + i] = tail[i]
  BY <1>0, HopsOfPath DEF AlongPath
<1>2. /\ DOMAIN d.vertexRoles = {PathRole(i) : i \in DOMAIN p.vertices}
      /\ \A i \in DOMAIN p.vertices : d.vertexRoles[PathRole(i)] = p.vertices[i]
      /\ DOMAIN d.edgeRoles = {EdgeName(i) : i \in DOMAIN p.edges}
      /\ \A i \in DOMAIN p.edges : d.edgeRoles[EdgeName(i)] = p.edges[i]
  BY RolesOfPath DEF d
<1>3. DOMAIN p.edges = 1..n /\ DOMAIN p.vertices = 1..n + 1  BY HopsOfPath
<1> HIDE DEF n
<1>4. \A i \in 1..n : /\ p.edges[i] \in Edges
                      /\ {From[p.edges[i]], To[p.edges[i]]} = {p.vertices[i], p.vertices[i + 1]}
  BY <1>3 DEF WalkedPath
<1>5. \A i \in 1..n : p.vertices[i] \in Vertices /\ p.vertices[i + 1] \in Vertices
  <2> SUFFICES ASSUME NEW i \in 1..n PROVE p.vertices[i] \in Vertices /\ p.vertices[i + 1] \in Vertices  OBVIOUS
  <2> DEFINE e == p.edges[i]
  <2>1. e \in Edges /\ {From[e], To[e]} = {p.vertices[i], p.vertices[i + 1]}  BY <1>4
  <2> HIDE DEF e
  <2>2. From[e] \in Vertices /\ To[e] \in Vertices  BY <2>1, GraphModelAssumption
  <2>3. {From[e], To[e]} \subseteq Vertices  BY <2>2
  <2>4. {p.vertices[i], p.vertices[i + 1]} \subseteq Vertices  BY <2>1, <2>3, Zenon
  <2> QED  BY <2>4
<1>6. \A i \in 1..n + 1 : p.vertices[i] \in Vertices
  <2> SUFFICES ASSUME NEW i \in 1..n + 1 PROVE p.vertices[i] \in Vertices  OBVIOUS
  <2>1. CASE i = n + 1
    <3>1. n \in 1..n  BY <1>1
    <3> QED  BY <1>5, <2>1, <3>1
  <2>2. CASE i # n + 1
    <3>1. i \in 1..n  BY <1>1, <2>2
    <3> QED  BY <1>5, <3>1
  <2> QED  BY <2>1, <2>2
<1>7. BindingErrors(d) = {}
  <2>1. \A r \in DOMAIN d.vertexRoles : d.vertexRoles[r] \in Vertices  BY <1>2, <1>3, <1>6
  <2>2. \A r \in DOMAIN d.edgeRoles : d.edgeRoles[r] \in Edges  BY <1>2, <1>3, <1>4
  <2> QED  BY <2>1, <2>2 DEF BindingErrors, Code
<1>8. ASSUME NEW i \in 1..n PROVE OperationErrors(d, d.operations[i]) = {}
  <2> DEFINE o == d.operations[i]
             e == p.edges[i]
             a == p.vertices[i]
             b == p.vertices[i + 1]
  <2>1. i \in 1..n + 1 /\ i + 1 \in 1..n + 1  BY <1>1
  <2>2. /\ o.op = "traverse_edge" /\ o.from = PathRole(i) /\ o.to = PathRole(i + 1) /\ o.edge = EdgeName(i)
        /\ o.direction = IF From[e] = a THEN "forward" ELSE "backward"
    BY <1>1
  <2>3. /\ o.from \in DOMAIN d.vertexRoles /\ d.vertexRoles[o.from] = a
        /\ o.to \in DOMAIN d.vertexRoles /\ d.vertexRoles[o.to] = b
        /\ o.edge \in DOMAIN d.edgeRoles /\ d.edgeRoles[o.edge] = e
    BY <1>2, <1>3, <2>1, <2>2
  <2>4. {From[e], To[e]} = {a, b}  BY <1>4
  <2> HIDE DEF o, e, a, b
  <2>5. EdgeConnects(e, a, b, o.direction)
    <3>1. CASE From[e] = a
      <4>1. To[e] = b  BY <2>4, <3>1
      <4> QED  BY <2>2, <3>1, <4>1 DEF EdgeConnects
    <3>2. CASE From[e] # a
      <4>1. From[e] = b /\ To[e] = a  BY <2>4, <3>2
      <4> QED  BY <2>2, <3>2, <4>1 DEF EdgeConnects
    <3> QED  BY <3>1, <3>2
  <2>6. TraverseErrors(d, o) = {}  BY <2>3, <2>5 DEF TraverseErrors, Code
  <2> QED  BY <2>2, <2>6 DEF OperationErrors, o
<1>9. \A o \in ToSet(d.operations) : \/ o \in ToSet(tail)
                                     \/ o.op = "traverse_edge" /\ OperationErrors(d, o) = {}
  <2> SUFFICES ASSUME NEW i \in DOMAIN d.operations
               PROVE  \/ d.operations[i] \in ToSet(tail)
                      \/ d.operations[i].op = "traverse_edge" /\ OperationErrors(d, d.operations[i]) = {}
    BY DEF ToSet
  <2>1. i \in 1..n + Len(tail) /\ Len(tail) \in Nat /\ DOMAIN tail = 1..Len(tail)  BY <1>1 DEF IsList
  <2>2. CASE i \in 1..n  BY <1>1, <1>8, <2>2
  <2>3. CASE i \notin 1..n
    <3>1. i - n \in 1..Len(tail) /\ n + (i - n) = i  BY <1>1, <2>1, <2>3
    <3>2. d.operations[n + (i - n)] = tail[i - n]  BY <1>1, <3>1
    <3> QED  BY <2>1, <3>1, <3>2 DEF ToSet
  <2> QED  BY <2>2, <2>3
<1> QED  BY <1>7, <1>9 DEF d

KnownToModel(candidates) ==
    /\ NamesOf(candidates, "vertex") \subseteq Vertices /\ NamesOf(candidates, "edge") \subseteq Edges
    /\ Known(PropertiesOf(candidates))

(* The plan of a path is no longer than the role names reach, and joined. *)
LEMMA PlanIsWalked ==
    ASSUME NEW w, NEW candidates, KnownToModel(candidates), PathPlan(w, candidates) # None
    PROVE  WalkedPath(PathPlan(w, candidates))
<1> DEFINE path == PathTexts(w.terms)
           edges == MultihopEdges(candidates)
           mentioned == OrderedVertices(candidates, path)
           vertices == ExtendPath(w, edges, candidates, path, mentioned)
           steps == [i \in 1..Len(vertices) - 1 |-> PathEdge(edges, path, vertices, Len(mentioned), i)]
           p == PathPlan(w, candidates)
<1>1. /\ p = [vertices |-> vertices, edges |-> steps]
      /\ \A i \in DOMAIN steps : steps[i] # None
      /\ ~(Len(mentioned) < 2)
  BY DEF PathPlan
<1>2. /\ IsList(mentioned) /\ Len(mentioned) <= Len(Alphabetical)
      /\ IsList(vertices) /\ Len(vertices) >= Len(mentioned)
      /\ Len(vertices) <= Len(mentioned) + Cardinality(Vertices)
  BY OrderedIsList, ExtendedIsList DEF KnownToModel
<1>3. \A i \in 1..Len(vertices) - 1 : /\ steps[i] \in Edges
                                      /\ {From[steps[i]], To[steps[i]]} = {vertices[i], vertices[i + 1]}
  <2> SUFFICES ASSUME NEW i \in 1..Len(vertices) - 1
               PROVE  steps[i] \in Edges /\ {From[steps[i]], To[steps[i]]} = {vertices[i], vertices[i + 1]}
    OBVIOUS
  <2>1. steps[i] # None /\ steps[i] = PathEdge(edges, path, vertices, Len(mentioned), i)  BY <1>1
  <2> HIDE DEF steps, vertices, mentioned, path
  <2> QED  BY <2>1, StepJoins DEF KnownToModel
<1>4. p.vertices = vertices /\ p.edges = steps /\ DOMAIN steps = 1..Len(vertices) - 1  BY <1>1
<1>5. Len(vertices) \in 2..LongestPath
  <2>1. /\ Cardinality(Vertices) \in Nat /\ Len(Alphabetical) \in Nat
        /\ Len(mentioned) \in Nat /\ Len(vertices) \in Nat
    BY <1>2, GraphModelAssumption, AlphabeticalAssumption, FS_CardinalityType DEF IsList
  <2> HIDE DEF vertices, mentioned
  <2> QED  BY <1>1, <1>2, <2>1 DEF LongestPath
<1> HIDE DEF p, vertices, steps
<1> QED  BY <1>2, <1>3, <1>4, <1>5 DEF WalkedPath, p

-----------------------------------------------------------------------------
(* What is returned of a path, and its conditions.                             *)

LEMMA UniquePropertyIsKnown ==
    ASSUME NEW properties, Known(properties), NEW name, NEW owner, UniqueProperty(properties, name, owner) # None
    PROVE  LET p == UniqueProperty(properties, name, owner)
           IN  p.name = name /\ owner \in {None, p.owner} /\ HasProperty(p.owner, name)
<1> DEFINE fit == {x \in properties : x.name = name /\ owner \in {None, x.owner}}
<1>1. UniqueProperty(properties, name, owner) = OnlyMember(fit)  BY DEF UniqueProperty
<1>2. OnlyMember(fit) \in fit  BY <1>1, OnlyMemberIsIn
<1> QED  BY <1>1, <1>2 DEF Known

LEMMA ItemPropertyIsKnown ==
    ASSUME NEW properties, Known(properties), NEW x, ItemProperty(x, properties) # None
    PROVE  HasProperty(ItemProperty(x, properties).owner, ItemProperty(x, properties).name)
<1>1. CASE x.owner # None  BY <1>1 DEF ItemProperty
<1>2. CASE x.owner = None
  <2>1. ItemProperty(x, properties) = UniqueProperty(properties, x.name, None)  BY <1>2 DEF ItemProperty
  <2> QED  BY <2>1, UniquePropertyIsKnown
<1> QED  BY <1>1, <1>2

\* A role of a path's DSL is bound to the vertex it is the role of.
Bound(p, d) == \A v \in DOMAIN RoleInPath(p) : /\ RoleInPath(p)[v] \in DOMAIN d.vertexRoles
                                               /\ d.vertexRoles[RoleInPath(p)[v]] = v

LEMMA PathIsOwn ==
    ASSUME NEW p, WalkedPath(p), NEW shape, NEW tail, NEW filters, NEW items
    PROVE  Bound(p, PathDsl(shape, p, tail, filters, items))
<1> DEFINE d == PathDsl(shape, p, tail, filters, items)
<1>1. /\ DOMAIN d.vertexRoles = {PathRole(i) : i \in DOMAIN p.vertices}
      /\ \A i \in DOMAIN p.vertices : d.vertexRoles[PathRole(i)] = p.vertices[i]
  BY RolesOfPath
<1> HIDE DEF d
<1>2. ASSUME NEW v \in DOMAIN RoleInPath(p)
      PROVE  RoleInPath(p)[v] \in DOMAIN d.vertexRoles /\ d.vertexRoles[RoleInPath(p)[v]] = v
  <2>1. PICK i \in DOMAIN p.vertices : RoleInPath(p)[v] = PathRole(i) /\ p.vertices[i] = v  BY RoleIsOnPath
  <2> QED  BY <1>1, <2>1
<1> QED  BY <1>2 DEF Bound, d

LEMMA PathColumns ==
    ASSUME NEW w, NEW p, WalkedPath(p), NEW properties, Known(properties), PathItems(w, p, properties) # None,
           NEW d, Bound(p, d)
    PROVE  \A x \in ToSet(PathItems(w, p, properties)) : FitsColumn(x, d)
<1> DEFINE roles == RoleInPath(p)
           owner(x) == IF x.kind = "vertex_full" THEN x.name
                       ELSE IF ItemProperty(x, properties) = None THEN None ELSE ItemProperty(x, properties).owner
           item(x) == IF x.kind = "vertex_full" THEN VertexItem(x, roles[owner(x)])
                      ELSE PropertyItem(x, roles[owner(x)], ItemProperty(x, properties))
           items == PathItems(w, p, properties)
<1>1. /\ \A x \in ToSet(w.projection) : owner(x) \in DOMAIN roles
      /\ items = [i \in DOMAIN w.projection |-> item(w.projection[i])]
  BY DEF PathItems, MapSeq
<1> HIDE DEF items
<1>2. ASSUME NEW x \in ToSet(w.projection) PROVE FitsColumn(item(x), d)
  <2>1. owner(x) \in Vertices /\ roles[owner(x)] \in DOMAIN d.vertexRoles /\ d.vertexRoles[roles[owner(x)]] = owner(x)
    <3>1. owner(x) \in DOMAIN roles  BY <1>1
    <3> HIDE DEF owner
    <3> QED  BY <3>1, RoleIsOnPath DEF Bound
  <2>2. owner(x) # None  BY <2>1, GraphModelAssumption
  <2>3. CASE x.kind = "vertex_full"
    <3>1. item(x) = VertexItem(x, roles[owner(x)])  BY <2>3
    <3>2. item(x).kind = "vertex_full" /\ item(x).target = roles[owner(x)]  BY <3>1 DEF VertexItem
    <3> HIDE DEF item, owner
    <3> QED  BY <2>1, <3>2 DEF FitsColumn
  <2>4. CASE x.kind # "vertex_full"
    <3> DEFINE q == ItemProperty(x, properties)
    <3>1. q # None /\ owner(x) = q.owner  BY <2>2, <2>4
    <3>2. HasProperty(q.owner, q.name)  BY <3>1, ItemPropertyIsKnown
    <3>3. item(x) = PropertyItem(x, roles[owner(x)], q)  BY <2>4
    <3>4. /\ item(x).kind = "property" /\ item(x).target = roles[owner(x)]
          /\ item(x).owner = q.owner /\ item(x).name = q.name
      BY <3>3 DEF PropertyItem
    <3> HIDE DEF item, owner, q
    <3> QED  BY <2>1, <3>1, <3>2, <3>4 DEF FitsColumn
  <2> QED  BY <2>3, <2>4
<1> HIDE DEF item
<1>3. ToSet(items) = {item(x) : x \in ToSet(w.projection)}  BY <1>1 DEF ToSet
<1> QED  BY <1>2, <1>3 DEF items

-----------------------------------------------------------------------------
(* The walk alone.                                                             *)

(* A path that is only walked is accepted with conditions and columns that fit. *)
LEMMA WalkAccepted ==
    ASSUME NEW p, WalkedPath(p), NEW filters, NEW items,
           LET d == PathDsl("single_hop_traversal", p, <<>>, filters, items)
           IN  /\ \A f \in ToSet(filters) : FitsCondition(f, d.vertexRoles)
               /\ \A x \in ToSet(items) : FitsColumn(x, d)
    PROVE  Accepted(PathDsl("single_hop_traversal", p, <<>>, filters, items))
<1> DEFINE d == PathDsl("single_hop_traversal", p, <<>>, filters, items)
           ast == BuildAst(d)
<1>1. d.shape = "single_hop_traversal" /\ d.filters = filters /\ d.projection = items  BY DEF PathDsl
<1>2. IsList(<<>>) /\ ToSet(<<>>) = {}  BY EmptyIsList
<1>3. BindingErrors(d) = {} /\ \A o \in ToSet(d.operations) : o.op = "traverse_edge" /\ OperationErrors(d, o) = {}
  BY <1>2, PathIsBound
<1>4. SequenceAllowed(d)
  <2>1. MapSeq(<<>>, LAMBDA o : o.op) \in Tails  BY DEF MapSeq, Tails
  <2>2. ChainThen(MapSeq(d.operations, LAMBDA o : o.op), Tails)  BY <1>2, <2>1, PathIsChain
  <2> HIDE DEF d
  <2> QED  BY <1>1, <2>2 DEF SequenceAllowed
<1>5. Contiguous(Traverses(ast))  BY <1>2, PathIsContiguous
<1>6. (\A f \in ToSet(filters) : FitsCondition(f, d.vertexRoles)) /\ \A x \in ToSet(items) : FitsColumn(x, d)
  OBVIOUS
<1> HIDE DEF d
<1>7. WellFormed(d)
  <2>1. AllFilters(d) = ToSet(filters)  BY <1>1, <1>3 DEF AllFilters
  <2> QED  BY <1>1, <1>3, <1>6, <2>1 DEF WellFormed, QueryShape, FitsCondition
<1>8. FilterErrors(d.filters, d.vertexRoles) = {}  BY <1>1, <1>6, ConditionsPass
<1>9. ProjectionErrors(d) = {}  BY <1>1, <1>3, <1>6, ColumnsPass
<1>10. ShapeCompiles(ast)
  <2>1. ast.shape = "single_hop_traversal"  BY <1>1, AllFields
  <2> HIDE DEF ast
  <2>2. Form(ast) = "single_hop_traversal"  BY <2>1 DEF Form
  <2> QED  BY <1>5, <2>2 DEF ShapeCompiles
<1> QED  BY <1>3, <1>4, <1>7, <1>8, <1>9, <1>10, NoErrors DEF Accepted, d

LEMMA WalkIsAccepted ==
    ASSUME NEW w, NEW p, WalkedPath(p), NEW properties, Known(properties), AssembleF4(w, p, properties) # None
    PROVE  Accepted(AssembleF4(w, p, properties))
<1> DEFINE items == PathItems(w, p, properties)
<1>1. items # None /\ AssembleF4(w, p, properties) = PathDsl("single_hop_traversal", p, <<>>, <<>>, items)
  BY Zenon DEF AssembleF4
<1>2. Bound(p, PathDsl("single_hop_traversal", p, <<>>, <<>>, items))  BY PathIsOwn
<1>3. \A x \in ToSet(items) : FitsColumn(x, PathDsl("single_hop_traversal", p, <<>>, <<>>, items))
  BY <1>1, <1>2, PathColumns
<1>4. ToSet(<<>>) = {}  BY EmptyIsList
<1> HIDE DEF items
<1> QED  BY <1>1, <1>3, <1>4, WalkAccepted

LEMMA FilteredIsAccepted ==
    ASSUME NEW w, NEW p, WalkedPath(p), NEW properties, Known(properties), AssembleF5(w, p, properties) # None
    PROVE  Accepted(AssembleF5(w, p, properties))
<1> DEFINE roles == RoleInPath(p)
           items == PathItems(w, p, properties)
           usable(l) == /\ UniqueProperty(properties, l.property, l.owner) # None
                        /\ l.owner \in DOMAIN roles /\ UniqueLiteral(w, l.owner, l.property) # None
                        /\ FilterOperator(w.terms, l) \in Operators
           of(l) == Condition(w, roles[l.owner], [owner |-> l.owner, name |-> l.property], FilterOperator(w.terms, l))
           filters == MapSeq(w.literals, LAMBDA l : of(l))
           d == PathDsl("single_hop_traversal", p, <<>>, filters, items)
<1>1. items # None /\ (\A l \in ToSet(w.literals) : usable(l)) /\ AssembleF5(w, p, properties) = d
  BY Zenon DEF AssembleF5
<1>2. Bound(p, d)  BY PathIsOwn
<1>3. ToSet(filters) = {of(l) : l \in ToSet(w.literals)}  BY DEF ToSet, MapSeq
<1> HIDE DEF items, filters, d
<1>4. \A x \in ToSet(items) : FitsColumn(x, d)  BY <1>1, <1>2, PathColumns DEF items
<1>5. ASSUME NEW l \in ToSet(w.literals) PROVE FitsCondition(of(l), d.vertexRoles)
  <2>1. /\ UniqueProperty(properties, l.property, l.owner) # None /\ l.owner \in DOMAIN roles
        /\ FilterOperator(w.terms, l) \in DslOperator
    BY <1>1 DEF DslOperator
  <2>2. /\ l.owner \in Vertices /\ roles[l.owner] \in DOMAIN d.vertexRoles
        /\ d.vertexRoles[roles[l.owner]] = l.owner
    BY <1>2, <2>1, RoleIsOnPath DEF Bound
  <2>3. HasProperty(l.owner, l.property)  BY <2>1, <2>2, UniquePropertyIsKnown, GraphModelAssumption
  <2>4. /\ of(l).target = roles[l.owner] /\ of(l).owner = l.owner /\ of(l).name = l.property
        /\ of(l).operator = FilterOperator(w.terms, l)
    BY DEF Condition
  <2> HIDE DEF of, roles
  <2> QED  BY <2>1, <2>2, <2>3, <2>4 DEF FitsCondition
<1> HIDE DEF of
<1>6. \A f \in ToSet(filters) : FitsCondition(f, d.vertexRoles)  BY <1>3, <1>5
<1> QED  BY <1>1, <1>4, <1>6, WalkAccepted DEF d

\* A number of results, if there is one.
Positive(value) == value = None \/ (value \in Nat /\ value > 0)

LEMMA LimitIsPositive ==
    ASSUME NEW q
    PROVE  Positive(Requirements(q).value)
<1> DEFINE limits == OfSlot(q.terms, "limit")
           given == {i \in DOMAIN limits : limits[i].text \in DOMAIN NumberIn /\ NumberIn[limits[i].text] # 0}
           first == {i \in given : \A j \in given : i <= j}
           k == CHOOSE i \in first : TRUE
<1>1. LimitValue(q.terms) = IF first = {} THEN None ELSE NumberIn[limits[k].text]  BY DEF LimitValue
<1>2. Requirements(q).value = LimitValue(q.terms)  BY DEF Requirements
<1>3. CASE first = {}  BY <1>1, <1>2, <1>3 DEF Positive
<1>4. CASE first # {}
  <2>1. k \in given  BY <1>4
  <2>2. NumberIn[limits[k].text] \in Nat /\ NumberIn[limits[k].text] # 0  BY <2>1, NumberAssumption
  <2> HIDE DEF limits, first, k
  <2> QED  BY <1>1, <1>2, <1>4, <2>2 DEF Positive
<1> QED  BY <1>3, <1>4

-----------------------------------------------------------------------------
(* The walk, then the group and the count.                                     *)

LEMMA TopParts ==
    ASSUME NEW w, NEW req, NEW p, WalkedPath(p), NEW properties, Known(properties),
           AssembleF6(w, req, p, properties) # None, NEW d, Bound(p, d)
    PROVE  /\ req.value # None
           /\ \A x \in {TopGroup(w, p, properties), TopMeasure(w, p, properties)} :
                /\ x.target \in DOMAIN d.vertexRoles /\ d.vertexRoles[x.target] = x.owner
                /\ HasProperty(x.owner, x.name)
<1> DEFINE g == w.group_by[1]
           m == w.measures[1]
           usable(x) == /\ PropertyAt(properties, x) # None
                        /\ PropertyAt(properties, x).owner \in DOMAIN RoleInPath(p)
           group == TopGroup(w, p, properties)
           measure == TopMeasure(w, p, properties)
<1>1. req.value # None /\ usable(g) /\ usable(m)  BY Zenon DEF AssembleF6, PropertyAt
<1>2. ASSUME NEW x, usable(x)
      PROVE  LET q == PropertyAt(properties, x)
             IN  /\ q.owner \in DOMAIN RoleInPath(p) /\ HasProperty(q.owner, x.name)
                 /\ RoleInPath(p)[q.owner] \in DOMAIN d.vertexRoles /\ d.vertexRoles[RoleInPath(p)[q.owner]] = q.owner
  <2> DEFINE q == PropertyAt(properties, x)
  <2>1. q = UniqueProperty(properties, x.name, x.owner) /\ q # None /\ q.owner \in DOMAIN RoleInPath(p)
    BY <1>2 DEF PropertyAt
  <2> HIDE DEF q
  <2>2. HasProperty(q.owner, x.name)  BY <2>1, UniquePropertyIsKnown
  <2> QED  BY <2>1, <2>2 DEF Bound, q
<1>3. /\ group.target = RoleInPath(p)[PropertyAt(properties, g).owner]
      /\ group.owner = PropertyAt(properties, g).owner /\ group.name = g.name
      /\ measure.target = RoleInPath(p)[PropertyAt(properties, m).owner]
      /\ measure.owner = PropertyAt(properties, m).owner /\ measure.name = m.name
  BY DEF TopGroup, TopMeasure
<1>4. /\ group.target \in DOMAIN d.vertexRoles /\ d.vertexRoles[group.target] = group.owner
      /\ HasProperty(group.owner, group.name)
  BY <1>1, <1>2, <1>3
<1>5. /\ measure.target \in DOMAIN d.vertexRoles /\ d.vertexRoles[measure.target] = measure.owner
      /\ HasProperty(measure.owner, measure.name)
  BY <1>1, <1>2, <1>3
<1> QED  BY <1>1, <1>4, <1>5

(* So is one that ends in a count, its order and its limit. *)
LEMMA TopAccepted ==
    ASSUME NEW p, WalkedPath(p), NEW a, NEW sort, NEW limit, NEW columns, NEW group, NEW measure,
           a.op = "aggregate", a.group_by = <<group>>, a.measures = <<measure>>, measure.function = "count",
           sort.op = "sort", sort.by # <<>>, limit.op = "limit", limit.value > 0,
           \A x \in ToSet(sort.by) : x.source = [ns |-> "measure", name |-> measure.alias],
           \A x \in ToSet(columns) : /\ x.kind = "source"
                                     /\ x.source \in {[ns |-> "group", name |-> group.alias],
                                                      [ns |-> "measure", name |-> measure.alias]},
           LET d == PathDsl("top_n", p, <<a, sort, limit>>, <<>>, columns)
           IN  \A x \in {group, measure} : /\ x.target \in DOMAIN d.vertexRoles
                                           /\ d.vertexRoles[x.target] = x.owner /\ HasProperty(x.owner, x.name)
    PROVE  Accepted(PathDsl("top_n", p, <<a, sort, limit>>, <<>>, columns))
<1> DEFINE tail == <<a, sort, limit>>
           d == PathDsl("top_n", p, tail, <<>>, columns)
           ast == BuildAst(d)
<1>1. d.shape = "top_n" /\ d.filters = <<>> /\ d.projection = columns  BY DEF PathDsl
<1>2. IsList(tail) /\ ToSet(tail) = {a, sort, limit} /\ ToSet(<<>>) = {}  BY ThreeAreList, EmptyIsList
<1>3. /\ BindingErrors(d) = {}
      /\ \A o \in ToSet(d.operations) : \/ o \in ToSet(tail)
                                        \/ o.op = "traverse_edge" /\ OperationErrors(d, o) = {}
  BY <1>2, PathIsBound
<1>4. SequenceAllowed(d)
  <2>1. MapSeq(tail, LAMBDA o : o.op) \in {<<"aggregate", "sort", "limit">>}  BY DEF MapSeq
  <2>2. ChainThen(MapSeq(d.operations, LAMBDA o : o.op), {<<"aggregate", "sort", "limit">>})
    BY <1>2, <2>1, PathIsChain
  <2> HIDE DEF d
  <2> QED  BY <1>1, <2>2 DEF SequenceAllowed
<1>5. Contiguous(Traverses(ast))
  <2>1. \A o \in ToSet(tail) : o.op # "traverse_edge"  BY <1>2
  <2> QED  BY <1>2, <2>1, PathIsContiguous
<1>6. \A x \in {group, measure} : /\ x.target \in DOMAIN d.vertexRoles
                                  /\ d.vertexRoles[x.target] = x.owner /\ HasProperty(x.owner, x.name)
  OBVIOUS
<1>7. AlongPath(p, tail, d)  BY <1>2, OperationsOfPath
<1> HIDE DEF d
<1>8. ToSet(tail) \subseteq ToSet(d.operations) /\ Has(d, "traverse_edge")
  <2>1. HopsOf(p) \in Nat /\ HopsOf(p) >= 1  BY HopsOfPath
  <2>2. IsList(d.operations) /\ Len(d.operations) = HopsOf(p) + Len(tail)  BY <1>7 DEF AlongPath
  <2>3. Len(tail) \in Nat /\ DOMAIN tail = 1..Len(tail)  BY <1>2 DEF IsList
  <2>4. DOMAIN d.operations = 1..HopsOf(p) + Len(tail)  BY <2>2 DEF IsList
  <2>5. \A i \in 1..Len(tail) : HopsOf(p) + i \in DOMAIN d.operations /\ d.operations[HopsOf(p) + i] = tail[i]
    <3> HIDE DEF tail
    <3>1. \A i \in 1..Len(tail) : d.operations[HopsOf(p) + i] = tail[i]  BY <1>7 DEF AlongPath
    <3>2. \A i \in 1..Len(tail) : HopsOf(p) + i \in 1..HopsOf(p) + Len(tail)  BY <2>1, <2>3
    <3> QED  BY <2>4, <3>1, <3>2
  <2>6. 1 \in DOMAIN d.operations /\ d.operations[1].op = "traverse_edge"  BY <1>7, <2>1, <2>3, <2>4 DEF AlongPath
  <2> HIDE DEF tail
  <2>7. ToSet(tail) \subseteq ToSet(d.operations)  BY <2>3, <2>5 DEF ToSet
  <2> QED  BY <2>6, <2>7 DEF Has, Operations, ToSet
<1> HIDE DEF tail
<1>9. /\ \A o \in ToSet(d.operations) : o \in {a, sort, limit} \/ o.op = "traverse_edge"
      /\ a \in ToSet(d.operations) /\ sort \in ToSet(d.operations)
  BY <1>2, <1>3, <1>8
<1>10. ToSet(a.group_by) = {group} /\ ToSet(a.measures) = {measure}  BY OneIsList
<1>11. WellFormed(d)
  <2>1. AllFilters(d) = {}  BY <1>1, <1>2, <1>9 DEF AllFilters
  <2>2. \A o \in ToSet(d.operations) :
          /\ o.op = "limit" => o.value > 0
          /\ o.op = "sort" => o.by # <<>>
          /\ o.op = "aggregate" => o.measures # <<>>
          /\ o.op # "variable_path"
          /\ o.op \in {"aggregate", "subquery"} => \A m \in ToSet(o.measures) : m.function \in AggregateFunctions
    BY <1>9, <1>10 DEF AggregateFunctions
  <2> QED  BY <1>1, <2>1, <2>2 DEF WellFormed, QueryShape
<1>12. AggregateErrors(d, a) = {}
  <2> DEFINE errors(x) ==
               CASE x.target \notin DOMAIN d.vertexRoles -> {"unknown_aggregate_target"}
                 [] x.target \in DOMAIN d.vertexRoles /\ d.vertexRoles[x.target] # x.owner -> {"aggregate_owner_mismatch"}
                 [] OTHER -> Code(HasProperty(x.owner, x.name), "unknown_property")
  <2>1. \A x \in ToSet(a.group_by) \cup ToSet(a.measures) : errors(x) = {}  BY <1>6, <1>10 DEF Code
  <2>2. Code(\A m \in ToSet(a.measures) : m.function \in {"sum", "avg"} => <<m.owner, m.name>> \in Numeric,
             "invalid_aggregate_property_type") = {}
    BY <1>10 DEF Code
  <2>3. AggregateErrors(d, a) =
          (UNION {errors(x) : x \in ToSet(a.group_by) \cup ToSet(a.measures)})
          \cup Code(\A m \in ToSet(a.measures) : m.function \in {"sum", "avg"} => <<m.owner, m.name>> \in Numeric,
                    "invalid_aggregate_property_type")
    BY DEF AggregateErrors
  <2> HIDE DEF errors
  <2>4. UNION {errors(x) : x \in ToSet(a.group_by) \cup ToSet(a.measures)} = {}  BY <2>1
  <2> QED  BY <2>2, <2>3, <2>4
<1>13. \A o \in ToSet(d.operations) : OperationErrors(d, o) = {}
  <2>1. OperationErrors(d, a) = {}  BY <1>12 DEF OperationErrors
  <2>2. OperationErrors(d, sort) = {} /\ OperationErrors(d, limit) = {}  BY DEF OperationErrors
  <2> QED  BY <1>2, <1>3, <2>1, <2>2
<1>14. FilterErrors(d.filters, d.vertexRoles) = {}  BY <1>1, <1>2, ConditionsPass
<1>15. {[ns |-> "group", name |-> group.alias], [ns |-> "measure", name |-> measure.alias]} \subseteq SourceOutputs(d)
  <2>1. OperationOutputs(a) = {[ns |-> "group", name |-> x.alias] : x \in ToSet(a.group_by)}
                              \cup {[ns |-> "measure", name |-> x.alias] : x \in ToSet(a.measures)}
    BY OutputsOfAggregate
  <2>2. {[ns |-> "group", name |-> group.alias], [ns |-> "measure", name |-> measure.alias]} \subseteq OperationOutputs(a)
    BY <1>10, <2>1
  <2> QED  BY <1>9, <2>2 DEF SourceOutputs
<1>16. /\ \A x \in ToSet(d.projection) : x.kind = "source" /\ x.source \in SourceOutputs(d)
       /\ \A x \in ToSet(sort.by) : x.source \in SourceOutputs(d)
  BY <1>1, <1>15
<1>17. ProjectionErrors(d) = {}
  <2>1. \A x \in ToSet(d.projection) : FitsColumn(x, d)  BY <1>16 DEF FitsColumn
  <2>2. \A o \in ToSet(d.operations) : o.op = "sort" => \A x \in ToSet(o.by) : x.source \in SourceOutputs(d)
    BY <1>9, <1>16
  <2> QED  BY <2>1, <2>2, ColumnsPass
<1>18. ShapeCompiles(ast)
  <2>1. /\ ast.shape = "top_n" /\ ast.projection = columns /\ ast.operations = d.operations /\ ast.sort = sort.by
    <3>1. Operations(d, "sort") = {sort}  BY <1>9 DEF Operations
    <3>2. Has(d, "sort") /\ SingleOperation(d, "sort") = sort  BY <3>1 DEF Has, SingleOperation
    <3> QED  BY <1>1, <3>2, AllFields
  <2>2. DOMAIN OutputNames(ast) = SourceOutputs(d)  BY SourcesOfAst
  <2> HIDE DEF ast
  <2>3. Has(ast, "traverse_edge")  BY <1>8, <2>1 DEF Has, Operations
  <2>4. Form(ast) = "path_top_n"  BY <2>1, <2>3 DEF Form
  <2>5. SourcesKnown(ast, OutputNames(ast))  BY <1>1, <1>16, <2>1, <2>2 DEF SourcesKnown
  <2>6. OrderCompiles(ast, OutputNames(ast))  BY <1>16, <2>1, <2>2 DEF OrderCompiles
  <2> QED  BY <1>5, <2>4, <2>5, <2>6 DEF ShapeCompiles
<1> QED  BY <1>3, <1>4, <1>11, <1>13, <1>14, <1>17, <1>18, NoErrors DEF Accepted, d, tail

LEMMA TopIsAccepted ==
    ASSUME NEW w, w.measures # <<>> => w.measures[1].function = "count", NEW req, Positive(req.value),
           NEW p, WalkedPath(p), NEW properties, Known(properties), AssembleF6(w, req, p, properties) # None
    PROVE  Accepted(AssembleF6(w, req, p, properties))
<1> DEFINE d == AssembleF6(w, req, p, properties)
           a == TopAggregate(w, p, properties)
           sort == TopSort(w, req, properties)
           limit == TopLimit(req)
           group == TopGroup(w, p, properties)
           measure == TopMeasure(w, p, properties)
           groupItem == TopGroupItem(w, properties)
           measureItem == MeasureItem(w.measures[1], TopMeasureAlias(w, properties))
<1>1. d = PathDsl("top_n", p, <<a, sort, limit>>, <<>>, <<groupItem, measureItem>>)  BY TopIsPath
<1>2. w.measures # <<>>
  <2>1. Len(w.measures) = 1  BY Zenon DEF AssembleF6
  <2> QED  BY <2>1
<1>3. Bound(p, d)  BY <1>1, PathIsOwn
<1>4. /\ req.value # None
      /\ \A x \in {group, measure} : /\ x.target \in DOMAIN d.vertexRoles /\ d.vertexRoles[x.target] = x.owner
                                     /\ HasProperty(x.owner, x.name)
  BY <1>3, TopParts
<1>5. a.op = "aggregate" /\ a.group_by = <<group>> /\ a.measures = <<measure>>  BY DEF TopAggregate
<1>6. /\ measure.function = w.measures[1].function /\ measure.alias = TopMeasureAlias(w, properties)
      /\ group.alias = TopGroupAlias(w, properties)
  BY DEF TopMeasure, TopGroup
<1>7. sort.op = "sort" /\ sort.by # <<>> /\ \A x \in ToSet(sort.by) : x.source = [ns |-> "measure", name |-> measure.alias]
  BY <1>6, OneIsList DEF TopSort
<1>8. limit.op = "limit" /\ limit.value > 0  BY <1>4 DEF TopLimit, Positive
<1>9. \A x \in ToSet(<<groupItem, measureItem>>) :
        x.kind = "source" /\ x.source \in {[ns |-> "group", name |-> group.alias], [ns |-> "measure", name |-> measure.alias]}
  <2>1. groupItem.kind = "source" /\ groupItem.source = [ns |-> "group", name |-> group.alias]
    BY <1>6 DEF TopGroupItem
  <2>2. measureItem.kind = "source" /\ measureItem.source = [ns |-> "measure", name |-> measure.alias]
    BY <1>6 DEF MeasureItem
  <2> HIDE DEF groupItem, measureItem, group, measure
  <2>3. ToSet(<<groupItem, measureItem>>) = {groupItem, measureItem}  BY DEF ToSet
  <2> QED  BY <2>1, <2>2, <2>3
<1> HIDE DEF a, sort, limit, group, measure, groupItem, measureItem, d
<1> QED  BY <1>1, <1>2, <1>4, <1>5, <1>6, <1>7, <1>8, <1>9, TopAccepted DEF d

LEMMA MultihopIsAccepted ==
    ASSUME NEW w, NEW req, Positive(req.value), NEW candidates, KnownToModel(candidates), NEW family,
           family \in {"F4", "F5", "F6"}, family = "F6" /\ w.measures # <<>> => w.measures[1].function = "count",
           AssembleMultihop(w, req, candidates, family) # None
    PROVE  Accepted(AssembleMultihop(w, req, candidates, family))
<1> DEFINE p == PathPlan(w, candidates)
           properties == MultihopProperties(candidates)
           d == AssembleMultihop(w, req, candidates, family)
<1>1. /\ p # None
      /\ family = "F4" => d = AssembleF4(w, p, properties)
      /\ family = "F5" => d = AssembleF5(w, p, properties)
      /\ family = "F6" => d = AssembleF6(w, req, p, properties)
  BY DEF AssembleMultihop
<1>2. WalkedPath(p)  BY <1>1, PlanIsWalked
<1>3. Known(properties)  BY DEF MultihopProperties, Known, KnownToModel
<1> HIDE DEF p, properties
<1>4. CASE family = "F4"  BY <1>1, <1>2, <1>3, <1>4, WalkIsAccepted
<1>5. CASE family = "F5"  BY <1>1, <1>2, <1>3, <1>5, FilteredIsAccepted
<1>6. CASE family = "F6"  BY <1>1, <1>2, <1>3, <1>6, TopIsAccepted
<1> QED  BY <1>4, <1>5, <1>6

(* Along a path what is measured is a count. *)
LEMMA PathIsCounted ==
    ASSUME NEW w, NEW req, NEW vertices
    PROVE  LET measures == RequestFor(w, req, "F6", vertices).measures
           IN  measures # <<>> => measures[1].function = "count"
<1> DEFINE groups == GroupBy(w, vertices)
           measures == RequestFor(w, req, "F6", vertices).measures
<1>1. measures = PathMeasures(w, vertices, groups)  BY DEF RequestFor, RequestWith
<1>2. \/ PathMeasures(w, vertices, groups) = <<>>
      \/ \E owner, name, alias, terms :
           PathMeasures(w, vertices, groups) =
             <<[function |-> "count", owner |-> owner, name |-> name, alias |-> alias, terms |-> terms]>>
  BY Zenon DEF PathMeasures
<1> HIDE DEF measures
<1> QED  BY <1>1, <1>2 DEF measures

LEMMA AssembledIsAccepted ==
    ASSUME NEW w, NEW q, NEW candidates, KnownToModel(candidates),
           Assemble(w, Requirements(q), candidates) # None
    PROVE  Accepted(Assemble(w, Requirements(q), candidates))
<1> DEFINE req == Requirements(q)
           family == Family(w, req)
           vertices == SelectedVertices(w, req, candidates, family)
           request == RequestFor(w, req, family, vertices)
           vertex == OnlyMember(ZeroHopVertices(w, req, candidates))
           d == Assemble(w, req, candidates)
<1>1. \/ d = AssembleZeroHop(request, req, candidates, family, vertex)
      \/ family \in {"F4", "F5", "F6"} /\ d = AssembleMultihop(request, req, candidates, family)
  BY DEF Assemble, AssembleFamily, AssembleRequest
<1>2. Positive(req.value)  BY LimitIsPositive
<1>3. request.measures = <<>> \/ 1 \in DOMAIN request.measures  BY RequestedMeasures
<1>4. family = "F6" => (request.measures # <<>> => request.measures[1].function = "count")  BY PathIsCounted
<1>5. vertex \in Vertices \cup {None}
  <2>1. PreferredVertex(w, req, candidates) \in Vertices \cup {None}
    <3> DEFINE owners == {l.owner : l \in ToSet(w.literals)} \cap Vertices
    <3>1. PreferredVertex(w, req, candidates) \in {OnlyMember(owners), None}  BY DEF PreferredVertex
    <3>2. OnlyMember(owners) # None => OnlyMember(owners) \in owners  BY OnlyMemberIsIn
    <3> HIDE DEF owners
    <3>3. OnlyMember(owners) \in owners \cup {None}  BY <3>2
    <3>4. owners \subseteq Vertices  BY DEF owners
    <3> QED  BY <3>1, <3>3, <3>4
  <2>2. ZeroHopVertices(w, req, candidates) \subseteq Vertices  BY <2>1 DEF ZeroHopVertices, KnownToModel
  <2>3. vertex # None => vertex \in ZeroHopVertices(w, req, candidates)  BY OnlyMemberIsIn
  <2> HIDE DEF vertex
  <2> QED  BY <2>2, <2>3
<1>6. d # None  OBVIOUS
<1> HIDE DEF d, request, vertex, family, req, vertices
<1>7. d = AssembleZeroHop(request, req, candidates, family, vertex) => Accepted(d)
  BY <1>2, <1>3, <1>5, <1>6, ZeroHopIsAccepted DEF Positive, KnownToModel
<1>8. family \in {"F4", "F5", "F6"} /\ d = AssembleMultihop(request, req, candidates, family) => Accepted(d)
  BY <1>2, <1>4, <1>6, MultihopIsAccepted
<1> QED  BY <1>1, <1>7, <1>8 DEF d, req

-----------------------------------------------------------------------------
LEMMA AssembledCompilesIn ==
    ASSUME AssembledInv
    PROVE  AssembledIsCompiled
<1> SUFFICES ASSUME Assembled
             PROVE  ParserErrors(dsl) = {} /\ ShapeCompiles(BuildAst(dsl)) /\ ~CompilerBreaks(BuildAst(dsl))
  BY DEF AssembledIsCompiled
<1>1. dsl # None /\ dsl = Assemble(question, Requirements(question), question.candidates)
  BY DEF Assembled, AssembledInv, Required
<1>2. KnownToModel(question.candidates)
  <2>1. PICK q \in Questions : question.candidates = q.candidates  BY DEF AssembledInv
  <2> QED  BY <2>1, QuestionsAssumption DEF KnownToModel, Known
<1>3. Accepted(dsl)  BY <1>1, <1>2, AssembledIsAccepted
<1>4. Wired(dsl)  BY <1>1, <1>2, AssembledIsWired DEF KnownToModel
<1>5. ~CompilerBreaks(BuildAst(dsl))  BY <1>3, <1>4, CompilerHolds DEF Accepted
<1> QED  BY <1>3, <1>5 DEF Accepted

(* Whatever is asked, a DSL that is assembled without the LLM is one the      *)
(* parser accepts, the compiler has a form for and does not break on.         *)
THEOREM AssembledCompiles == Spec => []AssembledIsCompiled
<1>1. Init => AssembledInv
  BY QuestionsAssumption DEF Init, P!Init, AssembledInv, BeforeDecomposition, BeforeDsl, AfterAnswer, Assembled
<1>2. AssembledInv /\ [Next]_vars => AssembledInv'  BY AssembledStep
<1>3. AssembledInv => AssembledIsCompiled  BY AssembledCompilesIn
<1> QED  BY <1>1, <1>2, <1>3, PTL DEF Spec

-----------------------------------------------------------------------------
(* A query says what is bound: the items of a list at certain places.          *)

(* Each of a finite set of numbers has its place among them. *)
LEMMA InOrderReaches ==
    ASSUME NEW S, IsFiniteSet(S), S \subseteq Nat, NEW x \in S
    PROVE  LET o == InOrder(S, LAMBDA i, j : i < j)
           IN  \E k \in DOMAIN o : o[k] = x
<1> DEFINE below(z) == {y \in S : y < z}
           k == Cardinality(below(x)) + 1
<1>1. \A z \in S : below(z) \in SUBSET S /\ z \notin below(z)  OBVIOUS
<1>2. \A z \in S : IsFiniteSet(below(z)) /\ Cardinality(below(z)) \in Nat
  <2> HIDE DEF below
  <2> QED  BY <1>1, FS_Subset, FS_CardinalityType
<1>3. k \in 1..Cardinality(S)
  <2> HIDE DEF below
  <2>1. Cardinality(below(x)) <= Cardinality(S) /\ Cardinality(below(x)) # Cardinality(S)  BY <1>1, FS_Subset
  <2>2. Cardinality(S) \in Nat  BY FS_CardinalityType
  <2> QED  BY <1>2, <2>1, <2>2
<1>4. ASSUME NEW y \in S, NEW z \in S, y < z PROVE Cardinality(below(y)) # Cardinality(below(z))
  <2>1. \A w \in below(y) : w \in below(z)
    <3> SUFFICES ASSUME NEW w \in S, w < y PROVE w < z  OBVIOUS
    <3>1. w \in Nat /\ y \in Nat /\ z \in Nat  OBVIOUS
    <3> QED  BY <1>4, <3>1
  <2>2. below(y) \in SUBSET below(z)  BY <2>1
  <2>3. y \in below(z) /\ y \notin below(y)  BY <1>4
  <2> HIDE DEF below
  <2> QED  BY <1>2, <2>2, <2>3, FS_Subset
<1>5. \A z \in S : Cardinality(below(z)) = k - 1 <=> z = x
  <2> SUFFICES ASSUME NEW z \in S, z # x PROVE Cardinality(below(z)) # Cardinality(below(x))
    BY <1>2
  <2>1. z < x \/ x < z  OBVIOUS
  <2> HIDE DEF below
  <2> QED  BY <1>4, <2>1
<1>6. (CHOOSE z \in S : Cardinality(below(z)) = k - 1) = x
  <2> HIDE DEF below, k
  <2> QED  BY <1>5
<1>7. InOrder(S, LAMBDA i, j : i < j) =
        [n \in 1..Cardinality(S) |-> CHOOSE z \in S : Cardinality(below(z)) = n - 1]
  BY DEF InOrder
<1> HIDE DEF below, k
<1> QED  BY <1>3, <1>6, <1>7

(* A list's items at some of its places: a list with each of them.       *)
LEMMA ItemsAtPlaces ==
    ASSUME NEW s, IsList(s), NEW places, places \subseteq DOMAIN s
    PROVE  /\ IsList(ItemsAt(s, places))
           /\ \A i \in places : s[i] \in ToSet(ItemsAt(s, places))
<1> DEFINE o == InOrder(places, LAMBDA i, j : i < j)
           t == ItemsAt(s, places)
<1>1. IsFiniteSet(places) /\ places \subseteq Nat
  <2>1. Len(s) \in Nat /\ DOMAIN s = 1..Len(s)  BY DEF IsList
  <2>2. IsFiniteSet(1..Len(s)) /\ places \in SUBSET (1..Len(s))  BY <2>1, FS_Interval
  <2> QED  BY <2>2, FS_Subset
<1>2. DOMAIN o = 1..Cardinality(places) /\ t = [k \in DOMAIN o |-> s[o[k]]]
  BY DEF ItemsAt, MapSeq, InOrder
<1>3. Cardinality(places) \in Nat  BY <1>1, FS_CardinalityType
<1>4. \A i \in places : \E k \in DOMAIN o : o[k] = i  BY <1>1, InOrderReaches
<1> HIDE DEF o, t
<1>6. IsList(t)
  <2>1. t = [k \in 1..Cardinality(places) |-> t[k]]  BY <1>2
  <2> QED  BY <1>3, <2>1, FunctionIsList
<1>7. \A i \in places : s[i] \in ToSet(t)  BY <1>2, <1>4 DEF ToSet
<1> QED  BY <1>6, <1>7 DEF t

(* No two roles share a variable. *)
LEMMA VariablesDiffer ==
    ASSUME NEW ast, NEW roles, IsList(roles),
           NEW r \in ToSet(roles), NEW s \in ToSet(roles),
           RoleVariables(ast, roles)[r] = RoleVariables(ast, roles)[s]
    PROVE  r = s
<1> DEFINE base(x) == VariableBase[ast.vertexRoles[x]]
           places(x) == {i \in DOMAIN roles : roles[i] = x}
           first(x) == Min(places(x))
           upTo(x) == {y \in ToSet(roles) : base(y) = base(x) /\ first(y) <= first(x)}
           variable(x) == [base |-> base(x), number |-> Cardinality(upTo(x))]
<1>1. RoleVariables(ast, roles) = [x \in ToSet(roles) |-> variable(x)]  BY Zenon DEF RoleVariables
<1> DEFINE n == Len(roles)
<1>0. n \in Nat /\ DOMAIN roles = 1..n  BY DEF IsList
<1> HIDE DEF n
<1>2. \A x \in ToSet(roles) : first(x) \in Nat /\ roles[first(x)] = x
  <2> SUFFICES ASSUME NEW x \in ToSet(roles) PROVE first(x) \in Nat /\ roles[first(x)] = x  OBVIOUS
  <2>1. places(x) # {} /\ places(x) \subseteq Nat  BY <1>0 DEF ToSet
  <2>2. \E i \in places(x) : \A j \in places(x) : i <= j
    <3> HIDE DEF places
    <3> QED  BY <2>1, LeastNumber
  <2>3. first(x) \in places(x)
    <3> HIDE DEF places
    <3> QED  BY <2>2 DEF Min
  <2> QED  BY <2>1, <2>3
<1>3. IsFiniteSet(ToSet(roles))
  <2> DEFINE role == [i \in 1..n |-> roles[i]]
  <2>1. role \in Surjection(1..n, ToSet(roles))  BY <1>0 DEF Surjection, ToSet
  <2> QED  BY <1>0, <2>1, UpTo, FS_Surjection
<1>4. base(r) = base(s) /\ Cardinality(upTo(r)) = Cardinality(upTo(s))
  <2>1. variable(r) = variable(s)
    <3> HIDE DEF variable
    <3> QED  BY <1>1
  <2>2. \A x : variable(x).base = base(x) /\ variable(x).number = Cardinality(upTo(x))  BY Zenon
  <2> HIDE DEF variable, base, upTo
  <2> QED  BY <2>1, <2>2
<1>5. ASSUME NEW x \in ToSet(roles), NEW y \in ToSet(roles), base(x) = base(y), first(x) <= first(y),
             Cardinality(upTo(x)) = Cardinality(upTo(y))
      PROVE  x = y
  <2> HIDE DEF first, base, places
  <2>1. upTo(x) \in SUBSET upTo(y) /\ y \in upTo(y)
    <3>1. first(y) <= first(y)  BY <1>2
    <3>2. \A z \in ToSet(roles) : first(z) <= first(x) => first(z) <= first(y)  BY <1>2, <1>5
    <3> QED  BY <1>5, <3>1, <3>2
  <2>2. upTo(y) \in SUBSET ToSet(roles)  OBVIOUS
  <2>3. IsFiniteSet(upTo(y))
    <3> HIDE DEF upTo
    <3> QED  BY <1>3, <2>2, FS_Subset
  <2>4. upTo(x) = upTo(y)
    <3> HIDE DEF upTo
    <3> QED  BY <1>5, <2>1, <2>3, FS_Subset
  <2>5. first(y) <= first(x)  BY <2>1, <2>4
  <2>6. first(x) = first(y)  BY <1>2, <1>5, <2>5
  <2> QED  BY <1>2, <2>6
<1> HIDE DEF first, base, upTo, places
<1>6. first(r) <= first(s) \/ first(s) <= first(r)  BY <1>2
<1> QED  BY <1>4, <1>5, <1>6

(* A variable's label is the one of its nodes, if they have but one. *)
LEMMA LabelOfVariable ==
    ASSUME NEW q, IsList(q.nodes), NEW v, NEW l,
           NEW k, k \in DOMAIN q.nodes, q.nodes[k].variable = v,
           \A i : i \in DOMAIN q.nodes /\ q.nodes[i].variable = v => q.nodes[i].label = l
    PROVE  LabelOf(q, v) = l
<1> DEFINE bound == {i \in DOMAIN q.nodes : q.nodes[i].variable = v}
<1>1. bound # {} /\ Len(q.nodes) \in Nat /\ bound \subseteq 1..Len(q.nodes)  BY DEF IsList
<1>2. Max(bound) \in bound
  <2> HIDE DEF bound
  <2> QED  BY <1>1, GreatestNumber
<1>3. LabelOf(q, v) = q.nodes[Max(bound)].label  BY <1>1 DEF LabelOf
<1>4. Max(bound) \in DOMAIN q.nodes /\ q.nodes[Max(bound)].variable = v  BY <1>2
<1> QED  BY <1>3, <1>4

(* The node of a role has the label of the vertex the role is bound to. *)
LEMMA NodesHaveLabels ==
    ASSUME NEW q, NEW ast, NEW roles, IsList(roles),
           q.nodes = Nodes(ast, RoleVariables(ast, roles), roles), NEW r \in ToSet(roles)
    PROVE  LabelOf(q, RoleVariables(ast, roles)[r]) = ast.vertexRoles[r]
<1> DEFINE vs == RoleVariables(ast, roles)
           node(x) == [variable |-> vs[x], label |-> ast.vertexRoles[x]]
<1>1. q.nodes = [i \in DOMAIN roles |-> node(roles[i])]  BY Zenon DEF Nodes, MapSeq
<1>2. \A x : node(x).variable = vs[x] /\ node(x).label = ast.vertexRoles[x]  OBVIOUS
<1>3. \A s \in ToSet(roles) : vs[s] = vs[r] => s = r  BY VariablesDiffer
<1> HIDE DEF vs, node
<1>4. IsList(q.nodes)
  <2>1. q.nodes = [i \in DOMAIN roles |-> [k \in DOMAIN roles |-> node(roles[k])][i]]  BY <1>1
  <2> QED  BY <2>1, MappedIsList
<1>5. \A i \in DOMAIN q.nodes : roles[i] \in ToSet(roles) /\ q.nodes[i] = node(roles[i])  BY <1>1 DEF ToSet
<1>6. \E i \in DOMAIN q.nodes : q.nodes[i].variable = vs[r]  BY <1>1, <1>2 DEF ToSet
<1>7. \A i \in DOMAIN q.nodes : q.nodes[i].variable = vs[r] => q.nodes[i].label = ast.vertexRoles[r]
  BY <1>2, <1>3, <1>5
<1> DEFINE v == vs[r]
           l == ast.vertexRoles[r]
<1>8. PICK k \in DOMAIN q.nodes : q.nodes[k].variable = v  BY <1>6
<1>9. \A i : i \in DOMAIN q.nodes /\ q.nodes[i].variable = v => q.nodes[i].label = l  BY <1>7
<1> HIDE DEF v, l
<1>10. LabelOf(q, v) = l  BY <1>4, <1>8, <1>9, LabelOfVariable
<1> QED  BY <1>10 DEF vs, v, l

\* The roles a form gives nodes to, and the filters it makes conditions of.
NodeForms == {"vertex_lookup", "single_hop_traversal", "path_top_n", "variable_path_traversal", "ad_hoc_aggregate"}

NodeRoles(ast) ==
    CASE Form(ast) = "vertex_lookup" -> SetToSeq(SingleVertexRole(ast) \ {None})
      [] Form(ast) \in {"single_hop_traversal", "path_top_n"} -> ChainRoles(Traverses(ast))
      [] Form(ast) = "variable_path_traversal" ->
           <<SingleOperation(ast, "variable_path").start, SingleOperation(ast, "variable_path").through>>
      [] OTHER -> SetToSeq(AggregateRoles(SingleOperation(ast, "aggregate"), ast.filters))

FilterList(ast) ==
    IF Form(ast) = "variable_path_traversal" THEN SingleOperation(ast, "variable_path").filters \o ast.filters
    ELSE ast.filters

Columned(q, ast, vs) ==
    IF Form(ast) \in {"path_top_n", "ad_hoc_aggregate"}
    THEN \E expressions : q.returns = CompileSourceReturn(ast, expressions)
    ELSE q.returns = CompileReturn(ast, vs)

LEMMA AllClauses ==
    ASSUME NEW nodes, NEW edges, NEW where, NEW with, NEW returns, NEW order, NEW limit
    PROVE  LET q == Query(nodes, edges, where, with, returns, order, limit)
           IN  q.nodes = nodes /\ q.where = where /\ q.returns = returns
BY DEF Query

(* The clauses of a query with nodes for its roles. *)
LEMMA NodeClauses ==
    ASSUME NEW ast, Form(ast) \in NodeForms
    PROVE  LET q == Compile(ast)
               vs == RoleVariables(ast, NodeRoles(ast))
           IN  /\ q.nodes = Nodes(ast, vs, NodeRoles(ast))
               /\ q.where = CompileFilters(FilterList(ast), vs)
               /\ Columned(q, ast, vs)
<1> DEFINE q == Compile(ast)
           vs == RoleVariables(ast, NodeRoles(ast))
           nodes == Nodes(ast, vs, NodeRoles(ast))
           where == CompileFilters(FilterList(ast), vs)
<1> SUFFICES \E edges, returns, order, limit : /\ q = Query(nodes, edges, where, <<>>, returns, order, limit)
                                               /\ IF Form(ast) \in {"path_top_n", "ad_hoc_aggregate"}
                                                  THEN \E expressions : returns = CompileSourceReturn(ast, expressions)
                                                  ELSE returns = CompileReturn(ast, vs)
  <2> PICK edges, returns, order, limit : /\ q = Query(nodes, edges, where, <<>>, returns, order, limit)
                                          /\ IF Form(ast) \in {"path_top_n", "ad_hoc_aggregate"}
                                             THEN \E expressions : returns = CompileSourceReturn(ast, expressions)
                                             ELSE returns = CompileReturn(ast, vs)
    OBVIOUS
  <2> HIDE DEF q, nodes, where, vs
  <2>1. q.nodes = nodes /\ q.where = where /\ q.returns = returns  BY AllClauses
  <2>2. q.nodes = nodes /\ q.where = where /\ Columned(q, ast, vs)  BY <2>1, Zenon DEF Columned
  <2> QED  BY <2>2 DEF q, nodes, where, vs
<1>1. CASE Form(ast) = "vertex_lookup"
  <2>1. NodeRoles(ast) = SetToSeq(SingleVertexRole(ast) \ {None}) /\ FilterList(ast) = ast.filters
    BY <1>1 DEF NodeRoles, FilterList
  <2>2. q = CompileVertexLookup(ast)  BY <1>1, CompiledByForm DEF CompiledForm
  <2>3. q = Query(nodes, <<>>, where, <<>>, CompileReturn(ast, vs), OrderBy(ast, <<>>), ast.limit)
    BY <2>1, <2>2, Zenon DEF CompileVertexLookup
  <2> HIDE DEF q, nodes, where, vs
  <2> QED  BY <1>1, <2>3
<1>2. CASE Form(ast) = "single_hop_traversal"
  <2>1. NodeRoles(ast) = ChainRoles(Traverses(ast)) /\ FilterList(ast) = ast.filters
    BY <1>2 DEF NodeRoles, FilterList
  <2>2. q = CompileSingleHop(ast)  BY <1>2, CompiledByForm DEF CompiledForm
  <2>3. q = Query(nodes, TraverseEdges(ast), where, <<>>, CompileReturn(ast, vs), <<>>, None)
    BY <2>1, <2>2, Zenon DEF CompileSingleHop, CompileChain
  <2> HIDE DEF q, nodes, where, vs
  <2> QED  BY <1>2, <2>3
<1>3. CASE Form(ast) = "path_top_n"
  <2>1. NodeRoles(ast) = ChainRoles(Traverses(ast)) /\ FilterList(ast) = ast.filters
    BY <1>3 DEF NodeRoles, FilterList
  <2>2. q = CompilePathTopN(ast)  BY <1>3, CompiledByForm DEF CompiledForm
  <2> DEFINE o == SingleOperation(ast, "aggregate")
             expressions == SourceExpressions(o.group_by, o.measures, vs)
  <2>3. q = Query(nodes, TraverseEdges(ast), where, <<>>, CompileSourceReturn(ast, expressions),
                  OrderBy(ast, expressions), ast.limit)
    BY <2>1, <2>2, Zenon DEF CompilePathTopN, CompileChain
  <2> HIDE DEF q, nodes, where, vs, expressions
  <2> QED  BY <1>3, <2>3
<1>4. CASE Form(ast) = "variable_path_traversal"
  <2> DEFINE o == SingleOperation(ast, "variable_path")
             edge == [name |-> o.edges[1], direction |-> "forward", min |-> o.min, max |-> o.max]
  <2>1. NodeRoles(ast) = <<o.start, o.through>> /\ FilterList(ast) = o.filters \o ast.filters
    BY <1>4 DEF NodeRoles, FilterList
  <2>2. q = CompileVariablePath(ast)  BY <1>4, CompiledByForm DEF CompiledForm
  <2>3. q = Query(nodes, <<edge>>, where, <<>>, CompileReturn(ast, vs), <<>>, None)
    BY <2>1, <2>2, Zenon DEF CompileVariablePath
  <2> HIDE DEF q, nodes, where, vs, edge
  <2> QED  BY <1>4, <2>3
<1>5. CASE Form(ast) = "ad_hoc_aggregate"
  <2> DEFINE o == SingleOperation(ast, "aggregate")
             expressions == SourceExpressions(o.group_by, o.measures, vs)
  <2>1. NodeRoles(ast) = SetToSeq(AggregateRoles(o, ast.filters)) /\ FilterList(ast) = ast.filters
    BY <1>5 DEF NodeRoles, FilterList
  <2>2. q = CompileAdHocAggregate(ast)  BY <1>5, CompiledByForm DEF CompiledForm
  <2>3. q = Query(nodes, <<>>, where, <<>>, CompileSourceReturn(ast, expressions), OrderBy(ast, expressions), ast.limit)
    BY <2>1, <2>2, Zenon DEF CompileAdHocAggregate
  <2> HIDE DEF q, nodes, where, vs, expressions
  <2> QED  BY <1>5, <2>3
<1> QED  BY <1>1, <1>2, <1>3, <1>4, <1>5 DEF NodeForms

(* A condition is on its filter's variable. *)
Said(q, f) ==
    \E c \in ToSet(q.where) : /\ LabelOf(q, c.variable) = f.owner /\ c.name = f.name
                              /\ c.operator = f.operator /\ c.value = ValueCompiled(f)

LEMMA WhereSays ==
    ASSUME NEW q, NEW filters, NEW vs, q.where = CompileFilters(filters, vs), NEW f \in ToSet(filters),
           LabelOf(q, vs[f.target]) = f.owner
    PROVE  Said(q, f)
<1> DEFINE condition(i) ==
             LET g == filters[i]
             IN  [variable |-> vs[g.target], name |-> g.name, operator |-> g.operator,
                  value |-> IF g.operator = "is_not_null" THEN None ELSE EffectiveValue(g.value),
                  parameter |-> ParameterNames(filters)[i]]
<1>1. CompileFilters(filters, vs) = [i \in DOMAIN filters |-> condition(i)]  BY Zenon DEF CompileFilters
<1>2. PICK i \in DOMAIN filters : f = filters[i]  BY DEF ToSet
<1>3. /\ condition(i).variable = vs[f.target] /\ condition(i).name = f.name
      /\ condition(i).operator = f.operator /\ condition(i).value = ValueCompiled(f)
  BY <1>2 DEF ValueCompiled
<1> HIDE DEF condition
<1>4. condition(i) \in ToSet(q.where)  BY <1>1 DEF ToSet
<1> QED  BY <1>3, <1>4 DEF Said

(* A column reads its item's property. *)
Reads(q, i, x) ==
    LET read == q.returns[i].expression
    IN  <<LabelOf(q, read.variable), read.name>> = <<x.owner, x.name>>

LEMMA ReturnReads ==
    ASSUME NEW q, NEW ast, NEW vs, q.returns = CompileReturn(ast, vs)
    PROVE  /\ DOMAIN q.returns = DOMAIN ast.projection
           /\ \A i \in DOMAIN ast.projection :
                LET x == ast.projection[i]
                IN  x.kind = "property" /\ LabelOf(q, vs[x.target]) = x.owner => Reads(q, i, x)
<1> DEFINE column(i) == Column(ProjectionAliases(ast)[i], ItemExpression(ast.projection[i], vs))
<1>1. CompileReturn(ast, vs) = [i \in DOMAIN ast.projection |-> column(i)]  BY Zenon DEF CompileReturn
<1>2. ASSUME NEW i, ast.projection[i].kind = "property"
      PROVE  /\ column(i).expression.variable = vs[ast.projection[i].target]
             /\ column(i).expression.name = ast.projection[i].name
  BY <1>2 DEF Column, ItemExpression, PropertyOf
<1> HIDE DEF column
<1>3. ASSUME NEW i \in DOMAIN ast.projection, ast.projection[i].kind = "property",
             LabelOf(q, vs[ast.projection[i].target]) = ast.projection[i].owner
      PROVE  Reads(q, i, ast.projection[i])
  <2>1. q.returns[i] = column(i)  BY <1>1, <1>3
  <2> QED  BY <1>2, <1>3, <2>1 DEF Reads
<1> QED  BY <1>1, <1>3

(* What the parser has accepted is on its owner's role. *)
LEMMA FiltersAreOwn ==
    ASSUME NEW filters, NEW roles, FilterErrors(filters, roles) = {}, NEW f \in ToSet(filters), f.target # None
    PROVE  f.target \in DOMAIN roles /\ roles[f.target] = f.owner
<1> DEFINE errors(x) == CASE x.target # None /\ x.target \notin DOMAIN roles -> {"unknown_filter_target"}
                          [] x.target # None /\ x.target \in DOMAIN roles /\ roles[x.target] # x.owner -> {"filter_owner_mismatch"}
                          [] OTHER -> Code(HasProperty(x.owner, x.name), "unknown_property")
<1>1. UNION {errors(x) : x \in ToSet(filters)} = {}  BY DEF FilterErrors
<1>2. errors(f) \subseteq UNION {errors(x) : x \in ToSet(filters)}  OBVIOUS
<1>3. errors(f) = {}  BY <1>1, <1>2
<1> QED  BY <1>3

LEMMA ColumnsAreOwn ==
    ASSUME NEW d, ProjectionErrors(d) = {}, NEW x \in ToSet(d.projection), x.kind = "property"
    PROVE  x.target \in DOMAIN d.vertexRoles /\ d.vertexRoles[x.target] = x.owner
<1> DEFINE errors(y) ==
             CASE y.kind = "source" -> Code(y.source \in SourceOutputs(d), "unknown_source_output")
               [] y.kind # "source" /\ y.target \notin DOMAIN d.vertexRoles -> {"unknown_projection_target"}
               [] y.kind = "property" /\ y.target \in DOMAIN d.vertexRoles ->
                    Code(d.vertexRoles[y.target] = y.owner, "projection_owner_mismatch")
                    \cup Code(HasProperty(y.owner, y.name), "unknown_property")
               [] OTHER -> {}
<1>1. UNION {errors(y) : y \in ToSet(d.projection)} = {}  BY DEF ProjectionErrors
<1>2. errors(x) \subseteq UNION {errors(y) : y \in ToSet(d.projection)}  OBVIOUS
<1>3. errors(x) = {}  BY <1>1, <1>2
<1>4. x.target \in DOMAIN d.vertexRoles  BY AcceptedProjection
<1>5. errors(x) = Code(d.vertexRoles[x.target] = x.owner, "projection_owner_mismatch")
                  \cup Code(HasProperty(x.owner, x.name), "unknown_property")
  BY <1>4
<1> HIDE DEF errors
<1>6. Code(d.vertexRoles[x.target] = x.owner, "projection_owner_mismatch") = {}  BY <1>3, <1>5
<1> QED  BY <1>4, <1>6 DEF Code

LEMMA MetricFiltersAreOwn ==
    ASSUME NEW o, MetricErrors(o) = {}, NEW f \in ToSet(o.filters)
    PROVE  /\ o.metric \in Metrics /\ f.target \in DOMAIN MetricAliases[o.metric]
           /\ MetricAliases[o.metric][f.target] = f.owner
<1> DEFINE items == ToSet(o.group_by) \cup {g \in ToSet(o.filters) : g.target # None}
           errors(x) == MetricTargetErrors(o.metric, x.target, x.owner, x.name)
                        \cup Code(HasProperty(x.owner, x.name), "unknown_property")
           untargeted == Code(\A g \in ToSet(o.filters) : g.target # None, "missing_filter_target")
<1>1. o.metric \in Metrics  BY DEF MetricErrors
<1>2. (UNION {errors(x) : x \in items}) \cup untargeted = {}  BY <1>1, Zenon DEF MetricErrors
<1>3. f.target # None
  <2>1. untargeted = {}  BY <1>2
  <2> QED  BY <2>1 DEF Code
<1>4. f \in items  BY <1>3
<1> HIDE DEF items, untargeted
<1>5. errors(f) = {}
  <2> HIDE DEF errors
  <2> QED  BY <1>2, <1>4
<1>6. MetricTargetErrors(o.metric, f.target, f.owner, f.name) = {}  BY <1>5
<1> QED  BY <1>1, <1>6 DEF MetricTargetErrors

-----------------------------------------------------------------------------
LEMMA SoleItemInOrder ==
    ASSUME NEW r
    PROVE  IsList(SetToSeq({r})) /\ ToSet(SetToSeq({r})) = {r}
<1> DEFINE s == SetToSeq({r})
<1>1. Cardinality({r}) = 1  BY FS_Singleton
<1>2. s = CHOOSE f \in [1..1 -> {r}] : IsInjective(f)  BY <1>1 DEF SetToSeq
<1>3. [i \in 1..1 |-> r] \in [1..1 -> {r}] /\ IsInjective([i \in 1..1 |-> r])  BY DEF IsInjective
<1> HIDE DEF s
<1>4. s \in [1..1 -> {r}]  BY <1>2, <1>3
<1>5. IsList(s)
  <2>1. s = [i \in 1..1 |-> s[i]]  BY <1>4
  <2> QED  BY <2>1, FunctionIsList
<1>6. ToSet(s) = {r}  BY <1>4 DEF ToSet
<1> QED  BY <1>5, <1>6 DEF s

(* The nodes of a chain are those its edges join. *)
LEMMA ChainReaches ==
    ASSUME NEW ast, IsList(ast.operations), Contiguous(Traverses(ast))
    PROVE  IsList(ChainRoles(Traverses(ast))) /\ RolesWalked(ast) \subseteq ToSet(ChainRoles(Traverses(ast)))
<1> DEFINE ts == Traverses(ast)
           n == Len(ts)
           to(o) == o.to
           rest == MapSeq(ts, LAMBDA o : o.to)
           chain == ChainRoles(ts)
<1>1. IsList(ts) /\ \A o \in Operations(ast, "traverse_edge") : o \in ToSet(ts)
  <2>1. EdgePlaces(ast) \subseteq DOMAIN ast.operations  BY DEF EdgePlaces
  <2>2. IsList(ts) /\ \A i \in EdgePlaces(ast) : ast.operations[i] \in ToSet(ts)
    BY <2>1, ItemsAtPlaces DEF Traverses
  <2>3. \A o \in Operations(ast, "traverse_edge") : \E i \in EdgePlaces(ast) : o = ast.operations[i]
    BY DEF Operations, EdgePlaces, ToSet
  <2> QED  BY <2>2, <2>3
<1>2. n \in Nat /\ DOMAIN ts = 1..n  BY <1>1 DEF IsList
<1>3. rest = [i \in 1..n |-> to(ts[i])]  BY <1>2, Zenon DEF MapSeq
<1>4. IsList(rest) /\ Len(rest) = n /\ \A i \in 1..n : rest[i] = ts[i].to
  <2> HIDE DEF rest, ts
  <2>1. rest = [i \in 1..n |-> rest[i]]  BY <1>3
  <2> QED  BY <1>2, <1>3, <2>1, FunctionIsList
<1>5. chain = <<ts[1].from>> \o rest  BY Zenon DEF ChainRoles
<1>6. IsList(chain) /\ ToSet(chain) = {ts[1].from} \cup ToSet(rest)
  <2> HIDE DEF rest, chain, ts
  <2> QED  BY <1>4, <1>5, OneIsList, JoinedIsList
<1>7. \A i \in 1..n - 1 : ts[i].to = ts[i + 1].from  BY DEF Contiguous
<1> HIDE DEF rest, ts, chain, n
<1>8. ASSUME NEW k \in 1..n PROVE ts[k].to \in ToSet(chain) /\ ts[k].from \in ToSet(chain)
  <2>1. \A i \in 1..n : ts[i].to \in ToSet(rest)
    <3>1. DOMAIN rest = 1..n  BY <1>2, <1>4 DEF IsList
    <3> QED  BY <1>4, <3>1 DEF ToSet
  <2>2. CASE k = 1  BY <1>6, <2>1, <2>2
  <2>3. CASE k # 1
    <3>1. k - 1 \in 1..n - 1 /\ k - 1 \in 1..n /\ (k - 1) + 1 = k  BY <1>2, <2>3
    <3>2. ts[k].from = ts[k - 1].to  BY <1>7, <3>1
    <3> QED  BY <1>6, <2>1, <3>1, <3>2
  <2> QED  BY <2>2, <2>3
<1>9. RolesWalked(ast) \subseteq ToSet(chain)
  <2>1. \A o \in Operations(ast, "traverse_edge") : o.from \in ToSet(chain) /\ o.to \in ToSet(chain)
    BY <1>1, <1>2, <1>8 DEF ToSet
  <2> QED  BY <2>1 DEF RolesWalked
<1> QED  BY <1>6, <1>9 DEF ts, chain

-----------------------------------------------------------------------------
\* What the compiler needs of a DSL to give each of its roles a node.
Worded(d) ==
    /\ d.shape = "vertex_lookup" => \E r : r # None /\ DOMAIN d.vertexRoles = {r}
    /\ d.shape \in {"ad_hoc_aggregate", "top_n"} =>
         \/ \E r : DOMAIN d.vertexRoles = {r}
         \/ IsList(d.filters) /\ \A o \in ToSet(d.operations) : o.op = "aggregate" => Listed(o)
    /\ d.shape = "variable_path_traversal" =>
         IsList(d.filters) /\ \A o \in ToSet(d.operations) : o.op = "variable_path" => IsList(o.filters)
    /\ d.shape = "named_path_pattern" =>
         /\ d.projection = [i \in DOMAIN d.projection |-> d.projection[i]]
         /\ \A i \in DOMAIN d.projection : d.projection[i].kind = "source"

LEMMA TargetsAreFinite ==
    ASSUME NEW s, IsList(s)
    PROVE  IsFiniteSet({x.target : x \in ToSet(s)})
<1> DEFINE n == Len(s)
           targets == {x.target : x \in ToSet(s)}
           target == [i \in 1..n |-> s[i].target]
<1>1. n \in Nat /\ DOMAIN s = 1..n  BY DEF IsList
<1>2. target \in Surjection(1..n, targets)  BY <1>1 DEF Surjection, ToSet
<1> HIDE DEF target, targets
<1>3. IsFiniteSet(targets)  BY <1>1, <1>2, UpTo, FS_Surjection
<1> QED  BY <1>3 DEF targets

LEMMA SoleRole ==
    ASSUME NEW S, IsFiniteSet(S), Cardinality(S) = 1
    PROVE  IsList(SetToSeq(S)) /\ ToSet(SetToSeq(S)) = S
<1>1. \E r : S = {r}  BY FS_Singleton
<1> QED  BY <1>1, SoleItemInOrder

(* Each role the compiler looks up has a node. *)
LEMMA RolesReached ==
    ASSUME NEW d, ParserErrors(d) = {}, Shaped(d), Wired(d), Worded(d), ShapeCompiles(BuildAst(d)),
           Form(BuildAst(d)) \in NodeForms
    PROVE  LET ast == BuildAst(d)
           IN  IsList(NodeRoles(ast)) /\ RolesLookedUp(ast) \subseteq ToSet(NodeRoles(ast))
<1> DEFINE ast == BuildAst(d)
<1>1. /\ ast.shape = d.shape /\ ast.vertexRoles = d.vertexRoles /\ ast.operations = d.operations
      /\ ast.filters = d.filters /\ ast.projection = d.projection
  BY DEF BuildAst
<1>2. Form(ast) = Form(d) /\ \A op : SingleOperation(ast, op) = SingleOperation(d, op)  BY AstOfDsl
<1>3. RolesLookedUp(ast) \subseteq RolesWithVariable(ast)  BY CompilerHolds DEF CompilerBreaks
<1>4. IsList(ast.operations)  BY <1>1 DEF Shaped
<1>5. /\ d.shape \in QueryShape /\ Framed(d) /\ FilterErrors(d.filters, d.vertexRoles) = {} /\ ProjectionErrors(d) = {}
      /\ \A o \in ToSet(d.operations) : OperationErrors(d, o) = {}
  BY <1>1, <1>4, AcceptedOperations, AcceptedParts
<1> DEFINE Reached == IsList(NodeRoles(ast)) /\ RolesLookedUp(ast) \subseteq ToSet(NodeRoles(ast))
<1> SUFFICES Reached  OBVIOUS
<1>6. ShapeCompiles(ast) /\ Form(ast) \in NodeForms  OBVIOUS
<1> HIDE DEF ast
<1>7. CASE Form(ast) = "vertex_lookup"
  <2> DEFINE S == SingleVertexRole(ast) \ {None}
  <2>1. NodeRoles(ast) = SetToSeq(S) /\ RolesWithVariable(ast) = SingleVertexRole(ast)
    BY <1>7 DEF NodeRoles, RolesWithVariable
  <2>2. d.shape = "vertex_lookup"  BY <1>2, <1>5, <1>7, FormKinds
  <2>3. PICK r : r # None /\ DOMAIN d.vertexRoles = {r}  BY <2>2 DEF Worded
  <2>4. \A f \in ToSet(d.filters) : f.target \in {None, r}  BY <1>5, <2>3, AcceptedFilters
  <2>5. \A x \in ToSet(d.projection) : x.kind # "source" => x.target = r  BY <1>5, <2>3, AcceptedProjection
  <2>6. S \subseteq {r}  BY <1>1, <2>4, <2>5 DEF SingleVertexRole
  <2>7. Cardinality(S) = 1  BY <1>6, <1>7 DEF ShapeCompiles
  <2>8. FiltersCompiled(ast) = ToSet(ast.filters)  BY <1>7 DEF FiltersCompiled
  <2>9. None \notin RolesLookedUp(ast)
    <3>1. RolesLookedUp(ast) = ({f.target : f \in ToSet(ast.filters)} \ {None})
                               \cup {x.target : x \in {y \in ToSet(ast.projection) : y.kind # "source"}}
      BY <1>7, <2>8 DEF RolesLookedUp
    <3> QED  BY <1>1, <2>3, <2>5, <3>1
  <2>10. RolesLookedUp(ast) \subseteq S  BY <1>3, <2>1, <2>9
  <2> HIDE DEF S
  <2>11. IsFiniteSet(S)
    <3>1. IsFiniteSet({r}) /\ S \in SUBSET {r}  BY <2>6, FS_Singleton
    <3> QED  BY <3>1, FS_Subset
  <2> QED  BY <2>1, <2>7, <2>10, <2>11, SoleRole
<1>8. CASE Form(ast) \in {"single_hop_traversal", "path_top_n"}
  <2>1. NodeRoles(ast) = ChainRoles(Traverses(ast)) /\ RolesWithVariable(ast) = RolesWalked(ast)
    BY <1>8 DEF NodeRoles, RolesWithVariable
  <2>2. Contiguous(Traverses(ast))  BY <1>6, <1>8 DEF ShapeCompiles
  <2> QED  BY <1>3, <1>4, <2>1, <2>2, ChainReaches
<1>9. CASE Form(ast) = "variable_path_traversal"
  <2> DEFINE o == SingleOperation(ast, "variable_path")
  <2>1. NodeRoles(ast) = <<o.start, o.through>> /\ RolesWithVariable(ast) = {o.start, o.through}
    BY <1>9 DEF NodeRoles, RolesWithVariable
  <2>2. \A a, b : IsList(<<a, b>>) /\ ToSet(<<a, b>>) = {a, b}  BY DEF IsList, ToSet
  <2> QED  BY <1>3, <2>1, <2>2
<1>10. CASE Form(ast) = "ad_hoc_aggregate"
  <2> DEFINE o == SingleOperation(d, "aggregate")
             S == AggregateRoles(o, d.filters)
             outputs == ToSet(o.group_by) \cup ToSet(o.measures)
  <2>1. NodeRoles(ast) = SetToSeq(S) /\ RolesWithVariable(ast) = S
    BY <1>1, <1>2, <1>10 DEF NodeRoles, RolesWithVariable
  <2>2. Cardinality(S) = 1  BY <1>1, <1>2, <1>6, <1>10 DEF ShapeCompiles
  <2>3. d.shape \in {"ad_hoc_aggregate", "top_n"} /\ Has(d, "aggregate")
    <3>1. CASE d.shape = "top_n"
      <4>1. ~Has(d, "metric_aggregate")  BY <1>2, <1>10, <3>1, Zenon DEF Form
      <4> QED  BY <1>5, <3>1, <4>1, HasKind DEF Framed
    <3>2. CASE d.shape # "top_n"
      <4>1. d.shape = "ad_hoc_aggregate"  BY <1>2, <1>10, <3>2 DEF Form
      <4> QED  BY <1>5, <4>1, HasKind DEF Framed, ShapeOperation
    <3> QED  BY <3>1, <3>2
  <2>4. o \in ToSet(d.operations) /\ o.op = "aggregate"  BY <2>3, SingleOperationIsOne
  <2> HIDE DEF o
  <2>5. AggregateErrors(d, o) = {}  BY <1>5, <2>4 DEF OperationErrors
  <2>6. S = {x.target : x \in outputs \cup ToSet(d.filters)} \ {None}  BY DEF AggregateRoles
  <2>7. IsFiniteSet(S)
    <3>1. CASE \E r : DOMAIN d.vertexRoles = {r}
      <4>1. PICK r : DOMAIN d.vertexRoles = {r}  BY <3>1
      <4>2. \A x \in outputs : x.target = r  BY <2>5, <4>1, AcceptedAggregate
      <4>3. \A f \in ToSet(d.filters) : f.target \in {None, r}  BY <1>5, <4>1, AcceptedFilters
      <4>4. S \in SUBSET {r}  BY <2>6, <4>2, <4>3
      <4> HIDE DEF S
      <4> QED  BY <4>4, FS_Singleton, FS_Subset
    <3>2. CASE IsList(d.filters) /\ Listed(o)
      <4> DEFINE a == {x.target : x \in ToSet(o.group_by)}
                 b == {x.target : x \in ToSet(o.measures)}
                 c == {x.target : x \in ToSet(d.filters)}
      <4>1. IsFiniteSet(a) /\ IsFiniteSet(b) /\ IsFiniteSet(c)  BY <3>2, TargetsAreFinite DEF Listed
      <4>2. S \in SUBSET ((a \cup b) \cup c)  BY <2>6
      <4> HIDE DEF a, b, c, S
      <4>3. IsFiniteSet((a \cup b) \cup c)  BY <4>1, FS_Union
      <4> QED  BY <4>2, <4>3, FS_Subset
    <3> QED  BY <2>3, <2>4, <3>1, <3>2 DEF Worded
  <2> HIDE DEF S
  <2> QED  BY <1>3, <2>1, <2>2, <2>7, SoleRole
<1> QED  BY <1>6, <1>7, <1>8, <1>9, <1>10 DEF NodeForms

LEMMA SourcedForms ==
    ASSUME NEW ast, ShapeCompiles(ast),
           Form(ast) \in {"path_top_n", "metric_aggregate", "ad_hoc_aggregate", "two_step_aggregate"}
    PROVE  \A x \in ToSet(ast.projection) : x.kind = "source"
<1>1. SourcesKnown(ast, OutputNames(ast))  BY DEF ShapeCompiles
<1> QED  BY <1>1 DEF SourcesKnown

(* A metric's conditions are on the aliases of its pattern. *)
LEMMA MetricSays ==
    ASSUME NEW ast, LET o == SingleOperation(ast, "metric_aggregate")
                    IN  MetricErrors(o) = {}
    PROVE  LET o == SingleOperation(ast, "metric_aggregate")
               q == CompileMetricAggregate(ast)
           IN  /\ \A f \in ToSet(o.filters) : Said(q, f)
               /\ DOMAIN q.returns = DOMAIN ast.projection
<1> DEFINE o == SingleOperation(ast, "metric_aggregate")
           q == CompileMetricAggregate(ast)
           aliases == [a \in DOMAIN MetricAliases[o.metric] |-> a]
           order == AliasOrder[o.metric]
           node(a) == [variable |-> a, label |-> MetricAliases[o.metric][a]]
           nodes == MapSeq(order, node)
           where == CompileFilters(o.filters, aliases)
<1>1. q = Query(nodes, <<>>, where, <<>>, CompileSourceReturn(ast, MetricExpressions(o)),
                OrderBy(ast, MetricExpressions(o)), ast.limit)
  BY Zenon DEF CompileMetricAggregate
<1>2. nodes = [i \in DOMAIN order |-> node(order[i])]  BY DEF MapSeq
<1>3. \A a : node(a).variable = a /\ node(a).label = MetricAliases[o.metric][a]  OBVIOUS
<1>4. \A expressions : DOMAIN CompileSourceReturn(ast, expressions) = DOMAIN ast.projection
  BY DEF CompileSourceReturn
<1> HIDE DEF q, nodes, where
<1>5. q.nodes = nodes /\ q.where = where /\ q.returns = CompileSourceReturn(ast, MetricExpressions(o))
  BY <1>1, AllClauses
<1>6. MetricErrors(o) = {}  OBVIOUS
<1> HIDE DEF o, node
<1>7. ASSUME NEW f, f \in ToSet(o.filters)
      PROVE  Said(q, f)
  <2> DEFINE v == f.target
             l == MetricAliases[o.metric][f.target]
  <2>1. o.metric \in Metrics /\ v \in DOMAIN MetricAliases[o.metric] /\ l = f.owner
    BY <1>6, <1>7, MetricFiltersAreOwn
  <2>2. IsList(order) /\ v \in ToSet(order)
    <3>1. order \in Seq(DOMAIN MetricAliases[o.metric]) /\ DOMAIN MetricAliases[o.metric] \subseteq ToSet(order)
      BY <2>1, GraphModelAssumption
    <3> HIDE DEF order
    <3> QED  BY <2>1, <3>1, ListOfItsItems
  <2> HIDE DEF order, v, l
  <2>3. IsList(q.nodes)
    <3>1. q.nodes = [i \in DOMAIN order |-> [k \in DOMAIN order |-> node(order[k])][i]]  BY <1>2, <1>5
    <3> QED  BY <2>2, <3>1, MappedIsList
  <2>4. PICK k : k \in DOMAIN order /\ order[k] = v  BY <2>2 DEF ToSet
  <2>5. k \in DOMAIN q.nodes /\ q.nodes[k].variable = v  BY <1>2, <1>3, <1>5, <2>4
  <2>6. \A i : i \in DOMAIN q.nodes /\ q.nodes[i].variable = v => q.nodes[i].label = l
    BY <1>2, <1>3, <1>5 DEF v, l
  <2>7. LabelOf(q, v) = l  BY <2>3, <2>5, <2>6, LabelOfVariable
  <2>8. aliases[f.target] = f.target  BY <2>1 DEF v
  <2>9. LabelOf(q, aliases[f.target]) = f.owner  BY <2>1, <2>7, <2>8 DEF v
  <2> HIDE DEF aliases
  <2> QED  BY <1>5, <1>7, <2>9, WhereSays DEF where
<1> QED  BY <1>4, <1>5, <1>7 DEF o, q

(* The query of a DSL the parser has accepted has each of its conditions and  *)
(* columns.                                                                   *)
LEMMA NodeFormSays ==
    ASSUME NEW d, ParserErrors(d) = {}, Shaped(d), Wired(d), Worded(d), Compiles(BuildAst(d)),
           Form(BuildAst(d)) \in NodeForms
    PROVE  LET ast == BuildAst(d)
               q == Compile(ast)
           IN  /\ \A f \in FiltersCompiled(ast) : Said(q, f)
               /\ DOMAIN q.returns = DOMAIN d.projection
               /\ \A i \in DOMAIN d.projection : d.projection[i].kind = "property" => Reads(q, i, d.projection[i])
<1> DEFINE ast == BuildAst(d)
           q == Compile(ast)
           roles == NodeRoles(ast)
           vs == RoleVariables(ast, roles)
<1>1. /\ ast.shape = d.shape /\ ast.vertexRoles = d.vertexRoles /\ ast.operations = d.operations
      /\ ast.filters = d.filters /\ ast.projection = d.projection
  BY DEF BuildAst
<1>2. Form(ast) = Form(d) /\ \A op : SingleOperation(ast, op) = SingleOperation(d, op)  BY AstOfDsl
<1>3. ShapeCompiles(ast) /\ FiltersCompile(FiltersCompiled(ast)) /\ Form(ast) \in NodeForms  BY DEF Compiles
<1>4. IsList(roles) /\ RolesLookedUp(ast) \subseteq ToSet(roles)  BY <1>3, RolesReached
<1>5. /\ q.nodes = Nodes(ast, vs, roles) /\ q.where = CompileFilters(FilterList(ast), vs) /\ Columned(q, ast, vs)
  BY <1>3, NodeClauses
<1>6. /\ d.shape \in QueryShape /\ Framed(d) /\ FilterErrors(d.filters, d.vertexRoles) = {} /\ ProjectionErrors(d) = {}
      /\ \A o \in ToSet(d.operations) : OperationErrors(d, o) = {}
  BY AcceptedOperations, AcceptedParts DEF Shaped
<1> SUFFICES /\ \A f \in FiltersCompiled(ast) : Said(q, f)
             /\ DOMAIN q.returns = DOMAIN d.projection
             /\ \A i \in DOMAIN d.projection : d.projection[i].kind = "property" => Reads(q, i, d.projection[i])
  OBVIOUS
<1> HIDE DEF ast, q, roles
<1>7. ASSUME NEW r \in ToSet(roles)
      PROVE  LabelOf(q, vs[r]) = d.vertexRoles[r]
  BY <1>1, <1>4, <1>5, NodesHaveLabels
<1>8. /\ \A f \in FiltersCompiled(ast) : f \in ToSet(FilterList(ast))
      /\ \A f \in FiltersCompiled(ast) : f.target # None =>
           f.target \in DOMAIN d.vertexRoles /\ d.vertexRoles[f.target] = f.owner
  <2>1. CASE Form(ast) = "variable_path_traversal"
    <3> DEFINE o == SingleOperation(ast, "variable_path")
               through == [r \in {o.through} \cap DOMAIN d.vertexRoles |-> d.vertexRoles[r]]
    <3>1. d.shape = "variable_path_traversal"  BY <1>2, <1>6, <2>1, FormKinds
    <3>2. o \in ToSet(d.operations) /\ o.op = "variable_path"
      <4>1. Has(d, "variable_path")  BY <3>1 DEF Wired
      <4> QED  BY <1>2, <4>1, SingleOperationIsOne
    <3> HIDE DEF o
    <3>3. IsList(o.filters) /\ IsList(d.filters)  BY <3>1, <3>2 DEF Worded
    <3>4. FiltersCompiled(ast) = ToSet(o.filters) \cup ToSet(d.filters) /\ FilterList(ast) = o.filters \o d.filters
      BY <1>1, <2>1 DEF FiltersCompiled, FilterList, o
    <3>5. ToSet(o.filters \o d.filters) = ToSet(o.filters) \cup ToSet(d.filters)  BY <3>3, JoinedIsList
    <3>6. FilterErrors(o.filters, through) = {}  BY <1>6, <3>2 DEF OperationErrors, VariablePathErrors
    <3>7. \A f \in ToSet(o.filters) : f.target # None => f.target \in DOMAIN through /\ through[f.target] = f.owner
      <4> HIDE DEF through
      <4> QED  BY <3>6, FiltersAreOwn
    <3>8. \A f \in ToSet(o.filters) : f.target # None =>
            f.target \in DOMAIN d.vertexRoles /\ d.vertexRoles[f.target] = f.owner
      BY <3>7
    <3> QED  BY <1>6, <3>4, <3>5, <3>8, FiltersAreOwn
  <2>2. CASE Form(ast) # "variable_path_traversal"
    <3>1. FiltersCompiled(ast) = ToSet(d.filters)  BY <1>1, <1>3, <2>2 DEF FiltersCompiled, NodeForms
    <3>2. FilterList(ast) = d.filters  BY <1>1, <2>2 DEF FilterList
    <3> QED  BY <1>6, <3>1, <3>2, FiltersAreOwn
  <2> QED  BY <2>1, <2>2
<1>9. ASSUME NEW f \in FiltersCompiled(ast)
      PROVE  Said(q, f)
  <2>1. f.target # None  BY <1>3 DEF FiltersCompile
  <2>2. f.target \in RolesLookedUp(ast)  BY <2>1 DEF RolesLookedUp
  <2>3. LabelOf(q, vs[f.target]) = f.owner  BY <1>4, <1>7, <1>8, <2>1, <2>2
  <2> HIDE DEF vs
  <2> QED  BY <1>5, <1>8, <2>3, WhereSays
<1>10. CASE Form(ast) \in {"path_top_n", "ad_hoc_aggregate"}
  <2>1. \A x \in ToSet(ast.projection) : x.kind = "source"  BY <1>3, <1>10, SourcedForms
  <2>2. \E expressions : q.returns = CompileSourceReturn(ast, expressions)  BY <1>5, <1>10 DEF Columned
  <2>3. DOMAIN q.returns = DOMAIN ast.projection  BY <2>2 DEF CompileSourceReturn
  <2> QED  BY <1>1, <1>9, <2>1, <2>3 DEF ToSet
<1>11. CASE Form(ast) \notin {"path_top_n", "ad_hoc_aggregate"}
  <2>1. q.returns = CompileReturn(ast, vs)  BY <1>5, <1>11 DEF Columned
  <2>2. DOMAIN q.returns = DOMAIN ast.projection  BY <2>1, ReturnReads
  <2>3. ASSUME NEW i \in DOMAIN d.projection, d.projection[i].kind = "property"
        PROVE  Reads(q, i, d.projection[i])
    <3> DEFINE x == d.projection[i]
    <3>1. x \in ToSet(d.projection)  BY DEF ToSet
    <3>2. d.vertexRoles[x.target] = x.owner  BY <1>6, <2>3, <3>1, ColumnsAreOwn
    <3>3. Form(ast) \in {"vertex_lookup", "single_hop_traversal", "variable_path_traversal"}
      BY <1>3, <1>11 DEF NodeForms
    <3>4. x.target \in RolesLookedUp(ast)
      <4>1. x.target \in {y.target : y \in {z \in ToSet(ast.projection) : z.kind # "source"}}  BY <1>1, <2>3, <3>1
      <4> QED  BY <3>3, <4>1 DEF RolesLookedUp
    <3>5. LabelOf(q, vs[x.target]) = x.owner  BY <1>4, <1>7, <3>2, <3>4
    <3> HIDE DEF vs
    <3> QED  BY <1>1, <2>1, <2>3, <3>5, ReturnReads
  <2> QED  BY <1>1, <1>9, <2>2, <2>3
<1> QED  BY <1>10, <1>11

LEMMA CompiledSays ==
    ASSUME NEW d, ParserErrors(d) = {}, Shaped(d), Wired(d), Worded(d), Compiles(BuildAst(d))
    PROVE  LET ast == BuildAst(d)
               q == Compile(ast)
           IN  /\ \A f \in FiltersCompiled(ast) : Said(q, f)
               /\ d.shape # "named_path_pattern" => DOMAIN q.returns = DOMAIN d.projection
               /\ \A i \in DOMAIN d.projection : d.projection[i].kind = "property" => Reads(q, i, d.projection[i])
<1> DEFINE ast == BuildAst(d)
           q == Compile(ast)
<1>1. ast.shape = d.shape /\ ast.operations = d.operations /\ ast.projection = d.projection  BY DEF BuildAst
<1>2. Form(ast) = Form(d) /\ \A op : SingleOperation(ast, op) = SingleOperation(d, op)  BY AstOfDsl
<1>3. ShapeCompiles(ast)  BY DEF Compiles
<1>4. /\ d.shape \in QueryShape /\ Framed(d) /\ \A o \in ToSet(d.operations) : OperationErrors(d, o) = {}
  BY AcceptedOperations DEF Shaped
<1>5. CASE Form(ast) \in NodeForms  BY <1>5, NodeFormSays
<1> SUFFICES ASSUME Form(ast) \notin NodeForms
             PROVE  /\ \A f \in FiltersCompiled(ast) : Said(q, f)
                    /\ d.shape # "named_path_pattern" => DOMAIN q.returns = DOMAIN d.projection
                    /\ \A i \in DOMAIN d.projection : d.projection[i].kind = "property" => Reads(q, i, d.projection[i])
  BY <1>5
<1> HIDE DEF ast
<1>6. CASE Form(ast) = "metric_aggregate"
  <2> DEFINE o == SingleOperation(ast, "metric_aggregate")
  <2>1. Has(d, "metric_aggregate")
    <3>1. d.shape \in {"metric_aggregate", "top_n"}  BY <1>2, <1>6, Zenon DEF Form
    <3>2. d.shape = "top_n" => Has(d, "metric_aggregate")  BY <1>2, <1>6, Zenon DEF Form
    <3>3. d.shape = "metric_aggregate" => Has(d, "metric_aggregate")  BY <1>4, HasKind DEF Framed, ShapeOperation
    <3> QED  BY <3>1, <3>2, <3>3
  <2>2. o \in ToSet(d.operations) /\ o.op = "metric_aggregate"  BY <1>2, <2>1, SingleOperationIsOne
  <2>3. MetricErrors(o) = {}
    <3> HIDE DEF o
    <3> QED  BY <1>4, <2>2 DEF OperationErrors
  <2>4. q = CompileMetricAggregate(ast)  BY <1>6, CompiledByForm DEF CompiledForm
  <2>5. FiltersCompiled(ast) = ToSet(o.filters)  BY <1>6 DEF FiltersCompiled
  <2>6. \A x \in ToSet(d.projection) : x.kind = "source"  BY <1>1, <1>3, <1>6, SourcedForms
  <2>7. (\A f \in ToSet(o.filters) : Said(q, f)) /\ DOMAIN q.returns = DOMAIN ast.projection
    BY <2>3, <2>4, MetricSays
  <2> QED  BY <1>1, <2>5, <2>6, <2>7 DEF ToSet
<1>7. CASE Form(ast) = "two_step_aggregate"
  <2>1. FiltersCompiled(ast) = {}  BY <1>7 DEF FiltersCompiled
  <2>2. q = CompileTwoStepAggregate(ast)  BY <1>7, CompiledByForm DEF CompiledForm
  <2>3. \E nodes, with, expressions : q = Query(nodes, <<>>, <<>>, with, CompileSourceReturn(ast, expressions),
                                                OrderBy(ast, expressions), ast.limit)
    BY <2>2, Zenon DEF CompileTwoStepAggregate
  <2> HIDE DEF q
  <2>4. \E expressions : q.returns = CompileSourceReturn(ast, expressions)  BY <2>3, AllClauses
  <2>5. DOMAIN q.returns = DOMAIN ast.projection  BY <2>4 DEF CompileSourceReturn
  <2>6. \A x \in ToSet(d.projection) : x.kind = "source"  BY <1>1, <1>3, <1>7, SourcedForms
  <2> QED  BY <1>1, <2>1, <2>5, <2>6 DEF ToSet
<1>8. CASE Form(ast) = "named_path_pattern"
  <2>1. FiltersCompiled(ast) = {}  BY <1>8 DEF FiltersCompiled
  <2>2. d.shape = "named_path_pattern"  BY <1>2, <1>4, <1>8, FormKinds
  <2> QED  BY <2>1, <2>2 DEF Worded
<1> QED  BY <1>2, <1>4, <1>6, <1>7, <1>8, FormKinds DEF NodeForms

-----------------------------------------------------------------------------
(* What the validator has let through has the columns that were asked for. *)
LEMMA ValidatedAliases ==
    ASSUME NEW q, NEW expected, SelfValidationErrors(q, expected) = {}
    PROVE  ReturnAliases(q) = expected
<1> DEFINE checks == <<SyntaxErrors(q), ReadonlyErrors(q), DialectErrors(q), SchemaErrors(q), ShapeErrors(q, expected)>>
           failed == {i \in DOMAIN checks : checks[i] # {}}
<1>1. FirstFailure(checks) = {}  BY DEF SelfValidationErrors
<1>2. FirstFailure(checks) = IF failed = {} THEN {} ELSE checks[Min(failed)]  BY Zenon DEF FirstFailure
<1>3. DOMAIN checks = 1..5 /\ checks[5] = ShapeErrors(q, expected)  OBVIOUS
<1> HIDE DEF checks
<1>4. failed = {}
  <2> SUFFICES ASSUME failed # {} PROVE FALSE  OBVIOUS
  <2>1. failed \subseteq Nat  BY <1>3
  <2> HIDE DEF failed
  <2>2. \E m \in failed : \A k \in failed : m <= k  BY <2>1, LeastNumber
  <2>3. Min(failed) \in failed  BY <2>2 DEF Min
  <2>4. checks[Min(failed)] # {}  BY <2>3 DEF failed
  <2> QED  BY <1>1, <1>2, <2>4
<1>5. ShapeErrors(q, expected) = {}
  <2>1. 5 \in DOMAIN checks  BY <1>3
  <2> QED  BY <1>3, <1>4, <2>1
<1> QED  BY <1>5 DEF ShapeErrors

LEMMA ValidatedColumns ==
    ASSUME NEW q, NEW d, SelfValidationErrors(q, ProjectionAliases(BuildAst(d))) = {},
           d.projection = [i \in DOMAIN d.projection |-> d.projection[i]]
    PROVE  DOMAIN q.returns = DOMAIN d.projection \/ d.projection = <<>>
<1> DEFINE aliases == ProjectionAliases(BuildAst(d))
<1>1. DOMAIN aliases = DOMAIN d.projection
  <2>1. DOMAIN aliases = DOMAIN BuildAst(d).projection  BY DEF ProjectionAliases
  <2> QED  BY <2>1, AstOfDsl
<1>2. ReturnAliases(q) = aliases  BY ValidatedAliases
<1> HIDE DEF aliases
<1>3. CASE NamesUsed(q) \cap ReadWords = {}
  <2>1. DOMAIN ReturnAliases(q) = DOMAIN q.returns  BY <1>3 DEF ReturnAliases, MapSeq
  <2> QED  BY <1>1, <1>2, <2>1
<1>4. CASE NamesUsed(q) \cap ReadWords # {}
  <2>1. ReturnAliases(q) = <<>>  BY <1>4, Zenon DEF ReturnAliases
  <2>2. DOMAIN d.projection = {}  BY <1>1, <1>2, <2>1
  <2> DEFINE p == d.projection
  <2>3. p = [i \in DOMAIN p |-> p[i]] /\ DOMAIN p = {}  BY <2>2
  <2> HIDE DEF p
  <2>4. p = <<>>  BY <2>3
  <2> QED  BY <2>4 DEF p
<1> QED  BY <1>3, <1>4

-----------------------------------------------------------------------------
(* What the binder takes of the LLM's answer: a condition's literal is of the *)
(* condition's own property.                                                  *)
LEMMA SeenLiterals ==
    ASSUME NEW u, IsList(u.literals), NEW i \in Nat
    PROVE  IsList(LiteralsAt(u, i))
<1> DEFINE with == {j \in 1..i - 1 : u.filters[j].inline # None}
           own == [k \in 1..Cardinality(with) |->
                     SelectSeq(SubSeq(u.filters, 1, i - 1), LAMBDA f : f.inline # None)[k].inline]
<1>1. LiteralsAt(u, i) = u.literals \o own  BY DEF LiteralsAt
<1>2. Cardinality(with) \in Nat
  <2>1. IsFiniteSet(1..i - 1) /\ with \in SUBSET (1..i - 1)  BY FS_Interval
  <2> HIDE DEF with
  <2> QED  BY <2>1, FS_Subset, FS_CardinalityType
<1>3. own = [k \in 1..Cardinality(with) |-> own[k]]  OBVIOUS
<1> HIDE DEF with, own
<1>4. IsList(own)  BY <1>2, <1>3, FunctionIsList
<1> QED  BY <1>1, <1>4, JoinedIsList

LEMMA LiteralIsOwn ==
    ASSUME NEW u, IsList(u.literals), NEW i \in Nat, NEW candidates, FilterBindable(u, i, candidates)
    PROVE  FilterLiteral(u, i).owner = FilterOwner(u, i) /\ FilterLiteral(u, i).property = u.filters[i].property
<1> DEFINE f == u.filters[i]
           ls == LiteralsAt(u, i)
           fits(l) == /\ l.owner = FilterOwner(u, i) /\ l.property = f.property
                      /\ LiteralMatchesRawValue(l, RawLiteral(f))
           fitting == {n \in 1..Len(ls) : fits(ls[n])}
           k == SelectInSeq(ls, fits)
<1>1. FilterLiteral(u, i) = IF f.inline # None THEN f.inline ELSE IF k = 0 THEN None ELSE ls[k]
  BY Zenon DEF FilterLiteral
<1>2. InlineFits(u, i) /\ FilterLiteral(u, i) # None  BY DEF FilterBindable
<1>3. CASE f.inline # None  BY <1>1, <1>2, <1>3 DEF InlineFits
<1>4. CASE f.inline = None
  <2>1. k # 0 /\ FilterLiteral(u, i) = ls[k]
    <3> HIDE DEF k, ls
    <3> QED  BY <1>1, <1>2, <1>4
  <2>2. k = IF fitting # {} THEN Min(fitting) ELSE 0  BY Zenon DEF SelectInSeq
  <2>3. Len(ls) \in Nat
    <3>1. IsList(ls)  BY SeenLiterals
    <3> QED  BY <3>1 DEF IsList
  <2>4. fitting \subseteq Nat  BY <2>3
  <2> HIDE DEF fitting, k
  <2>5. fitting # {} => \E m \in fitting : \A n \in fitting : m <= n  BY <2>4, LeastNumber
  <2>6. k \in fitting  BY <2>1, <2>2, <2>5 DEF Min
  <2>7. ls[k].owner = FilterOwner(u, i) /\ ls[k].property = f.property  BY <2>6 DEF fitting
  <2> QED  BY <2>1, <2>7
<1> QED  BY <1>3, <1>4

\* A list of conditions each on the property its literal is of.
OwnConditions(filters) ==
    /\ IsList(filters)
    /\ \A f \in ToSet(filters) : /\ f.operator \in Operators
                                 /\ f.literal.owner = f.owner /\ f.literal.property = f.property

LEMMA BoundConditions ==
    ASSUME NEW u, IsList(u.filters), IsList(u.literals), NEW candidates, Bindable(u, candidates)
    PROVE  OwnConditions(Bind(u).filters)
<1>1. Bind(u).filters = FilterBindings(u)  BY DEF Bind
<1>2. CASE u.filters = <<>>
  <2> DEFINE picks(l) == /\ l.match # "unresolved"
                         /\ u.properties = <<>> \/ [owner |-> l.owner, name |-> l.property] \in ToSet(u.properties)
             places == {i \in DOMAIN u.literals : picks(u.literals[i])}
             picked == ItemsAt(u.literals, places)
             condition(l) == [owner |-> l.owner, property |-> l.property, operator |-> "eq", literal |-> l]
             filters == FilterBindings(u)
  <2>1. filters = [i \in DOMAIN picked |-> condition(picked[i])]
    BY <1>2, Zenon DEF FilterBindings, FiltersFromSelectedLiterals, MapSeq
  <2>2. IsList(picked)
    <3>1. places \subseteq DOMAIN u.literals  OBVIOUS
    <3> HIDE DEF places
    <3> QED  BY <3>1, ItemsAtPlaces
  <2>3. \A l : /\ condition(l).operator \in Operators
               /\ condition(l).literal.owner = condition(l).owner
               /\ condition(l).literal.property = condition(l).property
    BY DEF Operators
  <2> HIDE DEF condition, picked, filters
  <2>4. IsList(filters)
    <3>1. filters = [i \in DOMAIN picked |-> [k \in DOMAIN picked |-> condition(picked[k])][i]]  BY <2>1
    <3> QED  BY <2>2, <3>1, MappedIsList
  <2>5. \A f \in ToSet(filters) : \E l : f = condition(l)  BY <2>1 DEF ToSet
  <2>6. OwnConditions(filters)  BY <2>3, <2>4, <2>5 DEF OwnConditions
  <2> QED  BY <1>1, <2>6 DEF filters
<1>3. CASE u.filters # <<>>
  <2> DEFINE condition(i) == [owner |-> FilterOwner(u, i), property |-> u.filters[i].property,
                              operator |-> u.filters[i].operator, literal |-> FilterLiteral(u, i)]
             filters == FilterBindings(u)
  <2>1. filters = [i \in DOMAIN u.filters |-> condition(i)]  BY <1>3, Zenon DEF FilterBindings
  <2>2. \A i \in DOMAIN u.filters : i \in Nat /\ FilterBindable(u, i, candidates)
    <3>1. DOMAIN u.filters \subseteq Nat  BY DEF IsList
    <3> QED  BY <3>1 DEF Bindable, OperandsBindable
  <2>3. ASSUME NEW i \in DOMAIN u.filters
        PROVE  /\ condition(i).operator \in Operators
               /\ condition(i).literal.owner = condition(i).owner
               /\ condition(i).literal.property = condition(i).property
    <3>1. FilterLiteral(u, i).owner = FilterOwner(u, i) /\ FilterLiteral(u, i).property = u.filters[i].property
      BY <2>2, LiteralIsOwn
    <3>2. u.filters[i].operator \in Operators  BY <2>2 DEF FilterBindable
    <3> QED  BY <3>1, <3>2
  <2> HIDE DEF condition, filters
  <2>4. IsList(filters)
    <3>1. filters = [i \in DOMAIN u.filters |-> [k \in DOMAIN u.filters |-> condition(k)][i]]  BY <2>1
    <3> QED  BY <3>1, MappedIsList
  <2>5. \A f \in ToSet(filters) : \E i \in DOMAIN u.filters : f = condition(i)  BY <2>1 DEF ToSet
  <2>6. OwnConditions(filters)  BY <2>3, <2>4, <2>5 DEF OwnConditions
  <2> QED  BY <1>1, <2>6 DEF filters
<1> QED  BY <1>2, <1>3

LEMMA EnrichedFilters ==
    ASSUME NEW a \in Understandings, NEW literals
    PROVE  LET u == EnrichProjection(ToBinderPayload(Hydrate(a, literals)))
           IN  IsList(u.filters) /\ IsList(u.literals)
<1> DEFINE h == Hydrate(a, literals)
           u == ToBinderPayload(h)
<1>1. /\ "filters" \in DOMAIN a /\ IsList(a.filters) /\ "literals" \in DOMAIN a /\ IsList(a.literals)
  BY UnderstandingsAssumption DEF IsList
<1>2. IsList(MapSeq(a.literals, LAMBDA l : literals[l.id]))
  <2> DEFINE t == MapSeq(a.literals, LAMBDA l : literals[l.id])
  <2>1. t = [i \in DOMAIN a.literals |-> [k \in DOMAIN a.literals |-> literals[a.literals[k].id]][i]]
    BY DEF MapSeq
  <2> HIDE DEF t
  <2>2. IsList(t)  BY <1>1, <2>1, MappedIsList
  <2> QED  BY <2>2 DEF t
<1>3. DOMAIN h = DOMAIN a /\ IsList(h.filters) /\ IsList(h.literals)
  <2> DEFINE mapped == MapSeq(a.literals, LAMBDA l : literals[l.id])
  <2>1. h.literals = IF a.full THEN a.literals ELSE mapped  BY <1>1 DEF Hydrate
  <2>2. DOMAIN h = DOMAIN a /\ h.filters = a.filters  BY <1>1 DEF Hydrate
  <2> HIDE DEF h, mapped
  <2>3. IsList(mapped)  BY <1>2 DEF mapped
  <2> QED  BY <1>1, <2>1, <2>2, <2>3
<1>4. u.filters = h.filters /\ u.literals = h.literals  BY <1>1, <1>3 DEF ToBinderPayload
<1> HIDE DEF h, u
<1>5. EnrichProjection(u).filters = u.filters /\ EnrichProjection(u).literals = u.literals  BY DEF EnrichProjection
<1> QED  BY <1>3, <1>4, <1>5 DEF u, h

-----------------------------------------------------------------------------
(* What the builder makes of a plan: each of its conditions is one of the     *)
(* DSL's.                                                                     *)
Same(g, f) == g.owner = f.owner /\ g.name = f.property /\ g.operator = f.operator /\ g.value = f.literal

Kept(p, d) == \A f \in ToSet(p.filters) : \E g \in FiltersCompiled(BuildAst(d)) : Same(g, f)

LEMMA DslParts ==
    ASSUME NEW p, NEW vertexRoles, NEW edgeRoles, NEW operations, NEW filters, NEW projection
    PROVE  LET d == Dsl(p, vertexRoles, edgeRoles, operations, filters, projection)
           IN  /\ d.shape = p.shape /\ d.vertexRoles = vertexRoles /\ d.operations = operations
               /\ d.filters = filters /\ d.projection = projection
BY DEF Dsl

LEMMA ItemsAreFilters ==
    ASSUME NEW filters, NEW roles
    PROVE  LET items == FilterItems(filters, roles)
           IN  /\ IsList(filters) => IsList(items)
               /\ \A f \in ToSet(filters) : \E g \in ToSet(items) : Same(g, f)
<1> DEFINE items == FilterItems(filters, roles)
           item(f) == FilterItem(f, roles)
<1>1. items = [i \in DOMAIN filters |-> item(filters[i])]  BY Zenon DEF FilterItems, MapSeq
<1>2. \A f : Same(item(f), f)  BY DEF FilterItem, Same
<1> HIDE DEF items, item
<1>3. ASSUME IsList(filters) PROVE IsList(items)
  <2>1. items = [i \in DOMAIN filters |-> [k \in DOMAIN filters |-> item(filters[k])][i]]  BY <1>1
  <2> QED  BY <1>3, <2>1, MappedIsList
<1>4. ASSUME NEW f \in ToSet(filters) PROVE \E g \in ToSet(items) : Same(g, f)
  <2>1. PICK i \in DOMAIN filters : f = filters[i]  BY DEF ToSet
  <2>2. items[i] \in ToSet(items) /\ Same(items[i], f)  BY <1>1, <1>2, <2>1 DEF ToSet
  <2> QED  BY <2>2
<1> QED  BY <1>3, <1>4 DEF items

\* The only operation of its kind, whatever order and limit there are.
LEMMA FirstIsSole ==
    ASSUME NEW p, NEW namespaces, NEW o, o.op \notin {"sort", "limit"},
           NEW d, d.operations = <<o>> \o SortLimit(p, namespaces)
    PROVE  /\ Has(d, o.op) /\ SingleOperation(d, o.op) = o
           /\ \A op : op \notin {o.op, "sort", "limit"} => ~Has(d, op)
<1>1. \A x \in ToSet(d.operations) : x = o \/ x.op \in {"sort", "limit"}  BY SortLimitOps
<1>2. o \in ToSet(d.operations)
  <2> DEFINE s == SortLimit(p, namespaces)
  <2>1. IsList(s)  BY SortLimitCloses
  <2> HIDE DEF s
  <2>2. ToSet(<<o>> \o s) = {o} \cup ToSet(s)  BY <2>1, OneIsList, JoinedIsList
  <2> QED  BY <2>2 DEF s
<1>3. Operations(d, o.op) = {o}  BY <1>1, <1>2 DEF Operations
<1> QED  BY <1>1, <1>3 DEF SingleOperation, Has, Operations

\* What a form that compiles the DSL's own filters keeps of a plan's.
LEMMA OwnFiltersKept ==
    ASSUME NEW p, NEW d, NEW roles, d.filters = FilterItems(p.filters, roles),
           Form(BuildAst(d)) \notin {"metric_aggregate", "variable_path_traversal", "two_step_aggregate",
                                     "named_path_pattern"}
    PROVE  Kept(p, d)
<1>1. FiltersCompiled(BuildAst(d)) = ToSet(BuildAst(d).filters)  BY DEF FiltersCompiled
<1>2. BuildAst(d).filters = d.filters  BY DEF BuildAst
<1> QED  BY <1>1, <1>2, ItemsAreFilters DEF Kept

LEMMA BuiltKeeps ==
    ASSUME NEW p, IsList(p.filters), p.shape \notin {"two_step_aggregate", "named_path_pattern"}
    PROVE  Kept(p, Build(p))
<1> DEFINE d == Build(p)
           ast == BuildAst(d)
<1> SUFFICES Kept(p, d)  OBVIOUS
<1>0. Form(ast) = Form(d) /\ \A op : SingleOperation(ast, op) = SingleOperation(d, op)  BY AstOfDsl
<1>1. CASE p.shape = "vertex_lookup"
  <2>1. d = BuildVertexLookup(p)  BY <1>1 DEF Build, ByMetric
  <2>2. \E roles, operations, items : d = Dsl(p, roles, NoRoles, operations, FilterItems(p.filters, LookupRoles(p)), items)
    BY <2>1, Zenon DEF BuildVertexLookup
  <2> HIDE DEF d
  <2>3. d.shape = "vertex_lookup" /\ d.filters = FilterItems(p.filters, LookupRoles(p))  BY <1>1, <2>2, DslParts
  <2>4. Form(ast) = "vertex_lookup"  BY <1>0, <2>3 DEF Form
  <2> HIDE DEF ast
  <2> QED  BY <2>3, <2>4, OwnFiltersKept DEF ast
<1>2. CASE p.shape = "single_hop_traversal"
  <2>1. d = BuildTraversal(p)  BY <1>2 DEF Build, ByMetric
  <2>2. \E roles, edges, operations, items :
          d = Dsl(p, roles, edges, operations, FilterItems(p.filters, TraversalRoles(p)), items)
    BY <2>1, Zenon DEF BuildTraversal
  <2> HIDE DEF d
  <2>3. d.shape = "single_hop_traversal" /\ d.filters = FilterItems(p.filters, TraversalRoles(p))
    BY <1>2, <2>2, DslParts
  <2>4. Form(ast) = "single_hop_traversal"  BY <1>0, <2>3 DEF Form
  <2> HIDE DEF ast
  <2> QED  BY <2>3, <2>4, OwnFiltersKept DEF ast
<1>3. CASE p.shape = "variable_path_traversal"
  <2> DEFINE ofThrough == {i \in DOMAIN p.filters : p.filters[i].owner = p.vertices[2]}
             own == ItemsAt(p.filters, ofThrough)
             others == ItemsAt(p.filters, DOMAIN p.filters \ ofThrough)
             roles == VariablePathRoles(p)
             o == [op |-> "variable_path", bind_as |-> "path", start |-> "start", through |-> "through",
                   filters |-> FilterItems(own, roles), edges |-> <<p.edges[1].name>>, min |-> 1, max |-> 8]
  <2>1. d = BuildVariablePath(p)  BY <1>3 DEF Build, ByMetric
  <2>2. \E vertexRoles, items : d = Dsl(p, vertexRoles, NoRoles, <<o>>, FilterItems(others, roles), items)
    BY <2>1, Zenon DEF BuildVariablePath
  <2>3. o.op = "variable_path" /\ o.filters = FilterItems(own, roles)  OBVIOUS
  <2>4. \A f \in ToSet(p.filters) : f \in ToSet(own) \/ f \in ToSet(others)
    <3>1. ofThrough \subseteq DOMAIN p.filters /\ DOMAIN p.filters \ ofThrough \subseteq DOMAIN p.filters  OBVIOUS
    <3>2. \A f \in ToSet(p.filters) : \E i \in DOMAIN p.filters : f = p.filters[i]  BY DEF ToSet
    <3> HIDE DEF ofThrough
    <3>3. \A i \in ofThrough : p.filters[i] \in ToSet(own)  BY <3>1, ItemsAtPlaces
    <3>4. \A i \in DOMAIN p.filters \ ofThrough : p.filters[i] \in ToSet(others)  BY <3>1, ItemsAtPlaces
    <3> QED  BY <3>2, <3>3, <3>4
  <2> HIDE DEF d, o, own, others, roles
  <2>5. d.shape = p.shape /\ d.operations = <<o>> /\ d.filters = FilterItems(others, roles)  BY <2>2, DslParts
  <2>6. SingleOperation(d, "variable_path") = o
    <3>1. Operations(d, "variable_path") = {o}  BY <2>3, <2>5, OneIsList DEF Operations
    <3> QED  BY <3>1 DEF SingleOperation
  <2>7. Form(ast) = "variable_path_traversal"  BY <1>0, <1>3, <2>5 DEF Form
  <2>8. ast.filters = d.filters  BY DEF BuildAst
  <2> HIDE DEF ast
  <2>9. FiltersCompiled(ast) = ToSet(o.filters) \cup ToSet(d.filters)  BY <1>0, <2>6, <2>7, <2>8 DEF FiltersCompiled
  <2>10. \A f \in ToSet(p.filters) : \E g \in FiltersCompiled(ast) : Same(g, f)
    BY <2>3, <2>4, <2>5, <2>9, ItemsAreFilters
  <2> QED  BY <2>10 DEF Kept, ast
<1>4. CASE p.shape \notin {"vertex_lookup", "single_hop_traversal", "variable_path_traversal"} /\ ByMetric(p)
  <2> DEFINE o == [op |-> "metric_aggregate", metric |-> p.metrics[1], group_by |-> p.group_by,
                   filters |-> FilterItems(p.filters, MetricRoles(p.metrics[1]))]
  <2>1. d = BuildMetricAggregate(p)  BY <1>4 DEF Build
  <2>2. \E items : d = Dsl(p, NoRoles, NoRoles, <<o>> \o SortLimit(p, NoRoles), <<>>, items)
    BY <2>1, Zenon DEF BuildMetricAggregate
  <2>3. o.op = "metric_aggregate" /\ o.filters = FilterItems(p.filters, MetricRoles(p.metrics[1]))  OBVIOUS
  <2> HIDE DEF d, o
  <2>4. d.shape = p.shape /\ d.operations = <<o>> \o SortLimit(p, NoRoles)  BY <2>2 DEF Dsl
  <2>5. /\ SingleOperation(d, "metric_aggregate") = o /\ Has(d, "metric_aggregate")
        /\ ~Has(d, "traverse_edge")
    <3>1. \A op : op \notin {o.op, "sort", "limit"} => ~Has(d, op)  BY <2>3, <2>4, FirstIsSole
    <3>2. Has(d, o.op)  BY <2>3, <2>4, FirstIsSole
    <3>3. SingleOperation(d, o.op) = o  BY <2>3, <2>4, FirstIsSole
    <3> QED  BY <2>3, <3>1, <3>2, <3>3
  <2>6. Form(ast) = "metric_aggregate"  BY <1>0, <1>4, <2>4, <2>5 DEF Form, ByMetric
  <2> HIDE DEF ast
  <2>7. FiltersCompiled(ast) = ToSet(o.filters)  BY <1>0, <2>5, <2>6 DEF FiltersCompiled
  <2>8. \A f \in ToSet(p.filters) : \E g \in FiltersCompiled(ast) : Same(g, f)  BY <2>3, <2>7, ItemsAreFilters
  <2> QED  BY <2>8 DEF Kept, ast
<1>5. CASE p.shape \notin {"vertex_lookup", "single_hop_traversal", "variable_path_traversal"} /\ ~ByMetric(p)
  <2> DEFINE o == [op |-> "aggregate", group_by |-> p.group_by, measures |-> p.measures]
             roles == AggregateRoleByOwner(p)
  <2>1. d = BuildAdHocAggregate(p)  BY <1>5 DEF Build
  <2>2. d = Dsl(p, AggregateVertexRoles(p), NoRoles, <<o>> \o SortLimit(p, NoRoles),
                FilterItems(p.filters, roles), AggregateProjection(p, NoRoles))
    BY <2>1, Zenon DEF BuildAdHocAggregate
  <2>3. o.op = "aggregate"  OBVIOUS
  <2> HIDE DEF d, o, roles
  <2>4. d.shape = p.shape /\ d.operations = <<o>> \o SortLimit(p, NoRoles) /\ d.filters = FilterItems(p.filters, roles)
    BY <2>2 DEF Dsl
  <2>5. ~Has(d, "metric_aggregate") /\ ~Has(d, "traverse_edge")  BY <2>3, <2>4, FirstIsSole
  <2>6. Form(ast) \in {"ad_hoc_aggregate", p.shape} \ {"metric_aggregate"}
    BY <1>0, <1>5, <2>4, <2>5 DEF Form, ByMetric
  <2>7. Form(ast) \notin {"metric_aggregate", "variable_path_traversal", "two_step_aggregate", "named_path_pattern"}
    BY <1>5, <2>6
  <2> HIDE DEF ast
  <2> QED  BY <2>4, <2>7, OwnFiltersKept DEF ast
<1> QED  BY <1>1, <1>2, <1>3, <1>4, <1>5

(* It is what the compiler can give each role a node of. *)
LEMMA BuiltIsWorded ==
    ASSUME NEW p, IsList(p.filters), Listed(p), Buildable(p)
    PROVE  Worded(Build(p))
<1> DEFINE d == Build(p)
<1> SUFFICES Worded(d)  OBVIOUS
<1>1. CASE p.shape = "vertex_lookup"
  <2> DEFINE roles == [r \in {"target"} |-> p.vertices[1]]
  <2>1. d = BuildVertexLookup(p)  BY <1>1 DEF Build, ByMetric
  <2>2. \E operations, filters, items : d = Dsl(p, roles, NoRoles, operations, filters, items)
    BY <2>1, Zenon DEF BuildVertexLookup
  <2>3. DOMAIN roles = {"target"} /\ "target" # None  BY RoleAssumption
  <2> HIDE DEF d, roles
  <2>4. d.shape = p.shape /\ d.vertexRoles = roles  BY <2>2, DslParts
  <2> QED  BY <1>1, <2>3, <2>4 DEF Worded
<1>2. CASE p.shape \in {"single_hop_traversal", "two_step_aggregate"}
  <2>1. d.shape = p.shape
    <3>1. d \in {BuildTraversal(p), BuildTwoStepAggregate(p)}  BY <1>2 DEF Build, ByMetric
    <3>2. /\ \E a, b, c, e, f : BuildTraversal(p) = Dsl(p, a, b, c, e, f)
          /\ \E a, b, c, e, f : BuildTwoStepAggregate(p) = Dsl(p, a, b, c, e, f)
      BY Zenon DEF BuildTraversal, BuildTwoStepAggregate
    <3> HIDE DEF d
    <3> QED  BY <3>1, <3>2, DslParts
  <2> HIDE DEF d
  <2> QED  BY <1>2, <2>1 DEF Worded
<1>3. CASE p.shape = "variable_path_traversal"
  <2> DEFINE ofThrough == {i \in DOMAIN p.filters : p.filters[i].owner = p.vertices[2]}
             own == ItemsAt(p.filters, ofThrough)
             others == ItemsAt(p.filters, DOMAIN p.filters \ ofThrough)
             roles == VariablePathRoles(p)
             o == [op |-> "variable_path", bind_as |-> "path", start |-> "start", through |-> "through",
                   filters |-> FilterItems(own, roles), edges |-> <<p.edges[1].name>>, min |-> 1, max |-> 8]
  <2>1. d = BuildVariablePath(p)  BY <1>3 DEF Build, ByMetric
  <2>2. \E vertexRoles, items : d = Dsl(p, vertexRoles, NoRoles, <<o>>, FilterItems(others, roles), items)
    BY <2>1, Zenon DEF BuildVariablePath
  <2>3. o.filters = FilterItems(own, roles)  OBVIOUS
  <2>4. IsList(own) /\ IsList(others)
    <3>1. ofThrough \subseteq DOMAIN p.filters /\ DOMAIN p.filters \ ofThrough \subseteq DOMAIN p.filters  OBVIOUS
    <3> HIDE DEF ofThrough
    <3> QED  BY <3>1, ItemsAtPlaces
  <2> HIDE DEF d, o, own, others, roles
  <2>5. d.shape = p.shape /\ d.operations = <<o>> /\ d.filters = FilterItems(others, roles)  BY <2>2, DslParts
  <2>6. \A x \in ToSet(d.operations) : x = o  BY <2>5, OneIsList
  <2>7. IsList(d.filters) /\ IsList(o.filters)  BY <2>3, <2>4, <2>5, ItemsAreFilters
  <2> QED  BY <1>3, <2>5, <2>6, <2>7 DEF Worded
<1>4. CASE p.shape = "named_path_pattern"
  <2> DEFINE items == ProjectionItems(p.projection, NoRoles)
             item(x) == ProjectionItem(x, NoRoles)
  <2>1. d = BuildNamedPathPattern(p)  BY <1>4 DEF Build, ByMetric
  <2>2. \E roles, operations, filters : d = Dsl(p, roles, NoRoles, operations, filters, items)
    BY <2>1, Zenon DEF BuildNamedPathPattern
  <2>3. items = [i \in DOMAIN p.projection |-> item(p.projection[i])]  BY Zenon DEF ProjectionItems, MapSeq
  <2>4. \A x \in ToSet(p.projection) : x.kind = "source"
    <3>1. AllProjectable(p.projection, NoRoles)  BY <1>4 DEF Buildable, NamedPathBuildable
    <3>2. \A x : ProjectionTarget(x, NoRoles) = None
      <4>1. DOMAIN NoRoles = {}  BY DEF NoRoles
      <4>2. \A x : {NoRoles[y] : y \in DOMAIN NoRoles} = {}  BY <4>1
      <4> QED  BY <4>1, <4>2 DEF ProjectionTarget, RoleOf
    <3> QED  BY <3>1, <3>2 DEF AllProjectable, Projectable
  <2>5. \A x : x.kind = "source" => item(x).kind = "source"  BY DEF ProjectionItem
  <2> HIDE DEF d, items, item
  <2>6. d.shape = p.shape /\ d.projection = items  BY <2>2, DslParts
  <2>7. \A i \in DOMAIN items : items[i].kind = "source"  BY <2>3, <2>4, <2>5 DEF ToSet
  <2>8. items = [i \in DOMAIN items |-> items[i]]  BY <2>3
  <2> QED  BY <1>4, <2>6, <2>7, <2>8 DEF Worded
<1>5. CASE p.shape \notin {"vertex_lookup", "single_hop_traversal", "two_step_aggregate", "variable_path_traversal",
                           "named_path_pattern"}
  <2>1. CASE ByMetric(p)
    <3> DEFINE o == [op |-> "metric_aggregate", metric |-> p.metrics[1], group_by |-> p.group_by,
                     filters |-> FilterItems(p.filters, MetricRoles(p.metrics[1]))]
    <3>1. d = BuildMetricAggregate(p)  BY <1>5, <2>1 DEF Build
    <3>2. \E items : d = Dsl(p, NoRoles, NoRoles, <<o>> \o SortLimit(p, NoRoles), <<>>, items)
      BY <3>1, Zenon DEF BuildMetricAggregate
    <3>3. o.op = "metric_aggregate"  OBVIOUS
    <3> HIDE DEF d, o
    <3>4. d.shape = p.shape /\ d.operations = <<o>> \o SortLimit(p, NoRoles) /\ d.filters = <<>>  BY <3>2 DEF Dsl
    <3>5. \A x \in ToSet(d.operations) : x.op # "aggregate"  BY <3>3, <3>4, SortLimitOps
    <3> QED  BY <1>5, <3>4, <3>5, EmptyIsList DEF Worded
  <2>2. CASE ~ByMetric(p)
    <3> DEFINE o == [op |-> "aggregate", group_by |-> p.group_by, measures |-> p.measures]
               filters == FilterItems(p.filters, AggregateRoleByOwner(p))
    <3>1. d = BuildAdHocAggregate(p)  BY <1>5, <2>2 DEF Build
    <3>2. d = Dsl(p, AggregateVertexRoles(p), NoRoles, <<o>> \o SortLimit(p, NoRoles), filters,
                  AggregateProjection(p, NoRoles))
      BY <3>1, Zenon DEF BuildAdHocAggregate
    <3>3. o.op = "aggregate" /\ Listed(o)  BY DEF Listed
    <3>4. IsList(filters)  BY ItemsAreFilters
    <3> HIDE DEF d, o, filters
    <3>5. d.shape = p.shape /\ d.operations = <<o>> \o SortLimit(p, NoRoles) /\ d.filters = filters
      BY <3>2 DEF Dsl
    <3>6. \A x \in ToSet(d.operations) : x.op = "aggregate" => Listed(x)  BY <3>3, <3>5, SortLimitOps
    <3> QED  BY <1>5, <3>4, <3>5, <3>6 DEF Worded
  <2> QED  BY <2>1, <2>2
<1> QED  BY <1>1, <1>2, <1>3, <1>4, <1>5

\* What is assembled can be given them too.
LEMMA ZeroHopIsWorded ==
    ASSUME NEW shape \in {"vertex_lookup", "ad_hoc_aggregate"},
           NEW vertex, NEW operations, NEW filters, NEW projection
    PROVE  Worded(ZeroHopDsl(shape, vertex, operations, filters, projection))
<1> DEFINE d == ZeroHopDsl(shape, vertex, operations, filters, projection)
<1>1. d.shape = shape /\ d.vertexRoles = [r \in {"target"} |-> vertex]  BY DEF ZeroHopDsl
<1>2. DOMAIN d.vertexRoles = {"target"} /\ "target" # None  BY <1>1, RoleAssumption
<1> HIDE DEF d
<1>3. Worded(d)  BY <1>1, <1>2 DEF Worded
<1> QED  BY <1>3 DEF d

LEMMA TopIsWorded ==
    ASSUME NEW w, NEW req, NEW p, NEW n \in Nat, DOMAIN p.edges = 1..n, NEW properties,
           AssembleF6(w, req, p, properties) # None
    PROVE  Worded(AssembleF6(w, req, p, properties))
<1> DEFINE d == AssembleF6(w, req, p, properties)
           a == TopAggregate(w, p, properties)
           sort == TopSort(w, req, properties)
           limit == TopLimit(req)
           group == TopGroupItem(w, properties)
           measure == MeasureItem(w.measures[1], TopMeasureAlias(w, properties))
<1>1. d = PathDsl("top_n", p, <<a, sort, limit>>, <<>>, <<group, measure>>)  BY TopIsPath
<1>2. sort.op = "sort" /\ limit.op = "limit"  BY DEF TopSort, TopLimit
<1>3. Listed(a)
  <2>1. \E x, y : a.group_by = <<x>> /\ a.measures = <<y>>  BY Zenon DEF TopAggregate
  <2> HIDE DEF a
  <2> QED  BY <2>1, OneIsList DEF Listed
<1> HIDE DEF d, a, sort, limit, group, measure
<1>4. \A o \in ToSet(d.operations) : o \in {a, sort, limit} \/ o.op = "traverse_edge"
  BY <1>1, ThreeAreList, PathOperations
<1>5. d.shape = "top_n" /\ d.filters = <<>>  BY <1>1 DEF PathDsl
<1>6. \A o \in ToSet(d.operations) : o.op = "aggregate" => Listed(o)  BY <1>2, <1>3, <1>4
<1>7. Worded(d)  BY <1>5, <1>6, EmptyIsList DEF Worded
<1> QED  BY <1>7 DEF d

LEMMA AssembledIsWorded ==
    ASSUME NEW w, NEW req, NEW candidates, NamesOf(candidates, "vertex") \subseteq Vertices,
           Assemble(w, req, candidates) # None
    PROVE  Worded(Assemble(w, req, candidates))
<1> DEFINE family == Family(w, req)
           request == RequestFor(w, req, family, SelectedVertices(w, req, candidates, family))
           vertex == OnlyMember(ZeroHopVertices(w, req, candidates))
           d == Assemble(w, req, candidates)
<1>1. \/ d = AssembleZeroHop(request, req, candidates, family, vertex)
      \/ d = AssembleMultihop(request, req, candidates, family)
  BY DEF Assemble, AssembleFamily, AssembleRequest
<1> HIDE DEF request, vertex, family
<1>2. CASE d = AssembleZeroHop(request, req, candidates, family, vertex)
  <2>1. \E shape \in {"vertex_lookup", "ad_hoc_aggregate"} : \E v, operations, filters, projection :
          d = ZeroHopDsl(shape, v, operations, filters, projection)
    <3>1. \E properties : d \in {AssembleF1(request, req, vertex, properties), AssembleF2(request, req, vertex, properties),
                                 AssembleF3(request, vertex, properties)}
      BY <1>2 DEF AssembleZeroHop
    <3>2. PICK properties :
            d \in {AssembleF1(request, req, vertex, properties), AssembleF2(request, req, vertex, properties),
                   AssembleF3(request, vertex, properties)}
      BY <3>1
    <3>3. d # None  OBVIOUS
    <3> HIDE DEF d
    <3>4. d = AssembleF1(request, req, vertex, properties) =>
            \E v, operations, filters, projection : d = ZeroHopDsl("vertex_lookup", v, operations, filters, projection)
      BY <3>3, Zenon DEF AssembleF1
    <3>5. d = AssembleF2(request, req, vertex, properties) =>
            \E v, operations, filters, projection : d = ZeroHopDsl("vertex_lookup", v, operations, filters, projection)
      BY <3>3, Zenon DEF AssembleF2
    <3>6. d = AssembleF3(request, vertex, properties) =>
            \E v, operations, filters, projection : d = ZeroHopDsl("ad_hoc_aggregate", v, operations, filters, projection)
      BY <3>3, Zenon DEF AssembleF3
    <3> QED  BY <3>2, <3>4, <3>5, <3>6
  <2> QED  BY <2>1, ZeroHopIsWorded
<1>3. CASE d = AssembleMultihop(request, req, candidates, family)
  <2> DEFINE p == PathPlan(request, candidates)
             properties == MultihopProperties(candidates)
             n == Len(p.vertices) - 1
  <2>1. /\ p # None
        /\ d \in {AssembleF4(request, p, properties), AssembleF5(request, p, properties),
                  AssembleF6(request, req, p, properties)}
        /\ d # None
    BY <1>3 DEF AssembleMultihop
  <2>2. n \in Nat /\ DOMAIN p.edges = 1..n
    <3>1. IsList(p.vertices) /\ Len(p.vertices) >= 2 /\ DOMAIN p.edges = 1..Len(p.vertices) - 1
      BY <2>1, PlanIsPath
    <3>2. Len(p.vertices) \in Nat  BY <3>1 DEF IsList
    <3> QED  BY <3>1, <3>2
  <2> HIDE DEF p, d, n, properties
  <2>3. \A filters, items : Worded(PathDsl("single_hop_traversal", p, <<>>, filters, items))
    <3> TAKE filters, items
    <3> DEFINE x == PathDsl("single_hop_traversal", p, <<>>, filters, items)
    <3>1. x.shape = "single_hop_traversal"  BY DEF PathDsl
    <3> HIDE DEF x
    <3>2. Worded(x)  BY <3>1 DEF Worded
    <3> QED  BY <3>2 DEF x
  <2>4. AssembleF6(request, req, p, properties) # None => Worded(AssembleF6(request, req, p, properties))
    BY <2>2, TopIsWorded
  <2>5. AssembleF4(request, p, properties) # None => Worded(AssembleF4(request, p, properties))
    BY <2>3, Zenon DEF AssembleF4
  <2>6. AssembleF5(request, p, properties) # None => Worded(AssembleF5(request, p, properties))
    BY <2>3, Zenon DEF AssembleF5
  <2>7. Worded(d)  BY <2>1, <2>4, <2>5, <2>6
  <2> QED  BY <2>7 DEF d
<1> QED  BY <1>1, <1>2, <1>3

-----------------------------------------------------------------------------
(* The runs: what was bound is what the query says.                            *)

\* The conditions of a plan the DSL was built of, but for the shapes that lose some.
PlanKept == (plan # None /\ plan.shape \notin {"two_step_aggregate", "named_path_pattern"}) =>
              OwnConditions(plan.filters) /\ Kept(plan, dsl)

ColumnsRead ==
    /\ dsl.shape # "named_path_pattern" => DOMAIN query.returns = DOMAIN dsl.projection
    /\ \A i \in DOMAIN dsl.projection : dsl.projection[i].kind = "property" => Reads(query, i, dsl.projection[i])

\* No plan is made where the LLM is not asked, and each stage hands on what was bound.
BoundInv ==
    /\ step \in BeforeDecomposition \cup BeforeDsl \cup {"semantic_binder"} => plan = None
    /\ step = "semantic_binder" => IsList(understanding.filters) /\ IsList(understanding.literals)
    /\ step \in {"semantic_validator", "dsl_builder"} => OwnConditions(plan.filters)
    /\ step \in BeforeQuery => Worded(dsl) /\ PlanKept
    /\ step = "cypher_self_validation" => Worded(dsl) /\ ConditionsCompiled /\ ConditionsBound /\ ColumnsRead
    /\ QuerySaysWhatIsBound

LEMMA BoundStops ==
    ASSUME step' = "done", answer'.status # "generated"
    PROVE  BoundInv'
BY DEF BoundInv, BeforeDecomposition, BeforeDsl, BeforeQuery, QuerySaysWhatIsBound, Generated

LEMMA BoundPasses ==
    ASSUME GapsInv, BoundInv, step # "done", answer' = answer, plan' = plan,
           step' \in {"semantic_binder"} \cup BeforeDecomposition \cup BeforeDsl => plan = None,
           step' \notin Steps
    PROVE  BoundInv'
BY DEF BoundInv, Steps, BeforeDecomposition, BeforeDsl, BeforeQuery, GapsInv, QuerySaysWhatIsBound, Generated

LEMMA SameBound ==
    ASSUME UNCHANGED <<plan, dsl>>
    PROVE  /\ Worded(dsl)' <=> Worded(dsl)
           /\ PlanKept' <=> PlanKept
BY DEF Worded, Listed, IsList, PlanKept, OwnConditions, Kept

LEMMA SameSaid ==
    ASSUME UNCHANGED <<plan, dsl, query>>
    PROVE  /\ ConditionsCompiled' <=> ConditionsCompiled
           /\ ConditionsBound' <=> ConditionsBound
           /\ ColumnsRead' <=> ColumnsRead
BY DEF ConditionsCompiled, Conditioned, ConditionsBound, InQuery, ColumnsRead, Reads

(* The query of a DSL the parser has let through says what was bound. *)
LEMMA CompiledSaysBound ==
    ASSUME ParserErrors(dsl) = {}, Shaped(dsl), Wired(dsl), Worded(dsl), PlanKept, Compiles(BuildAst(dsl)),
           UNCHANGED <<plan, dsl>>, query' = Compile(BuildAst(dsl))
    PROVE  (ConditionsCompiled /\ ConditionsBound /\ ColumnsRead)'
<1> DEFINE ast == BuildAst(dsl)
           q == Compile(ast)
           SaysOf(f) == \E c \in ToSet(q.where) : /\ LabelOf(q, c.variable) = f.literal.owner
                                                  /\ c.name = f.literal.property /\ c.operator = f.operator
                                                  /\ c.value = EffectiveValue(f.literal)
<1>1. /\ \A f \in FiltersCompiled(ast) : Said(q, f)
      /\ dsl.shape # "named_path_pattern" => DOMAIN q.returns = DOMAIN dsl.projection
      /\ \A i \in DOMAIN dsl.projection : dsl.projection[i].kind = "property" => Reads(q, i, dsl.projection[i])
  BY CompiledSays
<1>2. query' = q /\ dsl' = dsl /\ plan' = plan  OBVIOUS
<1> HIDE DEF q, ast
<1>3. ASSUME plan # None, plan.shape \notin {"two_step_aggregate", "named_path_pattern"}, NEW f \in ToSet(plan.filters)
      PROVE  SaysOf(f)
  <2>1. PICK g \in FiltersCompiled(ast) : Same(g, f)  BY <1>3 DEF PlanKept, Kept, ast
  <2>2. /\ f.operator \in Operators /\ f.literal.owner = f.owner /\ f.literal.property = f.property
    BY <1>3 DEF PlanKept, OwnConditions
  <2>3. g.operator # "is_not_null"  BY <2>1, <2>2 DEF Same, Operators
  <2>4. ValueCompiled(g) = EffectiveValue(f.literal)  BY <2>1, <2>3 DEF ValueCompiled, Same
  <2>5. Said(q, g)  BY <1>1
  <2> QED  BY <2>1, <2>2, <2>4, <2>5 DEF Said, Same
<1>4. ConditionsCompiled'
  <2>1. FiltersCompiled(BuildAst(dsl'))  = FiltersCompiled(ast)  BY <1>2 DEF ast
  <2> QED  BY <1>1, <1>2, <2>1 DEF ConditionsCompiled, Conditioned, Said
<1>5. ConditionsBound'  BY <1>2, <1>3 DEF ConditionsBound, InQuery, Conditioned
<1>6. ColumnsRead'  BY <1>1, <1>2 DEF ColumnsRead, Reads
<1> QED  BY <1>4, <1>5, <1>6

(* And the validator lets no other columns through. *)
LEMMA ValidatedInOrder ==
    ASSUME Worded(dsl), ColumnsRead, SelfValidationErrors(query, ProjectionAliases(BuildAst(dsl))) = {}
    PROVE  ColumnsInOrder
<1>1. CASE dsl.shape # "named_path_pattern"  BY <1>1 DEF ColumnsRead, ColumnsInOrder, Reads
<1>2. CASE dsl.shape = "named_path_pattern"
  <2>1. /\ dsl.projection = [i \in DOMAIN dsl.projection |-> dsl.projection[i]]
        /\ \A i \in DOMAIN dsl.projection : dsl.projection[i].kind = "source"
    BY <1>2 DEF Worded
  <2>2. DOMAIN query.returns = DOMAIN dsl.projection \/ dsl.projection = <<>>  BY <2>1, ValidatedColumns
  <2> QED  BY <1>2, <2>1, <2>2 DEF ColumnsInOrder
<1> QED  BY <1>1, <1>2

LEMMA SameColumns ==
    ASSUME UNCHANGED <<dsl, query>>
    PROVE  ColumnsInOrder' <=> ColumnsInOrder
BY DEF ColumnsInOrder

LEMMA BoundStep ==
    ASSUME GapsInv, AssembledInv, ReachInv, BoundInv, [Next]_vars
    PROVE  BoundInv'
<1> USE DEF Steps, BeforeQuery
<1>1. CASE Prepare
  <2>1. /\ step # "done" /\ answer' = answer /\ plan' = plan
        /\ step \in BeforeDecomposition \cup BeforeDsl
        /\ step' \in {"graph_model_loader", "input_clarification_gate", "question_decomposer", "candidate_reranker",
                      "literal_resolver"}
    BY <1>1 DEF Prepare, work, P!BuildClient, P!RunStage, P!Continue, P!After, BeforeDecomposition, BeforeDsl
  <2>2. plan = None  BY <2>1 DEF BoundInv
  <2> QED  BY <2>1, <2>2, BoundPasses
<1>2. CASE Decompose
  <2>1. step # "done" /\ answer' = answer /\ plan' = plan /\ step = "question_decomposer" /\ step' = "candidate_retrieval"
    BY <1>2 DEF Decompose, work, P!Continue
  <2>2. plan = None  BY <2>1 DEF BoundInv, BeforeDecomposition
  <2> QED  BY <2>1, <2>2, BoundPasses
<1>3. CASE ResolveLiterals
  <2>1. \/ P!Clarification(P!Passed)
        \/ /\ step # "done" /\ answer' = answer /\ plan' = plan /\ step = "literal_resolver"
           /\ step' \in {"repair_controller", "deterministic_assembler"}
    BY <1>3 DEF ResolveLiterals, work, P!Continue
  <2>2. step = "literal_resolver" => plan = None  BY DEF BoundInv, BeforeDsl
  <2> QED  BY <2>1, <2>2, NotGenerated, BoundStops, BoundPasses
<1>4. CASE AssembleDsl
  <2>1. /\ step # "done" /\ answer' = answer /\ step = "deterministic_assembler" /\ plan' = plan
        /\ dsl' = Assemble(question, Required, question.candidates)
        /\ step' = IF dsl' = None THEN "grounded_understanding" ELSE "dsl_parser"
    BY <1>4 DEF AssembleDsl, Go, P!Continue
  <2>2. plan = None  BY <2>1 DEF BoundInv, BeforeDsl
  <2>3. CASE dsl' = None  BY <2>1, <2>2, <2>3, BoundPasses
  <2>4. CASE dsl' # None
    <3>1. NamesOf(question.candidates, "vertex") \subseteq Vertices  BY QuestionsAssumption DEF GapsInv, KnownCandidates
    <3>2. Worded(dsl')  BY <2>1, <2>4, <3>1, AssembledIsWorded
    <3>3. Worded(dsl)'  BY <3>2 DEF Worded, Listed, IsList
    <3>4. PlanKept'  BY <2>1, <2>2 DEF PlanKept
    <3>5. step' = "dsl_parser" /\ ~Generated'  BY <2>1, <2>4 DEF GapsInv, Generated
    <3> QED  BY <3>3, <3>4, <3>5 DEF BoundInv, QuerySaysWhatIsBound, BeforeDecomposition, BeforeDsl
  <2> QED  BY <2>3, <2>4
<1>5. CASE Understand
  <2>1. PICK a \in Understandings :
          \/ P!Failure(P!Passed, "semantic_match_rejected")
          \/ P!Failure(P!Passed, "grounded_understanding_schema_invalid")
          \/ /\ step # "done" /\ P!Continue("semantic_binder")
             /\ understanding' = EnrichProjection(ToBinderPayload(Hydrate(a, question.literals)))
    BY <1>5 DEF Understand
  <2>2. step = "grounded_understanding" /\ plan' = plan  BY <1>5 DEF Understand
  <2>3. CASE \/ P!Failure(P!Passed, "semantic_match_rejected")
             \/ P!Failure(P!Passed, "grounded_understanding_schema_invalid")
    BY <2>3, NotGenerated, BoundStops
  <2>4. CASE /\ step # "done" /\ P!Continue("semantic_binder")
             /\ understanding' = EnrichProjection(ToBinderPayload(Hydrate(a, question.literals)))
    <3>1. IsList(understanding'.filters) /\ IsList(understanding'.literals)  BY <2>4, EnrichedFilters
    <3>2. (IsList(understanding.filters) /\ IsList(understanding.literals))'  BY <3>1 DEF IsList
    <3>3. step' = "semantic_binder" /\ ~Generated'  BY <2>4 DEF P!Continue, GapsInv, Generated
    <3>4. plan' = None  BY <2>2 DEF BoundInv, BeforeDsl
    <3> QED  BY <3>2, <3>3, <3>4 DEF BoundInv, QuerySaysWhatIsBound
  <2> QED  BY <2>1, <2>3, <2>4
<1>6. CASE BindUnderstanding
  <2>1. step = "semantic_binder"  BY <1>6 DEF BindUnderstanding
  <2>2. \/ P!Unexpected(P!Broken)
        \/ P!Failure(P!Broken, "semantic_match_rejected")
        \/ /\ Bindable(understanding, question.candidates) /\ P!Continue("semantic_validator")
           /\ plan' = Bind(understanding)
    BY <1>6 DEF BindUnderstanding, Go, Stop
  <2>3. CASE P!Unexpected(P!Broken) \/ P!Failure(P!Broken, "semantic_match_rejected")
    BY <2>3, NotGenerated, BoundStops
  <2>4. CASE /\ Bindable(understanding, question.candidates) /\ P!Continue("semantic_validator")
             /\ plan' = Bind(understanding)
    <3>1. OwnConditions(plan'.filters)  BY <2>1, <2>4, BoundConditions DEF BoundInv
    <3>2. OwnConditions(plan.filters)'  BY <3>1 DEF OwnConditions, IsList
    <3>3. step' = "semantic_validator" /\ ~Generated'  BY <2>1, <2>4 DEF P!Continue, GapsInv, Generated
    <3> QED  BY <3>2, <3>3 DEF BoundInv, QuerySaysWhatIsBound, BeforeDecomposition, BeforeDsl
  <2> QED  BY <2>2, <2>3, <2>4
<1>7. CASE ValidatePlan
  <2>1. step = "semantic_validator" /\ plan' = plan /\ step' \in {"dsl_builder", "repair_controller"} /\ answer' = answer
    BY <1>7 DEF ValidatePlan, work, P!Continue
  <2>2. OwnConditions(plan.filters)'  BY <2>1 DEF BoundInv, OwnConditions, IsList
  <2>3. ~Generated'  BY <2>1 DEF GapsInv, Generated
  <2> QED  BY <2>1, <2>2, <2>3 DEF BoundInv, QuerySaysWhatIsBound, BeforeDecomposition, BeforeDsl
<1>8. CASE DecideRepair
  <2>1. P!Clarification(P!Passed) \/ \E reason : P!Failure(P!Passed, reason)
    BY <1>8 DEF DecideRepair, P!DecideRepair
  <2> QED  BY <2>1, NotGenerated, BoundStops
<1>9. CASE BuildDsl
  <2>1. step = "dsl_builder"  BY <1>9 DEF BuildDsl, Go, Stop
  <2>2. \/ P!Failure(P!Broken, "compiler_shape_mismatch")
        \/ Buildable(plan) /\ P!Continue("dsl_parser") /\ plan' = plan /\ dsl' = Build(plan)
    BY <1>9 DEF BuildDsl, Go, Stop
  <2>3. CASE P!Failure(P!Broken, "compiler_shape_mismatch")  BY <2>3, NotGenerated, BoundStops
  <2>4. CASE Buildable(plan) /\ P!Continue("dsl_parser") /\ plan' = plan /\ dsl' = Build(plan)
    <3>1. OwnConditions(plan.filters) /\ IsList(plan.filters) /\ Listed(plan)
      BY <2>1 DEF BoundInv, OwnConditions, ReachInv
    <3>2. Worded(dsl')  BY <2>4, <3>1, BuiltIsWorded
    <3>3. Worded(dsl)'  BY <3>2 DEF Worded, Listed, IsList
    <3>4. plan.shape \notin {"two_step_aggregate", "named_path_pattern"} => Kept(plan, dsl')
      BY <2>4, <3>1, BuiltKeeps
    <3>5. PlanKept'  BY <2>4, <3>1, <3>4 DEF PlanKept, OwnConditions, IsList, Kept
    <3>6. step' = "dsl_parser" /\ ~Generated'  BY <2>1, <2>4 DEF P!Continue, GapsInv, Generated
    <3> QED  BY <3>3, <3>5, <3>6 DEF BoundInv, QuerySaysWhatIsBound, BeforeDecomposition, BeforeDsl
  <2> QED  BY <2>2, <2>3, <2>4
<1>10. CASE ParseDsl \/ CheckCoverage
  <2>1. step \in {"dsl_parser", "dsl_structural_coverage_gate"}
    BY <1>10 DEF ParseDsl, CheckCoverage, Go, Stop
  <2>2. \/ \E code : P!Failure(P!Broken, code)
        \/ /\ UNCHANGED <<plan, dsl>>
           /\ P!Continue("dsl_structural_coverage_gate") \/ P!Continue("cypher_compiler")
    BY <1>10 DEF ParseDsl, CheckCoverage, Go, Stop, work
  <2>3. CASE \E code : P!Failure(P!Broken, code)  BY <2>3, NotGenerated, BoundStops
  <2>4. CASE /\ UNCHANGED <<plan, dsl>>
             /\ P!Continue("dsl_structural_coverage_gate") \/ P!Continue("cypher_compiler")
    <3>1. (Worded(dsl) /\ PlanKept)'  BY <2>1, <2>4, SameBound DEF BoundInv
    <3>2. step' \in {"dsl_structural_coverage_gate", "cypher_compiler"} /\ ~Generated'
      BY <2>1, <2>4 DEF P!Continue, GapsInv, Generated
    <3> QED  BY <3>1, <3>2 DEF BoundInv, QuerySaysWhatIsBound, BeforeDecomposition, BeforeDsl
  <2> QED  BY <2>2, <2>3, <2>4
<1>11. CASE CompileQuery
  <2>1. step = "cypher_compiler"  BY <1>11 DEF CompileQuery, Go, Stop
  <2>2. \/ P!Failure(P!Broken, "compiler_shape_mismatch") \/ P!Unexpected(P!Broken)
        \/ /\ Compiles(BuildAst(dsl)) /\ P!Continue("cypher_self_validation") /\ UNCHANGED <<plan, dsl>>
           /\ query' = Compile(BuildAst(dsl))
    BY <1>11 DEF CompileQuery, Go, Stop
  <2>3. CASE P!Failure(P!Broken, "compiler_shape_mismatch") \/ P!Unexpected(P!Broken)
    BY <2>3, NotGenerated, BoundStops
  <2>4. CASE /\ Compiles(BuildAst(dsl)) /\ P!Continue("cypher_self_validation") /\ UNCHANGED <<plan, dsl>>
             /\ query' = Compile(BuildAst(dsl))
    <3>1. /\ ParserErrors(dsl) = {} /\ Shaped(dsl) /\ Wired(dsl) /\ Worded(dsl) /\ PlanKept
      BY <2>1 DEF GapsInv, HandedOn, ReachInv, BoundInv
    <3>2. (ConditionsCompiled /\ ConditionsBound /\ ColumnsRead)'  BY <2>4, <3>1, CompiledSaysBound
    <3>3. Worded(dsl)'  BY <2>4, <3>1, SameBound
    <3>4. step' = "cypher_self_validation" /\ ~Generated'  BY <2>1, <2>4 DEF P!Continue, GapsInv, Generated
    <3> QED  BY <3>2, <3>3, <3>4 DEF BoundInv, QuerySaysWhatIsBound, BeforeDecomposition, BeforeDsl
  <2> QED  BY <2>2, <2>3, <2>4
<1>12. CASE ValidateQuery
  <2>1. step = "cypher_self_validation" /\ UNCHANGED <<plan, dsl, query>>  BY <1>12 DEF ValidateQuery, Stop, work
  <2>2. \/ /\ SelfValidationErrors(query, ProjectionAliases(BuildAst(dsl))) = {}
           /\ P!Finish(P!Passed, "generated", NoReason)
        \/ \E code : P!Failure(P!Broken, code)
    BY <1>12 DEF ValidateQuery, Stop
  <2>3. CASE /\ SelfValidationErrors(query, ProjectionAliases(BuildAst(dsl))) = {}
             /\ P!Finish(P!Passed, "generated", NoReason)
    <3>1. Worded(dsl) /\ ConditionsCompiled /\ ConditionsBound /\ ColumnsRead  BY <2>1 DEF BoundInv
    <3>2. ColumnsInOrder  BY <2>3, <3>1, ValidatedInOrder
    <3>3. (ConditionsCompiled /\ ConditionsBound /\ ColumnsInOrder)'  BY <2>1, <3>1, <3>2, SameSaid, SameColumns
    <3>4. step' = "done"  BY <2>3 DEF P!Finish
    <3> QED  BY <3>3, <3>4 DEF BoundInv, QuerySaysWhatIsBound, BeforeDecomposition, BeforeDsl
  <2>4. CASE \E code : P!Failure(P!Broken, code)  BY <2>4, NotGenerated, BoundStops
  <2> QED  BY <2>2, <2>3, <2>4
<1>13. CASE Returned \/ UNCHANGED vars
  <2>1. UNCHANGED <<understanding, plan, dsl, query, step, answer>>  BY <1>13 DEF Returned, vars, work
  <2>2. (IsList(understanding.filters) /\ IsList(understanding.literals))' <=>
          (IsList(understanding.filters) /\ IsList(understanding.literals))
    BY <2>1 DEF IsList
  <2>3. OwnConditions(plan.filters)' <=> OwnConditions(plan.filters)  BY <2>1 DEF OwnConditions, IsList
  <2>4. (Worded(dsl)' <=> Worded(dsl)) /\ (PlanKept' <=> PlanKept)  BY <2>1, SameBound
  <2>5. /\ ConditionsCompiled' <=> ConditionsCompiled
        /\ ConditionsBound' <=> ConditionsBound
        /\ ColumnsRead' <=> ColumnsRead
        /\ ColumnsInOrder' <=> ColumnsInOrder
    BY <2>1, SameSaid, SameColumns
  <2>6. step' = step /\ plan' = plan /\ (Generated' <=> Generated)  BY <2>1 DEF Generated
  <2> QED  BY <2>2, <2>3, <2>4, <2>5, <2>6 DEF BoundInv, QuerySaysWhatIsBound, BeforeDecomposition, BeforeDsl
<1> QED  BY <1>1, <1>2, <1>3, <1>4, <1>5, <1>6, <1>7, <1>8, <1>9, <1>10, <1>11, <1>12, <1>13 DEF Next

(* Whatever is asked, understood or in the graph model: a generated query has *)
(* every condition of its DSL, and every one the LLM's answer was bound to,   *)
(* on a node with the label of its owner and with its value; and one column   *)
(* for each item asked, in order, which reads the item's own property.        *)
THEOREM BoundIsSaid == Spec => []QuerySaysWhatIsBound
<1>1. Init => GapsInv /\ AssembledInv /\ ReachInv /\ BoundInv
  <2> SUFFICES ASSUME Init PROVE GapsInv /\ AssembledInv /\ ReachInv /\ BoundInv  OBVIOUS
  <2>1. question \in Questions /\ step = "client" /\ answer = NoAnswer /\ calls = 0 /\ dsl = None /\ plan = None
    BY DEF Init, P!Init
  <2>2. GapsInv  BY <2>1, QuestionsAssumption DEF GapsInv, KnownCandidates, HandedOn, OnlyKnownGapsBreak
  <2>3. AssembledInv
    BY <2>1, QuestionsAssumption DEF AssembledInv, Assembled, BeforeDecomposition, BeforeDsl, AfterAnswer
  <2>4. ReachInv  BY <2>1 DEF ReachInv, BeforeQuery, RequirementsReachQuery, Generated
  <2>5. BoundInv  BY <2>1 DEF BoundInv, BeforeQuery, QuerySaysWhatIsBound, Generated
  <2> QED  BY <2>2, <2>3, <2>4, <2>5
<1>2. GapsInv /\ AssembledInv /\ ReachInv /\ BoundInv /\ [Next]_vars =>
        (GapsInv /\ AssembledInv /\ ReachInv /\ BoundInv)'
  BY GapsStep, AssembledStep, ReachStep, BoundStep
<1>3. BoundInv => QuerySaysWhatIsBound  BY DEF BoundInv
<1> QED  BY <1>1, <1>2, <1>3, PTL DEF Spec
=============================================================================
