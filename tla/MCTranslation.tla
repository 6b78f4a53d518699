--------------------------- MODULE MCTranslation ---------------------------
(* Instances of Translation for TLC: a part of the network's graph model, the *)
(* questions of each family, and what an LLM may make of those it is asked.   *)
EXTENDS Translation

S == "Service"  T == "Tunnel"  N == "NetworkElement"

MCVertices == {S, T, N}
MCEdges == {"SERVICE_USES_TUNNEL", "TUNNEL_SRC", "TUNNEL_DST"}
MCFrom == [e \in MCEdges |-> IF e = "SERVICE_USES_TUNNEL" THEN S ELSE T]
MCTo == [e \in MCEdges |-> IF e = "SERVICE_USES_TUNNEL" THEN T ELSE N]
MCProperties == (S :> {"id", "name"}) @@ (T :> {"id", "latency", "name"}) @@ (N :> {"id", "vendor"})
                @@ [e \in MCEdges |-> {}]
MCIdProperty == [v \in MCVertices |-> "id"]
MCNumeric == {<<T, "latency">>}
MCTextual == {<<v, p>> \in MCVertices \X {"id", "name", "vendor"} : p \in MCProperties[v]}
MCMetrics == {"device_count"}
MCMetricAliases == "device_count" :> ("ne" :> N)
MCAliasOrder == "device_count" :> <<"ne">>
MCValidDimensions == "device_count" :> {<<"ne", "vendor">>}
MCPathPatterns == {"tunnel_full_path"}
MCParameters == "tunnel_full_path" :> {"tunnel_id"}
MCPatternOutputs == "tunnel_full_path" :> <<"device", "hop">>
MCSnakeCase == (S :> "service") @@ (T :> "tunnel") @@ (N :> "network_element")
MCVariableBase == (S :> "s") @@ (T :> "t") @@ (N :> "ne")
MCAlphabetical == <<N, S, T>>

MCSays == ("name" :> {"field"}) @@ ("vendor" :> {"field"}) @@ ("latency" :> {"field"})
          @@ ("how many" :> {"quantity", "aggregate", "number"}) @@ ("total" :> {"aggregate", "number", "total"})
          @@ ("field" :> {"property_word"}) @@ ("present" :> {"present"}) @@ ("information" :> {"whole"})
          @@ ("info" :> {"whole", "vague"}) @@ ("ends" :> {"endpoint"}) @@ ("source" :> {"source"}) @@ ("target" :> {"target"})
          @@ ("most" :> {"desc"}) @@ ("used" :> {"relation"}) @@ ("start" :> {"relation"})
          @@ ("end" :> {"relation"}) @@ ("far start" :> {"relation"}) @@ ("device_count" :> {"count"})
MCNumberIn == "top 3" :> 3
MCSurface == ("name" :> {"name"}) @@ ("vendor" :> {"vendor"}) @@ ("vertex_full" :> {"information"})
MCNamedBy == ("services" :> {S}) @@ ("tunnels" :> {T}) @@ ("devices" :> {N})
MCMentioned == ("services" :> <<S>>) @@ ("tunnels" :> <<T>>) @@ ("devices" :> <<N>>) @@ ("devices of tunnels" :> <<N, T>>)
               @@ ("services and tunnels" :> <<S, T>>)
MCCompound == "tunnel info" :> <<"tunnels">>
MCSuits == (<<"name", S, "name">> :> 100) @@ (<<"name", T, "name">> :> 100) @@ (<<"vendor", N, "vendor">> :> 100)
           @@ (<<"latency", T, "latency">> :> 100) @@ (<<"source", N, "vendor">> :> 60) @@ (<<"source", S, "name">> :> 60)
           @@ (<<"target", T, "name">> :> 60)
MCMentions == ("services" :> {S}) @@ ("tunnels" :> {T}) @@ ("devices" :> {N}) @@ ("used" :> {}) @@ ("start" :> {})
              @@ ("end" :> {}) @@ ("far start" :> {})
MCWithin == {<<"start", "far start">>}
MCWordsIn(texts) == (ToSet(texts) \cap {"used", "start", "end", "far start"})
                    \cup (IF Contains(texts, "far start") THEN {"start"} ELSE {})
                    \cup (IF Contains(texts, "tunnels") THEN {"tunnel"} ELSE {})
MCEdgesOf == ("used" :> {"SERVICE_USES_TUNNEL"}) @@ ("start" :> {"TUNNEL_SRC"}) @@ ("far start" :> {"TUNNEL_DST"})
             @@ ("end" :> MCEdges) @@ ("tunnelend" :> {"TUNNEL_DST"})
MCNamesAt == ("services" :> {S}) @@ ("tunnels" :> {T}) @@ ("devices" :> {N})
MCIdPrefix == ("tun-1" :> {T}) @@ ("svc-1" :> {S})
MCHintsAt == ("latency" :> {<<T, "latency">>}) @@ ("number" :> {<<T, "id">>, <<S, "id">>}) @@ ("name" :> {<<T, "name">>, <<S, "name">>})
            @@ ("service name" :> {<<S, "name">>})
MCOperatorOf == ("over" :> "gt") @@ ("not" :> "neq")
MCValidValues == <<N, "vendor">> :> {"Acme", "Acme West", "Zeta"}
MCSynonymOf == <<N, "vendor">> :> ("azure" :> "Zeta")
MCDisplays == ("by Acme" :> {"Acme"}) @@ ("Acme or azure" :> {"Acme", "azure"}) @@ ("Acme West" :> {"Acme"})
MCValueIndex == (<<S, "id">> :> {"svc-1"}) @@ (<<T, "name">> :> {"blue", "bluer"})
MCSimilarity == (<<"Acne", "Acme">> :> 75) @@ (<<"bleu", "blue">> :> 75) @@ (<<"blue.", "blue">> :> 96) @@ (<<"blue.", "bluer">> :> 80)
                @@ (<<"blue", "blue">> :> 100) @@ (<<"blue", "bluer">> :> 94)
MCNumeral == "5 ms" :> "5"
MCPeriod == "last week" :> "7 days"

-----------------------------------------------------------------------------
\* Words for values, and what is made of two of them.
Said(text, kind, attached) == [text |-> text, kind |-> kind, attached |-> attached]
ATunnel == Said("tun-1", "id", None)
AService == Said("svc-1", "unknown", None)
ItsService == Said("svc-1", "unknown", "services")

Id(owner, value, match) ==
  [raw |-> value, value |-> value, owner |-> owner, property |-> "id", match |-> match, typed |-> TRUE]
TheTunnel == Id(T, "tun-1", "literal_passthrough")

Property(owner, name, alias) ==
  [kind |-> "property", owner |-> owner, name |-> name, alias |-> alias, terms |-> {name}]

AllCandidates ==
  {<<"vertex", v>> : v \in MCVertices} \cup {<<"edge", e>> : e \in MCEdges}
  \cup (UNION {{<<"property", v, p>> : p \in MCProperties[v]} : v \in MCVertices})
  \cup {<<"metric", "device_count">>, <<"path_pattern", "tunnel_full_path">>}

\* The vertices first, the rest in some order.
Ranked ==
  FoldSet(LAMBDA c, ranked : Append(ranked, c), <<<<"vertex", S>>, <<"vertex", T>>, <<"vertex", N>>>>,
          {c \in AllCandidates : c[1] # "vertex"})

Only(v) == {<<"vertex", v>>} \cup {<<"property", v, p>> : p \in MCProperties[v]}

Term(text, slot, position) == [text |-> text, slot |-> slot, attached |-> None, position |-> position]
Path(texts) == [i \in DOMAIN texts |-> Term(texts[i], "path", i)]
TopThree == <<Term("most", "order_by", 8), Term("top 3", "limit", 9)>>

Question ==
  [intent |-> "lookup", terms |-> <<>>, said |-> <<>>, recognised |-> <<>>, ranked |-> Ranked, literals |-> <<>>,
   object_info |-> FALSE, weak |-> {}, candidates |-> AllCandidates, output_shape |-> "rows", joined |-> FALSE,
   linked |-> FALSE, paired |-> FALSE, informed |-> {}, owned |-> {}, possessive |-> <<>>]

Of(text, attached) == [Term(text, "projection", None) EXCEPT !.attached = attached]
Named == <<Of("name", None)>>
Filters(texts) == [i \in DOMAIN texts |-> Term(texts[i], "filter", None)]

\* One vertex: what there is to know of it, in full or by its properties; those with a value.
ZeroHopQuestions ==
  {[Question EXCEPT !.terms = Path(<<"tunnels">>) \o asked \o limit, !.candidates = Only(T)] :
     limit \in {<<>>, <<Term("top 3", "limit", 9)>>, TopThree},
     asked \in {Named, <<Of("latency", "tunnels"), Of("name", "tunnels")>>, <<Of("information", "tunnels")>>,
                <<Of("tunnel info", None)>>, <<Of("tunnels", None)>>, <<Of("tunnels", None), Of("name", None)>>,
                <<Of("vendor", "devices")>>}}
  \cup {[Question EXCEPT !.terms = Path(<<"tunnels">>) \o Named \o filters, !.candidates = Only(T) \cup other,
                         !.said = <<l>>] :
          l \in {ATunnel, Said("$x", "id", "tunnels"), Said("5 ms", "number", "tunnels"), Said("last week", "datetime", None),
                 Said("blue", "enum_or_name", None), Said("blue.", "enum_or_name", None),
                 Said("bleu", "enum_or_name", None), Said("gold", "enum_or_name", "tunnels")},
          filters \in {<<>>, Filters(<<"name">>), Filters(<<"latency", "over">>), Filters(<<"number", "over", "not">>)},
          other \in {{}, Only(S)}}
  \cup {[Question EXCEPT !.terms = Path(<<"devices">>) \o <<Of("vendor", None)>>, !.candidates = Only(N), !.said = said,
                         !.recognised = <<[text |-> "azure", owner |-> N, property |-> "vendor"]>>] :
          said \in {<<>>} \cup {<<Said(text, "enum_or_name", "devices")>> :
                                 text \in {"Acme", "Acme West", "by Acme", "azure", "Acme or azure", "Acne", "name"}}}
  \cup {[Question EXCEPT !.terms = <<Of("name", attached)>>, !.candidates = Only(T) \cup Only(S), !.weak = weak,
                         !.said = <<ATunnel>>] :
          attached \in {None, "services", "tunnels"}, weak \in {{}, {S}}}
  \cup {[Question EXCEPT !.terms = <<Of("tunnels", None)>>, !.candidates = Only(T), !.informed = informed,
                         !.object_info = informed # {}, !.output_shape = shape] :
          informed \in {{}, {"tunnels"}}, shape \in {"rows", "scalar", "grouped_rows"}}

\* How many there are, how many with a property, how many in all and with a property; how many of one name, with
\* a name that is another vertex's.
CountQuestions ==
  {[Question EXCEPT !.intent = intent, !.terms = asked \o Path(<<"tunnels">>) \o filters, !.candidates = Only(T), !.said = said] :
     intent \in {"count", "aggregate"}, said \in {<<>>, <<ATunnel>>, <<Said("latency", "id", "tunnels")>>},
     asked \in {<<Of("how many", None)>>, <<Of("how many", "latency")>>, <<Of("total", "tunnels"), Of("how many", "latency")>>,
                <<Of("how many", "tunnels"), Of("latency", None)>>, <<Of("how many", "latency"), Of("how many", "name")>>},
     filters \in {<<>>, Filters(<<"latency", "present">>), Filters(<<"latency", "field", "present">>)}}
  \cup {[Question EXCEPT !.intent = "count", !.terms = asked \o Filters(<<"latency">>), !.candidates = Only(T),
                         !.owned = {"latency"}, !.joined = joined] :
          joined \in BOOLEAN, asked \in {<<Of("how many", "tunnels")>>, <<Of("total", None), Of("how many", None)>>}}
  \cup {[Question EXCEPT !.intent = "count", !.candidates = Only(T) \cup {<<"property", S, "name">>},
                         !.terms = <<Of("how many", "tunnels")>> \o Path(<<"tunnels">>)
                                   \o Filters(<<"name", "gold", hint, "blue">>),
                         !.said = <<Said("gold", "enum_or_name", None), Said("blue", "enum_or_name", None)>>] :
          hint \in {"name", "service name"}}

\* Paths: with and without the word that says which of two edges is meant, and what may be asked along one.
MultihopQuestions ==
  {[Question EXCEPT !.terms = Path(path) \o <<Of("vendor", "devices"), Of("name", "tunnels")>> \o more, !.said = said] :
     path \in {<<"services", "used", "tunnels", "start", "devices">>, <<"tunnels", "start", "devices">>,
               <<"tunnels", "end", "devices">>, <<"tunnels", "far start", "devices">>, <<"tunnels", "devices">>},
     said \in {<<>>, <<AService>>, <<ATunnel>>, <<ATunnel, AService>>}, more \in {<<>>, TopThree}}
  \cup {[Question EXCEPT !.terms = Path(path) \o <<Of("vendor", None)>>, !.candidates = @ \ {<<"edge", missed>>}] :
          path \in {<<"services", "used", "tunnels", "start", "devices">>, <<"tunnels", "start", "devices">>,
                    <<"tunnels", "devices", "start">>, <<"tunnels", "devices">>},
          missed \in {"TUNNEL_SRC", "TUNNEL_DST"}}
  \cup {[Question EXCEPT !.terms = Path(<<"services", "used", "tunnels">>) \o asked, !.said = said,
                         !.candidates = Only(S) \cup Only(T) \cup {<<"edge", "SERVICE_USES_TUNNEL">>},
                         !.possessive = possessive, !.paired = paired] :
          asked \in {<<>>, <<Of("tunnels", None)>>, <<Of("services", None), Of("name", "tunnels")>>, <<Of("name", None)>>,
                     <<Of("information", "services")>>, <<Of("information", None), Of("name", "tunnels")>>,
                     <<Of("name", "tunnels")>>, <<Of("name", "services and tunnels")>>, <<Of("name", "devices of tunnels")>>,
                     <<Of("ends", "services"), Of("ends", "tunnels"), Of("name", None)>>,
                     <<Of("information", "info"), Of("info", "services")>>,
                     <<Of("source", None), Of("target", None)>>},
          said \in {<<>>, <<ATunnel>>}, possessive \in {<<>>, <<<<"services", "tunnels">>>>}, paired \in BOOLEAN}
  \cup {[Question EXCEPT !.intent = "top_n", !.terms = Path(<<"tunnels", "start", "devices">>) \o asked \o TopThree] :
          asked \in {<<Term("vendor", "group_by", 5), Of("how many", "tunnels")>>, <<Of("vendor", None), Of("how many", "tunnels")>>,
                     <<Term("vendor", "group_by", 5), Of("how many", None)>>, <<Of("how many", "tunnels")>>}}
  \cup {[Question EXCEPT !.output_shape = "grouped_rows", !.terms = Path(<<"tunnels", "start", "devices">>) \o asked] :
          asked \in {<<Term("vendor", "group_by", 5), Of("how many", "tunnels")>>, <<Of("vendor", None)>>}}

\* Questions no family fits, of which the LLM is asked what they mean. With and without a whole vertex to
\* return, an order, a path or a count in the wording; more literals than one; a candidate that is missing.
Open ==
  [Question EXCEPT !.intent = "two_stage_aggregate", !.said = <<ATunnel, ItsService>>]

OpenQuestions ==
  {Open, [Open EXCEPT !.terms = TopThree], [Open EXCEPT !.terms = Tail(TopThree)],
   [Open EXCEPT !.terms = <<Of("information", "tunnels")>>],
   [Open EXCEPT !.terms = Path(<<"services", "tunnels", "devices">>) \o <<Of("tunnels", None)>>],
   [Open EXCEPT !.terms = <<Of("how many", None)>>],
   [Open EXCEPT !.terms = Named, !.candidates = @ \ {<<"property", T, "name">>}]}

MCQuestions == ZeroHopQuestions \cup CountQuestions \cup MultihopQuestions \cup OpenQuestions

-----------------------------------------------------------------------------
Nothing ==
  [full |-> FALSE, returned |-> <<>>,
   shape |-> "lookup", vertices |-> <<>>, edges |-> <<>>, metrics |-> <<>>, patterns |-> <<>>,
   properties |-> <<>>, literals |-> <<>>, filters |-> <<>>, group_by |-> <<>>, measures |-> <<>>,
   projection |-> <<>>, sort |-> <<>>, limit |-> None]

Pick(n) == [id |-> n]
Along(e) == [name |-> e, direction |-> "forward"]
Against(e) == [name |-> e, direction |-> "backward"]
ColumnOf(kind, owner, name, alias) ==
  [kind |-> kind, owner |-> owner, name |-> name, target |-> None, alias |-> alias, terms |-> {}]

\* Vertices, edges between them and columns of them that do and do not go together.
Paths ==
  {[Nothing EXCEPT !.shape = shape, !.vertices = vertices, !.edges = edges, !.literals = ls,
                   !.projection = projection] :
     shape \in {"lookup", "single_hop", "variable_path"},
     vertices \in {<<>>, <<T>>, <<S, T>>, <<S, T, N>>, <<N, T, N>>},
     edges \in {<<>>, <<Along("SERVICE_USES_TUNNEL")>>, <<Along("SERVICE_USES_TUNNEL"), Along("TUNNEL_SRC")>>,
                <<Against("TUNNEL_SRC"), Along("TUNNEL_DST")>>},
     ls \in {<<>>, <<Pick(1)>>},
     projection \in {<<>>, <<ColumnOf("property", T, "name", None), ColumnOf("property", S, "name", None)>>}}

\* The same cut off, which not every form of them can be.
Limited == {[p EXCEPT !.limit = 3] : p \in {q \in Paths : q.projection # <<>> /\ Len(q.vertices) < 3}}

Filter(owner, property, operator, raw, inline) ==
  [owner |-> owner, property |-> property, operator |-> operator, raw |-> raw, inline |-> inline]

\* Conditions with and without their owner, their text and a literal of their own.
Conditions ==
  {[Nothing EXCEPT !.shape = shape, !.vertices = <<S, T>>, !.edges = <<Along("SERVICE_USES_TUNNEL")>>,
                   !.filters = filters, !.literals = ls, !.returned = <<ColumnOf("property", T, "id", None)>>] :
     shape \in {"single_hop", "variable_path"},
     filters \in {<<Filter(owner, "id", operator, raw, inline)>> :
                    owner \in {None, T}, operator \in {"eq", "contains", "gt", "like"},
                    raw \in {None, "tun-1"}, inline \in {None, TheTunnel}}
                 \cup {<<Filter(T, "id", "eq", "tun-1", None), Filter(S, "id", "eq", "svc-1", None)>>,
                       <<Filter(T, "id", "eq", None, TheTunnel), Filter(None, "id", "eq", "svc-1", None)>>,
                       <<Filter(T, "id", "eq", "tun-1", None), Filter(T, "id", "neq", "tun-1", None)>>},
     ls \in {<<Pick(1)>>, <<Pick(2), Pick(1)>>, <<Pick(3)>>}}

Item(target, owner, name) ==
  [kind |-> "item", target |-> target, owner |-> owner, name |-> name, alias |-> name]
Measure(alias, function, target, owner, name) ==
  [kind |-> "item", alias |-> alias, function |-> function, target |-> target, owner |-> owner, name |-> name]
Count(owner, text) == [kind |-> "count", owner |-> owner, text |-> text, hint |-> "the count"]
By(text) == [kind |-> "hint", text |-> text, direction |-> "desc"]

Aggregates ==
  {[Nothing EXCEPT !.shape = shape, !.vertices = <<T>>, !.metrics = metrics, !.group_by = groups,
                   !.measures = measures, !.literals = ls,
                   !.sort = IF limit = None THEN <<>> ELSE <<By(IF metrics = <<>> THEN "count" ELSE "vendor")>>,
                   !.limit = limit] :
     shape \in {"metric_aggregate", "ad_hoc_aggregate", "top_n", "two_step_aggregate"},
     metrics \in {<<>>, <<"device_count">>},
     groups \in {<<>>, <<Item("ne", N, "vendor")>>, <<[kind |-> "property", owner |-> T, name |-> "name"]>>},
     measures \in {<<>>, <<Count(T, None)>>, <<Measure("n", "sum", "tunnel", T, "name")>>,
                   <<Measure("n", "sum", "tunnel", T, "latency")>>},
     ls \in {<<>>, <<Pick(1)>>}, limit \in {None, 3}}

\* A condition on a vertex that is neither grouped by nor measured.
BesideAggregates ==
  {[Nothing EXCEPT !.shape = shape, !.vertices = <<T, S>>, !.measures = <<Count(T, None)>>, !.literals = <<Pick(i)>>] :
     shape \in {"ad_hoc_aggregate", "two_step_aggregate"}, i \in {1, 2}}

\* Columns an aggregate is asked for: by a label, by the property that is grouped by, by one that is not.
Columns ==
  {[Nothing EXCEPT !.shape = shape, !.vertices = <<T>>, !.measures = measures, !.projection = columns,
                   !.group_by = <<[kind |-> "property", owner |-> T, name |-> "name"]>>] :
     shape \in {"ad_hoc_aggregate", "two_step_aggregate"},
     measures \in {<<Count(T, "number")>>, <<Measure(None, "count", None, T, None)>>,
                   <<[Measure("n", "count", None, "Router", None) EXCEPT !.kind = "vertex"]>>,
                   <<[kind |-> "label", text |-> "number"]>>},
     columns \in {<<ColumnOf("property", T, "name", None), [kind |-> "label", text |-> "number"]>>,
                  <<ColumnOf("property", T, "name", "number")>>, <<ColumnOf("property", T, "id", None)>>,
                  <<[kind |-> "label", text |-> "count(Tunnel)"], [kind |-> "vertex", name |-> T, alias |-> None,
                                                                 terms |-> {}]>>}}

Patterns ==
  {[Nothing EXCEPT !.shape = "named_path_pattern", !.patterns = <<"tunnel_full_path">>, !.vertices = <<T>>,
                   !.literals = ls, !.projection = MapSeq(columns, LAMBDA c :
                     [kind |-> "source", alias |-> c, source |-> [ns |-> "path", name |-> c], terms |-> {}])] :
     ls \in {<<>>, <<Pick(1)>>, <<Pick(2)>>},
     columns \in {<<"device", "hop">>, <<"hop", "device">>, <<"device">>}}

\* Answers in full, of which every part is taken as it is.
Full(a) == [a EXCEPT !.full = TRUE]
FullAnswers ==
  {Full([Nothing EXCEPT !.vertices = vertices, !.literals = ls,
                        !.projection = <<ColumnOf("reference", T, "name", alias), ColumnOf("unlabelled", T, "id", None)>>]) :
     vertices \in {<<>>, <<T>>}, ls \in {<<>>, <<TheTunnel>>, <<Id(T, "tun-2", "exact")>>}, alias \in {None, "match"}}
  \cup {Full([Nothing EXCEPT !.shape = "ad_hoc_aggregate", !.vertices = <<T>>,
                             !.measures = <<[alias |-> "n", function |-> "count", target |-> target, owner |-> T, name |-> name]>>,
                             !.projection = <<[ColumnOf("reference", T, "id", "n") EXCEPT !.target = "t"]>>]) :
           target \in {None, "t", "match"}, name \in {None, "id", "vendor"}}

MCUnderstandings ==
  Paths \cup Limited \cup Conditions \cup Aggregates \cup BesideAggregates \cup Columns \cup Patterns \cup FullAnswers
=============================================================================
