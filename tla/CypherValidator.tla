--------------------------- MODULE CypherValidator ---------------------------
(* cypher_validation/: the last look at a compiled query. Its checks run one *)
(* after the other, and the first that fails ends the run with its code. The *)
(* texts of path patterns and metrics were validated when the model was      *)
(* loaded; of a query made from them their values and columns are looked at. *)
EXTENDS CypherCompiler

CONSTANTS
  Ordered,  \* the <<owner, property>> whose type has an order: a number or a time
  Textual   \* the <<owner, property>> whose type is string

-----------------------------------------------------------------------------
(* Reading the text.                                                           *)

MutatingWords == {"create", "merge", "set", "delete", "remove", "call", "foreach"}
ReadWords == {"match", "where", "with", "return", "limit", "skip", "unwind"}

\* A name that is a keyword begins a clause wherever it stands.
NamesUsed(query) ==
  {c.alias : c \in ToSet(query.with) \cup ToSet(query.returns)}
  \cup {c.expression.name : c \in {x \in ToSet(query.returns) : x.expression.kind = "name"}}
  \cup {c.name : c \in ToSet(query.where)}

ReadonlyErrors(query) == IF NamesUsed(query) \cap MutatingWords = {} THEN {} ELSE {"cypher_readonly_violation"}

ImplicitChaining(query) ==
  LET columns == {c.alias : c \in ToSet(query.returns)}
                 \cup {c.expression.name : c \in {x \in ToSet(query.returns) : x.expression.kind = "name"}}
  IN  columns \cap {"match", "with", "unwind"} # {}

SyntaxErrors(query) == IF ImplicitChaining(query) THEN {"cypher_syntax_invalid"} ELSE {}

AllowedFunctions == {"avg", "coalesce", "collect", "count", "max", "min", "sum", "tofloat", "tointeger", "tostring"}

MaxVariablePathHops == 8

Expressions(query) == {c.expression : c \in ToSet(query.with) \cup ToSet(query.returns)}

DialectErrors(query) ==
  IF /\ \A e \in ToSet(query.edges) : e.max <= MaxVariablePathHops
     /\ \A x \in Expressions(query) : x.kind = "measure" => x.function \in AllowedFunctions
  THEN {} ELSE {"target_dialect_static_error"}

-----------------------------------------------------------------------------
(* The schema.                                                                 *)

\* The label of a variable; of a variable with several the last one.
LabelOf(query, variable) ==
  LET bound == {i \in DOMAIN query.nodes : query.nodes[i].variable = variable}
  IN  IF bound = {} THEN None ELSE query.nodes[Max(bound)].label

\* What is read of a variable: in a condition, or by a column.
PropertiesRead(query) ==
  {<<LabelOf(query, c.variable), c.name>> : c \in {x \in ToSet(query.where) : x.variable # None}}
  \cup {<<LabelOf(query, x.variable), x.name>> : x \in {y \in Expressions(query) : y.kind \in {"property", "measure"}}}

\* Each edge joins the node before it to the next, also when it may be walked more than once.
EndpointsMatch(query) ==
  \A i \in DOMAIN query.edges :
    EdgeConnects(query.edges[i].name, query.nodes[i].label, query.nodes[i + 1].label, query.edges[i].direction)

NumericAggregates(query) ==
  \A x \in Expressions(query) :
    x.kind = "measure" /\ x.function \in {"sum", "avg"} => <<LabelOf(query, x.variable), x.name>> \in Numeric

OperatorFits(query, c) ==
  /\ c.operator \in {"gt", "gte", "lt", "lte"} => <<LabelOf(query, c.variable), c.name>> \in Ordered
  /\ c.operator = "contains" => <<LabelOf(query, c.variable), c.name>> \in Textual

SchemaErrors(query) ==
  IF /\ EndpointsMatch(query)
     /\ \A p \in PropertiesRead(query) : HasProperty(p[1], p[2])
     /\ NumericAggregates(query)
     /\ \A c \in ToSet(query.where) : c.variable # None => OperatorFits(query, c)
  THEN {} ELSE {"cypher_schema_reference_invalid"}

-----------------------------------------------------------------------------
(* The columns must be those of the projection, in its order.                  *)

ReturnAliases(query) == IF NamesUsed(query) \cap ReadWords = {} THEN MapSeq(query.returns, LAMBDA c : c.alias) ELSE <<>>

ShapeErrors(query, expected) ==
  IF ReturnAliases(query) = expected THEN {} ELSE {"compiler_shape_mismatch"}

FirstFailure(checks) ==
  LET failed == {i \in DOMAIN checks : checks[i] # {}}
  IN  IF failed = {} THEN {} ELSE checks[Min(failed)]

SelfValidationErrors(query, expected) ==
  FirstFailure(<<SyntaxErrors(query), ReadonlyErrors(query), DialectErrors(query), SchemaErrors(query),
                 ShapeErrors(query, expected)>>)
===========================================================================
