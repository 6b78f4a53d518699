# Formal models of NL2Cypher

TLA+ specifications, TLC configurations and TLAPS proofs kept beside the
NL2Cypher services. They say what the services promise each other, check it on
small instances under interleavings, lost calls and crashes, and prove the
central statements for instances of any size.

Run `tlc -config MCX_y.cfg MCX` for a run of section 4 and `tlapm XProofs.tla`
for a proof of section 5. `PROJECT.json` maps every definition to the lines it
stands for.

## 1. The system

    console / runtime center ---question---> cypher-generator-agent (CGA)
    qa-agent ----------golden------------+       |  receipt, submission,
                                         v       v  failure report
                                     testing-agent ---query---> TuGraph
                                         |       ^
                                         |       +--- status polls (console)
                          issue ticket   v
                                     repair-agent ---suggestion---> knowledge-agent

All services are FastAPI applications on one asyncio loop each; state lives in
JSON files written with `write_text`, and in a few in-memory tables. TuGraph,
the LLM endpoints, the qa-agent and the knowledge-agent are outside the
repository.

| component | source | state | operations | what makes it hard | what makes it correct |
| --- | --- | --- | --- | --- | --- |
| testing agent | `services/testing_agent/app/{service,repository,main,models}.py` | six kinds of JSON files, task registry, per-attempt locks | ingest golden / receipt / submission / failure report, background evaluation, status poll, startup resume | requests in any order and repeated, tasks interleaved at awaits, death between two of up to eight file writes | one attempt per run, the final state is backed by files, nothing ready is forgotten, final is final |
| result comparison | `.../testing_agent/app/{comparison,summary,grammar}.py` | none | normalise and compare rows, scan brackets and quotes, verdict | multiplicity, order sensitivity, escapes | equality of results is an equivalence; order matters where promised |
| repair agent | `services/repair_agent/app` | one analysis file per ticket, LLM semaphore | diagnose a ticket, apply the suggestion at the knowledge agent | no lock over read-await-write, retries of a non-idempotent call, crash between the calls | a ticket's outcome is what the knowledge agent did |
| CGA service | `services/cypher_generator_agent/app/api`, `infrastructure/clients.py` | in-memory background tasks | accept a question, send the receipt, generate, deliver the result with retries | lost answers, repeated deliveries, crash | every accepted question has a report, at most one per run |
| CGA pipeline control | `.../core/pipeline.py`, `repair/controller.py`, `observability/trace.py` | one trace per question | the stages from decomposition to the final Cypher, schema retries, repair decisions | early returns and exceptions in every stage, two routes, a second copy of the stage order in the service | a run ends with one answer that the service accepts; a query only after every gate |
| CGA translation | `.../{understanding,binding,validation,dsl,compiler,cypher_validation,literals,assembly,semantic_model}` and what `core/pipeline.py` computes between them | the working values of one run | resolve literals, assemble a DSL or hydrate, bind and validate an LLM's answer, build, parse and gate the DSL, compile it, validate the query | nine stages that each keep a part of the meaning and drop what they do not know; ambiguity; names that collide; errors no stage expects | what the question asked for is in the query that is given out, or there is no query |
| CGA retrieval | `.../retrieval` | none | score and rank candidates | similarity of texts | - |
| console: user queries | `console/runtime_console/app/user_queries.py` | query records, an index of bounded length | create a question, complete its diagnosis, list, read, expire | index and records written apart, await between read and write, threads that read while the loop writes | index and records agree; an expired record never returns, except by a late diagnosis |
| console: task index | `console/runtime_console/app/service.py` | a cache with signature and time | list tasks | signature taken outside the lock, several threads, files change meanwhile | no listing staler than promised, no listing goes back |
| console: task results | the rest of `service.py` | none | derive stages and texts from files | files of several services, some missing | a status agrees with the files it is read from |
| tools, contracts, UI | `tools`, `contracts`, `*/ui` | none | reset files, probe services, render | - | - |

`PROJECT.json` lists all of them with their sources and the reason where one is
not modelled, and the hazards each is exposed to, at their lines.

## 2. How the modules are laid out

| module | models | composes |
| --- | --- | --- |
| `TestingAgent` | the testing agent for one question id | - |
| `Workflow` | CGA service, network and testing agent for one question id | extends `TestingAgent`; `Spec` of it is a property |
| `RepairAgent` | repair agent and knowledge agent behind a network | - |
| `UserQueries` | user queries of the console, loop and reading threads | - |
| `Generation` | what a generation promises: one answer, of the contract | abstract |
| `Pipeline` | one run of the pipeline, stage by stage | extends `Generation`; `GenerationSpec` is a property |
| `GraphModel` | the graph schema, names and values, and what the stages ask of the registry | - |
| `GroundedUnderstanding` | hydration of the LLM's answer, its schema and candidate boundaries | extends `GraphModel` |
| `SemanticBinder` | binding an answer to the schema: the plan | extends the one before, as do all that follow |
| `PlanValidator` | the validator's checks of a plan | |
| `DslBuilder` | the DSL of each query shape | |
| `DslParser` | what the parser refuses, and the AST | |
| `StructuralCoverage` | requirements of the wording and the gate that holds the DSL against them | |
| `CypherCompiler` | the AST as the clauses of a query | |
| `CypherValidator` | the validation of the query | |
| `LiteralResolution` | which literals a question has, where each belongs and which value it means | |
| `ProjectionTerms` | what the words for what to return stand for, and the question that names nothing to return | |
| `AssemblyRequests` | what the words for counts and groups stand for, and which properties must be there | |
| `PathAssembly` | the assemblers that need no LLM, for one vertex and for paths, with the requests the pipeline makes of them | |
| `Translation` | one run with what its stages compute | extends the whole chain; implements `Pipeline` (`P == INSTANCE Pipeline`) |
| `TaskIndex` | the cache of the task list | - |
| `MC...` | the values of the constants and the symmetries for TLC | one per module |
| `...Proofs` | theorems | one per proved module |

Some definitions are preceded by a variant with a fault in it (`PROJECT.json`,
"mutants", says which stands for which). No specification uses these variants;
put in the definition's place each makes the run fail on the property named
beside it, which shows that the property depends on the code.

## 3. The models

### TestingAgent

One question id; no operation of the service relates two ids. The variables are
the files (`golden`, `receipt`, `reports`, `attempts`, `latest`, `tickets`), the
in-memory task table (`tasks`, per attempt: how many tasks wait for the
attempt's `asyncio.Lock`, where the holder is suspended, how many done-callbacks
are due, whether `_background_tasks` has an entry), the file writes the current
section has still to make (`writes`), and `up`, `crashes`.

The code between two awaits is one section: asyncio runs nothing else there.
What a section decides is one action (`IngestGolden`, `StartEvaluation`,
`QueryExecuted`, ...); its `write_text` calls, in the order of the code, become
the sequence `writes`, performed one at a time by `WriteFile`; no other section
starts before they are done (`LoopIdle`), but `Crash` may come between any two.
The file names a write goes to are those of `repository.py`: a mutation writes
the attempt, then the latest snapshot unless that names a newer attempt
(`MutateWrites`); a new attempt is written the other way round (`CreateWrites`).
A `write_text` call is taken as atomic; a torn file is not modelled here (the
readers are on the same loop; after a crash a torn file makes the handler raise).

Abstractions: a golden is known by its answer (cypher and difficulty travel with
it); an execution returns one of `Answers`; whether a query passes the grammar
check is a fixed property of the text (`Parses`), which it is in the code;
metrics that no decision reads (GLEU, Jaro-Winkler), messages, time stamps and
prompt snapshots are dropped (a body stands for the query with its snapshot).

### Workflow

`at`, `tries` and `output` are the local variables of the CGA's handler and
background task of each run; `wire` and `answers` the HTTP calls in either
direction. `AcceptQuestion` sends the receipt, `GenerationEnds` or
`GenerationRaises` closes the pipeline, `TakeReceipt`, `TakeSubmission` and
`TakeFailureReport` are the testing agent's handlers with the answer they give,
`AnswerArrives` and `CallFails` the client's reading of it
(`_submit_with_retries`). A call whose client gave it up stays on the wire and
may still be taken. `CgaCrash` and `Crash` end the one process or the other:
what a dead CGA was doing is lost, for nothing of it is on file. `announced` is
history: the runs whose own receipt has been on file, where a later run's receipt
replaces an earlier one's. The pipeline is
a step with one of `Outputs`: `Pipeline` says which those are.

### RepairAgent

`at` is where each request's handler is suspended; the await points are the
semaphore (`queue`), the LLM call, its backoff, the apply call and the pause
before the next. `analysis` is the ticket's file. `calls` and `effects` are the
knowledge agent: it may take a call late, and take a call whose answer is lost.
`TakeAnswer` is how `clients.py` reads an answer: 200, the body of a paused
application, another 4xx, and everything else, which is tried again. The JSON of
a 200 is not checked (`clients.py:296`): if it is a list, a text or a number,
looking at it raises (`service.py:183`) outside the `try` that would store
`apply_failed`, and the analysis stays `analysis_pending` (`"unreadable"`).
`unfinished` is history: why a request stored no outcome. The content of a
diagnosis is reduced to repairable or not.

### UserQueries

The loop's sections are sequences of file operations (`section`), because the
reading threads see every one of them: a record or the index that is being
rewritten is `Torn` in between, and a crash leaves it so. A thread reads the
index, then tests and opens record by record. `saves` is history.

### Generation and Pipeline

`step` is the stage to run next, `trace` the stages already recorded, `issue`
the first issue handed to the repair controller, `calls` the LLM calls made. Each
stage is an action with the ways it may end: go on, clarification, a failure with
a reason, or an exception, which `run_pipeline`'s handler turns into an output
(`Unexpected`). `Accepted` is the contract `api/service.py` checks before it
submits. `Generation` is the abstract specification: `answer` changes once, to
a member of `Answer`.

### From GraphModel to Translation

`Pipeline` leaves open what a stage computes; these modules say it. All but
`Translation` are operators without state, one module per package of the
generator. Every stage is given by three kinds of operator: what it refuses
(`Hydratable`, `Bindable`, `Validate`, `Buildable`, `ParserErrors`,
`MissingRequirements`, `Compiles`, `SelfValidationErrors`), what raises an error
it does not expect (`BinderRaises`, `CompilerBreaks`), and what it returns
(`Hydrate`, `Bind`, `Build`, `BuildAst`, `Compile`).

The data are records instead of JSON and text. A name is a string where the
code makes new names of it (roles, aliases, parameters), and a mark of a term
where the code only looks for substrings ("which", "how many"); whether a text
contains another, what it is similar to and which number or time it stands for
are constants (`Within`, `Similarity`, `Numeral`). A query is its clauses: nodes and
edges with variables, conditions, columns, grouping, order, limit, with
parameters resolved to the values they carry; that the text of these clauses has
no other meaning is the compiler's templates, which are not modelled. Aliases are made by
the code's own rules (`SnakeCase`, `SafeAlias`, the numbering of duplicates),
because a collision is what could go wrong.

A question is what may be asked together with what is found in its wording: the
terms with their slots (the decomposition), the candidates (retrieval, ranked),
the literals that were said or recognised. What a term of the wording is to
return, count or group by is computed: `TermItems` is
`_projection_items_from_substantive_terms`, `CountMeasures` and `PathMeasures`
the counts, `GroupBy` the groups, `PresentProperties` the conditions without a
value, and `RequestFor` puts them together for the family. Constants say which
vertices and properties a single text names and how well (`NamedBy`, `Mentioned`,
`Suits`), and fields of the question what the code looks for in its full text
("and its", "both", "all information"). `Naked` is the question that names
nothing but a vertex and is given back to the user. The LLM's
answer is any member of `Understandings`. `Translation`'s actions are the stages
of `run_pipeline`; its first seven variables are `Pipeline`'s, so that the
mapping is by name and `work` is what the detailed module adds. The LLM is on;
the mock answers given without one are `Pipeline`'s only, and so is what can end
a run before the literals are resolved.

Observations from modelling, which no document contradicts:

- a literal only retrieval recognised is resolved but does not reach an
  assembled query when the words give no other sign of a condition
  (`taxonomy.py:97` looks at the slots of the terms);
- the resolver asks for near values before it asks the value index
  (`resolver.py:113`), so a text that stands in the index exactly, and has a
  near neighbour, is ambiguous;
- the text of an earlier literal is taken for a property hint of a later one
  (`pipeline.py:4015`);
- a relation word behind the last vertex lies outside the words of every step,
  so that an edge retrieval found alone is taken although the words mean the
  other; `AssembledPathIsMeant` allows that;
- a report made for an LLM's decomposition has no terms left over and asks for
  none (`pipeline.py:4538`), so the validator's coverage checks never fail for it;
- where two properties are each asked "how many", the code finds no single one
  to count and counts the vertex, silently (`pipeline.py:3250`);
- "present" beside a literal in a lookup is dropped: the family with a value
  makes conditions of literals only (`pipeline.py:2938`);
- the assembler of a count is handed its conditions by the name of their property
  (`pipeline.py:3034`, `zero_hop.py:229`): beside a literal of the counted vertex, one
  of another owner's property of the same name becomes a second condition with the
  first one's value, and its own is lost;
- a property asked of a vertex that retrieval found weakly, or not at all, may
  be read of the vertex that is selected, if that has one of the name;
  `NothingAskedIsLost` therefore speaks of vertices that were found;
- a two-step aggregate is built without the plan's conditions, and a named path
  takes the plan's literals before its filters.

### TaskIndex

A directory of the testing agent holds one file, known by the number of changes
made to it: a rewrite is two, truncation and writing. `Sign` takes the signature
of one directory, outside the lock; `LookUp` and `Check` are the two critical
sections, `Read` reads the files one at a time with the lock held, `Store` ends
the rebuild. `past`, `newest`, `shown` and `collided` are history. `collided`
holds the directories that were signed between two changes with one and the
same `st_mtime`: a signature made of counts and time stamps cannot tell these
apart, the cache may then be stale until the next change, and the properties
exclude exactly these directories.

## 4. Runs

| run | instance | what it shows |
| --- | --- | --- |
| `ta_crash` | 2 runs x 2 bodies, 2 answers, 2 attempts, 1 crash anywhere, 1 unreaped callback | `RunOwnsOneAttempt`, `FinalStateIsBacked`, `VerdictHasEvidence`, `LatestCoversAttempts`, `ReadyIsScheduled`; while no crash has happened `LatestIsNewestAttempt`, `TicketsMatchVerdicts`, `AssessmentIsCurrent` (the files agree with each other between sections) and `FinalAttemptIsFrozen` |
| `ta_live` | 2 runs, a failure report of one, 2 attempts, 1 crash | `ReadyEventuallySettles`, `GoldenStartsEvaluation` |
| `ta_unreleased` | 2 runs, no crash | violated: a golden reopens only the newest of the submissions that wait for it |
| `ra_crash` | 2 requests for one ticket, 1 for another, 1 place of the semaphore, 1 retry, 2 apply attempts, 1 crash | `AppliedIsTrue`, `PendingHasACause`, `SettledTicketIsFinal`, `EveryRequestIsAnswered` under fairness |
| `wf_delivery` | 2 runs, 2 tries, 1 crash of either process | `DeliveredIsFiled`, `ReceiptComesFirst`; every step is one of `TestingAgent` |
| `wf_live` | 1 run with golden and evaluation, 2 tries, 1 crash of either process | `RepetitionIsNoConflict`, `FailureReportBecomesAttempt`, `RunEnds` |
| `wf_outbox` | 1 run, 1 try | violated: an outcome whose deliveries fail is lost |
| `uq_history` | 3 queries, history of 2, 1 reading thread, 1 crash | `ListedIsOnFile`, `MissedIsExpired`, `AnsweredIsListed`, `OnlyDiagnosisRevives`, `PendingIsWorkedOn` |
| `pl_contract` | 2 schema retries, LLM on or off | `OutputIsAccepted`, `GeneratedIsSound`, `ProviderFailureIsReported`, `GenerationSpec` |
| `pl_issue` | the same | violated: an issue whose code is no failure reason becomes a service failure |
| `tr_generated` | 358 questions over 3 vertices and 3 edges, two of which join the same vertices; wherever the LLM is asked, each of some thousand answers | `RequirementsReachQuery`, `QuerySaysWhatIsBound`, `NothingAskedIsLost`, `AssembledIsCompiled`, `AssembledPathIsMeant`, `OnlyKnownGapsBreak`, `ImplementsPipeline` |
| `ti_race` | 2 threads, 2 directories, 2 changes each, clock to 2, time to live 1 | `SignatureVouchesForCache`, `FreshWithinTTL`, `ListingsNeverGoBack` |

Why the bounds are enough. Two attempts cover every relation the code has
between attempts (newest and older, previous evaluated and current) except a gap
in the predecessor search. Two answers give the golden's rows and different
ones; two bodies one query that parses and one that does not. `MaxUnreaped = 1`
lets a finished task wait for its callback while a second is registered.
One crash is enough to meet every pair of writes; what a second one could add is
covered by the proofs, which bound neither. Two tries of a delivery give a first
that is lost, late or answered and a last that ends the loop. One place of the
semaphore makes a third request wait; two requests of one ticket race in every
await. Three queries overflow a history of two. Two changes of a file
are a whole rewrite, and with the clock at two a cache can be within and beyond
its time to live.

`GoldenStartsEvaluation` leaves out two kinds of attempt, which the code does
leave waiting with their golden on file: one that was not the newest when the
golden came (`ta_unreleased`), and one the process died over between `save_golden`
and the mutation that makes it ready, for the restart looks for ready attempts
only. The model tells the second by `crashes > 0`.

For `tr_generated`: a path of two steps is the shortest in which a step has words
before and after it that belong to another step; two edges between the same two
vertices are what a direction word has to tell apart, and one word of each kind
does (plain, generic with a domain word, one within another). What is asked for
comes attached and alone, as a vertex, a whole (also vague, compound, chained
to another), a property of one, of both or of a chain, an end of the path; counts
with the number word attached to a vertex, a property, two properties or
nothing; each with and without a literal or a filter beside it. The literals
cover every way a value is found (as it stands, typed, in a list of values, a
synonym, the value index, near, ambiguous, unresolved) and every operator words
give. The LLM's answers are not what a sensible LLM would say but combinations
of vertices, edges, conditions, measures and columns that do and do not go
together, so that every refusal of every stage happens. Larger models only
repeat these situations: no stage looks at more than one step, one condition or
one column at a time, except for the uniqueness of names, which two of each show.

Deadlock is checked where a system can always go on (`TestingAgent`,
`TaskIndex`, and `Translation`, whose `Returned` is the end of a run);
elsewhere the instance has finitely many requests and ends.

Fairness. `TestingAgent!FairSpec`: the loop performs pending writes and a dead
process is restarted (weak); every awaited call returns or raises since all HTTP
clients have timeouts, and asyncio's ready queue is first in first out, so that
requests cannot starve the next step of a task or a due callback (strong).
`Workflow!WFairSpec` adds that a pipeline run and a call end; nothing makes a
delivery arrive. `RepairAgent!FairSpec`: a call returns or times out, a pause
ends, a free place of the semaphore wakes the first waiter; the knowledge agent
owes nothing. `Pipeline!Spec`: a run is one thread whose only external call has a
timeout, so it goes on (weak); `Translation` is about what a run computes and
has none, its runs end because `Pipeline`'s do. No request is ever assumed to come.

### Where the code and its documents disagree

Three disagreements have runs (`ta_unreleased`, `wf_outbox`, `pl_issue`). Others
came up on the way and have none:

- `testing-agent-design.md:1279` says that a failure to execute leaves no
  evaluation summary; after a crash behind `save_evaluation` the repeated
  evaluation may fail in TuGraph with the old summary still on file.
- `testing-agent-design.md:796` ties the assessment to attempt `n - 1`; the code
  takes the nearest earlier attempt that has an evaluation.
- `testing-agent-design.md:1246` calls `submissions/{id}.json` the latest
  submission; between the two writes of a mutation, and for good after a crash
  there, the snapshot lags behind the attempt's own file.
- `testing-agent-design.md:661` makes a golden with `ORDER BY` order-sensitive;
  `ORDER_BY_PATTERN` (`summary.py:21`) has doubled backslashes in a raw string
  and matches no query.
- `repair-agent-design.md:811` calls `applied` the stable success; a concurrent
  request for the same ticket may store `apply_failed` over it, and a lost answer
  makes a suggestion that was applied `apply_failed`.
- `repair-agent-design.md:724` calls `analysis_pending` a status for internal
  tracing; after a crash during the apply call, or an answer to it that is no JSON
  object, it is what every later request is answered. `PendingHasACause` says
  that nothing else leaves it behind.
- The list of stages `get_generator_status` reports is older than the pipeline.

## 5. Proofs

The proofs hold for all values of the constants the named assumptions allow: any
number of runs, requests, queries, threads, directories, attempts and crashes.
Where a property speaks of `crashes = 0`, so does its invariant.

`TestingAgentProofs`: every safety property of `TestingAgent`. A property of the
files is not inductive by itself, for a section makes its writes one at a time:
each invariant below says the same of every write that is still due, and of the
order in which the writes are.

- `OneAttemptPerRun`. `OwnershipInv`: a suspended task belongs to an attempt on
  file, and a due write of an attempt either keeps the run of the file it replaces
  or creates the next number for a run no file has.
- `FinalBacked`, `VerdictEvidence`. `VerdictInv`: the due writes are in the order
  `Lasting` (a ticket before the record that announces it, nothing back to ready),
  a due final record has its golden, evaluation and evidence, and its ticket on
  file or due (`DueVerdicts`), and a due ticket says what the records behind it
  claim (`DueTickets`). The other invariants rest on this one.
- `ReadyScheduled`. `ReadyInv`: each attempt has a live task, or its task raised,
  or a due write takes it out of ready, or it is not ready.
- `LatestCovers`, `LatestIsNewest`. `CoverInv`: the snapshot is at the last attempt
  or one ahead of it, and a new attempt is announced before it is stored.
  `MirrorInv`: a section either mirrors (`Following`: each record of the newest
  attempt is directly followed by its snapshot) or creates (`Creating`).
- `FailureReportAttempted`. `ReportInv`: the run of a failure report has its attempt
  on file or due.
- `TicketsMatch` and the action property `FinalFrozen`. `OnceInv`: evaluation, ticket link and
  assessment of a record are those of its state, except inside a section that
  concludes, whose closing record is due already; each record of an attempt
  repeats what earlier ones have settled (`Follows`).
- `AssessmentsCurrent`. `CurrentInv`: the attempt an assessment compares with is on
  file, and by `OnceInv` its evaluation is never replaced.

`WorkflowProofs`: `WorkflowImplementsTestingAgent` (every step of the composition
is a step of `TestingAgent` or a stutter), so `VerdictInv` holds of it, and
`RetriesMakeNoSecondAttempt`: however often a delivery is repeated, its run owns
one attempt. The simulation needs `GeneratorInv`: what is on the wire is a call
of a run, and a run that delivers has an output. `DeliveredFiled`,
`RepetitionAccepted` and `ReceiptFirst` (of each run its own receipt) follow from
`FilingInv`. The outcome of a
call is fixed when its handler starts, before its writes are made, so `AckInv` and
`ReceiptInv` let an answer stand for a file that is there or for a due write; it
is sent when the section has ended, and then there is no due write left.
`ContentInv` says that what is on file or due of a run is what its pipeline has
produced, and `OutputInv` that it produces once; hence a repeated delivery finds
equal content.

`RepairAgentProofs`: `TypeCorrect`, `AppliedIsNoGuess` (`applied` on file, or
told to a caller, means that the knowledge agent did apply), `SettledForGood`
(an analysis nobody works on any more is never replaced, nor diagnosed or applied
again) and `PendingExplained` (an analysis left pending is being applied, or was cut
off by a crash or by an answer that could not be read). `AppliedIsTrue` is inductive with the type
invariant, since `effects` only grows; the last two need `QueueInv`, that the
semaphore's queue holds each queued request once and no other, so that whoever
gets a place was under way.

`UserQueriesProofs`: every safety property of `UserQueries`, from one invariant, as the
files of a section depend on each other. `SectionInv` is the order of a section's
operations (records, the index, removals, the return). `Target` is what the index
will hold when the running section ends, and `HistoryInv` says that both it and
the index on file are bounded, in the order of the saves, and lack an answered query
only behind `HistoryLimit` later ones: `AnsweredQueriesStay`. `FileInv` gives
`ListedQueriesHaveFiles`: a query of `Target` has its file or gets it, and only
files of queries outside `Target` are removed. `ReaderInv` gives
`MissedQueriesExpired`: the ids a thread has in hand are never those of a query
just being saved (`Fresh`), so a file it misses was removed for good.
`RevivalInv` gives `RevivedByDiagnosis`, and `DueInv` with `PendingInv`
`PendingQueriesWorkedOn`: a record that waits for its diagnosis has a task, or a
section that goes on to create one.

`PipelineProofs`: `TypeCorrect`, `OutputAccepted`, `GeneratedSound`,
`ProviderFailureReported` and `PipelineGeneratesOnce`, the safety half of the
refinement of `Generation`. `PipelineInv` says for each `step` which stages the
trace has (`Place`), that the number of LLM calls leaves room (`Room`), and that
a closed run has a trace that ends in its output (`Answered`).

`TaskIndexProofs`: `TypeCorrect`, `SignatureVouches`, `Fresh` and `NeverBack`.
The heart of `IndexInv` is `SinceCall`: whenever a thread has signed a directory,
whatever was read under an equal signature, in the cache or by another thread,
is at least as new as the directory was when the thread called. It holds because
a signature is always taken before the content it is stored with is read, and
because one that lies between two changes is recognisable unless the two share
a time stamp. `Newest` adds that what the one builder has read is as new as what
was ever shown.

`TranslationProofs`: `TranslationImplementsPipeline`, action by action and for
any graph model, questions and answers of the LLM. What there is to show is that
the stages compute no outcome `Pipeline` does not have: `ErrorsOfThePlan` and
`SelfValidationIsPipelines` bound the codes the two validators report,
`FirstIssueIsOne` that the one chosen is among them, and `LLMStays` is the
invariant that a run keeps its LLM. So `OutputAccepted`, `GeneratedSound` and
`ProviderFailureReported` hold of the detailed run too.

`OnlyKnownGaps` (`[]OnlyKnownGapsBreak`) shows that what the parser accepts the
compiler does not break on. It looks variables up by role, and a role without one
is a `KeyError`; `CompilerHolds` says that a DSL without errors of the parser whose
roles are all on its path or in its aggregate (`Wired`) has a variable for each
role that is looked up. The parser does not see to `Wired`: the builder does
(`BuiltIsWired`) and the assemblers do (`AssembledIsWired`). `GapsInv` says what
each stage hands on, up to the issues the validator may report, one of which no
failure reason stands for.

`AssemblyProofs`: `AssembledPathMeant` (`[]AssembledPathIsMeant`). `StepIsMeant`
says of one step that its edge is one the words mean or the only candidate;
`SegmentIsContext` and `ExtensionIsContext` that these words are a part of the
question's; `AssembledEdges` that the edges of the DSL are those of the path's
steps. `AssembledInv` carries it along the run: before the LLM is asked a second
time the DSL is the one `Assemble` makes of the question as it stands, because
nothing changes the question after its literals are resolved.

`RequirementsReach` (`[]RequirementsReachQuery`), there too. The gate looks at all
operations of the DSL, the compiler at one of each kind: `AllowedSequences` says
that in what the parser accepts no kind but the edges comes twice
(`SoleOperation`). The lemmas named after the clauses give what each form's query
takes from that one, and `OrderReaches`, `LimitReaches`, `AggregateReaches` and
`HopsReach` put the two together. The forms of a traversal have no clause for an
order or a limit, and the parser accepts a DSL of theirs with one; so `Shaped` is
needed, that no such DSL is made, by the builder (`BuiltIsShaped`) or an assembler
(`AssembledIsShaped`, with the measure each assembled aggregate returns).
`ReachInv` carries it along the run, with `GapsInv` and `AssembledInv`.

`AssembledCompiles` (`[]AssembledIsCompiled`), there too, shows that an assembler
never hands out a DSL that is turned down later, though none of them asks the
parser. `Accepted` names what the parser and the compiler's choice of a form look
at, and each assembler is shown to give it: the path is walked from vertex to
vertex by edges that join them (`PlanIsWalked`), a role leads back to the vertex it
was made for (`RolesOfPath`, `PathIsOwn`), a property that was looked up belongs to
its owner (`UniquePropertyIsKnown`, `OwnedIsKnown`), a limit is positive
(`LimitIsPositive`). Roles are made by counting, `v0`, `v1`, ...; that two differ is
taken as `RoleAssumption` up to the longest path there can be, and `PathIsCounted`
shows that none is longer. That the compiler does not break on it is again
`AssembledIsWired` with `CompilerHolds`; `AssembledInv` carries it along the run.

`BoundIsSaid` (`[]QuerySaysWhatIsBound`), there too, follows a condition and a
column from the LLM's answer, or the assembler, to the query. The binder takes no
literal but one of the condition's own owner and property (`LiteralIsOwn`,
`BoundConditions`). The builder makes a condition of the DSL of each of the plan's,
in the four ways the shapes have of placing them (`BuiltKeeps`). The compiler
writes a condition and a column with the variable of its role, and what the query
knows of a variable is the label in the pattern: two roles never share a variable
(`VariablesDiffer`), each role a form looks up has a node, labelled with the
vertex the role is bound to (`RolesReached`), and that is the owner the parser has
held the condition and the column against (`CompiledSays`). A form that looks up
roles needs more of the DSL than the parser asks, a single role or conditions that
come in a list (`Worded`), which the builder and the assemblers see to
(`BuiltIsWorded`, `AssembledIsWorded`). What the validator lets through has the
aliases that were asked for and no other (`ValidatedAliases`), so that a named
path's own columns pass only where no column is asked. `BoundInv` carries it along
the run, with `GapsInv`, `AssembledInv` and `ReachInv`.

The theorems about `Translation` rest on the assumptions the modules state:
`GraphModelAssumption` (finitely many vertices and edges, which have their ends
among them; `None` is no vertex; a metric's aliases come in an order),
`QuestionsAssumption` (retrieval finds vertices, edges and properties of the
model), `AlphabeticalAssumption` and `UnderstandingsAssumption` (what the code
reads as a list is one), `NumberAssumption` (a number read from a text is a
natural number) and `RoleAssumption`.

Only model-checked, and why:

- of `Translation`: `NothingAskedIsLost`. It holds what an assembled query says
  against the words of the question, past all that lies between: which terms the
  code takes for conditions, columns and counts. Whether a term is recognised is
  in the dictionaries (`NamedBy`, `Mentioned`, `Suits`), and for arbitrary ones the
  code promises nothing; that no two columns have one name depends on numbered
  names being different texts, about which the prover knows nothing;
- `ReadyEventuallySettles`, `GoldenStartsEvaluation`, `EveryRequestIsAnswered`,
  `RunEnds` and the fairness half of `GenerationSpec`: liveness
  under fairness and `ENABLED` are beyond the prover.

## 6. Not modelled

Text: prompts, diagnosis wording, rendering, the UI, the text of a query's
clauses. Settings and HTTP transport: a call returns, fails or does not return
in time. Metrics, baselines and fingerprints: nothing acts on them.

Of the generator:

- retrieval's scores and their reranking: similarity of texts; a question has
  its candidates, in an order;
- generation without an LLM: the mock answers are fixed texts for a few
  questions, and the deterministic grounding is asked only then; `Pipeline` has
  the runs;
- the matching of texts with names: which vertices and properties a text names
  is a constant, as is what stands around it in the question (fields of the
  question say which phrases occur);
- conditions on a sub-query, its carried roles, and a two-step aggregate over a
  path: the parser and the compiler take them, but no builder and no assembler
  makes them;
- the loading of the semantic model and its reports: the model is a constant.

`PROJECT.json` gives the reason for each component.

## 7. Plan

Done: the stateful core, and the generator's stages over a small graph schema
with the run that composes them, in the order of section 2.

1. Comparison, as pure operators: rows as sequences or bags by whether order
   counts, the sensitivity the code really computes, with the sentence of
   `testing-agent-design.md:661`; the bracket and quote scan as an automaton.
2. The console's derivation of a task's status from the files of
   `TestingAgent`.
