---------------------------- MODULE TestingAgent ----------------------------
(***************************************************************************)
(* The testing agent (src/services/testing_agent/app): it collects, for    *)
(* one question, the golden answer pushed by the QA agent and the Cypher   *)
(* submissions pushed by the generator, evaluates every submission in a    *)
(* background asyncio task and keeps the outcome in JSON files.            *)
(*                                                                         *)
(* One asyncio event loop runs everything, so the code between two awaits  *)
(* is never interleaved with other code of the service.  Such a section    *)
(* only touches files through a series of write_text calls, and the        *)
(* process can die between any two of them: an action of this module       *)
(* decides the series (variable writes) and WriteFile performs one write   *)
(* at a time, before anything else may run.                                *)
(*                                                                         *)
(* No operation of the service relates two question ids, so the module     *)
(* describes the slice of one id.                                          *)
(***************************************************************************)
EXTENDS Integers, Sequences

CONSTANTS
    Runs,           \* generation_run_id values of the generator
    Bodies,         \* generated Cypher texts (with the prompt snapshot)
    Parses,         \* those the grammar checker accepts
    Answers,        \* query results; a golden is known by its answer
    Submissions,    \* [run, body] requests the generator may send
    FailureReports, \* [run, status, body] non-success reports it may send
    Receipts,       \* [run, question] question receipts it may send
    MaxAttempts,    \* bound on attempt_no
    MaxCrashes,     \* bound on the crashes of the process
    MaxUnreaped,    \* bound on finished tasks whose done-callback is due
    None            \* an absent file or JSON field

(* The statuses whose report is stored without an evaluation attempt. *)
AnyFailureReportOnly == {"service_failed", "clarification_required", "unsupported_query_shape",
                         "generation_failed"}
ReportOnly == {"service_failed", "clarification_required", "unsupported_query_shape"}

(* The non-success statuses the generator's report model admits. *)
FailureStatus == ReportOnly \cup {"generation_failed"}

AttemptNo == 1 .. MaxAttempts

ASSUME BoundsAssumption ==
    MaxAttempts \in Nat /\ MaxCrashes \in Nat /\ MaxUnreaped \in Nat \ {0}

ASSUME RequestsAssumption ==
    /\ Parses \subseteq Bodies
    /\ Submissions \subseteq [run : Runs, body : Bodies]
    /\ \A r \in FailureReports :
          /\ r = [run |-> r.run, status |-> r.status, body |-> r.body]
          /\ r.run \in Runs /\ r.status \in FailureStatus /\ r.body \in Bodies

ASSUME NoneAssumption ==
    /\ None \notin Answers
    /\ \A r \in Receipts : r # None
    /\ \A r \in FailureReports : r # None

-----------------------------------------------------------------------------
(***************************************************************************)
(* Data.                                                                   *)
(***************************************************************************)

(* SubmissionRecord.state; repair_submission_failed is read, never written. *)
State == {"received_submission_only", "ready_to_evaluate", "passed",
          "issue_ticket_created", "tugraph_execution_failed", "semantic_review_invalid"}

(* States in which a pushed golden no longer restarts the evaluation. *)
OnlyPassedIsFinal == {"passed"}
Final == {"passed", "issue_ticket_created"}

(* States in which a scheduled task finds the attempt already dealt with. *)
OnlyErrorsAreSettled == {"semantic_review_invalid", "tugraph_execution_failed"}
Settled == Final \cup {"semantic_review_invalid", "tugraph_execution_failed"}

Score == {0, 1}
Change == {"improved", "regressed", "unchanged"}
Reason == {"grammar_failed", "strict_equal", "semantic_equivalent",
           "execution_failed", "not_equivalent"}

Evaluation == [verdict : {"pass", "fail"}, grammar : Score, accuracy : Score, reason : Reason]
Improvement == [previous : AttemptNo, grammar : Change, accuracy : Change]

(* The execution of a query: "failed", or the rows it returned. *)
Execution == {[status |-> "failed"]} \cup [status : {"success"}, rows : Answers]

Record == [run : Runs,
           generation_status : {"generated", "generation_failed"},
           body : Bodies,
           state : State,
           execution : Execution \cup {None},
           semantic_review : {"pass", "fail", "invalid", None},
           evaluation : Evaluation \cup {None},
           issue_ticket : BOOLEAN,
           improvement : Improvement \cup {None}]

(* An issue ticket carries the golden, the query and its evaluation. *)
Ticket == [golden : Answers, run : Runs, evaluation : Evaluation]

(* An absent field or file is told from a present one. *)
ASSUME AbsentAssumption ==
    /\ None \notin Execution /\ None \notin Evaluation /\ None \notin Improvement
    /\ None \notin Ticket /\ None \notin [no : AttemptNo, record : Record]

(* A record as save_submission and save_generation_failure_submission fill it. *)
NewRecord(run, status, body, state) ==
    [run |-> run, generation_status |-> status, body |-> body, state |-> state,
     execution |-> None, semantic_review |-> None, evaluation |-> None,
     issue_ticket |-> FALSE, improvement |-> None]

(* build_execution_accuracy: score and reason from the two checks. *)
AnyReviewCounts(grammar, strict, semantic) ==
    IF grammar = 0 THEN [score |-> 0, reason |-> "grammar_failed"]
    ELSE [score |-> 1, reason |-> IF strict = "pass" THEN "strict_equal" ELSE "semantic_equivalent"]

BuildExecutionAccuracy(grammar, strict, semantic) ==
    CASE grammar = 0 -> [score |-> 0, reason |-> "grammar_failed"]
      [] grammar # 0 /\ strict = "pass" -> [score |-> 1, reason |-> "strict_equal"]
      [] grammar # 0 /\ strict # "pass" /\ semantic = "pass" ->
            [score |-> 1, reason |-> "semantic_equivalent"]
      [] grammar # 0 /\ strict = "not_run" /\ semantic # "pass" ->
            [score |-> 0, reason |-> "execution_failed"]
      [] OTHER -> [score |-> 0, reason |-> "not_equivalent"]

(* build_evaluation_summary: pass needs both primary metrics. *)
BuildEvaluationSummary(grammar, strict, semantic) ==
    LET accuracy == BuildExecutionAccuracy(grammar, strict, semantic)
    IN  [verdict |-> IF grammar = 1 /\ accuracy.score = 1 THEN "pass" ELSE "fail",
         grammar |-> grammar, accuracy |-> accuracy.score, reason |-> accuracy.reason]

(* compare in _build_improvement_assessment, on numeric scores. *)
CompareScores(previous, current) ==
    IF current > previous THEN "improved"
    ELSE IF current < previous THEN "regressed" ELSE "unchanged"

-----------------------------------------------------------------------------
VARIABLES
    golden,    \* goldens/{id}.json
    receipt,   \* question_receipts/{id}.json
    reports,   \* generation_failures/{id}__{run}.json, per run
    attempts,  \* submission_attempts/{id}__attempt_{n}.json, n = 1 .. Len(attempts)
    latest,    \* submissions/{id}.json, with its attempt_no
    tickets,   \* issue_tickets/ticket-{id}-attempt-{n}.json, per n
    writes,    \* the file writes the running section has still to perform
    tasks,     \* per attempt: the event loop's evaluation tasks
    up,        \* whether the process is running
    crashes    \* how often it died, for the bound MaxCrashes

files == <<golden, receipt, reports, attempts, latest, tickets>>
vars == <<files, writes, tasks, up, crashes>>

(***************************************************************************)
(* The tasks of one attempt: how many wait for the attempt's lock, where   *)
(* the one that holds it is suspended, how many are done with their        *)
(* callback still due, whether _background_tasks has an entry (it is       *)
(* always the newest task), and whether the last task raised.              *)
(***************************************************************************)
Suspended == {"explaining", "executing", "reviewing"}
Tasks == [waiting : Nat, running : Suspended \cup {"idle"}, done : Nat,
          registered : BOOLEAN, raised : BOOLEAN]
NoTasks == [waiting |-> 0, running |-> "idle", done |-> 0,
            registered |-> FALSE, raised |-> FALSE]

Live(t) == t.waiting > 0 \/ t.running # "idle"

(* _schedule_attempt_evaluation: the registry's entry is the newest task, *)
(* which is not done() exactly as long as some task is live.              *)
RegisteredIsLive(t) ==
    IF t.registered THEN t
    ELSE [t EXCEPT !.waiting = @ + 1, !.registered = TRUE, !.raised = FALSE]

Scheduled(t) ==
    IF t.registered /\ Live(t) THEN t
    ELSE [t EXCEPT !.waiting = @ + 1, !.registered = TRUE, !.raised = FALSE]

(* The running task ends, normally or by an exception. *)
Ended(t) == [t EXCEPT !.running = "idle", !.done = @ + 1]
Raised(t) == [Ended(t) EXCEPT !.raised = TRUE]

Init ==
    /\ golden = None
    /\ receipt = None
    /\ reports = [r \in Runs |-> None]
    /\ attempts = <<>>
    /\ latest = None
    /\ tickets = [n \in AttemptNo |-> None]
    /\ writes = <<>>
    /\ tasks = [n \in AttemptNo |-> NoTasks]
    /\ up = TRUE
    /\ crashes = 0

-----------------------------------------------------------------------------
(***************************************************************************)
(* The repository: the writes an operation performs, in order.             *)
(***************************************************************************)
GoldenFile(value) == [file |-> "golden", value |-> value]
ReceiptFile(value) == [file |-> "receipt", value |-> value]
ReportFile(value) == [file |-> "report", value |-> value]
AttemptFile(n, value) == [file |-> "attempt", no |-> n, value |-> value]
LatestFile(n, value) == [file |-> "latest", no |-> n, value |-> value]
TicketFile(n, value) == [file |-> "ticket", no |-> n, value |-> value]

(* _write_submission_record: the latest snapshot first, then the attempt. *)
AttemptBeforeLatest(n, record) == <<AttemptFile(n, record), LatestFile(n, record)>>

CreateWrites(n, record) == <<LatestFile(n, record), AttemptFile(n, record)>>

(* _mutate_submission: the attempt first, then the latest snapshot unless *)
(* that already shows a newer attempt.                                    *)
AlwaysMirrored(n, record) == <<AttemptFile(n, record), LatestFile(n, record)>>

MutateWrites(n, record) ==
    IF latest = None \/ latest.no <= n
    THEN <<AttemptFile(n, record), LatestFile(n, record)>>
    ELSE <<AttemptFile(n, record)>>

(* The writes of a section are due; nothing else runs before they are done. *)
WriteFile ==
    /\ up /\ writes # <<>>
    /\ writes' = Tail(writes)
    /\ LET w == Head(writes)
       IN /\ golden' = IF w.file = "golden" THEN w.value ELSE golden
          /\ receipt' = IF w.file = "receipt" THEN w.value ELSE receipt
          /\ reports' = IF w.file = "report" THEN [reports EXCEPT ![w.value.run] = w.value] ELSE reports
          /\ attempts' = IF w.file # "attempt" THEN attempts
                         ELSE IF w.no \in DOMAIN attempts THEN [attempts EXCEPT ![w.no] = w.value]
                         ELSE Append(attempts, w.value)
          /\ latest' = IF w.file = "latest" THEN [no |-> w.no, record |-> w.value] ELSE latest
          /\ tickets' = IF w.file = "ticket" THEN [tickets EXCEPT ![w.no] = w.value] ELSE tickets
    /\ UNCHANGED <<tasks, up, crashes>>

(* The event loop is free to run the next section. *)
LoopIdle == up /\ writes = <<>>

-----------------------------------------------------------------------------
(***************************************************************************)
(* The HTTP handlers.  Requests may come in any order and any number of    *)
(* times; one that is refused with 409 or recognised as a repetition       *)
(* leaves the state alone.                                                 *)
(***************************************************************************)

(* POST /qa/goldens: store the golden, then, unless the newest submission *)
(* is final, mark it ready and schedule it.  With a latest snapshot whose *)
(* attempt file is missing, update_submission_state raises KeyError after *)
(* the golden has been stored.                                            *)
IngestGolden(g) ==
    /\ LoopIdle
    /\ golden \in {None, g}
    /\ LET reopen == latest # None /\ latest.record.state \notin Final
           n == latest.no
       IN \/ /\ reopen /\ n \in DOMAIN attempts
             /\ writes' = <<GoldenFile(g)>> \o
                    MutateWrites(n, [attempts[n] EXCEPT !.state = "ready_to_evaluate"])
             /\ tasks' = [tasks EXCEPT ![n] = Scheduled(@)]
          \/ /\ ~ (reopen /\ n \in DOMAIN attempts)
             /\ writes' = <<GoldenFile(g)>>
             /\ UNCHANGED tasks
    /\ UNCHANGED <<files, up, crashes>>

(* POST /evaluations/questions: a new run's receipt replaces the old one. *)
IngestQuestionReceived(r) ==
    /\ LoopIdle
    /\ receipt # None => receipt.run # r.run
    /\ writes' = <<ReceiptFile(r)>>
    /\ UNCHANGED <<files, tasks, up, crashes>>

(* The search over the attempt files for one of the same run. *)
EvaluatedRun(run) == \E n \in DOMAIN attempts : attempts[n].run = run /\ attempts[n].evaluation # None
KnownRun(run) == \E n \in DOMAIN attempts : attempts[n].run = run

(* save_submission and save_generation_failure_submission create an attempt *)
(* for a run that has none; before holds the writes made earlier.           *)
CreateUnscheduled(before, run, status, body) ==
    LET n == Len(attempts) + 1
        state == IF golden # None THEN "ready_to_evaluate" ELSE "received_submission_only"
    IN  /\ n \in AttemptNo
        /\ writes' = before \o CreateWrites(n, NewRecord(run, status, body, state))
        /\ UNCHANGED <<files, tasks, up, crashes>>

CreateAttempt(before, run, status, body) ==
    LET n == Len(attempts) + 1
        state == IF golden # None THEN "ready_to_evaluate" ELSE "received_submission_only"
    IN  /\ n \in AttemptNo
        /\ writes' = before \o CreateWrites(n, NewRecord(run, status, body, state))
        /\ tasks' = IF golden # None THEN [tasks EXCEPT ![n] = Scheduled(@)] ELSE tasks
        /\ UNCHANGED <<files, up, crashes>>

(* POST /evaluations/submissions. *)
IngestSubmission(s) ==
    /\ LoopIdle
    /\ ~ KnownRun(s.run)
    /\ CreateAttempt(<<>>, s.run, "generated", s.body)

(* POST /evaluations/generation-failures: every report is stored, once per *)
(* run; generation_failed then becomes an attempt like a submission.  A    *)
(* report that differs from the stored one is refused before that.         *)
IngestGenerationFailure(r) ==
    LET store == IF reports[r.run] = None THEN <<ReportFile(r)>> ELSE <<>>
    IN  /\ LoopIdle
        /\ reports[r.run] \in {None, r}
        /\ \/ /\ r.status = "generation_failed" /\ ~ KnownRun(r.run)
              /\ CreateAttempt(store, r.run, "generation_failed", r.body)
           \/ /\ r.status \in ReportOnly \/ KnownRun(r.run)
              /\ writes' = store
              /\ UNCHANGED <<files, tasks, up, crashes>>

(* GET /evaluations/{id}: a poll reschedules a newest attempt still ready. *)
GetEvaluationStatus ==
    /\ LoopIdle
    /\ latest # None /\ latest.record.state = "ready_to_evaluate"
    /\ tasks' = [tasks EXCEPT ![latest.no] = Scheduled(@)]
    /\ UNCHANGED <<files, writes, up, crashes>>

-----------------------------------------------------------------------------
(***************************************************************************)
(* _evaluate_attempt: the sections between its awaits.                     *)
(***************************************************************************)

(* _previous_evaluated_attempt: the newest earlier attempt with an evaluation. *)
EvaluatedElsewhere(n) == {m \in DOMAIN attempts \ {n} : attempts[m].evaluation # None}
EvaluatedBefore(n) == {m \in 1 .. (n - 1) : m \in DOMAIN attempts /\ attempts[m].evaluation # None}
PreviousEvaluated(n) ==
    CHOOSE m \in EvaluatedBefore(n) : \A k \in EvaluatedBefore(n) : k <= m

(* _build_improvement_assessment. *)
Assessment(n, evaluation) ==
    LET m == PreviousEvaluated(n)
    IN  [previous |-> m,
         grammar |-> CompareScores(attempts[m].evaluation.grammar, evaluation.grammar),
         accuracy |-> CompareScores(attempts[m].evaluation.accuracy, evaluation.accuracy)]

(* save_issue_ticket writes the ticket and links the attempt to it; only   *)
(* then does the state become issue_ticket_created.                        *)
Linked(evaluated) == [evaluated EXCEPT !.issue_ticket = TRUE]
Ticketed(evaluated) == [Linked(evaluated) EXCEPT !.state = "issue_ticket_created"]

StateBeforeTicket(n, evaluated, ticket) ==
    MutateWrites(n, Ticketed(evaluated)) \o <<TicketFile(n, ticket)>> \o MutateWrites(n, Ticketed(evaluated))

TicketWrites(n, evaluated, ticket) ==
    <<TicketFile(n, ticket)>> \o MutateWrites(n, Linked(evaluated)) \o MutateWrites(n, Ticketed(evaluated))

(* The writes that follow the verdict on a record: evaluation, then state, *)
(* with the ticket in between for a failure, then the assessment.          *)
ConcludeWrites(n, record, evaluation) ==
    LET evaluated == [record EXCEPT !.evaluation = evaluation]
        passed == [evaluated EXCEPT !.state = "passed"]
        final == IF evaluation.verdict = "pass" THEN passed ELSE Ticketed(evaluated)
        ticket == [golden |-> golden, run |-> record.run, evaluation |-> evaluation]
        verdict == IF evaluation.verdict = "pass" THEN MutateWrites(n, passed)
                   ELSE TicketWrites(n, evaluated, ticket)
        assess == IF EvaluatedBefore(n) = {} THEN <<>>
                  ELSE MutateWrites(n, [final EXCEPT !.improvement = Assessment(n, evaluation)])
    IN  MutateWrites(n, evaluated) \o verdict \o assess

(* A task takes the attempt's lock and runs to its first await, or to its *)
(* end.  A generation failure needs neither the explainer nor TuGraph.    *)
StartEvaluation(n) ==
    LET t == [tasks[n] EXCEPT !.waiting = @ - 1]
        record == attempts[n]
    IN  /\ LoopIdle
        /\ tasks[n].waiting > 0 /\ tasks[n].running = "idle"
        /\ tasks[n].done < MaxUnreaped
        /\ \/ /\ golden = None \/ n \notin DOMAIN attempts
              /\ tasks' = [tasks EXCEPT ![n] = Raised(t)]
              /\ UNCHANGED writes
           \/ /\ n \in DOMAIN attempts
              /\ record.evaluation # None /\ record.state \in Settled
              /\ tasks' = [tasks EXCEPT ![n] = Ended(t)]
              /\ UNCHANGED writes
           \/ /\ golden # None /\ n \in DOMAIN attempts
              /\ record.evaluation = None \/ record.state \notin Settled
              /\ \/ /\ record.generation_status = "generation_failed"
                    /\ tasks' = [tasks EXCEPT ![n] = Ended(t)]
                    /\ writes' = ConcludeWrites(n, record,
                                     BuildEvaluationSummary(0, "not_run", "not_run"))
                 \/ /\ record.generation_status = "generated"
                    /\ tasks' = [tasks EXCEPT ![n] = [t EXCEPT !.running =
                                    IF record.body \in Parses THEN "executing" ELSE "explaining"]]
                    /\ UNCHANGED writes
        /\ UNCHANGED <<files, up, crashes>>

(* The explainer answers for a query the grammar checker refused, or raises. *)
GrammarExplained(n) ==
    /\ LoopIdle
    /\ tasks[n].running = "explaining"
    /\ \/ /\ tasks' = [tasks EXCEPT ![n] = Raised(@)]
          /\ UNCHANGED writes
       \/ /\ tasks' = [tasks EXCEPT ![n] = Ended(@)]
          /\ writes' = ConcludeWrites(n, attempts[n], BuildEvaluationSummary(0, "not_run", "not_run"))
    /\ UNCHANGED <<files, up, crashes>>

(* TuGraph answers or fails (an exception counts as a failed execution).  *)
(* The execution is stored first; equal answers conclude in this section, *)
(* different ones go to the semantic reviewer.                            *)
QueryExecuted(n, execution) ==
    LET executed == [attempts[n] EXCEPT !.execution = execution]
        store == MutateWrites(n, executed)
    IN  /\ LoopIdle
        /\ tasks[n].running = "executing"
        /\ \/ /\ execution.status = "failed"
              /\ tasks' = [tasks EXCEPT ![n] = Ended(@)]
              /\ writes' = store \o
                     MutateWrites(n, [executed EXCEPT !.state = "tugraph_execution_failed"])
           \/ /\ execution.status = "success" /\ execution.rows = golden
              /\ tasks' = [tasks EXCEPT ![n] = Ended(@)]
              /\ writes' = store \o
                     ConcludeWrites(n, executed, BuildEvaluationSummary(1, "pass", "not_run"))
           \/ /\ execution.status = "success" /\ execution.rows # golden
              /\ tasks' = [tasks EXCEPT ![n].running = "reviewing"]
              /\ writes' = store
        /\ UNCHANGED <<files, up, crashes>>

(* The semantic reviewer returns a judgement, an invalid answer, or raises. *)
SemanticReviewed(n) ==
    /\ LoopIdle
    /\ tasks[n].running = "reviewing"
    /\ \/ /\ tasks' = [tasks EXCEPT ![n] = Raised(@)]
          /\ UNCHANGED writes
       \/ LET reviewed == [attempts[n] EXCEPT !.semantic_review = "invalid"]
          IN /\ tasks' = [tasks EXCEPT ![n] = Ended(@)]
             /\ writes' = MutateWrites(n, reviewed) \o
                    MutateWrites(n, [reviewed EXCEPT !.state = "semantic_review_invalid"])
       \/ \E judgement \in {"pass", "fail"} :
             LET reviewed == [attempts[n] EXCEPT !.semantic_review = judgement]
             IN /\ tasks' = [tasks EXCEPT ![n] = Ended(@)]
                /\ writes' = MutateWrites(n, reviewed) \o
                       ConcludeWrites(n, reviewed, BuildEvaluationSummary(1, "fail", judgement))
    /\ UNCHANGED <<files, up, crashes>>

(* A finished task's done-callback drops the registry entry, whosever it is. *)
TaskDone(n) ==
    /\ LoopIdle
    /\ tasks[n].done > 0
    /\ tasks' = [tasks EXCEPT ![n].done = @ - 1, ![n].registered = FALSE]
    /\ UNCHANGED <<files, writes, up, crashes>>

-----------------------------------------------------------------------------
(* The process dies: tasks and unperformed writes are gone, files stay. *)
Crash ==
    /\ up /\ crashes < MaxCrashes
    /\ up' = FALSE
    /\ crashes' = crashes + 1
    /\ writes' = <<>>
    /\ tasks' = [n \in AttemptNo |-> NoTasks]
    /\ UNCHANGED files

(* resume_pending_evaluations: every attempt file in state ready. *)
NothingToResume == {}
ToResume == {n \in DOMAIN attempts : attempts[n].state = "ready_to_evaluate"}

(* Startup resumes the pending evaluations before it serves requests. *)
Restart ==
    /\ ~ up
    /\ up' = TRUE
    /\ tasks' = [n \in AttemptNo |-> IF n \in ToResume THEN Scheduled(NoTasks) ELSE NoTasks]
    /\ UNCHANGED <<files, writes, crashes>>

-----------------------------------------------------------------------------
Requests ==
    \/ \E g \in Answers : IngestGolden(g)
    \/ \E r \in Receipts : IngestQuestionReceived(r)
    \/ \E s \in Submissions : IngestSubmission(s)
    \/ \E r \in FailureReports : IngestGenerationFailure(r)
    \/ GetEvaluationStatus

Evaluate(n) ==
    \/ StartEvaluation(n)
    \/ GrammarExplained(n)
    \/ \E execution \in Execution : QueryExecuted(n, execution)
    \/ SemanticReviewed(n)

EventLoop ==
    \/ WriteFile
    \/ \E n \in AttemptNo : Evaluate(n) \/ TaskDone(n)

Next == Requests \/ EventLoop \/ Crash \/ Restart

Spec == Init /\ [][Next]_vars

(***************************************************************************)
(* Fairness: the loop performs the writes of a section and the process     *)
(* manager restarts a dead process.  Every awaited call returns or raises  *)
(* (the HTTP clients have timeouts) and asyncio's ready queue is first in, *)
(* first out, so a task's next step and a due callback are not starved by  *)
(* requests that keep interrupting them: strong fairness.  No request is   *)
(* ever assumed to come.                                                   *)
(***************************************************************************)
Fairness ==
    /\ WF_vars(WriteFile)
    /\ WF_vars(Restart)
    /\ \A n \in AttemptNo : SF_vars(Evaluate(n)) /\ SF_vars(TaskDone(n))

FairSpec == Spec /\ Fairness

-----------------------------------------------------------------------------
(***************************************************************************)
(* Properties.  Those marked "crash-free" hold while no crash has torn a   *)
(* section's writes apart; the others hold after any number of crashes.    *)
(***************************************************************************)
Write ==
    [file : {"golden"}, value : Answers]
    \cup [file : {"receipt"}, value : Receipts]
    \cup [file : {"report"}, value : FailureReports]
    \cup [file : {"attempt", "latest"}, no : AttemptNo, value : Record]
    \cup [file : {"ticket"}, no : AttemptNo, value : Ticket]

(* Every file and every task has the shape the code gives it. *)
TypeOK ==
    /\ golden \in Answers \cup {None}
    /\ receipt \in Receipts \cup {None}
    /\ reports \in [Runs -> FailureReports \cup {None}]
    /\ attempts \in Seq(Record) /\ Len(attempts) \in 0 .. MaxAttempts
    /\ latest \in [no : AttemptNo, record : Record] \cup {None}
    /\ tickets \in [AttemptNo -> Ticket \cup {None}]
    /\ writes \in Seq(Write)
    /\ tasks \in [AttemptNo -> Tasks]
    /\ up \in BOOLEAN
    /\ crashes \in 0 .. MaxCrashes

(* A generation run owns at most one attempt, however often its submission *)
(* or failure report is repeated and wherever the process died: the next   *)
(* attempt number and the search for the run read the same files.          *)
RunOwnsOneAttempt ==
    \A m, n \in DOMAIN attempts : attempts[m].run = attempts[n].run => m = n

(* What an attempt's final state claims is on file: a passed attempt has a *)
(* passing evaluation; one with a ticket has a failing one, and the ticket *)
(* file exists and reports that very evaluation against that very golden.  *)
FinalStateIsBacked ==
    \A n \in DOMAIN attempts :
        LET a == attempts[n]
        IN /\ a.state = "passed" => a.evaluation # None /\ a.evaluation.verdict = "pass"
           /\ a.state = "issue_ticket_created" =>
                 /\ a.evaluation # None /\ a.evaluation.verdict = "fail" /\ a.issue_ticket
                 /\ tickets[n] = [golden |-> golden, run |-> a.run, evaluation |-> a.evaluation]

(* The latest snapshot never names an older attempt than the newest one on  *)
(* file: a new attempt is announced there first, so a crash in between      *)
(* leaves a number without a file, which the next submission reuses.        *)
LatestCoversAttempts ==
    attempts # <<>> =>
        latest # None /\ latest.no \in {Len(attempts), Len(attempts) + 1}

(* The reason of an evaluation agrees with the execution and the review     *)
(* stored beside it.                                                        *)
HasEvidence(a) ==
    LET rows == a.execution # None /\ a.execution.status = "success"
    IN CASE a.evaluation.reason = "grammar_failed" ->
              a.body \notin Parses \/ a.generation_status = "generation_failed"
         [] a.evaluation.reason = "strict_equal" -> rows /\ a.execution.rows = golden
         [] a.evaluation.reason = "semantic_equivalent" ->
              rows /\ a.execution.rows # golden /\ a.semantic_review = "pass"
         [] a.evaluation.reason = "not_equivalent" ->
              rows /\ a.execution.rows # golden /\ a.semantic_review = "fail"
         [] OTHER -> FALSE

(* The reason of a final attempt's evaluation agrees with the execution and *)
(* the review stored beside it by other sections: a reviewer is believed    *)
(* only about rows that differ from the golden's.                           *)
VerdictHasEvidence ==
    \A n \in DOMAIN attempts :
        attempts[n].state \in Final => HasEvidence(attempts[n])

(* No attempt waits for an evaluation nobody will perform: while the        *)
(* process serves, every ready attempt has a live task, or its last task    *)
(* raised.  The done-callback may drop a younger task's registration, a     *)
(* pushed golden may reopen an attempt, a restart starts from files only.   *)
ReadyIsScheduled ==
    LoopIdle => \A n \in DOMAIN attempts :
        attempts[n].state = "ready_to_evaluate" => Live(tasks[n]) \/ tasks[n].raised

(* Crash-free: submissions/{id}.json is the newest attempt's record between *)
(* any two sections, although late results of older attempts are stored     *)
(* through the same function.                                               *)
LatestIsNewestAttempt ==
    (crashes = 0 /\ LoopIdle) =>
        IF attempts = <<>> THEN latest = None
        ELSE latest = [no |-> Len(attempts), record |-> attempts[Len(attempts)]]

(* Crash-free: a ticket is on file exactly for the attempts whose verdict   *)
(* is fail, and only they point to one.                                     *)
TicketsMatchVerdicts ==
    (crashes = 0 /\ LoopIdle) => \A n \in AttemptNo :
        LET failed == /\ n \in DOMAIN attempts
                      /\ attempts[n].evaluation # None
                      /\ attempts[n].evaluation.verdict = "fail"
        IN /\ (tickets[n] # None) <=> failed
           /\ n \in DOMAIN attempts => (attempts[n].issue_ticket <=> failed)

(* Crash-free: a generation_failed report is never only filed.  Its run has *)
(* an attempt, so the failure is evaluated and ticketed - although the      *)
(* report is written first and refused reports return in between.           *)
FailureReportBecomesAttempt ==
    (crashes = 0 /\ LoopIdle) => \A r \in Runs :
        (reports[r] # None /\ reports[r].status = "generation_failed") => KnownRun(r)

(* An assessment of attempt n compares the scores of an earlier attempt     *)
(* with those of the record.                                                *)
IsCurrent(n, a) ==
    a.improvement # None =>
        LET b == attempts[a.improvement.previous]
        IN /\ a.improvement.previous < n /\ b.evaluation # None
           /\ a.improvement.grammar = CompareScores(b.evaluation.grammar, a.evaluation.grammar)
           /\ a.improvement.accuracy = CompareScores(b.evaluation.accuracy, a.evaluation.accuracy)

(* Crash-free: an assessment compares the scores that the two attempts      *)
(* still show, though the earlier attempt may be evaluated by another task  *)
(* before, during or after the later one.                                   *)
AssessmentIsCurrent ==
    crashes = 0 => \A n \in DOMAIN attempts : IsCurrent(n, attempts[n])

(* Crash-free: a final attempt is evaluated once.  Repeated goldens, polls  *)
(* and second tasks waiting for its lock never touch it again; only its     *)
(* assessment is still added.                                               *)
FinalAttemptIsFrozen ==
    [][\A n \in DOMAIN attempts : (crashes = 0 /\ attempts[n].state \in Final) =>
          /\ attempts'[n] = [attempts[n] EXCEPT !.improvement = attempts'[n].improvement]
          /\ attempts[n].improvement \in {None, attempts'[n].improvement}]_vars

InState(n, states) == n \in DOMAIN attempts /\ attempts[n].state \in states

(* A ready attempt is eventually evaluated, fails in TuGraph or in review,  *)
(* or its task raises - also when the process died and restarted meanwhile. *)
ReadyEventuallySettles ==
    \A n \in AttemptNo :
        InState(n, {"ready_to_evaluate"}) ~> (InState(n, Settled) \/ tasks[n].raised)

(* Golden and attempt meet in either order, beside polls and repetitions:   *)
(* an attempt whose question has its golden on file is evaluated, unless    *)
(* its task raises.  Two kinds of attempt are left waiting: one passed over *)
(* because a newer one existed when the golden came, as a golden starts the *)
(* newest only, and one the process died over between storing the golden    *)
(* and marking the attempt ready.                                           *)
LeftWaiting(n) ==
    LoopIdle /\ InState(n, {"received_submission_only"}) /\ (n < Len(attempts) \/ crashes > 0)

GoldenStartsEvaluation ==
    \A n \in AttemptNo :
        (n \in DOMAIN attempts /\ golden # None)
            ~> (InState(n, Settled) \/ tasks[n].raised \/ LeftWaiting(n))

-----------------------------------------------------------------------------
(* docs/testing-agent-design.md, line 845, says that a submission whose     *)
(* golden has arrived goes on to its evaluation.  The code does not keep    *)
(* this for an attempt that was not the newest one when the golden came.    *)
GoldenReleasesSubmissions ==
    \A n \in AttemptNo :
        (golden # None /\ InState(n, {"received_submission_only"}))
            ~> InState(n, State \ {"received_submission_only"})
=============================================================================
