------------------------- MODULE TestingAgentProofs -------------------------
(***************************************************************************)
(* Proofs about TestingAgent, for every set of requests and every bound.   *)
(***************************************************************************)
EXTENDS TestingAgent, SequenceTheorems, WellFoundedInduction, TLAPS

(***************************************************************************)
(* The data the service builds is well-typed.                              *)
(***************************************************************************)
LEMMA NewRecordType ==
    ASSUME NEW run \in Runs, NEW status \in {"generated", "generation_failed"},
           NEW body \in Bodies, NEW state \in State
    PROVE  NewRecord(run, status, body, state) \in Record
  BY DEF NewRecord, Record

LEMMA EvaluationType ==
    ASSUME NEW grammar \in Score, NEW strict \in {"pass", "fail", "not_run"},
           NEW semantic \in {"pass", "fail", "not_run"}
    PROVE  BuildEvaluationSummary(grammar, strict, semantic) \in Evaluation
  BY DEF BuildEvaluationSummary, BuildExecutionAccuracy, Evaluation, Score, Reason

LEMMA CompareType ==
    ASSUME NEW a, NEW b
    PROVE  CompareScores(a, b) \in Change
  BY DEF CompareScores, Change

(* The writes that update attempt n of a run: they touch no other attempt  *)
(* file and keep the run.                                                  *)
Update(n, run) == {w \in Write : w.file = "attempt" => w.no = n /\ w.value.run = run}

LEMMA UpdateIsWrite ==
    ASSUME NEW n, NEW run, NEW s \in Seq(Update(n, run))
    PROVE  s \in Seq(Write)
  BY SeqMonotonic DEF Update

(* Single files and short series of files are writes. *)
LEMMA FileType ==
    ASSUME NEW n \in AttemptNo, NEW record \in Record
    PROVE  /\ AttemptFile(n, record) \in Write /\ AttemptFile(n, record) \in Update(n, record.run)
           /\ LatestFile(n, record) \in Write /\ LatestFile(n, record) \in Update(n, record.run)
  <1>1. AttemptFile(n, record) \in Write /\ LatestFile(n, record) \in Write
    BY DEF AttemptFile, LatestFile, Write
  <1>2. /\ AttemptFile(n, record).no = n /\ AttemptFile(n, record).value = record
        /\ LatestFile(n, record).file = "latest"
    BY DEF AttemptFile, LatestFile
  <1> QED
    BY <1>1, <1>2 DEF Update

LEMMA MutateWritesUpdate ==
    ASSUME NEW n \in AttemptNo, NEW record \in Record, NEW run, record.run = run
    PROVE  MutateWrites(n, record) \in Seq(Update(n, run))
  <1> DEFINE U == Update(n, run)
  <1>1. AttemptFile(n, record) \in U /\ LatestFile(n, record) \in U
    BY FileType
  <1> HIDE DEF U
  <1>2. MutateWrites(n, record) \in Seq(U)
    BY <1>1 DEF MutateWrites
  <1> QED BY <1>2 DEF U

LEMMA MutateWritesType ==
    ASSUME NEW n \in AttemptNo, NEW record \in Record
    PROVE  MutateWrites(n, record) \in Seq(Write)
  BY MutateWritesUpdate, UpdateIsWrite

LEMMA CreateWritesType ==
    ASSUME NEW n \in AttemptNo, NEW record \in Record
    PROVE  CreateWrites(n, record) \in Seq(Write)
  BY FileType DEF CreateWrites

(* A non-empty set of integers with an upper bound has a greatest element: *)
(* the distances to the bound have a least one.                            *)
LEMMA GreatestElement ==
    ASSUME NEW b \in Int, NEW S, S # {}, \A m \in S : m \in Int /\ m <= b
    PROVE  \E m \in S : \A k \in S : k <= m
  <1> DEFINE D == {b - m : m \in S}
  <1>1. D # {} /\ D \subseteq Nat
    OBVIOUS
  <1>2. PICK d \in D : \A e \in D : ~ (<<e, d>> \in OpToRel(<, Nat))
    <2> HIDE DEF D
    <2> QED BY <1>1, NatLessThanWellFounded, WFMin
  <1>3. PICK m \in S : d = b - m
    OBVIOUS
  <1>4. ASSUME NEW k \in S PROVE k <= m
    <2>1. ~ (<<b - k, d>> \in OpToRel(<, Nat))
      BY <1>2
    <2>2. ~ (b - k < d)
      BY <2>1, <1>1 DEF OpToRel
    <2> QED BY <2>2, <1>3
  <1> QED BY <1>4

(* An earlier attempt is found whenever one has been evaluated. *)
LEMMA PreviousEvaluatedType ==
    ASSUME NEW n \in AttemptNo, EvaluatedBefore(n) # {}
    PROVE  PreviousEvaluated(n) \in EvaluatedBefore(n)
  <1>1. \E m \in EvaluatedBefore(n) : \A k \in EvaluatedBefore(n) : k <= m
    <2>1. \A m \in EvaluatedBefore(n) : m \in Int /\ m <= n
      BY DEF EvaluatedBefore, AttemptNo
    <2>2. n \in Int
      BY DEF AttemptNo
    <2> HIDE DEF EvaluatedBefore
    <2> QED BY <2>1, <2>2, GreatestElement
  <1> QED
    BY <1>1 DEF PreviousEvaluated

LEMMA AssessmentType ==
    ASSUME NEW n \in AttemptNo, EvaluatedBefore(n) # {}, NEW evaluation \in Evaluation
    PROVE  Assessment(n, evaluation) \in Improvement
  <1>1. PreviousEvaluated(n) \in AttemptNo
    BY PreviousEvaluatedType, BoundsAssumption DEF EvaluatedBefore, AttemptNo
  <1> QED
    BY <1>1, CompareType DEF Assessment, Improvement

(* Concluding an evaluation updates its own attempt only. *)
LEMMA ConcludeWritesUpdate ==
    ASSUME golden \in Answers, NEW n \in AttemptNo,
           NEW record \in Record, NEW evaluation \in Evaluation
    PROVE  ConcludeWrites(n, record, evaluation) \in Seq(Update(n, record.run))
  <1> DEFINE U == Update(n, record.run)
             evaluated == [record EXCEPT !.evaluation = evaluation]
             passed == [evaluated EXCEPT !.state = "passed"]
             linked == Linked(evaluated)
             ticketed == Ticketed(evaluated)
             final == IF evaluation.verdict = "pass" THEN passed ELSE ticketed
             ticket == [golden |-> golden, run |-> record.run, evaluation |-> evaluation]
             verdict == IF evaluation.verdict = "pass" THEN MutateWrites(n, passed)
                        ELSE <<TicketFile(n, ticket)>> \o MutateWrites(n, linked)
                                 \o MutateWrites(n, ticketed)
             assessed == [final EXCEPT !.improvement = Assessment(n, evaluation)]
             assess == IF EvaluatedBefore(n) = {} THEN <<>> ELSE MutateWrites(n, assessed)
  <1>1. /\ evaluated \in Record /\ passed \in Record /\ linked \in Record
        /\ ticketed \in Record /\ final \in Record
    BY DEF Record, State, Linked, Ticketed
  <1>11. /\ evaluated.run = record.run /\ passed.run = record.run /\ linked.run = record.run
         /\ ticketed.run = record.run /\ final.run = record.run
    BY DEF Record, Linked, Ticketed
  <1>2. EvaluatedBefore(n) # {} => assessed \in Record /\ assessed.run = record.run
    <2> HIDE DEF final
    <2> QED BY <1>1, <1>11, AssessmentType DEF Record
  <1>3. <<TicketFile(n, ticket)>> \in Seq(U)
    <2>1. ticket \in Ticket
      BY DEF Ticket, Record
    <2>2. TicketFile(n, ticket) \in Write /\ TicketFile(n, ticket).file = "ticket"
      BY <2>1 DEF TicketFile, Write
    <2>3. TicketFile(n, ticket) \in U
      BY <2>2 DEF Update
    <2> QED BY <2>3
  <1> HIDE DEF U, evaluated, passed, linked, ticketed, final, ticket, assessed
  <1>4. MutateWrites(n, linked) \in Seq(U) /\ MutateWrites(n, ticketed) \in Seq(U)
        /\ MutateWrites(n, passed) \in Seq(U) /\ MutateWrites(n, evaluated) \in Seq(U)
    BY <1>1, <1>11, MutateWritesUpdate DEF U
  <1>5. <<TicketFile(n, ticket)>> \o MutateWrites(n, linked) \in Seq(U)
    BY <1>3, <1>4, ConcatProperties
  <1>6. verdict \in Seq(U)
    BY <1>4, <1>5, ConcatProperties
  <1>7. assess \in Seq(U)
    <2>1. EvaluatedBefore(n) # {} => MutateWrites(n, assessed) \in Seq(U)
      BY <1>2, MutateWritesUpdate DEF U
    <2> QED BY <2>1, EmptySeq
  <1>8. ConcludeWrites(n, record, evaluation) = MutateWrites(n, evaluated) \o verdict \o assess
    BY DEF ConcludeWrites, TicketWrites, evaluated, passed, linked, ticketed, final, ticket, assessed
  <1> HIDE DEF verdict, assess
  <1>9. MutateWrites(n, evaluated) \o verdict \in Seq(U)
    BY <1>4, <1>6, ConcatProperties
  <1> QED BY <1>7, <1>8, <1>9, ConcatProperties DEF U

LEMMA ConcludeWritesType ==
    ASSUME golden \in Answers, NEW n \in AttemptNo,
           NEW record \in Record, NEW evaluation \in Evaluation
    PROVE  ConcludeWrites(n, record, evaluation) \in Seq(Write)
  BY ConcludeWritesUpdate, UpdateIsWrite

(***************************************************************************)
(* Type correctness.                                                       *)
(***************************************************************************)
LEMMA TasksType ==
    ASSUME NEW t \in Tasks
    PROVE  Scheduled(t) \in Tasks /\ Ended(t) \in Tasks /\ Raised(t) \in Tasks
  <1>0. t.waiting + 1 \in Nat /\ t.done + 1 \in Nat
    BY DEF Tasks
  <1>1. ASSUME NEW k \in Nat
        PROVE  [t EXCEPT !.waiting = k, !.registered = TRUE, !.raised = FALSE] \in Tasks
    BY DEF Tasks
  <1>2. Scheduled(t) \in Tasks
    BY <1>0, <1>1 DEF Scheduled
  <1>3. Ended(t) \in Tasks
    <2>1. ASSUME NEW k \in Nat PROVE [t EXCEPT !.running = "idle", !.done = k] \in Tasks
      BY DEF Tasks
    <2> QED BY <1>0, <2>1 DEF Ended
  <1>4. Raised(t) \in Tasks
    BY <1>3 DEF Raised, Tasks
  <1> QED BY <1>2, <1>3, <1>4

LEMMA AttemptDomain ==
    ASSUME TypeOK
    PROVE  /\ DOMAIN attempts = 1 .. Len(attempts) /\ DOMAIN attempts \subseteq AttemptNo
           /\ \A n \in DOMAIN attempts : attempts[n] \in Record
  BY BoundsAssumption DEF TypeOK, AttemptNo

LEMMA InitType == Init => TypeOK
  <1> SUFFICES ASSUME Init PROVE TypeOK
    OBVIOUS
  <1>1. NoTasks \in Tasks
    BY DEF NoTasks, Tasks
  <1>2. tasks \in [AttemptNo -> Tasks]
    BY <1>1 DEF Init
  <1>3. Len(attempts) \in 0 .. MaxAttempts /\ crashes \in 0 .. MaxCrashes
    BY BoundsAssumption DEF Init
  <1>4. attempts \in Seq(Record) /\ writes \in Seq(Write)
    BY EmptySeq DEF Init
  <1> QED
    BY <1>2, <1>3, <1>4 DEF Init, TypeOK

(* One file write keeps every file well-typed: a file of a new attempt is  *)
(* within the bound, since its number is.                                  *)
LEMMA WriteFileType ==
    ASSUME TypeOK, WriteFile
    PROVE  TypeOK'
  <1> DEFINE w == Head(writes)
  <1>1. w \in Write /\ writes' \in Seq(Write)
    BY HeadTailProperties DEF TypeOK, WriteFile
  <1>2. CASE w.file = "golden"
    <2>1. w.value \in Answers
      BY <1>1, <1>2 DEF Write
    <2> QED BY <1>1, <1>2, <2>1 DEF TypeOK, WriteFile
  <1>3. CASE w.file = "receipt"
    <2>1. w.value \in Receipts
      BY <1>1, <1>3 DEF Write
    <2> QED BY <1>1, <1>3, <2>1 DEF TypeOK, WriteFile
  <1>4. CASE w.file = "report"
    <2>1. w.value \in FailureReports /\ w.value.run \in Runs
      BY <1>1, <1>4, RequestsAssumption DEF Write
    <2> QED BY <1>1, <1>4, <2>1 DEF TypeOK, WriteFile
  <1>5. CASE w.file = "attempt"
    <2>1. w.no \in AttemptNo /\ w.value \in Record
      BY <1>1, <1>5 DEF Write
    <2>2. attempts' \in Seq(Record) /\ Len(attempts') \in 0 .. MaxAttempts
      <3>1. CASE w.no \in DOMAIN attempts
        <4>1. attempts' = [attempts EXCEPT ![w.no] = w.value]
          BY <1>5, <3>1 DEF WriteFile
        <4> HIDE DEF w
        <4> QED BY <2>1, <3>1, <4>1, ExceptSeq, LenProperties DEF TypeOK
      <3>2. CASE w.no \notin DOMAIN attempts
        <4>1. attempts' = Append(attempts, w.value)
          BY <1>5, <3>2 DEF WriteFile
        <4>2. Len(attempts) + 1 <= MaxAttempts
          BY <2>1, <3>2, AttemptDomain, BoundsAssumption DEF TypeOK, AttemptNo
        <4> HIDE DEF w
        <4> QED BY <2>1, <4>1, <4>2, AppendProperties, BoundsAssumption DEF TypeOK
      <3> QED BY <3>1, <3>2
    <2> QED BY <1>1, <1>5, <2>2 DEF TypeOK, WriteFile
  <1>6. CASE w.file = "latest"
    <2>1. w.no \in AttemptNo /\ w.value \in Record
      BY <1>1, <1>6 DEF Write
    <2> QED BY <1>1, <1>6, <2>1 DEF TypeOK, WriteFile
  <1>7. CASE w.file = "ticket"
    <2>1. w.no \in AttemptNo /\ w.value \in Ticket
      BY <1>1, <1>7 DEF Write
    <2> QED BY <1>1, <1>7, <2>1 DEF TypeOK, WriteFile
  <1> QED
    BY <1>1, <1>2, <1>3, <1>4, <1>5, <1>6, <1>7 DEF Write

(* A section that changes only the pending writes and the tasks is type    *)
(* correct when those two are.                                             *)
LEMMA SectionType ==
    ASSUME TypeOK, UNCHANGED <<files, up, crashes>>,
           writes' \in Seq(Write), tasks' \in [AttemptNo -> Tasks]
    PROVE  TypeOK'
  BY DEF TypeOK, files

LEMMA GoldenType ==
    ASSUME TypeOK, NEW g \in Answers, IngestGolden(g)
    PROVE  TypeOK'
  <1>1. <<GoldenFile(g)>> \in Seq(Write)
    <2>1. GoldenFile(g) \in Write
      BY DEF GoldenFile, Write
    <2> QED BY <2>1
  <1>2. CASE writes' = <<GoldenFile(g)>> /\ UNCHANGED tasks
    BY <1>1, <1>2, SectionType DEF IngestGolden, TypeOK
  <1>3. ASSUME latest.no \in DOMAIN attempts,
               writes' = <<GoldenFile(g)>> \o MutateWrites(latest.no,
                             [attempts[latest.no] EXCEPT !.state = "ready_to_evaluate"]),
               tasks' = [tasks EXCEPT ![latest.no] = Scheduled(@)]
        PROVE  TypeOK'
    <2>1. latest.no \in AttemptNo /\ attempts[latest.no] \in Record
      BY <1>3, AttemptDomain
    <2>2. [attempts[latest.no] EXCEPT !.state = "ready_to_evaluate"] \in Record
      BY <2>1 DEF Record, State
    <2>3. writes' \in Seq(Write)
      BY <1>1, <1>3, <2>1, <2>2, MutateWritesType, ConcatProperties
    <2>4. tasks' \in [AttemptNo -> Tasks]
      BY <1>3, <2>1, TasksType DEF TypeOK
    <2> QED BY <2>3, <2>4, SectionType DEF IngestGolden
  <1> QED
    BY <1>2, <1>3 DEF IngestGolden

LEMMA CreateAttemptType ==
    ASSUME TypeOK, NEW before \in Seq(Write), NEW run \in Runs,
           NEW status \in {"generated", "generation_failed"}, NEW body \in Bodies,
           CreateAttempt(before, run, status, body)
    PROVE  TypeOK'
  <1> DEFINE n == Len(attempts) + 1
             state == IF golden # None THEN "ready_to_evaluate" ELSE "received_submission_only"
  <1>1. n \in AttemptNo
    BY DEF CreateAttempt
  <1>2. NewRecord(run, status, body, state) \in Record
    BY NewRecordType DEF State
  <1>3. writes' \in Seq(Write)
    <2>1. writes' = before \o CreateWrites(n, NewRecord(run, status, body, state))
      BY DEF CreateAttempt
    <2> HIDE DEF n, state
    <2> QED BY <1>1, <1>2, <2>1, CreateWritesType, ConcatProperties
  <1>4. tasks' \in [AttemptNo -> Tasks]
    BY <1>1, TasksType DEF CreateAttempt, TypeOK
  <1> QED
    BY <1>3, <1>4, SectionType DEF CreateAttempt

LEMMA FailureType ==
    ASSUME TypeOK, NEW r \in FailureReports, IngestGenerationFailure(r)
    PROVE  TypeOK'
  <1> DEFINE store == IF reports[r.run] = None THEN <<ReportFile(r)>> ELSE <<>>
  <1>1. store \in Seq(Write)
    <2>1. ReportFile(r) \in Write
      BY DEF ReportFile, Write
    <2> QED BY <2>1, EmptySeq
  <1>2. CASE CreateAttempt(store, r.run, "generation_failed", r.body)
    <2> HIDE DEF store
    <2> QED BY <1>1, <1>2, CreateAttemptType, RequestsAssumption
  <1>3. CASE writes' = store /\ UNCHANGED <<files, tasks, up, crashes>>
    BY <1>1, <1>3, SectionType DEF TypeOK
  <1> QED
    BY <1>2, <1>3 DEF IngestGenerationFailure

(* The client's requests. *)
LEMMA RequestsType ==
    ASSUME TypeOK, Requests
    PROVE  TypeOK'
  <1>1. ASSUME NEW r \in Receipts, IngestQuestionReceived(r) PROVE TypeOK'
    <2>1. ReceiptFile(r) \in Write
      BY DEF ReceiptFile, Write
    <2>2. writes' \in Seq(Write)
      BY <1>1, <2>1 DEF IngestQuestionReceived
    <2> QED BY <1>1, <2>2, SectionType DEF IngestQuestionReceived, TypeOK
  <1>2. ASSUME NEW s \in Submissions, IngestSubmission(s) PROVE TypeOK'
    <2>1. s.run \in Runs /\ s.body \in Bodies
      BY RequestsAssumption
    <2> QED BY <1>2, <2>1, CreateAttemptType, EmptySeq DEF IngestSubmission
  <1>3. ASSUME GetEvaluationStatus PROVE TypeOK'
    <2>1. tasks' \in [AttemptNo -> Tasks]
      BY <1>3, TasksType DEF GetEvaluationStatus, TypeOK
    <2> QED BY <1>3, <2>1, SectionType DEF GetEvaluationStatus, TypeOK
  <1> QED
    BY <1>1, <1>2, <1>3, GoldenType, FailureType DEF Requests

(* The evaluation's sections.  A missing file never reaches a record field: *)
(* the task that finds none raises.                                         *)
LEMMA StartType ==
    ASSUME TypeOK, NEW n \in AttemptNo, StartEvaluation(n)
    PROVE  TypeOK'
  <1> DEFINE t == [tasks[n] EXCEPT !.waiting = @ - 1]
  <1>1. t \in Tasks
    <2>1. tasks[n] \in Tasks /\ tasks[n].waiting - 1 \in Nat
      BY DEF TypeOK, StartEvaluation, Tasks
    <2>2. ASSUME NEW k \in Nat PROVE [tasks[n] EXCEPT !.waiting = k] \in Tasks
      BY <2>1 DEF Tasks
    <2> QED BY <2>1, <2>2
  <1>2. Ended(t) \in Tasks /\ Raised(t) \in Tasks
    BY <1>1, TasksType
  <1>3. \A pc \in Suspended : [t EXCEPT !.running = pc] \in Tasks
    BY <1>1 DEF Tasks
  <1> HIDE DEF t
  <1>4. CASE tasks' = [tasks EXCEPT ![n] = Raised(t)] /\ UNCHANGED writes
    BY <1>2, <1>4, SectionType DEF TypeOK, StartEvaluation
  <1>5. CASE tasks' = [tasks EXCEPT ![n] = Ended(t)] /\ UNCHANGED writes
    BY <1>2, <1>5, SectionType DEF TypeOK, StartEvaluation
  <1>6. CASE /\ golden # None /\ n \in DOMAIN attempts
             /\ tasks' = [tasks EXCEPT ![n] = Ended(t)]
             /\ writes' = ConcludeWrites(n, attempts[n],
                             BuildEvaluationSummary(0, "not_run", "not_run"))
    <2>1. golden \in Answers /\ attempts[n] \in Record
      BY <1>6, AttemptDomain DEF TypeOK
    <2>2. BuildEvaluationSummary(0, "not_run", "not_run") \in Evaluation
      BY EvaluationType DEF Score
    <2>3. writes' \in Seq(Write)
      BY <1>6, <2>1, <2>2, ConcludeWritesType
    <2> QED BY <1>2, <1>6, <2>3, SectionType DEF TypeOK, StartEvaluation
  <1>7. CASE \E pc \in Suspended : tasks' = [tasks EXCEPT ![n] = [t EXCEPT !.running = pc]]
                                    /\ UNCHANGED writes
    BY <1>3, <1>7, SectionType DEF TypeOK, StartEvaluation
  <1> QED
    BY <1>4, <1>5, <1>6, <1>7 DEF StartEvaluation, t, Suspended

(* What a suspended task can rely on: an attempt and a golden are on file. *)
Suspension ==
    \A n \in AttemptNo :
        tasks[n].running # "idle" => golden # None /\ n \in DOMAIN attempts

LEMMA ResumeType ==
    ASSUME TypeOK, Suspension, NEW n \in AttemptNo,
           GrammarExplained(n) \/ (\E execution \in Execution : QueryExecuted(n, execution))
               \/ SemanticReviewed(n)
    PROVE  TypeOK'
  <1>1. /\ golden \in Answers /\ n \in DOMAIN attempts /\ attempts[n] \in Record
    BY AttemptDomain DEF TypeOK, Suspension, GrammarExplained, QueryExecuted, SemanticReviewed
  <1>2. /\ Ended(tasks[n]) \in Tasks /\ Raised(tasks[n]) \in Tasks
        /\ [tasks[n] EXCEPT !.running = "reviewing"] \in Tasks
    <2>1. tasks[n] \in Tasks
      BY DEF TypeOK
    <2> QED BY <2>1, TasksType DEF Tasks, Suspended
  <1>3. ASSUME writes' \in Seq(Write),
               \E t \in Tasks : tasks' = [tasks EXCEPT ![n] = t],
               UNCHANGED <<files, up, crashes>>
        PROVE  TypeOK'
    BY <1>3, SectionType DEF TypeOK
  <1>4. \A g \in Score, strict \in {"pass", "fail", "not_run"}, semantic \in {"pass", "fail", "not_run"} :
           \A record \in Record :
              ConcludeWrites(n, record, BuildEvaluationSummary(g, strict, semantic)) \in Seq(Write)
    BY <1>1, EvaluationType, ConcludeWritesType
  <1>5. ASSUME GrammarExplained(n) PROVE TypeOK'
    <2>1. writes' \in Seq(Write)
      BY <1>1, <1>4, <1>5 DEF GrammarExplained, Score, TypeOK
    <2> QED BY <1>2, <1>3, <1>5, <2>1 DEF GrammarExplained
  <1>6. ASSUME NEW execution \in Execution, QueryExecuted(n, execution) PROVE TypeOK'
    <2> DEFINE executed == [attempts[n] EXCEPT !.execution = execution]
    <2>1. executed \in Record /\ [executed EXCEPT !.state = "tugraph_execution_failed"] \in Record
      BY <1>1 DEF Record, State
    <2> HIDE DEF executed
    <2>2. MutateWrites(n, executed) \in Seq(Write)
          /\ MutateWrites(n, [executed EXCEPT !.state = "tugraph_execution_failed"]) \in Seq(Write)
          /\ ConcludeWrites(n, executed, BuildEvaluationSummary(1, "pass", "not_run")) \in Seq(Write)
      BY <1>4, <2>1, MutateWritesType DEF Score
    <2>3. writes' \in Seq(Write)
      BY <1>6, <2>2, ConcatProperties DEF QueryExecuted, executed
    <2> QED BY <1>2, <1>3, <1>6, <2>3 DEF QueryExecuted
  <1>7. ASSUME SemanticReviewed(n) PROVE TypeOK'
    <2>1. \A judgement \in {"pass", "fail", "invalid"} :
             [attempts[n] EXCEPT !.semantic_review = judgement] \in Record
      BY <1>1 DEF Record
    <2>2. \A record \in Record : [record EXCEPT !.state = "semantic_review_invalid"] \in Record
      BY DEF Record, State
    <2>3. CASE tasks' = [tasks EXCEPT ![n] = Raised(@)] /\ UNCHANGED writes
      BY <1>2, <1>3, <1>7, <2>3 DEF SemanticReviewed, TypeOK
    <2> DEFINE invalid == [attempts[n] EXCEPT !.semantic_review = "invalid"]
    <2>4. CASE /\ tasks' = [tasks EXCEPT ![n] = Ended(@)]
               /\ writes' = MutateWrites(n, invalid) \o
                      MutateWrites(n, [invalid EXCEPT !.state = "semantic_review_invalid"])
      <3>1. invalid \in Record /\ [invalid EXCEPT !.state = "semantic_review_invalid"] \in Record
        BY <2>1, <2>2
      <3> HIDE DEF invalid
      <3>2. writes' \in Seq(Write)
        BY <2>4, <3>1, MutateWritesType, ConcatProperties
      <3> QED BY <1>2, <1>3, <1>7, <2>4, <3>2 DEF SemanticReviewed
    <2>5. ASSUME NEW judgement \in {"pass", "fail"},
                 tasks' = [tasks EXCEPT ![n] = Ended(@)],
                 writes' = MutateWrites(n, [attempts[n] EXCEPT !.semantic_review = judgement]) \o
                       ConcludeWrites(n, [attempts[n] EXCEPT !.semantic_review = judgement],
                                      BuildEvaluationSummary(1, "fail", judgement))
          PROVE  TypeOK'
      <3> DEFINE reviewed == [attempts[n] EXCEPT !.semantic_review = judgement]
      <3>1. reviewed \in Record
        BY <2>1
      <3> HIDE DEF reviewed
      <3>2. MutateWrites(n, reviewed) \in Seq(Write)
            /\ ConcludeWrites(n, reviewed, BuildEvaluationSummary(1, "fail", judgement)) \in Seq(Write)
        BY <1>4, <3>1, MutateWritesType DEF Score
      <3>3. writes' \in Seq(Write)
        BY <2>5, <3>2, ConcatProperties DEF reviewed
      <3> QED BY <1>2, <1>3, <1>7, <2>5, <3>3 DEF SemanticReviewed
    <2> QED
      BY <1>7, <2>3, <2>4, <2>5 DEF SemanticReviewed
  <1> QED
    BY <1>5, <1>6, <1>7

(* A file, once there, stays: the golden is never removed, nor an attempt. *)
LEMMA FilesGrow ==
    ASSUME TypeOK, TypeOK', [Next]_vars
    PROVE  /\ golden # None => golden' # None
           /\ DOMAIN attempts \subseteq DOMAIN attempts'
  <1>1. CASE WriteFile
    <2> DEFINE w == Head(writes)
    <2>1. w \in Write
      BY <1>1, HeadTailProperties DEF WriteFile, TypeOK
    <2>2. w.file = "golden" => w.value # None
      BY <2>1, NoneAssumption DEF Write
    <2>3. golden # None => golden' # None
      BY <1>1, <2>2 DEF WriteFile
    <2>4. CASE w.file = "attempt" /\ w.no \notin DOMAIN attempts
      <3>1. attempts' = Append(attempts, w.value) /\ w.value \in Record
        BY <1>1, <2>1, <2>4 DEF WriteFile, Write
      <3>2. Len(attempts') = Len(attempts) + 1
        BY <3>1, AppendProperties DEF TypeOK
      <3> QED BY <2>3, <3>2 DEF TypeOK
    <2>5. CASE ~ (w.file = "attempt" /\ w.no \notin DOMAIN attempts)
      BY <1>1, <2>3, <2>5 DEF WriteFile
    <2> QED BY <2>4, <2>5
  <1>2. CASE ~ WriteFile
    BY <1>2 DEF Next, vars, files, Requests, IngestGolden, IngestQuestionReceived, IngestSubmission,
         IngestGenerationFailure, CreateAttempt, GetEvaluationStatus, EventLoop, Evaluate,
         StartEvaluation, GrammarExplained, QueryExecuted, SemanticReviewed, TaskDone, Crash, Restart
  <1> QED BY <1>1, <1>2

(* No operation but the start of an evaluation suspends a task. *)
LEMMA OnlyStartSuspends ==
    ASSUME TypeOK, [Next]_vars, NEW n \in AttemptNo,
           tasks'[n].running # "idle", tasks[n].running = "idle"
    PROVE  golden # None /\ n \in DOMAIN attempts
  <1>1. \A t : /\ t \in Tasks => Scheduled(t).running = t.running
               /\ t \in Tasks => Ended(t).running = "idle" /\ Raised(t).running = "idle"
    BY DEF Scheduled, Ended, Raised, Tasks
  <1>2. tasks \in [AttemptNo -> Tasks] /\ NoTasks \in Tasks /\ NoTasks.running = "idle"
    BY DEF TypeOK, NoTasks, Tasks
  <1>3. CASE StartEvaluation(n)
    <2> DEFINE t == [tasks[n] EXCEPT !.waiting = @ - 1]
    <2>1. Ended(t).running = "idle" /\ Raised(t).running = "idle"
      BY <1>2 DEF Ended, Raised, Tasks
    <2> QED BY <1>2, <1>3, <2>1 DEF StartEvaluation
  <1>4. CASE \E m \in AttemptNo : \E t : m # n /\ tasks' = [tasks EXCEPT ![m] = t]
    BY <1>2, <1>4
  <1>5. CASE \E m \in AttemptNo : tasks' = [tasks EXCEPT ![m] = Scheduled(@)]
    BY <1>1, <1>2, <1>5
  <1>6. CASE tasks' = tasks
    BY <1>6
  <1>7. CASE Requests
    BY <1>4, <1>5, <1>6, <1>7, AttemptDomain DEF Requests, IngestGolden, IngestQuestionReceived,
         IngestSubmission, IngestGenerationFailure, CreateAttempt, GetEvaluationStatus, TypeOK
  <1>8. CASE EventLoop
    <2>1. CASE WriteFile
      BY <1>6, <2>1 DEF WriteFile
    <2>2. ASSUME NEW m \in AttemptNo, Evaluate(m) \/ TaskDone(m)
          PROVE  \E t : tasks' = [tasks EXCEPT ![m] = t]
      BY <2>2 DEF Evaluate, StartEvaluation, GrammarExplained, QueryExecuted, SemanticReviewed, TaskDone
    <2>3. CASE TaskDone(n)
      BY <1>2, <2>3 DEF TaskDone
    <2>4. CASE Evaluate(n)
      BY <1>3, <2>4 DEF Evaluate, GrammarExplained, QueryExecuted, SemanticReviewed
    <2> QED BY <1>4, <1>8, <2>1, <2>2, <2>3, <2>4 DEF EventLoop
  <1>9. CASE Crash
    BY <1>2, <1>9 DEF Crash
  <1>10. CASE Restart
    BY <1>1, <1>2, <1>10 DEF Restart
  <1> QED BY <1>6, <1>7, <1>8, <1>9, <1>10 DEF Next, vars

LEMMA CrashType ==
    ASSUME TypeOK, Crash \/ Restart
    PROVE  TypeOK'
  <1>1. NoTasks \in Tasks /\ Scheduled(NoTasks) \in Tasks
    <2>1. NoTasks \in Tasks
      BY DEF NoTasks, Tasks
    <2> QED BY <2>1, TasksType
  <1>2. CASE Crash
    <2>1. crashes' \in 0 .. MaxCrashes
      BY <1>2, BoundsAssumption DEF Crash, TypeOK
    <2>2. writes' \in Seq(Write)
      BY <1>2, EmptySeq DEF Crash
    <2> QED BY <1>1, <1>2, <2>1, <2>2 DEF Crash, TypeOK, files
  <1>3. CASE Restart
    BY <1>1, <1>3 DEF Restart, TypeOK, files
  <1> QED BY <1>2, <1>3

LEMMA TaskDoneType ==
    ASSUME TypeOK, NEW n \in AttemptNo, TaskDone(n)
    PROVE  TypeOK'
  <1>1. tasks[n] \in Tasks /\ tasks[n].done - 1 \in Nat
    BY DEF TypeOK, TaskDone, Tasks
  <1>2. ASSUME NEW k \in Nat
        PROVE  [tasks[n] EXCEPT !.done = k, !.registered = FALSE] \in Tasks
    BY <1>1 DEF Tasks
  <1>3. tasks' \in [AttemptNo -> Tasks]
    <2>1. tasks' = [tasks EXCEPT ![n] = [tasks[n] EXCEPT !.done = tasks[n].done - 1,
                                                        !.registered = FALSE]]
      BY DEF TaskDone, TypeOK
    <2> QED BY <1>1, <1>2, <2>1 DEF TypeOK
  <1> QED
    BY <1>3, SectionType DEF TaskDone, TypeOK

(* TypeOK is inductive together with Suspension: without it, a task that   *)
(* resumes after an await could find no attempt file to update.            *)
LEMMA TypeInductive ==
    TypeOK /\ Suspension /\ [Next]_vars => TypeOK' /\ Suspension'
  <1> SUFFICES ASSUME TypeOK, Suspension, [Next]_vars
               PROVE  TypeOK' /\ Suspension'
    OBVIOUS
  <1>1. TypeOK'
    <2>1. CASE Requests
      BY <2>1, RequestsType
    <2>2. CASE EventLoop
      <3>1. CASE WriteFile
        BY <3>1, WriteFileType
      <3>2. ASSUME NEW n \in AttemptNo, Evaluate(n) PROVE TypeOK'
        BY <3>2, StartType, ResumeType DEF Evaluate
      <3>3. ASSUME NEW n \in AttemptNo, TaskDone(n) PROVE TypeOK'
        BY <3>3, TaskDoneType
      <3> QED BY <2>2, <3>1, <3>2, <3>3 DEF EventLoop
    <2>3. CASE Crash \/ Restart
      BY <2>3, CrashType
    <2>4. CASE UNCHANGED vars
      BY <2>4 DEF vars, files, TypeOK
    <2> QED BY <2>1, <2>2, <2>3, <2>4 DEF Next
  <1>2. Suspension'
    <2> SUFFICES ASSUME NEW n \in AttemptNo, tasks'[n].running # "idle"
                 PROVE  golden' # None /\ n \in DOMAIN attempts'
      BY DEF Suspension
    <2>1. golden # None /\ n \in DOMAIN attempts
      BY OnlyStartSuspends DEF Suspension
    <2> QED BY <1>1, <2>1, FilesGrow
  <1> QED BY <1>1, <1>2

(* The files and tasks always have the shape the code gives them, and a    *)
(* suspended evaluation always finds its attempt and the golden.           *)
THEOREM TypeCorrect == Spec => []TypeOK
  <1>1. Init => TypeOK /\ Suspension
    BY InitType DEF Init, Suspension, NoTasks
  <1>2. TypeOK /\ Suspension /\ [Next]_vars => TypeOK' /\ Suspension'
    BY TypeInductive
  <1> QED BY <1>1, <1>2, PTL DEF Spec

THEOREM SuspensionInvariant == Spec => []Suspension
  <1>1. Init => TypeOK /\ Suspension
    BY InitType DEF Init, Suspension, NoTasks
  <1>2. TypeOK /\ Suspension /\ [Next]_vars => TypeOK' /\ Suspension'
    BY TypeInductive
  <1> QED BY <1>1, <1>2, PTL DEF Spec

-----------------------------------------------------------------------------
(***************************************************************************)
(* A run owns one attempt.  The files alone are not inductive: between the *)
(* decision to create an attempt and the write of its file the run is      *)
(* known only to the pending write.                                        *)
(***************************************************************************)
PendingAttempts ==
    \A i \in DOMAIN writes : writes[i].file = "attempt" =>
        IF writes[i].no \in DOMAIN attempts
        THEN attempts[writes[i].no].run = writes[i].value.run
        ELSE i = Len(writes) /\ ~ KnownRun(writes[i].value.run)

OwnershipInv == TypeOK /\ Suspension /\ PendingAttempts /\ RunOwnsOneAttempt

(* A section that updates one existing attempt. *)
LEMMA UpdateSection ==
    ASSUME NEW n \in DOMAIN attempts, writes' \in Seq(Update(n, attempts[n].run)),
           UNCHANGED attempts
    PROVE  PendingAttempts'
  <1> SUFFICES ASSUME NEW i \in DOMAIN writes', writes'[i].file = "attempt"
               PROVE  /\ writes'[i].no \in DOMAIN attempts
                      /\ attempts[writes'[i].no].run = writes'[i].value.run
    BY DEF PendingAttempts
  <1> DEFINE U == Update(n, attempts[n].run)
  <1>1. writes'[i] \in U
    <2> HIDE DEF U
    <2>1. writes' \in Seq(U)
      BY DEF U
    <2> QED BY <2>1, LenProperties, ElementOfSeq
  <1> QED BY <1>1 DEF Update

(* A section that creates an attempt for a run without one. *)
LEMMA CreateSection ==
    ASSUME TypeOK, NEW run, NEW status, NEW body, ~ KnownRun(run),
           NEW before \in Seq(Write), \A i \in 1 .. Len(before) : before[i].file # "attempt",
           CreateAttempt(before, run, status, body), TypeOK'
    PROVE  PendingAttempts'
  <1> DEFINE n == Len(attempts) + 1
             state == IF golden # None THEN "ready_to_evaluate" ELSE "received_submission_only"
             record == NewRecord(run, status, body, state)
  <1>1. writes' = before \o <<LatestFile(n, record), AttemptFile(n, record)>>
    BY DEF CreateAttempt, CreateWrites
  <1>2. UNCHANGED attempts /\ record.run = run
    BY DEF CreateAttempt, files, NewRecord
  <1>3. /\ LatestFile(n, record).file = "latest"
        /\ AttemptFile(n, record).no = n /\ AttemptFile(n, record).value = record
    BY DEF LatestFile, AttemptFile
  <1>4. n \notin DOMAIN attempts
    BY AttemptDomain DEF TypeOK
  <1> HIDE DEF n, record
  <1>5. \A i \in DOMAIN writes' : writes'[i].file = "attempt" =>
            i = Len(writes') /\ writes'[i] = AttemptFile(n, record)
    <2> DEFINE l == LatestFile(n, record)
               a == AttemptFile(n, record)
               T == Write \cup {l, a}
    <2>1. before \in Seq(T) /\ <<l, a>> \in Seq(T)
      <3>1. <<l, a>> \in Seq(T)
        <4>1. l \in T /\ a \in T
          OBVIOUS
        <4> HIDE DEF l, a, T
        <4> QED BY <4>1
      <3> QED BY <3>1, SeqMonotonic
    <2> HIDE DEF T
    <2>2. Len(before) \in Nat /\ Len(<<l, a>>) = 2
      BY <2>1, LenProperties
    <2>3. /\ Len(writes') = Len(before) + 2 /\ DOMAIN writes' = 1 .. Len(before) + 2
          /\ \A i \in 1 .. Len(before) + 2 :
                writes'[i] = IF i <= Len(before) THEN before[i] ELSE <<l, a>>[i - Len(before)]
      BY <1>1, <2>1, <2>2, ConcatProperties, LenProperties
    <2>4. ASSUME NEW i \in DOMAIN writes', writes'[i].file = "attempt"
          PROVE  i = Len(writes') /\ writes'[i] = a
      <3>1. ~ (i <= Len(before))
        BY <2>2, <2>3, <2>4
      <3>2. i = Len(before) + 1 \/ i = Len(before) + 2
        BY <2>2, <2>3, <3>1
      <3>3. i # Len(before) + 1
        <4>1. ASSUME i = Len(before) + 1 PROVE FALSE
          <5>1. writes'[i] = <<l, a>>[1]
            BY <2>2, <2>3, <4>1
          <5> QED BY <1>3, <2>4, <5>1
        <4> QED BY <4>1
      <3> QED BY <2>2, <2>3, <3>2, <3>3
    <2> QED BY <2>4
  <1> QED
    BY <1>2, <1>3, <1>4, <1>5 DEF PendingAttempts, KnownRun

(* Performing a write: an update keeps the run of its attempt, and a new   *)
(* attempt, the section's last write, brings a run no other attempt has.   *)
LEMMA WriteFileOwnership ==
    ASSUME OwnershipInv, TypeOK', WriteFile
    PROVE  PendingAttempts' /\ RunOwnsOneAttempt'
  <1> DEFINE w == Head(writes)
  <1>1. /\ w = writes[1] /\ 1 \in DOMAIN writes /\ w \in Write
        /\ Len(writes') = Len(writes) - 1 /\ DOMAIN writes' = 1 .. (Len(writes) - 1)
        /\ \A i \in DOMAIN writes' : i + 1 \in DOMAIN writes /\ writes'[i] = writes[i + 1]
    BY HeadTailProperties, LenProperties DEF WriteFile, OwnershipInv, TypeOK
  <1>2. Len(writes) \in Nat /\ attempts \in Seq(Record) /\ Len(attempts) \in Nat
    BY LenProperties DEF OwnershipInv, TypeOK
  <1>3. CASE w.file # "attempt"
    <2>1. attempts' = attempts
      BY <1>3 DEF WriteFile
    <2>2. RunOwnsOneAttempt'
      BY <2>1 DEF OwnershipInv, RunOwnsOneAttempt
    <2>3. ASSUME NEW i \in DOMAIN writes', writes'[i].file = "attempt",
                 writes'[i].no \notin DOMAIN attempts
          PROVE  i = Len(writes') /\ ~ KnownRun(writes'[i].value.run)
      BY <1>1, <1>2, <2>3 DEF OwnershipInv, PendingAttempts
    <2>4. ASSUME NEW i \in DOMAIN writes', writes'[i].file = "attempt",
                 writes'[i].no \in DOMAIN attempts
          PROVE  attempts[writes'[i].no].run = writes'[i].value.run
      BY <1>1, <1>2, <2>4 DEF OwnershipInv, PendingAttempts
    <2> QED BY <2>1, <2>2, <2>3, <2>4 DEF PendingAttempts, KnownRun
  <1>4. CASE w.file = "attempt" /\ w.no \in DOMAIN attempts
    <2>1. attempts' = [attempts EXCEPT ![w.no] = w.value]
      BY <1>4 DEF WriteFile
    <2>2. attempts[w.no].run = w.value.run
      BY <1>1, <1>4 DEF OwnershipInv, PendingAttempts
    <2>3. DOMAIN attempts' = DOMAIN attempts
          /\ \A n \in DOMAIN attempts : attempts'[n].run = attempts[n].run
      BY <2>1, <2>2
    <2> QED BY <1>1, <1>2, <2>3 DEF OwnershipInv, PendingAttempts, RunOwnsOneAttempt, KnownRun
  <1>5. CASE w.file = "attempt" /\ w.no \notin DOMAIN attempts
    <2>1. Len(writes) = 1 /\ ~ KnownRun(w.value.run)
      BY <1>1, <1>5 DEF OwnershipInv, PendingAttempts
    <2>2. attempts' = Append(attempts, w.value) /\ w.value \in Record
      BY <1>1, <1>5 DEF WriteFile, Write
    <2> HIDE DEF w
    <2>3. /\ DOMAIN attempts' = 1 .. (Len(attempts) + 1)
          /\ \A n \in DOMAIN attempts : attempts'[n] = attempts[n]
          /\ attempts'[Len(attempts) + 1] = w.value
      BY <1>2, <2>2, AppendProperties, LenProperties
    <2>4. PendingAttempts'
      BY <1>1, <2>1 DEF PendingAttempts
    <2>5. RunOwnsOneAttempt'
      BY <1>2, <2>1, <2>3, LenProperties DEF OwnershipInv, RunOwnsOneAttempt, KnownRun
    <2> QED BY <2>4, <2>5
  <1> QED BY <1>3, <1>4, <1>5

(* The sections that change no attempt's run. *)
LEMMA EvaluateOwnership ==
    ASSUME OwnershipInv, NEW n \in AttemptNo, Evaluate(n)
    PROVE  PendingAttempts'
  <1> USE DEF OwnershipInv
  <1>1. UNCHANGED attempts
    BY DEF Evaluate, StartEvaluation, GrammarExplained, QueryExecuted, SemanticReviewed, files
  <1>2. CASE UNCHANGED writes
    BY <1>1, <1>2 DEF PendingAttempts, KnownRun
  <1>3. CASE writes' # writes
    <2>1. golden \in Answers /\ n \in DOMAIN attempts /\ attempts[n] \in Record
      <3>1. golden # None /\ n \in DOMAIN attempts
        BY <1>3 DEF Evaluate, Suspension, StartEvaluation, GrammarExplained, QueryExecuted,
                    SemanticReviewed
      <3> QED BY <3>1, AttemptDomain DEF TypeOK
    <2> DEFINE U == Update(n, attempts[n].run)
    <2>2. \A record \in Record : record.run = attempts[n].run =>
             /\ MutateWrites(n, record) \in Seq(U)
             /\ \A g \in Score, strict, semantic \in {"pass", "fail", "not_run"} :
                   ConcludeWrites(n, record, BuildEvaluationSummary(g, strict, semantic)) \in Seq(U)
      BY <2>1, MutateWritesUpdate, ConcludeWritesUpdate, EvaluationType
    <2>3. /\ \A execution \in Execution :
                [attempts[n] EXCEPT !.execution = execution] \in Record
                /\ [attempts[n] EXCEPT !.execution = execution].run = attempts[n].run
          /\ \A review \in {"pass", "fail", "invalid"} :
                [attempts[n] EXCEPT !.semantic_review = review] \in Record
                /\ [attempts[n] EXCEPT !.semantic_review = review].run = attempts[n].run
      BY <2>1 DEF Record
    <2>4. \A record \in Record, state \in State :
             [record EXCEPT !.state = state] \in Record
             /\ [record EXCEPT !.state = state].run = record.run
      BY DEF Record
    <2>5. {"tugraph_execution_failed", "semantic_review_invalid"} \subseteq State
      BY DEF State
    <2> HIDE DEF U
    <2>6. writes' \in Seq(U)
      <3>1. CASE StartEvaluation(n)
        BY <1>3, <2>1, <2>2, <3>1 DEF StartEvaluation, Score
      <3>2. CASE GrammarExplained(n)
        BY <1>3, <2>1, <2>2, <3>2 DEF GrammarExplained, Score
      <3>3. ASSUME NEW execution \in Execution, QueryExecuted(n, execution)
            PROVE  writes' \in Seq(U)
        <4> DEFINE executed == [attempts[n] EXCEPT !.execution = execution]
        <4>1. executed \in Record /\ executed.run = attempts[n].run
          BY <2>3
        <4> HIDE DEF executed
        <4>2. /\ MutateWrites(n, executed) \in Seq(U)
              /\ MutateWrites(n, [executed EXCEPT !.state = "tugraph_execution_failed"]) \in Seq(U)
              /\ ConcludeWrites(n, executed, BuildEvaluationSummary(1, "pass", "not_run")) \in Seq(U)
          BY <2>2, <2>4, <2>5, <4>1 DEF Score
        <4> QED BY <1>3, <3>3, <4>2, ConcatProperties DEF QueryExecuted, executed
      <3>4. CASE SemanticReviewed(n)
        <4> DEFINE reviewed(review) == [attempts[n] EXCEPT !.semantic_review = review]
        <4>1. \A review \in {"pass", "fail", "invalid"} :
                 reviewed(review) \in Record /\ reviewed(review).run = attempts[n].run
          BY <2>3
        <4>2. CASE writes' = MutateWrites(n, reviewed("invalid")) \o
                     MutateWrites(n, [reviewed("invalid") EXCEPT !.state = "semantic_review_invalid"])
          <5> DEFINE invalid == reviewed("invalid")
          <5>1. invalid \in Record /\ invalid.run = attempts[n].run
            BY <4>1
          <5> HIDE DEF invalid
          <5>2. MutateWrites(n, invalid) \in Seq(U)
                /\ MutateWrites(n, [invalid EXCEPT !.state = "semantic_review_invalid"]) \in Seq(U)
            BY <2>2, <2>4, <2>5, <5>1
          <5> QED BY <4>2, <5>2, ConcatProperties DEF invalid
        <4>3. ASSUME NEW judgement \in {"pass", "fail"},
                     writes' = MutateWrites(n, reviewed(judgement)) \o
                        ConcludeWrites(n, reviewed(judgement), BuildEvaluationSummary(1, "fail", judgement))
              PROVE  writes' \in Seq(U)
          <5> DEFINE judged == reviewed(judgement)
          <5>1. judged \in Record /\ judged.run = attempts[n].run
            BY <4>1
          <5> HIDE DEF judged
          <5>2. MutateWrites(n, judged) \in Seq(U)
                /\ ConcludeWrites(n, judged, BuildEvaluationSummary(1, "fail", judgement)) \in Seq(U)
            BY <2>2, <5>1 DEF Score
          <5> QED BY <4>3, <5>2, ConcatProperties DEF judged
        <4> QED BY <1>3, <3>4, <4>2, <4>3 DEF SemanticReviewed
      <3> QED BY <3>1, <3>2, <3>3, <3>4 DEF Evaluate
    <2> QED BY <1>1, <2>1, <2>6, UpdateSection DEF U
  <1> QED BY <1>2, <1>3

LEMMA GoldenOwnership ==
    ASSUME OwnershipInv, NEW g \in Answers, IngestGolden(g)
    PROVE  PendingAttempts'
  <1> USE DEF OwnershipInv
  <1>1. UNCHANGED attempts /\ GoldenFile(g) \in Write /\ GoldenFile(g).file = "golden"
    BY DEF IngestGolden, files, GoldenFile, Write
  <1>2. CASE writes' = <<GoldenFile(g)>>
    BY <1>1, <1>2 DEF PendingAttempts
  <1>3. ASSUME latest.no \in DOMAIN attempts,
               writes' = <<GoldenFile(g)>> \o MutateWrites(latest.no,
                             [attempts[latest.no] EXCEPT !.state = "ready_to_evaluate"])
        PROVE  PendingAttempts'
    <2> DEFINE n == latest.no
               U == Update(n, attempts[n].run)
               reopened == [attempts[n] EXCEPT !.state = "ready_to_evaluate"]
    <2>1. n \in AttemptNo /\ reopened \in Record /\ reopened.run = attempts[n].run
      BY <1>3, AttemptDomain DEF Record, State
    <2>2. GoldenFile(g) \in U
      BY <1>1 DEF Update
    <2> HIDE DEF reopened, U
    <2>3. MutateWrites(n, reopened) \in Seq(U)
      BY <2>1, MutateWritesUpdate DEF U
    <2>4. writes' \in Seq(U)
      BY <1>3, <2>2, <2>3, ConcatProperties DEF reopened
    <2> QED BY <1>1, <1>3, <2>4, UpdateSection DEF U
  <1> QED BY <1>2, <1>3 DEF IngestGolden

LEMMA RequestsOwnership ==
    ASSUME OwnershipInv, TypeOK', Requests
    PROVE  PendingAttempts'
  <1> USE DEF OwnershipInv
  <1>1. ASSUME NEW r \in Receipts, IngestQuestionReceived(r) PROVE PendingAttempts'
    BY <1>1 DEF IngestQuestionReceived, ReceiptFile, PendingAttempts
  <1>2. ASSUME NEW s \in Submissions, IngestSubmission(s) PROVE PendingAttempts'
    <2>1. <<>> \in Seq(Write) /\ \A i \in 1 .. Len(<<>>) : <<>>[i].file # "attempt"
      BY EmptySeq
    <2> QED BY <1>2, <2>1, CreateSection DEF IngestSubmission
  <1>3. ASSUME NEW r \in FailureReports, IngestGenerationFailure(r) PROVE PendingAttempts'
    <2> DEFINE store == IF reports[r.run] = None THEN <<ReportFile(r)>> ELSE <<>>
    <2>1. store \in Seq(Write) /\ \A i \in 1 .. Len(store) : store[i].file # "attempt"
      <3>1. ReportFile(r) \in Write /\ ReportFile(r).file = "report"
        BY DEF ReportFile, Write
      <3> QED BY <3>1, EmptySeq
    <2>2. CASE ~ KnownRun(r.run) /\ CreateAttempt(store, r.run, "generation_failed", r.body)
      <3> HIDE DEF store
      <3> QED BY <2>1, <2>2, CreateSection
    <2>3. CASE writes' = store
      BY <2>1, <2>3, LenProperties DEF PendingAttempts
    <2> QED BY <1>3, <2>2, <2>3 DEF IngestGenerationFailure
  <1>4. CASE GetEvaluationStatus
    BY <1>4 DEF GetEvaluationStatus, files, PendingAttempts, KnownRun
  <1> QED BY <1>1, <1>2, <1>3, <1>4, GoldenOwnership DEF Requests

(* The ownership of runs and what it rests on. *)
THEOREM OwnershipInvariant == Spec => []OwnershipInv
  <1>1. Init => OwnershipInv
    BY InitType DEF Init, OwnershipInv, Suspension, NoTasks, PendingAttempts, RunOwnsOneAttempt
  <1>2. OwnershipInv /\ [Next]_vars => OwnershipInv'
    <2> SUFFICES ASSUME OwnershipInv, [Next]_vars PROVE OwnershipInv'
      OBVIOUS
    <2>1. TypeOK' /\ Suspension'
      BY TypeInductive DEF OwnershipInv
    <2>2. CASE WriteFile
      BY <2>1, <2>2, WriteFileOwnership DEF OwnershipInv
    <2>3. CASE ~ WriteFile
      <3>1. UNCHANGED attempts
        BY <2>3 DEF Next, vars, files, Requests, IngestGolden, IngestQuestionReceived,
             IngestSubmission, IngestGenerationFailure, CreateAttempt, GetEvaluationStatus,
             EventLoop, Evaluate, StartEvaluation, GrammarExplained, QueryExecuted,
             SemanticReviewed, TaskDone, Crash, Restart
      <3>2. RunOwnsOneAttempt'
        BY <3>1 DEF OwnershipInv, RunOwnsOneAttempt
      <3>3. ASSUME UNCHANGED writes PROVE PendingAttempts'
        BY <3>1, <3>3 DEF OwnershipInv, PendingAttempts, KnownRun
      <3>4. ASSUME writes' = <<>> PROVE PendingAttempts'
        BY <3>4 DEF PendingAttempts
      <3>5. ASSUME Requests \/ \E n \in AttemptNo : Evaluate(n) PROVE PendingAttempts'
        BY <2>1, <3>5, RequestsOwnership, EvaluateOwnership
      <3>6. PendingAttempts'
        BY <2>3, <3>3, <3>4, <3>5 DEF Next, EventLoop, TaskDone, Crash, Restart, vars
      <3> QED BY <2>1, <3>2, <3>6 DEF OwnershipInv
    <2> QED BY <2>2, <2>3
  <1> QED BY <1>1, <1>2, PTL DEF Spec

(* However requests are repeated and wherever the process dies, no two     *)
(* attempts belong to one generation run.                                  *)
THEOREM OneAttemptPerRun == Spec => []RunOwnsOneAttempt
  <1>1. OwnershipInv => RunOwnsOneAttempt
    BY DEF OwnershipInv
  <1> QED BY <1>1, OwnershipInvariant, PTL

-----------------------------------------------------------------------------
(***************************************************************************)
(* The pending writes as a set, and facts about their order.               *)
(***************************************************************************)
Elements(s) == {s[i] : i \in DOMAIN s}
InOrder(s, R) == \A i, j \in DOMAIN s : i < j => <<s[i], s[j]>> \in R

(* Short series. *)
LEMMA ElementsShort ==
    ASSUME NEW x, NEW y
    PROVE  /\ Elements(<<>>) = {} /\ Elements(<<x>>) = {x} /\ Elements(<<x, y>>) = {x, y}
           /\ \A R : InOrder(<<>>, R) /\ InOrder(<<x>>, R)
           /\ \A R : <<x, y>> \in R => InOrder(<<x, y>>, R)
  BY DEF Elements, InOrder

LEMMA ElementsType ==
    ASSUME NEW S, NEW s \in Seq(S)
    PROVE  Elements(s) \subseteq S
  BY ElementOfSeq, LenProperties DEF Elements

LEMMA ElementsConcat ==
    ASSUME NEW S, NEW s \in Seq(S), NEW t \in Seq(S)
    PROVE  Elements(s \o t) = Elements(s) \cup Elements(t)
  <1>1. /\ DOMAIN s = 1 .. Len(s) /\ DOMAIN t = 1 .. Len(t) /\ Len(s) \in Nat /\ Len(t) \in Nat
        /\ DOMAIN (s \o t) = 1 .. (Len(s) + Len(t))
        /\ \A i \in 1 .. (Len(s) + Len(t)) :
              (s \o t)[i] = IF i <= Len(s) THEN s[i] ELSE t[i - Len(s)]
    BY ConcatProperties, LenProperties
  <1> DEFINE u == s \o t
  <1> HIDE DEF u
  <1>2. ASSUME NEW i \in DOMAIN u PROVE u[i] \in Elements(s) \cup Elements(t)
    BY <1>1, <1>2 DEF Elements, u
  <1>3. ASSUME NEW i \in DOMAIN s PROVE i \in DOMAIN u /\ u[i] = s[i]
    BY <1>1, <1>3 DEF u
  <1>4. ASSUME NEW i \in DOMAIN t PROVE Len(s) + i \in DOMAIN u /\ u[Len(s) + i] = t[i]
    BY <1>1, <1>4 DEF u
  <1>5. Elements(u) \subseteq Elements(s) \cup Elements(t)
    BY <1>2 DEF Elements
  <1>6. Elements(s) \subseteq Elements(u) /\ Elements(t) \subseteq Elements(u)
    <2>1. ASSUME NEW i \in DOMAIN s PROVE s[i] \in Elements(u)
      BY <1>3 DEF Elements
    <2>2. ASSUME NEW i \in DOMAIN t PROVE t[i] \in Elements(u)
      BY <1>4 DEF Elements
    <2> QED BY <2>1, <2>2 DEF Elements
  <1> QED BY <1>5, <1>6 DEF u

LEMMA OrderConcat ==
    ASSUME NEW S, NEW s \in Seq(S), NEW t \in Seq(S), NEW R, InOrder(s, R), InOrder(t, R),
           \A x \in Elements(s), y \in Elements(t) : <<x, y>> \in R
    PROVE  InOrder(s \o t, R)
  <1>1. /\ DOMAIN s = 1 .. Len(s) /\ DOMAIN t = 1 .. Len(t) /\ Len(s) \in Nat /\ Len(t) \in Nat
        /\ DOMAIN (s \o t) = 1 .. (Len(s) + Len(t))
        /\ \A i \in 1 .. (Len(s) + Len(t)) :
              (s \o t)[i] = IF i <= Len(s) THEN s[i] ELSE t[i - Len(s)]
    BY ConcatProperties, LenProperties
  <1> DEFINE u == s \o t
  <1> HIDE DEF u
  <1> SUFFICES ASSUME NEW i \in DOMAIN u, NEW j \in DOMAIN u, i < j PROVE <<u[i], u[j]>> \in R
    BY DEF InOrder, u
  <1>2. CASE j <= Len(s)
    BY <1>1, <1>2 DEF InOrder, u
  <1>3. CASE ~ (i <= Len(s))
    <2>1. /\ i - Len(s) \in DOMAIN t /\ j - Len(s) \in DOMAIN t /\ i - Len(s) < j - Len(s)
          /\ u[i] = t[i - Len(s)] /\ u[j] = t[j - Len(s)]
      BY <1>1, <1>3 DEF u
    <2> QED BY <2>1 DEF InOrder
  <1>4. CASE i <= Len(s) /\ ~ (j <= Len(s))
    <2>1. u[i] \in Elements(s) /\ u[j] \in Elements(t)
      BY <1>1, <1>4 DEF Elements, u
    <2> QED BY <2>1
  <1> QED BY <1>1, <1>2, <1>3, <1>4 DEF u

(* The first write is performed; the others stay due, in the same order. *)
LEMMA ElementsTail ==
    ASSUME NEW S, NEW s \in Seq(S), s # <<>>
    PROVE  /\ Elements(s) = {Head(s)} \cup Elements(Tail(s))
           /\ \A R : InOrder(s, R) => InOrder(Tail(s), R)
                        /\ \A y \in Elements(Tail(s)) : <<Head(s), y>> \in R
  <1>1. /\ Head(s) = s[1] /\ Tail(s) \in Seq(S) /\ Len(Tail(s)) = Len(s) - 1
        /\ Len(s) \in Nat /\ Len(s) >= 1 /\ DOMAIN s = 1 .. Len(s)
        /\ DOMAIN Tail(s) = 1 .. (Len(s) - 1)
        /\ \A i \in 1 .. (Len(s) - 1) : Tail(s)[i] = s[i + 1]
    BY HeadTailProperties, LenProperties, EmptySeq
  <1> DEFINE t == Tail(s)
  <1> HIDE DEF t
  <1>2. \A i \in DOMAIN t : i + 1 \in DOMAIN s /\ t[i] = s[i + 1]
    BY <1>1 DEF t
  <1>3. \A i \in DOMAIN s : i = 1 \/ (i - 1 \in DOMAIN t /\ s[i] = t[i - 1])
    BY <1>1 DEF t
  <1>4. Elements(s) = {s[1]} \cup Elements(t)
    <2>1. ASSUME NEW i \in DOMAIN s PROVE s[i] \in {s[1]} \cup Elements(t)
      BY <1>3 DEF Elements
    <2>2. ASSUME NEW i \in DOMAIN t PROVE t[i] \in Elements(s)
      BY <1>2 DEF Elements
    <2>3. s[1] \in Elements(s)
      BY <1>1 DEF Elements
    <2>4. Elements(s) \subseteq {s[1]} \cup Elements(t)
      BY <2>1 DEF Elements
    <2>5. Elements(t) \subseteq Elements(s)
      BY <2>2 DEF Elements
    <2> QED BY <2>3, <2>4, <2>5
  <1>5. ASSUME NEW R, InOrder(s, R)
        PROVE  InOrder(t, R) /\ \A y \in Elements(t) : <<s[1], y>> \in R
    <2>1. \A i \in DOMAIN t : i \in Int /\ i >= 1 /\ 1 \in DOMAIN s
      BY <1>1 DEF t
    <2>2. InOrder(t, R)
      BY <1>2, <1>5, <2>1 DEF InOrder
    <2>3. ASSUME NEW i \in DOMAIN t PROVE <<s[1], t[i]>> \in R
      <3>1. 1 \in DOMAIN s /\ i + 1 \in DOMAIN s /\ 1 < i + 1 /\ t[i] = s[i + 1]
        BY <1>2, <2>1
      <3>2. <<s[1], s[i + 1]>> \in R
        BY <1>5, <3>1 DEF InOrder
      <3> QED BY <3>1, <3>2
    <2> QED BY <2>2, <2>3 DEF Elements
  <1> QED BY <1>1, <1>4, <1>5 DEF t

-----------------------------------------------------------------------------
(***************************************************************************)
(* The records a section that concludes an evaluation writes.              *)
(***************************************************************************)
Evaluated(record, evaluation) == [record EXCEPT !.evaluation = evaluation]
Concluded(record, evaluation) ==
    IF evaluation.verdict = "pass" THEN [Evaluated(record, evaluation) EXCEPT !.state = "passed"]
    ELSE Ticketed(Evaluated(record, evaluation))
Assessed(n, record, evaluation) ==
    IF EvaluatedBefore(n) = {} THEN Concluded(record, evaluation)
    ELSE [Concluded(record, evaluation) EXCEPT !.improvement = Assessment(n, evaluation)]

(* The ticket an attempt in its final state claims to have. *)
Claim(record) == [golden |-> golden, run |-> record.run, evaluation |-> record.evaluation]

LEMMA ConcludedFields ==
    ASSUME golden \in Answers, NEW n \in AttemptNo, NEW record \in Record, NEW e \in Evaluation
    PROVE  /\ Evaluated(record, e) \in Record /\ Linked(Evaluated(record, e)) \in Record
           /\ Concluded(record, e) \in Record /\ Assessed(n, record, e) \in Record
           /\ Claim(Evaluated(record, e)) \in Ticket
           /\ Evaluated(record, e) = [record EXCEPT !.evaluation = e]
           /\ Linked(Evaluated(record, e)) = [record EXCEPT !.evaluation = e, !.issue_ticket = TRUE]
           /\ e.verdict = "pass" =>
                 Concluded(record, e) = [record EXCEPT !.evaluation = e, !.state = "passed"]
           /\ e.verdict = "fail" =>
                 Concluded(record, e) = [record EXCEPT !.evaluation = e, !.issue_ticket = TRUE,
                                                       !.state = "issue_ticket_created"]
           /\ Assessed(n, record, e) =
                 [Concluded(record, e) EXCEPT !.improvement = Assessed(n, record, e).improvement]
           /\ Assessed(n, record, e).improvement =
                 IF EvaluatedBefore(n) = {} THEN record.improvement ELSE Assessment(n, e)
           /\ Claim(Evaluated(record, e)) = Claim(Concluded(record, e))
           /\ Claim(Evaluated(record, e)) = Claim(Assessed(n, record, e))
  <1> DEFINE ev == Evaluated(record, e)
             co == Concluded(record, e)
  <1>1. ev \in Record /\ ev = [record EXCEPT !.evaluation = e]
    BY DEF Evaluated, Record
  <1>2. Linked(ev) \in Record /\ Linked(ev) = [record EXCEPT !.evaluation = e, !.issue_ticket = TRUE]
    BY <1>1 DEF Linked, Record
  <1>3. ASSUME e.verdict = "pass"
        PROVE  co \in Record /\ co = [record EXCEPT !.evaluation = e, !.state = "passed"]
    BY <1>1, <1>3 DEF Concluded, Record, State
  <1>4. ASSUME e.verdict = "fail"
        PROVE  co \in Record /\ co = [record EXCEPT !.evaluation = e, !.issue_ticket = TRUE,
                                                       !.state = "issue_ticket_created"]
    BY <1>2, <1>4 DEF Concluded, Ticketed, Record, State
  <1>5. e.verdict \in {"pass", "fail"}
    BY DEF Evaluation
  <1>6. co \in Record /\ co.run = record.run /\ co.evaluation = e /\ co.improvement = record.improvement
    BY <1>3, <1>4, <1>5 DEF Record
  <1> HIDE DEF co
  <1>7. /\ Assessed(n, record, e) \in Record
        /\ Assessed(n, record, e) =
              [co EXCEPT !.improvement = Assessed(n, record, e).improvement]
        /\ Assessed(n, record, e).run = record.run /\ Assessed(n, record, e).evaluation = e
        /\ Assessed(n, record, e).improvement =
                 IF EvaluatedBefore(n) = {} THEN record.improvement ELSE Assessment(n, e)
    <2>1. CASE EvaluatedBefore(n) = {}
      <3>1. Assessed(n, record, e) = co
        BY <2>1 DEF Assessed, co
      <3> QED BY <2>1, <3>1, <1>6 DEF Record
    <2>2. CASE EvaluatedBefore(n) # {}
      <3>1. Assessment(n, e) \in Improvement
        BY <2>2, AssessmentType
      <3>2. Assessed(n, record, e) = [co EXCEPT !.improvement = Assessment(n, e)]
        BY <2>2 DEF Assessed, co
      <3> QED BY <1>6, <2>2, <3>1, <3>2 DEF Record
    <2> QED BY <2>1, <2>2
  <1>8. Claim(ev) \in Ticket /\ Claim(ev) = Claim(co) /\ Claim(ev) = Claim(Assessed(n, record, e))
    <2>1. ev.run = record.run /\ ev.evaluation = e /\ record.run \in Runs
      BY <1>1 DEF Record
    <2> QED BY <1>6, <1>7, <2>1 DEF Claim, Ticket
  <1> QED BY <1>1, <1>2, <1>3, <1>4, <1>5, <1>6, <1>7, <1>8 DEF co

(* The fields of these records one by one. *)
LEMMA EvaluatedValues ==
    ASSUME NEW r \in Record, NEW e \in Evaluation
    PROVE  /\ Evaluated(r, e) \in Record /\ Linked(Evaluated(r, e)) \in Record
           /\ Evaluated(r, e).run = r.run /\ Linked(Evaluated(r, e)).run = r.run
           /\ Evaluated(r, e).generation_status = r.generation_status
           /\ Linked(Evaluated(r, e)).generation_status = r.generation_status
           /\ Evaluated(r, e).body = r.body /\ Linked(Evaluated(r, e)).body = r.body
           /\ Evaluated(r, e).state = r.state /\ Linked(Evaluated(r, e)).state = r.state
           /\ Evaluated(r, e).execution = r.execution /\ Linked(Evaluated(r, e)).execution = r.execution
           /\ Evaluated(r, e).semantic_review = r.semantic_review
           /\ Linked(Evaluated(r, e)).semantic_review = r.semantic_review
           /\ Evaluated(r, e).evaluation = e /\ Linked(Evaluated(r, e)).evaluation = e
           /\ Evaluated(r, e).issue_ticket = r.issue_ticket /\ Linked(Evaluated(r, e)).issue_ticket = TRUE
           /\ Evaluated(r, e).improvement = r.improvement
           /\ Linked(Evaluated(r, e)).improvement = r.improvement
  <1> DEFINE ev == Evaluated(r, e)
             li == Linked(ev)
  <1>1. ev = [r EXCEPT !.evaluation = e]
    BY DEF Evaluated
  <1>2. li = [ev EXCEPT !.issue_ticket = TRUE]
    BY DEF Linked
  <1> HIDE DEF ev, li
  <1>3. /\ ev \in Record /\ ev.run = r.run /\ ev.generation_status = r.generation_status
        /\ ev.body = r.body /\ ev.state = r.state /\ ev.execution = r.execution
        /\ ev.semantic_review = r.semantic_review /\ ev.evaluation = e
        /\ ev.issue_ticket = r.issue_ticket /\ ev.improvement = r.improvement
    BY <1>1 DEF Record
  <1>4. /\ li \in Record /\ li.run = ev.run /\ li.generation_status = ev.generation_status
        /\ li.body = ev.body /\ li.state = ev.state /\ li.execution = ev.execution
        /\ li.semantic_review = ev.semantic_review /\ li.evaluation = ev.evaluation
        /\ li.issue_ticket = TRUE /\ li.improvement = ev.improvement
    BY <1>2, <1>3 DEF Record
  <1> QED BY <1>3, <1>4 DEF ev, li

LEMMA ConcludedValues ==
    ASSUME NEW r \in Record, NEW e \in Evaluation
    PROVE  /\ e.verdict \in {"pass", "fail"} /\ Concluded(r, e) \in Record
           /\ Concluded(r, e).run = r.run /\ Concluded(r, e).body = r.body
           /\ Concluded(r, e).generation_status = r.generation_status
           /\ Concluded(r, e).execution = r.execution
           /\ Concluded(r, e).semantic_review = r.semantic_review
           /\ Concluded(r, e).evaluation = e /\ Concluded(r, e).improvement = r.improvement
           /\ e.verdict = "pass" => Concluded(r, e).state = "passed"
           /\ e.verdict = "pass" => Concluded(r, e).issue_ticket = r.issue_ticket
           /\ e.verdict = "fail" => Concluded(r, e).state = "issue_ticket_created"
           /\ e.verdict = "fail" => Concluded(r, e).issue_ticket = TRUE
  <1> DEFINE ev == Evaluated(r, e)
             li == Linked(ev)
             co == Concluded(r, e)
  <1>1. e.verdict \in {"pass", "fail"}
    BY DEF Evaluation
  <1>2. e.verdict = "pass" => co = [ev EXCEPT !.state = "passed"]
    BY DEF Concluded
  <1>3. e.verdict = "fail" => co = [li EXCEPT !.state = "issue_ticket_created"]
    BY DEF Concluded, Ticketed
  <1>4. /\ ev \in Record /\ li \in Record
        /\ ev.run = r.run /\ li.run = r.run /\ ev.body = r.body /\ li.body = r.body
        /\ ev.generation_status = r.generation_status /\ li.generation_status = r.generation_status
        /\ ev.execution = r.execution /\ li.execution = r.execution
        /\ ev.semantic_review = r.semantic_review /\ li.semantic_review = r.semantic_review
        /\ ev.evaluation = e /\ li.evaluation = e
        /\ ev.improvement = r.improvement /\ li.improvement = r.improvement
        /\ ev.issue_ticket = r.issue_ticket /\ li.issue_ticket = TRUE
    BY EvaluatedValues
  <1> HIDE DEF ev, li, co
  <1>5. ASSUME NEW x \in Record, NEW s \in State
        PROVE  LET y == [x EXCEPT !.state = s]
               IN  /\ y \in Record /\ y.run = x.run /\ y.body = x.body /\ y.state = s
                   /\ y.generation_status = x.generation_status
                   /\ y.execution = x.execution /\ y.semantic_review = x.semantic_review
                   /\ y.evaluation = x.evaluation /\ y.improvement = x.improvement
                   /\ y.issue_ticket = x.issue_ticket
    BY DEF Record
  <1>6. "passed" \in State /\ "issue_ticket_created" \in State
    BY DEF State
  <1>7. CASE e.verdict = "pass"
    <2>1. co = [ev EXCEPT !.state = "passed"]
      BY <1>2, <1>7
    <2> QED BY <1>1, <1>4, <1>5, <1>6, <1>7, <2>1 DEF co
  <1>8. CASE e.verdict = "fail"
    <2>1. co = [li EXCEPT !.state = "issue_ticket_created"]
      BY <1>3, <1>8
    <2> QED BY <1>1, <1>4, <1>5, <1>6, <1>8, <2>1 DEF co
  <1> QED BY <1>1, <1>7, <1>8

LEMMA AssessedValues ==
    ASSUME golden \in Answers, NEW n \in AttemptNo, NEW r \in Record, NEW e \in Evaluation
    PROVE  /\ Assessed(n, r, e) \in Record
           /\ Assessed(n, r, e).run = r.run /\ Assessed(n, r, e).body = r.body
           /\ Assessed(n, r, e).generation_status = r.generation_status
           /\ Assessed(n, r, e).execution = r.execution
           /\ Assessed(n, r, e).semantic_review = r.semantic_review
           /\ Assessed(n, r, e).evaluation = e
           /\ Assessed(n, r, e).state = Concluded(r, e).state
           /\ Assessed(n, r, e).issue_ticket = Concluded(r, e).issue_ticket
           /\ Assessed(n, r, e) = [Concluded(r, e) EXCEPT !.improvement = Assessed(n, r, e).improvement]
  <1> DEFINE co == Concluded(r, e)
             as == Assessed(n, r, e)
  <1>1. co \in Record /\ as \in Record /\ as = [co EXCEPT !.improvement = as.improvement]
    <2>1. as \in Record
      BY ConcludedFields
    <2>2. co \in Record
      BY ConcludedValues
    <2>3. as = co \/ \E x : as = [co EXCEPT !.improvement = x]
      BY DEF Assessed
    <2> HIDE DEF as, co
    <2>4. as = [co EXCEPT !.improvement = as.improvement]
      BY <2>1, <2>2, <2>3 DEF Record
    <2> QED BY <2>1, <2>2, <2>4
  <1>2. /\ co.run = r.run /\ co.body = r.body
        /\ co.generation_status = r.generation_status /\ co.execution = r.execution
        /\ co.semantic_review = r.semantic_review /\ co.evaluation = e
    BY ConcludedValues
  <1> HIDE DEF co, as
  <1> DEFINE i == as.improvement
  <1> HIDE DEF i
  <1>3. as = [co EXCEPT !.improvement = i]
    BY <1>1 DEF i
  <1>4. /\ as.run = co.run /\ as.body = co.body
        /\ as.generation_status = co.generation_status /\ as.execution = co.execution
        /\ as.semantic_review = co.semantic_review /\ as.evaluation = co.evaluation
        /\ as.state = co.state /\ as.issue_ticket = co.issue_ticket
    BY <1>1, <1>3 DEF Record
  <1> QED BY <1>1, <1>2, <1>4 DEF co, as

(* The records of the latest snapshot that an update of attempt n writes:   *)
(* none when the snapshot shows a newer attempt.                            *)
Mirror(n) ==
    {w \in Write : w.file = "latest" /\ w.no = n /\ (latest = None \/ latest.no <= n)}

LEMMA MutateShape ==
    ASSUME NEW n \in AttemptNo, NEW record \in Record
    PROVE  /\ MutateWrites(n, record) \in Seq(Write)
           /\ AttemptFile(n, record) \in Elements(MutateWrites(n, record))
           /\ Elements(MutateWrites(n, record)) \subseteq
                 {AttemptFile(n, record), LatestFile(n, record)}
           /\ Elements(MutateWrites(n, record)) \subseteq {AttemptFile(n, record)} \cup Mirror(n)
           /\ \A R : <<AttemptFile(n, record), LatestFile(n, record)>> \in R =>
                 InOrder(MutateWrites(n, record), R)
  <1> DEFINE a == AttemptFile(n, record)
             l == LatestFile(n, record)
             s == MutateWrites(n, record)
  <1>1. s \in Seq(Write)
    BY MutateWritesType
  <1>2. latest = None \/ latest.no <= n => l \in Mirror(n)
    BY FileType DEF LatestFile, Mirror
  <1>3. s = IF latest = None \/ latest.no <= n THEN <<a, l>> ELSE <<a>>
    BY DEF MutateWrites
  <1>4. /\ Elements(<<a>>) = {a} /\ Elements(<<a, l>>) = {a, l}
        /\ \A R : InOrder(<<a>>, R) /\ (<<a, l>> \in R => InOrder(<<a, l>>, R))
    BY ElementsShort
  <1> HIDE DEF a, l, s
  <1>5. CASE latest = None \/ latest.no <= n
    BY <1>1, <1>2, <1>3, <1>4, <1>5 DEF a, l, s
  <1>6. CASE ~ (latest = None \/ latest.no <= n)
    BY <1>1, <1>3, <1>4, <1>6 DEF a, l, s
  <1> QED BY <1>5, <1>6

(* A relation that says nothing about the latest snapshot. *)
IgnoresLatest(R) ==
    \A v, w \in Write : v.file = "latest" \/ w.file = "latest" => <<v, w>> \in R

(* A relation that holds of the writes of a conclusion in the order they    *)
(* are made: evaluated, ticket, linked, concluded, assessed.                *)
AdmitsConclusion(R, ev, t, li, co, as) ==
    /\ IgnoresLatest(R)
    /\ \A w \in {t, li, co, as} : <<ev, w>> \in R
    /\ \A w \in {li, co, as} : <<t, w>> \in R
    /\ \A w \in {co, as} : <<li, w>> \in R
    /\ <<co, as>> \in R

(* The series of updates that a conclusion writes. *)
LEMMA ConcludeSeries ==
    ASSUME NEW n, NEW record \in Record, NEW e \in Evaluation
    PROVE  LET E == Evaluated(record, e)
               C == Concluded(record, e)
               linking == <<TicketFile(n, Claim(E))>> \o MutateWrites(n, Linked(E))
               verdict == IF e.verdict = "pass" THEN MutateWrites(n, C)
                          ELSE linking \o MutateWrites(n, C)
               assess == IF EvaluatedBefore(n) = {} THEN <<>> ELSE MutateWrites(n, Assessed(n, record, e))
           IN  ConcludeWrites(n, record, e) = (MutateWrites(n, E) \o verdict) \o assess
  <1> DEFINE E == Evaluated(record, e)
             C == Concluded(record, e)
             A == Assessed(n, record, e)
             T == Claim(E)
  <1>1. EvaluatedBefore(n) # {} => A = [C EXCEPT !.improvement = Assessment(n, e)]
    BY DEF Assessed
  <1>2. e.verdict # "pass" => C = Ticketed(E)
    BY DEF Concluded
  <1>3. e.verdict = "pass" => C = [E EXCEPT !.state = "passed"]
    BY DEF Concluded
  <1>4. E = [record EXCEPT !.evaluation = e]
    BY DEF Evaluated
  <1>5. T = [golden |-> golden, run |-> record.run, evaluation |-> e]
    BY DEF Claim, Evaluated, Record
  <1> HIDE DEF E, C, A, T
  <1> QED BY <1>1, <1>2, <1>3, <1>4, <1>5 DEF ConcludeWrites, TicketWrites, E, C, A, T

LEMMA ConcludeShape ==
    ASSUME golden \in Answers, NEW n \in AttemptNo, NEW record \in Record, NEW e \in Evaluation
    PROVE  LET s == ConcludeWrites(n, record, e)
               ev == AttemptFile(n, Evaluated(record, e))
               li == AttemptFile(n, Linked(Evaluated(record, e)))
               co == AttemptFile(n, Concluded(record, e))
               as == AttemptFile(n, Assessed(n, record, e))
               t == TicketFile(n, Claim(Evaluated(record, e)))
               Latest == Mirror(n)
           IN /\ s \in Seq(Write)
              /\ {ev, li, co, as, t} \subseteq Write
              /\ co \in Elements(s)
              /\ e.verdict = "fail" => t \in Elements(s)
              /\ e.verdict = "fail" => Elements(s) \subseteq Latest \cup {ev, li, co, as, t}
              /\ e.verdict # "fail" => Elements(s) \subseteq Latest \cup {ev, co, as}
              /\ \A R : AdmitsConclusion(R, ev, t, li, co, as) => InOrder(s, R)
  <1> DEFINE s == ConcludeWrites(n, record, e)
             E == Evaluated(record, e)
             C == Concluded(record, e)
             A == Assessed(n, record, e)
             T == Claim(E)
             ev == AttemptFile(n, E)
             li == AttemptFile(n, Linked(E))
             co == AttemptFile(n, C)
             as == AttemptFile(n, A)
             t == TicketFile(n, T)
             Latest == Mirror(n)
             assess == IF EvaluatedBefore(n) = {} THEN <<>> ELSE MutateWrites(n, A)
             linking == <<t>> \o MutateWrites(n, Linked(E))
             verdict == IF e.verdict = "pass" THEN MutateWrites(n, C)
                        ELSE linking \o MutateWrites(n, C)
             most == MutateWrites(n, E) \o verdict
  <1>1. E \in Record /\ Linked(E) \in Record /\ C \in Record /\ A \in Record /\ T \in Ticket
        /\ e.verdict \in {"pass", "fail"} /\ T = Claim(E)
    BY ConcludedFields DEF Evaluation
  <1>2. {ev, li, co, as, t} \subseteq Write
    <2> HIDE DEF E, C, A, T
    <2>1. t \in Write
      BY <1>1 DEF TicketFile, Write
    <2> QED BY <1>1, <2>1, FileType
  <1>3. s = most \o assess
    BY ConcludeSeries
  <1> HIDE DEF s, E, C, A, T
  <1>4. \A r \in {E, Linked(E), C, A} :
           /\ MutateWrites(n, r) \in Seq(Write)
           /\ AttemptFile(n, r) \in Elements(MutateWrites(n, r))
           /\ Elements(MutateWrites(n, r)) \subseteq {AttemptFile(n, r)} \cup Latest
           /\ \A R : IgnoresLatest(R) => InOrder(MutateWrites(n, r), R)
    <2> SUFFICES ASSUME NEW r \in {E, Linked(E), C, A}
                 PROVE  /\ MutateWrites(n, r) \in Seq(Write)
                        /\ AttemptFile(n, r) \in Elements(MutateWrites(n, r))
                        /\ Elements(MutateWrites(n, r)) \subseteq {AttemptFile(n, r)} \cup Latest
                        /\ \A R : IgnoresLatest(R) => InOrder(MutateWrites(n, r), R)
      OBVIOUS
    <2>1. r \in Record
      BY <1>1
    <2>2. LatestFile(n, r) \in Write /\ LatestFile(n, r).file = "latest" /\ AttemptFile(n, r) \in Write
      BY <2>1, FileType DEF LatestFile
    <2>3. \A R : IgnoresLatest(R) => <<AttemptFile(n, r), LatestFile(n, r)>> \in R
      BY <2>2 DEF IgnoresLatest
    <2> QED BY <2>1, <2>2, <2>3, MutateShape
  <1> HIDE DEF ev, li, co, as, t, Latest
  <1>5. \A R : IgnoresLatest(R) =>
           /\ \A v \in Latest, w \in {ev, li, co, as, t} \cup Latest : <<v, w>> \in R
           /\ \A v \in {ev, li, co, as, t} \cup Latest, w \in Latest : <<v, w>> \in R
    BY <1>2 DEF IgnoresLatest, Latest, Mirror
  <1>6. /\ linking \in Seq(Write) /\ t \in Elements(linking)
        /\ Elements(linking) \subseteq {t, li} \cup Latest
        /\ \A R : AdmitsConclusion(R, ev, t, li, co, as) => InOrder(linking, R)
    <2> DEFINE first == <<t>>
               second == MutateWrites(n, Linked(E))
    <2>1. first \in Seq(Write) /\ Elements(first) = {t} /\ \A R : InOrder(first, R)
      <3>1. t \in Write
        BY <1>2
      <3>2. first \in Seq(Write)
        BY <3>1
      <3> QED BY <3>2, ElementsShort
    <2>2. second \in Seq(Write) /\ linking = first \o second
      BY <1>4
    <2> HIDE DEF first, second, linking
    <2>4. linking \in Seq(Write) /\ Elements(linking) = {t} \cup Elements(second)
      BY <2>1, <2>2, ConcatProperties, ElementsConcat
    <2>3. ASSUME NEW R, AdmitsConclusion(R, ev, t, li, co, as) PROVE InOrder(linking, R)
      <3>1. \A v \in Elements(first), w \in Elements(second) : <<v, w>> \in R
        BY <1>4, <1>5, <2>1, <2>3 DEF AdmitsConclusion, li, second
      <3>2. InOrder(second, R)
        BY <1>4, <2>3 DEF AdmitsConclusion, second
      <3> QED BY <2>1, <2>2, <3>1, <3>2, OrderConcat
    <2> QED BY <1>4, <2>4, <2>3 DEF li, second
  <1>7. /\ verdict \in Seq(Write) /\ co \in Elements(verdict)
        /\ e.verdict = "fail" => t \in Elements(verdict)
        /\ Elements(verdict) \subseteq (IF e.verdict = "fail" THEN {t, li} ELSE {}) \cup {co} \cup Latest
        /\ \A R : AdmitsConclusion(R, ev, t, li, co, as) => InOrder(verdict, R)
    <2>1. CASE e.verdict = "pass"
      <3>1. verdict = MutateWrites(n, C)
        BY <2>1
      <3>2. /\ MutateWrites(n, C) \in Seq(Write)
            /\ co \in Elements(MutateWrites(n, C))
            /\ Elements(MutateWrites(n, C)) \subseteq {co} \cup Latest
            /\ \A R : IgnoresLatest(R) => InOrder(MutateWrites(n, C), R)
        BY <1>4 DEF co
      <3> HIDE DEF verdict
      <3>3. \A R : AdmitsConclusion(R, ev, t, li, co, as) => InOrder(verdict, R)
        BY <3>1, <3>2 DEF AdmitsConclusion
      <3> QED BY <2>1, <3>1, <3>2, <3>3
    <2>2. CASE e.verdict = "fail"
      <3>1. verdict = linking \o MutateWrites(n, C)
        BY <2>2
      <3> HIDE DEF linking, verdict
      <3>2. verdict \in Seq(Write) /\ Elements(verdict) = Elements(linking) \cup Elements(MutateWrites(n, C))
        BY <1>4, <1>6, <3>1, ConcatProperties, ElementsConcat
      <3>3. ASSUME NEW R, AdmitsConclusion(R, ev, t, li, co, as)
            PROVE  InOrder(verdict, R)
        <4>1. \A v \in Elements(linking), w \in Elements(MutateWrites(n, C)) : <<v, w>> \in R
          BY <1>4, <1>5, <1>6, <3>3 DEF AdmitsConclusion, co
        <4> QED BY <1>4, <1>6, <3>1, <3>3, <4>1, OrderConcat DEF AdmitsConclusion
      <3>4. co \in Elements(MutateWrites(n, C)) /\ Elements(MutateWrites(n, C)) \subseteq {co} \cup Latest
        BY <1>4 DEF co
      <3>5. Elements(verdict) \subseteq {t, li} \cup {co} \cup Latest
        BY <1>6, <3>2, <3>4
      <3>6. verdict \in Seq(Write) /\ co \in Elements(verdict) /\ t \in Elements(verdict)
        BY <1>6, <3>2, <3>4
      <3> QED BY <2>2, <3>3, <3>5, <3>6
    <2> QED BY <1>1, <2>1, <2>2
  <1> HIDE DEF verdict
  <1>8. /\ most \in Seq(Write) /\ Elements(most) = Elements(MutateWrites(n, E)) \cup Elements(verdict)
        /\ \A R : AdmitsConclusion(R, ev, t, li, co, as) => InOrder(most, R)
    <2>1. most \in Seq(Write) /\ Elements(most) = Elements(MutateWrites(n, E)) \cup Elements(verdict)
      BY <1>4, <1>7, ConcatProperties, ElementsConcat
    <2>2. ASSUME NEW R, AdmitsConclusion(R, ev, t, li, co, as)
          PROVE  InOrder(most, R)
      <3>1. \A v \in Elements(MutateWrites(n, E)), w \in Elements(verdict) : <<v, w>> \in R
        <4>1. Elements(verdict) \subseteq {t, li, co} \cup Latest
          BY <1>7
        <4> QED BY <1>4, <1>5, <2>2, <4>1 DEF AdmitsConclusion, ev
      <3> QED BY <1>4, <1>7, <2>2, <3>1, OrderConcat DEF AdmitsConclusion
    <2> HIDE DEF most
    <2> QED BY <2>1, <2>2
  <1> HIDE DEF most
  <1>9. /\ assess \in Seq(Write) /\ Elements(assess) \subseteq {as} \cup Latest
        /\ \A R : IgnoresLatest(R) => InOrder(assess, R)
    BY <1>4, EmptySeq, ElementsShort DEF as
  <1> HIDE DEF assess
  <1>10. s \in Seq(Write) /\ Elements(s) = Elements(most) \cup Elements(assess)
    BY <1>3, <1>8, <1>9, ConcatProperties, ElementsConcat
  <1>11. Elements(s) \subseteq {ev} \cup (IF e.verdict = "fail" THEN {t, li} ELSE {}) \cup {co, as} \cup Latest
    BY <1>4, <1>7, <1>8, <1>9, <1>10 DEF ev
  <1>12. ASSUME NEW R, AdmitsConclusion(R, ev, t, li, co, as)
         PROVE  InOrder(s, R)
    <2>1. InOrder(most, R) /\ InOrder(assess, R)
      BY <1>8, <1>9, <1>12 DEF AdmitsConclusion
    <2>2. Elements(most) \subseteq {ev, t, li, co} \cup Latest
      BY <1>4, <1>7, <1>8 DEF ev
    <2>3. \A v \in Elements(most), w \in Elements(assess) : <<v, w>> \in R
      BY <1>5, <1>9, <1>12, <2>2 DEF AdmitsConclusion
    <2> QED BY <1>3, <1>8, <1>9, <2>1, <2>3, OrderConcat
  <1>13. /\ co \in Elements(s)
         /\ e.verdict = "fail" => t \in Elements(s)
         /\ e.verdict = "fail" => Elements(s) \subseteq Latest \cup {ev, li, co, as, t}
         /\ e.verdict # "fail" => Elements(s) \subseteq Latest \cup {ev, co, as}
    BY <1>7, <1>8, <1>10, <1>11
  <1> QED
    BY <1>2, <1>10, <1>12, <1>13 DEF s, E, C, A, T, ev, li, co, as, t, Latest

-----------------------------------------------------------------------------
(***************************************************************************)
(* What a section of an evaluation decides to write.  Record r may have an *)
(* execution and a review that attempt a does not show yet.                *)
(***************************************************************************)
Due == Elements(writes)

Revised(a) ==
    {r \in Record : r = [a EXCEPT !.execution = r.execution, !.semantic_review = r.semantic_review]}

RowsDiffer(a) ==
    a.execution # None /\ a.execution.status = "success" /\ a.execution.rows # golden

(* A suspended task's attempt is not final, nor will a write that is due   *)
(* make it so; what the task has checked before its await is still so.     *)
SuspendedIsOpen ==
    \A n \in AttemptNo : tasks[n].running # "idle" =>
        /\ attempts[n].state \notin Final
        /\ \A w \in Due : w.file = "attempt" /\ w.no = n => w.value.state \notin Final
        /\ tasks[n].running = "explaining" => attempts[n].body \notin Parses
        /\ tasks[n].running = "reviewing" =>
              /\ \A w \in Due : w.file = "attempt" /\ w.no = n => RowsDiffer(w.value)
              /\ RowsDiffer(attempts[n]) \/ \E w \in Due : w.file = "attempt" /\ w.no = n

(* The sections of an evaluation: the task raises, finds nothing to do or  *)
(* awaits; it stores rows for the reviewer; it stores why it gives up; or  *)
(* it concludes, with evidence.                                            *)
Idles(n) ==
    /\ writes' = <<>>
    /\ tasks'[n].raised \/ attempts[n].state \in Settled \/ tasks'[n].running # "idle"
    /\ tasks'[n].running \in {"idle", "executing", "explaining"}
    /\ tasks'[n].running # "idle" => attempts[n].state \notin Final
    /\ tasks'[n].running = "explaining" => attempts[n].body \notin Parses

Stores(n, r) ==
    /\ writes' = MutateWrites(n, r)
    /\ tasks'[n].running = "reviewing" /\ RowsDiffer(r)

GivesUp(n, r) ==
    /\ \E state \in {"tugraph_execution_failed", "semantic_review_invalid"} :
          writes' = MutateWrites(n, r) \o MutateWrites(n, [r EXCEPT !.state = state])
    /\ tasks'[n].running = "idle"

Concludes(n, r, e) ==
    /\ writes' \in {ConcludeWrites(n, r, e), MutateWrites(n, r) \o ConcludeWrites(n, r, e)}
    /\ HasEvidence([r EXCEPT !.evaluation = e])
    /\ tasks'[n].running = "idle"

(* An evaluation's section that does not idle. *)
Decides(n, r) ==
    Stores(n, r) \/ GivesUp(n, r) \/ \E e \in Evaluation : Concludes(n, r, e)

LEMMA RevisedFields ==
    ASSUME NEW a \in Record
    PROVE  /\ a \in Revised(a)
           /\ \A execution \in Execution : [a EXCEPT !.execution = execution] \in Revised(a)
           /\ \A review \in {"pass", "fail", "invalid"} : [a EXCEPT !.semantic_review = review] \in Revised(a)
           /\ \A r \in Revised(a) :
                 /\ r \in Record /\ r.run = a.run /\ r.body = a.body /\ r.state = a.state
                 /\ r.generation_status = a.generation_status /\ r.evaluation = a.evaluation
                 /\ r.issue_ticket = a.issue_ticket /\ r.improvement = a.improvement
  BY DEF Revised, Record

LEMMA TaskFields ==
    ASSUME NEW t \in Tasks
    PROVE  /\ Ended(t).running = "idle" /\ Raised(t).running = "idle"
           /\ Raised(t).raised /\ Ended(t).raised = t.raised
           /\ Ended(t).waiting = t.waiting /\ Raised(t).waiting = t.waiting
  BY DEF Ended, Raised, Tasks

LEMMA StartSections ==
    ASSUME OwnershipInv, SuspendedIsOpen, FinalStateIsBacked,
           NEW n \in AttemptNo, StartEvaluation(n)
    PROVE  \/ Idles(n)
           \/ /\ golden # None /\ n \in DOMAIN attempts /\ attempts[n].state \notin Final
              /\ \E r \in Revised(attempts[n]) : Decides(n, r)
  <1> DEFINE t == [tasks[n] EXCEPT !.waiting = @ - 1]
  <1>1. t \in Tasks /\ tasks \in [AttemptNo -> Tasks]
    <2>1. tasks[n] \in Tasks /\ tasks[n].waiting - 1 \in Nat
      BY DEF OwnershipInv, TypeOK, StartEvaluation, Tasks
    <2>2. ASSUME NEW k \in Nat PROVE [tasks[n] EXCEPT !.waiting = k] \in Tasks
      BY <2>1 DEF Tasks
    <2> QED BY <2>1, <2>2 DEF OwnershipInv, TypeOK
  <1>2. writes = <<>> /\ (n \in DOMAIN attempts => attempts[n] \in Record)
    BY AttemptDomain DEF StartEvaluation, LoopIdle, OwnershipInv
  <1>3. \A pc : [t EXCEPT !.running = pc].running = pc
    BY <1>1 DEF Tasks
  <1>4. Final \subseteq Settled
    BY DEF Final, Settled
  <1>5. n \in DOMAIN attempts /\ attempts[n].state \in Final => attempts[n].evaluation # None
    BY DEF FinalStateIsBacked, Final
  <1> HIDE DEF t
  <1>6. CASE tasks' = [tasks EXCEPT ![n] = Raised(t)] /\ UNCHANGED writes
    BY <1>1, <1>2, <1>6, TaskFields DEF Idles, Suspended, StartEvaluation, LoopIdle
  <1>7. CASE /\ n \in DOMAIN attempts /\ attempts[n].state \in Settled
             /\ tasks' = [tasks EXCEPT ![n] = Ended(t)] /\ UNCHANGED writes
    BY <1>1, <1>2, <1>7, TaskFields DEF Idles, Suspended, StartEvaluation, LoopIdle
  <1>8. CASE /\ golden # None /\ n \in DOMAIN attempts
             /\ attempts[n].evaluation = None \/ attempts[n].state \notin Settled
             /\ attempts[n].generation_status = "generation_failed"
             /\ tasks' = [tasks EXCEPT ![n] = Ended(t)]
             /\ writes' = ConcludeWrites(n, attempts[n], BuildEvaluationSummary(0, "not_run", "not_run"))
    <2> DEFINE e == BuildEvaluationSummary(0, "not_run", "not_run")
    <2>1. e \in Evaluation /\ e.reason = "grammar_failed"
      BY EvaluationType DEF BuildEvaluationSummary, BuildExecutionAccuracy, Score
    <2>2. attempts[n] \in Record /\ attempts[n] \in Revised(attempts[n])
      BY <1>2, <1>8, RevisedFields
    <2>3. tasks'[n].running = "idle"
      BY <1>1, <1>8, TaskFields
    <2> HIDE DEF e
    <2>4. HasEvidence([attempts[n] EXCEPT !.evaluation = e])
      BY <1>8, <2>1, <2>2 DEF HasEvidence, Record
    <2>5. Decides(n, attempts[n])
      BY <1>8, <2>1, <2>3, <2>4 DEF Decides, Concludes, e
    <2>6. attempts[n].state \notin Final
      BY <1>4, <1>5, <1>8
    <2> QED BY <1>8, <2>2, <2>5, <2>6
  <1>9. CASE /\ golden # None /\ n \in DOMAIN attempts
             /\ attempts[n].evaluation = None \/ attempts[n].state \notin Settled
             /\ tasks' = [tasks EXCEPT ![n] = [t EXCEPT !.running =
                                    IF attempts[n].body \in Parses THEN "executing" ELSE "explaining"]]
             /\ UNCHANGED writes
    <2>1. tasks'[n].running = IF attempts[n].body \in Parses THEN "executing" ELSE "explaining"
      BY <1>1, <1>3, <1>9
    <2> QED BY <1>2, <1>4, <1>5, <1>9, <2>1 DEF Idles
  <1> QED BY <1>6, <1>7, <1>8, <1>9 DEF StartEvaluation, t

LEMMA ResumeSections ==
    ASSUME OwnershipInv, SuspendedIsOpen, NEW n \in AttemptNo,
           GrammarExplained(n) \/ (\E execution \in Execution : QueryExecuted(n, execution))
               \/ SemanticReviewed(n)
    PROVE  \/ Idles(n)
           \/ /\ golden # None /\ n \in DOMAIN attempts /\ attempts[n].state \notin Final
              /\ \E r \in Revised(attempts[n]) : Decides(n, r)
  <1>1. /\ golden \in Answers /\ n \in DOMAIN attempts /\ attempts[n] \in Record
        /\ attempts[n].state \notin Final /\ writes = <<>> /\ golden # None
    BY AttemptDomain DEF OwnershipInv, TypeOK, Suspension, SuspendedIsOpen, LoopIdle,
       GrammarExplained, QueryExecuted, SemanticReviewed
  <1>2. /\ tasks \in [AttemptNo -> Tasks] /\ tasks[n] \in Tasks
        /\ Ended(tasks[n]).running = "idle" /\ Raised(tasks[n]).running = "idle"
        /\ Raised(tasks[n]).raised
        /\ [tasks[n] EXCEPT !.running = "reviewing"].running = "reviewing"
    <2>1. tasks[n] \in Tasks /\ tasks \in [AttemptNo -> Tasks]
      BY DEF OwnershipInv, TypeOK
    <2> QED BY <2>1, TaskFields DEF Tasks
  <1>3. \A g \in Score, strict, semantic \in {"pass", "fail", "not_run"} :
           BuildEvaluationSummary(g, strict, semantic) \in Evaluation
    BY EvaluationType
  <1>4. CASE tasks' = [tasks EXCEPT ![n] = Raised(@)] /\ UNCHANGED writes
    BY <1>1, <1>2, <1>4 DEF Idles
  <1>5. CASE /\ GrammarExplained(n)
             /\ tasks' = [tasks EXCEPT ![n] = Ended(@)]
             /\ writes' = ConcludeWrites(n, attempts[n], BuildEvaluationSummary(0, "not_run", "not_run"))
    <2> DEFINE e == BuildEvaluationSummary(0, "not_run", "not_run")
    <2>1. e \in Evaluation /\ e.reason = "grammar_failed"
      BY <1>3 DEF BuildEvaluationSummary, BuildExecutionAccuracy, Score
    <2>2. attempts[n] \in Revised(attempts[n]) /\ attempts[n].body \notin Parses
      BY <1>1, <1>5, RevisedFields DEF SuspendedIsOpen, GrammarExplained
    <2>3. tasks'[n].running = "idle"
      BY <1>2, <1>5
    <2> HIDE DEF e
    <2>4. HasEvidence([attempts[n] EXCEPT !.evaluation = e])
      BY <1>1, <2>1, <2>2 DEF HasEvidence, Record
    <2>5. Decides(n, attempts[n])
      BY <1>5, <2>1, <2>3, <2>4 DEF Decides, Concludes, e
    <2> QED BY <1>1, <2>2, <2>5
  <1>6. ASSUME NEW execution \in Execution, QueryExecuted(n, execution)
        PROVE  \E r \in Revised(attempts[n]) : Decides(n, r)
    <2> DEFINE r == [attempts[n] EXCEPT !.execution = execution]
    <2>1. r \in Revised(attempts[n]) /\ r.execution = execution /\ execution # None
          /\ r \in Record
      <3>1. r \in Revised(attempts[n]) /\ r.execution = execution
        BY <1>1, RevisedFields DEF Record
      <3>2. execution # None
        BY AbsentAssumption
      <3> QED BY <3>1, <3>2 DEF Revised
    <2> HIDE DEF r
    <2>2. CASE execution.status = "failed"
      <3>1. GivesUp(n, r)
        BY <1>2, <1>6, <2>2 DEF QueryExecuted, GivesUp, r
      <3> QED BY <2>1, <3>1 DEF Decides
    <2>3. CASE execution.status = "success" /\ execution.rows = golden
      <3> DEFINE e == BuildEvaluationSummary(1, "pass", "not_run")
      <3>1. e \in Evaluation /\ e.reason = "strict_equal"
        BY <1>3 DEF BuildEvaluationSummary, BuildExecutionAccuracy, Score
      <3> HIDE DEF e
      <3>2. HasEvidence([r EXCEPT !.evaluation = e])
        BY <2>1, <2>3, <3>1 DEF HasEvidence, Record
      <3>3. tasks'[n].running = "idle" /\ writes' = MutateWrites(n, r) \o ConcludeWrites(n, r, e)
        BY <1>2, <1>6, <2>3 DEF QueryExecuted, r, e
      <3> QED BY <2>1, <3>1, <3>2, <3>3 DEF Decides, Concludes
    <2>4. CASE execution.status = "success" /\ execution.rows # golden
      <3>1. Stores(n, r)
        BY <1>2, <1>6, <2>1, <2>4 DEF QueryExecuted, Stores, RowsDiffer, r
      <3> QED BY <2>1, <3>1 DEF Decides
    <2> QED BY <1>6, <2>2, <2>3, <2>4 DEF QueryExecuted
  <1>7. ASSUME SemanticReviewed(n), NEW review \in {"pass", "fail"},
               tasks' = [tasks EXCEPT ![n] = Ended(@)],
               writes' = MutateWrites(n, [attempts[n] EXCEPT !.semantic_review = review]) \o
                       ConcludeWrites(n, [attempts[n] EXCEPT !.semantic_review = review],
                                      BuildEvaluationSummary(1, "fail", review))
        PROVE  \E r \in Revised(attempts[n]) : Decides(n, r)
    <2> DEFINE r == [attempts[n] EXCEPT !.semantic_review = review]
               e == BuildEvaluationSummary(1, "fail", review)
    <2>1. /\ r \in Revised(attempts[n]) /\ r \in Record
          /\ r.execution = attempts[n].execution /\ r.semantic_review = review
      BY <1>1, RevisedFields DEF Record
    <2>2. e \in Evaluation
          /\ e.reason = IF review = "pass" THEN "semantic_equivalent" ELSE "not_equivalent"
      BY <1>3 DEF BuildEvaluationSummary, BuildExecutionAccuracy, Score
    <2>3. RowsDiffer(attempts[n])
      BY <1>1, <1>7, ElementsShort DEF SemanticReviewed, SuspendedIsOpen, Due
    <2>4. tasks'[n].running = "idle" /\ writes' = MutateWrites(n, r) \o ConcludeWrites(n, r, e)
      BY <1>2, <1>7
    <2> HIDE DEF r, e
    <2>5. HasEvidence([r EXCEPT !.evaluation = e])
      BY <2>1, <2>2, <2>3 DEF HasEvidence, RowsDiffer, Record
    <2> QED BY <2>1, <2>2, <2>4, <2>5 DEF Decides, Concludes
  <1>8. CASE /\ tasks' = [tasks EXCEPT ![n] = Ended(@)]
             /\ writes' = MutateWrites(n, [attempts[n] EXCEPT !.semantic_review = "invalid"]) \o
                    MutateWrites(n, [[attempts[n] EXCEPT !.semantic_review = "invalid"]
                                        EXCEPT !.state = "semantic_review_invalid"])
    <2> DEFINE r == [attempts[n] EXCEPT !.semantic_review = "invalid"]
    <2>1. r \in Revised(attempts[n])
      BY <1>1, RevisedFields
    <2>2. GivesUp(n, r)
      BY <1>2, <1>8 DEF GivesUp
    <2> HIDE DEF r
    <2> QED BY <1>1, <2>1, <2>2 DEF Decides
  <1>9. CASE GrammarExplained(n)
    BY <1>1, <1>4, <1>5, <1>9, RevisedFields DEF GrammarExplained
  <1>10. CASE SemanticReviewed(n)
    <2>1. CASE \E review \in {"pass", "fail"} :
                 /\ tasks' = [tasks EXCEPT ![n] = Ended(@)]
                 /\ writes' = MutateWrites(n, [attempts[n] EXCEPT !.semantic_review = review]) \o
                       ConcludeWrites(n, [attempts[n] EXCEPT !.semantic_review = review],
                                      BuildEvaluationSummary(1, "fail", review))
      <3>1. \E r \in Revised(attempts[n]) : Decides(n, r)
        BY <1>7, <1>10, <2>1
      <3> QED BY <1>1, <3>1
    <2> QED BY <1>4, <1>8, <1>10, <2>1 DEF SemanticReviewed
  <1> QED BY <1>1, <1>6, <1>9, <1>10

-----------------------------------------------------------------------------
(***************************************************************************)
(* The verdict on file.  What an attempt claims must hold already of every *)
(* write that is due, in the order the writes are made: the ticket before  *)
(* the state that announces it, and no step back to ready.                 *)
(***************************************************************************)
Lasting ==
    {p \in Write \X Write :
        LET v == p[1]
            w == p[2]
        IN v.file = "attempt" =>
              /\ w.file = "ticket" => v.value.state # "issue_ticket_created"
              /\ (w.file = "attempt" /\ v.value.state # "ready_to_evaluate")
                    => w.value.state # "ready_to_evaluate"}

(* A pushed golden repeats the one on file. *)
DueGolden ==
    \A w \in Due : w.file = "golden" =>
        golden \in {None, w.value} /\ \A v \in Due : v.file = "golden" => v.value = w.value

(* A ticket that is due is of an attempt not yet marked, and is what every *)
(* record claims that its section marks later.                             *)
DueTickets ==
    \A t \in Due : t.file = "ticket" =>
        /\ t.value.golden = golden
        /\ t.no \in DOMAIN attempts /\ attempts[t.no].state # "issue_ticket_created"
        /\ \A w \in Due : w.file = "attempt" =>
              /\ w.no = t.no
              /\ w.value.state = "issue_ticket_created" => t.value = Claim(w.value)

(* A final record that is due has its evaluation, evidence and ticket. *)
IsBacked(n, a) ==
    /\ golden # None /\ a.evaluation # None /\ HasEvidence(a)
    /\ a.state = "passed" => a.evaluation.verdict = "pass"
    /\ a.state = "issue_ticket_created" =>
          /\ a.evaluation.verdict = "fail" /\ a.issue_ticket
          /\ tickets[n] = Claim(a) \/ TicketFile(n, Claim(a)) \in Due

DueVerdicts ==
    \A w \in Due : w.file = "attempt" /\ w.value.state \in Final => IsBacked(w.no, w.value)

DueBodies ==
    \A w \in Due : w.file = "attempt" /\ w.no \in DOMAIN attempts => w.value.body = attempts[w.no].body

(* A record that is due is of an attempt on file or of the next one. *)
DueNumbers ==
    \A w \in Due : w.file = "attempt" => w.no \in DOMAIN attempts \/ w.no = Len(attempts) + 1

FinalHasGolden == \A n \in DOMAIN attempts : attempts[n].state \in Final => golden # None

DueSound ==
    /\ InOrder(writes, Lasting) /\ DueGolden /\ DueTickets /\ DueVerdicts /\ DueBodies /\ DueNumbers
    /\ SuspendedIsOpen

VerdictInv ==
    OwnershipInv /\ DueSound /\ FinalHasGolden /\ FinalStateIsBacked /\ VerdictHasEvidence

LEMMA LastingIgnoresLatest == IgnoresLatest(Lasting)
  BY DEF IgnoresLatest, Lasting

(* Writes that neither issue a ticket nor mark a final attempt. *)
IsPlain(w) ==
    /\ w \in Write
    /\ w.file \in {"receipt", "report", "latest", "golden", "attempt"}
    /\ w.file = "attempt" =>
          /\ w.value.state \notin Final
          /\ w.no \in DOMAIN attempts => w.value.body = attempts[w.no].body
          /\ w.no \in DOMAIN attempts \/ w.no = Len(attempts) + 1

(* A section of plain writes for attempts whose evaluation is not running. *)
LEMMA PlainSection ==
    ASSUME VerdictInv, UNCHANGED files, InOrder(writes', Lasting),
           \A w \in Due' : IsPlain(w), DueGolden', SuspendedIsOpen'
    PROVE  DueSound'
  <1>1. UNCHANGED <<golden, attempts, tickets>>
    BY DEF files
  <1>2. DueTickets' /\ DueVerdicts' /\ DueBodies' /\ DueNumbers'
    BY <1>1 DEF DueTickets, DueVerdicts, DueBodies, DueNumbers, IsPlain
  <1> QED BY <1>2 DEF DueSound

(* The write of a record, of an attempt on file or, as a section's last, of *)
(* the next attempt.                                                        *)
LEMMA AttemptWritten ==
    ASSUME OwnershipInv, DueNumbers, WriteFile, Head(writes).file = "attempt"
    PROVE  /\ UNCHANGED <<golden, receipt, reports, latest, tickets>>
           /\ DOMAIN attempts' = DOMAIN attempts \cup {Head(writes).no}
           /\ \A n \in DOMAIN attempts' :
                 attempts'[n] = IF n = Head(writes).no THEN Head(writes).value ELSE attempts[n]
           /\ Head(writes).no \notin DOMAIN attempts =>
                 Due' = {} /\ Head(writes).no = Len(attempts) + 1
                 /\ Len(attempts') = Len(attempts) + 1
           /\ Head(writes).no \in DOMAIN attempts => Len(attempts') = Len(attempts)
  <1> DEFINE w == Head(writes)
  <1>1. /\ writes \in Seq(Write) /\ writes # <<>> /\ w = writes[1] /\ 1 \in DOMAIN writes
        /\ w \in Write /\ w \in Due /\ Len(writes') = Len(writes) - 1 /\ writes' \in Seq(Write)
        /\ Len(writes) \in Nat
    <2>1. writes \in Seq(Write) /\ writes # <<>>
      BY DEF OwnershipInv, TypeOK, WriteFile
    <2>2. w = writes[1] /\ 1 \in DOMAIN writes /\ w \in Write
      BY <2>1, HeadTailProperties, LenProperties
    <2> QED BY <2>1, <2>2, HeadTailProperties, LenProperties DEF WriteFile, Due, Elements
  <1>2. /\ attempts \in Seq(Record) /\ DOMAIN attempts = 1 .. Len(attempts) /\ Len(attempts) \in Nat
        /\ w.value \in Record
    BY <1>1, LenProperties DEF OwnershipInv, TypeOK, Write
  <1>3. UNCHANGED <<golden, receipt, reports, latest, tickets>>
    BY DEF WriteFile
  <1>4. CASE w.no \in DOMAIN attempts
    <2>1. attempts' = [attempts EXCEPT ![w.no] = w.value]
      BY <1>4 DEF WriteFile
    <2> HIDE DEF w
    <2>2. Len(attempts') = Len(attempts)
      BY <1>2, <1>4, <2>1, ExceptSeq
    <2> QED BY <1>2, <1>3, <1>4, <2>1, <2>2 DEF w
  <1>5. CASE w.no \notin DOMAIN attempts
    <2>1. attempts' = Append(attempts, w.value) /\ w.no = Len(attempts) + 1
      BY <1>1, <1>5 DEF WriteFile, DueNumbers
    <2>2. Len(writes) = 1
      BY <1>1, <1>5 DEF OwnershipInv, PendingAttempts
    <2> HIDE DEF w
    <2>3. /\ DOMAIN attempts' = 1 .. (Len(attempts) + 1) /\ Len(attempts') = Len(attempts) + 1
          /\ \A n \in DOMAIN attempts : attempts'[n] = attempts[n]
          /\ attempts'[Len(attempts) + 1] = w.value
      BY <1>2, <2>1, AppendProperties, LenProperties
    <2>4. Due' = {}
      <3>1. writes' = <<>>
        BY <1>1, <2>2, EmptySeq
      <3> QED BY <3>1 DEF Due, Elements
    <2>5. DOMAIN attempts' = DOMAIN attempts \cup {w.no}
      BY <1>2, <2>1, <2>3
    <2>6. \A n \in DOMAIN attempts' : attempts'[n] = IF n = w.no THEN w.value ELSE attempts[n]
      BY <1>2, <1>5, <2>1, <2>3
    <2> QED BY <1>3, <1>5, <2>1, <2>3, <2>4, <2>5, <2>6 DEF w
  <1> QED BY <1>4, <1>5

(* The other writes that are due when one is performed. *)
LEMMA DueShrinks ==
    ASSUME TypeOK, WriteFile
    PROVE  /\ Head(writes) \in Write /\ Head(writes) \in Due
           /\ Due = {Head(writes)} \cup Due' /\ Due' \subseteq Due /\ Due \subseteq Write
           /\ \A R : InOrder(writes, R) => InOrder(writes', R)
                        /\ \A v \in Due' : <<Head(writes), v>> \in R
  <1>1. writes \in Seq(Write) /\ writes # <<>> /\ writes' = Tail(writes)
    BY DEF TypeOK, WriteFile
  <1>2. Head(writes) \in Write /\ Due \subseteq Write
    BY <1>1, HeadTailProperties, ElementsType DEF Due
  <1> QED BY <1>1, <1>2, ElementsTail DEF Due

(* Performing one write. *)
LEMMA WriteVerdict ==
    ASSUME VerdictInv, OwnershipInv', WriteFile
    PROVE  VerdictInv'
  <1> DEFINE w == Head(writes)
             E == Due'
  <1>1. /\ w \in Write /\ w \in Due /\ Due = {w} \cup E /\ E \subseteq Due /\ Due \subseteq Write
        /\ InOrder(writes', Lasting) /\ \A v \in E : <<w, v>> \in Lasting
    BY DueShrinks DEF VerdictInv, OwnershipInv, DueSound
  <1>2. UNCHANGED tasks
    BY DEF WriteFile
  <1>3. \A t \in Due : t.file = "ticket" => t.value.golden \in Answers /\ t.value.golden # None
    BY <1>1, NoneAssumption DEF Write, Ticket
  <1>4. w.file = "attempt" =>
           /\ UNCHANGED <<golden, tickets>>
           /\ DOMAIN attempts' = DOMAIN attempts \cup {w.no}
           /\ \A n \in DOMAIN attempts' : attempts'[n] = IF n = w.no THEN w.value ELSE attempts[n]
           /\ w.no \notin DOMAIN attempts => E = {}
           /\ Len(attempts') = Len(attempts) \/ E = {}
    BY AttemptWritten DEF VerdictInv, DueSound
  <1>5. w.file # "attempt" => UNCHANGED attempts
    BY DEF WriteFile
  <1>6. w.file # "ticket" => UNCHANGED tickets
    BY DEF WriteFile
  <1>7. w.file = "ticket" => UNCHANGED golden /\ w.no \in AttemptNo /\ tickets' = [tickets EXCEPT ![w.no] = w.value]
    BY <1>1 DEF WriteFile, Write
  <1>8. w.file # "golden" => UNCHANGED golden
    BY DEF WriteFile
  <1>9. w.file = "golden" => golden \in {None, w.value} /\ golden' = w.value
    BY <1>1 DEF WriteFile, VerdictInv, DueSound, DueGolden
  <1> HIDE DEF w, E
  <1>10. CASE UNCHANGED <<golden, attempts, tickets>> /\ w.file \notin {"attempt", "ticket"}
    <2>1. UNCHANGED <<golden, attempts, tickets>>
      BY <1>10
    <2>2. DueTickets' /\ DueGolden' /\ DueBodies' /\ DueNumbers'
      BY <1>1, <2>1 DEF VerdictInv, DueSound, DueTickets, DueGolden, DueBodies, DueNumbers, Claim, E
    <2>3. DueVerdicts'
      <3> SUFFICES ASSUME NEW v \in E, v.file = "attempt", v.value.state \in Final
                   PROVE  IsBacked(v.no, v.value)'
        BY DEF DueVerdicts, E
      <3>1. IsBacked(v.no, v.value)
        BY <1>1 DEF VerdictInv, DueSound, DueVerdicts
      <3>2. TicketFile(v.no, Claim(v.value)) \in Due => TicketFile(v.no, Claim(v.value)) \in E
        BY <1>1, <1>10 DEF TicketFile
      <3> QED BY <2>1, <3>1, <3>2 DEF IsBacked, HasEvidence, Claim, E
    <2>4. SuspendedIsOpen'
      BY <1>1, <1>2, <1>10, <2>1 DEF VerdictInv, DueSound, SuspendedIsOpen, RowsDiffer, E
    <2>5. FinalHasGolden' /\ FinalStateIsBacked' /\ VerdictHasEvidence'
      BY <2>1 DEF VerdictInv, FinalHasGolden, FinalStateIsBacked, VerdictHasEvidence, HasEvidence
    <2> QED BY <1>1, <2>2, <2>3, <2>4, <2>5 DEF VerdictInv, DueSound
  <1>11. CASE golden = None /\ w.file = "golden"
    <2>1. UNCHANGED <<attempts, tickets>> /\ golden' = w.value
      BY <1>5, <1>6, <1>9, <1>11
    <2>2. \A v \in E : v.file # "ticket" /\ (v.file = "attempt" => v.value.state \notin Final)
      BY <1>1, <1>3, <1>11 DEF VerdictInv, DueSound, DueTickets, DueVerdicts, IsBacked
    <2>3. \A n \in DOMAIN attempts : attempts[n].state \notin Final
      BY <1>11 DEF VerdictInv, FinalHasGolden
    <2>4. \A n \in AttemptNo : tasks[n].running = "idle"
      BY <1>11 DEF VerdictInv, OwnershipInv, Suspension
    <2>5. DueGolden'
      <3>1. \A v \in Due : v.file = "golden" =>
                 v.value = w.value /\ \A u \in Due : u.file = "golden" => u.value = v.value
        BY <1>1, <1>11 DEF VerdictInv, DueSound, DueGolden
      <3> QED BY <1>1, <2>1, <3>1 DEF DueGolden, E
    <2>6. DueTickets' /\ DueVerdicts' /\ DueBodies' /\ DueNumbers'
      BY <1>1, <2>1, <2>2 DEF VerdictInv, DueSound, DueTickets, DueVerdicts, DueBodies, DueNumbers, E
    <2>7. SuspendedIsOpen' /\ FinalHasGolden' /\ FinalStateIsBacked' /\ VerdictHasEvidence'
      BY <1>2, <2>1, <2>3, <2>4 DEF SuspendedIsOpen, FinalHasGolden, FinalStateIsBacked,
         VerdictHasEvidence, Final
    <2> QED BY <1>1, <2>5, <2>6, <2>7 DEF VerdictInv, DueSound
  <1>12. CASE w.file = "attempt"
    <2>1. DueGolden' /\ DueNumbers'
      BY <1>1, <1>4, <1>12 DEF VerdictInv, DueSound, DueGolden, DueNumbers, E
    <2>2. DueTickets'
      <3> SUFFICES ASSUME NEW t \in E, t.file = "ticket"
                   PROVE  /\ t.value.golden = golden'
                          /\ t.no \in DOMAIN attempts' /\ attempts'[t.no].state # "issue_ticket_created"
                          /\ \A v \in E : v.file = "attempt" =>
                                /\ v.no = t.no
                                /\ v.value.state = "issue_ticket_created" => t.value = Claim(v.value)'
        BY DEF DueTickets, E
      <3>1. w.value.state # "issue_ticket_created"
        BY <1>1, <1>12 DEF Lasting
      <3> QED BY <1>1, <1>4, <1>12, <3>1 DEF VerdictInv, DueSound, DueTickets, Claim
    <2>3. DueVerdicts'
      <3> SUFFICES ASSUME NEW v \in E, v.file = "attempt", v.value.state \in Final
                   PROVE  IsBacked(v.no, v.value)'
        BY DEF DueVerdicts, E
      <3>1. IsBacked(v.no, v.value)
        BY <1>1 DEF VerdictInv, DueSound, DueVerdicts
      <3>2. TicketFile(v.no, Claim(v.value)) \in Due => TicketFile(v.no, Claim(v.value)) \in E
        BY <1>1, <1>12 DEF TicketFile
      <3> QED BY <1>4, <1>12, <3>1, <3>2 DEF IsBacked, HasEvidence, Claim, E
    <2>4. DueBodies'
      <3>1. w.no \in DOMAIN attempts => w.value.body = attempts[w.no].body
        BY <1>1, <1>12 DEF VerdictInv, DueSound, DueBodies
      <3> QED BY <1>1, <1>4, <1>12, <3>1 DEF VerdictInv, DueSound, DueBodies, E
    <2>5. SuspendedIsOpen'
      <3> SUFFICES ASSUME NEW n \in AttemptNo, tasks[n].running # "idle"
                   PROVE  /\ attempts'[n].state \notin Final
                          /\ \A v \in E : v.file = "attempt" /\ v.no = n => v.value.state \notin Final
                          /\ tasks[n].running = "explaining" => attempts'[n].body \notin Parses
                          /\ tasks[n].running = "reviewing" =>
                                /\ \A v \in E : v.file = "attempt" /\ v.no = n => RowsDiffer(v.value)'
                                /\ RowsDiffer(attempts[n])' \/ \E v \in E : v.file = "attempt" /\ v.no = n
        BY <1>2 DEF SuspendedIsOpen, E
      <3>1. n \in DOMAIN attempts
        BY DEF VerdictInv, OwnershipInv, Suspension
      <3>2. w.no = n => attempts'[n] = w.value /\ w.value.body = attempts[n].body
        BY <1>1, <1>4, <1>12, <3>1 DEF VerdictInv, DueSound, DueBodies
      <3>3. w.no # n => attempts'[n] = attempts[n]
        BY <1>4, <1>12, <3>1
      <3> QED
        BY <1>1, <1>4, <1>12, <3>1, <3>2, <3>3 DEF VerdictInv, DueSound, SuspendedIsOpen, RowsDiffer
    <2>6. w.value.state \in Final => IsBacked(w.no, w.value)
      BY <1>1, <1>12 DEF VerdictInv, DueSound, DueVerdicts
    <2>7. w.value.state = "issue_ticket_created" => tickets[w.no] = Claim(w.value)
      <3>1. ASSUME w.value.state = "issue_ticket_created" PROVE TicketFile(w.no, Claim(w.value)) \notin Due
        <4>1. \A t \in E : t.file # "ticket"
          BY <1>1, <1>12, <3>1 DEF Lasting
        <4> QED BY <1>1, <1>12, <4>1 DEF TicketFile
      <3> QED BY <2>6, <3>1 DEF IsBacked, Final
    <2>8. FinalHasGolden' /\ VerdictHasEvidence'
      BY <1>4, <1>12, <2>6 DEF VerdictInv, FinalHasGolden, VerdictHasEvidence, HasEvidence, IsBacked
    <2>9. FinalStateIsBacked'
      BY <1>4, <1>12, <2>6, <2>7 DEF VerdictInv, FinalStateIsBacked, IsBacked, Claim, Final
    <2> QED BY <1>1, <2>1, <2>2, <2>3, <2>4, <2>5, <2>8, <2>9 DEF VerdictInv, DueSound
  <1>13. CASE w.file = "ticket"
    <2>1. /\ UNCHANGED <<golden, attempts>> /\ w.no \in DOMAIN attempts
          /\ attempts[w.no].state # "issue_ticket_created"
          /\ \A n \in AttemptNo : tickets'[n] = IF n = w.no THEN w.value ELSE tickets[n]
      BY <1>1, <1>5, <1>7, <1>13 DEF VerdictInv, DueSound, DueTickets, OwnershipInv, TypeOK
    <2>2. DueTickets' /\ DueGolden' /\ DueBodies' /\ DueNumbers'
      BY <1>1, <2>1 DEF VerdictInv, DueSound, DueTickets, DueGolden, DueBodies, DueNumbers, Claim, E
    <2>3. DueVerdicts'
      <3> SUFFICES ASSUME NEW v \in E, v.file = "attempt", v.value.state \in Final
                   PROVE  IsBacked(v.no, v.value)'
        BY DEF DueVerdicts, E
      <3>1. IsBacked(v.no, v.value)
        BY <1>1 DEF VerdictInv, DueSound, DueVerdicts
      <3>2. v.no = w.no /\ (v.value.state = "issue_ticket_created" => w.value = Claim(v.value))
        BY <1>1, <1>13 DEF VerdictInv, DueSound, DueTickets
      <3>3. v.value.state = "issue_ticket_created" => tickets'[v.no] = Claim(v.value)
        BY <1>7, <1>13, <2>1, <3>2
      <3> QED BY <2>1, <3>1, <3>3 DEF IsBacked, HasEvidence, Claim
    <2>4. SuspendedIsOpen'
      BY <1>1, <1>2, <1>13, <2>1 DEF VerdictInv, DueSound, SuspendedIsOpen, RowsDiffer, E
    <2>5. FinalHasGolden' /\ VerdictHasEvidence'
      BY <2>1 DEF VerdictInv, FinalHasGolden, VerdictHasEvidence, HasEvidence
    <2>6. FinalStateIsBacked'
      <3>1. DOMAIN attempts \subseteq AttemptNo
        BY AttemptDomain DEF VerdictInv, OwnershipInv
      <3> QED BY <2>1, <3>1 DEF VerdictInv, FinalStateIsBacked
    <2> QED BY <1>1, <2>2, <2>3, <2>4, <2>5, <2>6 DEF VerdictInv, DueSound
  <1> QED BY <1>5, <1>6, <1>8, <1>9, <1>10, <1>11, <1>12, <1>13

(* The writes of a conclusion and of a section that ends in one. *)
LEMMA ConclusionSection ==
    ASSUME golden \in Answers, NEW n \in AttemptNo, NEW r \in Record, NEW e \in Evaluation,
           Concludes(n, r, e)
    PROVE  LET pr == AttemptFile(n, r)
               ev == AttemptFile(n, Evaluated(r, e))
               li == AttemptFile(n, Linked(Evaluated(r, e)))
               co == AttemptFile(n, Concluded(r, e))
               as == AttemptFile(n, Assessed(n, r, e))
               t == TicketFile(n, Claim(Evaluated(r, e)))
               Latest == Mirror(n)
           IN /\ {pr, ev, li, co, as, t} \subseteq Write
              /\ co \in Due'
              /\ e.verdict = "fail" => t \in Due' /\ Due' \subseteq Latest \cup {pr, ev, li, co, as, t}
              /\ e.verdict # "fail" => Due' \subseteq Latest \cup {pr, ev, co, as}
              /\ \A R : AdmitsConclusion(R, ev, t, li, co, as)
                        /\ (\A w \in {ev, t, li, co, as} : <<pr, w>> \in R) => InOrder(writes', R)
  <1> DEFINE pr == AttemptFile(n, r)
             ev == AttemptFile(n, Evaluated(r, e))
             li == AttemptFile(n, Linked(Evaluated(r, e)))
             co == AttemptFile(n, Concluded(r, e))
             as == AttemptFile(n, Assessed(n, r, e))
             t == TicketFile(n, Claim(Evaluated(r, e)))
             Latest == Mirror(n)
             s == ConcludeWrites(n, r, e)
             m == MutateWrites(n, r)
  <1>1. /\ s \in Seq(Write) /\ {ev, li, co, as, t} \subseteq Write
        /\ co \in Elements(s)
        /\ e.verdict = "fail" => t \in Elements(s)
        /\ e.verdict = "fail" => Elements(s) \subseteq Latest \cup {ev, li, co, as, t}
        /\ e.verdict # "fail" => Elements(s) \subseteq Latest \cup {ev, co, as}
        /\ \A R : AdmitsConclusion(R, ev, t, li, co, as) => InOrder(s, R)
    BY ConcludeShape
  <1>2. /\ m \in Seq(Write) /\ pr \in Write /\ Elements(m) \subseteq {pr} \cup Latest
        /\ \A R : IgnoresLatest(R) => InOrder(m, R)
    <2>1. /\ LatestFile(n, r) \in Write /\ LatestFile(n, r).file = "latest" /\ pr \in Write
      BY FileType DEF LatestFile
    <2>2. \A R : IgnoresLatest(R) => <<pr, LatestFile(n, r)>> \in R
      BY <2>1 DEF IgnoresLatest
    <2> HIDE DEF pr
    <2> QED BY <2>1, <2>2, MutateShape DEF pr
  <1>3. writes' \in {s, m \o s}
    BY DEF Concludes
  <1> HIDE DEF pr, ev, li, co, as, t, s, m, Latest
  <1>4. m \o s \in Seq(Write) /\ Elements(m \o s) = Elements(m) \cup Elements(s)
    BY <1>1, <1>2, ElementsConcat, ConcatProperties
  <1>5. ASSUME NEW R, AdmitsConclusion(R, ev, t, li, co, as),
               \A w \in {ev, t, li, co, as} : <<pr, w>> \in R
        PROVE  InOrder(s, R) /\ InOrder(m \o s, R)
    <2>1. InOrder(s, R) /\ InOrder(m, R)
      BY <1>1, <1>2, <1>5 DEF AdmitsConclusion
    <2>2. Elements(s) \subseteq Latest \cup {ev, li, co, as, t}
      BY <1>1
    <2>4. \A w \in Latest : w \in Write /\ w.file = "latest"
      BY DEF Latest, Mirror
    <2>3. \A v \in Elements(m), w \in Elements(s) : <<v, w>> \in R
      <3>1. \A v \in Write, w \in Write : v.file = "latest" \/ w.file = "latest" => <<v, w>> \in R
        BY <1>5 DEF AdmitsConclusion, IgnoresLatest
      <3> QED BY <1>1, <1>2, <1>5, <2>2, <2>4, <3>1
    <2> QED BY <1>1, <1>2, <2>1, <2>3, OrderConcat
  <1>6. \A R : AdmitsConclusion(R, ev, t, li, co, as)
               /\ (\A w \in {ev, t, li, co, as} : <<pr, w>> \in R) => InOrder(writes', R)
    BY <1>3, <1>5
  <1>7. Elements(s) \subseteq Due' /\ Due' \subseteq Elements(m) \cup Elements(s)
    BY <1>3, <1>4 DEF Due
  <1> QED
    BY <1>1, <1>2, <1>6, <1>7 DEF pr, ev, li, co, as, t, Latest

(* A concluded record is backed by the ticket that is due with it. *)
LEMMA ConcludedBacked ==
    ASSUME golden \in Answers, NEW n \in AttemptNo, NEW r \in Record, NEW e \in Evaluation,
           r.state \notin Final, HasEvidence([r EXCEPT !.evaluation = e]),
           e.verdict = "fail" => TicketFile(n, Claim(Evaluated(r, e))) \in Due',
           UNCHANGED <<golden, tickets>>,
           NEW x, x = Concluded(r, e) \/ x = Assessed(n, r, e)
    PROVE  IsBacked(n, x)'
  <1>1. e # None /\ golden # None /\ e.verdict \in {"pass", "fail"}
    BY AbsentAssumption, NoneAssumption DEF Evaluation
  <1>2. /\ x.run = r.run /\ x.evaluation = e /\ x.body = r.body
        /\ x.generation_status = r.generation_status
        /\ x.execution = r.execution /\ x.semantic_review = r.semantic_review
        /\ x.state = Concluded(r, e).state /\ x.issue_ticket = Concluded(r, e).issue_ticket
    <2>1. CASE x = Concluded(r, e)
      BY <2>1, ConcludedValues
    <2>2. CASE x = Assessed(n, r, e)
      BY <2>2, AssessedValues
    <2> QED BY <2>1, <2>2
  <1>3. /\ e.verdict = "pass" => x.state = "passed"
        /\ e.verdict = "fail" => x.state = "issue_ticket_created" /\ x.issue_ticket = TRUE
    BY <1>2, ConcludedValues
  <1>4. Claim(Evaluated(r, e)) = Claim(x)
    <2>1. Evaluated(r, e).run = r.run /\ Evaluated(r, e).evaluation = e
      BY EvaluatedValues
    <2> QED BY <1>2, <2>1 DEF Claim
  <1> DEFINE y == [r EXCEPT !.evaluation = e]
  <1>5. /\ y.evaluation = e /\ y.body = r.body /\ y.generation_status = r.generation_status
        /\ y.execution = r.execution /\ y.semantic_review = r.semantic_review
        /\ HasEvidence(y)
    BY DEF Record
  <1> HIDE DEF y
  <1>6. HasEvidence(x)
    BY <1>2, <1>5 DEF HasEvidence
  <1>7. HasEvidence(x)'
    BY <1>6 DEF HasEvidence
  <1>8. Claim(x)' = Claim(x)
    BY DEF Claim
  <1> QED
    BY <1>1, <1>2, <1>3, <1>4, <1>7, <1>8 DEF IsBacked

LEMMA ConclusionLasting ==
    ASSUME golden \in Answers, NEW n \in AttemptNo, NEW r \in Record, NEW e \in Evaluation,
           r.state \notin Final, Concludes(n, r, e)
    PROVE  InOrder(writes', Lasting)
  <1> DEFINE pr == AttemptFile(n, r)
             ev == AttemptFile(n, Evaluated(r, e))
             li == AttemptFile(n, Linked(Evaluated(r, e)))
             co == AttemptFile(n, Concluded(r, e))
             as == AttemptFile(n, Assessed(n, r, e))
             t == TicketFile(n, Claim(Evaluated(r, e)))
  <1>1. /\ {pr, ev, li, co, as, t} \subseteq Write
        /\ \A R : AdmitsConclusion(R, ev, t, li, co, as)
                  /\ (\A w \in {ev, t, li, co, as} : <<pr, w>> \in R) => InOrder(writes', R)
    BY ConclusionSection
  <1>2. /\ \A v \in {pr, ev, li, co, as} : v.file = "attempt"
        /\ t.file = "ticket"
        /\ pr.value = r /\ ev.value = Evaluated(r, e) /\ li.value = Linked(Evaluated(r, e))
        /\ co.value = Concluded(r, e) /\ as.value = Assessed(n, r, e)
    BY DEF AttemptFile, TicketFile
  <1>3. /\ Evaluated(r, e).state = r.state /\ Linked(Evaluated(r, e)).state = r.state
        /\ Concluded(r, e).state \in Final /\ Assessed(n, r, e).state = Concluded(r, e).state
    <2>1. Evaluated(r, e).state = r.state /\ Linked(Evaluated(r, e)).state = r.state
      BY EvaluatedValues
    <2>2. Concluded(r, e).state \in Final
      BY ConcludedValues DEF Final
    <2>3. Assessed(n, r, e).state = Concluded(r, e).state
      BY AssessedValues
    <2> QED BY <2>1, <2>2, <2>3
  <1>4. "ready_to_evaluate" \notin Final /\ "issue_ticket_created" \in Final
    BY DEF Final
  <1> HIDE DEF pr, ev, li, co, as, t
  <1>5. /\ \A w \in {ev, t, li, co, as} : <<pr, w>> \in Lasting
        /\ \A w \in {t, li, co, as} : <<ev, w>> \in Lasting
        /\ \A w \in {li, co, as} : <<t, w>> \in Lasting
        /\ \A w \in {co, as} : <<li, w>> \in Lasting
        /\ <<co, as>> \in Lasting
    <2> SUFFICES ASSUME NEW v \in {pr, ev, t, li, co, as}, NEW w \in {ev, t, li, co, as},
                        \/ v \in {pr, ev} /\ w \in {ev, t, li, co, as}
                        \/ v = t /\ w \in {li, co, as}
                        \/ v = li /\ w \in {co, as}
                        \/ v = co /\ w = as
                 PROVE  <<v, w>> \in Lasting
      BY <1>1
    <2>1. v \in Write /\ w \in Write
      BY <1>1
    <2>2. v.file = "attempt" /\ w.file = "ticket" => v.value.state # "issue_ticket_created"
      BY <1>2, <1>3, <1>4
    <2>3. v.file = "attempt" /\ w.file = "attempt" /\ v.value.state # "ready_to_evaluate"
            => w.value.state # "ready_to_evaluate"
      BY <1>2, <1>3, <1>4
    <2> QED BY <2>1, <2>2, <2>3 DEF Lasting
  <1> QED BY <1>1, <1>5, LastingIgnoresLatest DEF AdmitsConclusion

(* A section of attempt n starts from an idle loop and leaves the files and *)
(* the other attempts' tasks alone.                                         *)
LEMMA EvaluateFrame ==
    ASSUME OwnershipInv, NEW n \in AttemptNo, Evaluate(n)
    PROVE  /\ writes = <<>> /\ Due = {} /\ up /\ UNCHANGED <<files, up, crashes>>
           /\ UNCHANGED <<golden, receipt, reports, attempts, latest, tickets>>
           /\ \A m \in AttemptNo \ {n} : tasks'[m] = tasks[m]
  <1>1. writes = <<>> /\ up /\ UNCHANGED <<files, up, crashes>>
    BY DEF Evaluate, StartEvaluation, GrammarExplained, QueryExecuted, SemanticReviewed, LoopIdle
  <1>2. \E t : tasks' = [tasks EXCEPT ![n] = t]
    BY DEF Evaluate, StartEvaluation, GrammarExplained, QueryExecuted, SemanticReviewed
  <1>3. \A m \in AttemptNo \ {n} : tasks'[m] = tasks[m]
    BY <1>2 DEF OwnershipInv, TypeOK
  <1> QED BY <1>1, <1>3 DEF files, Due, Elements

LEMMA EvaluateSections ==
    ASSUME VerdictInv, NEW n \in AttemptNo, Evaluate(n)
    PROVE  \/ Idles(n)
           \/ /\ golden # None /\ n \in DOMAIN attempts /\ attempts[n].state \notin Final
              /\ \E r \in Revised(attempts[n]) : Decides(n, r)
  BY StartSections, ResumeSections DEF Evaluate, VerdictInv, DueSound

(* Two updates of one attempt. *)
LEMMA TwoUpdates ==
    ASSUME NEW n \in AttemptNo, NEW r \in Record, NEW q \in Record
    PROVE  LET s == MutateWrites(n, r) \o MutateWrites(n, q)
               Latest == Mirror(n)
           IN /\ s \in Seq(Write)
              /\ {AttemptFile(n, r), AttemptFile(n, q)} \subseteq Elements(s)
              /\ Elements(s) \subseteq {AttemptFile(n, r), AttemptFile(n, q)} \cup Latest
              /\ \A R : IgnoresLatest(R) /\ <<AttemptFile(n, r), AttemptFile(n, q)>> \in R =>
                    InOrder(s, R)
  <1> DEFINE a == AttemptFile(n, r)
             b == AttemptFile(n, q)
             s == MutateWrites(n, r)
             t == MutateWrites(n, q)
             Latest == Mirror(n)
  <1>1. /\ a \in Write /\ b \in Write
        /\ LatestFile(n, r) \in Write /\ LatestFile(n, r).file = "latest"
        /\ LatestFile(n, q) \in Write /\ LatestFile(n, q).file = "latest"
        /\ \A w \in Latest : w \in Write /\ w.file = "latest"
    BY FileType DEF LatestFile, Mirror
  <1>2. \A R : IgnoresLatest(R) =>
           /\ <<a, LatestFile(n, r)>> \in R /\ <<b, LatestFile(n, q)>> \in R
           /\ \A v \in Latest, w \in Write : <<v, w>> \in R /\ <<w, v>> \in R
    BY <1>1 DEF IgnoresLatest
  <1>3. /\ s \in Seq(Write) /\ a \in Elements(s) /\ Elements(s) \subseteq {a} \cup Latest
        /\ \A R : IgnoresLatest(R) => InOrder(s, R)
    BY <1>1, <1>2, MutateShape
  <1>4. /\ t \in Seq(Write) /\ b \in Elements(t) /\ Elements(t) \subseteq {b} \cup Latest
        /\ \A R : IgnoresLatest(R) => InOrder(t, R)
    BY <1>1, <1>2, MutateShape
  <1> HIDE DEF a, b, s, t, Latest
  <1>5. s \o t \in Seq(Write) /\ Elements(s \o t) = Elements(s) \cup Elements(t)
    BY <1>3, <1>4, ElementsConcat, ConcatProperties
  <1>6. ASSUME NEW R, IgnoresLatest(R), <<a, b>> \in R PROVE InOrder(s \o t, R)
    <2>1. \A v \in Elements(s), w \in Elements(t) : <<v, w>> \in R
      BY <1>1, <1>2, <1>3, <1>4, <1>6
    <2> QED BY <1>3, <1>4, <1>6, <2>1, OrderConcat
  <1> QED BY <1>3, <1>4, <1>5, <1>6 DEF a, b, s, t, Latest

(* After a section of attempt n every suspended task still relies on what   *)
(* is on file: the others' attempts are not written, and n's own task is    *)
(* suspended only on an open attempt.                                       *)
LEMMA OwnSection ==
    ASSUME VerdictInv, NEW n \in AttemptNo, Evaluate(n),
           \A w \in Due' : w.file = "attempt" => w.no = n,
           tasks'[n].running # "idle" =>
              /\ attempts[n].state \notin Final
              /\ \A w \in Due' : w.file = "attempt" => w.value.state \notin Final
              /\ tasks'[n].running = "explaining" => attempts[n].body \notin Parses
              /\ tasks'[n].running = "reviewing" =>
                    /\ \A w \in Due' : w.file = "attempt" => RowsDiffer(w.value)
                    /\ \E w \in Due' : w.file = "attempt"
    PROVE  SuspendedIsOpen'
  <1>1. /\ Due = {} /\ UNCHANGED <<golden, attempts>>
        /\ \A m \in AttemptNo \ {n} : tasks'[m] = tasks[m]
    BY EvaluateFrame DEF VerdictInv
  <1> SUFFICES ASSUME NEW m \in AttemptNo, tasks'[m].running # "idle"
               PROVE  /\ attempts[m].state \notin Final
                      /\ \A w \in Due' : w.file = "attempt" /\ w.no = m => w.value.state \notin Final
                      /\ tasks'[m].running = "explaining" => attempts[m].body \notin Parses
                      /\ tasks'[m].running = "reviewing" =>
                            /\ \A w \in Due' : w.file = "attempt" /\ w.no = m => RowsDiffer(w.value)
                            /\ RowsDiffer(attempts[m]) \/ \E w \in Due' : w.file = "attempt" /\ w.no = m
    BY <1>1 DEF SuspendedIsOpen, RowsDiffer
  <1>2. CASE m = n
    BY <1>2
  <1>3. CASE m # n
    BY <1>1, <1>3 DEF VerdictInv, DueSound, SuspendedIsOpen
  <1> QED BY <1>2, <1>3

(* A section of updates that conclude nothing. *)
LEMMA OpenSection ==
    ASSUME VerdictInv, NEW n \in AttemptNo, Evaluate(n), n \in DOMAIN attempts,
           attempts[n].state \notin Final, NEW r \in Revised(attempts[n]),
           Stores(n, r) \/ GivesUp(n, r)
    PROVE  DueSound'
  <1>1. /\ Due = {} /\ UNCHANGED <<files, golden, attempts>>
        /\ r \in Record /\ r.state \notin Final /\ r.body = attempts[n].body
    <2>1. attempts[n] \in Record
      BY AttemptDomain DEF VerdictInv, OwnershipInv
    <2> QED BY <2>1, EvaluateFrame, RevisedFields DEF VerdictInv
  <1> DEFINE a == AttemptFile(n, r)
  <1>2. /\ a \in Write /\ a.file = "attempt" /\ a.no = n /\ a.value = r /\ IsPlain(a)
    <2>1. a \in Write /\ a.file = "attempt" /\ a.no = n /\ a.value = r
      BY <1>1, FileType DEF AttemptFile
    <2> HIDE DEF a
    <2> QED BY <1>1, <2>1 DEF IsPlain
  <1>3. \A w \in Write : w.file = "latest" => IsPlain(w) /\ w.file # "attempt"
    BY DEF IsPlain
  <1>4. CASE Stores(n, r)
    <2>1. a \in Due' /\ \A w \in Due' : w = a \/ (w \in Write /\ w.file = "latest")
      <3>1. LatestFile(n, r) \in Write /\ LatestFile(n, r).file = "latest"
        BY <1>1, FileType DEF LatestFile
      <3>2. Due' = Elements(MutateWrites(n, r))
        BY <1>4 DEF Stores, Due
      <3> QED BY <1>1, <3>1, <3>2, MutateShape
    <2>2. InOrder(writes', Lasting)
      <3>1. LatestFile(n, r) \in Write /\ LatestFile(n, r).file = "latest"
        BY <1>1, FileType DEF LatestFile
      <3>2. <<a, LatestFile(n, r)>> \in Lasting
        BY <1>2, <3>1, LastingIgnoresLatest DEF IgnoresLatest
      <3> QED BY <1>1, <1>4, <3>2, MutateShape DEF Stores
    <2> HIDE DEF a
    <2>3. /\ \A w \in Due' : IsPlain(w)
          /\ \A w \in Due' : w.file = "attempt" => w = a
          /\ \A w \in Due' : w.file # "golden"
      BY <1>2, <1>3, <2>1
    <2>4. SuspendedIsOpen'
      BY <1>1, <1>2, <1>4, <2>1, <2>3, OwnSection DEF Stores
    <2>5. DueGolden'
      BY <2>3 DEF DueGolden
    <2> QED BY <1>1, <2>2, <2>3, <2>4, <2>5, PlainSection
  <1>5. ASSUME NEW state \in {"tugraph_execution_failed", "semantic_review_invalid"},
               writes' = MutateWrites(n, r) \o MutateWrites(n, [r EXCEPT !.state = state]),
               tasks'[n].running = "idle"
        PROVE  DueSound'
    <2> DEFINE q == [r EXCEPT !.state = state]
               b == AttemptFile(n, q)
    <2>1. q \in Record /\ q.state = state /\ state \notin Final /\ q.body = r.body
          /\ state # "ready_to_evaluate"
      BY <1>1 DEF Record, State, Final
    <2> HIDE DEF q
    <2>2. b \in Write /\ b.file = "attempt" /\ b.no = n /\ b.value = q
      BY <2>1, FileType DEF AttemptFile
    <2>3. <<a, b>> \in Lasting
      BY <1>2, <2>1, <2>2 DEF Lasting
    <2>4. writes' = MutateWrites(n, r) \o MutateWrites(n, q)
      BY <1>5 DEF q
    <2>5. InOrder(writes', Lasting)
      BY <1>1, <2>1, <2>3, <2>4, LastingIgnoresLatest, TwoUpdates
    <2>6. \A w \in Due' : w = a \/ w = b \/ (w \in Write /\ w.file = "latest")
      <3>1. Due' = Elements(MutateWrites(n, r) \o MutateWrites(n, q))
        BY <2>4 DEF Due
      <3>2. \A w \in Mirror(n) : w \in Write /\ w.file = "latest"
        BY DEF Mirror
      <3> QED BY <1>1, <2>1, <3>1, <3>2, TwoUpdates
    <2>7. IsPlain(b)
      BY <1>1, <2>1, <2>2 DEF IsPlain
    <2> HIDE DEF a, b
    <2>8. /\ \A w \in Due' : IsPlain(w)
          /\ \A w \in Due' : w.file = "attempt" => w.no = n
          /\ \A w \in Due' : w.file # "golden"
      BY <1>2, <1>3, <2>2, <2>6, <2>7
    <2>9. SuspendedIsOpen'
      BY <1>5, <2>8, OwnSection
    <2>10. DueGolden'
      BY <2>8 DEF DueGolden
    <2> QED BY <1>1, <2>5, <2>8, <2>9, <2>10, PlainSection
  <1> QED BY <1>4, <1>5 DEF GivesUp

(* A conclusion writes the files of its attempt only. *)
LEMMA ClosingDue ==
    ASSUME golden \in Answers, NEW n \in AttemptNo, NEW r \in Record, NEW e \in Evaluation,
           Concludes(n, r, e)
    PROVE  \A w \in Due' : (w.file \in {"attempt", "ticket"} /\ w.no = n) \/ w \in Mirror(n)
  <1> DEFINE pr == AttemptFile(n, r)
             ev == AttemptFile(n, Evaluated(r, e))
             li == AttemptFile(n, Linked(Evaluated(r, e)))
             co == AttemptFile(n, Concluded(r, e))
             as == AttemptFile(n, Assessed(n, r, e))
             t == TicketFile(n, Claim(Evaluated(r, e)))
             Latest == Mirror(n)
  <1>1. /\ e.verdict = "fail" => Due' \subseteq Latest \cup {pr, ev, li, co, as, t}
        /\ e.verdict # "fail" => Due' \subseteq Latest \cup {pr, ev, co, as}
    BY ConclusionSection
  <1>2. \A w \in {pr, ev, li, co, as, t} : w.file \in {"attempt", "ticket"} /\ w.no = n
    BY DEF AttemptFile, TicketFile
  <1> HIDE DEF pr, ev, li, co, as, t, Latest
  <1> QED BY <1>1, <1>2 DEF Latest

LEMMA ClosingNumber ==
    ASSUME golden \in Answers, NEW n \in AttemptNo, NEW r \in Record, NEW e \in Evaluation,
           Concludes(n, r, e)
    PROVE  \A w \in Due' : w.file = "attempt" => w.no = n
  BY ClosingDue DEF Mirror

(* A section that concludes: the ticket is due before the state. *)
LEMMA ClosingSection ==
    ASSUME VerdictInv, NEW n \in AttemptNo, Evaluate(n), n \in DOMAIN attempts, golden # None,
           attempts[n].state \notin Final, NEW r \in Revised(attempts[n]),
           NEW e \in Evaluation, Concludes(n, r, e)
    PROVE  DueSound'
  <1> DEFINE pr == AttemptFile(n, r)
             ev == AttemptFile(n, Evaluated(r, e))
             li == AttemptFile(n, Linked(Evaluated(r, e)))
             co == AttemptFile(n, Concluded(r, e))
             as == AttemptFile(n, Assessed(n, r, e))
             t == TicketFile(n, Claim(Evaluated(r, e)))
             Latest == Mirror(n)
  <1>1. /\ Due = {} /\ UNCHANGED <<files, golden, attempts, tickets>>
        /\ r \in Record /\ r.state \notin Final /\ r.body = attempts[n].body
        /\ golden \in Answers
    <2>1. attempts[n] \in Record
      BY AttemptDomain DEF VerdictInv, OwnershipInv
    <2> QED BY <2>1, EvaluateFrame, RevisedFields DEF VerdictInv, OwnershipInv, TypeOK
  <1>2. /\ e.verdict = "fail" => t \in Due' /\ Due' \subseteq Latest \cup {pr, ev, li, co, as, t}
        /\ e.verdict # "fail" => Due' \subseteq Latest \cup {pr, ev, co, as}
    BY <1>1, ConclusionSection
  <1>3. InOrder(writes', Lasting)
    BY <1>1, ConclusionLasting
  <1>4. /\ pr.file = "attempt" /\ ev.file = "attempt" /\ li.file = "attempt" /\ co.file = "attempt"
        /\ as.file = "attempt" /\ t.file = "ticket"
        /\ pr.no = n /\ ev.no = n /\ li.no = n /\ co.no = n /\ as.no = n /\ t.no = n
        /\ pr.value = r /\ ev.value = Evaluated(r, e) /\ li.value = Linked(Evaluated(r, e))
        /\ co.value = Concluded(r, e) /\ as.value = Assessed(n, r, e)
        /\ t.value = Claim(Evaluated(r, e))
    BY DEF AttemptFile, TicketFile
  <1>5. /\ Evaluated(r, e).state = r.state /\ Linked(Evaluated(r, e)).state = r.state
        /\ Evaluated(r, e).body = r.body /\ Linked(Evaluated(r, e)).body = r.body
        /\ Evaluated(r, e).run = r.run
    BY <1>1, EvaluatedValues
  <1>6. Concluded(r, e).body = r.body /\ Concluded(r, e).run = r.run /\ Concluded(r, e).evaluation = e
    BY <1>1, ConcludedValues
  <1>7. Assessed(n, r, e).body = r.body /\ Assessed(n, r, e).run = r.run
        /\ Assessed(n, r, e).evaluation = e
    BY <1>1, AssessedValues
  <1>8. Evaluated(r, e).evaluation = e
    BY <1>1, EvaluatedValues
  <1>9. IsBacked(n, Concluded(r, e))' /\ \A x : x = Assessed(n, r, e) => IsBacked(n, x)'
    <2>1. HasEvidence([r EXCEPT !.evaluation = e])
      BY DEF Concludes
    <2>2. \A x : x = Concluded(r, e) \/ x = Assessed(n, r, e) => IsBacked(n, x)'
      BY <1>1, <1>2, <2>1, ConcludedBacked
    <2>3. Concluded(r, e)' = Concluded(r, e)
      BY DEF Concluded, Evaluated, Ticketed, Linked
    <2> QED BY <2>2, <2>3
  <1>10. \A w \in Latest : w.file = "latest"
    BY DEF Mirror
  <1> HIDE DEF pr, ev, li, co, as, t, Latest
  <1>11. \A w \in Due' : w.file = "attempt" => w \in {pr, ev, li, co, as}
    BY <1>2, <1>4, <1>10
  <1>12. \A w \in Due' : w.file = "ticket" => w = t
    BY <1>2, <1>4, <1>10
  <1>13. \A w \in Due' : w.file # "golden"
    BY <1>2, <1>4, <1>10
  <1>14. \A w \in Due' : w.file = "attempt" => w.no = n /\ w.value.body = r.body
    BY <1>4, <1>5, <1>6, <1>7, <1>11
  <1>15. DueGolden' /\ DueBodies' /\ DueNumbers'
    BY <1>1, <1>13, <1>14 DEF DueGolden, DueBodies, DueNumbers
  <1>16. DueVerdicts'
    <2> SUFFICES ASSUME NEW w \in Due', w.file = "attempt", w.value.state \in Final
                 PROVE  IsBacked(w.no, w.value)'
      BY DEF DueVerdicts
    <2>1. w = co \/ w = as
      BY <1>1, <1>4, <1>5, <1>11
    <2> QED BY <1>4, <1>9, <2>1
  <1>17. DueTickets'
    <2> SUFFICES ASSUME t \in Due'
                 PROVE  /\ t.value.golden = golden
                        /\ t.no \in DOMAIN attempts /\ attempts[t.no].state # "issue_ticket_created"
                        /\ \A w \in Due' : w.file = "attempt" =>
                              /\ w.no = t.no
                              /\ w.value.state = "issue_ticket_created" => t.value = Claim(w.value)
      BY <1>1, <1>12 DEF DueTickets, Claim
    <2>1. t.value = [golden |-> golden, run |-> r.run, evaluation |-> e]
      BY <1>4, <1>5, <1>8 DEF Claim
    <2>2. \A w \in Due' : w.file = "attempt" /\ w.value.state = "issue_ticket_created" =>
             w.value.run = r.run /\ w.value.evaluation = e
      <3>1. \A w \in Due' : w.file = "attempt" /\ w.value.state = "issue_ticket_created" =>
               w = co \/ w = as
        BY <1>1, <1>4, <1>5, <1>11 DEF Final
      <3> QED BY <1>4, <1>6, <1>7, <3>1
    <2>3. "issue_ticket_created" \in Final
      BY DEF Final
    <2> QED BY <1>1, <1>4, <1>14, <2>1, <2>2, <2>3 DEF Claim
  <1>18. SuspendedIsOpen'
    <2>1. tasks'[n].running = "idle"
      BY DEF Concludes
    <2> QED BY <1>14, <2>1, OwnSection
  <1> QED BY <1>3, <1>15, <1>16, <1>17, <1>18 DEF DueSound

LEMMA EvaluateVerdict ==
    ASSUME VerdictInv, NEW n \in AttemptNo, Evaluate(n)
    PROVE  DueSound'
  <1>1. CASE Idles(n)
    <2>1. writes' = <<>> /\ Due' = {}
      BY <1>1 DEF Idles, Due, Elements
    <2>2. SuspendedIsOpen'
      BY <1>1, <2>1, OwnSection DEF Idles
    <2>3. InOrder(writes', Lasting)
      BY <2>1 DEF InOrder
    <2> QED
      BY <2>1, <2>2, <2>3 DEF DueSound, DueGolden, DueTickets, DueVerdicts, DueBodies, DueNumbers
  <1>2. ASSUME golden # None, n \in DOMAIN attempts, attempts[n].state \notin Final,
               NEW r \in Revised(attempts[n]), Decides(n, r)
        PROVE  DueSound'
    BY <1>2, OpenSection, ClosingSection DEF Decides
  <1> QED BY <1>1, <1>2, EvaluateSections

(* A request, or a callback: it suspends no task, and what it writes of an  *)
(* attempt on file keeps the execution.                                     *)
LEMMA PlainRequest ==
    ASSUME VerdictInv, writes = <<>>, UNCHANGED files,
           \A m \in AttemptNo : tasks'[m].running = tasks[m].running,
           InOrder(writes', Lasting), \A w \in Due' : IsPlain(w), DueGolden',
           \A w \in Due' : w.file = "attempt" /\ w.no \in DOMAIN attempts =>
              w.value.execution = attempts[w.no].execution
    PROVE  DueSound'
  <1>1. Due = {} /\ UNCHANGED <<golden, attempts>>
    BY DEF Due, Elements, files
  <1>2. SuspendedIsOpen'
    <2> SUFFICES ASSUME NEW m \in AttemptNo, tasks[m].running # "idle"
                 PROVE  /\ attempts[m].state \notin Final
                        /\ \A w \in Due' : w.file = "attempt" /\ w.no = m => w.value.state \notin Final
                        /\ tasks[m].running = "explaining" => attempts[m].body \notin Parses
                        /\ tasks[m].running = "reviewing" =>
                              /\ \A w \in Due' : w.file = "attempt" /\ w.no = m => RowsDiffer(w.value)
                              /\ RowsDiffer(attempts[m]) \/ \E w \in Due' : w.file = "attempt" /\ w.no = m
      BY <1>1 DEF SuspendedIsOpen, RowsDiffer
    <2>1. m \in DOMAIN attempts
      BY DEF VerdictInv, OwnershipInv, Suspension
    <2>2. /\ attempts[m].state \notin Final
          /\ tasks[m].running = "explaining" => attempts[m].body \notin Parses
          /\ tasks[m].running = "reviewing" => RowsDiffer(attempts[m])
      BY <1>1 DEF VerdictInv, DueSound, SuspendedIsOpen
    <2>3. \A w \in Due' : w.file = "attempt" => w.value.state \notin Final
      BY DEF IsPlain
    <2> QED BY <2>1, <2>2, <2>3 DEF RowsDiffer
  <1> QED BY <1>2, PlainSection

(* Requests that schedule a task or only store a file leave every task's    *)
(* suspension alone.                                                        *)
LEMMA RequestTasks ==
    ASSUME TypeOK, Requests \/ \E n \in AttemptNo : TaskDone(n)
    PROVE  /\ writes = <<>> /\ UNCHANGED <<files, up, crashes>>
           /\ \A m \in AttemptNo : tasks'[m].running = tasks[m].running
  <1>1. writes = <<>> /\ UNCHANGED <<files, up, crashes>>
    BY DEF Requests, IngestGolden, IngestQuestionReceived, IngestSubmission,
       IngestGenerationFailure, CreateAttempt, GetEvaluationStatus, TaskDone, LoopIdle
  <1>2. tasks \in [AttemptNo -> Tasks] /\ \A m \in AttemptNo : tasks[m] \in Tasks
    BY DEF TypeOK
  <1>3. ASSUME NEW n, tasks' = [tasks EXCEPT ![n] = Scheduled(@)]
        PROVE  \A m \in AttemptNo : tasks'[m].running = tasks[m].running
    <2>1. \A t \in Tasks : Scheduled(t).running = t.running
      BY DEF Scheduled, Tasks
    <2> QED BY <1>2, <1>3, <2>1
  <1>4. ASSUME NEW n \in AttemptNo, TaskDone(n)
        PROVE  \A m \in AttemptNo : tasks'[m].running = tasks[m].running
    BY <1>2, <1>4 DEF TaskDone, Tasks
  <1>5. Requests => UNCHANGED tasks \/ \E n : tasks' = [tasks EXCEPT ![n] = Scheduled(@)]
    BY DEF Requests, IngestGolden, IngestQuestionReceived, IngestSubmission,
       IngestGenerationFailure, CreateAttempt, GetEvaluationStatus
  <1> QED BY <1>1, <1>3, <1>4, <1>5

(* The writes of a pushed golden. *)
LEMMA GoldenWrites ==
    ASSUME TypeOK, NEW g \in Answers, IngestGolden(g)
    PROVE  /\ golden \in {None, g} /\ GoldenFile(g) \in Write
           /\ \/ writes' = <<GoldenFile(g)>> /\ Due' = {GoldenFile(g)} /\ UNCHANGED tasks
              \/ \E n \in DOMAIN attempts :
                    LET r == [attempts[n] EXCEPT !.state = "ready_to_evaluate"]
                        s == MutateWrites(n, r)
                    IN /\ n \in AttemptNo /\ r \in Record
                       /\ latest # None /\ latest.record.state \notin Final /\ n = latest.no
                       /\ writes' = <<GoldenFile(g)>> \o s
                       /\ s \in Seq(Write) /\ Elements(s) \subseteq {AttemptFile(n, r), LatestFile(n, r)}
                       /\ AttemptFile(n, r) \in Elements(s)
                       /\ Due' = {GoldenFile(g)} \cup Elements(s)
                       /\ tasks' = [tasks EXCEPT ![n] = Scheduled(@)]
  <1>1. golden \in {None, g} /\ GoldenFile(g) \in Write
    BY DEF IngestGolden, GoldenFile, Write
  <1> DEFINE G == GoldenFile(g)
  <1>2. CASE writes' = <<GoldenFile(g)>> /\ UNCHANGED tasks
    BY <1>1, <1>2, ElementsShort DEF Due
  <1>3. ASSUME NEW n, latest # None, latest.record.state \notin Final, n = latest.no,
               n \in DOMAIN attempts,
               writes' = <<GoldenFile(g)>> \o
                    MutateWrites(n, [attempts[n] EXCEPT !.state = "ready_to_evaluate"]),
               tasks' = [tasks EXCEPT ![n] = Scheduled(@)]
        PROVE  LET r == [attempts[n] EXCEPT !.state = "ready_to_evaluate"]
                        s == MutateWrites(n, r)
                    IN /\ n \in AttemptNo /\ r \in Record
                       /\ writes' = <<GoldenFile(g)>> \o s
                       /\ s \in Seq(Write) /\ Elements(s) \subseteq {AttemptFile(n, r), LatestFile(n, r)}
                       /\ AttemptFile(n, r) \in Elements(s)
                       /\ Due' = {GoldenFile(g)} \cup Elements(s)
    <2> DEFINE r == [attempts[n] EXCEPT !.state = "ready_to_evaluate"]
               s == MutateWrites(n, r)
               h == <<GoldenFile(g)>>
    <2>1. n \in AttemptNo /\ r \in Record
      BY <1>3, AttemptDomain DEF Record, State
    <2> HIDE DEF r
    <2>2. s \in Seq(Write) /\ Elements(s) \subseteq {AttemptFile(n, r), LatestFile(n, r)}
          /\ AttemptFile(n, r) \in Elements(s)
      BY <2>1, MutateShape
    <2>3. h \in Seq(Write)
      BY <1>1
    <2>4. Elements(h) = {GoldenFile(g)}
      BY ElementsShort
    <2>5. writes' = h \o s
      BY <1>3 DEF r
    <2> HIDE DEF s, h
    <2>6. Due' = {GoldenFile(g)} \cup Elements(s)
      BY <2>2, <2>3, <2>4, <2>5, ElementsConcat DEF Due
    <2> QED BY <1>3, <2>1, <2>2, <2>5, <2>6 DEF r, s, h
  <1> QED BY <1>1, <1>2, <1>3 DEF IngestGolden

LEMMA GoldenVerdict ==
    ASSUME VerdictInv, NEW g \in Answers, IngestGolden(g)
    PROVE  DueSound'
  <1>1. TypeOK /\ Requests
    BY DEF VerdictInv, OwnershipInv, Requests
  <1>2. /\ writes = <<>> /\ UNCHANGED <<files, golden, attempts>>
        /\ \A m \in AttemptNo : tasks'[m].running = tasks[m].running
    BY <1>1, RequestTasks DEF files
  <1>3. /\ golden \in {None, g} /\ GoldenFile(g) \in Write
        /\ GoldenFile(g).file = "golden" /\ GoldenFile(g).value = g /\ IsPlain(GoldenFile(g))
    <2>1. golden \in {None, g} /\ GoldenFile(g) \in Write
      BY <1>1, GoldenWrites
    <2> QED BY <2>1 DEF GoldenFile, IsPlain
  <1>4. CASE writes' = <<GoldenFile(g)>> /\ Due' = {GoldenFile(g)}
    <2>1. InOrder(writes', Lasting)
      BY <1>4, ElementsShort
    <2>2. DueGolden'
      BY <1>2, <1>3, <1>4 DEF DueGolden
    <2> QED BY <1>2, <1>3, <1>4, <2>1, <2>2, PlainRequest
  <1>5. ASSUME NEW n \in DOMAIN attempts, NEW r \in Record, NEW s \in Seq(Write),
               n \in AttemptNo, r = [attempts[n] EXCEPT !.state = "ready_to_evaluate"],
               s = MutateWrites(n, r), writes' = <<GoldenFile(g)>> \o s,
               Elements(s) \subseteq {AttemptFile(n, r), LatestFile(n, r)},
               Due' = {GoldenFile(g)} \cup Elements(s)
        PROVE  DueSound'
    <2>1. /\ AttemptFile(n, r) \in Write /\ AttemptFile(n, r).file = "attempt"
          /\ AttemptFile(n, r).no = n /\ AttemptFile(n, r).value = r
          /\ LatestFile(n, r) \in Write /\ LatestFile(n, r).file = "latest"
      BY <1>5, FileType DEF AttemptFile, LatestFile
    <2>2. r.state \notin Final /\ r.body = attempts[n].body /\ r.execution = attempts[n].execution
      <3>1. attempts[n] \in Record
        BY AttemptDomain DEF VerdictInv, OwnershipInv
      <3> QED BY <1>5, <3>1 DEF Record, Final
    <2>3. \A w \in Due' : w = GoldenFile(g) \/ w = AttemptFile(n, r) \/ w = LatestFile(n, r)
      BY <1>5
    <2>4. IsPlain(AttemptFile(n, r)) /\ IsPlain(LatestFile(n, r))
      BY <2>1, <2>2 DEF IsPlain
    <2>5. InOrder(writes', Lasting)
      <3>1. \A w \in Write : <<GoldenFile(g), w>> \in Lasting
        BY <1>3 DEF Lasting
      <3>2. InOrder(s, Lasting)
        <4>1. <<AttemptFile(n, r), LatestFile(n, r)>> \in Lasting
          BY <2>1, LastingIgnoresLatest DEF IgnoresLatest
        <4> QED BY <1>5, <4>1, MutateShape
      <3> DEFINE h == <<GoldenFile(g)>>
      <3>3. h \in Seq(Write)
        BY <1>3
      <3>4. Elements(h) = {GoldenFile(g)} /\ InOrder(h, Lasting)
        BY ElementsShort
      <3>5. writes' = h \o s
        BY <1>5
      <3> HIDE DEF h
      <3>6. \A x \in Elements(h), y \in Elements(s) : <<x, y>> \in Lasting
        BY <1>5, <2>1, <3>1, <3>4
      <3> QED BY <1>5, <3>2, <3>3, <3>4, <3>5, <3>6, OrderConcat
    <2>6. DueGolden'
      BY <1>2, <1>3, <2>1, <2>3 DEF DueGolden
    <2>7. \A w \in Due' : IsPlain(w)
      BY <1>3, <2>3, <2>4
    <2>8. \A w \in Due' : w.file = "attempt" => w.value.execution = attempts[w.no].execution
      BY <1>3, <2>1, <2>2, <2>3
    <2> QED BY <1>2, <2>5, <2>6, <2>7, <2>8, PlainRequest
  <1> QED BY <1>1, <1>4, <1>5, GoldenWrites

(* The writes of a new attempt. *)
LEMMA CreateShape ==
    ASSUME TypeOK, NEW run \in Runs, NEW status \in {"generated", "generation_failed"},
           NEW body \in Bodies, NEW before \in Seq(Write),
           CreateAttempt(before, run, status, body),
           NEW N, N = Len(attempts) + 1,
           NEW r, r = NewRecord(run, status, body,
                         IF golden # None THEN "ready_to_evaluate" ELSE "received_submission_only")
    PROVE  /\ N \in AttemptNo /\ N \notin DOMAIN attempts /\ r \in Record
           /\ LatestFile(N, r) \in Write /\ AttemptFile(N, r) \in Write
           /\ writes' = before \o <<LatestFile(N, r), AttemptFile(N, r)>>
           /\ Due' = Elements(before) \cup {LatestFile(N, r), AttemptFile(N, r)}
           /\ tasks' = IF golden # None THEN [tasks EXCEPT ![N] = Scheduled(@)] ELSE tasks
           /\ \A R : InOrder(before, R) /\ <<LatestFile(N, r), AttemptFile(N, r)>> \in R
                     /\ (\A x \in Elements(before) :
                            <<x, LatestFile(N, r)>> \in R /\ <<x, AttemptFile(N, r)>> \in R)
                        => InOrder(writes', R)
  <1> DEFINE l == LatestFile(N, r)
             a == AttemptFile(N, r)
             s == <<l, a>>
  <1>1. N \in AttemptNo /\ writes' = before \o s
    BY DEF CreateAttempt, CreateWrites
  <1>2. r \in Record
    BY NewRecordType DEF State
  <1>3. N \notin DOMAIN attempts
    BY AttemptDomain DEF TypeOK
  <1>4. tasks' = IF golden # None THEN [tasks EXCEPT ![N] = Scheduled(@)] ELSE tasks
    BY DEF CreateAttempt
  <1>5. l \in Write /\ a \in Write
    BY <1>1, <1>2, FileType
  <1> HIDE DEF l, a
  <1>6. s \in Seq(Write)
    BY <1>5
  <1>7. Elements(s) = {l, a} /\ \A R : <<l, a>> \in R => InOrder(s, R)
    BY ElementsShort
  <1> HIDE DEF s
  <1>8. Due' = Elements(before) \cup {l, a}
    BY <1>1, <1>6, <1>7, ElementsConcat DEF Due
  <1>9. ASSUME NEW R, InOrder(before, R), <<l, a>> \in R,
               \A x \in Elements(before) : <<x, l>> \in R /\ <<x, a>> \in R
        PROVE  InOrder(writes', R)
    BY <1>1, <1>6, <1>7, <1>9, OrderConcat
  <1> QED BY <1>1, <1>2, <1>3, <1>4, <1>5, <1>8, <1>9 DEF l, a, s

LEMMA CreateVerdict ==
    ASSUME VerdictInv, Requests, NEW run \in Runs, NEW status \in {"generated", "generation_failed"},
           NEW body \in Bodies, NEW before \in Seq(Write),
           \A w \in Elements(before) : w.file = "report", InOrder(before, Lasting),
           CreateAttempt(before, run, status, body)
    PROVE  DueSound'
  <1>1. TypeOK
    BY DEF VerdictInv, OwnershipInv
  <1>2. /\ writes = <<>> /\ UNCHANGED <<files, golden, attempts>>
        /\ \A m \in AttemptNo : tasks'[m].running = tasks[m].running
    BY <1>1, RequestTasks DEF files
  <1> DEFINE N == Len(attempts) + 1
             r == NewRecord(run, status, body,
                     IF golden # None THEN "ready_to_evaluate" ELSE "received_submission_only")
  <1>3. /\ N \in AttemptNo /\ N \notin DOMAIN attempts /\ r \in Record
        /\ LatestFile(N, r) \in Write /\ AttemptFile(N, r) \in Write
        /\ writes' = before \o <<LatestFile(N, r), AttemptFile(N, r)>>
        /\ Due' = Elements(before) \cup {LatestFile(N, r), AttemptFile(N, r)}
        /\ \A R : InOrder(before, R) /\ <<LatestFile(N, r), AttemptFile(N, r)>> \in R
                  /\ (\A x \in Elements(before) :
                         <<x, LatestFile(N, r)>> \in R /\ <<x, AttemptFile(N, r)>> \in R)
                     => InOrder(writes', R)
    BY <1>1, CreateShape
  <1> DEFINE l == LatestFile(N, r)
             a == AttemptFile(N, r)
  <1>4. r.state \notin Final
    BY DEF NewRecord, Final
  <1> HIDE DEF N, r
  <1>5. l.file = "latest" /\ a.file = "attempt" /\ a.no = N /\ a.value = r /\ l \in Write /\ a \in Write
    BY <1>3 DEF LatestFile, AttemptFile
  <1>6. Elements(before) \subseteq Write
    BY ElementsType
  <1> HIDE DEF l, a
  <1>7. Due' = Elements(before) \cup {l, a}
    BY <1>3 DEF l, a
  <1>8. \A w \in Due' : IsPlain(w)
    <2>1. IsPlain(l)
      BY <1>5 DEF IsPlain
    <2>2. IsPlain(a)
      BY <1>3, <1>4, <1>5 DEF IsPlain, N
    <2>3. \A w \in Elements(before) : IsPlain(w)
      BY <1>6 DEF IsPlain
    <2> QED BY <1>7, <2>1, <2>2, <2>3
  <1>9. InOrder(writes', Lasting)
    <2>1. <<l, a>> \in Lasting
      BY <1>5, LastingIgnoresLatest DEF IgnoresLatest
    <2>2. \A x \in Elements(before) : <<x, l>> \in Lasting /\ <<x, a>> \in Lasting
      BY <1>5, <1>6 DEF Lasting
    <2> QED BY <1>3, <2>1, <2>2 DEF l, a
  <1>10. DueGolden'
    BY <1>5, <1>7 DEF DueGolden
  <1>11. \A w \in Due' : w.file = "attempt" => w.no \notin DOMAIN attempts
    BY <1>3, <1>5, <1>7
  <1> QED BY <1>2, <1>8, <1>9, <1>10, <1>11, PlainRequest

(* A request that stores at most one receipt or report, and a callback. *)
LEMMA ShortRequest ==
    ASSUME VerdictInv, Requests \/ \E n \in AttemptNo : TaskDone(n),
           \/ writes' = <<>>
           \/ \E w \in Write : w.file \in {"receipt", "report"} /\ writes' = <<w>>
    PROVE  DueSound'
  <1>1. /\ writes = <<>> /\ UNCHANGED files
        /\ \A m \in AttemptNo : tasks'[m].running = tasks[m].running
    BY RequestTasks DEF VerdictInv, OwnershipInv
  <1>2. InOrder(writes', Lasting)
    <2>1. CASE writes' = <<>>
      BY <2>1, ElementsShort
    <2>2. ASSUME NEW w, writes' = <<w>> PROVE InOrder(writes', Lasting)
      BY <2>2, ElementsShort
    <2> QED BY <2>1, <2>2
  <1>5. \A w \in Due' : w \in Write /\ w.file \in {"receipt", "report"}
    <2>1. CASE writes' = <<>>
      BY <2>1, ElementsShort DEF Due
    <2>2. ASSUME NEW w \in Write, w.file \in {"receipt", "report"}, writes' = <<w>>
          PROVE  Due' = {w}
      BY <2>2, ElementsShort DEF Due
    <2> QED BY <2>1, <2>2
  <1>6. \A w \in Due' : IsPlain(w)
    BY <1>5 DEF IsPlain
  <1>3. DueGolden'
    BY <1>5 DEF DueGolden
  <1>4. \A w \in Due' : w.file # "attempt"
    BY <1>5
  <1> QED BY <1>1, <1>2, <1>3, <1>4, <1>6, PlainRequest

(* A failure report stores the report, if there is none, and may create an  *)
(* attempt.                                                                 *)
LEMMA FailureWrites ==
    ASSUME NEW r \in FailureReports, IngestGenerationFailure(r)
    PROVE  \E store \in Seq(Write) :
              /\ store \in {<<>>, <<ReportFile(r)>>}
              /\ \A w \in Elements(store) : w.file = "report"
              /\ InOrder(store, Lasting)
              /\ \/ CreateAttempt(store, r.run, "generation_failed", r.body)
                 \/ writes' = store /\ UNCHANGED tasks
  <1> DEFINE store == IF reports[r.run] = None THEN <<ReportFile(r)>> ELSE <<>>
  <1>1. ReportFile(r) \in Write /\ ReportFile(r).file = "report"
    BY DEF ReportFile, Write
  <1>2. /\ store \in Seq(Write) /\ store \in {<<>>, <<ReportFile(r)>>}
        /\ InOrder(store, Lasting) /\ \A w \in Elements(store) : w.file = "report"
    <2>1. <<ReportFile(r)>> \in Seq(Write)
      BY <1>1
    <2>2. /\ Elements(<<ReportFile(r)>>) = {ReportFile(r)} /\ InOrder(<<ReportFile(r)>>, Lasting)
          /\ Elements(<<>>) = {} /\ InOrder(<<>>, Lasting)
      BY ElementsShort
    <2>3. CASE reports[r.run] = None
      BY <1>1, <2>1, <2>2, <2>3
    <2>4. CASE reports[r.run] # None
      BY <2>2, <2>4, EmptySeq
    <2> QED BY <2>3, <2>4
  <1>3. \/ CreateAttempt(store, r.run, "generation_failed", r.body)
        \/ writes' = store /\ UNCHANGED tasks
    BY DEF IngestGenerationFailure
  <1> HIDE DEF store
  <1> QED BY <1>2, <1>3

LEMMA RequestsVerdict ==
    ASSUME VerdictInv, Requests
    PROVE  DueSound'
  <1>1. ASSUME NEW r \in Receipts, IngestQuestionReceived(r) PROVE DueSound'
    <2>1. ReceiptFile(r) \in Write /\ ReceiptFile(r).file = "receipt" /\ writes' = <<ReceiptFile(r)>>
      BY <1>1 DEF ReceiptFile, Write, IngestQuestionReceived
    <2> QED BY <2>1, ShortRequest
  <1>2. ASSUME NEW s \in Submissions, IngestSubmission(s) PROVE DueSound'
    <2>1. <<>> \in Seq(Write) /\ Elements(<<>>) = {} /\ InOrder(<<>>, Lasting)
      BY EmptySeq, ElementsShort
    <2>2. s.run \in Runs /\ s.body \in Bodies
      BY RequestsAssumption
    <2> QED BY <1>2, <2>1, <2>2, CreateVerdict DEF IngestSubmission
  <1>3. ASSUME NEW r \in FailureReports, IngestGenerationFailure(r) PROVE DueSound'
    <2>1. ReportFile(r) \in Write /\ ReportFile(r).file = "report" /\ r.run \in Runs /\ r.body \in Bodies
      BY RequestsAssumption DEF ReportFile, Write
    <2>2. PICK store \in Seq(Write) :
              /\ store \in {<<>>, <<ReportFile(r)>>}
              /\ \A w \in Elements(store) : w.file = "report"
              /\ InOrder(store, Lasting)
              /\ \/ CreateAttempt(store, r.run, "generation_failed", r.body)
                 \/ writes' = store
      BY <1>3, FailureWrites
    <2>3. CASE CreateAttempt(store, r.run, "generation_failed", r.body)
      BY <2>1, <2>2, <2>3, CreateVerdict
    <2>4. CASE writes' = store
      BY <2>1, <2>2, <2>4, ShortRequest
    <2> QED BY <2>2, <2>3, <2>4
  <1>4. CASE GetEvaluationStatus
    <2>1. writes' = <<>>
      BY <1>4 DEF GetEvaluationStatus, LoopIdle
    <2> QED BY <2>1, ShortRequest
  <1> QED BY <1>1, <1>2, <1>3, <1>4, GoldenVerdict DEF Requests

(* A step that leaves the files and the pending writes alone. *)
LEMMA DueUnchanged ==
    ASSUME VerdictInv, UNCHANGED <<golden, attempts, tickets, writes>>, SuspendedIsOpen'
    PROVE  DueSound'
  <1>1. Due' = Due
    BY DEF Due
  <1>2. InOrder(writes', Lasting)
    BY DEF VerdictInv, DueSound
  <1>3. DueGolden' /\ DueTickets' /\ DueBodies' /\ DueNumbers'
    BY <1>1 DEF VerdictInv, DueSound, DueGolden, DueTickets, DueBodies, DueNumbers, Claim
  <1>4. DueVerdicts'
    BY <1>1 DEF VerdictInv, DueSound, DueVerdicts, IsBacked, HasEvidence, Claim
  <1> QED BY <1>2, <1>3, <1>4 DEF DueSound

(* After a crash nothing is due, and after a restart no task is suspended. *)
LEMMA CrashVerdict ==
    ASSUME VerdictInv, Crash \/ Restart
    PROVE  DueSound'
  <1>1. UNCHANGED <<golden, attempts, tickets>>
    BY DEF Crash, Restart, files
  <1>2. SuspendedIsOpen'
    <2>1. NoTasks.running = "idle" /\ Scheduled(NoTasks).running = "idle"
      BY DEF NoTasks, Scheduled
    <2>2. \A n \in AttemptNo : tasks'[n] \in {NoTasks, Scheduled(NoTasks)}
      BY DEF Crash, Restart
    <2>3. \A n \in AttemptNo : tasks'[n].running = "idle"
      BY <2>1, <2>2
    <2> QED BY <2>3 DEF SuspendedIsOpen
  <1>3. CASE writes' = <<>>
    <2>1. Due' = {}
      BY <1>3 DEF Due, Elements
    <2> QED BY <1>2, <1>3, <2>1, ElementsShort
         DEF DueSound, DueGolden, DueTickets, DueVerdicts, DueBodies, DueNumbers
  <1>4. CASE writes' = writes
    BY <1>1, <1>2, <1>4, DueUnchanged
  <1> QED BY <1>3, <1>4 DEF Crash, Restart

(* Every step but a write leaves the files alone. *)
LEMMA OnlyWritesFile ==
    ASSUME [Next]_vars, ~ WriteFile
    PROVE  UNCHANGED <<golden, receipt, reports, attempts, latest, tickets>>
  BY DEF Next, vars, files, Requests, IngestGolden, IngestQuestionReceived,
         IngestSubmission, IngestGenerationFailure, CreateAttempt, GetEvaluationStatus,
         EventLoop, Evaluate, StartEvaluation, GrammarExplained, QueryExecuted,
         SemanticReviewed, TaskDone, Crash, Restart

(* What every file claims of a verdict holds, and so will what every write  *)
(* that is due claims, after any interleaving of requests, evaluations,     *)
(* crashes and restarts.                                                    *)
THEOREM VerdictSound == Spec => []VerdictInv
  <1>1. Init => VerdictInv
    <2> SUFFICES ASSUME Init PROVE VerdictInv
      OBVIOUS
    <2>1. OwnershipInv
      BY InitType DEF Init, OwnershipInv, Suspension, NoTasks, PendingAttempts, RunOwnsOneAttempt
    <2>2. Due = {} /\ InOrder(writes, Lasting)
      BY ElementsShort DEF Init, Due
    <2>3. SuspendedIsOpen
      BY DEF Init, NoTasks, SuspendedIsOpen
    <2>4. FinalHasGolden /\ FinalStateIsBacked /\ VerdictHasEvidence
      BY DEF Init, FinalHasGolden, FinalStateIsBacked, VerdictHasEvidence
    <2> QED BY <2>1, <2>2, <2>3, <2>4 DEF VerdictInv, DueSound, DueGolden, DueTickets,
                                           DueVerdicts, DueBodies, DueNumbers
  <1>2. VerdictInv /\ OwnershipInv' /\ [Next]_vars => VerdictInv'
    <2> SUFFICES ASSUME VerdictInv, OwnershipInv', [Next]_vars PROVE VerdictInv'
      OBVIOUS
    <2>1. CASE WriteFile
      BY <2>1, WriteVerdict
    <2>2. CASE ~ WriteFile
      <3>1. UNCHANGED <<golden, attempts, tickets>>
        BY <2>2, OnlyWritesFile
      <3>2. FinalHasGolden' /\ FinalStateIsBacked' /\ VerdictHasEvidence'
        BY <3>1 DEF VerdictInv, FinalHasGolden, FinalStateIsBacked, VerdictHasEvidence, HasEvidence
      <3>3. ASSUME NEW n \in AttemptNo, TaskDone(n) PROVE DueSound'
        <4>1. writes' = <<>>
          BY <3>3 DEF TaskDone, LoopIdle
        <4> QED BY <3>3, <4>1, ShortRequest
      <3>4. ASSUME UNCHANGED vars PROVE DueSound'
        <4>1. UNCHANGED <<golden, attempts, tickets, writes, tasks>>
          BY <3>4 DEF vars, files
        <4>2. SuspendedIsOpen'
          BY <4>1 DEF VerdictInv, DueSound, SuspendedIsOpen, Due, RowsDiffer
        <4> QED BY <4>1, <4>2, DueUnchanged
      <3>5. DueSound'
        BY <2>2, <3>3, <3>4, RequestsVerdict, EvaluateVerdict, CrashVerdict DEF Next, EventLoop
      <3> QED BY <3>2, <3>5 DEF VerdictInv
    <2> QED BY <2>1, <2>2
  <1>3. Spec => []OwnershipInv
    BY OwnershipInvariant
  <1> QED BY <1>1, <1>2, <1>3, PTL DEF Spec

(* A final attempt has its evaluation, and its ticket is on file, wherever  *)
(* the process died while it was storing them.                              *)
THEOREM FinalBacked == Spec => []FinalStateIsBacked
  <1>1. VerdictInv => FinalStateIsBacked
    BY DEF VerdictInv
  <1> QED BY <1>1, VerdictSound, PTL

(* The reason of a final verdict agrees with the execution and the review   *)
(* on file, which other sections stored, perhaps in an earlier process.     *)
THEOREM VerdictEvidence == Spec => []VerdictHasEvidence
  <1>1. VerdictInv => VerdictHasEvidence
    BY DEF VerdictInv
  <1> QED BY <1>1, VerdictSound, PTL

-----------------------------------------------------------------------------
(***************************************************************************)
(* Nothing ready is forgotten.  An attempt without a live task, and whose  *)
(* last task did not raise, is not ready; while its section's writes are   *)
(* due, one of them is about to take it out of ready, and none puts it     *)
(* back.                                                                   *)
(***************************************************************************)
IsAttended(n) ==
    \/ Live(tasks[n]) \/ tasks[n].raised
    \/ \E w \in Due : w.file = "attempt" /\ w.no = n /\ w.value.state # "ready_to_evaluate"
    \/ /\ n \in DOMAIN attempts => attempts[n].state # "ready_to_evaluate"
       /\ \A w \in Due : w.file = "attempt" => w.no # n

ReadyInv ==
    /\ up => \A n \in AttemptNo : IsAttended(n)
    /\ ~ up => writes = <<>>

LEMMA ScheduledLive ==
    ASSUME NEW t \in Tasks
    PROVE  Live(Scheduled(t))
  <1>1. t.waiting + 1 > 0
    BY DEF Tasks
  <1> QED BY <1>1 DEF Scheduled, Live, Tasks

(* While the loop is idle, an attempt is left alone by a section that       *)
(* writes no file of it and keeps or schedules its task.                    *)
LEMMA AttendedStays ==
    ASSUME TypeOK, ReadyInv, up, writes = <<>>, UNCHANGED attempts, NEW n \in AttemptNo,
           \/ Live(tasks'[n])
           \/ /\ Live(tasks[n]) => Live(tasks'[n])
              /\ tasks[n].raised => tasks'[n].raised
              /\ \A w \in Due' : w.file = "attempt" => w.no # n
    PROVE  IsAttended(n)'
  BY DEF ReadyInv, IsAttended, Due, Elements

LEMMA WriteReady ==
    ASSUME VerdictInv, ReadyInv, WriteFile
    PROVE  ReadyInv'
  <1> DEFINE w == Head(writes)
             E == Due'
  <1>1. /\ w \in Write /\ w \in Due /\ Due = {w} \cup E /\ Due \subseteq Write
        /\ \A v \in E : <<w, v>> \in Lasting
    BY DueShrinks DEF VerdictInv, OwnershipInv, DueSound
  <1>2. up /\ up' /\ UNCHANGED tasks
    BY DEF WriteFile
  <1>3. w.file = "attempt" =>
           /\ DOMAIN attempts' = DOMAIN attempts \cup {w.no}
           /\ \A n \in DOMAIN attempts' : attempts'[n] = IF n = w.no THEN w.value ELSE attempts[n]
    BY AttemptWritten DEF VerdictInv, DueSound
  <1>4. w.file # "attempt" => UNCHANGED attempts
    BY DEF WriteFile
  <1> HIDE DEF w, E
  <1>5. ASSUME NEW n \in AttemptNo PROVE IsAttended(n)'
    <2>1. IsAttended(n)
      BY <1>2 DEF ReadyInv
    <2>2. CASE w.file = "attempt" /\ w.no = n
      <3>1. CASE w.value.state = "ready_to_evaluate"
        BY <1>1, <1>2, <2>1, <2>2, <3>1 DEF IsAttended, E
      <3>2. CASE w.value.state # "ready_to_evaluate"
        <4>1. \A v \in E : v.file = "attempt" => v.value.state # "ready_to_evaluate"
          BY <1>1, <2>2, <3>2 DEF Lasting
        <4>2. attempts'[n].state # "ready_to_evaluate"
          BY <1>3, <2>2, <3>2
        <4> QED BY <1>2, <4>1, <4>2 DEF IsAttended, E
      <3> QED BY <3>1, <3>2
    <2>3. CASE ~ (w.file = "attempt" /\ w.no = n)
      <3>1. /\ n \in DOMAIN attempts' <=> n \in DOMAIN attempts
            /\ n \in DOMAIN attempts => attempts'[n] = attempts[n]
        BY <1>3, <1>4, <2>3
      <3> QED BY <1>1, <1>2, <2>1, <2>3, <3>1 DEF IsAttended, E
    <2> QED BY <2>2, <2>3
  <1> QED BY <1>2, <1>5 DEF ReadyInv

LEMMA GoldenReady ==
    ASSUME TypeOK, ReadyInv, NEW g \in Answers, IngestGolden(g)
    PROVE  ReadyInv'
  <1>1. writes = <<>> /\ up /\ up' /\ UNCHANGED attempts
    BY DEF IngestGolden, LoopIdle, files
  <1>2. GoldenFile(g).file = "golden"
    BY DEF GoldenFile
  <1>3. CASE Due' = {GoldenFile(g)} /\ UNCHANGED tasks
    BY <1>1, <1>2, <1>3, AttendedStays DEF ReadyInv
  <1>4. ASSUME NEW n \in AttemptNo, tasks' = [tasks EXCEPT ![n] = Scheduled(@)],
               \A w \in Due' : w.file = "attempt" => w.no = n
        PROVE  ReadyInv'
    <2>1. Live(tasks'[n]) /\ \A m \in AttemptNo \ {n} : tasks'[m] = tasks[m]
      BY <1>4, ScheduledLive DEF TypeOK
    <2> QED BY <1>1, <1>4, <2>1, AttendedStays DEF ReadyInv
  <1>5. ASSUME NEW n, NEW r, \A w \in Due' : w \in {GoldenFile(g), AttemptFile(n, r), LatestFile(n, r)}
        PROVE  \A w \in Due' : w.file = "attempt" => w.no = n
    BY <1>2, <1>5 DEF AttemptFile, LatestFile
  <1> QED BY <1>3, <1>4, <1>5, GoldenWrites

LEMMA CreateReady ==
    ASSUME TypeOK, ReadyInv, up, writes = <<>>, NEW run \in Runs,
           NEW status \in {"generated", "generation_failed"},
           NEW body \in Bodies, NEW before \in Seq(Write),
           \A w \in Elements(before) : w.file = "report",
           CreateAttempt(before, run, status, body)
    PROVE  ReadyInv'
  <1> DEFINE N == Len(attempts) + 1
             r == NewRecord(run, status, body,
                     IF golden # None THEN "ready_to_evaluate" ELSE "received_submission_only")
             l == LatestFile(N, r)
             a == AttemptFile(N, r)
  <1>0. /\ N = Len(attempts) + 1
        /\ r = NewRecord(run, status, body,
                  IF golden # None THEN "ready_to_evaluate" ELSE "received_submission_only")
    OBVIOUS
  <1> HIDE DEF N, r
  <1>1. /\ N \in AttemptNo /\ r \in Record /\ writes' = before \o <<l, a>>
        /\ Due' = Elements(before) \cup {l, a}
    BY <1>0, CreateShape
  <1>8. tasks' = IF golden # None THEN [tasks EXCEPT ![N] = Scheduled(@)] ELSE tasks
    BY <1>0 DEF CreateAttempt
  <1>2. /\ l.file = "latest" /\ a.file = "attempt" /\ a.no = N /\ a.value = r
        /\ golden = None => r.state = "received_submission_only"
    BY <1>0 DEF LatestFile, AttemptFile, NewRecord
  <1>3. up' /\ UNCHANGED attempts
    BY DEF CreateAttempt, files
  <1> HIDE DEF l, a
  <1>4. \A w \in Due' : w.file = "attempt" => w.no = N
    BY <1>1, <1>2
  <1>5. \A n \in AttemptNo \ {N} : tasks'[n] = tasks[n]
    BY <1>1, <1>8 DEF TypeOK
  <1>6. ASSUME NEW n \in AttemptNo, n # N PROVE IsAttended(n)'
    BY <1>3, <1>4, <1>5, <1>6, AttendedStays
  <1>7. ASSUME NEW n \in AttemptNo, n = N PROVE IsAttended(n)'
    <2>1. CASE golden # None
      <3>1. Live(tasks'[n])
        BY <1>7, <1>8, <2>1, ScheduledLive DEF TypeOK
      <3> QED BY <1>3, <3>1, AttendedStays
    <2>2. CASE golden = None
      <3>1. a \in Due' /\ a.value.state # "ready_to_evaluate"
        BY <1>1, <1>2, <2>2
      <3> QED BY <1>2, <1>7, <3>1 DEF IsAttended
    <2> QED BY <2>1, <2>2
  <1> QED BY <1>3, <1>6, <1>7 DEF ReadyInv

LEMMA RequestsReady ==
    ASSUME TypeOK, ReadyInv, Requests
    PROVE  ReadyInv'
  <1>1. writes = <<>> /\ up /\ up' /\ UNCHANGED attempts
    <2>1. LoopIdle /\ UNCHANGED <<files, up>>
      BY DEF Requests, IngestGolden, IngestQuestionReceived, IngestSubmission,
         IngestGenerationFailure, CreateAttempt, GetEvaluationStatus
    <2> QED BY <2>1 DEF LoopIdle, files
  <1>2. ASSUME UNCHANGED tasks, \A w \in Due' : w.file # "attempt" PROVE ReadyInv'
    BY <1>1, <1>2, AttendedStays DEF ReadyInv
  <1>3. ASSUME NEW r \in Receipts, IngestQuestionReceived(r) PROVE ReadyInv'
    <2>1. Due' = {ReceiptFile(r)} /\ ReceiptFile(r).file = "receipt"
      BY <1>3, ElementsShort DEF IngestQuestionReceived, Due, ReceiptFile
    <2> QED BY <1>2, <1>3, <2>1 DEF IngestQuestionReceived
  <1>4. ASSUME NEW s \in Submissions, IngestSubmission(s) PROVE ReadyInv'
    <2>1. <<>> \in Seq(Write) /\ Elements(<<>>) = {}
      BY EmptySeq, ElementsShort
    <2>2. s.run \in Runs /\ s.body \in Bodies
      BY RequestsAssumption
    <2> QED BY <1>1, <1>4, <2>1, <2>2, CreateReady DEF IngestSubmission
  <1>5. ASSUME NEW r \in FailureReports, IngestGenerationFailure(r) PROVE ReadyInv'
    <2>1. r.run \in Runs /\ r.body \in Bodies
      BY RequestsAssumption
    <2>2. PICK store \in Seq(Write) :
              /\ \A w \in Elements(store) : w.file = "report"
              /\ \/ CreateAttempt(store, r.run, "generation_failed", r.body)
                 \/ writes' = store /\ UNCHANGED tasks
      BY <1>5, FailureWrites
    <2>3. CASE CreateAttempt(store, r.run, "generation_failed", r.body)
      BY <1>1, <2>1, <2>2, <2>3, CreateReady
    <2>4. CASE writes' = store /\ UNCHANGED tasks
      BY <1>2, <2>2, <2>4 DEF Due
    <2> QED BY <2>2, <2>3, <2>4
  <1>6. CASE GetEvaluationStatus
    <2>1. latest.no \in AttemptNo /\ tasks' = [tasks EXCEPT ![latest.no] = Scheduled(@)]
      BY <1>6 DEF GetEvaluationStatus, TypeOK
    <2>2. Live(tasks'[latest.no]) /\ \A m \in AttemptNo \ {latest.no} : tasks'[m] = tasks[m]
      BY <2>1, ScheduledLive DEF TypeOK
    <2>3. Due' = {}
      BY <1>6, <1>1 DEF GetEvaluationStatus, Due, Elements
    <2> QED BY <1>1, <2>2, <2>3, AttendedStays DEF ReadyInv
  <1> QED BY <1>3, <1>4, <1>5, <1>6, GoldenReady DEF Requests

(* An evaluation leaves its attempt attended: its task goes on, raised, or  *)
(* what it stores takes the attempt out of ready.                           *)
LEMMA EvaluateReady ==
    ASSUME VerdictInv, ReadyInv, NEW n \in AttemptNo, Evaluate(n)
    PROVE  ReadyInv'
  <1>1. /\ writes = <<>> /\ up /\ up' /\ UNCHANGED attempts
        /\ \A m \in AttemptNo \ {n} : tasks'[m] = tasks[m]
    BY EvaluateFrame DEF VerdictInv
  <1>2. /\ \A w \in Due' : w.file = "attempt" => w.no = n
        /\ IsAttended(n)'
    <2>1. CASE Idles(n)
      <3>1. Due' = {}
        BY <2>1 DEF Idles, Due, Elements
      <3>2. "ready_to_evaluate" \notin Settled
        BY DEF Settled, Final
      <3> QED BY <1>1, <2>1, <3>1, <3>2 DEF Idles, IsAttended, Live
    <2>2. ASSUME golden # None, n \in DOMAIN attempts, NEW r \in Revised(attempts[n]), Decides(n, r)
          PROVE  /\ \A w \in Due' : w.file = "attempt" => w.no = n
                 /\ IsAttended(n)'
      <3>1. r \in Record /\ golden \in Answers
        BY <2>2 DEF Revised, VerdictInv, OwnershipInv, TypeOK
      <3>2. \A q : /\ AttemptFile(n, q).file = "attempt" /\ AttemptFile(n, q).no = n
                   /\ AttemptFile(n, q).value = q /\ LatestFile(n, q).file = "latest"
        BY DEF AttemptFile, LatestFile
      <3>3. CASE Stores(n, r)
        <4>1. Due' = Elements(MutateWrites(n, r))
          BY <3>3 DEF Stores, Due
        <4>2. \A w \in Due' : w = AttemptFile(n, r) \/ w = LatestFile(n, r)
          BY <3>1, <4>1, MutateShape
        <4> QED BY <3>2, <3>3, <4>2 DEF Stores, IsAttended, Live
      <3>4. ASSUME NEW state \in {"tugraph_execution_failed", "semantic_review_invalid"},
                   writes' = MutateWrites(n, r) \o MutateWrites(n, [r EXCEPT !.state = state])
            PROVE  /\ \A w \in Due' : w.file = "attempt" => w.no = n
                   /\ IsAttended(n)'
        <4> DEFINE q == [r EXCEPT !.state = state]
        <4>1. q \in Record /\ q.state # "ready_to_evaluate"
          BY <3>1 DEF Record, State
        <4>2. Due' = Elements(MutateWrites(n, r) \o MutateWrites(n, q))
          BY <3>4 DEF Due
        <4> HIDE DEF q
        <4>3. /\ AttemptFile(n, q) \in Due'
              /\ \A w \in Due' : w = AttemptFile(n, r) \/ w = AttemptFile(n, q) \/ w.file = "latest"
          <5>1. \A w \in Mirror(n) : w.file = "latest"
            BY DEF Mirror
          <5> QED BY <3>1, <4>1, <4>2, <5>1, TwoUpdates
        <4> QED BY <3>2, <4>1, <4>3 DEF IsAttended
      <3>5. ASSUME NEW e \in Evaluation, Concludes(n, r, e)
            PROVE  /\ \A w \in Due' : w.file = "attempt" => w.no = n
                   /\ IsAttended(n)'
        <4>1. AttemptFile(n, Concluded(r, e)) \in Due'
          BY <3>1, <3>5, ConclusionSection
        <4>2. Concluded(r, e).state # "ready_to_evaluate"
          BY <3>1, ConcludedValues
        <4>3. \A w \in Due' : w.file = "attempt" => w.no = n
          BY <2>2, <3>1, <3>5, ClosingNumber
        <4> QED BY <3>2, <4>1, <4>2, <4>3 DEF IsAttended
      <3> QED BY <2>2, <3>3, <3>4, <3>5 DEF Decides, GivesUp
    <2> QED BY <2>1, <2>2, EvaluateSections
  <1>3. \A m \in AttemptNo \ {n} : IsAttended(m)'
    BY <1>1, <1>2, AttendedStays DEF VerdictInv, OwnershipInv
  <1> QED BY <1>1, <1>2, <1>3 DEF ReadyInv

LEMMA RestReady ==
    ASSUME TypeOK, ReadyInv,
           (\E n \in AttemptNo : TaskDone(n)) \/ Crash \/ Restart \/ UNCHANGED vars
    PROVE  ReadyInv'
  <1>1. ASSUME NEW n \in AttemptNo, TaskDone(n) PROVE ReadyInv'
    <2>1. writes = <<>> /\ writes' = <<>> /\ up /\ up' /\ UNCHANGED attempts
      BY <1>1 DEF TaskDone, LoopIdle, files
    <2>2. Due' = {}
      BY <2>1 DEF Due, Elements
    <2>3. \A m \in AttemptNo : /\ Live(tasks[m]) => Live(tasks'[m])
                               /\ tasks[m].raised => tasks'[m].raised
      BY <1>1 DEF TaskDone, TypeOK, Tasks, Live
    <2> QED BY <2>1, <2>2, <2>3, AttendedStays DEF ReadyInv
  <1>2. CASE Crash
    BY <1>2 DEF Crash, ReadyInv
  <1>3. CASE Restart
    <2>1. writes' = <<>> /\ Due' = {} /\ up' /\ UNCHANGED attempts
      BY <1>3 DEF Restart, ReadyInv, Due, Elements, files
    <2>2. Live(Scheduled(NoTasks))
      BY ScheduledLive DEF NoTasks, Tasks
    <2>3. ASSUME NEW n \in AttemptNo PROVE IsAttended(n)'
      <3>1. n \in ToResume => Live(tasks'[n])
        BY <1>3, <2>2 DEF Restart
      <3>2. n \notin ToResume => (n \in DOMAIN attempts => attempts[n].state # "ready_to_evaluate")
        BY DEF ToResume
      <3> QED BY <2>1, <3>1, <3>2 DEF IsAttended
    <2> QED BY <2>1, <2>3 DEF ReadyInv
  <1>4. CASE UNCHANGED vars
    <2>1. UNCHANGED <<attempts, writes, tasks, up>>
      BY <1>4 DEF vars, files
    <2> QED BY <2>1 DEF ReadyInv, IsAttended, Due, Live
  <1> QED BY <1>1, <1>2, <1>3, <1>4

(* No ready attempt waits for an evaluation nobody performs, whatever the   *)
(* order of requests, callbacks, crashes and restarts.                      *)
THEOREM ReadyScheduled == Spec => []ReadyIsScheduled
  <1>1. Init => ReadyInv
    BY DEF Init, ReadyInv, IsAttended, Due, Elements
  <1>2. VerdictInv /\ ReadyInv /\ [Next]_vars => ReadyInv'
    <2> SUFFICES ASSUME VerdictInv, ReadyInv, [Next]_vars PROVE ReadyInv'
      OBVIOUS
    <2>1. TypeOK
      BY DEF VerdictInv, OwnershipInv
    <2> QED BY <2>1, WriteReady, RequestsReady, EvaluateReady, RestReady DEF Next, EventLoop
  <1>3. TypeOK /\ ReadyInv => ReadyIsScheduled
    <2> SUFFICES ASSUME TypeOK, ReadyInv, LoopIdle, NEW n \in DOMAIN attempts,
                        attempts[n].state = "ready_to_evaluate"
                 PROVE  Live(tasks[n]) \/ tasks[n].raised
      BY DEF ReadyIsScheduled
    <2>1. n \in AttemptNo /\ Due = {}
      BY AttemptDomain DEF LoopIdle, Due, Elements
    <2> QED BY <2>1 DEF ReadyInv, IsAttended, LoopIdle
  <1> QED BY <1>1, <1>2, <1>3, VerdictSound, TypeCorrect, PTL DEF Spec

-----------------------------------------------------------------------------
(***************************************************************************)
(* The latest snapshot leads.  A new attempt is announced there before its *)
(* file is written, and no late result of an older one replaces it.        *)
(***************************************************************************)
DueLatest ==
    \A w \in Due : w.file = "latest" =>
        /\ w.no \in {Len(attempts), Len(attempts) + 1}
        /\ latest # None => latest.no <= w.no
        /\ \A v \in Due : v.file = "latest" => v.no = w.no

DueAnnounced ==
    \A w \in Due : w.file = "attempt" /\ w.no \notin DOMAIN attempts =>
        \/ latest # None /\ latest.no = Len(attempts) + 1
        \/ \E v \in Due : v.file = "latest" /\ v.no = Len(attempts) + 1

CoverInv ==
    /\ latest # None => latest.no \in {Len(attempts), Len(attempts) + 1}
    /\ attempts # <<>> => latest # None
    /\ DueLatest /\ DueAnnounced

(* The writes of an evaluation concern its attempt only. *)
LEMMA EvaluateDue ==
    ASSUME VerdictInv, NEW n \in AttemptNo, Evaluate(n)
    PROVE  \A w \in Due' :
              /\ n \in DOMAIN attempts
              /\ \/ w.file \in {"attempt", "ticket"} /\ w.no = n
                 \/ w \in Mirror(n)
  <1>1. CASE Idles(n)
    BY <1>1 DEF Idles, Due, Elements
  <1>2. ASSUME golden # None, n \in DOMAIN attempts, NEW r \in Revised(attempts[n]), Decides(n, r)
        PROVE  \A w \in Due' : (w.file \in {"attempt", "ticket"} /\ w.no = n) \/ w \in Mirror(n)
    <2>1. r \in Record /\ golden \in Answers
      BY <1>2 DEF Revised, VerdictInv, OwnershipInv, TypeOK
    <2>2. \A q : AttemptFile(n, q).file = "attempt" /\ AttemptFile(n, q).no = n
      BY DEF AttemptFile
    <2>3. CASE Stores(n, r)
      <3>1. Due' = Elements(MutateWrites(n, r))
        BY <2>3 DEF Stores, Due
      <3> QED BY <2>1, <2>2, <3>1, MutateShape
    <2>4. ASSUME NEW state \in {"tugraph_execution_failed", "semantic_review_invalid"},
                 writes' = MutateWrites(n, r) \o MutateWrites(n, [r EXCEPT !.state = state])
          PROVE  \A w \in Due' : (w.file \in {"attempt", "ticket"} /\ w.no = n) \/ w \in Mirror(n)
      <3> DEFINE q == [r EXCEPT !.state = state]
      <3>1. q \in Record
        BY <2>1 DEF Record, State
      <3>2. Due' = Elements(MutateWrites(n, r) \o MutateWrites(n, q))
        BY <2>4 DEF Due
      <3> HIDE DEF q
      <3> QED BY <2>1, <2>2, <3>1, <3>2, TwoUpdates
    <2>5. ASSUME NEW e \in Evaluation, Concludes(n, r, e)
          PROVE  \A w \in Due' : (w.file \in {"attempt", "ticket"} /\ w.no = n) \/ w \in Mirror(n)
      BY <2>1, <2>5, ClosingDue
    <2> QED BY <1>2, <2>3, <2>4, <2>5 DEF Decides, GivesUp
  <1> QED BY <1>1, <1>2, EvaluateSections

LEMMA WriteCover ==
    ASSUME VerdictInv, CoverInv, WriteFile
    PROVE  CoverInv'
  <1> DEFINE w == Head(writes)
             E == Due'
             N == Len(attempts)
  <1>1. w \in Write /\ w \in Due /\ Due = {w} \cup E /\ Due \subseteq Write
    BY DueShrinks DEF VerdictInv, OwnershipInv
  <1>2. attempts \in Seq(Record) /\ N \in Nat /\ DOMAIN attempts = 1 .. N
    BY LenProperties DEF VerdictInv, OwnershipInv, TypeOK
  <1>3. latest # None => latest.no \in Nat
    BY DEF VerdictInv, OwnershipInv, TypeOK, AttemptNo
  <1>4. CASE w.file = "latest"
    <2>1. UNCHANGED attempts /\ latest' = [no |-> w.no, record |-> w.value] /\ w.no \in AttemptNo
      BY <1>1, <1>4 DEF WriteFile, Write
    <2>2. latest' # None /\ latest'.no = w.no
      <3>1. latest' \in [no : AttemptNo, record : Record]
        BY <1>1, <1>4, <2>1 DEF Write
      <3> QED BY <2>1, <3>1, AbsentAssumption
    <2> HIDE DEF w, E
    <2>3. DueLatest'
      <3>1. w.no \in Nat
        BY <2>1 DEF AttemptNo
      <3>2. \A v \in E : v.file = "latest" => v.no = w.no
        BY <1>1, <1>4 DEF CoverInv, DueLatest
      <3>3. w.no \in {N, N + 1}
        BY <1>1, <1>4 DEF CoverInv, DueLatest
      <3> QED BY <2>1, <2>2, <3>1, <3>2, <3>3 DEF DueLatest, E
    <2>4. DueAnnounced'
      <3> SUFFICES ASSUME NEW v \in E, v.file = "attempt", v.no \notin DOMAIN attempts
                   PROVE  latest'.no = N + 1
        BY <2>1, <2>2 DEF DueAnnounced, E
      <3>1. \/ latest # None /\ latest.no = N + 1
            \/ \E u \in Due : u.file = "latest" /\ u.no = N + 1
        BY <1>1 DEF CoverInv, DueAnnounced
      <3>2. /\ w.no \in {N, N + 1}
            /\ latest # None => latest.no <= w.no
            /\ \A u \in Due : u.file = "latest" => u.no = w.no
        BY <1>1, <1>4 DEF CoverInv, DueLatest
      <3> QED BY <1>2, <1>3, <2>2, <3>1, <3>2
    <2>5. w.no \in {N, N + 1}
      BY <1>1, <1>4 DEF CoverInv, DueLatest
    <2> QED BY <2>1, <2>2, <2>3, <2>4, <2>5 DEF CoverInv
  <1>5. CASE w.file = "attempt"
    <2>1. /\ UNCHANGED latest
          /\ DOMAIN attempts' = DOMAIN attempts \cup {w.no}
          /\ w.no \notin DOMAIN attempts => E = {} /\ w.no = N + 1 /\ Len(attempts') = N + 1
          /\ w.no \in DOMAIN attempts => Len(attempts') = N
      BY <1>5, AttemptWritten DEF VerdictInv, DueSound
    <2> HIDE DEF w, E
    <2>2. CASE w.no \in DOMAIN attempts
      <3>1. attempts # <<>>
        BY <2>2
      <3>2. DOMAIN attempts' = DOMAIN attempts /\ Len(attempts') = N
        BY <2>1, <2>2
      <3>3. DueLatest'
        BY <1>1, <1>5, <2>1, <3>2 DEF CoverInv, DueLatest, E
      <3>4. DueAnnounced'
        BY <1>1, <1>5, <2>1, <3>2 DEF CoverInv, DueAnnounced, E
      <3> QED BY <2>1, <3>1, <3>2, <3>3, <3>4 DEF CoverInv
    <2>3. CASE w.no \notin DOMAIN attempts
      <3>1. latest # None /\ latest.no = N + 1
        BY <1>1, <1>5, <2>1, <2>3 DEF CoverInv, DueAnnounced
      <3>2. DueLatest' /\ DueAnnounced'
        BY <2>1, <2>3 DEF DueLatest, DueAnnounced, E
      <3> QED BY <2>1, <2>3, <3>1, <3>2 DEF CoverInv
    <2> QED BY <2>2, <2>3
  <1>6. CASE w.file \notin {"latest", "attempt"}
    <2>1. UNCHANGED <<latest, attempts>>
      BY <1>6 DEF WriteFile
    <2> HIDE DEF w, E
    <2>2. DueLatest' /\ DueAnnounced'
      BY <1>1, <1>6, <2>1 DEF CoverInv, DueLatest, DueAnnounced, E
    <2> QED BY <2>1, <2>2 DEF CoverInv
  <1> QED BY <1>4, <1>5, <1>6

(* A section that updates attempt n, which is on file, mirrors it only if   *)
(* it is the newest.                                                        *)
LEMMA MirrorCover ==
    ASSUME TypeOK, CoverInv, UNCHANGED files, NEW n,
           \A w \in Due' : \/ w.file \notin {"attempt", "latest"}
                           \/ n \in DOMAIN attempts /\ ((w.file = "attempt" /\ w.no = n) \/ w \in Mirror(n))
    PROVE  CoverInv'
  <1>1. UNCHANGED <<latest, attempts>>
    BY DEF files
  <1>2. attempts \in Seq(Record) /\ Len(attempts) \in Nat /\ DOMAIN attempts = 1 .. Len(attempts)
        /\ (n \in DOMAIN attempts => attempts # <<>>)
    BY LenProperties DEF TypeOK
  <1>3. ASSUME NEW w \in Due', w.file = "latest"
        PROVE  w.no = n /\ w.no = Len(attempts) /\ latest # None /\ latest.no <= w.no
    <2>1. n \in DOMAIN attempts /\ w \in Mirror(n)
      BY <1>3
    <2> QED BY <1>2, <2>1 DEF Mirror, CoverInv
  <1>4. DueLatest'
    BY <1>1, <1>3 DEF DueLatest
  <1>5. DueAnnounced'
    BY <1>1 DEF DueAnnounced, Mirror
  <1> QED BY <1>1, <1>4, <1>5 DEF CoverInv

LEMMA CreateCover ==
    ASSUME TypeOK, CoverInv, NEW run \in Runs, NEW status \in {"generated", "generation_failed"},
           NEW body \in Bodies, NEW before \in Seq(Write),
           \A w \in Elements(before) : w.file = "report",
           CreateAttempt(before, run, status, body)
    PROVE  CoverInv'
  <1> DEFINE N == Len(attempts) + 1
             r == NewRecord(run, status, body,
                     IF golden # None THEN "ready_to_evaluate" ELSE "received_submission_only")
             l == LatestFile(N, r)
             a == AttemptFile(N, r)
  <1>0. /\ N = Len(attempts) + 1
        /\ r = NewRecord(run, status, body,
                  IF golden # None THEN "ready_to_evaluate" ELSE "received_submission_only")
    OBVIOUS
  <1> HIDE DEF N, r
  <1>1. /\ N \in AttemptNo /\ r \in Record /\ writes' = before \o <<l, a>>
        /\ Due' = Elements(before) \cup {l, a}
    BY <1>0, CreateShape
  <1>2. /\ l.file = "latest" /\ l.no = N /\ a.file = "attempt" /\ a.no = N
    BY DEF LatestFile, AttemptFile
  <1>3. UNCHANGED <<attempts, latest>>
    BY DEF CreateAttempt, files
  <1>4. Len(attempts) \in Nat /\ (latest # None => latest.no \in Nat)
    BY LenProperties DEF TypeOK, AttemptNo
  <1> HIDE DEF l, a
  <1>5. \A w \in Due' : w.file = "latest" => w = l
    BY <1>1, <1>2
  <1>6. DueLatest'
    BY <1>0, <1>2, <1>3, <1>4, <1>5 DEF CoverInv, DueLatest
  <1>7. DueAnnounced'
    BY <1>0, <1>1, <1>2, <1>3 DEF DueAnnounced
  <1> QED BY <1>3, <1>6, <1>7 DEF CoverInv

LEMMA RequestsCover ==
    ASSUME TypeOK, CoverInv, Requests
    PROVE  CoverInv'
  <1>1. writes = <<>> /\ UNCHANGED files
    BY RequestTasks
  <1>2. ASSUME \A w \in Due' : w.file \notin {"attempt", "latest"} PROVE CoverInv'
    BY <1>1, <1>2, MirrorCover
  <1>3. ASSUME NEW r \in Receipts, IngestQuestionReceived(r) PROVE CoverInv'
    <2>1. Due' = {ReceiptFile(r)} /\ ReceiptFile(r).file = "receipt"
      BY <1>3, ElementsShort DEF IngestQuestionReceived, Due, ReceiptFile
    <2> QED BY <1>2, <2>1
  <1>4. ASSUME NEW s \in Submissions, IngestSubmission(s) PROVE CoverInv'
    <2>1. <<>> \in Seq(Write) /\ Elements(<<>>) = {}
      BY EmptySeq, ElementsShort
    <2>2. s.run \in Runs /\ s.body \in Bodies
      BY RequestsAssumption
    <2> QED BY <1>4, <2>1, <2>2, CreateCover DEF IngestSubmission
  <1>5. ASSUME NEW r \in FailureReports, IngestGenerationFailure(r) PROVE CoverInv'
    <2>1. /\ r.run \in Runs /\ r.body \in Bodies
          /\ \E store \in Seq(Write) :
               /\ \A w \in Elements(store) : w.file = "report"
               /\ \/ CreateAttempt(store, r.run, "generation_failed", r.body)
                  \/ writes' = store
      BY <1>5, RequestsAssumption, FailureWrites
    <2> QED BY <1>2, <2>1, CreateCover DEF Due
  <1>6. CASE GetEvaluationStatus
    <2>1. Due' = {}
      BY <1>1, <1>6 DEF GetEvaluationStatus, Due, Elements
    <2> QED BY <1>2, <2>1
  <1>7. ASSUME NEW g \in Answers, IngestGolden(g) PROVE CoverInv'
    <2>1. GoldenFile(g).file = "golden"
      BY DEF GoldenFile
    <2>2. CASE Due' = {GoldenFile(g)}
      BY <1>2, <2>1, <2>2
    <2>3. ASSUME NEW n \in DOMAIN attempts, NEW r \in Record, n \in AttemptNo,
                 Due' = {GoldenFile(g)} \cup Elements(MutateWrites(n, r))
          PROVE  CoverInv'
      <3>1. \A q : AttemptFile(n, q).file = "attempt" /\ AttemptFile(n, q).no = n
        BY DEF AttemptFile
      <3>2. \A w \in Elements(MutateWrites(n, r)) : w = AttemptFile(n, r) \/ w \in Mirror(n)
        BY <2>3, MutateShape
      <3> QED BY <1>1, <2>1, <2>3, <3>1, <3>2, MirrorCover
    <2> QED BY <1>7, <2>2, <2>3, GoldenWrites
  <1> QED BY <1>3, <1>4, <1>5, <1>6, <1>7 DEF Requests

(* Also while a new attempt is being stored, and after a crash in between:  *)
(* the latest snapshot shows the newest attempt on file or the next one.    *)
THEOREM LatestCovers == Spec => []LatestCoversAttempts
  <1>1. Init => CoverInv
    <2> SUFFICES ASSUME Init PROVE CoverInv
      OBVIOUS
    <2>1. Due = {} /\ attempts = <<>> /\ latest = None
      BY DEF Init, Due, Elements
    <2> QED BY <2>1 DEF CoverInv, DueLatest, DueAnnounced
  <1>2. VerdictInv /\ CoverInv /\ [Next]_vars => CoverInv'
    <2> SUFFICES ASSUME VerdictInv, CoverInv, [Next]_vars PROVE CoverInv'
      OBVIOUS
    <2>1. TypeOK
      BY DEF VerdictInv, OwnershipInv
    <2>2. ASSUME NEW n \in AttemptNo, Evaluate(n) PROVE CoverInv'
      <3>1. UNCHANGED files /\ \A w \in Due' :
              /\ n \in DOMAIN attempts
              /\ (w.file \in {"attempt", "ticket"} /\ w.no = n) \/ w \in Mirror(n)
        BY <2>2, EvaluateFrame, EvaluateDue DEF VerdictInv
      <3> QED BY <2>1, <3>1, MirrorCover
    <2>3. ASSUME (\E n \in AttemptNo : TaskDone(n)) \/ Crash \/ Restart \/ UNCHANGED vars
          PROVE  CoverInv'
      <3>1. UNCHANGED <<attempts, latest>> /\ writes' \in {writes, <<>>}
        BY <2>3 DEF TaskDone, Crash, Restart, vars, files
      <3>2. Due' = Due \/ Due' = {}
        BY <3>1 DEF Due, Elements
      <3>3. DueLatest' /\ DueAnnounced'
        BY <3>1, <3>2 DEF CoverInv, DueLatest, DueAnnounced
      <3> QED BY <3>1, <3>3 DEF CoverInv
    <2> QED BY <2>1, <2>2, <2>3, WriteCover, RequestsCover DEF Next, EventLoop
  <1>3. CoverInv => LatestCoversAttempts
    BY DEF CoverInv, LatestCoversAttempts
  <1> QED BY <1>1, <1>2, <1>3, VerdictSound, PTL DEF Spec

-----------------------------------------------------------------------------
(***************************************************************************)
(* No failure report is only filed: its run's attempt is on file or due.   *)
(***************************************************************************)
IsFailure(report) == report # None /\ report.status = "generation_failed"
HasAttempt(run) == KnownRun(run) \/ \E w \in Due : w.file = "attempt" /\ w.value.run = run

ReportInv == crashes = 0 =>
    /\ \A run \in Runs : IsFailure(reports[run]) => HasAttempt(run)
    /\ \A w \in Due : w.file = "report" /\ IsFailure(w.value) => HasAttempt(w.value.run)

(* Storing an attempt, or anything else, never loses a run's attempt. *)
LEMMA AttemptStays ==
    ASSUME VerdictInv, WriteFile, NEW run, HasAttempt(run)
    PROVE  HasAttempt(run)'
  <1> DEFINE w == Head(writes)
  <1>1. w \in Write /\ w \in Due /\ Due = {w} \cup Due'
    BY DueShrinks DEF VerdictInv, OwnershipInv
  <1>2. CASE w.file = "attempt"
    <2>1. /\ DOMAIN attempts' = DOMAIN attempts \cup {w.no}
          /\ \A n \in DOMAIN attempts' : attempts'[n] = IF n = w.no THEN w.value ELSE attempts[n]
      BY <1>2, AttemptWritten DEF VerdictInv, DueSound
    <2>2. w.no \in DOMAIN attempts => attempts[w.no].run = w.value.run
      <3>1. writes # <<>> /\ writes \in Seq(Write)
        BY DEF WriteFile, VerdictInv, OwnershipInv, TypeOK
      <3>2. 1 \in DOMAIN writes /\ w = writes[1]
        BY <3>1
      <3> QED BY <1>2, <3>2 DEF VerdictInv, OwnershipInv, PendingAttempts
    <2> HIDE DEF w
    <2>3. CASE KnownRun(run)
      BY <2>1, <2>2, <2>3 DEF KnownRun, HasAttempt
    <2>4. ASSUME NEW v \in Due, v.file = "attempt", v.value.run = run PROVE HasAttempt(run)'
      <3>1. CASE v = w
        BY <2>1, <2>4, <3>1 DEF KnownRun, HasAttempt
      <3>2. CASE v # w
        BY <1>1, <2>4, <3>2 DEF HasAttempt
      <3> QED BY <3>1, <3>2
    <2> QED BY <2>3, <2>4 DEF HasAttempt
  <1>3. CASE w.file # "attempt"
    <2>1. UNCHANGED attempts
      BY <1>3 DEF WriteFile
    <2> HIDE DEF w
    <2> QED BY <1>1, <1>3, <2>1 DEF HasAttempt, KnownRun
  <1> QED BY <1>2, <1>3

LEMMA WriteReport ==
    ASSUME VerdictInv, ReportInv, WriteFile, crashes = 0
    PROVE  ReportInv'
  <1> DEFINE w == Head(writes)
  <1>1. w \in Write /\ w \in Due /\ Due = {w} \cup Due'
    BY DueShrinks DEF VerdictInv, OwnershipInv
  <1>2. \A run : HasAttempt(run) => HasAttempt(run)'
    BY AttemptStays
  <1>3. reports \in [Runs -> FailureReports \cup {None}]
    BY DEF VerdictInv, OwnershipInv, TypeOK
  <1>4. ASSUME NEW run \in Runs, IsFailure(reports'[run]) PROVE HasAttempt(run)
    <2>1. CASE w.file = "report" /\ w.value.run = run
      <3>1. reports'[run] = w.value
        BY <1>3, <2>1 DEF WriteFile
      <3> QED BY <1>1, <1>4, <2>1, <3>1 DEF ReportInv
    <2>2. CASE ~ (w.file = "report" /\ w.value.run = run)
      <3>1. reports'[run] = reports[run]
        BY <1>3, <2>2 DEF WriteFile
      <3> QED BY <1>4, <3>1 DEF ReportInv
    <2> QED BY <2>1, <2>2
  <1>5. \A v \in Due' : v.file = "report" /\ IsFailure(v.value) => HasAttempt(v.value.run)
    BY <1>1 DEF ReportInv
  <1> QED BY <1>2, <1>4, <1>5 DEF ReportInv

(* An idle loop's section keeps the attempts; it may add some. *)
LEMMA SectionReport ==
    ASSUME ReportInv, writes = <<>>, UNCHANGED <<files, crashes>>,
           \A w \in Due' : w.file = "report" /\ IsFailure(w.value) => HasAttempt(w.value.run)'
    PROVE  ReportInv'
  <1>1. Due = {} /\ UNCHANGED <<reports, attempts>>
    BY DEF Due, Elements, files
  <1>2. \A run : HasAttempt(run) => HasAttempt(run)'
    BY <1>1 DEF HasAttempt, KnownRun
  <1> QED BY <1>1, <1>2 DEF ReportInv

LEMMA RequestsReport ==
    ASSUME TypeOK, ReportInv, Requests
    PROVE  ReportInv'
  <1>1. writes = <<>> /\ UNCHANGED <<files, attempts, crashes>>
    BY RequestTasks DEF files
  <1>2. ASSUME \A w \in Due' : w.file # "report" PROVE ReportInv'
    BY <1>1, <1>2, SectionReport
  <1>3. ASSUME NEW r \in Receipts, IngestQuestionReceived(r) PROVE ReportInv'
    <2>1. Due' = {ReceiptFile(r)} /\ ReceiptFile(r).file = "receipt"
      BY <1>3, ElementsShort DEF IngestQuestionReceived, Due, ReceiptFile
    <2> QED BY <1>2, <2>1
  <1>4. ASSUME NEW run \in Runs, NEW status \in {"generated", "generation_failed"}, NEW body \in Bodies,
               NEW before \in Seq(Write), CreateAttempt(before, run, status, body)
        PROVE  /\ HasAttempt(run)'
               /\ \A w \in Due' : w.file = "report" => w \in Elements(before)
    <2> DEFINE N == Len(attempts) + 1
               r == NewRecord(run, status, body,
                       IF golden # None THEN "ready_to_evaluate" ELSE "received_submission_only")
               l == LatestFile(N, r)
               a == AttemptFile(N, r)
    <2>0. /\ N = Len(attempts) + 1
          /\ r = NewRecord(run, status, body,
                    IF golden # None THEN "ready_to_evaluate" ELSE "received_submission_only")
      OBVIOUS
    <2>1. r.run = run
      BY DEF NewRecord
    <2> HIDE DEF N, r
    <2>2. /\ writes' = before \o <<l, a>>
          /\ Due' = Elements(before) \cup {l, a}
      BY <1>4, <2>0, CreateShape
    <2>3. l.file = "latest" /\ a.file = "attempt" /\ a.value = r
      BY DEF LatestFile, AttemptFile
    <2> HIDE DEF l, a
    <2>4. HasAttempt(run)'
      BY <2>1, <2>2, <2>3 DEF HasAttempt
    <2> QED BY <2>2, <2>3, <2>4
  <1>5. ASSUME NEW s \in Submissions, IngestSubmission(s) PROVE ReportInv'
    <2>1. <<>> \in Seq(Write) /\ Elements(<<>>) = {}
      BY EmptySeq, ElementsShort
    <2>2. s.run \in Runs /\ s.body \in Bodies
      BY RequestsAssumption
    <2>3. CreateAttempt(<<>>, s.run, "generated", s.body)
      BY <1>5 DEF IngestSubmission
    <2> QED BY <1>2, <1>4, <2>1, <2>2, <2>3
  <1>6. ASSUME NEW r \in FailureReports, IngestGenerationFailure(r) PROVE ReportInv'
    <2> DEFINE store == IF reports[r.run] = None THEN <<ReportFile(r)>> ELSE <<>>
    <2>1. /\ r.run \in Runs /\ r.body \in Bodies /\ r.status # "generated"
          /\ r = [run |-> r.run, status |-> r.status, body |-> r.body]
      BY RequestsAssumption DEF FailureStatus, ReportOnly
    <2>2. store \in Seq(Write) /\ \A w \in Elements(store) : w.file = "report" => w.value = r
      <3>1. ReportFile(r) \in Write /\ ReportFile(r).value = r
        BY DEF ReportFile, Write
      <3>2. <<ReportFile(r)>> \in Seq(Write) /\ <<>> \in Seq(Write)
        BY <3>1, EmptySeq
      <3>3. Elements(<<ReportFile(r)>>) = {ReportFile(r)} /\ Elements(<<>>) = {}
        BY ElementsShort
      <3> QED BY <3>1, <3>2, <3>3
    <2>3. CASE r.status = "generation_failed" /\ ~ KnownRun(r.run)
                 /\ CreateAttempt(store, r.run, "generation_failed", r.body)
      <3> HIDE DEF store
      <3>1. HasAttempt(r.run)' /\ \A w \in Due' : w.file = "report" => w.value = r
        BY <1>4, <2>1, <2>2, <2>3
      <3> QED BY <1>1, <3>1, SectionReport
    <2>4. CASE (r.status \in ReportOnly \/ KnownRun(r.run)) /\ writes' = store
      <3> HIDE DEF store
      <3>1. Due' = Elements(store)
        BY <2>4 DEF Due
      <3>2. IsFailure(r) => HasAttempt(r.run)'
        BY <1>1, <2>4 DEF IsFailure, ReportOnly, HasAttempt, KnownRun
      <3>3. \A w \in Due' : w.file = "report" /\ IsFailure(w.value) => HasAttempt(w.value.run)'
        BY <2>2, <3>1, <3>2
      <3> QED BY <1>1, <3>3, SectionReport
    <2> QED BY <1>6, <2>3, <2>4 DEF IngestGenerationFailure
  <1>7. CASE GetEvaluationStatus
    <2>1. Due' = {}
      BY <1>1, <1>7 DEF GetEvaluationStatus, Due, Elements
    <2> QED BY <1>2, <2>1
  <1>8. ASSUME NEW g \in Answers, IngestGolden(g) PROVE ReportInv'
    <2>1. GoldenFile(g).file = "golden"
      BY DEF GoldenFile
    <2>2. CASE Due' = {GoldenFile(g)}
      BY <1>2, <2>1, <2>2
    <2>3. ASSUME NEW n \in DOMAIN attempts, NEW r \in Record, n \in AttemptNo,
                 Due' = {GoldenFile(g)} \cup Elements(MutateWrites(n, r))
          PROVE  ReportInv'
      <3>1. AttemptFile(n, r).file = "attempt" /\ LatestFile(n, r).file = "latest"
        BY DEF AttemptFile, LatestFile
      <3>2. \A w \in Elements(MutateWrites(n, r)) : w = AttemptFile(n, r) \/ w = LatestFile(n, r)
        BY <2>3, MutateShape
      <3> QED BY <1>2, <2>1, <2>3, <3>1, <3>2
    <2> QED BY <1>8, <2>2, <2>3, GoldenWrites
  <1> QED BY <1>3, <1>5, <1>6, <1>7, <1>8 DEF Requests

(* As long as no crash separates the two writes, a failure report's run has *)
(* its attempt, whichever requests are refused or repeated.                 *)
THEOREM FailureReportAttempted == Spec => []FailureReportBecomesAttempt
  <1>1. Init => ReportInv
    <2> SUFFICES ASSUME Init PROVE ReportInv
      OBVIOUS
    <2>1. Due = {} /\ \A run \in Runs : reports[run] = None
      BY DEF Init, Due, Elements
    <2> QED BY <2>1 DEF ReportInv, IsFailure
  <1>2. VerdictInv /\ ReportInv /\ [Next]_vars => ReportInv'
    <2> SUFFICES ASSUME VerdictInv, ReportInv, [Next]_vars PROVE ReportInv'
      OBVIOUS
    <2>1. TypeOK /\ crashes \in Nat
      BY DEF VerdictInv, OwnershipInv, TypeOK
    <2>2. CASE WriteFile
      <3>1. crashes' = crashes
        BY <2>2 DEF WriteFile
      <3> QED BY <2>2, <3>1, WriteReport DEF ReportInv
    <2>3. ASSUME NEW n \in AttemptNo, Evaluate(n) PROVE ReportInv'
      <3>1. writes = <<>> /\ UNCHANGED <<files, crashes>>
        BY <2>3, EvaluateFrame DEF VerdictInv
      <3>2. \A w \in Due' : w.file # "report"
        BY <2>3, EvaluateDue DEF Mirror
      <3> QED BY <3>1, <3>2, SectionReport
    <2>4. CASE Crash
      BY <2>1, <2>4 DEF Crash, ReportInv
    <2>5. CASE Restart \/ (\E n \in AttemptNo : TaskDone(n)) \/ UNCHANGED vars
      <3>1. UNCHANGED <<reports, attempts, writes, crashes>>
        BY <2>5 DEF Restart, TaskDone, vars, files
      <3>2. Due' = Due
        BY <3>1 DEF Due
      <3> QED BY <3>1, <3>2 DEF ReportInv, HasAttempt, KnownRun
    <2> QED BY <2>1, <2>2, <2>3, <2>4, <2>5, RequestsReport DEF Next, EventLoop
  <1>3. ReportInv => FailureReportBecomesAttempt
    <2>1. LoopIdle => Due = {}
      BY DEF LoopIdle, Due, Elements
    <2> QED BY <2>1 DEF ReportInv, FailureReportBecomesAttempt, IsFailure, HasAttempt
  <1> QED BY <1>1, <1>2, <1>3, VerdictSound, PTL DEF Spec

-----------------------------------------------------------------------------
(***************************************************************************)
(* The latest snapshot mirrors the newest attempt.  While a section's      *)
(* writes are due, every record of the newest attempt N is directly        *)
(* followed by its snapshot, and every snapshot repeats the record before. *)
(***************************************************************************)
Paired(s, N) ==
    \A i \in DOMAIN s :
        /\ s[i].file = "attempt" => s[i].no <= N
        /\ s[i].file = "attempt" /\ s[i].no = N =>
              i + 1 \in DOMAIN s /\ s[i + 1] = LatestFile(N, s[i].value)
        /\ s[i].file = "latest" /\ i > 1 => s[i - 1].file = "attempt" /\ s[i - 1].no = N

(* The series of writes that mirror every update of attempt N. *)
Mirroring(N) ==
    {s \in Seq(Write) : Paired(s, N) /\ \A i \in DOMAIN s : i = 1 => s[i].file # "latest"}

Synced ==
    IF attempts = <<>> THEN latest = None
    ELSE latest = [no |-> Len(attempts), record |-> attempts[Len(attempts)]]

(* A new attempt is announced in the snapshot, then stored. *)
Creating ==
    \E r \in Record :
        LET N == Len(attempts) + 1
            l == LatestFile(N, r)
            a == AttemptFile(N, r)
        IN  \/ Synced /\ writes = <<l, a>>
            \/ Synced /\ \E w \in Write : w.file = "report" /\ writes = <<w, l, a>>
            \/ latest = [no |-> N, record |-> r] /\ writes = <<a>>

(* The section's writes mirror the newest attempt; its snapshot comes first *)
(* when its record has just been written.                                   *)
Following ==
    /\ Paired(writes, Len(attempts))
    /\ IF writes # <<>> /\ Head(writes).file = "latest"
       THEN attempts # <<>> /\ Head(writes) = LatestFile(Len(attempts), attempts[Len(attempts)])
       ELSE Synced

MirrorInv == crashes = 0 => Following \/ Creating

LEMMA PairedConcat ==
    ASSUME NEW N, NEW s \in Mirroring(N), NEW t \in Mirroring(N)
    PROVE  s \o t \in Mirroring(N)
  <1>1. /\ DOMAIN s = 1 .. Len(s) /\ DOMAIN t = 1 .. Len(t) /\ Len(s) \in Nat /\ Len(t) \in Nat
        /\ DOMAIN (s \o t) = 1 .. (Len(s) + Len(t)) /\ s \o t \in Seq(Write)
        /\ \A i \in 1 .. (Len(s) + Len(t)) :
              (s \o t)[i] = IF i <= Len(s) THEN s[i] ELSE t[i - Len(s)]
    <2>1. s \in Seq(Write) /\ t \in Seq(Write)
      BY DEF Mirroring
    <2> QED BY <2>1, ConcatProperties, LenProperties
  <1> DEFINE u == s \o t
  <1> HIDE DEF u
  <1>2. ASSUME NEW i \in DOMAIN u, i <= Len(s)
        PROVE  /\ i \in DOMAIN s /\ u[i] = s[i]
               /\ i + 1 \in DOMAIN s => i + 1 \in DOMAIN u /\ u[i + 1] = s[i + 1]
               /\ i > 1 => i - 1 \in DOMAIN u /\ i - 1 \in DOMAIN s /\ u[i - 1] = s[i - 1]
    BY <1>1, <1>2 DEF u
  <1>3. ASSUME NEW i \in DOMAIN u, ~ (i <= Len(s))
        PROVE  /\ i - Len(s) \in DOMAIN t /\ u[i] = t[i - Len(s)]
               /\ i - Len(s) + 1 \in DOMAIN t => i + 1 \in DOMAIN u /\ u[i + 1] = t[i - Len(s) + 1]
               /\ i - Len(s) > 1 => i - 1 \in DOMAIN u /\ u[i - 1] = t[i - Len(s) - 1]
    BY <1>1, <1>3 DEF u
  <1>4. ASSUME NEW i \in DOMAIN u, i <= Len(s)
        PROVE  /\ u[i].file = "attempt" => u[i].no <= N
               /\ u[i].file = "attempt" /\ u[i].no = N =>
                     i + 1 \in DOMAIN u /\ u[i + 1] = LatestFile(N, u[i].value)
               /\ u[i].file = "latest" /\ i > 1 => u[i - 1].file = "attempt" /\ u[i - 1].no = N
               /\ i = 1 => u[i].file # "latest"
    BY <1>2, <1>4 DEF Mirroring, Paired
  <1>5. ASSUME NEW i \in DOMAIN u, ~ (i <= Len(s))
        PROVE  /\ u[i].file = "attempt" => u[i].no <= N
               /\ u[i].file = "attempt" /\ u[i].no = N =>
                     i + 1 \in DOMAIN u /\ u[i + 1] = LatestFile(N, u[i].value)
               /\ u[i].file = "latest" /\ i > 1 => u[i - 1].file = "attempt" /\ u[i - 1].no = N
               /\ i = 1 => u[i].file # "latest"
    <2> DEFINE j == i - Len(s)
    <2>1. j \in DOMAIN t /\ u[i] = t[j]
      BY <1>3, <1>5
    <2>2. j + 1 \in DOMAIN t => i + 1 \in DOMAIN u /\ u[i + 1] = t[j + 1]
      BY <1>3, <1>5
    <2>3. j > 1 => u[i - 1] = t[j - 1]
      BY <1>3, <1>5
    <2>4. j = 1 => t[j].file # "latest"
      BY <2>1 DEF Mirroring
    <2>5. j \in Nat /\ j >= 1 /\ (i = 1 => j = 1)
      BY <1>1, <1>5, <2>1 DEF u
    <2> HIDE DEF j
    <2>6. /\ t[j].file = "attempt" => t[j].no <= N
          /\ t[j].file = "attempt" /\ t[j].no = N =>
                j + 1 \in DOMAIN t /\ t[j + 1] = LatestFile(N, t[j].value)
          /\ t[j].file = "latest" /\ j > 1 => t[j - 1].file = "attempt" /\ t[j - 1].no = N
      BY <2>1 DEF Mirroring, Paired
    <2> QED BY <2>1, <2>2, <2>3, <2>4, <2>5, <2>6
  <1>6. Paired(u, N) /\ \A i \in DOMAIN u : i = 1 => u[i].file # "latest"
    BY <1>4, <1>5 DEF Paired
  <1> QED BY <1>1, <1>6 DEF Mirroring, u

(* Nothing, and a single file that is neither a record nor a snapshot. *)
LEMMA PairedShort ==
    ASSUME NEW N
    PROVE  /\ <<>> \in Mirroring(N)
           /\ \A w \in Write : w.file \notin {"attempt", "latest"} => <<w>> \in Mirroring(N)
  <1>1. <<>> \in Mirroring(N)
    BY EmptySeq DEF Mirroring, Paired
  <1>2. ASSUME NEW w \in Write, w.file \notin {"attempt", "latest"} PROVE <<w>> \in Mirroring(N)
    <2>1. <<w>> \in Seq(Write) /\ DOMAIN <<w>> = {1} /\ <<w>>[1] = w
      OBVIOUS
    <2> HIDE DEF Write
    <2> QED BY <1>2, <2>1 DEF Mirroring, Paired
  <1> QED BY <1>1, <1>2

(* An update of an attempt on file, with the snapshot in step. *)
LEMMA PairedUpdate ==
    ASSUME TypeOK, Synced, NEW n \in DOMAIN attempts, NEW r \in Record
    PROVE  MutateWrites(n, r) \in Mirroring(Len(attempts))
  <1> DEFINE N == Len(attempts)
             a == AttemptFile(n, r)
             l == LatestFile(n, r)
  <1>1. /\ n \in AttemptNo /\ n \in Nat /\ N \in Nat /\ n <= N /\ attempts # <<>>
        /\ latest = [no |-> N, record |-> attempts[N]] /\ latest # None
    <2>1. attempts # <<>> /\ n \in AttemptNo /\ N \in AttemptNo /\ n <= N /\ attempts[N] \in Record
      BY AttemptDomain, BoundsAssumption DEF TypeOK, AttemptNo
    <2> QED BY <2>1, AbsentAssumption DEF Synced, AttemptNo
  <1>2. a \in Write /\ l \in Write
    BY <1>1, FileType
  <1>3. a.file = "attempt" /\ a.no = n /\ a.value = r /\ l.file = "latest" /\ l = LatestFile(n, a.value)
    BY DEF AttemptFile, LatestFile
  <1>4. MutateWrites(n, r) = IF n = N THEN <<a, l>> ELSE <<a>>
    BY <1>1 DEF MutateWrites
  <1> HIDE DEF N, a, l
  <1>5. CASE n = N
    <2>1. <<a, l>> \in Seq(Write) /\ DOMAIN <<a, l>> = {1, 2} /\ <<a, l>>[1] = a /\ <<a, l>>[2] = l
      BY <1>2
    <2>2. <<a, l>> \in Mirroring(N)
      <3> DEFINE s == <<a, l>>
      <3>1. s \in Seq(Write) /\ DOMAIN s = {1, 2} /\ s[1] = a /\ s[2] = l
        BY <2>1
      <3> HIDE DEF s
      <3>2. Paired(s, N)
        BY <1>1, <1>3, <1>5, <3>1 DEF Paired
      <3>3. s \in Mirroring(N)
        BY <1>3, <3>1, <3>2 DEF Mirroring
      <3> QED BY <3>3 DEF s
    <2> QED BY <1>4, <1>5, <2>2 DEF N
  <1>6. CASE n # N
    <2> DEFINE s == <<a>>
    <2>1. s \in Seq(Write) /\ DOMAIN s = {1} /\ s[1] = a
      BY <1>2
    <2> HIDE DEF s
    <2>2. Paired(s, N)
      BY <1>1, <1>3, <1>6, <2>1 DEF Paired
    <2>3. s \in Mirroring(N)
      BY <1>3, <2>1, <2>2 DEF Mirroring
    <2> QED BY <1>4, <1>6, <2>3 DEF N, s
  <1> QED BY <1>5, <1>6

(* What all single updates and tickets have in common, a section has that   *)
(* strings them together.                                                   *)
LEMMA SectionClosed ==
    ASSUME golden \in Answers, NEW n \in AttemptNo, NEW B, <<>> \in B,
           \A s, t \in B : s \o t \in B,
           \A r \in Record : MutateWrites(n, r) \in B,
           \A t \in Ticket : <<TicketFile(n, t)>> \in B,
           NEW r \in Record, Decides(n, r)
    PROVE  writes' \in B
  <1>1. ASSUME NEW e \in Evaluation PROVE ConcludeWrites(n, r, e) \in B
    <2>1. /\ MutateWrites(n, Evaluated(r, e)) \in B
          /\ MutateWrites(n, Linked(Evaluated(r, e))) \in B
          /\ MutateWrites(n, Concluded(r, e)) \in B
          /\ MutateWrites(n, Assessed(n, r, e)) \in B
          /\ <<TicketFile(n, Claim(Evaluated(r, e)))>> \in B
      BY ConcludedFields
    <2> DEFINE assess == IF EvaluatedBefore(n) = {} THEN <<>> ELSE MutateWrites(n, Assessed(n, r, e))
               linking == <<TicketFile(n, Claim(Evaluated(r, e)))>> \o MutateWrites(n, Linked(Evaluated(r, e)))
               verdict == IF e.verdict = "pass" THEN MutateWrites(n, Concluded(r, e))
                          ELSE linking \o MutateWrites(n, Concluded(r, e))
    <2>2. e.verdict \in {"pass", "fail"}
      BY DEF Evaluation
    <2>3. ConcludeWrites(n, r, e) = (MutateWrites(n, Evaluated(r, e)) \o verdict) \o assess
      BY ConcludeSeries
    <2>4. assess \in B
      BY <2>1
    <2>5. linking \in B
      BY <2>1
    <2>6. verdict \in B
      BY <2>1, <2>5
    <2> HIDE DEF assess, linking, verdict
    <2> QED BY <2>1, <2>3, <2>4, <2>6
  <1>2. CASE Stores(n, r)
    BY <1>2 DEF Stores
  <1>3. CASE GivesUp(n, r)
    <2>1. ASSUME NEW state \in {"tugraph_execution_failed", "semantic_review_invalid"}
          PROVE  [r EXCEPT !.state = state] \in Record
      BY <2>1 DEF Record, State
    <2> QED BY <1>3, <2>1 DEF GivesUp
  <1>4. ASSUME NEW e \in Evaluation, Concludes(n, r, e) PROVE writes' \in B
    BY <1>1, <1>4 DEF Concludes
  <1> QED BY <1>2, <1>3, <1>4 DEF Decides

(* The series that stays due when its first write is performed. *)
LEMMA PairedTail ==
    ASSUME NEW N, NEW s \in Seq(Write), s # <<>>, Paired(s, N)
    PROVE  /\ Paired(Tail(s), N)
           /\ Head(s).file = "attempt" => Head(s).no <= N
           /\ Head(s).file = "attempt" /\ Head(s).no = N =>
                 Tail(s) # <<>> /\ Head(Tail(s)) = LatestFile(N, Head(s).value)
           /\ Tail(s) # <<>> /\ Head(Tail(s)).file = "latest" =>
                 Head(s).file = "attempt" /\ Head(s).no = N
  <1>1. /\ Head(s) = s[1] /\ Tail(s) \in Seq(Write) /\ Len(s) \in Nat /\ Len(s) >= 1
        /\ DOMAIN s = 1 .. Len(s) /\ DOMAIN Tail(s) = 1 .. (Len(s) - 1)
        /\ \A i \in 1 .. (Len(s) - 1) : Tail(s)[i] = s[i + 1]
    BY HeadTailProperties, LenProperties, EmptySeq
  <1>2. Tail(s) # <<>> => 1 \in DOMAIN Tail(s) /\ Head(Tail(s)) = Tail(s)[1]
    BY <1>1, LenProperties, EmptySeq
  <1>3. 2 \in DOMAIN s => Tail(s) # <<>>
    <2>1. 2 \in DOMAIN s => 1 \in DOMAIN Tail(s)
      BY <1>1
    <2>2. 1 \notin DOMAIN <<>>
      OBVIOUS
    <2> QED BY <2>1, <2>2
  <1> DEFINE t == Tail(s)
  <1> HIDE DEF t
  <1>4. Paired(t, N)
    <2> SUFFICES ASSUME NEW i \in DOMAIN t
                 PROVE  /\ t[i].file = "attempt" => t[i].no <= N
                        /\ t[i].file = "attempt" /\ t[i].no = N =>
                              i + 1 \in DOMAIN t /\ t[i + 1] = LatestFile(N, t[i].value)
                        /\ t[i].file = "latest" /\ i > 1 => t[i - 1].file = "attempt" /\ t[i - 1].no = N
      BY DEF Paired
    <2> DEFINE j == i + 1
    <2>1. j \in DOMAIN s /\ t[i] = s[j] /\ j \in Nat
      BY <1>1 DEF t
    <2>2. j + 1 \in DOMAIN s => i + 1 \in DOMAIN t /\ t[i + 1] = s[j + 1]
      BY <1>1, <2>1 DEF t
    <2>3. i > 1 => t[i - 1] = s[j - 1] /\ j > 1
      BY <1>1 DEF t
    <2> HIDE DEF j
    <2>4. /\ s[j].file = "attempt" => s[j].no <= N
          /\ s[j].file = "attempt" /\ s[j].no = N =>
                j + 1 \in DOMAIN s /\ s[j + 1] = LatestFile(N, s[j].value)
          /\ s[j].file = "latest" /\ j > 1 => s[j - 1].file = "attempt" /\ s[j - 1].no = N
      BY <2>1 DEF Paired
    <2> QED BY <2>1, <2>2, <2>3, <2>4
  <1>5. /\ s[1].file = "attempt" => s[1].no <= N
        /\ s[1].file = "attempt" /\ s[1].no = N => 2 \in DOMAIN s /\ s[2] = LatestFile(N, s[1].value)
        /\ 2 \in DOMAIN s /\ s[2].file = "latest" => s[1].file = "attempt" /\ s[1].no = N
    <2>1. 1 \in DOMAIN s /\ 1 + 1 = 2 /\ 2 - 1 = 1
      BY <1>1
    <2> QED BY <2>1 DEF Paired
  <1>6. 2 \in DOMAIN s => Head(t) = s[2]
    BY <1>1, <1>2, <1>3 DEF t
  <1>7. t # <<>> => 2 \in DOMAIN s
    BY <1>1, <1>2 DEF t
  <1>8. 2 \in DOMAIN s => t # <<>>
    BY <1>3 DEF t
  <1> QED BY <1>1, <1>4, <1>5, <1>6, <1>7, <1>8 DEF t

LEMMA WriteFollowing ==
    ASSUME VerdictInv, Following, WriteFile
    PROVE  Following'
  <1> DEFINE w == Head(writes)
             t == Tail(writes)
             N == Len(attempts)
  <1>1. /\ w \in Write /\ writes \in Seq(Write) /\ writes # <<>> /\ writes' = t
        /\ N \in Nat /\ DOMAIN attempts = 1 .. N /\ attempts \in Seq(Record)
    BY DueShrinks, LenProperties DEF VerdictInv, OwnershipInv, TypeOK, WriteFile
  <1>2. /\ Paired(t, N)
        /\ w.file = "attempt" => w.no <= N
        /\ w.file = "attempt" /\ w.no = N => t # <<>> /\ Head(t) = LatestFile(N, w.value)
        /\ t # <<>> /\ Head(t).file = "latest" => w.file = "attempt" /\ w.no = N
    BY <1>1, PairedTail DEF Following
  <1>3. CASE w.file = "attempt"
    <2>1. w.no \in Nat /\ w.no >= 1
      BY <1>1, <1>3, BoundsAssumption DEF Write, AttemptNo
    <2>2. w.no \in DOMAIN attempts
      BY <1>1, <1>2, <1>3, <2>1
    <2>3. /\ UNCHANGED latest
          /\ DOMAIN attempts' = DOMAIN attempts \cup {w.no}
          /\ \A n \in DOMAIN attempts' : attempts'[n] = IF n = w.no THEN w.value ELSE attempts[n]
          /\ Len(attempts') = N
      BY <1>3, <2>2, AttemptWritten DEF VerdictInv, DueSound
    <2>4. attempts # <<>> /\ attempts' # <<>> /\ N \in DOMAIN attempts
      BY <1>1, <2>2, <2>3
    <2> HIDE DEF w, t, N
    <2>5. CASE w.no = N
      <3>1. LatestFile(N, w.value).file = "latest"
        BY DEF LatestFile
      <3> QED BY <1>1, <1>2, <1>3, <2>3, <2>4, <2>5, <3>1 DEF Following, N
    <2>6. CASE w.no # N
      <3>1. attempts'[N] = attempts[N]
        BY <2>3, <2>4, <2>6
      <3>2. Synced
        BY <1>3 DEF Following, w
      <3>3. Synced'
        BY <2>3, <2>4, <3>1, <3>2 DEF Synced, N
      <3> QED BY <1>1, <1>2, <2>3, <2>6, <3>3 DEF Following, N
    <2> QED BY <2>5, <2>6
  <1>4. CASE w.file = "latest"
    <2>1. attempts # <<>> /\ w = LatestFile(N, attempts[N])
      BY <1>1, <1>4 DEF Following
    <2>2. UNCHANGED attempts /\ latest' = [no |-> w.no, record |-> w.value]
      BY <1>4 DEF WriteFile
    <2>3. w.no = N /\ w.value = attempts[N]
      BY <2>1 DEF LatestFile
    <2> HIDE DEF w, t
    <2>4. Synced'
      BY <2>1, <2>2, <2>3 DEF Synced
    <2> QED BY <1>1, <1>2, <1>4, <2>2, <2>4 DEF Following
  <1>5. CASE w.file \notin {"attempt", "latest"}
    <2>1. UNCHANGED <<attempts, latest>>
      BY <1>5 DEF WriteFile
    <2>2. Synced
      BY <1>5 DEF Following
    <2> HIDE DEF w, t
    <2> QED BY <1>1, <1>2, <1>5, <2>1, <2>2 DEF Following, Synced
  <1> QED BY <1>3, <1>4, <1>5

LEMMA WriteCreating ==
    ASSUME VerdictInv, Creating, WriteFile
    PROVE  Following' \/ Creating'
  <1> DEFINE N == Len(attempts) + 1
  <1>1. PICK r \in Record :
           \/ Synced /\ writes = <<LatestFile(N, r), AttemptFile(N, r)>>
           \/ Synced /\ \E w \in Write : w.file = "report" /\ writes = <<w, LatestFile(N, r), AttemptFile(N, r)>>
           \/ latest = [no |-> N, record |-> r] /\ writes = <<AttemptFile(N, r)>>
    BY DEF Creating
  <1> DEFINE l == LatestFile(N, r)
             a == AttemptFile(N, r)
  <1>2. /\ l.file = "latest" /\ l.no = N /\ l.value = r
        /\ a.file = "attempt" /\ a.no = N /\ a.value = r
    BY DEF LatestFile, AttemptFile
  <1>3. attempts \in Seq(Record) /\ N \notin DOMAIN attempts
    BY LenProperties DEF VerdictInv, OwnershipInv, TypeOK
  <1>4. CASE Synced /\ writes = <<l, a>>
    <2> HIDE DEF l, a, N
    <2>1. Head(writes) = l /\ Tail(writes) = <<a>>
      BY <1>4
    <2>2. writes' = <<a>> /\ latest' = [no |-> N, record |-> r] /\ UNCHANGED attempts
      BY <1>2, <2>1 DEF WriteFile
    <2> QED BY <2>2 DEF Creating, N, a
  <1>5. ASSUME Synced, NEW w \in Write, w.file = "report", writes = <<w, l, a>>
        PROVE  Creating'
    <2> HIDE DEF l, a, N
    <2>1. Head(writes) = w /\ Tail(writes) = <<l, a>>
      BY <1>5
    <2>2. writes' = <<l, a>> /\ UNCHANGED <<attempts, latest>>
      BY <1>5, <2>1 DEF WriteFile
    <2>3. Synced'
      BY <1>5, <2>2 DEF Synced
    <2> QED BY <2>2, <2>3 DEF Creating, N, a, l
  <1>6. CASE latest = [no |-> N, record |-> r] /\ writes = <<a>>
    <2> HIDE DEF l, a, N
    <2>1. Head(writes) = a /\ Tail(writes) = <<>>
      BY <1>6
    <2>2. writes' = <<>> /\ UNCHANGED latest /\ attempts' = Append(attempts, r)
      BY <1>2, <1>3, <2>1 DEF WriteFile
    <2>3. Len(attempts') = N /\ attempts'[N] = r /\ attempts' # <<>>
      BY <1>3, <2>2 DEF N
    <2>4. Synced'
      BY <1>6, <2>2, <2>3 DEF Synced
    <2>5. Paired(<<>>, Len(attempts'))
      BY DEF Paired
    <2> QED BY <2>2, <2>4, <2>5 DEF Following
  <1> QED BY <1>1, <1>4, <1>5, <1>6

(* A section that mirrors the newest attempt, begun with the snapshot in step. *)
LEMMA SectionMirror ==
    ASSUME Synced, UNCHANGED files, writes' \in Mirroring(Len(attempts))
    PROVE  Following'
  <1>1. UNCHANGED <<attempts, latest>>
    BY DEF files
  <1>2. writes' # <<>> => 1 \in DOMAIN writes' /\ Head(writes') = writes'[1]
    BY LenProperties, EmptySeq DEF Mirroring
  <1>3. Synced'
    BY <1>1 DEF Synced
  <1>4. Paired(writes', Len(attempts)) /\ \A i \in DOMAIN writes' : i = 1 => writes'[i].file # "latest"
    BY DEF Mirroring
  <1> QED BY <1>1, <1>2, <1>3, <1>4 DEF Following

(* When the loop is idle, the snapshot is in step. *)
LEMMA IdleSynced ==
    ASSUME writes = <<>>, Following \/ Creating
    PROVE  Synced
  <1>1. ~ Creating
    BY DEF Creating
  <1> QED BY <1>1 DEF Following

LEMMA ThreeWrites ==
    ASSUME NEW w \in Write, NEW l \in Write, NEW a \in Write
    PROVE  <<w>> \o <<l, a>> = <<w, l, a>>
  <1> HIDE DEF Write
  <1>1. <<w>> \in Seq(Write) /\ <<l, a>> \in Seq(Write) /\ <<w, l, a>> \in Seq(Write)
    OBVIOUS
  <1>2. Len(<<w>>) = 1 /\ Len(<<l, a>>) = 2 /\ Len(<<w, l, a>>) = 3
    OBVIOUS
  <1>3. /\ <<w>> \o <<l, a>> \in Seq(Write) /\ Len(<<w>> \o <<l, a>>) = 3
        /\ \A i \in 1 .. 3 : (<<w>> \o <<l, a>>)[i] = <<w, l, a>>[i]
    BY <1>1, <1>2, ConcatProperties
  <1> QED BY <1>1, <1>2, <1>3, SeqEqual

LEMMA CreateMirror ==
    ASSUME TypeOK, Synced, NEW run \in Runs, NEW status \in {"generated", "generation_failed"},
           NEW body \in Bodies, NEW before \in Seq(Write),
           before = <<>> \/ \E w \in Write : w.file = "report" /\ before = <<w>>,
           CreateAttempt(before, run, status, body)
    PROVE  Creating'
  <1> DEFINE N == Len(attempts) + 1
             r == NewRecord(run, status, body,
                     IF golden # None THEN "ready_to_evaluate" ELSE "received_submission_only")
             l == LatestFile(N, r)
             a == AttemptFile(N, r)
  <1>0. /\ N = Len(attempts) + 1
        /\ r = NewRecord(run, status, body,
                  IF golden # None THEN "ready_to_evaluate" ELSE "received_submission_only")
    OBVIOUS
  <1> HIDE DEF N, r
  <1>1. /\ r \in Record /\ l \in Write /\ a \in Write /\ writes' = before \o <<l, a>>
        /\ Due' = Elements(before) \cup {l, a}
    BY <1>0, CreateShape
  <1>2. UNCHANGED <<attempts, latest>> /\ Synced'
    BY DEF CreateAttempt, files, Synced
  <1> HIDE DEF l, a
  <1>3. CASE before = <<>>
    <2>1. writes' = <<l, a>>
      BY <1>1, <1>3
    <2> QED BY <1>0, <1>1, <1>2, <2>1 DEF Creating, l, a
  <1>4. ASSUME NEW w \in Write, w.file = "report", before = <<w>> PROVE Creating'
    <2>1. writes' = <<w, l, a>>
      BY <1>1, <1>4, ThreeWrites
    <2>2. N' = Len(attempts') + 1 /\ N' = N
      BY <1>0, <1>2 DEF N
    <2> QED BY <1>0, <1>1, <1>2, <1>4, <2>1 DEF Creating, l, a
  <1> QED BY <1>3, <1>4

LEMMA RequestsMirror ==
    ASSUME TypeOK, MirrorInv, Requests, crashes = 0
    PROVE  Following' \/ Creating'
  <1>1. writes = <<>> /\ UNCHANGED <<files, attempts, crashes>>
    BY RequestTasks DEF files
  <1>2. Synced
    BY <1>1, IdleSynced DEF MirrorInv
  <1>3. ASSUME writes' \in Mirroring(Len(attempts)) PROVE Following'
    BY <1>1, <1>2, <1>3, SectionMirror
  <1>4. ASSUME NEW r \in Receipts, IngestQuestionReceived(r) PROVE Following'
    <2>1. writes' = <<ReceiptFile(r)>> /\ ReceiptFile(r).file = "receipt" /\ ReceiptFile(r) \in Write
      BY <1>4 DEF IngestQuestionReceived, ReceiptFile, Write
    <2>2. writes' \in Mirroring(Len(attempts))
      BY <2>1, PairedShort
    <2> QED BY <1>3, <2>2
  <1>5. ASSUME NEW s \in Submissions, IngestSubmission(s) PROVE Creating'
    <2>1. <<>> \in Seq(Write)
      BY EmptySeq
    <2>2. s.run \in Runs /\ s.body \in Bodies
      BY RequestsAssumption
    <2> QED BY <1>2, <1>5, <2>1, <2>2, CreateMirror DEF IngestSubmission
  <1>6. ASSUME NEW r \in FailureReports, IngestGenerationFailure(r) PROVE Following' \/ Creating'
    <2> DEFINE store == IF reports[r.run] = None THEN <<ReportFile(r)>> ELSE <<>>
    <2>1. r.run \in Runs /\ r.body \in Bodies
      BY RequestsAssumption
    <2>2. ReportFile(r) \in Write /\ ReportFile(r).file = "report"
      BY DEF ReportFile, Write
    <2>3. store \in Seq(Write)
      <3>1. <<ReportFile(r)>> \in Seq(Write) /\ <<>> \in Seq(Write)
        BY <2>2, EmptySeq
      <3> QED BY <3>1
    <2>4. store = <<>> \/ \E w \in Write : w.file = "report" /\ store = <<w>>
      BY <2>2
    <2>5. store \in Mirroring(Len(attempts))
      BY <2>2, PairedShort
    <2>6. CreateAttempt(store, r.run, "generation_failed", r.body) \/ writes' = store
      BY <1>6 DEF IngestGenerationFailure
    <2> HIDE DEF store
    <2> QED BY <1>2, <1>3, <2>1, <2>3, <2>4, <2>5, <2>6, CreateMirror
  <1>7. CASE GetEvaluationStatus
    <2>1. writes' = <<>>
      BY <1>1, <1>7 DEF GetEvaluationStatus
    <2> QED BY <1>3, <2>1, PairedShort
  <1>8. ASSUME NEW g \in Answers, IngestGolden(g) PROVE Following'
    <2>1. GoldenFile(g).file = "golden" /\ GoldenFile(g) \in Write
      BY DEF GoldenFile, Write
    <2>2. <<GoldenFile(g)>> \in Mirroring(Len(attempts))
      BY <2>1, PairedShort
    <2>3. CASE writes' = <<GoldenFile(g)>>
      BY <1>3, <2>2, <2>3
    <2>4. ASSUME NEW n \in DOMAIN attempts, NEW r \in Record,
                 writes' = <<GoldenFile(g)>> \o MutateWrites(n, r)
          PROVE  Following'
      <3>1. MutateWrites(n, r) \in Mirroring(Len(attempts))
        BY <1>2, PairedUpdate
      <3>2. writes' \in Mirroring(Len(attempts))
        BY <2>2, <2>4, <3>1, PairedConcat
      <3> QED BY <1>3, <3>2
    <2> QED BY <1>8, <2>3, <2>4, GoldenWrites
  <1> QED BY <1>4, <1>5, <1>6, <1>7, <1>8 DEF Requests

LEMMA EvaluateMirror ==
    ASSUME VerdictInv, MirrorInv, crashes = 0, NEW n \in AttemptNo, Evaluate(n)
    PROVE  Following'
  <1>1. TypeOK /\ writes = <<>> /\ UNCHANGED files
    BY EvaluateFrame DEF VerdictInv, OwnershipInv
  <1>2. Synced
    BY <1>1, IdleSynced DEF MirrorInv
  <1> DEFINE B == Mirroring(Len(attempts))
  <1>3. CASE Idles(n)
    <2>1. writes' \in B
      BY <1>3, PairedShort DEF Idles
    <2> QED BY <1>1, <1>2, <2>1, SectionMirror
  <1>4. ASSUME golden # None, n \in DOMAIN attempts, NEW r \in Revised(attempts[n]), Decides(n, r)
        PROVE  Following'
    <2>1. golden \in Answers /\ r \in Record
      BY <1>1, <1>4 DEF TypeOK, Revised
    <2>2. \A q \in Record : MutateWrites(n, q) \in B
      BY <1>1, <1>2, <1>4, PairedUpdate
    <2>3. \A t \in Ticket : <<TicketFile(n, t)>> \in B
      <3>1. \A t \in Ticket : TicketFile(n, t) \in Write /\ TicketFile(n, t).file = "ticket"
        BY DEF TicketFile, Write
      <3> QED BY <3>1, PairedShort
    <2>4. <<>> \in B /\ \A s, t \in B : s \o t \in B
      BY PairedShort, PairedConcat
    <2> HIDE DEF B
    <2>5. writes' \in B
      BY <1>4, <2>1, <2>2, <2>3, <2>4, SectionClosed
    <2> QED BY <1>1, <1>2, <2>5, SectionMirror DEF B
  <1> QED BY <1>3, <1>4, EvaluateSections

(* The writes that are due bring the latest snapshot in step with the       *)
(* newest attempt, or announce the next one.                                *)
THEOREM MirrorSound == Spec => []MirrorInv
  <1>1. Init => MirrorInv
    BY DEF Init, MirrorInv, Following, Paired, Synced
  <1>2. VerdictInv /\ MirrorInv /\ [Next]_vars => MirrorInv'
    <2> SUFFICES ASSUME VerdictInv, MirrorInv, [Next]_vars PROVE MirrorInv'
      OBVIOUS
    <2>1. TypeOK /\ crashes \in Nat
      BY DEF VerdictInv, OwnershipInv, TypeOK
    <2>2. CASE WriteFile
      <3>1. crashes' = crashes
        BY <2>2 DEF WriteFile
      <3> QED BY <2>2, <3>1, WriteFollowing, WriteCreating DEF MirrorInv
    <2>3. ASSUME NEW n \in AttemptNo, Evaluate(n) PROVE MirrorInv'
      <3>1. crashes' = crashes
        BY <2>3, EvaluateFrame DEF VerdictInv
      <3> QED BY <2>3, <3>1, EvaluateMirror DEF MirrorInv
    <2>4. CASE Requests
      <3>1. crashes' = crashes
        BY <2>1, <2>4, RequestTasks
      <3> QED BY <2>1, <2>4, <3>1, RequestsMirror DEF MirrorInv
    <2>5. CASE Crash
      BY <2>1, <2>5 DEF Crash, MirrorInv
    <2>6. CASE Restart \/ (\E n \in AttemptNo : TaskDone(n)) \/ UNCHANGED vars
      <3>1. UNCHANGED <<latest, attempts, writes, crashes>>
        BY <2>6 DEF Restart, TaskDone, vars, files
      <3> QED BY <3>1 DEF MirrorInv, Following, Creating, Synced
    <2> QED BY <2>2, <2>3, <2>4, <2>5, <2>6 DEF Next, EventLoop
  <1> QED BY <1>1, <1>2, VerdictSound, PTL DEF Spec

(* Between any two sections the latest snapshot is the newest attempt's     *)
(* record, although results of older attempts are stored late.              *)
THEOREM LatestIsNewest == Spec => []LatestIsNewestAttempt
  <1>1. MirrorInv => LatestIsNewestAttempt
    BY IdleSynced DEF MirrorInv, Synced, LoopIdle, LatestIsNewestAttempt
  <1> QED BY <1>1, MirrorSound, PTL

-----------------------------------------------------------------------------
(***************************************************************************)
(* A verdict is given once.  A record is in order when its evaluation, its *)
(* ticket link and its assessment are those of its state; inside a section *)
(* that concludes, the evaluation comes before the state, but the record   *)
(* that closes the section is due already.                                 *)
(***************************************************************************)
InStep(a) ==
    /\ a.evaluation # None <=> a.state \in Final
    /\ a.issue_ticket <=> a.state = "issue_ticket_created"
    /\ a.improvement # None => a.state \in Final

(* What the next record of an attempt keeps. *)
Follows(a, b) ==
    /\ a.evaluation # None => b.evaluation = a.evaluation
    /\ a.state \in Final =>
          /\ b = [a EXCEPT !.improvement = b.improvement]
          /\ a.improvement \in {None, b.improvement}

Successive ==
    {p \in Write \X Write :
        (p[1].file = "attempt" /\ p[2].file = "attempt") => Follows(p[1].value, p[2].value)}

Concluding(n) == \E w \in Due : w.file = "attempt" /\ w.no = n /\ w.value.state \in Final

FilesInStep == \A n \in DOMAIN attempts : InStep(attempts[n]) \/ Concluding(n)

DueInStep ==
    \A w \in Due : w.file = "attempt" =>
        /\ InStep(w.value) \/ (w.value.state \notin Final /\ Concluding(w.no))
        /\ w.no \in DOMAIN attempts => Follows(attempts[w.no], w.value)

(* A ticket is of an attempt that announces it, now or by the section's end. *)
TicketsAnnounced ==
    \A n \in AttemptNo :
        (tickets[n] # None \/ \E w \in Due : w.file = "ticket" /\ w.no = n) =>
            \/ n \in DOMAIN attempts /\ attempts[n].state = "issue_ticket_created"
            \/ \E w \in Due : w.file = "attempt" /\ w.no = n /\ w.value.state = "issue_ticket_created"

OnceInv ==
    crashes = 0 => InOrder(writes, Successive) /\ FilesInStep /\ DueInStep /\ TicketsAnnounced

(* A record that is written is followed by those that are due. *)
LEMMA WriteFollows ==
    ASSUME VerdictInv, OnceInv, crashes = 0, WriteFile
    PROVE  /\ \A v \in Due' : Head(writes).file = "attempt" /\ v.file = "attempt" =>
                 Follows(Head(writes).value, v.value)
           /\ Head(writes).file = "attempt" /\ Head(writes).no \in DOMAIN attempts =>
                 Follows(attempts[Head(writes).no], Head(writes).value)
           /\ Head(writes).file = "attempt" => 
                 InStep(Head(writes).value) \/ Head(writes).value.state \notin Final
           /\ InOrder(writes', Successive)
  <1> DEFINE w == Head(writes)
  <1>1. /\ w \in Due /\ InOrder(writes', Successive)
        /\ \A v \in Due' : <<w, v>> \in Successive
    BY DueShrinks DEF VerdictInv, OwnershipInv, OnceInv
  <1> HIDE DEF w
  <1>2. \A v \in Due' : w.file = "attempt" /\ v.file = "attempt" => Follows(w.value, v.value)
    BY <1>1 DEF Successive
  <1> QED BY <1>1, <1>2 DEF OnceInv, DueInStep, w

(* The concluding record stays due until it is written. *)
LEMMA WriteConcluding ==
    ASSUME VerdictInv, OnceInv, crashes = 0, WriteFile, NEW n, Concluding(n)
    PROVE  \/ Concluding(n)'
           \/ /\ Head(writes).file = "attempt" /\ Head(writes).no = n
              /\ Head(writes).value.state \in Final /\ InStep(Head(writes).value)
  <1>1. Due = {Head(writes)} \cup Due'
    BY DueShrinks DEF VerdictInv, OwnershipInv
  <1> QED BY <1>1, WriteFollows DEF Concluding

LEMMA WriteOnce ==
    ASSUME VerdictInv, OnceInv, crashes = 0, WriteFile
    PROVE  OnceInv'
  <1> DEFINE w == Head(writes)
             E == Due'
  <1>1. w \in Write /\ w \in Due /\ Due = {w} \cup E /\ Due \subseteq Write
    BY DueShrinks DEF VerdictInv, OwnershipInv
  <1>2. /\ \A v \in E : w.file = "attempt" /\ v.file = "attempt" => Follows(w.value, v.value)
        /\ w.file = "attempt" /\ w.no \in DOMAIN attempts => Follows(attempts[w.no], w.value)
        /\ InOrder(writes', Successive)
    BY WriteFollows
  <1>3. \A n : Concluding(n) =>
           \/ Concluding(n)'
           \/ w.file = "attempt" /\ w.no = n /\ w.value.state \in Final /\ InStep(w.value)
    BY WriteConcluding
  <1>4. DOMAIN attempts \subseteq AttemptNo
    BY AttemptDomain DEF VerdictInv, OwnershipInv
  <1>5. CASE w.file = "attempt"
    <2>1. /\ UNCHANGED tickets
          /\ DOMAIN attempts' = DOMAIN attempts \cup {w.no}
          /\ \A n \in DOMAIN attempts' : attempts'[n] = IF n = w.no THEN w.value ELSE attempts[n]
      BY <1>5, AttemptWritten DEF VerdictInv, DueSound
    <2>2. InStep(w.value) \/ (w.value.state \notin Final /\ Concluding(w.no))
      BY <1>1, <1>5 DEF OnceInv, DueInStep
    <2> HIDE DEF w, E
    <2>3. FilesInStep'
      <3> SUFFICES ASSUME NEW n \in DOMAIN attempts' PROVE InStep(attempts'[n]) \/ Concluding(n)'
        BY DEF FilesInStep, InStep
      <3>1. CASE n = w.no
        BY <1>3, <2>1, <2>2, <3>1
      <3>2. CASE n # w.no
        <4>1. n \in DOMAIN attempts /\ attempts'[n] = attempts[n]
          BY <2>1, <3>2
        <4>2. InStep(attempts[n]) \/ Concluding(n)
          BY <4>1 DEF OnceInv, FilesInStep
        <4> QED BY <1>3, <3>2, <4>1, <4>2
      <3> QED BY <3>1, <3>2
    <2>4. DueInStep'
      <3> SUFFICES ASSUME NEW v \in E, v.file = "attempt"
                   PROVE  /\ InStep(v.value) \/ (v.value.state \notin Final /\ Concluding(v.no)')
                          /\ v.no \in DOMAIN attempts' => Follows(attempts'[v.no], v.value)
        BY DEF DueInStep, E, InStep, Follows
      <3>1. Follows(w.value, v.value)
        BY <1>2, <1>5
      <3>2. /\ InStep(v.value) \/ (v.value.state \notin Final /\ Concluding(v.no))
            /\ v.no \in DOMAIN attempts => Follows(attempts[v.no], v.value)
        BY <1>1 DEF OnceInv, DueInStep
      <3>3. w.value.state \in Final => v.value.state \in Final
        <4>1. w.value \in Record /\ v.value \in Record
          BY <1>1, <1>5 DEF Write
        <4> QED BY <3>1, <4>1 DEF Follows, Record
      <3> QED BY <1>3, <2>1, <3>1, <3>2, <3>3
    <2>5. TicketsAnnounced'
      <3> SUFFICES ASSUME NEW n \in AttemptNo,
                          tickets'[n] # None \/ \E v \in E : v.file = "ticket" /\ v.no = n
                   PROVE  \/ n \in DOMAIN attempts' /\ attempts'[n].state = "issue_ticket_created"
                          \/ \E v \in E : v.file = "attempt" /\ v.no = n
                                          /\ v.value.state = "issue_ticket_created"
        BY DEF TicketsAnnounced, E
      <3>1. \/ n \in DOMAIN attempts /\ attempts[n].state = "issue_ticket_created"
            \/ \E v \in Due : v.file = "attempt" /\ v.no = n /\ v.value.state = "issue_ticket_created"
        BY <1>1, <2>1 DEF OnceInv, TicketsAnnounced
      <3>2. CASE n \in DOMAIN attempts /\ attempts[n].state = "issue_ticket_created"
        <4>1. CASE n = w.no
          <5>1. attempts[n] \in Record /\ w.value \in Record
            BY <1>1, <1>5, <3>2, AttemptDomain DEF Write, VerdictInv, OwnershipInv
          <5>2. Follows(attempts[n], w.value)
            BY <1>2, <1>5, <3>2, <4>1
          <5>3. w.value.state = "issue_ticket_created"
            BY <3>2, <5>1, <5>2 DEF Follows, Record, Final
          <5> QED BY <2>1, <4>1, <5>3
        <4>2. CASE n # w.no
          BY <2>1, <3>2, <4>2
        <4> QED BY <4>1, <4>2
      <3>3. ASSUME NEW v \in Due, v.file = "attempt", v.no = n, v.value.state = "issue_ticket_created"
            PROVE  \/ n \in DOMAIN attempts' /\ attempts'[n].state = "issue_ticket_created"
                   \/ \E u \in E : u.file = "attempt" /\ u.no = n
                                          /\ u.value.state = "issue_ticket_created"
        BY <1>1, <2>1, <3>3
      <3> QED BY <3>1, <3>2, <3>3
    <2> QED BY <1>2, <2>3, <2>4, <2>5 DEF OnceInv
  <1>6. CASE w.file # "attempt"
    <2>1. UNCHANGED attempts
      BY <1>6 DEF WriteFile
    <2>2. \A n \in AttemptNo : tickets'[n] = tickets[n] \/ (w.file = "ticket" /\ w.no = n)
      BY DEF WriteFile, VerdictInv, OwnershipInv, TypeOK
    <2> HIDE DEF w, E
    <2>3. \A n : Concluding(n) => Concluding(n)'
      BY <1>3, <1>6
    <2>4. FilesInStep'
      BY <2>1, <2>3 DEF OnceInv, FilesInStep, InStep
    <2>5. DueInStep'
      BY <1>1, <2>1, <2>3 DEF OnceInv, DueInStep, InStep, Follows, E
    <2>6. TicketsAnnounced'
      <3> SUFFICES ASSUME NEW n \in AttemptNo,
                          tickets'[n] # None \/ \E v \in E : v.file = "ticket" /\ v.no = n
                   PROVE  \/ n \in DOMAIN attempts /\ attempts[n].state = "issue_ticket_created"
                          \/ \E v \in E : v.file = "attempt" /\ v.no = n
                                          /\ v.value.state = "issue_ticket_created"
        BY <2>1 DEF TicketsAnnounced, E
      <3>1. tickets[n] # None \/ \E v \in Due : v.file = "ticket" /\ v.no = n
        BY <1>1, <2>2
      <3> QED BY <1>1, <1>6, <3>1 DEF OnceInv, TicketsAnnounced
    <2> QED BY <1>2, <2>4, <2>5, <2>6 DEF OnceInv
  <1> QED BY <1>5, <1>6

(* A section begun by an idle loop. *)
LEMMA SectionOnce ==
    ASSUME TypeOK, OnceInv, writes = <<>>, UNCHANGED <<files, crashes>>,
           crashes = 0 => InOrder(writes', Successive) /\ DueInStep',
           \A t \in Due' : t.file = "ticket" =>
              \E w \in Due' : w.file = "attempt" /\ w.no = t.no /\ w.value.state = "issue_ticket_created"
    PROVE  OnceInv'
  <1>1. Due = {} /\ UNCHANGED <<attempts, tickets>>
    BY DEF Due, Elements, files
  <1>2. crashes = 0 => FilesInStep'
    BY <1>1 DEF OnceInv, FilesInStep, Concluding, InStep
  <1>3. crashes = 0 => TicketsAnnounced'
    BY <1>1 DEF OnceInv, TicketsAnnounced
  <1> QED BY <1>2, <1>3 DEF OnceInv

(* An idle loop's attempts are in step; one that is not final has neither   *)
(* evaluation nor ticket nor assessment.                                    *)
LEMMA IdleInStep ==
    ASSUME OnceInv, crashes = 0, writes = <<>>, NEW n \in DOMAIN attempts
    PROVE  /\ InStep(attempts[n])
           /\ attempts[n].state \notin Final =>
                 /\ attempts[n].evaluation = None /\ ~ attempts[n].issue_ticket
                 /\ attempts[n].improvement = None
  <1>1. ~ Concluding(n)
    BY DEF Concluding, Due, Elements
  <1> QED BY <1>1 DEF OnceInv, FilesInStep, InStep, Final

LEMMA SuccessiveIgnoresLatest == IgnoresLatest(Successive)
  BY DEF IgnoresLatest, Successive

(* Writes of records in step that follow nothing decided. *)
LEMMA OpenOnce ==
    ASSUME TypeOK, OnceInv, writes = <<>>, UNCHANGED <<files, crashes>>,
           InOrder(writes', Successive),
           \A w \in Due' :
              /\ w.file # "ticket"
              /\ (w.file = "attempt" /\ crashes = 0) =>
                    /\ InStep(w.value)
                    /\ w.no \in DOMAIN attempts => Follows(attempts[w.no], w.value)
    PROVE  OnceInv'
  <1>1. crashes = 0 => DueInStep'
    BY DEF DueInStep, InStep, Follows, files
  <1> QED BY <1>1, SectionOnce

LEMMA RequestsOnce ==
    ASSUME TypeOK, MirrorInv, OnceInv, Requests
    PROVE  OnceInv'
  <1>1. writes = <<>> /\ UNCHANGED <<files, attempts, crashes>>
    BY RequestTasks DEF files
  <1>2. ASSUME InOrder(writes', Successive), \A w \in Due' : w.file \notin {"ticket", "attempt"}
        PROVE  OnceInv'
    BY <1>1, <1>2, OpenOnce
  <1>3. ASSUME NEW w, writes' = <<w>>, w.file \notin {"ticket", "attempt"} PROVE OnceInv'
    <2>1. Due' = {w} /\ InOrder(writes', Successive)
      BY <1>3, ElementsShort DEF Due
    <2> QED BY <1>2, <1>3, <2>1
  <1>4. CASE writes' = <<>>
    <2>1. Due' = {} /\ InOrder(writes', Successive)
      BY <1>4, ElementsShort DEF Due
    <2> QED BY <1>2, <2>1
  <1>5. ASSUME NEW r \in Receipts, IngestQuestionReceived(r) PROVE OnceInv'
    <2>1. writes' = <<ReceiptFile(r)>> /\ ReceiptFile(r).file = "receipt"
      BY <1>5 DEF IngestQuestionReceived, ReceiptFile
    <2> QED BY <1>3, <2>1
  <1>6. ASSUME NEW run \in Runs, NEW status \in {"generated", "generation_failed"}, NEW body \in Bodies,
               NEW before \in Seq(Write), CreateAttempt(before, run, status, body),
               \A w \in Elements(before) : w.file = "report", InOrder(before, Successive)
        PROVE  OnceInv'
    <2> DEFINE N == Len(attempts) + 1
               r == NewRecord(run, status, body,
                       IF golden # None THEN "ready_to_evaluate" ELSE "received_submission_only")
               l == LatestFile(N, r)
               a == AttemptFile(N, r)
    <2>0. /\ N = Len(attempts) + 1
          /\ r = NewRecord(run, status, body,
                    IF golden # None THEN "ready_to_evaluate" ELSE "received_submission_only")
      OBVIOUS
    <2>1. InStep(r)
      BY DEF NewRecord, InStep, Final
    <2> HIDE DEF N, r
    <2>2. /\ N \notin DOMAIN attempts /\ l \in Write /\ a \in Write
          /\ writes' = before \o <<l, a>> /\ Due' = Elements(before) \cup {l, a}
      BY <1>6, <2>0, CreateShape
    <2>9. \A R : InOrder(before, R) /\ <<l, a>> \in R
                    /\ (\A x \in Elements(before) : <<x, l>> \in R /\ <<x, a>> \in R)
                       => InOrder(writes', R)
      <3>1. <<l, a>> \in Seq(Write)
        BY <2>2
      <3> SUFFICES ASSUME NEW R, InOrder(before, R), <<l, a>> \in R,
                          \A x \in Elements(before) : <<x, l>> \in R /\ <<x, a>> \in R
                   PROVE  InOrder(writes', R)
        OBVIOUS
      <3> HIDE DEF l, a
      <3>2. InOrder(<<l, a>>, R) /\ Elements(<<l, a>>) = {l, a}
        BY ElementsShort
      <3> QED BY <2>2, <3>1, <3>2, OrderConcat
    <2>3. l.file = "latest" /\ a.file = "attempt" /\ a.value = r /\ a.no = N
      BY DEF LatestFile, AttemptFile
    <2> HIDE DEF l, a
    <2>4. InOrder(writes', Successive)
      <3>1. Elements(before) \subseteq Write
        BY ElementsType
      <3>2. <<l, a>> \in Successive /\ \A x \in Elements(before) : <<x, l>> \in Successive /\ <<x, a>> \in Successive
        BY <1>6, <2>2, <2>3, <3>1 DEF Successive
      <3> QED BY <1>6, <2>9, <3>2
    <2>5. \A w \in Due' : \/ w.file \in {"report", "latest"}
                          \/ w.file = "attempt" /\ w.no \notin DOMAIN attempts /\ InStep(w.value)
      BY <1>6, <2>1, <2>2, <2>3
    <2> QED BY <1>1, <2>4, <2>5, OpenOnce
  <1>7. ASSUME NEW s \in Submissions, IngestSubmission(s) PROVE OnceInv'
    <2>1. <<>> \in Seq(Write) /\ Elements(<<>>) = {} /\ InOrder(<<>>, Successive)
      BY EmptySeq, ElementsShort
    <2>2. s.run \in Runs /\ s.body \in Bodies
      BY RequestsAssumption
    <2> QED BY <1>6, <1>7, <2>1, <2>2 DEF IngestSubmission
  <1>8. ASSUME NEW r \in FailureReports, IngestGenerationFailure(r) PROVE OnceInv'
    <2>1. r.run \in Runs /\ r.body \in Bodies
      BY RequestsAssumption
    <2>2. PICK store \in Seq(Write) :
             /\ store \in {<<>>, <<ReportFile(r)>>}
             /\ \A w \in Elements(store) : w.file = "report"
             /\ \/ CreateAttempt(store, r.run, "generation_failed", r.body)
                \/ writes' = store
      BY <1>8, FailureWrites
    <2>3. InOrder(store, Successive)
      <3>1. InOrder(<<>>, Successive) /\ InOrder(<<ReportFile(r)>>, Successive)
        BY ElementsShort
      <3> QED BY <2>2, <3>1
    <2>4. CASE writes' = store
      <3>1. Due' = Elements(store)
        BY <2>4 DEF Due
      <3> QED BY <1>2, <2>2, <2>3, <2>4, <3>1
    <2> QED BY <1>6, <2>1, <2>2, <2>3, <2>4
  <1>9. CASE GetEvaluationStatus
    BY <1>1, <1>4, <1>9 DEF GetEvaluationStatus
  <1>10. ASSUME NEW g \in Answers, IngestGolden(g) PROVE OnceInv'
    <2>1. GoldenFile(g).file = "golden" /\ GoldenFile(g) \in Write
      BY DEF GoldenFile, Write
    <2>2. CASE writes' = <<GoldenFile(g)>>
      BY <1>3, <2>1, <2>2
    <2>3. ASSUME NEW n \in DOMAIN attempts, n \in AttemptNo,
                 NEW r, r = [attempts[n] EXCEPT !.state = "ready_to_evaluate"], r \in Record,
                 latest # None, latest.record.state \notin Final, n = latest.no,
                 NEW s, s = MutateWrites(n, r), writes' = <<GoldenFile(g)>> \o s,
                 Due' = {GoldenFile(g)} \cup Elements(s)
          PROVE  OnceInv'
      <3>1. attempts[n] \in Record
        BY AttemptDomain
      <3>2. crashes = 0 => attempts[n].state \notin Final
        <4>1. crashes = 0 => Synced
          BY <1>1, IdleSynced DEF MirrorInv
        <4> QED BY <2>3, <4>1 DEF Synced
      <3>3. crashes = 0 => InStep(r) /\ Follows(attempts[n], r)
        <4>1. crashes = 0 => attempts[n].evaluation = None /\ ~ attempts[n].issue_ticket
                             /\ attempts[n].improvement = None
          BY <1>1, <3>2, IdleInStep
        <4>2. r.evaluation = attempts[n].evaluation /\ r.issue_ticket = attempts[n].issue_ticket
              /\ r.improvement = attempts[n].improvement /\ r.state = "ready_to_evaluate"
          BY <2>3, <3>1 DEF Record
        <4> HIDE DEF Follows
        <4> QED BY <3>2, <4>1, <4>2 DEF InStep, Follows, Final
      <3>4. /\ AttemptFile(n, r) \in Write /\ LatestFile(n, r) \in Write
            /\ AttemptFile(n, r).file = "attempt" /\ AttemptFile(n, r).no = n
            /\ AttemptFile(n, r).value = r /\ LatestFile(n, r).file = "latest"
        BY <2>3, FileType DEF AttemptFile, LatestFile
      <3>5. /\ s \in Seq(Write) /\ Elements(s) \subseteq {AttemptFile(n, r), LatestFile(n, r)}
            /\ InOrder(s, Successive)
        <4>1. <<AttemptFile(n, r), LatestFile(n, r)>> \in Successive
          BY <3>4, SuccessiveIgnoresLatest DEF IgnoresLatest
        <4> QED BY <2>3, <4>1, MutateShape
      <3>6. InOrder(writes', Successive)
        <4>1. <<GoldenFile(g)>> \in Seq(Write)
          BY <2>1
        <4>3. InOrder(<<GoldenFile(g)>>, Successive) /\ Elements(<<GoldenFile(g)>>) = {GoldenFile(g)}
          BY ElementsShort
        <4>2. \A y \in Elements(s) : <<GoldenFile(g), y>> \in Successive
          BY <2>1, <3>4, <3>5 DEF Successive
        <4> QED BY <2>3, <3>5, <4>1, <4>2, <4>3, OrderConcat
      <3>7. \A w \in Due' : \/ w.file \in {"golden", "latest"}
                            \/ w.file = "attempt" /\ w.no = n /\ w.value = r
        BY <2>1, <2>3, <3>4, <3>5
      <3> QED BY <1>1, <3>3, <3>6, <3>7, OpenOnce
    <2> QED BY <1>10, <2>2, <2>3, GoldenWrites
  <1> QED BY <1>5, <1>7, <1>8, <1>9, <1>10 DEF Requests

(* A revised record of an open attempt is open, and anything may follow it. *)
LEMMA RevisedOpen ==
    ASSUME TypeOK, OnceInv, crashes = 0, writes = <<>>, NEW n \in DOMAIN attempts,
           attempts[n].state \notin Final, NEW r \in Revised(attempts[n])
    PROVE  /\ r \in Record /\ r.state \notin Final /\ InStep(r)
           /\ r.evaluation = None /\ ~ r.issue_ticket /\ r.improvement = None
           /\ \A x : Follows(attempts[n], x) /\ Follows(r, x)
  <1>1. attempts[n] \in Record
    BY AttemptDomain
  <1>2. /\ r \in Record /\ r.state = attempts[n].state /\ r.evaluation = attempts[n].evaluation
        /\ r.issue_ticket = attempts[n].issue_ticket /\ r.improvement = attempts[n].improvement
    BY <1>1, RevisedFields
  <1>3. /\ InStep(attempts[n]) /\ attempts[n].evaluation = None /\ ~ attempts[n].issue_ticket
        /\ attempts[n].improvement = None
    BY IdleInStep
  <1> QED BY <1>2, <1>3 DEF InStep, Follows

LEMMA OpenSectionOnce ==
    ASSUME VerdictInv, OnceInv, crashes = 0, NEW n \in AttemptNo, Evaluate(n), n \in DOMAIN attempts,
           attempts[n].state \notin Final, NEW r \in Revised(attempts[n]),
           Stores(n, r) \/ GivesUp(n, r)
    PROVE  OnceInv'
  <1>1. TypeOK /\ writes = <<>> /\ UNCHANGED <<files, crashes, attempts>>
    BY EvaluateFrame DEF VerdictInv, OwnershipInv
  <1>2. /\ r \in Record /\ r.state \notin Final /\ InStep(r) /\ r.evaluation = None
        /\ ~ r.issue_ticket /\ r.improvement = None
        /\ \A x : Follows(attempts[n], x) /\ Follows(r, x)
    BY <1>1, RevisedOpen
  <1> DEFINE a == AttemptFile(n, r)
  <1>3. a \in Write /\ a.file = "attempt" /\ a.no = n /\ a.value = r
    BY <1>2, FileType DEF AttemptFile
  <1>4. CASE Stores(n, r)
    <2>1. writes' = MutateWrites(n, r) /\ Due' = Elements(MutateWrites(n, r))
      BY <1>4 DEF Stores, Due
    <2>2. \A w \in Due' : w = a \/ w \in Mirror(n)
      BY <1>2, <2>1, MutateShape
    <2>3. LatestFile(n, r) \in Write /\ LatestFile(n, r).file = "latest"
      BY <1>2, FileType DEF LatestFile
    <2>4. InOrder(writes', Successive)
      <3>1. <<a, LatestFile(n, r)>> \in Successive
        BY <1>3, <2>3, SuccessiveIgnoresLatest DEF IgnoresLatest
      <3> QED BY <1>2, <2>1, <3>1, MutateShape
    <2> HIDE DEF a
    <2>5. \A w \in Due' : w.file = "latest" \/ w = a
      BY <2>2 DEF Mirror
    <2> QED BY <1>1, <1>2, <1>3, <2>4, <2>5, OpenOnce
  <1>5. CASE GivesUp(n, r)
    <2>1. PICK state \in {"tugraph_execution_failed", "semantic_review_invalid"} :
             writes' = MutateWrites(n, r) \o MutateWrites(n, [r EXCEPT !.state = state])
      BY <1>5 DEF GivesUp
    <2> DEFINE q == [r EXCEPT !.state = state]
               b == AttemptFile(n, q)
    <2>2. q \in Record /\ InStep(q)
      BY <1>2 DEF Record, State, InStep, Final
    <2> HIDE DEF q
    <2>3. b \in Write /\ b.file = "attempt" /\ b.no = n /\ b.value = q
      BY <2>2, FileType DEF AttemptFile
    <2>4. Due' = Elements(MutateWrites(n, r) \o MutateWrites(n, q))
      BY <2>1 DEF Due, q
    <2>5. \A w \in Due' : w = a \/ w = b \/ w \in Mirror(n)
      BY <1>2, <2>2, <2>4, TwoUpdates
    <2>6. InOrder(writes', Successive)
      <3>1. <<a, b>> \in Successive
        BY <1>2, <1>3, <2>3 DEF Successive
      <3>2. InOrder(MutateWrites(n, r) \o MutateWrites(n, q), Successive)
        BY <1>2, <2>2, <3>1, TwoUpdates, SuccessiveIgnoresLatest
      <3> QED BY <2>1, <3>2 DEF q
    <2> HIDE DEF a, b
    <2>7. \A w \in Due' : w.file = "latest" \/ w = a \/ w = b
      BY <2>5 DEF Mirror
    <2> QED BY <1>1, <1>2, <1>3, <2>2, <2>3, <2>6, <2>7, OpenOnce
  <1> QED BY <1>4, <1>5

(* The records of a conclusion: the evaluation first, then the ticket link, *)
(* then the state, and last the assessment.                                 *)
LEMMA ConclusionRecords ==
    ASSUME golden \in Answers, NEW n \in AttemptNo, NEW e \in Evaluation,
           NEW r \in Record, r.state \notin Final, r.evaluation = None, ~ r.issue_ticket,
           r.improvement = None
    PROVE  LET ev == Evaluated(r, e)
               li == Linked(ev)
               co == Concluded(r, e)
               as == Assessed(n, r, e)
           IN  /\ ev.state \notin Final /\ li.state \notin Final
               /\ co.state \in Final /\ InStep(co)
               /\ as.state \in Final /\ InStep(as)
               /\ \A x \in {ev, li, co, as} : Follows(ev, x) /\ Follows(li, x)
               /\ Follows(co, as)
               /\ e.verdict = "fail" => co.state = "issue_ticket_created"
  <1> DEFINE ev == Evaluated(r, e)
             li == Linked(ev)
             co == Concluded(r, e)
             as == Assessed(n, r, e)
  <1>1. /\ ev.state = r.state /\ li.state = r.state /\ ev.evaluation = e /\ li.evaluation = e
        /\ e # None /\ e.verdict \in {"pass", "fail"}
    <2>1. ev.state = r.state /\ li.state = r.state /\ ev.evaluation = e /\ li.evaluation = e
      BY EvaluatedValues
    <2>2. e # None /\ e.verdict \in {"pass", "fail"}
      BY AbsentAssumption DEF Evaluation
    <2> QED BY <2>1, <2>2
  <1>2. /\ co.evaluation = e /\ co.improvement = None
        /\ e.verdict = "pass" => co.state = "passed" /\ co.issue_ticket = r.issue_ticket
        /\ e.verdict = "fail" => co.state = "issue_ticket_created" /\ co.issue_ticket = TRUE
    BY ConcludedValues
  <1>3. /\ as.evaluation = e /\ as.state = co.state /\ as.issue_ticket = co.issue_ticket
        /\ as = [co EXCEPT !.improvement = as.improvement]
    BY AssessedValues
  <1>4. r.issue_ticket = FALSE
    BY DEF Record
  <1> HIDE DEF ev, li, co, as
  <1>5. co.state \in Final /\ InStep(co) /\ as.state \in Final /\ InStep(as)
    BY <1>1, <1>2, <1>3, <1>4 DEF InStep, Final
  <1>6. \A x \in {ev, li, co, as} : Follows(ev, x) /\ Follows(li, x)
    BY <1>1, <1>2, <1>3 DEF Follows
  <1>7. Follows(co, as)
    BY <1>2, <1>3 DEF Follows
  <1> QED BY <1>1, <1>2, <1>5, <1>6, <1>7 DEF ev, li, co, as

LEMMA ClosingSectionOnce ==
    ASSUME VerdictInv, OnceInv, crashes = 0, NEW n \in AttemptNo, Evaluate(n), n \in DOMAIN attempts,
           golden # None, attempts[n].state \notin Final, NEW r \in Revised(attempts[n]),
           NEW e \in Evaluation, Concludes(n, r, e)
    PROVE  OnceInv'
  <1>1. TypeOK /\ writes = <<>> /\ UNCHANGED <<files, crashes, attempts>>
    BY EvaluateFrame DEF VerdictInv, OwnershipInv
  <1>2. /\ r \in Record /\ r.state \notin Final /\ InStep(r) /\ r.evaluation = None
        /\ ~ r.issue_ticket /\ r.improvement = None
        /\ \A x : Follows(attempts[n], x) /\ Follows(r, x)
    BY <1>1, RevisedOpen
  <1>3. golden \in Answers
    BY <1>1 DEF TypeOK
  <1> DEFINE pr == AttemptFile(n, r)
             ev == AttemptFile(n, Evaluated(r, e))
             li == AttemptFile(n, Linked(Evaluated(r, e)))
             co == AttemptFile(n, Concluded(r, e))
             as == AttemptFile(n, Assessed(n, r, e))
             t == TicketFile(n, Claim(Evaluated(r, e)))
             Latest == Mirror(n)
  <1>4. /\ pr \in Write /\ ev \in Write /\ li \in Write /\ co \in Write /\ as \in Write /\ t \in Write
        /\ co \in Due'
        /\ e.verdict = "fail" => Due' \subseteq Latest \cup {pr, ev, li, co, as, t}
        /\ e.verdict # "fail" => Due' \subseteq Latest \cup {pr, ev, co, as}
        /\ \A R : AdmitsConclusion(R, ev, t, li, co, as)
                  /\ (\A w \in {ev, t, li, co, as} : <<pr, w>> \in R) => InOrder(writes', R)
    BY <1>2, <1>3, ConclusionSection
  <1>5. /\ pr.file = "attempt" /\ ev.file = "attempt" /\ li.file = "attempt" /\ co.file = "attempt"
        /\ as.file = "attempt" /\ t.file = "ticket"
        /\ pr.no = n /\ ev.no = n /\ li.no = n /\ co.no = n /\ as.no = n /\ t.no = n
        /\ pr.value = r /\ ev.value = Evaluated(r, e) /\ li.value = Linked(Evaluated(r, e))
        /\ co.value = Concluded(r, e) /\ as.value = Assessed(n, r, e)
    BY DEF AttemptFile, TicketFile
  <1> HIDE DEF pr, ev, li, co, as, t
  <1> DEFINE EV == Evaluated(r, e)
             LI == Linked(EV)
             CO == Concluded(r, e)
             AS == Assessed(n, r, e)
  <1>0. /\ EV.state \notin Final /\ LI.state \notin Final
        /\ CO.state \in Final /\ InStep(CO)
        /\ AS.state \in Final /\ InStep(AS)
        /\ \A x \in {EV, LI, CO, AS} : Follows(EV, x) /\ Follows(LI, x)
        /\ Follows(CO, AS)
        /\ e.verdict = "fail" => CO.state = "issue_ticket_created"
    BY <1>2, <1>3, ConclusionRecords
  <1> HIDE DEF EV, LI, CO, AS
  <1>6. /\ ev.value.state \notin Final /\ li.value.state \notin Final
        /\ co.value.state \in Final /\ InStep(co.value)
        /\ as.value.state \in Final /\ InStep(as.value)
        /\ \A x \in {ev, li, co, as} : Follows(ev.value, x.value) /\ Follows(li.value, x.value)
        /\ Follows(co.value, as.value)
        /\ e.verdict = "fail" => co.value.state = "issue_ticket_created"
    BY <1>0, <1>5 DEF EV, LI, CO, AS
  <1>7. InOrder(writes', Successive)
    <2>1. \A w \in {ev, t, li, co, as} : <<pr, w>> \in Successive
      BY <1>2, <1>4, <1>5 DEF Successive
    <2>2. \A w \in {t, li, co, as} : <<ev, w>> \in Successive
      BY <1>4, <1>5, <1>6 DEF Successive
    <2>3. \A w \in {li, co, as} : <<t, w>> \in Successive
      BY <1>4, <1>5 DEF Successive
    <2>4. \A w \in {co, as} : <<li, w>> \in Successive
      BY <1>4, <1>5, <1>6 DEF Successive
    <2>5. <<co, as>> \in Successive
      BY <1>4, <1>5, <1>6 DEF Successive
    <2> QED BY <1>4, <2>1, <2>2, <2>3, <2>4, <2>5, SuccessiveIgnoresLatest DEF AdmitsConclusion
  <1>8. \A w \in Due' : w.file = "attempt" => w \in {pr, ev, li, co, as}
    BY <1>4, <1>5 DEF Mirror
  <1>9. Concluding(n)'
    BY <1>4, <1>5, <1>6 DEF Concluding
  <1>10. DueInStep'
    <2>1. \A w \in Due' : w.file = "attempt" =>
             /\ w.no = n
             /\ InStep(w.value) \/ w.value.state \notin Final
      BY <1>2, <1>5, <1>6, <1>8
    <2>2. \A x : Follows(attempts[n], x)'
      BY <1>1, <1>2 DEF Follows
    <2>3. ASSUME NEW w \in Due', w.file = "attempt"
          PROVE  /\ InStep(w.value)' \/ (w.value.state \notin Final /\ Concluding(w.no)')
                 /\ w.no \in DOMAIN attempts' => Follows(attempts[w.no], w.value)'
      <3>1. w.no = n /\ (InStep(w.value)' \/ w.value.state \notin Final)
        BY <2>1, <2>3 DEF InStep
      <3>2. Concluding(w.no)'
        BY <1>9, <3>1
      <3>3. Follows(attempts[w.no], w.value)'
        BY <2>2, <3>1 DEF Follows
      <3> QED BY <3>1, <3>2, <3>3
    <2> QED BY <2>3 DEF DueInStep, InStep, Follows
  <1>11. ASSUME NEW u \in Due', u.file = "ticket"
         PROVE  \E w \in Due' : w.file = "attempt" /\ w.no = u.no /\ w.value.state = "issue_ticket_created"
    <2>1. u = t /\ e.verdict = "fail"
      BY <1>4, <1>5, <1>11 DEF Mirror
    <2> QED BY <1>4, <1>5, <1>6, <2>1
  <1> QED BY <1>1, <1>7, <1>10, <1>11, SectionOnce

LEMMA EvaluateOnce ==
    ASSUME VerdictInv, OnceInv, crashes = 0, NEW n \in AttemptNo, Evaluate(n)
    PROVE  OnceInv'
  <1>1. CASE Idles(n)
    <2>1. TypeOK /\ writes = <<>> /\ UNCHANGED <<files, crashes>>
      BY EvaluateFrame DEF VerdictInv, OwnershipInv
    <2>2. Due' = {} /\ InOrder(writes', Successive)
      BY <1>1, ElementsShort DEF Idles, Due
    <2> QED BY <2>1, <2>2, OpenOnce
  <1>2. ASSUME golden # None, n \in DOMAIN attempts, attempts[n].state \notin Final,
               NEW r \in Revised(attempts[n]), Decides(n, r)
        PROVE  OnceInv'
    BY <1>2, OpenSectionOnce, ClosingSectionOnce DEF Decides
  <1> QED BY <1>1, <1>2, EvaluateSections

LEMMA StepOnce ==
    ASSUME VerdictInv, MirrorInv, OnceInv, [Next]_vars
    PROVE  OnceInv'
  <1>1. TypeOK /\ crashes \in Nat
    BY DEF VerdictInv, OwnershipInv, TypeOK
  <1>2. CASE WriteFile
    <2>1. crashes' = crashes
      BY <1>2 DEF WriteFile
    <2>2. crashes = 0 => OnceInv'
      BY <1>2, WriteOnce
    <2> QED BY <2>1, <2>2 DEF OnceInv
  <1>3. ASSUME NEW n \in AttemptNo, Evaluate(n) PROVE OnceInv'
    <2>1. crashes' = crashes
      BY <1>3, EvaluateFrame DEF VerdictInv
    <2>2. crashes = 0 => OnceInv'
      BY <1>3, EvaluateOnce
    <2> QED BY <2>1, <2>2 DEF OnceInv
  <1>4. CASE Crash
    BY <1>1, <1>4 DEF Crash, OnceInv
  <1>5. CASE Restart \/ (\E n \in AttemptNo : TaskDone(n)) \/ UNCHANGED vars
    <2>1. UNCHANGED <<attempts, tickets, writes, crashes>>
      BY <1>5 DEF Restart, TaskDone, vars, files
    <2>2. Due' = Due
      BY <2>1 DEF Due
    <2>3. \A n : Concluding(n)' = Concluding(n)
      BY <2>2 DEF Concluding
    <2> QED BY <2>1, <2>2, <2>3 DEF OnceInv, FilesInStep, DueInStep, TicketsAnnounced, InStep, Follows
  <1> QED BY <1>1, <1>2, <1>3, <1>4, <1>5, RequestsOnce DEF Next, EventLoop

(* Every record on file or due is in step with its state, or the record     *)
(* that closes its section is due; later records keep what earlier ones     *)
(* decided, and tickets are of announced failures only.                     *)
THEOREM OnceSound == Spec => []OnceInv
  <1>1. Init => OnceInv
    <2> SUFFICES ASSUME Init PROVE OnceInv
      OBVIOUS
    <2>1. Due = {} /\ attempts = <<>> /\ InOrder(writes, Successive)
      BY ElementsShort DEF Init, Due
    <2>2. \A n \in AttemptNo : tickets[n] = None
      BY DEF Init
    <2> QED BY <2>1, <2>2 DEF OnceInv, FilesInStep, DueInStep, TicketsAnnounced
  <1>2. VerdictInv /\ MirrorInv /\ OnceInv /\ [Next]_vars => OnceInv'
    BY StepOnce
  <1> QED BY <1>1, <1>2, VerdictSound, MirrorSound, PTL DEF Spec

(* Between two sections a ticket is on file exactly for the attempts whose  *)
(* verdict is fail, and only they point to one.                             *)
THEOREM TicketsMatch == Spec => []TicketsMatchVerdicts
  <1>1. VerdictInv /\ OnceInv => TicketsMatchVerdicts
    <2> SUFFICES ASSUME VerdictInv, OnceInv, crashes = 0, LoopIdle, NEW n \in AttemptNo
                 PROVE  LET failed == /\ n \in DOMAIN attempts
                                      /\ attempts[n].evaluation # None
                                      /\ attempts[n].evaluation.verdict = "fail"
                        IN /\ (tickets[n] # None) <=> failed
                           /\ n \in DOMAIN attempts => (attempts[n].issue_ticket <=> failed)
      BY DEF TicketsMatchVerdicts
    <2>1. TypeOK /\ writes = <<>> /\ Due = {}
      BY DEF VerdictInv, OwnershipInv, LoopIdle, Due, Elements
    <2>2. ASSUME n \in DOMAIN attempts PROVE InStep(attempts[n])
      BY <2>1, <2>2, IdleInStep
    <2>3. tickets[n] # None => n \in DOMAIN attempts /\ attempts[n].state = "issue_ticket_created"
      BY <2>1 DEF OnceInv, TicketsAnnounced
    <2>4. ASSUME n \in DOMAIN attempts
          PROVE  /\ attempts[n].state = "passed" =>
                       attempts[n].evaluation # None /\ attempts[n].evaluation.verdict = "pass"
                 /\ attempts[n].state = "issue_ticket_created" =>
                       /\ attempts[n].evaluation # None /\ attempts[n].evaluation.verdict = "fail"
                       /\ tickets[n] # None
      <3>1. attempts[n].state = "issue_ticket_created" =>
               tickets[n] = [golden |-> golden, run |-> attempts[n].run, evaluation |-> attempts[n].evaluation]
        BY <2>4 DEF VerdictInv, FinalStateIsBacked
      <3>2. attempts[n].state = "issue_ticket_created" => tickets[n] \in Ticket
        <4>1. attempts[n].state \in Final => golden # None
          BY <2>4 DEF VerdictInv, FinalHasGolden
        <4>2. attempts[n] \in Record
          BY <2>1, <2>4, AttemptDomain
        <4>3. attempts[n].state = "issue_ticket_created" => attempts[n].evaluation # None
          BY <2>4 DEF VerdictInv, FinalStateIsBacked
        <4>4. attempts[n].state = "issue_ticket_created" =>
                 golden \in Answers /\ attempts[n].run \in Runs /\ attempts[n].evaluation \in Evaluation
          BY <2>1, <4>1, <4>2, <4>3 DEF Final, TypeOK, Record
        <4> QED BY <3>1, <4>4 DEF Ticket
      <3>3. attempts[n].state = "issue_ticket_created" => tickets[n] # None
        BY <3>2, AbsentAssumption
      <3> QED BY <2>4, <3>3 DEF VerdictInv, FinalStateIsBacked
    <2> QED BY <2>2, <2>3, <2>4 DEF InStep, Final
  <1> QED BY <1>1, VerdictSound, OnceSound, PTL

(* No step rewrites what a final attempt says, except to add its            *)
(* assessment: repeated goldens, polls and waiting tasks come too late.     *)
THEOREM FinalFrozen == Spec => FinalAttemptIsFrozen
  <1> DEFINE A == \A n \in DOMAIN attempts : (crashes = 0 /\ attempts[n].state \in Final) =>
                     /\ attempts'[n] = [attempts[n] EXCEPT !.improvement = attempts'[n].improvement]
                     /\ attempts[n].improvement \in {None, attempts'[n].improvement}
  <1>1. VerdictInv /\ OnceInv /\ [Next]_vars => A
    <2> SUFFICES ASSUME VerdictInv, OnceInv, [Next]_vars, crashes = 0,
                        NEW n \in DOMAIN attempts, attempts[n].state \in Final
                 PROVE  /\ attempts'[n] = [attempts[n] EXCEPT !.improvement = attempts'[n].improvement]
                        /\ attempts[n].improvement \in {None, attempts'[n].improvement}
      OBVIOUS
    <2>1. attempts[n] \in Record
      BY AttemptDomain DEF VerdictInv, OwnershipInv
    <2>2. attempts[n] = [attempts[n] EXCEPT !.improvement = attempts[n].improvement]
      BY <2>1 DEF Record
    <2>3. CASE attempts'[n] = attempts[n]
      BY <2>2, <2>3
    <2>4. CASE WriteFile /\ Head(writes).file = "attempt" /\ Head(writes).no = n
      <3>1. Follows(attempts[n], Head(writes).value)
        BY <2>4, WriteFollows
      <3>2. attempts'[n] = Head(writes).value
        BY <2>4, AttemptWritten DEF VerdictInv, DueSound
      <3> QED BY <3>1, <3>2 DEF Follows
    <2>5. CASE WriteFile /\ Head(writes).file = "attempt" /\ Head(writes).no # n
      <3>1. attempts'[n] = attempts[n]
        BY <2>5, AttemptWritten DEF VerdictInv, DueSound
      <3> QED BY <2>3, <3>1
    <2>6. CASE WriteFile /\ Head(writes).file # "attempt"
      <3>1. attempts' = attempts
        BY <2>6 DEF WriteFile
      <3> QED BY <2>3, <3>1
    <2>7. CASE ~ WriteFile
      BY <2>3, <2>7, OnlyWritesFile
    <2> QED BY <2>4, <2>5, <2>6, <2>7
  <1>2. VerdictInv /\ OnceInv /\ [Next]_vars => [A]_vars
    BY <1>1
  <1>3. Spec => [][A]_vars
    BY <1>2, VerdictSound, OnceSound, PTL DEF Spec
  <1> QED BY <1>3 DEF FinalAttemptIsFrozen

-----------------------------------------------------------------------------
(***************************************************************************)
(* An assessment stays true: the earlier attempt it compares with is on    *)
(* file and evaluated, and its evaluation is never replaced.               *)
(***************************************************************************)
Compares(n, a) ==
    /\ a.improvement # None => a.improvement.previous \in DOMAIN attempts
    /\ IsCurrent(n, a)

CurrentInv ==
    crashes = 0 =>
        /\ \A n \in DOMAIN attempts : Compares(n, attempts[n])
        /\ \A w \in Due : w.file = "attempt" => Compares(w.no, w.value)

(* A record without an assessment. *)
LEMMA NotCompared ==
    ASSUME NEW n, NEW a, a.improvement = None
    PROVE  Compares(n, a) /\ Compares(n, a)'
  BY DEF Compares, IsCurrent

(* What an assessment compares survives a write. *)
LEMMA WriteCompares ==
    ASSUME VerdictInv, OnceInv, crashes = 0, WriteFile, NEW n, NEW a, Compares(n, a)
    PROVE  Compares(n, a)'
  <1> DEFINE p == a.improvement.previous
  <1> SUFFICES ASSUME a.improvement # None
               PROVE  /\ p \in DOMAIN attempts'
                      /\ attempts'[p].evaluation = attempts[p].evaluation
    BY DEF Compares, IsCurrent
  <1>1. p \in DOMAIN attempts /\ attempts[p].evaluation # None
    BY DEF Compares, IsCurrent
  <1> HIDE DEF p
  <1>2. CASE Head(writes).file = "attempt"
    <2>1. /\ DOMAIN attempts' = DOMAIN attempts \cup {Head(writes).no}
          /\ \A m \in DOMAIN attempts' :
                attempts'[m] = IF m = Head(writes).no THEN Head(writes).value ELSE attempts[m]
      BY <1>2, AttemptWritten DEF VerdictInv, DueSound
    <2>2. CASE p = Head(writes).no
      <3>1. Follows(attempts[p], Head(writes).value)
        BY <1>1, <1>2, <2>2, WriteFollows
      <3> QED BY <1>1, <2>1, <2>2, <3>1 DEF Follows
    <2>3. CASE p # Head(writes).no
      BY <1>1, <2>1, <2>3
    <2> QED BY <2>2, <2>3
  <1>3. CASE Head(writes).file # "attempt"
    BY <1>1, <1>3 DEF WriteFile
  <1> QED BY <1>2, <1>3

LEMMA WriteCurrent ==
    ASSUME VerdictInv, OnceInv, CurrentInv, crashes = 0, WriteFile
    PROVE  CurrentInv'
  <1> DEFINE w == Head(writes)
  <1>1. w \in Due /\ Due = {w} \cup Due'
    BY DueShrinks DEF VerdictInv, OwnershipInv
  <1>2. \A n, a : Compares(n, a) => Compares(n, a)'
    BY WriteCompares
  <1>3. ASSUME NEW n \in DOMAIN attempts' PROVE Compares(n, attempts[n])'
    <2>1. Compares(n, attempts'[n])
      <3>1. CASE w.file = "attempt"
        <4>1. /\ DOMAIN attempts' = DOMAIN attempts \cup {w.no}
              /\ \A m \in DOMAIN attempts' : attempts'[m] = IF m = w.no THEN w.value ELSE attempts[m]
          BY <3>1, AttemptWritten DEF VerdictInv, DueSound
        <4> HIDE DEF w
        <4> QED BY <1>1, <3>1, <4>1 DEF CurrentInv
      <3>2. CASE w.file # "attempt"
        <4>1. attempts' = attempts
          BY <3>2 DEF WriteFile
        <4> QED BY <4>1 DEF CurrentInv
      <3> QED BY <3>1, <3>2
    <2>2. ASSUME NEW a, a = attempts'[n] PROVE Compares(n, a)'
      BY <1>2, <2>1, <2>2
    <2> QED BY <2>2 DEF Compares, IsCurrent
  <1>4. ASSUME NEW v \in Due', v.file = "attempt" PROVE Compares(v.no, v.value)'
    BY <1>1, <1>2, <1>4 DEF CurrentInv
  <1> QED BY <1>3, <1>4 DEF CurrentInv, Compares, IsCurrent

(* A section begun by an idle loop, which writes records without an         *)
(* assessment or with a current one.                                        *)
LEMMA SectionCurrent ==
    ASSUME CurrentInv, UNCHANGED <<files, crashes>>,
           \A w \in Due' : (w.file = "attempt" /\ crashes = 0) => Compares(w.no, w.value)
    PROVE  CurrentInv'
  <1>1. UNCHANGED attempts
    BY DEF files
  <1> QED BY <1>1 DEF CurrentInv, Compares, IsCurrent

(* The assessment that a conclusion adds. *)
LEMMA AssessmentCurrent ==
    ASSUME TypeOK, golden \in Answers, NEW n \in AttemptNo, NEW r \in Record, NEW e \in Evaluation,
           r.improvement = None
    PROVE  Compares(n, Assessed(n, r, e))
  <1> DEFINE x == Assessed(n, r, e)
  <1>1. x.evaluation = e
    BY AssessedValues
  <1>2. x.improvement = IF EvaluatedBefore(n) = {} THEN None ELSE Assessment(n, e)
    <2>1. Assessed(n, r, e).improvement = IF EvaluatedBefore(n) = {} THEN r.improvement ELSE Assessment(n, e)
      BY ConcludedFields
    <2> QED BY <2>1
  <1>3. CASE EvaluatedBefore(n) = {}
    BY <1>2, <1>3, NotCompared
  <1>4. CASE EvaluatedBefore(n) # {}
    <2> DEFINE p == PreviousEvaluated(n)
    <2>1. p \in EvaluatedBefore(n)
      BY <1>4, PreviousEvaluatedType
    <2>2. p \in DOMAIN attempts /\ p < n /\ attempts[p].evaluation # None
      BY <2>1, BoundsAssumption DEF EvaluatedBefore, AttemptNo
    <2> HIDE DEF p, x
    <2>3. /\ x.improvement.previous = p
          /\ x.improvement.grammar = CompareScores(attempts[p].evaluation.grammar, e.grammar)
          /\ x.improvement.accuracy = CompareScores(attempts[p].evaluation.accuracy, e.accuracy)
      BY <1>2, <1>4 DEF Assessment, p
    <2>4. Compares(n, x)
      BY <1>1, <2>2, <2>3 DEF Compares, IsCurrent
    <2> QED BY <2>4 DEF x
  <1> QED BY <1>3, <1>4

LEMMA EvaluateCurrent ==
    ASSUME VerdictInv, OnceInv, CurrentInv, crashes = 0, NEW n \in AttemptNo, Evaluate(n)
    PROVE  CurrentInv'
  <1>1. TypeOK /\ writes = <<>> /\ UNCHANGED <<files, crashes>>
    BY EvaluateFrame DEF VerdictInv, OwnershipInv
  <1>2. CASE Idles(n)
    <2>1. Due' = {}
      BY <1>2 DEF Idles, Due, Elements
    <2> QED BY <1>1, <2>1, SectionCurrent
  <1>3. ASSUME golden # None, n \in DOMAIN attempts, attempts[n].state \notin Final,
               NEW r \in Revised(attempts[n]), Decides(n, r)
        PROVE  CurrentInv'
    <2>1. r \in Record /\ r.improvement = None /\ golden \in Answers
      BY <1>1, <1>3, RevisedOpen DEF TypeOK
    <2>2. ASSUME \A w \in Due' : w.file = "attempt" => w.no = n /\ Compares(n, w.value)
          PROVE  CurrentInv'
      BY <1>1, <2>2, SectionCurrent
    <2>3. \A q : AttemptFile(n, q).file = "attempt" /\ AttemptFile(n, q).no = n /\ AttemptFile(n, q).value = q
      BY DEF AttemptFile
    <2>4. CASE Stores(n, r)
      <3>1. Due' = Elements(MutateWrites(n, r))
        BY <2>4 DEF Stores, Due
      <3>2. \A w \in Due' : w = AttemptFile(n, r) \/ w \in Mirror(n)
        BY <2>1, <3>1, MutateShape
      <3>3. \A w \in Due' : w = AttemptFile(n, r) \/ w.file = "latest"
        BY <3>2 DEF Mirror
      <3> QED BY <2>1, <2>2, <2>3, <3>3, NotCompared
    <2>5. ASSUME NEW state \in {"tugraph_execution_failed", "semantic_review_invalid"},
                 writes' = MutateWrites(n, r) \o MutateWrites(n, [r EXCEPT !.state = state])
          PROVE  CurrentInv'
      <3> DEFINE q == [r EXCEPT !.state = state]
      <3>1. q \in Record /\ q.improvement = None
        BY <2>1 DEF Record, State
      <3>2. Due' = Elements(MutateWrites(n, r) \o MutateWrites(n, q))
        BY <2>5 DEF Due
      <3> HIDE DEF q
      <3>4. \A w \in Due' : w = AttemptFile(n, r) \/ w = AttemptFile(n, q) \/ w \in Mirror(n)
        BY <2>1, <3>1, <3>2, TwoUpdates
      <3>3. \A w \in Due' : w = AttemptFile(n, r) \/ w = AttemptFile(n, q) \/ w.file = "latest"
        BY <3>4 DEF Mirror
      <3> QED BY <2>1, <2>2, <2>3, <3>1, <3>3, NotCompared
    <2>6. ASSUME NEW e \in Evaluation, Concludes(n, r, e) PROVE CurrentInv'
      <3> DEFINE pr == AttemptFile(n, r)
                 ev == AttemptFile(n, Evaluated(r, e))
                 li == AttemptFile(n, Linked(Evaluated(r, e)))
                 co == AttemptFile(n, Concluded(r, e))
                 as == AttemptFile(n, Assessed(n, r, e))
                 t == TicketFile(n, Claim(Evaluated(r, e)))
                 Latest == Mirror(n)
      <3>1. /\ e.verdict = "fail" => Due' \subseteq Latest \cup {pr, ev, li, co, as, t}
            /\ e.verdict # "fail" => Due' \subseteq Latest \cup {pr, ev, co, as}
        BY <2>1, <2>6, ConclusionSection
      <3>2. /\ Evaluated(r, e).improvement = None /\ Linked(Evaluated(r, e)).improvement = None
            /\ Concluded(r, e).improvement = None
        <4>1. /\ Evaluated(r, e).improvement = r.improvement
              /\ Linked(Evaluated(r, e)).improvement = r.improvement
          BY <2>1, EvaluatedValues
        <4>2. Concluded(r, e).improvement = r.improvement
          BY <2>1, ConcludedValues
        <4> QED BY <2>1, <4>1, <4>2
      <3>3. /\ Compares(n, r) /\ Compares(n, Evaluated(r, e)) /\ Compares(n, Linked(Evaluated(r, e)))
            /\ Compares(n, Concluded(r, e)) /\ Compares(n, Assessed(n, r, e))
        BY <1>1, <2>1, <3>2, NotCompared, AssessmentCurrent
      <3>4. t.file = "ticket" /\ \A w \in Latest : w.file = "latest"
        BY DEF TicketFile, Mirror
      <3>5. \A w \in {pr, ev, li, co, as} : w.no = n /\ Compares(n, w.value)
        BY <2>3, <3>3
      <3> HIDE DEF pr, ev, li, co, as, t, Latest
      <3>6. \A w \in Due' : w.file = "attempt" => w \in {pr, ev, li, co, as}
        BY <3>1, <3>4
      <3> QED BY <2>2, <3>5, <3>6
    <2> QED BY <1>3, <2>4, <2>5, <2>6 DEF Decides, GivesUp
  <1> QED BY <1>2, <1>3, EvaluateSections

(* The records a request stores: a new one, or one that it marks ready. *)
LEMMA RequestRecords ==
    ASSUME TypeOK, Requests
    PROVE  \A w \in Due' : w.file = "attempt" =>
              \/ w.value.improvement = None
              \/ /\ w.no \in DOMAIN attempts
                 /\ w.value = [attempts[w.no] EXCEPT !.state = "ready_to_evaluate"]
  <1> DEFINE Goal == \A w \in Due' : w.file = "attempt" =>
                        \/ w.value.improvement = None
                        \/ /\ w.no \in DOMAIN attempts
                           /\ w.value = [attempts[w.no] EXCEPT !.state = "ready_to_evaluate"]
  <1>1. writes = <<>>
    BY RequestTasks
  <1>2. ASSUME NEW r \in Receipts, IngestQuestionReceived(r) PROVE Goal
    <2>1. Due' = {ReceiptFile(r)} /\ ReceiptFile(r).file = "receipt"
      BY <1>2, ElementsShort DEF IngestQuestionReceived, Due, ReceiptFile
    <2> QED BY <2>1
  <1>3. ASSUME NEW run \in Runs, NEW status \in {"generated", "generation_failed"}, NEW body \in Bodies,
               NEW before \in Seq(Write), CreateAttempt(before, run, status, body),
               \A w \in Elements(before) : w.file = "report"
        PROVE  Goal
    <2> DEFINE N == Len(attempts) + 1
               r == NewRecord(run, status, body,
                       IF golden # None THEN "ready_to_evaluate" ELSE "received_submission_only")
               l == LatestFile(N, r)
               a == AttemptFile(N, r)
    <2>0. /\ N = Len(attempts) + 1
          /\ r = NewRecord(run, status, body,
                    IF golden # None THEN "ready_to_evaluate" ELSE "received_submission_only")
      OBVIOUS
    <2>1. r.improvement = None
      BY DEF NewRecord
    <2> HIDE DEF N, r
    <2>2. writes' = before \o <<l, a>> /\ Due' = Elements(before) \cup {l, a}
      BY <1>3, <2>0, CreateShape
    <2>3. l.file = "latest" /\ a.file = "attempt" /\ a.value = r
      BY DEF LatestFile, AttemptFile
    <2> HIDE DEF l, a
    <2> QED BY <1>3, <2>1, <2>2, <2>3
  <1>4. ASSUME NEW s \in Submissions, IngestSubmission(s) PROVE Goal
    <2>1. <<>> \in Seq(Write) /\ Elements(<<>>) = {}
      BY EmptySeq, ElementsShort
    <2>2. s.run \in Runs /\ s.body \in Bodies
      BY RequestsAssumption
    <2> QED BY <1>3, <1>4, <2>1, <2>2 DEF IngestSubmission
  <1>5. ASSUME NEW r \in FailureReports, IngestGenerationFailure(r) PROVE Goal
    <2>1. r.run \in Runs /\ r.body \in Bodies
      BY RequestsAssumption
    <2>2. PICK store \in Seq(Write) :
             /\ \A w \in Elements(store) : w.file = "report"
             /\ \/ CreateAttempt(store, r.run, "generation_failed", r.body)
                \/ writes' = store
      BY <1>5, FailureWrites
    <2>3. CASE writes' = store
      BY <2>2, <2>3 DEF Due
    <2> QED BY <1>3, <2>1, <2>2, <2>3
  <1>6. CASE GetEvaluationStatus
    BY <1>1, <1>6 DEF GetEvaluationStatus, Due, Elements
  <1>7. ASSUME NEW g \in Answers, IngestGolden(g) PROVE Goal
    <2>1. GoldenFile(g).file = "golden"
      BY DEF GoldenFile
    <2>2. CASE Due' = {GoldenFile(g)}
      BY <2>1, <2>2
    <2>3. ASSUME NEW n \in DOMAIN attempts,
                 NEW r, r = [attempts[n] EXCEPT !.state = "ready_to_evaluate"],
                 NEW s, Due' = {GoldenFile(g)} \cup Elements(s),
                 Elements(s) \subseteq {AttemptFile(n, r), LatestFile(n, r)}
          PROVE  Goal
      <3>1. /\ AttemptFile(n, r).no = n /\ AttemptFile(n, r).value = r
            /\ LatestFile(n, r).file = "latest"
        BY DEF AttemptFile, LatestFile
      <3> QED BY <2>1, <2>3, <3>1
    <2> QED BY <1>7, <2>2, <2>3, GoldenWrites
  <1> QED BY <1>2, <1>4, <1>5, <1>6, <1>7 DEF Requests

LEMMA RequestsCurrent ==
    ASSUME TypeOK, CurrentInv, Requests
    PROVE  CurrentInv'
  <1>1. UNCHANGED <<files, crashes>>
    BY RequestTasks
  <1>2. ASSUME NEW w \in Due', w.file = "attempt", crashes = 0 PROVE Compares(w.no, w.value)
    <2>1. CASE w.value.improvement = None
      BY <2>1, NotCompared
    <2>2. CASE /\ w.no \in DOMAIN attempts
               /\ w.value = [attempts[w.no] EXCEPT !.state = "ready_to_evaluate"]
      <3>1. attempts[w.no] \in Record
        BY <2>2, AttemptDomain
      <3>2. w.value.improvement = attempts[w.no].improvement /\ w.value.evaluation = attempts[w.no].evaluation
        BY <2>2, <3>1 DEF Record
      <3>3. Compares(w.no, attempts[w.no])
        BY <1>2, <2>2 DEF CurrentInv
      <3> QED BY <3>2, <3>3 DEF Compares, IsCurrent
    <2> QED BY <1>2, <2>1, <2>2, RequestRecords
  <1> QED BY <1>1, <1>2, SectionCurrent

(* An assessment goes on comparing what the two attempts show, in whatever  *)
(* order their evaluations end.                                             *)
THEOREM AssessmentsCurrent == Spec => []AssessmentIsCurrent
  <1>1. Init => CurrentInv
    BY DEF Init, CurrentInv, Due, Elements
  <1>2. VerdictInv /\ OnceInv /\ CurrentInv /\ [Next]_vars => CurrentInv'
    <2> SUFFICES ASSUME VerdictInv, OnceInv, CurrentInv, [Next]_vars PROVE CurrentInv'
      OBVIOUS
    <2>1. TypeOK /\ crashes \in Nat
      BY DEF VerdictInv, OwnershipInv, TypeOK
    <2>2. CASE WriteFile
      <3>1. crashes' = crashes
        BY <2>2 DEF WriteFile
      <3>2. crashes = 0 => CurrentInv'
        BY <2>2, WriteCurrent
      <3> QED BY <3>1, <3>2 DEF CurrentInv
    <2>3. ASSUME NEW n \in AttemptNo, Evaluate(n) PROVE CurrentInv'
      <3>1. crashes' = crashes
        BY <2>3, EvaluateFrame DEF VerdictInv
      <3>2. crashes = 0 => CurrentInv'
        BY <2>3, EvaluateCurrent
      <3> QED BY <3>1, <3>2 DEF CurrentInv
    <2>4. CASE Crash
      BY <2>1, <2>4 DEF Crash, CurrentInv
    <2>5. CASE Restart \/ (\E n \in AttemptNo : TaskDone(n)) \/ UNCHANGED vars
      <3>1. UNCHANGED <<attempts, writes, crashes>>
        BY <2>5 DEF Restart, TaskDone, vars, files
      <3>2. Due' = Due
        BY <3>1 DEF Due
      <3> QED BY <3>1, <3>2 DEF CurrentInv, Compares, IsCurrent
    <2> QED BY <2>1, <2>2, <2>3, <2>4, <2>5, RequestsCurrent DEF Next, EventLoop
  <1>3. CurrentInv => AssessmentIsCurrent
    BY DEF CurrentInv, AssessmentIsCurrent, Compares
  <1> QED BY <1>1, <1>2, <1>3, VerdictSound, OnceSound, PTL DEF Spec
=============================================================================
