--------------------------- MODULE WorkflowProofs ---------------------------
(***************************************************************************)
(* Every behaviour of the workflow is one of the testing agent, so what is *)
(* proved of the testing agent holds in the workflow as well.  On top of   *)
(* it FilingInv relates the two processes: what is on file of a run is     *)
(* what its pipeline produced, and an acknowledgement on its way stands    *)
(* for a file that is there or a write that precedes it.                   *)
(***************************************************************************)
EXTENDS Workflow, TestingAgentProofs

(* Where a run can be with the generator, and a delivery on its way. *)
Stage == {"unused", "refused", "generating", "delivered", "lost"} \cup Delivering
Call == [run : Runs, stage : Delivering, try : 1 .. MaxSubmits]

(* The generator's part of the state, and that a delivery of an outcome is *)
(* only sent once the pipeline has produced one.                           *)
GeneratorInv ==
    /\ at \in [Runs -> Stage]
    /\ tries \in [Runs -> 0 .. MaxSubmits]
    /\ output \in [Runs -> Outputs \cup {None}]
    /\ wire \subseteq Call
    /\ answers \subseteq [call : Call, outcome : {"accepted", "refused"}]
    /\ cgaCrashes \in 0 .. MaxCgaCrashes
    /\ \A run \in Runs :
          /\ at[run] \in Delivering => tries[run] \in 1 .. MaxSubmits
          /\ at[run] = "delivering" => output[run] \in Outputs
    /\ \A call \in wire : call.stage = "delivering" => output[call.run] \in Outputs

(* What a delivery's outcome does to its run. *)
LEMMA TakeOutcomeInv ==
    ASSUME GeneratorInv, NEW run \in Runs, at[run] \in Delivering,
           NEW outcome, TakeOutcome(run, outcome), UNCHANGED <<output, cgaCrashes>>
    PROVE  /\ at' \in [Runs -> Stage]
           /\ tries' \in [Runs -> 0 .. MaxSubmits]
           /\ wire' \subseteq Call
           /\ \A r \in Runs :
                 /\ at'[r] \in Delivering => tries'[r] \in 1 .. MaxSubmits
                 /\ at'[r] = "delivering" => output'[r] \in Outputs
           /\ \A call \in wire' : call.stage = "delivering" => output'[call.run] \in Outputs
<1> USE OutputsAssumption DEF Delivering
<1>1. CASE outcome = "failed" /\ tries[run] < MaxSubmits
  <2>1. /\ tries' = [tries EXCEPT ![run] = @ + 1]
        /\ wire' = wire \cup {[run |-> run, stage |-> at[run], try |-> tries[run] + 1]}
        /\ UNCHANGED at
    <3>1. tries[run] # MaxSubmits
      BY <1>1 DEF GeneratorInv
    <3> QED
      BY <1>1, <3>1 DEF TakeOutcome, Resend
  <2>2. tries[run] + 1 \in 1 .. MaxSubmits
    BY <1>1 DEF GeneratorInv
  <2>3. [run |-> run, stage |-> at[run], try |-> tries[run] + 1] \in Call
    BY <2>2 DEF Call
  <2>4. \A r \in Runs : tries'[r] = IF r = run THEN tries[run] + 1 ELSE tries[r]
    BY <2>1 DEF GeneratorInv
  <2>5. tries' \in [Runs -> 0 .. MaxSubmits]
    BY <2>1, <2>2 DEF GeneratorInv
  <2>6. wire' \subseteq Call
    BY <2>1, <2>3 DEF GeneratorInv
  <2>7. \A r \in Runs : /\ at'[r] \in Delivering => tries'[r] \in 1 .. MaxSubmits
                        /\ at'[r] = "delivering" => output'[r] \in Outputs
    BY <2>1, <2>2, <2>4 DEF GeneratorInv
  <2>8. \A call \in wire' : call.stage = "delivering" => output'[call.run] \in Outputs
    BY <2>1 DEF GeneratorInv
  <2> QED
    BY <2>1, <2>5, <2>6, <2>7, <2>8 DEF GeneratorInv
<1>2. CASE ~ (outcome = "failed" /\ tries[run] < MaxSubmits)
  <2>1. UNCHANGED <<tries, wire>> /\ \E accepted \in BOOLEAN : Leave(run, accepted)
    BY <1>2 DEF TakeOutcome, Leave
  <2>2. \E place \in Stage \ Delivering : at' = [at EXCEPT ![run] = place]
    <3>1. CASE at[run] = "announcing"
      BY <2>1, <3>1 DEF Leave, Stage, GeneratorInv
    <3>2. CASE at[run] = "delivering"
      BY <2>1, <3>2 DEF Leave, Stage, GeneratorInv
    <3> QED
      BY <3>1, <3>2
  <2> QED
    BY <2>1, <2>2 DEF GeneratorInv
<1> QED
  BY <1>1, <1>2

LEMMA GeneratorInit == WInit => GeneratorInv
  BY OutputsAssumption DEF WInit, GeneratorInv, Stage, Delivering

LEMMA GeneratorStep == GeneratorInv /\ [WNext]_allVars => GeneratorInv'
<1> SUFFICES ASSUME GeneratorInv, [WNext]_allVars
             PROVE  GeneratorInv'
  OBVIOUS
<1> USE OutputsAssumption DEF Delivering
<1>1. ASSUME NEW run \in Runs, AcceptQuestion(run)
      PROVE  GeneratorInv'
  <2>1. [run |-> run, stage |-> "announcing", try |-> 1] \in Call
    BY DEF Call
  <2> QED
    BY <1>1, <2>1 DEF AcceptQuestion, Send, GeneratorInv, Stage
<1>2. ASSUME NEW run \in Runs, GenerationEnds(run)
      PROVE  GeneratorInv'
  <2>1. [run |-> run, stage |-> "delivering", try |-> 1] \in Call
    BY DEF Call
  <2>2. PICK o \in Outputs : output' = [output EXCEPT ![run] = o]
    BY <1>2 DEF GenerationEnds
  <2>3. /\ at' = [at EXCEPT ![run] = "delivering"]
        /\ tries' = [tries EXCEPT ![run] = 1]
        /\ wire' = wire \cup {[run |-> run, stage |-> "delivering", try |-> 1]}
        /\ UNCHANGED <<answers, cgaCrashes>>
    BY <1>2 DEF GenerationEnds, Send
  <2>4. \A call \in wire : call.run \in Runs
    BY DEF GeneratorInv, Call
  <2>5. \A call \in wire' : call.stage = "delivering" => output'[call.run] \in Outputs
    BY <2>2, <2>3, <2>4 DEF GeneratorInv
  <2>6. at' \in [Runs -> Stage] /\ tries' \in [Runs -> 0 .. MaxSubmits]
        /\ output' \in [Runs -> Outputs \cup {None}]
    BY <2>2, <2>3 DEF GeneratorInv, Stage
  <2> QED
    BY <2>1, <2>2, <2>3, <2>5, <2>6 DEF GeneratorInv
<1>3. ASSUME NEW run \in Runs, GenerationRaises(run)
      PROVE  GeneratorInv'
  BY <1>3 DEF GenerationRaises, GeneratorInv, Stage
<1>4. ASSUME NEW run \in Runs, CallFails(run)
      PROVE  GeneratorInv'
  <2>1. at[run] \in Delivering /\ TakeOutcome(run, "failed") /\ UNCHANGED <<output, answers, cgaCrashes>>
    BY <1>4 DEF CallFails
  <2> QED
    BY <2>1, TakeOutcomeInv DEF GeneratorInv
<1>5. ASSUME NEW call \in wire, CallIsLost(call)
      PROVE  GeneratorInv'
  BY <1>5 DEF CallIsLost, GeneratorInv
<1>6. ASSUME NEW call \in wire, TakeReceipt(call) \/ TakeSubmission(call) \/ TakeFailureReport(call)
      PROVE  GeneratorInv'
  <2>1. PICK answer \in {"accepted", "refused"} : TestingAnswers(call, answer)
    BY <1>6 DEF TakeReceipt, TakeSubmission, TakeFailureReport
  <2> QED
    BY <2>1 DEF TestingAnswers, GeneratorInv
<1>7. ASSUME NEW a \in answers, AnswerArrives(a)
      PROVE  GeneratorInv'
  <2> DEFINE run == a.call.run
  <2>1. run \in Runs /\ a.call.stage \in Delivering
    BY DEF GeneratorInv, Call
  <2>2. answers' \subseteq answers /\ UNCHANGED <<output, cgaCrashes>>
    BY <1>7 DEF AnswerArrives
  <2>3. CASE at[run] = a.call.stage /\ tries[run] = a.call.try
    <3>1. TakeOutcome(run, a.outcome)
      BY <1>7, <2>3 DEF AnswerArrives
    <3> QED
      BY <2>1, <2>2, <2>3, <3>1, TakeOutcomeInv DEF GeneratorInv
  <2>4. CASE ~ (at[run] = a.call.stage /\ tries[run] = a.call.try)
    BY <1>7, <2>2, <2>4 DEF AnswerArrives, GeneratorInv
  <2> QED
    BY <2>3, <2>4
<1>8. ASSUME CgaCrash
      PROVE  GeneratorInv'
  <2>1. /\ UNCHANGED <<tries, output, wire, answers>>
        /\ cgaCrashes' \in 0 .. MaxCgaCrashes
    BY <1>8 DEF CgaCrash, GeneratorInv
  <2>2. at' \in [Runs -> Stage \ Delivering]
    BY <1>8 DEF CgaCrash, GeneratorInv, Stage
  <2> QED
    BY <2>1, <2>2 DEF GeneratorInv
<1>9. ASSUME TestingStep
      PROVE  GeneratorInv'
  BY <1>9 DEF TestingStep, cga, GeneratorInv
<1>10. ASSUME UNCHANGED allVars
       PROVE  GeneratorInv'
  BY <1>10 DEF allVars, cga, GeneratorInv
<1> QED
  BY <1>1, <1>2, <1>3, <1>4, <1>5, <1>6, <1>7, <1>8, <1>9, <1>10 DEF WNext, WStep, Generator

(* The testing agent's variables change only by its own actions. *)
LEMMA StepSimulation == GeneratorInv /\ [WNext]_allVars => [Next]_vars
<1> SUFFICES ASSUME GeneratorInv, [WNext]_allVars
             PROVE  [Next]_vars
  OBVIOUS
<1>1. ASSUME NEW run \in Runs, AcceptQuestion(run) \/ Generator(run)
      PROVE  UNCHANGED vars
  BY <1>1 DEF AcceptQuestion, Generator, GenerationEnds, GenerationRaises, CallFails
<1>2. ASSUME NEW call \in wire, TakeReceipt(call)
      PROVE  [Next]_vars
  BY <1>2 DEF TakeReceipt, Repeated, Next, Requests
<1>3. ASSUME NEW call \in wire, TakeSubmission(call)
      PROVE  [Next]_vars
  <2>0. call.run \in Runs /\ output[call.run] \in Outputs
    BY <1>3 DEF TakeSubmission, GeneratorInv, Call
  <2>1. output[call.run].status = "generated" =>
           [run |-> call.run, body |-> output[call.run].body] \in Submissions
    BY <2>0, OutputsAssumption
  <2> QED
    BY <1>3, <2>1 DEF TakeSubmission, Repeated, Next, Requests
<1>4. ASSUME NEW call \in wire, TakeFailureReport(call)
      PROVE  [Next]_vars
  <2> DEFINE r == [run |-> call.run, status |-> output[call.run].status, body |-> output[call.run].body]
  <2>0. call.run \in Runs /\ output[call.run] \in Outputs
    BY <1>4 DEF TakeFailureReport, GeneratorInv, Call
  <2>1. output[call.run].status # "generated" => r \in FailureReports
    BY <2>0, OutputsAssumption
  <2> QED
    BY <1>4, <2>1 DEF TakeFailureReport, Repeated, Next, Requests
<1>5. ASSUME NEW call \in wire, CallIsLost(call)
      PROVE  UNCHANGED vars
  BY <1>5 DEF CallIsLost
<1>6. ASSUME NEW a \in answers, AnswerArrives(a)
      PROVE  UNCHANGED vars
  BY <1>6 DEF AnswerArrives
<1>7. ASSUME CgaCrash
      PROVE  UNCHANGED vars
  BY <1>7 DEF CgaCrash
<1>8. ASSUME TestingStep
      PROVE  [Next]_vars
  BY <1>8 DEF TestingStep, Next, Requests
<1> QED
  BY <1>1, <1>2, <1>3, <1>4, <1>5, <1>6, <1>7, <1>8 DEF WNext, WStep, allVars

(* The workflow implements the testing agent: composed with the generator's *)
(* retries, late calls and crashes it only ever takes the testing agent's   *)
(* own steps.                                                               *)
THEOREM WorkflowImplementsTestingAgent == WSpec => Spec
<1>1. WSpec => []GeneratorInv
  BY GeneratorInit, GeneratorStep, PTL DEF WSpec
<1>2. WInit => Init
  BY DEF WInit
<1> QED
  BY <1>1, <1>2, StepSimulation, PTL DEF WSpec, Spec

(* However often deliveries are repeated, lost or late, no generation run   *)
(* owns two attempts.                                                       *)
THEOREM RetriesMakeNoSecondAttempt == WSpec => []RunOwnsOneAttempt
  BY WorkflowImplementsTestingAgent, OneAttemptPerRun, PTL

-----------------------------------------------------------------------------
(***************************************************************************)
(* What the testing agent holds of a run is what the run has produced, an  *)
(* acknowledgement comes after the writes it stands for, and the receipt   *)
(* comes first.                                                            *)
(***************************************************************************)
(* A record or a report carries what the pipeline has produced for its run. *)
IsOutput(a) ==
    /\ output[a.run] # None
    /\ a.generation_status = output[a.run].status /\ a.body = output[a.run].body

IsReported(r) ==
    /\ output[r.run] # None
    /\ r.status = output[r.run].status /\ r.body = output[r.run].body

(* A run produces once: after it was announced and before it delivers. *)
OutputInv ==
    /\ \A run \in Runs :
          /\ at[run] \in {"unused", "announcing", "generating"} => output[run] = None
          /\ at[run] \in {"delivering", "delivered"} => output[run] # None
    /\ \A a \in answers : a.call.stage = "delivering" => output[a.call.run] # None

(* What the testing agent holds of a run, or is about to store, is what the *)
(* run has produced, so it has nothing to refuse.                           *)
ContentInv ==
    /\ \A n \in DOMAIN attempts : IsOutput(attempts[n])
    /\ \A w \in Due : w.file = "attempt" => IsOutput(w.value)
    /\ \A run \in Runs : reports[run] # None => reports[run].run = run /\ IsReported(reports[run])
    /\ \A w \in Due : w.file = "report" => IsReported(w.value)
    /\ \A a \in answers : a.outcome = "accepted"

(* The file an acknowledged outcome is in, or the write that is to make it. *)
OnFile(run) == IF output[run].status \in ReportOnly THEN reports[run] # None ELSE KnownRun(run)

Coming(run) ==
    \E w \in Due : /\ w.file = IF output[run].status \in ReportOnly THEN "report" ELSE "attempt"
                   /\ w.value.run = run

(* An answer on its way acknowledges what is on file, or will be before the *)
(* answer leaves; an answer that has arrived, what is on file.              *)
AckInv ==
    /\ \A run \in Runs : at[run] = "delivered" => OnFile(run)
    /\ \A a \in answers : a.call.stage = "delivering" => OnFile(a.call.run) \/ Coming(a.call.run)

(* The same of a run's receipt, which comes before anything the run does.   *)
ReceiptInv ==
    /\ receipt # None => receipt.run \in announced
    /\ \A run \in Runs : at[run] \in {"generating", "delivering", "delivered"} \/ output[run] # None
          => run \in announced
    /\ \A a \in answers : a.call.stage = "announcing" =>
          \/ a.call.run \in announced
          \/ \E w \in Due : w.file = "receipt" /\ w.value.run = a.call.run

(* What a step notes of receipts. *)
Remembers ==
    /\ announced \subseteq announced'
    /\ receipt' # None => receipt'.run \in announced'

FilingInv == OutputInv /\ ContentInv /\ AckInv /\ ReceiptInv

-----------------------------------------------------------------------------
(* A record of the same run with the same outcome of its pipeline. *)
Same(a, b) == a.run = b.run /\ a.generation_status = b.generation_status /\ a.body = b.body

(* An evaluation rewrites its attempt with the outcome it has. *)
LEMMA EvaluateContent ==
    ASSUME VerdictInv, NEW n \in AttemptNo, Evaluate(n)
    PROVE  /\ \A w \in Due' : w.file \notin {"report", "receipt"}
           /\ \A w \in Due' : w.file = "attempt" =>
                 \E m \in DOMAIN attempts : Same(w.value, attempts[m])
<1>1. TypeOK
  BY DEF VerdictInv, OwnershipInv
<1>2. \A w \in Due' : w.file \notin {"report", "receipt"}
  BY EvaluateDue DEF Mirror
<1>3. CASE Idles(n)
  <2>1. Due' = {}
    BY <1>3 DEF Idles, Due, Elements
  <2> QED
    BY <2>1
<1>4. ASSUME golden # None, n \in DOMAIN attempts, NEW r \in Revised(attempts[n]), Decides(n, r)
      PROVE  \A w \in Due' : w.file = "attempt" => Same(w.value, attempts[n])
  <2>1. r \in Record /\ Same(r, attempts[n]) /\ golden \in Answers
    BY <1>1, <1>4, AttemptDomain, RevisedFields DEF TypeOK, Same
  <2>2. \A q : AttemptFile(n, q).file = "attempt" /\ AttemptFile(n, q).value = q
    BY DEF AttemptFile
  <2>3. CASE Stores(n, r)
    <3>1. Due' = Elements(MutateWrites(n, r))
      BY <2>3 DEF Stores, Due
    <3>2. \A w \in Due' : w = AttemptFile(n, r) \/ w.file = "latest"
      BY <2>1, <3>1, MutateShape DEF Mirror
    <3> QED
      BY <2>1, <2>2, <3>2
  <2>4. ASSUME NEW state \in {"tugraph_execution_failed", "semantic_review_invalid"},
               writes' = MutateWrites(n, r) \o MutateWrites(n, [r EXCEPT !.state = state])
        PROVE  \A w \in Due' : w.file = "attempt" => Same(w.value, attempts[n])
    <3> DEFINE q == [r EXCEPT !.state = state]
    <3>1. q \in Record /\ Same(q, attempts[n])
      BY <2>1 DEF Record, State, Same
    <3>2. Due' = Elements(MutateWrites(n, r) \o MutateWrites(n, q))
      BY <2>4 DEF Due
    <3> HIDE DEF q
    <3>3. \A w \in Due' : w = AttemptFile(n, r) \/ w = AttemptFile(n, q) \/ w \in Mirror(n)
      BY <2>1, <3>1, <3>2, TwoUpdates
    <3>4. \A w \in Due' : w = AttemptFile(n, r) \/ w = AttemptFile(n, q) \/ w.file = "latest"
      BY <3>3 DEF Mirror
    <3> QED
      BY <2>1, <2>2, <3>1, <3>4
  <2>5. ASSUME NEW e \in Evaluation, Concludes(n, r, e)
        PROVE  \A w \in Due' : w.file = "attempt" => Same(w.value, attempts[n])
    <3> DEFINE pr == AttemptFile(n, r)
               ev == AttemptFile(n, Evaluated(r, e))
               li == AttemptFile(n, Linked(Evaluated(r, e)))
               co == AttemptFile(n, Concluded(r, e))
               as == AttemptFile(n, Assessed(n, r, e))
               t == TicketFile(n, Claim(Evaluated(r, e)))
               Latest == Mirror(n)
    <3>1. /\ e.verdict = "fail" => Due' \subseteq Latest \cup {pr, ev, li, co, as, t}
          /\ e.verdict # "fail" => Due' \subseteq Latest \cup {pr, ev, co, as}
      BY <2>1, <2>5, ConclusionSection
    <3>2. Same(Evaluated(r, e), r) /\ Same(Linked(Evaluated(r, e)), r)
      BY <2>1, EvaluatedValues DEF Same
    <3>3. Same(Concluded(r, e), r)
      BY <2>1, ConcludedValues DEF Same
    <3>4. Same(Assessed(n, r, e), r)
      BY <2>1, AssessedValues DEF Same
    <3>5. \A w \in {pr, ev, li, co, as} : Same(w.value, attempts[n])
      BY <2>1, <2>2, <3>2, <3>3, <3>4 DEF Same
    <3>6. t.file = "ticket" /\ \A w \in Latest : w.file = "latest"
      BY DEF TicketFile, Mirror
    <3> HIDE DEF pr, ev, li, co, as, t, Latest
    <3>7. \A w \in Due' : w.file = "attempt" => w \in {pr, ev, li, co, as}
      BY <3>1, <3>6
    <3> QED
      BY <3>5, <3>7
  <2> QED
    BY <1>4, <2>3, <2>4, <2>5 DEF Decides, GivesUp
<1> QED
  BY <1>2, <1>3, <1>4, EvaluateSections

(* So does a pushed golden that marks an attempt ready. *)
LEMMA GoldenContent ==
    ASSUME TypeOK, NEW g \in Answers, IngestGolden(g)
    PROVE  /\ \A w \in Due' : w.file \notin {"report", "receipt"}
           /\ \A w \in Due' : w.file = "attempt" =>
                 \E m \in DOMAIN attempts : Same(w.value, attempts[m])
<1>1. GoldenFile(g).file = "golden"
  BY DEF GoldenFile
<1>2. CASE Due' = {GoldenFile(g)}
  BY <1>1, <1>2
<1>3. ASSUME NEW n \in DOMAIN attempts,
             NEW r, r = [attempts[n] EXCEPT !.state = "ready_to_evaluate"],
             NEW s, Due' = {GoldenFile(g)} \cup Elements(s),
             Elements(s) \subseteq {AttemptFile(n, r), LatestFile(n, r)}
      PROVE  /\ \A w \in Due' : w.file \notin {"report", "receipt"}
             /\ \A w \in Due' : w.file = "attempt" => Same(w.value, attempts[n])
  <2>1. /\ AttemptFile(n, r).file = "attempt" /\ AttemptFile(n, r).value = r
        /\ LatestFile(n, r).file = "latest"
    BY DEF AttemptFile, LatestFile
  <2>2. Same(r, attempts[n])
    BY <1>3, AttemptDomain DEF Same, Record
  <2> QED
    BY <1>1, <1>3, <2>1, <2>2
<1> QED
  BY <1>2, <1>3, GoldenWrites


(* The testing agent's own steps: it performs a write, dies, or starts a    *)
(* section, which leaves the outcomes on file as they are.                  *)
LEMMA OwnSteps ==
    ASSUME VerdictInv, TestingStep
    PROVE  /\ UNCHANGED <<at, output>>
           /\ \/ WriteFile /\ UNCHANGED answers
              \/ /\ UNCHANGED <<receipt, reports, attempts>>
                 /\ \A w \in Due' :
                       \/ w \in Due
                       \/ /\ w.file \notin {"report", "receipt"}
                          /\ w.file = "attempt" => \E m \in DOMAIN attempts : Same(w.value, attempts[m])
                 /\ answers' = {} \/ (answers' = answers /\ (Due = {} \/ Due' = Due))
<1>0. TypeOK
  BY DEF VerdictInv, OwnershipInv
<1> DEFINE Starts ==
       /\ UNCHANGED <<receipt, reports, attempts>>
       /\ \A w \in Due' :
             \/ w \in Due
             \/ /\ w.file \notin {"report", "receipt"}
                /\ w.file = "attempt" => \E m \in DOMAIN attempts : Same(w.value, attempts[m])
       /\ answers' = {} \/ (answers' = answers /\ (Due = {} \/ Due' = Due))
<1>1. UNCHANGED <<at, output>>
  BY DEF TestingStep, cga
<1>2. ASSUME NEW g \in Answers, IngestGolden(g), UNCHANGED cga
      PROVE  Starts
  <2>1. writes = <<>> /\ UNCHANGED files
    BY <1>2 DEF IngestGolden, LoopIdle
  <2>2. Due = {}
    BY <2>1 DEF Due, Elements
  <2> QED
    BY <1>0, <1>2, <2>1, <2>2, GoldenContent DEF files, cga
<1>3. ASSUME UNCHANGED <<files, writes, cga>>
      PROVE  Starts
  <2>1. Due' = Due
    BY <1>3 DEF Due, Elements
  <2> QED
    BY <1>3, <2>1 DEF files, cga
<1>4. ASSUME NEW n \in AttemptNo, Evaluate(n), UNCHANGED cga
      PROVE  Starts
  <2>1. Due = {} /\ UNCHANGED <<receipt, reports, attempts>>
    BY <1>4, EvaluateFrame DEF VerdictInv
  <2> QED
    BY <1>4, <2>1, EvaluateContent DEF cga
<1>5. ASSUME Crash, answers' = {}
      PROVE  Starts
  <2>1. Due' = {} /\ UNCHANGED files
    BY <1>5 DEF Crash, Due, Elements
  <2> QED
    BY <1>5, <2>1 DEF files
<1>6. ASSUME GetEvaluationStatus, UNCHANGED cga
      PROVE  Starts
  BY <1>3, <1>6 DEF GetEvaluationStatus
<1>7. ASSUME Restart, UNCHANGED cga
      PROVE  Starts
  BY <1>3, <1>7 DEF Restart
<1>8. ASSUME NEW n \in AttemptNo, TaskDone(n), UNCHANGED cga
      PROVE  Starts
  BY <1>3, <1>8 DEF TaskDone
<1>9. UNCHANGED cga => UNCHANGED answers
  BY DEF cga
<1> HIDE DEF Starts
<1>10. (WriteFile /\ UNCHANGED cga) \/ Starts
  BY <1>2, <1>4, <1>5, <1>6, <1>7, <1>8 DEF TestingStep, EventLoop
<1> QED
  BY <1>1, <1>9, <1>10 DEF Starts

(* What a write does to the outcomes on file. *)
LEMMA WriteFiles ==
    ASSUME VerdictInv, WriteFile
    PROVE  /\ Due' \subseteq Due
           /\ \A n \in DOMAIN attempts' :
                 \/ n \in DOMAIN attempts /\ attempts'[n] = attempts[n]
                 \/ \E w \in Due : w.file = "attempt" /\ attempts'[n] = w.value
           /\ \A run : KnownRun(run) => KnownRun(run)'
           /\ \A run \in Runs :
                 \/ reports'[run] = reports[run]
                 \/ /\ reports'[run] # None
                    /\ \E w \in Due : w.file = "report" /\ w.value.run = run /\ reports'[run] = w.value
           /\ receipt' = receipt \/ receipt' # None
           /\ \A w \in Due \ Due' :
                 /\ w.file = "attempt" => KnownRun(w.value.run)'
                 /\ w.file = "report" => reports'[w.value.run] # None
                 /\ w.file = "receipt" => receipt' # None /\ receipt' = w.value
<1> DEFINE w == Head(writes)
<1>1. TypeOK /\ OwnershipInv /\ DueNumbers
  BY DEF VerdictInv, OwnershipInv, DueSound
<1>2. w \in Write /\ w \in Due /\ Due = {w} \cup Due'
  BY <1>1, DueShrinks
<1>3. w.file \in {"golden", "receipt", "report", "attempt", "latest", "ticket"}
  BY <1>2 DEF Write
<1>4. CASE w.file = "attempt"
  <2>1. /\ UNCHANGED <<receipt, reports>>
        /\ DOMAIN attempts' = DOMAIN attempts \cup {w.no}
        /\ \A n \in DOMAIN attempts' : attempts'[n] = IF n = w.no THEN w.value ELSE attempts[n]
    BY <1>1, <1>4, AttemptWritten
  <2>2. w.no \in DOMAIN attempts => attempts[w.no].run = w.value.run
    BY <1>1, <1>2, <1>4 DEF OwnershipInv, PendingAttempts, Due, Elements
  <2> HIDE DEF w
  <2>3. \A run : KnownRun(run) => KnownRun(run)'
    BY <2>1, <2>2 DEF KnownRun
  <2>4. \A v : v = w => KnownRun(v.value.run)'
    BY <2>1 DEF KnownRun
  <2> QED
    BY <1>2, <1>4, <2>1, <2>3, <2>4
<1>5. CASE w.file # "attempt"
  <2>1. UNCHANGED attempts
    BY <1>5 DEF WriteFile
  <2>2. \A run : KnownRun(run) => KnownRun(run)'
    BY <2>1 DEF KnownRun
  <2>3. CASE w.file = "report"
    <3>1. /\ w.value \in FailureReports /\ w.value.run \in Runs /\ w.value # None
      BY <1>2, <2>3, RequestsAssumption, NoneAssumption DEF Write
    <3>2. reports' = [reports EXCEPT ![w.value.run] = w.value] /\ receipt' = receipt
      BY <2>3 DEF WriteFile
    <3> HIDE DEF w
    <3>3. reports \in [Runs -> FailureReports \cup {None}]
      BY <1>1 DEF TypeOK
    <3> QED
      BY <1>2, <2>1, <2>2, <2>3, <3>1, <3>2, <3>3
  <2>4. CASE w.file = "receipt"
    <3>1. w.value # None
      BY <1>2, <2>4, NoneAssumption DEF Write
    <3>2. receipt' = w.value /\ reports' = reports
      BY <2>4 DEF WriteFile
    <3> HIDE DEF w
    <3> QED
      BY <1>2, <2>1, <2>2, <2>4, <3>1, <3>2
  <2>5. CASE w.file \notin {"report", "receipt"}
    <3>1. UNCHANGED <<receipt, reports>>
      BY <2>5 DEF WriteFile
    <3> HIDE DEF w
    <3> QED
      BY <1>2, <1>5, <2>1, <2>2, <2>5, <3>1
  <2> QED
    BY <2>3, <2>4, <2>5
<1> QED
  BY <1>4, <1>5

(* What becomes of the run whose delivery has an outcome. *)
LEMMA OutcomeTaken ==
    ASSUME GeneratorInv, NEW run \in Runs, at[run] \in Delivering,
           NEW outcome, TakeOutcome(run, outcome)
    PROVE  /\ \A r \in Runs \ {run} : at'[r] = at[r]
           /\ \/ at'[run] = at[run]
              \/ at'[run] \in {"refused", "lost"}
              \/ /\ outcome = "accepted"
                 /\ \/ at[run] = "announcing" /\ at'[run] = "generating"
                    \/ at[run] = "delivering" /\ at'[run] = "delivered"
<1>1. at \in [Runs -> Stage]
  BY DEF GeneratorInv
<1>2. \/ UNCHANGED at
      \/ outcome = "accepted" /\ Leave(run, TRUE)
      \/ Leave(run, FALSE)
  BY DEF TakeOutcome, Resend
<1>3. CASE Leave(run, TRUE) /\ outcome = "accepted"
  <2>1. CASE at[run] = "announcing"
    <3>1. at' = [at EXCEPT ![run] = "generating"]
      BY <1>3, <2>1 DEF Leave
    <3> QED
      BY <1>1, <1>3, <2>1, <3>1
  <2>2. CASE at[run] = "delivering"
    <3>1. at' = [at EXCEPT ![run] = "delivered"]
      BY <1>3, <2>2 DEF Leave
    <3> QED
      BY <1>1, <1>3, <2>2, <3>1
  <2> QED
    BY <2>1, <2>2 DEF Delivering
<1>4. CASE Leave(run, FALSE)
  <2>1. \E place \in {"refused", "lost"} : at' = [at EXCEPT ![run] = place]
    <3>1. CASE at[run] = "announcing"
      BY <1>4, <3>1 DEF Leave
    <3>2. CASE at[run] = "delivering"
      BY <1>4, <3>2 DEF Leave
    <3> QED
      BY <3>1, <3>2 DEF Delivering
  <2> QED
    BY <1>1, <2>1
<1> QED
  BY <1>2, <1>3, <1>4


(* The attempt a delivery creates carries what its run has produced. *)
LEMMA CreateContent ==
    ASSUME TypeOK, NEW run \in Runs, NEW status \in {"generated", "generation_failed"},
           NEW body \in Bodies, NEW before \in Seq(Write),
           CreateAttempt(before, run, status, body),
           output[run] # None, output[run].status = status, output[run].body = body
    PROVE  \E w \in Write :
              /\ Due' = Elements(before) \cup {w, LatestFile(w.no, w.value)}
              /\ LatestFile(w.no, w.value).file = "latest"
              /\ w.file = "attempt" /\ w.value.run = run /\ IsOutput(w.value)
<1> DEFINE N == Len(attempts) + 1
           r == NewRecord(run, status, body,
                   IF golden # None THEN "ready_to_evaluate" ELSE "received_submission_only")
           w == AttemptFile(N, r)
<1>0. /\ N = Len(attempts) + 1
      /\ r = NewRecord(run, status, body,
                IF golden # None THEN "ready_to_evaluate" ELSE "received_submission_only")
  OBVIOUS
<1>1. r.run = run /\ r.generation_status = status /\ r.body = body
  BY DEF NewRecord
<1> HIDE DEF r, N
<1>2. /\ N \in AttemptNo /\ r \in Record
      /\ w \in Write /\ writes' = before \o <<LatestFile(N, r), w>>
      /\ Due' = Elements(before) \cup {LatestFile(N, r), w}
  BY <1>0, CreateShape
<1>3. /\ w.file = "attempt" /\ w.no = N /\ w.value = r
      /\ LatestFile(N, r).file = "latest"
  BY DEF AttemptFile, LatestFile
<1>4. IsOutput(r)
  BY <1>1 DEF IsOutput
<1> HIDE DEF w
<1> QED
  BY <1>1, <1>2, <1>3, <1>4

(* A delivery that is taken is acknowledged, and what it brings is on file  *)
(* or is being stored.                                                      *)
Acknowledged(call) ==
    /\ UNCHANGED <<at, output, receipt, reports, attempts>> /\ Due = {}
    /\ answers' = answers \cup {[call |-> call, outcome |-> "accepted"]}
    /\ \A w \in Due' :
          /\ w.file = "attempt" => IsOutput(w.value)
          /\ w.file = "report" => IsReported(w.value)
    /\ call.stage = "announcing" =>
          \/ call.run \in announced
          \/ \E w \in Due' : w.file = "receipt" /\ w.value.run = call.run
    /\ call.stage = "delivering" =>
          /\ output[call.run] # None
          /\ \/ OnFile(call.run)
             \/ \E w \in Due' :
                   /\ w.file = IF output[call.run].status \in ReportOnly THEN "report" ELSE "attempt"
                   /\ w.value.run = call.run

(* A receipt is being stored, or is on file already. *)
LEMMA TakeReceiptTaken ==
    ASSUME VerdictInv, GeneratorInv, ReceiptInv, NEW call \in wire, TakeReceipt(call)
    PROVE  Acknowledged(call)
<1>1. /\ UNCHANGED <<at, output>> /\ call.stage = "announcing"
      /\ answers' = answers \cup {[call |-> call, outcome |-> "accepted"]}
  BY DEF TakeReceipt, TestingAnswers
<1>2. PICK r \in Receipts : r.run = call.run /\ (IngestQuestionReceived(r) \/ (receipt = r /\ Repeated))
  BY DEF TakeReceipt
<1>3. CASE IngestQuestionReceived(r)
  <2>1. /\ writes = <<>> /\ UNCHANGED <<receipt, reports, attempts>> /\ writes' = <<ReceiptFile(r)>>
    BY <1>3 DEF IngestQuestionReceived, LoopIdle, files
  <2>2. Due = {} /\ Due' = {ReceiptFile(r)}
    BY <2>1, ElementsShort DEF Due, Elements
  <2>3. ReceiptFile(r).file = "receipt" /\ ReceiptFile(r).value = r
    BY DEF ReceiptFile
  <2> QED
    BY <1>1, <1>2, <2>1, <2>2, <2>3 DEF Acknowledged
<1>4. CASE receipt = r /\ Repeated
  <2>1. writes = <<>> /\ UNCHANGED <<receipt, reports, attempts, writes>>
    BY <1>4 DEF Repeated, LoopIdle, vars, files
  <2>2. Due = {} /\ Due' = {}
    BY <2>1 DEF Due, Elements
  <2>3. call.run \in announced
    BY <1>2, <1>4, NoneAssumption DEF ReceiptInv
  <2> QED
    BY <1>1, <2>1, <2>2, <2>3 DEF Acknowledged
<1> QED
  BY <1>2, <1>3, <1>4

(* A submission creates the attempt, or repeats the one on file. *)
LEMMA TakeSubmissionTaken ==
    ASSUME VerdictInv, GeneratorInv, ContentInv, NEW call \in wire, TakeSubmission(call)
    PROVE  Acknowledged(call)
<1> DEFINE run == call.run
           o == output[run]
<1>0. TypeOK /\ run \in Runs /\ o \in Outputs /\ o # None
  BY OutputsAssumption DEF VerdictInv, OwnershipInv, GeneratorInv, Call, TakeSubmission
<1>1. /\ call.stage = "delivering" /\ o.status = "generated" /\ o.status \notin ReportOnly
      /\ UNCHANGED <<at, output>>
  BY DEF TakeSubmission, TestingAnswers, ReportOnly
<1>2. CASE IngestSubmission([run |-> run, body |-> o.body])
  <2>0. answers' = answers \cup {[call |-> call, outcome |-> "accepted"]}
    <3>1. ~ KnownRun(run)
      BY <1>2 DEF IngestSubmission
    <3> QED
      BY <3>1 DEF TakeSubmission, TestingAnswers
  <2>1. /\ writes = <<>> /\ UNCHANGED <<receipt, reports, attempts>>
        /\ CreateAttempt(<<>>, run, "generated", o.body)
    BY <1>2 DEF IngestSubmission, LoopIdle, CreateAttempt, files
  <2>2. o.body \in Bodies
    <3>1. [run |-> run, body |-> o.body] \in Submissions
      BY <1>0, <1>1, OutputsAssumption
    <3> QED
      BY <3>1, RequestsAssumption
  <2>3. <<>> \in Seq(Write) /\ Elements(<<>>) = {} /\ Due = {}
    BY <2>1, EmptySeq, ElementsShort DEF Due
  <2>4. PICK w \in Write :
           /\ Due' = {w, LatestFile(w.no, w.value)}
           /\ LatestFile(w.no, w.value).file = "latest"
           /\ w.file = "attempt" /\ w.value.run = run /\ IsOutput(w.value)
    <3>1. output[run] # None /\ output[run].status = "generated" /\ output[run].body = o.body
      BY <1>0, <1>1
    <3> DEFINE before == <<>>
    <3>2. /\ before \in Seq(Write) /\ Elements(before) = {}
          /\ CreateAttempt(before, run, "generated", o.body)
      BY <2>1, <2>3
    <3> HIDE DEF run, o, before
    <3> QED
      BY <1>0, <2>2, <3>1, <3>2, CreateContent
  <2> QED
    BY <1>0, <1>1, <2>0, <2>1, <2>3, <2>4 DEF Acknowledged
<1>3. CASE /\ KnownRun(run) /\ Repeated
           /\ TestingAnswers(call, IF Matches(AttemptOf(run), "generated", o.body)
                                   THEN "accepted" ELSE "refused")
  <2>1. writes = <<>> /\ UNCHANGED <<receipt, reports, attempts, writes>>
    BY <1>3 DEF Repeated, LoopIdle, vars, files
  <2>2. Due = {} /\ Due' = {}
    BY <2>1 DEF Due, Elements
  <2>3. AttemptOf(run) \in DOMAIN attempts /\ attempts[AttemptOf(run)].run = run
    BY <1>3 DEF KnownRun, AttemptOf
  <2>4. Matches(AttemptOf(run), "generated", o.body)
    BY <1>1, <2>3 DEF ContentInv, IsOutput, Matches
  <2>5. answers' = answers \cup {[call |-> call, outcome |-> "accepted"]}
    BY <1>3, <2>4 DEF TestingAnswers
  <2>6. OnFile(run)
    BY <1>1, <1>3 DEF OnFile
  <2> QED
    BY <1>0, <1>1, <2>1, <2>2, <2>5, <2>6 DEF Acknowledged
<1> QED
  BY <1>2, <1>3 DEF TakeSubmission

(* A failure report stores the report, may create the attempt, or repeats   *)
(* what is on file.                                                         *)
LEMMA TakeFailureTaken ==
    ASSUME VerdictInv, GeneratorInv, ContentInv, NEW call \in wire, TakeFailureReport(call)
    PROVE  Acknowledged(call)
<1> DEFINE run == call.run
           o == output[run]
           r == [run |-> run, status |-> o.status, body |-> o.body]
           store == IF reports[run] = None THEN <<ReportFile(r)>> ELSE <<>>
<1>0. TypeOK /\ run \in Runs /\ o \in Outputs /\ o # None
  BY OutputsAssumption DEF VerdictInv, OwnershipInv, GeneratorInv, Call, TakeFailureReport
<1>1. /\ call.stage = "delivering" /\ o.status # "generated" /\ UNCHANGED <<at, output>>
  BY DEF TakeFailureReport, TestingAnswers
<1>2. /\ r \in FailureReports /\ o.status \in FailureStatus /\ o.body \in Bodies
      /\ r.run = run /\ r.status = o.status /\ r.body = o.body
  <2>1. o.status # "generated" => r \in FailureReports
    BY <1>0, OutputsAssumption
  <2>2. r.run = run /\ r.status = o.status /\ r.body = o.body
    OBVIOUS
  <2> HIDE DEF r
  <2> QED
    BY <1>1, <2>1, <2>2, RequestsAssumption
<1>3. IsReported(r) /\ r # None
  BY <1>0, <1>2, NoneAssumption DEF IsReported
<1>4. reports[run] \in {None, r}
  <2>1. reports[run] \in FailureReports \cup {None}
    BY <1>0 DEF TypeOK
  <2>2. CASE reports[run] # None
    <3>1. /\ reports[run] = [run |-> reports[run].run, status |-> reports[run].status,
                             body |-> reports[run].body]
          /\ reports[run].run = run /\ IsReported(reports[run])
      BY <1>0, <2>1, <2>2, RequestsAssumption DEF ContentInv
    <3> QED
      BY <3>1 DEF IsReported
  <2> QED
    BY <2>2
<1>5. \/ o.status \in ReportOnly
      \/ o.status = "generation_failed" /\ o.status \notin ReportOnly
  BY <1>2 DEF FailureStatus, ReportOnly
<1>6. KnownRun(run) => Matches(AttemptOf(run), o.status, o.body)
  <2>1. KnownRun(run) => AttemptOf(run) \in DOMAIN attempts /\ attempts[AttemptOf(run)].run = run
    BY DEF KnownRun, AttemptOf
  <2> QED
    BY <2>1 DEF ContentInv, IsOutput, Matches
<1>7. /\ IngestGenerationFailure(r)
      /\ answers' = answers \cup {[call |-> call, outcome |-> "accepted"]}
  BY <1>4, <1>6 DEF TakeFailureReport, TestingAnswers
<1>8. /\ writes = <<>> /\ UNCHANGED <<receipt, reports, attempts>>
      /\ \/ /\ r.status = "generation_failed" /\ ~ KnownRun(run)
            /\ CreateAttempt(store, run, "generation_failed", r.body)
         \/ /\ r.status \in ReportOnly \/ KnownRun(run)
            /\ writes' = store
  BY <1>7 DEF IngestGenerationFailure, LoopIdle, CreateAttempt, files
<1>9. ReportFile(r).file = "report" /\ ReportFile(r).value = r /\ ReportFile(r) \in Write
  BY <1>2 DEF ReportFile, Write
<1>10. /\ store \in Seq(Write)
       /\ Elements(store) = IF reports[run] = None THEN {ReportFile(r)} ELSE {}
  <2>1. /\ Elements(<<ReportFile(r)>>) = {ReportFile(r)} /\ Elements(<<>>) = {}
        /\ <<>> \in Seq(Write)
    <3> HIDE DEF r
    <3> QED
      BY EmptySeq, ElementsShort
  <2>2. <<ReportFile(r)>> \in Seq(Write)
    <3> HIDE DEF r
    <3> QED
      BY <1>9
  <2> QED
    BY <2>1, <2>2
<1>11. Due = {}
  BY <1>8 DEF Due, Elements
<1> HIDE DEF store
<1>12. ASSUME r.status = "generation_failed", CreateAttempt(store, run, "generation_failed", r.body)
       PROVE  Acknowledged(call)
  <2>1. PICK w \in Write :
           /\ Due' = Elements(store) \cup {w, LatestFile(w.no, w.value)}
           /\ LatestFile(w.no, w.value).file = "latest"
           /\ w.file = "attempt" /\ w.value.run = run /\ IsOutput(w.value)
    BY <1>0, <1>2, <1>10, <1>12, CreateContent
  <2>2. \A v \in Elements(store) : v.file = "report" /\ IsReported(v.value)
    BY <1>3, <1>9, <1>10
  <2>3. \A v \in Due' : /\ v.file = "attempt" => IsOutput(v.value)
                        /\ v.file = "report" => IsReported(v.value)
    BY <2>1, <2>2
  <2>4. \E v \in Due' : /\ v.file = IF o.status \in ReportOnly THEN "report" ELSE "attempt"
                        /\ v.value.run = run
    <3>1. o.status \notin ReportOnly
      BY <1>2, <1>5, <1>12 DEF ReportOnly
    <3> QED
      BY <2>1, <3>1
  <2> QED
    BY <1>0, <1>1, <1>7, <1>8, <1>11, <2>3, <2>4 DEF Acknowledged
<1>13. ASSUME r.status \in ReportOnly \/ KnownRun(run), writes' = store
       PROVE  Acknowledged(call)
  <2>1. Due' = Elements(store)
    BY <1>13 DEF Due
  <2>2. \A v \in Due' : v.file = "report" /\ IsReported(v.value)
    BY <1>3, <1>9, <1>10, <2>1
  <2>3. OnFile(run) \/ \E v \in Due' : /\ v.file = IF o.status \in ReportOnly THEN "report" ELSE "attempt"
                                       /\ v.value.run = run
    BY <1>2, <1>5, <1>9, <1>10, <1>13, <2>1 DEF OnFile
  <2> QED
    BY <1>0, <1>1, <1>7, <1>8, <1>11, <2>2, <2>3 DEF Acknowledged
<1> QED
  BY <1>8, <1>12, <1>13


(* Where the generator's own steps and an arriving answer take a run. *)
Moves(run) ==
    \/ at'[run] = at[run] /\ output'[run] = output[run]
    \/ at'[run] \in {"refused", "lost"} /\ output'[run] = output[run]
    \/ at[run] = "unused" /\ at'[run] = "announcing" /\ output'[run] = output[run]
    \/ at[run] = "generating" /\ at'[run] = "delivering" /\ output'[run] # None
    \/ /\ Due = {} /\ output'[run] = output[run]
       /\ \E a \in answers : a.outcome = "accepted" /\ a.call.run = run /\ a.call.stage = at[run]
       /\ \/ at[run] = "announcing" /\ at'[run] = "generating"
          \/ at[run] = "delivering" /\ at'[run] = "delivered"

Moved ==
    /\ UNCHANGED vars /\ answers' \subseteq answers
    /\ \A run \in Runs : Moves(run)

(* An answer moves its run if the client still waits for it, after the      *)
(* writes it stands for.                                                    *)
LEMMA AnswerMoves ==
    ASSUME GeneratorInv, NEW a \in answers, AnswerArrives(a)
    PROVE  Moved
<1> DEFINE run == a.call.run
<1>1. run \in Runs /\ a.call.stage \in Delivering
  BY DEF GeneratorInv, Call
<1>2. UNCHANGED vars /\ answers' \subseteq answers /\ UNCHANGED output /\ writes = <<>>
  BY DEF AnswerArrives, AnswerReady, LoopIdle
<1>3. Due = {}
  BY <1>2 DEF Due, Elements
<1>4. CASE at[run] = a.call.stage /\ tries[run] = a.call.try
  <2>1. TakeOutcome(run, a.outcome)
    BY <1>4 DEF AnswerArrives
  <2>2. /\ \A r \in Runs \ {run} : at'[r] = at[r]
        /\ \/ at'[run] = at[run]
           \/ at'[run] \in {"refused", "lost"}
           \/ /\ a.outcome = "accepted"
              /\ \/ at[run] = "announcing" /\ at'[run] = "generating"
                 \/ at[run] = "delivering" /\ at'[run] = "delivered"
    BY <1>1, <1>4, <2>1, OutcomeTaken
  <2>3. \A r \in Runs \ {run} : Moves(r)
    BY <1>2, <2>2 DEF Moves
  <2>4. Moves(run)
    BY <1>2, <1>3, <1>4, <2>2 DEF Moves
  <2> QED
    BY <1>2, <2>3, <2>4 DEF Moved
<1>5. CASE ~ (at[run] = a.call.stage /\ tries[run] = a.call.try)
  BY <1>2, <1>5 DEF AnswerArrives, Moved, Moves
<1> QED
  BY <1>4, <1>5

(* The generator's own steps move runs and leave the testing agent alone.   *)
LEMMA GeneratorMoves ==
    ASSUME GeneratorInv,
           \/ \E run \in Runs : AcceptQuestion(run) \/ Generator(run)
           \/ \E call \in wire : CallIsLost(call)
           \/ CgaCrash
           \/ UNCHANGED allVars
    PROVE  Moved
<1>0. at \in [Runs -> Stage] /\ output \in [Runs -> Outputs \cup {None}] /\ None \notin Outputs
  BY OutputsAssumption DEF GeneratorInv
<1>1. ASSUME NEW run \in Runs, AcceptQuestion(run)
      PROVE  Moved
  BY <1>0, <1>1 DEF AcceptQuestion, Send, Moved, Moves
<1>2. ASSUME NEW run \in Runs, GenerationEnds(run)
      PROVE  Moved
  <2>1. PICK o \in Outputs : output' = [output EXCEPT ![run] = o]
    BY <1>2 DEF GenerationEnds
  <2>2. /\ at[run] = "generating" /\ at' = [at EXCEPT ![run] = "delivering"]
        /\ UNCHANGED vars /\ UNCHANGED answers
    BY <1>2 DEF GenerationEnds, Send
  <2> QED
    BY <1>0, <2>1, <2>2 DEF Moved, Moves
<1>3. ASSUME NEW run \in Runs, GenerationRaises(run)
      PROVE  Moved
  BY <1>0, <1>3 DEF GenerationRaises, Moved, Moves
<1>4. ASSUME NEW run \in Runs, CallFails(run)
      PROVE  Moved
  <2>1. at[run] \in Delivering /\ TakeOutcome(run, "failed") /\ UNCHANGED <<vars, output, answers>>
    BY <1>4 DEF CallFails
  <2>2. /\ \A r \in Runs \ {run} : at'[r] = at[r]
        /\ at'[run] = at[run] \/ at'[run] \in {"refused", "lost"}
    BY <2>1, OutcomeTaken
  <2> QED
    BY <2>1, <2>2 DEF Moved, Moves
<1>5. ASSUME NEW call \in wire, CallIsLost(call)
      PROVE  Moved
  BY <1>5 DEF CallIsLost, Moved, Moves
<1>6. ASSUME CgaCrash
      PROVE  Moved
  <2>1. UNCHANGED <<vars, output, answers>>
    BY <1>6 DEF CgaCrash
  <2>2. \A run \in Runs : at'[run] = at[run] \/ at'[run] \in {"refused", "lost"}
    BY <1>6 DEF CgaCrash
  <2> QED
    BY <2>1, <2>2 DEF Moved, Moves
<1>7. ASSUME UNCHANGED allVars
      PROVE  Moved
  BY <1>7 DEF allVars, cga, Moved, Moves
<1> QED
  BY <1>1, <1>2, <1>3, <1>4, <1>5, <1>6, <1>7 DEF Generator

(* The runs a record, a report or an answer can be about. *)
LEMMA KnownRuns ==
    ASSUME VerdictInv, GeneratorInv
    PROVE  /\ \A n \in DOMAIN attempts : attempts[n].run \in Runs
           /\ \A w \in Due : w.file \in {"attempt", "report"} => w.value.run \in Runs
           /\ \A a \in answers : a.call.run \in Runs
<1>1. TypeOK /\ Due \subseteq Write
  BY ElementsType DEF VerdictInv, OwnershipInv, TypeOK, Due
<1>2. \A n \in DOMAIN attempts : attempts[n].run \in Runs
  BY <1>1, AttemptDomain DEF Record
<1>3. \A w \in Write : w.file \in {"attempt", "report"} => w.value.run \in Runs
  BY RequestsAssumption DEF Write, Record
<1> QED
  BY <1>1, <1>2, <1>3 DEF GeneratorInv, Call

(* A move keeps what is on file, and a run is delivered by an answer that   *)
(* acknowledges it.                                                         *)
LEMMA MovedFiling ==
    ASSUME VerdictInv, GeneratorInv, FilingInv, Moved, Remembers
    PROVE  FilingInv'
<1>1. /\ Due' = Due /\ UNCHANGED <<receipt, reports, attempts>> /\ answers' \subseteq answers
      /\ \A run \in Runs : Moves(run)
  BY DEF Moved, Due, Elements, vars, files
<1>2. \A run \in Runs : output[run] # None => output'[run] = output[run]
  BY <1>1 DEF Moves, FilingInv, OutputInv
<1>3. OutputInv'
  <2>1. \A run \in Runs :
          /\ at'[run] \in {"unused", "announcing", "generating"} => output'[run] = None
          /\ at'[run] \in {"delivering", "delivered"} => output'[run] # None
    BY <1>1 DEF Moves, FilingInv, OutputInv
  <2> QED
    BY <1>1, <1>2, <2>1, KnownRuns DEF FilingInv, OutputInv
<1>4. \A a : a.run \in Runs /\ IsOutput(a) => IsOutput(a)'
  BY <1>2 DEF IsOutput
<1>5. \A r : r.run \in Runs /\ IsReported(r) => IsReported(r)'
  BY <1>2 DEF IsReported
<1>6. ContentInv'
  <2>1. \A n \in DOMAIN attempts : IsOutput(attempts[n])'
    <3> SUFFICES ASSUME NEW n \in DOMAIN attempts
                 PROVE  IsOutput(attempts[n])'
      OBVIOUS
    <3> QED
      BY <1>1, <1>2, KnownRuns DEF IsOutput, FilingInv, ContentInv
  <2>2. \A w \in Due' : /\ w.file = "attempt" => IsOutput(w.value)'
                        /\ w.file = "report" => IsReported(w.value)'
    BY <1>1, <1>4, <1>5, KnownRuns DEF FilingInv, ContentInv
  <2>3. \A run \in Runs : reports[run] # None =>
           reports[run].run = run /\ IsReported(reports[run])'
    BY <1>1, <1>2 DEF IsReported, FilingInv, ContentInv
  <2> QED
    BY <1>1, <2>1, <2>2, <2>3 DEF FilingInv, ContentInv
<1>7. AckInv'
  <2>1. \A run \in Runs : output[run] # None /\ OnFile(run) => OnFile(run)'
    BY <1>1, <1>2 DEF OnFile, KnownRun
  <2>2. \A run \in Runs : output[run] # None /\ Coming(run) => Coming(run)'
    BY <1>1, <1>2 DEF Coming
  <2>3. ASSUME NEW run \in Runs, at'[run] = "delivered"
        PROVE  OnFile(run)'
    <3>1. CASE at[run] = "delivered"
      BY <2>1, <3>1 DEF FilingInv, OutputInv, AckInv
    <3>2. CASE at[run] # "delivered"
      <4>1. PICK a \in answers : a.call.run = run /\ a.call.stage = "delivering"
        BY <1>1, <2>3, <3>2 DEF Moves
      <4>2. Due = {} /\ output[run] # None
        BY <1>1, <2>3, <3>2, <4>1 DEF Moves, FilingInv, OutputInv
      <4>3. OnFile(run)
        BY <4>1, <4>2 DEF Coming, FilingInv, AckInv
      <4> QED
        BY <2>1, <4>2, <4>3
    <3> QED
      BY <3>1, <3>2
  <2>4. ASSUME NEW a \in answers', a.call.stage = "delivering"
        PROVE  OnFile(a.call.run)' \/ Coming(a.call.run)'
    <3>1. a \in answers /\ a.call.run \in Runs
      BY <1>1, KnownRuns
    <3> QED
      BY <2>1, <2>2, <2>4, <3>1 DEF FilingInv, OutputInv, AckInv
  <2> QED
    BY <2>3, <2>4 DEF AckInv
<1>8. ReceiptInv'
  <2>1. ASSUME NEW run \in Runs,
               at'[run] \in {"generating", "delivering", "delivered"} \/ output'[run] # None
        PROVE  run \in announced
    <3>1. CASE at[run] \in {"generating", "delivering", "delivered"} \/ output[run] # None
      BY <3>1 DEF FilingInv, ReceiptInv
    <3>2. CASE at[run] \notin {"generating", "delivering", "delivered"} /\ output[run] = None
      <4>1. Due = {} /\ \E a \in answers : a.call.run = run /\ a.call.stage = "announcing"
        BY <1>1, <2>1, <3>2 DEF Moves
      <4> QED
        BY <4>1 DEF FilingInv, ReceiptInv
    <3> QED
      BY <3>1, <3>2
  <2>2. ASSUME NEW a \in answers', a.call.stage = "announcing"
        PROVE  a.call.run \in announced \/ \E w \in Due' : w.file = "receipt" /\ w.value.run = a.call.run
    BY <1>1, <2>2 DEF FilingInv, ReceiptInv
  <2> QED
    BY <2>1, <2>2 DEF ReceiptInv, Remembers
<1> QED
  BY <1>3, <1>6, <1>7, <1>8 DEF FilingInv


(* A delivery that is taken keeps its promise with the writes it starts.    *)
LEMMA TakenFiling ==
    ASSUME FilingInv, NEW call, Acknowledged(call), Remembers
    PROVE  FilingInv'
<1>1. /\ UNCHANGED <<at, output, receipt, reports, attempts>> /\ Due = {}
      /\ answers' = answers \cup {[call |-> call, outcome |-> "accepted"]}
  BY DEF Acknowledged
<1>2. OutputInv'
  BY <1>1 DEF FilingInv, OutputInv, Acknowledged
<1>3. ContentInv'
  <2>1. /\ \A n \in DOMAIN attempts : IsOutput(attempts[n])'
        /\ \A run \in Runs : reports[run] # None =>
              reports[run].run = run /\ IsReported(reports[run])'
    BY <1>1 DEF IsOutput, IsReported, FilingInv, ContentInv
  <2>2. \A w \in Due' : /\ w.file = "attempt" => IsOutput(w.value)'
                        /\ w.file = "report" => IsReported(w.value)'
    BY <1>1 DEF IsOutput, IsReported, Acknowledged
  <2> QED
    BY <1>1, <2>1, <2>2 DEF FilingInv, ContentInv
<1>4. AckInv'
  <2>1. \A run : OnFile(run)' = OnFile(run)
    BY <1>1 DEF OnFile, KnownRun
  <2>2. ASSUME NEW a \in answers', a.call.stage = "delivering"
        PROVE  OnFile(a.call.run)' \/ Coming(a.call.run)'
    <3>1. CASE a \in answers
      BY <1>1, <2>1, <2>2, <3>1 DEF FilingInv, AckInv, Coming
    <3>2. CASE a.call = call
      <4>1. CASE OnFile(call.run)
        BY <2>1, <3>2, <4>1
      <4>2. CASE ~ OnFile(call.run)
        <5>1. PICK w \in Due' :
                 /\ w.file = IF output[call.run].status \in ReportOnly THEN "report" ELSE "attempt"
                 /\ w.value.run = call.run
          BY <2>2, <3>2, <4>2 DEF Acknowledged
        <5> QED
          BY <1>1, <3>2, <5>1 DEF Coming
      <4> QED
        BY <4>1, <4>2
    <3> QED
      BY <1>1, <3>1, <3>2
  <2> QED
    BY <1>1, <2>1, <2>2 DEF FilingInv, AckInv
<1>5. ReceiptInv'
  <2>1. ASSUME NEW a \in answers', a.call.stage = "announcing"
        PROVE  a.call.run \in announced \/ \E w \in Due' : w.file = "receipt" /\ w.value.run = a.call.run
    <3>1. CASE a \in answers
      BY <1>1, <2>1, <3>1 DEF FilingInv, ReceiptInv
    <3>2. CASE a.call = call
      BY <2>1, <3>2 DEF Acknowledged
    <3> QED
      BY <1>1, <3>1, <3>2
  <2> QED
    BY <1>1, <2>1 DEF FilingInv, ReceiptInv, Remembers
<1> QED
  BY <1>2, <1>3, <1>4, <1>5 DEF FilingInv

(* A write that is performed puts on file what was announced. *)
LEMMA WriteFiling ==
    ASSUME VerdictInv, GeneratorInv, FilingInv, WriteFile, UNCHANGED <<at, output, answers>>, Remembers
    PROVE  FilingInv'
<1>1. /\ \A a : IsOutput(a)' = IsOutput(a)
      /\ \A r : IsReported(r)' = IsReported(r)
  BY DEF IsOutput, IsReported
<1>2. OutputInv'
  BY DEF FilingInv, OutputInv
<1>3. ContentInv'
  <2>1. \A n \in DOMAIN attempts' : IsOutput(attempts[n])'
    <3> SUFFICES ASSUME NEW n \in DOMAIN attempts'
                 PROVE  IsOutput(attempts[n])'
      OBVIOUS
    <3>1. IsOutput(attempts'[n])
      BY WriteFiles DEF FilingInv, ContentInv
    <3> QED
      BY <3>1 DEF IsOutput
  <2>2. \A w \in Due' : /\ w.file = "attempt" => IsOutput(w.value)'
                        /\ w.file = "report" => IsReported(w.value)'
    BY <1>1, WriteFiles DEF FilingInv, ContentInv
  <2>3. ASSUME NEW run \in Runs, reports'[run] # None
        PROVE  reports'[run].run = run /\ IsReported(reports[run])'
    <3>1. reports'[run].run = run /\ IsReported(reports'[run])
      BY <2>3, WriteFiles DEF FilingInv, ContentInv
    <3> QED
      BY <3>1 DEF IsReported
  <2> QED
    BY <2>1, <2>2, <2>3 DEF FilingInv, ContentInv
<1>4. AckInv'
  <2>1. \A run \in Runs : OnFile(run) => OnFile(run)'
    <3> SUFFICES ASSUME NEW run \in Runs, OnFile(run)
                 PROVE  OnFile(run)'
      OBVIOUS
    <3>1. /\ KnownRun(run) => KnownRun(run)'
          /\ reports'[run] = reports[run] \/ reports'[run] # None
      BY WriteFiles
    <3> QED
      BY <3>1 DEF OnFile
  <2>2. \A run \in Runs : Coming(run) => OnFile(run)' \/ Coming(run)'
    <3> SUFFICES ASSUME NEW run \in Runs, Coming(run)
                 PROVE  OnFile(run)' \/ Coming(run)'
      OBVIOUS
    <3>1. PICK w \in Due :
             /\ w.file = IF output[run].status \in ReportOnly THEN "report" ELSE "attempt"
             /\ w.value.run = run
      BY DEF Coming
    <3>2. CASE w \in Due'
      BY <3>1, <3>2 DEF Coming
    <3>3. CASE w \notin Due'
      <4>1. /\ w.file = "attempt" => KnownRun(w.value.run)'
            /\ w.file = "report" => reports'[w.value.run] # None
        BY <3>3, WriteFiles
      <4> QED
        BY <3>1, <4>1 DEF OnFile, KnownRun
    <3> QED
      BY <3>2, <3>3
  <2> QED
    BY <2>1, <2>2, KnownRuns DEF FilingInv, AckInv
<1>5. ReceiptInv'
  <2>1. ASSUME NEW a \in answers, a.call.stage = "announcing"
        PROVE  a.call.run \in announced' \/ \E w \in Due' : w.file = "receipt" /\ w.value.run = a.call.run
    <3>1. CASE a.call.run \in announced
      BY <3>1 DEF Remembers
    <3>2. ASSUME NEW w \in Due, w.file = "receipt", w.value.run = a.call.run
          PROVE  a.call.run \in announced' \/ w \in Due'
      <4>1. w \notin Due' => receipt' # None /\ receipt' = w.value
        BY <3>2, WriteFiles
      <4> QED
        BY <3>2, <4>1 DEF Remembers
    <3> QED
      BY <2>1, <3>1, <3>2 DEF FilingInv, ReceiptInv
  <2> QED
    BY <2>1 DEF FilingInv, ReceiptInv, Remembers
<1> QED
  BY <1>2, <1>3, <1>4, <1>5 DEF FilingInv

(* A section of the testing agent that no delivery starts rewrites attempts *)
(* with the outcome they have, and comes when no answer waits for a write.  *)
LEMMA OwnFiling ==
    ASSUME VerdictInv, GeneratorInv, FilingInv, TestingStep, Remembers
    PROVE  FilingInv'
<1>1. CASE WriteFile /\ UNCHANGED answers
  BY <1>1, OwnSteps, WriteFiling
<1>2. ASSUME /\ UNCHANGED <<receipt, reports, attempts>>
             /\ \A w \in Due' :
                   \/ w \in Due
                   \/ /\ w.file \notin {"report", "receipt"}
                      /\ w.file = "attempt" => \E m \in DOMAIN attempts : Same(w.value, attempts[m])
             /\ answers' = {} \/ (answers' = answers /\ (Due = {} \/ Due' = Due)),
             UNCHANGED <<at, output>>
      PROVE  FilingInv'
  <2>1. OutputInv'
    BY <1>2 DEF FilingInv, OutputInv
  <2>2. ContentInv'
    <3>1. /\ \A a : IsOutput(a)' = IsOutput(a)
          /\ \A r : IsReported(r)' = IsReported(r)
      BY <1>2 DEF IsOutput, IsReported
    <3>2. \A n \in DOMAIN attempts : IsOutput(attempts[n])'
      BY <1>2 DEF IsOutput, FilingInv, ContentInv
    <3>3. \A run \in Runs : reports[run] # None =>
             reports[run].run = run /\ IsReported(reports[run])'
      BY <1>2 DEF IsReported, FilingInv, ContentInv
    <3>4. \A w \in Due' : w.file = "attempt" => IsOutput(w.value)
      BY <1>2 DEF FilingInv, ContentInv, IsOutput, Same
    <3>5. \A w \in Due' : w.file = "report" => IsReported(w.value)
      BY <1>2 DEF FilingInv, ContentInv
    <3> QED
      BY <1>2, <3>1, <3>2, <3>3, <3>4, <3>5 DEF FilingInv, ContentInv
  <2>3. AckInv'
    <3>1. \A run : OnFile(run)' = OnFile(run)
      BY <1>2 DEF OnFile, KnownRun
    <3>2. \A run : Due' = Due \/ Due = {} => (Coming(run) => Coming(run)')
      BY <1>2 DEF Coming
    <3> QED
      BY <1>2, <3>1, <3>2 DEF FilingInv, AckInv
  <2>4. ReceiptInv'
    BY <1>2 DEF FilingInv, ReceiptInv, Remembers
  <2> QED
    BY <2>1, <2>2, <2>3, <2>4 DEF FilingInv
<1> QED
  BY <1>1, <1>2, OwnSteps

(* Nothing is on file and nothing acknowledged at first. *)
LEMMA FilingInit == WInit => FilingInv
<1> SUFFICES ASSUME WInit
             PROVE  FilingInv
  OBVIOUS
<1>1. /\ \A run \in Runs : at[run] = "unused" /\ output[run] = None /\ reports[run] = None
      /\ answers = {} /\ writes = <<>> /\ DOMAIN attempts = {} /\ receipt = None
  BY DEF WInit, Init
<1>2. Due = {}
  BY <1>1 DEF Due, Elements
<1> QED
  BY <1>1, <1>2 DEF FilingInv, OutputInv, ContentInv, AckInv, ReceiptInv

(* Every step of the workflow keeps what is on file sound. *)
LEMMA FilingStep == VerdictInv /\ GeneratorInv /\ FilingInv /\ [WNext]_allVars => FilingInv'
<1> SUFFICES ASSUME VerdictInv, GeneratorInv, FilingInv, [WNext]_allVars
             PROVE  FilingInv'
  OBVIOUS
<1>0. Remembers
  <2>1. CASE Noted
    BY <2>1 DEF Noted, Remembers
  <2>2. CASE UNCHANGED allVars
    BY <2>2 DEF allVars, vars, files, Remembers, FilingInv, ReceiptInv
  <2> QED
    BY <2>1, <2>2 DEF WNext
<1>1. ASSUME NEW call \in wire, TakeReceipt(call) \/ TakeSubmission(call) \/ TakeFailureReport(call)
      PROVE  FilingInv'
  BY <1>0, <1>1, TakeReceiptTaken, TakeSubmissionTaken, TakeFailureTaken, TakenFiling DEF FilingInv
<1>2. ASSUME NEW a \in answers, AnswerArrives(a)
      PROVE  FilingInv'
  BY <1>0, <1>2, AnswerMoves, MovedFiling
<1>3. ASSUME TestingStep
      PROVE  FilingInv'
  BY <1>0, <1>3, OwnFiling
<1>4. ASSUME \/ \E run \in Runs : AcceptQuestion(run) \/ Generator(run)
             \/ \E call \in wire : CallIsLost(call)
             \/ CgaCrash
             \/ UNCHANGED allVars
      PROVE  FilingInv'
  BY <1>0, <1>4, GeneratorMoves, MovedFiling
<1> QED
  BY <1>1, <1>2, <1>3, <1>4 DEF WNext, WStep

(* What the testing agent holds and has acknowledged is sound in every      *)
(* behaviour of the workflow.                                               *)
THEOREM FilingSound == WSpec => [](VerdictInv /\ GeneratorInv /\ FilingInv)
<1>1. WSpec => []VerdictInv
  BY WorkflowImplementsTestingAgent, VerdictSound, PTL
<1>2. WSpec => []GeneratorInv
  BY GeneratorInit, GeneratorStep, PTL DEF WSpec
<1> QED
  BY <1>1, <1>2, FilingInit, FilingStep, PTL DEF WSpec

(* An acknowledged outcome is on file as it was sent, for every number of   *)
(* runs, retries, lost or late calls and crashes of either process.         *)
THEOREM DeliveredFiled == WSpec => []DeliveredIsFiled
<1>1. VerdictInv /\ GeneratorInv /\ FilingInv => DeliveredIsFiled
  <2> SUFFICES ASSUME VerdictInv, GeneratorInv, FilingInv, NEW run \in Runs, at[run] = "delivered"
               PROVE  IF output[run].status \in ReportOnly
                      THEN reports[run] = [run |-> run, status |-> output[run].status,
                                           body |-> output[run].body]
                      ELSE \E n \in DOMAIN attempts :
                              attempts[n].run = run
                              /\ Matches(n, output[run].status, output[run].body)
    BY DEF DeliveredIsFiled
  <2>1. OnFile(run)
    BY DEF FilingInv, AckInv
  <2>2. CASE output[run].status \in ReportOnly
    <3>1. /\ reports[run] # None /\ reports[run].run = run
          /\ reports[run].status = output[run].status /\ reports[run].body = output[run].body
      BY <2>1, <2>2 DEF OnFile, IsReported, FilingInv, ContentInv
    <3>2. reports[run] \in FailureReports
      BY <3>1 DEF VerdictInv, OwnershipInv, TypeOK
    <3>3. reports[run] = [run |-> reports[run].run, status |-> reports[run].status,
                          body |-> reports[run].body]
      BY <3>2, RequestsAssumption
    <3> QED
      BY <2>2, <3>1, <3>3
  <2>3. CASE output[run].status \notin ReportOnly
    <3>1. PICK n \in DOMAIN attempts : attempts[n].run = run
      BY <2>1, <2>3 DEF OnFile, KnownRun
    <3> QED
      BY <2>3, <3>1 DEF Matches, IsOutput, FilingInv, ContentInv
  <2> QED
    BY <2>2, <2>3
<1> QED
  BY <1>1, FilingSound, PTL

(* No repeated delivery is refused as a conflict. *)
THEOREM RepetitionAccepted == WSpec => []RepetitionIsNoConflict
<1>1. FilingInv => RepetitionIsNoConflict
  BY DEF FilingInv, ContentInv, IsOutput, RepetitionIsNoConflict, Matches
<1> QED
  BY <1>1, FilingSound, PTL

(* A run does nothing, and nothing of it is on file, before its own receipt *)
(* has been on file, whatever other runs of the question have announced.    *)
THEOREM ReceiptFirst == WSpec => []ReceiptComesFirst
<1>1. FilingInv => ReceiptComesFirst
  <2> SUFFICES ASSUME FilingInv, NEW run \in Runs,
                      \/ at[run] \in {"generating", "delivering", "delivered"}
                      \/ KnownRun(run) \/ reports[run] # None
               PROVE  run \in announced
    BY DEF ReceiptComesFirst
  <2>1. KnownRun(run) => output[run] # None
    BY DEF KnownRun, IsOutput, FilingInv, ContentInv
  <2>2. reports[run] # None => output[run] # None
    BY DEF IsReported, FilingInv, ContentInv
  <2> QED
    BY <2>1, <2>2 DEF FilingInv, ReceiptInv
<1> QED
  BY <1>1, FilingSound, PTL
=============================================================================
