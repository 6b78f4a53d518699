------------------------------ MODULE Workflow ------------------------------
(***************************************************************************)
(* The way of a question through the system: the generator's service       *)
(* (src/services/cypher_generator_agent/app/api) announces a generation    *)
(* run to the testing agent, generates in a background task and delivers   *)
(* the outcome, retrying over a network that loses answers and delivers    *)
(* calls late.  The testing agent is TestingAgent with its files, tasks    *)
(* and crashes; the module composes the two for one question id, for which *)
(* the console may post the question several times, each time a new run.   *)
(***************************************************************************)
EXTENDS TestingAgent

CONSTANTS
    Outputs,      \* [status, body] outcomes of the pipeline
    MaxSubmits,   \* max_submit_attempts of TestingAgentClient
    MaxCgaCrashes \* bound on the crashes of the generator's process

ASSUME OutputsAssumption ==
    /\ \A o \in Outputs : o = [status |-> o.status, body |-> o.body]
    /\ \A run \in Runs, o \in Outputs :
          IF o.status = "generated" THEN [run |-> run, body |-> o.body] \in Submissions
          ELSE [run |-> run, status |-> o.status, body |-> o.body] \in FailureReports
    /\ \A run \in Runs : \E r \in Receipts : r.run = run
    /\ \A r, s \in Receipts : r.run = s.run => r = s
    /\ None \notin Outputs
    /\ MaxSubmits \in Nat \ {0} /\ MaxCgaCrashes \in Nat

VARIABLES
    at,         \* where each generation run stands in the generator
    tries,      \* the number of its current delivery
    output,     \* what its pipeline has produced
    wire,       \* deliveries the testing agent has not taken yet
    answers,    \* answers of the testing agent on their way
    cgaCrashes, \* how often the generator's process died
    announced   \* history: the runs whose receipt has been on file

cga == <<at, tries, output, wire, answers, cgaCrashes>>
allVars == <<vars, cga, announced>>

(* A run is refused if its receipt could not be delivered, lost if its task *)
(* ended without delivering an outcome: the task's exception goes nowhere.  *)
Delivering == {"announcing", "delivering"}

WInit ==
    /\ Init
    /\ at = [run \in Runs |-> "unused"]
    /\ tries = [run \in Runs |-> 0]
    /\ output = [run \in Runs |-> None]
    /\ wire = {}
    /\ answers = {}
    /\ cgaCrashes = 0
    /\ announced = {}

(* The first delivery of a stage. *)
Send(run, stage) ==
    /\ at' = [at EXCEPT ![run] = stage]
    /\ tries' = [tries EXCEPT ![run] = 1]
    /\ wire' = wire \cup {[run |-> run, stage |-> stage, try |-> 1]}

-----------------------------------------------------------------------------
(***************************************************************************)
(* The generator.                                                          *)
(***************************************************************************)

(* POST /qa/questions: a new run is announced before anything is generated. *)
AcceptQuestion(run) ==
    /\ at[run] = "unused"
    /\ Send(run, "announcing")
    /\ UNCHANGED <<vars, output, answers, cgaCrashes>>

(* The pipeline returns; the payload built from it is delivered. *)
GenerationEnds(run) ==
    /\ at[run] = "generating"
    /\ \E o \in Outputs : output' = [output EXCEPT ![run] = o]
    /\ Send(run, "delivering")
    /\ UNCHANGED <<vars, answers, cgaCrashes>>

(* The pipeline or the trace validation raises. *)
GenerationRaises(run) ==
    /\ at[run] = "generating"
    /\ at' = [at EXCEPT ![run] = "lost"]
    /\ UNCHANGED <<vars, tries, output, wire, answers, cgaCrashes>>

(* _submit_with_retries: an accepted delivery ends the stage, as does one   *)
(* refused with 409 or another code below 500; everything else - 5xx, a     *)
(* timeout, a broken answer - is tried again at once, MaxSubmits times.     *)
Leave(run, accepted) ==
    /\ at' = [at EXCEPT ![run] =
                 CASE @ = "announcing" -> IF accepted THEN "generating" ELSE "refused"
                   [] @ = "delivering" -> IF accepted THEN "delivered" ELSE "lost"]
    /\ UNCHANGED tries

Resend(run) ==
    /\ tries' = [tries EXCEPT ![run] = @ + 1]
    /\ wire' = wire \cup {[run |-> run, stage |-> at[run], try |-> tries[run] + 1]}
    /\ UNCHANGED at

RetriesForever(run, outcome) ==
    \/ /\ outcome # "failed"
       /\ Leave(run, outcome = "accepted") /\ UNCHANGED wire
    \/ /\ outcome = "failed"
       /\ wire' = wire \cup {[run |-> run, stage |-> at[run], try |-> tries[run]]}
       /\ UNCHANGED <<at, tries>>

TakeOutcome(run, outcome) ==
    \/ /\ outcome = "accepted"
       /\ Leave(run, TRUE) /\ UNCHANGED wire
    \/ /\ outcome = "refused" \/ (outcome = "failed" /\ tries[run] = MaxSubmits)
       /\ Leave(run, FALSE) /\ UNCHANGED wire
    \/ /\ outcome = "failed" /\ tries[run] < MaxSubmits
       /\ Resend(run)

(* The client gives a delivery up, which may still be taken later. *)
CallFails(run) ==
    /\ at[run] \in Delivering
    /\ TakeOutcome(run, "failed")
    /\ UNCHANGED <<vars, output, answers, cgaCrashes>>

(* A delivery never arrives. *)
CallIsLost(call) ==
    /\ call \in wire
    /\ wire' = wire \ {call}
    /\ UNCHANGED <<vars, at, tries, output, answers, cgaCrashes>>

(* The generator dies; its background tasks exist in memory only. *)
CgaCrash ==
    /\ cgaCrashes < MaxCgaCrashes
    /\ cgaCrashes' = cgaCrashes + 1
    /\ at' = [run \in Runs |->
                 CASE at[run] = "announcing" -> "refused"
                   [] at[run] \in {"generating", "delivering"} -> "lost"
                   [] OTHER -> at[run]]
    /\ UNCHANGED <<vars, tries, output, wire, answers>>

-----------------------------------------------------------------------------
(***************************************************************************)
(* The testing agent takes a delivery.                                     *)
(***************************************************************************)
TestingAnswers(call, answer) ==
    /\ call \in wire
    /\ wire' = wire \ {call}
    /\ answers' = answers \cup {[call |-> call, outcome |-> answer]}
    /\ UNCHANGED <<at, tries, output, cgaCrashes>>

RepetitionSchedules ==
    /\ LoopIdle /\ latest # None
    /\ tasks' = [tasks EXCEPT ![latest.no] = Scheduled(@)]
    /\ UNCHANGED <<files, writes, up, crashes>>

Repeated == LoopIdle /\ UNCHANGED vars

(* A receipt of the run on file is a repetition; there is one question. *)
AnyReceiptWillDo(call) ==
    /\ call.stage = "announcing"
    /\ \/ \E r \in Receipts : r.run = call.run /\ receipt = None /\ IngestQuestionReceived(r)
       \/ receipt # None /\ Repeated
    /\ TestingAnswers(call, "accepted")

TakeReceipt(call) ==
    /\ call.stage = "announcing"
    /\ \E r \in Receipts :
          /\ r.run = call.run
          /\ IngestQuestionReceived(r) \/ (receipt = r /\ Repeated)
    /\ TestingAnswers(call, "accepted")

(* _submission_matches and _generation_failure_submission_matches. *)
MatchesFresh(n, status, body) ==
    attempts[n] = NewRecord(attempts[n].run, status, body, attempts[n].state)

Matches(n, status, body) == attempts[n].generation_status = status /\ attempts[n].body = body

AttemptOf(run) == CHOOSE n \in DOMAIN attempts : attempts[n].run = run

TakeSubmission(call) ==
    LET o == output[call.run]
    IN  /\ call.stage = "delivering" /\ o.status = "generated"
        /\ \/ /\ IngestSubmission([run |-> call.run, body |-> o.body])
              /\ TestingAnswers(call, "accepted")
           \/ /\ KnownRun(call.run) /\ Repeated
              /\ TestingAnswers(call, IF Matches(AttemptOf(call.run), "generated", o.body)
                                      THEN "accepted" ELSE "refused")

TakeFailureReport(call) ==
    LET o == output[call.run]
        r == [run |-> call.run, status |-> o.status, body |-> o.body]
    IN  /\ call.stage = "delivering" /\ o.status # "generated"
        /\ \/ /\ IngestGenerationFailure(r)
              /\ TestingAnswers(call,
                     IF o.status \in ReportOnly \/ ~ KnownRun(call.run)
                        \/ Matches(AttemptOf(call.run), o.status, o.body)
                     THEN "accepted" ELSE "refused")
           \/ /\ reports[call.run] \notin {None, r} /\ Repeated
              /\ TestingAnswers(call, "refused")

(* An answer is sent after the section's writes.  It reaches a client that *)
(* waits for it, or is lost.                                               *)
AnswerFirst == up
AnswerReady == LoopIdle

AnswerArrives(a) ==
    LET run == a.call.run
    IN  /\ AnswerReady
        /\ a \in answers
        /\ answers' = answers \ {a}
        /\ IF at[run] = a.call.stage /\ tries[run] = a.call.try
           THEN TakeOutcome(run, a.outcome)
           ELSE UNCHANGED <<at, tries, wire>>
        /\ UNCHANGED <<vars, output, cgaCrashes>>

(* The testing agent's own steps, the golden of the QA agent, and polls. *)
TestingStep ==
    \/ (\E g \in Answers : IngestGolden(g)) /\ UNCHANGED cga
    \/ GetEvaluationStatus /\ UNCHANGED cga
    \/ EventLoop /\ UNCHANGED cga
    \/ Restart /\ UNCHANGED cga
    \/ Crash /\ answers' = {} /\ UNCHANGED <<at, tries, output, wire, cgaCrashes>>

-----------------------------------------------------------------------------
Generator(run) == GenerationEnds(run) \/ GenerationRaises(run) \/ CallFails(run)

WStep ==
    \/ \E run \in Runs : AcceptQuestion(run) \/ Generator(run)
    \/ \E call \in wire :
          TakeReceipt(call) \/ TakeSubmission(call) \/ TakeFailureReport(call) \/ CallIsLost(call)
    \/ \E a \in answers : AnswerArrives(a)
    \/ CgaCrash
    \/ TestingStep

(* One receipt is on file at a time, a later run's replaces it: announced *)
(* remembers the runs whose own receipt has been there.                   *)
Noted == announced' = announced \cup {r.run : r \in {receipt'} \ {None}}

WNext == WStep /\ Noted

WSpec == WInit /\ [][WNext]_allVars

(* A pipeline run ends and a call returns or times out.  Nothing makes a *)
(* delivery arrive, and a run's end owes nothing to the testing agent.   *)
WFairness == \A run \in Runs : WF_<<vars, cga>>(Generator(run))

WFairSpec == WSpec /\ WFairness

-----------------------------------------------------------------------------
(* An outcome that was acknowledged is on file as it was sent, wherever the *)
(* testing agent died, however often it was sent and whatever was lost.     *)
DeliveredIsFiled ==
    \A run \in Runs : at[run] = "delivered" =>
        LET o == output[run]
        IN IF o.status \in ReportOnly
           THEN reports[run] = [run |-> run, status |-> o.status, body |-> o.body]
           ELSE \E n \in DOMAIN attempts : attempts[n].run = run /\ Matches(n, o.status, o.body)

(* The testing agent holds of a run only what its pipeline produced, and    *)
(* never refuses a repeated delivery as a conflict: all deliveries of a run *)
(* carry the same payload, and the comparison ignores what evaluation and   *)
(* golden have changed on the attempt since.                                *)
RepetitionIsNoConflict ==
    /\ \A a \in answers : a.outcome = "accepted"
    /\ \A n \in DOMAIN attempts :
          /\ output[attempts[n].run] # None
          /\ Matches(n, output[attempts[n].run].status, output[attempts[n].run].body)

(* A run generates, delivers and is filed only after its own receipt was on *)
(* file, whatever other runs of the question have announced: no outcome     *)
(* overtakes the receipt of its run, so the console has seen it as pending. *)
ReceiptComesFirst ==
    \A run \in Runs :
        (at[run] \in {"generating", "delivering", "delivered"} \/ KnownRun(run) \/ reports[run] # None)
            => run \in announced

(* Every announced run comes to an end at the generator.                    *)
RunEnds ==
    \A run \in Runs : (at[run] = "announcing") ~> (at[run] \in {"refused", "delivered", "lost"})

(***************************************************************************)
(* docs/testing-agent-design.md, line 142, says that an outcome which could *)
(* not be delivered must not be lost: it stays in a local outbox and is     *)
(* delivered when the testing agent is back.  There is no outbox.           *)
(***************************************************************************)
OutcomeIsNotLost ==
    \A run \in Runs : output[run] # None => at[run] \in {"delivering", "delivered"}
=============================================================================
