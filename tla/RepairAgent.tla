---------------------------- MODULE RepairAgent -----------------------------
(***************************************************************************)
(* The repair agent (src/services/repair_agent/app): POST issue-tickets    *)
(* answers from the ticket's analysis file if there is one; otherwise it   *)
(* has the LLM diagnose the failure, stores the analysis, sends the repair *)
(* suggestion to the knowledge agent and stores the outcome.               *)
(*                                                                         *)
(* No lock spans these steps: requests for the same ticket interleave at   *)
(* every await.  A semaphore bounds the diagnoses in progress and is kept  *)
(* during their retries.  The knowledge agent lies behind a network that   *)
(* may lose an answer, or deliver a call after the client gave it up.      *)
(***************************************************************************)
EXTENDS Integers, Sequences, FiniteSets

CONSTANTS
    Tickets,         \* ticket_id values
    Requests,        \* HTTP requests to the service
    TicketOf,        \* the ticket each request is about
    MaxConcurrency,  \* places of the LLM semaphore
    MaxRetries,      \* llm_max_retries
    MaxAttempts,     \* knowledge_agent_repairs_apply_max_attempts
    MaxCrashes,      \* bound on the crashes of the process
    None             \* no analysis file, no reply

ASSUME TicketAssumption == TicketOf \in [Requests -> Tickets]
ASSUME BoundsAssumption ==
    /\ MaxConcurrency \in Nat \ {0} /\ MaxAttempts \in Nat \ {0}
    /\ MaxRetries \in Nat /\ MaxCrashes \in Nat

(* RepairStatus; an analysis record is known by its status. *)
Status == {"analysis_pending", "not_repairable", "apply_failed", "repair_apply_paused", "applied"}

(* Why a request ended without storing what became of its application. *)
Reason == {"died", "unread"}

ASSUME NoneAssumption == None \notin Status \cup {"error"} \cup Reason

VARIABLES
    analysis,  \* analyses/analysis-{ticket}.json
    at,        \* where each request's handler is suspended
    tries,     \* the number of the request's current LLM or apply call
    reply,     \* what its caller was told: a status or an error
    queue,     \* the requests waiting for the semaphore, first come first served
    calls,     \* apply calls the knowledge agent has not handled yet
    effects,   \* how often it has applied the ticket's suggestion
    unfinished, \* history: why a request's application has no outcome on file
    crashes    \* how often the process died, for the bound MaxCrashes

vars == <<analysis, at, tries, reply, queue, calls, effects, unfinished, crashes>>

Diagnosing == {"asking", "backoff"}
Applying == {"applying", "resting"}
Place == {"new", "queued", "done"} \cup Diagnosing \cup Applying

(* The requests that hold a place of the semaphore. *)
LeakedOnFailure == {r \in Requests : at[r] \in Diagnosing \/ (reply[r] = "error" /\ analysis[TicketOf[r]] = None)}
Holders == {r \in Requests : at[r] \in Diagnosing}

Init ==
    /\ analysis = [t \in Tickets |-> None]
    /\ at = [r \in Requests |-> "new"]
    /\ tries = [r \in Requests |-> 0]
    /\ reply = [r \in Requests |-> None]
    /\ queue = <<>>
    /\ calls = {}
    /\ effects = [t \in Tickets |-> 0]
    /\ unfinished = [r \in Requests |-> None]
    /\ crashes = 0

(* The handler of r ends: the caller gets a status, or an error (HTTP 500). *)
Finish(r, answer) ==
    /\ at' = [at EXCEPT ![r] = "done"]
    /\ reply' = [reply EXCEPT ![r] = answer]
    /\ UNCHANGED tries

SaveAnalysis(r, status) == analysis' = [analysis EXCEPT ![TicketOf[r]] = status]

-----------------------------------------------------------------------------
(* A ticket with an analysis, whatever its status, is answered from the file. *)
OnlySuccessIsKnown(t) == analysis[t] \in {"applied", "not_repairable"}
Known(t) == analysis[t] # None

Receive(r) ==
    /\ at[r] = "new"
    /\ \/ /\ Known(TicketOf[r])
          /\ Finish(r, analysis[TicketOf[r]])
          /\ UNCHANGED queue
       \/ /\ ~ Known(TicketOf[r])
          /\ at' = [at EXCEPT ![r] = "queued"]
          /\ queue' = Append(queue, r)
          /\ UNCHANGED <<tries, reply>>
    /\ UNCHANGED <<analysis, calls, effects, unfinished, crashes>>

(* The first request in the queue gets a place and calls the LLM. *)
AcquireSemaphore ==
    /\ queue # <<>> /\ Cardinality(Holders) < MaxConcurrency
    /\ queue' = Tail(queue)
    /\ at' = [at EXCEPT ![Head(queue)] = "asking"]
    /\ tries' = [tries EXCEPT ![Head(queue)] = 1]
    /\ UNCHANGED <<analysis, reply, calls, effects, unfinished, crashes>>

(* A call that fails with 429, 5xx, a timeout or in transport is repeated *)
(* after a pause in which the place in the semaphore is kept.             *)
RetryDiagnosis(r) ==
    /\ at[r] = "asking" /\ tries[r] <= MaxRetries
    /\ at' = [at EXCEPT ![r] = "backoff"]
    /\ UNCHANGED <<analysis, tries, reply, queue, calls, effects, unfinished, crashes>>

AskAgain(r) ==
    /\ at[r] = "backoff"
    /\ at' = [at EXCEPT ![r] = "asking"]
    /\ tries' = [tries EXCEPT ![r] = @ + 1]
    /\ UNCHANGED <<analysis, reply, queue, calls, effects, unfinished, crashes>>

(* Other errors, the last try's error and an unusable answer are raised. *)
DiagnosisFails(r) ==
    /\ at[r] = "asking"
    /\ Finish(r, "error")
    /\ UNCHANGED <<analysis, queue, calls, effects, unfinished, crashes>>

(* The failure is no knowledge gap. *)
NotRepairable(r) ==
    /\ at[r] = "asking"
    /\ SaveAnalysis(r, "not_repairable")
    /\ Finish(r, "not_repairable")
    /\ UNCHANGED <<queue, calls, effects, unfinished, crashes>>

(* It is one: the analysis is stored, then the suggestion is sent. *)
Repairable(r) ==
    /\ at[r] = "asking"
    /\ SaveAnalysis(r, "analysis_pending")
    /\ at' = [at EXCEPT ![r] = "applying"]
    /\ tries' = [tries EXCEPT ![r] = 1]
    /\ calls' = calls \cup {[request |-> r, try |-> 1]}
    /\ UNCHANGED <<reply, queue, effects, unfinished, crashes>>

-----------------------------------------------------------------------------
(* What becomes of an answer: a 200 applies, the body that says applying is  *)
(* disabled pauses, another 4xx raises, everything else - other codes,       *)
(* timeouts, transport errors - is repeated up to MaxAttempts times.  A 200  *)
(* is returned whatever its JSON: one that is neither an object nor null     *)
(* raises where it is looked at, outside of the try that stores a failure,   *)
(* and the file stays as it is.                                              *)
AnyAnswerApplies(r, answer) ==
    \/ /\ answer \in {"ok", "unclear"}
       /\ SaveAnalysis(r, "applied")
       /\ Finish(r, "applied")
       /\ UNCHANGED unfinished
    \/ /\ answer \notin {"ok", "unclear"}
       /\ SaveAnalysis(r, "apply_failed")
       /\ Finish(r, "error")
       /\ UNCHANGED unfinished

FailureKeepsPending(r, answer) ==
    /\ \/ /\ answer = "ok"
          /\ SaveAnalysis(r, "applied")
          /\ Finish(r, "applied")
       \/ /\ answer # "ok"
          /\ Finish(r, "error")
          /\ UNCHANGED analysis
    /\ UNCHANGED unfinished

Unread(r) == unfinished' = [unfinished EXCEPT ![r] = "unread"]

TakeAnswer(r, answer) ==
    \/ /\ answer = "ok"
       /\ SaveAnalysis(r, "applied")
       /\ Finish(r, "applied")
       /\ UNCHANGED unfinished
    \/ /\ answer = "unreadable"
       /\ Finish(r, "error")
       /\ Unread(r) /\ UNCHANGED analysis
    \/ /\ answer = "paused"
       /\ SaveAnalysis(r, "repair_apply_paused")
       /\ Finish(r, "repair_apply_paused")
       /\ UNCHANGED unfinished
    \/ /\ answer = "refused" \/ (answer = "unclear" /\ tries[r] >= MaxAttempts)
       /\ SaveAnalysis(r, "apply_failed")
       /\ Finish(r, "error")
       /\ UNCHANGED unfinished
    \/ /\ answer = "unclear" /\ tries[r] < MaxAttempts
       /\ at' = [at EXCEPT ![r] = "resting"]
       /\ UNCHANGED <<analysis, tries, reply, unfinished>>

(* The knowledge agent handles a call.  Its answer reaches the client only   *)
(* while that waits for this very call; it may be lost in any case.          *)
KnowledgeAgentHandles(call) ==
    LET r == call.request
    IN  /\ call \in calls
        /\ calls' = calls \ {call}
        /\ \E answer \in {"ok", "unreadable", "paused", "refused", "unclear"}, done \in BOOLEAN :
              /\ answer \in {"ok", "unreadable"} => done
              /\ answer \in {"paused", "refused"} => ~ done
              /\ effects' = IF done THEN [effects EXCEPT ![TicketOf[r]] = @ + 1] ELSE effects
              /\ \/ /\ at[r] = "applying" /\ tries[r] = call.try
                    /\ TakeAnswer(r, answer)
                 \/ UNCHANGED <<analysis, at, tries, reply, unfinished>>
        /\ UNCHANGED <<queue, crashes>>

(* The client gives a call up; the call may still be handled later. *)
CallTimesOut(r) ==
    /\ at[r] = "applying"
    /\ TakeAnswer(r, "unclear")
    /\ UNCHANGED <<queue, calls, effects, crashes>>

ApplyAgain(r) ==
    /\ at[r] = "resting"
    /\ at' = [at EXCEPT ![r] = "applying"]
    /\ tries' = [tries EXCEPT ![r] = @ + 1]
    /\ calls' = calls \cup {[request |-> r, try |-> tries[r] + 1]}
    /\ UNCHANGED <<analysis, reply, queue, effects, unfinished, crashes>>

(* The process dies and comes back: every handler ends with an error at its *)
(* caller, the files stay, and calls on the wire are still handled.         *)
Crash ==
    /\ crashes < MaxCrashes
    /\ crashes' = crashes + 1
    /\ at' = [r \in Requests |-> IF at[r] = "new" THEN "new" ELSE "done"]
    /\ reply' = [r \in Requests |-> IF at[r] \in {"new", "done"} THEN reply[r] ELSE "error"]
    /\ queue' = <<>>
    /\ unfinished' = [r \in Requests |-> IF at[r] \in Applying THEN "died" ELSE unfinished[r]]
    /\ UNCHANGED <<analysis, tries, calls, effects>>

-----------------------------------------------------------------------------
Handle(r) ==
    \/ Receive(r)
    \/ RetryDiagnosis(r)
    \/ AskAgain(r)
    \/ DiagnosisFails(r)
    \/ NotRepairable(r)
    \/ Repairable(r)
    \/ CallTimesOut(r)
    \/ ApplyAgain(r)

Next ==
    \/ \E r \in Requests : Handle(r)
    \/ AcquireSemaphore
    \/ \E call \in calls : KnowledgeAgentHandles(call)
    \/ Crash

Spec == Init /\ [][Next]_vars

(* Every LLM or apply call returns, fails or times out, every pause ends, and *)
(* a free place of the semaphore wakes the first in the queue.  The knowledge *)
(* agent owes nothing.                                                        *)
Fairness ==
    /\ WF_vars(AcquireSemaphore)
    /\ \A r \in Requests : WF_vars(at[r] # "new" /\ Handle(r))

FairSpec == Spec /\ Fairness

-----------------------------------------------------------------------------
(* Shapes, and the number of LLM and apply calls a request makes at most. *)
TypeOK ==
    /\ analysis \in [Tickets -> Status \cup {None}]
    /\ at \in [Requests -> Place]
    /\ tries \in [Requests -> Nat]
    /\ \A r \in Requests :
          /\ at[r] = "asking" => tries[r] \in 1 .. MaxRetries + 1
          /\ at[r] = "backoff" => tries[r] \in 1 .. MaxRetries
          /\ at[r] = "applying" => tries[r] \in 1 .. MaxAttempts
          /\ at[r] = "resting" => tries[r] \in 1 .. MaxAttempts - 1
    /\ reply \in [Requests -> Status \cup {"error", None}]
    /\ queue \in Seq(Requests)
    /\ calls \subseteq [request : Requests, try : Nat]
    /\ effects \in [Tickets -> Nat]
    /\ unfinished \in [Requests -> Reason \cup {None}]
    /\ crashes \in 0 .. MaxCrashes

(* An applied analysis, and a caller told "applied", is never a guess: the  *)
(* knowledge agent has applied the suggestion, whatever was lost, repeated, *)
(* overwritten by a concurrent request or cut off by a crash.               *)
AppliedIsTrue ==
    /\ \A t \in Tickets : analysis[t] = "applied" => effects[t] > 0
    /\ \A r \in Requests : reply[r] = "applied" => effects[TicketOf[r]] > 0

(* A pending analysis is never left over: a request is still applying it,   *)
(* or one was cut off by the death of the process, or one could not read    *)
(* the answer to a call that was applied.  No other failure, and no other   *)
(* request that overwrites an outcome, leaves it pending.                   *)
PendingHasACause ==
    \A t \in Tickets : analysis[t] = "analysis_pending" =>
        \E r \in Requests :
            /\ TicketOf[r] = t
            /\ \/ at[r] \in Applying
               \/ unfinished[r] = "died"
               \/ unfinished[r] = "unread" /\ effects[t] > 0

(* Every accepted request is answered, although it queues behind requests   *)
(* that keep their place while they wait to retry, and may be retried.      *)
EveryRequestIsAnswered ==
    \A r \in Requests : (at[r] # "new") ~> (at[r] = "done")

(* Work on ticket t: a request past the look at the file, or a call on its way. *)
Busy(t) ==
    \/ \E r \in Requests : TicketOf[r] = t /\ at[r] \notin {"new", "done"}
    \/ \E call \in calls : TicketOf[call.request] = t

(* An analysed ticket that nobody works on is settled for good: whatever    *)
(* its outcome, later requests and crashes start no second diagnosis and    *)
(* no second application, and the outcome they are told does not change.    *)
SettledTicketIsFinal ==
    [][\A t \in Tickets : (analysis[t] # None /\ ~ Busy(t)) =>
          ~ Busy(t)' /\ analysis'[t] = analysis[t] /\ effects'[t] = effects[t]]_vars
=============================================================================
