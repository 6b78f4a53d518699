-------------------------- MODULE RepairAgentProofs -------------------------
(***************************************************************************)
(* Theorems about RepairAgent: its types with the bounds on the calls, that *)
(* "applied" is never a guess, that a settled ticket stays settled, and that *)
(* a pending analysis is being applied or was left so for a known cause.   *)
(***************************************************************************)
EXTENDS RepairAgent, TLAPS

USE DEF Diagnosing, Applying, Place, Status, Reason

(* What the apply client makes of an answer keeps the types and the bounds. *)
LEMMA TakeAnswerType ==
    ASSUME TypeOK, NEW r \in Requests, at[r] = "applying", NEW answer, TakeAnswer(r, answer)
    PROVE  /\ analysis' \in [Tickets -> Status \cup {None}]
           /\ at' \in [Requests -> Place]
           /\ tries' = tries
           /\ reply' \in [Requests -> Status \cup {"error", None}]
           /\ unfinished' \in [Requests -> Reason \cup {None}]
           /\ \A q \in Requests \ {r} : at'[q] = at[q]
           /\ \/ at'[r] = "done"
              \/ at'[r] = "resting" /\ tries[r] < MaxAttempts
<1>1. TicketOf[r] \in Tickets
  BY TicketAssumption
<1>2. CASE answer = "unclear" /\ tries[r] < MaxAttempts
  BY <1>2 DEF TypeOK, TakeAnswer, SaveAnalysis, Finish, Unread
<1>3. CASE ~ (answer = "unclear" /\ tries[r] < MaxAttempts)
  BY <1>1, <1>3 DEF TypeOK, TakeAnswer, SaveAnalysis, Finish, Unread
<1> QED
  BY <1>2, <1>3

(* Every step keeps the types and the bounds. *)
LEMMA TypeStep == TypeOK /\ [Next]_vars => TypeOK'
<1> SUFFICES ASSUME TypeOK, [Next]_vars
             PROVE  TypeOK'
  OBVIOUS
<1> USE TicketAssumption, BoundsAssumption
<1>1. ASSUME NEW r \in Requests, Receive(r)
      PROVE  TypeOK'
  <2>1. TicketOf[r] \in Tickets
    OBVIOUS
  <2>2. queue' \in Seq(Requests)
    <3>1. queue \in Seq(Requests)
      BY DEF TypeOK
    <3>2. queue' = queue \/ queue' = Append(queue, r)
      BY <1>1 DEF Receive
    <3> QED
      BY <3>1, <3>2
  <2> QED
    BY <1>1, <2>1, <2>2 DEF TypeOK, Receive, Known, Finish
<1>2. ASSUME AcquireSemaphore
      PROVE  TypeOK'
  <2> DEFINE r == Head(queue)
  <2>1. r \in Requests /\ Tail(queue) \in Seq(Requests)
    BY <1>2 DEF TypeOK, AcquireSemaphore
  <2>2. /\ queue' = Tail(queue)
        /\ at' = [at EXCEPT ![r] = "asking"]
        /\ tries' = [tries EXCEPT ![r] = 1]
        /\ UNCHANGED <<analysis, reply, calls, effects, unfinished, crashes>>
    BY <1>2 DEF AcquireSemaphore
  <2> HIDE DEF r
  <2> QED
    BY <2>1, <2>2 DEF TypeOK
<1>3. ASSUME NEW r \in Requests, RetryDiagnosis(r) \/ AskAgain(r)
      PROVE  TypeOK'
  <2>1. CASE RetryDiagnosis(r)
    BY <2>1 DEF TypeOK, RetryDiagnosis
  <2>2. CASE AskAgain(r)
    BY <2>2 DEF TypeOK, AskAgain
  <2> QED
    BY <1>3, <2>1, <2>2
<1>4. ASSUME NEW r \in Requests, DiagnosisFails(r) \/ NotRepairable(r)
      PROVE  TypeOK'
  BY <1>4 DEF TypeOK, DiagnosisFails, NotRepairable, Finish, SaveAnalysis
<1>5. ASSUME NEW r \in Requests, Repairable(r)
      PROVE  TypeOK'
  BY <1>5 DEF TypeOK, Repairable, SaveAnalysis
<1>6. ASSUME NEW r \in Requests, CallTimesOut(r)
      PROVE  TypeOK'
  <2>1. at[r] = "applying" /\ TakeAnswer(r, "unclear") /\ UNCHANGED <<queue, calls, effects, crashes>>
    BY <1>6 DEF CallTimesOut
  <2>2. /\ analysis' \in [Tickets -> Status \cup {None}]
        /\ at' \in [Requests -> Place]
        /\ tries' = tries
        /\ reply' \in [Requests -> Status \cup {"error", None}]
        /\ unfinished' \in [Requests -> Reason \cup {None}]
        /\ \A q \in Requests \ {r} : at'[q] = at[q]
        /\ at'[r] = "done" \/ (at'[r] = "resting" /\ tries[r] < MaxAttempts)
    BY <2>1, TakeAnswerType
  <2> QED
    BY <2>1, <2>2 DEF TypeOK
<1>7. ASSUME NEW r \in Requests, ApplyAgain(r)
      PROVE  TypeOK'
  BY <1>7 DEF TypeOK, ApplyAgain
<1>8. ASSUME NEW call \in calls, KnowledgeAgentHandles(call)
      PROVE  TypeOK'
  <2> DEFINE r == call.request
  <2>1. r \in Requests
    BY DEF TypeOK
  <2>2. PICK answer \in {"ok", "unreadable", "paused", "refused", "unclear"}, done \in BOOLEAN :
           /\ effects' = IF done THEN [effects EXCEPT ![TicketOf[r]] = @ + 1] ELSE effects
           /\ \/ /\ at[r] = "applying" /\ tries[r] = call.try
                 /\ TakeAnswer(r, answer)
              \/ UNCHANGED <<analysis, at, tries, reply, unfinished>>
    BY <1>8 DEF KnowledgeAgentHandles
  <2>3. effects' \in [Tickets -> Nat]
    BY <2>1, <2>2 DEF TypeOK
  <2>4. calls' \subseteq [request : Requests, try : Nat] /\ UNCHANGED <<queue, crashes>>
    BY <1>8 DEF TypeOK, KnowledgeAgentHandles
  <2>5. CASE UNCHANGED <<analysis, at, tries, reply, unfinished>>
    BY <2>3, <2>4, <2>5 DEF TypeOK
  <2>6. CASE at[r] = "applying" /\ TakeAnswer(r, answer)
    <3>1. /\ analysis' \in [Tickets -> Status \cup {None}]
          /\ at' \in [Requests -> Place]
          /\ tries' = tries
          /\ reply' \in [Requests -> Status \cup {"error", None}]
          /\ unfinished' \in [Requests -> Reason \cup {None}]
          /\ \A q \in Requests \ {r} : at'[q] = at[q]
          /\ at'[r] = "done" \/ (at'[r] = "resting" /\ tries[r] < MaxAttempts)
      BY <2>1, <2>6, TakeAnswerType
    <3> QED
      BY <2>1, <2>3, <2>4, <2>6, <3>1 DEF TypeOK
  <2> QED
    BY <2>2, <2>5, <2>6
<1>9. ASSUME Crash
      PROVE  TypeOK'
  BY <1>9 DEF TypeOK, Crash
<1>10. ASSUME UNCHANGED vars
       PROVE  TypeOK'
  BY <1>10 DEF TypeOK, vars
<1> QED
  BY <1>1, <1>2, <1>3, <1>4, <1>5, <1>6, <1>7, <1>8, <1>9, <1>10 DEF Next, Handle

(* Files, handlers and calls keep their shape, and no request makes more    *)
(* LLM or apply calls than the configuration allows (clients.py, diagnose   *)
(* and apply).                                                              *)
THEOREM TypeCorrect == Spec => []TypeOK
<1>1. Init => TypeOK
  BY BoundsAssumption DEF Init, TypeOK
<1> QED
  BY <1>1, TypeStep, PTL DEF Spec

-----------------------------------------------------------------------------
(* The knowledge agent never takes an application back. *)
LEMMA EffectsGrow ==
    ASSUME TypeOK, [Next]_vars, NEW t \in Tickets
    PROVE  effects'[t] \in Nat /\ effects'[t] >= effects[t]
<1>1. CASE UNCHANGED effects
  BY <1>1 DEF TypeOK
<1>2. ASSUME NEW call \in calls, KnowledgeAgentHandles(call)
      PROVE  effects'[t] \in Nat /\ effects'[t] >= effects[t]
  <2>1. effects' = effects \/ effects' = [effects EXCEPT ![TicketOf[call.request]] = @ + 1]
    BY <1>2 DEF KnowledgeAgentHandles
  <2> QED
    BY <2>1 DEF TypeOK
<1> QED
  BY <1>1, <1>2 DEF Next, Handle, Receive, AcquireSemaphore, RetryDiagnosis, AskAgain,
     DiagnosisFails, NotRepairable, Repairable, CallTimesOut, ApplyAgain, Crash, vars

(* A file or a reply that becomes "applied" copies one that was, or comes *)
(* with the knowledge agent's own answer to a call it applied.            *)
LEMMA AppliedHasCause ==
    ASSUME TypeOK, [Next]_vars
    PROVE  /\ \A t \in Tickets : analysis'[t] = "applied" => analysis[t] = "applied" \/ effects'[t] > 0
           /\ \A r \in Requests : reply'[r] = "applied" =>
                 reply[r] = "applied" \/ analysis[TicketOf[r]] = "applied" \/ effects'[TicketOf[r]] > 0
<1> DEFINE Cause ==
       /\ \A t \in Tickets : analysis'[t] = "applied" => analysis[t] = "applied" \/ effects'[t] > 0
       /\ \A r \in Requests : reply'[r] = "applied" =>
             reply[r] = "applied" \/ analysis[TicketOf[r]] = "applied" \/ effects'[TicketOf[r]] > 0
<1> USE TicketAssumption
<1>1. ASSUME NEW r \in Requests, Receive(r)
      PROVE  Cause
  BY <1>1 DEF TypeOK, Receive, Finish
<1>2. ASSUME NEW r \in Requests, DiagnosisFails(r) \/ NotRepairable(r) \/ Repairable(r)
      PROVE  Cause
  BY <1>2 DEF TypeOK, DiagnosisFails, NotRepairable, Repairable, Finish, SaveAnalysis
<1>3. ASSUME NEW r \in Requests, CallTimesOut(r)
      PROVE  Cause
  BY <1>3 DEF TypeOK, CallTimesOut, TakeAnswer, Finish, SaveAnalysis
<1>4. ASSUME NEW call \in calls, KnowledgeAgentHandles(call)
      PROVE  Cause
  <2> DEFINE r == call.request
  <2>1. r \in Requests
    BY DEF TypeOK
  <2>2. PICK answer \in {"ok", "unreadable", "paused", "refused", "unclear"}, done \in BOOLEAN :
           /\ answer = "ok" => done
           /\ effects' = IF done THEN [effects EXCEPT ![TicketOf[r]] = @ + 1] ELSE effects
           /\ TakeAnswer(r, answer) \/ UNCHANGED <<analysis, at, tries, reply, unfinished>>
    BY <1>4 DEF KnowledgeAgentHandles
  <2>3. CASE UNCHANGED <<analysis, at, tries, reply, unfinished>>
    BY <2>3
  <2>4. CASE TakeAnswer(r, answer) /\ answer = "ok"
    <3>1. effects'[TicketOf[r]] > 0
      BY <2>1, <2>2, <2>4 DEF TypeOK
    <3> QED
      BY <2>1, <2>4, <3>1 DEF TypeOK, TakeAnswer, Finish, SaveAnalysis
  <2>5. CASE TakeAnswer(r, answer) /\ answer # "ok"
    BY <2>1, <2>5 DEF TypeOK, TakeAnswer, Finish, SaveAnalysis
  <2> QED
    BY <2>2, <2>3, <2>4, <2>5
<1>5. ASSUME Crash
      PROVE  Cause
  BY <1>5 DEF TypeOK, Crash
<1>6. ASSUME UNCHANGED <<analysis, reply>>
      PROVE  Cause
  BY <1>6
<1> QED
  BY <1>1, <1>2, <1>3, <1>4, <1>5, <1>6 DEF Next, Handle, AcquireSemaphore, RetryDiagnosis,
     AskAgain, ApplyAgain, vars

(* An applied analysis or reply means that the knowledge agent has applied  *)
(* the suggestion, for any number of concurrent requests, lost answers,     *)
(* late calls and crashes (service.py, create_issue_ticket_response).       *)
THEOREM AppliedIsNoGuess == Spec => []AppliedIsTrue
<1>1. Init => AppliedIsTrue
  BY NoneAssumption DEF Init, AppliedIsTrue
<1>2. ASSUME TypeOK, AppliedIsTrue, [Next]_vars
      PROVE  AppliedIsTrue'
  <2>1. \A t \in Tickets : analysis[t] = "applied" => effects'[t] > 0
    BY <1>2, EffectsGrow DEF AppliedIsTrue, TypeOK
  <2>2. \A r \in Requests : reply[r] = "applied" => effects'[TicketOf[r]] > 0
    BY <1>2, EffectsGrow, TicketAssumption DEF AppliedIsTrue, TypeOK
  <2> QED
    BY <1>2, <2>1, <2>2, AppliedHasCause, TicketAssumption DEF AppliedIsTrue
<1> QED
  BY <1>1, <1>2, TypeCorrect, PTL DEF Spec

-----------------------------------------------------------------------------
(* The queue of the semaphore holds every queued request at most once, and *)
(* no other request.                                                       *)
QueueInv ==
    \A k \in 1 .. Len(queue) :
        /\ at[queue[k]] = "queued"
        /\ \A j \in 1 .. Len(queue) : queue[j] = queue[k] => j = k

(* Steps that neither queue a request nor take one from the queue. *)
LEMMA QueueKept ==
    ASSUME TypeOK, QueueInv, UNCHANGED queue,
           \A r \in Requests : at[r] = "queued" => at'[r] = "queued"
    PROVE  QueueInv'
  <1>1. \A k \in 1 .. Len(queue) : queue[k] \in Requests
    BY DEF TypeOK
  <1> QED
    BY <1>1 DEF QueueInv

LEMMA QueueStep == TypeOK /\ QueueInv /\ [Next]_vars => QueueInv'
<1> SUFFICES ASSUME TypeOK, QueueInv, [Next]_vars
             PROVE  QueueInv'
  OBVIOUS
<1>1. queue \in Seq(Requests) /\ at \in [Requests -> Place]
  BY DEF TypeOK
<1>2. ASSUME NEW r \in Requests, Receive(r)
      PROVE  QueueInv'
  <2>1. CASE UNCHANGED queue
    <3>1. \A q \in Requests : at[q] = "queued" => at'[q] = "queued"
      BY <1>1, <1>2 DEF Receive, Finish
    <3> QED
      BY <2>1, <3>1, QueueKept
  <2>2. CASE queue' = Append(queue, r) /\ at' = [at EXCEPT ![r] = "queued"] /\ at[r] = "new"
    <3>1. \A k \in 1 .. Len(queue) : queue[k] \in Requests /\ queue[k] # r
      BY <1>1, <2>2 DEF QueueInv
    <3>2. /\ Len(queue') = Len(queue) + 1
          /\ queue'[Len(queue) + 1] = r
          /\ \A k \in 1 .. Len(queue) : queue'[k] = queue[k]
      BY <1>1, <2>2
    <3>3. at'[r] = "queued" /\ \A k \in 1 .. Len(queue) : at'[queue[k]] = "queued"
      BY <1>1, <2>2, <3>1 DEF QueueInv
    <3>4. Len(queue) \in Nat
      BY <1>1
    <3> QED
      BY <3>1, <3>2, <3>3, <3>4 DEF QueueInv
  <2> QED
    BY <1>2, <2>1, <2>2 DEF Receive
<1>3. ASSUME AcquireSemaphore
      PROVE  QueueInv'
  <2>1. /\ queue # <<>> /\ queue' = Tail(queue)
        /\ at' = [at EXCEPT ![Head(queue)] = "asking"]
    BY <1>3 DEF AcquireSemaphore
  <2>2. /\ Len(queue) \in Nat \ {0} /\ Len(queue') = Len(queue) - 1
        /\ Head(queue) = queue[1]
        /\ \A k \in 1 .. Len(queue') : queue'[k] = queue[k + 1]
    BY <1>1, <2>1
  <2>3. \A k \in 1 .. Len(queue') : queue'[k] \in Requests /\ queue'[k] # Head(queue)
    BY <1>1, <2>2 DEF QueueInv
  <2>4. \A k \in 1 .. Len(queue') : at'[queue'[k]] = "queued"
    BY <1>1, <2>1, <2>2, <2>3 DEF QueueInv
  <2> QED
    BY <2>2, <2>4 DEF QueueInv
<1>4. ASSUME Crash
      PROVE  QueueInv'
  <2>1. queue' = <<>>
    BY <1>4 DEF Crash
  <2> QED
    BY <2>1 DEF QueueInv
<1>5. ASSUME NEW r \in Requests, CallTimesOut(r)
      PROVE  QueueInv'
  <2>1. UNCHANGED queue /\ \A q \in Requests : at[q] = "queued" => at'[q] = "queued"
    BY <1>1, <1>5 DEF CallTimesOut, TakeAnswer, Finish
  <2> QED
    BY <2>1, QueueKept
<1>6. ASSUME NEW call \in calls, KnowledgeAgentHandles(call)
      PROVE  QueueInv'
  <2> DEFINE r == call.request
  <2>1. UNCHANGED queue /\ (UNCHANGED at \/ (at[r] = "applying" /\ \E answer : TakeAnswer(r, answer)))
    BY <1>6 DEF KnowledgeAgentHandles
  <2>2. \A q \in Requests : at[q] = "queued" => at'[q] = "queued"
    BY <1>1, <2>1 DEF TakeAnswer, Finish
  <2> QED
    BY <2>1, <2>2, QueueKept
<1>7. ASSUME NEW r \in Requests,
             \/ RetryDiagnosis(r) \/ AskAgain(r) \/ DiagnosisFails(r)
             \/ NotRepairable(r) \/ Repairable(r) \/ ApplyAgain(r)
      PROVE  QueueInv'
  <2>1. UNCHANGED queue /\ \A q \in Requests : at[q] = "queued" => at'[q] = "queued"
    BY <1>1, <1>7 DEF RetryDiagnosis, AskAgain, DiagnosisFails, NotRepairable, Repairable,
       ApplyAgain, Finish
  <2> QED
    BY <2>1, QueueKept
<1>8. ASSUME UNCHANGED vars
      PROVE  QueueInv'
  BY <1>8 DEF QueueInv, vars
<1> QED
  BY <1>2, <1>3, <1>4, <1>5, <1>6, <1>7, <1>8 DEF Next, Handle

(* One step leaves a settled ticket as it is. *)
LEMMA SettledStep ==
    ASSUME TypeOK, QueueInv, [Next]_vars,
           NEW t \in Tickets, analysis[t] # None, ~ Busy(t)
    PROVE  ~ Busy(t)' /\ analysis'[t] = analysis[t] /\ effects'[t] = effects[t]
<1> DEFINE Kept == ~ Busy(t)' /\ analysis'[t] = analysis[t] /\ effects'[t] = effects[t]
<1> USE TicketAssumption
<1>1. ASSUME NEW r \in Requests, Receive(r)
      PROVE  Kept
  BY <1>1 DEF TypeOK, Receive, Known, Finish, Busy
<1>2. ASSUME AcquireSemaphore
      PROVE  Kept
  <2> DEFINE r == Head(queue)
  <2>1. r \in Requests /\ at[r] = "queued"
    BY <1>2 DEF TypeOK, QueueInv, AcquireSemaphore
  <2>2. at' = [at EXCEPT ![r] = "asking"] /\ UNCHANGED <<analysis, calls, effects>>
    BY <1>2 DEF AcquireSemaphore
  <2>3. TicketOf[r] # t
    BY <2>1 DEF Busy
  <2> HIDE DEF r
  <2> QED
    BY <2>1, <2>2, <2>3 DEF TypeOK, Busy
<1>3. ASSUME NEW r \in Requests, at[r] \notin {"new", "done"},
             /\ \A q \in Requests \ {r} : at'[q] = at[q]
             /\ \A u \in Tickets \ {TicketOf[r]} : analysis'[u] = analysis[u] /\ effects'[u] = effects[u]
             /\ \A call \in calls' : call \in calls \/ call.request = r
      PROVE  Kept
  <2>1. TicketOf[r] # t
    BY <1>3 DEF Busy
  <2> QED
    BY <1>3, <2>1 DEF Busy
<1>4. ASSUME NEW r \in Requests,
             \/ RetryDiagnosis(r) \/ AskAgain(r) \/ DiagnosisFails(r)
             \/ NotRepairable(r) \/ Repairable(r) \/ ApplyAgain(r) \/ CallTimesOut(r)
      PROVE  Kept
  <2>1. /\ at[r] \notin {"new", "done"}
        /\ \A q \in Requests \ {r} : at'[q] = at[q]
        /\ \A u \in Tickets \ {TicketOf[r]} : analysis'[u] = analysis[u]
        /\ UNCHANGED effects
    BY <1>4 DEF TypeOK, RetryDiagnosis, AskAgain, DiagnosisFails, NotRepairable, Repairable,
       ApplyAgain, CallTimesOut, TakeAnswer, Finish, SaveAnalysis
  <2>2. \A call \in calls' : call \in calls \/ call.request = r
    BY <1>4 DEF RetryDiagnosis, AskAgain, DiagnosisFails, NotRepairable, Repairable,
       ApplyAgain, CallTimesOut
  <2> QED
    BY <1>3, <2>1, <2>2
<1>5. ASSUME NEW call \in calls, KnowledgeAgentHandles(call)
      PROVE  Kept
  <2> DEFINE r == call.request
  <2>1. r \in Requests /\ TicketOf[r] # t
    BY DEF TypeOK, Busy
  <2>2. /\ calls' \subseteq calls
        /\ effects' = effects \/ effects' = [effects EXCEPT ![TicketOf[r]] = @ + 1]
        /\ UNCHANGED <<analysis, at>> \/ \E answer : TakeAnswer(r, answer)
    BY <1>5 DEF KnowledgeAgentHandles
  <2>3. effects'[t] = effects[t]
    BY <2>1, <2>2 DEF TypeOK
  <2>4. analysis'[t] = analysis[t] /\ \A q \in Requests \ {r} : at'[q] = at[q]
    BY <2>1, <2>2 DEF TypeOK, TakeAnswer, Finish, SaveAnalysis
  <2> QED
    BY <2>1, <2>2, <2>3, <2>4 DEF Busy
<1>6. ASSUME Crash
      PROVE  Kept
  BY <1>6 DEF TypeOK, Crash, Busy
<1>7. ASSUME UNCHANGED vars
      PROVE  Kept
  BY <1>7 DEF vars, Busy
<1> QED
  BY <1>1, <1>2, <1>4, <1>5, <1>6, <1>7 DEF Next, Handle

(* A ticket with an analysis on which nobody works any more is never        *)
(* diagnosed or applied again (service.py, the look at the existing file),  *)
(* whatever its status, and also after crashes.                             *)
THEOREM SettledForGood == Spec => SettledTicketIsFinal
<1>1. Init => QueueInv
  BY DEF Init, QueueInv
<1>2. Spec => []QueueInv
  BY <1>1, QueueStep, TypeCorrect, PTL DEF Spec
<1>3. TypeOK /\ QueueInv /\ [Next]_vars =>
         [\A t \in Tickets : (analysis[t] # None /\ ~ Busy(t)) =>
             ~ Busy(t)' /\ analysis'[t] = analysis[t] /\ effects'[t] = effects[t]]_vars
  BY SettledStep
<1> QED
  BY <1>2, <1>3, TypeCorrect, PTL DEF Spec, SettledTicketIsFinal

-----------------------------------------------------------------------------
(* Why request r leaves the analysis of its ticket pending, if it does. *)
Cause(r) ==
    \/ at[r] \in Applying
    \/ unfinished[r] = "died"
    \/ unfinished[r] = "unread" /\ effects[TicketOf[r]] > 0

(* A step changes the state of one request, and the analysis of its ticket   *)
(* only: a request that was a cause is still one, or the analysis is no      *)
(* longer pending.                                                          *)
LEMMA PendingKept ==
    ASSUME TypeOK, [Next]_vars, PendingHasACause, NEW r \in Requests,
           \A q \in Requests \ {r} : at'[q] = at[q] /\ unfinished'[q] = unfinished[q],
           \A t \in Tickets \ {TicketOf[r]} : analysis'[t] = analysis[t],
           \/ Cause(r)'
           \/ analysis'[TicketOf[r]] # "analysis_pending"
           \/ ~ Cause(r) /\ analysis'[TicketOf[r]] = analysis[TicketOf[r]]
    PROVE  PendingHasACause'
<1> SUFFICES ASSUME NEW t \in Tickets, analysis'[t] = "analysis_pending"
             PROVE  \E q \in Requests : TicketOf[q] = t /\ Cause(q)'
  BY DEF PendingHasACause, Cause
<1>1. CASE Cause(r)' /\ TicketOf[r] = t
  BY <1>1
<1>2. CASE ~ (Cause(r)' /\ TicketOf[r] = t)
  <2>1. analysis[t] = "analysis_pending" /\ (TicketOf[r] = t => ~ Cause(r))
    BY <1>2
  <2>2. PICK q \in Requests : TicketOf[q] = t /\ Cause(q)
    BY <2>1 DEF PendingHasACause, Cause
  <2>3. q # r
    BY <2>1, <2>2
  <2>4. effects'[t] >= effects[t] /\ effects[t] \in Nat /\ effects'[t] \in Nat
    BY EffectsGrow DEF TypeOK
  <2>5. at'[q] = at[q] /\ unfinished'[q] = unfinished[q]
    BY <2>3
  <2>6. Cause(q)'
    BY <2>2, <2>4, <2>5 DEF Cause
  <2> QED
    BY <2>2, <2>6
<1> QED
  BY <1>1, <1>2

(* What becomes of an answer is such a step, given that an answer which     *)
(* cannot be read comes from a call that was applied.                       *)
LEMMA AnswerKeepsPending ==
    ASSUME TypeOK, [Next]_vars, PendingHasACause, NEW r \in Requests,
           NEW answer \in {"ok", "unreadable", "paused", "refused", "unclear"}, TakeAnswer(r, answer),
           answer = "unreadable" => effects'[TicketOf[r]] > 0
    PROVE  PendingHasACause'
<1> USE TicketAssumption
<1>1. /\ \A q \in Requests \ {r} : at'[q] = at[q] /\ unfinished'[q] = unfinished[q]
      /\ \A t \in Tickets \ {TicketOf[r]} : analysis'[t] = analysis[t]
  BY DEF TypeOK, TakeAnswer, Finish, SaveAnalysis, Unread
<1>2. CASE answer = "unclear" /\ at'[r] = "resting"
  <2>1. Cause(r)'
    BY <1>2 DEF Cause
  <2> QED
    BY <1>1, <2>1, PendingKept
<1>3. CASE answer = "unreadable"
  <2>1. unfinished'[r] = "unread"
    BY <1>3 DEF TypeOK, TakeAnswer, Unread
  <2>2. Cause(r)'
    BY <1>3, <2>1 DEF Cause
  <2> QED
    BY <1>1, <2>2, PendingKept
<1>4. CASE answer # "unreadable" /\ ~ (answer = "unclear" /\ at'[r] = "resting")
  <2>1. analysis'[TicketOf[r]] # "analysis_pending"
    BY <1>4 DEF TypeOK, TakeAnswer, Finish, SaveAnalysis
  <2> QED
    BY <1>1, <2>1, PendingKept
<1> QED
  BY <1>2, <1>3, <1>4

(* Every step keeps it. *)
LEMMA PendingStep ==
    TypeOK /\ QueueInv /\ PendingHasACause /\ [Next]_vars => PendingHasACause'
<1> SUFFICES ASSUME TypeOK, QueueInv, PendingHasACause, [Next]_vars
             PROVE  PendingHasACause'
  OBVIOUS
<1> USE TicketAssumption
<1>1. ASSUME NEW r \in Requests,
             \/ Receive(r) \/ RetryDiagnosis(r) \/ AskAgain(r) \/ DiagnosisFails(r)
             \/ NotRepairable(r) \/ Repairable(r) \/ ApplyAgain(r)
      PROVE  PendingHasACause'
  <2>1. /\ UNCHANGED <<effects, unfinished>>
        /\ \A q \in Requests \ {r} : at'[q] = at[q]
        /\ \A t \in Tickets \ {TicketOf[r]} : analysis'[t] = analysis[t]
        /\ \/ at'[r] \in Applying
           \/ analysis'[TicketOf[r]] # "analysis_pending"
           \/ at[r] \notin Applying /\ analysis'[TicketOf[r]] = analysis[TicketOf[r]]
    BY <1>1 DEF TypeOK, Receive, RetryDiagnosis, AskAgain, DiagnosisFails, NotRepairable,
       Repairable, ApplyAgain, Finish, SaveAnalysis
  <2>2. \/ Cause(r)'
        \/ analysis'[TicketOf[r]] # "analysis_pending"
        \/ ~ Cause(r) /\ analysis'[TicketOf[r]] = analysis[TicketOf[r]]
    BY <2>1 DEF Cause
  <2> QED
    BY <2>1, <2>2, PendingKept
<1>2. ASSUME AcquireSemaphore
      PROVE  PendingHasACause'
  <2> DEFINE h == Head(queue)
  <2>1. h \in Requests /\ at[h] = "queued"
    BY <1>2 DEF TypeOK, QueueInv, AcquireSemaphore
  <2>2. at' = [at EXCEPT ![h] = "asking"] /\ UNCHANGED <<analysis, effects, unfinished>>
    BY <1>2 DEF AcquireSemaphore
  <2> HIDE DEF h
  <2>3. \A q \in Requests : at[q] \in Applying => at'[q] \in Applying
    BY <2>1, <2>2 DEF TypeOK
  <2> QED
    BY <2>2, <2>3 DEF PendingHasACause
<1>3. ASSUME NEW r \in Requests, CallTimesOut(r)
      PROVE  PendingHasACause'
  <2>1. TakeAnswer(r, "unclear")
    BY <1>3 DEF CallTimesOut
  <2> QED
    BY <2>1, AnswerKeepsPending
<1>4. ASSUME NEW call \in calls, KnowledgeAgentHandles(call)
      PROVE  PendingHasACause'
  <2>1. PICK r \in Requests : r = call.request
    BY DEF TypeOK
  <2>2. PICK answer \in {"ok", "unreadable", "paused", "refused", "unclear"}, done \in BOOLEAN :
           /\ answer \in {"ok", "unreadable"} => done
           /\ effects' = IF done THEN [effects EXCEPT ![TicketOf[r]] = @ + 1] ELSE effects
           /\ TakeAnswer(r, answer) \/ UNCHANGED <<analysis, at, tries, reply, unfinished>>
    BY <1>4, <2>1 DEF KnowledgeAgentHandles
  <2>3. answer = "unreadable" => effects'[TicketOf[r]] > 0
    BY <2>2 DEF TypeOK
  <2>4. CASE TakeAnswer(r, answer)
    BY <2>3, <2>4, AnswerKeepsPending
  <2>5. CASE UNCHANGED <<analysis, at, unfinished>>
    <3>1. \A t \in Tickets : effects[t] > 0 => effects'[t] > 0
      BY EffectsGrow DEF TypeOK
    <3> QED
      BY <2>5, <3>1 DEF PendingHasACause
  <2> QED
    BY <2>2, <2>4, <2>5
<1>5. ASSUME Crash
      PROVE  PendingHasACause'
  <2>1. /\ UNCHANGED <<analysis, effects>>
        /\ \A r \in Requests :
              unfinished'[r] = IF at[r] \in Applying THEN "died" ELSE unfinished[r]
    BY <1>5 DEF Crash
  <2> QED
    BY <2>1 DEF PendingHasACause
<1>6. ASSUME UNCHANGED vars
      PROVE  PendingHasACause'
  BY <1>6 DEF PendingHasACause, vars
<1> QED
  BY <1>1, <1>2, <1>3, <1>4, <1>5, <1>6 DEF Next, Handle

(* An analysis that is pending on file is being applied by a request, or the *)
(* process died under one (service.py stores it before the first call and    *)
(* the outcome after the last), or one could not read the answer to a call   *)
(* that was applied (service.py, _is_repair_apply_paused outside of the try),*)
(* however many requests for the same ticket overwrite each other's outcomes.*)
THEOREM PendingExplained == Spec => []PendingHasACause
<1>1. Init => QueueInv
  BY DEF Init, QueueInv
<1>2. Spec => []QueueInv
  BY <1>1, QueueStep, TypeCorrect, PTL DEF Spec
<1>3. Init => PendingHasACause
  BY NoneAssumption DEF Init, PendingHasACause
<1> QED
  BY <1>2, <1>3, PendingStep, TypeCorrect, PTL DEF Spec
=============================================================================
