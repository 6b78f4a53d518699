---------------------------- MODULE UserQueries -----------------------------
(***************************************************************************)
(* The runtime console's own queries                                       *)
(* (src/console/runtime_console/app/user_queries.py): POST /user-queries   *)
(* has the generator write a query, runs it, stores a record and lists it  *)
(* in an index of bounded length; a background task adds the diagnosis of  *)
(* a query that did not complete.                                          *)
(*                                                                         *)
(* The handlers and tasks run on the event loop and interleave at awaits   *)
(* only.  Listing and reading run in a thread pool beside them, so they    *)
(* see files that are just being written: write_text truncates, then       *)
(* writes.  A crash may leave a file truncated.                            *)
(***************************************************************************)
EXTENDS Integers, Sequences, Functions

CONSTANTS
    Queries,       \* user_query_id values
    Readers,       \* threads that serve GET requests
    HistoryLimit,  \* history_limit
    MaxCrashes,    \* bound on the crashes of the process
    None,          \* no such file
    Torn           \* a truncated file: its JSON cannot be parsed

(* completed, or any status that asks for a diagnosis. *)
Status == {"completed", "failed"}
Verdict == {"generated", "failed"}
Record == [status : Status, diagnostic : {"not_required", "pending"} \cup Verdict]

ASSUME BoundsAssumption == HistoryLimit \in Nat \ {0} /\ MaxCrashes \in Nat
ASSUME NoneAssumption ==
    /\ None \notin Record \cup Seq(Queries) /\ Torn \notin Record \cup Seq(Queries)
    /\ None # Torn

VARIABLES
    records,  \* {user_query_id}.json
    index,    \* index.json
    section,  \* file operations the running section has still to make
    at,       \* where the handler of each POST is suspended
    due,      \* queries whose background task has not started
    copy,     \* the record a background task has read before its await
    reading,  \* what each thread is doing
    saves,    \* history: the queries in the order they were saved in
    crashes   \* how often the process died, for the bound MaxCrashes

loop == <<records, index, section, at, due, copy, saves>>
vars == <<loop, reading, crashes>>

(* A thread goes through the ids of the index it has read. *)
Reading ==
    [at : {"idle", "next", "opening", "done", "error"},
     todo : Seq(Queries), shown : SUBSET Queries, missed : SUBSET Queries]

Resting == [at |-> "idle", todo |-> <<>>, shown |-> {}, missed |-> {}]

Readable(q) == records[q] \in Record
IndexIds == IF index \in {None, Torn} THEN <<>> ELSE index
Listed == Range(IndexIds)

Init ==
    /\ records = [q \in Queries |-> None]
    /\ index = None
    /\ section = <<>>
    /\ at = [q \in Queries |-> "new"]
    /\ due = {}
    /\ copy = [q \in Queries |-> None]
    /\ reading = [t \in Readers |-> Resting]
    /\ saves = <<>>
    /\ crashes = 0

-----------------------------------------------------------------------------
(***************************************************************************)
(* The event loop.  A section's file operations are performed one at a     *)
(* time; no other section starts before they are done.                     *)
(***************************************************************************)
LoopIdle == section = <<>>

PutRecord(q, r) ==
    <<[op |-> "record", query |-> q, value |-> Torn], [op |-> "record", query |-> q, value |-> r]>>
PutIndex(ids) ==
    <<[op |-> "index", value |-> Torn], [op |-> "index", value |-> ids]>>
Unlink(ids) == [i \in DOMAIN ids |-> [op |-> "record", query |-> ids[i], value |-> None]]
Return(q, place) == <<[op |-> "return", query |-> q, value |-> place]>>

FileStep ==
    /\ section # <<>>
    /\ section' = Tail(section)
    /\ LET s == Head(section)
       IN CASE s.op = "record" ->
                  records' = [records EXCEPT ![s.query] = s.value] /\ UNCHANGED <<index, at, due>>
            [] s.op = "index" -> index' = s.value /\ UNCHANGED <<records, at, due>>
            [] s.op = "return" ->
                  /\ at' = [at EXCEPT ![s.query] = s.value]
                  /\ due' = IF s.value = "answered" /\ records[s.query].diagnostic = "pending"
                            THEN due \cup {s.query} ELSE due
                  /\ UNCHANGED <<records, index>>
    /\ UNCHANGED <<copy, saves, reading, crashes>>

(* POST /user-queries: the generator is called. *)
CreateUserQuery(q) ==
    /\ LoopIdle
    /\ at[q] = "new"
    /\ at' = [at EXCEPT ![q] = "generating"]
    /\ UNCHANGED <<records, index, section, due, copy, saves, reading, crashes>>

(* A generated query is executed. *)
Generated(q) ==
    /\ LoopIdle
    /\ at[q] = "generating"
    /\ at' = [at EXCEPT ![q] = "executing"]
    /\ UNCHANGED <<records, index, section, due, copy, saves, reading, crashes>>

(* _save_record: the record, then the index with the new query first and    *)
(* the ones beyond the limit cut off, then their files are removed.  With   *)
(* a torn index it raises behind the record.                                *)
KeepOneLess(ids) == SubSeq(ids, 1, IF Len(ids) > HistoryLimit THEN HistoryLimit - 1 ELSE Len(ids))
NothingExpires(ids) == <<>>

(* The new id in front, removed where it stood if it was listed. *)
Ordered(q) ==
    <<q>> \o IF q \in Listed THEN SelectSeq(IndexIds, LAMBDA p : p # q) ELSE IndexIds

Kept(ids) == SubSeq(ids, 1, IF Len(ids) > HistoryLimit THEN HistoryLimit ELSE Len(ids))
Expired(ids) == SubSeq(ids, HistoryLimit + 1, Len(ids))

IndexFirst(q, r) ==
    IF index = Torn THEN PutRecord(q, r) \o Return(q, "error")
    ELSE PutIndex(Kept(Ordered(q))) \o PutRecord(q, r) \o Unlink(Expired(Ordered(q)))
         \o Return(q, "answered")

UnlinkFirst(q, r) ==
    IF index = Torn THEN PutRecord(q, r) \o Return(q, "error")
    ELSE PutRecord(q, r) \o Unlink(Expired(Ordered(q))) \o PutIndex(Kept(Ordered(q)))
         \o Return(q, "answered")

SaveRecord(q, r) ==
    PutRecord(q, r) \o
    IF index = Torn THEN Return(q, "error")
    ELSE PutIndex(Kept(Ordered(q))) \o Unlink(Expired(Ordered(q))) \o Return(q, "answered")

(* The call returns or raises; a completed query needs no diagnosis, the    *)
(* diagnosis of any other is put off.                                       *)
Conclude(q) ==
    /\ LoopIdle
    /\ at[q] \in {"generating", "executing"}
    /\ \E status \in (IF at[q] = "executing" THEN Status ELSE {"failed"}) :
          section' = SaveRecord(q, [status |-> status,
                                    diagnostic |-> IF status = "completed" THEN "not_required" ELSE "pending"])
    /\ at' = [at EXCEPT ![q] = "saving"]
    /\ saves' = Append(saves, q)
    /\ UNCHANGED <<records, index, due, copy, reading, crashes>>

(* complete_cga_diagnostic reads the record, which may have expired, ... *)
StartDiagnosis(q) ==
    /\ LoopIdle
    /\ q \in due
    /\ due' = due \ {q}
    /\ copy' = [copy EXCEPT ![q] = records[q]]
    /\ UNCHANGED <<records, index, section, at, saves, reading, crashes>>

(* ... and after the LLM's answer or failure stores what it has read. *)
OnlyGenerated(q) ==
    /\ LoopIdle
    /\ copy[q] # None
    /\ section' \in {<<>>, PutRecord(q, [copy[q] EXCEPT !.diagnostic = "generated"])}
    /\ copy' = [copy EXCEPT ![q] = None]
    /\ UNCHANGED <<records, index, at, due, saves, reading, crashes>>

FinishDiagnosis(q) ==
    /\ LoopIdle
    /\ copy[q] # None
    /\ \E verdict \in Verdict :
          section' = PutRecord(q, [copy[q] EXCEPT !.diagnostic = verdict])
    /\ copy' = [copy EXCEPT ![q] = None]
    /\ UNCHANGED <<records, index, at, due, saves, reading, crashes>>

-----------------------------------------------------------------------------
(***************************************************************************)
(* The thread pool.                                                        *)
(***************************************************************************)

(* A thread has dealt with the first of its ids. *)
Advance(r) ==
    [r EXCEPT !.at = IF Tail(r.todo) = <<>> THEN "done" ELSE "next", !.todo = Tail(r.todo)]
Move(t, r) == reading' = [reading EXCEPT ![t] = r]

(* GET /user-queries reads the index, ... *)
ListUserQueries(t) ==
    /\ reading[t].at = "idle"
    /\ Move(t, IF index = Torn THEN [reading[t] EXCEPT !.at = "error"]
               ELSE [reading[t] EXCEPT !.at = IF IndexIds = <<>> THEN "done" ELSE "next",
                                       !.todo = IndexIds])
    /\ UNCHANGED <<loop, crashes>>

(* GET /user-queries/{id} and its download read one record, whose id is     *)
(* known from an answer or a list.                                          *)
GetUserQuery(t, q) ==
    /\ reading[t].at = "idle"
    /\ q \in Listed \/ at[q] = "answered"
    /\ Move(t, [reading[t] EXCEPT !.at = "next", !.todo = <<q>>])
    /\ UNCHANGED <<loop, crashes>>

(* ... and for each id whether its file exists, ... *)
LookForRecord(t) ==
    /\ reading[t].at = "next"
    /\ LET r == reading[t]
           q == Head(r.todo)
       IN Move(t, IF records[q] # None THEN [r EXCEPT !.at = "opening"]
                  ELSE [Advance(r) EXCEPT !.missed = r.missed \cup {q}])
    /\ UNCHANGED <<loop, crashes>>

(* ... then its text: a file that is gone by now or cannot be parsed ends  *)
(* the request with an error.                                              *)
ReadRecord(t) ==
    /\ reading[t].at = "opening"
    /\ LET r == reading[t]
           q == Head(r.todo)
       IN Move(t, IF ~ Readable(q) THEN [r EXCEPT !.at = "error"]
                  ELSE [Advance(r) EXCEPT !.shown = r.shown \cup {q}])
    /\ UNCHANGED <<loop, crashes>>

-----------------------------------------------------------------------------
(* The process dies and is started again: handlers, tasks and threads are  *)
(* gone, the files stay, one of them maybe truncated.                      *)
Crash ==
    /\ crashes < MaxCrashes
    /\ crashes' = crashes + 1
    /\ section' = <<>>
    /\ at' = [q \in Queries |-> IF at[q] \in {"new", "answered"} THEN at[q] ELSE "error"]
    /\ due' = {}
    /\ copy' = [q \in Queries |-> None]
    /\ reading' = [t \in Readers |-> Resting]
    /\ UNCHANGED <<records, index, saves>>

Handle(q) == Generated(q) \/ Conclude(q)
Diagnose(q) == StartDiagnosis(q) \/ FinishDiagnosis(q)
Read(t) == LookForRecord(t) \/ ReadRecord(t)

Next ==
    \/ FileStep
    \/ \E q \in Queries : CreateUserQuery(q) \/ Handle(q) \/ Diagnose(q)
    \/ \E t \in Readers :
          ListUserQueries(t) \/ (\E q \in Queries : GetUserQuery(t, q)) \/ Read(t)
    \/ Crash

Spec == Init /\ [][Next]_vars

-----------------------------------------------------------------------------
(* A listed query has its file, whichever file operation the process dies   *)
(* at and however late the diagnosis of a listed query is stored.           *)
ListedIsOnFile == \A q \in Listed : records[q] # None

(* A list leaves out, and a read does not find, only queries that have      *)
(* expired since: no listed query is missed, whatever the loop writes       *)
(* between the index, the look for a file and its reading.                  *)
MissedIsExpired == \A t \in Readers : reading[t].missed \cap Listed = {}

SavedBefore(p, q) == \E i, j \in DOMAIN saves : i < j /\ saves[i] = p /\ saves[j] = q

(* An answered query stays in the history until HistoryLimit later ones     *)
(* have been saved, also beside saves cut off by a crash - as long as the   *)
(* crash did not truncate the index; and no query is in it twice.           *)
AnsweredIsListed ==
    index # Torn =>
        /\ Len(IndexIds) <= HistoryLimit /\ IsInjective(IndexIds)
        /\ \A q \in Queries : at[q] = "answered" =>
              \/ q \in Listed
              \/ /\ Len(index) = HistoryLimit
                 /\ \A p \in Listed : SavedBefore(q, p)

(* Unless the process died, a record outlives its place in the history only *)
(* if its diagnosis came after it: the task stores its copy unseen.         *)
OnlyDiagnosisRevives ==
    (crashes = 0 /\ LoopIdle) =>
        \A q \in Queries : records[q] # None => q \in Listed \/ records[q].diagnostic \in Verdict

(* Unless the process died, a pending diagnosis on file is being made: no   *)
(* failure of the diagnosing LLM and no expiry leaves one behind.           *)
PendingIsWorkedOn ==
    (crashes = 0 /\ LoopIdle) =>
        \A q \in Queries : (Readable(q) /\ records[q].diagnostic = "pending")
                               => q \in due \/ copy[q] # None
=============================================================================
