------------------------------ MODULE TaskIndex -------------------------------
(***************************************************************************)
(* The runtime console's index of tasks                                    *)
(* (src/console/runtime_console/app/service.py, _task_index): the threads  *)
(* of the pool that list tasks share one cache, which is good for a time   *)
(* to live and after that as long as the signature of the testing agent's  *)
(* directories stays the same.  The signature is taken outside the lock    *)
(* that guards the cache, and the testing agent, another process, goes on  *)
(* writing all the while.                                                  *)
(*                                                                         *)
(* A directory holds one file.  What it holds is known by the number of    *)
(* changes made to it: a rewrite is two, the truncation and the writing,   *)
(* and a thread may read the file in between.  Files are never removed.    *)
(***************************************************************************)
EXTENDS Integers

CONSTANTS
    Threads,     \* threads of the pool
    Dirs,        \* directories of the testing agent
    TTL,         \* task_index_cache_ttl_seconds
    MaxClock,    \* bound of the clock
    MaxChanges,  \* bound of the changes of one file
    None

ASSUME TTLAssumption == TTL \in Nat
ASSUME BoundsAssumption == MaxClock \in Nat /\ MaxChanges \in Nat

VARIABLES
    clock,     \* the time, as coarse as the files' time stamps
    version,   \* per directory: changes made to its file
    stamp,     \* per directory: the file's st_mtime
    lock,      \* _task_index_lock: the thread that holds it, or None
    cache,     \* _task_index_cache with its signature and checked_at, or None
    thread,    \* per thread: its local state
    past,      \* history: per time, the versions when it began
    collided,  \* history: directories signed between two changes of one time stamp
    newest     \* history: per directory, the newest version a listing has shown

files == <<version, stamp, collided>>
vars == <<clock, version, stamp, lock, cache, thread, past, collided, newest>>

Versions == [Dirs -> 0 .. MaxChanges]
Signatures == [Dirs -> {0, 1} \X (0 .. MaxClock)]

(* _directory_signature: how many files, and the latest time stamp. *)
DirectorySignature(d) == IF version[d] = 0 THEN <<0, 0>> ELSE <<1, stamp[d]>>

Partial(S) == UNION {[D -> S] : D \in SUBSET Dirs}

(* now, the signature as far as it is taken, the tasks as far as they are   *)
(* read or as they are returned; what listings had shown when the call came *)
(* is history.                                                              *)
Local ==
    [at : {"idle", "lookup", "sign", "check", "build"}, now : 0 .. MaxClock,
     signature : Partial({0, 1} \X (0 .. MaxClock)), tasks : Partial(0 .. MaxChanges),
     shown : Versions]

Cache == [signature : Signatures, tasks : Versions, checkedAt : 0 .. MaxClock]

ASSUME NoneAssumption == None \notin Threads \cup Cache

Nothing == [d \in {} |-> 0]
Zero == [d \in Dirs |-> 0]

Init ==
    /\ clock = 0
    /\ version = Zero
    /\ stamp = Zero
    /\ lock = None
    /\ cache = None
    /\ thread = [t \in Threads |-> [at |-> "idle", now |-> 0, signature |-> Nothing,
                                    tasks |-> Zero, shown |-> Zero]]
    /\ past = [c \in 0 .. MaxClock |-> Zero]
    /\ collided = {}
    /\ newest = Zero

-----------------------------------------------------------------------------
(***************************************************************************)
(* The environment: time passes, the testing agent writes.                 *)
(***************************************************************************)
Tick ==
    /\ clock < MaxClock
    /\ clock' = clock + 1
    /\ past' = [past EXCEPT ![clock + 1] = version]
    /\ UNCHANGED <<files, lock, cache, thread, newest>>

(* Some thread, or the cache, knows the directory as it is. *)
Signed(d) ==
    \/ cache # None /\ cache.signature[d] = DirectorySignature(d)
    \/ \E t \in Threads :
          d \in DOMAIN thread[t].signature /\ thread[t].signature[d] = DirectorySignature(d)

Change(d) ==
    /\ version[d] < MaxChanges
    /\ version' = [version EXCEPT ![d] = @ + 1]
    /\ stamp' = [stamp EXCEPT ![d] = clock]
    /\ collided' = IF version[d] > 0 /\ stamp[d] = clock /\ Signed(d)
                   THEN collided \cup {d} ELSE collided
    /\ UNCHANGED <<clock, lock, cache, thread, past, newest>>

-----------------------------------------------------------------------------
(***************************************************************************)
(* One call of _task_index.                                                *)
(***************************************************************************)
Goes(t, at) == thread' = [thread EXCEPT ![t].at = at]

Max2(a, b) == IF a >= b THEN a ELSE b

Returns(t, tasks) ==
    /\ thread' = [thread EXCEPT ![t].at = "idle", ![t].signature = Nothing, ![t].tasks = tasks]
    /\ newest' = [d \in Dirs |-> Max2(newest[d], tasks[d])]

Call(t) ==
    /\ thread[t].at = "idle"
    /\ thread' = [thread EXCEPT ![t] = [at |-> "lookup", now |-> clock, signature |-> Nothing,
                                        tasks |-> Nothing, shown |-> newest]]
    /\ UNCHANGED <<clock, files, lock, cache, past, newest>>

WithinTTL(t) ==
    /\ cache # None
    /\ TTL > 0
    /\ thread[t].now - cache.checkedAt <= TTL

(* The first critical section. *)
LookUp(t) ==
    /\ thread[t].at = "lookup"
    /\ lock = None
    /\ IF WithinTTL(t) THEN Returns(t, cache.tasks) ELSE Goes(t, "sign") /\ UNCHANGED newest
    /\ UNCHANGED <<clock, files, lock, cache, past>>

(* _task_index_signature, a directory at a time. *)
Sign(t, d) ==
    /\ thread[t].at = "sign"
    /\ d \notin DOMAIN thread[t].signature
    /\ LET signature == [e \in DOMAIN thread[t].signature \cup {d} |->
                            IF e = d THEN DirectorySignature(d) ELSE thread[t].signature[e]]
       IN  thread' = [thread EXCEPT ![t].signature = signature,
                                    ![t].at = IF DOMAIN signature = Dirs THEN "check" ELSE "sign"]
    /\ UNCHANGED <<clock, files, lock, cache, past, newest>>

(* The second critical section, as far as it is one step: a cache of the    *)
(* same signature is good for another time to live.                         *)
ConfirmedAsOfNow(t) == [cache EXCEPT !.checkedAt = clock]
Confirmed(t) == [cache EXCEPT !.checkedAt = thread[t].now]

Vouched(t) == cache # None /\ cache.signature = thread[t].signature

Check(t) ==
    /\ thread[t].at = "check"
    /\ lock = None
    /\ \/ /\ Vouched(t)
          /\ cache' = Confirmed(t)
          /\ Returns(t, cache.tasks)
          /\ UNCHANGED lock
       \/ /\ ~ Vouched(t)
          /\ lock' = t
          /\ Goes(t, "build")
          /\ UNCHANGED <<cache, newest>>
    /\ UNCHANGED <<clock, files, past>>

ReadBeforeLock(t, d) ==
    /\ thread[t].at \in {"check", "build"}
    /\ d \notin DOMAIN thread[t].tasks
    /\ thread' = [thread EXCEPT ![t].tasks =
                     [e \in DOMAIN thread[t].tasks \cup {d} |->
                         IF e = d THEN version[d] ELSE thread[t].tasks[e]]]
    /\ UNCHANGED <<clock, files, lock, cache, past, newest>>

(* The rest of it, file by file, the lock held: task after task, so that    *)
(* the directories take turns.                                              *)
Read(t, d) ==
    /\ thread[t].at = "build"
    /\ d \notin DOMAIN thread[t].tasks
    /\ thread' = [thread EXCEPT ![t].tasks =
                     [e \in DOMAIN thread[t].tasks \cup {d} |->
                         IF e = d THEN version[d] ELSE thread[t].tasks[e]]]
    /\ UNCHANGED <<clock, files, lock, cache, past, newest>>

SignedAfterBuild(t) == [d \in Dirs |-> DirectorySignature(d)]
StoredSignature(t) == thread[t].signature

Release == None

Store(t) ==
    /\ thread[t].at = "build"
    /\ DOMAIN thread[t].tasks = Dirs
    /\ cache' = [signature |-> StoredSignature(t), tasks |-> thread[t].tasks,
                 checkedAt |-> thread[t].now]
    /\ lock' = Release
    /\ Returns(t, thread[t].tasks)
    /\ UNCHANGED <<clock, files, past>>

Next ==
    \/ Tick
    \/ \E d \in Dirs : Change(d)
    \/ \E t \in Threads :
          \/ Call(t) \/ LookUp(t) \/ Check(t) \/ Store(t)
          \/ \E d \in Dirs : Sign(t, d) \/ Read(t, d)

Spec == Init /\ [][Next]_vars

-----------------------------------------------------------------------------
(* Only a thread that builds the index holds the lock, and one that builds  *)
(* it holds it.                                                             *)
TypeOK ==
    /\ clock \in 0 .. MaxClock
    /\ version \in Versions
    /\ stamp \in [Dirs -> 0 .. MaxClock]
    /\ lock \in Threads \cup {None}
    /\ \A t \in Threads : thread[t].at = "build" <=> lock = t
    /\ cache \in Cache \cup {None}
    /\ thread \in [Threads -> Local]
    /\ past \in [0 .. MaxClock -> Versions]
    /\ collided \in SUBSET Dirs
    /\ newest \in Versions

(* A cache whose signature is the one the directories have now shows what   *)
(* they hold now, although its signature was taken before its content was   *)
(* read and a slower thread may have stored an older signature with it.     *)
(* The exception is a signature taken between two changes that get the same *)
(* time stamp: st_mtime cannot tell them apart.                             *)
SignatureVouchesForCache ==
    cache # None =>
        \A d \in Dirs \ collided :
            cache.signature[d] = DirectorySignature(d) => cache.tasks[d] = version[d]

(* A call returns nothing older than a time to live before it came.         *)
FreshWithinTTL ==
    \A t \in Threads :
        thread[t].at = "idle" =>
            \A d \in Dirs \ collided :
                thread[t].now > TTL => thread[t].tasks[d] >= past[thread[t].now - TTL][d]

(* What one call has returned, no call that comes after it misses: the list *)
(* a user sees never goes back, whichever threads answer.                   *)
ListingsNeverGoBack ==
    \A t \in Threads :
        thread[t].at = "idle" => \A d \in Dirs : thread[t].tasks[d] >= thread[t].shown[d]
=============================================================================
