--------------------------- MODULE TaskIndexProofs ---------------------------
(***************************************************************************)
(* Theorems about TaskIndex.  The argument is that a signature is always   *)
(* taken before the content it is stored with is read.  So whoever holds a *)
(* signature, the content that goes with an equal one is at least as new   *)
(* as what its holder saw; and as only one thread reads at a time, under   *)
(* the lock, what is stored never gets older.                              *)
(***************************************************************************)
EXTENDS TaskIndex, TLAPS

(* What a thread has of the signature and of the tasks where it stands. *)
Progress ==
    \A t \in Threads :
        /\ thread[t].at = "idle" => thread[t].tasks \in Versions
        /\ thread[t].at \in {"lookup", "sign", "check"} => DOMAIN thread[t].tasks = {}
        /\ thread[t].at \in {"idle", "lookup"} => DOMAIN thread[t].signature = {}
        /\ thread[t].at \in {"check", "build"} => DOMAIN thread[t].signature = Dirs

(* Nothing is ahead of the clock or of the files. *)
Times ==
    /\ \A d \in Dirs : stamp[d] <= clock
    /\ \A t \in Threads : thread[t].now <= clock
    /\ cache # None => cache.checkedAt <= clock

Past ==
    \A d \in Dirs, b, c \in 0 .. clock :
        /\ past[c][d] <= version[d]
        /\ b <= c => past[b][d] <= past[c][d]

Behind(signature, d) == signature[d][1] = 1 => version[d] > 0 /\ signature[d][2] <= stamp[d]

SignaturesBehind ==
    /\ \A t \in Threads : \A d \in DOMAIN thread[t].signature : Behind(thread[t].signature, d)
    /\ cache # None => \A d \in Dirs : Behind(cache.signature, d)

TasksBehind ==
    /\ \A t \in Threads : \A d \in DOMAIN thread[t].tasks : thread[t].tasks[d] <= version[d]
    /\ cache # None => \A d \in Dirs : cache.tasks[d] <= version[d]

(* A signature the directory still has stands for what it still holds. *)
Vouches ==
    /\ SignatureVouchesForCache
    /\ \A t \in Threads : \A d \in Dirs \ collided :
          (/\ d \in DOMAIN thread[t].signature /\ d \in DOMAIN thread[t].tasks
           /\ thread[t].signature[d] = DirectorySignature(d)) =>
              thread[t].tasks[d] = version[d]

(* Equal signatures stand for what there was when either's holder called. *)
SinceCall ==
    \A t \in Threads : \A d \in Dirs \ collided :
        d \in DOMAIN thread[t].signature =>
            /\ (cache # None /\ cache.signature[d] = thread[t].signature[d]) =>
                  cache.tasks[d] >= past[thread[t].now][d]
            /\ \A u \in Threads :
                  (/\ d \in DOMAIN thread[u].signature /\ d \in DOMAIN thread[u].tasks
                   /\ thread[u].signature[d] = thread[t].signature[d]) =>
                      thread[u].tasks[d] >= past[thread[t].now][d]

CacheIsFresh ==
    cache # None => \A d \in Dirs \ collided : cache.tasks[d] >= past[cache.checkedAt][d]

(* What is in the cache, or read to go there, is as new as what was shown. *)
Newest ==
    /\ cache = None => newest = Zero
    /\ cache # None => \A d \in Dirs : newest[d] <= cache.tasks[d]
    /\ \A t \in Threads : thread[t].at = "build" =>
          \A d \in DOMAIN thread[t].tasks : newest[d] <= thread[t].tasks[d]
    /\ \A t \in Threads, d \in Dirs : thread[t].shown[d] <= newest[d]

IndexInv ==
    /\ TypeOK /\ Progress /\ Times /\ Past /\ SignaturesBehind /\ TasksBehind
    /\ Vouches /\ SinceCall /\ CacheIsFresh /\ Newest
    /\ FreshWithinTTL /\ ListingsNeverGoBack

-----------------------------------------------------------------------------
LEMMA Empty == Nothing \in Partial({0, 1} \X (0 .. MaxClock)) /\ Nothing \in Partial(0 .. MaxChanges)
               /\ DOMAIN Nothing = {}
BY DEF Nothing, Partial

(* A partial function with one more argument. *)
LEMMA OneMore ==
    ASSUME NEW S, NEW f \in Partial(S), NEW d \in Dirs, NEW x \in S
    PROVE  [e \in DOMAIN f \cup {d} |-> IF e = d THEN x ELSE f[e]] \in Partial(S)
<1> DEFINE D == DOMAIN f \cup {d}
           g == [e \in D |-> IF e = d THEN x ELSE f[e]]
<1>1. PICK E \in SUBSET Dirs : f \in [E -> S]  BY DEF Partial
<1>2. D \in SUBSET Dirs  BY <1>1
<1>3. g \in [D -> S]  BY <1>1
<1>4. g \in Partial(S)  BY <1>2, <1>3 DEF Partial
<1> QED  BY <1>4

LEMMA PartialTyped ==
    ASSUME NEW S, NEW f \in Partial(S)
    PROVE  DOMAIN f \subseteq Dirs /\ \A d \in DOMAIN f : f[d] \in S
BY DEF Partial

LEMMA SignatureTyped ==
    ASSUME TypeOK, NEW d \in Dirs
    PROVE  /\ DirectorySignature(d) \in {0, 1} \X (0 .. MaxClock)
           /\ Behind([e \in Dirs |-> DirectorySignature(e)], d)
           /\ version[d] > 0 => DirectorySignature(d) = <<1, stamp[d]>>
<1>1. version[d] \in 0 .. MaxChanges /\ stamp[d] \in 0 .. MaxClock
  BY DEF TypeOK, Versions
<1> QED  BY <1>1, BoundsAssumption DEF DirectorySignature, Behind

LEMMA ThreadTyped ==
    ASSUME TypeOK, NEW t \in Threads
    PROVE  /\ thread[t].at \in {"idle", "lookup", "sign", "check", "build"}
           /\ thread[t].now \in 0 .. MaxClock
           /\ thread[t].signature \in Partial({0, 1} \X (0 .. MaxClock))
           /\ thread[t].tasks \in Partial(0 .. MaxChanges)
           /\ thread[t].shown \in Versions
<1>1. thread[t] \in Local  BY DEF TypeOK
<1> QED  BY <1>1 DEF Local

LEMMA CacheTyped ==
    ASSUME TypeOK, cache # None
    PROVE  /\ cache.signature \in Signatures /\ cache.tasks \in Versions
           /\ cache.checkedAt \in 0 .. MaxClock
<1>1. cache \in Cache  BY DEF TypeOK
<1> QED  BY <1>1 DEF Cache

LEMMA InitInv == Init => IndexInv
<1> SUFFICES ASSUME Init PROVE IndexInv  OBVIOUS
<1> USE TTLAssumption, BoundsAssumption, NoneAssumption, Empty DEF Init, Zero
<1>1. TypeOK
  <2>1. Zero \in Versions /\ Zero \in Partial(0 .. MaxChanges)  BY DEF Versions, Partial
  <2>2. thread \in [Threads -> Local]
    <3>1. [at |-> "idle", now |-> 0, signature |-> Nothing, tasks |-> Zero, shown |-> Zero] \in Local
      BY <2>1 DEF Local
    <3> QED  BY <3>1
  <2>3. past \in [0 .. MaxClock -> Versions]  BY <2>1
  <2>4. stamp \in [Dirs -> 0 .. MaxClock]  OBVIOUS
  <2> QED  BY <2>1, <2>2, <2>3, <2>4 DEF TypeOK
<1>2. Progress /\ Times /\ Past  BY DEF Progress, Times, Past, Versions
<1>3. SignaturesBehind /\ TasksBehind  BY DEF SignaturesBehind, TasksBehind
<1>4. Vouches /\ SinceCall /\ CacheIsFresh
  BY DEF Vouches, SinceCall, CacheIsFresh, SignatureVouchesForCache
<1>5. Newest /\ ListingsNeverGoBack  BY DEF Newest, ListingsNeverGoBack
<1>6. FreshWithinTTL  BY DEF FreshWithinTTL
<1> QED  BY <1>1, <1>2, <1>3, <1>4, <1>5, <1>6 DEF IndexInv

LEMMA TickStep == IndexInv /\ Tick => IndexInv'
<1> SUFFICES ASSUME IndexInv, Tick PROVE IndexInv'  OBVIOUS
<1> USE TTLAssumption, BoundsAssumption DEF IndexInv
<1>1. /\ clock \in 0 .. MaxClock /\ clock' = clock + 1 /\ clock' \in 0 .. MaxClock
      /\ past' = [past EXCEPT ![clock + 1] = version]
      /\ UNCHANGED <<version, stamp, collided, lock, cache, thread, newest>>
  BY DEF Tick, TypeOK, files
<1>2. \A c \in 0 .. clock : past'[c] = past[c]  BY <1>1 DEF TypeOK
<1>3. past'[clock'] = version  BY <1>1 DEF TypeOK
<1>4. TypeOK'
  BY <1>1 DEF TypeOK
<1>5. Progress' /\ Newest' /\ ListingsNeverGoBack' /\ TasksBehind' /\ SignaturesBehind'
  BY <1>1 DEF Progress, Newest, ListingsNeverGoBack, TasksBehind, SignaturesBehind, Behind
<1>6. Times'
  BY <1>1 DEF Times, TypeOK, Local, Cache
<1>7. Past'
  <2> SUFFICES ASSUME NEW d \in Dirs, NEW b \in 0 .. clock', NEW c \in 0 .. clock'
               PROVE  past'[c][d] <= version'[d] /\ (b <= c => past'[b][d] <= past'[c][d])
    BY DEF Past
  <2>1. version[d] \in Nat  BY DEF TypeOK, Versions
  <2>2. CASE c = clock' /\ b = clock'  BY <1>1, <1>3, <2>1, <2>2
  <2>3. CASE c = clock' /\ b \in 0 .. clock  BY <1>1, <1>2, <1>3, <2>1, <2>3 DEF Past
  <2>4. CASE c \in 0 .. clock /\ b \in 0 .. clock  BY <1>1, <1>2, <2>4 DEF Past
  <2>5. CASE c \in 0 .. clock /\ b = clock'  BY <1>1, <1>2, <2>5 DEF Past
  <2> QED  BY <1>1, <2>2, <2>3, <2>4, <2>5
<1>8. Vouches'  BY <1>1 DEF Vouches, SignatureVouchesForCache, DirectorySignature
<1>9. \A t \in Threads : thread[t].now \in 0 .. clock
  <2> SUFFICES ASSUME NEW t \in Threads PROVE thread[t].now \in 0 .. clock  OBVIOUS
  <2>1. thread[t].now \in 0 .. MaxClock  BY ThreadTyped
  <2> QED  BY <1>1, <2>1 DEF Times
<1>10. SinceCall'  BY <1>1, <1>2, <1>9 DEF SinceCall
<1>11. CacheIsFresh'
  <2>1. cache # None => cache.checkedAt \in 0 .. clock  BY DEF Times, TypeOK, Cache
  <2> QED  BY <1>1, <1>2, <2>1 DEF CacheIsFresh
<1>12. FreshWithinTTL'
  <2>1. \A t \in Threads : thread[t].now > TTL => thread[t].now - TTL \in 0 .. clock
    BY <1>1, <1>9
  <2> QED  BY <1>1, <1>2, <2>1 DEF FreshWithinTTL
<1> QED  BY <1>4, <1>5, <1>6, <1>7, <1>8, <1>10, <1>11, <1>12

(* A change gives the directory a signature nobody has, but for a collision. *)
LEMMA ChangeStep == \A d \in Dirs : IndexInv /\ Change(d) => IndexInv'
<1> SUFFICES ASSUME NEW d \in Dirs, IndexInv, Change(d) PROVE IndexInv'  OBVIOUS
<1> USE BoundsAssumption DEF IndexInv
<1>1. /\ version' = [version EXCEPT ![d] = version[d] + 1]
      /\ stamp' = [stamp EXCEPT ![d] = clock]
      /\ version[d] \in 0 .. MaxChanges /\ version[d] < MaxChanges
      /\ collided \subseteq collided' /\ collided' \subseteq Dirs
      /\ UNCHANGED <<clock, lock, cache, thread, past, newest>>
  BY DEF Change, TypeOK, Versions
<1>2. /\ version'[d] = version[d] + 1 /\ stamp'[d] = clock
      /\ \A e \in Dirs \ {d} : version'[e] = version[e] /\ stamp'[e] = stamp[e]
  BY <1>1 DEF TypeOK, Versions
<1>3. \A e \in Dirs : version[e] \in Nat /\ version'[e] \in Nat /\ version[e] <= version'[e]
                    /\ stamp[e] \in Nat /\ stamp[e] <= clock /\ clock \in Nat
                    /\ stamp'[e] \in Nat /\ stamp[e] <= stamp'[e]
  <2> SUFFICES ASSUME NEW e \in Dirs
               PROVE  /\ version[e] \in Nat /\ version'[e] \in Nat /\ version[e] <= version'[e]
                      /\ stamp[e] \in Nat /\ stamp[e] <= clock /\ clock \in Nat
                      /\ stamp'[e] \in Nat /\ stamp[e] <= stamp'[e]
    OBVIOUS
  <2>1. version[e] \in Nat /\ stamp[e] \in Nat /\ clock \in Nat /\ stamp[e] <= clock
    BY DEF TypeOK, Versions, Times
  <2>2. CASE e = d  BY <1>1, <1>2, <2>1, <2>2
  <2>3. CASE e # d  BY <1>2, <2>1, <2>3
  <2> QED  BY <2>2, <2>3
<1>4. TypeOK'
  <2>1. version' \in Versions  BY <1>1 DEF TypeOK, Versions
  <2>2. stamp' \in [Dirs -> 0 .. MaxClock]  BY <1>1 DEF TypeOK
  <2> QED  BY <1>1, <2>1, <2>2 DEF TypeOK
<1>5. Progress' /\ Newest' /\ ListingsNeverGoBack'
  BY <1>1 DEF Progress, Newest, ListingsNeverGoBack
<1>6. Times' /\ Past'
  <2>1. Times'  BY <1>1, <1>2, <1>3 DEF Times
  <2>2. \A c \in 0 .. clock, e \in Dirs : past[c][e] \in Nat
    BY DEF TypeOK, Versions
  <2>3. Past'  BY <1>1, <1>3, <2>2 DEF Past
  <2> QED  BY <2>1, <2>3
<1>7. ASSUME NEW signature \in Partial({0, 1} \X (0 .. MaxClock)), NEW e \in DOMAIN signature,
             Behind(signature, e)
      PROVE  /\ Behind(signature, e)'
             /\ (e = d /\ signature[e] = DirectorySignature(e)') =>
                    /\ version[d] > 0 /\ stamp[d] = clock
                    /\ signature[e] = DirectorySignature(e)
  <2>1. e \in Dirs /\ signature[e] \in {0, 1} \X (0 .. MaxClock)  BY <1>7, PartialTyped
  <2>2. signature[e][2] \in Nat  BY <2>1
  <2>3. Behind(signature, e)'  BY <1>3, <1>7, <2>1, <2>2 DEF Behind
  <2>4. ASSUME e = d, signature[e] = DirectorySignature(e)'
        PROVE  /\ version[d] > 0 /\ stamp[d] = clock
               /\ signature[e] = DirectorySignature(e)
    <3>1. signature[e] = <<1, clock>>  BY <1>2, <1>3, <2>4 DEF DirectorySignature
    <3>2. version[d] > 0 /\ clock <= stamp[d]  BY <1>7, <2>4, <3>1 DEF Behind
    <3>3. stamp[d] = clock  BY <1>3, <3>2
    <3> QED  BY <2>4, <3>1, <3>2, <3>3 DEF DirectorySignature
  <2> QED  BY <2>3, <2>4
<1>8. SignaturesBehind'
  <2>1. ASSUME NEW t \in Threads, NEW e \in DOMAIN thread[t].signature
        PROVE  Behind(thread[t].signature, e)'
    BY <1>1, <1>7, ThreadTyped DEF SignaturesBehind, Behind
  <2>2. ASSUME cache # None, NEW e \in Dirs
        PROVE  Behind(cache.signature, e)'
    <3>1. cache.signature \in Signatures  BY <2>2, CacheTyped
    <3>2. cache.signature \in Partial({0, 1} \X (0 .. MaxClock)) /\ DOMAIN cache.signature = Dirs
      BY <3>1 DEF Signatures, Partial
    <3>3. Behind(cache.signature, e)  BY <2>2 DEF SignaturesBehind
    <3> QED  BY <1>1, <1>7, <3>2, <3>3 DEF Behind
  <2> QED  BY <1>1, <2>1, <2>2 DEF SignaturesBehind, Behind
<1>9. TasksBehind'
  <2>1. ASSUME NEW t \in Threads, NEW e \in DOMAIN thread[t].tasks
        PROVE  thread[t].tasks[e] <= version'[e]
    <3>1. e \in Dirs /\ thread[t].tasks[e] \in 0 .. MaxChanges  BY ThreadTyped, PartialTyped
    <3> QED  BY <1>3, <3>1 DEF TasksBehind
  <2>2. ASSUME cache # None, NEW e \in Dirs
        PROVE  cache.tasks[e] <= version'[e]
    <3>1. cache.tasks[e] \in 0 .. MaxChanges  BY <2>2, CacheTyped DEF Versions
    <3> QED  BY <1>3, <2>2, <3>1 DEF TasksBehind
  <2> QED  BY <1>1, <2>1, <2>2 DEF TasksBehind
<1>10. Vouches'
  <2>1. ASSUME cache # None, NEW e \in Dirs \ collided',
               cache.signature[e] = DirectorySignature(e)'
        PROVE  cache.tasks[e] = version'[e]
    <3>1. e \in Dirs \ collided  BY <1>1, <2>1
    <3>2. CASE e # d
      BY <1>2, <2>1, <3>1, <3>2 DEF Vouches, SignatureVouchesForCache, DirectorySignature
    <3>3. CASE e = d
      <4>1. cache.signature \in Partial({0, 1} \X (0 .. MaxClock)) /\ DOMAIN cache.signature = Dirs
        BY <2>1, CacheTyped DEF Signatures, Partial
      <4>2. Behind(cache.signature, e)  BY <2>1 DEF SignaturesBehind
      <4>3. version[d] > 0 /\ stamp[d] = clock /\ cache.signature[e] = DirectorySignature(e)
        BY <1>7, <2>1, <3>3, <4>1, <4>2
      <4>4. Signed(d)  BY <2>1, <3>3, <4>3 DEF Signed
      <4>5. d \in collided'  BY <4>3, <4>4 DEF Change
      <4> QED  BY <2>1, <3>3, <4>5
    <3> QED  BY <3>2, <3>3
  <2>2. ASSUME NEW t \in Threads, NEW e \in Dirs \ collided',
               e \in DOMAIN thread[t].signature, e \in DOMAIN thread[t].tasks,
               thread[t].signature[e] = DirectorySignature(e)'
        PROVE  thread[t].tasks[e] = version'[e]
    <3>1. e \in Dirs \ collided  BY <1>1, <2>2
    <3>2. CASE e # d
      BY <1>2, <2>2, <3>1, <3>2 DEF Vouches, DirectorySignature
    <3>3. CASE e = d
      <4>1. thread[t].signature \in Partial({0, 1} \X (0 .. MaxClock))  BY ThreadTyped
      <4>2. Behind(thread[t].signature, e)  BY <2>2 DEF SignaturesBehind
      <4>3. version[d] > 0 /\ stamp[d] = clock /\ thread[t].signature[e] = DirectorySignature(e)
        BY <1>7, <2>2, <3>3, <4>1, <4>2
      <4>4. Signed(d)  BY <2>2, <3>3, <4>3 DEF Signed
      <4>5. d \in collided'  BY <4>3, <4>4 DEF Change
      <4> QED  BY <2>2, <3>3, <4>5
    <3> QED  BY <3>2, <3>3
  <2>3. SignatureVouchesForCache'  BY <1>1, <2>1 DEF SignatureVouchesForCache
  <2> QED  BY <1>1, <2>2, <2>3 DEF Vouches
<1>11. SinceCall'  BY <1>1 DEF SinceCall
<1>12. CacheIsFresh' /\ FreshWithinTTL'  BY <1>1 DEF CacheIsFresh, FreshWithinTTL
<1> QED  BY <1>4, <1>5, <1>6, <1>8, <1>9, <1>10, <1>11, <1>12

LEMMA CallStep == \A t \in Threads : IndexInv /\ Call(t) => IndexInv'
<1> SUFFICES ASSUME NEW t \in Threads, IndexInv, Call(t) PROVE IndexInv'  OBVIOUS
<1> USE DEF IndexInv
<1>1. /\ thread' = [thread EXCEPT ![t] = [at |-> "lookup", now |-> clock, signature |-> Nothing,
                                          tasks |-> Nothing, shown |-> newest]]
      /\ thread[t].at = "idle"
      /\ UNCHANGED <<clock, version, stamp, collided, lock, cache, past, newest>>
  BY DEF Call, files
<1>2. /\ thread'[t].at = "lookup" /\ thread'[t].now = clock /\ thread'[t].shown = newest
      /\ DOMAIN thread'[t].signature = {} /\ DOMAIN thread'[t].tasks = {}
      /\ \A u \in Threads \ {t} : thread'[u] = thread[u]
  BY <1>1, Empty DEF TypeOK
<1>3. TypeOK'
  <2>1. [at |-> "lookup", now |-> clock, signature |-> Nothing,
         tasks |-> Nothing, shown |-> newest] \in Local
    BY Empty DEF TypeOK, Local
  <2>2. thread' \in [Threads -> Local]  BY <1>1, <2>1 DEF TypeOK
  <2>3. \A u \in Threads : thread'[u].at = "build" <=> lock = u
    BY <1>1, <1>2 DEF TypeOK
  <2> QED  BY <1>1, <2>2, <2>3 DEF TypeOK
<1>4. Progress'  BY <1>2 DEF Progress
<1>5. Times'
  <2>1. clock <= clock  BY DEF TypeOK
  <2> QED  BY <1>1, <1>2, <2>1 DEF Times
<1>6. Past' /\ CacheIsFresh'  BY <1>1 DEF Past, CacheIsFresh
<1>7. SignaturesBehind' /\ TasksBehind'
  BY <1>1, <1>2 DEF SignaturesBehind, TasksBehind, Behind
<1>8. Vouches'
  BY <1>1, <1>2 DEF Vouches, SignatureVouchesForCache, DirectorySignature
<1>9. SinceCall'
  <2> SUFFICES ASSUME NEW r \in Threads, NEW d \in Dirs \ collided, d \in DOMAIN thread'[r].signature
      PROVE  /\ (cache # None /\ cache.signature[d] = thread'[r].signature[d]) =>
                    cache.tasks[d] >= past[thread'[r].now][d]
             /\ \A u \in Threads :
                    (/\ d \in DOMAIN thread'[u].signature /\ d \in DOMAIN thread'[u].tasks
                     /\ thread'[u].signature[d] = thread'[r].signature[d]) =>
                        thread'[u].tasks[d] >= past[thread'[r].now][d]
    BY <1>1 DEF SinceCall
  <2>1. r # t /\ thread'[r] = thread[r]  BY <1>2
  <2> QED  BY <1>2, <2>1 DEF SinceCall
<1>10. Newest'
  <2>1. \A d \in Dirs : newest[d] <= newest[d]  BY BoundsAssumption DEF TypeOK, Versions
  <2> QED  BY <1>1, <1>2, <2>1 DEF Newest
<1>11. FreshWithinTTL' /\ ListingsNeverGoBack'
  BY <1>1, <1>2 DEF FreshWithinTTL, ListingsNeverGoBack
<1> QED  BY <1>3, <1>4, <1>5, <1>6, <1>7, <1>8, <1>9, <1>10, <1>11

(* A thread that only moves on. *)
LEMMA GoesStep ==
    ASSUME IndexInv, NEW t \in Threads, NEW at, Goes(t, at), lock' \in {lock, t},
           \/ thread[t].at = "lookup" /\ at = "sign" /\ lock' = lock
           \/ thread[t].at = "check" /\ at = "build" /\ lock = None /\ lock' = t,
           UNCHANGED <<clock, files, cache, past, newest>>
    PROVE  IndexInv'
<1> USE DEF IndexInv
<1>1. /\ thread' = [thread EXCEPT ![t].at = at]
      /\ UNCHANGED <<clock, version, stamp, collided, cache, past, newest>>
  BY DEF Goes, files
<1>2. /\ thread'[t].at = at /\ thread'[t].now = thread[t].now /\ thread'[t].shown = thread[t].shown
      /\ thread'[t].signature = thread[t].signature /\ thread'[t].tasks = thread[t].tasks
      /\ thread'[t] \in Local
      /\ \A u \in Threads \ {t} : thread'[u] = thread[u]
  <2>1. thread[t] \in Local /\ at \in {"sign", "build"}  BY DEF TypeOK
  <2>2. thread'[t] = [thread[t] EXCEPT !.at = at]  BY <1>1 DEF TypeOK
  <2> QED  BY <1>1, <2>1, <2>2 DEF TypeOK, Local
<1>3. \A u \in Threads : /\ thread'[u].now = thread[u].now /\ thread'[u].shown = thread[u].shown
                         /\ thread'[u].signature = thread[u].signature
                         /\ thread'[u].tasks = thread[u].tasks
                         /\ thread'[u].at = "idle" => thread[u].at = "idle"
  BY <1>2
<1>4. TypeOK'
  <2>1. thread' \in [Threads -> Local]  BY <1>1, <1>2 DEF TypeOK
  <2>2. \A u \in Threads : thread'[u].at = "build" <=> lock' = u
    BY <1>2, NoneAssumption DEF TypeOK
  <2> QED  BY <1>1, <2>1, <2>2 DEF TypeOK
<1>5. Progress'  BY <1>2, <1>3 DEF Progress
<1>6. Times' /\ Past' /\ CacheIsFresh'  BY <1>1, <1>3 DEF Times, Past, CacheIsFresh
<1>7. SignaturesBehind' /\ TasksBehind'
  BY <1>1, <1>3 DEF SignaturesBehind, TasksBehind, Behind
<1>8. Vouches'  BY <1>1, <1>3 DEF Vouches, SignatureVouchesForCache, DirectorySignature
<1>9. SinceCall'  BY <1>1, <1>3 DEF SinceCall
<1>10. Newest'
  <2>1. at = "build" => DOMAIN thread[t].tasks = {}  BY DEF Progress
  <2>2. \A u \in Threads : thread'[u].at = "build" =>
            \A d \in DOMAIN thread'[u].tasks : newest[d] <= thread'[u].tasks[d]
    BY <1>2, <2>1 DEF Newest
  <2> QED  BY <1>1, <1>3, <2>2 DEF Newest
<1>11. FreshWithinTTL' /\ ListingsNeverGoBack'
  BY <1>1, <1>3 DEF FreshWithinTTL, ListingsNeverGoBack
<1> QED  BY <1>4, <1>5, <1>6, <1>7, <1>8, <1>9, <1>10, <1>11

LEMMA SignStep == \A t \in Threads, d \in Dirs : IndexInv /\ Sign(t, d) => IndexInv'
<1> SUFFICES ASSUME NEW t \in Threads, NEW d \in Dirs, IndexInv, Sign(t, d) PROVE IndexInv'
  OBVIOUS
<1> USE DEF IndexInv
<1> DEFINE signature == [e \in DOMAIN thread[t].signature \cup {d} |->
                            IF e = d THEN DirectorySignature(d) ELSE thread[t].signature[e]]
           at == IF DOMAIN signature = Dirs THEN "check" ELSE "sign"
<1>1. /\ thread' = [thread EXCEPT ![t].signature = signature, ![t].at = at]
      /\ thread[t].at = "sign" /\ d \notin DOMAIN thread[t].signature
      /\ UNCHANGED <<clock, version, stamp, collided, lock, cache, past, newest>>
  BY DEF Sign, files
<1>2. /\ signature \in Partial({0, 1} \X (0 .. MaxClock))
      /\ DOMAIN signature = DOMAIN thread[t].signature \cup {d}
      /\ signature[d] = DirectorySignature(d)
      /\ \A e \in DOMAIN thread[t].signature : signature[e] = thread[t].signature[e]
  BY <1>1, ThreadTyped, SignatureTyped, OneMore
<1>3. at \in {"sign", "check"} /\ (at = "check" => DOMAIN signature = Dirs)  OBVIOUS
<1> HIDE DEF signature, at
<1>4. /\ thread'[t].at = at /\ thread'[t].now = thread[t].now /\ thread'[t].shown = thread[t].shown
      /\ thread'[t].signature = signature /\ thread'[t].tasks = thread[t].tasks
      /\ thread'[t] \in Local
      /\ \A u \in Threads \ {t} : thread'[u] = thread[u]
  <2>1. thread[t] \in Local  BY DEF TypeOK
  <2>2. thread'[t] = [thread[t] EXCEPT !.signature = signature, !.at = at]  BY <1>1 DEF TypeOK
  <2> QED  BY <1>1, <1>2, <1>3, <2>1, <2>2 DEF TypeOK, Local
<1>5. DOMAIN thread[t].tasks = {}  BY <1>1 DEF Progress
<1>6. \A u \in Threads : /\ thread'[u].now = thread[u].now /\ thread'[u].shown = thread[u].shown
                         /\ thread'[u].tasks = thread[u].tasks
                         /\ thread'[u].at \in {"idle", "build"} <=> thread[u].at \in {"idle", "build"}
  BY <1>1, <1>3, <1>4
<1>7. TypeOK'
  <2>1. thread' \in [Threads -> Local]  BY <1>1, <1>4 DEF TypeOK
  <2>2. \A u \in Threads : thread'[u].at = "build" <=> lock' = u
    BY <1>1, <1>3, <1>4 DEF TypeOK
  <2> QED  BY <1>1, <2>1, <2>2 DEF TypeOK
<1>8. Progress'  BY <1>3, <1>4, <1>5 DEF Progress
<1>9. Times' /\ Past' /\ CacheIsFresh' /\ TasksBehind'
  <2>1. Times'  BY <1>1, <1>6 DEF Times
  <2>2. Past' /\ CacheIsFresh'  BY <1>1 DEF Past, CacheIsFresh
  <2>3. TasksBehind'  BY <1>1, <1>6 DEF TasksBehind
  <2> QED  BY <2>1, <2>2, <2>3
<1>10. SignaturesBehind'
  <2>1. Behind(signature, d)
    <3>1. Behind([e \in Dirs |-> DirectorySignature(e)], d)  BY SignatureTyped
    <3> QED  BY <1>2, <3>1 DEF Behind
  <2>2. ASSUME NEW e \in DOMAIN signature PROVE Behind(signature, e)
    <3>1. CASE e = d  BY <2>1, <3>1
    <3>2. CASE e \in DOMAIN thread[t].signature
      BY <1>2, <3>2 DEF SignaturesBehind, Behind
    <3> QED  BY <1>2, <2>2, <3>1, <3>2
  <2>3. \A u \in Threads : \A e \in DOMAIN thread'[u].signature : Behind(thread'[u].signature, e)
    BY <1>4, <2>2 DEF SignaturesBehind
  <2> QED  BY <1>1, <2>3 DEF SignaturesBehind, Behind
<1>11. Vouches'
  <2>1. ASSUME NEW u \in Threads, NEW e \in Dirs \ collided,
               e \in DOMAIN thread'[u].signature, e \in DOMAIN thread'[u].tasks,
               thread'[u].signature[e] = DirectorySignature(e)
        PROVE  thread'[u].tasks[e] = version[e]
    <3>1. u # t  BY <1>4, <1>5, <2>1
    <3> QED  BY <1>4, <2>1, <3>1 DEF Vouches
  <2>2. \A e \in Dirs : DirectorySignature(e)' = DirectorySignature(e)
    BY <1>1 DEF DirectorySignature
  <2>3. SignatureVouchesForCache'
    BY <1>1, <2>2 DEF Vouches, SignatureVouchesForCache
  <2>4. collided' = collided /\ version' = version  BY <1>1
  <2> HIDE DEF IndexInv
  <2> QED  BY <2>1, <2>2, <2>3, <2>4 DEF Vouches
<1>12. SinceCall'
  <2> SUFFICES ASSUME NEW r \in Threads, NEW e \in Dirs \ collided, e \in DOMAIN thread'[r].signature
      PROVE  /\ (cache # None /\ cache.signature[e] = thread'[r].signature[e]) =>
                    cache.tasks[e] >= past[thread'[r].now][e]
             /\ \A u \in Threads :
                    (/\ e \in DOMAIN thread'[u].signature /\ e \in DOMAIN thread'[u].tasks
                     /\ thread'[u].signature[e] = thread'[r].signature[e]) =>
                        thread'[u].tasks[e] >= past[thread'[r].now][e]
    BY <1>1 DEF SinceCall
  <2>1. version[e] >= past[thread'[r].now][e]
    <3>1. thread'[r].now \in 0 .. clock
      <4>1. thread[r].now \in 0 .. MaxClock  BY ThreadTyped
      <4>2. thread[r].now <= clock /\ clock \in 0 .. MaxClock  BY DEF Times, TypeOK
      <4> QED  BY <1>6, <4>1, <4>2, BoundsAssumption
    <3>2. past[thread'[r].now][e] <= version[e]  BY <3>1 DEF Past
    <3>3. past[thread'[r].now][e] \in Nat /\ version[e] \in Nat
      <4>1. thread'[r].now \in 0 .. MaxClock  BY <3>1, BoundsAssumption DEF TypeOK
      <4> QED  BY <4>1 DEF TypeOK, Versions
    <3> QED  BY <3>2, <3>3
  <2>2. CASE r = t /\ e = d
    <3>1. thread'[r].signature[e] = DirectorySignature(e)  BY <1>2, <1>4, <2>2
    <3>2. (cache # None /\ cache.signature[e] = thread'[r].signature[e]) => cache.tasks[e] = version[e]
      BY <3>1 DEF Vouches, SignatureVouchesForCache
    <3>3. ASSUME NEW u \in Threads, e \in DOMAIN thread'[u].signature, e \in DOMAIN thread'[u].tasks,
                 thread'[u].signature[e] = thread'[r].signature[e]
          PROVE  thread'[u].tasks[e] = version[e]
      <4>1. u # t  BY <1>4, <1>5, <3>3
      <4> QED  BY <1>4, <3>1, <3>3, <4>1 DEF Vouches
    <3> QED  BY <2>1, <3>2, <3>3
  <2>3. CASE ~ (r = t /\ e = d)
    <3>1. e \in DOMAIN thread[r].signature /\ thread'[r].signature[e] = thread[r].signature[e]
      BY <1>2, <1>4, <2>3
    <3>2. ASSUME NEW u \in Threads, e \in DOMAIN thread'[u].signature, e \in DOMAIN thread'[u].tasks,
                 thread'[u].signature[e] = thread'[r].signature[e]
          PROVE  thread'[u].tasks[e] >= past[thread'[r].now][e]
      <4>1. u # t  BY <1>4, <1>5, <3>2
      <4> QED  BY <1>4, <1>6, <3>1, <3>2, <4>1 DEF SinceCall
    <3>3. (cache # None /\ cache.signature[e] = thread[r].signature[e]) =>
              cache.tasks[e] >= past[thread[r].now][e]
      BY <3>1 DEF SinceCall
    <3>4. thread'[r].now = thread[r].now  BY <1>6
    <3> QED  BY <3>1, <3>2, <3>3, <3>4
  <2> QED  BY <2>2, <2>3
<1>13. Newest'  BY <1>1, <1>3, <1>4, <1>6 DEF Newest
<1>14. FreshWithinTTL' /\ ListingsNeverGoBack'
  BY <1>1, <1>3, <1>4 DEF FreshWithinTTL, ListingsNeverGoBack
<1> QED  BY <1>7, <1>8, <1>9, <1>10, <1>11, <1>12, <1>13, <1>14

(* A file is read as it is now: as new as anything shown before. *)
LEMMA ReadStep == \A t \in Threads, d \in Dirs : IndexInv /\ Read(t, d) => IndexInv'
<1> SUFFICES ASSUME NEW t \in Threads, NEW d \in Dirs, IndexInv, Read(t, d) PROVE IndexInv'
  OBVIOUS
<1> USE DEF IndexInv
<1> DEFINE tasks == [e \in DOMAIN thread[t].tasks \cup {d} |->
                        IF e = d THEN version[d] ELSE thread[t].tasks[e]]
<1>1. /\ thread' = [thread EXCEPT ![t].tasks = tasks]
      /\ thread[t].at = "build" /\ d \notin DOMAIN thread[t].tasks
      /\ UNCHANGED <<clock, version, stamp, collided, lock, cache, past, newest>>
  BY DEF Read, files
<1>2. /\ tasks \in Partial(0 .. MaxChanges)
      /\ DOMAIN tasks = DOMAIN thread[t].tasks \cup {d}
      /\ tasks[d] = version[d]
      /\ \A e \in DOMAIN thread[t].tasks : tasks[e] = thread[t].tasks[e]
  <2>1. version[d] \in 0 .. MaxChanges  BY DEF TypeOK, Versions
  <2> QED  BY <1>1, <2>1, ThreadTyped, OneMore
<1> HIDE DEF tasks
<1>3. /\ thread'[t].at = "build" /\ thread'[t].now = thread[t].now
      /\ thread'[t].shown = thread[t].shown
      /\ thread'[t].signature = thread[t].signature /\ thread'[t].tasks = tasks
      /\ thread'[t] \in Local
      /\ \A u \in Threads \ {t} : thread'[u] = thread[u]
  <2>1. thread[t] \in Local  BY DEF TypeOK
  <2>2. thread'[t] = [thread[t] EXCEPT !.tasks = tasks]  BY <1>1 DEF TypeOK
  <2> QED  BY <1>1, <1>2, <2>1, <2>2 DEF TypeOK, Local
<1>4. \A u \in Threads : /\ thread'[u].now = thread[u].now /\ thread'[u].shown = thread[u].shown
                         /\ thread'[u].signature = thread[u].signature
                         /\ thread'[u].at = thread[u].at
  BY <1>1, <1>3
<1>5. TypeOK'
  <2>1. thread' \in [Threads -> Local]  BY <1>1, <1>3 DEF TypeOK
  <2>2. ASSUME NEW u \in Threads PROVE thread'[u].at = "build" <=> lock' = u
    <3>1. thread[u].at = "build" <=> lock = u  BY DEF TypeOK
    <3> QED  BY <1>1, <1>4, <3>1
  <2> QED  BY <1>1, <2>1, <2>2 DEF TypeOK
<1>6. Progress'
  <2>1. DOMAIN thread'[t].signature = Dirs  BY <1>1, <1>3 DEF Progress
  <2>2. ASSUME NEW u \in Threads \ {t}
        PROVE  /\ thread'[u].at = "idle" => thread'[u].tasks \in Versions
               /\ thread'[u].at \in {"lookup", "sign", "check"} => DOMAIN thread'[u].tasks = {}
               /\ thread'[u].at \in {"idle", "lookup"} => DOMAIN thread'[u].signature = {}
               /\ thread'[u].at \in {"check", "build"} => DOMAIN thread'[u].signature = Dirs
    <3>1. thread'[u] = thread[u]  BY <1>3
    <3> QED  BY <3>1 DEF Progress
  <2>3. Versions' = Versions  BY DEF Versions
  <2> HIDE DEF IndexInv
  <2> QED  BY <1>3, <2>1, <2>2, <2>3 DEF Progress
<1>7. Times' /\ Past' /\ CacheIsFresh' /\ SignaturesBehind'
  <2>1. Times'  BY <1>1, <1>4 DEF Times
  <2>2. Past' /\ CacheIsFresh'  BY <1>1 DEF Past, CacheIsFresh
  <2>3. SignaturesBehind'  BY <1>1, <1>4 DEF SignaturesBehind, Behind
  <2> QED  BY <2>1, <2>2, <2>3
<1>8. TasksBehind'
  <2>1. \A e \in DOMAIN tasks : tasks[e] <= version[e]
    <3>1. version[d] <= version[d]  BY DEF TypeOK, Versions
    <3> QED  BY <1>2, <3>1 DEF TasksBehind
  <2> QED  BY <1>1, <1>3, <2>1 DEF TasksBehind
<1>9. \A e \in Dirs : DirectorySignature(e)' = DirectorySignature(e)
  BY <1>1 DEF DirectorySignature
<1>10. Vouches'
  <2>1. SignatureVouchesForCache'  BY <1>1, <1>9 DEF Vouches, SignatureVouchesForCache
  <2>2. ASSUME NEW u \in Threads, NEW e \in Dirs \ collided,
               e \in DOMAIN thread'[u].signature, e \in DOMAIN thread'[u].tasks,
               thread'[u].signature[e] = DirectorySignature(e)
        PROVE  thread'[u].tasks[e] = version[e]
    <3>1. CASE u = t /\ e = d  BY <1>2, <1>3, <3>1
    <3>2. CASE ~ (u = t /\ e = d)
      <4>1. e \in DOMAIN thread[u].tasks /\ thread'[u].tasks[e] = thread[u].tasks[e]
        BY <1>2, <1>3, <2>2, <3>2
      <4> QED  BY <1>4, <2>2, <4>1 DEF Vouches
    <3> QED  BY <3>1, <3>2
  <2>3. collided' = collided /\ version' = version  BY <1>1
  <2> HIDE DEF IndexInv
  <2> QED  BY <1>9, <2>1, <2>2, <2>3 DEF Vouches
<1>11. SinceCall'
  <2> SUFFICES ASSUME NEW r \in Threads, NEW e \in Dirs \ collided, e \in DOMAIN thread'[r].signature
      PROVE  /\ (cache # None /\ cache.signature[e] = thread'[r].signature[e]) =>
                    cache.tasks[e] >= past[thread'[r].now][e]
             /\ \A u \in Threads :
                    (/\ e \in DOMAIN thread'[u].signature /\ e \in DOMAIN thread'[u].tasks
                     /\ thread'[u].signature[e] = thread'[r].signature[e]) =>
                        thread'[u].tasks[e] >= past[thread'[r].now][e]
    BY <1>1 DEF SinceCall
  <2>1. version[e] >= past[thread[r].now][e]
    <3>1. thread[r].now \in 0 .. clock /\ thread[r].now \in 0 .. MaxClock
      <4>1. thread[r].now \in 0 .. MaxClock  BY ThreadTyped
      <4>2. thread[r].now <= clock /\ clock \in 0 .. MaxClock  BY DEF Times, TypeOK
      <4> QED  BY <4>1, <4>2, BoundsAssumption
    <3>2. past[thread[r].now][e] <= version[e]  BY <3>1 DEF Past
    <3>3. past[thread[r].now][e] \in Nat /\ version[e] \in Nat
      BY <3>1 DEF TypeOK, Versions
    <3> QED  BY <3>2, <3>3
  <2>2. (cache # None /\ cache.signature[e] = thread'[r].signature[e]) =>
            cache.tasks[e] >= past[thread'[r].now][e]
    BY <1>4 DEF SinceCall
  <2>3. ASSUME NEW u \in Threads, e \in DOMAIN thread'[u].signature, e \in DOMAIN thread'[u].tasks,
               thread'[u].signature[e] = thread'[r].signature[e]
        PROVE  thread'[u].tasks[e] >= past[thread'[r].now][e]
    <3>1. CASE u = t /\ e = d  BY <1>2, <1>3, <1>4, <2>1, <3>1
    <3>2. CASE ~ (u = t /\ e = d)
      <4>1. e \in DOMAIN thread[u].tasks /\ thread'[u].tasks[e] = thread[u].tasks[e]
        BY <1>2, <1>3, <2>3, <3>2
      <4> QED  BY <1>4, <2>3, <4>1 DEF SinceCall
    <3> QED  BY <3>1, <3>2
  <2> QED  BY <2>2, <2>3
<1>12. Newest'
  <2>1. newest[d] <= version[d]
    <3>1. CASE cache = None  BY <3>1 DEF Newest, Zero, TypeOK, Versions
    <3>2. CASE cache # None
      <4>1. newest[d] <= cache.tasks[d] /\ cache.tasks[d] <= version[d]
        BY <3>2 DEF Newest, TasksBehind
      <4>2. cache.tasks[d] \in Nat /\ newest[d] \in Nat /\ version[d] \in Nat
        BY <3>2, CacheTyped DEF TypeOK, Versions
      <4> QED  BY <4>1, <4>2
    <3> QED  BY <3>1, <3>2
  <2>2. \A e \in DOMAIN tasks : newest[e] <= tasks[e]
    BY <1>1, <1>2, <2>1 DEF Newest
  <2>3. \A u \in Threads : thread'[u].at = "build" =>
            \A e \in DOMAIN thread'[u].tasks : newest[e] <= thread'[u].tasks[e]
    BY <1>3, <2>2 DEF Newest
  <2> QED  BY <1>1, <1>4, <2>3 DEF Newest
<1>13. FreshWithinTTL' /\ ListingsNeverGoBack'
  BY <1>1, <1>3 DEF FreshWithinTTL, ListingsNeverGoBack
<1> QED  BY <1>5, <1>6, <1>7, <1>8, <1>10, <1>11, <1>12, <1>13

(* A call returns what is then in the cache.  The lock was free, or its own. *)
LEMMA Returning ==
    ASSUME IndexInv, NEW t \in Threads, NEW tasks \in Versions, Returns(t, tasks),
           UNCHANGED <<clock, files, past>>,
           lock' = None, \A u \in Threads \ {t} : thread[u].at # "build",
           cache' \in Cache, cache'.tasks = tasks, cache'.checkedAt <= clock,
           \A d \in Dirs : /\ newest[d] <= tasks[d] /\ tasks[d] <= version[d]
                           /\ Behind(cache'.signature, d),
           \A d \in Dirs \ collided :
               /\ cache'.signature[d] = DirectorySignature(d) => tasks[d] = version[d]
               /\ tasks[d] >= past[cache'.checkedAt][d]
               /\ thread[t].now > TTL => tasks[d] >= past[thread[t].now - TTL][d]
               /\ \A r \in Threads :
                     (/\ d \in DOMAIN thread[r].signature
                      /\ cache'.signature[d] = thread[r].signature[d]) =>
                         tasks[d] >= past[thread[r].now][d]
    PROVE  IndexInv'
<1> USE DEF IndexInv
<1>1. /\ thread' = [thread EXCEPT ![t].at = "idle", ![t].signature = Nothing, ![t].tasks = tasks]
      /\ newest' = [d \in Dirs |-> Max2(newest[d], tasks[d])]
      /\ UNCHANGED <<clock, version, stamp, collided, past>>
  BY DEF Returns, files
<1>2. /\ thread'[t].at = "idle" /\ thread'[t].now = thread[t].now
      /\ thread'[t].shown = thread[t].shown
      /\ DOMAIN thread'[t].signature = {} /\ thread'[t].tasks = tasks
      /\ thread'[t] \in Local
      /\ \A u \in Threads \ {t} : thread'[u] = thread[u]
  <2>1. thread[t] \in Local  BY DEF TypeOK
  <2>2. thread'[t] = [thread[t] EXCEPT !.at = "idle", !.signature = Nothing, !.tasks = tasks]
    BY <1>1 DEF TypeOK
  <2>3. tasks \in Partial(0 .. MaxChanges)  BY DEF Versions, Partial
  <2> QED  BY <1>1, <2>1, <2>2, <2>3, Empty DEF TypeOK, Local
<1>3. \A u \in Threads : /\ thread'[u].now = thread[u].now /\ thread'[u].shown = thread[u].shown
                         /\ thread'[u].at # "build"
  BY <1>2
<1>4. \A d \in Dirs : newest'[d] = tasks[d] /\ newest[d] <= newest'[d]
  <2> SUFFICES ASSUME NEW d \in Dirs PROVE newest'[d] = tasks[d] /\ newest[d] <= newest'[d]
    OBVIOUS
  <2>1. newest[d] \in Nat /\ tasks[d] \in Nat /\ newest[d] <= tasks[d]  BY DEF TypeOK, Versions
  <2> QED  BY <1>1, <2>1 DEF Max2
<1>5. cache' # None  BY NoneAssumption
<1>6. newest' = tasks /\ newest' \in Versions
  <2>1. tasks = [d \in Dirs |-> tasks[d]]  BY DEF Versions
  <2>2. newest' = [d \in Dirs |-> newest'[d]]  BY <1>1
  <2> QED  BY <1>4, <2>1, <2>2
<1>7. TypeOK'
  <2>1. thread' \in [Threads -> Local]  BY <1>1, <1>2 DEF TypeOK
  <2>2. \A u \in Threads : thread'[u].at = "build" <=> lock' = u
    BY <1>3, NoneAssumption
  <2> QED  BY <1>1, <1>6, <2>1, <2>2 DEF TypeOK
<1>8. Progress'  BY <1>2 DEF Progress
<1>9. Times'  BY <1>1, <1>3 DEF Times
<1>10. Past' /\ CacheIsFresh'  BY <1>1 DEF Past, CacheIsFresh
<1>11. SignaturesBehind'
  <2>1. ASSUME NEW u \in Threads, NEW d \in DOMAIN thread'[u].signature
        PROVE  Behind(thread'[u].signature, d)
    <3>1. thread'[u] = thread[u]  BY <1>2, <2>1
    <3> QED  BY <2>1, <3>1 DEF SignaturesBehind
  <2>2. \A d \in Dirs : Behind(cache'.signature, d)  OBVIOUS
  <2> HIDE DEF IndexInv
  <2> QED  BY <1>1, <2>1, <2>2 DEF SignaturesBehind, Behind
<1>12. TasksBehind'
  <2>1. \A d \in DOMAIN tasks : tasks[d] <= version[d]  BY DEF Versions
  <2>2. ASSUME NEW u \in Threads, NEW d \in DOMAIN thread'[u].tasks
        PROVE  thread'[u].tasks[d] <= version[d]
    <3>1. CASE u = t  BY <1>2, <2>1, <2>2, <3>1
    <3>2. CASE u # t
      <4>1. thread'[u] = thread[u]  BY <1>2, <3>2
      <4> QED  BY <2>2, <4>1 DEF TasksBehind
    <3> QED  BY <3>1, <3>2
  <2>3. \A d \in Dirs : cache'.tasks[d] <= version[d]  OBVIOUS
  <2> HIDE DEF IndexInv
  <2> QED  BY <1>1, <2>2, <2>3 DEF TasksBehind
<1>13. \A d \in Dirs : DirectorySignature(d)' = DirectorySignature(d)
  BY <1>1 DEF DirectorySignature
<1>14. Vouches'
  <2>1. SignatureVouchesForCache'  BY <1>1, <1>13 DEF SignatureVouchesForCache
  <2>2. ASSUME NEW u \in Threads, NEW d \in Dirs \ collided,
               d \in DOMAIN thread'[u].signature, d \in DOMAIN thread'[u].tasks,
               thread'[u].signature[d] = DirectorySignature(d)
        PROVE  thread'[u].tasks[d] = version[d]
    <3>1. u # t  BY <1>2, <2>2
    <3> QED  BY <1>2, <2>2, <3>1 DEF Vouches
  <2>3. collided' = collided /\ version' = version  BY <1>1
  <2> HIDE DEF IndexInv
  <2> QED  BY <1>13, <2>1, <2>2, <2>3 DEF Vouches
<1>15. SinceCall'
  <2> SUFFICES ASSUME NEW r \in Threads, NEW d \in Dirs \ collided, d \in DOMAIN thread'[r].signature
      PROVE  /\ cache'.signature[d] = thread'[r].signature[d] =>
                    cache'.tasks[d] >= past[thread'[r].now][d]
             /\ \A u \in Threads :
                    (/\ d \in DOMAIN thread'[u].signature /\ d \in DOMAIN thread'[u].tasks
                     /\ thread'[u].signature[d] = thread'[r].signature[d]) =>
                        thread'[u].tasks[d] >= past[thread'[r].now][d]
    BY <1>1 DEF SinceCall
  <2>1. r # t /\ thread'[r] = thread[r]  BY <1>2
  <2>2. cache'.signature[d] = thread'[r].signature[d] => cache'.tasks[d] >= past[thread'[r].now][d]
    BY <2>1
  <2>3. ASSUME NEW u \in Threads, d \in DOMAIN thread'[u].signature, d \in DOMAIN thread'[u].tasks,
               thread'[u].signature[d] = thread'[r].signature[d]
        PROVE  thread'[u].tasks[d] >= past[thread'[r].now][d]
    <3>1. u # t  BY <1>2, <2>3
    <3> QED  BY <1>2, <2>1, <2>3, <3>1 DEF SinceCall
  <2> QED  BY <2>2, <2>3
<1>16. Newest'
  <2>1. \A d \in Dirs : newest'[d] <= tasks[d]  BY <1>6 DEF Versions
  <2>2. ASSUME NEW u \in Threads, NEW d \in Dirs PROVE thread'[u].shown[d] <= newest'[d]
    <3>1. thread[u].shown[d] <= newest[d] /\ newest[d] <= newest'[d]  BY <1>4 DEF Newest
    <3>2. thread[u].shown[d] \in Nat /\ newest[d] \in Nat /\ newest'[d] \in Nat
      BY <1>6, ThreadTyped DEF TypeOK, Versions
    <3> QED  BY <1>3, <3>1, <3>2
  <2> QED  BY <1>3, <1>5, <2>1, <2>2 DEF Newest
<1>17. FreshWithinTTL'
  <2>1. ASSUME NEW u \in Threads, thread'[u].at = "idle", NEW d \in Dirs \ collided,
               thread'[u].now > TTL
        PROVE  thread'[u].tasks[d] >= past[thread'[u].now - TTL][d]
    <3>1. CASE u = t  BY <1>2, <2>1, <3>1
    <3>2. CASE u # t
      <4>1. thread'[u] = thread[u]  BY <1>2, <3>2
      <4> QED  BY <2>1, <4>1 DEF FreshWithinTTL
    <3> QED  BY <3>1, <3>2
  <2> HIDE DEF IndexInv
  <2> QED  BY <1>1, <2>1 DEF FreshWithinTTL
<1>18. ListingsNeverGoBack'
  <2>1. ASSUME NEW d \in Dirs PROVE tasks[d] >= thread[t].shown[d]
    <3>1. thread[t].shown[d] <= newest[d] /\ newest[d] <= tasks[d]  BY DEF Newest
    <3>2. thread[t].shown[d] \in Nat /\ newest[d] \in Nat /\ tasks[d] \in Nat
      BY ThreadTyped DEF TypeOK, Versions
    <3> QED  BY <3>1, <3>2
  <2> QED  BY <1>2, <2>1 DEF ListingsNeverGoBack
<1> QED  BY <1>7, <1>8, <1>9, <1>10, <1>11, <1>12, <1>14, <1>15, <1>16, <1>17, <1>18

(* What is as new as at some time is as new as at any time before. *)
LEMMA Earlier ==
    ASSUME IndexInv, NEW d \in Dirs, NEW x \in Nat, NEW b \in 0 .. clock, NEW c \in 0 .. clock,
           x >= past[c][d], b <= c
    PROVE  x >= past[b][d]
<1>1. past[b][d] <= past[c][d]  BY DEF IndexInv, Past
<1>2. b \in 0 .. MaxClock /\ c \in 0 .. MaxClock  BY BoundsAssumption DEF IndexInv, TypeOK
<1>3. past[b] \in Versions /\ past[c] \in Versions  BY <1>2 DEF IndexInv, TypeOK
<1>4. past[b][d] \in Nat /\ past[c][d] \in Nat  BY <1>3 DEF Versions
<1> QED  BY <1>1, <1>4

LEMMA NowTyped ==
    ASSUME IndexInv, NEW t \in Threads
    PROVE  /\ thread[t].now \in 0 .. clock
           /\ thread[t].now > TTL => thread[t].now - TTL \in 0 .. clock
           /\ thread[t].now - TTL <= thread[t].now
<1>1. thread[t].now \in 0 .. MaxClock  BY ThreadTyped DEF IndexInv
<1>2. thread[t].now <= clock /\ clock \in 0 .. MaxClock  BY DEF IndexInv, Times, TypeOK
<1> QED  BY <1>1, <1>2, TTLAssumption, BoundsAssumption

LEMMA NobodyBuilds ==
    ASSUME IndexInv, lock = None, NEW u \in Threads
    PROVE  thread[u].at # "build"
BY NoneAssumption DEF IndexInv, TypeOK

(* A cache no older than the time to live is returned as it is. *)
LEMMA LookUpStep == \A t \in Threads : IndexInv /\ LookUp(t) => IndexInv'
<1> SUFFICES ASSUME NEW t \in Threads, IndexInv, LookUp(t) PROVE IndexInv'  OBVIOUS
<1>1. thread[t].at = "lookup" /\ lock = None /\ UNCHANGED <<clock, files, lock, cache, past>>
  BY DEF LookUp
<1>2. CASE WithinTTL(t)
  <2> DEFINE tasks == cache.tasks
  <2>1. Returns(t, tasks)  BY <1>2 DEF LookUp
  <2>2. cache # None /\ cache' = cache /\ thread[t].now - cache.checkedAt <= TTL
    BY <1>1, <1>2 DEF WithinTTL
  <2>3. /\ cache \in Cache /\ tasks \in Versions /\ cache.checkedAt \in 0 .. MaxClock
        /\ cache.checkedAt <= clock
    BY <2>2, CacheTyped DEF IndexInv, TypeOK, Times
  <2>4. ASSUME NEW d \in Dirs
        PROVE  /\ newest[d] <= tasks[d] /\ tasks[d] <= version[d]
               /\ Behind(cache.signature, d)
    BY <2>2 DEF IndexInv, Newest, TasksBehind, SignaturesBehind
  <2>5. ASSUME NEW d \in Dirs \ collided
        PROVE  /\ cache.signature[d] = DirectorySignature(d) => tasks[d] = version[d]
               /\ tasks[d] >= past[cache.checkedAt][d]
    BY <2>2 DEF IndexInv, Vouches, SignatureVouchesForCache, CacheIsFresh
  <2>6. ASSUME NEW d \in Dirs \ collided, thread[t].now > TTL
        PROVE  tasks[d] >= past[thread[t].now - TTL][d]
    <3>1. thread[t].now - TTL \in 0 .. clock /\ thread[t].now \in 0 .. clock
      BY <2>6, NowTyped
    <3>2. clock \in Nat  BY BoundsAssumption DEF IndexInv, TypeOK
    <3>3. cache.checkedAt \in 0 .. clock /\ thread[t].now - TTL <= cache.checkedAt
      BY <2>2, <2>3, <3>1, <3>2, TTLAssumption, BoundsAssumption
    <3>4. tasks[d] \in Nat  BY <2>3 DEF Versions
    <3>5. tasks[d] >= past[cache.checkedAt][d]  BY <2>5
    <3> HIDE DEF tasks
    <3> QED  BY <3>1, <3>3, <3>4, <3>5, Earlier
  <2>7. ASSUME NEW d \in Dirs \ collided, NEW r \in Threads, d \in DOMAIN thread[r].signature,
               cache.signature[d] = thread[r].signature[d]
        PROVE  tasks[d] >= past[thread[r].now][d]
    BY <2>2, <2>7 DEF IndexInv, SinceCall
  <2>8. \A u \in Threads \ {t} : thread[u].at # "build"  BY <1>1, NobodyBuilds
  <2>9. lock' = None /\ cache'.tasks = tasks  BY <1>1
  <2> HIDE DEF tasks
  <2> QED  BY <1>1, <2>1, <2>2, <2>3, <2>4, <2>5, <2>6, <2>7, <2>8, <2>9, Returning
<1>3. CASE ~ WithinTTL(t)
  <2>1. Goes(t, "sign") /\ UNCHANGED newest  BY <1>3 DEF LookUp
  <2> QED  BY <1>1, <2>1, GoesStep
<1> QED  BY <1>2, <1>3

(* A cache that has the signature the thread took is good as of its call. *)
LEMMA CheckStep == \A t \in Threads : IndexInv /\ Check(t) => IndexInv'
<1> SUFFICES ASSUME NEW t \in Threads, IndexInv, Check(t) PROVE IndexInv'  OBVIOUS
<1>1. thread[t].at = "check" /\ lock = None /\ UNCHANGED <<clock, files, past>>
  BY DEF Check
<1>2. CASE Vouched(t)
  <2> DEFINE tasks == cache.tasks
  <2>1. Returns(t, tasks) /\ lock' = lock /\ cache' = [cache EXCEPT !.checkedAt = thread[t].now]
    BY <1>2 DEF Check, Confirmed
  <2>2. cache # None /\ cache.signature = thread[t].signature  BY <1>2 DEF Vouched
  <2>3. /\ cache \in Cache /\ tasks \in Versions
        /\ thread[t].now \in 0 .. MaxClock /\ thread[t].now <= clock
    BY <2>2, CacheTyped, ThreadTyped DEF IndexInv, TypeOK, Times
  <2>4. /\ cache' \in Cache /\ cache'.tasks = tasks /\ cache'.signature = cache.signature
        /\ cache'.checkedAt = thread[t].now
    BY <2>1, <2>3 DEF Cache
  <2>5. ASSUME NEW d \in Dirs
        PROVE  /\ newest[d] <= tasks[d] /\ tasks[d] <= version[d]
               /\ Behind(cache.signature, d)
    BY <2>2 DEF IndexInv, Newest, TasksBehind, SignaturesBehind
  <2>6. ASSUME NEW d \in Dirs \ collided, NEW r \in Threads, d \in DOMAIN thread[r].signature,
               cache.signature[d] = thread[r].signature[d]
        PROVE  tasks[d] >= past[thread[r].now][d]
    BY <2>2, <2>6 DEF IndexInv, SinceCall
  <2>7. ASSUME NEW d \in Dirs \ collided
        PROVE  /\ cache.signature[d] = DirectorySignature(d) => tasks[d] = version[d]
               /\ tasks[d] >= past[thread[t].now][d]
    <3>1. d \in DOMAIN thread[t].signature  BY <1>1 DEF IndexInv, Progress
    <3>2. tasks[d] >= past[thread[t].now][d]  BY <2>2, <2>6, <3>1
    <3>3. cache.signature[d] = DirectorySignature(d) => tasks[d] = version[d]
      BY <2>2 DEF IndexInv, Vouches, SignatureVouchesForCache
    <3> QED  BY <3>2, <3>3
  <2>8. ASSUME NEW d \in Dirs \ collided, thread[t].now > TTL
        PROVE  tasks[d] >= past[thread[t].now - TTL][d]
    <3>1. tasks[d] \in Nat  BY <2>3 DEF Versions
    <3>2. tasks[d] >= past[thread[t].now][d]  BY <2>7
    <3> HIDE DEF tasks
    <3> QED  BY <2>8, <3>1, <3>2, NowTyped, Earlier
  <2>9. \A u \in Threads \ {t} : thread[u].at # "build"  BY <1>1, NobodyBuilds
  <2>10. lock' = None  BY <1>1, <2>1
  <2> HIDE DEF tasks
  <2> QED  BY <1>1, <2>1, <2>3, <2>4, <2>5, <2>6, <2>7, <2>8, <2>9, <2>10, Returning
<1>3. CASE ~ Vouched(t)
  <2>1. lock' = t /\ Goes(t, "build") /\ UNCHANGED <<cache, newest>>  BY <1>3 DEF Check
  <2> QED  BY <1>1, <2>1, GoesStep
<1> QED  BY <1>2, <1>3

(* What was read under the lock is stored with the signature taken before. *)
LEMMA StoreStep == \A t \in Threads : IndexInv /\ Store(t) => IndexInv'
<1> SUFFICES ASSUME NEW t \in Threads, IndexInv, Store(t) PROVE IndexInv'  OBVIOUS
<1> DEFINE tasks == thread[t].tasks
           signature == thread[t].signature
<1>1. /\ thread[t].at = "build" /\ DOMAIN tasks = Dirs /\ lock' = None
      /\ cache' = [signature |-> signature, tasks |-> tasks, checkedAt |-> thread[t].now]
      /\ Returns(t, tasks) /\ UNCHANGED <<clock, files, past>>
  BY DEF Store, StoredSignature, Release
<1>2. DOMAIN signature = Dirs  BY <1>1 DEF IndexInv, Progress
<1>3. tasks \in Versions /\ signature \in Signatures
  BY <1>1, <1>2, ThreadTyped DEF IndexInv, Partial, Versions, Signatures
<1>4. thread[t].now \in 0 .. MaxClock /\ thread[t].now <= clock
  BY ThreadTyped DEF IndexInv, Times
<1>5. /\ cache' \in Cache /\ cache'.tasks = tasks /\ cache'.signature = signature
      /\ cache'.checkedAt = thread[t].now
  BY <1>1, <1>3, <1>4 DEF Cache
<1>6. ASSUME NEW d \in Dirs
      PROVE  newest[d] <= tasks[d] /\ tasks[d] <= version[d] /\ Behind(signature, d)
  BY <1>1, <1>2 DEF IndexInv, Newest, TasksBehind, SignaturesBehind
<1>7. ASSUME NEW d \in Dirs \ collided, NEW r \in Threads, d \in DOMAIN thread[r].signature,
             signature[d] = thread[r].signature[d]
      PROVE  tasks[d] >= past[thread[r].now][d]
  BY <1>1, <1>2, <1>7 DEF IndexInv, SinceCall
<1>8. ASSUME NEW d \in Dirs \ collided
      PROVE  /\ signature[d] = DirectorySignature(d) => tasks[d] = version[d]
             /\ tasks[d] >= past[thread[t].now][d]
  <2>1. tasks[d] >= past[thread[t].now][d]  BY <1>2, <1>7
  <2>2. signature[d] = DirectorySignature(d) => tasks[d] = version[d]
    BY <1>1, <1>2 DEF IndexInv, Vouches
  <2> QED  BY <2>1, <2>2
<1>9. ASSUME NEW d \in Dirs \ collided, thread[t].now > TTL
      PROVE  tasks[d] >= past[thread[t].now - TTL][d]
  <2>1. tasks[d] \in Nat  BY <1>3 DEF Versions
  <2>2. tasks[d] >= past[thread[t].now][d]  BY <1>8
  <2> HIDE DEF tasks
  <2> QED  BY <1>9, <2>1, <2>2, NowTyped, Earlier
<1>10. \A u \in Threads \ {t} : thread[u].at # "build"
  <2>1. lock = t  BY <1>1 DEF IndexInv, TypeOK
  <2> QED  BY <2>1 DEF IndexInv, TypeOK
<1> HIDE DEF tasks, signature
<1> QED  BY <1>1, <1>3, <1>4, <1>5, <1>6, <1>7, <1>8, <1>9, <1>10, Returning

LEMMA Invariance == Spec => []IndexInv
<1>1. IndexInv /\ UNCHANGED vars => IndexInv'
  <2> SUFFICES ASSUME IndexInv, UNCHANGED vars PROVE IndexInv'  OBVIOUS
  <2>1. UNCHANGED <<clock, version, stamp, lock, cache, thread, past, collided, newest>>
    BY DEF vars
  <2>2. TypeOK' /\ Progress' /\ Times' /\ Past'
    BY <2>1 DEF IndexInv, TypeOK, Progress, Times, Past
  <2>3. SignaturesBehind' /\ TasksBehind' /\ CacheIsFresh' /\ Newest'
    BY <2>1 DEF IndexInv, SignaturesBehind, TasksBehind, CacheIsFresh, Newest, Behind
  <2>4. Vouches' /\ SinceCall'
    BY <2>1 DEF IndexInv, Vouches, SinceCall, SignatureVouchesForCache, DirectorySignature
  <2>5. FreshWithinTTL' /\ ListingsNeverGoBack'
    BY <2>1 DEF IndexInv, FreshWithinTTL, ListingsNeverGoBack
  <2> QED  BY <2>2, <2>3, <2>4, <2>5 DEF IndexInv
<1>2. IndexInv /\ Next => IndexInv'
  <2> SUFFICES ASSUME IndexInv, Next PROVE IndexInv'  OBVIOUS
  <2>1. CASE Tick  BY <2>1, TickStep
  <2>2. ASSUME NEW d \in Dirs, Change(d) PROVE IndexInv'  BY <2>2, ChangeStep
  <2>3. ASSUME NEW t \in Threads, Call(t) PROVE IndexInv'  BY <2>3, CallStep
  <2>4. ASSUME NEW t \in Threads, LookUp(t) PROVE IndexInv'  BY <2>4, LookUpStep
  <2>5. ASSUME NEW t \in Threads, Check(t) PROVE IndexInv'  BY <2>5, CheckStep
  <2>6. ASSUME NEW t \in Threads, Store(t) PROVE IndexInv'  BY <2>6, StoreStep
  <2>7. ASSUME NEW t \in Threads, NEW d \in Dirs, Sign(t, d) PROVE IndexInv'
    BY <2>7, SignStep
  <2>8. ASSUME NEW t \in Threads, NEW d \in Dirs, Read(t, d) PROVE IndexInv'
    BY <2>8, ReadStep
  <2> QED  BY <2>1, <2>2, <2>3, <2>4, <2>5, <2>6, <2>7, <2>8 DEF Next
<1> QED  BY InitInv, <1>1, <1>2, PTL DEF Spec

-----------------------------------------------------------------------------
(* Every state is typed, and the lock is held exactly by the thread that    *)
(* rebuilds the index (_task_index).                                        *)
THEOREM TypeCorrect == Spec => []TypeOK
<1>1. IndexInv => TypeOK  BY DEF IndexInv
<1> QED  BY <1>1, Invariance, PTL

(* The signature of the cache is never newer than its content, so that a    *)
(* directory it still fits has nothing the cache does not show              *)
(* (_task_index, _task_index_signature).                                    *)
THEOREM SignatureVouches == Spec => []SignatureVouchesForCache
<1>1. IndexInv => SignatureVouchesForCache  BY DEF IndexInv, Vouches
<1> QED  BY <1>1, Invariance, PTL

(* No listing is older than a time to live before its call, whichever       *)
(* thread took the signature and whichever built the index (_task_index).   *)
THEOREM Fresh == Spec => []FreshWithinTTL
<1>1. IndexInv => FreshWithinTTL  BY DEF IndexInv
<1> QED  BY <1>1, Invariance, PTL

(* For any number of threads, a listing shows whatever one that was over    *)
(* when it began had shown (_task_index).                                   *)
THEOREM NeverBack == Spec => []ListingsNeverGoBack
<1>1. IndexInv => ListingsNeverGoBack  BY DEF IndexInv
<1> QED  BY <1>1, Invariance, PTL
=============================================================================
