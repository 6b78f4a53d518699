------------------------- MODULE UserQueriesProofs -------------------------
(***************************************************************************)
(* Theorems about UserQueries: what the files say of each other at every   *)
(* single file operation, beside the reading threads, and after a crash at *)
(* any of them.                                                            *)
(***************************************************************************)
EXTENDS UserQueries, SequenceTheorems, TLAPS

(* Where the handler of a POST can be. *)
Place == {"new", "generating", "executing", "saving", "answered", "error"}

(* A query at one of these places has not reached _save_record. *)
Early == {"new", "generating", "executing"}

(* The file operations of a section, and what its handler answers. *)
Operation ==
    [op : {"record"}, query : Queries, value : Record \cup {None, Torn}]
    \cup [op : {"index"}, value : Seq(Queries) \cup {Torn}]
    \cup [op : {"return"}, query : Queries, value : {"answered", "error"}]

(* The values of the variables. *)
TypeOK ==
    /\ records \in [Queries -> Record \cup {None, Torn}]
    /\ index \in Seq(Queries) \cup {None, Torn}
    /\ section \in Seq(Operation)
    /\ at \in [Queries -> Place]
    /\ due \subseteq Queries
    /\ copy \in [Queries -> Record \cup {None}]
    /\ reading \in [Readers -> Reading]
    /\ saves \in Seq(Queries)
    /\ crashes \in Nat

(* What the i-th operation of the running section does. *)
Touches(i, q) == section[i].op = "record" /\ section[i].query = q
Writes(i, q) == Touches(i, q) /\ section[i].value # None
Removes(i, q) == Touches(i, q) /\ section[i].value = None
Returns(i, q) == section[i] = [op |-> "return", query |-> q, value |-> "answered"]
Rewrites(i) == section[i].op = "index"

(* A section's operations come in the order _save_record makes them in.     *)
SectionInv ==
    /\ \A i \in DOMAIN section : section[i].op = "return" => i = Len(section)
    /\ \A i \in DOMAIN section : (Rewrites(i) /\ section[i].value = Torn) =>
          i + 1 \in DOMAIN section /\ Rewrites(i + 1) /\ section[i + 1].value # Torn
    /\ \A i, j \in DOMAIN section : (i < j /\ Rewrites(i) /\ section[i].value # Torn) => ~ Rewrites(j)
    /\ \A i, j \in DOMAIN section, q \in Queries : (i < j /\ Rewrites(i)) => ~ Writes(j, q)
    /\ \A i, j \in DOMAIN section, p, q \in Queries :
          (i < j /\ Removes(i, p)) => ~ Rewrites(j) /\ ~ Writes(j, q)
    /\ \A i \in DOMAIN section, q \in Queries : (Touches(i, q) /\ section[i].value = Torn) =>
          i + 1 \in DOMAIN section /\ Touches(i + 1, q) /\ section[i + 1].value \in Record

(* What index.json will hold when the running section is done. *)
Target ==
    IF \E i \in DOMAIN section : Rewrites(i)
    THEN section[CHOOSE i \in DOMAIN section : Rewrites(i) /\ section[i].value # Torn].value
    ELSE index

(* The ids of an index that can be read contain the query. *)
Holds(ids, q) == ids \notin {None, Torn} /\ q \in Range(ids)

(* What an index that can be read says: it is bounded, has no id twice, the  *)
(* query saved last stands first, and an answered query is missing only      *)
(* behind as many later ones as the limit allows.                            *)
History(ids) ==
    /\ ids = None => \A q \in Queries : at[q] # "answered"
    /\ ids \notin {None, Torn} =>
          /\ Len(ids) <= HistoryLimit
          /\ IsInjective(ids)
          /\ \A i, j \in DOMAIN ids : i < j => SavedBefore(ids[j], ids[i])
          /\ \A q \in Range(ids) : q \in Range(saves) /\ at[q] \notin Early
          /\ \A q \in Queries : at[q] = "answered" =>
                \/ q \in Range(ids)
                \/ Len(ids) = HistoryLimit /\ \A p \in Range(ids) : SavedBefore(q, p)

(* The index on file and the one to come are both such a history, and a      *)
(* query is answered only when it is in the latter.                          *)
HistoryInv ==
    /\ History(index)
    /\ History(Target)
    /\ \A q \in Queries : at[q] = "answered" => q \in Range(saves)
    /\ \A i \in DOMAIN section, q \in Queries : Returns(i, q) =>
          at[q] = "saving" /\ q \in Range(saves) /\ Holds(Target, q)

(* A listed query has its file, one to be listed has it or gets it, and the  *)
(* files removed are those of queries that will not be listed.               *)
FileInv ==
    /\ \A q \in Listed : records[q] # None
    /\ \A q \in Queries : Holds(Target, q) =>
          records[q] # None \/ \E i \in DOMAIN section : Writes(i, q)
    /\ \A i \in DOMAIN section, q \in Queries : Removes(i, q) => ~ Holds(Target, q)

(* A query whose record is to be written before the index. *)
Fresh(q) == \E i, j \in DOMAIN section : Writes(i, q) /\ Rewrites(j)

(* The ids a thread has in hand have been in the index or answered, so they  *)
(* are not those of a query just being saved; the ones it missed are gone.   *)
ReaderInv ==
    /\ \A q \in Queries : Fresh(q) => q \notin Listed /\ at[q] = "saving"
    /\ \A t \in Readers :
          /\ reading[t].at \in {"next", "opening"} => reading[t].todo # <<>>
          /\ \A q \in Range(reading[t].todo) \cup reading[t].missed : at[q] \notin Early /\ ~ Fresh(q)
          /\ \A q \in reading[t].missed : q \notin Listed /\ ~ Holds(Target, q)

(* Without a crash each record is listed soon, brought back by its diagnosis, *)
(* or about to be removed or replaced.                                       *)
RevivalInv ==
    crashes = 0 =>
        /\ Target # Torn
        /\ \A q \in Queries : records[q] # None =>
              \/ Holds(Target, q)
              \/ records[q] # Torn /\ records[q].diagnostic \in Verdict
              \/ \E i \in DOMAIN section : Touches(i, q)
        /\ \A i \in DOMAIN section, q \in Queries : (Touches(i, q) /\ section[i].value \in Record) =>
              Holds(Target, q) \/ section[i].value.diagnostic \in Verdict

(* A diagnosis is due or under way only for an answered query, and an answer *)
(* comes with a record that can be read.                                     *)
DueInv ==
    /\ \A q \in due : 
          /\ at[q] = "answered" /\ copy[q] = None /\ records[q] # Torn
          /\ \A i \in DOMAIN section : ~ Writes(i, q)
    /\ \A q \in Queries : copy[q] # None => at[q] = "answered"
    /\ \A i \in DOMAIN section, q \in Queries : Returns(i, q) =>
          records[q] \in Record \/ \E j \in DOMAIN section : Touches(j, q) /\ section[j].value \in Record
    /\ \A i \in DOMAIN section : section[i].op = "return" => at[section[i].query] = "saving"

(* The record waits for its diagnosis. *)
Asks(r) == r \in Record /\ r.diagnostic = "pending"

(* Without a crash a record that waits for its diagnosis has a task, or a     *)
(* section that goes on to create it or to replace the record.               *)
PendingInv ==
    crashes = 0 =>
        /\ \A q \in Queries : Asks(records[q]) =>
              \/ q \in due \/ copy[q] # None
              \/ \E i \in DOMAIN section : Returns(i, q) \/ Touches(i, q)
        /\ \A i \in DOMAIN section, q \in Queries : (Touches(i, q) /\ Asks(section[i].value)) =>
              \E j \in DOMAIN section : Returns(j, q)

(* The inductive invariant. *)
Inv ==
    /\ TypeOK /\ SectionInv /\ HistoryInv /\ FileInv
    /\ ReaderInv /\ RevivalInv /\ DueInv /\ PendingInv

(* An operation writes or removes a record, writes the index, or returns. *)
LEMMA OperationKinds ==
    ASSUME NEW s \in Operation
    PROVE  \/ s.op = "record" /\ s.query \in Queries /\ s.value \in Record \cup {None, Torn}
           \/ s.op = "index" /\ s.value \in Seq(Queries) \cup {Torn}
           \/ s.op = "return" /\ s.query \in Queries /\ s.value \in {"answered", "error"}
  BY DEF Operation

(* What remains of a section when its first operation is done. *)
LEMMA Remaining ==
    ASSUME TypeOK, section # <<>>, section' = Tail(section)
    PROVE  /\ section' \in Seq(Operation)
           /\ 1 \in DOMAIN section /\ Head(section) = section[1] /\ section[1] \in Operation
           /\ Len(section) \in Nat /\ Len(section') = Len(section) - 1
           /\ DOMAIN section = 1 .. Len(section)
           /\ DOMAIN section' = 1 .. Len(section) - 1
           /\ \A i \in DOMAIN section' : i + 1 \in DOMAIN section /\ section'[i] = section[i + 1]
           /\ \A i \in DOMAIN section :
                 i = 1 \/ (i - 1 \in DOMAIN section' /\ section'[i - 1] = section[i])
<1>1. section \in Seq(Operation)
  BY DEF TypeOK
<1>2. /\ Head(section) = section[1]
      /\ section' \in Seq(Operation) /\ Len(section') = Len(section) - 1
      /\ \A i \in 1 .. Len(section') : section'[i] = section[i + 1]
  BY <1>1, HeadTailProperties
<1>3. Len(section) \in Nat /\ DOMAIN section = 1 .. Len(section) /\ Len(section) # 0
  BY <1>1, EmptySeq, LenProperties
<1>4. DOMAIN section' = 1 .. Len(section')
  BY <1>2, LenProperties
<1>5. section[1] \in Operation
  BY <1>1, <1>3, ElementOfSeq
<1> QED
  BY <1>2, <1>3, <1>4, <1>5

(* A query that is not listed goes in front of the ids, which are cut off   *)
(* at the limit: at most the last one expires.                              *)
LEMMA KeptShape ==
    ASSUME NEW q \in Queries, IndexIds \in Seq(Queries), q \notin Listed,
           Len(IndexIds) <= HistoryLimit, NEW ids, ids = Kept(Ordered(q)),
           NEW gone, gone = Expired(Ordered(q))
    PROVE  /\ ids \in Seq(Queries) /\ gone \in Seq(Queries)
           /\ Len(ids) = IF Len(IndexIds) = HistoryLimit THEN HistoryLimit ELSE Len(IndexIds) + 1
           /\ Len(gone) = IF Len(IndexIds) = HistoryLimit THEN 1 ELSE 0
           /\ ids[1] = q
           /\ \A i \in 2 .. Len(ids) : ids[i] = IndexIds[i - 1]
           /\ \A i \in 1 .. Len(gone) : gone[i] = IndexIds[HistoryLimit]
<1> DEFINE old == IndexIds
           all == Ordered(q)
           n == IF Len(all) > HistoryLimit THEN HistoryLimit ELSE Len(all)
<1>0. HistoryLimit \in Nat \ {0}
  BY BoundsAssumption
<1>1. all = <<q>> \o old
  BY DEF Ordered
<1>2. old \in Seq(Queries) /\ Len(old) \in Nat /\ Len(old) <= HistoryLimit
  BY LenProperties
<1> HIDE DEF old
<1>3. <<q>> \in Seq(Queries) /\ Len(<<q>>) = 1 /\ <<q>>[1] = q
  OBVIOUS
<1>4. /\ all \in Seq(Queries) /\ Len(all) = 1 + Len(old)
      /\ \A i \in 1 .. 1 + Len(old) : all[i] = IF i <= 1 THEN <<q>>[i] ELSE old[i - 1]
  <2> HIDE DEF all
  <2> QED
    BY <1>1, <1>2, <1>3, ConcatProperties
<1>5. all[1] = q /\ \A i \in 2 .. 1 + Len(old) : all[i] = old[i - 1]
  BY <1>2, <1>3, <1>4
<1>6. ids = SubSeq(all, 1, n) /\ gone = SubSeq(all, HistoryLimit + 1, Len(all))
  BY DEF Kept, Expired
<1> HIDE DEF all
<1>7. n \in Nat /\ n <= Len(all) /\ 1 <= n
  BY <1>0, <1>2, <1>4
<1>8. \A i \in 1 .. n : all[i] \in Queries
  BY <1>4, <1>7, ElementOfSeq
<1>9. \A i \in HistoryLimit + 1 .. Len(all) : all[i] \in Queries
  BY <1>0, <1>2, <1>4, ElementOfSeq
<1>10. /\ ids \in Seq(Queries) /\ Len(ids) = n
       /\ \A i \in 1 .. n : ids[i] = all[i]
  <2> HIDE DEF n
  <2>1. /\ SubSeq(all, 1, n) \in Seq(Queries)
        /\ Len(SubSeq(all, 1, n)) = IF 1 <= n THEN n - 1 + 1 ELSE 0
        /\ \A i \in 1 .. n - 1 + 1 : SubSeq(all, 1, n)[i] = all[1 + i - 1]
    BY <1>7, <1>8, SubSeqProperties
  <2> QED
    BY <1>6, <1>7, <2>1
<1>11. /\ gone \in Seq(Queries)
       /\ Len(gone) = IF HistoryLimit + 1 <= Len(all) THEN Len(all) - HistoryLimit ELSE 0
       /\ \A i \in 1 .. Len(all) - HistoryLimit : gone[i] = all[HistoryLimit + i]
  <2> DEFINE a == HistoryLimit + 1
             b == Len(all)
  <2>0. a \in Int /\ b \in Int /\ \A i \in a .. b : all[i] \in Queries
    BY <1>0, <1>2, <1>4, <1>9
  <2>1. a = HistoryLimit + 1 /\ b = Len(all)
    OBVIOUS
  <2> HIDE DEF a, b
  <2>2. /\ SubSeq(all, a, b) \in Seq(Queries)
        /\ Len(SubSeq(all, a, b)) = IF a <= b THEN b - a + 1 ELSE 0
        /\ \A i \in 1 .. b - a + 1 : SubSeq(all, a, b)[i] = all[a + i - 1]
    BY <2>0, SubSeqProperties
  <2> QED
    BY <1>0, <1>2, <1>4, <1>6, <2>1, <2>2
<1>12. ids[1] = q /\ \A i \in 2 .. Len(ids) : ids[i] = old[i - 1]
  BY <1>2, <1>4, <1>5, <1>7, <1>10
<1>13. Len(gone) = IF Len(old) = HistoryLimit THEN 1 ELSE 0
  BY <1>0, <1>2, <1>4, <1>11
<1>14. \A i \in 1 .. Len(gone) : gone[i] = old[HistoryLimit]
  BY <1>0, <1>2, <1>4, <1>5, <1>11, <1>13
<1>15. Len(ids) = IF Len(old) = HistoryLimit THEN HistoryLimit ELSE Len(old) + 1
  BY <1>0, <1>2, <1>4, <1>10
<1> QED
  BY <1>10, <1>11, <1>12, <1>13, <1>14, <1>15 DEF old

(* Two sequences joined: first the one, then the other. *)
LEMMA Joined ==
    ASSUME NEW S, NEW s \in Seq(S), NEW t \in Seq(S)
    PROVE  /\ s \o t \in Seq(S) /\ Len(s \o t) = Len(s) + Len(t)
           /\ \A i \in 1 .. Len(s) : (s \o t)[i] = s[i]
           /\ \A i \in 1 .. Len(t) : (s \o t)[Len(s) + i] = t[i]
<1> DEFINE m == Len(s)
           n == Len(t)
           u == s \o t
<1>1. m \in Nat /\ n \in Nat
  BY LenProperties
<1>2. /\ u \in Seq(S) /\ Len(u) = Len(s) + Len(t)
      /\ \A i \in 1 .. Len(s) + Len(t) : u[i] = IF i <= Len(s) THEN s[i] ELSE t[i - Len(s)]
  BY ConcatProperties
<1>3. ASSUME NEW i \in 1 .. m
      PROVE  u[i] = s[i]
  BY <1>1, <1>2
<1>4. ASSUME NEW i \in 1 .. n
      PROVE  u[m + i] = t[i]
  <2>1. m + i \in 1 .. Len(s) + Len(t) /\ ~ (m + i <= Len(s)) /\ m + i - Len(s) = i
    BY <1>1
  <2> QED
    BY <1>2, <2>1
<1> QED
  BY <1>1, <1>2, <1>3, <1>4

(* The operations of a save: record, index, removals and the return. *)
LEMMA SaveShape ==
    ASSUME NEW q \in Queries, NEW r \in Record, index # Torn,
           NEW ids \in Seq(Queries), ids = Kept(Ordered(q)),
           NEW gone \in Seq(Queries), gone = Expired(Ordered(q)),
           NEW s, s = SaveRecord(q, r)
    PROVE  /\ s \in Seq(Operation)
           /\ Len(s) = 5 + Len(gone)
           /\ s[1] = [op |-> "record", query |-> q, value |-> Torn]
           /\ s[2] = [op |-> "record", query |-> q, value |-> r]
           /\ s[3] = [op |-> "index", value |-> Torn]
           /\ s[4] = [op |-> "index", value |-> ids]
           /\ \A i \in 1 .. Len(gone) : s[4 + i] = [op |-> "record", query |-> gone[i], value |-> None]
           /\ s[5 + Len(gone)] = [op |-> "return", query |-> q, value |-> "answered"]
<1> DEFINE a == PutRecord(q, r)
           b == PutIndex(ids)
           c == Unlink(gone)
           d == Return(q, "answered")
<1>1. s = a \o ((b \o c) \o d)
  BY DEF SaveRecord
<1>2. /\ a \in Seq(Operation) /\ Len(a) = 2
      /\ a[1] = [op |-> "record", query |-> q, value |-> Torn]
      /\ a[2] = [op |-> "record", query |-> q, value |-> r]
  BY DEF PutRecord, Operation
<1>3. /\ b \in Seq(Operation) /\ Len(b) = 2
      /\ b[1] = [op |-> "index", value |-> Torn]
      /\ b[2] = [op |-> "index", value |-> ids]
  BY DEF PutIndex, Operation
<1>4. /\ d \in Seq(Operation) /\ Len(d) = 1
      /\ d[1] = [op |-> "return", query |-> q, value |-> "answered"]
  BY DEF Return, Operation
<1>5. Len(gone) \in Nat /\ DOMAIN gone = 1 .. Len(gone) /\ \A i \in 1 .. Len(gone) : gone[i] \in Queries
  BY LenProperties, ElementOfSeq
<1>6. /\ c \in Seq(Operation) /\ Len(c) = Len(gone)
      /\ \A i \in 1 .. Len(gone) : c[i] = [op |-> "record", query |-> gone[i], value |-> None]
  BY <1>5 DEF Unlink, Operation
<1> HIDE DEF a, b, c, d
<1>70. a \in Seq(Operation) /\ b \in Seq(Operation) /\ c \in Seq(Operation) /\ d \in Seq(Operation)
  BY <1>2, <1>3, <1>4, <1>6
<1> DEFINE e == b \o c
           f == e \o d
<1>8. e = b \o c /\ s = a \o f
  BY <1>1
<1> HIDE DEF e
<1>9. f = e \o d
  OBVIOUS
<1> HIDE DEF f
<1>101. /\ b \o c \in Seq(Operation) /\ Len(b \o c) = Len(b) + Len(c)
        /\ \A i \in 1 .. Len(b) : (b \o c)[i] = b[i]
        /\ \A i \in 1 .. Len(c) : (b \o c)[Len(b) + i] = c[i]
  BY <1>70, Joined
<1>10. /\ e \in Seq(Operation) /\ Len(e) = 2 + Len(gone)
       /\ \A i \in 1 .. 2 : e[i] = b[i]
       /\ \A i \in 1 .. Len(gone) : e[2 + i] = c[i]
  BY <1>3, <1>6, <1>8, <1>101
<1>111. /\ e \o d \in Seq(Operation) /\ Len(e \o d) = Len(e) + Len(d)
        /\ \A i \in 1 .. Len(e) : (e \o d)[i] = e[i]
        /\ \A i \in 1 .. Len(d) : (e \o d)[Len(e) + i] = d[i]
  <2>1. e \in Seq(Operation)
    BY <1>10
  <2> QED
    BY <1>70, <2>1, Joined
<1>11. /\ f \in Seq(Operation) /\ Len(f) = 2 + Len(gone) + 1
       /\ \A i \in 1 .. 2 + Len(gone) : f[i] = e[i]
       /\ \A i \in 1 .. 1 : f[2 + Len(gone) + i] = d[i]
  BY <1>4, <1>9, <1>10, <1>111
<1>121. /\ a \o f \in Seq(Operation) /\ Len(a \o f) = Len(a) + Len(f)
        /\ \A i \in 1 .. Len(a) : (a \o f)[i] = a[i]
        /\ \A i \in 1 .. Len(f) : (a \o f)[Len(a) + i] = f[i]
  <2>1. f \in Seq(Operation)
    BY <1>11
  <2> QED
    BY <1>70, <2>1, Joined
<1>12. /\ s \in Seq(Operation) /\ Len(s) = 2 + (2 + Len(gone) + 1)
       /\ \A i \in 1 .. 2 : s[i] = a[i]
       /\ \A i \in 1 .. 2 + Len(gone) + 1 : s[2 + i] = f[i]
  BY <1>2, <1>8, <1>11, <1>121
<1>13. s[1] = a[1] /\ s[2] = a[2]
  BY <1>12
<1>14. s[3] = b[1] /\ s[4] = b[2]
  <2>1. s[2 + 1] = f[1] /\ s[2 + 2] = f[2]
    BY <1>5, <1>12
  <2>2. f[1] = e[1] /\ f[2] = e[2]
    BY <1>5, <1>11
  <2>3. e[1] = b[1] /\ e[2] = b[2]
    BY <1>10
  <2> QED
    BY <2>1, <2>2, <2>3
<1>15. ASSUME NEW i \in 1 .. Len(gone)
       PROVE  s[4 + i] = c[i]
  <2>1. s[2 + (2 + i)] = f[2 + i]
    BY <1>5, <1>12
  <2>2. f[2 + i] = e[2 + i]
    BY <1>5, <1>11
  <2>3. 2 + (2 + i) = 4 + i
    BY <1>5
  <2> QED
    BY <1>10, <2>1, <2>2, <2>3
<1>16. s[5 + Len(gone)] = d[1]
  <2>1. s[2 + (2 + Len(gone) + 1)] = f[2 + Len(gone) + 1]
    BY <1>5, <1>12
  <2>2. f[2 + Len(gone) + 1] = d[1]
    BY <1>11
  <2>3. 2 + (2 + Len(gone) + 1) = 5 + Len(gone)
    BY <1>5
  <2> QED
    BY <2>1, <2>2, <2>3
<1>17. Len(s) = 5 + Len(gone)
  BY <1>5, <1>12
<1> QED
  BY <1>2, <1>3, <1>4, <1>6, <1>12, <1>13, <1>14, <1>15, <1>16, <1>17

(* The operations by name. *)
RecordOp(q, value) == [op |-> "record", query |-> q, value |-> value]
IndexOp(value) == [op |-> "index", value |-> value]
ReturnOp(q, value) == [op |-> "return", query |-> q, value |-> value]

(* The ids of the index with q before them, as many as the limit allows. *)
Prepended(ids, q) ==
    /\ ids \in Seq(Queries)
    /\ Len(ids) = IF Len(IndexIds) = HistoryLimit THEN HistoryLimit ELSE Len(IndexIds) + 1
    /\ ids[1] = q
    /\ \A i \in 2 .. Len(ids) : ids[i] = IndexIds[i - 1]

(* A list of ids is a sequence, whichever file there is. *)
LEMMA IndexIdsType == TypeOK => IndexIds \in Seq(Queries) /\ Len(IndexIds) \in Nat
<1> SUFFICES ASSUME TypeOK
             PROVE  IndexIds \in Seq(Queries) /\ Len(IndexIds) \in Nat
  OBVIOUS
<1>1. IndexIds \in Seq(Queries)
  BY DEF TypeOK, IndexIds
<1> QED
  BY <1>1, LenProperties

(* The query that is saved is not listed yet, and the list is not too long. *)
LEMMA NotListedYet ==
    ASSUME TypeOK, HistoryInv, NEW q \in Queries, at[q] \in Early
    PROVE  q \notin Listed /\ Len(IndexIds) <= HistoryLimit
<1>1. CASE index \in {None, Torn}
  <2>1. IndexIds = <<>>
    BY <1>1 DEF IndexIds
  <2>2. Len(IndexIds) = 0 /\ Listed = {}
    BY <2>1 DEF Listed, Range
  <2> QED
    BY <2>2, BoundsAssumption
<1>2. CASE index \notin {None, Torn}
  <2>1. IndexIds = index
    BY <1>2 DEF IndexIds
  <2> QED
    BY <1>2, <2>1 DEF Listed, HistoryInv, History
<1> QED
  BY <1>1, <1>2

(* What _save_record goes through: behind a torn index it raises, else it   *)
(* writes the index and removes at most one file.                           *)
LEMMA SaveOps ==
    ASSUME TypeOK, HistoryInv, NEW q \in Queries, at[q] \in Early, NEW r \in Record,
           NEW s, s = SaveRecord(q, r)
    PROVE  \/ /\ index = Torn
              /\ s = <<RecordOp(q, Torn), RecordOp(q, r), ReturnOp(q, "error")>>
           \/ /\ index # Torn
              /\ \E ids \in Seq(Queries) :
                    /\ Prepended(ids, q)
                    /\ \/ /\ Len(IndexIds) < HistoryLimit
                          /\ s = <<RecordOp(q, Torn), RecordOp(q, r), IndexOp(Torn), IndexOp(ids),
                                   ReturnOp(q, "answered")>>
                       \/ /\ Len(IndexIds) = HistoryLimit
                          /\ s = <<RecordOp(q, Torn), RecordOp(q, r), IndexOp(Torn), IndexOp(ids),
                                   RecordOp(IndexIds[HistoryLimit], None), ReturnOp(q, "answered")>>
<1>1. CASE index = Torn
  <2> DEFINE a == PutRecord(q, r)
             b == Return(q, "error")
             t == <<RecordOp(q, Torn), RecordOp(q, r), ReturnOp(q, "error")>>
  <2>1. s = a \o b
    BY <1>1 DEF SaveRecord
  <2>2. /\ a \in Seq(Operation) /\ Len(a) = 2
        /\ a[1] = RecordOp(q, Torn) /\ a[2] = RecordOp(q, r)
    BY DEF PutRecord, Operation, RecordOp
  <2>3. b \in Seq(Operation) /\ Len(b) = 1 /\ b[1] = ReturnOp(q, "error")
    BY DEF Return, Operation, ReturnOp
  <2>4. /\ t \in Seq(Operation) /\ Len(t) = 3
        /\ t[1] = RecordOp(q, Torn) /\ t[2] = RecordOp(q, r) /\ t[3] = ReturnOp(q, "error")
    BY DEF RecordOp, ReturnOp, Operation
  <2> HIDE DEF a, b, t
  <2>5. a \in Seq(Operation) /\ b \in Seq(Operation)
    BY <2>2, <2>3
  <2>6. /\ a \o b \in Seq(Operation) /\ Len(a \o b) = Len(a) + Len(b)
        /\ \A i \in 1 .. Len(a) : (a \o b)[i] = a[i]
        /\ \A i \in 1 .. Len(b) : (a \o b)[Len(a) + i] = b[i]
    BY <2>5, Joined
  <2>7. s \in Seq(Operation) /\ Len(s) = 3 /\ s[1] = t[1] /\ s[2] = t[2] /\ s[2 + 1] = t[3]
    BY <2>1, <2>2, <2>3, <2>4, <2>6
  <2>8. \A i \in 1 .. Len(s) : s[i] = t[i]
    BY <2>7
  <2>9. s = t
    BY <2>4, <2>7, <2>8, SeqEqual
  <2> QED
    BY <1>1, <2>9 DEF t
<1>2. CASE index # Torn
  <2>1. q \notin Listed /\ Len(IndexIds) <= HistoryLimit /\ IndexIds \in Seq(Queries) /\ Len(IndexIds) \in Nat
    BY NotListedYet, IndexIdsType
  <2> DEFINE ids == Kept(Ordered(q))
             gone == Expired(Ordered(q))
  <2>2. /\ ids \in Seq(Queries) /\ gone \in Seq(Queries)
        /\ Len(ids) = IF Len(IndexIds) = HistoryLimit THEN HistoryLimit ELSE Len(IndexIds) + 1
        /\ Len(gone) = IF Len(IndexIds) = HistoryLimit THEN 1 ELSE 0
        /\ ids[1] = q
        /\ \A i \in 2 .. Len(ids) : ids[i] = IndexIds[i - 1]
        /\ \A i \in 1 .. Len(gone) : gone[i] = IndexIds[HistoryLimit]
    BY <2>1, KeptShape
  <2>3. Prepended(ids, q)
    BY <2>2 DEF Prepended
  <2>4. /\ s \in Seq(Operation)
        /\ Len(s) = 5 + Len(gone)
        /\ s[1] = RecordOp(q, Torn) /\ s[2] = RecordOp(q, r)
        /\ s[3] = IndexOp(Torn) /\ s[4] = IndexOp(ids)
        /\ \A i \in 1 .. Len(gone) : s[4 + i] = RecordOp(gone[i], None)
        /\ s[5 + Len(gone)] = ReturnOp(q, "answered")
    <3>1. ids \in Seq(Queries) /\ gone \in Seq(Queries)
      BY <2>2
    <3> QED
      BY <1>2, <3>1, SaveShape DEF RecordOp, IndexOp, ReturnOp
  <2> HIDE DEF ids, gone
  <2>5. CASE Len(IndexIds) < HistoryLimit
    <3> DEFINE t == <<RecordOp(q, Torn), RecordOp(q, r), IndexOp(Torn), IndexOp(ids), ReturnOp(q, "answered")>>
    <3>1. Len(gone) = 0
      BY <2>1, <2>2, <2>5, BoundsAssumption
    <3>2. Len(s) = 5 /\ s[5] = ReturnOp(q, "answered")
      BY <2>4, <3>1
    <3>3. t \in Seq(Operation) /\ Len(t) = 5 /\ \A i \in 1 .. 5 : t[i] = s[i]
      <4>1. Len(t) = 5 /\ t[1] = s[1] /\ t[2] = s[2] /\ t[3] = s[3] /\ t[4] = s[4] /\ t[5] = s[5]
        BY <2>4, <3>2
      <4>2. \A i \in 1 .. 5 : s[i] \in Operation
        BY <2>4, <3>2, ElementOfSeq
      <4>3. t \in Seq(Operation)
        BY <2>4, <3>2, <4>2
      <4>4. \A i \in 1 .. 5 : t[i] = s[i]
        BY <4>1
      <4> QED
        BY <4>1, <4>3, <4>4
    <3> HIDE DEF t
    <3>4. s = t
      BY <2>4, <3>2, <3>3, SeqEqual
    <3> QED
      BY <1>2, <2>2, <2>3, <2>5, <3>4 DEF t
  <2>6. CASE Len(IndexIds) = HistoryLimit
    <3> DEFINE x == IndexIds[HistoryLimit]
               t == <<RecordOp(q, Torn), RecordOp(q, r), IndexOp(Torn), IndexOp(ids),
                      RecordOp(x, None), ReturnOp(q, "answered")>>
    <3>1. Len(gone) = 1 /\ gone[1] = x
      BY <2>2, <2>6
    <3>2. Len(s) = 6 /\ s[6] = ReturnOp(q, "answered")
      BY <2>4, <3>1
    <3>3. s[5] = RecordOp(x, None)
      <4>1. s[4 + 1] = RecordOp(gone[1], None)
        BY <2>4, <3>1
      <4> QED
        BY <3>1, <4>1
    <3> HIDE DEF x
    <3>4. t \in Seq(Operation) /\ Len(t) = 6 /\ \A i \in 1 .. 6 : t[i] = s[i]
      <4>1. Len(t) = 6 /\ t[1] = s[1] /\ t[2] = s[2] /\ t[3] = s[3] /\ t[4] = s[4] /\ t[5] = s[5] /\ t[6] = s[6]
        BY <2>4, <3>2, <3>3
      <4>2. \A i \in 1 .. 6 : s[i] \in Operation
        BY <2>4, <3>2, ElementOfSeq
      <4>3. t \in Seq(Operation)
        BY <2>4, <3>2, <3>3, <4>2
      <4>4. \A i \in 1 .. 6 : t[i] = s[i]
        BY <4>1
      <4> QED
        BY <4>1, <4>3, <4>4
    <3> HIDE DEF t
    <3>5. s = t
      BY <2>4, <3>2, <3>4, SeqEqual
    <3> QED
      BY <1>2, <2>2, <2>3, <2>6, <3>5 DEF t, x
  <2> QED
    BY <2>1, <2>5, <2>6, BoundsAssumption
<1> QED
  BY <1>1, <1>2

(* The running section writes this record of this query. *)
Stores(q, r) ==
    /\ section \in Seq(Operation)
    /\ SectionInv
    /\ \A i \in DOMAIN section, p \in Queries :
          Writes(i, p) => p = q /\ section[i].value \in {Torn, r}
    /\ \E i \in DOMAIN section : Touches(i, q) /\ section[i].value = r
    /\ \A i \in DOMAIN section : section[i].op = "return" => section[i].query = q

(* It writes a record and nothing else. *)
Alone ==
    /\ Target = index
    /\ \A i \in DOMAIN section : ~ Rewrites(i)
    /\ \A i \in DOMAIN section, p \in Queries : ~ Removes(i, p) /\ ~ Returns(i, p)

(* It writes these ids, removes these files and answers for this query. *)
Lists(q, ids, gone) ==
    /\ Target = ids
    /\ \E i \in DOMAIN section : Rewrites(i)
    /\ \A i \in DOMAIN section, p \in Queries : Removes(i, p) => p \in gone
    /\ \A p \in gone : \E i \in DOMAIN section : Removes(i, p)
    /\ \A i \in DOMAIN section, p \in Queries : Returns(i, p) => p = q
    /\ \E i \in DOMAIN section : Returns(i, q)

USE DEF Touches, Writes, Removes, Returns, Rewrites

(* The target is the last list of ids that is to be written. *)
LEMMA TargetIs ==
    ASSUME NEW i \in DOMAIN section, SectionInv, Rewrites(i), section[i].value # Torn,
           section \in Seq(Operation)
    PROVE  Target = section[i].value
<1> DEFINE n == CHOOSE j \in DOMAIN section : Rewrites(j) /\ section[j].value # Torn
<1>1. n \in DOMAIN section /\ Rewrites(n) /\ section[n].value # Torn
  OBVIOUS
<1>2. Target = section[n].value
  BY DEF Target
<1> HIDE DEF n
<1>3. DOMAIN section = 1 .. Len(section) /\ Len(section) \in Nat
  BY LenProperties
<1>4. n = i
  BY <1>1, <1>3 DEF SectionInv
<1> QED
  BY <1>2, <1>4

(* The same for the state after a step. *)
LEMMA TargetIsNext ==
    ASSUME NEW i \in DOMAIN section', SectionInv', Rewrites(i)', section'[i].value # Torn,
           section' \in Seq(Operation)
    PROVE  Target' = section'[i].value
<1> DEFINE n == CHOOSE j \in DOMAIN section' : section'[j].op = "index" /\ section'[j].value # Torn
<1>1. n \in DOMAIN section' /\ section'[n].op = "index" /\ section'[n].value # Torn
  OBVIOUS
<1>2. Target' = section'[n].value
  BY DEF Target
<1> HIDE DEF n
<1>3. DOMAIN section' = 1 .. Len(section') /\ Len(section') \in Nat
  BY LenProperties
<1>4. n = i
  BY <1>1, <1>3 DEF SectionInv
<1> QED
  BY <1>2, <1>4

(* The section of a diagnosis stores one record and nothing else. *)
LEMMA RecordSection ==
    ASSUME NEW q \in Queries, NEW r \in Record,
           section' = <<RecordOp(q, Torn), RecordOp(q, r)>>
    PROVE  Stores(q, r)' /\ Alone' /\ \A i \in DOMAIN section' : section'[i].op # "return"
<1>0. r # Torn /\ r # None /\ None # Torn
  BY NoneAssumption
<1>1. section' \in Seq(Operation)
  BY DEF RecordOp, Operation
<1>2. DOMAIN section' = 1 .. 2 /\ Len(section') = 2
  BY <1>1, LenProperties
<1>3. /\ section'[1].op = "record" /\ section'[1].query = q /\ section'[1].value = Torn
      /\ section'[2].op = "record" /\ section'[2].query = q /\ section'[2].value = r
  BY DEF RecordOp, IndexOp, ReturnOp
<1>4. SectionInv'
  <2>1. \A i \in 1 .. 2 : section'[i].op = "return" => i = 2
    BY <1>3
  <2>2. \A i \in 1 .. 2 : (section'[i].op = "index" /\ section'[i].value = Torn) =>
           i + 1 \in 1 .. 2 /\ section'[i + 1].op = "index" /\ section'[i + 1].value # Torn
    BY <1>0, <1>3
  <2>3. \A i, j \in 1 .. 2 : (i < j /\ section'[i].op = "index" /\ section'[i].value # Torn) =>
           section'[j].op # "index"
    BY <1>0, <1>3
  <2>4. \A i, j \in 1 .. 2 : (i < j /\ section'[i].op = "index") =>
           section'[j].op # "record" \/ section'[j].value = None
    BY <1>0, <1>3
  <2>5. \A i, j \in 1 .. 2 : (i < j /\ section'[i].op = "record" /\ section'[i].value = None) =>
           section'[j].op = "return"
    BY <1>0, <1>3
  <2>6. \A i \in 1 .. 2 : (section'[i].op = "record" /\ section'[i].value = Torn) => i = 1
    BY <1>0, <1>3
  <2> QED
    BY <1>0, <1>2, <1>3, <2>1, <2>2, <2>3, <2>4, <2>5, <2>6 DEF SectionInv
<1>5. Stores(q, r)'
  <2>1. \A i \in 1 .. 2 : (section'[i].op = "record" /\ section'[i].value # None) =>
           i \in {1, 2}
    BY <1>0, <1>3
  <2>2. \A i \in DOMAIN section', p \in Queries :
           Writes(i, p)' => p = q /\ section'[i].value \in {Torn, r}
    BY <1>2, <1>3, <2>1
  <2>3. \A i \in DOMAIN section' : section'[i].op = "return" => section'[i].query = q
    BY <1>2, <1>3
  <2> QED
    BY <1>1, <1>2, <1>3, <1>4, <2>2, <2>3 DEF Stores
<1>6. Alone'
  BY <1>0, <1>2, <1>3, NoneAssumption DEF Alone, Target
<1>7. \A i \in DOMAIN section' : section'[i].op # "return"
  BY <1>2, <1>3
<1> QED
  BY <1>5, <1>6, <1>7

(* So does a save that meets a truncated index. *)
LEMMA BriefSection ==
    ASSUME NEW q \in Queries, NEW r \in Record,
           section' = <<RecordOp(q, Torn), RecordOp(q, r), ReturnOp(q, "error")>>
    PROVE  Stores(q, r)' /\ Alone'
<1>0. r # Torn /\ r # None /\ None # Torn
  BY NoneAssumption
<1>1. section' \in Seq(Operation)
  BY DEF RecordOp, ReturnOp, Operation
<1>2. DOMAIN section' = 1 .. 3 /\ Len(section') = 3
  BY <1>1, LenProperties
<1>3. /\ section'[1].op = "record" /\ section'[1].query = q /\ section'[1].value = Torn
      /\ section'[2].op = "record" /\ section'[2].query = q /\ section'[2].value = r
      /\ section'[3] = [op |-> "return", query |-> q, value |-> "error"] /\ section'[3].op = "return"
  BY DEF RecordOp, IndexOp, ReturnOp
<1>4. SectionInv'
  <2>1. \A i \in 1 .. 3 : section'[i].op = "return" => i = 3
    BY <1>3
  <2>2. \A i \in 1 .. 3 : (section'[i].op = "index" /\ section'[i].value = Torn) =>
           i + 1 \in 1 .. 3 /\ section'[i + 1].op = "index" /\ section'[i + 1].value # Torn
    BY <1>0, <1>3
  <2>3. \A i, j \in 1 .. 3 : (i < j /\ section'[i].op = "index" /\ section'[i].value # Torn) =>
           section'[j].op # "index"
    BY <1>0, <1>3
  <2>4. \A i, j \in 1 .. 3 : (i < j /\ section'[i].op = "index") =>
           section'[j].op # "record" \/ section'[j].value = None
    BY <1>0, <1>3
  <2>5. \A i, j \in 1 .. 3 : (i < j /\ section'[i].op = "record" /\ section'[i].value = None) =>
           section'[j].op = "return"
    BY <1>0, <1>3
  <2>6. \A i \in 1 .. 3 : (section'[i].op = "record" /\ section'[i].value = Torn) => i = 1
    BY <1>0, <1>3
  <2> QED
    BY <1>0, <1>2, <1>3, <2>1, <2>2, <2>3, <2>4, <2>5, <2>6 DEF SectionInv
<1>5. Stores(q, r)'
  <2>1. \A i \in 1 .. 3 : (section'[i].op = "record" /\ section'[i].value # None) =>
           i \in {1, 2}
    BY <1>0, <1>3
  <2>2. \A i \in DOMAIN section', p \in Queries :
           Writes(i, p)' => p = q /\ section'[i].value \in {Torn, r}
    BY <1>2, <1>3, <2>1
  <2>3. \A i \in DOMAIN section' : section'[i].op = "return" => section'[i].query = q
    BY <1>2, <1>3
  <2> QED
    BY <1>1, <1>2, <1>3, <1>4, <2>2, <2>3 DEF Stores
<1>6. Alone'
  BY <1>0, <1>2, <1>3, NoneAssumption DEF Alone, Target
<1> QED
  BY <1>5, <1>6

(* A save below the limit stores the record and lists the query. *)
LEMMA ShortSection ==
    ASSUME NEW q \in Queries, NEW r \in Record, NEW ids \in Seq(Queries),
           section' = <<RecordOp(q, Torn), RecordOp(q, r), IndexOp(Torn), IndexOp(ids),
                        ReturnOp(q, "answered")>>
    PROVE  Stores(q, r)' /\ Lists(q, ids, {})'
<1>0. r # Torn /\ r # None /\ ids # Torn /\ None # Torn
  BY NoneAssumption
<1>1. section' \in Seq(Operation)
  BY DEF RecordOp, ReturnOp, IndexOp, Operation
<1>2. DOMAIN section' = 1 .. 5 /\ Len(section') = 5
  BY <1>1, LenProperties
<1>3. /\ section'[1].op = "record" /\ section'[1].query = q /\ section'[1].value = Torn
      /\ section'[2].op = "record" /\ section'[2].query = q /\ section'[2].value = r
      /\ section'[3].op = "index" /\ section'[3].value = Torn
      /\ section'[4].op = "index" /\ section'[4].value = ids
      /\ section'[5] = [op |-> "return", query |-> q, value |-> "answered"] /\ section'[5].op = "return"
  BY DEF RecordOp, IndexOp, ReturnOp
<1>4. SectionInv'
  <2>1. \A i \in 1 .. 5 : section'[i].op = "return" => i = 5
    BY <1>3
  <2>2. \A i \in 1 .. 5 : (section'[i].op = "index" /\ section'[i].value = Torn) =>
           i + 1 \in 1 .. 5 /\ section'[i + 1].op = "index" /\ section'[i + 1].value # Torn
    BY <1>0, <1>3
  <2>3. \A i, j \in 1 .. 5 : (i < j /\ section'[i].op = "index" /\ section'[i].value # Torn) =>
           section'[j].op # "index"
    BY <1>0, <1>3
  <2>4. \A i, j \in 1 .. 5 : (i < j /\ section'[i].op = "index") =>
           section'[j].op # "record" \/ section'[j].value = None
    BY <1>0, <1>3
  <2>5. \A i, j \in 1 .. 5 : (i < j /\ section'[i].op = "record" /\ section'[i].value = None) =>
           section'[j].op = "return"
    BY <1>0, <1>3
  <2>6. \A i \in 1 .. 5 : (section'[i].op = "record" /\ section'[i].value = Torn) => i = 1
    BY <1>0, <1>3
  <2> QED
    BY <1>0, <1>2, <1>3, <2>1, <2>2, <2>3, <2>4, <2>5, <2>6 DEF SectionInv
<1>5. Stores(q, r)'
  <2>1. \A i \in 1 .. 5 : (section'[i].op = "record" /\ section'[i].value # None) =>
           i \in {1, 2}
    BY <1>0, <1>3
  <2>2. \A i \in DOMAIN section', p \in Queries :
           Writes(i, p)' => p = q /\ section'[i].value \in {Torn, r}
    BY <1>2, <1>3, <2>1
  <2>3. \A i \in DOMAIN section' : section'[i].op = "return" => section'[i].query = q
    BY <1>2, <1>3
  <2> QED
    BY <1>1, <1>2, <1>3, <1>4, <2>2, <2>3 DEF Stores
<1>6. Target' = ids
  BY <1>0, <1>1, <1>2, <1>3, <1>4, TargetIsNext 
<1>7. Lists(q, ids, {})'
  BY <1>0, <1>2, <1>3, <1>6 DEF Lists
<1> QED
  BY <1>5, <1>7

(* At the limit it also removes the file of the query cut off. *)
LEMMA LongSection ==
    ASSUME NEW q \in Queries, NEW r \in Record, NEW ids \in Seq(Queries), NEW x \in Queries,
           section' = <<RecordOp(q, Torn), RecordOp(q, r), IndexOp(Torn), IndexOp(ids),
                        RecordOp(x, None), ReturnOp(q, "answered")>>
    PROVE  Stores(q, r)' /\ Lists(q, ids, {x})'
<1>0. r # Torn /\ r # None /\ ids # Torn /\ None # Torn
  BY NoneAssumption
<1>1. section' \in Seq(Operation)
  BY DEF RecordOp, ReturnOp, IndexOp, Operation
<1>2. DOMAIN section' = 1 .. 6 /\ Len(section') = 6
  BY <1>1, LenProperties
<1>3. /\ section'[1].op = "record" /\ section'[1].query = q /\ section'[1].value = Torn
      /\ section'[2].op = "record" /\ section'[2].query = q /\ section'[2].value = r
      /\ section'[3].op = "index" /\ section'[3].value = Torn
      /\ section'[4].op = "index" /\ section'[4].value = ids
      /\ section'[5].op = "record" /\ section'[5].query = x /\ section'[5].value = None
      /\ section'[6] = [op |-> "return", query |-> q, value |-> "answered"] /\ section'[6].op = "return"
  BY DEF RecordOp, IndexOp, ReturnOp
<1>4. SectionInv'
  <2>1. \A i \in 1 .. 6 : section'[i].op = "return" => i = 6
    BY <1>3
  <2>2. \A i \in 1 .. 6 : (section'[i].op = "index" /\ section'[i].value = Torn) =>
           i + 1 \in 1 .. 6 /\ section'[i + 1].op = "index" /\ section'[i + 1].value # Torn
    BY <1>0, <1>3
  <2>3. \A i, j \in 1 .. 6 : (i < j /\ section'[i].op = "index" /\ section'[i].value # Torn) =>
           section'[j].op # "index"
    BY <1>0, <1>3
  <2>4. \A i, j \in 1 .. 6 : (i < j /\ section'[i].op = "index") =>
           section'[j].op # "record" \/ section'[j].value = None
    BY <1>0, <1>3
  <2>5. \A i, j \in 1 .. 6 : (i < j /\ section'[i].op = "record" /\ section'[i].value = None) =>
           section'[j].op = "return"
    BY <1>0, <1>3
  <2>6. \A i \in 1 .. 6 : (section'[i].op = "record" /\ section'[i].value = Torn) => i = 1
    BY <1>0, <1>3
  <2> QED
    BY <1>0, <1>2, <1>3, <2>1, <2>2, <2>3, <2>4, <2>5, <2>6 DEF SectionInv
<1>5. Stores(q, r)'
  <2>1. \A i \in 1 .. 6 : (section'[i].op = "record" /\ section'[i].value # None) =>
           i \in {1, 2}
    BY <1>0, <1>3
  <2>2. \A i \in DOMAIN section', p \in Queries :
           Writes(i, p)' => p = q /\ section'[i].value \in {Torn, r}
    BY <1>2, <1>3, <2>1
  <2>3. \A i \in DOMAIN section' : section'[i].op = "return" => section'[i].query = q
    BY <1>2, <1>3
  <2> QED
    BY <1>1, <1>2, <1>3, <1>4, <2>2, <2>3 DEF Stores
<1>6. Target' = ids
  BY <1>0, <1>1, <1>2, <1>3, <1>4, TargetIsNext 
<1>7. Lists(q, ids, {x})'
  BY <1>0, <1>2, <1>3, <1>6 DEF Lists
<1> QED
  BY <1>5, <1>7

(* No operation is left: nothing is to be written. *)
LEMMA NoSection ==
    ASSUME section' = <<>>
    PROVE  section' \in Seq(Operation) /\ SectionInv' /\ Alone'
  BY DEF SectionInv, Alone, Target

(* Between two sections index.json holds what it is to hold. *)
LEMMA LoopIdles ==
    ASSUME LoopIdle
    PROVE  DOMAIN section = {} /\ Target = index
  BY DEF LoopIdle, Target

(* What a POST's save puts into the section. *)
LEMMA ConcludeSection ==
    ASSUME TypeOK, HistoryInv, NEW q \in Queries, Conclude(q)
    PROVE  \E r \in Record :
              /\ r.diagnostic \in {"not_required", "pending"}
              /\ Stores(q, r)'
              /\ \/ index = Torn /\ Alone'
                 \/ /\ index # Torn
                    /\ \E ids \in Seq(Queries), gone \in SUBSET Queries :
                          /\ Prepended(ids, q)
                          /\ gone = IF Len(IndexIds) = HistoryLimit THEN {IndexIds[HistoryLimit]} ELSE {}
                          /\ Lists(q, ids, gone)'
<1>1. at[q] \in Early
  BY DEF Conclude, Early
<1>2. PICK status \in Status :
         section' = SaveRecord(q, [status |-> status,
                       diagnostic |-> IF status = "completed" THEN "not_required" ELSE "pending"])
  BY DEF Conclude, Status
<1> DEFINE r == [status |-> status, diagnostic |-> IF status = "completed" THEN "not_required" ELSE "pending"]
<1>3. r \in Record /\ r.diagnostic \in {"not_required", "pending"}
  BY DEF Record
<1>4. section' = SaveRecord(q, r)
  BY <1>2
<1> HIDE DEF r
<1>5. \/ /\ index = Torn
         /\ section' = <<RecordOp(q, Torn), RecordOp(q, r), ReturnOp(q, "error")>>
      \/ /\ index # Torn
         /\ \E ids \in Seq(Queries) :
               /\ Prepended(ids, q)
               /\ \/ /\ Len(IndexIds) < HistoryLimit
                     /\ section' = <<RecordOp(q, Torn), RecordOp(q, r), IndexOp(Torn), IndexOp(ids),
                              ReturnOp(q, "answered")>>
                  \/ /\ Len(IndexIds) = HistoryLimit
                     /\ section' = <<RecordOp(q, Torn), RecordOp(q, r), IndexOp(Torn), IndexOp(ids),
                              RecordOp(IndexIds[HistoryLimit], None), ReturnOp(q, "answered")>>
  BY <1>1, <1>3, <1>4, SaveOps
<1>6. CASE index = Torn
  <2>1. section' = <<RecordOp(q, Torn), RecordOp(q, r), ReturnOp(q, "error")>>
    BY <1>5, <1>6
  <2> QED
    BY <1>3, <1>6, <2>1, BriefSection
<1>7. CASE index # Torn
  <2>1. PICK ids \in Seq(Queries) :
               /\ Prepended(ids, q)
               /\ \/ /\ Len(IndexIds) < HistoryLimit
                     /\ section' = <<RecordOp(q, Torn), RecordOp(q, r), IndexOp(Torn), IndexOp(ids),
                              ReturnOp(q, "answered")>>
                  \/ /\ Len(IndexIds) = HistoryLimit
                     /\ section' = <<RecordOp(q, Torn), RecordOp(q, r), IndexOp(Torn), IndexOp(ids),
                              RecordOp(IndexIds[HistoryLimit], None), ReturnOp(q, "answered")>>
    BY <1>5, <1>7
  <2>2. IndexIds \in Seq(Queries) /\ Len(IndexIds) \in Nat
    BY IndexIdsType
  <2>3. CASE Len(IndexIds) < HistoryLimit
    <3>1. Stores(q, r)' /\ Lists(q, ids, {})'
      BY <1>3, <2>1, <2>2, <2>3, BoundsAssumption, ShortSection
    <3>2. Len(IndexIds) # HistoryLimit
      BY <2>2, <2>3, BoundsAssumption
    <3> QED
      BY <1>3, <1>7, <2>1, <3>1, <3>2
  <2>4. CASE Len(IndexIds) = HistoryLimit
    <3>1. PICK x \in Queries : x = IndexIds[HistoryLimit]
      BY <2>2, <2>4, BoundsAssumption, ElementOfSeq
    <3>2. section' = <<RecordOp(q, Torn), RecordOp(q, r), IndexOp(Torn), IndexOp(ids),
                       RecordOp(x, None), ReturnOp(q, "answered")>>
      BY <2>1, <2>4, <3>1, BoundsAssumption
    <3>3. Stores(q, r)' /\ Lists(q, ids, {x})'
      BY <1>3, <3>2, LongSection
    <3>4. \E gone \in SUBSET Queries :
             /\ Prepended(ids, q)
             /\ gone = IF Len(IndexIds) = HistoryLimit THEN {IndexIds[HistoryLimit]} ELSE {}
             /\ Lists(q, ids, gone)'
      <4> WITNESS {x} \in SUBSET Queries
      <4> QED
        BY <2>1, <2>4, <3>1, <3>3
    <3>5. Stores(q, r)'
      BY <3>3
    <3> QED
      BY <1>3, <1>7, <3>4, <3>5
  <2> QED
    BY <2>1, <2>3, <2>4
<1> QED
  BY <1>6, <1>7

(* What a diagnosis puts into it. *)
LEMMA FinishSection ==
    ASSUME TypeOK, NEW q \in Queries, FinishDiagnosis(q)
    PROVE  /\ \E r \in Record : r.diagnostic \in Verdict /\ Stores(q, r)' /\ Alone'
           /\ \A i \in DOMAIN section' : section'[i].op # "return"
<1>1. PICK verdict \in Verdict : section' = PutRecord(q, [copy[q] EXCEPT !.diagnostic = verdict])
  BY DEF FinishDiagnosis
<1>2. copy[q] \in Record
  BY DEF TypeOK, FinishDiagnosis
<1>3. PICK r \in Record : r = [copy[q] EXCEPT !.diagnostic = verdict] /\ r.diagnostic = verdict
  <2> DEFINE s == [copy[q] EXCEPT !.diagnostic = verdict]
  <2>1. s \in Record /\ s.diagnostic = verdict
    BY <1>2 DEF Record
  <2> QED
    BY <2>1
<1>4. section' = <<RecordOp(q, Torn), RecordOp(q, r)>>
  BY <1>1, <1>3 DEF PutRecord, RecordOp
<1>5. Stores(q, r)' /\ Alone' /\ \A i \in DOMAIN section' : section'[i].op # "return"
  BY <1>4, RecordSection
<1> QED
  BY <1>3, <1>5

(* A file operation changes neither what is to become of the index, nor the *)
(* order of what is left.                                                   *)
LEMMA FileStepKeeps ==
    ASSUME TypeOK, SectionInv, FileStep
    PROVE  SectionInv' /\ Target' = Target
<1>1. /\ section' \in Seq(Operation)
      /\ 1 \in DOMAIN section /\ Head(section) = section[1] /\ section[1] \in Operation
      /\ Len(section) \in Nat /\ Len(section') = Len(section) - 1
      /\ DOMAIN section = 1 .. Len(section)
      /\ DOMAIN section' = 1 .. Len(section) - 1
      /\ \A i \in DOMAIN section' : i + 1 \in DOMAIN section /\ section'[i] = section[i + 1]
      /\ \A i \in DOMAIN section :
            i = 1 \/ (i - 1 \in DOMAIN section' /\ section'[i - 1] = section[i])
  BY Remaining DEF FileStep
<1>2. SectionInv'
  <2>1. \A i \in DOMAIN section' : section'[i].op = "return" => i = Len(section')
    BY <1>1 DEF SectionInv
  <2>2. \A i \in DOMAIN section' : (section'[i].op = "index" /\ section'[i].value = Torn) =>
          i + 1 \in DOMAIN section' /\ section'[i + 1].op = "index" /\ section'[i + 1].value # Torn
    <3> TAKE i \in DOMAIN section'
    <3> HAVE section'[i].op = "index" /\ section'[i].value = Torn
    <3>1. i + 1 \in DOMAIN section /\ section[i + 1].op = "index" /\ section[i + 1].value = Torn
      BY <1>1
    <3>2. (i + 1) + 1 \in DOMAIN section /\ section[(i + 1) + 1].op = "index" /\ section[(i + 1) + 1].value # Torn
      BY <3>1 DEF SectionInv
    <3>3. i + 1 \in DOMAIN section'
      BY <1>1, <3>2
    <3> QED
      BY <1>1, <3>2, <3>3
  <2>3. \A i, j \in DOMAIN section' :
           (i < j /\ section'[i].op = "index" /\ section'[i].value # Torn) => section'[j].op # "index"
    BY <1>1 DEF SectionInv
  <2>4. \A i, j \in DOMAIN section', q \in Queries : (i < j /\ Rewrites(i)') => ~ Writes(j, q)'
    BY <1>1 DEF SectionInv
  <2>5. \A i, j \in DOMAIN section', p, q \in Queries :
          (i < j /\ Removes(i, p)') => ~ Rewrites(j)' /\ ~ Writes(j, q)'
    BY <1>1 DEF SectionInv
  <2>6. \A i \in DOMAIN section', q \in Queries : (Touches(i, q)' /\ section'[i].value = Torn) =>
          i + 1 \in DOMAIN section' /\ Touches(i + 1, q)' /\ section'[i + 1].value \in Record
    <3> TAKE i \in DOMAIN section', q \in Queries
    <3> HAVE Touches(i, q)' /\ section'[i].value = Torn
    <3>1. i + 1 \in DOMAIN section /\ Touches(i + 1, q) /\ section[i + 1].value = Torn
      BY <1>1
    <3>2. (i + 1) + 1 \in DOMAIN section /\ Touches((i + 1) + 1, q) /\ section[(i + 1) + 1].value \in Record
      BY <3>1 DEF SectionInv
    <3>3. i + 1 \in DOMAIN section'
      BY <1>1, <3>2
    <3> QED
      BY <1>1, <3>2, <3>3
  <2> QED
    BY <2>1, <2>2, <2>3, <2>4, <2>5, <2>6 DEF SectionInv
<1>3. Target' = Target
  <2>1. section \in Seq(Operation)
    BY DEF TypeOK
  <2>2. CASE \E i \in DOMAIN section' : Rewrites(i)'
    <3>1. PICK i \in DOMAIN section' : Rewrites(i)' /\ section'[i].value # Torn
      BY <1>2, <2>2 DEF SectionInv
    <3>2. Target' = section'[i].value
      BY <1>1, <1>2, <3>1, TargetIsNext
    <3>3. i + 1 \in DOMAIN section /\ section'[i] = section[i + 1]
      BY <1>1
    <3>4. Target = section[i + 1].value
      BY <2>1, <3>1, <3>3, TargetIs
    <3> QED
      BY <3>2, <3>3, <3>4
  <2>3. CASE (\A i \in DOMAIN section' : ~ Rewrites(i)') /\ Rewrites(1)
    <3>1. section[1].value # Torn
      <4> SUFFICES ASSUME section[1].value = Torn PROVE FALSE
        OBVIOUS
      <4>1. 1 + 1 \in DOMAIN section /\ Rewrites(1 + 1)
        BY <1>1, <2>3 DEF SectionInv
      <4> QED
        BY <1>1, <2>3, <4>1
    <3>2. Target = section[1].value
      BY <1>1, <2>1, <2>3, <3>1, TargetIs
    <3>3. Target' = index'
      BY <2>3 DEF Target
    <3>4. index' = section[1].value
      BY <1>1, <2>3 DEF FileStep
    <3> QED
      BY <3>2, <3>3, <3>4
  <2>4. CASE (\A i \in DOMAIN section' : ~ Rewrites(i)') /\ ~ Rewrites(1)
    <3>1. \A i \in DOMAIN section : ~ Rewrites(i)
      BY <1>1, <2>4
    <3>2. Target = index /\ Target' = index'
      BY <2>4, <3>1 DEF Target
    <3>3. index' = index
      BY <1>1, <2>4, OperationKinds DEF FileStep
    <3> QED
      BY <3>2, <3>3
  <2> QED
    BY <2>2, <2>3, <2>4
<1> QED
  BY <1>2, <1>3

(* A file operation writes one record, writes the index, or returns. *)
LEMMA FileStepKinds ==
    ASSUME TypeOK, FileStep
    PROVE  /\ section # <<>> /\ section' = Tail(section)
           /\ UNCHANGED <<copy, saves, reading, crashes>>
           /\ \/ \E q \in Queries, v \in Record \cup {None, Torn} :
                    /\ Touches(1, q) /\ section[1].value = v
                    /\ records' = [records EXCEPT ![q] = v]
                    /\ UNCHANGED <<index, at, due>>
              \/ /\ Rewrites(1) /\ section[1].value \in Seq(Queries) \cup {Torn}
                 /\ index' = section[1].value
                 /\ UNCHANGED <<records, at, due>>
              \/ \E q \in Queries, v \in {"answered", "error"} :
                    /\ section[1] = ReturnOp(q, v)
                    /\ at' = [at EXCEPT ![q] = v]
                    /\ due' = IF v = "answered" /\ records[q].diagnostic = "pending"
                              THEN due \cup {q} ELSE due
                    /\ UNCHANGED <<records, index>>
<1>1. section # <<>> /\ section' = Tail(section) /\ UNCHANGED <<copy, saves, reading, crashes>>
  BY DEF FileStep
<1>2. Head(section) = section[1] /\ section[1] \in Operation
  BY <1>1, Remaining
<1>3. CASE section[1].op = "record"
  <2>1. section[1].query \in Queries /\ section[1].value \in Record \cup {None, Torn}
    BY <1>2, <1>3, OperationKinds
  <2>2. /\ records' = [records EXCEPT ![section[1].query] = section[1].value]
        /\ UNCHANGED <<index, at, due>>
    BY <1>2, <1>3 DEF FileStep
  <2> QED
    BY <1>1, <1>3, <2>1, <2>2
<1>4. CASE section[1].op = "index"
  <2>1. section[1].value \in Seq(Queries) \cup {Torn}
    BY <1>2, <1>4, OperationKinds
  <2>2. index' = section[1].value /\ UNCHANGED <<records, at, due>>
    BY <1>2, <1>4 DEF FileStep
  <2> QED
    BY <1>1, <1>4, <2>1, <2>2
<1>5. CASE section[1].op = "return"
  <2>1. section[1].query \in Queries /\ section[1].value \in {"answered", "error"}
    BY <1>2, <1>5, OperationKinds
  <2>2. section[1] = ReturnOp(section[1].query, section[1].value)
    BY <1>2, <1>5 DEF Operation, ReturnOp
  <2>3. /\ at' = [at EXCEPT ![section[1].query] = section[1].value]
        /\ due' = IF section[1].value = "answered" /\ records[section[1].query].diagnostic = "pending"
                  THEN due \cup {section[1].query} ELSE due
        /\ UNCHANGED <<records, index>>
    BY <1>2, <1>5 DEF FileStep
  <2> QED
    BY <1>1, <2>1, <2>2, <2>3
<1> QED
  BY <1>2, <1>3, <1>4, <1>5, OperationKinds

(* The requests that read leave what the loop has alone. *)
LEMMA ReadingKeeps ==
    ASSUME NEW t \in Readers,
           \/ ListUserQueries(t) \/ LookForRecord(t) \/ ReadRecord(t)
           \/ \E q \in Queries : GetUserQuery(t, q)
    PROVE  UNCHANGED <<records, index, section, at, due, copy, saves, crashes>>
  BY DEF ListUserQueries, LookForRecord, ReadRecord, GetUserQuery, loop

(* Files, handlers, tasks and threads keep their shape. *)
LEMMA ReadingType ==
    ASSUME TypeOK, ReaderInv, NEW t \in Readers,
           \/ ListUserQueries(t) \/ LookForRecord(t) \/ ReadRecord(t)
           \/ \E q \in Queries : GetUserQuery(t, q)
    PROVE  reading' \in [Readers -> Reading]
<1> DEFINE r == reading[t]
<1>1. /\ reading \in [Readers -> Reading] /\ r \in Reading
      /\ r.at \in {"idle", "next", "opening", "done", "error"}
      /\ r.todo \in Seq(Queries) /\ r.shown \subseteq Queries /\ r.missed \subseteq Queries
  BY DEF TypeOK, Reading
<1>2. IndexIds \in Seq(Queries)
  BY IndexIdsType
<1>3. ASSUME r.todo # <<>>
      PROVE  Head(r.todo) \in Queries /\ Tail(r.todo) \in Seq(Queries)
  <2>1. r.todo \in Seq(Queries)
    BY <1>1
  <2> HIDE DEF r
  <2> QED
    BY <1>3, <2>1, HeadTailProperties
<1>5. CASE ListUserQueries(t)
  <2> DEFINE s == IF index = Torn THEN [r EXCEPT !.at = "error"]
                  ELSE [r EXCEPT !.at = IF IndexIds = <<>> THEN "done" ELSE "next", !.todo = IndexIds]
  <2>1. s \in Reading
    BY <1>1, <1>2 DEF Reading
  <2>2. Move(t, s)
    BY <1>5 DEF ListUserQueries
  <2> HIDE DEF s
  <2> QED
    BY <1>1, <2>1, <2>2 DEF Move
<1>6. ASSUME NEW q \in Queries, GetUserQuery(t, q)
      PROVE  reading' \in [Readers -> Reading]
  <2> DEFINE s == [r EXCEPT !.at = "next", !.todo = <<q>>]
  <2>1. s \in Reading
    <3>1. <<q>> \in Seq(Queries)
      OBVIOUS
    <3> DEFINE ids == <<q>>
    <3>2. ids \in Seq(Queries)
      BY <3>1
    <3> HIDE DEF ids
    <3>3. [r EXCEPT !.at = "next", !.todo = ids] \in Reading
      BY <1>1, <3>2 DEF Reading
    <3> QED
      BY <3>3 DEF ids
  <2>2. Move(t, s)
    BY <1>6 DEF GetUserQuery
  <2> HIDE DEF s
  <2> QED
    BY <1>1, <2>1, <2>2 DEF Move
<1>7. ASSUME r.todo # <<>>, NEW Q \in SUBSET Queries
      PROVE  /\ [r EXCEPT !.at = "opening"] \in Reading /\ [r EXCEPT !.at = "error"] \in Reading
             /\ [Advance(r) EXCEPT !.missed = Q] \in Reading
             /\ [Advance(r) EXCEPT !.shown = Q] \in Reading
  <2>1. Tail(r.todo) \in Seq(Queries)
    BY <1>3, <1>7
  <2>2. Advance(r) \in Reading
    BY <1>1, <2>1 DEF Advance, Reading
  <2> QED
    BY <1>1, <2>2 DEF Reading
<1>8. CASE LookForRecord(t)
  <2> DEFINE q == Head(r.todo)
             s == IF records[q] # None THEN [r EXCEPT !.at = "opening"]
                  ELSE [Advance(r) EXCEPT !.missed = r.missed \cup {q}]
  <2>1. Move(t, s)
    BY <1>8 DEF LookForRecord
  <2>2. r.todo # <<>> /\ q \in Queries
    BY <1>3, <1>8 DEF LookForRecord, ReaderInv
  <2>3. PICK Q \in SUBSET Queries : Q = r.missed \cup {q}
    BY <1>1, <2>2
  <2>4. s \in Reading
    BY <1>7, <2>2, <2>3
  <2> HIDE DEF s
  <2> QED
    BY <1>1, <2>1, <2>4 DEF Move
<1>9. CASE ReadRecord(t)
  <2> DEFINE q == Head(r.todo)
             s == IF ~ Readable(q) THEN [r EXCEPT !.at = "error"]
                  ELSE [Advance(r) EXCEPT !.shown = r.shown \cup {q}]
  <2>1. Move(t, s)
    BY <1>9 DEF ReadRecord
  <2>2. r.todo # <<>> /\ q \in Queries
    BY <1>3, <1>9 DEF ReadRecord, ReaderInv
  <2>3. PICK Q \in SUBSET Queries : Q = r.shown \cup {q}
    BY <1>1, <2>2
  <2>4. s \in Reading
    BY <1>7, <2>2, <2>3
  <2> HIDE DEF s
  <2> QED
    BY <1>1, <2>1, <2>4 DEF Move
<1> QED
  BY <1>5, <1>6, <1>8, <1>9

(* Every step keeps the types. *)
LEMMA TypeStep == Inv /\ [Next]_vars => TypeOK'
<1> SUFFICES ASSUME Inv, [Next]_vars
             PROVE  TypeOK'
  OBVIOUS
<1>0. TypeOK /\ SectionInv /\ HistoryInv /\ DueInv /\ ReaderInv
  BY DEF Inv
<1>1. ASSUME FileStep
      PROVE  TypeOK'
  <2>1. section' \in Seq(Operation)
    BY <1>0, <1>1, FileStepKinds, Remaining
  <2>2. UNCHANGED <<copy, saves, reading, crashes>>
    BY <1>1 DEF FileStep
  <2>3. /\ records' \in [Queries -> Record \cup {None, Torn}]
        /\ index' \in Seq(Queries) \cup {None, Torn}
        /\ at' \in [Queries -> Place]
        /\ due' \subseteq Queries
    <3>1. CASE \E q \in Queries, v \in Record \cup {None, Torn} :
                    /\ Touches(1, q) /\ section[1].value = v
                    /\ records' = [records EXCEPT ![q] = v]
                    /\ UNCHANGED <<index, at, due>>
      BY <1>0, <3>1 DEF TypeOK
    <3>2. CASE /\ Rewrites(1) /\ section[1].value \in Seq(Queries) \cup {Torn}
               /\ index' = section[1].value
               /\ UNCHANGED <<records, at, due>>
      BY <1>0, <3>2 DEF TypeOK
    <3>3. CASE \E q \in Queries, v \in {"answered", "error"} :
                    /\ section[1] = ReturnOp(q, v)
                    /\ at' = [at EXCEPT ![q] = v]
                    /\ due' = IF v = "answered" /\ records[q].diagnostic = "pending"
                              THEN due \cup {q} ELSE due
                    /\ UNCHANGED <<records, index>>
      BY <1>0, <3>3 DEF TypeOK, Place
    <3> QED
      BY <1>0, <1>1, <3>1, <3>2, <3>3, FileStepKinds
  <2> QED
    BY <1>0, <2>1, <2>2, <2>3 DEF TypeOK
<1>2. ASSUME NEW q \in Queries, CreateUserQuery(q) \/ Generated(q)
      PROVE  TypeOK'
  <2>1. at' = [at EXCEPT ![q] = "generating"] \/ at' = [at EXCEPT ![q] = "executing"]
    BY <1>2 DEF CreateUserQuery, Generated
  <2>2. UNCHANGED <<records, index, section, due, copy, saves, reading, crashes>>
    BY <1>2 DEF CreateUserQuery, Generated
  <2> QED
    BY <1>0, <2>1, <2>2 DEF TypeOK, Place
<1>3. ASSUME NEW q \in Queries, Conclude(q)
      PROVE  TypeOK'
  <2>1. section' \in Seq(Operation)
    BY <1>0, <1>3, ConcludeSection DEF Stores
  <2>2. /\ at' = [at EXCEPT ![q] = "saving"]
        /\ saves' = Append(saves, q)
        /\ UNCHANGED <<records, index, due, copy, reading, crashes>>
    BY <1>3 DEF Conclude
  <2>3. saves' \in Seq(Queries)
    BY <1>0, <2>2, AppendProperties DEF TypeOK
  <2>4. at' \in [Queries -> Place]
    BY <1>0, <2>2 DEF TypeOK, Place
  <2> QED
    BY <1>0, <2>1, <2>2, <2>3, <2>4 DEF TypeOK
<1>4. ASSUME NEW q \in Queries, StartDiagnosis(q)
      PROVE  TypeOK'
  <2>1. records[q] \in Record \cup {None}
    BY <1>0, <1>4 DEF TypeOK, DueInv, StartDiagnosis
  <2> QED
    BY <1>0, <1>4, <2>1 DEF TypeOK, StartDiagnosis
<1>5. ASSUME NEW q \in Queries, FinishDiagnosis(q)
      PROVE  TypeOK'
  <2>1. section' \in Seq(Operation)
    BY <1>0, <1>5, FinishSection DEF Stores
  <2>2. copy' = [copy EXCEPT ![q] = None] /\ UNCHANGED <<records, index, at, due, saves, reading, crashes>>
    BY <1>5 DEF FinishDiagnosis
  <2> QED
    BY <1>0, <2>1, <2>2 DEF TypeOK
<1>6. ASSUME NEW t \in Readers, ListUserQueries(t) \/ (\E q \in Queries : GetUserQuery(t, q)) \/ Read(t)
      PROVE  TypeOK'
  <2>1. \/ ListUserQueries(t) \/ LookForRecord(t) \/ ReadRecord(t)
        \/ \E q \in Queries : GetUserQuery(t, q)
    BY <1>6 DEF Read
  <2>2. UNCHANGED <<records, index, section, at, due, copy, saves, crashes>>
    BY <2>1, ReadingKeeps
  <2>3. reading' \in [Readers -> Reading]
    BY <1>0, <2>1, ReadingType
  <2> QED
    BY <1>0, <2>2, <2>3 DEF TypeOK
<1>7. ASSUME Crash
      PROVE  TypeOK'
  <2>1. /\ section' = <<>> /\ due' = {}
        /\ UNCHANGED <<records, index, saves>>
        /\ crashes' = crashes + 1
    BY <1>7 DEF Crash
  <2>2. at' \in [Queries -> Place]
    BY <1>0, <1>7 DEF Crash, TypeOK, Place
  <2>3. copy' \in [Queries -> Record \cup {None}]
    BY <1>7 DEF Crash
  <2>4. reading' \in [Readers -> Reading]
    BY <1>7 DEF Crash, Resting, Reading
  <2>5. section' \in Seq(Operation)
    BY <2>1
  <2> QED
    BY <1>0, <2>1, <2>2, <2>3, <2>4, <2>5 DEF TypeOK
<1>8. ASSUME UNCHANGED vars
      PROVE  TypeOK'
  BY <1>0, <1>8 DEF TypeOK, vars, loop
<1> QED
  BY <1>1, <1>2, <1>3, <1>4, <1>5, <1>6, <1>7, <1>8 DEF Next, Handle, Diagnose

(* The order of the operations. *)
LEMMA SectionStep == Inv /\ [Next]_vars => SectionInv'
<1> SUFFICES ASSUME Inv, [Next]_vars
             PROVE  SectionInv'
  OBVIOUS
<1>0. TypeOK /\ SectionInv /\ HistoryInv
  BY DEF Inv
<1>1. CASE UNCHANGED section
  BY <1>0, <1>1 DEF SectionInv
<1>2. CASE FileStep
  BY <1>0, <1>2, FileStepKeeps
<1>3. ASSUME NEW q \in Queries, Conclude(q)
      PROVE  SectionInv'
  BY <1>0, <1>3, ConcludeSection DEF Stores
<1>4. ASSUME NEW q \in Queries, FinishDiagnosis(q)
      PROVE  SectionInv'
  BY <1>0, <1>4, FinishSection DEF Stores
<1>5. CASE section' = <<>>
  BY <1>5, NoSection
<1>6. ASSUME NEW q \in Queries, CreateUserQuery(q) \/ Generated(q) \/ StartDiagnosis(q)
      PROVE  UNCHANGED section
  BY <1>6 DEF CreateUserQuery, Generated, StartDiagnosis
<1>7. ASSUME NEW t \in Readers, ListUserQueries(t) \/ (\E q \in Queries : GetUserQuery(t, q)) \/ Read(t)
      PROVE  UNCHANGED section
  BY <1>7, ReadingKeeps DEF Read
<1> QED
  BY <1>1, <1>2, <1>3, <1>4, <1>5, <1>6, <1>7 DEF Next, Handle, Diagnose, Crash, vars, loop

(* Answers and saves so far are not taken back, and no query starts again. *)
Onward ==
    /\ \A q \in Queries : at'[q] = "answered" => at[q] = "answered"
    /\ \A q \in Queries : at'[q] \in Early => at[q] \in Early
    /\ Range(saves) \subseteq Range(saves')
    /\ \A p, q \in Queries : SavedBefore(p, q) => SavedBefore(p, q)'

(* Such a step leaves the history of a list of ids in order. *)
LEMMA HistoryLasts ==
    ASSUME Onward, NEW ids \in Seq(Queries) \cup {None, Torn}, History(ids)
    PROVE  History(ids)'
<1>1. CASE ids \in {None, Torn}
  BY <1>1 DEF History, Onward
<1>2. CASE ids \notin {None, Torn}
  <2>0. ids \in Seq(Queries) /\ ids # None
    BY <1>2
  <2>1. Range(ids) \subseteq Queries /\ DOMAIN ids = 1 .. Len(ids)
        /\ \A i \in DOMAIN ids : ids[i] \in Queries
    BY <2>0, LenProperties, ElementOfSeq DEF Range
  <2>2. Len(ids) <= HistoryLimit /\ IsInjective(ids)
    BY <1>2 DEF History
  <2>3. \A i, j \in DOMAIN ids : i < j => SavedBefore(ids[j], ids[i])'
    BY <1>2, <2>1 DEF History, Onward
  <2>4. \A q \in Range(ids) : q \in Range(saves') /\ at'[q] \notin Early
    BY <1>2, <2>1 DEF History, Onward
  <2>5. ASSUME NEW q \in Queries, at'[q] = "answered"
        PROVE  q \in Range(ids) \/ (Len(ids) = HistoryLimit /\ \A p \in Range(ids) : SavedBefore(q, p)')
    <3>1. q \in Range(ids) \/ (Len(ids) = HistoryLimit /\ \A p \in Range(ids) : SavedBefore(q, p))
      BY <1>2, <2>5 DEF History, Onward
    <3> QED
      BY <2>1, <3>1 DEF Onward
  <2> QED
    BY <1>2, <2>0, <2>2, <2>3, <2>4, <2>5 DEF History
<1> QED
  BY <1>1, <1>2

(* A save appended: the others have been saved before. *)
LEMMA SaveAppended ==
    ASSUME saves \in Seq(Queries), NEW q \in Queries, saves' = Append(saves, q)
    PROVE  /\ Range(saves) \subseteq Range(saves')
           /\ q \in Range(saves')
           /\ \A p, r \in Queries : SavedBefore(p, r) => SavedBefore(p, r)'
           /\ \A p \in Range(saves) : SavedBefore(p, q)'
<1>1. /\ saves' \in Seq(Queries) /\ Len(saves') = Len(saves) + 1
      /\ \A i \in 1 .. Len(saves) : saves'[i] = saves[i]
      /\ saves'[Len(saves) + 1] = q
  BY AppendProperties
<1>2. /\ DOMAIN saves = 1 .. Len(saves) /\ Len(saves) \in Nat
      /\ DOMAIN saves' = 1 .. Len(saves) + 1
  BY <1>1, LenProperties
<1>3. Range(saves) \subseteq Range(saves') /\ q \in Range(saves')
  BY <1>1, <1>2 DEF Range
<1>4. ASSUME NEW p \in Queries, NEW r \in Queries, SavedBefore(p, r)
      PROVE  SavedBefore(p, r)'
  BY <1>1, <1>2, <1>4 DEF SavedBefore
<1>5. ASSUME NEW p \in Range(saves)
      PROVE  SavedBefore(p, q)'
  <2>1. PICK i \in DOMAIN saves : saves[i] = p
    BY <1>5 DEF Range
  <2>2. i \in DOMAIN saves' /\ Len(saves) + 1 \in DOMAIN saves' /\ i < Len(saves) + 1
    BY <1>2
  <2> QED
    BY <1>1, <1>2, <2>1, <2>2 DEF SavedBefore
<1> QED
  BY <1>3, <1>4, <1>5

(* The ids that are to be written hold the query that is saved, and those   *)
(* of the index but one beyond the limit.                                   *)
LEMMA PrependedShape ==
    ASSUME TypeOK, NEW q \in Queries, q \notin Listed, Len(IndexIds) <= HistoryLimit,
           NEW ids \in Seq(Queries), Prepended(ids, q)
    PROVE  /\ DOMAIN ids = 1 .. Len(ids) /\ Len(ids) \in Nat /\ 1 \in DOMAIN ids /\ Len(ids) <= HistoryLimit
           /\ DOMAIN IndexIds = 1 .. Len(IndexIds) /\ Len(IndexIds) \in Nat
           /\ q \in Range(ids)
           /\ \A i \in DOMAIN ids : i = 1 \/ (i - 1 \in DOMAIN IndexIds /\ ids[i] = IndexIds[i - 1])
           /\ \A i \in DOMAIN IndexIds :
                 IF i = HistoryLimit THEN Len(ids) = HistoryLimit
                 ELSE i + 1 \in DOMAIN ids /\ ids[i + 1] = IndexIds[i]
           /\ Range(ids) \subseteq Listed \cup {q}
           /\ \A p \in Listed : p \in Range(ids) \/ (Len(IndexIds) = HistoryLimit /\ p = IndexIds[HistoryLimit])
<1> DEFINE old == IndexIds
           n == Len(old)
<1>0. old \in Seq(Queries) /\ n \in Nat /\ n <= HistoryLimit /\ HistoryLimit \in Nat /\ HistoryLimit >= 1
  BY IndexIdsType, BoundsAssumption
<1>1. DOMAIN old = 1 .. n
  BY <1>0, LenProperties
<1>2. DOMAIN ids = 1 .. Len(ids) /\ Len(ids) \in Nat
  BY LenProperties
<1>3. /\ Len(ids) = IF n = HistoryLimit THEN HistoryLimit ELSE n + 1
      /\ ids[1] = q
      /\ \A i \in 2 .. Len(ids) : ids[i] = old[i - 1]
  BY DEF Prepended
<1>31. Len(ids) = IF n = HistoryLimit THEN HistoryLimit ELSE n + 1
  BY <1>3
<1> HIDE DEF n
<1>4. 1 \in DOMAIN ids /\ Len(ids) <= HistoryLimit /\ (Len(ids) = n \/ Len(ids) = n + 1)
  BY <1>0, <1>2, <1>31
<1> HIDE DEF old
<1>5. ASSUME NEW i \in DOMAIN ids, i # 1
      PROVE  i - 1 \in DOMAIN old /\ ids[i] = old[i - 1]
  <2>0. i \in Nat /\ 1 <= i /\ i <= Len(ids)
    BY <1>2
  <2>1. i \in 2 .. Len(ids) /\ i - 1 \in 1 .. n
    <3>1. Len(ids) <= n + 1
      BY <1>0, <1>4
    <3> QED
      BY <1>0, <1>2, <1>5, <2>0, <3>1
  <2> QED
    BY <1>1, <1>3, <2>1
<1>6. ASSUME NEW i \in DOMAIN old
      PROVE  IF i = HistoryLimit THEN Len(ids) = HistoryLimit
             ELSE i + 1 \in DOMAIN ids /\ ids[i + 1] = old[i]
  <2>1. CASE i = HistoryLimit
    BY <1>0, <1>1, <1>31, <2>1
  <2>2. CASE i # HistoryLimit
    <3>0. i \in Nat /\ 1 <= i /\ i <= n /\ i < HistoryLimit
      BY <1>0, <1>1, <2>2
    <3>1. i + 1 \in 2 .. Len(ids) /\ i + 1 - 1 = i
      BY <1>0, <1>2, <1>31, <3>0
    <3>2. i + 1 \in DOMAIN ids /\ i + 1 # 1
      BY <1>2, <3>0, <3>1
    <3>3. PICK j \in DOMAIN ids : j = i + 1 /\ j # 1
      BY <3>2
    <3>4. ids[j] = old[j - 1] /\ j - 1 = i
      BY <1>5, <3>0, <3>3
    <3> QED
      BY <2>2, <3>2, <3>3, <3>4
  <2> QED
    BY <2>1, <2>2
<1>7. Listed = Range(old)
  BY DEF Listed, old
<1>8. Range(ids) \subseteq Range(old) \cup {q}
  BY <1>3, <1>5 DEF Range
<1>9. \A p \in Range(old) : p \in Range(ids) \/ (n = HistoryLimit /\ p = old[HistoryLimit])
  <2> TAKE p \in Range(old)
  <2>1. PICK i \in DOMAIN old : p = old[i]
    BY DEF Range
  <2>2. CASE i = HistoryLimit
    BY <1>0, <1>1, <2>1, <2>2
  <2>3. CASE i # HistoryLimit
    <3>1. i + 1 \in DOMAIN ids /\ ids[i + 1] = p
      BY <1>6, <2>1, <2>3
    <3> QED
      BY <3>1 DEF Range
  <2> QED
    BY <2>2, <2>3
<1>10. q \in Range(ids)
  BY <1>3, <1>4 DEF Range
<1> QED
  BY <1>0, <1>1, <1>2, <1>4, <1>5, <1>6, <1>7, <1>8, <1>9, <1>10 DEF old, n

(* They are in order once the save has been counted. *)
LEMMA PrependedHistory ==
    ASSUME TypeOK, HistoryInv, NEW q \in Queries, Conclude(q), index # Torn,
           NEW ids \in Seq(Queries), Prepended(ids, q)
    PROVE  History(ids)'
<1>0. ids \notin {None, Torn}
  BY NoneAssumption
<1>1. /\ at' = [at EXCEPT ![q] = "saving"] /\ saves' = Append(saves, q)
      /\ at[q] \in Early
  BY DEF Conclude, Early
<1>2. q \notin Listed /\ Len(IndexIds) <= HistoryLimit
  BY <1>1, NotListedYet
<1>3. /\ Range(saves) \subseteq Range(saves') /\ q \in Range(saves')
      /\ \A p, r \in Queries : SavedBefore(p, r) => SavedBefore(p, r)'
      /\ \A p \in Range(saves) : SavedBefore(p, q)'
  BY <1>1, SaveAppended DEF TypeOK
<1>4. /\ DOMAIN ids = 1 .. Len(ids) /\ Len(ids) \in Nat /\ 1 \in DOMAIN ids /\ Len(ids) <= HistoryLimit
      /\ DOMAIN IndexIds = 1 .. Len(IndexIds) /\ Len(IndexIds) \in Nat
      /\ \A i \in DOMAIN ids : i = 1 \/ (i - 1 \in DOMAIN IndexIds /\ ids[i] = IndexIds[i - 1])
      /\ \A i \in DOMAIN IndexIds :
            IF i = HistoryLimit THEN Len(ids) = HistoryLimit
            ELSE i + 1 \in DOMAIN ids /\ ids[i + 1] = IndexIds[i]
      /\ Range(ids) \subseteq Listed \cup {q}
  BY <1>2, PrependedShape
<1>5. ids[1] = q
  BY DEF Prepended
<1>6. /\ Len(IndexIds) <= HistoryLimit
      /\ \A i, j \in DOMAIN IndexIds : IndexIds[i] = IndexIds[j] => i = j
      /\ \A i, j \in DOMAIN IndexIds : i < j => SavedBefore(IndexIds[j], IndexIds[i])
      /\ \A p \in Listed : p \in Range(saves) /\ at[p] \notin Early
      /\ \A p \in Queries : at[p] = "answered" =>
            p \in Listed \/ (Len(IndexIds) = HistoryLimit /\ \A x \in Listed : SavedBefore(p, x))
  <2>1. CASE index = None
    <3>1. DOMAIN IndexIds = {} /\ Listed = {}
      BY <2>1 DEF IndexIds, Listed, Range
    <3>2. \A p \in Queries : at[p] # "answered"
      BY <2>1 DEF HistoryInv, History
    <3> QED
      BY <1>2, <3>1, <3>2
  <2>2. CASE index # None
    <3>1. IndexIds = index /\ index \notin {None, Torn}
      BY <2>2 DEF IndexIds
    <3> QED
      BY <3>1 DEF HistoryInv, History, Listed, IsInjective
  <2> QED
    BY <2>1, <2>2
<1>7. \A i \in DOMAIN IndexIds : IndexIds[i] \in Listed /\ IndexIds[i] \in Queries
  BY <1>4, IndexIdsType, ElementOfSeq DEF Listed, Range
<1>8. IsInjective(ids)
  <2>1. \A i, j \in DOMAIN ids : ids[i] = ids[j] => i = j
    BY <1>2, <1>4, <1>5, <1>6, <1>7
  <2> QED
    BY <2>1 DEF IsInjective
<1>9. ASSUME NEW i \in DOMAIN ids, NEW j \in DOMAIN ids, i < j
      PROVE  SavedBefore(ids[j], ids[i])'
  <2>1. j - 1 \in DOMAIN IndexIds /\ ids[j] = IndexIds[j - 1]
    BY <1>4, <1>9
  <2>2. CASE i = 1
    <3>1. ids[j] \in Range(saves)
      BY <1>6, <1>7, <2>1
    <3> QED
      BY <1>3, <1>5, <2>2, <3>1
  <2>3. CASE i # 1
    <3>1. i - 1 \in DOMAIN IndexIds /\ ids[i] = IndexIds[i - 1] /\ i - 1 < j - 1
      BY <1>4, <1>9, <2>3
    <3>2. SavedBefore(ids[j], ids[i])
      BY <1>6, <2>1, <3>1
    <3> QED
      BY <1>3, <1>7, <2>1, <3>1, <3>2
  <2> QED
    BY <2>2, <2>3
<1>10. \A p \in Range(ids) : p \in Range(saves') /\ at'[p] \notin Early
  <2>1. at \in [Queries -> Place] /\ Listed \subseteq Queries
    BY IndexIdsType, <1>7 DEF TypeOK, Listed, Range
  <2> QED
    BY <1>1, <1>3, <1>4, <1>6, <2>1 DEF Early
<1>11. ASSUME NEW p \in Queries, at'[p] = "answered"
       PROVE  p \in Range(ids) \/ (Len(ids) = HistoryLimit /\ \A x \in Range(ids) : SavedBefore(p, x)')
  <2>1. at[p] = "answered" /\ p # q
    BY <1>1, <1>11 DEF TypeOK
  <2>2. SavedBefore(p, q)'
    BY <1>3, <2>1 DEF HistoryInv
  <2>3. CASE p \in Listed
    <3>1. PICK k \in DOMAIN IndexIds : IndexIds[k] = p
      BY <2>3 DEF Listed, Range
    <3>2. CASE k # HistoryLimit
      BY <1>4, <3>1, <3>2 DEF Range
    <3>3. CASE k = HistoryLimit
      <4>1. Len(ids) = HistoryLimit
        BY <1>4, <3>3
      <4>2. ASSUME NEW i \in DOMAIN ids
            PROVE  SavedBefore(p, ids[i])'
        <5>1. CASE i = 1
          BY <1>5, <2>2, <5>1
        <5>2. CASE i # 1
          <6>1. i - 1 \in DOMAIN IndexIds /\ ids[i] = IndexIds[i - 1] /\ i - 1 < k
            BY <1>4, <3>3, <4>1, <5>2
          <6>2. SavedBefore(p, ids[i])
            BY <1>6, <3>1, <6>1
          <6> QED
            BY <1>3, <1>7, <6>1, <6>2
        <5> QED
          BY <5>1, <5>2
      <4> QED
        BY <4>1, <4>2 DEF Range
    <3> QED
      BY <3>2, <3>3
  <2>4. CASE p \notin Listed
    <3>1. Len(IndexIds) = HistoryLimit /\ \A x \in Listed : SavedBefore(p, x)
      BY <1>6, <2>1, <2>4
    <3>2. Len(ids) = HistoryLimit
      BY <3>1 DEF Prepended
    <3>3. Listed \subseteq Queries
      BY <1>7 DEF Listed, Range
    <3>4. \A x \in Range(ids) : SavedBefore(p, x)'
      BY <1>3, <1>4, <2>2, <3>1, <3>3
    <3> QED
      BY <3>2, <3>4
  <2> QED
    BY <2>3, <2>4
<1> QED
  BY <1>0, <1>4, <1>8, <1>9, <1>10, <1>11 DEF History

(* The kinds of steps, with what each leaves alone. *)
LEMMA StepKinds ==
    ASSUME [Next]_vars
    PROVE  \/ \E q \in Queries, place \in Early :
                 /\ at[q] \in Early /\ at' = [at EXCEPT ![q] = place]
                 /\ UNCHANGED <<records, index, section, due, copy, saves, reading, crashes>>
           \/ \E q \in Queries : Conclude(q)
           \/ \E q \in Queries : StartDiagnosis(q)
           \/ \E q \in Queries : FinishDiagnosis(q)
           \/ FileStep
           \/ Crash
           \/ \E t \in Readers :
                 \/ ListUserQueries(t) \/ LookForRecord(t) \/ ReadRecord(t)
                 \/ \E q \in Queries : GetUserQuery(t, q)
           \/ UNCHANGED vars
<1>1. ASSUME NEW q \in Queries, CreateUserQuery(q) \/ Generated(q)
      PROVE  \E place \in Early :
                 /\ at[q] \in Early /\ at' = [at EXCEPT ![q] = place]
                 /\ UNCHANGED <<records, index, section, due, copy, saves, reading, crashes>>
  BY <1>1 DEF CreateUserQuery, Generated, Early
<1> QED
  BY <1>1 DEF Next, Handle, Diagnose, Read

(* What an operation still to be made was before the step. *)
LEMMA StillToMake ==
    ASSUME TypeOK, FileStep, NEW i \in DOMAIN section'
    PROVE  i + 1 \in DOMAIN section /\ section'[i] = section[i + 1] /\ i + 1 # 1
<1>1. section # <<>> /\ section' = Tail(section)
  BY DEF FileStep
<1>2. i + 1 \in DOMAIN section /\ section'[i] = section[i + 1]
  BY <1>1, Remaining
<1>3. DOMAIN section' = 1 .. Len(section) - 1 /\ Len(section) \in Nat
  BY <1>1, Remaining
<1>4. i \in Nat /\ 1 <= i
  BY <1>3
<1> QED
  BY <1>2, <1>4

(* Any operation but the first is still to be made after the step. *)
LEMMA NotYetMade ==
    ASSUME TypeOK, FileStep, NEW i \in DOMAIN section, i # 1
    PROVE  i - 1 \in DOMAIN section' /\ section'[i - 1] = section[i] /\ 1 < i
<1>1. section # <<>> /\ section' = Tail(section)
  BY DEF FileStep
<1>2. i - 1 \in DOMAIN section' /\ section'[i - 1] = section[i]
  BY <1>1, Remaining
<1>3. DOMAIN section = 1 .. Len(section) /\ Len(section) \in Nat
  BY <1>1, Remaining
<1> QED
  BY <1>2, <1>3

(* Lists of ids stay in order through a step. *)
LEMMA HistoryStep == Inv /\ [Next]_vars => HistoryInv'
<1> SUFFICES ASSUME Inv, [Next]_vars
             PROVE  HistoryInv'
  OBVIOUS
<1>0. TypeOK /\ SectionInv /\ HistoryInv
  BY DEF Inv
<1>a. Target \in Seq(Queries) \cup {None, Torn}
  <2>1. CASE \E i \in DOMAIN section : Rewrites(i)
    <3>1. PICK i \in DOMAIN section : Rewrites(i) /\ section[i].value # Torn
      BY <1>0, <2>1 DEF SectionInv
    <3>2. section \in Seq(Operation) /\ section[i] \in Operation
      BY <1>0, ElementOfSeq, LenProperties DEF TypeOK
    <3>3. section[i].value \in Seq(Queries)
      BY <3>1, <3>2, OperationKinds
    <3>4. Target = section[i].value
      BY <1>0, <3>1, <3>2, TargetIs
    <3> QED
      BY <3>3, <3>4
  <2>2. CASE ~ \E i \in DOMAIN section : Rewrites(i)
    BY <1>0, <2>2 DEF Target, TypeOK
  <2> QED
    BY <2>1, <2>2
<1>b. index \in Seq(Queries) \cup {None, Torn}
  BY <1>0 DEF TypeOK
<1>c. ASSUME Onward, UNCHANGED index
      PROVE  History(index)'
  <2>1. PICK ids \in Seq(Queries) \cup {None, Torn} : ids = index
    BY <1>b
  <2>2. History(ids)'
    BY <1>0, <1>c, <2>1, HistoryLasts DEF HistoryInv
  <2>3. ids = index'
    BY <1>c, <2>1
  <2> QED
    BY <2>2, <2>3 DEF History
<1>d. ASSUME Onward, Target' = Target
      PROVE  History(Target)'
  <2>1. PICK ids \in Seq(Queries) \cup {None, Torn} : ids = Target
    BY <1>a
  <2>2. History(ids)'
    BY <1>0, <1>d, <2>1, HistoryLasts DEF HistoryInv
  <2>3. ids = Target'
    BY <1>d, <2>1
  <2> QED
    BY <2>2, <2>3 DEF History
<1>1. CASE UNCHANGED <<index, section, at, saves>>
  <2>1. Onward /\ Target' = Target /\ UNCHANGED index
    BY <1>1 DEF Onward, Target, SavedBefore
  <2>2. History(index)' /\ History(Target)'
    BY <1>c, <1>d, <2>1
  <2> QED
    BY <1>0, <1>1, <2>1, <2>2 DEF HistoryInv, Holds
<1>2. ASSUME NEW q \in Queries, NEW place \in Early, at[q] \in Early, at' = [at EXCEPT ![q] = place],
             UNCHANGED <<index, section, saves>>
      PROVE  HistoryInv'
  <2>1. Onward /\ Target' = Target /\ UNCHANGED index
    BY <1>0, <1>2 DEF Onward, Target, SavedBefore, TypeOK, Early
  <2>2. History(index)' /\ History(Target)'
    BY <1>c, <1>d, <2>1
  <2>3. \A p \in Queries : at'[p] = "answered" => p \in Range(saves')
    BY <1>0, <1>2, <2>1 DEF HistoryInv, Onward
  <2>4. \A i \in DOMAIN section', p \in Queries : Returns(i, p)' =>
           at'[p] = "saving" /\ p \in Range(saves') /\ Holds(Target, p)'
    BY <1>0, <1>2, <2>1 DEF HistoryInv, Holds, Early, TypeOK
  <2> QED
    BY <2>2, <2>3, <2>4 DEF HistoryInv
<1>3. ASSUME NEW q \in Queries, Conclude(q)
      PROVE  HistoryInv'
  <2>1. /\ at' = [at EXCEPT ![q] = "saving"] /\ saves' = Append(saves, q)
        /\ UNCHANGED index /\ at[q] \in Early /\ LoopIdle
    BY <1>3 DEF Conclude, Early
  <2>2. /\ Range(saves) \subseteq Range(saves') /\ q \in Range(saves')
        /\ \A p, r \in Queries : SavedBefore(p, r) => SavedBefore(p, r)'
    BY <1>0, <2>1, SaveAppended DEF TypeOK
  <2>3. Onward
    BY <1>0, <2>1, <2>2 DEF Onward, TypeOK, Early
  <2>4. History(index)'
    BY <1>c, <2>1, <2>3
  <2>5. \A p \in Queries : at'[p] = "answered" => p \in Range(saves')
    BY <1>0, <2>3 DEF HistoryInv, Onward
  <2>6. PICK r \in Record :
              \/ index = Torn /\ Alone'
              \/ /\ index # Torn
                 /\ \E ids \in Seq(Queries), gone \in SUBSET Queries :
                       Prepended(ids, q) /\ Lists(q, ids, gone)'
    BY <1>0, <1>3, ConcludeSection
  <2>7. CASE Alone'
    <3>1. Target' = Target
      BY <2>1, <2>7, LoopIdles DEF Alone
    <3>2. History(Target)'
      BY <1>d, <2>3, <3>1
    <3> QED
      BY <2>4, <2>5, <2>7, <3>2 DEF HistoryInv, Alone
  <2>8. ASSUME index # Torn, NEW ids \in Seq(Queries), NEW gone \in SUBSET Queries,
               Prepended(ids, q), Lists(q, ids, gone)'
        PROVE  HistoryInv'
    <3>1. History(ids)'
      BY <1>0, <1>3, <2>8, PrependedHistory
    <3>2. Target' = ids
      BY <2>8 DEF Lists
    <3>3. History(Target)'
      BY <3>1, <3>2 DEF History
    <3>4. q \notin Listed /\ Len(IndexIds) <= HistoryLimit
      BY <1>0, <2>1, NotListedYet
    <3>5. q \in Range(ids)
      BY <1>0, <2>8, <3>4, PrependedShape
    <3>6. Holds(Target, q)'
      BY <3>2, <3>5, NoneAssumption DEF Holds
    <3>7. at'[q] = "saving"
      BY <1>0, <2>1 DEF TypeOK
    <3>8. \A i \in DOMAIN section', p \in Queries : Returns(i, p)' =>
             at'[p] = "saving" /\ p \in Range(saves') /\ Holds(Target, p)'
      BY <2>2, <2>8, <3>6, <3>7 DEF Lists
    <3> QED
      BY <2>4, <2>5, <3>3, <3>8 DEF HistoryInv
  <2> QED
    BY <2>6, <2>7, <2>8
<1>4. ASSUME NEW q \in Queries, FinishDiagnosis(q)
      PROVE  HistoryInv'
  <2>1. Alone' /\ LoopIdle /\ UNCHANGED <<index, at, saves>>
    BY <1>0, <1>4, FinishSection DEF FinishDiagnosis
  <2>2. Target' = Target
    BY <2>1, LoopIdles DEF Alone
  <2>3. Onward
    BY <2>1 DEF Onward, SavedBefore
  <2>4. History(index)' /\ History(Target)'
    BY <1>c, <1>d, <2>1, <2>2, <2>3
  <2> QED
    BY <1>0, <2>1, <2>4 DEF HistoryInv, Alone
<1>5. ASSUME Crash
      PROVE  HistoryInv'
  <2>1. section' = <<>> /\ UNCHANGED <<index, saves>>
    BY <1>5 DEF Crash
  <2>2. Onward
    BY <1>0, <1>5, <2>1 DEF Onward, SavedBefore, Crash, TypeOK, Early
  <2>3. Alone'
    BY <2>1, NoSection
  <2>4. History(index)'
    BY <1>c, <2>1, <2>2
  <2>5. History(Target)'
    BY <2>3, <2>4 DEF Alone, History
  <2>6. \A p \in Queries : at'[p] = "answered" => p \in Range(saves')
    BY <1>0, <2>2 DEF HistoryInv, Onward
  <2> QED
    BY <2>3, <2>4, <2>5, <2>6 DEF HistoryInv, Alone
<1>6. ASSUME FileStep
      PROVE  HistoryInv'
  <2>0. SectionInv' /\ Target' = Target /\ UNCHANGED saves /\ 1 \in DOMAIN section /\ section \in Seq(Operation)
    BY <1>0, <1>6, FileStepKeeps, Remaining DEF FileStep, TypeOK
  <2>1. CASE UNCHANGED <<index, at>>
    <3>1. Onward
      BY <2>0, <2>1 DEF Onward, SavedBefore
    <3>2. History(index)' /\ History(Target)'
      BY <1>c, <1>d, <2>0, <2>1, <3>1
    <3>3. \A i \in DOMAIN section', p \in Queries : Returns(i, p)' =>
             at'[p] = "saving" /\ p \in Range(saves') /\ Holds(Target, p)'
      BY <1>0, <1>6, <2>0, <2>1, StillToMake DEF HistoryInv, Holds
    <3> QED
      BY <1>0, <2>0, <2>1, <3>2, <3>3 DEF HistoryInv
  <2>2. CASE /\ Rewrites(1) /\ section[1].value \in Seq(Queries) \cup {Torn}
             /\ index' = section[1].value
             /\ UNCHANGED <<records, at, due>>
    <3>1. Onward
      BY <2>0, <2>2 DEF Onward, SavedBefore
    <3>2. History(Target)'
      BY <1>d, <2>0, <3>1
    <3>3. History(index)'
      <4>1. CASE section[1].value = Torn
        BY <2>2, <4>1, NoneAssumption DEF History
      <4>2. CASE section[1].value # Torn
        <5>1. Target = section[1].value
          BY <1>0, <2>0, <2>2, <4>2, TargetIs
        <5>2. index' = Target'
          BY <2>0, <2>2, <5>1
        <5> QED
          BY <3>2, <5>2 DEF History
      <4> QED
        BY <4>1, <4>2
    <3>4. \A i \in DOMAIN section', p \in Queries : Returns(i, p)' =>
             at'[p] = "saving" /\ p \in Range(saves') /\ Holds(Target, p)'
      BY <1>0, <1>6, <2>0, <2>2, StillToMake DEF HistoryInv, Holds
    <3> QED
      BY <1>0, <2>0, <2>2, <3>2, <3>3, <3>4 DEF HistoryInv
  <2>3. ASSUME NEW q \in Queries, NEW v \in {"answered", "error"}, section[1] = ReturnOp(q, v),
               at' = [at EXCEPT ![q] = v], UNCHANGED index
        PROVE  HistoryInv'
    <3>1. Len(section) = 1 /\ DOMAIN section = 1 .. Len(section)
      <4>1. section[1].op = "return"
        BY <2>3 DEF ReturnOp
      <4>2. 1 = Len(section)
        BY <1>0, <2>0, <4>1 DEF SectionInv
      <4> QED
        BY <2>0, <4>2, LenProperties
    <3>2. section' = <<>>
      <4>1. section # <<>> /\ section' = Tail(section)
        BY <1>6 DEF FileStep
      <4>2. section' \in Seq(Operation) /\ Len(section') = Len(section) - 1
        BY <1>0, <4>1, Remaining
      <4> QED
        BY <3>1, <4>2, EmptySeq
    <3>3. Alone'
      BY <3>2, NoSection
    <3>4. Target = index
      BY <2>0, <2>3, <3>3 DEF Alone
    <3>5. CASE v = "error"
      <4>1. Onward
        BY <1>0, <2>0, <2>3, <3>5 DEF Onward, SavedBefore, TypeOK, Early
      <4>2. History(index)' /\ History(Target)'
        BY <1>c, <1>d, <2>0, <2>3, <4>1
      <4>3. \A p \in Queries : at'[p] = "answered" => p \in Range(saves')
        BY <1>0, <4>1 DEF HistoryInv, Onward
      <4> QED
        BY <3>3, <4>2, <4>3 DEF HistoryInv, Alone
    <3>6. CASE v = "answered"
      <4>1. Returns(1, q)
        BY <2>3, <3>6 DEF ReturnOp
      <4>2. at[q] = "saving" /\ q \in Range(saves) /\ Holds(index, q)
        BY <1>0, <2>0, <3>4, <4>1 DEF HistoryInv
      <4>3. \A p \in Queries : at'[p] = "answered" => p \in Range(saves')
        BY <1>0, <2>0, <2>3, <4>2 DEF HistoryInv, TypeOK
      <4>4. index \notin {None, Torn} /\ q \in Range(index)
        BY <4>2 DEF Holds
      <4>5. History(index)'
        <5>1. /\ Len(index) <= HistoryLimit /\ IsInjective(index)
              /\ \A i, j \in DOMAIN index : i < j => SavedBefore(index[j], index[i])
          BY <1>0, <4>4 DEF HistoryInv, History
        <5>2. \A i, j \in DOMAIN index : i < j => SavedBefore(index[j], index[i])'
          BY <2>0, <2>3, <5>1 DEF SavedBefore
        <5>3. \A p \in Range(index) : p \in Range(saves') /\ at'[p] \notin Early
          BY <1>0, <2>0, <2>3, <3>6, <4>4 DEF HistoryInv, History, Early, TypeOK
        <5>4. ASSUME NEW p \in Queries, at'[p] = "answered"
              PROVE  p \in Range(index) \/ (Len(index) = HistoryLimit /\ \A x \in Range(index) : SavedBefore(p, x)')
          <6>1. CASE p = q
            BY <4>4, <6>1
          <6>2. CASE p # q
            <7>1. at[p] = "answered"
              BY <1>0, <2>3, <5>4, <6>2 DEF TypeOK
            <7>2. p \in Range(index) \/ (Len(index) = HistoryLimit /\ \A x \in Range(index) : SavedBefore(p, x))
              BY <1>0, <4>4, <7>1 DEF HistoryInv, History
            <7> QED
              BY <2>0, <7>2 DEF SavedBefore
          <6> QED
            BY <6>1, <6>2
        <5> QED
          BY <2>3, <4>4, <5>1, <5>2, <5>3, <5>4 DEF History
      <4>6. History(Target)'
        BY <3>3, <4>5 DEF Alone, History
      <4> QED
        BY <3>3, <4>3, <4>5, <4>6 DEF HistoryInv, Alone
    <3> QED
      BY <3>5, <3>6
  <2> QED
    BY <1>0, <1>6, <2>1, <2>2, <2>3, FileStepKinds
<1>7. ASSUME NEW t \in Readers,
             \/ ListUserQueries(t) \/ LookForRecord(t) \/ ReadRecord(t)
             \/ \E q \in Queries : GetUserQuery(t, q)
      PROVE  UNCHANGED <<index, section, at, saves>>
  BY <1>7, ReadingKeeps
<1>8. ASSUME NEW q \in Queries, StartDiagnosis(q)
      PROVE  UNCHANGED <<index, section, at, saves>>
  BY <1>8 DEF StartDiagnosis
<1>9. ASSUME UNCHANGED vars
      PROVE  UNCHANGED <<index, section, at, saves>>
  BY <1>9 DEF vars, loop
<1> QED
  BY <1>1, <1>2, <1>3, <1>4, <1>5, <1>6, <1>7, <1>8, <1>9, StepKinds

(* The listed ids are those the index holds. *)
LEMMA ListedHeld ==
    /\ \A q : q \in Listed <=> Holds(index, q)
    /\ \A q : q \in Listed' <=> Holds(index, q)'
<1>1. Range(<<>>) = {}
  BY DEF Range
<1> QED
  BY <1>1 DEF Listed, IndexIds, Holds

(* A query whose file is removed is not among the ids that are kept. *)
LEMMA GoneIsNotKept ==
    ASSUME TypeOK, HistoryInv, NEW q \in Queries, at[q] \in Early, index # Torn,
           NEW ids \in Seq(Queries), Prepended(ids, q),
           Len(IndexIds) = HistoryLimit, NEW x, x = IndexIds[HistoryLimit]
    PROVE  x \notin Range(ids) /\ x \in Listed
<1>1. q \notin Listed /\ Len(IndexIds) <= HistoryLimit
  BY NotListedYet
<1>2. /\ DOMAIN ids = 1 .. Len(ids) /\ Len(ids) \in Nat /\ Len(ids) <= HistoryLimit
      /\ DOMAIN IndexIds = 1 .. Len(IndexIds)
      /\ \A i \in DOMAIN ids : i = 1 \/ (i - 1 \in DOMAIN IndexIds /\ ids[i] = IndexIds[i - 1])
  BY <1>1, PrependedShape
<1>3. HistoryLimit \in DOMAIN IndexIds /\ HistoryLimit \in Nat
  BY <1>2, BoundsAssumption
<1>4. x \in Listed
  BY <1>3 DEF Listed, Range
<1>5. index \notin {None, Torn} /\ IndexIds = index
  BY <1>4, ListedHeld DEF Holds, IndexIds
<1>6. \A i, j \in DOMAIN IndexIds : IndexIds[i] = IndexIds[j] => i = j
  BY <1>5 DEF HistoryInv, History, IsInjective
<1>7. ASSUME NEW i \in DOMAIN ids
      PROVE  ids[i] # x
  <2>1. CASE i = 1
    BY <1>1, <1>4, <2>1 DEF Prepended
  <2>2. CASE i # 1
    <3>1. i - 1 \in DOMAIN IndexIds /\ ids[i] = IndexIds[i - 1]
      BY <1>2, <2>2
    <3>2. i - 1 # HistoryLimit
      BY <1>2, <1>3
    <3> QED
      BY <1>3, <1>6, <3>1, <3>2
  <2> QED
    BY <2>1, <2>2
<1> QED
  BY <1>4, <1>7 DEF Range

(* With no list of ids left to write the index is what it is to be. *)
LEMMA TargetReached ==
    ASSUME \A i \in DOMAIN section : ~ Rewrites(i)
    PROVE  Target = index
  BY DEF Target

(* Files of listed queries stay. *)
LEMMA FileInvStep == Inv /\ [Next]_vars => FileInv'
<1> SUFFICES ASSUME Inv, [Next]_vars
             PROVE  FileInv'
  OBVIOUS
<1>0. TypeOK /\ SectionInv /\ HistoryInv /\ FileInv
  BY DEF Inv
<1>1. CASE UNCHANGED <<records, index, section>>
  <2>1. Listed' = Listed
    BY <1>1 DEF Listed, IndexIds
  <2>2. Target' = Target
    BY <1>1 DEF Target, Rewrites
  <2>3. \A q \in Queries : Holds(Target, q)' <=> Holds(Target, q)
    BY <2>2 DEF Holds
  <2>4. \A i \in DOMAIN section, q \in Queries :
          (Writes(i, q)' <=> Writes(i, q)) /\ (Removes(i, q)' <=> Removes(i, q))
    BY <1>1 DEF Writes, Removes, Touches
  <2> QED
    BY <1>0, <1>1, <2>1, <2>3, <2>4 DEF FileInv
<1>2. CASE UNCHANGED <<records, index>> /\ Alone'
  <2>1. \A q \in Listed' : records'[q] # None
    BY <1>0, <1>2 DEF FileInv, Listed, IndexIds
  <2>2. Target' = index'
    BY <1>2 DEF Alone
  <2>3. \A q \in Queries : Holds(Target, q)' => records'[q] # None
    BY <2>1, <2>2, ListedHeld DEF Holds
  <2> QED
    BY <1>2, <2>1, <2>3 DEF FileInv, Alone
<1>3. ASSUME NEW q \in Queries, Conclude(q)
      PROVE  FileInv'
  <2>1. UNCHANGED <<records, index>> /\ at[q] \in Early
    BY <1>3 DEF Conclude, Early
  <2>2. PICK r \in Record :
              /\ Stores(q, r)'
              /\ \/ index = Torn /\ Alone'
                 \/ /\ index # Torn
                    /\ \E ids \in Seq(Queries), gone \in SUBSET Queries :
                          /\ Prepended(ids, q)
                          /\ gone = IF Len(IndexIds) = HistoryLimit THEN {IndexIds[HistoryLimit]} ELSE {}
                          /\ Lists(q, ids, gone)'
    BY <1>0, <1>3, ConcludeSection
  <2>3. ASSUME index # Torn, NEW ids \in Seq(Queries), NEW gone \in SUBSET Queries, Prepended(ids, q),
               gone = IF Len(IndexIds) = HistoryLimit THEN {IndexIds[HistoryLimit]} ELSE {},
               Lists(q, ids, gone)'
        PROVE  FileInv'
    <3>1. \A p \in Listed' : records'[p] # None
      BY <1>0, <2>1 DEF FileInv, Listed, IndexIds
    <3>2. Target' = ids
      BY <2>3 DEF Lists
    <3>3. q \notin Listed /\ Len(IndexIds) <= HistoryLimit
      BY <1>0, <2>1, NotListedYet
    <3>4. Range(ids) \subseteq Listed \cup {q}
      BY <1>0, <2>3, <3>3, PrependedShape
    <3>5. \E i \in DOMAIN section' : Writes(i, q)'
      BY <2>2, NoneAssumption DEF Stores
    <3>6. \A p \in Queries : Holds(Target, p)' =>
             records'[p] # None \/ \E i \in DOMAIN section' : Writes(i, p)'
      BY <1>0, <2>1, <3>2, <3>4, <3>5 DEF Holds, FileInv
    <3>7. \A x \in gone : x \notin Range(ids)
      <4>1. CASE Len(IndexIds) = HistoryLimit
        BY <1>0, <2>1, <2>3, <4>1, GoneIsNotKept
      <4>2. CASE Len(IndexIds) # HistoryLimit
        BY <2>3, <4>2
      <4> QED
        BY <4>1, <4>2
    <3>8. \A i \in DOMAIN section', p \in Queries : Removes(i, p)' => ~ Holds(Target, p)'
      BY <2>3, <3>2, <3>7 DEF Lists, Holds
    <3> QED
      BY <3>1, <3>6, <3>8 DEF FileInv
  <2> QED
    BY <1>2, <2>1, <2>2, <2>3
<1>4. ASSUME NEW q \in Queries, FinishDiagnosis(q)
      PROVE  FileInv'
  BY <1>0, <1>2, <1>4, FinishSection DEF FinishDiagnosis
<1>5. ASSUME Crash
      PROVE  FileInv'
  BY <1>2, <1>5, NoSection DEF Crash
<1>6. ASSUME FileStep
      PROVE  FileInv'
  <2>0. /\ SectionInv' /\ Target' = Target /\ 1 \in DOMAIN section /\ section \in Seq(Operation)
        /\ DOMAIN section = 1 .. Len(section) /\ Len(section) \in Nat
    BY <1>0, <1>6, FileStepKeeps, Remaining DEF FileStep, TypeOK
  <2>1. \A i \in DOMAIN section', p \in Queries : Removes(i, p)' => ~ Holds(Target, p)'
    BY <1>0, <1>6, <2>0, StillToMake DEF FileInv, Holds
  <2>2. ASSUME NEW i \in DOMAIN section, i # 1, NEW p \in Queries, Writes(i, p)
        PROVE  \E j \in DOMAIN section' : Writes(j, p)'
    BY <1>0, <1>6, <2>2, NotYetMade
  <2>3. ASSUME NEW q \in Queries, NEW v \in Record \cup {None, Torn},
               Touches(1, q), section[1].value = v,
               records' = [records EXCEPT ![q] = v], UNCHANGED <<index, at, due>>
        PROVE  FileInv'
    <3>0. records \in [Queries -> Record \cup {None, Torn}] /\ Listed \subseteq Queries
      BY <1>0, IndexIdsType, ElementOfSeq, LenProperties DEF TypeOK, Listed, Range
    <3>1. CASE v = None
      <4>1. Removes(1, q)
        BY <2>3, <3>1
      <4>2. ~ Holds(Target, q)
        BY <1>0, <2>0, <4>1 DEF FileInv
      <4>3. \A i \in DOMAIN section : ~ Rewrites(i)
        <5> TAKE i \in DOMAIN section
        <5>1. CASE i = 1
          BY <2>3, <5>1
        <5>2. CASE i # 1
          <6>1. 1 < i
            BY <2>0, <5>2
          <6> QED
            BY <1>0, <2>0, <4>1, <6>1 DEF SectionInv
        <5> QED
          BY <5>1, <5>2
      <4>4. q \notin Listed
        BY <4>2, <4>3, TargetReached, ListedHeld DEF Holds
      <4>5. \A p \in Listed' : records'[p] # None
        BY <1>0, <2>3, <3>0, <4>4 DEF FileInv, Listed, IndexIds
      <4>6. \A p \in Queries : Holds(Target, p)' =>
               records'[p] # None \/ \E i \in DOMAIN section' : Writes(i, p)'
        <5> TAKE p \in Queries
        <5> HAVE Holds(Target, p)'
        <5>1. Holds(Target, p) /\ p # q
          BY <2>0, <4>2 DEF Holds
        <5>2. records'[p] = records[p]
          BY <2>3, <3>0, <5>1
        <5>3. records[p] # None \/ \E i \in DOMAIN section : i # 1 /\ Writes(i, p)
          BY <1>0, <4>1, <5>1 DEF FileInv
        <5> QED
          BY <2>2, <5>2, <5>3
      <4> QED
        BY <2>1, <4>5, <4>6 DEF FileInv
    <3>2. CASE v # None
      <4>1. \A p \in Listed' : records'[p] # None
        BY <1>0, <2>3, <3>0, <3>2 DEF FileInv, Listed, IndexIds
      <4>2. \A p \in Queries : Holds(Target, p)' =>
               records'[p] # None \/ \E i \in DOMAIN section' : Writes(i, p)'
        <5> TAKE p \in Queries
        <5> HAVE Holds(Target, p)'
        <5>1. CASE p = q
          BY <2>3, <3>0, <3>2, <5>1
        <5>2. CASE p # q
          <6>1. Holds(Target, p)
            BY <2>0 DEF Holds
          <6>2. records'[p] = records[p]
            BY <2>3, <3>0, <5>2
          <6>3. records[p] # None \/ \E i \in DOMAIN section : i # 1 /\ Writes(i, p)
            BY <1>0, <2>3, <5>2, <6>1 DEF FileInv
          <6> QED
            BY <2>2, <6>2, <6>3
        <5> QED
          BY <5>1, <5>2
      <4> QED
        BY <2>1, <4>1, <4>2 DEF FileInv
    <3> QED
      BY <3>1, <3>2
  <2>4. CASE /\ Rewrites(1) /\ section[1].value \in Seq(Queries) \cup {Torn}
             /\ index' = section[1].value
             /\ UNCHANGED <<records, at, due>>
    <3>1. ASSUME NEW p \in Queries, NEW i \in DOMAIN section
          PROVE  ~ Writes(i, p)
      <4>1. CASE i = 1
        BY <2>4, <4>1
      <4>2. CASE i # 1
        <5>1. 1 < i
          BY <2>0, <4>2
        <5> QED
          BY <1>0, <2>0, <2>4, <5>1 DEF SectionInv
      <4> QED
        BY <4>1, <4>2
    <3>2. \A p \in Queries : Holds(Target, p) => records[p] # None
      BY <1>0, <3>1 DEF FileInv
    <3>3. \A p \in Queries : Holds(Target, p)' => records'[p] # None
      BY <2>0, <2>4, <3>2 DEF Holds
    <3>4. ASSUME NEW p \in Listed'
          PROVE  records'[p] # None
      <4>1. Holds(index, p)'
        BY <3>4, ListedHeld
      <4>2. section[1].value # Torn /\ p \in Range(section[1].value)
        BY <2>4, <4>1 DEF Holds
      <4>3. Target = section[1].value
        BY <1>0, <2>0, <2>4, <4>2, TargetIs
      <4>4. Holds(Target, p)
        BY <2>4, <4>1, <4>3 DEF Holds
      <4>5. p \in Queries
        <5>1. section[1].value \in Seq(Queries)
          BY <2>4, <4>2
        <5> QED
          BY <4>2, <5>1, LenProperties, ElementOfSeq DEF Range
      <4> QED
        BY <2>4, <3>2, <4>4, <4>5
    <3> QED
      BY <2>1, <3>3, <3>4 DEF FileInv
  <2>5. ASSUME NEW q \in Queries, NEW v \in {"answered", "error"}, section[1] = ReturnOp(q, v),
               UNCHANGED <<records, index>>
        PROVE  FileInv'
    <3>1. \A p \in Listed' : records'[p] # None
      BY <1>0, <2>5 DEF FileInv, Listed, IndexIds
    <3>2. section[1].op = "return"
      BY <2>5 DEF ReturnOp
    <3>3. \A p \in Queries : Holds(Target, p)' =>
             records'[p] # None \/ \E i \in DOMAIN section' : Writes(i, p)'
      <4> TAKE p \in Queries
      <4> HAVE Holds(Target, p)'
      <4>1. Holds(Target, p)
        BY <2>0 DEF Holds
      <4>2. records[p] # None \/ \E i \in DOMAIN section : i # 1 /\ Writes(i, p)
        BY <1>0, <3>2, <4>1 DEF FileInv
      <4> QED
        BY <2>2, <2>5, <4>2
    <3> QED
      BY <2>1, <3>1, <3>3 DEF FileInv
  <2> QED
    BY <1>0, <1>6, <2>3, <2>4, <2>5, FileStepKinds
<1>7. ASSUME NEW t \in Readers,
             \/ ListUserQueries(t) \/ LookForRecord(t) \/ ReadRecord(t)
             \/ \E q \in Queries : GetUserQuery(t, q)
      PROVE  UNCHANGED <<records, index, section>>
  BY <1>7, ReadingKeeps
<1>8. ASSUME NEW q \in Queries, StartDiagnosis(q)
      PROVE  UNCHANGED <<records, index, section>>
  BY <1>8 DEF StartDiagnosis
<1>9. ASSUME UNCHANGED vars
      PROVE  UNCHANGED <<records, index, section>>
  BY <1>9 DEF vars, loop
<1> QED
  BY <1>1, <1>3, <1>4, <1>5, <1>6, <1>7, <1>8, <1>9, StepKinds

(* What a request that reads goes through: ids that are listed or have been *)
(* answered, of which it misses those it finds no file of.                  *)
LEMMA ReadingSteps ==
    ASSUME TypeOK, ReaderInv, NEW t \in Readers,
           \/ ListUserQueries(t) \/ LookForRecord(t) \/ ReadRecord(t)
           \/ \E q \in Queries : GetUserQuery(t, q)
    PROVE  \E s \in Reading :
              /\ reading' = [reading EXCEPT ![t] = s]
              /\ s.at \in {"next", "opening"} => s.todo # <<>>
              /\ \A q \in Range(s.todo) :
                    q \in Range(reading[t].todo) \/ q \in Listed \/ (q \in Queries /\ at[q] = "answered")
              /\ \A q \in s.missed :
                    \/ q \in reading[t].missed
                    \/ q \in Range(reading[t].todo) /\ q \in Queries /\ records[q] = None
<1> DEFINE r == reading[t]
<1>1. /\ r \in Reading
      /\ r.at \in {"idle", "next", "opening", "done", "error"}
      /\ r.todo \in Seq(Queries) /\ r.shown \subseteq Queries /\ r.missed \subseteq Queries
  BY DEF TypeOK, Reading
<1>2. IndexIds \in Seq(Queries)
  BY IndexIdsType
<1>3. ASSUME r.todo # <<>>
      PROVE  /\ Head(r.todo) \in Queries /\ Tail(r.todo) \in Seq(Queries)
             /\ Head(r.todo) \in Range(r.todo)
             /\ Range(Tail(r.todo)) \subseteq Range(r.todo)
  <2> DEFINE ids == r.todo
             rest == Tail(ids)
  <2>1. ids \in Seq(Queries) /\ ids # <<>>
    BY <1>1, <1>3
  <2> HIDE DEF ids
  <2>2. /\ Head(ids) \in Queries /\ rest \in Seq(Queries) /\ Len(rest) = Len(ids) - 1
        /\ \A i \in 1 .. Len(rest) : rest[i] = ids[i + 1]
    BY <2>1, HeadTailProperties
  <2>3. DOMAIN ids = 1 .. Len(ids) /\ Len(ids) \in Nat /\ Len(ids) # 0 /\ DOMAIN rest = 1 .. Len(rest)
    BY <2>1, <2>2, EmptySeq, LenProperties
  <2>4. Head(ids) = ids[1] /\ 1 \in DOMAIN ids
    BY <2>1, <2>3
  <2> HIDE DEF rest
  <2>5. Range(rest) \subseteq Range(ids)
    <3> SUFFICES ASSUME NEW i \in DOMAIN rest
                 PROVE  rest[i] \in Range(ids)
      BY DEF Range
    <3>1. rest[i] = ids[i + 1] /\ i + 1 \in DOMAIN ids
      BY <2>2, <2>3
    <3> QED
      BY <3>1 DEF Range
  <2> QED
    BY <2>2, <2>4, <2>5 DEF ids, rest, Range
<1>4. CASE ListUserQueries(t)
  <2> DEFINE s == IF index = Torn THEN [r EXCEPT !.at = "error"]
                  ELSE [r EXCEPT !.at = IF IndexIds = <<>> THEN "done" ELSE "next", !.todo = IndexIds]
  <2>1. s \in Reading
    BY <1>1, <1>2 DEF Reading
  <2>2. reading' = [reading EXCEPT ![t] = s]
    BY <1>4 DEF ListUserQueries, Move
  <2>3. /\ s.missed = r.missed
        /\ s.todo = r.todo \/ s.todo = IndexIds
        /\ s.at \in {"next", "opening"} => s.todo # <<>>
    BY <1>1 DEF Reading
  <2> HIDE DEF s
  <2> QED
    BY <2>1, <2>2, <2>3 DEF Listed
<1>5. ASSUME NEW q \in Queries, GetUserQuery(t, q)
      PROVE  \E s \in Reading :
              /\ reading' = [reading EXCEPT ![t] = s]
              /\ s.at \in {"next", "opening"} => s.todo # <<>>
              /\ \A p \in Range(s.todo) :
                    p \in Range(reading[t].todo) \/ p \in Listed \/ (p \in Queries /\ at[p] = "answered")
              /\ \A p \in s.missed :
                    \/ p \in reading[t].missed
                    \/ p \in Range(reading[t].todo) /\ p \in Queries /\ records[p] = None
  <2> DEFINE ids == <<q>>
             s == [r EXCEPT !.at = "next", !.todo = ids]
  <2>1. reading' = [reading EXCEPT ![t] = s]
    BY <1>5 DEF GetUserQuery, Move
  <2>2. ids \in Seq(Queries) /\ ids # <<>> /\ Range(ids) = {q}
    BY DEF Range
  <2> HIDE DEF ids
  <2>3. s \in Reading /\ s.todo = ids /\ s.missed = r.missed
    BY <1>1, <2>2 DEF Reading
  <2>4. q \in Listed \/ at[q] = "answered"
    BY <1>5 DEF GetUserQuery
  <2> HIDE DEF s
  <2> QED
    BY <2>1, <2>2, <2>3, <2>4
<1>6. ASSUME r.todo # <<>>
      PROVE  /\ Advance(r) \in Reading
             /\ Advance(r).todo = Tail(r.todo)
             /\ Advance(r).missed = r.missed
             /\ Advance(r).at \in {"next", "opening"} => Tail(r.todo) # <<>>
  <2>1. Tail(r.todo) \in Seq(Queries)
    BY <1>3, <1>6
  <2> QED
    BY <1>1, <2>1 DEF Advance, Reading
<1>7. CASE LookForRecord(t)
  <2> DEFINE q == Head(r.todo)
             a == Advance(r)
             m == r.missed \cup {q}
             s == IF records[q] # None THEN [r EXCEPT !.at = "opening"]
                  ELSE [a EXCEPT !.missed = m]
  <2>1. reading' = [reading EXCEPT ![t] = s]
    BY <1>7 DEF LookForRecord, Move
  <2>2. r.todo # <<>>
    BY <1>7 DEF LookForRecord, ReaderInv
  <2>3. /\ q \in Queries /\ q \in Range(r.todo)
        /\ Range(Tail(r.todo)) \subseteq Range(r.todo)
    BY <1>3, <2>2
  <2>4. /\ a \in Reading /\ a.todo = Tail(r.todo) /\ a.missed = r.missed
        /\ a.at \in {"next", "opening"} => Tail(r.todo) # <<>>
    BY <1>6, <2>2
  <2>5. m \subseteq Queries /\ \A p \in m : p \in r.missed \/ p = q
    BY <1>1, <2>3
  <2> HIDE DEF q, a, m
  <2>6. CASE records[q] # None
    <3>1. s \in Reading /\ s.todo = r.todo /\ s.missed = r.missed
      BY <1>1, <2>6 DEF Reading
    <3> HIDE DEF s
    <3> QED
      BY <2>1, <2>2, <3>1
  <2>7. CASE records[q] = None
    <3>1. s \in Reading /\ s.todo = a.todo /\ s.missed = m /\ s.at = a.at
      BY <2>4, <2>5, <2>7 DEF Reading
    <3> HIDE DEF s
    <3> QED
      BY <2>1, <2>3, <2>4, <2>5, <2>7, <3>1
  <2> QED
    BY <2>6, <2>7
<1>8. CASE ReadRecord(t)
  <2> DEFINE q == Head(r.todo)
             a == Advance(r)
             m == r.shown \cup {q}
             s == IF ~ Readable(q) THEN [r EXCEPT !.at = "error"]
                  ELSE [a EXCEPT !.shown = m]
  <2>1. reading' = [reading EXCEPT ![t] = s]
    BY <1>8 DEF ReadRecord, Move
  <2>2. r.todo # <<>>
    BY <1>8 DEF ReadRecord, ReaderInv
  <2>3. /\ q \in Queries
        /\ Range(Tail(r.todo)) \subseteq Range(r.todo)
    BY <1>3, <2>2
  <2>4. /\ a \in Reading /\ a.todo = Tail(r.todo) /\ a.missed = r.missed
        /\ a.at \in {"next", "opening"} => Tail(r.todo) # <<>>
    BY <1>6, <2>2
  <2>5. m \subseteq Queries
    BY <1>1, <2>3
  <2> HIDE DEF q, a, m
  <2>6. CASE ~ Readable(q)
    <3>1. s \in Reading /\ s.todo = r.todo /\ s.missed = r.missed
      BY <1>1, <2>6 DEF Reading
    <3> HIDE DEF s
    <3> QED
      BY <2>1, <2>2, <3>1
  <2>7. CASE Readable(q)
    <3>1. s \in Reading /\ s.todo = a.todo /\ s.missed = a.missed /\ s.at = a.at
      BY <2>4, <2>5, <2>7 DEF Reading
    <3> HIDE DEF s
    <3> QED
      BY <2>1, <2>3, <2>4, <3>1
  <2> QED
    BY <2>6, <2>7
<1> QED
  BY <1>4, <1>5, <1>7, <1>8

(* No reading thread misses a query that is listed or will be. *)
LEMMA ReaderStep == Inv /\ [Next]_vars => ReaderInv'
<1> SUFFICES ASSUME Inv, [Next]_vars
             PROVE  ReaderInv'
  OBVIOUS
<1>0. TypeOK /\ SectionInv /\ HistoryInv /\ FileInv /\ ReaderInv
  BY DEF Inv
<1>a. /\ at \in [Queries -> Place] /\ Listed \subseteq Queries
      /\ \A t \in Readers : Range(reading[t].todo) \subseteq Queries /\ reading[t].missed \subseteq Queries
  <2>1. Listed \subseteq Queries
    BY <1>0, IndexIdsType, ElementOfSeq, LenProperties DEF Listed, Range
  <2>2. ASSUME NEW t \in Readers
        PROVE  Range(reading[t].todo) \subseteq Queries /\ reading[t].missed \subseteq Queries
    <3>1. reading[t].todo \in Seq(Queries) /\ reading[t].missed \subseteq Queries
      BY <1>0 DEF TypeOK, Reading
    <3> QED
      BY <3>1, ElementOfSeq, LenProperties DEF Range
  <2> QED
    BY <1>0, <2>1, <2>2 DEF TypeOK
<1>1. CASE UNCHANGED <<index, section, at, reading>>
  <2>1. /\ Listed' = Listed
        /\ \A p : Fresh(p)' <=> Fresh(p)
        /\ \A p : Holds(Target, p)' <=> Holds(Target, p)
    BY <1>1 DEF Fresh, Listed, IndexIds, Target, Holds
  <2>2. ASSUME NEW t \in Readers
        PROVE  /\ reading'[t].at \in {"next", "opening"} => reading'[t].todo # <<>>
               /\ \A p \in Range(reading'[t].todo) \cup reading'[t].missed : at'[p] \notin Early /\ ~ Fresh(p)'
               /\ \A p \in reading'[t].missed : p \notin Listed' /\ ~ Holds(Target, p)'
    BY <1>0, <1>1, <2>1 DEF ReaderInv
  <2> QED
    BY <1>0, <1>1, <2>1, <2>2 DEF ReaderInv
<1>2. ASSUME NEW q \in Queries, NEW place \in Early, at[q] \in Early, at' = [at EXCEPT ![q] = place],
             UNCHANGED <<index, section, reading>>
      PROVE  ReaderInv'
  <2>1. /\ Listed' = Listed /\ Target' = Target
        /\ \A p : Fresh(p)' <=> Fresh(p)
        /\ \A p : Holds(Target, p)' <=> Holds(Target, p)
    BY <1>2 DEF Fresh, Listed, IndexIds, Target, Holds
  <2>2. \A p \in Queries : at[p] \notin Early => at'[p] = at[p]
    BY <1>2, <1>a
  <2>3. \A p \in Queries : Fresh(p)' => p \notin Listed' /\ at'[p] = "saving"
    BY <1>0, <2>1, <2>2 DEF ReaderInv, Early
  <2>4. ASSUME NEW t \in Readers
        PROVE  /\ reading'[t].at \in {"next", "opening"} => reading'[t].todo # <<>>
               /\ \A p \in Range(reading'[t].todo) \cup reading'[t].missed : at'[p] \notin Early /\ ~ Fresh(p)'
               /\ \A p \in reading'[t].missed : p \notin Listed' /\ ~ Holds(Target, p)'
    BY <1>0, <1>2, <1>a, <2>1, <2>2 DEF ReaderInv
  <2> QED
    BY <2>3, <2>4 DEF ReaderInv
<1>3. ASSUME NEW q \in Queries, Conclude(q)
      PROVE  ReaderInv'
  <2>1. UNCHANGED <<index, reading>> /\ at[q] \in Early /\ at' = [at EXCEPT ![q] = "saving"] /\ LoopIdle
    BY <1>3 DEF Conclude, Early
  <2>2. PICK r \in Record :
              /\ Stores(q, r)'
              /\ \/ Alone'
                 \/ /\ index # Torn
                    /\ \E ids \in Seq(Queries), gone \in SUBSET Queries :
                          /\ Prepended(ids, q)
                          /\ Lists(q, ids, gone)'
    BY <1>0, <1>3, ConcludeSection
  <2>3. q \notin Listed /\ Len(IndexIds) <= HistoryLimit
    BY <1>0, <2>1, NotListedYet
  <2>4. Listed' = Listed
    BY <2>1 DEF Listed, IndexIds
  <2>5. \A p \in Queries : Fresh(p)' => p = q
    BY <2>2 DEF Fresh, Stores
  <2>6. \A p \in Queries : at'[p] = IF p = q THEN "saving" ELSE at[p]
    BY <1>a, <2>1
  <2>7. \A p \in Queries : Fresh(p)' => p \notin Listed' /\ at'[p] = "saving"
    BY <2>3, <2>4, <2>5, <2>6
  <2>8. \A p \in Queries : Holds(Target, p)' => p \in Listed \/ p = q
    <3>1. CASE Alone'
      BY <2>4, <3>1, ListedHeld DEF Alone, Holds
    <3>2. ASSUME NEW ids \in Seq(Queries), NEW gone \in SUBSET Queries, Prepended(ids, q), Lists(q, ids, gone)'
          PROVE  \A p \in Queries : Holds(Target, p)' => p \in Listed \/ p = q
      <4>1. Range(ids) \subseteq Listed \cup {q}
        BY <1>0, <2>3, <3>2, PrependedShape
      <4> QED
        BY <3>2, <4>1 DEF Lists, Holds
    <3> QED
      BY <2>2, <3>1, <3>2
  <2>9. ASSUME NEW t \in Readers
        PROVE  /\ reading'[t].at \in {"next", "opening"} => reading'[t].todo # <<>>
               /\ \A p \in Range(reading'[t].todo) \cup reading'[t].missed : at'[p] \notin Early /\ ~ Fresh(p)'
               /\ \A p \in reading'[t].missed : p \notin Listed' /\ ~ Holds(Target, p)'
    <3>1. \A p \in Range(reading[t].todo) \cup reading[t].missed : p \in Queries /\ p # q
      BY <1>0, <1>a, <2>1 DEF ReaderInv
    <3> QED
      BY <1>0, <2>1, <2>4, <2>5, <2>6, <2>8, <3>1 DEF ReaderInv
  <2> QED
    BY <2>7, <2>9 DEF ReaderInv
<1>4. ASSUME NEW q \in Queries, FinishDiagnosis(q)
      PROVE  ReaderInv'
  <2>1. Alone' /\ LoopIdle /\ UNCHANGED <<index, at, reading>>
    BY <1>0, <1>4, FinishSection DEF FinishDiagnosis
  <2>2. Listed' = Listed /\ (\A p : ~ Fresh(p)')
    BY <2>1 DEF Listed, IndexIds, Fresh, Alone
  <2>3. \A p : Holds(Target, p)' => p \in Listed
    BY <2>1, <2>2, ListedHeld DEF Alone, Holds
  <2> QED
    BY <1>0, <2>1, <2>2, <2>3 DEF ReaderInv
<1>5. ASSUME Crash
      PROVE  ReaderInv'
  <2>1. \A t \in Readers : reading'[t] = Resting
    BY <1>5 DEF Crash
  <2>2. Range(Resting.todo) = {} /\ Resting.missed = {} /\ Resting.at = "idle"
    BY DEF Resting, Range
  <2>3. \A p : ~ Fresh(p)'
    BY <1>5, NoSection DEF Crash, Fresh, Alone
  <2> QED
    BY <2>1, <2>2, <2>3 DEF ReaderInv
<1>6. ASSUME FileStep
      PROVE  ReaderInv'
  <2>0. /\ SectionInv' /\ Target' = Target /\ 1 \in DOMAIN section /\ section \in Seq(Operation)
        /\ DOMAIN section = 1 .. Len(section) /\ Len(section) \in Nat
        /\ UNCHANGED reading
    BY <1>0, <1>6, FileStepKeeps, Remaining DEF FileStep, TypeOK
  <2>1. \A p \in Queries : Fresh(p)' => Fresh(p)
    BY <1>0, <1>6, StillToMake DEF Fresh
  <2>2. CASE UNCHANGED <<index, at>>
    <3>1. Listed' = Listed /\ \A p : Holds(Target, p)' <=> Holds(Target, p)
      BY <2>0, <2>2 DEF Listed, IndexIds, Holds
    <3>2. ASSUME NEW t \in Readers
          PROVE  /\ reading'[t].at \in {"next", "opening"} => reading'[t].todo # <<>>
                 /\ \A p \in Range(reading'[t].todo) \cup reading'[t].missed : at'[p] \notin Early /\ ~ Fresh(p)'
                 /\ \A p \in reading'[t].missed : p \notin Listed' /\ ~ Holds(Target, p)'
      BY <1>0, <1>a, <2>0, <2>1, <2>2, <3>1 DEF ReaderInv
    <3> QED
      BY <1>0, <2>1, <2>2, <3>1, <3>2 DEF ReaderInv
  <2>3. CASE /\ Rewrites(1) /\ section[1].value \in Seq(Queries) \cup {Torn}
             /\ index' = section[1].value
             /\ UNCHANGED <<records, at, due>>
    <3>1. \A p \in Queries : ~ Fresh(p)'
      <4> SUFFICES ASSUME NEW p \in Queries, NEW i \in DOMAIN section', Writes(i, p)'
                   PROVE  FALSE
        BY DEF Fresh
      <4>1. PICK j \in DOMAIN section : j = i + 1 /\ section'[i] = section[j] /\ j # 1
        BY <1>0, <1>6, StillToMake
      <4>2. 1 < j
        BY <2>0, <4>1
      <4>3. Writes(j, p)
        BY <4>1
      <4> QED
        BY <1>0, <2>0, <2>3, <4>2, <4>3 DEF SectionInv
    <3>2. \A p \in Listed' : Holds(Target, p)
      <4> TAKE p \in Listed'
      <4>1. Holds(index, p)'
        BY ListedHeld
      <4>2. section[1].value # Torn
        BY <2>3, <4>1 DEF Holds
      <4>3. Target = section[1].value
        BY <1>0, <2>0, <2>3, <4>2, TargetIs
      <4> QED
        BY <2>3, <4>1, <4>3 DEF Holds
    <3>3. ASSUME NEW t \in Readers
          PROVE  /\ reading'[t].at \in {"next", "opening"} => reading'[t].todo # <<>>
                 /\ \A p \in Range(reading'[t].todo) \cup reading'[t].missed : at'[p] \notin Early /\ ~ Fresh(p)'
                 /\ \A p \in reading'[t].missed : p \notin Listed' /\ ~ Holds(Target, p)'
      <4>1. \A p : Holds(Target, p)' <=> Holds(Target, p)
        BY <2>0 DEF Holds
      <4> QED
        BY <1>0, <1>a, <2>0, <2>3, <3>1, <3>2, <4>1 DEF ReaderInv
    <3> QED
      BY <3>1, <3>3 DEF ReaderInv
  <2>4. ASSUME NEW q \in Queries, NEW v \in {"answered", "error"}, section[1] = ReturnOp(q, v),
               at' = [at EXCEPT ![q] = v], UNCHANGED index
        PROVE  ReaderInv'
    <3>1. Listed' = Listed /\ \A p : Holds(Target, p)' <=> Holds(Target, p)
      BY <2>0, <2>4 DEF Listed, IndexIds, Holds
    <3>2. \A i \in DOMAIN section' : FALSE
      <4>1. section[1].op = "return"
        BY <2>4 DEF ReturnOp
      <4>2. 1 = Len(section)
        BY <1>0, <2>0, <4>1 DEF SectionInv
      <4>3. section # <<>> /\ section' = Tail(section)
        BY <1>6 DEF FileStep
      <4>4. DOMAIN section' = 1 .. Len(section) - 1
        BY <1>0, <4>3, Remaining
      <4>5. Len(section) - 1 = 0
        BY <4>2
      <4>6. DOMAIN section' = 1 .. 0
        BY <4>4, <4>5
      <4> QED
        BY <4>6
    <3>3. \A p : ~ Fresh(p)'
      BY <3>2 DEF Fresh
    <3>4. \A p \in Queries : at[p] \notin Early => at'[p] \notin Early
      BY <1>a, <2>4 DEF Early
    <3>5. ASSUME NEW t \in Readers
          PROVE  /\ reading'[t].at \in {"next", "opening"} => reading'[t].todo # <<>>
                 /\ \A p \in Range(reading'[t].todo) \cup reading'[t].missed : at'[p] \notin Early /\ ~ Fresh(p)'
                 /\ \A p \in reading'[t].missed : p \notin Listed' /\ ~ Holds(Target, p)'
      BY <1>0, <1>a, <2>0, <3>1, <3>3, <3>4 DEF ReaderInv
    <3> QED
      BY <3>3, <3>5 DEF ReaderInv
  <2> QED
    BY <1>0, <1>6, <2>2, <2>3, <2>4, FileStepKinds
<1>7. ASSUME NEW t \in Readers,
             \/ ListUserQueries(t) \/ LookForRecord(t) \/ ReadRecord(t)
             \/ \E q \in Queries : GetUserQuery(t, q)
      PROVE  ReaderInv'
  <2>1. UNCHANGED <<records, index, section, at>>
    BY <1>7, ReadingKeeps
  <2>2. /\ Listed' = Listed
        /\ \A p : Fresh(p)' <=> Fresh(p)
        /\ \A p : Holds(Target, p)' <=> Holds(Target, p)
    BY <2>1 DEF Fresh, Listed, IndexIds, Target, Holds
  <2>3. PICK s \in Reading :
              /\ reading' = [reading EXCEPT ![t] = s]
              /\ s.at \in {"next", "opening"} => s.todo # <<>>
              /\ \A q \in Range(s.todo) :
                    q \in Range(reading[t].todo) \/ q \in Listed \/ (q \in Queries /\ at[q] = "answered")
              /\ \A q \in s.missed :
                    \/ q \in reading[t].missed
                    \/ q \in Range(reading[t].todo) /\ q \in Queries /\ records[q] = None
    BY <1>0, <1>7, ReadingSteps
  <2>4. reading'[t] = s /\ \A u \in Readers : u # t => reading'[u] = reading[u]
    BY <1>0, <2>3 DEF TypeOK
  <2>5. \A p \in Listed : at[p] \notin Early
    <3> TAKE p \in Listed
    <3>1. Holds(index, p)
      BY ListedHeld
    <3> QED
      BY <1>0, <3>1 DEF HistoryInv, History, Holds
  <2>6. \A p \in Range(s.todo) : at[p] \notin Early /\ ~ Fresh(p)
    BY <1>0, <1>a, <2>3, <2>5 DEF ReaderInv, Early
  <2>7. ASSUME NEW p \in s.missed
        PROVE  at[p] \notin Early /\ ~ Fresh(p) /\ p \notin Listed /\ ~ Holds(Target, p)
    <3>1. CASE p \in reading[t].missed
      BY <1>0, <3>1 DEF ReaderInv
    <3>2. CASE p \in Range(reading[t].todo) /\ p \in Queries /\ records[p] = None
      <4>1. at[p] \notin Early /\ ~ Fresh(p)
        BY <1>0, <3>2 DEF ReaderInv
      <4>2. p \notin Listed
        BY <1>0, <3>2 DEF FileInv
      <4>3. ~ Holds(Target, p)
        <5>1. CASE \E i \in DOMAIN section : Rewrites(i)
          BY <1>0, <3>2, <4>1, <5>1 DEF FileInv, Fresh
        <5>2. CASE ~ \E i \in DOMAIN section : Rewrites(i)
          BY <4>2, <5>2, TargetReached, ListedHeld DEF Holds
        <5> QED
          BY <5>1, <5>2
      <4> QED
        BY <4>1, <4>2, <4>3
    <3> QED
      BY <2>3, <3>1, <3>2
  <2>8. ASSUME NEW u \in Readers
        PROVE  /\ reading'[u].at \in {"next", "opening"} => reading'[u].todo # <<>>
               /\ \A p \in Range(reading'[u].todo) \cup reading'[u].missed : at'[p] \notin Early /\ ~ Fresh(p)'
               /\ \A p \in reading'[u].missed : p \notin Listed' /\ ~ Holds(Target, p)'
    <3>1. CASE u = t
      BY <2>1, <2>2, <2>3, <2>4, <2>6, <2>7, <3>1
    <3>2. CASE u # t
      BY <1>0, <2>1, <2>2, <2>4, <3>2 DEF ReaderInv
    <3> QED
      BY <3>1, <3>2
  <2> QED
    BY <1>0, <2>1, <2>2, <2>8 DEF ReaderInv
<1>8. ASSUME NEW q \in Queries, StartDiagnosis(q)
      PROVE  UNCHANGED <<index, section, at, reading>>
  BY <1>8 DEF StartDiagnosis
<1>9. ASSUME UNCHANGED vars
      PROVE  UNCHANGED <<index, section, at, reading>>
  BY <1>9 DEF vars, loop
<1> QED
  BY <1>1, <1>2, <1>3, <1>4, <1>5, <1>6, <1>7, <1>8, <1>9, StepKinds

(* With the return a section has been performed. *)
LEMMA ReturnIsLast ==
    ASSUME TypeOK, SectionInv, FileStep, section[1].op = "return"
    PROVE  section' = <<>> /\ DOMAIN section = {1} /\ DOMAIN section' = {}
<1>1. section # <<>> /\ section' = Tail(section)
  BY DEF FileStep
<1>2. /\ section' \in Seq(Operation) /\ Len(section') = Len(section) - 1 /\ 1 \in DOMAIN section
      /\ DOMAIN section = 1 .. Len(section)
  BY <1>1, Remaining
<1>3. 1 = Len(section)
  BY <1>2 DEF SectionInv
<1>4. Len(section') = 0
  <2>1. Len(section') = Len(section) - 1 /\ Len(section) = 1
    BY <1>2, <1>3
  <2> QED
    BY <2>1
<1>5. section' = <<>>
  BY <1>2, <1>4, EmptySeq
<1>6. DOMAIN section = 1 .. 1
  BY <1>2, <1>3
<1> QED
  BY <1>5, <1>6

(* What a POST's save does while the index can be read: the ids of the      *)
(* index that it does not keep are removed.                                 *)
LEMMA KeptOrRemoved ==
    ASSUME TypeOK, HistoryInv, NEW q \in Queries, Conclude(q), index # Torn
    PROVE  \E r \in Record :
              /\ r.diagnostic \in {"not_required", "pending"}
              /\ Stores(q, r)'
              /\ Target' # Torn
              /\ Holds(Target, q)'
              /\ \A p \in Queries : Holds(index, p) =>
                    Holds(Target, p)' \/ \E i \in DOMAIN section' : Removes(i, p)'
              /\ \A i \in DOMAIN section', p \in Queries : Returns(i, p)' => p = q
              /\ \E i \in DOMAIN section' : Returns(i, q)'
<1>1. PICK r \in Record :
              /\ r.diagnostic \in {"not_required", "pending"}
              /\ Stores(q, r)'
              /\ \/ index = Torn /\ Alone'
                 \/ /\ index # Torn
                    /\ \E ids \in Seq(Queries), gone \in SUBSET Queries :
                          /\ Prepended(ids, q)
                          /\ gone = IF Len(IndexIds) = HistoryLimit THEN {IndexIds[HistoryLimit]} ELSE {}
                          /\ Lists(q, ids, gone)'
  BY ConcludeSection
<1>2. PICK ids \in Seq(Queries), gone \in SUBSET Queries :
          /\ Prepended(ids, q)
          /\ gone = IF Len(IndexIds) = HistoryLimit THEN {IndexIds[HistoryLimit]} ELSE {}
          /\ Lists(q, ids, gone)'
  BY <1>1
<1>3. at[q] \in Early
  BY DEF Conclude, Early
<1>4. q \notin Listed /\ Len(IndexIds) <= HistoryLimit
  BY <1>3, NotListedYet
<1>5. /\ q \in Range(ids)
      /\ \A p \in Listed : p \in Range(ids) \/ (Len(IndexIds) = HistoryLimit /\ p = IndexIds[HistoryLimit])
  BY <1>2, <1>4, PrependedShape
<1>6. Target' = ids /\ ids \notin {None, Torn}
  BY <1>2, NoneAssumption DEF Lists
<1>7. Holds(Target, q)'
  BY <1>5, <1>6 DEF Holds
<1>8. ASSUME NEW p \in Queries, Holds(index, p)
      PROVE  Holds(Target, p)' \/ \E i \in DOMAIN section' : Removes(i, p)'
  <2>1. p \in Listed
    BY <1>8, ListedHeld
  <2>2. CASE p \in Range(ids)
    BY <1>6, <2>2 DEF Holds
  <2>3. CASE Len(IndexIds) = HistoryLimit /\ p = IndexIds[HistoryLimit]
    <3>1. p \in gone
      BY <1>2, <2>3
    <3> QED
      BY <1>2, <3>1 DEF Lists
  <2> QED
    BY <1>5, <2>1, <2>2, <2>3
<1>9. /\ \A i \in DOMAIN section', p \in Queries : Returns(i, p)' => p = q
      /\ \E i \in DOMAIN section' : Returns(i, q)'
  BY <1>2 DEF Lists
<1> QED
  BY <1>1, <1>6, <1>7, <1>8, <1>9

(* What keeps an unlisted record on file. *)
LEMMA RevivalStep == Inv /\ [Next]_vars => RevivalInv'
<1> SUFFICES ASSUME Inv, [Next]_vars, crashes' = 0
             PROVE  RevivalInv'
  BY DEF RevivalInv
<1>0. TypeOK /\ SectionInv /\ HistoryInv /\ RevivalInv
  BY DEF Inv
<1>a. /\ records \in [Queries -> Record \cup {None, Torn}] /\ None # Torn
      /\ None \notin Record /\ Torn \notin Record
  BY <1>0, NoneAssumption DEF TypeOK
<1>1. CASE UNCHANGED <<records, index, section, crashes>>
  <2>1. Target' = Target /\ \A p : Holds(Target, p)' <=> Holds(Target, p)
    BY <1>1 DEF Target, Holds
  <2> QED
    BY <1>0, <1>1, <2>1 DEF RevivalInv
<1>3. ASSUME NEW q \in Queries, Conclude(q)
      PROVE  RevivalInv'
  <2>1. UNCHANGED <<records, index, crashes>> /\ LoopIdle
    BY <1>3 DEF Conclude
  <2>2. Target = index /\ DOMAIN section = {}
    BY <2>1, LoopIdles
  <2>3. index # Torn
    BY <1>0, <2>1, <2>2 DEF RevivalInv
  <2>4. PICK r \in Record :
              /\ Stores(q, r)'
              /\ Target' # Torn
              /\ Holds(Target, q)'
              /\ \A p \in Queries : Holds(index, p) =>
                    Holds(Target, p)' \/ \E i \in DOMAIN section' : Removes(i, p)'
    BY <1>0, <1>3, <2>3, KeptOrRemoved
  <2>5. ASSUME NEW p \in Queries, records'[p] # None
        PROVE  \/ Holds(Target, p)'
               \/ records'[p] # Torn /\ records'[p].diagnostic \in Verdict
               \/ \E i \in DOMAIN section' : Touches(i, p)'
    <3>1. Holds(Target, p) \/ (records[p] # Torn /\ records[p].diagnostic \in Verdict)
      BY <1>0, <2>1, <2>2, <2>5 DEF RevivalInv
    <3>2. CASE Holds(Target, p)
      <4>1. Holds(index, p)
        BY <2>2, <3>2 DEF Holds
      <4> QED
        BY <2>4, <4>1
    <3> QED
      BY <2>1, <3>1, <3>2
  <2>6. \A i \in DOMAIN section', p \in Queries : (Touches(i, p)' /\ section'[i].value \in Record) => p = q
    BY <1>a, <2>4 DEF Stores
  <2> QED
    BY <2>4, <2>5, <2>6 DEF RevivalInv
<1>4. ASSUME NEW q \in Queries, FinishDiagnosis(q)
      PROVE  RevivalInv'
  <2>1. UNCHANGED <<records, index, crashes>> /\ LoopIdle
    BY <1>4 DEF FinishDiagnosis
  <2>2. PICK r \in Record : r.diagnostic \in Verdict /\ Stores(q, r)' /\ Alone'
    BY <1>0, <1>4, FinishSection
  <2>3. Target' = Target /\ DOMAIN section = {}
    BY <2>1, <2>2, LoopIdles DEF Alone
  <2>4. \A p : Holds(Target, p)' <=> Holds(Target, p)
    BY <2>3 DEF Holds
  <2>5. \A i \in DOMAIN section', p \in Queries : (Touches(i, p)' /\ section'[i].value \in Record) =>
           section'[i].value = r
    BY <1>a, <2>2 DEF Stores
  <2> QED
    BY <1>0, <2>1, <2>2, <2>3, <2>4, <2>5 DEF RevivalInv
<1>5. ASSUME Crash
      PROVE  FALSE
  BY <1>0, <1>5 DEF Crash, TypeOK
<1>6. ASSUME FileStep
      PROVE  RevivalInv'
  <2>0. /\ SectionInv' /\ Target' = Target /\ 1 \in DOMAIN section /\ section \in Seq(Operation)
        /\ crashes = 0 /\ section # <<>> /\ section' = Tail(section)
    BY <1>0, <1>6, FileStepKeeps, Remaining DEF FileStep, TypeOK
  <2>1. \A p : Holds(Target, p)' <=> Holds(Target, p)
    BY <2>0 DEF Holds
  <2>2. ASSUME NEW i \in DOMAIN section, i # 1, NEW p \in Queries, Touches(i, p)
        PROVE  \E j \in DOMAIN section' : Touches(j, p)'
    BY <1>0, <1>6, <2>2, NotYetMade
  <2>3. \A i \in DOMAIN section', p \in Queries : (Touches(i, p)' /\ section'[i].value \in Record) =>
           Holds(Target, p)' \/ section'[i].value.diagnostic \in Verdict
    BY <1>0, <1>6, <2>0, <2>1, StillToMake DEF RevivalInv
  <2>4. ASSUME NEW p \in Queries, records'[p] = records[p], records[p] # None, ~ Touches(1, p)
        PROVE  \/ Holds(Target, p)'
               \/ records'[p] # Torn /\ records'[p].diagnostic \in Verdict
               \/ \E i \in DOMAIN section' : Touches(i, p)'
    BY <1>0, <2>0, <2>1, <2>2, <2>4 DEF RevivalInv
  <2>5. ASSUME NEW q \in Queries, NEW v \in Record \cup {None, Torn},
               Touches(1, q), section[1].value = v, records' = [records EXCEPT ![q] = v]
        PROVE  RevivalInv'
    <3>1. ASSUME NEW p \in Queries, records'[p] # None
          PROVE  \/ Holds(Target, p)'
                 \/ records'[p] # Torn /\ records'[p].diagnostic \in Verdict
                 \/ \E i \in DOMAIN section' : Touches(i, p)'
      <4>1. CASE p # q
        BY <1>a, <2>4, <2>5, <3>1, <4>1
      <4>2. CASE p = q /\ v = Torn
        <5>1. 1 + 1 \in DOMAIN section /\ Touches(1 + 1, p)
          BY <1>0, <2>0, <2>5, <4>2 DEF SectionInv
        <5> QED
          BY <2>2, <5>1
      <4>3. CASE p = q /\ v \in Record
        <5>1. Holds(Target, p) \/ v.diagnostic \in Verdict
          BY <1>0, <2>0, <2>5, <4>3 DEF RevivalInv
        <5>2. records'[p] = v /\ v # Torn
          BY <1>a, <2>5, <4>3
        <5> QED
          BY <2>1, <5>1, <5>2
      <4>4. CASE p = q /\ v = None
        BY <1>a, <2>5, <3>1, <4>4
      <4> QED
        BY <4>1, <4>2, <4>3, <4>4
    <3>2. Target' # Torn
      BY <1>0, <2>0 DEF RevivalInv
    <3> QED
      BY <2>3, <3>1, <3>2 DEF RevivalInv
  <2>6. ASSUME UNCHANGED records, \A p \in Queries : ~ Touches(1, p)
        PROVE  RevivalInv'
    <3>1. Target' # Torn
      BY <1>0, <2>0 DEF RevivalInv
    <3> QED
      BY <2>3, <2>4, <2>6, <3>1 DEF RevivalInv
  <2>7. ASSUME NEW q \in Queries, NEW v \in {"answered", "error"}, section[1] = ReturnOp(q, v)
        PROVE  section[1].op = "return"
    BY <2>7 DEF ReturnOp
  <2> QED
    BY <1>0, <1>6, <2>5, <2>6, <2>7, FileStepKinds
<1>7. ASSUME NEW t \in Readers,
             \/ ListUserQueries(t) \/ LookForRecord(t) \/ ReadRecord(t)
             \/ \E q \in Queries : GetUserQuery(t, q)
      PROVE  UNCHANGED <<records, index, section, crashes>>
  BY <1>7, ReadingKeeps
<1>8. ASSUME NEW q \in Queries, StartDiagnosis(q)
      PROVE  UNCHANGED <<records, index, section, crashes>>
  BY <1>8 DEF StartDiagnosis
<1>9. ASSUME UNCHANGED vars
      PROVE  UNCHANGED <<records, index, section, crashes>>
  BY <1>9 DEF vars, loop
<1> QED
  BY <1>1, <1>3, <1>4, <1>5, <1>6, <1>7, <1>8, <1>9, StepKinds

(* A diagnosis that is due finds the record whole, and an answer too. *)
LEMMA DueStep == Inv /\ [Next]_vars => DueInv'
<1> SUFFICES ASSUME Inv, [Next]_vars
             PROVE  DueInv'
  OBVIOUS
<1>0. TypeOK /\ SectionInv /\ HistoryInv /\ FileInv /\ DueInv
  BY DEF Inv
<1>a. /\ records \in [Queries -> Record \cup {None, Torn}] /\ None # Torn
      /\ None \notin Record /\ Torn \notin Record
      /\ at \in [Queries -> Place] /\ due \subseteq Queries
      /\ copy \in [Queries -> Record \cup {None}]
      /\ section \in Seq(Operation)
  BY <1>0, NoneAssumption DEF TypeOK
<1>b. ASSUME NEW i \in DOMAIN section, section[i].op = "return"
      PROVE  section[i].query \in Queries
  <2>1. section[i] \in Operation
    BY <1>a, ElementOfSeq, LenProperties
  <2> QED
    BY <1>b, <2>1, OperationKinds
<1>1. CASE UNCHANGED <<records, section, at, due, copy>>
  BY <1>0, <1>1 DEF DueInv
<1>2. ASSUME NEW q \in Queries, NEW place \in Early, at[q] \in Early, at' = [at EXCEPT ![q] = place],
             UNCHANGED <<records, section, due, copy>>
      PROVE  DueInv'
  <2>1. \A p \in Queries : at[p] \in {"answered", "saving"} => at'[p] = at[p]
    BY <1>2, <1>a DEF Early
  <2>2. \A i \in DOMAIN section' : section'[i].op = "return" => at'[section'[i].query] = "saving"
    BY <1>0, <1>2, <1>b, <2>1 DEF DueInv
  <2> QED
    BY <1>0, <1>2, <1>a, <2>1, <2>2 DEF DueInv
<1>3. ASSUME NEW q \in Queries, Conclude(q)
      PROVE  DueInv'
  <2>1. UNCHANGED <<records, due, copy>> /\ at[q] \in Early /\ at' = [at EXCEPT ![q] = "saving"]
    BY <1>3 DEF Conclude, Early
  <2>2. PICK r \in Record :
              /\ Stores(q, r)'
              /\ \/ Alone'
                 \/ \E ids \in Seq(Queries), gone \in SUBSET Queries : Lists(q, ids, gone)'
    BY <1>0, <1>3, ConcludeSection
  <2>3. \A i \in DOMAIN section', p \in Queries : Returns(i, p)' => p = q
    BY <2>2 DEF Alone, Lists
  <2>4. /\ \A p \in Queries : p # q => at'[p] = at[p]
        /\ at'[q] = "saving"
    BY <1>a, <2>1
  <2>5. q \notin due /\ copy[q] = None
    BY <1>0, <2>1 DEF DueInv, Early
  <2>6. /\ \A i \in DOMAIN section', p \in Queries : Writes(i, p)' => p = q
        /\ \E i \in DOMAIN section' : Touches(i, q)' /\ section'[i].value = r
        /\ \A i \in DOMAIN section' : section'[i].op = "return" => section'[i].query = q
    BY <2>2 DEF Stores
  <2>7. \A p \in due' :
          /\ at'[p] = "answered" /\ copy'[p] = None /\ records'[p] # Torn
          /\ \A i \in DOMAIN section' : ~ Writes(i, p)'
    BY <1>0, <1>a, <2>1, <2>4, <2>5, <2>6 DEF DueInv
  <2>8. \A p \in Queries : copy'[p] # None => at'[p] = "answered"
    BY <1>0, <2>1, <2>4, <2>5 DEF DueInv
  <2> QED
    BY <2>3, <2>4, <2>6, <2>7, <2>8 DEF DueInv
<1>4. ASSUME NEW q \in Queries, StartDiagnosis(q)
      PROVE  DueInv'
  <2>1. /\ q \in due /\ due' = due \ {q} /\ copy' = [copy EXCEPT ![q] = records[q]]
        /\ UNCHANGED <<records, section, at>>
    BY <1>4 DEF StartDiagnosis
  <2>2. \A p \in Queries : p # q => copy'[p] = copy[p]
    BY <1>a, <2>1
  <2> QED
    BY <1>0, <1>a, <2>1, <2>2 DEF DueInv
<1>5. ASSUME NEW q \in Queries, FinishDiagnosis(q)
      PROVE  DueInv'
  <2>1. UNCHANGED <<records, due, at>> /\ copy[q] # None /\ copy' = [copy EXCEPT ![q] = None]
    BY <1>5 DEF FinishDiagnosis
  <2>2. PICK r \in Record : Stores(q, r)' /\ Alone'
    BY <1>0, <1>5, FinishSection
  <2>3. \A i \in DOMAIN section' : section'[i].op # "return"
    BY <1>0, <1>5, FinishSection
  <2>4. /\ \A p \in Queries : copy'[p] = IF p = q THEN None ELSE copy[p]
        /\ q \notin due
    BY <1>0, <1>a, <2>1 DEF DueInv
  <2>5. \A i \in DOMAIN section', p \in Queries : (Writes(i, p)' => p = q) /\ ~ Returns(i, p)'
    BY <2>2 DEF Stores, Alone
  <2> QED
    BY <1>0, <1>a, <2>1, <2>3, <2>4, <2>5 DEF DueInv
<1>6. ASSUME Crash
      PROVE  DueInv'
  <2>1. /\ section' = <<>> /\ due' = {} /\ copy' = [q \in Queries |-> None]
    BY <1>6 DEF Crash
  <2>2. DOMAIN section' = {}
    BY <2>1
  <2> QED
    BY <2>1, <2>2 DEF DueInv
<1>7. ASSUME FileStep
      PROVE  DueInv'
  <2>0. /\ UNCHANGED copy /\ 1 \in DOMAIN section /\ section # <<>> /\ section' = Tail(section)
    BY <1>0, <1>7, Remaining DEF FileStep
  <2>1. ASSUME NEW i \in DOMAIN section, i # 1, NEW p \in Queries, Touches(i, p), section[i].value \in Record
        PROVE  \E j \in DOMAIN section' : Touches(j, p)' /\ section'[j].value \in Record
    BY <1>0, <1>7, <2>1, NotYetMade
  <2>2. \A p \in due, i \in DOMAIN section' : ~ Writes(i, p)'
    BY <1>0, <1>7, StillToMake DEF DueInv
  <2>3. ASSUME UNCHANGED at
        PROVE  \A i \in DOMAIN section' : section'[i].op = "return" => at'[section'[i].query] = "saving"
    BY <1>0, <1>7, <2>3, StillToMake DEF DueInv
  <2>4. ASSUME NEW q \in Queries, NEW v \in Record \cup {None, Torn},
               Touches(1, q), section[1].value = v,
               records' = [records EXCEPT ![q] = v], UNCHANGED <<index, at, due>>
        PROVE  DueInv'
    <3>1. ASSUME NEW p \in due
          PROVE  records'[p] # Torn
      <4>1. CASE p = q
        <5>1. v = None
          BY <1>0, <2>0, <2>4, <3>1, <4>1 DEF DueInv
        <5> QED
          BY <1>a, <2>4, <4>1, <5>1
      <4>2. CASE p # q
        BY <1>0, <1>a, <2>4, <3>1, <4>2 DEF DueInv
      <4> QED
        BY <4>1, <4>2
    <3>2. ASSUME NEW i \in DOMAIN section', NEW p \in Queries, Returns(i, p)'
          PROVE  records'[p] \in Record \/ \E j \in DOMAIN section' : Touches(j, p)' /\ section'[j].value \in Record
      <4>1. PICK k \in DOMAIN section : Returns(k, p)
        BY <1>0, <1>7, <3>2, StillToMake
      <4>2. records[p] \in Record \/ \E j \in DOMAIN section : Touches(j, p) /\ section[j].value \in Record
        BY <1>0, <4>1 DEF DueInv
      <4>3. CASE p # q
        <5>1. records'[p] = records[p]
          BY <1>a, <2>4, <4>3
        <5> QED
          BY <2>1, <2>4, <4>2, <4>3, <5>1
      <4>4. CASE p = q /\ v \in Record
        BY <1>a, <2>4, <4>4
      <4>5. CASE p = q /\ v = Torn
        <5>1. 1 + 1 \in DOMAIN section /\ Touches(1 + 1, p) /\ section[1 + 1].value \in Record
          BY <1>0, <2>0, <2>4, <4>5 DEF SectionInv
        <5> QED
          BY <2>1, <5>1
      <4>6. CASE p = q /\ v = None
        <5>1. Holds(Target, p)
          BY <1>0, <4>1 DEF HistoryInv
        <5>2. ~ Holds(Target, p)
          BY <1>0, <2>0, <2>4, <4>6 DEF FileInv
        <5> QED
          BY <5>1, <5>2
      <4> QED
        BY <4>3, <4>4, <4>5, <4>6
    <3>3. \A p \in due' :
            /\ at'[p] = "answered" /\ copy'[p] = None /\ records'[p] # Torn
            /\ \A i \in DOMAIN section' : ~ Writes(i, p)'
      BY <1>0, <2>0, <2>2, <2>4, <3>1 DEF DueInv
    <3>4. \A p \in Queries : copy'[p] # None => at'[p] = "answered"
      BY <1>0, <2>0, <2>4 DEF DueInv
    <3>5. \A i \in DOMAIN section' : section'[i].op = "return" => at'[section'[i].query] = "saving"
      BY <2>3, <2>4
    <3> QED
      BY <3>2, <3>3, <3>4, <3>5 DEF DueInv
  <2>5. CASE /\ Rewrites(1) /\ section[1].value \in Seq(Queries) \cup {Torn}
             /\ index' = section[1].value
             /\ UNCHANGED <<records, at, due>>
    <3>1. ASSUME NEW i \in DOMAIN section', NEW p \in Queries, Returns(i, p)'
          PROVE  records'[p] \in Record \/ \E j \in DOMAIN section' : Touches(j, p)' /\ section'[j].value \in Record
      <4>1. PICK k \in DOMAIN section : Returns(k, p)
        BY <1>0, <1>7, <3>1, StillToMake
      <4>2. records[p] \in Record \/ \E j \in DOMAIN section : Touches(j, p) /\ section[j].value \in Record
        BY <1>0, <4>1 DEF DueInv
      <4> QED
        BY <2>1, <2>5, <4>2
    <3>2. \A p \in due' :
            /\ at'[p] = "answered" /\ copy'[p] = None /\ records'[p] # Torn
            /\ \A i \in DOMAIN section' : ~ Writes(i, p)'
      BY <1>0, <2>0, <2>2, <2>5 DEF DueInv
    <3>3. \A p \in Queries : copy'[p] # None => at'[p] = "answered"
      BY <1>0, <2>0, <2>5 DEF DueInv
    <3>4. \A i \in DOMAIN section' : section'[i].op = "return" => at'[section'[i].query] = "saving"
      BY <2>3, <2>5
    <3> QED
      BY <3>1, <3>2, <3>3, <3>4 DEF DueInv
  <2>6. ASSUME NEW q \in Queries, NEW v \in {"answered", "error"},
               section[1] = ReturnOp(q, v),
               at' = [at EXCEPT ![q] = v],
               due' = IF v = "answered" /\ records[q].diagnostic = "pending"
                      THEN due \cup {q} ELSE due,
               UNCHANGED <<records, index>>
        PROVE  DueInv'
    <3>1. section[1].op = "return" /\ section[1].query = q
      BY <2>6 DEF ReturnOp
    <3>2. DOMAIN section' = {} /\ DOMAIN section = {1}
      BY <1>0, <1>7, <3>1, ReturnIsLast
    <3>3. at[q] = "saving"
      BY <1>0, <2>0, <3>1 DEF DueInv
    <3>4. /\ \A p \in Queries : p # q => at'[p] = at[p]
          /\ at'[q] = v
      BY <1>a, <2>6
    <3>5. q \notin due /\ copy[q] = None
      BY <1>0, <3>3 DEF DueInv
    <3>6. ASSUME v = "answered"
          PROVE  records[q] # Torn
      <4>1. Returns(1, q)
        BY <2>6, <3>6 DEF ReturnOp
      <4>2. records[q] \in Record \/ \E j \in DOMAIN section : Touches(j, q)
        BY <1>0, <2>0, <4>1 DEF DueInv
      <4>3. \A j \in DOMAIN section : ~ Touches(j, q)
        BY <3>1, <3>2
      <4> QED
        BY <1>a, <4>2, <4>3
    <3>7. \A p \in due' : at'[p] = "answered" /\ copy'[p] = None /\ records'[p] # Torn
      <4> TAKE p \in due'
      <4>1. CASE p = q
        BY <2>0, <2>6, <3>4, <3>5, <3>6, <4>1
      <4>2. CASE p # q
        BY <1>0, <1>a, <2>0, <2>6, <3>4, <4>2 DEF DueInv
      <4> QED
        BY <4>1, <4>2
    <3>8. \A p \in Queries : copy'[p] # None => at'[p] = "answered"
      BY <1>0, <2>0, <3>4, <3>5 DEF DueInv
    <3> QED
      BY <3>2, <3>7, <3>8 DEF DueInv
  <2> QED
    BY <1>0, <1>7, <2>4, <2>5, <2>6, FileStepKinds
<1>8. ASSUME NEW t \in Readers,
             \/ ListUserQueries(t) \/ LookForRecord(t) \/ ReadRecord(t)
             \/ \E q \in Queries : GetUserQuery(t, q)
      PROVE  UNCHANGED <<records, section, at, due, copy>>
  BY <1>8, ReadingKeeps
<1>9. ASSUME UNCHANGED vars
      PROVE  UNCHANGED <<records, section, at, due, copy>>
  BY <1>9 DEF vars, loop
<1> QED
  BY <1>1, <1>2, <1>3, <1>4, <1>5, <1>6, <1>7, <1>8, <1>9, StepKinds

(* A pending diagnosis is made, is due, or is about to be. *)
LEMMA PendingStep == Inv /\ [Next]_vars => PendingInv'
<1> SUFFICES ASSUME Inv, [Next]_vars, crashes' = 0
             PROVE  PendingInv'
  BY DEF PendingInv
<1>0. TypeOK /\ SectionInv /\ HistoryInv /\ RevivalInv /\ PendingInv
  BY DEF Inv
<1>a. /\ records \in [Queries -> Record \cup {None, Torn}] /\ None # Torn
      /\ None \notin Record /\ Torn \notin Record
      /\ due \subseteq Queries
      /\ copy \in [Queries -> Record \cup {None}]
  BY <1>0, NoneAssumption DEF TypeOK
<1>1. CASE UNCHANGED <<records, section, due, copy, crashes>>
  BY <1>0, <1>1 DEF PendingInv
<1>3. ASSUME NEW q \in Queries, Conclude(q)
      PROVE  PendingInv'
  <2>1. UNCHANGED <<records, index, due, copy, crashes>> /\ LoopIdle
    BY <1>3 DEF Conclude
  <2>2. Target = index /\ DOMAIN section = {}
    BY <2>1, LoopIdles
  <2>3. index # Torn
    BY <1>0, <2>1, <2>2 DEF RevivalInv
  <2>4. PICK r \in Record :
              Stores(q, r)' /\ \E i \in DOMAIN section' : Returns(i, q)'
    BY <1>0, <1>3, <2>3, KeptOrRemoved
  <2>5. \A i \in DOMAIN section', p \in Queries : (Touches(i, p)' /\ Asks(section'[i].value)) => p = q
    BY <1>a, <2>4 DEF Stores, Asks
  <2> QED
    BY <1>0, <2>1, <2>2, <2>4, <2>5 DEF PendingInv
<1>4. ASSUME NEW q \in Queries, StartDiagnosis(q)
      PROVE  PendingInv'
  <2>1. /\ due' = due \ {q} /\ copy' = [copy EXCEPT ![q] = records[q]]
        /\ UNCHANGED <<records, section, crashes>>
    BY <1>4 DEF StartDiagnosis
  <2>2. /\ \A p \in Queries : p # q => copy'[p] = copy[p]
        /\ copy'[q] = records[q]
    BY <1>a, <2>1
  <2>3. Asks(records[q]) => copy'[q] # None
    BY <1>a, <2>2 DEF Asks
  <2> QED
    BY <1>0, <2>1, <2>2, <2>3 DEF PendingInv
<1>5. ASSUME NEW q \in Queries, FinishDiagnosis(q)
      PROVE  PendingInv'
  <2>1. /\ UNCHANGED <<records, due, crashes>> /\ copy' = [copy EXCEPT ![q] = None] /\ LoopIdle
    BY <1>5 DEF FinishDiagnosis
  <2>2. PICK r \in Record : r.diagnostic \in Verdict /\ Stores(q, r)' /\ Alone'
    BY <1>0, <1>5, FinishSection
  <2>3. \A p \in Queries : p # q => copy'[p] = copy[p]
    BY <1>a, <2>1
  <2>4. DOMAIN section = {}
    BY <2>1, LoopIdles
  <2>5. \E i \in DOMAIN section' : Touches(i, q)'
    BY <2>2 DEF Stores
  <2>6. \A i \in DOMAIN section', p \in Queries : Touches(i, p)' => ~ Asks(section'[i].value)
    BY <1>a, <2>2 DEF Stores, Asks, Verdict
  <2> QED
    BY <1>0, <2>1, <2>3, <2>4, <2>5, <2>6 DEF PendingInv
<1>6. ASSUME Crash
      PROVE  FALSE
  BY <1>0, <1>6 DEF Crash, TypeOK
<1>7. ASSUME FileStep
      PROVE  PendingInv'
  <2>0. /\ UNCHANGED copy /\ 1 \in DOMAIN section /\ crashes = 0
    BY <1>0, <1>7, Remaining DEF FileStep
  <2>1. ASSUME NEW i \in DOMAIN section, i # 1, NEW p \in Queries, Touches(i, p) \/ Returns(i, p)
        PROVE  \E j \in DOMAIN section' : Returns(j, p)' \/ Touches(j, p)'
    BY <1>0, <1>7, <2>1, NotYetMade
  <2>2. ASSUME NEW i \in DOMAIN section, i # 1, NEW p \in Queries, Returns(i, p)
        PROVE  \E j \in DOMAIN section' : Returns(j, p)'
    BY <1>0, <1>7, <2>2, NotYetMade
  <2>3. ASSUME section[1].op # "return", NEW i \in DOMAIN section', NEW p \in Queries,
               Touches(i, p)', Asks(section'[i].value)
        PROVE  \E j \in DOMAIN section' : Returns(j, p)'
    <3>1. PICK k \in DOMAIN section : Touches(k, p) /\ Asks(section[k].value)
      BY <1>0, <1>7, <2>3, StillToMake
    <3>2. PICK j \in DOMAIN section : Returns(j, p)
      BY <1>0, <2>0, <3>1 DEF PendingInv
    <3>3. j # 1
      BY <2>3, <3>2
    <3> QED
      BY <2>2, <3>2, <3>3
  <2>4. ASSUME section[1].op # "return", UNCHANGED due, NEW p \in Queries, ~ Touches(1, p),
               Asks(records[p])
        PROVE  \/ p \in due' \/ copy'[p] # None
               \/ \E i \in DOMAIN section' : Returns(i, p)' \/ Touches(i, p)'
    <3>1. \/ p \in due \/ copy[p] # None
          \/ \E i \in DOMAIN section : Returns(i, p) \/ Touches(i, p)
      BY <1>0, <2>0, <2>4 DEF PendingInv
    <3>2. ASSUME NEW i \in DOMAIN section, Returns(i, p) \/ Touches(i, p)
          PROVE  i # 1
      BY <2>4, <3>2
    <3> QED
      BY <2>0, <2>1, <2>4, <3>1, <3>2
  <2>5. ASSUME NEW q \in Queries, NEW v \in Record \cup {None, Torn},
               Touches(1, q), section[1].value = v,
               records' = [records EXCEPT ![q] = v], UNCHANGED <<index, at, due>>
        PROVE  PendingInv'
    <3>0. section[1].op # "return"
      BY <2>5
    <3>1. ASSUME NEW p \in Queries, Asks(records'[p])
          PROVE  \/ p \in due' \/ copy'[p] # None
                 \/ \E i \in DOMAIN section' : Returns(i, p)' \/ Touches(i, p)'
      <4>1. CASE p # q
        <5>1. Asks(records[p]) /\ ~ Touches(1, p)
          BY <1>a, <2>5, <3>1, <4>1
        <5> QED
          BY <2>4, <2>5, <3>0, <5>1
      <4>2. CASE p = q
        <5>1. Asks(v)
          BY <1>a, <2>5, <3>1, <4>2
        <5>2. PICK j \in DOMAIN section : Returns(j, q)
          BY <1>0, <2>0, <2>5, <5>1 DEF PendingInv
        <5>3. j # 1
          BY <3>0, <5>2
        <5> QED
          BY <2>1, <4>2, <5>2, <5>3
      <4> QED
        BY <4>1, <4>2
    <3> QED
      BY <2>3, <3>0, <3>1 DEF PendingInv
  <2>6. CASE /\ Rewrites(1) /\ section[1].value \in Seq(Queries) \cup {Torn}
             /\ index' = section[1].value
             /\ UNCHANGED <<records, at, due>>
    <3>1. section[1].op # "return" /\ \A p \in Queries : ~ Touches(1, p)
      BY <2>6
    <3> QED
      BY <2>3, <2>4, <2>6, <3>1 DEF PendingInv
  <2>7. ASSUME NEW q \in Queries, NEW v \in {"answered", "error"},
               section[1] = ReturnOp(q, v),
               due' = IF v = "answered" /\ records[q].diagnostic = "pending"
                      THEN due \cup {q} ELSE due,
               UNCHANGED <<records, index>>
        PROVE  PendingInv'
    <3>1. section[1].op = "return" /\ section[1].query = q /\ section[1].value = v
      BY <2>7 DEF ReturnOp
    <3>2. DOMAIN section' = {} /\ DOMAIN section = {1}
      BY <1>0, <1>7, <3>1, ReturnIsLast
    <3>3. ASSUME NEW p \in Queries, Asks(records'[p])
          PROVE  p \in due' \/ copy'[p] # None
      <4>1. p \in due \/ copy[p] # None \/ Returns(1, p)
        BY <1>0, <2>0, <2>7, <3>1, <3>2, <3>3 DEF PendingInv
      <4>2. ASSUME Returns(1, p)
            PROVE  p = q /\ v = "answered"
        BY <3>1, <4>2
      <4> QED
        BY <2>0, <2>7, <3>3, <4>1, <4>2 DEF Asks
    <3> QED
      BY <3>2, <3>3 DEF PendingInv
  <2> QED
    BY <1>0, <1>7, <2>5, <2>6, <2>7, FileStepKinds
<1>8. ASSUME NEW t \in Readers,
             \/ ListUserQueries(t) \/ LookForRecord(t) \/ ReadRecord(t)
             \/ \E q \in Queries : GetUserQuery(t, q)
      PROVE  UNCHANGED <<records, section, due, copy, crashes>>
  BY <1>8, ReadingKeeps
<1>9. ASSUME UNCHANGED vars
      PROVE  UNCHANGED <<records, section, due, copy, crashes>>
  BY <1>9 DEF vars, loop
<1> QED
  BY <1>1, <1>3, <1>4, <1>5, <1>6, <1>7, <1>8, <1>9, StepKinds

(* The new service has an empty directory and nothing under way. *)
LEMMA InitInv == Init => Inv
<1> SUFFICES ASSUME Init
             PROVE  Inv
  OBVIOUS
<1> USE BoundsAssumption, NoneAssumption
<1>1. section = <<>> /\ DOMAIN section = {} /\ Len(section) = 0
  <2>1. section = <<>>
    BY DEF Init
  <2> QED
    BY <2>1, EmptySeq
<1>2. IndexIds = <<>> /\ Listed = {} /\ Target = None
  <2>1. IndexIds = <<>>
    BY DEF Init, IndexIds
  <2>2. Listed = {}
    BY <2>1, EmptySeq DEF Listed, Range
  <2> QED
    BY <1>1, <2>1, <2>2 DEF Init, Target
<1>3. TypeOK
  <2>1. Resting \in Reading
    BY EmptySeq DEF Resting, Reading
  <2> QED
    BY <1>1, <2>1 DEF TypeOK, Init, Place
<1>4. SectionInv
  BY <1>1 DEF SectionInv
<1>5. HistoryInv
  BY <1>1, <1>2 DEF HistoryInv, History, Init
<1>6. FileInv
  BY <1>1, <1>2 DEF FileInv, Holds
<1>7. ReaderInv
  <2>1. \A t \in Readers : reading[t] = Resting
    BY DEF Init
  <2>2. Resting.todo = <<>> /\ Resting.missed = {} /\ Resting.at = "idle"
    BY DEF Resting
  <2>3. Range(<<>>) = {}
    BY EmptySeq DEF Range
  <2>4. \A q \in Queries : ~ Fresh(q)
    BY <1>1 DEF Fresh
  <2> QED
    BY <2>1, <2>2, <2>3, <2>4 DEF ReaderInv
<1>8. RevivalInv
  BY <1>1, <1>2 DEF RevivalInv, Init
<1>9. DueInv
  BY <1>1 DEF DueInv, Init
<1>10. PendingInv
  BY <1>1 DEF PendingInv, Init, Asks
<1> QED
  BY <1>3, <1>4, <1>5, <1>6, <1>7, <1>8, <1>9, <1>10 DEF Inv

(* Every reachable state satisfies the inductive invariant. *)
THEOREM UserQueriesSound == Spec => []Inv
<1>1. Inv /\ [Next]_vars => Inv'
  BY TypeStep, SectionStep, HistoryStep, FileInvStep, ReaderStep, RevivalStep, DueStep, PendingStep
     DEF Inv
<1> QED
  BY InitInv, <1>1, PTL DEF Spec

(* Between two sections index.json holds what the last one left. *)
LEMMA AtRest ==
    ASSUME Inv, LoopIdle
    PROVE  /\ Target = index /\ DOMAIN section = {}
           /\ \A q \in Queries : Holds(index, q) => q \in Listed
<1>1. section = <<>> /\ DOMAIN section = {}
  BY EmptySeq DEF LoopIdle
<1>2. Target = index
  BY <1>1 DEF Target
<1> QED
  BY <1>1, <1>2 DEF Holds, Listed, IndexIds

(* A listed query has its file, for any number of queries, readers and       *)
(* crashes and any length of the history.                                   *)
THEOREM ListedQueriesHaveFiles == Spec => []ListedIsOnFile
<1>1. Inv => ListedIsOnFile
  BY DEF Inv, FileInv, ListedIsOnFile
<1> QED
  BY UserQueriesSound, <1>1, PTL

(* What a list or a read misses has expired: a file that was looked for and  *)
(* not there belongs to no listed query, now or when the running section is  *)
(* done.                                                                    *)
THEOREM MissedQueriesExpired == Spec => []MissedIsExpired
<1>1. Inv => MissedIsExpired
  BY DEF Inv, ReaderInv, MissedIsExpired
<1> QED
  BY UserQueriesSound, <1>1, PTL

(* The history is bounded, has no query twice, and drops an answered query   *)
(* only for HistoryLimit later ones.                                        *)
THEOREM AnsweredQueriesStay == Spec => []AnsweredIsListed
<1>1. Inv => AnsweredIsListed
  <2> SUFFICES ASSUME Inv, index # Torn
               PROVE  AnsweredIsListed
    BY DEF AnsweredIsListed
  <2>1. History(index)
    BY DEF Inv, HistoryInv
  <2>2. CASE index = None
    <3>1. IndexIds = <<>>
      BY <2>2 DEF IndexIds
    <3>2. Len(IndexIds) = 0 /\ DOMAIN IndexIds = {}
      BY <3>1, EmptySeq
    <3>3. Len(IndexIds) <= HistoryLimit
      BY <3>2, BoundsAssumption
    <3> QED
      BY <2>1, <2>2, <3>2, <3>3 DEF AnsweredIsListed, History, IsInjective
  <2>3. CASE index # None
    <3>1. IndexIds = index /\ Listed = Range(index)
      BY <2>3 DEF IndexIds, Listed
    <3> QED
      BY <2>1, <2>3, <3>1 DEF AnsweredIsListed, History
  <2> QED
    BY <2>2, <2>3
<1> QED
  BY UserQueriesSound, <1>1, PTL

(* Without a crash a record off the list is one its diagnosis brought back.  *)
THEOREM RevivedByDiagnosis == Spec => []OnlyDiagnosisRevives
<1>1. Inv => OnlyDiagnosisRevives
  BY AtRest DEF Inv, RevivalInv, OnlyDiagnosisRevives
<1> QED
  BY UserQueriesSound, <1>1, PTL

(* Without a crash a pending diagnosis has a task that waits or runs.        *)
THEOREM PendingQueriesWorkedOn == Spec => []PendingIsWorkedOn
<1>1. Inv => PendingIsWorkedOn
  BY AtRest DEF Inv, PendingInv, PendingIsWorkedOn, Asks, Readable
<1> QED
  BY UserQueriesSound, <1>1, PTL
============================================================================
