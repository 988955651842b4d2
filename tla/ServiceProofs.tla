---------------------------- MODULE ServiceProofs ----------------------------
(***************************************************************************)
(* Theorems about four services, each by itself.                           *)
(* AuditLog, for every size of the queue and of a batch and every retry    *)
(* limit: the log is in order, nothing is lost without being counted, and  *)
(* the queue is bounded.                                                   *)
(* The feedback desk of Governance, for every number of administrators and *)
(* of feedback items and every page size: an item is resolved once, and    *)
(* who pages through the items sees each of them once.                     *)
(* ModelCalls, for every number of texts, size of a batch and number of    *)
(* retries: one answer is heard, and the embeddings fit the texts.         *)
(* BridgeSync, for every number of blocks, page-sync slots, saves, runs    *)
(* and failures: the newest export decides the page, and no text that      *)
(* somebody typed into it is lost to a push.                               *)
(***************************************************************************)
EXTENDS AuditLog, Governance, ModelCalls, BridgeSync, SequenceTheorems, FiniteSetTheorems, WellFoundedInduction, TLAPS

-----------------------------------------------------------------------------
(* Facts about the operators *)

(* A bounded set of numbers has the maximum that Max chooses. *)
LEMMA MaxExists ==
    ASSUME NEW n \in Nat, NEW S \in SUBSET (0 .. n), S # {}
    PROVE  Max(S) \in S /\ \A x \in S : x <= Max(S)
<1> DEFINE T == {k \in Nat : \A x \in S : x <= k}
<1>1. n \in T  OBVIOUS
<1>2. PICK k \in T : \A m \in T : ~ (<<m, k>> \in OpToRel(<, Nat))
  BY <1>1, WFMin, NatLessThanWellFounded
<1>3. \A m \in T : ~ (m < k)  BY <1>2 DEF OpToRel
<1>4. k \in S
  <2> SUFFICES ASSUME k \notin S  PROVE FALSE  OBVIOUS
  <2>1. PICK x \in S : TRUE  OBVIOUS
  <2>2. \A y \in S : y < k  OBVIOUS
  <2>3. k - 1 \in Nat /\ k - 1 \in T  BY <2>1, <2>2
  <2> QED  BY <1>3, <2>3
<1> HIDE DEF T
<1>5. \A y \in S : k >= y  BY DEF T
<1> QED  BY <1>4, <1>5 DEF Max

(* A record of the queue, and what the queue and the batch are. *)
Record == [id : Nat, retries : 0 .. MaxRetries]
Before(s, t) == \A i \in DOMAIN s, j \in DOMAIN t : s[i].id < t[j].id
Ordered(s) == \A i, j \in DOMAIN s : i < j => s[i].id < s[j].id
Waiting == Records(batch) \union Records(queue)

(* The line q is split into a batch and the queue behind it. *)
Split(q) ==
    /\ batch' \in Seq(Record) /\ queue' \in Seq(Record)
    /\ Ordered(batch') /\ Ordered(queue') /\ Before(batch', queue')
    /\ Len(batch') <= Batch
    /\ Len(batch') + Len(queue') = Len(q)
    /\ Waiting' = Records(q)

(* That is what splice does at the head of the line. *)
LEMMA TakesSplits ==
    ASSUME NEW q \in Seq(Record), Ordered(q), Takes(q)
    PROVE  Split(q)
<1> DEFINE n == NumberOf(Len(q))
<1>0. Len(q) \in Nat /\ DOMAIN q = 1 .. Len(q) /\ \A i \in DOMAIN q : q[i] \in Record
  BY LenProperties, ElementOfSeq
<1>1. n \in 0 .. Len(q) /\ n <= Batch  BY <1>0, AuditLimits DEF NumberOf
<1> HIDE DEF n
<1>2. /\ batch' \in Seq(Record) /\ Len(batch') = n
      /\ \A i \in 1 .. n : batch'[i] = q[i]
  <2>1. \A i \in 1 .. n : q[i] \in Record  BY <1>0, <1>1
  <2>2. batch' = SubSeq(q, 1, n)  BY DEF Takes, n
  <2> QED  BY <1>1, <2>1, <2>2, SubSeqProperties
<1>3. /\ queue' \in Seq(Record) /\ Len(queue') = Len(q) - n
      /\ \A i \in 1 .. Len(q) - n : queue'[i] = q[n + i]
  <2>1. \A i \in n + 1 .. Len(q) : q[i] \in Record  BY <1>0, <1>1
  <2>2. queue' = SubSeq(q, n + 1, Len(q))  BY DEF Takes, n
  <2>3. /\ queue' \in Seq(Record)
        /\ Len(queue') = IF n + 1 <= Len(q) THEN Len(q) - (n + 1) + 1 ELSE 0
        /\ \A i \in 1 .. Len(q) - (n + 1) + 1 : queue'[i] = q[(n + 1) + i - 1]
    BY <1>0, <1>1, <2>1, <2>2, SubSeqProperties
  <2>4. \A i \in 1 .. Len(q) - n : (n + 1) + i - 1 = n + i  BY <1>0, <1>1
  <2>5. Len(q) - (n + 1) + 1 = Len(q) - n  BY <1>0, <1>1
  <2>6. Len(queue') = Len(q) - n
    <3>1. CASE n + 1 <= Len(q)  BY <2>3, <2>5, <3>1
    <3>2. CASE ~ (n + 1 <= Len(q))
      <4>1. n \in Int /\ Len(q) \in Int /\ n <= Len(q)  BY <1>0, <1>1
      <4>2. n = Len(q)  BY <4>1, <3>2
      <4> QED  BY <2>3, <3>2, <4>1, <4>2
    <3> QED  BY <3>1, <3>2
  <2> QED  BY <2>3, <2>4, <2>5, <2>6
<1>4. DOMAIN batch' = 1 .. n /\ DOMAIN queue' = 1 .. Len(q) - n
  BY <1>2, <1>3, LenProperties
<1>5. Ordered(batch')  BY <1>0, <1>1, <1>2, <1>4 DEF Ordered
<1>6. Ordered(queue')
  <2> SUFFICES ASSUME NEW i \in DOMAIN queue', NEW j \in DOMAIN queue', i < j
               PROVE  queue'[i].id < queue'[j].id
    BY DEF Ordered
  <2>1. n + i \in DOMAIN q /\ n + j \in DOMAIN q /\ n + i < n + j  BY <1>0, <1>1, <1>4
  <2> QED  BY <2>1, <1>3, <1>4 DEF Ordered
<1>7. Before(batch', queue')
  <2> SUFFICES ASSUME NEW i \in DOMAIN batch', NEW j \in DOMAIN queue'
               PROVE  batch'[i].id < queue'[j].id
    BY DEF Before
  <2>1. i \in DOMAIN q /\ n + j \in DOMAIN q /\ i < n + j  BY <1>0, <1>1, <1>4
  <2> QED  BY <2>1, <1>2, <1>3, <1>4 DEF Ordered
<1>8. Waiting' = Records(q)
  <2>1. \A i \in DOMAIN q : i \in 1 .. n \/ (i - n \in 1 .. Len(q) - n /\ n + (i - n) = i)
    BY <1>0, <1>1
  <2>2. \A i \in 1 .. Len(q) - n : n + i \in DOMAIN q  BY <1>0, <1>1
  <2>3. \A i \in 1 .. n : i \in DOMAIN q  BY <1>0, <1>1
  <2>4. Records(q) \subseteq Records(batch') \union Records(queue')
    <3> SUFFICES ASSUME NEW x \in Records(q)
                 PROVE  x \in Records(batch') \union Records(queue')
      OBVIOUS
    <3>1. PICK i \in DOMAIN q : x = q[i].id  BY DEF Records
    <3>2. CASE i \in 1 .. n  BY <3>1, <3>2, <1>2, <1>4 DEF Records
    <3>3. CASE i - n \in 1 .. Len(q) - n /\ n + (i - n) = i
      <4>1. queue'[i - n] = q[i]  BY <3>3, <1>3
      <4> QED  BY <3>1, <3>3, <4>1, <1>4 DEF Records
    <3> QED  BY <2>1, <3>2, <3>3
  <2>5. Records(batch') \subseteq Records(q)  BY <2>3, <1>2, <1>4 DEF Records
  <2>6. Records(queue') \subseteq Records(q)  BY <2>2, <1>3, <1>4 DEF Records
  <2>7. Waiting' = Records(batch') \union Records(queue')  BY DEF Waiting, Records
  <2> QED  BY <2>4, <2>5, <2>6, <2>7
<1>9. Len(batch') + Len(queue') = Len(q)  BY <1>0, <1>1, <1>2, <1>3
<1> QED  BY <1>1, <1>2, <1>3, <1>5, <1>6, <1>7, <1>8, <1>9 DEF Split

(* A flush that goes on, or ends, leaves the line as it was. *)
LEMMA ContinuesSplits ==
    ASSUME NEW q \in Seq(Record), Ordered(q), Continues(q)
    PROVE  Split(q)
<1>1. CASE Len(q) >= Batch  BY <1>1, TakesSplits DEF Continues
<1>2. CASE ~ (Len(q) >= Batch)
  <2>1. queue' = q /\ batch' = <<>>  BY <1>2 DEF Continues
  <2>2. Len(q) \in Nat /\ Len(<<>>) = 0 /\ <<>> \in Seq(Record) /\ DOMAIN <<>> = {}
    BY LenProperties, EmptySeq
  <2>3. Records(<<>>) = {}  BY <2>2 DEF Records
  <2>4. Waiting' = Records(q)  BY <2>1, <2>3 DEF Waiting, Records
  <2>5. Ordered(batch') /\ Before(batch', queue')  BY <2>1, <2>2 DEF Ordered, Before
  <2> QED  BY <2>1, <2>2, <2>4, <2>5, AuditLimits DEF Split
<1> QED  BY <1>1, <1>2

(* Two lines, one before the other, make one line. *)
LEMMA ConcatOrdered ==
    ASSUME NEW s \in Seq(Record), NEW t \in Seq(Record), Ordered(s), Ordered(t), Before(s, t)
    PROVE  /\ s \o t \in Seq(Record) /\ Ordered(s \o t)
           /\ Len(s \o t) = Len(s) + Len(t)
           /\ Records(s \o t) = Records(s) \union Records(t)
<1> DEFINE u == s \o t
           m == Len(s)
           n == Len(t)
<1>1. m \in Nat /\ n \in Nat /\ DOMAIN s = 1 .. m /\ DOMAIN t = 1 .. n  BY LenProperties
<1>2. /\ u \in Seq(Record) /\ Len(u) = m + n
      /\ \A i \in 1 .. m + n : u[i] = IF i <= m THEN s[i] ELSE t[i - m]
  BY ConcatProperties
<1>3. DOMAIN u = 1 .. m + n  BY <1>2, LenProperties
<1> HIDE DEF u, m, n
<1>4. \A i \in DOMAIN u : \/ i \in DOMAIN s /\ u[i] = s[i]
                          \/ i - m \in DOMAIN t /\ u[i] = t[i - m] /\ i > m
  BY <1>1, <1>2, <1>3
<1>5. \A i \in DOMAIN s : i \in DOMAIN u /\ u[i] = s[i]  BY <1>1, <1>2, <1>3
<1>6. \A i \in DOMAIN t : m + i \in DOMAIN u /\ u[m + i] = t[i]
  <2> TAKE i \in DOMAIN t
  <2>1. m + i \in 1 .. m + n /\ ~ (m + i <= m) /\ (m + i) - m = i  BY <1>1
  <2> QED  BY <2>1, <1>2, <1>3
<1>7. Ordered(u)
  <2> SUFFICES ASSUME NEW i \in DOMAIN u, NEW j \in DOMAIN u, i < j  PROVE u[i].id < u[j].id
    BY DEF Ordered
  <2>1. CASE j \in DOMAIN s /\ u[j] = s[j]
    <3>1. i \in DOMAIN s /\ u[i] = s[i]  BY <2>1, <1>1, <1>2, <1>3
    <3> QED  BY <2>1, <3>1 DEF Ordered
  <2>2. CASE j - m \in DOMAIN t /\ u[j] = t[j - m] /\ j > m
    <3>1. CASE i \in DOMAIN s /\ u[i] = s[i]  BY <2>2, <3>1 DEF Before
    <3>2. CASE i - m \in DOMAIN t /\ u[i] = t[i - m] /\ i > m
      <4>1. i - m < j - m  BY <1>1, <1>3
      <4> QED  BY <4>1, <2>2, <3>2 DEF Ordered
    <3> QED  BY <3>1, <3>2, <1>4
  <2> QED  BY <2>1, <2>2, <1>4
<1>8. Records(u) = Records(s) \union Records(t)
  <2>1. Records(u) \subseteq Records(s) \union Records(t)  BY <1>4 DEF Records
  <2>2. Records(s) \subseteq Records(u)  BY <1>5 DEF Records
  <2>3. Records(t) \subseteq Records(u)  BY <1>6 DEF Records
  <2> QED  BY <2>1, <2>2, <2>3
<1> QED  BY <1>2, <1>7, <1>8 DEF u, m, n

-----------------------------------------------------------------------------
(* The inductive invariant *)

AuditTypeOK ==
    /\ queue \in Seq(Record) /\ batch \in Seq(Record)
    /\ rows \in Seq(Nat) /\ pushed \in Nat

(* A record that waits comes after every stored one, unless it is stored  *)
(* itself: the answer of its INSERT was lost.                              *)
StoredComeFirst ==
    \A x \in Waiting, r \in ToSet(rows) : x \in ToSet(rows) \/ r < x

AuditInv ==
    /\ AuditTypeOK
    /\ Ordered(batch) /\ Ordered(queue) /\ Before(batch, queue)
    /\ Len(batch) <= Batch
    /\ StoredComeFirst
    /\ LogIsWhole

LEMMA AuditInitInv == AuditInit => AuditInv
<1> SUFFICES ASSUME AuditInit PROVE AuditInv  OBVIOUS
<1>1. /\ queue = <<>> /\ batch = <<>> /\ rows = <<>> /\ pushed = 0
      /\ overflow = {} /\ givenUp = {}
  BY DEF AuditInit
<1>2. Len(<<>>) = 0 /\ DOMAIN <<>> = {} /\ <<>> \in Seq(Record) /\ <<>> \in Seq(Nat)
  BY EmptySeq
<1>3. AuditTypeOK  BY <1>1, <1>2 DEF AuditTypeOK
<1>4. Ordered(batch) /\ Ordered(queue) /\ Before(batch, queue)
  BY <1>1, <1>2 DEF Ordered, Before
<1>5. Records(queue) = {} /\ Records(batch) = {} /\ ToSet(rows) = {}
  BY <1>1, <1>2 DEF Records, ToSet
<1>6. StoredComeFirst  BY <1>5 DEF StoredComeFirst
<1>7. NothingVanishes  BY <1>1, <1>5 DEF NothingVanishes
<1>8. StoredInOrder  BY <1>1, <1>2 DEF StoredInOrder
<1>9. Len(batch) <= Batch /\ QueueIsBounded  BY <1>1, <1>2, AuditLimits DEF QueueIsBounded
<1> QED  BY <1>3, <1>4, <1>6, <1>7, <1>8, <1>9 DEF AuditInv, LogIsWhole

(* The numbers of the records are the numbers that were pushed. *)
LEMMA Numbered ==
    ASSUME AuditInv
    PROVE  /\ Waiting \subseteq 1 .. pushed /\ ToSet(rows) \subseteq 1 .. pushed
           /\ pushed \in Nat
BY DEF AuditInv, AuditTypeOK, LogIsWhole, NothingVanishes, Waiting

(* The invariant holds of a line that is split and a table that fits it.   *)
LEMMA SplitKeepsInv ==
    ASSUME NEW q \in Seq(Record), Split(q), Len(q) <= MaxQueue + Batch,
           pushed' \in Nat, rows' \in Seq(Nat), StoredInOrder',
           \A x \in Records(q), r \in ToSet(rows') : x \in ToSet(rows') \/ r < x,
           (1 .. pushed') = Records(q) \union ToSet(rows') \union overflow' \union givenUp'
    PROVE  AuditInv'
<1>1. AuditTypeOK'  BY DEF AuditTypeOK, Split
<1>2. StoredComeFirst'  BY DEF StoredComeFirst, Split
<1>3. QueueIsBounded'
  <2>1. Len(batch') \in Nat /\ Len(queue') \in Nat  BY LenProperties DEF Split
  <2> QED  BY <2>1, AuditLimits DEF QueueIsBounded, Split
<1>4. NothingVanishes'  BY DEF NothingVanishes, Waiting, Split
<1> QED  BY <1>1, <1>2, <1>3, <1>4 DEF AuditInv, LogIsWhole, Split

(* The rows of a batch that can be inserted, added to the table. *)
LEMMA Inserted ==
    ASSUME AuditInv, CanInsert, rows' = rows \o [i \in DOMAIN batch |-> batch[i].id]
    PROVE  /\ rows' \in Seq(Nat) /\ StoredInOrder'
           /\ ToSet(rows') = ToSet(rows) \union Records(batch)
           /\ \A x \in Waiting, r \in ToSet(rows') : x \in ToSet(rows') \/ r < x
<1> DEFINE ids == [i \in DOMAIN batch |-> batch[i].id]
           m == Len(rows)
           n == Len(batch)
<1>1. /\ m \in Nat /\ n \in Nat /\ DOMAIN rows = 1 .. m /\ DOMAIN batch = 1 .. n
      /\ \A i \in 1 .. n : batch[i] \in Record
  BY LenProperties, ElementOfSeq DEF AuditInv, AuditTypeOK
<1>2. ids \in [1 .. n -> Nat]  BY <1>1 DEF Record
<1>3. ids \in Seq(Nat) /\ Len(ids) = n
  <2>1. ids \in Seq(Nat)  BY <1>1, <1>2, SeqDef
  <2> QED  BY <1>1, <1>2, <2>1, LenProperties
<1>4. /\ rows' \in Seq(Nat) /\ Len(rows') = m + n
      /\ \A i \in 1 .. m + n : rows'[i] = IF i <= m THEN rows[i] ELSE ids[i - m]
  <2>1. rows' = rows \o ids /\ rows \in Seq(Nat)  BY DEF AuditInv, AuditTypeOK
  <2> HIDE DEF ids
  <2>2. /\ rows \o ids \in Seq(Nat)
        /\ Len(rows \o ids) = Len(rows) + Len(ids)
        /\ \A i \in 1 .. Len(rows) + Len(ids) :
             (rows \o ids)[i] = IF i <= Len(rows) THEN rows[i] ELSE ids[i - Len(rows)]
    BY <1>3, <2>1, ConcatProperties
  <2> QED  BY <1>3, <2>1, <2>2
<1>5. DOMAIN rows' = 1 .. m + n  BY <1>4, LenProperties
<1>6. \A i \in DOMAIN batch : ids[i] = batch[i].id  OBVIOUS
<1> HIDE DEF ids, m, n
<1>7. \A i \in DOMAIN rows' : \/ i \in DOMAIN rows /\ rows'[i] = rows[i]
                              \/ i - m \in DOMAIN batch /\ rows'[i] = batch[i - m].id /\ i > m
  BY <1>1, <1>4, <1>5, <1>6
<1>8. \A i \in DOMAIN rows : i \in DOMAIN rows' /\ rows'[i] = rows[i]  BY <1>1, <1>4, <1>5
<1>9. \A i \in DOMAIN batch : m + i \in DOMAIN rows' /\ rows'[m + i] = batch[i].id
  <2> TAKE i \in DOMAIN batch
  <2>1. m + i \in 1 .. m + n /\ ~ (m + i <= m) /\ (m + i) - m = i  BY <1>1
  <2> QED  BY <2>1, <1>4, <1>5, <1>6
<1>10. ToSet(rows') = ToSet(rows) \union Records(batch)
  <2>1. ToSet(rows') \subseteq ToSet(rows) \union Records(batch)  BY <1>7 DEF ToSet, Records
  <2>2. ToSet(rows) \subseteq ToSet(rows')  BY <1>8 DEF ToSet
  <2>3. Records(batch) \subseteq ToSet(rows')  BY <1>9 DEF ToSet, Records
  <2> QED  BY <2>1, <2>2, <2>3
<1>11. \A r \in ToSet(rows), x \in Records(batch) : r < x
  BY DEF AuditInv, StoredComeFirst, Waiting, CanInsert
<1>12. StoredInOrder'
  <2> SUFFICES ASSUME NEW i \in DOMAIN rows', NEW j \in DOMAIN rows', i < j
               PROVE  rows'[i] < rows'[j]
    BY DEF StoredInOrder
  <2>1. CASE j \in DOMAIN rows /\ rows'[j] = rows[j]
    <3>1. i \in DOMAIN rows /\ rows'[i] = rows[i]  BY <2>1, <1>1, <1>5, <1>8
    <3> QED  BY <2>1, <3>1 DEF AuditInv, LogIsWhole, StoredInOrder
  <2>2. CASE j - m \in DOMAIN batch /\ rows'[j] = batch[j - m].id /\ j > m
    <3>1. CASE i \in DOMAIN rows /\ rows'[i] = rows[i]
      BY <2>2, <3>1, <1>11 DEF ToSet, Records
    <3>2. CASE i - m \in DOMAIN batch /\ rows'[i] = batch[i - m].id /\ i > m
      <4>1. i - m < j - m  BY <1>1, <1>5
      <4> QED  BY <4>1, <2>2, <3>2 DEF AuditInv, Ordered
    <3> QED  BY <3>1, <3>2, <1>7
  <2> QED  BY <2>1, <2>2, <1>7
<1>13. \A x \in Waiting, r \in ToSet(rows') : x \in ToSet(rows') \/ r < x
  <2> SUFFICES ASSUME NEW x \in Waiting, NEW r \in ToSet(rows')
               PROVE  x \in ToSet(rows') \/ r < x
    OBVIOUS
  <2>1. CASE x \in Records(batch)  BY <2>1, <1>10
  <2>2. CASE x \in Records(queue) /\ r \in Records(batch)
    <3>1. PICK i \in DOMAIN batch : r = batch[i].id  BY <2>2 DEF Records
    <3>2. PICK j \in DOMAIN queue : x = queue[j].id  BY <2>2 DEF Records
    <3> QED  BY <3>1, <3>2 DEF AuditInv, Before
  <2>3. CASE x \in Records(queue) /\ r \in ToSet(rows)
    BY <2>3, <1>10 DEF AuditInv, StoredComeFirst
  <2> QED  BY <2>1, <2>2, <2>3, <1>10 DEF Waiting
<1> QED  BY <1>4, <1>10, <1>12, <1>13

(* The line behind the failed batch: retried records keep their numbers. *)
LEMMA BackInLine ==
    ASSUME AuditInv, ~ TooOften
    PROVE  LET failed == [i \in DOMAIN batch |-> [batch[i] EXCEPT !.retries = Retries]]
               q == BackToHead(queue, failed)
           IN  /\ q \in Seq(Record) /\ Ordered(q) /\ Records(q) = Waiting
               /\ Len(q) = Len(batch) + Len(queue)
<1> DEFINE failed == [i \in DOMAIN batch |-> [batch[i] EXCEPT !.retries = Retries]]
           n == Len(batch)
<1>1. /\ n \in Nat /\ DOMAIN batch = 1 .. n
      /\ \A i \in 1 .. n : batch[i] \in Record
  BY LenProperties, ElementOfSeq DEF AuditInv, AuditTypeOK
<1>2. Retries \in 0 .. MaxRetries
  <2> DEFINE S == {0} \union {batch[i].retries : i \in DOMAIN batch}
  <2>1. S \in SUBSET (0 .. MaxRetries) /\ S # {}  BY <1>1, AuditLimits DEF Record
  <2>2. Max(S) \in S  BY <2>1, MaxExists, AuditLimits
  <2> HIDE DEF S
  <2>0. 0 .. MaxRetries \subseteq Nat  OBVIOUS
  <2>3. Max(S) \in Nat  BY <2>0, <2>1, <2>2
  <2>4. Retries = 1 + Max(S)  BY DEF Retries, S
  <2> QED  BY <2>3, <2>4, AuditLimits DEF TooOften
<1>3. \A i \in 1 .. n : failed[i] \in Record /\ failed[i].id = batch[i].id
  BY <1>1, <1>2 DEF Record
<1>4. DOMAIN failed = 1 .. n  BY <1>1
<1>5. failed \in Seq(Record) /\ Len(failed) = n
  <2>1. failed \in [1 .. n -> Record]  BY <1>1, <1>3
  <2> HIDE DEF failed
  <2>2. failed \in Seq(Record)  BY <1>1, <2>1, SeqDef
  <2> QED  BY <1>1, <1>4, <2>2, LenProperties
<1> HIDE DEF failed
<1>6. Ordered(failed)  BY <1>1, <1>3, <1>4 DEF AuditInv, Ordered
<1>7. Before(failed, queue)  BY <1>1, <1>3, <1>4 DEF AuditInv, Before
<1>8. Records(failed) = Records(batch)  BY <1>1, <1>3, <1>4 DEF Records
<1>9. BackToHead(queue, failed) = failed \o queue  BY DEF BackToHead
<1> QED
  BY <1>5, <1>6, <1>7, <1>8, <1>9, ConcatOrdered DEF AuditInv, AuditTypeOK, Waiting, failed, n

-----------------------------------------------------------------------------
(* The steps *)

LEMMA PushInv == AuditInv /\ Push => AuditInv'
<1> SUFFICES ASSUME AuditInv, Push PROVE AuditInv'  OBVIOUS
<1> DEFINE new == [id |-> pushed + 1, retries |-> 0]
           old == IF IsFull THEN Tail(queue) ELSE queue
           q == Append(old, new)
<1>1. /\ pushed \in Nat /\ pushed' = pushed + 1 /\ rows' = rows /\ givenUp' = givenUp
      /\ overflow' = IF IsFull THEN overflow \union {Head(queue).id} ELSE overflow
      /\ IF ~Flushing /\ Len(q) >= Batch THEN Takes(q) ELSE queue' = q /\ UNCHANGED batch
  BY DEF Push, AuditInv, AuditTypeOK
<1>2. /\ Len(queue) \in Nat /\ DOMAIN queue = 1 .. Len(queue)
      /\ Len(batch) \in Nat /\ DOMAIN batch = 1 .. Len(batch)
  BY LenProperties DEF AuditInv, AuditTypeOK
<1>3. new \in Record  BY <1>1, AuditLimits DEF Record
<1>4. /\ old \in Seq(Record) /\ Ordered(old) /\ Before(batch, old)
      /\ Records(old) \subseteq Records(queue)
      /\ IsFull => /\ Len(old) = Len(queue) - 1
                   /\ Records(queue) = Records(old) \union {Head(queue).id}
      /\ ~IsFull => old = queue
  <2>1. CASE ~IsFull  BY <2>1 DEF AuditInv, AuditTypeOK
  <2>2. CASE IsFull
    <3>1. queue # <<>>
      <4>1. Len(queue) >= 1  BY <2>2, <1>2, AuditLimits DEF IsFull
      <4>2. Len(<<>>) = 0  BY EmptySeq
      <4> QED  BY <4>1, <4>2
    <3>2. /\ old \in Seq(Record) /\ Len(old) = Len(queue) - 1
          /\ \A i \in 1 .. Len(old) : old[i] = queue[i + 1]
      BY <2>2, <3>1, HeadTailProperties DEF AuditInv, AuditTypeOK
    <3>3. DOMAIN old = 1 .. Len(queue) - 1  BY <3>2, LenProperties
    <3> HIDE DEF old
    <3>4. \A i \in DOMAIN old : i + 1 \in DOMAIN queue /\ old[i] = queue[i + 1]
      <4> SUFFICES ASSUME NEW i \in DOMAIN old
                   PROVE  i + 1 \in DOMAIN queue /\ old[i] = queue[i + 1]
        OBVIOUS
      <4>1. i \in 1 .. Len(queue) - 1 /\ i \in 1 .. Len(old)  BY <3>2, <3>3
      <4>2. i + 1 \in 1 .. Len(queue)  BY <4>1, <1>2
      <4> QED  BY <4>1, <4>2, <1>2, <3>2
    <3>5. Head(queue) = queue[1] /\ 1 \in DOMAIN queue
      <4>1. Len(queue) >= 1  BY <2>2, <1>2, AuditLimits DEF IsFull
      <4> QED  BY <4>1, <1>2
    <3>6. Ordered(old)
      <4> SUFFICES ASSUME NEW i \in DOMAIN old, NEW j \in DOMAIN old, i < j
                   PROVE  old[i].id < old[j].id
        BY DEF Ordered
      <4>1. i + 1 < j + 1  BY <3>3, <1>2
      <4> QED  BY <4>1, <3>4 DEF AuditInv, Ordered
    <3>7. Before(batch, old)  BY <3>4 DEF AuditInv, Before
    <3>8. Records(old) \subseteq Records(queue)  BY <3>4 DEF Records
    <3>9. Records(queue) \subseteq Records(old) \union {Head(queue).id}
      <4> SUFFICES ASSUME NEW i \in DOMAIN queue, queue[i].id # Head(queue).id
                   PROVE  queue[i].id \in Records(old)
        BY DEF Records
      <4>1. i - 1 \in DOMAIN old /\ (i - 1) + 1 = i  BY <1>2, <3>3, <3>5
      <4> QED  BY <4>1, <3>4 DEF Records
    <3>10. Head(queue).id \in Records(queue)  BY <3>5 DEF Records
    <3> QED  BY <2>2, <3>2, <3>6, <3>7, <3>8, <3>9, <3>10
  <2> QED  BY <2>1, <2>2
<1> HIDE DEF old, new
<1>5. new.id = pushed + 1  BY DEF new
<1>6. /\ Len(old) \in Nat /\ DOMAIN old = 1 .. Len(old)  BY <1>4, LenProperties
<1>7. /\ q \in Seq(Record) /\ Len(q) = Len(old) + 1 /\ DOMAIN q = 1 .. Len(old) + 1
      /\ \A i \in DOMAIN old : q[i] = old[i]
      /\ q[Len(old) + 1] = new
  BY <1>3, <1>4, <1>6, AppendProperties, LenProperties
<1> HIDE DEF q
<1>8. \A i \in DOMAIN q : (i \in DOMAIN old /\ q[i] = old[i]) \/ (i = Len(old) + 1 /\ q[i] = new)
  BY <1>6, <1>7
<1>9. \A i \in DOMAIN old : i \in DOMAIN q  BY <1>6, <1>7
<1>10. \A i \in DOMAIN old : old[i].id \in 1 .. pushed
  BY <1>4, Numbered DEF Waiting, Records
<1>11. Ordered(q)
  <2> SUFFICES ASSUME NEW i \in DOMAIN q, NEW j \in DOMAIN q, i < j
               PROVE  q[i].id < q[j].id
    BY DEF Ordered
  <2>1. i \in DOMAIN old /\ q[i] = old[i]  BY <1>6, <1>7, <1>8
  <2>2. CASE j \in DOMAIN old /\ q[j] = old[j]  BY <2>1, <2>2, <1>4 DEF Ordered
  <2>3. CASE j = Len(old) + 1 /\ q[j] = new  BY <2>1, <2>3, <1>1, <1>5, <1>10
  <2> QED  BY <2>2, <2>3, <1>8
<1>12. Records(q) = Records(old) \union {pushed + 1}
  <2>1. Records(q) \subseteq Records(old) \union {pushed + 1}  BY <1>5, <1>8 DEF Records
  <2>2. Records(old) \subseteq Records(q)  BY <1>7, <1>9 DEF Records
  <2>3. Len(old) + 1 \in DOMAIN q  BY <1>6, <1>7
  <2>4. pushed + 1 \in Records(q)  BY <2>3, <1>5, <1>7 DEF Records
  <2> QED  BY <2>1, <2>2, <2>4
<1>13. Before(batch, q)
  <2> SUFFICES ASSUME NEW i \in DOMAIN batch, NEW j \in DOMAIN q
               PROVE  batch[i].id < q[j].id
    BY DEF Before
  <2>1. CASE j \in DOMAIN old /\ q[j] = old[j]  BY <2>1, <1>4 DEF Before
  <2>2. CASE j = Len(old) + 1 /\ q[j] = new
    <3>1. batch[i].id \in 1 .. pushed  BY Numbered DEF Waiting, Records
    <3> QED  BY <2>2, <3>1, <1>1, <1>5
  <2> QED  BY <2>1, <2>2, <1>8
<1>14. Len(batch) + Len(q) <= MaxQueue + Batch
  <2>1. Len(batch) <= Batch /\ Len(queue) + Len(batch) <= MaxQueue + Batch
    BY DEF AuditInv, LogIsWhole, QueueIsBounded
  <2>2. CASE IsFull  BY <2>1, <2>2, <1>2, <1>4, <1>6, <1>7, AuditLimits
  <2>3. CASE ~IsFull
    <3>1. Len(old) = Len(queue)  BY <2>3, <1>4
    <3>2. ~ (Len(queue) >= MaxQueue)  BY <2>3 DEF IsFull
    <3> QED  BY <2>1, <3>1, <3>2, <1>2, <1>7, AuditLimits
  <2> QED  BY <2>2, <2>3
<1>15. \A x \in Records(batch) \union Records(q), r \in ToSet(rows) : x \in ToSet(rows) \/ r < x
  <2> SUFFICES ASSUME NEW x \in Records(batch) \union Records(q), NEW r \in ToSet(rows)
               PROVE  x \in ToSet(rows) \/ r < x
    OBVIOUS
  <2>1. CASE x = pushed + 1  BY <2>1, <1>1, Numbered
  <2>2. CASE x \in Waiting  BY <2>2 DEF AuditInv, StoredComeFirst
  <2> QED  BY <2>1, <2>2, <1>4, <1>12 DEF Waiting
<1>16. (1 .. pushed') = Records(batch) \union Records(q) \union ToSet(rows) \union overflow' \union givenUp
  <2>1. 1 .. pushed' = (1 .. pushed) \union {pushed + 1}  BY <1>1
  <2>2. (1 .. pushed) = Records(queue) \union Records(batch) \union ToSet(rows) \union overflow \union givenUp
    BY DEF AuditInv, LogIsWhole, NothingVanishes
  <2>3. CASE IsFull  BY <2>1, <2>2, <2>3, <1>1, <1>4, <1>12
  <2>4. CASE ~IsFull  BY <2>1, <2>2, <2>4, <1>1, <1>4, <1>12
  <2> QED  BY <2>3, <2>4
<1>17. CASE ~Flushing /\ Len(q) >= Batch
  <2>1. Records(batch) = {} /\ Len(batch) = 0
    <3>1. batch = <<>>  BY <1>17 DEF Flushing
    <3>2. Len(<<>>) = 0 /\ DOMAIN <<>> = {}  BY EmptySeq
    <3> QED  BY <3>1, <3>2 DEF Records
  <2>2. Takes(q)  BY <1>1, <1>17
  <2>3. Split(q)  BY <2>2, <1>7, <1>11, TakesSplits
  <2>4. Len(q) <= MaxQueue + Batch  BY <2>1, <1>6, <1>7, <1>14, AuditLimits
  <2>5. rows' \in Seq(Nat) /\ StoredInOrder' /\ pushed' \in Nat /\ ToSet(rows') = ToSet(rows)
    BY <1>1 DEF AuditInv, AuditTypeOK, LogIsWhole, StoredInOrder
  <2> QED  BY <2>1, <2>3, <2>4, <2>5, <1>1, <1>7, <1>15, <1>16, SplitKeepsInv
<1>18. CASE ~ (~Flushing /\ Len(q) >= Batch)
  <2>1. queue' = q /\ batch' = batch  BY <1>1, <1>18
  <2>2. AuditTypeOK'  BY <2>1, <1>1, <1>7 DEF AuditInv, AuditTypeOK
  <2>3. Ordered(batch') /\ Ordered(queue') /\ Before(batch', queue') /\ Len(batch') <= Batch
    BY <2>1, <1>11, <1>13 DEF AuditInv
  <2>4. Waiting' = Records(batch) \union Records(q) /\ ToSet(rows') = ToSet(rows)
    BY <2>1, <1>1 DEF Waiting
  <2>5. StoredComeFirst'  BY <2>4, <1>15 DEF StoredComeFirst
  <2>6. StoredInOrder'  BY <1>1 DEF AuditInv, LogIsWhole, StoredInOrder
  <2>7. NothingVanishes'  BY <2>1, <2>4, <1>1, <1>16 DEF NothingVanishes
  <2>8. QueueIsBounded'  BY <2>1, <1>2, <1>6, <1>7, <1>14 DEF QueueIsBounded
  <2> QED  BY <2>2, <2>3, <2>5, <2>6, <2>7, <2>8 DEF AuditInv, LogIsWhole
<1> QED  BY <1>17, <1>18


LEMMA FlushBeginsInv == AuditInv /\ FlushBegins => AuditInv'
<1> SUFFICES ASSUME AuditInv, FlushBegins PROVE AuditInv'  OBVIOUS
<1>1. /\ batch = <<>> /\ Takes(queue)
      /\ pushed' = pushed /\ rows' = rows /\ overflow' = overflow /\ givenUp' = givenUp
  BY DEF FlushBegins, Flushing
<1>2. Len(<<>>) = 0 /\ DOMAIN <<>> = {}  BY EmptySeq
<1>3. Records(batch) = {}  BY <1>1, <1>2 DEF Records
<1>4. queue \in Seq(Record) /\ Ordered(queue)  BY DEF AuditInv, AuditTypeOK
<1>5. Split(queue)  BY <1>1, <1>4, TakesSplits
<1>6. Len(queue) <= MaxQueue + Batch
  <2>1. Len(queue) \in Nat  BY <1>4, LenProperties
  <2>2. Len(queue) + Len(batch) <= MaxQueue + Batch  BY DEF AuditInv, LogIsWhole, QueueIsBounded
  <2> QED  BY <2>1, <2>2, <1>1, <1>2
<1>7. pushed' \in Nat /\ rows' \in Seq(Nat) /\ StoredInOrder' /\ ToSet(rows') = ToSet(rows)
  BY <1>1 DEF AuditInv, AuditTypeOK, LogIsWhole, StoredInOrder
<1>8. \A x \in Records(queue), r \in ToSet(rows) : x \in ToSet(rows) \/ r < x
  BY DEF AuditInv, StoredComeFirst, Waiting
<1>9. (1 .. pushed) = Records(queue) \union ToSet(rows) \union overflow \union givenUp
  BY <1>3 DEF AuditInv, LogIsWhole, NothingVanishes
<1> QED  BY <1>1, <1>4, <1>5, <1>6, <1>7, <1>8, <1>9, SplitKeepsInv

(* What is behind the batch, when the batch is stored. *)
LEMMA InsertSucceedsInv == AuditInv /\ InsertSucceeds => AuditInv'
<1> SUFFICES ASSUME AuditInv, InsertSucceeds PROVE AuditInv'  OBVIOUS
<1>1. /\ CanInsert /\ rows' = rows \o [i \in DOMAIN batch |-> batch[i].id] /\ Continues(queue)
      /\ pushed' = pushed /\ overflow' = overflow /\ givenUp' = givenUp
  BY DEF InsertSucceeds
<1>2. /\ rows' \in Seq(Nat) /\ StoredInOrder'
      /\ ToSet(rows') = ToSet(rows) \union Records(batch)
      /\ \A x \in Waiting, r \in ToSet(rows') : x \in ToSet(rows') \/ r < x
  BY <1>1, Inserted
<1>3. queue \in Seq(Record) /\ Ordered(queue)  BY DEF AuditInv, AuditTypeOK
<1>4. Split(queue)  BY <1>1, <1>3, ContinuesSplits
<1>5. Len(queue) <= MaxQueue + Batch
  <2>1. Len(queue) \in Nat /\ Len(batch) \in Nat  BY LenProperties DEF AuditInv, AuditTypeOK
  <2>2. Len(queue) + Len(batch) <= MaxQueue + Batch  BY DEF AuditInv, LogIsWhole, QueueIsBounded
  <2> QED  BY <2>1, <2>2, AuditLimits
<1>6. pushed' \in Nat  BY <1>1 DEF AuditInv, AuditTypeOK
<1>7. \A x \in Records(queue), r \in ToSet(rows') : x \in ToSet(rows') \/ r < x
  BY <1>2 DEF Waiting
<1>8. (1 .. pushed') = Records(queue) \union ToSet(rows') \union overflow' \union givenUp'
  BY <1>1, <1>2 DEF AuditInv, LogIsWhole, NothingVanishes
<1> QED  BY <1>2, <1>3, <1>4, <1>5, <1>6, <1>7, <1>8, SplitKeepsInv

(* The batch fails, and its rows may be in the table all the same. *)
LEMMA InsertFailsInv == AuditInv /\ InsertFails => AuditInv'
<1> SUFFICES ASSUME AuditInv, InsertFails PROVE AuditInv'  OBVIOUS
<1> DEFINE failed == [i \in DOMAIN batch |-> [batch[i] EXCEPT !.retries = Retries]]
           q == BackToHead(queue, failed)
<1>1. /\ \/ rows' = rows
         \/ CanInsert /\ rows' = rows \o [i \in DOMAIN batch |-> batch[i].id]
      /\ TooOften => givenUp' = givenUp \union Records(batch) /\ Continues(queue)
      /\ ~TooOften => Continues(q) /\ givenUp' = givenUp
      /\ pushed' = pushed /\ overflow' = overflow
  BY DEF InsertFails
<1>2. /\ rows' \in Seq(Nat) /\ StoredInOrder'
      /\ ToSet(rows) \subseteq ToSet(rows')
      /\ ToSet(rows') \subseteq ToSet(rows) \union Records(batch)
      /\ \A x \in Waiting, r \in ToSet(rows') : x \in ToSet(rows') \/ r < x
  <2>1. CASE rows' = rows
    BY <2>1 DEF AuditInv, AuditTypeOK, LogIsWhole, StoredInOrder, StoredComeFirst
  <2>2. CASE CanInsert /\ rows' = rows \o [i \in DOMAIN batch |-> batch[i].id]
    BY <2>2, Inserted
  <2> QED  BY <1>1, <2>1, <2>2
<1>3. /\ queue \in Seq(Record) /\ Ordered(queue) /\ pushed' \in Nat
      /\ Len(queue) \in Nat /\ Len(batch) \in Nat
  BY <1>1, LenProperties DEF AuditInv, AuditTypeOK
<1>4. Len(queue) + Len(batch) <= MaxQueue + Batch  BY DEF AuditInv, LogIsWhole, QueueIsBounded
<1>5. (1 .. pushed) = Waiting \union ToSet(rows) \union overflow \union givenUp
  BY DEF AuditInv, LogIsWhole, NothingVanishes, Waiting
<1> HIDE DEF failed
<1>6. CASE TooOften
  <2>1. Split(queue)  BY <1>1, <1>3, <1>6, ContinuesSplits
  <2>2. Len(queue) <= MaxQueue + Batch  BY <1>3, <1>4, AuditLimits
  <2>3. \A x \in Records(queue), r \in ToSet(rows') : x \in ToSet(rows') \/ r < x
    BY <1>2 DEF Waiting
  <2>4. (1 .. pushed') = Records(queue) \union ToSet(rows') \union overflow' \union givenUp'
    BY <1>1, <1>2, <1>5, <1>6 DEF Waiting
  <2> QED  BY <2>1, <2>2, <2>3, <2>4, <1>2, <1>3, SplitKeepsInv
<1>7. CASE ~TooOften
  <2>1. /\ q \in Seq(Record) /\ Ordered(q) /\ Records(q) = Waiting
        /\ Len(q) = Len(batch) + Len(queue)
    BY <1>7, BackInLine DEF failed
  <2>2. Continues(q) /\ givenUp' = givenUp  BY <1>1, <1>7
  <2> HIDE DEF q
  <2>3. Split(q)  BY <2>1, <2>2, ContinuesSplits
  <2>4. Len(q) <= MaxQueue + Batch  BY <2>1, <1>3, <1>4, AuditLimits
  <2>5. \A x \in Records(q), r \in ToSet(rows') : x \in ToSet(rows') \/ r < x  BY <1>2, <2>1
  <2>6. (1 .. pushed') = Records(q) \union ToSet(rows') \union overflow' \union givenUp'
    BY <1>1, <1>2, <1>5, <2>1, <2>2 DEF Waiting
  <2> QED  BY <2>1, <2>3, <2>4, <2>5, <2>6, <1>2, <1>3, SplitKeepsInv
<1> QED  BY <1>6, <1>7

(* A step that leaves the queue, the batch and the table alone. *)
LEMMA QuietInv ==
    ASSUME AuditInv, UNCHANGED <<queue, batch, pushed, rows, overflow, givenUp>>
    PROVE  AuditInv'
BY DEF AuditInv, AuditTypeOK, Ordered, Before, StoredComeFirst, Waiting, Records, LogIsWhole,
       QueueIsBounded, StoredInOrder, NothingVanishes

LEMMA AuditNextInv == AuditInv /\ [AuditNext]_auditVars => AuditInv'
<1> SUFFICES ASSUME AuditInv, [AuditNext]_auditVars PROVE AuditInv'  OBVIOUS
<1>1. CASE Push  BY <1>1, PushInv
<1>2. CASE FlushBegins  BY <1>2, FlushBeginsInv
<1>3. CASE InsertSucceeds  BY <1>3, InsertSucceedsInv
<1>4. CASE InsertFails  BY <1>4, InsertFailsInv
<1>5. CASE Close \/ DrainEnds  BY <1>5, QuietInv DEF Close, DrainEnds
<1>6. CASE UNCHANGED auditVars  BY <1>6, QuietInv DEF auditVars
<1> QED  BY <1>1, <1>2, <1>3, <1>4, <1>5, <1>6 DEF AuditNext, InsertEnds

-----------------------------------------------------------------------------
(* The theorems *)

(* What AuditService keeps in memory is a line of records in the order they *)
(* were pushed, the batch under way before the queue, no record retried     *)
(* more than AUDIT_MAX_FLUSH_RETRIES times, and all of it after the rows    *)
(* that are stored.                                                         *)
THEOREM AuditInvariant == AuditSpec => []AuditInv
<1>1. AuditInit => AuditInv  BY AuditInitInv
<1>2. AuditInv /\ [AuditNext]_auditVars => AuditInv'  BY AuditNextInv
<1> QED  BY <1>1, <1>2, PTL DEF AuditSpec

(* audit_logs has the records in the order they were pushed, each of them  *)
(* once; a record is waiting, stored, or counted as dropped; the queue and *)
(* the batch never hold more than MaxQueue + Batch records.                *)
THEOREM LogKept == AuditSpec => []LogIsWhole
<1>1. AuditInv => LogIsWhole  BY DEF AuditInv
<1> QED  BY <1>1, AuditInvariant, PTL

-----------------------------------------------------------------------------
(* The feedback desk: the order of the items *)

FeedbackRow == [status : {"none", "open", "resolved"}, at : Nat]
Walk == [open : BOOLEAN, seen : [Feedbacks -> Nat], due : SUBSET Feedbacks, after : Feedbacks \union {0}]

ResolvesItem(g, o) == g[o].op = "resolve" => g[o].item \in Feedbacks

FeedbackTypeOK ==
    /\ feedback \in [Feedbacks -> FeedbackRow]
    /\ decided \in [Feedbacks -> Nat]
    /\ walk \in Walk
    /\ DOMAIN gov = Officers
    /\ \A o \in Officers : ResolvesItem(gov, o)

(* The order of listFeedback is strict and total. *)
LEMMA PrecedesIsOrder ==
    ASSUME FeedbackTypeOK
    PROVE  /\ \A f \in Feedbacks : ~ Precedes(f, f)
           /\ \A f, g \in Feedbacks : f = g \/ Precedes(f, g) \/ Precedes(g, f)
           /\ \A f, g, h \in Feedbacks : Precedes(f, g) /\ Precedes(g, h) => Precedes(f, h)
<1>1. \A f \in Feedbacks : f \in Nat /\ feedback[f].at \in Nat
  BY FeedbackNumbered DEF FeedbackTypeOK, FeedbackRow
<1> QED  BY <1>1 DEF Precedes

(* What is ahead of an item of the page is on the page. *)
LEMMA PageIsAhead ==
    ASSUME FeedbackTypeOK, NEW f \in Items, NEW g \in Rest, Precedes(g, f)
    PROVE  g \in Items
<1>1. Rest \subseteq Feedbacks /\ IsFiniteSet(Rest)
  BY FeedbackNumbered, FS_Subset DEF Rest, Created
<1>2. f \in Rest /\ Rank(f) < PageSize  BY DEF Items
<1> DEFINE AheadF == {h \in Rest : Precedes(h, f)}
           AheadG == {h \in Rest : Precedes(h, g)}
<1>3. AheadG \subseteq AheadF  BY <1>1, <1>2, PrecedesIsOrder
<1>4. AheadF \subseteq Rest  OBVIOUS
<1>5. IsFiniteSet(AheadF) /\ Cardinality(AheadG) <= Cardinality(AheadF) /\ IsFiniteSet(AheadG)
  BY <1>1, <1>3, <1>4, FS_Subset
<1>6. Cardinality(AheadF) \in Nat /\ Cardinality(AheadG) \in Nat  BY <1>5, FS_CardinalityType
<1>7. Rank(f) = Cardinality(AheadF) /\ Rank(g) = Cardinality(AheadG)  BY DEF Rank
<1> HIDE DEF AheadF, AheadG
<1>8. Rank(g) < PageSize  BY <1>2, <1>5, <1>6, <1>7, FeedbackNumbered
<1> QED  BY <1>8 DEF Items

(* A page that has room for the rest shows the rest. *)
LEMMA LastPageIsAll ==
    ASSUME FeedbackTypeOK, ~ (Cardinality(Rest) > PageSize)
    PROVE  Rest \subseteq Items
<1> SUFFICES ASSUME NEW f \in Rest PROVE Rank(f) < PageSize  BY DEF Items
<1>1. Rest \subseteq Feedbacks /\ IsFiniteSet(Rest)
  BY FeedbackNumbered, FS_Subset DEF Rest, Created
<1> DEFINE Ahead == {h \in Rest : Precedes(h, f)}
<1>2. Ahead \subseteq Rest \ {f}  BY <1>1, PrecedesIsOrder
<1>3. IsFiniteSet(Rest \ {f}) /\ Cardinality(Rest \ {f}) = Cardinality(Rest) - 1
  BY <1>1, FS_RemoveElement
<1>4. IsFiniteSet(Ahead) /\ Cardinality(Ahead) <= Cardinality(Rest \ {f})
  BY <1>2, <1>3, FS_Subset
<1>5. Cardinality(Ahead) \in Nat /\ Cardinality(Rest) \in Nat
  BY <1>1, <1>4, FS_CardinalityType
<1>6. Rank(f) = Cardinality(Ahead)  BY DEF Rank
<1> HIDE DEF Ahead
<1> QED  BY <1>3, <1>4, <1>5, <1>6, FeedbackNumbered

-----------------------------------------------------------------------------
(* The feedback desk: the inductive invariant *)

(* What the walk has shown is behind its cursor, and what it has to show   *)
(* still is beyond it.                                                     *)
WalkKeepsUp ==
    /\ walk.after = 0 => \A f \in Feedbacks : walk.seen[f] = 0
    /\ walk.after # 0 => walk.after \in Created
    /\ \A f \in Feedbacks : walk.seen[f] # 0 => f \in Created /\ ~ Beyond(f)
    /\ walk.due \subseteq Created
    /\ walk.open => \A f \in walk.due : walk.seen[f] = 1 \/ Beyond(f)

FeedbackInv == FeedbackTypeOK /\ WalkKeepsUp /\ FeedbackIsSettledOnce

LEMMA FeedbackInitInv == GovInit => FeedbackInv
<1> SUFFICES ASSUME GovInit PROVE FeedbackInv  OBVIOUS
<1>1. /\ feedback = [f \in Feedbacks |-> [status |-> "none", at |-> 0]]
      /\ decided = [f \in Feedbacks |-> 0]
      /\ walk = [open |-> FALSE, seen |-> NotSeen, due |-> {}, after |-> 0]
      /\ gov = [o \in Officers |-> Idle]
  BY DEF GovInit
<1>2. FeedbackTypeOK
  <2>1. feedback \in [Feedbacks -> FeedbackRow] /\ decided \in [Feedbacks -> Nat]
    BY <1>1 DEF FeedbackRow
  <2>2. walk \in Walk  BY <1>1 DEF Walk, NotSeen
  <2>3. DOMAIN gov = Officers /\ \A o \in Officers : ResolvesItem(gov, o)
    BY <1>1 DEF ResolvesItem, Idle
  <2> QED  BY <2>1, <2>2, <2>3 DEF FeedbackTypeOK
<1>3. WalkKeepsUp  BY <1>1 DEF WalkKeepsUp, NotSeen
<1>4. FeedbackIsSettledOnce
  BY <1>1 DEF FeedbackIsSettledOnce, ResolvedOnce, WalkShowsAll, NotSeen
<1> QED  BY <1>2, <1>3, <1>4 DEF FeedbackInv

(* A step that leaves the items and the walk alone: most of the desks'. *)
LEMMA OtherDeskInv ==
    ASSUME FeedbackInv, UNCHANGED <<feedback, decided, walk>>,
           DOMAIN gov' = Officers, \A o \in Officers : ResolvesItem(gov', o)
    PROVE  FeedbackInv'
BY DEF FeedbackInv, FeedbackTypeOK, WalkKeepsUp, FeedbackIsSettledOnce, ResolvedOnce,
       WalkShowsAll, Created, Beyond, Precedes

(* An officer who takes up something else than an item, or nothing. *)
LEMMA TakesUp ==
    ASSUME FeedbackInv, NEW o \in Officers, NEW v, v.op # "resolve" \/ v.item \in Feedbacks,
           gov' = [gov EXCEPT ![o] = v]
    PROVE  DOMAIN gov' = Officers /\ \A x \in Officers : ResolvesItem(gov', x)
<1>1. DOMAIN gov = Officers /\ \A x \in Officers : ResolvesItem(gov, x)
  BY DEF FeedbackInv, FeedbackTypeOK
<1>2. DOMAIN gov' = Officers  BY <1>1
<1>3. gov'[o] = v  BY <1>1
<1>4. \A x \in Officers : x # o => gov'[x] = gov[x]  BY <1>1
<1>5. ASSUME NEW x \in Officers PROVE ResolvesItem(gov', x)
  <2>1. CASE x = o  BY <1>3, <2>1 DEF ResolvesItem
  <2>2. CASE x # o
    <3>1. gov'[x] = gov[x] /\ ResolvesItem(gov, x)  BY <1>1, <1>4, <2>2
    <3> QED  BY <3>1 DEF ResolvesItem
  <2> QED  BY <2>1, <2>2
<1> QED  BY <1>2, <1>5

(* When the items keep their times, and those that are there stay, the    *)
(* walk is not disturbed.                                                  *)
LEMMA ItemsStayInv ==
    ASSUME FeedbackTypeOK, WalkKeepsUp, WalkShowsAll, walk' = walk,
           \A f \in Created : f \in Created' /\ feedback'[f].at = feedback[f].at
    PROVE  WalkKeepsUp' /\ WalkShowsAll'
<1>1. walk.after = 0 \/ walk.after \in Created  BY DEF WalkKeepsUp
<1>2. \A f \in Created : f \in Feedbacks  BY DEF Created
<1>3. \A f \in Created : Beyond(f) <=> Beyond(f)'  BY <1>1 DEF Beyond, Precedes
<1>4. WalkShowsAll'  BY DEF WalkShowsAll
<1>5. WalkKeepsUp'
  <2>1. walk' = walk  OBVIOUS
  <2>2. \A f \in Feedbacks : walk.seen[f] # 0 => f \in Created' /\ ~ Beyond(f)'
    BY <1>3 DEF WalkKeepsUp
  <2>3. walk.open => \A f \in walk.due : walk.seen[f] = 1 \/ Beyond(f)'
    BY <1>3 DEF WalkKeepsUp
  <2> QED  BY <1>1, <2>1, <2>2, <2>3 DEF WalkKeepsUp
<1> QED  BY <1>4, <1>5

LEMMA CreateFeedbackInv == ASSUME FeedbackInv, NEW f \in Feedbacks, CreateFeedback(f) PROVE FeedbackInv'
<1>1. PICK t \in 1 .. MaxInstant : feedback' = [feedback EXCEPT ![f] = [status |-> "open", at |-> t]]
  BY DEF CreateFeedback
<1>2. feedback[f].status = "none" /\ UNCHANGED <<decided, walk, gov>>  BY DEF CreateFeedback
<1>3. FeedbackTypeOK'
  BY <1>1, <1>2, FeedbackNumbered DEF FeedbackInv, FeedbackTypeOK, FeedbackRow
<1>4. \A g \in Created : g \in Created' /\ feedback'[g].at = feedback[g].at
  BY <1>1, <1>2 DEF Created, FeedbackInv, FeedbackTypeOK
<1>5. ResolvedOnce'
  BY <1>1, <1>2 DEF FeedbackInv, FeedbackIsSettledOnce, ResolvedOnce, FeedbackTypeOK, FeedbackRow
<1>6. WalkKeepsUp' /\ WalkShowsAll'
  BY <1>2, <1>4, ItemsStayInv DEF FeedbackInv, FeedbackIsSettledOnce
<1> QED  BY <1>3, <1>5, <1>6 DEF FeedbackInv, FeedbackIsSettledOnce

LEMMA ResolveWritesInv == ASSUME FeedbackInv, NEW o \in Officers, ResolveWrites(o) PROVE FeedbackInv'
<1> DEFINE f == gov[o].item
<1>1. f \in Feedbacks  BY DEF ResolveWrites, Works, FeedbackInv, FeedbackTypeOK, ResolvesItem
<1>2. /\ walk' = walk /\ DOMAIN gov' = Officers
      /\ \A x \in Officers : ResolvesItem(gov', x)
  <2>1. walk' = walk /\ gov' = [gov EXCEPT ![o] = Idle]  BY DEF ResolveWrites, Ends
  <2>2. Idle.op # "resolve"  BY DEF Idle
  <2> QED  BY <2>1, <2>2, TakesUp
<1>3. CASE StillOpen(f)
  <2>1. /\ feedback' = [feedback EXCEPT ![f].status = "resolved"]
        /\ decided' = [decided EXCEPT ![f] = @ + 1]
        /\ feedback[f].status = "open"
    BY <1>3 DEF ResolveWrites, StillOpen
  <2> HIDE DEF f
  <2>2. feedback' \in [Feedbacks -> FeedbackRow] /\ decided' \in [Feedbacks -> Nat]
    BY <1>1, <2>1 DEF FeedbackInv, FeedbackTypeOK, FeedbackRow
  <2>3. FeedbackTypeOK'  BY <1>2, <2>2 DEF FeedbackInv, FeedbackTypeOK
  <2>4. \A g \in Created : g \in Created' /\ feedback'[g].at = feedback[g].at
    BY <1>1, <2>1 DEF Created, FeedbackInv, FeedbackTypeOK, FeedbackRow
  <2>5. ResolvedOnce'
    BY <1>1, <2>1 DEF FeedbackInv, FeedbackIsSettledOnce, ResolvedOnce, FeedbackTypeOK, FeedbackRow
  <2>6. WalkKeepsUp' /\ WalkShowsAll'
    BY <1>2, <2>4, ItemsStayInv DEF FeedbackInv, FeedbackIsSettledOnce
  <2> QED  BY <2>3, <2>5, <2>6 DEF FeedbackInv, FeedbackIsSettledOnce
<1>4. CASE ~ StillOpen(f)
  <2>1. UNCHANGED <<feedback, decided>>  BY <1>4 DEF ResolveWrites
  <2> QED  BY <1>2, <2>1, OtherDeskInv
<1> QED  BY <1>3, <1>4

LEMMA WalkBeginsInv == FeedbackInv /\ WalkBegins => FeedbackInv'
<1> SUFFICES ASSUME FeedbackInv, WalkBegins PROVE FeedbackInv'  OBVIOUS
<1>1. /\ walk' = [open |-> TRUE, seen |-> NotSeen, due |-> Created, after |-> 0]
      /\ UNCHANGED <<feedback, decided, gov>>
  BY DEF WalkBegins
<1>2. FeedbackTypeOK'  BY <1>1 DEF FeedbackInv, FeedbackTypeOK, Walk, NotSeen, Created
<1>3. Created' = Created  BY <1>1 DEF Created
<1>4. WalkKeepsUp'
  <2>1. walk'.after = 0 /\ walk'.seen = NotSeen /\ walk'.due = Created /\ \A f \in Feedbacks : NotSeen[f] = 0
    BY <1>1 DEF NotSeen
  <2>2. \A f \in Feedbacks : Beyond(f)'  BY <2>1 DEF Beyond
  <2> QED  BY <1>3, <2>1, <2>2 DEF WalkKeepsUp, Created
<1>5. WalkShowsAll'  BY <1>1 DEF WalkShowsAll, NotSeen
<1>6. ResolvedOnce'  BY <1>1 DEF FeedbackInv, FeedbackIsSettledOnce, ResolvedOnce
<1> QED  BY <1>2, <1>4, <1>5, <1>6 DEF FeedbackInv, FeedbackIsSettledOnce

(* One page.  The items on it were not shown before, as they are beyond    *)
(* the old cursor; they are not beyond the new one, and the others of the  *)
(* rest are.                                                               *)
LEMMA WalkReadsInv == FeedbackInv /\ WalkReads => FeedbackInv'
<1> SUFFICES ASSUME FeedbackInv, WalkReads PROVE FeedbackInv'  OBVIOUS
<1>1. walk.open /\ UNCHANGED <<feedback, decided, gov>>  BY DEF WalkReads
<1>2. FeedbackTypeOK /\ WalkKeepsUp /\ WalkShowsAll /\ ResolvedOnce
  BY DEF FeedbackInv, FeedbackIsSettledOnce
<1>3. ResolvedOnce' /\ Created' = Created /\ Created \subseteq Feedbacks
  BY <1>1, <1>2 DEF ResolvedOnce, Created
<1>4. CASE Rest = {} /\ walk' = [walk EXCEPT !.open = FALSE]
  <2>1. FeedbackTypeOK'  BY <1>1, <1>2, <1>4 DEF FeedbackTypeOK, Walk
  <2>2. walk'.seen = walk.seen /\ walk'.due = walk.due /\ walk'.after = walk.after /\ walk'.open = FALSE
    BY <1>2, <1>4 DEF FeedbackTypeOK, Walk
  <2>3. \A f \in walk.due : walk.seen[f] = 1
    BY <1>1, <1>2, <1>4 DEF WalkKeepsUp, Rest
  <2>4. \A f : Beyond(f)' <=> Beyond(f)  BY <1>1, <2>2 DEF Beyond, Precedes
  <2>5. WalkKeepsUp'  BY <1>2, <1>3, <2>2, <2>4 DEF WalkKeepsUp
  <2>6. WalkShowsAll'  BY <1>2, <2>2, <2>3 DEF WalkShowsAll
  <2> QED  BY <1>3, <2>1, <2>5, <2>6 DEF FeedbackInv, FeedbackIsSettledOnce
<1>5. ASSUME NEW last \in Items, \A g \in Items : g = last \/ Precedes(g, last),
             walk' = [walk EXCEPT !.after = last, !.open = Cardinality(Rest) > PageSize,
                        !.seen = [f \in Feedbacks |-> IF f \in Items THEN @[f] + 1 ELSE @[f]]]
      PROVE  FeedbackInv'
  <2>1. /\ walk'.after = last /\ walk'.due = walk.due /\ walk'.open = (Cardinality(Rest) > PageSize)
        /\ walk'.seen = [f \in Feedbacks |-> IF f \in Items THEN walk.seen[f] + 1 ELSE walk.seen[f]]
        /\ walk' \in Walk
    <3> DEFINE shown == [f \in Feedbacks |-> IF f \in Items THEN walk.seen[f] + 1 ELSE walk.seen[f]]
               more == Cardinality(Rest) > PageSize
    <3>1. last \in Feedbacks  BY DEF Items, Rest, Created
    <3>2. walk \in Walk  BY <1>2 DEF FeedbackTypeOK
    <3>3. shown \in [Feedbacks -> Nat]  BY <3>2 DEF Walk
    <3>4. more \in BOOLEAN  OBVIOUS
    <3>5. walk' = [walk EXCEPT !.after = last, !.open = more, !.seen = shown]  BY <1>5
    <3> HIDE DEF shown, more
    <3>6. walk' = [open |-> more, seen |-> shown, due |-> walk.due, after |-> last]
      BY <3>2, <3>5 DEF Walk
    <3>7. walk' \in Walk  BY <3>1, <3>2, <3>3, <3>4, <3>6 DEF Walk
    <3> QED  BY <3>6, <3>7 DEF shown, more
  <2>2. FeedbackTypeOK'  BY <1>1, <1>2, <2>1 DEF FeedbackTypeOK
  <2>3. Items \subseteq Rest /\ Rest \subseteq Created /\ \A f \in Rest : Beyond(f)  BY DEF Items, Rest
  <2>4. last # 0 /\ last \in Created  BY <1>3, <2>3, FeedbackNumbered
  <2>5. \A f : Beyond(f)' <=> Precedes(last, f)
    BY <1>1, <2>1, <2>4 DEF Beyond, Precedes
  <2>6. \A f \in Feedbacks : walk.seen[f] \in Nat  BY <1>2 DEF FeedbackTypeOK, Walk
  <2>7. \A f \in Items : walk.seen[f] = 0 /\ walk'.seen[f] = 1
    BY <1>2, <1>3, <2>1, <2>3, <2>6 DEF WalkKeepsUp
  <2>8. \A f \in Feedbacks : f \notin Items => walk'.seen[f] = walk.seen[f]  BY <2>1
  <2>9. \A f \in Items : ~ Precedes(last, f)
    BY <1>2, <1>3, <1>5, <2>3, PrecedesIsOrder
  <2>10. \A f \in Feedbacks : walk.seen[f] # 0 => ~ Precedes(last, f)
    <3> SUFFICES ASSUME NEW f \in Feedbacks, walk.seen[f] # 0  PROVE ~ Precedes(last, f)  OBVIOUS
    <3>1. ~ Beyond(f) /\ f \in Created  BY <1>2 DEF WalkKeepsUp
    <3>2. walk.after # 0 /\ walk.after \in Created /\ ~ Precedes(walk.after, f)
      BY <1>2, <3>1 DEF Beyond, WalkKeepsUp
    <3>3. Precedes(walk.after, last)  BY <2>3, <3>2 DEF Beyond
    <3> QED  BY <1>2, <1>3, <2>4, <3>2, <3>3, PrecedesIsOrder
  <2>11. \A f \in Rest : f \in Items \/ Precedes(last, f)
    BY <1>2, <1>3, <2>3, PrecedesIsOrder, PageIsAhead
  <2>12. WalkKeepsUp'
    <3>1. \A f \in Feedbacks : walk'.seen[f] # 0 => f \in Created' /\ ~ Beyond(f)'
      BY <1>2, <1>3, <2>3, <2>5, <2>7, <2>8, <2>9, <2>10 DEF WalkKeepsUp
    <3>2. \A f \in walk'.due : walk'.seen[f] = 1 \/ Beyond(f)'
      <4> SUFFICES ASSUME NEW f \in walk.due  PROVE walk'.seen[f] = 1 \/ Beyond(f)'  BY <2>1
      <4>1. f \in Created /\ (walk.seen[f] = 1 \/ Beyond(f))  BY <1>1, <1>2 DEF WalkKeepsUp
      <4>2. CASE f \in Items  BY <4>2, <2>7
      <4>3. CASE f \notin Items /\ walk.seen[f] = 1  BY <4>3, <4>1, <1>3, <2>8
      <4>4. CASE f \notin Items /\ Beyond(f)
        <5>1. f \in Rest  BY <4>1, <4>4 DEF Rest
        <5> QED  BY <5>1, <4>4, <2>5, <2>11
      <4> QED  BY <4>1, <4>2, <4>3, <4>4
    <3> QED  BY <1>2, <1>3, <2>1, <2>4, <3>1, <3>2 DEF WalkKeepsUp
  <2>13. WalkShowsAll'
    <3>1. \A f \in Feedbacks : walk'.seen[f] <= 1
      BY <1>2, <2>7, <2>8 DEF WalkShowsAll
    <3>2. ASSUME ~ walk'.open, NEW f \in walk'.due  PROVE walk'.seen[f] = 1
      <4>1. Rest \subseteq Items  BY <1>2, <2>1, <3>2, LastPageIsAll
      <4>2. f \in Created /\ (walk.seen[f] = 1 \/ Beyond(f))
        BY <1>1, <1>2, <2>1, <3>2 DEF WalkKeepsUp
      <4>3. CASE f \in Items  BY <4>3, <2>7
      <4>4. CASE f \notin Items
        <5>1. walk.seen[f] = 1  BY <4>1, <4>2, <4>4 DEF Rest
        <5> QED  BY <5>1, <4>2, <4>4, <1>3, <2>8
      <4> QED  BY <4>3, <4>4
    <3> QED  BY <3>1, <3>2 DEF WalkShowsAll
  <2> QED  BY <1>3, <2>2, <2>12, <2>13 DEF FeedbackInv, FeedbackIsSettledOnce
<1> QED  BY <1>4, <1>5 DEF WalkReads

LEMMA GraphDeskInv == FeedbackInv /\ GraphDesk => FeedbackInv'
<1> SUFFICES ASSUME FeedbackInv, NEW o \in Officers,
                    \/ \E e \in GovEdges, a \in {"confirm", "reject"} : ReviewEdge(o, e, a)
                    \/ DetectReads(o) \/ DetectInserts(o)
             PROVE  FeedbackInv'
  BY DEF GraphDesk
<1>1. UNCHANGED <<feedback, decided, walk>>  BY DEF ReviewEdge, DetectReads, DetectInserts
<1>2. \/ gov' = gov
      \/ \E v : v.op # "resolve" /\ gov' = [gov EXCEPT ![o] = v]
  <2>1. CASE \E e \in GovEdges, a \in {"confirm", "reject"} : ReviewEdge(o, e, a)
    BY <2>1 DEF ReviewEdge
  <2>2. CASE DetectReads(o)
    <3>1. gov' = [gov EXCEPT ![o] = [op |-> "detect", found |-> Contradicting \ Known]]
      BY <2>2 DEF DetectReads
    <3>2. [op |-> "detect", found |-> Contradicting \ Known].op # "resolve"  OBVIOUS
    <3> QED  BY <3>1, <3>2
  <2>3. CASE DetectInserts(o)
    <3>1. gov' = [gov EXCEPT ![o] = Idle] /\ Idle.op # "resolve"
      BY <2>3 DEF DetectInserts, Ends, Idle
    <3> QED  BY <3>1
  <2> QED  BY <2>1, <2>2, <2>3
<1>3. DOMAIN gov' = Officers /\ \A x \in Officers : ResolvesItem(gov', x)
  BY <1>2, TakesUp DEF FeedbackInv, FeedbackTypeOK
<1> QED  BY <1>1, <1>3, OtherDeskInv

LEMMA WikiDeskInv == FeedbackInv /\ WikiDesk => FeedbackInv'
<1> SUFFICES ASSUME FeedbackInv, WikiDesk PROVE FeedbackInv'  OBVIOUS
<1>1. UNCHANGED <<feedback, decided, walk>>
  BY DEF WikiDesk, MergeReads, MergeWrites, ProposalReads, ProposalWrites, PendingReads, PageSynced,
         ProposalArrives
<1>2. \/ gov' = gov
      \/ \E o \in Officers : \E v : v.op # "resolve" /\ gov' = [gov EXCEPT ![o] = v]
  <2>1. ASSUME NEW o \in Officers, NEW p \in GovPages, NEW r \in GovPages, MergeReads(o, p, r)
        PROVE  \E v : v.op # "resolve" /\ gov' = [gov EXCEPT ![o] = v]
    <3>1. gov' = [gov EXCEPT ![o] = [op |-> "merge", from |-> p, to |-> r]]
      BY <2>1 DEF MergeReads
    <3>2. [op |-> "merge", from |-> p, to |-> r].op # "resolve"  OBVIOUS
    <3> QED  BY <3>1, <3>2
  <2>2. ASSUME NEW o \in Officers, MergeWrites(o) \/ PageSynced(o)
        PROVE  \E v : v.op # "resolve" /\ gov' = [gov EXCEPT ![o] = v]
    <3>1. gov' = [gov EXCEPT ![o] = Idle] /\ Idle.op # "resolve"
      BY <2>2 DEF MergeWrites, PageSynced, Ends, Idle
    <3> QED  BY <3>1
  <2>3. ASSUME NEW o \in Officers, NEW q \in Proposals, NEW a \in {"accept", "reject"}, ProposalReads(o, q, a)
        PROVE  \E v : v.op # "resolve" /\ gov' = [gov EXCEPT ![o] = v]
    <3>1. gov' = [gov EXCEPT ![o] = [op |-> "proposal", item |-> q, action |-> a]]
      BY <2>3 DEF ProposalReads
    <3>2. [op |-> "proposal", item |-> q, action |-> a].op # "resolve"  OBVIOUS
    <3> QED  BY <3>1, <3>2
  <2>4. ASSUME NEW o \in Officers, ProposalWrites(o)
        PROVE  \E v : v.op # "resolve" /\ gov' = [gov EXCEPT ![o] = v]
    <3> DEFINE v == IF gov[o].action = "accept" THEN Idle ELSE [op |-> "pending?", item |-> gov[o].item]
    <3>1. gov' = [gov EXCEPT ![o] = v]  BY <2>4 DEF ProposalWrites
    <3>2. v.op # "resolve"  BY DEF Idle
    <3> QED  BY <3>1, <3>2
  <2>5. ASSUME NEW o \in Officers, PendingReads(o)
        PROVE  \E v : v.op # "resolve" /\ gov' = [gov EXCEPT ![o] = v]
    <3> DEFINE v == IF NoPending(proposal[gov[o].item].page)
                    THEN [op |-> "synced", page |-> proposal[gov[o].item].page] ELSE Idle
    <3>1. gov' = [gov EXCEPT ![o] = v]  BY <2>5 DEF PendingReads
    <3>2. v.op # "resolve"  BY DEF Idle
    <3> QED  BY <3>1, <3>2
  <2>6. ASSUME NEW q \in Proposals, NEW p \in GovPages, ProposalArrives(q, p)  PROVE gov' = gov
    BY <2>6 DEF ProposalArrives
  <2> QED  BY <2>1, <2>2, <2>3, <2>4, <2>5, <2>6 DEF WikiDesk
<1>3. DOMAIN gov' = Officers /\ \A x \in Officers : ResolvesItem(gov', x)
  BY <1>2, TakesUp DEF FeedbackInv, FeedbackTypeOK
<1> QED  BY <1>1, <1>3, OtherDeskInv

LEMMA GovNextInv == FeedbackInv /\ [GovNext]_govVars => FeedbackInv'
<1> SUFFICES ASSUME FeedbackInv, [GovNext]_govVars PROVE FeedbackInv'  OBVIOUS
<1>1. CASE GraphDesk  BY <1>1, GraphDeskInv
<1>2. CASE WikiDesk  BY <1>2, WikiDeskInv
<1>3. ASSUME NEW o \in Officers, ResolveWrites(o) PROVE FeedbackInv'
  BY <1>3, ResolveWritesInv
<1>4. ASSUME NEW o \in Officers, NEW f \in Feedbacks, ResolveReads(o, f) PROVE FeedbackInv'
  <2>1. UNCHANGED <<feedback, decided, walk>>  BY <1>4 DEF ResolveReads
  <2>2. gov' = [gov EXCEPT ![o] = [op |-> "resolve", item |-> f]]  BY <1>4 DEF ResolveReads
  <2>3. [op |-> "resolve", item |-> f].item \in Feedbacks  OBVIOUS
  <2>4. DOMAIN gov' = Officers /\ \A x \in Officers : ResolvesItem(gov', x)
    BY <2>2, <2>3, TakesUp
  <2> QED  BY <2>1, <2>4, OtherDeskInv
<1>5. ASSUME NEW f \in Feedbacks, CreateFeedback(f) PROVE FeedbackInv'
  BY <1>5, CreateFeedbackInv
<1>6. CASE WalkBegins  BY <1>6, WalkBeginsInv
<1>7. CASE WalkReads  BY <1>7, WalkReadsInv
<1>8. CASE UNCHANGED govVars
  <2>1. UNCHANGED <<feedback, decided, walk, gov>>  BY <1>8 DEF govVars
  <2> QED  BY <2>1, OtherDeskInv DEF FeedbackInv, FeedbackTypeOK
<1> QED  BY <1>1, <1>2, <1>3, <1>4, <1>5, <1>6, <1>7, <1>8 DEF GovNext, FeedbackDesk

-----------------------------------------------------------------------------
(* The feedback desk: the theorems *)

(* While an administrator pages through listFeedback, what was shown lies   *)
(* at or before the cursor and what was there at the start and was not     *)
(* shown lies beyond it, whatever is created or resolved meanwhile.         *)
THEOREM FeedbackInvariant == GovSpec => []FeedbackInv
<1>1. GovInit => FeedbackInv  BY FeedbackInitInv
<1>2. FeedbackInv /\ [GovNext]_govVars => FeedbackInv'  BY GovNextInv
<1> QED  BY <1>1, <1>2, PTL DEF GovSpec

(* Of several administrators who resolve an item at once one succeeds, and  *)
(* a walk through the pages shows every item that was there at its start,   *)
(* each once.                                                              *)
THEOREM FeedbackSettled == GovSpec => []FeedbackIsSettledOnce
<1>1. FeedbackInv => FeedbackIsSettledOnce  BY DEF FeedbackInv
<1> QED  BY <1>1, FeedbackInvariant, PTL

-----------------------------------------------------------------------------
(* Model calls: the answers sorted by index *)

(* What k - 1 others precede, of answers in the order of a permutation, is *)
(* the answer number k.                                                     *)
LEMMA SortedByIndex ==
    ASSUME NEW n \in Nat, NEW order \in Bijection(1 .. n, 1 .. n), NEW data,
           DOMAIN data = 1 .. n, \A i \in 1 .. n : data[i].index = order[i]
    PROVE  /\ DOMAIN ByIndex(data) = 1 .. n
           /\ \A k \in 1 .. n : \E i \in 1 .. n : order[i] = k /\ ByIndex(data)[k] = data[i]
<1>1. /\ order \in [1 .. n -> 1 .. n]
      /\ \A i, j \in 1 .. n : order[i] = order[j] => i = j
      /\ \A k \in 1 .. n : \E i \in 1 .. n : order[i] = k
  BY DEF Bijection, Injection, Surjection, IsInjective
<1>2. ASSUME NEW i \in 1 .. n  PROVE NumberBefore(data, i) = order[i] - 1
  <2> DEFINE Ahead == {j \in 1 .. n : order[j] < order[i]}
             Firsts == 1 .. order[i] - 1
             inverse == [k \in Firsts |-> CHOOSE j \in 1 .. n : order[j] = k]
  <2>1. order[i] \in 1 .. n  BY <1>1
  <2>2. IsFiniteSet(Firsts) /\ Cardinality(Firsts) = order[i] - 1
    <3>1. 1 \in Int /\ order[i] - 1 \in Int  BY <2>1
    <3>2. /\ IsFiniteSet(Firsts)
          /\ Cardinality(Firsts) = IF 1 > order[i] - 1 THEN 0 ELSE order[i] - 1 - 1 + 1
      BY <3>1, FS_Interval
    <3> QED  BY <2>1, <3>2
  <2>3. \A k \in Firsts : k \in 1 .. n  BY <2>1
  <2>4. \A k \in Firsts : inverse[k] \in 1 .. n /\ order[inverse[k]] = k  BY <1>1, <2>3
  <2>5. inverse \in [Firsts -> Ahead]
    <3>1. ASSUME NEW k \in Firsts  PROVE inverse[k] \in Ahead
      <4>1. inverse[k] \in 1 .. n /\ order[inverse[k]] = k  BY <2>4
      <4>2. k < order[i]  BY <2>1
      <4> HIDE DEF inverse
      <4> QED  BY <4>1, <4>2
    <3> QED  BY <3>1
  <2>6. \A k, m \in Firsts : inverse[k] = inverse[m] => k = m
    <3> HIDE DEF inverse
    <3> QED  BY <2>4
  <2>7. \A j \in Ahead : \E k \in Firsts : inverse[k] = j
    <3> SUFFICES ASSUME NEW j \in Ahead PROVE order[j] \in Firsts /\ inverse[order[j]] = j
      OBVIOUS
    <3>1. j \in 1 .. n /\ order[j] \in 1 .. n /\ order[j] < order[i]  BY <1>1
    <3>2. order[j] \in Firsts  BY <2>1, <3>1
    <3>3. inverse[order[j]] \in 1 .. n /\ order[inverse[order[j]]] = order[j]  BY <2>4, <3>2
    <3> HIDE DEF inverse
    <3> QED  BY <1>1, <3>1, <3>2, <3>3
  <2>8. ExistsBijection(Firsts, Ahead)
    <3>1. inverse \in Bijection(Firsts, Ahead)
      BY <2>5, <2>6, <2>7 DEF Bijection, Injection, Surjection, IsInjective
    <3> QED  BY <3>1 DEF ExistsBijection
  <2>9. Cardinality(Ahead) = order[i] - 1
    <3> HIDE DEF Firsts, Ahead
    <3> QED  BY <2>2, <2>8, FS_Bijection
  <2>10. {j \in DOMAIN data : data[j].index < data[i].index} = Ahead  OBVIOUS
  <2> HIDE DEF Ahead
  <2> QED  BY <2>9, <2>10 DEF NumberBefore
<1>3. DOMAIN ByIndex(data) = 1 .. n  BY DEF ByIndex
<1>4. ASSUME NEW k \in 1 .. n
      PROVE  \E i \in 1 .. n : order[i] = k /\ ByIndex(data)[k] = data[i]
  <2> DEFINE i == CHOOSE i \in DOMAIN data : NumberBefore(data, i) = k - 1
  <2>1. PICK j \in 1 .. n : order[j] = k  BY <1>1
  <2>2. NumberBefore(data, j) = k - 1  BY <1>2, <2>1
  <2>3. i \in 1 .. n /\ NumberBefore(data, i) = k - 1  BY <2>1, <2>2
  <2>4. ByIndex(data)[k] = data[i]  BY DEF ByIndex
  <2> HIDE DEF i
  <2>5. order[i] - 1 = k - 1 /\ order[i] \in 1 .. n  BY <1>1, <1>2, <2>3
  <2>6. order[i] = k  BY <2>5
  <2> QED  BY <2>3, <2>4, <2>6
<1> QED  BY <1>3, <1>4

-----------------------------------------------------------------------------
(* Model calls: the inductive invariant *)

Steps == {"create", "stream", "sleeping", "ended"}
Call == [step : Steps, attempt : {0, 1}, timer : BOOLEAN, heard : BOOLEAN, deltas : Nat,
         outcome : {"none", "error", "done"}]

(* An attempt has said nothing before its stream is open, and there is a   *)
(* second one only if the first has said nothing.                          *)
OneAttemptSpeaks ==
    /\ chat \in Call
    /\ said \subseteq {chat.attempt}
    /\ chat.step \in {"create", "sleeping"} => said = {}
    /\ chat.step = "sleeping" => chat.attempt = 0

(* What embedBatch has got are the embeddings of the first texts. *)
FirstTextsEmbedded ==
    /\ DOMAIN embed = {"step", "tries", "got"}
    /\ embed.got \in Seq(Nat)
    /\ Done <= NumTexts
    /\ embed.got = [i \in 1 .. Done |-> i]
    /\ embed.step = "returned" => Done = NumTexts

CallInv == OneAttemptSpeaks /\ FirstTextsEmbedded

LEMMA CallInitInv == CallInit => CallInv
<1> SUFFICES ASSUME CallInit PROVE CallInv  OBVIOUS
<1>1. OneAttemptSpeaks  BY DEF CallInit, Attempt, OneAttemptSpeaks, Call, Steps
<1>2. embed = [step |-> "request", tries |-> 0, got |-> <<>>]  BY DEF CallInit
<1>3. <<>> \in Seq(Nat) /\ Len(<<>>) = 0 /\ <<>> = [i \in 1 .. 0 |-> i]  BY EmptySeq
<1>4. Done = 0 /\ embed.got = <<>>  BY <1>2, <1>3 DEF Done
<1>5. FirstTextsEmbedded  BY <1>2, <1>3, <1>4, CallLimits DEF FirstTextsEmbedded
<1> QED  BY <1>1, <1>5 DEF CallInv

LEMMA ChatEndsInv ==
    ASSUME OneAttemptSpeaks, NEW outcome \in {"error", "done"}, ChatEnds(outcome), said' = said
    PROVE  OneAttemptSpeaks'
BY DEF OneAttemptSpeaks, ChatEnds, Call, Steps

LEMMA ChatFailsInv ==
    ASSUME OneAttemptSpeaks, NEW status \in {0, 429, 500}, ChatFails(status),
           chat.step = "create" \/ status = 0
    PROVE  OneAttemptSpeaks'
<1>1. said' = said  BY DEF ChatFails
<1>2. CASE TriesAgain(status)
  <2>1. chat' = [chat EXCEPT !.step = "sleeping", !.timer = FALSE]  BY <1>2 DEF ChatFails
  <2>2. chat.attempt = 0 /\ status = 429  BY <1>2 DEF TriesAgain
  <2>3. said = {} /\ chat \in Call  BY <2>2 DEF OneAttemptSpeaks
  <2>4. chat' \in Call /\ chat'.step = "sleeping" /\ chat'.attempt = chat.attempt
    BY <2>1, <2>3 DEF Call, Steps
  <2> QED  BY <1>1, <2>2, <2>3, <2>4 DEF OneAttemptSpeaks
<1>3. CASE ~ TriesAgain(status)
  <2>1. ChatEnds("error")  BY <1>3 DEF ChatFails
  <2> QED  BY <1>1, <2>1, ChatEndsInv
<1> QED  BY <1>2, <1>3

LEMMA ChatStepInv ==
    ASSUME OneAttemptSpeaks,
           StreamOpens \/ CreateFails \/ StreamBreaks \/ WakesUp \/ Chunk \/ StreamEnds \/ TimerFires
    PROVE  OneAttemptSpeaks'
<1>1. CASE StreamOpens  BY <1>1 DEF StreamOpens, At, OneAttemptSpeaks, Call, Steps
<1>2. CASE CreateFails  BY <1>2, ChatFailsInv DEF CreateFails, At
<1>3. CASE StreamBreaks  BY <1>3, ChatFailsInv DEF StreamBreaks
<1>4. CASE WakesUp  BY <1>4 DEF WakesUp, At, Attempt, OneAttemptSpeaks, Call, Steps
<1>5. CASE Chunk
  <2>1. chat' = [chat EXCEPT !.heard = TRUE, !.timer = FALSE, !.deltas = @ + 1] /\ chat.step = "stream"
    BY <1>5 DEF Chunk, At
  <2>2. said' = said \/ said' = said \cup {chat.attempt}  BY <1>5 DEF Chunk
  <2>3. chat' \in Call /\ chat'.step = "stream" /\ chat'.attempt = chat.attempt
    <3>1. chat \in Call /\ chat.deltas + 1 \in Nat  BY DEF OneAttemptSpeaks, Call
    <3>2. chat' = [chat EXCEPT !.heard = TRUE, !.timer = FALSE, !.deltas = chat.deltas + 1]
      BY <2>1
    <3> QED  BY <2>1, <3>1, <3>2 DEF Call
  <2> QED  BY <2>2, <2>3 DEF OneAttemptSpeaks
<1>6. CASE StreamEnds  BY <1>6, ChatEndsInv DEF StreamEnds
<1>7. CASE TimerFires  BY <1>7, ChatEndsInv DEF TimerFires
<1> QED  BY <1>1, <1>2, <1>3, <1>4, <1>5, <1>6, <1>7

(* A batch that is answered adds the embeddings of the next texts. *)
LEMMA EmbedAnswersInv == FirstTextsEmbedded /\ EmbedAnswers => FirstTextsEmbedded'
<1> SUFFICES ASSUME FirstTextsEmbedded, EmbedAnswers PROVE FirstTextsEmbedded'  OBVIOUS
<1>1. Done \in Nat /\ Done < NumTexts /\ embed.step = "request"
  BY LenProperties DEF EmbedAnswers, FirstTextsEmbedded, Done
<1>2. BatchLength \in Nat /\ Done + BatchLength <= NumTexts
  BY <1>1, CallLimits DEF BatchLength
<1>3. CASE embed' = [embed EXCEPT !.step = "failed"]
  BY <1>3 DEF FirstTextsEmbedded, Done
<1>4. ASSUME NEW order \in Bijection(1 .. BatchLength, 1 .. BatchLength),
             NEW data, data = [i \in 1 .. BatchLength |-> [index |-> order[i], embedding |-> Done + order[i]]],
             embed' = [embed EXCEPT !.tries = 0,
                         !.got = @ \o [i \in DOMAIN ByIndex(data) |-> ByIndex(data)[i].embedding]]
      PROVE  FirstTextsEmbedded'
  <2> DEFINE n == BatchLength
             sorted == ByIndex(data)
             new == [i \in DOMAIN sorted |-> sorted[i].embedding]
             got == embed.got \o new
  <2>1. DOMAIN data = 1 .. n /\ \A i \in 1 .. n : data[i].index = order[i] /\ data[i].embedding = Done + order[i]
    BY <1>4
  <2>2. DOMAIN sorted = 1 .. n /\ \A k \in 1 .. n : \E i \in 1 .. n : order[i] = k /\ sorted[k] = data[i]
    <3>1. n \in Nat /\ order \in Bijection(1 .. n, 1 .. n)  BY <1>2, <1>4
    <3>2. DOMAIN data = 1 .. n /\ \A i \in 1 .. n : data[i].index = order[i]  BY <2>1
    <3> HIDE DEF n
    <3> QED  BY <3>1, <3>2, SortedByIndex
  <2>3. \A k \in 1 .. n : sorted[k].embedding = Done + k  BY <2>1, <2>2
  <2>4. new = [k \in 1 .. n |-> Done + k]
    <3> HIDE DEF sorted
    <3> QED  BY <2>2, <2>3
  <2>5. new \in Seq(Nat) /\ Len(new) = n
    <3> HIDE DEF new
    <3>1. \A k \in 1 .. n : Done + k \in Nat  BY <1>1, <1>2
    <3>2. new \in [1 .. n -> Nat]  BY <2>4, <3>1
    <3> QED  BY <1>2, <3>2, SeqDef, LenProperties
  <2>6. embed'.got = got /\ embed'.step = "request" /\ DOMAIN embed' = {"step", "tries", "got"}
    <3> HIDE DEF n, sorted
    <3>1. embed' = [embed EXCEPT !.tries = 0, !.got = embed.got \o new]  BY <1>4 DEF sorted
    <3> HIDE DEF new
    <3> QED  BY <1>1, <3>1 DEF FirstTextsEmbedded
  <2> HIDE DEF new, sorted
  <2>7. /\ got \in Seq(Nat) /\ Len(got) = Done + n
        /\ \A i \in 1 .. Done + n : got[i] = IF i <= Done THEN embed.got[i] ELSE new[i - Done]
    <3>1. embed.got \in Seq(Nat) /\ Len(embed.got) = Done  BY DEF FirstTextsEmbedded, Done
    <3> HIDE DEF n
    <3> QED  BY <2>5, <3>1, ConcatProperties
  <2>8. ASSUME NEW i \in 1 .. Done + n  PROVE got[i] = i
    <3>1. i \in Nat /\ n \in Nat  BY <1>1, <1>2
    <3>2. CASE i <= Done
      <4>1. i \in 1 .. Done /\ embed.got[i] = i  BY <3>1, <3>2, <1>1 DEF FirstTextsEmbedded
      <4> HIDE DEF got, n
      <4> QED  BY <2>7, <3>2, <4>1
    <3>3. CASE ~ (i <= Done)
      <4>1. i - Done \in 1 .. n /\ Done + (i - Done) = i  BY <1>1, <3>1, <3>3
      <4>2. new[i - Done] = Done + (i - Done)  BY <2>4, <4>1
      <4> HIDE DEF got, n
      <4> QED  BY <2>7, <3>3, <4>1, <4>2
    <3> QED  BY <3>2, <3>3
  <2> HIDE DEF got, n
  <2>9. got = [i \in 1 .. Done + n |-> i]
    <3>1. DOMAIN got = 1 .. Done + n  BY <2>7, LenProperties
    <3>2. got = [i \in DOMAIN got |-> got[i]]  BY <2>7, SeqDef
    <3> QED  BY <2>8, <3>1, <3>2
  <2>10. Done' = Done + n  BY <2>6, <2>7 DEF Done
  <2>11. Done' <= NumTexts  BY <1>2, <2>10 DEF n
  <2> QED  BY <2>6, <2>7, <2>9, <2>10, <2>11 DEF FirstTextsEmbedded
<1> QED  BY <1>3, <1>4 DEF EmbedAnswers

LEMMA EmbedStepInv ==
    ASSUME FirstTextsEmbedded, EmbedAnswers \/ EmbedFails \/ EmbedReturns
    PROVE  FirstTextsEmbedded'
<1>1. CASE EmbedAnswers  BY <1>1, EmbedAnswersInv
<1>2. CASE EmbedFails
  <2>1. /\ DOMAIN embed' = DOMAIN embed /\ embed'.got = embed.got
        /\ embed'.step = "returned" => embed.step = "returned"
    BY <1>2 DEF EmbedFails, FirstTextsEmbedded
  <2> QED  BY <2>1 DEF FirstTextsEmbedded, Done
<1>3. CASE EmbedReturns
  <2>1. DOMAIN embed' = DOMAIN embed /\ embed'.got = embed.got /\ Done = NumTexts
    BY <1>3 DEF EmbedReturns, FirstTextsEmbedded
  <2> QED  BY <2>1 DEF FirstTextsEmbedded, Done
<1> QED  BY <1>1, <1>2, <1>3

LEMMA CallNextInv == CallInv /\ [CallNext]_callVars => CallInv'
<1> SUFFICES ASSUME CallInv, [CallNext]_callVars PROVE CallInv'  OBVIOUS
<1>1. OneAttemptSpeaks /\ FirstTextsEmbedded  BY DEF CallInv
<1>2. UNCHANGED <<chat, said>> => OneAttemptSpeaks'  BY <1>1 DEF OneAttemptSpeaks
<1>3. UNCHANGED embed => FirstTextsEmbedded'  BY <1>1 DEF FirstTextsEmbedded, Done
<1>4. CASE StreamOpens \/ CreateFails \/ StreamBreaks \/ WakesUp \/ Chunk \/ StreamEnds \/ TimerFires
  <2>1. UNCHANGED embed
    BY <1>4 DEF StreamOpens, CreateFails, StreamBreaks, ChatFails, WakesUp, Chunk, StreamEnds, TimerFires
  <2> QED  BY <1>1, <1>3, <1>4, <2>1, ChatStepInv DEF CallInv
<1>5. CASE EmbedAnswers \/ EmbedFails \/ EmbedReturns
  <2>1. UNCHANGED <<chat, said>>  BY <1>5 DEF EmbedAnswers, EmbedFails, EmbedReturns
  <2> QED  BY <1>1, <1>2, <1>5, <2>1, EmbedStepInv DEF CallInv
<1>6. CASE UNCHANGED callVars  BY <1>2, <1>3, <1>6 DEF callVars, CallInv
<1> QED  BY <1>4, <1>5, <1>6 DEF CallNext

-----------------------------------------------------------------------------
(* Model calls: the theorems *)

(* Only the current attempt of streamCompletion has yielded text, none has  *)
(* when another one begins, and embedBatch has got the embeddings of the    *)
(* first texts in their order.                                              *)
THEOREM CallInvariant == CallSpec => []CallInv
<1>1. CallInit => CallInv  BY CallInitInv
<1>2. CallInv /\ [CallNext]_callVars => CallInv'  BY CallNextInv
<1> QED  BY <1>1, <1>2, PTL DEF CallSpec

(* The reader hears one answer however often the provider is asked, and the *)
(* embeddings that embedBatch returns are those of the texts in their       *)
(* order, whatever the batches, the retries and the order of the answers.   *)
THEOREM AnswersFit == CallSpec => []ProviderAnswersFit
<1>1. CallInv => ProviderAnswersFit
  <2> SUFFICES ASSUME CallInv PROVE ProviderAnswersFit  OBVIOUS
  <2>1. said \subseteq {chat.attempt} /\ chat.attempt \in {0, 1}
    BY DEF CallInv, OneAttemptSpeaks, Call
  <2>2. OneAnswerIsHeard  BY <2>1 DEF OneAnswerIsHeard
  <2>3. EmbeddingsFitTexts  BY DEF CallInv, FirstTextsEmbedded, EmbeddingsFitTexts
  <2> QED  BY <2>2, <2>3 DEF ProviderAnswersFit
<1> QED  BY <1>1, CallInvariant, PTL

-----------------------------------------------------------------------------
(* BridgeSync: the inductive invariant                                     *)

WikiStatuses == {"draft", "published", "archived"}
PageText == [Blocks -> Texts]
Version == [no : Nat, status : WikiStatuses, text : PageText, run : Nat,
            source : {"graphify", "docmost"}, human : SUBSET Blocks, rev : Nat]
Event == [type : {"saved", "deleted"},
          status : {"sent", "received", "processing", "processed", "failed"},
          job : {"none", "waiting", "active", "done"}, tries : 0..3]
SyncPcs == {"idle", "coalesce", "supersede", "page", "export", "commit", "reindex"}
SyncSlot == [pc : SyncPcs, ev : Nat, older : SUBSET Nat, base : Nat, status : WikiStatuses,
             text : PageText, rev : Nat]
PushTask == [pc : {"idle", "build", "import", "merge"}, run : Nat, todo : SUBSET Nat, v : Nat,
             asked : BOOLEAN, text : PageText, seen : PageText, conflicts : BOOLEAN,
             failed : BOOLEAN]

PageCopy == [there : BOOLEAN, text : PageText, rev : Nat]
WikiRow == [status : WikiStatuses, current : Nat,
            sync : {"synced", "sync_pending", "reindex_pending", "conflict_required"},
            mapped : BOOLEAN]

BridgeTypes ==
    /\ docmost \in PageCopy
    /\ wiki \in WikiRow
    /\ wiki.current \in DOMAIN versions
    /\ versions \in Seq(Version)
    /\ event \in Seq(Event)
    /\ inbox \in Seq(Nat)
    /\ syncer \in [Syncers -> SyncSlot]
    /\ push \in [queue : SUBSET Nat, at : PushTask]
    /\ typed \in SUBSET Texts /\ IsFiniteSet(typed)

(* Version numbers count the versions, since each takes the number after    *)
(* that of the newest, or fails; texts are numbered as they are written.    *)
VersionsNumbered ==
    /\ \A v \in DOMAIN versions : versions[v].no = v
    /\ \A t \in typed : t < FreshText

(* Exports come later and later, and none is from the future.              *)
ExportsInOrder ==
    /\ \A v \in DOMAIN versions : versions[v].rev <= docmost.rev
    /\ \A u, v \in DOMAIN versions :
          u < v /\ versions[u].source = "docmost" /\ versions[v].source = "docmost"
              => versions[u].rev <= versions[v].rev

(* A slot holds its event, and its export is no older than the versions     *)
(* that were there when it read the page.                                   *)
Tried(e) == event[e].job = "done" \/ event[e].tries <= 2
SlotFits(w) ==
    syncer[w].pc # "idle" =>
        /\ syncer[w].ev \in DOMAIN event
        /\ event[syncer[w].ev].job = "active"
        /\ syncer[w].pc \in {"export", "commit"} => syncer[w].base \in DOMAIN versions
        /\ syncer[w].pc = "commit" =>
              /\ syncer[w].rev <= docmost.rev
              /\ \A v \in 1..syncer[w].base :
                    versions[v].source = "docmost" => versions[v].rev <= syncer[w].rev
SlotsApart ==
    \A w, x \in Syncers :
        w # x /\ syncer[w].pc # "idle" /\ syncer[x].pc # "idle" => syncer[w].ev # syncer[x].ev

(* What the push expects to replace is a text of a version, or stays.       *)
SeenIsKept(b) ==
    \/ push.at.text[b] = push.at.seen[b]
    \/ \E v \in DOMAIN versions : versions[v].text[b] = push.at.seen[b]
PushFits ==
    /\ push.at.todo \subseteq DOMAIN versions
    /\ push.at.pc \in {"import", "merge"} => push.at.v \in DOMAIN versions
    /\ push.at.pc = "import" => \A b \in Blocks : SeenIsKept(b)

BridgeInv ==
    /\ BridgeTypes
    /\ VersionsNumbered
    /\ ExportsInOrder
    /\ \A e \in DOMAIN event : Tried(e)
    /\ \A w \in Syncers : SlotFits(w)
    /\ SlotsApart
    /\ PushFits

-----------------------------------------------------------------------------
(* BridgeSync: the numbers of versions and texts *)

LEMMA DomainIs == ASSUME BridgeTypes PROVE DOMAIN versions = 1..Len(versions) /\ Len(versions) \in Nat
BY DEF BridgeTypes

LEMMA VersionFacts ==
    ASSUME BridgeTypes, NEW v \in DOMAIN versions
    PROVE  /\ versions[v] \in Version
           /\ versions[v].rev \in Nat /\ versions[v].no \in Nat /\ versions[v].text \in PageText
           /\ versions[v].human \subseteq Blocks /\ versions[v].status \in WikiStatuses
<1>1. versions[v] \in Version
  BY DomainIs, ElementOfSeq DEF BridgeTypes
<1> QED  BY <1>1 DEF Version

LEMMA LastIsLength ==
    ASSUME BridgeTypes, VersionsNumbered
    PROVE  LastNo = Len(versions)
<1> DEFINE S == {versions[v].no : v \in DOMAIN versions}
<1>1. S = 1..Len(versions) /\ Len(versions) \in Nat
  BY DomainIs DEF VersionsNumbered
<1>2. Len(versions) \in S
  <2>1. wiki.current \in 1..Len(versions)
    BY DomainIs DEF BridgeTypes
  <2> HIDE DEF S
  <2> QED  BY <1>1, <2>1
<1>3. LastNo = CHOOSE x \in S : \A y \in S : x >= y
  BY DEF LastNo, Max
<1> HIDE DEF S
<1> QED  BY <1>1, <1>2, <1>3

LEMMA PreviousIs ==
    ASSUME BridgeTypes, VersionsNumbered, NEW v \in DOMAIN versions
    PROVE  Previous(v) = 0 \/ Previous(v) \in DOMAIN versions
<1> DEFINE below == {u \in DOMAIN versions : versions[u].no < versions[v].no}
<1>1. CASE below = {}
  BY <1>1 DEF Previous
<1>2. CASE below # {}
  <2>1. v - 1 \in below /\ \A x \in below : x \in DOMAIN versions /\ versions[x].no <= versions[v - 1].no
    BY <1>2, DomainIs DEF VersionsNumbered
  <2>2. Previous(v) = CHOOSE u \in below : \A x \in below : versions[x].no <= versions[u].no
    BY <1>2 DEF Previous
  <2> HIDE DEF below
  <2>3. Previous(v) \in below
    BY <2>1, <2>2
  <2> QED  BY <2>1, <2>3
<1> QED  BY <1>1, <1>2

Generated == {v \in DOMAIN versions : versions[v].source = "graphify"}

FreshFacts ==
    /\ FreshText = Cardinality(typed) + Cardinality(Generated)
    /\ Cardinality(typed) \in Nat /\ Cardinality(Generated) \in Nat
    /\ IsFiniteSet(Generated) /\ FreshText \in Nat

LEMMA FreshIs == BridgeTypes => FreshFacts
<1> SUFFICES ASSUME BridgeTypes PROVE FreshFacts
  OBVIOUS
<1>1. IsFiniteSet(DOMAIN versions)
  BY DomainIs, FS_Interval
<1>2. IsFiniteSet(Generated)
  BY <1>1, FS_Subset DEF Generated
<1> QED  BY <1>2, FS_CardinalityType DEF FreshFacts, FreshText, Generated, BridgeTypes

LEMMA FreshIsNext == BridgeTypes' => FreshFacts'
BY FreshIs, PTL

(* Versions are added, and of those there are only the status changes.      *)
VersionsGrow ==
    /\ DOMAIN versions \subseteq DOMAIN versions'
    /\ \A v \in DOMAIN versions :
          /\ versions'[v].no = versions[v].no
          /\ versions'[v].text = versions[v].text
          /\ versions'[v].source = versions[v].source
          /\ versions'[v].rev = versions[v].rev

LEMMA FreshGrows ==
    ASSUME BridgeTypes, BridgeTypes', VersionsGrow, typed \subseteq typed'
    PROVE  /\ FreshText <= FreshText'
           /\ typed' # typed => FreshText < FreshText'
<1>1. Generated \subseteq Generated'
  BY DEF Generated, VersionsGrow
<1>2. Cardinality(Generated) <= Cardinality(Generated')
  <2>1. IsFiniteSet(Generated')
    BY FreshIsNext DEF FreshFacts
  <2> QED  BY <1>1, <2>1, FS_Subset
<1>3. /\ Cardinality(typed) <= Cardinality(typed')
      /\ typed' # typed => Cardinality(typed) < Cardinality(typed')
  BY FS_Subset, FS_CardinalityType DEF BridgeTypes
<1> QED  BY <1>2, <1>3, FreshIs, FreshIsNext DEF FreshFacts

LEMMA NumbersStay ==
    ASSUME BridgeTypes, BridgeTypes', VersionsNumbered, VersionsGrow,
           typed' = typed \/ typed' = typed \union {FreshText},
           \A v \in DOMAIN versions' : v \in DOMAIN versions \/ versions'[v].no = v
    PROVE  VersionsNumbered'
<1>1. FreshText \in Nat /\ FreshText' \in Nat
  BY FreshIs, FreshIsNext DEF FreshFacts
<1>2. FreshText \notin typed
  BY <1>1 DEF VersionsNumbered
<1>3. \A t \in typed : t \in Nat
  BY DEF BridgeTypes, Texts
<1>4. \A t \in typed' : t < FreshText'
  BY <1>1, <1>2, <1>3, FreshGrows DEF VersionsNumbered
<1> QED  BY <1>4 DEF VersionsNumbered, VersionsGrow

-----------------------------------------------------------------------------
(* BridgeSync: what a step leaves alone *)

LEMMA GrowsWhenSame == versions' = versions => VersionsGrow
BY DEF VersionsGrow

LEMMA OrderStays ==
    ASSUME BridgeTypes, ExportsInOrder, versions' = versions, docmost'.rev \in Nat,
           docmost.rev <= docmost'.rev
    PROVE  ExportsInOrder'
<1>1. \A v \in DOMAIN versions : versions[v].rev \in Nat
  BY VersionFacts
<1>2. docmost.rev \in Nat
  BY DEF BridgeTypes, WikiRow, PageCopy
<1> QED  BY <1>1, <1>2 DEF ExportsInOrder

LEMMA PushStays ==
    ASSUME PushFits, push'.at = push.at, VersionsGrow
    PROVE  PushFits'
BY DEF PushFits, VersionsGrow, SeenIsKept

(* Events that a slot has in hand stay so. *)
EventsStay(E) ==
    \A e \in E : e \in DOMAIN event' /\ (event[e].job = "active" => event'[e].job = "active")

LEMMA SlotStays ==
    ASSUME BridgeTypes, BridgeTypes', NEW w \in Syncers, SlotFits(w), syncer'[w] = syncer[w],
           VersionsGrow, docmost.rev <= docmost'.rev, EventsStay({syncer[w].ev} \intersect DOMAIN event)
    PROVE  SlotFits(w)'
<1> SUFFICES ASSUME syncer[w].pc # "idle" PROVE SlotFits(w)'
  BY DEF SlotFits
<1>1. /\ syncer[w].ev \in DOMAIN event'
      /\ event'[syncer[w].ev].job = "active"
  BY DEF SlotFits, EventsStay
<1>2. syncer[w].pc \in {"export", "commit"} => syncer[w].base \in DOMAIN versions'
  BY DEF SlotFits, VersionsGrow
<1>3. ASSUME syncer[w].pc = "commit"
      PROVE  /\ syncer[w].rev <= docmost'.rev
             /\ \A v \in 1..syncer[w].base :
                   versions'[v].source = "docmost" => versions'[v].rev <= syncer[w].rev
  <2>1. syncer[w].rev <= docmost.rev /\ syncer[w].rev \in Nat /\ docmost.rev \in Nat /\ docmost'.rev \in Nat
    BY <1>3 DEF SlotFits, BridgeTypes, SyncSlot, WikiRow, PageCopy
  <2>2. \A v \in 1..syncer[w].base : v \in DOMAIN versions
    BY <1>3, DomainIs DEF SlotFits
  <2> QED  BY <1>3, <2>1, <2>2 DEF SlotFits, VersionsGrow
<1> QED  BY <1>1, <1>2, <1>3 DEF SlotFits

LEMMA SlotsStay ==
    ASSUME BridgeInv, BridgeTypes', syncer' = syncer, VersionsGrow, docmost.rev <= docmost'.rev,
           EventsStay(DOMAIN event)
    PROVE  (\A w \in Syncers : SlotFits(w)') /\ SlotsApart'
<1>1. ASSUME NEW w \in Syncers PROVE SlotFits(w)'
  BY SlotStays DEF BridgeInv, EventsStay
<1> QED  BY <1>1 DEF BridgeInv, SlotsApart

(* A step of one slot: that slot holds no event, or its event or one that   *)
(* was waiting, and the events of the other slots stay as they are.         *)
LEMMA SlotStep ==
    ASSUME BridgeInv, BridgeTypes', NEW w \in Syncers, SlotFits(w)', VersionsGrow, docmost' = docmost,
           \A x \in Syncers \ {w} : syncer'[x] = syncer[x],
           \/ syncer'[w].pc = "idle"
           \/ syncer[w].pc # "idle" /\ syncer'[w].ev = syncer[w].ev
           \/ syncer'[w].ev \in DOMAIN event /\ event[syncer'[w].ev].job # "active",
           \A x \in Syncers \ {w} : syncer[x].pc # "idle" => EventsStay({syncer[x].ev})
    PROVE  (\A x \in Syncers : SlotFits(x)') /\ SlotsApart'
<1> USE DEF BridgeInv
<1>1. ASSUME NEW x \in Syncers \ {w} PROVE SlotFits(x)'
  <2>1. CASE syncer[x].pc = "idle"
    BY <2>1 DEF SlotFits
  <2>2. CASE syncer[x].pc # "idle"
    <3>1. docmost.rev <= docmost'.rev
      BY DEF BridgeTypes, WikiRow, PageCopy
    <3> QED  BY <2>2, <3>1, SlotStays DEF EventsStay
  <2> QED  BY <2>1, <2>2
<1>2. \A x \in Syncers \ {w} : syncer[x].pc # "idle" => event[syncer[x].ev].job = "active"
  BY DEF SlotFits
<1>3. SlotsApart'
  BY <1>2 DEF SlotsApart
<1> QED  BY <1>1, <1>3

(* A step of the push. *)
LEMMA PushStep1 ==
    ASSUME BridgeInv, BridgeTypes', PushFits', docmost.rev <= docmost'.rev,
           UNCHANGED <<versions, event, inbox, syncer, typed>>
    PROVE  BridgeInv'
<1> USE DEF BridgeInv
<1>1. VersionsGrow
  BY GrowsWhenSame
<1>2. VersionsNumbered'
  BY <1>1, NumbersStay
<1>3. ExportsInOrder'
  BY OrderStays DEF BridgeTypes, WikiRow, PageCopy
<1>4. (\A w \in Syncers : SlotFits(w)') /\ SlotsApart'
  BY <1>1, SlotsStay DEF EventsStay
<1> QED  BY <1>2, <1>3, <1>4 DEF Tried

-----------------------------------------------------------------------------
(* BridgeSync: the push keeps the invariant *)

(* What a step of the push writes is well typed. *)
Pushed(at) ==
    /\ PushGoes(at) /\ at \in PushTask
    /\ UNCHANGED <<versions, event, inbox, syncer, typed>>
    /\ docmost' \in PageCopy /\ docmost.rev <= docmost'.rev
    /\ wiki' \in WikiRow
    /\ wiki'.current = wiki.current

LEMMA PushedKeeps ==
    ASSUME BridgeInv, NEW at, Pushed(at),
           at.todo \subseteq DOMAIN versions,
           at.pc \in {"import", "merge"} => at.v \in DOMAIN versions,
           at.pc = "import" => \A b \in Blocks : \/ at.text[b] = at.seen[b]
                                                \/ \E v \in DOMAIN versions : versions[v].text[b] = at.seen[b]
    PROVE  BridgeInv'
<1> USE DEF BridgeInv, Pushed
<1>1. push'.at = at /\ push' \in [queue : SUBSET Nat, at : PushTask]
  BY DEF PushGoes, BridgeTypes
<1>2. BridgeTypes'
  BY <1>1 DEF BridgeTypes
<1>3. PushFits'
  BY <1>1 DEF PushFits, SeenIsKept
<1> QED  BY <1>2, <1>3, PushStep1

LEMMA PushTyped ==
    ASSUME BridgeInv
    PROVE  /\ push.at \in PushTask /\ push.at.todo \subseteq DOMAIN versions
           /\ push.at.pc \in {"import", "merge"} => push.at.v \in DOMAIN versions
           /\ wiki \in WikiRow
           /\ docmost \in PageCopy
BY DEF BridgeInv, BridgeTypes, PushFits

(* The page is finished, and the next is built. *)
LEMMA NextTyped ==
    ASSUME BridgeInv, NEW failed \in BOOLEAN, NEW at, at = PushNext(failed)
    PROVE  /\ at \in PushTask /\ at.pc = "build"
           /\ at.todo = push.at.todo
<1>1. push.at \in PushTask
  BY PushTyped
<1> DEFINE a == [push.at EXCEPT !.pc = "build"]
           b == [a EXCEPT !.failed = push.at.failed \/ failed]
<1>2. at = [b EXCEPT !.conflicts = FALSE]
  BY DEF PushNext
<1>3. a \in PushTask /\ a.pc = "build" /\ a.todo = push.at.todo
  BY <1>1 DEF PushTask
<1> HIDE DEF a
<1>4. b \in PushTask /\ b.pc = "build" /\ b.todo = push.at.todo
  BY <1>1, <1>3 DEF PushTask
<1> HIDE DEF b
<1> QED  BY <1>2, <1>4 DEF PushTask

LEMMA PushAcceptedKeeps ==
    ASSUME BridgeInv, PushAccepted
    PROVE  BridgeInv'
<1>0. PICK at : at = PushNext(FALSE)
  OBVIOUS
<1>1. at \in PushTask /\ at.pc = "build" /\ at.todo = push.at.todo
  BY <1>0, NextTyped
<1>2. docmost' \in PageCopy /\ docmost.rev <= docmost'.rev
  BY PushTyped DEF PushAccepted, PushTask, WikiRow, PageCopy
<1>3. /\ wiki' \in WikiRow
      /\ wiki'.current = wiki.current
  BY PushTyped DEF PushAccepted, WikiRow, PageCopy
<1>4. Pushed(at)
  BY <1>0, <1>1, <1>2, <1>3 DEF Pushed, PushAccepted
<1> QED  BY <1>1, <1>4, PushTyped, PushedKeeps

LEMMA WriteBackFailsKeeps ==
    ASSUME BridgeInv, WriteBackFails
    PROVE  BridgeInv'
<1>0. PICK at : at = PushNext(TRUE)
  OBVIOUS
<1>1. at \in PushTask /\ at.pc = "build" /\ at.todo = push.at.todo
  BY <1>0, NextTyped
<1>2. docmost' \in PageCopy /\ docmost.rev <= docmost'.rev
  BY PushTyped DEF WriteBackFails, PushTask, WikiRow, PageCopy
<1>3. /\ wiki' \in WikiRow
      /\ wiki'.current = wiki.current
  BY PushTyped DEF WriteBackFails, WikiRow, PageCopy
<1>4. Pushed(at)
  BY <1>0, <1>1, <1>2, <1>3 DEF Pushed, WriteBackFails
<1> QED  BY <1>1, <1>4, PushTyped, PushedKeeps

LEMMA PushFailsKeeps ==
    ASSUME BridgeInv, PushFails
    PROVE  BridgeInv'
<1>0. PICK at : at = PushNext(TRUE)
  OBVIOUS
<1>1. at \in PushTask /\ at.pc = "build" /\ at.todo = push.at.todo
  BY <1>0, NextTyped
<1>3. /\ wiki' \in WikiRow
      /\ wiki'.current = wiki.current
      /\ docmost' = docmost /\ docmost.rev \in Nat
  BY PushTyped DEF PushFails, WikiRow, PageCopy
<1>4. /\ PushGoes(at) /\ UNCHANGED <<versions, event, inbox, syncer, typed>>
      /\ docmost' \in PageCopy /\ docmost.rev <= docmost'.rev
  <2>1. PushGoes(at) /\ UNCHANGED <<docmost, versions, event, inbox, syncer, typed>>
    BY <1>0 DEF PushFails
  <2> QED  BY <1>3, <2>1, PushTyped
<1>5. Pushed(at)
  BY <1>1, <1>3, <1>4 DEF Pushed
<1> QED  BY <1>1, <1>5, PushTyped, PushedKeeps

LEMMA PushRefusedKeeps ==
    ASSUME BridgeInv, PushRefused
    PROVE  BridgeInv'
<1>0. PICK at : at = [push.at EXCEPT !.pc = "merge"]
  OBVIOUS
<1>1. /\ at \in PushTask /\ at.pc = "merge" /\ at.todo = push.at.todo /\ at.v = push.at.v
      /\ push.at.pc = "import"
  BY <1>0, PushTyped DEF PushTask, PushRefused, PushAt
<1>2. Pushed(at)
  BY <1>0, <1>1, PushTyped DEF Pushed, PushRefused, WikiRow, PageCopy
<1> QED  BY <1>1, <1>2, PushTyped, PushedKeeps

LEMMA IdleTask == NoPush \in PushTask /\ NoPush.pc = "idle" /\ NoPush.todo = {}
BY DEF NoPush, PushTask, PageText, Gone, Texts

LEMMA PushEndsKeeps ==
    ASSUME BridgeInv, PushEnds
    PROVE  BridgeInv'
<1>1. Pushed(NoPush)
  BY IdleTask, PushTyped DEF Pushed, PushEnds, WikiRow, PageCopy
<1> QED  BY <1>1, IdleTask, PushedKeeps

(* The run's versions are to be pushed. *)
LEMMA PushTakesKeeps ==
    ASSUME BridgeInv, NEW r \in push.queue, PushTakes(r)
    PROVE  BridgeInv'
<1> USE DEF BridgeInv
<1>0. PICK todo \in SUBSET DOMAIN versions :
         push' = [queue |-> push.queue \ {r},
                  at |-> [NoPush EXCEPT !.pc = "build", !.run = r, !.todo = todo]]
  BY DEF PushTakes
<1>1. r \in Nat /\ todo \in SUBSET Nat /\ push.queue \in SUBSET Nat
  BY DomainIs DEF BridgeTypes
<1>2. /\ push'.at = [pc |-> "build", run |-> r, todo |-> todo, v |-> 0, asked |-> FALSE,
                     text |-> Gone, seen |-> Gone, conflicts |-> FALSE, failed |-> FALSE]
      /\ push' = [queue |-> push.queue \ {r}, at |-> push'.at]
  BY <1>0 DEF NoPush
<1>3. push' \in [queue : SUBSET Nat, at : PushTask]
  <2>1. PICK at : at = push'.at /\ push' = [queue |-> push.queue \ {r}, at |-> at]
    BY <1>2
  <2>2. at \in PushTask
    BY <1>1, <1>2, <2>1 DEF PushTask, PageText, Gone, Texts
  <2> QED  BY <1>1, <2>1, <2>2
<1>4. push'.at.pc = "build" /\ push'.at.todo = todo
  BY <1>2
<1>5. BridgeTypes'
  BY <1>3 DEF BridgeTypes, PushTakes
<1>6. PushFits'
  BY <1>4 DEF PushFits, PushTakes
<1> QED  BY <1>5, <1>6, PushStep1 DEF PushTakes, BridgeTypes, WikiRow, PageCopy

(* A proposal changes the status of the page only. *)
LEMMA ProposeTyped ==
    ASSUME BridgeInv, NEW conflicts, Propose(conflicts)
    PROVE  /\ wiki' \in WikiRow
           /\ wiki'.current = wiki.current
BY PushTyped DEF Propose, WikiRow, PageCopy

(* What is built holds the text to replace, where a person has it.          *)
LEMMA BuiltTyped ==
    ASSUME NEW gen, gen.text \in PageText, NEW human, NEW hold \in PageText
    PROVE  BuiltText(gen, human, hold) \in PageText
BY DEF BuiltText, PageText, Texts

LEMMA PushBuildsKeeps ==
    ASSUME BridgeInv, NEW v \in push.at.todo, PushBuilds(v)
    PROVE  BridgeInv'
<1> DEFINE prev == Previous(v)
           hold == IF prev = 0 THEN versions[v].text ELSE versions[prev].text
           text == BuiltText(versions[v], versions[v].human, hold)
<1>1. v \in DOMAIN versions /\ v \in Nat
  BY PushTyped, DomainIs DEF BridgeInv
<1>2. prev = 0 \/ prev \in DOMAIN versions
  BY <1>1, PreviousIs DEF BridgeInv
<1>3. PICK u \in DOMAIN versions : hold = versions[u].text
  BY <1>1, <1>2
<1>4. hold \in PageText /\ text \in PageText
  BY <1>1, <1>3, VersionFacts, BuiltTyped DEF BridgeInv
<1>5. PICK pc, conflicts, at :
         /\ pc \in {"build", "import"} /\ conflicts \in BOOLEAN
         /\ at = [push.at EXCEPT !.pc = pc, !.todo = @ \ {v}, !.v = v, !.asked = FALSE,
                                 !.text = text, !.seen = hold, !.conflicts = conflicts]
         /\ PushGoes(at) /\ UNCHANGED <<docmost, versions, event, inbox, syncer, typed>>
  BY DEF PushBuilds
<1>6. PICK c : Propose(c)
  BY DEF PushBuilds
<1> HIDE DEF prev, hold, text
<1>7. /\ at = [pc |-> pc, run |-> push.at.run, todo |-> push.at.todo \ {v}, v |-> v, asked |-> FALSE,
               text |-> text, seen |-> hold, conflicts |-> conflicts, failed |-> push.at.failed]
      /\ at \in PushTask
  BY <1>1, <1>4, <1>5, PushTyped DEF PushTask
<1>8. Pushed(at)
  BY <1>5, <1>6, <1>7, ProposeTyped, PushTyped DEF Pushed, WikiRow, PageCopy
<1>9. \A b \in Blocks : \E x \in DOMAIN versions : versions[x].text[b] = at.seen[b]
  BY <1>3, <1>7
<1> QED  BY <1>1, <1>7, <1>8, <1>9, PushTyped, PushedKeeps

(* After a refusal every block is taken for a person's: the import leaves   *)
(* the texts that it has seen.                                              *)
LEMMA PushMergesKeeps ==
    ASSUME BridgeInv, PushMerges
    PROVE  BridgeInv'
<1> DEFINE text == BuiltText(versions[push.at.v], MergedHuman, docmost.text)
<1>1. push.at.v \in DOMAIN versions /\ docmost.text \in PageText
  BY PushTyped DEF PushMerges, PushAt, WikiRow, PageCopy
<1>2. text \in PageText /\ \A b \in Blocks : text[b] = docmost.text[b]
  BY <1>1, VersionFacts, BuiltTyped DEF BridgeInv, BuiltText, MergedHuman
<1>3. PICK conflicts : /\ conflicts \in BOOLEAN
                       /\ PushGoes([push.at EXCEPT !.pc = "import", !.asked = TRUE,
                                      !.seen = docmost.text, !.text = text, !.conflicts = conflicts])
  <2>1. PICK c : PushGoes([push.at EXCEPT !.pc = "import", !.asked = TRUE, !.seen = docmost.text,
                             !.text = text, !.conflicts = push.at.conflicts \/ c # {}])
    BY DEF PushMerges
  <2>2. (push.at.conflicts \/ c # {}) \in BOOLEAN
    OBVIOUS
  <2> HIDE DEF text
  <2> QED  BY <2>1, <2>2
<1>4. PICK c : Propose(c)
  BY DEF PushMerges
<1>7. UNCHANGED <<docmost, versions, event, inbox, syncer, typed>>
  BY DEF PushMerges
<1> HIDE DEF text
<1>8. PICK at : at = [push.at EXCEPT !.pc = "import", !.asked = TRUE, !.seen = docmost.text,
                                     !.text = text, !.conflicts = conflicts]
  OBVIOUS
<1>9. PushGoes(at)
  BY <1>3, <1>8
<1>5. /\ at = [pc |-> "import", run |-> push.at.run, todo |-> push.at.todo, v |-> push.at.v,
               asked |-> TRUE, text |-> text, seen |-> docmost.text, conflicts |-> conflicts,
               failed |-> push.at.failed]
      /\ at \in PushTask
  BY <1>1, <1>2, <1>3, <1>8, PushTyped DEF PushTask
<1>6. Pushed(at)
  BY <1>4, <1>5, <1>7, <1>9, ProposeTyped, PushTyped DEF Pushed, WikiRow, PageCopy
<1> QED  BY <1>1, <1>2, <1>5, <1>6, PushTyped, PushedKeeps

-----------------------------------------------------------------------------
(* BridgeSync: events *)

LEMMA EventFacts ==
    ASSUME BridgeTypes
    PROVE  /\ DOMAIN event = 1..Len(event) /\ Len(event) \in Nat
           /\ \A e \in DOMAIN event : event[e] \in Event
BY ElementOfSeq DEF BridgeTypes

EventIs(x, status, job, tries) ==
    [type |-> x.type, status |-> status, job |-> job, tries |-> tries]

LEMMA EventExcept ==
    ASSUME NEW x \in Event
    PROVE  /\ \A s : [x EXCEPT !.status = s] = EventIs(x, s, x.job, x.tries)
           /\ \A j : [x EXCEPT !.job = j] = EventIs(x, x.status, j, x.tries)
           /\ \A s, j : [x EXCEPT !.status = s, !.job = j] = EventIs(x, s, j, x.tries)
           /\ \A s, j : [x EXCEPT !.job = j, !.status = s] = EventIs(x, s, j, x.tries)
           /\ \A s, j, t : [x EXCEPT !.status = s, !.tries = t, !.job = j] = EventIs(x, s, j, t)
<1>1. x = [type |-> x.type, status |-> x.status, job |-> x.job, tries |-> x.tries]
  BY DEF Event
<1>2. PICK ty, st, jb, tr : x = [type |-> ty, status |-> st, job |-> jb, tries |-> tr]
  BY <1>1
<1>3. x.type = ty /\ x.status = st /\ x.job = jb /\ x.tries = tr
  BY <1>2
<1>4. \A s : [x EXCEPT !.status = s] = EventIs(x, s, x.job, x.tries)
  BY <1>2 DEF EventIs
<1>5. \A j : [x EXCEPT !.job = j] = EventIs(x, x.status, j, x.tries)
  BY <1>2 DEF EventIs
<1>6. ASSUME NEW s, NEW j PROVE [x EXCEPT !.status = s, !.job = j] = EventIs(x, s, j, x.tries)
  <2>1. PICK y : y = [x EXCEPT !.status = s]
    OBVIOUS
  <2>2. y = [type |-> ty, status |-> s, job |-> jb, tries |-> tr]
    BY <1>2, <2>1
  <2>3. [x EXCEPT !.status = s, !.job = j] = [y EXCEPT !.job = j]
    BY <2>1
  <2> QED  BY <1>3, <2>2, <2>3 DEF EventIs
<1>7. ASSUME NEW s, NEW j PROVE [x EXCEPT !.job = j, !.status = s] = EventIs(x, s, j, x.tries)
  <2>1. PICK y : y = [x EXCEPT !.job = j]
    OBVIOUS
  <2>2. y = [type |-> ty, status |-> st, job |-> j, tries |-> tr]
    BY <1>2, <2>1
  <2>3. [x EXCEPT !.job = j, !.status = s] = [y EXCEPT !.status = s]
    BY <2>1
  <2> QED  BY <1>3, <2>2, <2>3 DEF EventIs
<1>8. ASSUME NEW s, NEW j, NEW t PROVE [x EXCEPT !.status = s, !.tries = t, !.job = j] = EventIs(x, s, j, t)
  <2>1. PICK y : y = [x EXCEPT !.status = s]
    OBVIOUS
  <2>2. y = [type |-> ty, status |-> s, job |-> jb, tries |-> tr]
    BY <1>2, <2>1
  <2>3. PICK z : z = [y EXCEPT !.tries = t]
    OBVIOUS
  <2>4. z = [type |-> ty, status |-> s, job |-> jb, tries |-> t]
    BY <2>2, <2>3
  <2>5. [x EXCEPT !.status = s, !.tries = t, !.job = j] = [z EXCEPT !.job = j]
    BY <2>1, <2>3
  <2> QED  BY <1>3, <2>4, <2>5 DEF EventIs
<1> QED  BY <1>4, <1>5, <1>6, <1>7, <1>8

LEMMA AtExcept ==
    ASSUME NEW f, NEW e \in DOMAIN f
    PROVE  /\ \A s : [f EXCEPT ![e].status = s] = [f EXCEPT ![e] = [f[e] EXCEPT !.status = s]]
           /\ \A j : [f EXCEPT ![e].job = j] = [f EXCEPT ![e] = [f[e] EXCEPT !.job = j]]
           /\ \A s, j : [f EXCEPT ![e].status = s, ![e].job = j]
                          = [f EXCEPT ![e] = [f[e] EXCEPT !.status = s, !.job = j]]
OBVIOUS

(* Event e gets a status, its job a state, and counts its tries.            *)
Marks(e, status, job, tries) ==
    event' = [event EXCEPT ![e] = EventIs(event[e], status, job, tries)]

EventStatuses == {"sent", "received", "processing", "processed", "failed"}
EventJobs == {"none", "waiting", "active", "done"}

LEMMA MarksFacts ==
    ASSUME BridgeTypes, NEW e \in DOMAIN event, NEW status \in EventStatuses, NEW job \in EventJobs,
           NEW tries \in 0..3, Marks(e, status, job, tries)
    PROVE  /\ event' \in Seq(Event) /\ DOMAIN event' = DOMAIN event
           /\ event'[e].job = job /\ event'[e].tries = tries
           /\ \A k \in DOMAIN event : k # e => event'[k] = event[k]
<1> DEFINE ev == EventIs(event[e], status, job, tries)
<1>1. ev \in Event
  BY EventFacts DEF Event, EventStatuses, EventJobs, EventIs
<1>2. event' = [event EXCEPT ![e] = ev]
  BY DEF Marks
<1>3. ev.job = job /\ ev.tries = tries
  BY DEF EventIs
<1> HIDE DEF ev
<1>4. event' \in Seq(Event) /\ Len(event') = Len(event)
  BY <1>1, <1>2, EventFacts, ExceptSeq DEF BridgeTypes
<1> QED  BY <1>2, <1>3, <1>4, EventFacts

LEMMA TriedAfter ==
    ASSUME BridgeInv, NEW e \in DOMAIN event, DOMAIN event' = DOMAIN event, Tried(e)',
           \A k \in DOMAIN event : k # e => event'[k] = event[k]
    PROVE  \A k \in DOMAIN event' : Tried(k)'
BY DEF BridgeInv, Tried

(* A step outside the two processors. *)
LEMMA OutsideStep ==
    ASSUME BridgeInv, BridgeTypes', VersionsGrow, VersionsNumbered', ExportsInOrder',
           docmost.rev <= docmost'.rev, push'.at = push.at, syncer' = syncer,
           EventsStay(DOMAIN event), \A e \in DOMAIN event' : Tried(e)'
    PROVE  BridgeInv'
<1> USE DEF BridgeInv
<1>1. (\A w \in Syncers : SlotFits(w)') /\ SlotsApart'
  BY SlotsStay
<1>2. PushFits'
  <2>1. PushFits
    OBVIOUS
  <2> QED  BY <2>1, PushStays
<1> QED  BY <1>1, <1>2

LEMMA SentEvent ==
    ASSUME BridgeInv, NEW type \in {"saved", "deleted"},
           event' = Append(event, [type |-> type, status |-> "sent", job |-> "none", tries |-> 0])
    PROVE  /\ event' \in Seq(Event)
           /\ EventsStay(DOMAIN event)
           /\ \A e \in DOMAIN event' : Tried(e)'
<1> USE DEF BridgeInv
<1> DEFINE ev == [type |-> type, status |-> "sent", job |-> "none", tries |-> 0]
<1>1. ev \in Event /\ ev.tries = 0
  BY DEF Event
<1>2. event \in Seq(Event) /\ event' = Append(event, ev)
  BY DEF BridgeTypes
<1> HIDE DEF ev
<1>3. /\ event' \in Seq(Event) /\ Len(event') = Len(event) + 1
      /\ \A e \in DOMAIN event : event'[e] = event[e]
      /\ event'[Len(event) + 1] = ev
  BY <1>1, <1>2, AppendProperties, EventFacts
<1>4. DOMAIN event' = DOMAIN event \union {Len(event) + 1}
  BY <1>3, EventFacts
<1> QED  BY <1>1, <1>3, <1>4 DEF EventsStay, Tried

LEMMA SaveKeeps ==
    ASSUME BridgeInv, NEW b \in Blocks, Save(b)
    PROVE  BridgeInv'
<1> USE DEF BridgeInv
<1>1. event' \in Seq(Event) /\ EventsStay(DOMAIN event) /\ \A e \in DOMAIN event' : Tried(e)'
  BY SentEvent DEF Save
<1>2. FreshText \in Nat
  BY FreshIs DEF FreshFacts
<1>3. /\ docmost' \in PageCopy /\ docmost.rev <= docmost'.rev
      /\ docmost'.rev \in Nat
  <2>1. [docmost.text EXCEPT ![b] = FreshText] \in PageText
    BY <1>2 DEF BridgeTypes, PageText, Texts, WikiRow, PageCopy
  <2>2. docmost' = [there |-> docmost.there, text |-> [docmost.text EXCEPT ![b] = FreshText],
                    rev |-> docmost.rev + 1]
    BY DEF Save, BridgeTypes, WikiRow, PageCopy
  <2> QED  BY <2>1, <2>2 DEF BridgeTypes, WikiRow, PageCopy
<1>4. typed' \in SUBSET Texts /\ IsFiniteSet(typed')
  BY <1>2, FS_AddElement DEF Save, BridgeTypes, Texts
<1>5. BridgeTypes'
  BY <1>1, <1>3, <1>4 DEF BridgeTypes, Save
<1>6. VersionsGrow
  BY GrowsWhenSame DEF Save
<1>7. VersionsNumbered'
  BY <1>5, <1>6, NumbersStay DEF Save
<1>8. ExportsInOrder'
  BY <1>3, OrderStays DEF Save
<1> QED  BY <1>1, <1>3, <1>5, <1>6, <1>7, <1>8, OutsideStep DEF Save

LEMMA DeletePageKeeps ==
    ASSUME BridgeInv, DeletePage
    PROVE  BridgeInv'
<1> USE DEF BridgeInv
<1>1. event' \in Seq(Event) /\ EventsStay(DOMAIN event) /\ \A e \in DOMAIN event' : Tried(e)'
  BY SentEvent DEF DeletePage
<1>3. /\ docmost' \in PageCopy /\ docmost.rev <= docmost'.rev
      /\ docmost'.rev \in Nat
  <2>2. docmost' = [there |-> FALSE, text |-> docmost.text, rev |-> docmost.rev + 1]
    BY DEF DeletePage, BridgeTypes, WikiRow, PageCopy
  <2> QED  BY <2>2 DEF BridgeTypes, WikiRow, PageCopy
<1>5. BridgeTypes'
  BY <1>1, <1>3 DEF BridgeTypes, DeletePage
<1>6. VersionsGrow
  BY GrowsWhenSame DEF DeletePage
<1>7. VersionsNumbered'
  BY <1>5, <1>6, NumbersStay DEF DeletePage
<1>8. ExportsInOrder'
  BY <1>3, OrderStays DEF DeletePage
<1> QED  BY <1>1, <1>3, <1>5, <1>6, <1>7, <1>8, OutsideStep DEF DeletePage

(* One event is marked; what it says of a job in hand stays.                *)
LEMMA MarkKeeps ==
    ASSUME BridgeInv, NEW e \in DOMAIN event, NEW status \in EventStatuses, NEW job \in EventJobs,
           Marks(e, status, job, event[e].tries), event[e].job \in {"active", "done"} => job = event[e].job,
           inbox' \in Seq(Nat), UNCHANGED <<docmost, wiki, versions, syncer, push, typed>>
    PROVE  BridgeInv'
<1> USE DEF BridgeInv
<1>1. /\ event[e].tries \in 0..3 /\ event[e].job \in EventJobs /\ Tried(e)
  BY EventFacts DEF Event, EventJobs
<1>2. /\ event' \in Seq(Event) /\ DOMAIN event' = DOMAIN event
      /\ event'[e].job = job /\ event'[e].tries = event[e].tries
      /\ \A k \in DOMAIN event : k # e => event'[k] = event[k]
  BY <1>1, MarksFacts
<1>3. BridgeTypes'
  BY <1>2 DEF BridgeTypes
<1>4. VersionsGrow
  BY GrowsWhenSame
<1>5. VersionsNumbered'
  BY <1>3, <1>4, NumbersStay
<1>6. docmost.rev <= docmost'.rev /\ docmost'.rev \in Nat
  BY DEF BridgeTypes, WikiRow, PageCopy
<1>7. ExportsInOrder'
  BY <1>6, OrderStays
<1>8. \A k \in DOMAIN event' : Tried(k)'
  BY <1>1, <1>2, TriedAfter DEF Tried, EventJobs
<1>9. EventsStay(DOMAIN event)
  BY <1>2 DEF EventsStay
<1> QED  BY <1>3, <1>4, <1>5, <1>6, <1>7, <1>8, <1>9, OutsideStep

(* BullMQ takes a job id once: what is queued again stays as it is.         *)
LEMMA ReceiveEventKeeps ==
    ASSUME BridgeInv, NEW e \in DOMAIN event, ReceiveEvent(e)
    PROVE  BridgeInv'
<1>1. event[e] \in Event /\ inbox \in Seq(Nat) /\ e \in Nat
  BY EventFacts DEF BridgeInv, BridgeTypes
<1>2. inbox' \in Seq(Nat)
  BY <1>1, AppendProperties DEF ReceiveEvent
<1>3. PICK job \in EventJobs :
         /\ Marks(e, "received", job, event[e].tries)
         /\ event[e].job \in {"active", "done"} => job = event[e].job
  <2>1. CASE event' = [event EXCEPT ![e] = [Enqueued(e) EXCEPT !.status = "received"]]
    <3> DEFINE job == IF event[e].job = "none" THEN "waiting" ELSE event[e].job
    <3>1. Enqueued(e) = [event[e] EXCEPT !.job = job]
      BY DEF Enqueued
    <3> HIDE DEF job
    <3>2. [Enqueued(e) EXCEPT !.status = "received"] = EventIs(event[e], "received", job, event[e].tries)
      <4>1. [Enqueued(e) EXCEPT !.status = "received"] = [event[e] EXCEPT !.job = job, !.status = "received"]
        BY <3>1
      <4> QED  BY <1>1, <4>1, EventExcept
    <3>3. Marks(e, "received", job, event[e].tries)
      BY <2>1, <3>2 DEF Marks
    <3> QED  BY <1>1, <3>3 DEF Event, EventJobs, job
  <2>2. CASE event' = [event EXCEPT ![e].status = "received"]
    <3>1. Marks(e, "received", event[e].job, event[e].tries)
      BY <1>1, <2>2, EventExcept, AtExcept DEF Marks
    <3> QED  BY <1>1, <3>1 DEF Event, EventJobs
  <2> QED  BY <2>1, <2>2 DEF ReceiveEvent
<1> QED  BY <1>2, <1>3, MarkKeeps DEF ReceiveEvent, EventStatuses

LEMMA ReceiveDuplicateKeeps ==
    ASSUME BridgeInv, NEW e \in DOMAIN event, ReceiveDuplicate(e)
    PROVE  BridgeInv'
<1>1. event[e] \in Event /\ inbox \in Seq(Nat)
  BY EventFacts DEF BridgeInv, BridgeTypes
<1>2. Marks(e, event[e].status, "waiting", event[e].tries)
  <2>1. Enqueued(e) = [event[e] EXCEPT !.job = "waiting"]
    BY DEF ReceiveDuplicate, Enqueued
  <2>2. Enqueued(e) = EventIs(event[e], event[e].status, "waiting", event[e].tries)
    BY <1>1, <2>1, EventExcept
  <2> QED  BY <2>2 DEF ReceiveDuplicate, Marks
<1> QED  BY <1>1, <1>2, MarkKeeps DEF ReceiveDuplicate, Event, EventStatuses, EventJobs

-----------------------------------------------------------------------------
(* BridgeSync: versions written by a run or published *)

LEMMA AppendVersion ==
    ASSUME BridgeTypes, NEW x \in Version, versions' = Append(versions, x)
    PROVE  /\ versions' \in Seq(Version)
           /\ Len(versions) + 1 \notin DOMAIN versions
           /\ DOMAIN versions' = DOMAIN versions \union {Len(versions) + 1}
           /\ versions'[Len(versions) + 1] = x
           /\ \A v \in DOMAIN versions : versions'[v] = versions[v]
           /\ VersionsGrow
<1>1. versions \in Seq(Version)
  BY DEF BridgeTypes
<1>2. /\ versions' \in Seq(Version) /\ Len(versions') = Len(versions) + 1
      /\ versions'[Len(versions) + 1] = x
      /\ \A v \in 1..Len(versions) : versions'[v] = versions[v]
  BY <1>1, AppendProperties
<1>3. DOMAIN versions = 1..Len(versions) /\ DOMAIN versions' = 1..Len(versions') /\ Len(versions) \in Nat
  BY <1>1, <1>2
<1> QED  BY <1>2, <1>3 DEF VersionsGrow

(* A version that is not exported from Docmost, or that is exported later   *)
(* than all that were, keeps the order.                                     *)
LEMMA AppendKeepsOrder ==
    ASSUME BridgeInv, NEW x \in Version, versions' = Append(versions, x), docmost' = docmost,
           x.rev <= docmost.rev,
           x.source = "docmost" =>
               \A v \in DOMAIN versions : versions[v].source = "docmost" => versions[v].rev <= x.rev
    PROVE  ExportsInOrder'
<1> USE DEF BridgeInv
<1>1. /\ Len(versions) + 1 \notin DOMAIN versions /\ Len(versions) \in Nat
      /\ DOMAIN versions = 1..Len(versions)
      /\ DOMAIN versions' = DOMAIN versions \union {Len(versions) + 1}
      /\ versions'[Len(versions) + 1] = x
      /\ \A v \in DOMAIN versions : versions'[v] = versions[v]
  BY AppendVersion, DomainIs
<1>2. \A v \in DOMAIN versions' : versions'[v].rev <= docmost'.rev
  BY <1>1 DEF ExportsInOrder
<1>3. ASSUME NEW u \in DOMAIN versions', NEW v \in DOMAIN versions', u < v,
             versions'[u].source = "docmost", versions'[v].source = "docmost"
      PROVE  versions'[u].rev <= versions'[v].rev
  <2>1. u \in DOMAIN versions
    BY <1>1, <1>3
  <2>2. CASE v \in DOMAIN versions
    BY <1>1, <1>3, <2>1, <2>2 DEF ExportsInOrder
  <2>3. CASE v = Len(versions) + 1
    BY <1>1, <1>3, <2>1, <2>3
  <2> QED  BY <1>1, <2>2, <2>3
<1> QED  BY <1>2, <1>3 DEF ExportsInOrder

LEMMA RunCompletesKeeps ==
    ASSUME BridgeInv, RunCompletes
    PROVE  BridgeInv'
<1> USE DEF BridgeInv
<1>1. PICK r \in 1..MaxRuns :
         /\ versions' = Append(versions,
               [no |-> LastNo + 1, status |-> "published", run |-> r,
                text |-> [b \in Blocks |-> FreshText], source |-> "graphify", human |-> {}, rev |-> 0])
         /\ push' = [push EXCEPT !.queue = @ \cup {r}]
  BY DEF RunCompletes
<1> DEFINE x == [no |-> LastNo + 1, status |-> "published", run |-> r,
                 text |-> [b \in Blocks |-> FreshText], source |-> "graphify", human |-> {}, rev |-> 0]
<1>2. LastNo = Len(versions) /\ Len(versions) \in Nat /\ FreshText \in Nat /\ r \in Nat
  BY LastIsLength, DomainIs, FreshIs DEF FreshFacts
<1>3. x \in Version /\ x.no = Len(versions) + 1 /\ x.rev = 0 /\ x.source = "graphify"
  BY <1>2 DEF Version, WikiStatuses, PageText, Texts
<1>4. versions' = Append(versions, x)
  BY <1>1
<1> HIDE DEF x
<1>5. /\ versions' \in Seq(Version)
      /\ DOMAIN versions' = DOMAIN versions \union {Len(versions) + 1}
      /\ versions'[Len(versions) + 1] = x
      /\ VersionsGrow
  BY <1>3, <1>4, AppendVersion
<1>6. wiki' \in WikiRow /\ wiki'.current \in DOMAIN versions'
  <2>1. wiki' = [wiki EXCEPT !.status = "published", !.current = Len(versions) + 1]
    BY DEF RunCompletes
  <2>2. wiki' = [status |-> "published", current |-> Len(versions) + 1, sync |-> wiki.sync,
                 mapped |-> wiki.mapped]
    BY <2>1 DEF BridgeTypes, WikiRow
  <2> QED  BY <1>2, <1>5, <2>2 DEF BridgeTypes, WikiRow, WikiStatuses
<1>7. push' \in [queue : SUBSET Nat, at : PushTask] /\ push'.at = push.at
  BY <1>1, <1>2 DEF BridgeTypes
<1>8. BridgeTypes'
  BY <1>5, <1>6, <1>7 DEF BridgeTypes, RunCompletes
<1>9. VersionsNumbered'
  BY <1>3, <1>5, <1>8, NumbersStay DEF RunCompletes
<1>10. docmost' = docmost /\ docmost.rev \in Nat
  BY DEF BridgeTypes, RunCompletes, PageCopy
<1>11. ExportsInOrder'
  BY <1>3, <1>4, <1>10, AppendKeepsOrder
<1>12. EventsStay(DOMAIN event) /\ \A e \in DOMAIN event' : Tried(e)'
  BY DEF RunCompletes, EventsStay, Tried
<1>13. docmost.rev <= docmost'.rev /\ syncer' = syncer
  BY <1>10 DEF RunCompletes
<1> QED  BY <1>5, <1>7, <1>8, <1>9, <1>11, <1>12, <1>13, OutsideStep

LEMMA SetPublishedKeeps ==
    ASSUME BridgeInv, NEW v \in DOMAIN versions, SetPublished(v)
    PROVE  BridgeInv'
<1> USE DEF BridgeInv
<1>1. PICK status \in WikiStatuses :
         /\ versions' = [versions EXCEPT ![v].status = status]
         /\ wiki' = [wiki EXCEPT !.status = status, !.current = v]
  BY DEF SetPublished, WikiStatuses
<1>2. PICK x : x = [versions[v] EXCEPT !.status = status]
  OBVIOUS
<1>3. versions' = [versions EXCEPT ![v] = x]
  BY <1>1, <1>2
<1>4. /\ x \in Version /\ x.no = versions[v].no /\ x.text = versions[v].text
      /\ x.source = versions[v].source /\ x.rev = versions[v].rev
  BY <1>2, VersionFacts DEF Version
<1>5. versions' \in Seq(Version) /\ DOMAIN versions' = DOMAIN versions /\ VersionsGrow
  <2>1. versions' \in Seq(Version) /\ Len(versions') = Len(versions)
    BY <1>3, <1>4, DomainIs, ExceptSeq DEF BridgeTypes
  <2> QED  BY <1>3, <1>4, <2>1, DomainIs DEF VersionsGrow
<1>6. wiki' \in WikiRow /\ wiki'.current \in DOMAIN versions'
  <2>1. wiki' = [status |-> status, current |-> v, sync |-> wiki.sync, mapped |-> wiki.mapped]
    BY <1>1 DEF BridgeTypes, WikiRow
  <2> QED  BY <1>5, <2>1, DomainIs DEF BridgeTypes, WikiRow
<1>8. BridgeTypes'
  BY <1>5, <1>6 DEF BridgeTypes, SetPublished
<1>9. VersionsNumbered'
  BY <1>5, <1>8, NumbersStay DEF SetPublished
<1>10. docmost' = docmost /\ docmost.rev \in Nat
  BY DEF BridgeTypes, SetPublished, PageCopy
<1>11. ExportsInOrder'
  BY <1>5, <1>10 DEF ExportsInOrder, VersionsGrow
<1>12. EventsStay(DOMAIN event) /\ \A e \in DOMAIN event' : Tried(e)'
  BY DEF SetPublished, EventsStay, Tried
<1>13. docmost.rev <= docmost'.rev /\ syncer' = syncer /\ push'.at = push.at
  BY <1>10 DEF SetPublished
<1> QED  BY <1>5, <1>8, <1>9, <1>11, <1>12, <1>13, OutsideStep

-----------------------------------------------------------------------------
(* BridgeSync: the slots of page-sync *)

(* A step that marks events: only event e changes its job or its tries.     *)
MarksOnly(e) ==
    /\ event' \in Seq(Event) /\ DOMAIN event' = DOMAIN event
    /\ \A k \in DOMAIN event : k # e => event'[k].job = event[k].job /\ event'[k].tries = event[k].tries
    /\ event'[e].job = "done" \/ event'[e].tries <= 2

(* What a slot may hold.                                                    *)
SlotMayHold(slot) ==
    /\ slot \in SyncSlot
    /\ slot.pc \in {"export", "commit"} => slot.base \in DOMAIN versions
    /\ slot.pc = "commit" =>
          /\ slot.rev <= docmost.rev
          /\ \A v \in 1..slot.base : versions[v].source = "docmost" => versions[v].rev <= slot.rev

(* Slot w works on event e, which is its own or was waiting.                *)
WorksOn(w, e) ==
    /\ e \in DOMAIN event
    /\ (syncer[w].pc # "idle" /\ syncer[w].ev = e) \/ event[e].job # "active"

LEMMA SlotKeeps ==
    ASSUME BridgeInv, NEW w \in Syncers, NEW e, WorksOn(w, e), MarksOnly(e),
           NEW slot, SlotMayHold(slot), syncer' = [syncer EXCEPT ![w] = slot],
           slot.pc = "idle" \/ (slot.ev = e /\ event'[e].job = "active"),
           versions' \in Seq(Version), VersionsGrow, VersionsNumbered', ExportsInOrder',
           wiki' \in WikiRow, wiki'.current \in DOMAIN versions',
           UNCHANGED <<docmost, push, typed, inbox>>
    PROVE  BridgeInv'
<1> USE DEF BridgeInv
<1>1. syncer \in [Syncers -> SyncSlot]
  BY DEF BridgeTypes
<1>2. syncer' \in [Syncers -> SyncSlot] /\ syncer'[w] = slot /\ \A x \in Syncers \ {w} : syncer'[x] = syncer[x]
  BY <1>1 DEF SlotMayHold
<1>3. BridgeTypes'
  BY <1>2 DEF BridgeTypes, MarksOnly
<1>4. \A k \in DOMAIN event' : Tried(k)'
  BY DEF Tried, MarksOnly
<1>5. SlotFits(w)'
  <2>1. CASE slot.pc = "idle"
    BY <1>2, <2>1 DEF SlotFits
  <2>2. CASE slot.pc # "idle"
    <3>1. e \in DOMAIN event' /\ slot.ev = e /\ event'[e].job = "active"
      BY <2>2 DEF MarksOnly, WorksOn
    <3>2. slot.pc \in {"export", "commit"} => slot.base \in DOMAIN versions'
      BY DEF SlotMayHold, VersionsGrow
    <3>3. slot.pc = "commit" =>
             /\ slot.rev <= docmost'.rev
             /\ \A v \in 1..slot.base : versions'[v].source = "docmost" => versions'[v].rev <= slot.rev
      <4> SUFFICES ASSUME slot.pc = "commit"
                   PROVE  /\ slot.rev <= docmost'.rev
                          /\ \A v \in 1..slot.base :
                                versions'[v].source = "docmost" => versions'[v].rev <= slot.rev
        OBVIOUS
      <4>1. \A v \in 1..slot.base : v \in DOMAIN versions
        BY DomainIs DEF SlotMayHold
      <4> QED  BY <4>1 DEF SlotMayHold, VersionsGrow
    <3> QED  BY <1>2, <3>1, <3>2, <3>3 DEF SlotFits
  <2> QED  BY <2>1, <2>2
<1>6. \A x \in Syncers \ {w} : syncer[x].pc # "idle" => EventsStay({syncer[x].ev})
  BY DEF SlotFits, SlotsApart, EventsStay, MarksOnly, WorksOn
<1>7. (\A x \in Syncers : SlotFits(x)') /\ SlotsApart'
  BY <1>2, <1>3, <1>5, <1>6, SlotStep DEF WorksOn
<1>8. PushFits'
  BY PushStays
<1> QED  BY <1>3, <1>4, <1>7, <1>8

(* The same when no version is written. *)
LEMMA SlotMoves ==
    ASSUME BridgeInv, NEW w \in Syncers, NEW e, WorksOn(w, e), MarksOnly(e),
           NEW slot, SlotMayHold(slot), syncer' = [syncer EXCEPT ![w] = slot],
           slot.pc = "idle" \/ (slot.ev = e /\ event'[e].job = "active"),
           wiki' \in WikiRow, wiki'.current = wiki.current,
           UNCHANGED <<docmost, versions, push, typed, inbox>>
    PROVE  BridgeInv'
<1> USE DEF BridgeInv
<1>1. VersionsGrow
  BY GrowsWhenSame
<1>2. wiki.current \in DOMAIN versions /\ versions \in Seq(Version) /\ docmost.rev \in Nat
  BY DEF BridgeTypes, PageCopy
<1>3. VersionsNumbered'
  BY DEF VersionsNumbered, FreshText
<1>4. ExportsInOrder'
  BY DEF ExportsInOrder
<1>5. wiki'.current \in DOMAIN versions' /\ versions' \in Seq(Version)
  BY <1>2
<1> QED  BY <1>1, <1>3, <1>4, <1>5, SlotKeeps

LEMMA IdleSlot == SlotMayHold(NoSync) /\ NoSync.pc = "idle"
BY DEF SlotMayHold, NoSync, SyncSlot, SyncPcs, WikiStatuses, PageText, Gone, Texts

LEMMA SlotTyped ==
    ASSUME BridgeInv, NEW w \in Syncers
    PROVE  /\ syncer[w] \in SyncSlot
           /\ wiki \in WikiRow /\ wiki.current \in DOMAIN versions /\ wiki.current \in Nat
           /\ wiki.status \in WikiStatuses
           /\ docmost.rev \in Nat /\ docmost.text \in PageText
BY DEF BridgeInv, BridgeTypes, WikiRow, PageCopy

(* The event of a slot that works is its own, has been tried at most twice. *)
LEMMA OwnEvent ==
    ASSUME BridgeInv, NEW w \in Syncers, syncer[w].pc # "idle"
    PROVE  /\ WorksOn(w, syncer[w].ev) /\ syncer[w].ev \in DOMAIN event
           /\ event[syncer[w].ev] \in Event /\ event[syncer[w].ev].job = "active"
           /\ event[syncer[w].ev].tries \in 0..2
<1>1. syncer[w].ev \in DOMAIN event /\ event[syncer[w].ev].job = "active"
  BY DEF BridgeInv, SlotFits
<1>2. event[syncer[w].ev] \in Event
  BY <1>1, EventFacts DEF BridgeInv
<1>3. Tried(syncer[w].ev)
  BY <1>1 DEF BridgeInv
<1> QED  BY <1>1, <1>2, <1>3 DEF WorksOn, Event, Tried

LEMMA MarksIsMarksOnly ==
    ASSUME BridgeInv, NEW e \in DOMAIN event, NEW status \in EventStatuses, NEW job \in EventJobs,
           NEW tries \in 0..3, Marks(e, status, job, tries), job = "done" \/ tries <= 2
    PROVE  MarksOnly(e) /\ event'[e].job = job
BY MarksFacts DEF BridgeInv, MarksOnly

LEMMA SameIsMarksOnly ==
    ASSUME BridgeInv, NEW e \in DOMAIN event, event' = event
    PROVE  MarksOnly(e)
BY DEF BridgeInv, BridgeTypes, MarksOnly, Tried

LEMMA TakeEventKeeps ==
    ASSUME BridgeInv, NEW w \in Syncers, NEW e \in DOMAIN event, TakeEvent(w, e)
    PROVE  BridgeInv'
<1>1. event[e] \in Event /\ Tried(e)
  BY EventFacts DEF BridgeInv
<1>2. event[e].tries \in 0..2 /\ event[e].status \in EventStatuses
  BY <1>1 DEF TakeEvent, Tried, Event, EventStatuses
<1>3. WorksOn(w, e)
  BY DEF TakeEvent, WorksOn
<1>6. UNCHANGED <<docmost, wiki, versions, push, typed, inbox>>
  BY DEF TakeEvent
<1>4. CASE event' = [event EXCEPT ![e].job = "done"] /\ UNCHANGED syncer
  <2>1. Marks(e, event[e].status, "done", event[e].tries)
    BY <1>1, <1>4, AtExcept, EventExcept DEF Marks
  <2>2. MarksOnly(e)
    BY <1>2, <2>1, MarksIsMarksOnly DEF EventJobs
  <2>3. SlotMayHold(syncer[w]) /\ syncer[w].pc = "idle" /\ syncer' = [syncer EXCEPT ![w] = syncer[w]]
    BY <1>4, SlotTyped DEF TakeEvent, SyncAt, SlotMayHold, BridgeInv, BridgeTypes
  <2>4. PICK slot : slot = syncer[w]
    OBVIOUS
  <2>5. SlotMayHold(slot) /\ slot.pc = "idle" /\ syncer' = [syncer EXCEPT ![w] = slot]
    BY <2>3, <2>4
  <2> QED  BY <1>3, <1>6, <2>2, <2>5, SlotTyped, SlotMoves
<1>5. CASE /\ event' = [event EXCEPT ![e].job = "active"]
           /\ syncer' = [syncer EXCEPT ![w] = [NoSync EXCEPT !.pc = "coalesce", !.ev = e]]
  <2>1. Marks(e, event[e].status, "active", event[e].tries)
    BY <1>1, <1>5, AtExcept, EventExcept DEF Marks
  <2>2. MarksOnly(e) /\ event'[e].job = "active"
    BY <1>2, <2>1, MarksIsMarksOnly DEF EventJobs
  <2>3. PICK slot : slot = [NoSync EXCEPT !.pc = "coalesce", !.ev = e]
    OBVIOUS
  <2>4. slot = [pc |-> "coalesce", ev |-> e, older |-> {}, base |-> 0, status |-> "draft",
                text |-> Gone, rev |-> 0]
    BY <2>3 DEF NoSync
  <2>5. e \in Nat
    BY EventFacts DEF BridgeInv
  <2>6. SlotMayHold(slot) /\ slot.ev = e
    BY <2>4, <2>5 DEF SlotMayHold, SyncSlot, SyncPcs, WikiStatuses, PageText, Gone, Texts
  <2> QED  BY <1>3, <1>5, <1>6, <2>2, <2>3, <2>6, SlotTyped, SlotMoves
<1> QED  BY <1>4, <1>5 DEF TakeEvent

LEMMA CoalesceReadsKeeps ==
    ASSUME BridgeInv, NEW w \in Syncers, CoalesceReads(w)
    PROVE  BridgeInv'
<1>1. syncer[w].pc = "coalesce" /\ Older \subseteq Nat
  BY ElementOfSeq DEF CoalesceReads, SyncAt, Older, BridgeInv, BridgeTypes
<1>2. PICK slot : slot = [pc |-> "supersede", ev |-> syncer[w].ev, older |-> Older,
                          base |-> syncer[w].base, status |-> syncer[w].status,
                          text |-> syncer[w].text, rev |-> syncer[w].rev]
  OBVIOUS
<1>3. syncer' = [syncer EXCEPT ![w] = slot]
  <2>1. PICK older : older = Older
    OBVIOUS
  <2>2. PICK x : x = syncer[w]
    OBVIOUS
  <2>3. syncer' = [syncer EXCEPT ![w] = [[x EXCEPT !.pc = "supersede"] EXCEPT !.older = older]]
    BY <2>1, <2>2 DEF CoalesceReads
  <2>4. x \in SyncSlot
    BY <2>2, SlotTyped
  <2>5. PICK y : y = [x EXCEPT !.pc = "supersede"]
    OBVIOUS
  <2>6. y = [pc |-> "supersede", ev |-> x.ev, older |-> x.older, base |-> x.base,
             status |-> x.status, text |-> x.text, rev |-> x.rev]
    BY <2>4, <2>5 DEF SyncSlot
  <2>7. [y EXCEPT !.older = older] = slot
    BY <1>2, <2>1, <2>2, <2>6
  <2> QED  BY <2>3, <2>5, <2>7
<1>4. SlotMayHold(slot) /\ slot.ev = syncer[w].ev
  BY <1>1, <1>2, SlotTyped DEF SlotMayHold, SyncSlot, SyncPcs
<1>5. MarksOnly(syncer[w].ev) /\ event' = event
  BY <1>1, OwnEvent, SameIsMarksOnly DEF CoalesceReads
<1>6. UNCHANGED <<docmost, wiki, versions, push, typed, inbox>>
  BY DEF CoalesceReads
<1> QED  BY <1>1, <1>3, <1>4, <1>5, <1>6, SlotTyped, OwnEvent, SlotMoves

LEMMA CoalesceWritesKeeps ==
    ASSUME BridgeInv, NEW w \in Syncers, CoalesceWrites(w)
    PROVE  BridgeInv'
<1> DEFINE e == syncer[w].ev
           mine == e \in syncer[w].older
<1>1. syncer[w].pc = "supersede" /\ e \in DOMAIN event
  BY OwnEvent DEF CoalesceWrites, SyncAt
<1>2. \A k \in DOMAIN event : event[k] \in Event
  BY EventFacts DEF BridgeInv
<1>3. DOMAIN event = 1..Len(event) /\ Len(event) \in Nat
  BY EventFacts DEF BridgeInv
<1>4. DOMAIN event' = DOMAIN event
  BY DEF CoalesceWrites
<1>5. /\ event'[e] \in Event /\ event'[e].tries = event[e].tries
      /\ event'[e].job = IF mine THEN "done" ELSE "active"
  <2>1. event'[e] = [event[e] EXCEPT !.status = IF mine THEN "processed" ELSE "processing",
                                     !.job = IF mine THEN "done" ELSE @]
    BY <1>1 DEF CoalesceWrites
  <2>2. PICK st \in EventStatuses, j \in EventJobs :
           /\ event'[e] = [event[e] EXCEPT !.status = st, !.job = j]
           /\ j = IF mine THEN "done" ELSE "active"
    <3>1. CASE mine
      BY <2>1, <3>1 DEF EventStatuses, EventJobs
    <3>2. CASE ~ mine
      <4>1. event'[e] = [event[e] EXCEPT !.status = "processing", !.job = "active"]
        <5>1. event[e].job = "active"
          BY <1>1, OwnEvent
        <5>2. PICK y : y = [event[e] EXCEPT !.status = "processing"]
          OBVIOUS
        <5>3. y.job = "active"
          BY <1>1, <1>2, <5>1, <5>2 DEF Event
        <5>4. event'[e] = [y EXCEPT !.job = @]
          BY <2>1, <3>2, <5>2
        <5>5. [event[e] EXCEPT !.status = "processing", !.job = "active"] = [y EXCEPT !.job = "active"]
          BY <5>2
        <5> QED  BY <5>3, <5>4, <5>5
      <4> QED  BY <3>2, <4>1 DEF EventStatuses, EventJobs
    <3> QED  BY <3>1, <3>2
  <2>3. event'[e] = EventIs(event[e], st, j, event[e].tries)
    <3>1. PICK x : x = event[e] /\ x \in Event
      BY <1>1, <1>2
    <3>2. PICK y : y = [x EXCEPT !.status = st]
      OBVIOUS
    <3>3. y = EventIs(x, st, x.job, x.tries)
      BY <3>1, <3>2, EventExcept
    <3>4. [y EXCEPT !.job = j] = EventIs(x, st, j, x.tries)
      BY <3>3 DEF EventIs
    <3>5. event'[e] = [y EXCEPT !.job = j]
      BY <2>2, <3>1, <3>2
    <3> QED  BY <3>1, <3>4, <3>5
  <2> QED  BY <1>1, <1>2, <2>2, <2>3 DEF EventIs, Event, EventStatuses, EventJobs
<1>6. ASSUME NEW k \in DOMAIN event, k # e
      PROVE  event'[k] \in Event /\ event'[k].job = event[k].job /\ event'[k].tries = event[k].tries
  <2>1. event'[k] = event[k] \/ event'[k] = [event[k] EXCEPT !.status = "processed"]
    BY <1>6 DEF CoalesceWrites
  <2>2. PICK x : x = event[k] /\ x \in Event
    BY <1>2
  <2> QED  BY <2>1, <2>2 DEF Event
<1>7. MarksOnly(e)
  <2>1. event' \in Seq(Event)
    <3>1. event' = [k \in 1..Len(event) |-> event'[k]]
      BY <1>3, <1>4 DEF CoalesceWrites
    <3>2. \A k \in 1..Len(event) : event'[k] \in Event
      BY <1>1, <1>3, <1>5, <1>6
    <3> QED  BY <1>3, <3>1, <3>2, IsASeq
  <2> QED  BY <1>1, <1>4, <1>5, <1>6, <2>1, OwnEvent DEF MarksOnly
<1>8. UNCHANGED <<docmost, wiki, versions, push, typed, inbox>>
  BY DEF CoalesceWrites
<1>9. PICK slot : /\ syncer' = [syncer EXCEPT ![w] = slot]
                  /\ SlotMayHold(slot)
                  /\ slot.pc = "idle" \/ (~ mine /\ slot.ev = e)
  <2>1. CASE mine
    <3>1. syncer' = [syncer EXCEPT ![w] = NoSync]
      BY <2>1 DEF CoalesceWrites
    <3> QED  BY <3>1, IdleSlot
  <2>2. CASE ~ mine
    <3>1. PICK x : x = syncer[w] /\ x \in SyncSlot
      BY SlotTyped
    <3>2. syncer' = [syncer EXCEPT ![w] = [[x EXCEPT !.pc = "page"] EXCEPT !.older = {}]]
      BY <2>2, <3>1 DEF CoalesceWrites
    <3>3. PICK y : y = [x EXCEPT !.pc = "page"]
      OBVIOUS
    <3>4. y = [pc |-> "page", ev |-> x.ev, older |-> x.older, base |-> x.base,
               status |-> x.status, text |-> x.text, rev |-> x.rev]
      BY <3>1, <3>3 DEF SyncSlot
    <3>5. PICK slot : slot = [y EXCEPT !.older = {}]
      OBVIOUS
    <3>6. slot = [pc |-> "page", ev |-> x.ev, older |-> {}, base |-> x.base,
                  status |-> x.status, text |-> x.text, rev |-> x.rev]
      BY <3>4, <3>5
    <3>7. SlotMayHold(slot) /\ slot.ev = e
      BY <3>1, <3>6 DEF SlotMayHold, SyncSlot, SyncPcs
    <3> QED  BY <2>2, <3>2, <3>3, <3>5, <3>7
  <2> QED  BY <2>1, <2>2
<1>10. slot.pc = "idle" \/ (slot.ev = e /\ event'[e].job = "active")
  BY <1>5, <1>9
<1>11. WorksOn(w, e)
  BY <1>1, OwnEvent
<1> HIDE DEF e, mine
<1> QED  BY <1>7, <1>8, <1>9, <1>10, <1>11, SlotTyped, SlotMoves

(* The slot gives its event back. *)
LEMMA SlotEnds ==
    ASSUME BridgeInv, NEW w \in Syncers, syncer[w].pc # "idle", MarksOnly(syncer[w].ev),
           syncer' = [syncer EXCEPT ![w] = NoSync], wiki' \in WikiRow, wiki'.current = wiki.current,
           UNCHANGED <<docmost, versions, push, typed, inbox>>
    PROVE  BridgeInv'
<1>1. WorksOn(w, syncer[w].ev)
  BY OwnEvent
<1>2. PICK slot : slot = NoSync
  OBVIOUS
<1>3. SlotMayHold(slot) /\ slot.pc = "idle" /\ syncer' = [syncer EXCEPT ![w] = slot]
  BY <1>2, IdleSlot
<1> QED  BY <1>1, <1>3, SlotMoves

LEMMA EndsMarks ==
    ASSUME BridgeInv, NEW w \in Syncers, syncer[w].pc # "idle", NEW status \in EventStatuses,
           SyncEnds(w, status)
    PROVE  MarksOnly(syncer[w].ev) /\ syncer' = [syncer EXCEPT ![w] = NoSync]
<1>1. PICK e : e = syncer[w].ev
  OBVIOUS
<1>2. e \in DOMAIN event /\ event[e] \in Event /\ event[e].tries \in 0..2
  BY <1>1, OwnEvent
<1>3. event' = [event EXCEPT ![e].status = status, ![e].job = "done"]
  BY <1>1 DEF SyncEnds
<1>4. Marks(e, status, "done", event[e].tries)
  <2>1. event' = [event EXCEPT ![e] = [event[e] EXCEPT !.status = status, !.job = "done"]]
    BY <1>2, <1>3, AtExcept
  <2>2. PICK x : x = event[e] /\ x \in Event
    BY <1>2
  <2>3. PICK y : y = [x EXCEPT !.status = status]
    OBVIOUS
  <2>4. y = EventIs(x, status, x.job, x.tries)
    BY <2>2, <2>3, EventExcept
  <2>5. [y EXCEPT !.job = "done"] = EventIs(x, status, "done", x.tries)
    BY <2>4 DEF EventIs
  <2>6. event' = [event EXCEPT ![e] = [y EXCEPT !.job = "done"]]
    BY <2>1, <2>2, <2>3
  <2> QED  BY <2>2, <2>5, <2>6 DEF Marks
<1>5. MarksOnly(e)
  BY <1>2, <1>4, MarksIsMarksOnly DEF EventJobs
<1> QED  BY <1>1, <1>5 DEF SyncEnds

LEMMA ThrowsMarks ==
    ASSUME BridgeInv, NEW w \in Syncers, syncer[w].pc # "idle", SyncThrows(w)
    PROVE  /\ MarksOnly(syncer[w].ev) /\ syncer' = [syncer EXCEPT ![w] = NoSync]
           /\ wiki' \in WikiRow /\ wiki'.current = wiki.current
<1>1. PICK e : e = syncer[w].ev
  OBVIOUS
<1>2. e \in DOMAIN event /\ event[e] \in Event /\ event[e].tries \in 0..2
  BY <1>1, OwnEvent
<1>3. PICK x : x = event[e] /\ x \in Event
  BY <1>2
<1>4. PICK tries, job : /\ tries \in 1..3 /\ job \in {"waiting", "done"}
                        /\ job = "done" \/ tries <= 2
                        /\ tries = x.tries + 1
                        /\ job = IF event[e].tries < 2 THEN "waiting" ELSE "done"
  BY <1>2, <1>3
<1>5. PICK y : y = [x EXCEPT !.status = "failed"]
  OBVIOUS
<1>6. y = EventIs(x, "failed", x.job, x.tries)
  BY <1>3, <1>5, EventExcept
<1>7. PICK z : z = [y EXCEPT !.tries = @ + 1]
  OBVIOUS
<1>8. z = EventIs(x, "failed", x.job, tries)
  BY <1>4, <1>6, <1>7 DEF EventIs
<1>9. [z EXCEPT !.job = job] = EventIs(x, "failed", job, tries)
  BY <1>8 DEF EventIs
<1>10. event' = [event EXCEPT ![e] = [z EXCEPT !.job = job]]
  <2>1. event' = [event EXCEPT ![e] = [event[e] EXCEPT !.status = "failed", !.tries = tries, !.job = job]]
    <3>1. event' = [event EXCEPT ![e] = [event[e] EXCEPT !.status = "failed", !.tries = event[e].tries + 1,
                       !.job = IF event[e].tries < 2 THEN "waiting" ELSE "done"]]
      BY <1>1 DEF SyncThrows
    <3>2. PICK t, j : t = event[e].tries + 1 /\ j = IF event[e].tries < 2 THEN "waiting" ELSE "done"
      OBVIOUS
    <3>3. event' = [event EXCEPT ![e] = [event[e] EXCEPT !.status = "failed", !.tries = t, !.job = j]]
      BY <3>1, <3>2
    <3>4. t = tries /\ j = job
      BY <1>3, <1>4, <3>2
    <3> QED  BY <3>3, <3>4
  <2>2. [event[e] EXCEPT !.status = "failed", !.tries = tries, !.job = job] = [z EXCEPT !.job = job]
    <3>1. [x EXCEPT !.status = "failed", !.tries = tries, !.job = job]
            = [[y EXCEPT !.tries = tries] EXCEPT !.job = job]
      BY <1>5
    <3>2. z = [y EXCEPT !.tries = tries]
      BY <1>4, <1>6, <1>7 DEF EventIs
    <3> QED  BY <1>3, <3>1, <3>2
  <2> QED  BY <2>1, <2>2
<1>11. Marks(e, "failed", job, tries)
  BY <1>3, <1>9, <1>10 DEF Marks
<1>12. MarksOnly(e)
  BY <1>2, <1>4, <1>11, MarksIsMarksOnly DEF EventJobs, EventStatuses
<1>13. wiki' \in WikiRow /\ wiki'.current = wiki.current
  BY SlotTyped DEF SyncThrows, WikiRow
<1> QED  BY <1>1, <1>12, <1>13 DEF SyncThrows

LEMMA SyncReadsPageKeeps ==
    ASSUME BridgeInv, NEW w \in Syncers, SyncReadsPage(w)
    PROVE  BridgeInv'
<1>1. syncer[w].pc = "page" /\ UNCHANGED <<docmost, wiki, versions, push, typed, inbox>>
  BY DEF SyncReadsPage, SyncAt
<1>2. CASE SyncEnds(w, "processed")
  <2>1. MarksOnly(syncer[w].ev) /\ syncer' = [syncer EXCEPT ![w] = NoSync]
    BY <1>1, <1>2, EndsMarks DEF EventStatuses
  <2> QED  BY <1>1, <2>1, SlotTyped, SlotEnds
<1>3. CASE /\ syncer' = [syncer EXCEPT ![w].pc = "export", ![w].base = wiki.current,
                                       ![w].status = wiki.status]
           /\ UNCHANGED event
  <2>1. PICK x : x = syncer[w] /\ x \in SyncSlot
    BY SlotTyped
  <2>2. PICK base, status : base = wiki.current /\ status = wiki.status
    OBVIOUS
  <2>3. PICK a : a = [x EXCEPT !.pc = "export"]
    OBVIOUS
  <2>4. PICK b : b = [a EXCEPT !.base = base]
    OBVIOUS
  <2>5. PICK slot : slot = [b EXCEPT !.status = status]
    OBVIOUS
  <2>6. syncer' = [syncer EXCEPT ![w] = slot]
    <3>1. syncer' = [syncer EXCEPT ![w].pc = "export", ![w].base = base, ![w].status = status]
      BY <1>3, <2>2
    <3> QED  BY <2>1, <2>3, <2>4, <2>5, <3>1 DEF BridgeInv, BridgeTypes
  <2>7. a = [pc |-> "export", ev |-> x.ev, older |-> x.older, base |-> x.base,
             status |-> x.status, text |-> x.text, rev |-> x.rev]
    BY <2>1, <2>3 DEF SyncSlot
  <2>8. b = [pc |-> "export", ev |-> x.ev, older |-> x.older, base |-> base,
             status |-> x.status, text |-> x.text, rev |-> x.rev]
    BY <2>4, <2>7
  <2>9. slot = [pc |-> "export", ev |-> x.ev, older |-> x.older, base |-> base,
                status |-> status, text |-> x.text, rev |-> x.rev]
    BY <2>5, <2>8
  <2>10. SlotMayHold(slot) /\ slot.ev = syncer[w].ev
    BY <2>1, <2>2, <2>9, SlotTyped DEF SlotMayHold, SyncSlot, SyncPcs
  <2>11. MarksOnly(syncer[w].ev) /\ event'[syncer[w].ev].job = "active"
    BY <1>1, <1>3, OwnEvent, SameIsMarksOnly
  <2> QED  BY <1>1, <2>6, <2>10, <2>11, SlotTyped, OwnEvent, SlotMoves
<1> QED  BY <1>2, <1>3 DEF SyncReadsPage

LEMMA ExportPageKeeps ==
    ASSUME BridgeInv, NEW w \in Syncers, ExportPage(w)
    PROVE  BridgeInv'
<1>1. syncer[w].pc = "export" /\ UNCHANGED <<docmost, wiki, versions, push, typed, inbox, event>>
  BY DEF ExportPage, SyncAt
<1>2. PICK x : x = syncer[w] /\ x \in SyncSlot
  BY SlotTyped
<1>3. PICK text, rev : text = docmost.text /\ rev = docmost.rev
  OBVIOUS
<1>4. PICK a : a = [x EXCEPT !.pc = "commit"]
  OBVIOUS
<1>5. PICK b : b = [a EXCEPT !.text = text]
  OBVIOUS
<1>6. PICK slot : slot = [b EXCEPT !.rev = rev]
  OBVIOUS
<1>7. syncer' = [syncer EXCEPT ![w] = slot]
  <2>1. syncer' = [syncer EXCEPT ![w].pc = "commit", ![w].text = text, ![w].rev = rev]
    BY <1>3 DEF ExportPage
  <2> QED  BY <1>2, <1>4, <1>5, <1>6, <2>1 DEF BridgeInv, BridgeTypes
<1>8. a = [pc |-> "commit", ev |-> x.ev, older |-> x.older, base |-> x.base,
           status |-> x.status, text |-> x.text, rev |-> x.rev]
  BY <1>2, <1>4 DEF SyncSlot
<1>9. b = [pc |-> "commit", ev |-> x.ev, older |-> x.older, base |-> x.base,
           status |-> x.status, text |-> text, rev |-> x.rev]
  BY <1>5, <1>8
<1>10. slot = [pc |-> "commit", ev |-> x.ev, older |-> x.older, base |-> x.base,
               status |-> x.status, text |-> text, rev |-> rev]
  BY <1>6, <1>9
<1>11. x.base \in DOMAIN versions
  BY <1>1, <1>2 DEF BridgeInv, SlotFits
<1>12. \A v \in 1..x.base : versions[v].rev <= docmost.rev
  BY <1>11, DomainIs DEF BridgeInv, ExportsInOrder
<1>13. SlotMayHold(slot) /\ slot.ev = syncer[w].ev
  BY <1>2, <1>3, <1>10, <1>11, <1>12, SlotTyped DEF SlotMayHold, SyncSlot, SyncPcs
<1>14. MarksOnly(syncer[w].ev) /\ event'[syncer[w].ev].job = "active"
  BY <1>1, OwnEvent, SameIsMarksOnly
<1> QED  BY <1>1, <1>7, <1>13, <1>14, SlotTyped, OwnEvent, SlotMoves

LEMMA ExportFailsKeeps ==
    ASSUME BridgeInv, NEW w \in Syncers, ExportFails(w)
    PROVE  BridgeInv'
<1>1. syncer[w].pc # "idle" /\ SyncThrows(w) /\ UNCHANGED <<docmost, versions, push, typed, inbox>>
  BY DEF ExportFails, SyncAt
<1> QED  BY <1>1, ThrowsMarks, SlotEnds

LEMMA SyncDeletesKeeps ==
    ASSUME BridgeInv, NEW w \in Syncers, SyncDeletes(w)
    PROVE  BridgeInv'
<1>1. syncer[w].pc # "idle" /\ UNCHANGED <<docmost, versions, push, typed, inbox>>
  BY DEF SyncDeletes, SyncAt
<1>2. PICK status \in EventStatuses : SyncEnds(w, status)
  BY DEF SyncDeletes, EventStatuses
<1>3. wiki' \in WikiRow /\ wiki'.current = wiki.current
  BY SlotTyped DEF SyncDeletes, WikiRow, WikiStatuses
<1> QED  BY <1>1, <1>2, <1>3, EndsMarks, SlotEnds

LEMMA SyncReindexesKeeps ==
    ASSUME BridgeInv, NEW w \in Syncers, SyncReindexes(w)
    PROVE  BridgeInv'
<1>1. /\ syncer[w].pc # "idle" /\ syncer' = [syncer EXCEPT ![w] = NoSync]
      /\ UNCHANGED <<docmost, versions, push, typed, inbox>>
  BY DEF SyncReindexes, SyncAt
<1>2. MarksOnly(syncer[w].ev)
  <2>1. PICK e : e = syncer[w].ev
    OBVIOUS
  <2>2. e \in DOMAIN event /\ event[e] \in Event /\ event[e].tries \in 0..2
    BY <1>1, <2>1, OwnEvent
  <2>3. event' = [event EXCEPT ![e].job = "done"]
    BY <2>1 DEF SyncReindexes
  <2>4. Marks(e, event[e].status, "done", event[e].tries)
    BY <2>2, <2>3, AtExcept, EventExcept DEF Marks
  <2>5. event[e].status \in EventStatuses
    BY <2>2 DEF Event, EventStatuses
  <2> QED  BY <2>1, <2>2, <2>4, <2>5, MarksIsMarksOnly DEF EventJobs
<1>3. wiki' \in WikiRow /\ wiki'.current = wiki.current
  BY SlotTyped DEF SyncReindexes, WikiRow
<1> QED  BY <1>1, <1>2, <1>3, SlotEnds

(* The number after the base's is free only when the base is the newest     *)
(* version: the slot's export is then the latest of all.                    *)
LEMMA CommitVersionKeeps ==
    ASSUME BridgeInv, NEW w \in Syncers, CommitVersion(w)
    PROVE  BridgeInv'
<1> USE DEF BridgeInv
<1>1. syncer[w].pc = "commit" /\ UNCHANGED <<docmost, push, typed, inbox>>
  BY DEF CommitVersion, SyncAt
<1>2. CASE SyncThrows(w) /\ UNCHANGED versions
  <2>1. /\ MarksOnly(syncer[w].ev) /\ syncer' = [syncer EXCEPT ![w] = NoSync]
        /\ wiki' \in WikiRow /\ wiki'.current = wiki.current
    BY <1>1, <1>2, ThrowsMarks
  <2> QED  BY <1>1, <1>2, <2>1, SlotEnds
<1>3. ASSUME NEW base, base = versions[syncer[w].base], ~ NumberTaken(base.no + 1),
             versions' = Append(versions,
                 [no |-> base.no + 1, status |-> syncer[w].status, text |-> syncer[w].text,
                  run |-> base.run, source |-> "docmost", human |-> MergedHuman,
                  rev |-> syncer[w].rev]),
             wiki' = [wiki EXCEPT !.current = Len(versions) + 1, !.sync = "reindex_pending"],
             event' = [event EXCEPT ![syncer[w].ev].status = "processed"],
             syncer' = [syncer EXCEPT ![w].pc = "reindex"]
      PROVE  BridgeInv'
  <2>1. PICK s : s = syncer[w] /\ s \in SyncSlot
    BY SlotTyped
  <2>2. /\ s.base \in DOMAIN versions /\ s.rev <= docmost.rev
        /\ \A v \in 1..s.base : versions[v].source = "docmost" => versions[v].rev <= s.rev
    BY <1>1, <2>1 DEF SlotFits
  <2>3. base \in Version /\ base.no = s.base
    BY <1>3, <2>1, <2>2, VersionFacts DEF VersionsNumbered
  <2>4. s.base = Len(versions) /\ Len(versions) \in Nat /\ DOMAIN versions = 1..Len(versions)
    <3>1. DOMAIN versions = 1..Len(versions) /\ Len(versions) \in Nat
      BY DomainIs
    <3>2. s.base + 1 \notin DOMAIN versions
      BY <1>3, <2>3 DEF NumberTaken, VersionsNumbered
    <3> QED  BY <2>2, <3>1, <3>2
  <2>5. PICK x : x = [no |-> base.no + 1, status |-> s.status, text |-> s.text, run |-> base.run,
                      source |-> "docmost", human |-> MergedHuman, rev |-> s.rev]
    OBVIOUS
  <2>6. /\ x \in Version /\ x.no = Len(versions) + 1 /\ x.rev <= docmost.rev
        /\ x.source = "docmost" /\ x.rev = s.rev
    BY <2>1, <2>2, <2>3, <2>4, <2>5 DEF Version, SyncSlot, MergedHuman
  <2>7. versions' = Append(versions, x)
    BY <1>3, <2>1, <2>5
  <2>8. /\ versions' \in Seq(Version) /\ VersionsGrow
        /\ DOMAIN versions' = DOMAIN versions \union {Len(versions) + 1}
        /\ versions'[Len(versions) + 1] = x
    BY <2>6, <2>7, AppendVersion
  <2>9. ExportsInOrder'
    BY <1>1, <2>2, <2>4, <2>6, <2>7, AppendKeepsOrder
  <2>10. VersionsNumbered'
    <3>1. \A v \in DOMAIN versions' : versions'[v].no = v
      BY <2>6, <2>8 DEF VersionsGrow, VersionsNumbered
    <3>2. typed' = typed
      BY <1>1
    <3>3. FreshText' = FreshText
      <4>1. Generated' = Generated
        BY <2>6, <2>8 DEF Generated, VersionsGrow
      <4> QED  BY <3>2, <4>1 DEF FreshText, Generated
    <3> QED  BY <3>1, <3>2, <3>3 DEF VersionsNumbered
  <2>11. wiki' \in WikiRow /\ wiki'.current \in DOMAIN versions'
    <3>1. PICK r : r = wiki /\ r \in WikiRow
      BY SlotTyped
    <3>2. PICK n : n = Len(versions) + 1 /\ n \in Nat
      BY <2>4
    <3>3. wiki' = [r EXCEPT !.current = n, !.sync = "reindex_pending"]
      BY <1>3, <3>1, <3>2
    <3>4. wiki' = [status |-> r.status, current |-> n, sync |-> "reindex_pending", mapped |-> r.mapped]
      BY <3>1, <3>3 DEF WikiRow
    <3> QED  BY <2>8, <3>1, <3>2, <3>4 DEF WikiRow
  <2>12. PICK slot : slot = [s EXCEPT !.pc = "reindex"]
    OBVIOUS
  <2>13. slot = [pc |-> "reindex", ev |-> s.ev, older |-> s.older, base |-> s.base,
                 status |-> s.status, text |-> s.text, rev |-> s.rev]
    BY <2>1, <2>12 DEF SyncSlot
  <2>14. SlotMayHold(slot) /\ slot.ev = syncer[w].ev
    BY <2>1, <2>13 DEF SlotMayHold, SyncSlot, SyncPcs
  <2>15. syncer' = [syncer EXCEPT ![w] = slot]
    BY <1>3, <2>1, <2>12
  <2>16. MarksOnly(s.ev) /\ event'[s.ev].job = "active"
    <3>1. PICK e : e = s.ev
      OBVIOUS
    <3>2. e \in DOMAIN event /\ event[e] \in Event /\ event[e].tries \in 0..2 /\ event[e].job = "active"
      BY <1>1, <2>1, <3>1, OwnEvent
    <3>3. event' = [event EXCEPT ![e].status = "processed"]
      BY <1>3, <2>1, <3>1
    <3>4. Marks(e, "processed", "active", event[e].tries)
      <4>1. PICK o : o = event[e] /\ o \in Event /\ o.job = "active"
        BY <3>2
      <4>2. \A st : [o EXCEPT !.status = st] = EventIs(o, st, o.job, o.tries)
        BY <4>1, EventExcept
      <4>3. [o EXCEPT !.status = "processed"] = EventIs(o, "processed", "active", o.tries)
        BY <4>1, <4>2
      <4>4. event' = [event EXCEPT ![e] = [o EXCEPT !.status = "processed"]]
        BY <3>2, <3>3, <4>1, AtExcept
      <4> QED  BY <4>1, <4>3, <4>4 DEF Marks
    <3> QED  BY <3>1, <3>2, <3>4, MarksIsMarksOnly DEF EventJobs, EventStatuses
  <2>17. WorksOn(w, s.ev)
    BY <1>1, <2>1, OwnEvent
  <2> QED  BY <1>1, <2>1, <2>8, <2>9, <2>10, <2>11, <2>14, <2>15, <2>16, <2>17, SlotKeeps
<1> QED  BY <1>2, <1>3 DEF CommitVersion

-----------------------------------------------------------------------------
(* BridgeSync: restart, the start, and every step *)

LEMMA RestartKeeps ==
    ASSUME BridgeInv, NEW old \in SUBSET DOMAIN event, Restart(old)
    PROVE  BridgeInv'
<1> USE DEF BridgeInv
<1>1. UNCHANGED <<docmost, wiki, versions, inbox, typed>>
  BY DEF Restart
<1>2. push' = [queue |-> push.queue \cup ({push.at.run} \ {0}), at |-> NoPush]
  BY DEF Restart
<1>3. push' \in [queue : SUBSET Nat, at : PushTask] /\ push'.at = NoPush
  <2>1. push.at.run \in Nat /\ push.queue \in SUBSET Nat
    BY PushTyped DEF PushTask, BridgeTypes
  <2> QED  BY <1>2, <2>1, IdleTask
<1>4. /\ syncer' \in [Syncers -> SyncSlot]
      /\ \A w \in Syncers : syncer'[w].pc = "idle"
  BY IdleSlot DEF Restart, SlotMayHold
<1>5. /\ DOMAIN event = 1..Len(event) /\ Len(event) \in Nat
      /\ \A e \in DOMAIN event : event[e] \in Event
  BY EventFacts
<1>6. ASSUME NEW e \in DOMAIN event
      PROVE  /\ event'[e] \in Event /\ event'[e].tries = event[e].tries
             /\ event[e].job = "done" => event'[e].job = "done"
  <2>1. PICK st \in EventStatuses, j \in EventJobs :
           /\ event'[e] = [event[e] EXCEPT !.status = st, !.job = j]
           /\ event[e].job = "done" => j = "done"
    <3> DEFINE st == IF e \in old THEN "received" ELSE event[e].status
               j == CASE event[e].job = "active" -> "waiting"
                      [] event[e].job = "none" /\ st = "received" -> "waiting"
                      [] OTHER -> event[e].job
    <3>1. event'[e] = [event[e] EXCEPT !.status = st, !.job = j]
      BY <1>6 DEF Restart
    <3>2. st \in EventStatuses
      BY <1>5 DEF Event, EventStatuses
    <3>3. j \in EventJobs /\ (event[e].job = "done" => j = "done")
      <4> HIDE DEF st
      <4> QED  BY <1>5 DEF Event, EventJobs
    <3> HIDE DEF st, j
    <3> QED  BY <3>1, <3>2, <3>3
  <2>2. PICK x : x = event[e] /\ x \in Event
    BY <1>5
  <2>3. PICK y : y = [x EXCEPT !.status = st]
    OBVIOUS
  <2>4. y = EventIs(x, st, x.job, x.tries)
    BY <2>2, <2>3, EventExcept
  <2>5. [y EXCEPT !.job = j] = EventIs(x, st, j, x.tries)
    BY <2>4 DEF EventIs
  <2>6. event'[e] = [y EXCEPT !.job = j]
    BY <2>1, <2>2, <2>3
  <2> QED  BY <2>1, <2>2, <2>5, <2>6 DEF EventIs, Event, EventStatuses, EventJobs
<1>7. event' \in Seq(Event) /\ DOMAIN event' = DOMAIN event
  <2>1. event' = [e \in DOMAIN event |-> event'[e]]
    BY DEF Restart
  <2>2. event' = [e \in 1..Len(event) |-> event'[e]]
    BY <1>5, <2>1
  <2>3. \A e \in 1..Len(event) : event'[e] \in Event
    BY <1>5, <1>6
  <2>4. event' \in Seq(Event)
    BY <1>5, <2>2, <2>3, IsASeq
  <2> QED  BY <2>1, <2>4
<1>8. BridgeTypes'
  BY <1>1, <1>3, <1>4, <1>7 DEF BridgeTypes
<1>9. VersionsGrow /\ VersionsNumbered' /\ ExportsInOrder'
  BY <1>1, GrowsWhenSame DEF VersionsNumbered, ExportsInOrder, FreshText
<1>10. \A e \in DOMAIN event' : Tried(e)'
  BY <1>6, <1>7 DEF Tried
<1>11. (\A w \in Syncers : SlotFits(w)') /\ SlotsApart'
  BY <1>4 DEF SlotFits, SlotsApart
<1>12. PushFits'
  BY <1>3, IdleTask DEF PushFits
<1> QED  BY <1>8, <1>9, <1>10, <1>11, <1>12

LEMMA BridgeStarts == BridgeInit => BridgeInv
<1> SUFFICES ASSUME BridgeInit PROVE BridgeInv
  OBVIOUS
<1>1. Gone \in PageText
  BY DEF Gone, PageText, Texts
<1>2. docmost \in PageCopy /\ wiki \in WikiRow /\ wiki.current = 1 /\ docmost.rev = 0
  BY <1>1 DEF BridgeInit, PageCopy, WikiRow, WikiStatuses
<1>3. PICK x : x = [no |-> 1, status |-> "published", text |-> Gone, run |-> 0,
                    source |-> "graphify", human |-> {}, rev |-> 0]
  OBVIOUS
<1>4. x \in Version /\ x.no = 1 /\ x.rev = 0 /\ x.source = "graphify"
  BY <1>1, <1>3 DEF Version, WikiStatuses
<1>5. versions = <<x>>
  BY <1>3 DEF BridgeInit
<1>6. versions \in Seq(Version) /\ DOMAIN versions = {1} /\ versions[1] = x
  BY <1>4, <1>5
<1>7. syncer = [w \in Syncers |-> NoSync] /\ \A w \in Syncers : syncer[w].pc = "idle"
  BY IdleSlot DEF BridgeInit
<1>8. syncer \in [Syncers -> SyncSlot]
  BY <1>7 DEF NoSync, SyncSlot, SyncPcs, WikiStatuses, PageText, Gone, Texts
<1>9. push \in [queue : SUBSET Nat, at : PushTask] /\ push.at = NoPush
  BY IdleTask DEF BridgeInit
<1>10. typed = {} /\ event = <<>> /\ inbox = <<>>
  BY DEF BridgeInit
<1>11. BridgeTypes
  BY <1>2, <1>6, <1>8, <1>9, <1>10, FS_EmptySet DEF BridgeTypes
<1>12. VersionsNumbered /\ ExportsInOrder
  BY <1>2, <1>4, <1>6, <1>10 DEF VersionsNumbered, ExportsInOrder
<1>13. (\A w \in Syncers : SlotFits(w)) /\ SlotsApart
  BY <1>7 DEF SlotFits, SlotsApart
<1>14. PushFits
  BY <1>9, IdleTask DEF PushFits
<1>15. \A e \in DOMAIN event : Tried(e)
  BY <1>10
<1> QED  BY <1>11, <1>12, <1>13, <1>14, <1>15 DEF BridgeInv

LEMMA SyncKeeps ==
    ASSUME BridgeInv, NEW w \in Syncers, SyncStep(w)
    PROVE  BridgeInv'
BY TakeEventKeeps, CoalesceReadsKeeps, CoalesceWritesKeeps, SyncReadsPageKeeps, ExportPageKeeps,
   CommitVersionKeeps, SyncReindexesKeeps, SyncDeletesKeeps, ExportFailsKeeps DEF SyncStep

LEMMA PushKeeps ==
    ASSUME BridgeInv, PushStep
    PROVE  BridgeInv'
BY PushTakesKeeps, PushBuildsKeeps, PushAcceptedKeeps, WriteBackFailsKeeps, PushRefusedKeeps,
   PushMergesKeeps, PushFailsKeeps, PushEndsKeeps DEF PushStep

LEMMA BridgeStutters ==
    ASSUME BridgeInv, UNCHANGED bridgeVars
    PROVE  BridgeInv'
<1> USE DEF bridgeVars
<1>1. BridgeTypes'
  BY DEF BridgeInv, BridgeTypes
<1>2. VersionsNumbered' /\ ExportsInOrder'
  BY DEF BridgeInv, VersionsNumbered, ExportsInOrder, FreshText
<1>3. (\A e \in DOMAIN event' : Tried(e)') /\ (\A w \in Syncers : SlotFits(w)') /\ SlotsApart'
  BY DEF BridgeInv, Tried, SlotFits, SlotsApart
<1>4. PushFits'
  BY DEF BridgeInv, PushFits, SeenIsKept
<1> QED  BY <1>1, <1>2, <1>3, <1>4 DEF BridgeInv

LEMMA BridgeStep ==
    ASSUME BridgeInv, [BridgeNext]_bridgeVars
    PROVE  BridgeInv'
<1>1. CASE BridgeNext
  BY <1>1, SaveKeeps, DeletePageKeeps, ReceiveEventKeeps, ReceiveDuplicateKeeps, RunCompletesKeeps,
     SetPublishedKeeps, SyncKeeps, PushKeeps, RestartKeeps DEF BridgeNext, EventArrives
<1>2. CASE UNCHANGED bridgeVars
  BY <1>2, BridgeStutters
<1> QED  BY <1>1, <1>2

(* Whatever the people, the slots, the runs and the push do, and wherever   *)
(* they are restarted, the invariant holds.                                 *)
THEOREM BridgeInvariant == BridgeSpec => []BridgeInv
<1>1. BridgeInit => BridgeInv
  BY BridgeStarts
<1>2. BridgeInv /\ [BridgeNext]_bridgeVars => BridgeInv'
  BY BridgeStep
<1> QED  BY <1>1, <1>2, PTL DEF BridgeSpec

(* Versions are numbered in the order of their commits, and so the order of *)
(* the numbers is that of the exports.                                      *)
LEMMA NewestExport == BridgeInv => BridgeTypeOK /\ NewestExportWins
<1> SUFFICES ASSUME BridgeInv PROVE BridgeTypeOK /\ NewestExportWins
  OBVIOUS
<1> USE DEF BridgeInv
<1>1. NewestExportWins
  BY DEF VersionsNumbered, ExportsInOrder, NewestExportWins
<1>2. docmost \in [there : BOOLEAN, text : [Blocks -> Texts], rev : Nat]
  BY DEF BridgeTypes, PageCopy, PageText
<1>3. /\ wiki.status \in {"draft", "published", "archived"}
      /\ wiki.sync \in {"synced", "sync_pending", "reindex_pending", "conflict_required"}
      /\ wiki.current \in DOMAIN versions
  BY DEF BridgeTypes, WikiRow, WikiStatuses
<1>4. /\ \A v \in DOMAIN versions : versions[v].text \in [Blocks -> Texts]
      /\ \A u, v \in DOMAIN versions : versions[u].no = versions[v].no => u = v
  BY VersionFacts DEF VersionsNumbered, PageText
<1>5. \A e \in DOMAIN event :
         event[e] \in [type : {"saved", "deleted"},
                       status : {"sent", "received", "processing", "processed", "failed"},
                       job : {"none", "waiting", "active", "done"}, tries : 0..3]
  BY EventFacts DEF Event
<1>6. \A w \in Syncers : ~ SyncAt(w, "idle") => syncer[w].ev \in DOMAIN event
  BY DEF SyncAt, SlotFits
<1> QED  BY <1>1, <1>2, <1>3, <1>4, <1>5, <1>6 DEF BridgeTypeOK

(* Only an accepted import replaces a text of a page that is there: what it *)
(* has expected is then the text of the page, and what it has expected and  *)
(* does not leave is the text of a version.                                 *)
LEMMA KeepsText ==
    ASSUME BridgeInv, [BridgeNext]_bridgeVars
    PROVE  NothingTypedIsLostStep
<1> SUFFICES ASSUME NEW b \in Blocks, Overwritten(b), docmost.text[b] \in typed
             PROVE  KeptText(docmost.text[b])
  BY DEF NothingTypedIsLostStep
<1>1. docmost.there /\ docmost'.text[b] # docmost.text[b] /\ typed' = typed
  BY DEF Overwritten
<1>2. ASSUME NEW c \in Blocks, Save(c) PROVE FALSE
  <2>1. FreshText \notin typed
    <3>1. FreshText \in Nat
      BY FreshIs DEF FreshFacts, BridgeInv
    <3> QED  BY <3>1 DEF BridgeInv, VersionsNumbered
  <2> QED  BY <1>1, <1>2, <2>1 DEF Save
<1>3. CASE PushAccepted
  <2>1. push.at.pc = "import" /\ docmost.text = push.at.seen /\ docmost'.text = push.at.text
    BY <1>1, <1>3 DEF PushAccepted, PushAt, Refused
  <2>2. SeenIsKept(b)
    BY <2>1 DEF BridgeInv, PushFits
  <2>3. PICK v \in DOMAIN versions : versions[v].text[b] = docmost.text[b]
    BY <1>1, <2>1, <2>2 DEF SeenIsKept
  <2> QED  BY <2>3 DEF KeptText
<1>4. CASE WriteBackFails
  BY <1>1, <1>4 DEF WriteBackFails
<1>5. ASSUME docmost' = docmost \/ docmost' = [docmost EXCEPT !.there = FALSE, !.rev = @ + 1] PROVE FALSE
  <2>1. docmost'.text = docmost.text
    BY <1>5 DEF BridgeInv, BridgeTypes, PageCopy
  <2> QED  BY <1>1, <2>1
<1>6. CASE PushStep
  <2>1. PushAccepted \/ WriteBackFails \/ docmost' = docmost
    BY <1>6 DEF PushStep, PushTakes, PushBuilds, PushRefused, PushMerges, PushFails, PushEnds
  <2> QED  BY <1>3, <1>4, <1>5, <2>1
<1>7. ASSUME NEW w \in Syncers, SyncStep(w) PROVE docmost' = docmost
  BY <1>7 DEF SyncStep, TakeEvent, CoalesceReads, CoalesceWrites, SyncReadsPage, ExportPage,
     CommitVersion, SyncReindexes, SyncDeletes, ExportFails
<1>8. ASSUME \/ DeletePage \/ EventArrives \/ \E e \in DOMAIN event : ReceiveDuplicate(e)
             \/ RunCompletes \/ \E v \in DOMAIN versions : SetPublished(v)
             \/ \E old \in SUBSET DOMAIN event : Restart(old)
             \/ UNCHANGED bridgeVars
      PROVE  docmost' = docmost \/ docmost' = [docmost EXCEPT !.there = FALSE, !.rev = @ + 1]
  BY <1>8 DEF DeletePage, EventArrives, ReceiveEvent, ReceiveDuplicate, RunCompletes, SetPublished,
     Restart, bridgeVars
<1> QED  BY <1>2, <1>5, <1>6, <1>7, <1>8 DEF BridgeNext

(* What people type survives the synchronisation with Docmost, for any page,*)
(* any number of slots, saves, runs and failures.                           *)
THEOREM HumanTextSurvives == BridgeSpec => SyncKeepsHumanText
<1>1. BridgeInv /\ [BridgeNext]_bridgeVars => NothingTypedIsLostStep \/ UNCHANGED bridgeVars
  BY KeepsText
<1> QED  BY <1>1, BridgeInvariant, NewestExport, PTL DEF BridgeSpec, SyncKeepsHumanText

=============================================================================
