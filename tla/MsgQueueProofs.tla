--------------------------- MODULE MsgQueueProofs ---------------------------
(***************************************************************************)
(* Lemmas about the operators of the message ring, for any MSG_MAX.        *)
(***************************************************************************)
EXTENDS MsgQueue, Integers, TLAPS, SequenceTheorems

(* The indices are where put_msg and get_msg leave them: one slot between  *)
(* head and tail stays free.                                               *)
Indexed(q) == Held(q) < MSG_MAX

(* Nobody is between the updates of put_msg or get_msg. *)
Aligned(q) ==
  /\ Indexed(q)
  /\ q.msg_amount = Held(q)
  /\ q.msg_amount + q.extract_count = q.add_count

LEMMA HeldType == ASSUME NEW q \in QueueType PROVE Held(q) \in Nat
  BY QueueAssumption DEF QueueType, Held

(* msg_queue_init leaves an empty, aligned ring. *)
LEMMA EmptyQueueFacts == EmptyQueue \in QueueType /\ Aligned(EmptyQueue)
  BY QueueAssumption DEF EmptyQueue, QueueType, Slots, Aligned, Indexed, Held

(* The copy of put_msg leaves head inside the buffer, as far from tail.    *)
LEMMA PutCopyFacts ==
  ASSUME NEW q \in QueueType, Indexed(q)
  PROVE  /\ PutCopy(q) \in QueueType
         /\ PutCopy(q).head < MSG_MAX /\ Held(PutCopy(q)) = Held(q)
         /\ PutCopy(q).msg_amount = q.msg_amount
         /\ PutCopy(q).add_count = q.add_count
         /\ PutCopy(q).extract_count = q.extract_count
<1> DEFINE h == Wrap(q.head)
           b == [q.buffer EXCEPT ![h] = Torn]
<1>1. h \in Slots /\ h \in 0 .. MSG_MAX /\ h < MSG_MAX
      /\ (h = q.head \/ (q.head = MSG_MAX /\ h = 0))
  BY QueueAssumption DEF Wrap, QueueType, Slots
<1>2. b \in [Slots -> Msgs \cup {NoMsg, Torn}]
  BY DEF QueueType
<1>3. PutCopy(q) = [q EXCEPT !.head = h, !.buffer = b]
  BY DEF PutCopy, QueueType
<1> HIDE DEF b, h
<1>4. PutCopy(q) \in QueueType /\ PutCopy(q).head = h
  BY <1>1, <1>2, <1>3 DEF QueueType
<1>5. /\ PutCopy(q).tail = q.tail /\ PutCopy(q).msg_amount = q.msg_amount
      /\ PutCopy(q).add_count = q.add_count
      /\ PutCopy(q).extract_count = q.extract_count
  BY <1>3 DEF QueueType
<1>6. Held(PutCopy(q)) = Held(q)
  <2>1. q.head \in 0 .. MSG_MAX /\ q.tail \in 0 .. MSG_MAX
    BY DEF QueueType
  <2>2. QED
    BY <1>1, <1>4, <1>5, <2>1, QueueAssumption DEF Indexed, Held
<1>7. QED
  BY <1>1, <1>4, <1>5, <1>6

(* The rest of put_msg moves head one slot on, unless the ring was full,   *)
(* and counts the message.                                                 *)
LEMMA PutMoveFacts ==
  ASSUME NEW q \in QueueType, q.head < MSG_MAX,
         Held(q) < MSG_MAX - 1, NEW m \in Msgs \cup {NoMsg, Torn}
  PROVE  /\ PutMove(q, m) \in QueueType
         /\ Held(PutMove(q, m)) = Held(q) + 1
         /\ PutMove(q, m).msg_amount = q.msg_amount
         /\ PutMove(q, m).add_count = q.add_count
         /\ PutMove(q, m).extract_count = q.extract_count
<1> DEFINE b == [q.buffer EXCEPT ![q.head] = m]
           r == PutMove(q, m)
<1>1. b \in [Slots -> Msgs \cup {NoMsg, Torn}]
  BY DEF QueueType
<1>2. r = [q EXCEPT !.buffer = b, !.head = q.head + 1]
  BY DEF PutMove, QueueType
<1> HIDE DEF b, r
<1>3. /\ r.head = q.head + 1 /\ r.msg_amount = q.msg_amount
      /\ r.add_count = q.add_count /\ r.tail = q.tail
      /\ r.extract_count = q.extract_count
  BY <1>2 DEF QueueType
<1>4. q.head + 1 \in 0 .. MSG_MAX /\ q.head \in Nat /\ q.tail \in 0 .. MSG_MAX
  BY QueueAssumption DEF QueueType
<1>5. r \in QueueType
  BY <1>1, <1>2, <1>4 DEF QueueType
<1>6. Held(r) = Held(q) + 1
  BY <1>3, <1>4, QueueAssumption DEF Held
<1>7. QED
  BY <1>3, <1>5, <1>6 DEF r

LEMMA PutCountFacts ==
  ASSUME NEW q \in QueueType
  PROVE  /\ PutCount(q) \in QueueType /\ PutAdd(q) \in QueueType
         /\ Held(PutCount(q)) = Held(q) /\ Held(PutAdd(q)) = Held(q)
         /\ PutCount(q).msg_amount = q.msg_amount + 1
         /\ PutCount(q).add_count = q.add_count
         /\ PutCount(q).extract_count = q.extract_count
         /\ PutAdd(q).msg_amount = q.msg_amount
         /\ PutAdd(q).add_count = q.add_count + 1
         /\ PutAdd(q).extract_count = q.extract_count
  BY DEF QueueType, PutCount, PutAdd, Held

(* The copy of get_msg, after its underflow test, reads a slot of the      *)
(* buffer and leaves tail inside it.                                       *)
LEMMA GetCopyFacts ==
  ASSUME NEW q \in QueueType, Held(q) > 0
  PROVE  /\ GetCopy(q) \in QueueType
         /\ GetCopy(q).tail < MSG_MAX /\ Held(GetCopy(q)) = Held(q)
         /\ GetCopy(q).msg_amount = q.msg_amount
         /\ GetCopy(q).add_count = q.add_count
         /\ GetCopy(q).extract_count = q.extract_count
         /\ TailMsg(q) \in Msgs \cup {NoMsg, Torn}
<1> DEFINE t == Wrap(q.tail)
           r == GetCopy(q)
<1>1. t \in Slots /\ t \in 0 .. MSG_MAX - 1 /\ (t = q.tail \/ (q.tail = MSG_MAX /\ t = 0))
  BY QueueAssumption DEF Wrap, QueueType, Slots
<1>2. TailMsg(q) \in Msgs \cup {NoMsg, Torn}
  BY <1>1 DEF TailMsg, QueueType
<1>a. r = [q EXCEPT !.tail = t]
  BY DEF GetCopy
<1> HIDE DEF t, r
<1>3. /\ r \in QueueType /\ r.tail = t /\ r.head = q.head
      /\ r.msg_amount = q.msg_amount /\ r.add_count = q.add_count
      /\ r.extract_count = q.extract_count
  BY <1>1, <1>a, QueueAssumption DEF QueueType
<1>4. Held(r) = Held(q)
  <2>1. q.head \in 0 .. MSG_MAX /\ q.tail \in 0 .. MSG_MAX
    BY DEF QueueType
  <2>2. QED
    BY <1>1, <1>3, <2>1, QueueAssumption DEF Held
<1>5. QED
  BY <1>1, <1>2, <1>3, <1>4, QueueAssumption DEF r

(* The rest of get_msg moves tail one slot on, unless the ring was empty.  *)
LEMMA GetMoveFacts ==
  ASSUME NEW q \in QueueType, q.tail < MSG_MAX, Held(q) > 0
  PROVE  /\ GetMove(q) \in QueueType
         /\ Held(GetMove(q)) = Held(q) - 1
         /\ GetMove(q).msg_amount = q.msg_amount
         /\ GetMove(q).add_count = q.add_count
         /\ GetMove(q).extract_count = q.extract_count
<1>1. q.tail + 1 \in 0 .. MSG_MAX /\ q.tail \in Nat /\ q.head \in 0 .. MSG_MAX
  BY QueueAssumption DEF QueueType
<1>2. /\ GetMove(q) \in QueueType /\ GetMove(q).tail = q.tail + 1
      /\ GetMove(q).head = q.head /\ GetMove(q).msg_amount = q.msg_amount
      /\ GetMove(q).add_count = q.add_count
      /\ GetMove(q).extract_count = q.extract_count
  BY <1>1 DEF GetMove, QueueType
<1>3. Held(GetMove(q)) = Held(q) - 1
  BY <1>1, <1>2, QueueAssumption DEF Held
<1>4. QED
  BY <1>2, <1>3

LEMMA GetCountFacts ==
  ASSUME NEW q \in QueueType
  PROVE  /\ q.msg_amount > 0 => GetCount(q) \in QueueType
         /\ GetExtract(q) \in QueueType
         /\ Held(GetCount(q)) = Held(q) /\ Held(GetExtract(q)) = Held(q)
         /\ GetCount(q).msg_amount = q.msg_amount - 1
         /\ GetCount(q).add_count = q.add_count
         /\ GetCount(q).extract_count = q.extract_count
         /\ GetExtract(q).msg_amount = q.msg_amount
         /\ GetExtract(q).add_count = q.add_count
         /\ GetExtract(q).extract_count = q.extract_count + 1
  BY DEF QueueType, GetCount, GetExtract, Held

-----------------------------------------------------------------------------
(* What the operators do to the contents of the ring.                      *)

LEMMA ContentsLength ==
  ASSUME NEW q \in QueueType, Indexed(q)
  PROVE  /\ DOMAIN Contents(q) = 1 .. Held(q)
         /\ \A i \in 1 .. Held(q) :
              /\ SlotAt(q.tail + i - 1) \in Slots
              /\ Contents(q)[i] = q.buffer[SlotAt(q.tail + i - 1)]
         /\ Contents(q) \in Seq(Msgs \cup {NoMsg, Torn})
         /\ Len(Contents(q)) = Held(q)
<1>1. ASSUME NEW i \in 1 .. Held(q) PROVE SlotAt(q.tail + i - 1) \in Slots
  BY QueueAssumption DEF QueueType, Indexed, Held, SlotAt, Slots
<1>2. Contents(q) \in [1 .. Held(q) -> Msgs \cup {NoMsg, Torn}]
  BY <1>1 DEF Contents, QueueType
<1>3. QED
  BY <1>1, <1>2, HeldType DEF Contents

(* The counters do not matter. *)
LEMMA CountersContents ==
  ASSUME NEW q \in QueueType
  PROVE  /\ Contents(PutCount(q)) = Contents(q)
         /\ Contents(PutAdd(q)) = Contents(q)
         /\ Contents(GetCount(q)) = Contents(q)
         /\ Contents(GetExtract(q)) = Contents(q)
  BY DEF Contents, Held, PutCount, PutAdd, GetCount, GetExtract, QueueType

(* The copy of put_msg writes to a slot that holds no message. *)
LEMMA PutCopyContents ==
  ASSUME NEW q \in QueueType, Indexed(q)
  PROVE  Contents(PutCopy(q)) = Contents(q)
<1> DEFINE h == Wrap(q.head)
           r == PutCopy(q)
<1>1. /\ r.tail = q.tail /\ Held(r) = Held(q)
      /\ r.buffer = [q.buffer EXCEPT ![h] = Torn]
  <2>1. r.tail = q.tail /\ r.buffer = [q.buffer EXCEPT ![h] = Torn]
    BY DEF PutCopy, QueueType
  <2>2. QED
    BY <2>1, PutCopyFacts
<1>2. ASSUME NEW i \in 1 .. Held(q) PROVE SlotAt(q.tail + i - 1) # h
  BY QueueAssumption DEF QueueType, Indexed, Held, SlotAt, Wrap
<1> HIDE DEF h, r
<1>3. \A i \in 1 .. Held(q) :
        r.buffer[SlotAt(q.tail + i - 1)] = q.buffer[SlotAt(q.tail + i - 1)]
  BY <1>1, <1>2, ContentsLength DEF QueueType
<1>4. Contents(r) = Contents(q)
  BY <1>1, <1>3 DEF Contents
<1>5. QED
  BY <1>4 DEF r

(* ++head puts the message behind the others. *)
LEMMA PutMoveContents ==
  ASSUME NEW q \in QueueType, q.head < MSG_MAX,
         Held(q) < MSG_MAX - 1, NEW m \in Msgs \cup {NoMsg, Torn}
  PROVE  Contents(PutMove(q, m)) = Append(Contents(q), m)
<1> DEFINE r == PutMove(q, m)
           n == Held(q)
<1>0. n \in Nat /\ Indexed(q)
  BY HeldType, QueueAssumption DEF Indexed
<1>1. /\ r.tail = q.tail /\ r.buffer = [q.buffer EXCEPT ![q.head] = m]
      /\ r \in QueueType /\ Held(r) = n + 1 /\ Indexed(r)
  <2>1. r.tail = q.tail /\ r.buffer = [q.buffer EXCEPT ![q.head] = m]
    BY DEF PutMove, QueueType
  <2>2. r \in QueueType /\ Held(r) = n + 1
    BY PutMoveFacts
  <2>3. QED
    BY <1>0, <2>1, <2>2, QueueAssumption DEF Indexed
<1>2. ASSUME NEW i \in 1 .. n PROVE SlotAt(q.tail + i - 1) # q.head
  BY QueueAssumption DEF QueueType, Held, SlotAt
<1>3. SlotAt(q.tail + n) = q.head /\ q.head \in Slots
  BY QueueAssumption DEF QueueType, Held, SlotAt, Slots
<1> HIDE DEF r
<1>5. /\ Contents(r) \in Seq(Msgs \cup {NoMsg, Torn})
      /\ Len(Contents(r)) = n + 1
      /\ \A i \in 1 .. n + 1 :
           Contents(r)[i] = r.buffer[SlotAt(q.tail + i - 1)]
  BY <1>1, ContentsLength
<1>6. /\ Contents(q) \in Seq(Msgs \cup {NoMsg, Torn})
      /\ Len(Contents(q)) = n
      /\ \A i \in 1 .. n :
           /\ Contents(q)[i] = q.buffer[SlotAt(q.tail + i - 1)]
           /\ SlotAt(q.tail + i - 1) \in Slots
  BY <1>0, ContentsLength
<1> HIDE DEF n
<1>7. Contents(r)[n + 1] = m
  <2>1. q.tail + (n + 1) - 1 = q.tail + n
    BY <1>0 DEF QueueType
  <2>2. QED
    BY <1>0, <1>1, <1>3, <1>5, <2>1 DEF QueueType
<1>8. \A i \in 1 .. n : Contents(r)[i] = Contents(q)[i]
  BY <1>0, <1>1, <1>2, <1>5, <1>6 DEF QueueType
<1>9. Contents(r) = Append(Contents(q), m)
  <2> DEFINE a == Append(Contents(q), m)
  <2>1. a \in Seq(Msgs \cup {NoMsg, Torn}) /\ Len(a) = n + 1
    BY <1>6
  <2>2. \A i \in 1 .. n + 1 :
          a[i] = IF i = n + 1 THEN m ELSE Contents(q)[i]
    BY <1>0, <1>6
  <2> HIDE DEF a
  <2>3. \A i \in 1 .. n + 1 : Contents(r)[i] = a[i]
    BY <1>0, <1>7, <1>8, <2>2
  <2>4. Contents(r) = a
    BY <1>0, <1>5, <2>1, <2>3, SeqEqual
  <2>5. QED
    BY <2>4 DEF a
<1>10. QED
  BY <1>9 DEF r

(* The copy of get_msg only moves tail from behind the last slot to the    *)
(* first, and reads the oldest message.                                    *)
LEMMA GetCopyContents ==
  ASSUME NEW q \in QueueType, Indexed(q), Held(q) > 0
  PROVE  /\ Contents(GetCopy(q)) = Contents(q)
         /\ TailMsg(q) = Contents(q)[1]
<1> DEFINE t == Wrap(q.tail)
           r == GetCopy(q)
<1>1. r.tail = t /\ Held(r) = Held(q) /\ r.buffer = q.buffer
  <2>1. r.tail = t /\ r.buffer = q.buffer
    BY DEF GetCopy, QueueType
  <2>2. QED
    BY <2>1, GetCopyFacts
<1>2. Held(q) \in Nat /\ 1 \in 1 .. Held(q)
  BY HeldType
<1>3. ASSUME NEW i \in 1 .. Held(q)
      PROVE  SlotAt(t + i - 1) = SlotAt(q.tail + i - 1)
  BY QueueAssumption DEF QueueType, Indexed, Held, SlotAt, Wrap
<1>4. SlotAt(q.tail + 1 - 1) = t
  BY QueueAssumption DEF QueueType, SlotAt, Wrap
<1> HIDE DEF t, r
<1>5. Contents(r) = Contents(q)
  BY <1>1, <1>3 DEF Contents
<1>6. TailMsg(q) = Contents(q)[1]
  BY <1>2, <1>4, ContentsLength DEF TailMsg, t
<1>7. QED
  BY <1>5, <1>6 DEF r

(* ++tail takes it away. *)
LEMMA GetMoveContents ==
  ASSUME NEW q \in QueueType, Indexed(q), q.tail < MSG_MAX, Held(q) > 0
  PROVE  Contents(q) # <<>> /\ Contents(GetMove(q)) = Tail(Contents(q))
<1> DEFINE r == GetMove(q)
           c == Contents(q)
           n == Held(q)
<1>1. /\ r.tail = q.tail + 1 /\ Held(r) = n - 1
      /\ r.buffer = q.buffer /\ r \in QueueType /\ Indexed(r)
  <2>1. r.tail = q.tail + 1 /\ r.buffer = q.buffer
    BY DEF GetMove, QueueType
  <2>2. r \in QueueType /\ Held(r) = n - 1
    BY GetMoveFacts
  <2>3. QED
    BY <2>1, <2>2, HeldType, QueueAssumption DEF Indexed
<1>2. n \in Nat /\ n # 0 /\ q.tail \in Nat
  BY HeldType DEF QueueType
<1>3. /\ c \in Seq(Msgs \cup {NoMsg, Torn}) /\ Len(c) = n
      /\ \A i \in 1 .. n : c[i] = q.buffer[SlotAt(q.tail + i - 1)]
  BY ContentsLength
<1> HIDE DEF r
<1>4. /\ Contents(r) \in Seq(Msgs \cup {NoMsg, Torn})
      /\ Len(Contents(r)) = n - 1
      /\ \A i \in 1 .. n - 1 :
           Contents(r)[i] = q.buffer[SlotAt((q.tail + 1) + i - 1)]
  BY <1>1, ContentsLength
<1> HIDE DEF c, n
<1>5. c # <<>>
  BY <1>2, <1>3, EmptySeq
<1>6. /\ Tail(c) \in Seq(Msgs \cup {NoMsg, Torn}) /\ Len(Tail(c)) = n - 1
      /\ \A i \in 1 .. n - 1 : Tail(c)[i] = c[i + 1]
  BY <1>3, <1>5, HeadTailProperties
<1>7. ASSUME NEW i \in 1 .. n - 1 PROVE Contents(r)[i] = Tail(c)[i]
  <2>1. i + 1 \in 1 .. n /\ (q.tail + 1) + i - 1 = q.tail + (i + 1) - 1
    BY <1>2
  <2>2. QED
    BY <1>3, <1>4, <1>6, <2>1
<1>8. Contents(r) = Tail(c)
  BY <1>2, <1>4, <1>6, <1>7, SeqEqual
<1>9. QED
  BY <1>5, <1>8 DEF r, c

(* msg_queue_init leaves nothing in the ring. *)
LEMMA EmptyContents == Contents(EmptyQueue) = <<>>
<1>1. Contents(EmptyQueue) \in Seq(Msgs \cup {NoMsg, Torn}) /\ Len(Contents(EmptyQueue)) = 0
  BY EmptyQueueFacts, ContentsLength DEF EmptyQueue, Aligned
<1>2. QED
  BY <1>1, EmptySeq

-----------------------------------------------------------------------------
(* put_msg and get_msg where nothing comes between their updates.          *)

LEMMA PutCommitFacts ==
  ASSUME NEW q \in QueueType, Aligned(q), q.head < MSG_MAX,
         ~PutOverflows(q), NEW m \in Msgs \cup {NoMsg, Torn}
  PROVE  /\ PutCommit(q, m) \in QueueType /\ Aligned(PutCommit(q, m))
         /\ PutCommit(q, m).msg_amount = q.msg_amount + 1
         /\ Len(Contents(q)) < MSG_MAX - 1
         /\ Contents(PutCommit(q, m)) = Append(Contents(q), m)
<1> DEFINE r == PutMove(q, m)
           s == PutCount(r)
<1>1. Held(q) < MSG_MAX - 1 /\ Held(q) \in Nat /\ q.add_count \in Nat
      /\ q.extract_count \in Nat
  BY HeldType, QueueAssumption DEF Aligned, Indexed, PutOverflows, QueueType
<1>2. /\ r \in QueueType /\ Held(r) = Held(q) + 1 /\ r.msg_amount = q.msg_amount
      /\ r.add_count = q.add_count /\ r.extract_count = q.extract_count
      /\ Contents(r) = Append(Contents(q), m)
  BY <1>1, PutMoveFacts, PutMoveContents
<1> HIDE DEF r
<1>3. /\ s \in QueueType /\ Held(s) = Held(q) + 1 /\ s.msg_amount = q.msg_amount + 1
      /\ s.add_count = q.add_count /\ s.extract_count = q.extract_count
      /\ Contents(s) = Append(Contents(q), m)
  BY <1>2, PutCountFacts, CountersContents
<1> HIDE DEF s
<1>4. /\ PutAdd(s) \in QueueType /\ Held(PutAdd(s)) = Held(q) + 1
      /\ PutAdd(s).msg_amount = q.msg_amount + 1
      /\ PutAdd(s).add_count = q.add_count + 1
      /\ PutAdd(s).extract_count = q.extract_count
      /\ Contents(PutAdd(s)) = Append(Contents(q), m)
  BY <1>3, PutCountFacts, CountersContents
<1>5. Aligned(PutAdd(s))
  <2>1. q.msg_amount = Held(q) /\ q.msg_amount + q.extract_count = q.add_count
    BY DEF Aligned
  <2>2. Held(q) + 1 < MSG_MAX
    BY <1>1, QueueAssumption
  <2>3. QED
    BY <1>1, <1>4, <2>1, <2>2 DEF Aligned, Indexed
<1>6. Len(Contents(q)) < MSG_MAX - 1
  BY <1>1, ContentsLength DEF Aligned
<1>7. QED
  BY <1>4, <1>5, <1>6 DEF PutCommit, r, s

LEMMA GetCommitFacts ==
  ASSUME NEW q \in QueueType, Aligned(q), q.tail < MSG_MAX, ~GetUnderflows(q)
  PROVE  /\ GetCommit(q) \in QueueType /\ Aligned(GetCommit(q))
         /\ GetCommit(q).msg_amount = q.msg_amount - 1
         /\ Contents(q) # <<>> /\ Contents(GetCommit(q)) = Tail(Contents(q))
<1> DEFINE r == GetMove(q)
           s == GetCount(r)
<1>1. Held(q) > 0 /\ Held(q) \in Nat /\ q.add_count \in Nat /\ q.extract_count \in Nat
      /\ Indexed(q) /\ q.msg_amount = Held(q)
  BY HeldType DEF Aligned, GetUnderflows, QueueType
<1>2. /\ r \in QueueType /\ Held(r) = Held(q) - 1 /\ r.msg_amount = q.msg_amount
      /\ r.add_count = q.add_count /\ r.extract_count = q.extract_count
      /\ Contents(q) # <<>> /\ Contents(r) = Tail(Contents(q))
  BY <1>1, GetMoveFacts, GetMoveContents
<1> HIDE DEF r
<1>3. /\ s \in QueueType /\ Held(s) = Held(q) - 1 /\ s.msg_amount = q.msg_amount - 1
      /\ s.add_count = q.add_count /\ s.extract_count = q.extract_count
      /\ Contents(s) = Tail(Contents(q))
  BY <1>1, <1>2, GetCountFacts, CountersContents
<1> HIDE DEF s
<1>4. /\ GetExtract(s) \in QueueType /\ Held(GetExtract(s)) = Held(q) - 1
      /\ GetExtract(s).msg_amount = q.msg_amount - 1
      /\ GetExtract(s).add_count = q.add_count
      /\ GetExtract(s).extract_count = q.extract_count + 1
      /\ Contents(GetExtract(s)) = Tail(Contents(q))
  BY <1>3, GetCountFacts, CountersContents
<1>5. Aligned(GetExtract(s))
  BY <1>1, <1>4, QueueAssumption DEF Aligned, Indexed
<1>6. QED
  BY <1>2, <1>4, <1>5 DEF GetCommit, r, s
=============================================================================
