------------------------------ MODULE MsgQueue ------------------------------
(***************************************************************************)
(* The message ring of LAB_4/src/ipc.c.  LAB_5/src/ipc.c is the same code  *)
(* on a global instead of a shared mapping.                                *)
(*                                                                         *)
(* A message is an opaque value.  put_msg and get_msg copy a whole msg_t   *)
(* and then update an index and two counters, one after the other: each of *)
(* these is an operator, so that a process may be interrupted, or meet     *)
(* another one, between any two of them.  While a copy into a slot is      *)
(* under way the slot is Torn.                                             *)
(***************************************************************************)
EXTENDS Naturals, Sequences

CONSTANTS
  MSG_MAX,   (* number of slots of queue->buffer                           *)
  Msgs,      (* messages produce_msg may build                             *)
  NoMsg,     (* a zeroed slot, or a local msg_t that holds nothing yet     *)
  Torn       (* a slot half overwritten by a copy                          *)

ASSUME QueueAssumption ==
  /\ MSG_MAX \in Nat /\ MSG_MAX > 1
  /\ NoMsg \notin Msgs /\ Torn \notin Msgs /\ NoMsg # Torn

Slots == 0 .. MSG_MAX - 1

(* msg_queue: the counters are size_t, bounded by MaxAdds in the modules   *)
(* that use them.                                                          *)
QueueType ==
  [add_count : Nat, extract_count : Nat, msg_amount : Nat,
   head : 0 .. MSG_MAX, tail : 0 .. MSG_MAX,
   buffer : [Slots -> Msgs \cup {NoMsg, Torn}]]

(* msg_queue_init *)
EmptyQueue ==
  [add_count |-> 0, extract_count |-> 0, msg_amount |-> 0,
   head |-> 0, tail |-> 0, buffer |-> [i \in Slots |-> NoMsg]]

(* head and tail wrap lazily: they may rest at MSG_MAX between two calls. *)
Wrap(i) == IF i = MSG_MAX THEN 0 ELSE i

(* Bug: the overflow test lets the last slot be used. *)
OverflowsLate(q) == q.msg_amount = MSG_MAX

(* The test that makes put_msg report an overflow and exit. *)
PutOverflows(q) == q.msg_amount = MSG_MAX - 1

PutCopy(q) == [q EXCEPT !.head = Wrap(@), !.buffer[Wrap(q.head)] = Torn]

(* The copy ends, and ++queue->head. *)
PutMove(q, m) == [q EXCEPT !.buffer[q.head] = m, !.head = @ + 1]
PutCount(q) == [q EXCEPT !.msg_amount = @ + 1]
PutAdd(q) == [q EXCEPT !.add_count = @ + 1]

(* All of them, where nothing can come between. *)
PutCommit(q, m) == PutAdd(PutCount(PutMove(q, m)))

(* Bug: get_msg without its underflow test. *)
NeverUnderflows(q) == FALSE

(* The test that makes get_msg report an underflow and exit. *)
GetUnderflows(q) == q.msg_amount = 0

GetCopy(q) == [q EXCEPT !.tail = Wrap(@)]

(* The message that the copy out of the ring reads. *)
TailMsg(q) == q.buffer[Wrap(q.tail)]

(* Bug: get_msg forgets ++tail. *)
GetKeepsTail(q) == q

GetMove(q) == [q EXCEPT !.tail = @ + 1]

GetCount(q) == [q EXCEPT !.msg_amount = @ - 1]
GetExtract(q) == [q EXCEPT !.extract_count = @ + 1]

GetCommit(q) == GetExtract(GetCount(GetMove(q)))

(* The slot that is i slots after slot 0, around the ring. *)
SlotAt(i) == IF i < MSG_MAX THEN i ELSE i - MSG_MAX

(* How many messages lie between the indices; one slot is never used.      *)
Held(q) == IF q.head < q.tail THEN q.head + MSG_MAX - q.tail ELSE q.head - q.tail

(* The messages in the ring, oldest first, which its indices alone decide. *)
Contents(q) == [i \in 1 .. Held(q) |-> q.buffer[SlotAt(q.tail + i - 1)]]
=============================================================================
