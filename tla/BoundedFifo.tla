---------------------------- MODULE BoundedFifo -----------------------------
(***************************************************************************)
(* What the message queues of LAB_4, LAB_5 and LAB_7 promise: messages     *)
(* leave in the order they entered, none is lost, duplicated or altered,   *)
(* and no more than Capacity are held.  Starting the program again empties *)
(* the queue.                                                              *)
(***************************************************************************)
EXTENDS Naturals, Sequences

CONSTANTS Msgs, Capacity

VARIABLES
  fifo,   (* the messages held, oldest first   *)
  epoch   (* how often the program was started *)

Init == fifo = <<>> /\ epoch \in Nat

Put ==
  /\ Len(fifo) < Capacity
  /\ \E m \in Msgs : fifo' = Append(fifo, m)
  /\ UNCHANGED epoch

Get == fifo # <<>> /\ fifo' = Tail(fifo) /\ UNCHANGED epoch

Reset == fifo' = <<>> /\ epoch' = epoch + 1

Next == Put \/ Get \/ Reset

Spec == Init /\ [][Next]_<<fifo, epoch>>
=============================================================================
