------------------------- MODULE ProcessQueueProofs -------------------------
(***************************************************************************)
(* What holds of LAB_4's queue for every number of processes, every length *)
(* of the ring and every number of restarts.                               *)
(***************************************************************************)
EXTENDS ProcessQueue, MsgQueueProofs, FiniteSetTheorems, SequenceTheorems

Labels == ProducerPC \cup ConsumerPC

(* Between two updates of put_msg or get_msg: what a child killed there    *)
(* leaves behind differs by one, and by no more.                           *)
Between == {"p_moved", "p_counted", "c_moved", "c_counted"}

(* A child at the copy of put_msg or get_msg finds the index it is about   *)
(* to use inside the ring, and the ring not full or not empty.             *)
RingAt(l, q) ==
  /\ l = "p_copied" => q.head < MSG_MAX /\ ~PutOverflows(q)
  /\ l = "p_moved" => /\ Held(q) = q.msg_amount + 1
                      /\ q.msg_amount + q.extract_count = q.add_count
  /\ l = "p_counted" => /\ Held(q) = q.msg_amount
                        /\ q.msg_amount + q.extract_count = q.add_count + 1
  /\ l = "c_copied" => q.tail < MSG_MAX /\ ~GetUnderflows(q)
  /\ l = "c_moved" => /\ Held(q) + 1 = q.msg_amount
                      /\ q.msg_amount + q.extract_count = q.add_count
  /\ l = "c_counted" => /\ Held(q) = q.msg_amount
                        /\ q.msg_amount + q.extract_count + 1 = q.add_count

RingInv ==
  /\ Indexed(queue)
  /\ (\A p \in Pids : pc[p] \notin Between) => Aligned(queue)
  /\ \A p \in Pids : RingAt(pc[p], queue)

(* MutualExclusion, said with pc instead of At. *)
MutexInv ==
  /\ sem["mutex"] <= 1
  /\ \A p \in Pids : pc[p] \in InCritical =>
       sem["mutex"] = 0 /\ \A q \in Pids : pc[q] \in InCritical => q = p

(* TypeOK without what a child's own steps change. *)
RestOK ==
  /\ names \subseteq Range(UnlinkOrder)
  /\ fresh \in BOOLEAN /\ boots \in Nat
  /\ running \subseteq Pids /\ zombies \subseteq Pids
  /\ doomed \subseteq Pids \cup {Parent}
  /\ unwind \in [Pids \cup {Parent} -> NotExiting .. 4]
  /\ parent \in ParentPC
  /\ producers \in Seq(Pids) /\ consumers \in Seq(Pids)
  /\ victims \in Seq(Pids)

ChildOK ==
  /\ queue \in QueueType
  /\ sem \in [Sems -> Nat]
  /\ pc \in [Pids -> Labels \cup {"unborn"}]
  /\ msg \in [Pids -> Msgs \cup {NoMsg, Torn}]

(* TypeOK alone is not inductive: that head stays in 0 .. MSG_MAX depends  *)
(* on the mutex.                                                           *)
Core == ChildOK /\ RestOK /\ MutexInv /\ RingInv

-----------------------------------------------------------------------------

LEMMA CoreParts == Core => TypeOK /\ MutualExclusion
<1> SUFFICES ASSUME Core PROVE TypeOK /\ MutualExclusion
  OBVIOUS
<1>1. TypeOK
  BY DEF Core, ChildOK, RestOK, TypeOK, Labels
<1>2. MutualExclusion
  BY DEF Core, MutexInv, MutualExclusion, At
<1>3. QED
  BY <1>1, <1>2

LEMMA InitCore == Init => Core
<1> SUFFICES ASSUME Init PROVE Core
  OBVIOUS
<1>1. ChildOK
  <2>1. sem \in [Sems -> Nat]
    BY QueueAssumption DEF Init, InitialCount, Sems
  <2>2. QED
    BY <2>1, EmptyQueueFacts DEF Init, ChildOK
<1>2. RestOK
  BY DEF Init, RestOK, NotExiting, ParentPC
<1>3. MutexInv /\ RingInv
  BY EmptyQueueFacts
     DEF Init, MutexInv, RingInv, RingAt, Aligned, InitialCount, Sems, InCritical
<1>4. QED
  BY <1>1, <1>2, <1>3 DEF Core

(* What a step of a child leaves alone, and where it leads. *)
LEMMA StepFacts ==
  ASSUME Core, NEW p \in Pids, NEW from, NEW to \in Labels, Step(p, from, to)
  PROVE  /\ RestOK' /\ pc' \in [Pids -> Labels \cup {"unborn"}]
         /\ pc[p] = from /\ pc'[p] = to
         /\ \A q \in Pids \ {p} : pc'[q] = pc[q]
  BY DEF Core, ChildOK, RestOK, Step, arrays

(* Semaphores. *)
LEMMA SemFacts ==
  ASSUME Core, NEW n \in Sems
  PROVE  /\ SemWait(n) => /\ sem' \in [Sems -> Nat] /\ sem[n] > 0
                          /\ sem'[n] = sem[n] - 1
                          /\ \A k \in Sems \ {n} : sem'[k] = sem[k]
         /\ SemPost(n) => /\ sem' \in [Sems -> Nat] /\ sem'[n] = sem[n] + 1
                          /\ \A k \in Sems \ {n} : sem'[k] = sem[k]
  BY DEF Core, ChildOK, SemWait, SemPost

LEMMA RingPrime ==
  /\ Indexed(queue)' = Indexed(queue') /\ Aligned(queue)' = Aligned(queue')
  /\ \A q \in Pids : RingAt(pc[q], queue)' = RingAt(pc'[q], queue')
<1>1. Indexed(queue)' = Indexed(queue') /\ Aligned(queue)' = Aligned(queue')
  BY DEF Indexed, Aligned, Held
<1>2. \A q \in Pids : RingAt(pc[q], queue)' = RingAt(pc'[q], queue')
  BY DEF RingAt, PutOverflows, GetUnderflows, Held
<1>3. QED
  BY <1>1, <1>2

(* Nothing happens to the ring when a child goes between labels at which   *)
(* it relies on nothing.                                                   *)
LEMMA RingKept ==
  ASSUME Core, NEW p \in Pids, queue' = queue, pc[p] \notin Between,
         pc'[p] \notin Between \cup {"p_copied", "c_copied"},
         \A q \in Pids \ {p} : pc'[q] = pc[q]
  PROVE  RingInv'
<1>1. RingAt(pc'[p], queue')
  BY DEF RingAt, Between
<1>2. \A q \in Pids : RingAt(pc'[q], queue')
  BY <1>1 DEF Core, RingInv
<1>3. (\A q \in Pids : pc'[q] \notin Between) => Aligned(queue')
  BY DEF Core, RingInv
<1>4. Indexed(queue')
  BY DEF Core, RingInv
<1>5. QED
  BY <1>2, <1>3, <1>4, RingPrime DEF RingInv

(* A wait on, or post of, a semaphore other than the mutex, outside the    *)
(* critical section.                                                       *)
LEMMA CountingStep ==
  ASSUME Core, NEW p \in Pids, NEW n \in {"free_space", "items"},
         NEW from \in Labels \ InCritical, NEW to \in Labels \ InCritical,
         SemWaitStep(p, from, n, to) \/ SemPostStep(p, from, n, to)
  PROVE  Core'
<1>1. Step(p, from, to) /\ UNCHANGED <<queue, msg>> /\ (SemWait(n) \/ SemPost(n))
  BY DEF SemWaitStep, SemPostStep
<1>2. sem' \in [Sems -> Nat] /\ sem'["mutex"] = sem["mutex"]
  BY <1>1, SemFacts DEF Sems
<1>3. ChildOK' /\ RestOK'
  BY <1>1, <1>2, StepFacts DEF Core, ChildOK
<1>4. MutexInv'
  BY <1>1, <1>2, StepFacts DEF Core, MutexInv
<1>5. RingInv'
  <2>1. to \notin Between \cup {"p_copied", "c_copied"} /\ from \notin Between
    BY DEF InCritical, Between
  <2>2. QED
    BY <1>1, <2>1, StepFacts, RingKept
<1>6. QED
  BY <1>3, <1>4, <1>5 DEF Core

(* Taking the mutex. *)
LEMMA LockStep ==
  ASSUME Core, NEW p \in Pids,
         NEW from \in Labels \ InCritical, NEW to \in {"p_put", "c_get"},
         SemWaitStep(p, from, "mutex", to)
  PROVE  Core'
<1>1. Step(p, from, to) /\ UNCHANGED <<queue, msg>> /\ SemWait("mutex") /\ to \in Labels
  BY DEF SemWaitStep, Labels, ProducerPC, ConsumerPC
<1>2. sem' \in [Sems -> Nat] /\ sem["mutex"] = 1 /\ sem'["mutex"] = 0
  BY <1>1, SemFacts DEF Sems, Core, MutexInv, ChildOK
<1>3. ChildOK' /\ RestOK'
  BY <1>1, <1>2, StepFacts DEF Core, ChildOK
<1>4. MutexInv'
  BY <1>1, <1>2, StepFacts DEF Core, MutexInv
<1>5. RingInv'
  <2>1. to \notin Between \cup {"p_copied", "c_copied"} /\ from \notin Between
    BY DEF InCritical, Between
  <2>2. QED
    BY <1>1, <2>1, StepFacts, RingKept
<1>6. QED
  BY <1>3, <1>4, <1>5 DEF Core

(* Giving it back. *)
LEMMA UnlockStep ==
  ASSUME Core, NEW p \in Pids,
         NEW from \in {"p_unlock", "c_unlock"}, NEW to \in Labels \ InCritical,
         SemPostStep(p, from, "mutex", to)
  PROVE  Core'
<1>1. Step(p, from, to) /\ UNCHANGED <<queue, msg>> /\ SemPost("mutex")
      /\ from \in InCritical
  BY DEF SemPostStep, InCritical
<1>2. sem' \in [Sems -> Nat] /\ sem["mutex"] = 0 /\ sem'["mutex"] = 1
  BY <1>1, SemFacts, StepFacts DEF Sems, Core, MutexInv
<1>3. ChildOK' /\ RestOK'
  BY <1>1, <1>2, StepFacts DEF Core, ChildOK
<1>4. MutexInv'
  BY <1>1, <1>2, StepFacts DEF Core, MutexInv
<1>5. RingInv'
  <2>1. to \notin Between \cup {"p_copied", "c_copied"} /\ from \notin Between
    BY DEF InCritical, Between
  <2>2. QED
    BY <1>1, <2>1, StepFacts, RingKept
<1>6. QED
  BY <1>3, <1>4, <1>5 DEF Core

(* Steps outside the critical section that change only pc and msg. *)
LEMMA QuietStep ==
  ASSUME Core, NEW p \in Pids,
         NEW from \in Labels \ InCritical, NEW to \in Labels \ InCritical,
         Step(p, from, to), UNCHANGED <<queue, sem>>,
         msg' \in [Pids -> Msgs \cup {NoMsg, Torn}]
  PROVE  Core'
<1>1. ChildOK' /\ RestOK'
  BY StepFacts DEF Core, ChildOK
<1>2. MutexInv'
  BY StepFacts DEF Core, MutexInv
<1>3. RingInv'
  <2>1. to \notin Between \cup {"p_copied", "c_copied"} /\ from \notin Between
    BY DEF InCritical, Between
  <2>2. QED
    BY <2>1, StepFacts, RingKept
<1>4. QED
  BY <1>1, <1>2, <1>3 DEF Core

(* Steps inside the critical section: nobody else is there to rely on the  *)
(* index that moves.                                                       *)
LEMMA CriticalStep ==
  ASSUME Core, NEW p \in Pids, NEW from \in InCritical, NEW to \in InCritical,
         Step(p, from, to), UNCHANGED sem,
         queue' \in QueueType, Indexed(queue'), RingAt(to, queue'),
         to \notin Between => Aligned(queue'),
         msg' \in [Pids -> Msgs \cup {NoMsg, Torn}]
  PROVE  Core'
<1>0. to \in Labels
  BY DEF InCritical, Labels, ProducerPC, ConsumerPC
<1>1. ChildOK' /\ RestOK'
  BY <1>0, StepFacts DEF Core, ChildOK
<1>2. MutexInv'
  BY <1>0, StepFacts DEF Core, MutexInv
<1>3. RingInv'
  <2>1. /\ pc'[p] = to
        /\ \A q \in Pids \ {p} : pc'[q] \notin Between \cup {"p_copied", "c_copied"}
    BY <1>0, StepFacts DEF Core, MutexInv, InCritical, Between
  <2>2. \A q \in Pids : RingAt(pc'[q], queue')
    <3>1. ASSUME NEW q \in Pids \ {p} PROVE RingAt(pc'[q], queue')
      BY <2>1 DEF RingAt, Between
    <3>2. QED
      BY <2>1, <3>1
  <2>3. (\A q \in Pids : pc'[q] \notin Between) => Aligned(queue')
    BY <2>1
  <2>4. QED
    BY <2>2, <2>3, RingPrime DEF RingInv
<1>4. QED
  BY <1>1, <1>2, <1>3 DEF Core

(* What the ring is for a child inside. *)
LEMMA InsideFacts ==
  ASSUME Core, NEW p \in Pids, pc[p] \in InCritical
  PROVE  /\ queue \in QueueType /\ Indexed(queue) /\ RingAt(pc[p], queue)
         /\ pc[p] \notin Between => Aligned(queue)
         /\ msg \in [Pids -> Msgs \cup {NoMsg, Torn}]
         /\ Held(queue) \in Nat /\ queue.msg_amount \in Nat
         /\ queue.add_count \in Nat /\ queue.extract_count \in Nat
<1>1. \A q \in Pids \ {p} : pc[q] \notin Between
  BY DEF Core, MutexInv, Between, InCritical
<1>2. queue \in QueueType
  BY DEF Core, ChildOK
<1>3. /\ Held(queue) \in Nat /\ queue.msg_amount \in Nat
      /\ queue.add_count \in Nat /\ queue.extract_count \in Nat
  BY <1>2, HeldType DEF QueueType
<1>4. QED
  BY <1>1, <1>2, <1>3 DEF Core, ChildOK, RingInv

LEMMA BeginPutCore == ASSUME Core, NEW p \in Pids, BeginPut(p) PROVE Core'
<1>1. /\ Step(p, "p_put", "p_copied") /\ UNCHANGED <<sem, msg>> /\ pc[p] = "p_put"
      /\ queue' = PutCopy(queue) /\ ~PutOverflows(queue)
  BY DEF BeginPut, Step
<1>2. /\ queue \in QueueType /\ Indexed(queue) /\ Aligned(queue)
      /\ msg' \in [Pids -> Msgs \cup {NoMsg, Torn}]
  BY <1>1, InsideFacts DEF InCritical, Between
<1>3. /\ queue' \in QueueType /\ Aligned(queue') /\ Indexed(queue')
      /\ queue'.head < MSG_MAX /\ ~PutOverflows(queue')
  BY <1>1, <1>2, PutCopyFacts DEF PutOverflows, Aligned, Indexed
<1>4. RingAt("p_copied", queue')
  BY <1>3 DEF RingAt
<1>5. QED
  BY <1>1, <1>2, <1>3, <1>4, CriticalStep DEF InCritical

LEMMA MoveHeadCore == ASSUME Core, NEW p \in Pids, MoveHead(p) PROVE Core'
<1>1. /\ Step(p, "p_copied", "p_moved") /\ UNCHANGED <<sem, msg>> /\ pc[p] = "p_copied"
      /\ queue' = PutMove(queue, msg[p])
  BY DEF MoveHead, Step
<1>2. /\ queue \in QueueType /\ Aligned(queue) /\ Held(queue) \in Nat
      /\ queue.head < MSG_MAX /\ ~PutOverflows(queue) /\ Indexed(queue)
      /\ msg[p] \in Msgs \cup {NoMsg, Torn}
      /\ msg' \in [Pids -> Msgs \cup {NoMsg, Torn}]
  BY <1>1, InsideFacts DEF RingAt, InCritical, Between
<1>3. Held(queue) < MSG_MAX - 1 /\ queue.msg_amount = Held(queue)
      /\ queue.msg_amount + queue.extract_count = queue.add_count
  BY <1>2, QueueAssumption DEF Aligned, Indexed, PutOverflows
<1>4. /\ queue' \in QueueType /\ Held(queue') = queue'.msg_amount + 1
      /\ Indexed(queue') /\ queue'.msg_amount + queue'.extract_count = queue'.add_count
  BY <1>1, <1>2, <1>3, PutMoveFacts, QueueAssumption DEF Indexed
<1>5. RingAt("p_moved", queue')
  BY <1>4 DEF RingAt
<1>6. QED
  BY <1>1, <1>2, <1>4, <1>5, CriticalStep DEF InCritical, Between

LEMMA CountPutCore == ASSUME Core, NEW p \in Pids, CountPut(p) PROVE Core'
<1>1. /\ Step(p, "p_moved", "p_counted") /\ UNCHANGED <<sem, msg>> /\ pc[p] = "p_moved"
      /\ queue' = PutCount(queue)
  BY DEF CountPut, Step
<1>2. /\ queue \in QueueType /\ Indexed(queue) /\ Held(queue) = queue.msg_amount + 1
      /\ queue.msg_amount + queue.extract_count = queue.add_count
      /\ queue.msg_amount \in Nat /\ queue.add_count \in Nat /\ queue.extract_count \in Nat
      /\ msg' \in [Pids -> Msgs \cup {NoMsg, Torn}]
  BY <1>1, InsideFacts DEF RingAt, InCritical
<1>3. /\ queue' \in QueueType /\ Indexed(queue') /\ Held(queue') = queue'.msg_amount
      /\ queue'.msg_amount + queue'.extract_count = queue'.add_count + 1
  BY <1>1, <1>2, PutCountFacts DEF Indexed
<1>4. RingAt("p_counted", queue')
  BY <1>3 DEF RingAt
<1>5. QED
  BY <1>1, <1>2, <1>3, <1>4, CriticalStep DEF InCritical, Between

LEMMA EndPutCore == ASSUME Core, NEW p \in Pids, EndPut(p) PROVE Core'
<1>1. /\ Step(p, "p_counted", "p_unlock") /\ UNCHANGED sem /\ pc[p] = "p_counted"
      /\ queue' = PutAdd(queue) /\ msg' = [msg EXCEPT ![p] = NoMsg]
  BY DEF EndPut, Step
<1>2. /\ queue \in QueueType /\ Indexed(queue) /\ Held(queue) = queue.msg_amount
      /\ queue.msg_amount + queue.extract_count = queue.add_count + 1
      /\ queue.msg_amount \in Nat /\ queue.add_count \in Nat /\ queue.extract_count \in Nat
      /\ msg' \in [Pids -> Msgs \cup {NoMsg, Torn}]
  BY <1>1, InsideFacts DEF RingAt, InCritical
<1>3. queue' \in QueueType /\ Indexed(queue') /\ Aligned(queue')
  BY <1>1, <1>2, PutCountFacts DEF Indexed, Aligned
<1>4. RingAt("p_unlock", queue')
  BY DEF RingAt
<1>5. QED
  BY <1>1, <1>2, <1>3, <1>4, CriticalStep DEF InCritical

LEMMA BeginGetCore == ASSUME Core, NEW p \in Pids, BeginGet(p) PROVE Core'
<1>1. /\ Step(p, "c_get", "c_copied") /\ UNCHANGED sem /\ pc[p] = "c_get"
      /\ queue' = GetCopy(queue) /\ ~GetUnderflows(queue)
      /\ msg' = [msg EXCEPT ![p] = TailMsg(queue)]
  BY DEF BeginGet, Step
<1>2. /\ queue \in QueueType /\ Indexed(queue) /\ Aligned(queue) /\ Held(queue) > 0
      /\ msg \in [Pids -> Msgs \cup {NoMsg, Torn}]
  BY <1>1, InsideFacts DEF InCritical, Between, Aligned, GetUnderflows
<1>3. /\ queue' \in QueueType /\ Aligned(queue') /\ Indexed(queue')
      /\ queue'.tail < MSG_MAX /\ ~GetUnderflows(queue')
      /\ TailMsg(queue) \in Msgs \cup {NoMsg, Torn}
  BY <1>1, <1>2, GetCopyFacts DEF GetUnderflows, Aligned, Indexed
<1>4. RingAt("c_copied", queue')
  BY <1>3 DEF RingAt
<1>5. QED
  BY <1>1, <1>2, <1>3, <1>4, CriticalStep DEF InCritical

LEMMA MoveTailCore == ASSUME Core, NEW p \in Pids, MoveTail(p) PROVE Core'
<1>1. /\ Step(p, "c_copied", "c_moved") /\ UNCHANGED <<sem, msg>> /\ pc[p] = "c_copied"
      /\ queue' = GetMove(queue)
  BY DEF MoveTail, Step
<1>2. /\ queue \in QueueType /\ Aligned(queue) /\ Held(queue) \in Nat
      /\ queue.tail < MSG_MAX /\ ~GetUnderflows(queue) /\ Indexed(queue)
      /\ msg' \in [Pids -> Msgs \cup {NoMsg, Torn}]
  BY <1>1, InsideFacts DEF RingAt, InCritical, Between
<1>3. Held(queue) > 0 /\ queue.msg_amount = Held(queue)
      /\ queue.msg_amount + queue.extract_count = queue.add_count
  BY <1>2 DEF Aligned, GetUnderflows
<1>4. /\ queue' \in QueueType /\ Held(queue') + 1 = queue'.msg_amount
      /\ Indexed(queue') /\ queue'.msg_amount + queue'.extract_count = queue'.add_count
  BY <1>1, <1>2, <1>3, GetMoveFacts, QueueAssumption DEF Indexed
<1>5. RingAt("c_moved", queue')
  BY <1>4 DEF RingAt
<1>6. QED
  BY <1>1, <1>2, <1>4, <1>5, CriticalStep DEF InCritical, Between

LEMMA CountGetCore == ASSUME Core, NEW p \in Pids, CountGet(p) PROVE Core'
<1>1. /\ Step(p, "c_moved", "c_counted") /\ UNCHANGED <<sem, msg>> /\ pc[p] = "c_moved"
      /\ queue' = GetCount(queue)
  BY DEF CountGet, Step
<1>2. /\ queue \in QueueType /\ Indexed(queue) /\ Held(queue) + 1 = queue.msg_amount
      /\ queue.msg_amount + queue.extract_count = queue.add_count
      /\ queue.msg_amount \in Nat /\ queue.add_count \in Nat /\ queue.extract_count \in Nat
      /\ Held(queue) \in Nat /\ msg' \in [Pids -> Msgs \cup {NoMsg, Torn}]
  BY <1>1, InsideFacts DEF RingAt, InCritical
<1>3. /\ queue' \in QueueType /\ Indexed(queue') /\ Held(queue') = queue'.msg_amount
      /\ queue'.msg_amount + queue'.extract_count + 1 = queue'.add_count
  <2>1. queue.msg_amount > 0
    BY <1>2
  <2>2. queue' \in QueueType
    BY <1>1, <1>2, <2>1, GetCountFacts
  <2>3. /\ Held(queue') = Held(queue) /\ queue'.msg_amount = queue.msg_amount - 1
        /\ queue'.add_count = queue.add_count
        /\ queue'.extract_count = queue.extract_count
    BY <1>1, <1>2, GetCountFacts
  <2>4. QED
    BY <1>2, <2>2, <2>3 DEF Indexed
<1>4. RingAt("c_counted", queue')
  BY <1>3 DEF RingAt
<1>5. QED
  BY <1>1, <1>2, <1>3, <1>4, CriticalStep DEF InCritical, Between

LEMMA EndGetCore == ASSUME Core, NEW p \in Pids, EndGet(p) PROVE Core'
<1>1. /\ Step(p, "c_counted", "c_unlock") /\ UNCHANGED <<sem, msg>> /\ pc[p] = "c_counted"
      /\ queue' = GetExtract(queue)
  BY DEF EndGet, Step
<1>2. /\ queue \in QueueType /\ Indexed(queue) /\ Held(queue) = queue.msg_amount
      /\ queue.msg_amount + queue.extract_count + 1 = queue.add_count
      /\ queue.msg_amount \in Nat /\ queue.add_count \in Nat /\ queue.extract_count \in Nat
      /\ msg' \in [Pids -> Msgs \cup {NoMsg, Torn}]
  BY <1>1, InsideFacts DEF RingAt, InCritical
<1>3. queue' \in QueueType /\ Indexed(queue') /\ Aligned(queue')
  BY <1>1, <1>2, GetCountFacts DEF Indexed, Aligned
<1>4. RingAt("c_unlock", queue')
  BY DEF RingAt
<1>5. QED
  BY <1>1, <1>2, <1>3, <1>4, CriticalStep DEF InCritical

LEMMA ProduceConsumeCore ==
  ASSUME Core, NEW p \in Pids, Produce(p) \/ Consume(p) PROVE Core'
<1>1. msg' \in [Pids -> Msgs \cup {NoMsg, Torn}] /\ UNCHANGED <<queue, sem>>
  BY DEF Core, ChildOK, Produce, Consume
<1>2. Step(p, "p_produce", "p_free") \/ Step(p, "c_consume", "c_items")
  BY DEF Produce, Consume
<1>3. QED
  BY <1>1, <1>2, QuietStep DEF InCritical, Labels, ProducerPC, ConsumerPC

LEMMA SemaphoreStepsCore ==
  ASSUME Core, NEW p \in Pids,
         \/ WaitFree(p) \/ LockToPut(p) \/ UnlockAfterPut(p) \/ PostItem(p)
         \/ WaitItem(p) \/ LockToGet(p) \/ UnlockAfterGet(p) \/ PostFree(p)
  PROVE  Core'
<1> USE DEF InCritical, Labels, ProducerPC, ConsumerPC
<1>1. CASE WaitFree(p) BY <1>1, CountingStep DEF WaitFree
<1>2. CASE LockToPut(p) BY <1>2, LockStep DEF LockToPut
<1>3. CASE UnlockAfterPut(p) BY <1>3, UnlockStep DEF UnlockAfterPut
<1>4. CASE PostItem(p) BY <1>4, CountingStep DEF PostItem
<1>5. CASE WaitItem(p) BY <1>5, CountingStep DEF WaitItem
<1>6. CASE LockToGet(p) BY <1>6, LockStep DEF LockToGet
<1>7. CASE UnlockAfterGet(p) BY <1>7, UnlockStep DEF UnlockAfterGet
<1>8. CASE PostFree(p) BY <1>8, CountingStep DEF PostFree
<1>9. QED
  BY <1>1, <1>2, <1>3, <1>4, <1>5, <1>6, <1>7, <1>8

(* Everything that leaves the ring, the semaphores, pc and msg alone: what *)
(* the parent does (fork and restart apart), signals, and exit().          *)
LEMMA SystemStep ==
  ASSUME Core, UNCHANGED <<queue, sem, pc, msg>>, RestOK'
  PROVE  Core'
<1>1. ChildOK' /\ MutexInv' /\ RingInv'
  BY DEF Core, ChildOK, MutexInv, RingInv
<1>2. QED
  BY <1>1 DEF Core

LEMMA ExitingChildCore ==
  ASSUME Core, NEW p \in Pids,
         CallExit(p) \/ KillParent(p) \/ UnlinkInChild(p) \/ Die(p)
  PROVE  Core'
<1>1. RestOK /\ UNCHANGED <<queue, sem, pc, msg>>
  BY DEF Core, CallExit, KillParent, UnlinkInChild, Unlinks, Die, ipc, childVars
<1>2. CASE CallExit(p)
  BY <1>1, <1>2, SystemStep DEF CallExit, RestOK, ipc, childVars, arrays, NotExiting
<1>3. CASE KillParent(p)
  BY <1>1, <1>3, SystemStep DEF KillParent, RestOK, ipc, arrays, NotExiting
<1>4. CASE UnlinkInChild(p)
  BY <1>1, <1>4, SystemStep
     DEF UnlinkInChild, Unlinks, LastUnlink, RestOK, arrays, NotExiting
<1>5. CASE Die(p)
  BY <1>1, <1>5, SystemStep DEF Die, RestOK, ipc, arrays
<1>6. QED
  BY <1>2, <1>3, <1>4, <1>5

(* Sequences of processes. *)
LEMMA SequenceFacts ==
  ASSUME NEW s \in Seq(Pids)
  PROVE  /\ \A p \in Pids : Append(s, p) \in Seq(Pids) /\ Len(Append(s, p)) = Len(s) + 1
         /\ \A t \in Seq(Pids) : s \o t \in Seq(Pids) /\ Len(s \o t) = Len(s) + Len(t)
         /\ s # <<>> => /\ Last(s) \in Pids /\ Head(s) \in Pids
                        /\ Front(s) \in Seq(Pids) /\ Len(Front(s)) = Len(s) - 1
                        /\ Tail(s) \in Seq(Pids) /\ Len(Tail(s)) = Len(s) - 1
<1>1. ASSUME NEW p \in Pids PROVE Append(s, p) \in Seq(Pids) /\ Len(Append(s, p)) = Len(s) + 1
  OBVIOUS
<1>2. ASSUME NEW t \in Seq(Pids) PROVE s \o t \in Seq(Pids) /\ Len(s \o t) = Len(s) + Len(t)
  BY ConcatProperties
<1>3. ASSUME s # <<>>
      PROVE  /\ Last(s) \in Pids /\ Head(s) \in Pids
             /\ Front(s) \in Seq(Pids) /\ Len(Front(s)) = Len(s) - 1
             /\ Tail(s) \in Seq(Pids) /\ Len(Tail(s)) = Len(s) - 1
  <2>1. Len(s) \in Nat \ {0} /\ s \in [1 .. Len(s) -> Pids]
    BY <1>3, EmptySeq, LenProperties
  <2>2. Last(s) \in Pids
    BY <2>1 DEF Last
  <2>3. Front(s) \in Seq(Pids) /\ Len(Front(s)) = Len(s) - 1
    <3>1. /\ Len(s) - 1 \in Int /\ 1 \in Int
          /\ \A i \in 1 .. Len(s) - 1 : s[i] \in Pids
      BY <2>1
    <3>2. /\ SubSeq(s, 1, Len(s) - 1) \in Seq(Pids)
          /\ Len(SubSeq(s, 1, Len(s) - 1))
               = IF 1 <= Len(s) - 1 THEN Len(s) - 1 - 1 + 1 ELSE 0
      BY <3>1, SubSeqProperties
    <3>3. QED
      BY <2>1, <3>2 DEF Front
  <2>4. QED
    BY <1>3, <2>2, <2>3, HeadTailProperties
<1>4. QED
  BY <1>1, <1>2, <1>3

LEMMA ForkCore ==
  ASSUME Core, NEW p \in Pids, CreateProducer(p) \/ CreateConsumer(p)
  PROVE  Core'
<1>1. PICK first \in {"p_produce", "c_items"} : Fork(p, first)
  BY DEF CreateProducer, CreateConsumer
<1>2. producers' \in Seq(Pids) /\ consumers' \in Seq(Pids)
  <2>1. producers \in Seq(Pids) /\ consumers \in Seq(Pids)
    BY DEF Core, RestOK
  <2>2. /\ producers' = producers \/ producers' = Append(producers, p)
        /\ consumers' = consumers \/ consumers' = Append(consumers, p)
    BY DEF CreateProducer, CreateConsumer
  <2>3. Append(producers, p) \in Seq(Pids) /\ Append(consumers, p) \in Seq(Pids)
    BY <2>1, AppendProperties
  <2>4. QED
    BY <2>1, <2>2, <2>3, Zenon
<1>3. /\ first \in Labels \ InCritical /\ first \notin Between \cup {"p_copied", "c_copied"}
      /\ pc[p] \notin InCritical \cup Between
  BY <1>1 DEF Fork, Idle, Labels, InCritical, Between, ProducerPC, ConsumerPC
<1>4. /\ UNCHANGED <<queue, sem, msg>> /\ pc' = [pc EXCEPT ![p] = first]
      /\ pc \in [Pids -> Labels \cup {"unborn"}]
  BY <1>1 DEF Fork, ipc, Core, ChildOK
<1>5. ChildOK'
  BY <1>3, <1>4 DEF Core, ChildOK
<1>6. RestOK'
  BY <1>1, <1>2 DEF Fork, ipc, Core, RestOK
<1>7. MutexInv'
  BY <1>3, <1>4 DEF Core, MutexInv
<1>8. RingInv'
  BY <1>3, <1>4 DEF Core, RingInv, RingAt
<1>9. QED
  BY <1>5, <1>6, <1>7, <1>8 DEF Core

LEMMA ParentCore ==
  ASSUME Core,
         \/ RemoveProducer \/ RemoveConsumer \/ WaitAfterRemove \/ Quit
         \/ ExitStep \/ ParentDies \/ Interrupt
  PROVE  Core'
<1> USE DEF arrays, ipc, childVars
<1>1. ASSUME UNCHANGED <<queue, sem, pc, msg>>, RestOK' PROVE Core'
  BY <1>1, SystemStep
<1>2. RestOK
  BY DEF Core
<1>3. CASE RemoveProducer \/ RemoveConsumer
  <2>1. /\ producers' \in Seq(Pids) /\ consumers' \in Seq(Pids)
        /\ doomed' \subseteq Pids \cup {Parent}
    BY <1>2, <1>3, SequenceFacts
       DEF RestOK, RemoveProducer, RemoveConsumer, RemoveLast, Kill
  <2>2. RestOK' /\ UNCHANGED <<queue, sem, pc, msg>>
    BY <1>2, <1>3, <2>1
       DEF RestOK, RemoveProducer, RemoveConsumer, RemoveLast, ParentPC
  <2>3. QED
    BY <1>1, <2>2
<1>4. CASE WaitAfterRemove
  BY <1>1, <1>2, <1>4 DEF RestOK, WaitAfterRemove, Wait, ParentPC
<1>5. CASE Quit
  <2>1. victims' \in Seq(Pids)
    BY <1>2, <1>5, SequenceFacts DEF RestOK, Quit
  <2>2. QED
    BY <1>1, <1>2, <1>5, <2>1 DEF RestOK, Quit, ParentPC
<1>6. CASE KillVictim
  <2>1. victims' \in Seq(Pids) /\ doomed' \subseteq Pids \cup {Parent}
    BY <1>2, <1>6, SequenceFacts DEF RestOK, KillVictim, Kill
  <2>2. QED
    BY <1>1, <1>2, <1>6, <2>1 DEF RestOK, KillVictim, ParentPC
<1>7. CASE WaitVictim
  BY <1>1, <1>2, <1>7 DEF RestOK, WaitVictim, Wait, ParentPC
<1>8. CASE AllVictimsKilled
  BY <1>1, <1>2, <1>8 DEF RestOK, AllVictimsKilled, ParentPC, NotExiting
<1>9. CASE UnlinkInParent
  BY <1>1, <1>2, <1>9
     DEF RestOK, UnlinkInParent, Unlinks, LastUnlink, ParentPC, ParentGone, NotExiting
<1>10. CASE ParentDies
  BY <1>1, <1>2, <1>10 DEF RestOK, ParentDies, ParentPC, ParentGone
<1>11. CASE Interrupt
  BY <1>1, <1>2, <1>11 DEF RestOK, Interrupt, ParentPC, ParentGone
<1>12. QED
  BY <1>3, <1>4, <1>5, <1>6, <1>7, <1>8, <1>9, <1>10, <1>11 DEF ExitStep

(* A restart opens the mutex with whatever value it was left at: 0 or 1.   *)
LEMMA RestartCore == ASSUME Core, Restart PROVE Core'
<1>1. sem' \in [Sems -> Nat] /\ sem'["mutex"] <= 1
  BY QueueAssumption DEF Core, ChildOK, MutexInv, Restart, InitialCount, Sems
<1>2. ChildOK'
  BY <1>1, EmptyQueueFacts DEF Restart, ChildOK
<1>3. RestOK'
  BY DEF Core, RestOK, Restart, NotExiting, ParentPC
<1>4. MutexInv' /\ RingInv'
  BY <1>1, EmptyQueueFacts
     DEF Restart, MutexInv, RingInv, RingAt, Aligned, InCritical
<1>5. QED
  BY <1>2, <1>3, <1>4 DEF Core

LEMMA NextCore == Core /\ [Next]_vars => Core'
<1> SUFFICES ASSUME Core, [Next]_vars PROVE Core'
  OBVIOUS
<1>1. CASE UNCHANGED vars
  BY <1>1, SystemStep DEF vars, ipc, childVars, arrays, Core, RestOK
<1>2. ASSUME NEW p \in Pids, ChildStep(p) PROVE Core'
  BY <1>2, BeginPutCore, MoveHeadCore, CountPutCore, EndPutCore,
     BeginGetCore, MoveTailCore, CountGetCore, EndGetCore, ProduceConsumeCore,
     SemaphoreStepsCore, ExitingChildCore DEF ChildStep
<1>3. QED
  BY <1>1, <1>2, ExitingChildCore, ForkCore, ParentCore, RestartCore DEF Next

LEMMA SpecCore == Spec => []Core
  BY InitCore, NextCore, PTL DEF Spec

(* The state keeps its type, head and tail included, whatever children are *)
(* killed and whatever semaphores an earlier run left behind.              *)
THEOREM TypeCorrect == Spec => []TypeOK
  BY SpecCore, CoreParts, PTL

(* The semaphore "mutex" keeps children out of each other's way in put_msg *)
(* and get_msg, for any number of children and after any kill or restart.  *)
THEOREM MutexSafe == Spec => []MutualExclusion
  BY SpecCore, CoreParts, PTL

(* With mutual exclusion at most one child stands at a label inside. *)
LEMMA OneInside ==
  ASSUME Core, NEW p \in Pids, pc[p] \in InCritical, NEW l \in InCritical
  PROVE  Cardinality(At({l})) = IF pc[p] = l THEN 1 ELSE 0
<1>1. \A q \in Pids \ {p} : pc[q] # l
  BY DEF Core, MutexInv
<1>2. At({l}) = IF pc[p] = l THEN {p} ELSE {}
  BY <1>1 DEF At
<1>3. QED
  BY <1>2, FS_EmptySet, FS_Singleton

(* One slot stays free between the indices, for every length of the ring;  *)
(* and the indices, msg_amount and the two totals disagree by what a child *)
(* between two updates of put_msg or get_msg has still to do and by        *)
(* nothing else, however many children were killed there and elsewhere.    *)
THEOREM RingAligned == Spec => []RingConsistent
<1>1. Core => RingConsistent
  <2> SUFFICES ASSUME Core PROVE RingConsistent
    OBVIOUS
  <2>1. /\ queue.msg_amount \in Nat /\ queue.add_count \in Nat
        /\ queue.extract_count \in Nat /\ Held(queue) \in Nat /\ Held(queue) < MSG_MAX
    BY HeldType DEF Core, ChildOK, RingInv, Indexed, QueueType
  <2>2. CASE \A p \in Pids : pc[p] \notin Between
    <3>1. \A l \in Between : At({l}) = {}
      BY <2>2 DEF At
    <3>2. \A l \in Between : Cardinality(At({l})) = 0
      BY <3>1, FS_EmptySet
    <3>3. Aligned(queue)
      BY <2>2 DEF Core, RingInv
    <3>4. QED
      BY <2>1, <3>2, <3>3 DEF RingConsistent, Aligned, Between
  <2>3. ASSUME NEW p \in Pids, pc[p] \in Between PROVE RingConsistent
    <3>1. pc[p] \in InCritical /\ Between \subseteq InCritical
      BY <2>3 DEF Between, InCritical
    <3>2. RingAt(pc[p], queue)
      BY <3>1, InsideFacts
    <3>3. /\ Cardinality(At({"p_moved"})) = IF pc[p] = "p_moved" THEN 1 ELSE 0
          /\ Cardinality(At({"p_counted"})) = IF pc[p] = "p_counted" THEN 1 ELSE 0
          /\ Cardinality(At({"c_moved"})) = IF pc[p] = "c_moved" THEN 1 ELSE 0
          /\ Cardinality(At({"c_counted"})) = IF pc[p] = "c_counted" THEN 1 ELSE 0
      BY <3>1, OneInside DEF Between
    <3>4. CASE pc[p] = "p_moved"
      BY <2>1, <3>2, <3>3, <3>4 DEF RingConsistent, RingAt
    <3>5. CASE pc[p] = "p_counted"
      BY <2>1, <3>2, <3>3, <3>5 DEF RingConsistent, RingAt
    <3>6. CASE pc[p] = "c_moved"
      BY <2>1, <3>2, <3>3, <3>6 DEF RingConsistent, RingAt
    <3>7. CASE pc[p] = "c_counted"
      BY <2>1, <3>2, <3>3, <3>7 DEF RingConsistent, RingAt
    <3>8. QED
      BY <2>3, <3>4, <3>5, <3>6, <3>7 DEF Between
  <2>4. QED
    BY <2>2, <2>3
<1>2. QED
  BY <1>1, SpecCore, PTL

-----------------------------------------------------------------------------
(* Slots and items.                                                        *)

Accounting == SlotAccounting /\ ItemAccounting

Free == sem["free_space"]
Items == sem["items"]
NumSC == Cardinality(At(SlotClaimed))
NumSP == Cardinality(At(SlotPending))
NumIC == Cardinality(At(ItemClaimed))
NumIP == Cardinality(At(ItemPending))

LEMMA CountType == \A L : IsFiniteSet(At(L)) /\ Cardinality(At(L)) \in Nat
<1> SUFFICES ASSUME NEW L PROVE IsFiniteSet(At(L)) /\ Cardinality(At(L)) \in Nat
  OBVIOUS
<1>1. At(L) \in SUBSET Pids
  BY DEF At
<1>2. QED
  BY <1>1, ProcessAssumption, FS_Subset, FS_CardinalityType

(* How the number of children at some labels changes when one child goes   *)
(* from one label to another.                                              *)
LEMMA CountStep ==
  ASSUME Core, NEW p \in Pids, NEW to, pc' = [pc EXCEPT ![p] = to], NEW L
  PROVE  /\ pc[p] \in L /\ to \notin L => Cardinality(At(L)') = Cardinality(At(L)) - 1
         /\ pc[p] \notin L /\ to \in L => Cardinality(At(L)') = Cardinality(At(L)) + 1
         /\ (pc[p] \in L) = (to \in L) => Cardinality(At(L)') = Cardinality(At(L))
<1>1. \A q \in Pids : pc'[q] = IF q = p THEN to ELSE pc[q]
  BY DEF Core, ChildOK
<1>2. CASE pc[p] \in L /\ to \notin L
  <2>1. At(L)' = At(L) \ {p} /\ p \in At(L)
    BY <1>1, <1>2 DEF At
  <2>2. QED
    BY <1>2, <2>1, CountType, FS_RemoveElement
<1>3. CASE pc[p] \notin L /\ to \in L
  <2>1. At(L)' = At(L) \cup {p} /\ p \notin At(L)
    BY <1>1, <1>3 DEF At
  <2>2. QED
    BY <1>3, <2>1, CountType, FS_AddElement
<1>4. CASE (pc[p] \in L) = (to \in L)
  <2>1. At(L)' = At(L)
    BY <1>1, <1>4 DEF At
  <2>2. QED
    BY <1>4, <2>1
<1>5. QED
  BY <1>2, <1>3, <1>4

(* The four counts and what they are compared with, as numbers. *)
LEMMA NumberTypes ==
  Core => /\ Free \in Nat /\ Items \in Nat /\ queue.msg_amount \in Nat
          /\ NumSC \in Nat /\ NumSP \in Nat /\ NumIC \in Nat /\ NumIP \in Nat
  BY CountType DEF Core, ChildOK, Sems, QueueType, Free, Items, NumSC, NumSP, NumIC, NumIP

LEMMA InitAccounting == Init => Accounting
<1> SUFFICES ASSUME Init PROVE Accounting
  OBVIOUS
<1>1. /\ At(SlotClaimed) = {} /\ At(SlotPending) = {}
      /\ At(ItemClaimed) = {} /\ At(ItemPending) = {}
  BY DEF Init, At, SlotClaimed, SlotPending, ItemClaimed, ItemPending
<1>2. sem["free_space"] = MSG_MAX /\ sem["items"] = 0 /\ queue.msg_amount = 0
  BY DEF Init, InitialCount, Sems, EmptyQueue
<1>3. QED
  BY <1>1, <1>2, FS_EmptySet, QueueAssumption
     DEF Accounting, SlotAccounting, ItemAccounting

LEMMA RestartAccounting == Restart => Accounting'
<1> SUFFICES ASSUME Restart PROVE Accounting'
  OBVIOUS
<1>1. /\ At(SlotClaimed)' = {} /\ At(SlotPending)' = {}
      /\ At(ItemClaimed)' = {} /\ At(ItemPending)' = {}
  BY DEF Restart, At, SlotClaimed, SlotPending, ItemClaimed, ItemPending
<1>2. fresh' => sem'["free_space"] = MSG_MAX /\ sem'["items"] = 0
  BY DEF Restart, InitialCount, Sems
<1>3. queue'.msg_amount = 0
  BY DEF Restart, EmptyQueue
<1>4. QED
  BY <1>1, <1>2, <1>3, FS_EmptySet, QueueAssumption
     DEF Accounting, SlotAccounting, ItemAccounting

(* A child's step changes each of the four counts by what the labels say. *)
Change(from, to, L) ==
  (IF to \in L THEN 1 ELSE 0) - (IF from \in L THEN 1 ELSE 0)

LEMMA CountsChange ==
  ASSUME Core, NEW p \in Pids, NEW from, NEW to, Step(p, from, to)
  PROVE  /\ NumSC' = NumSC + Change(from, to, SlotClaimed)
         /\ NumSP' = NumSP + Change(from, to, SlotPending)
         /\ NumIC' = NumIC + Change(from, to, ItemClaimed)
         /\ NumIP' = NumIP + Change(from, to, ItemPending)
<1>1. pc' = [pc EXCEPT ![p] = to] /\ pc[p] = from
  BY DEF Step
<1>2. ASSUME NEW L
      PROVE  Cardinality(At(L)') = Cardinality(At(L)) + Change(from, to, L)
  <2>1. Cardinality(At(L)) \in Nat
    BY CountType
  <2>2. CASE from \in L /\ to \notin L
    <3>1. Cardinality(At(L)') = Cardinality(At(L)) - 1
      BY <1>1, <2>2, CountStep
    <3>2. Change(from, to, L) = 0 - 1
      BY <2>2 DEF Change
    <3>3. QED
      BY <2>1, <3>1, <3>2
  <2>3. CASE from \notin L /\ to \in L
    <3>1. Cardinality(At(L)') = Cardinality(At(L)) + 1
      BY <1>1, <2>3, CountStep
    <3>2. Change(from, to, L) = 1
      BY <2>3 DEF Change
    <3>3. QED
      BY <2>1, <3>1, <3>2
  <2>4. CASE (from \in L) = (to \in L)
    <3>1. Cardinality(At(L)') = Cardinality(At(L))
      BY <1>1, <2>4, CountStep
    <3>2. Change(from, to, L) = 0
      BY <2>4 DEF Change
    <3>3. QED
      BY <2>1, <3>1, <3>2
  <2>5. QED
    BY <2>2, <2>3, <2>4
<1>3. QED
  BY <1>2 DEF NumSC, NumSP, NumIC, NumIP

(* A child's step preserves the accounting if the semaphores and the ring  *)
(* change by what the counts change.                                       *)
LEMMA BalancedStep ==
  ASSUME Core, Core', Accounting, NEW p \in Pids, NEW from, NEW to, Step(p, from, to),
         Free' - Free + Change(from, to, SlotClaimed)
           + (queue'.msg_amount - queue.msg_amount) + Change(from, to, SlotPending) = 0,
         Items' - Items + Change(from, to, ItemClaimed) + Change(from, to, ItemPending)
           = queue'.msg_amount - queue.msg_amount
  PROVE  Accounting'
<1>1. /\ NumSC' = NumSC + Change(from, to, SlotClaimed)
      /\ NumSP' = NumSP + Change(from, to, SlotPending)
      /\ NumIC' = NumIC + Change(from, to, ItemClaimed)
      /\ NumIP' = NumIP + Change(from, to, ItemPending)
  BY CountsChange
<1>2. /\ Change(from, to, SlotClaimed) \in Int /\ Change(from, to, SlotPending) \in Int
      /\ Change(from, to, ItemClaimed) \in Int /\ Change(from, to, ItemPending) \in Int
  BY DEF Change
<1>3. /\ Free \in Nat /\ Items \in Nat /\ queue.msg_amount \in Nat
      /\ NumSC \in Nat /\ NumSP \in Nat /\ NumIC \in Nat /\ NumIP \in Nat
  BY NumberTypes
<1>4. Free' \in Nat /\ Items' \in Nat /\ queue'.msg_amount \in Nat
  BY DEF Core, ChildOK, Sems, QueueType, Free, Items
<1>5. fresh' = fresh
  BY DEF Step
<1>6. CASE ~fresh
  BY <1>5, <1>6 DEF Accounting, SlotAccounting, ItemAccounting
<1>7. CASE fresh
  <2>1. /\ Free + NumSC + queue.msg_amount + NumSP = MSG_MAX
        /\ Items + NumIC + NumIP = queue.msg_amount
    BY <1>7 DEF Accounting, SlotAccounting, ItemAccounting,
                Free, Items, NumSC, NumSP, NumIC, NumIP
  <2>2. /\ Free' + NumSC' + queue'.msg_amount + NumSP' = MSG_MAX
        /\ Items' + NumIC' + NumIP' = queue'.msg_amount
    BY <1>1, <1>2, <1>3, <1>4, <2>1
  <2>3. QED
    BY <2>2 DEF Accounting, SlotAccounting, ItemAccounting,
                Free, Items, NumSC, NumSP, NumIC, NumIP
<1>8. QED
  BY <1>6, <1>7

(* The step adds sc, sp, ic, ip to the four counts. *)
Counts(from, to, sc, sp, ic, ip) ==
  /\ Change(from, to, SlotClaimed) = sc /\ Change(from, to, SlotPending) = sp
  /\ Change(from, to, ItemClaimed) = ic /\ Change(from, to, ItemPending) = ip

LEMMA LabelCounts ==
  /\ Counts("p_produce", "p_free", 0, 0, 0, 0)
  /\ Counts("p_free", "p_lock", 1, 0, 0, 0)
  /\ Counts("p_lock", "p_put", 0, 0, 0, 0)
  /\ Counts("p_put", "p_copied", 0, 0, 0, 0)
  /\ Counts("p_copied", "p_moved", 0, 0, 0, 0)
  /\ Counts("p_moved", "p_counted", -1, 0, 0, 1)
  /\ Counts("p_counted", "p_unlock", 0, 0, 0, 0)
  /\ Counts("p_unlock", "p_post", 0, 0, 0, 0)
  /\ Counts("p_post", "p_produce", 0, 0, 0, -1)
  /\ Counts("c_items", "c_lock", 0, 0, 1, 0)
  /\ Counts("c_lock", "c_get", 0, 0, 0, 0)
  /\ Counts("c_get", "c_copied", 0, 0, 0, 0)
  /\ Counts("c_copied", "c_moved", 0, 0, 0, 0)
  /\ Counts("c_moved", "c_counted", 0, 1, -1, 0)
  /\ Counts("c_counted", "c_unlock", 0, 0, 0, 0)
  /\ Counts("c_unlock", "c_post", 0, 0, 0, 0)
  /\ Counts("c_post", "c_consume", 0, -1, 0, 0)
  /\ Counts("c_consume", "c_items", 0, 0, 0, 0)
BY DEF Counts, Change, SlotClaimed, SlotPending, ItemClaimed, ItemPending

(* BalancedStep with the changes as numbers: df and di are what happens to *)
(* the two counting semaphores, dm what happens to msg_amount.             *)
LEMMA BalancedBy ==
  ASSUME Core, Core', Accounting, NEW p \in Pids, NEW from, NEW to, Step(p, from, to),
         NEW sc \in Int, NEW sp \in Int, NEW ic \in Int, NEW ip \in Int,
         Counts(from, to, sc, sp, ic, ip),
         NEW df \in Int, NEW di \in Int, NEW dm \in Int,
         Free' = Free + df, Items' = Items + di,
         queue'.msg_amount = queue.msg_amount + dm,
         df + sc + dm + sp = 0, di + ic + ip = dm
  PROVE  Accounting'
<1>1. Free \in Nat /\ Items \in Nat /\ queue.msg_amount \in Nat
  BY NumberTypes
<1>2. /\ Change(from, to, SlotClaimed) = sc /\ Change(from, to, SlotPending) = sp
      /\ Change(from, to, ItemClaimed) = ic /\ Change(from, to, ItemPending) = ip
  BY DEF Counts
<1>3. Free' - Free + sc + (queue'.msg_amount - queue.msg_amount) + sp = 0
  BY <1>1
<1>4. Items' - Items + ic + ip = queue'.msg_amount - queue.msg_amount
  BY <1>1
<1>5. QED
  BY <1>2, <1>3, <1>4, BalancedStep

LEMMA ChildAccounting ==
  ASSUME Core, Core', Accounting, NEW p \in Pids, ChildStep(p)
  PROVE  Accounting'
<1>0. /\ queue \in QueueType /\ queue.msg_amount \in Nat /\ sem \in [Sems -> Nat]
      /\ Free \in Nat /\ Items \in Nat
  BY NumberTypes DEF Core, ChildOK, QueueType
<1>1. CASE Produce(p)
  <2>1. Step(p, "p_produce", "p_free")
    BY <1>1 DEF Produce
  <2>2. queue'.msg_amount = queue.msg_amount + 0
    BY <1>0, <1>1 DEF Produce
  <2>3. Free' = Free + 0 /\ Items' = Items + 0
    BY <1>0, <1>1 DEF Produce, SemWait, SemPost, Sems, Free, Items
  <2>4. QED
    BY <2>1, <2>2, <2>3, LabelCounts, BalancedBy
<1>2. CASE WaitFree(p)
  <2>1. Step(p, "p_free", "p_lock")
    BY <1>2 DEF WaitFree, SemWaitStep
  <2>2. queue'.msg_amount = queue.msg_amount + 0
    BY <1>0, <1>2 DEF WaitFree, SemWaitStep
  <2>3. Free' = Free + (-1) /\ Items' = Items + 0
    BY <1>0, <1>2 DEF WaitFree, SemWaitStep, SemWait, SemPost, Sems, Free, Items
  <2>4. QED
    BY <2>1, <2>2, <2>3, LabelCounts, BalancedBy
<1>3. CASE LockToPut(p)
  <2>1. Step(p, "p_lock", "p_put")
    BY <1>3 DEF LockToPut, SemWaitStep
  <2>2. queue'.msg_amount = queue.msg_amount + 0
    BY <1>0, <1>3 DEF LockToPut, SemWaitStep
  <2>3. Free' = Free + 0 /\ Items' = Items + 0
    BY <1>0, <1>3 DEF LockToPut, SemWaitStep, SemWait, SemPost, Sems, Free, Items
  <2>4. QED
    BY <2>1, <2>2, <2>3, LabelCounts, BalancedBy
<1>4. CASE BeginPut(p)
  <2>1. Step(p, "p_put", "p_copied")
    BY <1>4 DEF BeginPut
  <2>2. queue'.msg_amount = queue.msg_amount + 0
    BY <1>0, <1>4, PutCopyFacts DEF BeginPut, Core, RingInv
  <2>3. Free' = Free + 0 /\ Items' = Items + 0
    BY <1>0, <1>4 DEF BeginPut, SemWait, SemPost, Sems, Free, Items
  <2>4. QED
    BY <2>1, <2>2, <2>3, LabelCounts, BalancedBy
<1>5. CASE EndPut(p)
  <2>1. Step(p, "p_counted", "p_unlock")
    BY <1>5 DEF EndPut
  <2>2. queue'.msg_amount = queue.msg_amount + 0
    BY <1>0, <1>5 DEF EndPut, PutAdd, QueueType
  <2>3. Free' = Free + 0 /\ Items' = Items + 0
    BY <1>0, <1>5 DEF EndPut, SemWait, SemPost, Sems, Free, Items
  <2>4. QED
    BY <2>1, <2>2, <2>3, LabelCounts, BalancedBy
<1>6. CASE MoveHead(p)
  <2>1. Step(p, "p_copied", "p_moved")
    BY <1>6 DEF MoveHead
  <2>2. queue'.msg_amount = queue.msg_amount + 0
    BY <1>0, <1>6 DEF MoveHead, PutMove, QueueType
  <2>3. Free' = Free + 0 /\ Items' = Items + 0
    BY <1>0, <1>6 DEF MoveHead, SemWait, SemPost, Sems, Free, Items
  <2>4. QED
    BY <2>1, <2>2, <2>3, LabelCounts, BalancedBy
<1>7. CASE CountPut(p)
  <2>1. Step(p, "p_moved", "p_counted")
    BY <1>7 DEF CountPut
  <2>2. queue'.msg_amount = queue.msg_amount + 1
    BY <1>0, <1>7 DEF CountPut, PutCount, QueueType
  <2>3. Free' = Free + 0 /\ Items' = Items + 0
    BY <1>0, <1>7 DEF CountPut, SemWait, SemPost, Sems, Free, Items
  <2>4. QED
    BY <2>1, <2>2, <2>3, LabelCounts, BalancedBy
<1>8. CASE UnlockAfterPut(p)
  <2>1. Step(p, "p_unlock", "p_post")
    BY <1>8 DEF UnlockAfterPut, SemPostStep
  <2>2. queue'.msg_amount = queue.msg_amount + 0
    BY <1>0, <1>8 DEF UnlockAfterPut, SemPostStep
  <2>3. Free' = Free + 0 /\ Items' = Items + 0
    BY <1>0, <1>8 DEF UnlockAfterPut, SemPostStep, SemWait, SemPost, Sems, Free, Items
  <2>4. QED
    BY <2>1, <2>2, <2>3, LabelCounts, BalancedBy
<1>9. CASE PostItem(p)
  <2>1. Step(p, "p_post", "p_produce")
    BY <1>9 DEF PostItem, SemPostStep
  <2>2. queue'.msg_amount = queue.msg_amount + 0
    BY <1>0, <1>9 DEF PostItem, SemPostStep
  <2>3. Free' = Free + 0 /\ Items' = Items + 1
    BY <1>0, <1>9 DEF PostItem, SemPostStep, SemWait, SemPost, Sems, Free, Items
  <2>4. QED
    BY <2>1, <2>2, <2>3, LabelCounts, BalancedBy
<1>10. CASE WaitItem(p)
  <2>1. Step(p, "c_items", "c_lock")
    BY <1>10 DEF WaitItem, SemWaitStep
  <2>2. queue'.msg_amount = queue.msg_amount + 0
    BY <1>0, <1>10 DEF WaitItem, SemWaitStep
  <2>3. Free' = Free + 0 /\ Items' = Items + (-1)
    BY <1>0, <1>10 DEF WaitItem, SemWaitStep, SemWait, SemPost, Sems, Free, Items
  <2>4. QED
    BY <2>1, <2>2, <2>3, LabelCounts, BalancedBy
<1>11. CASE LockToGet(p)
  <2>1. Step(p, "c_lock", "c_get")
    BY <1>11 DEF LockToGet, SemWaitStep
  <2>2. queue'.msg_amount = queue.msg_amount + 0
    BY <1>0, <1>11 DEF LockToGet, SemWaitStep
  <2>3. Free' = Free + 0 /\ Items' = Items + 0
    BY <1>0, <1>11 DEF LockToGet, SemWaitStep, SemWait, SemPost, Sems, Free, Items
  <2>4. QED
    BY <2>1, <2>2, <2>3, LabelCounts, BalancedBy
<1>12. CASE BeginGet(p)
  <2>1. Step(p, "c_get", "c_copied")
    BY <1>12 DEF BeginGet
  <2>2. queue'.msg_amount = queue.msg_amount + 0
    BY <1>0, <1>12 DEF BeginGet, GetCopy, QueueType
  <2>3. Free' = Free + 0 /\ Items' = Items + 0
    BY <1>0, <1>12 DEF BeginGet, SemWait, SemPost, Sems, Free, Items
  <2>4. QED
    BY <2>1, <2>2, <2>3, LabelCounts, BalancedBy
<1>13. CASE EndGet(p)
  <2>1. Step(p, "c_counted", "c_unlock")
    BY <1>13 DEF EndGet
  <2>2. queue'.msg_amount = queue.msg_amount + 0
    BY <1>0, <1>13 DEF EndGet, GetExtract, QueueType
  <2>3. Free' = Free + 0 /\ Items' = Items + 0
    BY <1>0, <1>13 DEF EndGet, SemWait, SemPost, Sems, Free, Items
  <2>4. QED
    BY <2>1, <2>2, <2>3, LabelCounts, BalancedBy
<1>14. CASE MoveTail(p)
  <2>1. Step(p, "c_copied", "c_moved")
    BY <1>14 DEF MoveTail
  <2>2. queue'.msg_amount = queue.msg_amount + 0
    BY <1>0, <1>14 DEF MoveTail, GetMove, QueueType
  <2>3. Free' = Free + 0 /\ Items' = Items + 0
    BY <1>0, <1>14 DEF MoveTail, SemWait, SemPost, Sems, Free, Items
  <2>4. QED
    BY <2>1, <2>2, <2>3, LabelCounts, BalancedBy
<1>15. CASE CountGet(p)
  <2>1. Step(p, "c_moved", "c_counted")
    BY <1>15 DEF CountGet
  <2>2. queue'.msg_amount = queue.msg_amount + (-1)
    BY <1>0, <1>15 DEF CountGet, GetCount, QueueType
  <2>3. Free' = Free + 0 /\ Items' = Items + 0
    BY <1>0, <1>15 DEF CountGet, SemWait, SemPost, Sems, Free, Items
  <2>4. QED
    BY <2>1, <2>2, <2>3, LabelCounts, BalancedBy
<1>16. CASE UnlockAfterGet(p)
  <2>1. Step(p, "c_unlock", "c_post")
    BY <1>16 DEF UnlockAfterGet, SemPostStep
  <2>2. queue'.msg_amount = queue.msg_amount + 0
    BY <1>0, <1>16 DEF UnlockAfterGet, SemPostStep
  <2>3. Free' = Free + 0 /\ Items' = Items + 0
    BY <1>0, <1>16 DEF UnlockAfterGet, SemPostStep, SemWait, SemPost, Sems, Free, Items
  <2>4. QED
    BY <2>1, <2>2, <2>3, LabelCounts, BalancedBy
<1>17. CASE PostFree(p)
  <2>1. Step(p, "c_post", "c_consume")
    BY <1>17 DEF PostFree, SemPostStep
  <2>2. queue'.msg_amount = queue.msg_amount + 0
    BY <1>0, <1>17 DEF PostFree, SemPostStep
  <2>3. Free' = Free + 1 /\ Items' = Items + 0
    BY <1>0, <1>17 DEF PostFree, SemPostStep, SemWait, SemPost, Sems, Free, Items
  <2>4. QED
    BY <2>1, <2>2, <2>3, LabelCounts, BalancedBy
<1>18. CASE Consume(p)
  <2>1. Step(p, "c_consume", "c_items")
    BY <1>18 DEF Consume
  <2>2. queue'.msg_amount = queue.msg_amount + 0
    BY <1>0, <1>18 DEF Consume
  <2>3. Free' = Free + 0 /\ Items' = Items + 0
    BY <1>0, <1>18 DEF Consume, SemWait, SemPost, Sems, Free, Items
  <2>4. QED
    BY <2>1, <2>2, <2>3, LabelCounts, BalancedBy
<1>19. CASE CallExit(p) \/ KillParent(p) \/ UnlinkInChild(p)
  <2>1. UNCHANGED <<queue, sem, fresh, pc>>
    BY <1>19 DEF CallExit, KillParent, UnlinkInChild, Unlinks, ipc, childVars
  <2>2. QED
    BY <2>1 DEF Accounting, SlotAccounting, ItemAccounting, At
<1>20. QED
  BY <1>1, <1>2, <1>3, <1>4, <1>5, <1>6, <1>7, <1>8, <1>9, <1>10,
     <1>11, <1>12, <1>13, <1>14, <1>15, <1>16, <1>17, <1>18, <1>19 DEF ChildStep

(* A new child claims nothing. *)
LEMMA ForkAccounting ==
  ASSUME Core, Accounting, NEW p \in Pids, CreateProducer(p) \/ CreateConsumer(p)
  PROVE  Accounting'
<1>1. PICK first \in {"p_produce", "c_items"} : Fork(p, first)
  BY DEF CreateProducer, CreateConsumer
<1>2. pc' = [pc EXCEPT ![p] = first] /\ pc[p] = "unborn" /\ UNCHANGED <<queue, sem, fresh>>
  BY <1>1 DEF Fork, Idle, ipc
<1>3. NumSC' = NumSC /\ NumSP' = NumSP /\ NumIC' = NumIC /\ NumIP' = NumIP
  <2>1. \A L \in {SlotClaimed, SlotPending, ItemClaimed, ItemPending} :
          pc[p] \notin L /\ first \notin L
    BY <1>2 DEF SlotClaimed, SlotPending, ItemClaimed, ItemPending
  <2>2. ASSUME NEW L \in {SlotClaimed, SlotPending, ItemClaimed, ItemPending}
        PROVE  Cardinality(At(L)') = Cardinality(At(L))
    <3>1. (pc[p] \in L) = (first \in L)
      BY <2>1, <2>2
    <3>2. QED
      BY <1>2, <3>1, CountStep
  <2>3. QED
    BY <2>2 DEF NumSC, NumSP, NumIC, NumIP
<1>4. QED
  BY <1>2, <1>3
     DEF Accounting, SlotAccounting, ItemAccounting, NumSC, NumSP, NumIC, NumIP

LEMMA NextAccounting == Core /\ Core' /\ Accounting /\ [Next]_vars => Accounting'
<1> SUFFICES ASSUME Core, Core', Accounting, [Next]_vars PROVE Accounting'
  OBVIOUS
<1>1. ASSUME UNCHANGED <<queue, sem, pc, fresh>> PROVE Accounting'
  BY <1>1 DEF Accounting, SlotAccounting, ItemAccounting, At
<1>2. CASE UNCHANGED vars
  BY <1>1, <1>2 DEF vars, ipc, childVars
<1>3. ASSUME NEW p \in Pids, Die(p) PROVE Accounting'
  BY <1>1, <1>3 DEF Die, ipc
<1>4. CASE \/ RemoveProducer \/ RemoveConsumer \/ WaitAfterRemove \/ Quit
           \/ ExitStep \/ ParentDies \/ Interrupt
  BY <1>1, <1>4
     DEF RemoveProducer, RemoveConsumer, RemoveLast, WaitAfterRemove, Quit, ExitStep,
         KillVictim, WaitVictim, AllVictimsKilled, UnlinkInParent, Unlinks,
         ParentDies, Interrupt, ipc, childVars
<1>5. QED
  BY <1>2, <1>3, <1>4, ChildAccounting, ForkAccounting, RestartAccounting DEF Next

LEMMA SpecAccounting == Spec => []Accounting
  BY SpecCore, InitAccounting, NextAccounting, PTL DEF Spec

(* Every slot of the ring is free, filled, or claimed by exactly one child, *)
(* dead ones included: sem_wait(free_space) and sem_post(free_space) in     *)
(* create_producer and create_consumer lose and invent none.                *)
THEOREM SlotsAccountedFor == Spec => []SlotAccounting
  BY SpecAccounting, PTL DEF Accounting

(* The same for the messages and the semaphore "items". *)
THEOREM ItemsAccountedFor == Spec => []ItemAccounting
  BY SpecAccounting, PTL DEF Accounting

(* The underflow exit of get_msg is unreachable with fresh semaphores: a    *)
(* consumer in front of it holds a claim on a message.                      *)
THEOREM UnderflowUnreachable == Spec => []NoUnderflow
<1>1. Core /\ ItemAccounting => NoUnderflow
  <2> SUFFICES ASSUME Core, ItemAccounting, fresh, NEW p \in At({"c_get"}),
                      GetUnderflows(queue)
               PROVE  FALSE
    BY DEF NoUnderflow
  <2>1. p \in At(ItemClaimed)
    BY DEF At, ItemClaimed
  <2>2. NumIC \in Nat /\ NumIC # 0
    BY <2>1, CountType, FS_EmptySet DEF NumIC
  <2>3. Items + NumIC + NumIP = 0 /\ Items \in Nat /\ NumIP \in Nat
    BY NumberTypes DEF ItemAccounting, GetUnderflows, Items, NumIC, NumIP
  <2>4. QED
    BY <2>2, <2>3
<1>2. QED
  BY <1>1, SpecCore, ItemsAccountedFor, PTL

-----------------------------------------------------------------------------
(* How processes end: what a child's exit() leaves behind, and what the    *)
(* parent's atexit_handler does.                                           *)

(* A child in atexit_handler called exit() from put_msg or get_msg, with   *)
(* the mutex.                                                              *)
ExitInv ==
  \A p \in Pids : unwind[p] # NotExiting => pc[p] \in {"p_put", "c_get"}

LEMMA ChildExitInv ==
  ASSUME Core, ExitInv, NEW p \in Pids, ChildStep(p) \/ Die(p) PROVE ExitInv'
<1>1. ASSUME NEW from, NEW to, Step(p, from, to) PROVE ExitInv'
  <2>1. unwind' = unwind /\ unwind[p] = NotExiting /\ pc' = [pc EXCEPT ![p] = to]
    BY <1>1 DEF Step
  <2>2. \A q \in Pids \ {p} : pc'[q] = pc[q]
    BY <2>1 DEF Core, ChildOK
  <2>3. QED
    BY <2>1, <2>2 DEF ExitInv
<1>2. CASE CallExit(p)
  BY <1>2 DEF CallExit, ExitInv, childVars, Core, RestOK
<1>3. CASE KillParent(p)
  BY <1>3 DEF KillParent, ExitInv, Core, RestOK, NotExiting
<1>4. CASE UnlinkInChild(p)
  <2>1. unwind[p] \in 1 .. 4 /\ pc' = pc
    BY <1>4 DEF UnlinkInChild, Unlinks
  <2>2. unwind' = unwind \/ unwind' = [unwind EXCEPT ![p] = @ + 1]
    BY <1>4 DEF UnlinkInChild
  <2>3. QED
    BY <2>1, <2>2 DEF ExitInv, Core, RestOK, NotExiting
<1>5. CASE Die(p)
  BY <1>5 DEF Die, ExitInv
<1>6. QED
  BY <1>1, <1>2, <1>3, <1>4, <1>5
     DEF ChildStep, Produce, WaitFree, LockToPut, BeginPut, MoveHead, CountPut, EndPut, UnlockAfterPut,
         PostItem, WaitItem, LockToGet, BeginGet, MoveTail, CountGet, EndGet,
         UnlockAfterGet, PostFree,
         Consume, SemWaitStep, SemPostStep

LEMMA NextExitInv == Core /\ ExitInv /\ [Next]_vars => ExitInv'
<1> SUFFICES ASSUME Core, ExitInv, [Next]_vars PROVE ExitInv'
  OBVIOUS
<1>1. ASSUME UNCHANGED pc, \A p \in Pids : unwind'[p] = unwind[p] PROVE ExitInv'
  BY <1>1 DEF ExitInv
<1>2. CASE UNCHANGED vars
  BY <1>1, <1>2 DEF vars, childVars
<1>3. ASSUME NEW p \in Pids, CreateProducer(p) \/ CreateConsumer(p) PROVE ExitInv'
  <2>1. PICK first : Fork(p, first)
    BY <1>3 DEF CreateProducer, CreateConsumer
  <2>2. unwind' = unwind /\ pc[p] = "unborn" /\ \A q \in Pids \ {p} : pc'[q] = pc[q]
    BY <2>1 DEF Fork, Idle, Core, ChildOK
  <2>3. QED
    BY <2>2 DEF ExitInv
<1>4. CASE \/ RemoveProducer \/ RemoveConsumer \/ WaitAfterRemove \/ Quit
           \/ KillVictim \/ WaitVictim \/ ParentDies \/ Interrupt
  BY <1>1, <1>4
     DEF RemoveProducer, RemoveConsumer, RemoveLast, WaitAfterRemove, Quit,
         KillVictim, WaitVictim, ParentDies, Interrupt, childVars
<1>5. CASE AllVictimsKilled \/ UnlinkInParent
  <2>1. UNCHANGED pc
    BY <1>5 DEF AllVictimsKilled, UnlinkInParent, Unlinks, childVars
  <2>2. \A p \in Pids : unwind'[p] = unwind[p]
    BY <1>5, ProcessAssumption
       DEF AllVictimsKilled, UnlinkInParent, Unlinks, Core, RestOK
  <2>3. QED
    BY <1>1, <2>1, <2>2
<1>6. CASE Restart
  BY <1>6 DEF Restart, ExitInv
<1>7. QED
  BY <1>2, <1>3, <1>4, <1>5, <1>6, ChildExitInv DEF Next, ExitStep

LEMMA SpecExitInv == Spec => []ExitInv
<1>1. Init => ExitInv
  BY DEF Init, ExitInv
<1>2. QED
  BY <1>1, SpecCore, NextExitInv, PTL DEF Spec

(* Only a child in the critical section writes to the ring. *)
LEMMA WhoWrites ==
  ASSUME Next, queue' # queue, ~Restart
  PROVE  \E p \in Pids : pc[p] \in InCritical /\ unwind[p] = NotExiting
<1>1. \E p \in Pids : \/ BeginPut(p) \/ MoveHead(p) \/ CountPut(p) \/ EndPut(p)
                      \/ BeginGet(p) \/ MoveTail(p) \/ CountGet(p) \/ EndGet(p)
  BY DEF Next, ChildStep, Produce, WaitFree, LockToPut, UnlockAfterPut, PostItem,
         WaitItem, LockToGet, UnlockAfterGet, PostFree, Consume, CallExit,
         KillParent, UnlinkInChild, Unlinks, SemWaitStep, SemPostStep, Die,
         CreateProducer, CreateConsumer, Fork, RemoveProducer, RemoveConsumer,
         RemoveLast, WaitAfterRemove, Quit, ExitStep, KillVictim, WaitVictim,
         AllVictimsKilled, UnlinkInParent, ParentDies, Interrupt, ipc
<1>2. QED
  BY <1>1
     DEF BeginPut, MoveHead, CountPut, EndPut, BeginGet, MoveTail, CountGet, EndGet,
         Step, InCritical

(* exit() in put_msg or get_msg leaves the mutex locked for good: until the *)
(* program is started again the ring stays as it is.                       *)
THEOREM ExitFreezes == Spec => ExitFreezesQueue
<1>1. Core /\ ExitInv /\ [Next]_vars
        => [(\E p \in Pids : unwind[p] # NotExiting) => queue' = queue \/ Restart]_vars
  <2> SUFFICES ASSUME Core, ExitInv, Next, queue' # queue, ~Restart,
                      NEW p \in Pids, unwind[p] # NotExiting
               PROVE  FALSE
    OBVIOUS
  <2>1. PICK q \in Pids : pc[q] \in InCritical /\ unwind[q] = NotExiting
    BY WhoWrites
  <2>2. pc[p] \in InCritical
    BY DEF ExitInv, InCritical
  <2>3. QED
    BY <2>1, <2>2 DEF Core, MutexInv
<1>2. QED
  BY <1>1, SpecCore, SpecExitInv, PTL DEF Spec, ExitFreezesQueue

-----------------------------------------------------------------------------
(* The parent's exit.                                                      *)

Unreaped == running \cup zombies

(* The waits still to come are enough for the children there are.          *)
(* wait(NULL) reaps any child: only the number matters.                    *)
WaitsLeft ==
  /\ parent = "ui" => Cardinality(Unreaped) <= Len(producers) + Len(consumers)
  /\ parent = "ui_wait" => Cardinality(Unreaped) <= Len(producers) + Len(consumers) + 1
  /\ parent = "ex_kill" => Cardinality(Unreaped) <= Len(victims)
  /\ parent = "ex_wait" => Cardinality(Unreaped) <= Len(victims) + 1
  /\ parent \in {"ex_unlink", "exited"} => Unreaped = {}

ReapInv ==
  /\ running \cap zombies = {}
  /\ \A p \in Unreaped : pc[p] # "unborn"
  /\ WaitsLeft

LEMMA UnreapedType ==
  Core => IsFiniteSet(Unreaped) /\ Cardinality(Unreaped) \in Nat
<1> SUFFICES ASSUME Core PROVE IsFiniteSet(Unreaped) /\ Cardinality(Unreaped) \in Nat
  OBVIOUS
<1>1. Unreaped \in SUBSET Pids
  BY DEF Core, RestOK, Unreaped
<1>2. QED
  BY <1>1, ProcessAssumption, FS_Subset, FS_CardinalityType

(* A wait(NULL) reaps a child, if there is one. *)
LEMMA WaitFacts ==
  ASSUME Core, ReapInv, Wait, UNCHANGED running
  PROVE  /\ zombies' \subseteq zombies
         /\ \/ Unreaped # {} /\ Cardinality(Unreaped') = Cardinality(Unreaped) - 1
            \/ Unreaped = {} /\ Unreaped' = {}
<1>1. CASE running \cup zombies = {} /\ UNCHANGED zombies
  BY <1>1 DEF Unreaped
<1>2. ASSUME NEW z \in zombies, zombies' = zombies \ {z}
      PROVE  /\ zombies' \subseteq zombies /\ Unreaped # {}
             /\ Cardinality(Unreaped') = Cardinality(Unreaped) - 1
  <2>1. Unreaped' = Unreaped \ {z} /\ z \in Unreaped
    BY <1>2 DEF Unreaped, ReapInv
  <2>2. QED
    BY <1>2, <2>1, UnreapedType, FS_RemoveElement
<1>3. QED
  BY <1>1, <1>2 DEF Wait

LEMMA ChildReapInv ==
  ASSUME Core, Core', ReapInv, NEW p \in Pids, ChildStep(p) \/ Die(p) PROVE ReapInv'
<1>1. ASSUME UNCHANGED <<running, zombies, parent, producers, consumers, victims>>,
             \A q \in Pids : pc[q] # "unborn" => pc'[q] # "unborn"
      PROVE  ReapInv'
  BY <1>1 DEF ReapInv, WaitsLeft, Unreaped, Core, RestOK
<1>2. ASSUME NEW from, NEW to \in Labels, Step(p, from, to) PROVE ReapInv'
  <2>1. "unborn" \notin Labels
    BY DEF Labels, ProducerPC, ConsumerPC
  <2>2. QED
    BY <1>1, <1>2, <2>1, StepFacts DEF Step, arrays
<1>3. CASE CallExit(p) \/ KillParent(p)
  BY <1>1, <1>3 DEF CallExit, KillParent, childVars, arrays
<1>4. CASE UnlinkInChild(p) \/ Die(p)
  <2>1. UNCHANGED <<pc, parent, producers, consumers, victims>>
    BY <1>4 DEF UnlinkInChild, Unlinks, Die, arrays
  <2>2. \/ UNCHANGED <<running, zombies>>
        \/ p \in running /\ running' = running \ {p} /\ zombies' = zombies \cup {p}
    BY <1>4 DEF UnlinkInChild, Die
  <2>3. Unreaped' = Unreaped /\ running' \cap zombies' = {}
    BY <2>2 DEF Unreaped, ReapInv
  <2>4. QED
    BY <2>1, <2>3 DEF ReapInv, WaitsLeft
<1>5. QED
  BY <1>2, <1>3, <1>4
     DEF ChildStep, Produce, WaitFree, LockToPut, BeginPut, MoveHead, CountPut, EndPut, UnlockAfterPut,
         PostItem, WaitItem, LockToGet, BeginGet, MoveTail, CountGet, EndGet,
         UnlockAfterGet, PostFree,
         Consume, SemWaitStep, SemPostStep, Labels, ProducerPC, ConsumerPC

LEMMA ForkReapInv ==
  ASSUME Core, ReapInv, NEW p \in Pids, CreateProducer(p) \/ CreateConsumer(p)
  PROVE  ReapInv'
<1>1. PICK first \in {"p_produce", "c_items"} : Fork(p, first)
  BY DEF CreateProducer, CreateConsumer
<1>2. /\ pc[p] = "unborn" /\ pc' = [pc EXCEPT ![p] = first]
      /\ running' = running \cup {p} /\ UNCHANGED <<zombies, parent, victims>>
      /\ parent = "ui"
  BY <1>1 DEF Fork, Idle
<1>3. p \notin Unreaped /\ Unreaped' = Unreaped \cup {p}
  BY <1>2 DEF ReapInv, Unreaped
<1>4. Cardinality(Unreaped') = Cardinality(Unreaped) + 1
  BY <1>3, UnreapedType, FS_AddElement
<1>5. /\ Len(producers') + Len(consumers') = Len(producers) + Len(consumers) + 1
      /\ Len(producers) \in Nat /\ Len(consumers) \in Nat
  <2>1. producers \in Seq(Pids) /\ consumers \in Seq(Pids)
    BY DEF Core, RestOK
  <2>2. Len(producers) \in Nat /\ Len(consumers) \in Nat
    BY <2>1, LenProperties
  <2>3. /\ Len(Append(producers, p)) = Len(producers) + 1
        /\ Len(Append(consumers, p)) = Len(consumers) + 1
    BY <2>1, SequenceFacts
  <2>4. \/ producers' = Append(producers, p) /\ consumers' = consumers
        \/ consumers' = Append(consumers, p) /\ producers' = producers
    BY DEF CreateProducer, CreateConsumer
  <2>5. QED
    BY <2>2, <2>3, <2>4
<1>6. running' \cap zombies' = {}
  BY <1>2, <1>3 DEF ReapInv, Unreaped
<1>7. \A q \in Unreaped' : pc'[q] # "unborn"
  BY <1>2, <1>3 DEF ReapInv, Core, ChildOK, RestOK, Unreaped
<1>8. WaitsLeft'
  BY <1>2, <1>4, <1>5, UnreapedType DEF ReapInv, WaitsLeft
<1>9. QED
  BY <1>6, <1>7, <1>8 DEF ReapInv

LEMMA ParentReapInv ==
  ASSUME Core, ReapInv,
         \/ RemoveProducer \/ RemoveConsumer \/ WaitAfterRemove \/ Quit
         \/ ExitStep \/ ParentDies \/ Interrupt
  PROVE  ReapInv'
<1>0. /\ producers \in Seq(Pids) /\ consumers \in Seq(Pids) /\ victims \in Seq(Pids)
      /\ Len(producers) \in Nat /\ Len(consumers) \in Nat /\ Len(victims) \in Nat
      /\ Cardinality(Unreaped) \in Nat
  BY UnreapedType, LenProperties DEF Core, RestOK
<1>1. ASSUME UNCHANGED <<pc, running>>, zombies' \subseteq zombies, WaitsLeft'
      PROVE  ReapInv'
  BY <1>1 DEF ReapInv, Unreaped
<1>2. ASSUME UNCHANGED <<running, zombies>> PROVE Unreaped' = Unreaped
  BY <1>2 DEF Unreaped
<1>w. ASSUME Wait, UNCHANGED running
      PROVE  /\ zombies' \subseteq zombies
             /\ \/ Cardinality(Unreaped') = Cardinality(Unreaped) - 1
                \/ Cardinality(Unreaped') = 0
  BY <1>w, WaitFacts, FS_EmptySet
<1>3. CASE RemoveProducer \/ RemoveConsumer
  <2>1. /\ parent = "ui" /\ parent' = "ui_wait" /\ UNCHANGED <<pc, running, zombies>>
        /\ Len(producers') + Len(consumers') + 1 = Len(producers) + Len(consumers)
    <3>1. /\ producers # <<>> => Len(Front(producers)) = Len(producers) - 1
          /\ consumers # <<>> => Len(Front(consumers)) = Len(consumers) - 1
      BY <1>0, SequenceFacts
    <3>2. /\ parent = "ui" /\ parent' = "ui_wait" /\ UNCHANGED <<pc, running, zombies>>
          /\ \/ producers # <<>> /\ producers' = Front(producers) /\ consumers' = consumers
             \/ consumers # <<>> /\ consumers' = Front(consumers) /\ producers' = producers
      BY <1>3 DEF RemoveProducer, RemoveConsumer, RemoveLast
    <3>3. \/ Len(producers') = Len(producers) - 1 /\ Len(consumers') = Len(consumers)
          \/ Len(consumers') = Len(consumers) - 1 /\ Len(producers') = Len(producers)
      <4>1. CASE producers # <<>> /\ producers' = Front(producers) /\ consumers' = consumers
        BY <3>1, <4>1, Zenon
      <4>2. CASE consumers # <<>> /\ consumers' = Front(consumers) /\ producers' = producers
        BY <3>1, <4>2, Zenon
      <4>3. QED
        BY <3>2, <4>1, <4>2, Zenon
    <3>4. Len(producers') + Len(consumers') + 1 = Len(producers) + Len(consumers)
      BY <1>0, <3>3
    <3>5. QED
      BY <3>2, <3>4
  <2>2. WaitsLeft'
    BY <1>0, <1>2, <2>1 DEF ReapInv, WaitsLeft
  <2>3. QED
    BY <1>1, <2>1, <2>2
<1>4. CASE WaitAfterRemove
  <2>1. /\ parent = "ui_wait" /\ parent' = "ui" /\ Wait
        /\ UNCHANGED <<pc, running, producers, consumers>>
    BY <1>4 DEF WaitAfterRemove, arrays
  <2>2. WaitsLeft'
    BY <1>0, <1>w, <2>1 DEF ReapInv, WaitsLeft
  <2>3. QED
    BY <1>1, <1>w, <2>1, <2>2
<1>5. CASE Quit
  <2>1. /\ parent = "ui" /\ parent' = "ex_kill" /\ UNCHANGED <<pc, running, zombies>>
        /\ Len(victims') = Len(producers) + Len(consumers)
    BY <1>0, <1>5, SequenceFacts DEF Quit, childVars
  <2>2. WaitsLeft'
    BY <1>0, <1>2, <2>1 DEF ReapInv, WaitsLeft
  <2>3. QED
    BY <1>1, <2>1, <2>2
<1>6. CASE KillVictim
  <2>1. /\ parent = "ex_kill" /\ parent' = "ex_wait" /\ UNCHANGED <<pc, running, zombies>>
        /\ Len(victims') = Len(victims) - 1
    BY <1>0, <1>6, SequenceFacts DEF KillVictim
  <2>2. WaitsLeft'
    BY <1>0, <1>2, <2>1 DEF ReapInv, WaitsLeft
  <2>3. QED
    BY <1>1, <2>1, <2>2
<1>7. CASE WaitVictim
  <2>1. /\ parent = "ex_wait" /\ parent' = "ex_kill" /\ Wait
        /\ UNCHANGED <<pc, running, victims>>
    BY <1>7 DEF WaitVictim
  <2>2. WaitsLeft'
    BY <1>0, <1>w, <2>1 DEF ReapInv, WaitsLeft
  <2>3. QED
    BY <1>1, <1>w, <2>1, <2>2
<1>8. CASE AllVictimsKilled
  <2>1. /\ parent = "ex_kill" /\ victims = <<>> /\ parent' = "ex_unlink"
        /\ UNCHANGED <<pc, running, zombies>>
    BY <1>8 DEF AllVictimsKilled, childVars
  <2>2. Len(victims) = 0
    BY <2>1
  <2>3. Cardinality(Unreaped) = 0
    BY <1>0, <2>1, <2>2 DEF ReapInv, WaitsLeft
  <2>4. Unreaped = {}
    BY <2>3, UnreapedType, FS_EmptySet
  <2>5. WaitsLeft'
    BY <1>2, <2>1, <2>4 DEF WaitsLeft
  <2>6. QED
    BY <1>1, <2>1, <2>5
<1>9. CASE UnlinkInParent
  <2>1. /\ parent = "ex_unlink" /\ parent' \in {"ex_unlink", "exited"}
        /\ UNCHANGED <<pc, running, zombies>>
    BY <1>9 DEF UnlinkInParent, Unlinks
  <2>2. WaitsLeft'
    BY <1>2, <2>1 DEF ReapInv, WaitsLeft
  <2>3. QED
    BY <1>1, <2>1, <2>2
<1>10. CASE ParentDies
  BY <1>1, <1>10 DEF ParentDies, WaitsLeft, childVars
<1>11. CASE Interrupt
  BY <1>11 DEF Interrupt, ReapInv, WaitsLeft, Unreaped
<1>12. QED
  BY <1>3, <1>4, <1>5, <1>6, <1>7, <1>8, <1>9, <1>10, <1>11 DEF ExitStep

LEMMA NextReapInv == Core /\ Core' /\ ReapInv /\ [Next]_vars => ReapInv'
<1> SUFFICES ASSUME Core, Core', ReapInv, [Next]_vars PROVE ReapInv'
  OBVIOUS
<1>1. CASE UNCHANGED vars
  BY <1>1 DEF vars, childVars, arrays, ReapInv, WaitsLeft, Unreaped
<1>2. CASE Restart
  BY <1>2, FS_EmptySet DEF Restart, ReapInv, WaitsLeft, Unreaped
<1>3. QED
  BY <1>1, <1>2, ChildReapInv, ForkReapInv, ParentReapInv DEF Next

(* The parent exits with no child left, however many there were: it waits  *)
(* once for each child it kills, and any wait(NULL) counts for any child.  *)
THEOREM ExitReapsAll == Spec => []ExitLeavesNoChild
<1>1. Init => ReapInv
  BY FS_EmptySet DEF Init, ReapInv, WaitsLeft, Unreaped
<1>2. ReapInv => ExitLeavesNoChild
  BY DEF ReapInv, WaitsLeft, ExitLeavesNoChild, Unreaped
<1>3. QED
  BY <1>1, <1>2, SpecCore, NextReapInv, PTL DEF Spec

-----------------------------------------------------------------------------
(* The ring implements the bounded FIFO, whatever children are killed and  *)
(* whatever an earlier run left behind.                                    *)

(* A producer on its way to put_msg has built its message. *)
Carries == {"p_free", "p_lock", "p_put", "p_copied"}
(* A consumer past the copy of get_msg has one.            *)
Got == HasMessage

DataInv ==
  /\ Contents(queue) \in Seq(Msgs)
  /\ \A p \in Pids : pc[p] \in Carries \cup Got => msg[p] \in Msgs
  /\ \A p \in Pids : pc[p] = "c_copied" => msg[p] = Contents(queue)[1]

(* What a step of LAB_4 is for the abstract queue. *)
FifoStep ==
  \/ Contents(queue') = Contents(queue) /\ boots' = boots
  \/ /\ Len(Contents(queue)) < MSG_MAX - 1 /\ boots' = boots
     /\ \E m \in Msgs : Contents(queue') = Append(Contents(queue), m)
  \/ /\ Contents(queue) # <<>> /\ boots' = boots
     /\ Contents(queue') = Tail(Contents(queue))
  \/ Contents(queue') = <<>> /\ boots' = boots + 1

LEMMA ContentsPrime == Contents(queue)' = Contents(queue')
  BY DEF Contents, Held, SlotAt

LEMMA RingFacts ==
  Core => queue \in QueueType /\ Indexed(queue)
  BY DEF Core, ChildOK, RingInv

-----------------------------------------------------------------------------
(* The steps that touch the ring.                                          *)

(* Nobody else is between the copy and the end of get_msg. *)
LEMMA AloneInRing ==
  ASSUME Core, NEW p \in Pids, pc[p] \in InCritical
  PROVE  \A q \in Pids \ {p} : pc[q] # "c_copied"
  BY DEF Core, MutexInv, InCritical

LEMMA BeginPutData ==
  ASSUME Core, DataInv, NEW p \in Pids, BeginPut(p) PROVE DataInv' /\ FifoStep
<1>1. /\ pc[p] = "p_put" /\ pc' = [pc EXCEPT ![p] = "p_copied"]
      /\ queue' = PutCopy(queue) /\ UNCHANGED <<msg, boots>>
  BY DEF BeginPut, Step
<1>2. Contents(queue') = Contents(queue)
  BY <1>1, RingFacts, PutCopyContents
<1>3. \A q \in Pids : pc'[q] = IF q = p THEN "p_copied" ELSE pc[q]
  BY <1>1 DEF Core, ChildOK
<1>4. DataInv'
  BY <1>1, <1>2, <1>3, ContentsPrime DEF DataInv, Carries, Got, HasMessage
<1>5. QED
  BY <1>1, <1>2, <1>4 DEF FifoStep

(* ++head is where a message enters the abstract queue. *)
LEMMA MoveHeadData ==
  ASSUME Core, DataInv, NEW p \in Pids, MoveHead(p) PROVE DataInv' /\ FifoStep
<1>1. /\ pc[p] = "p_copied" /\ pc' = [pc EXCEPT ![p] = "p_moved"]
      /\ queue' = PutMove(queue, msg[p]) /\ UNCHANGED <<msg, boots>>
  BY DEF MoveHead, Step
<1>2. /\ msg[p] \in Msgs /\ queue.head < MSG_MAX /\ ~PutOverflows(queue)
      /\ Aligned(queue) /\ Held(queue) \in Nat
  BY <1>1, InsideFacts DEF DataInv, Carries, RingAt, InCritical, Between
<1>3. Held(queue) < MSG_MAX - 1
  BY <1>2, QueueAssumption DEF Aligned, Indexed, PutOverflows
<1>4. Contents(queue') = Append(Contents(queue), msg[p])
  BY <1>1, <1>2, <1>3, RingFacts, PutMoveContents
<1>5. Len(Contents(queue)) < MSG_MAX - 1
  BY <1>3, RingFacts, ContentsLength
<1>6. \A q \in Pids \ {p} : pc'[q] = pc[q] /\ msg'[q] = msg[q] /\ pc[q] # "c_copied"
  BY <1>1, AloneInRing DEF Core, ChildOK, InCritical
<1>7. pc'[p] = "p_moved"
  BY <1>1 DEF Core, ChildOK
<1>8. Contents(queue') \in Seq(Msgs)
  BY <1>2, <1>4 DEF DataInv
<1>9. DataInv'
  BY <1>6, <1>7, <1>8, ContentsPrime DEF DataInv, Carries, Got, HasMessage
<1>10. QED
  BY <1>1, <1>2, <1>4, <1>5, <1>9 DEF FifoStep

(* The counters are no part of it. *)
LEMMA CountData ==
  ASSUME Core, DataInv, NEW p \in Pids,
         CountPut(p) \/ EndPut(p) \/ CountGet(p) \/ EndGet(p)
  PROVE  DataInv' /\ FifoStep
<1>1. /\ Contents(queue') = Contents(queue) /\ UNCHANGED boots
      /\ \A q \in Pids \ {p} : pc'[q] = pc[q] /\ msg'[q] = msg[q]
      /\ \/ pc'[p] \in {"p_counted", "p_unlock"}
         \/ pc[p] \in Got /\ pc'[p] \in Got \ {"c_copied"} /\ msg'[p] = msg[p]
  <2> USE DEF Got, HasMessage, Step, Core, ChildOK
  <2>1. CASE CountPut(p) BY <2>1, CountersContents DEF CountPut
  <2>2. CASE EndPut(p) BY <2>2, CountersContents DEF EndPut
  <2>3. CASE CountGet(p) BY <2>3, CountersContents DEF CountGet
  <2>4. CASE EndGet(p) BY <2>4, CountersContents DEF EndGet
  <2>5. QED
    BY <2>1, <2>2, <2>3, <2>4
<1>2. DataInv'
  BY <1>1, ContentsPrime DEF DataInv, Carries, Got, HasMessage
<1>3. QED
  BY <1>1, <1>2 DEF FifoStep

LEMMA BeginGetData ==
  ASSUME Core, DataInv, NEW p \in Pids, BeginGet(p) PROVE DataInv' /\ FifoStep
<1>1. /\ pc[p] = "c_get" /\ pc' = [pc EXCEPT ![p] = "c_copied"]
      /\ ~GetUnderflows(queue) /\ queue' = GetCopy(queue)
      /\ msg' = [msg EXCEPT ![p] = TailMsg(queue)] /\ UNCHANGED boots
  BY DEF BeginGet, Step
<1>a. Held(queue) > 0
  BY <1>1, InsideFacts DEF InCritical, Between, Aligned, GetUnderflows
<1>2. Contents(queue') = Contents(queue) /\ TailMsg(queue) = Contents(queue)[1]
  BY <1>1, <1>a, RingFacts, GetCopyContents
<1>3. Contents(queue)[1] \in Msgs
  <2>1. Len(Contents(queue)) = Held(queue) /\ Held(queue) \in Nat
    BY RingFacts, ContentsLength, HeldType
  <2>2. 1 \in 1 .. Len(Contents(queue))
    BY <1>a, <2>1
  <2>3. QED
    BY <2>2 DEF DataInv
<1>4. /\ pc'[p] = "c_copied" /\ msg'[p] = Contents(queue)[1]
      /\ \A q \in Pids \ {p} : pc'[q] = pc[q] /\ msg'[q] = msg[q]
  BY <1>1, <1>2 DEF Core, ChildOK
<1>5. DataInv'
  BY <1>2, <1>3, <1>4, ContentsPrime DEF DataInv
<1>6. QED
  BY <1>1, <1>2, <1>5 DEF FifoStep

(* ++tail is where a message leaves it. *)
LEMMA MoveTailData ==
  ASSUME Core, DataInv, NEW p \in Pids, MoveTail(p) PROVE DataInv' /\ FifoStep
<1>1. /\ pc[p] = "c_copied" /\ pc' = [pc EXCEPT ![p] = "c_moved"]
      /\ queue' = GetMove(queue) /\ UNCHANGED <<msg, boots>>
  BY DEF MoveTail, Step
<1>2. queue.tail < MSG_MAX /\ Held(queue) > 0
  BY <1>1, InsideFacts DEF RingAt, InCritical, Between, Aligned, GetUnderflows
<1>3. Contents(queue) # <<>> /\ Contents(queue') = Tail(Contents(queue))
  BY <1>1, <1>2, RingFacts, GetMoveContents
<1>4. Contents(queue') \in Seq(Msgs)
  BY <1>3, HeadTailProperties DEF DataInv
<1>5. /\ pc'[p] = "c_moved"
      /\ \A q \in Pids \ {p} : pc'[q] = pc[q] /\ pc[q] # "c_copied"
  BY <1>1, AloneInRing DEF Core, ChildOK, InCritical
<1>6. DataInv'
  BY <1>1, <1>4, <1>5, ContentsPrime DEF DataInv, Carries, Got, HasMessage
<1>7. QED
  BY <1>1, <1>3, <1>6 DEF FifoStep

-----------------------------------------------------------------------------
(* Everything else.                                                        *)

(* A step from one label to another that leaves the ring and the messages. *)
LEMMA SemaphoreData ==
  ASSUME Core, DataInv, NEW p \in Pids, UNCHANGED <<queue, msg, boots>>,
         NEW from, NEW to, pc[p] = from, pc' = [pc EXCEPT ![p] = to],
         to # "c_copied", to \in Carries \cup Got => from \in Carries \cup Got
  PROVE  DataInv' /\ FifoStep
<1>1. \A q \in Pids : pc'[q] = IF q = p THEN to ELSE pc[q]
  BY DEF Core, ChildOK
<1>2. Contents(queue') = Contents(queue)
  OBVIOUS
<1>3. DataInv'
  BY <1>1, <1>2, ContentsPrime DEF DataInv
<1>4. QED
  BY <1>2, <1>3 DEF FifoStep

(* Producing and consuming change the child's own message. *)
LEMMA OwnMessageData ==
  ASSUME Core, DataInv, NEW p \in Pids, Produce(p) \/ Consume(p)
  PROVE  DataInv' /\ FifoStep
<1>1. /\ UNCHANGED <<queue, boots>>
      /\ \A q \in Pids \ {p} : pc'[q] = pc[q] /\ msg'[q] = msg[q]
      /\ \/ pc'[p] = "p_free" /\ msg'[p] \in Msgs
         \/ pc'[p] = "c_items"
  BY DEF Produce, Consume, Step, Core, ChildOK
<1>2. DataInv'
  BY <1>1, ContentsPrime DEF DataInv, Carries, Got, HasMessage
<1>3. QED
  BY <1>1, <1>2 DEF FifoStep

LEMMA ChildData ==
  ASSUME Core, DataInv, NEW p \in Pids, ChildStep(p) PROVE DataInv' /\ FifoStep
<1> USE DEF Carries, Got, HasMessage
<1>1. ASSUME NEW from, NEW to, NEW n, SemWaitStep(p, from, n, to) \/ SemPostStep(p, from, n, to),
             to # "c_copied", to \in Carries \cup Got => from \in Carries \cup Got
      PROVE  DataInv' /\ FifoStep
  <2>1. /\ UNCHANGED <<queue, msg, boots>> /\ pc[p] = from
        /\ pc' = [pc EXCEPT ![p] = to]
    BY <1>1 DEF SemWaitStep, SemPostStep, Step
  <2>2. QED
    BY <1>1, <2>1, SemaphoreData
<1>2. CASE WaitFree(p) BY <1>1, <1>2 DEF WaitFree
<1>3. CASE LockToPut(p) BY <1>1, <1>3 DEF LockToPut
<1>4. CASE UnlockAfterPut(p) BY <1>1, <1>4 DEF UnlockAfterPut
<1>5. CASE PostItem(p) BY <1>1, <1>5 DEF PostItem
<1>6. CASE WaitItem(p) BY <1>1, <1>6 DEF WaitItem
<1>7. CASE LockToGet(p) BY <1>1, <1>7 DEF LockToGet
<1>8. CASE UnlockAfterGet(p) BY <1>1, <1>8 DEF UnlockAfterGet
<1>9. CASE PostFree(p) BY <1>1, <1>9 DEF PostFree
<1>10. CASE CallExit(p) \/ KillParent(p) \/ UnlinkInChild(p)
  <2>1. UNCHANGED <<queue, boots, pc, msg>>
    BY <1>10 DEF CallExit, KillParent, UnlinkInChild, Unlinks, ipc, childVars
  <2>2. QED
    BY <2>1, ContentsPrime DEF DataInv, FifoStep
<1>11. QED
  BY <1>2, <1>3, <1>4, <1>5, <1>6, <1>7, <1>8, <1>9, <1>10, OwnMessageData,
     BeginPutData, MoveHeadData, CountData, BeginGetData, MoveTailData DEF ChildStep

LEMMA RestartData == ASSUME Restart PROVE DataInv' /\ FifoStep
<1>1. Contents(queue') = <<>> /\ boots' = boots + 1
  BY EmptyContents DEF Restart
<1>2. \A p \in Pids : pc'[p] = "unborn"
  BY DEF Restart
<1>3. DataInv'
  BY <1>1, <1>2, ContentsPrime DEF DataInv, Carries, Got, HasMessage
<1>4. QED
  BY <1>1, <1>3 DEF FifoStep

LEMMA NextData == Core /\ DataInv /\ [Next]_vars => DataInv' /\ FifoStep
<1> SUFFICES ASSUME Core, DataInv, [Next]_vars PROVE DataInv' /\ FifoStep
  OBVIOUS
<1>1. ASSUME UNCHANGED <<queue, boots, pc, msg>> PROVE DataInv' /\ FifoStep
  BY <1>1, ContentsPrime DEF DataInv, FifoStep
<1>2. CASE UNCHANGED vars
  BY <1>1, <1>2 DEF vars, ipc, childVars
<1>3. ASSUME NEW p \in Pids, Die(p) PROVE DataInv' /\ FifoStep
  BY <1>1, <1>3 DEF Die, ipc
<1>4. ASSUME NEW p \in Pids, CreateProducer(p) \/ CreateConsumer(p)
      PROVE  DataInv' /\ FifoStep
  <2>1. PICK first \in {"p_produce", "c_items"} : Fork(p, first)
    BY <1>4 DEF CreateProducer, CreateConsumer
  <2>2. UNCHANGED <<queue, msg, boots>> /\ pc' = [pc EXCEPT ![p] = first]
    BY <2>1 DEF Fork, ipc
  <2>3. QED
    BY <2>2, SemaphoreData DEF Carries, Got, HasMessage
<1>5. CASE \/ RemoveProducer \/ RemoveConsumer \/ WaitAfterRemove \/ Quit
           \/ ExitStep \/ ParentDies \/ Interrupt
  BY <1>1, <1>5
     DEF RemoveProducer, RemoveConsumer, RemoveLast, WaitAfterRemove, Quit, ExitStep,
         KillVictim, WaitVictim, AllVictimsKilled, UnlinkInParent, Unlinks,
         ParentDies, Interrupt, ipc, childVars
<1>6. QED
  BY <1>2, <1>3, <1>4, <1>5, ChildData, RestartData DEF Next

LEMMA InitData == Init => DataInv /\ Fifo!Init
<1> SUFFICES ASSUME Init PROVE DataInv /\ Fifo!Init
  OBVIOUS
<1>1. Contents(queue) = <<>> /\ boots = 1 /\ \A p \in Pids : pc[p] = "unborn"
  BY EmptyContents DEF Init
<1>2. QED
  BY <1>1 DEF DataInv, Carries, Got, HasMessage, Fifo!Init

LEMMA SpecData == Spec => []DataInv
  BY InitData, SpecCore, NextData, PTL DEF Spec

-----------------------------------------------------------------------------

(* A consumer copies out the oldest message in the ring, and a whole one:  *)
(* a producer killed in the middle of its copy leaves the half written     *)
(* slot outside what the ring holds.                                       *)
THEOREM OldestFirst == Spec => []DeliversOldest
<1>1. DataInv => DeliversOldest
  BY DEF DataInv, DeliversOldest, At, Got
<1>2. QED
  BY <1>1, SpecData, PTL

(* put_msg and get_msg, called by any number of children that may be       *)
(* killed at any point, over any number of starts of the program, are the  *)
(* Put and Get of a first-in first-out queue of MSG_MAX - 1 places.        *)
THEOREM RingIsFifo == Spec => ImplementsFifo
<1>1. FifoStep => [Fifo!Next]_<<Contents(queue), boots>>
  BY ContentsPrime DEF FifoStep, Fifo!Next, Fifo!Put, Fifo!Get, Fifo!Reset
<1>2. Core /\ DataInv /\ [Next]_vars => [Fifo!Next]_<<Contents(queue), boots>>
  BY <1>1, NextData
<1>3. QED
  BY <1>2, InitData, SpecCore, SpecData, PTL DEF Spec, ImplementsFifo, Fifo!Spec
=============================================================================
