-------------------------- MODULE ThreadQueueProofs --------------------------
(***************************************************************************)
(* What holds of LAB_5 for every number of threads, every length of the    *)
(* ring and every number of restarts.                                      *)
(***************************************************************************)
EXTENDS ThreadQueue, MsgQueueProofs, FiniteSetTheorems, SequenceTheorems

Labels == ProducerPC \cup ConsumerPC

(* A worker between the two halves of put_msg or get_msg finds the index   *)
(* it is about to use inside the ring, and the ring not full or not empty. *)
RingInv ==
  /\ Aligned(queue)
  /\ mutex # Destroyed => \A t \in Threads :
       /\ pc[t] = "p_copied" => queue.head < MSG_MAX /\ ~PutOverflows(queue)
       /\ pc[t] = "c_copied" => queue.tail < MSG_MAX /\ ~GetUnderflows(queue)

(* The owner of the mutex is in the critical section, and nobody else,     *)
(* dead or alive, until the mutex is destroyed.                            *)
MutexInv ==
  /\ mutex # Destroyed => \A t \in Threads : pc[t] \in InCritical => mutex = t
  /\ mutex \in Threads => pc[mutex] \in InCritical

WorkerOK ==
  /\ queue \in QueueType
  /\ mutex \in Threads \cup {Nobody, Destroyed}
  /\ sem \in [Sems -> Nat]
  /\ pc \in [Threads -> Labels \cup {"unborn"}]
  /\ msg \in [Threads -> Msgs \cup {NoMsg, Torn}]

(* TypeOK without what a worker's own steps change. *)
RestOK ==
  /\ names \subseteq Sems
  /\ fresh \in BOOLEAN /\ boots \in Nat
  /\ running \subseteq Threads /\ cancelled \subseteq Threads
  /\ main \in {"ui", "join", "down"} /\ target \in Threads \cup {Nobody}
  /\ producers \in Seq(Threads) /\ consumers \in Seq(Threads)
  /\ exiting \in Threads \cup {Main, Nobody}
  /\ unwind \in {"destroy", "free_space", "items"}

(* As in LAB_4, that the indices stay inside the ring rests on the mutex.  *)
Core == WorkerOK /\ RestOK /\ MutexInv /\ RingInv

LEMMA CoreParts == Core => TypeOK /\ MutualExclusion
<1>1. Core => TypeOK
  BY DEF Core, WorkerOK, RestOK, TypeOK, Labels
<1>2. Core => MutualExclusion
  BY DEF Core, MutexInv, MutualExclusion, At
<1>3. QED
  BY <1>1, <1>2

-----------------------------------------------------------------------------
(* The steps of a worker.                                                  *)

LEMMA StepFacts ==
  ASSUME Core, NEW t \in Threads, NEW from, NEW to \in Labels, Step(t, from, to)
  PROVE  /\ RestOK' /\ pc' \in [Threads -> Labels \cup {"unborn"}]
         /\ pc[t] = from /\ pc'[t] = to /\ t \in running
         /\ \A u \in Threads \ {t} : pc'[u] = pc[u]
         /\ UNCHANGED <<running, main, fresh, boots>>
  BY DEF Core, WorkerOK, RestOK, Step, system, mainVars, arrays, exitVars

(* Outside the critical section a worker's step touches neither the ring   *)
(* nor the mutex.                                                          *)
LEMMA OutsideStep ==
  ASSUME Core, NEW t \in Threads,
         NEW from \in Labels \ InCritical, NEW to \in Labels \ InCritical,
         Step(t, from, to), UNCHANGED <<queue, mutex>>, sem' \in [Sems -> Nat],
         msg' \in [Threads -> Msgs \cup {NoMsg, Torn}]
  PROVE  Core'
<1>1. WorkerOK' /\ RestOK'
  BY StepFacts DEF Core, WorkerOK
<1>2. MutexInv'
  BY StepFacts DEF Core, MutexInv
<1>3. RingInv'
  <2>1. to \notin {"p_copied", "c_copied"}
    BY DEF InCritical
  <2>2. QED
    BY <2>1, StepFacts DEF Core, RingInv
<1>4. QED
  BY <1>1, <1>2, <1>3 DEF Core

(* Once the mutex is destroyed, nothing but types is promised.             *)
LEMMA RaceStep ==
  ASSUME Core, NEW t \in Threads, NEW from, NEW to \in Labels, Step(t, from, to),
         mutex = Destroyed, UNCHANGED <<queue, mutex, sem>>,
         msg' \in [Threads -> Msgs \cup {NoMsg, Torn}]
  PROVE  Core'
<1>1. WorkerOK' /\ RestOK'
  BY StepFacts DEF Core, WorkerOK
<1>2. MutexInv'
  BY ThreadAssumption DEF ThreadAssumption, MutexInv
<1>3. RingInv'
  BY DEF Core, RingInv
<1>4. QED
  BY <1>1, <1>2, <1>3 DEF Core

LEMMA LockCore ==
  ASSUME Core, NEW t \in Threads,
         NEW from \in Labels \ InCritical, NEW to \in {"p_put", "c_get"},
         LockStep(t, from, to)
  PROVE  Core'
<1>1. /\ Step(t, from, to) /\ UNCHANGED <<queue, sem, msg>>
      /\ (mutex = Nobody /\ mutex' = t) \/ (mutex = Destroyed /\ mutex' = mutex)
      /\ to \in Labels /\ to \in InCritical
  BY DEF LockStep, Labels, ProducerPC, ConsumerPC, InCritical
<1>2. CASE mutex = Destroyed
  <2>1. mutex' = mutex
    BY <1>1, <1>2, ThreadAssumption DEF ThreadAssumption
  <2>2. QED
    BY <1>1, <1>2, <2>1, RaceStep DEF Core, WorkerOK
<1>3. CASE mutex = Nobody
  <2>0. mutex # Destroyed /\ mutex' = t /\ mutex' # Destroyed
    BY <1>1, <1>3, ThreadAssumption DEF ThreadAssumption
  <2>1. WorkerOK' /\ RestOK'
    BY <1>1, <2>0, StepFacts DEF Core, WorkerOK
  <2>2. \A u \in Threads : pc[u] \notin InCritical
    BY <1>3, <2>0, ThreadAssumption DEF Core, MutexInv, ThreadAssumption
  <2>3. MutexInv'
    BY <1>1, <2>0, <2>2, StepFacts DEF MutexInv
  <2>4. RingInv'
    BY <1>1, <2>0, StepFacts DEF Core, RingInv
  <2>5. QED
    BY <2>1, <2>3, <2>4 DEF Core
<1>4. QED
  BY <1>1, <1>2, <1>3

LEMMA UnlockCore ==
  ASSUME Core, NEW t \in Threads,
         NEW from \in InCritical, NEW to \in Labels \ InCritical,
         UnlockStep(t, from, to)
  PROVE  Core'
<1>1. /\ Step(t, from, to) /\ UNCHANGED <<queue, sem, msg>>
      /\ mutex' = IF mutex = Destroyed THEN Destroyed ELSE Nobody
  BY DEF UnlockStep
<1>2. CASE mutex = Destroyed
  BY <1>1, <1>2, RaceStep DEF Core, WorkerOK
<1>3. CASE mutex # Destroyed
  <2>1. WorkerOK' /\ RestOK'
    BY <1>1, <1>3, StepFacts DEF Core, WorkerOK
  <2>2. \A u \in Threads \ {t} : pc[u] \notin InCritical
    BY <1>1, <1>3, StepFacts DEF Core, MutexInv
  <2>3. MutexInv'
    BY <1>1, <1>3, <2>2, StepFacts, ThreadAssumption DEF MutexInv, ThreadAssumption
  <2>4. to \notin {"p_copied", "c_copied"}
    BY DEF InCritical
  <2>5. RingInv'
    BY <1>1, <1>3, <2>4, StepFacts DEF Core, RingInv
  <2>6. QED
    BY <2>1, <2>3, <2>5 DEF Core
<1>4. QED
  BY <1>2, <1>3

(* Nobody else is in the critical section to rely on the index that moves. *)
LEMMA CriticalStep ==
  ASSUME Core, NEW t \in Threads, NEW from \in InCritical, NEW to \in InCritical,
         Step(t, from, to), mutex # Destroyed, UNCHANGED <<mutex, sem>>,
         queue' \in QueueType, Aligned(queue'),
         to = "p_copied" => queue'.head < MSG_MAX /\ ~PutOverflows(queue'),
         to = "c_copied" => queue'.tail < MSG_MAX /\ ~GetUnderflows(queue'),
         msg' \in [Threads -> Msgs \cup {NoMsg, Torn}]
  PROVE  Core'
<1>0. to \in Labels
  BY DEF InCritical, Labels, ProducerPC, ConsumerPC
<1>1. WorkerOK' /\ RestOK'
  BY <1>0, StepFacts DEF Core, WorkerOK
<1>2. MutexInv'
  BY <1>0, StepFacts DEF Core, MutexInv
<1>3. RingInv'
  <2>1. \A u \in Threads \ {t} : pc'[u] \notin {"p_copied", "c_copied"}
    BY <1>0, StepFacts DEF Core, MutexInv, InCritical
  <2>2. QED
    BY <1>0, <2>1, StepFacts DEF RingInv
<1>4. QED
  BY <1>1, <1>2, <1>3 DEF Core

LEMMA BeginPutCore == ASSUME Core, NEW t \in Threads, BeginPut(t) PROVE Core'
<1>1. /\ Step(t, "p_put", "p_copied") /\ UNCHANGED <<mutex, sem, msg>>
      /\ queue' = PutCopy(queue) /\ ~PutOverflows(queue)
      /\ mutex # Destroyed
  BY DEF BeginPut
<1>2. queue \in QueueType /\ Aligned(queue) /\ msg' \in [Threads -> Msgs \cup {NoMsg, Torn}]
  BY <1>1 DEF Core, WorkerOK, RingInv
<1>3. /\ queue' \in QueueType /\ Aligned(queue')
      /\ queue'.head < MSG_MAX /\ ~PutOverflows(queue')
  BY <1>1, <1>2, PutCopyFacts DEF PutOverflows, Aligned, Indexed
<1>4. QED
  BY <1>1, <1>2, <1>3, CriticalStep DEF InCritical

LEMMA EndPutFacts ==
  ASSUME Core, NEW t \in Threads, EndPut(t)
  PROVE  /\ Step(t, "p_copied", "p_unlock") /\ UNCHANGED <<mutex, sem>>
         /\ mutex # Destroyed /\ queue' \in QueueType /\ Aligned(queue')
         /\ msg' = [msg EXCEPT ![t] = NoMsg]
         /\ queue'.msg_amount = queue.msg_amount + 1
         /\ Len(Contents(queue)) < MSG_MAX - 1
         /\ Contents(queue') = Append(Contents(queue), msg[t])
<1>1. /\ Step(t, "p_copied", "p_unlock") /\ UNCHANGED <<mutex, sem>>
      /\ queue' = PutCommit(queue, msg[t]) /\ msg' = [msg EXCEPT ![t] = NoMsg]
      /\ mutex # Destroyed
  BY DEF EndPut
<1>2. /\ queue \in QueueType /\ Aligned(queue)
      /\ queue.head < MSG_MAX /\ ~PutOverflows(queue)
      /\ msg[t] \in Msgs \cup {NoMsg, Torn}
  BY <1>1 DEF Core, WorkerOK, RingInv, Step
<1>3. QED
  BY <1>1, <1>2, PutCommitFacts

LEMMA EndPutCore == ASSUME Core, NEW t \in Threads, EndPut(t) PROVE Core'
<1>1. msg' \in [Threads -> Msgs \cup {NoMsg, Torn}]
  BY EndPutFacts DEF Core, WorkerOK
<1>2. QED
  BY <1>1, EndPutFacts, CriticalStep DEF InCritical

LEMMA BeginGetCore == ASSUME Core, NEW t \in Threads, BeginGet(t) PROVE Core'
<1>1. /\ Step(t, "c_get", "c_copied") /\ UNCHANGED <<mutex, sem>>
      /\ queue' = GetCopy(queue) /\ ~GetUnderflows(queue)
      /\ msg' = [msg EXCEPT ![t] = TailMsg(queue)] /\ mutex # Destroyed
  BY DEF BeginGet
<1>2. queue \in QueueType /\ Aligned(queue) /\ msg \in [Threads -> Msgs \cup {NoMsg, Torn}]
  BY DEF Core, WorkerOK, RingInv
<1>3. /\ queue' \in QueueType /\ Aligned(queue')
      /\ queue'.tail < MSG_MAX /\ ~GetUnderflows(queue')
      /\ TailMsg(queue) \in Msgs \cup {NoMsg, Torn}
  <2>1. Held(queue) > 0
    BY <1>1, <1>2 DEF GetUnderflows, Aligned, QueueType
  <2>2. QED
    BY <1>1, <1>2, <2>1, GetCopyFacts DEF GetUnderflows, Aligned, Indexed
<1>4. QED
  BY <1>1, <1>2, <1>3, CriticalStep DEF InCritical

LEMMA EndGetFacts ==
  ASSUME Core, NEW t \in Threads, EndGet(t)
  PROVE  /\ Step(t, "c_copied", "c_unlock") /\ UNCHANGED <<mutex, sem, msg>>
         /\ mutex # Destroyed /\ queue' \in QueueType /\ Aligned(queue')
         /\ queue'.msg_amount = queue.msg_amount - 1
         /\ Contents(queue) # <<>> /\ Contents(queue') = Tail(Contents(queue))
<1>1. /\ Step(t, "c_copied", "c_unlock") /\ UNCHANGED <<mutex, sem, msg>>
      /\ queue' = GetCommit(queue) /\ mutex # Destroyed
  BY DEF EndGet
<1>2. /\ queue \in QueueType /\ Aligned(queue)
      /\ queue.tail < MSG_MAX /\ ~GetUnderflows(queue)
  BY <1>1 DEF Core, WorkerOK, RingInv, Step
<1>3. QED
  BY <1>1, <1>2, GetCommitFacts

LEMMA EndGetCore == ASSUME Core, NEW t \in Threads, EndGet(t) PROVE Core'
<1>1. msg' \in [Threads -> Msgs \cup {NoMsg, Torn}]
  BY EndGetFacts DEF Core, WorkerOK
<1>2. QED
  BY <1>1, EndGetFacts, CriticalStep DEF InCritical

(* Producing, consuming and the semaphores.                                *)
LEMMA OutsideCore ==
  ASSUME Core, NEW t \in Threads,
         \/ Produce(t) \/ Consume(t)
         \/ WaitFree(t) \/ PostItem(t) \/ WaitItem(t) \/ PostFree(t)
  PROVE  Core'
<1> USE DEF InCritical, Labels, ProducerPC, ConsumerPC
<1>1. /\ UNCHANGED <<queue, mutex>>
      /\ sem' \in [Sems -> Nat] /\ msg' \in [Threads -> Msgs \cup {NoMsg, Torn}]
  BY DEF Produce, Consume, WaitFree, PostItem, WaitItem, PostFree,
         SemWaitStep, SemPostStep, Core, WorkerOK, Sems
<1>2. \/ Step(t, "p_produce", "p_free") \/ Step(t, "c_consume", "c_items")
      \/ Step(t, "p_free", "p_lock") \/ Step(t, "p_post", "p_produce")
      \/ Step(t, "c_items", "c_lock") \/ Step(t, "c_post", "c_consume")
  BY DEF Produce, Consume, WaitFree, PostItem, WaitItem, PostFree,
         SemWaitStep, SemPostStep
<1>3. QED
  BY <1>1, <1>2, OutsideStep

LEMMA RaceCore == ASSUME Core, NEW t \in Threads, RaceForRing(t) PROVE Core'
<1> USE DEF Labels, ProducerPC, ConsumerPC
<1>1. /\ mutex = Destroyed /\ UNCHANGED <<queue, mutex, sem>>
      /\ msg' \in [Threads -> Msgs \cup {NoMsg, Torn}]
  BY DEF RaceForRing, Core, WorkerOK
<1>2. \/ Step(t, "p_put", "p_copied") \/ Step(t, "p_copied", "p_unlock")
      \/ Step(t, "c_get", "c_copied") \/ Step(t, "c_copied", "c_unlock")
  BY DEF RaceForRing
<1>3. QED
  BY <1>1, <1>2, RaceStep

LEMMA MutexCore ==
  ASSUME Core, NEW t \in Threads, LockAny(t) \/ UnlockAfterPut(t) \/ UnlockAfterGet(t)
  PROVE  Core'
<1> USE DEF InCritical, Labels, ProducerPC, ConsumerPC
<1>1. CASE LockToPut(t) BY <1>1, LockCore DEF LockToPut
<1>2. CASE LockToGet(t) BY <1>2, LockCore DEF LockToGet
<1>3. CASE UnlockAfterPut(t) BY <1>3, UnlockCore DEF UnlockAfterPut
<1>4. CASE UnlockAfterGet(t) BY <1>4, UnlockCore DEF UnlockAfterGet
<1>5. QED
  BY <1>1, <1>2, <1>3, <1>4 DEF LockAny

-----------------------------------------------------------------------------
(* Everything else.                                                        *)

(* Steps that leave the ring, the mutex, the semaphores, pc and msg alone. *)
LEMMA SystemCore ==
  ASSUME Core, UNCHANGED <<queue, mutex, sem, pc, msg>>, RestOK'
  PROVE  Core'
BY DEF Core, WorkerOK, MutexInv, RingInv

LEMMA ProcessEndsRest == ASSUME RestOK, ProcessEnds, names' \subseteq Sems PROVE RestOK'
BY DEF RestOK, ProcessEnds, arrays, exitVars

LEMMA ExitCore ==
  ASSUME Core, NEW x \in Threads \cup {Main}, Exit(x) PROVE Core'
<1>1. CASE exiting = Nobody
  <2>1. RestOK'
    BY <1>1 DEF Exit, Core, RestOK, system, workerVars, mainVars, arrays
  <2>2. UNCHANGED <<queue, mutex, sem, pc, msg>>
    BY <1>1 DEF Exit, workerVars
  <2>3. QED
    BY <2>1, <2>2, SystemCore
<1>2. CASE exiting # Nobody
  <2>1. ProcessEnds /\ UNCHANGED <<mutex, names>>
    BY <1>2 DEF Exit
  <2>2. RestOK'
    BY <2>1, ProcessEndsRest DEF Core, RestOK
  <2>3. QED
    BY <2>1, <2>2, SystemCore DEF ProcessEnds
<1>3. QED
  BY <1>1, <1>2

LEMMA WorkerEndsCore ==
  ASSUME Core, NEW t \in Threads, ActOnCancel(t) \/ CallExit(t)
  PROVE  Core'
<1>1. CASE ActOnCancel(t)
  <2>1. RestOK' /\ UNCHANGED <<queue, mutex, sem, pc, msg>>
    BY <1>1 DEF ActOnCancel, Core, RestOK, system, mainVars, arrays, exitVars
  <2>2. QED
    BY <2>1, SystemCore
<1>2. QED
  BY <1>1, ExitCore DEF CallExit

LEMMA AtExitCore == ASSUME Core, AtExit PROVE Core'
<1>1. ASSUME ProcessEnds, UNCHANGED mutex, names' \subseteq names PROVE Core'
  <2>1. names' \subseteq Sems
    BY <1>1 DEF Core, RestOK
  <2>2. RestOK'
    BY <1>1, <2>1, ProcessEndsRest DEF Core
  <2>3. QED
    BY <1>1, <2>2, SystemCore DEF ProcessEnds
<1>2. ASSUME DestroyMutex, mutex = Nobody PROVE Core'
  <2>1. mutex' = Destroyed /\ UNCHANGED <<queue, sem, pc, msg>>
    BY <1>2 DEF DestroyMutex, workerVars
  <2>2. RestOK'
    BY <1>2 DEF DestroyMutex, Core, RestOK, system, workerVars, mainVars, arrays
  <2>3. WorkerOK' /\ RingInv'
    BY <2>1 DEF Core, WorkerOK, RingInv
  <2>4. MutexInv'
    BY <1>2, <2>1, ThreadAssumption DEF Core, MutexInv, ThreadAssumption
  <2>5. QED
    BY <2>2, <2>3, <2>4 DEF Core
<1>3. CASE DestroyMutex
  BY <1>1, <1>2, <1>3 DEF DestroyMutex
<1>4. CASE UnlinkFreeSpace
  <2>1. RestOK' /\ UNCHANGED <<queue, mutex, sem, pc, msg>>
    BY <1>4 DEF UnlinkFreeSpace, Core, RestOK, workerVars, mainVars, arrays
  <2>2. QED
    BY <2>1, SystemCore
<1>5. CASE UnlinkItems
  BY <1>1, <1>5 DEF UnlinkItems
<1>6. QED
  BY <1>3, <1>4, <1>5 DEF AtExit

LEMMA LastFacts ==
  ASSUME NEW s \in Seq(Threads), s # <<>>
  PROVE  Last(s) \in Threads /\ Front(s) \in Seq(Threads)
<1>1. Len(s) \in Nat \ {0} /\ s \in [1 .. Len(s) -> Threads]
  BY EmptySeq, LenProperties
<1>2. Last(s) \in Threads
  BY <1>1 DEF Last
<1>3. SubSeq(s, 1, Len(s) - 1) \in Seq(Threads)
  <2>1. /\ Len(s) - 1 \in Int /\ 1 \in Int
        /\ \A i \in 1 .. Len(s) - 1 : s[i] \in Threads
    BY <1>1
  <2>2. QED
    BY <2>1, SubSeqProperties
<1>4. QED
  BY <1>2, <1>3 DEF Front

LEMMA MainCore ==
  ASSUME Core, RemoveProducer \/ RemoveConsumer \/ Join \/ Interrupt
  PROVE  Core'
<1>1. RestOK'
  <2>1. CASE RemoveProducer
    BY <2>1, LastFacts
       DEF RemoveProducer, Cancel, Core, RestOK, system, workerVars, exitVars
  <2>2. CASE RemoveConsumer
    BY <2>2, LastFacts
       DEF RemoveConsumer, Cancel, Core, RestOK, system, workerVars, exitVars
  <2>3. CASE Join
    BY <2>3 DEF Join, Core, RestOK, system, workerVars, arrays, exitVars
  <2>4. CASE Interrupt
    BY <2>4, ProcessEndsRest DEF Interrupt, Core, RestOK
  <2>5. QED
    BY <2>1, <2>2, <2>3, <2>4
<1>2. UNCHANGED <<queue, mutex, sem, pc, msg>>
  BY DEF RemoveProducer, RemoveConsumer, Cancel, Join, Interrupt, ProcessEnds, workerVars
<1>3. QED
  BY <1>1, <1>2, SystemCore

LEMMA StartCore ==
  ASSUME Core, NEW t \in Threads, CreateProducer(t) \/ CreateConsumer(t)
  PROVE  Core'
<1>1. PICK first \in {"p_produce", "c_items"} : Start(t, first)
  BY DEF CreateProducer, CreateConsumer
<1>2. producers' \in Seq(Threads) /\ consumers' \in Seq(Threads)
  <2>1. producers \in Seq(Threads) /\ consumers \in Seq(Threads)
    BY DEF Core, RestOK
  <2>2. /\ producers' = producers \/ producers' = Append(producers, t)
        /\ consumers' = consumers \/ consumers' = Append(consumers, t)
    BY DEF CreateProducer, CreateConsumer
  <2>3. Append(producers, t) \in Seq(Threads) /\ Append(consumers, t) \in Seq(Threads)
    BY <2>1, AppendProperties
  <2>4. QED
    BY <2>1, <2>2, <2>3, Zenon
<1>3. /\ first \in Labels \ InCritical /\ first \notin {"p_copied", "c_copied"}
      /\ pc[t] \notin InCritical
  BY <1>1 DEF Start, Labels, InCritical, ProducerPC, ConsumerPC
<1>4. /\ UNCHANGED <<queue, mutex, sem, msg>> /\ pc' = [pc EXCEPT ![t] = first]
      /\ pc \in [Threads -> Labels \cup {"unborn"}]
  BY <1>1 DEF Start, Core, WorkerOK
<1>5. WorkerOK'
  BY <1>3, <1>4 DEF Core, WorkerOK
<1>6. RestOK'
  BY <1>1, <1>2 DEF Start, Core, RestOK, system, exitVars
<1>7. MutexInv'
  BY <1>3, <1>4 DEF Core, MutexInv
<1>8. RingInv'
  BY <1>3, <1>4 DEF Core, RingInv
<1>9. QED
  BY <1>5, <1>6, <1>7, <1>8 DEF Core

(* A new process starts from an empty ring, a new mutex and no workers,    *)
(* whatever the semaphores are.                                            *)
LEMMA NewProcessCore ==
  ASSUME NewProcess(queue, mutex, pc, msg, running, cancelled, main, target,
                    producers, consumers, exiting, unwind),
         sem \in [Sems -> Nat], names \subseteq Sems, fresh \in BOOLEAN, boots \in Nat
  PROVE  Core
<1>1. WorkerOK
  BY EmptyQueueFacts DEF NewProcess, WorkerOK
<1>2. RestOK
  BY DEF NewProcess, RestOK
<1>3. MutexInv /\ RingInv
  BY EmptyQueueFacts, ThreadAssumption
     DEF NewProcess, MutexInv, RingInv, InCritical, ThreadAssumption
<1>4. QED
  BY <1>1, <1>2, <1>3 DEF Core

LEMMA InitCore == Init => Core
<1> SUFFICES ASSUME Init PROVE Core
  OBVIOUS
<1>1. sem \in [Sems -> Nat] /\ names \subseteq Sems /\ fresh \in BOOLEAN /\ boots \in Nat
  BY QueueAssumption DEF Init, InitialCount, Sems
<1>2. QED
  BY <1>1, NewProcessCore DEF Init

LEMMA RestartCore == ASSUME Core, Restart PROVE Core'
<1>1. sem' \in [Sems -> Nat]
  BY QueueAssumption DEF Core, WorkerOK, Restart, InitialCount, Sems
<1>2. WorkerOK'
  BY <1>1, EmptyQueueFacts DEF Restart, NewProcess, WorkerOK
<1>3. RestOK'
  BY DEF Core, RestOK, Restart, NewProcess
<1>4. MutexInv' /\ RingInv'
  BY EmptyQueueFacts, ThreadAssumption
     DEF Restart, NewProcess, MutexInv, RingInv, InCritical, ThreadAssumption
<1>5. QED
  BY <1>2, <1>3, <1>4 DEF Core

LEMMA NextCore == Core /\ [Next]_vars => Core'
<1> SUFFICES ASSUME Core, [Next]_vars PROVE Core'
  OBVIOUS
<1>1. CASE UNCHANGED vars
  BY <1>1, SystemCore
     DEF vars, system, workerVars, mainVars, arrays, exitVars, Core, RestOK
<1>2. ASSUME NEW t \in Threads, WorkerStep(t) PROVE Core'
  BY <1>2, BeginPutCore, EndPutCore, BeginGetCore, EndGetCore, OutsideCore, MutexCore,
     RaceCore, WorkerEndsCore DEF WorkerStep
<1>3. CASE Quit
  BY <1>3, ExitCore DEF Quit
<1>4. QED
  BY <1>1, <1>2, <1>3, MutexCore, StartCore, MainCore, AtExitCore, RestartCore DEF Next

LEMMA SpecCore == Spec => []Core
  BY InitCore, NextCore, PTL DEF Spec

(* The state of LAB_5 keeps its type, head and tail included, whichever    *)
(* workers are cancelled and while atexit_handler runs beside them.        *)
THEOREM TypeCorrect == Spec => []TypeOK
  BY SpecCore, CoreParts, PTL

(* Until atexit_handler destroys it, the mutex keeps workers out of each   *)
(* other's way in put_msg and get_msg, cancelled and exiting ones too.     *)
THEOREM MutexSafe == Spec => []MutualExclusion
  BY SpecCore, CoreParts, PTL

-----------------------------------------------------------------------------
(* Slots and messages: the claims of the living.                           *)

SlotClaimed == {"p_lock", "p_put", "p_copied"}
SlotPending == {"c_unlock", "c_post"}
ItemClaimed == {"c_lock", "c_get", "c_copied"}
ItemPending == {"p_unlock", "p_post"}

Free == sem["free_space"]
Items == sem["items"]
Living(L) == running \cap At(L)
NumSC == Cardinality(Living(SlotClaimed))
NumSP == Cardinality(Living(SlotPending))
NumIC == Cardinality(Living(ItemClaimed))
NumIP == Cardinality(Living(ItemPending))

(* When the semaphores still account for the ring. *)
Orderly == fresh /\ main # "down" /\ mutex # Destroyed /\ ~Abandoned
Balanced ==
  /\ Free + NumSC + queue.msg_amount + NumSP = MSG_MAX
  /\ Items + NumIC + NumIP = queue.msg_amount
Accounting == Orderly => Balanced

LEMMA AccountingIsTheProperty == Accounting <=> CancelLeaksNothing
  BY DEF Accounting, Orderly, Balanced, CancelLeaksNothing, Free, Items, Living,
         NumSC, NumSP, NumIC, NumIP, SlotClaimed, SlotPending, ItemClaimed, ItemPending

LEMMA CountType ==
  Core => \A L : IsFiniteSet(Living(L)) /\ Cardinality(Living(L)) \in Nat
<1> SUFFICES ASSUME Core, NEW L
             PROVE  IsFiniteSet(Living(L)) /\ Cardinality(Living(L)) \in Nat
  OBVIOUS
<1>1. Living(L) \in SUBSET Threads /\ IsFiniteSet(Threads)
  BY ThreadAssumption DEF Living, At, ThreadAssumption
<1>2. QED
  BY <1>1, FS_Subset, FS_CardinalityType

LEMMA NumberTypes ==
  Core => /\ Free \in Nat /\ Items \in Nat /\ queue.msg_amount \in Nat
          /\ NumSC \in Nat /\ NumSP \in Nat /\ NumIC \in Nat /\ NumIP \in Nat
  BY CountType DEF Core, WorkerOK, Sems, QueueType, Free, Items, NumSC, NumSP, NumIC, NumIP

(* How the number of living workers at some labels changes when one of     *)
(* them goes from one label to another.                                    *)
Change(from, to, L) ==
  (IF to \in L THEN 1 ELSE 0) - (IF from \in L THEN 1 ELSE 0)

LEMMA CountStep ==
  ASSUME Core, NEW t \in Threads, NEW from, NEW to \in Labels, Step(t, from, to), NEW L
  PROVE  Cardinality(Living(L)') = Cardinality(Living(L)) + Change(from, to, L)
<1>1. /\ running' = running /\ t \in running /\ pc[t] = from
      /\ \A u \in Threads : pc'[u] = IF u = t THEN to ELSE pc[u]
  BY StepFacts
<1>2. IsFiniteSet(Living(L)) /\ Cardinality(Living(L)) \in Nat
  BY CountType
<1>3. CASE from \in L /\ to \notin L
  <2>1. Living(L)' = Living(L) \ {t} /\ t \in Living(L)
    BY <1>1, <1>3 DEF Living, At
  <2>2. Cardinality(Living(L)') = Cardinality(Living(L)) - 1
    BY <1>2, <2>1, FS_RemoveElement
  <2>3. Change(from, to, L) = 0 - 1
    BY <1>3 DEF Change
  <2>4. QED
    BY <1>2, <2>2, <2>3
<1>4. CASE from \notin L /\ to \in L
  <2>1. Living(L)' = Living(L) \cup {t} /\ t \notin Living(L)
    BY <1>1, <1>4 DEF Living, At
  <2>2. Cardinality(Living(L)') = Cardinality(Living(L)) + 1
    BY <1>2, <2>1, FS_AddElement
  <2>3. Change(from, to, L) = 1
    BY <1>4 DEF Change
  <2>4. QED
    BY <1>2, <2>2, <2>3
<1>5. CASE (from \in L) = (to \in L)
  <2>1. Living(L)' = Living(L)
    BY <1>1, <1>5 DEF Living, At
  <2>2. Change(from, to, L) = 0
    BY <1>5 DEF Change
  <2>3. QED
    BY <1>2, <2>1, <2>2
<1>6. QED
  BY <1>3, <1>4, <1>5

(* The step adds sc, sp, ic, ip to the four counts. *)
Counts(from, to, sc, sp, ic, ip) ==
  /\ Change(from, to, SlotClaimed) = sc /\ Change(from, to, SlotPending) = sp
  /\ Change(from, to, ItemClaimed) = ic /\ Change(from, to, ItemPending) = ip

LEMMA LabelCounts ==
  /\ Counts("p_produce", "p_free", 0, 0, 0, 0)
  /\ Counts("p_free", "p_lock", 1, 0, 0, 0)
  /\ Counts("p_lock", "p_put", 0, 0, 0, 0)
  /\ Counts("p_put", "p_copied", 0, 0, 0, 0)
  /\ Counts("p_copied", "p_unlock", -1, 0, 0, 1)
  /\ Counts("p_unlock", "p_post", 0, 0, 0, 0)
  /\ Counts("p_post", "p_produce", 0, 0, 0, -1)
  /\ Counts("c_items", "c_lock", 0, 0, 1, 0)
  /\ Counts("c_lock", "c_get", 0, 0, 0, 0)
  /\ Counts("c_get", "c_copied", 0, 0, 0, 0)
  /\ Counts("c_copied", "c_unlock", 0, 1, -1, 0)
  /\ Counts("c_unlock", "c_post", 0, 0, 0, 0)
  /\ Counts("c_post", "c_consume", 0, -1, 0, 0)
  /\ Counts("c_consume", "c_items", 0, 0, 0, 0)
BY DEF Counts, Change, SlotClaimed, SlotPending, ItemClaimed, ItemPending

(* A worker's step that leaves the mutex alone, takes it or gives it back  *)
(* neither ends nor begins an orderly time; it preserves the accounting if *)
(* the semaphores (df, di) and the ring (dm) change by what the counts do. *)
LEMMA BalancedBy ==
  ASSUME Core, Core', Accounting, NEW t \in Threads,
         NEW from, NEW to \in Labels, Step(t, from, to),
         mutex' = mutex \/ mutex = Nobody \/ mutex = t,
         NEW sc \in Int, NEW sp \in Int, NEW ic \in Int, NEW ip \in Int,
         Counts(from, to, sc, sp, ic, ip),
         NEW df \in Int, NEW di \in Int, NEW dm \in Int,
         Free' = Free + df, Items' = Items + di,
         queue'.msg_amount = queue.msg_amount + dm,
         df + sc + dm + sp = 0, di + ic + ip = dm
  PROVE  Accounting'
<1> SUFFICES ASSUME Orderly' PROVE Balanced'
  BY DEF Accounting
<1>1. UNCHANGED <<running, main, fresh>> /\ t \in running
  BY StepFacts
<1>2. Orderly
  BY <1>1, ThreadAssumption DEF Orderly, Abandoned, ThreadAssumption
<1>3. Balanced
  BY <1>2 DEF Accounting
<1>4. /\ NumSC' = NumSC + sc /\ NumSP' = NumSP + sp
      /\ NumIC' = NumIC + ic /\ NumIP' = NumIP + ip
  BY CountStep DEF Counts, NumSC, NumSP, NumIC, NumIP
<1>5. /\ Free \in Nat /\ Items \in Nat /\ queue.msg_amount \in Nat /\ MSG_MAX \in Nat
      /\ NumSC \in Nat /\ NumSP \in Nat /\ NumIC \in Nat /\ NumIP \in Nat
  BY NumberTypes, QueueAssumption
<1>6. /\ Free + NumSC + queue.msg_amount + NumSP = MSG_MAX
      /\ Items + NumIC + NumIP = queue.msg_amount
  BY <1>3 DEF Balanced
<1>7. (Free + df) + (NumSC + sc) + (queue.msg_amount + dm) + (NumSP + sp) = MSG_MAX
  BY <1>5, <1>6
<1>8. (Items + di) + (NumIC + ic) + (NumIP + ip) = queue.msg_amount + dm
  BY <1>5, <1>6
<1>9. QED
  BY <1>4, <1>7, <1>8 DEF Balanced

(* The ring. *)
LEMMA RingAccounting ==
  ASSUME Core, Core', Accounting, NEW t \in Threads,
         BeginPut(t) \/ EndPut(t) \/ BeginGet(t) \/ EndGet(t)
  PROVE  Accounting'
<1> USE DEF Labels, ProducerPC, ConsumerPC
<1>0. /\ queue \in QueueType /\ queue.msg_amount \in Nat
      /\ Free \in Nat /\ Items \in Nat
  BY NumberTypes DEF Core, WorkerOK
<1>1. Free' = Free + 0 /\ Items' = Items + 0 /\ mutex' = mutex
  BY <1>0 DEF BeginPut, EndPut, BeginGet, EndGet, Free, Items
<1>2. CASE BeginPut(t)
  <2>1. Step(t, "p_put", "p_copied") /\ queue'.msg_amount = queue.msg_amount + 0
    BY <1>0, <1>2, PutCopyFacts DEF BeginPut, Core, RingInv, Aligned
  <2>2. QED
    BY <1>1, <2>1, LabelCounts, BalancedBy
<1>3. CASE EndPut(t)
  <2>1. Step(t, "p_copied", "p_unlock") /\ queue'.msg_amount = queue.msg_amount + 1
    BY <1>0, <1>3, EndPutFacts
  <2>2. QED
    BY <1>1, <2>1, LabelCounts, BalancedBy
<1>4. CASE BeginGet(t)
  <2>1. Step(t, "c_get", "c_copied") /\ queue'.msg_amount = queue.msg_amount + 0
    BY <1>0, <1>4 DEF BeginGet, GetCopy, QueueType
  <2>2. QED
    BY <1>1, <2>1, LabelCounts, BalancedBy
<1>5. CASE EndGet(t)
  <2>1. Step(t, "c_copied", "c_unlock") /\ queue'.msg_amount = queue.msg_amount + (-1)
    BY <1>0, <1>5, EndGetFacts
  <2>2. QED
    BY <1>1, <2>1, LabelCounts, BalancedBy
<1>6. QED
  BY <1>2, <1>3, <1>4, <1>5

(* The mutex, and a worker's own message. *)
LEMMA QuietAccounting ==
  ASSUME Core, Core', Accounting, NEW t \in Threads,
         \/ Produce(t) \/ Consume(t) \/ LockAny(t)
         \/ UnlockAfterPut(t) \/ UnlockAfterGet(t)
  PROVE  Accounting'
<1> USE DEF Labels, ProducerPC, ConsumerPC
<1>0. queue.msg_amount \in Nat /\ Free \in Nat /\ Items \in Nat
  BY NumberTypes
<1>1. /\ Free' = Free + 0 /\ Items' = Items + 0
      /\ queue'.msg_amount = queue.msg_amount + 0
  BY <1>0 DEF Produce, Consume, LockAny, LockToPut, LockToGet, LockStep,
              UnlockAfterPut, UnlockAfterGet, UnlockStep, Free, Items
<1>2. mutex' = mutex \/ mutex = Nobody \/ mutex = t
  BY DEF Produce, Consume, LockAny, LockToPut, LockToGet, LockStep,
         UnlockAfterPut, UnlockAfterGet, UnlockStep, Step, Core, MutexInv, InCritical
<1>3. \/ Step(t, "p_produce", "p_free") \/ Step(t, "c_consume", "c_items")
      \/ Step(t, "p_lock", "p_put") \/ Step(t, "c_lock", "c_get")
      \/ Step(t, "p_unlock", "p_post") \/ Step(t, "c_unlock", "c_post")
  BY DEF Produce, Consume, LockAny, LockToPut, LockToGet, LockStep,
         UnlockAfterPut, UnlockAfterGet, UnlockStep
<1>4. CASE Step(t, "p_produce", "p_free") BY <1>1, <1>2, <1>4, LabelCounts, BalancedBy
<1>5. CASE Step(t, "c_consume", "c_items") BY <1>1, <1>2, <1>5, LabelCounts, BalancedBy
<1>6. CASE Step(t, "p_lock", "p_put") BY <1>1, <1>2, <1>6, LabelCounts, BalancedBy
<1>7. CASE Step(t, "c_lock", "c_get") BY <1>1, <1>2, <1>7, LabelCounts, BalancedBy
<1>8. CASE Step(t, "p_unlock", "p_post") BY <1>1, <1>2, <1>8, LabelCounts, BalancedBy
<1>9. CASE Step(t, "c_unlock", "c_post") BY <1>1, <1>2, <1>9, LabelCounts, BalancedBy
<1>10. QED
  BY <1>3, <1>4, <1>5, <1>6, <1>7, <1>8, <1>9

(* The counting semaphores. *)
LEMMA SemaphoreAccounting ==
  ASSUME Core, Core', Accounting, NEW t \in Threads,
         WaitFree(t) \/ PostItem(t) \/ WaitItem(t) \/ PostFree(t)
  PROVE  Accounting'
<1> USE DEF Labels, ProducerPC, ConsumerPC
<1>0. /\ queue.msg_amount \in Nat /\ Free \in Nat /\ Items \in Nat
      /\ sem \in [Sems -> Nat]
  BY NumberTypes DEF Core, WorkerOK
<1>1. queue'.msg_amount = queue.msg_amount + 0 /\ mutex' = mutex
  BY <1>0 DEF WaitFree, PostItem, WaitItem, PostFree, SemWaitStep, SemPostStep
<1>2. CASE WaitFree(t)
  <2>1. Step(t, "p_free", "p_lock") /\ Free' = Free + (-1) /\ Items' = Items + 0
    BY <1>0, <1>2 DEF WaitFree, SemWaitStep, Sems, Free, Items
  <2>2. QED
    BY <1>1, <2>1, LabelCounts, BalancedBy
<1>3. CASE PostItem(t)
  <2>1. Step(t, "p_post", "p_produce") /\ Free' = Free + 0 /\ Items' = Items + 1
    BY <1>0, <1>3 DEF PostItem, SemPostStep, Sems, Free, Items
  <2>2. QED
    BY <1>1, <2>1, LabelCounts, BalancedBy
<1>4. CASE WaitItem(t)
  <2>1. Step(t, "c_items", "c_lock") /\ Free' = Free + 0 /\ Items' = Items + (-1)
    BY <1>0, <1>4 DEF WaitItem, SemWaitStep, Sems, Free, Items
  <2>2. QED
    BY <1>1, <2>1, LabelCounts, BalancedBy
<1>5. CASE PostFree(t)
  <2>1. Step(t, "c_post", "c_consume") /\ Free' = Free + 1 /\ Items' = Items + 0
    BY <1>0, <1>5 DEF PostFree, SemPostStep, Sems, Free, Items
  <2>2. QED
    BY <1>1, <2>1, LabelCounts, BalancedBy
<1>6. QED
  BY <1>2, <1>3, <1>4, <1>5

(* A worker that ends or is born stands where nothing is claimed, unless   *)
(* it takes the mutex with it.                                             *)
LEMMA PopulationAccounting ==
  ASSUME Core, Accounting, UNCHANGED <<queue, mutex, sem, fresh, main>>,
         Orderly' => Orderly,
         Orderly' => \A L \in {SlotClaimed, SlotPending, ItemClaimed, ItemPending} :
                       Living(L)' = Living(L)
  PROVE  Accounting'
<1> SUFFICES ASSUME Orderly' PROVE Balanced'
  BY DEF Accounting
<1>1. Balanced
  BY DEF Accounting
<1>2. NumSC' = NumSC /\ NumSP' = NumSP /\ NumIC' = NumIC /\ NumIP' = NumIP
  BY DEF NumSC, NumSP, NumIC, NumIP
<1>3. Free' = Free /\ Items' = Items /\ queue' = queue
  BY DEF Free, Items
<1>4. QED
  BY <1>1, <1>2, <1>3 DEF Balanced

(* A worker calls exit() inside the critical section, and stays there.     *)
ExitingInv == exiting \in Threads => pc[exiting] \in InCritical

LEMMA NextExiting == Core /\ ExitingInv /\ [Next]_vars => ExitingInv'
<1> SUFFICES ASSUME Core, ExitingInv, [Next]_vars, exiting' \in Threads
             PROVE  pc'[exiting'] \in InCritical
  BY DEF ExitingInv
<1>1. ASSUME exiting' = exiting, pc' = pc PROVE pc'[exiting'] \in InCritical
  BY <1>1 DEF ExitingInv
<1>2. ASSUME NEW t \in Threads, NEW from, NEW to, Step(t, from, to)
      PROVE  pc'[exiting'] \in InCritical
  BY <1>2 DEF Step, exitVars, Core, WorkerOK, ExitingInv
<1>3. ASSUME NEW x, Exit(x), x \in Threads => pc[x] \in InCritical
      PROVE  pc'[exiting'] \in InCritical
  BY <1>3 DEF Exit, ExitingInv, ProcessEnds, exitVars, workerVars
<1>4. ASSUME NEW t \in Threads, WorkerStep(t) \/ LockAny(t)
      PROVE  pc'[exiting'] \in InCritical
  <2>1. CASE CallExit(t)
    BY <1>3, <2>1 DEF CallExit, Reporting, InCritical
  <2>2. CASE ActOnCancel(t)
    BY <1>1, <2>2 DEF ActOnCancel, exitVars
  <2>3. CASE RaceForRing(t)
    BY <1>2, <2>3 DEF RaceForRing
  <2>4. CASE LockAny(t) \/ UnlockAfterPut(t) \/ UnlockAfterGet(t)
    BY <1>2, <2>4 DEF LockAny, LockToPut, LockToGet, LockStep, UnlockAfterPut,
       UnlockAfterGet, UnlockStep
  <2>5. CASE BeginPut(t) \/ EndPut(t) \/ BeginGet(t) \/ EndGet(t)
    BY <1>2, <2>5 DEF BeginPut, EndPut, BeginGet, EndGet
  <2>6. CASE WaitFree(t) \/ PostItem(t) \/ WaitItem(t) \/ PostFree(t)
    BY <1>2, <2>6 DEF WaitFree, PostItem, WaitItem, PostFree, SemWaitStep, SemPostStep
  <2>7. CASE Produce(t) \/ Consume(t)
    BY <1>2, <2>7 DEF Produce, Consume
  <2>8. QED
    BY <1>4, <2>1, <2>2, <2>3, <2>4, <2>5, <2>6, <2>7 DEF WorkerStep
<1>5. ASSUME NEW t \in Threads, CreateProducer(t) \/ CreateConsumer(t)
      PROVE  pc'[exiting'] \in InCritical
  <2>1. PICK first : Start(t, first)
    BY <1>5 DEF CreateProducer, CreateConsumer
  <2>2. exiting' = exiting /\ pc[t] = "unborn" /\ pc' = [pc EXCEPT ![t] = first]
    BY <2>1 DEF Start, exitVars
  <2>3. QED
    BY <2>2 DEF ExitingInv, InCritical, Core, WorkerOK
<1>6. CASE RemoveProducer \/ RemoveConsumer \/ Join \/ Interrupt
  BY <1>1, <1>6 DEF RemoveProducer, RemoveConsumer, Cancel, Join, Interrupt,
     ProcessEnds, exitVars, workerVars
<1>7. CASE AtExit
  BY <1>1, <1>7 DEF AtExit, DestroyMutex, UnlinkFreeSpace, UnlinkItems, ProcessEnds,
     exitVars, workerVars
<1>8. CASE Quit
  BY <1>3, <1>8, ThreadAssumption DEF Quit, ThreadAssumption
<1>9. ~Restart
  BY ThreadAssumption DEF Restart, NewProcess, ThreadAssumption
<1>10. CASE UNCHANGED vars
  BY <1>1, <1>10 DEF vars, exitVars, workerVars
<1>11. QED
  BY <1>4, <1>5, <1>6, <1>7, <1>8, <1>9, <1>10 DEF Next

LEMMA SpecExiting == Spec => []ExitingInv
<1>1. Init => ExitingInv
  BY ThreadAssumption DEF Init, NewProcess, ExitingInv, ThreadAssumption
<1>2. QED
  BY <1>1, NextExiting, SpecCore, PTL DEF Spec

LEMMA CancelAccounting ==
  ASSUME Core, ExitingInv, Accounting, NEW t \in Threads, ActOnCancel(t) PROVE Accounting'
<1>1. /\ UNCHANGED <<queue, mutex, sem, fresh, main, pc>> /\ running' = running \ {t}
  BY DEF ActOnCancel, system, mainVars
<1>2. Orderly' => Orderly
  BY <1>1 DEF Orderly, Abandoned
<1>3. ASSUME Orderly' PROVE pc[t] \in {"p_produce", "p_free", "c_items", "c_consume"}
  <2>1. mutex # Destroyed /\ (mutex \in Threads => mutex \in running /\ mutex # t)
    BY <1>1, <1>3 DEF Orderly, Abandoned
  <2>2. pc[t] \notin InCritical
    BY <2>1 DEF Core, MutexInv
  <2>3. CASE t # exiting
    BY <2>2, <2>3 DEF ActOnCancel, Reporting, InCritical
  <2>4. CASE t = exiting
    BY <2>2, <2>4 DEF ExitingInv
  <2>5. QED
    BY <2>3, <2>4
<1>4. ASSUME Orderly', NEW L \in {SlotClaimed, SlotPending, ItemClaimed, ItemPending}
      PROVE  Living(L)' = Living(L)
  <2>1. pc[t] \notin L
    BY <1>3, <1>4 DEF SlotClaimed, SlotPending, ItemClaimed, ItemPending
  <2>2. t \notin At(L) /\ At(L)' = At(L)
    BY <1>1, <2>1 DEF At
  <2>3. QED
    BY <1>1, <2>2 DEF Living
<1>5. QED
  BY <1>1, <1>2, <1>4, PopulationAccounting

LEMMA StartAccounting ==
  ASSUME Core, Accounting, NEW t \in Threads, CreateProducer(t) \/ CreateConsumer(t)
  PROVE  Accounting'
<1>1. PICK first \in {"p_produce", "c_items"} : Start(t, first)
  BY DEF CreateProducer, CreateConsumer
<1>2. /\ UNCHANGED <<queue, mutex, sem, fresh, main>>
      /\ pc[t] = "unborn" /\ pc' = [pc EXCEPT ![t] = first]
      /\ running' = running \cup {t}
  BY <1>1 DEF Start, system
<1>3. Orderly' => Orderly
  <2>1. mutex # t
    BY <1>2 DEF Core, MutexInv, InCritical
  <2>2. QED
    BY <1>2, <2>1 DEF Orderly, Abandoned
<1>4. ASSUME NEW L \in {SlotClaimed, SlotPending, ItemClaimed, ItemPending}
      PROVE  Living(L)' = Living(L)
  <2>1. pc[t] \notin L /\ first \notin L
    BY <1>2, <1>4 DEF SlotClaimed, SlotPending, ItemClaimed, ItemPending
  <2>2. \A u \in Threads : pc'[u] = IF u = t THEN first ELSE pc[u]
    BY <1>2 DEF Core, WorkerOK
  <2>3. QED
    BY <1>2, <2>1, <2>2 DEF Living, At
<1>5. QED
  BY <1>2, <1>3, <1>4, PopulationAccounting

(* After the end of the process, or of the mutex, nothing is claimed of    *)
(* the semaphores any more.                                                *)
LEMMA DisorderlyAccounting ==
  ASSUME main' = "down" \/ mutex' = Destroyed PROVE Accounting'
BY DEF Accounting, Orderly

LEMMA ExitAccounting ==
  ASSUME Accounting, NEW x, Exit(x) \/ AtExit \/ Interrupt PROVE Accounting'
<1>1. \/ main' = "down" \/ mutex' = Destroyed
      \/ UNCHANGED <<queue, mutex, sem, pc, running, main, fresh>>
  BY DEF Exit, AtExit, Unwinding, DestroyMutex, UnlinkFreeSpace, UnlinkItems, Interrupt,
         ProcessEnds, system, workerVars, mainVars
<1>2. CASE UNCHANGED <<queue, mutex, sem, pc, running, main, fresh>>
  BY <1>2 DEF Accounting, Orderly, Abandoned, Balanced, Free, Items, Living, At,
              NumSC, NumSP, NumIC, NumIP
<1>3. QED
  BY <1>1, <1>2, DisorderlyAccounting

LEMMA MainAccounting ==
  ASSUME Core, Accounting, RemoveProducer \/ RemoveConsumer \/ Join PROVE Accounting'
<1>1. /\ UNCHANGED <<queue, mutex, sem, pc, running, fresh>>
      /\ main # "down"
  BY DEF RemoveProducer, RemoveConsumer, Cancel, AtUI, Join, system, workerVars
<1>2. QED
  BY <1>1 DEF Accounting, Orderly, Abandoned, Balanced, Free, Items, Living, At,
              NumSC, NumSP, NumIC, NumIP

LEMMA FreshAccounting ==
  /\ Init => Accounting
  /\ Restart => Accounting'
<1>1. \A L : running = {} => Living(L) = {}
  BY DEF Living
<1>2. \A L : running' = {} => Living(L)' = {}
  BY DEF Living
<1>3. Init => Accounting
  <2> SUFFICES ASSUME Init PROVE Balanced
    BY DEF Accounting
  <2>1. NumSC = 0 /\ NumSP = 0 /\ NumIC = 0 /\ NumIP = 0
    BY <1>1, FS_EmptySet DEF Init, NewProcess, NumSC, NumSP, NumIC, NumIP
  <2>2. Free = MSG_MAX /\ Items = 0 /\ queue.msg_amount = 0
    BY DEF Init, NewProcess, InitialCount, Sems, Free, Items, EmptyQueue
  <2>3. QED
    BY <2>1, <2>2, QueueAssumption DEF Balanced
<1>4. Restart => Accounting'
  <2> SUFFICES ASSUME Restart, fresh' PROVE Balanced'
    BY DEF Accounting, Orderly
  <2>1. NumSC' = 0 /\ NumSP' = 0 /\ NumIC' = 0 /\ NumIP' = 0
    BY <1>2, FS_EmptySet DEF Restart, NewProcess, NumSC, NumSP, NumIC, NumIP
  <2>2. Free' = MSG_MAX /\ Items' = 0 /\ queue'.msg_amount = 0
    BY DEF Restart, NewProcess, InitialCount, Sems, Free, Items, EmptyQueue
  <2>3. QED
    BY <2>1, <2>2, QueueAssumption DEF Balanced
<1>5. QED
  BY <1>3, <1>4

LEMMA NextAccounting == Core /\ Core' /\ ExitingInv /\ Accounting /\ [Next]_vars => Accounting'
<1> SUFFICES ASSUME Core, Core', ExitingInv, Accounting, [Next]_vars PROVE Accounting'
  OBVIOUS
<1>1. CASE UNCHANGED vars
  BY <1>1 DEF vars, system, workerVars, mainVars, Accounting, Orderly, Abandoned, Balanced,
              Free, Items, Living, At, NumSC, NumSP, NumIC, NumIP
<1>2. ASSUME NEW t \in Threads, RaceForRing(t) PROVE Accounting'
  <2>1. mutex' = Destroyed
    BY <1>2 DEF RaceForRing
  <2>2. QED
    BY <2>1, DisorderlyAccounting
<1>3. ASSUME NEW t \in Threads, WorkerStep(t) PROVE Accounting'
  BY <1>2, <1>3, RingAccounting, QuietAccounting, SemaphoreAccounting, CancelAccounting,
     ExitAccounting DEF WorkerStep, CallExit
<1>4. QED
  BY <1>1, <1>3, QuietAccounting, StartAccounting, MainAccounting, ExitAccounting,
     FreshAccounting DEF Next, Quit

LEMMA SpecAccounting == Spec => []Accounting
  BY SpecCore, SpecExiting, FreshAccounting, NextAccounting, PTL DEF Spec

(* Deferred cancellation leaks neither a slot nor a message, for any       *)
(* number of threads: the semaphores account for the ring and the living.  *)
THEOREM NothingLeaks == Spec => []CancelLeaksNothing
  BY SpecAccounting, AccountingIsTheProperty, PTL

-----------------------------------------------------------------------------
(* The bounded FIFO.                                                       *)

(* A producer on its way to put_msg has built its message. *)
Carries == {"p_free", "p_lock", "p_put", "p_copied"}
DataInv ==
  /\ Contents(queue) \in Seq(Msgs)
  /\ \A t \in Threads : pc[t] \in Carries => msg[t] \in Msgs

(* What a step of LAB_5 is for the abstract queue. *)
FifoStep ==
  \/ Contents(queue') = Contents(queue) /\ boots' = boots
  \/ /\ Len(Contents(queue)) < MSG_MAX - 1 /\ boots' = boots
     /\ \E m \in Msgs : Contents(queue') = Append(Contents(queue), m)
  \/ /\ Contents(queue) # <<>> /\ boots' = boots
     /\ Contents(queue') = Tail(Contents(queue))
  \/ Contents(queue') = <<>> /\ boots' = boots + 1

LEMMA ContentsPrime == Contents(queue)' = Contents(queue')
  BY DEF Contents, Held, SlotAt

LEMMA RingFacts == Core => queue \in QueueType /\ Aligned(queue)
  BY DEF Core, WorkerOK, RingInv

(* A step that leaves the abstract queue alone. *)
LEMMA StutterData ==
  ASSUME Core, DataInv, NEW t \in Threads, Contents(queue') = Contents(queue), boots' = boots,
         \A u \in Threads \ {t} : pc'[u] = pc[u] /\ msg'[u] = msg[u],
         pc'[t] \in Carries => msg'[t] \in Msgs
  PROVE  DataInv' /\ FifoStep
<1>1. DataInv'
  BY ContentsPrime DEF DataInv
<1>2. QED
  BY <1>1 DEF FifoStep

LEMMA BeginData ==
  ASSUME Core, DataInv, NEW t \in Threads, BeginPut(t) \/ BeginGet(t)
  PROVE  DataInv' /\ FifoStep
<1>1. Contents(queue') = Contents(queue)
  <2>1. CASE BeginPut(t)
    BY <2>1, RingFacts, PutCopyContents DEF BeginPut, Aligned
  <2>2. CASE BeginGet(t)
    <3>1. Held(queue) > 0
      BY <2>2, RingFacts DEF BeginGet, GetUnderflows, Aligned, QueueType
    <3>2. QED
      BY <2>2, <3>1, RingFacts, GetCopyContents DEF BeginGet, Aligned
  <2>3. QED
    BY <2>1, <2>2
<1>2. /\ boots' = boots
      /\ \A u \in Threads \ {t} : pc'[u] = pc[u] /\ msg'[u] = msg[u]
  BY DEF BeginPut, BeginGet, Step, system, Core, WorkerOK
<1>3. pc'[t] \in Carries => msg'[t] \in Msgs
  BY DEF BeginPut, BeginGet, Step, Core, WorkerOK, DataInv, Carries
<1>4. QED
  BY <1>1, <1>2, <1>3, StutterData

LEMMA EndPutData ==
  ASSUME Core, DataInv, NEW t \in Threads, EndPut(t) PROVE DataInv' /\ FifoStep
<1>1. /\ pc[t] = "p_copied" /\ pc' = [pc EXCEPT ![t] = "p_unlock"]
      /\ msg' = [msg EXCEPT ![t] = NoMsg] /\ UNCHANGED boots
  BY DEF EndPut, Step, system
<1>2. /\ msg[t] \in Msgs /\ Contents(queue') = Append(Contents(queue), msg[t])
      /\ Len(Contents(queue)) < MSG_MAX - 1
  BY <1>1, EndPutFacts DEF DataInv, Carries
<1>3. /\ \A u \in Threads \ {t} : pc'[u] = pc[u] /\ msg'[u] = msg[u]
      /\ pc'[t] = "p_unlock"
  BY <1>1 DEF Core, WorkerOK
<1>4. Contents(queue') \in Seq(Msgs)
  BY <1>2 DEF DataInv
<1>5. DataInv'
  BY <1>3, <1>4, ContentsPrime DEF DataInv, Carries
<1>6. QED
  BY <1>1, <1>2, <1>5 DEF FifoStep

LEMMA EndGetData ==
  ASSUME Core, DataInv, NEW t \in Threads, EndGet(t) PROVE DataInv' /\ FifoStep
<1>1. /\ pc[t] = "c_copied" /\ pc' = [pc EXCEPT ![t] = "c_unlock"]
      /\ UNCHANGED <<msg, boots>>
  BY DEF EndGet, Step, system
<1>2. Contents(queue) # <<>> /\ Contents(queue') = Tail(Contents(queue))
  BY EndGetFacts
<1>3. Contents(queue') \in Seq(Msgs)
  BY <1>2, HeadTailProperties DEF DataInv
<1>4. \A u \in Threads : pc'[u] = IF u = t THEN "c_unlock" ELSE pc[u]
  BY <1>1 DEF Core, WorkerOK
<1>5. DataInv'
  BY <1>1, <1>3, <1>4, ContentsPrime DEF DataInv, Carries
<1>6. QED
  BY <1>1, <1>2, <1>5 DEF FifoStep

LEMMA OutsideData ==
  ASSUME Core, DataInv, NEW t \in Threads,
         \/ Produce(t) \/ Consume(t) \/ RaceForRing(t) \/ LockAny(t)
         \/ WaitFree(t) \/ PostItem(t) \/ WaitItem(t) \/ PostFree(t)
         \/ UnlockAfterPut(t) \/ UnlockAfterGet(t)
  PROVE  DataInv' /\ FifoStep
<1> USE DEF Produce, Consume, RaceForRing, LockAny, LockToPut, LockToGet, LockStep,
            WaitFree, PostItem, WaitItem, PostFree, SemWaitStep, SemPostStep,
            UnlockAfterPut, UnlockAfterGet, UnlockStep, Step
<1>1. queue' = queue /\ boots' = boots
  BY DEF system
<1>2. \A u \in Threads \ {t} : pc'[u] = pc[u] /\ msg'[u] = msg[u]
  BY DEF Core, WorkerOK
<1>3. pc'[t] \in Carries => msg'[t] \in Msgs
  BY DEF Core, WorkerOK, DataInv, Carries
<1>4. QED
  BY <1>1, <1>2, <1>3, StutterData

LEMMA SystemData ==
  ASSUME DataInv, UNCHANGED <<queue, boots, pc, msg>> PROVE DataInv' /\ FifoStep
BY ContentsPrime DEF DataInv, FifoStep

LEMMA ExitData ==
  ASSUME DataInv, NEW x, Exit(x) \/ AtExit \/ Interrupt PROVE DataInv' /\ FifoStep
BY SystemData
   DEF Exit, AtExit, DestroyMutex, UnlinkFreeSpace, UnlinkItems, Interrupt,
       ProcessEnds, system, workerVars

LEMMA StartData ==
  ASSUME Core, DataInv, NEW t \in Threads, CreateProducer(t) \/ CreateConsumer(t)
  PROVE  DataInv' /\ FifoStep
<1>1. PICK first \in {"p_produce", "c_items"} : Start(t, first)
  BY DEF CreateProducer, CreateConsumer
<1>2. UNCHANGED <<queue, boots, msg>> /\ pc' = [pc EXCEPT ![t] = first]
  BY <1>1 DEF Start, system
<1>3. \A u \in Threads : pc'[u] = IF u = t THEN first ELSE pc[u]
  BY <1>2 DEF Core, WorkerOK
<1>4. QED
  BY <1>2, <1>3, StutterData DEF Carries

LEMMA RestartData == ASSUME Restart PROVE DataInv' /\ FifoStep
<1>1. Contents(queue') = <<>> /\ boots' = boots + 1
  BY EmptyContents DEF Restart, NewProcess
<1>2. \A t \in Threads : pc'[t] = "unborn"
  BY DEF Restart, NewProcess
<1>3. DataInv'
  BY <1>1, <1>2, ContentsPrime DEF DataInv, Carries
<1>4. QED
  BY <1>1, <1>3 DEF FifoStep

LEMMA NextData == Core /\ DataInv /\ [Next]_vars => DataInv' /\ FifoStep
<1> SUFFICES ASSUME Core, DataInv, [Next]_vars PROVE DataInv' /\ FifoStep
  OBVIOUS
<1>1. CASE UNCHANGED vars
  BY <1>1, SystemData DEF vars, system, workerVars
<1>2. ASSUME NEW t \in Threads, ActOnCancel(t) PROVE DataInv' /\ FifoStep
  BY <1>2, SystemData DEF ActOnCancel, system
<1>3. ASSUME NEW t \in Threads, WorkerStep(t) PROVE DataInv' /\ FifoStep
  BY <1>2, <1>3, BeginData, EndPutData, EndGetData, OutsideData, ExitData
     DEF WorkerStep, CallExit
<1>4. CASE RemoveProducer \/ RemoveConsumer \/ Join
  BY <1>4, SystemData DEF RemoveProducer, RemoveConsumer, Cancel, Join, system, workerVars
<1>5. QED
  BY <1>1, <1>3, <1>4, OutsideData, StartData, ExitData, RestartData DEF Next, Quit

LEMMA InitData == Init => DataInv /\ Fifo!Init
<1> SUFFICES ASSUME Init PROVE DataInv /\ Fifo!Init
  OBVIOUS
<1>1. Contents(queue) = <<>> /\ boots = 1 /\ \A t \in Threads : pc[t] = "unborn"
  BY EmptyContents DEF Init, NewProcess
<1>2. QED
  BY <1>1 DEF DataInv, Carries, Fifo!Init

LEMMA SpecData == Spec => []DataInv
  BY InitData, SpecCore, NextData, PTL DEF Spec

(* put_msg and get_msg, called by any number of threads that may be        *)
(* cancelled, are the Put and Get of a first-in first-out queue of         *)
(* MSG_MAX - 1 places; also beside atexit_handler, as long as the mutex    *)
(* exists.                                                                 *)
THEOREM RingIsFifo == Spec => ImplementsFifo
<1>1. FifoStep => [Fifo!Next]_<<Contents(queue), boots>>
  BY ContentsPrime DEF FifoStep, Fifo!Next, Fifo!Put, Fifo!Get, Fifo!Reset
<1>2. Core /\ DataInv /\ [Next]_vars => [Fifo!Next]_<<Contents(queue), boots>>
  BY <1>1, NextData
<1>3. QED
  BY <1>2, InitData, SpecCore, SpecData, PTL DEF Spec, ImplementsFifo, Fifo!Spec
=============================================================================
