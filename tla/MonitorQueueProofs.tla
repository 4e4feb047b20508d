------------------------- MODULE MonitorQueueProofs --------------------------
(***************************************************************************)
(* What holds of LAB_7/p1 for every number of threads, every length of the *)
(* buffer and every size of the page it is mapped in.                      *)
(***************************************************************************)
EXTENDS MonitorQueue, FiniteSetTheorems, SequenceTheorems, TLAPS

Places == ProducerPC \cup ConsumerPC \cup InfoPC \cup {"unborn", "ui"}
Critical == {"p_test", "p_unlock", "c_test", "c_unlock", "i_unlock"}
QueueType ==
  [produce_count : Nat, consume_count : Nat, message_amount : Nat,
   head : Nat, tail : Nat, buffer : [Slots -> Msgs \cup {NoMsg}]]

(* head and tail only go up; the messages are between them.                *)
Aligned(q) ==
  /\ q.tail + q.message_amount = q.head
  /\ q.message_amount < MSG_MAX /\ q.head <= MSG_MAX + Slack
QueueOK == queue \in QueueType /\ Aligned(queue)

ActorOK ==
  /\ pc \in [Actors -> Places] /\ msg \in [Actors -> Msgs \cup {NoMsg}]
  /\ mutex \in Actors \cup {Nobody, Destroyed}
  /\ waiting \subseteq Actors /\ woken \subseteq Actors /\ dying \subseteq Threads
RestOK ==
  /\ running \subseteq Threads /\ cancelled \subseteq Threads
  /\ target \in [Actors -> Threads \cup {Nobody}]
  /\ producers \in Seq(Threads) /\ consumers \in Seq(Threads)
  /\ exiting \in Actors \cup {Nobody}
  /\ phase \in Phases /\ i \in Nat
  /\ alive \in BOOLEAN

(* In exit(), or a worker that is joining another one there. *)
Leaving(x) == x = exiting \/ (x \in Threads /\ target[x] # Nobody)

(* Who sleeps on a condition lives, does so once, and is not in exit().    *)
SleepInv ==
  /\ waiting \subseteq running \cup {Main} /\ waiting \cap dying = {}
  /\ \A x \in Actors : Leaving(x) => x \notin waiting \cup dying /\ pc[x] # "c_test"

(* The mutex is unlocked and destroyed at the end of exit() only. *)
ExitInv ==
  /\ Unguarded => exiting # Nobody
  /\ mutex = Destroyed => Unguarded

Core == QueueOK /\ ActorOK /\ RestOK /\ SleepInv /\ ExitInv /\ MutualExclusion

LEMMA CoreType == Core => TypeOK
  BY DEF Core, QueueOK, ActorOK, RestOK, TypeOK, QueueType, Places

-----------------------------------------------------------------------------
(* The steps of an actor in its own code.                                  *)

LEMMA StepFacts ==
  ASSUME Core, NEW x \in Actors, NEW from, NEW to \in Places, Step(x, from, to)
  PROVE  /\ RestOK' /\ pc' \in [Actors -> Places]
         /\ pc[x] = from /\ pc'[x] = to /\ \A y \in Actors \ {x} : pc'[y] = pc[y]
         /\ x \notin waiting \cup woken \cup dying /\ ~Leaving(x)
         /\ UNCHANGED <<running, target, exiting, phase>>
<1>1. /\ x # exiting /\ target[x] = Nobody /\ x \notin waiting \cup woken \cup dying
      /\ pc[x] = from /\ pc' = [pc EXCEPT ![x] = to] /\ UNCHANGED <<threads, exitVars>>
  BY DEF Step, Executes
<1>2. RestOK' /\ UNCHANGED <<running, target, exiting, phase>>
  BY <1>1 DEF threads, exitVars, arrays, Core, RestOK
<1>3. pc' \in [Actors -> Places] /\ pc'[x] = to /\ \A y \in Actors \ {x} : pc'[y] = pc[y]
  BY <1>1 DEF Core, ActorOK
<1>4. QED
  BY <1>1, <1>2, <1>3 DEF Leaving

LEMMA StepSleep ==
  ASSUME Core, NEW x \in Actors, NEW from, NEW to \in Places, Step(x, from, to),
         waiting' \subseteq waiting, dying' = dying
  PROVE  SleepInv'
<1>1. \A y \in Actors : Leaving(y)' => Leaving(y) /\ y # x
  BY StepFacts DEF Leaving
<1>2. \A y \in Actors : Leaving(y)' => y \notin waiting' \cup dying' /\ pc'[y] # "c_test"
  BY <1>1, StepFacts DEF Core, SleepInv
<1>3. waiting' \subseteq running' \cup {Main} /\ waiting' \cap dying' = {}
  BY StepFacts DEF Core, SleepInv
<1>4. QED
  BY <1>2, <1>3 DEF SleepInv

LEMMA SignalFacts ==
  ASSUME NEW place, Signal(place)
  PROVE  waiting' \subseteq waiting /\ waiting' \cup woken' = waiting \cup woken
BY DEF Signal

(* Steps that neither are steps of atexit_handler nor destroy the mutex.   *)
LEMMA KeepExit ==
  ASSUME Core, UNCHANGED <<exiting, phase>>, mutex' = Destroyed => mutex = Destroyed
  PROVE  ExitInv'
BY DEF Core, ExitInv, Unguarded

(* Steps that do not change who holds the mutex.                           *)
LEMMA KeepMutex ==
  ASSUME Core, NEW x \in Actors, NEW from, NEW to \in Places, Step(x, from, to),
         to \in Critical => from \in Critical,
         mutex' = mutex, waiting' \cup woken' = waiting \cup woken, dying' = dying
  PROVE  MutualExclusion'
<1>1. \A y \in Actors : pc'[y] \in Critical => pc[y] \in Critical
  BY StepFacts
<1>2. QED
  BY <1>1, StepFacts DEF Core, MutualExclusion, Critical, Unguarded

(* The other actors are outside the critical section while x is in it, or  *)
(* while nobody has the mutex.                                             *)
LEMMA OthersOutside ==
  ASSUME Core, ~Unguarded, NEW x \in Actors,
         mutex = Nobody \/ (pc[x] \in Critical /\ x \notin waiting \cup woken \cup dying),
         NEW y \in Actors \ (waiting \cup woken \cup dying), y # x
  PROVE  pc[y] \notin Critical
BY MonitorAssumption DEF Core, MutualExclusion, Critical, MonitorAssumption

LEMMA QuietCore ==
  ASSUME Core, NEW x \in Actors, NEW from, NEW to \in Places \ Critical, Step(x, from, to),
         UNCHANGED <<queue, mutex, conditions>>, msg' \in [Actors -> Msgs \cup {NoMsg}]
  PROVE  Core'
<1>1. UNCHANGED <<waiting, woken, dying>>
  BY DEF conditions
<1>2. QueueOK'
  BY DEF Core, QueueOK
<1>3. ActorOK' /\ RestOK'
  BY <1>1, StepFacts DEF Core, ActorOK
<1>4. SleepInv' /\ MutualExclusion' /\ ExitInv'
  BY <1>1, StepFacts, StepSleep, KeepMutex, KeepExit
<1>5. QED
  BY <1>2, <1>3, <1>4 DEF Core

LEMMA QuietActionsCore ==
  ASSUME Core, NEW x \in Actors,
         Produce(x) \/ Consume(x) \/ (x = Main /\ (UserGets \/ Info))
  PROVE  Core'
<1>1. PICK from \in {"p_produce", "ui", "c_consume"}, to \in {"p_lock", "c_lock", "i_lock"} :
        Step(x, from, to)
  BY DEF Produce, Consume, UserGets, Info
<1>2. to \in Places \ Critical
  BY <1>1 DEF Places, Critical, ProducerPC, ConsumerPC, InfoPC
<1>3. UNCHANGED <<queue, mutex, conditions>> /\ msg' \in [Actors -> Msgs \cup {NoMsg}]
  BY DEF Produce, Consume, UserGets, Info, Core, ActorOK
<1>4. QED
  BY <1>1, <1>2, <1>3, QuietCore

(* pthread_mutex_lock finds nobody in the critical section, unless it      *)
(* fails.                                                                  *)
LEMMA TakeFacts ==
  ASSUME Core, NEW x \in Actors, Take(x), UNCHANGED <<exiting, phase>>
  PROVE  /\ mutex' \in Actors \cup {Nobody, Destroyed} /\ ExitInv'
         /\ ~Unguarded => mutex = Nobody /\ mutex' = x
<1>1. IF mutex = Destroyed THEN mutex' = mutex ELSE mutex = Nobody /\ mutex' = x
  BY DEF Take
<1>2. mutex \in Actors \cup {Nobody, Destroyed} /\ (mutex = Destroyed => Unguarded)
  BY DEF Core, ActorOK, ExitInv
<1>3. x # Destroyed
  BY MonitorAssumption DEF MonitorAssumption
<1>4. ExitInv'
  BY <1>1, <1>3, KeepExit
<1>5. QED
  BY <1>1, <1>2, <1>4

LEMMA ReleaseFacts ==
  ASSUME Core, Release, UNCHANGED <<exiting, phase>>
  PROVE  mutex' \in Actors \cup {Nobody, Destroyed} /\ ExitInv'
<1>1. mutex' = IF mutex = Destroyed THEN Destroyed ELSE Nobody
  BY DEF Release
<1>2. Nobody # Destroyed
  BY MonitorAssumption DEF MonitorAssumption
<1>3. ExitInv'
  BY <1>1, <1>2, KeepExit
<1>4. QED
  BY <1>1, <1>3 DEF Core, ActorOK

LEMMA LockCore == ASSUME Core, NEW x \in Actors, Lock(x) PROVE Core'
<1>1. PICK from \in {"p_lock", "c_lock", "i_lock"}, to \in {"p_test", "c_test", "i_unlock"} :
        Step(x, from, to)
  BY DEF Lock
<1>2. to \in Places
  BY <1>1 DEF Places, ProducerPC, ConsumerPC, InfoPC
<1>3. UNCHANGED <<queue, msg, waiting, woken, dying>> /\ Take(x)
  BY DEF Lock, conditions
<1>4. /\ ExitInv' /\ mutex' \in Actors \cup {Nobody, Destroyed} /\ UNCHANGED phase
      /\ ~Unguarded => mutex = Nobody /\ mutex' = x
  BY <1>1, <1>2, <1>3, StepFacts, TakeFacts
<1>5. QueueOK' /\ ActorOK' /\ RestOK' /\ SleepInv'
  BY <1>1, <1>2, <1>3, <1>4, StepFacts, StepSleep DEF Core, QueueOK, ActorOK
<1>6. MutualExclusion'
  <2> SUFFICES ASSUME ~Unguarded PROVE MutualExclusion'
    BY <1>4 DEF MutualExclusion, Unguarded
  <2>1. \A y \in Actors \ (waiting \cup woken \cup dying) :
          pc[y] \in Critical => y = x
    BY <1>4, OthersOutside
  <2>2. QED
    BY <1>1, <1>2, <1>3, <1>4, <2>1, StepFacts DEF MutualExclusion, Critical
<1>7. QED
  BY <1>4, <1>5, <1>6 DEF Core

LEMMA UnlockCore == ASSUME Core, NEW x \in Actors, Unlock(x) PROVE Core'
<1>1. PICK from \in {"p_unlock", "c_unlock", "i_unlock"}, to \in {"ui", "p_produce", "c_consume"} :
        Step(x, from, to)
  BY DEF Unlock, Resume
<1>2. to \in Places \ Critical /\ from \in Critical
  BY <1>1 DEF Places, Critical, ProducerPC, ConsumerPC, InfoPC
<1>3. UNCHANGED <<queue, msg, waiting, woken, dying>> /\ Release
  BY DEF Unlock, conditions
<1>4. ExitInv' /\ mutex' \in Actors \cup {Nobody, Destroyed} /\ UNCHANGED phase
  BY <1>1, <1>2, <1>3, StepFacts, ReleaseFacts
<1>5. QueueOK' /\ ActorOK' /\ RestOK' /\ SleepInv'
  BY <1>1, <1>2, <1>3, <1>4, StepFacts, StepSleep DEF Core, QueueOK, ActorOK
<1>6. MutualExclusion'
  <2> SUFFICES ASSUME ~Unguarded PROVE MutualExclusion'
    BY <1>4 DEF MutualExclusion, Unguarded
  <2>1. \A y \in Actors \ (waiting \cup woken \cup dying) : pc'[y] \notin Critical
    BY <1>1, <1>2, StepFacts, OthersOutside
  <2>2. QED
    BY <1>3, <2>1 DEF MutualExclusion, Critical
<1>7. QED
  BY <1>4, <1>5, <1>6 DEF Core

(* add_msg and get_msg. *)
LEMMA AddMsgQueue ==
  ASSUME QueueOK, NEW m \in Msgs \cup {NoMsg}, ~Overflows, queue.head \in Slots,
         queue' = [queue EXCEPT !.buffer[queue.head] = m, !.head = @ + 1,
                                !.message_amount = @ + 1, !.produce_count = @ + 1]
  PROVE  /\ QueueOK'
         /\ queue'.message_amount = queue.message_amount + 1 /\ queue'.tail = queue.tail
         /\ queue'.buffer = [queue.buffer EXCEPT ![queue.head] = m]
<1> DEFINE b == [queue.buffer EXCEPT ![queue.head] = m]
<1>1. b \in [Slots -> Msgs \cup {NoMsg}]
  BY DEF QueueOK, QueueType
<1>2. queue' = [queue EXCEPT !.buffer = b, !.head = queue.head + 1,
                  !.message_amount = queue.message_amount + 1,
                  !.produce_count = queue.produce_count + 1]
  BY DEF QueueOK, QueueType
<1> HIDE DEF b
<1>3. /\ queue'.head = queue.head + 1 /\ queue'.tail = queue.tail
      /\ queue'.message_amount = queue.message_amount + 1 /\ queue'.buffer = b
  BY <1>2 DEF QueueOK, QueueType
<1>4. queue' \in QueueType
  <2>1. /\ queue.head + 1 \in Nat /\ queue.message_amount + 1 \in Nat
        /\ queue.produce_count + 1 \in Nat
    BY DEF QueueOK, QueueType
  <2>2. QED
    BY <1>1, <1>2, <2>1 DEF QueueOK, QueueType
<1>5. Aligned(queue')
  <2>1. queue.head <= MSG_MAX + Slack - 1 /\ queue.message_amount # MSG_MAX - 1
    BY DEF Slots, Overflows
  <2>2. queue.head \in Nat /\ queue.tail \in Nat /\ queue.message_amount \in Nat
    BY DEF QueueOK, QueueType
  <2>3. QED
    BY <1>3, <2>1, <2>2, MonitorAssumption DEF QueueOK, Aligned, MonitorAssumption
<1>6. QED
  BY <1>3, <1>4, <1>5 DEF QueueOK, b

LEMMA GetMsgQueue ==
  ASSUME QueueOK, queue.message_amount # 0,
         queue' = [queue EXCEPT !.tail = @ + 1, !.message_amount = @ - 1,
                                !.consume_count = @ + 1]
  PROVE  /\ QueueOK' /\ queue.tail \in Slots
         /\ queue.buffer[queue.tail] \in Msgs \cup {NoMsg}
         /\ queue'.message_amount = queue.message_amount - 1
         /\ queue'.tail = queue.tail + 1 /\ queue'.buffer = queue.buffer
<1>1. queue.message_amount - 1 \in Nat /\ queue.tail \in Slots
  BY MonitorAssumption DEF QueueOK, QueueType, Aligned, Slots, MonitorAssumption
<1>2. /\ queue'.head = queue.head /\ queue'.tail = queue.tail + 1
      /\ queue'.message_amount = queue.message_amount - 1 /\ queue'.buffer = queue.buffer
  BY DEF QueueOK, QueueType
<1>3. queue' \in QueueType
  <2>1. queue.tail + 1 \in Nat /\ queue.consume_count + 1 \in Nat
    BY DEF QueueOK, QueueType
  <2>2. QED
    BY <1>1, <2>1 DEF QueueOK, QueueType
<1>4. Aligned(queue')
  BY <1>1, <1>2, MonitorAssumption DEF QueueOK, QueueType, Aligned, MonitorAssumption
<1>5. QED
  BY <1>1, <1>2, <1>3, <1>4 DEF QueueOK, QueueType

LEMMA AddMsgCore == ASSUME Core, NEW x \in Actors, AddMsg(x) PROVE Core'
<1>1. Step(x, "p_test", "p_unlock") /\ mutex' = mutex /\ dying' = dying
  BY DEF AddMsg
<1>2. waiting' \subseteq waiting /\ waiting' \cup woken' = waiting \cup woken
  BY SignalFacts DEF AddMsg
<1>3. "p_unlock" \in Places /\ "p_test" \in Critical
  BY DEF Places, ProducerPC, Critical
<1>4. QueueOK'
  BY AddMsgQueue DEF AddMsg, Core, ActorOK
<1>5. SleepInv' /\ MutualExclusion' /\ RestOK' /\ ExitInv'
  BY <1>1, <1>2, <1>3, StepFacts, StepSleep, KeepMutex, KeepExit
<1>6. ActorOK'
  BY <1>1, <1>2, <1>3, StepFacts DEF AddMsg, Core, ActorOK
<1>7. QED
  BY <1>4, <1>5, <1>6 DEF Core

LEMMA GetMsgCore == ASSUME Core, NEW x \in Actors, GetMsg(x) PROVE Core'
<1>1. Step(x, "c_test", "c_unlock") /\ mutex' = mutex /\ dying' = dying
  BY DEF GetMsg
<1>2. waiting' \subseteq waiting /\ waiting' \cup woken' = waiting \cup woken
  BY SignalFacts DEF GetMsg
<1>3. "c_unlock" \in Places /\ "c_test" \in Critical
  BY DEF Places, ConsumerPC, Critical
<1>4. QueueOK' /\ queue.buffer[queue.tail] \in Msgs \cup {NoMsg}
  BY <1>1, GetMsgQueue DEF GetMsg, MustWait, Step, Core
<1>5. SleepInv' /\ MutualExclusion' /\ RestOK' /\ ExitInv'
  BY <1>1, <1>2, <1>3, StepFacts, StepSleep, KeepMutex, KeepExit
<1>6. ActorOK'
  BY <1>1, <1>2, <1>3, <1>4, StepFacts DEF GetMsg, Core, ActorOK
<1>7. QED
  BY <1>4, <1>5, <1>6 DEF Core

(* The race after the unlock in atexit_handler. *)
LEMMA RaceCore == ASSUME Core, NEW x \in Actors, RaceForBuffer(x) PROVE Core'
<1>1. /\ Unguarded /\ UNCHANGED <<queue, mutex, dying>> /\ msg' = [msg EXCEPT ![x] = NoMsg]
  BY DEF RaceForBuffer
<1>2. waiting' \subseteq waiting /\ waiting' \cup woken' = waiting \cup woken
  BY SignalFacts DEF RaceForBuffer
<1>3. PICK from \in {"p_test", "c_test"}, to \in {"p_unlock", "c_unlock"} : Step(x, from, to)
  BY DEF RaceForBuffer
<1>4. to \in Places
  BY DEF Places, ProducerPC, ConsumerPC
<1>5. SleepInv' /\ RestOK' /\ ExitInv' /\ Unguarded'
  BY <1>1, <1>2, <1>3, <1>4, StepFacts, StepSleep, KeepExit DEF Unguarded
<1>6. ActorOK'
  BY <1>1, <1>2, <1>3, <1>4, StepFacts DEF Core, ActorOK
<1>7. QueueOK' /\ MutualExclusion'
  BY <1>1, <1>5 DEF Core, QueueOK, MutualExclusion
<1>8. QED
  BY <1>5, <1>6, <1>7 DEF Core

(* Sleeping, waking up, and dying asleep. *)
LEMMA CondWaitCore == ASSUME Core, NEW x \in Actors, CondWait(x) PROVE Core'
<1>1. /\ x \in running \cup {Main} /\ x # exiting /\ target[x] = Nobody
      /\ x \notin waiting \cup woken \cup dying
      /\ pc[x] \in Critical /\ waiting' = waiting \cup {x} /\ mutex' = Nobody
      /\ UNCHANGED <<queue, woken, dying, pc, msg, threads, exitVars>>
  BY DEF CondWait, Executes, Critical
<1>2. UNCHANGED <<running, target, exiting, phase>>
  BY <1>1 DEF threads, exitVars
<1>3. QueueOK' /\ ActorOK' /\ RestOK' /\ ExitInv'
  <2>1. QueueOK' /\ ActorOK' /\ RestOK'
    BY <1>1 DEF Core, QueueOK, ActorOK, RestOK, threads, exitVars, arrays
  <2>2. ExitInv'
    BY <1>1, <1>2, MonitorAssumption, KeepExit DEF MonitorAssumption
  <2>3. QED
    BY <2>1, <2>2
<1>4. SleepInv'
  BY <1>1, <1>2 DEF Core, SleepInv, Leaving
<1>5. MutualExclusion'
  <2> SUFFICES ASSUME ~Unguarded PROVE MutualExclusion'
    BY <1>2 DEF MutualExclusion, Unguarded
  <2>1. \A y \in Actors \ (waiting' \cup woken' \cup dying') : pc'[y] \notin Critical
    BY <1>1, OthersOutside
  <2>2. QED
    BY <2>1 DEF MutualExclusion, Critical
<1>6. QED
  BY <1>3, <1>4, <1>5 DEF Core

LEMMA WakeCore ==
  ASSUME Core, NEW x \in Actors, SpuriousWakeup(x) \/ (x \in Threads /\ CancelWait(x))
  PROVE  Core'
<1>1. /\ x \in waiting /\ waiting' = waiting \ {x}
      /\ woken' \subseteq woken \cup {x}
      /\ dying' = dying \/ (x \in Threads /\ dying' = dying \cup {x})
      /\ waiting' \cup woken' \cup dying' = waiting \cup woken \cup dying
      /\ UNCHANGED <<queue, mutex, pc, msg, threads, exitVars>>
  BY DEF SpuriousWakeup, CancelWait
<1>2. UNCHANGED <<running, target, exiting, phase>>
  BY <1>1 DEF threads, exitVars
<1>3. QueueOK' /\ ActorOK' /\ RestOK' /\ ExitInv'
  BY <1>1, <1>2, KeepExit DEF Core, QueueOK, ActorOK, RestOK, threads, exitVars, arrays
<1>4. SleepInv'
  BY <1>1, <1>2 DEF Core, SleepInv, Leaving
<1>5. MutualExclusion'
  BY <1>1, <1>2 DEF Core, MutualExclusion, Unguarded
<1>6. QED
  BY <1>3, <1>4, <1>5 DEF Core

(* pthread_cond_wait takes the mutex again only when nobody has it: then   *)
(* nobody is in the critical section.                                      *)
LEMMA RelockCore == ASSUME Core, NEW x \in Actors, Relock(x) PROVE Core'
<1>1. /\ Take(x) /\ woken' = woken \ {x}
      /\ UNCHANGED <<queue, waiting, dying, pc, msg, threads, exitVars>>
  BY DEF Relock
<1>2. UNCHANGED <<target, exiting, phase, running>>
  BY <1>1 DEF threads, exitVars
<1>3. /\ ExitInv' /\ mutex' \in Actors \cup {Nobody, Destroyed}
      /\ ~Unguarded => mutex = Nobody /\ mutex' = x
  BY <1>1, <1>2, TakeFacts
<1>4. QueueOK' /\ ActorOK' /\ RestOK'
  BY <1>1, <1>3 DEF Core, QueueOK, ActorOK, RestOK, threads, exitVars, arrays
<1>5. SleepInv'
  BY <1>1, <1>2 DEF Core, SleepInv, Leaving
<1>6. MutualExclusion'
  <2> SUFFICES ASSUME ~Unguarded PROVE MutualExclusion'
    BY <1>2 DEF MutualExclusion, Unguarded
  <2>1. QED
    BY <1>1, <1>3, OthersOutside DEF MutualExclusion, Critical
<1>7. QED
  BY <1>3, <1>4, <1>5, <1>6 DEF Core

LEMMA DieCore == ASSUME Core, NEW t \in Threads, DieWithMutex(t) PROVE Core'
<1>0. t \in Actors
  BY DEF Actors
<1>1. /\ t \in dying /\ Take(t) /\ dying' = dying \ {t} /\ running' = running \ {t}
      /\ UNCHANGED <<queue, waiting, woken, pc, msg, cancelled, target, arrays, exitVars>>
  BY DEF DieWithMutex
<1>2. UNCHANGED <<exiting, phase>>
  BY <1>1 DEF exitVars
<1>3. /\ ExitInv' /\ mutex' \in Actors \cup {Nobody, Destroyed}
      /\ ~Unguarded => mutex = Nobody /\ mutex' = t
  BY <1>0, <1>1, <1>2, TakeFacts
<1>4. QueueOK' /\ ActorOK' /\ RestOK'
  BY <1>1, <1>3 DEF Core, QueueOK, ActorOK, RestOK, exitVars, arrays
<1>5. SleepInv'
  BY <1>1, <1>2 DEF Core, SleepInv, Leaving
<1>6. MutualExclusion'
  <2> SUFFICES ASSUME ~Unguarded PROVE MutualExclusion'
    BY <1>2 DEF MutualExclusion, Unguarded
  <2>1. QED
    BY <1>0, <1>1, <1>3, OthersOutside DEF MutualExclusion, Critical
<1>7. QED
  BY <1>3, <1>4, <1>5, <1>6 DEF Core

-----------------------------------------------------------------------------
(* The end of the process, of a worker, and exit().                        *)

(* Steps that leave buffer, mutex and conditions alone, and every actor    *)
(* where it is.                                                            *)
LEMMA SystemCore ==
  ASSUME Core, UNCHANGED <<queue, mutex, conditions, pc, msg>>, RestOK',
         Unguarded' <=> Unguarded, exiting # Nobody => exiting' # Nobody,
         waiting \subseteq running' \cup {Main},
         \A x \in Actors :
           Leaving(x)' => Leaving(x) \/ (x \notin waiting \cup dying /\ pc[x] # "c_test")
  PROVE  Core'
<1>1. UNCHANGED <<waiting, woken, dying>>
  BY DEF conditions
<1>2. QueueOK' /\ ActorOK'
  BY <1>1 DEF Core, QueueOK, ActorOK
<1>3. SleepInv'
  BY <1>1 DEF Core, SleepInv
<1>4. MutualExclusion' /\ ExitInv'
  BY <1>1 DEF Core, MutualExclusion, ExitInv
<1>5. QED
  BY <1>2, <1>3, <1>4 DEF Core

LEMMA EndsCore == ASSUME Core, ProcessEnds PROVE Core'
<1>1. RestOK'
  BY DEF ProcessEnds, Core, RestOK, threads, arrays
<1>2. \A x \in Actors : Leaving(x)' => Leaving(x)
  BY DEF ProcessEnds, Leaving, threads
<1>3. waiting \subseteq running' \cup {Main}
  BY DEF ProcessEnds, Core, SleepInv, threads
<1>4. UNCHANGED exiting /\ (Unguarded' <=> Unguarded)
  BY DEF ProcessEnds, Unguarded
<1>5. QED
  BY <1>1, <1>2, <1>3, <1>4, SystemCore DEF ProcessEnds

LEMMA ExitCore ==
  ASSUME Core, NEW x \in Actors, Executes(x), pc[x] \in {"p_test", "ui"} \/ Unguarded,
         Exit(x)
  PROVE  Core'
<1>1. CASE exiting = Nobody
  <2>0. pc[x] \in {"p_test", "ui"}
    BY <1>1 DEF Core, ExitInv
  <2>1. /\ exiting' = x
        /\ UNCHANGED <<queue, mutex, conditions, pc, msg, threads, phase, i, alive>>
    BY <1>1 DEF Exit
  <2>2. RestOK'
    BY <2>1 DEF Core, RestOK, threads, arrays
  <2>3. \A y \in Actors :
          Leaving(y)' => Leaving(y) \/ (y \notin waiting \cup dying /\ pc[y] # "c_test")
    BY <2>0, <2>1 DEF Leaving, threads, Executes
  <2>4. waiting \subseteq running' \cup {Main} /\ (Unguarded' <=> Unguarded)
    BY <2>1 DEF Core, SleepInv, threads, Unguarded
  <2>5. QED
    BY <1>1, <2>1, <2>2, <2>3, <2>4, SystemCore
<1>2. CASE exiting # Nobody
  BY <1>2, EndsCore DEF Exit
<1>3. QED
  BY <1>1, <1>2

(* A worker that acts on a cancellation outside pthread_cond_wait does not *)
(* sleep on a condition.                                                   *)
LEMMA ActOnCancelCore == ASSUME Core, NEW t \in Threads, ActOnCancel(t) PROVE Core'
<1>1. /\ running' = running \ {t}
      /\ UNCHANGED <<queue, mutex, conditions, pc, msg, cancelled, target, arrays, exitVars>>
  BY DEF ActOnCancel
<1>2. t \notin waiting
  BY DEF ActOnCancel, Executes, Core, SleepInv, Leaving, Actors
<1>3. RestOK'
  BY <1>1 DEF Core, RestOK, arrays, exitVars
<1>4. \A x \in Actors : Leaving(x)' => Leaving(x)
  BY <1>1 DEF Leaving, exitVars
<1>5. waiting \subseteq running' \cup {Main} /\ UNCHANGED exiting /\ (Unguarded' <=> Unguarded)
  BY <1>1, <1>2 DEF Core, SleepInv, exitVars, Unguarded
<1>6. QED
  BY <1>1, <1>3, <1>4, <1>5, SystemCore

LEMMA JoinCore == ASSUME Core, NEW x \in Actors, Join(x) PROVE Core'
<1>1. /\ target' = [target EXCEPT ![x] = Nobody]
      /\ UNCHANGED <<queue, mutex, conditions, pc, msg, running, cancelled, arrays, exitVars>>
  BY DEF Join
<1>2. RestOK'
  BY <1>1 DEF Core, RestOK, arrays, exitVars
<1>3. \A y \in Actors : Leaving(y)' => Leaving(y)
  BY <1>1 DEF Leaving, Core, RestOK, exitVars, Actors
<1>4. waiting \subseteq running' \cup {Main} /\ UNCHANGED exiting /\ (Unguarded' <=> Unguarded)
  BY <1>1 DEF Core, SleepInv, exitVars, Unguarded
<1>5. QED
  BY <1>1, <1>2, <1>3, <1>4, SystemCore

LEMMA LastFacts ==
  ASSUME NEW s \in Seq(Threads), s # <<>>
  PROVE  Last(s) \in Threads /\ Front(s) \in Seq(Threads)
<1>1. Len(s) \in Nat \ {0} /\ s \in [1 .. Len(s) -> Threads]
  BY EmptySeq, LenProperties
<1>2. Last(s) \in Threads
  BY <1>1 DEF Last
<1>3. SubSeq(s, 1, Len(s) - 1) \in Seq(Threads)
  <2>1. /\ Len(s) - 1 \in Int /\ 1 \in Int
        /\ \A n \in 1 .. Len(s) - 1 : s[n] \in Threads
    BY <1>1
  <2>2. QED
    BY <2>1, SubSeqProperties
<1>4. QED
  BY <1>2, <1>3 DEF Front

(* remove_producer and remove_consumer make x join the last of the array. *)
LEMMA RemoveFacts ==
  ASSUME Core, NEW x \in Actors,
         \/ producers # <<>> /\ RemoveProducer(x)
         \/ consumers # <<>> /\ RemoveConsumer(x)
  PROVE  /\ cancelled' \subseteq Threads /\ target' \in [Actors -> Threads \cup {Nobody}]
         /\ producers' \in Seq(Threads) /\ consumers' \in Seq(Threads)
         /\ \A y \in Actors \ {x} : target'[y] = target[y]
<1>1. /\ producers \in Seq(Threads) /\ consumers \in Seq(Threads)
      /\ cancelled \subseteq Threads /\ target \in [Actors -> Threads \cup {Nobody}]
  BY DEF Core, RestOK
<1>2. CASE producers # <<>> /\ RemoveProducer(x)
  BY <1>1, <1>2, LastFacts DEF RemoveProducer, CancelAndJoin
<1>3. CASE consumers # <<>> /\ RemoveConsumer(x)
  BY <1>1, <1>3, LastFacts DEF RemoveConsumer, CancelAndJoin
<1>4. QED
  BY <1>2, <1>3

LEMMA UserRemovesCore == ASSUME Core, UserRemoves PROVE Core'
<1>0. Main \in Actors /\ Main \notin Threads
  BY MonitorAssumption DEF Actors, MonitorAssumption
<1>1. /\ UNCHANGED <<queue, mutex, conditions, pc, msg, running, exitVars>>
      /\ \/ producers # <<>> /\ RemoveProducer(Main)
         \/ consumers # <<>> /\ RemoveConsumer(Main)
  BY DEF UserRemoves
<1>2. RestOK' /\ \A y \in Actors \ {Main} : target'[y] = target[y]
  BY <1>0, <1>1, RemoveFacts DEF Core, RestOK, exitVars
<1>3. \A y \in Actors : Leaving(y)' => Leaving(y)
  BY <1>0, <1>1, <1>2 DEF Leaving, exitVars, Actors
<1>4. waiting \subseteq running' \cup {Main} /\ UNCHANGED exiting /\ (Unguarded' <=> Unguarded)
  BY <1>1 DEF Core, SleepInv, exitVars, Unguarded
<1>5. QED
  BY <1>1, <1>2, <1>3, <1>4, SystemCore

LEMMA AtExitCore == ASSUME Core, AtExit PROVE Core'
<1>1. CASE ExitRemoves
  <2>1. /\ UNCHANGED <<queue, mutex, conditions, pc, msg, running, exiting, phase, alive>>
        /\ i' = i + 1 /\ exiting \in Actors
        /\ \/ producers # <<>> /\ RemoveProducer(exiting)
           \/ consumers # <<>> /\ RemoveConsumer(exiting)
    <3>1. /\ exiting \in running \cup {Main} /\ i' = i + 1 /\ i \in Nat
          /\ UNCHANGED <<queue, mutex, conditions, pc, msg, running, exiting, phase, alive>>
          /\ \/ i < Len(producers) /\ RemoveProducer(exiting)
             \/ i < Len(consumers) /\ RemoveConsumer(exiting)
      BY <1>1 DEF ExitRemoves, InExit, Core, RestOK
    <3>2. exiting \in Actors
      BY <3>1 DEF Actors, Core, RestOK
    <3>3. (i < Len(producers) => producers # <<>>) /\ (i < Len(consumers) => consumers # <<>>)
      <4>1. Len(<<>>) = 0
        OBVIOUS
      <4>2. QED
        BY <3>1, <4>1
    <3>4. QED
      BY <3>1, <3>2, <3>3
  <2>2. RestOK' /\ \A y \in Actors \ {exiting} : target'[y] = target[y]
    BY <2>1, RemoveFacts DEF Core, RestOK
  <2>3. \A y \in Actors : Leaving(y)' => Leaving(y)
    BY <2>1, <2>2 DEF Leaving, Actors
  <2>4. waiting \subseteq running' \cup {Main} /\ (Unguarded' <=> Unguarded)
    BY <2>1 DEF Core, SleepInv, Unguarded
  <2>5. QED
    BY <2>1, <2>2, <2>3, <2>4, SystemCore
<1>2. CASE ExitNextLoop \/ DestroyCondition
  <2>1. /\ phase \in {"producers", "consumers", "cond_producer", "cond_consumer"}
        /\ phase' \in {"consumers", "cond_producer", "cond_consumer", "unlock"}
        /\ i' = 0 \/ i' = i
        /\ UNCHANGED <<queue, mutex, conditions, pc, msg, threads, exiting, alive>>
    BY <1>2 DEF ExitNextLoop, DestroyCondition, InExit
  <2>2. RestOK' /\ waiting \subseteq running' \cup {Main} /\ (Unguarded' <=> Unguarded)
    BY <2>1 DEF Core, RestOK, SleepInv, threads, arrays, Phases, Unguarded
  <2>3. \A y \in Actors : Leaving(y)' => Leaving(y)
    BY <2>1 DEF Leaving, threads
  <2>4. QED
    BY <2>1, <2>2, <2>3, SystemCore
<1>3. CASE ExitEnds
  BY <1>3, EndsCore DEF ExitEnds
<1>4. CASE ExitUnlocks \/ DestroyMutex
  <2>1. /\ exiting \in running \cup {Main} /\ phase' \in {"mutex", "unlink"}
        /\ mutex' \in {mutex, Nobody, Destroyed}
        /\ UNCHANGED <<queue, waiting, woken, dying, pc, msg, threads, exiting, i, alive>>
    BY <1>4 DEF ExitUnlocks, DestroyMutex, InExit, conditions
  <2>2. QueueOK' /\ ActorOK' /\ RestOK'
    BY <2>1 DEF Core, QueueOK, ActorOK, RestOK, threads, arrays, Phases
  <2>3. SleepInv'
    BY <2>1 DEF Core, SleepInv, Leaving, threads
  <2>4. exiting # Nobody
    BY <2>1, MonitorAssumption DEF Core, RestOK, Actors, MonitorAssumption
  <2>5. ExitInv' /\ MutualExclusion'
    BY <2>1, <2>4 DEF ExitInv, MutualExclusion, Unguarded
  <2>6. QED
    BY <2>2, <2>3, <2>5 DEF Core
<1>5. QED
  BY <1>1, <1>2, <1>3, <1>4 DEF AtExit

LEMMA StartFacts ==
  ASSUME Core, NEW t \in Threads, CreateProducer(t) \/ CreateConsumer(t)
  PROVE  /\ pc[t] = "unborn"
         /\ \E first \in {"p_produce", "c_lock"} : pc' = [pc EXCEPT ![t] = first]
         /\ running' = running \cup {t}
         /\ UNCHANGED <<queue, mutex, waiting, woken, dying, msg, target, exiting, phase>>
         /\ RestOK'
<1>1. PICK first \in {"p_produce", "c_lock"} : Start(t, first)
  BY DEF CreateProducer, CreateConsumer
<1>2. producers' \in Seq(Threads) /\ consumers' \in Seq(Threads)
  <2>1. producers \in Seq(Threads) /\ consumers \in Seq(Threads)
    BY DEF Core, RestOK
  <2>2. /\ producers' = producers \/ producers' = Append(producers, t)
        /\ consumers' = consumers \/ consumers' = Append(consumers, t)
    BY DEF CreateProducer, CreateConsumer
  <2>3. Append(producers, t) \in Seq(Threads) /\ Append(consumers, t) \in Seq(Threads)
    BY <2>1, AppendProperties
  <2>4. QED
    BY <2>1, <2>2, <2>3, Zenon
<1>3. RestOK'
  BY <1>1, <1>2 DEF Start, Core, RestOK, exitVars
<1>4. QED
  BY <1>1, <1>3 DEF Start, conditions, exitVars

LEMMA StartCore ==
  ASSUME Core, NEW t \in Threads, CreateProducer(t) \/ CreateConsumer(t)
  PROVE  Core'
<1>1. PICK first \in {"p_produce", "c_lock"} : pc' = [pc EXCEPT ![t] = first]
  BY StartFacts
<1>2. first \in Places \ Critical /\ first # "c_test"
  BY DEF Places, Critical, ProducerPC, ConsumerPC
<1>3. /\ QueueOK' /\ RestOK' /\ running' = running \cup {t}
      /\ UNCHANGED <<mutex, waiting, woken, dying, msg, target, exiting, phase>>
  BY StartFacts DEF Core, QueueOK
<1>4. ActorOK' /\ \A y \in Actors : pc'[y] = pc[y] \/ pc'[y] = first
  BY <1>1, <1>2, <1>3 DEF Core, ActorOK
<1>5. SleepInv'
  BY <1>2, <1>3, <1>4 DEF Core, SleepInv, Leaving
<1>6. MutualExclusion' /\ ExitInv'
  <2>1. \A y \in Actors : pc'[y] \in Critical => pc'[y] = pc[y]
    BY <1>2, <1>4
  <2>2. MutualExclusion'
    BY <1>3, <2>1 DEF Core, MutualExclusion, Critical, Unguarded
  <2>3. QED
    BY <1>3, <2>2, KeepExit
<1>7. QED
  BY <1>3, <1>4, <1>5, <1>6 DEF Core

LEMMA InitCore == Init => Core
<1> SUFFICES ASSUME Init PROVE Core
  OBVIOUS
<1>1. QueueOK
  BY MonitorAssumption DEF Init, QueueOK, QueueType, Aligned, MonitorAssumption
<1>2. ActorOK
  BY DEF Init, ActorOK, Places
<1>3. RestOK
  BY DEF Init, RestOK, Phases
<1>4. SleepInv
  BY MonitorAssumption DEF Init, SleepInv, Leaving, MonitorAssumption
<1>5. MutualExclusion /\ ExitInv
  BY MonitorAssumption DEF Init, MutualExclusion, ExitInv, Unguarded, MonitorAssumption
<1>6. QED
  BY <1>1, <1>2, <1>3, <1>4, <1>5 DEF Core

LEMMA NextCore == Core /\ [Next]_vars => Core'
<1> SUFFICES ASSUME Core, [Next]_vars PROVE Core'
  OBVIOUS
<1>0. Main \in Actors
  BY DEF Actors
<1>1. CASE UNCHANGED vars
  <2>1. UNCHANGED <<queue, mutex, conditions, pc, msg, threads, exitVars>>
    BY <1>1 DEF vars
  <2>2. RestOK' /\ waiting \subseteq running' \cup {Main}
    BY <2>1 DEF Core, RestOK, SleepInv, threads, arrays, exitVars
  <2>3. \A y \in Actors : Leaving(y)' => Leaving(y)
    BY <2>1 DEF Leaving, threads, exitVars
  <2>4. UNCHANGED exiting /\ (Unguarded' <=> Unguarded)
    BY <2>1 DEF exitVars, Unguarded
  <2>5. QED
    BY <2>1, <2>2, <2>3, <2>4, SystemCore
<1>2. ASSUME NEW x \in Actors, Takes(x) \/ Runs(x) \/ SpuriousWakeup(x) PROVE Core'
  <2>1. CASE Takes(x)
    BY <2>1, LockCore, RelockCore, DieCore DEF Takes
  <2>2. CASE CallExit(x)
    BY <2>2, ExitCore DEF CallExit, Reporting
  <2>3. CASE Crash(x)
    BY <2>3, EndsCore DEF Crash
  <2>4. QED
    BY <1>2, <2>1, <2>2, <2>3, QuietActionsCore, UnlockCore, CondWaitCore, AddMsgCore,
       GetMsgCore, RaceCore, JoinCore, ActOnCancelCore, WakeCore DEF Runs
<1>3. CASE Quit
  BY <1>0, <1>3, ExitCore DEF Quit, AtUI
<1>4. CASE Produce(Main) \/ UserGets \/ Info
  BY <1>0, <1>4, QuietActionsCore
<1>5. QED
  BY <1>1, <1>2, <1>3, <1>4, StartCore, UserRemovesCore, AtExitCore DEF Next

LEMMA SpecCore == Spec => []Core
  BY InitCore, NextCore, PTL DEF Spec

(* The state of LAB_7/p1 keeps its type: an index is stored through only   *)
(* while it is inside the mapping.                                         *)
THEOREM TypeCorrect == Spec => []TypeOK
  BY SpecCore, CoreType, PTL

(* Who is between pthread_mutex_lock and pthread_mutex_unlock has the      *)
(* mutex, after pthread_cond_wait too, however many were cancelled asleep, *)
(* until atexit_handler unlocks the mutex of whoever holds it.             *)
THEOREM MutexSafe == Spec => []MutualExclusion
<1>1. Core => MutualExclusion
  BY DEF Core
<1>2. QED
  BY <1>1, SpecCore, PTL

-----------------------------------------------------------------------------
(* The messages that wait for a consumer, and the consumers that look.     *)

ConsumersAt(S) == {x \in S : pc[x] = "c_test"}
Sleepers == ConsumersAt(waiting)
Awake == ConsumersAt((running \cup {Main}) \ (waiting \cup dying))
Matched == Sleepers # {} => queue.message_amount <= Cardinality(Awake)
WakeupInv == ~Unguarded => Matched

LEMMA WakeupIsTheProperty == WakeupInv <=> NoLostWakeup
  BY DEF WakeupInv, Matched, NoLostWakeup, Sleepers, Awake, ConsumersAt

LEMMA ActorSets ==
  ASSUME NEW S \in SUBSET Actors
  PROVE  IsFiniteSet(S) /\ Cardinality(S) \in Nat
<1>1. IsFiniteSet(Actors)
  BY MonitorAssumption, FS_AddElement DEF Actors, MonitorAssumption
<1>2. QED
  BY <1>1, FS_Subset, FS_CardinalityType

LEMMA AwakeType ==
  Core => IsFiniteSet(Awake) /\ Cardinality(Awake) \in Nat /\ queue.message_amount \in Nat
BY ActorSets DEF Core, RestOK, QueueOK, QueueType, Awake, ConsumersAt, Actors

(* Nothing is lost when nobody falls asleep, no message comes and nobody   *)
(* looks away.                                                             *)
LEMMA NobodyLooksAway ==
  ASSUME Core, Core', Matched, queue'.message_amount = queue.message_amount,
         Sleepers' \subseteq Sleepers, Awake \subseteq Awake'
  PROVE  Matched'
<1>1. IsFiniteSet(Awake') /\ Cardinality(Awake') \in Nat
  BY ActorSets DEF Core, RestOK, Awake, ConsumersAt, Actors
<1>2. Cardinality(Awake) <= Cardinality(Awake')
  BY <1>1, FS_Subset
<1>3. QED
  BY <1>1, <1>2, AwakeType DEF Matched

LEMMA OwnStepWakeup ==
  ASSUME Core, Core', Matched, NEW x \in Actors, NEW from, NEW to \in Places,
         Step(x, from, to), from # "c_test", UNCHANGED <<queue, conditions>>
  PROVE  Matched'
<1>1. UNCHANGED <<waiting, dying, running>> /\ x \notin waiting
  BY StepFacts DEF conditions
<1>2. \A y \in Actors \ {x} : pc'[y] = pc[y]
  BY StepFacts
<1>3. pc[x] # "c_test" /\ waiting \subseteq Actors /\ running \cup {Main} \subseteq Actors
  BY StepFacts DEF Core, ActorOK, RestOK, Actors
<1>4. Sleepers' \subseteq Sleepers /\ Awake \subseteq Awake'
  BY <1>1, <1>2, <1>3 DEF Sleepers, Awake, ConsumersAt
<1>5. QED
  BY <1>4, NobodyLooksAway

LEMMA OwnStepsWakeup ==
  ASSUME Core, Core', Matched, NEW x \in Actors,
         \/ Produce(x) \/ Consume(x) \/ Lock(x) \/ Unlock(x)
         \/ (x = Main /\ (UserGets \/ Info))
  PROVE  Matched'
<1>1. PICK from \in {"p_produce", "ui", "c_consume", "p_lock", "c_lock", "i_lock",
                     "p_unlock", "c_unlock", "i_unlock"},
           to \in Places : Step(x, from, to)
  <2>1. \/ \E from \in {"p_produce", "ui"} : Step(x, from, "p_lock")
        \/ Step(x, "c_consume", "c_lock")
        \/ Step(x, "p_lock", "p_test") \/ Step(x, "c_lock", "c_test")
        \/ Step(x, "i_lock", "i_unlock")
        \/ Step(x, "p_unlock", Resume(x, "p_produce"))
        \/ Step(x, "c_unlock", Resume(x, "c_consume"))
        \/ Step(x, "i_unlock", "ui") \/ Step(x, "ui", "c_lock") \/ Step(x, "ui", "i_lock")
    BY DEF Produce, Consume, Lock, Unlock, UserGets, Info
  <2>2. Resume(x, "p_produce") \in Places /\ Resume(x, "c_consume") \in Places
    BY DEF Resume, Places, ProducerPC, ConsumerPC
  <2>3. {"p_lock", "c_lock", "p_test", "c_test", "i_unlock", "ui", "i_lock"} \subseteq Places
    BY DEF Places, ProducerPC, ConsumerPC, InfoPC
  <2>4. QED
    BY <2>1, <2>2, <2>3
<1>2. UNCHANGED <<queue, conditions>>
  BY DEF Produce, Consume, Lock, Unlock, UserGets, Info
<1>3. QED
  BY <1>1, <1>2, OwnStepWakeup

(* The message that comes wakes a sleeper. *)
LEMMA AddMsgWakeup ==
  ASSUME Core, Core', Matched, NEW x \in Actors, AddMsg(x) PROVE Matched'
<1>1. Step(x, "p_test", "p_unlock") /\ Signal("c_test") /\ dying' = dying
      /\ "p_unlock" \in Places
  BY DEF AddMsg, Places, ProducerPC
<1>2. pc'[x] = "p_unlock" /\ pc[x] = "p_test" /\ x \notin waiting
      /\ running' = running /\ \A y \in Actors \ {x} : pc'[y] = pc[y]
  BY <1>1, StepFacts
<1>3. waiting \subseteq running \cup {Main} /\ waiting \cap dying = {}
      /\ running \cup {Main} \subseteq Actors
  BY DEF Core, SleepInv, RestOK, Actors
<1>4. queue'.message_amount = queue.message_amount + 1
  BY AddMsgQueue DEF AddMsg, Core, ActorOK
<1>5. CASE Sleepers = {}
  <2>1. waiting' = waiting
    BY <1>1, <1>5 DEF Signal, Sleepers, ConsumersAt
  <2>2. Sleepers' = {}
    BY <1>2, <1>3, <1>5, <2>1 DEF Sleepers, ConsumersAt
  <2>3. QED
    BY <2>2 DEF Matched
<1>6. CASE Sleepers # {}
  <2>1. PICK y \in Sleepers : waiting' = waiting \ {y}
    BY <1>1, <1>6 DEF Signal, Sleepers, ConsumersAt
  <2>2. y \notin Awake /\ Awake' = Awake \cup {y}
    BY <1>1, <1>2, <1>3, <2>1 DEF Sleepers, Awake, ConsumersAt
  <2>3. IsFiniteSet(Awake) /\ Cardinality(Awake) \in Nat /\ queue.message_amount \in Nat
    BY AwakeType
  <2>4. Cardinality(Awake') = Cardinality(Awake) + 1
    BY <2>2, <2>3, FS_AddElement
  <2>5. QED
    BY <1>4, <1>6, <2>3, <2>4 DEF Matched
<1>7. QED
  BY <1>5, <1>6

(* The consumer that leaves takes one message with it. *)
LEMMA GetMsgWakeup ==
  ASSUME Core, Core', Matched, NEW x \in Actors, GetMsg(x) PROVE Matched'
<1>1. Step(x, "c_test", "c_unlock") /\ Signal("p_test") /\ dying' = dying
      /\ "c_unlock" \in Places
  BY DEF GetMsg, Places, ConsumerPC
<1>2. pc'[x] = "c_unlock" /\ pc[x] = "c_test" /\ x \notin waiting \cup dying
      /\ x \in running \cup {Main}
      /\ running' = running /\ \A y \in Actors \ {x} : pc'[y] = pc[y]
  BY <1>1, StepFacts DEF Step, Executes
<1>3. waiting \subseteq Actors /\ running \cup {Main} \subseteq Actors
  BY DEF Core, ActorOK, RestOK, Actors
<1>4. queue'.message_amount = queue.message_amount - 1
  BY <1>2, GetMsgQueue DEF GetMsg, MustWait, Core
<1>5. /\ waiting' \subseteq waiting
      /\ \A y \in waiting \ waiting' : pc[y] = "p_test"
  BY <1>1 DEF Signal
<1>6. Sleepers' = Sleepers
  BY <1>2, <1>3, <1>5 DEF Sleepers, ConsumersAt
<1>7. x \in Awake /\ Awake' = Awake \ {x}
  <2>1. x \in Awake /\ x \notin Awake'
    BY <1>2 DEF Awake, ConsumersAt
  <2>2. \A y \in Actors \ {x} : y \in Awake' <=> y \in Awake
    BY <1>1, <1>2, <1>5 DEF Awake, ConsumersAt
  <2>3. Awake \subseteq Actors /\ Awake' \subseteq Actors
    BY <1>2, <1>3 DEF Awake, ConsumersAt
  <2>4. QED
    BY <2>1, <2>2, <2>3
<1>8. IsFiniteSet(Awake) /\ Cardinality(Awake) \in Nat /\ queue.message_amount \in Nat
  BY AwakeType
<1>9. Cardinality(Awake') = Cardinality(Awake) - 1
  BY <1>7, <1>8, FS_RemoveElement
<1>10. QED
  BY <1>4, <1>6, <1>8, <1>9 DEF Matched

(* A consumer falls asleep only when there is no message. *)
LEMMA CondWaitWakeup ==
  ASSUME Core, Core', Matched, ~Unguarded, NEW x \in Actors, CondWait(x) PROVE Matched'
<1>1. /\ waiting' = waiting \cup {x} /\ MustWait(x) /\ pc[x] \in {"p_test", "c_test"}
      /\ UNCHANGED <<queue, dying, pc, running>>
  BY DEF CondWait, threads
<1>2. CASE pc[x] = "p_test"
  <2>1. Sleepers' \subseteq Sleepers /\ Awake \subseteq Awake'
    BY <1>1, <1>2 DEF Sleepers, Awake, ConsumersAt
  <2>2. QED
    BY <1>1, <2>1, NobodyLooksAway
<1>3. CASE pc[x] = "c_test"
  <2>1. queue'.message_amount = 0
    BY <1>1, <1>3 DEF MustWait
  <2>2. Cardinality(Awake') \in Nat
    BY ActorSets DEF Core, RestOK, Awake, ConsumersAt, Actors
  <2>3. QED
    BY <2>1, <2>2 DEF Matched
<1>4. QED
  BY <1>1, <1>2, <1>3

(* A cancelled consumer no longer counts as asleep, and none that is awake *)
(* is cancelled before it has got its message.                             *)
LEMMA OthersWakeup ==
  ASSUME Core, Core', Matched, UNCHANGED <<queue, pc>>, waiting' \subseteq waiting,
         \A y \in (running \cup {Main}) \ (waiting \cup dying) :
           pc[y] = "c_test" => y \in (running' \cup {Main}) \ (waiting' \cup dying')
  PROVE  Matched'
<1>1. Sleepers' \subseteq Sleepers /\ Awake \subseteq Awake'
  BY DEF Sleepers, Awake, ConsumersAt
<1>2. QED
  BY <1>1, NobodyLooksAway

(* What follows the unlock in atexit_handler is not undone. *)
LEMMA GuardEnds == [Next]_vars /\ ~Unguarded' => ~Unguarded
<1> SUFFICES ASSUME [Next]_vars, Unguarded PROVE Unguarded'
  OBVIOUS
<1>1. ASSUME phase' = phase PROVE Unguarded'
  BY <1>1 DEF Unguarded
<1>2. ASSUME NEW x, NEW from, NEW to, Step(x, from, to) PROVE Unguarded'
  BY <1>1, <1>2 DEF Step, exitVars
<1>3. ASSUME NEW x \in Actors, Takes(x) \/ Runs(x) \/ SpuriousWakeup(x) PROVE Unguarded'
  <2>1. CASE Lock(x) \/ Unlock(x) \/ Produce(x) \/ Consume(x)
    BY <1>2, <2>1 DEF Lock, Unlock, Produce, Consume
  <2>2. CASE AddMsg(x) \/ GetMsg(x) \/ RaceForBuffer(x)
    BY <1>2, <2>2 DEF AddMsg, GetMsg, RaceForBuffer
  <2>3. CASE Relock(x) \/ DieWithMutex(x) \/ SpuriousWakeup(x) \/ CondWait(x)
    BY <1>1, <2>3 DEF Relock, DieWithMutex, SpuriousWakeup, CondWait, exitVars
  <2>4. CASE Crash(x) \/ CallExit(x)
    BY <1>1, <2>4 DEF Crash, CallExit, Exit, ProcessEnds
  <2>5. CASE Join(x) \/ ActOnCancel(x) \/ CancelWait(x)
    BY <1>1, <2>5 DEF Join, ActOnCancel, CancelWait, exitVars
  <2>6. QED
    BY <1>3, <2>1, <2>2, <2>3, <2>4, <2>5 DEF Takes, Runs
<1>4. ASSUME NEW t \in Threads, CreateProducer(t) \/ CreateConsumer(t) PROVE Unguarded'
  BY <1>1, <1>4 DEF CreateProducer, CreateConsumer, Start, exitVars
<1>5. CASE Produce(Main) \/ UserGets \/ Info
  BY <1>2, <1>5 DEF Produce, UserGets, Info
<1>6. CASE UserRemoves \/ Quit
  BY <1>1, <1>6 DEF UserRemoves, Quit, Exit, ProcessEnds, exitVars
<1>7. CASE AtExit
  BY <1>7 DEF AtExit, ExitRemoves, ExitNextLoop, DestroyCondition, ExitUnlocks,
     DestroyMutex, ExitEnds, ProcessEnds, InExit, Unguarded
<1>8. CASE UNCHANGED vars
  BY <1>1, <1>8 DEF vars, exitVars
<1>9. QED
  BY <1>3, <1>4, <1>5, <1>6, <1>7, <1>8 DEF Next

LEMMA NextWakeup == Core /\ Core' /\ WakeupInv /\ [Next]_vars => WakeupInv'
<1> SUFFICES ASSUME Core, Core', Matched, ~Unguarded, [Next]_vars PROVE Matched'
  BY GuardEnds DEF WakeupInv
<1>0. Main \in Actors
  BY DEF Actors
<1>1. CASE UNCHANGED <<queue, pc, waiting, dying, running>>
  BY <1>1, OthersWakeup
<1>2. ASSUME NEW x \in Actors, Takes(x) \/ Runs(x) \/ SpuriousWakeup(x) PROVE Matched'
  <2>1. CASE SpuriousWakeup(x) \/ Relock(x)
    BY <2>1, OthersWakeup DEF SpuriousWakeup, Relock, threads
  <2>2. CASE x \in Threads /\ CancelWait(x)
    BY <2>2, OthersWakeup DEF CancelWait, threads
  <2>3. CASE x \in Threads /\ DieWithMutex(x)
    BY <2>3, OthersWakeup DEF DieWithMutex
  <2>4. CASE x \in Threads /\ ActOnCancel(x)
    <3>1. pc[x] # "c_test"
      BY <2>4 DEF ActOnCancel, Reporting, Core, SleepInv, Leaving, Actors
    <3>2. QED
      BY <2>4, <3>1, OthersWakeup DEF ActOnCancel, conditions
  <2>5. CASE Crash(x) \/ CallExit(x) \/ Join(x)
    BY <1>1, <2>5 DEF Crash, CallExit, Exit, ProcessEnds, Join, conditions, threads
  <2>6. QED
    BY <1>2, <2>1, <2>2, <2>3, <2>4, <2>5, OwnStepsWakeup, CondWaitWakeup, AddMsgWakeup,
       GetMsgWakeup DEF Takes, Runs, RaceForBuffer
<1>3. ASSUME NEW t \in Threads, CreateProducer(t) \/ CreateConsumer(t) PROVE Matched'
  <2>1. PICK first \in {"p_produce", "c_lock"} : pc' = [pc EXCEPT ![t] = first]
    BY <1>3, StartFacts
  <2>2. /\ pc[t] = "unborn" /\ running' = running \cup {t}
        /\ UNCHANGED <<queue, waiting, dying>>
    BY <1>3, StartFacts
  <2>3. \A y \in Actors : pc'[y] = "c_test" <=> pc[y] = "c_test"
    BY <2>1, <2>2 DEF Core, ActorOK
  <2>4. waiting \subseteq Actors /\ running \cup {Main} \subseteq Actors
    BY DEF Core, ActorOK, RestOK, Actors
  <2>5. Sleepers' \subseteq Sleepers /\ Awake \subseteq Awake'
    BY <2>2, <2>3, <2>4 DEF Sleepers, Awake, ConsumersAt
  <2>6. QED
    BY <2>2, <2>5, NobodyLooksAway
<1>4. CASE Produce(Main) \/ UserGets \/ Info
  BY <1>0, <1>4, OwnStepsWakeup
<1>5. CASE Quit
  BY <1>1, <1>5 DEF Quit, Exit, ProcessEnds, conditions, threads
<1>6. CASE UserRemoves
  BY <1>1, <1>6 DEF UserRemoves, conditions
<1>7. CASE AtExit
  BY <1>1, <1>7
     DEF AtExit, ExitRemoves, ExitNextLoop, DestroyCondition, ExitUnlocks, DestroyMutex,
         ExitEnds, ProcessEnds, conditions, threads
<1>8. CASE UNCHANGED vars
  BY <1>1, <1>8 DEF vars, conditions, threads
<1>9. QED
  BY <1>2, <1>3, <1>4, <1>5, <1>6, <1>7, <1>8 DEF Next

(* No wakeup is lost: while a consumer sleeps in pthread_cond_wait, there  *)
(* is for every message in the buffer a consumer that was woken for it or  *)
(* looks at it anyway, whoever is cancelled, asleep or awake, until        *)
(* atexit_handler unlocks the mutex under the workers it left.             *)
THEOREM NoWakeupIsLost == Spec => []NoLostWakeup
<1>1. Init => WakeupInv
  BY DEF Init, WakeupInv, Matched, Sleepers, ConsumersAt
<1>2. Spec => []WakeupInv
  BY <1>1, SpecCore, NextWakeup, PTL DEF Spec
<1>3. QED
  BY <1>2, WakeupIsTheProperty, PTL

-----------------------------------------------------------------------------
(* The refinement of BoundedFifo.                                          *)

(* The messages between tail and head, oldest first. *)
Held(q) == [k \in 1 .. q.message_amount |-> q.buffer[q.tail + k - 1]]

(* An actor that is about to store a message has one. *)
Carries == {"p_lock", "p_test"}
DataInv == \A x \in Actors : pc[x] \in Carries => msg[x] \in Msgs

(* What a step of LAB_7/p1 is for the abstract queue. *)
FifoStep ==
  \/ Contents' = Contents
  \/ Len(Contents) < MSG_MAX - 1 /\ \E m \in Msgs : Contents' = Append(Contents, m)
  \/ Contents # <<>> /\ Contents' = Tail(Contents)

LEMMA ContentsIsHeld == Contents = Held(queue) /\ Contents' = Held(queue')
  BY DEF Contents, Held

LEMMA HeldFacts ==
  ASSUME NEW q \in QueueType, Aligned(q)
  PROVE  /\ Held(q) \in Seq(Msgs \cup {NoMsg}) /\ Len(Held(q)) = q.message_amount
         /\ \A k \in 1 .. q.message_amount :
              q.tail + k - 1 \in Slots /\ Held(q)[k] = q.buffer[q.tail + k - 1]
<1>1. q.head \in Nat /\ q.tail \in Nat /\ q.message_amount \in Nat
      /\ q.buffer \in [Slots -> Msgs \cup {NoMsg}]
  BY DEF QueueType
<1>2. ASSUME NEW k \in 1 .. q.message_amount PROVE q.tail + k - 1 \in Slots
  BY <1>1, MonitorAssumption DEF Aligned, Slots, MonitorAssumption
<1>3. Held(q) \in [1 .. q.message_amount -> Msgs \cup {NoMsg}]
  BY <1>1, <1>2 DEF Held
<1>4. QED
  BY <1>1, <1>2, <1>3 DEF Held

(* add_msg puts a message behind the others. *)
LEMMA AddMsgHeld ==
  ASSUME QueueOK, QueueOK', NEW m \in Msgs,
         queue'.message_amount = queue.message_amount + 1, queue'.tail = queue.tail,
         queue'.buffer = [queue.buffer EXCEPT ![queue.head] = m], queue.head \in Slots
  PROVE  Held(queue') = Append(Held(queue), m)
<1> DEFINE n == queue.message_amount
           h == Held(queue)
           g == Held(queue')
           a == Append(h, m)
<1>1. /\ n \in Nat /\ queue.tail \in Nat /\ queue.tail + n = queue.head
      /\ queue.buffer \in [Slots -> Msgs \cup {NoMsg}]
  BY DEF QueueOK, QueueType, Aligned
<1>2. /\ h \in Seq(Msgs \cup {NoMsg}) /\ Len(h) = n
      /\ \A k \in 1 .. n :
           queue.tail + k - 1 \in Slots /\ h[k] = queue.buffer[queue.tail + k - 1]
  BY HeldFacts DEF QueueOK
<1>3. /\ g \in Seq(Msgs \cup {NoMsg}) /\ Len(g) = n + 1
      /\ \A k \in 1 .. n + 1 : g[k] = queue'.buffer[queue.tail + k - 1]
  <2>1. queue' \in QueueType /\ Aligned(queue')
    BY DEF QueueOK
  <2>2. QED
    BY <2>1, HeldFacts
<1> HIDE DEF h, g
<1>4. a \in Seq(Msgs \cup {NoMsg}) /\ Len(a) = n + 1
      /\ \A k \in 1 .. n + 1 : a[k] = IF k = n + 1 THEN m ELSE h[k]
  BY <1>1, <1>2
<1>5. ASSUME NEW k \in 1 .. n + 1 PROVE g[k] = a[k]
  <2>1. CASE k = n + 1
    <3>1. queue.tail + k - 1 = queue.head
      BY <1>1, <2>1
    <3>2. QED
      BY <1>1, <1>3, <1>4, <2>1, <3>1
  <2>2. CASE k # n + 1
    <3>1. k \in 1 .. n /\ queue.tail + k - 1 # queue.head
      BY <1>1, <2>2
    <3>2. queue'.buffer[queue.tail + k - 1] = queue.buffer[queue.tail + k - 1]
      BY <1>1, <1>2, <3>1
    <3>3. QED
      BY <1>2, <1>3, <1>4, <2>2, <3>1, <3>2
  <2>3. QED
    BY <2>1, <2>2
<1> HIDE DEF a
<1>6. g = a
  BY <1>1, <1>3, <1>4, <1>5, SeqEqual
<1>7. QED
  BY <1>6 DEF g, a, h

(* get_msg takes the oldest away. *)
LEMMA GetMsgHeld ==
  ASSUME QueueOK, QueueOK', queue.message_amount # 0,
         queue'.message_amount = queue.message_amount - 1,
         queue'.tail = queue.tail + 1, queue'.buffer = queue.buffer
  PROVE  Held(queue) # <<>> /\ Held(queue') = Tail(Held(queue))
<1> DEFINE n == queue.message_amount
           h == Held(queue)
           g == Held(queue')
<1>1. n \in Nat /\ n # 0 /\ queue.tail \in Nat
  BY DEF QueueOK, QueueType
<1>2. /\ h \in Seq(Msgs \cup {NoMsg}) /\ Len(h) = n
      /\ \A k \in 1 .. n : h[k] = queue.buffer[queue.tail + k - 1]
  BY HeldFacts DEF QueueOK
<1>3. /\ g \in Seq(Msgs \cup {NoMsg}) /\ Len(g) = n - 1
      /\ \A k \in 1 .. n - 1 : g[k] = queue.buffer[(queue.tail + 1) + k - 1]
  <2>1. queue' \in QueueType /\ Aligned(queue')
    BY DEF QueueOK
  <2>2. QED
    BY <2>1, HeldFacts
<1> HIDE DEF h, g
<1>4. h # <<>>
  BY <1>1, <1>2, EmptySeq
<1>5. /\ Tail(h) \in Seq(Msgs \cup {NoMsg}) /\ Len(Tail(h)) = n - 1
      /\ \A k \in 1 .. n - 1 : Tail(h)[k] = h[k + 1]
  BY <1>2, <1>4, HeadTailProperties
<1>6. ASSUME NEW k \in 1 .. n - 1 PROVE g[k] = Tail(h)[k]
  <2>1. k + 1 \in 1 .. n /\ (queue.tail + 1) + k - 1 = queue.tail + (k + 1) - 1
    BY <1>1
  <2>2. QED
    BY <1>2, <1>3, <1>5, <2>1
<1>7. g = Tail(h)
  BY <1>1, <1>3, <1>5, <1>6, SeqEqual
<1>8. QED
  BY <1>4, <1>7 DEF g, h

LEMMA AddMsgData ==
  ASSUME Core, Core', DataInv, NEW x \in Actors, AddMsg(x) PROVE DataInv' /\ FifoStep
<1>1. /\ Step(x, "p_test", "p_unlock") /\ "p_unlock" \in Places
      /\ msg' = [msg EXCEPT ![x] = NoMsg] /\ queue.head \in Slots /\ ~Overflows
  BY DEF AddMsg, Places, ProducerPC
<1>2. pc'[x] = "p_unlock" /\ msg[x] \in Msgs /\ \A y \in Actors \ {x} : pc'[y] = pc[y]
  BY <1>1, StepFacts DEF DataInv, Carries
<1>3. DataInv'
  BY <1>1, <1>2 DEF DataInv, Carries, Core, ActorOK
<1>4. /\ queue'.message_amount = queue.message_amount + 1 /\ queue'.tail = queue.tail
      /\ queue'.buffer = [queue.buffer EXCEPT ![queue.head] = msg[x]]
  BY <1>2, AddMsgQueue DEF AddMsg, Core
<1>5. Contents' = Append(Contents, msg[x])
  BY <1>1, <1>2, <1>4, AddMsgHeld, ContentsIsHeld DEF Core
<1>6. Len(Contents) < MSG_MAX - 1
  <2>1. Len(Contents) = queue.message_amount
    BY HeldFacts, ContentsIsHeld DEF Core, QueueOK
  <2>2. /\ queue.message_amount \in Nat /\ queue.message_amount < MSG_MAX
        /\ queue.message_amount # MSG_MAX - 1
    BY <1>1 DEF Core, QueueOK, QueueType, Aligned, Overflows
  <2>3. QED
    BY <2>1, <2>2, MonitorAssumption DEF MonitorAssumption
<1>7. QED
  BY <1>2, <1>3, <1>5, <1>6 DEF FifoStep

LEMMA GetMsgData ==
  ASSUME Core, Core', DataInv, NEW x \in Actors, GetMsg(x) PROVE DataInv' /\ FifoStep
<1>1. Step(x, "c_test", "c_unlock") /\ "c_unlock" \in Places
  BY DEF GetMsg, Places, ConsumerPC
<1>2. /\ pc'[x] = "c_unlock" /\ pc[x] = "c_test"
      /\ \A y \in Actors \ {x} : pc'[y] = pc[y] /\ msg'[y] = msg[y]
  BY <1>1, StepFacts DEF GetMsg, Core, ActorOK
<1>3. DataInv'
  BY <1>2 DEF DataInv, Carries
<1>4. /\ queue.message_amount # 0 /\ queue'.message_amount = queue.message_amount - 1
      /\ queue'.tail = queue.tail + 1 /\ queue'.buffer = queue.buffer
  BY <1>2, GetMsgQueue DEF GetMsg, MustWait, Core
<1>5. Contents # <<>> /\ Contents' = Tail(Contents)
  BY <1>4, GetMsgHeld, ContentsIsHeld DEF Core
<1>6. QED
  BY <1>3, <1>5 DEF FifoStep

(* A step that leaves the buffer alone. *)
LEMMA StutterData ==
  ASSUME Core, DataInv, NEW x \in Actors, queue' = queue,
         \A y \in Actors \ {x} : pc'[y] = pc[y] /\ msg'[y] = msg[y],
         pc'[x] \in Carries => msg'[x] \in Msgs
  PROVE  DataInv' /\ FifoStep
<1>1. Contents' = Contents
  BY ContentsIsHeld
<1>2. QED
  BY <1>1 DEF DataInv, FifoStep

LEMMA OwnStepData ==
  ASSUME Core, DataInv, NEW x \in Actors,
         \/ Produce(x) \/ Consume(x) \/ Lock(x) \/ Unlock(x) \/ RaceForBuffer(x)
         \/ (x = Main /\ (UserGets \/ Info))
  PROVE  DataInv' /\ FifoStep
<1> USE DEF RaceForBuffer, Produce, Consume, Lock, Unlock, UserGets, Info, Step
<1>1. queue' = queue
  OBVIOUS
<1>2. \A y \in Actors \ {x} : pc'[y] = pc[y] /\ msg'[y] = msg[y]
  BY DEF Core, ActorOK
<1>3. pc'[x] \in Carries => msg'[x] \in Msgs
  BY DEF Core, ActorOK, DataInv, Carries, Resume
<1>4. QED
  BY <1>1, <1>2, <1>3, StutterData

LEMMA SystemData ==
  ASSUME Core, DataInv, UNCHANGED <<queue, pc, msg>> PROVE DataInv' /\ FifoStep
<1>1. Main \in Actors
  BY DEF Actors
<1>2. QED
  BY <1>1, StutterData DEF DataInv

LEMMA NextData == Core /\ Core' /\ DataInv /\ [Next]_vars => DataInv' /\ FifoStep
<1> SUFFICES ASSUME Core, Core', DataInv, [Next]_vars PROVE DataInv' /\ FifoStep
  OBVIOUS
<1>0. Main \in Actors
  BY DEF Actors
<1>1. ASSUME NEW x \in Actors, Takes(x) \/ Runs(x) \/ SpuriousWakeup(x)
      PROVE  DataInv' /\ FifoStep
  <2>1. CASE \/ CondWait(x) \/ SpuriousWakeup(x) \/ Relock(x) \/ Join(x)
             \/ ActOnCancel(x) \/ CancelWait(x) \/ DieWithMutex(x)
    BY <2>1, SystemData
       DEF CondWait, SpuriousWakeup, Relock, Join, ActOnCancel, CancelWait, DieWithMutex
  <2>2. CASE Crash(x) \/ CallExit(x)
    BY <2>2, SystemData DEF Crash, CallExit, Exit, ProcessEnds
  <2>3. QED
    BY <1>1, <2>1, <2>2, OwnStepData, AddMsgData, GetMsgData DEF Takes, Runs
<1>2. ASSUME NEW t \in Threads, CreateProducer(t) \/ CreateConsumer(t)
      PROVE  DataInv' /\ FifoStep
  <2>1. PICK first \in {"p_produce", "c_lock"} : pc' = [pc EXCEPT ![t] = first]
    BY <1>2, StartFacts
  <2>2. \A y \in Actors : pc'[y] = IF y = t THEN first ELSE pc[y]
    BY <2>1 DEF Core, ActorOK
  <2>3. UNCHANGED <<queue, msg>> /\ t \in Actors
    BY <1>2, StartFacts DEF Actors
  <2>4. CASE first = "p_produce"
    BY <2>2, <2>3, <2>4, StutterData DEF Carries
  <2>5. CASE first = "c_lock"
    BY <2>2, <2>3, <2>5, StutterData DEF Carries
  <2>6. QED
    BY <2>4, <2>5
<1>3. CASE Produce(Main) \/ UserGets \/ Info
  BY <1>0, <1>3, OwnStepData
<1>4. CASE UserRemoves \/ Quit \/ AtExit
  BY <1>4, SystemData
     DEF UserRemoves, Quit, Exit, AtExit, ExitRemoves, ExitNextLoop, DestroyCondition,
         ExitUnlocks, DestroyMutex, ExitEnds, ProcessEnds
<1>5. CASE UNCHANGED vars
  BY <1>5, SystemData DEF vars
<1>6. QED
  BY <1>1, <1>2, <1>3, <1>4, <1>5 DEF Next

LEMMA InitData == Init => DataInv /\ Fifo!Init
<1> SUFFICES ASSUME Init PROVE DataInv /\ Fifo!Init
  OBVIOUS
<1>1. QueueOK /\ queue.message_amount = 0
  BY InitCore DEF Core, Init
<1>2. Contents \in Seq(Msgs \cup {NoMsg}) /\ Len(Contents) = 0
  BY <1>1, HeldFacts, ContentsIsHeld DEF QueueOK
<1>3. Contents = <<>>
  BY <1>2, EmptySeq
<1>4. \A x \in Actors : pc[x] \notin Carries
  BY DEF Init, Carries
<1>5. QED
  BY <1>3, <1>4 DEF DataInv, Fifo!Init

LEMMA SpecData == Spec => []DataInv
  BY InitData, SpecCore, NextData, PTL DEF Spec

(* add_msg and get_msg, called by any number of threads and by the main    *)
(* thread, cancelled anywhere, are the Put and Get of a first-in first-out *)
(* queue of MSG_MAX - 1 places; also where the indices have left the       *)
(* buffer and run on in the page behind it.                                *)
THEOREM BufferIsFifo == Spec => ImplementsFifo
<1>1. FifoStep => [Fifo!Next]_<<Contents, 0>>
  BY DEF FifoStep, Fifo!Next, Fifo!Put, Fifo!Get
<1>2. Core /\ Core' /\ DataInv /\ [Next]_vars => [Fifo!Next]_<<Contents, 0>>
  BY <1>1, NextData
<1>3. QED
  BY <1>2, InitData, SpecCore, SpecData, PTL DEF Spec, ImplementsFifo, Fifo!Spec
=============================================================================
