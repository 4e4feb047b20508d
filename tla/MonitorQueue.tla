---------------------------- MODULE MonitorQueue ----------------------------
(***************************************************************************)
(* LAB_7/p1: producers and consumers as threads around a buffer guarded by *)
(* a mutex and two condition variables.  The main thread starts, cancels   *)
(* and joins the workers and can itself put ('+') and get ('-') a message. *)
(*                                                                         *)
(* Unlike LAB_4 and LAB_5 the indices head and tail never return to 0:     *)
(* they run on into the rest of the last page of the mapping and, past     *)
(* that, out of it.                                                        *)
(***************************************************************************)
EXTENDS Integers, FiniteSets, SequencesExt

CONSTANTS
  MSG_MAX,    (* number of slots of queue->buffer                          *)
  Slack,      (* messages that fit behind them in the last page            *)
  Msgs, NoMsg,
  Threads,    (* identifiers pthread_create may return                     *)
  Main,       (* the main thread                                           *)
  Nobody,     (* no thread                                                 *)
  Destroyed,  (* the mutex after pthread_mutex_destroy                     *)
  CHILD_MAX,  (* length of producers[] and of consumers[]                  *)
  MaxAdds     (* bound: no new message is produced once produce_count is this *)

Actors == Threads \cup {Main}

ASSUME MonitorAssumption ==
  /\ MSG_MAX \in Nat /\ MSG_MAX > 1 /\ Slack \in Nat /\ NoMsg \notin Msgs
  /\ IsFiniteSet(Threads) /\ Main \notin Threads /\ Nobody \notin Actors
  /\ Destroyed \notin Actors \cup {Nobody}
  /\ CHILD_MAX \in Nat /\ CHILD_MAX > 1 /\ MaxAdds \in Nat

VARIABLES
  queue,      (* the msg_struct                                            *)
  mutex,      (* its holder, Nobody, or Destroyed                          *)
  waiting,    (* actors asleep in pthread_cond_wait                        *)
  woken,      (* actors that left the condition but lack the mutex         *)
  dying,      (* workers that act on a cancellation in pthread_cond_wait   *)
  pc, msg,    (* where each actor is, and its local msg_t                  *)
  running, cancelled,
  target,     (* the worker an actor is joining                            *)
  producers, consumers,  (* the arrays, up to their amounts                *)
  exiting,    (* the actor that called exit()                              *)
  phase, i,   (* its next step in atexit_handler, and the loop index       *)
  alive       (* is there a process?                                       *)

conditions == <<waiting, woken, dying>>
arrays == <<producers, consumers>>
threads == <<running, cancelled, target, arrays>>
exitVars == <<exiting, phase, i, alive>>
vars == <<queue, mutex, conditions, pc, msg, threads, exitVars>>

Slots == 0 .. MSG_MAX + Slack - 1
ProducerPC == {"p_produce", "p_lock", "p_test", "p_unlock"}
ConsumerPC == {"c_lock", "c_test", "c_unlock", "c_consume"}
InfoPC == {"i_lock", "i_unlock"}
Phases ==
  {"producers", "consumers", "cond_producer", "cond_consumer", "unlock", "mutex", "unlink"}

TypeOK ==
  /\ queue \in [produce_count : Nat, consume_count : Nat, message_amount : Nat,
                head : Nat, tail : Nat, buffer : [Slots -> Msgs \cup {NoMsg}]]
  /\ mutex \in Actors \cup {Nobody, Destroyed}
  /\ waiting \subseteq Actors /\ woken \subseteq Actors /\ dying \subseteq Threads
  /\ pc \in [Actors -> ProducerPC \cup ConsumerPC \cup InfoPC \cup {"unborn", "ui"}]
  /\ msg \in [Actors -> Msgs \cup {NoMsg}]
  /\ running \subseteq Threads /\ cancelled \subseteq Threads
  /\ target \in [Actors -> Threads \cup {Nobody}]
  /\ producers \in Seq(Threads) /\ consumers \in Seq(Threads)
  /\ exiting \in Actors \cup {Nobody}
  /\ phase \in Phases /\ i \in Nat
  /\ alive \in BOOLEAN

Init ==
  /\ queue = [produce_count |-> 0, consume_count |-> 0, message_amount |-> 0,
              head |-> 0, tail |-> 0, buffer |-> [s \in Slots |-> NoMsg]]
  /\ mutex = Nobody /\ waiting = {} /\ woken = {} /\ dying = {}
  /\ pc = [x \in Actors |-> IF x = Main THEN "ui" ELSE "unborn"]
  /\ msg = [x \in Actors |-> NoMsg]
  /\ running = {} /\ cancelled = {}
  /\ target = [x \in Actors |-> Nobody]
  /\ producers = <<>> /\ consumers = <<>>
  /\ exiting = Nobody /\ phase = "producers" /\ i = 0 /\ alive = TRUE

-----------------------------------------------------------------------------
(* Putting and getting, by a worker or by the main thread.                 *)

(* x can execute its own code: it is not asleep, joining or in exit().     *)
Executes(x) ==
  /\ alive /\ x \in running \cup {Main} /\ x # exiting
  /\ x \notin waiting \cup woken \cup dying /\ target[x] = Nobody

Step(x, from, to) ==
  /\ Executes(x) /\ pc[x] = from
  /\ pc' = [pc EXCEPT ![x] = to]
  /\ UNCHANGED <<threads, exitVars>>

(* Where x goes on after a message was put or got. *)
Resume(x, worker) == IF x = Main THEN "ui" ELSE worker

Produce(x) ==
  /\ x \notin cancelled /\ queue.produce_count < MaxAdds
  /\ \E from \in {"p_produce", "ui"} : Step(x, from, "p_lock")
  /\ \E m \in Msgs : msg' = [msg EXCEPT ![x] = m]
  /\ UNCHANGED <<queue, mutex, conditions>>

(* Once the mutex is destroyed, pthread_mutex_lock and _unlock fail, which *)
(* nobody looks at.                                                        *)
Take(x) == IF mutex = Destroyed THEN UNCHANGED mutex ELSE mutex = Nobody /\ mutex' = x
Release == mutex' = IF mutex = Destroyed THEN Destroyed ELSE Nobody

Lock(x) ==
  /\ Take(x)
  /\ \/ Step(x, "p_lock", "p_test") \/ Step(x, "c_lock", "c_test")
     \/ Step(x, "i_lock", "i_unlock")
  /\ UNCHANGED <<queue, msg, conditions>>

Unlock(x) ==
  /\ Release
  /\ \/ Step(x, "p_unlock", Resume(x, "p_produce")) /\ UNCHANGED msg
     \/ Step(x, "c_unlock", Resume(x, "c_consume")) /\ UNCHANGED msg
     \/ Step(x, "i_unlock", "ui") /\ UNCHANGED msg
  /\ UNCHANGED <<queue, conditions>>

(* Bug: consumers do not test for an empty buffer. *)
OnlyProducersWait(x) == pc[x] = "p_test" /\ queue.message_amount = MSG_MAX

(* The tests of the while loops around pthread_cond_wait. *)
MustWait(x) ==
  queue.message_amount = IF pc[x] = "p_test" THEN MSG_MAX ELSE 0

(* The test by which add_msg reports an overflow. *)
Overflows == queue.message_amount = MSG_MAX - 1

(* Bug: no signal. *)
NoSignal(place) == UNCHANGED <<waiting, woken>>

(* pthread_cond_signal on the condition the actors at this place sleep on. *)
Signal(place) ==
  LET sleepers == {x \in waiting : pc[x] = place} IN
  IF sleepers = {} THEN UNCHANGED <<waiting, woken>>
  ELSE \E x \in sleepers : waiting' = waiting \ {x} /\ woken' = woken \cup {x}

(* The unlock in the handler of exit() is not the holder's: from there on  *)
(* the workers are not kept apart.                                         *)
Unguarded == phase \in {"mutex", "unlink"}

CondWait(x) ==
  /\ Executes(x) /\ pc[x] \in {"p_test", "c_test"} /\ (MustWait(x) \/ Unguarded)
  /\ mutex # Destroyed
  /\ waiting' = waiting \cup {x} /\ mutex' = Nobody
  /\ UNCHANGED <<queue, woken, dying, pc, msg, threads, exitVars>>

(* A sleeper with a cancellation request acts on it instead. *)
SpuriousWakeup(x) ==
  /\ alive /\ x \in waiting \ cancelled
  /\ waiting' = waiting \ {x} /\ woken' = woken \cup {x}
  /\ UNCHANGED <<queue, mutex, dying, pc, msg, threads, exitVars>>

(* Bug: the mutex is not taken again after the wait. *)
WakeWithoutMutex(x) ==
  /\ alive /\ x \in woken /\ woken' = woken \ {x}
  /\ UNCHANGED <<queue, mutex, waiting, dying, pc, msg, threads, exitVars>>

Relock(x) ==
  /\ alive /\ x \in woken /\ Take(x)
  /\ woken' = woken \ {x}
  /\ UNCHANGED <<queue, waiting, dying, pc, msg, threads, exitVars>>

AddMsg(x) ==
  /\ ~Unguarded /\ ~MustWait(x) /\ ~Overflows /\ queue.head \in Slots
  /\ Step(x, "p_test", "p_unlock")
  /\ queue' = [queue EXCEPT !.buffer[queue.head] = msg[x], !.head = @ + 1,
                            !.message_amount = @ + 1, !.produce_count = @ + 1]
  /\ Signal("c_test")
  /\ msg' = [msg EXCEPT ![x] = NoMsg]
  /\ UNCHANGED <<mutex, dying>>

(* Bug: get_msg forgets ++tail. *)
GetMsgKeepsTail(x) ==
  /\ ~Unguarded /\ ~MustWait(x)
  /\ Step(x, "c_test", "c_unlock")
  /\ msg' = [msg EXCEPT ![x] = queue.buffer[queue.tail]]
  /\ queue' = [queue EXCEPT !.message_amount = @ - 1, !.consume_count = @ + 1]
  /\ Signal("p_test")
  /\ UNCHANGED <<mutex, dying>>

(* get_msg tests for an underflow; the loop has just excluded it. *)
GetMsg(x) ==
  /\ ~Unguarded /\ ~MustWait(x)
  /\ Step(x, "c_test", "c_unlock")
  /\ msg' = [msg EXCEPT ![x] = queue.buffer[queue.tail]]
  /\ queue' = [queue EXCEPT !.tail = @ + 1, !.message_amount = @ - 1,
                            !.consume_count = @ + 1]
  /\ Signal("p_test")
  /\ UNCHANGED <<mutex, dying>>

(* What workers that are not kept apart do to the buffer, which the        *)
(* process is about to lose, is not followed.                              *)
RaceForBuffer(x) ==
  /\ Unguarded
  /\ \/ Step(x, "p_test", "p_unlock") /\ Signal("c_test")
     \/ Step(x, "c_test", "c_unlock") /\ Signal("p_test")
  /\ msg' = [msg EXCEPT ![x] = NoMsg]
  /\ UNCHANGED <<queue, mutex, dying>>

(* printf and sleep are cancellation points, consume is not: a cancelled   *)
(* worker does not come past here.                                         *)
Consume(t) ==
  /\ t \notin cancelled
  /\ Step(t, "c_consume", "c_lock")
  /\ msg' = [msg EXCEPT ![t] = NoMsg]
  /\ UNCHANGED <<queue, mutex, conditions>>

-----------------------------------------------------------------------------
(* The end of the process, of a worker, and exit().                        *)

ProcessEnds ==
  /\ alive' = FALSE
  /\ UNCHANGED <<queue, mutex, conditions, pc, msg, threads, exiting, phase, i>>

(* add_msg stores beyond the mapping. *)
Crash(x) ==
  /\ Executes(x) /\ pc[x] = "p_test" /\ ~MustWait(x) /\ ~Overflows
  /\ queue.head \notin Slots
  /\ ProcessEnds

(* Does x report an overflow?  In the race also an underflow. *)
Reporting(x) ==
  \/ pc[x] = "p_test" /\ Overflows
  \/ pc[x] \in {"p_test", "c_test"} /\ Unguarded

(* Only the first exit() runs atexit_handler. *)
Exit(x) ==
  IF exiting = Nobody
  THEN exiting' = x /\ UNCHANGED <<queue, mutex, conditions, pc, msg, threads,
                                   phase, i, alive>>
  ELSE ProcessEnds

CallExit(x) == Executes(x) /\ Reporting(x) /\ Exit(x)

(* A cancellation request is acted upon in printf and sleep, in the fputs  *)
(* of an overflow, in pthread_join, and (below) in pthread_cond_wait.      *)
ActOnCancel(t) ==
  /\ alive /\ t \in running \cap cancelled
  /\ \/ Executes(t) /\ (pc[t] \in {"p_produce", "c_consume"} \/ Reporting(t))
     \/ target[t] # Nobody
  /\ running' = running \ {t}
  /\ UNCHANGED <<queue, mutex, conditions, pc, msg, cancelled, target, arrays,
                 exitVars>>

(* pthread_cond_wait takes the mutex again before the thread ends, and no  *)
(* cleanup handler releases it.                                            *)
CancelWait(t) ==
  /\ alive /\ t \in waiting \cap cancelled
  /\ waiting' = waiting \ {t} /\ dying' = dying \cup {t}
  /\ UNCHANGED <<queue, mutex, woken, pc, msg, threads, exitVars>>

DieWithMutex(t) ==
  /\ alive /\ t \in dying /\ Take(t)
  /\ dying' = dying \ {t} /\ running' = running \ {t}
  /\ UNCHANGED <<queue, waiting, woken, pc, msg, cancelled, target, arrays,
                 exitVars>>

(* Bug: join without cancel. *)
JoinOnly(x, array) ==
  target' = [target EXCEPT ![x] = Last(array)] /\ UNCHANGED cancelled

(* remove_producer and remove_consumer, called by x. *)
CancelAndJoin(x, array) ==
  /\ cancelled' = cancelled \cup {Last(array)}
  /\ target' = [target EXCEPT ![x] = Last(array)]
RemoveProducer(x) ==
  CancelAndJoin(x, producers) /\ producers' = Front(producers) /\ UNCHANGED consumers
RemoveConsumer(x) ==
  CancelAndJoin(x, consumers) /\ consumers' = Front(consumers) /\ UNCHANGED producers

Join(x) ==
  /\ alive /\ x \in running \cup {Main}
  /\ target[x] # Nobody /\ target[x] \notin running
  /\ target' = [target EXCEPT ![x] = Nobody]
  /\ UNCHANGED <<queue, mutex, conditions, pc, msg, running, cancelled, arrays,
                 exitVars>>

(* The loops of atexit_handler: i goes up while the amount goes down.      *)
InExit(p) ==
  /\ alive /\ exiting \in running \cup {Main} /\ target[exiting] = Nobody
  /\ phase = p

ExitRemoves ==
  /\ \/ InExit("producers") /\ i < Len(producers) /\ RemoveProducer(exiting)
     \/ InExit("consumers") /\ i < Len(consumers) /\ RemoveConsumer(exiting)
  /\ i' = i + 1
  /\ UNCHANGED <<queue, mutex, conditions, pc, msg, running, exiting, phase, alive>>

ExitNextLoop ==
  /\ \/ InExit("producers") /\ i >= Len(producers) /\ phase' = "consumers"
     \/ InExit("consumers") /\ i >= Len(consumers) /\ phase' = "cond_producer"
  /\ i' = 0
  /\ UNCHANGED <<queue, mutex, conditions, pc, msg, threads, exiting, alive>>

(* pthread_cond_destroy blocks while a thread sleeps on the condition.     *)
DestroyCondition ==
  /\ \/ /\ InExit("cond_producer") /\ {x \in waiting : pc[x] = "p_test"} = {}
        /\ phase' = "cond_consumer"
     \/ /\ InExit("cond_consumer") /\ {x \in waiting : pc[x] = "c_test"} = {}
        /\ phase' = "unlock"
  /\ UNCHANGED <<queue, mutex, conditions, pc, msg, threads, exiting, i, alive>>

(* The handler unlocks the mutex, whoever holds it.                        *)
ExitUnlocks ==
  /\ InExit("unlock") /\ mutex' = Nobody /\ phase' = "mutex"
  /\ UNCHANGED <<queue, conditions, pc, msg, threads, exiting, i, alive>>

(* A mutex unlocked once too often may also refuse to be destroyed.        *)
DestroyMutex ==
  /\ InExit("mutex") /\ phase' = "unlink"
  /\ UNCHANGED mutex \/ (mutex = Nobody /\ mutex' = Destroyed)
  /\ UNCHANGED <<queue, conditions, pc, msg, threads, exiting, i, alive>>

(* The shared memory object goes, and the process ends.                    *)
ExitEnds == InExit("unlink") /\ ProcessEnds

-----------------------------------------------------------------------------
(* The commands of the main thread.                                        *)

AtUI == Executes(Main) /\ pc[Main] = "ui"

Start(t, first) ==
  /\ AtUI /\ pc[t] = "unborn"
  /\ pc' = [pc EXCEPT ![t] = first] /\ running' = running \cup {t}
  /\ UNCHANGED <<queue, mutex, conditions, msg, cancelled, target, exitVars>>

CreateProducer(t) ==
  /\ Len(producers) # CHILD_MAX - 1 /\ Start(t, "p_produce")
  /\ producers' = Append(producers, t) /\ UNCHANGED consumers
CreateConsumer(t) ==
  /\ Len(consumers) # CHILD_MAX - 1 /\ Start(t, "c_lock")
  /\ consumers' = Append(consumers, t) /\ UNCHANGED producers

UserRemoves ==
  /\ AtUI
  /\ \/ producers # <<>> /\ RemoveProducer(Main)
     \/ consumers # <<>> /\ RemoveConsumer(Main)
  /\ UNCHANGED <<queue, mutex, conditions, pc, msg, running, exitVars>>

(* '-' looks at message_amount without the mutex. *)
UserGets ==
  /\ AtUI /\ queue.message_amount # 0
  /\ Step(Main, "ui", "c_lock")
  /\ UNCHANGED <<queue, mutex, conditions, msg>>

Info == AtUI /\ Step(Main, "ui", "i_lock") /\ UNCHANGED <<queue, mutex, conditions, msg>>

(* '7', end of input, or pthread_create failed. *)
Quit == AtUI /\ Exit(Main)

Takes(x) == Lock(x) \/ Relock(x) \/ (x \in Threads /\ DieWithMutex(x))
Runs(x) ==
  \/ (x \in Threads /\ Produce(x)) \/ Unlock(x) \/ CondWait(x) \/ AddMsg(x)
  \/ GetMsg(x) \/ RaceForBuffer(x) \/ Crash(x) \/ CallExit(x) \/ Join(x)
  \/ (x \in Threads /\ (Consume(x) \/ ActOnCancel(x) \/ CancelWait(x)))
AtExit ==
  \/ ExitRemoves \/ ExitNextLoop \/ DestroyCondition
  \/ ExitUnlocks \/ DestroyMutex \/ ExitEnds

Next ==
  \/ \E x \in Actors : Takes(x) \/ Runs(x) \/ SpuriousWakeup(x)
  \/ \E t \in Threads : CreateProducer(t) \/ CreateConsumer(t)
  \/ Produce(Main) \/ UserRemoves \/ UserGets \/ Info \/ Quit \/ AtExit

(* Every thread that can run runs, and one that wants the mutex gets it if *)
(* it is released again and again: workers sleep for seconds in between.   *)
Fairness ==
  /\ \A x \in Actors : WF_vars(Runs(x)) /\ SF_vars(Takes(x))
  /\ WF_vars(AtExit)

Spec == Init /\ [][Next]_vars /\ Fairness

-----------------------------------------------------------------------------
(* Properties.                                                             *)

(* The mutex is with a worker that was cancelled in pthread_cond_wait or   *)
(* in the report of an overflow, or with an actor in exit().               *)
MutexLost == mutex \in (Threads \ running) \cup ({exiting} \ {Nobody})

(* An actor between pthread_mutex_lock and pthread_mutex_unlock, and not   *)
(* in pthread_cond_wait, holds the mutex: also after pthread_cond_wait     *)
(* returned, whatever was cancelled meanwhile, and while atexit_handler    *)
(* removes half of the workers and destroys the conditions under the rest. *)
(* It then unlocks the mutex another worker may hold: the time from there  *)
(* to the end of the process is excepted.                                  *)
MutualExclusion ==
  ~Unguarded => \A x \in Actors \ (waiting \cup woken \cup dying) :
    pc[x] \in {"p_test", "p_unlock", "c_test", "c_unlock", "i_unlock"} => mutex = x

(* No wakeup is lost: while a consumer sleeps, every message in the buffer *)
(* is matched by a consumer that was woken, or already looks at it.  Holds *)
(* although a sleeping consumer may be cancelled at any time, until        *)
(* atexit_handler unlocks the mutex.                                       *)
NoLostWakeup == ~Unguarded =>
  LET At(S) == {x \in S : pc[x] = "c_test"}
      awake == (running \cup {Main}) \ (waiting \cup dying) IN
  At(waiting) # {} => queue.message_amount <= Cardinality(At(awake))

(* pthread_join in remove_* returns, unless the mutex is lost.             *)
JoinReturnsUnlessLost ==
  target[Main] # Nobody ~> target[Main] = Nobody \/ MutexLost \/ ~alive

(* "terminate thread", "wait terminating": the thread that the user's      *)
(* remove_producer cancels ends.                                           *)
RemovedProducerEnds ==
  target[Main] # Nobody /\ pc[target[Main]] \in ProducerPC
    ~> target[Main] = Nobody \/ ~alive

(* "ring buffer of messages": the slot add_msg stores to is one of the     *)
(* MSG_MAX slots of the buffer.                                            *)
RingBuffer ==
  \A x \in Actors : pc[x] = "p_test" /\ mutex = x /\ ~Overflows => queue.head < MSG_MAX

(* As long as the buffer lasts it implements the bounded FIFO; it never    *)
(* holds more than MSG_MAX - 1 messages.  The race of the last moments,    *)
(* once atexit_handler has unlocked the mutex, is not followed.            *)
Contents == [k \in 1 .. queue.message_amount |-> queue.buffer[queue.tail + k - 1]]
Fifo == INSTANCE BoundedFifo
          WITH fifo <- Contents, epoch <- 0, Capacity <- MSG_MAX - 1
ImplementsFifo == Fifo!Spec
=============================================================================
