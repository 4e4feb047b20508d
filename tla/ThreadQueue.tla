---------------------------- MODULE ThreadQueue -----------------------------
(***************************************************************************)
(* LAB_5: the producers and consumers of LAB_4 as threads.  The ring is a  *)
(* global, a pthread mutex guards it, two named semaphores count its free  *)
(* slots and its messages.  The main thread removes a worker with          *)
(* pthread_cancel and joins it; cancellation is deferred, so the worker    *)
(* ends only at its next cancellation point.                               *)
(***************************************************************************)
EXTENDS MsgQueue, Integers, FiniteSets, SequencesExt

CONSTANTS
  Threads,    (* identifiers pthread_create may return                     *)
  Main,       (* the main thread                                           *)
  Nobody,     (* no thread                                                 *)
  Destroyed,  (* the mutex after pthread_mutex_destroy                     *)
  CHILD_MAX,  (* length of producers[] and of consumers[]                  *)
  MaxAdds,    (* bound: no new message is produced once add_count is this  *)
  MaxBoots    (* bound: how often the program is started                   *)

ASSUME ThreadAssumption ==
  /\ IsFiniteSet(Threads)
  /\ Main \notin Threads /\ Nobody \notin Threads \cup {Main}
  /\ Destroyed \notin Threads \cup {Main, Nobody}
  /\ CHILD_MAX \in Nat /\ CHILD_MAX > 1
  /\ MaxAdds \in Nat /\ MaxBoots \in Nat

VARIABLES
  queue,      (* the global msg_queue                                      *)
  mutex,      (* owner of the pthread mutex, Nobody, or Destroyed          *)
  sem,        (* value of each named semaphore                             *)
  names,      (* semaphores that have a name                               *)
  fresh,      (* did init() create both semaphores?                        *)
  boots,      (* starts of the program so far                              *)
  pc,         (* where each worker is; kept when it ends                   *)
  msg,        (* msg_t local to each worker                                *)
  running,    (* workers that have not ended                               *)
  cancelled,  (* workers with a cancellation request                       *)
  main,       (* "ui", "join", or "down" when there is no process          *)
  target,     (* the worker the main thread joins                          *)
  producers, consumers,  (* the arrays, up to their amounts                *)
  exiting,    (* the thread that called exit()                             *)
  unwind      (* its next step in atexit_handler                           *)

workerVars == <<pc, msg, running>>
arrays == <<producers, consumers>>
mainVars == <<main, target, arrays, cancelled>>
exitVars == <<exiting, unwind>>
system == <<names, fresh, boots>>
vars == <<queue, mutex, sem, system, workerVars, mainVars, exitVars>>

Sems == {"free_space", "items"}
InitialCount == [n \in Sems |-> IF n = "free_space" THEN MSG_MAX ELSE 0]

ProducerPC ==
  {"p_produce", "p_free", "p_lock", "p_put", "p_copied", "p_unlock", "p_post"}
ConsumerPC ==
  {"c_items", "c_lock", "c_get", "c_copied", "c_unlock", "c_post", "c_consume"}

TypeOK ==
  /\ queue \in QueueType
  /\ mutex \in Threads \cup {Nobody, Destroyed}
  /\ sem \in [Sems -> Nat] /\ names \subseteq Sems
  /\ fresh \in BOOLEAN /\ boots \in Nat
  /\ pc \in [Threads -> ProducerPC \cup ConsumerPC \cup {"unborn"}]
  /\ msg \in [Threads -> Msgs \cup {NoMsg, Torn}]
  /\ running \subseteq Threads /\ cancelled \subseteq Threads
  /\ main \in {"ui", "join", "down"} /\ target \in Threads \cup {Nobody}
  /\ producers \in Seq(Threads) /\ consumers \in Seq(Threads)
  /\ exiting \in Threads \cup {Main, Nobody}
  /\ unwind \in {"destroy", "free_space", "items"}

(* A new process after init(); the semaphores are left to Init and Restart. *)
NewProcess(q, m, p, l, r, c, w, t, ps, cs, x, u) ==
  /\ q = EmptyQueue /\ m = Nobody
  /\ p = [i \in Threads |-> "unborn"] /\ l = [i \in Threads |-> NoMsg]
  /\ r = {} /\ c = {} /\ w = "ui" /\ t = Nobody /\ ps = <<>> /\ cs = <<>>
  /\ x = Nobody /\ u = "destroy"

Init ==
  /\ NewProcess(queue, mutex, pc, msg, running, cancelled, main, target,
                producers, consumers, exiting, unwind)
  /\ sem = InitialCount /\ names = Sems /\ fresh = TRUE /\ boots = 1

-----------------------------------------------------------------------------
(* Workers: produce_handler and consume_handler.                           *)

Step(t, from, to) ==
  /\ t \in running /\ t # exiting /\ pc[t] = from
  /\ pc' = [pc EXCEPT ![t] = to]
  /\ UNCHANGED <<system, running, mainVars, exitVars>>

SemWaitStep(t, from, n, to) ==
  /\ Step(t, from, to) /\ sem[n] > 0 /\ sem' = [sem EXCEPT ![n] = @ - 1]
  /\ UNCHANGED <<queue, mutex, msg>>
SemPostStep(t, from, n, to) ==
  /\ Step(t, from, to) /\ sem' = [sem EXCEPT ![n] = @ + 1]
  /\ UNCHANGED <<queue, mutex, msg>>

(* pthread_mutex_lock and pthread_mutex_unlock return an error once the    *)
(* mutex is destroyed.  Nobody looks: the worker goes on without it.       *)
LockStep(t, from, to) ==
  /\ Step(t, from, to)
  /\ \/ mutex = Nobody /\ mutex' = t
     \/ mutex = Destroyed /\ UNCHANGED mutex
  /\ UNCHANGED <<queue, sem, msg>>
UnlockStep(t, from, to) ==
  /\ Step(t, from, to)
  /\ mutex' = IF mutex = Destroyed THEN Destroyed ELSE Nobody
  /\ UNCHANGED <<queue, sem, msg>>

(* printf, sleep and then sem_wait are cancellation points: a worker with  *)
(* a cancellation request does not come past them, unless the request      *)
(* arrived while it was in sem_wait.                                       *)
Produce(t) ==
  /\ t \notin cancelled /\ queue.add_count < MaxAdds
  /\ Step(t, "p_produce", "p_free")
  /\ \E m \in Msgs : msg' = [msg EXCEPT ![t] = m]
  /\ UNCHANGED <<queue, mutex, sem>>

WaitFree(t) == SemWaitStep(t, "p_free", "free_space", "p_lock")
(* Bug: a producer does not take the mutex. *)
PutWithoutLock(t) ==
  Step(t, "p_lock", "p_put") /\ UNCHANGED <<queue, mutex, sem, msg>>

LockToPut(t) == LockStep(t, "p_lock", "p_put")

BeginPut(t) ==
  /\ mutex # Destroyed /\ ~PutOverflows(queue)
  /\ Step(t, "p_put", "p_copied")
  /\ queue' = PutCopy(queue)
  /\ UNCHANGED <<mutex, sem, msg>>

EndPut(t) ==
  /\ mutex # Destroyed
  /\ Step(t, "p_copied", "p_unlock")
  /\ queue' = PutCommit(queue, msg[t]) /\ msg' = [msg EXCEPT ![t] = NoMsg]
  /\ UNCHANGED <<mutex, sem>>

UnlockAfterPut(t) == UnlockStep(t, "p_unlock", "p_post")
PostItem(t) == SemPostStep(t, "p_post", "items", "p_produce")

WaitItem(t) == SemWaitStep(t, "c_items", "items", "c_lock")
LockToGet(t) == LockStep(t, "c_lock", "c_get")

BeginGet(t) ==
  /\ mutex # Destroyed /\ ~GetUnderflows(queue)
  /\ Step(t, "c_get", "c_copied")
  /\ msg' = [msg EXCEPT ![t] = TailMsg(queue)] /\ queue' = GetCopy(queue)
  /\ UNCHANGED <<mutex, sem>>

EndGet(t) ==
  /\ mutex # Destroyed
  /\ Step(t, "c_copied", "c_unlock")
  /\ queue' = GetCommit(queue)
  /\ UNCHANGED <<mutex, sem, msg>>

UnlockAfterGet(t) == UnlockStep(t, "c_unlock", "c_post")
PostFree(t) == SemPostStep(t, "c_post", "free_space", "c_consume")

Consume(t) ==
  /\ t \notin cancelled
  /\ Step(t, "c_consume", "c_items")
  /\ msg' = [msg EXCEPT ![t] = NoMsg]
  /\ UNCHANGED <<queue, mutex, sem>>

(* Without the mutex the workers race for the ring, which the process is   *)
(* about to lose: what they do to it is not followed, and what they take   *)
(* out of it counts as torn.                                               *)
RaceForRing(t) ==
  /\ mutex = Destroyed
  /\ \/ Step(t, "p_put", "p_copied") /\ UNCHANGED msg
     \/ Step(t, "p_copied", "p_unlock") /\ msg' = [msg EXCEPT ![t] = NoMsg]
     \/ Step(t, "c_get", "c_copied") /\ msg' = [msg EXCEPT ![t] = Torn]
     \/ Step(t, "c_copied", "c_unlock") /\ UNCHANGED msg
  /\ UNCHANGED <<queue, mutex, sem>>

(* Does worker t report an overflow or an underflow?  In the race it may. *)
Reporting(t) ==
  \/ pc[t] = "p_put" /\ (PutOverflows(queue) \/ mutex = Destroyed)
  \/ pc[t] = "c_get" /\ (GetUnderflows(queue) \/ mutex = Destroyed)

(* Bug: asynchronous cancellation. *)
CancelAnywhere(t) ==
  /\ t \in running \cap cancelled /\ t # exiting
  /\ running' = running \ {t}
  /\ UNCHANGED <<queue, mutex, sem, system, pc, msg, mainVars, exitVars>>

(* The cancellation request is acted upon.  fputs is a cancellation point  *)
(* too: in Reporting, and in atexit_handler when the worker that runs it   *)
(* cannot destroy the mutex.  The mutex then stays locked.                 *)
ActOnCancel(t) ==
  /\ t \in running \cap cancelled
  /\ IF t = exiting
     THEN unwind = "destroy" /\ mutex # Nobody
     ELSE pc[t] \in {"p_produce", "p_free", "c_items", "c_consume"} \/ Reporting(t)
  /\ running' = running \ {t}
  /\ UNCHANGED <<queue, mutex, sem, system, pc, msg, mainVars, exitVars>>

-----------------------------------------------------------------------------
(* Process exit: atexit_handler runs in the thread that called exit(),     *)
(* while the others go on.                                                 *)

ProcessEnds ==
  /\ main' = "down" /\ running' = {}
  /\ UNCHANGED <<queue, sem, fresh, boots, pc, msg, target, arrays, cancelled,
                 exitVars>>

(* The first exit() runs atexit_handler, a second one finds no handler     *)
(* left and ends the process.                                              *)
Exit(x) ==
  IF exiting = Nobody
  THEN exiting' = x /\ UNCHANGED <<queue, mutex, sem, system, workerVars,
                                   mainVars, unwind>>
  ELSE ProcessEnds /\ UNCHANGED <<mutex, names>>

CallExit(t) ==
  t \in running /\ t # exiting /\ Reporting(t) /\ Exit(t)

(* The thread in atexit_handler, if it was not cancelled there. *)
Unwinding(step) ==
  /\ exiting \in running \cup {Main} /\ main # "down" /\ unwind = step

(* pthread_mutex_destroy fails on a locked mutex: exit(res) inside the     *)
(* handler, and the semaphores keep their names.                           *)
DestroyMutex ==
  /\ Unwinding("destroy")
  /\ IF mutex = Nobody
     THEN /\ mutex' = Destroyed /\ unwind' = "free_space"
          /\ UNCHANGED <<queue, sem, system, workerVars, mainVars, exiting>>
     ELSE ProcessEnds /\ UNCHANGED <<mutex, names>>

UnlinkFreeSpace ==
  /\ Unwinding("free_space")
  /\ names' = names \ {"free_space"} /\ unwind' = "items"
  /\ UNCHANGED <<queue, mutex, sem, fresh, boots, workerVars, mainVars, exiting>>

UnlinkItems ==
  /\ Unwinding("items")
  /\ names' = names \ {"items"}
  /\ ProcessEnds /\ UNCHANGED mutex

-----------------------------------------------------------------------------
(* The main thread.                                                        *)

AtUI == main = "ui" /\ exiting # Main

Start(t, first) ==
  /\ AtUI /\ pc[t] = "unborn"
  /\ pc' = [pc EXCEPT ![t] = first] /\ running' = running \cup {t}
  /\ UNCHANGED <<queue, mutex, sem, system, msg, main, target, cancelled,
                 exitVars>>

CreateProducer(t) ==
  /\ Len(producers) # CHILD_MAX - 1
  /\ Start(t, "p_produce")
  /\ producers' = Append(producers, t) /\ UNCHANGED consumers

CreateConsumer(t) ==
  /\ Len(consumers) # CHILD_MAX - 1
  /\ Start(t, "c_items")
  /\ consumers' = Append(consumers, t) /\ UNCHANGED producers

(* Bug: join without cancel. *)
JoinOnly(array) ==
  /\ AtUI /\ array # <<>> /\ main' = "join" /\ target' = Last(array)
  /\ UNCHANGED <<queue, mutex, sem, system, workerVars, cancelled, exitVars>>

Cancel(array) ==
  /\ AtUI /\ array # <<>>
  /\ cancelled' = cancelled \cup {Last(array)}
  /\ main' = "join" /\ target' = Last(array)
  /\ UNCHANGED <<queue, mutex, sem, system, workerVars, exitVars>>

RemoveProducer ==
  Cancel(producers) /\ producers' = Front(producers) /\ UNCHANGED consumers
RemoveConsumer ==
  Cancel(consumers) /\ consumers' = Front(consumers) /\ UNCHANGED producers

Join ==
  /\ main = "join" /\ target \notin running
  /\ main' = "ui" /\ target' = Nobody
  /\ UNCHANGED <<queue, mutex, sem, system, workerVars, arrays, cancelled,
                 exitVars>>

(* 'q', end of input, or pthread_create failed. *)
Quit == AtUI /\ Exit(Main)

(* Ctrl-C ends the process without atexit_handler. *)
Interrupt == main # "down" /\ ProcessEnds /\ UNCHANGED <<mutex, names>>

(* sem_open without O_EXCL opens a semaphore that still has its name, with *)
(* the value the last process left it at.                                  *)
Restart ==
  /\ main = "down" /\ boots < MaxBoots
  /\ NewProcess(queue', mutex', pc', msg', running', cancelled', main', target',
                producers', consumers', exiting', unwind')
  /\ sem' = [n \in Sems |-> IF n \in names THEN sem[n] ELSE InitialCount[n]]
  /\ fresh' = (names = {})
  /\ names' = Sems /\ boots' = boots + 1

LockAny(t) == LockToPut(t) \/ LockToGet(t)
WorkerStep(t) ==
  \/ Produce(t) \/ WaitFree(t) \/ BeginPut(t) \/ EndPut(t)
  \/ UnlockAfterPut(t) \/ PostItem(t)
  \/ WaitItem(t) \/ BeginGet(t) \/ EndGet(t)
  \/ UnlockAfterGet(t) \/ PostFree(t) \/ Consume(t)
  \/ ActOnCancel(t) \/ CallExit(t) \/ RaceForRing(t)
AtExit == DestroyMutex \/ UnlinkFreeSpace \/ UnlinkItems

Next ==
  \/ \E t \in Threads : WorkerStep(t) \/ LockAny(t)
                          \/ CreateProducer(t) \/ CreateConsumer(t)
  \/ RemoveProducer \/ RemoveConsumer \/ Join
  \/ Quit \/ AtExit \/ Interrupt \/ Restart

(* Every thread that can run runs.  A worker is waiting for the mutex most *)
(* of the time alone, since the others sleep for seconds between two       *)
(* critical sections: it gets the mutex if it is released again and again. *)
Fairness ==
  /\ \A t \in Threads : WF_vars(WorkerStep(t)) /\ SF_vars(LockAny(t))
  /\ WF_vars(Join) /\ WF_vars(AtExit)

Spec == Init /\ [][Next]_vars /\ Fairness

-----------------------------------------------------------------------------
(* Properties.                                                             *)

At(labels) == {t \in Threads : pc[t] \in labels}
InCritical == {"p_put", "p_copied", "p_unlock", "c_get", "c_copied", "c_unlock"}

(* A worker that was cancelled while it reported an overflow or underflow  *)
(* took the mutex with it.                                                 *)
Abandoned == main # "down" /\ mutex \in Threads \ running

(* A worker between pthread_mutex_lock and pthread_mutex_unlock owns the   *)
(* mutex, also while others are cancelled and while atexit_handler tries   *)
(* to destroy it.  Once it is destroyed nothing keeps the workers apart:   *)
(* that time, up to the end of the process, is excepted.                   *)
MutualExclusion == mutex # Destroyed => \A t \in At(InCritical) : mutex = t

(* Cancellation leaks neither a slot nor a message: the semaphores account *)
(* for the ring and the living workers alone, until a worker is cancelled  *)
(* in the middle of a report or the ring is raced for.  Holds when init()  *)
(* created the semaphores.                                                 *)
CancelLeaksNothing ==
  fresh /\ main # "down" /\ mutex # Destroyed /\ ~Abandoned =>
    LET Living(labels) == Cardinality(running \cap At(labels)) IN
    /\ sem["free_space"] + Living({"p_lock", "p_put", "p_copied"})
         + queue.msg_amount + Living({"c_unlock", "c_post"}) = MSG_MAX
    /\ sem["items"] + Living({"c_lock", "c_get", "c_copied"})
         + Living({"p_unlock", "p_post"}) = queue.msg_amount

(* pthread_join in remove_* returns, or the process ends, unless a worker  *)
(* took the mutex with it.                                                 *)
JoinReturns == main = "join" ~> main # "join" \/ Abandoned

(* The ring implements the bounded FIFO with MSG_MAX - 1 places, as long   *)
(* as the mutex exists; the race after that is not followed.               *)
Fifo == INSTANCE BoundedFifo
          WITH fifo <- Contents(queue), epoch <- boots, Capacity <- MSG_MAX - 1
ImplementsFifo == Fifo!Spec
=============================================================================
