---------------------------- MODULE ProcessQueue ----------------------------
(***************************************************************************)
(* LAB_4: a parent process forks producer and consumer processes that      *)
(* exchange messages through a ring in POSIX shared memory, guarded by     *)
(* three named semaphores.  The parent removes a child with SIGKILL, at    *)
(* whatever point the child has reached.                                   *)
(***************************************************************************)
EXTENDS MsgQueue, Integers, FiniteSets, SequencesExt

CONSTANTS
  Pids,       (* process identifiers fork() may return                     *)
  Parent,     (* the parent process                                        *)
  CHILD_MAX,  (* length of producers[] and of consumers[]                  *)
  MaxAdds,    (* bound: no new message is produced once add_count is this  *)
  MaxBoots    (* bound: how often the program is started                   *)

ASSUME ProcessAssumption ==
  /\ IsFiniteSet(Pids) /\ Parent \notin Pids
  /\ CHILD_MAX \in Nat /\ CHILD_MAX > 1
  /\ MaxAdds \in Nat /\ MaxBoots \in Nat

VARIABLES
  queue,      (* the msg_queue in shared memory                            *)
  sem,        (* value of each named semaphore                             *)
  names,      (* shared memory object and semaphores that have a name      *)
  fresh,      (* did init() create all three semaphores?                   *)
  boots,      (* starts of the program so far                              *)
  pc,         (* where each child is; kept when it dies                    *)
  msg,        (* msg_t local to each child                                 *)
  running,    (* children that have not ended                              *)
  zombies,    (* children that ended and were not waited for               *)
  doomed,     (* processes a SIGKILL is on its way to                      *)
  unwind,     (* step of atexit_handler in a process that called exit()    *)
  parent,     (* where the parent is                                       *)
  producers, consumers,  (* the arrays, up to their amounts                *)
  victims     (* children the parent's atexit_handler has yet to kill      *)

childVars == <<pc, msg, running, zombies, doomed>>
arrays == <<producers, consumers>>
ipc == <<queue, sem, names, fresh, boots>>
vars == <<ipc, childVars, unwind, parent, arrays, victims>>

Sems == {"mutex", "free_space", "items"}
InitialCount ==
  [n \in Sems |-> CASE n = "mutex" -> 1 [] n = "free_space" -> MSG_MAX
                    [] n = "items" -> 0]

(* atexit_handler unlinks in this order and aborts at the first failure. *)
UnlinkOrder == <<"shm", "mutex", "free_space", "items">>

(* unwind[x]: NotExiting, then 0 (kill the parent), then an index of       *)
(* UnlinkOrder.                                                            *)
NotExiting == -1

ProducerPC ==
  {"p_produce", "p_free", "p_lock", "p_put", "p_copied", "p_moved", "p_counted",
   "p_unlock", "p_post"}
ConsumerPC ==
  {"c_items", "c_lock", "c_get", "c_copied", "c_moved", "c_counted", "c_unlock",
   "c_post", "c_consume"}
ParentGone == {"exited", "killed", "down"}
ParentPC == {"ui", "ui_wait", "ex_kill", "ex_wait", "ex_unlink"} \cup ParentGone

TypeOK ==
  /\ queue \in QueueType
  /\ sem \in [Sems -> Nat]
  /\ names \subseteq Range(UnlinkOrder)
  /\ fresh \in BOOLEAN /\ boots \in Nat
  /\ pc \in [Pids -> ProducerPC \cup ConsumerPC \cup {"unborn"}]
  /\ msg \in [Pids -> Msgs \cup {NoMsg, Torn}]
  /\ running \subseteq Pids /\ zombies \subseteq Pids
  /\ doomed \subseteq Pids \cup {Parent}
  /\ unwind \in [Pids \cup {Parent} -> NotExiting .. 4]
  /\ parent \in ParentPC
  /\ producers \in Seq(Pids) /\ consumers \in Seq(Pids)
  /\ victims \in Seq(Pids)

Idle(p) == pc[p] = "unborn"

Init ==
  /\ queue = EmptyQueue /\ sem = InitialCount
  /\ names = Range(UnlinkOrder) /\ fresh = TRUE /\ boots = 1
  /\ pc = [p \in Pids |-> "unborn"] /\ msg = [p \in Pids |-> NoMsg]
  /\ running = {} /\ zombies = {} /\ doomed = {}
  /\ unwind = [x \in Pids \cup {Parent} |-> NotExiting]
  /\ parent = "ui" /\ producers = <<>> /\ consumers = <<>> /\ victims = <<>>

-----------------------------------------------------------------------------
(* Children.                                                               *)

Step(p, from, to) ==
  /\ p \in running /\ unwind[p] = NotExiting /\ pc[p] = from
  /\ pc' = [pc EXCEPT ![p] = to]
  /\ UNCHANGED <<names, fresh, boots, running, zombies, doomed, unwind,
                 parent, arrays, victims>>

SemWait(n) == sem[n] > 0 /\ sem' = [sem EXCEPT ![n] = @ - 1]
SemPost(n) == sem' = [sem EXCEPT ![n] = @ + 1]

SemWaitStep(p, from, n, to) ==
  Step(p, from, to) /\ SemWait(n) /\ UNCHANGED <<queue, msg>>
SemPostStep(p, from, n, to) ==
  Step(p, from, to) /\ SemPost(n) /\ UNCHANGED <<queue, msg>>

Produce(p) ==
  /\ queue.add_count < MaxAdds
  /\ Step(p, "p_produce", "p_free")
  /\ \E m \in Msgs : msg' = [msg EXCEPT ![p] = m]
  /\ UNCHANGED <<queue, sem>>

WaitFree(p) == SemWaitStep(p, "p_free", "free_space", "p_lock")
(* Bug: a producer does not take the mutex. *)
PutWithoutLock(p) == Step(p, "p_lock", "p_put") /\ UNCHANGED <<queue, sem, msg>>

LockToPut(p) == SemWaitStep(p, "p_lock", "mutex", "p_put")

BeginPut(p) ==
  /\ ~PutOverflows(queue)
  /\ Step(p, "p_put", "p_copied")
  /\ queue' = PutCopy(queue)
  /\ UNCHANGED <<sem, msg>>

(* A SIGKILL may strike between any two of the updates of put_msg. *)
MoveHead(p) ==
  /\ Step(p, "p_copied", "p_moved")
  /\ queue' = PutMove(queue, msg[p])
  /\ UNCHANGED <<sem, msg>>

CountPut(p) ==
  /\ Step(p, "p_moved", "p_counted")
  /\ queue' = PutCount(queue)
  /\ UNCHANGED <<sem, msg>>

EndPut(p) ==
  /\ Step(p, "p_counted", "p_unlock")
  /\ queue' = PutAdd(queue)
  /\ msg' = [msg EXCEPT ![p] = NoMsg]
  /\ UNCHANGED sem

UnlockAfterPut(p) == SemPostStep(p, "p_unlock", "mutex", "p_post")
(* Bug: a producer posts before it knows its message is in, and after.     *)
PostItemTwice(p) ==
  /\ Step(p, "p_post", "p_produce")
  /\ sem' = [sem EXCEPT !["items"] = @ + 2] /\ UNCHANGED <<queue, msg>>

PostItem(p) == SemPostStep(p, "p_post", "items", "p_produce")

(* Bug: a consumer does not wait for an item. *)
GetWithoutItem(p) == Step(p, "c_items", "c_lock") /\ UNCHANGED <<queue, sem, msg>>

WaitItem(p) == SemWaitStep(p, "c_items", "items", "c_lock")
(* Bug: a consumer does not take the mutex. *)
GetWithoutLock(p) == Step(p, "c_lock", "c_get") /\ UNCHANGED <<queue, sem, msg>>

LockToGet(p) == SemWaitStep(p, "c_lock", "mutex", "c_get")

BeginGet(p) ==
  /\ ~GetUnderflows(queue)
  /\ Step(p, "c_get", "c_copied")
  /\ msg' = [msg EXCEPT ![p] = TailMsg(queue)]
  /\ queue' = GetCopy(queue)
  /\ UNCHANGED sem

MoveTail(p) ==
  /\ Step(p, "c_copied", "c_moved")
  /\ queue' = GetMove(queue)
  /\ UNCHANGED <<sem, msg>>

CountGet(p) ==
  /\ Step(p, "c_moved", "c_counted")
  /\ queue' = GetCount(queue)
  /\ UNCHANGED <<sem, msg>>

EndGet(p) ==
  /\ Step(p, "c_counted", "c_unlock")
  /\ queue' = GetExtract(queue)
  /\ UNCHANGED <<sem, msg>>

UnlockAfterGet(p) == SemPostStep(p, "c_unlock", "mutex", "c_post")
(* Bug: a consumer posts the wrong semaphore. *)
PostItemForFree(p) == SemPostStep(p, "c_post", "items", "c_consume")

PostFree(p) == SemPostStep(p, "c_post", "free_space", "c_consume")

Consume(p) ==
  /\ Step(p, "c_consume", "c_items")
  /\ msg' = [msg EXCEPT ![p] = NoMsg]
  /\ UNCHANGED <<queue, sem>>

(* Bug: the mutex is released before exit(). *)
UnlockAndExit(p) ==
  /\ p \in running /\ unwind[p] = NotExiting
  /\ \/ pc[p] = "p_put" /\ PutOverflows(queue)
     \/ pc[p] = "c_get" /\ GetUnderflows(queue)
  /\ unwind' = [unwind EXCEPT ![p] = 0] /\ SemPost("mutex")
  /\ UNCHANGED <<queue, names, fresh, boots, childVars, parent, arrays, victims>>

(* The overflow test of put_msg or the underflow test of get_msg calls     *)
(* exit(): the child runs the atexit_handler it inherited from its parent, *)
(* still holding the mutex.                                                *)
CallExit(p) ==
  /\ p \in running /\ unwind[p] = NotExiting
  /\ \/ pc[p] = "p_put" /\ PutOverflows(queue)
     \/ pc[p] = "c_get" /\ GetUnderflows(queue)
  /\ unwind' = [unwind EXCEPT ![p] = 0]
  /\ UNCHANGED <<ipc, childVars, parent, arrays, victims>>

(* getppid() = parent_pid while the parent lives. *)
KillParent(p) ==
  /\ p \in running /\ unwind[p] = 0
  /\ doomed' = IF parent \in ParentGone THEN doomed ELSE doomed \cup {Parent}
  /\ unwind' = [unwind EXCEPT ![p] = 1]
  /\ UNCHANGED <<ipc, pc, msg, running, zombies, parent, arrays, victims>>

(* One shm_unlink or sem_unlink by process x. *)
Unlinks(x) ==
  /\ unwind[x] \in 1 .. 4
  /\ names' = names \ {UnlinkOrder[unwind[x]]}
  /\ UNCHANGED <<queue, sem, fresh, boots, pc, msg, doomed, arrays, victims>>

(* Does x end with this unlink: it was the last one, or it failed?         *)
LastUnlink(x) == unwind[x] = 4 \/ UnlinkOrder[unwind[x]] \notin names

UnlinkInChild(p) ==
  /\ p \in running /\ Unlinks(p)
  /\ IF LastUnlink(p)
     THEN running' = running \ {p} /\ zombies' = zombies \cup {p}
          /\ UNCHANGED unwind
     ELSE unwind' = [unwind EXCEPT ![p] = @ + 1] /\ UNCHANGED <<running, zombies>>
  /\ UNCHANGED parent

(* SIGKILL reaches a child. *)
Die(p) ==
  /\ p \in doomed \cap running
  /\ running' = running \ {p} /\ zombies' = zombies \cup {p}
  /\ UNCHANGED <<ipc, pc, msg, doomed, unwind, parent, arrays, victims>>

-----------------------------------------------------------------------------
(* The parent: main, create_*, remove_*, atexit_handler, init.             *)

Fork(p, first) ==
  /\ parent = "ui" /\ Idle(p)
  /\ pc' = [pc EXCEPT ![p] = first]
  /\ running' = running \cup {p}
  /\ UNCHANGED <<ipc, msg, zombies, doomed, unwind, parent, victims>>

CreateProducer(p) ==
  /\ Len(producers) # CHILD_MAX - 1
  /\ Fork(p, "p_produce")
  /\ producers' = Append(producers, p) /\ UNCHANGED consumers

CreateConsumer(p) ==
  /\ Len(consumers) # CHILD_MAX - 1
  /\ Fork(p, "c_items")
  /\ consumers' = Append(consumers, p) /\ UNCHANGED producers

(* Bug: the child is waited for but not killed. *)
KillNobody(p) == p \in Pids /\ UNCHANGED doomed

Kill(p) == doomed' = doomed \cup {p}

RemoveLast(array) ==
  /\ parent = "ui" /\ array # <<>>
  /\ Kill(Last(array))
  /\ parent' = "ui_wait"
  /\ UNCHANGED <<ipc, pc, msg, running, zombies, unwind, victims>>

RemoveProducer ==
  RemoveLast(producers) /\ producers' = Front(producers) /\ UNCHANGED consumers
RemoveConsumer ==
  RemoveLast(consumers) /\ consumers' = Front(consumers) /\ UNCHANGED producers

(* Bug: the parent does not wait, as with WNOHANG. *)
DoNotWait == UNCHANGED zombies

(* wait(NULL) reaps any one child, or fails at once if there is none. *)
Wait ==
  \/ \E z \in zombies : zombies' = zombies \ {z}
  \/ running \cup zombies = {} /\ UNCHANGED zombies

WaitAfterRemove ==
  /\ parent = "ui_wait" /\ Wait
  /\ parent' = "ui"
  /\ UNCHANGED <<ipc, pc, msg, running, doomed, unwind, arrays, victims>>

(* 'q', end of input, or a failed fork(): exit().                          *)
Quit ==
  /\ parent = "ui"
  /\ parent' = "ex_kill" /\ victims' = producers \o consumers
  /\ UNCHANGED <<ipc, childVars, unwind, arrays>>

KillVictim ==
  /\ parent = "ex_kill" /\ victims # <<>>
  /\ Kill(Head(victims)) /\ victims' = Tail(victims)
  /\ parent' = "ex_wait"
  /\ UNCHANGED <<ipc, pc, msg, running, zombies, unwind, arrays>>

WaitVictim ==
  /\ parent = "ex_wait" /\ Wait
  /\ parent' = "ex_kill"
  /\ UNCHANGED <<ipc, pc, msg, running, doomed, unwind, arrays, victims>>

AllVictimsKilled ==
  /\ parent = "ex_kill" /\ victims = <<>>
  /\ parent' = "ex_unlink" /\ unwind' = [unwind EXCEPT ![Parent] = 1]
  /\ UNCHANGED <<ipc, childVars, arrays, victims>>

UnlinkInParent ==
  /\ parent = "ex_unlink" /\ Unlinks(Parent)
  /\ IF LastUnlink(Parent)
     THEN parent' = "exited" /\ UNCHANGED unwind
     ELSE unwind' = [unwind EXCEPT ![Parent] = @ + 1] /\ UNCHANGED parent
  /\ UNCHANGED <<running, zombies>>

(* The SIGKILL sent by a child in CallExit reaches the parent. *)
ParentDies ==
  /\ Parent \in doomed /\ parent \notin ParentGone
  /\ parent' = "killed"
  /\ UNCHANGED <<ipc, childVars, unwind, arrays, victims>>

(* Ctrl-C: SIGINT has its default action in every process of the terminal, *)
(* none of which runs atexit_handler.                                      *)
Interrupt ==
  /\ parent \notin ParentGone
  /\ parent' = "down" /\ running' = {} /\ zombies' = {}
  /\ UNCHANGED <<ipc, pc, msg, doomed, unwind, arrays, victims>>

(* The program is started again.  shm_open truncates and msg_queue_init    *)
(* clears the ring, but sem_open without O_EXCL opens a semaphore that     *)
(* still has its name with the value it was left at.  Orphans of the last  *)
(* run keep the old objects, which no longer have a name: they are         *)
(* forgotten here.                                                         *)
Restart ==
  /\ parent \in ParentGone /\ boots < MaxBoots
  /\ running = {} \/ names = {}
  /\ boots' = boots + 1
  /\ queue' = EmptyQueue
  /\ sem' = [n \in Sems |-> IF n \in names THEN sem[n] ELSE InitialCount[n]]
  /\ fresh' = (names \cap Sems = {})
  /\ names' = Range(UnlinkOrder)
  /\ pc' = [p \in Pids |-> "unborn"] /\ msg' = [p \in Pids |-> NoMsg]
  /\ running' = {} /\ zombies' = {} /\ doomed' = {}
  /\ unwind' = [x \in Pids \cup {Parent} |-> NotExiting]
  /\ parent' = "ui" /\ producers' = <<>> /\ consumers' = <<>>
  /\ victims' = <<>>

ChildStep(p) ==
  \/ Produce(p) \/ WaitFree(p) \/ LockToPut(p) \/ BeginPut(p)
  \/ MoveHead(p) \/ CountPut(p) \/ EndPut(p) \/ UnlockAfterPut(p) \/ PostItem(p)
  \/ WaitItem(p) \/ LockToGet(p) \/ BeginGet(p)
  \/ MoveTail(p) \/ CountGet(p) \/ EndGet(p) \/ UnlockAfterGet(p) \/ PostFree(p) \/ Consume(p)
  \/ CallExit(p) \/ KillParent(p) \/ UnlinkInChild(p)

ExitStep == KillVictim \/ WaitVictim \/ AllVictimsKilled \/ UnlinkInParent

Next ==
  \/ \E p \in Pids : ChildStep(p) \/ Die(p) \/ CreateProducer(p) \/ CreateConsumer(p)
  \/ RemoveProducer \/ RemoveConsumer \/ WaitAfterRemove
  \/ Quit \/ ExitStep \/ ParentDies \/ Interrupt \/ Restart

(* The kernel delivers a SIGKILL and runs a parent that is not blocked. *)
Fairness ==
  /\ \A p \in Pids : WF_vars(Die(p))
  /\ WF_vars(WaitAfterRemove) /\ WF_vars(ExitStep) /\ WF_vars(ParentDies)

Spec == Init /\ [][Next]_vars /\ Fairness

-----------------------------------------------------------------------------
(* Properties.                                                             *)

At(labels) == {p \in Pids : pc[p] \in labels}

InCritical ==
  {"p_put", "p_copied", "p_moved", "p_counted", "p_unlock",
   "c_get", "c_copied", "c_moved", "c_counted", "c_unlock"}

(* The semaphore "mutex" does its work: between its sem_wait and sem_post  *)
(* in create_producer and create_consumer there is at most one child, dead *)
(* ones included (a child killed there keeps the semaphore), and the       *)
(* semaphore is 0 meanwhile, whatever was left by earlier runs.            *)
MutualExclusion ==
  /\ sem["mutex"] <= 1
  /\ \A p \in At(InCritical) : sem["mutex"] = 0 /\ At(InCritical) = {p}

(* Where msg_amount does, or does not yet, count the child's message. *)
SlotClaimed == {"p_lock", "p_put", "p_copied", "p_moved"}
ItemPending == {"p_counted", "p_unlock", "p_post"}
ItemClaimed == {"c_lock", "c_get", "c_copied", "c_moved"}
SlotPending == {"c_counted", "c_unlock", "c_post"}

(* free_space counts the slots neither filled nor claimed by a child       *)
(* between its sem_wait and its sem_post; a killed child keeps its claim   *)
(* for ever.  Holds when init() created the semaphores.                    *)
SlotAccounting ==
  fresh => sem["free_space"] + Cardinality(At(SlotClaimed)) + queue.msg_amount
             + Cardinality(At(SlotPending)) = MSG_MAX

(* items counts the messages in the ring that no consumer has claimed and  *)
(* whose producer has posted them.                                         *)
ItemAccounting ==
  fresh => sem["items"] + Cardinality(At(ItemClaimed))
             + Cardinality(At(ItemPending)) = queue.msg_amount

(* The underflow test of get_msg never fires in a run whose init() created *)
(* the semaphores, however many children were killed.                      *)
NoUnderflow ==
  fresh => \A p \in At({"c_get"}) : ~GetUnderflows(queue)

HasMessage ==
  {"c_copied", "c_moved", "c_counted", "c_unlock", "c_post", "c_consume"}

(* A consumer copies out the oldest message of the ring, complete: the     *)
(* check_sum test of consume_msg never reports a mismatch.                 *)
DeliversOldest ==
  /\ \A p \in At({"c_copied"}) : msg[p] = Contents(queue)[1]
  /\ \A p \in At(HasMessage) : msg[p] \in Msgs

(* The indices and the counters describe the same ring, with one slot      *)
(* free, but for what the one child inside put_msg or get_msg has still to *)
(* update.  If a SIGKILL finds it there they differ by one for good, and   *)
(* never by more: nobody gets in behind the dead child.                    *)
RingConsistent ==
  /\ Held(queue) < MSG_MAX
  /\ Held(queue) + Cardinality(At({"c_moved"}))
       = queue.msg_amount + Cardinality(At({"p_moved"}))
  /\ queue.msg_amount + queue.extract_count + Cardinality(At({"c_counted"}))
       = queue.add_count + Cardinality(At({"p_counted"}))

(* When the parent's atexit_handler has finished, every child has ended,   *)
(* although each wait(NULL) may have reaped another child than the one     *)
(* killed just before it.                                                  *)
ExitLeavesNoChild == parent = "exited" => running = {}

(* exit() inside put_msg or get_msg keeps the mutex: from then on nobody   *)
(* changes the ring until the program is started again.                    *)
ExitFreezesQueue ==
  [][(\E p \in Pids : unwind[p] # NotExiting) => queue' = queue \/ Restart]_vars

(* remove_* and the parent's exit never block for ever in wait(NULL).      *)
ParentReturns ==
  parent \notin ParentGone \cup {"ui"} ~> parent \in ParentGone \cup {"ui"}

(* The overflow test of put_msg ("Queue buffer overflow") reports a state  *)
(* that the semaphore free_space is there to exclude.                      *)
NoOverflow == fresh => \A p \in At({"p_put"}) : ~PutOverflows(queue)

(* The ring implements the bounded FIFO, with one slot less than MSG_MAX,  *)
(* even when the semaphores were left over from a crashed run.             *)
Fifo == INSTANCE BoundedFifo
          WITH fifo <- Contents(queue), epoch <- boots, Capacity <- MSG_MAX - 1
ImplementsFifo == Fifo!Spec
=============================================================================
