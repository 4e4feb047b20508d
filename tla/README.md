# A verification development for BSUIR_OSaSP

The repository holds eight laboratory programs on operating systems and system
programming. They share no code but two small headers; each is a system of its
own. Six of them coordinate processes, threads or hosts, and that is where the
interesting behaviour is. This directory holds TLA+ modules that model those
programs, TLC configurations that check them on small instances, and proofs,
checked by TLAPS, of what holds for every size.

There are no tests and no design documents in the repository: the reference is
the code with its comments and messages.

## 1. Inventory

| Program | Parts and the state they keep | Interaction | What is hard | Here |
|---|---|---|---|---|
| LAB_1 | directory lister: none beyond the recursion | none | nothing: sequential output | not modelled |
| LAB_2 | parent and child programs: a child counter | fork, execve, wait | one child at a time | not modelled |
| LAB_3 | parent: `child_array`, `amount`; child: `stat`, `alarm_count`, `output_allowed` | `sigqueue` of SIGUSR1/SIGUSR2, SIGALRM, `wait` | signals that coalesce; handlers between any two instructions | `SignalStat` |
| LAB_4 | parent: arrays of children; children; ring `queue` in shared memory; semaphores `mutex`, `free_space`, `items` | semaphores, SIGKILL, `wait`, exit handlers, names that outlive the program | kill inside a critical section, restart on old semaphores | `MsgQueue`, `ProcessQueue` |
| LAB_5 | the same with threads, a pthread mutex and two named semaphores | `pthread_cancel`, `pthread_join`, exit handler beside running threads | where a cancellation takes effect | `MsgQueue`, `ThreadQueue` |
| LAB_6 | sorter: mapped file, `map[]` of busy blocks, `BLOCKS`, `curSize`; threads | a barrier, one mutex | unlocked claims, an index one too far, thread creation that fails | `SortIndex` |
| LAB_6 | generator, printer | files | nothing | not modelled |
| LAB_7/p1 | buffer, mutex, two condition variables, worker arrays | condition variables, cancellation | cancellation in `pthread_cond_wait`, indices that never wrap | `MonitorQueue` |
| LAB_7/p2 | a file of records; per process a copy `record` and its `record_num` | `fcntl` locks | test and set in two calls, stale copies, retries | `RecordFile` |
| LAB_8 | server: a thread per connection, `client_sockets`, `num_clients`; client: two threads and a barrier; discovery on both sides | TCP, multicast datagrams | answers that never come, reads that split or join messages, a signal that ends the server, the client limit | `Discovery`, `CommandSession` |

What makes each part correct:

- **LAB_4, LAB_5 ring**: messages leave in order, whole, once each; indices and
  counters agree; never more than the ring holds. Whatever is killed or
  cancelled, two workers are never in the ring at once, the semaphores account
  for every slot and message, and the main process gets back from `wait` or
  `pthread_join`.
- **LAB_6**: every block is sorted, phases are kept apart, no two threads write
  to one block, the program ends.
- **LAB_7/p1**: as for the ring, and no wakeup is lost.
- **LAB_7/p2**: locks are given back, updates are not lost, retries end.
- **LAB_3**: the parent forgets no child, gets back from `wait`, and a child that
  was stopped soon stops printing; no child outlives the parent for ever.
- **LAB_8**: the client meets the answer of the command it sent, each command and
  the search for the server end, a client's end does not end the server.

The hazards behind these, with the line where each one bites, are listed in
`PROJECT.json`.

## 2. The modules

| Module | Models | Relation to others |
|---|---|---|
| `MsgQueue` | `LAB_4/src/ipc.c`, and `LAB_5/src/ipc.c`, which is the same code | operators on a record; used by the next two |
| `ProcessQueue` | all of LAB_4 | `EXTENDS MsgQueue`, implements `BoundedFifo` |
| `ThreadQueue` | all of LAB_5 | `EXTENDS MsgQueue`, implements `BoundedFifo` |
| `MonitorQueue` | all of LAB_7/p1 | implements `BoundedFifo` |
| `BoundedFifo` | nothing: what the three queues promise | |
| `SortIndex` | `LAB_6/src/sort_index` | |
| `RecordFile` | `LAB_7/p2` | |
| `SignalStat` | all of LAB_3 | |
| `Discovery` | LAB_8: `discovery_server.h`, `discovery_client.h` | an open module: its actions leave the variables of the rest to the module that composes it |
| `CommandSession` | LAB_8: client, server and the command bodies | `EXTENDS Discovery`: the search for the server is the first part of a session |
| `MCProcessQueue`, `MCThreadQueue`, `MCMonitorQueue` | add the symmetry sets for TLC | |
| `MCCommandSession` | says how many commands each client sends | |
| `MsgQueueProofs` | lemmas about the operators of the ring | `EXTENDS MsgQueue` |
| `ProcessQueueProofs` | theorems about LAB_4 | `EXTENDS ProcessQueue`, `MsgQueueProofs` |
| `ThreadQueueProofs` | theorems about LAB_5 | `EXTENDS ThreadQueue`, `MsgQueueProofs` |
| `MonitorQueueProofs` | theorems about LAB_7/p1 | `EXTENDS MonitorQueue` |
| `SortIndexProofs` | theorems about LAB_6 | `EXTENDS SortIndex` |
| `CommandSessionProofs` | theorems about LAB_8 | `EXTENDS CommandSession` |
| `SignalStatProofs` | theorems about LAB_3 | `EXTENDS SignalStat` |
| `RecordFileProofs` | theorems about LAB_7/p2 | `EXTENDS RecordFile` |

### MsgQueue

The queue is a record with the fields of `msg_queue`. `put_msg` and `get_msg`
copy a whole message, then move an index, then two counters. Each of these is an
operator (`PutCopy`, `PutMove`, `PutCount`, `PutAdd`, and the same for `get_msg`), so
that a process can be killed, or meet another one, between any two of them;
`PutCommit` and `GetCommit` are the last three together, for threads, which end at
cancellation points only. During the copy of `put_msg` the slot holds `Torn`. What
the ring contains is decided by its indices (`Held`, `Contents`).
Messages are opaque values: the size, the bytes and the checksum of a message
only matter for whether it is whole.

### ProcessQueue (LAB_4)

`pc[p]` names the next call of child `p` in the loop of `create_producer` or
`create_consumer`, one action per call, and one for each update inside `put_msg`
and `get_msg`: a SIGKILL may fall between `++head`, `++msg_amount` and
`++add_count`. `running`, `zombies` and `doomed` are
what the kernel knows: children that live, ended children nobody waited for,
processes a SIGKILL is on its way to. A killed child stops where it is and its
`pc` stays, as its semaphores do. `unwind[x]` follows `atexit_handler` in a
process that called `exit()`; a child inherits the handler, and there it kills
the parent and unlinks the names. `parent` is where the parent is: the menu,
`wait(NULL)` after a removal, the loops of its exit handler. `Interrupt` is
Ctrl-C, which ends all processes without the handler. `Restart` starts the
program again: `shm_open` and `msg_queue_init` clear the ring, `sem_open`
without `O_EXCL` finds the semaphores that still have a name (`names`), with the
values they were left at; `fresh` says whether all of them are new.

### ThreadQueue (LAB_5)

The loops are those of LAB_4. Cancellation is deferred: a worker with a request
(`cancelled`) acts on it in `printf`, `sleep`, `sem_wait`, or in the `fputs` of an
overflow or underflow report, where it holds the mutex (`ActOnCancel`). `exit()`
runs `atexit_handler` in the calling thread while the others go on; destroying a
locked mutex fails and ends the process with the semaphores still named. After
the mutex is destroyed locking fails unnoticed: the workers walk through the
critical section together (`RaceForRing`), may report an overflow or underflow
there, and the contents of the ring are not followed from then on.

### MonitorQueue (LAB_7/p1)

An actor is a worker or the main thread, whose '+' and '-' run the same code.
`waiting` holds those asleep in `pthread_cond_wait`, `woken` those that left it
and need the mutex, `dying` those that act on a cancellation there: POSIX takes
the mutex again first, and as the code has no cleanup handler they end with it.
Spurious wakeups are an action. `atexit_handler` is followed call by call (`phase`):
the two loops, the destruction of the conditions, then
`pthread_mutex_unlock(&mutex)`, whoever holds it, `pthread_mutex_destroy` and
`shm_unlink`. From that unlock on the workers are not kept apart (`Unguarded`,
`RaceForBuffer`) and the buffer is not followed. `head` and `tail` grow for ever: up
to `Slack` messages behind the buffer are still in the mapped page, after that the
store faults (`Crash`).

### SortIndex (LAB_6)

The data is a partition of each chunk into sorted runs: `size[b]` is the length,
in blocks, of the run that block `b` is in, if that run is known to be sorted and
to hold all the records of its blocks, and 0 if not. `busy` is the map and the
entry behind it, `seg[t]` the blocks thread `t` writes to. `torn` collects the
blocks two threads wrote to at the same time: a `qsort` or `merge` that ends there
leaves nothing known. `strayed` becomes true when a worker tests `BLOCKS` only after
the main thread has reset it for the next chunk and so begins a round alone.

In the first merge round the loop looks at the entry behind the map. It may look
busy or free; if free, its block number is whatever the memory holds: any part of
the chunk (`ClaimsBehind`), -1 (`SkipsBehind`), or something that makes the merge
write outside the chunk (`MergeFaults`). Marking it is a write behind what `malloc`
gave (`foreign`), after which the heap may fault (`Faults`). `EvenBlocks` says whether
the blocks of a chunk leave no rest and `FullChunks` whether the last chunk is full:
`main` checks neither. A chunk that is not `Whole` is never known to be sorted, and
touching the pages behind the end of the file may fault.

### RecordFile (LAB_7/p2)

Each process runs one command at a time; the calls of a command are its steps.
F_GETLK (`Test`) and F_SETLK (`Lock`) are separate, and the result of the second
is not looked at. `GET` accepts any number (`Typed`): above `NUM_RECORDS` too, where
`PUT` then makes the file longer, and below 0, where `lseek` and `fcntl` fail and so
nothing is locked or written. `LAST` is the largest number a user types.
`verified[p]` is a history variable: the contents that MOD of
`p` last found unchanged.

### SignalStat (LAB_3)

Children are numbered in the order of their creation. `main` is where the parent
is: at its menu, between `fork` and `++amount`, in `kill_last_child` before
`sigqueue` and before `wait(NULL)`, in the loop of `kill_all`. `exiting` says that
`exit()` was called, and whether that happened in `child_handler`, where SIGUSR2
stays blocked. `child_array` is the sequence of the first `amount` entries.
SIGUSR1 and SIGUSR2 are standard signals, so a process has at most one of each
pending (`usr1[p]`, `usr2`), and one that is sent meanwhile is lost. A handler is an
action that may come between any two steps of what it interrupts:
`AlarmHandler` and `ChildHandler` in the parent, `Tick` and `ParentHandler` in a
child. The loops of `stop_all_stat` and `resume_all_stat` are one action; a handler
inside one of them sees the flag of one child, and so comes before or after it.
`ChildHandler` may also make `wait(NULL)` return without a child, as it is
installed without `SA_RESTART`. `Exit` and `Terminate` follow the exit handler: a
second `exit()` inside it ends the process at once. A child whose `execl` fails
(`ExecFails`; the makefile names the file `child`, `execl` asks for `LAB_3_Child`)
runs the parent's exit handler on its copy of `child_array`, `copy[p]`.

`late` and `dropped` are history variables: how often a child printed since the
user stopped it, and to whom a `PARENT_KILL` was sent in vain.

### Discovery, CommandSession (LAB_8)

In `Discovery` a client (one run of the program) sends one request, every client
that listens gets its own copy of every response, and what a response contains is
the address the *request* came from: it leads to the server only if the asking
client runs on the server's host (`Local`). `Lose` drops a datagram; `lost` remembers
for whom.

In `CommandSession` a connection is two streams. `requests[c]` are the commands
the server has not read: `ReadRequest` takes any number of them together, as
`recv` does, and `Parse` finds the command that comes first in `cmds`; or it takes a
part of one, and what the part and the rest contain is any name that may stand in
such a line (`InPart`).
`answers[c]` are the packets the client has not read; `Receive` may take a part of
one, and what is left (`"tail"`) is handled as a packet of its own, with what type its
bytes happen to say. `st[c]` and `rx[c]` are the client's two threads, which meet at
`response_wait_barrier` (`Meet`). `thread[c]` is the server's thread of the
connection. `Handler` says what each command may answer: after a `CD` that
`opendir` refused nothing, and the same for every `LIST` after it (`broken`), until a
`CD` works again; `LIST` never sets the type nor the size of its packet and adds to
the size it finds, so its answer, and that of `?`, may be written behind its
buffer, which ends the server (`overrun`). The server counts connections up only; the
one that makes `MAX_CLIENTS` is closed under its thread (`CloseExcess`), whose
`recv` fails from then on, at once or after one more request. A server that
answers a client that has ended gets an error the first time and SIGPIPE the
second (`Invoke`), which ends it.

## 3. What is checked

Every run uses the specification with its fairness; `CHECK_DEADLOCK FALSE` stands
in a configuration where the program may really stop (it ended, or every message
up to the bound was produced).

| Run | Instance | Properties | Shows |
|---|---|---|---|
| `process_queue_ring` | 3 children, MSG_MAX 3, 2 messages, 3 puts, 1 start, symmetric | `DeliversOldest`, `RingConsistent`, `NoUnderflow`, `ImplementsFifo` | LAB_4's ring is a bounded FIFO under every kill |
| `process_queue_restart` | 3 children, MSG_MAX 2, 1 message, 1 put, 2 starts | `TypeOK`, `MutualExclusion`, `SlotAccounting`, `ItemAccounting`, `ExitLeavesNoChild`, `ParentReturns`, `ExitFreezesQueue` | the semaphores do their accounting across kills and restarts; the parent always gets back from `wait` and leaves no child |
| `process_queue_overflow` | 3 children, MSG_MAX 3 | `NoOverflow` (violated) | `put_msg`'s overflow exit is reachable |
| `thread_queue` | 2 workers, MSG_MAX 3, 2 starts | `TypeOK`, `MutualExclusion`, `CancelLeaksNothing`, `ImplementsFifo`, `JoinReturns` | cancellation leaks nothing; joins return |
| `monitor_queue` | 2 workers and main, MSG_MAX 3, Slack 1, 4 puts | `TypeOK`, `MutualExclusion`, `NoLostWakeup`, `ImplementsFifo`, `JoinReturnsUnlessLost` | condition variables are used correctly but for the cancelled wait |
| `monitor_queue_lost` | 1 message | `RemovedProducerEnds` (violated) | a consumer cancelled in `pthread_cond_wait` takes the mutex with it |
| `monitor_queue_ring` | 1 message, 4 puts | `RingBuffer` (violated) | the "ring buffer" does not wrap |
| `sort_index` | 3 threads, 8 blocks, 2 chunks, the last one short | `TypeOK`, `NoBlockSkipped`, `OverlapsOnlyThere`, `PhasesInStep`, `ChunkSorted`, `Terminates` | where threads overlap, what that and the entry behind the map spoil, and that nothing else goes wrong |
| `record_locks` | 2 processes, 2 records and one number behind them, 2 contents | `TypeOK`, `AddLeavesNoHole`, `LocksGivenBack`, `ModRetriesEnd` | locks and retries |
| `record_update` | the same | `NoLostUpdate` (violated) | a checked modification can be written over another one |
| `signal_stat` | 2 children, MAX_CHILD 3, 1 tick | `TypeOK`, `NobodyForgotten`, `StopTakesEffect`, `WaitAndOrphansEnd` | what the parent knows of its children under coalescing signals; where `wait` can hang, and which orphans stay |
| `command_session` | 2 clients, one on the server's host with 2 commands (`QUIT`, `CD`, `LIST`), MAX_CLIENTS 2 | `TypeOK`, `InStep`, `ServerOutlivesClients`, `DiscoveryEnds`, `CommandsEnd` | commands meet their answers unless a read split a request or an answer; each way in which a client waits for ever or the server ends |

What the last two runs leave open is part of their properties, and each exception
was seen to happen. `WaitAndOrphansEnd`: `wait(NULL)` may hang when a `PARENT_KILL`
was dropped because another SIGUSR1 was pending; an orphan may live on when a tick
came between two tests of `alarm_count == ALARM_COUNTS_TO_PRINT` and it never
asks again. `StopTakesEffect`: two late prints do happen, three do not.
`CommandsEnd`: a client waits for ever after a command the server answers with
nothing; an empty line is one (the comment at `LAB_8/src/client/main.c:114` says that
empty commands are ignored, but the line still holds its newline), `CD` to no
directory is another (`LIST` behind it would be one too, but only a client that a
split answer freed can still type it). `InStep`: after a split request or answer
every command meets an older answer, and the client sends two commands at once,
which is how an ended client can take the server down (`ServerOutlivesClients`); the
other way is an answer of `LIST` or `?` that runs over its buffer.

So are the exceptions of the other runs. `MutualExclusion` and the properties of the
ring in LAB_5 end with the destruction of the mutex, in LAB_7/p1 with the unlock in
`atexit_handler`: from there on the code keeps nobody apart. In LAB_6 `NoBlockSkipped`
excepts block `amount` when two threads sorted it at once, `OverlapsOnlyThere` names
that block and the entry behind the map, and `ChunkSorted` and `Terminates` name what
spoils a chunk or ends the program: two writers, that entry, a stray worker, a
short chunk, a rest.

**Bounds.** In `process_queue_restart` `MSG_MAX = 2` is a ring of one message: the
semaphores' accounting does not depend on where the indices are. Elsewhere `MSG_MAX = 3` is the least ring in which empty, partly filled and
full (two messages: one slot stays free) differ and both indices wrap.
`MaxAdds = 3` messages make `head` wrap in LAB_4 and LAB_5; 4 make LAB_7/p1 run
behind its buffer and, with `Slack = 1`, out of the mapping. Three processes are
two that compete and one that is killed or waits; `CHILD_MAX = 3` allows two of a
kind. Two threads suffice in LAB_5 and LAB_7/p1 because the main thread is a third.
Two starts are one crash and one recovery. In LAB_6 `amount = 2` gives the block
that the main thread, a worker and the scan contend for, 8 blocks give three
merge rounds, two chunks the reset between them; `FullChunks = FALSE` makes the first chunk
whole and the second short, so that both cases are in the run. The program asks for
at least `MIN_THREADS` (8) threads; the instance scales that down, and the proofs
hold for any number. In LAB_7/p2 `LAST = 2` is the one number behind `NUM_RECORDS = 2`. Two messages are enough to see
an order. In LAB_3 two children are one that is waited for and one that ends, or
asks, at the wrong moment, `MAX_CHILD = 3` lets both be in the array and none more,
and one tick is enough because the count is only compared with `==`. In LAB_8
two connections reach the client limit; two commands are one that goes wrong and
one that is out of step with it. `QUIT`, `CD` and `LIST` stand for all kinds of
answers: one that ends the client, none, and any type or an overrun. A request is
read in parts once of a connection, and not after an answer of it was: after that
the connection is out of step in any case. The second
client only has to exist: connections meet nowhere but in discovery, the client
limit and the server's end. All bounds are guards: `MaxAdds` stops production,
`MaxBoots` restarts, `Forks` children, `MaxCommands` commands.

**Symmetry** is used where only invariants and the (safety) refinement are
checked, never with leads-to properties.

**Fairness.** The kernel delivers a SIGKILL and runs a process that is not
blocked (weak fairness). Threads that can run do run. For the mutexes of LAB_5
and LAB_7/p1 strong fairness is assumed: the workers sleep for seconds outside
the critical section, so a waiter gets a mutex that is released again and again.
Users are not assumed to do anything, except that they answer the prompts of a
command they began in LAB_7/p2. In LAB_3 the parent and each child run when they
can, and signals sent to a child are delivered; the parent's signals need not be,
so that no property rests on SIGUSR2. In LAB_8 threads that can run do, and a
datagram that is not lost arrives; a user may stop typing at any time. Nothing is assumed of the semaphores of LAB_4:
no liveness property of its children is stated.

**Refinement.** `BoundedFifo` is the promise of the three queues: put at the back,
get from the front, at most `Capacity` messages, a new start empties it. The
mapping takes the contents of the ring from `tail` to `head`; the steps of `put_msg`
and `get_msg` that move `head` and `tail` are the abstract steps, everything else
stutters, a kill in the middle of a copy or of the counting included. (LAB_7/p1
moves an index and `message_amount` in one step under the mutex; there the mapping
counts with `message_amount`.)

**Findings.** The four violated properties are what a message, a comment or the
name of a thing says; `PROJECT.json` quotes the lines. The traces in short: (1) two
messages in the ring, both slots' `free_space` taken, a third producer passes
`sem_wait(free_space)` because it was created with MSG_MAX, and calls `exit()`;
(2) the user removes a consumer that sleeps on the empty buffer, then a producer;
(3) the fourth message after three were consumed; (4) MOD in one process finds
its record unchanged, another process writes, PUT of the first overwrites it.

## 4. What is proved

Every safety property that a run checks is a theorem: all invariants, the action
property `ExitFreezesQueue` and the three refinements of `BoundedFifo`. Each theorem
is about all values of the constants that the assumption of its module admits.
TLC evaluates the assumptions on every run.

| Module | Holds for | Assumption |
|---|---|---|
| `ProcessQueue` | any finite set of children, any `MSG_MAX > 1` and `CHILD_MAX > 1`, any number of messages and starts | `QueueAssumption` (in `MsgQueue`), `ProcessAssumption` |
| `ThreadQueue` | the same with threads | `QueueAssumption`, `ThreadAssumption` |
| `MonitorQueue` | any finite set of threads, any `MSG_MAX > 1` and `CHILD_MAX > 1`, any room behind the buffer | `MonitorAssumption` |
| `SortIndex` | any number of workers, any larger power of two of blocks, any number of chunks, with or without a rest, the last one full or short | `SortAssumption` |
| `RecordFile` | any set of processes, any records, any positive `NUM_RECORDS`, any largest number `LAST >= NUM_RECORDS - 1` | `RecordAssumption` |
| `SignalStat` | any number of children, any `MAX_CHILD > 1`, any positive `ALARM_COUNTS_TO_PRINT` | `SignalAssumption` |
| `CommandSession` | any set of clients, any of them on the server's host, any positive `MAX_CLIENTS`, any commands | `SessionAssumption` |

`SortAssumption` says that `blocks` has no odd divisor but 1, which is what being a
power of two means and all the proof needs of it: halving `BLOCKS` then ends at 4
and not at an odd number. That `2 * blocks` fits the type of `BLOCKS` is assumed.

| Module | Theorem | States |
|---|---|---|
| each but `MsgQueueProofs` | `TypeCorrect` | `TypeOK` |
| `ProcessQueueProofs` | `MutexSafe` | `MutualExclusion` |
| | `RingAligned` | `RingConsistent` |
| | `SlotsAccountedFor`, `ItemsAccountedFor` | `SlotAccounting`, `ItemAccounting` |
| | `UnderflowUnreachable` | `NoUnderflow` |
| | `ExitFreezes` | the action property `ExitFreezesQueue` |
| | `ExitReapsAll` | `ExitLeavesNoChild` |
| | `OldestFirst` | `DeliversOldest` |
| | `RingIsFifo` | `ImplementsFifo`: LAB_4 implements `BoundedFifo` |
| `ThreadQueueProofs` | `MutexSafe` | `MutualExclusion` |
| | `NothingLeaks` | `CancelLeaksNothing` |
| | `RingIsFifo` | `ImplementsFifo`: LAB_5 implements `BoundedFifo` |
| `MonitorQueueProofs` | `MutexSafe` | `MutualExclusion` |
| | `NoWakeupIsLost` | `NoLostWakeup` |
| | `BufferIsFifo` | `ImplementsFifo`: LAB_7/p1 implements `BoundedFifo` |
| `SortIndexProofs` | `RoundsInStep` | `PhasesInStep` |
| | `AllBlocksSorted` | `NoBlockSkipped` |
| | `OverlapsKnown` | `OverlapsOnlyThere` |
| | `ChunksSorted` | `ChunkSorted` |
| `RecordFileProofs` | `NoHole` | `AddLeavesNoHole` |
| | `LocksReturn` | `LocksGivenBack` |
| `SignalStatProofs` | `ForgetsNobody` | `NobodyForgotten` |
| | `StopIsFelt` | `StopTakesEffect` |
| `CommandSessionProofs` | `BarrierKeepsStep` | `InStep` |
| | `ServerSurvives` | `ServerOutlivesClients` |

*LAB_4: the core invariant.* `TypeOK` is not inductive: that `head` stays within the
ring depends on the slot it was wrapped to still being current when `++head`
comes, which depends on nobody else moving it, which depends on the mutex. `Core`
is therefore the types together with `MutexInv` (who is between `sem_wait` and
`sem_post` of the mutex) and `RingInv`: the indices are in the ring (`Indexed`), the
counters agree with them when nobody is between two updates (`Aligned`), and where a
child, dead or alive, is between two of them `RingAt` says by how much they differ.
`RingConsistent` is `RingInv` said with counts of children. Steps are grouped by what they may disturb: steps on the
counting semaphores, taking and giving back the mutex, quiet steps, steps inside
the critical section, and everything else, which leaves the ring, the semaphores
and the labels alone. What the ring's operators do is proved once, in
`MsgQueueProofs`.

*The accounting* is inductive relative to `Core`. `CountsChange` says by how much
a step from one label to another changes the number of children at a set of
labels; each action is then an arithmetic identity between what it does to a
semaphore or `msg_amount` and what its labels say. `UnderflowUnreachable` follows:
a consumer in front of `get_msg` is itself counted among the claims on a message.

*The exits.* `ExitInv` says that a child in `atexit_handler` still stands in
`put_msg` or `get_msg`, where it holds the mutex for good; with `MutexInv` nobody
else can be in front of a write. `ReapInv` counts: the children not waited for
are never more than the waits the parent still has to do, and since a `wait(NULL)`
takes exactly one of them, whichever, none is left after the last.

*The refinement.* `DataInv` adds the data to `Core`: what the ring holds is a
sequence of whole messages, a child on its way to `put_msg` or back from
`get_msg` carries one, and a consumer between the copy and the end of `get_msg`
carries the oldest. `Contents` depends on the indices only, so that a child killed
between `++head` and `++msg_amount` has put its message for good. That holds because only one child is in the ring at a time,
and because a half written slot lies outside `Contents`. `FifoStep` then says what
every step is for the abstract queue: the end of `put_msg` is `Put`, the end of
`get_msg` is `Get`, a restart is `Reset`, and all else stutters.

*LAB_5.* The ring is LAB_4's and so are the lemmas about it; `Core` is again types,
`MutexInv` and `RingInv`. What differs is who may stop where. A worker acts on a
cancellation at its `printf`, `sleep` or `sem_wait`, where it has claimed
nothing, or in a report, where it keeps the mutex for good: `MutexInv` covers the
dead as well, and `Abandoned` is what the accounting excepts. `Accounting` counts
the living only and is nevertheless inductive, because nobody dies between a
claim and its return. The destroyed mutex is the third case: from there on the
workers are in the critical section together, `MutexInv` and the part of `RingInv` that
concerns them say nothing any more, and the ring is not followed.

*LAB_7/p1.* `MutualExclusion` is inductive with `SleepInv`, which says who can be
in `pthread_cond_wait`: who lives, once, and nobody in `exit()`, and with `ExitInv`: the
mutex is unlocked and destroyed at the end of `exit()` only, after which
(`Unguarded`) the three theorems promise nothing. `Aligned` ties the
indices that only grow to `message_amount`. `WakeupInv` is `NoLostWakeup`: while
somebody sleeps there are at most as many messages as consumers at their test
and awake. Each message signals once, and a consumer that takes one leaves
the count with it; a consumer cancelled while awake at its test would break it, and
cannot be, as the test has no cancellation point but the wait. For the refinement
`Held` reads the messages between `tail` and `head`; no slot among them is written
again, since `add_msg` stores at `head` only.

*LAB_6* is proved in layers, each invariant relative to those before it. `Walk` says
where threads can be together (`Meets`: which place of a worker goes with which
place of the main thread) and what `BLOCKS` and `curSize` are there; it is what
barriers are for, and it contains the exception: a worker that tests `BLOCKS` after
the main thread has reset it strays into a round of its own. `PhasesInStep` follows, and
that no part claimed by an entry of the map leaves the chunk, stray or not.
`Map` says which entries of the map are taken behind a thread's index, so that a
scan that ended has left none free. `Core` adds what each thread writes to, as its
place and index say (`Writing`); that a claimed part lies within the chunk
(`ClaimFits`) needs that nothing between `BLOCKS` and the end of the map is
free. `Apart` says that two claims differ, which gives `OverlapsOnlyThere` with
the arithmetic of `Parts` (`PartsExact`, `PartsApart`). `SortInv` keeps for every
claimed block that it is sorted, torn, being sorted, or its owner is still to come,
and that only block `amount` can be torn: `NoBlockSkipped`. `SizeInv` is the merge: between rounds all runs span two parts
(`Grown`); in a round they span at least one, and two unless somebody is merging
them or the claim is open (`Growing`). Halving turns the first into the second, a
round without open claims the second into the first, and at `BLOCKS = 4` the
main thread's merge makes one run of all. All this is said under `Sound`, the
hypothesis of `ChunkSorted`, which once lost does not come back before the next
chunk (`Keeps`); and as long as nobody claimed the entry behind the map, whoever
merges has claimed a part of the chunk (`Behind`).

*LAB_8.* `ServerOutlivesClients` and `InStep` both rest on `OneAtATime`: while no request or
answer of a client was read in parts, it has at most one command under way, which is
in one place (sent, being answered, or answered), and none while it shows its
prompt. The barrier moves sender and receiver together, so a new command is sent
only after the answer to the last was read. The server dies of the second answer
to a client that has gone; the first one remembers (`answered_late`), and with one
command at a time there is no second. What is left is the answer that runs over its
buffer (`overrun`). Steps of one client leave all others as they
were (`OthersKept`).

*LAB_3.* `TypeOK` needs more than types: that `child_array` stays below `MAX_CHILD`
entries rests on `Storing` (between `fork` and `++amount` there is a place left,
and the child it is for is the newest), and that those whose end was missed
live rests on only the living having a signal pending (`ChildOK`). `NobodyForgotten`
is inductive relative to this `Core`; `KnownKept` is the step that most actions
share. `StopTakesEffect` is not inductive: a child may hold a permission and
have another on its way. `Budget` counts both (`Credit`) together with the late
prints: the sum is at most 2 while the child is stopped, a print moves one
from credit to late, and a new answer is given only to a child that is not
stopped, whose count is 0.

*LAB_7/p2.* `LocksGivenBack` and `AddLeavesNoHole` are inductive together with the
types (`Inv`). The number a process works on does not change during a command; one
below 0, which GET accepts, locks and writes nothing. A process takes a lock only
on the record it works on and on its way into `LockedPC`, and leaves `LockedPC` only with an unlock of that record
or, when it ends, of all it holds (`ReleaseLocks`). `PutFacts` says that a write
never makes the file shorter, so what was the end of the file when ADD chose its
record never lies beyond a later end, though `GET` and `PUT` may have written far
behind it.

Only model-checked: liveness (`ParentReturns`, `JoinReturns`,
`JoinReturnsUnlessLost`, `Terminates`, `ModRetriesEnd`, `WaitAndOrphansEnd`,
`DiscoveryEnds`, `CommandsEnd`), which is beyond the prover.

## 5. What is not modelled, and why

- LAB_1, LAB_2, LAB_6 generator and printer: sequential input and output.
- Listings and messages; formats; the bytes of messages and records.
- Failures of calls that lead straight to `exit` in `init`, before anything exists.
- What the memory holds once LAB_5's mutex is destroyed, LAB_7/p1's handler has
  unlocked the mutex, or LAB_7/p1 stores beyond its mapping: the models follow who
  runs and what ends, not the data.
- Stores that the compiler or the processor reorders: those of `put_msg` and
  `get_msg` are taken in the order of the program.
- LAB_4, LAB_5: what `O_TRUNC`, which `sem_open` is given (`init_and_exit.c:15` and `:13`),
  might do to a semaphore that exists: POSIX leaves it unspecified, a C library may
  ignore it or hand it on to `open`, which would truncate the file behind the
  semaphore. The value is taken to stay as it was.
- LAB_6: failures of `openFile` and `mmap`, a negative `memsize`, and what a write
  outside the chunk or behind the map does beyond a fault: the records of a
  chunk are then simply not known to be sorted.
- LAB_7/p2: record numbers whose offset in the file overflows an `int`, so that two
  numbers mean one record.
- LAB_4: children orphaned by a crash keep the old, nameless objects; they
  cannot meet the next run and are forgotten on `Restart`. A restart while orphans
  still run and only some of the names are gone is not explored.
- LAB_3: a process id that is used again; SIGUSR2 that was pending when `exit()`
  was called in `child_handler` (it stays blocked); the statistic itself.
- LAB_8: what a buffer written over does other than end the server (`LIST`, `?`, the
  path of `CD`), or in a client that unpacks an answer (`Kill` stands for its end);
  the unset bytes behind the first request of a connection; a name that the end of
  one request and the beginning of the next form together; connections after the
  one that makes `MAX_CLIENTS` (they are stored behind the array, and descriptors
  are used again); a second start of the server; a split within the type of a
  packet; the text of answers: whether an `ECHO` is taken for "BYE" is a choice. The end of stdin before the first command leaves the buffer
  unset; `Eof` is the loop after one.

## 6. What could follow

1. Proofs: the safety part of what the liveness properties say, for every
   size: in which states a join, a barrier or `wait(NULL)` can still be left.
2. LAB_8 beyond the client limit: what overwriting `num_clients` does to the
   accept loop depends on the compiler's layout of two globals.
