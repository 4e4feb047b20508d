----------------------------- MODULE SortIndex ------------------------------
(***************************************************************************)
(* LAB_6/src/sort_index/thread.c: an index file is sorted chunk by chunk   *)
(* in a memory mapping.  The main thread (no 0) and amount workers first   *)
(* sort blocks that they claim in a shared map, then merge neighbours in   *)
(* rounds that halve the number of blocks; one barrier for amount + 1      *)
(* threads separates all the phases.                                       *)
(*                                                                         *)
(* Of the records only this is kept: how many blocks the run has that a    *)
(* block is in, where the run is known to be sorted and to be made of all  *)
(* the records that were in these blocks.                                  *)
(***************************************************************************)
EXTENDS Integers, FiniteSets, FiniteSetsExt

CONSTANTS
  amount,     (* number of workers                                         *)
  blocks,     (* number of blocks of a chunk                               *)
  Chunks,     (* FILESIZE in units of memsize, rounded up                  *)
  EvenBlocks, (* is memsize a multiple of blocks?                          *)
  FullChunks  (* is FILESIZE a multiple of memsize?                        *)

(* main() accepts a power of two (it has no odd divisor but 1) that is     *)
(* greater than the number of threads.                                     *)
ASSUME SortAssumption ==
  /\ amount \in Nat \ {0} /\ Chunks \in Nat
  /\ EvenBlocks \in BOOLEAN /\ FullChunks \in BOOLEAN
  /\ blocks \in Nat /\ amount < blocks
  /\ \A d \in 2 .. blocks : blocks % d = 0 => d % 2 = 0

VARIABLES
  pc,         (* where each thread is; b_... is a pthread_barrier_wait     *)
  i,          (* its loop index                                            *)
  seg,        (* the blocks it is writing to                               *)
  busy,       (* map[.].isBusy, and what is behind the map                 *)
  BLOCKS,
  size,       (* blocks of the sorted run a block is in; 0: not known      *)
  curSize,    (* chunks done                                               *)
  torn,       (* the blocks of the chunk whose records may be lost         *)
  strayed,    (* did a worker ever miss the end of the merge phase?        *)
  foreign,    (* did a thread ever claim the entry behind the map?         *)
  mapped,     (* is the file still mapped?                                 *)
  alive       (* FALSE after a memory fault                                *)

vars == <<pc, i, seg, busy, BLOCKS, size, curSize, torn, strayed, foreign, mapped, alive>>

Threads == 0 .. amount
Workers == 1 .. amount
Block == 0 .. blocks - 1

SortPC == {"s_own", "s_own_sort", "s_scan", "s_sort"}
MergePC == {"g_test", "b_round", "g_halve", "b_halved", "g_scan", "g_merge", "b_merged"}
After ==
  [b_start |-> "s_own", b_sorted |-> "g_test", b_round |-> "g_halve",
   b_halved |-> "g_scan", b_merged |-> "g_test", b_chunk |-> "chunk", b_end |-> "end"]

TypeOK ==
  /\ pc \in [Threads -> SortPC \cup MergePC \cup DOMAIN After
                         \cup {"unborn", "chunk", "m_last", "m_next", "end", "m_join", "done"}]
  /\ i \in [Threads -> 0 .. 2 * blocks + 2] /\ seg \in [Threads -> SUBSET Block]
  /\ busy \in [0 .. blocks -> BOOLEAN]
  /\ BLOCKS \in 1 .. 2 * blocks /\ size \in [Block -> 0 .. blocks]
  /\ curSize \in 0 .. Chunks
  /\ torn \in SUBSET Block /\ strayed \in BOOLEAN /\ foreign \in BOOLEAN
  /\ mapped \in BOOLEAN /\ alive \in BOOLEAN

(* pthread_create may fail after k workers; then createThreads returns.    *)
Init ==
  /\ \E k \in 0 .. amount :
       /\ pc = [t \in Threads |-> IF t = 0 /\ k < amount THEN "m_join"
                                  ELSE IF t <= k THEN "chunk" ELSE "unborn"]
       /\ i = [t \in Threads |-> IF t = 0 THEN 1 ELSE 0]
  /\ seg = [t \in Threads |-> {}] /\ busy = [n \in 0 .. blocks |-> FALSE]
  /\ BLOCKS = 2 * blocks /\ size = [n \in Block |-> 0] /\ curSize = 0
  /\ torn = {} /\ strayed = FALSE /\ foreign = FALSE /\ mapped = TRUE /\ alive = TRUE

(* Thread t moves on; everything that is not thread-local is unchanged     *)
(* unless the action says so.                                              *)
Goto(t, from, to) == alive /\ pc[t] = from /\ pc' = [pc EXCEPT ![t] = to]

(* A thread begins to sort or to merge the blocks s.  Where it meets       *)
(* another, what either is at may lose records.                            *)
Starts(t, s) ==
  /\ seg' = [seg EXCEPT ![t] = s]
  /\ torn' = torn \cup UNION {s \cup seg[u] : u \in {v \in Threads \ {t} : seg[v] \cap s # {}}}

(* Do the blocks hold all the records of the mapping, and the file all of  *)
(* the mapping?  Not if the blocks leave a rest, nor in a short last chunk.*)
Whole == EvenBlocks /\ (FullChunks \/ curSize + 1 < Chunks)

-----------------------------------------------------------------------------
(* The barrier and the loop over the chunks.                               *)

(* Bug: the barrier is made for amount threads. *)
SmallBarrier ==
  LET at == {t \in Threads : pc[t] \in DOMAIN After} IN
  /\ alive /\ Cardinality(at) = amount
  /\ pc' = [t \in Threads |-> IF t \in at THEN After[pc[t]] ELSE pc[t]]
  /\ UNCHANGED <<i, seg, busy, BLOCKS, size, curSize, torn, strayed, foreign, mapped, alive>>

(* The barrier opens when amount + 1 threads wait, wherever they do.       *)
Barrier ==
  /\ alive /\ \A t \in Threads : pc[t] \in DOMAIN After
  /\ pc' = [t \in Threads |-> After[pc[t]]]
  /\ UNCHANGED <<i, seg, busy, BLOCKS, size, curSize, torn, strayed, foreign, mapped, alive>>

(* The main thread allocates a map for the chunk.  The entry behind it,    *)
(* which the merge phase looks at too, may look busy or free.              *)
NextChunk(t) ==
  /\ curSize < Chunks /\ Goto(t, "chunk", "b_start")
  /\ IF t = 0
     THEN /\ \E behind \in BOOLEAN :
               busy' = [n \in 0 .. blocks |-> IF n = blocks THEN behind ELSE n < amount]
          /\ size' = [n \in Block |-> 0] /\ torn' = {}
     ELSE UNCHANGED <<busy, size, torn>>
  /\ UNCHANGED <<i, seg, BLOCKS, curSize, strayed, foreign, mapped, alive>>

NoMoreChunks(t) ==
  /\ curSize >= Chunks /\ Goto(t, "chunk", "b_end")
  /\ UNCHANGED <<i, seg, busy, BLOCKS, size, curSize, torn, strayed, foreign, mapped, alive>>

-----------------------------------------------------------------------------
(* sortPhase.                                                              *)

(* A thread takes the block with its number without looking. *)
SortOwn(t) ==
  /\ Goto(t, "s_own", "s_own_sort")
  /\ busy' = [busy EXCEPT ![t] = TRUE] /\ Starts(t, {t})
  /\ UNCHANGED <<i, BLOCKS, size, curSize, strayed, foreign, mapped, alive>>

ScanSkips(t) ==
  /\ i[t] < blocks /\ busy[i[t]] /\ Goto(t, "s_scan", "s_scan")
  /\ i' = [i EXCEPT ![t] = @ + 1]
  /\ UNCHANGED <<seg, busy, BLOCKS, size, curSize, torn, strayed, foreign, mapped, alive>>

(* Bug: a claimed block is not marked busy. *)
ScanClaimsUnmarked(t) ==
  /\ i[t] < blocks /\ ~busy[i[t]] /\ Goto(t, "s_scan", "s_sort")
  /\ Starts(t, {i[t]})
  /\ UNCHANGED <<i, busy, BLOCKS, size, curSize, strayed, foreign, mapped, alive>>

(* The test is repeated with the mutex held. *)
ScanClaims(t) ==
  /\ i[t] < blocks /\ ~busy[i[t]] /\ Goto(t, "s_scan", "s_sort")
  /\ busy' = [busy EXCEPT ![i[t]] = TRUE] /\ Starts(t, {i[t]})
  /\ UNCHANGED <<i, BLOCKS, size, curSize, strayed, foreign, mapped, alive>>

(* qsort of a block ends; beside another qsort of the block it may have    *)
(* left it in any order.                                                   *)
Sorted(t) ==
  /\ \/ Goto(t, "s_own_sort", "s_scan") /\ i' = [i EXCEPT ![t] = t]
     \/ Goto(t, "s_sort", "s_scan") /\ i' = [i EXCEPT ![t] = @ + 1]
  /\ size' = [n \in Block |-> IF n \notin seg[t] THEN size[n] ELSE IF n \in torn THEN 0 ELSE 1]
  /\ seg' = [seg EXCEPT ![t] = {}]
  /\ UNCHANGED <<busy, BLOCKS, curSize, torn, strayed, foreign, mapped, alive>>

(* Bug: the scan ends one block early. *)
ScanEndsEarly(t) ==
  /\ i[t] >= blocks - 1 /\ Goto(t, "s_scan", "b_sorted")
  /\ UNCHANGED <<i, seg, busy, BLOCKS, size, curSize, torn, strayed, foreign, mapped, alive>>

ScanEnds(t) ==
  /\ i[t] >= blocks /\ Goto(t, "s_scan", "b_sorted")
  /\ UNCHANGED <<i, seg, busy, BLOCKS, size, curSize, torn, strayed, foreign, mapped, alive>>

-----------------------------------------------------------------------------
(* merge and mergePhase.                                                   *)

(* The blocks under parts no and no + 1 of a chunk divided into n parts. *)
Parts(n, no) == (no * blocks) \div n .. ((no + 2) * blocks - 1) \div n

(* Two sorted runs become one; anything else is left in disorder. *)
Merged(s) ==
  LET half == IF Cardinality(s) = 1 THEN 1 ELSE Cardinality(s) \div 2 IN
  [n \in Block |->
    IF n \notin s THEN size[n]
    ELSE IF s \cap torn = {} /\ \A p \in s : size[p] >= half THEN Max({size[n], Cardinality(s)}) ELSE 0]

(* A worker that gets here only after the main thread has set BLOCKS for   *)
(* the next chunk starts another round, alone.                             *)
AnotherRound(t) ==
  /\ BLOCKS > 4 /\ Goto(t, "g_test", "b_round")
  /\ strayed' = (strayed \/ pc[0] \notin MergePC)
  /\ UNCHANGED <<i, seg, busy, BLOCKS, size, curSize, torn, foreign, mapped, alive>>

(* Bug: the merge phase may end one round early. *)
LastRoundEarly(t) ==
  /\ BLOCKS <= 8 /\ Goto(t, "g_test", IF t = 0 THEN "m_last" ELSE "b_chunk")
  /\ IF t = 0 THEN Starts(t, Parts(2, 0)) ELSE UNCHANGED <<seg, torn>>
  /\ UNCHANGED <<i, busy, BLOCKS, size, curSize, strayed, foreign, mapped, alive>>

LastRound(t) ==
  /\ BLOCKS <= 4 /\ Goto(t, "g_test", IF t = 0 THEN "m_last" ELSE "b_chunk")
  /\ IF t = 0 THEN Starts(t, Parts(2, 0)) ELSE UNCHANGED <<seg, torn>>
  /\ UNCHANGED <<i, busy, BLOCKS, size, curSize, strayed, foreign, mapped, alive>>

Halve(t) ==
  /\ Goto(t, "g_halve", "b_halved")
  /\ IF t = 0
     THEN /\ BLOCKS' = BLOCKS \div 2
          /\ busy' = [n \in 0 .. blocks |-> n >= BLOCKS \div 2 /\ busy[n]]
     ELSE UNCHANGED <<BLOCKS, busy>>
  /\ i' = [i EXCEPT ![t] = 0]
  /\ UNCHANGED <<seg, size, curSize, torn, strayed, foreign, mapped, alive>>

(* What is far behind the map may look like a busy entry. *)
LooksBusy(n) == IF n > blocks THEN TRUE ELSE busy[n]

(* The loop runs up to and including BLOCKS; in the first round that is    *)
(* the entry behind the map.                                               *)
MergeSkips(t) ==
  /\ i[t] <= BLOCKS /\ LooksBusy(i[t]) /\ Goto(t, "g_scan", "g_scan")
  /\ i' = [i EXCEPT ![t] = @ + 2]
  /\ UNCHANGED <<seg, busy, BLOCKS, size, curSize, torn, strayed, foreign, mapped, alive>>

MergeClaims(t) ==
  /\ i[t] <= BLOCKS /\ i[t] < blocks /\ ~busy[i[t]] /\ mapped
  /\ Goto(t, "g_scan", "g_merge")
  /\ busy' = [busy EXCEPT ![i[t]] = TRUE] /\ Starts(t, Parts(BLOCKS, i[t]))
  /\ UNCHANGED <<i, BLOCKS, size, curSize, strayed, foreign, mapped, alive>>

(* The entry behind the map is marked busy, in memory that malloc never    *)
(* gave, and the block number in it is what that memory happens to hold:   *)
(* any of the chunk, whose parts belong to other threads or runs ...       *)
ClaimsBehind(t) ==
  /\ i[t] <= BLOCKS /\ i[t] = blocks /\ ~busy[blocks] /\ mapped
  /\ Goto(t, "g_scan", "g_merge")
  /\ busy' = [busy EXCEPT ![blocks] = TRUE] /\ foreign' = TRUE
  /\ \E no \in 0 .. BLOCKS - 2 : seg' = [seg EXCEPT ![t] = Parts(BLOCKS, no)]
  /\ torn' = Block
  /\ UNCHANGED <<i, BLOCKS, size, curSize, strayed, mapped, alive>>

(* ... or -1, with which nothing is merged. *)
SkipsBehind(t) ==
  /\ i[t] <= BLOCKS /\ i[t] = blocks /\ ~busy[blocks] /\ Goto(t, "g_scan", "g_scan")
  /\ busy' = [busy EXCEPT ![blocks] = TRUE] /\ foreign' = TRUE
  /\ i' = [i EXCEPT ![t] = @ + 2]
  /\ UNCHANGED <<seg, BLOCKS, size, curSize, torn, strayed, mapped, alive>>

(* A merge in a file that is no longer mapped; of parts outside the chunk, *)
(* where the entry behind the map may point; or an entry far behind it.    *)
(* What becomes of a program that writes there is not followed.            *)
MergeFaults(t) ==
  /\ alive /\ pc[t] = "g_scan" /\ i[t] <= BLOCKS
  /\ i[t] > blocks \/ (~LooksBusy(i[t]) /\ (~mapped \/ i[t] = blocks))
  /\ alive' = FALSE /\ foreign' = (foreign \/ i[t] >= blocks)
  /\ UNCHANGED <<pc, i, seg, busy, BLOCKS, size, curSize, torn, strayed, mapped>>

(* malloc may find the heap damaged by the claim behind the map; and the   *)
(* pages of the mapping behind the end of the file cannot be touched.      *)
Faults(t) ==
  /\ alive
  /\ \/ foreign /\ (pc[t] \in {"g_merge", "m_last"} \/ (t = 0 /\ pc[t] = "chunk"))
     \/ seg[t] # {} /\ ~FullChunks /\ curSize + 1 = Chunks
  /\ alive' = FALSE
  /\ UNCHANGED <<pc, i, seg, busy, BLOCKS, size, curSize, torn, strayed, foreign, mapped>>

(* Of a chunk that the parts do not cover, or in which someone merged      *)
(* wherever the entry behind the map said, nothing is known any more.      *)
EndsMerge(t) ==
  /\ \/ Goto(t, "g_merge", "g_scan") /\ i' = [i EXCEPT ![t] = @ + 2]
     \/ Goto(t, "m_last", "m_next") /\ UNCHANGED i
  /\ size' = IF foreign \/ ~Whole THEN [n \in Block |-> 0] ELSE Merged(seg[t])
  /\ seg' = [seg EXCEPT ![t] = {}]
  /\ UNCHANGED <<busy, BLOCKS, curSize, torn, strayed, foreign, mapped, alive>>

RoundEnds(t) ==
  /\ i[t] > BLOCKS /\ Goto(t, "g_scan", "b_merged")
  /\ UNCHANGED <<i, seg, busy, BLOCKS, size, curSize, torn, strayed, foreign, mapped, alive>>

-----------------------------------------------------------------------------
(* The end of a chunk and of the program.                                  *)

(* Bug: BLOCKS is set too high for the next chunk. *)
ChunkDoneTooManyBlocks ==
  /\ Goto(0, "m_next", "b_chunk")
  /\ curSize' = curSize + 1 /\ BLOCKS' = 4 * blocks
  /\ UNCHANGED <<i, seg, busy, size, torn, strayed, foreign, mapped, alive>>

(* Bug: curSize is not advanced. *)
ChunkNotCounted ==
  /\ Goto(0, "m_next", "b_chunk") /\ BLOCKS' = 2 * blocks
  /\ UNCHANGED <<i, seg, busy, size, curSize, torn, strayed, foreign, mapped, alive>>

(* BLOCKS is reset before the barrier. *)
ChunkDone ==
  /\ Goto(0, "m_next", "b_chunk")
  /\ curSize' = curSize + 1 /\ BLOCKS' = 2 * blocks
  /\ UNCHANGED <<i, seg, busy, size, torn, strayed, foreign, mapped, alive>>

WorkerEnds(t) ==
  /\ t # 0 /\ Goto(t, "end", "done")
  /\ UNCHANGED <<i, seg, busy, BLOCKS, size, curSize, torn, strayed, foreign, mapped, alive>>

AtExit ==
  /\ Goto(0, "end", "m_join")
  /\ mapped' = FALSE /\ i' = [i EXCEPT ![0] = 1]
  /\ UNCHANGED <<seg, busy, BLOCKS, size, curSize, torn, strayed, foreign, alive>>

(* joinThreads: worker i[0] is cancelled, which it may notice in its first *)
(* printf but not in the barrier, and joined.                              *)
Cancelled(t) ==
  /\ pc[0] = "m_join" /\ t = i[0] /\ t \in Workers /\ Goto(t, "chunk", "done")
  /\ UNCHANGED <<i, seg, busy, BLOCKS, size, curSize, torn, strayed, foreign, mapped, alive>>

Joined ==
  /\ i[0] \in Workers /\ pc[i[0]] = "done" /\ Goto(0, "m_join", "m_join")
  /\ i' = [i EXCEPT ![0] = @ + 1]
  /\ UNCHANGED <<seg, busy, BLOCKS, size, curSize, torn, strayed, foreign, mapped, alive>>

(* threads[] holds no thread at an index whose pthread_create failed. *)
JoinFaults ==
  /\ alive /\ pc[0] = "m_join" /\ i[0] \in Workers /\ pc[i[0]] = "unborn"
  /\ alive' = FALSE
  /\ UNCHANGED <<pc, i, seg, busy, BLOCKS, size, curSize, torn, strayed, foreign, mapped>>

AllJoined ==
  /\ i[0] > amount /\ Goto(0, "m_join", "done")
  /\ UNCHANGED <<i, seg, busy, BLOCKS, size, curSize, torn, strayed, foreign, mapped, alive>>

ThreadStep(t) ==
  \/ NextChunk(t) \/ NoMoreChunks(t)
  \/ SortOwn(t) \/ ScanSkips(t) \/ ScanClaims(t) \/ Sorted(t) \/ ScanEnds(t)
  \/ AnotherRound(t) \/ LastRound(t) \/ Halve(t) \/ MergeSkips(t) \/ MergeClaims(t)
  \/ ClaimsBehind(t) \/ SkipsBehind(t) \/ MergeFaults(t) \/ Faults(t) \/ EndsMerge(t) \/ RoundEnds(t) \/ WorkerEnds(t) \/ Cancelled(t)
MainStep == ChunkDone \/ AtExit \/ Joined \/ JoinFaults \/ AllJoined

Next == Barrier \/ MainStep \/ \E t \in Threads : ThreadStep(t)

(* Every thread that can run runs. *)
Fairness == WF_vars(Barrier) /\ WF_vars(MainStep) /\ \A t \in Threads : WF_vars(ThreadStep(t))

Spec == Init /\ [][Next]_vars /\ Fairness

-----------------------------------------------------------------------------
(* Properties.                                                             *)

(* The unlocked claims of the own blocks and the locked claims of the      *)
(* others leave no block unsorted when the sort phase ends, unless it is   *)
(* block amount and two threads sorted it at once.                         *)
NoBlockSkipped ==
  (\A t \in Threads : pc[t] = "b_sorted") =>
    \A n \in Block : size[n] >= 1 \/ (n = amount /\ n \in torn)

(* Two threads write to the same block at the same time in two places      *)
(* only: block amount in the sort phase, which the map says is free though *)
(* it is worker amount's own; and in the first merge round the blocks that *)
(* the entry behind the map names, because the loop runs one too far.      *)
OverlapsOnlyThere ==
  ~strayed => \A t, u \in Threads :
    t # u /\ seg[t] \cap seg[u] # {} =>
      \/ seg[t] = {amount} /\ seg[u] = {amount} /\ amount \in {t, u}
      \/ BLOCKS = blocks /\ blocks \in {i[t], i[u]}

(* The barriers keep sorting and merging apart, and every thread in the    *)
(* same round, until a worker strays.                                      *)
PhasesInStep ==
  ~strayed => \A t, u \in Threads :
    /\ ~(pc[t] \in SortPC /\ pc[u] \in MergePC \ {"b_sorted"})
    /\ ~(pc[t] \in {"g_scan", "g_merge"} /\ pc[u] \in {"b_round", "g_halve"})

(* A chunk is sorted when the main thread is done with it, unless two      *)
(* threads wrote to one of its blocks at once, someone has claimed the     *)
(* entry behind the map, a worker strayed, the last chunk is short, or the *)
(* blocks leave a rest.                                                    *)
ChunkSorted ==
  pc[0] = "m_next" /\ torn = {} /\ ~foreign /\ ~strayed /\ Whole =>
    \A n \in Block : size[n] = blocks

(* The program comes to its end if all workers were created, unless a      *)
(* worker strays or there is a fault: behind the map or the end of the     *)
(* file.                                                                   *)
Terminates ==
  <>(\/ pc[0] = "done" \/ strayed \/ \E t \in Workers : pc[t] = "unborn"
     \/ ~alive /\ (foreign \/ ~FullChunks))
=============================================================================
