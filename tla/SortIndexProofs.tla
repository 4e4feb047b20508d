-------------------------- MODULE SortIndexProofs ---------------------------
(***************************************************************************)
(* What holds of LAB_6's sort for every number of workers, every power of  *)
(* two of blocks and every number of chunks.                               *)
(***************************************************************************)
EXTENDS SortIndex, FiniteSetTheorems, TLAPS

Labels == SortPC \cup MergePC \cup DOMAIN After
            \cup {"unborn", "chunk", "m_last", "m_next", "end", "m_join", "done"}

-----------------------------------------------------------------------------
(* Arithmetic.                                                             *)

LEMMA Constants ==
  /\ amount \in Nat /\ amount >= 1 /\ blocks \in Nat /\ blocks > amount /\ blocks >= 2
  /\ Chunks \in Nat /\ 0 \in Threads /\ Workers = Threads \ {0} /\ Workers # {}
  /\ 0 \in Block /\ Threads \subseteq Block /\ Threads \subseteq Nat /\ Block \subseteq Nat
<1>1. /\ amount \in Nat /\ amount >= 1 /\ blocks \in Nat /\ blocks > amount
      /\ blocks >= 2 /\ Chunks \in Nat
  BY SortAssumption
<1>2. 1 \in Workers
  BY <1>1 DEF Workers
<1>3. QED
  BY <1>1, <1>2 DEF Threads, Workers, Block

LEMMA Multiples ==
  ASSUME NEW m \in Nat, NEW d \in Nat, d >= 1
  PROVE  /\ (m * d) \div d = m /\ (m * d) % d = 0
         /\ m >= 1 => (m * d - 1) \div d = m - 1
  OBVIOUS

LEMMA Evens ==
  ASSUME NEW a \in Nat, NEW b \in Nat, a % 2 = 0, b % 2 = 0, a # b
  PROVE  a + 2 <= b \/ b + 2 <= a
  OBVIOUS

LEMMA Monotone ==
  ASSUME NEW a \in Nat, NEW b \in Nat, NEW d \in Nat, a <= b
  PROVE  a * d <= b * d
  OBVIOUS

(* BLOCKS is 2 * blocks or divides blocks. *)
Divides(n) == n = 2 * blocks \/ \E k \in Nat \ {0} : k * n = blocks

Count(n) == n \in Nat /\ n >= 4 /\ n % 2 = 0 /\ n <= 2 * blocks /\ Divides(n)

LEMMA Halved ==
  ASSUME NEW n \in Nat, Count(n), n > 4
  PROVE  LET half == n \div 2 IN
         /\ Count(half) /\ 2 * half = n /\ half <= blocks
         /\ \E k \in Nat \ {0} : k * half = blocks
<1> DEFINE half == n \div 2
<1>1. half \in Nat /\ 2 * half = n /\ half >= 3 /\ half <= blocks
  BY Constants DEF Count
<1> HIDE DEF half
<1>2. PICK k \in Nat \ {0} : k * half = blocks
  <2>1. CASE n = 2 * blocks
    <3>1. 1 \in Nat \ {0} /\ 1 * half = blocks
      BY <1>1, <2>1, Constants
    <3>2. QED
      BY <3>1
  <2>2. CASE \E k \in Nat \ {0} : k * n = blocks
    <3>1. PICK k \in Nat \ {0} : k * n = blocks
      BY <2>2
    <3>2. 2 * k \in Nat \ {0} /\ (2 * k) * half = blocks
      BY <1>1, <3>1
    <3>3. QED
      BY <3>2
  <2>3. QED
    BY <2>1, <2>2 DEF Count, Divides
<1>3. half % 2 = 0
  <2>1. blocks % half = 0
    <3>1. (k * half) % half = 0
      BY <1>1
    <3>2. QED
      BY <1>2, <3>1
  <2>2. half \in 2 .. blocks
    BY <1>1, Constants
  <2>3. QED
    BY <2>1, <2>2, SortAssumption
<1>4. QED
  BY <1>1, <1>2, <1>3, Constants DEF Count, Divides, half


-----------------------------------------------------------------------------
(* Where the threads are, and what BLOCKS and curSize are there.           *)

Gather == {"chunk", "b_start", "b_end"}
Sorting == SortPC \cup {"b_sorted"}
Halving == {"g_halve", "b_halved"}
Round == {"g_scan", "g_merge", "b_merged"}
Last == {"m_last", "m_next"}
Ending == {"end", "m_join", "done"}

(* A worker can be at q while the main thread is at p. *)
Meets(p, q) ==
  \/ p \in Gather /\ (q \in Gather \/ (strayed /\ q \in Halving))
  \/ p \in Sorting /\ (q \in Sorting \/ (strayed /\ q \in Round))
  \/ p \in {"g_test", "b_round"} /\ q \in {"g_test", "b_round"}
  \/ p \in {"g_test"} \cup Last /\ q \in {"g_test", "b_chunk"}
  \/ p = "b_chunk" /\ (q \in {"g_test", "b_chunk"} \/ (strayed /\ q = "b_round"))
  \/ p \in Halving /\ q \in Halving
  \/ p \in Round /\ q \in Round
  \/ p \in Ending /\ (q \in Gather \cup {"unborn", "end", "done"} \/ (strayed /\ q \in Round))

Lockstep == \A t \in Workers : Meets(pc[0], pc[t])

Tests ==
  /\ \A t \in Threads :
       /\ pc[t] = "b_round" => BLOCKS > 4
       /\ pc[t] = "b_start" => curSize < Chunks
       /\ pc[t] = "b_end" => curSize >= Chunks
  /\ \A t \in Workers : pc[t] = "b_chunk" /\ pc[0] \in {"g_test"} \cup Last => BLOCKS <= 4
  /\ pc[0] = "g_halve" => BLOCKS > 4
  /\ pc[0] \in Last => BLOCKS <= 4
  /\ pc[0] \in {"b_halved"} \cup Round => BLOCKS <= blocks
  /\ pc[0] \in Gather \cup Sorting \cup Ending \cup {"b_chunk"} => BLOCKS = 2 * blocks
  /\ pc[0] \in {"g_test", "b_round"} \cup Sorting \cup Halving \cup Round \cup Last =>
       curSize < Chunks

Walk ==
  /\ pc \in [Threads -> Labels] /\ curSize \in 0 .. Chunks /\ strayed \in BOOLEAN
  /\ Count(BLOCKS) /\ Lockstep /\ Tests

LEMMA InitWalk == Init => Walk
<1> SUFFICES ASSUME Init PROVE Walk
  OBVIOUS
<1>1. PICK k \in 0 .. amount :
        pc = [t \in Threads |-> IF t = 0 /\ k < amount THEN "m_join"
                                ELSE IF t <= k THEN "chunk" ELSE "unborn"]
  BY DEF Init
<1>2. /\ pc[0] \in {"chunk", "m_join"} /\ (pc[0] = "chunk" => k = amount)
      /\ \A t \in Workers : /\ pc[t] \in {"chunk", "unborn"}
                            /\ (k = amount => pc[t] = "chunk")
  BY <1>1, Constants DEF Threads, Workers
<1>3. pc \in [Threads -> Labels]
  <2>1. {"m_join", "chunk", "unborn"} \subseteq Labels
    BY DEF Labels
  <2>2. QED
    BY <1>1, <2>1
<1>4. Lockstep
  BY <1>2 DEF Lockstep, Meets, Gather, Ending
<1>5. Tests
  BY <1>2, Constants DEF Init, Tests, Gather, Sorting, SortPC, Halving, Round, Last, Ending
<1>6. Count(BLOCKS)
  BY Constants DEF Init, Count, Divides
<1>7. curSize = 0 /\ strayed = FALSE
  BY DEF Init
<1>8. curSize \in 0 .. Chunks
  BY <1>7, SortAssumption
<1>9. strayed \in BOOLEAN
  BY <1>7
<1>10. QED
  BY <1>3, <1>4, <1>5, <1>6, <1>8, <1>9 DEF Walk

LEMMA Barriers ==
  /\ DOMAIN After = {"b_start", "b_sorted", "b_round", "b_halved", "b_merged", "b_chunk", "b_end"}
  /\ After["b_start"] = "s_own" /\ After["b_sorted"] = "g_test" /\ After["b_round"] = "g_halve"
  /\ After["b_halved"] = "g_scan" /\ After["b_merged"] = "g_test"
  /\ After["b_chunk"] = "chunk" /\ After["b_end"] = "end"
  BY DEF After

(* The barrier opens for all threads at once, so whoever met the main      *)
(* thread before meets it again.                                           *)
LEMMA BarrierWalk == ASSUME Walk, Barrier PROVE Walk'
<1>1. /\ \A t \in Threads : pc[t] \in DOMAIN After /\ pc'[t] = After[pc[t]]
      /\ UNCHANGED <<BLOCKS, curSize, strayed>>
  BY DEF Barrier
<1>2. pc' \in [Threads -> Labels]
  <2>1. \A b \in DOMAIN After : After[b] \in Labels
    BY Barriers DEF Labels, SortPC, MergePC
  <2>2. QED
    BY <2>1 DEF Barrier
<1>3. ASSUME NEW t \in Workers PROVE Meets(pc[0], pc[t])'
  <2>1. /\ Meets(pc[0], pc[t]) /\ pc[0] \in DOMAIN After /\ pc[t] \in DOMAIN After
        /\ pc'[0] = After[pc[0]] /\ pc'[t] = After[pc[t]]
    BY <1>1, Constants DEF Walk, Lockstep
  <2>2. /\ pc[t] = "b_start" => curSize < Chunks
        /\ pc[t] = "b_end" => curSize >= Chunks
        /\ pc[0] = "b_start" => curSize < Chunks
        /\ pc[0] = "b_end" => curSize >= Chunks
        /\ curSize \in Int /\ Chunks \in Int
    BY Constants DEF Walk, Tests
  <2>3. QED
    BY <1>1, <2>1, <2>2, Barriers DEF Meets, Gather, Sorting, Halving, Round, Last, Ending, SortPC
<1>4. /\ pc'[0] \in {"g_test"} \cup Sorting \cup Halving \cup Round =>
           pc[0] \in {"b_start", "b_round"} \cup Sorting \cup Halving \cup Round
      /\ \A t \in Threads : pc'[t] \notin DOMAIN After
      /\ pc'[0] \notin Last
      /\ pc'[0] = "g_halve" => pc[0] = "b_round"
      /\ pc'[0] \in Round => pc[0] = "b_halved"
      /\ pc'[0] \in Gather \cup Sorting \cup Ending => pc[0] \in {"b_start", "b_end", "b_chunk"}
  BY <1>1, Barriers, Constants DEF Last, Halving, Round, Gather, Sorting, SortPC, Ending
<1>5. Tests'
  <2>1. /\ \A t \in Threads : pc'[t] \notin {"b_start", "b_end", "b_round", "b_chunk"}
        /\ pc'[0] # "b_halved"
    BY <1>4, Barriers, Constants
  <2>2. QED
    BY <1>1, <1>4, <2>1, Constants DEF Walk, Tests, Gather
<1>6. QED
  BY <1>1, <1>2, <1>3, <1>5 DEF Walk, Lockstep, Count, Divides


(* A thread moves inside a phase. *)
LEMMA InsideWalk ==
  ASSUME Walk, NEW t \in Threads, NEW phase \in {Sorting, Round, Last}, NEW to \in phase,
         pc[t] \in phase, pc' = [pc EXCEPT ![t] = to], UNCHANGED <<BLOCKS, curSize, strayed>>
  PROVE  Walk'
<1>1. phase \subseteq Labels
  BY DEF Sorting, Round, Last, Labels, SortPC, MergePC, After
<1>2. /\ pc' \in [Threads -> Labels] /\ pc'[t] \in phase
      /\ \A u \in Threads \ {t} : pc'[u] = pc[u]
  BY <1>1 DEF Walk
<1>3. Lockstep'
  <2>1. ASSUME NEW u \in Workers PROVE Meets(pc[0], pc[u])'
    <3>1. Meets(pc[0], pc[u])
      BY DEF Walk, Lockstep
    <3>2. /\ pc'[0] = pc[0] \/ (pc'[0] \in phase /\ pc[0] \in phase)
          /\ pc'[u] = pc[u] \/ (pc'[u] \in phase /\ pc[u] \in phase)
      BY <1>2, Constants
    <3>3. QED
      BY <3>1, <3>2 DEF Meets, Gather, Sorting, SortPC, Halving, Round, Last, Ending
  <2>2. QED
    BY <2>1 DEF Lockstep
<1>4. Tests'
  <2>1. /\ phase \cap {"b_round", "b_start", "b_end", "b_chunk"} = {}
        /\ phase \cap {"g_test", "g_halve", "b_halved"} = {}
        /\ phase \cap (Gather \cup Ending) = {}
    BY DEF Gather, Sorting, SortPC, Halving, Round, Last, Ending
  <2>2. /\ phase \cap Sorting # {} => phase = Sorting
        /\ phase \cap Round # {} => phase = Round
        /\ phase \cap Last # {} => phase = Last
    BY DEF Sorting, SortPC, Round, Last
  <2>3. QED
    BY <1>2, <2>1, <2>2, Constants DEF Walk, Tests
<1>5. QED
  BY <1>2, <1>3, <1>4 DEF Walk, Count, Divides

LEMMA GatherWalk ==
  ASSUME Walk, NEW t \in Threads, NextChunk(t) \/ NoMoreChunks(t) PROVE Walk'
<1>1. PICK to \in {"b_start", "b_end"} :
        /\ pc[t] = "chunk" /\ pc' = [pc EXCEPT ![t] = to]
        /\ to = "b_start" => curSize < Chunks
        /\ to = "b_end" => curSize >= Chunks
        /\ UNCHANGED <<BLOCKS, curSize, strayed>>
  BY DEF NextChunk, NoMoreChunks, Goto
<1>2. to \in Labels
  BY Barriers DEF Labels
<1>3. /\ pc' \in [Threads -> Labels] /\ pc'[t] = to
      /\ \A u \in Threads \ {t} : pc'[u] = pc[u]
  BY <1>1, <1>2 DEF Walk
<1>4. Lockstep'
  <2>1. ASSUME NEW u \in Workers PROVE Meets(pc[0], pc[u])'
    <3>1. Meets(pc[0], pc[u])
      BY DEF Walk, Lockstep
    <3>2. /\ pc'[0] = pc[0] \/ (pc'[0] \in Gather /\ pc[0] = "chunk")
          /\ pc'[u] = pc[u] \/ (pc'[u] \in Gather /\ pc[u] = "chunk")
      BY <1>1, <1>3, Constants DEF Gather
    <3>3. QED
      BY <1>1, <3>1, <3>2 DEF Meets, Gather, Sorting, SortPC, Halving, Round, Last, Ending
  <2>2. QED
    BY <2>1 DEF Lockstep
<1>5. Tests'
  BY <1>1, <1>3, Constants DEF Walk, Tests, Gather, Sorting, SortPC, Halving, Round, Last, Ending
<1>6. QED
  BY <1>1, <1>3, <1>4, <1>5 DEF Walk, Count, Divides

(* A worker that begins a round while the main thread has done with the    *)
(* chunk strays; otherwise both see the same BLOCKS.                       *)
LEMMA TestWalk ==
  ASSUME Walk, NEW t \in Threads, AnotherRound(t) \/ LastRound(t) PROVE Walk'
<1>1. PICK to \in {"b_round", "b_chunk", "m_last"} :
        /\ pc[t] = "g_test" /\ pc' = [pc EXCEPT ![t] = to] /\ UNCHANGED <<BLOCKS, curSize>>
        /\ to = "b_round" => BLOCKS > 4
        /\ to # "b_round" => BLOCKS <= 4
        /\ strayed' = strayed \/ strayed' = (strayed \/ pc[0] \notin MergePC)
        /\ to = "b_round" /\ pc[0] \notin MergePC => strayed'
        /\ to = "m_last" => t = 0
        /\ to = "b_chunk" => t # 0
  BY DEF AnotherRound, LastRound, Goto
<1>2. to \in Labels
  BY Barriers DEF Labels, MergePC
<1>3. /\ pc' \in [Threads -> Labels] /\ pc'[t] = to
      /\ \A u \in Threads \ {t} : pc'[u] = pc[u]
  BY <1>1, <1>2 DEF Walk
<1>4. /\ strayed' \in BOOLEAN /\ BLOCKS \in Nat
      /\ strayed => strayed'
  <2>1. strayed \in BOOLEAN /\ BLOCKS \in Nat
    BY DEF Walk, Count
  <2>2. CASE strayed' = strayed
    BY <2>1, <2>2
  <2>3. CASE strayed' = (strayed \/ pc[0] \notin MergePC)
    BY <2>1, <2>3
  <2>4. QED
    BY <1>1, <2>2, <2>3
<1>5. Lockstep'
  <2>1. ASSUME NEW u \in Workers PROVE Meets(pc[0], pc[u])'
    <3>1. Meets(pc[0], pc[u])
      BY DEF Walk, Lockstep
    <3>2. /\ pc[u] = "b_round" => BLOCKS > 4
          /\ pc[u] = "b_chunk" /\ pc[0] \in {"g_test"} \cup Last => BLOCKS <= 4
          /\ pc[0] = "b_round" => BLOCKS > 4
          /\ pc[0] \in Last => BLOCKS <= 4
      BY Constants DEF Walk, Tests
    <3>3. CASE t = 0
      BY <1>1, <1>3, <1>4, <3>1, <3>2, <3>3, Constants
         DEF Meets, Gather, Sorting, SortPC, Halving, Round, Last, Ending
    <3>4. CASE t = u
      BY <1>1, <1>3, <1>4, <3>1, <3>2, <3>4, Constants
         DEF Meets, Gather, Sorting, SortPC, Halving, Round, Last, Ending, MergePC
    <3>5. CASE t # 0 /\ t # u
      BY <1>3, <1>4, <3>1, <3>5, Constants DEF Meets
    <3>6. QED
      BY <3>3, <3>4, <3>5
  <2>2. QED
    BY <2>1 DEF Lockstep
<1>6. Tests'
  BY <1>1, <1>3, <1>4, Constants
     DEF Walk, Tests, Gather, Sorting, SortPC, Halving, Round, Last, Ending
<1>7. QED
  BY <1>1, <1>3, <1>4, <1>5, <1>6 DEF Walk, Count, Divides


LEMMA HalveWalk == ASSUME Walk, NEW t \in Threads, Halve(t) PROVE Walk'
<1>1. /\ pc[t] = "g_halve" /\ pc' = [pc EXCEPT ![t] = "b_halved"]
      /\ IF t = 0 THEN BLOCKS' = BLOCKS \div 2 ELSE UNCHANGED BLOCKS
      /\ UNCHANGED <<curSize, strayed>>
  BY DEF Halve, Goto
<1>2. /\ pc' \in [Threads -> Labels] /\ pc'[t] = "b_halved"
      /\ \A u \in Threads \ {t} : pc'[u] = pc[u]
  BY <1>1, Barriers DEF Walk, Labels
<1>3. Count(BLOCKS') /\ (t = 0 => BLOCKS' <= blocks)
  <2>1. CASE t = 0
    BY <1>1, <2>1, Halved DEF Walk, Tests, Count
  <2>2. CASE t # 0
    BY <1>1, <2>2 DEF Walk
  <2>3. QED
    BY <2>1, <2>2
<1>4. Lockstep'
  <2>1. ASSUME NEW u \in Workers PROVE Meets(pc[0], pc[u])'
    <3>1. Meets(pc[0], pc[u])
      BY DEF Walk, Lockstep
    <3>2. /\ pc'[0] = pc[0] \/ (pc'[0] = "b_halved" /\ pc[0] = "g_halve")
          /\ pc'[u] = pc[u] \/ (pc'[u] = "b_halved" /\ pc[u] = "g_halve")
      BY <1>1, <1>2, Constants
    <3>3. QED
      BY <1>1, <3>1, <3>2 DEF Meets, Gather, Sorting, SortPC, Halving, Round, Last, Ending
  <2>2. QED
    BY <2>1 DEF Lockstep
<1>5. Tests'
  <2>1. CASE t = 0
    <3>1. \A u \in Workers : pc'[u] = pc[u] /\ pc[u] \in Halving
      BY <1>1, <1>2, <2>1, Constants
         DEF Walk, Lockstep, Meets, Gather, Sorting, SortPC, Halving, Round, Last, Ending
    <3>2. QED
      BY <1>1, <1>2, <1>3, <2>1, <3>1, Constants
         DEF Walk, Tests, Gather, Sorting, SortPC, Halving, Round, Last, Ending
  <2>2. CASE t # 0
    BY <1>1, <1>2, <2>2, Constants DEF Walk, Tests
  <2>3. QED
    BY <2>1, <2>2
<1>6. QED
  BY <1>1, <1>2, <1>3, <1>4, <1>5 DEF Walk, Count, Divides

LEMMA ChunkDoneWalk == ASSUME Walk, ChunkDone PROVE Walk'
<1>1. /\ pc[0] = "m_next" /\ pc' = [pc EXCEPT ![0] = "b_chunk"]
      /\ BLOCKS' = 2 * blocks /\ curSize' = curSize + 1 /\ UNCHANGED strayed
  BY DEF ChunkDone, Goto
<1>2. /\ pc' \in [Threads -> Labels] /\ pc'[0] = "b_chunk"
      /\ \A u \in Workers : pc'[u] = pc[u] /\ pc[u] \in {"g_test", "b_chunk"}
  BY <1>1, Barriers, Constants
     DEF Walk, Labels, Lockstep, Meets, Gather, Sorting, SortPC, Halving, Round, Last, Ending
<1>3. Count(BLOCKS') /\ curSize' \in 0 .. Chunks
  BY <1>1, Constants DEF Count, Divides, Walk, Tests, Last
<1>4. Lockstep' /\ Tests'
  BY <1>1, <1>2, Constants
     DEF Lockstep, Meets, Tests, Gather, Sorting, SortPC, Halving, Round, Last, Ending
<1>5. QED
  BY <1>1, <1>2, <1>3, <1>4 DEF Walk, Count, Divides

(* The end of the program. *)
LEMMA EndingWalk ==
  ASSUME Walk, AtExit \/ Joined \/ AllJoined \/ \E t \in Threads : WorkerEnds(t) \/ Cancelled(t)
  PROVE  Walk'
<1>1. PICK t \in Threads, to \in {"m_join", "done"} :
        /\ pc' = [pc EXCEPT ![t] = to] /\ UNCHANGED <<BLOCKS, curSize, strayed>>
        /\ t = 0 => pc[t] \in Ending
        /\ t # 0 => to = "done" /\ (pc[t] = "end" \/ (pc[t] = "chunk" /\ pc[0] = "m_join"))
  BY Constants DEF AtExit, Joined, AllJoined, WorkerEnds, Cancelled, Goto, Ending
<1>2. /\ pc' \in [Threads -> Labels] /\ pc'[t] = to
      /\ \A u \in Threads \ {t} : pc'[u] = pc[u]
  BY <1>1 DEF Walk, Labels
<1>3. Lockstep'
  <2>1. ASSUME NEW u \in Workers PROVE Meets(pc[0], pc[u])'
    <3>1. Meets(pc[0], pc[u])
      BY DEF Walk, Lockstep
    <3>2. QED
      BY <1>1, <1>2, <3>1, Constants
         DEF Meets, Gather, Sorting, SortPC, Halving, Round, Last, Ending
  <2>2. QED
    BY <2>1 DEF Lockstep
<1>4. Tests'
  BY <1>1, <1>2, Constants DEF Walk, Tests, Gather, Sorting, SortPC, Halving, Round, Last, Ending
<1>5. QED
  BY <1>1, <1>2, <1>3, <1>4 DEF Walk, Count, Divides

LEMMA PhaseWalk ==
  ASSUME Walk, NEW t \in Threads,
         \/ SortOwn(t) \/ ScanSkips(t) \/ ScanClaims(t) \/ Sorted(t) \/ ScanEnds(t)
         \/ MergeSkips(t) \/ MergeClaims(t) \/ ClaimsBehind(t) \/ SkipsBehind(t)
         \/ EndsMerge(t) \/ RoundEnds(t)
  PROVE  Walk'
<1>1. UNCHANGED <<BLOCKS, curSize, strayed>>
  BY DEF SortOwn, ScanSkips, ScanClaims, Sorted, ScanEnds, MergeSkips, MergeClaims, ClaimsBehind,
         SkipsBehind, EndsMerge, RoundEnds
<1>2. PICK phase \in {Sorting, Round, Last} :
        \E to \in phase : pc[t] \in phase /\ pc' = [pc EXCEPT ![t] = to]
  BY DEF SortOwn, ScanSkips, ScanClaims, Sorted, ScanEnds, MergeSkips, MergeClaims, ClaimsBehind,
         SkipsBehind, EndsMerge, RoundEnds, Goto, Sorting, SortPC, Round, Last
<1>3. QED
  BY <1>1, <1>2, InsideWalk

LEMMA NextWalk == Walk /\ [Next]_vars => Walk'
<1> SUFFICES ASSUME Walk, [Next]_vars PROVE Walk'
  OBVIOUS
<1>1. CASE UNCHANGED <<pc, BLOCKS, curSize, strayed>>
  BY <1>1 DEF Walk, Lockstep, Meets, Tests, Count, Divides
<1>2. CASE Barrier
  BY <1>2, BarrierWalk
<1>3. CASE MainStep
  <2>1. JoinFaults => Walk'
    BY <1>1 DEF JoinFaults
  <2>2. QED
    BY <1>3, <2>1, ChunkDoneWalk, EndingWalk DEF MainStep
<1>4. ASSUME NEW t \in Threads, ThreadStep(t) PROVE Walk'
  <2>1. MergeFaults(t) \/ Faults(t) => Walk'
    BY <1>1 DEF MergeFaults, Faults
  <2>2. QED
    BY <1>4, <2>1, GatherWalk, PhaseWalk, TestWalk, HalveWalk, EndingWalk DEF ThreadStep
<1>5. QED
  BY <1>1, <1>2, <1>3, <1>4 DEF Next, vars


LEMMA SpecWalk == Spec => []Walk
  BY InitWalk, NextWalk, PTL DEF Spec

(* The barriers keep sorting and merging apart, and the rounds of the      *)
(* merge, as long as no worker strays: one barrier for all the phases is   *)
(* enough.                                                                 *)
THEOREM RoundsInStep == Spec => []PhasesInStep
<1>1. Walk => PhasesInStep
  <2> SUFFICES ASSUME Walk, ~strayed, NEW t \in Threads, NEW u \in Threads
               PROVE  /\ ~(pc[t] \in SortPC /\ pc[u] \in MergePC \ {"b_sorted"})
                      /\ ~(pc[t] \in {"g_scan", "g_merge"} /\ pc[u] \in {"b_round", "g_halve"})
    BY DEF PhasesInStep
  <2>1. /\ t \in Workers => Meets(pc[0], pc[t])
        /\ u \in Workers => Meets(pc[0], pc[u])
        /\ t = 0 \/ t \in Workers
        /\ u = 0 \/ u \in Workers
    BY Constants DEF Walk, Lockstep
  <2>2. QED
    BY <2>1 DEF Meets, Gather, Sorting, SortPC, MergePC, Halving, Round, Last, Ending
<1>2. QED
  BY <1>1, SpecWalk, PTL

-----------------------------------------------------------------------------
(* The map, and how far each thread is in it.                              *)

MapType == i \in [Threads -> 0 .. 2 * blocks + 2] /\ busy \in [0 .. blocks -> BOOLEAN]

IndexInv ==
  \A t \in Threads :
    /\ pc[t] = "b_halved" => i[t] = 0
    /\ pc[t] \in Round => i[t] % 2 = 0
    /\ pc[t] = "s_sort" => i[t] < blocks
    /\ pc[t] = "g_merge" => i[t] <= blocks /\ i[t] <= BLOCKS

(* What a thread works at is claimed. *)
ClaimInv ==
  \A t \in Threads :
    /\ pc[t] = "s_own_sort" => busy[t]
    /\ pc[t] \in {"s_sort", "g_merge"} => busy[i[t]]

(* What the main thread has been past is claimed, by whomever; and in a    *)
(* round nothing is left to claim behind BLOCKS.                           *)
PassedInv ==
  /\ pc[0] = "b_start" => \A n \in Block : busy[n] <=> n < amount
  /\ pc[0] \in {"s_scan", "s_sort"} => \A n \in Block : n < i[0] => busy[n]
  /\ pc[0] = "b_sorted" => \A n \in Block : busy[n]
  /\ pc[0] \in {"g_test", "b_round", "g_halve", "b_merged"} =>
       \A n \in Block : n % 2 = 0 => busy[n]
  /\ pc[0] \in {"b_halved", "g_scan", "g_merge"} =>
       \A n \in Block : n % 2 = 0 /\ n >= BLOCKS => busy[n]
  /\ pc[0] \in {"g_scan", "g_merge"} => \A n \in Block : n % 2 = 0 /\ n < i[0] => busy[n]

Map == MapType /\ IndexInv /\ ClaimInv /\ PassedInv

LEMMA InitMap == Init => Map
<1> SUFFICES ASSUME Init PROVE Map
  OBVIOUS
<1>1. \A t \in Threads : pc[t] \in {"m_join", "chunk", "unborn"}
  BY Constants DEF Init
<1>2. MapType
  BY Constants DEF Init, MapType
<1>3. IndexInv /\ ClaimInv /\ PassedInv
  BY <1>1, Constants DEF IndexInv, ClaimInv, PassedInv, Round
<1>4. QED
  BY <1>2, <1>3 DEF Map

LEMMA BarrierMap == ASSUME Walk, Map, Barrier PROVE Map'
<1>1. /\ \A t \in Threads : pc[t] \in DOMAIN After /\ pc'[t] = After[pc[t]]
      /\ UNCHANGED <<i, busy, BLOCKS>>
  BY DEF Barrier
<1>2. \A t \in Threads : pc'[t] \notin {"b_halved", "g_merge", "b_merged", "s_sort", "s_own_sort"}
  BY <1>1, Barriers
<1>3. \A t \in Threads : pc'[t] = "g_scan" => pc[t] = "b_halved"
  BY <1>1, Barriers
<1>4. IndexInv' /\ ClaimInv'
  BY <1>1, <1>2, <1>3 DEF Map, IndexInv, ClaimInv, Round
<1>5. PassedInv'
  <2>1. /\ pc[0] \in DOMAIN After /\ pc'[0] = After[pc[0]]
        /\ pc[0] = "b_halved" => i[0] = 0
    BY <1>1, Constants DEF Map, IndexInv
  <2>2. \A n \in Block : n \in Nat
    BY Constants
  <2>3. /\ pc'[0] \in {"s_own", "g_test", "g_halve", "g_scan", "chunk", "end"}
        /\ pc'[0] = "g_test" => pc[0] \in {"b_sorted", "b_merged"}
        /\ pc'[0] = "g_halve" => pc[0] = "b_round"
        /\ pc'[0] = "g_scan" => pc[0] = "b_halved"
    BY <2>1, Barriers
  <2>4. pc'[0] \in {"g_test", "g_halve"} => \A n \in Block : n % 2 = 0 => busy'[n]
    BY <1>1, <2>3 DEF Map, PassedInv
  <2>5. pc'[0] = "g_scan" =>
          /\ \A n \in Block : n % 2 = 0 /\ n >= BLOCKS' => busy'[n]
          /\ \A n \in Block : ~(n < i'[0])
    BY <1>1, <2>1, <2>2, <2>3 DEF Map, PassedInv
  <2>6. QED
    BY <2>3, <2>4, <2>5 DEF PassedInv
<1>6. QED
  BY <1>1, <1>4, <1>5 DEF Map, MapType

(* A worker only claims, and not before the main thread has passed the     *)
(* first barrier.                                                          *)
LEMMA WorkerPassed ==
  ASSUME Walk, Map, NEW t \in Workers, UNCHANGED <<pc[0], i[0], BLOCKS>>,
         \A n \in 0 .. blocks : busy[n] => busy'[n],
         pc[t] \in Gather \cup Halving => UNCHANGED busy
  PROVE  PassedInv'
<1>1. pc[0] = "b_start" => UNCHANGED busy
  BY DEF Walk, Lockstep, Meets, Gather, Sorting, SortPC, Halving, Round, Last, Ending
<1>2. \A n \in Block : n \in 0 .. blocks
  BY Constants DEF Block
<1>3. QED
  BY <1>1, <1>2 DEF Map, PassedInv


(* Steps that neither claim nor look for anything. *)
LEMMA QuietMap ==
  ASSUME Walk, Map, NEW t \in Threads, \A u \in Threads \ {t} : pc'[u] = pc[u],
         pc'[t] \notin Round \cup {"b_halved", "s_sort", "s_own_sort"} \/
           (pc'[t] = "b_merged" /\ pc[t] = "g_scan"),
         UNCHANGED <<i, busy>>, BLOCKS' \in Nat, BLOCKS' >= BLOCKS,
         t = 0 => PassedInv', t # 0 => UNCHANGED BLOCKS
  PROVE  Map'
<1>1. /\ \A u \in Threads \ {t} : pc'[u] = pc[u]
      /\ pc'[t] \notin {"b_halved", "s_sort", "s_own_sort", "g_merge"}
      /\ pc'[t] \in Round => pc[t] \in Round
  BY DEF Round
<1>2. BLOCKS \in Nat /\ i \in [Threads -> 0 .. 2 * blocks + 2] /\ blocks \in Nat
  BY Constants DEF Walk, Count, Map, MapType
<1>3. IndexInv'
  <2> SUFFICES ASSUME NEW u \in Threads
               PROVE  /\ pc'[u] = "b_halved" => i[u] = 0
                      /\ pc'[u] \in Round => i[u] % 2 = 0
                      /\ pc'[u] = "s_sort" => i[u] < blocks
                      /\ pc'[u] = "g_merge" => i[u] <= blocks /\ i[u] <= BLOCKS'
    BY DEF IndexInv
  <2>1. /\ pc[u] = "b_halved" => i[u] = 0
        /\ pc[u] \in Round => i[u] % 2 = 0
        /\ pc[u] = "s_sort" => i[u] < blocks
        /\ pc[u] = "g_merge" => i[u] <= blocks /\ i[u] <= BLOCKS
    BY DEF Map, IndexInv
  <2>2. CASE u = t
    BY <1>1, <1>2, <2>1, <2>2
  <2>3. CASE u # t
    <3>1. pc'[u] = pc[u] /\ i[u] \in Nat
      BY <1>1, <1>2, <2>3
    <3>2. QED
      BY <1>2, <2>1, <3>1
  <2>4. QED
    BY <2>2, <2>3
<1>4. ClaimInv'
  BY <1>1 DEF Map, ClaimInv
<1>5. PassedInv'
  <2>1. t # 0 => t \in Workers /\ pc'[0] = pc[0]
    BY <1>1, Constants
  <2>2. QED
    BY <2>1, WorkerPassed
<1>6. QED
  BY <1>3, <1>4, <1>5 DEF Map, MapType

LEMMA ReadyMap ==
  ASSUME Walk, Map, NEW t \in Threads, NextChunk(t) \/ NoMoreChunks(t) PROVE Map'
<1>1. PICK to \in {"b_start", "b_end"} :
        /\ pc' = [pc EXCEPT ![t] = to] /\ UNCHANGED <<i, BLOCKS>> /\ pc[t] = "chunk"
        /\ t # 0 \/ to = "b_end" => UNCHANGED busy
        /\ t = 0 /\ to = "b_start" =>
             \E behind \in BOOLEAN :
               busy' = [n \in 0 .. blocks |-> IF n = blocks THEN behind ELSE n < amount]
  BY DEF NextChunk, NoMoreChunks, Goto
<1>2. pc'[t] = to /\ \A u \in Threads \ {t} : pc'[u] = pc[u]
  BY <1>1 DEF Walk
<1>3. BLOCKS \in Nat
  BY DEF Walk, Count
<1>4. CASE UNCHANGED busy /\ (t = 0 => to = "b_end")
  <2>1. pc'[t] \notin Round \cup {"b_halved", "s_sort", "s_own_sort"}
    BY <1>2 DEF Round
  <2>2. t = 0 => PassedInv'
    BY <1>2, <1>4 DEF PassedInv
  <2>3. QED
    BY <1>1, <1>2, <1>3, <1>4, <2>1, <2>2, QuietMap
<1>5. CASE t = 0 /\ to = "b_start"
  <2>1. \A u \in Threads : pc'[u] \notin Sorting \cup Round
    BY <1>1, <1>2, <1>5, Constants
       DEF Walk, Lockstep, Meets, Gather, Sorting, SortPC, Halving, Round, Last, Ending
  <2>2. PICK behind \in BOOLEAN :
          busy' = [n \in 0 .. blocks |-> IF n = blocks THEN behind ELSE n < amount]
    BY <1>1, <1>5
  <2>3. MapType'
    <3>1. ASSUME NEW n \in 0 .. blocks
          PROVE  (IF n = blocks THEN behind ELSE n < amount) \in BOOLEAN
      <4>1. CASE n = blocks
        BY <4>1
      <4>2. CASE n # blocks
        BY <4>2
      <4>3. QED
        BY <4>1, <4>2
    <3>2. QED
      BY <1>1, <2>2, <3>1 DEF Map, MapType
  <2>4. IndexInv' /\ ClaimInv'
    BY <1>1, <1>2, <1>5, <2>1 DEF Map, IndexInv, ClaimInv, Sorting, SortPC, Round
  <2>5. \A n \in Block : busy'[n] <=> n < amount
    <3>1. \A n \in Block : n \in 0 .. blocks /\ n # blocks
      BY Constants DEF Block
    <3>2. QED
      BY <2>2, <3>1
  <2>6. PassedInv'
    BY <1>2, <1>5, <2>5 DEF PassedInv
  <2>7. QED
    BY <2>3, <2>4, <2>6 DEF Map
<1>6. QED
  BY <1>1, <1>4, <1>5

LEMMA QuietSteps ==
  ASSUME Walk, Map, NEW t \in Threads,
         \/ ScanEnds(t) \/ AnotherRound(t) \/ LastRound(t) \/ RoundEnds(t)
         \/ WorkerEnds(t) \/ Cancelled(t) \/ (t = 0 /\ (ChunkDone \/ AllJoined))
         \/ (EndsMerge(t) /\ pc[t] = "m_last")
  PROVE  Map'
<1>1. /\ BLOCKS \in Nat /\ BLOCKS <= 2 * blocks /\ blocks \in Nat
      /\ i \in [Threads -> Nat] /\ \A n \in Block : n \in Nat /\ n < blocks
  BY Constants DEF Walk, Count, Map, MapType, Block
<1>2. PICK to \in {"b_sorted", "b_round", "m_last", "b_chunk", "b_merged", "done", "m_next"} :
        /\ pc' = [pc EXCEPT ![t] = to] /\ UNCHANGED <<i, busy>>
        /\ BLOCKS' = BLOCKS \/ (t = 0 /\ BLOCKS' = 2 * blocks)
        /\ to = "b_sorted" => i[t] >= blocks /\ pc[t] = "s_scan"
        /\ to = "b_merged" => i[t] > BLOCKS /\ BLOCKS' = BLOCKS /\ pc[t] = "g_scan"
        /\ to = "b_round" => pc[t] = "g_test"
  BY DEF ScanEnds, AnotherRound, LastRound, RoundEnds, WorkerEnds, Cancelled, ChunkDone,
         AllJoined, EndsMerge, Goto
<1>3. pc'[t] = to /\ \A u \in Threads \ {t} : pc'[u] = pc[u]
  BY <1>2 DEF Walk
<1>4. t = 0 => PassedInv'
  <2> SUFFICES ASSUME t = 0 PROVE PassedInv'
    OBVIOUS
  <2>1. to = "b_sorted" => \A n \in Block : busy'[n]
    BY <1>1, <1>2, Constants DEF Map, PassedInv
  <2>2. to \in {"b_merged", "b_round"} => \A n \in Block : n % 2 = 0 => busy'[n]
    BY <1>1, <1>2, Constants DEF Map, PassedInv
  <2>3. QED
    BY <1>3, <2>1, <2>2 DEF PassedInv
<1>5. BLOCKS' \in Nat /\ BLOCKS' >= BLOCKS /\ (t # 0 => UNCHANGED BLOCKS)
  BY <1>1, <1>2
<1>6. pc'[t] \notin Round \cup {"b_halved", "s_sort", "s_own_sort"} \/
        (pc'[t] = "b_merged" /\ pc[t] = "g_scan")
  BY <1>2, <1>3 DEF Round
<1>7. QED
  BY <1>2, <1>3, <1>4, <1>5, <1>6, QuietMap


(* IndexInv and ClaimInv for one thread. *)
Place(t) ==
  /\ pc[t] = "b_halved" => i[t] = 0
  /\ pc[t] \in Round => i[t] % 2 = 0
  /\ pc[t] = "s_sort" => i[t] < blocks
  /\ pc[t] = "g_merge" => i[t] <= blocks /\ i[t] <= BLOCKS
  /\ pc[t] = "s_own_sort" => busy[t]
  /\ pc[t] \in {"s_sort", "g_merge"} => busy[i[t]]

(* A thread's own steps: the map only fills. *)
LEMMA StepMap ==
  ASSUME Walk, Map, NEW t \in Threads, MapType',
         \A u \in Threads \ {t} : pc'[u] = pc[u] /\ i'[u] = i[u],
         \A n \in 0 .. blocks : busy[n] => busy'[n], UNCHANGED BLOCKS,
         Place(t)', t = 0 => PassedInv', pc[t] \in Gather \cup Halving => UNCHANGED busy
  PROVE  Map'
<1>1. ASSUME NEW u \in Threads PROVE Place(u)'
  <2>1. CASE u # t
    <3>1. Place(u)
      BY DEF Map, IndexInv, ClaimInv, Place
    <3>2. pc'[u] = pc[u] /\ i'[u] = i[u] /\ BLOCKS' = BLOCKS
      BY <2>1
    <3>3. /\ u \in 0 .. blocks
          /\ pc[u] \in {"s_sort", "g_merge"} => i[u] \in 0 .. blocks
      BY <3>1, Constants DEF Place, Map, MapType, Block
    <3>4. QED
      BY <3>1, <3>2, <3>3 DEF Place
  <2>2. QED
    BY <2>1
<1>2. IndexInv' /\ ClaimInv'
  BY <1>1 DEF IndexInv, ClaimInv, Place
<1>3. PassedInv'
  <2>1. t # 0 => t \in Workers /\ pc'[0] = pc[0] /\ i'[0] = i[0]
    BY Constants
  <2>2. QED
    BY <2>1, WorkerPassed
<1>4. QED
  BY <1>2, <1>3 DEF Map

LEMMA MapFacts ==
  ASSUME Walk, Map
  PROVE  /\ BLOCKS \in Nat /\ BLOCKS <= 2 * blocks /\ blocks \in Nat /\ BLOCKS >= 4
         /\ BLOCKS % 2 = 0 /\ i \in [Threads -> 0 .. 2 * blocks + 2]
         /\ i \in [Threads -> Nat] /\ Threads \subseteq 0 .. blocks
         /\ \A n \in Block : n \in Nat /\ n < blocks /\ n \in 0 .. blocks
  BY Constants DEF Walk, Count, Map, MapType, Block

LEMMA SortOwnMap == ASSUME Walk, Map, NEW t \in Threads, SortOwn(t) PROVE Map'
<1>1. /\ pc[t] = "s_own" /\ pc' = [pc EXCEPT ![t] = "s_own_sort"]
      /\ busy' = [busy EXCEPT ![t] = TRUE] /\ UNCHANGED <<i, BLOCKS>>
  BY DEF SortOwn, Goto
<1>2. pc'[t] = "s_own_sort" /\ \A u \in Threads \ {t} : pc'[u] = pc[u]
  BY <1>1 DEF Walk
<1>3. MapType' /\ busy'[t] /\ \A n \in 0 .. blocks : busy[n] => busy'[n]
  BY <1>1, MapFacts DEF Map, MapType
<1>4. Place(t)'
  BY <1>2, <1>3 DEF Place, Round
<1>5. t = 0 => PassedInv'
  BY <1>2 DEF PassedInv
<1>6. pc[t] \notin Gather \cup Halving
  BY <1>1 DEF Gather, Halving
<1>7. QED
  BY <1>1, <1>2, <1>3, <1>4, <1>5, <1>6, StepMap

LEMMA ScanMap ==
  ASSUME Walk, Map, NEW t \in Threads, ScanSkips(t) \/ ScanClaims(t) PROVE Map'
<1>1. /\ pc[t] = "s_scan" /\ i[t] < blocks /\ UNCHANGED BLOCKS
      /\ \/ /\ busy[i[t]] /\ pc' = [pc EXCEPT ![t] = "s_scan"]
            /\ i' = [i EXCEPT ![t] = @ + 1] /\ UNCHANGED busy
         \/ /\ pc' = [pc EXCEPT ![t] = "s_sort"]
            /\ busy' = [busy EXCEPT ![i[t]] = TRUE] /\ UNCHANGED i
  BY DEF ScanSkips, ScanClaims, Goto
<1>2. /\ \/ pc'[t] = "s_scan" /\ i'[t] = i[t] + 1
         \/ pc'[t] = "s_sort" /\ i'[t] = i[t]
      /\ \A u \in Threads \ {t} : pc'[u] = pc[u] /\ i'[u] = i[u]
  BY <1>1, MapFacts DEF Walk
<1>3. /\ MapType' /\ busy'[i[t]] /\ \A n \in 0 .. blocks : busy[n] => busy'[n]
  <2>1. i[t] \in 0 .. blocks /\ i[t] + 1 \in 0 .. 2 * blocks + 2
    BY <1>1, MapFacts
  <2>2. i' \in [Threads -> 0 .. 2 * blocks + 2]
    BY <1>1, <2>1 DEF Map, MapType
  <2>3. /\ busy' \in [0 .. blocks -> BOOLEAN] /\ busy'[i[t]]
        /\ \A n \in 0 .. blocks : busy[n] => busy'[n]
    BY <1>1, <2>1 DEF Map, MapType
  <2>4. QED
    BY <2>2, <2>3 DEF MapType
<1>4. Place(t)'
  BY <1>1, <1>2, <1>3 DEF Place, Round
<1>5. t = 0 => PassedInv'
  <2> SUFFICES ASSUME t = 0 PROVE PassedInv'
    OBVIOUS
  <2>1. \A n \in Block : n < i'[0] => n < i[0] \/ n = i[0]
    BY <1>2, MapFacts
  <2>2. \A n \in Block : n < i'[0] => busy'[n]
    BY <1>1, <1>3, <2>1, MapFacts DEF Map, PassedInv
  <2>3. QED
    BY <1>2, <2>2 DEF PassedInv
<1>6. pc[t] \notin Gather \cup Halving
  BY <1>1 DEF Gather, Halving
<1>7. QED
  BY <1>1, <1>2, <1>3, <1>4, <1>5, <1>6, StepMap

LEMMA SortedMap == ASSUME Walk, Map, NEW t \in Threads, Sorted(t) PROVE Map'
<1>1. /\ pc' = [pc EXCEPT ![t] = "s_scan"] /\ UNCHANGED <<busy, BLOCKS>>
      /\ \/ pc[t] = "s_own_sort" /\ i' = [i EXCEPT ![t] = t]
         \/ pc[t] = "s_sort" /\ i' = [i EXCEPT ![t] = @ + 1]
  BY DEF Sorted, Goto
<1>2. /\ pc'[t] = "s_scan" /\ i'[t] \in 0 .. 2 * blocks + 2
      /\ \/ pc[t] = "s_own_sort" /\ i'[t] = t
         \/ pc[t] = "s_sort" /\ i'[t] = i[t] + 1
      /\ \A u \in Threads \ {t} : pc'[u] = pc[u] /\ i'[u] = i[u]
  <2>1. t \in Nat /\ t <= blocks /\ (pc[t] = "s_sort" => i[t] < blocks)
    BY MapFacts DEF Map, IndexInv
  <2>2. QED
    BY <1>1, <2>1, MapFacts DEF Walk
<1>3. MapType'
  BY <1>1, <1>2 DEF Map, MapType
<1>4. Place(t)'
  BY <1>2 DEF Place, Round
<1>5. t = 0 => PassedInv'
  <2> SUFFICES ASSUME t = 0 PROVE PassedInv'
    OBVIOUS
  <2>1. \A n \in Block : n < i'[0] => pc[0] = "s_sort" /\ (n < i[0] \/ n = i[0])
    BY <1>2, MapFacts
  <2>2. \A n \in Block : n < i'[0] => busy[n]
    BY <2>1, MapFacts DEF Map, PassedInv, ClaimInv
  <2>3. QED
    BY <1>1, <1>2, <2>2 DEF PassedInv
<1>6. QED
  BY <1>1, <1>2, <1>3, <1>4, <1>5, StepMap


(* BLOCKS is halved and all but what is behind it becomes free again.      *)
LEMMA HalveMap == ASSUME Walk, Map, NEW t \in Threads, Halve(t) PROVE Map'
<1>1. /\ pc[t] = "g_halve" /\ pc' = [pc EXCEPT ![t] = "b_halved"] /\ i' = [i EXCEPT ![t] = 0]
      /\ t = 0 => /\ BLOCKS' = BLOCKS \div 2
                  /\ busy' = [n \in 0 .. blocks |-> n >= BLOCKS \div 2 /\ busy[n]]
      /\ t # 0 => UNCHANGED <<BLOCKS, busy>>
  BY DEF Halve, Goto
<1>2. /\ pc'[t] = "b_halved" /\ i'[t] = 0 /\ i' \in [Threads -> 0 .. 2 * blocks + 2]
      /\ \A u \in Threads \ {t} : pc'[u] = pc[u] /\ i'[u] = i[u]
  BY <1>1, MapFacts DEF Walk
<1>3. CASE t # 0
  <2>1. MapType' /\ Place(t)'
    BY <1>1, <1>2, <1>3 DEF Map, MapType, Place, Round
  <2>2. QED
    BY <1>1, <1>2, <1>3, <2>1, StepMap
<1>4. CASE t = 0
  <2>1. MapType'
    <3>1. \A n \in 0 .. blocks : (n >= BLOCKS \div 2 /\ busy[n]) \in BOOLEAN
      OBVIOUS
    <3>2. QED
      BY <1>1, <1>2, <1>4, <3>1 DEF MapType
  <2>2. \A u \in Threads : pc'[u] \in Halving
    BY <1>1, <1>2, <1>4, Constants
       DEF Walk, Lockstep, Meets, Gather, Sorting, SortPC, Halving, Round, Last, Ending
  <2>3. IndexInv' /\ ClaimInv'
    BY <1>2, <2>2 DEF Map, IndexInv, ClaimInv, Halving, Round
  <2>4. \A n \in Block : n % 2 = 0 /\ n >= BLOCKS' => busy'[n]
    <3>1. \A n \in Block : n % 2 = 0 => busy[n]
      BY <1>1, <1>4 DEF Map, PassedInv
    <3>2. QED
      BY <1>1, <1>4, <3>1, MapFacts
  <2>5. PassedInv'
    BY <1>2, <1>4, <2>4 DEF PassedInv
  <2>6. QED
    BY <2>1, <2>3, <2>5 DEF Map
<1>5. QED
  BY <1>3, <1>4

(* The main thread goes on in a round. *)
LEMMA OnInRound ==
  ASSUME Walk, Map, pc[0] \in {"g_scan", "g_merge"}, pc'[0] = "g_scan", i'[0] = i[0] + 2,
         i[0] < blocks => busy[i[0]], UNCHANGED <<busy, BLOCKS>>
  PROVE  PassedInv'
<1>1. i[0] \in Nat /\ i[0] % 2 = 0
  BY MapFacts, Constants DEF Map, IndexInv, Round
<1>2. ASSUME NEW n \in Block, n % 2 = 0, n < i[0] + 2 PROVE n < i[0] \/ n = i[0]
  BY <1>1, <1>2, MapFacts
<1>3. \A n \in Block : n % 2 = 0 /\ n < i'[0] => busy[n]
  BY <1>2, MapFacts DEF Map, PassedInv
<1>4. \A n \in Block : n % 2 = 0 /\ n >= BLOCKS => busy[n]
  BY DEF Map, PassedInv
<1>5. QED
  BY <1>3, <1>4 DEF PassedInv

LEMMA MergeSkipsMap == ASSUME Walk, Map, NEW t \in Threads, MergeSkips(t) PROVE Map'
<1>1. /\ pc[t] = "g_scan" /\ pc' = [pc EXCEPT ![t] = "g_scan"] /\ i' = [i EXCEPT ![t] = @ + 2]
      /\ i[t] <= BLOCKS /\ LooksBusy(i[t]) /\ UNCHANGED <<busy, BLOCKS>>
  BY DEF MergeSkips, Goto
<1>2. /\ pc'[t] = "g_scan" /\ i'[t] = i[t] + 2 /\ i[t] \in Nat /\ i[t] % 2 = 0
      /\ i' \in [Threads -> 0 .. 2 * blocks + 2]
      /\ \A u \in Threads \ {t} : pc'[u] = pc[u] /\ i'[u] = i[u]
  <2>1. i[t] + 2 \in 0 .. 2 * blocks + 2
    BY <1>1, MapFacts
  <2>2. i[t] \in Nat /\ i[t] % 2 = 0
    BY <1>1, MapFacts DEF Map, IndexInv, Round
  <2>3. QED
    BY <1>1, <2>1, <2>2, MapFacts DEF Walk
<1>3. MapType'
  BY <1>1, <1>2 DEF Map, MapType
<1>4. Place(t)'
  BY <1>2 DEF Place
<1>5. t = 0 => PassedInv'
  <2>1. t = 0 /\ i[0] < blocks => busy[i[0]]
    BY <1>1, <1>2, MapFacts DEF LooksBusy
  <2>2. QED
    BY <1>1, <1>2, <2>1, OnInRound
<1>6. QED
  BY <1>1, <1>2, <1>3, <1>4, <1>5, StepMap

LEMMA MergeClaimsMap ==
  ASSUME Walk, Map, NEW t \in Threads, MergeClaims(t) \/ ClaimsBehind(t) PROVE Map'
<1>1. /\ pc[t] = "g_scan" /\ pc' = [pc EXCEPT ![t] = "g_merge"]
      /\ i[t] <= BLOCKS /\ i[t] <= blocks
      /\ busy' = [busy EXCEPT ![i[t]] = TRUE] /\ UNCHANGED <<i, BLOCKS>>
  <2>1. i[t] < blocks \/ i[t] = blocks => i[t] <= blocks
    BY MapFacts
  <2>2. QED
    BY <2>1 DEF MergeClaims, ClaimsBehind, Goto
<1>2. /\ pc'[t] = "g_merge" /\ i[t] % 2 = 0 /\ i[t] \in 0 .. blocks
      /\ \A u \in Threads \ {t} : pc'[u] = pc[u] /\ i'[u] = i[u]
  BY <1>1, MapFacts DEF Walk, Map, IndexInv, Round
<1>3. /\ busy' \in [0 .. blocks -> BOOLEAN] /\ busy'[i[t]]
      /\ \A n \in 0 .. blocks : busy[n] => busy'[n]
  BY <1>1, <1>2 DEF Map, MapType
<1>4. MapType' /\ Place(t)'
  BY <1>1, <1>2, <1>3 DEF Map, MapType, Place
<1>5. t = 0 => PassedInv'
  <2> SUFFICES ASSUME t = 0 PROVE PassedInv'
    OBVIOUS
  <2>1. /\ \A n \in Block : n % 2 = 0 /\ n >= BLOCKS => busy[n]
        /\ \A n \in Block : n % 2 = 0 /\ n < i[0] => busy[n]
    BY <1>1 DEF Map, PassedInv
  <2>2. QED
    BY <1>1, <1>2, <1>3, <2>1, MapFacts DEF PassedInv
<1>6. pc[t] \notin Gather \cup Halving
  BY <1>1 DEF Gather, Halving
<1>7. QED
  BY <1>1, <1>2, <1>3, <1>4, <1>5, <1>6, StepMap

LEMMA SkipsBehindMap == ASSUME Walk, Map, NEW t \in Threads, SkipsBehind(t) PROVE Map'
<1>1. /\ pc[t] = "g_scan" /\ pc' = [pc EXCEPT ![t] = "g_scan"] /\ i' = [i EXCEPT ![t] = @ + 2]
      /\ i[t] = blocks /\ busy' = [busy EXCEPT ![blocks] = TRUE] /\ UNCHANGED BLOCKS
  BY DEF SkipsBehind, Goto
<1>2. /\ pc'[t] = "g_scan" /\ i'[t] = i[t] + 2 /\ i[t] \in Nat /\ i[t] % 2 = 0
      /\ i' \in [Threads -> 0 .. 2 * blocks + 2]
      /\ \A u \in Threads \ {t} : pc'[u] = pc[u] /\ i'[u] = i[u]
  <2>1. i[t] + 2 \in 0 .. 2 * blocks + 2
    BY <1>1, MapFacts
  <2>2. i[t] \in Nat /\ i[t] % 2 = 0
    BY <1>1, MapFacts DEF Map, IndexInv, Round
  <2>3. QED
    BY <1>1, <2>1, <2>2, MapFacts DEF Walk
<1>3. /\ busy' \in [0 .. blocks -> BOOLEAN]
      /\ \A n \in 0 .. blocks : busy[n] => busy'[n]
  BY <1>1, MapFacts DEF Map, MapType
<1>4. MapType' /\ Place(t)'
  BY <1>2, <1>3 DEF MapType, Place
<1>5. t = 0 => PassedInv'
  <2> SUFFICES ASSUME t = 0 PROVE PassedInv'
    OBVIOUS
  <2>1. /\ \A n \in Block : n % 2 = 0 /\ n >= BLOCKS => busy[n]
        /\ \A n \in Block : n % 2 = 0 /\ n < i[0] => busy[n]
    BY <1>1 DEF Map, PassedInv
  <2>2. \A n \in Block : n \in 0 .. blocks /\ n < i[0]
    BY <1>1, MapFacts
  <2>3. \A n \in Block : n % 2 = 0 => busy'[n]
    BY <1>3, <2>1, <2>2
  <2>4. QED
    BY <1>2, <2>3 DEF PassedInv
<1>6. pc[t] \notin Gather \cup Halving
  BY <1>1 DEF Gather, Halving
<1>7. QED
  BY <1>1, <1>2, <1>3, <1>4, <1>5, <1>6, StepMap

LEMMA EndsMergeMap == ASSUME Walk, Map, NEW t \in Threads, EndsMerge(t) PROVE Map'
<1>1. CASE pc[t] = "m_last"
  BY <1>1, QuietSteps
<1>2. CASE pc[t] # "m_last"
  <2>1. /\ pc[t] = "g_merge" /\ pc' = [pc EXCEPT ![t] = "g_scan"] /\ i' = [i EXCEPT ![t] = @ + 2]
        /\ UNCHANGED <<busy, BLOCKS>>
    BY <1>2 DEF EndsMerge, Goto
  <2>2. /\ i[t] \in Nat /\ i[t] % 2 = 0 /\ i[t] <= blocks /\ busy[i[t]]
        /\ i[t] + 2 \in 0 .. 2 * blocks + 2
    BY <2>1, MapFacts DEF Map, IndexInv, ClaimInv, Round
  <2>3. /\ pc'[t] = "g_scan" /\ i'[t] = i[t] + 2 /\ i' \in [Threads -> 0 .. 2 * blocks + 2]
        /\ \A u \in Threads \ {t} : pc'[u] = pc[u] /\ i'[u] = i[u]
    BY <2>1, <2>2, MapFacts DEF Walk
  <2>4. MapType' /\ Place(t)'
    BY <2>1, <2>2, <2>3 DEF Map, MapType, Place
  <2>5. t = 0 => PassedInv'
    BY <2>1, <2>2, <2>3, OnInRound
  <2>6. QED
    BY <2>1, <2>3, <2>4, <2>5, StepMap
<1>3. QED
  BY <1>1, <1>2

LEMMA JoinMap == ASSUME Walk, Map, AtExit \/ Joined PROVE Map'
<1>1. /\ pc' = [pc EXCEPT ![0] = "m_join"] /\ UNCHANGED <<busy, BLOCKS>>
      /\ i' = [i EXCEPT ![0] = 1] \/ (i[0] \in Workers /\ i' = [i EXCEPT ![0] = @ + 1])
  BY DEF AtExit, Joined, Goto
<1>2. /\ pc'[0] = "m_join" /\ i' \in [Threads -> 0 .. 2 * blocks + 2]
      /\ \A u \in Threads \ {0} : pc'[u] = pc[u] /\ i'[u] = i[u]
  <2>1. 1 \in 0 .. 2 * blocks + 2 /\ \A n \in Workers : n + 1 \in 0 .. 2 * blocks + 2
    BY Constants DEF Workers
  <2>2. QED
    BY <1>1, <2>1, MapFacts, Constants DEF Walk
<1>3. MapType' /\ Place(0)' /\ PassedInv'
  BY <1>1, <1>2 DEF Map, MapType, Place, PassedInv, Round
<1>4. QED
  BY <1>1, <1>2, <1>3, Constants, StepMap

LEMMA NextMap == Walk /\ Map /\ [Next]_vars => Map'
<1> SUFFICES ASSUME Walk, Map, [Next]_vars PROVE Map'
  OBVIOUS
<1>1. CASE UNCHANGED <<pc, i, busy, BLOCKS>>
  BY <1>1 DEF Map, MapType, IndexInv, ClaimInv, PassedInv
<1>2. CASE Barrier
  BY <1>2, BarrierMap
<1>3. CASE MainStep
  <2>1. JoinFaults => Map'
    BY <1>1 DEF JoinFaults
  <2>2. ChunkDone \/ AllJoined => Map'
    BY Constants, QuietSteps
  <2>3. QED
    BY <1>3, <2>1, <2>2, JoinMap DEF MainStep
<1>4. ASSUME NEW t \in Threads, ThreadStep(t) PROVE Map'
  <2>1. MergeFaults(t) \/ Faults(t) => Map'
    BY <1>1 DEF MergeFaults, Faults
  <2>2. QED
    BY <1>4, <2>1, ReadyMap, QuietSteps, SortOwnMap, ScanMap, SortedMap, HalveMap, MergeSkipsMap,
       MergeClaimsMap, SkipsBehindMap, EndsMergeMap DEF ThreadStep
<1>5. QED
  BY <1>1, <1>2, <1>3, <1>4 DEF Next, vars


-----------------------------------------------------------------------------
(* What the threads write to.                                              *)

LEMMA Quotient ==
  ASSUME NEW x \in Nat, NEW n \in Nat, n >= 1, NEW b \in Nat, x < n * b
  PROVE  x \div n \in Nat /\ x \div n < b
  OBVIOUS

LEMMA PartsInBlock ==
  ASSUME NEW n \in Nat, NEW no \in Nat, no + 2 <= n PROVE Parts(n, no) \subseteq Block
<1>1. /\ no * blocks \in Nat /\ (no + 2) * blocks - 1 \in Nat
      /\ (no + 2) * blocks - 1 < n * blocks
  <2>1. (no + 2) * blocks <= n * blocks
    BY Constants, Monotone
  <2>2. (no + 2) * blocks >= 1 /\ no * blocks \in Nat /\ n * blocks \in Nat
    BY Constants
  <2>3. QED
    BY <2>1, <2>2, Constants
<1>2. (no * blocks) \div n \in Nat
  BY <1>1
<1>3. ((no + 2) * blocks - 1) \div n < blocks
  BY <1>1, Quotient, Constants
<1>4. QED
  BY <1>2, <1>3, Constants DEF Parts, Block

LEMMA PartsExact ==
  ASSUME NEW n \in Nat, n >= 1, NEW k \in Nat, k >= 1, k * n = blocks, NEW no \in Nat
  PROVE  Parts(n, no) = no * k .. (no + 2) * k - 1
<1>1. no * blocks = (no * k) * n /\ (no + 2) * blocks = ((no + 2) * k) * n
  OBVIOUS
<1>2. no * k \in Nat /\ (no + 2) * k \in Nat /\ (no + 2) * k >= 1
  OBVIOUS
<1>3. ((no * k) * n) \div n = no * k /\ (((no + 2) * k) * n - 1) \div n = (no + 2) * k - 1
  BY <1>2, Multiples
<1>4. QED
  BY <1>1, <1>3 DEF Parts

LEMMA MaxOfTwo ==
  ASSUME NEW a \in Int, NEW b \in Int
  PROVE  Max({a, b}) \in {a, b} /\ Max({a, b}) >= a /\ Max({a, b}) >= b
<1>1. \E x \in {a, b} : \A y \in {a, b} : x >= y
  OBVIOUS
<1>2. QED
  BY <1>1 DEF Max


LEMMA MergedType ==
  ASSUME size \in [Block -> 0 .. blocks], NEW s \in SUBSET Block
  PROVE  Merged(s) \in [Block -> 0 .. blocks]
<1>1. Cardinality(s) \in 0 .. blocks
  <2>1. IsFiniteSet(Block) /\ Cardinality(Block) = blocks
    BY FS_Interval, Constants DEF Block
  <2>2. IsFiniteSet(s) /\ Cardinality(s) <= Cardinality(Block)
    BY <2>1, FS_Subset
  <2>3. Cardinality(s) \in Nat
    BY <2>2, FS_CardinalityType
  <2>4. QED
    BY <2>1, <2>2, <2>3, Constants
<1>2. \A n \in Block : Max({size[n], Cardinality(s)}) \in 0 .. blocks
  <2>1. \A n \in Block : size[n] \in Int /\ Cardinality(s) \in Int
    BY <1>1
  <2>2. \A n \in Block : Max({size[n], Cardinality(s)}) \in {size[n], Cardinality(s)}
    BY <2>1, MaxOfTwo
  <2>3. QED
    BY <1>1, <2>2
<1>3. \A n \in Block : size[n] \in 0 .. blocks /\ 0 \in 0 .. blocks
  BY Constants
<1>4. QED
  BY <1>2, <1>3 DEF Merged

Writers == {"s_own_sort", "s_sort", "g_merge", "m_last"}

Writing(t) ==
  /\ pc[t] = "s_own_sort" => seg[t] = {t}
  /\ pc[t] = "s_sort" => seg[t] = {i[t]}
  /\ pc[t] = "g_merge" /\ i[t] # blocks => seg[t] = Parts(BLOCKS, i[t])
  /\ pc[t] = "m_last" => seg[t] = Parts(2, 0)
  /\ pc[t] \notin Writers => seg[t] = {}

SegType ==
  /\ seg \in [Threads -> SUBSET Block] /\ size \in [Block -> 0 .. blocks]
  /\ torn \in SUBSET Block /\ foreign \in BOOLEAN /\ mapped \in BOOLEAN /\ alive \in BOOLEAN

Core == Walk /\ Map /\ SegType /\ \A t \in Threads : Writing(t)

LEMMA InitCore == Init => Core
<1> SUFFICES ASSUME Init PROVE Core
  OBVIOUS
<1>1. \A t \in Threads : pc[t] \in {"m_join", "chunk", "unborn"}
  BY Constants DEF Init
<1>2. /\ seg = [t \in Threads |-> {}] /\ size = [n \in Block |-> 0]
      /\ torn = {} /\ foreign = FALSE /\ mapped = TRUE /\ alive = TRUE
  BY DEF Init
<1>3. SegType
  <2>1. seg \in [Threads -> SUBSET Block] /\ size \in [Block -> 0 .. blocks]
    BY <1>2, Constants
  <2>2. torn \in SUBSET Block /\ foreign \in BOOLEAN /\ mapped \in BOOLEAN /\ alive \in BOOLEAN
    BY <1>2
  <2>3. QED
    BY <2>1, <2>2 DEF SegType
<1>4. \A t \in Threads : Writing(t)
  BY <1>1, <1>2 DEF Writing, Writers
<1>5. QED
  BY <1>3, <1>4, InitWalk, InitMap DEF Core

(* Whoever claims a part of the map finds both halves of it in the file:   *)
(* behind BLOCKS nothing in the map is ever free in a round.               *)
LEMMA ClaimFits ==
  ASSUME Walk, Map, NEW t \in Threads, MergeClaims(t)
  PROVE  i[t] \in Nat /\ i[t] + 2 <= BLOCKS
<1>1. /\ i[t] \in Nat /\ i[t] <= BLOCKS /\ i[t] < blocks /\ ~busy[i[t]] /\ pc[t] = "g_scan"
      /\ i[t] % 2 = 0 /\ BLOCKS % 2 = 0 /\ BLOCKS >= 4 /\ BLOCKS \in Nat /\ blocks \in Nat
  BY MapFacts DEF MergeClaims, Goto, Map, IndexInv, Round
<1>2. i[t] # BLOCKS
  <2> SUFFICES ASSUME i[t] = BLOCKS PROVE FALSE
    OBVIOUS
  <2>1. i[t] \in Block
    BY <1>1 DEF Block
  <2>2. BLOCKS # 2 * blocks
    BY <1>1
  <2>3. pc[0] \in Round
    <3>1. pc[0] \notin Gather \cup Sorting \cup Ending \cup {"b_chunk"}
      BY <2>2 DEF Walk, Tests
    <3>2. t = 0 \/ Meets(pc[0], pc[t])
      BY Constants DEF Walk, Lockstep
    <3>3. QED
      BY <1>1, <3>1, <3>2
         DEF Meets, Gather, Sorting, SortPC, Halving, Round, Last, Ending
  <2>4. QED
    BY <1>1, <2>1, <2>3 DEF Map, PassedInv, Round
<1>3. QED
  BY <1>1, <1>2

LEMMA BarrierCore == ASSUME Core, Barrier PROVE Core'
<1>1. /\ \A t \in Threads : pc[t] \in DOMAIN After /\ pc'[t] = After[pc[t]]
      /\ UNCHANGED <<seg, size, torn, foreign, mapped, alive>>
  BY DEF Barrier
<1>2. \A t \in Threads : pc[t] \notin Writers /\ pc'[t] \notin Writers
  BY <1>1, Barriers DEF Writers
<1>3. \A t \in Threads : Writing(t)'
  BY <1>1, <1>2 DEF Core, Writing, Writers
<1>4. QED
  BY <1>1, <1>3, BarrierWalk, BarrierMap DEF Core, SegType

(* A thread's own step. *)
LEMMA StepWrites ==
  ASSUME Core, NEW t \in Threads, Walk', Map', SegType', Writing(t)',
         \A u \in Threads \ {t} : pc'[u] = pc[u] /\ i'[u] = i[u] /\ seg'[u] = seg[u],
         UNCHANGED BLOCKS \/ \A u \in Threads \ {t} : pc[u] # "g_merge"
  PROVE  Core'
<1>1. ASSUME NEW u \in Threads \ {t} PROVE Writing(u)'
  BY <1>1 DEF Core, Writing
<1>2. QED
  BY <1>1 DEF Core


LEMMA StartsType ==
  ASSUME SegType, NEW t \in Threads, NEW s \in SUBSET Block, Starts(t, s)
  PROVE  /\ seg' \in [Threads -> SUBSET Block] /\ torn' \in SUBSET Block
         /\ seg'[t] = s /\ \A u \in Threads \ {t} : seg'[u] = seg[u]
<1>1. seg' = [seg EXCEPT ![t] = s]
  BY DEF Starts
<1>2. torn' \in SUBSET Block
  BY DEF Starts, SegType
<1>3. QED
  BY <1>1, <1>2 DEF SegType

(* A thread that does not write before or after its step.                  *)
LEMMA IdleCore ==
  ASSUME Core, Walk', Map', NEW t \in Threads,
         \/ NextChunk(t) \/ NoMoreChunks(t) \/ ScanSkips(t) \/ ScanEnds(t) \/ AnotherRound(t)
         \/ (t # 0 /\ LastRound(t)) \/ Halve(t) \/ MergeSkips(t) \/ SkipsBehind(t) \/ RoundEnds(t)
         \/ WorkerEnds(t) \/ Cancelled(t) \/ (t = 0 /\ (AtExit \/ Joined \/ AllJoined))
  PROVE  Core'
<1>1. PICK to \in Labels \ Writers :
        /\ pc' = [pc EXCEPT ![t] = to] /\ pc[t] \notin Writers /\ UNCHANGED seg
        /\ torn' = torn \/ torn' = {}
        /\ foreign' = foreign \/ foreign' = TRUE
        /\ i' = i \/ \E n : i' = [i EXCEPT ![t] = n]
        /\ UNCHANGED size \/ size' = [n \in Block |-> 0]
        /\ mapped' = mapped \/ mapped' = FALSE
        /\ UNCHANGED alive
        /\ UNCHANGED BLOCKS \/ (t = 0 /\ pc[0] = "g_halve")
  <2>1. \A to \in Labels : pc' = [pc EXCEPT ![t] = to] => pc'[t] = to
    BY DEF Core, Walk
  <2>2. {"b_start", "b_end", "s_scan", "b_sorted", "b_round", "b_chunk", "b_halved", "g_scan",
         "b_merged", "done", "m_join"} \subseteq Labels \ Writers
    BY Barriers DEF Labels, Writers, SortPC, MergePC
  <2>3. CASE NextChunk(t) \/ NoMoreChunks(t)
    BY <2>2, <2>3 DEF NextChunk, NoMoreChunks, Goto, Writers
  <2>4. CASE ScanSkips(t) \/ ScanEnds(t)
    BY <2>2, <2>4 DEF ScanSkips, ScanEnds, Goto, Writers
  <2>5. CASE AnotherRound(t) \/ (t # 0 /\ LastRound(t))
    BY <2>2, <2>5 DEF AnotherRound, LastRound, Goto, Writers
  <2>6. CASE Halve(t)
    BY <2>2, <2>6 DEF Halve, Goto, Writers
  <2>7. CASE MergeSkips(t) \/ SkipsBehind(t) \/ RoundEnds(t)
    BY <2>2, <2>7 DEF MergeSkips, SkipsBehind, RoundEnds, Goto, Writers
  <2>8. CASE WorkerEnds(t) \/ Cancelled(t) \/ (t = 0 /\ (AtExit \/ Joined \/ AllJoined))
    BY <2>2, <2>8 DEF WorkerEnds, Cancelled, AtExit, Joined, AllJoined, Goto, Writers
  <2>9. QED
    BY <2>3, <2>4, <2>5, <2>6, <2>7, <2>8
<1>2. /\ pc'[t] = to /\ \A u \in Threads \ {t} : pc'[u] = pc[u] /\ i'[u] = i[u] /\ seg'[u] = seg[u]
  BY <1>1 DEF Core, Walk, Map, MapType, SegType
<1>3. SegType'
  <2>1. size' \in [Block -> 0 .. blocks]
    BY <1>1, Constants DEF Core, SegType
  <2>2. mapped' \in BOOLEAN /\ foreign' \in BOOLEAN /\ torn' \in SUBSET Block
    BY <1>1 DEF Core, SegType
  <2>3. QED
    BY <1>1, <2>1, <2>2 DEF Core, SegType
<1>4. Writing(t)'
  BY <1>1, <1>2 DEF Core, Writing, Writers
<1>5. UNCHANGED BLOCKS \/ \A u \in Threads \ {t} : pc[u] # "g_merge"
  BY <1>1, Constants
     DEF Core, Walk, Lockstep, Meets, Gather, Sorting, SortPC, Halving, Round, Last, Ending
<1>6. QED
  BY <1>2, <1>3, <1>4, <1>5, StepWrites

LEMMA ChunkDoneCore == ASSUME Core, Walk', Map', ChunkDone PROVE Core'
<1>1. /\ pc[0] = "m_next" /\ pc' = [pc EXCEPT ![0] = "b_chunk"]
      /\ UNCHANGED <<i, seg, size, torn, foreign, mapped, alive>>
  BY DEF ChunkDone, Goto
<1>2. pc'[0] = "b_chunk" /\ \A u \in Workers : pc'[u] = pc[u] /\ pc[u] \in {"g_test", "b_chunk"}
  BY <1>1, Constants
     DEF Core, Walk, Lockstep, Meets, Gather, Sorting, SortPC, Halving, Round, Last, Ending
<1>3. SegType' /\ Writing(0)'
  BY <1>1, <1>2, Constants DEF Core, SegType, Writing, Writers
<1>4. QED
  BY <1>1, <1>2, <1>3, Constants, StepWrites

LEMMA SortOwnCore == ASSUME Core, Walk', Map', NEW t \in Threads, SortOwn(t) PROVE Core'
<1>1. /\ pc' = [pc EXCEPT ![t] = "s_own_sort"] /\ Starts(t, {t})
      /\ UNCHANGED <<i, BLOCKS, size, foreign, mapped, alive>>
  BY DEF SortOwn, Goto
<1>2. {t} \in SUBSET Block
  BY Constants
<1>3. pc'[t] = "s_own_sort" /\ \A u \in Threads \ {t} : pc'[u] = pc[u]
  BY <1>1 DEF Core, Walk
<1>4. /\ seg' \in [Threads -> SUBSET Block] /\ torn' \in SUBSET Block
      /\ seg'[t] = {t} /\ \A u \in Threads \ {t} : seg'[u] = seg[u]
  BY <1>1, <1>2, StartsType DEF Core
<1>5. SegType' /\ Writing(t)'
  BY <1>1, <1>3, <1>4 DEF Core, SegType, Writing, Writers
<1>6. QED
  BY <1>1, <1>3, <1>4, <1>5, StepWrites

LEMMA ScanClaimsCore == ASSUME Core, Walk', Map', NEW t \in Threads, ScanClaims(t) PROVE Core'
<1>1. /\ pc' = [pc EXCEPT ![t] = "s_sort"] /\ Starts(t, {i[t]}) /\ i[t] < blocks
      /\ UNCHANGED <<i, BLOCKS, size, foreign, mapped, alive>>
  BY DEF ScanClaims, Goto
<1>2. {i[t]} \in SUBSET Block
  BY <1>1, MapFacts DEF Core, Block
<1>3. pc'[t] = "s_sort" /\ \A u \in Threads \ {t} : pc'[u] = pc[u]
  BY <1>1 DEF Core, Walk
<1>4. /\ seg' \in [Threads -> SUBSET Block] /\ torn' \in SUBSET Block
      /\ seg'[t] = {i[t]} /\ \A u \in Threads \ {t} : seg'[u] = seg[u]
  BY <1>1, <1>2, StartsType DEF Core
<1>5. SegType' /\ Writing(t)'
  BY <1>1, <1>3, <1>4 DEF Core, SegType, Writing, Writers
<1>6. QED
  BY <1>1, <1>3, <1>4, <1>5, StepWrites

LEMMA MergeClaimsCore == ASSUME Core, Walk', Map', NEW t \in Threads, MergeClaims(t) PROVE Core'
<1> DEFINE s == Parts(BLOCKS, i[t])
<1>1. /\ pc' = [pc EXCEPT ![t] = "g_merge"] /\ Starts(t, s)
      /\ UNCHANGED <<i, BLOCKS, size, foreign, mapped, alive>>
  BY DEF MergeClaims, Goto
<1>2. s \in SUBSET Block
  BY ClaimFits, PartsInBlock, MapFacts DEF Core
<1> HIDE DEF s
<1>3. pc'[t] = "g_merge" /\ \A u \in Threads \ {t} : pc'[u] = pc[u]
  BY <1>1 DEF Core, Walk
<1>4. /\ seg' \in [Threads -> SUBSET Block] /\ torn' \in SUBSET Block
      /\ seg'[t] = s /\ \A u \in Threads \ {t} : seg'[u] = seg[u]
  BY <1>1, <1>2, StartsType DEF Core
<1>5. s = Parts(BLOCKS, i[t])'
  BY <1>1 DEF s, Parts
<1>6. SegType' /\ Writing(t)'
  BY <1>1, <1>3, <1>4, <1>5 DEF Core, SegType, Writing, Writers
<1>7. QED
  BY <1>1, <1>3, <1>4, <1>6, StepWrites

LEMMA ClaimsBehindCore ==
  ASSUME Core, Walk', Map', NEW t \in Threads, ClaimsBehind(t) PROVE Core'
<1>1. /\ pc' = [pc EXCEPT ![t] = "g_merge"] /\ i[t] = blocks /\ torn' = Block /\ foreign' = TRUE
      /\ UNCHANGED <<i, BLOCKS, size, mapped, alive>>
  BY DEF ClaimsBehind, Goto
<1>2. PICK no \in 0 .. BLOCKS - 2 : seg' = [seg EXCEPT ![t] = Parts(BLOCKS, no)]
  BY DEF ClaimsBehind
<1>3. Parts(BLOCKS, no) \in SUBSET Block
  <2>1. BLOCKS \in Nat /\ BLOCKS >= 4
    BY MapFacts DEF Core
  <2>2. no \in Nat /\ no + 2 <= BLOCKS
    BY <2>1
  <2>3. QED
    BY <2>1, <2>2, PartsInBlock
<1>4. /\ pc'[t] = "g_merge" /\ i'[t] = blocks
      /\ \A u \in Threads \ {t} : pc'[u] = pc[u] /\ i'[u] = i[u] /\ seg'[u] = seg[u]
  BY <1>1, <1>2 DEF Core, Walk, SegType
<1>5. seg' \in [Threads -> SUBSET Block]
  BY <1>2, <1>3 DEF Core, SegType
<1>6. SegType' /\ Writing(t)'
  BY <1>1, <1>4, <1>5 DEF Core, SegType, Writing, Writers
<1>7. QED
  BY <1>1, <1>4, <1>6, StepWrites

LEMMA LastRoundCore == ASSUME Core, Walk', Map', LastRound(0) PROVE Core'
<1>1. /\ pc' = [pc EXCEPT ![0] = "m_last"] /\ Starts(0, Parts(2, 0))
      /\ UNCHANGED <<i, BLOCKS, size, foreign, mapped, alive>>
  BY DEF LastRound, Goto
<1>2. Parts(2, 0) \in SUBSET Block
  BY PartsInBlock
<1>3. pc'[0] = "m_last" /\ \A u \in Threads \ {0} : pc'[u] = pc[u]
  BY <1>1, Constants DEF Core, Walk
<1>4. /\ seg' \in [Threads -> SUBSET Block] /\ torn' \in SUBSET Block
      /\ seg'[0] = Parts(2, 0) /\ \A u \in Threads \ {0} : seg'[u] = seg[u]
  BY <1>1, <1>2, StartsType, Constants DEF Core
<1>5. SegType' /\ Writing(0)'
  BY <1>1, <1>3, <1>4 DEF Core, SegType, Writing, Writers, Parts
<1>6. QED
  BY <1>1, <1>3, <1>4, <1>5, Constants, StepWrites

LEMMA WrittenCore ==
  ASSUME Core, Walk', Map', NEW t \in Threads, Sorted(t) \/ EndsMerge(t) PROVE Core'
<1>1. PICK to \in {"s_scan", "g_scan", "m_next"} :
        /\ pc' = [pc EXCEPT ![t] = to]
        /\ i' = i \/ \E n : i' = [i EXCEPT ![t] = n]
        /\ seg' = [seg EXCEPT ![t] = {}] /\ UNCHANGED <<BLOCKS, torn, foreign, mapped, alive>>
  BY DEF Sorted, EndsMerge, Goto
<1>2. /\ pc'[t] = to /\ seg'[t] = {} /\ seg' \in [Threads -> SUBSET Block]
      /\ \A u \in Threads \ {t} : pc'[u] = pc[u] /\ i'[u] = i[u] /\ seg'[u] = seg[u]
  <2>1. pc'[t] = to /\ \A u \in Threads \ {t} : pc'[u] = pc[u]
    BY <1>1 DEF Core, Walk
  <2>2. \A u \in Threads \ {t} : i'[u] = i[u]
    BY <1>1 DEF Core, Map, MapType
  <2>3. /\ seg'[t] = {} /\ seg' \in [Threads -> SUBSET Block]
        /\ \A u \in Threads \ {t} : seg'[u] = seg[u]
    BY <1>1 DEF Core, SegType
  <2>4. QED
    BY <2>1, <2>2, <2>3
<1>3. size' \in [Block -> 0 .. blocks]
  <2>1. CASE size' = Merged(seg[t])
    BY <2>1, MergedType DEF Core, SegType
  <2>2. CASE size' = [n \in Block |-> IF n \notin seg[t] THEN size[n] ELSE IF n \in torn THEN 0 ELSE 1]
    BY <2>2, Constants DEF Core, SegType
  <2>3. CASE size' = [n \in Block |-> 0]
    BY <2>3, Constants
  <2>4. \/ size' = Merged(seg[t]) \/ size' = [n \in Block |-> 0]
        \/ size' = [n \in Block |-> IF n \notin seg[t] THEN size[n] ELSE IF n \in torn THEN 0 ELSE 1]
    BY DEF Sorted, EndsMerge
  <2>5. QED
    BY <2>1, <2>2, <2>3, <2>4
<1>4. SegType' /\ Writing(t)'
  <2>1. torn' \in SUBSET Block /\ foreign' \in BOOLEAN /\ mapped' \in BOOLEAN /\ alive' \in BOOLEAN
    BY <1>1 DEF Core, SegType
  <2>2. Writing(t)'
    BY <1>2 DEF Writing, Writers
  <2>3. QED
    BY <1>2, <1>3, <2>1, <2>2 DEF SegType
<1>5. QED
  BY <1>1, <1>2, <1>4, StepWrites


LEMMA NextCore == Core /\ [Next]_vars => Core'
<1> SUFFICES ASSUME Core, [Next]_vars PROVE Core'
  OBVIOUS
<1>1. Walk' /\ Map'
  BY NextWalk, NextMap DEF Core
<1>2. CASE /\ UNCHANGED <<pc, i, seg, BLOCKS, size, torn, mapped>>
           /\ alive' \in BOOLEAN /\ foreign' \in BOOLEAN
  BY <1>1, <1>2 DEF Core, SegType, Writing, Parts
<1>3. CASE Barrier
  BY <1>3, BarrierCore
<1>4. CASE MainStep
  <2>1. JoinFaults => Core'
    <3>1. foreign \in BOOLEAN
      BY DEF Core, SegType
    <3>2. QED
      BY <1>2, <3>1 DEF JoinFaults
  <2>2. ChunkDone => Core'
    BY <1>1, ChunkDoneCore
  <2>3. AtExit \/ Joined \/ AllJoined => Core'
    BY <1>1, IdleCore, Constants
  <2>4. QED
    BY <1>4, <2>1, <2>2, <2>3 DEF MainStep
<1>5. ASSUME NEW t \in Threads, ThreadStep(t) PROVE Core'
  <2>1. MergeFaults(t) \/ Faults(t) => Core'
    <3>1. foreign \in BOOLEAN
      BY DEF Core, SegType
    <3>2. QED
      BY <1>2, <3>1 DEF MergeFaults, Faults
  <2>2. LastRound(t) => Core'
    BY <1>1, IdleCore, LastRoundCore
  <2>3. QED
    BY <1>1, <1>5, <2>1, <2>2, IdleCore, SortOwnCore, ScanClaimsCore, MergeClaimsCore,
       ClaimsBehindCore, WrittenCore DEF ThreadStep
<1>6. QED
  <2>1. CASE UNCHANGED vars
    BY <1>2, <2>1 DEF vars, Core, SegType
  <2>2. QED
    BY <1>3, <1>4, <1>5, <2>1 DEF Next

LEMMA SpecCore == Spec => []Core
  BY InitCore, NextCore, PTL DEF Spec

(* The state of the sort keeps its type, whatever the entry behind the map *)
(* holds.  In particular what a worker claims in the map lies in the       *)
(* mapped chunk, also when it strays.                                      *)
THEOREM TypeCorrect == Spec => []TypeOK
<1>1. Core => TypeOK
  <2> SUFFICES ASSUME Core PROVE TypeOK
    OBVIOUS
  <2>1. BLOCKS \in 1 .. 2 * blocks
    BY Constants DEF Core, Walk, Count
  <2>2. QED
    BY <2>1 DEF Core, Walk, Map, MapType, SegType, TypeOK, Labels
<1>2. QED
  BY <1>1, SpecCore, PTL


-----------------------------------------------------------------------------
(* Who has claimed what.                                                   *)

Claimers == {"s_sort", "g_merge"}

(* No two threads hold the same claim, and no claim of the sort phase is   *)
(* on a block that the map reserves for a worker: block amount it forgets. *)
Apart ==
  /\ pc[0] \in Sorting => \A n \in Block : n < amount => busy[n]
  /\ \A t \in Threads : pc[t] = "s_sort" => i[t] >= amount
  /\ \A t, u \in Threads : t # u /\ pc[t] \in Claimers /\ pc[u] \in Claimers => i[t] # i[u]

LEMMA InitApart == Init => Apart
<1> SUFFICES ASSUME Init PROVE Apart
  OBVIOUS
<1>1. \A t \in Threads : pc[t] \in {"m_join", "chunk", "unborn"}
  BY Constants DEF Init
<1>2. QED
  BY <1>1, Constants DEF Apart, Claimers, Sorting, SortPC

LEMMA BarrierApart == ASSUME Core, Apart, Barrier PROVE Apart'
<1>1. /\ \A t \in Threads : pc[t] \in DOMAIN After /\ pc'[t] = After[pc[t]]
      /\ UNCHANGED busy
  BY DEF Barrier
<1>2. /\ \A t \in Threads : pc'[t] \notin Claimers
      /\ pc'[0] \in Sorting => pc[0] = "b_start"
  BY <1>1, Barriers, Constants DEF Claimers, Sorting, SortPC
<1>3. pc'[0] \in Sorting => \A n \in Block : n < amount => busy'[n]
  BY <1>1, <1>2 DEF Core, Map, PassedInv
<1>4. QED
  BY <1>2, <1>3 DEF Apart, Claimers

(* The steps that claim nothing. *)
LEMMA NoClaim ==
  ASSUME Core, NEW t \in Threads,
         \/ NextChunk(t) \/ NoMoreChunks(t) \/ SortOwn(t) \/ ScanSkips(t) \/ Sorted(t)
         \/ ScanEnds(t) \/ AnotherRound(t) \/ LastRound(t) \/ Halve(t) \/ MergeSkips(t)
         \/ SkipsBehind(t) \/ EndsMerge(t) \/ RoundEnds(t) \/ WorkerEnds(t) \/ Cancelled(t)
         \/ (t = 0 /\ (ChunkDone \/ AtExit \/ Joined \/ AllJoined))
  PROVE  /\ \A u \in Threads \ {t} : pc'[u] = pc[u] /\ i'[u] = i[u]
         /\ pc'[t] \notin Claimers /\ (pc'[t] \in Sorting => pc[t] \in SortPC)
         /\ t # 0 \/ pc'[t] \in Sorting => \A n \in Block : busy[n] => busy'[n]
<1>1. PICK to \in Labels :
        /\ pc' = [pc EXCEPT ![t] = to]
        /\ i' = i \/ \E n : i' = [i EXCEPT ![t] = n]
        /\ to \notin Claimers /\ (to \in Sorting => pc[t] \in SortPC)
        /\ \/ UNCHANGED busy
           \/ busy' = [busy EXCEPT ![t] = TRUE]
           \/ busy' = [busy EXCEPT ![blocks] = TRUE]
           \/ t = 0 /\ to \notin Sorting
  <2>1. /\ {"b_start", "b_end", "s_own_sort", "s_scan", "b_sorted", "b_round", "b_chunk",
            "b_halved", "g_scan", "b_merged", "m_last", "m_next", "done", "m_join"}
              \subseteq Labels \ Claimers
        /\ {"s_own_sort", "s_scan", "b_sorted"} \subseteq Sorting
        /\ {"b_start", "b_end", "b_round", "b_chunk", "b_halved", "g_scan", "b_merged", "m_last",
            "m_next", "done", "m_join"} \cap Sorting = {}
        /\ {"s_own", "s_own_sort", "s_scan", "s_sort"} \subseteq SortPC
    BY Barriers DEF Labels, Claimers, Sorting, SortPC, MergePC
  <2>2. CASE NextChunk(t) \/ NoMoreChunks(t)
    BY <2>1, <2>2 DEF NextChunk, NoMoreChunks, Goto
  <2>3. CASE SortOwn(t) \/ ScanSkips(t) \/ ScanEnds(t)
    BY <2>1, <2>3 DEF SortOwn, ScanSkips, ScanEnds, Goto
  <2>4. CASE AnotherRound(t) \/ LastRound(t)
    BY <2>1, <2>4 DEF AnotherRound, LastRound, Goto
  <2>5. CASE Halve(t)
    BY <2>1, <2>5 DEF Halve, Goto
  <2>6. CASE MergeSkips(t) \/ SkipsBehind(t) \/ RoundEnds(t)
    BY <2>1, <2>6 DEF MergeSkips, SkipsBehind, RoundEnds, Goto
  <2>7. CASE WorkerEnds(t) \/ Cancelled(t) \/ (t = 0 /\ (AtExit \/ Joined \/ AllJoined))
    BY <2>1, <2>7 DEF WorkerEnds, Cancelled, AtExit, Joined, AllJoined, Goto
  <2>8. CASE t = 0 /\ ChunkDone
    BY <2>1, <2>8 DEF ChunkDone, Goto
  <2>9. CASE Sorted(t)
    BY <2>1, <2>9 DEF Sorted, Goto
  <2>10. CASE EndsMerge(t)
    BY <2>1, <2>10 DEF EndsMerge, Goto
  <2>11. QED
    BY <2>2, <2>3, <2>4, <2>5, <2>6, <2>7, <2>8, <2>9, <2>10
<1>2. pc'[t] = to /\ \A u \in Threads \ {t} : pc'[u] = pc[u] /\ i'[u] = i[u]
  BY <1>1 DEF Core, Walk, Map, MapType
<1>3. t # 0 \/ pc'[t] \in Sorting => \A n \in Block : busy[n] => busy'[n]
  <2> SUFFICES ASSUME t # 0 \/ to \in Sorting, NEW n \in Block, busy[n] PROVE busy'[n]
    BY <1>2
  <2>1. n \in 0 .. blocks /\ busy \in [0 .. blocks -> BOOLEAN]
    BY MapFacts DEF Core, Map, MapType
  <2>2. QED
    BY <1>1, <2>1
<1>4. QED
  BY <1>1, <1>2, <1>3

LEMMA NoClaimApart ==
  ASSUME Core, Apart, NEW t \in Threads,
         \A u \in Threads \ {t} : pc'[u] = pc[u] /\ i'[u] = i[u],
         pc'[t] \notin Claimers, pc'[t] \in Sorting => pc[t] \in SortPC,
         t # 0 \/ pc'[t] \in Sorting => \A n \in Block : busy[n] => busy'[n]
  PROVE  Apart'
<1>1. pc'[0] \in Sorting => \A n \in Block : n < amount => busy'[n]
  <2>1. pc'[0] \in Sorting => pc[0] \in Sorting /\ (t # 0 \/ pc'[t] \in Sorting)
    BY Constants DEF Sorting
  <2>2. QED
    BY <2>1 DEF Apart
<1>2. \A u \in Threads : pc'[u] = "s_sort" => i'[u] >= amount
  BY DEF Apart, Claimers
<1>3. ASSUME NEW u \in Threads, NEW v \in Threads, u # v,
             pc'[u] \in Claimers, pc'[v] \in Claimers
      PROVE  i'[u] # i'[v]
  BY <1>3 DEF Apart
<1>4. QED
  BY <1>1, <1>2, <1>3 DEF Apart

LEMMA ClaimApart ==
  ASSUME Core, Apart, NEW t \in Threads,
         ScanClaims(t) \/ MergeClaims(t) \/ ClaimsBehind(t)
  PROVE  Apart'
<1>1. PICK to \in {"s_sort", "g_merge"} :
        /\ pc' = [pc EXCEPT ![t] = to] /\ UNCHANGED <<i, BLOCKS>>
        /\ ~busy[i[t]] /\ busy' = [busy EXCEPT ![i[t]] = TRUE]
        /\ to = "s_sort" => pc[t] = "s_scan" /\ i[t] < blocks
        /\ to = "g_merge" => pc[t] = "g_scan"
  BY DEF ScanClaims, MergeClaims, ClaimsBehind, Goto
<1>2. pc'[t] = to /\ \A u \in Threads \ {t} : pc'[u] = pc[u]
  BY <1>1 DEF Core, Walk
<1>3. \A n \in Block : busy[n] => busy'[n]
  <2> SUFFICES ASSUME NEW n \in Block, busy[n] PROVE busy'[n]
    OBVIOUS
  <2>1. n \in 0 .. blocks /\ busy \in [0 .. blocks -> BOOLEAN]
    BY MapFacts DEF Core, Map, MapType
  <2>2. QED
    BY <1>1, <2>1
<1>4. pc'[0] \in Sorting => pc[0] \in Sorting
  BY <1>1, <1>2, Constants DEF Sorting, SortPC
<1>5. to = "s_sort" => i[t] >= amount
  <2> SUFFICES ASSUME to = "s_sort", i[t] < amount PROVE FALSE
    BY <1>1, MapFacts, Constants DEF Core
  <2>1. pc[0] \in Sorting
    BY <1>1, Constants
       DEF Core, Walk, Lockstep, Meets, Gather, Sorting, SortPC, Halving, Round, Last, Ending
  <2>2. i[t] \in Block
    BY <1>1, MapFacts DEF Core, Block
  <2>3. QED
    BY <1>1, <2>1, <2>2 DEF Apart
<1>6. \A u \in Threads : pc[u] \in Claimers => i[u] # i[t]
  BY <1>1 DEF Core, Map, ClaimInv, Claimers
<1>7. \A u \in Threads : pc'[u] = "s_sort" => i'[u] >= amount
  BY <1>1, <1>2, <1>5 DEF Apart
<1>8. \A u, v \in Threads : u # v /\ pc'[u] \in Claimers /\ pc'[v] \in Claimers => i'[u] # i'[v]
  BY <1>1, <1>2, <1>6 DEF Apart, Claimers
<1>9. QED
  BY <1>3, <1>4, <1>7, <1>8 DEF Apart

LEMMA NextApart == Core /\ Apart /\ [Next]_vars => Apart'
<1> SUFFICES ASSUME Core, Apart, [Next]_vars PROVE Apart'
  OBVIOUS
<1>1. CASE UNCHANGED <<pc, i, busy>>
  BY <1>1 DEF Apart
<1>2. CASE Barrier
  BY <1>2, BarrierApart
<1>3. CASE MainStep
  <2>1. JoinFaults => Apart'
    BY <1>1 DEF JoinFaults
  <2>2. ChunkDone \/ AtExit \/ Joined \/ AllJoined => Apart'
    BY Constants, NoClaim, NoClaimApart
  <2>3. QED
    BY <1>3, <2>1, <2>2 DEF MainStep
<1>4. ASSUME NEW t \in Threads, ThreadStep(t) PROVE Apart'
  <2>1. MergeFaults(t) \/ Faults(t) => Apart'
    BY <1>1 DEF MergeFaults, Faults
  <2>2. ScanClaims(t) \/ MergeClaims(t) \/ ClaimsBehind(t) => Apart'
    BY ClaimApart
  <2>3. QED
    BY <1>4, <2>1, <2>2, NoClaim, NoClaimApart DEF ThreadStep
<1>5. QED
  BY <1>1, <1>2, <1>3, <1>4 DEF Next, vars

LEMMA SpecApart == Spec => []Apart
  BY InitApart, SpecCore, NextApart, PTL DEF Spec

(* In a round the parts of BLOCKS have the same whole number of blocks.    *)
LEMMA Widths ==
  ASSUME Walk, BLOCKS <= blocks
  PROVE  \E k \in Nat : k >= 1 /\ k * BLOCKS = blocks
  BY Constants DEF Walk, Count, Divides

LEMMA PartsApart ==
  ASSUME NEW n \in Nat, n >= 1, NEW k \in Nat, k >= 1, k * n = blocks,
         NEW a \in Nat, NEW b \in Nat, a + 2 <= b
  PROVE  Parts(n, a) \cap Parts(n, b) = {}
<1>1. Parts(n, a) = a * k .. (a + 2) * k - 1 /\ Parts(n, b) = b * k .. (b + 2) * k - 1
  BY PartsExact
<1>2. (a + 2) * k <= b * k
  BY Monotone
<1>3. a * k \in Int /\ (a + 2) * k \in Int /\ b * k \in Int /\ (b + 2) * k \in Int
  OBVIOUS
<1>4. QED
  BY <1>1, <1>2, <1>3

(* Two threads that are in the sort phase meet only on block amount.       *)
LEMMA SortersApart ==
  ASSUME Core, Apart, NEW t \in Threads, NEW u \in Threads, t # u, pc[t] \in SortPC,
         pc[u] \in SortPC, seg[t] \cap seg[u] # {}
  PROVE  seg[t] = {amount} /\ seg[u] = {amount} /\ amount \in {t, u}
<1>1. /\ Writing(t) /\ Writing(u)
      /\ pc[t] \in {"s_own_sort", "s_sort"} /\ pc[u] \in {"s_own_sort", "s_sort"}
  BY DEF Core, Writing, Writers, SortPC
<1>2. /\ pc[t] = "s_own_sort" => seg[t] = {t}
      /\ pc[t] = "s_sort" => seg[t] = {i[t]} /\ i[t] >= amount
      /\ pc[u] = "s_own_sort" => seg[u] = {u}
      /\ pc[u] = "s_sort" => seg[u] = {i[u]} /\ i[u] >= amount
      /\ pc[t] = "s_sort" /\ pc[u] = "s_sort" => i[t] # i[u]
  BY <1>1 DEF Writing, Apart, Claimers
<1>3. t <= amount /\ u <= amount /\ t \in Int /\ u \in Int /\ amount \in Int
  BY Constants DEF Threads
<1>4. i[t] \in Int /\ i[u] \in Int
  BY MapFacts DEF Core
<1>5. QED
  BY <1>1, <1>2, <1>3, <1>4

(* Two threads at most meet on a block, in the two places the map forgets: *)
(* block amount, which is no worker's in the map, and the entry behind it. *)
THEOREM OverlapsKnown == Spec => []OverlapsOnlyThere
<1>1. Core /\ Apart => OverlapsOnlyThere
  <2> SUFFICES ASSUME Core, Apart, ~strayed, NEW t \in Threads, NEW u \in Threads, t # u,
                      seg[t] \cap seg[u] # {}
               PROVE  \/ seg[t] = {amount} /\ seg[u] = {amount} /\ amount \in {t, u}
                      \/ BLOCKS = blocks /\ blocks \in {i[t], i[u]}
    BY DEF OverlapsOnlyThere
  <2>1. /\ Writing(t) /\ Writing(u) /\ pc[t] \in Writers /\ pc[u] \in Writers
    BY DEF Core, Writing
  <2>2. \/ pc[t] \in SortPC /\ pc[u] \in SortPC
        \/ pc[0] \in Round /\ pc[t] = "g_merge" /\ pc[u] = "g_merge"
    <3>1. /\ t = 0 \/ Meets(pc[0], pc[t])
          /\ u = 0 \/ Meets(pc[0], pc[u])
      BY Constants DEF Core, Walk, Lockstep
    <3>2. QED
      BY <2>1, <3>1
         DEF Writers, Meets, Gather, Sorting, SortPC, Halving, Round, Last, Ending
  <2>3. CASE pc[t] \in SortPC /\ pc[u] \in SortPC
    BY <2>3, SortersApart
  <2>4. CASE pc[0] \in Round /\ pc[t] = "g_merge" /\ pc[u] = "g_merge"
    <3>1. BLOCKS <= blocks /\ BLOCKS \in Nat /\ BLOCKS >= 1 /\ blocks \in Nat
      BY <2>4, Constants DEF Core, Walk, Tests, Count
    <3>2. PICK k \in Nat : k >= 1 /\ k * BLOCKS = blocks
      BY <3>1, Widths DEF Core
    <3>3. /\ i[t] \in Nat /\ i[t] % 2 = 0 /\ i[t] <= BLOCKS
          /\ i[u] \in Nat /\ i[u] % 2 = 0 /\ i[u] <= BLOCKS
          /\ i[t] # i[u]
      BY <2>4, MapFacts DEF Core, Map, IndexInv, Round, Apart, Claimers
    <3>4. CASE i[t] # blocks /\ i[u] # blocks
      <4>1. seg[t] = Parts(BLOCKS, i[t]) /\ seg[u] = Parts(BLOCKS, i[u])
        BY <2>1, <2>4, <3>4 DEF Writing
      <4>2. i[t] + 2 <= i[u] \/ i[u] + 2 <= i[t]
        BY <3>3, Evens
      <4>3. ~(i[t] + 2 <= i[u]) /\ ~(i[u] + 2 <= i[t])
        <5>1. i[t] + 2 <= i[u] => Parts(BLOCKS, i[t]) \cap Parts(BLOCKS, i[u]) = {}
          BY <3>1, <3>2, <3>3, PartsApart
        <5>2. i[u] + 2 <= i[t] => Parts(BLOCKS, i[u]) \cap Parts(BLOCKS, i[t]) = {}
          BY <3>1, <3>2, <3>3, PartsApart
        <5>3. QED
          BY <4>1, <5>1, <5>2
      <4>4. QED
        BY <4>2, <4>3
    <3>5. CASE i[t] = blocks \/ i[u] = blocks
      BY <3>1, <3>3, <3>5
    <3>6. QED
      BY <3>4, <3>5
  <2>5. QED
    BY <2>2, <2>3, <2>4
<1>2. QED
  BY <1>1, SpecCore, SpecApart, PTL


-----------------------------------------------------------------------------
(* What is sorted.                                                         *)

Sorts == \A t \in Threads : pc[t] \in Sorting

(* While all are in the sort phase, what is claimed is sorted, or torn, or *)
(* being sorted, or a worker's own block that the worker has yet to come   *)
(* to; and only block amount is torn.                                      *)
SortInv ==
  /\ pc[0] = "b_start" => torn = {}
  /\ Sorts =>
       /\ torn \subseteq {amount}
       /\ \A n \in Block : busy[n] =>
            \/ size[n] >= 1
            \/ n \in torn
            \/ \E t \in Threads : n \in seg[t]
            \/ n \in Threads /\ pc[n] = "s_own"

LEMMA BarrierSort == ASSUME Core, SortInv, Barrier PROVE SortInv'
<1>1. /\ \A t \in Threads : pc[t] \in DOMAIN After /\ pc'[t] = After[pc[t]]
      /\ UNCHANGED <<busy, torn>>
  BY DEF Barrier
<1>2. Sorts' => pc[0] = "b_start" /\ \A t \in Threads : pc'[t] = "s_own"
  BY <1>1, Barriers, Constants DEF Sorts, Sorting, SortPC
<1>3. \A n \in Block : n < amount => n \in Threads
  BY Constants DEF Block, Threads
<1>4. pc'[0] # "b_start"
  BY <1>1, Barriers, Constants
<1>5. QED
  BY <1>1, <1>2, <1>3, <1>4 DEF SortInv, Core, Map, PassedInv

(* Only worker amount, on its way to its own block, can meet another.      *)
LEMMA SortingTorn ==
  ASSUME Core, Apart, Sorts, torn \subseteq {amount}, NEW t \in Threads,
         SortOwn(t) \/ ScanClaims(t)
  PROVE  torn \subseteq torn' /\ torn' \subseteq {amount}
<1>1. PICK s \in SUBSET Block :
        /\ Starts(t, s)
        /\ \/ pc[t] = "s_own" /\ s = {t}
           \/ pc[t] = "s_scan" /\ s = {i[t]} /\ ~busy[i[t]]
  <2>1. {t} \in SUBSET Block
    BY Constants
  <2>2. i[t] < blocks => {i[t]} \in SUBSET Block
    BY MapFacts DEF Core, Block
  <2>3. QED
    BY <2>1, <2>2 DEF SortOwn, ScanClaims, Goto
<1>2. ASSUME NEW u \in Threads \ {t}, seg[u] \cap s # {} PROVE s = {amount} /\ seg[u] = {amount}
  <2>1. pc[u] \in {"s_own_sort", "s_sort"} /\ Writing(u)
    BY <1>2 DEF Core, Writing, Writers, Sorts, Sorting, SortPC
  <2>2. /\ pc[u] = "s_own_sort" => seg[u] = {u} /\ busy[u]
        /\ pc[u] = "s_sort" => seg[u] = {i[u]} /\ busy[i[u]] /\ i[u] >= amount
    BY <2>1 DEF Writing, Core, Map, ClaimInv, Apart
  <2>3. t <= amount /\ t \in Int /\ amount \in Int /\ i[u] \in Int
    BY MapFacts, Constants DEF Threads, Core
  <2>4. CASE pc[t] = "s_own" /\ s = {t}
    BY <1>2, <2>1, <2>2, <2>3, <2>4
  <2>5. CASE pc[t] = "s_scan" /\ s = {i[t]} /\ ~busy[i[t]]
    BY <1>2, <2>1, <2>2, <2>5
  <2>6. QED
    BY <1>1, <2>4, <2>5
<1>3. torn' = torn \cup UNION {s \cup seg[u] : u \in {v \in Threads \ {t} : seg[v] \cap s # {}}}
  BY <1>1 DEF Starts
<1>4. ASSUME NEW n \in torn', n \notin torn PROVE n = amount
  <2>1. PICK u \in Threads \ {t} : seg[u] \cap s # {} /\ n \in s \cup seg[u]
    BY <1>3, <1>4
  <2>2. QED
    BY <1>2, <2>1
<1>5. QED
  BY <1>3, <1>4

(* The steps of a sorting thread. *)
LEMMA SortingSort ==
  ASSUME Core, Apart, SortInv, NEW t \in Threads,
         SortOwn(t) \/ ScanSkips(t) \/ ScanClaims(t) \/ Sorted(t) \/ ScanEnds(t)
  PROVE  SortInv'
<1>1. PICK to \in Sorting \ {"s_own"} :
        /\ pc[t] \in SortPC /\ pc' = [pc EXCEPT ![t] = to]
        /\ ~SortOwn(t) => pc[t] # "s_own"
  <2>1. /\ {"s_own_sort", "s_scan", "s_sort", "b_sorted"} \subseteq Sorting \ {"s_own"}
        /\ {"s_own", "s_own_sort", "s_scan", "s_sort"} \subseteq SortPC
    BY DEF Sorting, SortPC
  <2>2. QED
    BY <2>1 DEF SortOwn, ScanSkips, ScanClaims, Sorted, ScanEnds, Goto
<1>2. pc'[t] = to /\ \A u \in Threads \ {t} : pc'[u] = pc[u]
  BY <1>1 DEF Core, Walk
<1>3. Sorts' => Sorts
  BY <1>1, <1>2 DEF Sorts, Sorting
<1>10. pc'[0] # "b_start"
  <2>1. pc[0] \in Sorting
    BY <1>1, Constants
       DEF Core, Walk, Lockstep, Meets, Gather, Sorting, SortPC, Halving, Round, Last, Ending
  <2>2. QED
    BY <1>1, <1>2, <2>1, Constants DEF Sorting, SortPC
<1>11. Sorts => torn \subseteq torn' /\ torn' \subseteq {amount}
  <2>1. CASE SortOwn(t) \/ ScanClaims(t)
    BY <2>1, SortingTorn DEF SortInv
  <2>2. CASE ~(SortOwn(t) \/ ScanClaims(t))
    BY <2>2 DEF SortInv, ScanSkips, Sorted, ScanEnds
  <2>3. QED
    BY <2>1, <2>2
<1> SUFFICES ASSUME Sorts, NEW n \in Block, busy'[n]
             PROVE  \/ size'[n] >= 1
                    \/ n \in torn'
                    \/ \E u \in Threads : n \in seg'[u]
                    \/ n \in Threads /\ pc'[n] = "s_own"
  BY <1>3, <1>10, <1>11 DEF SortInv
<1>4. busy[n] => \/ size[n] >= 1
                 \/ n \in torn'
                 \/ \E u \in Threads : n \in seg[u]
                 \/ n \in Threads /\ pc[n] = "s_own"
  BY <1>11 DEF SortInv
<1>5. CASE SortOwn(t)
  <2>1. /\ busy' = [busy EXCEPT ![t] = TRUE] /\ seg' = [seg EXCEPT ![t] = {t}]
        /\ pc[t] = "s_own" /\ UNCHANGED size
    BY <1>5 DEF SortOwn, Starts, Goto
  <2>2. seg[t] = {}
    BY <2>1 DEF Core, Writing, Writers
  <2>3. /\ n # t => busy[n]
        /\ t \in seg'[t] /\ \A u \in Threads \ {t} : seg'[u] = seg[u]
    BY <2>1, MapFacts DEF Core, Map, MapType, SegType
  <2>4. QED
    BY <1>2, <1>4, <2>1, <2>2, <2>3
<1>6. CASE ScanClaims(t)
  <2>1. /\ busy' = [busy EXCEPT ![i[t]] = TRUE] /\ seg' = [seg EXCEPT ![t] = {i[t]}]
        /\ pc[t] = "s_scan" /\ UNCHANGED size
    BY <1>6 DEF ScanClaims, Starts, Goto
  <2>2. seg[t] = {}
    BY <2>1 DEF Core, Writing, Writers
  <2>3. /\ n # i[t] => busy[n]
        /\ i[t] \in seg'[t] /\ \A u \in Threads \ {t} : seg'[u] = seg[u]
    BY <2>1, MapFacts DEF Core, Map, MapType, SegType
  <2>4. QED
    BY <1>2, <1>4, <2>1, <2>2, <2>3
<1>7. CASE Sorted(t)
  <2>1. /\ size' = [m \in Block |-> IF m \notin seg[t] THEN size[m] ELSE IF m \in torn THEN 0 ELSE 1]
        /\ seg' = [seg EXCEPT ![t] = {}] /\ UNCHANGED <<busy, torn>>
        /\ pc[t] # "s_own"
    BY <1>7 DEF Sorted, Goto
  <2>2. \A u \in Threads \ {t} : seg'[u] = seg[u]
    BY <2>1 DEF Core, SegType
  <2>3. QED
    BY <1>2, <1>4, <2>1, <2>2
<1>8. CASE ScanSkips(t) \/ ScanEnds(t)
  <2>1. UNCHANGED <<busy, seg, size>> /\ pc[t] = "s_scan"
    BY <1>8 DEF ScanSkips, ScanEnds, Goto
  <2>2. QED
    BY <1>2, <1>4, <2>1
<1>9. QED
  BY <1>5, <1>6, <1>7, <1>8

LEMMA ElsewhereSort ==
  ASSUME Core, SortInv, NEW t \in Threads,
         \/ NextChunk(t) \/ NoMoreChunks(t) \/ AnotherRound(t) \/ LastRound(t) \/ Halve(t)
         \/ MergeSkips(t) \/ MergeClaims(t) \/ ClaimsBehind(t) \/ SkipsBehind(t) \/ EndsMerge(t)
         \/ RoundEnds(t) \/ WorkerEnds(t) \/ Cancelled(t)
         \/ (t = 0 /\ (ChunkDone \/ AtExit \/ Joined \/ AllJoined))
  PROVE  SortInv'
<1>1. PICK to \in Labels \ Sorting : pc' = [pc EXCEPT ![t] = to]
  <2>1. {"b_start", "b_end", "b_round", "b_chunk", "b_halved", "g_scan", "g_merge", "b_merged",
         "m_last", "m_next", "done", "m_join"} \subseteq Labels \ Sorting
    BY Barriers DEF Labels, Sorting, SortPC, MergePC
  <2>2. QED
    BY <2>1 DEF NextChunk, NoMoreChunks, AnotherRound, LastRound, Halve, MergeSkips, MergeClaims,
                ClaimsBehind, SkipsBehind, EndsMerge, RoundEnds, WorkerEnds, Cancelled, ChunkDone,
                AtExit, Joined, AllJoined, Goto
<1>2. pc'[t] = to /\ \A u \in Threads \ {t} : pc'[u] = pc[u]
  BY <1>1 DEF Core, Walk
<1>3. pc'[0] = "b_start" => torn' = {}
  <2> SUFFICES ASSUME pc'[0] = "b_start" PROVE torn' = {}
    OBVIOUS
  <2>1. CASE t = 0
    <3>1. pc[0] = "chunk" /\ NextChunk(0)
      BY <1>2, <2>1, Constants
         DEF Core, Walk, NextChunk, NoMoreChunks, AnotherRound, LastRound, Halve, MergeSkips,
             MergeClaims, ClaimsBehind, SkipsBehind, EndsMerge, RoundEnds, WorkerEnds, Cancelled,
             ChunkDone, AtExit, Joined, AllJoined, Goto
    <3>2. QED
      BY <3>1 DEF NextChunk
  <2>2. CASE t # 0
    <3>1. pc[0] = "b_start" /\ pc[t] \in Gather \cup Halving
      BY <1>2, <2>2, Constants
         DEF Core, Walk, Lockstep, Meets, Gather, Sorting, SortPC, Halving, Round, Last, Ending
    <3>2. UNCHANGED torn
      BY <2>2, <3>1
         DEF NextChunk, NoMoreChunks, AnotherRound, LastRound, Halve, MergeSkips,
             MergeClaims, ClaimsBehind, SkipsBehind, EndsMerge, RoundEnds, WorkerEnds, Cancelled,
             Goto, Gather, Halving
    <3>3. QED
      BY <3>1, <3>2 DEF SortInv
  <2>3. QED
    BY <2>1, <2>2
<1>4. QED
  BY <1>2, <1>3 DEF SortInv, Sorts

LEMMA NextSort == Core /\ Apart /\ SortInv /\ [Next]_vars => SortInv'
<1> SUFFICES ASSUME Core, Apart, SortInv, [Next]_vars PROVE SortInv'
  OBVIOUS
<1>1. CASE UNCHANGED <<pc, busy, size, seg, torn>>
  BY <1>1 DEF SortInv, Sorts
<1>2. CASE Barrier
  BY <1>2, BarrierSort
<1>3. CASE MainStep
  <2>1. JoinFaults => SortInv'
    BY <1>1 DEF JoinFaults
  <2>2. QED
    BY <1>3, <2>1, ElsewhereSort, Constants DEF MainStep
<1>4. ASSUME NEW t \in Threads, ThreadStep(t) PROVE SortInv'
  <2>1. MergeFaults(t) \/ Faults(t) => SortInv'
    BY <1>1 DEF MergeFaults, Faults
  <2>2. QED
    BY <1>4, <2>1, SortingSort, ElsewhereSort DEF ThreadStep
<1>5. QED
  BY <1>1, <1>2, <1>3, <1>4 DEF Next, vars

LEMMA InitSort == Init => SortInv
<1>1. Init => \A t \in Threads : pc[t] \notin Sorting /\ pc[t] # "b_start"
  BY Constants DEF Init, Sorting, SortPC
<1>2. QED
  BY <1>1, Constants DEF SortInv, Sorts

LEMMA SpecSort == Spec => []SortInv
  BY InitSort, SpecCore, SpecApart, NextSort, PTL DEF Spec

LEMMA AllSorted ==
  ASSUME Core, SortInv, \A t \in Threads : pc[t] = "b_sorted"
  PROVE  \A n \in Block : size[n] >= 1 \/ (n = amount /\ n \in torn)
<1>1. /\ Sorts /\ \A n \in Block : busy[n]
      /\ \A t \in Threads : seg[t] = {} /\ pc[t] # "s_own"
  BY Constants DEF Core, Map, PassedInv, Writing, Writers, Sorts, Sorting
<1>2. QED
  BY <1>1 DEF SortInv

(* Unlocked and locked claims together leave out no block of a chunk, and  *)
(* only block amount can come out of it other than sorted.                 *)
THEOREM AllBlocksSorted == Spec => []NoBlockSkipped
<1>1. Core /\ SortInv => NoBlockSkipped
  BY AllSorted DEF NoBlockSkipped
<1>2. QED
  BY <1>1, SpecCore, SpecSort, PTL


-----------------------------------------------------------------------------
(* What is merged.                                                         *)

(* Part m of a round, with block n in it, is not claimed yet. *)
Pending(n) ==
  \E m \in Block : m % 2 = 0 /\ m < BLOCKS /\ ~busy[m] /\ n \in Parts(BLOCKS, m)

(* Between rounds the runs are as long as two parts; in a round they are   *)
(* at least as long as one, and as long as two unless someone is at them   *)
(* or will be.                                                             *)
Grown == \A n \in Block : size[n] * BLOCKS >= 2 * blocks

Growing ==
  \A n \in Block :
    /\ size[n] * BLOCKS >= blocks
    /\ size[n] * BLOCKS >= 2 * blocks \/ (\E t \in Threads : n \in seg[t]) \/ Pending(n)

(* Nothing has happened to the chunk that ChunkSorted excuses.             *)
Sound == torn = {} /\ ~foreign /\ ~strayed /\ Whole

SizeInv ==
  Sound =>
    /\ pc[0] \in {"g_test", "b_round", "g_halve", "m_last"} => Grown
    /\ pc[0] \in {"b_halved"} \cup Round => Growing
    /\ pc[0] = "m_next" => \A n \in Block : size[n] = blocks

Merging == {"g_test", "b_round", "g_halve", "b_halved"} \cup Round \cup Last

(* While the main thread is in the merge phase nothing becomes sound again.*)
LEMMA Keeps ==
  ASSUME Core, [Next]_vars
  PROVE  /\ foreign => foreign'
         /\ pc'[0] \in Merging /\ Sound' => Sound
<1>1. /\ strayed \in BOOLEAN /\ foreign \in BOOLEAN
      /\ torn \in SUBSET Block
  BY DEF Core, Walk, SegType
<1>2. foreign => foreign'
  <2>1. CASE UNCHANGED foreign
    BY <2>1
  <2>2. ASSUME NEW t \in Threads, ThreadStep(t) PROVE foreign => foreign'
    BY <2>2
       DEF ThreadStep, NextChunk, NoMoreChunks, SortOwn, ScanSkips, ScanClaims, Sorted, ScanEnds,
           AnotherRound, LastRound, Halve, MergeSkips, MergeClaims, ClaimsBehind, SkipsBehind,
           MergeFaults, Faults, EndsMerge, RoundEnds, WorkerEnds, Cancelled
  <2>3. QED
    BY <2>1, <2>2
       DEF Next, vars, Barrier, MainStep, ChunkDone, AtExit, Joined, JoinFaults, AllJoined
<1>3. strayed => strayed'
  <2>1. CASE UNCHANGED strayed
    BY <2>1
  <2>2. ASSUME NEW t \in Threads, ThreadStep(t) PROVE strayed => strayed'
    BY <2>2
       DEF ThreadStep, NextChunk, NoMoreChunks, SortOwn, ScanSkips, ScanClaims, Sorted, ScanEnds,
           AnotherRound, LastRound, Halve, MergeSkips, MergeClaims, ClaimsBehind, SkipsBehind,
           MergeFaults, Faults, EndsMerge, RoundEnds, WorkerEnds, Cancelled
  <2>3. QED
    BY <2>1, <2>2
       DEF Next, vars, Barrier, MainStep, ChunkDone, AtExit, Joined, JoinFaults, AllJoined
<1>4. pc'[0] \in Merging => torn \subseteq torn' /\ UNCHANGED curSize
  <2> SUFFICES ASSUME pc'[0] \in Merging PROVE torn \subseteq torn' /\ UNCHANGED curSize
    OBVIOUS
  <2>1. CASE UNCHANGED <<torn, curSize>>
    BY <2>1
  <2>2. CASE ChunkDone
    <3>1. pc'[0] = "b_chunk"
      BY <2>2, Constants DEF ChunkDone, Goto, Core, Walk
    <3>2. QED
      BY <3>1 DEF Merging, Round, Last
  <2>3. ASSUME NEW t \in Threads, NextChunk(t) PROVE UNCHANGED <<torn, curSize>>
    <3>1. t # 0
      <4>1. pc'[t] = "b_start"
        BY <2>3 DEF NextChunk, Goto, Core, Walk
      <4>2. QED
        BY <4>1 DEF Merging, Round, Last
    <3>2. QED
      BY <2>3, <3>1 DEF NextChunk
  <2>4. ASSUME NEW t \in Threads, ThreadStep(t), ~NextChunk(t)
        PROVE  torn \subseteq torn' /\ UNCHANGED curSize
    BY <1>1, <2>4
       DEF ThreadStep, NoMoreChunks, SortOwn, ScanSkips, ScanClaims, Sorted, ScanEnds, Starts,
           AnotherRound, LastRound, Halve, MergeSkips, MergeClaims, ClaimsBehind, SkipsBehind,
           MergeFaults, Faults, EndsMerge, RoundEnds, WorkerEnds, Cancelled
  <2>5. QED
    BY <2>1, <2>2, <2>3, <2>4
       DEF Next, vars, Barrier, MainStep, AtExit, Joined, JoinFaults, AllJoined
<1>5. QED
  BY <1>2, <1>3, <1>4 DEF Sound, Whole

(* Until someone claims the entry behind the map, whoever merges has       *)
(* claimed a part of the map.                                              *)
Behind == foreign \/ \A t \in Threads : pc[t] = "g_merge" => i[t] # blocks

LEMMA NextBehind == Core /\ Behind /\ [Next]_vars => Behind'
<1> SUFFICES ASSUME Core, Behind, [Next]_vars, ~foreign' PROVE Behind'
  BY DEF Behind
<1>1. \A t \in Threads : pc[t] = "g_merge" => i[t] # blocks
  BY Keeps DEF Behind
<1>2. CASE UNCHANGED <<pc, i>>
  BY <1>1, <1>2 DEF Behind
<1>3. CASE Barrier
  <2>1. \A t \in Threads : pc'[t] # "g_merge"
    BY <1>3, Barriers DEF Barrier
  <2>2. QED
    BY <2>1 DEF Behind
<1>4. ASSUME NEW t \in Threads, \A u \in Threads \ {t} : pc'[u] = pc[u] /\ i'[u] = i[u],
             pc'[t] \notin Claimers
      PROVE  Behind'
  BY <1>1, <1>4 DEF Behind, Claimers
<1>5. CASE MainStep
  <2>1. JoinFaults => Behind'
    BY <1>2 DEF JoinFaults
  <2>2. ChunkDone \/ AtExit \/ Joined \/ AllJoined => Behind'
    BY <1>4, Constants, NoClaim
  <2>3. QED
    BY <1>5, <2>1, <2>2 DEF MainStep
<1>6. ASSUME NEW t \in Threads, ThreadStep(t) PROVE Behind'
  <2>1. MergeFaults(t) \/ Faults(t) => Behind'
    BY <1>2 DEF MergeFaults, Faults
  <2>2. ClaimsBehind(t) => Behind'
    BY DEF ClaimsBehind
  <2>3. ScanClaims(t) => Behind'
    BY <1>1 DEF ScanClaims, Goto, Core, Walk, Behind
  <2>4. MergeClaims(t) => Behind'
    <3>1. i[t] < blocks => i[t] # blocks
      BY Constants
    <3>2. QED
      BY <1>1, <3>1 DEF MergeClaims, Goto, Core, Walk, Behind
  <2>5. QED
    BY <1>4, <1>6, <2>1, <2>2, <2>3, <2>4, NoClaim DEF ThreadStep
<1>7. QED
  BY <1>2, <1>3, <1>5, <1>6 DEF Next, vars

LEMMA SpecBehind == Spec => []Behind
<1>1. Init => Behind
  BY DEF Init, Behind
<1>2. QED
  BY <1>1, SpecCore, NextBehind, PTL DEF Spec

LEMMA QuietSize ==
  ASSUME SizeInv, Sound' => Sound, UNCHANGED <<BLOCKS, size, seg, busy>>,
         \/ pc'[0] = pc[0]
         \/ pc[0] = "g_test" /\ pc'[0] \in {"b_round", "m_last"}
         \/ pc[0] \in Round /\ pc'[0] \in Round
         \/ pc'[0] \notin Merging
  PROVE  SizeInv'
<1>1. Grown' = Grown /\ Growing' = Growing
  BY DEF Grown, Growing, Pending, Parts
<1>2. (\A n \in Block : size[n] = blocks)' = \A n \in Block : size[n] = blocks
  OBVIOUS
<1>3. QED
  BY <1>1, <1>2 DEF SizeInv, Merging, Round, Last


LEMMA ElsewhereSize == ASSUME pc'[0] \notin Merging PROVE SizeInv'
  BY DEF SizeInv, Merging, Round, Last

LEMMA BarrierSize == ASSUME Core, SortInv, SizeInv, Barrier PROVE SizeInv'
<1>1. /\ \A t \in Threads : pc[t] \in DOMAIN After /\ pc'[t] = After[pc[t]]
      /\ UNCHANGED <<i, seg, busy, BLOCKS, size, torn, foreign, strayed, curSize>>
  BY DEF Barrier
<1> SUFFICES ASSUME Sound, pc'[0] \in Merging PROVE SizeInv'
  BY <1>1, ElsewhereSize DEF SizeInv, Sound, Whole
<1>2. /\ Grown' = Grown /\ Growing' = Growing
      /\ \/ pc[0] \in {"b_sorted", "b_merged"} /\ pc'[0] = "g_test"
         \/ pc[0] = "b_round" /\ pc'[0] = "g_halve"
         \/ pc[0] = "b_halved" /\ pc'[0] = "g_scan"
  <2>1. Grown' = Grown /\ Growing' = Growing
    BY <1>1 DEF Grown, Growing, Pending, Parts
  <2>2. pc[0] \in DOMAIN After /\ pc'[0] = After[pc[0]]
    BY <1>1, Constants
  <2>3. QED
    BY <2>1, <2>2, Barriers DEF Merging, Round, Last
<1>3. CASE pc[0] = "b_sorted"
  <2>1. \A t \in Threads : pc[t] = "b_sorted"
    BY <1>1, <1>3, Barriers, Constants
       DEF Sound, Core, Walk, Lockstep, Meets, Gather, Sorting, SortPC, Halving, Round, Last, Ending
  <2>2. BLOCKS = 2 * blocks
    BY <1>3 DEF Core, Walk, Tests, Sorting
  <2>3. Grown
    <3>1. \A n \in Block : size[n] \in Nat /\ size[n] >= 1
      BY <2>1, AllSorted DEF Core, SegType, Sound
    <3>2. \A n \in Block : 1 * BLOCKS <= size[n] * BLOCKS
      BY <3>1, <2>2, Constants, Monotone
    <3>3. QED
      BY <2>2, <3>1, <3>2, Constants DEF Grown
  <2>4. QED
    BY <1>2, <1>3, <2>3 DEF SizeInv, Round
<1>4. CASE pc[0] = "b_merged"
  <2>1. \A t \in Threads : seg[t] = {}
    BY <1>1, Barriers DEF Core, Writing, Writers
  <2>2. \A n \in Block : ~Pending(n)
    BY <1>4 DEF Core, Map, PassedInv, Pending
  <2>3. Grown
    BY <1>4, <2>1, <2>2 DEF SizeInv, Round, Growing, Grown
  <2>4. QED
    BY <1>2, <1>4, <2>3 DEF SizeInv, Round
<1>5. CASE pc[0] \in {"b_round", "b_halved"}
  BY <1>2, <1>5 DEF SizeInv, Round
<1>6. QED
  BY <1>2, <1>3, <1>4, <1>5

LEMMA PartOf ==
  ASSUME NEW n \in Nat, n >= 1, NEW k \in Nat, k >= 1, k * n = blocks, NEW b \in Block
  PROVE  \E m \in Block : m % 2 = 0 /\ m < n /\ b \in Parts(n, m)
<1> DEFINE q == b \div (2 * k)
           m == 2 * q
<1>1. b \in Nat /\ b < blocks /\ 2 * k >= 1 /\ 2 * k \in Nat
  BY Constants DEF Block
<1>2. q \in Nat /\ q * (2 * k) <= b /\ b < (q + 1) * (2 * k)
  BY <1>1
<1> HIDE DEF q
<1>3. m \in Nat /\ m % 2 = 0 /\ m * k = q * (2 * k) /\ (m + 2) * k = (q + 1) * (2 * k)
  BY <1>2
<1> HIDE DEF m
<1>4. m * k \in Int /\ (m + 2) * k \in Int
  BY <1>3
<1>5. b \in Parts(n, m)
  <2>1. Parts(n, m) = m * k .. (m + 2) * k - 1
    BY <1>3, PartsExact
  <2>2. QED
    BY <1>1, <1>2, <1>3, <1>4, <2>1
<1>6. m < n
  <2> SUFFICES ASSUME n <= m PROVE FALSE
    BY <1>3
  <2>1. n * k <= m * k /\ n * k = blocks
    BY <1>3, Monotone
  <2>2. QED
    BY <1>1, <1>2, <1>3, <1>4, <2>1, Constants
<1>7. n <= blocks
  <2>1. 1 * n <= k * n
    BY Monotone
  <2>2. QED
    BY <2>1
<1>8. m \in Block
  BY <1>3, <1>6, <1>7, Constants DEF Block
<1>9. QED
  BY <1>3, <1>5, <1>6, <1>8

(* Every block is in a part that the round is going to merge. *)
LEMMA HalveSize == ASSUME Core, SizeInv, Sound, Halve(0) PROVE SizeInv'
<1>1. /\ pc[0] = "g_halve" /\ pc' = [pc EXCEPT ![0] = "b_halved"]
      /\ BLOCKS' = BLOCKS \div 2
      /\ busy' = [n \in 0 .. blocks |-> n >= BLOCKS \div 2 /\ busy[n]]
      /\ UNCHANGED <<seg, size>>
  BY DEF Halve, Goto
<1>2. pc'[0] = "b_halved"
  BY <1>1, Constants DEF Core, Walk
<1> SUFFICES Growing'
  BY <1>1, <1>2 DEF SizeInv, Round
<1>3. Grown
  BY <1>1 DEF SizeInv
<1>4. /\ BLOCKS' \in Nat /\ BLOCKS' >= 1 /\ BLOCKS = 2 * BLOCKS'
      /\ \E k \in Nat : k >= 1 /\ k * BLOCKS' = blocks
  <2>1. BLOCKS \in Nat /\ Count(BLOCKS) /\ BLOCKS > 4
    BY <1>1 DEF Core, Walk, Tests, Count
  <2>2. Count(BLOCKS') /\ 2 * BLOCKS' = BLOCKS /\ \E k \in Nat \ {0} : k * BLOCKS' = blocks
    BY <1>1, <2>1, Halved
  <2>3. BLOCKS' \in Nat /\ BLOCKS' >= 1
    BY <2>2 DEF Count
  <2>4. PICK k \in Nat \ {0} : k * BLOCKS' = blocks
    BY <2>2
  <2>5. k \in Nat /\ k >= 1
    OBVIOUS
  <2>6. QED
    BY <2>2, <2>3, <2>4, <2>5
<1>5. ASSUME NEW n \in Block PROVE size'[n] * BLOCKS' >= blocks
  <2>1. size[n] \in Nat /\ size[n] * BLOCKS >= 2 * blocks
    BY <1>3 DEF Core, SegType, Grown
  <2>2. size[n] * BLOCKS = 2 * (size[n] * BLOCKS') /\ size[n] * BLOCKS' \in Nat
    BY <1>4, <2>1
  <2>3. QED
    BY <1>1, <2>1, <2>2, Constants
<1>6. ASSUME NEW n \in Block PROVE Pending(n)'
  <2>1. PICK m \in Block : m % 2 = 0 /\ m < BLOCKS' /\ n \in Parts(BLOCKS', m)
    BY <1>4, PartOf
  <2>2. ~busy'[m]
    <3>1. m \in 0 .. blocks /\ ~(m >= BLOCKS \div 2)
      BY <1>1, <1>4, <2>1, MapFacts DEF Core
    <3>2. QED
      BY <1>1, <3>1
  <2>3. Parts(BLOCKS', m) = Parts(BLOCKS, m)'
    BY DEF Parts
  <2>4. QED
    BY <2>1, <2>2, <2>3 DEF Pending
<1>7. QED
  BY <1>5, <1>6 DEF Growing

LEMMA MergeClaimsSize ==
  ASSUME Core, SizeInv, Sound, NEW t \in Threads, MergeClaims(t) PROVE SizeInv'
<1>1. /\ pc[t] = "g_scan" /\ pc' = [pc EXCEPT ![t] = "g_merge"]
      /\ busy' = [busy EXCEPT ![i[t]] = TRUE]
      /\ seg' = [seg EXCEPT ![t] = Parts(BLOCKS, i[t])]
      /\ UNCHANGED <<BLOCKS, size>>
  BY DEF MergeClaims, Starts, Goto
<1>2. pc'[t] = "g_merge" /\ \A u \in Threads \ {t} : pc'[u] = pc[u] /\ seg'[u] = seg[u]
  BY <1>1 DEF Core, Walk, SegType
<1> USE DEF Sound
<1>3. pc[0] \in Round /\ pc'[0] \in Round
  BY <1>1, <1>2, Constants
     DEF Core, Walk, Lockstep, Meets, Gather, Sorting, SortPC, Halving, Round, Last, Ending
<1>4. BLOCKS <= blocks /\ BLOCKS \in Nat /\ blocks \in Nat
  BY <1>3, Constants DEF Core, Walk, Tests, Count
<1>5. Growing /\ seg[t] = {}
  BY <1>1, <1>3 DEF SizeInv, Core, Writing, Writers
<1>6. ASSUME NEW n \in Block, Pending(n) PROVE n \in seg'[t] \/ Pending(n)'
  <2>1. PICK m \in Block : m % 2 = 0 /\ m < BLOCKS /\ ~busy[m] /\ n \in Parts(BLOCKS, m)
    BY <1>6 DEF Pending
  <2>2. CASE m = i[t]
    BY <1>1, <2>1, <2>2 DEF Core, SegType
  <2>3. CASE m # i[t]
    <3>1. ~busy'[m]
      BY <1>1, <2>1, <2>3, MapFacts DEF Core, Map, MapType
    <3>2. QED
      BY <1>1, <2>1, <3>1 DEF Pending, Parts
  <2>4. QED
    BY <2>2, <2>3
<1>7. ASSUME NEW n \in Block, NEW u \in Threads, n \in seg[u] PROVE n \in seg'[u]
  BY <1>2, <1>5, <1>7
<1>8. Growing'
  BY <1>1, <1>5, <1>6, <1>7 DEF Growing
<1>9. QED
  BY <1>3, <1>8 DEF SizeInv, Round


LEMMA Cancel ==
  ASSUME NEW a \in Nat, NEW b \in Nat, NEW d \in Nat, d >= 1, a * d <= b * d
  PROVE  a <= b
<1> SUFFICES ASSUME b + 1 <= a PROVE FALSE
  OBVIOUS
<1>1. (b + 1) * d <= a * d
  BY Monotone
<1>2. (b + 1) * d = b * d + d /\ b * d \in Nat /\ a * d \in Nat
  OBVIOUS
<1>3. QED
  BY <1>1, <1>2

(* Two runs that are long enough become one that is twice as long.         *)
LEMMA MergedPart ==
  ASSUME torn = {}, size \in [Block -> 0 .. blocks], NEW k \in Nat, k >= 1, NEW n \in Nat, n >= 1,
         k * n = blocks, NEW no \in Nat, \A p \in Parts(n, no) \cap Block : size[p] >= k,
         Parts(n, no) \subseteq Block, NEW p \in Block
  PROVE  /\ Merged(Parts(n, no))[p] >= size[p]
         /\ p \in Parts(n, no) => Merged(Parts(n, no))[p] >= 2 * k
         /\ p \notin Parts(n, no) => Merged(Parts(n, no))[p] = size[p]
<1> DEFINE s == Parts(n, no)
           half == IF Cardinality(s) = 1 THEN 1 ELSE Cardinality(s) \div 2
<1>1. Cardinality(s) = 2 * k
  <2>1. s = no * k .. (no + 2) * k - 1
    BY PartsExact
  <2>2. /\ no * k \in Int /\ (no + 2) * k - 1 \in Int
        /\ (no + 2) * k - 1 = no * k + (2 * k - 1)
    OBVIOUS
  <2>3. Cardinality(no * k .. (no + 2) * k - 1) =
          IF no * k > (no + 2) * k - 1 THEN 0 ELSE (no + 2) * k - 1 - no * k + 1
    BY <2>2, FS_Interval
  <2>4. QED
    BY <2>1, <2>2, <2>3
<1>2. half = k
  BY <1>1
<1> HIDE DEF s, half
<1>3. \A q \in s : size[q] >= half
  BY <1>2 DEF s
<1>4. Merged(s)[p] = IF p \notin s THEN size[p] ELSE Max({size[p], 2 * k})
  BY <1>1, <1>3 DEF Merged, half
<1>5. size[p] \in Int /\ 2 * k \in Int
  OBVIOUS
<1>6. Max({size[p], 2 * k}) >= size[p] /\ Max({size[p], 2 * k}) >= 2 * k
  BY <1>5, MaxOfTwo
<1>7. QED
  BY <1>4, <1>5, <1>6 DEF s

LEMMA EndsRoundMergeSize ==
  ASSUME Core, Behind, SizeInv, Sound, NEW t \in Threads, EndsMerge(t), pc[t] = "g_merge" PROVE SizeInv'
<1>1. /\ pc' = [pc EXCEPT ![t] = "g_scan"] /\ size' = Merged(seg[t])
      /\ seg' = [seg EXCEPT ![t] = {}] /\ UNCHANGED <<busy, BLOCKS>>
  BY DEF EndsMerge, Goto, Sound
<1>2. pc'[t] = "g_scan" /\ \A u \in Threads \ {t} : pc'[u] = pc[u] /\ seg'[u] = seg[u]
  BY <1>1 DEF Core, Walk, SegType
<1> USE DEF Sound
<1>3. pc[0] \in Round /\ pc'[0] \in Round
  BY <1>1, <1>2, Constants
     DEF Core, Walk, Lockstep, Meets, Gather, Sorting, SortPC, Halving, Round, Last, Ending
<1>4. BLOCKS <= blocks /\ BLOCKS \in Nat /\ BLOCKS >= 1 /\ blocks \in Nat
  BY <1>3, Constants DEF Core, Walk, Tests, Count
<1>5. PICK k \in Nat : k >= 1 /\ k * BLOCKS = blocks
  BY <1>4, Widths DEF Core
<1>6. Growing
  BY <1>3 DEF SizeInv
<1> DEFINE no == i[t]
<1>7. seg[t] = Parts(BLOCKS, no) /\ no \in Nat /\ seg[t] \subseteq Block
  <2>1. i[t] \in Nat
    BY MapFacts DEF Core
  <2>2. QED
    BY <2>1 DEF Core, Writing, SegType, Behind, Sound
<1> HIDE DEF no
<1>8. \A p \in Block : size[p] >= k /\ size[p] \in Nat /\ size'[p] \in Nat
  <2> TAKE p \in Block
  <2>1. size[p] \in Nat /\ size[p] * BLOCKS >= k * BLOCKS
    BY <1>5, <1>6 DEF Growing, Core, SegType
  <2>2. k * BLOCKS <= size[p] * BLOCKS
    BY <1>4, <2>1
  <2>3. k <= size[p]
    BY <1>4, <2>1, <2>2, Cancel
  <2>4. Merged(seg[t]) \in [Block -> 0 .. blocks]
    BY <1>7, MergedType DEF Core, SegType
  <2>5. size'[p] \in Nat
    BY <1>1, <2>4
  <2>6. QED
    BY <2>1, <2>3, <2>5
<1>9. ASSUME NEW p \in Block
      PROVE  /\ size'[p] >= size[p]
             /\ p \in seg[t] => size'[p] >= 2 * k
  BY <1>1, <1>4, <1>5, <1>7, <1>8, MergedPart DEF Core, SegType
<1>10. ASSUME NEW p \in Block PROVE size[p] * BLOCKS <= size'[p] * BLOCKS
  BY <1>4, <1>8, <1>9, Monotone
<1>11. ASSUME NEW p \in Block, p \in seg[t] PROVE size'[p] * BLOCKS >= 2 * blocks
  <2>1. (2 * k) * BLOCKS <= size'[p] * BLOCKS /\ (2 * k) * BLOCKS = 2 * blocks
    BY <1>4, <1>5, <1>8, <1>9, <1>11, Monotone
  <2>2. size'[p] * BLOCKS \in Nat
    BY <1>4, <1>8
  <2>3. QED
    BY <1>4, <2>1, <2>2
<1>12. ASSUME NEW p \in Block, NEW u \in Threads, p \in seg[u], p \notin seg[t]
       PROVE  p \in seg'[u]
  BY <1>2, <1>12
<1>13. ASSUME NEW p \in Block
       PROVE  /\ size'[p] * BLOCKS >= blocks
              /\ size[p] * BLOCKS >= 2 * blocks => size'[p] * BLOCKS >= 2 * blocks
  <2>1. /\ size[p] * BLOCKS \in Nat /\ size'[p] * BLOCKS \in Nat
        /\ size[p] * BLOCKS >= blocks /\ size[p] * BLOCKS <= size'[p] * BLOCKS
    BY <1>4, <1>6, <1>8, <1>10 DEF Growing
  <2>2. QED
    BY <1>4, <2>1
<1>14. ASSUME NEW p \in Block PROVE Pending(p)' = Pending(p)
  BY <1>1 DEF Pending, Parts
<1>15. Growing'
  BY <1>1, <1>6, <1>11, <1>12, <1>13, <1>14 DEF Growing
<1>16. QED
  BY <1>3, <1>15 DEF SizeInv, Round

(* BLOCKS is 4 then, and what the rounds have left is two runs.            *)
LEMMA EndsLastMergeSize ==
  ASSUME Core, SizeInv, Sound, EndsMerge(0), pc[0] = "m_last" PROVE SizeInv'
<1>1. /\ pc' = [pc EXCEPT ![0] = "m_next"] /\ size' = Merged(seg[0])
  BY DEF EndsMerge, Goto, Sound
<1>2. pc'[0] = "m_next"
  BY <1>1, Constants DEF Core, Walk
<1> SUFFICES ASSUME NEW p \in Block PROVE size'[p] = blocks
  BY <1>1, <1>2 DEF SizeInv, Round
<1>3. Grown /\ BLOCKS = 4
  BY DEF SizeInv, Core, Walk, Tests, Last, Count
<1>4. PICK k \in Nat : k >= 1 /\ k * 2 = blocks
  <2>1. blocks % 2 = 0
    <3>1. blocks \in 2 .. blocks /\ blocks % blocks = 0
      BY Constants
    <3>2. QED
      BY <3>1, SortAssumption
  <2>2. blocks \div 2 \in Nat /\ blocks \div 2 >= 1 /\ (blocks \div 2) * 2 = blocks
    BY <2>1, Constants
  <2>3. QED
    BY <2>2
<1>5. seg[0] = Parts(2, 0) /\ seg[0] \subseteq Block
  BY Constants DEF Core, Writing, SegType
<1>6. p \in Parts(2, 0)
  <2>1. Parts(2, 0) = 0 * k .. (0 + 2) * k - 1
    BY <1>4, PartsExact
  <2>2. QED
    BY <1>4, <2>1 DEF Block
<1>7. \A q \in Block : size[q] >= k
  <2> TAKE q \in Block
  <2>1. size[q] \in Nat /\ size[q] * 4 >= 2 * blocks
    BY <1>3 DEF Grown, Core, SegType
  <2>2. QED
    BY <1>4, <2>1
<1>8. size'[p] >= 2 * k
  BY <1>1, <1>4, <1>5, <1>6, <1>7, MergedPart DEF Core, SegType, Sound
<1>9. size'[p] \in 0 .. blocks
  <2>1. Merged(seg[0]) \in [Block -> 0 .. blocks]
    BY <1>5, MergedType DEF Core, SegType
  <2>2. QED
    BY <1>1, <2>1
<1>10. QED
  BY <1>4, <1>8, <1>9, Constants


LEMMA SortSize ==
  ASSUME Core, NEW t \in Threads,
         SortOwn(t) \/ ScanSkips(t) \/ ScanClaims(t) \/ Sorted(t) \/ ScanEnds(t)
  PROVE  SizeInv'
<1>1. PICK to \in Sorting : pc[t] \in SortPC /\ pc' = [pc EXCEPT ![t] = to]
  BY DEF SortOwn, ScanSkips, ScanClaims, Sorted, ScanEnds, Goto, Sorting, SortPC
<1>2. pc'[t] = to /\ \A u \in Threads \ {t} : pc'[u] = pc[u]
  BY <1>1 DEF Core, Walk
<1>3. pc[0] \in Sorting
  BY <1>1, Constants
     DEF Core, Walk, Lockstep, Meets, Gather, Sorting, SortPC, Halving, Round, Last, Ending
<1>4. pc'[0] \in Sorting
  BY <1>2, <1>3, Constants
<1>5. QED
  BY <1>4, ElsewhereSize DEF Merging, Sorting, SortPC, Round, Last

(* Before and after the rounds. *)
LEMMA EndsSize ==
  ASSUME Core, SizeInv, Sound' => Sound, NEW t \in Threads,
         \/ NextChunk(t) \/ NoMoreChunks(t) \/ WorkerEnds(t) \/ Cancelled(t)
         \/ (t = 0 /\ (ChunkDone \/ AtExit \/ Joined \/ AllJoined))
  PROVE  SizeInv'
<1>1. PICK to \in Gather \cup Ending \cup {"b_chunk"} :
        /\ pc' = [pc EXCEPT ![t] = to]
        /\ t # 0 => UNCHANGED <<BLOCKS, size, seg, busy>>
  BY DEF NextChunk, NoMoreChunks, WorkerEnds, Cancelled, ChunkDone, AtExit, Joined, AllJoined,
         Goto, Gather, Ending
<1>2. pc'[t] = to /\ \A u \in Threads \ {t} : pc'[u] = pc[u]
  BY <1>1 DEF Core, Walk
<1>3. CASE t = 0
  BY <1>2, <1>3, ElsewhereSize DEF Merging, Gather, Ending, Round, Last
<1>4. CASE t # 0
  BY <1>1, <1>2, <1>4, Constants, QuietSize
<1>5. QED
  BY <1>3, <1>4

LEMMA RoundSize ==
  ASSUME Core, SizeInv, Sound' => Sound, NEW t \in Threads,
         \/ AnotherRound(t) \/ LastRound(t) \/ Halve(t) \/ MergeSkips(t) \/ RoundEnds(t)
  PROVE  SizeInv'
<1>1. CASE AnotherRound(t) \/ (t # 0 /\ LastRound(t))
  <2>1. PICK to \in {"b_round", "b_chunk"} :
          /\ pc[t] = "g_test" /\ pc' = [pc EXCEPT ![t] = to] /\ (t = 0 => to = "b_round")
          /\ UNCHANGED <<BLOCKS, size, seg, busy>>
    <3>1. CASE AnotherRound(t)
      <4>1. pc[t] = "g_test" /\ pc' = [pc EXCEPT ![t] = "b_round"]
        BY <3>1 DEF AnotherRound, Goto
      <4>2. UNCHANGED <<BLOCKS, size, seg, busy>>
        BY <3>1 DEF AnotherRound
      <4>3. QED
        BY <4>1, <4>2
    <3>2. CASE t # 0 /\ LastRound(t)
      <4>1. /\ pc[t] = "g_test" /\ pc' = [pc EXCEPT ![t] = "b_chunk"]
            /\ UNCHANGED <<BLOCKS, size, seg, busy>>
        BY <3>2 DEF LastRound, Goto
      <4>2. QED
        BY <3>2, <4>1
    <3>3. QED
      BY <1>1, <3>1, <3>2
  <2>2. pc'[t] = to /\ \A u \in Threads \ {t} : pc'[u] = pc[u]
    BY <2>1 DEF Core, Walk
  <2>3. pc'[0] = pc[0] \/ (pc[0] = "g_test" /\ pc'[0] = "b_round")
    BY <2>1, <2>2, Constants
  <2>4. QED
    BY <2>1, <2>3, QuietSize
<1>2. CASE t = 0 /\ LastRound(t)
  <2>1. /\ pc[0] = "g_test" /\ pc' = [pc EXCEPT ![0] = "m_last"]
        /\ UNCHANGED <<BLOCKS, size>>
    BY <1>2 DEF LastRound, Goto
  <2>2. pc'[0] = "m_last" /\ Grown' = Grown
    BY <2>1, Constants DEF Core, Walk, Grown
  <2>3. QED
    BY <2>1, <2>2 DEF SizeInv, Round
<1>3. CASE t = 0 /\ Halve(t)
  BY <1>3, HalveSize DEF SizeInv
<1>4. CASE t # 0 /\ Halve(t)
  <2>1. UNCHANGED <<BLOCKS, size, seg, busy>> /\ pc' = [pc EXCEPT ![t] = "b_halved"]
    BY <1>4 DEF Halve, Goto
  <2>2. pc'[0] = pc[0]
    BY <1>4, <2>1, Constants DEF Core, Walk
  <2>3. QED
    BY <2>1, <2>2, QuietSize
<1>5. CASE MergeSkips(t) \/ RoundEnds(t)
  <2>1. PICK to \in Round :
          /\ pc[t] \in Round /\ pc' = [pc EXCEPT ![t] = to]
          /\ UNCHANGED <<BLOCKS, size, seg, busy>>
    BY <1>5 DEF MergeSkips, RoundEnds, Goto, Round
  <2>2. pc'[t] = to /\ \A u \in Threads \ {t} : pc'[u] = pc[u]
    BY <2>1 DEF Core, Walk
  <2>3. pc'[0] = pc[0] \/ (pc[0] \in Round /\ pc'[0] \in Round)
    BY <2>1, <2>2, Constants
  <2>4. QED
    BY <2>1, <2>3, QuietSize
<1>6. QED
  BY <1>1, <1>2, <1>3, <1>4, <1>5

LEMMA EndsMergeSize ==
  ASSUME Core, Behind, SizeInv, Sound, NEW t \in Threads, EndsMerge(t) PROVE SizeInv'
<1>1. pc[t] = "g_merge" \/ pc[t] = "m_last"
  BY DEF EndsMerge, Goto
<1>2. pc[t] = "m_last" => t = 0
  BY Constants
     DEF Core, Walk, Lockstep, Meets, Gather, Sorting, SortPC, Halving, Round, Last, Ending
<1>3. QED
  BY <1>1, <1>2, EndsRoundMergeSize, EndsLastMergeSize

LEMMA NextSize == Core /\ Behind /\ SortInv /\ SizeInv /\ [Next]_vars => SizeInv'
<1> SUFFICES ASSUME Core, Behind, SortInv, SizeInv, [Next]_vars, pc'[0] \in Merging, Sound'
             PROVE  SizeInv'
  BY ElsewhereSize DEF SizeInv
<1>6. Sound
  BY Keeps
<1>1. CASE UNCHANGED <<pc, BLOCKS, size, seg, busy, strayed>>
  BY <1>1, <1>6, QuietSize
<1>2. CASE Barrier
  BY <1>2, BarrierSize
<1>3. CASE MainStep
  <2>1. JoinFaults => SizeInv'
    BY <1>1 DEF JoinFaults
  <2>2. QED
    BY <1>3, <1>6, <2>1, EndsSize, Constants DEF MainStep
<1>4. ASSUME NEW t \in Threads, ThreadStep(t) PROVE SizeInv'
  <2>1. MergeFaults(t) \/ Faults(t) => SizeInv'
    BY <1>1 DEF MergeFaults, Faults
  <2>2. ClaimsBehind(t) \/ SkipsBehind(t) => SizeInv'
    BY DEF ClaimsBehind, SkipsBehind, Sound
  <2>3. QED
    BY <1>4, <1>6, <2>1, <2>2, SortSize, EndsSize, RoundSize, MergeClaimsSize, EndsMergeSize
       DEF ThreadStep
<1>5. QED
  BY <1>1, <1>2, <1>3, <1>4 DEF Next, vars

LEMMA InitSize == Init => SizeInv
<1>1. Init => pc[0] \in {"chunk", "m_join"}
  BY Constants DEF Init
<1>2. QED
  BY <1>1 DEF SizeInv, Round

LEMMA SpecSize == Spec => []SizeInv
  BY InitSize, SpecCore, SpecBehind, SpecSort, NextSize, PTL DEF Spec

(* Each round doubles the runs, so one run is left when the main thread    *)
(* has done, in every chunk in which no two threads met on a block, if     *)
(* nobody has claimed the entry behind the map, nobody strayed, and the    *)
(* blocks make up the chunk.                                               *)
THEOREM ChunksSorted == Spec => []ChunkSorted
<1>1. SizeInv => ChunkSorted
  BY DEF SizeInv, ChunkSorted, Sound
<1>2. QED
  BY <1>1, SpecSize, PTL
=============================================================================
