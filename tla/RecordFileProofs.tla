-------------------------- MODULE RecordFileProofs --------------------------
(***************************************************************************)
(* What holds of LAB_7/p2 for every number of processes and of records.    *)
(***************************************************************************)
EXTENDS RecordFile, SequenceTheorems, TLAPS

AllPC == {"gone", "menu", "a_test", "a_lock", "p_test", "p_lock"} \cup ModPC \cup LockedPC
AddPC == {"a_test", "a_lock", "a_edit", "a_write"}

FileOK == file \in Seq(Records) /\ Len(file) <= LAST + 1
ProcsOK == pc \in [Procs -> AllPC] /\ record_num \in [Procs -> Typed]
DataOK ==
  /\ record \in [Procs -> Records] /\ record_sav \in [Procs -> Records]
  /\ verified \in [Procs -> Records \cup {Nobody}]
OwnerOK == owner \in [Numbers -> Procs \cup {Nobody}]
Core == FileOK /\ ProcsOK /\ DataOK /\ OwnerOK

LEMMA CoreType == Core => TypeOK
BY DEF Core, FileOK, ProcsOK, DataOK, OwnerOK, TypeOK, AllPC

LEMMA MaxFacts ==
  ASSUME NEW m \in Nat, NEW n \in Nat
  PROVE  Max({m, n}) = IF m >= n THEN m ELSE n
<1>1. \E x \in {m, n} : \A y \in {m, n} : x >= y
  OBVIOUS
<1>2. Max({m, n}) \in {m, n} /\ \A y \in {m, n} : Max({m, n}) >= y
  BY <1>1 DEF Max
<1>3. QED
  BY <1>2

LEMMA GetFacts ==
  ASSUME FileOK, NEW n \in Int, NEW r \in Records PROVE GetRecord(n, r) \in Records
<1>1. CASE Exists(n)
  <2>1. n + 1 \in 1 .. Len(file) /\ Len(file) \in Nat
    BY <1>1 DEF Exists, FileOK
  <2>2. file[n + 1] \in Records
    BY <2>1 DEF FileOK
  <2>3. QED
    BY <1>1, <2>2 DEF GetRecord
<1>2. QED
  BY <1>1 DEF GetRecord

LEMMA FunctionIsSeq ==
  ASSUME NEW S, NEW n \in Nat, NEW f \in [1 .. n -> S]
  PROVE  f \in Seq(S) /\ Len(f) = n
OBVIOUS

LEMMA MinFacts ==
  ASSUME NEW m \in Nat, NEW n \in Nat
  PROVE  Min({m, n}) = IF m <= n THEN m ELSE n
<1>1. \E x \in {m, n} : \A y \in {m, n} : x <= y
  OBVIOUS
<1>2. Min({m, n}) \in {m, n} /\ \A y \in {m, n} : Min({m, n}) <= y
  BY <1>1 DEF Min
<1>3. QED
  BY <1>2

(* A write may make the file longer, up to the record it writes, and never *)
(* makes it shorter.                                                       *)
LEMMA PutFacts ==
  ASSUME FileOK, NEW n \in Numbers, NEW r \in Records
  PROVE  /\ PutRecord(n, r) \in Seq(Records) /\ Len(PutRecord(n, r)) <= LAST + 1
         /\ Len(PutRecord(n, r)) >= Len(file)
<1> DEFINE last == Max({Len(file), n + 1})
<1>1. Len(file) \in Nat /\ n \in Nat /\ n + 1 \in Nat /\ n + 1 <= LAST + 1 /\ LAST \in Nat
  BY RecordAssumption DEF FileOK, Numbers, RecordAssumption
<1>2. last = IF Len(file) >= n + 1 THEN Len(file) ELSE n + 1
  BY <1>1, MaxFacts
<1>3. last \in Nat /\ last <= LAST + 1 /\ last >= Len(file)
  BY <1>1, <1>2 DEF FileOK
<1>4. \A k \in 1 .. last : (IF k = n + 1 THEN r ELSE GetRecord(k - 1, Zero)) \in Records
  <2>1. TAKE k \in 1 .. last
  <2>2. k - 1 \in Int
    OBVIOUS
  <2>3. GetRecord(k - 1, Zero) \in Records
    BY <2>2, GetFacts, RecordAssumption DEF RecordAssumption
  <2>4. QED
    BY <2>3
<1>5. PutRecord(n, r) = [k \in 1 .. last |-> IF k = n + 1 THEN r ELSE GetRecord(k - 1, Zero)]
  BY DEF PutRecord
<1>6. PutRecord(n, r) \in [1 .. last -> Records]
  BY <1>4, <1>5
<1>7. PutRecord(n, r) \in Seq(Records) /\ Len(PutRecord(n, r)) = last
  BY <1>3, <1>6, FunctionIsSeq
<1>8. QED
  BY <1>3, <1>7

-----------------------------------------------------------------------------
(* The steps as what they do to the three parts of the state.              *)

(* The file is as long as it was, or longer.                               *)
Grows == Len(file') >= Len(file)

(* Process p goes from one place to another on the same record.            *)
Move(p, from, to) == Goto(p, from, to) /\ UNCHANGED record_num

LEMMA MoveFacts ==
  ASSUME ProcsOK, NEW p \in Procs, NEW from \in AllPC, NEW to \in AllPC, Move(p, from, to)
  PROVE  ProcsOK' /\ pc[p] = from /\ pc'[p] = to /\ \A q \in Procs \ {p} : pc'[q] = pc[q]
<1>1. pc[p] = from /\ pc' = [pc EXCEPT ![p] = to] /\ record_num' = record_num
  BY DEF Move, Goto
<1>2. pc'[p] = to /\ pc' \in [Procs -> AllPC] /\ \A q \in Procs \ {p} : pc'[q] = pc[q]
  BY <1>1 DEF ProcsOK
<1>3. QED
  BY <1>1, <1>2 DEF ProcsOK

(* LocksGivenBack, as one process sees it.                                 *)
LEMMA NoLockElsewhere ==
  ASSUME LocksGivenBack, NEW p \in Procs, pc[p] \notin LockedPC, NEW n \in Numbers
  PROVE  owner[n] # p
BY RecordAssumption DEF LocksGivenBack, RecordAssumption

(* A process that holds no lock moves, or one that may hold one stays      *)
(* where a lock is allowed: the locks stay in order.                       *)
LEMMA LocksKept ==
  ASSUME LocksGivenBack, OwnerOK, UNCHANGED owner, NEW p \in Procs,
         \A q \in Procs \ {p} : pc'[q] = pc[q] /\ record_num'[q] = record_num[q],
         pc[p] \in LockedPC => pc'[p] \in LockedPC /\ record_num'[p] = record_num[p]
  PROVE  LocksGivenBack'
<1> SUFFICES ASSUME NEW n \in Numbers, owner'[n] # Nobody
             PROVE  pc'[owner'[n]] \in LockedPC /\ record_num'[owner'[n]] = n
  BY DEF LocksGivenBack
<1>1. owner'[n] = owner[n] /\ owner[n] \in Procs
  BY DEF OwnerOK
<1>2. pc[owner[n]] \in LockedPC /\ record_num[owner[n]] = n
  BY <1>1 DEF LocksGivenBack
<1>3. QED
  BY <1>1, <1>2

(* ADD's record is not further on, if the file only grows.                 *)
LEMMA NoHoleKept ==
  ASSUME AddLeavesNoHole, FileOK, FileOK', Grows, ProcsOK, NEW p \in Procs,
         \A q \in Procs \ {p} : pc'[q] = pc[q] /\ record_num'[q] = record_num[q],
         pc'[p] \in AddPC => pc[p] \in AddPC /\ record_num'[p] = record_num[p]
  PROVE  AddLeavesNoHole'
<1> SUFFICES ASSUME NEW q \in Procs, pc'[q] \in AddPC
             PROVE  record_num'[q] \in 0 .. Len(file') /\ record_num'[q] < NUM_RECORDS
  BY DEF AddLeavesNoHole, AddPC
<1>1. pc[q] \in AddPC /\ record_num'[q] = record_num[q]
  BY DEF ProcsOK
<1>2. record_num[q] \in 0 .. Len(file) /\ record_num[q] < NUM_RECORDS
  BY <1>1 DEF AddLeavesNoHole, AddPC
<1>3. Len(file) \in Nat /\ Len(file') \in Nat
  BY DEF FileOK
<1>4. QED
  BY <1>1, <1>2, <1>3 DEF Grows

Inv == Core /\ LocksGivenBack /\ AddLeavesNoHole

(* The steps that take or give back no lock.                               *)
LEMMA MoveInv ==
  ASSUME Inv, NEW p \in Procs, NEW from \in AllPC, NEW to \in AllPC, Move(p, from, to),
         from \in LockedPC => to \in LockedPC, to \in AddPC => from \in AddPC,
         FileOK', Grows, DataOK', UNCHANGED owner
  PROVE  Inv'
<1>1. /\ ProcsOK' /\ pc[p] = from /\ pc'[p] = to /\ record_num' = record_num
      /\ \A q \in Procs \ {p} : pc'[q] = pc[q]
  BY MoveFacts DEF Inv, Core, Move
<1>2. OwnerOK'
  BY DEF Inv, Core, OwnerOK
<1>3. LocksGivenBack'
  BY <1>1, LocksKept DEF Inv, Core
<1>4. AddLeavesNoHole'
  BY <1>1, NoHoleKept DEF Inv, Core
<1>5. QED
  BY <1>1, <1>2, <1>3, <1>4 DEF Inv, Core

LEMMA FileKept == ASSUME Core, UNCHANGED file PROVE FileOK' /\ Grows
BY DEF Core, FileOK, Grows

LEMMA TestInv ==
  ASSUME Inv, NEW p \in Procs, Test(p, "a_test", "a_lock") \/ Test(p, "m_test", "m_lock")
                                \/ Test(p, "p_test", "p_lock")
  PROVE  Inv'
<1>1. /\ UNCHANGED <<file, owner, record_num, record, verified>>
      /\ record_sav' = [record_sav EXCEPT ![p] = IF Locked(p) THEN Zero ELSE @]
  BY DEF Test
<1>2. DataOK'
  BY <1>1, RecordAssumption DEF Inv, Core, DataOK, RecordAssumption
<1>3. FileOK' /\ Grows
  BY <1>1, FileKept DEF Inv
<1>4. ASSUME NEW from \in {"a_test", "m_test", "p_test"}, NEW to \in AllPC, Move(p, from, to),
             to \in {"menu", "m_lock", "p_lock"} \/ (from = "a_test" /\ to = "a_lock")
      PROVE  Inv'
  BY <1>1, <1>2, <1>3, <1>4, MoveInv DEF AllPC, ModPC, LockedPC, WritePC, AddPC
<1>5. CASE Test(p, "a_test", "a_lock")
  <2>1. Move(p, "a_test", "menu") \/ Move(p, "a_test", "a_lock")
    BY <1>1, <1>5 DEF Test, Move
  <2>2. QED
    BY <1>4, <2>1 DEF AllPC
<1>6. CASE Test(p, "m_test", "m_lock")
  <2>1. Move(p, "m_test", "menu") \/ Move(p, "m_test", "m_lock")
    BY <1>1, <1>6 DEF Test, Move
  <2>2. QED
    BY <1>4, <2>1 DEF AllPC, ModPC
<1>7. CASE Test(p, "p_test", "p_lock")
  <2>1. Move(p, "p_test", "menu") \/ Move(p, "p_test", "p_lock")
    BY <1>1, <1>7 DEF Test, Move
  <2>2. QED
    BY <1>4, <2>1 DEF AllPC
<1>8. QED
  BY <1>5, <1>6, <1>7

LEMMA LockInv ==
  ASSUME Inv, NEW p \in Procs, NEW from \in {"a_lock", "m_lock", "p_lock"},
         NEW to \in {"a_edit", "m_compare", "p_write"}, to = "a_edit" => from = "a_lock",
         Lock(p, from, to)
  PROVE  Inv'
<1>1. /\ Move(p, from, to) /\ UNCHANGED <<file, record, record_sav, verified>>
      /\ owner' = [n \in Numbers |-> IF n = record_num[p] /\ owner[n] = Nobody THEN p ELSE owner[n]]
  BY DEF Lock, Move
<1>2. from \in AllPC \ {"gone", "menu"} /\ from \notin LockedPC /\ to \in LockedPC /\ to \in AllPC
  BY DEF AllPC, ModPC, LockedPC, WritePC
<1>3. /\ ProcsOK' /\ pc[p] = from /\ pc'[p] = to /\ record_num' = record_num
      /\ \A q \in Procs \ {p} : pc'[q] = pc[q]
  BY <1>1, <1>2, MoveFacts DEF Inv, Core, Move
<1>5. OwnerOK'
  BY <1>1 DEF Inv, Core, OwnerOK
<1>6. FileOK' /\ Grows /\ DataOK'
  BY <1>1, FileKept DEF Inv, Core, DataOK
<1>7. AddLeavesNoHole'
  BY <1>3, <1>6, NoHoleKept DEF Inv, Core, AddPC
<1>8. LocksGivenBack'
  <2> SUFFICES ASSUME NEW n \in Numbers, owner'[n] # Nobody
               PROVE  pc'[owner'[n]] \in LockedPC /\ record_num'[owner'[n]] = n
    BY DEF LocksGivenBack
  <2>1. CASE owner'[n] = p
    <3>1. owner[n] # p
      BY <1>2, <1>3, NoLockElsewhere DEF Inv
    <3>2. n = record_num[p]
      BY <1>1, <2>1, <3>1
    <3>3. QED
      BY <1>2, <1>3, <2>1, <3>2
  <2>2. CASE owner'[n] # p
    <3>1. owner'[n] = owner[n] /\ owner[n] \in Procs \ {p}
      BY <1>1, <2>2 DEF Inv, Core, OwnerOK
    <3>2. pc[owner[n]] \in LockedPC /\ record_num[owner[n]] = n
      BY <3>1 DEF Inv, LocksGivenBack
    <3>3. QED
      BY <1>3, <3>1, <3>2
  <2>3. QED
    BY <2>1, <2>2
<1>9. QED
  BY <1>3, <1>5, <1>6, <1>7, <1>8 DEF Inv, Core

(* A process gives back the lock of its record, or all it has; then it has *)
(* none.                                                                   *)
LEMMA ReleaseLocks ==
  ASSUME Inv, NEW p \in Procs, NEW ns, record_num[p] \in Numbers => record_num[p] \in ns,
         owner' = Release(p, ns),
         \A q \in Procs \ {p} : pc'[q] = pc[q] /\ record_num'[q] = record_num[q]
  PROVE  OwnerOK' /\ LocksGivenBack'
<1>1. \A k \in Numbers : owner'[k] = owner[k] \/ owner'[k] = Nobody
  BY DEF Inv, Core, OwnerOK, Release
<1>2. OwnerOK'
  BY DEF Inv, Core, OwnerOK, Release
<1>3. ASSUME NEW k \in Numbers PROVE owner'[k] # p
  <2>1. owner[k] = p => record_num[p] = k
    BY RecordAssumption DEF Inv, LocksGivenBack, RecordAssumption
  <2>2. QED
    BY <2>1, RecordAssumption DEF Release, RecordAssumption
<1>4. ASSUME NEW k \in Numbers, owner'[k] # Nobody
      PROVE  pc'[owner'[k]] \in LockedPC /\ record_num'[owner'[k]] = k
  <2>1. owner'[k] = owner[k] /\ owner[k] \in Procs \ {p}
    BY <1>1, <1>3, <1>4 DEF Inv, Core, OwnerOK
  <2>2. pc[owner[k]] \in LockedPC /\ record_num[owner[k]] = k
    BY <2>1, <1>4 DEF Inv, LocksGivenBack
  <2>3. QED
    BY <2>1, <2>2
<1>5. QED
  BY <1>2, <1>4 DEF LocksGivenBack

LEMMA UnlockInv ==
  ASSUME Inv, NEW p \in Procs, NEW from \in {"unlock", "m_unlock"},
         NEW to \in {"menu", "m_edit"}, Unlock(p, from, to)
  PROVE  Inv'
<1>1. /\ Move(p, from, to) /\ UNCHANGED <<file, record, record_sav, verified>>
      /\ owner' = Release(p, {record_num[p]})
  BY DEF Unlock, Move
<1>2. from \in AllPC \ {"gone", "menu"} /\ to \in AllPC
  BY DEF AllPC, ModPC, LockedPC
<1>3. /\ ProcsOK' /\ pc[p] = from /\ pc'[p] = to /\ record_num' = record_num
      /\ \A q \in Procs \ {p} : pc'[q] = pc[q]
  BY <1>1, <1>2, MoveFacts DEF Inv, Core, Move
<1>5. OwnerOK' /\ LocksGivenBack'
  BY <1>1, <1>3, ReleaseLocks
<1>6. FileOK' /\ Grows /\ DataOK'
  BY <1>1, FileKept DEF Inv, Core, DataOK
<1>7. AddLeavesNoHole'
  BY <1>3, <1>6, NoHoleKept DEF Inv, Core, AddPC
<1>8. QED
  BY <1>3, <1>5, <1>6, <1>7 DEF Inv, Core

LEMMA WriteInv ==
  ASSUME Inv, NEW p \in Procs, NEW from \in WritePC, Write(p, from) PROVE Inv'
<1>1. /\ Move(p, from, "unlock")
      /\ file' = IF record_num[p] \in Numbers THEN PutRecord(record_num[p], record[p]) ELSE file
      /\ verified' = [verified EXCEPT ![p] = Nobody] /\ UNCHANGED <<owner, record, record_sav>>
  BY DEF Write, Move
<1>2. from \in AllPC \ {"gone", "menu"} /\ from \in LockedPC /\ "unlock" \in LockedPC \ AddPC /\ "unlock" \in AllPC
  BY DEF AllPC, LockedPC, WritePC, AddPC
<1>3. record[p] \in Records
  BY DEF Inv, Core, DataOK
<1>4. FileOK' /\ Grows
  <2>1. CASE record_num[p] \in Numbers
    BY <1>1, <1>3, <2>1, PutFacts DEF Inv, Core, FileOK, Grows
  <2>2. CASE record_num[p] \notin Numbers
    BY <1>1, <2>2, FileKept DEF Inv
  <2>3. QED
    BY <2>1, <2>2
<1>5. DataOK'
  BY <1>1 DEF Inv, Core, DataOK
<1>6. QED
  BY <1>1, <1>2, <1>4, <1>5, MoveInv

(* What a process does with its record, and what it remembers of it.       *)
LEMMA EditInv ==
  ASSUME Inv, NEW p \in Procs, UNCHANGED <<file, owner>>, DataOK',
         \/ Move(p, "a_edit", "a_write")
         \/ Move(p, "m_edit", "menu") \/ Move(p, "m_edit", "m_test")
         \/ Move(p, "m_compare", "unlock") \/ Move(p, "m_compare", "m_unlock")
         \/ Move(p, "menu", "m_edit") \/ Move(p, "menu", "p_test")
         \/ Move(p, "gone", "menu")
  PROVE  Inv'
<1>1. FileOK' /\ Grows
  BY FileKept DEF Inv
<1>2. ASSUME NEW from \in AllPC, NEW to \in AllPC, Move(p, from, to),
             from \in LockedPC => to \in LockedPC, to \in AddPC => from \in AddPC
      PROVE  Inv'
  BY <1>1, <1>2, MoveInv
<1>3. CASE Move(p, "a_edit", "a_write")
  BY <1>2, <1>3 DEF AllPC, LockedPC, WritePC, AddPC
<1>4. CASE Move(p, "m_edit", "menu")
  BY <1>2, <1>4 DEF AllPC, ModPC, LockedPC, WritePC, AddPC
<1>5. CASE Move(p, "m_edit", "m_test")
  BY <1>2, <1>5 DEF AllPC, ModPC, LockedPC, WritePC, AddPC
<1>6. CASE Move(p, "m_compare", "unlock")
  BY <1>2, <1>6 DEF AllPC, ModPC, LockedPC, WritePC, AddPC
<1>7. CASE Move(p, "m_compare", "m_unlock")
  BY <1>2, <1>7 DEF AllPC, ModPC, LockedPC, WritePC, AddPC
<1>8. CASE Move(p, "menu", "m_edit")
  BY <1>2, <1>8 DEF AllPC, ModPC, LockedPC, WritePC, AddPC
<1>9. CASE Move(p, "menu", "p_test")
  BY <1>2, <1>9 DEF AllPC, LockedPC, WritePC, AddPC
<1>10. CASE Move(p, "gone", "menu")
  BY <1>2, <1>10 DEF AllPC, LockedPC, WritePC, AddPC
<1>11. QED
  BY <1>3, <1>4, <1>5, <1>6, <1>7, <1>8, <1>9, <1>10

LEMMA ModInv ==
  ASSUME Inv, NEW p \in Procs, ModEdit(p) \/ ModCompare(p) PROVE Inv'
<1>1. CASE ModEdit(p)
  <2>1. PICK r \in Records :
          /\ record' = [record EXCEPT ![p] = r]
          /\ \/ Goto(p, "m_edit", "menu") /\ record_sav' = [record_sav EXCEPT ![p] = Zero]
             \/ Goto(p, "m_edit", "m_test") /\ record_sav' = [record_sav EXCEPT ![p] = record[p]]
    BY <1>1 DEF ModEdit
  <2>2. UNCHANGED <<file, owner, record_num, verified>>
    BY <1>1 DEF ModEdit
  <2>3. DataOK'
    BY <2>1, <2>2, RecordAssumption DEF Inv, Core, DataOK, RecordAssumption
  <2>4. QED
    BY <2>1, <2>2, <2>3, EditInv DEF Move
<1>2. CASE ModCompare(p)
  <2>1. PICK garbage \in IF Exists(record_num[p]) THEN {Zero} ELSE Records :
          LET record_new == GetRecord(record_num[p], garbage) IN
          IF record_new = record_sav[p]
          THEN /\ Goto(p, "m_compare", "unlock") /\ UNCHANGED record
               /\ record_sav' = [record_sav EXCEPT ![p] = Zero]
               /\ verified' = [verified EXCEPT ![p] =
                                 IF Exists(record_num[p]) THEN record_new ELSE Nobody]
          ELSE /\ Goto(p, "m_compare", "m_unlock")
               /\ record' = [record EXCEPT ![p] = record_new]
               /\ UNCHANGED <<verified, record_sav>>
    BY <1>2 DEF ModCompare
  <2> DEFINE new == GetRecord(record_num[p], garbage)
  <2>2. UNCHANGED <<file, owner, record_num>>
    BY <1>2 DEF ModCompare
  <2>3. garbage \in Records /\ record_num[p] \in Int
    BY RecordAssumption DEF Inv, Core, ProcsOK, Typed, RecordAssumption
  <2>4. new \in Records
    BY <2>3, GetFacts DEF Inv, Core
  <2> HIDE DEF new
  <2>5. CASE new = record_sav[p]
    <3>1. /\ Move(p, "m_compare", "unlock") /\ UNCHANGED record
          /\ record_sav' = [record_sav EXCEPT ![p] = Zero]
          /\ verified' = [verified EXCEPT ![p] = IF Exists(record_num[p]) THEN new ELSE Nobody]
      BY <2>1, <2>2, <2>5 DEF new, Move
    <3>2. DataOK'
      BY <2>4, <3>1, RecordAssumption DEF Inv, Core, DataOK, RecordAssumption
    <3>3. QED
      BY <2>2, <3>1, <3>2, EditInv
  <2>6. CASE new # record_sav[p]
    <3>1. /\ Move(p, "m_compare", "m_unlock") /\ UNCHANGED <<verified, record_sav>>
          /\ record' = [record EXCEPT ![p] = new]
      BY <2>1, <2>2, <2>6 DEF new, Move
    <3>2. DataOK'
      BY <2>4, <3>1 DEF Inv, Core, DataOK
    <3>3. QED
      BY <2>2, <3>1, <3>2, EditInv
  <2>7. QED
    BY <2>5, <2>6
<1>3. QED
  BY <1>1, <1>2

(* ADD and GET choose a record, at the menu.                               *)
LEMMA ChooseInv ==
  ASSUME Inv, NEW p \in Procs, NEW to \in {"menu", "a_test"}, NEW n \in Typed,
         Goto(p, "menu", to), record_num' = [record_num EXCEPT ![p] = n],
         to = "a_test" => n \in 0 .. Len(file) /\ n < NUM_RECORDS,
         UNCHANGED <<file, owner>>, DataOK'
  PROVE  Inv'
<1>1. /\ pc[p] = "menu" /\ pc'[p] = to /\ record_num'[p] = n
      /\ \A q \in Procs \ {p} : pc'[q] = pc[q] /\ record_num'[q] = record_num[q]
      /\ pc' \in [Procs -> AllPC] /\ record_num' \in [Procs -> Typed]
  BY DEF Goto, Inv, Core, ProcsOK, AllPC
<1>2. ProcsOK'
  BY <1>1 DEF Inv, Core, ProcsOK
<1>3. "menu" \notin LockedPC
  BY DEF LockedPC, WritePC
<1>4. OwnerOK' /\ FileOK' /\ Grows
  BY FileKept DEF Inv, Core, OwnerOK
<1>5. LocksGivenBack'
  BY <1>1, <1>3, LocksKept DEF Inv, Core
<1>6. AddLeavesNoHole'
  <2> SUFFICES ASSUME NEW q \in Procs, pc'[q] \in AddPC
               PROVE  record_num'[q] \in 0 .. Len(file') /\ record_num'[q] < NUM_RECORDS
    BY DEF AddLeavesNoHole, AddPC
  <2>1. CASE q = p
    BY <1>1, <2>1 DEF AddPC
  <2>2. CASE q # p
    BY <1>1, <2>2 DEF Inv, AddLeavesNoHole, AddPC
  <2>3. QED
    BY <2>1, <2>2
<1>7. QED
  BY <1>2, <1>4, <1>5, <1>6 DEF Inv, Core

LEMMA AddScanInv ==
  ASSUME Inv, NEW p \in Procs, AddScan(p) PROVE Inv'
<1> DEFINE free == Min({Len(file), NUM_RECORDS})
<1>1. /\ Len(file) \in Nat /\ NUM_RECORDS \in Nat /\ LAST \in Nat /\ NUM_RECORDS <= LAST + 1
      /\ free \in Nat /\ free <= Len(file) /\ free <= NUM_RECORDS
  BY RecordAssumption, MinFacts DEF Inv, Core, FileOK, RecordAssumption
<1>2. /\ record' = [record EXCEPT ![p] = GetRecord(free - 1, record[p])]
      /\ verified' = [verified EXCEPT ![p] = Nobody] /\ UNCHANGED <<file, owner, record_sav>>
  BY DEF AddScan
<1>3. record[p] \in Records /\ free - 1 \in Int
  BY <1>1 DEF Inv, Core, DataOK
<1>4. GetRecord(free - 1, record[p]) \in Records
  BY <1>3, GetFacts DEF Inv, Core
<1>5. DataOK'
  BY <1>2, <1>4 DEF Inv, Core, DataOK
<1>6. CASE free = NUM_RECORDS
  <2>1. Goto(p, "menu", "menu") /\ record_num' = [record_num EXCEPT ![p] = -1]
    BY <1>6 DEF AddScan
  <2>2. -1 \in Typed
    BY <1>1 DEF Typed
  <2>3. QED
    BY <1>2, <1>5, <2>1, <2>2, ChooseInv
<1>7. CASE free # NUM_RECORDS
  <2>1. Goto(p, "menu", "a_test") /\ record_num' = [record_num EXCEPT ![p] = free]
    BY <1>7 DEF AddScan
  <2>2. free \in Typed /\ free \in 0 .. Len(file) /\ free < NUM_RECORDS
    BY <1>1, <1>7 DEF Typed
  <2>3. QED
    BY <1>2, <1>5, <2>1, <2>2, ChooseInv
<1>8. QED
  BY <1>6, <1>7

LEMMA GetInv ==
  ASSUME Inv, NEW p \in Procs, NEW n \in Typed, Get(p, n) PROVE Inv'
<1>1. /\ Goto(p, "menu", "menu") /\ record_num' = [record_num EXCEPT ![p] = n]
      /\ record' = [record EXCEPT ![p] = GetRecord(n, record[p])]
      /\ verified' = [verified EXCEPT ![p] = Nobody] /\ UNCHANGED <<file, owner, record_sav>>
  BY DEF Get
<1>2. record[p] \in Records /\ n \in Int
  BY RecordAssumption DEF Inv, Core, DataOK, Typed, RecordAssumption
<1>3. GetRecord(n, record[p]) \in Records
  BY <1>2, GetFacts DEF Inv, Core
<1>4. DataOK'
  BY <1>1, <1>3 DEF Inv, Core, DataOK
<1>5. QED
  BY <1>1, <1>4, ChooseInv

LEMMA QuitInv ==
  ASSUME Inv, NEW p \in Procs, Quit(p) PROVE Inv'
<1>1. /\ pc' = [pc EXCEPT ![p] = "gone"] /\ record_num' = [record_num EXCEPT ![p] = -1]
      /\ owner' = Release(p, Numbers)
      /\ record' = [record EXCEPT ![p] = Zero] /\ record_sav' = [record_sav EXCEPT ![p] = Zero]
      /\ verified' = [verified EXCEPT ![p] = Nobody] /\ UNCHANGED file
  BY DEF Quit
<1>2. /\ pc'[p] = "gone"
      /\ \A q \in Procs \ {p} : pc'[q] = pc[q] /\ record_num'[q] = record_num[q]
      /\ pc' \in [Procs -> AllPC] /\ record_num' \in [Procs -> Typed]
  BY <1>1, RecordAssumption DEF Inv, Core, ProcsOK, AllPC, Typed, RecordAssumption
<1>3. ProcsOK'
  BY <1>2 DEF Inv, Core, ProcsOK
<1>4. DataOK'
  BY <1>1, RecordAssumption DEF Inv, Core, DataOK, RecordAssumption
<1>5. OwnerOK' /\ LocksGivenBack'
  BY <1>1, <1>2, ReleaseLocks
<1>6. FileOK' /\ Grows
  BY <1>1, FileKept DEF Inv
<1>7. AddLeavesNoHole'
  BY <1>2, <1>6, NoHoleKept DEF Inv, Core, AddPC
<1>8. QED
  BY <1>3, <1>4, <1>5, <1>6, <1>7 DEF Inv, Core

-----------------------------------------------------------------------------
LEMMA InitInv == Init => Inv
<1> SUFFICES ASSUME Init PROVE Inv
  OBVIOUS
<1>1. FileOK
  <2>1. file = <<>> \/ \E r \in Records : file = <<r>>
    BY DEF Init
  <2>2. CASE file = <<>>
    <3>1. file \in Seq(Records) /\ Len(file) = 0
      BY <2>2, EmptySeq
    <3>2. QED
      BY <3>1, RecordAssumption DEF FileOK, RecordAssumption
  <2>3. ASSUME NEW r \in Records, file = <<r>> PROVE FileOK
    <3>1. file \in Seq(Records) /\ Len(file) = 1
      BY <2>3
    <3>2. QED
      BY <3>1, RecordAssumption DEF FileOK, RecordAssumption
  <2>4. QED
    BY <2>1, <2>2, <2>3
<1>2. ProcsOK /\ OwnerOK
  BY RecordAssumption DEF Init, ProcsOK, OwnerOK, AllPC, Typed, RecordAssumption
<1>3. DataOK
  BY RecordAssumption DEF Init, DataOK, RecordAssumption
<1>4. LocksGivenBack /\ AddLeavesNoHole
  BY DEF Init, LocksGivenBack, AddLeavesNoHole
<1>5. QED
  BY <1>1, <1>2, <1>3, <1>4 DEF Inv, Core

LEMMA StepInv == Inv /\ [Next]_vars => Inv'
<1> SUFFICES ASSUME Inv, [Next]_vars PROVE Inv'
  OBVIOUS
<1>1. CASE UNCHANGED vars
  BY <1>1 DEF vars, local, Inv, Core, FileOK, ProcsOK, DataOK, OwnerOK, LocksGivenBack, AddLeavesNoHole
<1>2. ASSUME NEW p \in Procs, CommandStep(p) PROVE Inv'
  <2>1. CASE Test(p, "a_test", "a_lock") \/ Test(p, "m_test", "m_lock") \/ Test(p, "p_test", "p_lock")
    BY <2>1, TestInv
  <2>2. CASE Lock(p, "a_lock", "a_edit") \/ Lock(p, "m_lock", "m_compare") \/ Lock(p, "p_lock", "p_write")
    BY <2>2, LockInv
  <2>3. CASE Edit(p, "a_edit", "a_write")
    <3>1. Move(p, "a_edit", "a_write") /\ UNCHANGED <<file, owner, record_sav, verified>>
          /\ \E r \in Records : record' = [record EXCEPT ![p] = r]
      BY <2>3 DEF Edit, Move
    <3>2. DataOK'
      BY <3>1 DEF Inv, Core, DataOK
    <3>3. QED
      BY <3>1, <3>2, EditInv
  <2>4. CASE Write(p, "a_write") \/ Write(p, "p_write")
    BY <2>4, WriteInv DEF WritePC
  <2>5. CASE ModEdit(p) \/ ModCompare(p)
    BY <2>5, ModInv
  <2>6. CASE Unlock(p, "m_unlock", "m_edit") \/ Unlock(p, "unlock", "menu")
    BY <2>6, UnlockInv
  <2>7. QED
    BY <1>2, <2>1, <2>2, <2>3, <2>4, <2>5, <2>6 DEF CommandStep, Add, Mod, Put, UnlockAndReturn
<1>3. ASSUME NEW p \in Procs, ModStart(p) \/ PutStart(p) PROVE Inv'
  <2>1. /\ Move(p, "menu", "m_edit") \/ Move(p, "menu", "p_test")
        /\ UNCHANGED <<file, owner, record, record_sav, verified>>
    BY <1>3 DEF ModStart, PutStart, Move
  <2>2. DataOK'
    BY <2>1 DEF Inv, Core, DataOK
  <2>3. QED
    BY <2>1, <2>2, EditInv
<1>4. ASSUME NEW p \in Procs, Start(p) PROVE Inv'
  <2>1. Move(p, "gone", "menu") /\ UNCHANGED <<file, owner, record_sav, verified>>
        /\ \E r \in Records : record' = [record EXCEPT ![p] = r]
    BY <1>4 DEF Start, Move
  <2>2. DataOK'
    BY <2>1 DEF Inv, Core, DataOK
  <2>3. QED
    BY <2>1, <2>2, EditInv
<1>5. QED
  BY <1>1, <1>2, <1>3, <1>4, AddScanInv, GetInv, QuitInv DEF Next

LEMMA AlwaysInv == Spec => []Inv
BY InitInv, StepInv, PTL DEF Spec

(* The state keeps its type, for any number of processes and records: the  *)
(* file grows up to the last number a user types, which GET and PUT do not *)
(* compare with NUM_RECORDS, and a number below 0 locks and writes nothing.*)
THEOREM TypeCorrect == Spec => []TypeOK
<1>1. Inv => TypeOK
  BY CoreType DEF Inv
<1>2. QED
  BY <1>1, AlwaysInv, PTL

(* ADD never leaves a hole and never writes behind the NUM_RECORDS of the  *)
(* file, for any number of processes that add at the same time and put     *)
(* records anywhere.                                                       *)
THEOREM NoHole == Spec => []AddLeavesNoHole
<1>1. Inv => AddLeavesNoHole
  BY DEF Inv
<1>2. QED
  BY <1>1, AlwaysInv, PTL

(* Every path through ADD, MOD and PUT, and the end of a process wherever  *)
(* it is, gives back the lock that was taken, on the record it was taken   *)
(* on: though F_SETLK may fail unseen, nobody gives back another's.        *)
THEOREM LocksReturn == Spec => []LocksGivenBack
<1>1. Inv => LocksGivenBack
  BY DEF Inv
<1>2. QED
  BY <1>1, AlwaysInv, PTL

=============================================================================
