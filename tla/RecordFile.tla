----------------------------- MODULE RecordFile -----------------------------
(***************************************************************************)
(* LAB_7/p2/src/main.c: several processes edit the records of one file.    *)
(* Each remembers the record it last got, tests for a lock with F_GETLK,   *)
(* takes it with F_SETLK without looking at the result, and writes.        *)
(***************************************************************************)
EXTENDS Integers, SequencesExt

CONSTANTS
  Procs,        (* processes that run the program on the file              *)
  Records,      (* records a user can type                                 *)
  Zero,         (* the empty record: zero bytes, as in a hole in the file  *)
  Nobody,       (* no process                                              *)
  NUM_RECORDS,
  LAST          (* the last record number a user types; GET does not ask   *)
                (* whether it is below NUM_RECORDS                         *)

ASSUME RecordAssumption ==
  /\ Zero \in Records /\ Nobody \notin Records /\ Nobody \notin Procs
  /\ NUM_RECORDS \in Nat \ {0} /\ LAST \in Nat /\ LAST >= NUM_RECORDS - 1

VARIABLES
  file,         (* the records up to the end of the file                   *)
  owner,        (* who has a write lock on a record                        *)
  pc,
  record_num,   (* the record the process works on, or -1                  *)
  record,       (* its copy of that record                                 *)
  record_sav,   (* the copy MOD started from; Zero outside MOD             *)
  verified      (* history: the contents MOD last found unchanged          *)

local == <<pc, record_num, record, record_sav, verified>>
vars == <<file, owner, local>>

Numbers == 0 .. LAST

(* What GET takes.  On a number below 0 lseek and fcntl fail; -2 stands    *)
(* for all those below -1, which is no record for PUT and MOD.             *)
Typed == -2 .. LAST

(* ADD tests, locks, edits and writes; MOD edits, tests, locks and         *)
(* compares; PUT tests, locks and writes.                                  *)
ModPC == {"m_edit", "m_test", "m_lock", "m_compare", "m_unlock"}
WritePC == {"a_write", "p_write"}
LockedPC == {"a_edit", "m_compare", "unlock", "m_unlock"} \cup WritePC

TypeOK ==
  /\ file \in Seq(Records) /\ Len(file) <= LAST + 1
  /\ owner \in [Numbers -> Procs \cup {Nobody}]
  /\ pc \in [Procs -> {"gone", "menu", "a_test", "a_lock", "p_test", "p_lock"}
                      \cup ModPC \cup LockedPC]
  /\ record_num \in [Procs -> Typed]
  /\ record \in [Procs -> Records] /\ record_sav \in [Procs -> Records]
  /\ verified \in [Procs -> Records \cup {Nobody}]

(* record is not initialized; the file may already hold records. *)
Init ==
  /\ file \in {<<>>} \cup {<<r>> : r \in Records}
  /\ owner = [n \in Numbers |-> Nobody]
  /\ pc = [p \in Procs |-> "menu"] /\ record_num = [p \in Procs |-> -1]
  /\ record \in [Procs -> Records]
  /\ record_sav = [p \in Procs |-> Zero] /\ verified = [p \in Procs |-> Nobody]

-----------------------------------------------------------------------------
(* get_record fails beyond the end of the file and leaves *record alone.   *)
Exists(n) == n \in 0 .. Len(file) - 1
GetRecord(n, else) == IF Exists(n) THEN file[n + 1] ELSE else

(* A write beyond the end of the file leaves a hole. *)
PutRecord(n, r) ==
  [k \in 1 .. Max({Len(file), n + 1}) |-> IF k = n + 1 THEN r ELSE GetRecord(k - 1, Zero)]

Goto(p, from, to) == pc[p] = from /\ pc' = [pc EXCEPT ![p] = to]

(* get_lock_state: somebody else has it; a number below 0 nobody has. *)
Locked(p) == record_num[p] \in Numbers /\ owner[record_num[p]] \notin {p, Nobody}

Test(p, from, to) ==
  /\ Goto(p, from, IF Locked(p) THEN "menu" ELSE to)
  /\ record_sav' = [record_sav EXCEPT ![p] = IF Locked(p) THEN Zero ELSE @]
  /\ UNCHANGED <<file, owner, record_num, record, verified>>

(* F_SETLK fails if another process was faster, or on a number below 0,    *)
(* and nobody looks.                                                       *)
Lock(p, from, to) ==
  /\ Goto(p, from, to)
  /\ owner' = [n \in Numbers |-> IF n = record_num[p] /\ owner[n] = Nobody THEN p ELSE owner[n]]
  /\ UNCHANGED <<file, record_num, record, record_sav, verified>>

Release(p, ns) == [n \in Numbers |-> IF n \in ns /\ owner[n] = p THEN Nobody ELSE owner[n]]

(* Bug: the unlock is forgotten. *)
ForgetUnlock(p, from, to) ==
  Goto(p, from, to) /\ UNCHANGED <<file, owner, record_num, record, record_sav, verified>>

Unlock(p, from, to) ==
  /\ Goto(p, from, to)
  /\ owner' = Release(p, {record_num[p]})
  /\ UNCHANGED <<file, record_num, record, record_sav, verified>>

(* modify_record: the user types a record. *)
Edit(p, from, to) ==
  /\ Goto(p, from, to)
  /\ \E r \in Records : record' = [record EXCEPT ![p] = r]
  /\ UNCHANGED <<file, owner, record_num, record_sav, verified>>

Write(p, from) ==
  /\ Goto(p, from, "unlock")
  /\ file' = IF record_num[p] \in Numbers THEN PutRecord(record_num[p], record[p]) ELSE file
  /\ verified' = [verified EXCEPT ![p] = Nobody]
  /\ UNCHANGED <<owner, record_num, record, record_sav>>

-----------------------------------------------------------------------------
(* Bug: the scan does not stop at NUM_RECORDS. *)
AddScanUnbounded(p) ==
  /\ Goto(p, "menu", "a_test")
  /\ record_num' = [record_num EXCEPT ![p] = Len(file)]
  /\ record' = [record EXCEPT ![p] = GetRecord(Len(file) - 1, @)]
  /\ UNCHANGED <<file, owner, record_sav, verified>>

(* Bug: the scan stops one record late. *)
AddScanLate(p) ==
  LET free == Len(file) + 1 IN
  /\ Goto(p, "menu", IF free >= NUM_RECORDS THEN "menu" ELSE "a_test")
  /\ record_num' = [record_num EXCEPT ![p] = IF free >= NUM_RECORDS THEN -1 ELSE free]
  /\ record' = [record EXCEPT ![p] = GetRecord(free - 2, @)]
  /\ UNCHANGED <<file, owner, record_sav, verified>>

(* ADD looks below NUM_RECORDS for the first record that does not exist,   *)
(* reading all those before it into record.                                *)
AddScan(p) ==
  LET free == Min({Len(file), NUM_RECORDS}) IN
  /\ Goto(p, "menu", IF free = NUM_RECORDS THEN "menu" ELSE "a_test")
  /\ record_num' = [record_num EXCEPT ![p] = IF free = NUM_RECORDS THEN -1 ELSE free]
  /\ record' = [record EXCEPT ![p] = GetRecord(free - 1, @)]
  /\ verified' = [verified EXCEPT ![p] = Nobody]
  /\ UNCHANGED <<file, owner, record_sav>>

Add(p) ==
  \/ Test(p, "a_test", "a_lock") \/ Lock(p, "a_lock", "a_edit")
  \/ Edit(p, "a_edit", "a_write") \/ Write(p, "a_write")

ModStart(p) == /\ record_num[p] # -1 /\ Goto(p, "menu", "m_edit")
               /\ UNCHANGED <<file, owner, record_num, record, record_sav, verified>>

(* Bug: AGAIN stands after the assignment to record_sav. *)
ModEditKeepsOld(p) ==
  /\ \E r \in Records :
       /\ record' = [record EXCEPT ![p] = r]
       /\ IF r = record[p] THEN Goto(p, "m_edit", "menu") /\ UNCHANGED record_sav
          ELSE Goto(p, "m_edit", "m_test")
               /\ record_sav' = [record_sav EXCEPT ![p] = IF @ = Zero THEN record[p] ELSE @]
  /\ UNCHANGED <<file, owner, record_num, verified>>

(* AGAIN: nothing happens if the user typed what was there. *)
ModEdit(p) ==
  /\ \E r \in Records :
       /\ record' = [record EXCEPT ![p] = r]
       /\ IF r = record[p]
          THEN Goto(p, "m_edit", "menu") /\ record_sav' = [record_sav EXCEPT ![p] = Zero]
          ELSE Goto(p, "m_edit", "m_test") /\ record_sav' = [record_sav EXCEPT ![p] = record[p]]
  /\ UNCHANGED <<file, owner, record_num, verified>>

(* Under the lock MOD compares, but does not write: the write is commented *)
(* out.  record_new is not initialized if the record does not exist.       *)
ModCompare(p) ==
  /\ \E garbage \in IF Exists(record_num[p]) THEN {Zero} ELSE Records :
       LET record_new == GetRecord(record_num[p], garbage) IN
       IF record_new = record_sav[p]
       THEN /\ Goto(p, "m_compare", "unlock") /\ UNCHANGED record
            /\ record_sav' = [record_sav EXCEPT ![p] = Zero]
            /\ verified' = [verified EXCEPT ![p] =
                              IF Exists(record_num[p]) THEN record_new ELSE Nobody]
       ELSE /\ Goto(p, "m_compare", "m_unlock")
            /\ record' = [record EXCEPT ![p] = record_new]
            /\ UNCHANGED <<verified, record_sav>>
  /\ UNCHANGED <<file, owner, record_num>>

Mod(p) ==
  \/ Test(p, "m_test", "m_lock") \/ Lock(p, "m_lock", "m_compare")
  \/ ModEdit(p) \/ ModCompare(p) \/ Unlock(p, "m_unlock", "m_edit")

Get(p, n) ==
  /\ Goto(p, "menu", "menu")
  /\ record_num' = [record_num EXCEPT ![p] = n]
  /\ record' = [record EXCEPT ![p] = GetRecord(n, @)]
  /\ verified' = [verified EXCEPT ![p] = Nobody]
  /\ UNCHANGED <<file, owner, record_sav>>

PutStart(p) == /\ record_num[p] # -1 /\ Goto(p, "menu", "p_test")
               /\ UNCHANGED <<file, owner, record_num, record, record_sav, verified>>

Put(p) ==
  \/ Test(p, "p_test", "p_lock") \/ Lock(p, "p_lock", "p_write") \/ Write(p, "p_write")

UnlockAndReturn(p) == Unlock(p, "unlock", "menu")

(* QUIT, or the process is killed: the kernel drops its locks. *)
Quit(p) ==
  /\ pc[p] # "gone" /\ pc' = [pc EXCEPT ![p] = "gone"]
  /\ owner' = Release(p, Numbers)
  /\ record_num' = [record_num EXCEPT ![p] = -1]
  /\ record' = [record EXCEPT ![p] = Zero] /\ record_sav' = [record_sav EXCEPT ![p] = Zero]
  /\ verified' = [verified EXCEPT ![p] = Nobody]
  /\ UNCHANGED file

Start(p) ==
  /\ Goto(p, "gone", "menu")
  /\ \E r \in Records : record' = [record EXCEPT ![p] = r]
  /\ UNCHANGED <<file, owner, record_num, record_sav, verified>>

CommandStep(p) == Add(p) \/ Mod(p) \/ Put(p) \/ UnlockAndReturn(p)

Next == \E p \in Procs :
  \/ CommandStep(p) \/ AddScan(p) \/ ModStart(p) \/ PutStart(p)
  \/ (\E n \in Typed : Get(p, n)) \/ Quit(p) \/ Start(p)

(* A command that was begun goes on: users answer its prompts. *)
Fairness == \A p \in Procs : WF_vars(CommandStep(p))

Spec == Init /\ [][Next]_vars /\ Fairness

-----------------------------------------------------------------------------
(* Properties.                                                             *)

(* ADD may work on a record that another process has added meanwhile, but  *)
(* never on one further on, nor on one behind the NUM_RECORDS of the file, *)
(* whatever GET and PUT have written there: it leaves no hole in the file. *)
AddLeavesNoHole ==
  \A p \in Procs : pc[p] \in {"a_test", "a_lock", "a_edit", "a_write"} =>
    record_num[p] \in 0 .. Len(file) /\ record_num[p] < NUM_RECORDS

(* Every path of ADD, MOD and PUT, and the end of the process, gives back  *)
(* the lock it took, on the record it took it on.                          *)
LocksGivenBack ==
  \A n \in Numbers : owner[n] # Nobody =>
    pc[owner[n]] \in LockedPC /\ record_num[owner[n]] = n

(* MOD's retries come to an end when the other processes stop writing.     *)
ModRetriesEnd ==
  \A p \in Procs :
    <>[](\A q \in Procs \ {p} : pc[q] \notin WritePC) =>
      (pc[p] \in ModPC /\ Exists(record_num[p]) ~> pc[p] \notin ModPC)

(* "nobody changed it while we were thinking", or else "repeat with its    *)
(* new contents": the modification that MOD has checked in this way and    *)
(* the user saves with PUT replaces the contents it was checked against.   *)
NoLostUpdate ==
  [][\A p \in Procs :
       pc[p] = "p_write" /\ pc'[p] = "unlock" /\ verified[p] # Nobody
         => GetRecord(record_num[p], Zero) = verified[p]]_vars
=============================================================================
