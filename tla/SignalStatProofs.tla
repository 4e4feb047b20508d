-------------------------- MODULE SignalStatProofs --------------------------
(***************************************************************************)
(* What holds of LAB_3's signals for every number of children, every size  *)
(* of child_array and every count of ticks.                                *)
(***************************************************************************)
EXTENDS SignalStat, SequenceTheorems, TLAPS

Entry == [pid : Pids, print_allowed : BOOLEAN]
IsNewest(p) == st[p] # "unborn" /\ \A q \in p + 1 .. Forks : st[q] = "unborn"

USE DEF amount

(* The children are forked in order; between fork and ++amount there is a  *)
(* place for the newest.                                                   *)
ArrayOK ==
  /\ child_array \in Seq(Entry) /\ amount < MAX_CHILD
  /\ last \in 0 .. Forks /\ late \in [Pids -> 0 .. 3]
ControlOK ==
  /\ main \in {"ui", "f_store", "kill", "k_send", "k_wait", "gone"}
  /\ all \in BOOLEAN /\ exiting \in {"no", "yes", "masked"} /\ alarm \in BOOLEAN
Storing ==
  main = "f_store" => amount < MAX_CHILD - 1 /\ \E p \in Pids : IsNewest(p)

(* Only the living have a signal pending, and a child that has not yet     *)
(* installed its handlers has no permission.                               *)
ChildOK ==
  /\ st \in [Pids -> {"unborn", "forked", "x_exit"} \cup Running \cup Ended]
  /\ usr1 \in [Pids -> {"none", "KILL", "FORCE", "RESPONSE"}]
  /\ alarm_count \in [Pids -> 0 .. ALARM_COUNTS_TO_PRINT + 1]
  /\ output_allowed \in [Pids -> BOOLEAN]
  /\ copy \in [Pids -> Seq(Pids)] /\ dropped \subseteq Living
  /\ \A p, q \in Pids : st[p] = "unborn" /\ p < q => st[q] = "unborn"
  /\ \A p \in Pids : usr1[p] # "none" => p \in Living
  /\ \A p \in Pids : st[p] \in {"unborn", "forked"} => ~output_allowed[p]
Usr2OK == usr2 \in {<<>>} \cup (Pids \X {"ASK", "INFORM"})
Core == ArrayOK /\ ControlOK /\ Storing /\ ChildOK /\ Usr2OK

(* Who is born, which is all that Newest depends on, stays as it is.       *)
SameBorn == \A p \in Pids : st[p] = "unborn" <=> st'[p] = "unborn"

LEMMA CoreType == Core => TypeOK
BY DEF Core, ArrayOK, ControlOK, ChildOK, Usr2OK, TypeOK, Entry

LEMMA NewestOf ==
  ASSUME NEW f, NEW p \in Pids, f[p] # "unborn", \A q \in p + 1 .. Forks : f[q] = "unborn"
  PROVE  (CHOOSE x \in Pids : f[x] # "unborn" /\ \A q \in x + 1 .. Forks : f[q] = "unborn") = p
<1>1. p \in Int /\ \A q \in Pids : q \in Int /\ (q > p => q \in p + 1 .. Forks) /\ (q < p => p \in q + 1 .. Forks)
  BY SignalAssumption DEF Pids, SignalAssumption
<1>2. \A x \in Pids : f[x] # "unborn" /\ (\A q \in x + 1 .. Forks : f[q] = "unborn") => x = p
  BY <1>1
<1>3. QED
  BY <1>2

LEMMA NewestIs ==
  ASSUME NEW p \in Pids, IsNewest(p) PROVE Newest = p
BY NewestOf DEF Newest, IsNewest

LEMMA SameNewest ==
  ASSUME SameBorn, NEW p \in Pids, IsNewest(p) PROVE IsNewest(p)'
<1>1. \A q \in p + 1 .. Forks : q \in Pids
  BY SignalAssumption DEF Pids, SignalAssumption
<1>2. QED
  BY <1>1 DEF SameBorn, IsNewest

-----------------------------------------------------------------------------
(* What the helpers do.                                                    *)

LEMMA FrontFacts ==
  ASSUME NEW S, NEW s \in Seq(S), NEW n \in Nat, Len(s) = n + 1
  PROVE  /\ SubSeq(s, 1, n) \in Seq(S) /\ Len(SubSeq(s, 1, n)) = n
         /\ \A k \in 1 .. n : SubSeq(s, 1, n)[k] = s[k]
<1>1. ASSUME NEW k \in 1 .. n PROVE SubSeq(s, 1, n)[k] = s[k]
  OBVIOUS
<1>2. SubSeq(s, 1, n) \in Seq(S) /\ Len(SubSeq(s, 1, n)) = n
  OBVIOUS
<1>3. QED
  BY <1>1, <1>2

LEMMA ForgetFacts ==
  ASSUME ArrayOK, Forget
  PROVE  /\ child_array' \in Seq(Entry) /\ amount' = amount - 1 /\ amount > 0
         /\ \A k \in 1 .. amount - 1 : child_array'[k] = child_array[k]
         /\ last' = child_array[amount].pid /\ last' \in Pids
         /\ late' = [late EXCEPT ![last'] = 0] /\ late' \in [Pids -> 0 .. 3]
<1>1. child_array \in Seq(Entry) /\ amount \in Nat /\ amount > 0
  BY DEF ArrayOK, Forget
<1>2. child_array[amount] \in Entry
  BY <1>1
<1>3. child_array' = SubSeq(child_array, 1, amount - 1)
  BY DEF Forget, Front
<1>4. /\ child_array' \in Seq(Entry) /\ amount' = amount - 1
      /\ \A k \in 1 .. amount - 1 : child_array'[k] = child_array[k]
  <2>1. amount - 1 \in Nat /\ Len(child_array) = amount - 1 + 1
    BY <1>1
  <2>2. QED
    BY <1>1, <1>3, <2>1, FrontFacts
<1>5. last' = child_array[amount].pid /\ last' \in Pids
  BY <1>2 DEF Forget, Entry
<1>6. late' = [late EXCEPT ![last'] = 0]
  BY DEF Forget
<1>7. late' \in [Pids -> 0 .. 3]
  BY <1>5, <1>6 DEF ArrayOK
<1>8. QED
  BY <1>1, <1>4, <1>5, <1>6, <1>7

LEMMA ForgetArray == ASSUME ArrayOK, Forget PROVE ArrayOK'
<1>1. amount \in Nat /\ amount' = amount - 1 /\ amount < MAX_CHILD /\ MAX_CHILD \in Nat
  BY ForgetFacts, SignalAssumption DEF ArrayOK, SignalAssumption
<1>2. last' \in 0 .. Forks
  BY ForgetFacts DEF Pids
<1>3. QED
  BY <1>1, <1>2, ForgetFacts DEF ArrayOK

LEMMA StoreArray ==
  ASSUME ArrayOK, Storing, main = "f_store", UNCHANGED <<last, late>>,
         child_array' = Append(child_array, [pid |-> Newest, print_allowed |-> TRUE])
  PROVE  ArrayOK'
<1>1. Newest \in Pids
  BY NewestIs DEF Storing
<1>2. [pid |-> Newest, print_allowed |-> TRUE] \in Entry
  BY <1>1 DEF Entry
<1>3. child_array' \in Seq(Entry) /\ amount' = amount + 1 /\ amount \in Nat
  BY <1>2 DEF ArrayOK
<1>4. amount < MAX_CHILD - 1
  BY DEF Storing
<1>5. QED
  BY <1>3, <1>4, SignalAssumption DEF ArrayOK, SignalAssumption

LEMMA FlagFacts ==
  ASSUME ArrayOK, NEW idx, NEW flag \in BOOLEAN, SetFlags(idx, flag)
  PROVE  /\ child_array' \in Seq(Entry) /\ amount' = amount /\ Used' = Used
         /\ \A k \in Used :
              /\ child_array'[k].pid = child_array[k].pid
              /\ child_array'[k].print_allowed =
                   IF k \in idx THEN flag ELSE child_array[k].print_allowed
         /\ late' = [p \in Pids |-> IF flag /\ idx \cap Entries(p) # {} THEN 0 ELSE late[p]]
         /\ late' \in [Pids -> 0 .. 3]
<1>1. child_array \in Seq(Entry) /\ amount \in Nat /\ Used = 1 .. amount
  BY DEF ArrayOK, Used
<1>2. \A k \in Used : child_array[k] \in Entry
  BY <1>1
<1>3. \A k \in Used : [child_array[k] EXCEPT !.print_allowed = flag] \in Entry
  BY <1>2 DEF Entry
<1>4. child_array' = [k \in Used |->
        IF k \in idx THEN [child_array[k] EXCEPT !.print_allowed = flag] ELSE child_array[k]]
  BY DEF SetFlags, Used
<1>5. child_array' \in [1 .. amount -> Entry]
  BY <1>1, <1>2, <1>3, <1>4
<1>6. child_array' \in Seq(Entry) /\ amount' = amount
  BY <1>1, <1>5
<1>7. Used' = Used
  BY <1>1, <1>6 DEF Used
<1>8. ASSUME NEW k \in Used
      PROVE  /\ child_array'[k].pid = child_array[k].pid
             /\ child_array'[k].print_allowed =
                  IF k \in idx THEN flag ELSE child_array[k].print_allowed
  BY <1>2, <1>4 DEF Entry
<1>9. late' = [p \in Pids |-> IF flag /\ idx \cap Entries(p) # {} THEN 0 ELSE late[p]]
  BY DEF SetFlags
<1>10. late' \in [Pids -> 0 .. 3]
  BY <1>9 DEF ArrayOK
<1>11. QED
  BY <1>6, <1>7, <1>8, <1>9, <1>10

LEMMA SignalFacts ==
  ASSUME ChildOK, NEW p \in Pids, NEW value \in {"KILL", "FORCE", "RESPONSE"},
         Signal(p, value)
  PROVE  /\ UNCHANGED <<st, alarm_count, output_allowed>> /\ Living' = Living /\ SameBorn
         /\ usr1' \in [Pids -> {"none", "KILL", "FORCE", "RESPONSE"}]
         /\ \A q \in Pids \ {p} : usr1'[q] = usr1[q]
         /\ usr1'[p] = IF usr1[p] = "none" /\ p \in Living THEN value ELSE usr1[p]
         /\ copy' \in [Pids -> Seq(Pids)] /\ dropped' \subseteq Living => ChildOK'
<1>1. UNCHANGED <<st, alarm_count, output_allowed>> /\ Living' = Living /\ SameBorn
  BY DEF Signal, Living, SameBorn
<1>2. /\ usr1' \in [Pids -> {"none", "KILL", "FORCE", "RESPONSE"}]
      /\ \A q \in Pids \ {p} : usr1'[q] = usr1[q]
      /\ usr1'[p] = IF usr1[p] = "none" /\ p \in Living THEN value ELSE usr1[p]
  BY DEF Signal, ChildOK
<1>3. \A q \in Pids : usr1'[q] # "none" => q \in Living
  BY <1>2 DEF ChildOK
<1>4. QED
  BY <1>1, <1>2, <1>3 DEF ChildOK

LEMMA EndFacts ==
  ASSUME ChildOK, NEW p \in Pids, End(p), st[p] # "unborn"
  PROVE  /\ ChildOK' /\ SameBorn /\ Living' = Living \ {p}
         /\ st'[p] = "zombie" /\ usr1'[p] = "none" /\ dropped' = dropped \ {p}
         /\ \A q \in Pids \ {p} : /\ st'[q] = st[q] /\ usr1'[q] = usr1[q]
                                  /\ output_allowed'[q] = output_allowed[q]
<1>1. /\ st' = [st EXCEPT ![p] = "zombie"] /\ usr1' = [usr1 EXCEPT ![p] = "none"]
      /\ alarm_count' = [alarm_count EXCEPT ![p] = 0]
      /\ output_allowed' = [output_allowed EXCEPT ![p] = FALSE]
      /\ copy' = [copy EXCEPT ![p] = <<>>] /\ dropped' = dropped \ {p}
  BY DEF End
<1>2. SameBorn
  BY <1>1 DEF SameBorn, ChildOK
<1>3. Living' = Living \ {p}
  BY <1>1 DEF Living, Ended, ChildOK
<1>4. /\ st'[p] = "zombie" /\ usr1'[p] = "none"
      /\ \A q \in Pids \ {p} : /\ st'[q] = st[q] /\ usr1'[q] = usr1[q]
                               /\ output_allowed'[q] = output_allowed[q]
  BY <1>1 DEF ChildOK
<1>5. /\ st' \in [Pids -> {"unborn", "forked", "x_exit"} \cup Running \cup Ended]
      /\ usr1' \in [Pids -> {"none", "KILL", "FORCE", "RESPONSE"}]
      /\ alarm_count' \in [Pids -> 0 .. ALARM_COUNTS_TO_PRINT + 1]
      /\ output_allowed' \in [Pids -> BOOLEAN]
  BY <1>1, SignalAssumption DEF ChildOK, Ended, SignalAssumption
<1>6. copy' \in [Pids -> Seq(Pids)]
  BY <1>1, EmptySeq DEF ChildOK
<1>7. dropped' \subseteq Living'
  BY <1>1, <1>3 DEF ChildOK
<1>8. \A q, r \in Pids : st'[q] = "unborn" /\ q < r => st'[r] = "unborn"
  BY <1>2 DEF SameBorn, ChildOK
<1>9. \A q \in Pids : usr1'[q] # "none" => q \in Living'
  BY <1>3, <1>4 DEF ChildOK
<1>10. \A q \in Pids : st'[q] \in {"unborn", "forked"} => ~output_allowed'[q]
  BY <1>4 DEF ChildOK
<1>11. QED
  BY <1>1, <1>2, <1>3, <1>4, <1>5, <1>6, <1>7, <1>8, <1>9, <1>10 DEF ChildOK

LEMMA StoringKept ==
  ASSUME Storing, SameBorn, amount' = amount, main' = "f_store" => main = "f_store"
  PROVE  Storing'
BY SameNewest DEF Storing

LEMMA ProcessKept ==
  ASSUME UNCHANGED process PROVE SameBorn /\ (ChildOK => ChildOK')
BY DEF process, SameBorn, ChildOK, Living

LEMMA InheritedFacts ==
  ASSUME ChildOK, NEW p \in Pids, copy[p] # <<>>
  PROVE  Last(copy[p]) \in Pids /\ Front(copy[p]) \in Seq(Pids)
<1>1. copy[p] \in Seq(Pids) /\ Len(copy[p]) \in Nat \ {0}
  BY EmptySeq DEF ChildOK
<1>2. Len(copy[p]) - 1 \in Nat /\ Len(copy[p]) = (Len(copy[p]) - 1) + 1
  BY <1>1
<1>3. Front(copy[p]) \in Seq(Pids)
  BY <1>1, <1>2, FrontFacts DEF Front
<1>4. copy[p][Len(copy[p])] \in Pids
  BY <1>1
<1>5. QED
  BY <1>3, <1>4 DEF Last

-----------------------------------------------------------------------------
(* Every step keeps Core.                                                  *)

LEMMA InitCore == Init => Core
<1> SUFFICES ASSUME Init PROVE Core
  OBVIOUS
<1>1. ArrayOK
  <2>1. child_array \in Seq(Entry) /\ Len(child_array) = 0
    BY EmptySeq DEF Init
  <2>2. late \in [Pids -> 0 .. 3] /\ last \in 0 .. Forks
    BY SignalAssumption DEF Init, SignalAssumption
  <2>3. QED
    BY <2>1, <2>2, SignalAssumption DEF ArrayOK, SignalAssumption
<1>2. ControlOK /\ Storing /\ Usr2OK
  BY DEF Init, ControlOK, Storing, Usr2OK
<1>3. ChildOK
  <2>1. copy \in [Pids -> Seq(Pids)]
    BY EmptySeq DEF Init
  <2>2. alarm_count \in [Pids -> 0 .. ALARM_COUNTS_TO_PRINT + 1]
    BY SignalAssumption DEF Init, SignalAssumption
  <2>3. QED
    BY <2>1, <2>2 DEF Init, ChildOK
<1>4. QED
  BY <1>1, <1>2, <1>3 DEF Core

LEMMA TerminateFacts ==
  ASSUME Terminate
  PROVE  ArrayOK' /\ ControlOK' /\ amount' = 0 /\ late' = [p \in Pids |-> 0]
<1>1. child_array' \in Seq(Entry) /\ amount' = 0
  BY EmptySeq DEF Terminate
<1>2. late' \in [Pids -> 0 .. 3] /\ last' \in 0 .. Forks /\ late' = [p \in Pids |-> 0]
  BY SignalAssumption DEF Terminate, SignalAssumption
<1>3. ArrayOK'
  BY <1>1, <1>2, SignalAssumption DEF ArrayOK, SignalAssumption
<1>4. ControlOK'
  BY DEF Terminate, ControlOK
<1>5. QED
  BY <1>1, <1>2, <1>3, <1>4

LEMMA ExitFacts ==
  ASSUME Core, NEW how \in {"yes", "masked"}, Exit(how)
  PROVE  /\ ArrayOK' /\ ControlOK' /\ Storing' /\ exiting' # "no"
         /\ late' = [p \in Pids |-> 0]
<1>1. CASE exiting = "no"
  <2>1. /\ main' = "kill" /\ exiting' = how /\ all' = TRUE /\ last' = 0
        /\ late' = [p \in Pids |-> 0] /\ UNCHANGED <<child_array, alarm>>
    BY <1>1 DEF Exit
  <2>2. late' \in [Pids -> 0 .. 3] /\ last' \in 0 .. Forks
    BY <2>1, SignalAssumption DEF SignalAssumption
  <2>3. ArrayOK'
    BY <2>1, <2>2 DEF Core, ArrayOK
  <2>4. ControlOK' /\ Storing'
    BY <2>1 DEF Core, ControlOK, Storing
  <2>5. QED
    BY <2>1, <2>3, <2>4
<1>2. CASE exiting # "no"
  <2>1. Terminate
    BY <1>2 DEF Exit
  <2>2. Storing' /\ exiting' # "no"
    BY <2>1 DEF Terminate, Storing
  <2>3. QED
    BY <2>1, <2>2, TerminateFacts
<1>3. QED
  BY <1>1, <1>2

LEMMA ForkCore == ASSUME Core, Fork PROVE Core'
<1>1. PICK p \in Pids :
        /\ st[p] = "unborn" /\ \A q \in 1 .. p - 1 : st[q] # "unborn"
        /\ st' = [st EXCEPT ![p] = "forked"]
        /\ copy' = [copy EXCEPT ![p] = [k \in Used |-> child_array[k].pid]]
  BY DEF Fork
<1>2. /\ main = "ui" /\ main' = "f_store" /\ amount # MAX_CHILD - 1
      /\ UNCHANGED <<child_array, last, all, exiting, alarm, usr2, usr1, alarm_count,
                     output_allowed, dropped, late>>
  BY DEF Fork, Goto
<1>3. ArrayOK' /\ ControlOK'
  BY <1>2 DEF Core, ArrayOK, ControlOK
<1>4. \A q \in Pids : st'[q] = IF q = p THEN "forked" ELSE st[q]
  BY <1>1 DEF Core, ChildOK
<1>5. ASSUME NEW q \in Pids, q < p PROVE st[q] # "unborn"
  <2>1. q \in 1 .. p - 1
    BY <1>5, SignalAssumption DEF Pids, SignalAssumption
  <2>2. QED
    BY <1>1, <2>1
<1>6. \A q, r \in Pids : st'[q] = "unborn" /\ q < r => st'[r] = "unborn"
  BY <1>1, <1>4, <1>5 DEF Core, ChildOK
<1>7. Storing'
  <2>1. \A q \in p + 1 .. Forks : q \in Pids /\ p < q
    BY SignalAssumption DEF Pids, SignalAssumption
  <2>2. IsNewest(p)'
    BY <1>1, <1>4, <2>1 DEF Core, ChildOK, IsNewest
  <2>3. amount \in Nat /\ amount < MAX_CHILD
    BY DEF Core, ArrayOK
  <2>4. amount' < MAX_CHILD - 1
    BY <1>2, <2>3, SignalAssumption DEF SignalAssumption
  <2>5. QED
    BY <2>2, <2>4 DEF Storing
<1>8. ChildOK'
  <2>1. Living \subseteq Living'
    BY <1>4 DEF Living, Ended
  <2>2. copy' \in [Pids -> Seq(Pids)]
    <3>1. child_array \in Seq(Entry) /\ Used = 1 .. amount /\ amount \in Nat
      BY DEF Core, ArrayOK, Used
    <3>2. \A k \in Used : child_array[k] \in Entry
      BY <3>1
    <3>3. [k \in Used |-> child_array[k].pid] \in [1 .. amount -> Pids]
      BY <3>1, <3>2 DEF Entry
    <3>4. [k \in Used |-> child_array[k].pid] \in Seq(Pids)
      BY <3>1, <3>3
    <3>5. QED
      BY <1>1, <3>4 DEF Core, ChildOK
  <2>3. st' \in [Pids -> {"unborn", "forked", "x_exit"} \cup Running \cup Ended]
    BY <1>1 DEF Core, ChildOK
  <2>4. \A q \in Pids : st'[q] \in {"unborn", "forked"} => ~output_allowed'[q]
    BY <1>1, <1>2, <1>4 DEF Core, ChildOK
  <2>5. QED
    BY <1>2, <1>6, <2>1, <2>2, <2>3, <2>4 DEF Core, ChildOK
<1>9. QED
  BY <1>2, <1>3, <1>7, <1>8 DEF Core, Usr2OK

LEMMA CommandsCore == ASSUME Core, Commands PROVE Core'
<1>1. CASE Fork
  BY <1>1, ForkCore
<1>2. CASE KillLast
  <2>1. Forget /\ main' = "k_send" /\ UNCHANGED <<all, exiting, alarm, usr2, process>>
    BY <1>2 DEF KillLast, Goto
  <2>2. ArrayOK'
    BY <2>1, ForgetArray DEF Core
  <2>3. QED
    BY <2>1, <2>2, ProcessKept DEF Core, ControlOK, Storing, Usr2OK
<1>3. CASE KillAll
  BY <1>3, ProcessKept DEF KillAll, Goto, Core, ArrayOK, ControlOK, Storing, Usr2OK
<1>4. CASE SetStat
  <2>1. /\ main = "ui" /\ UNCHANGED <<main, last, all, exiting, alarm, usr2, process>>
        /\ \E flag \in BOOLEAN : \E idx : SetFlags(idx, flag)
    BY <1>4 DEF SetStat
  <2>2. ArrayOK'
    BY <2>1, FlagFacts DEF Core, ArrayOK
  <2>3. QED
    BY <2>1, <2>2, ProcessKept DEF Core, ControlOK, Storing, Usr2OK
<1>5. CASE PrintOne
  <2>1. SetFlags(Used, FALSE) /\ main = "ui" /\ UNCHANGED <<last, usr2>>
    BY <1>5 DEF PrintOne
  <2>2. ArrayOK'
    BY <2>1, FlagFacts DEF Core, ArrayOK
  <2>3. ASSUME NEW p \in Pids, Signal(p, "FORCE"), alarm' = TRUE,
               UNCHANGED <<main, exiting, all, copy, dropped>>
        PROVE  Core'
    <3>1. ChildOK'
      BY <2>3, SignalFacts DEF Core, ChildOK
    <3>2. ControlOK' /\ Storing' /\ Usr2OK'
      BY <2>1, <2>3 DEF Core, ControlOK, Storing, Usr2OK
    <3>3. QED
      BY <2>2, <3>1, <3>2 DEF Core
  <2>4. CASE main' = "kill" /\ exiting' = "yes" /\ all' = TRUE /\ UNCHANGED <<alarm, process>>
    BY <2>1, <2>2, <2>4, ProcessKept DEF Core, ControlOK, Storing, Usr2OK
  <2>5. QED
    BY <1>5, <2>3, <2>4 DEF PrintOne
<1>6. CASE Quit
  BY <1>6, ExitFacts, ProcessKept DEF Quit, Core, Usr2OK
<1>7. QED
  BY <1>1, <1>2, <1>3, <1>4, <1>5, <1>6 DEF Commands

LEMMA ParentStepCore == ASSUME Core, ParentStep PROVE Core'
<1>1. CASE StoreChild
  <2>1. /\ main = "f_store" /\ main' = "ui"
        /\ child_array' = Append(child_array, [pid |-> Newest, print_allowed |-> TRUE])
        /\ UNCHANGED <<last, all, exiting, alarm, usr2, process, late>>
    BY <1>1 DEF StoreChild, Goto
  <2>2. ArrayOK'
    BY <2>1, StoreArray DEF Core
  <2>3. QED
    BY <2>1, <2>2, ProcessKept DEF Core, ControlOK, Storing, Usr2OK
<1>2. CASE KillNext
  <2>1. UNCHANGED process /\ Usr2Left
    BY <1>2 DEF KillNext
  <2>2. Usr2OK'
    BY <2>1 DEF Usr2Left, Usr2OK, Core
  <2>3. CASE Goto("kill", "k_send") /\ Forget /\ UNCHANGED <<all, exiting, alarm>>
    BY <2>1, <2>2, <2>3, ForgetArray, ProcessKept DEF Core, Goto, ControlOK, Storing
  <2>4. CASE /\ amount = 0 /\ exiting = "no" /\ main' = "ui" /\ all' = FALSE
             /\ UNCHANGED <<child_array, last, exiting, alarm, late>>
    BY <2>1, <2>2, <2>4, ProcessKept DEF Core, ArrayOK, ControlOK, Storing
  <2>5. CASE Terminate
    <3>1. Storing'
      BY <2>5 DEF Terminate, Storing
    <3>2. QED
      BY <2>1, <2>2, <2>5, <3>1, TerminateFacts, ProcessKept DEF Core
  <2>6. QED
    BY <1>2, <2>3, <2>4, <2>5 DEF KillNext
<1>3. CASE Send
  <2>1. Usr2OK'
    BY <1>3 DEF Send, Usr2Left, Usr2OK, Core
  <2>2. ASSUME Exists(last), main' = "k_wait", Signal(last, "KILL"), last' = 0,
               dropped' = dropped \cup {p \in {last} : usr1[p] \notin {"none", "KILL"}},
               UNCHANGED <<child_array, all, exiting, alarm, copy, late>>
        PROVE  Core'
    <3>1. last \in Pids
      BY <2>2 DEF Exists
    <3>2. dropped' \subseteq Living /\ copy' \in [Pids -> Seq(Pids)]
      BY <2>2, <3>1 DEF Core, ChildOK
    <3>3. ChildOK'
      BY <2>2, <3>1, <3>2, SignalFacts DEF Core
    <3>4. ArrayOK'
      BY <2>2, SignalAssumption DEF Core, ArrayOK, SignalAssumption
    <3>5. QED
      BY <2>1, <2>2, <3>3, <3>4 DEF Core, ControlOK, Storing
  <2>3. CASE Exit("yes") /\ UNCHANGED process
    BY <2>1, <2>3, ExitFacts, ProcessKept DEF Core
  <2>4. QED
    BY <1>3, <2>2, <2>3 DEF Send
<1>4. CASE Wait
  <2>1. /\ main = "k_wait" /\ main' \in {"kill", "ui"}
        /\ UNCHANGED <<child_array, last, all, exiting, alarm, usr2, usr1, alarm_count,
                       output_allowed, copy, dropped, late>>
    BY <1>4 DEF Wait, Goto, Returned
  <2>2. \/ UNCHANGED st
        \/ \E p \in Pids : st[p] = "zombie" /\ st' = [st EXCEPT ![p] = "reaped"]
    BY <1>4 DEF Wait
  <2>3. /\ Living' = Living /\ SameBorn
        /\ st' \in [Pids -> {"unborn", "forked", "x_exit"} \cup Running \cup Ended]
        /\ \A p \in Pids : st'[p] \in {"unborn", "forked"} => st'[p] = st[p]
    BY <2>2 DEF Core, ChildOK, Living, SameBorn, Ended
  <2>4. ChildOK'
    BY <2>1, <2>3 DEF Core, ChildOK, SameBorn
  <2>5. QED
    BY <2>1, <2>4 DEF Core, ArrayOK, ControlOK, Storing, Usr2OK
<1>5. QED
  BY <1>1, <1>2, <1>3, <1>4 DEF ParentStep

LEMMA HandlersCore == ASSUME Core, AlarmHandler \/ ChildHandler PROVE Core'
<1>1. CASE AlarmHandler
  <2>1. SetFlags(Used, TRUE) /\ alarm' = FALSE /\ UNCHANGED <<main, last, all, exiting, usr2, process>>
    BY <1>1 DEF AlarmHandler
  <2>2. ArrayOK' /\ amount' = amount
    BY <2>1, FlagFacts DEF Core, ArrayOK
  <2>3. Storing' /\ ChildOK'
    BY <2>1, <2>2, ProcessKept, StoringKept DEF Core
  <2>4. QED
    BY <2>1, <2>2, <2>3 DEF Core, ControlOK, Usr2OK
<1>2. CASE ChildHandler
  <2>1. usr2' = <<>> /\ usr2[1] \in Pids
    BY <1>2 DEF ChildHandler, Core, Usr2OK
  <2>2. CASE Exit("masked") /\ UNCHANGED process
    BY <2>1, <2>2, ExitFacts, ProcessKept DEF Core, Usr2OK
  <2>3. ASSUME main' \in {main} \cup (IF main = "k_wait" THEN {Returned} ELSE {}),
               Signal(usr2[1], "RESPONSE") \/ UNCHANGED <<st, usr1, alarm_count, output_allowed>>,
               UNCHANGED <<copy, dropped, child_array, last, all, exiting, alarm, late>>
        PROVE  Core'
    <3>1. ChildOK' /\ SameBorn
      <4>1. CASE Signal(usr2[1], "RESPONSE")
        BY <2>1, <2>3, <4>1, SignalFacts DEF Core, ChildOK
      <4>2. CASE UNCHANGED <<st, usr1, alarm_count, output_allowed>>
        BY <2>3, <4>2, ProcessKept DEF Core, process
      <4>3. QED
        BY <2>3, <4>1, <4>2
    <3>2. main' = main \/ main' \in {"kill", "ui"}
      BY <2>3 DEF Returned
    <3>3. ArrayOK' /\ ControlOK' /\ amount' = amount
      BY <2>3, <3>2 DEF Core, ArrayOK, ControlOK
    <3>4. Storing'
      BY <3>1, <3>2, <3>3, StoringKept DEF Core
    <3>5. QED
      BY <2>1, <3>1, <3>3, <3>4 DEF Core, Usr2OK
  <2>4. QED
    BY <1>2, <2>2, <2>3 DEF ChildHandler
<1>3. QED
  BY <1>1, <1>2

(* What a child does leaves the parent's variables alone, late excepted. *)
LEMMA ParentLeftAlone ==
  ASSUME Core, UNCHANGED parentVars, late' \in [Pids -> 0 .. 3], ChildOK', SameBorn, Usr2OK'
  PROVE  Core'
<1>1. ArrayOK' /\ ControlOK' /\ amount' = amount /\ main' = main
  BY DEF Core, ArrayOK, ControlOK, parentVars
<1>2. Storing'
  BY <1>1, StoringKept DEF Core
<1>3. QED
  BY <1>1, <1>2 DEF Core

LEMMA MoveFacts ==
  ASSUME ChildOK, NEW p \in Pids, NEW from, NEW to, ChildGoto(p, from, to),
         from \in {"forked"} \cup Running, to \in {"x_exit"} \cup Running,
         copy' \in [Pids -> Seq(Pids)],
         alarm_count' \in [Pids -> 0 .. ALARM_COUNTS_TO_PRINT + 1]
  PROVE  ChildOK' /\ SameBorn
<1>1. /\ st[p] = from /\ st' = [st EXCEPT ![p] = to]
      /\ UNCHANGED <<usr1, output_allowed, dropped>>
  BY DEF ChildGoto
<1>2. \A q \in Pids : st'[q] = IF q = p THEN to ELSE st[q]
  BY <1>1 DEF ChildOK
<1>3. Living' = Living /\ SameBorn
  BY <1>1, <1>2 DEF Living, Ended, Running, SameBorn
<1>4. st' \in [Pids -> {"unborn", "forked", "x_exit"} \cup Running \cup Ended]
  BY <1>1 DEF ChildOK
<1>5. \A q \in Pids : st'[q] \in {"unborn", "forked"} => ~output_allowed'[q]
  BY <1>1, <1>2 DEF ChildOK, Running
<1>6. \A q, r \in Pids : st'[q] = "unborn" /\ q < r => st'[r] = "unborn"
  BY <1>3 DEF ChildOK, SameBorn
<1>7. QED
  BY <1>1, <1>3, <1>4, <1>5, <1>6 DEF ChildOK

LEMMA TellCore ==
  ASSUME Core, NEW p \in Pids, NEW value \in {"ASK", "INFORM"},
         NEW from \in Running, NEW to \in Running, Tell(p, value, from, to),
         late' \in [Pids -> 0 .. 3]
  PROVE  Core'
<1>1. UNCHANGED parentVars
  BY DEF Tell
<1>2. CASE main = "gone"
  <2>1. st[p] = from /\ End(p) /\ UNCHANGED usr2
    BY <1>2 DEF Tell
  <2>2. ChildOK' /\ SameBorn
    BY <2>1, EndFacts DEF Core, Running
  <2>3. QED
    BY <1>1, <2>1, <2>2, ParentLeftAlone DEF Core, Usr2OK
<1>3. CASE main # "gone"
  <2>1. /\ ChildGoto(p, from, to) /\ UNCHANGED <<alarm_count, copy>>
        /\ usr2' = usr2 \/ usr2' = <<p, value>>
    BY <1>3 DEF Tell
  <2>2. ChildOK' /\ SameBorn
    BY <2>1, MoveFacts DEF Core, ChildOK
  <2>3. Usr2OK'
    BY <2>1 DEF Core, Usr2OK
  <2>4. QED
    BY <1>1, <2>2, <2>3, ParentLeftAlone
<1>4. QED
  BY <1>2, <1>3

LEMMA MinFacts ==
  ASSUME NEW n \in 0 .. 3 PROVE Min({n + 1, 3}) \in 0 .. 3 /\ Min({n + 1, 3}) <= n + 1
<1>1. \E m \in {n + 1, 3} : \A y \in {n + 1, 3} : m <= y
  OBVIOUS
<1>2. Min({n + 1, 3}) \in {n + 1, 3} /\ \A y \in {n + 1, 3} : Min({n + 1, 3}) <= y
  BY <1>1 DEF Min
<1>3. QED
  BY <1>2

LEMMA LateFacts ==
  ASSUME Core, NEW p \in Pids, PrintStat(p)
  PROVE  /\ late' \in [Pids -> 0 .. 3] /\ late'[p] <= late[p] + 1
         /\ \A q \in Pids \ {p} : late'[q] = late[q]
         /\ Entries(p) = {} \/ exiting # "no"
              \/ (\A k \in Entries(p) : child_array[k].print_allowed) => late'[p] = 0
<1> DEFINE stopped == exiting = "no" /\ \E k \in Entries(p) : ~child_array[k].print_allowed
           new == IF stopped THEN Min({late[p] + 1, 3}) ELSE 0
<1>1. late \in [Pids -> 0 .. 3] /\ late[p] \in 0 .. 3
  BY DEF Core, ArrayOK
<1>2. new \in 0 .. 3 /\ new <= late[p] + 1 /\ (~stopped => new = 0)
  BY <1>1, MinFacts
<1>3. late' = [late EXCEPT ![p] = new]
  BY DEF PrintStat
<1>4. late'[p] = new /\ late' \in [Pids -> 0 .. 3] /\ \A q \in Pids \ {p} : late'[q] = late[q]
  BY <1>1, <1>2, <1>3
<1>5. QED
  BY <1>2, <1>4

LEMMA ChildStepCore ==
  ASSUME Core, NEW p \in Pids, ChildStep(p) \/ Tick(p) \/ ParentHandler(p) PROVE Core'
<1> USE DEF Core
<1>1. ASSUME UNCHANGED parentVars, UNCHANGED usr2, UNCHANGED late, ChildOK', SameBorn
      PROVE  Core'
  BY <1>1, ParentLeftAlone DEF ArrayOK, Usr2OK
<1>2. CASE Exec(p)
  <2>1. /\ ChildGoto(p, "forked", "loop") /\ copy' = [copy EXCEPT ![p] = <<>>]
        /\ UNCHANGED <<parentVars, usr2, alarm_count, late>>
    BY <1>2 DEF Exec
  <2>2. copy' \in [Pids -> Seq(Pids)]
    BY <2>1, EmptySeq DEF ChildOK
  <2>3. ChildOK' /\ SameBorn
    BY <2>1, <2>2, MoveFacts DEF ChildOK, Running
  <2>4. QED
    BY <1>1, <2>1, <2>3
<1>3. CASE ExecFails(p)
  <2>1. /\ ChildGoto(p, "forked", "x_exit")
        /\ UNCHANGED <<parentVars, usr2, alarm_count, copy, late>>
    BY <1>3 DEF ExecFails
  <2>2. ChildOK' /\ SameBorn
    BY <2>1, MoveFacts DEF ChildOK, Running
  <2>3. QED
    BY <1>1, <2>1, <2>2
<1>4. CASE KillSibling(p)
  <2>1. /\ copy[p] # <<>> /\ Signal(Last(copy[p]), "KILL")
        /\ copy' = [copy EXCEPT ![p] = Front(@)]
        /\ UNCHANGED <<parentVars, usr2, dropped, late>>
    BY <1>4 DEF KillSibling
  <2>2. Last(copy[p]) \in Pids /\ copy' \in [Pids -> Seq(Pids)]
    BY <2>1, InheritedFacts DEF ChildOK
  <2>3. ChildOK' /\ SameBorn
    BY <2>1, <2>2, SignalFacts DEF ChildOK
  <2>4. QED
    BY <1>1, <2>1, <2>3
<1>5. CASE SiblingsKilled(p)
  <2>1. st[p] = "x_exit" /\ End(p) /\ UNCHANGED <<parentVars, usr2, late>>
    BY <1>5 DEF SiblingsKilled
  <2>2. QED
    BY <1>1, <2>1, EndFacts
<1>6. CASE AskToPrint(p)
  <2>1. Tell(p, "ASK", "loop", "asked") /\ UNCHANGED late
    BY <1>6 DEF AskToPrint
  <2>2. QED
    BY <2>1, TellCore DEF ArrayOK, Running
<1>7. CASE TestAllowed(p)
  <2>1. /\ ChildGoto(p, "asked", IF output_allowed[p] THEN "print" ELSE "reset")
        /\ UNCHANGED <<parentVars, usr2, alarm_count, copy, late>>
    BY <1>7 DEF TestAllowed
  <2>2. ChildOK' /\ SameBorn
    BY <2>1, MoveFacts DEF ChildOK, Running
  <2>3. QED
    BY <1>1, <2>1, <2>2
<1>8. CASE PrintStat(p)
  <2>1. Tell(p, "INFORM", "print", "reset")
    BY <1>8 DEF PrintStat
  <2>2. QED
    BY <1>8, <2>1, TellCore, LateFacts DEF Running
<1>9. CASE ResetCycle(p)
  <2>1. /\ st[p] = "reset" /\ st' = [st EXCEPT ![p] = "loop"]
        /\ alarm_count' = [alarm_count EXCEPT ![p] = 0]
        /\ output_allowed' = [output_allowed EXCEPT ![p] = FALSE]
        /\ UNCHANGED <<parentVars, usr2, usr1, copy, dropped, late>>
    BY <1>9 DEF ResetCycle
  <2>2. Living' = Living /\ SameBorn
    BY <2>1 DEF ChildOK, Living, Ended, SameBorn
  <2>3. /\ st' \in [Pids -> {"unborn", "forked", "x_exit"} \cup Running \cup Ended]
        /\ alarm_count' \in [Pids -> 0 .. ALARM_COUNTS_TO_PRINT + 1]
        /\ output_allowed' \in [Pids -> BOOLEAN]
    BY <2>1, SignalAssumption DEF ChildOK, Running, SignalAssumption
  <2>4. \A q \in Pids : st'[q] \in {"unborn", "forked"} => ~output_allowed'[q]
    BY <2>1 DEF ChildOK
  <2>5. ChildOK'
    BY <2>1, <2>2, <2>3, <2>4 DEF ChildOK, SameBorn
  <2>6. QED
    BY <1>1, <2>1, <2>2, <2>5
<1>10. CASE Tick(p)
  <2>1. /\ ChildGoto(p, "loop", "loop") /\ alarm_count[p] <= ALARM_COUNTS_TO_PRINT
        /\ alarm_count' = [alarm_count EXCEPT ![p] = @ + 1]
        /\ UNCHANGED <<parentVars, usr2, copy, late>>
    BY <1>10 DEF Tick
  <2>2. alarm_count' \in [Pids -> 0 .. ALARM_COUNTS_TO_PRINT + 1]
    BY <2>1, SignalAssumption DEF ChildOK, SignalAssumption
  <2>3. ChildOK' /\ SameBorn
    BY <2>1, <2>2, MoveFacts DEF ChildOK, Running
  <2>4. QED
    BY <1>1, <2>1, <2>3
<1>11. CASE ParentHandler(p)
  <2>1. p \in Living /\ UNCHANGED <<parentVars, usr2, late>>
    BY <1>11 DEF ParentHandler
  <2>2. CASE End(p)
    BY <1>1, <2>1, <2>2, EndFacts DEF Living
  <2>3. CASE /\ usr1' = [usr1 EXCEPT ![p] = "none"] /\ st[p] \in Running
             /\ output_allowed' = [output_allowed EXCEPT ![p] = @ \/ usr1[p] = "RESPONSE"]
             /\ UNCHANGED <<st, alarm_count, copy, dropped>>
    <3>1. Living' = Living /\ SameBorn
      BY <2>3 DEF Living, SameBorn
    <3>2. usr1' \in [Pids -> {"none", "KILL", "FORCE", "RESPONSE"}]
      BY <2>3 DEF ChildOK
    <3>3. output_allowed' \in [Pids -> BOOLEAN]
      BY <2>3 DEF ChildOK
    <3>4. \A q \in Pids : st[q] \in {"unborn", "forked"} => ~output_allowed'[q]
      BY <2>3 DEF ChildOK, Running
    <3>5. \A q \in Pids : usr1'[q] # "none" => q \in Living
      BY <2>3 DEF ChildOK
    <3>6. ChildOK'
      BY <2>3, <3>1, <3>2, <3>3, <3>4, <3>5 DEF ChildOK
    <3>7. QED
      BY <1>1, <2>1, <3>1, <3>6
  <2>4. QED
    BY <1>11, <2>2, <2>3 DEF ParentHandler
<1>12. QED
  BY <1>2, <1>3, <1>4, <1>5, <1>6, <1>7, <1>8, <1>9, <1>10, <1>11 DEF ChildStep

LEMMA CoreStep == Core /\ [Next]_vars => Core'
<1> SUFFICES ASSUME Core, [Next]_vars PROVE Core'
  OBVIOUS
<1>1. CASE UNCHANGED vars
  <2>1. UNCHANGED process /\ UNCHANGED parentVars /\ UNCHANGED usr2 /\ UNCHANGED late
    BY <1>1 DEF vars
  <2>2. QED
    BY <2>1, ProcessKept, ParentLeftAlone DEF Core, ArrayOK, Usr2OK
<1>2. CASE Next
  BY <1>2, CommandsCore, ParentStepCore, HandlersCore, ChildStepCore DEF Next
<1>3. QED
  BY <1>1, <1>2

LEMMA AlwaysCore == Spec => []Core
BY InitCore, CoreStep, PTL DEF Spec

(* The state keeps its type, for any number of children: child_array never *)
(* grows beyond MAX_CHILD - 1 entries, though handlers run between the     *)
(* test of amount and its increment, and a child that has ended has no     *)
(* signal pending and is not counted among those whose end was missed.     *)
THEOREM TypeCorrect == Spec => []TypeOK
BY AlwaysCore, CoreType, PTL

-----------------------------------------------------------------------------
(* Nobody is forgotten.                                                    *)

Known(p) ==
  \/ Entries(p) # {}
  \/ main = "f_store" /\ p = Newest
  \/ main = "k_send" /\ p = last
  \/ usr1[p] = "KILL" \/ p \in dropped

LEMMA KnownIs == NobodyForgotten <=> (exiting = "no" => \A p \in Living : Known(p))
BY DEF NobodyForgotten, Known

LEMMA NewestKept ==
  ASSUME Core, SameBorn, main = "f_store" PROVE Newest' = Newest
<1>1. PICK p \in Pids : IsNewest(p)
  BY DEF Core, Storing
<1>2. Newest = p
  BY <1>1, NewestIs
<1>3. Newest' = p
  BY <1>1, SameNewest, NewestOf DEF Newest, IsNewest
<1>4. QED
  BY <1>2, <1>3

(* Whoever the parent knows of it goes on knowing of, if its list, its     *)
(* place in the code and what it has sent stay.                            *)
LEMMA KnownKept ==
  ASSUME Core, SameBorn, NEW p \in Pids, Known(p),
         Entries(p)' = Entries(p),
         main = "f_store" => main' = "f_store",
         main = "k_send" => main' = "k_send" /\ last' = last,
         usr1[p] = "KILL" => usr1'[p] = "KILL", p \in dropped => p \in dropped'
  PROVE  Known(p)'
BY NewestKept DEF Known

LEMMA EntriesKept ==
  ASSUME UNCHANGED child_array PROVE \A p : Entries(p)' = Entries(p)
BY DEF Entries, Used

LEMMA FlaggedEntries ==
  ASSUME ArrayOK, NEW idx, NEW flag \in BOOLEAN, SetFlags(idx, flag)
  PROVE  \A p : Entries(p)' = Entries(p)
BY FlagFacts DEF Entries

LEMMA ForgottenEntries ==
  ASSUME ArrayOK, Forget
  PROVE  \A p : Entries(p)' = Entries(p) \ {amount} /\ (p # last' => Entries(p)' = Entries(p))
<1>1. child_array \in Seq(Entry) /\ child_array' \in Seq(Entry)
  BY ForgetFacts DEF ArrayOK
<1>2. amount \in Nat /\ amount > 0 /\ amount' = amount - 1 /\ Used = 1 .. amount /\ Used' = 1 .. amount - 1
  BY <1>1, ForgetFacts DEF Used
<1>3. Used' = Used \ {amount}
  BY <1>2
<1>4. \A k \in Used' : child_array'[k] = child_array[k]
  BY <1>2, ForgetFacts
<1>5. ASSUME NEW p PROVE Entries(p)' = Entries(p) \ {amount}
  BY <1>3, <1>4 DEF Entries
<1>6. ASSUME NEW p, p # last' PROVE Entries(p)' = Entries(p)
  <2>1. amount \notin Entries(p)
    BY <1>6, ForgetFacts DEF Entries
  <2>2. QED
    BY <1>5, <2>1
<1>7. QED
  BY <1>5, <1>6

LEMMA StoredEntries ==
  ASSUME Core, StoreChild
  PROVE  /\ Entries(Newest)' # {} /\ \A p : Entries(p) \subseteq Entries(p)'
         /\ \A k \in Used : child_array'[k] = child_array[k]
         /\ \A k \in Used' : k \in Used \/ child_array'[k].print_allowed
<1>1. child_array' = Append(child_array, [pid |-> Newest, print_allowed |-> TRUE]) /\ main = "f_store"
  BY DEF StoreChild, Goto
<1>2. Newest \in Pids
  BY <1>1, NewestIs DEF Core, Storing
<1>3. [pid |-> Newest, print_allowed |-> TRUE] \in Entry
  BY <1>2 DEF Entry
<1>4. /\ child_array \in Seq(Entry) /\ child_array' \in Seq(Entry) /\ amount \in Nat
      /\ amount' = amount + 1
  BY <1>1, <1>3 DEF Core, ArrayOK
<1>5. Used = 1 .. amount /\ Used' = 1 .. amount + 1
  BY <1>4 DEF Used
<1>6. child_array'[amount + 1] = [pid |-> Newest, print_allowed |-> TRUE]
  BY <1>1, <1>4
<1>7. \A k \in Used : child_array'[k] = child_array[k]
  BY <1>1, <1>4, <1>5
<1>8. Used' = Used \cup {amount + 1}
  BY <1>4, <1>5
<1>9. Newest' = Newest
  BY <1>1, NewestKept DEF StoreChild, process, SameBorn
<1>10. amount + 1 \in Entries(Newest)'
  BY <1>6, <1>8, <1>9 DEF Entries
<1>11. \A p : Entries(p) \subseteq Entries(p)'
  BY <1>7, <1>8 DEF Entries
<1>12. child_array'[amount + 1].print_allowed
  BY <1>6
<1>13. QED
  BY <1>7, <1>8, <1>10, <1>11, <1>12

(* A step after which the parent knows of all it knew of, and that gives   *)
(* no child life, forgets nobody.                                          *)
LEMMA NobodyLost ==
  ASSUME NobodyForgotten, exiting' = "no" => exiting = "no", Living' \subseteq Living,
         \A p \in Living' : Known(p) => Known(p)'
  PROVE  NobodyForgotten'
BY DEF NobodyForgotten, Known

LEMMA CommandsForgetNobody ==
  ASSUME Core, NobodyForgotten, Commands PROVE NobodyForgotten'
<1> USE DEF Core
<1>1. Living \subseteq Pids
  BY DEF Living
<1>2. CASE Fork
  <2>1. PICK x \in Pids :
          /\ st[x] = "unborn" /\ \A q \in 1 .. x - 1 : st[q] # "unborn"
          /\ st' = [st EXCEPT ![x] = "forked"]
    BY <1>2 DEF Fork
  <2>2. /\ main = "ui" /\ main' = "f_store"
        /\ UNCHANGED <<child_array, exiting, usr1, dropped>>
    BY <1>2 DEF Fork, Goto
  <2>3. Newest' = x
    <3>1. \A q \in x + 1 .. Forks : q \in Pids /\ x < q
      BY SignalAssumption DEF Pids, SignalAssumption
    <3>2. st'[x] # "unborn" /\ \A q \in x + 1 .. Forks : st'[q] = "unborn"
      BY <2>1, <3>1 DEF ChildOK
    <3>3. QED
      BY <3>2, NewestOf DEF Newest
  <2>4. \A p \in Living' : p = x \/ p \in Living
    BY <2>1 DEF Living, ChildOK
  <2>5. \A p \in Living : Known(p) => Known(p)'
    BY <2>2, EntriesKept DEF Known
  <2>6. \A p \in Living' : exiting' = "no" => Known(p)'
    <3>1. Known(x)'
      BY <2>2, <2>3 DEF Known
    <3>2. QED
      BY <2>2, <2>4, <2>5, <3>1, KnownIs
  <2>7. QED
    BY <2>6 DEF NobodyForgotten, Known
<1>3. CASE KillLast
  <2>1. /\ Forget /\ main = "ui" /\ main' = "k_send"
        /\ UNCHANGED <<exiting, st, usr1, dropped>>
    BY <1>3 DEF KillLast, Goto, process
  <2>2. \A p \in Living : Known(p) => Known(p)'
    BY <2>1, ForgottenEntries DEF Known
  <2>3. Living' = Living
    BY <2>1 DEF Living
  <2>4. QED
    BY <2>1, <2>2, <2>3, NobodyLost
<1>4. CASE KillAll
  <2>1. main = "ui" /\ UNCHANGED <<child_array, exiting, st, usr1, dropped>>
    BY <1>4 DEF KillAll, Goto, process
  <2>2. \A p \in Living : Known(p) => Known(p)'
    BY <2>1, EntriesKept DEF Known
  <2>3. QED
    BY <2>1, <2>2, NobodyLost DEF Living
<1>5. CASE SetStat
  <2>1. /\ main = "ui" /\ UNCHANGED <<exiting, st, usr1, dropped>>
        /\ \E flag \in BOOLEAN : \E idx : SetFlags(idx, flag)
    BY <1>5 DEF SetStat, process
  <2>2. \A p \in Living : Known(p) => Known(p)'
    BY <2>1, FlaggedEntries DEF Known
  <2>3. QED
    BY <2>1, <2>2, NobodyLost DEF Living
<1>6. CASE PrintOne
  <2>1. SetFlags(Used, FALSE) /\ main = "ui"
    BY <1>6 DEF PrintOne
  <2>2. ASSUME NEW x \in Pids, Signal(x, "FORCE"), UNCHANGED <<exiting, dropped>>
        PROVE  NobodyForgotten'
    <3>1. Living' = Living /\ \A p \in Pids : usr1[p] = "KILL" => usr1'[p] = "KILL"
      BY <2>2, SignalFacts
    <3>2. \A p \in Living : Known(p) => Known(p)'
      BY <1>1, <2>1, <2>2, <3>1, FlaggedEntries DEF Known
    <3>3. QED
      BY <2>2, <3>1, <3>2, NobodyLost
  <2>3. CASE exiting' = "yes"
    BY <2>3 DEF NobodyForgotten
  <2>4. QED
    BY <1>6, <2>2, <2>3 DEF PrintOne
<1>7. CASE Quit
  BY <1>7, ExitFacts DEF Quit, NobodyForgotten
<1>8. QED
  BY <1>2, <1>3, <1>4, <1>5, <1>6, <1>7 DEF Commands

LEMMA ParentForgetsNobody ==
  ASSUME Core, NobodyForgotten, ParentStep \/ AlarmHandler \/ ChildHandler
  PROVE  NobodyForgotten'
<1> USE DEF Core
<1>1. Living \subseteq Pids
  BY DEF Living
<1>2. CASE StoreChild
  <2>1. main = "f_store" /\ UNCHANGED <<exiting, st, usr1, dropped>>
    BY <1>2 DEF StoreChild, Goto, process
  <2>2. \A p \in Living : Known(p) => Known(p)'
    BY <1>2, <2>1, StoredEntries, NewestKept DEF Known, SameBorn
  <2>3. QED
    BY <2>1, <2>2, NobodyLost DEF Living
<1>3. CASE KillNext
  <2>1. UNCHANGED <<st, usr1, dropped>> /\ main = "kill" /\ Living' = Living
    BY <1>3 DEF KillNext, process, Living
  <2>2. CASE Goto("kill", "k_send") /\ Forget /\ UNCHANGED exiting
    <3>1. \A p \in Living : Known(p) => Known(p)'
      BY <2>1, <2>2, ForgottenEntries DEF Known, Goto
    <3>2. QED
      BY <2>1, <2>2, <3>1, NobodyLost
  <2>3. CASE UNCHANGED <<child_array, exiting>>
    <3>1. \A p \in Living : Known(p) => Known(p)'
      BY <2>1, <2>3, EntriesKept DEF Known
    <3>2. QED
      BY <2>1, <2>3, <3>1, NobodyLost
  <2>4. CASE Terminate
    BY <2>4 DEF Terminate, NobodyForgotten
  <2>5. QED
    BY <1>3, <2>2, <2>3, <2>4 DEF KillNext
<1>4. CASE Send
  <2>1. main = "k_send"
    BY <1>4 DEF Send
  <2>2. ASSUME Exists(last), Signal(last, "KILL"),
               dropped' = dropped \cup {p \in {last} : usr1[p] \notin {"none", "KILL"}},
               UNCHANGED <<child_array, exiting>>
        PROVE  NobodyForgotten'
    <3>1. last \in Pids
      BY <2>2 DEF Exists
    <3>2. /\ Living' = Living
          /\ \A p \in Pids : usr1[p] = "KILL" => usr1'[p] = "KILL"
          /\ last \in Living => usr1'[last] = "KILL" \/ last \in dropped'
      BY <2>2, <3>1, SignalFacts
    <3>3. \A p \in Living : Known(p) => Known(p)'
      BY <1>1, <2>1, <2>2, <3>2, EntriesKept DEF Known
    <3>4. QED
      BY <2>2, <3>2, <3>3, NobodyLost
  <2>3. CASE Exit("yes")
    BY <2>3, ExitFacts DEF NobodyForgotten
  <2>4. QED
    BY <1>4, <2>2, <2>3 DEF Send
<1>5. CASE Wait
  <2>1. main = "k_wait" /\ UNCHANGED <<child_array, exiting, usr1, dropped>>
    BY <1>5 DEF Wait, Goto
  <2>2. Living' \subseteq Living
    BY <1>5 DEF Wait, Living, Ended, ChildOK
  <2>3. \A p \in Living : Known(p) => Known(p)'
    BY <2>1, EntriesKept DEF Known
  <2>4. QED
    BY <2>1, <2>2, <2>3, NobodyLost
<1>6. CASE AlarmHandler
  <2>1. SetFlags(Used, TRUE) /\ UNCHANGED <<main, last, exiting, st, usr1, dropped>>
    BY <1>6 DEF AlarmHandler, process
  <2>2. \A p \in Living : Known(p) => Known(p)'
    BY <1>1, <2>1, FlaggedEntries, KnownKept DEF SameBorn
  <2>3. QED
    BY <2>1, <2>2, NobodyLost DEF Living
<1>7. CASE ChildHandler
  <2>1. usr2[1] \in Pids
    BY <1>7 DEF ChildHandler, Usr2OK
  <2>2. CASE Exit("masked")
    BY <2>2, ExitFacts DEF NobodyForgotten
  <2>3. ASSUME main' \in {main} \cup (IF main = "k_wait" THEN {Returned} ELSE {}),
               Signal(usr2[1], "RESPONSE") \/ UNCHANGED <<st, usr1>>,
               UNCHANGED <<dropped, child_array, last, exiting>>
        PROVE  NobodyForgotten'
    <3>1. /\ Living' = Living /\ SameBorn
          /\ \A p \in Pids : usr1[p] = "KILL" => usr1'[p] = "KILL"
      <4>1. CASE Signal(usr2[1], "RESPONSE")
        BY <2>1, <4>1, SignalFacts
      <4>2. CASE UNCHANGED <<st, usr1>>
        BY <4>2 DEF Living, SameBorn
      <4>3. QED
        BY <2>3, <4>1, <4>2
    <3>2. main # "k_wait" => main' = main
      BY <2>3
    <3>3. \A p \in Living : Known(p) => Known(p)'
      BY <1>1, <2>3, <3>1, <3>2, EntriesKept, KnownKept
    <3>4. QED
      BY <2>3, <3>1, <3>3, NobodyLost
  <2>4. QED
    BY <1>7, <2>2, <2>3 DEF ChildHandler
<1>8. QED
  BY <1>2, <1>3, <1>4, <1>5, <1>6, <1>7 DEF ParentStep

LEMMA ChildForgetsNobody ==
  ASSUME Core, NobodyForgotten, NEW p \in Pids, ChildStep(p) \/ Tick(p) \/ ParentHandler(p)
  PROVE  NobodyForgotten'
<1> USE DEF Core
<1>1. Living \subseteq Pids
  BY DEF Living
<1>2. ASSUME UNCHANGED parentVars, SameBorn, Living' \subseteq Living,
             \A q \in Living' : /\ usr1[q] = "KILL" => usr1'[q] = "KILL"
                                /\ q \in dropped => q \in dropped'
      PROVE  NobodyForgotten'
  <2>1. UNCHANGED <<main, child_array, last, exiting>>
    BY <1>2 DEF parentVars
  <2>2. \A q \in Living' : Known(q) => Known(q)'
    BY <1>1, <1>2, <2>1, EntriesKept, KnownKept
  <2>3. QED
    BY <1>2, <2>1, <2>2, NobodyLost
<1>3. ASSUME UNCHANGED parentVars, End(p), st[p] # "unborn" PROVE NobodyForgotten'
  BY <1>1, <1>2, <1>3, EndFacts
<1>4. ASSUME UNCHANGED parentVars, NEW from, NEW to, ChildGoto(p, from, to),
             from \in {"forked"} \cup Running, to \in {"x_exit"} \cup Running
      PROVE  NobodyForgotten'
  <2>1. /\ st[p] = from /\ st' = [st EXCEPT ![p] = to] /\ UNCHANGED <<usr1, dropped>>
    BY <1>4 DEF ChildGoto
  <2>2. SameBorn /\ Living' = Living
    BY <1>4, <2>1 DEF SameBorn, Living, Ended, Running, ChildOK
  <2>3. QED
    BY <1>2, <1>4, <2>1, <2>2
<1>5. ASSUME UNCHANGED parentVars, UNCHANGED dropped, NEW q \in Pids, Signal(q, "KILL")
      PROVE  NobodyForgotten'
  BY <1>1, <1>2, <1>5, SignalFacts
<1>6. ASSUME NEW value, NEW from \in Running, NEW to \in Running, Tell(p, value, from, to)
      PROVE  NobodyForgotten'
  <2>1. UNCHANGED parentVars /\ st[p] = from /\ (End(p) \/ ChildGoto(p, from, to))
    BY <1>6 DEF Tell, ChildGoto
  <2>2. QED
    BY <1>3, <1>4, <1>6, <2>1 DEF Running
<1>7. CASE KillSibling(p)
  BY <1>5, <1>7, InheritedFacts DEF KillSibling
<1>8. CASE SiblingsKilled(p)
  BY <1>3, <1>8 DEF SiblingsKilled
<1>9. CASE ResetCycle(p)
  <2>1. /\ st[p] = "reset" /\ st' = [st EXCEPT ![p] = "loop"]
        /\ UNCHANGED <<parentVars, usr1, dropped>>
    BY <1>9 DEF ResetCycle
  <2>2. SameBorn /\ Living' = Living
    BY <2>1 DEF SameBorn, Living, Ended, ChildOK
  <2>3. QED
    BY <1>2, <2>1, <2>2
<1>10. CASE ParentHandler(p)
  <2>1. p \in Living /\ UNCHANGED parentVars
    BY <1>10 DEF ParentHandler
  <2>2. CASE End(p)
    BY <1>3, <2>1, <2>2 DEF Living
  <2>3. CASE /\ usr1' = [usr1 EXCEPT ![p] = "none"] /\ usr1[p] # "KILL"
             /\ UNCHANGED <<st, dropped>>
    BY <1>1, <1>2, <2>1, <2>3 DEF ChildOK, SameBorn, Living
  <2>4. QED
    BY <1>10, <2>2, <2>3 DEF ParentHandler
<1>11. CASE Exec(p) \/ ExecFails(p) \/ TestAllowed(p) \/ Tick(p)
  BY <1>4, <1>11 DEF Exec, ExecFails, TestAllowed, Tick, Running
<1>12. CASE AskToPrint(p) \/ PrintStat(p)
  BY <1>6, <1>12 DEF AskToPrint, PrintStat, Running
<1>13. QED
  BY <1>7, <1>8, <1>9, <1>10, <1>11, <1>12 DEF ChildStep

(* Until the parent exits every child that lives is in child_array, is     *)
(* about to be entered or told to end, or was told to end: whenever the    *)
(* handlers run, however many children there are, and whichever signals    *)
(* are lost.  What can be lost is the PARENT_KILL itself, and which those  *)
(* are is known.                                                           *)
THEOREM ForgetsNobody == Spec => []NobodyForgotten
<1>1. Init => NobodyForgotten
  BY DEF Init, NobodyForgotten, Living
<1>2. Core /\ NobodyForgotten /\ [Next]_vars => NobodyForgotten'
  <2> SUFFICES ASSUME Core, NobodyForgotten, [Next]_vars PROVE NobodyForgotten'
    OBVIOUS
  <2>1. CASE UNCHANGED vars
    BY <2>1 DEF vars, parentVars, process, NobodyForgotten, Living, Entries, Used, Newest
  <2>2. CASE Next
    BY <2>2, CommandsForgetNobody, ParentForgetsNobody, ChildForgetsNobody DEF Next
  <2>3. QED
    BY <2>1, <2>2
<1>3. QED
  BY <1>1, <1>2, AlwaysCore, PTL DEF Spec

-----------------------------------------------------------------------------
(* A stopped child prints at most twice more.                              *)

Stopped(p) == \E k \in Entries(p) : ~child_array[k].print_allowed

(* The prints a child can still make without a new answer: one for the     *)
(* permission it has, one for the answer that is pending.                  *)
HasLeave(p) == st[p] = "print" \/ (st[p] \in {"loop", "asked"} /\ output_allowed[p])
Credit(p) == (IF HasLeave(p) THEN 1 ELSE 0) + (IF usr1[p] = "RESPONSE" THEN 1 ELSE 0)

Budget(p) ==
  /\ late[p] <= 2
  /\ exiting = "no" /\ Stopped(p) => late[p] + Credit(p) <= 2
  /\ exiting = "no" /\ ~Stopped(p) => late[p] = 0
Budgeted == \A p \in Pids : Budget(p)

LEMMA CreditRange == \A p : Credit(p) \in 0 .. 2
BY DEF Credit

(* The budget of a child that the step does not concern.                   *)
LEMMA BudgetKept ==
  ASSUME NEW p \in Pids, Budget(p), exiting' = "no" => exiting = "no",
         late'[p] = late[p], Stopped(p)' = Stopped(p), late[p] \in 0 .. 3,
         exiting' = "no" /\ Stopped(p) => Credit(p)' <= Credit(p)
  PROVE  Budget(p)'
BY CreditRange DEF Budget, Credit

LEMMA BudgetZero ==
  ASSUME NEW p \in Pids, late'[p] = 0 PROVE Budget(p)'
<1>1. Credit(p)' <= 2 /\ 0 <= Credit(p)' /\ Credit(p)' \in Int
  BY DEF Credit
<1>2. QED
  BY <1>1 DEF Budget

LEMMA CreditKept ==
  ASSUME NEW p, st'[p] = st[p], usr1'[p] = usr1[p] \/ usr1'[p] # "RESPONSE",
         output_allowed'[p] = output_allowed[p]
  PROVE  Credit(p)' <= Credit(p)
<1>1. HasLeave(p)' <=> HasLeave(p)
  BY DEF HasLeave
<1>2. QED
  BY <1>1 DEF Credit

LEMMA ForgetBudget ==
  ASSUME Core, Budgeted, Forget, UNCHANGED <<st, usr1, output_allowed, exiting>>
  PROVE  Budgeted'
<1>1. late \in [Pids -> 0 .. 3] /\ last' \in Pids /\ late' = [late EXCEPT ![last'] = 0]
  BY ForgetFacts DEF Core, ArrayOK
<1>2. late'[last'] = 0
  BY <1>1
<1>3. ASSUME NEW p \in Pids, p # last' PROVE Budget(p)'
  <2>1. Entries(p)' = Entries(p) /\ amount \notin Entries(p)
    <3>1. child_array[amount].pid # p
      BY <1>3, ForgetFacts DEF Core
    <3>2. Entries(p)' = Entries(p)
      BY <1>3, ForgottenEntries DEF Core
    <3>3. QED
      BY <3>1, <3>2 DEF Entries
  <2>2. \A k \in Entries(p) : child_array'[k] = child_array[k]
    <3>1. Used = 1 .. amount /\ amount \in Nat
      BY DEF Core, ArrayOK, Used
    <3>2. \A k \in Entries(p) : k \in 1 .. amount - 1
      BY <2>1, <3>1 DEF Entries
    <3>3. QED
      BY <3>2, ForgetFacts DEF Core
  <2>3. Stopped(p)' = Stopped(p)
    BY <2>1, <2>2 DEF Stopped
  <2>4. late'[p] = late[p] /\ late[p] \in 0 .. 3
    BY <1>1, <1>3
  <2>5. QED
    BY <2>3, <2>4, BudgetKept, CreditKept DEF Budgeted
<1>4. QED
  BY <1>1, <1>2, <1>3, BudgetZero DEF Budgeted

LEMMA FlagBudget ==
  ASSUME Core, Budgeted, NEW idx, NEW flag \in BOOLEAN, SetFlags(idx, flag),
         exiting' = "no" => exiting = "no",
         exiting' = "no" => \A p \in Pids : Credit(p)' <= Credit(p)
  PROVE  Budgeted'
<1> SUFFICES ASSUME NEW p \in Pids PROVE Budget(p)'
  BY DEF Budgeted
<1> DEFINE resumed == flag /\ idx \cap Entries(p) # {}
<1>1. late[p] \in 0 .. 3 /\ late'[p] = IF resumed THEN 0 ELSE late[p]
  BY FlagFacts DEF Core, ArrayOK
<1>2. CASE resumed
  BY <1>1, <1>2, BudgetZero
<1>3. CASE ~resumed
  <2>1. late'[p] = late[p] /\ Budget(p)
    BY <1>1, <1>3 DEF Budgeted
  <2>2. CASE late[p] = 0
    BY <2>1, <2>2, BudgetZero
  <2>3. CASE exiting' # "no"
    BY <2>1, <2>3 DEF Budget
  <2>4. CASE exiting' = "no" /\ late[p] # 0
    <3>1. Stopped(p)
      BY <2>1, <2>4 DEF Budget
    <3>2. PICK k \in Entries(p) : ~child_array[k].print_allowed
      BY <3>1 DEF Stopped
    <3>3. Entries(p)' = Entries(p) /\ k \in Used
      BY FlaggedEntries DEF Core, Entries
    <3>4. k \in idx => flag = FALSE
      BY <1>3, <3>2
    <3>5. ~child_array'[k].print_allowed
      BY <3>2, <3>3, <3>4, FlagFacts DEF Core
    <3>6. Stopped(p)' = Stopped(p)
      BY <3>1, <3>2, <3>3, <3>5 DEF Stopped
    <3>7. QED
      BY <1>1, <2>1, <2>4, <3>6, BudgetKept
  <2>5. QED
    BY <2>2, <2>3, <2>4
<1>4. QED
  BY <1>2, <1>3

(* The parent's array and late stay as they are, and no stopped child gets *)
(* a new permission.                                                       *)
LEMMA CreditBudget ==
  ASSUME Core, Budgeted, UNCHANGED <<child_array, late>>,
         exiting' = "no" => exiting = "no",
         \A p \in Pids : exiting' = "no" /\ Stopped(p) => Credit(p)' <= Credit(p)
  PROVE  Budgeted'
<1> SUFFICES ASSUME NEW p \in Pids PROVE Budget(p)'
  BY DEF Budgeted
<1>1. Stopped(p)' = Stopped(p)
  BY EntriesKept DEF Stopped
<1>2. late'[p] = late[p] /\ late[p] \in 0 .. 3
  BY DEF Core, ArrayOK
<1>3. QED
  BY <1>1, <1>2, BudgetKept DEF Budgeted

LEMMA LeaveBudget ==
  ASSUME Budgeted, \A p \in Pids : late'[p] = 0 PROVE Budgeted'
BY BudgetZero DEF Budgeted

LEMMA ParentBudget ==
  ASSUME Core, Budgeted, Commands \/ ParentStep \/ AlarmHandler \/ ChildHandler
  PROVE  Budgeted'
<1> USE DEF Core
<1>1. ASSUME UNCHANGED <<child_array, late, st, usr1, output_allowed>>,
             exiting' = "no" => exiting = "no"
      PROVE  Budgeted'
  BY <1>1, CreditBudget, CreditKept
<1>2. ASSUME NEW p \in Pids, NEW value \in {"KILL", "FORCE"}, Signal(p, value)
      PROVE  \A q \in Pids : Credit(q)' <= Credit(q)
  <2>1. \A q \in Pids : usr1'[q] = usr1[q] \/ usr1'[q] # "RESPONSE"
    BY <1>2, SignalFacts
  <2>2. UNCHANGED <<st, output_allowed>>
    BY <1>2 DEF Signal
  <2>3. QED
    BY <2>1, <2>2, CreditKept
<1>3. CASE Fork
  <2>1. PICK x \in Pids : st[x] = "unborn" /\ st' = [st EXCEPT ![x] = "forked"]
    BY <1>3 DEF Fork
  <2>2. UNCHANGED <<child_array, exiting, usr1, output_allowed, late>>
    BY <1>3 DEF Fork
  <2>3. Credit(x)' <= Credit(x)
    <3>1. ~HasLeave(x)' /\ ~HasLeave(x)
      BY <2>1 DEF HasLeave, ChildOK
    <3>2. QED
      BY <2>2, <3>1 DEF Credit
  <2>4. \A q \in Pids \ {x} : Credit(q)' <= Credit(q)
    BY <2>1, <2>2, CreditKept DEF ChildOK
  <2>5. QED
    BY <2>2, <2>3, <2>4, CreditBudget
<1>4. CASE KillLast
  BY <1>4, ForgetBudget DEF KillLast, process
<1>5. CASE KillAll
  BY <1>1, <1>5 DEF KillAll, process
<1>6. CASE SetStat
  <2>1. /\ UNCHANGED <<exiting, st, usr1, output_allowed>>
        /\ \E flag \in BOOLEAN : \E idx : SetFlags(idx, flag)
    BY <1>6 DEF SetStat, process
  <2>2. QED
    BY <2>1, FlagBudget, CreditKept
<1>7. CASE PrintOne
  <2>1. SetFlags(Used, FALSE)
    BY <1>7 DEF PrintOne
  <2>2. CASE exiting' = "yes"
    BY <2>1, <2>2, FlagBudget
  <2>3. ASSUME NEW p \in Pids, Signal(p, "FORCE"), UNCHANGED exiting PROVE Budgeted'
    BY <1>2, <2>1, <2>3, FlagBudget
  <2>4. QED
    BY <1>7, <2>2, <2>3 DEF PrintOne
<1>8. CASE Quit
  <2>1. late' = [p \in Pids |-> 0]
    BY <1>8, ExitFacts DEF Quit
  <2>2. QED
    BY <2>1, LeaveBudget
<1>9. CASE StoreChild
  <2>1. UNCHANGED <<exiting, st, usr1, output_allowed, late>>
    BY <1>9 DEF StoreChild, process
  <2>2. ASSUME NEW p \in Pids PROVE Stopped(p)' = Stopped(p)
    <3>1. \A k \in Used' : k \in Used \/ child_array'[k].print_allowed
      BY <1>9, StoredEntries
    <3>2. \A k \in Used : child_array'[k] = child_array[k]
      BY <1>9, StoredEntries
    <3>3. Entries(p) \subseteq Entries(p)'
      BY <1>9, StoredEntries
    <3>4. ASSUME Stopped(p)' PROVE Stopped(p)
      BY <3>1, <3>2, <3>4 DEF Stopped, Entries
    <3>5. ASSUME Stopped(p) PROVE Stopped(p)'
      <4>1. PICK k \in Entries(p) : ~child_array[k].print_allowed
        BY <3>5 DEF Stopped
      <4>2. k \in Entries(p)' /\ k \in Used
        BY <3>3 DEF Entries
      <4>3. QED
        BY <3>2, <4>1, <4>2 DEF Stopped
    <3>6. QED
      BY <3>4, <3>5 DEF Stopped
  <2>3. late \in [Pids -> 0 .. 3]
    BY DEF ArrayOK
  <2>4. QED
    BY <2>1, <2>2, <2>3, BudgetKept, CreditKept DEF Budgeted
<1>10. CASE KillNext
  <2>1. UNCHANGED <<st, usr1, output_allowed>>
    BY <1>10 DEF KillNext, process
  <2>2. CASE Forget /\ UNCHANGED exiting
    BY <2>1, <2>2, ForgetBudget
  <2>3. CASE UNCHANGED <<child_array, exiting, late>>
    BY <1>1, <2>1, <2>3
  <2>4. CASE Terminate
    BY <2>4, LeaveBudget DEF Terminate
  <2>5. QED
    BY <1>10, <2>2, <2>3, <2>4 DEF KillNext
<1>11. CASE Send
  <2>1. CASE Exists(last) /\ Signal(last, "KILL") /\ UNCHANGED <<child_array, exiting, late>>
    BY <1>2, <2>1, CreditBudget DEF Exists
  <2>2. CASE Exit("yes")
    <3>1. late' = [p \in Pids |-> 0]
      BY <2>2, ExitFacts
    <3>2. QED
      BY <3>1, LeaveBudget
  <2>3. QED
    BY <1>11, <2>1, <2>2 DEF Send
<1>12. CASE Wait
  <2>1. UNCHANGED <<child_array, exiting, usr1, output_allowed, late>>
    BY <1>12 DEF Wait
  <2>2. \A q \in Pids : \/ st'[q] = st[q]
                        \/ st[q] = "zombie" /\ st'[q] = "reaped"
    BY <1>12 DEF Wait, ChildOK
  <2>3. ASSUME NEW q \in Pids PROVE Credit(q)' <= Credit(q)
    <3>1. HasLeave(q)' <=> HasLeave(q)
      BY <2>1, <2>2 DEF HasLeave
    <3>2. QED
      BY <2>1, <3>1 DEF Credit
  <2>4. QED
    BY <2>1, <2>3, CreditBudget
<1>13. CASE AlarmHandler
  <2>1. SetFlags(Used, TRUE) /\ UNCHANGED <<exiting, st, usr1, output_allowed>>
    BY <1>13 DEF AlarmHandler, process
  <2>2. QED
    BY <2>1, FlagBudget, CreditKept
<1>14. CASE ChildHandler
  <2>1. usr2[1] \in Pids
    BY <1>14 DEF ChildHandler, Usr2OK
  <2>2. CASE Exit("masked")
    <3>1. late' = [p \in Pids |-> 0]
      BY <2>2, ExitFacts
    <3>2. QED
      BY <3>1, LeaveBudget
  <2>3. CASE UNCHANGED <<child_array, late, exiting, st, usr1, output_allowed>>
    BY <1>1, <2>3
  <2>4. ASSUME Signal(usr2[1], "RESPONSE"), \A k \in Entries(usr2[1]) : child_array[k].print_allowed,
               UNCHANGED <<child_array, late, exiting>>
        PROVE  Budgeted'
    <3>1. ~Stopped(usr2[1])
      BY <2>4 DEF Stopped
    <3>2. \A q \in Pids \ {usr2[1]} : usr1'[q] = usr1[q]
      BY <2>1, <2>4, SignalFacts
    <3>3. UNCHANGED <<st, output_allowed>>
      BY <2>4 DEF Signal
    <3>4. \A q \in Pids : Stopped(q) => Credit(q)' <= Credit(q)
      BY <3>1, <3>2, <3>3, CreditKept
    <3>5. QED
      BY <2>4, <3>4, CreditBudget
  <2>5. QED
    BY <1>14, <2>2, <2>3, <2>4 DEF ChildHandler
<1>15. QED
  BY <1>3, <1>4, <1>5, <1>6, <1>7, <1>8, <1>9, <1>10, <1>11, <1>12, <1>13, <1>14
     DEF Commands, ParentStep

LEMMA ChildBudget ==
  ASSUME Core, Budgeted, NEW p \in Pids, ChildStep(p) \/ Tick(p) \/ ParentHandler(p)
  PROVE  Budgeted'
<1> USE DEF Core
<1>1. ASSUME UNCHANGED parentVars, UNCHANGED late, Credit(p)' <= Credit(p),
             \A q \in Pids \ {p} : /\ st'[q] = st[q] /\ usr1'[q] = usr1[q]
                                   /\ output_allowed'[q] = output_allowed[q]
      PROVE  Budgeted'
  BY <1>1, CreditBudget, CreditKept DEF parentVars
<1>2. ASSUME End(p), st[p] # "unborn"
      PROVE  /\ Credit(p)' = 0
             /\ \A q \in Pids \ {p} : /\ st'[q] = st[q] /\ usr1'[q] = usr1[q]
                                      /\ output_allowed'[q] = output_allowed[q]
  <2>1. st'[p] = "zombie" /\ usr1'[p] = "none"
    BY <1>2, EndFacts
  <2>2. ~HasLeave(p)'
    BY <2>1 DEF HasLeave
  <2>3. QED
    BY <1>2, <2>1, <2>2, EndFacts DEF Credit
<1>3. Credit(p) \in 0 .. 2 /\ Credit(p) >= 0
  BY CreditRange
<1>4. ASSUME NEW from, NEW to, ChildGoto(p, from, to)
      PROVE  /\ st[p] = from /\ st'[p] = to /\ UNCHANGED <<usr1, output_allowed>>
             /\ \A q \in Pids \ {p} : /\ st'[q] = st[q] /\ usr1'[q] = usr1[q]
                                      /\ output_allowed'[q] = output_allowed[q]
  BY <1>4 DEF ChildGoto, ChildOK
<1>5. ASSUME NEW from, NEW to, ChildGoto(p, from, to), UNCHANGED parentVars, UNCHANGED late,
             \/ from = "forked" /\ to \in {"loop", "x_exit"}
             \/ from = "asked" /\ to = IF output_allowed[p] THEN "print" ELSE "reset"
             \/ from = "loop" /\ to \in {"loop", "asked"}
      PROVE  Budgeted'
  <2>1. from = "forked" => ~output_allowed[p]
    BY <1>4, <1>5 DEF ChildOK
  <2>2. HasLeave(p)' => HasLeave(p)
    BY <1>4, <1>5, <2>1 DEF HasLeave
  <2>3. Credit(p)' <= Credit(p)
    BY <1>4, <1>5, <2>2 DEF Credit
  <2>4. QED
    BY <1>1, <1>4, <1>5, <2>3
<1>6. CASE Exec(p) \/ ExecFails(p) \/ TestAllowed(p) \/ Tick(p)
  <2>1. UNCHANGED parentVars /\ UNCHANGED late
    BY <1>6 DEF Exec, ExecFails, TestAllowed, Tick
  <2>2. CASE Exec(p) \/ ExecFails(p)
    BY <1>5, <2>1, <2>2 DEF Exec, ExecFails
  <2>3. CASE TestAllowed(p)
    BY <1>5, <2>1, <2>3 DEF TestAllowed
  <2>4. CASE Tick(p)
    BY <1>5, <2>1, <2>4 DEF Tick
  <2>5. QED
    BY <1>6, <2>2, <2>3, <2>4
<1>7. CASE KillSibling(p)
  <2>1. /\ copy[p] # <<>> /\ Signal(Last(copy[p]), "KILL")
        /\ UNCHANGED parentVars /\ UNCHANGED late
    BY <1>7 DEF KillSibling
  <2>2. Last(copy[p]) \in Pids
    BY <2>1, InheritedFacts
  <2>3. \A q \in Pids : usr1'[q] = usr1[q] \/ usr1'[q] # "RESPONSE"
    BY <2>1, <2>2, SignalFacts
  <2>4. UNCHANGED <<st, output_allowed>>
    BY <2>1 DEF Signal
  <2>5. QED
    BY <2>1, <2>3, <2>4, CreditBudget, CreditKept DEF parentVars
<1>8. CASE SiblingsKilled(p)
  <2>1. st[p] # "unborn" /\ End(p) /\ UNCHANGED parentVars /\ UNCHANGED late
    BY <1>8 DEF SiblingsKilled
  <2>2. QED
    BY <1>1, <1>2, <1>3, <2>1
<1>9. CASE AskToPrint(p)
  <2>1. /\ UNCHANGED parentVars /\ UNCHANGED late
        /\ (st[p] = "loop" /\ End(p)) \/ ChildGoto(p, "loop", "asked")
    BY <1>9 DEF AskToPrint, Tell
  <2>2. QED
    BY <1>1, <1>2, <1>3, <1>5, <2>1
<1>10. CASE PrintStat(p)
  <2>1. UNCHANGED parentVars /\ st[p] = "print" /\ (End(p) \/ ChildGoto(p, "print", "reset"))
    BY <1>10 DEF PrintStat, Tell, ChildGoto
  <2>2. /\ Credit(p)' <= Credit(p) - 1
        /\ \A q \in Pids \ {p} : /\ st'[q] = st[q] /\ usr1'[q] = usr1[q]
                                 /\ output_allowed'[q] = output_allowed[q]
    <3>1. HasLeave(p) /\ Credit(p) >= 1
      BY <2>1 DEF HasLeave, Credit
    <3>2. CASE End(p)
      BY <1>2, <2>1, <3>1, <3>2, <1>3
    <3>3. CASE ChildGoto(p, "print", "reset")
      <4>1. ~HasLeave(p)' /\ usr1' = usr1
        BY <1>4, <3>3 DEF HasLeave
      <4>2. QED
        BY <1>4, <3>1, <3>3, <4>1 DEF Credit
    <3>4. QED
      BY <2>1, <3>2, <3>3
  <2>3. exiting' = exiting /\ \A q \in Pids : Stopped(q)' = Stopped(q)
    BY <2>1, EntriesKept DEF parentVars, Stopped
  <2>4. ASSUME NEW q \in Pids, q # p PROVE Budget(q)'
    <3>1. late'[q] = late[q] /\ late[q] \in 0 .. 3
      BY <1>10, <2>4, LateFacts DEF ArrayOK
    <3>2. Credit(q)' <= Credit(q)
      BY <2>2, <2>4, CreditKept
    <3>3. QED
      BY <2>3, <3>1, <3>2, BudgetKept DEF Budgeted
  <2>5. Budget(p)'
    <3>1. CASE exiting # "no" \/ ~Stopped(p)
      <4>1. late'[p] = 0
        BY <1>10, <3>1, LateFacts DEF Stopped
      <4>2. QED
        BY <4>1, BudgetZero
    <3>2. CASE exiting = "no" /\ Stopped(p)
      <4>1. late'[p] <= late[p] + 1 /\ late'[p] \in 0 .. 3 /\ late[p] \in 0 .. 3
        BY <1>10, LateFacts DEF ArrayOK
      <4>2. late[p] + Credit(p) <= 2
        BY <3>2 DEF Budgeted, Budget
      <4>3. Credit(p)' \in 0 .. 2
        BY DEF Credit
      <4>4. late'[p] <= 2 /\ late'[p] + Credit(p)' <= 2
        BY <1>3, <2>2, <4>1, <4>2, <4>3
      <4>5. QED
        BY <2>3, <3>2, <4>4 DEF Budget
    <3>3. QED
      BY <3>1, <3>2
  <2>6. QED
    BY <2>4, <2>5 DEF Budgeted
<1>11. CASE ResetCycle(p)
  <2>1. /\ st[p] = "reset" /\ st' = [st EXCEPT ![p] = "loop"]
        /\ output_allowed' = [output_allowed EXCEPT ![p] = FALSE]
        /\ UNCHANGED parentVars /\ UNCHANGED usr1 /\ UNCHANGED late
    BY <1>11 DEF ResetCycle
  <2>2. ~HasLeave(p)'
    BY <2>1 DEF HasLeave, ChildOK
  <2>3. Credit(p)' <= Credit(p)
    BY <2>1, <2>2 DEF Credit
  <2>4. QED
    BY <1>1, <2>1, <2>3 DEF ChildOK
<1>12. CASE ParentHandler(p)
  <2>1. p \in Living /\ UNCHANGED parentVars /\ UNCHANGED late
    BY <1>12 DEF ParentHandler
  <2>2. CASE End(p)
    BY <1>1, <1>2, <1>3, <2>1, <2>2 DEF Living
  <2>3. CASE /\ usr1' = [usr1 EXCEPT ![p] = "none"] /\ UNCHANGED st
             /\ output_allowed' = [output_allowed EXCEPT ![p] = @ \/ usr1[p] = "RESPONSE"]
    <3>1. usr1'[p] = "none"
      BY <2>3 DEF ChildOK
    <3>2. HasLeave(p)' => HasLeave(p) \/ usr1[p] = "RESPONSE"
      BY <2>3 DEF HasLeave, ChildOK
    <3>3. Credit(p)' <= Credit(p)
      BY <3>1, <3>2 DEF Credit
    <3>4. QED
      BY <1>1, <2>1, <2>3, <3>3 DEF ChildOK
  <2>4. QED
    BY <1>12, <2>2, <2>3 DEF ParentHandler
<1>13. QED
  BY <1>6, <1>7, <1>8, <1>9, <1>10, <1>11, <1>12 DEF ChildStep

LEMMA BudgetStep == Core /\ Budgeted /\ [Next]_vars => Budgeted'
<1> SUFFICES ASSUME Core, Budgeted, [Next]_vars PROVE Budgeted'
  OBVIOUS
<1>1. CASE UNCHANGED vars
  <2>1. UNCHANGED <<child_array, late, exiting, st, usr1, output_allowed>>
    BY <1>1 DEF vars, parentVars, process
  <2>2. QED
    BY <2>1, CreditBudget, CreditKept
<1>2. CASE Next
  BY <1>2, ParentBudget, ChildBudget DEF Next
<1>3. QED
  BY <1>1, <1>2

(* A child that the user has stopped prints at most twice more, however    *)
(* long its questions and the answers take: an answer on its way and a     *)
(* permission it holds are all it can use.                                 *)
THEOREM StopIsFelt == Spec => []StopTakesEffect
<1>1. Init => Budgeted
  BY BudgetZero DEF Init, Budgeted, Budget, Stopped, Entries, Used
<1>2. Core /\ Budgeted => StopTakesEffect
  <2> SUFFICES ASSUME Core, Budgeted, NEW k \in Used PROVE late[child_array[k].pid] <= 2
    BY DEF StopTakesEffect
  <2>1. child_array \in Seq(Entry) /\ child_array[k] \in Entry
    BY DEF Core, ArrayOK, Used
  <2>2. QED
    BY <2>1 DEF Budgeted, Budget, Entry
<1>3. QED
  BY <1>1, <1>2, AlwaysCore, BudgetStep, PTL DEF Spec

=============================================================================
