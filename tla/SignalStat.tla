----------------------------- MODULE SignalStat -----------------------------
(***************************************************************************)
(* LAB_3: a parent starts children that print a statistic when the parent  *)
(* allows it.  They talk by sigqueue: SIGUSR1 to a child, SIGUSR2 to the   *)
(* parent.  Both are standard signals: of several that are sent before the *)
(* first is handled only the first arrives.                                *)
(*                                                                         *)
(* A handler runs between two steps of what it interrupts.  Of the         *)
(* statistic itself nothing is kept but that it is printed.                *)
(***************************************************************************)
EXTENDS Integers, SequencesExt

CONSTANTS
  Forks,                 (* bound: how often the parent forks              *)
  MAX_CHILD,
  ALARM_COUNTS_TO_PRINT

ASSUME SignalAssumption ==
  /\ Forks \in Nat /\ MAX_CHILD \in Nat /\ MAX_CHILD > 1
  /\ ALARM_COUNTS_TO_PRINT \in Nat \ {0}

Pids == 1 .. Forks       (* the children in the order of their creation    *)

VARIABLES
  main,            (* where the parent is; "gone" when it has ended        *)
  child_array,     (* its first amount entries                             *)
  last,            (* the child kill_last_child took off, or 0             *)
  all,             (* is kill_last_child called by kill_all?               *)
  exiting,         (* "no", "yes" after exit(), "masked" after an exit()   *)
                   (* in child_handler, where SIGUSR2 stays blocked        *)
  alarm,           (* is the parent's alarm set?                           *)
  usr2,            (* the pending SIGUSR2, <<sender, value>>, or <<>>      *)
  st,              (* where each child is                                  *)
  usr1,            (* the value of its pending SIGUSR1, or "none"          *)
  alarm_count, output_allowed,
  copy,            (* the pids a child inherited in child_array            *)
  late,            (* history: prints since the parent stopped the child   *)
  dropped          (* history: the living whose PARENT_KILL was dropped    *)

parentVars == <<main, child_array, last, all, exiting, alarm>>
process == <<st, usr1, alarm_count, output_allowed, copy, dropped>>
vars == <<parentVars, usr2, process, late>>

Ended == {"zombie", "reaped"}
Running == {"loop", "asked", "print", "reset"}
amount == Len(child_array)
Living == {p \in Pids : st[p] \notin Ended \cup {"unborn"}}

TypeOK ==
  /\ main \in {"ui", "f_store", "kill", "k_send", "k_wait", "gone"}
  /\ child_array \in Seq([pid : Pids, print_allowed : BOOLEAN]) /\ amount < MAX_CHILD
  /\ last \in 0 .. Forks
  /\ all \in BOOLEAN /\ exiting \in {"no", "yes", "masked"} /\ alarm \in BOOLEAN
  /\ usr2 \in {<<>>} \cup (Pids \X {"ASK", "INFORM"})
  /\ st \in [Pids -> {"unborn", "forked", "x_exit"} \cup Running \cup Ended]
  /\ usr1 \in [Pids -> {"none", "KILL", "FORCE", "RESPONSE"}]
  /\ alarm_count \in [Pids -> 0 .. ALARM_COUNTS_TO_PRINT + 1]
  /\ output_allowed \in [Pids -> BOOLEAN]
  /\ copy \in [Pids -> Seq(Pids)]
  /\ late \in [Pids -> 0 .. 3] /\ dropped \subseteq Living

Init ==
  /\ main = "ui" /\ child_array = <<>> /\ last = 0
  /\ all = FALSE /\ exiting = "no" /\ alarm = FALSE /\ usr2 = <<>>
  /\ st = [p \in Pids |-> "unborn"] /\ usr1 = [p \in Pids |-> "none"]
  /\ alarm_count = [p \in Pids |-> 0] /\ output_allowed = [p \in Pids |-> FALSE]
  /\ copy = [p \in Pids |-> <<>>] /\ late = [p \in Pids |-> 0] /\ dropped = {}

-----------------------------------------------------------------------------
(* The indices of the entries in use, and those of process p.              *)
Used == DOMAIN child_array
Entries(p) == {k \in Used : child_array[k].pid = p}

(* sigqueue fails for a process that was waited for.                       *)
Exists(p) == p \in Pids /\ st[p] # "reaped"

(* One that ended takes no signal; one that has a signal pending no other. *)
Signal(p, value) ==
  /\ usr1' = [usr1 EXCEPT ![p] = IF @ = "none" /\ p \in Living THEN value ELSE @]
  /\ UNCHANGED <<st, alarm_count, output_allowed>>

(* Process p ends, and all it had with it.                                 *)
End(p) ==
  /\ st' = [st EXCEPT ![p] = "zombie"] /\ usr1' = [usr1 EXCEPT ![p] = "none"]
  /\ alarm_count' = [alarm_count EXCEPT ![p] = 0]
  /\ output_allowed' = [output_allowed EXCEPT ![p] = FALSE]
  /\ copy' = [copy EXCEPT ![p] = <<>>] /\ dropped' = dropped \ {p}

Goto(from, to) == main = from /\ main' = to

(* The parent ends, and its memory with it. *)
Terminate ==
  /\ main' = "gone" /\ child_array' = <<>> /\ last' = 0
  /\ all' = FALSE /\ exiting' = "yes" /\ alarm' = FALSE /\ late' = [p \in Pids |-> 0]

(* exit() runs atexit_handler, which calls kill_all; a second exit() finds *)
(* no handler left to run and ends the process.                            *)
Exit(how) ==
  IF exiting = "no" THEN main' = "kill" /\ exiting' = how /\ all' = TRUE /\ last' = 0
                         /\ late' = [p \in Pids |-> 0] /\ UNCHANGED <<child_array, alarm>>
                    ELSE Terminate
Usr2Left == usr2' = IF main' = "gone" THEN <<>> ELSE usr2

(* kill_last_child, up to send_signal *)
Forget ==
  /\ amount > 0 /\ last' = child_array[amount].pid /\ child_array' = Front(child_array)
  /\ late' = [late EXCEPT ![last'] = 0]

(* Bug: the loop runs to i <= amount. *)
SetFlagsTooFar(idx, flag) ==
  /\ child_array' = [k \in 1 .. amount + 1 |->
       IF k \in Used THEN child_array[k] ELSE [pid |-> 0, print_allowed |-> flag]]
  /\ UNCHANGED late
(* The entries of idx get the flag; a child that is stopped starts a new   *)
(* count of late prints.                                                   *)
SetFlags(idx, flag) ==
  /\ child_array' = [k \in DOMAIN child_array |->
       IF k \in idx THEN [child_array[k] EXCEPT !.print_allowed = flag] ELSE child_array[k]]
  /\ late' = [p \in Pids |-> IF flag /\ idx \cap Entries(p) # {} THEN 0 ELSE late[p]]
-----------------------------------------------------------------------------
(* The parent's commands.                                                  *)

Fork ==
  /\ amount # MAX_CHILD - 1 /\ Goto("ui", "f_store")
  /\ \E p \in Pids :
       /\ st[p] = "unborn" /\ \A q \in 1 .. p - 1 : st[q] # "unborn"
       /\ st' = [st EXCEPT ![p] = "forked"]
       /\ copy' = [copy EXCEPT ![p] = [k \in Used |-> child_array[k].pid]]
  /\ UNCHANGED <<child_array, last, all, exiting, alarm, usr2, usr1, alarm_count,
                 output_allowed, dropped, late>>

(* The child that fork created last. *)
Newest == CHOOSE p \in Pids : st[p] # "unborn" /\ \A q \in p + 1 .. Forks : st[q] = "unborn"

(* Bug: amount is not incremented. *)
StoreChildUncounted ==
  /\ Goto("f_store", "ui")
  /\ UNCHANGED <<child_array, last, all, exiting, alarm, usr2, process, late>>
StoreChild ==
  /\ Goto("f_store", "ui")
  /\ child_array' = Append(child_array, [pid |-> Newest, print_allowed |-> TRUE])
  /\ UNCHANGED <<last, all, exiting, alarm, usr2, process, late>>

(* '-' and 'k' *)
KillLast ==
  /\ Goto("ui", "k_send") /\ Forget
  /\ UNCHANGED <<all, exiting, alarm, usr2, process>>
KillAll ==
  /\ Goto("ui", "kill") /\ all' = TRUE
  /\ UNCHANGED <<child_array, last, exiting, alarm, usr2, process, late>>

(* The loop of kill_all; at the end of atexit_handler the process ends.    *)
KillNext ==
  /\ main = "kill"
  /\ \/ /\ Goto("kill", "k_send") /\ Forget
        /\ UNCHANGED <<all, exiting, alarm>>
     \/ /\ amount = 0 /\ exiting = "no" /\ main' = "ui" /\ all' = FALSE
        /\ UNCHANGED <<child_array, last, exiting, alarm, late>>
     \/ amount = 0 /\ exiting # "no" /\ Terminate
  /\ Usr2Left /\ UNCHANGED process

Send ==
  /\ main = "k_send"
  /\ \/ /\ Exists(last) /\ main' = "k_wait" /\ Signal(last, "KILL") /\ last' = 0
        /\ dropped' = dropped \cup {p \in {last} : usr1[p] \notin {"none", "KILL"}}
        /\ UNCHANGED <<child_array, all, exiting, alarm, copy, late>>
     \/ ~Exists(last) /\ Exit("yes") /\ UNCHANGED process
  /\ Usr2Left

(* wait(NULL) takes any child that has ended, or fails when there is none. *)
Returned == IF all THEN "kill" ELSE "ui"
Wait ==
  /\ Goto("k_wait", Returned)
  /\ \/ \E p \in Pids : st[p] = "zombie" /\ st' = [st EXCEPT ![p] = "reaped"]
     \/ Living \cup {p \in Pids : st[p] = "zombie"} = {} /\ UNCHANGED st
  /\ UNCHANGED <<child_array, last, all, exiting, alarm, usr2, usr1, alarm_count,
                 output_allowed, copy, dropped, late>>

(* s and g, with a number and without.  A handler that interrupts the loop *)
(* sees or sets the flag of one child, before the loop does or after it.   *)
SetStat ==
  /\ main = "ui"
  /\ \E flag \in BOOLEAN : SetFlags(Used, flag) \/ \E k \in Used : SetFlags({k}, flag)
  /\ UNCHANGED <<main, last, all, exiting, alarm, usr2, process>>

(* p<num>, which does not check the number: an entry beyond amount may    *)
(* hold a child taken off earlier, or nothing.                             *)
PrintOne ==
  /\ main = "ui" /\ SetFlags(Used, FALSE)
  /\ \/ \E p \in Pids : /\ st[p] # "unborn" /\ Exists(p) /\ Signal(p, "FORCE")
                         /\ alarm' = TRUE
                         /\ UNCHANGED <<main, exiting, all, copy, dropped>>
     \/ main' = "kill" /\ exiting' = "yes" /\ all' = TRUE /\ UNCHANGED <<alarm, process>>
  /\ UNCHANGED <<last, usr2>>

(* 'q', p without a number, and the errors that end in exit(): too many    *)
(* children, none to kill, fork fails.                                     *)
Quit ==
  /\ main = "ui" /\ Exit("yes")
  /\ UNCHANGED <<usr2, process>>

(* alarm_handler: resume_all_stat. *)
AlarmHandler ==
  /\ main # "gone" /\ alarm /\ alarm' = FALSE /\ SetFlags(Used, TRUE)
  /\ UNCHANGED <<main, last, all, exiting, usr2, process>>

(* child_handler.  SIGUSR2 is not restarted: a wait(NULL) that it          *)
(* interrupts returns without a child.                                     *)
ChildHandler ==
  /\ main # "gone" /\ usr2 # <<>> /\ exiting # "masked" /\ usr2' = <<>>
  /\ LET p == usr2[1]
         answer == usr2[2] = "ASK" /\ \A k \in Entries(p) : child_array[k].print_allowed IN
     IF Entries(p) = {} \/ (answer /\ ~Exists(p)) THEN Exit("masked") /\ UNCHANGED process
     ELSE /\ main' \in {main} \cup (IF main = "k_wait" THEN {Returned} ELSE {})
          /\ IF answer THEN Signal(p, "RESPONSE") ELSE UNCHANGED <<st, usr1, alarm_count, output_allowed>>
          /\ UNCHANGED <<copy, dropped, child_array, last, all, exiting, alarm, late>>

-----------------------------------------------------------------------------
(* A child.                                                                *)

ChildGoto(p, from, to) ==
  /\ st[p] = from /\ st' = [st EXCEPT ![p] = to]
  /\ UNCHANGED <<usr1, output_allowed, dropped>>

(* execl, and init(): the handlers and the timer. *)
Exec(p) ==
  /\ ChildGoto(p, "forked", "loop") /\ copy' = [copy EXCEPT ![p] = <<>>]
  /\ UNCHANGED <<parentVars, usr2, alarm_count, late>>

(* execl fails: exit() runs the atexit_handler inherited from the parent,  *)
(* on the inherited child_array.                                           *)
ExecFails(p) ==
  /\ ChildGoto(p, "forked", "x_exit")
  /\ UNCHANGED <<parentVars, usr2, alarm_count, copy, late>>

KillSibling(p) ==
  /\ st[p] = "x_exit" /\ copy[p] # <<>> /\ Exists(Last(copy[p]))
  /\ Signal(Last(copy[p]), "KILL") /\ copy' = [copy EXCEPT ![p] = Front(@)]
  /\ UNCHANGED <<parentVars, usr2, dropped, late>>

SiblingsKilled(p) ==
  /\ st[p] = "x_exit" /\ (copy[p] # <<>> => ~Exists(Last(copy[p]))) /\ End(p)
  /\ UNCHANGED <<parentVars, usr2, late>>

(* alarm_handler.  A tick outside the loop is lost in reset_cycle anyway.  *)
Tick(p) ==
  /\ ChildGoto(p, "loop", "loop") /\ alarm_count[p] <= ALARM_COUNTS_TO_PRINT
  /\ alarm_count' = [alarm_count EXCEPT ![p] = @ + 1]
  /\ UNCHANGED <<parentVars, usr2, copy, late>>

(* Bug: the result of sigqueue is not looked at. *)
TellAnyway(p, value, from, to) ==
  /\ ChildGoto(p, from, to)
  /\ usr2' = IF main # "gone" /\ usr2 = <<>> /\ exiting # "masked" THEN <<p, value>> ELSE usr2
  /\ UNCHANGED <<parentVars, alarm_count, copy>>
(* sigqueue(getppid(), SIGUSR2).  When the parent has ended getppid() is   *)
(* init, the call is not permitted and the child exits.                    *)
Tell(p, value, from, to) ==
  /\ IF main = "gone" THEN st[p] = from /\ End(p) /\ UNCHANGED usr2
     ELSE /\ ChildGoto(p, from, to) /\ usr2' = IF usr2 = <<>> /\ exiting # "masked"
                                           THEN <<p, value>> ELSE usr2
          /\ UNCHANGED <<alarm_count, copy>>
  /\ UNCHANGED parentVars

AskToPrint(p) ==
  /\ alarm_count[p] = ALARM_COUNTS_TO_PRINT /\ Tell(p, "ASK", "loop", "asked")
  /\ UNCHANGED late

(* The answer is not waited for. *)
TestAllowed(p) ==
  /\ ChildGoto(p, "asked", IF output_allowed[p] THEN "print" ELSE "reset")
  /\ UNCHANGED <<parentVars, usr2, alarm_count, copy, late>>

(* print_stat and inform_about_print *)
PrintStat(p) ==
  /\ Tell(p, "INFORM", "print", "reset")
  /\ late' = [late EXCEPT ![p] = IF exiting = "no" /\ \E k \in Entries(p) : ~child_array[k].print_allowed
                                 THEN Min({@ + 1, 3}) ELSE 0]

(* Bug: the permission is kept. *)
ResetCycleButPermission(p) ==
  /\ st[p] = "reset" /\ st' = [st EXCEPT ![p] = "loop"]
  /\ alarm_count' = [alarm_count EXCEPT ![p] = 0]
  /\ UNCHANGED <<parentVars, usr2, usr1, output_allowed, copy, dropped, late>>
ResetCycle(p) ==
  /\ st[p] = "reset" /\ st' = [st EXCEPT ![p] = "loop"]
  /\ alarm_count' = [alarm_count EXCEPT ![p] = 0]
  /\ output_allowed' = [output_allowed EXCEPT ![p] = FALSE]
  /\ UNCHANGED <<parentVars, usr2, usr1, copy, dropped, late>>

(* parent_handler, and the default action before it is installed.          *)
ParentHandler(p) ==
  /\ p \in Living /\ usr1[p] # "none"
  /\ IF usr1[p] = "KILL" \/ st[p] \notin Running THEN End(p)
     ELSE /\ usr1' = [usr1 EXCEPT ![p] = "none"]
          /\ output_allowed' = [output_allowed EXCEPT ![p] = @ \/ usr1[p] = "RESPONSE"]
          /\ UNCHANGED <<st, alarm_count, copy, dropped>>
  /\ UNCHANGED <<parentVars, usr2, late>>

-----------------------------------------------------------------------------
Commands == Fork \/ KillLast \/ KillAll \/ SetStat \/ PrintOne \/ Quit
ParentStep == StoreChild \/ KillNext \/ Send \/ Wait
ChildStep(p) ==
  \/ Exec(p) \/ ExecFails(p) \/ KillSibling(p) \/ SiblingsKilled(p)
  \/ AskToPrint(p) \/ TestAllowed(p) \/ PrintStat(p) \/ ResetCycle(p)

Next ==
  \/ Commands \/ ParentStep \/ AlarmHandler \/ ChildHandler
  \/ \E p \in Pids : ChildStep(p) \/ Tick(p) \/ ParentHandler(p)

(* A process that can run does, and the signals sent to a child arrive.    *)
Fairness ==
  /\ WF_vars(ParentStep)
  /\ \A p \in Pids : WF_vars(ChildStep(p) \/ Tick(p)) /\ WF_vars(ParentHandler(p))

Spec == Init /\ [][Next]_vars /\ Fairness

-----------------------------------------------------------------------------
(* Properties.                                                             *)

(* Until the parent exits it does not forget a child: each one that lives  *)
(* is in child_array, is about to be entered or told to end, or has been   *)
(* told to end, in a signal that is pending or was dropped.                *)
NobodyForgotten ==
  exiting = "no" => \A p \in Living :
    \/ Entries(p) # {}
    \/ main = "f_store" /\ p = Newest
    \/ main = "k_send" /\ p = last
    \/ usr1[p] = "KILL" \/ p \in dropped

(* "s - stop statistic": a child that is stopped prints at most twice      *)
(* more, once for the permission it has and once for one on its way.       *)
StopTakesEffect ==
  \A k \in Used : ~child_array[k].print_allowed /\ main # "gone"
                    => late[child_array[k].pid] <= 2

(* kill_last_child comes back from wait(NULL), whoever it waits for,       *)
(* unless the PARENT_KILL of a child that lives on was dropped.  When the  *)
(* parent has ended, a child that lives, because it was forgotten or its   *)
(* PARENT_KILL was dropped, ends when it asks the next time, unless its    *)
(* loop missed the tick that it compares alarm_count with.                 *)
Muted(p) == st[p] = "loop" /\ alarm_count[p] > ALARM_COUNTS_TO_PRINT
Settled == \/ main \notin {"k_wait", "gone"}
           \/ main = "k_wait" /\ dropped # {}
           \/ main = "gone" /\ \A p \in Living : Muted(p)
WaitAndOrphansEnd == main \in {"k_wait", "gone"} ~> Settled
=============================================================================
