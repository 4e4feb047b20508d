--------------------------- MODULE CommandSession ---------------------------
(***************************************************************************)
(* LAB_8: a client sends a command and waits at a barrier until its        *)
(* receiver thread has seen the answer; the server has a thread for each   *)
(* connection, which answers what it reads.  Requests and answers are      *)
(* streams of bytes: reads join requests and split requests and answers.   *)
(*                                                                         *)
(* A client that has found the server connects once.  Of the commands only *)
(* what answers them is kept.                                              *)
(***************************************************************************)
EXTENDS Discovery, Integers, SequencesExt

CONSTANTS
  MAX_CLIENTS,
  Typed,                 (* the names in the lines that users type         *)
  MaxCommands            (* bound: commands of each client                 *)

(* cmds, in the order parse_request looks for them. *)
cmds == <<"ECHO", "QUIT", "ACK", "INFO", "CD", "LIST", "?", "unknown">>

ASSUME SessionAssumption ==
  MAX_CLIENTS \in Nat \ {0} /\ Typed \subseteq Range(cmds) /\ MaxCommands \in [Clients -> Nat]

VARIABLES
  rx,              (* where the receiver thread is                         *)
  quit,            (* clients that have sent QUIT                          *)
  sent,            (* how many commands each sent                          *)
  requests,        (* what the server has not read of a connection         *)
  answers,         (* what the client has not: packets, or "tail" for the  *)
                   (* rest of one that was split                           *)
  thread,          (* the server's thread: where it is, or the command it  *)
                   (* executes                                             *)
  broken,          (* threads whose current_path names no directory        *)
  num_clients,
  excess,          (* the connection the accept loop is about to close     *)
  shut,            (* those whose descriptor it closed                     *)
  closed,          (* connections the server's side of which is closed     *)
  answered_late,   (* those the server answered after the client's end     *)
  silent, split,   (* history: clients whose last command got no answer;   *)
                   (* those who have read a part of an answer, or a part   *)
                   (* of whose request the server has                      *)
  overrun          (* history: an answer was written behind its buffer     *)

clientVars == <<rx, quit, sent>>
streams == <<requests, answers>>
serverVars == <<thread, broken, num_clients, excess, shut, closed, answered_late, overrun>>
vars == <<discoveryVars, clientVars, streams, serverVars, silent, split>>

TypeOK ==
  /\ DiscoveryTypeOK
  /\ st \in [Clients -> {"start", "asking", "found", "prompt", "barrier", "eof", "done"}]
  /\ rx \in [Clients -> {"none", "recv", "barrier", "ended"}]
  /\ \A c \in Clients : sent[c] \in 0 .. MaxCommands[c]
  /\ requests \in [Clients -> Seq(Range(cmds))]
  /\ answers \in [Clients -> Seq({"INFO", "DIR", "ACK", "OTHER", "BYE", "tail"})]
  /\ thread \in [Clients -> Range(cmds) \cup {"none", "backlog", "recv", "last", "spin", "ended"}]
  /\ num_clients \in 0 .. MAX_CLIENTS
  /\ excess \subseteq shut \cup {c \in Clients : thread[c] \notin {"none", "backlog"}}
  /\ broken \cup shut \cup closed \cup answered_late \cup silent \cup split \subseteq Clients
  /\ overrun \in BOOLEAN

Init ==
  /\ DiscoveryInit /\ rx = [c \in Clients |-> "none"] /\ quit = {}
  /\ sent = [c \in Clients |-> 0]
  /\ requests = [c \in Clients |-> <<>>] /\ answers = [c \in Clients |-> <<>>]
  /\ thread = [c \in Clients |-> "none"] /\ broken = {} /\ num_clients = 0
  /\ excess = {} /\ shut = {} /\ closed = {} /\ answered_late = {}
  /\ silent = {} /\ split = {} /\ overrun = FALSE

-----------------------------------------------------------------------------
(* The client.                                                             *)

Gone(c) == c \in closed \/ up = "down"

(* The process ends, and what it has not read is lost. *)
Leave(c) ==
  /\ st' = [st EXCEPT ![c] = "done"] /\ rx' = [rx EXCEPT ![c] = "none"]
  /\ answers' = [answers EXCEPT ![c] = <<>>]
  /\ quit' = quit \ {c} /\ silent' = silent \ {c}

Connect(c) ==
  /\ st[c] = "found"
  /\ IF addr[c] /\ up = "yes"
     THEN /\ st' = [st EXCEPT ![c] = "prompt"] /\ rx' = [rx EXCEPT ![c] = "recv"]
          /\ thread' = [thread EXCEPT ![c] = "backlog"] /\ UNCHANGED <<answers, quit, silent>>
     ELSE Leave(c) /\ UNCHANGED thread
  /\ UNCHANGED <<up, addr, reqs, resps, lost, sent, requests, broken, num_clients, excess,
                 shut, closed, answered_late, split, overrun>>

(* Bug: as a script would, whose code is commented out, it sends two       *)
(* commands before it waits.                                               *)
CommandScript(c) ==
  /\ st[c] = "prompt" /\ ~Gone(c) /\ sent[c] < MaxCommands[c]
  /\ st' = [st EXCEPT ![c] = "barrier"] /\ sent' = [sent EXCEPT ![c] = @ + 1]
  /\ \E cmd \in Typed : requests' = [requests EXCEPT ![c] = @ \o <<cmd, cmd>>]
  /\ UNCHANGED <<up, addr, reqs, resps, lost, rx, quit, answers, serverVars, silent, split>>

(* An empty line is a command too, of no bytes: its newline is removed     *)
(* after the test.  A line may name QUIT and be another.                   *)
Command(c) ==
  /\ st[c] = "prompt" /\ ~Gone(c) /\ sent[c] < MaxCommands[c]
  /\ st' = [st EXCEPT ![c] = "barrier"] /\ sent' = [sent EXCEPT ![c] = @ + 1]
  /\ \/ \E cmd \in Typed : /\ requests' = [requests EXCEPT ![c] = Append(@, cmd)]
                           /\ \/ UNCHANGED quit
                              \/ cmd = "QUIT" /\ quit' = quit \cup {c}
                           /\ silent' = silent \ {c}
     \/ silent' = silent \cup {c} /\ UNCHANGED <<quit, requests>>
  /\ UNCHANGED <<up, addr, reqs, resps, lost, rx, answers, serverVars, split>>

(* To a connection that is closed nothing is sent; the second attempt, or  *)
(* the first if the server had bytes unread, raises SIGPIPE or fails: then *)
(* the loop is left behind the barrier, as after QUIT.                     *)
CommandToNobody(c) ==
  /\ st[c] = "prompt" /\ Gone(c) /\ sent[c] < MaxCommands[c]
  /\ sent' = [sent EXCEPT ![c] = @ + 1]
  /\ \/ Leave(c)
     \/ /\ st' = [st EXCEPT ![c] = "barrier"] /\ quit' \in {quit, quit \cup {c}}
        /\ UNCHANGED <<rx, answers, silent>>
  /\ UNCHANGED <<up, addr, reqs, resps, lost, requests, serverVars, split>>

(* At the end of stdin fgets leaves the buffer empty, for ever. *)
Eof(c) ==
  /\ st[c] = "prompt" /\ st' = [st EXCEPT ![c] = "eof"]
  /\ UNCHANGED <<up, addr, reqs, resps, lost, clientVars, streams, serverVars, silent, split>>

(* External: the process is killed. *)
Kill(c) ==
  /\ st[c] \notin {"start", "done"} /\ Leave(c)
  /\ UNCHANGED <<up, addr, reqs, resps, lost, sent, requests, serverVars, split>>

(* Bug: after a directory the barrier is not met. *)
HandleDirectory(c, type, rest) ==
  /\ rx' = [rx EXCEPT ![c] = IF type \in {"OTHER", "DIR"} THEN "recv" ELSE "barrier"]
  /\ answers' = [answers EXCEPT ![c] = rest] /\ UNCHANGED <<st, quit, silent>>

(* One packet handled: after "BYE" the process ends, if the byte behind    *)
(* it, which nobody sends, is 0; a type nobody knows meets no barrier.     *)
Handle(c, type, rest) ==
  \/ type = "BYE" /\ Leave(c)
  \/ /\ rx' = [rx EXCEPT ![c] = IF type = "OTHER" THEN "recv" ELSE "barrier"]
     /\ answers' = [answers EXCEPT ![c] = rest] /\ UNCHANGED <<st, quit, silent>>

(* recv returns a packet or its first part; the part that is left is read  *)
(* as a packet of its own, of what type its bytes say, and may take the    *)
(* beginning of the next packet with it.                                   *)
Receive(c) ==
  /\ rx[c] = "recv" /\ answers[c] # <<>>
  /\ LET packet == Head(answers[c])
         rest == Tail(answers[c]) IN
     \/ packet # "tail" /\ Handle(c, packet, rest) /\ UNCHANGED split
     \/ packet # "tail" /\ Handle(c, packet, <<"tail">> \o rest) /\ split' = split \cup {c}
     \/ /\ packet = "tail" /\ UNCHANGED split
        /\ \E type \in {"INFO", "OTHER"} :
             \/ Handle(c, type, rest)
             \/ rest # <<>> /\ Handle(c, type, <<"tail">> \o Tail(rest))
  /\ UNCHANGED <<up, addr, reqs, resps, lost, sent, requests, serverVars>>

(* When the server has closed recv returns 0, which is not tested for: the *)
(* last packet is handled again; or -1.                                    *)
ReceiveNothing(c) ==
  /\ rx[c] = "recv" /\ answers[c] = <<>> /\ Gone(c)
  /\ \E next \in {"recv", "barrier", "ended"} : rx' = [rx EXCEPT ![c] = next]
  /\ UNCHANGED <<discoveryVars, quit, sent, streams, serverVars, silent, split>>

(* Bug: the barrier is made for one thread. *)
MeetAlone(c) ==
  /\ st[c] = "barrier" /\ c \notin quit /\ st' = [st EXCEPT ![c] = "prompt"]
  /\ UNCHANGED <<up, addr, reqs, resps, lost, clientVars, streams, serverVars, silent, split>>

(* response_wait_barrier. *)
Meet(c) ==
  /\ st[c] = "barrier" /\ rx[c] = "barrier"
  /\ IF c \in quit THEN Leave(c)
     ELSE /\ st' = [st EXCEPT ![c] = "prompt"] /\ rx' = [rx EXCEPT ![c] = "recv"]
          /\ UNCHANGED <<answers, quit, silent>>
  /\ UNCHANGED <<up, addr, reqs, resps, lost, sent, requests, serverVars, split>>

-----------------------------------------------------------------------------
(* The server.                                                             *)

(* The accept loop; a connection behind the array is not modelled. *)
Accept(c) ==
  /\ up = "yes" /\ excess = {} /\ num_clients < MAX_CLIENTS /\ thread[c] = "backlog"
  /\ thread' = [thread EXCEPT ![c] = "recv"] /\ num_clients' = num_clients + 1
  /\ excess' = IF num_clients' = MAX_CLIENTS THEN {c} ELSE {}
  /\ UNCHANGED <<discoveryVars, clientVars, streams, broken, shut, closed, answered_late,
                 silent, split, overrun>>

(* The descriptor is closed under its thread.  A recv that it sleeps in    *)
(* keeps the connection until it returns; the next fails, again and again. *)
CloseExcess ==
  /\ up = "yes"
  /\ \E c \in excess :
       /\ shut' = shut \cup {c}
       /\ \/ thread[c] = "recv" /\ thread' = [thread EXCEPT ![c] = "last"] /\ UNCHANGED closed
          \/ /\ thread' = [thread EXCEPT ![c] = IF @ = "recv" THEN "spin" ELSE @]
             /\ closed' = closed \cup {c}
  /\ excess' = {}
  /\ UNCHANGED <<discoveryVars, clientVars, streams, broken, num_clients, answered_late,
                 silent, split, overrun>>

(* parse_request: the first of cmds that the bytes contain. *)
Parse(bytes) == cmds[Min({k \in DOMAIN cmds : \E n \in DOMAIN bytes : bytes[n] = cmds[k]})]

(* The names that are found in part of a request, when cmd is found in it. *)
InPart(cmd) ==
  {cmds[k] : k \in {k \in DOMAIN cmds : \E m \in 1 .. k : cmds[m] = cmd}}
    \cap (Typed \cup {"unknown"})

(* recv returns some of the requests together, or a part of one.  Bound: a *)
(* part is read once of a connection, before an answer was read in parts.  *)
ReadRequest(c) ==
  /\ up = "yes" /\ thread[c] \in {"recv", "last"} /\ requests[c] # <<>>
  /\ \/ \E n \in DOMAIN requests[c] :
          /\ thread' = [thread EXCEPT ![c] = Parse(SubSeq(requests[c], 1, n))]
          /\ requests' = [requests EXCEPT ![c] = SubSeq(@, n + 1, Len(@))]
          /\ UNCHANGED split
     \/ \E first, rest \in InPart(Head(requests[c])) :
          /\ thread' = [thread EXCEPT ![c] = first]
          /\ requests' = [requests EXCEPT ![c] = <<rest>> \o Tail(@)]
          /\ c \notin split /\ split' = split \cup {c}
  /\ closed' = IF thread[c] = "last" THEN closed \cup {c} ELSE closed
  /\ UNCHANGED <<discoveryVars, clientVars, answers, broken, num_clients, excess, shut,
                 answered_late, silent, overrun>>

(* The client has ended: recv returns 0, perhaps after a -1, which the     *)
(* comparison of a size_t with 0 takes for bytes.                          *)
EndThread(c) ==
  /\ up = "yes" /\ thread[c] \in {"recv", "last"} /\ requests[c] = <<>> /\ st[c] = "done"
  /\ thread' = [thread EXCEPT ![c] = "ended"] /\ closed' = closed \cup {c}
  /\ UNCHANGED <<discoveryVars, clientVars, streams, broken, num_clients, excess, shut,
                 answered_late, silent, split, overrun>>

(* What the handler of a command may send.  ECHO's text may be "BYE"; CD   *)
(* keeps a path that opendir refused, and then LIST has no answer.  LIST   *)
(* sets neither the type nor the size of its packet, but adds to them what *)
(* it lists, as "?" does to a text that is not set: the packet may come    *)
(* out longer than the buffer it is written to.                            *)
cmd_echo == {"INFO", "BYE"}
cmd_quit == {"BYE"}
cmd_ack == {"ACK"}
cmd_info == {"INFO"}
cmd_help == {"INFO", "overrun"}
(* Bug: CD answers also when opendir failed, with a packet nobody filled.  *)
cmd_cd_unset == {"DIR", "unset"}
cmd_cd == {"DIR", "none"}
cmd_list(c) == IF c \in broken THEN {"none"} ELSE {"INFO", "DIR", "ACK", "OTHER", "overrun"}

Handler(c, cmd) ==
  CASE cmd = "ECHO" -> cmd_echo [] cmd = "QUIT" -> cmd_quit [] cmd = "ACK" -> cmd_ack
    [] cmd = "INFO" -> cmd_info [] cmd = "CD" -> cmd_cd [] cmd = "LIST" -> cmd_list(c)
    [] cmd = "?" -> cmd_help [] cmd = "unknown" -> {"none"}

(* The answer is sent.  The second to a client that has ended raises       *)
(* SIGPIPE, if the first was refused by then.                              *)
Send(c, answer) ==
  IF answer = "none" \/ c \in shut THEN UNCHANGED <<answers, up, answered_late>>
  ELSE IF st[c] # "done"
  THEN answers' = [answers EXCEPT ![c] = Append(@, answer)] /\ UNCHANGED <<up, answered_late>>
  ELSE /\ answered_late' = answered_late \cup {c} /\ UNCHANGED answers
       /\ up' \in IF c \in answered_late THEN {"yes", "down"} ELSE {"yes"}

(* invoke. *)
Invoke(c) ==
  /\ up = "yes" /\ thread[c] \in Range(cmds)
  /\ \E answer \in Handler(c, thread[c]) :
       /\ broken' = IF thread[c] # "CD" THEN broken
                    ELSE IF answer = "none" THEN broken \cup {c} ELSE broken \ {c}
       /\ silent' = IF answer \in {"none", "OTHER"} THEN silent \cup {c} ELSE silent
       /\ IF answer = "overrun"
          THEN up' = "down" /\ overrun' = TRUE /\ UNCHANGED <<answers, answered_late>>
          ELSE Send(c, answer) /\ UNCHANGED overrun
  /\ thread' = [thread EXCEPT ![c] = IF c \in shut THEN "spin" ELSE "recv"]
  /\ UNCHANGED <<st, addr, reqs, resps, lost, clientVars, requests, num_clients, excess,
                 shut, closed, split>>

-----------------------------------------------------------------------------
FindServer ==
  /\ StartServer \/ Lose \/ \E c \in Clients : Request(c) \/ Respond(c) \/ TakeResponse(c)
  /\ UNCHANGED <<clientVars, streams, serverVars, silent, split>>
ClientStep(c) == Connect(c) \/ Meet(c)
ReceiverStep(c) == Receive(c) \/ ReceiveNothing(c)
ThreadStep(c) == ReadRequest(c) \/ EndThread(c) \/ Invoke(c)
AcceptStep == CloseExcess \/ \E c \in Clients : Accept(c)

Next ==
  \/ FindServer \/ AcceptStep
  \/ \E c \in Clients : \/ ClientStep(c) \/ ReceiverStep(c) \/ ThreadStep(c)
                        \/ Command(c) \/ CommandToNobody(c) \/ Eof(c) \/ Kill(c)

(* Threads that can run do; datagrams that are not lost arrive. *)
Fairness ==
  /\ WF_vars(AcceptStep)
  /\ \A c \in Clients :
       /\ WF_vars(ClientStep(c)) /\ WF_vars(ReceiverStep(c)) /\ WF_vars(ThreadStep(c))
       /\ WF_vars((Respond(c) \/ TakeResponse(c))
                  /\ UNCHANGED <<clientVars, streams, serverVars, silent, split>>)

Spec == Init /\ [][Next]_vars /\ Fairness

-----------------------------------------------------------------------------
(* Properties.                                                             *)

(* When the client shows its prompt nothing of an earlier command is on    *)
(* its way: the barrier pairs each command with its own answer.  It does   *)
(* not once a request or an answer was read in parts, or the server has    *)
(* closed or ended.                                                        *)
InStep ==
  \A c \in Clients : st[c] = "prompt" /\ c \notin split /\ ~Gone(c) =>
    /\ rx[c] = "recv" /\ requests[c] = <<>> /\ answers[c] = <<>>
    /\ thread[c] \notin Range(cmds)

(* The server outlives its clients, whenever they are killed, unless a     *)
(* request or an answer of one was read in parts, so that two answers to   *)
(* it were on their way; and it ends when LIST or "?" writes an answer     *)
(* behind its buffer.                                                      *)
ServerOutlivesClients == up = "down" => split # {} \/ overrun

(* A command ends, unless the server has no answer to it, a request or an  *)
(* answer was read in parts, or the server closed the connection or ended. *)
CommandsEnd ==
  \A c \in Clients : st[c] = "barrier" ~>
    st[c] # "barrier" \/ c \in silent \cup split \/ Gone(c)
=============================================================================
