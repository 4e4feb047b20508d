------------------------ MODULE CommandSessionProofs -------------------------
(***************************************************************************)
(* What holds of LAB_8 for every number of clients, every length of the    *)
(* server's array and every number of commands.                            *)
(***************************************************************************)
EXTENDS CommandSession, SequenceTheorems, TLAPS

Commands == Range(cmds)
Packets == {"INFO", "DIR", "ACK", "OTHER", "BYE"}
Before == {"start", "asking", "found"}   (* where a client is not connected *)

(* TypeOK, part by part. *)
ClientsOK ==
  /\ st \in [Clients -> Before \cup {"prompt", "barrier", "eof", "done"}]
  /\ rx \in [Clients -> {"none", "recv", "barrier", "ended"}]
  /\ sent \in [Clients -> Nat] /\ \A c \in Clients : sent[c] <= MaxCommands[c]
StreamsOK ==
  /\ requests \in [Clients -> Seq(Commands)]
  /\ answers \in [Clients -> Seq(Packets \cup {"tail"})]
ThreadsOK ==
  /\ thread \in [Clients -> Commands \cup {"none", "backlog", "recv", "last", "spin", "ended"}]
  /\ num_clients \in 0 .. MAX_CLIENTS
SetsOK ==
  /\ broken \cup shut \cup closed \cup answered_late \cup silent \cup split \subseteq Clients
  /\ overrun \in BOOLEAN

(* The server has a thread only for who has connected. *)
ThreadsInv ==
  /\ excess \subseteq shut \cup {c \in Clients : thread[c] \notin {"none", "backlog"}}
  /\ \A c \in Clients : st[c] \in Before => thread[c] = "none"

Core == DiscoveryTypeOK /\ ClientsOK /\ StreamsOK /\ ThreadsOK /\ SetsOK /\ ThreadsInv

LEMMA CoreType == Core => TypeOK
  BY SessionAssumption
     DEF Core, ClientsOK, StreamsOK, ThreadsOK, SetsOK, ThreadsInv, TypeOK, Commands,
         Packets, Before, SessionAssumption

-----------------------------------------------------------------------------
(* Sequences, and the commands.                                            *)

LEMMA CommandNames ==
  /\ DOMAIN cmds = 1 .. 8
  /\ Commands = {"ECHO", "QUIT", "ACK", "INFO", "CD", "LIST", "?", "unknown"}
BY DEF Commands, Range, cmds

LEMMA HandlerAnswers ==
  ASSUME NEW c, NEW cmd \in Commands PROVE Handler(c, cmd) \subseteq Packets \cup {"none", "overrun"}
BY CommandNames
   DEF Handler, Packets, cmd_echo, cmd_quit, cmd_ack, cmd_info, cmd_help, cmd_cd, cmd_list

(* The first name that the bytes contain is the name of a command. *)
LEMMA ParseCommand ==
  ASSUME NEW bytes \in Seq(Commands), bytes # <<>> PROVE Parse(bytes) \in Commands
<1> DEFINE S == {k \in DOMAIN cmds : \E n \in DOMAIN bytes : bytes[n] = cmds[k]}
<1>1. PICK k \in 1 .. 8 : bytes[1] = cmds[k]
  <2>1. bytes[1] \in Commands
    BY EmptySeq, LenProperties
  <2>2. QED
    BY <2>1, CommandNames DEF Commands, Range
<1>2. S \subseteq 1 .. 8 /\ S # {}
  <2>1. 1 \in DOMAIN bytes
    BY EmptySeq, LenProperties
  <2>2. QED
    BY <1>1, <2>1, CommandNames
<1> HIDE DEF S
<1>3. \E m \in S : \A n \in S : m <= n
  <2> SUFFICES ASSUME \A m \in S : \E n \in S : n < m PROVE FALSE
    BY <1>2
  <2>1. \A n \in S : n > 2
    BY <1>2
  <2>2. \A n \in S : n > 4
    BY <1>2, <2>1
  <2>3. \A n \in S : n > 6
    BY <1>2, <2>2
  <2>4. \A n \in S : n > 8
    BY <1>2, <2>3
  <2>5. PICK n \in S : n \in 1 .. 8
    BY <1>2
  <2>6. QED
    BY <2>4, <2>5
<1>4. Min(S) \in S
  BY <1>3 DEF Min
<1>5. cmds[Min(S)] \in Commands
  BY <1>2, <1>4, CommandNames DEF Commands, Range
<1>6. QED
  BY <1>5 DEF Parse, S

LEMMA SubSequences ==
  ASSUME NEW T, NEW s \in Seq(T), NEW n \in DOMAIN s
  PROVE  /\ SubSeq(s, 1, n) \in Seq(T) /\ SubSeq(s, 1, n) # <<>>
         /\ SubSeq(s, n + 1, Len(s)) \in Seq(T)
         /\ Len(s) = 1 => SubSeq(s, n + 1, Len(s)) = <<>>
<1>1. Len(s) \in Nat /\ n \in 1 .. Len(s) /\ \A k \in 1 .. Len(s) : s[k] \in T
  BY LenProperties
<1>2. SubSeq(s, 1, n) \in Seq(T) /\ Len(SubSeq(s, 1, n)) = n
  <2>1. \A k \in 1 .. n : s[k] \in T
    BY <1>1
  <2>2. QED
    BY <1>1, <2>1, SubSeqProperties
<1>3. /\ SubSeq(s, n + 1, Len(s)) \in Seq(T)
      /\ Len(s) = 1 => Len(SubSeq(s, n + 1, Len(s))) = 0
  <2>1. \A k \in n + 1 .. Len(s) : s[k] \in T
    BY <1>1
  <2>2. QED
    BY <1>1, <2>1, SubSeqProperties
<1>4. QED
  BY <1>1, <1>2, <1>3, EmptySeq

-----------------------------------------------------------------------------
(* Types.                                                                  *)

LEMMA InitCore == Init => Core
<1> SUFFICES ASSUME Init PROVE Core
  OBVIOUS
<1>1. DiscoveryTypeOK /\ StreamsOK /\ ThreadsInv
  BY DEF Init, DiscoveryInit, DiscoveryTypeOK, StreamsOK, ThreadsInv, Before
<1>2. ClientsOK /\ ThreadsOK
  BY SessionAssumption
     DEF Init, DiscoveryInit, ClientsOK, ThreadsOK, Before, SessionAssumption
<1>3. SetsOK
  BY DEF Init, SetsOK
<1>4. QED
  BY <1>1, <1>2, <1>3 DEF Core

LEMMA FindServerCore == ASSUME Core, FindServer PROVE Core'
<1>1. /\ UNCHANGED <<rx, sent, requests, answers, thread, broken, num_clients, excess, shut,
                     closed, answered_late, silent, split, overrun>>
  BY DEF FindServer, clientVars, streams, serverVars
<1>2. DiscoveryTypeOK'
  <2>1. CASE StartServer \/ Lose
    BY <2>1 DEF StartServer, Lose, Core, DiscoveryTypeOK
  <2>2. ASSUME NEW c \in Clients, Request(c) PROVE DiscoveryTypeOK'
    BY <2>2 DEF Request, Core, DiscoveryTypeOK
  <2>3. ASSUME NEW c \in Clients, Respond(c) PROVE DiscoveryTypeOK'
    <3> DEFINE local == c \in Local
               Answers(l) == {<<d, l>> : d \in {e \in Clients : st[e] = "asking"}}
    <3>1. resps' = resps \cup Answers(local) /\ reqs' = reqs \ {c}
          /\ UNCHANGED <<up, addr, lost>>
      BY <2>3, Zenon DEF Respond
    <3>2. local \in BOOLEAN
      OBVIOUS
    <3>3. \A l \in BOOLEAN : Answers(l) \subseteq Clients \X BOOLEAN
      OBVIOUS
    <3> HIDE DEF local, Answers
    <3>4. QED
      BY <3>1, <3>2, <3>3 DEF Core, DiscoveryTypeOK
  <2>4. ASSUME NEW c \in Clients, TakeResponse(c) PROVE DiscoveryTypeOK'
    BY <2>4 DEF TakeResponse, Core, DiscoveryTypeOK
  <2>5. QED
    BY <2>1, <2>2, <2>3, <2>4 DEF FindServer
<1>3. \/ st' = st
      \/ \E c \in Clients : \E new \in Before : st[c] \in Before /\ st' = [st EXCEPT ![c] = new]
  BY DEF FindServer, StartServer, Lose, Request, Respond, TakeResponse, Before
<1>4. ClientsOK'
  BY <1>1, <1>3 DEF Core, ClientsOK
<1>5. \A c \in Clients : st'[c] \in Before => st[c] \in Before
  BY <1>3 DEF Core, ClientsOK
<1>6. StreamsOK' /\ ThreadsOK' /\ SetsOK' /\ ThreadsInv'
  BY <1>1, <1>5 DEF Core, StreamsOK, ThreadsOK, SetsOK, ThreadsInv
<1>7. QED
  BY <1>2, <1>4, <1>6 DEF Core

(* The process of a client ends. *)
LEMMA LeaveFacts ==
  ASSUME Core, NEW c \in Clients, Leave(c)
  PROVE  /\ st' \in [Clients -> Before \cup {"prompt", "barrier", "eof", "done"}]
         /\ rx' \in [Clients -> {"none", "recv", "barrier", "ended"}]
         /\ answers' \in [Clients -> Seq(Packets \cup {"tail"})]
         /\ silent' \subseteq Clients
         /\ \A d \in Clients : st'[d] \in Before => d # c /\ st[d] \in Before
BY DEF Leave, Core, ClientsOK, StreamsOK, SetsOK, Before

(* A step of a client leaves the server alone. *)
LEMMA ClientCore ==
  ASSUME Core, UNCHANGED <<up, addr, reqs, resps, lost, serverVars>>,
         ClientsOK', StreamsOK', silent' \subseteq Clients, split' \subseteq Clients,
         \A d \in Clients : st'[d] \in Before => st[d] \in Before
  PROVE  Core'
BY DEF Core, serverVars, DiscoveryTypeOK, ThreadsOK, SetsOK, ThreadsInv

LEMMA LeaveCore ==
  ASSUME Core, NEW c \in Clients, Leave(c),
         sent' \in [Clients -> Nat], \A d \in Clients : sent'[d] <= MaxCommands[d],
         UNCHANGED <<up, addr, reqs, resps, lost, requests, serverVars>>,
         split' \subseteq Clients
  PROVE  Core'
<1>1. ClientsOK' /\ StreamsOK'
  BY LeaveFacts DEF Core, ClientsOK, StreamsOK
<1>2. QED
  BY <1>1, LeaveFacts, ClientCore

LEMMA ConnectCore == ASSUME Core, NEW c \in Clients, Connect(c) PROVE Core'
<1>1. CASE Leave(c) /\ UNCHANGED thread
  BY <1>1, LeaveCore DEF Connect, serverVars, Core, ClientsOK, SetsOK
<1>2. CASE /\ st' = [st EXCEPT ![c] = "prompt"] /\ rx' = [rx EXCEPT ![c] = "recv"]
           /\ thread' = [thread EXCEPT ![c] = "backlog"] /\ UNCHANGED <<answers, quit, silent>>
  <2>1. UNCHANGED <<up, addr, reqs, resps, lost, sent, requests, answers, broken, num_clients,
                    excess, shut, closed, answered_late, silent, split, overrun>>
    BY <1>2 DEF Connect
  <2>2. DiscoveryTypeOK' /\ StreamsOK' /\ SetsOK'
    BY <2>1 DEF Core, DiscoveryTypeOK, StreamsOK, SetsOK
  <2>3. ClientsOK' /\ ThreadsOK'
    BY <1>2, <2>1 DEF Core, ClientsOK, ThreadsOK
  <2>4. thread[c] = "none"
    BY DEF Connect, Core, ThreadsInv, Before
  <2>5. ThreadsInv'
    BY <1>2, <2>1, <2>4 DEF Core, ThreadsInv, ThreadsOK, ClientsOK, Before
  <2>6. QED
    BY <2>2, <2>3, <2>5 DEF Core
<1>3. QED
  BY <1>1, <1>2 DEF Connect

LEMMA CommandCore ==
  ASSUME Core, NEW c \in Clients, Command(c) \/ CommandToNobody(c) PROVE Core'
<1>1. /\ sent' = [sent EXCEPT ![c] = @ + 1] /\ sent[c] < MaxCommands[c]
      /\ UNCHANGED <<up, addr, reqs, resps, lost, serverVars, split>>
  BY DEF Command, CommandToNobody
<1>2. sent' \in [Clients -> Nat] /\ \A d \in Clients : sent'[d] <= MaxCommands[d]
  <2>1. sent \in [Clients -> Nat] /\ \A d \in Clients : sent[d] <= MaxCommands[d]
    BY DEF Core, ClientsOK
  <2>2. \A d \in Clients : MaxCommands[d] \in Nat
    BY SessionAssumption DEF SessionAssumption
  <2>3. \A d \in Clients : sent'[d] = IF d = c THEN sent[d] + 1 ELSE sent[d]
    BY <1>1, <2>1
  <2>4. QED
    BY <1>1, <2>1, <2>2, <2>3
<1>3. CASE Leave(c) /\ UNCHANGED requests
  BY <1>1, <1>2, <1>3, LeaveCore DEF Core, SetsOK
<1>4. CASE /\ st' = [st EXCEPT ![c] = "barrier"] /\ UNCHANGED <<rx, answers>>
           /\ \/ \E cmd \in Typed : requests' = [requests EXCEPT ![c] = Append(@, cmd)]
              \/ UNCHANGED requests
           /\ silent' \subseteq Clients
  <2>1. ClientsOK' /\ \A d \in Clients : st'[d] \in Before => st[d] \in Before
    BY <1>2, <1>4 DEF Core, ClientsOK, Before
  <2>2. StreamsOK'
    <3>1. ASSUME NEW cmd \in Typed, requests' = [requests EXCEPT ![c] = Append(@, cmd)]
          PROVE  requests' \in [Clients -> Seq(Commands)]
      <4>1. Append(requests[c], cmd) \in Seq(Commands)
        BY SessionAssumption DEF Core, StreamsOK, SessionAssumption, Commands
      <4>2. QED
        BY <3>1, <4>1 DEF Core, StreamsOK
    <3>2. QED
      BY <1>4, <3>1 DEF Core, StreamsOK
  <2>3. QED
    BY <1>1, <1>4, <2>1, <2>2, ClientCore DEF Core, SetsOK
<1>5. silent \subseteq Clients
  BY DEF Core, SetsOK
<1>6. CASE Command(c)
  <2>1. /\ \/ \E cmd \in Typed : requests' = [requests EXCEPT ![c] = Append(@, cmd)]
           \/ UNCHANGED requests
        /\ silent' = silent \ {c} \/ silent' = silent \cup {c}
    BY <1>6 DEF Command
  <2>2. QED
    BY <1>4, <1>5, <1>6, <2>1 DEF Command
<1>7. CASE CommandToNobody(c)
  BY <1>3, <1>4, <1>5, <1>7 DEF CommandToNobody
<1>8. QED
  BY <1>6, <1>7

LEMMA OwnStepCore ==
  ASSUME Core, NEW c \in Clients, Eof(c) \/ Kill(c) \/ ReceiveNothing(c) \/ Meet(c) PROVE Core'
<1>1. CASE Leave(c) /\ UNCHANGED <<up, addr, reqs, resps, lost, sent, requests, serverVars, split>>
  BY <1>1, LeaveCore DEF Core, ClientsOK, SetsOK
<1>2. CASE /\ UNCHANGED <<up, addr, reqs, resps, lost, sent, requests, answers, serverVars,
                          silent, split>>
           /\ \/ st' = st
              \/ \E new \in {"eof", "prompt"} : st' = [st EXCEPT ![c] = new]
           /\ \/ rx' = rx
              \/ \E new \in {"recv", "barrier", "ended"} : rx' = [rx EXCEPT ![c] = new]
  <2>1. ClientsOK' /\ \A d \in Clients : st'[d] \in Before => st[d] \in Before
    BY <1>2 DEF Core, ClientsOK, Before
  <2>2. StreamsOK'
    BY <1>2 DEF Core, StreamsOK
  <2>3. QED
    BY <1>2, <2>1, <2>2, ClientCore DEF Core, SetsOK
<1>3. CASE Eof(c)
  BY <1>2, <1>3 DEF Eof, clientVars, streams
<1>4. CASE Kill(c)
  BY <1>1, <1>4 DEF Kill
<1>5. CASE ReceiveNothing(c)
  <2>1. /\ UNCHANGED <<up, addr, reqs, resps, lost, st, sent, requests, answers, serverVars,
                       silent, split>>
        /\ \E new \in {"recv", "barrier", "ended"} : rx' = [rx EXCEPT ![c] = new]
    BY <1>5 DEF ReceiveNothing, discoveryVars, streams
  <2>2. QED
    BY <1>2, <2>1
<1>6. CASE Meet(c)
  BY <1>1, <1>2, <1>6 DEF Meet
<1>7. QED
  BY <1>3, <1>4, <1>5, <1>6

(* What is left of the answers when one packet, or a part, was read. *)
LEMMA RestOfAnswers ==
  ASSUME Core, NEW c \in Clients, answers[c] # <<>>
  PROVE  LET T == Packets \cup {"tail"}
             rest == Tail(answers[c]) IN
         /\ Head(answers[c]) \in T /\ rest \in Seq(T)
         /\ <<"tail">> \o rest \in Seq(T) /\ (rest # <<>> => <<"tail">> \o Tail(rest) \in Seq(T))
<1> DEFINE T == Packets \cup {"tail"}
<1>1. answers[c] \in Seq(T)
  BY DEF Core, StreamsOK
<1> HIDE DEF T
<1>2. Head(answers[c]) \in T /\ Tail(answers[c]) \in Seq(T)
  BY <1>1, HeadTailProperties
<1>3. Tail(answers[c]) # <<>> => Tail(Tail(answers[c])) \in Seq(T)
  BY <1>2, HeadTailProperties
<1>4. <<"tail">> \in Seq(T)
  BY DEF T
<1>5. QED
  BY <1>2, <1>3, <1>4, ConcatProperties DEF T

LEMMA ReceiveCore == ASSUME Core, NEW c \in Clients, Receive(c) PROVE Core'
<1>1. PICK type \in Packets \cup {"tail"}, rest \in Seq(Packets \cup {"tail"}) :
        Handle(c, type, rest)
  BY RestOfAnswers DEF Receive, Packets
<1>2. /\ split' \subseteq Clients
      /\ UNCHANGED <<up, addr, reqs, resps, lost, sent, requests, serverVars>>
  BY DEF Receive, Core, SetsOK
<1>3. CASE Leave(c)
  BY <1>2, <1>3, LeaveCore DEF Core, ClientsOK
<1>4. CASE /\ \E new \in {"recv", "barrier"} : rx' = [rx EXCEPT ![c] = new]
           /\ answers' = [answers EXCEPT ![c] = rest] /\ UNCHANGED <<st, quit, silent>>
  <2>1. ClientsOK' /\ StreamsOK'
    BY <1>1, <1>2, <1>4 DEF Core, ClientsOK, StreamsOK
  <2>2. QED
    BY <1>2, <1>4, <2>1, ClientCore DEF Core, SetsOK
<1>5. QED
  BY <1>1, <1>3, <1>4 DEF Handle

(* A thread of the server takes a step; a connection it has not accepted   *)
(* stays in the backlog.                                                   *)
LEMMA ThreadCore ==
  ASSUME Core, NEW c \in Clients, thread[c] # "none",
         NEW to \in Commands \cup {"recv", "last", "spin", "ended"},
         thread' = [thread EXCEPT ![c] = to],
         UNCHANGED <<st, addr, reqs, resps, lost, clientVars>>, up' \in {"no", "yes", "down"},
         StreamsOK', num_clients' \in 0 .. MAX_CLIENTS, SetsOK',
         shut \subseteq shut', excess' \subseteq excess \cup {c}
  PROVE  Core'
<1>1. DiscoveryTypeOK' /\ ClientsOK'
  BY DEF Core, DiscoveryTypeOK, ClientsOK, clientVars
<1>2. ThreadsOK' /\ to \notin {"none", "backlog"}
  BY CommandNames DEF Core, ThreadsOK
<1>3. ThreadsInv'
  BY <1>2 DEF Core, ThreadsInv, ThreadsOK
<1>4. QED
  BY <1>1, <1>2, <1>3 DEF Core

LEMMA AcceptCore == ASSUME Core, NEW c \in Clients, Accept(c) PROVE Core'
<1>1. /\ num_clients < MAX_CLIENTS /\ thread[c] = "backlog"
      /\ thread' = [thread EXCEPT ![c] = "recv"] /\ num_clients' = num_clients + 1
      /\ excess' \subseteq {c}
      /\ UNCHANGED <<up, st, addr, reqs, resps, lost, clientVars, requests, answers, broken,
                     shut, closed, answered_late, silent, split, overrun>>
  BY DEF Accept, discoveryVars, streams
<1>2. num_clients' \in 0 .. MAX_CLIENTS
  BY <1>1, SessionAssumption DEF Core, ThreadsOK, SessionAssumption
<1>3. StreamsOK' /\ SetsOK' /\ up' \in {"no", "yes", "down"}
  BY <1>1 DEF Core, StreamsOK, SetsOK, DiscoveryTypeOK
<1>4. QED
  BY <1>1, <1>2, <1>3, ThreadCore

LEMMA CloseExcessCore == ASSUME Core, CloseExcess PROVE Core'
<1>1. PICK c \in excess :
        /\ shut' = shut \cup {c}
        /\ \/ thread[c] = "recv" /\ thread' = [thread EXCEPT ![c] = "last"] /\ UNCHANGED closed
           \/ /\ thread' = [thread EXCEPT ![c] = IF @ = "recv" THEN "spin" ELSE @]
              /\ closed' = closed \cup {c}
  BY DEF CloseExcess
<1>2. /\ UNCHANGED <<up, st, addr, reqs, resps, lost, rx, sent, requests, answers, broken,
                     num_clients, answered_late, silent, split, overrun>>
      /\ excess' = {} /\ c \in Clients
  BY DEF CloseExcess, discoveryVars, clientVars, streams, Core, ThreadsInv, SetsOK
<1>3. DiscoveryTypeOK' /\ ClientsOK' /\ StreamsOK' /\ SetsOK'
  BY <1>1, <1>2 DEF Core, DiscoveryTypeOK, ClientsOK, StreamsOK, SetsOK
<1>4. ThreadsOK' /\ \A d \in Clients : thread[d] = "none" => thread'[d] = "none"
  BY <1>1, <1>2 DEF Core, ThreadsOK
<1>5. ThreadsInv'
  BY <1>2, <1>4 DEF Core, ThreadsInv
<1>6. QED
  BY <1>3, <1>4, <1>5 DEF Core

(* The thread reads some of the requests, or a part of one. *)
LEMMA ReadFacts ==
  ASSUME Core, NEW c \in Clients, ReadRequest(c)
  PROVE  /\ requests[c] \in Seq(Commands) /\ requests[c] # <<>> /\ thread[c] # "none"
         /\ \E to \in Commands : thread' = [thread EXCEPT ![c] = to]
         /\ \E left \in Seq(Commands) :
              /\ requests' = [requests EXCEPT ![c] = left]
              /\ \/ UNCHANGED split /\ (Len(requests[c]) = 1 => left = <<>>)
                 \/ split' = split \cup {c}
         /\ UNCHANGED <<up, st, addr, reqs, resps, lost, clientVars, answers, broken, num_clients,
                        excess, shut, answered_late, silent, overrun>>
         /\ closed' \subseteq closed \cup {c} /\ closed \subseteq closed'
<1>1. requests[c] \in Seq(Commands) /\ requests[c] # <<>>
  BY DEF Core, StreamsOK, ReadRequest
<1>2. /\ UNCHANGED <<up, st, addr, reqs, resps, lost, clientVars, answers, broken, num_clients,
                     excess, shut, answered_late, silent, overrun>>
      /\ thread[c] # "none" /\ closed' \subseteq closed \cup {c} /\ closed \subseteq closed'
  BY DEF ReadRequest, discoveryVars
<1>3. ASSUME NEW n \in DOMAIN requests[c]
      PROVE  /\ Parse(SubSeq(requests[c], 1, n)) \in Commands
             /\ SubSeq(requests[c], n + 1, Len(requests[c])) \in Seq(Commands)
             /\ Len(requests[c]) = 1 => SubSeq(requests[c], n + 1, Len(requests[c])) = <<>>
  BY <1>1, SubSequences, ParseCommand
<1>4. ASSUME NEW first \in InPart(Head(requests[c])), NEW rest \in InPart(Head(requests[c]))
      PROVE  first \in Commands /\ <<rest>> \o Tail(requests[c]) \in Seq(Commands)
  <2>1. first \in Commands /\ rest \in Commands
    BY CommandNames, SessionAssumption DEF InPart, SessionAssumption, Commands
  <2>2. Tail(requests[c]) \in Seq(Commands)
    BY <1>1, HeadTailProperties
  <2>3. <<rest>> \in Seq(Commands)
    BY <2>1
  <2>4. QED
    BY <2>1, <2>2, <2>3, ConcatProperties
<1>5. CASE \E n \in DOMAIN requests[c] :
             /\ thread' = [thread EXCEPT ![c] = Parse(SubSeq(requests[c], 1, n))]
             /\ requests' = [requests EXCEPT ![c] = SubSeq(@, n + 1, Len(@))]
             /\ UNCHANGED split
  BY <1>1, <1>2, <1>3, <1>5
<1>6. CASE \E first, rest \in InPart(Head(requests[c])) :
             /\ thread' = [thread EXCEPT ![c] = first]
             /\ requests' = [requests EXCEPT ![c] = <<rest>> \o Tail(@)]
             /\ split' = split \cup {c}
  BY <1>1, <1>2, <1>4, <1>6
<1>7. QED
  BY <1>5, <1>6 DEF ReadRequest

LEMMA ReadRequestCore == ASSUME Core, NEW c \in Clients, ReadRequest(c) PROVE Core'
<1>1. StreamsOK'
  <2>1. PICK left \in Seq(Commands) : requests' = [requests EXCEPT ![c] = left]
    BY ReadFacts
  <2>2. UNCHANGED answers
    BY ReadFacts
  <2>3. QED
    BY <2>1, <2>2 DEF Core, StreamsOK
<1>2. SetsOK' /\ up' \in {"no", "yes", "down"} /\ num_clients' \in 0 .. MAX_CLIENTS
  BY ReadFacts DEF Core, SetsOK, DiscoveryTypeOK, ThreadsOK
<1>3. QED
  BY <1>1, <1>2, ReadFacts, ThreadCore

LEMMA EndThreadCore == ASSUME Core, NEW c \in Clients, EndThread(c) PROVE Core'
<1>1. /\ thread' = [thread EXCEPT ![c] = "ended"] /\ closed' = closed \cup {c}
      /\ thread[c] # "none"
      /\ UNCHANGED <<up, st, addr, reqs, resps, lost, clientVars, requests, answers, broken,
                     num_clients, excess, shut, answered_late, silent, split, overrun>>
  BY DEF EndThread, discoveryVars, streams
<1>2. /\ StreamsOK' /\ SetsOK' /\ up' \in {"no", "yes", "down"}
      /\ num_clients' \in 0 .. MAX_CLIENTS
  BY <1>1 DEF Core, StreamsOK, SetsOK, DiscoveryTypeOK, ThreadsOK
<1>3. QED
  BY <1>1, <1>2, ThreadCore

(* What invoke does with an answer. *)
LEMMA InvokeFacts ==
  ASSUME Core, NEW c \in Clients, Invoke(c)
  PROVE  /\ thread[c] \in Commands /\ up = "yes"
         /\ thread' = [thread EXCEPT ![c] = IF c \in shut THEN "spin" ELSE "recv"]
         /\ broken' \subseteq Clients /\ silent' \subseteq Clients /\ overrun' \in BOOLEAN
         /\ \/ overrun' = TRUE /\ up' = "down" /\ UNCHANGED <<answers, answered_late>>
            \/ UNCHANGED <<answers, up, answered_late>>
            \/ /\ st[c] # "done" /\ UNCHANGED <<up, answered_late>>
               /\ \E p \in Packets : answers' = [answers EXCEPT ![c] = Append(@, p)]
            \/ /\ st[c] = "done" /\ answered_late' = answered_late \cup {c}
               /\ UNCHANGED answers
               /\ up' = "yes" \/ (c \in answered_late /\ up' = "down")
         /\ overrun \in BOOLEAN /\ (overrun = TRUE => overrun' = TRUE)
         /\ UNCHANGED <<st, addr, reqs, resps, lost, clientVars, requests, num_clients, excess,
                        shut, closed, split>>
<1>1. thread[c] \in Commands
  BY DEF Invoke, Commands
<1>2. PICK answer \in Handler(c, thread[c]) :
        /\ broken' \in {broken, broken \cup {c}, broken \ {c}}
        /\ silent' \in {silent, silent \cup {c}}
        /\ \/ up' = "down" /\ overrun' = TRUE /\ UNCHANGED <<answers, answered_late>>
           \/ answer # "overrun" /\ Send(c, answer) /\ UNCHANGED overrun
  BY DEF Invoke
<1>3. answer \in Packets \cup {"none", "overrun"}
  BY <1>1, HandlerAnswers
<1>4. /\ broken' \subseteq Clients /\ silent' \subseteq Clients
      /\ overrun \in BOOLEAN /\ overrun' \in BOOLEAN /\ (overrun = TRUE => overrun' = TRUE)
  BY <1>2 DEF Core, SetsOK
<1>5. ASSUME answer # "overrun", Send(c, answer)
      PROVE  \/ UNCHANGED <<answers, up, answered_late>>
             \/ /\ st[c] # "done" /\ UNCHANGED <<up, answered_late>>
                /\ \E p \in Packets : answers' = [answers EXCEPT ![c] = Append(@, p)]
             \/ /\ st[c] = "done" /\ answered_late' = answered_late \cup {c}
                /\ UNCHANGED answers
                /\ up' = "yes" \/ (c \in answered_late /\ up' = "down")
  BY <1>3, <1>5 DEF Send
<1>6. QED
  BY <1>1, <1>2, <1>4, <1>5 DEF Invoke

LEMMA InvokeCore == ASSUME Core, NEW c \in Clients, Invoke(c) PROVE Core'
<1>1. up' \in {"no", "yes", "down"} /\ thread[c] # "none"
  BY InvokeFacts, CommandNames
<1>2. StreamsOK'
  <2>1. ASSUME NEW p \in Packets, answers' = [answers EXCEPT ![c] = Append(@, p)]
        PROVE  answers' \in [Clients -> Seq(Packets \cup {"tail"})]
    <3>1. Append(answers[c], p) \in Seq(Packets \cup {"tail"})
      BY DEF Core, StreamsOK
    <3>2. QED
      BY <2>1, <3>1 DEF Core, StreamsOK
  <2>2. QED
    BY <2>1, InvokeFacts DEF Core, StreamsOK
<1>3. SetsOK' /\ num_clients' \in 0 .. MAX_CLIENTS
  BY InvokeFacts DEF Core, SetsOK, ThreadsOK
<1>4. QED
  BY <1>1, <1>2, <1>3, InvokeFacts, ThreadCore

LEMMA NextCore == Core /\ [Next]_vars => Core'
<1> SUFFICES ASSUME Core, [Next]_vars PROVE Core'
  OBVIOUS
<1>1. CASE UNCHANGED vars
  BY <1>1 DEF vars, discoveryVars, clientVars, streams, serverVars, Core, DiscoveryTypeOK,
              ClientsOK, StreamsOK, ThreadsOK, SetsOK, ThreadsInv
<1>2. QED
  BY <1>1, FindServerCore, ConnectCore, CommandCore, OwnStepCore, ReceiveCore, AcceptCore,
     CloseExcessCore, ReadRequestCore, EndThreadCore, InvokeCore
     DEF Next, AcceptStep, ClientStep, ReceiverStep, ThreadStep

LEMMA SpecCore == Spec => []Core
  BY InitCore, NextCore, PTL DEF Spec

(* The state of LAB_8 keeps its type: num_clients never passes the end of  *)
(* the array, and only connections the server accepted are closed as one   *)
(* too many.                                                               *)
THEOREM TypeCorrect == Spec => []TypeOK
  BY SpecCore, CoreType, PTL

-----------------------------------------------------------------------------
(* One command at a time.                                                  *)

Idle(c) == requests[c] = <<>> /\ answers[c] = <<>> /\ thread[c] \notin Commands

(* While nothing was read in parts, a client   has at most one command     *)
(* under way: sent, being answered, or answered.  There is none while it   *)
(* is not connected, and, unless its connection is gone, none while it     *)
(* shows the prompt or its receiver waits at the barrier.  And there is    *)
(* none after its end once the server has answered it in vain.             *)
OneAtATime(c) ==
  c \notin split =>
    /\ requests[c] # <<>> =>
         Len(requests[c]) = 1 /\ answers[c] = <<>> /\ thread[c] \notin Commands
    /\ answers[c] # <<>> =>
         Len(answers[c]) = 1 /\ Head(answers[c]) # "tail" /\ thread[c] \notin Commands
    /\ st[c] \in Before \/ (~Gone(c) /\ (st[c] = "prompt" \/ rx[c] = "barrier")) => Idle(c)
    /\ st[c] = "prompt" /\ ~Gone(c) => rx[c] = "recv"
    /\ c \in answered_late =>
         st[c] = "done" /\ requests[c] = <<>> /\ thread[c] \notin Commands
SessionInv == \A c \in Clients : OneAtATime(c)

Same(d) ==
  /\ st'[d] = st[d] /\ rx'[d] = rx[d] /\ thread'[d] = thread[d]
  /\ requests'[d] = requests[d] /\ answers'[d] = answers[d]
(* What is closed stays closed, and a server that died is not started.     *)
Onward == closed \subseteq closed' /\ split \subseteq split' /\ (up = "down" => up' = "down")

LEMMA OthersKept ==
  ASSUME SessionInv, NEW c \in Clients, OneAtATime(c)', \A d \in Clients \ {c} : Same(d),
         Onward, answered_late' \subseteq answered_late \cup {c}
  PROVE  SessionInv'
<1> SUFFICES ASSUME NEW d \in Clients, d # c PROVE OneAtATime(d)'
  BY DEF SessionInv
<1>1. Same(d) /\ OneAtATime(d) /\ (d \in answered_late' => d \in answered_late)
  BY DEF SessionInv
<1>2. QED
  BY <1>1 DEF OneAtATime, Idle, Gone, Same, Onward

LEMMA FindServerSession == ASSUME Core, SessionInv, FindServer PROVE SessionInv'
<1>1. /\ UNCHANGED <<rx, requests, answers, thread, closed, answered_late, split>>
      /\ up = "down" => up' = "down"
  BY DEF FindServer, clientVars, streams, serverVars, StartServer, Lose, Request, Respond,
         TakeResponse
<1>2. \/ st' = st
      \/ \E c \in Clients : \E new \in Before : st[c] \in Before /\ st' = [st EXCEPT ![c] = new]
  BY DEF FindServer, StartServer, Lose, Request, Respond, TakeResponse, Before
<1>3. \A d \in Clients : st'[d] = st[d] \/ (st[d] \in Before /\ st'[d] \in Before)
  BY <1>2 DEF Core, ClientsOK
<1>4. ASSUME NEW d \in Clients PROVE OneAtATime(d)'
  BY <1>1, <1>3 DEF SessionInv, OneAtATime, Idle, Gone, Before
<1>5. QED
  BY <1>4 DEF SessionInv

(* A client that ends loses the answers, and sends no more. *)
LEMMA LeaveSession ==
  ASSUME Core, SessionInv, NEW c \in Clients, Leave(c),
         UNCHANGED <<up, requests, thread, closed, answered_late>>, split \subseteq split'
  PROVE  SessionInv'
<1>1. /\ st'[c] = "done" /\ rx'[c] = "none" /\ answers'[c] = <<>>
      /\ \A d \in Clients \ {c} : Same(d)
  BY DEF Leave, Core, ClientsOK, StreamsOK, Same
<1>2. OneAtATime(c)'
  BY <1>1 DEF SessionInv, OneAtATime, Before
<1>3. QED
  BY <1>1, <1>2, OthersKept DEF Onward

LEMMA ClientSession ==
  ASSUME Core, SessionInv, NEW c \in Clients,
         Connect(c) \/ Command(c) \/ CommandToNobody(c) \/ Eof(c) \/ Kill(c) \/ Meet(c)
  PROVE  SessionInv'
<1>1. UNCHANGED <<up, closed, answered_late, split>> /\ Onward
  BY DEF Connect, Command, CommandToNobody, Eof, Kill, Meet, serverVars, Onward
<1>2. CASE Leave(c) /\ UNCHANGED <<requests, thread>>
  BY <1>1, <1>2, LeaveSession
<1>3. ASSUME NEW s \in {"prompt", "barrier", "eof"}, st' = [st EXCEPT ![c] = s],
             UNCHANGED answers, rx' = rx \/ rx' = [rx EXCEPT ![c] = "recv"],
             thread' = thread \/ thread' = [thread EXCEPT ![c] = "backlog"],
             \/ requests' = requests
             \/ \E cmd \in Typed : requests' = [requests EXCEPT ![c] = Append(@, cmd)]
      PROVE  /\ st'[c] = s /\ answers'[c] = answers[c]
             /\ rx'[c] = rx[c] \/ rx'[c] = "recv"
             /\ \A d \in Clients \ {c} : Same(d)
  BY <1>3 DEF Same, Core, ClientsOK, StreamsOK, ThreadsOK
<1>4. CASE Connect(c)
  <2>1. CASE /\ st' = [st EXCEPT ![c] = "prompt"] /\ rx' = [rx EXCEPT ![c] = "recv"]
             /\ thread' = [thread EXCEPT ![c] = "backlog"]
             /\ UNCHANGED <<answers, requests>> /\ st[c] = "found"
    <3>1. /\ st'[c] = "prompt" /\ rx'[c] = "recv" /\ thread'[c] = "backlog"
          /\ requests'[c] = requests[c] /\ answers'[c] = answers[c]
      BY <2>1 DEF Core, ClientsOK, ThreadsOK
    <3>2. OneAtATime(c)'
      BY <1>1, <2>1, <3>1, CommandNames DEF SessionInv, OneAtATime, Idle, Before
    <3>3. QED
      BY <1>1, <1>3, <2>1, <3>2, OthersKept
  <2>2. QED
    BY <1>2, <1>4, <2>1 DEF Connect, serverVars
<1>5. CASE Command(c)
  <2>1. /\ st[c] = "prompt" /\ ~Gone(c) /\ st' = [st EXCEPT ![c] = "barrier"]
        /\ UNCHANGED <<rx, answers, thread>>
        /\ \/ requests' = requests
           \/ \E cmd \in Typed : requests' = [requests EXCEPT ![c] = Append(@, cmd)]
    BY <1>5 DEF Command, serverVars
  <2>2. /\ st'[c] = "barrier" /\ rx'[c] = rx[c] /\ answers'[c] = answers[c]
        /\ thread'[c] = thread[c]
    BY <2>1 DEF Core, ClientsOK
  <2>3. OneAtATime(c)'
    <3>1. CASE requests' = requests
      BY <1>1, <2>1, <2>2, <3>1 DEF SessionInv, OneAtATime, Idle, Before
    <3>2. ASSUME NEW cmd \in Typed, requests' = [requests EXCEPT ![c] = Append(@, cmd)]
          PROVE  OneAtATime(c)'
      <4>1. requests[c] = <<>> => requests'[c] = <<cmd>>
        BY <3>2 DEF Core, StreamsOK
      <4>2. c \notin split => requests[c] = <<>> /\ answers[c] = <<>> /\ rx[c] = "recv"
                              /\ thread[c] \notin Commands /\ c \notin answered_late
        BY <2>1 DEF SessionInv, OneAtATime, Idle
      <4>3. Len(<<cmd>>) = 1
        OBVIOUS
      <4>4. QED
        BY <1>1, <2>2, <4>1, <4>2, <4>3 DEF OneAtATime, Before
    <3>3. QED
      BY <2>1, <3>1, <3>2
  <2>4. QED
    BY <1>1, <1>3, <2>1, <2>3, OthersKept
<1>6. CASE CommandToNobody(c)
  <2>1. CASE /\ st[c] = "prompt" /\ Gone(c) /\ st' = [st EXCEPT ![c] = "barrier"]
             /\ UNCHANGED <<rx, answers, requests, thread>>
    <3>1. st'[c] = "barrier" /\ UNCHANGED <<rx, answers, requests, thread>> /\ Gone(c)'
      BY <1>1, <2>1 DEF Core, ClientsOK, Gone
    <3>2. OneAtATime(c)'
      BY <1>1, <2>1, <3>1 DEF SessionInv, OneAtATime, Before
    <3>3. QED
      BY <1>1, <1>3, <2>1, <3>2, OthersKept
  <2>2. QED
    BY <1>2, <1>6, <2>1 DEF CommandToNobody, serverVars
<1>7. CASE Eof(c)
  <2>1. /\ st[c] = "prompt" /\ st' = [st EXCEPT ![c] = "eof"]
        /\ UNCHANGED <<rx, answers, requests, thread>>
    BY <1>7 DEF Eof, clientVars, streams, serverVars
  <2>2. st'[c] = "eof"
    BY <2>1 DEF Core, ClientsOK
  <2>3. OneAtATime(c)'
    BY <1>1, <2>1, <2>2 DEF SessionInv, OneAtATime, Idle, Gone, Before
  <2>4. QED
    BY <1>1, <1>3, <2>1, <2>3, OthersKept
<1>8. CASE Kill(c)
  BY <1>2, <1>8 DEF Kill, serverVars
<1>9. CASE Meet(c)
  <2>1. CASE /\ st[c] = "barrier" /\ rx[c] = "barrier"
             /\ st' = [st EXCEPT ![c] = "prompt"] /\ rx' = [rx EXCEPT ![c] = "recv"]
             /\ UNCHANGED <<answers, requests, thread>>
    <3>1. st'[c] = "prompt" /\ rx'[c] = "recv"
      BY <2>1 DEF Core, ClientsOK
    <3>2. OneAtATime(c)'
      BY <1>1, <2>1, <3>1 DEF SessionInv, OneAtATime, Idle, Gone, Before
    <3>3. QED
      BY <1>1, <1>3, <2>1, <3>2, OthersKept
  <2>2. QED
    BY <1>2, <1>9, <2>1 DEF Meet, serverVars
<1>10. QED
  BY <1>4, <1>5, <1>6, <1>7, <1>8, <1>9

(* The receiver takes the one answer, or a part of it. *)
LEMMA ReceiveSession ==
  ASSUME Core, SessionInv, NEW c \in Clients, Receive(c) PROVE SessionInv'
<1>1. /\ UNCHANGED <<up, requests, thread, closed, answered_late>> /\ split \subseteq split'
      /\ rx[c] = "recv" /\ answers[c] # <<>>
  BY DEF Receive, serverVars
<1>2. PICK type, rest : Handle(c, type, rest)
  BY DEF Receive
<1>3. c \notin split' => Handle(c, Head(answers[c]), <<>>)
  <2>1. c \notin split' => c \notin split /\ Len(answers[c]) = 1 /\ Head(answers[c]) # "tail"
    BY <1>1 DEF SessionInv, OneAtATime
  <2>2. c \notin split' => Handle(c, Head(answers[c]), Tail(answers[c]))
    BY <2>1 DEF Receive
  <2>3. Len(answers[c]) = 1 => Tail(answers[c]) = <<>>
    <3>1. answers[c] \in Seq(Packets \cup {"tail"})
      BY DEF Core, StreamsOK
    <3>2. Tail(answers[c]) \in Seq(Packets \cup {"tail"})
          /\ Len(Tail(answers[c])) = Len(answers[c]) - 1
      BY <1>1, <3>1, HeadTailProperties
    <3> DEFINE left == Tail(answers[c])
    <3> HIDE DEF left
    <3>3. left \in Seq(Packets \cup {"tail"}) /\ (Len(answers[c]) = 1 => Len(left) = 0)
      BY <3>2 DEF left
    <3>4. Len(answers[c]) = 1 => left = <<>>
      BY <3>3, EmptySeq
    <3>5. QED
      BY <3>4 DEF left
  <2>4. QED
    BY <2>1, <2>2, <2>3
<1>4. CASE Leave(c)
  BY <1>1, <1>4, LeaveSession
<1>5. CASE ~Leave(c)
  <2>1. /\ st' = st /\ \A d \in Clients \ {c} : Same(d)
        /\ rx'[c] \in {"recv", "barrier"}
    BY <1>1, <1>2, <1>5 DEF Handle, Core, ClientsOK, StreamsOK, Same
  <2>2. c \notin split' => answers'[c] = <<>>
    BY <1>3, <1>5 DEF Handle, Core, StreamsOK
  <2>3. OneAtATime(c)'
    BY <1>1, <2>1, <2>2 DEF SessionInv, OneAtATime, Idle, Gone
  <2>4. QED
    BY <1>1, <2>1, <2>3, OthersKept DEF Onward
<1>6. QED
  BY <1>4, <1>5

LEMMA ReceiveNothingSession ==
  ASSUME Core, SessionInv, NEW c \in Clients, ReceiveNothing(c) PROVE SessionInv'
<1>1. UNCHANGED <<up, st, requests, answers, thread, closed, answered_late, split>> /\ Gone(c)
  BY DEF ReceiveNothing, discoveryVars, streams, serverVars
<1>2. \A d \in Clients \ {c} : Same(d)
  BY <1>1 DEF ReceiveNothing, Core, ClientsOK, Same
<1>3. OneAtATime(c)'
  BY <1>1 DEF SessionInv, OneAtATime, Idle, Gone
<1>4. QED
  BY <1>1, <1>2, <1>3, OthersKept DEF Onward

(* The server's side. *)

LEMMA AcceptSession ==
  ASSUME Core, SessionInv, AcceptStep PROVE SessionInv'
<1>1. /\ UNCHANGED <<up, st, rx, requests, answers, answered_late, split>>
      /\ closed \subseteq closed'
  BY DEF AcceptStep, Accept, CloseExcess, discoveryVars, clientVars, streams
<1>2. PICK c \in Clients :
        \E to \in {"recv", "last", "spin", thread[c]} : thread' = [thread EXCEPT ![c] = to]
  <2>1. CASE CloseExcess
    <3>1. PICK c \in excess :
            \/ thread' = [thread EXCEPT ![c] = "last"]
            \/ thread' = [thread EXCEPT ![c] = IF @ = "recv" THEN "spin" ELSE @]
      BY <2>1 DEF CloseExcess
    <3>2. c \in Clients
      BY DEF Core, ThreadsInv, SetsOK
    <3>3. QED
      BY <3>1, <3>2
  <2>2. QED
    BY <2>1 DEF AcceptStep, Accept
<1>3. /\ thread'[c] \in Commands => thread[c] \in Commands
      /\ \A d \in Clients \ {c} : Same(d)
  BY <1>1, <1>2, CommandNames DEF Core, ThreadsOK, Same
<1>4. OneAtATime(c)'
  BY <1>1, <1>2, <1>3 DEF SessionInv, OneAtATime, Idle, Gone
<1>5. QED
  BY <1>1, <1>3, <1>4, OthersKept DEF Onward

(* The thread reads the one request, or a part of it, ... *)
LEMMA ReadRequestSession ==
  ASSUME Core, SessionInv, NEW c \in Clients, ReadRequest(c) PROVE SessionInv'
<1>1. PICK to \in Commands, left \in Seq(Commands) :
        /\ thread' = [thread EXCEPT ![c] = to] /\ requests' = [requests EXCEPT ![c] = left]
        /\ \/ UNCHANGED split /\ (Len(requests[c]) = 1 => left = <<>>)
           \/ split' = split \cup {c}
  BY ReadFacts
<1>2. /\ UNCHANGED <<up, st, rx, answers, answered_late>> /\ closed \subseteq closed'
      /\ split \subseteq split' /\ requests[c] # <<>>
  BY <1>1, ReadFacts DEF clientVars
<1>3. /\ \A d \in Clients \ {c} : Same(d)
      /\ requests'[c] = left
  BY <1>1, <1>2 DEF Core, StreamsOK, ThreadsOK, Same
<1>4. c \notin split' =>
        /\ requests'[c] = <<>> /\ answers[c] = <<>> /\ c \notin answered_late
        /\ st[c] \notin Before /\ (Gone(c) \/ (st[c] # "prompt" /\ rx[c] # "barrier"))
  BY <1>1, <1>2, <1>3 DEF SessionInv, OneAtATime, Idle
<1>5. OneAtATime(c)'
  BY <1>2, <1>4 DEF OneAtATime, Idle, Gone
<1>6. QED
  BY <1>2, <1>3, <1>5, OthersKept DEF Onward

LEMMA EndThreadSession ==
  ASSUME Core, SessionInv, NEW c \in Clients, EndThread(c) PROVE SessionInv'
<1>1. /\ UNCHANGED <<up, st, rx, requests, answers, answered_late, split>>
      /\ closed \subseteq closed' /\ thread' = [thread EXCEPT ![c] = "ended"]
  BY DEF EndThread, discoveryVars, clientVars, streams
<1>2. thread'[c] \notin Commands /\ \A d \in Clients \ {c} : Same(d)
  BY <1>1, CommandNames DEF Core, ThreadsOK, Same
<1>3. OneAtATime(c)'
  BY <1>1, <1>2 DEF SessionInv, OneAtATime, Idle, Gone
<1>4. QED
  BY <1>1, <1>2, <1>3, OthersKept DEF Onward

(* ... and gives at most one answer.  To a client that has ended it gives  *)
(* only this one, so that the server is not killed by the next.            *)
LEMMA InvokeSession ==
  ASSUME Core, SessionInv, NEW c \in Clients, Invoke(c)
  PROVE  SessionInv' /\ (up' = "down" => c \in split \/ overrun')
<1>1. /\ thread[c] \in Commands /\ up = "yes"
      /\ UNCHANGED <<st, rx, requests, closed, split>>
  BY InvokeFacts DEF clientVars
<1>2. /\ thread'[c] \notin Commands
      /\ \A d \in Clients \ {c} : Same(d)
      /\ answered_late' \subseteq answered_late \cup {c}
  <2>1. thread'[c] \notin Commands
    <3>1. thread' = [thread EXCEPT ![c] = IF c \in shut THEN "spin" ELSE "recv"]
      BY InvokeFacts
    <3>2. QED
      BY <3>1, CommandNames DEF Core, ThreadsOK
  <2>2. answered_late' \subseteq answered_late \cup {c}
    BY InvokeFacts
  <2>3. ASSUME NEW d \in Clients \ {c} PROVE Same(d)
    <3>1. thread'[d] = thread[d]
      <4>1. thread' = [thread EXCEPT ![c] = IF c \in shut THEN "spin" ELSE "recv"]
        BY InvokeFacts
      <4>2. QED
        BY <4>1 DEF Core, ThreadsOK
    <3>2. answers'[d] = answers[d]
      <4>1. \/ UNCHANGED answers
            \/ \E p \in Packets : answers' = [answers EXCEPT ![c] = Append(@, p)]
        BY InvokeFacts
      <4>2. QED
        BY <4>1 DEF Core, StreamsOK
    <3>3. QED
      BY <1>1, <3>1, <3>2 DEF Same
  <2>4. QED
    BY <2>1, <2>2, <2>3
<1>3. c \notin split =>
        /\ requests[c] = <<>> /\ answers[c] = <<>> /\ c \notin answered_late
        /\ st[c] \notin Before /\ (Gone(c) \/ (st[c] # "prompt" /\ rx[c] # "barrier"))
  BY <1>1 DEF SessionInv, OneAtATime, Idle
<1>4. c \notin split => up' = "yes" \/ overrun' = TRUE
  BY <1>1, <1>3, InvokeFacts
<1>5. OneAtATime(c)'
  <2>1. c \notin split /\ answers'[c] # <<>> =>
          Len(answers'[c]) = 1 /\ Head(answers'[c]) # "tail"
    <3>1. ASSUME c \notin split, NEW p \in Packets,
                 answers' = [answers EXCEPT ![c] = Append(@, p)]
          PROVE  answers'[c] = <<p>>
      BY <1>3, <3>1 DEF Core, StreamsOK
    <3>2. \A p \in Packets : Len(<<p>>) = 1 /\ Head(<<p>>) # "tail"
      BY DEF Packets
    <3>3. \/ UNCHANGED answers
          \/ \E p \in Packets : answers' = [answers EXCEPT ![c] = Append(@, p)]
      BY InvokeFacts
    <3>4. c \notin split => answers'[c] = <<>> \/ \E p \in Packets : answers'[c] = <<p>>
      BY <1>3, <3>1, <3>3
    <3>5. QED
      BY <3>2, <3>4
  <2>2. c \in answered_late' => c \in answered_late \/ st[c] = "done"
    BY InvokeFacts
  <2>3. QED
    BY <1>1, <1>2, <1>3, <2>1, <2>2 DEF OneAtATime, Idle, Gone
<1>6. QED
  BY <1>1, <1>2, <1>4, <1>5, OthersKept DEF Onward

LEMMA NextSession == Core /\ SessionInv /\ [Next]_vars => SessionInv'
<1> SUFFICES ASSUME Core, SessionInv, [Next]_vars PROVE SessionInv'
  OBVIOUS
<1>1. CASE UNCHANGED vars
  BY <1>1 DEF vars, discoveryVars, clientVars, streams, serverVars, SessionInv, OneAtATime,
              Idle, Gone
<1>2. CASE FindServer
  BY <1>2, FindServerSession
<1>3. CASE AcceptStep
  BY <1>3, AcceptSession
<1>4. ASSUME NEW c \in Clients, Command(c) \/ CommandToNobody(c) \/ Eof(c) \/ Kill(c)
      PROVE  SessionInv'
  BY <1>4, ClientSession
<1>5. ASSUME NEW c \in Clients, ClientStep(c) PROVE SessionInv'
  BY <1>5, ClientSession DEF ClientStep
<1>6. ASSUME NEW c \in Clients, ReceiverStep(c) PROVE SessionInv'
  BY <1>6, ReceiveSession, ReceiveNothingSession DEF ReceiverStep
<1>7. ASSUME NEW c \in Clients, ThreadStep(c) PROVE SessionInv'
  BY <1>7, ReadRequestSession, EndThreadSession, InvokeSession DEF ThreadStep
<1>8. QED
  BY <1>1, <1>2, <1>3, <1>4, <1>5, <1>6, <1>7 DEF Next

LEMMA InitSession == Init => SessionInv
  BY CommandNames DEF Init, DiscoveryInit, SessionInv, OneAtATime, Idle, Before

LEMMA SpecSession == Spec => []SessionInv
  BY InitSession, SpecCore, NextSession, PTL DEF Spec

(* When a client shows its prompt nothing of an earlier command is on its  *)
(* way, in either direction, in the server or in its own receiver: the     *)
(* barrier of two threads pairs every command with its own answer, as long *)
(* as neither its request nor its answer is read in parts.                 *)
THEOREM BarrierKeepsStep == Spec => []InStep
<1>1. SessionInv => InStep
  BY DEF SessionInv, OneAtATime, Idle, InStep, Commands, Before
<1>2. QED
  BY <1>1, SpecSession, PTL

(* No client kills the server by ending before its answer is sent, at any  *)
(* moment, unless a request or an answer was read in parts; what else ends *)
(* the server is an answer written behind its buffer.                      *)
THEOREM ServerSurvives == Spec => []ServerOutlivesClients
<1>1. Init => ServerOutlivesClients
  BY DEF Init, DiscoveryInit, ServerOutlivesClients
<1>2. ASSUME Core, SessionInv, ServerOutlivesClients, [Next]_vars
      PROVE  ServerOutlivesClients'
  <2>1. /\ split \subseteq split' /\ (overrun = TRUE => overrun' = TRUE)
        /\ up' = "down" => up = "down" \/ \E c \in Clients : Invoke(c)
    <3>1. CASE UNCHANGED vars
      BY <3>1 DEF vars, discoveryVars, serverVars
    <3>2. CASE FindServer
      BY <3>2 DEF FindServer, serverVars, StartServer, Lose, Request, Respond, TakeResponse
    <3>3. CASE AcceptStep
      BY <3>3 DEF AcceptStep, CloseExcess, Accept, discoveryVars
    <3>4. ASSUME NEW c \in Clients,
                 \/ ClientStep(c) \/ ReceiverStep(c) \/ Command(c) \/ CommandToNobody(c)
                 \/ Eof(c) \/ Kill(c) \/ ReadRequest(c) \/ EndThread(c)
          PROVE  split \subseteq split' /\ overrun' = overrun /\ up' = up
      BY <3>4 DEF ClientStep, Connect, Meet, ReceiverStep, Receive, ReceiveNothing, Command,
                  CommandToNobody, Eof, Kill, ReadRequest, EndThread, discoveryVars,
                  serverVars
    <3>5. ASSUME NEW c \in Clients, Invoke(c)
          PROVE  split' = split /\ (overrun = TRUE => overrun' = TRUE)
      BY <1>2, <3>5, InvokeFacts
    <3>6. QED
      BY <1>2, <3>1, <3>2, <3>3, <3>4, <3>5 DEF Next, ThreadStep
  <2>2. QED
    BY <1>2, <2>1, InvokeSession DEF ServerOutlivesClients
<1>3. QED
  BY <1>1, <1>2, SpecCore, SpecSession, PTL DEF Spec
=============================================================================
