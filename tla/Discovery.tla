------------------------------ MODULE Discovery ------------------------------
(***************************************************************************)
(* LAB_8: how a client finds the server.  It sends one request to a        *)
(* multicast group and waits for the first response anybody gets.  The     *)
(* response holds the address the request came from, not the server's: it  *)
(* is of use when it answers a client on the server's own host.            *)
(*                                                                         *)
(* Requests and responses are datagrams: each member of the group gets its *)
(* own copy, in any order or never.                                        *)
(***************************************************************************)
CONSTANTS
  Clients,         (* runs of the client program                           *)
  Local            (* those on the server's host                           *)

ASSUME DiscoveryAssumption == Local \subseteq Clients

VARIABLES
  up,              (* the server: "no", "yes", or "down" when it was killed*)
  st,              (* where the main thread of each client is              *)
  addr,            (* server_address_char: is it the server's address?     *)
  reqs,            (* clients whose request is on its way to the server    *)
  resps,           (* responses on their way, <<receiver, its content>>    *)
  lost             (* history: receivers of what was lost                  *)

discoveryVars == <<up, st, addr, reqs, resps, lost>>

DiscoveryTypeOK ==
  /\ up \in {"no", "yes", "down"}
  /\ addr \in [Clients -> BOOLEAN] /\ reqs \subseteq Clients
  /\ resps \subseteq Clients \X BOOLEAN /\ lost \subseteq Clients

DiscoveryInit ==
  /\ up = "no" /\ st = [c \in Clients |-> "start"] /\ addr = [c \in Clients |-> FALSE]
  /\ reqs = {} /\ resps = {} /\ lost = {}

StartServer == up = "no" /\ up' = "yes" /\ UNCHANGED <<st, addr, reqs, resps, lost>>

(* The client has joined the group before it sends, a server that has not  *)
(* is missed.                                                              *)
Request(c) ==
  /\ st[c] = "start" /\ st' = [st EXCEPT ![c] = "asking"]
  /\ IF up = "yes" THEN reqs' = reqs \cup {c} /\ UNCHANGED lost
                   ELSE lost' = lost \cup {c} /\ UNCHANGED reqs
  /\ UNCHANGED <<up, addr, resps>>

(* Bug: only a request from the own host is answered. *)
RespondLocal(c) ==
  /\ up = "yes" /\ c \in reqs /\ reqs' = reqs \ {c}
  /\ resps' = IF c \in Local THEN resps \cup {<<c, TRUE>>} ELSE resps
  /\ UNCHANGED <<up, st, addr, lost>>

Respond(c) ==
  /\ up = "yes" /\ c \in reqs /\ reqs' = reqs \ {c}
  /\ resps' = resps \cup {<<d, c \in Local>> : d \in {e \in Clients : st[e] = "asking"}}
  /\ UNCHANGED <<up, st, addr, lost>>

(* The first response is taken, and the socket closed. *)
TakeResponse(c) ==
  /\ st[c] = "asking" /\ st' = [st EXCEPT ![c] = "found"]
  /\ \E r \in resps : r[1] = c /\ addr' = [addr EXCEPT ![c] = r[2]]
  /\ resps' = {r \in resps : r[1] # c}
  /\ UNCHANGED <<up, reqs, lost>>

Lose ==
  /\ \/ \E c \in reqs : reqs' = reqs \ {c} /\ lost' = lost \cup {c} /\ UNCHANGED resps
     \/ \E r \in resps : resps' = resps \ {r} /\ lost' = lost \cup {r[1]} /\ UNCHANGED reqs
  /\ UNCHANGED <<up, st, addr>>

(* A client waits for a response for ever only when a datagram meant for   *)
(* it was lost, the server was not there to get its request, or died.      *)
DiscoveryEnds ==
  \A c \in Clients : st[c] = "asking" ~> st[c] # "asking" \/ c \in lost \/ up = "down"
=============================================================================
