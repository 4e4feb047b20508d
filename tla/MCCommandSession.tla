-------------------------- MODULE MCCommandSession --------------------------
(* An instance of CommandSession for TLC: the client on the server's host  *)
(* talks to the server, the other may only connect.                        *)
EXTENDS CommandSession

Commands == [c \in Clients |-> IF c \in Local THEN 2 ELSE 0]
=============================================================================
