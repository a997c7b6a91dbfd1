------------------------------ MODULE Exchange ------------------------------
(***************************************************************************)
(* What a worker promises each TCP peer, without rings, descriptors or     *)
(* buffers: request -> reply -> close (src/include/flashaccept.h, lines    *)
(* 59-62).  The handler decides once per connection; the reply, if there   *)
(* is one, is delivered once, to the peer it was made for, while its       *)
(* connection is open; the connection is not closed ahead of the reply.    *)
(***************************************************************************)
EXTENDS Naturals, Sequences

CONSTANTS
  Clients,
  Lossy      \* the network may fail a send

VARIABLES
  conn,      \* the server's end of each client's connection
  answer,    \* what the handler decided for each client
  replies    \* how many replies each client has received

vars == <<conn, answer, replies>>

Init ==
  /\ conn = [k \in Clients |-> "new"]
  /\ answer = [k \in Clients |-> <<>>]
  /\ replies = [k \in Clients |-> 0]

Arrive(k) ==
  /\ conn[k] = "new"
  /\ conn' = [conn EXCEPT ![k] = "waiting"]
  /\ UNCHANGED <<answer, replies>>

Accept(k) ==
  /\ conn[k] = "waiting"
  /\ conn' = [conn EXCEPT ![k] = "open"]
  /\ UNCHANGED <<answer, replies>>

Refuse(k) ==
  /\ conn[k] = "waiting"
  /\ conn' = [conn EXCEPT ![k] = "closed"]
  /\ UNCHANGED <<answer, replies>>

Decide(k) ==
  /\ conn[k] = "open" /\ answer[k] = <<>>
  /\ \E v \in {"reply", "decline"} : answer' = [answer EXCEPT ![k] = <<v>>]
  /\ UNCHANGED <<conn, replies>>

Deliver(k) ==
  /\ conn[k] = "open" /\ answer[k] = <<"reply">> /\ replies[k] = 0
  /\ replies' = [replies EXCEPT ![k] = 1]
  /\ UNCHANGED <<conn, answer>>

Close(k) ==
  /\ conn[k] = "open"
  /\ Lossy \/ answer[k] # <<"reply">> \/ replies[k] = 1
  /\ conn' = [conn EXCEPT ![k] = "closed"]
  /\ UNCHANGED <<answer, replies>>

\* The server stops: connections may end wherever they are.
Shutdown ==
  /\ \E S \in SUBSET {k \in Clients : conn[k] \in {"waiting", "open"}} :
       conn' = [k \in Clients |-> IF k \in S THEN "reset" ELSE conn[k]]
  /\ UNCHANGED <<answer, replies>>

Next ==
  \/ \E k \in Clients : \/ Arrive(k) \/ Accept(k) \/ Refuse(k) \/ Decide(k)
                        \/ Deliver(k) \/ Close(k)
  \/ Shutdown

Spec == Init /\ [][Next]_vars
=============================================================================
