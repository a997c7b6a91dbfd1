--------------------------- MODULE FaWorkerProps ----------------------------
(***************************************************************************)
(* What one worker guarantees about memory, descriptors, the standing      *)
(* accept, replies and termination.                                        *)
(***************************************************************************)
EXTENDS FaWorker

-----------------------------------------------------------------------------
(* Memory: the raw conn pointers the worker passes to the kernel.           *)

TodoConns == {todo[i].conn : i \in DOMAIN todo} \ {NoConn}

\* Every place that holds the address of conn c.
Places(c) ==
       {<<"free", i>> : i \in {j \in DOMAIN freelist : freelist[j] = c}}
  \cup {<<"sq", i>> : i \in {j \in DOMAIN sq : sq[j].conn = c}}
  \cup {<<"kernel", r.client>> : r \in {x \in recvs : x.conn = c}}
  \cup {<<"cq", i>> : i \in {j \in DOMAIN cq : cq[j].conn = c}}
  \cup (IF c \in TodoConns THEN {<<"handler", 0>>} ELSE {})

\* Until the teardown every conn that came from malloc is in exactly one place:
\* on the freelist once, or behind one recv (queued, pending or completed), or
\* in the hands of the current handler.  So a completion never names a conn
\* that is free or has been given to another connection (the conns are freed
\* when the close is prepared, before anything is submitted), nothing is freed
\* twice, and no conn is lost, whatever fails.
ConnOwnership ==
  pc # "torn" =>
    \A c \in Conns :
      /\ c \in heap <=> Places(c) # {}
      /\ \A p, q \in Places(c) : p = q

-----------------------------------------------------------------------------
(* Descriptors.                                                             *)

LiveConns == heap \ Range(freelist)

\* Everything that will use or close descriptor s.
Holders(s) ==
       {<<"accepted", i>> : i \in {j \in DOMAIN cq :
                                     cq[j].kind = "accept" /\ cq[j].slot = s}}
  \cup {<<"adopting", i>> : i \in {j \in DOMAIN todo : todo[j].slot = s}}
  \cup {<<"conn", c>> : c \in {x \in LiveConns : fd[x] = s}}
  \cup {<<"closing", i>> : i \in {j \in DOMAIN sq :
                                    sq[j].op = "close" /\ sq[j].slot = s}}

\* A descriptor is used by one connection at a time: an accept completion, a
\* live conn or a queued close is the only one of its kind for its descriptor,
\* and the descriptor is open.  So a queued close never closes the connection
\* that has been accepted into a reused descriptor, whatever fails.
DescriptorExclusive ==
  pc # "torn" =>
    \A s \in Slots :
      /\ Holders(s) # {} => file[s] # Nobody
      /\ \A p, q \in Holders(s) : p = q

\* An open descriptor is always going to be closed: something still holds it.
\* "direct slot leaks only on OOM" (flashaccept.c:386): the one exception is a
\* slot that was accepted when there was no memory for its conn.
DescriptorsAccounted ==
  pc # "torn" =>
    \A s \in Slots :
      file[s] # Nobody => Holders(s) # {} \/ s \in given_up

\* "Free a server handle and all its resources" (flashaccept.h:147): once the
\* worker is torn down no conn is left on the heap and no descriptor is open.
AllReleased ==
  pc = "torn" => heap = {} /\ \A s \in Slots : file[s] = Nobody

-----------------------------------------------------------------------------
(* The standing accept.                                                     *)

\* Where the accept of the worker is: in the kernel, queued, ended with a
\* completion that re-arms it, or about to be queued.
AcceptTokens ==
  {<<"armed", n>> : n \in 1..accepts}
  \cup {<<"queued", i>> : i \in {j \in DOMAIN sq : sq[j].op = "accept"}}
  \cup {<<"ended", i>> : i \in {j \in DOMAIN cq : cq[j].kind = "accept"
                                               /\ ~cq[j].more}}
  \cup {<<"arming", i>> : i \in {j \in DOMAIN todo : todo[j].call = "arm"}}

\* The worker is never armed twice, so that single-shot and multishot accepts
\* do not pile up; this survives every failure.
NeverArmedTwice == \A p, q \in AcceptTokens : p = q

\* A worker that is in its loop is never deaf: its accept stands in the kernel,
\* or is queued, or has a completion that will re-arm it.
NeverDeaf ==
  pc \in {"loop", "enter", "drain", "flush"} =>
    \E p \in AcceptTokens : AcceptTokens = {p}

-----------------------------------------------------------------------------
(* Replies.                                                                 *)

\* A reply reaches the connection whose request produced it, although the send
\* names a descriptor that outlives its conn.
RepliesReachTheirPeer ==
  \A k \in Clients : \A i \in DOMAIN inbox[k] : inbox[k][i].for = k

\* The bytes a client receives are the ones the handler wrote for it
\* (flashaccept.c:283: the reply scratch is "stable until the next connection
\* on this worker, which cannot start until after these SQEs are submitted").
RepliesCarryTheirBytes ==
  \A k \in Clients : \A i \in DOMAIN inbox[k] :
    inbox[k][i].of = inbox[k][i].for

\* "the engine sends exactly that many bytes and then closes the connection"
\* (flashaccept.h:113): a closed connection has received its reply whole.
RepliesAreWhole ==
  \A k \in Clients :
    sock[k] = "closed" => \A i \in DOMAIN inbox[k] : inbox[k][i].whole

\* The worker implements the per-connection contract of Exchange.
Contract == INSTANCE Exchange WITH
  Lossy   <- "send" \in Faults,
  conn    <- [k \in Clients |-> IF sock[k] = "queued" THEN "waiting"
                                                      ELSE sock[k]],
  answer  <- verdicts,
  replies <- [k \in Clients |-> Len(inbox[k])]

\* Request -> reply -> close, once each, per connection.
ServesContract == Contract!Spec

-----------------------------------------------------------------------------
(* The submission queue.                                                    *)

\* Between two enters a batch queues at most two SQEs per CQE, so with a queue
\* of twice the batch the "deep-queue exhaustion" fallbacks (flashaccept.c:237)
\* are unreachable as long as the kernel consumes what is submitted.
NoExhaustion ==
  ("submit" \notin Faults /\ QueueDepth >= 2 * CqeBatch) => pc # "flush"

-----------------------------------------------------------------------------
(* Progress.                                                                *)

\* The worker has no ring, or there was no memory for k and its slot was given
\* up: what the code does not serve.
Forsaken(k) ==
  pc \in {"exited", "torn"} \/ \E s \in given_up : file[s] = k

\* A peer that has connected and written or closed is answered or closed, across
\* accepts that fail or terminate and sends that fail, unless the server is
\* stopped or the peer is forsaken.
EveryPeerServed ==
  \A k \in Clients :
    (sock[k] \in {"queued", "open"} /\ peer[k] # "quiet")
      ~> (sock[k] \in {"closed", "reset"} \/ stop \/ Forsaken(k))

\* "After this returns, fa_server_run() will unblock shortly" (flashaccept.h:142):
\* a stopped worker leaves its loop and is torn down, with or without traffic.
StopEndsWorker == stop ~> pc = "torn"

=============================================================================
