---------------------------- MODULE TreatWorker -----------------------------
(***************************************************************************)
(* One worker thread of the treatment arm (src/research/treatment/         *)
(* accept-treat.c), the research program the library's engine was lifted   *)
(* from.  Its data structures, its four SQE helpers and its drain loop are *)
(* those of FaWorker; it differs in what it leaves out:                    *)
(*                                                                         *)
(*   - multishot accept and the direct descriptor table are always asked   *)
(*     for (no fa_config), so TreatInit fixes cfg;                         *)
(*   - REPLY is a constant array and there is no handler: every request    *)
(*     is answered, and StaticReply is TRUE;                               *)
(*   - there is no stop flag, no timeout on the wait and no teardown: the  *)
(*     thread leaves its loop only when io_uring_submit_and_wait fails,    *)
(*     and the process ends with main (module TreatFleet).                 *)
(*                                                                         *)
(* Each action below is one function or block of accept-treat.c.           *)
(***************************************************************************)
EXTENDS FaWorkerProps

ASSUME TreatAssumption == StaticReply

TreatInit == Init /\ cfg = [multishot |-> TRUE, direct_files |-> TRUE]

-----------------------------------------------------------------------------
(* The four helpers.  Each gets an SQE (PrepSqe), or submits what is queued *)
(* and tries again (Flush, FlushReturns), or gives up (Fallback).           *)

Helper(h) ==
  /\ todo # <<>> /\ Head(todo).call = h
  /\ PrepSqe \/ Flush \/ FlushReturns \/ Fallback

\* Variant: a terminated accept is not re-armed.
arm_accept_Never ==
  /\ HelperRuns /\ Head(todo).call = "arm"
  /\ todo' = Tail(todo)
  /\ UNCHANGED <<clientVars, ringVars, cfg, stop, pc, direct, freelist, heap,
                 fd, buf, reply, batch, tried, backlog>>

arm_accept == Helper("arm")

submit_recv == Helper("recv")

\* Variant: a reply that is queued twice.
submit_reply_and_close_Twice ==
  \/ Helper("send")
  \/ /\ HelperRuns /\ Head(todo).call = "send" /\ Len(sq) + 1 < QueueDepth
     /\ sq' = sq \o <<Prep(Head(todo)), Prep(Head(todo))>>
     /\ todo' = Tail(todo) /\ tried' = FALSE
     /\ UNCHANGED <<clientVars, cfg, stop, pc, direct, freelist, heap, fd, buf,
                    reply, batch, cq, accepts, recvs, file, backlog, sock,
                    inbox>>

\* The first half, the reply; the second half is the same code as submit_close.
submit_reply_and_close == Helper("send")

\* Prepares the close and frees the conn at once.
submit_close == Helper("close")

-----------------------------------------------------------------------------
(* thread_entry and worker_main.                                            *)

\* The ring (with the flags, else plain, else the thread returns), the direct
\* table, the warm freelist and the first accept.
thread_entry == RingInitFails \/ fa_thread_entry

\* io_uring_submit_and_wait(ring, 1): -EINTR goes round again, any other error
\* leaves the loop.
submit_and_wait == Enter \/ EnterFails \/ EnterReturns \/ EnterTimesOut

\* The ST_ACCEPT branch up to conn_alloc, then the rest of it.
OnAccept == HandleAccept \/ AdoptConn

\* A drained request is always answered.
Answer == HandleRequest /\ Len(todo') = 2

\* The ST_RECV branch.
OnRecv == HandleRecvFailed \/ Answer

\* One pass over the batch: skip the NULL CQEs, dispatch the others on their
\* state, then io_uring_cq_advance.
DrainBatch == HandleNull \/ OnAccept \/ OnRecv \/ BatchDone

\* What the kernel executes inside io_uring_enter.
KernelIssues == IssueAccept \/ IssueRecv \/ IssueSend \/ IssueClose

TreatStep ==
  \/ thread_entry \/ submit_and_wait \/ DrainBatch
  \/ arm_accept \/ submit_recv \/ submit_reply_and_close \/ submit_close
  \/ KernelIssues

TreatNext ==
  \/ TreatStep
  \/ AcceptCompletes \/ AcceptFails \/ RecvCompletes
  \/ \E k \in Clients : Connect(k) \/ Write(k)

TreatSpec == TreatInit /\ [][TreatNext]_vars

\* The thread runs, and the kernel completes what it can.
TreatFairSpec ==
  /\ TreatSpec
  /\ WF_vars(TreatStep)
  /\ WF_vars(AcceptCompletes \/ AcceptFails)
  /\ WF_vars(RecvCompletes)

-----------------------------------------------------------------------------
\* accept-treat.c has no stop flag and no teardown: a thread that has left its
\* loop leaves everything as it is, so the ownership of the conns below holds
\* for as long as the process lives.
NeverTornDown == ~stop /\ pc # "torn"

\* The fixed contract of the arms (accept, drain the request, send the reply,
\* close): a peer whose request was read has received the reply once and whole
\* when its connection is closed, and any other peer nothing, although the conn
\* is recycled and the descriptor reused while the reply is still queued.
AnsweredOnce ==
  \A k \in Clients :
    sock[k] = "closed" =>
      IF verdicts[k] = <<"reply">>
      THEN Len(inbox[k]) = 1 /\ inbox[k][1].for = k /\ inbox[k][1].whole
      ELSE verdicts[k] = <<>> /\ inbox[k] = <<>>

\* The connection of a peer that has written or closed is closed in the end, by
\* the worker, which has answered it (AnsweredOnce), or by an accept that fails and
\* takes it off the backlog: the standing accept is re-armed whenever it terminates,
\* and a completion beyond the batch waits for the next pass.
AllPeersServed ==
  \A k \in Clients :
    (sock[k] \in {"queued", "open"} /\ peer[k] # "quiet")
      ~> sock[k] = "closed"
=============================================================================
