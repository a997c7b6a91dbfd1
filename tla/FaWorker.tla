------------------------------ MODULE FaWorker ------------------------------
(***************************************************************************)
(* One worker thread of the flashaccept engine (src/src/flashaccept.c):    *)
(* fa_thread_entry and fa_worker_loop, the SQE helpers they call, the      *)
(* connection freelist, and the part of fa_server_run's teardown that      *)
(* belongs to the worker.  The kernel side of the ring (liburing and       *)
(* io_uring) and the TCP peers are external: they are modelled by what the *)
(* engine relies on.                                                       *)
(*                                                                         *)
(* The worker is sequential, so its steps follow a program counter.  A     *)
(* CQE handler runs in one step until it needs an SQE; the helper calls    *)
(* it still has to make are in "todo", and the loop does not look at the   *)
(* next CQE before "todo" is empty.  Every helper has the same shape:      *)
(* io_uring_get_sqe, else io_uring_submit and a second io_uring_get_sqe,   *)
(* else a fallback.                                                        *)
(***************************************************************************)
EXTENDS Integers, Sequences, FiniteSets, Functions

CONSTANTS
  Clients,       \* TCP peers; each makes one connection
  Conns,         \* addresses malloc can return for a struct fa_conn
  Slots,         \* descriptor numbers: table indices, or fds of the process
  Nobody, NoConn, NoSlot,   \* null values
  QueueDepth,    \* FA_QUEUE_DEPTH
  CqeBatch,      \* FA_CQE_BATCH
  FreelistWarm,  \* FA_FREELIST_WARM
  StaticReply,   \* every reply is one constant array: no handler, no scratch
  Faults         \* what the environment may do to the worker

FaultKinds ==
  { "ring",         \* io_uring_queue_init fails
    "register",     \* io_uring_register_files_sparse fails
    "malloc",       \* malloc returns NULL
    "submit",       \* io_uring_enter fails, or consumes only some SQEs
    "nomultishot",  \* the kernel rejects a multishot accept
    "accept",       \* an accept fails, or a multishot accept terminates
    "send",         \* a send fails (the peer reset the connection)
    "short" }       \* a send transfers only part of the reply

ASSUME WorkerAssumption ==
  /\ Nobody \notin Clients /\ NoConn \notin Conns /\ NoSlot \notin Slots
  /\ QueueDepth \in Nat \ {0}
  /\ CqeBatch \in Nat \ {0}
  /\ FreelistWarm \in Nat
  /\ StaticReply \in BOOLEAN
  /\ Faults \subseteq FaultKinds

VARIABLES
  cfg,       \* fa_config: multishot, direct_files
  stop,      \* fa_server.stop
  pc,        \* where the worker thread is
  direct,    \* fa_worker.direct
  freelist,  \* the list from fa_worker.free_head
  heap,      \* conns obtained from malloc and not yet passed to free
  fd,        \* fa_conn.fd
  buf,       \* fa_conn.buf: the client whose request it holds
  reply,     \* fa_worker.reply: the client whose request it answers
  batch,     \* CQEs of the current batch still to be handled
  todo,      \* helper calls the current CQE's handler still has to make
  tried,     \* the current call has consumed an SQE or tried a submit
  sq,        \* SQEs prepared and not yet consumed by the kernel
  cq,        \* CQEs posted and not yet handled
  accepts,   \* accept requests standing in the kernel
  recvs,     \* recv requests waiting in the kernel
  file,      \* descriptor table: the connection behind each descriptor
  backlog,   \* accept queue of the worker's listening socket
  sock,      \* the server's end of each client's connection
  peer,      \* what each client has done on its connection
  inbox,     \* replies delivered to each client
  verdicts,  \* what the handler returned for each client's requests
  given_up   \* history: direct slots accepted without memory for a conn

workerVars == <<cfg, direct, freelist, heap, fd, reply, batch, todo>>
clientVars == <<peer, verdicts, given_up>>
vars == <<cfg, stop, pc, direct, freelist, heap, fd, buf, reply, batch, todo,
          tried, sq, cq, accepts, recvs, file, backlog, sock, peer, inbox,
          verdicts, given_up>>

-----------------------------------------------------------------------------
(* Data the ring carries.                                                   *)

\* An SQE.  "conn" is its user_data (NULL for send and close).  A send points
\* at fa_worker.reply; "for" is the client the handler made that reply for.
Sqe ==
       [op: {"accept"}, slot: {NoSlot}, conn: {NoConn}, for: {Nobody}]
  \cup [op: {"recv"}, slot: Slots, conn: Conns, for: {Nobody}]
  \cup [op: {"send"}, slot: Slots, conn: {NoConn}, for: Clients]
  \cup [op: {"close"}, slot: Slots, conn: {NoConn}, for: {Nobody}]

\* A CQE.  "null" has NULL user_data, "accept" points at the accept marker and
\* "recv" at a conn; "ok" is res >= 0 for an accept and res > 0 for a recv.
Cqe ==
       [kind: {"accept"}, slot: Slots, conn: {NoConn}, more: BOOLEAN,
        ok: {TRUE}]
  \cup [kind: {"accept"}, slot: {NoSlot}, conn: {NoConn}, more: {FALSE},
        ok: {FALSE}]
  \cup [kind: {"recv"}, slot: {NoSlot}, conn: Conns, more: {FALSE},
        ok: BOOLEAN]
  \cup [kind: {"null"}, slot: {NoSlot}, conn: {NoConn}, more: {FALSE},
        ok: {FALSE}]

\* A recv the kernel holds: the conn to complete and the connection it reads.
Recv == [conn: Conns, client: Clients]

\* What reaches a client: whose answer the bytes are, whom the handler made
\* them for, and whether all of them were sent.
Message == [of: Clients \cup {Nobody}, for: Clients, whole: BOOLEAN]

NullCqe == [kind |-> "null", slot |-> NoSlot, conn |-> NoConn,
            more |-> FALSE, ok |-> FALSE]
AcceptCqe(s, more) == [kind |-> "accept", slot |-> s, conn |-> NoConn,
                       more |-> more, ok |-> s # NoSlot]
RecvCqe(c, ok) == [kind |-> "recv", slot |-> NoSlot, conn |-> c,
                   more |-> FALSE, ok |-> ok]

Arm == [call |-> "arm", conn |-> NoConn, slot |-> NoSlot]
Adopt(s) == [call |-> "adopt", conn |-> NoConn, slot |-> s]
OnConn(h, c) == [call |-> h, conn |-> c, slot |-> NoSlot]

\* The helper calls a CQE's handler may still have to make; "adopt" is the
\* second half of the accept branch.
HandlerCalls ==
       {<<>>, <<Arm>>}
  \cup {<<Adopt(s)>> : s \in Slots} \cup {<<Arm, Adopt(s)>> : s \in Slots}
  \cup {<<OnConn("recv", c)>> : c \in Conns}
  \cup {<<OnConn("close", c)>> : c \in Conns}
  \cup {<<OnConn("send", c), OnConn("close", c)>> : c \in Conns}

TypeOK ==
  /\ cfg \in [multishot: BOOLEAN, direct_files: BOOLEAN]
  /\ stop \in BOOLEAN
  /\ pc \in {"prep", "loop", "enter", "drain", "flush", "exited", "torn"}
  /\ direct \in BOOLEAN
  /\ freelist \in Seq(Conns)
  /\ heap \subseteq Conns
  /\ fd \in [Conns -> Slots \cup {NoSlot}]
  /\ buf \in [Conns -> Clients \cup {Nobody}]
  /\ reply \in Clients \cup {Nobody}
  /\ batch \in 0..CqeBatch
  /\ todo \in HandlerCalls
  /\ tried \in BOOLEAN
  /\ sq \in Seq(Sqe) /\ Len(sq) <= QueueDepth
  /\ cq \in Seq(Cqe)
  /\ accepts \in Nat
  /\ recvs \subseteq Recv
  /\ file \in [Slots -> Clients \cup {Nobody}]
  /\ backlog \in Seq(Clients)
  /\ sock \in [Clients -> {"new", "queued", "open", "closed", "reset"}]
  /\ peer \in [Clients -> {"quiet", "request", "eof"}]
  /\ inbox \in [Clients -> Seq(Message)]
  /\ verdicts \in [Clients -> Seq({"reply", "decline"})]
  /\ given_up \subseteq Slots

Init ==
  /\ cfg \in [multishot: BOOLEAN, direct_files: BOOLEAN]
  /\ stop = FALSE
  /\ pc = "prep"
  /\ direct = FALSE
  /\ freelist = <<>> /\ heap = {}
  /\ fd = [c \in Conns |-> NoSlot]
  /\ buf = [c \in Conns |-> Nobody]
  /\ reply = Nobody
  /\ batch = 0 /\ todo = <<>> /\ tried = FALSE
  /\ sq = <<>> /\ cq = <<>>
  /\ accepts = 0 /\ recvs = {}
  /\ file = [s \in Slots |-> Nobody]
  /\ backlog = <<>>
  /\ sock = [k \in Clients |-> "new"]
  /\ peer = [k \in Clients |-> "quiet"]
  /\ inbox = [k \in Clients |-> <<>>]
  /\ verdicts = [k \in Clients |-> <<>>]
  /\ given_up = {}

-----------------------------------------------------------------------------
(* The freelist.                                                            *)

fa_conn_alloc(c) ==
  \/ /\ freelist # <<>>
     /\ c = Head(freelist)
     /\ freelist' = Tail(freelist)
     /\ UNCHANGED heap
  \/ /\ freelist = <<>>
     /\ c \notin heap
     /\ heap' = heap \cup {c}
     /\ UNCHANGED freelist

fa_conn_alloc_fails == freelist = <<>> /\ "malloc" \in Faults

fa_conn_free(c) == freelist' = <<c>> \o freelist

-----------------------------------------------------------------------------
(* Descriptors.  Releasing the last reference to a connection closes the    *)
(* server's end of it.                                                      *)

Release(s) ==
  /\ file' = [file EXCEPT ![s] = Nobody]
  /\ sock' = IF file[s] = Nobody THEN sock
             ELSE [sock EXCEPT ![file[s]] = "closed"]

\* if (!w->direct) close(fd): in direct mode nothing closes the slot.
CloseUnlessDirect(s) ==
  IF direct THEN UNCHANGED <<file, sock>> ELSE Release(s)

-----------------------------------------------------------------------------
\* The SQEs the helpers prepare.  Send and close have NULL user_data: the
\* descriptor and the address of w->reply are all they carry.
fa_arm_accept ==
  [op |-> "accept", slot |-> NoSlot, conn |-> NoConn, for |-> Nobody]
fa_submit_recv(c) ==
  [op |-> "recv", slot |-> fd[c], conn |-> c, for |-> Nobody]
fa_submit_reply(c) ==
  [op |-> "send", slot |-> fd[c], conn |-> NoConn, for |-> buf[c]]
fa_submit_close(c) ==
  [op |-> "close", slot |-> fd[c], conn |-> NoConn, for |-> Nobody]

Prep(h) ==
  CASE h.call = "arm"   -> fa_arm_accept
    [] h.call = "recv"  -> fa_submit_recv(h.conn)
    [] h.call = "send"  -> fa_submit_reply(h.conn)
    [] h.call = "close" -> fa_submit_close(h.conn)

-----------------------------------------------------------------------------
(* fa_thread_entry and the prologue of fa_worker_loop.                      *)

RingInitFails ==
  /\ pc = "prep" /\ "ring" \in Faults
  /\ pc' = "exited"
  /\ UNCHANGED <<workerVars, clientVars, stop, buf, tried, sq, cq, accepts,
                 recvs, file, backlog, sock, inbox>>

\* FreelistWarm conns are allocated ahead; a malloc that fails is skipped.
WarmFreelist ==
  \E n \in 0..FreelistWarm :
    /\ n = FreelistWarm \/ "malloc" \in Faults
    /\ freelist' \in [1..n -> Conns]
    /\ IsInjective(freelist')
    /\ heap' = Range(freelist')

fa_thread_entry ==
  /\ pc = "prep"
  /\ \/ direct' = cfg.direct_files
     \/ "register" \in Faults /\ UNCHANGED direct
  /\ WarmFreelist
  /\ sq' = <<fa_arm_accept>>
  /\ pc' = "loop"
  /\ UNCHANGED <<clientVars, cfg, stop, fd, buf, reply, batch, todo, tried, cq,
                 accepts, recvs, file, backlog, sock, inbox>>

-----------------------------------------------------------------------------
(* while (!s->stop) and io_uring_submit_and_wait_timeout.                   *)

ringVars == <<sq, cq, accepts, recvs, file, sock, inbox>>

StopSeen ==
  /\ pc = "loop" /\ stop
  /\ pc' = "exited"
  /\ UNCHANGED <<workerVars, clientVars, ringVars, stop, buf, tried, backlog>>

Enter ==
  /\ pc = "loop" /\ ~stop
  /\ pc' = "enter" /\ tried' = FALSE
  /\ UNCHANGED <<workerVars, clientVars, ringVars, stop, buf, backlog>>

\* The enter fails before it has consumed anything, or while it only waits: the
\* loop is left.
EnterFails ==
  /\ pc = "enter" /\ "submit" \in Faults
  /\ \/ sq # <<>> /\ ~tried
     \/ sq = <<>> /\ cq = <<>>
  /\ pc' = "exited"
  /\ UNCHANGED <<workerVars, clientVars, ringVars, stop, buf, tried, backlog>>

\* Variant: the loop waits for a CQE without submitting first.
EnterReturns_NoSubmit ==
  /\ pc = "enter" /\ cq # <<>>
  /\ pc' = "drain"
  /\ batch' = IF Len(cq) < CqeBatch THEN Len(cq) ELSE CqeBatch
  /\ tried' = FALSE
  /\ UNCHANGED <<clientVars, ringVars, cfg, stop, direct, freelist, heap, fd,
                 buf, reply, todo, backlog>>

\* It returns once all SQEs are consumed and a CQE is there, or with SQEs left
\* over; io_uring_peek_batch_cqe then fixes the batch.
EnterReturns ==
  /\ pc = "enter"
  /\ \/ sq = <<>> /\ cq # <<>>
     \/ sq # <<>> /\ tried /\ "submit" \in Faults
  /\ pc' = "drain"
  /\ batch' = IF Len(cq) < CqeBatch THEN Len(cq) ELSE CqeBatch
  /\ tried' = FALSE
  /\ UNCHANGED <<clientVars, ringVars, cfg, stop, direct, freelist, heap, fd,
                 buf, reply, todo, backlog>>

\* Variant: the wait has no timeout.
EnterTimesOut_Never == FALSE /\ UNCHANGED vars

\* The 200 ms timeout (-ETIME) or a signal (-EINTR): re-check the stop flag.
EnterTimesOut ==
  /\ pc = "enter" /\ sq = <<>> /\ cq = <<>>
  /\ pc' = "loop"
  /\ UNCHANGED <<workerVars, clientVars, ringVars, stop, buf, tried, backlog>>

\* The batch is handled: io_uring_cq_advance and back to the loop condition.
BatchDone ==
  /\ pc = "drain" /\ batch = 0 /\ todo = <<>>
  /\ pc' = "loop"
  /\ UNCHANGED <<workerVars, clientVars, ringVars, stop, buf, tried, backlog>>

-----------------------------------------------------------------------------
(* The drain loop: one step per CQE, then one per helper call.              *)

TakeCqe(kind) ==
  /\ pc = "drain" /\ todo = <<>> /\ batch > 0
  /\ Head(cq).kind = kind
  /\ cq' = Tail(cq)
  /\ batch' = batch - 1

\* NULL user_data: a send or close that failed; skipped.
HandleNull ==
  /\ TakeCqe("null")
  /\ UNCHANGED <<clientVars, cfg, stop, pc, direct, freelist, heap, fd, buf,
                 reply, todo, tried, sq, accepts, recvs, file, backlog, sock,
                 inbox>>

\* Variant: the accept is re-armed after every completion.
HandleAccept_AlwaysArm ==
  /\ TakeCqe("accept")
  /\ todo' = <<Arm>>
             \o (IF Head(cq).ok THEN <<Adopt(Head(cq).slot)>> ELSE <<>>)
  /\ UNCHANGED <<clientVars, cfg, stop, pc, direct, freelist, heap, fd, buf,
                 reply, tried, sq, accepts, recvs, file, backlog, sock, inbox>>

\* Variant: an accept error is skipped before the re-arm.
HandleAccept_ErrorFirst ==
  /\ TakeCqe("accept")
  /\ todo' = IF ~Head(cq).ok THEN <<>>
             ELSE (IF Head(cq).more THEN <<>> ELSE <<Arm>>)
                  \o <<Adopt(Head(cq).slot)>>
  /\ UNCHANGED <<clientVars, cfg, stop, pc, direct, freelist, heap, fd, buf,
                 reply, tried, sq, accepts, recvs, file, backlog, sock, inbox>>

\* Variant: the accept is never re-armed.
HandleAccept_NoArm ==
  /\ TakeCqe("accept")
  /\ todo' = IF Head(cq).ok THEN <<Adopt(Head(cq).slot)>> ELSE <<>>
  /\ UNCHANGED <<clientVars, cfg, stop, pc, direct, freelist, heap, fd, buf,
                 reply, tried, sq, accepts, recvs, file, backlog, sock, inbox>>

\* Re-arm if the accept request has terminated; on success adopt the descriptor.
HandleAccept ==
  /\ TakeCqe("accept")
  /\ todo' = (IF Head(cq).more THEN <<>> ELSE <<Arm>>)
             \o (IF Head(cq).ok THEN <<Adopt(Head(cq).slot)>> ELSE <<>>)
  /\ UNCHANGED <<clientVars, cfg, stop, pc, direct, freelist, heap, fd, buf,
                 reply, tried, sq, accepts, recvs, file, backlog, sock, inbox>>

\* Variant: a regular fd is closed at once and once more by the queued close.
HandleRecvFailed_CloseTwice ==
  /\ TakeCqe("recv") /\ ~Head(cq).ok
  /\ CloseUnlessDirect(fd[Head(cq).conn])
  /\ todo' = <<OnConn("close", Head(cq).conn)>>
  /\ UNCHANGED <<clientVars, cfg, stop, pc, direct, freelist, heap, fd, buf,
                 reply, tried, sq, accepts, recvs, backlog, inbox>>

\* Variant: the conn of a peer that left is freed and its descriptor forgotten.
HandleRecvFailed_Forget ==
  /\ TakeCqe("recv") /\ ~Head(cq).ok
  /\ fa_conn_free(Head(cq).conn)
  /\ UNCHANGED <<clientVars, cfg, stop, pc, direct, heap, fd, buf, reply, todo,
                 tried, sq, accepts, recvs, file, backlog, sock, inbox>>

\* EOF or error on the recv.
HandleRecvFailed ==
  /\ TakeCqe("recv") /\ ~Head(cq).ok
  /\ todo' = <<OnConn("close", Head(cq).conn)>>
  /\ UNCHANGED <<clientVars, cfg, stop, pc, direct, freelist, heap, fd, buf,
                 reply, tried, sq, accepts, recvs, file, backlog, sock, inbox>>

\* Variant: the close is queued ahead of the reply.
HandleRequest_CloseFirst ==
  /\ TakeCqe("recv") /\ Head(cq).ok
  /\ LET c == Head(cq).conn IN
       /\ reply' = buf[c]
       /\ verdicts' = [verdicts EXCEPT ![buf[c]] = Append(@, "reply")]
       /\ todo' = <<OnConn("close", c), OnConn("send", c)>>
  /\ UNCHANGED <<cfg, stop, pc, direct, freelist, heap, fd, buf, tried, sq,
                 accepts, recvs, file, backlog, sock, peer, inbox, given_up>>

\* What fa_worker.reply may hold after the handler ran on c with verdict v: a
\* handler that declines may have written there as well.
Scratch(c, v) ==
  IF StaticReply THEN {reply}
  ELSE IF v = "reply" THEN {buf[c]} ELSE {reply, buf[c]}

\* The handler runs on the request in c->buf and writes into w->reply.
HandleRequest ==
  /\ TakeCqe("recv") /\ Head(cq).ok
  /\ LET c == Head(cq).conn IN
       \E v \in {"reply", "decline"} :
         /\ reply' \in Scratch(c, v)
         /\ verdicts' = [verdicts EXCEPT ![buf[c]] = Append(@, v)]
         /\ todo' = IF v = "reply"
                    THEN <<OnConn("send", c), OnConn("close", c)>>
                    ELSE <<OnConn("close", c)>>
  /\ UNCHANGED <<cfg, stop, pc, direct, freelist, heap, fd, buf, tried, sq,
                 accepts, recvs, file, backlog, sock, peer, inbox, given_up>>

\* The rest of the accept branch: take a conn for the new descriptor and start
\* its recv; without memory, close a regular fd and forget a direct slot.
AdoptConn ==
  /\ pc = "drain" /\ todo # <<>> /\ Head(todo).call = "adopt"
  /\ LET s == Head(todo).slot IN
       \/ /\ \E c \in Conns :
               /\ fa_conn_alloc(c)
               /\ fd' = [fd EXCEPT ![c] = s]
               /\ todo' = <<OnConn("recv", c)>>
          /\ UNCHANGED <<file, sock, given_up>>
       \/ /\ fa_conn_alloc_fails
          /\ CloseUnlessDirect(s)
          /\ given_up' = given_up \cup (IF direct THEN {s} ELSE {})
          /\ todo' = <<>>
          /\ UNCHANGED <<freelist, heap, fd>>
  /\ UNCHANGED <<peer, verdicts, cfg, stop, pc, direct, buf, reply, batch,
                 tried, sq, cq, accepts, recvs, backlog, inbox>>

HelperRuns == pc = "drain" /\ todo # <<>> /\ Head(todo).call # "adopt"

\* Variant: the helper does not look at what io_uring_get_sqe returned.
PrepSqe_Unchecked ==
  /\ HelperRuns
  /\ sq' = Append(sq, Prep(Head(todo)))
  /\ IF Head(todo).call = "close" THEN fa_conn_free(Head(todo).conn)
                                  ELSE UNCHANGED freelist
  /\ todo' = Tail(todo) /\ tried' = FALSE
  /\ UNCHANGED <<clientVars, cfg, stop, pc, direct, heap, fd, buf, reply, batch,
                 cq, accepts, recvs, file, backlog, sock, inbox>>

\* io_uring_get_sqe succeeds: the helper prepares its SQE.  Preparing the close
\* frees the conn at once.
PrepSqe ==
  /\ HelperRuns /\ Len(sq) < QueueDepth
  /\ sq' = Append(sq, Prep(Head(todo)))
  /\ IF Head(todo).call = "close" THEN fa_conn_free(Head(todo).conn)
                                  ELSE UNCHANGED freelist
  /\ todo' = Tail(todo) /\ tried' = FALSE
  /\ UNCHANGED <<clientVars, cfg, stop, pc, direct, heap, fd, buf, reply, batch,
                 cq, accepts, recvs, file, backlog, sock, inbox>>

\* io_uring_get_sqe returns NULL: io_uring_submit ...
Flush ==
  /\ HelperRuns /\ Len(sq) = QueueDepth /\ ~tried
  /\ pc' = "flush" /\ tried' = TRUE
  /\ UNCHANGED <<workerVars, clientVars, ringVars, stop, buf, backlog>>

\* ... which consumes every SQE, or stops short; then io_uring_get_sqe again.
FlushReturns ==
  /\ pc = "flush"
  /\ sq = <<>> \/ "submit" \in Faults
  /\ pc' = "drain"
  /\ UNCHANGED <<workerVars, clientVars, ringVars, stop, buf, tried, backlog>>

\* Variant: a helper that cannot send goes on to the close.
Fallback_NoReturn ==
  /\ HelperRuns /\ Len(sq) = QueueDepth /\ tried
  /\ todo' = Tail(todo)
  /\ IF Head(todo).call = "arm"
     THEN UNCHANGED <<freelist, file, sock>>
     ELSE /\ CloseUnlessDirect(fd[Head(todo).conn])
          /\ fa_conn_free(Head(todo).conn)
  /\ tried' = FALSE
  /\ UNCHANGED <<clientVars, cfg, stop, pc, direct, heap, fd, buf, reply, batch,
                 sq, cq, accepts, recvs, backlog, inbox>>

\* NULL again: an accept is left unarmed, a connection is dropped.
Fallback ==
  /\ HelperRuns /\ Len(sq) = QueueDepth /\ tried
  /\ IF Head(todo).call = "arm"
     THEN /\ todo' = Tail(todo)
          /\ UNCHANGED <<freelist, file, sock>>
     ELSE /\ todo' = <<>>
          /\ CloseUnlessDirect(fd[Head(todo).conn])
          /\ fa_conn_free(Head(todo).conn)
  /\ tried' = FALSE
  /\ UNCHANGED <<clientVars, cfg, stop, pc, direct, heap, fd, buf, reply, batch,
                 sq, cq, accepts, recvs, backlog, inbox>>

-----------------------------------------------------------------------------
(* The kernel consumes the SQEs of an io_uring_enter in order.  A send is   *)
(* executed here: it reads fa_worker.reply as it is now.                    *)

Issue(op) ==
  /\ pc \in {"enter", "flush"}
  /\ sq # <<>> /\ Head(sq).op = op
  /\ sq' = Tail(sq)
  /\ tried' = TRUE
  /\ UNCHANGED <<workerVars, clientVars, stop, pc, buf, backlog>>

IssueAccept ==
  /\ Issue("accept")
  /\ \/ /\ cfg.multishot /\ "nomultishot" \in Faults
        /\ cq' = Append(cq, AcceptCqe(NoSlot, FALSE))
        /\ UNCHANGED accepts
     \/ /\ accepts' = accepts + 1
        /\ UNCHANGED cq
  /\ UNCHANGED <<recvs, file, sock, inbox>>

IssueRecv ==
  /\ Issue("recv")
  /\ LET k == file[Head(sq).slot] IN
       IF k = Nobody
       THEN /\ cq' = Append(cq, RecvCqe(Head(sq).conn, FALSE))
            /\ UNCHANGED recvs
       ELSE /\ recvs' = recvs \cup {[conn |-> Head(sq).conn, client |-> k]}
            /\ UNCHANGED cq
  /\ UNCHANGED <<accepts, file, sock, inbox>>

\* Whose answer the bytes of a send are when the kernel reads them.
BytesOf(e) == IF StaticReply THEN e.for ELSE reply

IssueSend ==
  /\ Issue("send")
  /\ LET k == file[Head(sq).slot] IN
       \/ /\ k = Nobody \/ "send" \in Faults
          /\ cq' = Append(cq, NullCqe)
          /\ UNCHANGED inbox
       \/ /\ k # Nobody
          /\ \E whole \in {TRUE} \cup (IF "short" \in Faults THEN {FALSE}
                                                             ELSE {}) :
               inbox' = [inbox EXCEPT ![k] =
                           Append(@, [of |-> BytesOf(Head(sq)),
                                      for |-> Head(sq).for, whole |-> whole])]
          /\ UNCHANGED cq
  /\ UNCHANGED <<accepts, recvs, file, sock>>

IssueClose ==
  /\ Issue("close")
  /\ Release(Head(sq).slot)
  /\ cq' = IF file[Head(sq).slot] = Nobody THEN Append(cq, NullCqe) ELSE cq
  /\ UNCHANGED <<accepts, recvs, inbox>>

-----------------------------------------------------------------------------
(* Requests that complete on their own.                                     *)

Completes ==
  /\ pc \notin {"prep", "torn"}
  /\ UNCHANGED <<workerVars, clientVars, stop, pc, tried, sq, inbox>>

\* An accepted connection gets a free descriptor; a multishot accept stays
\* armed (F_MORE) unless the kernel terminates it.
AcceptCompletes ==
  /\ Completes
  /\ accepts > 0 /\ backlog # <<>>
  /\ \E s \in Slots, more \in BOOLEAN :
       /\ file[s] = Nobody
       /\ more => cfg.multishot
       /\ ~more => ~cfg.multishot \/ "accept" \in Faults
       /\ file' = [file EXCEPT ![s] = Head(backlog)]
       /\ cq' = Append(cq, AcceptCqe(s, more))
       /\ accepts' = IF more THEN accepts ELSE accepts - 1
  /\ sock' = [sock EXCEPT ![Head(backlog)] = "open"]
  /\ backlog' = Tail(backlog)
  /\ UNCHANGED <<recvs, buf>>

\* No descriptor is free, or the accept fails: an error CQE terminates the
\* request.  Only EMFILE leaves the connection in the queue.
AcceptFails ==
  /\ Completes
  /\ accepts > 0 /\ backlog # <<>>
  /\ \/ /\ \A s \in Slots : file[s] # Nobody
        /\ ~direct
        /\ UNCHANGED <<backlog, sock>>
     \/ /\ "accept" \in Faults \/ (direct /\ \A s \in Slots : file[s] # Nobody)
        /\ sock' = [sock EXCEPT ![Head(backlog)] = "closed"]
        /\ backlog' = Tail(backlog)
  /\ cq' = Append(cq, AcceptCqe(NoSlot, FALSE))
  /\ accepts' = accepts - 1
  /\ UNCHANGED <<recvs, buf, file>>

\* A recv completes when its peer has written or has gone.
RecvCompletes ==
  /\ Completes
  /\ \E r \in recvs :
       /\ peer[r.client] # "quiet"
       /\ recvs' = recvs \ {r}
       /\ cq' = Append(cq, RecvCqe(r.conn, peer[r.client] = "request"))
       /\ buf' = IF peer[r.client] = "request"
                 THEN [buf EXCEPT ![r.conn] = r.client] ELSE buf
  /\ UNCHANGED <<accepts, file, backlog, sock>>

-----------------------------------------------------------------------------
(* fa_server_run's teardown of this worker, after the join: the ring, its   *)
(* descriptor table, the listening socket and the freelist go.              *)

Teardown ==
  /\ pc = "exited"
  /\ pc' = "torn"
  /\ sq' = <<>> /\ cq' = <<>> /\ accepts' = 0 /\ recvs' = {} /\ batch' = 0
  /\ todo' = <<>>
  /\ file' = IF direct THEN [s \in Slots |-> Nobody] ELSE file
  /\ sock' = [k \in Clients |->
                IF k \in Range(backlog) \/ (direct /\ k \in Range(file))
                THEN "reset" ELSE sock[k]]
  /\ backlog' = <<>>
  /\ heap' = heap \ Range(freelist)
  /\ freelist' = <<>>
  /\ UNCHANGED <<clientVars, cfg, stop, direct, fd, buf, reply, tried, inbox>>

-----------------------------------------------------------------------------
(* The environment: fa_server_stop, and the TCP peers.                      *)

fa_server_stop ==
  /\ ~stop
  /\ stop' = TRUE
  /\ UNCHANGED <<workerVars, clientVars, ringVars, pc, buf, tried, backlog>>

Connect(k) ==
  /\ sock[k] = "new" /\ pc # "torn"
  /\ sock' = [sock EXCEPT ![k] = "queued"]
  /\ backlog' = Append(backlog, k)
  /\ UNCHANGED <<workerVars, clientVars, stop, pc, buf, tried, sq, cq, accepts,
                 recvs, file, inbox>>

Write(k) ==
  /\ sock[k] \in {"queued", "open"} /\ peer[k] = "quiet"
  /\ peer' \in {[peer EXCEPT ![k] = "request"], [peer EXCEPT ![k] = "eof"]}
  /\ UNCHANGED <<workerVars, ringVars, verdicts, given_up, stop, pc, buf, tried,
                 backlog>>

-----------------------------------------------------------------------------
WorkerStep ==
  \/ RingInitFails \/ fa_thread_entry \/ StopSeen \/ Enter \/ EnterFails
  \/ EnterReturns \/ EnterTimesOut \/ BatchDone \/ HandleNull \/ HandleAccept
  \/ HandleRecvFailed \/ HandleRequest \/ AdoptConn \/ PrepSqe \/ Flush
  \/ FlushReturns \/ Fallback \/ IssueAccept \/ IssueRecv \/ IssueSend
  \/ IssueClose \/ Teardown

Next ==
  \/ WorkerStep
  \/ AcceptCompletes \/ AcceptFails \/ RecvCompletes
  \/ fa_server_stop
  \/ \E k \in Clients : Connect(k) \/ Write(k)

Spec == Init /\ [][Next]_vars

\* The worker thread is scheduled, and the kernel completes what it can.  The
\* peers need not write, and nobody need call fa_server_stop.
Fairness ==
  /\ WF_vars(WorkerStep)
  /\ WF_vars(AcceptCompletes \/ AcceptFails)
  /\ WF_vars(RecvCompletes)

FairSpec == Spec /\ Fairness
=============================================================================
