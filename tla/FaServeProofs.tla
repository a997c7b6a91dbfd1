--------------------------- MODULE FaServeProofs ----------------------------
(***************************************************************************)
(* What a reply carries: the bytes of a reply reach the peer that asked    *)
(* for it.  At the end, that the accept queue and the descriptor table     *)
(* hold each connection once.                                              *)
(***************************************************************************)
EXTENDS FaConnProofs

\* The backends for a leaf that names none, with longer tries if the first fail.
USE SMTT(20), ZenonT(20), SMTT(120), ZenonT(60), SMTT(60)

-----------------------------------------------------------------------------
(* Whose bytes and whose descriptor a conn, a recv and a send stand for.    *)

RecvAt(c, s) == {e \in Sqe : e.op = "recv" /\ e.conn = c /\ e.slot = s}
GotBy(c) == {e \in Cqe : e.kind = "recv" /\ e.conn = c /\ e.ok}
SendAt(s) == {e \in Sqe : e.op = "send" /\ e.slot = s}
SendTo(s, k) == {e \in Sqe : e.op = "send" /\ e.slot = s /\ e.for = k}

\* The handler is about to answer, or to close, the connection of conn c.
AnswerCalls(c) == <<OnConn("send", c), OnConn("close", c)>>
CloseCalls(c) == <<OnConn("close", c)>>
Answering(c) == todo = AnswerCalls(c)
Dismissing(c) == todo = CloseCalls(c)

Sending(s) == In(sq, SendAt(s))

\* The connection of a conn is the one behind its descriptor, through the
\* queue, the kernel, the completion and the handler.
Bound ==
  pc # "torn" =>
    /\ \A c \in Conns, s \in Slots : In(sq, RecvAt(c, s)) => fd[c] = s
    /\ \A r \in recvs : file[fd[r.conn]] = r.client
    /\ \A c \in Conns :
         In(cq, GotBy(c)) \/ Answering(c) => buf[c] = file[fd[c]]

\* Every entry of q in X comes before every entry in Y.
Before(q, X, Y) == \A i, j \in DOMAIN q : q[i] \in X /\ q[j] \in Y => i < j

\* A queued send names a descriptor that is still the one it was made for, and
\* the close of that descriptor comes after it.
SendFits(s) ==
  /\ \A k \in Clients : In(sq, SendTo(s, k)) => file[s] = k
  /\ Sending(s) /\ Fed => Owned(s) \/ Closing(s)
  /\ Before(sq, SendAt(s), CloseAt(s))

Sends == (Fed \/ direct) /\ pc # "torn" => \A s \in Slots : SendFits(s)

\* What has been sent so far.
Delivered == Fed \/ direct \/ pc = "prep" => RepliesReachTheirPeer

-----------------------------------------------------------------------------
(* Queues and calls.                                                        *)

\* Taking the head keeps the order, and a Y at the head has no X behind it.
LEMMA TailBefore ==
  ASSUME NEW S, NEW q \in Seq(S), q # <<>>, NEW X, NEW Y, Before(q, X, Y)
  PROVE  /\ Before(Tail(q), X, Y)
         /\ Head(q) \in Y => ~In(Tail(q), X)
<1>1. /\ \A i \in DOMAIN Tail(q) : i + 1 \in DOMAIN q /\ Tail(q)[i] = q[i + 1]
      /\ \A i \in DOMAIN Tail(q) : i \in Nat /\ i > 0
      /\ 1 \in DOMAIN q /\ Head(q) = q[1]
  OBVIOUS
<1>2. ASSUME NEW i \in DOMAIN Tail(q), NEW j \in DOMAIN Tail(q),
             Tail(q)[i] \in X, Tail(q)[j] \in Y
      PROVE  i < j
  <2>1. i + 1 < j + 1
    BY <1>1, <1>2 DEF Before
  <2>2. QED
    BY <1>1, <2>1
<1>3. ASSUME Head(q) \in Y, NEW i \in DOMAIN Tail(q), Tail(q)[i] \in X
      PROVE  FALSE
  <2>1. i + 1 < 1
    BY <1>1, <1>3 DEF Before
  <2>2. QED
    BY <1>1, <2>1
<1>4. QED
  BY <1>2, <1>3 DEF Before, In

\* The entries that name a conn or a descriptor.
LEMMA NamingEntries ==
  \A q :
    /\ \A c \in Conns : In(q, GotBy(c)) => HasConn(q, c)
    /\ \A c \in Conns, s \in Slots : In(q, RecvAt(c, s)) => HasConn(q, c)
    /\ \A s \in Slots : /\ \A k : In(q, SendTo(s, k)) => In(q, SendAt(s))
                        /\ In(q, SendAt(s)) => \E k \in Clients : In(q, SendTo(s, k))
  BY SqeFacts, Zenon, ZenonT(60)
     DEF RecvAt, GotBy, SendAt, SendTo, In, HasConn

\* The handler's calls on a conn.
LEMMA StageCalls ==
  ASSUME NEW c \in Conns
  PROVE  /\ Answering(c) => /\ todo # <<>> /\ Head(todo) = OnConn("send", c)
                            /\ Rest(todo) = <<OnConn("close", c)>>
                            /\ \A d : HasConn(todo, d) <=> d = c
         /\ Dismissing(c) => /\ todo # <<>> /\ Head(todo) = OnConn("close", c)
                             /\ Rest(todo) = <<>>
                             /\ \A d : HasConn(todo, d) <=> d = c
         /\ ~(Answering(c) /\ Dismissing(c))
<1> DEFINE x == OnConn("send", c)
           y == OnConn("close", c)
<1>1. /\ \A d : HasConn(<<x, y>>, d) <=> d = c
      /\ \A d : HasConn(<<y>>, d) <=> d = c
  BY CallConns, Zenon
<1>2. Answering(c) => /\ todo # <<>> /\ Head(todo) = x /\ Rest(todo) = <<y>>
                      /\ \A d : HasConn(todo, d) <=> d = c
  <2>1. <<x, y>> # <<>> /\ Head(<<x, y>>) = x /\ Rest(<<x, y>>) = <<y>>
    BY CallTuples, Zenon
  <2>2. QED
    BY <1>1, <2>1, Zenon DEF Answering, AnswerCalls
<1>3. Dismissing(c) => /\ todo # <<>> /\ Head(todo) = y /\ Rest(todo) = <<>>
                       /\ \A d : HasConn(todo, d) <=> d = c
  <2>1. <<y>> # <<>> /\ Head(<<y>>) = y /\ Rest(<<y>>) = <<>>
    BY CallTuples, Zenon
  <2>2. QED
    BY <1>1, <2>1, Zenon DEF Dismissing, CloseCalls
<1>4. OnConn("send", c) # OnConn("close", c)
  BY DEF OnConn
<1>5. QED
  BY <1>2, <1>3, <1>4, Zenon

\* Lists of calls that are no answer, or no close, of conn c.
LEMMA OtherCalls ==
  ASSUME NEW c
  PROVE  /\ <<>> # AnswerCalls(c) /\ <<>> # CloseCalls(c)
         /\ <<Arm>> # AnswerCalls(c) /\ <<Arm>> # CloseCalls(c)
         /\ \A s : <<Adopt(s)>> # AnswerCalls(c) /\ <<Adopt(s)>> # CloseCalls(c)
         /\ \A s : /\ <<Arm, Adopt(s)>> # AnswerCalls(c)
                   /\ <<Arm, Adopt(s)>> # CloseCalls(c)
         /\ \A d : /\ <<OnConn("recv", d)>> # AnswerCalls(c)
                   /\ <<OnConn("recv", d)>> # CloseCalls(c)
         /\ \A d : AnswerCalls(d) = AnswerCalls(c) => d = c
         /\ \A d : CloseCalls(d) = CloseCalls(c) => d = c
         /\ \A d : AnswerCalls(d) # CloseCalls(c)
<1> DEFINE x == OnConn("send", c)
           y == OnConn("close", c)
<1>1. /\ x.call = "send" /\ y.call = "close" /\ x.conn = c /\ y.conn = c
      /\ Arm.call = "arm" /\ \A s : Adopt(s).call = "adopt"
      /\ \A d : OnConn("recv", d).call = "recv"
      /\ \A d : OnConn("send", d).conn = d /\ OnConn("close", d).conn = d
  BY DEF OnConn, Arm, Adopt
<1>2. AnswerCalls(c) = <<x, y>> /\ CloseCalls(c) = <<y>>
  BY Zenon DEF AnswerCalls, CloseCalls
<1> HIDE DEF x, y
<1>3. \A a, b : /\ <<>> # <<a>> /\ <<>> # <<a, b>>
                /\ \A u, v : <<u>> # <<a, b>> /\ (<<u>> = <<a>> => u = a)
                            /\ (<<u, v>> = <<a, b>> => u = a)
  OBVIOUS
<1>4. /\ <<>> # <<x, y>> /\ <<>> # <<y>> /\ <<Arm>> # <<x, y>> /\ <<Arm>> # <<y>>
      /\ \A s : <<Adopt(s)>> # <<x, y>> /\ <<Adopt(s)>> # <<y>>
      /\ \A s : <<Arm, Adopt(s)>> # <<x, y>> /\ <<Arm, Adopt(s)>> # <<y>>
      /\ \A d : <<OnConn("recv", d)>> # <<x, y>> /\ <<OnConn("recv", d)>> # <<y>>
  BY <1>1, <1>3, Zenon, ZenonT(60)
<1>5. /\ \A d : <<OnConn("send", d), OnConn("close", d)>> = <<x, y>> => d = c
      /\ \A d : <<OnConn("close", d)>> = <<y>> => d = c
      /\ \A d : <<OnConn("send", d), OnConn("close", d)>> # <<y>>
  BY <1>1, <1>3, Zenon, ZenonT(60)
<1>6. QED
  BY <1>2, <1>4, <1>5, Zenon, ZenonT(60) DEF AnswerCalls, CloseCalls

\* What refers to a conn refers to a live one, which has a descriptor.
Refs ==
  /\ \A c \in Conns : /\ Live(c) => fd[c] \in Slots
                      /\ HasConn(todo, c) => Live(c)
                      /\ Answering(c) \/ Dismissing(c) => Live(c)
                      /\ In(cq, GotBy(c)) => Live(c)
                      /\ \A s \in Slots : In(sq, RecvAt(c, s)) => Live(c)
  /\ \A r \in recvs : r.conn \in Conns /\ Live(r.conn)

\* Own, read by reference: whatever names a conn names a live one.
LEMMA LiveRefs == TypeInv /\ Own /\ pc # "torn" => Refs
<1> SUFFICES ASSUME TypeInv, Own, pc # "torn" PROVE Refs
  OBVIOUS
<1>1. \A c \in Conns : Live(c) <=> InFlight(c)
  BY LiveInFlight
<1>2. ASSUME NEW c \in Conns
      PROVE  /\ Live(c) => fd[c] \in Slots
             /\ HasConn(todo, c) => Live(c)
             /\ In(cq, GotBy(c)) => Live(c)
             /\ \A s \in Slots : In(sq, RecvAt(c, s)) => Live(c)
  <2>1. Live(c) => fd[c] \in Slots
    BY <1>1 DEF TypeInv, WellFormed
  <2>2. /\ HasConn(todo, c) \/ HasConn(cq, c) \/ HasConn(sq, c) => Live(c)
    BY <1>1 DEF InFlight
  <2>3. \A s \in Slots : In(sq, RecvAt(c, s)) => HasConn(sq, c)
    BY NamingEntries, Zenon
  <2>4. In(cq, GotBy(c)) => HasConn(cq, c)
    BY Zenon DEF In, GotBy, HasConn
  <2>5. QED
    BY <2>1, <2>2, <2>3, <2>4, Zenon
<1>3. \A c \in Conns : Answering(c) \/ Dismissing(c) => HasConn(todo, c)
  BY StageCalls, Zenon
<1>4. \A r \in recvs : r.conn \in Conns /\ Waiting(r.conn)
  BY DEF TypeInv, TypeOK, Recv, Waiting
<1>5. \A r \in recvs : Live(r.conn)
  BY <1>1, <1>4 DEF InFlight
<1>6. QED
  BY <1>2, <1>3, <1>4, <1>5, Zenon DEF Refs

-----------------------------------------------------------------------------
(* When a descriptor changes hands.                                         *)

\* A descriptor that an accept opens was closed; one that is closed was to be
\* adopted, or belonged to a conn that is given up, or its close is consumed.
FileMoves(s) ==
  file'[s] # file[s] =>
    \/ file[s] = Nobody
    \/ Adopting(s) /\ ~direct
    \/ /\ ~Fed /\ ~direct
       /\ \E d \in Conns : Live(d) /\ ~Live(d)' /\ fd[d] = s
    \/ sq # <<>> /\ Head(sq) \in CloseAt(s) /\ sq' = Tail(sq)

\* How one step can change what a descriptor names, and that a conn keeps its own.
LEMMA Moves ==
  ASSUME TypeInv, Own, Emptied, Held, Next, pc' # "torn"
  PROVE  /\ \A s \in Slots : FileMoves(s)
         /\ \A c \in Conns : Live(c) /\ Live(c)' => fd'[c] = fd[c]
<1>1. /\ fd \in [Conns -> Slots \cup {NoSlot}]
      /\ file \in [Slots -> Clients \cup {Nobody}]
  BY DEF TypeInv, TypeOK
<1>2. CASE \/ RingInitFails \/ StopSeen \/ Enter \/ EnterFails \/ EnterReturns
           \/ EnterTimesOut \/ BatchDone \/ Flush \/ FlushReturns
           \/ fa_server_stop \/ \E k \in Clients : Connect(k) \/ Write(k)
  BY <1>2, Zenon, ZenonT(60)
     DEF workerVars, clientVars, ringVars, RingInitFails, StopSeen, Enter,
         EnterFails, EnterReturns, Connect, EnterTimesOut, BatchDone, Flush,
         FlushReturns, HelperRuns, fa_server_stop, Write, FileMoves
<1>3. CASE \/ fa_thread_entry \/ HandleNull \/ HandleAccept \/ HandleRecvFailed
           \/ HandleRequest \/ PrepSqe
  <2>1. UNCHANGED <<file, fd>>
    BY <1>3, Zenon, ZenonT(60) DEF fa_thread_entry, HandleNull, HandleAccept,
       HandleRecvFailed, HandleRequest, PrepSqe
  <2>2. QED
    BY <2>1 DEF FileMoves
<1>4. CASE IssueAccept \/ IssueRecv \/ IssueSend \/ AcceptFails \/ RecvCompletes
  <2>1. UNCHANGED <<file, fd>>
    BY <1>4, Zenon, ZenonT(60)
       DEF IssueAccept, IssueRecv, IssueSend, Issue, AcceptFails, RecvCompletes,
           Completes, workerVars
  <2>2. QED
    BY <2>1 DEF FileMoves
<1>5. CASE IssueClose
  <2>1. /\ sq # <<>> /\ sq' = Tail(sq) /\ Head(sq) \in Sqe /\ fd' = fd
        /\ Head(sq).op = "close" /\ Head(sq).slot \in Slots
        /\ file' = [file EXCEPT ![Head(sq).slot] = Nobody]
    BY <1>5, IssueShape, SqeFacts DEF IssueClose, Release, Issue
  <2>2. Head(sq) \in CloseAt(Head(sq).slot)
    BY <2>1, SlotEntries
  <2>3. QED
    BY <1>1, <2>1, <2>2, Zenon, ZenonT(60) DEF FileMoves
<1>6. CASE AcceptCompletes
  <2>1. fd' = fd
    BY <1>6 DEF AcceptCompletes, Completes, workerVars
  <2>2. PICK s \in Slots : file[s] = Nobody
                           /\ file' = [file EXCEPT ![s] = Head(backlog)]
    BY <1>6, Zenon, ZenonT(60) DEF AcceptCompletes
  <2>3. \A t \in Slots : t # s => file'[t] = file[t]
    BY <1>1, <2>2
  <2>4. QED
    BY <2>1, <2>2, <2>3 DEF FileMoves
<1>7. CASE AdoptConn
  <2>1. pc = "drain" /\ todo # <<>> /\ Head(todo).call = "adopt"
        /\ todo \in HandlerCalls
    BY <1>7 DEF AdoptConn, TypeInv, TypeOK
  <2>2. PICK s \in Slots : todo = <<Adopt(s)>>
    BY <2>1, HandlerCallsShape, CallTuples, CallFields
  <2>3. Head(todo).slot = s
    BY <2>2, CallTuples, CallFields
  <2>4. Adopting(s)
    BY <2>2, AdoptLists, Zenon, ZenonT(60) DEF Adopting
  <2>5. \/ \E c \in Conns : /\ fa_conn_alloc(c) /\ fd' = [fd EXCEPT ![c] = s]
                            /\ file' = file
        \/ CloseUnlessDirect(s) /\ fd' = fd
    BY <1>7, <2>3, Zenon, ZenonT(60) DEF AdoptConn
  <2>6. ASSUME NEW c \in Conns, fa_conn_alloc(c), fd' = [fd EXCEPT ![c] = s],
               file' = file
        PROVE  /\ \A t \in Slots : FileMoves(t)
               /\ \A d \in Conns : Live(d) /\ Live(d)' => fd'[d] = fd[d]
    <3>1. ~Live(c)
      BY <2>1, <2>6, AllocLive
    <3>2. QED
      BY <1>1, <2>6, <3>1 DEF FileMoves
  <2>7. CASE CloseUnlessDirect(s) /\ fd' = fd
    <3>1. IF direct THEN file' = file ELSE file' = [file EXCEPT ![s] = Nobody]
      BY <2>7 DEF CloseUnlessDirect, Release
    <3>2. QED
      BY <1>1, <2>7, <2>4, <3>1 DEF FileMoves
  <2>8. QED
    BY <2>5, <2>6, <2>7
<1>8. CASE Fallback
  <2>1. HelperRuns /\ pc = "drain" /\ fd' = fd /\ heap' = heap
    BY <1>8 DEF Fallback, HelperRuns
  <2>2. CASE Head(todo) = Arm
    <3>1. file' = file
      BY <1>8, <2>2, CallFields DEF Fallback
    <3>2. QED
      BY <2>1, <3>1 DEF FileMoves
  <2>3. CASE Head(todo) # Arm
    <3>1. PICK c \in Conns : /\ fd[c] \in Slots /\ HasConn(todo, c)
                             /\ Head(todo).conn = c /\ Head(todo).call # "arm"
      BY <2>1, <2>3, HelperCall, Zenon
    <3>2. /\ freelist' = <<c>> \o freelist
          /\ IF direct THEN file' = file
                       ELSE file' = [file EXCEPT ![fd[c]] = Nobody]
      BY <1>8, <3>1 DEF Fallback, fa_conn_free, CloseUnlessDirect, Release
    <3>3. Live(c) /\ ~Live(c)'
      BY <2>1, <3>1, <3>2, FreeLive
    <3>4. ~Fed
      BY <1>8, EmptiedNext
    <3>5. QED
      BY <1>1, <2>1, <3>1, <3>2, <3>3, <3>4, Zenon, ZenonT(60) DEF FileMoves
  <2>4. QED
    BY <2>2, <2>3
<1>9. CASE Teardown
  BY <1>9 DEF Teardown
<1>10. QED
  BY <1>2, <1>3, <1>4, <1>5, <1>6, <1>7, <1>8, <1>9, Zenon, ZenonT(60)
     DEF Next, WorkerStep

-----------------------------------------------------------------------------
(* What the groups of actions leave alone.                                  *)

\* The kernel takes an SQE.
LEMMA IssueFrame ==
  ASSUME TypeInv, IssueAccept \/ IssueRecv \/ IssueSend \/ IssueClose
  PROVE  /\ pc \in {"enter", "flush"} /\ sq # <<>> /\ sq' = Tail(sq)
         /\ UNCHANGED <<pc, direct, freelist, heap, fd, buf, todo, backlog,
                        verdicts>>
         /\ sq \in Seq(Sqe) /\ cq \in Seq(Cqe) /\ Head(sq) \in Sqe
         /\ file \in [Slots -> Clients \cup {Nobody}]
<1>1. PICK op : Issue(op)
  BY Zenon, ZenonT(60) DEF IssueAccept, IssueRecv, IssueSend, IssueClose
<1>2. QED
  BY <1>1, IssueShape, Zenon, ZenonT(60) DEF Issue, TypeInv, TypeOK

\* A request completes.
LEMMA CompletesFrame ==
  ASSUME TypeInv, AcceptCompletes \/ AcceptFails \/ RecvCompletes
  PROVE  /\ UNCHANGED <<pc, direct, freelist, heap, fd, todo, sq, inbox,
                        verdicts>>
         /\ pc \notin {"prep", "torn"}
         /\ cq \in Seq(Cqe) /\ file \in [Slots -> Clients \cup {Nobody}]
  BY Zenon, ZenonT(60)
     DEF AcceptCompletes, AcceptFails, RecvCompletes, Completes, workerVars,
         clientVars, TypeInv, TypeOK

\* The steps that touch neither a queue, a conn nor a descriptor.
Control ==
  \/ RingInitFails \/ StopSeen \/ Enter \/ EnterFails \/ EnterReturns
  \/ EnterTimesOut \/ BatchDone \/ Flush \/ FlushReturns \/ fa_server_stop
  \/ \E k \in Clients : Connect(k) \/ Write(k)

\* The loop's own control and the peers touch no conn, queue or descriptor.
LEMMA ControlFrame ==
  ASSUME Control
  PROVE  /\ UNCHANGED <<freelist, heap, fd, buf, direct, sq, cq, todo, recvs,
                        file, inbox, verdicts>>
         /\ pc' = "prep" \/ pc' = "torn" => pc' = pc
         /\ pc = "torn" => pc' = pc
  BY Zenon, ZenonT(60)
     DEF Control, workerVars, clientVars, ringVars, RingInitFails, StopSeen,
         Enter, EnterFails, EnterReturns, Connect, EnterTimesOut, BatchDone,
         Flush, FlushReturns, HelperRuns, fa_server_stop, Write

\* The calls a handler leaves after a step are an answer or a close only if
\* the step is a recv completion's.
LEMMA HandlerStages ==
  ASSUME TypeInv, NEW c \in Conns,
         HandleNull \/ HandleAccept \/ HandleRecvFailed \/ HandleRequest
  PROVE  /\ Answering(c)' => Head(cq) \in GotBy(c) /\ HandleRequest
         /\ Dismissing(c)' => /\ Head(cq).kind = "recv" /\ Head(cq).conn = c
                              /\ HandleRecvFailed \/ HandleRequest
<1>1. Head(cq) \in Cqe
  BY HandlersFrame
<1>2. CASE HandleNull
  <2>1. todo' = <<>>
    BY <1>2, HandlersFrame DEF HandleNull
  <2>2. QED
    BY <2>1, OtherCalls, Zenon DEF Answering, Dismissing
<1>3. CASE HandleAccept
  <2>1. \/ todo' = <<>> \/ todo' = <<Arm>>
        \/ \E s \in Slots : todo' = <<Adopt(s)>> \/ todo' = <<Arm, Adopt(s)>>
    BY <1>1, <1>3, AcceptCalls
  <2>2. QED
    BY <2>1, OtherCalls, Zenon, ZenonT(60) DEF Answering, Dismissing
<1>4. CASE HandleRecvFailed
  <2>1. todo' = CloseCalls(Head(cq).conn) /\ Head(cq).kind = "recv"
    BY <1>4, Zenon DEF HandleRecvFailed, CloseCalls, TakeCqe
  <2>2. QED
    BY <1>4, <2>1, OtherCalls, Zenon, ZenonT(60) DEF Answering, Dismissing
<1>5. CASE HandleRequest
  <2>1. /\ \/ todo' = CloseCalls(Head(cq).conn)
           \/ todo' = AnswerCalls(Head(cq).conn)
        /\ Head(cq).kind = "recv" /\ Head(cq).ok
    BY <1>5, Zenon, ZenonT(60)
       DEF HandleRequest, CloseCalls, AnswerCalls, TakeCqe
  <2>2. Head(cq) \in GotBy(Head(cq).conn)
    BY <1>1, <2>1, Zenon DEF GotBy
  <2>3. QED
    BY <1>5, <2>1, <2>2, OtherCalls, Zenon, ZenonT(60) DEF Answering, Dismissing
<1>6. QED
  BY <1>2, <1>3, <1>4, <1>5

\* A helper's call on a conn and what is left of the list after it.
LEMMA HelperStages ==
  ASSUME TypeInv, HelperRuns, NEW c \in Conns
  PROVE  /\ Rest(todo) # AnswerCalls(c)
         /\ Rest(todo) = CloseCalls(c) <=> Answering(c)
         /\ Head(todo) = OnConn("send", c) => Answering(c)
         /\ Head(todo) = OnConn("close", c) => Dismissing(c)
<1>1. todo \in HandlerCalls /\ todo # <<>> /\ Head(todo).call # "adopt"
  BY DEF TypeInv, TypeOK, HelperRuns
<1>2. CASE todo = <<Arm>> \/ \E s \in Slots : todo = <<Arm, Adopt(s)>>
  <2>1. /\ Rest(todo) = <<>> \/ \E s \in Slots : Rest(todo) = <<Adopt(s)>>
        /\ Head(todo) = Arm
    <3>1. CASE todo = <<Arm>>
      BY <3>1, CallTuples, Zenon, ZenonT(60)
    <3>2. ASSUME NEW s \in Slots, todo = <<Arm, Adopt(s)>>
          PROVE  Rest(todo) = <<Adopt(s)>> /\ Head(todo) = Arm
      BY <3>2, CallTuples, Zenon, ZenonT(60)
    <3>3. QED
      BY <1>2, <3>1, <3>2
  <2>2. Arm # OnConn("send", c) /\ Arm # OnConn("close", c)
    BY DEF Arm, OnConn
  <2>3. QED
    BY <1>2, <2>1, <2>2, OtherCalls, Zenon, ZenonT(60) DEF Answering
<1>3. ASSUME NEW s \in Slots, todo = <<Adopt(s)>>
      PROVE  FALSE
  BY <1>1, <1>3, CallTuples, CallFields
<1>4. ASSUME NEW d \in Conns, todo = <<OnConn("recv", d)>>
      PROVE  /\ Rest(todo) # AnswerCalls(c)
             /\ Rest(todo) = CloseCalls(c) <=> Answering(c)
             /\ Head(todo) # OnConn("send", c) /\ Head(todo) # OnConn("close", c)
  <2>1. Rest(todo) = <<>>
    BY <1>4, CallRests, Zenon
  <2>2. Head(todo) = OnConn("recv", d)
    BY <1>4, CallTuples, Zenon
  <2>3. OnConn("recv", d) # OnConn("send", c) /\ OnConn("recv", d) # OnConn("close", c)
    BY DEF OnConn
  <2>4. todo # AnswerCalls(c)
    BY <1>4, OtherCalls, Zenon
  <2>5. QED
    BY <2>1, <2>2, <2>3, <2>4, OtherCalls, Zenon, ZenonT(60) DEF Answering
<1>5. ASSUME NEW d \in Conns, todo = CloseCalls(d)
      PROVE  /\ Rest(todo) # AnswerCalls(c)
             /\ Rest(todo) = CloseCalls(c) <=> Answering(c)
             /\ Head(todo) # OnConn("send", c)
             /\ Head(todo) = OnConn("close", c) => Dismissing(c)
  <2>1. Rest(todo) = <<>> /\ Head(todo) = OnConn("close", d)
    BY <1>5, CallTuples, Zenon DEF CloseCalls
  <2>2. /\ OnConn("close", d) # OnConn("send", c)
        /\ OnConn("close", d) = OnConn("close", c) => d = c
    BY DEF OnConn
  <2>3. QED
    BY <1>5, <2>1, <2>2, OtherCalls, Zenon, ZenonT(60) DEF Answering, Dismissing
<1>6. ASSUME NEW d \in Conns, todo = AnswerCalls(d)
      PROVE  /\ Rest(todo) # AnswerCalls(c)
             /\ Rest(todo) = CloseCalls(c) <=> Answering(c)
             /\ Head(todo) = OnConn("send", c) => Answering(c)
             /\ Head(todo) # OnConn("close", c)
  <2>1. Rest(todo) = CloseCalls(d) /\ Head(todo) = OnConn("send", d)
    BY <1>6, CallTuples, Zenon DEF CloseCalls, AnswerCalls
  <2>2. /\ OnConn("send", d) # OnConn("close", c)
        /\ OnConn("send", d) = OnConn("send", c) => d = c
    BY DEF OnConn
  <2>3. QED
    BY <1>6, <2>1, <2>2, OtherCalls, Zenon, ZenonT(60) DEF Answering
<1>7. QED
  <2>1. \/ todo = <<Arm>>
        \/ \E s \in Slots : todo = <<Adopt(s)>> \/ todo = <<Arm, Adopt(s)>>
        \/ \E d \in Conns : \/ todo = <<OnConn("recv", d)>>
                            \/ todo = CloseCalls(d) \/ todo = AnswerCalls(d)
    BY <1>1, HandlerCallsShape, Zenon, ZenonT(60) DEF CloseCalls, AnswerCalls
  <2>2. QED
    BY <1>2, <1>3, <1>4, <1>5, <1>6, <2>1, Zenon, ZenonT(60)

-----------------------------------------------------------------------------
(* Every step keeps conns and requests bound to their connection.           *)

\* Every step keeps Bound.
LEMMA BoundNext ==
  TypeInv /\ Own /\ Emptied /\ Held /\ Bound /\ [Next]_vars /\ TypeInv' /\ Own'
    => Bound'
\* The same after a step.
<1>LiveRefsAfter.
    ASSUME TypeInv', Own', pc' # "torn"
    PROVE  Refs'
  <2> USE <1>LiveRefsAfter
  <2>1. (TypeInv /\ Own /\ pc # "torn" => Refs)'
    BY LiveRefs, PTL
  <2>2. QED
    BY <2>1
\* A conn that stays in use keeps its descriptor, and its connection.
<1>Stable.
    ASSUME TypeInv, Own, Emptied, Held, Next, pc # "torn", pc' # "torn",
           NEW c \in Conns, Live(c), Live(c)'
    PROVE  fd[c] \in Slots /\ fd'[c] = fd[c] /\ file'[fd[c]] = file[fd[c]]
  <2> USE <1>Stable
  <2>1. fd[c] \in Slots /\ fd'[c] = fd[c]
    BY LiveRefs, Moves DEF Refs
  <2>2. OneHolder(fd[c]) /\ Owned(fd[c])
    BY <2>1, Zenon, ZenonT(60) DEF Held, Owned
  <2>3. file[fd[c]] # Nobody /\ ~Adopting(fd[c]) /\ ~Closing(fd[c])
    BY <2>2 DEF OneHolder, HeldAt
  <2>4. FileMoves(fd[c])
    BY <2>1, Moves, Zenon, ZenonT(60)
  <2>5. ASSUME NEW d \in Conns, Live(d), ~Live(d)', fd[d] = fd[c] PROVE FALSE
    BY <2>1, <2>2, <2>5 DEF OneHolder
  <2>6. ASSUME sq # <<>>, Head(sq) \in CloseAt(fd[c]) PROVE FALSE
    BY <2>3, <2>6, TailIn, Zenon, ZenonT(60) DEF Closing, TypeInv, TypeOK
  <2>7. QED
    BY <2>1, <2>3, <2>4, <2>5, <2>6, Zenon, ZenonT(60) DEF FileMoves
\* It is enough to look at what the step adds.
<1>BoundAdds.
    ASSUME TypeInv, Own, Emptied, Held, Bound, Next, TypeInv', Own',
           pc # "torn", pc' # "torn",
           \A c \in Conns, s \in Slots :
             In(sq', RecvAt(c, s)) => In(sq, RecvAt(c, s)) \/ fd'[c] = s,
           \A r \in recvs' : r \in recvs \/ r.client = file'[fd'[r.conn]],
           \A c \in Conns :
             In(cq', GotBy(c)) \/ Answering(c)' =>
               \/ (In(cq, GotBy(c)) \/ Answering(c)) /\ buf'[c] = buf[c]
               \/ buf'[c] = file'[fd'[c]]
    PROVE  Bound'
  <2> USE <1>BoundAdds
  <2>1. Refs /\ Refs'
    BY LiveRefs, <1>LiveRefsAfter, Zenon, ZenonT(60)
  <2>2. \A c \in Conns : Live(c) /\ Live(c)' =>
                           fd'[c] = fd[c] /\ file'[fd'[c]] = file[fd[c]]
    BY <1>Stable
  <2>3. ASSUME NEW c \in Conns, NEW s \in Slots, In(sq', RecvAt(c, s))
        PROVE  fd'[c] = s
    BY <2>1, <2>2, <2>3, Zenon, ZenonT(60) DEF Refs, Bound
  <2>4. ASSUME NEW r \in recvs' PROVE file'[fd'[r.conn]] = r.client
    BY <2>1, <2>2, <2>4, Zenon, ZenonT(60) DEF Refs, Bound
  <2>5. ASSUME NEW c \in Conns, In(cq', GotBy(c)) \/ Answering(c)'
        PROVE  buf'[c] = file'[fd'[c]]
    <3>1. Live(c)'
      BY <2>1, <2>5, Zenon, ZenonT(60) DEF Refs
    <3>2. CASE (In(cq, GotBy(c)) \/ Answering(c)) /\ buf'[c] = buf[c]
      <4>1. Live(c) /\ buf[c] = file[fd[c]]
        BY <2>1, <3>2, Zenon, ZenonT(60) DEF Refs, Bound
      <4>2. QED
        BY <2>2, <3>1, <3>2, <4>1, Zenon, ZenonT(60)
    <3>3. QED
      BY <2>5, <3>2, Zenon, ZenonT(60)
  <2>6. QED
    BY <2>3, <2>4, <2>5 DEF Bound
<1> SUFFICES ASSUME TypeInv, Own, Emptied, Held, Bound, [Next]_vars, TypeInv', Own'
             PROVE  Bound'
  OBVIOUS
<1> DEFINE SqAdds == \A c \in Conns, s \in Slots :
                       In(sq', RecvAt(c, s)) => In(sq, RecvAt(c, s)) \/ fd'[c] = s
           KeptRecvs == \A r \in recvs' :
                          r \in recvs \/ r.client = file'[fd'[r.conn]]
           CqAdds == \A c \in Conns :
                       In(cq', GotBy(c)) \/ Answering(c)' =>
                         \/ (In(cq, GotBy(c)) \/ Answering(c)) /\ buf'[c] = buf[c]
                         \/ buf'[c] = file'[fd'[c]]
<1>1. /\ sq \in Seq(Sqe) /\ cq \in Seq(Cqe)
      /\ fd \in [Conns -> Slots \cup {NoSlot}]
      /\ buf \in [Conns -> Clients \cup {Nobody}]
      /\ file \in [Slots -> Clients \cup {Nobody}]
  BY Zenon, ZenonT(60) DEF TypeInv, TypeOK
<1>2. ASSUME Next, pc # "torn", pc' # "torn", SqAdds, KeptRecvs, CqAdds
      PROVE  Bound'
  BY <1>2, <1>BoundAdds, Zenon, ZenonT(60)
<1>3. CASE pc' = "torn"
  BY <1>3, Zenon, ZenonT(60) DEF Bound
<1>4. CASE pc' # "torn" /\ Control
  <2>1. /\ UNCHANGED <<fd, buf, sq, cq, todo, recvs, file>> /\ pc # "torn"
    BY <1>4, ControlFrame
  <2>2. QED
    BY <2>1, <1>4, Zenon, ZenonT(60) DEF Bound, Answering
<1>5. CASE fa_thread_entry
  <2>1. /\ UNCHANGED <<fd, buf, cq, todo, recvs, file>> /\ sq' = <<fa_arm_accept>>
        /\ pc = "prep" /\ pc' = "loop"
    BY <1>5 DEF fa_thread_entry
  <2>2. SqAdds
    <3>1. \A c \in Conns, s \in Slots : fa_arm_accept \notin RecvAt(c, s)
      BY SqeFacts DEF RecvAt
    <3>2. QED
      BY <2>1, <3>1, ShortIn
  <2>3. QED
    BY <2>1, <2>2, Zenon, ZenonT(60) DEF Bound, Answering
<1>6. CASE HandleNull \/ HandleAccept \/ HandleRecvFailed \/ HandleRequest
  <2>1. /\ pc = "drain" /\ pc' = pc /\ cq # <<>> /\ cq' = Tail(cq)
        /\ UNCHANGED <<fd, buf, sq, recvs, file>>
    BY <1>6, HandlersFrame
  <2>2. CqAdds
    <3>1. \A c \in Conns : In(cq', GotBy(c)) => In(cq, GotBy(c))
      BY <1>1, <2>1, TailIn
    <3>2. \A c \in Conns : Head(cq) \in GotBy(c) => In(cq, GotBy(c))
      BY <1>1, <2>1, TailIn
    <3>3. \A c \in Conns : Answering(c)' => Head(cq) \in GotBy(c)
      BY <1>6, HandlerStages, Zenon, ZenonT(60)
    <3>4. QED
      BY <2>1, <3>1, <3>2, <3>3, Zenon, ZenonT(60)
  <2>3. SqAdds /\ KeptRecvs
    BY <2>1
  <2>4. Next
    BY <1>6 DEF Next, WorkerStep
  <2>5. QED
    BY <1>2, <2>1, <2>2, <2>3, <2>4, Zenon, ZenonT(60)
<1>7. CASE AdoptConn
  <2>1. /\ pc = "drain" /\ pc' = pc /\ UNCHANGED <<buf, sq, cq, recvs>>
    BY <1>7 DEF AdoptConn
  <2>2. todo' = <<>> \/ \E c \in Conns : todo' = <<OnConn("recv", c)>>
    BY <1>7, Zenon, ZenonT(60) DEF AdoptConn
  <2>3. \A c \in Conns : ~Answering(c)'
    BY <2>2, OtherCalls, Zenon, ZenonT(60) DEF Answering
  <2>4. SqAdds /\ KeptRecvs /\ CqAdds
    BY <2>1, <2>3
  <2>5. Next
    BY <1>7 DEF Next, WorkerStep
  <2>6. QED
    BY <1>2, <2>1, <2>4, <2>5, Zenon, ZenonT(60)
<1>8. CASE PrepSqe
  <2> DEFINE e == Prep(Head(todo))
  <2>1. /\ pc = "drain" /\ pc' = pc /\ UNCHANGED <<fd, buf, cq, recvs, file>>
        /\ todo' = Rest(todo) /\ HelperRuns
    BY <1>8 DEF PrepSqe, HelperRuns, Rest
  <2>2. e \in Sqe /\ sq' = Append(sq, e)
    BY <1>8, TypePrepSqe, Zenon, ZenonT(60)
  <2>3. e.op = "recv" => e.slot = fd[e.conn]
    <3>1. Head(todo).call \in {"arm", "recv", "send", "close"}
      BY <2>1, HelperCall, Zenon
    <3>2. QED
      BY <3>1 DEF Prep, fa_arm_accept, fa_submit_recv, fa_submit_reply,
                  fa_submit_close
  <2>4. \A c \in Conns : ~Answering(c)'
    BY <2>1, HelperStages, Zenon DEF Answering
  <2> HIDE DEF e
  <2>5. \A c \in Conns, s \in Slots : e \in RecvAt(c, s) => fd'[c] = s
    BY <2>1, <2>3, Zenon, ZenonT(60) DEF RecvAt
  <2>6. SqAdds /\ KeptRecvs /\ CqAdds
    BY <1>1, <2>1, <2>2, <2>4, <2>5, AppendIn
  <2>7. Next
    BY <1>8 DEF Next, WorkerStep
  <2>8. QED
    BY <1>2, <2>1, <2>6, <2>7, Zenon, ZenonT(60)
<1>9. CASE Fallback
  <2>1. /\ pc = "drain" /\ pc' = pc /\ UNCHANGED <<fd, buf, cq, recvs, sq>>
        /\ todo' = Rest(todo) \/ todo' = <<>>
        /\ HelperRuns
    BY <1>9, Zenon, ZenonT(60) DEF Fallback, HelperRuns, Rest
  <2>2. \A c \in Conns : ~Answering(c)'
    BY <2>1, HelperStages, OtherCalls, Zenon, ZenonT(60) DEF Answering
  <2>3. SqAdds /\ KeptRecvs /\ CqAdds
    BY <2>1, <2>2, Zenon, ZenonT(60)
  <2>4. Next
    BY <1>9 DEF Next, WorkerStep
  <2>5. QED
    BY <1>2, <2>1, <2>3, <2>4, Zenon, ZenonT(60)
<1>10. CASE IssueAccept \/ IssueRecv \/ IssueSend \/ IssueClose
  <2>1. /\ pc \in {"enter", "flush"} /\ pc' = pc /\ UNCHANGED <<fd, buf, todo>>
        /\ sq # <<>> /\ sq' = Tail(sq) /\ Head(sq) \in Sqe
    BY <1>10, IssueFrame
  <2>2. SqAdds
    BY <1>1, <2>1, TailIn
  <2>3. CqAdds
    <3>1. cq' = cq \/ \E e \in Cqe : ~e.ok /\ cq' = Append(cq, e)
      BY <1>10, <2>1, IssuePosts
    <3>2. \A e \in Cqe, c \in Conns : ~e.ok => e \notin GotBy(c)
      BY DEF GotBy
    <3>3. ASSUME NEW e \in Cqe, ~e.ok, cq' = Append(cq, e)
          PROVE  \A c \in Conns : In(cq', GotBy(c)) => In(cq, GotBy(c))
      BY <1>1, <3>2, <3>3, AppendIn
    <3>4. \A c \in Conns : In(cq', GotBy(c)) => In(cq, GotBy(c))
      BY <3>1, <3>3
    <3>5. QED
      BY <2>1, <3>4, Zenon, ZenonT(60) DEF Answering
  <2>4. KeptRecvs
    <3>1. CASE IssueAccept \/ IssueSend \/ IssueClose
      <4>1. recvs' = recvs
        BY <3>1, Zenon DEF IssueAccept, IssueSend, IssueClose
      <4>2. QED
        BY <4>1
    <3>2. CASE IssueRecv
      <4> DEFINE c == Head(sq).conn
                 s == Head(sq).slot
      <4>1. /\ Head(sq).op = "recv" /\ file' = file
            /\ recvs' = recvs \/ recvs' = recvs \cup {[conn |-> c, client |-> file[s]]}
        BY <3>2, Zenon, ZenonT(60) DEF IssueRecv, Issue
      <4>2. c \in Conns /\ s \in Slots
        BY <2>1, <4>1, SqeFacts, Zenon, ZenonT(60)
      <4>3. In(sq, RecvAt(c, s))
        <5>1. Head(sq) \in RecvAt(c, s)
          BY <2>1, <4>1 DEF RecvAt
        <5> HIDE DEF c, s
        <5>2. QED
          BY <1>1, <2>1, <5>1, TailIn, Zenon, ZenonT(60)
      <4> HIDE DEF c, s
      <4>4. fd[c] = s
        BY <2>1, <4>2, <4>3 DEF Bound
      <4>5. QED
        BY <2>1, <4>1, <4>4
    <3>3. QED
      BY <1>10, <3>1, <3>2
  <2>5. Next
    BY <1>10 DEF Next, WorkerStep
  <2>6. QED
    BY <1>2, <2>1, <2>2, <2>3, <2>4, <2>5, Zenon, ZenonT(60)
<1>11. CASE AcceptCompletes \/ AcceptFails
  <2>1. /\ UNCHANGED <<pc, fd, todo, sq>> /\ pc # "torn"
    BY <1>11, CompletesFrame
  <2>2. UNCHANGED <<buf, recvs>>
    BY <1>11, Zenon DEF AcceptCompletes, AcceptFails
  <2>3. PICK e \in Cqe : e.kind = "accept" /\ cq' = Append(cq, e)
    <3>1. CASE AcceptCompletes
      <4>1. \E s \in Slots, more \in BOOLEAN : cq' = Append(cq, AcceptCqe(s, more))
        BY <3>1 DEF AcceptCompletes
      <4>2. QED
        BY <4>1, CqeFacts
    <3>2. CASE AcceptFails
      BY <3>2, CqeFacts, Zenon DEF AcceptFails
    <3>3. QED
      BY <1>11, <3>1, <3>2
  <2>4. \A c \in Conns : In(cq', GotBy(c)) => In(cq, GotBy(c))
    <3>1. \A c \in Conns : e \notin GotBy(c)
      BY <2>3 DEF GotBy
    <3>2. QED
      BY <1>1, <2>3, <3>1, AppendIn
  <2>5. SqAdds /\ KeptRecvs /\ CqAdds
    BY <2>1, <2>2, <2>4, Zenon, ZenonT(60) DEF Answering
  <2>6. Next
    BY <1>11 DEF Next
  <2>7. QED
    BY <1>2, <2>1, <2>5, <2>6, Zenon, ZenonT(60)
<1>12. CASE RecvCompletes
  <2>1. /\ UNCHANGED <<pc, fd, todo, sq>> /\ pc # "torn"
    BY <1>12, CompletesFrame
  <2>2. PICK r \in recvs :
          /\ recvs' = recvs \ {r}
          /\ cq' = Append(cq, RecvCqe(r.conn, peer[r.client] = "request"))
          /\ buf' = IF peer[r.client] = "request"
                    THEN [buf EXCEPT ![r.conn] = r.client] ELSE buf
    BY <1>12, Zenon, ZenonT(60) DEF RecvCompletes
  <2>3. file' = file
    BY <1>12, Zenon, ZenonT(60) DEF RecvCompletes
  <2> DEFINE got == peer[r.client] = "request"
  <2>4. /\ r.conn \in Conns /\ got \in BOOLEAN
        /\ cq' = Append(cq, RecvCqe(r.conn, got))
        /\ buf' = IF got THEN [buf EXCEPT ![r.conn] = r.client] ELSE buf
    BY <2>2, Zenon, ZenonT(60) DEF TypeInv, TypeOK, Recv
  <2> HIDE DEF got
  <2>5. PICK e \in Cqe : e.conn = r.conn /\ e.ok = got /\ cq' = Append(cq, e)
    BY <2>4, CqeFacts, Zenon, ZenonT(60)
  <2>6. file[fd[r.conn]] = r.client
    BY <2>1, Zenon, ZenonT(60) DEF Bound
  <2>7. \A c \in Conns : In(cq', GotBy(c)) => In(cq, GotBy(c)) \/ (c = r.conn /\ got)
    <3>1. \A c \in Conns : e \in GotBy(c) => c = r.conn /\ got
      BY <2>5 DEF GotBy
    <3>2. QED
      BY <1>1, <2>5, <3>1, AppendIn, Zenon, ZenonT(60)
  <2>8. CqAdds
    BY <1>1, <2>1, <2>3, <2>4, <2>6, <2>7, Zenon, ZenonT(60) DEF Answering
  <2>9. SqAdds /\ KeptRecvs
    BY <2>1, <2>2, Zenon, ZenonT(60)
  <2>10. Next
    BY <1>12 DEF Next
  <2>11. QED
    BY <1>2, <2>1, <2>8, <2>9, <2>10, Zenon, ZenonT(60)
<1>13. CASE Teardown \/ UNCHANGED vars
  BY <1>3, <1>13, Zenon, ZenonT(60) DEF Teardown, Bound, vars, Answering
<1>14. QED
  BY <1>3, <1>4, <1>5, <1>6, <1>7, <1>8, <1>9, <1>10, <1>11, <1>12, <1>13, Zenon, ZenonT(60)
     DEF Next, WorkerStep, Control

-----------------------------------------------------------------------------
(* Every step keeps the queued sends fitting.                               *)

\* Every step keeps Sends.
LEMMA SendsNext ==
  TypeInv /\ Own /\ Emptied /\ Held /\ Bound /\ Sends /\ [Next]_vars => Sends'
\* The order after an append, and without the head.
<1>AppendBefore.
    ASSUME NEW S, NEW q \in Seq(S), NEW e \in S, NEW X, NEW Y, Before(q, X, Y),
           e \in X => ~In(q, Y) /\ e \notin Y
    PROVE  Before(Append(q, e), X, Y)
  <2> USE <1>AppendBefore
  <2>1. /\ DOMAIN Append(q, e) = 1..(Len(q) + 1) /\ DOMAIN q = 1..Len(q)
        /\ Len(q) \in Nat /\ Append(q, e)[Len(q) + 1] = e
        /\ \A i \in DOMAIN q : Append(q, e)[i] = q[i]
    OBVIOUS
  <2>2. ASSUME NEW i \in DOMAIN Append(q, e), NEW j \in DOMAIN Append(q, e),
               Append(q, e)[i] \in X, Append(q, e)[j] \in Y
        PROVE  i < j
    <3>1. CASE i \in DOMAIN q /\ j \in DOMAIN q
      BY <2>1, <2>2, <3>1 DEF Before
    <3>2. CASE i \in DOMAIN q /\ j = Len(q) + 1
      BY <2>1, <3>2
    <3>3. CASE i = Len(q) + 1
      BY <2>1, <2>2, <3>3 DEF In
    <3>4. QED
      BY <2>1, <3>1, <3>2, <3>3
  <2>3. QED
    BY <2>2 DEF Before
\* The descriptor of a send that stays queued keeps its connection.
<1>SendFile.
    ASSUME TypeInv, Own, Emptied, Held, Next, pc # "torn", pc' # "torn",
           Fed \/ direct, NEW s \in Slots, SendFits(s), Sending(s), Sending(s)'
    PROVE  file'[s] = file[s]
  <2> USE <1>SendFile
  <2>1. FileMoves(s)
    BY Moves, Zenon, ZenonT(60)
  <2>2. file[s] # Nobody
    BY NamingEntries, WorkerAssumption DEF SendFits, Sending
  <2>3. OneHolder(s)
    BY DEF Held
  <2>4. ~(Adopting(s) /\ ~direct)
    BY <2>3, Zenon, ZenonT(60) DEF SendFits, OneHolder
  <2>5. ASSUME sq # <<>>, Head(sq) \in CloseAt(s), sq' = Tail(sq)
        PROVE  FALSE
    <3>1. ~In(Tail(sq), SendAt(s))
      BY <2>5, TailBefore DEF SendFits, TypeInv, TypeOK
    <3>2. QED
      BY <2>5, <3>1 DEF Sending
  <2>6. QED
    BY <2>1, <2>2, <2>4, <2>5, Zenon, ZenonT(60) DEF FileMoves
\* Steps that queue nothing and free no conn.
<1>SendsSame.
    ASSUME TypeInv, Own, Emptied, Held, Sends, Next, pc # "torn", pc' # "torn",
           direct' = direct, sq' = sq,
           Fed => \A c \in Conns : Live(c) => Live(c)'
    PROVE  Sends'
  <2> USE <1>SendsSame
  <2> SUFFICES ASSUME Fed \/ direct, NEW s \in Slots
               PROVE  SendFits(s)'
    BY DEF Sends
  <2>1. SendFits(s)
    BY DEF Sends
  <2>2. \A k \in Clients : In(sq', SendTo(s, k)) => file'[s] = k
    <3>1. ASSUME NEW k \in Clients, In(sq, SendTo(s, k)) PROVE file'[s] = k
      <4>1. Sending(s) /\ Sending(s)'
        BY <3>1, NamingEntries DEF Sending
      <4>2. QED
        BY <2>1, <3>1, <4>1, <1>SendFile, Zenon, ZenonT(60) DEF SendFits
    <3>2. QED
      BY <3>1
  <2>3. ASSUME Sending(s)', Fed PROVE Owned(s)' \/ Closing(s)'
    <3>1. Owned(s) => Owned(s)'
      BY <2>3, Moves, Zenon, ZenonT(60) DEF Owned
    <3>2. QED
      BY <2>1, <2>3, <3>1 DEF SendFits, Sending, Closing
  <2>4. QED
    BY <2>1, <2>2, <2>3, Zenon, ZenonT(60) DEF SendFits
\* The kernel consumes the SQEs in order.
<1>SendsIssue.
    ASSUME TypeInv, Own, Emptied, Held, Sends,
           IssueAccept \/ IssueRecv \/ IssueSend \/ IssueClose
    PROVE  Sends'
  <2> USE <1>SendsIssue
  <2>1. /\ pc # "torn" /\ sq \in Seq(Sqe) /\ Head(sq) \in Sqe
        /\ UNCHANGED <<pc, direct, freelist, heap, fd>>
        /\ sq # <<>> /\ sq' = Tail(sq)
    BY IssueFrame
  <2>2. Next
    BY DEF Next, WorkerStep
  <2> SUFFICES ASSUME Fed \/ direct, NEW s \in Slots
               PROVE  SendFits(s)'
    BY <2>1 DEF Sends
  <2>3. SendFits(s)
    BY <2>1 DEF Sends
  <2>4. /\ Sending(s)' => Sending(s)
        /\ \A k \in Clients : In(sq', SendTo(s, k)) => In(sq, SendTo(s, k))
    BY <2>1, TailIn DEF Sending
  <2>5. \A k \in Clients : In(sq', SendTo(s, k)) => file'[s] = k
    <3>1. ASSUME NEW k \in Clients, In(sq', SendTo(s, k)) PROVE file'[s] = k
      <4>1. Sending(s)'
        BY <3>1, NamingEntries DEF Sending
      <4>2. QED
        BY <2>1, <2>2, <2>3, <2>4, <3>1, <4>1, <1>SendFile, Zenon, ZenonT(60)
           DEF SendFits
    <3>2. QED
      BY <3>1
  <2>6. ASSUME Sending(s)', Fed PROVE Owned(s)' \/ Closing(s)'
    <3>1. Owned(s) => Owned(s)'
      BY <2>1 DEF Owned, Live
    <3>2. Closing(s) => Closing(s)'
      <4>1. Head(sq) \notin CloseAt(s)
        <5>1. Head(sq) \in CloseAt(s) => ~In(Tail(sq), SendAt(s))
          BY <2>1, <2>3, TailBefore, Zenon, ZenonT(60) DEF SendFits
        <5>2. QED
          BY <2>1, <2>6, <5>1, Zenon, ZenonT(60) DEF Sending
      <4>2. QED
        BY <2>1, <4>1, TailIn, Zenon, ZenonT(60) DEF Closing
    <3>3. QED
      BY <2>3, <2>4, <2>6, <3>1, <3>2, Zenon, ZenonT(60) DEF SendFits
  <2>7. Before(sq', SendAt(s), CloseAt(s))
    BY <2>1, <2>3, TailBefore DEF SendFits
  <2>8. QED
    BY <2>5, <2>6, <2>7, Zenon, ZenonT(60) DEF SendFits
\* A helper queues an SQE: the reply before the close of the same conn.
<1>SendsPrep.
    ASSUME TypeInv, Own, Emptied, Held, Bound, Sends, PrepSqe
    PROVE  Sends'
  <2> USE <1>SendsPrep
  <2> DEFINE e == Prep(Head(todo))
  <2>1. /\ UNCHANGED <<pc, heap, fd, direct, file>> /\ HelperRuns /\ pc = "drain"
        /\ fd \in [Conns -> Slots \cup {NoSlot}] /\ sq \in Seq(Sqe)
    BY Zenon, ZenonT(60) DEF PrepSqe, HelperRuns, TypeInv, TypeOK
  <2>2. e \in Sqe /\ sq' = Append(sq, e)
    BY TypePrepSqe
  <2>3. Refs
    BY <2>1, LiveRefs
  <2>4. ASSUME NEW s \in Slots, Fed \/ direct
        PROVE  SendFits(s) /\ OneHolder(s)
    BY <2>1, <2>4 DEF Sends, Held
  <2>5. CASE Head(todo).call = "arm" \/ Head(todo).call = "recv"
    <3>1. e.op # "send" /\ e.op # "close" /\ freelist' = freelist
      BY <2>5, Zenon, ZenonT(60) DEF Prep, fa_arm_accept, fa_submit_recv, PrepSqe
    <3> HIDE DEF e
    <3>2. ASSUME NEW s \in Slots, Fed \/ direct PROVE SendFits(s)'
      <4>1. /\ e \notin SendAt(s) /\ e \notin CloseAt(s)
            /\ \A k : e \notin SendTo(s, k)
        BY <2>2, <3>1 DEF SendAt, CloseAt, SendTo
      <4>2. /\ \A k \in Clients : In(sq', SendTo(s, k)) <=> In(sq, SendTo(s, k))
            /\ Sending(s)' <=> Sending(s)
            /\ Closing(s)' <=> Closing(s)
        BY <2>1, <2>2, <4>1, AppendIn DEF Sending, Closing
      <4>3. Owned(s)' <=> Owned(s)
        BY <2>1, <3>1 DEF Owned, Live
      <4>4. Before(sq', SendAt(s), CloseAt(s))
        BY <2>1, <2>2, <2>4, <3>2, <4>1, <1>AppendBefore, Zenon, ZenonT(60)
           DEF SendFits
      <4>5. QED
        BY <2>1, <2>4, <3>2, <4>2, <4>3, <4>4, Zenon, ZenonT(60) DEF SendFits
    <3>3. QED
      BY <2>1, <3>2, Zenon, ZenonT(60) DEF Sends
  <2>6. CASE Head(todo).call = "send"
    <3>1. PICK c \in Conns : Head(todo) = OnConn("send", c)
      BY <2>1, <2>6, HelperCall, Zenon
    <3>2. Answering(c) /\ Head(todo).conn = c
      <4>1. Answering(c)
        BY <2>1, <3>1, HelperStages
      <4>2. Head(todo).conn = c
        BY <3>1, CallFields
      <4>3. QED
        BY <4>1, <4>2
    <3>3. /\ e.op = "send" /\ e.slot = fd[c] /\ e.for = buf[c]
          /\ freelist' = freelist
      BY <2>6, <3>2 DEF Prep, fa_submit_reply, PrepSqe
    <3>4. Live(c) /\ fd[c] \in Slots /\ buf[c] = file[fd[c]]
      BY <2>1, <2>3, <3>2, Zenon, ZenonT(60) DEF Refs, Bound
    <3> HIDE DEF e
    <3>5. ASSUME NEW s \in Slots, Fed \/ direct PROVE SendFits(s)'
      <4>1. /\ e \in SendAt(s) <=> s = fd[c]
            /\ e \notin CloseAt(s)
            /\ \A k : e \in SendTo(s, k) <=> s = fd[c] /\ k = buf[c]
        BY <2>2, <3>3, Zenon, ZenonT(60) DEF SendAt, CloseAt, SendTo
      <4>2. /\ \A k \in Clients : In(sq', SendTo(s, k)) <=>
                  In(sq, SendTo(s, k)) \/ (s = fd[c] /\ k = buf[c])
            /\ Sending(s)' <=> Sending(s) \/ s = fd[c]
            /\ Closing(s)' <=> Closing(s)
        BY <2>1, <2>2, <4>1, AppendIn DEF Sending, Closing
      <4>3. (Owned(s)' <=> Owned(s)) /\ (s = fd[c] => Owned(s))
        BY <2>1, <3>3, <3>4, Zenon, ZenonT(60) DEF Owned, Live
      <4>4. Before(sq', SendAt(s), CloseAt(s))
        <5>1. s = fd[c] => ~In(sq, CloseAt(s))
          BY <2>4, <3>5, <4>3, Zenon, ZenonT(60) DEF OneHolder, Closing
        <5>2. QED
          BY <2>1, <2>2, <2>4, <3>5, <4>1, <5>1, <1>AppendBefore, Zenon, ZenonT(60)
             DEF SendFits
      <4>5. QED
        BY <2>1, <2>4, <3>4, <3>5, <4>2, <4>3, <4>4, Zenon, ZenonT(60) DEF SendFits
    <3>6. QED
      BY <2>1, <3>5 DEF Sends
  <2>7. CASE Head(todo).call = "close"
    <3>1. PICK c \in Conns : /\ fd[c] \in Slots /\ HasConn(todo, c)
                             /\ Head(todo).conn = c
      BY <2>1, <2>7, HelperCall, Zenon
    <3>2. e.op = "close" /\ e.slot = fd[c] /\ freelist' = <<c>> \o freelist
      BY <2>7, <3>1, Zenon, ZenonT(60)
         DEF Prep, fa_submit_close, PrepSqe, fa_conn_free
    <3>3. \A d \in Conns : d # c => (Live(d)' <=> Live(d))
      BY <2>1, <3>1, <3>2, FreeLive, Zenon, ZenonT(60)
    <3> HIDE DEF e
    <3>4. ASSUME NEW s \in Slots, Fed \/ direct PROVE SendFits(s)'
      <4>1. /\ e \notin SendAt(s) /\ \A k : e \notin SendTo(s, k)
            /\ e \in CloseAt(s) <=> s = fd[c]
        BY <2>2, <3>2, Zenon, ZenonT(60) DEF SendAt, CloseAt, SendTo
      <4>2. /\ \A k \in Clients : In(sq', SendTo(s, k)) <=> In(sq, SendTo(s, k))
            /\ Sending(s)' <=> Sending(s)
            /\ Closing(s)' <=> Closing(s) \/ s = fd[c]
        BY <2>1, <2>2, <4>1, AppendIn DEF Sending, Closing
      <4>3. Owned(s) => Owned(s)' \/ s = fd[c]
        BY <2>1, <3>3, Zenon, ZenonT(60) DEF Owned
      <4>4. Before(sq', SendAt(s), CloseAt(s))
        BY <2>1, <2>2, <2>4, <3>4, <4>1, <1>AppendBefore, Zenon, ZenonT(60)
           DEF SendFits
      <4>5. QED
        BY <2>1, <2>4, <3>4, <4>2, <4>3, <4>4, Zenon, ZenonT(60) DEF SendFits
    <3>5. QED
      BY <2>1, <3>4 DEF Sends
  <2>8. QED
    <3>1. Head(todo).call \in {"arm", "recv", "send", "close"}
      BY <2>1, HelperCall, Zenon
    <3>2. QED
      BY <2>5, <2>6, <2>7, <3>1
<1> SUFFICES ASSUME TypeInv, Own, Emptied, Held, Bound, Sends, [Next]_vars PROVE Sends'
  OBVIOUS
<1>1. CASE pc' = "torn"
  BY <1>1 DEF Sends
<1>2. CASE Control /\ pc' # "torn"
  <2>1. UNCHANGED <<freelist, heap, direct, sq>> /\ pc # "torn"
    BY <1>2, ControlFrame
  <2>2. Next
    BY <1>2 DEF Next, WorkerStep, Control
  <2>3. QED
    BY <1>2, <2>1, <2>2, <1>SendsSame, Zenon, ZenonT(60) DEF Live
<1>3. CASE fa_thread_entry
  <2>1. sq' = <<fa_arm_accept>>
    BY <1>3 DEF fa_thread_entry
  <2>2. ASSUME NEW s \in Slots PROVE SendFits(s)'
    <3>1. /\ fa_arm_accept \notin SendAt(s)
          /\ \A k : fa_arm_accept \notin SendTo(s, k)
      BY SqeFacts DEF SendAt, SendTo
    <3>2. ~Sending(s)' /\ \A k : ~In(sq', SendTo(s, k))
      BY <2>1, <3>1, ShortIn, Zenon, ZenonT(60) DEF Sending
    <3>3. Before(sq', SendAt(s), CloseAt(s))
      BY <3>2 DEF Before, Sending, In
    <3>4. QED
      BY <3>2, <3>3 DEF SendFits
  <2>3. QED
    BY <2>2 DEF Sends
<1>4. CASE HandleNull \/ HandleAccept \/ HandleRecvFailed \/ HandleRequest
  <2>1. UNCHANGED <<pc, freelist, heap, direct, sq>> /\ pc = "drain"
    BY <1>4, HandlersFrame
  <2>2. Next
    BY <1>4 DEF Next, WorkerStep
  <2>3. QED
    BY <2>1, <2>2, <1>SendsSame, Zenon, ZenonT(60) DEF Live
<1>5. CASE AdoptConn
  <2>1. UNCHANGED <<pc, direct, sq>> /\ pc = "drain"
    BY <1>5 DEF AdoptConn
  <2>2. \A c \in Conns : Live(c) => Live(c)'
    <3>1. \/ \E c \in Conns : fa_conn_alloc(c)
          \/ UNCHANGED <<freelist, heap>>
      BY <1>5, Zenon, ZenonT(60) DEF AdoptConn
    <3>2. ASSUME NEW d \in Conns, fa_conn_alloc(d)
          PROVE  \A c \in Conns : Live(c) => Live(c)'
      BY <2>1, <3>2, AllocLive, Zenon, ZenonT(60)
    <3>3. QED
      BY <3>1, <3>2 DEF Live
  <2>3. Next
    BY <1>5 DEF Next, WorkerStep
  <2>4. QED
    BY <2>1, <2>2, <2>3, <1>SendsSame, Zenon, ZenonT(60)
<1>6. CASE Fallback
  <2>1. UNCHANGED <<pc, direct, sq>> /\ pc = "drain"
    BY <1>6 DEF Fallback, HelperRuns
  <2>2. ~Fed
    BY <1>6, EmptiedNext
  <2>3. Next
    BY <1>6 DEF Next, WorkerStep
  <2>4. QED
    BY <2>1, <2>2, <2>3, <1>SendsSame, Zenon, ZenonT(60)
<1>7. CASE AcceptCompletes \/ AcceptFails \/ RecvCompletes
  <2>1. UNCHANGED <<pc, freelist, heap, direct, sq>> /\ pc # "torn"
    BY <1>7, CompletesFrame
  <2>2. Next
    BY <1>7 DEF Next
  <2>3. QED
    BY <2>1, <2>2, <1>SendsSame, Zenon, ZenonT(60) DEF Live
<1>8. CASE Teardown
  BY <1>1, <1>8 DEF Teardown
<1>9. CASE UNCHANGED vars
  BY <1>9, Zenon, ZenonT(60) DEF vars, Sends, SendFits, Sending, Closing, Owned, Live
<1>10. QED
  BY <1>1, <1>2, <1>3, <1>4, <1>5, <1>6, <1>7, <1>8, <1>9, <1>SendsPrep,
     <1>SendsIssue, Zenon, ZenonT(60)
     DEF Next, WorkerStep, Control

\* A step delivers to the peer of the request.
LEMMA DeliveredNext ==
  ASSUME TypeInv, Own, Sends, Delivered, [Next]_vars
  PROVE  Delivered'
<1>1. CASE IssueSend /\ (Fed \/ direct)
  <2> DEFINE e == Head(sq)
             k == file[e.slot]
  <2>1. /\ sq # <<>> /\ e \in Sqe /\ e.op = "send" /\ pc # "torn"
        /\ sq \in Seq(Sqe) /\ UNCHANGED <<pc, direct>>
    BY <1>1, IssueFrame, Zenon, ZenonT(60) DEF IssueSend, Issue
  <2>2. e.slot \in Slots /\ e.for \in Clients
    BY <2>1, SqeFacts
  <2>3. k = e.for
    <3>1. e \in SendTo(e.slot, e.for)
      BY <2>1, Zenon, ZenonT(60) DEF SendTo
    <3>2. In(sq, SendTo(e.slot, e.for))
      BY <2>1, <3>1, TailIn
    <3>3. QED
      BY <1>1, <2>1, <2>2, <3>2, Zenon, ZenonT(60) DEF Sends, SendFits
  <2>4. \/ inbox' = inbox
        \/ \E m \in Message : m.for = e.for /\ inbox' = [inbox EXCEPT ![k] = Append(@, m)]
    <3>1. BytesOf(e) \in Clients \cup {Nobody}
      BY <2>2 DEF BytesOf, TypeInv, TypeOK
    <3>2. \A w \in BOOLEAN :
            /\ [of |-> BytesOf(e), for |-> e.for, whole |-> w] \in Message
            /\ [of |-> BytesOf(e), for |-> e.for, whole |-> w].for = e.for
      BY <2>2, <3>1 DEF Message
    <3>3. \/ inbox' = inbox
          \/ \E w \in BOOLEAN : inbox' = [inbox EXCEPT ![k] =
               Append(@, [of |-> BytesOf(e), for |-> e.for, whole |-> w])]
      BY <1>1, Zenon, ZenonT(60) DEF IssueSend
    <3>4. QED
      BY <3>2, <3>3, Zenon, ZenonT(60)
  <2>5. RepliesReachTheirPeer
    BY <1>1, Zenon, ZenonT(60) DEF Delivered
  <2>6. inbox \in [Clients -> Seq(Message)]
    BY DEF TypeInv, TypeOK
  <2> HIDE DEF e, k
  <2>7. ASSUME NEW m \in Message, m.for = k, inbox' = [inbox EXCEPT ![k] = Append(@, m)]
        PROVE  RepliesReachTheirPeer'
    <3>1. ASSUME NEW x \in Clients, NEW i \in DOMAIN inbox'[x]
          PROVE  inbox'[x][i].for = x
      <4>1. CASE x # k
        BY <2>5, <2>6, <2>7, <3>1, <4>1 DEF RepliesReachTheirPeer
      <4>2. CASE x = k
        <5>1. inbox'[x] = Append(inbox[x], m) /\ inbox[x] \in Seq(Message)
          BY <2>6, <2>7, <4>2
        <5>2. (i \in DOMAIN inbox[x] /\ inbox'[x][i] = inbox[x][i]) \/ inbox'[x][i] = m
          BY <3>1, <5>1, AppendEntries
        <5>3. QED
          <6>1. i \in DOMAIN inbox[x] => inbox[x][i].for = x
            BY <2>5, <3>1, Zenon, ZenonT(60) DEF RepliesReachTheirPeer
          <6>2. QED
            BY <2>7, <4>2, <5>2, <6>1, Zenon, ZenonT(60)
      <4>3. QED
        BY <4>1, <4>2, Zenon, ZenonT(60)
    <3>2. QED
      BY <3>1 DEF RepliesReachTheirPeer
  <2>8. RepliesReachTheirPeer'
    BY <2>3, <2>4, <2>5, <2>7 DEF RepliesReachTheirPeer
  <2>9. QED
    BY <2>8 DEF Delivered
<1>2. CASE IssueSend /\ ~(Fed \/ direct)
  BY <1>2, IssueFrame DEF Delivered
<1>3. CASE ~IssueSend
  <2>1. inbox' = inbox
    BY <1>3, HandlersFrame, ControlFrame, CompletesFrame, Zenon, ZenonT(60)
       DEF Next, WorkerStep, Control, fa_thread_entry, AdoptConn, PrepSqe,
           Fallback, IssueAccept, IssueRecv, IssueClose, Teardown, vars
  <2>2. direct' \/ pc' = "prep" => direct \/ pc = "prep"
    <3>1. CASE fa_thread_entry
      BY <3>1 DEF fa_thread_entry
    <3>2. CASE ~fa_thread_entry
      <4>1. direct' = direct
        BY <1>3, <3>2, HandlersFrame, ControlFrame, CompletesFrame, IssueFrame,
           Zenon, ZenonT(60)
           DEF Next, WorkerStep, Control, AdoptConn, PrepSqe, Fallback,
               Teardown, vars
      <4>2. pc' = "prep" => pc = "prep"
        <5>1. CASE Control
          BY <5>1, ControlFrame
        <5>2. CASE ~Control
          BY <1>3, <3>2, <5>2, HandlersFrame, CompletesFrame, IssueFrame, Zenon, ZenonT(60)
             DEF Next, WorkerStep, Control, AdoptConn, PrepSqe, Fallback,
                 Teardown, vars
        <5>3. QED
          BY <5>1, <5>2
      <4>3. QED
        BY <4>1, <4>2
    <3>3. QED
      BY <3>1, <3>2
  <2>3. QED
    BY <2>1, <2>2 DEF Delivered, RepliesReachTheirPeer
<1>4. QED
  BY <1>1, <1>2, <1>3

\* At the start nothing is queued or sent.
LEMMA BoundInit == Init => Bound /\ Sends /\ Delivered
<1> SUFFICES ASSUME Init PROVE Bound /\ Sends /\ Delivered
  OBVIOUS
<1>1. sq = <<>> /\ cq = <<>> /\ todo = <<>> /\ recvs = {}
      /\ \A k \in Clients : inbox[k] = <<>>
  BY DEF Init
<1>2. \A X : ~In(sq, X) /\ ~In(cq, X)
  BY <1>1, ShortIn
<1>3. \A c \in Conns : ~Answering(c)
  BY <1>1, OtherCalls, Zenon DEF Answering
<1>4. Bound
  BY <1>1, <1>2, <1>3, Zenon, ZenonT(60) DEF Bound
<1>5. Sends
  BY <1>1, <1>2 DEF Sends, SendFits, Sending, Before
<1>6. Delivered
  BY <1>1 DEF Delivered, RepliesReachTheirPeer
<1>7. QED
  BY <1>4, <1>5, <1>6

\* A reply reaches the connection whose request produced it, although the send
\* is queued with a bare descriptor and the conn is freed before the kernel
\* reads the queue.  It holds on a kernel that consumes what is submitted and,
\* whatever fails, while the worker uses direct descriptors.
THEOREM RepliesArrive == Spec => [](Fed \/ direct => RepliesReachTheirPeer)
<1>1. Delivered => (Fed \/ direct => RepliesReachTheirPeer)
  BY DEF Delivered
<1>2. QED
  BY <1>1, TypeInit, TypeNext, OwnInit, OwnNext, StandingInit, EmptiedNext,
     HeldInit, HeldNext, BoundInit, BoundNext, SendsNext, DeliveredNext, PTL
     DEF Spec

-----------------------------------------------------------------------------
(* The accept queue and the descriptor table.                               *)

\* The accept queue and the descriptor table hold each connection once.
Table ==
  /\ Distinct(backlog)
  /\ \A i \in DOMAIN backlog : sock[backlog[i]] = "queued"
  /\ \A s \in Slots : file[s] # Nobody => sock[file[s]] = "open"
  /\ \A s, t \in Slots : file[s] = file[t] /\ file[s] # Nobody => s = t

\* Closing a descriptor.
LEMMA TableRelease ==
  ASSUME TypeInv, Table, NEW s \in Slots, Release(s), backlog' = backlog
  PROVE  /\ Table' /\ \A t \in Slots : t # s => file'[t] = file[t]
         /\ file'[s] = Nobody
         /\ \A k \in Clients : sock'[k] = IF k = file[s] THEN "closed" ELSE sock[k]
<1>1. /\ file \in [Slots -> Clients \cup {Nobody}]
      /\ sock \in [Clients -> {"new", "queued", "open", "closed", "reset"}]
      /\ backlog \in Seq(Clients)
  BY DEF TypeInv, TypeOK
<1>2. file'[s] = Nobody /\ \A t \in Slots : t # s => file'[t] = file[t]
  BY <1>1 DEF Release
<1>3. \A k \in Clients : sock'[k] = IF k = file[s] THEN "closed" ELSE sock[k]
  BY <1>1, WorkerAssumption DEF Release
<1>4. ASSUME NEW i \in DOMAIN backlog PROVE sock'[backlog[i]] = "queued"
  <2>1. backlog[i] \in Clients
    BY <1>1
  <2>2. sock[backlog[i]] = "queued"
    BY Zenon, ZenonT(60) DEF Table
  <2>3. backlog[i] # file[s]
    <3>1. file[s] # Nobody => sock[file[s]] = "open"
      BY Zenon, ZenonT(60) DEF Table
    <3>2. QED
      BY <2>1, <2>2, <3>1, WorkerAssumption, Zenon, ZenonT(60)
  <2>4. QED
    BY <1>3, <2>1, <2>2, <2>3, Zenon, ZenonT(60)
<1>5. \A t, u \in Slots : file[t] = file[u] /\ file[t] # Nobody => t = u
  BY Zenon, ZenonT(60) DEF Table
<1>6. ASSUME NEW t \in Slots, file'[t] # Nobody PROVE sock'[file'[t]] = "open"
  <2>1. t # s /\ file'[t] = file[t]
    BY <1>2, <1>6, Zenon, ZenonT(60)
  <2>2. file[t] # file[s] /\ file[t] # Nobody
    BY <1>5, <1>6, <2>1, Zenon, ZenonT(60)
  <2>3. file[t] \in Clients
    BY <1>1, <2>2
  <2>4. sock[file[t]] = "open"
    BY <2>2, Zenon, ZenonT(60) DEF Table
  <2>5. QED
    BY <1>3, <2>1, <2>2, <2>3, <2>4, Zenon, ZenonT(60)
<1>7. ASSUME NEW t \in Slots, NEW u \in Slots, file'[t] = file'[u], file'[t] # Nobody
      PROVE  t = u
  <2>1. file'[t] = file[t] /\ file'[u] = file[u]
    BY <1>2, <1>7, Zenon, ZenonT(60)
  <2>2. QED
    BY <1>5, <1>7, <2>1, Zenon, ZenonT(60)
<1>8. QED
  BY <1>2, <1>3, <1>4, <1>6, <1>7, Zenon, ZenonT(60) DEF Table

\* The head of the accept queue leaves it.
LEMMA TablePop ==
  ASSUME TypeInv, Table, backlog # <<>>
  PROVE  /\ Head(backlog) \in Clients /\ sock[Head(backlog)] = "queued"
         /\ Distinct(Tail(backlog))
         /\ \A i \in DOMAIN Tail(backlog) :
              /\ Tail(backlog)[i] \in Clients /\ Tail(backlog)[i] # Head(backlog)
              /\ sock[Tail(backlog)[i]] = "queued"
         /\ \A s \in Slots : file[s] # Head(backlog)
<1>1. /\ backlog \in Seq(Clients) /\ file \in [Slots -> Clients \cup {Nobody}]
  BY Zenon, ZenonT(60) DEF TypeInv, TypeOK
<1>2. /\ \A i \in DOMAIN Tail(backlog) :
           /\ i \in Nat /\ i > 0 /\ i + 1 \in DOMAIN backlog
           /\ Tail(backlog)[i] = backlog[i + 1] /\ backlog[i + 1] \in Clients
      /\ 1 \in DOMAIN backlog /\ Head(backlog) = backlog[1] /\ backlog[1] \in Clients
  BY <1>1
<1>once. /\ \A i, j \in DOMAIN backlog : backlog[i] = backlog[j] => i = j
         /\ \A i \in DOMAIN backlog : sock[backlog[i]] = "queued"
  BY Zenon, ZenonT(60) DEF Table, Distinct
<1>3. ASSUME NEW i \in DOMAIN Tail(backlog), NEW j \in DOMAIN Tail(backlog),
             Tail(backlog)[i] = Tail(backlog)[j]
      PROVE  i = j
  <2>1. i + 1 = j + 1
    BY <1>2, <1>3, <1>once
  <2>2. QED
    BY <1>2, <2>1
<1>4. ASSUME NEW i \in DOMAIN Tail(backlog)
      PROVE  /\ Tail(backlog)[i] \in Clients /\ Tail(backlog)[i] # Head(backlog)
             /\ sock[Tail(backlog)[i]] = "queued"
  <2>1. i + 1 # 1
    BY <1>2
  <2>2. QED
    BY <1>2, <1>once, <2>1
<1>5. Head(backlog) \in Clients /\ sock[Head(backlog)] = "queued"
  BY <1>2, Zenon, ZenonT(60) DEF Table
<1>6. \A s \in Slots : file[s] # Head(backlog)
  BY <1>1, <1>5, WorkerAssumption, Zenon, ZenonT(60) DEF Table
<1>7. QED
  BY <1>3, <1>4, <1>5, <1>6, Zenon, ZenonT(60) DEF Distinct

\* Every step keeps Table.
LEMMA TableNext == TypeInv /\ Table /\ [Next]_vars => Table'
<1> SUFFICES ASSUME TypeInv, Table, [Next]_vars PROVE Table'
  OBVIOUS
<1>1. /\ file \in [Slots -> Clients \cup {Nobody}]
      /\ sock \in [Clients -> {"new", "queued", "open", "closed", "reset"}]
      /\ backlog \in Seq(Clients)
  BY Zenon, ZenonT(60) DEF TypeInv, TypeOK
<1>2. CASE UNCHANGED <<file, sock, backlog>>
  BY <1>2, Zenon, ZenonT(60) DEF Table
<1>3. ASSUME NEW k \in Clients, Connect(k) PROVE Table'
  <2>1. /\ sock[k] = "new" /\ sock' = [sock EXCEPT ![k] = "queued"]
        /\ backlog' = Append(backlog, k) /\ file' = file
    BY <1>3 DEF Connect
  <2>2. \A i \in DOMAIN backlog : backlog[i] # k /\ sock[backlog[i]] = "queued"
                                  /\ backlog[i] \in Clients
    BY <1>1, <2>1 DEF Table
  <2>3. Distinct(backlog')
    <3>1. Distinct(backlog) /\ ~Has(backlog, k)
      BY <2>2, Zenon, ZenonT(60) DEF Table, Has
    <3>2. QED
      BY <1>1, <2>1, <3>1 DEF Distinct, Has
  <2>4. \A i \in DOMAIN backlog' :
          (i \in DOMAIN backlog /\ backlog'[i] = backlog[i]) \/ backlog'[i] = k
    BY <1>1, <2>1, AppendEntries
  <2>5. \A i \in DOMAIN backlog' : sock'[backlog'[i]] = "queued"
    BY <1>1, <2>1, <2>2, <2>4, Zenon, ZenonT(60)
  <2>6. \A s \in Slots : file'[s] # Nobody => sock'[file'[s]] = "open"
    BY <1>1, <2>1 DEF Table
  <2>7. QED
    BY <2>1, <2>3, <2>5, <2>6, Zenon, ZenonT(60) DEF Table
<1>4. CASE AcceptCompletes
  <2> DEFINE k == Head(backlog)
  <2>1. PICK s \in Slots : file[s] = Nobody /\ file' = [file EXCEPT ![s] = k]
    BY <1>4, Zenon, ZenonT(60) DEF AcceptCompletes
  <2>2. /\ sock' = [sock EXCEPT ![k] = "open"] /\ backlog' = Tail(backlog)
        /\ backlog # <<>>
    BY <1>4, Zenon, ZenonT(60) DEF AcceptCompletes
  <2>3. /\ k \in Clients /\ sock[k] = "queued"
        /\ Distinct(backlog')
        /\ \A i \in DOMAIN backlog' : /\ backlog'[i] \in Clients /\ backlog'[i] # k
                                      /\ sock[backlog'[i]] = "queued"
        /\ \A t \in Slots : file[t] # k
    BY <2>2, TablePop, Zenon, ZenonT(60)
  <2> HIDE DEF k
  <2>4. \A i \in DOMAIN backlog' : sock'[backlog'[i]] = "queued"
    BY <1>1, <2>2, <2>3, Zenon, ZenonT(60)
  <2>5. \A t \in Slots : file'[t] # Nobody => sock'[file'[t]] = "open"
    BY <1>1, <2>1, <2>2, <2>3, Zenon, ZenonT(60) DEF Table
  <2>6. \A t, u \in Slots : file'[t] = file'[u] /\ file'[t] # Nobody => t = u
    BY <1>1, <2>1, <2>3, Zenon, ZenonT(60) DEF Table
  <2>7. QED
    BY <2>3, <2>4, <2>5, <2>6, Zenon, ZenonT(60) DEF Table
<1>5. CASE AcceptFails
  <2> DEFINE k == Head(backlog)
  <2>1. /\ backlog # <<>> /\ file' = file
        /\ \/ UNCHANGED <<backlog, sock>>
           \/ sock' = [sock EXCEPT ![k] = "closed"] /\ backlog' = Tail(backlog)
    BY <1>5, Zenon, ZenonT(60) DEF AcceptFails
  <2>2. CASE UNCHANGED <<backlog, sock>>
    BY <1>2, <2>1, <2>2
  <2>3. CASE sock' = [sock EXCEPT ![k] = "closed"] /\ backlog' = Tail(backlog)
    <3>1. /\ k \in Clients /\ sock[k] = "queued" /\ Distinct(backlog')
          /\ \A i \in DOMAIN backlog' : /\ backlog'[i] \in Clients /\ backlog'[i] # k
                                        /\ sock[backlog'[i]] = "queued"
          /\ \A t \in Slots : file[t] # k
      BY <2>1, <2>3, TablePop, Zenon, ZenonT(60)
    <3> HIDE DEF k
    <3>2. \A i \in DOMAIN backlog' : sock'[backlog'[i]] = "queued"
      BY <1>1, <2>3, <3>1, Zenon, ZenonT(60)
    <3>3. \A t \in Slots : file'[t] # Nobody => sock'[file'[t]] = "open"
      BY <1>1, <2>1, <2>3, <3>1, Zenon, ZenonT(60) DEF Table
    <3>4. QED
      BY <2>1, <3>1, <3>2, <3>3, Zenon, ZenonT(60) DEF Table
  <2>4. QED
    BY <2>1, <2>2, <2>3
<1>6. CASE IssueClose
  <2>1. Head(sq).slot \in Slots
    <3>1. Head(sq) \in Sqe /\ Head(sq).op = "close"
      BY <1>6, IssueFrame, Zenon, ZenonT(60) DEF IssueClose, Issue
    <3>2. QED
      BY <3>1, SqeFacts
  <2>2. Release(Head(sq).slot) /\ backlog' = backlog
    BY <1>6, IssueFrame, Zenon, ZenonT(60) DEF IssueClose
  <2>3. QED
    BY <2>1, <2>2, TableRelease, Zenon, ZenonT(60)
<1>7. CASE AdoptConn
  <2>1. UNCHANGED <<file, sock>> \/ CloseUnlessDirect(Head(todo).slot)
    BY <1>7, Zenon, ZenonT(60) DEF AdoptConn
  <2>2. backlog' = backlog /\ todo \in HandlerCalls /\ todo # <<>>
        /\ Head(todo).call = "adopt"
    BY <1>7, Zenon, ZenonT(60) DEF AdoptConn, TypeInv, TypeOK
  <2>3. Head(todo).slot \in Slots
    BY <2>2, AdoptHead, Zenon, ZenonT(60)
  <2>4. QED
    BY <1>2, <2>1, <2>2, <2>3, TableRelease, Zenon, ZenonT(60) DEF CloseUnlessDirect
<1>8. CASE Fallback
  <2>1. backlog' = backlog /\ HelperRuns
    BY <1>8, Zenon, ZenonT(60) DEF Fallback
  <2>2. CASE Head(todo) = Arm
    BY <1>2, <1>8, <2>1, <2>2, CallFields, Zenon, ZenonT(60) DEF Fallback
  <2>3. CASE Head(todo) # Arm
    <3>1. PICK c \in Conns : /\ fd[c] \in Slots /\ Head(todo).call # "arm"
                             /\ Head(todo).conn = c
      BY <2>1, <2>3, HelperCall, Zenon
    <3>2. CloseUnlessDirect(fd[c])
      BY <1>8, <3>1, Zenon, ZenonT(60) DEF Fallback
    <3>3. QED
      BY <1>2, <2>1, <3>1, <3>2, TableRelease, Zenon, ZenonT(60) DEF CloseUnlessDirect
  <2>4. QED
    BY <2>2, <2>3
<1>9. CASE Teardown
  <2>1. /\ file' = IF direct THEN [s \in Slots |-> Nobody] ELSE file
        /\ sock' = [k \in Clients |->
                      IF k \in Range(backlog) \/ (direct /\ k \in Range(file))
                      THEN "reset" ELSE sock[k]]
        /\ backlog' = <<>>
    BY <1>9, Zenon, ZenonT(60) DEF Teardown
  <2>2. \A k \in Range(backlog) : sock[k] = "queued"
    BY DEF Table, Range
  <2>3. \A s \in Slots : file'[s] # Nobody => ~direct /\ file'[s] = file[s]
    BY <2>1, Zenon, ZenonT(60)
  <2>4. ASSUME NEW s \in Slots, file'[s] # Nobody PROVE sock'[file'[s]] = "open"
    BY <1>1, <2>1, <2>2, <2>3, <2>4 DEF Table
  <2>5. \A s, t \in Slots : file'[s] = file'[t] /\ file'[s] # Nobody => s = t
    BY <2>3 DEF Table
  <2>6. QED
    BY <2>1, <2>4, <2>5 DEF Table, Distinct
<1>10. CASE UNCHANGED vars
  BY <1>2, <1>10 DEF vars
<1>11. CASE \/ RingInitFails \/ fa_thread_entry \/ StopSeen \/ Enter \/ EnterFails
            \/ EnterReturns \/ EnterTimesOut \/ BatchDone \/ Flush \/ FlushReturns
            \/ fa_server_stop \/ \E k \in Clients : Write(k)
  <2>1. UNCHANGED <<file, sock, backlog>>
    BY <1>11, Zenon, ZenonT(60)
       DEF RingInitFails, fa_thread_entry, StopSeen, Enter, EnterFails,
           EnterReturns, EnterTimesOut, BatchDone, Flush, FlushReturns,
           fa_server_stop, Write, ringVars
  <2>2. QED
    BY <1>2, <2>1
<1>12. CASE HandleNull \/ HandleAccept \/ HandleRecvFailed \/ HandleRequest
  BY <1>2, <1>12, HandlersFrame, Zenon, ZenonT(60)
<1>13. CASE PrepSqe \/ IssueAccept \/ IssueRecv \/ IssueSend \/ RecvCompletes
  <2>1. UNCHANGED <<file, sock, backlog>>
    BY <1>13, IssueFrame, Zenon, ZenonT(60)
       DEF PrepSqe, IssueAccept, IssueRecv, IssueSend, RecvCompletes
  <2>2. QED
    BY <1>2, <2>1
<1>14. QED
  BY <1>3, <1>4, <1>5, <1>6, <1>7, <1>8, <1>9, <1>10, <1>11, <1>12, <1>13, Zenon, ZenonT(60)
     DEF Next, WorkerStep
=============================================================================
