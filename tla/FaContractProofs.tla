-------------------------- MODULE FaContractProofs --------------------------
(***************************************************************************)
(* What one worker does for its peers: it implements the contract of       *)
(* Exchange.                                                               *)
(***************************************************************************)
EXTENDS FaServeProofs

\* The backends for a leaf that names none, with longer tries if the first fail.
USE SMTT(20), ZenonT(20), SMTT(120), ZenonT(60), SMTT(60)

-----------------------------------------------------------------------------
(* The exchange with each client.                                           *)

Untouched(k) == verdicts[k] = <<>> /\ inbox[k] = <<>>
Promised(k) == verdicts[k] = <<"reply">> /\ inbox[k] = <<>>

\* Nothing stands in the way of closing descriptor s but its queued reply.
Settled(s) ==
  verdicts[file[s]] = <<"reply">> =>
    "send" \in Faults \/ Len(inbox[file[s]]) = 1 \/ Sending(s)

Stage(c) ==
  IF Answering(c) THEN Promised(file[fd[c]]) /\ ~Sending(fd[c])
  ELSE IF Dismissing(c) THEN Settled(fd[c])
  ELSE Untouched(file[fd[c]])

Books ==
  /\ \A k \in Clients : sock[k] \in {"new", "queued"} => Untouched(k)
  /\ pc # "torn" =>
       /\ \A s \in Slots :
            /\ Accepted(s) \/ Adopting(s) => Untouched(file[s])
            /\ Closing(s) => Settled(s)
            /\ Sending(s) => Promised(file[s]) /\ Once(sq, SendAt(s))
       /\ \A c \in Conns : Live(c) => Stage(c)

-----------------------------------------------------------------------------
(* Every step keeps the books.                                              *)

\* What the books rest on.
Sound ==
  TypeInv /\ Own /\ Emptied /\ Held /\ Bound /\ Sends /\ Table

\* The initial state, and every step.
LEMMA SoundInit == Init => Sound
<1>1. Init => Table
  BY DEF Init, Table, Distinct
<1>2. QED
  BY <1>1, TypeInit, OwnInit, StandingInit, HeldInit, BoundInit DEF Sound

\* Every step keeps the proofs' common ground.
LEMMA SoundNext == Sound /\ [Next]_vars => Sound'
  BY TypeNext, OwnNext, EmptiedNext, HeldNext, BoundNext, SendsNext, TableNext
     DEF Sound

\* A client has been promised a reply, or nothing has happened, not both.
LEMMA Words ==
  ASSUME NEW k
  PROVE  /\ ~(Untouched(k) /\ Promised(k))
         /\ Untouched(k) => verdicts[k] # <<"reply">>
  BY DEF Untouched, Promised

\* While the worker is in none of the two stages, every conn is untouched.
LEMMA StageIdle ==
  ASSUME NEW c \in Conns, ~Answering(c), ~Dismissing(c)
  PROVE  Stage(c) <=> Untouched(file[fd[c]])
  BY DEF Stage

\* Who holds a descriptor, or sends on it, has a connection of its own.
LEMMA Apart ==
  ASSUME Sound, Fed, pc # "torn", NEW s \in Slots
  PROVE  /\ Accepted(s) \/ Adopting(s) \/ Owned(s) \/ Closing(s) \/ Sending(s)
              => file[s] \in Clients
         /\ \A t \in Slots : s # t /\ file[s] # Nobody => file[t] # file[s]
         /\ Sending(s) => ~Accepted(s) /\ ~Adopting(s)
<1>1. file[s] \in Clients \cup {Nobody}
  BY DEF Sound, TypeInv, TypeOK
<1>2. OneHolder(s) /\ SendFits(s)
  BY DEF Sound, Held, Sends
<1>3. HeldAt(s) => file[s] # Nobody
  BY <1>2, Zenon, ZenonT(60) DEF OneHolder
<1>4. Sending(s) => Owned(s) \/ Closing(s)
  BY <1>2 DEF SendFits
<1>5. Sending(s) => ~Accepted(s) /\ ~Adopting(s)
  BY <1>2, <1>4, Zenon, ZenonT(60) DEF OneHolder
<1>6. QED
  BY <1>1, <1>3, <1>4, <1>5, Zenon, ZenonT(60) DEF HeldAt, Sound, Table

\* The handler decides on a request: its connection is untouched before.
LEMMA Decides ==
  ASSUME Sound, Books, HandleRequest
  PROVE  \E c \in Conns, v \in {"reply", "decline"} :
           /\ Head(cq) \in GotBy(c)
           /\ Live(c) /\ fd[c] \in Slots /\ file[fd[c]] \in Clients
           /\ Untouched(file[fd[c]])
           /\ verdicts' = [verdicts EXCEPT ![file[fd[c]]] = <<v>>]
           /\ todo' = IF v = "reply" THEN AnswerCalls(c) ELSE CloseCalls(c)
<1>1. TypeInv
  BY DEF Sound
<1>2. /\ pc = "drain" /\ todo = <<>> /\ cq # <<>>
      /\ cq \in Seq(Cqe) /\ Head(cq) \in Cqe
  BY <1>1, HandlersFrame
<1> DEFINE c == Head(cq).conn
<1>3. Head(cq).kind = "recv" /\ Head(cq).ok
  BY Zenon, ZenonT(60) DEF HandleRequest, TakeCqe
<1>4. c \in Conns /\ Head(cq) \in GotBy(c)
  BY <1>2, <1>3, CqeFacts DEF GotBy
<1>5. PICK v \in {"reply", "decline"} :
        /\ verdicts' = [verdicts EXCEPT ![buf[c]] = Append(@, v)]
        /\ todo' = IF v = "reply" THEN AnswerCalls(c) ELSE CloseCalls(c)
  BY Zenon, ZenonT(60) DEF HandleRequest, AnswerCalls, CloseCalls
<1> HIDE DEF c
<1>6. In(cq, GotBy(c))
  BY <1>2, <1>4, TailIn
<1>7. Refs
  BY <1>2, LiveRefs DEF Sound
<1>8. Live(c) /\ fd[c] \in Slots /\ buf[c] = file[fd[c]]
  BY <1>2, <1>4, <1>6, <1>7, Zenon, ZenonT(60) DEF Refs, Sound, Bound
<1>9. file[fd[c]] \in Clients
  <2>1. OneHolder(fd[c]) /\ Owned(fd[c])
    BY <1>2, <1>4, <1>8, Zenon, ZenonT(60) DEF Sound, Held, Owned
  <2>2. QED
    BY <1>8, <2>1, Zenon, ZenonT(60) DEF Sound, TypeInv, TypeOK, OneHolder, HeldAt
<1>10. Untouched(file[fd[c]])
  <2>1. ~Answering(c) /\ ~Dismissing(c)
    BY <1>2, OtherCalls, Zenon DEF Answering, Dismissing
  <2>2. QED
    BY <1>2, <1>4, <1>8, <2>1, StageIdle, Zenon, ZenonT(60) DEF Books
<1>11. verdicts' = [verdicts EXCEPT ![file[fd[c]]] = <<v>>]
  <2>1. verdicts \in [Clients -> Seq({"reply", "decline"})]
    BY DEF Sound, TypeInv, TypeOK
  <2>2. Append(<<>>, v) = <<v>>
    OBVIOUS
  <2>3. QED
    BY <1>5, <1>8, <1>9, <1>10, <2>1, <2>2, Zenon, ZenonT(60) DEF Untouched
<1>12. QED
  BY <1>4, <1>5, <1>8, <1>9, <1>10, <1>11, Zenon, ZenonT(60)

\* What a send of a promised reply does to its peer.
LEMMA Sent ==
  ASSUME Sound, Fed, Books, IssueSend
  PROVE  \E s \in Slots :
           /\ Head(sq) \in SendAt(s) /\ Sending(s) /\ ~Sending(s)'
           /\ file[s] \in Clients /\ Promised(file[s]) /\ sock[file[s]] = "open"
           /\ \/ UNCHANGED inbox /\ "send" \in Faults
              \/ /\ Len(inbox'[file[s]]) = 1
                 /\ \A k \in Clients : k # file[s] => inbox'[k] = inbox[k]
<1>1. /\ pc # "torn" /\ sq \in Seq(Sqe) /\ sq # <<>> /\ sq' = Tail(sq)
      /\ Head(sq) \in Sqe /\ Head(sq).op = "send"
      /\ inbox \in [Clients -> Seq(Message)]
      /\ file \in [Slots -> Clients \cup {Nobody}]
  BY IssueFrame, Zenon, ZenonT(60) DEF Sound, IssueSend, Issue, TypeInv, TypeOK
<1>2. PICK s \in Slots : Head(sq) \in SendAt(s) /\ Head(sq).slot = s
  BY <1>1, SqeFacts DEF SendAt
<1>3. Sending(s)
  BY <1>1, <1>2, TailIn DEF Sending
<1>4. Promised(file[s]) /\ Once(sq, SendAt(s))
  BY <1>1, <1>3 DEF Books
<1>5. ~Sending(s)'
  BY <1>1, <1>2, <1>4, TailIn DEF Sending
<1>6. file[s] \in Clients
  BY <1>1, <1>3, Apart
<1>7. file[s] # Nobody /\ sock[file[s]] = "open"
  BY <1>6, WorkerAssumption DEF Sound, Table
<1>8. \/ UNCHANGED inbox /\ "send" \in Faults
      \/ \E m : inbox' = [inbox EXCEPT ![file[s]] = Append(@, m)]
  BY <1>2, <1>7, Zenon, ZenonT(60) DEF IssueSend
<1>9. ASSUME NEW m, inbox' = [inbox EXCEPT ![file[s]] = Append(@, m)]
      PROVE  /\ Len(inbox'[file[s]]) = 1
             /\ \A k \in Clients : k # file[s] => inbox'[k] = inbox[k]
  <2>1. inbox'[file[s]] = Append(<<>>, m)
    BY <1>1, <1>4, <1>6, <1>9 DEF Promised
  <2>2. Len(Append(<<>>, m)) = 1
    <3>1. <<>> \in Seq({m}) /\ m \in {m} /\ Len(<<>>) = 0
      OBVIOUS
    <3>2. QED
      BY <3>1
  <2>3. \A k \in Clients : k # file[s] => inbox'[k] = inbox[k]
    BY <1>1, <1>6, <1>9
  <2>4. QED
    BY <2>1, <2>2, <2>3
<1>10. QED
  BY <1>2, <1>3, <1>4, <1>5, <1>6, <1>7, <1>8, <1>9, Zenon, ZenonT(60)

\* What a queued close does: nothing of its connection is outstanding.
LEMMA Closed ==
  ASSUME Sound, Fed, Books, IssueClose
  PROVE  \E s \in Slots :
           /\ Head(sq) \in CloseAt(s) /\ Closing(s) /\ ~Closing(s)' /\ ~Sending(s)'
           /\ file[s] \in Clients /\ sock[file[s]] = "open"
           /\ verdicts[file[s]] = <<"reply">> =>
                "send" \in Faults \/ Len(inbox[file[s]]) = 1
           /\ \A t \in Slots : t # s => file'[t] = file[t]
           /\ \A k \in Clients : sock'[k] = IF k = file[s] THEN "closed"
                                                           ELSE sock[k]
<1>1. /\ pc # "torn" /\ sq \in Seq(Sqe) /\ sq # <<>> /\ sq' = Tail(sq)
      /\ Head(sq) \in Sqe /\ Head(sq).op = "close"
      /\ file \in [Slots -> Clients \cup {Nobody}] /\ backlog' = backlog
  BY IssueFrame DEF Sound, IssueClose, Issue, TypeInv, TypeOK
<1>2. PICK s \in Slots : Head(sq) \in CloseAt(s) /\ Head(sq).slot = s
  BY <1>1, SqeFacts DEF CloseAt
<1>3. Closing(s)
  BY <1>1, <1>2, TailIn DEF Closing
<1>4. OneHolder(s) /\ SendFits(s)
  BY <1>1 DEF Sound, Held, Sends
<1>5. ~Closing(s)'
  BY <1>1, <1>2, <1>4, TailIn DEF Closing, OneHolder
<1>6. ~In(Tail(sq), SendAt(s)) /\ Head(sq) \notin SendAt(s)
  BY <1>1, <1>2, <1>4, TailBefore, Zenon, ZenonT(60) DEF SendFits, SendAt
<1>7. ~Sending(s) /\ ~Sending(s)'
  BY <1>1, <1>6, TailIn DEF Sending
<1>8. file[s] \in Clients
  BY <1>1, <1>3, Apart
<1>9. sock[file[s]] = "open"
  BY <1>8, WorkerAssumption DEF Sound, Table
<1>10. verdicts[file[s]] = <<"reply">> =>
        "send" \in Faults \/ Len(inbox[file[s]]) = 1
  BY <1>1, <1>3, <1>7 DEF Books, Settled
<1>11. Release(s)
  BY <1>2 DEF IssueClose
<1>12. QED
  BY <1>1, <1>2, <1>3, <1>5, <1>7, <1>8, <1>9, <1>10, <1>11, TableRelease DEF Sound

\* The exchange with each client keeps its books, as long as a submit consumes
\* the whole queue.
LEMMA BooksNext == Sound /\ Fed /\ Books /\ [Next]_vars => Books'
\* A stage that does not move.
<1>StageSame.
    ASSUME NEW c \in Conns, UNCHANGED <<verdicts, inbox, sq, todo>>,
           fd'[c] = fd[c], file'[fd[c]] = file[fd[c]], Stage(c)
    PROVE  Stage(c)'
  BY <1>StageSame, Zenon, ZenonT(60)
     DEF Stage, Answering, Dismissing, Promised, Untouched, Settled, Sending
\* Steps that neither decide, deliver nor queue.
<1>BooksQuiet.
    ASSUME Books, pc # "torn", UNCHANGED <<verdicts, inbox, sq>>,
           \A k \in Clients : sock'[k] \in {"new", "queued"}
                                => sock[k] \in {"new", "queued"},
           \A s \in Slots : Accepted(s)' \/ Adopting(s)' =>
                              (Accepted(s) \/ Adopting(s)) /\ file'[s] = file[s],
           \A s \in Slots : Closing(s) \/ Sending(s) => file'[s] = file[s],
           \A c \in Conns : Live(c)' => Stage(c)'
    PROVE  Books'
  <2> USE <1>BooksQuiet
  <2>1. \A k : (Untouched(k)' <=> Untouched(k)) /\ (Promised(k)' <=> Promised(k))
    BY Zenon, ZenonT(60) DEF Untouched, Promised
  <2>2. \A s \in Slots : /\ Closing(s)' <=> Closing(s)
                         /\ Sending(s)' <=> Sending(s)
    BY Zenon, ZenonT(60) DEF Closing, Sending
  <2>3. ASSUME NEW s \in Slots
        PROVE  /\ Accepted(s)' \/ Adopting(s)' => Untouched(file[s])'
               /\ Closing(s)' => Settled(s)'
               /\ Sending(s)' => Promised(file[s])' /\ Once(sq', SendAt(s))
    <3>1. Accepted(s)' \/ Adopting(s)' => Untouched(file[s])'
      BY Zenon, ZenonT(60) DEF Books, Untouched
    <3>2. Closing(s)' => Settled(s)'
      BY <2>2, Zenon, ZenonT(60) DEF Books, Settled
    <3>3. Sending(s)' => Promised(file[s])' /\ Once(sq', SendAt(s))
      BY <2>2, Zenon, ZenonT(60) DEF Books, Promised
    <3>4. QED
      BY <3>1, <3>2, <3>3, Zenon, ZenonT(60)
  <2>4. \A k \in Clients : sock'[k] \in {"new", "queued"} => Untouched(k)'
    BY <2>1, Zenon, ZenonT(60) DEF Books
  <2>5. QED
    BY <2>3, <2>4, Zenon, ZenonT(60) DEF Books
\* Control, and completions that open nothing.
<1>BooksControl.
    ASSUME Sound, Fed, Books, Control \/ AcceptFails \/ RecvCompletes
    PROVE  Books'
  <2> USE <1>BooksControl
  <2>1. /\ UNCHANGED <<freelist, heap, fd, sq, todo, file, inbox, verdicts>>
        /\ pc = "torn" => pc' = pc
    <3>1. CASE Control
      BY <3>1, ControlFrame
    <3>2. CASE AcceptFails \/ RecvCompletes
      <4>1. file' = file
        BY <3>2, Zenon DEF AcceptFails, RecvCompletes
      <4>2. QED
        BY <3>2, <4>1, CompletesFrame DEF Sound
    <3>3. QED
      BY <3>1, <3>2
  <2>2. \A k \in Clients : sock'[k] \in {"new", "queued"}
                             => sock[k] \in {"new", "queued"}
    <3>1. sock \in [Clients -> {"new", "queued", "open", "closed", "reset"}]
      BY DEF Sound, TypeInv, TypeOK
    <3>2. CASE \E k \in Clients : Connect(k)
      BY <3>1, <3>2 DEF Connect
    <3>3. CASE AcceptFails
      <4>1. sock' = sock \/ sock' = [sock EXCEPT ![Head(backlog)] = "closed"]
        BY <3>3, Zenon DEF AcceptFails
      <4>2. QED
        BY <3>1, <4>1
    <3>4. CASE ~(\E k \in Clients : Connect(k)) /\ ~AcceptFails
      <4>1. sock' = sock
        BY <3>4, Zenon, ZenonT(60)
           DEF RecvCompletes, Control, RingInitFails, StopSeen, Enter,
           EnterFails, EnterReturns, EnterTimesOut, BatchDone, Flush, FlushReturns,
           fa_server_stop, Write, ringVars
      <4>2. QED
        BY <4>1
    <3>5. QED
      BY <3>2, <3>3, <3>4
  <2>3. CASE pc = "torn"
    BY <2>1, <2>2, <2>3, Zenon, ZenonT(60) DEF Books, Untouched
  <2>4. CASE pc # "torn"
    <3>1. \A s \in Slots : Accepted(s)' \/ Adopting(s)' => Accepted(s) \/ Adopting(s)
      <4>1. \A s \in Slots : Accepted(s)' => Accepted(s)
        <5>1. cq \in Seq(Cqe)
          BY DEF Sound, TypeInv, TypeOK
        <5>2. CASE Control
          BY <5>2, ControlFrame DEF Accepted
        <5>3. CASE AcceptFails
          <6>1. /\ AcceptCqe(NoSlot, FALSE) \in Cqe
                /\ \A s \in Slots : AcceptCqe(NoSlot, FALSE) \notin AcceptedAt(s)
            BY WorkerAssumption, CqeFacts, Zenon, ZenonT(60) DEF AcceptedAt, AcceptCqe
          <6>2. PICK e \in Cqe : /\ \A s \in Slots : e \notin AcceptedAt(s)
                                 /\ cq' = Append(cq, e)
            BY <5>3, <6>1, Zenon, ZenonT(60) DEF AcceptFails
          <6>3. QED
            BY <5>1, <6>2, AppendIn DEF Accepted
        <5>4. CASE RecvCompletes
          <6>1. PICK r \in recvs :
                  cq' = Append(cq, RecvCqe(r.conn, peer[r.client] = "request"))
            BY <5>4 DEF RecvCompletes
          <6> DEFINE got == peer[r.client] = "request"
          <6>2. /\ r.conn \in Conns /\ got \in BOOLEAN
                /\ cq' = Append(cq, RecvCqe(r.conn, got))
            BY <6>1 DEF Sound, TypeInv, TypeOK, Recv
          <6> HIDE DEF got
          <6>3. RecvCqe(r.conn, got) \in Cqe /\ RecvCqe(r.conn, got).kind = "recv"
            BY <6>2, CqeFacts DEF RecvCqe
          <6>4. PICK e \in Cqe : e.kind = "recv" /\ cq' = Append(cq, e)
            BY <6>2, <6>3
          <6>5. QED
            BY <5>1, <6>4, SlotEntries, AppendIn, Zenon, ZenonT(60) DEF Accepted
        <5>5. QED
          BY <5>2, <5>3, <5>4
      <4>2. QED
        BY <2>1, <4>1 DEF Adopting
    <3>2. \A c \in Conns : Live(c)' => Stage(c)'
      <4>1. \A c \in Conns : Live(c)' => Live(c)
        BY <2>1 DEF Live
      <4>2. QED
        BY <2>1, <2>4, <4>1, <1>StageSame, Zenon, ZenonT(60) DEF Books
    <3>3. QED
      BY <2>1, <2>2, <2>4, <3>1, <3>2, <1>BooksQuiet, Zenon, ZenonT(60)
  <2>5. QED
    BY <2>3, <2>4
\* The start of the thread: there is nothing to account for.
<1>BooksEntry.
    ASSUME Sound, Books, fa_thread_entry
    PROVE  Books'
  <2> USE <1>BooksEntry
  <2>1. /\ pc = "prep" /\ pc' = "loop" /\ sq' = <<fa_arm_accept>>
        /\ UNCHANGED <<cq, todo, file, sock, verdicts, inbox>> /\ WarmFreelist
    BY DEF fa_thread_entry, clientVars
  <2>2. cq = <<>> /\ todo = <<>>
    BY <2>1 DEF Sound, Own, Homes
  <2>3. \A c : ~Live(c)'
    <3>1. heap' = Range(freelist')
      BY <2>1 DEF WarmFreelist
    <3>2. QED
      BY <3>1 DEF Range, Has, Live
  <2>4. ASSUME NEW s \in Slots
        PROVE  ~Accepted(s)' /\ ~Adopting(s)' /\ ~Closing(s)' /\ ~Sending(s)'
    <3>1. fa_arm_accept \notin CloseAt(s) /\ fa_arm_accept \notin SendAt(s)
      BY SqeFacts DEF CloseAt, SendAt
    <3>2. QED
      BY <2>1, <2>2, <3>1, ShortIn, Zenon, ZenonT(60)
         DEF Accepted, Adopting, Closing, Sending
  <2>5. QED
    BY <2>1, <2>3, <2>4, Zenon, ZenonT(60) DEF Books, Untouched
\* Handlers that decide nothing.
<1>BooksSkip.
    ASSUME Sound, Fed, Books, HandleNull \/ HandleAccept \/ HandleRecvFailed
    PROVE  Books'
  <2> USE <1>BooksSkip
  <2>1. TypeInv
    BY DEF Sound
  <2>2. /\ pc = "drain" /\ todo = <<>> /\ cq # <<>> /\ cq' = Tail(cq)
        /\ UNCHANGED <<pc, freelist, heap, fd, sq, file, sock, inbox>>
        /\ cq \in Seq(Cqe) /\ Head(cq) \in Cqe
    BY <2>1, HandlersFrame
  <2>3. verdicts' = verdicts
    BY Zenon, ZenonT(60) DEF HandleNull, HandleAccept, HandleRecvFailed, clientVars
  <2>4. \A s \in Slots : Accepted(s)' \/ Adopting(s)' => Accepted(s)
    BY <2>1, <2>2, HandlerAdopts, TailIn DEF Accepted
  <2>5. ASSUME NEW c \in Conns, Live(c)' PROVE Stage(c)'
    <3>1. Live(c)
      BY <2>2, <2>5 DEF Live
    <3>2. ~Answering(c) /\ ~Dismissing(c)
      BY <2>2, OtherCalls, Zenon DEF Answering, Dismissing
    <3>3. Untouched(file[fd[c]])
      BY <2>2, <3>1, <3>2, StageIdle, Zenon, ZenonT(60) DEF Books
    <3>4. ~Answering(c)'
      <4>1. ~HandleRequest
        BY <2>2, Zenon, ZenonT(60)
           DEF HandleNull, HandleAccept, HandleRecvFailed, HandleRequest,
                    TakeCqe
      <4>2. QED
        BY <2>1, <4>1, HandlerStages
    <3>5. Untouched(file[fd[c]])'
      BY <2>2, <2>3, <3>3 DEF Untouched
    <3>6. Settled(fd[c])'
      <4>1. verdicts'[file'[fd'[c]]] = <<>>
        BY <3>5, Zenon DEF Untouched
      <4>2. <<>> # <<"reply">>
        OBVIOUS
      <4>3. QED
        BY <4>1, <4>2, Zenon, ZenonT(60) DEF Settled
    <3>7. QED
      BY <3>4, <3>5, <3>6 DEF Stage
  <2>6. QED
    BY <2>2, <2>3, <2>4, <2>5, <1>BooksQuiet
\* handle_request: the conn leaves the recv and owes a verdict.
<1>BooksDecide.
    ASSUME Sound, Fed, Books, HandleRequest
    PROVE  Books'
  <2> USE <1>BooksDecide
  <2>1. TypeInv
    BY DEF Sound
  <2>2. /\ pc = "drain" /\ pc' = pc /\ todo = <<>> /\ cq # <<>> /\ cq' = Tail(cq)
        /\ UNCHANGED <<freelist, heap, fd, sq, file, sock, inbox>>
        /\ cq \in Seq(Cqe) /\ Head(cq) \in Cqe
    BY <2>1, HandlersFrame
  <2>3. PICK c \in Conns, v \in {"reply", "decline"} :
          /\ Head(cq) \in GotBy(c)
          /\ Live(c) /\ fd[c] \in Slots /\ file[fd[c]] \in Clients
          /\ Untouched(file[fd[c]])
          /\ verdicts' = [verdicts EXCEPT ![file[fd[c]]] = <<v>>]
          /\ todo' = IF v = "reply" THEN AnswerCalls(c) ELSE CloseCalls(c)
    BY Decides, Zenon, ZenonT(60)
  <2> DEFINE k == file[fd[c]]
  <2>4. /\ \A x \in Clients : x # k => (Untouched(x)' <=> Untouched(x))
                                    /\ (Promised(x)' <=> Promised(x))
                                    /\ verdicts'[x] = verdicts[x]
        /\ verdicts'[k] = <<v>> /\ inbox'[k] = <<>>
    BY <2>1, <2>2, <2>3, Zenon, ZenonT(60) DEF Untouched, Promised, TypeInv, TypeOK
  <2>5. \A s \in Slots : s # fd[c] /\ file[s] # Nobody => file[s] \in Clients /\ file[s] # k
    BY <2>1, <2>3, WorkerAssumption, Zenon, ZenonT(60)
       DEF Sound, Table, TypeInv, TypeOK
  <2>6. ~Accepted(fd[c]) /\ ~Adopting(fd[c]) /\ ~Closing(fd[c]) /\ ~Sending(fd[c])
    <3>1. OneHolder(fd[c]) /\ Owned(fd[c])
      BY <2>2, <2>3, Zenon, ZenonT(60) DEF Sound, Held, Owned
    <3>2. ~Sending(fd[c])
      BY <2>2, <2>3, Words, Zenon, ZenonT(60) DEF Books
    <3>3. QED
      BY <2>3, <3>1, <3>2, Zenon, ZenonT(60) DEF OneHolder
  <2> HIDE DEF k
  <2>7. \A x \in Clients : sock'[x] \in {"new", "queued"} => Untouched(x)'
    <3>1. sock[k] = "open"
      BY <2>3, WorkerAssumption, Zenon, ZenonT(60) DEF Sound, Table, k
    <3>2. QED
      BY <2>2, <2>4, <3>1, Zenon, ZenonT(60) DEF Books
  <2>8. ASSUME NEW s \in Slots
        PROVE  /\ Accepted(s)' \/ Adopting(s)' => Untouched(file[s])'
               /\ Closing(s)' => Settled(s)'
               /\ Sending(s)' => Promised(file[s])' /\ Once(sq', SendAt(s))
    <3>1. /\ Accepted(s)' \/ Adopting(s)' => Accepted(s)
          /\ Closing(s)' <=> Closing(s)
          /\ Sending(s)' <=> Sending(s)
      BY <2>1, <2>2, HandlerAdopts, TailIn DEF Accepted, Closing, Sending
    <3>2. Accepted(s) \/ Closing(s) \/ Sending(s) =>
            s # fd[c] /\ file[s] \in Clients /\ file[s] # k
      BY <2>2, <2>5, <2>6, Apart, WorkerAssumption, Zenon, ZenonT(60)
    <3>3. Accepted(s)' \/ Adopting(s)' => Untouched(file[s])'
      BY <2>2, <2>4, <3>1, <3>2, Zenon, ZenonT(60) DEF Books, Untouched
    <3>4. Closing(s)' => Settled(s)'
      BY <2>2, <2>4, <3>1, <3>2, Zenon, ZenonT(60) DEF Books, Settled
    <3>5. Sending(s)' => Promised(file[s])' /\ Once(sq', SendAt(s))
      BY <2>2, <2>4, <3>1, <3>2, Zenon, ZenonT(60) DEF Books, Promised
    <3>6. QED
      BY <3>3, <3>4, <3>5
  <2>9. ASSUME NEW d \in Conns, Live(d)' PROVE Stage(d)'
    <3>1. Live(d) /\ fd[d] \in Slots
      BY <2>2, <2>9, LiveRefs, Zenon, ZenonT(60) DEF Live, Sound, Refs
    <3>2. CASE d = c
      <4>1. CASE v = "reply"
        <5>1. Answering(d)'
          BY <2>3, <3>2, <4>1, Zenon DEF Answering
        <5>2. Promised(file[fd[d]])' /\ ~Sending(fd[d])'
          BY <2>2, <2>4, <2>6, <3>2, <4>1, Zenon, ZenonT(60) DEF Promised, Sending, k
        <5>3. QED
          BY <5>1, <5>2, Zenon, ZenonT(60) DEF Stage
      <4>2. CASE v = "decline"
        <5>1. todo' = CloseCalls(d)
          BY <2>3, <3>2, <4>2, Zenon
        <5>2. Dismissing(d)' /\ ~Answering(d)'
          BY <5>1, OtherCalls, Zenon DEF Dismissing, Answering
        <5>3. Settled(fd[d])'
          BY <2>2, <2>4, <3>2, <4>2 DEF Settled, k
        <5>4. QED
          BY <5>2, <5>3, Zenon, ZenonT(60) DEF Stage
      <4>3. QED
        BY <4>1, <4>2
    <3>3. CASE d # c
      <4>1. ~Answering(d) /\ ~Dismissing(d)
        BY <2>2, OtherCalls, Zenon DEF Answering, Dismissing
      <4>2. ~Answering(d)' /\ ~Dismissing(d)'
        <5>1. todo' = AnswerCalls(c) \/ todo' = CloseCalls(c)
          BY <2>3, Zenon
        <5>2. QED
          BY <3>3, <5>1, OtherCalls, Zenon, ZenonT(60) DEF Answering, Dismissing
      <4>3. fd[d] # fd[c] /\ file[fd[d]] # Nobody
        <5>1. OneHolder(fd[d]) /\ Owned(fd[d])
          BY <2>2, <3>1, Zenon, ZenonT(60) DEF Sound, Held, Owned
        <5>2. QED
          BY <2>3, <3>1, <3>3, <5>1, Zenon, ZenonT(60) DEF OneHolder, HeldAt
      <4>4. Untouched(file[fd[d]])
        BY <2>2, <3>1, <4>1, StageIdle, Zenon, ZenonT(60) DEF Books
      <4>5. Untouched(file[fd[d]])'
        BY <2>2, <2>4, <2>5, <3>1, <4>3, <4>4, Zenon, ZenonT(60) DEF Untouched
      <4>6. QED
        BY <4>2, <4>5, Zenon, ZenonT(60) DEF Stage
    <3>4. QED
      BY <3>2, <3>3
  <2>10. QED
    BY <2>7, <2>8, <2>9, Zenon, ZenonT(60) DEF Books
\* Adopting a descriptor: its connection is still untouched.
<1>BooksAdopt.
    ASSUME Sound, Sound', Fed, Books, AdoptConn
    PROVE  Books'
  <2> USE <1>BooksAdopt
  <2>1. /\ pc = "drain" /\ todo # <<>> /\ Head(todo).call = "adopt"
        /\ todo \in HandlerCalls
        /\ UNCHANGED <<pc, direct, sq, cq, verdicts, inbox, backlog>>
        /\ fd \in [Conns -> Slots \cup {NoSlot}]
        /\ file \in [Slots -> Clients \cup {Nobody}]
    BY Zenon, ZenonT(60) DEF AdoptConn, Sound, TypeInv, TypeOK, clientVars
  <2>2. PICK s \in Slots : todo = <<Adopt(s)>>
    BY <2>1, HandlerCallsShape, CallTuples, CallFields
  <2>3. Head(todo).slot = s
    BY <2>2, CallTuples, CallFields, Zenon, ZenonT(60)
  <2>4. Adopting(s)
    BY <2>2, AdoptLists, Zenon, ZenonT(60) DEF Adopting
  <2>5. Untouched(file[s])
    BY <2>1, <2>4 DEF Books
  <2>6. \A c \in Conns : ~Answering(c) /\ ~Dismissing(c)
    BY <2>2, OtherCalls, Zenon DEF Answering, Dismissing
  <2>7. \A c \in Conns : Live(c) => Untouched(file[fd[c]])
    BY <2>1, <2>6, StageIdle DEF Books
  <2>8. todo' = <<>> \/ \E c \in Conns : todo' = <<OnConn("recv", c)>>
    BY Zenon, ZenonT(60) DEF AdoptConn
  <2>9. \A c \in Conns : ~Answering(c)' /\ ~Dismissing(c)'
    BY <2>8, OtherCalls, Zenon, ZenonT(60) DEF Answering, Dismissing
  <2>10. \A t \in Slots : ~Adopting(t)'
    <3>1. ASSUME NEW t \in Slots PROVE ~In(todo', AdoptAt(t))
      <4>1. /\ ~In(<<>>, AdoptAt(t))
            /\ \A c \in Conns : ~In(<<OnConn("recv", c)>>, AdoptAt(t))
        BY AdoptLists, Zenon
      <4>2. QED
        BY <2>8, <4>1, Zenon
    <3>2. QED
      BY <3>1 DEF Adopting
  <2>11. \A t \in Slots : Accepted(t)' <=> Accepted(t)
    BY <2>1 DEF Accepted
  <2>12. \A t \in Slots : Accepted(t) \/ Closing(t) \/ Sending(t) => t # s
    BY <2>1, <2>4, Apart, Zenon, ZenonT(60) DEF Sound, Held, OneHolder
  <2>13. \/ \E c \in Conns : /\ fa_conn_alloc(c) /\ fd' = [fd EXCEPT ![c] = s]
                             /\ UNCHANGED <<file, sock>>
         \/ /\ CloseUnlessDirect(s) /\ UNCHANGED <<freelist, heap, fd>>
    BY <2>3, Zenon, ZenonT(60) DEF AdoptConn
  <2>14. ASSUME NEW c \in Conns, fa_conn_alloc(c), fd' = [fd EXCEPT ![c] = s],
                UNCHANGED <<file, sock>>
         PROVE  Books'
    <3>1. \A d \in Conns : d # c => (Live(d)' <=> Live(d)) /\ fd'[d] = fd[d]
      BY <2>1, <2>14, AllocLive DEF Sound
    <3>2. fd'[c] = s
      BY <2>1, <2>14
    <3>3. ASSUME NEW d \in Conns, Live(d)' PROVE Stage(d)'
      <4>1. Untouched(file[fd[d]])'
        BY <2>1, <2>5, <2>7, <2>14, <3>1, <3>2, <3>3, Zenon, ZenonT(60) DEF Untouched
      <4>2. QED
        BY <2>9, <4>1, Zenon, ZenonT(60) DEF Stage
    <3>4. QED
      BY <2>1, <2>10, <2>11, <2>14, <3>3, <1>BooksQuiet
  <2>15. CASE CloseUnlessDirect(s) /\ UNCHANGED <<freelist, heap, fd>>
    <3>1. /\ \A t \in Slots : t # s => file'[t] = file[t]
          /\ \A k \in Clients : sock'[k] = sock[k] \/ sock'[k] = "closed"
      BY <2>1, <2>15, TableRelease, Zenon, ZenonT(60) DEF CloseUnlessDirect, Sound
    <3>2. ASSUME NEW c \in Conns, Live(c)' PROVE Stage(c)'
      <4>1. Live(c)
        BY <2>15, <3>2 DEF Live
      <4>2. fd[c] \in Slots
        BY <2>1, <4>1, LiveRefs DEF Refs, Sound
      <4>3. fd[c] # s
        BY <2>1, <2>4, <4>1, <4>2, Zenon, ZenonT(60) DEF Sound, Held, OneHolder, Owned
      <4>4. Untouched(file[fd[c]])'
        BY <2>1, <2>7, <2>15, <3>1, <4>1, <4>2, <4>3, Zenon, ZenonT(60) DEF Untouched
      <4>5. QED
        BY <2>9, <4>4, Zenon, ZenonT(60) DEF Stage
    <3>3. QED
      BY <2>1, <2>10, <2>11, <2>12, <3>1, <3>2, <1>BooksQuiet, Zenon, ZenonT(60)
  <2>16. QED
    BY <2>13, <2>14, <2>15
\* Preparing an SQE moves a connection to its next stage.
<1>BooksPrep.
    ASSUME Sound, Fed, Books, PrepSqe
    PROVE  Books'
  <2> USE <1>BooksPrep
  <2> DEFINE e == Prep(Head(todo))
  <2>1. /\ UNCHANGED <<pc, heap, fd, file, cq, sock, verdicts, inbox>>
        /\ HelperRuns /\ pc = "drain" /\ todo' = Rest(todo)
        /\ sq \in Seq(Sqe) /\ TypeInv
    BY Zenon, ZenonT(60)
       DEF PrepSqe, HelperRuns, Sound, TypeInv, TypeOK, clientVars, Rest
  <2>2. e \in Sqe /\ sq' = Append(sq, e)
    BY <2>1, TypePrepSqe
  <2>3. Refs
    BY <2>1, LiveRefs DEF Sound
  <2>4. \A k : (Untouched(k)' <=> Untouched(k)) /\ (Promised(k)' <=> Promised(k))
    BY <2>1, Zenon, ZenonT(60) DEF Untouched, Promised
  <2>5. \A s \in Slots : /\ Accepted(s)' <=> Accepted(s)
                         /\ Adopting(s)' <=> Adopting(s)
                         /\ Sending(s)' <=> Sending(s) \/ e \in SendAt(s)
                         /\ Closing(s)' <=> Closing(s) \/ e \in CloseAt(s)
                         /\ Once(sq, SendAt(s)) /\ ~(Sending(s) /\ e \in SendAt(s))
                              => Once(sq', SendAt(s))
    BY <2>1, <2>2, HelperAdopts, AppendIn DEF Accepted, Adopting, Sending, Closing
  <2>6. \A c \in Conns : /\ ~Answering(c)'
                         /\ Dismissing(c)' <=> Answering(c)
    BY <2>1, HelperStages, Zenon DEF Answering, Dismissing
  <2>7. ASSUME \A s \in Slots :
                 /\ e \in SendAt(s) => Promised(file[s]) /\ ~Sending(s)
                 /\ e \in CloseAt(s) => Settled(s),
               \A c \in Conns : Live(c)' => Stage(c)'
        PROVE  Books'
    <3>1. ASSUME NEW s \in Slots
          PROVE  /\ Accepted(s)' \/ Adopting(s)' => Untouched(file[s])'
                 /\ Closing(s)' => Settled(s)'
                 /\ Sending(s)' => Promised(file[s])' /\ Once(sq', SendAt(s))
      <4>1. Accepted(s)' \/ Adopting(s)' => Untouched(file[s])'
        BY <2>1, <2>5, Zenon, ZenonT(60) DEF Books, Untouched
      <4>2. Closing(s)' => Settled(s)'
        BY <2>1, <2>5, <2>7, Zenon, ZenonT(60) DEF Books, Settled
      <4>3. Sending(s)' => Promised(file[s])'
        BY <2>1, <2>5, <2>7, Zenon, ZenonT(60) DEF Books, Promised
      <4>4. Once(sq', SendAt(s)) \/ ~Sending(s)'
        <5>1. CASE Sending(s)
          BY <2>1, <2>5, <2>7, <5>1, Zenon, ZenonT(60) DEF Books
        <5>2. CASE ~Sending(s)
          <6>1. Once(sq, SendAt(s))
            BY <5>2 DEF Sending, In, Once
          <6>2. QED
            BY <2>5, <5>2, <6>1
        <5>3. QED
          BY <5>1, <5>2
      <4>5. QED
        BY <4>1, <4>2, <4>3, <4>4
    <3>2. \A k \in Clients : sock'[k] \in {"new", "queued"} => Untouched(k)'
      BY <2>1, <2>4 DEF Books
    <3>3. QED
      BY <2>7, <3>1, <3>2, Zenon, ZenonT(60) DEF Books
  <2>8. CASE Head(todo).call = "arm" \/ Head(todo).call = "recv"
    <3>1. e.op # "send" /\ e.op # "close" /\ freelist' = freelist
      BY <2>8 DEF Prep, fa_arm_accept, fa_submit_recv, PrepSqe
    <3> HIDE DEF e
    <3>2. \A s \in Slots : e \notin SendAt(s) /\ e \notin CloseAt(s)
      BY <2>2, <3>1 DEF SendAt, CloseAt
    <3>3. \A c \in Conns : ~Answering(c) /\ ~Dismissing(c)
      <4>1. ASSUME NEW c \in Conns, Answering(c) \/ Dismissing(c) PROVE FALSE
        <5>1. Head(todo) = OnConn("send", c) \/ Head(todo) = OnConn("close", c)
          BY <4>1, StageCalls, Zenon
        <5>2. QED
          BY <2>8, <5>1, CallFields
      <4>2. QED
        BY <4>1
    <3>4. ASSUME NEW c \in Conns, Live(c)' PROVE Stage(c)'
      <4>1. Live(c)
        BY <2>1, <3>1, <3>4 DEF Live
      <4>2. Untouched(file[fd[c]])
        BY <2>1, <3>3, <4>1, StageIdle DEF Books
      <4>3. Untouched(file[fd[c]])'
        BY <2>1, <4>2 DEF Untouched
      <4>4. QED
        BY <2>6, <3>3, <4>3 DEF Stage
    <3>5. QED
      BY <2>7, <3>2, <3>4
  <2>9. CASE Head(todo).call = "send"
    <3>1. PICK c \in Conns : Head(todo) = OnConn("send", c)
      BY <2>1, <2>9, HelperCall, Zenon
    <3>2. Answering(c)
      BY <2>1, <3>1, HelperStages
    <3>3. Head(todo).conn = c
      BY <3>1, CallFields
    <3>4. e.op = "send" /\ e.slot = fd[c] /\ freelist' = freelist
      BY <2>9, <3>3 DEF Prep, fa_submit_reply, PrepSqe
    <3>5. Live(c) /\ fd[c] \in Slots
      BY <2>3, <3>2 DEF Refs
    <3>6. Promised(file[fd[c]]) /\ ~Sending(fd[c])
      BY <2>1, <3>2, <3>5, Zenon, ZenonT(60) DEF Books, Stage
    <3> HIDE DEF e
    <3>7. \A s \in Slots : (e \in SendAt(s) <=> s = fd[c]) /\ e \notin CloseAt(s)
      BY <2>2, <3>4 DEF SendAt, CloseAt
    <3>8. ASSUME NEW d \in Conns, Live(d)' PROVE Stage(d)'
      <4>1. Live(d)
        BY <2>1, <3>4, <3>8 DEF Live
      <4>2. CASE d = c
        <5>1. Sending(fd[d])'
          BY <2>5, <3>5, <3>7, <4>2, <2>1 DEF Sending
        <5>2. Dismissing(d)' /\ ~Answering(d)'
          BY <2>6, <3>2, <4>2
        <5>3. QED
          BY <5>1, <5>2 DEF Stage, Settled
      <4>3. CASE d # c
        <5>1. ~Answering(d) /\ ~Dismissing(d)
          BY <3>2, <4>3, OtherCalls, Zenon, ZenonT(60) DEF Answering, Dismissing
        <5>2. Untouched(file[fd[d]])
          BY <2>1, <4>1, <5>1, StageIdle, Zenon, ZenonT(60) DEF Books
        <5>3. Untouched(file[fd[d]])'
          BY <2>1, <5>2, Zenon, ZenonT(60) DEF Untouched
        <5>4. QED
          BY <2>6, <5>1, <5>3 DEF Stage
      <4>4. QED
        BY <4>2, <4>3
    <3>9. QED
      BY <2>7, <3>6, <3>7, <3>8
  <2>10. CASE Head(todo).call = "close"
    <3>1. PICK c \in Conns : Head(todo) = OnConn("close", c) /\ HasConn(todo, c)
      BY <2>1, <2>10, HelperCall, Zenon
    <3>2. Dismissing(c)
      BY <2>1, <3>1, HelperStages
    <3>3. Head(todo).conn = c
      BY <3>1, CallFields
    <3>4. e.op = "close" /\ e.slot = fd[c] /\ freelist' = <<c>> \o freelist
      BY <2>10, <3>3 DEF Prep, fa_submit_close, PrepSqe, fa_conn_free
    <3>5. /\ Live(c) /\ fd[c] \in Slots /\ ~Live(c)'
          /\ \A d \in Conns : d # c => (Live(d)' <=> Live(d))
      BY <2>1, <2>3, <3>1, <3>4, FreeLive, Zenon, ZenonT(60) DEF Refs, Sound
    <3>6. ~Answering(c) /\ Settled(fd[c])
      <4>1. ~Answering(c)
        BY <3>2, StageCalls
      <4>2. QED
        BY <2>1, <3>2, <3>5, <4>1, Zenon, ZenonT(60) DEF Books, Stage
    <3> HIDE DEF e
    <3>7. \A s \in Slots : (e \in CloseAt(s) <=> s = fd[c]) /\ e \notin SendAt(s)
      BY <2>2, <3>4 DEF SendAt, CloseAt
    <3>8. ASSUME NEW d \in Conns, Live(d)' PROVE Stage(d)'
      <4>1. Live(d) /\ d # c
        BY <3>5, <3>8
      <4>2. ~Answering(d) /\ ~Dismissing(d)
        BY <3>2, <4>1, OtherCalls, Zenon, ZenonT(60) DEF Answering, Dismissing
      <4>3. Untouched(file[fd[d]])
        BY <2>1, <4>1, <4>2, StageIdle DEF Books
      <4>4. Untouched(file[fd[d]])'
        BY <2>1, <4>3 DEF Untouched
      <4>5. QED
        BY <2>6, <4>2, <4>4 DEF Stage
    <3>9. QED
      BY <2>7, <3>6, <3>7, <3>8, Zenon, ZenonT(60)
  <2>11. QED
    <3>1. Head(todo).call \in {"arm", "recv", "send", "close"}
      BY <2>1, HelperCall, Zenon
    <3>2. QED
      BY <2>8, <2>9, <2>10, <3>1
\* The kernel consumes an SQE that concerns no descriptor but s.
<1>BooksIssued.
    ASSUME Sound, Fed, Books, Next, NEW s,
           IssueAccept \/ IssueRecv \/ IssueSend \/ IssueClose,
           \A k \in Clients : sock'[k] \in {"new", "queued"} => Untouched(k)',
           \A t \in Slots : t # s =>
             /\ Head(sq) \notin SendAt(t) /\ Head(sq) \notin CloseAt(t)
             /\ file'[t] = file[t]
             /\ file[t] \in Clients => inbox'[file[t]] = inbox[file[t]],
           s \in Slots =>
             /\ ~Accepted(s) /\ ~Adopting(s) /\ ~Sending(s)'
             /\ Closing(s)' => Settled(s)'
             /\ \A c \in Conns : Live(c) /\ fd[c] = s => Stage(c)'
    PROVE  Books'
  <2> USE <1>BooksIssued
  <2>1. /\ pc # "torn" /\ sq \in Seq(Sqe) /\ sq # <<>> /\ sq' = Tail(sq)
        /\ cq \in Seq(Cqe) /\ Head(sq) \in Sqe
        /\ UNCHANGED <<pc, freelist, heap, fd, todo, verdicts>>
    BY IssueFrame, Zenon, ZenonT(60) DEF Sound
  <2>2. ASSUME NEW t \in Slots
        PROVE  /\ Accepted(t)' => Accepted(t)
               /\ Adopting(t)' <=> Adopting(t)
    <3>1. cq' = cq \/ \E e \in Cqe : ~e.ok /\ cq' = Append(cq, e)
      BY <2>1, IssuePosts, Zenon, ZenonT(60)
    <3>2. ASSUME NEW e \in Cqe, ~e.ok, cq' = Append(cq, e)
          PROVE  Accepted(t)' => Accepted(t)
      <4>1. e \notin AcceptedAt(t)
        BY <3>2, SlotEntries, Zenon, ZenonT(60)
      <4>2. QED
        BY <2>1, <3>2, <4>1, AppendIn, Zenon, ZenonT(60) DEF Accepted
    <3>3. cq' = cq => (Accepted(t)' => Accepted(t))
      BY DEF Accepted
    <3>4. QED
      BY <2>1, <3>1, <3>2, <3>3 DEF Adopting
  <2>3. ASSUME NEW t \in Slots, t # s
        PROVE  /\ Sending(t)' <=> Sending(t)
               /\ Closing(t)' <=> Closing(t)
               /\ Once(sq, SendAt(t)) => Once(sq', SendAt(t))
               /\ file'[t] = file[t]
               /\ file[t] \in Clients =>
                    /\ Untouched(file[t])' <=> Untouched(file[t])
                    /\ Promised(file[t])' <=> Promised(file[t])
                    /\ Settled(t)' <=> Settled(t)
    <3>1. /\ Sending(t)' <=> Sending(t)
          /\ Closing(t)' <=> Closing(t)
          /\ Once(sq, SendAt(t)) => Once(sq', SendAt(t))
      BY <2>1, <2>3, TailIn, Zenon, ZenonT(60) DEF Sending, Closing
    <3>2. file'[t] = file[t]
      BY <2>3
    <3>3. ASSUME file[t] \in Clients
          PROVE  /\ Untouched(file[t])' <=> Untouched(file[t])
                 /\ Promised(file[t])' <=> Promised(file[t])
                 /\ Settled(t)' <=> Settled(t)
      <4>1. inbox'[file[t]] = inbox[file[t]]
        BY <2>3, <3>3, Zenon, ZenonT(60)
      <4>2. QED
        BY <2>1, <3>1, <3>2, <4>1, Zenon, ZenonT(60) DEF Untouched, Promised, Settled
    <3>4. QED
      BY <3>1, <3>2, <3>3, Zenon, ZenonT(60)
  <2>4. ASSUME NEW t \in Slots
        PROVE  /\ Accepted(t)' \/ Adopting(t)' => Untouched(file[t])'
               /\ Closing(t)' => Settled(t)'
               /\ Sending(t)' => Promised(file[t])' /\ Once(sq', SendAt(t))
    <3>1. CASE t = s
      BY <2>2, <3>1, Zenon, ZenonT(60)
    <3>2. CASE t # s
      <4>1. Accepted(t) \/ Adopting(t) \/ Closing(t) \/ Sending(t)
              => file[t] \in Clients
        BY <2>1, Apart, Zenon, ZenonT(60)
      <4>2. Untouched(file[t])' <=> (verdicts'[file'[t]] = <<>> /\ inbox'[file'[t]] = <<>>)
        BY Zenon, ZenonT(60) DEF Untouched
      <4>3. /\ Accepted(t)' \/ Adopting(t)' => Untouched(file[t])'
        BY <2>1, <2>2, <2>3, <3>2, <4>1, Zenon, ZenonT(60) DEF Books, Untouched
      <4>4. Closing(t)' => Settled(t)'
        BY <2>1, <2>3, <3>2, <4>1, Zenon, ZenonT(60) DEF Books
      <4>5. Sending(t)' => Promised(file[t])' /\ Once(sq', SendAt(t))
        BY <2>1, <2>3, <3>2, <4>1, Zenon, ZenonT(60) DEF Books, Promised
      <4>6. QED
        BY <4>3, <4>4, <4>5, Zenon, ZenonT(60)
    <3>3. QED
      BY <3>1, <3>2, Zenon, ZenonT(60)
  <2>5. ASSUME NEW c \in Conns, Live(c)' PROVE Stage(c)'
    <3>1. Live(c)
      BY <2>1, <2>5 DEF Live
    <3>2. fd[c] \in Slots /\ Owned(fd[c])
      BY <2>1, <3>1, LiveRefs, Zenon, ZenonT(60) DEF Refs, Sound, Owned
    <3>3. CASE fd[c] # s
      <4>1. file[fd[c]] \in Clients
        BY <2>1, <3>2, Apart, Zenon, ZenonT(60)
      <4>2. /\ Answering(c)' <=> Answering(c)
            /\ Dismissing(c)' <=> Dismissing(c)
        BY <2>1 DEF Answering, Dismissing
      <4>3. Stage(c)
        BY <2>1, <3>1, Zenon, ZenonT(60) DEF Books
      <4>4. /\ Sending(fd[c])' <=> Sending(fd[c])
            /\ Untouched(file[fd[c]])' <=> Untouched(file[fd[c]])
            /\ Promised(file[fd[c]])' <=> Promised(file[fd[c]])
            /\ Settled(fd[c])' <=> Settled(fd[c])
        <5>1. fd'[c] = fd[c] /\ file'[fd[c]] = file[fd[c]]
          BY <2>1, <2>3, <3>2, <3>3, Zenon, ZenonT(60)
        <5>2. inbox'[file[fd[c]]] = inbox[file[fd[c]]]
          BY <3>2, <3>3, <4>1, Zenon, ZenonT(60)
        <5>3. Sending(fd[c])' <=> Sending(fd[c])
          BY <2>1, <2>3, <3>2, <3>3, Zenon, ZenonT(60) DEF Sending
        <5>4. QED
          BY <2>1, <5>1, <5>2, <5>3, Zenon, ZenonT(60)
             DEF Untouched, Promised, Settled
      <4>5. QED
        BY <4>2, <4>3, <4>4, Zenon, ZenonT(60) DEF Stage
    <3>4. QED
      BY <3>1, <3>2, <3>3, Zenon, ZenonT(60)
  <2>6. QED
    BY <2>4, <2>5, Zenon, ZenonT(60) DEF Books
\* The kernel consumes an accept or a recv.
<1>BooksIssue.
    ASSUME Sound, Fed, Books, IssueAccept \/ IssueRecv
    PROVE  Books'
  <2> USE <1>BooksIssue
  <2>1. /\ UNCHANGED <<file, sock, inbox, verdicts>> /\ Next
        /\ Head(sq).op \in {"accept", "recv"}
    BY IssueFrame, Zenon, ZenonT(60)
       DEF Sound, IssueAccept, IssueRecv, Issue, Next, WorkerStep
  <2>2. \A t \in Slots : Head(sq) \notin SendAt(t) /\ Head(sq) \notin CloseAt(t)
    BY <2>1 DEF SendAt, CloseAt
  <2>3. \A k \in Clients : sock'[k] \in {"new", "queued"} => Untouched(k)'
    BY <2>1, Zenon, ZenonT(60) DEF Books, Untouched
  <2>4. NoSlot \notin Slots
    BY WorkerAssumption
  <2>5. QED
    BY <2>1, <2>2, <2>3, <2>4, <1>BooksIssued, Zenon, ZenonT(60)
\* The kernel sends: the peer of a promised reply has it, or the send failed.
<1>BooksSent.
    ASSUME Sound, Fed, Books, IssueSend
    PROVE  Books'
  <2> USE <1>BooksSent
  <2>1. /\ UNCHANGED <<file, sock, verdicts, pc, todo, fd>> /\ Next /\ pc # "torn"
        /\ sq # <<>> /\ sq' = Tail(sq) /\ sq \in Seq(Sqe)
    BY IssueFrame, Zenon, ZenonT(60) DEF Sound, IssueSend, Next, WorkerStep
  <2>2. PICK s \in Slots :
          /\ Head(sq) \in SendAt(s) /\ Sending(s) /\ ~Sending(s)'
          /\ file[s] \in Clients /\ Promised(file[s]) /\ sock[file[s]] = "open"
          /\ \/ UNCHANGED inbox /\ "send" \in Faults
             \/ /\ Len(inbox'[file[s]]) = 1
                /\ \A k \in Clients : k # file[s] => inbox'[k] = inbox[k]
    BY Sent, Zenon, ZenonT(60)
  <2>3. \A k \in Clients : k # file[s] => inbox'[k] = inbox[k]
    BY <2>2
  <2>4. \A k \in Clients : sock'[k] \in {"new", "queued"} => Untouched(k)'
    BY <2>1, <2>2, <2>3, Zenon, ZenonT(60) DEF Books, Untouched
  <2>5. ASSUME NEW t \in Slots, t # s
        PROVE  /\ Head(sq) \notin SendAt(t) /\ Head(sq) \notin CloseAt(t)
               /\ file'[t] = file[t]
               /\ file[t] \in Clients => inbox'[file[t]] = inbox[file[t]]
    <3>1. Head(sq) \notin SendAt(t) /\ Head(sq) \notin CloseAt(t)
      BY <2>2, <2>5 DEF SendAt, CloseAt
    <3>2. file[t] # file[s]
      BY <2>1, <2>2, <2>5, Apart, WorkerAssumption, Zenon, ZenonT(60)
    <3>3. QED
      BY <2>1, <2>3, <3>1, <3>2, Zenon, ZenonT(60)
  <2>6. ~Accepted(s) /\ ~Adopting(s)
    BY <2>1, <2>2, Apart, Zenon, ZenonT(60)
  <2>7. Settled(s)'
    <3>1. "send" \in Faults \/ Len(inbox'[file'[s]]) = 1
      BY <2>1, <2>2
    <3>2. QED
      BY <3>1 DEF Settled
  <2>8. ASSUME NEW c \in Conns, Live(c), fd[c] = s PROVE Stage(c)'
    <3>1. Stage(c)
      BY <2>1, <2>8 DEF Books
    <3>2. ~Answering(c) /\ Dismissing(c)
      BY <2>2, <2>8, <3>1, Words, Zenon, ZenonT(60) DEF Stage
    <3>3. ~Answering(c)' /\ Dismissing(c)'
      BY <2>1, <3>2 DEF Answering, Dismissing
    <3>4. Settled(fd[c])'
      BY <2>1, <2>7, <2>8, Zenon, ZenonT(60) DEF Settled, Sending
    <3>5. QED
      BY <3>3, <3>4 DEF Stage
  <2>9. QED
    BY <2>1, <2>2, <2>4, <2>5, <2>6, <2>7, <2>8, <1>BooksIssued, Zenon, ZenonT(60)
\* The kernel closes a descriptor.
<1>BooksClosed.
    ASSUME Sound, Fed, Books, IssueClose
    PROVE  Books'
  <2> USE <1>BooksClosed
  <2>1. /\ UNCHANGED <<inbox, verdicts, pc, fd>> /\ Next /\ pc # "torn"
    BY IssueFrame, Zenon, ZenonT(60) DEF Sound, IssueClose, Next, WorkerStep
  <2>2. PICK s \in Slots :
             /\ Head(sq) \in CloseAt(s) /\ Closing(s) /\ ~Closing(s)' /\ ~Sending(s)'
             /\ \A t \in Slots : t # s => file'[t] = file[t]
             /\ \A k \in Clients : sock'[k] = IF k = file[s] THEN "closed"
                                                             ELSE sock[k]
    BY Closed, Zenon, ZenonT(60)
  <2>3. \A k \in Clients : sock'[k] \in {"new", "queued"} => Untouched(k)'
    BY <2>1, <2>2, Zenon, ZenonT(60) DEF Books, Untouched
  <2>4. ASSUME NEW t \in Slots, t # s
        PROVE  Head(sq) \notin SendAt(t) /\ Head(sq) \notin CloseAt(t)
    BY <2>2, <2>4, Zenon, ZenonT(60) DEF SendAt, CloseAt
  <2>5. ~Accepted(s) /\ ~Adopting(s) /\ ~Owned(s)
    BY <2>1, <2>2, Zenon, ZenonT(60) DEF Sound, Held, OneHolder
  <2>6. \A c \in Conns : ~(Live(c) /\ fd[c] = s)
    BY <2>5 DEF Owned
  <2>7. QED
    BY <2>1, <2>2, <2>3, <2>4, <2>5, <2>6, <1>BooksIssued, Zenon, ZenonT(60)
\* A connection is accepted into a descriptor nobody holds.
<1>BooksAccept.
    ASSUME Sound, Fed, Books, AcceptCompletes
    PROVE  Books'
  <2> USE <1>BooksAccept
  <2>1. /\ UNCHANGED <<pc, freelist, heap, fd, todo, sq, inbox, verdicts>>
        /\ pc # "torn" /\ cq \in Seq(Cqe) /\ backlog # <<>>
        /\ file \in [Slots -> Clients \cup {Nobody}]
        /\ sock' = [sock EXCEPT ![Head(backlog)] = "open"]
    BY CompletesFrame, Zenon, ZenonT(60) DEF Sound, AcceptCompletes
  <2>2. PICK s \in Slots : /\ file[s] = Nobody
                           /\ file' = [file EXCEPT ![s] = Head(backlog)]
                           /\ \E e \in AcceptedAt(s) : cq' = Append(cq, e)
    <3>1. PICK s \in Slots, more \in BOOLEAN :
            /\ file[s] = Nobody
            /\ file' = [file EXCEPT ![s] = Head(backlog)]
            /\ cq' = Append(cq, AcceptCqe(s, more))
      BY Zenon, ZenonT(60) DEF AcceptCompletes
    <3>2. AcceptCqe(s, more) \in AcceptedAt(s)
      BY WorkerAssumption, Zenon, ZenonT(60) DEF AcceptCqe, AcceptedAt, Cqe
    <3>3. QED
      BY <3>1, <3>2, Zenon
  <2>3. PICK e \in AcceptedAt(s) : cq' = Append(cq, e)
    BY <2>2
  <2>4. e \in Cqe /\ \A t \in Slots : e \in AcceptedAt(t) <=> t = s
    BY <2>3 DEF AcceptedAt
  <2>5. \A t \in Slots : (Accepted(t)' <=> Accepted(t) \/ t = s)
    BY <2>1, <2>3, <2>4, AppendIn DEF Accepted
  <2>6. Head(backlog) \in Clients /\ sock[Head(backlog)] = "queued"
    BY <2>1, TablePop, Zenon, ZenonT(60) DEF Sound
  <2>7. Untouched(Head(backlog))
    BY <2>6, Zenon, ZenonT(60) DEF Books
  <2>8. /\ ~Accepted(s) /\ ~Adopting(s) /\ ~Owned(s) /\ ~Closing(s) /\ ~Sending(s)
    <3>1. file[s] \notin Clients
      BY <2>2, WorkerAssumption
    <3>2. QED
      BY <2>1, <3>1, Apart
  <2>9. file'[s] = Head(backlog) /\ \A t \in Slots : t # s => file'[t] = file[t]
    BY <2>1, <2>2
  <2>10. /\ \A k : (Untouched(k)' <=> Untouched(k)) /\ (Promised(k)' <=> Promised(k))
         /\ \A t \in Slots : /\ Adopting(t)' <=> Adopting(t)
                             /\ Closing(t)' <=> Closing(t)
                             /\ Sending(t)' <=> Sending(t)
    BY <2>1, Zenon, ZenonT(60) DEF Untouched, Promised, Adopting, Closing, Sending
  <2>11. \A k \in Clients : sock'[k] \in {"new", "queued"} => Untouched(k)'
    <3>1. sock \in [Clients -> {"new", "queued", "open", "closed", "reset"}]
      BY DEF Sound, TypeInv, TypeOK
    <3>2. QED
      BY <2>1, <2>6, <2>10, <3>1 DEF Books
  <2>12. ASSUME NEW t \in Slots
         PROVE  /\ Accepted(t)' \/ Adopting(t)' => Untouched(file[t])'
                /\ Closing(t)' => Settled(t)'
                /\ Sending(t)' => Promised(file[t])' /\ Once(sq', SendAt(t))
    <3>1. CASE t = s
      <4>1. Untouched(file[t])'
        BY <2>1, <2>7, <2>9, <3>1 DEF Untouched
      <4>2. QED
        BY <2>8, <2>10, <3>1, <4>1
    <3>2. CASE t # s
      <4>1. file'[t] = file[t]
        BY <2>9, <3>2
      <4>2. Accepted(t)' \/ Adopting(t)' => Untouched(file[t])'
        BY <2>1, <2>5, <2>10, <3>2, <4>1, Zenon, ZenonT(60) DEF Books, Untouched
      <4>3. Closing(t)' => Settled(t)'
        BY <2>1, <2>10, <4>1, Zenon, ZenonT(60) DEF Books, Settled
      <4>4. Sending(t)' => Promised(file[t])' /\ Once(sq', SendAt(t))
        BY <2>1, <2>10, <4>1, Zenon, ZenonT(60) DEF Books, Promised
      <4>5. QED
        BY <4>2, <4>3, <4>4
    <3>3. QED
      BY <3>1, <3>2
  <2>13. ASSUME NEW c \in Conns, Live(c)' PROVE Stage(c)'
    <3>1. Live(c)
      BY <2>1, <2>13 DEF Live
    <3>2. fd[c] \in Slots
      BY <2>1, <3>1, LiveRefs, Zenon, ZenonT(60) DEF Refs, Sound
    <3>3. fd[c] # s
      BY <2>8, <3>1 DEF Owned
    <3>4. fd'[c] = fd[c] /\ file'[fd[c]] = file[fd[c]] /\ Stage(c)
      BY <2>1, <2>9, <3>1, <3>2, <3>3, Zenon, ZenonT(60) DEF Books
    <3>5. QED
      BY <2>1, <3>4, <1>StageSame
  <2>14. QED
    BY <2>11, <2>12, <2>13, Zenon, ZenonT(60) DEF Books
<1> SUFFICES ASSUME Sound, Fed, Books, [Next]_vars PROVE Books'
  OBVIOUS
<1>1. Sound'
  BY SoundNext
<1>2. CASE UNCHANGED vars
  BY <1>2, Zenon, ZenonT(60)
     DEF vars, Books, Untouched, Promised, Settled, Stage, Answering,
     Dismissing, Sending, Accepted, Adopting, Closing, Live
<1>3. CASE Teardown
  <2>1. /\ pc' = "torn" /\ UNCHANGED <<verdicts, inbox>>
        /\ \A k \in Clients : sock'[k] \in {sock[k], "reset"}
    BY <1>3 DEF Teardown, clientVars
  <2>2. QED
    BY <2>1, Zenon, ZenonT(60) DEF Books, Untouched
<1>4. ~Fallback
  <2>1. TypeInv /\ Own /\ Emptied
    BY DEF Sound
  <2>2. QED
    BY <2>1, EmptiedNext
<1>5. QED
  BY <1>1, <1>2, <1>3, <1>4, <1>BooksControl, <1>BooksEntry, <1>BooksSkip, <1>BooksDecide,
     <1>BooksAdopt, <1>BooksPrep, <1>BooksIssue, <1>BooksSent, <1>BooksClosed,
     <1>BooksAccept, Zenon
     DEF Next, WorkerStep, Control

\* At the start nothing is open and nothing is owed.
LEMMA BooksInit == Init => Books
<1> SUFFICES ASSUME Init PROVE Books
  OBVIOUS
<1>1. /\ sq = <<>> /\ cq = <<>> /\ todo = <<>> /\ heap = {}
      /\ verdicts = [k \in Clients |-> <<>>] /\ inbox = [k \in Clients |-> <<>>]
  BY DEF Init
<1>2. \A s \in Slots : /\ ~Accepted(s) /\ ~Adopting(s)
                       /\ ~Closing(s) /\ ~Sending(s)
  BY <1>1 DEF Accepted, Adopting, Closing, Sending, In
<1>3. \A c \in Conns : ~Live(c)
  BY <1>1 DEF Live
<1>4. \A k \in Clients : Untouched(k)
  BY <1>1 DEF Untouched
<1>5. QED
  BY <1>2, <1>3, <1>4, Zenon, ZenonT(60) DEF Books

-----------------------------------------------------------------------------
(* The worker implements Exchange.                                          *)

\* The initial states correspond.
LEMMA ContractInit == Init => Contract!Init
<1> SUFFICES ASSUME Init PROVE Contract!Init
  OBVIOUS
<1>1. /\ sock = [k \in Clients |-> "new"] /\ verdicts = [k \in Clients |-> <<>>]
      /\ inbox = [k \in Clients |-> <<>>]
  BY DEF Init
<1>2. QED
  BY <1>1 DEF Contract!Init

\* Every step of a worker is a step of the contract or a stutter.
LEMMA ContractStep == Sound /\ Fed /\ Books /\ [Next]_vars => [Contract!Next]_Contract!vars
\* A step that changes no connection, verdict or inbox is a stutter.
<1>Stutters.
    ASSUME UNCHANGED <<sock, verdicts, inbox>>
    PROVE  UNCHANGED Contract!vars
  BY <1>Stutters DEF Contract!vars
\* A step that changes the state of one connection.
<1>OneConn.
    ASSUME TypeInv, NEW k \in Clients, NEW v, v # "queued",
           sock' = [sock EXCEPT ![k] = v], UNCHANGED <<verdicts, inbox>>
    PROVE  /\ sock[k] = "queued" /\ v = "open" => Contract!Accept(k)
           /\ sock[k] = "queued" /\ v = "closed" => Contract!Refuse(k)
           /\ /\ sock[k] = "open" /\ v = "closed"
              /\ verdicts[k] = <<"reply">> =>
                   "send" \in Faults \/ Len(inbox[k]) = 1
              => Contract!Close(k)
  <2> USE <1>OneConn
  <2>1. sock \in [Clients -> {"new", "queued", "open", "closed", "reset"}]
    BY DEF TypeInv, TypeOK
  <2> DEFINE C == [j \in Clients |-> IF sock[j] = "queued" THEN "waiting"
                                                           ELSE sock[j]]
             R == [j \in Clients |-> Len(inbox[j])]
  <2>2. C' = [C EXCEPT ![k] = v]
    BY <2>1, Zenon, ZenonT(60)
  <2>3. R' = R /\ R[k] = Len(inbox[k])
    OBVIOUS
  <2>4. C[k] = IF sock[k] = "queued" THEN "waiting" ELSE sock[k]
    OBVIOUS
  <2> HIDE DEF C, R
  <2>5. QED
    BY <2>2, <2>3, <2>4, Zenon, ZenonT(60)
       DEF Contract!Accept, Contract!Refuse, Contract!Close, C, R
<1> SUFFICES ASSUME Sound, Fed, Books, [Next]_vars PROVE [Contract!Next]_Contract!vars
  OBVIOUS
<1>1. /\ sock \in [Clients -> {"new", "queued", "open", "closed", "reset"}]
      /\ file \in [Slots -> Clients \cup {Nobody}]
      /\ inbox \in [Clients -> Seq(Message)] /\ backlog \in Seq(Clients)
      /\ TypeInv
  BY DEF Sound, TypeInv, TypeOK
<1>2. CASE UNCHANGED <<sock, verdicts, inbox>>
  BY <1>2, <1>Stutters
<1>3. ASSUME NEW k \in Clients, Connect(k) PROVE Contract!Arrive(k)
  <2>1. /\ sock[k] = "new" /\ sock' = [sock EXCEPT ![k] = "queued"]
        /\ UNCHANGED <<verdicts, inbox>>
    BY <1>3 DEF Connect, clientVars
  <2>2. QED
    BY <1>1, <2>1, Zenon, ZenonT(60) DEF Contract!Arrive
<1>4. CASE AcceptCompletes
  <2>1. /\ backlog # <<>> /\ sock' = [sock EXCEPT ![Head(backlog)] = "open"]
        /\ UNCHANGED <<verdicts, inbox>>
    BY <1>4 DEF AcceptCompletes, Completes, clientVars
  <2>2. PICK k \in Clients : k = Head(backlog) /\ sock[k] = "queued"
    BY <1>1, <2>1, TablePop, Zenon, ZenonT(60) DEF Sound
  <2>3. Contract!Accept(k)
    BY <1>1, <2>1, <2>2, <1>OneConn, Zenon, ZenonT(60)
  <2>4. QED
    BY <2>3 DEF Contract!Next
<1>5. CASE AcceptFails
  <2>1. /\ backlog # <<>> /\ UNCHANGED <<verdicts, inbox>>
        /\ \/ sock' = sock
           \/ sock' = [sock EXCEPT ![Head(backlog)] = "closed"]
    BY <1>5 DEF AcceptFails, Completes, clientVars
  <2>2. CASE sock' = [sock EXCEPT ![Head(backlog)] = "closed"]
    <3>1. PICK k \in Clients : k = Head(backlog) /\ sock[k] = "queued"
      BY <1>1, <2>1, TablePop, Zenon, ZenonT(60) DEF Sound
    <3>2. Contract!Refuse(k)
      BY <1>1, <2>1, <2>2, <3>1, <1>OneConn, Zenon, ZenonT(60)
    <3>3. QED
      BY <3>2 DEF Contract!Next
  <2>3. QED
    BY <1>2, <2>1, <2>2
<1>6. CASE HandleRequest
  <2>1. PICK c \in Conns, v \in {"reply", "decline"} :
          /\ fd[c] \in Slots /\ file[fd[c]] \in Clients /\ Untouched(file[fd[c]])
          /\ verdicts' = [verdicts EXCEPT ![file[fd[c]]] = <<v>>]
    BY <1>6, Decides, Zenon
  <2>2. PICK k \in Clients : k = file[fd[c]] /\ sock[k] = "open"
    BY <2>1, WorkerAssumption DEF Sound, Table
  <2>3. UNCHANGED <<sock, inbox>>
    BY <1>6, Zenon, ZenonT(60) DEF HandleRequest
  <2>4. Contract!Decide(k)
    <3>1. verdicts[k] = <<>> /\ verdicts' = [verdicts EXCEPT ![k] = <<v>>]
      BY <2>1, <2>2 DEF Untouched
    <3>2. QED
      BY <1>1, <2>2, <2>3, <3>1, Zenon, ZenonT(60) DEF Contract!Decide
  <2>5. QED
    BY <2>4 DEF Contract!Next
<1>7. CASE AdoptConn
  <2>1. /\ UNCHANGED <<verdicts, inbox, backlog>> /\ pc = "drain" /\ todo # <<>>
        /\ Head(todo).call = "adopt" /\ todo \in HandlerCalls
    BY <1>1, <1>7 DEF AdoptConn, clientVars, TypeInv, TypeOK
  <2>2. PICK s \in Slots : todo = <<Adopt(s)>>
    BY <2>1, HandlerCallsShape, CallTuples, CallFields
  <2>3. Adopting(s) /\ Head(todo).slot = s
    <3>1. Head(todo).slot = s
      BY <2>2, CallTuples, CallFields, Zenon, ZenonT(60)
    <3>2. Adopting(s)
      BY <2>2, AdoptLists, Zenon, ZenonT(60) DEF Adopting
    <3>3. QED
      BY <3>1, <3>2
  <2>4. file[s] \in Clients /\ Untouched(file[s])
    BY <2>1, <2>3, Apart, Zenon, ZenonT(60) DEF Books
  <2>5. PICK k \in Clients : k = file[s] /\ sock[k] = "open"
    BY <2>4, WorkerAssumption, Zenon, ZenonT(60) DEF Sound, Table
  <2>6. UNCHANGED sock \/ Release(s)
    BY <1>7, <2>3, Zenon, ZenonT(60) DEF AdoptConn, CloseUnlessDirect
  <2>7. CASE Release(s)
    <3>1. sock' = [sock EXCEPT ![k] = "closed"]
      BY <1>1, <2>4, <2>5, <2>7, WorkerAssumption DEF Release
    <3>2. verdicts[k] # <<"reply">>
      BY <2>4, <2>5, Words
    <3>3. Contract!Close(k)
      BY <1>1, <2>1, <2>5, <3>1, <3>2, <1>OneConn, Zenon, ZenonT(60)
    <3>4. QED
      BY <3>3 DEF Contract!Next
  <2>8. QED
    BY <1>2, <2>1, <2>6, <2>7
<1>8. CASE IssueSend
  <2>1. PICK s \in Slots :
           /\ file[s] \in Clients /\ Promised(file[s]) /\ sock[file[s]] = "open"
           /\ \/ UNCHANGED inbox
              \/ /\ Len(inbox'[file[s]]) = 1
                 /\ \A k \in Clients : k # file[s] => inbox'[k] = inbox[k]
    BY <1>8, Sent, Zenon, ZenonT(60)
  <2>2. UNCHANGED <<sock, verdicts>>
    BY <1>1, <1>8, IssueFrame, Zenon, ZenonT(60) DEF IssueSend
  <2>3. CASE /\ Len(inbox'[file[s]]) = 1
             /\ \A k \in Clients : k # file[s] => inbox'[k] = inbox[k]
    <3>1. PICK k \in Clients : k = file[s]
      BY <2>1
    <3>2. Contract!Deliver(k)
      <4>1. verdicts[k] = <<"reply">> /\ Len(inbox[k]) = 0
        BY <2>1, <3>1, Zenon, ZenonT(60) DEF Promised
      <4>2. \A j \in Clients : Len(inbox'[j]) = IF j = k THEN 1 ELSE Len(inbox[j])
        BY <2>3, <3>1, Zenon, ZenonT(60)
      <4>3. QED
        BY <2>1, <2>2, <3>1, <4>1, <4>2, Zenon, ZenonT(60) DEF Contract!Deliver
    <3>3. QED
      BY <3>2 DEF Contract!Next
  <2>4. QED
    BY <1>2, <2>1, <2>2, <2>3, Zenon, ZenonT(60)
<1>9. CASE IssueClose
  <2>1. PICK s \in Slots :
           /\ file[s] \in Clients /\ sock[file[s]] = "open"
           /\ verdicts[file[s]] = <<"reply">> =>
                "send" \in Faults \/ Len(inbox[file[s]]) = 1
           /\ \A k \in Clients : sock'[k] = IF k = file[s] THEN "closed"
                                                           ELSE sock[k]
    BY <1>9, Closed
  <2>2. UNCHANGED <<verdicts, inbox>>
    BY <1>1, <1>9, IssueFrame, Zenon, ZenonT(60) DEF IssueClose
  <2>3. PICK k \in Clients : k = file[s]
    BY <2>1
  <2>4. sock' = [sock EXCEPT ![k] = "closed"]
    <3>1. sock' \in [Clients -> {"new", "queued", "open", "closed", "reset"}]
      BY SoundNext, Zenon, ZenonT(60) DEF Sound, TypeInv, TypeOK
    <3>2. QED
      BY <1>1, <2>1, <2>3, <3>1
  <2>5. Contract!Close(k)
    BY <1>1, <2>1, <2>2, <2>3, <2>4, <1>OneConn, Zenon, ZenonT(60)
  <2>6. QED
    BY <2>5 DEF Contract!Next
<1>10. CASE Teardown
  <2>1. UNCHANGED <<verdicts, inbox>>
    BY <1>10 DEF Teardown, clientVars
  <2> DEFINE S == {k \in Clients : k \in Range(backlog)
                                   \/ (direct /\ k \in Range(file))}
  <2>2. sock' = [k \in Clients |-> IF k \in S THEN "reset" ELSE sock[k]]
    BY <1>10 DEF Teardown
  <2>3. \A k \in S : sock[k] \in {"queued", "open"}
    <3>1. \A k \in Clients : k \in Range(backlog) => sock[k] = "queued"
      BY DEF Sound, Table, Range
    <3>2. \A k \in Clients : k \in Range(file) => sock[k] = "open"
      BY <1>1, WorkerAssumption DEF Sound, Table, Range
    <3>3. QED
      BY <3>1, <3>2
  <2>4. S \in SUBSET {k \in Clients : sock[k] \in {"queued", "open"}}
    BY <2>3
  <2> HIDE DEF S
  <2>5. Contract!Shutdown
    BY <1>1, <2>1, <2>2, <2>4, Zenon, ZenonT(60) DEF Contract!Shutdown
  <2>6. QED
    BY <2>5 DEF Contract!Next
<1>11. CASE \/ RingInitFails \/ fa_thread_entry \/ StopSeen \/ Enter \/ EnterFails
            \/ EnterReturns \/ EnterTimesOut \/ BatchDone \/ Flush \/ FlushReturns
            \/ fa_server_stop \/ \E k \in Clients : Write(k)
  BY <1>2, <1>11, Zenon, ZenonT(60)
     DEF RingInitFails, fa_thread_entry, StopSeen, Enter, EnterFails,
         EnterReturns, EnterTimesOut, BatchDone, Flush, FlushReturns,
         fa_server_stop, Write, clientVars, ringVars
<1>12. CASE \/ HandleNull \/ HandleAccept \/ HandleRecvFailed \/ PrepSqe
            \/ IssueAccept \/ IssueRecv \/ RecvCompletes
  BY <1>2, <1>12, Zenon, ZenonT(60)
     DEF HandleNull, HandleAccept, HandleRecvFailed, PrepSqe, IssueAccept,
         IssueRecv, RecvCompletes, Issue, Completes, clientVars
<1>13. ~Fallback
  BY <1>1, EmptiedNext DEF Sound
<1>14. CASE \E k \in Clients : Connect(k)
  BY <1>3, <1>14 DEF Contract!Next
<1>15. CASE UNCHANGED vars
  BY <1>2, <1>15 DEF vars
<1>16. QED
  BY <1>4, <1>5, <1>6, <1>7, <1>8, <1>9, <1>10, <1>11, <1>12, <1>13, <1>14,
     <1>15, Zenon DEF Next, WorkerStep

\* A worker serves each peer as Exchange says: request -> reply -> close, the
\* handler asked once, the reply delivered once and before the close, whatever
\* else fails, as long as io_uring_submit consumes what it is given ("submit"
\* not in Faults): then the helpers' exhaustion fallbacks, which drop a
\* connection after its verdict, are not taken.
THEOREM WorkerServesContract ==
  ASSUME "submit" \notin Faults
  PROVE  Spec => ServesContract
<1>1. Fed
  BY DEF Fed
<1>2. Init => Contract!Init /\ Sound /\ Books
  BY ContractInit, SoundInit, BooksInit
<1>3. Sound /\ Books /\ [Next]_vars =>
        Sound' /\ Books' /\ [Contract!Next]_Contract!vars
  BY <1>1, SoundNext, BooksNext, ContractStep
<1>4. QED
  BY <1>2, <1>3, PTL DEF Spec, ServesContract, Contract!Spec

=============================================================================
