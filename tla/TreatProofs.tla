---------------------------- MODULE TreatProofs -----------------------------
(***************************************************************************)
(* The treatment arm's worker is a worker of the engine: every behaviour   *)
(* of TreatWorker is one of FaWorker, so what is proved of the engine      *)
(* holds of accept-treat.c, for any number of clients, conns and           *)
(* descriptors, any queue depth and batch, and any faults.  At the end,    *)
(* what main does with its sockets and threads (TreatFleet).               *)
(***************************************************************************)
EXTENDS TreatWorker, TreatFleet, FaContractProofs

\* The backends for a leaf that names none, with longer tries if the first fail.
USE SMTT(20), ZenonT(20), SMTT(120), ZenonT(60), SMTT(60)

\* Every step of the arm is a step of the engine.
LEMMA TreatStepIsEngineStep == TreatNext => Next
<1>1. arm_accept \/ submit_recv \/ submit_reply_and_close \/ submit_close
        => PrepSqe \/ Flush \/ FlushReturns \/ Fallback
  BY Zenon DEF arm_accept, submit_recv, submit_reply_and_close, submit_close,
               Helper
<1>2. DrainBatch => \/ HandleNull \/ HandleAccept \/ AdoptConn
                    \/ HandleRecvFailed \/ HandleRequest \/ BatchDone
  BY Zenon DEF DrainBatch, OnAccept, OnRecv, Answer
<1>3. TreatStep => WorkerStep
  BY <1>1, <1>2, Zenon
     DEF TreatStep, thread_entry, submit_and_wait, KernelIssues, WorkerStep
<1>4. QED
  BY <1>3, Zenon DEF TreatNext, Next

\* accept-treat.c's worker implements the engine's worker (FaWorker): it makes
\* the engine's choices with multishot and the direct table asked for, always
\* answers, and is never stopped or torn down.
THEOREM TreatImplementsEngine == TreatSpec => Spec
<1>1. TreatInit => Init
  BY DEF TreatInit
<1>2. [TreatNext]_vars => [Next]_vars
  BY TreatStepIsEngineStep
<1>3. QED
  BY <1>1, <1>2, PTL DEF TreatSpec, Spec

\* No step of the arm stops the worker or tears it down.
LEMMA TreatNeverTorn == NeverTornDown /\ [TreatNext]_vars => NeverTornDown'
<1> SUFFICES ASSUME NeverTornDown, [TreatNext]_vars PROVE NeverTornDown'
  OBVIOUS
<1>1. CASE arm_accept \/ submit_recv \/ submit_reply_and_close \/ submit_close
  <2>1. stop' = stop /\ (pc' = pc \/ pc' = "flush" \/ pc' = "drain")
    BY <1>1, Zenon, ZenonT(60)
       DEF arm_accept, submit_recv, submit_reply_and_close, submit_close,
           Helper, PrepSqe, Flush, FlushReturns, Fallback
  <2>2. QED
    BY <2>1 DEF NeverTornDown
<1>2. CASE DrainBatch
  <2>1. stop' = stop /\ (pc' = pc \/ pc' = "loop")
    BY <1>2, Zenon, ZenonT(60)
       DEF DrainBatch, OnAccept, OnRecv, Answer, HandleNull, HandleAccept,
           AdoptConn, HandleRecvFailed, HandleRequest, BatchDone
  <2>2. QED
    BY <2>1 DEF NeverTornDown
<1>3. CASE thread_entry \/ submit_and_wait
  <2>1. stop' = stop /\ pc' \in {"loop", "enter", "drain", "exited"}
    BY <1>3, Zenon, ZenonT(60)
       DEF thread_entry, submit_and_wait, RingInitFails, fa_thread_entry,
           Enter, EnterFails, EnterReturns, EnterTimesOut
  <2>2. QED
    BY <2>1 DEF NeverTornDown
<1>4. CASE KernelIssues
  <2>1. stop' = stop /\ pc' = pc
    BY <1>4, Zenon, ZenonT(60)
       DEF KernelIssues, IssueAccept, IssueRecv, IssueSend, IssueClose, Issue
  <2>2. QED
    BY <2>1 DEF NeverTornDown
<1>5. CASE AcceptCompletes \/ AcceptFails \/ RecvCompletes
  <2>1. stop' = stop /\ pc' = pc
    BY <1>5, Zenon, ZenonT(60)
       DEF AcceptCompletes, AcceptFails, RecvCompletes, Completes
  <2>2. QED
    BY <2>1 DEF NeverTornDown
<1>6. CASE \E k \in Clients : Connect(k) \/ Write(k)
  <2>1. stop' = stop /\ pc' = pc
    BY <1>6, Zenon, ZenonT(60)
       DEF Connect, Write
  <2>2. QED
    BY <2>1 DEF NeverTornDown
<1>7. CASE UNCHANGED vars
  <2>1. stop' = stop /\ pc' = pc
    BY <1>7, Zenon, ZenonT(60)
       DEF vars
  <2>2. QED
    BY <2>1 DEF NeverTornDown
<1>8. QED
  BY <1>1, <1>2, <1>3, <1>4, <1>5, <1>6, <1>7, Zenon, ZenonT(60)
     DEF TreatNext, TreatStep

\* For the whole life of the process every conn of the arm is in exactly one
\* place: on the freelist, behind one recv or with the handler.  The comment
\* "Safe to free now" (accept-treat.c:181) is right: conn_free runs before the
\* reply and the close are submitted, and no completion names the conn again
\* before conn_alloc has handed it out.
THEOREM TreatConnsOwned == TreatSpec => [](ConnOwnership /\ NeverTornDown)
<1>1. TreatInit => NeverTornDown
  BY DEF TreatInit, Init, NeverTornDown
<1>2. TreatSpec => []NeverTornDown
  BY <1>1, TreatNeverTorn, PTL DEF TreatSpec
<1>3. QED
  BY <1>2, TreatImplementsEngine, ConnsOwned, PTL

\* With QUEUE_DEPTH at least twice CQE_BATCH (4096 and 256) and a kernel that
\* consumes what is submitted, no helper of the arm finds the queue full: "Should
\* not happen with a deep queue" (accept-treat.c:139) is right.
THEOREM TreatQueueNeverFull == TreatSpec => []NoExhaustion
  BY TreatImplementsEngine, QueueNeverFull, PTL

\* The arm inherits the engine's descriptor and accept discipline: no open
\* descriptor belongs to two conns, although submit_reply_and_close frees the
\* conn before its reply and close run, and rearming never leaves two accepts
\* armed.
THEOREM TreatDescriptorsExclusive ==
  TreatSpec => [](DescriptorExclusive /\ NeverArmedTwice)
  BY TreatImplementsEngine, DescriptorsExclusive, AcceptsDoNotPileUp, PTL

-----------------------------------------------------------------------------
(* Every peer is answered once.                                             *)

\* Where an exchange stands, in the terms of the contract.
Exchanged ==
  \A k \in Clients :
    /\ sock[k] \in {"new", "queued"} => verdicts[k] = <<>>
    /\ verdicts[k] = <<>> => Len(inbox[k]) = 0
    /\ sock[k] = "closed" /\ verdicts[k] = <<"reply">> =>
         "send" \in Faults \/ Len(inbox[k]) = 1

\* The contract alone keeps it.
LEMMA ExchangedStep ==
  ASSUME TypeInv, TypeInv', Exchanged, [Contract!Next]_Contract!vars
  PROVE  Exchanged'
<1> DEFINE C == [j \in Clients |-> IF sock[j] = "queued" THEN "waiting"
                                                         ELSE sock[j]]
           R == [j \in Clients |-> Len(inbox[j])]
           State == {"new", "queued", "open", "closed", "reset"}
           Good(c, a, r) ==
             \A k \in Clients :
               /\ c[k] \in {"new", "waiting"} => a[k] = <<>>
               /\ a[k] = <<>> => r[k] = 0
               /\ c[k] = "closed" /\ a[k] = <<"reply">> =>
                    "send" \in Faults \/ r[k] = 1
<1>1. sock \in [Clients -> State] /\ sock' \in [Clients -> State]
  BY Zenon, ZenonT(60) DEF TypeInv, TypeOK
<1>2. DOMAIN verdicts = Clients
  BY DEF TypeInv, TypeOK
<1>3. Exchanged <=> Good(C, verdicts, R)
  BY <1>1 DEF Exchanged
<1>4. Exchanged' <=> Good(C', verdicts', R')
  BY <1>1 DEF Exchanged
<1>5. DOMAIN C = Clients /\ DOMAIN R = Clients
  OBVIOUS
<1> HIDE DEF C, R
<1>6. CASE UNCHANGED Contract!vars
  <2>1. C' = C /\ verdicts' = verdicts /\ R' = R
    BY <1>6 DEF Contract!vars, C, R
  <2>2. QED
    BY <1>3, <1>4, <2>1
<1>7. ASSUME NEW k \in Clients,
             \/ Contract!Arrive(k) \/ Contract!Accept(k) \/ Contract!Refuse(k)
             \/ Contract!Decide(k) \/ Contract!Deliver(k) \/ Contract!Close(k)
      PROVE  Exchanged'
  <2>1. \/ /\ C[k] = "new" /\ C' = [C EXCEPT ![k] = "waiting"]
           /\ verdicts' = verdicts /\ R' = R
        \/ /\ C[k] = "waiting" /\ \E v \in {"open", "closed"} : C' = [C EXCEPT ![k] = v]
           /\ verdicts' = verdicts /\ R' = R
        \/ /\ C[k] = "open" /\ verdicts[k] = <<>>
           /\ \E v \in {"reply", "decline"} : verdicts' = [verdicts EXCEPT ![k] = <<v>>]
           /\ C' = C /\ R' = R
        \/ /\ C[k] = "open" /\ verdicts[k] = <<"reply">> /\ R' = [R EXCEPT ![k] = 1]
           /\ C' = C /\ verdicts' = verdicts
        \/ /\ C[k] = "open" /\ C' = [C EXCEPT ![k] = "closed"]
           /\ "send" \in Faults \/ verdicts[k] # <<"reply">> \/ R[k] = 1
           /\ verdicts' = verdicts /\ R' = R
    BY <1>7 DEF Contract!Arrive, Contract!Accept, Contract!Refuse,
                Contract!Decide, Contract!Deliver, Contract!Close, C, R
  <2>2. QED
    BY <1>2, <1>3, <1>4, <1>5, <2>1
<1>8. CASE Contract!Shutdown
  <2>1. /\ \A k \in Clients : C'[k] \in {C[k], "reset"}
        /\ verdicts' = verdicts /\ R' = R
    BY <1>8 DEF Contract!Shutdown, C, R
  <2>2. QED
    BY <1>3, <1>4, <2>1, Zenon, ZenonT(60)
<1>9. QED
  BY <1>6, <1>7, <1>8, Zenon, ZenonT(60) DEF Contract!Next

\* The arm has no handler to decline a request.
NoDeclines == \A k \in Clients : verdicts[k] \in {<<>>, <<"reply">>}

\* Every verdict the arm gives is a reply.
LEMMA NoDeclinesStep ==
  ASSUME Sound, Books, NoDeclines, [TreatNext]_vars
  PROVE  NoDeclines'
<1>1. verdicts \in [Clients -> Seq({"reply", "decline"})]
  BY DEF Sound, TypeInv, TypeOK
<1>2. CASE UNCHANGED verdicts
  BY <1>2 DEF NoDeclines
<1>3. CASE Answer
  <2>1. HandleRequest /\ Len(todo') = 2
    BY <1>3 DEF Answer
  <2>2. PICK c \in Conns, v \in {"reply", "decline"} :
          /\ file[fd[c]] \in Clients
          /\ verdicts' = [verdicts EXCEPT ![file[fd[c]]] = <<v>>]
          /\ todo' = IF v = "reply" THEN AnswerCalls(c) ELSE CloseCalls(c)
    BY <2>1, Decides, Zenon
  <2>3. v = "reply"
    <3>1. Len(CloseCalls(c)) = 1
      BY DEF CloseCalls
    <3>2. QED
      BY <2>1, <2>2, <3>1
  <2>4. QED
    BY <1>1, <2>2, <2>3 DEF NoDeclines
<1>4. CASE TreatNext
  <2>1. UNCHANGED verdicts \/ Answer
    BY <1>4, Zenon, ZenonT(60)
       DEF TreatNext, TreatStep, thread_entry, submit_and_wait, DrainBatch,
           OnAccept, OnRecv, arm_accept, submit_recv, submit_reply_and_close,
           submit_close, Helper, KernelIssues, RingInitFails, fa_thread_entry,
           Enter, EnterFails, EnterReturns, EnterTimesOut, HandleNull,
           HandleAccept, AdoptConn, HandleRecvFailed, BatchDone, PrepSqe, Flush,
           FlushReturns, Fallback, IssueAccept, IssueRecv, IssueSend,
           IssueClose, Issue, AcceptCompletes, AcceptFails, RecvCompletes,
           Completes, Connect, Write, clientVars
  <2>2. QED
    BY <1>2, <1>3, <2>1, Zenon, ZenonT(60)
<1>5. QED
  BY <1>2, <1>4, Zenon, ZenonT(60) DEF vars

\* A send is whole unless it is cut short.
Unbroken == \A k \in Clients : \A n \in DOMAIN inbox[k] : inbox[k][n].whole

\* Every step keeps the messages whole.
LEMMA UnbrokenStep ==
  ASSUME TypeInv, "short" \notin Faults, Unbroken, [Next]_vars
  PROVE  Unbroken'
<1>1. inbox \in [Clients -> Seq(Message)] /\ file \in [Slots -> Clients \cup {Nobody}]
  BY DEF TypeInv, TypeOK
<1>2. CASE UNCHANGED inbox
  BY <1>2, Zenon, ZenonT(60) DEF Unbroken
<1>3. CASE IssueSend
  <2>1. Head(sq) \in Sqe /\ Head(sq).op = "send"
    BY <1>3, IssueFrame, Zenon, ZenonT(60) DEF IssueSend, Issue
  <2>2. PICK s \in Slots : Head(sq).slot = s
    BY <2>1, SqeFacts, Zenon, ZenonT(60)
  <2>3. UNCHANGED inbox \/
        \E m : /\ m.whole /\ file[s] # Nobody
               /\ inbox' = [inbox EXCEPT ![file[s]] = Append(@, m)]
    <3>1. ASSUME NEW o, NEW f PROVE [of |-> o, for |-> f, whole |-> TRUE].whole
      OBVIOUS
    <3>2. {TRUE} \cup (IF "short" \in Faults THEN {FALSE} ELSE {}) = {TRUE}
      OBVIOUS
    <3>3. QED
      BY <1>3, <2>2, <3>1, <3>2, Zenon, ZenonT(60) DEF IssueSend
  <2>4. ASSUME NEW m, m.whole, file[s] # Nobody,
               inbox' = [inbox EXCEPT ![file[s]] = Append(@, m)]
        PROVE  Unbroken'
    <3>1. file[s] \in Clients
      BY <1>1, <2>4, Zenon, ZenonT(60)
    <3>2. ASSUME NEW k \in Clients, NEW n \in DOMAIN inbox'[k]
          PROVE  inbox'[k][n].whole
      <4>1. CASE k # file[s]
        BY <1>1, <2>4, <3>1, <3>2, <4>1, Zenon, ZenonT(60) DEF Unbroken
      <4>2. CASE k = file[s]
        <5>1. inbox'[k] = Append(inbox[k], m) /\ inbox[k] \in Seq(Message)
          BY <1>1, <2>4, <3>1, <4>2, Zenon, ZenonT(60)
        <5>2. \/ n \in DOMAIN inbox[k] /\ inbox'[k][n] = inbox[k][n]
              \/ inbox'[k][n] = m
          BY <3>2, <5>1
        <5>3. QED
          BY <2>4, <3>1, <4>2, <5>2, Zenon, ZenonT(60) DEF Unbroken
      <4>3. QED
        BY <4>1, <4>2
    <3>3. QED
      BY <3>2 DEF Unbroken
  <2>5. QED
    BY <1>2, <2>3, <2>4
<1>4. ASSUME Next, ~IssueSend PROVE UNCHANGED inbox
  BY <1>4, Zenon, ZenonT(60)
     DEF Next, WorkerStep, RingInitFails, fa_thread_entry, StopSeen, Enter,
         EnterFails, EnterReturns, EnterTimesOut, HandleNull, HandleAccept,
         HandleRequest, AdoptConn, HandleRecvFailed, BatchDone, PrepSqe, Flush,
         FlushReturns, Fallback, IssueAccept, IssueRecv, IssueClose, Issue,
         AcceptCompletes, AcceptFails, RecvCompletes, Completes, Connect, Write,
         Teardown, fa_server_stop, clientVars, ringVars
<1>5. QED
  BY <1>2, <1>3, <1>4, Zenon, ZenonT(60) DEF vars

\* With a network that drops and cuts no send, and a kernel that consumes what
\* is submitted, a peer whose request was read has received its own reply, once
\* and whole, when its connection is closed, and any other peer nothing: the
\* fixed contract of the arms, for any number of peers, conns and descriptors.
THEOREM TreatAnswersOnce ==
  ASSUME "submit" \notin Faults, "send" \notin Faults, "short" \notin Faults
  PROVE  TreatSpec => []AnsweredOnce
<1> DEFINE J == Sound /\ Books /\ Exchanged /\ NoDeclines /\ Unbroken
<1>1. Fed
  BY DEF Fed
<1>2. TreatInit => J
  <2> SUFFICES ASSUME TreatInit PROVE J
    OBVIOUS
  <2>1. Init
    BY DEF TreatInit
  <2>2. /\ verdicts = [k \in Clients |-> <<>>]
        /\ inbox = [k \in Clients |-> <<>>]
        /\ sock = [k \in Clients |-> "new"]
    BY <2>1 DEF Init
  <2>3. Exchanged /\ NoDeclines /\ Unbroken
    BY <2>2 DEF Exchanged, NoDeclines, Unbroken
  <2>4. QED
    BY <2>1, <2>3, SoundInit, BooksInit, Zenon, ZenonT(60)
<1>3. J /\ [TreatNext]_vars => J'
  <2> SUFFICES ASSUME J, [TreatNext]_vars PROVE J'
    OBVIOUS
  <2>1. [Next]_vars
    BY TreatStepIsEngineStep
  <2>2. Sound' /\ Books' /\ [Contract!Next]_Contract!vars
    BY <1>1, <2>1, SoundNext, BooksNext, ContractStep, Zenon, ZenonT(60)
  <2>3. Exchanged'
    BY <2>2, ExchangedStep DEF Sound
  <2>4. NoDeclines' /\ Unbroken'
    BY <2>1, NoDeclinesStep, UnbrokenStep, Zenon, ZenonT(60) DEF Sound
  <2>5. QED
    BY <2>2, <2>3, <2>4, Zenon, ZenonT(60)
<1>4. J /\ RepliesReachTheirPeer => AnsweredOnce
  <2> SUFFICES ASSUME J, RepliesReachTheirPeer, NEW k \in Clients,
                      sock[k] = "closed"
               PROVE  IF verdicts[k] = <<"reply">>
                      THEN Len(inbox[k]) = 1 /\ inbox[k][1].for = k
                           /\ inbox[k][1].whole
                      ELSE verdicts[k] = <<>> /\ inbox[k] = <<>>
    BY DEF AnsweredOnce
  <2>1. inbox[k] \in Seq(Message)
    BY DEF Sound, TypeInv, TypeOK
  <2>2. CASE verdicts[k] = <<"reply">>
    <3>1. Len(inbox[k]) = 1
      BY <2>2 DEF Exchanged
    <3>2. 1 \in DOMAIN inbox[k]
      BY <2>1, <3>1
    <3>3. QED
      BY <2>2, <3>1, <3>2, Zenon, ZenonT(60) DEF RepliesReachTheirPeer, Unbroken
  <2>3. CASE verdicts[k] = <<>>
    <3>1. Len(inbox[k]) = 0
      BY <2>3 DEF Exchanged
    <3>2. inbox[k] = <<>>
      BY <2>1, <3>1
    <3>3. QED
      BY <2>3, <3>2
  <2>4. QED
    BY <2>2, <2>3 DEF NoDeclines
<1> HIDE DEF J
<1>5. TreatSpec => []J
  BY <1>2, <1>3, PTL DEF TreatSpec
<1>6. TreatSpec => []RepliesReachTheirPeer
  BY <1>1, TreatImplementsEngine, RepliesArrive, PTL
<1>7. QED
  BY <1>4, <1>5, <1>6, PTL

-----------------------------------------------------------------------------
(* main: its sockets, its threads, its joins.                              *)

\* The progress of main: the workers it has passed have a socket and a thread,
\* the one it is at has a socket while its thread is created, and the ones it
\* has joined have returned.
Progress ==
  /\ mpc \in {"setup", "listen", "create"} => started = i - 1
  /\ mpc = "setup" => i = 1 /\ listening = {}
  /\ mpc = "listen" => /\ listening = 1..(i - 1)
                       /\ \A w \in Workers : w < i => thread[w] # "none"
  /\ mpc = "create" => /\ i <= N /\ listening = 1..i
                       /\ \A w \in Workers : w < i => thread[w] # "none"
  /\ mpc = "join" => /\ started = N /\ listening = Workers
                     /\ \A w \in Workers : thread[w] # "none"
                     /\ \A w \in Workers : w < i => thread[w] = "returned"
  /\ mpc = "exit 0" => \A w \in Workers : thread[w] = "returned"

FleetInv == FleetTypeOK /\ Progress

\* The initial state.
LEMMA FleetInvInit == FleetInit => FleetInv
  BY FleetAssumption DEF FleetInit, FleetInv, FleetTypeOK, Progress, Workers

\* main keeps it.
LEMMA FleetInvMain ==
  ASSUME FleetInv, main
  PROVE  FleetInv'
<1> USE FleetAssumption DEF FleetInv, Workers
<1>1. ASSUME NEW code \in {"exit 0", "exit 1"}, Exit(code),
             code = "exit 0" => \A w \in Workers : thread[w] = "returned"
      PROVE  FleetInv'
  <2>1. /\ mpc' = code /\ listening' = {} /\ UNCHANGED <<i, started, thread, at>>
        /\ conn' = [k \in Peers |-> IF conn[k] = "queued" THEN "reset"
                                                         ELSE conn[k]]
    BY <1>1, Zenon, ZenonT(60) DEF Exit
  <2>2. conn' \in [Peers -> {"new", "queued", "served", "reset"}]
    BY <2>1, Zenon, ZenonT(60) DEF FleetTypeOK
  <2>3. QED
    BY <1>1, <2>1, <2>2, Zenon, ZenonT(60) DEF FleetTypeOK, Progress
<1>2. CASE Setup
  <2>1. CASE "setup" \in FleetFaults /\ Exit("exit 1")
    BY <1>1, <2>1, Zenon, ZenonT(60)
  <2>2. CASE mpc' = "listen" /\ UNCHANGED <<i, started, listening, thread, conn, at>>
    <3>1. mpc = "setup"
      BY <1>2, Zenon, ZenonT(60) DEF Setup
    <3>2. i = 1 /\ started = 0 /\ listening = {}
      BY <3>1 DEF FleetTypeOK, Progress
    <3>3. QED
      BY <2>2, <3>1, <3>2 DEF FleetTypeOK, Progress
  <2>3. QED
    BY <1>2, <2>1, <2>2, Zenon, ZenonT(60) DEF Setup
<1>3. CASE make_listen_socket
  <2>1. CASE "listen" \in FleetFaults /\ Exit("exit 1")
    BY <1>1, <2>1, Zenon, ZenonT(60)
  <2>2. CASE /\ mpc' = "create" /\ listening' = listening \cup {i}
             /\ UNCHANGED <<i, started, thread, conn, at>>
    <3>1. mpc = "listen" /\ i <= N
      BY <1>3, Zenon, ZenonT(60) DEF make_listen_socket
    <3>2. QED
      BY <2>2, <3>1 DEF FleetTypeOK, Progress
  <2>3. QED
    BY <1>3, <2>1, <2>2, Zenon, ZenonT(60) DEF make_listen_socket
<1>4. CASE CreateThread
  <2>1. CASE "thread" \in FleetFaults /\ Exit("exit 1")
    BY <1>1, <2>1, Zenon, ZenonT(60)
  <2>2. CASE /\ thread' = [thread EXCEPT ![i] = "created"]
             /\ mpc' = "listen" /\ i' = i + 1 /\ started' = started + 1
             /\ UNCHANGED <<listening, conn, at>>
    <3>1. mpc = "create"
      BY <1>4, Zenon, ZenonT(60) DEF CreateThread
    <3>2. FleetTypeOK'
      BY <2>2, <3>1 DEF FleetTypeOK, Progress
    <3>3. Progress'
      BY <2>2, <3>1 DEF FleetTypeOK, Progress
    <3>4. QED
      BY <3>2, <3>3
  <2>3. QED
    BY <1>4, <2>1, <2>2, Zenon, ZenonT(60) DEF CreateThread
<1>5. CASE AllStarted
  BY <1>5 DEF AllStarted, FleetTypeOK, Progress
<1>6. CASE JoinThread
  BY <1>6 DEF JoinThread, FleetTypeOK, Progress
<1>7. CASE AllJoined
  <2>1. mpc = "join" /\ i = started + 1 /\ Exit("exit 0")
    BY <1>7, Zenon, ZenonT(60) DEF AllJoined
  <2>2. mpc = "join" /\ i = started + 1
    BY <2>1, Zenon, ZenonT(60)
  <2>3. \A w \in Workers : thread[w] = "returned"
    BY <2>2 DEF FleetTypeOK, Progress
  <2>4. QED
    BY <1>1, <2>1, <2>3, Zenon, ZenonT(60)
<1>8. QED
  BY <1>2, <1>3, <1>4, <1>5, <1>6, <1>7, Zenon, ZenonT(60) DEF main

\* The threads and the peers keep it.
LEMMA FleetInvNext == FleetInv /\ [FleetNext]_fleetVars => FleetInv'
<1> SUFFICES ASSUME FleetInv, [FleetNext]_fleetVars PROVE FleetInv'
  OBVIOUS
<1> USE FleetAssumption DEF FleetInv, Workers, mainVars
<1>1. ASSUME NEW w \in Workers, ThreadEntry(w) \/ LoopBreaks(w) PROVE FleetInv'
  <2>1. /\ UNCHANGED <<mainVars, conn, at>> /\ Alive
        /\ \E v \in {"loop", "returned"} : thread' = [thread EXCEPT ![w] = v]
        /\ thread[w] \in {"created", "loop"}
    BY <1>1 DEF ThreadEntry, LoopBreaks
  <2>2. FleetTypeOK'
    BY <2>1, Zenon, ZenonT(60) DEF FleetTypeOK
  <2>3. Progress'
    BY <2>1, Zenon, ZenonT(60) DEF FleetTypeOK, Progress, Alive
  <2>4. QED
    BY <2>2, <2>3
<1>2. ASSUME NEW k \in Peers, PeerConnects(k) \/ worker_main(k) PROVE FleetInv'
  BY <1>2, Zenon, ZenonT(60) DEF PeerConnects, worker_main, FleetTypeOK, Progress
<1>3. CASE UNCHANGED fleetVars
  BY <1>3, Zenon, ZenonT(60) DEF fleetVars, FleetTypeOK, Progress
<1>4. QED
  BY <1>1, <1>2, <1>3, FleetInvMain, Zenon, ZenonT(60) DEF FleetNext

\* main of accept-treat.c, for every number of CPUs and whatever fails: when it
\* waits, each socket of the group has its thread.
THEOREM FleetIsComplete == FleetSpec => []EverySocketHasThread
<1>1. FleetInv => EverySocketHasThread
  BY Zenon, ZenonT(60) DEF FleetInv, Progress, EverySocketHasThread
<1>2. QED
  BY <1>1, FleetInvInit, FleetInvNext, PTL DEF FleetSpec

\* And it only returns 0, which resets what is queued, when every thread has
\* returned: one that breaks out of its loop does not take the others down.
THEOREM ResetsWaitForAll == FleetSpec => []ResetMeansAllDead
<1>1. FleetInv => ResetMeansAllDead
  BY Zenon, ZenonT(60) DEF FleetInv, Progress, ResetMeansAllDead, Dead
<1>2. QED
  BY <1>1, FleetInvInit, FleetInvNext, PTL DEF FleetSpec
=============================================================================
