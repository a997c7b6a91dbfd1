--------------------------- MODULE FaWorkerProofs ---------------------------
(***************************************************************************)
(* Proofs about one worker, for any number of clients, conns and           *)
(* descriptors, any queue depth and batch size, and any set of faults: its *)
(* types, the submission queue that never fills up, and the accept that is *)
(* armed once and stays armed.                                             *)
(***************************************************************************)
EXTENDS FaWorkerProps, TLAPS

\* The backends for a leaf that names none, with longer tries if the first fail.
USE SMTT(20), ZenonT(20), SMTT(120), ZenonT(60), SMTT(60)

-----------------------------------------------------------------------------
(* Queues whose entries point at conns.                                     *)

HasConn(s, c) == \E i \in DOMAIN s : s[i].conn = c

UniqueConns(s) ==
  \A i, j \in DOMAIN s : s[i].conn = s[j].conn /\ s[i].conn \in Conns => i = j

\* Appending an entry adds its conn and keeps the others.
LEMMA AppendConn ==
  ASSUME NEW S, NEW s \in Seq(S), NEW e \in S
  PROVE  /\ Append(s, e) \in Seq(S)
         /\ Len(Append(s, e)) = Len(s) + 1
         /\ \A c : HasConn(Append(s, e), c) <=> HasConn(s, c) \/ e.conn = c
  BY DEF HasConn

\* The entries after an append.
LEMMA AppendEntries ==
  ASSUME NEW S, NEW s \in Seq(S), NEW e \in S
  PROVE  \A i \in DOMAIN Append(s, e) :
           (i \in DOMAIN s /\ Append(s, e)[i] = s[i]) \/ Append(s, e)[i] = e
  OBVIOUS

\* Appending an entry whose conn is not in the queue keeps conns unique.
LEMMA AppendUnique ==
  ASSUME NEW S, NEW s \in Seq(S), NEW e \in S, UniqueConns(s),
         e.conn \notin Conns \/ ~HasConn(s, e.conn)
  PROVE  UniqueConns(Append(s, e))
  BY DEF UniqueConns, HasConn

\* Taking the head removes its conn and keeps the others.
LEMMA TailConn ==
  ASSUME NEW S, NEW s \in Seq(S), s # <<>>
  PROVE  /\ Head(s) \in S /\ Tail(s) \in Seq(S)
         /\ Len(s) \in Nat \ {0} /\ Len(Tail(s)) = Len(s) - 1
         /\ \A i \in DOMAIN Tail(s) : i + 1 \in DOMAIN s /\ Tail(s)[i] = s[i + 1]
         /\ 1 \in DOMAIN s /\ Head(s) = s[1]
         /\ \A c : HasConn(s, c) <=> Head(s).conn = c \/ HasConn(Tail(s), c)
<1>1. /\ Head(s) \in S /\ Tail(s) \in Seq(S)
      /\ Len(s) \in Nat \ {0} /\ Len(Tail(s)) = Len(s) - 1
      /\ \A i \in DOMAIN Tail(s) : i + 1 \in DOMAIN s /\ Tail(s)[i] = s[i + 1]
      /\ 1 \in DOMAIN s /\ Head(s) = s[1]
  OBVIOUS
<1>2. ASSUME NEW c, HasConn(Tail(s), c) PROVE HasConn(s, c)
  BY <1>1, <1>2 DEF HasConn
<1>3. ASSUME NEW c, Head(s).conn = c PROVE HasConn(s, c)
  BY <1>1, <1>3 DEF HasConn
<1>4. ASSUME NEW c, HasConn(s, c), Head(s).conn # c PROVE HasConn(Tail(s), c)
  <2>1. PICK i \in DOMAIN s : s[i].conn = c
    BY <1>4 DEF HasConn
  <2>2. i - 1 \in DOMAIN Tail(s) /\ Tail(s)[i - 1] = s[i]
    BY <1>1, <1>4, <2>1
  <2>3. QED
    BY <2>1, <2>2 DEF HasConn
<1>5. QED
  BY <1>1, <1>2, <1>3, <1>4

\* Taking the head keeps conns unique, and its own conn is gone.
LEMMA TailUnique ==
  ASSUME NEW S, NEW s \in Seq(S), s # <<>>, UniqueConns(s)
  PROVE  /\ UniqueConns(Tail(s))
         /\ Head(s).conn \in Conns => ~HasConn(Tail(s), Head(s).conn)
  BY TailConn DEF UniqueConns, HasConn

\* The empty queue, and a queue of one entry.
LEMMA EmptyConn ==
  /\ UniqueConns(<<>>) /\ \A c : ~HasConn(<<>>, c)
  /\ \A e : UniqueConns(<<e>>) /\ \A c : HasConn(<<e>>, c) <=> e.conn = c
  BY DEF UniqueConns, HasConn

-----------------------------------------------------------------------------
(* The handler's remaining calls.                                           *)

\* The calls after the first (a name of its own, which the provers leave alone).
Rest(t) == Tail(t)

\* Lists of one and of two calls.
LEMMA CallTuples ==
  ASSUME NEW a, NEW b
  PROVE  /\ <<a>> # <<>> /\ Head(<<a>>) = a /\ Rest(<<a>>) = <<>>
         /\ Len(<<a>>) = 1
         /\ <<a, b>> # <<>> /\ Head(<<a, b>>) = a /\ Rest(<<a, b>>) = <<b>>
         /\ Len(<<a, b>>) = 2
  BY DEF Rest

\* Concatenating lists of at most one call.
LEMMA ConcatCalls ==
  ASSUME NEW a, NEW b
  PROVE  /\ <<>> \o <<>> = <<>> /\ <<a>> \o <<>> = <<a>> /\ <<>> \o <<b>> = <<b>>
         /\ <<a>> \o <<b>> = <<a, b>>
<1>1. <<>> \o <<>> = <<>> /\ <<a>> \o <<>> = <<a>> /\ <<>> \o <<b>> = <<b>>
  OBVIOUS
<1>2. <<a>> \o <<b>> = <<a, b>>
  <2> DEFINE S == {a, b}
             ab == <<a>> \o <<b>>
  <2>1. ab \in Seq(S) /\ Len(ab) = 2 /\ ab[1] = a /\ ab[2] = b
    OBVIOUS
  <2> HIDE DEF ab
  <2>2. ab = [i \in 1..2 |-> ab[i]]
    BY <2>1
  <2>3. <<a, b>> = [i \in 1..2 |-> <<a, b>>[i]]
    OBVIOUS
  <2>4. \A i \in 1..2 : ab[i] = <<a, b>>[i]
    BY <2>1
  <2>5. ab = <<a, b>>
    BY <2>2, <2>3, <2>4
  <2>6. QED
    BY <2>5 DEF ab
<1>3. QED
  BY <1>1, <1>2

\* The conns in the lists a handler can leave.
LEMMA CallConns ==
  /\ \A c : ~HasConn(<<>>, c)
  /\ \A c \in Conns : ~HasConn(<<Arm>>, c)
  /\ \A c \in Conns, s \in Slots : ~HasConn(<<Adopt(s)>>, c)
  /\ \A c \in Conns, s \in Slots : ~HasConn(<<Arm, Adopt(s)>>, c)
  /\ \A c, d : HasConn(<<OnConn("recv", c)>>, d) <=> d = c
  /\ \A c, d : HasConn(<<OnConn("close", c)>>, d) <=> d = c
  /\ \A c, d : HasConn(<<OnConn("send", c), OnConn("close", c)>>, d) <=> d = c
  BY WorkerAssumption DEF HasConn, Arm, Adopt, OnConn

\* The fields of a call.
LEMMA CallFields ==
  /\ Arm.call = "arm" /\ Arm.conn = NoConn
  /\ \A s : Adopt(s).call = "adopt" /\ Adopt(s).slot = s
  /\ \A h, c : OnConn(h, c).call = h /\ OnConn(h, c).conn = c
  BY DEF Arm, Adopt, OnConn

\* The first call of a list.
LEMMA CallHeads ==
  /\ Head(<<Arm>>) = Arm
  /\ \A s : Head(<<Adopt(s)>>).call = "adopt" /\ Head(<<Arm, Adopt(s)>>) = Arm
  /\ \A h, c : Head(<<OnConn(h, c)>>) = OnConn(h, c)
  /\ \A h, g, c : Head(<<OnConn(h, c), OnConn(g, c)>>) = OnConn(h, c)
<1>1. \A a, b : Head(<<a>>) = a /\ Head(<<a, b>>) = a
  BY CallTuples, Zenon, ZenonT(60)
<1>2. \A s : Adopt(s).call = "adopt"
  BY CallFields, Zenon, ZenonT(60)
<1>3. QED
  BY <1>1, <1>2, Zenon, ZenonT(60)

\* The lists a handler can leave.
LEMMA HandlerCallsShape ==
  ASSUME NEW t \in HandlerCalls, t # <<>>
  PROVE  \/ t = <<Arm>>
         \/ \E s \in Slots : t = <<Adopt(s)>> \/ t = <<Arm, Adopt(s)>>
         \/ \E c \in Conns : \/ t = <<OnConn("recv", c)>>
                             \/ t = <<OnConn("close", c)>>
                             \/ t = <<OnConn("send", c), OnConn("close", c)>>
  BY DEF HandlerCalls

\* A list that starts with an adoption is that adoption.
LEMMA AdoptHead ==
  ASSUME NEW t \in HandlerCalls, t # <<>>, Head(t).call = "adopt"
  PROVE  Head(t).slot \in Slots /\ \E s \in Slots : t = <<Adopt(s)>>
<1>1. Head(t) # Arm
  BY CallFields, Zenon, ZenonT(60)
<1>2. ASSUME NEW c
      PROVE  /\ t # <<OnConn("recv", c)>> /\ t # <<OnConn("close", c)>>
             /\ t # <<OnConn("send", c), OnConn("close", c)>>
  <2>1. /\ Head(t) # OnConn("recv", c) /\ Head(t) # OnConn("close", c)
        /\ Head(t) # OnConn("send", c)
    BY CallFields
  <2>2. QED
    BY <2>1, CallHeads
<1>3. PICK s \in Slots : t = <<Adopt(s)>>
  <2>1. t # <<Arm>> /\ \A s : t # <<Arm, Adopt(s)>>
    BY <1>1, CallHeads, Zenon, ZenonT(60)
  <2>2. QED
    BY <1>2, <2>1, HandlerCallsShape, Zenon, ZenonT(60)
<1>4. Head(t) = Adopt(s)
  BY <1>3
<1>5. QED
  BY <1>3, <1>4, CallFields, Zenon, ZenonT(60)

-----------------------------------------------------------------------------
(* The entries of the two queues.                                           *)

\* Only a recv completion carries a conn, only a successful accept a slot.
LEMMA CqeFacts ==
  /\ \A e \in Cqe :
       /\ e.kind = "recv" => e.conn \in Conns
       /\ e.kind # "recv" => e.conn = NoConn
       /\ e.kind = "accept" /\ e.ok => e.slot \in Slots
       /\ e.ok \in BOOLEAN /\ e.more \in BOOLEAN
  /\ NullCqe \in Cqe /\ NullCqe.conn = NoConn /\ NullCqe.kind = "null"
  /\ AcceptCqe(NoSlot, FALSE) \in Cqe
  /\ AcceptCqe(NoSlot, FALSE).kind = "accept"
  /\ AcceptCqe(NoSlot, FALSE).conn = NoConn
  /\ \A s \in Slots, m \in BOOLEAN : AcceptCqe(s, m) \in Cqe
  /\ \A s, m : AcceptCqe(s, m).conn = NoConn /\ AcceptCqe(s, m).kind = "accept"
  /\ \A c \in Conns, ok \in BOOLEAN : /\ RecvCqe(c, ok) \in Cqe
                                      /\ RecvCqe(c, ok).conn = c
                                      /\ RecvCqe(c, ok).ok = ok
  BY WorkerAssumption, Zenon, ZenonT(60) DEF Cqe, NullCqe, AcceptCqe, RecvCqe

\* Only a recv carries a conn; every SQE but an accept names a descriptor.
LEMMA SqeFacts ==
  /\ \A e \in Sqe :
       /\ e.op = "recv" => e.conn \in Conns
       /\ e.op # "recv" => e.conn = NoConn
       /\ e.op # "accept" => e.slot \in Slots
       /\ e.op = "send" => e.for \in Clients
  /\ fa_arm_accept \in Sqe /\ fa_arm_accept.conn = NoConn
  /\ fa_arm_accept.op = "accept"
  BY DEF Sqe, fa_arm_accept

-----------------------------------------------------------------------------
(* Type correctness.                                                        *)

\* The conn of a recv the kernel holds.
Waiting(c) == \E r \in recvs : r.conn = c

InFlight(c) ==
  HasConn(sq, c) \/ Waiting(c) \/ HasConn(cq, c) \/ HasConn(todo, c)

\* What the types rest on: a batch is part of the CQ, only a running drain loop
\* has calls to make, a conn in use has a descriptor, and a conn whose recv has
\* succeeded holds a request.
WellFormed ==
  /\ batch <= Len(cq)
  /\ pc \notin {"drain", "flush"} => batch = 0 /\ todo = <<>>
  /\ \A c \in Conns : InFlight(c) => fd[c] \in Slots
  /\ \A i \in DOMAIN cq :
       cq[i].kind = "recv" /\ cq[i].ok => buf[cq[i].conn] \in Clients
  /\ todo # <<>> /\ Head(todo).call = "send"
       => buf[Head(todo).conn] \in Clients

TypeInv == TypeOK /\ WellFormed

\* The completion queue and the batch counted off it.
LEMMA QueueBounds ==
  ASSUME TypeInv
  PROVE  cq \in Seq(Cqe) /\ batch \in Nat /\ batch <= Len(cq) /\ Len(cq) \in Nat
<1>1. cq \in Seq(Cqe) /\ batch \in 0..CqeBatch
  BY Zenon, ZenonT(60) DEF TypeInv, TypeOK
<1>2. batch <= Len(cq)
  BY Zenon, ZenonT(60) DEF TypeInv, WellFormed
<1>3. batch \in Nat /\ Len(cq) \in Nat
  BY <1>1, WorkerAssumption
<1>4. QED
  BY <1>1, <1>2, <1>3, Zenon, ZenonT(60)

\* The initial state is well typed.
LEMMA TypeInit == Init => TypeInv
<1> SUFFICES ASSUME Init PROVE TypeInv
  OBVIOUS
<1>1. <<>> \in HandlerCalls
  BY DEF HandlerCalls
<1>2. inbox \in [Clients -> Seq(Message)]
  BY DEF Init
<1>3. verdicts \in [Clients -> Seq({"reply", "decline"})]
  BY DEF Init
<1>4. sq \in Seq(Sqe) /\ Len(sq) <= QueueDepth /\ cq \in Seq(Cqe)
  BY WorkerAssumption DEF Init
<1>5. TypeOK
  <2>1. /\ cfg \in [multishot: BOOLEAN, direct_files: BOOLEAN]
        /\ freelist \in Seq(Conns) /\ backlog \in Seq(Clients)
        /\ batch \in 0..CqeBatch /\ accepts \in Nat
    BY WorkerAssumption DEF Init
  <2>2. /\ sock \in [Clients -> {"new", "queued", "open", "closed", "reset"}]
        /\ peer \in [Clients -> {"quiet", "request", "eof"}]
    BY DEF Init
  <2>3. QED
    BY <1>1, <1>2, <1>3, <1>4, <2>1, <2>2, Zenon, ZenonT(60) DEF Init, TypeOK
<1>6. \A c : ~InFlight(c)
  BY EmptyConn DEF Init, InFlight, Waiting
<1>7. batch <= Len(cq) /\ DOMAIN cq = {}
  BY DEF Init
<1>8. WellFormed
  BY <1>6, <1>7 DEF Init, WellFormed
<1>9. QED
  BY <1>5, <1>8 DEF TypeInv

\* Taking a CQE: it is well formed, and what remains is.
LEMMA TypeTakeCqe ==
  ASSUME TypeInv, NEW kind, TakeCqe(kind)
  PROVE  /\ cq # <<>> /\ Head(cq) \in Cqe /\ cq' \in Seq(Cqe)
         /\ batch' \in 0..CqeBatch /\ batch' <= Len(cq')
         /\ \A c : HasConn(cq', c) => HasConn(cq, c)
         /\ HasConn(cq, Head(cq).conn)
         /\ \A i \in DOMAIN cq' :
              cq'[i].kind = "recv" /\ cq'[i].ok => buf[cq'[i].conn] \in Clients
         /\ Head(cq).kind = "recv" /\ Head(cq).ok
              => buf[Head(cq).conn] \in Clients
<1> USE DEF TypeInv, TakeCqe
<1>1. cq \in Seq(Cqe) /\ cq # <<>> /\ batch \in Nat /\ CqeBatch \in Nat
  BY WorkerAssumption DEF TypeOK, WellFormed
<1>2. /\ Head(cq) \in Cqe /\ cq' \in Seq(Cqe) /\ Len(cq') = Len(cq) - 1
      /\ \A i \in DOMAIN cq' : i + 1 \in DOMAIN cq /\ cq'[i] = cq[i + 1]
      /\ 1 \in DOMAIN cq /\ Head(cq) = cq[1] /\ Len(cq) \in Nat
      /\ \A c : HasConn(cq, c) <=> Head(cq).conn = c \/ HasConn(cq', c)
  BY <1>1, TailConn
<1>3. batch' \in 0..CqeBatch /\ batch' <= Len(cq')
  BY <1>1, <1>2 DEF TypeOK, WellFormed
<1>4. QED
  BY <1>1, <1>2, <1>3 DEF WellFormed

\* What the accept branch leaves to do.
LEMMA AcceptCalls ==
  ASSUME Head(cq) \in Cqe, HandleAccept
  PROVE  \/ todo' = <<>> \/ todo' = <<Arm>>
         \/ \E s \in Slots : todo' = <<Adopt(s)>> \/ todo' = <<Arm, Adopt(s)>>
<1>1. Head(cq).kind = "accept"
  BY DEF HandleAccept, TakeCqe
<1>2. Head(cq).ok => Head(cq).slot \in Slots
  BY <1>1, CqeFacts
<1>3. \/ todo' = <<>> \o <<>> \/ todo' = <<Arm>> \o <<>>
      \/ /\ Head(cq).ok
         /\ \/ todo' = <<>> \o <<Adopt(Head(cq).slot)>>
            \/ todo' = <<Arm>> \o <<Adopt(Head(cq).slot)>>
  BY Zenon, ZenonT(60) DEF HandleAccept
<1>4. QED
  BY <1>2, <1>3, ConcatCalls

\* What a helper call is, when one is due.
LEMMA HelperShape ==
  ASSUME TypeInv, HelperRuns
  PROVE  /\ Rest(todo) \in HandlerCalls /\ pc = "drain"
         /\ \/ /\ Head(todo) = Arm
               /\ \A c \in Conns : ~HasConn(todo, c) /\ ~HasConn(Rest(todo), c)
               /\ Rest(todo) # <<>> => Head(Rest(todo)).call = "adopt"
            \/ \E c \in Conns :
                 /\ fd[c] \in Slots
                 /\ \A d : HasConn(todo, d) <=> d = c
                 /\ \/ /\ Head(todo) = OnConn("recv", c)
                       /\ Rest(todo) = <<>>
                    \/ /\ Head(todo) = OnConn("close", c)
                       /\ Rest(todo) = <<>>
                    \/ /\ Head(todo) = OnConn("send", c)
                       /\ Rest(todo) = <<OnConn("close", c)>>
                       /\ \A d : HasConn(Rest(todo), d) <=> d = c
                       /\ buf[c] \in Clients
<1> USE DEF TypeInv
<1>1. todo \in HandlerCalls /\ todo # <<>> /\ Head(todo).call # "adopt"
      /\ pc = "drain"
  BY DEF HelperRuns, TypeOK
<1>2. \A c \in Conns : HasConn(todo, c) => fd[c] \in Slots
  BY DEF WellFormed, InFlight
<1>3. CASE todo = <<Arm>> \/ \E s \in Slots : todo = <<Arm, Adopt(s)>>
  <2>1. Rest(todo) = <<>> \/ \E s \in Slots : Rest(todo) = <<Adopt(s)>>
    <3>1. CASE todo = <<Arm>>
      BY <3>1, CallTuples, Zenon, ZenonT(60)
    <3>2. ASSUME NEW s \in Slots, todo = <<Arm, Adopt(s)>>
          PROVE  Rest(todo) = <<Adopt(s)>>
      BY <3>2, CallTuples, Zenon, ZenonT(60)
    <3>3. QED
      BY <1>3, <3>1, <3>2
  <2>2. Rest(todo) \in HandlerCalls
    BY <2>1 DEF HandlerCalls
  <2>3. \A c \in Conns : ~HasConn(todo, c)
    BY <1>3, CallConns
  <2>4. \A c \in Conns : ~HasConn(Rest(todo), c)
    BY <2>1, CallConns
  <2>5. Rest(todo) # <<>> => Head(Rest(todo)).call = "adopt"
    BY <2>1, CallTuples, CallFields
  <2>6. QED
    BY <1>1, <1>3, <2>2, <2>3, <2>4, <2>5, CallTuples
<1>4. CASE \E c \in Conns : \/ todo = <<OnConn("recv", c)>>
                            \/ todo = <<OnConn("close", c)>>
  <2>1. PICK c \in Conns : \/ todo = <<OnConn("recv", c)>>
                           \/ todo = <<OnConn("close", c)>>
    BY <1>4
  <2>2. \A d : HasConn(todo, d) <=> d = c
    BY <2>1, CallConns
  <2>3. Rest(todo) = <<>> /\ <<>> \in HandlerCalls
    BY <2>1, CallTuples, Zenon, ZenonT(60) DEF HandlerCalls
  <2>4. Head(todo) = OnConn("recv", c) \/ Head(todo) = OnConn("close", c)
    BY <2>1, CallTuples
  <2>5. QED
    BY <1>1, <1>2, <2>2, <2>3, <2>4
<1>5. CASE \E c \in Conns : todo = <<OnConn("send", c), OnConn("close", c)>>
  <2>1. PICK c \in Conns : todo = <<OnConn("send", c), OnConn("close", c)>>
    BY <1>5
  <2>2. \A d : HasConn(todo, d) <=> d = c
    BY <2>1, CallConns
  <2>3. /\ Rest(todo) = <<OnConn("close", c)>>
        /\ Head(todo) = OnConn("send", c)
    BY <2>1, CallTuples, Zenon, ZenonT(60)
  <2>4. \A d : HasConn(Rest(todo), d) <=> d = c
    BY <2>3, CallConns
  <2>5. buf[c] \in Clients
    BY <1>1, <2>3, CallFields DEF WellFormed
  <2>6. Rest(todo) \in HandlerCalls
    BY <2>3 DEF HandlerCalls
  <2>7. QED
    BY <1>1, <1>2, <2>2, <2>3, <2>4, <2>5, <2>6
<1>6. ASSUME NEW s \in Slots, todo = <<Adopt(s)>> PROVE FALSE
  <2>1. Head(todo) = Adopt(s)
    BY <1>6, CallTuples
  <2>2. QED
    BY <1>1, <2>1, CallFields
<1> HIDE DEF TypeInv
<1>7. \/ todo = <<Arm>>
      \/ \E s \in Slots : todo = <<Adopt(s)>> \/ todo = <<Arm, Adopt(s)>>
      \/ \E c \in Conns : \/ todo = <<OnConn("recv", c)>>
                          \/ todo = <<OnConn("close", c)>>
                          \/ todo = <<OnConn("send", c), OnConn("close", c)>>
  BY <1>1, HandlerCallsShape, Zenon, ZenonT(60)
<1>8. \/ todo = <<Arm>> \/ \E s \in Slots : todo = <<Arm, Adopt(s)>>
      \/ \E c \in Conns : todo = <<OnConn("recv", c)>> \/ todo = <<OnConn("close", c)>>
      \/ \E c \in Conns : todo = <<OnConn("send", c), OnConn("close", c)>>
  BY <1>6, <1>7, Zenon, ZenonT(60)
<1>9. QED
  BY <1>3, <1>4, <1>5, <1>8, Zenon, ZenonT(60)

\* The same, by the name of the helper: all but the accept's are about a conn.
LEMMA HelperCall ==
  ASSUME TypeInv, HelperRuns
  PROVE  /\ Head(todo).call \in {"arm", "recv", "send", "close"}
         /\ Head(todo).call = "arm" <=> Head(todo) = Arm
         /\ Head(todo).call # "arm" =>
              \E c \in Conns : /\ fd[c] \in Slots /\ HasConn(todo, c)
                               /\ Head(todo) = OnConn(Head(todo).call, c)
                               /\ Head(todo).conn = c
<1>1. CASE Head(todo) = Arm
  BY <1>1, CallFields
<1>2. ASSUME NEW c \in Conns, fd[c] \in Slots, \A d : HasConn(todo, d) <=> d = c,
             NEW h \in {"recv", "send", "close"}, Head(todo) = OnConn(h, c)
      PROVE  /\ Head(todo).call = h /\ Head(todo).conn = c
             /\ HasConn(todo, c)
  BY <1>2, CallFields
<1>3. Head(todo) = Arm \/ \E c \in Conns, h \in {"recv", "send", "close"} :
        /\ fd[c] \in Slots /\ Head(todo) = OnConn(h, c)
        /\ \A d : HasConn(todo, d) <=> d = c
  BY HelperShape, Zenon
<1>4. QED
  BY <1>1, <1>2, <1>3

\* Preparing an SQE.
LEMMA TypePrepSqe ==
  ASSUME TypeInv, PrepSqe
  PROVE  /\ TypeInv' /\ Prep(Head(todo)) \in Sqe
         /\ sq' = Append(sq, Prep(Head(todo)))
<1> USE DEF TypeInv, clientVars
<1>1. UNCHANGED <<cfg, stop, pc, direct, heap, fd, buf, reply, batch, cq,
                  accepts, recvs, file, backlog, sock, inbox, peer, verdicts, given_up>>
  BY DEF PrepSqe
<1>2. HelperRuns /\ sq' = Append(sq, Prep(Head(todo))) /\ todo' = Rest(todo)
      /\ Len(sq) < QueueDepth /\ tried' = FALSE
  BY DEF PrepSqe, Rest
<1>3. sq \in Seq(Sqe) /\ freelist \in Seq(Conns) /\ pc = "drain"
  BY <1>2 DEF TypeOK, HelperRuns
<1> DEFINE Prepared ==
             /\ Prep(Head(todo)) \in Sqe /\ freelist' \in Seq(Conns)
             /\ Prep(Head(todo)).conn \in Conns =>
                  HasConn(todo, Prep(Head(todo)).conn)
             /\ \A c \in Conns : HasConn(Rest(todo), c) => HasConn(todo, c)
             /\ Rest(todo) # <<>> => Head(Rest(todo)).call # "send"
<1>4. Prepared
  <2>1. CASE /\ Head(todo) = Arm
             /\ \A c \in Conns : ~HasConn(Rest(todo), c)
             /\ Rest(todo) # <<>> => Head(Rest(todo)).call = "adopt"
    <3>1. Prep(Head(todo)) = fa_arm_accept
      BY <2>1, CallFields DEF Prep
    <3>2. freelist' = freelist
      BY <2>1, CallFields DEF PrepSqe
    <3>3. QED
      BY <1>3, <2>1, <3>1, <3>2, SqeFacts, WorkerAssumption
  <2>2. ASSUME NEW c \in Conns, Head(todo) = OnConn("recv", c),
               Rest(todo) = <<>>, fd[c] \in Slots, HasConn(todo, c)
        PROVE  Prepared
    <3>1. Prep(Head(todo)) = fa_submit_recv(c)
      BY <2>2, CallFields DEF Prep
    <3>2. fa_submit_recv(c) \in Sqe /\ fa_submit_recv(c).conn = c
      BY <2>2 DEF fa_submit_recv, Sqe
    <3>3. freelist' = freelist
      BY <2>2, CallFields DEF PrepSqe
    <3>4. \A d \in Conns : ~HasConn(Rest(todo), d)
      BY <2>2, EmptyConn
    <3>5. QED
      BY <1>3, <2>2, <3>1, <3>2, <3>3, <3>4
  <2>3. ASSUME NEW c \in Conns, Head(todo) = OnConn("close", c),
               Rest(todo) = <<>>, fd[c] \in Slots
        PROVE  Prepared
    <3>1. Prep(Head(todo)) = fa_submit_close(c)
      BY <2>3, CallFields DEF Prep
    <3>2. fa_submit_close(c) \in Sqe /\ fa_submit_close(c).conn = NoConn
      BY <2>3 DEF fa_submit_close, Sqe
    <3>3. freelist' = <<c>> \o freelist
      BY <2>3, CallFields DEF PrepSqe, fa_conn_free
    <3>4. \A d \in Conns : ~HasConn(Rest(todo), d)
      BY <2>3, EmptyConn
    <3>5. QED
      BY <1>3, <2>3, <3>1, <3>2, <3>3, <3>4, WorkerAssumption
  <2>4. ASSUME NEW c \in Conns, Head(todo) = OnConn("send", c),
               Rest(todo) = <<OnConn("close", c)>>, HasConn(todo, c),
               \A d : HasConn(Rest(todo), d) <=> d = c,
               fd[c] \in Slots, buf[c] \in Clients
        PROVE  Prepared
    <3>1. Prep(Head(todo)) = fa_submit_reply(c)
      BY <2>4, CallFields DEF Prep
    <3>2. fa_submit_reply(c) \in Sqe /\ fa_submit_reply(c).conn = NoConn
      BY <2>4, Zenon, ZenonT(60) DEF fa_submit_reply, Sqe
    <3>3. freelist' = freelist
      BY <2>4, CallFields DEF PrepSqe
    <3>4. Head(Rest(todo)).call = "close"
      BY <2>4, CallTuples, CallFields
    <3>5. QED
      BY <1>3, <2>4, <3>1, <3>2, <3>3, <3>4, WorkerAssumption
  <2>5. QED
    BY <1>2, <2>1, <2>2, <2>3, <2>4, HelperShape, Zenon, ZenonT(60)
<1>5. sq' \in Seq(Sqe) /\ Len(sq') <= QueueDepth
      /\ \A c : HasConn(sq', c) <=> HasConn(sq, c) \/ Prep(Head(todo)).conn = c
  BY <1>2, <1>3, <1>4, AppendConn, WorkerAssumption
<1>6. TypeOK'
  BY <1>1, <1>2, <1>4, <1>5, HelperShape, Zenon, ZenonT(60) DEF TypeOK
<1>7. WellFormed'
  BY <1>1, <1>2, <1>3, <1>4, <1>5, Zenon, ZenonT(60)
     DEF WellFormed, InFlight, Waiting
<1>8. QED
  BY <1>2, <1>4, <1>6, <1>7

\* What the kernel takes from the submission queue.
LEMMA IssueShape ==
  ASSUME TypeInv, NEW op, Issue(op)
  PROVE  /\ Head(sq) \in Sqe /\ Head(sq).op = op
         /\ sq' \in Seq(Sqe) /\ Len(sq') <= QueueDepth
         /\ \A c : HasConn(sq, c) <=> Head(sq).conn = c \/ HasConn(sq', c)
         /\ tried' = TRUE
         /\ UNCHANGED <<cfg, stop, pc, direct, freelist, heap, fd, buf, reply,
                        batch, todo, peer, verdicts, given_up, backlog>>
<1> USE DEF TypeInv, Issue, workerVars, clientVars
<1>1. sq \in Seq(Sqe) /\ sq # <<>> /\ Len(sq) <= QueueDepth /\ sq' = Tail(sq)
      /\ QueueDepth \in Nat
  BY WorkerAssumption DEF TypeOK
<1>2. /\ Head(sq) \in Sqe /\ sq' \in Seq(Sqe) /\ Len(sq') = Len(sq) - 1
      /\ Len(sq) \in Nat
      /\ \A c : HasConn(sq, c) <=> Head(sq).conn = c \/ HasConn(sq', c)
  BY <1>1, TailConn
<1>3. Len(sq') <= QueueDepth
  BY <1>1, <1>2
<1>4. /\ Head(sq).op = op /\ tried' = TRUE
      /\ UNCHANGED <<cfg, stop, pc, direct, freelist, heap, fd, buf, reply,
                     batch, todo, peer, verdicts, given_up, backlog>>
  OBVIOUS
<1> HIDE DEF TypeInv, Issue, workerVars, clientVars
<1>5. QED
  BY <1>2, <1>3, <1>4, Zenon, ZenonT(60)

\* Every step keeps the types.
LEMMA TypeNext == TypeInv /\ [Next]_vars => TypeInv'
\* Steps of the loop that only move the program counter or the stop flag.
<1>TypeControl.
    ASSUME TypeInv,
           \/ RingInitFails \/ StopSeen \/ Enter \/ EnterFails \/ EnterTimesOut
           \/ BatchDone \/ Flush \/ FlushReturns \/ fa_server_stop
           \/ UNCHANGED vars
    PROVE  TypeInv'
  <2> USE <1>TypeControl
  <2> USE DEF TypeInv, workerVars, clientVars, ringVars
  <2>1. TypeOK'
    BY Zenon, ZenonT(60)
      DEF TypeOK, RingInitFails, StopSeen, Enter, EnterFails, EnterTimesOut,
           BatchDone, Flush, FlushReturns, fa_server_stop, vars, HelperRuns
  <2>2. WellFormed'
    BY Zenon, ZenonT(60)
       DEF TypeOK, WellFormed, InFlight, Waiting, RingInitFails, StopSeen, Enter,
           EnterFails, EnterTimesOut, BatchDone, Flush, FlushReturns,
           fa_server_stop, vars, HelperRuns
  <2>3. QED
    BY <2>1, <2>2
\* The start of the thread.
<1>TypeEntry.
    ASSUME TypeInv, fa_thread_entry
    PROVE  TypeInv'
  <2> USE <1>TypeEntry
  <2> USE DEF TypeInv, fa_thread_entry, clientVars
  <2>1. freelist' \in Seq(Conns) /\ heap' \subseteq Conns
    <3>1. PICK n \in 0..FreelistWarm : /\ freelist' \in [1..n -> Conns]
                                       /\ heap' = Range(freelist')
      BY DEF WarmFreelist
    <3>2. n \in Nat
      BY WorkerAssumption
    <3>3. QED
      BY <3>1, <3>2 DEF Range
  <2>2. sq' \in Seq(Sqe) /\ Len(sq') <= QueueDepth
    BY SqeFacts, WorkerAssumption
  <2>3. TypeOK'
    BY <2>1, <2>2 DEF TypeOK
  <2>4. ASSUME NEW c \in Conns, InFlight(c)' PROVE InFlight(c)
    BY <2>4, SqeFacts, EmptyConn, WorkerAssumption, Zenon, ZenonT(60)
      DEF InFlight, Waiting
  <2>5. WellFormed'
    BY <2>4, Zenon, ZenonT(60) DEF WellFormed, TypeOK
  <2>6. QED
    BY <2>3, <2>5
\* The end of an enter fixes the batch.
<1>TypeEnterReturns.
    ASSUME TypeInv, EnterReturns
    PROVE  TypeInv'
  <2> USE <1>TypeEnterReturns
  <2> USE DEF TypeInv, EnterReturns, clientVars, ringVars
  <2>1. batch' \in 0..CqeBatch /\ batch' <= Len(cq)
    BY WorkerAssumption DEF TypeOK
  <2>2. TypeOK'
    BY <2>1, Zenon, ZenonT(60) DEF TypeOK
  <2>3. WellFormed'
    BY <2>1, Zenon, ZenonT(60) DEF WellFormed, InFlight, Waiting
  <2>4. QED
    BY <2>2, <2>3
\* The handlers of the four kinds of completion.
<1>TypeHandlers.
    ASSUME TypeInv,
           HandleNull \/ HandleAccept \/ HandleRecvFailed \/ HandleRequest
    PROVE  TypeInv'
  <2> USE <1>TypeHandlers
  <2> USE DEF TypeInv, clientVars
  <2>1. PICK kind : TakeCqe(kind)
    BY Zenon, ZenonT(60)
       DEF HandleNull, HandleAccept, HandleRecvFailed, HandleRequest
  <2>2. /\ Head(cq) \in Cqe /\ cq' \in Seq(Cqe)
        /\ batch' \in 0..CqeBatch /\ batch' <= Len(cq')
        /\ \A c : HasConn(cq', c) => HasConn(cq, c)
        /\ HasConn(cq, Head(cq).conn)
        /\ \A i \in DOMAIN cq' :
             cq'[i].kind = "recv" /\ cq'[i].ok => buf[cq'[i].conn] \in Clients
        /\ Head(cq).kind = "recv" /\ Head(cq).ok
             => buf[Head(cq).conn] \in Clients
    BY <2>1, TypeTakeCqe, Zenon, ZenonT(60)
  <2>3. pc = "drain" /\ todo = <<>>
    BY <2>1 DEF TakeCqe
  <2>4. CASE HandleNull
    <3>1. TypeOK'
      BY <2>2, <2>4, Zenon, ZenonT(60) DEF HandleNull, TypeOK
    <3>2. WellFormed'
      BY <2>2, <2>3, <2>4, Zenon, ZenonT(60)
         DEF HandleNull, WellFormed, InFlight, Waiting
    <3>3. QED
      BY <3>1, <3>2
  <2>5. CASE HandleAccept
    <3>1. \/ todo' = <<>> \/ todo' = <<Arm>>
          \/ \E s \in Slots : todo' = <<Adopt(s)>> \/ todo' = <<Arm, Adopt(s)>>
      BY <2>2, <2>5, AcceptCalls
    <3>2. todo' \in HandlerCalls
      BY <3>1 DEF HandlerCalls
    <3>3. TypeOK'
      BY <2>2, <2>5, <3>2, Zenon, ZenonT(60) DEF HandleAccept, TypeOK
    <3>4. \A c \in Conns : ~HasConn(todo', c)
      BY <3>1, CallConns
    <3>5. todo' # <<>> => Head(todo').call # "send"
      BY <3>1, CallTuples, CallFields
    <3>6. UNCHANGED <<pc, fd, buf, sq, recvs>>
      BY <2>5 DEF HandleAccept
    <3>7. WellFormed'
      BY <2>2, <2>3, <3>4, <3>5, <3>6, Zenon, ZenonT(60)
         DEF WellFormed, InFlight, Waiting
    <3>8. QED
      BY <3>3, <3>7
  <2>6. CASE HandleRecvFailed \/ HandleRequest
    <3> DEFINE c == Head(cq).conn
    <3>1. c \in Conns /\ fd[c] \in Slots
      <4>1. Head(cq).kind = "recv"
        BY <2>6, Zenon, ZenonT(60) DEF HandleRecvFailed, HandleRequest, TakeCqe
      <4>2. c \in Conns
        BY <2>2, <4>1, CqeFacts
      <4>3. QED
        BY <2>2, <4>2, Zenon, ZenonT(60) DEF WellFormed, InFlight
    <3>2. \/ todo' = <<OnConn("close", c)>>
          \/ /\ todo' = <<OnConn("send", c), OnConn("close", c)>>
             /\ buf[c] \in Clients
      BY <2>2, <2>6, Zenon, ZenonT(60)
         DEF HandleRecvFailed, HandleRequest, TakeCqe
    <3>3. todo' \in HandlerCalls
      BY <3>1, <3>2 DEF HandlerCalls
    <3>4. \A d : HasConn(todo', d) <=> d = c
      BY <3>2, CallConns
    <3>5. TypeOK'
      <4>1. CASE HandleRecvFailed
        BY <2>2, <3>3, <4>1, Zenon, ZenonT(60) DEF HandleRecvFailed, TypeOK
      <4>2. CASE HandleRequest
        <5>1. PICK v \in {"reply", "decline"} :
                /\ reply' \in Scratch(c, v)
                /\ verdicts' = [verdicts EXCEPT ![buf[c]] = Append(@, v)]
          BY <4>2, Zenon, ZenonT(60) DEF HandleRequest
        <5>2. reply' \in Clients \cup {Nobody}
          <6>1. /\ buf[c] \in Clients \cup {Nobody}
                /\ reply \in Clients \cup {Nobody}
            BY <3>1, Zenon, ZenonT(60) DEF TypeOK
          <6>2. Scratch(c, v) \subseteq {reply, buf[c]}
            BY DEF Scratch
          <6>3. QED
            BY <5>1, <6>1, <6>2, Zenon, ZenonT(60)
        <5>3. verdicts' \in [Clients -> Seq({"reply", "decline"})]
          <6> DEFINE V == Seq({"reply", "decline"})
          <6>1. \A w \in V : Append(w, v) \in V
            OBVIOUS
          <6>2. verdicts \in [Clients -> V]
            BY DEF TypeOK
          <6> HIDE DEF V
          <6>3. verdicts' \in [Clients -> V]
            BY <5>1, <6>1, <6>2, Zenon, ZenonT(60)
          <6>4. QED
            BY <6>3 DEF V
        <5>4. QED
          BY <2>2, <3>3, <4>2, <5>2, <5>3, Zenon, ZenonT(60)
             DEF HandleRequest, TypeOK
      <4>3. QED
        BY <2>6, <4>1, <4>2
    <3>6. UNCHANGED <<pc, fd, buf, sq, recvs>>
      BY <2>6, Zenon, ZenonT(60) DEF HandleRecvFailed, HandleRequest
    <3>7. Head(todo').call = "send" => buf[Head(todo').conn] \in Clients
      <4> HIDE DEF c
      <4>1. CASE todo' = <<OnConn("close", c)>>
        <5>1. Head(todo') = OnConn("close", c)
          BY <4>1, CallHeads, Zenon, ZenonT(60)
        <5>2. Head(todo').call = "close"
          BY <5>1, CallFields, Zenon, ZenonT(60)
        <5>3. QED
          BY <5>2, Zenon, ZenonT(60)
      <4>2. CASE /\ todo' = <<OnConn("send", c), OnConn("close", c)>>
                 /\ buf[c] \in Clients
        <5>1. Head(todo') = OnConn("send", c)
          BY <4>2, CallHeads, Zenon, ZenonT(60)
        <5>2. Head(todo').conn = c
          BY <5>1, CallFields
        <5>3. QED
          BY <4>2, <5>2, Zenon, ZenonT(60)
      <4>3. QED
        BY <3>2, <4>1, <4>2, Zenon, ZenonT(60)
    <3>8. WellFormed'
      BY <2>2, <2>3, <3>1, <3>4, <3>6, <3>7, Zenon, ZenonT(60)
        DEF WellFormed, InFlight, Waiting
    <3>9. QED
      BY <3>5, <3>8
  <2>7. QED
    BY <2>4, <2>5, <2>6
\* Releasing a descriptor keeps the tables well typed.
<1>TypeRelease.
    ASSUME TypeOK, NEW s, Release(s)
    PROVE  /\ file' \in [Slots -> Clients \cup {Nobody}]
           /\ sock' \in [Clients -> {"new", "queued", "open", "closed", "reset"}]
  BY <1>TypeRelease, Zenon, ZenonT(60) DEF TypeOK, Release
\* Adopting an accepted descriptor.
<1>TypeAdopt.
    ASSUME TypeInv, AdoptConn
    PROVE  TypeInv'
  <2> USE <1>TypeAdopt
  <2> USE DEF TypeInv, clientVars
  <2>1. UNCHANGED <<cfg, stop, pc, direct, buf, reply, batch, tried, sq, cq,
                    accepts, recvs, backlog, inbox, peer, verdicts>>
    BY DEF AdoptConn
  <2>2. PICK s \in Slots : todo = <<Adopt(s)>>
    <3>1. pc = "drain" /\ todo # <<>> /\ Head(todo).call = "adopt"
      BY DEF AdoptConn
    <3>2. todo \in HandlerCalls
      BY DEF TypeOK
    <3>3. QED
      BY <3>1, <3>2, HandlerCallsShape, CallTuples, CallFields
  <2>3. Head(todo).slot = s /\ pc = "drain"
    BY <2>2, CallTuples, CallFields DEF AdoptConn
  <2>4. CASE \E c \in Conns : /\ fa_conn_alloc(c)
                              /\ fd' = [fd EXCEPT ![c] = s]
                              /\ todo' = <<OnConn("recv", c)>>
                              /\ UNCHANGED <<file, sock, given_up>>
    <3>1. PICK c \in Conns : /\ fa_conn_alloc(c)
                             /\ fd' = [fd EXCEPT ![c] = s]
                             /\ todo' = <<OnConn("recv", c)>>
                             /\ UNCHANGED <<file, sock, given_up>>
      BY <2>4, Zenon, ZenonT(60)
    <3>2. freelist' \in Seq(Conns) /\ heap' \subseteq Conns
      <4>1. freelist \in Seq(Conns) /\ heap \subseteq Conns
        BY DEF TypeOK
      <4>2. freelist # <<>> => Tail(freelist) \in Seq(Conns)
        BY <4>1
      <4>3. CASE freelist # <<>>
        BY <3>1, <4>1, <4>2, <4>3, Zenon, ZenonT(60) DEF fa_conn_alloc
      <4>4. CASE freelist = <<>>
        BY <3>1, <4>1, <4>4 DEF fa_conn_alloc
      <4>5. QED
        BY <4>3, <4>4
    <3>3. todo' \in HandlerCalls
      BY <3>1 DEF HandlerCalls
    <3>4. fd' \in [Conns -> Slots \cup {NoSlot}] /\ fd'[c] \in Slots
          /\ \A d \in Conns : fd[d] \in Slots => fd'[d] \in Slots
      BY <3>1 DEF TypeOK
    <3>5. TypeOK'
      BY <2>1, <3>1, <3>2, <3>3, <3>4, Zenon, ZenonT(60) DEF TypeOK
    <3>6. \A d : HasConn(todo', d) <=> d = c
      BY <3>1, CallConns
    <3>7. Head(todo').call # "send"
      BY <3>1, CallTuples, CallFields
    <3>8. WellFormed'
      BY <2>1, <2>3, <3>4, <3>6, <3>7, Zenon, ZenonT(60)
         DEF WellFormed, InFlight, Waiting
    <3>9. QED
      BY <3>5, <3>8
  <2>5. CASE /\ CloseUnlessDirect(s) /\ todo' = <<>>
             /\ given_up' = given_up \cup (IF direct THEN {s} ELSE {})
             /\ UNCHANGED <<freelist, heap, fd>>
    <3>1. /\ file' \in [Slots -> Clients \cup {Nobody}]
          /\ sock' \in [Clients -> {"new", "queued", "open", "closed", "reset"}]
          /\ given_up' \subseteq Slots
      BY <2>5, <1>TypeRelease, Zenon, ZenonT(60) DEF CloseUnlessDirect, TypeOK
    <3>2. TypeOK'
      BY <2>1, <2>5, <3>1, Zenon, ZenonT(60) DEF TypeOK, HandlerCalls
    <3>3. WellFormed'
      BY <2>1, <2>3, <2>5, EmptyConn, Zenon, ZenonT(60)
         DEF WellFormed, InFlight, Waiting
    <3>4. QED
      BY <3>2, <3>3
  <2>6. QED
    BY <2>3, <2>4, <2>5, Zenon, ZenonT(60) DEF AdoptConn
\* Giving up for want of an SQE.
<1>TypeFallback.
    ASSUME TypeInv, Fallback
    PROVE  TypeInv'
  <2> USE <1>TypeFallback
  <2> USE DEF TypeInv, clientVars
  <2>1. UNCHANGED <<cfg, stop, pc, direct, heap, fd, buf, reply, batch, sq, cq,
                    accepts, recvs, backlog, inbox, peer, verdicts, given_up>>
    BY Zenon, ZenonT(60) DEF Fallback
  <2>2. HelperRuns /\ tried' = FALSE /\ pc = "drain"
    BY Zenon, ZenonT(60) DEF Fallback, HelperRuns
  <2>3. CASE Head(todo) = Arm
    <3>1. todo' = Rest(todo) /\ UNCHANGED <<freelist, file, sock>>
      BY <2>3, CallFields, Zenon, ZenonT(60) DEF Fallback, Rest
    <3>2. Head(todo).call = "arm" /\ \A h, c : OnConn(h, c).call = h
      BY <2>3, CallFields
    <3>3. /\ Rest(todo) \in HandlerCalls
          /\ \A c \in Conns : ~HasConn(Rest(todo), c)
          /\ Rest(todo) # <<>> => Head(Rest(todo)).call = "adopt"
      <4>1. \A c : /\ Head(todo) # OnConn("recv", c)
                   /\ Head(todo) # OnConn("send", c)
                   /\ Head(todo) # OnConn("close", c)
        <5> HIDE DEF TypeInv
        <5>1. "arm" # "recv" /\ "arm" # "send" /\ "arm" # "close"
          OBVIOUS
        <5>2. QED
          BY <3>2, <5>1, Zenon, ZenonT(60)
      <4>2. QED
        BY <2>2, <4>1, HelperShape, Zenon, ZenonT(60)
    <3>4. TypeOK'
      BY <2>1, <2>2, <3>1, <3>3, Zenon, ZenonT(60) DEF TypeOK
    <3>5. WellFormed'
      BY <2>1, <2>2, <3>1, <3>3, Zenon, ZenonT(60)
         DEF WellFormed, InFlight, Waiting
    <3>6. QED
      BY <3>4, <3>5
  <2>4. ASSUME NEW c \in Conns, NEW h \in {"recv", "send", "close"},
               Head(todo) = OnConn(h, c)
        PROVE  TypeInv'
    <3>1. /\ todo' = <<>> /\ CloseUnlessDirect(fd[c])
          /\ freelist' = <<c>> \o freelist
      <4> HIDE DEF TypeInv
      <4> HIDE <1>TypeFallback
      <4>1. Head(todo).call = h /\ Head(todo).conn = c
        BY <2>4, CallFields
      <4>2. h # "arm"
        BY <2>4
      <4>3. QED
        BY <1>TypeFallback, <4>1, <4>2 DEF Fallback, fa_conn_free
    <3>2. freelist' \in Seq(Conns)
      BY <3>1 DEF TypeOK
    <3>3. /\ file' \in [Slots -> Clients \cup {Nobody}]
          /\ sock' \in [Clients -> {"new", "queued", "open", "closed", "reset"}]
      BY <3>1, <1>TypeRelease, Zenon, ZenonT(60) DEF CloseUnlessDirect, TypeOK
    <3>4. todo' \in HandlerCalls
      BY <3>1, Zenon, ZenonT(60) DEF HandlerCalls
    <3>5. TypeOK'
      BY <2>1, <2>2, <3>2, <3>3, <3>4, Zenon, ZenonT(60) DEF TypeOK
    <3>6. WellFormed'
      BY <2>1, <2>2, <3>1, EmptyConn, Zenon, ZenonT(60)
         DEF WellFormed, InFlight, Waiting
    <3>7. QED
      BY <3>5, <3>6
  <2>5. QED
    BY <2>2, <2>3, <2>4, HelperShape, Zenon, ZenonT(60)
\* Posting a completion keeps the completion queue well formed.
<1>PostCqe.
    ASSUME TypeInv, NEW e \in Cqe, cq' = Append(cq, e),
           UNCHANGED <<batch, buf>>,
           e.kind = "recv" /\ e.ok => buf[e.conn] \in Clients
    PROVE  /\ cq' \in Seq(Cqe) /\ batch' <= Len(cq')
           /\ \A c : HasConn(cq', c) <=> HasConn(cq, c) \/ e.conn = c
           /\ \A i \in DOMAIN cq' :
                cq'[i].kind = "recv" /\ cq'[i].ok => buf'[cq'[i].conn] \in Clients
  <2> USE <1>PostCqe
  <2> USE DEF TypeInv
  <2>1. cq \in Seq(Cqe) /\ batch \in Nat /\ batch <= Len(cq) /\ Len(cq) \in Nat
    BY QueueBounds, Zenon, ZenonT(60)
  <2>2. /\ cq' \in Seq(Cqe) /\ Len(cq') = Len(cq) + 1
        /\ \A c : HasConn(cq', c) <=> HasConn(cq, c) \/ e.conn = c
    BY <2>1, AppendConn
  <2>3. \A i \in DOMAIN cq' : (i \in DOMAIN cq /\ cq'[i] = cq[i]) \/ cq'[i] = e
    BY <2>1
  <2>4. batch' <= Len(cq')
    <3> HIDE DEF TypeInv
    <3>1. batch' = batch
      BY Zenon, ZenonT(60)
    <3>2. QED
      BY <2>1, <2>2, <3>1
  <2>5. ASSUME NEW i \in DOMAIN cq', cq'[i].kind = "recv", cq'[i].ok
        PROVE  buf'[cq'[i].conn] \in Clients
    BY <2>3, <2>5, Zenon, ZenonT(60) DEF WellFormed
  <2>6. QED
    BY <2>2, <2>4, <2>5, Zenon, ZenonT(60)
\* The kernel consumes an SQE.
<1>TypeIssue.
    ASSUME TypeInv, IssueAccept \/ IssueRecv \/ IssueSend \/ IssueClose
    PROVE  TypeInv'
  <2> USE <1>TypeIssue
  <2> USE DEF TypeInv
  <2>1. PICK op : Issue(op)
    BY Zenon, ZenonT(60) DEF IssueAccept, IssueRecv, IssueSend, IssueClose
  <2>2. /\ sq' \in Seq(Sqe) /\ Len(sq') <= QueueDepth
        /\ \A c : HasConn(sq, c) <=> Head(sq).conn = c \/ HasConn(sq', c)
        /\ tried' = TRUE
        /\ UNCHANGED <<cfg, stop, pc, direct, freelist, heap, fd, buf, reply,
                       batch, todo, peer, verdicts, given_up, backlog>>
    BY <2>1, IssueShape, Zenon, ZenonT(60)
  <2>3. pc \in {"enter", "flush"}
    BY <2>1 DEF Issue
  <2> DEFINE Posts == \E e \in Cqe : /\ cq' = Append(cq, e)
                                     /\ ~(e.kind = "recv" /\ e.ok)
                                     /\ \A c \in Conns : e.conn = c => InFlight(c)
             Consumed ==
               /\ cq' = cq \/ Posts
               /\ accepts' \in Nat /\ recvs' \subseteq Recv
               /\ \A c \in Conns : Waiting(c)' => InFlight(c)
               /\ file' \in [Slots -> Clients \cup {Nobody}]
               /\ sock' \in [Clients -> {"new", "queued", "open", "closed",
                                         "reset"}]
               /\ inbox' \in [Clients -> Seq(Message)]
  <2>4. ASSUME IssueAccept PROVE Consumed
    <3> DEFINE e == AcceptCqe(NoSlot, FALSE)
    <3>1. e \in Cqe /\ e.kind = "accept" /\ e.conn = NoConn
      BY CqeFacts, Zenon, ZenonT(60)
    <3>2. /\ UNCHANGED <<recvs, file, sock, inbox>>
          /\ accepts' = accepts \/ accepts' = accepts + 1
          /\ cq' = cq \/ cq' = Append(cq, e)
      BY <2>4, Zenon, ZenonT(60) DEF IssueAccept
    <3> HIDE DEF e
    <3>3. accepts' \in Nat
      BY <3>2 DEF TypeOK
    <3>4. QED
      BY <3>1, <3>2, <3>3, WorkerAssumption, Zenon, ZenonT(60)
         DEF TypeOK, InFlight, Waiting
  <2>5. ASSUME IssueRecv PROVE Consumed
    <3> DEFINE c == Head(sq).conn
    <3>1. Issue("recv")
      BY <2>5, Zenon, ZenonT(60) DEF IssueRecv
    <3>2. c \in Conns /\ Head(sq).slot \in Slots /\ InFlight(c)
      <4> HIDE DEF TypeInv
      <4>1. Head(sq) \in Sqe /\ Head(sq).op = "recv" /\ HasConn(sq, c)
        BY <3>1, IssueShape, Zenon, ZenonT(60)
      <4>2. c \in Conns
        BY <4>1, SqeFacts, Zenon, ZenonT(60)
      <4>3. Head(sq).slot \in Slots
        BY <4>1, SqeFacts
      <4>4. InFlight(c)
        BY <4>1, Zenon, ZenonT(60) DEF InFlight
      <4>5. QED
        BY <4>2, <4>3, <4>4, Zenon, ZenonT(60)
    <3>3. PICK e \in Cqe : e = RecvCqe(c, FALSE) /\ e.conn = c /\ ~e.ok
      BY <3>2, CqeFacts, Zenon, ZenonT(60)
    <3>4. UNCHANGED <<accepts, file, sock, inbox>>
      BY <2>5, Zenon, ZenonT(60) DEF IssueRecv
    <3>5. CASE /\ file[Head(sq).slot] = Nobody
               /\ cq' = Append(cq, e) /\ recvs' = recvs
      <4>1. Posts
        BY <3>2, <3>3, <3>5, Zenon, ZenonT(60)
      <4>2. \A d \in Conns : Waiting(d)' => InFlight(d)
        BY <3>5 DEF InFlight, Waiting
      <4>3. QED
        BY <3>4, <3>5, <4>1, <4>2, Zenon, ZenonT(60) DEF TypeOK
    <3>6. CASE /\ file[Head(sq).slot] # Nobody /\ cq' = cq
               /\ recvs' = recvs \cup {[conn |-> c,
                                        client |-> file[Head(sq).slot]]}
      <4>1. file[Head(sq).slot] \in Clients
        BY <3>2, <3>6, Zenon, ZenonT(60) DEF TypeOK
      <4> DEFINE r == [conn |-> c, client |-> file[Head(sq).slot]]
      <4>2. r \in Recv
        BY <3>2, <4>1 DEF Recv
      <4>3. recvs' \subseteq Recv
        <5>1. recvs \subseteq Recv /\ recvs' = recvs \cup {r}
          BY <3>6, Zenon, ZenonT(60) DEF TypeOK
        <5> HIDE DEF r
        <5>2. QED
          BY <4>2, <5>1
      <4>4. \A d \in Conns : Waiting(d)' => InFlight(d)
        <5>1. r.conn = c /\ recvs' = recvs \cup {r}
          BY <3>6, Zenon, ZenonT(60)
        <5> HIDE DEF r
        <5>2. QED
          BY <3>2, <5>1, Zenon, ZenonT(60) DEF Waiting, InFlight
      <4>5. QED
        BY <3>4, <3>6, <4>3, <4>4, Zenon, ZenonT(60) DEF TypeOK
    <3>7. QED
      BY <2>5, <3>3, <3>5, <3>6, Zenon, ZenonT(60) DEF IssueRecv
  <2>6. ASSUME IssueSend PROVE Consumed
    <3>1. Issue("send") /\ UNCHANGED <<accepts, recvs, file, sock>>
      BY <2>6, Zenon, ZenonT(60) DEF IssueSend
    <3>2. Head(sq).slot \in Slots /\ Head(sq).for \in Clients
      <4>1. Head(sq) \in Sqe /\ Head(sq).op = "send"
        BY <3>1, IssueShape, Zenon, ZenonT(60)
      <4>2. QED
        BY <4>1, SqeFacts
    <3>3. CASE cq' = Append(cq, NullCqe) /\ inbox' = inbox
      <4>1. NullCqe \in Cqe /\ NullCqe.kind = "null" /\ NullCqe.conn \notin Conns
        BY CqeFacts, WorkerAssumption
      <4>2. QED
        BY <3>1, <3>3, <4>1, Zenon, ZenonT(60) DEF TypeOK, InFlight, Waiting
    <3>4. CASE /\ cq' = cq /\ file[Head(sq).slot] # Nobody
               /\ \E whole \in BOOLEAN :
                    inbox' = [inbox EXCEPT ![file[Head(sq).slot]] =
                                Append(@, [of |-> BytesOf(Head(sq)),
                                           for |-> Head(sq).for,
                                           whole |-> whole])]
      <4> DEFINE M == Seq(Message)
                 k == file[Head(sq).slot]
      <4>1. PICK whole \in BOOLEAN :
              inbox' = [inbox EXCEPT ![k] =
                          Append(@, [of |-> BytesOf(Head(sq)),
                                     for |-> Head(sq).for, whole |-> whole])]
        BY <3>4, Zenon, ZenonT(60)
      <4> DEFINE m == [of |-> BytesOf(Head(sq)), for |-> Head(sq).for,
                       whole |-> whole]
      <4>2. m \in Message
        BY <3>2, Zenon, ZenonT(60) DEF TypeOK, Message, BytesOf
      <4> HIDE DEF m
      <4>3. \A w \in M : Append(w, m) \in M
        BY <4>2
      <4>4. inbox \in [Clients -> M] /\ inbox' = [inbox EXCEPT ![k] = Append(@, m)]
        BY <4>1, Zenon, ZenonT(60) DEF TypeOK, m
      <4> HIDE DEF M, k
      <4>5. inbox' \in [Clients -> M]
        BY <4>3, <4>4, Zenon, ZenonT(60)
      <4>6. inbox' \in [Clients -> Seq(Message)]
        BY <4>5 DEF M
      <4>7. QED
        BY <3>1, <3>4, <4>6, Zenon, ZenonT(60) DEF TypeOK, InFlight, Waiting
    <3>5. QED
      BY <2>6, <3>3, <3>4, Zenon, ZenonT(60) DEF IssueSend
  <2>7. ASSUME IssueClose PROVE Consumed
    <3>1. /\ UNCHANGED <<accepts, recvs, inbox>> /\ Release(Head(sq).slot)
          /\ cq' = cq \/ cq' = Append(cq, NullCqe)
      BY <2>7, Zenon, ZenonT(60) DEF IssueClose
    <3>2. NullCqe \in Cqe /\ NullCqe.kind = "null" /\ NullCqe.conn \notin Conns
      BY CqeFacts, WorkerAssumption
    <3>3. /\ file' \in [Slots -> Clients \cup {Nobody}]
          /\ sock' \in [Clients -> {"new", "queued", "open", "closed", "reset"}]
      BY <3>1, <1>TypeRelease
    <3>4. QED
      BY <3>1, <3>2, <3>3, Zenon, ZenonT(60) DEF TypeOK, InFlight, Waiting
  <2>8. Consumed => TypeInv'
    <3> SUFFICES ASSUME Consumed PROVE TypeInv'
      OBVIOUS
    <3> DEFINE Queue == /\ cq' \in Seq(Cqe) /\ batch' <= Len(cq')
                        /\ \A c \in Conns : HasConn(cq', c) => InFlight(c)
                        /\ \A i \in DOMAIN cq' :
                             cq'[i].kind = "recv" /\ cq'[i].ok
                               => buf'[cq'[i].conn] \in Clients
    <3>1. Queue
      <4>1. CASE cq' = cq
        BY <2>2, <4>1, Zenon, ZenonT(60) DEF TypeOK, WellFormed, InFlight
      <4>2. CASE Posts
        <5>1. PICK e \in Cqe : /\ cq' = Append(cq, e)
                               /\ ~(e.kind = "recv" /\ e.ok)
                               /\ \A c \in Conns : e.conn = c => InFlight(c)
          BY <4>2
        <5>2. QED
          BY <2>2, <5>1, <1>PostCqe, Zenon, ZenonT(60) DEF InFlight
      <4>3. QED
        BY <4>1, <4>2, Zenon, ZenonT(60)
    <3>2. TypeOK'
      BY <2>2, <3>1, Zenon, ZenonT(60) DEF TypeOK
    <3>3. \A c \in Conns : InFlight(c)' => InFlight(c)
      BY <2>2, <3>1, Zenon, ZenonT(60) DEF InFlight
    <3>4. WellFormed'
      BY <2>2, <3>1, <3>3, Zenon, ZenonT(60) DEF WellFormed
    <3>5. QED
      BY <3>2, <3>4
  <2>9. QED
    BY <2>4, <2>5, <2>6, <2>7, <2>8, Zenon, ZenonT(60)
\* A send is made on a conn.
<1>SendConn.
    ASSUME NEW t \in HandlerCalls, t # <<>>, Head(t).call = "send"
    PROVE  Head(t).conn \in Conns
  <2> USE <1>SendConn
  <2>1. CASE t = <<Arm>>
    BY <2>1, CallTuples, CallFields
  <2>2. ASSUME NEW s \in Slots, t = <<Adopt(s)>> \/ t = <<Arm, Adopt(s)>>
        PROVE  FALSE
    BY <2>2, CallTuples, CallFields
  <2>3. ASSUME NEW c \in Conns,
               \/ t = <<OnConn("recv", c)>> \/ t = <<OnConn("close", c)>>
               \/ t = <<OnConn("send", c), OnConn("close", c)>>
        PROVE  Head(t).conn \in Conns
    BY <2>3, CallTuples, CallFields
  <2>4. QED
    BY <2>1, <2>2, <2>3, HandlerCallsShape, Zenon, ZenonT(60)
\* Requests that complete on their own.
<1>TypeCompletes.
    ASSUME TypeInv, AcceptCompletes \/ AcceptFails \/ RecvCompletes
    PROVE  TypeInv'
  <2> USE <1>TypeCompletes
  <2> USE DEF TypeInv
  <2>1. UNCHANGED <<cfg, stop, pc, direct, freelist, heap, fd, reply, batch, todo,
                    tried, sq, inbox, peer, verdicts, given_up>>
    BY Zenon, ZenonT(60)
      DEF AcceptCompletes, AcceptFails, RecvCompletes, Completes, workerVars,
           clientVars
  <2> DEFINE States == {"new", "queued", "open", "closed", "reset"}
  <2>2. ASSUME UNCHANGED <<recvs, buf>>, accepts' \in Nat,
               backlog' \in Seq(Clients), sock' \in [Clients -> States],
               file' \in [Slots -> Clients \cup {Nobody}],
               NEW e \in Cqe, cq' = Append(cq, e), e.conn = NoConn,
               e.kind = "accept"
        PROVE  TypeInv'
    <3>1. /\ cq' \in Seq(Cqe) /\ batch' <= Len(cq')
          /\ \A c : HasConn(cq', c) <=> HasConn(cq, c) \/ e.conn = c
          /\ \A i \in DOMAIN cq' :
               cq'[i].kind = "recv" /\ cq'[i].ok => buf'[cq'[i].conn] \in Clients
      BY <2>1, <2>2, <1>PostCqe, Zenon, ZenonT(60)
    <3>2. TypeOK'
      BY <2>1, <2>2, <3>1, Zenon, ZenonT(60) DEF TypeOK
    <3>3. \A c \in Conns : InFlight(c)' => InFlight(c)
      BY <2>1, <2>2, <3>1, WorkerAssumption, Zenon, ZenonT(60)
         DEF InFlight, Waiting
    <3>4. WellFormed'
      BY <2>1, <2>2, <3>1, <3>3, Zenon, ZenonT(60) DEF WellFormed
    <3>5. QED
      BY <3>2, <3>4
  <2>3. backlog # <<>> => Head(backlog) \in Clients /\ Tail(backlog) \in Seq(Clients)
    BY DEF TypeOK
  <2>4. CASE AcceptCompletes
    <3>1. PICK s \in Slots, more \in BOOLEAN :
            /\ file' = [file EXCEPT ![s] = Head(backlog)]
            /\ cq' = Append(cq, AcceptCqe(s, more))
            /\ accepts' = IF more THEN accepts ELSE accepts - 1
      BY <2>4, Zenon, ZenonT(60) DEF AcceptCompletes
    <3>2. /\ accepts > 0 /\ backlog # <<>> /\ UNCHANGED <<recvs, buf>>
          /\ sock' = [sock EXCEPT ![Head(backlog)] = "open"]
          /\ backlog' = Tail(backlog)
      BY <2>4 DEF AcceptCompletes
    <3>3. /\ accepts' \in Nat /\ sock' \in [Clients -> States]
          /\ file' \in [Slots -> Clients \cup {Nobody}]
      BY <2>3, <3>1, <3>2 DEF TypeOK
    <3> DEFINE e == AcceptCqe(s, more)
    <3>4. e \in Cqe /\ e.conn = NoConn /\ e.kind = "accept"
      BY CqeFacts
    <3> HIDE DEF e
    <3>5. cq' = Append(cq, e)
      BY <3>1 DEF e
    <3>6. QED
      BY <2>2, <2>3, <3>2, <3>3, <3>4, <3>5
  <2>5. CASE AcceptFails
    <3> DEFINE e == AcceptCqe(NoSlot, FALSE)
    <3>1. e \in Cqe /\ e.kind = "accept" /\ e.conn = NoConn
      BY CqeFacts, Zenon, ZenonT(60)
    <3>2. /\ accepts > 0 /\ backlog # <<>> /\ UNCHANGED <<recvs, buf, file>>
          /\ \/ UNCHANGED <<backlog, sock>>
             \/ /\ sock' = [sock EXCEPT ![Head(backlog)] = "closed"]
                /\ backlog' = Tail(backlog)
          /\ cq' = Append(cq, e)
          /\ accepts' = accepts - 1
      BY <2>5, Zenon, ZenonT(60) DEF AcceptFails
    <3> HIDE DEF e
    <3>3. accepts' \in Nat /\ backlog' \in Seq(Clients)
      <4>1. accepts \in Nat /\ backlog \in Seq(Clients)
        BY Zenon, ZenonT(60) DEF TypeOK
      <4>2. accepts' \in Nat
        BY <3>2, <4>1
      <4>3. backlog' = backlog \/ backlog' = Tail(backlog)
        BY <3>2, Zenon, ZenonT(60)
      <4>4. QED
        BY <2>3, <3>2, <4>1, <4>2, <4>3, Zenon, ZenonT(60)
    <3>4. /\ file' \in [Slots -> Clients \cup {Nobody}]
          /\ sock' \in [Clients -> States]
      BY <3>2, Zenon, ZenonT(60) DEF TypeOK
    <3>5. QED
      BY <2>2, <3>1, <3>2, <3>3, <3>4
  <2>6. CASE RecvCompletes
    <3>1. PICK r \in recvs :
            /\ recvs' = recvs \ {r}
            /\ cq' = Append(cq, RecvCqe(r.conn, peer[r.client] = "request"))
            /\ buf' = IF peer[r.client] = "request"
                      THEN [buf EXCEPT ![r.conn] = r.client] ELSE buf
      BY <2>6, Zenon, ZenonT(60) DEF RecvCompletes
    <3>2. UNCHANGED <<accepts, file, backlog, sock>>
      BY <2>6, Zenon, ZenonT(60) DEF RecvCompletes
    <3>3. r.conn \in Conns /\ r.client \in Clients /\ InFlight(r.conn)
      BY Zenon, ZenonT(60) DEF TypeOK, Recv, InFlight, Waiting
    <3> DEFINE got == peer[r.client] = "request"
               e == RecvCqe(r.conn, got)
    <3>4. e \in Cqe /\ e.conn = r.conn /\ (e.ok => got)
      <4>1. got \in BOOLEAN
        OBVIOUS
      <4> HIDE DEF got
      <4>2. e.ok = got /\ e \in Cqe /\ e.conn = r.conn
        BY <3>3, <4>1, CqeFacts, Zenon, ZenonT(60)
      <4>3. QED
        BY <4>2
    <3>5. cq' = Append(cq, e)
      BY <3>1, Zenon, ZenonT(60)
    <3>6. /\ buf' \in [Conns -> Clients \cup {Nobody}]
          /\ got => buf'[r.conn] = r.client
          /\ \A c \in Conns : buf[c] \in Clients => buf'[c] \in Clients
      BY <3>1, <3>3, Zenon, ZenonT(60) DEF TypeOK
    <3> HIDE DEF got, e
    <3>7. cq \in Seq(Cqe) /\ batch \in Nat /\ batch <= Len(cq) /\ Len(cq) \in Nat
      BY QueueBounds, Zenon, ZenonT(60)
    <3>8. /\ cq' \in Seq(Cqe) /\ Len(cq') = Len(cq) + 1
          /\ \A c : HasConn(cq', c) <=> HasConn(cq, c) \/ e.conn = c
      <4> HIDE DEF TypeInv
      <4>1. /\ Append(cq, e) \in Seq(Cqe) /\ Len(Append(cq, e)) = Len(cq) + 1
            /\ \A c : HasConn(Append(cq, e), c) <=> HasConn(cq, c) \/ e.conn = c
        BY <3>4, <3>7, AppendConn, Zenon, ZenonT(60)
      <4>2. QED
        BY <3>5, <4>1, Zenon, ZenonT(60)
    <3>9. \A i \in DOMAIN cq' : (i \in DOMAIN cq /\ cq'[i] = cq[i]) \/ cq'[i] = e
      <4> HIDE DEF TypeInv
      <4>1. \A i \in DOMAIN Append(cq, e) :
              (i \in DOMAIN cq /\ Append(cq, e)[i] = cq[i]) \/ Append(cq, e)[i] = e
        BY <3>4, <3>7, AppendEntries, Zenon, ZenonT(60)
      <4>2. QED
        BY <3>5, <4>1, Zenon, ZenonT(60)
    <3>10. \A i \in DOMAIN cq :
             cq[i].kind = "recv" /\ cq[i].ok => buf'[cq[i].conn] \in Clients
      <4>1. SUFFICES ASSUME NEW i \in DOMAIN cq, cq[i].kind = "recv", cq[i].ok
                     PROVE  buf'[cq[i].conn] \in Clients
        BY Zenon, ZenonT(60)
      <4>2. cq[i] \in Cqe
        BY <3>7
      <4>3. buf[cq[i].conn] \in Clients
        BY <4>1, Zenon, ZenonT(60) DEF WellFormed
      <4>4. cq[i].conn \in Conns
        BY <4>1, <4>2, CqeFacts, Zenon, ZenonT(60)
      <4>5. QED
        BY <3>6, <4>3, <4>4, Zenon, ZenonT(60)
    <3>11. e.ok => buf'[e.conn] \in Clients
      BY <3>3, <3>4, <3>6, Zenon, ZenonT(60)
    <3>12. recvs' \subseteq Recv /\ \A c : Waiting(c)' => Waiting(c)
      BY <3>1, Zenon, ZenonT(60) DEF TypeOK, Waiting
    <3>13. TypeOK'
      BY <2>1, <3>2, <3>6, <3>8, <3>12, Zenon, ZenonT(60) DEF TypeOK
    <3>14. \A c \in Conns : InFlight(c)' => InFlight(c)
      BY <2>1, <3>3, <3>4, <3>8, <3>12, Zenon, ZenonT(60) DEF InFlight
    <3>15. todo' # <<>> /\ Head(todo').call = "send"
             => buf'[Head(todo').conn] \in Clients
      <4>1. ASSUME todo # <<>>, Head(todo).call = "send"
            PROVE  Head(todo).conn \in Conns
        <5>1. todo \in HandlerCalls
          BY Zenon, ZenonT(60) DEF TypeOK
        <5>2. QED
          BY <4>1, <5>1, <1>SendConn
      <4>2. QED
        BY <2>1, <3>6, <4>1, Zenon, ZenonT(60) DEF WellFormed
    <3>16. batch' <= Len(cq')
      BY <2>1, <3>7, <3>8
    <3>17. WellFormed'
      BY <2>1, <3>9, <3>10, <3>11, <3>14, <3>15, <3>16, Zenon, ZenonT(60)
         DEF WellFormed
    <3>18. QED
      BY <3>13, <3>17
  <2>7. QED
    BY <2>4, <2>5, <2>6
\* The teardown, and the peers.
<1>TypeOthers.
    ASSUME TypeInv, Teardown \/ \E k \in Clients : Connect(k) \/ Write(k)
    PROVE  TypeInv'
  <2> USE <1>TypeOthers
  <2> USE DEF TypeInv, workerVars, clientVars, ringVars
  <2>1. CASE Teardown
    <3>1. /\ pc' = "torn" /\ sq' = <<>> /\ cq' = <<>> /\ todo' = <<>>
          /\ recvs' = {} /\ accepts' = 0 /\ batch' = 0
      BY <2>1, Zenon, ZenonT(60) DEF Teardown
    <3>2. /\ file' \in [Slots -> Clients \cup {Nobody}]
          /\ sock' \in [Clients -> {"new", "queued", "open", "closed", "reset"}]
      BY <2>1, Zenon, ZenonT(60) DEF Teardown, TypeOK
    <3>3. TypeOK'
      <4>1. /\ freelist' \in Seq(Conns) /\ heap' \subseteq Conns
            /\ backlog' \in Seq(Clients) /\ batch' \in 0..CqeBatch
            /\ sq' \in Seq(Sqe) /\ Len(sq') <= QueueDepth /\ cq' \in Seq(Cqe)
            /\ accepts' \in Nat
        <5>1. /\ freelist' = <<>> /\ backlog' = <<>> /\ heap' \subseteq Conns
          BY <2>1, Zenon, ZenonT(60) DEF Teardown, TypeOK
        <5>2. QED
          BY <3>1, <5>1, WorkerAssumption
      <4>2. todo' \in HandlerCalls
        BY <3>1, Zenon, ZenonT(60) DEF HandlerCalls
      <4>3. QED
        <5>1. UNCHANGED <<cfg, stop, direct, fd, buf, reply, tried, inbox, peer,
                          verdicts, given_up>>
          BY <2>1, Zenon, ZenonT(60) DEF Teardown
        <5>2. QED
          BY <3>1, <3>2, <4>1, <4>2, <5>1, Zenon, ZenonT(60) DEF TypeOK
    <3>4. \A c : ~InFlight(c)'
      BY <3>1, EmptyConn, Zenon, ZenonT(60) DEF InFlight, Waiting
    <3>5. batch' <= Len(cq') /\ DOMAIN cq' = {}
      BY <3>1
    <3>6. WellFormed'
      BY <3>1, <3>4, <3>5, Zenon, ZenonT(60) DEF WellFormed
    <3>7. QED
      BY <3>3, <3>6
  <2>2. ASSUME NEW k \in Clients, Connect(k) PROVE TypeInv'
    <3>1. /\ backlog' \in Seq(Clients)
          /\ sock' \in [Clients -> {"new", "queued", "open", "closed", "reset"}]
      <4>1. backlog' = Append(backlog, k) /\ sock' = [sock EXCEPT ![k] = "queued"]
        BY <2>2, Zenon, ZenonT(60) DEF Connect
      <4>2. /\ backlog \in Seq(Clients)
            /\ sock \in [Clients -> {"new", "queued", "open", "closed", "reset"}]
        BY Zenon, ZenonT(60) DEF TypeOK
      <4>3. QED
        BY <4>1, <4>2
    <3>2. TypeOK'
      BY <2>2, <3>1, Zenon, ZenonT(60) DEF Connect, TypeOK
    <3>3. WellFormed'
      BY <2>2, Zenon, ZenonT(60) DEF Connect, WellFormed, InFlight, Waiting
    <3>4. QED
      BY <3>2, <3>3
  <2>3. ASSUME NEW k \in Clients, Write(k) PROVE TypeInv'
    <3>1. peer' \in [Clients -> {"quiet", "request", "eof"}]
      BY <2>3, Zenon, ZenonT(60) DEF Write, TypeOK
    <3>2. TypeOK'
      <4>1. UNCHANGED <<workerVars, ringVars, verdicts, given_up, stop, pc, buf, tried,
                        backlog>>
        BY <2>3, Zenon, ZenonT(60) DEF Write
      <4>2. QED
        BY <3>1, <4>1, Zenon, ZenonT(60) DEF TypeOK
    <3>3. WellFormed'
      BY <2>3, Zenon, ZenonT(60) DEF Write, WellFormed, InFlight, Waiting
    <3>4. QED
      BY <3>2, <3>3
  <2>4. QED
    BY <2>1, <2>2, <2>3
<1> SUFFICES ASSUME TypeInv, [Next]_vars PROVE TypeInv'
  OBVIOUS
<1>1. CASE WorkerStep
  BY <1>1, <1>TypeControl, <1>TypeEntry, <1>TypeEnterReturns, <1>TypeHandlers, <1>TypeAdopt,
     TypePrepSqe, <1>TypeFallback, <1>TypeIssue, <1>TypeOthers DEF WorkerStep
<1>2. CASE AcceptCompletes \/ AcceptFails \/ RecvCompletes
  BY <1>2, <1>TypeCompletes
<1>3. CASE fa_server_stop \/ UNCHANGED vars
  BY <1>3, <1>TypeControl
<1>4. CASE \E k \in Clients : Connect(k) \/ Write(k)
  BY <1>4, <1>TypeOthers
<1>5. QED
  BY <1>1, <1>2, <1>3, <1>4 DEF Next

\* Every reachable state of the worker is well typed: the batch is within the
\* CQE array, the submission queue within its ring, every conn a handler works
\* on has a descriptor, and every handler list is one the code can produce.
THEOREM TypeCorrect == Spec => []TypeOK
<1>1. TypeInv => TypeOK
  BY DEF TypeInv
<1>2. Spec => []TypeInv
  BY TypeInit, TypeNext, PTL DEF Spec
<1>3. QED
  BY <1>1, <1>2, PTL

-----------------------------------------------------------------------------
(* The submission queue, when it holds twice the CQE batch.                  *)

Roomy == "submit" \notin Faults /\ QueueDepth >= 2 * CqeBatch

\* The number of calls (a name of its own, which the provers leave alone).
Calls(t) == Len(t)

\* What is queued, what the current handler still queues, and the most that the
\* rest of the batch can queue, fit into twice the batch.
Room ==
  Roomy => /\ pc # "flush"
           /\ pc = "drain" => Len(sq) + Calls(todo) + 2 * batch <= 2 * CqeBatch

\* Every step keeps the room.
LEMMA RoomNext == TypeInv /\ TypeInv' /\ Room /\ [Next]_vars => Room'
\* The number of calls a handler leaves.
<1>CallsCount.
    ASSUME NEW t \in HandlerCalls
    PROVE  /\ Calls(t) \in 0..2
           /\ t = <<>> => Calls(t) = 0
           /\ t # <<>> => Calls(t) >= 1 /\ Calls(Rest(t)) = Calls(t) - 1
  <2> USE <1>CallsCount
  <2>1. CASE t = <<>>
    BY <2>1 DEF Calls
  <2>2. CASE t # <<>>
    <3>1. \E a, b : t = <<a>> \/ t = <<a, b>>
      BY <2>2, HandlerCallsShape
    <3>2. PICK a, b : t = <<a>> \/ t = <<a, b>>
      BY <3>1
    <3>3. Len(t) \in 1..2 /\ Len(Tail(t)) = Len(t) - 1
      BY <3>2
    <3>4. QED
      BY <2>2, <3>3 DEF Calls, Rest
  <2>3. QED
    BY <2>1, <2>2
\* A list of one call.
<1>OneCall. \A h, c : Calls(<<OnConn(h, c)>>) = 1
  BY DEF Calls
<1> SUFFICES ASSUME TypeInv, TypeInv', Room, [Next]_vars, Roomy
             PROVE  /\ pc' # "flush"
                    /\ pc' = "drain" => Len(sq') + Calls(todo') + 2 * batch'
                                          <= 2 * CqeBatch
  BY DEF Room, Roomy
<1> USE DEF workerVars, clientVars, ringVars
<1>1. /\ batch \in Nat /\ batch' \in Nat /\ batch' <= CqeBatch
      /\ CqeBatch \in Nat \ {0}
      /\ QueueDepth \in Nat /\ QueueDepth >= 2 * CqeBatch
      /\ Len(sq) \in Nat /\ Len(sq') \in Nat
      /\ todo \in HandlerCalls /\ todo' \in HandlerCalls
      /\ sq \in Seq(Sqe)
  <2>1. /\ batch \in 0..CqeBatch /\ batch' \in 0..CqeBatch
        /\ sq \in Seq(Sqe) /\ sq' \in Seq(Sqe)
        /\ todo \in HandlerCalls /\ todo' \in HandlerCalls
    BY Zenon, ZenonT(60) DEF TypeInv, TypeOK
  <2>2. /\ CqeBatch \in Nat \ {0}
        /\ QueueDepth \in Nat /\ QueueDepth >= 2 * CqeBatch
    BY WorkerAssumption DEF Roomy
  <2>3. QED
    BY <2>1, <2>2
<1>2. /\ Calls(todo) \in 0..2 /\ Calls(todo') \in 0..2
      /\ todo # <<>> => Calls(todo) >= 1 /\ Calls(Rest(todo)) = Calls(todo) - 1
  BY <1>1, <1>CallsCount
<1>3. /\ pc # "flush"
      /\ pc = "drain" => Len(sq) + Calls(todo) + 2 * batch <= 2 * CqeBatch
  BY DEF Room
<1>4. HelperRuns => Len(sq) < QueueDepth
  BY <1>1, <1>2, <1>3 DEF HelperRuns
<1>5. CASE Flush \/ FlushReturns \/ Fallback
  <2>1. pc # "flush" /\ ~(HelperRuns /\ Len(sq) = QueueDepth)
    BY <1>1, <1>3, <1>4
  <2>2. QED
    BY <1>5, <2>1, Zenon, ZenonT(60) DEF Flush, FlushReturns, Fallback
<1>6. CASE EnterReturns
  <2>1. sq' = <<>> /\ Calls(todo') = 0
    BY <1>1, <1>6, <1>CallsCount, Zenon, ZenonT(60)
       DEF EnterReturns, Roomy, TypeInv, WellFormed
  <2>2. QED
    BY <1>1, <1>6, <2>1 DEF EnterReturns
<1>7. CASE HandleNull \/ HandleAccept \/ HandleRecvFailed \/ HandleRequest
  <2>1. /\ pc = "drain" /\ pc' = pc /\ sq' = sq /\ batch' = batch - 1
        /\ Calls(todo) = 0
    BY <1>1, <1>7, <1>CallsCount, Zenon, ZenonT(60)
      DEF HandleNull, HandleAccept, HandleRecvFailed, HandleRequest, TakeCqe
  <2>2. /\ Len(sq') = Len(sq) /\ pc' # "flush"
        /\ Len(sq) + 2 * batch <= 2 * CqeBatch
    BY <1>1, <1>3, <2>1
  <2>3. Len(sq') + 2 * batch' + 2 <= 2 * CqeBatch
    BY <1>1, <2>1, <2>2
  <2>4. QED
    BY <1>1, <1>2, <2>2, <2>3
<1>8. CASE AdoptConn
  <2>1. /\ pc = "drain" /\ UNCHANGED <<pc, sq, batch>> /\ todo # <<>>
        /\ todo' = <<>> \/ \E c \in Conns : todo' = <<OnConn("recv", c)>>
    BY <1>8 DEF AdoptConn
  <2>2. Calls(todo') <= 1
    BY <1>1, <2>1, <1>OneCall, <1>CallsCount
  <2>3. QED
    BY <1>1, <1>2, <1>3, <2>1, <2>2
<1>9. CASE PrepSqe
  <2>1. /\ pc = "drain" /\ UNCHANGED <<pc, batch>> /\ todo # <<>>
        /\ todo' = Rest(todo) /\ sq' = Append(sq, Prep(Head(todo)))
    BY <1>9 DEF PrepSqe, HelperRuns, Rest
  <2>2. Len(sq') = Len(sq) + 1
    BY <1>1, <1>9, <2>1, TypePrepSqe, AppendConn
  <2>3. QED
    BY <1>1, <1>2, <1>3, <2>1, <2>2
<1>10. CASE \/ IssueAccept \/ IssueRecv \/ IssueSend \/ IssueClose \/ Teardown
            \/ RingInitFails \/ fa_thread_entry \/ StopSeen \/ Enter
            \/ EnterFails \/ EnterTimesOut \/ BatchDone
  BY <1>3, <1>10, Zenon, ZenonT(60)
     DEF IssueAccept, IssueRecv, IssueSend, IssueClose, Issue, Teardown,
         RingInitFails, fa_thread_entry, StopSeen, Enter, EnterFails,
         EnterTimesOut, BatchDone
<1>11. CASE \/ AcceptCompletes \/ AcceptFails \/ RecvCompletes
            \/ fa_server_stop \/ UNCHANGED vars
            \/ \E k \in Clients : Connect(k) \/ Write(k)
  <2>1. UNCHANGED <<pc, sq, todo, batch>>
    BY <1>11, Zenon, ZenonT(60)
       DEF AcceptCompletes, AcceptFails, RecvCompletes, Completes,
                 fa_server_stop, vars, Connect, Write
  <2>2. QED
    BY <1>3, <2>1
<1>12. QED
  BY <1>5, <1>6, <1>7, <1>8, <1>9, <1>10, <1>11, Zenon, ZenonT(60)
     DEF Next, WorkerStep

\* As long as the kernel consumes what is submitted and the queue holds two SQEs
\* for every CQE of a batch (FA_QUEUE_DEPTH 4096, FA_CQE_BATCH 256), no helper
\* ever finds the submission queue full: the "deep-queue exhaustion" fallbacks,
\* which lose descriptors and replies, are unreachable.
THEOREM QueueNeverFull == Spec => []NoExhaustion
<1>1. Init => Room
  BY DEF Init, Room
<1>2. Room => NoExhaustion
  BY DEF Room, Roomy, NoExhaustion
<1>3. QED
  BY <1>1, <1>2, TypeInit, TypeNext, RoomNext, PTL DEF Spec

-----------------------------------------------------------------------------
(* Entries of a queue that belong to a set of entries.                      *)

In(q, X) == \E i \in DOMAIN q : q[i] \in X
Once(q, X) == \A i, j \in DOMAIN q : q[i] \in X /\ q[j] \in X => i = j

\* Appending an entry.
LEMMA AppendIn ==
  ASSUME NEW S, NEW q \in Seq(S), NEW e \in S, NEW X
  PROVE  /\ In(Append(q, e), X) <=> In(q, X) \/ e \in X
         /\ Once(q, X) /\ ~(In(q, X) /\ e \in X) => Once(Append(q, e), X)
  BY DEF In, Once

\* Taking the head.
LEMMA TailIn ==
  ASSUME NEW S, NEW q \in Seq(S), q # <<>>, NEW X
  PROVE  /\ In(q, X) <=> Head(q) \in X \/ In(Tail(q), X)
         /\ Once(q, X) => /\ Once(Tail(q), X)
                          /\ ~(Head(q) \in X /\ In(Tail(q), X))
<1>1. /\ Len(q) \in Nat \ {0} /\ DOMAIN q = 1..Len(q)
      /\ DOMAIN Tail(q) = 1..(Len(q) - 1)
      /\ \A i \in DOMAIN Tail(q) : i + 1 \in DOMAIN q /\ Tail(q)[i] = q[i + 1]
      /\ 1 \in DOMAIN q /\ Head(q) = q[1]
  OBVIOUS
<1>2. \A i \in DOMAIN q : i = 1 \/ (i - 1 \in DOMAIN Tail(q)
                                    /\ Tail(q)[i - 1] = q[i])
  BY <1>1
<1>3. In(q, X) <=> Head(q) \in X \/ In(Tail(q), X)
  BY <1>1, <1>2, Zenon, ZenonT(60) DEF In
<1>4. ASSUME Once(q, X), NEW i \in DOMAIN Tail(q), NEW j \in DOMAIN Tail(q),
             Tail(q)[i] \in X, Tail(q)[j] \in X
      PROVE  i = j
  <2>1. i + 1 = j + 1
    BY <1>1, <1>4 DEF Once
  <2>2. QED
    BY <1>1, <2>1
<1>5. ASSUME Once(q, X), Head(q) \in X, NEW i \in DOMAIN Tail(q),
             Tail(q)[i] \in X
      PROVE  FALSE
  <2>1. i + 1 = 1
    BY <1>1, <1>5 DEF Once
  <2>2. QED
    BY <1>1, <2>1
<1>6. QED
  BY <1>3, <1>4, <1>5 DEF In, Once

\* Short queues.
LEMMA ShortIn ==
  ASSUME NEW X
  PROVE  /\ ~In(<<>>, X) /\ Once(<<>>, X)
         /\ \A a : (In(<<a>>, X) <=> a \in X) /\ Once(<<a>>, X)
         /\ \A a, b : (In(<<a, b>>, X) <=> a \in X \/ b \in X)
                      /\ (~(a \in X /\ b \in X) => Once(<<a, b>>, X))
<1>1. ASSUME NEW a, NEW b
      PROVE  /\ In(<<a, b>>, X) <=> a \in X \/ b \in X
             /\ ~(a \in X /\ b \in X) => Once(<<a, b>>, X)
  BY DEF In, Once
<1>2. QED
  BY <1>1 DEF In, Once

\* The places of the entries in X, tagged.
Tags(t, q, X) == {<<t, i>> : i \in {j \in DOMAIN q : q[j] \in X}}

\* They are none or one.
LEMMA Tagged ==
  ASSUME NEW q, NEW X, NEW t, Once(q, X)
  PROVE  /\ Tags(t, q, X) # {} <=> In(q, X)
         /\ \A x, y \in Tags(t, q, X) : x = y
  BY Zenon, ZenonT(60) DEF Tags, In, Once

-----------------------------------------------------------------------------
(* A kernel that consumes what is submitted.                                *)

Fed == "submit" \notin Faults

\* A helper that has submitted the queue finds it empty.
Emptied == Fed /\ pc = "drain" /\ tried => Len(sq) < QueueDepth

\* Every step keeps it, and so no helper gives up.
LEMMA EmptiedNext ==
  ASSUME TypeInv, Emptied, [Next]_vars
  PROVE  Emptied' /\ (Fed => ~Fallback)
<1> SUFFICES ASSUME Fed
             PROVE  /\ pc' = "drain" /\ tried' => Len(sq') < QueueDepth
                    /\ ~Fallback
  BY DEF Emptied
<1> USE DEF workerVars, clientVars, ringVars
<1>1. ~Fallback
  <2>1. Len(sq) \in Nat /\ QueueDepth \in Nat
    BY WorkerAssumption DEF TypeInv, TypeOK
  <2>2. QED
    BY <2>1 DEF Emptied, Fallback, HelperRuns
<1>2. CASE FlushReturns
  BY <1>1, <1>2, WorkerAssumption DEF FlushReturns, Fed
<1>3. CASE EnterReturns \/ PrepSqe
  BY <1>1, <1>3, Zenon DEF EnterReturns, PrepSqe
<1>4. CASE \/ RingInitFails \/ fa_thread_entry \/ StopSeen \/ Enter \/ EnterFails
           \/ EnterTimesOut \/ BatchDone \/ Flush \/ Teardown
  <2>1. pc' # "drain"
    BY <1>4, Zenon, ZenonT(60)
       DEF RingInitFails, fa_thread_entry, StopSeen, Enter, EnterFails,
                EnterTimesOut, BatchDone, Flush, Teardown
  <2>2. QED
    BY <1>1, <2>1
<1>5. CASE IssueAccept \/ IssueRecv \/ IssueSend \/ IssueClose
  <2>1. pc' # "drain"
    BY <1>5, Zenon DEF IssueAccept, IssueRecv, IssueSend, IssueClose, Issue
  <2>2. QED
    BY <1>1, <2>1
<1>6. CASE \/ HandleNull \/ HandleAccept \/ HandleRecvFailed \/ HandleRequest
           \/ AdoptConn \/ AcceptCompletes \/ AcceptFails \/ RecvCompletes
           \/ fa_server_stop \/ UNCHANGED vars
           \/ \E k \in Clients : Connect(k) \/ Write(k)
  <2>1. UNCHANGED <<pc, tried, sq>>
    BY <1>6, Zenon, ZenonT(60)
       DEF HandleNull, HandleAccept, HandleRecvFailed, HandleRequest, AdoptConn,
           AcceptCompletes, AcceptFails, RecvCompletes, Completes,
           fa_server_stop, vars, Connect, Write
  <2>2. QED
    BY <1>1, <2>1 DEF Emptied
<1>7. QED
  BY <1>1, <1>2, <1>3, <1>4, <1>5, <1>6 DEF Next, WorkerStep

-----------------------------------------------------------------------------
(* The standing accept.                                                     *)

ArmSqes == {e \in Sqe : e.op = "accept"}
EndCqes == {e \in Cqe : e.kind = "accept" /\ ~e.more}
ArmCalls == {Arm}

\* The accept is in at most one of four places; in the loop it is in one.
Standing ==
  /\ accepts \in {0, 1} /\ Once(sq, ArmSqes) /\ Once(cq, EndCqes)
  /\ Once(todo, ArmCalls)
  /\ ~(accepts = 1 /\ (In(sq, ArmSqes) \/ In(cq, EndCqes) \/ In(todo, ArmCalls)))
  /\ ~(In(sq, ArmSqes) /\ (In(cq, EndCqes) \/ In(todo, ArmCalls)))
  /\ ~(In(cq, EndCqes) /\ In(todo, ArmCalls))
  /\ pc = "prep" => accepts = 0 /\ sq = <<>> /\ cq = <<>> /\ todo = <<>>
  /\ Fed /\ pc \in {"loop", "enter", "drain", "flush"} =>
       accepts = 1 \/ In(sq, ArmSqes) \/ In(cq, EndCqes) \/ In(todo, ArmCalls)

\* The entries that are accepts.
LEMMA ArmEntries ==
  /\ fa_arm_accept \in ArmSqes
  /\ \A e \in Sqe : e \in ArmSqes <=> e.op = "accept"
  /\ AcceptCqe(NoSlot, FALSE) \in Cqe /\ AcceptCqe(NoSlot, FALSE) \in EndCqes
  /\ \A s \in Slots, more \in BOOLEAN :
       /\ AcceptCqe(s, more) \in Cqe
       /\ AcceptCqe(s, more) \in EndCqes <=> ~more
  /\ \A e \in Cqe : e \in EndCqes <=> e.kind = "accept" /\ ~e.more
  /\ NullCqe \in Cqe /\ NullCqe \notin EndCqes
  /\ \A c \in Conns, ok \in BOOLEAN : /\ RecvCqe(c, ok) \in Cqe
                                      /\ RecvCqe(c, ok) \notin EndCqes
<1>1. fa_arm_accept \in ArmSqes
  BY Zenon, ZenonT(60) DEF ArmSqes, fa_arm_accept, Sqe
<1>2. AcceptCqe(NoSlot, FALSE) \in Cqe /\ AcceptCqe(NoSlot, FALSE) \in EndCqes
  BY Zenon, ZenonT(60) DEF EndCqes, AcceptCqe, Cqe
<1>3. ASSUME NEW s \in Slots, NEW more \in BOOLEAN
      PROVE  /\ AcceptCqe(s, more) \in Cqe
             /\ AcceptCqe(s, more) \in EndCqes <=> ~more
  BY WorkerAssumption, Zenon, ZenonT(60) DEF EndCqes, AcceptCqe, Cqe
<1>4. NullCqe \in Cqe /\ NullCqe \notin EndCqes
  BY Zenon, ZenonT(60) DEF EndCqes, NullCqe, Cqe
<1>5. ASSUME NEW c \in Conns, NEW ok \in BOOLEAN
      PROVE  RecvCqe(c, ok) \in Cqe /\ RecvCqe(c, ok) \notin EndCqes
  BY Zenon, ZenonT(60) DEF EndCqes, RecvCqe, Cqe
<1>6. QED
  BY <1>1, <1>2, <1>3, <1>4, <1>5, Zenon, ZenonT(60) DEF ArmSqes, EndCqes

\* What is left after the first call.
LEMMA CallRests ==
  /\ Rest(<<Arm>>) = <<>>
  /\ \A s : Rest(<<Adopt(s)>>) = <<>> /\ Rest(<<Arm, Adopt(s)>>) = <<Adopt(s)>>
  /\ \A h, c : Rest(<<OnConn(h, c)>>) = <<>>
  /\ \A h, g, c : Rest(<<OnConn(h, c), OnConn(g, c)>>) = <<OnConn(g, c)>>
  BY CallTuples, Zenon, ZenonT(60)

\* A handler's calls on a conn leave its close, or nothing.
LEMMA ConnRests ==
  ASSUME NEW t, NEW c,
         \/ t = <<OnConn("recv", c)>> \/ t = <<OnConn("close", c)>>
         \/ t = <<OnConn("send", c), OnConn("close", c)>>
  PROVE  Rest(t) = <<>> \/ Rest(t) = <<OnConn("close", c)>>
<1>1. CASE t = <<OnConn("recv", c)>>
  BY <1>1, CallRests, Zenon, ZenonT(60)
<1>2. CASE t = <<OnConn("close", c)>>
  BY <1>2, CallRests, Zenon, ZenonT(60)
<1>3. CASE t = <<OnConn("send", c), OnConn("close", c)>>
  BY <1>3, CallRests, Zenon, ZenonT(60)
<1>4. QED
  BY <1>1, <1>2, <1>3, Zenon

\* Every step keeps the standing accept.
LEMMA StandingNext == TypeInv /\ Emptied /\ Standing /\ [Next]_vars => Standing'
\* The calls that arm.
<1>ArmCall.
    /\ Arm \in ArmCalls
    /\ \A s : Adopt(s) \notin ArmCalls
    /\ \A h, c : h # "arm" => OnConn(h, c) \notin ArmCalls
  BY CallFields DEF ArmCalls
\* The lists of calls that arm.
<1>ArmLists.
    /\ ~In(<<>>, ArmCalls) /\ Once(<<>>, ArmCalls)
    /\ In(<<Arm>>, ArmCalls) /\ Once(<<Arm>>, ArmCalls)
    /\ \A s : /\ In(<<Arm, Adopt(s)>>, ArmCalls) /\ Once(<<Arm, Adopt(s)>>, ArmCalls)
              /\ ~In(<<Adopt(s)>>, ArmCalls) /\ Once(<<Adopt(s)>>, ArmCalls)
    /\ \A c : LET close == OnConn("close", c)
                  recv == OnConn("recv", c)
                  send == OnConn("send", c)
              IN /\ ~In(<<close>>, ArmCalls) /\ Once(<<close>>, ArmCalls)
                 /\ ~In(<<recv>>, ArmCalls) /\ Once(<<recv>>, ArmCalls)
                 /\ ~In(<<send, close>>, ArmCalls) /\ Once(<<send, close>>, ArmCalls)
  <2>1. /\ ~In(<<>>, ArmCalls) /\ Once(<<>>, ArmCalls)
        /\ In(<<Arm>>, ArmCalls) /\ Once(<<Arm>>, ArmCalls)
    BY ShortIn, <1>ArmCall
  <2>2. ASSUME NEW a, NEW b, b \notin ArmCalls
        PROVE  /\ In(<<a, b>>, ArmCalls) <=> a \in ArmCalls
               /\ Once(<<a, b>>, ArmCalls)
               /\ ~In(<<b>>, ArmCalls) /\ Once(<<b>>, ArmCalls)
    BY <2>2, ShortIn, Zenon, ZenonT(60)
  <2>3. ASSUME NEW s
        PROVE  /\ In(<<Arm, Adopt(s)>>, ArmCalls) /\ Once(<<Arm, Adopt(s)>>, ArmCalls)
               /\ ~In(<<Adopt(s)>>, ArmCalls) /\ Once(<<Adopt(s)>>, ArmCalls)
    <3>1. Adopt(s) \notin ArmCalls /\ Arm \in ArmCalls
      BY <1>ArmCall
    <3>2. QED
      BY <2>2, <3>1, Zenon
  <2>4. ASSUME NEW c
        PROVE  LET close == OnConn("close", c)
                   recv == OnConn("recv", c)
                   send == OnConn("send", c)
               IN /\ ~In(<<close>>, ArmCalls) /\ Once(<<close>>, ArmCalls)
                  /\ ~In(<<recv>>, ArmCalls) /\ Once(<<recv>>, ArmCalls)
                  /\ ~In(<<send, close>>, ArmCalls) /\ Once(<<send, close>>, ArmCalls)
    <3>1. /\ OnConn("close", c) \notin ArmCalls /\ OnConn("recv", c) \notin ArmCalls
          /\ OnConn("send", c) \notin ArmCalls
      BY <1>ArmCall
    <3>2. QED
      BY <2>2, <3>1, Zenon
  <2>5. QED
    BY <2>1, <2>3, <2>4, Zenon
\* A completion that leaves the accept standing.
<1>PostOther.
    ASSUME cq \in Seq(Cqe), Once(cq, EndCqes),
           \/ cq' = Append(cq, NullCqe)
           \/ \E c \in Conns, ok \in BOOLEAN : cq' = Append(cq, RecvCqe(c, ok))
    PROVE  Once(cq', EndCqes) /\ (In(cq', EndCqes) <=> In(cq, EndCqes))
  <2> USE <1>PostOther
  <2>1. PICK e \in Cqe : e \notin EndCqes /\ cq' = Append(cq, e)
    <3>1. CASE cq' = Append(cq, NullCqe)
      BY <3>1, ArmEntries
    <3>2. ASSUME NEW c \in Conns, NEW ok \in BOOLEAN, cq' = Append(cq, RecvCqe(c, ok))
          PROVE  \E e \in Cqe : e \notin EndCqes /\ cq' = Append(cq, e)
      <4>1. RecvCqe(c, ok) \in Cqe /\ RecvCqe(c, ok) \notin EndCqes
        BY ArmEntries
      <4>2. QED
        BY <3>2, <4>1, Zenon
    <3>3. QED
      BY <3>1, <3>2
  <2>2. QED
    BY <2>1, AppendIn
<1> SUFFICES ASSUME TypeInv, Emptied, Standing, [Next]_vars PROVE Standing'
  OBVIOUS
<1> USE DEF workerVars, clientVars, ringVars
<1>1. /\ sq \in Seq(Sqe) /\ cq \in Seq(Cqe) /\ todo \in HandlerCalls
  BY Zenon, ZenonT(60) DEF TypeInv, TypeOK
<1>2. CASE \/ RingInitFails \/ StopSeen \/ Enter \/ EnterFails \/ EnterReturns
           \/ EnterTimesOut \/ BatchDone \/ Flush \/ FlushReturns
           \/ fa_server_stop \/ UNCHANGED vars
           \/ \E k \in Clients : Connect(k) \/ Write(k)
  <2>1. /\ UNCHANGED <<accepts, sq, cq, todo>>
        /\ pc' = "prep" => pc = "prep"
        /\ pc' \in {"loop", "enter", "drain", "flush"} =>
             pc \in {"loop", "enter", "drain", "flush"}
    BY <1>2, Zenon, ZenonT(60)
       DEF RingInitFails, StopSeen, Enter, EnterFails, EnterReturns,
         EnterTimesOut, BatchDone, Flush, FlushReturns, HelperRuns,
         fa_server_stop, Connect, Write, vars
  <2>2. QED
    BY <2>1 DEF Standing
<1>3. CASE fa_thread_entry
  <2>1. /\ pc = "prep" /\ pc' = "loop" /\ sq' = <<fa_arm_accept>>
        /\ UNCHANGED <<accepts, cq, todo>>
    BY <1>3 DEF fa_thread_entry
  <2>2. accepts = 0 /\ cq = <<>> /\ todo = <<>>
    BY <2>1, Zenon, ZenonT(60) DEF Standing
  <2>3. QED
    BY <2>1, <2>2, ShortIn, ArmEntries DEF Standing
<1>4. CASE HandleNull \/ HandleAccept \/ HandleRecvFailed \/ HandleRequest
  <2>1. /\ pc = "drain" /\ todo = <<>> /\ cq # <<>> /\ cq' = Tail(cq)
        /\ UNCHANGED <<pc, sq, accepts>>
        /\ Head(cq) \in Cqe
    <3>1. PICK kind : TakeCqe(kind)
      BY <1>4, Zenon, ZenonT(60)
         DEF HandleNull, HandleAccept, HandleRecvFailed, HandleRequest
    <3>2. cq # <<>> /\ Head(cq) \in Cqe
      BY <3>1, TypeTakeCqe, Zenon, ZenonT(60)
    <3>3. QED
      BY <1>4, <3>1, <3>2, Zenon, ZenonT(60)
         DEF HandleNull, HandleAccept, HandleRecvFailed, HandleRequest, TakeCqe
  <2>2. /\ In(cq, EndCqes) <=> Head(cq) \in EndCqes \/ In(cq', EndCqes)
        /\ Once(cq', EndCqes)
        /\ ~(Head(cq) \in EndCqes /\ In(cq', EndCqes))
        /\ ~In(todo, ArmCalls)
    BY <1>1, <2>1, TailIn, ShortIn DEF Standing
  <2>3. /\ In(todo', ArmCalls) <=> Head(cq) \in EndCqes
        /\ Once(todo', ArmCalls)
    <3>1. CASE HandleNull
      <4>1. Head(cq).kind = "null" /\ todo' = todo
        BY <3>1 DEF HandleNull, TakeCqe
      <4>2. QED
        BY <2>1, <4>1, <1>ArmLists, ArmEntries, Zenon, ZenonT(60)
    <3>2. CASE HandleRecvFailed
      <4>1. Head(cq).kind = "recv" /\ todo' = <<OnConn("close", Head(cq).conn)>>
        BY <3>2 DEF HandleRecvFailed, TakeCqe
      <4>2. QED
        BY <2>1, <4>1, <1>ArmLists, ArmEntries, Zenon, ZenonT(60)
    <3>3. CASE HandleRequest
      <4>1. Head(cq).kind = "recv"
        BY <3>3, Zenon, ZenonT(60) DEF HandleRequest, TakeCqe
      <4>2. \E c : \/ todo' = <<OnConn("close", c)>>
                   \/ todo' = <<OnConn("send", c), OnConn("close", c)>>
        BY <3>3, Zenon, ZenonT(60) DEF HandleRequest
      <4>3. QED
        BY <2>1, <4>1, <4>2, <1>ArmLists, ArmEntries, Zenon, ZenonT(60)
    <3>4. CASE HandleAccept
      <4>1. Head(cq).kind = "accept" /\ Head(cq).more \in BOOLEAN
        BY <2>1, <3>4, CqeFacts, Zenon, ZenonT(60) DEF HandleAccept, TakeCqe
      <4>2. /\ ~Head(cq).more => \/ todo' = <<Arm>>
                                 \/ \E s : todo' = <<Arm, Adopt(s)>>
            /\ Head(cq).more => todo' = <<>> \/ \E s : todo' = <<Adopt(s)>>
        BY <3>4, ConcatCalls, Zenon, ZenonT(60) DEF HandleAccept
      <4>3. QED
        BY <2>1, <4>1, <4>2, <1>ArmLists, ArmEntries, Zenon, ZenonT(60)
    <3>5. QED
      BY <1>4, <3>1, <3>2, <3>3, <3>4
  <2>4. QED
    BY <2>1, <2>2, <2>3 DEF Standing
<1>5. CASE AdoptConn
  <2>1. /\ pc = "drain" /\ todo # <<>> /\ Head(todo).call = "adopt"
        /\ UNCHANGED <<pc, sq, cq, accepts>>
        /\ todo' = <<>> \/ \E c \in Conns : todo' = <<OnConn("recv", c)>>
    BY <1>5, Zenon, ZenonT(60) DEF AdoptConn
  <2>2. \E s \in Slots : todo = <<Adopt(s)>>
    BY <1>1, <2>1, HandlerCallsShape, CallTuples, CallFields
  <2>3. ~In(todo, ArmCalls) /\ ~In(todo', ArmCalls) /\ Once(todo', ArmCalls)
    BY <2>1, <2>2, <1>ArmLists, Zenon, ZenonT(60)
  <2>4. QED
    BY <2>1, <2>3 DEF Standing
<1>6. CASE PrepSqe
  <2> DEFINE e == Prep(Head(todo))
  <2>1. /\ HelperRuns /\ UNCHANGED <<pc, cq, accepts>> /\ pc = "drain"
        /\ todo' = Rest(todo)
    BY <1>6 DEF PrepSqe, HelperRuns, Rest
  <2>2. e \in Sqe /\ sq' = Append(sq, e)
    BY <1>6, TypePrepSqe
  <2>3. /\ In(sq', ArmSqes) <=> In(sq, ArmSqes) \/ e \in ArmSqes
        /\ ~(In(sq, ArmSqes) /\ e \in ArmSqes) => Once(sq', ArmSqes)
    <3>1. Once(sq, ArmSqes)
      BY DEF Standing
    <3>2. QED
      BY <1>1, <2>2, <3>1, AppendIn, Zenon
  <2>4. CASE Head(todo) = Arm
    <3>1. e \in ArmSqes
      BY <2>4, ArmEntries, CallFields, Zenon, ZenonT(60) DEF Prep
    <3>2. todo = <<Arm>> \/ \E s \in Slots : todo = <<Arm, Adopt(s)>>
      BY <1>1, <2>1, <2>4, HandlerCallsShape, CallTuples, CallFields
         DEF HelperRuns
    <3>3. In(todo, ArmCalls) /\ ~In(Rest(todo), ArmCalls)
          /\ Once(Rest(todo), ArmCalls)
      <4>1. CASE todo = <<Arm>>
        <5>1. Rest(todo) = <<>>
          BY <4>1, CallTuples, Zenon, ZenonT(60)
        <5>2. QED
          BY <4>1, <5>1, <1>ArmLists
      <4>2. ASSUME NEW s, todo = <<Arm, Adopt(s)>>
            PROVE  In(todo, ArmCalls) /\ ~In(Rest(todo), ArmCalls)
                   /\ Once(Rest(todo), ArmCalls)
        <5>1. Rest(todo) = <<Adopt(s)>>
          BY <4>2, CallTuples, Zenon, ZenonT(60)
        <5>2. QED
          BY <4>2, <5>1, <1>ArmLists
      <4>3. QED
        BY <3>2, <4>1, <4>2, Zenon, ZenonT(60)
    <3> HIDE DEF e
    <3>4. QED
      BY <2>1, <2>3, <3>1, <3>3, Zenon, ZenonT(60) DEF Standing
  <2>5. CASE Head(todo) # Arm
    <3>1. \E c \in Conns : \/ todo = <<OnConn("recv", c)>>
                           \/ todo = <<OnConn("close", c)>>
                           \/ todo = <<OnConn("send", c), OnConn("close", c)>>
      <4>1. todo \in HandlerCalls /\ todo # <<>> /\ Head(todo).call # "adopt"
        BY <1>1, <2>1, Zenon, ZenonT(60) DEF HelperRuns
      <4>2. /\ todo # <<Arm>>
            /\ \A s : todo # <<Adopt(s)>> /\ todo # <<Arm, Adopt(s)>>
        BY <2>5, <4>1, CallHeads, Zenon, ZenonT(60)
      <4>3. QED
        BY <4>1, <4>2, HandlerCallsShape, Zenon, ZenonT(60)
    <3>2. ~In(todo, ArmCalls) /\ ~In(Rest(todo), ArmCalls)
          /\ Once(Rest(todo), ArmCalls)
      <4>1. PICK c \in Conns :
                \/ todo = <<OnConn("recv", c)>>
                \/ todo = <<OnConn("close", c)>>
                \/ todo = <<OnConn("send", c), OnConn("close", c)>>
        BY <3>1
      <4>2. Rest(todo) = <<>> \/ Rest(todo) = <<OnConn("close", c)>>
        BY <4>1, ConnRests, Zenon, ZenonT(60)
      <4>3. QED
        BY <4>1, <4>2, <1>ArmLists, Zenon, ZenonT(60)
    <3>3. e \notin ArmSqes
      <4>1. Head(todo).call \in {"recv", "send", "close"}
        <5>1. PICK c : \/ Head(todo) = OnConn("recv", c)
                       \/ Head(todo) = OnConn("close", c)
                       \/ Head(todo) = OnConn("send", c)
          BY <3>1, CallHeads
        <5>2. /\ OnConn("recv", c).call = "recv" /\ OnConn("send", c).call = "send"
              /\ OnConn("close", c).call = "close"
          BY CallFields, Zenon, ZenonT(60)
        <5>3. QED
          BY <5>1, <5>2, Zenon, ZenonT(60)
      <4>2. e.op # "accept"
        BY <4>1 DEF Prep, fa_submit_recv, fa_submit_reply, fa_submit_close
      <4>3. QED
        BY <2>2, <4>2, ArmEntries, Zenon, ZenonT(60)
    <3> HIDE DEF e
    <3>4. QED
      BY <2>1, <2>3, <3>2, <3>3, Zenon, ZenonT(60) DEF Standing
  <2>6. QED
    BY <2>4, <2>5, Zenon, ZenonT(60)
<1>7. CASE Fallback
  <2>1. /\ HelperRuns /\ UNCHANGED <<pc, sq, cq, accepts>> /\ pc = "drain"
        /\ todo' = Rest(todo) \/ todo' = <<>>
    BY <1>7, Zenon, ZenonT(60) DEF Fallback, HelperRuns, Rest
  <2>2. /\ ~In(todo', ArmCalls) /\ Once(todo', ArmCalls)
    <3>1. \/ todo = <<Arm>> \/ \E s \in Slots : todo = <<Arm, Adopt(s)>>
          \/ \E s \in Slots : todo = <<Adopt(s)>>
          \/ \E c \in Conns : \/ todo = <<OnConn("recv", c)>>
                              \/ todo = <<OnConn("close", c)>>
                              \/ todo = <<OnConn("send", c), OnConn("close", c)>>
      BY <1>1, <2>1, HandlerCallsShape, Zenon, ZenonT(60) DEF HelperRuns
    <3>2. \/ Rest(todo) = <<>> \/ \E s \in Slots : Rest(todo) = <<Adopt(s)>>
          \/ \E c \in Conns : Rest(todo) = <<OnConn("close", c)>>
      <4>1. CASE todo = <<Arm>> \/ \E s \in Slots : todo = <<Adopt(s)>>
        BY <4>1, CallTuples, Zenon, ZenonT(60)
      <4>2. ASSUME NEW s \in Slots, todo = <<Arm, Adopt(s)>>
            PROVE  Rest(todo) = <<Adopt(s)>>
        BY <4>2, CallTuples, Zenon, ZenonT(60)
      <4>3. ASSUME NEW c \in Conns,
                   \/ todo = <<OnConn("recv", c)>>
                   \/ todo = <<OnConn("close", c)>>
                   \/ todo = <<OnConn("send", c), OnConn("close", c)>>
            PROVE  Rest(todo) = <<>> \/ Rest(todo) = <<OnConn("close", c)>>
        BY <4>3, ConnRests, Zenon, ZenonT(60)
      <4>4. QED
        BY <3>1, <4>1, <4>2, <4>3, Zenon, ZenonT(60)
    <3>3. QED
      BY <2>1, <3>2, <1>ArmLists, Zenon, ZenonT(60)
  <2>3. ~Fed
    BY <1>7, EmptiedNext
  <2>4. QED
    BY <2>1, <2>2, <2>3, Zenon, ZenonT(60) DEF Standing
<1>8. CASE IssueAccept \/ IssueRecv \/ IssueSend \/ IssueClose
  <2>1. PICK op : Issue(op)
    BY <1>8, Zenon, ZenonT(60) DEF IssueAccept, IssueRecv, IssueSend, IssueClose
  <2>2. /\ pc \in {"enter", "flush"} /\ sq # <<>> /\ sq' = Tail(sq)
        /\ UNCHANGED <<pc, todo>> /\ Head(sq) \in Sqe
    BY <1>1, <2>1, IssueShape, Zenon, ZenonT(60) DEF Issue
  <2>3. /\ In(sq, ArmSqes) <=> Head(sq) \in ArmSqes \/ In(sq', ArmSqes)
        /\ Once(sq', ArmSqes)
        /\ ~(Head(sq) \in ArmSqes /\ In(sq', ArmSqes))
    BY <1>1, <2>2, TailIn DEF Standing
  <2>4. CASE IssueAccept
    <3>1. Head(sq) \in ArmSqes
      BY <2>2, <2>4, ArmEntries DEF IssueAccept, Issue
    <3>2. \/ cq' = Append(cq, AcceptCqe(NoSlot, FALSE)) /\ accepts' = accepts
          \/ accepts' = accepts + 1 /\ cq' = cq
      BY <2>4, Zenon, ZenonT(60) DEF IssueAccept
    <3>3. accepts = 0 /\ ~In(cq, EndCqes)
      BY <2>3, <3>1, Zenon, ZenonT(60) DEF Standing
    <3>4. \/ In(cq', EndCqes) /\ Once(cq', EndCqes) /\ accepts' = 0
          \/ ~In(cq', EndCqes) /\ Once(cq', EndCqes) /\ accepts' = 1
      <4>1. CASE cq' = Append(cq, AcceptCqe(NoSlot, FALSE)) /\ accepts' = accepts
        <5>1. PICK e \in Cqe : e \in EndCqes /\ cq' = Append(cq, e)
          BY <4>1, ArmEntries, Zenon
        <5>2. accepts' = accepts
          BY <4>1
        <5>3. QED
          BY <1>1, <3>3, <5>1, <5>2, AppendIn, Zenon, ZenonT(60) DEF Standing
      <4>2. CASE accepts' = accepts + 1 /\ cq' = cq
        BY <3>3, <4>2 DEF Standing
      <4>3. QED
        BY <3>2, <4>1, <4>2, Zenon, ZenonT(60)
    <3>5. QED
      BY <2>2, <2>3, <3>1, <3>4, Zenon, ZenonT(60) DEF Standing
  <2>5. CASE IssueRecv \/ IssueSend \/ IssueClose
    <3>1. Head(sq) \notin ArmSqes
      BY <2>2, <2>5, ArmEntries, Zenon DEF IssueRecv, IssueSend, IssueClose, Issue
    <3>2. /\ accepts' = accepts
          /\ \/ cq' = cq \/ cq' = Append(cq, NullCqe)
             \/ cq' = Append(cq, RecvCqe(Head(sq).conn, FALSE))
                /\ Head(sq).op = "recv"
      BY <2>5, Zenon, ZenonT(60) DEF IssueRecv, IssueSend, IssueClose, Issue
    <3>3. Once(cq', EndCqes) /\ (In(cq', EndCqes) <=> In(cq, EndCqes))
      <4>1. CASE cq' = cq
        BY <4>1 DEF Standing
      <4>2. CASE cq' = Append(cq, NullCqe)
        BY <1>1, <4>2, <1>PostOther, Zenon, ZenonT(60) DEF Standing
      <4>3. CASE cq' = Append(cq, RecvCqe(Head(sq).conn, FALSE))
                 /\ Head(sq).op = "recv"
        <5>1. Head(sq).conn \in Conns
          BY <2>2, <4>3, SqeFacts, Zenon, ZenonT(60)
        <5>2. QED
          BY <1>1, <4>3, <5>1, <1>PostOther, Zenon, ZenonT(60) DEF Standing
      <4>4. QED
        BY <3>2, <4>1, <4>2, <4>3, Zenon, ZenonT(60)
    <3>4. QED
      BY <2>2, <2>3, <3>1, <3>2, <3>3, Zenon, ZenonT(60) DEF Standing
  <2>6. QED
    BY <1>8, <2>4, <2>5
<1>9. CASE AcceptCompletes
  <2>1. /\ pc \notin {"prep", "torn"} /\ UNCHANGED <<pc, todo, sq>>
        /\ accepts > 0
    BY <1>9 DEF AcceptCompletes, Completes
  <2>2. PICK s \in Slots, more \in BOOLEAN :
          /\ cq' = Append(cq, AcceptCqe(s, more))
          /\ accepts' = IF more THEN accepts ELSE accepts - 1
    BY <1>9 DEF AcceptCompletes
  <2>3. accepts = 1 /\ ~In(cq, EndCqes)
    <3>1. accepts \in {0, 1} /\ ~(accepts = 1 /\ In(cq, EndCqes))
      BY Zenon, ZenonT(60) DEF Standing
    <3>2. QED
      BY <2>1, <3>1
  <2>4. Once(cq', EndCqes) /\ (In(cq', EndCqes) <=> ~more)
    <3>1. Once(cq, EndCqes)
      BY DEF Standing
    <3>2. PICK e \in Cqe : e = AcceptCqe(s, more) /\ (e \in EndCqes <=> ~more)
      BY ArmEntries, Zenon
    <3>3. /\ In(Append(cq, e), EndCqes) <=> In(cq, EndCqes) \/ e \in EndCqes
          /\ Once(cq, EndCqes) /\ ~(In(cq, EndCqes) /\ e \in EndCqes)
               => Once(Append(cq, e), EndCqes)
      BY <1>1, AppendIn, Zenon
    <3>4. cq' = Append(cq, e)
      BY <2>2, <3>2, Zenon, ZenonT(60)
    <3>5. QED
      BY <2>3, <3>1, <3>2, <3>3, <3>4, Zenon
  <2>5. QED
    <3>1. (more => accepts' = 1) /\ (~more => accepts' = 0) /\ 0 # 1
      BY <2>2, <2>3
    <3>2. QED
      BY <2>1, <2>3, <2>4, <3>1, Zenon, ZenonT(60) DEF Standing
<1>10. CASE AcceptFails
  <2>1. /\ pc \notin {"prep", "torn"} /\ UNCHANGED <<pc, todo, sq>>
        /\ accepts > 0 /\ accepts' = accepts - 1
    BY <1>10, Zenon DEF AcceptFails, Completes
  <2>2. PICK e \in Cqe : e \in EndCqes /\ cq' = Append(cq, e)
    BY <1>10, ArmEntries, Zenon DEF AcceptFails
  <2>3. accepts = 1 /\ accepts' = 0 /\ ~In(cq, EndCqes)
    BY <2>1 DEF Standing
  <2>4. Once(cq', EndCqes) /\ In(cq', EndCqes)
    BY <1>1, <2>2, <2>3, AppendIn, Zenon, ZenonT(60) DEF Standing
  <2>5. QED
    BY <2>1, <2>3, <2>4 DEF Standing
<1>11. CASE RecvCompletes
  <2>1. /\ pc \notin {"prep", "torn"} /\ UNCHANGED <<pc, todo, sq, accepts>>
    BY <1>11, Zenon, ZenonT(60) DEF RecvCompletes, Completes
  <2>2. PICK r \in recvs :
          cq' = Append(cq, RecvCqe(r.conn, peer[r.client] = "request"))
    BY <1>11 DEF RecvCompletes
  <2> DEFINE got == peer[r.client] = "request"
  <2>3. r.conn \in Conns /\ got \in BOOLEAN /\ cq' = Append(cq, RecvCqe(r.conn, got))
    BY <2>2, Zenon, ZenonT(60) DEF TypeInv, TypeOK, Recv
  <2> HIDE DEF got
  <2>4. Once(cq', EndCqes) /\ (In(cq', EndCqes) <=> In(cq, EndCqes))
    BY <1>1, <2>3, <1>PostOther DEF Standing
  <2>5. QED
    BY <2>1, <2>4, Zenon, ZenonT(60) DEF Standing
<1>12. CASE Teardown
  <2>1. /\ pc' = "torn" /\ sq' = <<>> /\ cq' = <<>> /\ todo' = <<>>
        /\ accepts' = 0
    BY <1>12 DEF Teardown
  <2>2. QED
    BY <2>1, ShortIn, Zenon, ZenonT(60) DEF Standing
<1>13. QED
  BY <1>2, <1>3, <1>4, <1>5, <1>6, <1>7, <1>8, <1>9, <1>10, <1>11, <1>12
     DEF Next, WorkerStep

\* At the start no accept is armed.
LEMMA StandingInit == Init => Standing /\ Emptied
<1> SUFFICES ASSUME Init PROVE Standing /\ Emptied
  OBVIOUS
<1>1. pc = "prep" /\ accepts = 0 /\ sq = <<>> /\ cq = <<>> /\ todo = <<>>
  BY Zenon, ZenonT(60) DEF Init
<1>2. QED
  BY <1>1, ShortIn, Zenon, ZenonT(60) DEF Standing, Emptied

\* The tokens the runs enumerate are the places of the invariant.
LEMMA TokensMean ==
  ASSUME TypeInv, Standing
  PROVE  /\ \A p, q \in AcceptTokens : p = q
         /\ AcceptTokens # {} <=> \/ accepts = 1 \/ In(sq, ArmSqes)
                                  \/ In(cq, EndCqes) \/ In(todo, ArmCalls)
<1>1. sq \in Seq(Sqe) /\ cq \in Seq(Cqe) /\ todo \in HandlerCalls
  BY Zenon, ZenonT(60) DEF TypeInv, TypeOK
<1> DEFINE K == {<<"armed", n>> : n \in 1..accepts}
           Q == {<<"queued", i>> : i \in {j \in DOMAIN sq : sq[j].op = "accept"}}
           E == {<<"ended", i>> : i \in {j \in DOMAIN cq : cq[j].kind = "accept"
                                                           /\ ~cq[j].more}}
           T == {<<"arming", i>> : i \in {j \in DOMAIN todo : todo[j].call = "arm"}}
<1>2. /\ accepts = 0 \/ accepts = 1
      /\ Once(sq, ArmSqes) /\ Once(cq, EndCqes) /\ Once(todo, ArmCalls)
  BY DEF Standing
<1>3. (K # {} <=> accepts = 1) /\ \A p, q \in K : p = q
  <2>1. (1 \in 1..accepts <=> accepts = 1) /\ \A n \in 1..accepts : n = 1
    BY <1>2
  <2>2. QED
    BY <2>1, Zenon
<1>4. (Q # {} <=> In(sq, ArmSqes)) /\ \A p, q \in Q : p = q
  <2>1. \A j \in DOMAIN sq : sq[j] \in Sqe
    BY <1>1
  <2>2. Q = Tags("queued", sq, ArmSqes)
    BY <2>1, ArmEntries, Zenon DEF Tags
  <2> HIDE DEF Q
  <2>3. QED
    BY <1>2, <2>2, Tagged, Zenon, ZenonT(60)
<1>5. (E # {} <=> In(cq, EndCqes)) /\ \A p, q \in E : p = q
  <2>1. \A j \in DOMAIN cq : cq[j] \in Cqe
    BY <1>1
  <2>2. E = Tags("ended", cq, EndCqes)
    BY <2>1, ArmEntries, Zenon DEF Tags
  <2> HIDE DEF E
  <2>3. QED
    BY <1>2, <2>2, Tagged, Zenon, ZenonT(60)
<1>6. (T # {} <=> In(todo, ArmCalls)) /\ \A p, q \in T : p = q
  <2>1. \A i \in DOMAIN todo : todo[i].call = "arm" <=> todo[i] = Arm
    <3>1. CASE todo = <<>>
      BY <3>1
    <3>2. CASE todo = <<Arm>>
      BY <3>2, CallFields
    <3>3. ASSUME NEW s \in Slots, todo = <<Adopt(s)>> \/ todo = <<Arm, Adopt(s)>>
          PROVE  \A i \in DOMAIN todo : todo[i].call = "arm" <=> todo[i] = Arm
      BY <3>3, CallFields
    <3>4. ASSUME NEW c \in Conns,
                 \/ todo = <<OnConn("recv", c)>> \/ todo = <<OnConn("close", c)>>
                 \/ todo = <<OnConn("send", c), OnConn("close", c)>>
          PROVE  \A i \in DOMAIN todo : todo[i].call = "arm" <=> todo[i] = Arm
      <4>1. SUFFICES ASSUME NEW i \in DOMAIN todo PROVE todo[i].call # "arm"
        BY CallFields, Zenon, ZenonT(60)
      <4>2. \E h \in {"recv", "send", "close"} : todo[i] = OnConn(h, c)
        BY <3>4, <4>1
      <4>3. QED
        <5>1. PICK h \in {"recv", "send", "close"} : todo[i] = OnConn(h, c)
          BY <4>2
        <5>2. todo[i].call = h
          BY <5>1, CallFields, Zenon, ZenonT(60)
        <5>3. QED
          BY <5>1, <5>2
    <3>5. QED
      BY <1>1, <3>1, <3>2, <3>3, <3>4, HandlerCallsShape, Zenon, ZenonT(60)
  <2>2. T = Tags("arming", todo, ArmCalls)
    BY <2>1, Zenon DEF ArmCalls, Tags
  <2> HIDE DEF T
  <2>3. QED
    BY <1>2, <2>2, Tagged, Zenon, ZenonT(60)
<1>7. AcceptTokens = K \cup Q \cup E \cup T
  BY Zenon, ZenonT(60) DEF AcceptTokens
<1> HIDE DEF K, Q, E, T
<1>8. QED
  BY <1>3, <1>4, <1>5, <1>6, <1>7, Zenon, ZenonT(60) DEF Standing

\* The worker is never armed twice: whatever fails, its accept is in the kernel,
\* or queued, or about to be queued, or has a terminal completion, once.  So
\* single-shot and multishot accepts do not pile up.
THEOREM AcceptsDoNotPileUp == Spec => []NeverArmedTwice
<1>1. TypeInv /\ Standing => NeverArmedTwice
  BY TokensMean DEF NeverArmedTwice
<1>2. QED
  BY <1>1, TypeInit, TypeNext, StandingInit, StandingNext, EmptiedNext, PTL
     DEF Spec

\* As long as the kernel consumes what is submitted, a worker in its loop is
\* never deaf: its accept stands, or something that will re-arm it is there,
\* at every queue depth, however accepts fail or terminate.
THEOREM WorkerKeepsListening == Spec => [](Fed => NeverDeaf)
<1>1. TypeInv /\ Standing => (Fed => NeverDeaf)
  <2> SUFFICES ASSUME TypeInv, Standing, Fed,
                      pc \in {"loop", "enter", "drain", "flush"}
               PROVE  \E p \in AcceptTokens : AcceptTokens = {p}
    BY DEF NeverDeaf
  <2>1. AcceptTokens # {} /\ \A p, q \in AcceptTokens : p = q
    BY TokensMean, Zenon, ZenonT(60) DEF Standing
  <2>2. QED
    BY <2>1, Zenon
<1>2. QED
  BY <1>1, TypeInit, TypeNext, StandingInit, StandingNext, EmptiedNext, PTL
     DEF Spec

=============================================================================
