---------------------------- MODULE FaConnProofs ----------------------------
(***************************************************************************)
(* Memory and descriptors of one worker: every conn has one owner and every*)
(* descriptor one holder, for every number of clients, conns and           *)
(* descriptors, every queue depth and batch size, and every set of faults. *)
(***************************************************************************)
EXTENDS FaWorkerProofs

\* The backends for a leaf that names none, with longer tries if the first fail.
USE SMTT(20), ZenonT(20), SMTT(120), ZenonT(60), SMTT(60)

-----------------------------------------------------------------------------
(* The inductive invariant.                                                 *)

Has(f, c) == \E i \in DOMAIN f : f[i] = c
Distinct(f) == \A i, j \in DOMAIN f : f[i] = f[j] => i = j

\* Conn c is in at most one of the five places, and in one if it is allocated.
OneHome(c) ==
  /\ ~(Has(freelist, c) /\ InFlight(c))
  /\ ~(HasConn(sq, c) /\ (Waiting(c) \/ HasConn(cq, c) \/ HasConn(todo, c)))
  /\ ~(Waiting(c) /\ (HasConn(cq, c) \/ HasConn(todo, c)))
  /\ ~(HasConn(cq, c) /\ HasConn(todo, c))
  /\ c \in heap <=> Has(freelist, c) \/ InFlight(c)

UniqueRecvs == \A r, q \in recvs : r.conn = q.conn => r = q

\* ConnOwnership place by place.  Nothing is in flight before the ring exists,
\* which is what makes the warm freelist safe.
Homes ==
  /\ pc = "prep" => sq = <<>> /\ recvs = {} /\ cq = <<>> /\ todo = <<>>
  /\ Distinct(freelist) /\ UniqueConns(sq) /\ UniqueConns(cq) /\ UniqueRecvs
  /\ \A c \in Conns : OneHome(c)

Own == pc # "torn" => Homes

-----------------------------------------------------------------------------
(* The freelist.                                                            *)

\* Pushing a conn that is not on the list.
LEMMA PushConn ==
  ASSUME NEW f \in Seq(Conns), NEW c \in Conns, Distinct(f), ~Has(f, c)
  PROVE  /\ Distinct(<<c>> \o f)
         /\ \A d : Has(<<c>> \o f, d) <=> d = c \/ Has(f, d)
<1> DEFINE g == <<c>> \o f
<1>1. /\ g \in Seq(Conns) /\ Len(g) = Len(f) + 1 /\ Len(f) \in Nat
      /\ DOMAIN f = 1..Len(f) /\ DOMAIN g = 1..(Len(f) + 1)
  OBVIOUS
<1>2. g[1] = c /\ \A i \in DOMAIN f : i + 1 \in DOMAIN g /\ g[i + 1] = f[i]
  OBVIOUS
<1>3. \A i \in DOMAIN g : i = 1 \/ (i - 1 \in DOMAIN f /\ g[i] = f[i - 1])
  OBVIOUS
<1> HIDE DEF g
<1>4. Distinct(g)
  BY <1>1, <1>2, <1>3 DEF Distinct, Has
<1>5. ASSUME NEW d PROVE Has(g, d) <=> d = c \/ Has(f, d)
  BY <1>1, <1>2, <1>3 DEF Has
<1>6. QED
  BY <1>4, <1>5 DEF g

\* Popping the head.
LEMMA PopConn ==
  ASSUME NEW f \in Seq(Conns), f # <<>>, Distinct(f)
  PROVE  /\ Distinct(Tail(f)) /\ Has(f, Head(f))
         /\ \A d : Has(Tail(f), d) <=> d # Head(f) /\ Has(f, d)
<1>1. /\ Len(f) \in Nat \ {0} /\ Len(Tail(f)) = Len(f) - 1
      /\ DOMAIN f = 1..Len(f) /\ DOMAIN Tail(f) = 1..(Len(f) - 1)
      /\ \A i \in DOMAIN Tail(f) : i + 1 \in DOMAIN f /\ Tail(f)[i] = f[i + 1]
      /\ 1 \in DOMAIN f /\ Head(f) = f[1]
  OBVIOUS
<1>2. \A i \in DOMAIN f : i = 1 \/ (i - 1 \in DOMAIN Tail(f)
                                    /\ Tail(f)[i - 1] = f[i])
  BY <1>1
<1>3. Distinct(Tail(f)) /\ Has(f, Head(f))
  BY <1>1 DEF Distinct, Has
<1>4. ASSUME NEW d PROVE Has(Tail(f), d) <=> d # Head(f) /\ Has(f, d)
  <2>1. ASSUME NEW i \in DOMAIN Tail(f), Tail(f)[i] = d
        PROVE  d # Head(f) /\ Has(f, d)
    <3>1. i + 1 \in DOMAIN f /\ f[i + 1] = d /\ i + 1 # 1
      BY <1>1, <2>1
    <3>2. QED
      BY <1>1, <3>1 DEF Distinct, Has
  <2>2. ASSUME NEW i \in DOMAIN f, f[i] = d, d # Head(f)
        PROVE  Has(Tail(f), d)
    BY <1>1, <1>2, <2>2, Zenon, ZenonT(60) DEF Has
  <2>3. QED
    BY <2>1, <2>2 DEF Has
<1>5. QED
  BY <1>3, <1>4

-----------------------------------------------------------------------------
(* One lemma per group of actions.                                          *)

\* Every step keeps the ownership.
LEMMA OwnNext == TypeInv /\ Own /\ [Next]_vars => Own'
\* Steps that touch neither a queue nor the freelist.
<1>OwnControl.
    ASSUME TypeInv, Own,
           \/ RingInitFails \/ StopSeen \/ Enter \/ EnterFails \/ EnterReturns
           \/ EnterTimesOut \/ BatchDone \/ Flush \/ FlushReturns
           \/ fa_server_stop \/ UNCHANGED vars
           \/ \E k \in Clients : Connect(k) \/ Write(k)
    PROVE  Own'
  <2> USE <1>OwnControl
  <2> USE DEF workerVars, clientVars, ringVars
  <2>1. /\ UNCHANGED <<freelist, heap, sq, recvs, cq, todo>>
        /\ pc' = "prep" \/ pc' = "torn" => pc' = pc
        /\ pc = "torn" => pc' = pc
    BY Zenon, ZenonT(60)
       DEF RingInitFails, StopSeen, Enter, EnterFails, EnterReturns, Connect,
           EnterTimesOut, BatchDone, Flush, FlushReturns, HelperRuns,
           fa_server_stop, Write, vars
  <2>2. QED
    BY <2>1 DEF Own, Homes, OneHome, InFlight, Waiting, UniqueRecvs
\* The start of the thread.
<1>OwnEntry.
    ASSUME TypeInv, Own, fa_thread_entry
    PROVE  Own'
  <2> USE <1>OwnEntry
  <2>1. /\ pc = "prep" /\ pc' = "loop" /\ sq' = <<fa_arm_accept>>
        /\ UNCHANGED <<recvs, cq, todo>> /\ WarmFreelist
    BY DEF fa_thread_entry
  <2>2. recvs = {} /\ cq = <<>> /\ todo = <<>>
    BY <2>1 DEF Own, Homes
  <2>3. PICK n \in 0..FreelistWarm : /\ freelist' \in [1..n -> Conns]
                                     /\ IsInjective(freelist')
                                     /\ heap' = Range(freelist')
    BY <2>1 DEF WarmFreelist
  <2>4. Distinct(freelist')
    BY <2>3 DEF IsInjective, Distinct
  <2>5. \A c : c \in heap' <=> Has(freelist', c)
    BY <2>3 DEF Range, Has
  <2>6. \A c \in Conns : ~InFlight(c)'
    BY <2>1, <2>2, EmptyConn, SqeFacts, WorkerAssumption
      DEF InFlight, Waiting
  <2>7. UniqueConns(sq') /\ UniqueConns(cq') /\ UniqueRecvs'
    BY <2>1, <2>2, EmptyConn DEF UniqueRecvs
  <2>8. \A c \in Conns : OneHome(c)'
    BY <2>5, <2>6 DEF OneHome, InFlight
  <2>9. QED
    BY <2>1, <2>4, <2>7, <2>8 DEF Own, Homes
\* A step that moves no conn: some entries without one come or go.
<1>OwnNoMove.
    ASSUME Own, pc \notin {"prep", "torn"}, pc' = pc, UNCHANGED <<freelist, heap>>,
           UniqueConns(sq'), UniqueConns(cq'), UniqueRecvs',
           \A c \in Conns : /\ HasConn(sq', c) <=> HasConn(sq, c)
                            /\ HasConn(cq', c) <=> HasConn(cq, c)
                            /\ HasConn(todo', c) <=> HasConn(todo, c)
                            /\ Waiting(c)' <=> Waiting(c)
    PROVE  Own'
  <2> USE <1>OwnNoMove
  <2>1. \A c \in Conns : OneHome(c)'
    BY DEF Own, Homes, OneHome, InFlight
  <2>2. QED
    BY <2>1 DEF Own, Homes
\* The handlers: the conn of a recv completion passes to the handler.
<1>OwnHandlers.
    ASSUME TypeInv, Own,
           HandleNull \/ HandleAccept \/ HandleRecvFailed \/ HandleRequest
    PROVE  Own'
  <2> USE <1>OwnHandlers
  <2>1. /\ pc = "drain" /\ todo = <<>> /\ cq # <<>> /\ cq' = Tail(cq)
        /\ UNCHANGED <<pc, freelist, heap, sq, recvs>> /\ cq \in Seq(Cqe)
    <3>1. PICK kind : TakeCqe(kind)
      BY Zenon, ZenonT(60)
         DEF HandleNull, HandleAccept, HandleRecvFailed, HandleRequest
    <3>2. cq # <<>> /\ cq \in Seq(Cqe)
      BY <3>1, TypeTakeCqe DEF TypeInv, TypeOK
    <3>3. QED
      BY <3>1, <3>2, Zenon, ZenonT(60)
        DEF HandleNull, HandleAccept, HandleRecvFailed, HandleRequest,
                        TakeCqe
  <2>2. Homes
    BY <2>1 DEF Own
  <2>3. /\ Head(cq) \in Cqe
        /\ \A c : HasConn(cq, c) <=> Head(cq).conn = c \/ HasConn(cq', c)
        /\ UniqueConns(cq')
        /\ Head(cq).conn \in Conns => ~HasConn(cq', Head(cq).conn)
    BY <2>1, <2>2, TailConn, TailUnique DEF Homes
  <2>4. UniqueConns(sq') /\ UniqueRecvs' /\ Distinct(freelist')
        /\ \A c : Waiting(c)' <=> Waiting(c)
    BY <2>1, <2>2 DEF Homes, UniqueRecvs, Waiting
  <2>5. \A c \in Conns : ~HasConn(todo, c)
    BY <2>1, EmptyConn
  <2>6. CASE HandleNull \/ HandleAccept
    <3>1. Head(cq).conn \notin Conns
      BY <2>3, <2>6, CqeFacts, WorkerAssumption, Zenon, ZenonT(60)
        DEF HandleNull, HandleAccept, TakeCqe
    <3>2. \A c \in Conns : ~HasConn(todo', c)
      <4>1. CASE HandleNull
        BY <2>1, <4>1, EmptyConn DEF HandleNull
      <4>2. CASE HandleAccept
        BY <2>3, <4>2, AcceptCalls, CallConns
      <4>3. QED
        BY <2>6, <4>1, <4>2
    <3>3. QED
      BY <2>1, <2>3, <2>4, <2>5, <3>1, <3>2, <1>OwnNoMove
  <2>7. CASE HandleRecvFailed \/ HandleRequest
    <3> DEFINE c == Head(cq).conn
    <3>1. c \in Conns
      BY <2>3, <2>7, CqeFacts, Zenon, ZenonT(60)
         DEF HandleRecvFailed, HandleRequest, TakeCqe
    <3>2. \A d : HasConn(todo', d) <=> d = c
      <4>1. \/ todo' = <<OnConn("close", c)>>
            \/ todo' = <<OnConn("send", c), OnConn("close", c)>>
        BY <2>7, Zenon, ZenonT(60) DEF HandleRecvFailed, HandleRequest
      <4>2. QED
        BY <4>1, CallConns
    <3> HIDE DEF c
    <3>3. ASSUME NEW d \in Conns PROVE OneHome(d)'
      <4>1. OneHome(d)
        BY <2>2 DEF Homes
      <4>2. /\ HasConn(cq, d) <=> c = d \/ HasConn(cq', d)
            /\ d = c => ~HasConn(cq', d)
        BY <2>3, <3>1 DEF c
      <4>3. QED
        BY <2>1, <2>4, <2>5, <3>2, <4>1, <4>2 DEF OneHome, InFlight
    <3>4. QED
      BY <2>1, <2>3, <2>4, <3>3 DEF Own, Homes
  <2>8. QED
    BY <2>6, <2>7
\* Adopting a descriptor: a conn leaves the freelist, or is new on the heap.
<1>OwnAdopt.
    ASSUME TypeInv, Own, AdoptConn
    PROVE  Own'
  <2> USE <1>OwnAdopt
  <2>1. /\ pc = "drain" /\ UNCHANGED <<pc, sq, cq, recvs>>
        /\ todo # <<>> /\ Head(todo).call = "adopt"
    BY DEF AdoptConn
  <2>2. Homes /\ freelist \in Seq(Conns)
    BY <2>1 DEF Own, TypeInv, TypeOK
  <2>3. /\ \A c : Waiting(c)' <=> Waiting(c)
        /\ UniqueConns(sq') /\ UniqueConns(cq') /\ UniqueRecvs'
    BY <2>1, <2>2 DEF Waiting, Homes, UniqueRecvs
  <2>4. \A c \in Conns : ~HasConn(todo, c)
    <3>1. todo \in HandlerCalls
      BY DEF TypeInv, TypeOK
    <3>2. \E s \in Slots : todo = <<Adopt(s)>>
      BY <2>1, <3>1, HandlerCallsShape, CallTuples, CallFields
    <3>3. QED
      BY <3>2, CallConns
  <2>5. CASE todo' = <<>> /\ UNCHANGED <<freelist, heap>>
    BY <2>1, <2>3, <2>4, <2>5, EmptyConn, <1>OwnNoMove
  <2>6. ASSUME NEW c \in Conns, fa_conn_alloc(c), todo' = <<OnConn("recv", c)>>
        PROVE  Own'
    <3>1. \A d : HasConn(todo', d) <=> d = c
      BY <2>6, CallConns
    <3>2. /\ Distinct(freelist') /\ ~Has(freelist', c) /\ ~InFlight(c)
          /\ \A d : d # c => (Has(freelist', d) <=> Has(freelist, d))
          /\ heap' = heap \cup {c}
      <4>1. CASE freelist # <<>> /\ c = Head(freelist) /\ freelist' = Tail(freelist)
                 /\ heap' = heap
        <5>1. /\ Distinct(freelist') /\ Has(freelist, c)
              /\ \A d : Has(freelist', d) <=> d # c /\ Has(freelist, d)
          BY <2>2, <4>1, PopConn DEF Homes
        <5>2. OneHome(c)
          BY <2>2 DEF Homes
        <5>3. ~InFlight(c) /\ c \in heap
          BY <5>1, <5>2 DEF OneHome
        <5>4. heap' = heap \cup {c}
          BY <4>1, <5>3
        <5>5. QED
          BY <5>1, <5>3, <5>4
      <4>2. CASE c \notin heap /\ heap' = heap \cup {c} /\ freelist' = freelist
        BY <2>2, <4>2 DEF Homes, OneHome
      <4>3. QED
        BY <2>6, <4>1, <4>2 DEF fa_conn_alloc
    <3>3. ASSUME NEW d \in Conns PROVE OneHome(d)'
      <4>1. OneHome(d)
        BY <2>2 DEF Homes
      <4>2. QED
        BY <2>1, <2>3, <2>4, <3>1, <3>2, <4>1 DEF OneHome, InFlight
    <3>4. QED
      BY <2>1, <2>3, <3>2, <3>3 DEF Own, Homes
  <2>7. QED
    BY <2>5, <2>6 DEF AdoptConn
\* A conn goes from the handler to the freelist.
<1>OwnFree.
    ASSUME TypeInv, Own, pc = "drain", pc' = pc, NEW c \in Conns,
           UNCHANGED <<heap, cq, recvs>>, UniqueConns(sq'),
           \A d \in Conns : HasConn(sq', d) <=> HasConn(sq, d),
           \A d : HasConn(todo, d) <=> d = c,
           \A d : ~HasConn(todo', d),
           freelist' = <<c>> \o freelist
    PROVE  Own'
  <2> USE <1>OwnFree
  <2>1. Homes /\ freelist \in Seq(Conns)
    BY DEF Own, TypeInv, TypeOK
  <2>2. ~Has(freelist, c) /\ OneHome(c)
    BY <2>1 DEF Homes, OneHome, InFlight
  <2>3. /\ Distinct(freelist')
        /\ \A d : Has(freelist', d) <=> d = c \/ Has(freelist, d)
    BY <2>1, <2>2, PushConn DEF Homes
  <2>4. UniqueConns(cq') /\ UniqueRecvs' /\ \A d : Waiting(d)' <=> Waiting(d)
    BY <2>1 DEF Homes, UniqueRecvs, Waiting
  <2>5. ASSUME NEW d \in Conns PROVE OneHome(d)'
    <3>1. OneHome(d)
      BY <2>1 DEF Homes
    <3>2. QED
      BY <2>3, <2>4, <3>1, Zenon, ZenonT(60) DEF OneHome, InFlight
  <2>6. QED
    BY <2>3, <2>4, <2>5 DEF Own, Homes
\* Preparing an SQE: the conn of a recv goes from the handler to the SQ, the
\* conn of a close to the freelist.
<1>OwnPrepSqe.
    ASSUME TypeInv, Own, PrepSqe
    PROVE  Own'
  <2> USE <1>OwnPrepSqe
  <2> DEFINE e == Prep(Head(todo))
  <2>1. /\ UNCHANGED <<pc, heap, cq, recvs>> /\ todo' = Rest(todo) /\ HelperRuns
        /\ pc = "drain"
    BY DEF PrepSqe, HelperRuns, Rest
  <2>2. e \in Sqe /\ sq' = Append(sq, e) /\ sq \in Seq(Sqe) /\ Homes
    BY <2>1, TypePrepSqe, Zenon, ZenonT(60) DEF TypeInv, TypeOK, Own
  <2>3. \A d : HasConn(sq', d) <=> HasConn(sq, d) \/ e.conn = d
    BY <2>2, AppendConn
  <2>4. UniqueConns(cq') /\ UniqueRecvs' /\ \A d : Waiting(d)' <=> Waiting(d)
    BY <2>1, <2>2 DEF Homes, UniqueRecvs, Waiting
  <2>5. e.conn \notin Conns => UniqueConns(sq')
    BY <2>2, AppendUnique DEF Homes
  <2>6. CASE /\ Head(todo) = Arm
             /\ \A c \in Conns : ~HasConn(todo, c) /\ ~HasConn(Rest(todo), c)
    <3>1. e.conn \notin Conns
      BY <2>6, CallFields, SqeFacts, WorkerAssumption DEF Prep
    <3>2. freelist' = freelist
      BY <2>6, CallFields DEF PrepSqe
    <3>3. QED
      BY <2>1, <2>3, <2>4, <2>5, <2>6, <3>1, <3>2, <1>OwnNoMove, Zenon, ZenonT(60)
  <2>7. ASSUME NEW c \in Conns, Head(todo) = OnConn("recv", c),
               Rest(todo) = <<>>, \A d : HasConn(todo, d) <=> d = c
        PROVE  Own'
    <3>1. e.conn = c
      BY <2>7, CallFields DEF Prep, fa_submit_recv
    <3>2. freelist' = freelist
      BY <2>7, CallFields DEF PrepSqe
    <3>3. OneHome(c)
      BY <2>2 DEF Homes
    <3>4. ~HasConn(sq, c)
      BY <2>7, <3>3 DEF OneHome
    <3>5. UniqueConns(sq')
      BY <2>2, <3>1, <3>4, AppendUnique DEF Homes
    <3>6. \A d : ~HasConn(todo', d)
      BY <2>1, <2>7, EmptyConn
    <3>7. ASSUME NEW d \in Conns PROVE OneHome(d)'
      <4>1. OneHome(d)
        BY <2>2 DEF Homes
      <4>2. HasConn(sq', d) <=> HasConn(sq, d) \/ d = c
        BY <2>3, <3>1
      <4> HIDE DEF e
      <4>3. QED
        BY <2>1, <2>4, <2>7, <3>2, <3>6, <4>1, <4>2, Zenon, ZenonT(60)
          DEF OneHome, InFlight
    <3>8. QED
      BY <2>1, <2>2, <2>4, <3>2, <3>5, <3>7 DEF Own, Homes
  <2>8. ASSUME NEW c \in Conns, Head(todo) = OnConn("close", c),
               Rest(todo) = <<>>, \A d : HasConn(todo, d) <=> d = c
        PROVE  Own'
    <3>1. e.conn \notin Conns
      BY <2>8, CallFields, WorkerAssumption DEF Prep, fa_submit_close
    <3>2. freelist' = <<c>> \o freelist
      BY <2>8, CallFields DEF PrepSqe, fa_conn_free
    <3>3. \A d : ~HasConn(todo', d)
      BY <2>1, <2>8, EmptyConn
    <3>4. QED
      BY <2>1, <2>3, <2>5, <2>8, <3>1, <3>2, <3>3, <1>OwnFree, Zenon, ZenonT(60)
  <2>9. ASSUME NEW c \in Conns, Head(todo) = OnConn("send", c),
               \A d : HasConn(Rest(todo), d) <=> d = c,
               \A d : HasConn(todo, d) <=> d = c
        PROVE  Own'
    <3>1. e.conn \notin Conns
      BY <2>9, CallFields, WorkerAssumption DEF Prep, fa_submit_reply
    <3>2. freelist' = freelist
      BY <2>9, CallFields DEF PrepSqe
    <3>3. QED
      BY <2>1, <2>3, <2>4, <2>5, <2>9, <3>1, <3>2, <1>OwnNoMove, Zenon, ZenonT(60)
  <2>10. QED
    BY <2>1, <2>6, <2>7, <2>8, <2>9, HelperShape, Zenon, ZenonT(60)
\* Giving up: the conn goes from the handler to the freelist, whatever was left
\* to do with it.
<1>OwnFallback.
    ASSUME TypeInv, Own, Fallback
    PROVE  Own'
  <2> USE <1>OwnFallback
  <2>1. UNCHANGED <<pc, heap, sq, cq, recvs>> /\ HelperRuns /\ pc = "drain"
    BY DEF Fallback, HelperRuns
  <2>2. Homes
    BY <2>1 DEF Own
  <2>3. /\ UniqueConns(cq') /\ UniqueConns(sq') /\ UniqueRecvs'
        /\ \A d : Waiting(d)' <=> Waiting(d)
    BY <2>1, <2>2 DEF Homes, UniqueRecvs, Waiting
  <2>4. CASE /\ Head(todo) = Arm
             /\ \A c \in Conns : ~HasConn(todo, c) /\ ~HasConn(Rest(todo), c)
    <3>1. todo' = Rest(todo) /\ freelist' = freelist
      BY <2>4, CallFields DEF Fallback, Rest
    <3>2. QED
      BY <2>1, <2>3, <2>4, <3>1, <1>OwnNoMove, Zenon, ZenonT(60)
  <2>5. ASSUME NEW c \in Conns, NEW h \in {"recv", "send", "close"},
               Head(todo) = OnConn(h, c), \A d : HasConn(todo, d) <=> d = c
        PROVE  Own'
    <3>1. todo' = <<>> /\ freelist' = <<c>> \o freelist
      BY <2>5, CallFields DEF Fallback, fa_conn_free
    <3>2. \A d : ~HasConn(todo', d)
      BY <3>1, EmptyConn
    <3>3. QED
      BY <2>1, <2>3, <2>5, <3>1, <3>2, <1>OwnFree, Zenon, ZenonT(60)
  <2>6. QED
    BY <2>1, <2>4, <2>5, HelperShape, Zenon, ZenonT(60)
\* An entry without a conn is posted, or none: no conn moves.
<1>OwnPost.
    ASSUME TypeInv, Own, pc \notin {"prep", "torn"},
           UNCHANGED <<pc, freelist, heap, recvs, todo>>,
           UniqueConns(sq'), \A c \in Conns : HasConn(sq', c) <=> HasConn(sq, c),
           \/ cq' = cq
           \/ \E e \in Cqe : e.conn = NoConn /\ cq' = Append(cq, e)
    PROVE  Own'
  <2> USE <1>OwnPost
  <2>1. cq \in Seq(Cqe) /\ UniqueConns(cq)
    BY DEF TypeInv, TypeOK, Own, Homes
  <2>2. /\ UniqueConns(cq')
        /\ \A c \in Conns : HasConn(cq', c) <=> HasConn(cq, c)
    <3>1. CASE cq' = cq
      BY <2>1, <3>1
    <3>2. ASSUME NEW e \in Cqe, e.conn = NoConn, cq' = Append(cq, e)
          PROVE  /\ UniqueConns(cq')
                 /\ \A c \in Conns : HasConn(cq', c) <=> HasConn(cq, c)
      BY <2>1, <3>2, AppendConn, AppendUnique, WorkerAssumption, Zenon, ZenonT(60)
    <3>3. QED
      BY <3>1, <3>2
  <2>3. UniqueRecvs' /\ \A c : Waiting(c)' <=> Waiting(c)
    BY DEF Own, Homes, UniqueRecvs, Waiting
  <2>4. QED
    BY <2>2, <2>3, <1>OwnNoMove
\* The kernel consumes an SQE: the conn of a recv goes from the SQ to the
\* pending recvs, or to the CQ if the recv fails at once.
<1>OwnIssue.
    ASSUME TypeInv, Own, IssueAccept \/ IssueRecv \/ IssueSend \/ IssueClose
    PROVE  Own'
  <2> USE <1>OwnIssue
  <2>1. PICK op : Issue(op)
    BY Zenon, ZenonT(60) DEF IssueAccept, IssueRecv, IssueSend, IssueClose
  <2>2. /\ pc \in {"enter", "flush"} /\ sq # <<>> /\ sq' = Tail(sq)
        /\ UNCHANGED <<pc, freelist, heap, todo>> /\ sq \in Seq(Sqe)
    BY <2>1 DEF Issue, workerVars, TypeInv, TypeOK
  <2>3. Homes
    BY <2>2 DEF Own
  <2>4. /\ Head(sq) \in Sqe
        /\ \A c : HasConn(sq, c) <=> Head(sq).conn = c \/ HasConn(sq', c)
        /\ UniqueConns(sq')
        /\ Head(sq).conn \in Conns => ~HasConn(sq', Head(sq).conn)
    BY <2>2, <2>3, TailConn, TailUnique, Zenon, ZenonT(60) DEF Homes
  <2>5. CASE IssueAccept \/ IssueSend \/ IssueClose
    <3>1. Head(sq).op # "recv"
      BY <2>5, Zenon, ZenonT(60) DEF IssueAccept, IssueSend, IssueClose, Issue
    <3>2. Head(sq).conn \notin Conns
      BY <2>4, <3>1, SqeFacts, WorkerAssumption, Zenon, ZenonT(60)
    <3>3. recvs' = recvs
      BY <2>5, Zenon, ZenonT(60) DEF IssueAccept, IssueSend, IssueClose
    <3> DEFINE e == AcceptCqe(NoSlot, FALSE)
    <3>4. e \in Cqe /\ e.conn = NoConn
      BY CqeFacts, Zenon, ZenonT(60)
    <3>5. cq' = cq \/ cq' = Append(cq, e) \/ cq' = Append(cq, NullCqe)
      BY <2>5, Zenon, ZenonT(60) DEF IssueAccept, IssueSend, IssueClose
    <3> HIDE DEF e
    <3>6. \A c \in Conns : HasConn(sq', c) <=> HasConn(sq, c)
      BY <2>4, <3>2, Zenon, ZenonT(60)
    <3>7. QED
      BY <2>2, <2>4, <3>3, <3>4, <3>5, <3>6, CqeFacts, <1>OwnPost, Zenon, ZenonT(60)
  <2>6. CASE IssueRecv
    <3> DEFINE c == Head(sq).conn
               k == file[Head(sq).slot]
               e == RecvCqe(c, FALSE)
    <3>1. c \in Conns
      BY <2>4, <2>6, SqeFacts, Zenon, ZenonT(60) DEF IssueRecv, Issue
    <3>2. OneHome(c) /\ HasConn(sq, c)
      BY <2>3, <2>4, <3>1 DEF Homes
    <3>3. e \in Cqe /\ e.conn = c
      BY <3>1, CqeFacts, Zenon, ZenonT(60)
    <3>4. \/ cq' = Append(cq, e) /\ recvs' = recvs
          \/ recvs' = recvs \cup {[conn |-> c, client |-> k]} /\ cq' = cq
      BY <2>6, Zenon, ZenonT(60) DEF IssueRecv
    <3>5. cq \in Seq(Cqe) /\ UniqueConns(cq) /\ ~HasConn(cq, c) /\ ~Waiting(c)
      BY <2>3, <3>2, Zenon, ZenonT(60) DEF TypeInv, TypeOK, Homes, OneHome
    <3> HIDE DEF c, k, e
    <3>6. UniqueConns(cq')
      BY <3>3, <3>4, <3>5, AppendUnique, Zenon, ZenonT(60)
    <3>7. UniqueRecvs'
      BY <2>3, <3>4, <3>5 DEF UniqueRecvs, Homes, Waiting
    <3>8. \/ /\ \A d : HasConn(cq', d) <=> HasConn(cq, d) \/ d = c
             /\ \A d : Waiting(d)' <=> Waiting(d)
          \/ /\ \A d : HasConn(cq', d) <=> HasConn(cq, d)
             /\ \A d : Waiting(d)' <=> Waiting(d) \/ d = c
      <4>1. CASE cq' = Append(cq, e) /\ recvs' = recvs
        BY <3>3, <3>5, <4>1, AppendConn, Zenon, ZenonT(60) DEF Waiting
      <4>2. CASE recvs' = recvs \cup {[conn |-> c, client |-> k]} /\ cq' = cq
        <5> DEFINE r == [conn |-> c, client |-> k]
        <5>1. r.conn = c /\ recvs' = recvs \cup {r} /\ cq' = cq
          BY <4>2
        <5> HIDE DEF r
        <5>2. \A d : Waiting(d)' <=> Waiting(d) \/ d = c
          BY <5>1 DEF Waiting
        <5>3. QED
          BY <5>1, <5>2
      <4>3. QED
        BY <3>4, <4>1, <4>2, Zenon, ZenonT(60)
    <3>9. ASSUME NEW d \in Conns PROVE OneHome(d)'
      <4>1. OneHome(d)
        BY <2>3 DEF Homes
      <4>2. /\ HasConn(sq, d) <=> d = c \/ HasConn(sq', d)
            /\ d = c => ~HasConn(sq', d)
        BY <2>4, <3>1, Zenon, ZenonT(60) DEF c
      <4>3. QED
        BY <2>2, <3>8, <4>1, <4>2, Zenon, ZenonT(60) DEF OneHome, InFlight
    <3>10. QED
      BY <2>2, <2>3, <2>4, <3>6, <3>7, <3>9, Zenon, ZenonT(60) DEF Own, Homes
  <2>7. QED
    BY <2>5, <2>6
\* A completion: the conn of a recv goes to the CQ.
<1>OwnCompletes.
    ASSUME TypeInv, Own, AcceptCompletes \/ AcceptFails \/ RecvCompletes
    PROVE  Own'
  <2> USE <1>OwnCompletes
  <2>1. /\ UNCHANGED <<pc, freelist, heap, todo, sq>>
        /\ pc \notin {"prep", "torn"}
    BY Zenon, ZenonT(60)
      DEF AcceptCompletes, AcceptFails, RecvCompletes, Completes, workerVars
  <2>2. Homes
    BY <2>1 DEF Own
  <2>3. CASE AcceptCompletes
    <3>1. PICK s \in Slots, more \in BOOLEAN : cq' = Append(cq, AcceptCqe(s, more))
      BY <2>3 DEF AcceptCompletes
    <3> DEFINE e == AcceptCqe(s, more)
    <3>2. e \in Cqe /\ e.conn = NoConn
      BY CqeFacts, Zenon, ZenonT(60)
    <3>3. recvs' = recvs /\ cq' = Append(cq, e)
      BY <2>3, <3>1 DEF AcceptCompletes
    <3> HIDE DEF e
    <3>4. QED
      BY <2>1, <2>2, <3>2, <3>3, <1>OwnPost DEF Homes
  <2>4. CASE AcceptFails
    <3> DEFINE e == AcceptCqe(NoSlot, FALSE)
    <3>1. e \in Cqe /\ e.conn = NoConn
      BY CqeFacts, Zenon, ZenonT(60)
    <3>2. recvs' = recvs /\ cq' = Append(cq, e)
      BY <2>4, Zenon, ZenonT(60) DEF AcceptFails
    <3> HIDE DEF e
    <3>3. QED
      BY <2>1, <2>2, <3>1, <3>2, <1>OwnPost, Zenon, ZenonT(60) DEF Homes
  <2>5. CASE RecvCompletes
    <3>1. PICK r \in recvs :
            /\ recvs' = recvs \ {r}
            /\ cq' = Append(cq, RecvCqe(r.conn, peer[r.client] = "request"))
      BY <2>5, Zenon, ZenonT(60) DEF RecvCompletes
    <3> DEFINE c == r.conn
               got == peer[r.client] = "request"
               e == RecvCqe(c, got)
    <3>2. c \in Conns /\ Waiting(c)
      BY DEF TypeInv, TypeOK, Recv, Waiting
    <3>3. e \in Cqe /\ e.conn = c
      <4>1. got \in BOOLEAN
        BY Zenon, ZenonT(60)
      <4> HIDE DEF got
      <4>2. QED
        BY <3>2, <4>1, CqeFacts, Zenon, ZenonT(60)
    <3>4. cq' = Append(cq, e)
      BY <3>1, Zenon, ZenonT(60)
    <3> HIDE DEF e, got
    <3>5. cq \in Seq(Cqe) /\ UniqueConns(cq) /\ OneHome(c)
      BY <2>2, <3>2, Zenon, ZenonT(60) DEF TypeInv, TypeOK, Homes
    <3>6. ~HasConn(cq, c)
      BY <3>2, <3>5 DEF OneHome
    <3>7. /\ UniqueConns(cq')
          /\ \A d : HasConn(cq', d) <=> HasConn(cq, d) \/ d = c
      BY <3>3, <3>4, <3>5, <3>6, AppendConn, AppendUnique, Zenon, ZenonT(60)
    <3>8. UniqueRecvs' /\ \A d : Waiting(d)' <=> Waiting(d) /\ d # c
      BY <2>2, <3>1 DEF Homes, UniqueRecvs, Waiting
    <3> HIDE DEF c
    <3>9. ASSUME NEW d \in Conns PROVE OneHome(d)'
      <4>1. OneHome(d)
        BY <2>2 DEF Homes
      <4>2. QED
        BY <2>1, <3>2, <3>7, <3>8, <4>1, Zenon, ZenonT(60) DEF OneHome, InFlight
    <3>10. QED
      BY <2>1, <2>2, <3>7, <3>8, <3>9 DEF Own, Homes
  <2>6. QED
    BY <2>3, <2>4, <2>5
<1> SUFFICES ASSUME TypeInv, Own, [Next]_vars PROVE Own'
  OBVIOUS
<1>1. CASE Teardown
  BY <1>1 DEF Teardown, Own
<1>2. CASE WorkerStep /\ ~Teardown
  BY <1>2, <1>OwnControl, <1>OwnEntry, <1>OwnHandlers, <1>OwnAdopt, <1>OwnPrepSqe,
     <1>OwnFallback,
     <1>OwnIssue DEF WorkerStep
<1>3. CASE AcceptCompletes \/ AcceptFails \/ RecvCompletes
  BY <1>3, <1>OwnCompletes
<1>4. CASE \/ fa_server_stop \/ UNCHANGED vars
           \/ \E k \in Clients : Connect(k) \/ Write(k)
  BY <1>4, <1>OwnControl
<1>5. QED
  BY <1>1, <1>2, <1>3, <1>4 DEF Next

\* At the start nothing is allocated.
LEMMA OwnInit == Init => Own
<1> SUFFICES ASSUME Init PROVE Own
  OBVIOUS
<1>1. \A c : ~InFlight(c)
  BY EmptyConn, Zenon, ZenonT(60) DEF Init, InFlight, Waiting
<1>2. \A c \in Conns : OneHome(c)
  BY <1>1 DEF Init, OneHome, Has, InFlight
<1>3. UniqueConns(sq) /\ UniqueConns(cq) /\ UniqueRecvs /\ Distinct(freelist)
  BY EmptyConn DEF Init, UniqueRecvs, Distinct
<1>4. QED
  BY <1>2, <1>3 DEF Own, Homes, Init

\* The place-by-place invariant gives the property the runs check.
LEMMA OwnImplies == TypeInv /\ Own => ConnOwnership
<1> SUFFICES ASSUME TypeInv, Own, pc # "torn", NEW c \in Conns
             PROVE  /\ c \in heap <=> Places(c) # {}
                    /\ \A p, q \in Places(c) : p = q
  BY DEF ConnOwnership
<1>1. OneHome(c) /\ Homes
  BY DEF Own, Homes
<1>2. c \in TodoConns <=> HasConn(todo, c)
  BY WorkerAssumption DEF TodoConns, HasConn
<1> DEFINE F == {<<"free", i>> : i \in {j \in DOMAIN freelist : freelist[j] = c}}
           S == {<<"sq", i>> : i \in {j \in DOMAIN sq : sq[j].conn = c}}
           K == {<<"kernel", r.client>> : r \in {x \in recvs : x.conn = c}}
           C == {<<"cq", i>> : i \in {j \in DOMAIN cq : cq[j].conn = c}}
           T == IF c \in TodoConns THEN {<<"handler", 0>>} ELSE {}
<1>3. (F # {} <=> Has(freelist, c)) /\ \A p, q \in F : p = q
  BY <1>1, Zenon, ZenonT(60) DEF Has, Homes, Distinct
<1>4. (S # {} <=> HasConn(sq, c)) /\ \A p, q \in S : p = q
  BY <1>1, Zenon, ZenonT(60) DEF HasConn, Homes, UniqueConns
<1>5. (K # {} <=> Waiting(c)) /\ \A p, q \in K : p = q
  BY <1>1, Zenon, ZenonT(60) DEF Waiting, Homes, UniqueRecvs
<1>6. (C # {} <=> HasConn(cq, c)) /\ \A p, q \in C : p = q
  BY <1>1, Zenon, ZenonT(60) DEF HasConn, Homes, UniqueConns
<1>7. (T # {} <=> HasConn(todo, c)) /\ \A p, q \in T : p = q
  BY <1>2, Zenon, ZenonT(60)
<1>8. Places(c) = F \cup S \cup K \cup C \cup T
  BY DEF Places
<1> HIDE DEF F, S, K, C, T
<1>9. QED
  BY <1>1, <1>3, <1>4, <1>5, <1>6, <1>7, <1>8 DEF OneHome, InFlight

\* Every conn the worker has taken from malloc is in exactly one place until the
\* teardown: on the freelist, behind one recv, or with the handler.  The engine
\* frees a conn when it prepares the close, before the close or the reply is
\* submitted, and hands raw pointers to the kernel; no completion ever names a
\* conn that is free or belongs to another connection.
THEOREM ConnsOwned == Spec => []ConnOwnership
<1>1. Init => TypeInv /\ Own
  BY TypeInit, OwnInit
<1>2. TypeInv /\ Own /\ [Next]_vars => (TypeInv /\ Own)'
  BY TypeNext, OwnNext
<1>3. TypeInv /\ Own => ConnOwnership
  BY OwnImplies
<1>4. QED
  BY <1>1, <1>2, <1>3, PTL DEF Spec

-----------------------------------------------------------------------------
(* Who holds a descriptor.                                                  *)

Live(c) == c \in heap /\ ~Has(freelist, c)

AcceptedAt(s) == {e \in Cqe : e.kind = "accept" /\ e.slot = s}
AdoptAt(s) == {Adopt(s)}
CloseAt(s) == {e \in Sqe : e.op = "close" /\ e.slot = s}

Accepted(s) == In(cq, AcceptedAt(s))
Adopting(s) == In(todo, AdoptAt(s))
Owned(s) == \E c \in Conns : Live(c) /\ fd[c] = s
Closing(s) == In(sq, CloseAt(s))

HeldAt(s) == Accepted(s) \/ Adopting(s) \/ Owned(s) \/ Closing(s)

\* At most one holder, and only of an open descriptor.
OneHolder(s) ==
  /\ Once(cq, AcceptedAt(s)) /\ Once(sq, CloseAt(s))
  /\ \A c, d \in Conns : Live(c) /\ Live(d) /\ fd[c] = s /\ fd[d] = s => c = d
  /\ ~(Accepted(s) /\ (Adopting(s) \/ Owned(s) \/ Closing(s)))
  /\ ~(Adopting(s) /\ (Owned(s) \/ Closing(s)))
  /\ ~(Owned(s) /\ Closing(s))
  /\ HeldAt(s) => file[s] # Nobody

\* An open descriptor is held, or there was no memory for its conn.
NotLost(s) ==
  (Fed \/ ~direct) /\ file[s] # Nobody => HeldAt(s) \/ s \in given_up

Held ==
  /\ pc = "prep" => \A s \in Slots : file[s] = Nobody
  /\ pc # "torn" => \A s \in Slots : OneHolder(s) /\ NotLost(s)

\* The entries that name a descriptor they hold.
LEMMA SlotEntries ==
  ASSUME NEW s \in Slots
  PROVE  /\ \A e \in Cqe : e \in AcceptedAt(s) <=> e.kind = "accept" /\ e.slot = s
         /\ \A t \in Slots, more \in BOOLEAN :
              AcceptCqe(t, more) \in AcceptedAt(s) <=> t = s
         /\ \A e \in Cqe : ~e.ok => e \notin AcceptedAt(s)
         /\ \A e \in Sqe : e \in CloseAt(s) <=> e.op = "close" /\ e.slot = s
         /\ Arm \notin AdoptAt(s)
         /\ \A t \in Slots : Adopt(t) \in AdoptAt(s) <=> t = s
<1>1. \A t \in Slots, more \in BOOLEAN :
        AcceptCqe(t, more) \in AcceptedAt(s) <=> t = s
  BY WorkerAssumption, Zenon, ZenonT(60) DEF AcceptedAt, AcceptCqe, Cqe
<1>2. \A e \in Cqe : ~e.ok => e \notin AcceptedAt(s)
  BY WorkerAssumption, Zenon, ZenonT(60) DEF AcceptedAt, Cqe
<1>3. /\ Arm \notin AdoptAt(s)
      /\ \A t \in Slots : Adopt(t) \in AdoptAt(s) <=> t = s
  BY WorkerAssumption DEF AdoptAt, Arm, Adopt
<1>4. QED
  BY <1>1, <1>2, <1>3, Zenon, ZenonT(60) DEF AcceptedAt, CloseAt

\* A call on a conn adopts nothing.
LEMMA OnConnAdopts ==
  ASSUME NEW s \in Slots, NEW h, NEW c
  PROVE  OnConn(h, c) \notin AdoptAt(s)
<1>1. OnConn(h, c).slot = NoSlot /\ Adopt(s).slot = s /\ s # NoSlot
  BY WorkerAssumption DEF OnConn, Adopt
<1>2. QED
  BY <1>1 DEF AdoptAt

\* In a handler's list, a call that names a descriptor adopts it.
LEMMA AdoptCalls ==
  ASSUME NEW s \in Slots, NEW q \in HandlerCalls
  PROVE  \A j \in DOMAIN q : q[j].slot = s <=> q[j] \in AdoptAt(s)
<1>1. Arm.slot # s /\ \A h, c : OnConn(h, c).slot # s
  BY WorkerAssumption DEF Arm, OnConn
<1>2. \A t \in Slots : Adopt(t).slot = s <=> Adopt(t) \in AdoptAt(s)
  BY CallFields, SlotEntries
<1>3. Arm \notin AdoptAt(s) /\ \A h, c : OnConn(h, c) \notin AdoptAt(s)
  BY SlotEntries, OnConnAdopts, Zenon, ZenonT(60)
<1>4. SUFFICES ASSUME NEW j \in DOMAIN q
               PROVE  \/ q[j] = Arm \/ \E t \in Slots : q[j] = Adopt(t)
                      \/ \E h, c : q[j] = OnConn(h, c)
  BY <1>1, <1>2, <1>3, Zenon, ZenonT(60)
<1>5. /\ q # <<>>
      /\ \A x : q = <<x>> => q[j] = x
      /\ \A x, y : q = <<x, y>> => q[j] = x \/ q[j] = y
  BY <1>4
<1>6. CASE q = <<Arm>>
  BY <1>5, <1>6, Zenon, ZenonT(60)
<1>7. ASSUME NEW t \in Slots, q = <<Adopt(t)>> \/ q = <<Arm, Adopt(t)>>
      PROVE  q[j] = Arm \/ q[j] = Adopt(t)
  BY <1>5, <1>7, Zenon, ZenonT(60)
<1>8. ASSUME NEW c \in Conns,
             \/ q = <<OnConn("recv", c)>> \/ q = <<OnConn("close", c)>>
             \/ q = <<OnConn("send", c), OnConn("close", c)>>
      PROVE  \E h, d : q[j] = OnConn(h, d)
  <2>1. CASE q = <<OnConn("recv", c)>>
    BY <1>5, <2>1, Zenon, ZenonT(60)
  <2>2. CASE q = <<OnConn("close", c)>>
    BY <1>5, <2>2, Zenon, ZenonT(60)
  <2>3. CASE q = <<OnConn("send", c), OnConn("close", c)>>
    BY <1>5, <2>3, Zenon, ZenonT(60)
  <2>4. QED
    BY <1>8, <2>1, <2>2, <2>3, Zenon, ZenonT(60)
<1>9. \/ q = <<Arm>>
      \/ \E t \in Slots : q = <<Adopt(t)>> \/ q = <<Arm, Adopt(t)>>
      \/ \E c \in Conns : \/ q = <<OnConn("recv", c)>>
                          \/ q = <<OnConn("close", c)>>
                          \/ q = <<OnConn("send", c), OnConn("close", c)>>
  BY <1>5, HandlerCallsShape, Zenon, ZenonT(60)
<1>10. QED
  BY <1>6, <1>7, <1>8, <1>9, Zenon, ZenonT(60)

\* The lists of calls that adopt a descriptor.
LEMMA AdoptLists ==
  ASSUME NEW s \in Slots
  PROVE  /\ ~In(<<>>, AdoptAt(s)) /\ ~In(<<Arm>>, AdoptAt(s))
         /\ \A t \in Slots : /\ In(<<Adopt(t)>>, AdoptAt(s)) <=> t = s
                             /\ In(<<Arm, Adopt(t)>>, AdoptAt(s)) <=> t = s
         /\ \A h, c : ~In(<<OnConn(h, c)>>, AdoptAt(s))
         /\ \A h, g, c : ~In(<<OnConn(h, c), OnConn(g, c)>>, AdoptAt(s))
<1>1. \A a, b : /\ In(<<a>>, AdoptAt(s)) <=> a \in AdoptAt(s)
                /\ In(<<a, b>>, AdoptAt(s)) <=> a \in AdoptAt(s) \/ b \in AdoptAt(s)
  BY ShortIn, Zenon, ZenonT(60)
<1>2. ~In(<<>>, AdoptAt(s)) /\ ~In(<<Arm>>, AdoptAt(s))
  BY <1>1, ShortIn, SlotEntries, Zenon, ZenonT(60)
<1>3. ASSUME NEW a, NEW b, a \notin AdoptAt(s), b \notin AdoptAt(s)
      PROVE  ~In(<<a>>, AdoptAt(s)) /\ ~In(<<a, b>>, AdoptAt(s))
  BY <1>3, ShortIn, Zenon
<1>4. ASSUME NEW t \in Slots
      PROVE  /\ In(<<Adopt(t)>>, AdoptAt(s)) <=> t = s
             /\ In(<<Arm, Adopt(t)>>, AdoptAt(s)) <=> t = s
  BY <1>1, SlotEntries, Zenon, ZenonT(60)
<1>5. ASSUME NEW h, NEW g, NEW c
      PROVE  /\ ~In(<<OnConn(h, c)>>, AdoptAt(s))
             /\ ~In(<<OnConn(h, c), OnConn(g, c)>>, AdoptAt(s))
  <2>1. OnConn(h, c) \notin AdoptAt(s) /\ OnConn(g, c) \notin AdoptAt(s)
    BY OnConnAdopts, Zenon
  <2>2. QED
    BY <1>3, <2>1, Zenon
<1>6. QED
  BY <1>2, <1>4, <1>5, Zenon

\* Conns in use are the live ones.
LEMMA LiveInFlight ==
  ASSUME Own, pc # "torn"
  PROVE  \A c \in Conns : Live(c) <=> InFlight(c)
  BY Zenon, ZenonT(60) DEF Own, Homes, OneHome, Live

-----------------------------------------------------------------------------
(* Every step keeps the descriptors held.                                   *)

\* The handlers take a CQE and leave calls to make.
LEMMA HandlersFrame ==
  ASSUME TypeInv,
         HandleNull \/ HandleAccept \/ HandleRecvFailed \/ HandleRequest
  PROVE  /\ pc = "drain" /\ todo = <<>> /\ cq # <<>> /\ cq' = Tail(cq)
         /\ UNCHANGED <<pc, direct, freelist, heap, fd, buf, sq, recvs, file,
                        backlog, sock, inbox>>
         /\ cq \in Seq(Cqe) /\ Head(cq) \in Cqe
<1>1. PICK kind : TakeCqe(kind)
  BY Zenon, ZenonT(60)
     DEF HandleNull, HandleAccept, HandleRecvFailed, HandleRequest
<1>2. cq # <<>> /\ cq \in Seq(Cqe) /\ Head(cq) \in Cqe
  BY <1>1, TypeTakeCqe, Zenon, ZenonT(60) DEF TypeInv, TypeOK
<1>3. QED
  BY <1>1, <1>2, Zenon, ZenonT(60)
    DEF HandleNull, HandleAccept, HandleRecvFailed, HandleRequest, TakeCqe

\* The handler has a descriptor to adopt exactly if its CQE accepted one.
LEMMA HandlerAdopts ==
  ASSUME TypeInv,
         HandleNull \/ HandleAccept \/ HandleRecvFailed \/ HandleRequest
  PROVE  \A s \in Slots : Adopting(s)' <=> Head(cq) \in AcceptedAt(s)
<1>1. todo = <<>> /\ Head(cq) \in Cqe
  BY HandlersFrame
<1>2. CASE HandleNull \/ HandleRecvFailed \/ HandleRequest
  <2>1. Head(cq).kind # "accept"
    BY <1>2, Zenon DEF HandleNull, HandleRecvFailed, HandleRequest, TakeCqe
  <2>2. \/ todo' = <<>>
        \/ \E c : \/ todo' = <<OnConn("close", c)>>
                  \/ todo' = <<OnConn("send", c), OnConn("close", c)>>
    BY <1>1, <1>2, Zenon, ZenonT(60)
       DEF HandleNull, HandleRecvFailed, HandleRequest
  <2>3. ASSUME NEW s \in Slots PROVE ~Adopting(s)'
    <3>1. /\ ~In(<<>>, AdoptAt(s))
          /\ \A c : /\ ~In(<<OnConn("close", c)>>, AdoptAt(s))
                    /\ ~In(<<OnConn("send", c), OnConn("close", c)>>, AdoptAt(s))
      BY AdoptLists, Zenon, ZenonT(60)
    <3>2. QED
      BY <2>2, <3>1, Zenon, ZenonT(60) DEF Adopting
  <2>4. QED
    BY <1>1, <2>1, <2>3, SlotEntries, Zenon, ZenonT(60)
<1>3. CASE HandleAccept
  <2>1. Head(cq).kind = "accept"
    BY <1>3 DEF HandleAccept, TakeCqe
  <2>2. /\ Head(cq).ok => \/ todo' = <<Adopt(Head(cq).slot)>>
                          \/ todo' = <<Arm, Adopt(Head(cq).slot)>>
        /\ ~Head(cq).ok => todo' = <<>> \/ todo' = <<Arm>>
    BY <1>3, ConcatCalls, Zenon, ZenonT(60) DEF HandleAccept
  <2>3. CASE Head(cq).ok
    <3>1. Head(cq).slot \in Slots
      BY <1>1, <2>1, <2>3, CqeFacts, Zenon, ZenonT(60)
    <3>2. \A s \in Slots : Adopting(s)' <=> Head(cq).slot = s
      <4> DEFINE t == Head(cq).slot
      <4>1. todo' = <<Adopt(t)>> \/ todo' = <<Arm, Adopt(t)>>
        BY <2>2, <2>3, Zenon, ZenonT(60)
      <4>2. t \in Slots
        BY <3>1
      <4> HIDE DEF t
      <4>3. \A s \in Slots : /\ In(<<Adopt(t)>>, AdoptAt(s)) <=> t = s
                             /\ In(<<Arm, Adopt(t)>>, AdoptAt(s)) <=> t = s
        BY <4>2, AdoptLists, Zenon, ZenonT(60)
      <4>4. ASSUME NEW s \in Slots PROVE Adopting(s)' <=> t = s
        <5>1. Adopting(s)' <=> In(todo', AdoptAt(s))
          BY Zenon, ZenonT(60) DEF Adopting
        <5>2. CASE todo' = <<Adopt(t)>>
          BY <4>3, <5>1, <5>2, Zenon, ZenonT(60)
        <5>3. CASE todo' = <<Arm, Adopt(t)>>
          BY <4>3, <5>1, <5>3, Zenon, ZenonT(60)
        <5>4. QED
          BY <4>1, <5>2, <5>3, Zenon, ZenonT(60)
      <4>5. QED
        BY <4>4, Zenon, ZenonT(60) DEF t
    <3>3. QED
      BY <1>1, <2>1, <3>2, SlotEntries, Zenon, ZenonT(60)
  <2>4. CASE ~Head(cq).ok
    <3>1. \A s \in Slots : ~Adopting(s)'
      BY <2>2, <2>4, AdoptLists, Zenon, ZenonT(60) DEF Adopting
    <3>2. QED
      BY <1>1, <2>4, <3>1, SlotEntries, Zenon, ZenonT(60)
  <2>5. QED
    BY <2>3, <2>4
<1>4. QED
  BY <1>2, <1>3

\* What fa_conn_alloc hands out was not in use, and is now.
LEMMA AllocLive ==
  ASSUME TypeInv, Own, pc = "drain", NEW c \in Conns, fa_conn_alloc(c)
  PROVE  /\ ~Live(c) /\ Live(c)'
         /\ \A d \in Conns : d # c => (Live(d)' <=> Live(d))
<1>1. freelist \in Seq(Conns) /\ Distinct(freelist) /\ OneHome(c)
  BY Zenon, ZenonT(60) DEF TypeInv, TypeOK, Own, Homes
<1>2. CASE freelist # <<>> /\ c = Head(freelist) /\ freelist' = Tail(freelist)
           /\ heap' = heap
  <2>1. Has(freelist, c) /\ \A d : Has(freelist', d) <=> d # c /\ Has(freelist, d)
    BY <1>1, <1>2, PopConn
  <2>2. c \in heap
    BY <1>1, <2>1 DEF OneHome
  <2>3. QED
    BY <1>2, <2>1, <2>2 DEF Live
<1>3. CASE c \notin heap /\ heap' = heap \cup {c} /\ freelist' = freelist
  <2>1. ~Has(freelist, c)
    BY <1>1, <1>3 DEF OneHome
  <2>2. QED
    BY <1>3, <2>1 DEF Live
<1>4. QED
  BY <1>2, <1>3, Zenon, ZenonT(60) DEF fa_conn_alloc

\* A conn that is freed was in use, and is no longer.
LEMMA FreeLive ==
  ASSUME TypeInv, Own, pc = "drain", NEW c \in Conns, HasConn(todo, c),
         freelist' = <<c>> \o freelist, heap' = heap
  PROVE  /\ Live(c) /\ ~Live(c)'
         /\ \A d \in Conns : d # c => (Live(d)' <=> Live(d))
<1>1. freelist \in Seq(Conns) /\ Distinct(freelist) /\ OneHome(c)
  BY DEF TypeInv, TypeOK, Own, Homes
<1>2. ~Has(freelist, c) /\ c \in heap
  BY <1>1 DEF OneHome, InFlight
<1>3. \A d : Has(freelist', d) <=> d = c \/ Has(freelist, d)
  BY <1>1, <1>2, PushConn
<1>4. QED
  BY <1>2, <1>3 DEF Live

\* A descriptor waits to be adopted while the accept is re-armed; no other
\* helper runs then.
LEMMA HelperAdopts ==
  ASSUME TypeInv, HelperRuns, NEW s \in Slots
  PROVE  /\ In(Rest(todo), AdoptAt(s)) <=> In(todo, AdoptAt(s))
         /\ Head(todo) # Arm => ~In(todo, AdoptAt(s))
<1>1. todo \in HandlerCalls /\ todo # <<>> /\ Head(todo).call # "adopt"
  BY DEF TypeInv, TypeOK, HelperRuns
<1>2. CASE todo = <<Arm>>
  <2>1. Rest(todo) = <<>> /\ Head(todo) = Arm
    BY <1>2, CallTuples, Zenon, ZenonT(60)
  <2>2. QED
    <3>1. ~In(<<>>, AdoptAt(s)) /\ ~In(<<Arm>>, AdoptAt(s))
      BY AdoptLists, Zenon, ZenonT(60)
    <3>2. QED
      BY <1>2, <2>1, <3>1, Zenon, ZenonT(60)
<1>3. ASSUME NEW t \in Slots, todo = <<Arm, Adopt(t)>>
      PROVE  /\ In(Rest(todo), AdoptAt(s)) <=> In(todo, AdoptAt(s))
             /\ Head(todo) = Arm
  <2>1. Rest(todo) = <<Adopt(t)>> /\ Head(todo) = Arm
    BY <1>3, CallTuples, Zenon, ZenonT(60)
  <2>2. QED
    <3>1. /\ In(<<Adopt(t)>>, AdoptAt(s)) <=> t = s
          /\ In(<<Arm, Adopt(t)>>, AdoptAt(s)) <=> t = s
      BY AdoptLists, Zenon, ZenonT(60)
    <3>2. QED
      BY <1>3, <2>1, <3>1, Zenon, ZenonT(60)
<1>4. ASSUME NEW t \in Slots, todo = <<Adopt(t)>>
      PROVE  FALSE
  BY <1>1, <1>4, CallTuples, CallFields
<1>5. ASSUME NEW c \in Conns,
             \/ todo = <<OnConn("recv", c)>>
             \/ todo = <<OnConn("close", c)>>
             \/ todo = <<OnConn("send", c), OnConn("close", c)>>
      PROVE  ~In(Rest(todo), AdoptAt(s)) /\ ~In(todo, AdoptAt(s))
  <2>1. Rest(todo) = <<>> \/ Rest(todo) = <<OnConn("close", c)>>
    BY <1>5, ConnRests, Zenon, ZenonT(60)
  <2>2. /\ ~In(<<>>, AdoptAt(s)) /\ ~In(<<OnConn("close", c)>>, AdoptAt(s))
        /\ ~In(<<OnConn("recv", c)>>, AdoptAt(s))
        /\ ~In(<<OnConn("send", c), OnConn("close", c)>>, AdoptAt(s))
    BY AdoptLists, Zenon, ZenonT(60)
  <2>3. QED
    BY <1>5, <2>1, <2>2, Zenon, ZenonT(60)
<1>6. QED
  BY <1>1, <1>2, <1>3, <1>4, <1>5, HandlerCallsShape, Zenon, ZenonT(60)

\* Consuming an SQE posts no completion, or a failed one.
LEMMA IssuePosts ==
  ASSUME sq # <<>>, Head(sq) \in Sqe,
         IssueAccept \/ IssueRecv \/ IssueSend \/ IssueClose
  PROVE  cq' = cq \/ \E e \in Cqe : ~e.ok /\ cq' = Append(cq, e)
<1>1. /\ NullCqe \in Cqe /\ ~NullCqe.ok
      /\ AcceptCqe(NoSlot, FALSE) \in Cqe /\ ~AcceptCqe(NoSlot, FALSE).ok
      /\ \A c \in Conns : RecvCqe(c, FALSE) \in Cqe /\ ~RecvCqe(c, FALSE).ok
  BY CqeFacts, Zenon, ZenonT(60) DEF NullCqe, AcceptCqe, RecvCqe
<1>2. CASE IssueAccept \/ IssueSend \/ IssueClose
  BY <1>1, <1>2, Zenon, ZenonT(60) DEF IssueAccept, IssueSend, IssueClose
<1>3. CASE IssueRecv
  <2>1. Head(sq).conn \in Conns
    BY <1>3, SqeFacts, Zenon, ZenonT(60) DEF IssueRecv, Issue
  <2>2. cq' = cq \/ cq' = Append(cq, RecvCqe(Head(sq).conn, FALSE))
    BY <1>3, Zenon DEF IssueRecv
  <2>3. QED
    BY <1>1, <2>1, <2>2, Zenon
<1>4. QED
  BY <1>2, <1>3

\* Every step keeps the descriptors held.
LEMMA HeldNext == TypeInv /\ Own /\ Emptied /\ Held /\ [Next]_vars => Held'
\* Steps that move no descriptor.
<1>HeldSame.
    ASSUME Held, pc # "torn", pc' = "prep" => pc = "prep",
           UNCHANGED <<direct, file>>, given_up \subseteq given_up',
           \A s \in Slots :
             /\ Accepted(s)' <=> Accepted(s)
             /\ Adopting(s)' <=> Adopting(s)
             /\ Closing(s)' <=> Closing(s)
             /\ Once(cq', AcceptedAt(s)) /\ Once(sq', CloseAt(s)),
           \A c \in Conns : (Live(c)' <=> Live(c)) /\ fd'[c] = fd[c]
    PROVE  Held'
  <2> USE <1>HeldSame
  <2>1. \A s \in Slots : Owned(s)' <=> Owned(s)
    BY Zenon, ZenonT(60) DEF Owned
  <2>2. ASSUME NEW s \in Slots PROVE (OneHolder(s) /\ NotLost(s))'
    <3>1. OneHolder(s) /\ NotLost(s)
      BY Zenon, ZenonT(60) DEF Held
    <3>2. OneHolder(s)'
      BY <2>1, <3>1, Zenon, ZenonT(60) DEF OneHolder, HeldAt
    <3>3. NotLost(s)'
      BY <2>1, <3>1, Zenon, ZenonT(60) DEF NotLost, HeldAt
    <3>4. QED
      BY <3>2, <3>3, Zenon, ZenonT(60)
  <2>3. QED
    BY <2>2, Zenon, ZenonT(60) DEF Held
\* Steps that touch neither a queue, a conn nor a descriptor.
<1>HeldControl.
    ASSUME TypeInv, Held,
           \/ RingInitFails \/ StopSeen \/ Enter \/ EnterFails \/ EnterReturns
           \/ EnterTimesOut \/ BatchDone \/ Flush \/ FlushReturns
           \/ fa_server_stop \/ UNCHANGED vars
           \/ \E k \in Clients : Connect(k) \/ Write(k)
    PROVE  Held'
  <2> USE <1>HeldControl
  <2> USE DEF workerVars, clientVars, ringVars
  <2>1. /\ UNCHANGED <<freelist, heap, fd, direct, sq, cq, todo, file, given_up>>
        /\ pc' = "prep" \/ pc' = "torn" => pc' = pc
        /\ pc = "torn" => pc' = pc
    BY Zenon, ZenonT(60)
       DEF RingInitFails, StopSeen, Enter, EnterFails, EnterReturns, Connect,
           EnterTimesOut, BatchDone, Flush, FlushReturns, HelperRuns,
           fa_server_stop, Write, vars
  <2>2. CASE pc = "torn"
    BY <2>1, <2>2 DEF Held
  <2>3. CASE pc # "torn"
    <3>1. \A s \in Slots : OneHolder(s)
      BY <2>3 DEF Held
    <3>2. QED
      BY <2>1, <2>3, <3>1, <1>HeldSame, Zenon, ZenonT(60)
         DEF Accepted, Adopting, Closing, OneHolder, Live
  <2>4. QED
    BY <2>2, <2>3
\* The start of the thread.
<1>HeldEntry.
    ASSUME TypeInv, Own, Held, fa_thread_entry
    PROVE  Held'
  <2> USE <1>HeldEntry
  <2>1. /\ pc = "prep" /\ pc' = "loop" /\ sq' = <<fa_arm_accept>>
        /\ UNCHANGED <<cq, todo, file>> /\ WarmFreelist
    BY DEF fa_thread_entry
  <2>2. cq = <<>> /\ todo = <<>> /\ \A s \in Slots : file[s] = Nobody
    BY <2>1 DEF Own, Homes, Held
  <2>3. \A c : ~Live(c)'
    <3>1. heap' = Range(freelist')
      BY <2>1 DEF WarmFreelist
    <3>2. QED
      BY <3>1 DEF Range, Has, Live
  <2>4. ASSUME NEW s \in Slots PROVE (OneHolder(s) /\ NotLost(s))'
    <3>1. ~Closing(s)' /\ Once(sq', CloseAt(s))
      <4>1. fa_arm_accept \notin CloseAt(s)
        BY SqeFacts, SlotEntries, Zenon, ZenonT(60)
      <4>2. QED
        BY <2>1, <4>1, ShortIn, Zenon, ZenonT(60) DEF Closing
    <3>2. ~Accepted(s)' /\ ~Adopting(s)' /\ Once(cq', AcceptedAt(s))
      BY <2>1, <2>2, ShortIn DEF Accepted, Adopting
    <3>3. ~Owned(s)' /\ file'[s] = Nobody
      BY <2>1, <2>2, <2>3 DEF Owned
    <3>4. QED
      BY <2>3, <3>1, <3>2, <3>3, Zenon, ZenonT(60) DEF OneHolder, NotLost, HeldAt
  <2>5. QED
    BY <2>1, <2>4 DEF Held
\* The handlers: an accepted descriptor passes to the handler.
<1>HeldHandlers.
    ASSUME TypeInv, Held,
           HandleNull \/ HandleAccept \/ HandleRecvFailed \/ HandleRequest
    PROVE  Held'
  <2> USE <1>HeldHandlers
  <2>1. /\ pc = "drain" /\ todo = <<>> /\ cq # <<>> /\ cq' = Tail(cq)
        /\ UNCHANGED <<pc, freelist, heap, fd, direct, sq, file>>
        /\ cq \in Seq(Cqe) /\ Head(cq) \in Cqe
    BY HandlersFrame
  <2>2. \A s \in Slots : OneHolder(s) /\ NotLost(s)
    BY <2>1 DEF Held
  <2>3. \A s \in Slots :
          /\ Accepted(s) <=> Head(cq) \in AcceptedAt(s) \/ Accepted(s)'
          /\ Once(cq', AcceptedAt(s)) /\ Once(sq', CloseAt(s))
          /\ ~(Head(cq) \in AcceptedAt(s) /\ Accepted(s)')
          /\ ~Adopting(s)
          /\ Closing(s)' <=> Closing(s)
    BY <2>1, <2>2, TailIn, ShortIn, Zenon, ZenonT(60)
       DEF Accepted, Adopting, Closing, OneHolder
  <2>4. \A c \in Conns : (Live(c)' <=> Live(c)) /\ fd'[c] = fd[c]
    BY <2>1 DEF Live
  <2>5. \A s \in Slots : Adopting(s)' <=> Head(cq) \in AcceptedAt(s)
    BY HandlerAdopts
  <2>6. /\ \A s \in Slots : Owned(s)' <=> Owned(s)
        /\ given_up' = given_up
    <3>1. given_up' = given_up
      BY Zenon, ZenonT(60)
         DEF HandleNull, HandleAccept, HandleRecvFailed, HandleRequest, clientVars
    <3>2. QED
      BY <2>4, <3>1 DEF Owned
  <2>7. ASSUME NEW s \in Slots PROVE (OneHolder(s) /\ NotLost(s))'
    <3>1. OneHolder(s)'
      BY <2>1, <2>2, <2>3, <2>4, <2>5, <2>6, Zenon, ZenonT(60) DEF OneHolder, HeldAt
    <3>2. NotLost(s)'
      BY <2>1, <2>2, <2>3, <2>5, <2>6 DEF NotLost, HeldAt
    <3>3. QED
      BY <3>1, <3>2
  <2>8. QED
    BY <2>1, <2>7 DEF Held
\* A descriptor that is let go, closed unless it is a direct slot.
<1>HeldDrop.
    ASSUME TypeInv, Held, pc = "drain", pc' = pc, NEW s \in Slots,
           UNCHANGED <<direct, sq, cq>>,
           IF direct THEN file' = file ELSE file' = [file EXCEPT ![s] = Nobody],
           direct => ~Fed \/ s \in given_up', given_up \subseteq given_up',
           HeldAt(s), ~Adopting(s)', ~Owned(s)', ~Accepted(s), ~Closing(s),
           \A t \in Slots : t # s => /\ Adopting(t)' <=> Adopting(t)
                                     /\ Owned(t)' <=> Owned(t),
           \A c \in Conns : Live(c)' => Live(c) /\ fd'[c] = fd[c]
    PROVE  Held'
  <2> USE <1>HeldDrop
  <2>1. file \in [Slots -> Clients \cup {Nobody}]
    BY DEF TypeInv, TypeOK
  <2>2. \A t \in Slots : OneHolder(t) /\ NotLost(t)
    BY Zenon, ZenonT(60) DEF Held
  <2>3. \A t \in Slots : (Accepted(t)' <=> Accepted(t)) /\ (Closing(t)' <=> Closing(t))
    BY Zenon, ZenonT(60) DEF Accepted, Closing
  <2>4. \A t \in Slots : /\ t # s => file'[t] = file[t]
                         /\ t = s /\ ~direct => file'[t] = Nobody
    BY <2>1, Zenon, ZenonT(60)
  <2>5. ASSUME NEW t \in Slots PROVE (OneHolder(t) /\ NotLost(t))'
    <3>1. CASE t = s
      <4>1. OneHolder(t)'
        BY <2>2, <2>3, <3>1, Zenon, ZenonT(60) DEF OneHolder, HeldAt
      <4>2. NotLost(t)'
        BY <2>4, <3>1, Zenon, ZenonT(60) DEF NotLost
      <4>3. QED
        BY <4>1, <4>2, Zenon, ZenonT(60)
    <3>2. CASE t # s
      <4>1. OneHolder(t)'
        BY <2>2, <2>3, <2>4, <3>2, Zenon, ZenonT(60) DEF OneHolder, HeldAt
      <4>2. NotLost(t)'
        BY <2>2, <2>3, <2>4, <3>2, Zenon, ZenonT(60) DEF NotLost, HeldAt
      <4>3. QED
        BY <4>1, <4>2, Zenon, ZenonT(60)
    <3>3. QED
      BY <3>1, <3>2, Zenon, ZenonT(60)
  <2>6. QED
    BY <2>5, Zenon, ZenonT(60) DEF Held
\* Adopting a descriptor: it passes to a conn, or is let go.
<1>HeldAdopt.
    ASSUME TypeInv, Own, Held, AdoptConn
    PROVE  Held'
  <2> USE <1>HeldAdopt
  <2>1. /\ pc = "drain" /\ UNCHANGED <<pc, sq, cq, direct>>
        /\ todo # <<>> /\ Head(todo).call = "adopt" /\ todo \in HandlerCalls
        /\ file \in [Slots -> Clients \cup {Nobody}]
        /\ fd \in [Conns -> Slots \cup {NoSlot}]
    BY DEF AdoptConn, TypeInv, TypeOK
  <2>2. PICK s \in Slots : todo = <<Adopt(s)>>
    BY <2>1, HandlerCallsShape, CallTuples, CallFields
  <2>3. Head(todo).slot = s
    BY <2>2, CallTuples, CallFields
  <2>4. \A t \in Slots : Adopting(t) <=> t = s
    BY <2>2, AdoptLists, Zenon, ZenonT(60) DEF Adopting
  <2>5. \A t \in Slots : OneHolder(t) /\ NotLost(t)
    BY <2>1 DEF Held
  <2>6. ~Accepted(s) /\ ~Owned(s) /\ ~Closing(s) /\ file[s] # Nobody
    BY <2>2, <2>4, <2>5, Zenon, ZenonT(60) DEF OneHolder, HeldAt
  <2>7. \A t \in Slots : (Accepted(t)' <=> Accepted(t)) /\ (Closing(t)' <=> Closing(t))
    BY <2>1 DEF Accepted, Closing
  <2>8. ASSUME NEW c \in Conns, fa_conn_alloc(c), fd' = [fd EXCEPT ![c] = s],
               todo' = <<OnConn("recv", c)>>, UNCHANGED <<file, given_up>>
        PROVE  Held'
    <3>1. /\ ~Live(c) /\ Live(c)'
          /\ \A d \in Conns : d # c => (Live(d)' <=> Live(d))
      BY <2>1, <2>8, AllocLive
    <3>2. fd'[c] = s /\ \A d \in Conns : d # c => fd'[d] = fd[d]
      BY <2>1, <2>8
    <3>3. \A t \in Slots : ~Adopting(t)'
      BY <2>8, AdoptLists, Zenon, ZenonT(60) DEF Adopting
    <3>4. UNCHANGED <<file, given_up>>
      BY <2>8
    <3>5. \A t \in Slots : Owned(t)' <=> Owned(t) \/ t = s
      BY <3>1, <3>2, Zenon, ZenonT(60) DEF Owned
    <3>6. ASSUME NEW t \in Slots PROVE (OneHolder(t) /\ NotLost(t))'
      <4>1. \A d, e \in Conns : Live(d)' /\ Live(e)' /\ fd'[d] = t /\ fd'[e] = t
                                => d = e
        <5>1. CASE t = s
          BY <2>6, <3>1, <3>2, <5>1 DEF Owned
        <5>2. CASE t # s
          BY <2>5, <3>1, <3>2, <5>2, Zenon, ZenonT(60) DEF OneHolder
        <5>3. QED
          BY <5>1, <5>2, Zenon, ZenonT(60)
      <4>2. OneHolder(t)'
        BY <2>1, <2>4, <2>5, <2>6, <2>7, <3>3, <3>4, <3>5, <4>1, Zenon, ZenonT(60)
           DEF OneHolder, HeldAt
      <4>3. NotLost(t)'
        BY <2>1, <2>4, <2>5, <2>7, <3>3, <3>4, <3>5, Zenon, ZenonT(60)
           DEF NotLost, HeldAt
      <4>4. QED
        BY <4>2, <4>3
    <3>7. QED
      BY <2>1, <3>6 DEF Held
  <2>9. CASE /\ fa_conn_alloc_fails /\ CloseUnlessDirect(s) /\ todo' = <<>>
             /\ UNCHANGED <<freelist, heap, fd>>
             /\ given_up' = given_up \cup (IF direct THEN {s} ELSE {})
    <3>1. IF direct THEN file' = file ELSE file' = [file EXCEPT ![s] = Nobody]
      BY <2>9 DEF CloseUnlessDirect, Release
    <3>2. /\ direct => s \in given_up'
          /\ given_up \subseteq given_up'
      BY <2>9, Zenon, ZenonT(60)
    <3>3. \A t \in Slots : ~Adopting(t)'
      BY <2>9, AdoptLists DEF Adopting
    <3>4. \A c \in Conns : (Live(c)' <=> Live(c)) /\ fd'[c] = fd[c]
      BY <2>9 DEF Live
    <3>5. \A t \in Slots : Owned(t)' <=> Owned(t)
      BY <3>4, Zenon, ZenonT(60) DEF Owned
    <3>6. HeldAt(s)
      BY <2>2, <2>4 DEF HeldAt
    <3>7. QED
      BY <2>1, <2>2, <2>4, <2>6, <3>1, <3>2, <3>3, <3>4, <3>5, <3>6,
         <1>HeldDrop, Zenon, ZenonT(60)
  <2>10. \/ \E c \in Conns : /\ fa_conn_alloc(c) /\ fd' = [fd EXCEPT ![c] = s]
                             /\ todo' = <<OnConn("recv", c)>>
                             /\ UNCHANGED <<file, given_up>>
         \/ /\ fa_conn_alloc_fails /\ CloseUnlessDirect(s) /\ todo' = <<>>
            /\ UNCHANGED <<freelist, heap, fd>>
            /\ given_up' = given_up \cup (IF direct THEN {s} ELSE {})
    BY <2>3, Zenon, ZenonT(60) DEF AdoptConn
  <2>11. QED
    BY <2>8, <2>9, <2>10, Zenon
\* Preparing an SQE: the descriptor of a close passes from the conn to the SQ.
<1>HeldPrepSqe.
    ASSUME TypeInv, Own, Held, PrepSqe
    PROVE  Held'
  <2> USE <1>HeldPrepSqe
  <2> DEFINE e == Prep(Head(todo))
  <2>1. /\ UNCHANGED <<pc, heap, cq, fd, direct, file, given_up>> /\ todo' = Rest(todo)
        /\ HelperRuns /\ pc = "drain"
        /\ fd \in [Conns -> Slots \cup {NoSlot}]
    BY Zenon, ZenonT(60) DEF PrepSqe, HelperRuns, Rest, TypeInv, TypeOK, clientVars
  <2>2. e \in Sqe /\ sq' = Append(sq, e) /\ sq \in Seq(Sqe)
    BY TypePrepSqe, Zenon, ZenonT(60) DEF TypeInv, TypeOK
  <2>3. \A s \in Slots : OneHolder(s) /\ NotLost(s)
    BY <2>1 DEF Held
  <2>4. \A s \in Slots :
          /\ Closing(s)' <=> Closing(s) \/ e \in CloseAt(s)
          /\ ~(Closing(s) /\ e \in CloseAt(s)) => Once(sq', CloseAt(s))
          /\ Accepted(s)' <=> Accepted(s)
          /\ Once(cq', AcceptedAt(s))
          /\ Adopting(s)' <=> Adopting(s)
    BY <2>1, <2>2, <2>3, AppendIn, HelperAdopts, Zenon, ZenonT(60)
       DEF Closing, Accepted, Adopting, OneHolder
  <2>5. CASE Head(todo).call # "close"
    <3>1. freelist' = freelist
      BY <2>5 DEF PrepSqe
    <3>2. e.op # "close"
      <4>1. Head(todo).call \in {"arm", "recv", "send"}
        BY <2>1, <2>5, HelperCall, Zenon
      <4>2. QED
        BY <4>1 DEF Prep, fa_arm_accept, fa_submit_recv, fa_submit_reply
    <3>3. \A s \in Slots : e \notin CloseAt(s)
      BY <2>2, <3>2, SlotEntries, Zenon, ZenonT(60)
    <3>4. \A c \in Conns : (Live(c)' <=> Live(c)) /\ fd'[c] = fd[c]
      BY <2>1, <3>1 DEF Live
    <3> HIDE DEF e
    <3>5. QED
      BY <2>1, <2>4, <3>3, <3>4, <1>HeldSame, Zenon, ZenonT(60)
  <2>6. CASE Head(todo).call = "close"
    <3>1. PICK c \in Conns : /\ fd[c] \in Slots /\ HasConn(todo, c)
                             /\ Head(todo).conn = c
      BY <2>1, <2>6, HelperCall, Zenon
    <3>2. freelist' = <<c>> \o freelist
      BY <2>6, <3>1, Zenon, ZenonT(60) DEF PrepSqe, fa_conn_free
    <3>3. /\ Live(c) /\ ~Live(c)'
          /\ \A d \in Conns : d # c => (Live(d)' <=> Live(d))
      BY <2>1, <3>1, <3>2, FreeLive
    <3>4. e.op = "close" /\ e.slot = fd[c]
      BY <2>6, <3>1 DEF Prep, fa_submit_close
    <3>5. \A s \in Slots : e \in CloseAt(s) <=> s = fd[c]
      BY <2>2, <3>4, SlotEntries, Zenon, ZenonT(60)
    <3>6. \A s \in Slots : Owned(s)' <=> Owned(s) /\ s # fd[c]
      BY <2>1, <2>3, <3>3, Zenon, ZenonT(60) DEF Owned, OneHolder
    <3>7. Owned(fd[c])
      BY <3>3 DEF Owned
    <3> HIDE DEF e
    <3>8. ASSUME NEW s \in Slots PROVE (OneHolder(s) /\ NotLost(s))'
      <4>1. Once(sq', CloseAt(s))
        BY <2>3, <2>4, <3>5, <3>7, Zenon, ZenonT(60) DEF OneHolder
      <4>2. \A d, f \in Conns : Live(d)' /\ Live(f)' /\ fd'[d] = s /\ fd'[f] = s
                                => d = f
        BY <2>1, <2>3, <3>3, Zenon, ZenonT(60) DEF OneHolder
      <4>3. OneHolder(s)'
        BY <2>1, <2>3, <2>4, <3>1, <3>5, <3>6, <3>7, <4>1, <4>2, Zenon, ZenonT(60)
           DEF OneHolder, HeldAt
      <4>4. NotLost(s)'
        BY <2>1, <2>3, <2>4, <3>5, <3>6, Zenon, ZenonT(60) DEF NotLost, HeldAt
      <4>5. QED
        BY <4>3, <4>4
    <3>9. QED
      BY <2>1, <3>8 DEF Held
  <2>7. QED
    BY <2>5, <2>6
\* Giving up on a conn lets its descriptor go.
<1>HeldFallback.
    ASSUME TypeInv, Own, Emptied, Held, Fallback
    PROVE  Held'
  <2> USE <1>HeldFallback
  <2>1. /\ UNCHANGED <<pc, heap, sq, cq, fd, direct, given_up>>
        /\ HelperRuns /\ pc = "drain"
        /\ fd \in [Conns -> Slots \cup {NoSlot}]
    BY Zenon, ZenonT(60) DEF Fallback, HelperRuns, TypeInv, TypeOK, clientVars
  <2>2. ~Fed
    <3>1. Len(sq) \in Nat /\ QueueDepth \in Nat
      BY WorkerAssumption DEF TypeInv, TypeOK
    <3>2. QED
      BY <2>1, <3>1 DEF Emptied, Fallback
  <2>3. \A s \in Slots : OneHolder(s) /\ NotLost(s)
    BY <2>1 DEF Held
  <2>4. \A s \in Slots : (Accepted(s)' <=> Accepted(s)) /\ (Closing(s)' <=> Closing(s))
    BY <2>1, Zenon, ZenonT(60) DEF Accepted, Closing
  <2>5. CASE Head(todo) = Arm
    <3>1. todo' = Rest(todo) /\ UNCHANGED <<freelist, file>>
      BY <2>5, CallFields, Zenon, ZenonT(60) DEF Fallback, Rest
    <3>2. \A s \in Slots : Adopting(s)' <=> Adopting(s)
      BY <2>1, <3>1, HelperAdopts DEF Adopting
    <3>3. \A c \in Conns : (Live(c)' <=> Live(c)) /\ fd'[c] = fd[c]
      BY <2>1, <3>1 DEF Live
    <3>4. \A s \in Slots : Once(cq', AcceptedAt(s)) /\ Once(sq', CloseAt(s))
      BY <2>1, <2>3 DEF OneHolder
    <3>5. QED
      BY <2>1, <2>4, <3>1, <3>2, <3>3, <3>4, <1>HeldSame, Zenon, ZenonT(60)
  <2>6. CASE Head(todo) # Arm
    <3>1. PICK c \in Conns : /\ fd[c] \in Slots /\ HasConn(todo, c)
                             /\ Head(todo).conn = c /\ Head(todo).call # "arm"
      BY <2>1, <2>6, HelperCall, Zenon
    <3>2. /\ todo' = <<>> /\ freelist' = <<c>> \o freelist
          /\ IF direct THEN file' = file ELSE file' = [file EXCEPT ![fd[c]] = Nobody]
      BY <3>1, Zenon, ZenonT(60)
         DEF Fallback, fa_conn_free, CloseUnlessDirect, Release
    <3>3. /\ Live(c) /\ ~Live(c)'
          /\ \A d \in Conns : d # c => (Live(d)' <=> Live(d))
      BY <2>1, <3>1, <3>2, FreeLive, Zenon, ZenonT(60)
    <3>4. \A s \in Slots : Owned(s)' <=> Owned(s) /\ s # fd[c]
      BY <2>1, <2>3, <3>3 DEF Owned, OneHolder
    <3>5. Owned(fd[c])
      BY <3>3 DEF Owned
    <3>6. \A s \in Slots : ~Adopting(s)' /\ ~Adopting(s)
      BY <2>1, <2>6, <3>2, AdoptLists, HelperAdopts DEF Adopting
    <3>7. HeldAt(fd[c]) /\ ~Accepted(fd[c]) /\ ~Closing(fd[c])
      BY <2>3, <3>1, <3>5, Zenon, ZenonT(60) DEF OneHolder, HeldAt
    <3>8. \A d \in Conns : Live(d)' => Live(d) /\ fd'[d] = fd[d]
      BY <2>1, <3>3
    <3>9. QED
      BY <2>1, <2>2, <3>1, <3>2, <3>4, <3>6, <3>7, <3>8, <1>HeldDrop, Zenon, ZenonT(60)
  <2>7. QED
    BY <2>5, <2>6
\* The kernel consumes an SQE: only a close does anything to a descriptor.
<1>HeldIssue.
    ASSUME TypeInv, Held, IssueAccept \/ IssueRecv \/ IssueSend \/ IssueClose
    PROVE  Held'
  <2> USE <1>HeldIssue
  <2>1. PICK op : Issue(op)
    BY Zenon, ZenonT(60) DEF IssueAccept, IssueRecv, IssueSend, IssueClose
  <2>2. /\ pc \in {"enter", "flush"} /\ sq # <<>> /\ sq' = Tail(sq)
        /\ UNCHANGED <<pc, freelist, heap, todo, fd, direct, given_up>>
        /\ sq \in Seq(Sqe) /\ cq \in Seq(Cqe) /\ Head(sq) \in Sqe
        /\ file \in [Slots -> Clients \cup {Nobody}]
    BY <2>1, IssueShape, Zenon, ZenonT(60) DEF Issue, TypeInv, TypeOK, clientVars
  <2>3. \A s \in Slots : OneHolder(s) /\ NotLost(s)
    BY <2>2 DEF Held
  <2>4. \A s \in Slots :
          /\ Closing(s) <=> Head(sq) \in CloseAt(s) \/ Closing(s)'
          /\ Once(sq', CloseAt(s))
          /\ ~(Head(sq) \in CloseAt(s) /\ Closing(s)')
          /\ Adopting(s)' <=> Adopting(s)
    BY <2>2, <2>3, TailIn, Zenon, ZenonT(60) DEF Closing, OneHolder, Adopting
  <2>5. \A c \in Conns : (Live(c)' <=> Live(c)) /\ fd'[c] = fd[c]
    BY <2>2 DEF Live
  <2>6. \A s \in Slots : (Accepted(s)' <=> Accepted(s)) /\ Once(cq', AcceptedAt(s))
    <3>1. cq' = cq \/ \E e \in Cqe : ~e.ok /\ cq' = Append(cq, e)
      BY <2>2, IssuePosts
    <3>2. CASE cq' = cq
      BY <2>3, <3>2, Zenon, ZenonT(60) DEF Accepted, OneHolder
    <3>3. ASSUME NEW e \in Cqe, ~e.ok, cq' = Append(cq, e)
          PROVE  \A s \in Slots : /\ Accepted(s)' <=> Accepted(s)
                                  /\ Once(cq', AcceptedAt(s))
      <4> TAKE s \in Slots
      <4>1. Once(cq, AcceptedAt(s))
        BY <2>3, Zenon, ZenonT(60) DEF OneHolder
      <4>2. e \notin AcceptedAt(s)
        BY <3>3, SlotEntries, Zenon
      <4>3. /\ In(cq', AcceptedAt(s)) <=> In(cq, AcceptedAt(s))
            /\ Once(cq', AcceptedAt(s))
        BY <2>2, <3>3, <4>1, <4>2, AppendIn, Zenon
      <4>4. QED
        BY <4>3 DEF Accepted, AcceptedAt
    <3>4. QED
      BY <3>1, <3>2, <3>3
  <2>7. CASE IssueAccept \/ IssueRecv \/ IssueSend
    <3>1. Head(sq).op # "close" /\ file' = file
      BY <2>7, Zenon, ZenonT(60) DEF IssueAccept, IssueRecv, IssueSend, Issue
    <3>2. \A s \in Slots : Head(sq) \notin CloseAt(s)
      BY <2>2, <3>1, SlotEntries, Zenon, ZenonT(60)
    <3>3. QED
      BY <2>2, <2>4, <2>5, <2>6, <3>1, <3>2, <1>HeldSame, Zenon, ZenonT(60)
  <2>8. CASE IssueClose
    <3> DEFINE t == Head(sq).slot
    <3>1. Head(sq).op = "close" /\ t \in Slots
      BY <2>2, <2>8, SqeFacts, Zenon, ZenonT(60) DEF IssueClose, Issue
    <3>2. file' = [file EXCEPT ![t] = Nobody]
      BY <2>8, Zenon, ZenonT(60) DEF IssueClose, Release
    <3>3. \A s \in Slots : Head(sq) \in CloseAt(s) <=> s = t
      BY <2>2, <3>1, SlotEntries, Zenon, ZenonT(60)
    <3>4. \A s \in Slots : Owned(s)' <=> Owned(s)
      BY <2>5 DEF Owned
    <3>5. file'[t] = Nobody /\ \A s \in Slots : s # t => file'[s] = file[s]
      BY <2>2, <3>1, <3>2, Zenon, ZenonT(60)
    <3> HIDE DEF t
    <3>6. ASSUME NEW s \in Slots PROVE (OneHolder(s) /\ NotLost(s))'
      <4>1. OneHolder(s)'
        BY <2>3, <2>4, <2>5, <2>6, <3>3, <3>4, <3>5, Zenon, ZenonT(60)
           DEF OneHolder, HeldAt
      <4>2. NotLost(s)'
        BY <2>2, <2>3, <2>4, <2>6, <3>3, <3>4, <3>5, Zenon, ZenonT(60)
           DEF NotLost, HeldAt
      <4>3. QED
        BY <4>1, <4>2
    <3>7. QED
      BY <2>2, <3>6 DEF Held
  <2>9. QED
    BY <2>7, <2>8
\* A completion: the kernel opens a free descriptor for an accepted connection.
<1>HeldCompletes.
    ASSUME TypeInv, Held, AcceptCompletes \/ AcceptFails \/ RecvCompletes
    PROVE  Held'
  <2> USE <1>HeldCompletes
  <2>1. /\ UNCHANGED <<pc, freelist, heap, todo, sq, fd, direct, given_up>>
        /\ pc \notin {"prep", "torn"}
        /\ cq \in Seq(Cqe) /\ file \in [Slots -> Clients \cup {Nobody}]
    BY Zenon, ZenonT(60)
       DEF AcceptCompletes, AcceptFails, RecvCompletes, Completes, workerVars,
           TypeInv, TypeOK, clientVars
  <2>2. \A s \in Slots : OneHolder(s) /\ NotLost(s)
    BY <2>1 DEF Held
  <2>3. \A s \in Slots : /\ Adopting(s)' <=> Adopting(s)
                         /\ Closing(s)' <=> Closing(s)
                         /\ Once(sq', CloseAt(s))
    BY <2>1, <2>2, Zenon, ZenonT(60) DEF Adopting, Closing, OneHolder
  <2>4. \A c \in Conns : (Live(c)' <=> Live(c)) /\ fd'[c] = fd[c]
    BY <2>1 DEF Live
  <2>5. CASE AcceptFails \/ RecvCompletes
    <3>1. file' = file
      BY <2>5, Zenon, ZenonT(60) DEF AcceptFails, RecvCompletes
    <3>2. PICK e \in Cqe : /\ \A s \in Slots : e \notin AcceptedAt(s)
                           /\ cq' = Append(cq, e)
      <4>1. CASE AcceptFails
        <5>1. /\ AcceptCqe(NoSlot, FALSE) \in Cqe
              /\ \A s \in Slots : AcceptCqe(NoSlot, FALSE) \notin AcceptedAt(s)
          BY WorkerAssumption, CqeFacts, Zenon, ZenonT(60) DEF AcceptedAt, AcceptCqe
        <5>2. QED
          BY <4>1, <5>1, Zenon, ZenonT(60) DEF AcceptFails
      <4>2. CASE RecvCompletes
        <5>1. PICK r \in recvs :
                cq' = Append(cq, RecvCqe(r.conn, peer[r.client] = "request"))
          BY <4>2, Zenon, ZenonT(60) DEF RecvCompletes
        <5> DEFINE got == peer[r.client] = "request"
        <5>2. /\ r.conn \in Conns /\ got \in BOOLEAN
              /\ cq' = Append(cq, RecvCqe(r.conn, got))
          BY <5>1, Zenon, ZenonT(60) DEF TypeInv, TypeOK, Recv
        <5> HIDE DEF got
        <5>3. RecvCqe(r.conn, got) \in Cqe /\ RecvCqe(r.conn, got).kind = "recv"
          BY <5>2, CqeFacts, Zenon, ZenonT(60) DEF RecvCqe
        <5>4. QED
          BY <5>2, <5>3, SlotEntries, Zenon, ZenonT(60)
      <4>3. QED
        BY <2>5, <4>1, <4>2
    <3>3. \A s \in Slots : (Accepted(s)' <=> Accepted(s)) /\ Once(cq', AcceptedAt(s))
      BY <2>1, <2>2, <3>2, AppendIn, Zenon, ZenonT(60) DEF Accepted, OneHolder
    <3>4. QED
      BY <2>1, <2>3, <2>4, <3>1, <3>3, <1>HeldSame, Zenon, ZenonT(60)
  <2>6. CASE AcceptCompletes
    <3>1. PICK t \in Slots, more \in BOOLEAN :
            /\ file[t] = Nobody
            /\ file' = [file EXCEPT ![t] = Head(backlog)]
            /\ cq' = Append(cq, AcceptCqe(t, more))
      BY <2>6, Zenon, ZenonT(60) DEF AcceptCompletes
    <3>2. PICK e \in Cqe : /\ \A s \in Slots : e \in AcceptedAt(s) <=> s = t
                           /\ cq' = Append(cq, e)
      BY <3>1, SlotEntries, CqeFacts, Zenon, ZenonT(60)
    <3>3. /\ file'[t] # Nobody
          /\ \A s \in Slots : s # t => file'[s] = file[s]
      <4>1. Head(backlog) \in Clients
        <5>1. backlog \in Seq(Clients)
          BY Zenon, ZenonT(60) DEF TypeInv, TypeOK
        <5>2. backlog # <<>>
          BY <2>6, Zenon, ZenonT(60) DEF AcceptCompletes
        <5>3. QED
          BY <5>1, <5>2
      <4>2. QED
        BY <2>1, <3>1, <4>1, WorkerAssumption, Zenon, ZenonT(60)
    <3>4. ~HeldAt(t)
      BY <2>2, <3>1, Zenon, ZenonT(60) DEF OneHolder
    <3>5. ASSUME NEW s \in Slots
          PROVE  (Accepted(s)' <=> Accepted(s) \/ s = t) /\ Once(cq', AcceptedAt(s))
      <4>1. Once(cq, AcceptedAt(s))
        BY <2>2, Zenon, ZenonT(60) DEF OneHolder
      <4>2. ~(In(cq, AcceptedAt(s)) /\ s = t)
        BY <3>4, Zenon, ZenonT(60) DEF HeldAt, Accepted
      <4>3. /\ In(cq', AcceptedAt(s)) <=> In(cq, AcceptedAt(s)) \/ e \in AcceptedAt(s)
            /\ Once(cq, AcceptedAt(s)) /\ ~(In(cq, AcceptedAt(s)) /\ e \in AcceptedAt(s))
                 => Once(cq', AcceptedAt(s))
        BY <2>1, <3>2, AppendIn, Zenon, ZenonT(60)
      <4>4. e \in AcceptedAt(s) <=> s = t
        BY <3>2, Zenon, ZenonT(60)
      <4>5. Accepted(s)' <=> In(cq', AcceptedAt(s))
        BY Zenon, ZenonT(60) DEF Accepted
      <4>6. QED
        BY <4>1, <4>2, <4>3, <4>4, <4>5, Zenon, ZenonT(60) DEF Accepted
    <3>6. \A s \in Slots : Owned(s)' <=> Owned(s)
      BY <2>4, Zenon, ZenonT(60) DEF Owned
    <3>7. ASSUME NEW s \in Slots PROVE (OneHolder(s) /\ NotLost(s))'
      <4>1. OneHolder(s)'
        BY <2>2, <2>3, <2>4, <3>3, <3>4, <3>5, <3>6, Zenon, ZenonT(60)
           DEF OneHolder, HeldAt
      <4>2. NotLost(s)'
        BY <2>1, <2>2, <2>3, <3>3, <3>5, <3>6, Zenon, ZenonT(60) DEF NotLost, HeldAt
      <4>3. QED
        BY <4>1, <4>2
    <3>8. QED
      BY <2>1, <3>7 DEF Held
  <2>7. QED
    BY <2>5, <2>6
<1> SUFFICES ASSUME TypeInv, Own, Emptied, Held, [Next]_vars PROVE Held'
  OBVIOUS
<1>1. CASE Teardown
  BY <1>1, Zenon, ZenonT(60) DEF Teardown, Held
<1>2. CASE WorkerStep /\ ~Teardown
  BY <1>2, <1>HeldControl, <1>HeldEntry, <1>HeldHandlers, <1>HeldAdopt, <1>HeldPrepSqe,
     <1>HeldFallback, <1>HeldIssue, Zenon, ZenonT(60) DEF WorkerStep
<1>3. CASE AcceptCompletes \/ AcceptFails \/ RecvCompletes
  BY <1>3, <1>HeldCompletes
<1>4. CASE \/ fa_server_stop \/ UNCHANGED vars
           \/ \E k \in Clients : Connect(k) \/ Write(k)
  BY <1>4, <1>HeldControl
<1>5. QED
  BY <1>1, <1>2, <1>3, <1>4 DEF Next

\* At the start no descriptor is open.
LEMMA HeldInit == Init => Held
<1> SUFFICES ASSUME Init, NEW s \in Slots
             PROVE  file[s] = Nobody /\ OneHolder(s) /\ NotLost(s)
  BY DEF Held
<1>1. file[s] = Nobody
  BY DEF Init
<1>2. ~HeldAt(s) /\ Once(cq, AcceptedAt(s)) /\ Once(sq, CloseAt(s))
      /\ \A c : ~Live(c)
  BY ShortIn, Zenon, ZenonT(60)
     DEF Init, HeldAt, Accepted, Adopting, Owned, Closing, Live
<1>3. QED
  BY <1>1, <1>2, Zenon, ZenonT(60) DEF OneHolder, NotLost, HeldAt

\* The holders the runs enumerate are the holders of the invariant.
LEMMA HoldersMean ==
  ASSUME TypeInv, Own, pc # "torn", NEW s \in Slots, OneHolder(s)
  PROVE  /\ Holders(s) # {} <=> HeldAt(s)
         /\ \A p, q \in Holders(s) : p = q
<1>1. /\ sq \in Seq(Sqe) /\ cq \in Seq(Cqe) /\ todo \in HandlerCalls
      /\ heap \subseteq Conns
  BY DEF TypeInv, TypeOK
<1> DEFINE A == {<<"accepted", i>> : i \in {j \in DOMAIN cq :
                                     cq[j].kind = "accept" /\ cq[j].slot = s}}
           T == {<<"adopting", i>> : i \in {j \in DOMAIN todo : todo[j].slot = s}}
           C == {<<"conn", c>> : c \in {x \in LiveConns : fd[x] = s}}
           Q == {<<"closing", i>> : i \in {j \in DOMAIN sq :
                                    sq[j].op = "close" /\ sq[j].slot = s}}
<1>2. (A # {} <=> Accepted(s)) /\ \A p, q \in A : p = q
  <2>1. \A j \in DOMAIN cq : cq[j].kind = "accept" /\ cq[j].slot = s
                             <=> cq[j] \in AcceptedAt(s)
    <3>1. \A j \in DOMAIN cq : cq[j] \in Cqe
      BY <1>1
    <3>2. QED
      BY <3>1, SlotEntries, Zenon
  <2>2. A = {<<"accepted", i>> : i \in {j \in DOMAIN cq : cq[j] \in AcceptedAt(s)}}
    BY <2>1, Zenon
  <2> HIDE DEF A
  <2>3. QED
    BY <2>2, Zenon, ZenonT(60) DEF Accepted, In, Once, OneHolder
<1>3. (Q # {} <=> Closing(s)) /\ \A p, q \in Q : p = q
  <2>1. \A j \in DOMAIN sq : sq[j].op = "close" /\ sq[j].slot = s
                             <=> sq[j] \in CloseAt(s)
    <3>1. \A j \in DOMAIN sq : sq[j] \in Sqe
      BY <1>1
    <3>2. QED
      BY <3>1, SlotEntries, Zenon
  <2>2. Q = {<<"closing", i>> : i \in {j \in DOMAIN sq : sq[j] \in CloseAt(s)}}
    BY <2>1, Zenon
  <2> HIDE DEF Q
  <2>3. QED
    BY <2>2, Zenon, ZenonT(60) DEF Closing, In, Once, OneHolder
<1>4. (T # {} <=> Adopting(s)) /\ \A p, q \in T : p = q
  <2>1. \A j \in DOMAIN todo : todo[j].slot = s <=> todo[j] \in AdoptAt(s)
    BY <1>1, AdoptCalls, Zenon, ZenonT(60)
  <2>2. Once(todo, AdoptAt(s))
    <3>1. CASE todo = <<>> \/ \E a : todo = <<a>>
      BY <3>1, ShortIn
    <3>2. ASSUME NEW t \in Slots, todo = <<Arm, Adopt(t)>>
          PROVE  Once(todo, AdoptAt(s))
      BY <3>2, ShortIn, SlotEntries, Zenon, ZenonT(60)
    <3>3. ASSUME NEW c \in Conns, todo = <<OnConn("send", c), OnConn("close", c)>>
          PROVE  Once(todo, AdoptAt(s))
      <4> DEFINE a == OnConn("send", c)
                 b == OnConn("close", c)
      <4>1. a \notin AdoptAt(s) /\ todo = <<a, b>>
        BY <3>3, OnConnAdopts, Zenon
      <4> HIDE DEF a, b
      <4>2. QED
        BY <4>1, ShortIn, Zenon, ZenonT(60)
    <3>4. QED
      BY <1>1, <3>1, <3>2, <3>3, HandlerCallsShape, Zenon, ZenonT(60)
  <2>3. T = {<<"adopting", i>> : i \in {j \in DOMAIN todo : todo[j] \in AdoptAt(s)}}
    BY <2>1, Zenon
  <2> HIDE DEF T
  <2>4. QED
    BY <2>2, <2>3, Zenon, ZenonT(60) DEF Adopting, In, Once
<1>5. (C # {} <=> Owned(s)) /\ \A p, q \in C : p = q
  <2>1. \A x \in Conns : x \in LiveConns <=> Live(x)
    BY DEF LiveConns, Live, Range, Has
  <2>2. C = {<<"conn", c>> : c \in {x \in Conns : Live(x) /\ fd[x] = s}}
    BY <1>1, <2>1, Zenon, ZenonT(60) DEF LiveConns
  <2> HIDE DEF C
  <2>3. QED
    BY <2>2, Zenon, ZenonT(60) DEF Owned, OneHolder
<1>6. Holders(s) = A \cup T \cup C \cup Q
  BY Zenon, ZenonT(60) DEF Holders
<1> HIDE DEF A, T, C, Q
<1>7. QED
  BY <1>2, <1>3, <1>4, <1>5, <1>6, Zenon, ZenonT(60) DEF OneHolder, HeldAt

\* A descriptor is used by one connection at a time, whatever fails: an accept
\* completion, a conn, the handler or a queued close holds it alone, and only
\* while it is open.  The close that is queued after the conn has been freed
\* never closes the connection accepted into a reused descriptor.
THEOREM DescriptorsExclusive == Spec => []DescriptorExclusive
<1>1. TypeInv /\ Own /\ Held => DescriptorExclusive
  <2> SUFFICES ASSUME TypeInv, Own, Held, pc # "torn", NEW s \in Slots
               PROVE  /\ Holders(s) # {} => file[s] # Nobody
                      /\ \A p, q \in Holders(s) : p = q
    BY DEF DescriptorExclusive
  <2>1. OneHolder(s)
    BY DEF Held
  <2>2. QED
    BY <2>1, HoldersMean, Zenon, ZenonT(60) DEF OneHolder
<1>2. QED
  BY <1>1, TypeInit, TypeNext, OwnInit, OwnNext, StandingInit, EmptiedNext,
     HeldInit, HeldNext, PTL DEF Spec

\* No open descriptor is forgotten: something that will close it holds it, on
\* a kernel that consumes what is submitted, or whatever fails while the worker
\* uses regular descriptors.  The one exception is the code's own, a direct
\* slot that was accepted when there was no memory for its conn.
THEOREM NoDescriptorLost == Spec => [](Fed \/ ~direct => DescriptorsAccounted)
<1>1. TypeInv /\ Own /\ Held => (Fed \/ ~direct => DescriptorsAccounted)
  <2> SUFFICES ASSUME TypeInv, Own, Held, Fed \/ ~direct, pc # "torn",
                      NEW s \in Slots, file[s] # Nobody
               PROVE  Holders(s) # {} \/ s \in given_up
    BY DEF DescriptorsAccounted
  <2>1. OneHolder(s) /\ NotLost(s)
    BY DEF Held
  <2>2. QED
    BY <2>1, HoldersMean DEF NotLost
<1>2. QED
  BY <1>1, TypeInit, TypeNext, OwnInit, OwnNext, StandingInit, EmptiedNext,
     HeldInit, HeldNext, PTL DEF Spec

=============================================================================
