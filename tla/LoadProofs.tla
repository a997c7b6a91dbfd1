----------------------------- MODULE LoadProofs -----------------------------
(***************************************************************************)
(* What one thread of the load generator guarantees about its counters,    *)
(* for every configuration and any number of connections: each connection  *)
(* is counted once, the in-flight count is exact, the open loop keeps to   *)
(* its rate, the histogram holds every completed connection, and every     *)
(* completed connection has been checked.  And what main makes of it, for  *)
(* any number of threads: the shares cover the target, the report adds up  *)
(* every thread, and the percentiles are those of all connections.         *)
(***************************************************************************)
EXTENDS LoadWorker, LoadMain, FiniteSetTheorems, WellFoundedInduction, TLAPS

\* The backends for a leaf that names none, with longer tries if the first fail.
USE SMTT(20), ZenonT(20), SMTT(120), ZenonT(60), SMTT(60)

\* The types, and the part of InflightIsLive that keeps the counts natural.
Sound == TypeOK /\ InflightIsLive

-----------------------------------------------------------------------------
\* Adding to one reason adds as much to the total (conn_fail, GiveUp).
LEMMA TotalGrows ==
  ASSUME NEW f \in [Reasons -> Nat], NEW r \in Reasons, NEW n \in Nat
  PROVE  /\ Total([f EXCEPT ![r] = @ + n]) = Total(f) + n
         /\ [f EXCEPT ![r] = @ + n] \in [Reasons -> Nat]
  BY DEF Total, Reasons

\* A configuration's fields are natural and its interval positive.
LEMMA ConfigFacts ==
  ASSUME w \in Configs
  PROVE  /\ w.conns \in Nat /\ w.interval \in Nat /\ w.interval > 0
         /\ w.duration \in Nat /\ cap \in Nat
  BY LoadAssumption DEF cap

\* The live connections are finitely many.
LEMMA LiveFinite ==
  ASSUME TypeOK
  PROVE  IsFiniteSet(DOMAIN conn) /\ Cardinality(DOMAIN conn) \in Nat
<1>1. IsFiniteSet(DOMAIN conn)
  BY LoadAssumption, FS_Subset DEF TypeOK
<1>2. QED
  BY <1>1, FS_CardinalityType

\* free: one live connection less.
LEMMA Freed ==
  ASSUME Sound, NEW c \in DOMAIN conn, Free(c)
  PROVE  /\ DOMAIN conn' = DOMAIN conn \ {c} /\ conn' \in [DOMAIN conn' -> Conn]
         /\ Cardinality(DOMAIN conn') = Cardinality(DOMAIN conn) - 1
         /\ Cardinality(DOMAIN conn) > 0
<1>1. DOMAIN conn' = DOMAIN conn \ {c} /\ conn' \in [DOMAIN conn' -> Conn]
  BY DEF Sound, TypeOK, Free
<1>2. /\ IsFiniteSet(DOMAIN conn) /\ Cardinality(DOMAIN conn) \in Nat
      /\ Cardinality(DOMAIN conn \ {c}) = Cardinality(DOMAIN conn) - 1
  BY LiveFinite, FS_RemoveElement DEF Sound
<1>3. Cardinality(DOMAIN conn) # 0
  BY <1>2, FS_EmptySet
<1>4. QED
  BY <1>1, <1>2, <1>3

-----------------------------------------------------------------------------
\* The three ways handle(c) ends.
Outcome(c) ==
  \/ \E s \in 1..2, n \in 0..REQ_LEN, m \in 0..REPLY_LEN : Pending(c, s, n, m)
  \/ \E r \in Reasons : conn_fail(c, r)
  \/ \E y \in Replies : conn_done(c, y)

\* handle leaves its connection pending, failed or done.
LEMMA HandleOutcome ==
  ASSUME Sound, NEW c \in Conns, handle(c)
  PROVE  /\ Event(c) /\ c \in DOMAIN conn /\ Outcome(c)
         /\ sampled_total' \in Nat /\ sampled_bad' \in Nat
<1>1. Event(c) /\ c \in DOMAIN conn
  BY DEF handle, OnError, ConnectFails, WriteStops, ReadStops, ReadWhole,
         Event, Sound, InflightIsLive
<1>2. conn[c] \in Conn /\ sampled_total \in Nat /\ sampled_bad \in Nat
  BY <1>1 DEF Sound, TypeOK
<1>3. CASE OnError(c) \/ ConnectFails(c)
  <2>1. \E r \in Reasons : conn_fail(c, r)
    BY <1>3 DEF OnError, ConnectFails, Reasons
  <2>2. UNCHANGED <<sampled_total, sampled_bad>>
    BY <1>3 DEF OnError, ConnectFails, NoSample
  <2>3. QED
    BY <1>1, <1>2, <2>1, <2>2 DEF Outcome
<1>4. CASE WriteStops(c)
  <2>1. ASSUME NEW n \in conn[c].sent .. (REQ_LEN - 1), Pending(c, 1, n, 0)
        PROVE  Outcome(c) /\ UNCHANGED <<sampled_total, sampled_bad>>
    <3>1. n \in 0..REQ_LEN /\ 1 \in 1..2 /\ 0 \in 0..REPLY_LEN
      BY <1>2, LoadAssumption DEF Conn
    <3>2. QED
      BY <2>1, <3>1, Zenon DEF Outcome, Pending
  <2>2. ASSUME NEW r \in {"reset", "other"}, conn_fail(c, r), NoSample
        PROVE  Outcome(c) /\ UNCHANGED <<sampled_total, sampled_bad>>
    <3>1. r \in Reasons
      BY DEF Reasons
    <3>2. QED
      BY <2>2, <3>1, Zenon DEF Outcome, NoSample
  <2>3. QED
    BY <1>1, <1>2, <1>4, <2>1, <2>2 DEF WriteStops
<1>5. CASE ReadStops(c)
  <2>1. ASSUME NEW n \in conn[c].got .. (REPLY_LEN - 1),
               Pending(c, 2, REQ_LEN, n)
        PROVE  Outcome(c) /\ UNCHANGED <<sampled_total, sampled_bad>>
    <3>1. n \in 0..REPLY_LEN /\ 2 \in 1..2 /\ REQ_LEN \in 0..REQ_LEN
      BY <1>2, LoadAssumption DEF Conn
    <3>2. QED
      BY <2>1, <3>1, Zenon DEF Outcome, Pending
  <2>2. ASSUME NEW r \in {"truncated", "reset", "other"}, conn_fail(c, r),
               NoSample
        PROVE  Outcome(c) /\ UNCHANGED <<sampled_total, sampled_bad>>
    <3>1. r \in Reasons
      BY DEF Reasons
    <3>2. QED
      BY <2>2, <3>1, Zenon DEF Outcome, NoSample
  <2>3. QED
    BY <1>1, <1>2, <1>5, <2>1, <2>2 DEF ReadStops
<1>6. CASE ReadWhole(c)
  <2>1. PICK y \in Replies :
          /\ sampled_total' = sampled_total + (IF conn[c].sampled THEN 1 ELSE 0)
          /\ sampled_bad' = sampled_bad
                            + (IF conn[c].sampled /\ Bad(c, y) THEN 1 ELSE 0)
          /\ conn_fail(c, "wrongbytes") \/ conn_done(c, y)
    BY <1>6 DEF ReadWhole
  <2>2. sampled_total' \in Nat /\ sampled_bad' \in Nat
    BY <1>2, <2>1
  <2>3. "wrongbytes" \in Reasons
    BY DEF Reasons
  <2>4. Outcome(c)
    BY <2>1, <2>3, Zenon DEF Outcome
  <2>5. QED
    BY <1>1, <2>2, <2>4
<1>7. QED
  BY <1>3, <1>4, <1>5, <1>6 DEF handle

-----------------------------------------------------------------------------
\* A step that only moves the thread or the clock.
Calm == UNCHANGED <<w, inflight, conn, results, unstarted>>

\* The steps of the loop and the clock leave the counters alone.
LEMMA CalmSteps ==
  ASSUME Sound, Finish \/ NextPass \/ StartsDone \/ epoll_wait \/ EventsDone
                \/ Tick \/ UNCHANGED vars
  PROVE  /\ Calm /\ UNCHANGED next_start
         /\ now' \in Nat /\ t' \in Nat /\ t' <= now'
         /\ pc' \in {"top", "start", "wait", "events", "done"}
         /\ burst' \in {burst, 0} /\ heard' \in {heard, {}}
         /\ evs' \subseteq DOMAIN conn
  BY DEF Sound, TypeOK, InflightIsLive, Finish, NextPass, StartsDone, epoll_wait,
         EventsDone, Tick, vars, Calm, threadVars, results

\* conn_start: one live connection more.
LEMMA Started ==
  ASSUME Sound, conn_start
  PROVE  /\ DOMAIN conn' \subseteq Conns /\ conn' \in [DOMAIN conn' -> Conn]
         /\ DOMAIN conn \subseteq DOMAIN conn'
         /\ Cardinality(DOMAIN conn') = Cardinality(DOMAIN conn) + 1
<1>1. PICK c \in Conns \ DOMAIN conn :
        conn' = [d \in DOMAIN conn \cup {c} |->
                   IF d = c THEN [state |-> 0, got |-> 0, sent |-> 0,
                                  sampled |-> Sampled, t0 |-> now]
                   ELSE conn[d]]
  BY Zenon, ZenonT(60) DEF conn_start
<1> DEFINE new == [state |-> 0, got |-> 0, sent |-> 0, sampled |-> Sampled,
                   t0 |-> now]
<1>2. new \in Conn
  BY LoadAssumption DEF Conn, Sound, TypeOK, Sampled
<1>3. DOMAIN conn' = DOMAIN conn \cup {c}
  BY <1>1
<1>4. conn' \in [DOMAIN conn' -> Conn]
  <2> HIDE DEF new
  <2>1. conn' = [d \in DOMAIN conn \cup {c} |-> IF d = c THEN new ELSE conn[d]]
    BY <1>1 DEF new
  <2>2. conn \in [DOMAIN conn -> Conn]
    BY DEF Sound, TypeOK
  <2>3. QED
    BY <1>2, <2>1, <2>2
<1>5. Cardinality(DOMAIN conn \cup {c}) = Cardinality(DOMAIN conn) + 1
  BY LiveFinite, FS_AddElement DEF Sound
<1>6. QED
  BY <1>3, <1>4, <1>5 DEF Sound, TypeOK

\* Every step of the start loop paces the next one.
LEMMA Paced ==
  ASSUME Sound, Pace
  PROVE  /\ next_start' \in Nat
         /\ w.conns = 0 => /\ next_start' >= next_start + w.interval
                           /\ next_start' >= t
  BY ConfigFacts DEF Pace, Sound, TypeOK

-----------------------------------------------------------------------------
\* handle keeps the types and the in-flight count.
LEMMA SoundHandle ==
  ASSUME Sound, NEW c \in Conns, handle(c)
  PROVE  Sound'
<1>1. /\ Event(c) /\ c \in DOMAIN conn /\ Outcome(c)
      /\ sampled_total' \in Nat /\ sampled_bad' \in Nat
  BY HandleOutcome
<1>2. /\ UNCHANGED <<w, now, pc, t, next_start, offered, unstarted, burst>>
      /\ evs' = evs \ {c}
  BY <1>1 DEF Event, threadVars
<1>3. /\ cap' = cap /\ cap \in Nat /\ inflight \in Nat
      /\ inflight = Cardinality(DOMAIN conn) /\ inflight <= cap
  BY <1>2, ConfigFacts DEF cap, Sound, TypeOK, InflightIsLive
<1>4. CASE \E s \in 1..2, n \in 0..REQ_LEN, m \in 0..REPLY_LEN :
             Pending(c, s, n, m)
  <2>1. PICK s \in 1..2, n \in 0..REQ_LEN, m \in 0..REPLY_LEN :
          Pending(c, s, n, m)
    BY <1>4
  <2> DEFINE new == [state |-> s, got |-> m, sent |-> n,
                     sampled |-> conn[c].sampled, t0 |-> conn[c].t0]
  <2>2. new \in Conn /\ conn' = [conn EXCEPT ![c] = new]
    <3>1. conn[c] \in Conn
      BY <1>1 DEF Sound, TypeOK
    <3>2. new \in Conn
      BY <3>1 DEF Conn
    <3>3. conn' = [conn EXCEPT ![c] = new]
      BY <2>1 DEF Pending
    <3>4. QED
      BY <3>2, <3>3
  <2> HIDE DEF new
  <2>3. DOMAIN conn' = DOMAIN conn /\ conn' \in [DOMAIN conn' -> Conn]
    BY <2>2, Zenon, ZenonT(60) DEF Sound, TypeOK
  <2>4. UNCHANGED <<inflight, completed, failed, hist, heard>>
    BY <2>1 DEF Pending
  <2>5. QED
    BY <1>1, <1>2, <1>3, <2>3, <2>4 DEF Sound, TypeOK, InflightIsLive
<1>5. ASSUME Resolved(c), failed' \in [Reasons -> Nat], completed' \in Nat,
             hist' \in [Buckets -> Nat],
             heard' \subseteq [sampled: BOOLEAN, reply: Replies]
      PROVE  Sound'
  <2>1. Free(c) /\ inflight' = inflight - 1
    BY <1>5 DEF Resolved
  <2>2. /\ DOMAIN conn' = DOMAIN conn \ {c} /\ conn' \in [DOMAIN conn' -> Conn]
        /\ Cardinality(DOMAIN conn') = Cardinality(DOMAIN conn) - 1
        /\ Cardinality(DOMAIN conn) > 0
    BY <1>1, <2>1, Freed, Zenon, ZenonT(60)
  <2>3. /\ inflight' \in Nat /\ inflight' <= cap
        /\ inflight' = Cardinality(DOMAIN conn')
    BY <1>3, <2>1, <2>2
  <2>4. evs' \subseteq DOMAIN conn' /\ DOMAIN conn' \subseteq Conns
        /\ evs' \subseteq Conns
    BY <1>2, <2>2 DEF Sound, TypeOK, InflightIsLive
  <2>5. QED
    BY <1>1, <1>2, <1>3, <1>5, <2>2, <2>3, <2>4
       DEF Sound, TypeOK, InflightIsLive
<1>6. CASE \E r \in Reasons : conn_fail(c, r)
  <2>1. PICK r \in Reasons : conn_fail(c, r)
    BY <1>6
  <2>2. failed' \in [Reasons -> Nat]
    BY <2>1 DEF conn_fail, Sound, TypeOK
  <2>3. QED
    BY <1>5, <2>1, <2>2 DEF conn_fail, Sound, TypeOK
<1>7. CASE \E y \in Replies : conn_done(c, y)
  <2>1. PICK y \in Replies : conn_done(c, y)
    BY <1>7
  <2>2. hist' \in [Buckets -> Nat]
    <3> DEFINE b == bucket(now - conn[c].t0)
               B == Buckets
    <3>1. hist \in [B -> Nat] /\ hist' = [hist EXCEPT ![b] = @ + 1]
      BY <2>1 DEF conn_done, Sound, TypeOK
    <3> HIDE DEF b, B
    <3>2. b \in B => hist[b] + 1 \in Nat
      BY <3>1
    <3>3. hist' \in [B -> Nat]
      <4> DEFINE n == hist[b] + 1
      <4>1. (b \in B => n \in Nat) /\ hist' = [hist EXCEPT ![b] = n]
        BY <3>1, <3>2
      <4> HIDE DEF n
      <4>2. QED
        BY <3>1, <4>1, Zenon, ZenonT(60)
    <3>4. QED
      BY <3>3 DEF B
  <2>3. heard' \subseteq [sampled: BOOLEAN, reply: Replies]
    BY <1>1, <2>1 DEF conn_done, Sound, TypeOK, Conn
  <2>4. Resolved(c) /\ failed' = failed /\ completed' = completed + 1
    BY <2>1 DEF conn_done
  <2>5. QED
    BY <1>5, <2>2, <2>3, <2>4 DEF Sound, TypeOK
<1>8. QED
  BY <1>1, <1>4, <1>6, <1>7 DEF Outcome

\* The types and the in-flight count survive every step.
LEMMA SoundNext == Sound /\ [Next]_vars => Sound'
<1> SUFFICES ASSUME Sound, [Next]_vars PROVE Sound'
  OBVIOUS
<1>0. cap \in Nat /\ inflight \in Nat
  BY ConfigFacts DEF Sound, TypeOK
<1>1. CASE Finish \/ NextPass \/ StartsDone \/ epoll_wait \/ EventsDone
           \/ Tick \/ UNCHANGED vars
  <2>1. /\ Calm /\ UNCHANGED next_start
        /\ now' \in Nat /\ t' \in Nat /\ t' <= now'
        /\ pc' \in {"top", "start", "wait", "events", "done"}
        /\ burst' \in {burst, 0} /\ heard' \in {heard, {}}
        /\ evs' \subseteq DOMAIN conn
    BY <1>1, CalmSteps
  <2>2. QED
    BY <2>1 DEF Sound, TypeOK, InflightIsLive, Calm, results, cap
<1>2. CASE GiveUp
  <2>1. failed' \in [Reasons -> Nat]
    BY <1>0, <1>2 DEF GiveUp, Sound, TypeOK, Reasons
  <2>2. QED
    BY <1>2, <2>1 DEF GiveUp, Sound, TypeOK, InflightIsLive, cap
<1>3. CASE StartFails
  <2>1. failed' \in [Reasons -> Nat] /\ next_start' \in Nat
    BY <1>3, Paced DEF StartFails, Sound, TypeOK, Reasons
  <2>2. QED
    BY <1>3, <2>1
       DEF StartFails, StartLoop, Sound, TypeOK, InflightIsLive, cap
<1>4. CASE conn_start
  <2>1. /\ DOMAIN conn' \subseteq Conns /\ conn' \in [DOMAIN conn' -> Conn]
        /\ DOMAIN conn \subseteq DOMAIN conn'
        /\ Cardinality(DOMAIN conn') = Cardinality(DOMAIN conn) + 1
    BY <1>4, Started
  <2>2. next_start' \in Nat
    BY <1>4, Paced DEF conn_start
  <2>3. inflight < cap /\ inflight' = inflight + 1 /\ cap' = cap
    BY <1>4 DEF conn_start, StartLoop, WantsStart, cap
  <2>4. /\ burst' = burst + 1 /\ offered' = offered + 1
        /\ UNCHANGED <<w, now, pc, t, evs, completed, failed, sampled_total,
                       sampled_bad, hist, unstarted, heard>>
    BY <1>4 DEF conn_start, StartLoop
  <2>5. QED
    BY <1>0, <2>1, <2>2, <2>3, <2>4 DEF Sound, TypeOK, InflightIsLive
<1>5. CASE \E c \in Conns : handle(c)
  BY <1>5, SoundHandle
<1>6. QED
  BY <1>1, <1>2, <1>3, <1>4, <1>5 DEF Next, worker_main

\* worker_main starts with nothing in flight.
LEMMA SoundInit == Init => Sound
<1> SUFFICES ASSUME Init PROVE Sound
  OBVIOUS
<1>1. DOMAIN conn = {} /\ conn \in [DOMAIN conn -> Conn]
  BY DEF Init
<1>2. Cardinality(DOMAIN conn) = 0
  BY <1>1, FS_EmptySet
<1>3. QED
  BY <1>1, <1>2, ConfigFacts DEF Init, Sound, TypeOK, InflightIsLive, Reasons

-----------------------------------------------------------------------------
(* Accounting.                                                              *)

\* The three numbers the accounting is about.
Numbers == /\ completed \in Nat /\ offered \in Nat /\ unstarted \in Nat
           /\ inflight \in Nat /\ Total(failed) \in Nat

\* The counters are natural numbers.
LEMMA NumbersAreNat == ASSUME Sound PROVE Numbers
  BY DEF Sound, TypeOK, Numbers, Total, Reasons

\* Every step before the end moves a connection from one count to another.
LEMMA CountedNext ==
  ASSUME Sound, EveryConnCounted, [Next]_vars, pc # "done"
  PROVE  EveryConnCounted'
<1>0. Numbers /\ failed \in [Reasons -> Nat]
  BY NumbersAreNat DEF Sound, TypeOK
<1>1. CASE Finish
  BY <1>0, <1>1 DEF Finish, results, EveryConnCounted, Numbers
<1>2. CASE GiveUp
  <2>1. Total(failed') = Total(failed) + inflight
    BY <1>0, <1>2, TotalGrows, Zenon, ZenonT(60) DEF GiveUp, Numbers, Reasons
  <2>2. QED
    BY <1>0, <1>2, <2>1 DEF GiveUp, EveryConnCounted, Numbers
<1>3. CASE NextPass \/ StartsDone \/ epoll_wait \/ EventsDone \/ Tick
           \/ UNCHANGED vars
  <2>1. UNCHANGED <<inflight, offered, completed, failed, unstarted>>
    BY <1>3, CalmSteps DEF Calm, results
  <2>2. pc' # "done"
    BY <1>3 DEF NextPass, StartsDone, epoll_wait, EventsDone, Tick, vars
  <2>3. QED
    BY <2>1, <2>2 DEF EveryConnCounted
<1>4. CASE StartFails
  <2>1. Total(failed') = Total(failed) + 1
    <3>1. PICK r \in {"other", "connect"} : failed' = [failed EXCEPT ![r] = @ + 1]
      BY <1>4, Zenon, ZenonT(60) DEF StartFails
    <3>2. r \in Reasons /\ 1 \in Nat
      BY DEF Reasons
    <3>3. QED
      BY <1>0, <3>1, <3>2, TotalGrows, Zenon, ZenonT(60)
  <2>2. /\ pc' # "done" /\ unstarted' = unstarted + 1
        /\ UNCHANGED <<inflight, offered, completed>>
    BY <1>4 DEF StartFails
  <2>3. completed + Total(failed) + inflight = offered + unstarted
    BY DEF EveryConnCounted
  <2>4. completed' + Total(failed') + inflight' = offered' + unstarted'
    BY <1>0, <2>1, <2>2, <2>3 DEF Numbers
  <2>5. QED
    BY <2>2, <2>4 DEF EveryConnCounted
<1>5. CASE conn_start
  <2>1. /\ pc' = pc /\ offered' = offered + 1 /\ inflight' = inflight + 1
        /\ UNCHANGED <<completed, failed, unstarted>>
    BY <1>5 DEF conn_start
  <2>2. QED
    BY <1>0, <2>1 DEF EveryConnCounted, Numbers
<1>6. ASSUME NEW c \in Conns, handle(c) PROVE EveryConnCounted'
  <2>1. Event(c) /\ Outcome(c)
    BY <1>6, HandleOutcome
  <2>2. pc' = pc /\ UNCHANGED <<offered, unstarted>>
    BY <2>1 DEF Event, threadVars
  <2>3. CASE \E s \in 1..2, n \in 0..REQ_LEN, m \in 0..REPLY_LEN :
               Pending(c, s, n, m)
    <3>1. UNCHANGED <<inflight, completed, failed>>
      BY <2>3, Zenon DEF Pending
    <3>2. QED
      BY <2>2, <3>1 DEF EveryConnCounted
  <2>4. CASE \E r \in Reasons : conn_fail(c, r)
    <3>1. PICK r \in Reasons : conn_fail(c, r)
      BY <2>4
    <3>2. /\ failed' = [failed EXCEPT ![r] = @ + 1] /\ completed' = completed
          /\ inflight' = inflight - 1
      BY <3>1 DEF conn_fail, Resolved
    <3>3. Total(failed') = Total(failed) + 1
      BY <1>0, <3>2, TotalGrows, Zenon, ZenonT(60)
    <3>4. QED
      BY <1>0, <2>2, <3>2, <3>3 DEF EveryConnCounted, Numbers
  <2>5. CASE \E y \in Replies : conn_done(c, y)
    <3>1. /\ completed' = completed + 1 /\ failed' = failed
          /\ inflight' = inflight - 1
      BY <2>5 DEF conn_done, Resolved
    <3>2. QED
      BY <1>0, <2>2, <3>1 DEF EveryConnCounted, Numbers
  <2>6. QED
    BY <2>1, <2>3, <2>4, <2>5 DEF Outcome
<1>7. QED
  BY <1>1, <1>2, <1>3, <1>4, <1>5, <1>6 DEF Next, worker_main

\* A thread that is done stays as it is.
LEMMA DoneStays ==
  ASSUME Sound, [Next]_vars, pc = "done"
  PROVE  Calm /\ pc' = "done"
<1>1. Tick \/ UNCHANGED vars
  BY Zenon, ZenonT(60)
     DEF Next, worker_main, Finish, GiveUp, NextPass, StartFails, conn_start,
         StartLoop, StartsDone, epoll_wait, EventsDone, handle, OnError,
         ConnectFails, WriteStops, ReadStops, ReadWhole, Event
<1>2. QED
  BY <1>1, CalmSteps DEF Tick, vars

\* Each connection the thread has tried to open is counted exactly once, and at
\* its end the completed and the failed ones are all there are: the drop rate
\* main computes misses nothing a server left unanswered.
THEOREM AllCounted == Spec => []EveryConnCounted
<1>1. Init => Sound /\ EveryConnCounted
  <2>1. Init => EveryConnCounted
    BY DEF Init, EveryConnCounted, Total, Reasons
  <2>2. QED
    BY <2>1, SoundInit
<1>2. Sound /\ EveryConnCounted /\ [Next]_vars => (Sound /\ EveryConnCounted)'
  <2> SUFFICES ASSUME Sound, EveryConnCounted, [Next]_vars
               PROVE  EveryConnCounted'
    BY SoundNext
  <2>1. CASE pc # "done"
    BY <2>1, CountedNext
  <2>2. CASE pc = "done"
    <3>1. pc' = "done" /\ UNCHANGED <<offered, completed, failed, unstarted>>
      BY <2>2, DoneStays DEF Calm, results
    <3>2. QED
      BY <2>2, <3>1 DEF EveryConnCounted
  <2>3. QED
    BY <2>1, <2>2
<1>3. QED
  BY <1>1, <1>2, PTL DEF Spec

\* The in-flight count is the number of allocated connections and stays within
\* the cap, and no event of a pass names a connection that was freed earlier in
\* the pass; so the thread neither stops early nor drains for ever nor touches
\* freed memory.
THEOREM InflightExact == Spec => []InflightIsLive
<1>1. Sound => InflightIsLive
  BY DEF Sound
<1>2. QED
  BY <1>1, SoundInit, SoundNext, PTL DEF Spec

-----------------------------------------------------------------------------
(* The open loop.                                                           *)

\* How far next_start is ahead, by the number of starts of the pass.
InPass ==
  w.conns = 0 =>
    /\ pc = "start" => \/ burst = 0
                       \/ burst = 1 /\ next_start >= t
                       \/ burst = 2 /\ next_start > t
    /\ pc = "wait" => burst <= 2
    /\ pc \in {"top", "events", "done"} => burst = 0

\* One more start is one more interval.
LEMMA OneMore ==
  ASSUME NEW n \in Nat, NEW d \in Nat
  PROVE  (n + 1) * d = n * d + d /\ n * d \in Nat
  OBVIOUS

\* A start moves next_start on by one interval, so the pace is kept.
LEMMA RateNext ==
  ASSUME Sound, NeverAboveRate, InPass, [Next]_vars
  PROVE  NeverAboveRate' /\ InPass'
<1>0. /\ w.conns \in Nat /\ w.interval \in Nat /\ w.interval > 0
      /\ t \in Nat /\ now \in Nat /\ t <= now /\ next_start \in Nat
      /\ offered \in Nat /\ unstarted \in Nat /\ burst \in Nat
      /\ starts \in Nat
  BY ConfigFacts DEF Sound, TypeOK, starts
<1>1. CASE w.conns # 0
  <2>1. w' = w
    BY Zenon, ZenonT(60)
       DEF Next, worker_main, Finish, GiveUp, NextPass, StartFails, conn_start,
           StartsDone, epoll_wait, EventsDone, handle, OnError, ConnectFails,
           WriteStops, ReadStops, ReadWhole, Event, Tick, vars, threadVars
  <2>2. QED
    BY <1>1, <2>1 DEF NeverAboveRate, InPass
<1>2. ASSUME w.conns = 0, StartFails \/ conn_start
      PROVE  NeverAboveRate' /\ InPass'
  <2>1. /\ starts' = starts + 1 /\ UNCHANGED <<w, t>>
        /\ pc = "start" /\ pc' = "start" /\ burst' = burst + 1
        /\ t >= next_start /\ Pace
    BY <1>0, <1>2 DEF StartFails, conn_start, StartLoop, WantsStart, starts
  <2>2. /\ next_start' \in Nat /\ next_start' >= next_start + w.interval
        /\ next_start' >= t
    BY <1>2, <2>1, Paced
  <2>3. /\ starts' * w.interval = starts * w.interval + w.interval
        /\ starts * w.interval \in Nat
    BY <1>0, <2>1, OneMore
  <2>4. next_start' >= starts' * w.interval
    BY <1>0, <1>2, <2>2, <2>3 DEF NeverAboveRate
  <2>5. (starts' - 1) * w.interval <= t
    <3>1. starts' - 1 = starts
      BY <1>0, <2>1
    <3>2. starts * w.interval <= next_start
      BY <1>0, <1>2, <2>3 DEF NeverAboveRate
    <3>3. QED
      BY <1>0, <2>1, <2>3, <3>1, <3>2
  <2>6. NeverAboveRate'
    BY <2>1, <2>4, <2>5 DEF NeverAboveRate
  <2>7. InPass'
    BY <1>0, <1>2, <2>1, <2>2 DEF InPass
  <2>8. QED
    BY <2>6, <2>7, Zenon, ZenonT(60)
<1>3. ASSUME w.conns = 0, starts' = starts, w' = w, next_start' = next_start,
             t' \in Nat, t' >= t
      PROVE  NeverAboveRate'
  <2>1. starts > 0 => (starts - 1) * w.interval <= t'
    <3> DEFINE x == (starts - 1) * w.interval
    <3>1. starts > 0 => x \in Int /\ x <= t
      BY <1>0, <1>3 DEF NeverAboveRate
    <3> HIDE DEF x
    <3>2. starts > 0 => x <= t'
      BY <1>0, <1>3, <3>1
    <3>3. QED
      BY <3>2 DEF x
  <2>2. QED
    BY <1>3, <2>1 DEF NeverAboveRate
<1>4. ASSUME w.conns = 0, Finish \/ GiveUp \/ NextPass \/ StartsDone
             \/ epoll_wait \/ EventsDone \/ Tick \/ UNCHANGED vars
      PROVE  NeverAboveRate' /\ InPass'
  <2>1. /\ UNCHANGED <<w, offered, unstarted, next_start>>
        /\ t' \in {t, now}
    BY <1>4, Zenon, ZenonT(60)
       DEF Finish, GiveUp, NextPass, StartsDone, epoll_wait, EventsDone,
                Tick, vars, threadVars, results
  <2>2. NeverAboveRate'
    BY <1>0, <1>3, <1>4, <2>1 DEF starts
  <2>3. InPass'
    <3>1. \/ UNCHANGED <<pc, burst, t>>
          \/ pc = "top" /\ pc' \in {"done", "start"} /\ UNCHANGED burst
          \/ pc = "start" /\ pc' = "wait" /\ UNCHANGED burst
          \/ pc = "wait" /\ pc' = "events" /\ burst' = 0
          \/ pc = "events" /\ pc' = "top" /\ UNCHANGED burst
      BY <1>4, Zenon, ZenonT(60)
         DEF Finish, GiveUp, NextPass, StartsDone, epoll_wait, EventsDone,
                  Tick, vars, threadVars
    <3>2. QED
      BY <1>0, <1>4, <2>1, <3>1 DEF InPass
  <2>4. QED
    BY <2>2, <2>3
<1>5. ASSUME w.conns = 0, NEW c \in Conns, handle(c)
      PROVE  NeverAboveRate' /\ InPass'
  <2>1. UNCHANGED <<w, t, next_start, unstarted, burst, pc, offered>>
    BY <1>5, Zenon, ZenonT(60)
       DEF handle, OnError, ConnectFails, WriteStops, ReadStops, ReadWhole,
                Event, threadVars
  <2>2. QED
    BY <1>0, <1>3, <1>5, <2>1 DEF InPass, starts
<1>6. QED
  BY <1>0, <1>1, <1>2, <1>4, <1>5 DEF Next, worker_main

\* The pace of the open loop, for a whole run.
LEMMA Rate == Spec => [](Sound /\ NeverAboveRate /\ InPass)
<1>1. Init => NeverAboveRate /\ InPass
  BY ConfigFacts DEF Init, NeverAboveRate, InPass, starts
<1>2. NeverAboveRate /\ InPass /\ Sound /\ [Next]_vars
        => (NeverAboveRate /\ InPass)'
  BY RateNext
<1>3. QED
  BY <1>1, <1>2, SoundInit, SoundNext, PTL DEF Spec

\* The open loop never runs ahead of its rate: the n-th start is never before
\* n - 1 intervals have passed, however late the thread is and whether or not
\* its starts succeed.
THEOREM RateIsKept == Spec => []NeverAboveRate
  BY Rate, PTL

\* A thread that has fallen behind makes at most two starts in one pass of its
\* loop.
THEOREM NoCatchingUp == Spec => []NoBurst
<1>1. Sound /\ InPass => NoBurst
  BY ConfigFacts DEF Sound, TypeOK, InPass, NoBurst
<1>2. QED
  BY <1>1, Rate, PTL

\* A start is due when it is made and moves next_start to at most an interval
\* past now; the loop leaves its starts only with none due.
LEMMA PaceNext ==
  ASSUME Sound, PaceKept, [Next]_vars
  PROVE  PaceKept'
<1>0. /\ w.conns \in Nat /\ w.interval \in Nat /\ t \in Nat /\ now \in Nat
      /\ t <= now /\ next_start \in Nat
  BY ConfigFacts DEF Sound, TypeOK
<1>1. w' = w
  BY Zenon, ZenonT(60)
     DEF Next, worker_main, Finish, GiveUp, NextPass, StartFails, conn_start,
         StartsDone, epoll_wait, EventsDone, handle, OnError, ConnectFails,
         WriteStops, ReadStops, ReadWhole, Event, Tick, vars, threadVars
<1> SUFFICES ASSUME w.conns = 0 PROVE PaceKept'
  BY <1>1 DEF PaceKept
<1>2. next_start <= t + w.interval
  BY DEF PaceKept
<1>3. CASE StartFails \/ conn_start
  <2>1. UNCHANGED t /\ pc = "start" /\ pc' = "start" /\ t >= next_start /\ Pace
    BY <1>0, <1>3 DEF StartFails, conn_start, StartLoop, WantsStart
  <2>2. next_start' <= t + w.interval
    BY <1>0, <2>1 DEF Pace
  <2>3. QED
    BY <1>1, <2>1, <2>2 DEF PaceKept
<1>4. CASE StartsDone
  <2>1. /\ UNCHANGED <<t, next_start, inflight, offered, unstarted>>
        /\ ~WantsStart \/ starts = MaxStarts
    BY <1>4 DEF StartsDone, threadVars, results
  <2>2. ASSUME t < tend, inflight < cap, starts < MaxStarts PROVE t < next_start
    <3>1. starts \in Nat /\ MaxStarts \in Nat
      BY LoadAssumption DEF Sound, TypeOK, starts
    <3>2. ~WantsStart
      BY <2>1, <2>2, <3>1
    <3>3. QED
      BY <1>0, <2>2, <3>2 DEF WantsStart
  <2>3. tend' = tend /\ cap' = cap /\ starts' = starts
    BY <1>1, <2>1 DEF tend, cap, starts
  <2>4. QED
    BY <1>1, <1>2, <2>1, <2>2, <2>3 DEF PaceKept
<1>5. CASE Finish \/ GiveUp \/ NextPass \/ epoll_wait \/ EventsDone
  <2>1. t' \in {t, now} /\ next_start' = next_start /\ pc' # "wait"
    BY <1>5, Zenon, ZenonT(60)
       DEF Finish, GiveUp, NextPass, epoll_wait, EventsDone, threadVars
  <2>2. next_start' <= t' + w.interval
    BY <1>0, <1>2, <2>1
  <2>3. QED
    BY <1>1, <2>1, <2>2 DEF PaceKept
<1>6. CASE Tick \/ UNCHANGED vars
  <2>1. UNCHANGED <<w, t, next_start, pc, inflight, offered, unstarted>>
    BY <1>6, Zenon, ZenonT(60) DEF Tick, vars, threadVars, results
  <2>2. QED
    BY <2>1 DEF PaceKept, tend, cap, starts
<1>7. ASSUME NEW c \in Conns, handle(c) PROVE PaceKept'
  <2>1. UNCHANGED <<t, next_start, pc>> /\ pc = "events"
    BY <1>7, Zenon, ZenonT(60)
       DEF handle, OnError, ConnectFails, WriteStops, ReadStops, ReadWhole,
           Event, threadVars
  <2>2. QED
    BY <1>1, <1>2, <2>1 DEF PaceKept
<1>8. QED
  BY <1>3, <1>4, <1>5, <1>6, <1>7 DEF Next, worker_main

\* The clamp of next_start does not cost the pace: the next start of an open loop
\* is never more than an interval away, and no start that is due is left for the
\* next pass, for every rate and however the clock jumps.
THEOREM PaceIsKept == Spec => []PaceKept
<1>1. Init => PaceKept
  BY ConfigFacts DEF Init, PaceKept
<1>2. Sound /\ PaceKept /\ [Next]_vars => PaceKept'
  BY PaceNext
<1>3. QED
  BY <1>1, <1>2, SoundInit, SoundNext, PTL DEF Spec

-----------------------------------------------------------------------------
(* The histogram.  Its sum is defined by recursion, so what it computes is  *)
(* shown by induction, which is here the choice of a least counterexample.  *)

\* A set of natural numbers has a least one.
LEMMA Least ==
  ASSUME NEW T, T \subseteq Nat, T # {}
  PROVE  \E m \in T : \A n \in T : m <= n
<1> DEFINE R == {p \in Nat \X Nat : p[1] < p[2]}
<1>1. IsWellFoundedOn(R, Nat)
  BY NatLessThanWellFounded DEF OpToRel
<1>2. PICK m \in T : \A n \in T : ~(<<n, m>> \in R)
  <2> HIDE DEF R
  <2>1. QED
    BY <1>1, WFMin, Zenon, ZenonT(60)
<1>3. ASSUME NEW n \in T PROVE m <= n
  <2>1. <<n, m>> \in R <=> n < m
    OBVIOUS
  <2>2. QED
    BY <1>2, <2>1
<1>4. QED
  BY <1>3

\* s holds the prefix sums of f up to n.
Sums(s, f, n) ==
  s \in [0..n -> Nat] /\ s[0] = 0 /\ \A k \in 1..n : s[k] = s[k - 1] + f[k - 1]

\* Prefix sums up to n - 1 extend to n.
LEMMA MoreSums ==
  ASSUME NEW f, NEW n \in Nat, n # 0, f[n - 1] \in Nat, NEW s, Sums(s, f, n - 1)
  PROVE  \E r : Sums(r, f, n)
<1> DEFINE r == [k \in 0..n |-> IF k = n THEN s[n - 1] + f[n - 1] ELSE s[k]]
<1>1. n - 1 \in Nat /\ s \in [0..(n - 1) -> Nat]
  BY DEF Sums
<1>2. \A k \in 0..n : k # n => k \in 0..(n - 1) /\ s[k] \in Nat
  BY <1>1
<1>3. s[n - 1] \in Nat
  BY <1>1
<1>4. r \in [0..n -> Nat]
  BY <1>1, <1>2, <1>3
<1>5. r[0] = 0
  BY <1>1 DEF Sums
<1>6. ASSUME NEW k \in 1..n PROVE r[k] = r[k - 1] + f[k - 1]
  <2>1. k \in 0..n /\ k - 1 \in 0..n /\ k - 1 # n /\ r[k - 1] = s[k - 1]
    BY <1>1
  <2>2. CASE k = n
    BY <2>1, <2>2
  <2>3. CASE k # n
    <3>1. k \in 1..(n - 1) /\ r[k] = s[k]
      BY <1>1, <2>1, <2>3
    <3>2. QED
      BY <2>1, <3>1 DEF Sums
  <2>4. QED
    BY <2>2, <2>3
<1> HIDE DEF r
<1>7. Sums(r, f, n)
  BY <1>4, <1>5, <1>6 DEF Sums
<1>8. QED
  BY <1>7

\* The prefix sums exist.
LEMMA SumsExist ==
  ASSUME NEW n \in Nat, NEW f, \A k \in 0..(n - 1) : f[k] \in Nat
  PROVE  \E s : Sums(s, f, n)
<1> DEFINE T == {k \in 0..n : ~ \E s : Sums(s, f, k)}
<1>1. T = {}
  <2> SUFFICES ASSUME T # {} PROVE FALSE
    OBVIOUS
  <2> T \subseteq Nat
    OBVIOUS
  <2>1. PICK m \in T : \A k \in T : m <= k
    <3> HIDE DEF T
    <3> QED
      BY Least, Zenon, ZenonT(60)
  <2>2. m \in 0..n /\ m \in Nat /\ ~ \E s : Sums(s, f, m)
    BY <2>1
  <2>3. m # 0
    <3>1. Sums([k \in 0..0 |-> 0], f, 0)
      BY DEF Sums
    <3>2. QED
      BY <2>2, <3>1
  <2>4. m - 1 \in 0..n /\ m - 1 \notin T /\ f[m - 1] \in Nat
    BY <2>1, <2>2, <2>3
  <2>5. PICK s : Sums(s, f, m - 1)
    BY <2>4
  <2>6. QED
    BY <2>2, <2>3, <2>4, <2>5, MoreSums
<1>2. QED
  BY <1>1

\* And they are unique, so that Upto computes them.
LEMMA UptoIs ==
  ASSUME NEW n \in Nat, NEW f, NEW s, Sums(s, f, n)
  PROVE  Upto(f, n) = s
<1> DEFINE Eq(r) == r = [k \in 0..n |-> IF k = 0 THEN 0 ELSE r[k - 1] + f[k - 1]]
<1>1. s = [k \in 0..n |-> s[k]]
      /\ \A k \in 0..n : s[k] = IF k = 0 THEN 0 ELSE s[k - 1] + f[k - 1]
  BY DEF Sums
<1>2. Eq(s)
  BY <1>1, Zenon
<1>3. ASSUME NEW r, Eq(r) PROVE r = s
  <2> DEFINE T == {k \in 0..n : r[k] # s[k]}
  <2>1. r = [k \in 0..n |-> r[k]]
        /\ \A k \in 0..n : r[k] = IF k = 0 THEN 0 ELSE r[k - 1] + f[k - 1]
    BY <1>3, Zenon, ZenonT(60)
  <2>2. T = {}
    <3> SUFFICES ASSUME T # {} PROVE FALSE
      OBVIOUS
    <3> T \subseteq Nat
      OBVIOUS
    <3>1. PICK m \in T : \A k \in T : m <= k
      <4> HIDE DEF T
      <4> QED
        BY Least, Zenon, ZenonT(60)
    <3>2. m \in 0..n /\ r[m] # s[m] /\ m \in Nat
      BY <3>1
    <3>3. m # 0
      BY <1>1, <2>1, <3>2, Zenon, ZenonT(60)
    <3>4. m - 1 \in 0..n /\ m - 1 \notin T
      BY <3>1, <3>2, <3>3
    <3>5. r[m - 1] = s[m - 1]
      BY <3>4
    <3>6. QED
      BY <1>1, <2>1, <3>2, <3>3, <3>5, Zenon, ZenonT(60)
  <2>3. \A k \in 0..n : r[k] = s[k]
    BY <2>2
  <2> HIDE DEF T, Eq
  <2>4. QED
    BY <1>1, <2>1, <2>3, Zenon
<1>4. Upto(f, n) = CHOOSE r : Eq(r)
  BY DEF Upto
<1> HIDE DEF Eq
<1>5. QED
  BY <1>2, <1>3, <1>4

\* What Upto computes.
LEMMA UptoSums ==
  ASSUME NEW n \in Nat, NEW f, \A k \in 0..(n - 1) : f[k] \in Nat
  PROVE  Sums(Upto(f, n), f, n)
  BY SumsExist, UptoIs

\* The sum of the first k is the k-th prefix sum.
LEMMA SumToIs ==
  ASSUME NEW n \in Nat, NEW f, \A k \in 0..(n - 1) : f[k] \in Nat, NEW k \in 0..n
  PROVE  SumTo(f, k) = Upto(f, n)[k]
<1> DEFINE s == Upto(f, n)
           r == [m \in 0..k |-> s[m]]
<1>1. Sums(s, f, n)
  BY UptoSums
<1> HIDE DEF s
<1>2. k \in Nat /\ \A m \in 0..k : m \in 0..n
  OBVIOUS
<1>3. r \in [0..k -> Nat] /\ r[0] = 0
  BY <1>1, <1>2 DEF Sums
<1>4. ASSUME NEW m \in 1..k PROVE r[m] = r[m - 1] + f[m - 1]
  <2>1. m \in 1..n /\ m \in 0..k /\ m - 1 \in 0..k
    BY <1>2
  <2>2. QED
    BY <1>1, <2>1 DEF Sums
<1>5. r[k] = s[k]
  BY <1>2
<1> HIDE DEF r
<1>6. Sums(r, f, k)
  BY <1>3, <1>4 DEF Sums
<1>7. Upto(f, k) = r
  BY <1>2, <1>6, UptoIs
<1>8. QED
  BY <1>5, <1>7 DEF SumTo, s

\* The sums of f and g add up to those of their pointwise sum.
LEMMA SumsAdd ==
  ASSUME NEW n \in Nat, NEW f, NEW g, NEW h,
         \A k \in 0..(n - 1) : f[k] \in Nat /\ g[k] \in Nat /\ h[k] = f[k] + g[k]
  PROVE  SumTo(h, n) = SumTo(f, n) + SumTo(g, n)
<1> DEFINE s == Upto(f, n)
           r == Upto(g, n)
           u == [k \in 0..n |-> s[k] + r[k]]
<1>1. Sums(s, f, n) /\ Sums(r, g, n)
  BY UptoSums
<1>2. u[n] = SumTo(f, n) + SumTo(g, n)
  BY DEF SumTo
<1> HIDE DEF s, r
<1>3. \A k \in 0..n : s[k] \in Nat /\ r[k] \in Nat /\ u[k] = s[k] + r[k]
  BY <1>1 DEF Sums
<1>4. u \in [0..n -> Nat] /\ u[0] = 0
  BY <1>1, <1>3 DEF Sums
<1> HIDE DEF u
<1>5. ASSUME NEW k \in 1..n PROVE u[k] = u[k - 1] + h[k - 1]
  <2>1. k \in 0..n /\ k - 1 \in 0..n /\ k - 1 \in 0..(n - 1)
    OBVIOUS
  <2>2. s[k] = s[k - 1] + f[k - 1] /\ r[k] = r[k - 1] + g[k - 1]
    BY <1>1 DEF Sums
  <2>3. QED
    BY <1>3, <2>1, <2>2
<1>6. Sums(u, h, n)
  BY <1>4, <1>5 DEF Sums
<1>7. Upto(h, n) = u
  BY <1>6, UptoIs
<1>8. QED
  BY <1>2, <1>7 DEF SumTo

\* Nothing adds up to nothing.
LEMMA SumsZero ==
  ASSUME NEW n \in Nat, NEW f, \A k \in 0..(n - 1) : f[k] = 0
  PROVE  SumTo(f, n) = 0
<1> DEFINE s == [k \in 0..n |-> 0]
<1>1. Sums(s, f, n) /\ s[n] = 0
  BY DEF Sums
<1> HIDE DEF s
<1>2. QED
  BY <1>1, UptoIs DEF SumTo

\* A single one adds up to one.
LEMMA SumsOne ==
  ASSUME NEW n \in Nat, NEW b \in 0..(n - 1), NEW f,
         \A k \in 0..(n - 1) : f[k] = IF k = b THEN 1 ELSE 0
  PROVE  SumTo(f, n) = 1
<1> DEFINE s == [k \in 0..n |-> IF k > b THEN 1 ELSE 0]
<1>1. s \in [0..n -> Nat] /\ s[0] = 0 /\ s[n] = 1
  OBVIOUS
<1>2. ASSUME NEW k \in 1..n PROVE s[k] = s[k - 1] + f[k - 1]
  <2>1. k \in 0..n /\ k - 1 \in 0..n /\ k - 1 \in 0..(n - 1)
    OBVIOUS
  <2>2. f[k - 1] = IF k - 1 = b THEN 1 ELSE 0
    BY <2>1
  <2>3. QED
    BY <2>1, <2>2
<1> HIDE DEF s
<1>3. Sums(s, f, n)
  BY <1>1, <1>2 DEF Sums
<1>4. QED
  BY <1>1, <1>3, UptoIs DEF SumTo

\* One latency more makes the sum one larger.
LEMMA SumGrows ==
  ASSUME NEW f \in [Buckets -> Nat], NEW b \in Buckets
  PROVE  SumTo([f EXCEPT ![b] = @ + 1], HBUCKETS + 1) = SumTo(f, HBUCKETS + 1) + 1
<1> DEFINE n == HBUCKETS + 1
           g == [k \in Buckets |-> IF k = b THEN 1 ELSE 0]
           h == [f EXCEPT ![b] = @ + 1]
<1>1. n \in Nat /\ 0..(n - 1) = Buckets
  BY LoadAssumption DEF Buckets
<1> HIDE DEF n
<1>2. /\ \A k \in 0..(n - 1) : f[k] \in Nat /\ g[k] \in Nat /\ h[k] = f[k] + g[k]
      /\ \A k \in 0..(n - 1) : g[k] = IF k = b THEN 1 ELSE 0
      /\ b \in 0..(n - 1)
  BY <1>1
<1> HIDE DEF g, h
<1>3. SumTo(h, n) = SumTo(f, n) + SumTo(g, n)
  BY <1>1, <1>2, SumsAdd, Zenon, ZenonT(60)
<1>4. SumTo(g, n) = 1
  BY <1>1, <1>2, SumsOne, Zenon, ZenonT(60)
<1>5. QED
  BY <1>3, <1>4 DEF n, h

\* No connection was started in the future, so that each latency has a bucket.
Aged == \A c \in DOMAIN conn : conn[c].t0 <= now

\* What a step does to the connections, the histogram and the clock.
LEMMA AgedNext ==
  ASSUME Sound, Aged, [Next]_vars
  PROVE  Aged'
<1>1. ASSUME NEW c \in Conns, handle(c) PROVE Aged'
  <2>1. now' = now /\ c \in DOMAIN conn /\ Outcome(c) /\ now \in Nat
        /\ conn[c] \in Conn
    BY <1>1, HandleOutcome DEF Event, Sound, TypeOK
  <2>2. ASSUME NEW s, NEW n, NEW m, Pending(c, s, n, m) PROVE Aged'
    <3>1. conn' = [conn EXCEPT ![c] = [state |-> s, got |-> m, sent |-> n,
                                       sampled |-> conn[c].sampled, t0 |-> conn[c].t0]]
      BY <2>2 DEF Pending
    <3>2. DOMAIN conn' = DOMAIN conn /\ \A d \in DOMAIN conn : conn'[d].t0 = conn[d].t0
      BY <2>1, <3>1
    <3>3. QED
      BY <2>1, <3>2 DEF Aged
  <2>3. ASSUME Resolved(c) PROVE Aged'
    BY <2>1, <2>3, Zenon, ZenonT(60) DEF Resolved, Free, Aged
  <2>4. QED
    BY <2>1, <2>2, <2>3, Zenon, ZenonT(60) DEF Outcome, conn_fail, conn_done
<1>2. CASE conn_start
  <2>1. PICK c \in Conns \ DOMAIN conn :
          conn' = [d \in DOMAIN conn \cup {c} |->
                     IF d = c THEN [state |-> 0, got |-> 0, sent |-> 0,
                                    sampled |-> Sampled, t0 |-> now]
                     ELSE conn[d]]
    BY <1>2, Zenon, ZenonT(60) DEF conn_start
  <2>2. now' = now /\ now \in Nat
    BY <1>2, Zenon, ZenonT(60) DEF conn_start, Sound, TypeOK
  <2>3. QED
    BY <2>1, <2>2 DEF Aged
<1>3. CASE GiveUp \/ StartFails \/ Finish \/ NextPass \/ StartsDone \/ epoll_wait
           \/ EventsDone \/ UNCHANGED vars
  BY <1>3, Zenon, ZenonT(60)
     DEF GiveUp, StartFails, Finish, NextPass, StartsDone, epoll_wait,
              EventsDone, vars, Aged
<1>4. CASE Tick
  <2>1. conn' = conn /\ now' = now + 1 /\ now \in Nat
    BY <1>4 DEF Tick, Sound, TypeOK
  <2>2. \A c \in DOMAIN conn : conn[c].t0 \in Nat
    BY DEF Sound, TypeOK, Conn
  <2>3. QED
    BY <2>1, <2>2 DEF Aged
<1>5. QED
  BY <1>1, <1>2, <1>3, <1>4 DEF Next, worker_main

\* hist_add counts a connection once, in the step that completes it.
LEMMA HistogramNext ==
  ASSUME Sound, Aged, HistogramComplete, [Next]_vars
  PROVE  HistogramComplete'
<1>1. ASSUME NEW c \in Conns, handle(c) PROVE HistogramComplete'
  <2>1. c \in DOMAIN conn /\ Outcome(c)
    BY <1>1, HandleOutcome
  <2>2. CASE UNCHANGED <<hist, completed>>
    BY <2>2 DEF HistogramComplete
  <2>3. ASSUME NEW y \in Replies, conn_done(c, y) PROVE HistogramComplete'
    <3>1. /\ hist' = [hist EXCEPT ![bucket(now - conn[c].t0)] = @ + 1]
          /\ completed' = completed + 1
      BY <2>3, Zenon, ZenonT(60) DEF conn_done
    <3>2. conn[c].t0 \in Nat /\ now \in Nat /\ hist \in [Buckets -> Nat]
          /\ conn[c].t0 <= now
      BY <2>1 DEF Sound, TypeOK, Conn, Aged
    <3>3. bucket(now - conn[c].t0) \in Buckets
      <4>1. now - conn[c].t0 \in Nat
        BY <3>2
      <4>2. \A n \in Nat : n \div HUS_PER \in Nat
        BY LoadAssumption
      <4>3. QED
        BY <4>1, <4>2, LoadAssumption DEF bucket, Buckets
    <3>4. QED
      BY <3>1, <3>2, <3>3, SumGrows, Zenon, ZenonT(60) DEF HistogramComplete
  <2>4. (\E s \in 1..2, n \in 0..REQ_LEN, m \in 0..REPLY_LEN : Pending(c, s, n, m))
        \/ (\E r \in Reasons : conn_fail(c, r))
        => UNCHANGED <<hist, completed>>
    BY Zenon, ZenonT(60) DEF Pending, conn_fail
  <2>5. QED
    BY <2>1, <2>2, <2>3, <2>4 DEF Outcome
<1>2. CASE GiveUp \/ StartFails \/ conn_start
  BY <1>2, Zenon, ZenonT(60) DEF GiveUp, StartFails, conn_start, HistogramComplete
<1>3. CASE Finish \/ NextPass \/ StartsDone \/ epoll_wait \/ EventsDone
           \/ Tick \/ UNCHANGED vars
  BY <1>3, CalmSteps DEF Calm, results, HistogramComplete
<1>4. QED
  BY <1>1, <1>2, <1>3 DEF Next, worker_main

\* Every completed connection is in one bucket of the histogram, however slow it
\* was, so the percentiles main reads off it are over all of them.
THEOREM HistogramHasAll == Spec => []HistogramComplete
<1>1. Init => Aged /\ HistogramComplete
  <2> DEFINE n == HBUCKETS + 1
  <2>1. n \in Nat /\ 0..(n - 1) = Buckets
    BY LoadAssumption DEF Buckets
  <2>2. Init => \A b \in Buckets : hist[b] = 0
    BY DEF Init
  <2> HIDE DEF n
  <2>3. Init => SumTo(hist, n) = 0
    BY <2>1, <2>2, SumsZero
  <2>4. QED
    BY <2>3 DEF Init, Aged, HistogramComplete, n
<1>2. Sound /\ Aged /\ HistogramComplete /\ [Next]_vars
        => Aged' /\ HistogramComplete'
  BY AgedNext, HistogramNext
<1>3. QED
  BY <1>1, <1>2, SoundInit, SoundNext, PTL DEF Spec

-----------------------------------------------------------------------------
(* main: the shares, the threads, the aggregate and the percentiles.        *)

\* main's loops over the threads: each thread it has passed has its share and
\* its results, and after the joins none is running.
Crew ==
  /\ mpc \in {"args", "create", "join", "add", "max", "scan", "report", "failed",
              "crashed"}
  /\ conns \in Int /\ threads \in Int /\ i \in Nat
  /\ mpc = "args" => i = 0
  /\ mpc # "args" => threads > 0 /\ (conns > 0 => threads <= conns)
  /\ mpc \in {"args", "failed"} => DOMAIN th = {}
  /\ mpc = "create" => i <= threads /\ DOMAIN th = 0..(i - 1)
  /\ mpc \in {"join", "add", "max", "scan", "report"} =>
       i <= threads /\ DOMAIN th = Ids
  /\ DOMAIN share = DOMAIN th /\ DOMAIN ws = DOMAIN th
  /\ \A n \in DOMAIN th : ws[n] \in Results /\ share[n] = Share(n)
  /\ mpc = "join" => \A n \in 0..(i - 1) : th[n] # "running"
  /\ mpc \in {"add", "max", "scan", "report"} =>
       \A n \in Ids : th[n] # "running"

Offered == [n \in Ids |-> ws[n].offered]
Completed == [n \in Ids |-> ws[n].completed]
Failed == [n \in Ids |-> ws[n].failed]
InBucket(x) == [n \in Ids |-> ws[n].hist[x]]
Totals == [offered : Nat, completed : Nat, failed : Nat, sampled_bad : Nat,
           hist : [Buckets -> Nat]]

\* The aggregate holds the first k threads.
Holds(k) ==
  /\ total.offered = Upto(Offered, threads)[k]
  /\ total.completed = Upto(Completed, threads)[k]
  /\ total.failed = Upto(Failed, threads)[k]
  /\ \A x \in Buckets : total.hist[x] = Upto(InBucket(x), threads)[k]
  /\ total.sampled_bad = 0 <=> \A n \in 0..(k - 1) : ws[n].sampled_bad = 0

Aggregated ==
  /\ total \in Totals
  /\ total.offered <= total.completed + total.failed
  /\ SumTo(total.hist, HBUCKETS + 1) = total.completed
  /\ mpc \in {"args", "create", "join"} => total = Zero
  /\ mpc = "add" => Holds(i)
  /\ mpc \in {"max", "scan", "report"} => Holds(threads)

Below == Upto(total.hist, HBUCKETS + 1)

\* Bucket a is the first in which q is reached.
First(a, q) ==
  /\ a \in Buckets /\ Reached(Below[a + 1], q)
  /\ \A x \in 0..(a - 1) : ~Reached(Below[x + 1], q)

Scanned ==
  /\ mpc \in {"args", "create", "join", "add"} => bkt = 0 /\ maxb = 0
  /\ mpc \in {"args", "create", "join", "add", "max"} =>
       cum = 0 /\ DOMAIN pct = {}
  /\ mpc \in {"max", "scan"} => bkt \in Buckets /\ total.completed > 0
  /\ maxb \in Buckets
  /\ mpc = "max" =>
       \A x \in Buckets : maxb < x /\ x < bkt => total.hist[x] = 0
  /\ mpc = "scan" \/ (mpc = "report" /\ total.completed > 0) =>
       \A x \in Buckets : maxb < x => total.hist[x] = 0
  /\ mpc = "scan" =>
       /\ cum = Below[bkt] /\ DOMAIN pct \subseteq Quantiles \ {Q999}
       /\ \A q \in DOMAIN pct : First(pct[q], q)
       /\ \A q \in Quantiles \ DOMAIN pct :
            \A x \in 0..(bkt - 1) : ~Reached(Below[x + 1], q)
  /\ mpc = "report" /\ total.completed > 0 =>
       DOMAIN pct = Quantiles /\ \A q \in Quantiles : First(pct[q], q)

\* The prefix sums, one index on.
LEMMA UptoStep ==
  ASSUME NEW n \in Nat, NEW f, \A k \in 0..(n - 1) : f[k] \in Nat
  PROVE  /\ Upto(f, n)[0] = 0 /\ \A k \in 0..n : Upto(f, n)[k] \in Nat
         /\ \A k \in 0..(n - 1) : Upto(f, n)[k + 1] = Upto(f, n)[k] + f[k]
<1> DEFINE s == Upto(f, n)
<1>1. Sums(s, f, n)
  BY UptoSums
<1> HIDE DEF s
<1>2. s[0] = 0 /\ \A k \in 0..n : s[k] \in Nat
  BY <1>1 DEF Sums
<1>3. ASSUME NEW k \in 0..(n - 1) PROVE s[k + 1] = s[k] + f[k]
  <2>1. k + 1 \in 1..n /\ (k + 1) - 1 = k
    OBVIOUS
  <2>2. QED
    BY <1>1, <2>1 DEF Sums
<1>4. QED
  BY <1>2, <1>3 DEF s

\* What a thread leaves is an aggregate of its own.
LEMMA ResultFacts ==
  ASSUME NEW r \in Results
  PROVE  /\ r \in Totals /\ r.offered <= r.completed + r.failed
         /\ SumTo(r.hist, HBUCKETS + 1) = r.completed
<1>1. /\ r \in [offered : 0..MaxPerThread, completed : 0..MaxPerThread,
                failed : 0..MaxPerThread, sampled_bad : 0..1,
                hist : [Buckets -> 0..MaxPerThread]]
      /\ r.offered <= r.completed + r.failed
      /\ SumTo(r.hist, HBUCKETS + 1) = r.completed
  BY DEF Results
<1>2. \A n \in 0..MaxPerThread : n \in Nat
  BY MainAssumption
<1>3. r.hist \in [Buckets -> Nat]
  BY <1>1, <1>2
<1>4. QED
  BY <1>1, <1>2, <1>3 DEF Totals

\* And so is what calloc leaves.
LEMMA ZeroIsResult == Zero \in Results
<1>1. HBUCKETS \in Nat /\ Buckets = 0..HBUCKETS /\ MaxPerThread \in Nat
  BY MainAssumption DEF Buckets
<1>2. \A b \in Buckets : Zero.hist[b] = 0
  BY DEF Zero
<1>3. SumTo(Zero.hist, HBUCKETS + 1) = 0
  <2> DEFINE h == Zero.hist
             n == HBUCKETS + 1
  <2>1. n \in Nat /\ 0..(n - 1) = Buckets /\ \A b \in Buckets : h[b] = 0
    BY <1>1, <1>2
  <2> HIDE DEF h, n
  <2>2. SumTo(h, n) = 0
    BY <2>1, SumsZero, Zenon, ZenonT(60)
  <2>3. QED
    BY <2>2 DEF h, n
<1>4. /\ Zero.offered = 0 /\ Zero.completed = 0 /\ Zero.failed = 0
      /\ Zero.sampled_bad = 0
      /\ Zero \in [offered : 0..MaxPerThread, completed : 0..MaxPerThread,
                   failed : 0..MaxPerThread, sampled_bad : 0..1,
                   hist : [Buckets -> 0..MaxPerThread]]
  BY <1>1 DEF Zero
<1>5. QED
  BY <1>3, <1>4 DEF Results

\* The function With builds.
LEMMA WithIs ==
  ASSUME NEW f, NEW x, NEW v
  PROVE  /\ DOMAIN With(f, x, v) = DOMAIN f \cup {x} /\ With(f, x, v)[x] = v
         /\ \A y \in DOMAIN f : y # x => With(f, x, v)[y] = f[y]
  BY DEF With

\* main's actions keep its loops over the threads in order.
LEMMA CrewNext == Crew /\ [MainNext]_mainVars => Crew'
<1> SUFFICES ASSUME Crew, [MainNext]_mainVars PROVE Crew'
  OBVIOUS
<1> USE DEF argVars, fleetVars, scanVars
<1>1. CASE Args
  <2>1. /\ mpc = "args" /\ mpc' \in {"create", "failed"}
        /\ threads' = Clamped(threads) /\ UNCHANGED <<conns, i, share, th, ws>>
    BY <1>1, Zenon, ZenonT(60) DEF Args
  <2>2. conns \in Int /\ threads \in Int /\ i = 0 /\ DOMAIN th = {}
        /\ DOMAIN share = {} /\ DOMAIN ws = {}
    BY <2>1 DEF Crew
  <2>3. threads' \in Int /\ threads' > 0 /\ (conns > 0 => threads' <= conns)
    BY <2>1, <2>2 DEF Clamped
  <2>4. QED
    BY <2>1, <2>2, <2>3 DEF Crew
<1>2. CASE CreateThread
  <2>1. /\ mpc = "create" /\ i < threads /\ i' = i + 1
        /\ share' = With(share, i, Share(i)) /\ ws' = With(ws, i, Zero)
        /\ UNCHANGED <<mpc, threads, conns>>
    BY <1>2 DEF CreateThread
  <2>2. PICK v : th' = With(th, i, v)
    BY <1>2 DEF CreateThread
  <2>3. /\ conns \in Int /\ threads \in Int /\ i \in Nat
        /\ threads > 0 /\ (conns > 0 => threads <= conns)
        /\ DOMAIN th = 0..(i - 1) /\ DOMAIN share = DOMAIN th
        /\ DOMAIN ws = DOMAIN th
        /\ \A n \in DOMAIN th : ws[n] \in Results /\ share[n] = Share(n)
    BY <2>1, Zenon, ZenonT(60) DEF Crew
  <2>4. 0..(i - 1) \cup {i} = 0..(i' - 1) /\ i' \in Nat /\ i' <= threads
        /\ i \notin 0..(i - 1)
    BY <2>1, <2>3
  <2>5. /\ DOMAIN th' = 0..(i' - 1) /\ DOMAIN share' = 0..(i' - 1)
        /\ DOMAIN ws' = 0..(i' - 1)
    <3>1. /\ DOMAIN th' = DOMAIN th \cup {i} /\ DOMAIN ws' = DOMAIN ws \cup {i}
          /\ DOMAIN share' = DOMAIN share \cup {i}
      BY <2>1, <2>2, WithIs, Zenon
    <3>2. QED
      BY <2>3, <2>4, <3>1
  <2>6. ASSUME NEW n \in DOMAIN th' PROVE ws'[n] \in Results /\ share'[n] = Share(n)
    <3>0. /\ ws'[i] = Zero /\ share'[i] = Share(i)
          /\ \A y \in DOMAIN ws : y # i => ws'[y] = ws[y]
          /\ \A y \in DOMAIN share : y # i => share'[y] = share[y]
      <4>1. ws' = With(ws, i, Zero) /\ share' = With(share, i, Share(i))
        BY <2>1, Zenon, ZenonT(60)
      <4>2. QED
        BY <4>1 DEF With
    <3>1. CASE n = i
      BY <3>0, <3>1, ZeroIsResult
    <3>2. CASE n # i
      <4>1. n \in DOMAIN th
        BY <2>3, <2>4, <2>5, <3>2, Zenon, ZenonT(60)
      <4>2. QED
        BY <2>3, <3>0, <3>2, <4>1, Zenon, ZenonT(60)
    <3>3. QED
      BY <3>1, <3>2, Zenon, ZenonT(60)
  <2>7. \A n : Share(n)' = Share(n)
    BY <2>1 DEF Share
  <2>8. QED
    BY <2>1, <2>3, <2>4, <2>5, <2>6, <2>7, Zenon, ZenonT(60) DEF Crew
<1>3. ASSUME NEW n \in DOMAIN th, ThreadReturns(n) PROVE Crew'
  <2>1. PICK r \in Results : ws' = [ws EXCEPT ![n] = r]
    BY <1>3, Zenon, ZenonT(60) DEF ThreadReturns
  <2>2. /\ th[n] = "running" /\ th' = [th EXCEPT ![n] = "returned"]
        /\ UNCHANGED <<mpc, threads, conns, i, share>>
    BY <1>3 DEF ThreadReturns
  <2>3. /\ DOMAIN th' = DOMAIN th /\ DOMAIN ws' = DOMAIN ws
        /\ \A m \in DOMAIN th : th'[m] = th[m] \/ th'[m] = "returned"
    BY <2>1, <2>2, Zenon, ZenonT(60)
  <2>4. \A m \in DOMAIN th : ws'[m] \in Results /\ share'[m] = Share(m)
    BY <2>1, <2>2 DEF Crew
  <2>5. Ids' = Ids /\ \A m : Share(m)' = Share(m)
    BY <2>2, Zenon, ZenonT(60) DEF Ids, Share
  <2>6. mpc = "join" => \A m \in 0..(i - 1) : m \in DOMAIN th
    BY DEF Crew, Ids
  <2>7. QED
    BY <2>2, <2>3, <2>4, <2>5, <2>6, Zenon, ZenonT(60) DEF Crew
<1>4. CASE JoinThread
  <2>1. /\ mpc = "join" /\ i < threads /\ UNCHANGED <<threads, conns, share, th, ws>>
        /\ \/ th[i] # "running" /\ i' = i + 1 /\ mpc' = mpc
           \/ mpc' = "crashed" /\ i' = i
    BY <1>4 DEF JoinThread
  <2>2. Ids' = Ids /\ \A m : Share(m)' = Share(m)
    BY <2>1, Zenon, ZenonT(60) DEF Ids, Share
  <2>3. QED
    BY <2>1, <2>2 DEF Crew
<1>5. CASE Created \/ Joined
  <2>1. /\ i = threads /\ i' = 0 /\ UNCHANGED <<threads, conns, share, th, ws>>
        /\ \/ mpc = "create" /\ mpc' = "join"
           \/ mpc = "join" /\ mpc' = "add"
    BY <1>5 DEF Created, Joined
  <2>2. Ids' = Ids /\ \A m : Share(m)' = Share(m)
    BY <2>1, Zenon, ZenonT(60) DEF Ids, Share
  <2>3. QED
    BY <2>1, <2>2 DEF Crew, Ids
<1>6. CASE Aggregate \/ Added \/ MaxBucket \/ ScanBucket \/ UNCHANGED mainVars
  <2>1. /\ UNCHANGED <<threads, conns, share, th, ws>>
        /\ \/ mpc = "add" /\ i < threads /\ i' = i + 1 /\ mpc' = mpc
           \/ /\ i' = i /\ mpc \in {"add", "max", "scan"}
              /\ mpc' \in {"max", "scan", "report"}
           \/ i' = i /\ mpc' = mpc
    BY <1>6, Zenon, ZenonT(60) DEF Aggregate, Added, MaxBucket, ScanBucket, mainVars
  <2>2. Ids' = Ids /\ \A m : Share(m)' = Share(m)
    BY <2>1 DEF Ids, Share
  <2>3. QED
    BY <2>1, <2>2 DEF Crew
<1>7. QED
  BY <1>1, <1>2, <1>3, <1>4, <1>5, <1>6, Zenon, ZenonT(60) DEF MainNext

\* The initial state.
LEMMA CrewInit == MainInit => Crew /\ Aggregated /\ Scanned
<1> SUFFICES ASSUME MainInit PROVE Crew /\ Aggregated /\ Scanned
  OBVIOUS
<1>1. /\ mpc = "args" /\ i = 0 /\ threads \in Int /\ conns \in Int
      /\ DOMAIN th = {} /\ DOMAIN share = {} /\ DOMAIN ws = {} /\ DOMAIN pct = {}
      /\ total = Zero /\ bkt = 0 /\ cum = 0 /\ maxb = 0
  BY MainAssumption DEF MainInit
<1>2. Crew
  BY <1>1 DEF Crew
<1>3. Aggregated
  BY <1>1, ZeroIsResult, ResultFacts DEF Aggregated
<1>4. 0 \in Buckets
  BY MainAssumption DEF Buckets
<1>5. Scanned
  BY <1>1, <1>4, Zenon, ZenonT(60) DEF Scanned
<1>6. QED
  BY <1>2, <1>3, <1>5

\* The division of n among m: n = m * q + r.
LEMMA Divided ==
  ASSUME NEW n \in Nat, NEW m \in Nat, m > 0
  PROVE  /\ n \div m \in Nat /\ n % m \in 0..(m - 1)
         /\ m * (n \div m) + (n % m) = n /\ (m <= n => n \div m > 0)
  OBVIOUS

\* One thread more is one share more.
LEMMA OneShare ==
  ASSUME NEW k \in Nat, NEW q \in Nat
  PROVE  k * q \in Nat /\ (k + 1) * q = k * q + q
  OBVIOUS

\* The shares add up to --conns.
LEMMA SharesAddUp ==
  ASSUME Crew, mpc = "join", conns > 0
  PROVE  SumTo(share, threads) = conns /\ \A n \in Ids : share[n] > 0
<1>1. /\ threads \in Nat /\ threads > 0 /\ conns \in Nat /\ threads <= conns
      /\ DOMAIN share = 0..(threads - 1) /\ Ids = 0..(threads - 1)
      /\ \A n \in 0..(threads - 1) : share[n] = Share(n)
  BY DEF Crew, Ids
<1> DEFINE q == conns \div threads
           r == conns % threads
           s == [k \in 0..threads |-> k * q + (IF k < r THEN k ELSE r)]
<1>2. q \in Nat /\ r \in 0..(threads - 1) /\ threads * q + r = conns /\ q > 0
  BY <1>1, Divided
<1>3. \A n \in 0..(threads - 1) : share[n] = q + (IF n < r THEN 1 ELSE 0)
  BY <1>1 DEF Share
<1> HIDE DEF q, r
<1>4. \A k \in 0..threads : /\ k \in Nat /\ k * q \in Nat
                            /\ (k + 1) * q = k * q + q
                            /\ s[k] = k * q + (IF k < r THEN k ELSE r)
  BY <1>1, <1>2, OneShare
<1> HIDE DEF s
<1>5. s \in [0..threads -> Nat]
  <2>1. \A k \in 0..threads : s[k] \in Nat
    BY <1>2, <1>4
  <2>2. QED
    BY <2>1 DEF s
<1>6. s[0] = 0 /\ s[threads] = conns
  <2>1. 0 * q = 0
    BY <1>2
  <2>2. QED
    BY <1>1, <1>2, <1>4, <2>1
<1>7. ASSUME NEW k \in 1..threads PROVE s[k] = s[k - 1] + share[k - 1]
  <2>1. k - 1 \in 0..threads /\ k \in 0..threads /\ k - 1 \in 0..(threads - 1)
        /\ (k - 1) + 1 = k
    BY <1>1
  <2>2. k * q = (k - 1) * q + q /\ (k - 1) * q \in Nat
    BY <1>4, <2>1
  <2>3. QED
    BY <1>2, <1>3, <1>4, <2>1, <2>2
<1>8. Sums(s, share, threads)
  BY <1>5, <1>6, <1>7, Zenon, ZenonT(60) DEF Sums
<1>9. SumTo(share, threads) = conns
  BY <1>1, <1>6, <1>8, UptoIs, Zenon, ZenonT(60) DEF SumTo
<1>10. QED
  BY <1>1, <1>2, <1>3, <1>9

\* The results of the threads are natural numbers.
LEMMA CrewSums ==
  ASSUME Crew, mpc \in {"join", "add", "max", "scan", "report"}
  PROVE  /\ threads \in Nat /\ threads > 0 /\ i \in 0..threads
         /\ Ids = 0..(threads - 1)
         /\ \A n \in 0..(threads - 1) :
              /\ ws[n] \in Results /\ ws[n] \in Totals
              /\ Offered[n] \in Nat /\ Completed[n] \in Nat /\ Failed[n] \in Nat
              /\ Offered[n] = ws[n].offered /\ Completed[n] = ws[n].completed
              /\ Failed[n] = ws[n].failed
         /\ \A x \in Buckets : \A n \in 0..(threads - 1) :
              InBucket(x)[n] \in Nat /\ InBucket(x)[n] = ws[n].hist[x]
<1>1. /\ threads \in Nat /\ threads > 0 /\ i \in 0..threads
      /\ Ids = 0..(threads - 1) /\ DOMAIN th = Ids
  BY DEF Crew, Ids
<1>2. \A n \in Ids : ws[n] \in Results /\ ws[n] \in Totals
  BY <1>1, ResultFacts, Zenon, ZenonT(60) DEF Crew
<1>3. \A n \in Ids : /\ ws[n].offered \in Nat /\ ws[n].completed \in Nat
                     /\ ws[n].failed \in Nat
                     /\ ws[n].hist \in [Buckets -> Nat]
  BY <1>2, Zenon, ZenonT(60) DEF Totals
<1>4. QED
  BY <1>1, <1>2, <1>3, Zenon, ZenonT(60) DEF Offered, Completed, Failed, InBucket

\* One turn of the loop that adds the counters up.
LEMMA AggregateKeeps ==
  ASSUME Crew, Aggregated, Aggregate
  PROVE  Aggregated'
<1>1. /\ mpc = "add" /\ i < threads /\ i' = i + 1
      /\ total' = Plus(total, ws[i]) /\ UNCHANGED <<mpc, threads, ws>>
  BY Zenon, ZenonT(60) DEF Aggregate, argVars, fleetVars
<1>2. /\ threads \in Nat /\ i \in Nat /\ i \in 0..(threads - 1)
      /\ \A n \in 0..(threads - 1) :
           Offered[n] \in Nat /\ Completed[n] \in Nat /\ Failed[n] \in Nat
      /\ \A x \in Buckets : \A n \in 0..(threads - 1) :
              InBucket(x)[n] \in Nat /\ InBucket(x)[n] = ws[n].hist[x]
      /\ Offered[i] = ws[i].offered /\ Completed[i] = ws[i].completed
      /\ Failed[i] = ws[i].failed
  BY <1>1, CrewSums
<1> DEFINE r == ws[i]
<1>3. /\ r \in Totals /\ r.offered <= r.completed + r.failed
      /\ SumTo(r.hist, HBUCKETS + 1) = r.completed
  BY <1>1, <1>2, CrewSums, ResultFacts, Zenon, ZenonT(60)
<1>4. /\ total \in Totals /\ total.offered <= total.completed + total.failed
      /\ SumTo(total.hist, HBUCKETS + 1) = total.completed /\ Holds(i)
  BY <1>1 DEF Aggregated
<1> HIDE DEF r
<1>5. /\ r.offered \in Nat /\ r.completed \in Nat /\ r.failed \in Nat
      /\ r.sampled_bad \in Nat /\ r.hist \in [Buckets -> Nat]
      /\ total.offered \in Nat /\ total.completed \in Nat /\ total.failed \in Nat
      /\ total.sampled_bad \in Nat /\ total.hist \in [Buckets -> Nat]
  BY <1>3, <1>4 DEF Totals
<1>6. /\ total'.offered = total.offered + r.offered
      /\ total'.completed = total.completed + r.completed
      /\ total'.failed = total.failed + r.failed
      /\ total'.sampled_bad = total.sampled_bad + r.sampled_bad
      /\ total'.hist = [a \in Buckets |-> total.hist[a] + r.hist[a]]
      /\ total' = [offered |-> total'.offered, completed |-> total'.completed,
                   failed |-> total'.failed, sampled_bad |-> total'.sampled_bad,
                   hist |-> total'.hist]
  BY <1>1, Zenon, ZenonT(60) DEF Plus, r
<1>7. total' \in Totals
  <2>1. total'.hist \in [Buckets -> Nat]
    BY <1>5, <1>6
  <2>2. total'.offered \in Nat /\ total'.completed \in Nat /\ total'.failed \in Nat
        /\ total'.sampled_bad \in Nat
    BY <1>5, <1>6
  <2>3. QED
    BY <1>6, <2>1, <2>2, Zenon, ZenonT(60) DEF Totals
<1>8. total'.offered <= total'.completed + total'.failed
  BY <1>3, <1>4, <1>5, <1>6
<1>9. SumTo(total'.hist, HBUCKETS + 1) = total'.completed
  <2> DEFINE n == HBUCKETS + 1
             f == total.hist
             g == r.hist
             h == total'.hist
  <2>1. n \in Nat /\ 0..(n - 1) = Buckets
    BY MainAssumption DEF Buckets
  <2>2. \A a \in Buckets : f[a] \in Nat /\ g[a] \in Nat /\ h[a] = f[a] + g[a]
    BY <1>5, <1>6
  <2> HIDE DEF n, f, g, h
  <2>3. SumTo(h, n) = SumTo(f, n) + SumTo(g, n)
    BY <2>1, <2>2, SumsAdd, Zenon, ZenonT(60)
  <2>4. QED
    BY <1>3, <1>4, <1>6, <2>3, Zenon, ZenonT(60) DEF n, f, g, h
<1>10. /\ Offered' = Offered /\ Completed' = Completed /\ Failed' = Failed
       /\ \A x : InBucket(x)' = InBucket(x)
  BY <1>1 DEF Offered, Completed, Failed, InBucket, Ids
<1>11. Holds(i)'
  <2>1. total'.offered = Upto(Offered, threads)[i + 1]
    <3>1. Upto(Offered, threads)[i + 1] = Upto(Offered, threads)[i] + Offered[i]
      BY <1>2, UptoStep, Zenon, ZenonT(60)
    <3>2. QED
      BY <1>2, <1>4, <1>6, <3>1, Zenon, ZenonT(60) DEF Holds, r
  <2>2. total'.completed = Upto(Completed, threads)[i + 1]
    <3>1. Upto(Completed, threads)[i + 1]
            = Upto(Completed, threads)[i] + Completed[i]
      BY <1>2, UptoStep, Zenon, ZenonT(60)
    <3>2. QED
      BY <1>2, <1>4, <1>6, <3>1, Zenon, ZenonT(60) DEF Holds, r
  <2>3. total'.failed = Upto(Failed, threads)[i + 1]
    <3>1. Upto(Failed, threads)[i + 1] = Upto(Failed, threads)[i] + Failed[i]
      BY <1>2, UptoStep, Zenon, ZenonT(60)
    <3>2. QED
      BY <1>2, <1>4, <1>6, <3>1, Zenon, ZenonT(60) DEF Holds, r
  <2>4. ASSUME NEW x \in Buckets
        PROVE  total'.hist[x] = Upto(InBucket(x), threads)[i + 1]
    <3> DEFINE f == InBucket(x)
    <3>1. \A n \in 0..(threads - 1) : f[n] \in Nat
      BY <1>2, Zenon, ZenonT(60)
    <3>2. f[i] = r.hist[x] /\ total.hist[x] = Upto(f, threads)[i]
      BY <1>2, <1>4, Zenon, ZenonT(60) DEF Holds, r
    <3> HIDE DEF f
    <3>3. Upto(f, threads)[i + 1] = Upto(f, threads)[i] + f[i]
      BY <1>2, <3>1, UptoStep, Zenon, ZenonT(60)
    <3>4. total'.hist[x] = total.hist[x] + r.hist[x]
      BY <1>6
    <3>5. QED
      BY <3>2, <3>3, <3>4, Zenon, ZenonT(60) DEF f
  <2>5. total'.sampled_bad = 0 <=> \A n \in 0..i : ws[n].sampled_bad = 0
    <3>1. total.sampled_bad = 0 <=> \A n \in 0..(i - 1) : ws[n].sampled_bad = 0
      BY <1>4, Zenon, ZenonT(60) DEF Holds
    <3>2. \A n : n \in 0..i <=> n \in 0..(i - 1) \/ n = i
      BY <1>2
    <3>3. total'.sampled_bad = 0 <=> total.sampled_bad = 0 /\ r.sampled_bad = 0
      BY <1>5, <1>6
    <3>4. QED
      BY <3>1, <3>2, <3>3, Zenon, ZenonT(60) DEF r
  <2>6. 0..(i' - 1) = 0..i
    BY <1>1, <1>2
  <2>7. QED
    BY <1>1, <1>10, <2>1, <2>2, <2>3, <2>4, <2>5, <2>6, Zenon, ZenonT(60) DEF Holds
<1>12. QED
  BY <1>1, <1>7, <1>8, <1>9, <1>11, Zenon, ZenonT(60) DEF Aggregated

\* Every step keeps the aggregate.
LEMMA AggregatedNext ==
  ASSUME Crew, Aggregated, [MainNext]_mainVars
  PROVE  Aggregated'
<1> USE DEF argVars, fleetVars, scanVars
<1>1. CASE Joined
  <2>1. /\ mpc = "join" /\ mpc' = "add" /\ i' = 0 /\ total = Zero
        /\ UNCHANGED <<total, threads, ws>>
    BY <1>1 DEF Joined, Aggregated
  <2>2. /\ threads \in Nat
        /\ \A n \in 0..(threads - 1) :
             Offered[n] \in Nat /\ Completed[n] \in Nat /\ Failed[n] \in Nat
        /\ \A x \in Buckets : \A n \in 0..(threads - 1) : InBucket(x)[n] \in Nat
    BY <2>1, CrewSums, Zenon, ZenonT(60)
  <2>3. /\ Upto(Offered, threads)[0] = 0 /\ Upto(Completed, threads)[0] = 0
        /\ Upto(Failed, threads)[0] = 0
    BY <2>2, UptoStep, Zenon, ZenonT(60)
  <2>4. ASSUME NEW x \in Buckets PROVE Upto(InBucket(x), threads)[0] = 0
    <3> DEFINE f == InBucket(x)
    <3>1. \A n \in 0..(threads - 1) : f[n] \in Nat
      BY <2>2, Zenon, ZenonT(60)
    <3> HIDE DEF f
    <3>2. QED
      BY <2>2, <3>1, UptoStep DEF f
  <2>5. /\ Zero.offered = 0 /\ Zero.completed = 0 /\ Zero.failed = 0
        /\ Zero.sampled_bad = 0
        /\ \A x \in Buckets : Zero.hist[x] = 0
    BY Zenon, ZenonT(60) DEF Zero
  <2>6. Holds(0)
    BY <2>1, <2>3, <2>4, <2>5 DEF Holds
  <2>7. Holds(0)'
    BY <2>1, <2>6, Zenon, ZenonT(60)
       DEF Holds, Offered, Completed, Failed, InBucket, Ids
  <2>8. QED
    BY <2>1, <2>7, Zenon, ZenonT(60) DEF Aggregated
<1>2. CASE Added
  <2>1. /\ mpc = "add" /\ i = threads /\ mpc' \in {"max", "report"}
        /\ UNCHANGED <<total, threads, ws>>
    BY <1>2 DEF Added
  <2>2. Holds(threads)
    BY <2>1 DEF Aggregated
  <2>3. Holds(threads)'
    BY <2>1, <2>2, Zenon, ZenonT(60)
       DEF Holds, Offered, Completed, Failed, InBucket, Ids
  <2>4. QED
    BY <2>1, <2>3 DEF Aggregated
<1>3. CASE MaxBucket \/ ScanBucket \/ UNCHANGED mainVars
  <2>1. /\ UNCHANGED <<total, threads, ws, i>>
        /\ mpc' = mpc \/ (mpc \in {"max", "scan"} /\ mpc' \in {"scan", "report"})
    BY <1>3 DEF MaxBucket, ScanBucket, mainVars
  <2>2. \A k : Holds(k)' <=> Holds(k)
    BY <2>1, Zenon, ZenonT(60) DEF Holds, Offered, Completed, Failed, InBucket, Ids
  <2>3. QED
    BY <2>1, <2>2, Zenon, ZenonT(60) DEF Aggregated
<1>4. CASE Args \/ CreateThread \/ Created \/ JoinThread
  <2>1. /\ UNCHANGED total
        /\ mpc \in {"args", "create", "join"}
        /\ mpc' \in {"create", "failed", "join", "crashed"}
    BY <1>4, Zenon, ZenonT(60) DEF Args, CreateThread, Created, JoinThread
  <2>2. QED
    BY <2>1 DEF Aggregated
<1>5. ASSUME NEW n \in DOMAIN th, ThreadReturns(n) PROVE Aggregated'
  <2>1. UNCHANGED <<total, mpc>> /\ th[n] = "running"
    BY <1>5 DEF ThreadReturns
  <2>2. mpc \notin {"add", "max", "scan", "report"}
    BY <2>1, Zenon, ZenonT(60) DEF Crew
  <2>3. QED
    BY <2>1, <2>2 DEF Aggregated
<1>6. QED
  BY <1>1, <1>2, <1>3, <1>4, <1>5, AggregateKeeps, Zenon, ZenonT(60) DEF MainNext

\* A larger share of m is no less.
LEMMA LargerShare ==
  ASSUME NEW q \in Nat, NEW p \in Nat, NEW m \in Nat, q <= p
  PROVE  q * m \in Nat /\ p * m \in Nat /\ q * m <= p * m
  OBVIOUS

\* The prefix sums of the aggregate, from nothing to everything.
LEMMA BelowFacts ==
  ASSUME Aggregated
  PROVE  /\ total.completed \in Nat /\ \A b \in Buckets : total.hist[b] \in Nat
         /\ Below[0] = 0 /\ Below[HBUCKETS + 1] = total.completed
         /\ \A b \in Buckets : /\ Below[b] \in Nat /\ Below[b + 1] \in Nat
                               /\ Below[b + 1] = Below[b] + total.hist[b]
<1> DEFINE n == HBUCKETS + 1
           h == total.hist
<1>1. /\ n \in Nat /\ 0..(n - 1) = Buckets
      /\ \A b \in Buckets : b \in 0..n /\ b + 1 \in 0..n
  BY MainAssumption DEF Buckets
<1>2. h \in [Buckets -> Nat] /\ total.completed \in Nat /\ SumTo(h, n) = total.completed
  BY Zenon, ZenonT(60) DEF Aggregated, Totals
<1> HIDE DEF n, h
<1>3. /\ Upto(h, n)[0] = 0 /\ \A k \in 0..n : Upto(h, n)[k] \in Nat
      /\ \A k \in 0..(n - 1) : Upto(h, n)[k + 1] = Upto(h, n)[k] + h[k]
  BY <1>1, <1>2, UptoStep, Zenon, ZenonT(60)
<1>4. QED
  BY <1>1, <1>2, <1>3, Zenon, ZenonT(60) DEF Below, SumTo, n, h

\* Who reaches a quantile reaches the lower ones.
LEMMA ReachedDown ==
  ASSUME NEW n \in Nat, total.completed \in Nat, Reached(n, Q999)
  PROVE  \A q \in Quantiles : Reached(n, q)
<1>1. Q50 \in Nat /\ Q99 \in Nat /\ Q999 \in Nat /\ Q50 <= Q99 /\ Q99 <= Q999
  BY MainAssumption
<1>2. \A q \in Quantiles : q * total.completed <= Q999 * total.completed
        /\ q * total.completed \in Nat /\ Q999 * total.completed \in Nat
  BY <1>1, LargerShare DEF Quantiles
<1>3. QED
  BY <1>2 DEF Reached

\* All completed connections reach all quantiles.
LEMMA AllReached ==
  ASSUME total.completed \in Nat
  PROVE  Reached(total.completed, Q999)
<1>1. Q999 * total.completed <= 1000 * total.completed
  BY MainAssumption, LargerShare
<1>2. QED
  BY <1>1, MainAssumption, LargerShare DEF Reached

\* The loop for the maximum.
LEMMA MaxBucketKeeps ==
  ASSUME Crew, Aggregated, Scanned, MaxBucket
  PROVE  Scanned'
<1>1. /\ mpc = "max" /\ UNCHANGED <<total, cum, pct>>
      /\ bkt \in Buckets /\ total.completed > 0 /\ maxb \in Buckets
      /\ cum = 0 /\ DOMAIN pct = {}
      /\ \A x \in Buckets : maxb < x /\ x < bkt => total.hist[x] = 0
  BY Zenon, ZenonT(60) DEF MaxBucket, Scanned
<1>2. /\ maxb' \in {maxb, bkt}
      /\ total.hist[bkt] > 0 => maxb' = bkt
      /\ \/ bkt = HBUCKETS /\ bkt' = 0 /\ mpc' = "scan"
         \/ bkt # HBUCKETS /\ bkt' = bkt + 1 /\ mpc' = "max"
  BY <1>1, Zenon, ZenonT(60) DEF MaxBucket
<1>3. HBUCKETS \in Nat /\ Buckets = 0..HBUCKETS
  BY MainAssumption DEF Buckets
<1>4. \A x \in Buckets : total.hist[x] \in Nat
  BY BelowFacts, Zenon, ZenonT(60)
<1>5. \A x \in Buckets : maxb' < x /\ x <= bkt => total.hist[x] = 0
  BY <1>1, <1>2, <1>3, <1>4
<1>6. CASE bkt = HBUCKETS /\ bkt' = 0 /\ mpc' = "scan"
  <2>1. \A x \in Buckets : maxb' < x => total.hist[x] = 0
    BY <1>3, <1>5, <1>6
  <2>2. bkt' \in Buckets /\ 0..(bkt' - 1) = {} /\ maxb' \in Buckets
    BY <1>1, <1>2, <1>3, <1>6
  <2>3. Below' = Below /\ Below[0] = 0
    BY <1>1, BelowFacts, Zenon, ZenonT(60) DEF Below
  <2>4. QED
    BY <1>1, <1>6, <2>1, <2>2, <2>3, Zenon, ZenonT(60) DEF Scanned
<1>7. CASE bkt # HBUCKETS /\ bkt' = bkt + 1 /\ mpc' = "max"
  <2>1. bkt' \in Buckets /\ maxb' \in Buckets
    BY <1>1, <1>2, <1>3, <1>7
  <2>2. \A x \in Buckets : maxb' < x /\ x < bkt' => total.hist[x] = 0
    BY <1>1, <1>3, <1>5, <1>7
  <2>3. QED
    BY <1>1, <1>7, <2>1, <2>2, Zenon, ZenonT(60) DEF Scanned
<1>8. QED
  BY <1>2, <1>6, <1>7, Zenon, ZenonT(60)

\* One bucket of the percentile loop.
LEMMA ScanBucketKeeps ==
  ASSUME Crew, Aggregated, Scanned, ScanBucket
  PROVE  Scanned'
<1> DEFINE D == DOMAIN pct \cup {x \in Quantiles : Reached(cum', x)}
<1>1. /\ mpc = "scan" /\ UNCHANGED <<total, maxb>> /\ cum' = cum + total.hist[bkt]
      /\ pct' = [q \in D |-> IF q \in DOMAIN pct THEN pct[q] ELSE bkt]
      /\ \/ /\ Q999 \in DOMAIN pct' \/ bkt = HBUCKETS
            /\ mpc' = "report" /\ bkt' = bkt
         \/ /\ Q999 \notin DOMAIN pct' /\ bkt # HBUCKETS
            /\ mpc' = mpc /\ bkt' = bkt + 1
  BY Zenon, ZenonT(60) DEF ScanBucket
<1>2. /\ bkt \in Buckets /\ total.completed > 0 /\ maxb \in Buckets
      /\ \A x \in Buckets : maxb < x => total.hist[x] = 0
      /\ cum = Below[bkt] /\ DOMAIN pct \subseteq Quantiles \ {Q999}
      /\ \A q \in DOMAIN pct : First(pct[q], q)
      /\ \A q \in Quantiles \ DOMAIN pct :
            \A x \in 0..(bkt - 1) : ~Reached(Below[x + 1], q)
  BY <1>1, Zenon, ZenonT(60) DEF Scanned
<1>3. HBUCKETS \in Nat /\ Buckets = 0..HBUCKETS
  BY MainAssumption DEF Buckets
<1>4. cum' = Below[bkt + 1] /\ cum' \in Nat
  BY <1>1, <1>2, BelowFacts, Zenon, ZenonT(60)
<1>5. DOMAIN pct' = D /\ \A q \in D : pct'[q] = IF q \in DOMAIN pct THEN pct[q] ELSE bkt
  BY <1>1, Zenon, ZenonT(60)
<1>6. D \subseteq Quantiles
  BY <1>2, Zenon, ZenonT(60)
<1>7. \A x, q : Reached(x, q)' <=> Reached(x, q)
  BY <1>1 DEF Reached
<1>8. Below' = Below /\ \A a, q : First(a, q)' <=> First(a, q)
  BY <1>1 DEF Below, First, Reached
<1>9. \A q \in D \ DOMAIN pct : Reached(cum', q)
  OBVIOUS
<1>10. \A q \in Quantiles \ D : ~Reached(cum', q) /\ q \notin DOMAIN pct
  OBVIOUS
<1> HIDE DEF D
<1>11. ASSUME NEW q \in D PROVE First(pct'[q], q)
  <2>1. CASE q \in DOMAIN pct
    BY <1>2, <1>5, <2>1, Zenon, ZenonT(60)
  <2>2. CASE q \notin DOMAIN pct
    <3>1. Reached(Below[bkt + 1], q) /\ pct'[q] = bkt
      BY <1>4, <1>5, <1>9, <2>2, Zenon, ZenonT(60)
    <3>2. \A x \in 0..(bkt - 1) : ~Reached(Below[x + 1], q)
      BY <1>2, <1>6, <2>2, Zenon, ZenonT(60)
    <3>3. QED
      BY <1>2, <3>1, <3>2, Zenon, ZenonT(60) DEF First
  <2>3. QED
    BY <2>1, <2>2, Zenon, ZenonT(60)
<1>12. ASSUME Q999 \in DOMAIN pct' \/ bkt = HBUCKETS, mpc' = "report"
       PROVE  Scanned'
  <2>1. Reached(cum', Q999)
    <3>1. CASE Q999 \in DOMAIN pct'
      BY <1>2, <1>5, <1>9, <3>1, Zenon, ZenonT(60)
    <3>2. CASE bkt = HBUCKETS
      BY <1>4, <3>2, BelowFacts, AllReached, Zenon, ZenonT(60)
    <3>3. QED
      BY <1>12, <3>1, <3>2
  <2>2. \A q \in Quantiles : Reached(cum', q)
    BY <1>4, <2>1, BelowFacts, ReachedDown
  <2>3. D = Quantiles
    BY <1>6, <1>10, <2>2, Zenon, ZenonT(60)
  <2>4. QED
    BY <1>1, <1>2, <1>5, <1>8, <1>11, <1>12, <2>3, Zenon, ZenonT(60) DEF Scanned
<1>13. ASSUME Q999 \notin DOMAIN pct', bkt # HBUCKETS, mpc' = mpc, bkt' = bkt + 1
       PROVE  Scanned'
  <2>1. bkt' \in Buckets
    BY <1>2, <1>3, <1>13
  <2>2. ASSUME NEW q \in Quantiles \ D, NEW x \in 0..(bkt' - 1)
        PROVE  ~Reached(Below[x + 1], q)
    <3>1. CASE x = bkt
      BY <1>4, <1>10, <3>1
    <3>2. CASE x # bkt
      <4>1. x \in 0..(bkt - 1)
        BY <1>2, <1>3, <1>13, <3>2
      <4>2. QED
        BY <1>2, <1>10, <4>1, Zenon, ZenonT(60)
    <3>3. QED
      BY <3>1, <3>2, Zenon, ZenonT(60)
  <2>3. DOMAIN pct' \subseteq Quantiles \ {Q999}
    BY <1>5, <1>6, <1>13, Zenon, ZenonT(60)
  <2>4. cum' = Below[bkt']
    BY <1>4, <1>13
  <2>5. QED
    BY <1>1, <1>2, <1>5, <1>7, <1>8, <1>11, <1>13, <2>1, <2>2, <2>3, <2>4, Zenon, ZenonT(60)
       DEF Scanned
<1>14. QED
  BY <1>1, <1>12, <1>13, Zenon, ZenonT(60)

\* Every step keeps the scan.
LEMMA ScannedNext ==
  ASSUME Crew, Aggregated, Scanned, [MainNext]_mainVars
  PROVE  Scanned'
<1> USE DEF argVars, fleetVars, scanVars
<1>1. CASE Added
  <2>1. /\ mpc = "add" /\ UNCHANGED <<total, bkt, cum, pct, maxb>>
        /\ \/ mpc' = "max" /\ total.completed > 0
           \/ mpc' = "report" /\ ~(total.completed > 0)
    BY <1>1 DEF Added
  <2>2. 0 \in Buckets
    BY MainAssumption DEF Buckets
  <2>3. \A x \in Buckets : ~(x < 0)
    BY MainAssumption DEF Buckets
  <2>4. QED
    BY <2>1, <2>2, <2>3, Zenon, ZenonT(60) DEF Scanned
<1>2. CASE Args \/ CreateThread \/ Created \/ JoinThread \/ Joined
  <2>1. /\ mpc \in {"args", "create", "join"}
        /\ mpc' \in {"create", "failed", "join", "crashed", "add"}
        /\ UNCHANGED <<bkt, cum, pct, maxb>>
    BY <1>2, Zenon, ZenonT(60) DEF Args, CreateThread, Created, JoinThread, Joined
  <2>2. QED
    BY <2>1, Zenon, ZenonT(60) DEF Scanned
<1>3. CASE Aggregate
  <2>1. mpc = "add" /\ mpc' = "add" /\ UNCHANGED <<bkt, cum, pct, maxb>>
    BY <1>3 DEF Aggregate
  <2>2. QED
    BY <2>1, Zenon, ZenonT(60) DEF Scanned
<1>4. CASE (\E n \in DOMAIN th : ThreadReturns(n)) \/ UNCHANGED mainVars
  <2>1. UNCHANGED <<mpc, total, bkt, cum, pct, maxb>>
    BY <1>4 DEF ThreadReturns, mainVars
  <2>2. Below' = Below /\ \A x, q : (Reached(x, q)' <=> Reached(x, q))
                                    /\ (First(x, q)' <=> First(x, q))
    BY <2>1 DEF Below, First, Reached
  <2>3. QED
    BY <2>1, <2>2, Zenon, ZenonT(60) DEF Scanned
<1>5. QED
  BY <1>1, <1>2, <1>3, <1>4, MaxBucketKeeps, ScanBucketKeeps DEF MainNext

\* The three together.
LEMMA MainInvariant == MainSpec => [](Crew /\ Aggregated /\ Scanned)
<1>1. Crew /\ Aggregated /\ Scanned /\ [MainNext]_mainVars
        => (Crew /\ Aggregated /\ Scanned)'
  BY CrewNext, AggregatedNext, ScannedNext
<1>2. QED
  BY <1>1, CrewInit, PTL DEF MainSpec

\* Whatever --threads and --conns are, the threads of the closed loop share out
\* exactly --conns connections and each has at least one (main's clamp and its
\* conns/threads plus one for the first conns%threads).
THEOREM SharesAreExact == MainSpec => []SharesCoverTarget
<1>1. Crew => SharesCoverTarget
  BY SharesAddUp DEF SharesCoverTarget
<1>2. QED
  BY <1>1, MainInvariant, PTL

\* The report adds up every thread's counters once, after the thread has ended,
\* for any number of threads and whatever each has counted.
THEOREM ReportAddsUp == MainSpec => []ReportComplete
<1>1. Crew /\ Aggregated => ReportComplete
  <2> SUFFICES ASSUME Crew, Aggregated, mpc = "report" PROVE ReportComplete
    BY Zenon, ZenonT(60) DEF ReportComplete
  <2>1. Holds(threads) /\ \A n \in Ids : th[n] # "running"
    BY Zenon, ZenonT(60) DEF Crew, Aggregated
  <2>2. total.completed + total.failed >= total.offered
        /\ SumTo(total.hist, HBUCKETS + 1) = total.completed
    BY Zenon, ZenonT(60) DEF Aggregated, Totals
  <2>3. total.sampled_bad = 0 <=> \A n \in Ids : ws[n].sampled_bad = 0
    BY <2>1, Zenon, ZenonT(60) DEF Holds, Ids
  <2>4. QED
    BY <2>1, <2>2, <2>3, Zenon, ZenonT(60)
       DEF ReportComplete, Holds, SumTo, Offered, Completed, Failed
<1>2. QED
  BY <1>1, MainInvariant, PTL

\* What the property counts is what the scan has added up.
LEMMA AtLeastIsReached ==
  ASSUME Crew, Aggregated, mpc = "report", NEW a \in Buckets, NEW q
  PROVE  AtLeast(a, q) <=> Reached(Below[a + 1], q)
<1> DEFINE n == HBUCKETS + 1
           h == total.hist
<1>1. n \in Nat /\ 0..(n - 1) = Buckets /\ a + 1 \in 0..n
  BY MainAssumption DEF Buckets
<1>2. Holds(threads) /\ h \in [Buckets -> Nat]
  BY DEF Aggregated, Totals
<1>3. h = [x \in Buckets |-> SumTo([m \in Ids |-> ws[m].hist[x]], threads)]
  <2>1. \A x \in Buckets : h[x] = SumTo([m \in Ids |-> ws[m].hist[x]], threads)
    BY <1>2, Zenon, ZenonT(60) DEF Holds, InBucket, SumTo
  <2>2. QED
    BY <1>2, <2>1, Zenon, ZenonT(60)
<1>4. total.completed = SumTo([m \in Ids |-> ws[m].completed], threads)
  BY <1>2, Zenon, ZenonT(60) DEF Holds, Completed, SumTo
<1>5. SumTo(h, a + 1) = Below[a + 1]
  <2> HIDE DEF n, h
  <2>1. SumTo(h, a + 1) = Upto(h, n)[a + 1]
    BY <1>1, <1>2, SumToIs, Zenon, ZenonT(60)
  <2>2. QED
    BY <2>1 DEF Below, n, h
<1>6. AtLeast(a, q) <=> 1000 * SumTo(h, a + 1) >= q * total.completed
  BY <1>3, <1>4 DEF AtLeast
<1>7. QED
  BY <1>5, <1>6 DEF Reached

\* The scan with its early break finds, for every histogram, the bucket of each
\* of the three quantiles, in order and not above the highest one in use.
THEOREM PercentilesAreRight == MainSpec => []PercentilesRight
<1>1. Crew /\ Aggregated /\ Scanned => PercentilesRight
  <2> SUFFICES ASSUME Crew, Aggregated, Scanned, mpc = "report",
                      total.completed > 0
               PROVE  PercentilesRight
    BY DEF PercentilesRight
  <2>1. /\ DOMAIN pct = Quantiles /\ \A q \in Quantiles : First(pct[q], q)
        /\ \A x \in Buckets : maxb < x => total.hist[x] = 0
        /\ maxb \in Buckets
    BY Zenon, ZenonT(60) DEF Scanned
  <2>2. HBUCKETS \in Nat /\ Buckets = 0..HBUCKETS
    BY MainAssumption DEF Buckets
  <2>3. ASSUME NEW q \in Quantiles
        PROVE  /\ pct[q] \in Buckets /\ AtLeast(pct[q], q)
               /\ \A a \in 0..(pct[q] - 1) : ~AtLeast(a, q)
    <3>1. pct[q] \in Buckets /\ Reached(Below[pct[q] + 1], q)
          /\ \A x \in 0..(pct[q] - 1) : ~Reached(Below[x + 1], q)
      BY <2>1 DEF First
    <3>2. \A a \in 0..(pct[q] - 1) : a \in Buckets
      BY <2>2, <3>1
    <3>3. QED
      BY <3>1, <3>2, AtLeastIsReached, Zenon, ZenonT(60)
  <2>4. ASSUME NEW q \in Quantiles, NEW p \in Quantiles, q <= p
        PROVE  pct[q] <= pct[p]
    <3>1. pct[q] \in Nat /\ pct[p] \in Nat /\ pct[p] \in Buckets
      BY <2>2, <2>3
    <3>2. Reached(Below[pct[p] + 1], p) /\ Below[pct[p] + 1] \in Nat
      BY <2>1, <3>1, BelowFacts, Zenon, ZenonT(60) DEF First
    <3>3. q \in Nat /\ p \in Nat /\ total.completed \in Nat
      BY MainAssumption, BelowFacts DEF Quantiles
    <3>4. q * total.completed <= p * total.completed
          /\ q * total.completed \in Nat /\ p * total.completed \in Nat
      BY <2>4, <3>3, LargerShare, Zenon, ZenonT(60)
    <3>5. Reached(Below[pct[p] + 1], q)
      BY <3>2, <3>4 DEF Reached
    <3>6. pct[p] \notin 0..(pct[q] - 1)
      BY <2>1, <3>5 DEF First
    <3>7. QED
      BY <3>1, <3>6
  <2>5. pct[Q999] <= maxb
    <3> DEFINE a == pct[Q999]
    <3>1. First(a, Q999) /\ a \in 0..HBUCKETS /\ maxb \in 0..HBUCKETS
      BY <2>1, <2>2, <2>3 DEF Quantiles
    <3> HIDE DEF a
    <3> SUFFICES ASSUME maxb < a PROVE FALSE
      BY <2>2, <3>1 DEF a
    <3>2. a - 1 \in Buckets /\ a \in Buckets /\ a - 1 \in 0..(a - 1)
          /\ (a - 1) + 1 = a
      BY <2>2, <3>1
    <3>3. total.hist[a] = 0
      BY <2>1, <3>2, Zenon, ZenonT(60)
    <3>4. Below[a + 1] = Below[a] /\ Below[a] \in Nat
      BY <3>2, <3>3, BelowFacts
    <3>5. Reached(Below[a], Q999)
      BY <3>1, <3>4 DEF First
    <3>6. ~Reached(Below[a], Q999)
      BY <3>1, <3>2 DEF First
    <3>7. QED
      BY <3>5, <3>6, Zenon, ZenonT(60)
  <2>6. pct[Q50] <= pct[Q99] /\ pct[Q99] <= pct[Q999]
    BY <2>4, MainAssumption DEF Quantiles
  <2>7. QED
    BY <2>1, <2>3, <2>5, <2>6, Zenon, ZenonT(60) DEF PercentilesRight
<1>2. QED
  BY <1>1, MainInvariant, PTL
=============================================================================
