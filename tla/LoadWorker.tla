----------------------------- MODULE LoadWorker -----------------------------
(***************************************************************************)
(* One thread of the load generator (src/research/loadgen/loadgen.c):      *)
(* worker_main with conn_start, handle, conn_fail and conn_done.  The      *)
(* thread opens connections, either keeping w.conns of them in flight      *)
(* (closed loop) or one every w.interval (open loop), writes a request on  *)
(* each, reads the reply, checks it, and accounts for every connection in  *)
(* the counters main adds up.                                              *)
(*                                                                         *)
(* Time is counted in ticks from the thread's start, and "t" is the time   *)
(* read at the top of the loop, used until the next pass.  What the server *)
(* and the network do is the choice of the environment: which connections  *)
(* epoll_wait reports, how much each write and read transfers, and errors. *)
(* The address pool (fill_src) and running out of memory are left out.     *)
(***************************************************************************)
EXTENDS Integers, FiniteSets, Histogram

CONSTANTS
  Conns,         \* addresses calloc can return for a conn_t
  Configs,       \* the parameters main may give the thread
  MAX_INFLIGHT,
  REQ_LEN, REPLY_LEN,
  HUS_PER,       \* width of a histogram bucket
  PctBase,       \* 100: w.sample_pct of every PctBase connections are sampled
  DrainTime,     \* 5 s
  EventBatch,    \* size of the epoll_wait array
  MaxTime,       \* bound on the clock
  MaxStarts      \* bound on the calls of conn_start

ASSUME LoadAssumption ==
  /\ IsFiniteSet(Conns)
  /\ Configs \subseteq [conns: Nat, interval: Nat \ {0}, duration: Nat,
                        sample_pct: Nat]
  /\ MAX_INFLIGHT \in Nat /\ REQ_LEN \in Nat \ {0} /\ REPLY_LEN \in Nat \ {0}
  /\ HBUCKETS \in Nat /\ HUS_PER \in Nat \ {0} /\ PctBase \in Nat \ {0}
  /\ DrainTime \in Nat /\ EventBatch \in Nat \ {0} /\ MaxStarts \in Nat
  /\ MaxTime \in Nat
  /\ \A g \in Configs : g.duration + DrainTime <= MaxTime

VARIABLES
  w,              \* worker_t: the parameters
  now,            \* the monotonic clock
  pc,             \* where the thread is
  t,              \* the time read at the top of the loop
  next_start,     \* when the open loop starts its next connection
  inflight,       \* connections started and not resolved
  conn,           \* the conn_t's allocated and not freed
  evs,            \* events of this pass still to be handled
  offered, completed, failed, sampled_total, sampled_bad, hist,   \* worker_t
  unstarted,      \* history: calls of conn_start that failed
  burst,          \* history: calls of conn_start in this pass
  heard           \* history: what this pass's completed connections received

threadVars == <<w, t, next_start, unstarted, burst>>
results == <<offered, completed, failed, sampled_total, sampled_bad, hist>>
vars == <<w, now, pc, t, next_start, inflight, conn, evs, results, unstarted,
          burst, heard>>

Reasons ==
  {"connect", "reset", "timeout", "truncated", "wrongbytes", "other"}

\* What the server has sent on a connection that has received REPLY_LEN bytes:
\* exactly REPLY, REPLY and more, other bytes between the right first and last
\* one, or a wrong first or last byte.
Replies == {"exact", "longer", "inner", "wrong"}

\* conn_t; state is 0 connecting, 1 writing, 2 reading.
Conn == [state: 0..2, got: 0..REPLY_LEN, sent: 0..REQ_LEN, sampled: BOOLEAN,
         t0: Nat]

tend == w.duration
drain_deadline == tend + DrainTime
cap == IF w.conns > 0 THEN w.conns ELSE MAX_INFLIGHT
starts == offered + unstarted

TypeOK ==
  /\ w \in Configs
  /\ now \in Nat /\ t \in Nat /\ t <= now
  /\ pc \in {"top", "start", "wait", "events", "done"}
  /\ next_start \in Nat /\ inflight \in Nat
  /\ DOMAIN conn \subseteq Conns /\ conn \in [DOMAIN conn -> Conn]
  /\ evs \subseteq Conns
  /\ offered \in Nat /\ completed \in Nat /\ failed \in [Reasons -> Nat]
  /\ sampled_total \in Nat /\ sampled_bad \in Nat
  /\ hist \in [Buckets -> Nat]
  /\ unstarted \in Nat /\ burst \in Nat
  /\ heard \subseteq [sampled: BOOLEAN, reply: Replies]

Init ==
  /\ w \in Configs
  /\ now = 0 /\ t = 0 /\ next_start = 0
  /\ pc = "top"
  /\ inflight = 0 /\ conn = [c \in {} |-> 0] /\ evs = {}
  /\ offered = 0 /\ completed = 0 /\ failed = [r \in Reasons |-> 0]
  /\ sampled_total = 0 /\ sampled_bad = 0
  /\ hist = [b \in Buckets |-> 0]
  /\ unstarted = 0 /\ burst = 0 /\ heard = {}

-----------------------------------------------------------------------------
(* The top of the loop.                                                     *)

\* The time is over and nothing is in flight.
Finish ==
  /\ pc = "top" /\ now >= tend /\ inflight = 0
  /\ pc' = "done" /\ t' = now
  /\ UNCHANGED <<w, now, next_start, inflight, conn, evs, results, unstarted,
                 burst, heard>>

\* Variant: the stragglers are forgotten.
GiveUp_Silent ==
  /\ pc = "top" /\ now >= drain_deadline /\ inflight > 0
  /\ pc' = "done" /\ t' = now
  /\ UNCHANGED <<w, now, next_start, inflight, conn, evs, results, unstarted,
                 burst, heard>>

\* Variant: the drain has no deadline.
GiveUp_Never == FALSE /\ UNCHANGED vars

\* The drain has taken too long: the stragglers are counted as timeouts.
GiveUp ==
  /\ pc = "top" /\ now >= drain_deadline /\ inflight > 0
  /\ pc' = "done" /\ t' = now
  /\ failed' = [failed EXCEPT !["timeout"] = @ + inflight]
  /\ UNCHANGED <<w, now, next_start, inflight, conn, evs, offered, completed,
                 sampled_total, sampled_bad, hist, unstarted, burst, heard>>

NextPass ==
  /\ pc = "top" /\ now < drain_deadline /\ (now < tend \/ inflight > 0)
  /\ pc' = "start" /\ t' = now /\ heard' = {}
  /\ UNCHANGED <<w, now, next_start, inflight, conn, evs, results, unstarted,
                 burst>>

-----------------------------------------------------------------------------
(* The start loop: one call of conn_start at a time.                        *)

\* Variant: the open loop does not wait for its next start.
WantsStart_NoWait == t < tend /\ inflight < cap

\* The conditions of the two while loops.
WantsStart ==
  /\ t < tend /\ inflight < cap
  /\ w.conns > 0 \/ t >= next_start

StartLoop ==
  /\ pc = "start" /\ WantsStart /\ starts < MaxStarts
  /\ burst' = burst + 1

\* Variant: a thread that fell behind catches up.
Pace_NoClamp ==
  next_start' = IF w.conns > 0 THEN next_start ELSE next_start + w.interval

\* Variant: the next start is a whole pass away, whatever the interval.
Pace_Stalls == next_start' = IF w.conns > 0 THEN next_start ELSE t

\* next_start += interval, and never in the past.
Pace ==
  next_start' = IF w.conns > 0 THEN next_start
                ELSE IF next_start + w.interval < t THEN t
                ELSE next_start + w.interval

\* conn_start fails: no socket, or connect is refused at once.  The closed loop
\* leaves its while, the open loop goes on to the next start.
StartFails ==
  /\ StartLoop
  /\ \E r \in {"other", "connect"} : failed' = [failed EXCEPT ![r] = @ + 1]
  /\ unstarted' = unstarted + 1
  /\ Pace
  /\ pc' = IF w.conns > 0 THEN "wait" ELSE "start"
  /\ UNCHANGED <<w, now, t, inflight, conn, evs, offered, completed,
                 sampled_total, sampled_bad, hist, heard>>

Sampled == w.sample_pct > 0 /\ offered % PctBase < w.sample_pct

\* conn_start succeeds: the connect is under way and epoll watches the socket.
conn_start ==
  /\ StartLoop
  /\ \E c \in Conns \ DOMAIN conn :
       LET new == [state |-> 0, got |-> 0, sent |-> 0, sampled |-> Sampled,
                   t0 |-> now]
       IN  conn' = [d \in DOMAIN conn \cup {c} |->
                      IF d = c THEN new ELSE conn[d]]
  /\ offered' = offered + 1 /\ inflight' = inflight + 1
  /\ Pace
  /\ UNCHANGED <<w, now, pc, t, evs, completed, failed, sampled_total,
                 sampled_bad, hist, unstarted, heard>>

StartsDone ==
  /\ pc = "start" /\ (~WantsStart \/ starts = MaxStarts)
  /\ pc' = "wait"
  /\ UNCHANGED <<threadVars, now, inflight, conn, evs, results, heard>>

-----------------------------------------------------------------------------
(* epoll_wait and the events of one pass.                                   *)

\* Each watched socket is reported at most once; 1 ms may pass with none.
epoll_wait ==
  /\ pc = "wait"
  /\ evs' \in SUBSET DOMAIN conn /\ Cardinality(evs') <= EventBatch
  /\ pc' = "events" /\ burst' = 0
  /\ UNCHANGED <<w, t, next_start, unstarted, now, inflight, conn, results,
                 heard>>

EventsDone ==
  /\ pc = "events" /\ evs = {}
  /\ pc' = "top"
  /\ UNCHANGED <<threadVars, now, inflight, conn, evs, results, heard>>

\* handle is called for connection c.
Event(c) ==
  /\ pc = "events" /\ c \in evs
  /\ evs' = evs \ {c}
  /\ UNCHANGED <<threadVars, pc, now, offered>>

\* It returns 0: nothing is resolved, c is in state s.
Pending(c, s, sent, got) ==
  /\ conn' = [conn EXCEPT ![c] = [state |-> s, got |-> got, sent |-> sent,
                                  sampled |-> @.sampled, t0 |-> @.t0]]
  /\ UNCHANGED <<inflight, completed, failed, sampled_total, sampled_bad, hist,
                 heard>>

Free(c) == conn' = [d \in DOMAIN conn \ {c} |-> conn[d]]

\* Variant: the connection is freed but stays in flight.
Resolved_StillCounted(c) == Free(c) /\ UNCHANGED inflight

\* It returns 1: the socket is closed and unwatched, the conn_t freed.
Resolved(c) == Free(c) /\ inflight' = inflight - 1

conn_fail(c, r) ==
  /\ Resolved(c)
  /\ failed' = [failed EXCEPT ![r] = @ + 1]
  /\ UNCHANGED <<completed, hist, heard>>

NoSample == UNCHANGED <<sampled_total, sampled_bad>>

bucket(us) == IF us \div HUS_PER > HBUCKETS THEN HBUCKETS ELSE us \div HUS_PER

\* Variant: latencies beyond the last bucket are not recorded.
conn_done_NoOverflow(c, y) ==
  /\ Resolved(c)
  /\ completed' = completed + 1
  /\ LET b == (now - conn[c].t0) \div HUS_PER IN
       hist' = IF b < HBUCKETS THEN [hist EXCEPT ![b] = @ + 1] ELSE hist
  /\ heard' = heard \cup {[sampled |-> conn[c].sampled, reply |-> y]}
  /\ UNCHANGED failed

conn_done(c, y) ==
  /\ Resolved(c)
  /\ completed' = completed + 1
  /\ hist' = [hist EXCEPT ![bucket(now - conn[c].t0)] = @ + 1]
  /\ heard' = heard \cup {[sampled |-> conn[c].sampled, reply |-> y]}
  /\ UNCHANGED failed

\* EPOLLERR or EPOLLHUP; err is ECONNRESET or something else.
OnError(c) ==
  /\ Event(c)
  /\ \E reset \in BOOLEAN :
       conn_fail(c, IF conn[c].state = 0 THEN "connect"
                    ELSE IF reset THEN "reset"
                    ELSE IF conn[c].state = 2 THEN "truncated" ELSE "other")
  /\ NoSample

ConnectFails(c) ==
  /\ Event(c) /\ conn[c].state = 0
  /\ conn_fail(c, "connect")
  /\ NoSample

\* The write loop stops short: EAGAIN after some bytes, or an error.
WriteStops(c) ==
  /\ Event(c) /\ conn[c].state < 2
  /\ \/ \E n \in conn[c].sent .. (REQ_LEN - 1) : Pending(c, 1, n, 0)
     \/ \E r \in {"reset", "other"} : conn_fail(c, r) /\ NoSample

\* The request is out (now or before) and the read loop stops short: EAGAIN
\* after some bytes, end of file, or an error.
ReadStops(c) ==
  /\ Event(c)
  /\ \/ \E n \in conn[c].got .. (REPLY_LEN - 1) : Pending(c, 2, REQ_LEN, n)
     \/ \E r \in {"truncated", "reset", "other"} : conn_fail(c, r) /\ NoSample

\* The whole reply y is compared if the connection is sampled, else its first
\* and last byte.  Nothing is read after REPLY_LEN bytes.
Bad(c, y) == y \in IF conn[c].sampled THEN {"inner", "wrong"} ELSE {"wrong"}

\* REPLY_LEN bytes have been read.
ReadWhole(c) ==
  /\ Event(c)
  /\ \E y \in Replies :
       /\ sampled_total' = sampled_total + (IF conn[c].sampled THEN 1 ELSE 0)
       /\ sampled_bad' = sampled_bad
                         + (IF conn[c].sampled /\ Bad(c, y) THEN 1 ELSE 0)
       /\ IF Bad(c, y) THEN conn_fail(c, "wrongbytes") ELSE conn_done(c, y)

handle(c) ==
  OnError(c) \/ ConnectFails(c) \/ WriteStops(c) \/ ReadStops(c) \/ ReadWhole(c)

-----------------------------------------------------------------------------
worker_main ==
  \/ Finish \/ GiveUp \/ NextPass
  \/ StartFails \/ conn_start \/ StartsDone
  \/ epoll_wait \/ EventsDone
  \/ \E c \in Conns : handle(c)

Tick ==
  /\ now < MaxTime
  /\ now' = now + 1
  /\ UNCHANGED <<threadVars, pc, inflight, conn, evs, results, heard>>

Next == worker_main \/ Tick

Spec == Init /\ [][Next]_vars

\* The thread is scheduled and time passes.  The server may stay silent.
FairSpec == Spec /\ WF_vars(worker_main) /\ WF_vars(Tick)

-----------------------------------------------------------------------------
Total(f) == f["connect"] + f["reset"] + f["timeout"] + f["truncated"]
            + f["wrongbytes"] + f["other"]

\* Every connection the thread tried to open is counted exactly once: it is
\* completed, failed for one reason, or in flight; and at the end the stragglers
\* have become timeouts, so that nothing the server did not answer is missing
\* from the drop rate (failed_total / offered).
EveryConnCounted ==
  completed + Total(failed) + (IF pc = "done" THEN 0 ELSE inflight)
    = offered + unstarted

\* The in-flight count, which bounds the load and ends the drain, is the number
\* of connections that are allocated, within the cap; and an event of the
\* current pass never names a connection an earlier one has freed.
InflightIsLive ==
  /\ inflight = Cardinality(DOMAIN conn) /\ inflight <= cap
  /\ evs \subseteq DOMAIN conn

\* The open loop never offers more than the rate it was asked for: n starts
\* take at least n - 1 intervals, whatever the starts return and however late
\* the thread runs.
NeverAboveRate ==
  w.conns = 0 => next_start >= starts * w.interval
                 /\ (starts > 0 => (starts - 1) * w.interval <= t)

\* "don't build unbounded backlog" (loadgen.c:205): a thread that fell behind
\* does not catch up with a burst.
NoBurst == w.conns = 0 => burst <= 2

\* The clamp does not cost the pace (loadgen.c:203-206): an open loop is never
\* more than one interval from its next start, however long it was stalled, and
\* it does not wait for events while a start it has room for is due.
PaceKept ==
  w.conns = 0 =>
    /\ next_start <= t + w.interval
    /\ (pc = "wait" /\ t < tend /\ inflight < cap /\ starts < MaxStarts)
         => t < next_start

\* "The load generator validates that it received **exactly** these bytes on every
\* sampled connection. Any deviation (truncation, extra bytes, wrong bytes) fails
\* the run." (docs/PROJECT.md:46-47): a sampled connection is completed only when
\* the server sent REPLY and nothing else.  handle stops reading at REPLY_LEN bytes
\* (loadgen.c:164-176), so it does not see the rest of a longer reply.
SampledAreExact == \A h \in heard : h.sampled => h.reply = "exact"

\* The histogram holds every completed connection, the slow ones in the
\* overflow bucket: main divides its prefix sums by the completed count
\* (loadgen.c:268), so a missing latency would shift every percentile.
HistogramComplete == SumTo(hist, HBUCKETS + 1) = completed

\* The thread ends, however silent the server is.
Terminates == <>(pc = "done")
=============================================================================
