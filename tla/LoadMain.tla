------------------------------ MODULE LoadMain ------------------------------
(***************************************************************************)
(* main of the load generator (src/research/loadgen/loadgen.c): it shares  *)
(* the load out to threads, joins them, adds their counters up and reads   *)
(* the percentiles off the latency histogram.  A thread is what LoadWorker *)
(* says of it at its end: it counts every connection once                  *)
(* (EveryConnCounted) and its histogram holds every completed one          *)
(* (HistogramComplete).  Rates in seconds, CPU usage and the printing are  *)
(* left out.                                                               *)
(***************************************************************************)
EXTENDS Integers, Histogram

CONSTANTS
  ThreadArgs,        \* values of --threads
  ConnArgs,          \* values of --conns, 0 for the open loop
  Q50, Q99, Q999,    \* the three quantiles, per mille
  MaxPerThread,      \* bound: connections a thread tries to open
  MainFaults             \* which calls may fail

ASSUME MainAssumption ==
  /\ ThreadArgs \subseteq Int /\ ConnArgs \subseteq Int
  /\ HBUCKETS \in Nat /\ MaxPerThread \in Nat
  /\ Q50 \in Nat /\ Q99 \in Nat /\ Q999 \in Nat
  /\ 0 < Q50 /\ Q50 <= Q99 /\ Q99 <= Q999 /\ Q999 <= 1000
  /\ MainFaults \subseteq {"host", "thread"}

\* What a thread leaves in its worker_t.
Results ==
  { r \in [offered : 0..MaxPerThread, completed : 0..MaxPerThread,
           failed : 0..MaxPerThread, sampled_bad : 0..1,
           hist : [Buckets -> 0..MaxPerThread]] :
      /\ SumTo(r.hist, HBUCKETS + 1) = r.completed
      /\ r.completed + r.failed <= MaxPerThread
      /\ r.completed <= r.offered /\ r.offered <= r.completed + r.failed
      /\ r.sampled_bad <= r.offered - r.completed }

Zero == [offered |-> 0, completed |-> 0, failed |-> 0, sampled_bad |-> 0,
         hist |-> [b \in Buckets |-> 0]]

VARIABLES
  mpc, threads, conns,
  i,        \* the loop counter
  share,    \* ws[i].conns
  th,       \* the threads: none, running, returned
  ws,       \* the results in ws[i]
  total,    \* the aggregate
  bkt, cum,   \* the bucket and the prefix sum of the percentile loop
  pct,      \* the percentiles that are set, by quantile, as buckets
  maxb      \* the highest non-empty bucket

argVars == <<threads, conns>>
fleetVars == <<share, th, ws>>
scanVars == <<bkt, cum, pct, maxb>>
mainVars == <<mpc, argVars, i, fleetVars, total, scanVars>>

Ids == 0..(threads - 1)
Quantiles == {Q50, Q99, Q999}

MainTypeOK ==
  /\ mpc \in {"args", "create", "join", "add", "max", "scan", "report", "failed",
             "crashed"}
  /\ conns \in Int
  /\ mpc # "args" => threads \in Nat \ {0}
  /\ i \in Nat /\ bkt \in 0..(HBUCKETS + 1) /\ cum \in Nat
  /\ DOMAIN pct \subseteq Quantiles /\ \A q \in DOMAIN pct : pct[q] \in Buckets
  /\ maxb \in Buckets
  /\ DOMAIN th \subseteq Ids

MainInit ==
  /\ mpc = "args" /\ threads \in ThreadArgs /\ conns \in ConnArgs /\ i = 0
  /\ share = <<>> /\ th = <<>> /\ ws = <<>>
  /\ total = Zero
  /\ bkt = 0 /\ cum = 0 /\ pct = <<>> /\ maxb = 0

\* The function f with f[x] = v.
With(f, x, v) == [y \in DOMAIN f \cup {x} |-> IF y = x THEN v ELSE f[y]]

-----------------------------------------------------------------------------
(* Sharing the load out.                                                    *)

\* Variant: more threads than connections.
Clamped_ByOneOnly(n) == IF n < 1 THEN 1 ELSE n

\* At least one thread, and no more than target connections.
Clamped(n) ==
  LET m == IF n < 1 THEN 1 ELSE n
  IN  IF conns > 0 /\ m > conns THEN conns ELSE m

\* The arguments; an address inet_pton rejects ends the program with 2.
Args ==
  /\ mpc = "args"
  /\ threads' = Clamped(threads)
  /\ mpc' \in {"create"} \cup (IF "host" \in MainFaults THEN {"failed"} ELSE {})
  /\ UNCHANGED <<conns, i, fleetVars, total, scanVars>>

\* ws[i].conns; 0 makes the thread an open loop.
Share(n) ==
  IF conns > 0
  THEN conns \div threads + (IF n < conns % threads THEN 1 ELSE 0)
  ELSE 0

\* ws comes from calloc; the result of pthread_create is not looked at.
CreateThread ==
  /\ mpc = "create" /\ i < threads
  /\ share' = With(share, i, Share(i))
  /\ ws' = With(ws, i, Zero)
  /\ \E s \in {"running"} \cup (IF "thread" \in MainFaults THEN {"none"} ELSE {}) :
       th' = With(th, i, s)
  /\ i' = i + 1
  /\ UNCHANGED <<mpc, argVars, total, scanVars>>

Created ==
  /\ mpc = "create" /\ i = threads
  /\ mpc' = "join" /\ i' = 0
  /\ UNCHANGED <<argVars, fleetVars, total, scanVars>>

ThreadReturns(n) ==
  /\ n \in DOMAIN th /\ th[n] = "running" /\ mpc # "crashed"
  /\ th' = [th EXCEPT ![n] = "returned"]
  /\ \E r \in Results : ws' = [ws EXCEPT ![n] = r]
  /\ UNCHANGED <<mpc, argVars, i, share, total, scanVars>>

\* Variant: main does not wait for the threads.
JoinThread_NoWait ==
  /\ mpc = "join" /\ i < threads
  /\ i' = i + 1
  /\ UNCHANGED <<mpc, argVars, fleetVars, total, scanVars>>

\* pthread_join; on a thread that was never created it returns or crashes.
JoinThread ==
  /\ mpc = "join" /\ i < threads
  /\ \/ th[i] = "returned" /\ i' = i + 1 /\ UNCHANGED mpc
     \/ th[i] = "none" /\ i' = i + 1 /\ UNCHANGED mpc
     \/ th[i] = "none" /\ mpc' = "crashed" /\ UNCHANGED i
  /\ UNCHANGED <<argVars, fleetVars, total, scanVars>>

Joined ==
  /\ mpc = "join" /\ i = threads
  /\ mpc' = "add" /\ i' = 0
  /\ UNCHANGED <<argVars, fleetVars, total, scanVars>>

-----------------------------------------------------------------------------
(* The aggregate.                                                           *)

Plus(x, y) ==
  [offered     |-> x.offered + y.offered,
   completed   |-> x.completed + y.completed,
   failed      |-> x.failed + y.failed,
   sampled_bad |-> x.sampled_bad + y.sampled_bad,
   hist        |-> [a \in Buckets |-> x.hist[a] + y.hist[a]]]

Aggregate ==
  /\ mpc = "add" /\ i < threads
  /\ total' = Plus(total, ws[i])
  /\ i' = i + 1
  /\ UNCHANGED <<mpc, argVars, fleetVars, scanVars>>

\* if (tot > 0)
Added ==
  /\ mpc = "add" /\ i = threads
  /\ mpc' = IF total.completed > 0 THEN "max" ELSE "report"
  /\ UNCHANGED <<argVars, i, fleetVars, total, scanVars>>

\* The first loop over the buckets, which has no break.
MaxBucket ==
  /\ mpc = "max"
  /\ IF total.hist[bkt] > 0 THEN maxb' = bkt ELSE UNCHANGED maxb
  /\ IF bkt = HBUCKETS THEN bkt' = 0 /\ mpc' = "scan"
                     ELSE bkt' = bkt + 1 /\ UNCHANGED mpc
  /\ UNCHANGED <<argVars, i, fleetVars, total, cum, pct>>

\* Variant: strictly more than the quantile.
Reached_Strict(n, q) == 1000 * n > q * total.completed

\* c >= tot * q
Reached(n, q) == 1000 * n >= q * total.completed

\* One bucket of the second loop: every quantile reached for the first time is
\* set, and the third one ends the loop.
ScanBucket ==
  /\ mpc = "scan"
  /\ cum' = cum + total.hist[bkt]
  /\ pct' = [q \in DOMAIN pct \cup {x \in Quantiles : Reached(cum', x)} |->
               IF q \in DOMAIN pct THEN pct[q] ELSE bkt]
  /\ IF Q999 \in DOMAIN pct' \/ bkt = HBUCKETS
     THEN mpc' = "report" /\ UNCHANGED bkt
     ELSE bkt' = bkt + 1 /\ UNCHANGED mpc
  /\ UNCHANGED <<argVars, i, fleetVars, total, maxb>>

-----------------------------------------------------------------------------
MainNext ==
  \/ Args \/ CreateThread \/ Created \/ JoinThread \/ Joined
  \/ Aggregate \/ Added \/ MaxBucket \/ ScanBucket
  \/ \E n \in DOMAIN th : ThreadReturns(n)

MainSpec == MainInit /\ [][MainNext]_mainVars

-----------------------------------------------------------------------------
(* Properties.                                                              *)

\* The threads together hold exactly the --conns connections in flight, and none
\* of them has a share of 0, which would make it an unthrottled open loop beside
\* the closed ones (loadgen.c:190,231,246).
SharesCoverTarget ==
  (mpc = "join" /\ conns > 0) =>
    /\ SumTo(share, threads) = conns
    /\ \A n \in Ids : share[n] > 0

\* The report is made of finished threads only: the totals are the sums over
\* all threads (a thread that was never created adds the zeros of calloc), no
\* connection is missing from them, the histogram holds every completed one, and
\* reply_ok means that no thread saw wrong bytes.
ReportComplete ==
  mpc = "report" =>
    /\ \A n \in Ids : th[n] # "running"
    /\ total.offered = SumTo([n \in Ids |-> ws[n].offered], threads)
    /\ total.completed = SumTo([n \in Ids |-> ws[n].completed], threads)
    /\ total.failed = SumTo([n \in Ids |-> ws[n].failed], threads)
    /\ total.completed + total.failed >= total.offered
    /\ SumTo(total.hist, HBUCKETS + 1) = total.completed
    /\ total.sampled_bad = 0 <=> \A n \in Ids : ws[n].sampled_bad = 0

\* The completed connections of all threads in bucket a or below are at least
\* the share q of all completed ones.
AtLeast(a, q) ==
  LET hist == [x \in Buckets |-> SumTo([n \in Ids |-> ws[n].hist[x]], threads)]
  IN  1000 * SumTo(hist, a + 1)
        >= q * SumTo([n \in Ids |-> ws[n].completed], threads)

\* The single scan with its early break finds the three quantiles the report
\* names, each the first bucket with its share, in order and below the maximum,
\* ties and the overflow bucket included.
PercentilesRight ==
  (mpc = "report" /\ total.completed > 0) =>
    /\ DOMAIN pct = Quantiles
    /\ \A q \in Quantiles :
         /\ pct[q] \in Buckets /\ AtLeast(pct[q], q)
         /\ \A a \in 0..(pct[q] - 1) : ~AtLeast(a, q)
    /\ pct[Q50] <= pct[Q99] /\ pct[Q99] <= pct[Q999] /\ pct[Q999] <= maxb

\* "Connection failures ... < 0.01% of offered connections" (docs/PROJECT.md:110):
\* the drop rate is a share of what was offered.
DropRateIsShare ==
  mpc = "report" => total.failed <= total.offered
=============================================================================
