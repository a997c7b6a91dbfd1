# flashaccept: TLA+ models, checks and proofs

flashaccept is an io_uring TCP acceptor (`src/src/flashaccept.c`,
`src/include/flashaccept.h`) that came out of a benchmark rig
(`src/research/`), in which a shell loop lets a model edit an acceptor, measures
it with a load generator, and keeps what wins. This directory models the engine,
a program around it, the acceptor of the rig, the load generator and the loop.

## The system

| Part | Source | What it does | Here |
|---|---|---|---|
| worker | `src/src/flashaccept.c` 102-460, 598-613 | one thread, one ring, one listening socket: accept, recv, handler, send, close | `FaWorker`, `FaWorkerProps`, `Exchange` |
| server lifecycle | `flashaccept.c` 505-640 | new, run (sockets, threads, join, teardown), stop, free | `FaServer` |
| configuration, CPU pinning | `flashaccept.c` 462-491, 511-524 | defaults, limits, affinity | no |
| example | `src/examples/echo_server.c` | a handler, a signal handler, new / run / free | `EchoServer` |
| treatment arm | `src/research/treatment/accept-treat.c` | the program the loop edits, ancestor of the worker | `TreatWorker`, `TreatFleet` |
| load generator | `src/research/loadgen/loadgen.c` | opens connections at a rate, checks replies, counts, reports percentiles | `LoadWorker`, `LoadMain`, `Histogram` |
| optimizer loop | `src/research/harness/loop.sh`, `start-loop.sh` | one mutation per iteration: commit, measure, keep or reset | `OptimizerLoop` |
| ClickHouse flush | `harness/flush-ch.sh` | copies HISTORY.jsonl rows past a mark into four tables | first phase of an iteration in `OptimizerLoop` |
| benchmark referee | `harness/run.sh` | builds an arm, ramps the load, applies the gate, scores | a choice of a score |
| control arm | `src/research/control/` | Go acceptor with a scaler, the baseline | no |
| dashboard, watch, set-up, build files | `webui/`, `scripts/`, `packaging/`, ... | read-only views, one-shot configuration | no |

Workers share nothing but the `stop` flag and the configuration, so one worker
is modelled with its kernel and its peers, and the server with N workers reduced
to what `fa_server_run` sees of them. `EchoServer` composes that server with a
main program, signals and peers. The treatment arm is split the same way, and so
is the load generator: one thread in detail, and main with what a thread
leaves behind. The loop is a separate program.

## Modules

**FaWorker** is a worker thread with a program counter. A CQE handler runs in
one step (`HandleAccept`, `HandleRecvFailed`, `HandleRequest`, `HandleNull`)
up to its first need of an SQE; the helper calls that remain (`fa_arm_accept`,
`fa_submit_recv`, `fa_submit_reply`, `fa_submit_close`) are in `todo`, and the
next CQE is not looked at before `todo` is empty. All helpers have one shape:
`PrepSqe` when `io_uring_get_sqe` succeeds; else `Flush`, the kernel's `Issue*`
steps and `FlushReturns`; then `PrepSqe` or `Fallback`. A conn is an address
with the two fields that matter, `fd` and `buf` (the client whose request is in
it). `reply` is the per-worker scratch: the client whose answer is in it now. A
send is executed when the kernel consumes it and reads `reply` at that moment.
`Teardown` is the worker's share of the end of `fa_server_run`. `given_up` is a
history variable: the direct slots that were accepted when no conn could be
allocated, which the code leaves open (flashaccept.c:386).

The kernel is external and does what the engine relies on: SQEs are consumed in
order during an enter, successes of send and close post nothing
(`CQE_SKIP_SUCCESS`), a multishot accept posts completions with `F_MORE` until
it terminates, descriptors are reused. `Faults` says what may go wrong; one kind
is a set member each (`FaultKinds`). Sends and closes complete inside the enter
that consumes them, as they do for small replies on a connected socket.

**Exchange** is what a peer is promised, without ring, descriptors or buffers:
one verdict per connection, at most one reply, delivered while the connection is
open, and no close ahead of it. **FaWorkerProps** has the properties and the
refinement mapping to Exchange.

**FaServer** follows the thread that owns the handle through `fa_server_new`,
`fa_server_run`, `fa_server_free`, one step per allocation, socket, thread, join
and teardown, with `fa_server_stop` and the worker threads interleaved.

**EchoServer** extends FaServer with `main` and `on_signal` of the example. A
signal may arrive at any moment: before the handler is installed it kills the
process, after that it calls `fa_server_stop`. Peers are hashed to one of the
open sockets (`SO_REUSEPORT`), wait there, and are served by the worker of that
socket or reset when the socket is closed.

**TreatWorker** is a worker thread of `accept-treat.c`. Its helpers and its drain
loop are those of the engine, so its actions are built from those of FaWorker,
function by function; what differs is what it lacks (no configuration, no
handler, no stop flag, no timeout, no teardown). **TreatFleet** is its process:
main opens a socket and creates a thread per CPU and joins them, while peers
already connect (`PeerConnects`). Where two modules are proved about in one proof
module, the names of the smaller one carry a prefix (`FleetSpec`, `MainSpec`).

**LoadWorker** is one thread of `loadgen.c`: the pass over deadline, starts,
`epoll_wait` and events, `conn_start`, and `handle` with its ways out (each
transfers as much as the network lets it). Time is in ticks; the thread works with
the time it read at the top of the pass. A reply is right, right with more bytes
behind it, wrong at an edge or in length, or wrong inside. **LoadMain** is `main`:
the clamp of the thread count, the shares, `pthread_create` without a check, the
joins, the sums, and the scan for the percentiles bucket by bucket. What a thread
returns (`ThreadReturns`) is any record that satisfies what is checked and proved of
LoadWorker. **Histogram** has what the two share: the buckets, and sums over buckets
and threads (`SumTo`), which the properties use.

**OptimizerLoop** follows `loop.sh` from one side effect to the next: the stop file,
the flush (four inserts, then the mark), the edit, the commit, the measurement, the
verdict, the two halves of writing BEST.json, the watchdog and the two halves of
writing the baseline, the plateau test. A mutation is a number, the branch is the
sequence of mutations on it; below the commit the loop started from are older ones,
which a reset after failed commits can reach. Worktree and index are `dirty` and
`staged`: `git checkout` restores from the index, so an edit that was added and not
committed survives it. A kill inside `run.sh` may cut off the row that is being
appended (`torn`); the next row is then on the same line, and `flush-ch.sh` skips a
line that does not parse. Kill, restart, a commit that fails, edits by somebody else
and ClickHouse being down are environment steps; `Envs` lists the sets of them that
a behaviour may have, and `env` is the one it has.

The **MC** modules hold symmetry sets, score sets and configurations for TLC.
Definitions whose name has a suffix after an underscore and whose comment starts
with "Variant" are broken versions of the definition below them; no
specification uses them, they show that the properties notice.

## Runs

Runs that pass:

| Run | Instance | Shows |
|---|---|---|
| `worker_faults` | 2 clients, 2 conns, 2 descriptors, queue 2, batch 2, every fault | no conn is used after free, freed twice or lost (`ConnOwnership`); a descriptor has one user (`DescriptorExclusive`); the accept is never armed twice |
| `worker_serve` | 3 clients, 2 conns, 2 descriptors, queue 4, batch 2; accept, malloc and registration fail | the worker implements Exchange (`ServesContract`); replies reach their peer; no descriptor and no accept is lost (`DescriptorsAccounted`, `NeverDeaf`); the queue does not fill (`NoExhaustion`) |
| `worker_live` | 2 clients, 2 descriptors; ring set-up, malloc, accept and send fail; fair | every peer that writes or closes is served, but for those of a worker without a ring and of slots given up for want of memory; a stopped worker ends |
| `server_life` | 2 workers, 2 runs, every fault, fair | threads run only on live memory, sockets and rings; nothing is left after free; sockets are closed but for one return; run returns after a stop and after a partial start |
| `echo` | 2 workers, 2 peers, 2 signals, fair | a signal that finds its handler ends the program, even one between `signal()` and `fa_server_run` (`SignalEndsMain`); a queued peer is served or reset unless its worker left by itself (`BacklogIsServedOrReset`); peers are reset only for a cause |
| `treat` | 2 clients, 2 descriptors, queue 2, batch 2, accept and registration fail, fair | each request that is read is answered once and whole (`AnsweredOnce`); every peer is served, across accepts that terminate (`AllPeersServed`) |
| `fleet` | 3 workers, 2 peers, every fault, fair | each socket has a thread; the process ends in order only after all threads; only a dead worker strands a peer |
| `load_worker` | 2 conns, a closed loop of two and an open loop, 3 starts, fair | every connection is counted once; `inflight` is exact and no event names a freed conn; the rate is not exceeded, a late thread does not burst and does not lose its pace (`PaceKept`); the histogram is complete; the thread ends |
| `load_main` | up to 3 threads, 3 buckets, 2 connections per thread | the shares add up to the target and none is 0; the report sums finished threads, the failed connections included; the scan finds the three quantiles |
| `loop` | up to 3 iterations and 3 mutations, one restart, five environments | branch, BEST.json and history agree; champions are more than EPSILON apart; the plateau and the drift pause are right; mutations that never won pile up by at most one per kill; rows up to the flush mark that parse are in all tables |

Sizes, in distinct states: `loop` 5.2 million, `load_main` 720 thousand,
`load_worker` 490 thousand, `worker_live` 330 thousand (with its liveness the
longest run, two minutes), `worker_faults` 210 thousand, `treat` 48 thousand,
`server_life` 27 thousand, `echo` 9 thousand, `fleet` 3 thousand. Every module has a
type invariant; it is an invariant of `worker_faults` for FaWorker, proved for
FaWorker, FaServer, LoadWorker, TreatFleet and OptimizerLoop, and held in the
instances above for the others.

Two runs show the code doing something else than a comment or a document says.
`worker_scratch` (flashaccept.c:282-284): two requests in a batch are two handler
calls into one scratch, then one enter: the first client gets the second reply.
`load_reply` (docs/PROJECT.md:46-47, "exactly these bytes on every sampled
connection"): `handle` stops reading at the length of the reply (loadgen.c:164), so
a sampled connection whose server sends more is completed.

The modules also define the following properties, which no run has. Each was
refuted by TLC with the constants given (others as in the passing runs):

| Property | Constants | Against |
|---|---|---|
| `EveryPeerServed` | `Faults = {"nomultishot"}` | "Falls back to re-armed single-shot accept" (flashaccept.c:34-35); the rejected multishot accept is re-armed for ever |
| `RepliesAreWhole` | `Faults = {"short"}` | "sends exactly that many bytes and then closes" (flashaccept.h:113-114) |
| `DescriptorsAccounted` | queue 2, `Faults = {"submit"}` | "direct slot leaks only on OOM" (flashaccept.c:386) |
| `RepliesReachTheirPeer` | queue 2, one descriptor, `Faults = {"submit"}` | "flush it and close synchronously" (flashaccept.c:309) |
| `AllReleased` | no faults | "Free a server handle and all its resources" (flashaccept.h:147) |
| `StartReported` | 2 workers, `Faults = {"ring"}` | "non-zero if the server failed to start" (flashaccept.h:136) |
| `FallsBackToRegular` | 2 runs, `Faults = {"register", "enter"}` | flashaccept.c:447-448; `w->direct` is never cleared |
| `RerunServes` | 2 runs, no faults | "so the server can be re-run" (flashaccept.c:595); `stop` is never cleared |
| `StopOnLiveHandle` | as `echo` | the example keeps `g_server` after `fa_server_free`, and its handler stays installed (echo_server.c:38-42, 72) |
| `AlwaysComesUp` | `Faults = {"ring"}` | "so the server always comes up" (accept-treat.c:349); the thread returns when both set-ups fail |
| `DropRateIsShare` | as `load_main` | a share "of offered connections" (docs/PROJECT.md:110-111); connections that cannot be started count as failed and not as offered |
| `NeverKeepRegression` | `Envs = {{"kill"}}`, 1 restart | loop.sh:84; an emptied BEST.json reads as 0 |
| `RevertIsScoped` | `Envs = {{"edit"}}` | loop.sh:19-20; `git reset --hard` restores every tracked file |
| `WatchdogEveryK` | `Envs = {{"fail"}}`, 3 iterations | loop.sh:106; `continue` skips the watchdog |
| `FlushedAtEnd` | `Envs = {{}}` | AGENT_LOOP.md:59-60; nothing flushes at the end |
| `ChampionCommitted` | `Envs = {{"nocommit"}}` | loop.sh:64-66; the commit's exit code |

Some checked properties carry an exception that the code needs. `SocketsClosed`
excepts the sockets of a run whose first `pthread_create` fails (the return at
flashaccept.c:589-590 skips the teardown). `ChampionAtHead` and `Unbeaten` except
behaviours with kills or failing commits: a loop killed between commit and
verdict leaves the unjudged mutation at HEAD. `DriftPauses` excepts a baseline of
0, or one cut off while it was written, against which nothing drifts.
`DescriptorsAccounted` excepts the slots in `given_up`, and no others: with direct
descriptors and failing allocations every other slot has its holder.
`BacklogIsServedOrReset` and `OnlyDeadWorkersStrand` except the peers behind a
worker that left early, and `ReportComplete` takes a thread that was never created
for one that did nothing.

### Bounds

The code has a queue of 4096 SQEs and batches of 256 CQEs. What counts is their
ratio: a handler queues at most two SQEs, so with a queue of twice the batch
the fallbacks need a kernel that leaves SQEs unconsumed, whatever the sizes
(`QueueNeverFull`, proved). A queue of 2 with a batch of 2 makes every fallback
reachable within one batch; at the real sizes the same states need enters that
are consumed in part, many times in a row. Two descriptors and two conns are the
least with which a descriptor or a conn is reused while another is in use; the
third client is the one that reuses. One warm conn makes both the freelist and
malloc the source of a conn. Each client makes one connection, `MaxRuns` bounds
the calls of `fa_server_run`, `MaxRestarts` and `MaxIters` the loop. The scores
are 0 (a failure), a first champion, a score exactly at the 3% the run uses for
EPSILON and one past it; the control scores are 0, the baseline, the edge of the 5%
band and one past it. With three iterations, a patience of two and a watchdog every
second one, a life of the loop can reach both ends with an iteration to spare for a
`continue`. `MaxEdits` bounds the mutations over both lives. Of the five environments,
two have neither kills nor failing commits, two have one of them and a restart, and
one has both.

In `load_worker` a request is one byte and a reply two, the least with a partial
read; two conns and an event batch of two let one pass resolve a conn and reuse
its address; a closed loop with a short duration reaches the drain and its
deadline, an open loop of three ticks lets the thread fall behind by more than the
clamp allows. One histogram bucket plus the overflow show both. `MaxStarts` and
`MaxTime` bound the run (`PaceKept` speaks of a thread that has not reached
`MaxStarts`); every configuration's deadline lies within `MaxTime`. In
`load_main` the thread counts and connection counts include 0, fewer connections
than threads and a remainder. Its quantiles are coarser than 0.99 and 0.999 so
that at most six samples fall between and on them.

`worker_live` has a descriptor for each peer. With fewer, and regular fds, TLC
finds a peer that is never served: a silent peer keeps the only descriptor (the
recv has no timeout), and the accept fails with EMFILE again and again.

Deadlock is not checked: a torn-down worker, a freed server, an ended process, a
finished load thread and an ended loop stop by design.

### Fairness

`FaWorker`: weak fairness of the worker thread (the scheduler runs it), of accept
completion and of recv completion (the kernel completes what it can). Peers need
not write and nobody need call stop. `TreatWorker`: the same. `FaServer`: weak
fairness of the calling thread inside `fa_server_run`, of each worker's start, and
of leaving the loop once `stop` is set, which the 200 ms wait of the loop
justifies; no fault is owed to anyone. `EchoServer` adds main and the worker
serving its own backlog, which is what `worker_live` shows of a worker. `TreatFleet`:
main, the start of each thread, and a thread in its loop serving its socket.
`LoadWorker`: the thread is scheduled and the clock advances; the server and the
network owe nothing. `LoadMain` and `OptimizerLoop` have no liveness property.

## Proofs

| Theorem | Statement | Module |
|---|---|---|
| `TypeCorrect` | `Spec => []TypeOK` of FaWorker | `FaWorkerProofs` |
| `QueueNeverFull` | `Spec => []NoExhaustion` | `FaWorkerProofs` |
| `AcceptsDoNotPileUp` | `Spec => []NeverArmedTwice` | `FaWorkerProofs` |
| `WorkerKeepsListening` | `Spec => [](Fed => NeverDeaf)` | `FaWorkerProofs` |
| `ConnsOwned` | `Spec => []ConnOwnership` | `FaConnProofs` |
| `DescriptorsExclusive` | `Spec => []DescriptorExclusive` | `FaConnProofs` |
| `NoDescriptorLost` | `Spec => [](Fed \/ ~direct => DescriptorsAccounted)` | `FaConnProofs` |
| `RepliesArrive` | `Spec => [](Fed \/ direct => RepliesReachTheirPeer)` | `FaServeProofs` |
| `WorkerServesContract` | `Spec => ServesContract` (Exchange), if `Fed` | `FaContractProofs` |
| `Lifetime` | `Spec => []RunsWithinLifetime` of FaServer | `FaServerProofs` |
| `SocketsAreClosed` | `Spec => []SocketsClosed` | `FaServerProofs` |
| `NothingIsLeft` | `Spec => []NothingLeft` | `FaServerProofs` |
| `EchoImplementsServer` | `EchoSpec => Spec` (of FaServer) | `FaServerProofs` |
| `ResetsHaveACause` | `EchoSpec => []ResetHasCause` | `FaServerProofs` |
| `TreatImplementsEngine` | `TreatSpec => Spec` (of FaWorker) | `TreatProofs` |
| `TreatConnsOwned` | `TreatSpec => [](ConnOwnership /\ NeverTornDown)` | `TreatProofs` |
| `TreatQueueNeverFull` | `TreatSpec => []NoExhaustion` | `TreatProofs` |
| `TreatDescriptorsExclusive` | `TreatSpec => [](DescriptorExclusive /\ NeverArmedTwice)` | `TreatProofs` |
| `TreatAnswersOnce` | `TreatSpec => []AnsweredOnce`, if sends and submits succeed | `TreatProofs` |
| `FleetIsComplete` | `FleetSpec => []EverySocketHasThread` of TreatFleet | `TreatProofs` |
| `ResetsWaitForAll` | `FleetSpec => []ResetMeansAllDead` | `TreatProofs` |
| `AllCounted` | `Spec => []EveryConnCounted` of LoadWorker | `LoadProofs` |
| `InflightExact` | `Spec => []InflightIsLive` | `LoadProofs` |
| `RateIsKept` | `Spec => []NeverAboveRate` | `LoadProofs` |
| `NoCatchingUp` | `Spec => []NoBurst` | `LoadProofs` |
| `HistogramHasAll` | `Spec => []HistogramComplete` | `LoadProofs` |
| `PaceIsKept` | `Spec => []PaceKept` | `LoadProofs` |
| `SharesAreExact` | `MainSpec => []SharesCoverTarget` of LoadMain | `LoadProofs` |
| `ReportAddsUp` | `MainSpec => []ReportComplete` | `LoadProofs` |
| `PercentilesAreRight` | `MainSpec => []PercentilesRight` | `LoadProofs` |
| `MarkedRowsAreStored` | `Spec => []FlushedIsStored` of OptimizerLoop | `LoopProofs` |
| `DriftStopsTheLoop` | `Spec => []DriftPauses` | `LoopProofs` |
| `KillsStrandOneEach` | `Spec => []StrandedByKills` | `LoopProofs` |
| `GitKeepsTheChampion` | `Spec => []ChampionAtHead` | `LoopProofs` |
| `ChampionIsUnbeaten` | `Spec => []Unbeaten` | `LoopProofs` |
| `PlateausAreReal` | `Spec => []PlateauIsReal` | `LoopProofs` |

They hold for all values of the constants that satisfy `WorkerAssumption`,
`ServerAssumption`, `EchoAssumption`, `TreatAssumption`, `FleetAssumption`,
`LoadAssumption`, `MainAssumption` and `LoopAssumption` (null values outside their
sets, positive sizes, known faults, natural scores, quantiles in order and within
the whole, a deadline within the clock's bound).

Four results on the worker name a condition beside the constants' assumptions.
`Fed` is `"submit" \notin Faults`: `io_uring_submit` consumes what it is given. It
is needed, not only convenient. Without it a helper that finds the queue full
twice gives up, and with a queue of 2 and a batch of 2 TLC finds each of these:

- the accept is not re-armed and the worker is deaf (`NeverDeaf`);
- a connection is dropped after its verdict (`ServesContract`);
- a direct slot is forgotten (`DescriptorsAccounted`); a regular descriptor is
  closed on the spot, so `~direct` will do in place of `Fed`;
- a regular descriptor is closed on the spot with its reply still queued, the
  number is accepted into again, and the reply goes to the wrong peer
  (`RepliesReachTheirPeer`, three clients); a direct slot is not closed there, so
  `direct` will do in place of `Fed`.

`NoExhaustion` names its condition itself: a queue of twice the batch, and submits
that succeed. `WorkerServesContract` does not ask for that queue: when submits
succeed, a helper that finds the queue full finds it empty after the flush.

### The engine

- `TypeCorrect`: `TypeOK` alone is not inductive, because a handler indexes
  `verdicts` with the content of `buf`, and the send it prepares names that
  client. `WellFormed` adds that a batch is part of the completion queue, that
  only a running drain has calls left, that a conn in flight has a descriptor, and
  that a conn whose recv succeeded holds a request.
- `QueueNeverFull`: `Room` bounds, while a batch is drained, the SQEs queued plus
  the calls left in `todo` plus two per CQE left by twice the batch.
- `AcceptsDoNotPileUp`, `WorkerKeepsListening`: the properties speak of the set of
  accept tokens in four places, each tagged with its place and position. `Standing`
  says it place by place: no two entries of a place are accepts, no two places have
  one, and in the loop (if `Fed`) one has. `Emptied` is what `Fed` gives: a helper
  that has flushed finds room.
- `ConnsOwned`: `Own` states ConnOwnership place by place (freelist, queue,
  kernel, completions, current handler): each place holds a conn at most once, no
  two places share one, and the allocated conns are those in some place. It needs
  that nothing is in flight before the ring exists. Each action moves a conn from
  one place to the next; the lemmas follow the actions.
- `DescriptorsExclusive`, `NoDescriptorLost`: `Held` says of each descriptor that at
  most one of accept completion, handler, live conn and queued close holds it, that
  it is open then, and that an open one is held or in `given_up`. It rests on `Own`:
  a conn that is handed out again must not still be somebody's.
- `RepliesArrive`: `Bound` says that the connection of a conn is the one behind its
  descriptor from the accept to the handler. `Sends` says that a queued send names a
  descriptor which is still that of its peer, and that the close of the descriptor is
  behind it in the queue. The queue is consumed in order, so the descriptor is not
  reused in between.
- `WorkerServesContract`: `Table` says that the accept queue and the descriptor table
  hold each connection once. `Books` ties what the peers have been promised and sent to
  the worker's state: a conn on its way to the handler belongs to an untouched peer,
  a queued send to a promised one, a descriptor about to close has nothing ahead but
  its reply. With it each step of the worker is mapped, action by action, to a step
  of Exchange or to a stutter.

### Programs around the engine

- `Lifetime`: `Phases` says for each phase of `fa_server_run` which threads can
  run, up to the loop counter, and which sockets are open.
- `SocketsAreClosed`: `Sockets` says that the open sockets are exactly those that
  some worker of the current run has in `listen_fd` (`Mine`), each named once, and
  the orphans of earlier runs.
- `NothingIsLeft`: `Leftovers` says what each phase may have left: memory between new
  and free, rings and conns only of the workers whose thread was created and which
  the teardown has not reached.
- `EchoImplementsServer`, `ResetsHaveACause`: the example's steps are the server's
  or leave it alone. `Course` relates the position of `main` to that of the server,
  `Resets` the reset peers to the teardown, before which all threads have ended.
- `TreatImplementsEngine`: every step of the treatment arm is a step of the
  engine, so the results on conns, queue, accept and descriptors carry over; the
  ownership of conns then needs that nothing is ever torn down.
- `TreatAnswersOnce`: from `Books` and the contract, with what the arm adds: it
  never declines (`NoDeclines`), and without short sends a message is whole
  (`Unbroken`).
- `FleetIsComplete`, `ResetsWaitForAll`: `Progress` relates main's counter to the
  sockets that are open, the threads that exist and those that have returned, phase
  by phase.

### Load generator

- `AllCounted`, `InflightExact`: `Sound` is the type invariant with
  InflightIsLive; the two are inductive only together, because a count that may
  go below 0 has no type. Resolving a conn removes one from the domain of `conn`.
- `RateIsKept`, `NoCatchingUp`: `InPass` says how far `next_start` is ahead after 0,
  1 and 2 starts of the pass; the clamp moves it to the time of the pass, never back.
- `PaceIsKept`: inductive with `Sound`. The clamp and a start both leave `next_start`
  within an interval of the time of the pass, and time only moves on.
- `HistogramHasAll`: the sum of the histogram is a recursive function (`Upto`).
  That it exists, that it is the only solution of its equation and that raising one
  bucket raises the sum by one are shown by least counterexample (lemma `Least`, from
  the well-foundedness of `<`). `Aged` says that no connection was started in the
  future, so each latency has a bucket.
- `SharesAreExact`: `Crew` relates main's counter to the shares that are set, the
  threads that are running and those that have been joined, phase by phase. What the
  shares come to is quotient and remainder; that they add up to the target is again
  shown over prefix sums, whose value after n threads is n times the quotient and the
  lesser of n and the remainder.
- `ReportAddsUp`: `Aggregated` says that while main adds up, the totals are the prefix
  sums over the threads before its counter, the histogram bucket by bucket. That the
  summed histogram holds the summed completed connections is the exchange of two sums,
  one thread at a time (`SumsAdd`).
- `PercentilesAreRight`: `Scanned` says where the scan is: the count is that of the
  buckets before the counter, a quantile is set to the first bucket that reaches it,
  and one that is not set is not reached by the buckets before the counter. It rests
  on the totals being complete: the last bucket reaches every quantile, so the scan
  does not run off the histogram.

### Loop

- `MarkedRowsAreStored`: `Filled` says that while a flush is under way every table
  before the current one has all rows that parse.
- `DriftStopsTheLoop`: only the watchdog and the write of a first baseline lead past
  it, and the baseline written is the control run on record.
- `KillsStrandOneEach`: `Numbered` says that mutations are numbered as they are made,
  so a commit is never confused with an older one, and that commits from before the
  loop are numbered 0 and below; `Strands` allows one more stranded
  commit than kills while a mutation is judged.
- `GitKeepsTheChampion`, `ChampionIsUnbeaten`, `PlateausAreReal`: `CalmInv`, for
  behaviours without kills and failing commits. `Branch` says which commit is last in
  each phase, `Pending` which row is being judged, `Judged` that every other row is
  within EPSILON of the best score, `Ranked` that the champions are more than EPSILON
  apart and none is above BEST.json, `Streak` that the last `no_improve` measured
  configs are not on the branch. The second and the third need the first: what
  `git reset --hard HEAD~1` removes must be the mutation that was measured.

### Model-checked only

All liveness (`EveryPeerServed`, `StopEndsWorker`, `StopReturns`,
`PartialStartReturns`, `SignalEndsMain`, `BacklogIsServedOrReset`, `AllPeersServed`,
`OnlyDeadWorkersStrand`, `Terminates`): the proof system has no rule for fairness.
Every safety property of a passing run is proved, some under the conditions the table
names. A kernel that leaves submitted entries behind is outside `Fed`; what holds
there beyond the unconditional theorems the runs show on their instances only.
`RepliesCarryTheirBytes` and `SampledAreExact` are refuted (`worker_scratch`,
`load_reply`).

## Not modelled

- Configuration parsing, socket options, CPU pinning, resource limits: data
  without control. A port or buffer size out of range is among it.
- The contents of requests and replies beyond whose they are and whether they are
  right; logging and printing.
- Of the load generator, the rotation of source addresses (`fill_src`), running
  out of memory, CPU times, and the HTTP wrapper `loadgen-server.py`.
- Of the loop, model sessions and cost records; two loops at once (start-loop.sh
  looks for a running loop and then starts one, in two steps); a `run.sh` started
  by hand while the loop flushes.
- `run.sh`: the ramp, the gate and the score are arithmetic on measured numbers
  in shell and awk, with no state that another part races with.
- The Go control arm: what could go wrong there is in the Go runtime's poller and
  scheduler, which its code uses and does not show.
- Dashboard, watch script, installation, cgroups, build files: read-only views and
  one-shot configuration.

## Plan

1. Scoring and gate of `run.sh` as operators with a reference definition, in
   place of the choice of a score in `OptimizerLoop`.
2. A second loop process in `OptimizerLoop`.
3. The worker of FaServer shown to be an abstraction of FaWorker.
