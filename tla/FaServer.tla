------------------------------ MODULE FaServer ------------------------------
(***************************************************************************)
(* The life of an fa_server (src/src/flashaccept.c): fa_server_new,        *)
(* fa_server_run with its listening sockets, threads, joins and teardown,  *)
(* fa_server_stop and fa_server_free, and the N worker threads that run    *)
(* beside them.  A worker is reduced here to what fa_server_run can see of *)
(* it: it sets its ring up or not, it is in its loop, it has returned.     *)
(* FaWorker has the rest.                                                  *)
(***************************************************************************)
EXTENDS Integers

CONSTANTS
  N,        \* nworkers
  Fds,      \* descriptor numbers socket() can return
  NoFd,     \* -1
  MaxRuns,  \* bound: calls of fa_server_run
  Faults    \* which calls may fail

ASSUME ServerAssumption ==
  /\ N \in Nat \ {0}
  /\ NoFd \notin Fds
  /\ MaxRuns \in Nat
  /\ Faults \subseteq {"calloc", "listen", "thread", "ring", "register",
                       "enter"}

Workers == 1..N

VARIABLES
  mpc,         \* where the thread that owns the handle is
  i,           \* the loop counter of fa_server_new and fa_server_run
  started,     \* threads created by this run
  ret,         \* what fa_server_run returned last
  runs,        \* calls of fa_server_run so far
  stop,        \* fa_server.stop
  asked,       \* fa_server_stop was called since fa_server_run last returned
  mem,         \* blocks calloc returned that are not freed
  listen_fd,   \* fa_worker.listen_fd
  open,        \* listening sockets the process has open
  orphans,     \* history: sockets of runs that failed at their first thread
  thread,      \* the worker threads
  ring_ready,  \* fa_worker.ring_ready
  direct,      \* fa_worker.direct
  table,       \* the ring has a registered file table
  pooled,      \* the worker's freelist holds conns
  served       \* workers that reached their loop in this run

handleVars == <<mem, runs>>
socketVars == <<listen_fd, open, orphans>>
workerVars == <<thread, ring_ready, direct, table, pooled, served>>
vars == <<mpc, i, started, ret, stop, asked, handleVars, socketVars, workerVars>>

Blocks == {"server", "workers"} \X {0} \cup {"worker"} \X Workers

TypeOK ==
  /\ mpc \in {"none", "new", "ready", "listen", "create", "join", "teardown",
              "freed"}
  /\ i \in 1..(N + 1) /\ started \in 0..N
  /\ ret \in {"none", "ok", "error"}
  /\ runs \in Nat
  /\ stop \in BOOLEAN /\ asked \in BOOLEAN
  /\ mem \subseteq Blocks
  /\ listen_fd \in [Workers -> Fds \cup {NoFd}]
  /\ open \subseteq Fds /\ orphans \subseteq Fds
  /\ thread \in [Workers -> {"none", "created", "loop", "exited", "joined"}]
  /\ ring_ready \in [Workers -> BOOLEAN]
  /\ direct \in [Workers -> BOOLEAN]
  /\ table \in [Workers -> BOOLEAN]
  /\ pooled \in [Workers -> BOOLEAN]
  /\ served \subseteq Workers

Init ==
  /\ mpc = "none" /\ i = 1 /\ started = 0 /\ ret = "none" /\ runs = 0
  /\ stop = FALSE /\ asked = FALSE
  /\ mem = {} /\ open = {} /\ orphans = {}
  /\ listen_fd = [w \in Workers |-> NoFd]
  /\ thread = [w \in Workers |-> "none"]
  /\ ring_ready = [w \in Workers |-> FALSE]
  /\ direct = [w \in Workers |-> FALSE]
  /\ table = [w \in Workers |-> FALSE]
  /\ pooled = [w \in Workers |-> FALSE]
  /\ served = {}

-----------------------------------------------------------------------------
(* fa_server_new: the handle and the array, then one block per worker.      *)

NewServer ==
  /\ mpc = "none"
  /\ \/ mem' = {<<"server", 0>>, <<"workers", 0>>} /\ mpc' = "new"
     \/ "calloc" \in Faults /\ UNCHANGED <<mem, mpc>>
  /\ i' = 1
  /\ UNCHANGED <<started, ret, runs, stop, asked, socketVars, workerVars>>

NewWorker ==
  /\ mpc = "new" /\ i <= N
  /\ mem' = mem \cup {<<"worker", i>>}
  /\ i' = i + 1
  /\ UNCHANGED <<mpc, started, ret, runs, stop, asked, socketVars, workerVars>>

\* Variant: the blocks of the workers already allocated are forgotten.
NewWorkerFails_Leak ==
  /\ mpc = "new" /\ i <= N /\ "calloc" \in Faults
  /\ mem' = mem \ {<<"workers", 0>>, <<"server", 0>>}
  /\ mpc' = "none"
  /\ UNCHANGED <<i, started, ret, runs, stop, asked, socketVars, workerVars>>

\* for (j < i) free(workers[j]); free(workers); free(s); return NULL.
NewWorkerFails ==
  /\ mpc = "new" /\ i <= N /\ "calloc" \in Faults
  /\ mem' = mem \ ({<<"worker", j>> : j \in 1..(i - 1)}
                   \cup {<<"workers", 0>>, <<"server", 0>>})
  /\ mpc' = "none"
  /\ UNCHANGED <<i, started, ret, runs, stop, asked, socketVars, workerVars>>

NewReturns ==
  /\ mpc = "new" /\ i = N + 1
  /\ mpc' = "ready"
  /\ UNCHANGED <<i, started, ret, stop, asked, handleVars, socketVars,
                 workerVars>>

-----------------------------------------------------------------------------
(* fa_server_run.                                                           *)

Return(r) == mpc' = "ready" /\ ret' = r /\ asked' = FALSE

\* Variant: every run starts with a cleared stop flag.
fa_server_run_ClearStop ==
  /\ mpc = "ready" /\ runs < MaxRuns
  /\ mpc' = "listen" /\ i' = 1 /\ runs' = runs + 1 /\ served' = {}
  /\ stop' = FALSE
  /\ UNCHANGED <<started, ret, asked, mem, socketVars, thread, ring_ready,
                 direct, table, pooled>>

fa_server_run ==
  /\ mpc = "ready" /\ runs < MaxRuns
  /\ mpc' = "listen" /\ i' = 1 /\ runs' = runs + 1 /\ served' = {}
  /\ UNCHANGED <<started, ret, stop, asked, mem, socketVars, thread, ring_ready,
                 direct, table, pooled>>

\* One SO_REUSEPORT socket per worker.
fa_make_listen_socket ==
  /\ mpc = "listen" /\ i <= N
  /\ \E f \in Fds \ open :
       /\ open' = open \cup {f}
       /\ listen_fd' = [listen_fd EXCEPT ![i] = f]
  /\ i' = i + 1
  /\ UNCHANGED <<mpc, started, ret, stop, asked, handleVars, orphans, workerVars>>

\* Variant: the sockets opened so far stay open.
ListenFails_Leak ==
  /\ mpc = "listen" /\ i <= N /\ "listen" \in Faults
  /\ Return("error")
  /\ UNCHANGED <<i, started, stop, handleVars, socketVars, workerVars>>

\* "Clean up any sockets opened so far" and return -1.
ListenFails ==
  /\ mpc = "listen" /\ i <= N /\ "listen" \in Faults
  /\ open' = open \ {listen_fd[j] : j \in 1..(i - 1)}
  /\ listen_fd' = [w \in Workers |-> IF w < i THEN NoFd ELSE listen_fd[w]]
  /\ Return("error")
  /\ UNCHANGED <<i, started, stop, handleVars, orphans, workerVars>>

AllListening ==
  /\ mpc = "listen" /\ i = N + 1
  /\ mpc' = "create" /\ i' = 1 /\ started' = 0
  /\ UNCHANGED <<ret, stop, asked, handleVars, socketVars, workerVars>>

CreateThread ==
  /\ mpc = "create" /\ i <= N
  /\ thread' = [thread EXCEPT ![i] = "created"]
  /\ started' = started + 1
  /\ i' = i + 1
  /\ UNCHANGED <<mpc, ret, stop, asked, handleVars, socketVars, ring_ready,
                 direct, table, pooled, served>>

\* Variant: the threads already running are not told to stop.
CreateFails_NoStop ==
  /\ mpc = "create" /\ i <= N /\ "thread" \in Faults
  /\ IF started = 0
     THEN Return("error") /\ UNCHANGED i
     ELSE mpc' = "join" /\ i' = 1 /\ UNCHANGED <<ret, asked>>
  /\ UNCHANGED <<started, stop, handleVars, socketVars, workerVars>>

\* pthread_create fails: stop the others; without any thread return -1 at once,
\* with the listening sockets open.
CreateFails ==
  /\ mpc = "create" /\ i <= N /\ "thread" \in Faults
  /\ stop' = TRUE
  /\ IF started = 0
     THEN /\ Return("error") /\ UNCHANGED i
          /\ orphans' = open
     ELSE mpc' = "join" /\ i' = 1 /\ UNCHANGED <<ret, asked, orphans>>
  /\ UNCHANGED <<started, handleVars, listen_fd, open, workerVars>>

AllStarted ==
  /\ mpc = "create" /\ i = N + 1
  /\ mpc' = "join" /\ i' = 1
  /\ UNCHANGED <<started, ret, stop, asked, handleVars, socketVars, workerVars>>

JoinThread ==
  /\ mpc = "join" /\ i <= started
  /\ thread[i] = "exited"
  /\ thread' = [thread EXCEPT ![i] = "joined"]
  /\ i' = i + 1
  /\ UNCHANGED <<mpc, started, ret, stop, asked, handleVars, socketVars,
                 ring_ready, direct, table, pooled, served>>

\* Variant: the teardown starts when the first thread has been joined.
AllJoined_First ==
  /\ mpc = "join" /\ i > 1
  /\ mpc' = "teardown" /\ i' = 1
  /\ UNCHANGED <<started, ret, stop, asked, handleVars, socketVars, workerVars>>

\* Variant: all workers are joined, whether their thread exists or not.
AllJoined_AllWorkers ==
  /\ mpc = "join" /\ i = N + 1
  /\ mpc' = "teardown" /\ i' = 1
  /\ UNCHANGED <<started, ret, stop, asked, handleVars, socketVars, workerVars>>

AllJoined ==
  /\ mpc = "join" /\ i = started + 1
  /\ mpc' = "teardown" /\ i' = 1
  /\ UNCHANGED <<started, ret, stop, asked, handleVars, socketVars, workerVars>>

\* io_uring_queue_exit, close(listen_fd) and the freelist of worker i.
TearDownWorker ==
  /\ mpc = "teardown" /\ i <= N
  /\ ring_ready' = [ring_ready EXCEPT ![i] = FALSE]
  /\ table' = [table EXCEPT ![i] = FALSE]
  /\ open' = open \ {listen_fd[i]}
  /\ listen_fd' = [listen_fd EXCEPT ![i] = NoFd]
  /\ pooled' = [pooled EXCEPT ![i] = FALSE]
  /\ i' = i + 1
  /\ UNCHANGED <<mpc, started, ret, stop, asked, handleVars, orphans, thread,
                 direct, served>>

RunReturns ==
  /\ mpc = "teardown" /\ i = N + 1
  /\ Return("ok")
  /\ UNCHANGED <<i, started, stop, handleVars, socketVars, workerVars>>

-----------------------------------------------------------------------------
\* From a signal handler or any thread, as long as the handle exists.
fa_server_stop ==
  /\ mpc \notin {"none", "new", "freed"}
  /\ ~stop \/ ~asked
  /\ stop' = TRUE /\ asked' = TRUE
  /\ UNCHANGED <<mpc, i, started, ret, handleVars, socketVars, workerVars>>

fa_server_free ==
  /\ mpc = "ready"
  /\ mem' = mem \ ({<<"worker", j>> : j \in Workers}
                    \cup {<<"workers", 0>>, <<"server", 0>>})
  /\ mpc' = "freed"
  /\ UNCHANGED <<i, started, ret, runs, stop, asked, socketVars, workerVars>>

-----------------------------------------------------------------------------
(* The worker threads.                                                      *)

RingInitFails(w) ==
  /\ thread[w] = "created" /\ "ring" \in Faults
  /\ thread' = [thread EXCEPT ![w] = "exited"]
  /\ UNCHANGED <<mpc, i, started, ret, stop, asked, handleVars, socketVars,
                 ring_ready, direct, table, pooled, served>>

\* The ring, the file table if it can be registered, the warm freelist.
fa_thread_entry(w) ==
  /\ thread[w] = "created"
  /\ thread' = [thread EXCEPT ![w] = "loop"]
  /\ ring_ready' = [ring_ready EXCEPT ![w] = TRUE]
  /\ \/ /\ table' = [table EXCEPT ![w] = TRUE]
        /\ direct' = [direct EXCEPT ![w] = TRUE]
     \/ /\ "register" \in Faults
        /\ UNCHANGED <<table, direct>>
  /\ pooled' = [pooled EXCEPT ![w] = TRUE]
  /\ served' = served \cup {w}
  /\ UNCHANGED <<mpc, i, started, ret, stop, asked, handleVars, socketVars>>

\* The loop ends when the stop flag is seen or the enter fails.
fa_worker_loop(w) ==
  /\ thread[w] = "loop"
  /\ stop \/ "enter" \in Faults
  /\ thread' = [thread EXCEPT ![w] = "exited"]
  /\ UNCHANGED <<mpc, i, started, ret, stop, asked, handleVars, socketVars,
                 ring_ready, direct, table, pooled, served>>

-----------------------------------------------------------------------------
RunStep ==
  \/ fa_make_listen_socket \/ ListenFails \/ AllListening \/ CreateThread
  \/ CreateFails \/ AllStarted \/ JoinThread \/ AllJoined \/ TearDownWorker
  \/ RunReturns

WorkerStep(w) == RingInitFails(w) \/ fa_thread_entry(w) \/ fa_worker_loop(w)

Next ==
  \/ NewServer \/ NewWorker \/ NewWorkerFails \/ NewReturns
  \/ fa_server_run \/ RunStep
  \/ fa_server_stop \/ fa_server_free
  \/ \E w \in Workers : WorkerStep(w)

Spec == Init /\ [][Next]_vars

\* The caller's thread and the workers are scheduled; a failing enter is not
\* owed to anyone, so a worker only has to leave its loop after a stop.
Fairness ==
  /\ WF_vars(RunStep)
  /\ \A w \in Workers :
       /\ WF_vars(RingInitFails(w) \/ fa_thread_entry(w))
       /\ WF_vars(stop /\ fa_worker_loop(w))

FairSpec == Spec /\ Fairness

-----------------------------------------------------------------------------
(* Properties.                                                              *)

Running(w) == thread[w] \in {"created", "loop"}

\* A worker thread only runs while what it uses exists: the handle and its
\* worker block are allocated, its listening socket is open and its ring is not
\* torn down.  fa_server_run joins every thread it created before it tears
\* anything down, also when pthread_create failed half way.
RunsWithinLifetime ==
  \A w \in Workers :
    Running(w) => /\ mem = Blocks
                  /\ listen_fd[w] \in open
                  /\ thread[w] = "loop" => ring_ready[w]

\* A failed fa_server_new leaves nothing allocated, and a freed server neither
\* memory, nor rings, nor threads, nor pooled conns.
NothingLeft ==
  mpc \in {"none", "freed"} =>
    /\ mem = {}
    /\ \A w \in Workers : ~Running(w) /\ ~ring_ready[w] /\ ~pooled[w]

\* "Tear down rings and listening sockets so the server can be re-run/freed"
\* (flashaccept.c:595): no listening socket survives fa_server_run, also when
\* some socket() or some later pthread_create fails.  The exceptions are the
\* sockets of a run whose first pthread_create fails (flashaccept.c:580).
SocketsClosed ==
  mpc \in {"none", "new", "ready", "freed"} => open = orphans

\* "Returns 0 on a clean stop, non-zero if the server failed to start"
\* (flashaccept.h:136): a run that returned 0 had a worker in its loop.
StartReported ==
  mpc = "ready" /\ ret = "ok" => served # {}

\* "... so the server can be re-run" (flashaccept.c:595): without failures a run
\* only returns 0 because fa_server_stop was called for it.
RerunServes ==
  [][RunReturns => asked]_vars

\* "Falls back to regular fds if registration fails" (flashaccept.c:447): a
\* worker in its loop uses direct descriptors only if its ring has a table.
FallsBackToRegular ==
  \A w \in Workers : thread[w] = "loop" /\ direct[w] => table[w]

\* "After this returns, fa_server_run() will unblock shortly" (flashaccept.h:142)
\* whatever has failed.
StopReturns ==
  (stop /\ mpc \in {"listen", "create", "join", "teardown"}) ~> mpc = "ready"

\* A run that could create only some of its threads stops those by itself and
\* returns, without anybody calling fa_server_stop.
PartialStartReturns ==
  (mpc = "join" /\ started < N) ~> mpc = "ready"

=============================================================================
