--------------------------- MODULE FaServerProofs ---------------------------
(***************************************************************************)
(* Proofs about the life of a server, for every number of workers, every   *)
(* number of runs and every set of faults, and about the program of        *)
(* EchoServer around it, for every number of peers and signals.            *)
(***************************************************************************)
EXTENDS EchoServer, TLAPS

\* The backends for a leaf that names none, with longer tries if the first fail.
USE SMTT(20), ZenonT(20), SMTT(120), ZenonT(60), SMTT(60)

Idle(w) == thread[w] \in {"none", "joined"}

\* Where the threads are in each phase of fa_server_run, and what they can rely
\* on: before the phase "create" and after "join" none is running, "create" has
\* reached the first i - 1 workers and "join" has finished with them.
Phases ==
  /\ mpc \in {"ready", "listen", "create", "join", "teardown"} => mem = Blocks
  /\ mpc \notin {"create", "join"} => \A w \in Workers : Idle(w)
  /\ mpc = "listen" => \A w \in Workers : w < i => listen_fd[w] \in open
  /\ mpc \in {"create", "join"} => \A w \in Workers : listen_fd[w] \in open
  /\ mpc = "create" => /\ started = i - 1
                       /\ \A w \in Workers : w >= i => Idle(w)
  /\ mpc = "join" => \A w \in Workers : w < i \/ w > started => Idle(w)
  /\ \A w \in Workers : thread[w] = "loop" => ring_ready[w]
  /\ mpc = "new" => mem = {<<"server", 0>>, <<"workers", 0>>}
                          \cup {<<"worker", j>> : j \in 1..(i - 1)}

Inv == TypeOK /\ Phases

\* The initial state.
LEMMA InvInit == Init => Inv
<1> SUFFICES ASSUME Init PROVE Inv
  OBVIOUS
<1> USE ServerAssumption DEF Init, Workers
<1>1. i \in 1..(N + 1) /\ started \in 0..N
  OBVIOUS
<1>2. TypeOK
  BY <1>1, Zenon, ZenonT(60) DEF TypeOK
<1>3. Phases
  BY DEF Phases, Idle
<1>4. QED
  BY <1>2, <1>3 DEF Inv

\* Steps of fa_server_new, fa_server_stop and fa_server_free.
LEMMA InvHandle ==
  ASSUME Inv, \/ NewServer \/ NewWorker \/ NewWorkerFails \/ NewReturns
              \/ fa_server_stop \/ fa_server_free \/ UNCHANGED vars
  PROVE  Inv'
<1> USE ServerAssumption DEF Inv, Workers, socketVars, workerVars, handleVars
<1>1. CASE NewServer
  BY <1>1 DEF NewServer, TypeOK, Phases, Idle, Blocks
<1>2. CASE NewWorker
  <2>1. TypeOK'
    BY <1>2 DEF NewWorker, TypeOK, Blocks
  <2>2. mem' = {<<"server", 0>>, <<"workers", 0>>}
                 \cup {<<"worker", j>> : j \in 1..(i' - 1)}
    <3>1. 1..(i' - 1) = 1..(i - 1) \cup {i} /\ mpc = "new"
          /\ mem' = mem \cup {<<"worker", i>>}
      BY <1>2 DEF NewWorker, TypeOK
    <3>2. QED
      BY <3>1 DEF Phases
  <2>3. Phases'
    BY <1>2, <2>2 DEF NewWorker, Phases, Idle
  <2>4. QED
    BY <2>1, <2>3
<1>3. CASE NewWorkerFails
  BY <1>3 DEF NewWorkerFails, TypeOK, Phases, Idle
<1>4. CASE NewReturns
  <2>1. TypeOK'
    BY <1>4 DEF NewReturns, TypeOK
  <2>2. mem' = Blocks
    BY <1>4 DEF NewReturns, Phases, Blocks
  <2>3. Phases'
    BY <1>4, <2>2 DEF NewReturns, Phases, Idle
  <2>4. QED
    BY <2>1, <2>3
<1>5. CASE fa_server_stop \/ fa_server_free \/ UNCHANGED vars
  BY <1>5, Zenon, ZenonT(60)
    DEF fa_server_stop, fa_server_free, vars, TypeOK, Phases, Idle
<1>6. QED
  BY <1>1, <1>2, <1>3, <1>4, <1>5

\* Steps of fa_server_run.
LEMMA InvRun ==
  ASSUME Inv, fa_server_run \/ RunStep
  PROVE  Inv'
<1> USE ServerAssumption DEF Inv, Workers, socketVars, workerVars, handleVars,
                             Return
<1>1. CASE fa_server_run
  BY <1>1 DEF fa_server_run, TypeOK, Phases, Idle
<1>2. CASE fa_make_listen_socket
  BY <1>2 DEF fa_make_listen_socket, TypeOK, Phases, Idle
<1>3. CASE ListenFails
  BY <1>3, Zenon, ZenonT(60) DEF ListenFails, TypeOK, Phases, Idle
<1>4. CASE AllListening
  BY <1>4 DEF AllListening, TypeOK, Phases, Idle
<1>5. CASE CreateThread
  BY <1>5 DEF CreateThread, TypeOK, Phases, Idle
<1>6. CASE CreateFails
  <2>1. TypeOK'
    <3>1. /\ i' \in 1..(N + 1) /\ ret' \in {"none", "ok", "error"}
          /\ mpc' \in {"ready", "join"} /\ asked' \in BOOLEAN
          /\ orphans' \subseteq Fds
      <4>1. CASE started = 0
        BY <1>6, <4>1, Zenon, ZenonT(60) DEF CreateFails, TypeOK
      <4>2. CASE started # 0
        BY <1>6, <4>2 DEF CreateFails, TypeOK
      <4>3. QED
        BY <4>1, <4>2
    <3>2. QED
      BY <1>6, <3>1 DEF CreateFails, TypeOK
  <2>2. CASE started = 0
    BY <1>6, <2>1, <2>2 DEF CreateFails, TypeOK, Phases, Idle
  <2>3. CASE started # 0
    BY <1>6, <2>1, <2>3 DEF CreateFails, TypeOK, Phases, Idle
  <2>4. QED
    BY <2>2, <2>3
<1>7. CASE AllStarted
  BY <1>7 DEF AllStarted, TypeOK, Phases, Idle
<1>8. CASE JoinThread
  BY <1>8 DEF JoinThread, TypeOK, Phases, Idle
<1>9. CASE AllJoined
  BY <1>9 DEF AllJoined, TypeOK, Phases, Idle
<1>10. CASE TearDownWorker
  <2>1. TypeOK'
    BY <1>10 DEF TearDownWorker, TypeOK
  <2>2. Phases'
    BY <1>10 DEF TearDownWorker, Phases, Idle
  <2>3. QED
    BY <2>1, <2>2
<1>11. CASE RunReturns
  BY <1>11, Zenon, ZenonT(60) DEF RunReturns, TypeOK, Phases, Idle
<1>12. QED
  BY <1>1, <1>2, <1>3, <1>4, <1>5, <1>6, <1>7, <1>8, <1>9, <1>10, <1>11
     DEF RunStep

\* Steps of the workers.
LEMMA InvWorker ==
  ASSUME Inv, NEW w \in Workers, WorkerStep(w)
  PROVE  Inv'
<1> USE DEF Inv, socketVars, handleVars
<1>1. CASE RingInitFails(w)
  BY <1>1 DEF RingInitFails, TypeOK, Phases, Idle
<1>2. CASE fa_thread_entry(w)
  BY <1>2, Zenon, ZenonT(60) DEF fa_thread_entry, TypeOK, Phases, Idle
<1>3. CASE fa_worker_loop(w)
  BY <1>3 DEF fa_worker_loop, TypeOK, Phases, Idle
<1>4. QED
  BY <1>1, <1>2, <1>3 DEF WorkerStep

\* Inv is inductive.
LEMMA InvNext == Inv /\ [Next]_vars => Inv'
  BY InvHandle, InvRun, InvWorker DEF Next

\* A worker thread never outlives what it uses: fa_server_run has joined every
\* thread it created before it closes a socket, exits a ring or returns, also
\* when it could create only some of them, and fa_server_free comes later.
THEOREM Lifetime == Spec => []RunsWithinLifetime
<1>1. Inv => RunsWithinLifetime
  BY DEF Inv, TypeOK, Phases, Idle, RunsWithinLifetime, Running
<1>2. QED
  BY <1>1, InvInit, InvNext, PTL DEF Spec

-----------------------------------------------------------------------------
\* The workers whose listen_fd is a socket of the current run.
Mine(w) ==
  \/ mpc = "listen" /\ w < i
  \/ mpc \in {"create", "join"}
  \/ mpc = "teardown" /\ w >= i

\* The open sockets are those of the current run, one per worker, and those left
\* by runs that failed at their first thread.
Sockets ==
  /\ \A f \in Fds : f \in open <=> f \in orphans
                                   \/ \E w \in Workers : Mine(w) /\ listen_fd[w] = f
  /\ \A v, w \in Workers :
       Mine(v) /\ Mine(w) /\ listen_fd[v] = listen_fd[w] => v = w
  /\ \A w \in Workers : Mine(w) => listen_fd[w] \in Fds \ orphans

\* Every step keeps it.
LEMMA SocketsNext ==
  ASSUME Inv, Sockets, [Next]_vars
  PROVE  Sockets'
<1> USE ServerAssumption DEF Inv, TypeOK, Workers, socketVars, workerVars,
                             handleVars, Return, Sockets, Mine
<1>1. CASE fa_make_listen_socket
  <2>1. PICK f \in Fds \ open : /\ open' = open \cup {f}
                                /\ listen_fd' = [listen_fd EXCEPT ![i] = f]
    BY <1>1, Zenon, ZenonT(60) DEF fa_make_listen_socket
  <2>2. /\ mpc = "listen" /\ mpc' = mpc /\ i' = i + 1 /\ i \in Workers
        /\ orphans' = orphans
    BY <1>1 DEF fa_make_listen_socket
  <2>3. listen_fd'[i] = f /\ \A w \in Workers : w # i => listen_fd'[w] = listen_fd[w]
    BY <2>1, <2>2
  <2>4. \A w \in Workers : Mine(w)' <=> Mine(w) \/ w = i
    BY <2>2
  <2>5. ~Mine(i)
    BY <2>2
  <2>6. f \notin orphans /\ \A w \in Workers : Mine(w) => listen_fd[w] # f
    BY <2>1
  <2> HIDE DEF Mine
  <2>7. \A g \in Fds : g \in open' <=> g \in orphans
                          \/ \E w \in Workers : Mine(w)' /\ listen_fd'[w] = g
    BY <2>1, <2>2, <2>3, <2>4, <2>5
  <2>8. QED
    BY <2>1, <2>2, <2>3, <2>4, <2>5, <2>6, <2>7
<1>2. CASE ListenFails
  <2>1. /\ mpc = "listen" /\ mpc' = "ready" /\ orphans' = orphans
        /\ open' = open \ {listen_fd[j] : j \in 1..(i - 1)}
    BY <1>2 DEF ListenFails
  <2>2. \A w \in Workers : ~Mine(w)' /\ (Mine(w) <=> w \in 1..(i - 1))
    BY <2>1
  <2>3. \A f \in Fds : f \in open' <=> f \in orphans
    BY <2>1, <2>2
  <2>4. QED
    BY <2>1, <2>2, <2>3
<1>3. CASE TearDownWorker
  <2>1. /\ mpc = "teardown" /\ mpc' = mpc /\ i' = i + 1 /\ i \in Workers
        /\ open' = open \ {listen_fd[i]} /\ orphans' = orphans
        /\ \A w \in Workers : w # i => listen_fd'[w] = listen_fd[w]
    BY <1>3 DEF TearDownWorker
  <2>2. Mine(i) /\ \A w \in Workers : Mine(w)' <=> Mine(w) /\ w # i
    BY <2>1
  <2> HIDE DEF Mine
  <2>3. ASSUME NEW f \in Fds
        PROVE  f \in open' <=> f \in orphans
                 \/ \E w \in Workers : Mine(w)' /\ listen_fd'[w] = f
    BY <2>1, <2>2
  <2>4. QED
    BY <2>1, <2>2, <2>3
<1>4. CASE RunReturns
  BY <1>4 DEF RunReturns
<1>5. CASE CreateFails
  <2>1. mpc = "create" /\ UNCHANGED <<listen_fd, open>>
    BY <1>5 DEF CreateFails
  <2>2. CASE started = 0
    <3>1. mpc' = "ready" /\ orphans' = open
      BY <1>5, <2>2 DEF CreateFails
    <3>2. QED
      BY <2>1, <3>1
  <2>3. CASE started # 0
    BY <1>5, <2>1, <2>3 DEF CreateFails
  <2>4. QED
    BY <2>2, <2>3
<1>6. CASE \/ fa_server_run \/ AllListening \/ CreateThread
           \/ AllStarted \/ JoinThread \/ AllJoined
  <2> HIDE DEF Sockets
  <2>1. UNCHANGED <<listen_fd, open, orphans>>
    BY <1>6 DEF fa_server_run, AllListening, CreateThread, AllStarted, JoinThread,
                AllJoined
  <2>2. \A w \in Workers : Mine(w)' <=> Mine(w)
    BY <1>6 DEF fa_server_run, AllListening, CreateThread, AllStarted, JoinThread,
                AllJoined
  <2> HIDE DEF Mine
  <2>3. QED
    BY <2>1, <2>2 DEF Sockets
<1>7. CASE \/ NewServer \/ NewWorker \/ NewWorkerFails \/ NewReturns
           \/ fa_server_stop \/ fa_server_free \/ UNCHANGED vars
  <2> HIDE DEF Sockets, Mine
  <2>1. /\ UNCHANGED <<listen_fd, open, orphans>>
        /\ \/ UNCHANGED <<mpc, i>>
           \/ {mpc, mpc'} \subseteq {"none", "new", "ready", "freed"}
    BY <1>7 DEF NewServer, NewWorker, NewWorkerFails, NewReturns, fa_server_stop,
                fa_server_free, vars
  <2>2. \A w \in Workers : Mine(w)' <=> Mine(w)
    BY <2>1 DEF Mine
  <2>3. QED
    BY <2>1, <2>2, Zenon, ZenonT(60) DEF Sockets
<1>8. ASSUME NEW w \in Workers, WorkerStep(w) PROVE Sockets'
  <2> HIDE DEF Sockets, Mine
  <2>1. UNCHANGED <<mpc, i, listen_fd, open, orphans>>
    BY <1>8 DEF WorkerStep, RingInitFails, fa_thread_entry, fa_worker_loop
  <2>2. QED
    BY <2>1 DEF Sockets, Mine
<1>9. QED
  BY <1>1, <1>2, <1>3, <1>4, <1>5, <1>6, <1>7, <1>8 DEF Next, RunStep

\* Outside fa_server_run no listening socket is open, however often the server
\* is run and whatever fails, except the ones of runs whose very first
\* pthread_create failed.
THEOREM SocketsAreClosed == Spec => []SocketsClosed
<1>1. Init => Sockets
  BY ServerAssumption DEF Init, Sockets, Workers, Mine
<1>2. Inv /\ Sockets => SocketsClosed
  BY ServerAssumption DEF Inv, TypeOK, Sockets, SocketsClosed, Mine
<1>3. Inv /\ Sockets /\ [Next]_vars => Sockets'
  BY SocketsNext
<1>4. QED
  BY <1>1, <1>2, <1>3, InvInit, InvNext, PTL DEF Spec

-----------------------------------------------------------------------------
\* Worker w has neither a ring nor conns.
Bare(w) == ~ring_ready[w] /\ ~pooled[w]

\* What each phase has left: memory before fa_server_new and after
\* fa_server_free, rings and conns only of the workers whose thread was created
\* and that the teardown has not reached.
Leftovers ==
  /\ mpc \in {"none", "freed"} => mem = {}
  /\ mpc \in {"none", "new", "ready", "listen", "freed"} =>
       \A w \in Workers : Bare(w)
  /\ mpc = "create" => \A w \in Workers : w >= i => Bare(w)
  /\ mpc = "teardown" => \A w \in Workers : w < i => Bare(w)

\* Every step keeps it.
LEMMA LeftoversNext ==
  ASSUME Inv, Leftovers, [Next]_vars
  PROVE  Leftovers'
<1> USE ServerAssumption DEF Workers, socketVars, workerVars, handleVars, Return
<1>1. CASE NewServer \/ NewWorker \/ NewReturns
  BY <1>1 DEF NewServer, NewWorker, NewReturns, Leftovers, Bare
<1>2. CASE NewWorkerFails
  <2>1. /\ mpc = "new" /\ mpc' = "none" /\ UNCHANGED <<ring_ready, pooled>>
        /\ mem' = mem \ ({<<"worker", j>> : j \in 1..(i - 1)}
                         \cup {<<"workers", 0>>, <<"server", 0>>})
    BY <1>2 DEF NewWorkerFails
  <2>2. mem = {<<"server", 0>>, <<"workers", 0>>}
                \cup {<<"worker", j>> : j \in 1..(i - 1)}
    BY <2>1 DEF Inv, Phases
  <2>3. mem' = {}
    BY <2>1, <2>2, Zenon
  <2>4. QED
    BY <2>1, <2>3 DEF Leftovers, Bare
<1>3. CASE fa_server_free
  <2>1. /\ mpc = "ready" /\ mpc' = "freed" /\ UNCHANGED <<ring_ready, pooled>>
        /\ mem' = mem \ ({<<"worker", j>> : j \in Workers}
                         \cup {<<"workers", 0>>, <<"server", 0>>})
    BY <1>3 DEF fa_server_free
  <2>2. mem' = {}
    BY <2>1 DEF Inv, TypeOK, Blocks
  <2>3. QED
    BY <2>1, <2>2 DEF Leftovers, Bare
<1>4. CASE fa_server_stop \/ UNCHANGED vars
  BY <1>4 DEF fa_server_stop, vars, Leftovers, Bare
<1>5. CASE fa_server_run \/ fa_make_listen_socket \/ ListenFails \/ AllListening
  BY <1>5 DEF fa_server_run, fa_make_listen_socket, ListenFails, AllListening,
              Leftovers, Bare
<1>6. CASE CreateThread
  BY <1>6 DEF CreateThread, Leftovers, Bare, Inv, TypeOK
<1>7. CASE CreateFails
  <2>1. mpc = "create" /\ UNCHANGED <<ring_ready, pooled, mem>>
    BY <1>7 DEF CreateFails
  <2>2. CASE started = 0
    <3>1. mpc' = "ready" /\ i' = i
      BY <1>7, <2>2 DEF CreateFails
    <3>2. i = 1
      BY <2>1, <2>2 DEF Inv, TypeOK, Phases
    <3>3. QED
      BY <2>1, <3>1, <3>2 DEF Leftovers, Bare
  <2>3. CASE started # 0
    <3>1. mpc' = "join"
      BY <1>7, <2>3 DEF CreateFails
    <3>2. QED
      BY <3>1 DEF Leftovers
  <2>4. QED
    BY <2>2, <2>3
<1>8. CASE AllStarted \/ JoinThread \/ AllJoined
  BY <1>8 DEF AllStarted, JoinThread, AllJoined, Leftovers, Bare
<1>9. CASE TearDownWorker
  <2>1. /\ mpc = "teardown" /\ mpc' = mpc /\ i' = i + 1 /\ i \in Nat
        /\ ring_ready' = [ring_ready EXCEPT ![i] = FALSE]
        /\ pooled' = [pooled EXCEPT ![i] = FALSE]
    BY <1>9 DEF TearDownWorker, Inv, TypeOK
  <2>2. ASSUME NEW w \in Workers, w < i' PROVE Bare(w)'
    BY <2>1, <2>2 DEF Leftovers, Bare, Inv, TypeOK
  <2>3. QED
    BY <2>1, <2>2 DEF Leftovers
<1>10. CASE RunReturns
  BY <1>10 DEF RunReturns, Leftovers, Bare, Inv, TypeOK
<1>11. ASSUME NEW w \in Workers, WorkerStep(w) PROVE Leftovers'
  <2>1. /\ UNCHANGED <<mpc, i, mem>>
        /\ \A v \in Workers : v # w => Bare(v)' = Bare(v)
        /\ thread[w] \in {"created", "loop"}
    BY <1>11 DEF WorkerStep, RingInitFails, fa_thread_entry, fa_worker_loop, Bare,
                 Inv, TypeOK
  <2>2. mpc \in {"create", "join"} /\ (mpc = "create" => ~(w >= i))
    BY <2>1 DEF Inv, Phases, Idle
  <2>3. QED
    BY <2>1, <2>2 DEF Leftovers
<1>12. QED
  BY <1>1, <1>2, <1>3, <1>4, <1>5, <1>6, <1>7, <1>8, <1>9, <1>10, <1>11
     DEF Next, RunStep

\* A server that could not be made leaves nothing allocated, and a freed one has
\* neither memory, nor a running thread, nor a ring, nor pooled conns, however
\* often it ran and whatever failed.
THEOREM NothingIsLeft == Spec => []NothingLeft
<1>1. Init => Leftovers
  BY ServerAssumption DEF Init, Leftovers, Bare, Workers
<1>2. Inv /\ Leftovers => NothingLeft
  BY DEF Inv, Phases, Idle, Leftovers, Bare, NothingLeft, Running
<1>3. Inv /\ Leftovers /\ [Next]_vars => Leftovers'
  BY LeftoversNext
<1>4. QED
  BY <1>1, <1>2, <1>3, InvInit, InvNext, PTL DEF Spec

-----------------------------------------------------------------------------
(* The program around the server.                                           *)

\* Where the server is while main is at epc: a handler is installed only once
\* there is a server, and a peer is reset only when the run tears down.
Course ==
  /\ epc = "new" => mpc \in {"none", "new"}
  /\ epc \in {"sigint", "sigterm", "run", "free"} => mpc = "ready"
  /\ epc = "running" => mpc \in {"listen", "create", "join", "teardown"}
  /\ epc \in {"return", "exited"} => mpc = "freed"
  /\ handlers # {} => mpc \notin {"none", "new"}

WasReset == \E k \in Peers : conn[k] = "reset"

Resets ==
  /\ conn \in [Peers -> {"new", "queued", "served", "reset"}]
  /\ WasReset => \/ epc = "killed" \/ epc \in {"free", "return", "exited"}
                 \/ epc = "running" /\ mpc = "teardown"

EchoInv == Course /\ Resets

\* A step that resets nobody.
LEMMA NoReset ==
  ASSUME conn \in [Peers -> {"new", "queued", "served", "reset"}],
         \/ UNCHANGED conn
         \/ \E k \in Peers, v \in {"queued", "served"} : conn' = [conn EXCEPT ![k] = v]
  PROVE  /\ conn' \in [Peers -> {"new", "queued", "served", "reset"}]
         /\ WasReset' => WasReset
  BY DEF WasReset

\* The steps of fa_server_run, and which of them close a socket.
LEMMA RunPhases ==
  ASSUME Inv, RunStep
  PROVE  /\ mpc \in {"listen", "create", "join", "teardown"}
         /\ mpc' \in {"ready", "listen", "create", "join", "teardown"}
         /\ mpc = "teardown" => mpc' \in {"teardown", "ready"}
         /\ open \ open' # {} => mpc' \in {"teardown", "ready"}
<1> USE DEF Return, socketVars
<1>1. CASE fa_make_listen_socket \/ ListenFails \/ AllListening \/ CreateThread
  BY <1>1 DEF fa_make_listen_socket, ListenFails, AllListening, CreateThread
<1>2. CASE CreateFails
  <2>1. mpc = "create" /\ open' = open
    BY <1>2 DEF CreateFails
  <2>2. mpc' = "ready" \/ mpc' = "join"
    BY <1>2, Zenon DEF CreateFails
  <2>3. QED
    BY <2>1, <2>2
<1>3. CASE AllStarted \/ JoinThread \/ AllJoined \/ TearDownWorker \/ RunReturns
  BY <1>3 DEF AllStarted, JoinThread, AllJoined, TearDownWorker, RunReturns
<1>4. QED
  BY <1>1, <1>2, <1>3 DEF RunStep

\* Every step of the program is a step of the server, or none, and keeps EchoInv.
LEMMA EchoStep ==
  ASSUME Inv, EchoInv, [EchoNext]_echoVars
  PROVE  [Next]_vars /\ EchoInv'
<1> USE DEF EchoInv, mainVars, peerVars
<1>1. CASE CallNew
  <2>1. NewServer \/ NewWorker \/ NewWorkerFails \/ NewReturns
    BY <1>1 DEF CallNew
  <2>2. /\ epc = "new" /\ UNCHANGED <<handlers, conn>>
        /\ \/ mpc' = "none"  /\ epc' = "failed"
           \/ mpc' = "new"   /\ epc' = "new"
           \/ mpc' = "ready" /\ epc' = "sigint"
    BY <1>1 DEF CallNew
  <2>3. handlers = {}
    BY <2>2 DEF Course
  <2>4. ~WasReset /\ ~WasReset' /\ Resets'
    BY <2>2 DEF Resets, WasReset
  <2>5. QED
    BY <2>1, <2>2, <2>3, <2>4 DEF Next, Course
<1>2. CASE InstallHandler
  BY <1>2 DEF InstallHandler, vars, Course, Resets, WasReset
<1>3. CASE CallRun
  <2>1. /\ epc = "run" /\ epc' = "running" /\ mpc' = "listen" /\ fa_server_run
        /\ UNCHANGED <<handlers, conn>>
    BY <1>3 DEF CallRun, fa_server_run
  <2>2. QED
    BY <2>1 DEF Next, Course, Resets, WasReset
<1>4. CASE InRun
  <2>1. /\ epc = "running" /\ RunStep /\ UNCHANGED handlers
        /\ epc' = IF mpc' = "ready" THEN "free" ELSE "running"
        /\ conn' = [k \in Peers |->
                      IF conn[k] = "queued" /\ listen_fd[at[k]] \in open \ open'
                      THEN "reset" ELSE conn[k]]
    BY <1>4 DEF InRun, ResetClosed
  <2>2. /\ mpc' \in {"ready", "listen", "create", "join", "teardown"}
        /\ mpc = "teardown" => mpc' \in {"teardown", "ready"}
        /\ open \ open' # {} => mpc' \in {"teardown", "ready"}
    BY <2>1, RunPhases
  <2>3. Course'
    BY <2>1, <2>2 DEF Course
  <2>4. conn' \in [Peers -> {"new", "queued", "served", "reset"}]
    BY <2>1 DEF Resets
  <2>5. WasReset' => WasReset \/ open \ open' # {}
    BY <2>1 DEF WasReset
  <2>6. WasReset => mpc = "teardown"
    BY <2>1 DEF Resets
  <2>7. QED
    BY <2>1, <2>2, <2>3, <2>4, <2>5, <2>6 DEF Resets, Next
<1>5. CASE CallFree
  <2>1. /\ epc = "free" /\ epc' = "return" /\ mpc' = "freed" /\ fa_server_free
        /\ UNCHANGED <<handlers, conn>>
    BY <1>5 DEF CallFree, fa_server_free
  <2>2. QED
    BY <2>1 DEF Next, Course, Resets, WasReset
<1>6. CASE MainReturns
  <2>1. /\ epc = "return" /\ epc' = "exited" /\ UNCHANGED <<vars, handlers>>
        /\ conn' = [k \in Peers |-> IF conn[k] = "queued" THEN "reset" ELSE conn[k]]
    BY <1>6 DEF MainReturns, ResetAll
  <2>2. conn' \in [Peers -> {"new", "queued", "served", "reset"}]
    BY <2>1 DEF Resets
  <2>3. QED
    BY <2>1, <2>2 DEF vars, Course, Resets
<1>7. ASSUME NEW w \in Workers, Thread(w) PROVE [Next]_vars /\ EchoInv'
  <2>1. WorkerStep(w) /\ UNCHANGED <<epc, handlers, conn>>
    BY <1>7 DEF Thread
  <2>2. mpc' = mpc
    BY <2>1 DEF WorkerStep, RingInitFails, fa_thread_entry, fa_worker_loop
  <2>3. QED
    BY <2>1, <2>2 DEF Next, Course, Resets, WasReset
<1>8. ASSUME NEW s \in {"INT", "TERM"}, on_signal(s) PROVE [Next]_vars /\ EchoInv'
  <2>1. /\ s \in handlers
        /\ UNCHANGED <<mpc, i, started, ret, handleVars, socketVars, workerVars, epc,
                       handlers, conn>>
    BY <1>8 DEF on_signal
  <2>2. EchoInv'
    BY <2>1 DEF Course, Resets, WasReset
  <2>3. mpc \notin {"none", "new"}
    BY <2>1 DEF Course
  <2>4. CASE mpc = "freed"
    <3>1. UNCHANGED <<stop, asked>>
      BY <1>8, <2>4 DEF on_signal
    <3>2. QED
      BY <2>1, <2>2, <3>1 DEF vars
  <2>5. CASE mpc # "freed"
    <3>1. stop' = TRUE /\ asked' = TRUE
      BY <1>8, <2>5 DEF on_signal
    <3>2. CASE ~stop \/ ~asked
      BY <2>1, <2>2, <2>3, <2>5, <3>1, <3>2 DEF Next, fa_server_stop
    <3>3. CASE stop /\ asked
      <4>1. UNCHANGED <<stop, asked>>
        BY <3>1, <3>3, Zenon DEF Inv, TypeOK
      <4>2. QED
        BY <2>1, <2>2, <4>1 DEF vars
    <3>4. QED
      BY <3>2, <3>3
  <2>6. QED
    BY <2>4, <2>5
<1>9. ASSUME NEW s \in {"INT", "TERM"}, DefaultAction(s)
      PROVE  [Next]_vars /\ EchoInv'
  <2>1. /\ epc' = "killed" /\ UNCHANGED <<vars, handlers>>
        /\ conn' = [k \in Peers |-> IF conn[k] = "queued" THEN "reset" ELSE conn[k]]
    BY <1>9 DEF DefaultAction, ResetAll
  <2>2. conn' \in [Peers -> {"new", "queued", "served", "reset"}]
    BY <2>1 DEF Resets
  <2>3. QED
    BY <2>1, <2>2 DEF vars, Course, Resets
<1>10. ASSUME NEW k \in Peers, Connect(k) \/ Serve(k)
       PROVE  [Next]_vars /\ EchoInv'
  <2>1. /\ UNCHANGED <<vars, epc, handlers>>
        /\ \E v \in {"queued", "served"} : conn' = [conn EXCEPT ![k] = v]
    BY <1>10 DEF Connect, Serve
  <2>2. conn \in [Peers -> {"new", "queued", "served", "reset"}]
    BY DEF Resets
  <2>3. /\ conn' \in [Peers -> {"new", "queued", "served", "reset"}]
        /\ WasReset' => WasReset
    BY <2>1, <2>2, NoReset, Zenon, ZenonT(60)
  <2>4. QED
    BY <2>1, <2>3 DEF vars, Course, Resets
<1>11. CASE UNCHANGED echoVars
  BY <1>11 DEF echoVars, vars, Course, Resets, WasReset
<1>12. QED
  BY <1>1, <1>2, <1>3, <1>4, <1>5, <1>6, <1>7, <1>8, <1>9, <1>10, <1>11
     DEF EchoNext, main

\* The invariant of the program.
LEMMA EchoInvariant == EchoSpec => Spec /\ [](Inv /\ EchoInv)
<1>1. EchoInit => Init /\ EchoInv
  BY DEF EchoInit, Init, EchoInv, Course, Resets, WasReset
<1>2. Inv /\ EchoInv /\ [EchoNext]_echoVars => [Next]_vars /\ EchoInv'
  BY EchoStep
<1>3. QED
  BY <1>1, <1>2, InvInit, InvNext, PTL DEF EchoSpec, Spec

\* The example program uses the server as its documentation allows: whenever
\* signals arrive and whatever fails, what main and on_signal do to the handle is
\* a behaviour of FaServer, so Lifetime, SocketsAreClosed and NothingIsLeft hold
\* of it.
THEOREM EchoImplementsServer == EchoSpec => Spec
  BY EchoInvariant, PTL

\* A peer that waits in a backlog is reset only when no worker thread is left, or
\* when a signal without a handler has killed the process.
THEOREM ResetsHaveACause == EchoSpec => []ResetHasCause
<1>1. Inv /\ EchoInv => ResetHasCause
  BY DEF Inv, Phases, Idle, EchoInv, Course, Resets, WasReset, ResetHasCause, Running
<1>2. QED
  BY <1>1, EchoInvariant, PTL
=============================================================================
