----------------------------- MODULE EchoServer -----------------------------
(***************************************************************************)
(* A program around the engine: main and on_signal of                      *)
(* src/examples/echo_server.c composed with FaServer, the signals that     *)
(* reach the process at any point, and the peers the kernel spreads over   *)
(* the SO_REUSEPORT sockets of the workers.                                *)
(***************************************************************************)
EXTENDS FaServer

CONSTANTS
  Peers,       \* connections made to the port
  MaxSignals   \* bound: signals sent to the process

ASSUME EchoAssumption == MaxSignals \in Nat

VARIABLES
  epc,         \* where main is
  handlers,    \* signals whose handler is on_signal
  signals,     \* signals sent so far
  conn,        \* the peers: new, queued on a socket, served, reset
  at           \* the worker whose socket a peer was hashed to

peerVars == <<conn, at>>
mainVars == <<epc, handlers, signals>>
echoVars == <<vars, mainVars, peerVars>>

Down == {"exited", "failed", "killed"}

EchoTypeOK ==
  /\ TypeOK
  /\ epc \in {"new", "sigint", "sigterm", "run", "running", "free", "return"}
             \cup Down
  /\ handlers \subseteq {"INT", "TERM"}
  /\ signals \in 0..MaxSignals
  /\ conn \in [Peers -> {"new", "queued", "served", "reset"}]
  /\ at \in [Peers -> Workers]

EchoInit ==
  /\ Init
  /\ epc = "new" /\ handlers = {} /\ signals = 0
  /\ conn = [k \in Peers |-> "new"] /\ at = [k \in Peers |-> 1]

-----------------------------------------------------------------------------
(* The peers and the kernel's listening sockets.                            *)

\* A connection joins the backlog of one socket of the group.
Connect(k) ==
  /\ conn[k] = "new" /\ epc \notin Down
  /\ \E w \in Workers :
       /\ listen_fd[w] \in open
       /\ at' = [at EXCEPT ![k] = w]
  /\ conn' = [conn EXCEPT ![k] = "queued"]
  /\ UNCHANGED <<vars, mainVars>>

\* The worker of that socket accepts, answers and closes (FaWorker).
Serve(k) ==
  /\ conn[k] = "queued" /\ thread[at[k]] = "loop" /\ epc \notin Down
  /\ conn' = [conn EXCEPT ![k] = "served"]
  /\ UNCHANGED <<vars, mainVars, at>>

\* Closing a socket resets its backlog.
ResetClosed ==
  conn' = [k \in Peers |->
             IF conn[k] = "queued" /\ listen_fd[at[k]] \in open \ open'
             THEN "reset" ELSE conn[k]]

\* So does the end of the process.
ResetAll ==
  conn' = [k \in Peers |-> IF conn[k] = "queued" THEN "reset" ELSE conn[k]]

-----------------------------------------------------------------------------
(* main.                                                                    *)

\* fa_server_new; without a handle main returns 1.
CallNew ==
  /\ epc = "new"
  /\ NewServer \/ NewWorker \/ NewWorkerFails \/ NewReturns
  /\ \/ mpc' = "none"  /\ epc' = "failed"
     \/ mpc' = "new"   /\ epc' = "new"
     \/ mpc' = "ready" /\ epc' = "sigint"
  /\ UNCHANGED <<handlers, signals, peerVars>>

\* signal(SIGINT, on_signal); signal(SIGTERM, on_signal)
InstallHandler ==
  /\ \/ epc = "sigint"  /\ epc' = "sigterm" /\ handlers' = handlers \cup {"INT"}
     \/ epc = "sigterm" /\ epc' = "run"     /\ handlers' = handlers \cup {"TERM"}
  /\ UNCHANGED <<vars, signals, peerVars>>

CallRun ==
  /\ epc = "run" /\ fa_server_run
  /\ epc' = "running"
  /\ UNCHANGED <<handlers, signals, peerVars>>

InRun ==
  /\ epc = "running" /\ RunStep
  /\ epc' = IF mpc' = "ready" THEN "free" ELSE "running"
  /\ ResetClosed
  /\ UNCHANGED <<handlers, signals, at>>

CallFree ==
  /\ epc = "free" /\ fa_server_free
  /\ epc' = "return"
  /\ UNCHANGED <<handlers, signals, peerVars>>

MainReturns ==
  /\ epc = "return"
  /\ epc' = "exited"
  /\ ResetAll
  /\ UNCHANGED <<vars, handlers, signals, at>>

main == CallNew \/ InstallHandler \/ CallRun \/ InRun \/ CallFree \/ MainReturns

-----------------------------------------------------------------------------
(* Signals.                                                                 *)

\* on_signal calls fa_server_stop(g_server).  After fa_server_free the write
\* goes to the freed block, which nothing in main reads again.
on_signal(s) ==
  /\ s \in handlers /\ epc \notin Down /\ signals < MaxSignals
  /\ signals' = signals + 1
  /\ IF mpc = "freed"
     THEN UNCHANGED <<stop, asked>>
     ELSE stop' = TRUE /\ asked' = TRUE
  /\ UNCHANGED <<mpc, i, started, ret, handleVars, socketVars, workerVars, epc,
                 handlers, peerVars>>

\* Without a handler a signal ends the process.
DefaultAction(s) ==
  /\ s \notin handlers /\ epc \notin Down /\ signals < MaxSignals
  /\ signals' = signals + 1
  /\ epc' = "killed"
  /\ ResetAll
  /\ UNCHANGED <<vars, handlers, at>>

-----------------------------------------------------------------------------
Thread(w) ==
  /\ epc \notin Down /\ WorkerStep(w)
  /\ UNCHANGED <<mainVars, peerVars>>

EchoNext ==
  \/ main
  \/ \E w \in Workers : Thread(w)
  \/ \E s \in {"INT", "TERM"} : on_signal(s) \/ DefaultAction(s)
  \/ \E k \in Peers : Connect(k) \/ Serve(k)

EchoSpec == EchoInit /\ [][EchoNext]_echoVars

\* main and the threads are scheduled, and a worker in its loop serves what its
\* socket holds (EveryPeerServed of FaWorkerProps); nobody owes a signal, and no
\* enter has to fail.
EchoFairSpec ==
  /\ EchoSpec
  /\ WF_echoVars(main)
  /\ \A w \in Workers :
       /\ WF_echoVars(Thread(w) /\ thread[w] = "created")
       /\ WF_echoVars(Thread(w) /\ stop)
  /\ \A k \in Peers : WF_echoVars(Serve(k))

-----------------------------------------------------------------------------
(* Properties.                                                              *)

\* "blocks until a signal" (echo_server.c:71): a signal that finds its handler
\* ends the program, wherever main is.  One that arrives between signal() and
\* fa_server_run is not lost, because the run does not clear the stop flag.
SignalEndsMain == asked ~> epc \in Down

\* A connection in a listening backlog is served or reset.  It waits for ever
\* only behind a worker whose thread ended by itself in a server nobody stops;
\* when pthread_create fails half way, the backlogs of the workers that never
\* got a thread are not left behind (flashaccept.c:583,600-605).
BacklogIsServedOrReset ==
  \A k \in Peers :
    conn[k] = "queued" ~> \/ conn[k] \in {"served", "reset"}
                          \/ thread[at[k]] \in {"exited", "joined"} /\ ~stop

\* A worker that ends by itself does not take the others down: the backlogs are
\* reset only when no thread is left, whatever failed (flashaccept.c:593), unless
\* a signal kills the process.
ResetHasCause ==
  (\E k \in Peers : conn[k] = "reset") =>
    epc = "killed" \/ \A w \in Workers : ~Running(w)

\* "safe to call from a signal handler" (flashaccept.h:141): the handler only
\* reaches a server that has not been freed.
StopOnLiveHandle ==
  [][\A s \in {"INT", "TERM"} : on_signal(s) => mpc # "freed"]_echoVars

=============================================================================
