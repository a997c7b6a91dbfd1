----------------------------- MODULE TreatFleet -----------------------------
(***************************************************************************)
(* The process of the treatment arm (src/research/treatment/               *)
(* accept-treat.c): main opens a SO_REUSEPORT socket and creates a thread  *)
(* for one CPU after the other, then joins them.  Peers connect from the   *)
(* first listen() on, and the kernel hashes each to one of the sockets     *)
(* that are open at that moment.  What a thread does in its loop is        *)
(* TreatWorker; here it serves the peers of its socket.                    *)
(***************************************************************************)
EXTENDS Integers

CONSTANTS
  N,       \* nallowed, the CPUs of the affinity mask
  Peers,   \* connections made to the port
  FleetFaults   \* which calls may fail

ASSUME FleetAssumption ==
  /\ N \in Nat \ {0}
  /\ FleetFaults \subseteq {"setup", "listen", "thread", "ring", "enter"}

Workers == 1..N

VARIABLES
  mpc,        \* where main is
  i,          \* its loop counter
  started,    \* threads created
  listening,  \* workers whose listening socket is open
  thread,     \* the worker threads
  conn,       \* the peers
  at          \* the worker whose socket a peer was hashed to

mainVars == <<mpc, i, started, listening>>
fleetVars == <<mainVars, thread, conn, at>>

FleetTypeOK ==
  /\ mpc \in {"setup", "listen", "create", "join", "exit 0", "exit 1"}
  /\ i \in 1..(N + 1) /\ started \in 0..N
  /\ listening \subseteq Workers
  /\ thread \in [Workers -> {"none", "created", "loop", "returned"}]
  /\ conn \in [Peers -> {"new", "queued", "served", "reset"}]
  /\ at \in [Peers -> Workers]

FleetInit ==
  /\ mpc = "setup" /\ i = 1 /\ started = 0 /\ listening = {}
  /\ thread = [w \in Workers |-> "none"]
  /\ conn = [k \in Peers |-> "new"] /\ at = [k \in Peers |-> 1]

Alive == mpc \notin {"exit 0", "exit 1"}

-----------------------------------------------------------------------------
(* main.                                                                    *)

\* The end of main is the end of the process: sockets closed, threads gone.
Exit(code) ==
  /\ mpc' = code
  /\ listening' = {}
  /\ conn' = [k \in Peers |-> IF conn[k] = "queued" THEN "reset" ELSE conn[k]]
  /\ UNCHANGED <<i, started, thread, at>>

\* sched_getaffinity and the three callocs.
Setup ==
  /\ mpc = "setup"
  /\ \/ mpc' = "listen" /\ UNCHANGED <<i, started, listening, thread, conn, at>>
     \/ "setup" \in FleetFaults /\ Exit("exit 1")

\* Variant: a failing socket is skipped; the loop goes on without it.
make_listen_socket_Skip ==
  /\ mpc = "listen" /\ i <= N
  /\ \/ /\ mpc' = "create" /\ listening' = listening \cup {i}
        /\ UNCHANGED <<i, started, thread, conn, at>>
     \/ /\ "listen" \in FleetFaults /\ i' = i + 1
        /\ UNCHANGED <<mpc, started, listening, thread, conn, at>>

\* socket, setsockopt, bind, listen; a failure is the end of the program.
make_listen_socket ==
  /\ mpc = "listen" /\ i <= N
  /\ \/ /\ mpc' = "create" /\ listening' = listening \cup {i}
        /\ UNCHANGED <<i, started, thread, conn, at>>
     \/ "listen" \in FleetFaults /\ Exit("exit 1")

\* Variant: a thread that cannot be created is skipped.
CreateThread_Skip ==
  /\ mpc = "create"
  /\ mpc' = "listen" /\ i' = i + 1
  /\ \/ thread' = [thread EXCEPT ![i] = "created"] /\ started' = started + 1
     \/ "thread" \in FleetFaults /\ UNCHANGED <<thread, started>>
  /\ UNCHANGED <<listening, conn, at>>

CreateThread ==
  /\ mpc = "create"
  /\ \/ /\ thread' = [thread EXCEPT ![i] = "created"]
        /\ mpc' = "listen" /\ i' = i + 1 /\ started' = started + 1
        /\ UNCHANGED <<listening, conn, at>>
     \/ "thread" \in FleetFaults /\ Exit("exit 1")

AllStarted ==
  /\ mpc = "listen" /\ i = N + 1
  /\ mpc' = "join" /\ i' = 1
  /\ UNCHANGED <<started, listening, thread, conn, at>>

JoinThread ==
  /\ mpc = "join" /\ i <= started /\ thread[i] = "returned"
  /\ i' = i + 1
  /\ UNCHANGED <<mpc, started, listening, thread, conn, at>>

\* Variant: main ends with the first thread that ends.
AllJoined_Any ==
  /\ mpc = "join" /\ \E w \in Workers : thread[w] = "returned"
  /\ Exit("exit 0")

AllJoined ==
  /\ mpc = "join" /\ i = started + 1
  /\ Exit("exit 0")

main == \/ Setup \/ make_listen_socket \/ CreateThread \/ AllStarted
        \/ JoinThread \/ AllJoined

-----------------------------------------------------------------------------
(* The threads and the peers.                                               *)

\* The ring with the flags or, if the kernel rejects them, without; if that
\* fails too the thread returns and its socket stays open.
ThreadEntry(w) ==
  /\ Alive /\ thread[w] = "created"
  /\ \/ thread' = [thread EXCEPT ![w] = "loop"]
     \/ "ring" \in FleetFaults /\ thread' = [thread EXCEPT ![w] = "returned"]
  /\ UNCHANGED <<mainVars, conn, at>>

\* io_uring_submit_and_wait fails: break.
LoopBreaks(w) ==
  /\ Alive /\ thread[w] = "loop" /\ "enter" \in FleetFaults
  /\ thread' = [thread EXCEPT ![w] = "returned"]
  /\ UNCHANGED <<mainVars, conn, at>>

PeerConnects(k) ==
  /\ conn[k] = "new"
  /\ \E w \in listening : at' = [at EXCEPT ![k] = w]
  /\ conn' = [conn EXCEPT ![k] = "queued"]
  /\ UNCHANGED <<mainVars, thread>>

worker_main(k) ==
  /\ Alive /\ conn[k] = "queued" /\ thread[at[k]] = "loop"
  /\ conn' = [conn EXCEPT ![k] = "served"]
  /\ UNCHANGED <<mainVars, thread, at>>

FleetNext ==
  \/ main
  \/ \E w \in Workers : ThreadEntry(w) \/ LoopBreaks(w)
  \/ \E k \in Peers : PeerConnects(k) \/ worker_main(k)

FleetSpec == FleetInit /\ [][FleetNext]_fleetVars

\* main and the threads are scheduled; a thread in its loop serves its socket
\* (AllPeersServed of TreatWorker).
FairFleetSpec ==
  /\ FleetSpec
  /\ WF_fleetVars(main)
  /\ \A w \in Workers : WF_fleetVars(ThreadEntry(w))
  /\ \A k \in Peers : WF_fleetVars(worker_main(k))

-----------------------------------------------------------------------------
(* Properties.                                                              *)

Dead(w) == thread[w] = "returned"

\* A peer that is hashed to a socket before the thread of that socket exists is
\* not lost: it is served, or the process ends, or its thread has ended by
\* itself and stranded it (accept-treat.c:356 and :271 leave the socket open).
OnlyDeadWorkersStrand ==
  \A k \in Peers :
    conn[k] = "queued" ~> conn[k] \in {"served", "reset"} \/ Dead(at[k])

\* The sockets and the threads go together: once main waits, every open socket
\* of the group has a thread of its own, so no share of the connections is
\* hashed to a socket nobody was created for, whatever failed before.
EverySocketHasThread ==
  mpc = "join" => /\ listening = Workers
                  /\ \A w \in Workers : thread[w] # "none"

\* A thread that ends does not take the others down: after startup a peer is
\* reset only when all threads have returned.
ResetMeansAllDead ==
  mpc = "exit 0" => \A w \in Workers : Dead(w)

\* "so the server always comes up" (accept-treat.c:349): a created thread gets
\* a ring.
AlwaysComesUp ==
  \A w \in Workers : thread[w] = "created" ~> thread[w] = "loop" \/ ~Alive
=============================================================================
