----------------------------- MODULE NodeProgram -----------------------------
(***************************************************************************)
(* The life of the node process, src/main.cpp: the start of the threads,   *)
(* the local command socket, and the shutdown with its joins, together     *)
(* with MeshNode::start, stop, tls_worker_loop and the webhook reaper of   *)
(* src/consensus/MeshNode.cpp, and the start and stop of PeerDiscovery in  *)
(* src/net/TransportLayer.cpp.  The five other mesh threads wait with a    *)
(* time-out and test m_running on every turn; the one of p2p_listener_loop *)
(* stands for them.  Any thread may be overtaken between two steps.  The   *)
(* sockets here are the ones that MeshNode sends with, which stop() closes *)
(* after its joins; port is UDP 9998, on which both p2p_listener_loop and  *)
(* PeerDiscovery want to hear beacons.                                     *)
(***************************************************************************)
EXTENDS Naturals, FiniteSets

CONSTANT MaxTasks   \* bound on the queued TLS connections

VARIABLES
    running,       \* global_running
    mesh_running,  \* MeshNode::m_running
    main,          \* where main is
    heartbeat,     \* the heartbeat thread
    ipc,           \* the command thread
    listener,      \* the mesh threads that poll
    discovery,     \* the thread of PeerDiscovery
    port,          \* who has bound UDP 9998: free, mesh or discovery
    refused,       \* history: the system refused a socket to the start
    worker,        \* the thread of tls_worker_loop
    tasks,         \* length of m_tls_connect_queue
    started,       \* std::thread objects that own a thread
    sockets,       \* the mesh's datagram sockets are open
    bridge,        \* the telemetry child: none, running, exited, reaped
    missed,        \* history: stop() notified between the test and the wait
    late           \* history: threads that used the mesh after stop()

netVars == <<discovery, port, refused>>
programVars == <<running, mesh_running, main, heartbeat, ipc, listener, worker,
                 tasks, started, sockets, bridge, missed, late, netVars>>

ProgramInit ==
    /\ running = TRUE /\ mesh_running = FALSE /\ main = "boot"
    /\ heartbeat = "none" /\ ipc = "none" /\ listener = "none" /\ worker = "none"
    /\ tasks = 0 /\ started = {} /\ sockets = TRUE
    /\ bridge \in {"none", "running", "exited"}
    /\ missed = FALSE /\ late = {}
    /\ discovery = "none" /\ port = "free" /\ refused = FALSE

-----------------------------------------------------------------------------
\* main

\* MeshNode::start
StartMesh ==
    /\ main = "boot"
    /\ mesh_running' = TRUE /\ listener' = "bind" /\ worker' = "loop"
    /\ started' = started \cup {"listener", "worker"}
    /\ main' = "start_discovery"
    /\ UNCHANGED <<running, heartbeat, ipc, tasks, sockets, bridge, missed, late, netVars>>

\* PeerDiscovery::start: without its socket and the port there is no thread.  The
\* socket does not allow the port to be shared.
StartDiscovery ==
    /\ main = "start_discovery" /\ main' = "start_threads"
    /\ \/ /\ port = "free" /\ port' = "discovery" /\ discovery' = "loop"
          /\ started' = started \cup {"discovery"} /\ UNCHANGED refused
       \/ port # "free" /\ UNCHANGED <<port, discovery, started, refused>>
       \/ refused' = TRUE /\ UNCHANGED <<port, discovery, started>>
    /\ UNCHANGED <<running, mesh_running, heartbeat, ipc, listener, worker, tasks, sockets,
                   bridge, missed, late>>

\* There is a heartbeat if bridge.alive(), which a child that has exited and was
\* not waited for still is.
StartThreads ==
    /\ main = "start_threads"
    /\ heartbeat' = IF bridge = "none" THEN "none" ELSE "sleep"
    /\ ipc' = "open"
    /\ started' = started \cup {"ipc"} \cup (IF bridge = "none" THEN {} ELSE {"heartbeat"})
    /\ main' = "idle"
    /\ UNCHANGED <<running, mesh_running, listener, worker, tasks, sockets, bridge, missed, late, netVars>>

\* external: SIGINT or SIGTERM
signal_handler ==
    /\ running' = FALSE
    /\ UNCHANGED <<mesh_running, main, heartbeat, ipc, listener, worker, tasks, started,
                   sockets, bridge, missed, late, netVars>>

Main(from, to) == main = from /\ main' = to

\* A thread object that owns no thread is not joined.
Join(thread, state, from, to) ==
    /\ Main(from, to)
    /\ thread \in started => state = "done"
    /\ started' = started \ {thread}
    /\ UNCHANGED <<running, mesh_running, heartbeat, ipc, listener, worker, tasks,
                   sockets, bridge, missed, late, netVars>>

LeaveIdle ==
    /\ ~running /\ Main("idle", "join_heartbeat")
    /\ UNCHANGED <<running, mesh_running, heartbeat, ipc, listener, worker, tasks, started,
                   sockets, bridge, missed, late, netVars>>

\* Mutant: the mesh is halted while the heartbeat still runs.
JoinHeartbeat_Skipped ==
    /\ Main("join_heartbeat", "stop_mesh")
    /\ UNCHANGED <<running, mesh_running, heartbeat, ipc, listener, worker, tasks, started,
                   sockets, bridge, missed, late, netVars>>
JoinHeartbeat == Join("heartbeat", heartbeat, "join_heartbeat", "stop_mesh")

\* MeshNode::stop: the flag, then the notification, neither under m_tls_queue_mtx.
StopMesh ==
    /\ Main("stop_mesh", "notify")
    /\ mesh_running' = FALSE
    /\ UNCHANGED <<running, heartbeat, ipc, listener, worker, tasks, started, sockets,
                   bridge, missed, late, netVars>>

\* Mutant: the worker is not notified.
NotifyWorker_Skipped ==
    /\ Main("notify", "stop_discovery")
    /\ UNCHANGED <<running, mesh_running, heartbeat, ipc, listener, worker, tasks, started, sockets,
                   bridge, missed, late, netVars>>
NotifyWorker ==
    /\ Main("notify", "stop_discovery")
    /\ worker' = IF worker = "waiting" THEN "test" ELSE worker
    /\ missed' = (worker = "tested")
    /\ UNCHANGED <<running, mesh_running, heartbeat, ipc, listener, tasks, started, sockets,
                   bridge, late, netVars>>

\* PeerDiscovery::stop, if it has started.
StopDiscovery ==
    /\ Main("stop_discovery", "join_discovery")
    /\ discovery' = IF discovery = "loop" THEN "stopping" ELSE discovery
    /\ UNCHANGED <<running, mesh_running, heartbeat, ipc, listener, worker, tasks, started,
                   sockets, bridge, missed, late, port, refused>>

JoinDiscovery ==
    /\ Main("join_discovery", "join_listener")
    /\ "discovery" \in started => discovery = "done"
    /\ started' = started \ {"discovery"}
    /\ port' = IF port = "discovery" THEN "free" ELSE port
    /\ UNCHANGED <<running, mesh_running, heartbeat, ipc, listener, worker, tasks,
                   sockets, bridge, missed, late, discovery, refused>>

JoinListener == Join("listener", listener, "join_listener", "join_worker")
JoinWorker == Join("worker", worker, "join_worker", "close_sockets")

CloseSockets ==
    /\ Main("close_sockets", "join_ipc")
    /\ sockets' = FALSE
    /\ UNCHANGED <<running, mesh_running, heartbeat, ipc, listener, worker, tasks, started,
                   bridge, missed, late, netVars>>

\* global_running is already false.
JoinIpc == Join("ipc", ipc, "join_ipc", "shutdown_bridge")

\* TelemetryBridge::shutdown waits for the child or kills it.
ShutdownBridge ==
    /\ Main("shutdown_bridge", "return")
    /\ bridge' = IF bridge = "none" THEN "none" ELSE "reaped"
    /\ UNCHANGED <<running, mesh_running, heartbeat, ipc, listener, worker, tasks, started,
                   sockets, missed, late, netVars>>

\* The destructor of a thread object that still owns a thread calls std::terminate.
ReturnFromMain ==
    /\ main = "return"
    /\ main' = IF started = {} THEN "exited" ELSE "aborted"
    /\ UNCHANGED <<running, mesh_running, heartbeat, ipc, listener, worker, tasks, started,
                   sockets, bridge, missed, late, netVars>>

MainStep ==
    \/ StartMesh \/ StartDiscovery \/ StartThreads \/ LeaveIdle \/ JoinHeartbeat \/ StopMesh
    \/ NotifyWorker \/ StopDiscovery \/ JoinDiscovery \/ JoinListener \/ JoinWorker \/ CloseSockets \/ JoinIpc \/ ShutdownBridge
    \/ ReturnFromMain

-----------------------------------------------------------------------------
\* The other threads

UsesMesh(thread) == late' = IF sockets THEN late ELSE late \cup {thread}

\* heartbeat_loop tests the flag while it sleeps and before it works; gossip and
\* a round against itself use the mesh.
HeartbeatStep ==
    /\ \/ heartbeat = "sleep" /\ heartbeat' = (IF running THEN "work" ELSE "done") /\ UNCHANGED late
       \/ heartbeat = "work" /\ heartbeat' = "sleep" /\ UsesMesh("heartbeat")
    /\ UNCHANGED <<running, mesh_running, main, ipc, listener, worker, tasks, started,
                   sockets, bridge, missed, netVars>>

\* Without its socket the thread ends.
IpcOpen ==
    /\ ipc = "open" /\ ipc' \in {"select", "done"}
    /\ UNCHANGED <<running, mesh_running, main, heartbeat, listener, worker, tasks, started,
                   sockets, bridge, missed, late, netVars>>

\* A select of one second, and a client that is accepted or turned away for its
\* user, its rate or missing credentials.
IpcSelect ==
    /\ ipc = "select"
    /\ \/ ~running /\ ipc' = "done"
       \/ running /\ ipc' \in {"select", "read"}
    /\ UNCHANGED <<running, mesh_running, main, heartbeat, listener, worker, tasks, started,
                   sockets, bridge, missed, late, netVars>>

\* The token, if one is required, and the command.  A wrong token or command and
\* the end of the connection lead back to select; read waits for as long as the
\* client says nothing.
ClientSends ==
    /\ ipc = "read"
    /\ ipc' \in {"select", "read", "round", "reset", "shutdown"}
    /\ UNCHANGED <<running, mesh_running, main, heartbeat, listener, worker, tasks, started,
                   sockets, bridge, missed, late, netVars>>

\* CMD:INJECT and CMD:ISOLATE start a round, CMD:SHUTDOWN clears the flag;
\* CMD:RESET only touches the enforcer.
IpcExecute ==
    /\ ipc \in {"round", "reset", "shutdown"} /\ ipc' = "select"
    /\ running' = (running /\ ipc # "shutdown")
    /\ IF ipc = "round" THEN UsesMesh("ipc") ELSE UNCHANGED late
    /\ UNCHANGED <<mesh_running, main, heartbeat, listener, worker, tasks, started,
                   sockets, bridge, missed, netVars>>

\* Mutant: the beacon socket is closed whether or not it was bound.
ListenerBind_Closes ==
    /\ listener = "bind"
    /\ \/ listener' = "loop" /\ UNCHANGED refused
       \/ refused' = TRUE /\ listener' \in {"loop", "done"}
    /\ UNCHANGED <<running, mesh_running, main, heartbeat, ipc, worker, tasks, started,
                   sockets, bridge, missed, late, discovery, port>>
\* p2p_listener_loop binds the port for votes, without which it ends, and then
\* the one for beacons, which it can do without.
ListenerBind ==
    /\ listener = "bind"
    /\ \/ /\ listener' = "loop" /\ UNCHANGED refused
          /\ port' = IF port = "free" THEN "mesh" ELSE port
       \/ refused' = TRUE /\ listener' \in {"loop", "done"} /\ UNCHANGED port
    /\ UNCHANGED <<running, mesh_running, main, heartbeat, ipc, worker, tasks, started,
                   sockets, bridge, missed, late, discovery>>

\* The first child that is left to the reaper starts its thread.
enqueue_reap == started' = started \cup {"reaper"}

\* Without a URL, or if the fork fails, there is no child.
notify_webhook == enqueue_reap \/ UNCHANGED started

\* A mesh thread handles a message: it may queue a connection, under the mutex
\* that the worker holds from its test to its wait, and notify the worker; and
\* it may post a webhook.
ListenerStep ==
    /\ \/ listener = "loop" /\ listener' = (IF mesh_running THEN "handle" ELSE "done")
          /\ UNCHANGED <<worker, tasks, started, late>>
       \/ /\ listener = "handle" /\ listener' = "loop" /\ UsesMesh("listener")
          /\ \/ /\ worker # "tested" /\ tasks < MaxTasks
                /\ tasks' = tasks + 1
                /\ worker' = IF worker = "waiting" THEN "test" ELSE worker
                /\ UNCHANGED started
             \/ notify_webhook /\ UNCHANGED <<worker, tasks>>
    /\ UNCHANGED <<running, mesh_running, main, heartbeat, ipc, sockets, bridge, missed, netVars>>

\* tls_worker_loop: the loop's test, then the wait, whose predicate is tested
\* with the mutex held before the thread goes to sleep and after it wakes up.
tls_worker_loop ==
    /\ \/ /\ worker = "loop" /\ worker' = (IF mesh_running THEN "test" ELSE "done")
          /\ UNCHANGED <<tasks, late>>
       \/ /\ worker = "test" /\ tasks = 0
          /\ worker' = IF mesh_running THEN "tested" ELSE "done"
          /\ UNCHANGED <<tasks, late>>
       \/ /\ worker = "tested" /\ worker' = "waiting"
          /\ UNCHANGED <<tasks, late>>
       \/ /\ worker = "test" /\ tasks > 0
          /\ tasks' = tasks - 1
          /\ worker' = "task"
          /\ UNCHANGED late
       \/ /\ worker = "task" /\ ~mesh_running /\ worker' = "done"
          /\ UNCHANGED <<tasks, late>>
       \/ /\ worker = "task" /\ mesh_running /\ worker' = "loop" /\ UsesMesh("worker")
          /\ UNCHANGED tasks
    /\ UNCHANGED <<running, mesh_running, main, heartbeat, ipc, listener, started,
                   sockets, bridge, missed, netVars>>

\* PeerDiscovery::beacon_loop tests its flag after a select of one second.
beacon_loop ==
    /\ discovery = "stopping" /\ discovery' = "done"
    /\ UNCHANGED <<running, mesh_running, main, heartbeat, ipc, listener, worker, tasks, started,
                   sockets, bridge, missed, late, port, refused>>

\* external: the telemetry child dies
BridgeExits ==
    /\ bridge = "running" /\ bridge' = "exited"
    /\ UNCHANGED <<running, mesh_running, main, heartbeat, ipc, listener, worker, tasks,
                   started, sockets, missed, late, netVars>>

ProgramNext ==
    /\ main \notin {"exited", "aborted"}
    /\ \/ MainStep \/ signal_handler \/ HeartbeatStep \/ IpcOpen \/ IpcSelect \/ ClientSends
       \/ IpcExecute \/ ListenerBind \/ ListenerStep \/ tls_worker_loop \/ beacon_loop
       \/ BridgeExits

\* Every thread is scheduled; nobody makes a client send.
ProgramFairness ==
    /\ WF_programVars(MainStep) /\ WF_programVars(HeartbeatStep)
    /\ WF_programVars(IpcOpen \/ IpcSelect \/ IpcExecute)
    /\ WF_programVars(ListenerBind \/ ListenerStep) /\ WF_programVars(tls_worker_loop)
    /\ WF_programVars(beacon_loop)

ProgramSpec == ProgramInit /\ [][ProgramNext]_programVars /\ ProgramFairness

-----------------------------------------------------------------------------
\* Shutdown ends: after a signal or CMD:SHUTDOWN, main joins every thread and
\* returns.  Two things can stop it: a notification that stop() sends after the
\* worker has tested the flag and before it waits, and a client of the command
\* socket that is connected and sends nothing.
ShutdownEnds ==
    ~running ~> \/ main \in {"exited", "aborted"}
                \/ missed /\ worker = "waiting"
                \/ ipc = "read"

\* A running node hears beacons: unless the system refused a socket, the port is
\* bound by the mesh once the listener is in its loop.  PeerDiscovery can have
\* taken it before, as start() leaves the two to race for it; then no beacon and
\* no telemetry of a peer reaches this node.
BeaconsAreHeard ==
    mesh_running /\ listener \in {"loop", "handle"} /\ ~refused
      => port = "mesh" \/ discovery # "none"

\* The order of the joins protects the mesh: no thread uses its sockets after
\* stop() has closed them, except the command thread, which main joins later.
OnlyCommandsComeLate == late \subseteq {"ipc"}

\* When main returns, every thread it started has been joined and the telemetry
\* child has been waited for.  Only the webhook reaper is left, which nothing
\* joins: a node that has posted a webhook ends in std::terminate.
OnlyReaperIsLeft ==
    /\ main = "aborted" => started = {"reaper"}
    /\ main \in {"exited", "aborted"} => bridge \in {"none", "reaped"}
=============================================================================
