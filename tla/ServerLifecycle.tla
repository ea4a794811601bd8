-------------------------- MODULE ServerLifecycle --------------------------
(***************************************************************************)
(* The life of the server inside the editor (src/register_types.cpp): the  *)
(* module's initialisation creates the MCPServer, starts its TCPServer,    *)
(* hands it to the panel's GearMCPAPI singleton and starts a detached      *)
(* thread that waits for the scene tree and adds the dispatch node; the    *)
(* uninitialisation takes it down again.  The accept thread and one        *)
(* detached thread per connection (src/server/tcp_server.cpp) run beside   *)
(* it and call into the MCPServer object for every message.                *)
(*                                                                         *)
(* The main thread executes initialisation, frames and uninitialisation,   *)
(* in this order; `stage` is where it is.  The scene tree exists from some *)
(* frame on and is gone before the uninitialisation.                       *)
(***************************************************************************)
EXTENDS Naturals, FiniteSets

CONSTANTS
    Conns,      \* connections that clients may open
    MaxPolls,   \* bound: polls of the bootstrap thread (120 in the code)
    MayFail     \* can listen, accept and thread creation fail?

ASSUME LifecycleAssumption ==
    /\ IsFiniteSet(Conns)
    /\ MaxPolls \in Nat \ {0}
    /\ MayFail \in BOOLEAN

Stages == {"start", "scene", "created", "started", "wired", "frames",
           "quit", "dispatchOff", "apiGone", "stopping", "stopped", "off"}

VARIABLES
    stage,      \* the main thread's progress
    tree,       \* the scene tree: "none", "up", "gone"
    api,        \* s_singleton: "none", "null" (no server yet), "server", "freed"
    server,     \* the MCPServer with its registry, methods and TCP server
    mcpRunning, \* MCPServer::m_running
    running,    \* TCPServer::m_running
    listening,  \* m_listen_fd is an open socket
    accept,     \* the accept thread
    conn,       \* conn[c]: "none", "backlog", "serving", "handling", "closed"
    peer,       \* peer[c]: the client's end is open
    counter,    \* m_connected_clients
    boot,       \* the bootstrap thread
    polls,      \* its loop counter
    node,       \* the dispatch node: "none", "made", "inTree", "freed"
    deferred,   \* the deferred add_child is in the message queue
    dispatch    \* the flag of MainThreadQueue

vars == <<stage, tree, api, server, mcpRunning, running, listening, accept, conn, peer,
          counter, boot, polls, node, deferred, dispatch>>
netVars == <<mcpRunning, running, listening, accept, conn, peer, counter>>
bootVars == <<boot, polls, node, deferred, dispatch>>

Init ==
    /\ stage = "start" /\ tree = "none" /\ api = "none" /\ server = "none"
    /\ mcpRunning = FALSE /\ running = FALSE /\ listening = FALSE /\ accept = "none"
    /\ conn = [c \in Conns |-> "none"]
    /\ peer = [c \in Conns |-> FALSE]
    /\ counter = 0
    /\ boot = "none" /\ polls = 0 /\ node = "none" /\ deferred = FALSE
    /\ dispatch = FALSE

----------------------------------------------------------------------------
(* initialize_gear_mcp_module, main thread                                 *)

\* SCENE level: the singleton the panel looks up, without a server.
InitScene ==
    /\ stage = "start"
    /\ api' = "null" /\ stage' = "scene"
    /\ UNCHANGED <<tree, server, netVars, bootVars>>

\* EDITOR level: the server object with its tools, resources and prompts.
CreateServer ==
    /\ stage = "scene"
    /\ server' = "alive" /\ stage' = "created"
    /\ UNCHANGED <<tree, api, netVars, bootVars>>

\* MCPServer::start and TCPServer::start: the accept thread runs from here on.
StartServer ==
    /\ stage = "created"
    /\ mcpRunning' = TRUE /\ running' = TRUE /\ listening' = TRUE /\ accept' = "loop"
    /\ stage' = "started"
    /\ UNCHANGED <<tree, api, server, conn, peer, counter, bootVars>>

\* The port is taken, or the accept thread cannot be created: the socket is
\* closed again, the server stays down and the rest goes on without it.
StartServerFails ==
    /\ MayFail /\ stage = "created"
    /\ stage' = "started"
    /\ UNCHANGED <<tree, api, server, netVars, bootVars>>

SetServer ==
    /\ stage = "started"
    /\ api' = "server" /\ stage' = "wired"
    /\ UNCHANGED <<tree, server, netVars, bootVars>>

ScheduleDispatchNode ==
    /\ stage = "wired"
    /\ boot' = "polling" /\ stage' = "frames"
    /\ UNCHANGED <<tree, api, server, netVars, polls, node, deferred, dispatch>>

----------------------------------------------------------------------------
(* The engine, main thread                                                 *)

TreeUp ==
    /\ stage = "frames" /\ tree = "none"
    /\ tree' = "up"
    /\ UNCHANGED <<stage, api, server, netVars, bootVars>>

\* A frame flushes the message queue: add_child happens here.
Frame ==
    /\ stage = "frames" /\ tree = "up" /\ deferred
    /\ deferred' = FALSE /\ node' = "inTree"
    /\ UNCHANGED <<stage, tree, api, server, netVars, boot, polls, dispatch>>

\* The editor quits: the tree is freed with the nodes in it.
Quit ==
    /\ stage = "frames"
    /\ stage' = "quit" /\ tree' = "gone"
    /\ node' = IF node = "inTree" THEN "freed" ELSE node
    /\ deferred' = FALSE
    /\ UNCHANGED <<api, server, netVars, boot, polls, dispatch>>

----------------------------------------------------------------------------
(* uninitialize_gear_mcp_module, main thread                               *)

DispatchOff ==
    /\ stage = "quit"
    /\ dispatch' = FALSE /\ stage' = "dispatchOff"
    /\ UNCHANGED <<tree, api, server, netVars, boot, polls, node, deferred>>

DestroyApiLater ==
    /\ stage = "dispatchOff"
    /\ stage' = "apiGone"
    /\ UNCHANGED <<tree, api, server, netVars, bootVars>>

DestroyApi ==
    /\ stage = "dispatchOff"
    /\ api' = "freed" /\ stage' = "apiGone"
    /\ UNCHANGED <<tree, server, netVars, bootVars>>

\* ~MCPServer: MCPServer::stop, which clears its flag first.
BeginStop ==
    /\ stage = "apiGone"
    /\ mcpRunning' = FALSE
    /\ stage' = IF mcpRunning THEN "stopping" ELSE "stopped"
    /\ UNCHANGED <<tree, api, server, running, listening, accept, conn, peer, counter,
                   bootVars>>

\* TCPServer::stop: clears its flag and closes the listening socket.  The
\* connections and the threads are left alone.
StopTcp ==
    /\ stage = "stopping"
    /\ running' = FALSE /\ listening' = FALSE /\ stage' = "stopped"
    /\ UNCHANGED <<tree, api, server, mcpRunning, accept, conn, peer, counter, bootVars>>

DeleteServer ==
    /\ stage = "stopped"
    /\ server' = "deleted" /\ stage' = "off"
    /\ UNCHANGED <<tree, api, netVars, bootVars>>

----------------------------------------------------------------------------
(* _accept_thread                                                          *)

AcceptHeadOneClient ==
    /\ accept = "loop"
    /\ \A c \in Conns : conn[c] \notin {"serving", "handling"}
    /\ accept' = IF running /\ listening THEN "blocked" ELSE "exited"
    /\ UNCHANGED <<stage, tree, api, server, mcpRunning, running, listening, conn, peer,
                   counter, bootVars>>

\* The loop's head: m_running and m_listen_fd are read from the TCPServer.
AcceptHead ==
    /\ accept = "loop"
    /\ \E seen \in IF server = "deleted" THEN BOOLEAN ELSE {running /\ listening} :
           accept' = IF seen THEN "blocked" ELSE "exited"
    /\ UNCHANGED <<stage, tree, api, server, mcpRunning, running, listening, conn, peer,
                   counter, bootVars>>

\* accept() returns a connection: a closed descriptor does not wake a blocked
\* accept() on every platform, so the next connection may still arrive by it.
Accept(c) ==
    /\ accept = "blocked" /\ conn[c] = "backlog"
    /\ conn' = [conn EXCEPT ![c] = "serving"]
    /\ counter' = counter + 1
    /\ accept' = "loop"
    /\ UNCHANGED <<stage, tree, api, server, mcpRunning, running, listening, peer, bootVars>>

\* The client thread cannot be created: the connection is closed at once and
\* counted back.
AcceptNoThread(c) ==
    /\ MayFail /\ accept = "blocked" /\ conn[c] = "backlog"
    /\ conn' = [conn EXCEPT ![c] = "closed"]
    /\ accept' = "loop"
    /\ UNCHANGED <<stage, tree, api, server, mcpRunning, running, listening, peer, counter,
                   bootVars>>

\* accept() fails: after the socket was closed, or for lack of descriptors.
AcceptFails ==
    /\ accept = "blocked" /\ (~listening \/ MayFail)
    /\ accept' = "exited"
    /\ UNCHANGED <<stage, tree, api, server, mcpRunning, running, listening, conn, peer,
                   counter, bootVars>>

----------------------------------------------------------------------------
(* Clients and the threads that serve them                                 *)

Connect(c) ==
    /\ conn[c] = "none" /\ listening
    /\ conn' = [conn EXCEPT ![c] = "backlog"]
    /\ peer' = [peer EXCEPT ![c] = TRUE]
    /\ UNCHANGED <<stage, tree, api, server, mcpRunning, running, listening, accept, counter,
                   bootVars>>

Disconnect(c) ==
    /\ peer[c]
    /\ peer' = [peer EXCEPT ![c] = FALSE]
    /\ UNCHANGED <<stage, tree, api, server, mcpRunning, running, listening, accept, conn,
                   counter, bootVars>>

\* A message arrived: the handler is MCPServer::_handle_message, bound to the
\* server object, which may be deleted ...
Handle(c) ==
    /\ conn[c] = "serving" /\ peer[c]
    /\ conn' = [conn EXCEPT ![c] = "handling"]
    /\ UNCHANGED <<stage, tree, api, server, mcpRunning, running, listening, accept, peer,
                   counter, bootVars>>

\* ... which it uses to the end, when the call is counted and logged.
Respond(c) ==
    /\ conn[c] = "handling"
    /\ conn' = [conn EXCEPT ![c] = "serving"]
    /\ UNCHANGED <<stage, tree, api, server, mcpRunning, running, listening, accept, peer,
                   counter, bootVars>>

\* recv() returns 0 or an error: the socket is closed and the thread ends.
EndThread(c) ==
    /\ conn[c] = "serving" /\ ~peer[c]
    /\ conn' = [conn EXCEPT ![c] = "closed"]
    /\ UNCHANGED <<stage, tree, api, server, mcpRunning, running, listening, accept, peer,
                   counter, bootVars>>

----------------------------------------------------------------------------
(* schedule_main_thread_dispatch_node's detached thread                    *)

PollForever ==
    /\ boot = "polling"
    /\ polls' = polls + 1
    /\ boot' = IF tree = "up" THEN "found" ELSE "polling"
    /\ polls < MaxPolls + 2
    /\ UNCHANGED <<stage, tree, api, server, netVars, node, deferred, dispatch>>

\* Half a second later: is there a root window?
PollForTree ==
    /\ boot = "polling"
    /\ polls' = polls + 1
    /\ boot' = CASE tree = "up" -> "found"
                 [] tree # "up" /\ polls' < MaxPolls -> "polling"
                 [] OTHER -> "gaveUp"
    /\ UNCHANGED <<stage, tree, api, server, netVars, node, deferred, dispatch>>

MakeNodeOutsideTree ==
    /\ boot = "found"
    /\ node' = "made" /\ boot' = "made"
    /\ UNCHANGED <<stage, tree, api, server, netVars, polls, deferred, dispatch>>

\* memnew, call_deferred("add_child"), set_process.  If the editor has quit
\* since the window was found, the call reaches nothing (or ends the process,
\* which is the end of the behaviour).
MakeNode ==
    /\ boot = "found"
    /\ node' = "made" /\ boot' = "made"
    /\ deferred' = (tree = "up")
    /\ UNCHANGED <<stage, tree, api, server, netVars, polls, dispatch>>

EnableDispatch ==
    /\ boot = "made"
    /\ dispatch' = TRUE /\ boot' = "done"
    /\ UNCHANGED <<stage, tree, api, server, netVars, polls, node, deferred>>

----------------------------------------------------------------------------

Module ==
    \/ InitScene \/ CreateServer \/ StartServer \/ StartServerFails \/ SetServer
    \/ ScheduleDispatchNode \/ TreeUp \/ Quit
    \/ DispatchOff \/ DestroyApi \/ BeginStop \/ StopTcp \/ DeleteServer

AcceptThread ==
    \/ AcceptHead \/ AcceptFails
    \/ \E c \in Conns : Accept(c) \/ AcceptNoThread(c)

ClientThread(c) == Handle(c) \/ Respond(c) \/ EndThread(c)
Bootstrap == PollForTree \/ MakeNode \/ EnableDispatch

Next ==
    \/ Module \/ Frame \/ AcceptThread \/ Bootstrap
    \/ \E c \in Conns : Connect(c) \/ Disconnect(c) \/ ClientThread(c)

Spec == Init /\ [][Next]_vars

(* The operating system schedules every thread, the engine runs frames, and *)
(* accept() does return for a waiting connection.                           *)
FairSpec ==
    /\ Spec
    /\ WF_vars(Frame) /\ WF_vars(AcceptThread) /\ WF_vars(Bootstrap)
    /\ \A c \in Conns : WF_vars(ClientThread(c))

----------------------------------------------------------------------------
(* Properties                                                              *)

\* Every variable has its type; polls is within its bound.
TypeOK ==
    /\ stage \in Stages
    /\ tree \in {"none", "up", "gone"}
    /\ api \in {"none", "null", "server", "freed"}
    /\ server \in {"none", "alive", "deleted"}
    /\ mcpRunning \in BOOLEAN /\ running \in BOOLEAN /\ listening \in BOOLEAN
    /\ accept \in {"none", "loop", "blocked", "exited"}
    /\ conn \in [Conns -> {"none", "backlog", "serving", "handling", "closed"}]
    /\ peer \in [Conns -> BOOLEAN]
    /\ counter \in Nat
    /\ boot \in {"none", "polling", "found", "made", "done", "gaveUp"}
    /\ polls \in 0..MaxPolls
    /\ node \in {"none", "made", "inTree", "freed"}
    /\ deferred \in BOOLEAN /\ dispatch \in BOOLEAN

\* Whenever the panel can call the singleton, the server behind it is either
\* not there yet or alive: it is wired after its creation and the singleton is
\* gone before the server is deleted.
PanelServerAlive == api = "server" => server = "alive"

\* The flag sends handlers to the queue only once there is a node to drain it:
\* while the tree is up, that node is in the tree or about to be added.
DispatchHasNode == dispatch /\ tree = "up" => node = "inTree" \/ (node = "made" /\ deferred)

\* A node whose dispatch flag was raised is in the tree in the end, so the
\* queue is drained -- or the editor is quitting.
NodeJoinsTree == dispatch ~> (node = "inTree" \/ tree = "gone")

\* Every connection a client opens is picked up, unless the accept loop ended.
BacklogServed ==
    \A c \in Conns : conn[c] = "backlog" ~> (conn[c] # "backlog" \/ accept = "exited")
============================================================================
