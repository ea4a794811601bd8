----------------------- MODULE ServerLifecycleProofs -----------------------
(***************************************************************************)
(* Theorems about ServerLifecycle, for every set of connections and every  *)
(* number of polls.                                                        *)
(***************************************************************************)
EXTENDS ServerLifecycle, TLAPS

ModuleActions ==
    \/ InitScene \/ CreateServer \/ StartServer \/ StartServerFails \/ SetServer
    \/ ScheduleDispatchNode \/ DispatchOff \/ DestroyApi \/ BeginStop \/ StopTcp \/ DeleteServer
TreeActions == TreeUp \/ Frame \/ Quit
NetActions ==
    \/ AcceptHead \/ AcceptFails
    \/ \E c \in Conns : \/ Accept(c) \/ AcceptNoThread(c) \/ Connect(c) \/ Disconnect(c)
                        \/ Handle(c) \/ Respond(c) \/ EndThread(c)

\* Each step belongs to the module's code, the scene tree, the network or the
\* bootstrap thread.
LEMMA Steps ==
  ASSUME [Next]_vars
  PROVE  ModuleActions \/ TreeActions \/ NetActions \/ Bootstrap \/ UNCHANGED vars
BY DEF Next, Module, AcceptThread, ClientThread, ModuleActions, TreeActions, NetActions

----------------------------------------------------------------------------
(* Type correctness                                                        *)

Flags == /\ mcpRunning \in BOOLEAN /\ running \in BOOLEAN /\ listening \in BOOLEAN
         /\ deferred \in BOOLEAN /\ dispatch \in BOOLEAN
         /\ peer \in [Conns -> BOOLEAN]
Phases == /\ stage \in Stages
          /\ tree \in {"none", "up", "gone"}
          /\ api \in {"none", "null", "server", "freed"}
          /\ server \in {"none", "alive", "deleted"}
          /\ accept \in {"none", "loop", "blocked", "exited"}
          /\ boot \in {"none", "polling", "found", "made", "done", "gaveUp"}
          /\ node \in {"none", "made", "inTree", "freed"}
          /\ stage \in {"start", "scene", "created", "started", "wired"} => boot = "none"
Counts == /\ conn \in [Conns -> {"none", "backlog", "serving", "handling", "closed"}]
          /\ counter \in Nat /\ polls \in 0..MaxPolls
          /\ boot \in {"none", "polling"} => polls < MaxPolls

\* The last parts make the types inductive: the bootstrap thread starts after the
\* others, and when it polls it has polls left.
LEMMA TypeParts == Flags /\ Phases /\ Counts => TypeOK
BY Zenon DEF TypeOK, Flags, Phases, Counts

LEMMA FlagsStep == Flags /\ [Next]_vars => Flags'
<1> SUFFICES ASSUME Flags, [Next]_vars PROVE Flags'
  OBVIOUS
<1>1. CASE ModuleActions
  BY <1>1, Zenon DEF ModuleActions, InitScene, CreateServer, StartServer, StartServerFails,
     SetServer, ScheduleDispatchNode, DispatchOff, DestroyApi, BeginStop, StopTcp, DeleteServer,
     netVars, bootVars, Flags
<1>2. CASE TreeActions
  BY <1>2, Zenon DEF TreeActions, TreeUp, Frame, Quit, netVars, bootVars, Flags
<1>3. CASE NetActions
  <2>1. ASSUME NEW c \in Conns, NEW b \in BOOLEAN, peer' = [peer EXCEPT ![c] = b]
        PROVE  peer' \in [Conns -> BOOLEAN]
    BY <2>1 DEF Flags
  <2> QED
    BY <1>3, <2>1, Zenon DEF NetActions, AcceptHead, AcceptFails, Accept, AcceptNoThread, Connect,
       Disconnect, Handle, Respond, EndThread, bootVars, Flags
<1>4. CASE Bootstrap
  BY <1>4, Zenon DEF Bootstrap, PollForTree, MakeNode, EnableDispatch, netVars, Flags
<1>5. CASE UNCHANGED vars
  BY <1>5, Zenon DEF vars, Flags
<1> QED
  BY <1>1, <1>2, <1>3, <1>4, <1>5, Steps

LEMMA PhasesStep == Phases /\ [Next]_vars => Phases'
<1> SUFFICES ASSUME Phases, [Next]_vars PROVE Phases'
  OBVIOUS
<1>1. CASE ModuleActions
  BY <1>1 DEF ModuleActions, InitScene, CreateServer, StartServer, StartServerFails,
     SetServer, ScheduleDispatchNode, DispatchOff, DestroyApi, BeginStop, StopTcp, DeleteServer,
     netVars, bootVars, Phases, Stages
<1>2. CASE TreeActions
  BY <1>2 DEF TreeActions, TreeUp, Frame, Quit, netVars, bootVars, Phases, Stages
<1>3. CASE NetActions
  BY <1>3 DEF NetActions, AcceptHead, AcceptFails, Accept, AcceptNoThread, Connect,
     Disconnect, Handle, Respond, EndThread, bootVars, Phases
<1>4. CASE Bootstrap
  BY <1>4 DEF Bootstrap, PollForTree, MakeNode, EnableDispatch, netVars, Phases
<1>5. CASE UNCHANGED vars
  BY <1>5 DEF vars, Phases
<1> QED
  BY <1>1, <1>2, <1>3, <1>4, <1>5, Steps

LEMMA CountsStep == Phases /\ Counts /\ [Next]_vars => Counts'
<1> SUFFICES ASSUME Phases, Counts, [Next]_vars PROVE Counts'
  OBVIOUS
<1>2. CASE UNCHANGED <<netVars, polls>> /\ (boot' = boot \/ boot = "none")
  BY <1>2 DEF netVars, Counts
<1>3. CASE UNCHANGED <<conn, counter, polls, boot>>
  BY <1>3 DEF Counts
<1>4. CASE NetActions
  <2>1. CASE AcceptHead \/ AcceptFails
    BY <2>1 DEF AcceptHead, AcceptFails, bootVars, Counts
  <2>2. ASSUME NEW c \in Conns, Accept(c) \/ AcceptNoThread(c) PROVE Counts'
    BY <2>2 DEF Accept, AcceptNoThread, bootVars, Counts
  <2>3. ASSUME NEW c \in Conns,
               Connect(c) \/ Disconnect(c) \/ Handle(c) \/ Respond(c) \/ EndThread(c)
        PROVE  Counts'
    <3>1. /\ conn' = conn \/ \E x \in {"backlog", "serving", "handling", "closed"} :
                                 conn' = [conn EXCEPT ![c] = x]
          /\ counter' = counter /\ polls' = polls /\ boot' = boot
      BY <2>3 DEF Connect, Disconnect, Handle, Respond, EndThread, bootVars
    <3> QED
      BY <3>1 DEF Counts
  <2> QED
    BY <1>4, <2>1, <2>2, <2>3 DEF NetActions
<1>5. CASE Bootstrap
  BY <1>5, LifecycleAssumption DEF Bootstrap, PollForTree, MakeNode, EnableDispatch, netVars, Counts
<1>6. ModuleActions \/ TreeActions \/ UNCHANGED vars =>
          \/ UNCHANGED <<netVars, polls>> /\ (boot' = boot \/ boot = "none")
          \/ UNCHANGED <<conn, counter, polls, boot>>
  BY DEF Phases, ModuleActions, InitScene, CreateServer, StartServer, StartServerFails,
     SetServer, ScheduleDispatchNode, DispatchOff, DestroyApi, BeginStop, StopTcp, DeleteServer,
     TreeActions, TreeUp, Frame, Quit, netVars, bootVars, vars
<1> QED
  BY <1>2, <1>3, <1>4, <1>5, <1>6, Steps

LEMMA TypesInvariant == Spec => [](Flags /\ Phases /\ Counts)
<1>1. Init => Flags
  BY DEF Init, Flags
<1>2. Init => Phases /\ Counts
  BY LifecycleAssumption DEF Init, Phases, Counts, Stages
<1> QED
  BY <1>1, <1>2, FlagsStep, PhasesStep, CountsStep, PTL DEF Spec

\* Every variable keeps its type, the poll counter within its bound.
THEOREM LifecycleTypeCorrect == Spec => []TypeOK
BY TypesInvariant, TypeParts, PTL

----------------------------------------------------------------------------
(* The singleton and the server                                            *)

\* How far the main thread has come says what it has made and freed.
StageInv ==
    /\ stage \in {"start"} => api = "none" /\ server = "none"
    /\ stage \in {"scene"} => api = "null" /\ server = "none"
    /\ stage \in {"created", "started"} => api = "null" /\ server = "alive"
    /\ stage \in {"wired", "frames", "quit", "dispatchOff"} => api = "server" /\ server = "alive"
    /\ stage \in {"apiGone", "stopping", "stopped"} => api = "freed" /\ server = "alive"
    /\ stage = "off" => api = "freed" /\ server = "deleted"

LEMMA StageStep == TypeOK /\ StageInv /\ [Next]_vars => StageInv'
<1> SUFFICES ASSUME TypeOK, StageInv, [Next]_vars PROVE StageInv'
  OBVIOUS
<1>1. CASE ModuleActions
  BY <1>1 DEF ModuleActions, InitScene, CreateServer, StartServer, StartServerFails, SetServer,
     ScheduleDispatchNode, DispatchOff, DestroyApi, BeginStop, StopTcp, DeleteServer, StageInv
<1>2. CASE TreeActions
  BY <1>2 DEF TreeActions, TreeUp, Frame, Quit, StageInv
<1>3. CASE UNCHANGED <<stage, api, server>>
  BY <1>3 DEF StageInv
<1>4. NetActions \/ Bootstrap \/ UNCHANGED vars => UNCHANGED <<stage, api, server>>
  BY DEF NetActions, AcceptHead, AcceptFails, Accept, AcceptNoThread, Connect, Disconnect,
     Handle, Respond, EndThread, Bootstrap, PollForTree, MakeNode, EnableDispatch, vars
<1> QED
  BY <1>1, <1>2, <1>3, <1>4, Steps

\* Whenever the panel can call the singleton and it has a server, that server
\* is alive, through start-up, failed starts and shutdown.
THEOREM SingletonServerAlive == Spec => []PanelServerAlive
<1>1. Init => StageInv
  BY DEF Init, StageInv
<1>2. TypeOK /\ StageInv => PanelServerAlive
  BY DEF TypeOK, Stages, StageInv, PanelServerAlive
<1> QED
  BY <1>1, <1>2, StageStep, LifecycleTypeCorrect, PTL DEF Spec

----------------------------------------------------------------------------
(* The dispatch node                                                       *)

Joining == node = "inTree" \/ (node = "made" /\ deferred)

\* Before the bootstrap thread has made the node nothing waits for a frame, and
\* once it has, the node is in the tree or on its way for as long as the tree is
\* up; a tree that was found is not about to come up.
BootInv ==
    /\ boot \in {"found", "made", "done"} => tree # "none"
    /\ boot \in {"made", "done"} /\ tree = "up" => Joining
    /\ deferred => node = "made"
    /\ dispatch => boot = "done"

LEMMA BootStep == Phases /\ BootInv /\ [Next]_vars => BootInv'
<1> SUFFICES ASSUME Phases, BootInv, [Next]_vars PROVE BootInv'
  OBVIOUS
<1>1. CASE TreeActions
  BY <1>1 DEF TreeActions, TreeUp, Frame, Quit, bootVars, BootInv, Joining
<1>2. CASE Bootstrap
  <2>1. CASE PollForTree
    BY <2>1 DEF PollForTree, BootInv, Joining
  <2>2. CASE MakeNode
    <3>1. tree' = tree /\ tree # "none" /\ node' = "made" /\ boot' = "made" /\ ~dispatch'
      BY <2>2 DEF MakeNode, BootInv
    <3>2. tree = "up" => deferred'
      BY <2>2 DEF MakeNode
    <3>3. stage' = stage /\ boot = "found"
      BY <2>2 DEF MakeNode
    <3> QED
      BY <3>1, <3>2, <3>3 DEF BootInv, Joining
  <2>3. CASE EnableDispatch
    BY <2>3 DEF EnableDispatch, BootInv, Joining
  <2> QED
    BY <1>2, <2>1, <2>2, <2>3 DEF Bootstrap
<1>3. CASE DispatchOff
  BY <1>3 DEF DispatchOff, BootInv, Joining
<1>4. CASE ScheduleDispatchNode
  BY <1>4 DEF ScheduleDispatchNode, BootInv, Phases
<1>5. CASE UNCHANGED <<tree, bootVars>>
  BY <1>5 DEF bootVars, BootInv, Joining
<1>6. ModuleActions => DispatchOff \/ ScheduleDispatchNode \/ UNCHANGED <<tree, bootVars>>
  BY DEF ModuleActions, InitScene, CreateServer, StartServer, StartServerFails, SetServer,
     DestroyApi, BeginStop, StopTcp, DeleteServer
<1>7. NetActions \/ UNCHANGED vars => UNCHANGED <<tree, bootVars>>
  BY DEF NetActions, AcceptHead, AcceptFails, Accept, AcceptNoThread, Connect, Disconnect,
     Handle, Respond, EndThread, vars, bootVars
<1> QED
  BY <1>1, <1>2, <1>3, <1>4, <1>5, <1>6, <1>7, Steps

\* While the scene tree is up the dispatch flag is raised only with a node that
\* is in the tree or about to be added, however the bootstrap thread and the
\* main thread interleave.
THEOREM DispatchFlagHasNode == Spec => []DispatchHasNode
<1>1. Init => BootInv
  BY DEF Init, BootInv
<1>2. BootInv => DispatchHasNode
  BY DEF BootInv, Joining, DispatchHasNode
<1> QED
  BY <1>1, <1>2, BootStep, TypesInvariant, PTL DEF Spec
============================================================================
