# A TLA+ model of gear-mcp-server

gear-mcp-server is a GDExtension that runs an MCP server inside the Godot
editor: AI clients connect over TCP (usually through the stdio proxy
`proxy/index.js`) and call tools that read and change the project.  This
directory models its own logic in TLA+, checks it with TLC and proves the core
of it with TLAPS.  Paths below are relative to the repository's root; the
modules' comments name the functions they stand for.

## 1. Inventory

| Component (code) | State | Operations | Modelled by |
| --- | --- | --- | --- |
| main-thread queue (`src/server/main_thread_queue.cpp`, `gear_main_thread_node.cpp`) | task queue, dispatch flag; the stack frames of waiting callers | `invoke_on_main`, `process_pending`, `set_dispatch_available` | `MainThreadQueue`, `HandlerCalls` |
| tool registry and `tools/call` (`tool_registry.cpp`, `mcp_methods.cpp`, `mcp_server.cpp`) | disabled tools, call counts, log ring | one request from `_handle_message` to its reply; the panel's switch and "clear log" | `ToolCalls` |
| server lifecycle, TCP server (`register_types.cpp`, `mcp_server.cpp`, `tcp_server.cpp`, `gear_mcp_api.cpp`) | server, singleton, socket, threads, client counter, dispatch node | initialise, start, accept, serve, disconnect, bootstrap, uninitialise | `ServerLifecycle` |
| message framing (`tcp_server.cpp`) | `line_buffer` | `recv`, `extract_next_message` | `MessageFraming` |
| intent tools (`tools/intent/intent_tools.cpp`) | arrays and a switch in memory; the state file and its temporary copy | four append-ops, the switch, four readers; load, trim, persist | `IntentStore` |
| `project.godot` tools (`shared/config_parser.cpp`, `tools/plugin`, `tools/autoload`, `tools/input`) | the project file as text | set, add, remove, toggle | `ConfigEdit` |
| stdio proxy (`proxy/index.js`) | socket, pipes, retry counter | the Node event handlers | `Proxy` |
| scene edits (`tools/scene/scene_tools_phase2.cpp`, the live branch of `add_node`, navigation and animation tools; the undo calls of `godot_api.cpp`) | the edited scene's tree, owners and values; the undo history; the scene file | add, delete, duplicate, reparent, set, save; undo and redo | `SceneEdits` |
| resource and scene files (`tools/resource`, `theme`, `animation`, `import`, `signal`, `navigation`, `scene`) | `.tres`, `.import`, `.tscn` files as text | twelve edits that read, compute and write | `ProjectFiles` |
| editor run tools (`tools/editor/editor_tools.cpp`, `project/addons/gear_mcp/screenshot_helper.gd`) | the played scene, sidecar and screenshot files | run, run with timeout, stop | `RunScene` |
| JSON-RPC client and debug tools (`shared/json_rpc_client.cpp`, `tools/debug`) | one connection and one buffer per call | `is_reachable`, `call`; ten tools | `DebugClient` |
| resources and prompts (`mcp_methods.cpp`, `phase4_resources.cpp`) | two registries under mutexes | list, read, get | not modelled |
| editor panel (`project/addons/gear_mcp/panel.gd`) | what it shows of tools and log | refresh, toggle, clear | its calls: `ToolCalls` |
| script, tile-map, audio tools; the rest of the engine wrapper; type codec | (engine objects) | new files, values for the engine | not modelled |
| assets, export, testing, dx tools | (files) | walking and formatting | not modelled |

How they interact.  The accept thread starts one detached thread per connection.
That thread cuts messages out of its bytes (`MessageFraming`) and calls the
server's handler for each (`ToolCalls`), which looks into the registry, runs the
tool's handler either on the spot or through `invoke_on_main`
(`MainThreadQueue`), counts the call, logs it and replies.  The main thread
drains the queue from a node in the scene tree; that node is created by a third
kind of thread after start-up, and everything is taken down by the module's
uninitialisation while client threads may still run (`ServerLifecycle`).  The
panel reaches the registry and the log through the `GearMCPAPI` singleton.  Tool
handlers that touch only files (`IntentStore`, `ConfigEdit`, most of `ProjectFiles`)
run on the client threads and so interleave with each other and with the ones that
run on the main thread.  The edits of `SceneEdits` run there one at a time, and the
user's undo in between.  `RunScene` runs on its client's thread, asks the main
thread for every look at the editor, and talks to the game through two files.

What is hard here: the 10 second deadline of `invoke_on_main` against a handler
that runs late and stores through pointers into the caller's frame; flips of the
dispatch flag; switching tools while calls are in flight; threads that outlive
the server object; a byte stream cut anywhere; crashes and failing file
operations between the steps of a "rewrite"; substring edits of a text that
earlier edits have shaped; a proxy whose handlers race the end of the process.
`PROJECT.json` lists each hazard at its line with the properties about it.

## 2. Modules

### MainThreadQueue, HandlerCalls, MainThreadQueueProofs

`HandlerCalls` is the abstract promise: a call is issued, its handler runs at
most once, and the call ends with its handler's result or gives up.
`MainThreadQueue` is the code at the grain of each shared access: the one read
of the flag (`Begin`), push, wait, deadline (`Timeout`), and on the main thread
pop, run, store the result, set the flag, notify.  `frame[w]` is the caller's
stack frame with `result` and `done_flag`.  A store through a dead task's
pointers is undefined behaviour; `Store` and `SetDone` let it hit the same
stack's present frame, hit nothing that is read again, or hang on the dead
mutex.  `ImplementsHandlerCalls` instantiates the abstract module with a
refinement mapping.

### ToolCalls, ToolCallsProofs

`Arrives` is the check of the request and of the tool's existence; then come the
switch test, the direct run or the queue (a main-thread tool runs directly while there is no
dispatch node), the counter, and the reply with its log entry.  The main thread takes two
steps for a queued handler, as the code does: `RunOnMain` runs it, and its lambda assigns the
`error_out` it captured; `StoreOnMain` stores the result and `done_flag`.  When the caller has
given up, each of these three writes may hit the same place of its thread's present call or
hit nothing, so a call's wait may end by the flag of the one before it (`ReturnFromMain`).
Handlers leave a result, an error (`Outcomes`), or an exception; a text that is not UTF-8
makes the dump of the reply throw when the call is counted and logged, and the answer is then
an internal error without the request's id (`ReplyTo`).  (The results of today's handlers are
JSON dumps themselves; of their error texts, those that quote the environment, such as a
path, may be such a text.)  A notification or an unparsable message takes its own path.  The
panel enables, disables and clears at any moment.  `runs`, `logged`, `seen`, `gaveUp` and
`outcome` are history variables.

### ServerLifecycle, ServerLifecycleProofs

`stage` is the main thread's progress through initialisation, frames and
uninitialisation; beside it run the accept thread, one thread per connection
and the bootstrap thread.  With `MayFail`, listen, accept and thread creation can
fail.

### MessageFraming, MessageFramingProofs

A session of messages is sent; `Recv` appends a chunk of any length and drains
the buffer with the scanner, translated with its depth, string and escape
state.  This is the one module that works on characters, because the hazard is a
chunk boundary between two of them; the characters the code does not tell apart
are one, and the five it names have names here (`Open`, `Close`, `Quote`,
`Backslash`, `Newline`).  What a client may send is said without the scanner:
`IsObject` defines escaped characters, strings and depth of a message as a whole
by what stands in it, so that the scanner has something to agree with.

### IntentStore, IntentStoreProofs

The handlers of several threads at the grain of the mutex and of each file
operation: load (once), lock, append or switch, then `persist_state`'s open,
write, rename and its fallback copy, answer.  A file is absent, whole or cut
off.  `Crash` keeps only the files.  Any file operation may fail, up to
`MaxFaults`; the code answers success all the same, so `AckedSurvive`,
`MemoryMatchesFile` and `OffIsOff` speak of runs without a failure (crashes
included) and `FileInOrder` of all.  `recorded`, `acked`, `modes` and `faults` are
history.

### ConfigEdit, Proxy, ProxyProofs

`ConfigEdit` holds the text edits as pure operators (`SetSetting`,
`EraseAutoload`, `SetPluginEnabled`) with the substring searches of the code,
over a text of tokens; `Parse` is the reader that says what an edit did.  Keys are
sequences of parts.  Whether a value is quoted is left out; so is inih's own
verdict on the file, which `parse_ini_file` asks for first.  `joined` remembers
that `remove_autoload` took the end of the line above with the line it removed;
`EditsAreExact` and `KeysOnce` say what holds until then.

`Proxy` has one action per event handler of `proxy/index.js`.  Its stdout is a pipe that
holds `PipeRoom` replies and that the client reads when it likes: `process.stdout.write` puts
a reply there at once or, when there is no room, leaves it `pending` until the pipe is
writable again (`OnDrain`); `process.exit` drops what is pending.  `full` is history: a write
once found no room.

### SceneEdits

`scene` has parent, owner and two properties of every node, the ones the tools may
still create included.  `AddChild`, `RemoveChild`, `SetOwner` and `Free` are Godot's,
reached through the wrapper: a second parent is refused, a node that leaves the tree
loses an owner that stays.  A tool is one action: it resolves its path (`Resolve`,
or `ResolveParent` for the tools that do not know the root's name), drops and erases
the redo steps (`Dropped`), runs the registered "do" operations, does its direct
work, and registers `do`, `undo` and the references.  `Run` gives a registered
operation its number of arguments, so that the extra one the tools register counts:
the operation is skipped.  `SaveScene` writes what the editor packs.  When a handler
would go on with a node the history has just erased, or the root is freed, `gone` is
set and the behaviour ends.  `about`, `before` and `carried` are history.

### ProjectFiles

One file of one of three kinds, edited by calls in steps: `Begin`, `Read` (which
computes the whole edit, a `Plan`), `Truncate` and `Write`, or `AppendTo`.  What the main
thread runs (`job.main`) it runs one at a time.  A tool registered for it (`OnMain`) runs
on its client's thread while the dispatch flag is down, and then overlaps like all the
others.  A file is a sequence of lines plus whether the last one lacks its newline,
since a later append then continues that line.  `Loaded` is the reader: what Godot
makes of the lines, the last assignment of a key, scripts bound through resource
ids.  The parents of nodes are left out: `attach_script_to_node`, which looks at the
one of the first node of that name, may refuse (`MayRefuse`).

`facts` is what the tools have acknowledged, a value for each slot (a key, a track, a node, a
script, a connection).  `lost` is the history of the slots whose last edit did not stay:
its call overlapped with another one that wrote later, replaced a line that does not
count, continued an open line or wrote a file without a header (`LosesItself`); and the slots
other than its own that an edit or a crash takes with it (`LosesOthers`, `Crash`).  An edit
that is none of these takes its slot out again.  `FileHoldsFacts` compares file and facts
on every slot that is not lost, so each of these ways costs exactly the slots it names;
dropping any one of them from `lost` makes the run fail.  Only after two writes at once
(`known`), which may leave a mixture of both texts, it says nothing until the file is made
anew.

### RunScene, RunSceneProofs

A call's handler is a place `pc[c]`; every task it hands to the main thread goes
through `Invoke` and may be given up while the task stays queued and runs later.
The direct run without a dispatch node is left out of `Invoke`: a task then runs within its
call's step, and no property here is about which thread runs it.
`game` is the editor's one played scene and the process behind it, with the helper's
two steps (read the sidecar, save the picture); `sidecar` and `shot` are the files.
The user starts and stops scenes too, and a game may end at any moment.  `alone` is
history: the calls that found, and kept, the editor to themselves.

### DebugClient, DebugClientProofs

A tool makes up to three calls, each on a connection of its own: `Connect`, then
`Receive` of any number of pieces, first for the header and then for the body, each
loop with its own bound of reads.  The peer answers, pushes events, drips a header
without an end, closes or stays silent.

The modules starting with MC only give TLC the constants a configuration cannot
write down, and symmetry; the other runs check the modules themselves.

Definitions named like another one with something wrong in them
(`PopNewest`, `OpenInPlace`, `SetOwnerNodeOnly`, ...) stand in front of the definition
they vary.  They are plausible slips of the code, used to see that each
property can fail; no specification uses them.

## 3. What the runs show

The bounds are small on purpose; each was chosen so that the case the property
is about happens (the mutants in `PROJECT.json` break each property within them).

| Run | Bounds | Shows |
| --- | --- | --- |
| `queue` | 2 threads, 2 calls each (a second call on a stack with an abandoned one), timeouts, flips of the flag | `AtMostOnce`, `OwnAnswer`, `InOrder`, `StoresAreLive`: who runs what and who gets which answer; `EveryCallReturns`, `QueuedRuns`: a caller always returns, a queued handler always runs; `ImplementsHandlerCalls`: the queue implements `HandlerCalls` |
| `calls` | 2 clients, 2 and 1 requests, one tool of each kind, 3 outcomes of handlers, 1 panel step, a ring of 2 | `SwitchRespected`, `CountsMatchRuns`, `LogIsNewestWindow`: switch, counter and log ring under interleaving and late stores; `ReplyTellsOutcome`: the reply is the one the call's own handler's outcome gives, unless its thread gave up once; `EveryCallAnswered` |
| `lifecycle` | 2 connections, 2 polls, failing system calls | `PanelServerAlive`, `DispatchHasNode`: order of start-up and shutdown; `NodeJoinsTree`, `BacklogServed`: node and connections are picked up |
| `framing` | sessions of up to 3 messages, chunks of up to 7 characters | `HandledAsReceived`, `BufferIsUnfinished`: each message is handled once, as soon as it is whole |
| `intent` | 2 threads, 2 requests, 1 crash, 1 failing file operation, limits 1 and 2 | `AckedSurvive`, `MemoryMatchesFile`, `FileInOrder`, `OffIsOff`: durability, agreement of memory and file, order, the switch |
| `config` | 3 edits on four files | `EditsAreExact`: an edit changes its setting and no other; `KeysOnce`: keys stay single |
| `proxy` | 3 requests, 1 retry, a pipe for 1 reply | `RepliesInOrder`; `NoReplyLost`: a half-closed connection loses no reply but those pending at a full pipe; `RequestAnswered`, if the client reads on |
| `scene` | 4 nodes and 2 new ones, 8 paths, 3 calls, undos or redos, any number of saves | `OthersUntouched`: no call moves, disowns or changes a node it was not asked about; `SavedUnlessCarried`: what is in the tree is in the file, unless it was carried by a reparent |
| `play` | 2 calls, 2 polls, 1 scene of the user's | `HelperAgrees`, `OwnScreenshot`: sidecar and picture belong to the call that had the editor to itself; `CallReturns`, `StopsWhatItStarted`: every wait ends, and the scene with it |
| `files` | 3 calls on one file, 2 names, 1 end of the editor | `FileHoldsFacts`: the file holds what was acknowledged in every slot whose last edit was not lost in one of the named ways |
| `debug` | frames of 4 + 3 pieces, 2 reads for a header and 4 for a message, 2 messages | `FirstMessageWhole`: a call takes exactly the first message or nothing; `ToolEnds` |
| `scene_undo` | as `scene` | the disagreement below |

Two clients (threads, connections) are enough for every race here: the code treats
all alike and they share nothing but the one queue, registry, file or socket; a
second call of the same thread is what reuses a stack, a third message in a
buffer what comes after a drained one.  Three edits of a scene are a call, one that
builds on it and an undo, or a call, an undo and a call that drops it; a reparented
branch needs a node with a child.  Three calls of `files` are two that shape the text
and one that trips over it, or two that overlap and one that comes after; the run was
repeated once with four calls and one name (920 thousand states, no error).  The read limits of
`debug` (50 and 500 in the code) are below the pieces of a frame, so both are hit.

`InOrder`, `OwnAnswer` and the like hold for callers that never gave up; the
predicates say so, since after a timeout the code leaves a task behind that may
write into a later call's frame.

### Disagreements

One run ends in a counterexample, against a sentence of the code's own
documentation (quoted in `PROJECT.json`):

- `scene_undo`: the undo steps of the scene tools restore nothing.  The methods are
  registered with the object as an extra first argument, so the history's call
  fails for its number of arguments, and the values of `set_node_properties` are read
  back after they were set.

Others were met while modelling.  Where a module covers the code it behaves
this way too, but no run is spent on them:

Threads and the server
- `main_thread_queue.cpp:81` notifies after the mutex is released: the caller may have
  returned, and the condition variable is gone.
- The late store of an abandoned call may set `done_flag` in the frame of the same thread's
  next call (`main_thread_queue.cpp:75-80`): that call's wait ends, and it is counted, logged
  and answered, before its handler has run.  `CountsMatchRuns` and `ReplyTellsOutcome` say
  that this takes a thread that gave up before.
- A handler's text that is not UTF-8 is logged "ok" or "error" and counted, but answered
  with an internal error without the request's id (`mcp_methods.cpp:347`,
  `mcp_server.cpp:108`).
- `tcp_server.h:17` speaks of messages delimited by newlines; `extract_next_message` looks for
  the end of an object and takes newlines inside it.
- `invoke_on_main` does not "block until it completes" (`main_thread_queue.h`): it
  gives up after 10 s, and without a dispatch node it runs main-thread handlers on
  the client thread.  `mcp_methods.cpp:334` reports a call that timed out with
  `isError: false`.
- A handler that throws on the client thread is not counted, though
  `tool_registry.h` counts "each successful or failed" call.
- A call that passed the switch still runs after its tool was disabled.
- `TCPServer::stop` does not "close all connections, join threads": detached client
  threads survive it and use the deleted `MCPServer` (`mcp_server.cpp:17`); the client
  counter never falls when a client leaves; one failing `accept` ends the accept
  thread while `is_running` stays true.
- After a line of garbage the drain ends, and a complete message behind it waits
  for the next `recv` (the sessions of `framing` have no such line).
- `proxy/README.md:33` promises retries; Node emits `close` after `error`, so the proxy
  exits on the first refused connection (`proxy/index.js:16`).
- The proxy's `close` handler exits at once: replies that `process.stdout.write` could not
  get into a full pipe (`proxy/index.js:13`, on systems where Node writes pipes
  asynchronously) are dropped, though the server had sent them.

Files
- `remove_autoload` of a middle line joins its neighbours (`config_parser.cpp:382`);
  `EditsAreExact` holds until then.
- `set_project_setting` finds the key `Audio` inside `GameAudio` and rewrites that
  (the keys of `config` do not end in one another); `list_plugins`, which is not
  modelled, calls a disabled plugin enabled.
- `capture_intent_snapshot` records with recording off; the "atomic" rewrite of the
  state file cuts it off when the write fails, or while the fallback copies.
- `modify_resource` leaves the last line without its newline; a later
  `set_theme_color` or `apply_theme_shader` continues that line.  `apply_theme_shader` on
  an absent file makes one without a header.  The theme tools replace a key's first
  line wherever it stands, in a `[sub_resource]` too.
- `attach_script_to_node` takes the text up to the next blank line for the node's: a
  script of the next node there makes it refuse.
- `fetch_asset` does not end when `dest_subdir` has no slash at its end: the loop at
  `assets_tools.cpp:350` has an empty body, and it runs on the main thread.

Scene, game and debugger
- `add_node` registers its node as a reference of both the do and the undo steps, so
  that the node is erased when the redo step is dropped after an undo (which has
  not removed it, see above).
- `delete_node` refuses the root by its two names only: `a/..` passes.
- `reparent_node` gives the owner back to the named node only: the nodes below are not
  saved.
- A launch whose wait timed out is answered with an error and its scene keeps
  running (`StopsWhatItStarted` speaks of the later waits); a picture that was at the path
  before is taken for the call's own (`OwnScreenshot` speaks of a free path).
- The first message of a language server or debug adapter may be an event; the results
  are looked for beside `result` and not in it, so that completions, hovers and symbols
  are always empty; the handshake goes over other connections than the request.

### Deadlock

Every configuration sets `CHECK_DEADLOCK FALSE`: clients make a bounded number of
calls (steps, edits, requests) and the editor quits, so every system here really stops.  That nobody waits
for ever is stated by the liveness properties instead.

### Fairness

- Client threads (`FairSpec` of `MainThreadQueue` and `ToolCalls`): the operating
  system schedules them, and a wait has a deadline.  Nothing is assumed of the
  main thread, which a modal dialog or an import may keep away; `EveryCallReturns`
  and `EveryCallAnswered` therefore rest on the deadline alone.
- `QueuedRuns` needs frames and says so itself: `FramesKeepComing`, which is
  `WF(ProcessPending)`, implies that a queued handler runs.
- `ServerLifecycle`: frames, the accept thread, the bootstrap thread and each client
  thread; never the clients themselves, nor the end of the editor.
- `RunScene`: the main thread (the run tools are of no use without frames, and only
  `StopsWhatItStarted` rests on it: a queued stop must run) and each handler, which is a
  client thread whose waits and loops all have a deadline.  Nothing is assumed of the
  game, the helper or the user.
- `DebugClient`: the tool's thread, whose `recv` returns by `SO_RCVTIMEO`; nothing of the
  peer.
- `Proxy`: Node's event loop and the server's thread; not the client, nor the editor's
  start.  `RequestAnswered` needs a client that goes on reading and says so itself
  (`ClientKeepsReading`): behind a full pipe nothing comes out.

## 4. What is proved

Each theorem holds for every value of the module's constants that its named
assumptions allow; the runs show the same formula on a small instance.  Where an
invariant is not inductive its proof names a stronger one that is; those were
checked by TLC on the run's instance before they were proved.  A proof that a step
keeps an invariant has one case per action, and lemmas of the form
"...Others" or "...Unmoved" for the threads and entries a step leaves alone.

### `MainThreadQueueProofs`

For any set of client threads and any number of calls (`CallsAssumption`: a natural
number):

- `TypeCorrect`: `Spec => []TypeOK`;
- `RunsAtMostOnce`: no handler runs twice;
- `CallerGetsOwnAnswer`: a caller on a stack without an abandoned call gets its own
  handler's result, and that handler has run;
- `StoresHitLiveFrames`: no store goes to a dead frame unless its caller gave up;
- `MainRunsInOrder`: the main thread runs a stack's calls in the order they were
  made, the abandoned ones included;
- `QueueImplementsHandlerCalls`: `Spec` implements `HandlerCalls`.

`AtMostOnce` is not inductive: it needs to know that a task is in one place only.
`OnceInv` says so: the queue holds no task twice, none that is in `log`, none the
main thread holds, and only calls that were begun.  `CallerInv` strengthens
the caller properties: while a caller that never gave up is waiting, its
task is in the queue, in the main thread's hands, or done with its own result in
the frame.  `OrderInv` orders all three places: log before the popped task before the
queue.  Both are proved from `OnceInv`.  The refinement adds `FramesHoldRuns` (a frame
holds nothing but results of
its own stack's handlers that ran) and maps `Begin` to `Issue`, `RunDirect` and `Run`
to `RunHandler`, `ReturnDirect` and `Return` to `Answer`, `Timeout` to `GiveUp` and
everything else to a stutter.  It takes three calls of one stack to see the whole
of what an answer may be after an abandoned call: the first gives up, its late
store ends the second before its turn, and the third may get the second's result.

### `ServerLifecycleProofs`

For any set of connections and any number of polls (`LifecycleAssumption`):

- `LifecycleTypeCorrect`: `Spec => []TypeOK`.  The bound of the poll counter needs two
  facts more, which are part of `Phases` and `Counts`: the bootstrap thread starts
  after the other initialisation, and when it polls it has polls left;
- `SingletonServerAlive`, by `StageInv`: how far the main thread has come says
  what it has made and freed;
- `DispatchFlagHasNode`, by `BootInv`: once the node is made it is in the tree or on
  its way there for as long as the tree is up.

### `ToolCallsProofs`

For any set of clients and of tools, and any size of the ring (`ToolsAssumption`):

- `ToolCallsTyped`: `Spec => []TypeInv`; a call in flight names a registered tool;
- `SwitchIsRespected`: who goes on met the tool enabled, who is refused met it
  disabled, at some moment since the call arrived.  `SwitchInv` adds that what a call
  has seen includes what the switch is now;
- `RingHoldsNewest`: the ring holds the newest entries since it was last cleared;
- `RepliesTellOutcome`: `Spec => ReplyTellsOutcome`, an action property.
  `OwnInv` describes a thread that never gave up: its one handler is in the queue, in the
  main thread's hands or done, no task of an earlier call is left, and `error_out` and the
  result are what its own handler left;
- `CountersMatch`: `Spec => []CountsMatchRuns`.  The equation, `Balanced`, holds for
  all threads: each queued handler stands for a run that is to come and each call that waits
  or is about to be counted for a count to come, whoever ended its wait, so that every step
  moves one unit on both sides or none.  One cardinality lemma stands for each way a
  call or a task enters or leaves its set.  The second part, that a thread that never gave up
  has a handler in the queue only while it waits for it, is `QueuedAwaited` of `OwnInv`:
  without it the flag of another call's store could not be excluded.

### `ProxyProofs`

For any number of requests and of retries and any room in the pipe (`ProxyAssumption`),
about `FairSpec` (none of the fairness is used):

- `ProxyKeepsOrder`: the replies in stdout's pipe are in order, none twice and none left out;
- `ProxyLosesNothing`: if the server ends the connection, the proxy has written every reply
  before it exits, and they are all in the pipe unless one of the writes found it full.

Both follow from `ProxyInv`: the pipe, what waits for it, the server's side, the client's
side and stdin hold consecutive numbers, in this order, up to the last request written;
nothing waits unless the pipe was full once; and the connection ends in the order client,
server, proxy.

### `MessageFramingProofs`

For any set of sessions, of any length, whose messages are JSON objects with nothing
but blanks in front of each, and any length of a chunk (`SessionsAssumption`; a client
that sends a line of something else is outside of it, see the disagreements):

- `FramingTyped`: `Spec => []TypeOK`, the handler never gets an empty message;
- `EachMessageOnce`: the handler has had exactly the messages received to their last
  byte, in order, however `recv` cuts the bytes;
- `BufferKeepsRest`: the buffer holds what has arrived of the next one, and only that.

The scan, the drain and the bytes of a session are recursive functions, so this takes
induction.  The library's induction theorems have an operator as their parameter, but
that `<` is well-founded on `Nat` is a fact without one: from it come induction over a
set of numbers (`Induct`) and the values of a recursive function (`Recursion`).  The argument has
three parts.  The scan (`ScanAgrees`, `ObjectEnds`): after each character its string flag,
escape flag and depth are those `IsObject` is defined by, so behind an object's first
characters it knows no end, and behind the last one it knows the object's length,
whatever follows.  The drain (`DrainTakesAll`): every round takes the next message
if its last byte is there, so the rounds, one more than the buffer has characters,
take all such messages and end in a round that takes nothing.  The loop: neither property
is inductive, since neither says where in the session the buffer begins.  `CaughtUp`
does: for some `k` the handler has had the first `k` messages, the next one is not
complete, and the buffer is what has arrived from some place on that lies between the end
of message `k` and the beginning of the next -- the blanks between may be in it
or not.

### `IntentStoreProofs`

For any set of threads, any arrays and any lengths they are trimmed to
(`IntentAssumption`; `NobodyAssumption`: the value for "no thread" is not a thread):

- `IntentStoreTyped`: `Spec => []TypeOK`, no array longer than `trim_array` keeps;
- `MemoryIsOnFile`: unless a file operation failed, memory is what the file holds
  whenever nobody saves.  `LockInv` (who is in the save holds the mutex) and `SaveInv`
  (what the temporary copy and the file hold at each step of it);
- `OffStaysOff`: `Spec => OffIsOff`, an action property.  `ModeInv`: memory and file
  know only modes somebody asked for;
- `FileKeepsOrder`: entries on file keep their order, also after failed operations;
  `OrderInv` says it of memory, file and temporary copy at once;
- `AckedEntriesSurvive`: unless a file operation failed, an acknowledged entry is on
  file or was pushed out by enough newer ones.  `RecordInv` (every entry is recorded
  once, and before it is acknowledged), `AheadInv` (memory is at most the saving
  thread's one entry ahead of the file) and `SurviveInv`, which says of every entry missing on
  file that all the entries there are newer and fill the array; that these are enough is
  the counting lemma `PushedOutByMany`.

### `RunSceneProofs`

For any set of calls, any choice of output paths (equal ones included), any set of
scenes with a helper, any number of polls and of the user's calls (`RunAssumption`;
`NamesAssumption`: no call is named "user" or "nobody"):

- `HelperReadsOwnPath`: a scene played undisturbed reads its own call's path;
- `ScreenshotIsOwn`: a call alone with a free path reports its own picture.

`QueueInv`: a call's tasks stand in the queue in the order it asked for them, the
first is the one that plays, and where a call stands tells how many it has asked.
`GameInv`: a scene whose call is past its waits has its stop in the queue.  `AloneInv`
describes the one undisturbed call: whose task is next, what the sidecar holds from
the launch on, and what may be at its path.

### `DebugClientProofs`

For any number of pieces of header and body, any cuts, any bounds on reads and on the
peer's messages (`ClientAssumption`: at least two pieces of a header, as many reads for
a message as for a header):

- `FirstMessageIsWhole`: a call takes exactly the connection's first message if it was
  received whole, and nothing otherwise.

`StreamInv` speaks of what was received and what is on the wire as one stream: it is
empty, an endless header, or begins with the pieces of the first message.  `CallInv`
adds that a call that still reads lacks a part of it, and knows when it has the header.

### Only model-checked

- Liveness (under the fairness above): the provers here do not reach it.
- `ConfigEdit` (`KeysOnce`, `EditsAreExact`): `Parse` is a fold over the whole text, and an
  edit shifts what is behind it; the properties moreover hold for the shape of file and
  keys the run has (no two keys of a section that end in the same part), not for all.
  The induction of `MessageFramingProofs` is a way to it; it has not been carried out.
- `ProjectFiles` (`FileHoldsFacts`): it compares what twelve text edits leave with what is
  loaded from it.  Nothing in it needs induction, but each edit needs its own lemma about
  minima, maxima and shifted positions, for files of a shape still to be stated.
- `SceneEdits` (`SavedUnlessCarried`, `OthersUntouched`) walks its tree with a recursive
  operator, which takes its module out of the SMT prover's reach.

## 5. What is not modelled, and why

Most of the repository's lines are not its own: `godot-cpp` (the engine's generated
bindings) is by far the largest part, and is external here, as are `nlohmann/json` and
inih.  The engine appears as what the code gets from it: a tree with owners, an undo
history, a played scene, `project.godot` as a reader sees it.

- Resources and prompts: reads of engine data under one mutex each and fixed texts.
- The panel: layout and polling; what it may change is in `ToolCalls`.
- Value conversion (`type_codec.cpp`, most of `godot_api.cpp`): it hands values through the
  engine's C interface and keeps no state; what goes wrong in it depends on the
  engine's memory layout, of which the sources here say nothing.
- Script, tile-map and audio tools, `create_material`, `create_shader`,
  `create_animation`: a new file written once, as `create_resource` in `ProjectFiles`, or
  parameters handed to the engine; `load_sprite` and the animation states likewise.
- Assets, export, testing, dx and project tools: directory walks, processes that are started and
  waited for, formatting of what they print.
- `add_input_action` splices a line as `set_project_setting` does, with a value that is
  engine text; concurrent edits of `project.godot` lose updates by the same steps that
  `ProjectFiles` has for other files, and are not repeated on it.
- `send`, which may write a part of a reply: `MessageFraming` delivers replies whole.

What could follow:

1. Proofs for the modules that have none: `FileHoldsFacts`, with one lemma for each
   tool of `ProjectFiles`; `EditsAreExact`, once the shape of the files is an assumption;
   `SceneEdits` with its walk as a recursive function.
2. `ToolCalls` composed with `MainThreadQueue` in place of its summary of it, and
   `RunScene` likewise.
3. The import and test runners' waits, once they keep state between calls.
