----------------------------- MODULE ToolCalls -----------------------------
(***************************************************************************)
(* A request through MCPServer::_handle_message, MCPMethods::handle and    *)
(* MCPMethods::_handle_tools_call (src/server/mcp_server.cpp,              *)
(* mcp_methods.cpp), with the ToolRegistry (tool_registry.cpp) it consults *)
(* and counts in, the log ring it writes and the editor panel (through     *)
(* GearMCPAPI, gear_mcp_api.cpp) that switches tools and clears the log    *)
(* while requests are in flight.                                           *)
(*                                                                         *)
(* Client threads interleave with each other and with the main thread.     *)
(* The main thread runs a queued handler and stores its answer in two      *)
(* steps, as process_pending does.  Both write through pointers: the       *)
(* lambda into _handle_tools_call's error_out, the store into the result   *)
(* and done_flag of invoke_on_main.  Once the caller gave up, these are    *)
(* places of frames that are gone, and may be those of the same thread's   *)
(* present call.                                                           *)
(***************************************************************************)
EXTENDS Naturals, Sequences, FiniteSets

CONSTANTS
    Clients,       \* client threads
    Tools,         \* registered tools
    MainTools,     \* those registered with p_main_thread = true
    UnknownTool,   \* a name no tool is registered under
    Methods,       \* the other requests to try: a subset of OtherRequests
    Outcomes,      \* what handlers may leave: a subset of AllOutcomes
    MaxRequests,   \* bound: MaxRequests[c], requests of client c
    MaxPanelSteps, \* bound: operations of the panel
    MaxLogEntries  \* MAX_LOG_ENTRIES

\* "notification" has no id, "garbage" does not parse, "noMethod" has no
\* method, "unknown" a method nobody handles; "light" is a method answered at
\* once, "lightError" one of those whose answer is an error (a resource that
\* does not exist, say), "badParams" one with a parameter of the wrong type, "badBytes"
\* garbage that is not UTF-8, which the text of the parse error quotes.
OtherRequests ==
    {"notification", "garbage", "badBytes", "noMethod", "unknown", "light", "lightError",
     "badParams"}

\* A handler leaves a text in r_result and none or one in r_error.  A text is
\* UTF-8 or not; json::dump throws on one that is not.
Texts == {"utf8", "bytes"}
Errors == Texts \cup {"none"}
AllOutcomes == [result : Texts, error : Errors]

ASSUME ToolsAssumption ==
    /\ MainTools \subseteq Tools /\ UnknownTool \notin Tools
    /\ Methods \subseteq OtherRequests /\ Outcomes \subseteq AllOutcomes
    /\ MaxRequests \in [Clients -> Nat] /\ MaxPanelSteps \in Nat
    /\ MaxLogEntries \in Nat \ {0}
ASSUME FiniteTools == IsFiniteSet(Tools)

Names == Tools \cup {UnknownTool}
Replies == {"none", "ok", "toolError", "error", "refused", "internal"}


VARIABLES
    alive,      \* the editor process is running
    disabled,   \* m_disabled
    counts,     \* m_call_counts
    logs,       \* m_logs: the ring, oldest first
    pc,         \* pc[c]: where client thread c is
    tool,       \* tool[c]: the tool its present tools/call names
    nreq,       \* nreq[c]: requests received so far
    error_out,  \* error_out[c], of _handle_tools_call
    result_out, \* result_out[c]; during invoke_on_main its result
    returned,   \* returned[c]: done_flag of invoke_on_main
    mainq,      \* handlers submitted to the main thread: [client, nreq, tool]
    running,    \* the task the main thread ran and has yet to answer: [client, nreq, result]
    reply,      \* reply[c]: the last reply, and whether it carries the request's id
    panelSteps, \* operations of the panel so far
    runs,       \* history: runs[t], how often t's handler was run to its end
    gaveUp,     \* history: the client threads that gave up waiting at least once
    outcome,    \* history: outcome[c], what the handler of c's own call left
    seen,       \* history: seen[c], the states the tool had during c's call
    logged      \* history: every entry logged since the log was last cleared

registry == <<disabled, counts>>
logVars == <<logs, logged>>
callVars == <<tool, error_out, result_out, returned, outcome>>
mainVars == <<mainq, running>>
vars == <<alive, registry, logVars, pc, nreq, callVars, mainVars, reply, panelSteps,
          runs, gaveUp, seen>>

Entry(t, status) == [tool |-> t, status |-> status]
State(t) == IF t \in disabled THEN "disabled" ELSE "enabled"

Init ==
    /\ alive = TRUE
    /\ disabled = {} /\ counts = [t \in Tools |-> 0]
    /\ logs = <<>> /\ logged = <<>>
    /\ pc = [c \in Clients |-> "idle"]
    /\ tool \in [Clients -> {UnknownTool}]
    /\ nreq = [c \in Clients |-> 0]
    /\ error_out = [c \in Clients |-> "none"]
    /\ result_out = [c \in Clients |-> "utf8"]
    /\ returned = [c \in Clients |-> FALSE]
    /\ mainq = <<>> /\ running = {}
    /\ reply = [c \in Clients |-> [kind |-> "none", ownId |-> FALSE]]
    /\ panelSteps = 0
    /\ runs = [t \in Tools |-> 0]
    /\ gaveUp = {}
    /\ outcome = [c \in Clients |-> [result |-> "utf8", error |-> "none"]]
    /\ seen = [c \in Clients |-> {}]

----------------------------------------------------------------------------
(* MCPMethods::_log: the oldest entry makes room for the newest            *)

LogForgetsNewest(e) ==
    /\ logs' = IF Len(logs) >= MaxLogEntries THEN logs ELSE Append(logs, e)
    /\ logged' = Append(logged, e)

Log(e) ==
    /\ logs' = Append(IF Len(logs) >= MaxLogEntries THEN Tail(logs) ELSE logs, e)
    /\ logged' = Append(logged, e)

Answer(c, kind, ownId) ==
    /\ reply' = [reply EXCEPT ![c] = [kind |-> kind, ownId |-> ownId]]
    /\ pc' = [pc EXCEPT ![c] = "idle"]

Arrives(c) ==
    /\ alive /\ pc[c] = "idle" /\ nreq[c] < MaxRequests[c]
    /\ nreq' = [nreq EXCEPT ![c] = @ + 1]

----------------------------------------------------------------------------
(* _handle_message and handle, for everything that is no tools/call        *)

\* The reply of each kind of request and whether it carries the request's id;
\* a request without id is not dispatched and not answered.
OtherReply(m) ==
    CASE m = "notification" -> [kind |-> "none",     ownId |-> FALSE]
      [] m = "garbage"      -> [kind |-> "error",    ownId |-> FALSE]
      [] m = "badBytes"     -> [kind |-> "internal", ownId |-> FALSE]
      [] m = "noMethod"     -> [kind |-> "error",    ownId |-> TRUE]
      [] m = "unknown"      -> [kind |-> "error",    ownId |-> TRUE]
      [] m = "light"        -> [kind |-> "ok",       ownId |-> TRUE]
      [] m = "lightError"   -> [kind |-> "error",    ownId |-> TRUE]
      [] m = "badParams"    -> [kind |-> "internal", ownId |-> FALSE]

\* Handled methods are logged "ok" whatever their answer is; the others, and
\* one that leaves by an exception, are not logged.
HandleOther(c, m) ==
    /\ Arrives(c)
    /\ Answer(c, OtherReply(m).kind, OtherReply(m).ownId)
    /\ IF m \in {"light", "lightError"}
       THEN Log(Entry(UnknownTool, "ok"))
       ELSE UNCHANGED logVars
    /\ UNCHANGED <<alive, registry, callVars, mainVars, panelSteps, runs, gaveUp, seen>>

----------------------------------------------------------------------------
(* _handle_tools_call                                                      *)

\* No such tool (or no name at all): refused before the panel's switch is read.
CallUnknown(c) ==
    /\ Arrives(c)
    /\ Log(Entry(UnknownTool, "error"))
    /\ Answer(c, "error", TRUE)
    /\ UNCHANGED <<alive, registry, callVars, mainVars, panelSteps, runs, gaveUp, seen>>

\* The locals as a call finds them: result_out and error_out are empty strings.
FreshFrame(c) ==
    /\ error_out' = [error_out EXCEPT ![c] = "none"]
    /\ result_out' = [result_out EXCEPT ![c] = "utf8"]
    /\ returned' = [returned EXCEPT ![c] = FALSE]
    /\ outcome' = [outcome EXCEPT ![c] = [result |-> "utf8", error |-> "none"]]

\* get_tool finds t.
CallKnown(c, t) ==
    /\ Arrives(c)
    /\ pc' = [pc EXCEPT ![c] = "check"]
    /\ tool' = [tool EXCEPT ![c] = t]
    /\ FreshFrame(c)
    /\ seen' = [seen EXCEPT ![c] = {State(t)}]
    /\ UNCHANGED <<alive, registry, logVars, mainVars, reply, panelSteps, runs, gaveUp>>

\* How a handler may be run: invoke_on_main calls it on the client thread
\* while there is no dispatch node.
Ways(t) == IF t \in MainTools THEN {"submit", "direct"} ELSE {"direct"}

CheckNothing(c) ==
    /\ alive /\ pc[c] = "check"
    /\ \E label \in Ways(tool[c]) : pc' = [pc EXCEPT ![c] = label]
    /\ UNCHANGED <<alive, registry, logVars, callVars, nreq, mainVars, reply, panelSteps,
                   runs, gaveUp, seen>>

\* is_tool_enabled: the only reading of the switch.
CheckEnabled(c) ==
    /\ alive /\ pc[c] = "check"
    /\ IF tool[c] \in disabled
       THEN /\ Log(Entry(tool[c], "skipped"))
            /\ Answer(c, "refused", TRUE)
       ELSE /\ \E label \in Ways(tool[c]) : pc' = [pc EXCEPT ![c] = label]
            /\ UNCHANGED <<logVars, reply>>
    /\ UNCHANGED <<alive, registry, callVars, nreq, mainVars, panelSteps, runs, gaveUp, seen>>

\* A handler that runs on the client thread ends with a result or an error ...
RunDirect(c, out) ==
    /\ alive /\ pc[c] = "direct"
    /\ runs' = [runs EXCEPT ![tool[c]] = @ + 1]
    /\ error_out' = [error_out EXCEPT ![c] = out.error]
    /\ result_out' = [result_out EXCEPT ![c] = out.result]
    /\ outcome' = [outcome EXCEPT ![c] = out]
    /\ pc' = [pc EXCEPT ![c] = "count"]
    /\ UNCHANGED <<alive, registry, logVars, tool, returned, nreq, mainVars, reply, panelSteps,
                   gaveUp, seen>>

\* ... or throws (a parameter of the wrong JSON type): _handle_message answers.
ThrowDirect(c) ==
    /\ alive /\ pc[c] = "direct"
    /\ Answer(c, "internal", FALSE)
    /\ UNCHANGED <<alive, registry, logVars, callVars, nreq, mainVars, panelSteps, runs,
                   gaveUp, seen>>

Submit(c) ==
    /\ alive /\ pc[c] = "submit"
    /\ mainq' = Append(mainq, [client |-> c, nreq |-> nreq[c], tool |-> tool[c]])
    /\ pc' = [pc EXCEPT ![c] = "wait"]
    /\ UNCHANGED <<alive, registry, logVars, callVars, nreq, running, reply, panelSteps, runs,
                   gaveUp, seen>>

----------------------------------------------------------------------------
(* process_pending, on the main thread                                     *)

\* The frames of c's present call: that of _handle_tools_call, which holds
\* error_out, and that of invoke_on_main, which holds result and done_flag.
InCall(c) == pc[c] \in {"check", "direct", "submit", "wait", "count", "finish"}
InInvoke(c) == pc[c] \in {"submit", "wait"}
\* Those of the call that queued e are still there.
CallLives(e) == InCall(e.client) /\ nreq[e.client] = e.nreq
WaitLives(e) == pc[e.client] = "wait" /\ nreq[e.client] = e.nreq

MainIsFree == alive /\ running = {}

Pop ==
    /\ MainIsFree /\ mainq # <<>>
    /\ mainq' = Tail(mainq)
    /\ runs' = [runs EXCEPT ![Head(mainq).tool] = @ + 1]
    /\ UNCHANGED <<alive, registry, logVars, pc, tool, nreq, result_out, returned, reply,
                   panelSteps, gaveUp, seen>>

Ran(e, out) == running' = {[client |-> e.client, nreq |-> e.nreq, result |-> out.result]}

Outcome(e, out) ==
    outcome' = IF CallLives(e) THEN [outcome EXCEPT ![e.client] = out] ELSE outcome

RunOnMainDropsError(out) ==
    /\ Pop /\ Ran(Head(mainq), out) /\ Outcome(Head(mainq), out)
    /\ UNCHANGED error_out

\* The lambda on the main thread runs the handler and assigns the error_out it
\* captured: that of its own call while it lives, else perhaps the present one.
RunOnMain(out) ==
    /\ Pop
    /\ LET e == Head(mainq)
           c == e.client
       IN  /\ Ran(e, out) /\ Outcome(e, out)
           /\ \/ InCall(c) /\ error_out' = [error_out EXCEPT ![c] = out.error]
              \/ ~CallLives(e) /\ UNCHANGED error_out

\* Then it stores the result and the flag, each through the task's pointer: into
\* the frame that waits for them, or else perhaps into the present one of the
\* same thread.  (A main thread that hangs for ever on the mutex of a dead frame
\* is one that takes no further step.)
StoreOnMain ==
    /\ alive
    /\ \E e \in running : LET c == e.client IN
          /\ \/ InInvoke(c) /\ result_out' = [result_out EXCEPT ![c] = e.result]
             \/ ~WaitLives(e) /\ UNCHANGED result_out
          /\ \/ InInvoke(c) /\ returned' = [returned EXCEPT ![c] = TRUE]
             \/ ~WaitLives(e) /\ UNCHANGED returned
    /\ running' = {}
    /\ UNCHANGED <<alive, registry, logVars, pc, tool, nreq, error_out, outcome, mainq, reply,
                   panelSteps, runs, gaveUp, seen>>

\* An exception leaves process_pending through the engine's _process call:
\* nothing catches it and the process ends.
ThrowOnMain ==
    /\ MainIsFree /\ mainq # <<>>
    /\ alive' = FALSE
    /\ UNCHANGED <<registry, logVars, pc, callVars, nreq, mainVars, reply, panelSteps, runs,
                   gaveUp, seen>>

----------------------------------------------------------------------------
(* The rest of _handle_tools_call                                          *)

ReturnOnAnyWakeup(c) ==
    /\ alive /\ pc[c] = "wait"
    /\ pc' = [pc EXCEPT ![c] = "count"]
    /\ UNCHANGED <<alive, registry, logVars, callVars, nreq, mainVars, reply, panelSteps,
                   runs, gaveUp, seen>>

\* The wait ends by the flag, whoever's store set it.
ReturnFromMain(c) ==
    /\ alive /\ pc[c] = "wait" /\ returned[c]
    /\ pc' = [pc EXCEPT ![c] = "count"]
    /\ UNCHANGED <<alive, registry, logVars, callVars, nreq, mainVars, reply, panelSteps,
                   runs, gaveUp, seen>>

TimeoutNever(c) == FALSE

\* The 10 s are over: the timeout text is the result, error_out is as it is.
TimeoutMain(c) ==
    /\ alive /\ pc[c] = "wait" /\ ~returned[c]
    /\ gaveUp' = gaveUp \cup {c}
    /\ result_out' = [result_out EXCEPT ![c] = "utf8"]
    /\ pc' = [pc EXCEPT ![c] = "count"]
    /\ UNCHANGED <<alive, registry, logVars, tool, error_out, returned, outcome, nreq, mainVars,
                   reply, panelSteps, runs, seen>>

Count(c) ==
    /\ alive /\ pc[c] = "count"
    /\ counts' = [counts EXCEPT ![tool[c]] = @ + 1]
    /\ pc' = [pc EXCEPT ![c] = "finish"]
    /\ UNCHANGED <<alive, disabled, logVars, callVars, nreq, mainVars, reply, panelSteps,
                   runs, gaveUp, seen>>

\* The reply an outcome gives: its text is the error's or, without one, the
\* result's; make_response's dump throws on one that is not UTF-8, and then
\* _handle_message answers without the request's id.
ReplyTo(result, error) ==
    CASE error = "none" /\ result = "utf8" -> [kind |-> "ok",        ownId |-> TRUE]
      [] error = "utf8"                    -> [kind |-> "toolError", ownId |-> TRUE]
      [] error = "bytes" \/ (error = "none" /\ result = "bytes")
                                           -> [kind |-> "internal",  ownId |-> FALSE]

\* The call is logged before its reply is built from result_out and error_out;
\* the locals end here.
Finish(c) ==
    /\ alive /\ pc[c] = "finish"
    /\ Log(Entry(tool[c], IF error_out[c] # "none" THEN "error" ELSE "ok"))
    /\ LET told == ReplyTo(result_out[c], error_out[c]) IN Answer(c, told.kind, told.ownId)
    /\ FreshFrame(c)
    /\ UNCHANGED <<alive, registry, tool, nreq, mainVars, panelSteps, runs, gaveUp, seen>>

----------------------------------------------------------------------------
(* The panel, on the main thread, through GearMCPAPI                       *)

PanelStep == MainIsFree /\ panelSteps < MaxPanelSteps /\ panelSteps' = panelSteps + 1

\* The calls in flight see the tools in their new state too.
Switch(d) ==
    /\ disabled' = d
    /\ seen' = [c \in Clients |->
                  IF InCall(c) THEN seen[c] \cup {IF tool[c] \in d THEN "disabled" ELSE "enabled"}
                  ELSE seen[c]]

\* A name that is not registered (a stale row of the panel) changes nothing.
SetToolEnabled(n, enabled) ==
    /\ PanelStep
    /\ Switch(CASE n \notin Tools -> disabled
                [] n \in Tools /\ enabled -> disabled \ {n}
                [] n \in Tools /\ ~enabled -> disabled \cup {n})
    /\ UNCHANGED <<alive, counts, logVars, pc, callVars, nreq, mainVars, reply, runs, gaveUp>>

EnableAllTools ==
    /\ PanelStep /\ Switch({})
    /\ UNCHANGED <<alive, counts, logVars, pc, callVars, nreq, mainVars, reply, runs, gaveUp>>

DisableAllTools ==
    /\ PanelStep /\ Switch(Tools)
    /\ UNCHANGED <<alive, counts, logVars, pc, callVars, nreq, mainVars, reply, runs, gaveUp>>

ClearLogs ==
    /\ PanelStep
    /\ logs' = <<>> /\ logged' = <<>>
    /\ UNCHANGED <<alive, registry, pc, callVars, nreq, mainVars, reply, runs, gaveUp, seen>>

Panel ==
    \/ \E n \in Names, b \in BOOLEAN : SetToolEnabled(n, b)
    \/ EnableAllTools \/ DisableAllTools \/ ClearLogs

----------------------------------------------------------------------------

Call(c) ==
    \/ CheckEnabled(c) \/ ThrowDirect(c) \/ Submit(c) \/ ReturnFromMain(c)
    \/ TimeoutMain(c) \/ Count(c) \/ Finish(c)
    \/ \E out \in Outcomes : RunDirect(c, out)

Receive(c) ==
    \/ \E m \in Methods : HandleOther(c, m)
    \/ CallUnknown(c)
    \/ \E t \in Tools : CallKnown(c, t)

Main == StoreOnMain \/ ThrowOnMain \/ \E out \in Outcomes : RunOnMain(out)

Next == Panel \/ Main \/ \E c \in Clients : Receive(c) \/ Call(c)

Spec == Init /\ [][Next]_vars

(* A client thread goes on with the request it has, and its wait for the   *)
(* main thread ends after 10 s; the main thread owes nothing.              *)
FairSpec == Spec /\ \A c \in Clients : WF_vars(Call(c))

----------------------------------------------------------------------------
(* Properties                                                              *)

\* The panel's switch: a call goes on only if its tool was enabled at some
\* moment since the call arrived, and is refused only if it was disabled at
\* some moment; so a tool left alone during a call is treated as it is set.
SwitchRespected ==
    \A c \in Clients :
        /\ pc[c] \in {"direct", "submit", "wait", "count", "finish"} => "enabled" \in seen[c]
        /\ pc[c] = "idle" /\ reply[c].kind = "refused" => "disabled" \in seen[c]

\* The call counter: what was counted, plus what is about to be, is what ran,
\* plus what the main thread has yet to run; and a thread that never gave up
\* waiting has a queued handler only while it waits for it, so each of its calls
\* is counted, and answered, after its own handler has run once.  (The flag an
\* abandoned call's late store sets ends its thread's next wait too early.)
CountsMatchRuns ==
    /\ \A t \in Tools :
          runs[t] + Cardinality({i \in DOMAIN mainq : mainq[i].tool = t})
            = counts[t] + Cardinality({c \in Clients : tool[c] = t /\ pc[c] \in {"wait", "count"}})
    /\ \A i \in DOMAIN mainq :
          LET c == mainq[i].client IN c \in gaveUp \/ (pc[c] = "wait" /\ mainq[i].nreq = nreq[c])

\* The ring holds the newest entries since it was last cleared, at most
\* MAX_LOG_ENTRIES of them.
LogIsNewestWindow ==
    LET n == Len(logged)
    IN  logs = IF n > MaxLogEntries THEN SubSeq(logged, n - MaxLogEntries + 1, n) ELSE logged

\* A client thread that never gave up waiting is told what its own handler
\* left, and nothing of another call's: success, error, or the loss of a text
\* that is not UTF-8.
ReplyTellsOutcome ==
    [][\A c \in Clients : pc[c] = "finish" /\ pc'[c] = "idle" /\ c \notin gaveUp =>
          reply'[c] = ReplyTo(outcome[c].result, outcome[c].error)]_vars

\* Every tools/call is answered, unless the process ends.
EveryCallAnswered == \A c \in Clients : pc[c] # "idle" ~> (pc[c] = "idle" \/ ~alive)
============================================================================
