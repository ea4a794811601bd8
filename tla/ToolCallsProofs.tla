-------------------------- MODULE ToolCallsProofs --------------------------
(***************************************************************************)
(* Theorems about ToolCalls, for every set of clients and tools and every  *)
(* bound on requests, panel steps and log entries.                         *)
(***************************************************************************)
EXTENDS ToolCalls, SequenceTheorems, FunctionTheorems, FiniteSetTheorems, TLAPS

----------------------------------------------------------------------------
(* Type correctness                                                        *)

Entries == [tool : Names, status : {"ok", "error", "skipped"}]
Handlers == [client : Clients, nreq : Nat, tool : Tools]
Tasks == [client : Clients, nreq : Nat, result : Texts]
Calling == {"check", "direct", "submit", "wait", "count", "finish"}

RegistryTyped ==
    /\ disabled \in SUBSET Tools
    /\ counts \in [Tools -> Nat] /\ runs \in [Tools -> Nat]
LogTyped == logs \in Seq(Entries) /\ logged \in Seq(Entries)
CallsTyped ==
    /\ pc \in [Clients -> Calling \cup {"idle"}]
    /\ tool \in [Clients -> Names]
    /\ nreq \in [Clients -> Nat]
    /\ error_out \in [Clients -> Errors]
    /\ result_out \in [Clients -> Texts]
    /\ returned \in [Clients -> BOOLEAN]
    /\ outcome \in [Clients -> AllOutcomes]
    /\ reply \in [Clients -> [kind : Replies, ownId : BOOLEAN]]
    /\ seen \in [Clients -> SUBSET {"enabled", "disabled"}]
    /\ \A c \in Clients : pc[c] \in Calling => tool[c] \in Tools
QueueTyped ==
    /\ mainq \in Seq(Handlers)
    /\ running \in SUBSET Tasks

TypeInv == RegistryTyped /\ LogTyped /\ CallsTyped /\ QueueTyped

\* A log entry leaves both logs sequences of entries.
LEMMA LogKeepsType ==
  ASSUME LogTyped, NEW e \in Entries, Log(e)
  PROVE  LogTyped'
<1>1. logs # <<>> => Tail(logs) \in Seq(Entries)
  BY DEF LogTyped
<1>2. Len(logs) >= MaxLogEntries => logs # <<>>
  BY ToolsAssumption DEF LogTyped
<1> QED
  BY <1>1, <1>2 DEF LogTyped, Log

LEMMA InitTyped == Init => TypeInv
<1> SUFFICES ASSUME Init PROVE TypeInv
  OBVIOUS
<1>1. RegistryTyped /\ LogTyped /\ QueueTyped
  BY DEF Init, RegistryTyped, LogTyped, QueueTyped
<1>2. CallsTyped
  BY DEF Init, CallsTyped, Calling, Names, Replies, Errors, Texts, AllOutcomes
<1> QED
  BY <1>1, <1>2 DEF TypeInv

LEMMA FreshFrameTyped ==
  ASSUME CallsTyped, NEW c \in Clients, FreshFrame(c)
  PROVE  /\ error_out' \in [Clients -> Errors] /\ result_out' \in [Clients -> Texts]
         /\ returned' \in [Clients -> BOOLEAN] /\ outcome' \in [Clients -> AllOutcomes]
  BY DEF CallsTyped, FreshFrame, Errors, Texts, AllOutcomes

LEMMA ReceiveTyped ==
  ASSUME TypeInv, NEW c \in Clients, Receive(c)
  PROVE  TypeInv'
<1> USE DEF TypeInv
<1>1. ASSUME NEW m \in Methods, HandleOther(c, m) PROVE TypeInv'
  <2>1. m \in OtherRequests
    BY ToolsAssumption
  <2>2. OtherReply(m) \in [kind : Replies, ownId : BOOLEAN]
    BY <2>1 DEF OtherReply, OtherRequests, Replies
  <2>3. Entry(UnknownTool, "ok") \in Entries
    BY DEF Entry, Entries, Names
  <2>4. LogTyped'
    BY <1>1, <2>3, LogKeepsType DEF HandleOther, LogTyped, logVars
  <2>5. CallsTyped'
    BY <1>1, <2>2 DEF HandleOther, Arrives, Answer, CallsTyped, callVars, Calling
  <2>6. RegistryTyped' /\ QueueTyped'
    BY <1>1 DEF HandleOther, RegistryTyped, QueueTyped, registry, mainVars
  <2> QED
    BY <2>4, <2>5, <2>6
<1>2. ASSUME CallUnknown(c) PROVE TypeInv'
  <2>1. Entry(UnknownTool, "error") \in Entries
    BY DEF Entry, Entries, Names
  <2>2. LogTyped'
    BY <1>2, <2>1, LogKeepsType DEF CallUnknown
  <2>3. CallsTyped'
    BY <1>2 DEF CallUnknown, Arrives, Answer, CallsTyped, callVars, Calling, Replies
  <2>4. RegistryTyped' /\ QueueTyped'
    BY <1>2 DEF CallUnknown, RegistryTyped, QueueTyped, registry, mainVars
  <2> QED
    BY <2>2, <2>3, <2>4
<1>3. ASSUME NEW t \in Tools, CallKnown(c, t) PROVE TypeInv'
  <2>1. CallsTyped'
    BY <1>3, FreshFrameTyped DEF CallKnown, Arrives, CallsTyped, Calling, Names, State
  <2>2. LogTyped' /\ RegistryTyped' /\ QueueTyped'
    BY <1>3 DEF CallKnown, LogTyped, RegistryTyped, QueueTyped, logVars, registry, mainVars
  <2> QED
    BY <2>1, <2>2
<1> QED
  BY <1>1, <1>2, <1>3 DEF Receive

LEMMA ReplyToTyped ==
  ASSUME NEW result \in Texts, NEW error \in Errors
  PROVE  ReplyTo(result, error) \in [kind : {"ok", "toolError", "internal"}, ownId : BOOLEAN]
         /\ ReplyTo(result, error) \in [kind : Replies, ownId : BOOLEAN]
<1>1. \/ error = "none" /\ result = "utf8"
      \/ error = "none" /\ result = "bytes"
      \/ error = "utf8"
      \/ error = "bytes"
  BY DEF Texts, Errors
<1> QED
  BY <1>1 DEF ReplyTo, Replies

LEMMA CallTyped ==
  ASSUME TypeInv, NEW c \in Clients, Call(c)
  PROVE  TypeInv'
<1> USE DEF TypeInv
<1>1. CASE CheckEnabled(c)
  <2>1. tool[c] \in Tools
    BY <1>1 DEF CheckEnabled, CallsTyped, Calling
  <2>2. Entry(tool[c], "skipped") \in Entries
    BY <2>1 DEF Entry, Entries, Names
  <2>3. LogTyped'
    BY <1>1, <2>2, LogKeepsType DEF CheckEnabled, LogTyped, logVars
  <2>4. CallsTyped'
    <3>1. CASE tool[c] \in disabled
      <4>1. /\ pc' = [pc EXCEPT ![c] = "idle"]
            /\ reply' = [reply EXCEPT ![c] = [kind |-> "refused", ownId |-> TRUE]]
            /\ UNCHANGED <<callVars, nreq, seen>>
        BY <1>1, <3>1 DEF CheckEnabled, Answer
      <4> QED
        BY <4>1 DEF CallsTyped, callVars, Calling, Replies
    <3>2. CASE tool[c] \notin disabled
      <4>1. PICK label \in Calling : pc' = [pc EXCEPT ![c] = label]
        BY <1>1, <3>2 DEF CheckEnabled, Ways, Calling
      <4> QED
        BY <1>1, <2>1, <3>2, <4>1 DEF CheckEnabled, CallsTyped, callVars, Calling
    <3> QED
      BY <3>1, <3>2
  <2>5. RegistryTyped' /\ QueueTyped'
    BY <1>1 DEF CheckEnabled, RegistryTyped, QueueTyped, registry, mainVars
  <2> QED
    BY <2>3, <2>4, <2>5
<1>2. CASE ThrowDirect(c)
  <2>1. tool[c] \in Tools
    BY <1>2 DEF ThrowDirect, CallsTyped, Calling
  <2>2. CallsTyped'
    BY <1>2 DEF ThrowDirect, Answer, CallsTyped, callVars, Calling, Replies
  <2>3. RegistryTyped' /\ QueueTyped' /\ LogTyped'
    BY <1>2, <2>1 DEF ThrowDirect, RegistryTyped, QueueTyped, LogTyped, registry, logVars,
       mainVars
  <2> QED
    BY <2>2, <2>3
<1>3. ASSUME NEW out \in Outcomes, RunDirect(c, out) PROVE TypeInv'
  <2>1. tool[c] \in Tools
    BY <1>3 DEF RunDirect, CallsTyped, Calling
  <2>2. CallsTyped'
    <3>1. out \in AllOutcomes /\ out.error \in Errors /\ out.result \in Texts
      BY ToolsAssumption DEF AllOutcomes
    <3> QED
      BY <1>3, <2>1, <3>1 DEF RunDirect, CallsTyped, Calling
  <2>3. RegistryTyped' /\ QueueTyped' /\ LogTyped'
    BY <1>3, <2>1 DEF RunDirect, RegistryTyped, QueueTyped, LogTyped, registry, logVars, mainVars
  <2> QED
    BY <2>2, <2>3
<1>4. CASE Submit(c)
  <2>1. tool[c] \in Tools
    BY <1>4 DEF Submit, CallsTyped, Calling
  <2>2. [client |-> c, nreq |-> nreq[c], tool |-> tool[c]] \in Handlers
    BY <2>1 DEF Handlers, CallsTyped
  <2>3. QueueTyped'
    BY <1>4, <2>2 DEF Submit, QueueTyped
  <2>4. CallsTyped'
    BY <1>4, <2>1 DEF Submit, CallsTyped, callVars, Calling
  <2>5. RegistryTyped' /\ LogTyped'
    BY <1>4 DEF Submit, RegistryTyped, LogTyped, registry, logVars
  <2> QED
    BY <2>3, <2>4, <2>5
<1>5. CASE ReturnFromMain(c)
  <2>1. CallsTyped'
    BY <1>5 DEF ReturnFromMain, CallsTyped, callVars, Calling
  <2>2. RegistryTyped' /\ QueueTyped' /\ LogTyped'
    BY <1>5 DEF ReturnFromMain, RegistryTyped, QueueTyped, LogTyped, registry, logVars, mainVars
  <2> QED
    BY <2>1, <2>2
<1>6. CASE TimeoutMain(c)
  <2>1. CallsTyped'
    BY <1>6 DEF TimeoutMain, CallsTyped, Calling, Texts
  <2>2. RegistryTyped' /\ QueueTyped' /\ LogTyped'
    BY <1>6 DEF TimeoutMain, RegistryTyped, QueueTyped, LogTyped, registry, logVars, mainVars
  <2> QED
    BY <2>1, <2>2
<1>7. CASE Count(c)
  <2>1. tool[c] \in Tools
    BY <1>7 DEF Count, CallsTyped, Calling
  <2>2. CallsTyped'
    BY <1>7 DEF Count, CallsTyped, callVars, Calling
  <2>3. RegistryTyped' /\ QueueTyped' /\ LogTyped'
    BY <1>7, <2>1 DEF Count, RegistryTyped, QueueTyped, LogTyped, logVars, mainVars
  <2> QED
    BY <2>2, <2>3
<1>8. CASE Finish(c)
  <2>1. Entry(tool[c], IF error_out[c] # "none" THEN "error" ELSE "ok") \in Entries
    BY DEF Entry, Entries, CallsTyped
  <2>2. LogTyped'
    BY <1>8, <2>1, LogKeepsType DEF Finish
  <2>3. CallsTyped'
    <3>1. PICK told \in [kind : Replies, ownId : BOOLEAN] :
             reply' = [reply EXCEPT ![c] = [kind |-> told.kind, ownId |-> told.ownId]]
      <4>1. ReplyTo(result_out[c], error_out[c]) \in [kind : Replies, ownId : BOOLEAN]
        BY ReplyToTyped DEF CallsTyped
      <4> QED
        BY <1>8, <4>1 DEF Finish, Answer
    <3>2. pc' = [pc EXCEPT ![c] = "idle"] /\ FreshFrame(c) /\ UNCHANGED <<tool, nreq, seen>>
      BY <1>8 DEF Finish, Answer
    <3> QED
      BY <3>1, <3>2, FreshFrameTyped DEF CallsTyped, Calling
  <2>4. RegistryTyped' /\ QueueTyped'
    BY <1>8 DEF Finish, RegistryTyped, QueueTyped, registry, mainVars
  <2> QED
    BY <2>2, <2>3, <2>4
<1> QED
  BY <1>1, <1>2, <1>3, <1>4, <1>5, <1>6, <1>7, <1>8 DEF Call

\* The head of the main thread's queue and what stays of it.
LEMMA QueueHead ==
  ASSUME TypeInv, mainq # <<>>
  PROVE  /\ Head(mainq) \in Handlers /\ Head(mainq) = mainq[1] /\ 1 \in DOMAIN mainq
         /\ Tail(mainq) \in Seq(Handlers)
  BY DEF TypeInv, QueueTyped

LEMMA MainTyped ==
  ASSUME TypeInv, Main
  PROVE  TypeInv'
<1> USE DEF TypeInv
<1>1. CASE ThrowOnMain
  BY <1>1 DEF ThrowOnMain, RegistryTyped, LogTyped, CallsTyped, QueueTyped,
     registry, logVars, callVars, mainVars
<1>2. ASSUME NEW out \in Outcomes, RunOnMain(out) PROVE TypeInv'
  <2>1. Head(mainq) \in Handlers /\ Tail(mainq) \in Seq(Handlers)
    BY <1>2, QueueHead DEF RunOnMain, Pop
  <2>2. /\ Head(mainq).client \in Clients /\ Head(mainq).tool \in Tools
        /\ Head(mainq).nreq \in Nat
    BY <2>1 DEF Handlers
  <2>3. out \in AllOutcomes /\ out.error \in Errors /\ out.result \in Texts
    BY ToolsAssumption DEF AllOutcomes
  <2>4. error_out' \in [Clients -> Errors] /\ outcome' \in [Clients -> AllOutcomes]
    BY <1>2, <2>2, <2>3 DEF RunOnMain, Outcome, CallsTyped
  <2>5. UNCHANGED <<pc, tool, nreq, result_out, returned, reply, seen, disabled, counts, logVars>>
    BY <1>2 DEF RunOnMain, Pop, registry
  <2>6. CallsTyped'
    BY <2>4, <2>5 DEF CallsTyped
  <2>7. RegistryTyped' /\ LogTyped'
    BY <1>2, <2>2, <2>5 DEF RunOnMain, Pop, RegistryTyped, LogTyped, registry, logVars
  <2>8. QueueTyped'
    BY <1>2, <2>1, <2>2, <2>3 DEF RunOnMain, Pop, Ran, QueueTyped, Tasks
  <2> QED
    BY <2>6, <2>7, <2>8
<1>3. CASE StoreOnMain
  <2>1. PICK e \in running :
          /\ \/ result_out' = [result_out EXCEPT ![e.client] = e.result]
             \/ UNCHANGED result_out
          /\ \/ returned' = [returned EXCEPT ![e.client] = TRUE]
             \/ UNCHANGED returned
    BY <1>3 DEF StoreOnMain
  <2>2. e.client \in Clients /\ e.result \in Texts
    BY DEF QueueTyped, Tasks
  <2>3. CallsTyped'
    BY <1>3, <2>1, <2>2 DEF StoreOnMain, CallsTyped
  <2>4. RegistryTyped' /\ QueueTyped' /\ LogTyped'
    BY <1>3 DEF StoreOnMain, RegistryTyped, QueueTyped, LogTyped, registry, logVars
  <2> QED
    BY <2>3, <2>4
<1> QED
  BY <1>1, <1>2, <1>3 DEF Main

\* Switching tools sets disabled and touches seen; nothing else of a call moves.
LEMMA PanelCases ==
  ASSUME TypeInv, Panel
  PROVE  /\ UNCHANGED <<alive, counts, pc, callVars, nreq, mainVars, reply, runs, gaveUp>>
         /\ \/ disabled' \in SUBSET Tools /\ Switch(disabled') /\ UNCHANGED logVars
            \/ ClearLogs
<1>1. ASSUME NEW n \in Names, NEW b \in BOOLEAN, SetToolEnabled(n, b)
      PROVE  /\ UNCHANGED <<alive, counts, pc, callVars, nreq, mainVars, reply, runs, gaveUp>>
             /\ disabled' \in SUBSET Tools /\ Switch(disabled') /\ UNCHANGED logVars
  BY <1>1 DEF SetToolEnabled, Switch, TypeInv, RegistryTyped
<1>2. CASE EnableAllTools
  BY <1>2 DEF EnableAllTools, Switch
<1>3. CASE DisableAllTools
  BY <1>3 DEF DisableAllTools, Switch
<1>4. CASE ClearLogs
  BY <1>4 DEF ClearLogs, registry
<1> QED
  BY <1>1, <1>2, <1>3, <1>4 DEF Panel

LEMMA PanelTyped ==
  ASSUME TypeInv, Panel
  PROVE  TypeInv'
<1> USE DEF TypeInv
<1>1. UNCHANGED <<alive, counts, pc, callVars, nreq, mainVars, reply, runs, gaveUp>>
  BY PanelCases
<1>2. CASE ClearLogs
  BY <1>1, <1>2 DEF ClearLogs, RegistryTyped, LogTyped, CallsTyped, QueueTyped, registry,
     mainVars, callVars
<1>3. CASE disabled' \in SUBSET Tools /\ Switch(disabled') /\ UNCHANGED logVars
  <2>1. CallsTyped'
    BY <1>1, <1>3 DEF CallsTyped, Switch, callVars
  <2> QED
    BY <1>1, <1>3, <2>1 DEF RegistryTyped, LogTyped, QueueTyped, logVars, mainVars
<1> QED
  BY <1>2, <1>3, PanelCases

LEMMA TypeStep == TypeInv /\ [Next]_vars => TypeInv'
<1> SUFFICES ASSUME TypeInv, [Next]_vars PROVE TypeInv'
  OBVIOUS
<1>1. CASE UNCHANGED vars
  BY <1>1 DEF vars, registry, logVars, callVars, mainVars, TypeInv, RegistryTyped, LogTyped,
     CallsTyped, QueueTyped
<1> QED
  BY <1>1, PanelTyped, MainTyped, ReceiveTyped, CallTyped DEF Next

\* Every variable has its type, and a call in flight names a registered tool.
THEOREM ToolCallsTyped == Spec => []TypeInv
  BY InitTyped, TypeStep, PTL DEF Spec
----------------------------------------------------------------------------
(* The panel's switch                                                      *)

\* What a call in flight has seen of its tool includes its present state.
SeesPresent == \A c \in Clients : pc[c] \in Calling => State(tool[c]) \in seen[c]
SwitchInv == SeesPresent /\ SwitchRespected

\* A step that leaves disabled alone and of the calls only moves c keeps the
\* other calls' part.
LEMMA SwitchOthers ==
  ASSUME TypeInv, SwitchInv, NEW c \in Clients, disabled' = disabled,
         \A d \in Clients \ {c} : /\ pc'[d] = pc[d] /\ tool'[d] = tool[d]
                                  /\ seen'[d] = seen[d] /\ reply'[d] = reply[d],
         pc'[c] \in Calling => State(tool'[c]) \in seen'[c],
         pc'[c] \in {"direct", "submit", "wait", "count", "finish"} => "enabled" \in seen'[c],
         pc'[c] = "idle" /\ reply'[c].kind = "refused" => "disabled" \in seen'[c]
  PROVE  SwitchInv'
<1>1. SeesPresent'
  BY DEF SwitchInv, SeesPresent, State
<1>2. SwitchRespected'
  BY DEF SwitchInv, SwitchRespected
<1> QED
  BY <1>1, <1>2 DEF SwitchInv

LEMMA SwitchReceive ==
  ASSUME TypeInv, SwitchInv, NEW c \in Clients, Receive(c)
  PROVE  SwitchInv'
<1>0. CallsTyped
  BY DEF TypeInv
<1>1. ASSUME NEW m \in Methods, HandleOther(c, m) PROVE SwitchInv'
  <2>1. OtherReply(m).kind # "refused"
    BY ToolsAssumption DEF OtherReply, OtherRequests
  <2>2. /\ pc'[c] = "idle" /\ reply'[c].kind = OtherReply(m).kind
        /\ \A d \in Clients \ {c} : pc'[d] = pc[d] /\ reply'[d] = reply[d]
        /\ UNCHANGED <<disabled, tool, seen>>
    BY <1>0, <1>1 DEF HandleOther, Answer, CallsTyped, callVars, registry
  <2> QED
    BY <2>1, <2>2, SwitchOthers DEF Calling
<1>2. ASSUME CallUnknown(c) PROVE SwitchInv'
  <2>1. /\ pc'[c] = "idle" /\ reply'[c].kind = "error"
        /\ \A d \in Clients \ {c} : pc'[d] = pc[d] /\ reply'[d] = reply[d]
        /\ UNCHANGED <<disabled, tool, seen>>
    BY <1>0, <1>2 DEF CallUnknown, Answer, CallsTyped, callVars, registry
  <2> QED
    BY <2>1, SwitchOthers DEF Calling
<1>3. ASSUME NEW t \in Tools, CallKnown(c, t) PROVE SwitchInv'
  <2>1. /\ pc'[c] = "check" /\ tool'[c] = t /\ seen'[c] = {State(t)}
        /\ \A d \in Clients \ {c} : pc'[d] = pc[d] /\ tool'[d] = tool[d] /\ seen'[d] = seen[d]
        /\ UNCHANGED <<disabled, reply>>
    BY <1>0, <1>3 DEF CallKnown, CallsTyped, registry
  <2> QED
    BY <2>1, SwitchOthers
<1> QED
  BY <1>1, <1>2, <1>3 DEF Receive

LEMMA SwitchCall ==
  ASSUME TypeInv, SwitchInv, NEW c \in Clients, Call(c)
  PROVE  SwitchInv'
<1>0. /\ CallsTyped
      /\ pc[c] \in Calling => State(tool[c]) \in seen[c]
      /\ pc[c] \in {"direct", "submit", "wait", "count", "finish"} => "enabled" \in seen[c]
  BY DEF TypeInv, SwitchInv, SeesPresent, SwitchRespected
<1>1. CASE CheckEnabled(c)
  <2>1. pc[c] = "check" /\ State(tool[c]) \in seen[c] /\ UNCHANGED <<disabled, tool, seen>>
    BY <1>0, <1>1 DEF CheckEnabled, Calling, callVars, registry
  <2>2. CASE tool[c] \in disabled
    <3>1. /\ pc'[c] = "idle"
          /\ \A d \in Clients \ {c} : pc'[d] = pc[d] /\ reply'[d] = reply[d]
      BY <1>0, <1>1, <2>2 DEF CheckEnabled, Answer, CallsTyped
    <3> QED
      BY <2>1, <2>2, <3>1, SwitchOthers DEF State, Calling
  <2>3. CASE tool[c] \notin disabled
    <3>1. /\ reply' = reply
          /\ \A d \in Clients \ {c} : pc'[d] = pc[d]
          /\ pc'[c] \in {"submit", "direct"}
      BY <1>0, <1>1, <2>3 DEF CheckEnabled, Ways, CallsTyped
    <3> QED
      BY <2>1, <2>3, <3>1, SwitchOthers DEF State
  <2> QED
    BY <2>2, <2>3
<1>2. CASE ThrowDirect(c) \/ Finish(c)
  <2>0. ReplyTo(result_out[c], error_out[c]).kind \in {"internal", "toolError", "ok"}
    BY <1>0, ReplyToTyped DEF CallsTyped
  <2>1. /\ pc'[c] = "idle" /\ reply'[c].kind \in {"internal", "toolError", "ok"}
        /\ \A d \in Clients \ {c} : pc'[d] = pc[d] /\ reply'[d] = reply[d]
        /\ UNCHANGED <<disabled, tool, seen>>
    BY <1>0, <1>2, <2>0 DEF ThrowDirect, Finish, Answer, CallsTyped, callVars, registry
  <2> QED
    BY <2>1, SwitchOthers DEF Calling
<1>3. CASE Submit(c) \/ ReturnFromMain(c) \/ TimeoutMain(c) \/ Count(c) \/ \E out \in Outcomes : RunDirect(c, out)
  <2>1. /\ pc[c] \in {"direct", "submit", "wait", "count"}
        /\ pc'[c] \in {"wait", "count", "finish"}
        /\ \A d \in Clients \ {c} : pc'[d] = pc[d]
        /\ UNCHANGED <<disabled, tool, seen, reply>>
    BY <1>0, <1>3 DEF Submit, ReturnFromMain, TimeoutMain, Count, RunDirect, CallsTyped,
       callVars, registry
  <2>2. State(tool[c]) \in seen[c] /\ "enabled" \in seen[c]
    BY <1>0, <2>1 DEF Calling
  <2> QED
    BY <2>1, <2>2, SwitchOthers DEF State
<1> QED
  BY <1>1, <1>2, <1>3 DEF Call

LEMMA SwitchPanel ==
  ASSUME TypeInv, SwitchInv, Panel
  PROVE  SwitchInv'
<1>1. UNCHANGED <<pc, tool, reply>>
  BY PanelCases DEF callVars
<1>2. CASE ClearLogs
  BY <1>1, <1>2 DEF ClearLogs, registry, SwitchInv, SeesPresent, SwitchRespected, State
<1>3. CASE Switch(disabled')
  <2>1. \A c \in Clients :
           /\ seen[c] \subseteq seen'[c]
           /\ pc[c] \in Calling =>
                 (IF tool[c] \in disabled' THEN "disabled" ELSE "enabled") \in seen'[c]
    BY <1>3 DEF Switch, InCall, Calling, TypeInv, CallsTyped
  <2>2. SeesPresent'
    BY <1>1, <2>1 DEF SeesPresent, State
  <2>3. SwitchRespected'
    BY <1>1, <2>1 DEF SwitchInv, SwitchRespected
  <2> QED
    BY <2>2, <2>3 DEF SwitchInv
<1> QED
  BY <1>2, <1>3, PanelCases

LEMMA SwitchStep == TypeInv /\ SwitchInv /\ [Next]_vars => SwitchInv'
<1> SUFFICES ASSUME TypeInv, SwitchInv, [Next]_vars PROVE SwitchInv'
  OBVIOUS
<1>1. CASE UNCHANGED vars \/ Main
  BY <1>1 DEF vars, Main, ThrowOnMain, RunOnMain, Pop, StoreOnMain, callVars, registry,
     SwitchInv, SeesPresent, SwitchRespected, State
<1> QED
  BY <1>1, SwitchPanel, SwitchReceive, SwitchCall DEF Next

\* A call goes on only if its tool was enabled, and is refused only if it was
\* disabled, at some moment since the call arrived.
THEOREM SwitchIsRespected == Spec => []SwitchRespected
<1>1. Init => SwitchInv
  BY DEF Init, SwitchInv, SeesPresent, SwitchRespected, Calling
<1>2. SwitchInv => SwitchRespected
  BY DEF SwitchInv
<1> QED
  BY <1>1, <1>2, SwitchStep, ToolCallsTyped, PTL DEF Spec

----------------------------------------------------------------------------
(* The log ring                                                            *)

\* The newest entries of a sequence, at most MaxLogEntries of them.
Window(s) ==
    IF Len(s) > MaxLogEntries THEN SubSeq(s, Len(s) - MaxLogEntries + 1, Len(s)) ELSE s

\* Appending to a full window and dropping its oldest entry gives the window of
\* the longer sequence.
LEMMA WindowMoves ==
  ASSUME NEW S, NEW s \in Seq(S), NEW e \in S, NEW w \in Seq(S), w = Window(s)
  PROVE  Append(IF Len(w) >= MaxLogEntries THEN Tail(w) ELSE w, e) = Window(Append(s, e))
<1> DEFINE n == Len(s)
<1> DEFINE M == MaxLogEntries
<1> DEFINE new == Append(s, e)
<1>1. n \in Nat /\ M \in Nat \ {0} /\ Len(new) = n + 1 /\ new \in Seq(S)
  BY ToolsAssumption
<1>2. /\ \A i \in 1..n : new[i] = s[i]
      /\ new[n + 1] = e
  OBVIOUS
<1> HIDE DEF new
<1>3. CASE n < M
  <2>1. w = s /\ Len(w) < M
    BY <1>1, <1>3 DEF Window
  <2>2. Window(new) = new
    BY <1>1, <1>3 DEF Window
  <2>3. Append(s, e) = new
    BY DEF new
  <2> QED
    BY <1>1, <2>1, <2>2, <2>3
<1>4. CASE n >= M
  <2>1. w = SubSeq(s, n - M + 1, n)
    <3>1. n = M => s = SubSeq(s, 1, n)
      BY <1>1
    <3> QED
      BY <1>1, <1>4, <3>1 DEF Window
  <2>2. Len(w) = M /\ \A i \in 1..M : w[i] = s[n - M + i]
    BY <1>1, <1>4, <2>1
  <2>3. Len(Tail(w)) = M - 1 /\ \A i \in 1..(M - 1) : Tail(w)[i] = s[n - M + i + 1]
    BY <1>1, <2>2
  <2>4. Window(new) = SubSeq(new, n - M + 2, n + 1)
    BY <1>1, <1>4 DEF Window
  <2>5. Len(SubSeq(new, n - M + 2, n + 1)) = M
        /\ \A i \in 1..M : SubSeq(new, n - M + 2, n + 1)[i] = new[n - M + 1 + i]
    BY <1>1, <1>4
  <2>6. Tail(w) \in Seq(S)
    BY <1>1, <2>2
  <2>7. /\ Append(Tail(w), e) \in Seq(S) /\ Len(Append(Tail(w), e)) = M
        /\ \A i \in 1..(M - 1) : Append(Tail(w), e)[i] = Tail(w)[i]
        /\ Append(Tail(w), e)[M] = e
    BY <1>1, <2>3, <2>6
  <2>8. ASSUME NEW i \in 1..M
        PROVE  Append(Tail(w), e)[i] = SubSeq(new, n - M + 2, n + 1)[i]
    <3>1. CASE i = M
      <4>1. M \in 1..M /\ n - M + 1 + M = n + 1
        BY <1>1
      <4>2. SubSeq(new, n - M + 2, n + 1)[M] = new[n + 1]
        BY <2>5, <4>1
      <4> QED
        BY <1>2, <2>7, <3>1, <4>2
    <3>2. CASE i # M
      <4>1. i \in 1..(M - 1) /\ n - M + i + 1 \in 1..n
        BY <1>1, <1>4, <3>2
      <4>2. new[n - M + i + 1] = s[n - M + i + 1]
        BY <1>2, <4>1
      <4>3. n - M + 1 + i = n - M + i + 1
        BY <1>1
      <4> QED
        BY <2>3, <2>5, <2>7, <4>1, <4>2, <4>3
    <3> QED
      BY <3>1, <3>2
  <2>9. SubSeq(new, n - M + 2, n + 1) \in Seq(S)
    BY <1>1, <1>4
  <2>10. Append(Tail(w), e) = SubSeq(new, n - M + 2, n + 1)
    BY <2>5, <2>7, <2>8, <2>9, SeqEqual
  <2>11. Append(s, e) = new
    BY DEF new
  <2>12. (IF Len(w) >= MaxLogEntries THEN Tail(w) ELSE w) = Tail(w)
    BY <1>1, <2>2
  <2> QED
    BY <2>4, <2>10, <2>11, <2>12, Zenon
<1> QED
  BY <1>1, <1>3, <1>4

LEMMA LogStep == TypeInv /\ LogIsNewestWindow /\ [Next]_vars => LogIsNewestWindow'
<1> SUFFICES ASSUME TypeInv, LogIsNewestWindow, [Next]_vars PROVE LogIsNewestWindow'
  OBVIOUS
<1>1. LogTyped /\ CallsTyped /\ logs = Window(logged)
  BY DEF TypeInv, LogIsNewestWindow, Window
<1>2. ASSUME NEW e \in Entries, Log(e) PROVE LogIsNewestWindow'
  <2>1. logs' = Window(logged')
    BY <1>1, <1>2, WindowMoves DEF Log, LogTyped
  <2> QED
    BY <2>1 DEF LogIsNewestWindow, Window
<1>3. CASE UNCHANGED logVars
  BY <1>3 DEF LogIsNewestWindow, logVars
<1>4. CASE ClearLogs
  <2>1. logs' = <<>> /\ logged' = <<>> /\ Len(<<>>) = 0
    BY <1>4 DEF ClearLogs
  <2> QED
    BY <2>1, ToolsAssumption DEF LogIsNewestWindow
<1>5. ASSUME NEW c \in Clients, Receive(c) PROVE LogIsNewestWindow'
  <2>1. Entry(UnknownTool, "ok") \in Entries /\ Entry(UnknownTool, "error") \in Entries
    BY DEF Entry, Entries, Names
  <2> QED
    BY <1>2, <1>3, <1>5, <2>1 DEF Receive, HandleOther, CallUnknown, CallKnown
<1>6. ASSUME NEW c \in Clients, Call(c) PROVE LogIsNewestWindow'
  <2>1. \A st \in {"ok", "error", "skipped"} : Entry(tool[c], st) \in Entries
    BY <1>1 DEF Entry, Entries, CallsTyped
  <2>2. CASE CheckEnabled(c)
    BY <1>2, <1>3, <2>1, <2>2 DEF CheckEnabled
  <2>3. CASE Finish(c)
    <3>1. Log(Entry(tool[c], IF error_out[c] # "none" THEN "error" ELSE "ok"))
      BY <2>3 DEF Finish
    <3> QED
      BY <1>2, <2>1, <3>1
  <2>4. CASE UNCHANGED logVars
    BY <1>3, <2>4
  <2> QED
    BY <1>6, <2>2, <2>3, <2>4 DEF Call, ThrowDirect, Submit, ReturnFromMain, TimeoutMain, Count, RunDirect
<1>7. CASE Main
  BY <1>3, <1>7 DEF Main, ThrowOnMain, RunOnMain, Pop, StoreOnMain
<1>8. CASE Panel
  BY <1>3, <1>4, <1>8, PanelCases
<1>9. CASE UNCHANGED vars
  BY <1>3, <1>9 DEF vars, logVars
<1> QED
  BY <1>5, <1>6, <1>7, <1>8, <1>9 DEF Next

\* The ring always holds the newest entries logged since it was last cleared.
THEOREM RingHoldsNewest == Spec => []LogIsNewestWindow
<1>1. Init => LogIsNewestWindow
  BY ToolsAssumption DEF Init, LogIsNewestWindow
<1> QED
  BY <1>1, LogStep, ToolCallsTyped, PTL DEF Spec
----------------------------------------------------------------------------
(* The calls of threads that never gave up waiting                         *)

Before == {"check", "direct", "submit"}

\* A queued handler is awaited by the call that queued it, and is its only one.
QueuedAwaited ==
    \A i \in DOMAIN mainq : LET c == mainq[i].client IN
        c \notin gaveUp => pc[c] = "wait" /\ ~returned[c] /\ mainq[i].nreq = nreq[c]
QueuedOnce ==
    \A i, j \in DOMAIN mainq :
        mainq[i].client = mainq[j].client /\ mainq[i].client \notin gaveUp => i = j
\* So is an answer the main thread has yet to store, which is the call's own.
RunningAwaited ==
    \A e \in running : LET c == e.client IN
        c \notin gaveUp =>
            /\ pc[c] = "wait" /\ ~returned[c] /\ e.nreq = nreq[c]
            /\ error_out[c] = outcome[c].error /\ e.result = outcome[c].result
            /\ \A i \in DOMAIN mainq : mainq[i].client # c
NotYetReturned == \A c \in Clients : c \notin gaveUp /\ pc[c] \in Before => ~returned[c]
\* Once it returned, a call holds what its own handler left.
OwnOutcome ==
    \A c \in Clients :
        /\ c \notin gaveUp
        /\ pc[c] \in {"count", "finish"} \/ (pc[c] = "wait" /\ returned[c])
        => error_out[c] = outcome[c].error /\ result_out[c] = outcome[c].result

OwnInv == QueuedAwaited /\ QueuedOnce /\ RunningAwaited /\ NotYetReturned /\ OwnOutcome

LEMMA QueuedTyped ==
  ASSUME TypeInv, NEW i \in DOMAIN mainq
  PROVE  mainq[i] \in Handlers /\ mainq[i].client \in Clients /\ mainq[i].nreq \in Nat
         /\ mainq[i].tool \in Tools
<1>1. mainq[i] \in Handlers
  BY DEF TypeInv, QueueTyped
<1> QED
  BY <1>1 DEF Handlers

LEMMA RunningTyped ==
  ASSUME TypeInv, NEW e \in running
  PROVE  e.client \in Clients /\ e.result \in Texts
  BY DEF TypeInv, QueueTyped, Tasks

\* A call of which a step changes nothing.
Same(d) ==
    /\ pc'[d] = pc[d] /\ nreq'[d] = nreq[d] /\ returned'[d] = returned[d]
    /\ error_out'[d] = error_out[d] /\ result_out'[d] = result_out[d]
    /\ outcome'[d] = outcome[d]

\* A step of client c that neither waits for the main thread before it nor
\* after it, or that gives up waiting.
LEMMA OwnOthers ==
  ASSUME TypeInv, OwnInv, UNCHANGED mainVars, gaveUp \subseteq gaveUp', NEW c \in Clients,
         \A d \in Clients \ {c} : Same(d),
         \/ c \in gaveUp'
         \/ /\ pc[c] # "wait" \/ returned[c]
            /\ pc'[c] # "wait"
            /\ pc'[c] \in Before => ~returned'[c]
            /\ pc'[c] \in {"count", "finish"} =>
                  error_out'[c] = outcome'[c].error /\ result_out'[c] = outcome'[c].result
  PROVE  OwnInv'
<1>1. UNCHANGED <<mainq, running>>
  BY DEF mainVars
<1>2. QueuedAwaited'
  <2> SUFFICES ASSUME NEW i \in DOMAIN mainq, mainq[i].client \notin gaveUp'
               PROVE  /\ pc'[mainq[i].client] = "wait" /\ ~returned'[mainq[i].client]
                      /\ mainq[i].nreq = nreq'[mainq[i].client]
    BY <1>1 DEF QueuedAwaited
  <2>1. /\ mainq[i].client \in Clients /\ mainq[i].client \notin gaveUp
        /\ pc[mainq[i].client] = "wait" /\ ~returned[mainq[i].client]
        /\ mainq[i].nreq = nreq[mainq[i].client]
    BY QueuedTyped DEF OwnInv, QueuedAwaited
  <2>2. mainq[i].client # c
    BY <2>1
  <2> QED
    BY <2>1, <2>2 DEF Same
<1>3. QueuedOnce'
  BY <1>1 DEF OwnInv, QueuedOnce
<1>4. RunningAwaited'
  <2> SUFFICES ASSUME NEW e \in running, e.client \notin gaveUp'
               PROVE  /\ pc'[e.client] = "wait" /\ ~returned'[e.client]
                      /\ e.nreq = nreq'[e.client]
                      /\ error_out'[e.client] = outcome'[e.client].error
                      /\ e.result = outcome'[e.client].result
                      /\ \A i \in DOMAIN mainq : mainq[i].client # e.client
    BY <1>1 DEF RunningAwaited
  <2>1. /\ e.client \in Clients /\ e.client \notin gaveUp
        /\ pc[e.client] = "wait" /\ ~returned[e.client] /\ e.nreq = nreq[e.client]
        /\ error_out[e.client] = outcome[e.client].error
        /\ e.result = outcome[e.client].result
        /\ \A i \in DOMAIN mainq : mainq[i].client # e.client
    BY RunningTyped DEF OwnInv, RunningAwaited
  <2>2. e.client # c
    BY <2>1
  <2> QED
    BY <2>1, <2>2 DEF Same
<1>5. NotYetReturned'
  BY DEF OwnInv, NotYetReturned, Same
<1>6. OwnOutcome'
  <2> SUFFICES ASSUME NEW d \in Clients, d \notin gaveUp',
                      pc'[d] \in {"count", "finish"} \/ (pc'[d] = "wait" /\ returned'[d])
               PROVE  error_out'[d] = outcome'[d].error /\ result_out'[d] = outcome'[d].result
    BY DEF OwnOutcome
  <2>1. CASE d = c
    BY <2>1
  <2>2. CASE d # c
    BY <2>2 DEF OwnInv, OwnOutcome, Same
  <2> QED
    BY <2>1, <2>2
<1> QED
  BY <1>2, <1>3, <1>4, <1>5, <1>6 DEF OwnInv

LEMMA OwnReceive ==
  ASSUME TypeInv, OwnInv, NEW c \in Clients, Receive(c)
  PROVE  OwnInv'
<1>1. CallsTyped
  BY DEF TypeInv
<1>2. pc[c] = "idle" /\ UNCHANGED <<mainVars, gaveUp>> /\ \A d \in Clients \ {c} : nreq'[d] = nreq[d]
  BY <1>1 DEF Receive, HandleOther, CallUnknown, CallKnown, Arrives, CallsTyped
<1>3. CASE \E t \in Tools : CallKnown(c, t)
  <2>1. /\ pc'[c] = "check" /\ ~returned'[c]
        /\ \A d \in Clients \ {c} : Same(d)
    BY <1>1, <1>2, <1>3 DEF CallKnown, FreshFrame, CallsTyped, Same
  <2> QED
    BY <1>2, <2>1, OwnOthers
<1>4. CASE CallUnknown(c) \/ \E m \in Methods : HandleOther(c, m)
  <2>1. /\ pc'[c] = "idle"
        /\ \A d \in Clients \ {c} : Same(d)
    BY <1>1, <1>2, <1>4 DEF CallUnknown, HandleOther, Answer, CallsTyped, callVars, Same
  <2> QED
    BY <1>2, <2>1, OwnOthers DEF Before
<1> QED
  BY <1>3, <1>4 DEF Receive

LEMMA OwnSubmit ==
  ASSUME TypeInv, OwnInv, NEW c \in Clients, Submit(c)
  PROVE  OwnInv'
<1>0. PICK e, n : e = [client |-> c, nreq |-> nreq[c], tool |-> tool[c]] /\ n = Len(mainq)
  OBVIOUS
<1>1. CallsTyped
  BY DEF TypeInv
<1>2. /\ pc[c] = "submit" /\ pc'[c] = "wait"
      /\ UNCHANGED <<nreq, returned, error_out, result_out, outcome, running, gaveUp>>
      /\ \A d \in Clients \ {c} : pc'[d] = pc[d]
      /\ mainq' = Append(mainq, e)
  BY <1>0, <1>1 DEF Submit, CallsTyped, callVars
<1>3. /\ n \in Nat /\ DOMAIN mainq = 1..n /\ DOMAIN mainq' = 1..(n + 1)
      /\ \A i \in 1..n : mainq'[i] = mainq[i]
      /\ mainq'[n + 1] = e
  BY <1>0, <1>2 DEF TypeInv, QueueTyped
<1>4. e.client = c /\ e.nreq = nreq[c]
  BY <1>0
<1>5. \A i \in 1..(n + 1) : i \in 1..n \/ i = n + 1
  BY <1>3
<1>6. c \notin gaveUp => ~returned[c]
  BY <1>2 DEF OwnInv, NotYetReturned, Before
\* Nothing of c is queued or running yet.
<1>7. c \notin gaveUp => \A i \in 1..n : mainq[i].client # c
  BY <1>2, <1>3 DEF OwnInv, QueuedAwaited
<1>8. c \notin gaveUp => \A x \in running : x.client # c
  BY <1>2 DEF OwnInv, RunningAwaited
<1>9. QueuedAwaited'
  <2> SUFFICES ASSUME NEW i \in 1..(n + 1), mainq'[i].client \notin gaveUp
               PROVE  /\ pc'[mainq'[i].client] = "wait" /\ ~returned[mainq'[i].client]
                      /\ mainq'[i].nreq = nreq[mainq'[i].client]
    BY <1>2, <1>3 DEF QueuedAwaited
  <2>1. CASE i = n + 1
    BY <1>2, <1>3, <1>4, <1>6, <2>1
  <2>2. CASE i \in 1..n
    <3>1. mainq'[i] = mainq[i] /\ mainq[i].client \in Clients /\ mainq[i].client # c
      BY <1>3, <1>7, <2>2, QueuedTyped
    <3> QED
      BY <1>2, <1>3, <2>2, <3>1 DEF OwnInv, QueuedAwaited
  <2> QED
    BY <1>5, <2>1, <2>2
<1>10. QueuedOnce'
  <2> SUFFICES ASSUME NEW i \in 1..(n + 1), NEW j \in 1..(n + 1),
                      mainq'[i].client = mainq'[j].client, mainq'[i].client \notin gaveUp
               PROVE  i = j
    BY <1>2, <1>3 DEF QueuedOnce
  <2>1. CASE i \in 1..n /\ j \in 1..n
    BY <1>3, <2>1 DEF OwnInv, QueuedOnce
  <2>2. CASE i = n + 1 \/ j = n + 1
    BY <1>3, <1>4, <1>5, <1>7, <2>2
  <2> QED
    BY <1>5, <2>1, <2>2
<1>11. RunningAwaited'
  <2> SUFFICES ASSUME NEW x \in running, x.client \notin gaveUp
               PROVE  /\ pc'[x.client] = "wait" /\ ~returned[x.client]
                      /\ x.nreq = nreq[x.client]
                      /\ error_out[x.client] = outcome[x.client].error
                      /\ x.result = outcome[x.client].result
                      /\ \A i \in 1..(n + 1) : mainq'[i].client # x.client
    BY <1>2, <1>3 DEF RunningAwaited
  <2>1. x.client \in Clients /\ x.client # c
    BY <1>8, RunningTyped
  <2>2. \A i \in 1..n : mainq'[i].client # x.client
    BY <1>3 DEF OwnInv, RunningAwaited
  <2> QED
    BY <1>2, <1>3, <1>4, <1>5, <2>1, <2>2 DEF OwnInv, RunningAwaited
<1>12. NotYetReturned' /\ OwnOutcome'
  BY <1>2, <1>6 DEF OwnInv, NotYetReturned, OwnOutcome, Before
<1> QED
  BY <1>9, <1>10, <1>11, <1>12 DEF OwnInv

LEMMA OwnCall ==
  ASSUME TypeInv, OwnInv, NEW c \in Clients, Call(c)
  PROVE  OwnInv'
<1>1. CallsTyped
  BY DEF TypeInv
<1>2. /\ c \notin gaveUp /\ pc[c] \in Before => ~returned[c]
      /\ c \notin gaveUp /\ (pc[c] = "count" \/ (pc[c] = "wait" /\ returned[c]))
            => error_out[c] = outcome[c].error /\ result_out[c] = outcome[c].result
  BY DEF OwnInv, NotYetReturned, OwnOutcome
<1>3. CASE CheckEnabled(c)
  <2>1. PICK label \in {"idle", "submit", "direct"} : pc' = [pc EXCEPT ![c] = label]
    BY <1>3 DEF CheckEnabled, Answer, Ways
  <2>2. /\ pc[c] = "check" /\ pc'[c] \in {"idle", "submit", "direct"}
        /\ returned' = returned /\ UNCHANGED <<mainVars, gaveUp>>
        /\ \A d \in Clients \ {c} : Same(d)
    BY <1>1, <1>3, <2>1 DEF CheckEnabled, CallsTyped, callVars, Same
  <2> QED
    BY <1>2, <2>2, OwnOthers DEF Before
<1>4. CASE ThrowDirect(c) \/ Finish(c)
  <2>1. /\ pc[c] # "wait" /\ pc'[c] = "idle" /\ UNCHANGED <<mainVars, gaveUp>>
        /\ \A d \in Clients \ {c} : Same(d)
    BY <1>1, <1>4 DEF ThrowDirect, Finish, FreshFrame, Answer, CallsTyped, callVars, Same
  <2> QED
    BY <2>1, OwnOthers DEF Before
<1>5. ASSUME NEW out \in Outcomes, RunDirect(c, out) PROVE OwnInv'
  <2>1. /\ pc[c] # "wait" /\ pc'[c] = "count" /\ UNCHANGED <<mainVars, gaveUp>>
        /\ error_out'[c] = outcome'[c].error /\ result_out'[c] = outcome'[c].result
        /\ \A d \in Clients \ {c} : Same(d)
    BY <1>1, <1>5 DEF RunDirect, CallsTyped, Same
  <2> QED
    BY <2>1, OwnOthers DEF Before
<1>6. CASE ReturnFromMain(c) \/ Count(c)
  <2>1. /\ pc[c] = "count" \/ (pc[c] = "wait" /\ returned[c])
        /\ pc'[c] \in {"count", "finish"} /\ UNCHANGED <<callVars, mainVars, gaveUp>>
        /\ \A d \in Clients \ {c} : Same(d)
    BY <1>1, <1>6 DEF ReturnFromMain, Count, CallsTyped, callVars, Same
  <2> QED
    BY <1>2, <2>1, OwnOthers DEF Before, callVars
<1>7. CASE TimeoutMain(c)
  <2>1. /\ c \in gaveUp' /\ gaveUp \subseteq gaveUp' /\ UNCHANGED mainVars
        /\ \A d \in Clients \ {c} : Same(d)
    BY <1>1, <1>7 DEF TimeoutMain, CallsTyped, Same
  <2> QED
    BY <2>1, OwnOthers
<1> QED
  BY <1>3, <1>4, <1>5, <1>6, <1>7, OwnSubmit DEF Call

\* What stays of the queue after its head was taken, index by index.
LEMMA QueueRest ==
  ASSUME TypeInv, mainq # <<>>, mainq' = Tail(mainq)
  PROVE  /\ \A i \in DOMAIN mainq' : i + 1 \in DOMAIN mainq \ {1} /\ mainq'[i] = mainq[i + 1]
         /\ \A i \in DOMAIN mainq \ {1} : i - 1 \in DOMAIN mainq' /\ mainq'[i - 1] = mainq[i]
         /\ DOMAIN mainq \subseteq Nat /\ DOMAIN mainq' \subseteq Nat
<1>1. Len(mainq) \in Nat \ {0} /\ DOMAIN mainq = 1..Len(mainq)
  BY DEF TypeInv, QueueTyped
<1>2. /\ DOMAIN mainq' = 1..(Len(mainq) - 1)
      /\ \A i \in 1..(Len(mainq) - 1) : mainq'[i] = mainq[i + 1]
  BY <1>1 DEF TypeInv, QueueTyped
<1> QED
  BY <1>1, <1>2

\* The main thread runs a handler: it was its caller's only queued one.
LEMMA OwnRun ==
  ASSUME TypeInv, OwnInv, NEW out \in Outcomes, RunOnMain(out)
  PROVE  OwnInv'
<1>0. PICK e, k : e = mainq[1] /\ k = e.client
  OBVIOUS
<1>1. /\ mainq # <<>> /\ mainq' = Tail(mainq) /\ UNCHANGED <<pc, nreq, returned, result_out, gaveUp>>
      /\ Head(mainq) = e /\ 1 \in DOMAIN mainq /\ k \in Clients
  BY <1>0, QueueHead, QueuedTyped DEF RunOnMain, Pop
<1>2. /\ \A i \in DOMAIN mainq' : i + 1 \in DOMAIN mainq \ {1} /\ mainq'[i] = mainq[i + 1]
      /\ DOMAIN mainq \subseteq Nat /\ DOMAIN mainq' \subseteq Nat
  BY <1>1, QueueRest
<1>3. \A d \in Clients \ {k} : error_out'[d] = error_out[d] /\ outcome'[d] = outcome[d]
  BY <1>0, <1>1 DEF RunOnMain, Outcome, TypeInv, CallsTyped
<1>4. running' = {[client |-> k, nreq |-> e.nreq, result |-> out.result]}
  BY <1>0, <1>1 DEF RunOnMain, Ran
<1>5. k \notin gaveUp => /\ pc[k] = "wait" /\ ~returned[k] /\ e.nreq = nreq[k]
                        /\ \A i \in DOMAIN mainq' : mainq'[i].client # k
  BY <1>0, <1>1, <1>2 DEF OwnInv, QueuedAwaited, QueuedOnce
<1>6. k \notin gaveUp => error_out'[k] = out.error /\ outcome'[k] = out
  <2>1. k \notin gaveUp => CallLives(e)
    BY <1>0, <1>5 DEF CallLives, InCall
  <2> QED
    BY <1>0, <1>1, <2>1 DEF RunOnMain, Outcome, TypeInv, CallsTyped
<1>7. QueuedAwaited'
  BY <1>1, <1>2 DEF OwnInv, QueuedAwaited
<1>8. QueuedOnce'
  <2> SUFFICES ASSUME NEW i \in DOMAIN mainq', NEW j \in DOMAIN mainq',
                      mainq'[i].client = mainq'[j].client, mainq'[i].client \notin gaveUp
               PROVE  i = j
    BY <1>1 DEF QueuedOnce
  <2>1. i + 1 = j + 1
    BY <1>2 DEF OwnInv, QueuedOnce
  <2> QED
    BY <1>2, <2>1
<1>9. RunningAwaited'
  BY <1>1, <1>4, <1>5, <1>6 DEF RunningAwaited
<1>10. NotYetReturned'
  BY <1>1 DEF OwnInv, NotYetReturned
<1>11. OwnOutcome'
  <2> SUFFICES ASSUME NEW d \in Clients, d \notin gaveUp,
                      pc[d] \in {"count", "finish"} \/ (pc[d] = "wait" /\ returned[d])
               PROVE  error_out'[d] = outcome'[d].error /\ result_out[d] = outcome'[d].result
    BY <1>1 DEF OwnOutcome
  <2>1. d # k
    BY <1>5
  <2> QED
    BY <1>3, <2>1 DEF OwnInv, OwnOutcome
<1> QED
  BY <1>7, <1>8, <1>9, <1>10, <1>11 DEF OwnInv

\* The main thread stores an answer: into its caller's frame, unless that
\* thread gave up.
LEMMA OwnStore ==
  ASSUME TypeInv, OwnInv, StoreOnMain
  PROVE  OwnInv'
<1>1. PICK e \in running :
        /\ \/ result_out' = [result_out EXCEPT ![e.client] = e.result]
           \/ ~WaitLives(e) /\ UNCHANGED result_out
        /\ \/ returned' = [returned EXCEPT ![e.client] = TRUE]
           \/ ~WaitLives(e) /\ UNCHANGED returned
  BY DEF StoreOnMain
<1>2. PICK k : k = e.client
  OBVIOUS
<1>3. /\ UNCHANGED <<pc, nreq, error_out, outcome, mainq, gaveUp>> /\ running' = {}
      /\ k \in Clients
  BY <1>2, RunningTyped DEF StoreOnMain
<1>4. \A d \in Clients \ {k} : result_out'[d] = result_out[d] /\ returned'[d] = returned[d]
  BY <1>1, <1>2 DEF TypeInv, CallsTyped
<1>5. k \notin gaveUp => /\ pc[k] = "wait" /\ e.nreq = nreq[k]
                        /\ error_out[k] = outcome[k].error /\ e.result = outcome[k].result
                        /\ \A i \in DOMAIN mainq : mainq[i].client # k
  BY <1>2 DEF OwnInv, RunningAwaited
<1>6. k \notin gaveUp => result_out'[k] = e.result
  BY <1>1, <1>2, <1>3, <1>5 DEF WaitLives, TypeInv, CallsTyped
<1>7. QueuedAwaited'
  <2> SUFFICES ASSUME NEW i \in DOMAIN mainq, mainq[i].client \notin gaveUp
               PROVE  /\ pc[mainq[i].client] = "wait" /\ ~returned'[mainq[i].client]
                      /\ mainq[i].nreq = nreq[mainq[i].client]
    BY <1>3 DEF QueuedAwaited
  <2>1. mainq[i].client \in Clients /\ mainq[i].client # k
    BY <1>5, QueuedTyped
  <2> QED
    BY <1>4, <2>1 DEF OwnInv, QueuedAwaited
<1>8. QueuedOnce' /\ RunningAwaited'
  BY <1>3 DEF OwnInv, QueuedOnce, RunningAwaited
<1>9. NotYetReturned'
  BY <1>3, <1>4, <1>5 DEF OwnInv, NotYetReturned, Before
<1>10. OwnOutcome'
  BY <1>3, <1>4, <1>5, <1>6 DEF OwnInv, OwnOutcome
<1> QED
  BY <1>7, <1>8, <1>9, <1>10 DEF OwnInv

LEMMA OwnStep == TypeInv /\ OwnInv /\ [Next]_vars => OwnInv'
<1> SUFFICES ASSUME TypeInv, OwnInv, [Next]_vars PROVE OwnInv'
  OBVIOUS
<1>1. CASE UNCHANGED <<pc, nreq, callVars, mainVars, gaveUp>>
  BY <1>1 DEF OwnInv, QueuedAwaited, QueuedOnce, RunningAwaited, NotYetReturned, OwnOutcome,
     callVars, mainVars
<1>2. CASE ThrowOnMain \/ Panel \/ UNCHANGED vars
  <2>1. CASE Panel
    <3>1. UNCHANGED <<pc, nreq, callVars, mainVars, gaveUp>>
      BY <2>1, PanelCases
    <3> QED
      BY <1>1, <3>1
  <2>2. CASE ThrowOnMain
    <3>1. UNCHANGED <<pc, nreq, callVars, mainVars, gaveUp>>
      BY <2>2 DEF ThrowOnMain
    <3> QED
      BY <1>1, <3>1
  <2>3. CASE UNCHANGED vars
    <3>1. UNCHANGED <<pc, nreq, callVars, mainVars, gaveUp>>
      BY <2>3 DEF vars
    <3> QED
      BY <1>1, <3>1
  <2> QED
    BY <1>2, <2>1, <2>2, <2>3
<1> QED
  BY <1>2, OwnReceive, OwnCall, OwnRun, OwnStore DEF Next, Main

LEMMA OwnInit == Init => OwnInv
<1> SUFFICES ASSUME Init PROVE OwnInv
  OBVIOUS
<1>1. mainq = <<>> /\ running = {} /\ \A c \in Clients : pc[c] = "idle"
  BY DEF Init
<1> QED
  BY <1>1 DEF OwnInv, QueuedAwaited, QueuedOnce, RunningAwaited, NotYetReturned, OwnOutcome, Before

----------------------------------------------------------------------------
(* The outcome a reply tells                                               *)

\* A client's call ends by its own last step, which replies from its locals.
LEMMA OutcomeTold ==
  ASSUME TypeInv, OwnInv, [Next]_vars, NEW c \in Clients,
         pc[c] = "finish", pc'[c] = "idle", c \notin gaveUp
  PROVE  reply'[c] = ReplyTo(outcome[c].result, outcome[c].error)
<1>0. CallsTyped
  BY DEF TypeInv
<1>1. UNCHANGED pc => FALSE
  OBVIOUS
<1>2. ~Panel /\ ~Main /\ ~UNCHANGED vars
  BY <1>1, PanelCases DEF Main, ThrowOnMain, StoreOnMain, RunOnMain, Pop, vars
<1>3. PICK d \in Clients : Receive(d) \/ Call(d)
  BY <1>2 DEF Next
<1>4. d = c
  <2>1. \E label : pc' = [pc EXCEPT ![d] = label]
    BY <1>1, <1>3 DEF Receive, HandleOther, CallUnknown, CallKnown, Call, CheckEnabled, ThrowDirect,
       Submit, ReturnFromMain, TimeoutMain, Count, Finish, RunDirect, Answer
  <2> QED
    BY <1>0, <2>1 DEF CallsTyped
<1>5. Finish(c)
  BY <1>3, <1>4 DEF Receive, HandleOther, CallUnknown, CallKnown, Arrives, Call, CheckEnabled,
     ThrowDirect, Submit, ReturnFromMain, TimeoutMain, Count, RunDirect
<1>6. PICK told : told = ReplyTo(result_out[c], error_out[c])
  OBVIOUS
<1>7. told \in [kind : Replies, ownId : BOOLEAN]
  BY <1>0, <1>6, ReplyToTyped DEF CallsTyped
<1>8. reply'[c] = [kind |-> told.kind, ownId |-> told.ownId]
  BY <1>0, <1>5, <1>6 DEF Finish, Answer, CallsTyped
<1>9. reply'[c] = told
  BY <1>7, <1>8
<1>10. error_out[c] = outcome[c].error /\ result_out[c] = outcome[c].result
  BY DEF OwnInv, OwnOutcome
<1> QED
  BY <1>6, <1>9, <1>10

\* A client thread that never gave up waiting is told what its own handler left,
\* and nothing of another call's.
THEOREM RepliesTellOutcome == Spec => ReplyTellsOutcome
<1>1. TypeInv /\ OwnInv /\ [Next]_vars =>
        [\A c \in Clients : pc[c] = "finish" /\ pc'[c] = "idle" /\ c \notin gaveUp =>
            reply'[c] = ReplyTo(outcome[c].result, outcome[c].error)]_vars
  BY OutcomeTold
<1> QED
  BY <1>1, OwnInit, OwnStep, ToolCallsTyped, PTL DEF Spec, ReplyTellsOutcome

----------------------------------------------------------------------------
(* The call counter                                                        *)

\* The handlers of tool t the main thread has yet to run ...
Queued(t) == {i \in DOMAIN mainq : mainq[i].tool = t}
\* ... and the calls of t that are about to be counted.
Uncounted(t) == {c \in Clients : tool[c] = t /\ pc[c] \in {"wait", "count"}}

\* Clients may be infinite; the calls in flight are finitely many.
Balanced(t) ==
    /\ IsFiniteSet(Uncounted(t))
    /\ runs[t] + Cardinality(Queued(t)) = counts[t] + Cardinality(Uncounted(t))
CountInv == \A t \in Tools : Balanced(t)

LEMMA QueuedFinite ==
  ASSUME TypeInv, NEW t
  PROVE  IsFiniteSet(Queued(t)) /\ Cardinality(Queued(t)) \in Nat
<1>1. DOMAIN mainq = 1..Len(mainq) /\ Len(mainq) \in Nat
  BY DEF TypeInv, QueueTyped
<1>2. IsFiniteSet(DOMAIN mainq)
  BY <1>1, FS_Interval
<1>3. IsFiniteSet(Queued(t))
  BY <1>2, FS_Subset DEF Queued
<1> QED
  BY <1>3, FS_CardinalityType

\* A handler is queued as one of its tool's.
LEMMA SubmitQueuesOne ==
  ASSUME TypeInv, NEW c \in Clients, Submit(c), NEW u \in Tools, u = tool[c]
  PROVE  /\ \A t \in Tools : t # u => Queued(t)' = Queued(t)
         /\ Cardinality(Queued(u)') = Cardinality(Queued(u)) + 1
<1>0. PICK e : e = [client |-> c, nreq |-> nreq[c], tool |-> tool[c]]
  OBVIOUS
<1>9. PICK n : n = Len(mainq)
  OBVIOUS
<1>1. /\ n \in Nat /\ DOMAIN mainq = 1..n /\ DOMAIN mainq' = 1..(n + 1)
      /\ \A i \in 1..n : mainq'[i] = mainq[i]
      /\ mainq'[n + 1] = e /\ e.tool = u
  BY <1>0, <1>9 DEF Submit, TypeInv, QueueTyped
<1>2. /\ 1..(n + 1) = (1..n) \cup {n + 1}
      /\ n + 1 \notin 1..n
  BY <1>1
<1>3. \A t \in Tools : t # u => Queued(t)' = Queued(t)
  BY <1>1, <1>2 DEF Queued
<1>4. n + 1 \notin Queued(u) /\ Queued(u)' = Queued(u) \cup {n + 1}
  BY <1>1, <1>2 DEF Queued
<1>5. Cardinality(Queued(u) \cup {n + 1}) = Cardinality(Queued(u)) + 1
  BY <1>4, QueuedFinite, FS_AddElement
<1> QED
  BY <1>3, <1>4, <1>5

\* The handler at the head of the queue leaves it; the others keep their order.
LEMMA RunUnqueues ==
  ASSUME TypeInv, NEW out \in Outcomes, RunOnMain(out), NEW t
  PROVE  Cardinality(Queued(t)') =
           IF 1 \in Queued(t) THEN Cardinality(Queued(t)) - 1 ELSE Cardinality(Queued(t))
<1>1. mainq # <<>> /\ mainq' = Tail(mainq)
  BY DEF RunOnMain, Pop
<1>2. /\ \A i \in DOMAIN mainq' : i + 1 \in DOMAIN mainq \ {1} /\ mainq'[i] = mainq[i + 1]
      /\ \A i \in DOMAIN mainq \ {1} : i - 1 \in DOMAIN mainq' /\ mainq'[i - 1] = mainq[i]
      /\ DOMAIN mainq \subseteq Nat /\ DOMAIN mainq' \subseteq Nat
  BY <1>1, QueueRest
<1> DEFINE S == Queued(t) \ {1}
<1> DEFINE T == Queued(t)'
<1> DEFINE f == [i \in S |-> i - 1]
<1>3. S \subseteq DOMAIN mainq \ {1} /\ T \subseteq DOMAIN mainq'
  BY DEF Queued
<1>4. \A i \in S : i - 1 \in T
  BY <1>2, <1>3 DEF Queued
<1>5. \A j \in T : j + 1 \in S
  BY <1>2, <1>3 DEF Queued
<1>6. IsFiniteSet(Queued(t))
  BY QueuedFinite
<1>7. IsFiniteSet(S) /\ Cardinality(S) =
         IF 1 \in Queued(t) THEN Cardinality(Queued(t)) - 1 ELSE Cardinality(Queued(t))
  BY <1>6, FS_RemoveElement
<1>8. S \subseteq Nat /\ T \subseteq Nat
  BY <1>2, <1>3
<1> HIDE DEF S, T
<1>9. f \in Bijection(S, T)
  <2>1. f \in [S -> T]
    BY <1>4
  <2>2. \A a, b \in S : f[a] = f[b] => a = b
    BY <1>8
  <2>3. \A j \in T : \E a \in S : f[a] = j
    <3>1. ASSUME NEW j \in T PROVE f[j + 1] = j
      BY <1>5, <1>8
    <3> QED
      BY <1>5, <3>1
  <2> QED
    BY <2>1, <2>2, <2>3, Fun_IsBij
<1>10. Cardinality(T) = Cardinality(S)
  BY <1>7, <1>9, FS_Bijection DEF ExistsBijection
<1> QED
  BY <1>7, <1>10 DEF T

\* A tool whose counters and sets do not move stays balanced.
LEMMA BalanceUnmoved ==
  ASSUME NEW t \in Tools, Balanced(t), runs'[t] = runs[t], counts'[t] = counts[t],
         Cardinality(Queued(t)') = Cardinality(Queued(t)), Uncounted(t)' = Uncounted(t)
  PROVE  Balanced(t)'
  BY DEF Balanced

\* A step that moves client c only, from the calls to be counted or to them.
LEMMA UncountedOthers ==
  ASSUME NEW c \in Clients, tool' = tool, NEW u \in Tools, u = tool[c],
         \A d \in Clients \ {c} : pc'[d] = pc[d]
  PROVE  /\ \A t \in Tools : t # u => Uncounted(t)' = Uncounted(t)
         /\ c \in Uncounted(u)' => Uncounted(u)' = Uncounted(u) \cup {c}
         /\ c \notin Uncounted(u)' => Uncounted(u)' = Uncounted(u) \ {c}
  BY DEF Uncounted

LEMMA CountReceive ==
  ASSUME TypeInv, CountInv, NEW c \in Clients, Receive(c)
  PROVE  CountInv'
<1>1. /\ pc[c] = "idle" /\ pc'[c] \in {"idle", "check"}
      /\ UNCHANGED <<mainq, runs, counts>>
      /\ \A d \in Clients \ {c} : pc'[d] = pc[d] /\ tool'[d] = tool[d]
  BY DEF Receive, HandleOther, CallUnknown, CallKnown, Arrives, Answer, TypeInv, CallsTyped,
     callVars, mainVars, registry
<1>2. \A t \in Tools : Queued(t)' = Queued(t) /\ Uncounted(t)' = Uncounted(t)
  BY <1>1 DEF Queued, Uncounted
<1> QED
  BY <1>1, <1>2, BalanceUnmoved DEF CountInv

LEMMA CountCall ==
  ASSUME TypeInv, CountInv, NEW c \in Clients, Call(c)
  PROVE  CountInv'
<1>1. CallsTyped /\ RegistryTyped
  BY DEF TypeInv
<1>2. tool' = tool /\ \A d \in Clients \ {c} : pc'[d] = pc[d]
  <2>1. tool' = tool
    BY DEF Call, CheckEnabled, ThrowDirect, Submit, ReturnFromMain, TimeoutMain, Count, Finish,
       RunDirect, callVars
  <2>2. \E label : pc' = [pc EXCEPT ![c] = label]
    BY DEF Call, CheckEnabled, ThrowDirect, Submit, ReturnFromMain, TimeoutMain, Count, Finish,
       RunDirect, Answer
  <2> QED
    BY <1>1, <2>1, <2>2 DEF CallsTyped
<1>4. pc[c] \in Calling
  BY DEF Call, CheckEnabled, ThrowDirect, Submit, ReturnFromMain, TimeoutMain, Count, Finish,
     RunDirect, Calling
<1>5. PICK u \in Tools : u = tool[c]
  BY <1>1, <1>4 DEF CallsTyped
<1>6. CASE /\ UNCHANGED <<runs, counts, mainq>>
           /\ c \in Uncounted(u)' <=> c \in Uncounted(u)
  <2>1. \A t \in Tools : Queued(t)' = Queued(t)
    BY <1>6 DEF Queued
  <2>2. \A t \in Tools : Uncounted(t)' = Uncounted(t)
    BY <1>2, <1>5, <1>6, UncountedOthers
  <2> QED
    BY <1>5, <1>6, <2>1, <2>2, BalanceUnmoved DEF CountInv
<1>7. CASE CheckEnabled(c) \/ ThrowDirect(c) \/ Finish(c)
  <2>1. PICK label : pc' = [pc EXCEPT ![c] = label] /\ label \notin {"wait", "count"}
    BY <1>7 DEF CheckEnabled, ThrowDirect, Finish, Answer, Ways
  <2>2. /\ pc[c] \notin {"wait", "count"} /\ pc'[c] \notin {"wait", "count"}
        /\ UNCHANGED <<runs, counts, mainq>>
    BY <1>1, <1>7, <2>1 DEF CheckEnabled, ThrowDirect, Finish, CallsTyped, registry, mainVars
  <2> QED
    BY <1>5, <1>6, <2>2 DEF Uncounted
<1>8. CASE ReturnFromMain(c) \/ TimeoutMain(c)
  <2>1. /\ pc[c] = "wait" /\ pc'[c] = "count" /\ UNCHANGED <<runs, counts, mainq>>
    BY <1>1, <1>8 DEF ReturnFromMain, TimeoutMain, CallsTyped, registry, mainVars
  <2> QED
    BY <1>2, <1>5, <1>6, <2>1 DEF Uncounted
<1>9. ASSUME c \notin Uncounted(u), c \in Uncounted(u)', counts' = counts,
             \A t \in Tools \ {u} :
                 runs'[t] = runs[t] /\ Cardinality(Queued(t)') = Cardinality(Queued(t)),
             runs'[u] + Cardinality(Queued(u)') = runs[u] + Cardinality(Queued(u)) + 1
       PROVE  CountInv'
  <2>1. ASSUME NEW t \in Tools, t # u PROVE Balanced(t)'
    BY <1>2, <1>5, <1>9, <2>1, UncountedOthers, BalanceUnmoved DEF CountInv
  <2>2. Uncounted(u)' = Uncounted(u) \cup {c}
    BY <1>2, <1>5, <1>9, UncountedOthers
  <2>3. IsFiniteSet(Uncounted(u))
    BY <1>5 DEF CountInv, Balanced
  <2>4. /\ IsFiniteSet(Uncounted(u)')
        /\ Cardinality(Uncounted(u)') = Cardinality(Uncounted(u)) + 1
    BY <1>5, <1>9, <2>2, <2>3, FS_AddElement
  <2>5. Cardinality(Uncounted(u)) \in Nat /\ Cardinality(Queued(u)) \in Nat
        /\ runs[u] \in Nat /\ counts[u] \in Nat
    BY <1>1, <1>5, <2>3, FS_CardinalityType, QueuedFinite DEF RegistryTyped
  <2>6. runs[u] + Cardinality(Queued(u)) = counts[u] + Cardinality(Uncounted(u))
    BY <1>5 DEF CountInv, Balanced
  <2>7. runs'[u] + Cardinality(Queued(u)') = counts'[u] + Cardinality(Uncounted(u)')
    BY <1>5, <1>9, <2>4, <2>5, <2>6
  <2>8. Balanced(u)'
    BY <1>2, <1>5, <2>4, <2>7 DEF Balanced
  <2> QED
    BY <1>5, <2>1, <2>8, <1>2 DEF CountInv
<1>10. ASSUME NEW out \in Outcomes, RunDirect(c, out) PROVE CountInv'
  <2>1. /\ pc[c] = "direct" /\ pc'[c] = "count" /\ UNCHANGED <<counts, mainq>>
        /\ runs'[u] = runs[u] + 1
        /\ \A t \in Tools \ {u} : runs'[t] = runs[t]
    BY <1>1, <1>5, <1>10 DEF RunDirect, CallsTyped, RegistryTyped, registry, mainVars
  <2>2. \A t : Queued(t)' = Queued(t)
    BY <2>1 DEF Queued
  <2>3. c \notin Uncounted(u) /\ c \in Uncounted(u)'
    BY <1>2, <1>5, <2>1 DEF Uncounted
  <2>4. runs[u] \in Nat /\ Cardinality(Queued(u)) \in Nat
    BY <1>1, <1>5, QueuedFinite DEF RegistryTyped
  <2>5. runs'[u] + Cardinality(Queued(u)') = runs[u] + Cardinality(Queued(u)) + 1
    BY <1>5, <2>1, <2>2, <2>4
  <2> QED
    BY <1>5, <1>9, <2>1, <2>2, <2>3, <2>5
<1>11. CASE Submit(c)
  <2>1. pc[c] = "submit" /\ pc'[c] = "wait" /\ UNCHANGED <<runs, counts>>
    BY <1>1, <1>11 DEF Submit, CallsTyped, registry
  <2>2. c \notin Uncounted(u) /\ c \in Uncounted(u)'
    BY <1>2, <1>5, <2>1 DEF Uncounted
  <2>3. runs[u] \in Nat /\ Cardinality(Queued(u)) \in Nat
    BY <1>1, <1>5, QueuedFinite DEF RegistryTyped
  <2>4. /\ \A t \in Tools : t # u => Queued(t)' = Queued(t)
        /\ Cardinality(Queued(u)') = Cardinality(Queued(u)) + 1
    BY <1>5, <1>11, SubmitQueuesOne
  <2>5. runs'[u] + Cardinality(Queued(u)') = runs[u] + Cardinality(Queued(u)) + 1
    BY <1>5, <2>1, <2>3, <2>4
  <2> QED
    BY <1>5, <1>9, <2>1, <2>2, <2>4, <2>5
<1>12. CASE Count(c)
  <2>1. /\ pc[c] = "count" /\ pc'[c] = "finish" /\ UNCHANGED <<runs, mainq>>
        /\ counts'[u] = counts[u] + 1
        /\ \A t \in Tools \ {u} : counts'[t] = counts[t]
    BY <1>1, <1>5, <1>12 DEF Count, CallsTyped, RegistryTyped, mainVars
  <2>2. \A t : Queued(t)' = Queued(t)
    BY <2>1 DEF Queued
  <2>3. c \in Uncounted(u) /\ c \notin Uncounted(u)'
    BY <1>5, <2>1 DEF Uncounted
  <2>4. ASSUME NEW t \in Tools, t # u PROVE Balanced(t)'
    BY <1>2, <1>5, <2>1, <2>2, <2>4, UncountedOthers, BalanceUnmoved DEF CountInv
  <2>5. Uncounted(u)' = Uncounted(u) \ {c}
    BY <1>2, <1>5, <2>3, UncountedOthers
  <2>6. IsFiniteSet(Uncounted(u))
    BY <1>5 DEF CountInv, Balanced
  <2>7. /\ IsFiniteSet(Uncounted(u)')
        /\ Cardinality(Uncounted(u)') = Cardinality(Uncounted(u)) - 1
    BY <1>5, <2>3, <2>5, <2>6, FS_RemoveElement
  <2>8. Cardinality(Uncounted(u)) \in Nat /\ Cardinality(Queued(u)) \in Nat
        /\ runs[u] \in Nat /\ counts[u] \in Nat
    BY <1>1, <1>5, <2>6, FS_CardinalityType, QueuedFinite DEF RegistryTyped
  <2>9. runs[u] + Cardinality(Queued(u)) = counts[u] + Cardinality(Uncounted(u))
    BY <1>5 DEF CountInv, Balanced
  <2>10. runs'[u] + Cardinality(Queued(u)') = counts'[u] + Cardinality(Uncounted(u)')
    BY <1>5, <2>1, <2>2, <2>7, <2>8, <2>9
  <2>11. Balanced(u)'
    BY <1>2, <1>5, <2>7, <2>10 DEF Balanced
  <2> QED
    BY <1>5, <2>4, <2>11, <1>2 DEF CountInv
<1> QED
  BY <1>7, <1>8, <1>10, <1>11, <1>12 DEF Call

LEMMA CountRun ==
  ASSUME TypeInv, CountInv, NEW out \in Outcomes, RunOnMain(out)
  PROVE  CountInv'
<1>0. PICK e : e = mainq[1]
  OBVIOUS
<1>1. /\ UNCHANGED <<pc, tool, counts>> /\ Head(mainq) = e /\ 1 \in DOMAIN mainq
      /\ e.tool \in Tools
  BY <1>0, QueueHead, QueuedTyped DEF RunOnMain, Pop, registry
<1>2. RegistryTyped
  BY DEF TypeInv
<1>3. /\ runs'[e.tool] = runs[e.tool] + 1
      /\ \A t \in Tools \ {e.tool} : runs'[t] = runs[t]
  BY <1>1, <1>2 DEF RunOnMain, Pop, RegistryTyped
<1>4. \A t \in Tools : 1 \in Queued(t) <=> t = e.tool
  BY <1>0, <1>1 DEF Queued
<1>5. \A t \in Tools : Cardinality(Queued(t)) \in Nat /\ runs[t] \in Nat /\ counts[t] \in Nat
  BY <1>2, QueuedFinite DEF RegistryTyped
<1>6. \A t \in Tools : Cardinality(Queued(t)') =
         IF t = e.tool THEN Cardinality(Queued(t)) - 1 ELSE Cardinality(Queued(t))
  BY <1>4, RunUnqueues
<1>7. \A t \in Tools : Uncounted(t)' = Uncounted(t)
  BY <1>1 DEF Uncounted
<1>8. ASSUME NEW t \in Tools, t # e.tool PROVE Balanced(t)'
  BY <1>1, <1>3, <1>6, <1>7, <1>8, BalanceUnmoved DEF CountInv
<1>9. /\ IsFiniteSet(Uncounted(e.tool)) /\ Cardinality(Uncounted(e.tool)) \in Nat
      /\ runs[e.tool] + Cardinality(Queued(e.tool)) = counts[e.tool] + Cardinality(Uncounted(e.tool))
  BY <1>1, FS_CardinalityType DEF CountInv, Balanced
<1>10. runs'[e.tool] + Cardinality(Queued(e.tool)')
          = counts[e.tool] + Cardinality(Uncounted(e.tool))
  BY <1>1, <1>3, <1>5, <1>6, <1>9
<1>11. ASSUME NEW t \in Tools, t = e.tool PROVE Balanced(t)'
  BY <1>1, <1>7, <1>9, <1>10, <1>11 DEF Balanced
<1> QED
  BY <1>8, <1>11 DEF CountInv

LEMMA CountStep == TypeInv /\ CountInv /\ [Next]_vars => CountInv'
<1> SUFFICES ASSUME TypeInv, CountInv, [Next]_vars PROVE CountInv'
  OBVIOUS
<1>1. CASE UNCHANGED <<pc, tool, mainq, runs, counts>>
  BY <1>1 DEF CountInv, Balanced, Queued, Uncounted
<1>2. CASE ThrowOnMain \/ StoreOnMain \/ Panel \/ UNCHANGED vars
  BY <1>1, <1>2, PanelCases DEF ThrowOnMain, StoreOnMain, vars, callVars, mainVars, registry
<1> QED
  BY <1>2, CountReceive, CountCall, CountRun DEF Next, Main

\* What was counted, plus what is about to be, is what ran plus what the main
\* thread has yet to run; and a thread that never gave up waiting has a queued
\* handler only while it waits for it.
THEOREM CountersMatch == Spec => []CountsMatchRuns
<1>1. Init => CountInv
  <2> SUFFICES ASSUME Init, NEW t \in Tools PROVE Balanced(t)
    BY DEF CountInv
  <2>1. Uncounted(t) = {} /\ Queued(t) = {} /\ runs[t] = 0 /\ counts[t] = 0
    BY DEF Init, Uncounted, Queued
  <2> QED
    BY <2>1, FS_EmptySet DEF Balanced
<1>2. CountInv /\ OwnInv => CountsMatchRuns
  BY DEF CountInv, Balanced, Queued, Uncounted, OwnInv, QueuedAwaited, CountsMatchRuns
<1> QED
  BY <1>1, <1>2, OwnInit, OwnStep, CountStep, ToolCallsTyped, PTL DEF Spec
============================================================================
