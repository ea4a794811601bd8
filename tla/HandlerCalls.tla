---------------------------- MODULE HandlerCalls ----------------------------
(***************************************************************************)
(* What a client thread may rely on when it has a handler run through      *)
(* MainThreadQueue::invoke_on_main, without queue, frames or main thread:  *)
(* a call is issued, its handler runs at most once and at any time after   *)
(* that, and the call ends with the handler's own result or by giving up.  *)
(* A call made on a stack that gave up before may also be answered with    *)
(* nothing, or with the result of an earlier call of that stack: one that  *)
(* was abandoned, or one that returned early for the same reason.          *)
(***************************************************************************)
EXTENDS Naturals

CONSTANTS Workers, MaxCalls, NoResult, TimedOut

Tasks == [owner : Workers, call : 1..MaxCalls]

VARIABLES issued, waiting, ran, expired, answer

vars == <<issued, waiting, ran, expired, answer>>

Current(w) == [owner |-> w, call |-> issued[w]]
GaveUp(w) == \E t \in expired : t.owner = w

Init ==
    /\ issued = [w \in Workers |-> 0]
    /\ waiting = {}
    /\ ran = {}
    /\ expired = {}
    /\ answer = [w \in Workers |-> NoResult]

Issue(w) ==
    /\ w \notin waiting
    /\ issued[w] < MaxCalls
    /\ issued' = [issued EXCEPT ![w] = @ + 1]
    /\ waiting' = waiting \cup {w}
    /\ UNCHANGED <<ran, expired, answer>>

RunHandler(t) ==
    /\ t \notin ran
    /\ t.call <= issued[t.owner]
    /\ ran' = ran \cup {t}
    /\ UNCHANGED <<issued, waiting, expired, answer>>

\* The results a call of w may be answered with.
Allowed(w) ==
    IF GaveUp(w) THEN {NoResult} \cup {t \in ran : t.owner = w}
    ELSE {Current(w)} \cap ran

Answer(w) ==
    /\ w \in waiting
    /\ \E r \in Allowed(w) : answer' = [answer EXCEPT ![w] = r]
    /\ waiting' = waiting \ {w}
    /\ UNCHANGED <<issued, ran, expired>>

GiveUp(w) ==
    /\ w \in waiting
    /\ answer' = [answer EXCEPT ![w] = TimedOut]
    /\ expired' = expired \cup {Current(w)}
    /\ waiting' = waiting \ {w}
    /\ UNCHANGED <<issued, ran>>

Next ==
    \/ \E w \in Workers : Issue(w) \/ Answer(w) \/ GiveUp(w)
    \/ \E t \in Tasks : RunHandler(t)

Spec == Init /\ [][Next]_vars
============================================================================
