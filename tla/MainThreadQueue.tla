-------------------------- MODULE MainThreadQueue --------------------------
(***************************************************************************)
(* MainThreadQueue (src/server/main_thread_queue.cpp): client threads hand *)
(* a handler to Godot's main thread and block, at most 10 s, for its       *)
(* result.  The result, its mutex, its condition variable and its flag are *)
(* locals of invoke_on_main: the queued Task points into the caller's      *)
(* stack frame, which is gone once the caller has timed out.               *)
(*                                                                         *)
(* A worker is a thread stack: a client thread that ends and the next one, *)
(* given the same stack by the runtime, are one worker.  The main thread's *)
(* write through a pointer into a frame that has returned is undefined     *)
(* behaviour; it is a choice between a write nobody sees, a write into the *)
(* frame of the same stack's present call, and (for the lock of the dead   *)
(* mutex) a main thread that never gets the lock.                          *)
(***************************************************************************)
EXTENDS Naturals, Sequences

CONSTANTS
    Workers,      \* client thread stacks
    MaxCalls,     \* bound: invoke_on_main calls made on one stack
    MayTimeout,   \* can a wait outlast its 10 seconds?
    NoResult,     \* the empty std::string a frame's result starts with
    TimedOut      \* the {"error": "Main thread dispatch timed out ..."} text

ASSUME CallsAssumption == MaxCalls \in Nat
ASSUME TimeoutAssumption == MayTimeout \in BOOLEAN

Tasks == [owner : Workers, call : 0..MaxCalls]   \* a task's result is the task itself
Results == Tasks \cup {NoResult, TimedOut}

VARIABLES
    dispatch,   \* s_dispatch_available
    queue,      \* s_queue
    pc,         \* pc[w]: where w is in invoke_on_main
    call,       \* call[w]: number of w's present (or last) call
    frame,      \* frame[w]: done_flag and result of w's present frame
    answer,     \* answer[w]: what w's last finished call returned
    mpc,        \* where the main thread is in process_pending
    task,       \* process_pending's local task
    log,        \* history: the handlers that ran, in order, and where
    expired     \* history: the calls that gave up waiting

vars == <<dispatch, queue, pc, call, frame, answer, mpc, task, log, expired>>
mainVars == <<mpc, task>>

Current(w) == [owner |-> w, call |-> call[w]]

\* The frame a task points into still exists: its owner is in that very call.
InFrame(w) == pc[w] \in {"push", "wait"}
Live(t) == InFrame(t.owner) /\ call[t.owner] = t.call

Ran(t) == \E i \in DOMAIN log : log[i].task = t
GaveUp(w) == \E t \in expired : t.owner = w

Init ==
    /\ dispatch = FALSE
    /\ queue = <<>>
    /\ pc = [w \in Workers |-> "idle"]
    /\ call = [w \in Workers |-> 0]
    /\ frame = [w \in Workers |-> [done |-> FALSE, result |-> NoResult]]
    /\ answer = [w \in Workers |-> NoResult]
    /\ mpc = "idle"
    /\ task \in [owner : Workers, call : {0}]
    /\ log = <<>>
    /\ expired = {}

----------------------------------------------------------------------------
(* set_dispatch_available: TRUE by the bootstrap thread once the dispatch  *)
(* node exists, FALSE by the module's uninitialisation, which the main     *)
(* thread runs (so never inside process_pending).                          *)

SetDispatchAvailable(b) ==
    /\ dispatch # b
    /\ ~b => mpc = "idle"
    /\ dispatch' = b
    /\ UNCHANGED <<queue, pc, call, frame, answer, mainVars, log, expired>>

----------------------------------------------------------------------------
(* invoke_on_main, on the client thread w                                  *)

\* Entry: one read of the flag decides between the direct run and the queue.
Begin(w) ==
    /\ pc[w] = "idle"
    /\ call[w] < MaxCalls
    /\ call' = [call EXCEPT ![w] = @ + 1]
    /\ IF dispatch
       THEN /\ pc' = [pc EXCEPT ![w] = "push"]
            /\ frame' = [frame EXCEPT ![w] = [done |-> FALSE, result |-> NoResult]]
       ELSE /\ pc' = [pc EXCEPT ![w] = "direct"]
            /\ UNCHANGED frame
    /\ UNCHANGED <<dispatch, queue, answer, mainVars, log, expired>>

RunDirect(w) ==
    /\ pc[w] = "direct"
    /\ log' = Append(log, [task |-> Current(w), on |-> "caller"])
    /\ pc' = [pc EXCEPT ![w] = "ran"]
    /\ UNCHANGED <<dispatch, queue, call, frame, answer, mainVars, expired>>

ReturnDirect(w) ==
    /\ pc[w] = "ran"
    /\ answer' = [answer EXCEPT ![w] = Current(w)]
    /\ pc' = [pc EXCEPT ![w] = "idle"]
    /\ UNCHANGED <<dispatch, queue, call, frame, mainVars, log, expired>>

PushCountsAhead(w) ==
    /\ pc[w] = "push"
    /\ queue' = Append(queue, [owner |-> w, call |-> call[w] + 1])
    /\ pc' = [pc EXCEPT ![w] = "wait"]
    /\ UNCHANGED <<dispatch, call, frame, answer, mainVars, log, expired>>

Push(w) ==
    /\ pc[w] = "push"
    /\ queue' = Append(queue, Current(w))
    /\ pc' = [pc EXCEPT ![w] = "wait"]
    /\ UNCHANGED <<dispatch, call, frame, answer, mainVars, log, expired>>

ReturnOnAnyWakeup(w) ==
    /\ pc[w] = "wait"
    /\ answer' = [answer EXCEPT ![w] = frame[w].result]
    /\ pc' = [pc EXCEPT ![w] = "idle"]
    /\ UNCHANGED <<dispatch, queue, call, frame, mainVars, log, expired>>

\* wait_for's predicate holds: at its first test, after a notify, after a
\* spurious wake-up or at the deadline.
Return(w) ==
    /\ pc[w] = "wait"
    /\ frame[w].done
    /\ answer' = [answer EXCEPT ![w] = frame[w].result]
    /\ pc' = [pc EXCEPT ![w] = "idle"]
    /\ UNCHANGED <<dispatch, queue, call, frame, mainVars, log, expired>>

TimeoutNever(w) == FALSE

\* The deadline passed and the predicate is still false; the task stays queued.
Timeout(w) ==
    /\ MayTimeout
    /\ pc[w] = "wait"
    /\ ~frame[w].done
    /\ answer' = [answer EXCEPT ![w] = TimedOut]
    /\ expired' = expired \cup {Current(w)}
    /\ pc' = [pc EXCEPT ![w] = "idle"]
    /\ UNCHANGED <<dispatch, queue, call, frame, mainVars, log>>

Worker(w) ==
    \/ RunDirect(w) \/ ReturnDirect(w)
    \/ Push(w) \/ Return(w) \/ Timeout(w)

----------------------------------------------------------------------------
(* process_pending, on the main thread                                     *)

PopKeepsTask ==
    /\ mpc = "idle"
    /\ queue # <<>>
    /\ task' = Head(queue)
    /\ mpc' = "run"
    /\ UNCHANGED <<dispatch, queue, pc, call, frame, answer, log, expired>>

PopNewest ==
    /\ mpc = "idle"
    /\ queue # <<>>
    /\ task' = queue[Len(queue)]
    /\ queue' = SubSeq(queue, 1, Len(queue) - 1)
    /\ mpc' = "run"
    /\ UNCHANGED <<dispatch, pc, call, frame, answer, log, expired>>

PopAndClear ==
    /\ mpc = "idle"
    /\ queue # <<>>
    /\ task' = Head(queue)
    /\ queue' = <<>>
    /\ mpc' = "run"
    /\ UNCHANGED <<dispatch, pc, call, frame, answer, log, expired>>

RunWithoutStore ==
    /\ mpc = "run"
    /\ log' = Append(log, [task |-> task, on |-> "main"])
    /\ mpc' = "done"
    /\ UNCHANGED <<dispatch, queue, pc, call, frame, answer, task, expired>>

Pop ==
    /\ mpc = "idle"
    /\ queue # <<>>
    /\ task' = Head(queue)
    /\ queue' = Tail(queue)
    /\ mpc' = "run"
    /\ UNCHANGED <<dispatch, pc, call, frame, answer, log, expired>>

Run ==
    /\ mpc = "run"
    /\ log' = Append(log, [task |-> task, on |-> "main"])
    /\ mpc' = "write"
    /\ UNCHANGED <<dispatch, queue, pc, call, frame, answer, task, expired>>

\* What a store through one of the task's pointers may do: f is the frame it
\* would leave behind where it lands.
Store(f) ==
    \/ /\ InFrame(task.owner)       \* its own frame, or the same stack's present one
       /\ frame' = [frame EXCEPT ![task.owner] = f]
    \/ /\ ~Live(task)               \* dead memory
       /\ UNCHANGED frame

WriteResult ==
    /\ mpc = "write"
    /\ Store([frame[task.owner] EXCEPT !.result = task])
    /\ mpc' = "done"
    /\ UNCHANGED <<dispatch, queue, pc, call, answer, task, log, expired>>

SetDone ==
    /\ mpc = "done"
    /\ \/ /\ Store([frame[task.owner] EXCEPT !.done = TRUE])
          /\ mpc' = "notify"
       \/ /\ ~Live(task)            \* the dead mutex is never free again
          /\ mpc' = "hung"
          /\ UNCHANGED frame
    /\ UNCHANGED <<dispatch, queue, pc, call, answer, task, log, expired>>

Notify ==
    /\ mpc = "notify"
    /\ mpc' = "idle"
    /\ UNCHANGED <<dispatch, queue, pc, call, frame, answer, task, log, expired>>

ProcessPending == Pop \/ Run \/ WriteResult \/ SetDone \/ Notify

----------------------------------------------------------------------------

Next ==
    \/ \E b \in BOOLEAN : SetDispatchAvailable(b)
    \/ \E w \in Workers : Begin(w) \/ Worker(w)
    \/ ProcessPending

Spec == Init /\ [][Next]_vars

(* Client threads are scheduled by the operating system and a wait ends at *)
(* its deadline: weak fairness of a call once begun.  The main thread owes *)
(* nothing: a modal dialog or a long import may keep it away.              *)
FairSpec == Spec /\ \A w \in Workers : WF_vars(Worker(w))

(* The editor goes on drawing frames. *)
FramesKeepComing == WF_vars(ProcessPending)

----------------------------------------------------------------------------
(* Properties                                                              *)

\* Every variable has its type; the queue and the main thread hold tasks
\* that were issued.
TypeOK ==
    /\ dispatch \in BOOLEAN
    /\ queue \in Seq(Tasks)
    /\ pc \in [Workers -> {"idle", "direct", "ran", "push", "wait"}]
    /\ call \in [Workers -> 0..MaxCalls]
    /\ frame \in [Workers -> [done : BOOLEAN, result : Results]]
    /\ answer \in [Workers -> Results]
    /\ mpc \in {"idle", "run", "write", "done", "notify", "hung"}
    /\ task \in Tasks
    /\ log \in Seq([task : Tasks, on : {"main", "caller"}])
    /\ expired \in SUBSET Tasks

\* No handler runs twice: not when its caller gave up, not when the flag
\* flips between the caller's read of it and the drain.
AtMostOnce ==
    \A i, j \in DOMAIN log : log[i].task = log[j].task => i = j

\* A caller whose stack has no abandoned call behind it gets the result of
\* its own handler, which has run, and never another call's or the empty
\* initial value.
OwnAnswer ==
    \A w \in Workers :
        pc[w] = "idle" /\ call[w] > 0 /\ ~GaveUp(w) =>
            answer[w] = Current(w) /\ Ran(Current(w))

\* The main thread runs the calls of one stack in the order they were made,
\* the abandoned ones included.
InOrder ==
    \A i, j \in DOMAIN log :
        /\ i < j
        /\ log[i].on = "main" /\ log[j].on = "main"
        /\ log[i].task.owner = log[j].task.owner
        => log[i].task.call < log[j].task.call

\* invoke_on_main always returns, whatever the main thread does.
EveryCallReturns == \A w \in Workers : pc[w] # "idle" ~> pc[w] = "idle"

\* A task that was queued is run in the end if frames keep coming, its caller
\* gone or not, unless the main thread hangs on the mutex of a frame that no
\* longer exists.
QueuedRuns ==
    FramesKeepComing => \A w \in Workers, n \in 1..MaxCalls :
        LET t == [owner |-> w, call |-> n]
        IN  (\E i \in DOMAIN queue : queue[i] = t) ~> (Ran(t) \/ mpc = "hung")

\* While no call of the stack was abandoned, the main thread only ever stores
\* into a frame that still exists: the owner cannot return between the run of
\* its handler and the setting of its flag.
StoresAreLive ==
    mpc \in {"run", "write", "done"} /\ ~GaveUp(task.owner) => Live(task)

(* MainThreadQueue implements HandlerCalls: a call waits from its entry to *)
(* its return, and a handler has run once it is in the log.                *)

Calls == INSTANCE HandlerCalls WITH
    issued  <- call,
    waiting <- {w \in Workers : pc[w] # "idle"},
    ran     <- {log[i].task : i \in DOMAIN log}

\* Seen from the client threads, the queue, the frames and the main thread
\* are at-most-once handler calls that end with their own result or give up.
ImplementsHandlerCalls == Calls!Spec
============================================================================
