----------------------- MODULE MainThreadQueueProofs -----------------------
(***************************************************************************)
(* Theorems about MainThreadQueue, for every set of workers and every      *)
(* bound on their calls.                                                   *)
(***************************************************************************)
EXTENDS MainThreadQueue, TLAPS

----------------------------------------------------------------------------
(* Type correctness                                                        *)

\* Wherever a store of the main thread lands, the frames stay frames.
LEMMA StoreKeepsType ==
  ASSUME TypeOK
  PROVE  /\ Store([frame[task.owner] EXCEPT !.result = task])
              => frame' \in [Workers -> [done : BOOLEAN, result : Results]]
         /\ Store([frame[task.owner] EXCEPT !.done = TRUE])
              => frame' \in [Workers -> [done : BOOLEAN, result : Results]]
<1>1. task.owner \in Workers /\ task \in Results
  BY DEF TypeOK, Tasks, Results
<1>2. frame \in [Workers -> [done : BOOLEAN, result : Results]]
  BY DEF TypeOK
<1>3. frame[task.owner] \in [done : BOOLEAN, result : Results]
  BY <1>1, <1>2
<1>4. /\ [frame[task.owner] EXCEPT !.result = task] \in [done : BOOLEAN, result : Results]
      /\ [frame[task.owner] EXCEPT !.done = TRUE] \in [done : BOOLEAN, result : Results]
  BY <1>1, <1>3
<1> QED
  BY <1>1, <1>2, <1>4 DEF Store

LEMMA InitTyped == ASSUME Init PROVE TypeOK
<1>1. task \in Tasks
  BY CallsAssumption DEF Init, Tasks
<1>2. queue \in Seq(Tasks) /\ log \in Seq([task : Tasks, on : {"main", "caller"}])
  BY DEF Init
<1>3. frame \in [Workers -> [done : BOOLEAN, result : Results]]
  BY DEF Init, Results
<1>4. answer \in [Workers -> Results] /\ expired \in SUBSET Tasks
  BY DEF Init, Results
<1>5. /\ pc \in [Workers -> {"idle", "direct", "ran", "push", "wait"}]
      /\ call \in [Workers -> 0..MaxCalls]
      /\ mpc \in {"idle", "run", "write", "done", "notify", "hung"}
  BY CallsAssumption DEF Init
<1>6. dispatch \in BOOLEAN
  BY Zenon DEF Init
<1> QED
  BY <1>1, <1>2, <1>3, <1>4, <1>5, <1>6, Zenon DEF TypeOK

\* TypeOK is inductive: every variable keeps its type under every step.
THEOREM TypeCorrect == Spec => []TypeOK
<1>1. Init => TypeOK
  BY InitTyped
<1>2. TypeOK /\ [Next]_vars => TypeOK'
  <2> SUFFICES ASSUME TypeOK, [Next]_vars PROVE TypeOK'
    OBVIOUS
  <2> USE CallsAssumption DEF TypeOK
  <2>1. ASSUME NEW b \in BOOLEAN, SetDispatchAvailable(b) PROVE TypeOK'
    <3>1. dispatch' \in BOOLEAN
      BY <2>1, Zenon DEF SetDispatchAvailable
    <3>2. /\ queue' = queue /\ pc' = pc /\ call' = call /\ frame' = frame
          /\ answer' = answer /\ mpc' = mpc /\ task' = task /\ log' = log
          /\ expired' = expired
      BY <2>1 DEF SetDispatchAvailable, mainVars
    <3>3. /\ queue' \in Seq(Tasks)
          /\ pc' \in [Workers -> {"idle", "direct", "ran", "push", "wait"}]
          /\ call' \in [Workers -> 0..MaxCalls]
          /\ frame' \in [Workers -> [done : BOOLEAN, result : Results]]
          /\ answer' \in [Workers -> Results]
          /\ mpc' \in {"idle", "run", "write", "done", "notify", "hung"}
          /\ task' \in Tasks
          /\ log' \in Seq([task : Tasks, on : {"main", "caller"}])
          /\ expired' \in SUBSET Tasks
      BY <3>2
    <3> QED
      BY <3>1, <3>3, Zenon
  <2>2. ASSUME NEW w \in Workers, Begin(w) PROVE TypeOK'
    <3>1. /\ pc' \in [Workers -> {"idle", "direct", "ran", "push", "wait"}]
          /\ frame' \in [Workers -> [done : BOOLEAN, result : Results]]
      <4>1. CASE dispatch
        <5>1. [done |-> FALSE, result |-> NoResult] \in [done : BOOLEAN, result : Results]
          BY DEF Results
        <5>2. /\ pc' = [pc EXCEPT ![w] = "push"]
              /\ frame' = [frame EXCEPT ![w] = [done |-> FALSE, result |-> NoResult]]
          BY <2>2, <4>1 DEF Begin
        <5> QED
          BY <5>1, <5>2
      <4>2. CASE ~dispatch
        BY <2>2, <4>2 DEF Begin
      <4> QED
        BY <4>1, <4>2
    <3>2. call' \in [Workers -> 0..MaxCalls]
      BY <2>2 DEF Begin
    <3>3. /\ queue' = queue /\ answer' = answer /\ mpc' = mpc /\ task' = task
          /\ log' = log /\ expired' = expired /\ dispatch' = dispatch
      BY <2>2 DEF Begin, mainVars
    <3> QED
      BY <3>1, <3>2, <3>3
  <2>3. ASSUME NEW w \in Workers, Worker(w) PROVE TypeOK'
    <3>1. Current(w) \in Tasks
      BY DEF Current, Tasks
    <3>2. CASE RunDirect(w)
      BY <3>1, <3>2 DEF RunDirect, mainVars
    <3>3. CASE ReturnDirect(w)
      BY <3>1, <3>3 DEF ReturnDirect, mainVars, Results
    <3>4. CASE Push(w)
      BY <3>1, <3>4 DEF Push, mainVars
    <3>5. CASE Return(w)
      BY <3>5 DEF Return, mainVars
    <3>6. CASE Timeout(w)
      BY <3>1, <3>6 DEF Timeout, mainVars, Results
    <3> QED
      BY <2>3, <3>2, <3>3, <3>4, <3>5, <3>6 DEF Worker
  <2>4. ASSUME ProcessPending PROVE TypeOK'
    <3>1. CASE Pop
      BY <3>1 DEF Pop
    <3>2. CASE Run
      BY <3>2 DEF Run
    <3>3. CASE WriteResult
      BY <3>3, StoreKeepsType DEF WriteResult
    <3>4. CASE SetDone
      BY <3>4, StoreKeepsType DEF SetDone
    <3>5. CASE Notify
      BY <3>5 DEF Notify
    <3> QED
      BY <2>4, <3>1, <3>2, <3>3, <3>4, <3>5 DEF ProcessPending
  <2>5. CASE UNCHANGED vars
    BY <2>5 DEF vars, mainVars
  <2> QED
    BY <2>1, <2>2, <2>3, <2>4, <2>5 DEF Next
<1> QED
  BY <1>1, <1>2, PTL DEF Spec

----------------------------------------------------------------------------
(* Facts about the elements of a sequence                                  *)

LEMMA Elements ==
  ASSUME NEW S, NEW s \in Seq(S)
  PROVE  \A i \in DOMAIN s : s[i] \in S
  OBVIOUS

LEMMA AppendElements ==
  ASSUME NEW S, NEW s \in Seq(S), NEW e \in S
  PROVE  /\ DOMAIN s = 1..Len(s) /\ Len(s) \in Nat
         /\ DOMAIN Append(s, e) = 1..(Len(s) + 1)
         /\ \A i \in DOMAIN s : Append(s, e)[i] = s[i] /\ s[i] \in S
         /\ Append(s, e)[Len(s) + 1] = e
  OBVIOUS

LEMMA TailElements ==
  ASSUME NEW S, NEW s \in Seq(S), s # <<>>
  PROVE  /\ Head(s) = s[1] /\ 1 \in DOMAIN s
         /\ \A i \in DOMAIN Tail(s) : i + 1 \in DOMAIN s /\ Tail(s)[i] = s[i + 1]
         /\ \A i \in DOMAIN s : i # 1 => i - 1 \in DOMAIN Tail(s)
         /\ DOMAIN s \subseteq Nat
  OBVIOUS

----------------------------------------------------------------------------
(* At most once                                                            *)

InQueue(t) == \E i \in DOMAIN queue : queue[i] = t
Popped(t) == mpc = "run" /\ task = t

\* A task is in one place at a time -- with its caller, in the queue, in the
\* main thread's hands or in the log -- and belongs to a call already made.
QueueDistinct == \A i, j \in DOMAIN queue : queue[i] = queue[j] => i = j
QueuedNotRun == \A i \in DOMAIN queue : ~Ran(queue[i]) /\ ~Popped(queue[i])
PoppedNotRun == mpc = "run" => ~Ran(task)
SubmittedIsNew ==
    \A w \in Workers : pc[w] \in {"direct", "push"} =>
        ~Ran(Current(w)) /\ ~InQueue(Current(w)) /\ ~Popped(Current(w))
TasksIssued ==
    /\ \A i \in DOMAIN queue : queue[i].call <= call[queue[i].owner]
    /\ \A i \in DOMAIN log : log[i].task.call <= call[log[i].task.owner]
    /\ task.call <= call[task.owner]

OnceInv ==
    /\ TypeOK
    /\ QueueDistinct /\ QueuedNotRun /\ PoppedNotRun /\ SubmittedIsNew
    /\ TasksIssued /\ AtMostOnce

\* Running a task adds that task, and nothing else, to those that ran.
LEMMA LogGrows ==
  ASSUME TypeOK, NEW t \in Tasks, NEW on \in {"main", "caller"},
         log' = Append(log, [task |-> t, on |-> on])
  PROVE  /\ \A x : Ran(x)' <=> Ran(x) \/ x = t
         /\ \A i \in DOMAIN log' : \/ i \in DOMAIN log /\ log'[i].task = log[i].task
                                   \/ i \notin DOMAIN log /\ i = Len(log) + 1 /\ log'[i].task = t
<1> DEFINE Entries == [task : Tasks, on : {"main", "caller"}]
<1> DEFINE e == [task |-> t, on |-> on]
<1>1. log \in Seq(Entries) /\ e \in Entries
  BY DEF TypeOK
<1>2. e.task = t
  OBVIOUS
<1> HIDE DEF Entries, e
<1>3. /\ DOMAIN log = 1..Len(log) /\ Len(log) \in Nat
      /\ DOMAIN Append(log, e) = 1..(Len(log) + 1)
      /\ \A i \in DOMAIN log : Append(log, e)[i] = log[i]
      /\ Append(log, e)[Len(log) + 1] = e
  BY <1>1, AppendElements
<1>4. log' = Append(log, e)
  BY DEF e
<1> QED
  BY <1>2, <1>3, <1>4 DEF Ran

LEMMA QueueGrows ==
  ASSUME TypeOK, NEW t \in Tasks, queue' = Append(queue, t)
  PROVE  /\ \A x : InQueue(x)' <=> InQueue(x) \/ x = t
         /\ \A i \in DOMAIN queue' : \/ i \in DOMAIN queue /\ queue'[i] = queue[i]
                                     \/ i \notin DOMAIN queue /\ i = Len(queue) + 1 /\ queue'[i] = t
<1>1. queue \in Seq(Tasks)
  BY DEF TypeOK
<1>2. /\ DOMAIN queue = 1..Len(queue) /\ Len(queue) \in Nat
      /\ DOMAIN Append(queue, t) = 1..(Len(queue) + 1)
      /\ \A i \in DOMAIN queue : Append(queue, t)[i] = queue[i]
      /\ Append(queue, t)[Len(queue) + 1] = t
  BY <1>1, AppendElements
<1> QED
  BY <1>2 DEF InQueue

\* Popping moves the head from the queue into the main thread's hands.
LEMMA QueueShrinks ==
  ASSUME TypeOK, Pop, QueueDistinct
  PROVE  /\ InQueue(task')
         /\ QueueDistinct'
         /\ \A x : InQueue(x)' <=> InQueue(x) /\ x # task'
         /\ \A i \in DOMAIN queue' : InQueue(queue'[i]) /\ queue'[i] # task'
<1>1. queue \in Seq(Tasks) /\ queue # <<>> /\ task' = Head(queue) /\ queue' = Tail(queue)
  BY DEF TypeOK, Pop
<1>2. /\ Head(queue) = queue[1] /\ 1 \in DOMAIN queue
      /\ \A i \in DOMAIN Tail(queue) : i + 1 \in DOMAIN queue /\ Tail(queue)[i] = queue[i + 1]
      /\ \A i \in DOMAIN queue : i # 1 => i - 1 \in DOMAIN Tail(queue)
      /\ DOMAIN queue \subseteq Nat
  BY <1>1, TailElements
<1>3. DOMAIN Tail(queue) \subseteq Nat \ {0}
  BY <1>1
<1>4. \A i \in DOMAIN queue' : InQueue(queue'[i]) /\ queue'[i] # task'
  BY <1>1, <1>2, <1>3 DEF InQueue, QueueDistinct
<1>5. QueueDistinct'
  BY <1>1, <1>2, <1>3 DEF QueueDistinct
<1>6. ASSUME NEW x, InQueue(x), x # task' PROVE InQueue(x)'
  <2>1. PICK i \in DOMAIN queue : queue[i] = x
    BY <1>6 DEF InQueue
  <2>2. i # 1 /\ i - 1 \in DOMAIN Tail(queue)
    BY <1>1, <1>2, <1>6, <2>1
  <2>3. (i - 1) + 1 = i
    BY <1>2
  <2>4. queue'[i - 1] = x
    BY <1>1, <1>2, <2>1, <2>2, <2>3
  <2> QED
    BY <1>1, <2>2, <2>4 DEF InQueue
<1>7. InQueue(task')
  BY <1>1, <1>2 DEF InQueue
<1> QED
  BY <1>4, <1>5, <1>6, <1>7 DEF InQueue

\* A step that leaves the tasks where they are keeps every part of OnceInv.
LEMMA OnceUnmoved ==
  ASSUME OnceInv, TypeOK',
         queue' = queue, log' = log, call' = call, task' = task,
         mpc' = "run" <=> mpc = "run",
         \A w \in Workers : pc'[w] \in {"direct", "push"} => pc[w] \in {"direct", "push"}
  PROVE  OnceInv'
<1> USE DEF OnceInv
<1>1. QueueDistinct' /\ AtMostOnce'
  BY DEF QueueDistinct, AtMostOnce
<1>2. QueuedNotRun' /\ PoppedNotRun'
  BY DEF QueuedNotRun, PoppedNotRun, Ran, Popped
<1>3. SubmittedIsNew'
  BY DEF SubmittedIsNew, Ran, InQueue, Popped, Current
<1>4. TasksIssued'
  BY DEF TasksIssued
<1> QED
  BY <1>1, <1>2, <1>3, <1>4

\* A handler about to run is not in the queue and has not run.
LEMMA OnceRun ==
  ASSUME OnceInv, TypeOK', NEW t \in Tasks, NEW on \in {"main", "caller"},
         log' = Append(log, [task |-> t, on |-> on]),
         ~Ran(t), ~InQueue(t), mpc' = "run" => mpc = "run" /\ task # t,
         t.call <= call[t.owner],
         queue' = queue, call' = call, task' = task,
         \A w \in Workers : pc'[w] \in {"direct", "push"} =>
             pc[w] \in {"direct", "push"} /\ Current(w) # t
  PROVE  OnceInv'
<1> USE DEF OnceInv
<1>1. \A x : Ran(x)' <=> Ran(x) \/ x = t
  BY LogGrows
<1>2. \A i \in DOMAIN log' : \/ i \in DOMAIN log /\ log'[i].task = log[i].task
                             \/ i \notin DOMAIN log /\ i = Len(log) + 1 /\ log'[i].task = t
  BY LogGrows
<1>3. QueueDistinct'
  BY DEF QueueDistinct
<1>4. QueuedNotRun'
  BY <1>1 DEF QueuedNotRun, Popped, InQueue
<1>5. PoppedNotRun'
  BY <1>1 DEF PoppedNotRun
<1>6. SubmittedIsNew'
  BY <1>1 DEF SubmittedIsNew, InQueue, Popped, Current
<1>7. TasksIssued'
  BY <1>2 DEF TasksIssued
<1>8. AtMostOnce'
  <2> SUFFICES ASSUME NEW i \in DOMAIN log', NEW j \in DOMAIN log',
                      log'[i].task = log'[j].task
               PROVE  i = j
    BY DEF AtMostOnce
  <2>1. \A k \in DOMAIN log : log[k].task # t
    BY DEF Ran
  <2> QED
    BY <1>2, <2>1 DEF AtMostOnce
<1> QED
  BY <1>3, <1>4, <1>5, <1>6, <1>7, <1>8

LEMMA OnceStep == OnceInv /\ TypeOK' /\ [Next]_vars => OnceInv'
<1> SUFFICES ASSUME OnceInv, TypeOK', [Next]_vars PROVE OnceInv'
  OBVIOUS
<1>0. TypeOK
  BY DEF OnceInv
<1>1. ASSUME NEW b \in BOOLEAN, SetDispatchAvailable(b) PROVE OnceInv'
  BY <1>1, OnceUnmoved DEF SetDispatchAvailable, mainVars
<1>2. ASSUME NEW w \in Workers, Begin(w) PROVE OnceInv'
  <2>1. /\ queue' = queue /\ log' = log /\ task' = task /\ mpc' = mpc
        /\ call' = [call EXCEPT ![w] = @ + 1]
        /\ \A v \in Workers : v # w => pc'[v] = pc[v]
    BY <1>0, <1>2 DEF Begin, mainVars, TypeOK
  <2>2. \A v \in Workers : call[v] \in Nat /\ call'[v] \in Nat /\ call[v] <= call'[v]
    BY <1>0, <2>1, CallsAssumption DEF TypeOK
  <2>3. call'[w] = call[w] + 1 /\ \A v \in Workers : v # w => call'[v] = call[v]
    BY <1>0, <2>1 DEF TypeOK
  <2>4. /\ \A i \in DOMAIN queue : queue[i] \in Tasks
        /\ \A i \in DOMAIN log : log[i].task \in Tasks
        /\ task \in Tasks
    <3>1. \A i \in DOMAIN log : log[i] \in [task : Tasks, on : {"main", "caller"}]
      <4>1. log \in Seq([task : Tasks, on : {"main", "caller"}])
        BY <1>0 DEF TypeOK
      <4> QED
        BY <4>1, Elements
    <3>2. \A i \in DOMAIN queue : queue[i] \in Tasks
      BY <1>0 DEF TypeOK
    <3> QED
      BY <1>0, <3>1, <3>2 DEF TypeOK
  <2>5. \A t \in Tasks : t.owner \in Workers /\ t.call \in Nat
    BY DEF Tasks
  <2>6. TasksIssued'
    BY <2>1, <2>2, <2>4, <2>5 DEF TasksIssued, OnceInv
  <2>7. SubmittedIsNew'
    <3> SUFFICES ASSUME NEW v \in Workers, pc'[v] \in {"direct", "push"}
                 PROVE  (~Ran(Current(v)) /\ ~InQueue(Current(v)) /\ ~Popped(Current(v)))'
      BY DEF SubmittedIsNew
    <3>1. CASE v = w
      <4>1. \A t \in Tasks : t.owner = w /\ t.call <= call[w] => t # Current(w)'
        BY <2>2, <2>3, <2>5 DEF Current
      <4>2. \A t \in Tasks : t.owner # w => t # Current(w)'
        BY DEF Current
      <4> QED
        BY <2>1, <2>4, <3>1, <4>1, <4>2 DEF OnceInv, TasksIssued, Ran, InQueue, Popped
    <3>2. CASE v # w
      BY <2>1, <2>3, <3>2 DEF OnceInv, SubmittedIsNew, Ran, InQueue, Popped, Current
    <3> QED
      BY <3>1, <3>2
  <2>8. QueueDistinct' /\ QueuedNotRun' /\ PoppedNotRun' /\ AtMostOnce'
    BY <2>1 DEF OnceInv, QueueDistinct, QueuedNotRun, PoppedNotRun, AtMostOnce, Ran, Popped
  <2> QED
    BY <2>6, <2>7, <2>8 DEF OnceInv
<1>3. ASSUME NEW w \in Workers, RunDirect(w) PROVE OnceInv'
  <2>1. Current(w) \in Tasks /\ Current(w).call <= call[Current(w).owner]
    BY <1>0, CallsAssumption DEF TypeOK, Current, Tasks
  <2>2. ~Ran(Current(w)) /\ ~InQueue(Current(w)) /\ ~Popped(Current(w))
    BY <1>3 DEF OnceInv, SubmittedIsNew, RunDirect
  <2>3. /\ queue' = queue /\ call' = call /\ task' = task /\ mpc' = mpc
        /\ log' = Append(log, [task |-> Current(w), on |-> "caller"])
        /\ pc' = [pc EXCEPT ![w] = "ran"]
    BY <1>3 DEF RunDirect, mainVars
  <2>4. \A v \in Workers : pc'[v] \in {"direct", "push"} =>
            pc[v] \in {"direct", "push"} /\ Current(v) # Current(w)
    <3>1. \A v \in Workers : pc'[v] \in {"direct", "push"} => v # w /\ pc'[v] = pc[v]
      BY <1>0, <2>3 DEF TypeOK
    <3> QED
      BY <3>1 DEF Current
  <2>5. mpc' = "run" => mpc = "run" /\ task # Current(w)
    BY <2>2, <2>3 DEF Popped
  <2> QED
    BY <2>1, <2>2, <2>3, <2>4, <2>5, OnceRun
<1>4. ASSUME NEW w \in Workers, Push(w) PROVE OnceInv'
  <2>1. Current(w) \in Tasks /\ Current(w).call <= call[Current(w).owner]
    BY <1>0, CallsAssumption DEF TypeOK, Current, Tasks
  <2>2. ~Ran(Current(w)) /\ ~InQueue(Current(w)) /\ ~Popped(Current(w))
    BY <1>4 DEF OnceInv, SubmittedIsNew, Push
  <2>3. /\ log' = log /\ call' = call /\ task' = task /\ mpc' = mpc
        /\ queue' = Append(queue, Current(w))
        /\ pc' = [pc EXCEPT ![w] = "wait"]
    BY <1>4 DEF Push, mainVars
  <2>4. /\ \A x : InQueue(x)' <=> InQueue(x) \/ x = Current(w)
        /\ \A i \in DOMAIN queue' :
              \/ i \in DOMAIN queue /\ queue'[i] = queue[i]
              \/ i \notin DOMAIN queue /\ i = Len(queue) + 1 /\ queue'[i] = Current(w)
    BY <1>0, <2>1, <2>3, QueueGrows
  <2>5. QueueDistinct'
    BY <2>2, <2>4 DEF QueueDistinct, OnceInv, InQueue
  <2>6. QueuedNotRun'
    BY <2>2, <2>3, <2>4 DEF QueuedNotRun, OnceInv, Ran, Popped
  <2>7. PoppedNotRun' /\ AtMostOnce'
    BY <2>3 DEF PoppedNotRun, AtMostOnce, OnceInv, Ran
  <2>8. TasksIssued'
    BY <2>1, <2>3, <2>4 DEF TasksIssued, OnceInv
  <2>9. SubmittedIsNew'
    <3>1. \A v \in Workers : pc'[v] \in {"direct", "push"} => v # w /\ pc'[v] = pc[v]
      BY <1>0, <2>3 DEF TypeOK
    <3>2. \A v \in Workers : v # w => Current(v) # Current(w)
      BY DEF Current
    <3> QED
      BY <2>3, <2>4, <3>1, <3>2 DEF SubmittedIsNew, OnceInv, Ran, Popped, Current
  <2> QED
    BY <2>5, <2>6, <2>7, <2>8, <2>9 DEF OnceInv
<1>5. ASSUME NEW w \in Workers, ReturnDirect(w) \/ Return(w) \/ Timeout(w) PROVE OnceInv'
  <2>1. /\ queue' = queue /\ log' = log /\ call' = call /\ task' = task /\ mpc' = mpc
        /\ pc' = [pc EXCEPT ![w] = "idle"]
    BY <1>5 DEF ReturnDirect, Return, Timeout, mainVars
  <2>2. \A v \in Workers : pc'[v] \in {"direct", "push"} => pc[v] \in {"direct", "push"}
    BY <1>0, <2>1 DEF TypeOK
  <2> QED
    BY <2>1, <2>2, OnceUnmoved
<1>6. ASSUME Pop PROVE OnceInv'
  <2>1. log' = log /\ call' = call /\ pc' = pc /\ mpc = "idle" /\ mpc' = "run"
    BY <1>6 DEF Pop
  <2>2. /\ InQueue(task')
        /\ QueueDistinct'
        /\ \A x : InQueue(x)' <=> InQueue(x) /\ x # task'
        /\ \A i \in DOMAIN queue' : InQueue(queue'[i]) /\ queue'[i] # task'
    BY <1>0, <1>6, QueueShrinks DEF OnceInv
  <2>3. QueuedNotRun'
    BY <2>1, <2>2 DEF QueuedNotRun, OnceInv, Ran, Popped, InQueue
  <2>4. PoppedNotRun' /\ AtMostOnce'
    BY <2>1, <2>2 DEF PoppedNotRun, QueuedNotRun, AtMostOnce, OnceInv, Ran, InQueue
  <2>5. TasksIssued'
    BY <2>1, <2>2 DEF TasksIssued, OnceInv, InQueue
  <2>6. SubmittedIsNew'
    BY <2>1, <2>2 DEF SubmittedIsNew, OnceInv, Ran, Popped, Current
  <2> QED
    BY <2>2, <2>3, <2>4, <2>5, <2>6 DEF OnceInv
<1>7. ASSUME Run PROVE OnceInv'
  <2>1. /\ queue' = queue /\ call' = call /\ task' = task /\ pc' = pc
        /\ mpc = "run" /\ mpc' = "write"
        /\ log' = Append(log, [task |-> task, on |-> "main"])
    BY <1>7 DEF Run
  <2>2. task \in Tasks /\ task.call <= call[task.owner]
    BY <1>0 DEF TypeOK, OnceInv, TasksIssued
  <2>3. ~Ran(task) /\ ~InQueue(task)
    BY <2>1 DEF OnceInv, PoppedNotRun, QueuedNotRun, Popped, InQueue
  <2>4. \A w \in Workers : pc[w] \in {"direct", "push"} => Current(w) # task
    BY <2>1 DEF OnceInv, SubmittedIsNew, Popped
  <2> QED
    BY <2>1, <2>2, <2>3, <2>4, OnceRun
<1>8. ASSUME WriteResult \/ SetDone \/ Notify PROVE OnceInv'
  BY <1>8, OnceUnmoved DEF WriteResult, SetDone, Notify
<1>9. CASE UNCHANGED vars
  BY <1>9, OnceUnmoved DEF vars
<1> QED
  BY <1>1, <1>2, <1>3, <1>4, <1>5, <1>6, <1>7, <1>8, <1>9
  DEF Next, Worker, ProcessPending

LEMMA InitOnce == Init => OnceInv
<1> SUFFICES ASSUME Init PROVE OnceInv
  OBVIOUS
<1>1. TypeOK
  BY InitTyped
<1>2. queue = <<>> /\ log = <<>> /\ mpc = "idle" /\ \A w \in Workers : pc[w] = "idle"
  BY DEF Init
<1>3. task.call <= call[task.owner]
  BY DEF Init
<1> QED
  BY <1>1, <1>2, <1>3 DEF OnceInv, QueueDistinct, QueuedNotRun, PoppedNotRun,
     SubmittedIsNew, TasksIssued, AtMostOnce

\* No handler ever runs twice, whatever times out and whenever the dispatch
\* flag flips.
THEOREM RunsAtMostOnce == Spec => []AtMostOnce
<1>1. Init => OnceInv
  BY InitOnce
<1>2. OnceInv => AtMostOnce
  BY DEF OnceInv
<1> QED
  BY <1>1, <1>2, OnceStep, TypeCorrect, PTL DEF Spec

----------------------------------------------------------------------------
(* The caller's own result                                                 *)

\* While w has given up on no call, at most its present call is in flight,
\* and it is waiting for it with its flag unset.
InFlight(t) == InQueue(t) \/ (mpc \in {"run", "write", "done"} /\ task = t)
OnlyCurrentInFlight(w) ==
    \A t \in Tasks : t.owner = w /\ InFlight(t) =>
        pc[w] = "wait" /\ t = Current(w) /\ ~frame[w].done
\* Its frame's result is its own once the main thread is about to set the flag.
ResultStored(w) ==
    /\ mpc = "done" /\ task.owner = w => frame[w].result = task
    /\ pc[w] = "push" => ~frame[w].done
    /\ pc[w] = "wait" /\ frame[w].done => frame[w].result = Current(w) /\ Ran(Current(w))
OwnReturn(w) ==
    /\ pc[w] = "ran" => Ran(Current(w))
    /\ pc[w] = "idle" /\ call[w] > 0 => answer[w] = Current(w) /\ Ran(Current(w))
RanBeforeStore == mpc \in {"write", "done"} => Ran(task)

CallerInv ==
    /\ RanBeforeStore
    /\ \A w \in Workers : ~GaveUp(w) => OnlyCurrentInFlight(w) /\ ResultStored(w) /\ OwnReturn(w)

\* A step that moves no task and touches nothing of v's keeps v's part.
LEMMA CallerUnmoved ==
  ASSUME OnceInv, CallerInv, NEW v \in Workers, ~GaveUp(v),
         \A t \in Tasks : t.owner = v /\ InFlight(t)' => InFlight(t),
         mpc' = "done" /\ task'.owner = v => mpc = "done" /\ task' = task,
         pc'[v] = pc[v], call'[v] = call[v], frame'[v] = frame[v], answer'[v] = answer[v],
         \A t \in Tasks : Ran(t) => Ran(t)'
  PROVE  (OnlyCurrentInFlight(v) /\ ResultStored(v) /\ OwnReturn(v))'
<1>1. OnlyCurrentInFlight(v) /\ ResultStored(v) /\ OwnReturn(v)
  BY DEF CallerInv
<1>2. Current(v)' = Current(v) /\ Current(v) \in Tasks
  BY CallsAssumption DEF OnceInv, TypeOK, Current, Tasks
<1>3. OnlyCurrentInFlight(v)'
  BY <1>1, <1>2 DEF OnlyCurrentInFlight
<1>4. ResultStored(v)'
  BY <1>1, <1>2 DEF ResultStored
<1>5. OwnReturn(v)'
  BY <1>1, <1>2 DEF OwnReturn
<1> QED
  BY <1>3, <1>4, <1>5

LEMMA CallerStep == OnceInv /\ CallerInv /\ [Next]_vars => CallerInv'
<1> SUFFICES ASSUME OnceInv, CallerInv, [Next]_vars PROVE CallerInv'
  OBVIOUS
<1> DEFINE Good(v) == OnlyCurrentInFlight(v) /\ ResultStored(v) /\ OwnReturn(v)
<1>0. /\ TypeOK
      /\ \A v \in Workers : Current(v) \in Tasks /\ Current(v).owner = v
  BY CallsAssumption DEF OnceInv, TypeOK, Current, Tasks
<1>1. \A v \in Workers : ~GaveUp(v)' => ~GaveUp(v)
  <2>1. expired \subseteq expired'
    BY DEF Next, Worker, ProcessPending, SetDispatchAvailable, Begin, RunDirect, ReturnDirect,
       Push, Return, Timeout, Pop, Run, WriteResult, SetDone, Notify, vars
  <2> QED
    BY <2>1 DEF GaveUp
<1>2. ASSUME NEW b \in BOOLEAN, SetDispatchAvailable(b) PROVE CallerInv'
  <2>1. /\ queue' = queue /\ pc' = pc /\ call' = call /\ frame' = frame /\ answer' = answer
        /\ mpc' = mpc /\ task' = task /\ log' = log /\ expired' = expired
    BY <1>2 DEF SetDispatchAvailable, mainVars
  <2>2. RanBeforeStore'
    BY <2>1 DEF CallerInv, RanBeforeStore, Ran
  <2>3. \A v \in Workers : ~GaveUp(v) => Good(v)'
    BY <2>1, CallerUnmoved DEF InFlight, InQueue, Ran
  <2> QED
    BY <1>1, <2>2, <2>3 DEF CallerInv
<1>3. ASSUME NEW w \in Workers, Begin(w) PROVE CallerInv'
  <2>1. /\ queue' = queue /\ answer' = answer /\ mpc' = mpc /\ task' = task /\ log' = log
        /\ pc[w] = "idle" /\ pc'[w] \in {"push", "direct"}
        /\ pc'[w] = "push" => ~frame'[w].done
        /\ \A v \in Workers : v # w => pc'[v] = pc[v] /\ call'[v] = call[v] /\ frame'[v] = frame[v]
    BY <1>0, <1>3 DEF Begin, mainVars, TypeOK
  <2>2. RanBeforeStore'
    BY <2>1 DEF CallerInv, RanBeforeStore, Ran
  <2>3. \A v \in Workers : v # w /\ ~GaveUp(v) => Good(v)'
    BY <2>1, CallerUnmoved DEF InFlight, InQueue, Ran
  <2>4. ASSUME ~GaveUp(w) PROVE Good(w)'
    <3>1. \A t \in Tasks : t.owner = w => ~InFlight(t)
      BY <2>1, <2>4 DEF CallerInv, OnlyCurrentInFlight
    <3>2. OnlyCurrentInFlight(w)'
      BY <2>1, <3>1 DEF OnlyCurrentInFlight, InFlight, InQueue
    <3>3. ~(mpc = "done" /\ task.owner = w)
      BY <1>0, <3>1 DEF InFlight, TypeOK
    <3>4. ResultStored(w)' /\ OwnReturn(w)'
      BY <2>1, <3>3 DEF ResultStored, OwnReturn
    <3> QED
      BY <3>2, <3>4
  <2> QED
    BY <1>1, <2>2, <2>3, <2>4 DEF CallerInv
<1>4. ASSUME NEW w \in Workers, RunDirect(w) PROVE CallerInv'
  <2>1. /\ queue' = queue /\ answer' = answer /\ mpc' = mpc /\ task' = task /\ call' = call
        /\ frame' = frame /\ pc[w] = "direct" /\ pc'[w] = "ran"
        /\ \A v \in Workers : v # w => pc'[v] = pc[v]
        /\ log' = Append(log, [task |-> Current(w), on |-> "caller"])
    BY <1>0, <1>4 DEF RunDirect, mainVars, TypeOK
  <2>2. \A x : Ran(x)' <=> Ran(x) \/ x = Current(w)
    BY <1>0, <2>1, LogGrows
  <2>3. RanBeforeStore'
    BY <2>1, <2>2 DEF CallerInv, RanBeforeStore
  <2>4. \A v \in Workers : v # w /\ ~GaveUp(v) => Good(v)'
    BY <2>1, <2>2, CallerUnmoved DEF InFlight, InQueue
  <2>5. ~GaveUp(w) => Good(w)'
    BY <2>1, <2>2 DEF CallerInv, OnlyCurrentInFlight, ResultStored, OwnReturn, InFlight, InQueue, Current
  <2> QED
    BY <1>1, <2>3, <2>4, <2>5 DEF CallerInv
<1>5. ASSUME NEW w \in Workers, ReturnDirect(w) PROVE CallerInv'
  <2>1. /\ queue' = queue /\ mpc' = mpc /\ task' = task /\ call' = call /\ log' = log
        /\ frame' = frame /\ pc[w] = "ran" /\ pc'[w] = "idle" /\ answer'[w] = Current(w)
        /\ \A v \in Workers : v # w => pc'[v] = pc[v] /\ answer'[v] = answer[v]
    BY <1>0, <1>5 DEF ReturnDirect, mainVars, TypeOK
  <2>2. RanBeforeStore'
    BY <2>1 DEF CallerInv, RanBeforeStore, Ran
  <2>3. \A v \in Workers : v # w /\ ~GaveUp(v) => Good(v)'
    BY <2>1, CallerUnmoved DEF InFlight, InQueue, Ran
  <2>4. ~GaveUp(w) => Good(w)'
    BY <2>1 DEF CallerInv, OnlyCurrentInFlight, ResultStored, OwnReturn, InFlight, InQueue, Current, Ran
  <2> QED
    BY <1>1, <2>2, <2>3, <2>4 DEF CallerInv
<1>6. ASSUME NEW w \in Workers, Push(w) PROVE CallerInv'
  <2>1. /\ answer' = answer /\ mpc' = mpc /\ task' = task /\ call' = call /\ log' = log
        /\ frame' = frame /\ pc[w] = "push" /\ pc'[w] = "wait"
        /\ \A v \in Workers : v # w => pc'[v] = pc[v]
        /\ queue' = Append(queue, Current(w))
    BY <1>0, <1>6 DEF Push, mainVars, TypeOK
  <2>2. \A x : InQueue(x)' <=> InQueue(x) \/ x = Current(w)
    BY <1>0, <2>1, QueueGrows
  <2>3. RanBeforeStore'
    BY <2>1 DEF CallerInv, RanBeforeStore, Ran
  <2>4. \A v \in Workers : v # w /\ ~GaveUp(v) => Good(v)'
    BY <1>0, <2>1, <2>2, CallerUnmoved DEF InFlight, Ran
  <2>5. ~GaveUp(w) => Good(w)'
    BY <2>1, <2>2 DEF CallerInv, OnlyCurrentInFlight, ResultStored, OwnReturn, InFlight, Current
  <2> QED
    BY <1>1, <2>3, <2>4, <2>5 DEF CallerInv
<1>7. ASSUME NEW w \in Workers, Return(w) PROVE CallerInv'
  <2>1. /\ queue' = queue /\ mpc' = mpc /\ task' = task /\ call' = call /\ log' = log
        /\ frame' = frame /\ pc[w] = "wait" /\ frame[w].done
        /\ pc'[w] = "idle" /\ answer'[w] = frame[w].result
        /\ \A v \in Workers : v # w => pc'[v] = pc[v] /\ answer'[v] = answer[v]
    BY <1>0, <1>7 DEF Return, mainVars, TypeOK
  <2>2. RanBeforeStore'
    BY <2>1 DEF CallerInv, RanBeforeStore, Ran
  <2>3. \A v \in Workers : v # w /\ ~GaveUp(v) => Good(v)'
    BY <2>1, CallerUnmoved DEF InFlight, InQueue, Ran
  <2>4. ~GaveUp(w) => Good(w)'
    <3> SUFFICES ASSUME ~GaveUp(w) PROVE Good(w)'
      OBVIOUS
    <3>1. OnlyCurrentInFlight(w) /\ ResultStored(w)
      BY DEF CallerInv
    <3>2. \A t \in Tasks : t.owner = w => ~InFlight(t)
      BY <2>1, <3>1 DEF OnlyCurrentInFlight
    <3>3. OnlyCurrentInFlight(w)'
      BY <2>1, <3>2 DEF OnlyCurrentInFlight, InFlight, InQueue
    <3>4. ~(mpc = "done" /\ task.owner = w)
      BY <1>0, <3>2 DEF InFlight, TypeOK
    <3>5. ResultStored(w)'
      BY <2>1, <3>4 DEF ResultStored
    <3>6. OwnReturn(w)'
      BY <2>1, <3>1 DEF OwnReturn, ResultStored, Current, Ran
    <3> QED
      BY <3>3, <3>5, <3>6
  <2> QED
    BY <1>1, <2>2, <2>3, <2>4 DEF CallerInv
<1>8. ASSUME NEW w \in Workers, Timeout(w) PROVE CallerInv'
  <2>1. /\ queue' = queue /\ mpc' = mpc /\ task' = task /\ call' = call /\ log' = log
        /\ frame' = frame /\ expired' = expired \cup {Current(w)}
        /\ \A v \in Workers : v # w => pc'[v] = pc[v] /\ answer'[v] = answer[v]
    BY <1>0, <1>8 DEF Timeout, mainVars, TypeOK
  <2>2. RanBeforeStore'
    BY <2>1 DEF CallerInv, RanBeforeStore, Ran
  <2>3. \A v \in Workers : v # w /\ ~GaveUp(v) => Good(v)'
    BY <2>1, CallerUnmoved DEF InFlight, InQueue, Ran
  <2>4. GaveUp(w)'
    BY <1>0, <2>1 DEF GaveUp
  <2> QED
    BY <1>1, <2>2, <2>3, <2>4 DEF CallerInv
<1>9. ASSUME Pop PROVE CallerInv'
  <2>1. /\ pc' = pc /\ call' = call /\ frame' = frame /\ answer' = answer /\ log' = log
        /\ mpc' = "run"
    BY <1>9 DEF Pop
  <2>2. InQueue(task') /\ \A x : InQueue(x)' <=> InQueue(x) /\ x # task'
    BY <1>0, <1>9, QueueShrinks DEF OnceInv
  <2>3. RanBeforeStore'
    BY <2>1 DEF RanBeforeStore
  <2>4. \A t \in Tasks : InFlight(t)' => InFlight(t)
    BY <2>1, <2>2 DEF InFlight
  <2>5. \A v \in Workers : ~GaveUp(v) => Good(v)'
    BY <2>1, <2>4, CallerUnmoved DEF Ran
  <2> QED
    BY <1>1, <2>3, <2>5 DEF CallerInv
<1>10. ASSUME Run PROVE CallerInv'
  <2>1. /\ queue' = queue /\ pc' = pc /\ call' = call /\ frame' = frame /\ answer' = answer
        /\ task' = task /\ mpc = "run" /\ mpc' = "write"
        /\ log' = Append(log, [task |-> task, on |-> "main"])
    BY <1>10 DEF Run
  <2>2. \A x : Ran(x)' <=> Ran(x) \/ x = task
    BY <1>0, <2>1, LogGrows DEF TypeOK
  <2>3. RanBeforeStore'
    BY <2>1, <2>2 DEF RanBeforeStore
  <2>4. \A v \in Workers : ~GaveUp(v) => Good(v)'
    BY <2>1, <2>2, CallerUnmoved DEF InFlight, InQueue
  <2> QED
    BY <1>1, <2>3, <2>4 DEF CallerInv
<1>11. ASSUME WriteResult \/ SetDone PROVE CallerInv'
  <2>1. /\ queue' = queue /\ pc' = pc /\ call' = call /\ answer' = answer
        /\ task' = task /\ log' = log /\ mpc \in {"write", "done"}
    BY <1>11 DEF WriteResult, SetDone
  <2>2. RanBeforeStore'
    BY <1>11, <2>1 DEF CallerInv, RanBeforeStore, WriteResult, SetDone, Ran
  <2>3. \A v \in Workers : v # task.owner /\ ~GaveUp(v) => Good(v)'
    <3>1. \A v \in Workers : v # task.owner => frame'[v] = frame[v]
      BY <1>0, <1>11 DEF WriteResult, SetDone, Store, TypeOK
    <3>2. \A t \in Tasks : InFlight(t)' => InFlight(t)
      BY <1>11, <2>1 DEF InFlight, InQueue, WriteResult, SetDone
    <3> QED
      BY <2>1, <3>1, <3>2, CallerUnmoved DEF Ran
  <2>4. ASSUME NEW w \in Workers, w = task.owner, ~GaveUp(w) PROVE Good(w)'
    <3>1. w = task.owner /\ task \in Tasks
      BY <1>0, <2>4 DEF TypeOK
    <3>2. OnlyCurrentInFlight(w) /\ ResultStored(w) /\ OwnReturn(w) /\ Ran(task)
      BY <2>1, <2>4, <3>1 DEF CallerInv, RanBeforeStore
    <3>3. pc[w] = "wait" /\ task = Current(w) /\ ~frame[w].done
      BY <2>1, <3>1, <3>2 DEF OnlyCurrentInFlight, InFlight
    <3>4. Live(task) /\ frame[w] \in [done : BOOLEAN, result : Results]
      BY <1>0, <3>1, <3>3 DEF Live, InFrame, Current, TypeOK
    <3>5. \A t \in Tasks : t.owner = w => ~InQueue(t)
      BY <3>2, <3>3 DEF OnlyCurrentInFlight, InFlight, OnceInv, QueuedNotRun, InQueue
    <3>6. CASE WriteResult
      <4>1. frame' = [frame EXCEPT ![w] = [frame[w] EXCEPT !.result = task]] /\ mpc' = "done"
        BY <3>1, <3>4, <3>6 DEF WriteResult, Store
      <4>2. frame'[w] = [frame[w] EXCEPT !.result = task]
        BY <1>0, <3>1, <4>1 DEF TypeOK
      <4>3. frame'[w].result = task /\ frame'[w].done = frame[w].done
        BY <3>4, <4>2
      <4> QED
        BY <2>1, <3>2, <3>3, <3>5, <4>1, <4>3
        DEF OnlyCurrentInFlight, ResultStored, OwnReturn, InFlight, InQueue, Current, Ran
    <3>7. CASE SetDone
      <4>1. /\ frame' = [frame EXCEPT ![w] = [frame[w] EXCEPT !.done = TRUE]]
            /\ mpc' = "notify" /\ mpc = "done"
        BY <3>1, <3>4, <3>7 DEF SetDone, Store
      <4>2. frame'[w] = [frame[w] EXCEPT !.done = TRUE]
        BY <1>0, <3>1, <4>1 DEF TypeOK
      <4>3. frame'[w].done /\ frame'[w].result = frame[w].result
        BY <3>4, <4>2
      <4> QED
        BY <2>1, <3>2, <3>3, <3>5, <4>1, <4>3
        DEF OnlyCurrentInFlight, ResultStored, OwnReturn, InFlight, InQueue, Current, Ran
    <3> QED
      BY <1>11, <3>6, <3>7
  <2>5. \A v \in Workers : ~GaveUp(v) => Good(v)'
    BY <2>3, <2>4
  <2> HIDE DEF Good
  <2>6. \A v \in Workers : ~GaveUp(v)' => Good(v)'
    BY <1>1, <2>5
  <2> QED
    BY <2>2, <2>6 DEF CallerInv, Good
<1>12. ASSUME Notify PROVE CallerInv'
  <2>1. /\ queue' = queue /\ pc' = pc /\ call' = call /\ frame' = frame /\ answer' = answer
        /\ task' = task /\ log' = log /\ mpc' = "idle"
    BY <1>12 DEF Notify
  <2>2. \A v \in Workers : ~GaveUp(v) => Good(v)'
    BY <2>1, CallerUnmoved DEF InFlight, InQueue, Ran
  <2> QED
    BY <1>1, <2>1, <2>2 DEF CallerInv, RanBeforeStore
<1>13. CASE UNCHANGED vars
  <2>1. \A v \in Workers : ~GaveUp(v) => Good(v)'
    BY <1>13, CallerUnmoved DEF vars, InFlight, InQueue, Ran
  <2> QED
    BY <1>1, <1>13, <2>1 DEF vars, CallerInv, RanBeforeStore, Ran
<1> QED
  BY <1>2, <1>3, <1>4, <1>5, <1>6, <1>7, <1>8, <1>9, <1>10, <1>11, <1>12, <1>13
  DEF Next, Worker, ProcessPending

LEMMA CallerInvariant == Spec => [](OnceInv /\ CallerInv)
<1>1. Init => OnceInv /\ CallerInv
  <2> SUFFICES ASSUME Init PROVE CallerInv
    BY InitOnce
  <2> QED
    BY DEF Init, CallerInv, RanBeforeStore, OnlyCurrentInFlight, ResultStored, OwnReturn,
       InFlight, InQueue
<1> QED
  BY <1>1, OnceStep, CallerStep, TypeCorrect, PTL DEF Spec

\* A caller that has abandoned no call returns its own handler's result, after
\* that handler has run.
THEOREM CallerGetsOwnAnswer == Spec => []OwnAnswer
<1>1. CallerInv => OwnAnswer
  BY DEF CallerInv, OwnReturn, OwnAnswer
<1> QED
  BY <1>1, CallerInvariant, PTL

\* The main thread stores into frames that exist, as long as their stack has
\* abandoned no call.
THEOREM StoresHitLiveFrames == Spec => []StoresAreLive
<1>1. OnceInv /\ CallerInv => StoresAreLive
  <2> SUFFICES ASSUME OnceInv, CallerInv, mpc \in {"run", "write", "done"}, ~GaveUp(task.owner)
               PROVE  Live(task)
    BY DEF StoresAreLive
  <2>1. task \in Tasks /\ task.owner \in Workers
    BY DEF OnceInv, TypeOK, Tasks
  <2>2. pc[task.owner] = "wait" /\ task = Current(task.owner)
    BY <2>1 DEF CallerInv, OnlyCurrentInFlight, InFlight
  <2> QED
    BY <2>2 DEF Live, InFrame, Current
<1> QED
  BY <1>1, CallerInvariant, PTL
----------------------------------------------------------------------------
(* The order of one stack's calls                                          *)

\* The tasks of one stack stand in the order of their calls all the way from
\* the log through the main thread's hands to the end of the queue.
QueueInOrder ==
    \A i, j \in DOMAIN queue :
        i < j /\ queue[i].owner = queue[j].owner => queue[i].call < queue[j].call
LoggedBefore(t) ==
    \A i \in DOMAIN log :
        log[i].on = "main" /\ log[i].task.owner = t.owner => log[i].task.call < t.call
LogBeforeQueue == \A j \in DOMAIN queue : LoggedBefore(queue[j])
PoppedBetween ==
    mpc = "run" =>
        /\ LoggedBefore(task)
        /\ \A j \in DOMAIN queue : queue[j].owner = task.owner => task.call < queue[j].call

OrderInv == QueueInOrder /\ LogBeforeQueue /\ PoppedBetween /\ InOrder

\* A step that leaves queue, log and the popped task alone keeps the order.
LEMMA OrderUnmoved ==
  ASSUME OrderInv, queue' = queue, log' = log, task' = task, mpc' = "run" => mpc = "run"
  PROVE  OrderInv'
  BY DEF OrderInv, QueueInOrder, LogBeforeQueue, LoggedBefore, PoppedBetween, InOrder

\* What a new entry does to the log.
LEMMA LogEntries ==
  ASSUME TypeOK, NEW t \in Tasks, NEW on \in {"main", "caller"},
         log' = Append(log, [task |-> t, on |-> on])
  PROVE  /\ DOMAIN log \subseteq Nat
         /\ \A i \in DOMAIN log : i \in DOMAIN log' /\ log'[i] = log[i]
         /\ \A i \in DOMAIN log' :
               \/ i \in DOMAIN log /\ log'[i] = log[i]
               \/ /\ i = Len(log) + 1 /\ log'[i] = [task |-> t, on |-> on]
                  /\ \A j \in DOMAIN log' : j <= i
<1> DEFINE Entries == [task : Tasks, on : {"main", "caller"}]
<1> DEFINE e == [task |-> t, on |-> on]
<1>1. log \in Seq(Entries) /\ e \in Entries
  BY DEF TypeOK
<1> HIDE DEF Entries, e
<1>2. /\ DOMAIN log = 1..Len(log) /\ Len(log) \in Nat
      /\ DOMAIN Append(log, e) = 1..(Len(log) + 1)
      /\ \A i \in DOMAIN log : Append(log, e)[i] = log[i]
      /\ Append(log, e)[Len(log) + 1] = e
  BY <1>1, AppendElements
<1>3. log' = Append(log, e)
  BY DEF e
<1> QED
  BY <1>2, <1>3 DEF e

LEMMA OrderStep == OnceInv /\ OrderInv /\ [Next]_vars => OrderInv'
<1> SUFFICES ASSUME OnceInv, OrderInv, [Next]_vars PROVE OrderInv'
  OBVIOUS
<1>0. /\ TypeOK /\ TasksIssued /\ SubmittedIsNew
      /\ \A t \in Tasks : t.owner \in Workers /\ t.call \in Nat
      /\ \A w \in Workers : Current(w) \in Tasks /\ call[w] \in Nat
  BY CallsAssumption DEF OnceInv, TypeOK, Current, Tasks
<1>1. /\ \A i \in DOMAIN queue : queue[i] \in Tasks
      /\ \A i \in DOMAIN log : log[i] \in [task : Tasks, on : {"main", "caller"}]
  BY <1>0, Elements DEF TypeOK
<1>2. ASSUME NEW w \in Workers, RunDirect(w) PROVE OrderInv'
  <2>1. /\ queue' = queue /\ task' = task /\ mpc' = mpc
        /\ log' = Append(log, [task |-> Current(w), on |-> "caller"])
    BY <1>2 DEF RunDirect, mainVars
  <2>2. \A i \in DOMAIN log' : log'[i].on = "main" => i \in DOMAIN log /\ log'[i] = log[i]
    BY <1>0, <2>1, LogEntries
  <2>3. \A t : LoggedBefore(t) => LoggedBefore(t)'
    BY <2>2 DEF LoggedBefore
  <2>4. QueueInOrder'
    BY <2>1 DEF OrderInv, QueueInOrder
  <2>5. LogBeforeQueue' /\ PoppedBetween'
    BY <2>1, <2>3 DEF OrderInv, LogBeforeQueue, PoppedBetween
  <2>6. InOrder'
    BY <2>2 DEF OrderInv, InOrder
  <2> QED
    BY <2>4, <2>5, <2>6 DEF OrderInv
<1>3. ASSUME NEW w \in Workers, Push(w) PROVE OrderInv'
  <2>1. /\ log' = log /\ task' = task /\ mpc' = mpc
        /\ queue' = Append(queue, Current(w)) /\ pc[w] = "push"
    BY <1>3 DEF Push, mainVars
  <2>2. /\ DOMAIN queue = 1..Len(queue) /\ Len(queue) \in Nat
        /\ DOMAIN queue' = 1..(Len(queue) + 1)
        /\ \A i \in DOMAIN queue : queue'[i] = queue[i]
        /\ queue'[Len(queue) + 1] = Current(w)
    BY <1>0, <2>1, AppendElements DEF TypeOK
  <2>3. ~Ran(Current(w)) /\ ~InQueue(Current(w)) /\ ~Popped(Current(w))
    BY <1>0, <2>1 DEF SubmittedIsNew
  \* An earlier task of w's is one of an earlier call.
  <2>4. \A t \in Tasks : t.owner = w /\ t.call <= call[w] /\ t # Current(w) => t.call < call[w]
    BY <1>0 DEF Tasks, Current
  <2>5. \A i \in DOMAIN queue : queue[i].owner = w => queue[i].call < call[w]
    BY <1>0, <1>1, <2>3, <2>4 DEF InQueue, TasksIssued
  <2>6. LoggedBefore(Current(w))
    BY <1>0, <1>1, <2>3, <2>4 DEF Ran, TasksIssued, LoggedBefore, Current
  <2>7. mpc = "run" /\ task.owner = w => task.call < call[w]
    BY <1>0, <2>3, <2>4 DEF Popped, TasksIssued, TypeOK
  <2>8. Current(w).owner = w /\ Current(w).call = call[w]
    BY DEF Current
  <2>9. QueueInOrder'
    BY <2>2, <2>5, <2>8 DEF OrderInv, QueueInOrder
  <2>10. LogBeforeQueue'
    BY <2>1, <2>2, <2>6 DEF OrderInv, LogBeforeQueue, LoggedBefore
  <2>11. PoppedBetween'
    BY <2>1, <2>2, <2>7, <2>8 DEF OrderInv, PoppedBetween, LoggedBefore
  <2>12. InOrder'
    BY <2>1 DEF OrderInv, InOrder
  <2> QED
    BY <2>9, <2>10, <2>11, <2>12 DEF OrderInv
<1>4. ASSUME Pop PROVE OrderInv'
  <2>1. /\ log' = log /\ mpc' = "run" /\ queue \in Seq(Tasks) /\ queue # <<>>
        /\ task' = Head(queue) /\ queue' = Tail(queue)
    BY <1>0, <1>4 DEF Pop, TypeOK
  <2>2. /\ task' = queue[1] /\ 1 \in DOMAIN queue
        /\ DOMAIN queue' \subseteq Nat \ {0}
        /\ \A i \in DOMAIN queue' : i + 1 \in DOMAIN queue /\ queue'[i] = queue[i + 1]
    BY <2>1, TailElements
  <2>3. QueueInOrder' /\ LogBeforeQueue'
    BY <2>1, <2>2 DEF OrderInv, QueueInOrder, LogBeforeQueue, LoggedBefore
  <2>4. PoppedBetween'
    BY <2>1, <2>2 DEF OrderInv, QueueInOrder, LogBeforeQueue, LoggedBefore, PoppedBetween
  <2>5. InOrder'
    BY <2>1 DEF OrderInv, InOrder
  <2> QED
    BY <2>3, <2>4, <2>5 DEF OrderInv
<1>5. ASSUME Run PROVE OrderInv'
  <2>1. /\ queue' = queue /\ task' = task /\ mpc = "run" /\ mpc' # "run"
        /\ log' = Append(log, [task |-> task, on |-> "main"])
    BY <1>5 DEF Run
  <2>2. /\ DOMAIN log \subseteq Nat
        /\ \A i \in DOMAIN log' :
              \/ i \in DOMAIN log /\ log'[i] = log[i]
              \/ /\ i = Len(log) + 1 /\ log'[i] = [task |-> task, on |-> "main"]
                 /\ \A j \in DOMAIN log' : j <= i
    BY <1>0, <2>1, LogEntries DEF TypeOK
  <2>3. \A i \in DOMAIN log' :
           \/ i \in DOMAIN log /\ log'[i] = log[i]
           \/ log'[i].task = task /\ \A j \in DOMAIN log' : j <= i
    BY <2>2
  <2>4. LoggedBefore(task) /\ \A j \in DOMAIN queue : queue[j].owner = task.owner => task.call < queue[j].call
    BY <2>1 DEF OrderInv, PoppedBetween
  <2>5. QueueInOrder' /\ PoppedBetween'
    BY <2>1 DEF OrderInv, QueueInOrder, PoppedBetween
  <2>6. LogBeforeQueue'
    BY <2>1, <2>3, <2>4 DEF OrderInv, LogBeforeQueue, LoggedBefore
  <2>7. InOrder'
    <3> SUFFICES ASSUME NEW i \in DOMAIN log', NEW j \in DOMAIN log', i < j,
                        log'[i].on = "main", log'[j].on = "main",
                        log'[i].task.owner = log'[j].task.owner
                 PROVE  log'[i].task.call < log'[j].task.call
      BY DEF InOrder
    <3>1. DOMAIN log' \subseteq Nat
      BY <1>0, <2>1, <2>2 DEF TypeOK
    <3>2. i \in DOMAIN log /\ log'[i] = log[i]
      BY <2>3, <3>1
    <3> QED
      BY <2>3, <2>4, <3>2 DEF OrderInv, InOrder, LoggedBefore
  <2> QED
    BY <2>5, <2>6, <2>7 DEF OrderInv
<1>6. ASSUME NEW w \in Workers, Begin(w) \/ ReturnDirect(w) \/ Return(w) \/ Timeout(w)
      PROVE  OrderInv'
  BY <1>6, OrderUnmoved DEF Begin, ReturnDirect, Return, Timeout, mainVars
<1>7. ASSUME NEW b \in BOOLEAN, SetDispatchAvailable(b) PROVE OrderInv'
  BY <1>7, OrderUnmoved DEF SetDispatchAvailable, mainVars
<1>8. ASSUME WriteResult \/ SetDone \/ Notify PROVE OrderInv'
  BY <1>8, OrderUnmoved DEF WriteResult, SetDone, Notify
<1>9. CASE UNCHANGED vars
  BY <1>9, OrderUnmoved DEF vars, mainVars
<1> QED
  BY <1>2, <1>3, <1>4, <1>5, <1>6, <1>7, <1>8, <1>9 DEF Next, Worker, ProcessPending

\* The main thread runs the calls of one stack in the order they were made,
\* the abandoned ones included.
THEOREM MainRunsInOrder == Spec => []InOrder
<1>1. Init => OrderInv
  BY DEF Init, OrderInv, QueueInOrder, LogBeforeQueue, LoggedBefore, PoppedBetween, InOrder
<1>2. OrderInv => InOrder
  BY DEF OrderInv
<1> QED
  BY <1>1, <1>2, OrderStep, CallerInvariant, PTL DEF Spec

----------------------------------------------------------------------------
(* MainThreadQueue implements HandlerCalls                                 *)

\* What a frame holds, if anything, is the result of a handler of its own
\* stack that has run.
FramesHoldRuns ==
    \A w \in Workers :
        \/ frame[w].result = NoResult
        \/ /\ frame[w].result \in Tasks
           /\ frame[w].result.owner = w
           /\ Ran(frame[w].result)

\* A handler that is about to run belongs to a call that was begun, and one
\* run by its own thread has run when that thread returns.
CallsBegun ==
    /\ \A w \in Workers : pc[w] # "idle" => call[w] > 0
    /\ \A i \in DOMAIN queue : queue[i].call > 0
    /\ mpc = "run" => task.call > 0
    /\ \A w \in Workers : pc[w] = "ran" => Ran(Current(w))

LEMMA CurrentTyped ==
  ASSUME TypeOK, NEW w \in Workers
  PROVE  Current(w) \in Tasks /\ Current(w).owner = w /\ Current(w).call = call[w] /\ call[w] \in 0..MaxCalls
BY CallsAssumption DEF TypeOK, Current, Tasks

LEMMA RunsStay ==
  ASSUME TypeOK, [Next]_vars, NEW t, Ran(t)
  PROVE  Ran(t)'
<1>1. CASE log' = log
  BY <1>1 DEF Ran
<1>2. CASE \E w \in Workers : RunDirect(w)
  BY <1>2, CurrentTyped, LogGrows DEF RunDirect
<1>3. CASE Run
  BY <1>3, LogGrows DEF Run, TypeOK
<1> QED
  BY <1>1, <1>2, <1>3 DEF Next, Worker, ProcessPending, SetDispatchAvailable, Begin,
     ReturnDirect, Push, Return, Timeout, Pop, WriteResult, SetDone, Notify, vars

LEMMA FramesStep ==
  TypeOK /\ RanBeforeStore /\ FramesHoldRuns /\ [Next]_vars => FramesHoldRuns'
<1> SUFFICES ASSUME TypeOK, RanBeforeStore, FramesHoldRuns, [Next]_vars, NEW w \in Workers
             PROVE  \/ frame'[w].result = NoResult
                    \/ /\ frame'[w].result \in Tasks
                       /\ frame'[w].result.owner = w
                       /\ Ran(frame[w].result)'
  BY DEF FramesHoldRuns
<1>1. \A t : Ran(t) => Ran(t)'
  BY RunsStay
<1>2. CASE frame'[w].result = frame[w].result
  BY <1>1, <1>2 DEF FramesHoldRuns
<1>0. frame \in [Workers -> [done : BOOLEAN, result : Results]]
  BY DEF TypeOK
<1>3. ASSUME NEW v \in Workers, Begin(v)
      PROVE  frame'[w].result \in {frame[w].result, NoResult}
  <2>1. frame' = frame \/ frame' = [frame EXCEPT ![v] = [done |-> FALSE, result |-> NoResult]]
    BY <1>3 DEF Begin
  <2>2. CASE frame' = frame
    BY <2>2
  <2>3. CASE frame' = [frame EXCEPT ![v] = [done |-> FALSE, result |-> NoResult]]
    <3>1. frame'[w] = IF w = v THEN [done |-> FALSE, result |-> NoResult] ELSE frame[w]
      BY <2>3, <1>0
    <3> QED
      BY <3>1
  <2> QED
    BY <2>1, <2>2, <2>3
<1>4. CASE WriteResult
  <2>1. task \in Tasks /\ task.owner \in Workers /\ Ran(task)
    BY <1>4 DEF TypeOK, Tasks, RanBeforeStore, WriteResult
  <2>2. frame' = frame \/ frame' = [frame EXCEPT ![task.owner] = [@ EXCEPT !.result = task]]
    BY <1>4, <2>1 DEF WriteResult, Store, TypeOK
  <2>3. frame[task.owner] \in [done : BOOLEAN, result : Results]
    BY <2>1 DEF TypeOK
  <2>4. frame'[w].result = frame[w].result \/ (w = task.owner /\ frame'[w].result = task)
    BY <2>1, <2>2, <2>3 DEF TypeOK
  <2> QED
    BY <1>1, <1>2, <2>1, <2>4
<1>5. CASE SetDone
  <2>1. task.owner \in Workers /\ frame[task.owner] \in [done : BOOLEAN, result : Results]
    BY DEF TypeOK, Tasks
  <2>2. frame' = frame \/ frame' = [frame EXCEPT ![task.owner] = [@ EXCEPT !.done = TRUE]]
    BY <1>5, <2>1 DEF SetDone, Store, TypeOK
  <2>3. \/ frame'[w] = frame[w]
        \/ w = task.owner /\ frame'[w] = [frame[task.owner] EXCEPT !.done = TRUE]
    BY <2>1, <2>2, <1>0
  <2>4. [frame[task.owner] EXCEPT !.done = TRUE].result = frame[task.owner].result
    BY <2>1
  <2> QED
    BY <1>2, <2>3, <2>4
<1>6. CASE frame' = frame
  BY <1>2, <1>6
<1> QED
  BY <1>2, <1>3, <1>4, <1>5, <1>6 DEF Next, Worker, ProcessPending, SetDispatchAvailable, RunDirect,
     ReturnDirect, Push, Return, Timeout, Pop, Run, Notify, vars

LEMMA BegunStep == TypeOK /\ CallsBegun /\ [Next]_vars => CallsBegun'
<1> SUFFICES ASSUME TypeOK, CallsBegun, [Next]_vars PROVE CallsBegun'
  OBVIOUS
<1>1. \A t : Ran(t) => Ran(t)'
  BY RunsStay
<1>2. CASE UNCHANGED <<queue, pc, call, task>> /\ (mpc' = "run" => mpc = "run")
  BY <1>1, <1>2 DEF CallsBegun, Current
<1>3. ASSUME NEW w \in Workers, Begin(w) PROVE CallsBegun'
  BY <1>3, <1>1, CallsAssumption DEF Begin, mainVars, CallsBegun, TypeOK, Current
<1>4. ASSUME NEW w \in Workers, RunDirect(w) PROVE CallsBegun'
  <2>1. Ran(Current(w))' /\ Current(w)' = Current(w)
    BY <1>4, CurrentTyped, LogGrows DEF RunDirect, Current
  <2> QED
    BY <1>1, <1>4, <2>1 DEF RunDirect, mainVars, CallsBegun, TypeOK, Current
<1>5. ASSUME NEW w \in Workers, ReturnDirect(w) \/ Return(w) \/ Timeout(w) PROVE CallsBegun'
  BY <1>1, <1>5 DEF ReturnDirect, Return, Timeout, mainVars, CallsBegun, TypeOK, Current
<1>6. ASSUME NEW w \in Workers, Push(w) PROVE CallsBegun'
  <2>1. \A i \in DOMAIN queue' : queue'[i].call > 0
    <3>1. \A i \in DOMAIN queue' : \/ i \in DOMAIN queue /\ queue'[i] = queue[i]
                                   \/ queue'[i] = Current(w)
      BY <1>6, CurrentTyped, QueueGrows DEF Push
    <3>2. Current(w).call > 0
      BY <1>6, CurrentTyped DEF Push, CallsBegun
    <3> QED
      BY <3>1, <3>2 DEF CallsBegun
  <2> QED
    BY <1>1, <1>6, <2>1 DEF Push, mainVars, CallsBegun, TypeOK, Current
<1>7. CASE Pop
  <2>1. queue \in Seq(Tasks) /\ queue # <<>>
    BY <1>7 DEF Pop, TypeOK
  <2>2. /\ Head(queue) = queue[1] /\ 1 \in DOMAIN queue
        /\ \A i \in DOMAIN Tail(queue) : i + 1 \in DOMAIN queue /\ Tail(queue)[i] = queue[i + 1]
    BY <2>1, TailElements
  <2>3. task' = queue[1] /\ queue' = Tail(queue) /\ UNCHANGED <<pc, call, log>>
    BY <1>7, <2>2 DEF Pop
  <2>4. task'.call > 0 /\ \A i \in DOMAIN queue' : queue'[i].call > 0
    BY <2>2, <2>3 DEF CallsBegun
  <2> QED
    BY <1>1, <2>3, <2>4 DEF CallsBegun, Current
<1> QED
  BY <1>2, <1>3, <1>4, <1>5, <1>6, <1>7 DEF Next, Worker, ProcessPending, SetDispatchAvailable,
     Run, WriteResult, SetDone, Notify, vars, mainVars

----------------------------------------------------------------------------

RefinesInv == OnceInv /\ CallerInv /\ FramesHoldRuns /\ CallsBegun

LEMMA RefinesInvariant == Spec => []RefinesInv
<1>1. Init => FramesHoldRuns /\ CallsBegun
  BY DEF Init, FramesHoldRuns, CallsBegun
<1>2. OnceInv /\ CallerInv => TypeOK /\ RanBeforeStore
  BY DEF OnceInv, CallerInv
<1> QED
  BY <1>1, <1>2, FramesStep, BegunStep, CallerInvariant, PTL DEF Spec, RefinesInv

\* The mapped set of tasks that ran grows by t when t is put into the log.
LEMMA RanGrows ==
  ASSUME TypeOK, NEW t \in Tasks, NEW on \in {"main", "caller"},
         log' = Append(log, [task |-> t, on |-> on])
  PROVE  {log'[i].task : i \in DOMAIN log'} = {log[i].task : i \in DOMAIN log} \cup {t}
<1>1. \A x : Ran(x)' <=> Ran(x) \/ x = t
  BY LogGrows
<1>2. \A x : x \in {log[i].task : i \in DOMAIN log} <=> Ran(x)
  BY DEF Ran
<1>3. \A x : x \in {log'[i].task : i \in DOMAIN log'} <=> Ran(x)'
  BY DEF Ran
<1> QED
  BY <1>1, <1>2, <1>3

\* A handler that runs is one abstract RunHandler: it has not run before.
LEMMA RunRefines ==
  ASSUME RefinesInv, NEW t \in Tasks, NEW on \in {"main", "caller"},
         log' = Append(log, [task |-> t, on |-> on]),
         ~Ran(t), t.call > 0, t.call <= call[t.owner],
         call' = call, expired' = expired, answer' = answer,
         \A w \in Workers : pc[w] = "idle" <=> pc'[w] = "idle"
  PROVE  Calls!RunHandler(t)
<1>1. {log'[i].task : i \in DOMAIN log'} = {log[i].task : i \in DOMAIN log} \cup {t}
  BY RanGrows DEF RefinesInv, OnceInv
<1>2. t \notin {log[i].task : i \in DOMAIN log}
  BY DEF Ran
<1>3. {w \in Workers : pc'[w] # "idle"} = {w \in Workers : pc[w] # "idle"}
  OBVIOUS
<1> QED
  BY <1>1, <1>2, <1>3 DEF Calls!RunHandler

\* A call that returns is one abstract Answer, if its result is allowed.
LEMMA AnswerRefines ==
  ASSUME RefinesInv, NEW w \in Workers, NEW r,
         pc[w] # "idle", pc' = [pc EXCEPT ![w] = "idle"],
         answer' = [answer EXCEPT ![w] = r],
         \/ ~GaveUp(w) /\ r = Current(w) /\ Ran(r)
         \/ GaveUp(w) /\ r = NoResult
         \/ GaveUp(w) /\ r \in Tasks /\ r.owner = w /\ Ran(r),
         UNCHANGED <<call, log, expired>>
  PROVE  Calls!Answer(w)
<1>1. r \in Calls!Allowed(w)
  BY DEF Calls!Allowed, Calls!GaveUp, Calls!Current, GaveUp, Current, Ran
<1>2. {v \in Workers : pc'[v] # "idle"} = {v \in Workers : pc[v] # "idle"} \ {w}
  BY DEF RefinesInv, OnceInv, TypeOK
<1> QED
  BY <1>1, <1>2 DEF Calls!Answer

LEMMA StepRefines == RefinesInv /\ [Next]_vars => [Calls!Next]_Calls!vars
<1> SUFFICES ASSUME RefinesInv, [Next]_vars PROVE [Calls!Next]_Calls!vars
  OBVIOUS
<1>0. TypeOK /\ OnceInv /\ CallerInv /\ FramesHoldRuns /\ CallsBegun
  BY DEF RefinesInv, OnceInv
<1>1. ASSUME call' = call, log' = log, expired' = expired, answer' = answer,
             \A w \in Workers : pc[w] = "idle" <=> pc'[w] = "idle"
      PROVE  UNCHANGED Calls!vars
  <2>1. {w \in Workers : pc'[w] # "idle"} = {w \in Workers : pc[w] # "idle"}
    BY <1>1
  <2> QED
    BY <1>1, <2>1 DEF Calls!vars
<1>2. ASSUME NEW b \in BOOLEAN, SetDispatchAvailable(b) PROVE UNCHANGED Calls!vars
  BY <1>1, <1>2 DEF SetDispatchAvailable
<1>3. ASSUME NEW w \in Workers, Begin(w) PROVE Calls!Issue(w)
  <2>1. {v \in Workers : pc'[v] # "idle"} = {v \in Workers : pc[v] # "idle"} \cup {w}
    BY <1>0, <1>3 DEF Begin, TypeOK
  <2> QED
    BY <1>3, <2>1 DEF Begin, Calls!Issue
<1>4. ASSUME NEW w \in Workers, RunDirect(w) PROVE \E t \in Calls!Tasks : Calls!RunHandler(t)
  <2>1. PICK t \in Tasks : t = Current(w)
    BY <1>0, CurrentTyped
  <2>2. ~Ran(t) /\ t.call > 0 /\ t.call <= call[t.owner]
    BY <1>0, <1>4, <2>1, CurrentTyped DEF RunDirect, OnceInv, SubmittedIsNew, CallsBegun
  <2>3. /\ log' = Append(log, [task |-> t, on |-> "caller"])
        /\ call' = call /\ expired' = expired /\ answer' = answer
        /\ \A v \in Workers : pc[v] = "idle" <=> pc'[v] = "idle"
    BY <1>0, <1>4, <2>1 DEF RunDirect, TypeOK
  <2>4. Calls!RunHandler(t)
    BY <2>2, <2>3, RunRefines
  <2>5. t \in Calls!Tasks
    BY <2>2, CallsAssumption DEF Calls!Tasks, Tasks
  <2> QED
    BY <2>4, <2>5
<1>5. ASSUME NEW w \in Workers, ReturnDirect(w) PROVE Calls!Answer(w)
  <2>1. Ran(Current(w)) /\ Current(w) \in Tasks /\ Current(w).owner = w
    BY <1>0, <1>5, CurrentTyped DEF ReturnDirect, CallsBegun
  <2> QED
    BY <1>5, <2>1, AnswerRefines DEF ReturnDirect
<1>6. ASSUME NEW w \in Workers, Push(w) PROVE UNCHANGED Calls!vars
  BY <1>0, <1>1, <1>6 DEF Push, TypeOK
<1>7. ASSUME NEW w \in Workers, Return(w) PROVE Calls!Answer(w)
  <2>1. ~GaveUp(w) => frame[w].result = Current(w) /\ Ran(frame[w].result)
    BY <1>0, <1>7 DEF Return, CallerInv, ResultStored
  <2>2. \/ frame[w].result = NoResult
        \/ frame[w].result \in Tasks /\ frame[w].result.owner = w /\ Ran(frame[w].result)
    BY <1>0 DEF FramesHoldRuns
  <2> QED
    BY <1>7, <2>1, <2>2, AnswerRefines DEF Return
<1>8. ASSUME NEW w \in Workers, Timeout(w) PROVE Calls!GiveUp(w)
  <2>1. {v \in Workers : pc'[v] # "idle"} = {v \in Workers : pc[v] # "idle"} \ {w}
    BY <1>0, <1>8 DEF Timeout, TypeOK
  <2> QED
    BY <1>8, <2>1 DEF Timeout, Calls!GiveUp, Calls!Current, Current
<1>9. ASSUME Run PROVE \E t \in Calls!Tasks : Calls!RunHandler(t)
  <2>1. PICK t \in Tasks : t = task
    BY <1>0 DEF TypeOK
  <2>2. ~Ran(t) /\ t.call > 0 /\ t.call <= call[t.owner]
    BY <1>0, <1>9, <2>1 DEF Run, OnceInv, PoppedNotRun, TasksIssued, CallsBegun
  <2>3. Calls!RunHandler(t)
    BY <1>9, <2>1, <2>2, RunRefines DEF Run
  <2>4. t \in Calls!Tasks
    BY <2>2, CallsAssumption DEF Calls!Tasks, Tasks
  <2> QED
    BY <2>3, <2>4
<1>10. ASSUME Pop \/ WriteResult \/ SetDone \/ Notify PROVE UNCHANGED Calls!vars
  BY <1>1, <1>10 DEF Pop, WriteResult, SetDone, Notify
<1>11. CASE UNCHANGED vars
  BY <1>1, <1>11 DEF vars
<1> QED
  BY <1>2, <1>3, <1>4, <1>5, <1>6, <1>7, <1>8, <1>9, <1>10, <1>11
  DEF Next, Worker, ProcessPending, Calls!Next

LEMMA InitRefines == ASSUME Init PROVE Calls!Init
<1>1. {w \in Workers : pc[w] # "idle"} = {} /\ {log[i].task : i \in DOMAIN log} = {}
  BY DEF Init
<1> QED
  BY <1>1 DEF Init, Calls!Init

\* Seen from the client threads, invoke_on_main and process_pending are
\* at-most-once handler calls that end with their own result or give up.
THEOREM QueueImplementsHandlerCalls == Spec => ImplementsHandlerCalls
<1>1. Init => Calls!Init
  BY InitRefines
<1> QED
  BY <1>1, RefinesInvariant, StepRefines, PTL DEF Spec, ImplementsHandlerCalls, Calls!Spec
============================================================================
