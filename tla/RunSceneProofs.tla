--------------------------- MODULE RunSceneProofs ---------------------------
(***************************************************************************)
(* Theorems about RunScene, for every set of calls, every choice of output *)
(* paths (the same one twice included), every set of scenes with a helper  *)
(* and every bound on polls and on the user's calls.                       *)
(***************************************************************************)
EXTENDS RunScene, SequenceTheorems, TLAPS

----------------------------------------------------------------------------
(* Types                                                                   *)

Places == {"idle", "write", "launch", "poll", "giveup", "look", "watch", "capture", "stop", "done"}
Tasks == [call : Calls, op : {"play", "poll", "stop", "capture"}, number : Nat]
Games == [by : Calls \cup {"nobody", "user"}, phase : {"none", "starting", "running"},
          target : Paths \cup {"unread"}, captured : BOOLEAN]

TypeInv ==
    /\ pc \in [Calls -> Places]
    /\ asked \in [Calls -> Nat]
    /\ answer \in [Calls -> {"none", "done", "true", "false", "captured", "failed"}]
    /\ reply \in [Calls -> {"none", "error", "helper", "fallback", "failed"}]
    /\ queue \in Seq(Tasks)
    /\ game \in Games /\ (game.by = "nobody" => game = NoGame)
    /\ shot \in [Paths -> Calls \cup {"nobody", "user", "editor"}]
    /\ alone \subseteq Calls /\ \A c \in alone : alone = {c}

LEMMA Appended ==
  ASSUME NEW S, NEW s \in Seq(S), NEW e \in S
  PROVE  /\ Append(s, e) \in Seq(S) /\ Len(s) \in Nat /\ DOMAIN s = 1..Len(s)
         /\ DOMAIN Append(s, e) = DOMAIN s \cup {Len(s) + 1}
         /\ \A i \in DOMAIN s : Append(s, e)[i] = s[i] /\ i < Len(s) + 1
         /\ Append(s, e)[Len(s) + 1] = e
  OBVIOUS

LEMMA Tailed ==
  ASSUME NEW S, NEW s \in Seq(S), s # <<>>
  PROVE  /\ Tail(s) \in Seq(S) /\ Head(s) = s[1] /\ 1 \in DOMAIN s /\ s[1] \in S
         /\ DOMAIN s \subseteq Nat \ {0} /\ DOMAIN Tail(s) \subseteq Nat
         /\ \A i \in DOMAIN Tail(s) : i + 1 \in DOMAIN s /\ Tail(s)[i] = s[i + 1] /\ i + 1 > 1
         /\ \A i \in DOMAIN s : i # 1 => i - 1 \in DOMAIN Tail(s) /\ Tail(s)[i - 1] = s[i]
  OBVIOUS

LEMMA NoGameTyped ==
  /\ NoGame \in Games /\ NoGame.by = "nobody" /\ NoGame.phase = "none" /\ NoGame.target = "unread"
  /\ \A x \in Calls \cup {"user"} :
        /\ Launched(x) \in Games /\ Launched(x).by = x /\ Launched(x).target = "unread"
        /\ Launched(x).by # "nobody"
  BY NamesAssumption DEF NoGame, Launched, Games

\* What a call to invoke_on_main changes.
Invoked(c, op, place) ==
    /\ pc' \in [Calls -> Places] /\ pc'[c] = place
    /\ asked' \in [Calls -> Nat] /\ asked'[c] = asked[c] + 1
    /\ answer' \in [Calls -> {"none", "done", "true", "false", "captured", "failed"}]
    /\ answer'[c] = "none"
    /\ \A d \in Calls \ {c} : pc'[d] = pc[d] /\ asked'[d] = asked[d] /\ answer'[d] = answer[d]
    /\ queue' \in Seq(Tasks) /\ DOMAIN queue' = DOMAIN queue \cup {Len(queue) + 1}
    /\ \A i \in DOMAIN queue : queue'[i] = queue[i] /\ i < Len(queue) + 1 /\ i \in Nat
    /\ queue'[Len(queue) + 1] = [call |-> c, op |-> op, number |-> asked[c] + 1]

LEMMA InvokeMoves ==
  ASSUME TypeInv, NEW c \in Calls, NEW op \in {"play", "poll", "stop", "capture"},
         NEW place \in Places, Invoke(c, op, place)
  PROVE  Invoked(c, op, place)
<1>1. /\ pc' \in [Calls -> Places] /\ pc'[c] = place
      /\ asked' \in [Calls -> Nat] /\ asked'[c] = asked[c] + 1
      /\ answer' \in [Calls -> {"none", "done", "true", "false", "captured", "failed"}]
      /\ answer'[c] = "none"
      /\ \A d \in Calls \ {c} : pc'[d] = pc[d] /\ asked'[d] = asked[d] /\ answer'[d] = answer[d]
  <2>1. /\ pc \in [Calls -> Places] /\ pc' = [pc EXCEPT ![c] = place]
        /\ asked \in [Calls -> Nat] /\ asked' = [asked EXCEPT ![c] = asked[c] + 1]
        /\ answer \in [Calls -> {"none", "done", "true", "false", "captured", "failed"}]
        /\ answer' = [answer EXCEPT ![c] = "none"]
    BY DEF Invoke, TypeInv
  <2>2. pc' \in [Calls -> Places] /\ pc'[c] = place /\ \A d \in Calls \ {c} : pc'[d] = pc[d]
    BY <2>1
  <2>3. /\ asked' \in [Calls -> Nat] /\ asked'[c] = asked[c] + 1
        /\ \A d \in Calls \ {c} : asked'[d] = asked[d]
    <3>1. asked[c] + 1 \in Nat
      BY <2>1
    <3> QED
      BY <2>1, <3>1
  <2>4. /\ answer' \in [Calls -> {"none", "done", "true", "false", "captured", "failed"}]
        /\ answer'[c] = "none" /\ \A d \in Calls \ {c} : answer'[d] = answer[d]
    BY <2>1
  <2> QED
    BY <2>2, <2>3, <2>4
<1>2. PICK task \in Tasks : task = [call |-> c, op |-> op, number |-> asked[c] + 1]
  <2>1. asked[c] + 1 \in Nat
    BY DEF TypeInv
  <2>2. [call |-> c, op |-> op, number |-> asked[c] + 1] \in Tasks
    BY <2>1 DEF Tasks
  <2> QED
    BY <2>2, Zenon
<1>3. queue' = Append(queue, task) /\ queue \in Seq(Tasks)
  BY <1>2 DEF Invoke, TypeInv
<1>4. /\ queue' \in Seq(Tasks) /\ DOMAIN queue' = DOMAIN queue \cup {Len(queue) + 1}
      /\ \A i \in DOMAIN queue : queue'[i] = queue[i] /\ i < Len(queue) + 1 /\ i \in Nat
      /\ queue'[Len(queue) + 1] = task
  BY <1>3, Appended
<1> QED
  BY <1>1, <1>2, <1>4 DEF Invoked

\* What a task changes: the caller that still waits for it hears of it.
LEMMA RunMoves ==
  ASSUME TypeInv, MainThread
  PROVE  \E h \in Tasks :
           /\ queue # <<>> /\ h = queue[1] /\ queue' = Tail(queue)
           /\ UNCHANGED <<pc, asked, polls, reply, sidecar, alone>>
           /\ answer' \in [Calls -> {"none", "done", "true", "false", "captured", "failed"}]
           /\ \A d \in Calls : answer'[d] # answer[d] => h.call = d /\ h.number = asked[d]
           /\ \/ h.op = "play" /\ game' = Launched(h.call) /\ shot' = shot
              \/ h.op = "poll" /\ game' = game /\ shot' = shot
              \/ h.op = "stop" /\ game' = NoGame /\ shot' = shot
              \/ /\ h.op = "capture" /\ game' = game
                 /\ shot' \in {shot, [shot EXCEPT ![Output[h.call]] = "editor"]}
<1>1. queue # <<>> /\ queue' = Tail(queue)
  BY DEF MainThread, RunPlay, RunPoll, RunStop, RunCapture, Run
<1>2. PICK h \in Tasks : h = queue[1] /\ h = Head(queue)
  BY <1>1, Tailed DEF TypeInv
<1>3. h.call \in Calls
  BY DEF Tasks
<1>4. ASSUME NEW value \in {"done", "true", "false", "captured", "failed"}, Answer(h, value)
      PROVE  /\ answer' \in [Calls -> {"none", "done", "true", "false", "captured", "failed"}]
             /\ \A d \in Calls : answer'[d] # answer[d] => h.call = d /\ h.number = asked[d]
  BY <1>3, <1>4 DEF Answer, Awaited, TypeInv
<1>5. UNCHANGED <<pc, asked, polls, reply, sidecar, alone>>
  BY DEF MainThread, RunPlay, RunPoll, RunStop, RunCapture
<1>6. \E value \in {"done", "true", "false", "captured", "failed"} : Answer(h, value)
  BY <1>2 DEF MainThread, RunPlay, RunPoll, RunStop, RunCapture
<1>7. \/ h.op = "play" /\ game' = Launched(h.call) /\ shot' = shot
      \/ h.op = "poll" /\ game' = game /\ shot' = shot
      \/ h.op = "stop" /\ game' = NoGame /\ shot' = shot
      \/ /\ h.op = "capture" /\ game' = game
         /\ shot' \in {shot, [shot EXCEPT ![Output[h.call]] = "editor"]}
  BY <1>2 DEF MainThread, RunPlay, RunPoll, RunStop, RunCapture, Run
<1> QED
  BY <1>1, <1>2, <1>4, <1>5, <1>6, <1>7

\* The handler's moves: some only go on, the others queue a task.
Goes(c, from, place, how) ==
    /\ pc[c] \in from /\ pc' = [pc EXCEPT ![c] = place]
    /\ reply' = [reply EXCEPT ![c] = how]
    /\ UNCHANGED <<asked, answer, queue>>
Asks(c, from, op, place, how) ==
    /\ pc[c] \in from /\ Invoke(c, op, place)
    /\ reply' = [reply EXCEPT ![c] = how]

LEMMA HandlerMoves ==
  ASSUME TypeInv, NEW c \in Calls, Handler(c)
  PROVE  /\ UNCHANGED <<game, shot, alone>>
         /\ pc[c] # "write" => sidecar' = sidecar
         /\ pc[c] = "write" => sidecar' = Output[c]
         /\ \/ Asks(c, {"write"}, "play", "launch", reply[c])
            \/ pc[c] = "launch" /\ answer[c] = "done" /\ Asks(c, {"launch"}, "poll", "poll", reply[c])
            \/ Asks(c, {"poll"}, "poll", "poll", reply[c])
            \/ Asks(c, {"poll"}, "stop", "giveup", reply[c])
            \/ Asks(c, {"look", "watch"}, "stop", "stop", "helper") /\ shot[Output[c]] # "nobody"
            \/ Asks(c, {"watch"}, "capture", "capture", reply[c])
            \/ Asks(c, {"capture"}, "stop", "stop", "fallback")
            \/ Asks(c, {"capture"}, "stop", "stop", "failed")
            \/ Goes(c, {"launch"}, "done", "error")
            \/ Goes(c, {"poll"}, "look", reply[c])
            \/ Goes(c, {"giveup"}, "done", "error")
            \/ Goes(c, {"look"}, "watch", reply[c])
            \/ Goes(c, {"stop"}, "done", reply[c])
<1>1. reply = [reply EXCEPT ![c] = reply[c]] /\ answer[c] # "timeout"
  BY DEF TypeInv
<1>2. CASE WriteTarget(c) \/ LaunchReturns(c) \/ PollAgain(c)
  BY <1>1, <1>2 DEF WriteTarget, LaunchReturns, PollAgain, Asks, Goes, Done, Heard
<1>3. CASE PollFinds(c) \/ GiveUp(c) \/ GiveUpReturns(c) \/ SeesFile(c)
  BY <1>1, <1>3 DEF PollFinds, GiveUp, GiveUpReturns, SeesFile, Asks, Goes, Done
<1>4. CASE LooksInVain(c) \/ WatchEnds(c) \/ CaptureReturns(c) \/ StopReturns(c)
  BY <1>1, <1>4 DEF LooksInVain, WatchEnds, CaptureReturns, StopReturns, Asks, Goes
<1> QED
  BY <1>2, <1>3, <1>4 DEF Handler

LEMMA GoesMoves ==
  ASSUME TypeInv, NEW c \in Calls, NEW from, NEW place \in Places,
         NEW how \in {"none", "error", "helper", "fallback", "failed"}, Goes(c, from, place, how)
  PROVE  /\ pc[c] \in from /\ pc'[c] = place /\ pc' \in [Calls -> Places]
         /\ reply'[c] = how
         /\ reply' \in [Calls -> {"none", "error", "helper", "fallback", "failed"}]
         /\ \A d \in Calls \ {c} : pc'[d] = pc[d] /\ reply'[d] = reply[d]
         /\ UNCHANGED <<asked, answer, queue>>
  BY DEF Goes, TypeInv

LEMMA TypeInit == Init => TypeInv
<1> SUFFICES ASSUME Init PROVE TypeInv
  OBVIOUS
<1>1. queue \in Seq(Tasks)
  BY DEF Init
<1>2. game \in Games /\ game = NoGame
  BY NoGameTyped DEF Init
<1>3. /\ pc \in [Calls -> Places] /\ asked \in [Calls -> Nat]
      /\ answer \in [Calls -> {"none", "done", "true", "false", "captured", "failed"}]
      /\ reply \in [Calls -> {"none", "error", "helper", "fallback", "failed"}]
      /\ shot \in [Paths -> Calls \cup {"nobody", "user", "editor"}]
  BY DEF Init, Places
<1> QED
  BY <1>1, <1>2, <1>3 DEF Init, TypeInv

LEMMA TypeHandler ==
  ASSUME TypeInv, NEW c \in Calls, Handler(c)
  PROVE  TypeInv'
<1>1. UNCHANGED <<game, shot, alone>> /\ reply[c] \in {"none", "error", "helper", "fallback", "failed"}
  BY HandlerMoves DEF TypeInv
<1>2. ASSUME NEW from, NEW op \in {"play", "poll", "stop", "capture"}, NEW place \in Places,
             NEW how \in {"none", "error", "helper", "fallback", "failed"},
             Asks(c, from, op, place, how)
      PROVE  TypeInv'
  <2>1. reply' \in [Calls -> {"none", "error", "helper", "fallback", "failed"}]
    BY <1>2 DEF Asks, TypeInv
  <2>2. Invoke(c, op, place)
    BY <1>2 DEF Asks
  <2> QED
    BY <1>1, <2>1, <2>2, InvokeMoves DEF TypeInv, Invoked
<1>3. ASSUME NEW from, NEW place \in Places,
             NEW how \in {"none", "error", "helper", "fallback", "failed"},
             Goes(c, from, place, how)
      PROVE  TypeInv'
  BY <1>1, <1>3, GoesMoves DEF TypeInv
<1>4. Places = {"idle", "write", "launch", "poll", "giveup", "look", "watch", "capture", "stop", "done"}
  BY DEF Places
<1> QED
  BY <1>1, <1>2, <1>3, <1>4, HandlerMoves

LEMMA TypeStep == TypeInv /\ [Next]_vars => TypeInv'
<1> SUFFICES ASSUME TypeInv, [Next]_vars PROVE TypeInv'
  OBVIOUS
<1>1. CASE UNCHANGED vars
  BY <1>1 DEF vars, handler, TypeInv
<1>2. ASSUME NEW c \in Calls, Begin(c) PROVE TypeInv'
  <2>1. pc' \in [Calls -> Places] /\ alone' \in {{c}, {}}
    BY <1>2 DEF Begin, TypeInv, Places
  <2> QED
    BY <1>2, <2>1 DEF Begin, TypeInv
<1>3. CASE MainThread
  <2>1. PICK h \in Tasks :
           /\ queue # <<>> /\ queue' = Tail(queue)
           /\ UNCHANGED <<pc, asked, reply, alone>>
           /\ answer' \in [Calls -> {"none", "done", "true", "false", "captured", "failed"}]
           /\ game' \in {game, NoGame, Launched(h.call)}
           /\ shot' \in {shot, [shot EXCEPT ![Output[h.call]] = "editor"]}
    BY <1>3, RunMoves
  <2>2. h.call \in Calls
    BY DEF Tasks
  <2>3. queue' \in Seq(Tasks)
    BY <2>1, Tailed DEF TypeInv
  <2>4. game' \in Games /\ (game'.by = "nobody" => game' = NoGame)
    BY <2>1, <2>2, NoGameTyped DEF TypeInv
  <2>5. shot' \in [Paths -> Calls \cup {"nobody", "user", "editor"}]
    BY <2>1 DEF TypeInv
  <2> QED
    BY <2>1, <2>3, <2>4, <2>5 DEF TypeInv
<1>4. CASE RunProject \/ StopProject \/ GameEnds
  <2>1. /\ game' \in {Launched("user"), NoGame} /\ alone' \in {alone, {}}
        /\ UNCHANGED <<handler, queue, shot>>
    BY <1>4 DEF RunProject, StopProject, GameEnds
  <2>2. game' \in Games /\ (game'.by = "nobody" => game' = NoGame)
    BY <2>1, NoGameTyped
  <2> QED
    BY <2>1, <2>2 DEF TypeInv, handler
<1>5. CASE GameStarts \/ HelperReady
  <2>1. UNCHANGED <<handler, queue, shot, alone>> /\ game.by # "nobody"
    BY <1>5 DEF GameStarts, HelperReady, TypeInv, NoGame
  <2>2. sidecar \in Paths \/ DefaultPath \in Paths
    BY DEF Paths
  <2>3. game' \in Games /\ game'.by = game.by
    BY <1>5, <2>2 DEF GameStarts, HelperReady, TypeInv, Games, Paths
  <2> QED
    BY <2>1, <2>3 DEF TypeInv, handler
<1>6. CASE HelperCaptures
  <2>1. UNCHANGED <<handler, queue, alone>> /\ game.by # "nobody"
    BY <1>6 DEF HelperCaptures, TypeInv, NoGame
  <2>2. game' \in Games /\ game'.by = game.by
    BY <1>6 DEF HelperCaptures, TypeInv, Games
  <2>3. shot' \in [Paths -> Calls \cup {"nobody", "user", "editor"}]
    BY <1>6 DEF HelperCaptures, TypeInv, Games
  <2> QED
    BY <2>1, <2>2, <2>3 DEF TypeInv, handler
<1> QED
  BY <1>1, <1>2, <1>3, <1>4, <1>5, <1>6, TypeHandler DEF Next, Game

LEMMA TypeInvariant == Spec => []TypeInv
  BY TypeInit, TypeStep, PTL DEF Spec

----------------------------------------------------------------------------
(* Tasks and places                                                        *)

\* Where a call stands tells how many tasks it has queued, and whether it has
\* made up its reply.
Stands(c) ==
    /\ pc[c] \in {"idle", "write"} <=> asked[c] = 0
    /\ pc[c] = "launch" => asked[c] = 1
    /\ pc[c] \in {"poll", "giveup", "look", "watch", "capture", "stop"} => asked[c] > 1
    /\ reply[c] # "none" => pc[c] \in {"stop", "done"}

\* A call's tasks are in the queue in the order it queued them, and the first is
\* the one that plays its scene.
Tasked(i) ==
    /\ queue[i].number >= 1 /\ queue[i].number <= asked[queue[i].call]
    /\ queue[i].op = "play" <=> queue[i].number = 1
InTurn ==
    \A i, j \in DOMAIN queue :
        i < j /\ queue[i].call = queue[j].call => queue[i].number < queue[j].number

\* A call that has heard of its launch has no scene left to play.
Queued(c, op) == \E i \in DOMAIN queue : queue[i].call = c /\ queue[i].op = op
Played(c) ==
    asked[c] > 1 \/ (pc[c] = "launch" /\ answer[c] # "none") => ~Queued(c, "play")

QueueInv ==
    /\ \A c \in Calls : Stands(c) /\ Played(c)
    /\ \A i \in DOMAIN queue : Tasked(i)
    /\ InTurn


LEMMA Begun ==
  ASSUME TypeInv, NEW c \in Calls, Begin(c)
  PROVE  /\ pc[c] = "idle" /\ pc'[c] = "write" /\ \A d \in Calls \ {c} : pc'[d] = pc[d]
         /\ UNCHANGED <<asked, answer, reply, queue, game, shot>>
  BY DEF Begin, TypeInv

\* A task is queued.
LEMMA QueueAsks ==
  ASSUME TypeInv, QueueInv, NEW c \in Calls, NEW op \in {"play", "poll", "stop", "capture"},
         NEW place \in Places \ {"idle", "write", "done"}, Invoke(c, op, place),
         IF op = "play" THEN asked[c] = 0 /\ place = "launch"
                        ELSE asked[c] > 0 /\ place # "launch" /\ ~Queued(c, "play"),
         \A d \in Calls \ {c} : reply'[d] = reply[d],
         reply'[c] # "none" => place = "stop"
  PROVE  QueueInv'
<1>1. /\ pc'[c] = place /\ asked'[c] = asked[c] + 1 /\ answer'[c] = "none" /\ asked[c] \in Nat
      /\ \A d \in Calls \ {c} : pc'[d] = pc[d] /\ asked'[d] = asked[d] /\ answer'[d] = answer[d]
      /\ DOMAIN queue' = DOMAIN queue \cup {Len(queue) + 1}
      /\ \A i \in DOMAIN queue : queue'[i] = queue[i] /\ i < Len(queue) + 1 /\ i \in Nat
      /\ queue'[Len(queue) + 1] = [call |-> c, op |-> op, number |-> asked[c] + 1]
  <2>1. Invoked(c, op, place) /\ asked[c] \in Nat
    BY InvokeMoves DEF TypeInv
  <2> QED
    BY <2>1 DEF Invoked
<1>2. PICK n \in Nat : n = Len(queue) + 1
  BY DEF TypeInv
<1>3. \A i \in DOMAIN queue : queue[i] \in Tasks /\ queue[i].call \in Calls /\ queue[i].number \in Nat
  <2>1. \A i \in DOMAIN queue : queue[i] \in Tasks
    BY DEF TypeInv
  <2> QED
    BY <2>1 DEF Tasks
<1>4. Stands(c)'
  BY <1>1 DEF Stands, Places
<1>5. Played(c)'
  <2>1. op # "play" => ~Queued(c, "play")'
    BY <1>1, <1>2 DEF Queued
  <2> QED
    BY <1>1, <2>1 DEF Played
<1>6. ASSUME NEW d \in Calls \ {c} PROVE Stands(d)' /\ Played(d)'
  <2>1. Stands(d)'
    BY <1>1 DEF QueueInv, Stands
  <2>2. Queued(d, "play")' => Queued(d, "play")
    BY <1>1, <1>2 DEF Queued
  <2> QED
    BY <1>1, <2>1, <2>2 DEF QueueInv, Played
<1>7. \A i \in DOMAIN queue' : Tasked(i)'
  <2>1. ASSUME NEW i \in DOMAIN queue PROVE Tasked(i)'
    <3>1. Tasked(i) /\ asked[queue[i].call] \in Nat
      BY <1>3 DEF QueueInv, TypeInv
    <3>2. queue[i].call = c \/ asked'[queue[i].call] = asked[queue[i].call]
      BY <1>1, <1>3
    <3> QED
      BY <1>1, <1>3, <3>1, <3>2 DEF Tasked
  <2>2. Tasked(n)'
    <3>1. /\ queue'[n].call = c /\ queue'[n].op = op /\ queue'[n].number = asked[c] + 1
      BY <1>1, <1>2
    <3> QED
      BY <1>1, <3>1 DEF Tasked
  <2> QED
    BY <1>1, <1>2, <2>1, <2>2
<1>8. InTurn'
  <2>1. ASSUME NEW i \in DOMAIN queue', NEW j \in DOMAIN queue', i < j,
               queue'[i].call = queue'[j].call
        PROVE  queue'[i].number < queue'[j].number
    <3>1. i \in DOMAIN queue
      BY <1>1, <1>2, <2>1
    <3>2. CASE j \in DOMAIN queue
      BY <1>1, <2>1, <3>1, <3>2 DEF QueueInv, InTurn
    <3>3. CASE j = n
      <4>1. queue'[j].call = c /\ queue'[j].number = asked[c] + 1
        BY <1>1, <1>2, <3>3
      <4>2. queue[i].number <= asked[c]
        BY <1>1, <2>1, <3>1, <4>1 DEF QueueInv, Tasked
      <4> QED
        BY <1>1, <1>3, <3>1, <4>1, <4>2
    <3> QED
      BY <1>1, <1>2, <3>2, <3>3
  <2> QED
    BY <2>1 DEF InTurn
<1> QED
  BY <1>4, <1>5, <1>6, <1>7, <1>8 DEF QueueInv

\* A call goes on without a task.
LEMMA QueueGoes ==
  ASSUME TypeInv, QueueInv, NEW c \in Calls, UNCHANGED <<asked, answer, queue>>,
         \A d \in Calls \ {c} : pc'[d] = pc[d] /\ reply'[d] = reply[d],
         pc'[c] # "launch", Stands(c)'
  PROVE  QueueInv'
<1>1. \A d \in Calls : Queued(d, "play")' = Queued(d, "play")
  BY DEF Queued
<1>2. ASSUME NEW d \in Calls PROVE Stands(d)' /\ Played(d)'
  <2>1. CASE d = c
    BY <1>1, <2>1 DEF QueueInv, Played
  <2>2. CASE d # c
    BY <1>1, <2>2 DEF QueueInv, Played, Stands
  <2> QED
    BY <2>1, <2>2
<1>3. \A i \in DOMAIN queue' : Tasked(i)'
  BY DEF QueueInv, Tasked
<1> QED
  BY <1>2, <1>3 DEF QueueInv, InTurn

LEMMA QueueHandler ==
  ASSUME TypeInv, QueueInv, NEW c \in Calls, Handler(c)
  PROVE  QueueInv'
<1>0. /\ Stands(c) /\ Played(c) /\ asked[c] \in Nat
      /\ reply[c] \in {"none", "error", "helper", "fallback", "failed"}
  BY DEF QueueInv, TypeInv
<1>1. ASSUME NEW from, NEW op \in {"play", "poll", "stop", "capture"},
             NEW place \in Places \ {"idle", "write", "done"}, NEW how,
             Asks(c, from, op, place, how),
             IF op = "play" THEN asked[c] = 0 /\ place = "launch"
                        ELSE asked[c] > 0 /\ place # "launch" /\ ~Queued(c, "play"),
             how # "none" => place = "stop"
      PROVE  QueueInv'
  <2>1. Invoke(c, op, place) /\ reply'[c] = how /\ \A d \in Calls \ {c} : reply'[d] = reply[d]
    BY <1>1 DEF Asks, TypeInv
  <2> QED
    BY <1>1, <2>1, QueueAsks
<1>2. ASSUME NEW from, NEW place \in Places \ {"idle", "write", "launch"},
             NEW how \in {"none", "error", "helper", "fallback", "failed"},
             Goes(c, from, place, how),
             from \subseteq Places \ {"idle", "write"}, place # "done" => asked[c] > 1,
             how # "none" => place \in {"stop", "done"}
      PROVE  QueueInv'
  <2>1. /\ pc[c] \in from /\ pc'[c] = place /\ reply'[c] = how
        /\ \A d \in Calls \ {c} : pc'[d] = pc[d] /\ reply'[d] = reply[d]
        /\ UNCHANGED <<asked, answer, queue>>
    BY <1>2, GoesMoves
  <2>2. Stands(c)'
    BY <1>0, <1>2, <2>1 DEF Stands
  <2> QED
    BY <1>2, <2>1, <2>2, QueueGoes
<1>3. Places = {"idle", "write", "launch", "poll", "giveup", "look", "watch", "capture", "stop", "done"}
  BY DEF Places
<1>4. CASE Asks(c, {"write"}, "play", "launch", reply[c])
  <2>1. asked[c] = 0 /\ reply[c] = "none"
    BY <1>0, <1>4 DEF Asks, Stands
  <2> QED
    BY <1>1, <1>3, <1>4, <2>1
<1>5. CASE pc[c] = "launch" /\ answer[c] = "done" /\ Asks(c, {"launch"}, "poll", "poll", reply[c])
  <2>1. asked[c] > 0 /\ ~Queued(c, "play") /\ reply[c] = "none"
    BY <1>0, <1>5 DEF Stands, Played
  <2> QED
    BY <1>1, <1>3, <1>5, <2>1
<1>6. CASE \/ Asks(c, {"poll"}, "poll", "poll", reply[c])
           \/ Asks(c, {"poll"}, "stop", "giveup", reply[c])
           \/ Asks(c, {"watch"}, "capture", "capture", reply[c])
  <2>1. asked[c] > 0 /\ ~Queued(c, "play") /\ reply[c] = "none"
    BY <1>0, <1>6 DEF Asks, Stands, Played
  <2> QED
    BY <1>1, <1>3, <1>6, <2>1
<1>7. CASE \/ Asks(c, {"look", "watch"}, "stop", "stop", "helper")
           \/ Asks(c, {"capture"}, "stop", "stop", "fallback")
           \/ Asks(c, {"capture"}, "stop", "stop", "failed")
  <2>1. asked[c] > 0 /\ ~Queued(c, "play")
    BY <1>0, <1>7 DEF Asks, Stands, Played
  <2> QED
    BY <1>1, <1>3, <1>7, <2>1
<1>8. CASE \/ Goes(c, {"launch"}, "done", "error")
           \/ Goes(c, {"giveup"}, "done", "error")
           \/ Goes(c, {"stop"}, "done", reply[c])
  BY <1>0, <1>2, <1>3, <1>8
<1>9. CASE Goes(c, {"poll"}, "look", reply[c]) \/ Goes(c, {"look"}, "watch", reply[c])
  <2>1. asked[c] > 1 /\ reply[c] = "none"
    BY <1>0, <1>9 DEF Goes, Stands
  <2> QED
    BY <1>2, <1>3, <1>9, <2>1
<1> QED
  BY <1>4, <1>5, <1>6, <1>7, <1>8, <1>9, HandlerMoves

\* The first task is taken from the queue.
LEMMA QueueRuns ==
  ASSUME TypeInv, QueueInv, MainThread
  PROVE  QueueInv'
<1>1. PICK h \in Tasks :
         /\ queue # <<>> /\ h = queue[1] /\ queue' = Tail(queue)
         /\ UNCHANGED <<pc, asked, reply>>
         /\ \A d \in Calls : answer'[d] # answer[d] => h.call = d /\ h.number = asked[d]
  BY RunMoves
<1>2. PICK q \in Seq(Tasks) : q = Tail(queue)
  <2>1. Tail(queue) \in Seq(Tasks)
    BY <1>1, Tailed DEF TypeInv
  <2> QED
    BY <2>1, Zenon
<1>3. /\ 1 \in DOMAIN queue /\ DOMAIN q \subseteq Nat
      /\ \A i \in DOMAIN q : i + 1 \in DOMAIN queue /\ q[i] = queue[i + 1] /\ i + 1 > 1
  BY <1>1, <1>2, Tailed DEF TypeInv
<1>4. queue' = q
  BY <1>1, <1>2
<1>5. ASSUME NEW d \in Calls PROVE Stands(d)' /\ Played(d)'
  <2>1. Stands(d)'
    BY <1>1 DEF QueueInv, Stands
  <2>2. Queued(d, "play")' => Queued(d, "play")
    <3>1. ASSUME NEW i \in DOMAIN q, q[i].call = d, q[i].op = "play" PROVE Queued(d, "play")
      <4>1. i + 1 \in DOMAIN queue /\ queue[i + 1].call = d /\ queue[i + 1].op = "play"
        BY <1>3, <3>1
      <4> QED
        BY <4>1 DEF Queued
    <3>2. Queued(d, "play")' => \E i \in DOMAIN q : q[i].call = d /\ q[i].op = "play"
      BY <1>4 DEF Queued
    <3> QED
      BY <3>1, <3>2
  <2>3. CASE answer'[d] = answer[d]
    BY <1>1, <2>1, <2>2, <2>3 DEF QueueInv, Played
  <2>4. CASE answer'[d] # answer[d] /\ pc[d] = "launch"
    <3>0. asked[d] = 1
      BY <2>4 DEF QueueInv, Stands
    <3>1. h.call = d /\ h.number = 1
      BY <1>1, <2>4, <3>0
    <3>2. ASSUME NEW i \in DOMAIN q, q[i].call = d PROVE q[i].op # "play"
      <4>1. i + 1 \in DOMAIN queue /\ 1 < i + 1 /\ queue[i + 1].call = queue[1].call
        BY <1>1, <1>3, <3>1, <3>2
      <4>2. queue[1].number < queue[i + 1].number /\ queue[1].number = 1
        BY <1>1, <1>3, <3>1, <4>1 DEF QueueInv, InTurn
      <4> QED
        BY <1>3, <3>2, <4>1, <4>2 DEF QueueInv, Tasked
    <3>3. ~Queued(d, "play")'
      BY <1>4, <3>2 DEF Queued
    <3> QED
      BY <2>1, <3>3 DEF Played
  <2>5. CASE pc[d] # "launch"
    BY <1>1, <2>1, <2>2, <2>5 DEF QueueInv, Played
  <2> QED
    BY <2>1, <2>3, <2>4, <2>5
<1>6. ASSUME NEW i \in DOMAIN q PROVE Tasked(i)'
  <2>1. Tasked(i + 1)
    BY <1>3 DEF QueueInv
  <2> QED
    BY <1>1, <1>3, <1>4, <2>1 DEF Tasked
<1>7. InTurn'
  <2>1. ASSUME NEW i \in DOMAIN q, NEW j \in DOMAIN q, i < j, q[i].call = q[j].call
        PROVE  q[i].number < q[j].number
    <3>1. i + 1 < j + 1 /\ i + 1 \in DOMAIN queue /\ j + 1 \in DOMAIN queue
      BY <1>3, <2>1
    <3> QED
      BY <1>3, <2>1, <3>1 DEF QueueInv, InTurn
  <2> QED
    BY <1>4, <2>1 DEF InTurn
<1> QED
  BY <1>4, <1>5, <1>6, <1>7 DEF QueueInv

LEMMA QueueStep == TypeInv /\ QueueInv /\ [Next]_vars => QueueInv'
<1> SUFFICES ASSUME TypeInv, QueueInv, [Next]_vars PROVE QueueInv'
  OBVIOUS
<1>1. ASSUME UNCHANGED <<handler, queue>> PROVE QueueInv'
  BY <1>1 DEF handler, QueueInv, Stands, Played, Queued, Tasked, InTurn
<1>2. ASSUME NEW c \in Calls, Begin(c) PROVE QueueInv'
  <2>1. /\ pc[c] = "idle" /\ pc'[c] = "write" /\ \A d \in Calls \ {c} : pc'[d] = pc[d]
        /\ UNCHANGED <<asked, answer, reply, queue>>
    BY <1>2, Begun
  <2>2. Stands(c)'
    BY <2>1 DEF QueueInv, Stands
  <2> QED
    BY <2>1, <2>2, QueueGoes
<1>3. CASE RunProject \/ StopProject \/ Game \/ UNCHANGED vars
  BY <1>1, <1>3 DEF RunProject, StopProject, Game, GameStarts, GameEnds, HelperReady,
     HelperCaptures, vars
<1> QED
  BY <1>2, <1>3, QueueHandler, QueueRuns DEF Next

LEMMA QueueInvariant == Spec => []QueueInv
<1>1. Init => QueueInv
  BY DEF Init, QueueInv, Stands, Played, Queued, Tasked, InTurn
<1> QED
  BY <1>1, QueueStep, TypeInvariant, PTL DEF Spec

----------------------------------------------------------------------------
(* Whose scene is played                                                   *)

\* No scene is played before its call began; one whose call has asked to stop it
\* is played no longer than that takes.
StopsAsked(c) ==
    pc[c] \in {"giveup", "stop"} \/ (pc[c] = "done" /\ asked[c] > 1)
GameInv ==
    \A c \in Calls : game.by = c => /\ pc[c] \notin {"idle", "write"}
                                    /\ StopsAsked(c) => Queued(c, "stop")


\* Nothing about a call's scene changes while it, the queue and its place do not.
LEMMA GameStep == TypeInv /\ QueueInv /\ GameInv /\ [Next]_vars => GameInv'
<1> SUFFICES ASSUME TypeInv, QueueInv, GameInv, [Next]_vars PROVE GameInv'
  OBVIOUS
<1>1. ASSUME UNCHANGED <<handler, queue>>, game'.by \in {game.by, "nobody", "user"}
      PROVE  GameInv'
  <2>1. \A c \in Calls : game'.by = c => game.by = c
    BY <1>1, NamesAssumption
  <2> QED
    BY <1>1, <2>1 DEF handler, GameInv, StopsAsked, Queued
<1>2. CASE UNCHANGED vars \/ RunProject \/ StopProject \/ Game
  <2>1. UNCHANGED <<handler, queue>>
    BY <1>2 DEF RunProject, StopProject, Game, GameStarts, GameEnds, HelperReady,
       HelperCaptures, vars
  <2>2. CASE UNCHANGED vars \/ RunProject \/ StopProject \/ GameEnds
    BY <1>1, <2>1, <2>2, NoGameTyped DEF RunProject, StopProject, GameEnds, vars
  <2>3. CASE GameStarts \/ HelperReady \/ HelperCaptures
    <3>1. game'.by = game.by
      BY <2>3 DEF GameStarts, HelperReady, HelperCaptures, TypeInv, Games
    <3> QED
      BY <1>1, <2>1, <3>1
  <2> QED
    BY <1>2, <2>2, <2>3 DEF Game
<1>3. ASSUME NEW c \in Calls, Begin(c) PROVE GameInv'
  <2>1. /\ pc[c] = "idle" /\ pc'[c] = "write" /\ \A d \in Calls \ {c} : pc'[d] = pc[d]
        /\ UNCHANGED <<asked, queue, game>>
    BY <1>3, Begun
  <2> QED
    BY <2>1 DEF GameInv, StopsAsked, Queued
<1>4. ASSUME NEW c \in Calls, Handler(c) PROVE GameInv'
  <2>0. UNCHANGED game /\ reply[c] \in {"none", "error", "helper", "fallback", "failed"}
    BY <1>4, HandlerMoves DEF TypeInv
  <2>1. ASSUME NEW from, NEW op \in {"play", "poll", "stop", "capture"},
               NEW place \in Places \ {"idle", "write", "done"}, NEW how,
               Asks(c, from, op, place, how),
               place \in {"giveup", "stop"} => op = "stop"
        PROVE  GameInv'
    <3>1. /\ pc'[c] = place /\ asked'[c] = asked[c] + 1
          /\ \A d \in Calls \ {c} : pc'[d] = pc[d] /\ asked'[d] = asked[d] /\ answer'[d] = answer[d]
          /\ DOMAIN queue' = DOMAIN queue \cup {Len(queue) + 1}
          /\ \A i \in DOMAIN queue : queue'[i] = queue[i] /\ i < Len(queue) + 1 /\ i \in Nat
          /\ queue'[Len(queue) + 1] = [call |-> c, op |-> op, number |-> asked[c] + 1]
      <4>1. Invoked(c, op, place)
        BY <2>1, InvokeMoves DEF Asks
      <4> QED
        BY <4>1 DEF Invoked
    <3>2. op = "stop" => Queued(c, "stop")'
      BY <3>1 DEF Queued
    <3>3. \A d \in Calls : Queued(d, "stop") => Queued(d, "stop")'
      <4>1. ASSUME NEW d \in Calls, NEW i \in DOMAIN queue, queue[i].call = d, queue[i].op = "stop"
            PROVE  \E j \in DOMAIN queue' : queue'[j].call = d /\ queue'[j].op = "stop"
        BY <3>1, <4>1
      <4> QED
        BY <4>1 DEF Queued
    <3>4. place \notin {"idle", "write", "done"}
      OBVIOUS
    <3>5. ASSUME NEW d \in Calls, game.by = d
          PROVE  pc'[d] \notin {"idle", "write"} /\ (StopsAsked(d)' => Queued(d, "stop")')
      <4>1. CASE d = c
        BY <2>1, <3>1, <3>2, <3>4, <4>1 DEF StopsAsked
      <4>2. CASE d # c
        BY <3>1, <3>3, <3>5, <4>2 DEF GameInv, StopsAsked
      <4> QED
        BY <4>1, <4>2
    <3> QED
      BY <2>0, <3>5 DEF GameInv
  <2>2. ASSUME NEW from, NEW place \in Places \ {"idle", "write", "giveup", "stop"},
               NEW how \in {"none", "error", "helper", "fallback", "failed"},
               Goes(c, from, place, how), from \subseteq Places \ {"idle", "write"},
               place = "done" => StopsAsked(c) \/ asked[c] = 1
        PROVE  GameInv'
    <3>1. /\ pc[c] \in from /\ pc'[c] = place /\ UNCHANGED <<asked, queue>>
          /\ \A d \in Calls \ {c} : pc'[d] = pc[d]
      BY <2>2, GoesMoves
    <3>2. \A d \in Calls : Queued(d, "stop")' = Queued(d, "stop")
      BY <3>1 DEF Queued
    <3>3. ASSUME NEW d \in Calls, game.by = d
          PROVE  pc'[d] \notin {"idle", "write"} /\ (StopsAsked(d)' => Queued(d, "stop")')
      <4>1. CASE d = c
        <5>1. StopsAsked(c)' => StopsAsked(c)
          BY <2>2, <3>1 DEF StopsAsked
        <5> QED
          BY <3>1, <3>2, <3>3, <4>1, <5>1 DEF GameInv
      <4>2. CASE d # c
        BY <3>1, <3>2, <3>3, <4>2 DEF GameInv, StopsAsked
      <4> QED
        BY <4>1, <4>2
    <3> QED
      BY <2>0, <3>3 DEF GameInv
  <2>3. Places = {"idle", "write", "launch", "poll", "giveup", "look", "watch", "capture", "stop", "done"}
    BY DEF Places
  <2>4. CASE \/ Asks(c, {"write"}, "play", "launch", reply[c])
             \/ Asks(c, {"launch"}, "poll", "poll", reply[c])
             \/ Asks(c, {"poll"}, "poll", "poll", reply[c])
             \/ Asks(c, {"poll"}, "stop", "giveup", reply[c])
    BY <2>1, <2>3, <2>4
  <2>5. CASE \/ Asks(c, {"look", "watch"}, "stop", "stop", "helper")
             \/ Asks(c, {"watch"}, "capture", "capture", reply[c])
             \/ Asks(c, {"capture"}, "stop", "stop", "fallback")
             \/ Asks(c, {"capture"}, "stop", "stop", "failed")
    BY <2>1, <2>3, <2>5
  <2>6. CASE Goes(c, {"launch"}, "done", "error")
    <3>1. asked[c] = 1
      BY <2>6 DEF Goes, QueueInv, Stands
    <3> QED
      BY <2>2, <2>3, <2>6, <3>1
  <2>7. CASE Goes(c, {"giveup"}, "done", "error") \/ Goes(c, {"stop"}, "done", reply[c])
    <3>1. StopsAsked(c)
      BY <2>7 DEF Goes, StopsAsked
    <3> QED
      BY <2>0, <2>2, <2>3, <2>7, <3>1
  <2>8. CASE Goes(c, {"poll"}, "look", reply[c]) \/ Goes(c, {"look"}, "watch", reply[c])
    BY <2>0, <2>2, <2>3, <2>8
  <2> QED
    BY <1>4, <2>4, <2>5, <2>6, <2>7, <2>8, HandlerMoves
<1>5. CASE MainThread
  <2>1. PICK h \in Tasks :
           /\ queue # <<>> /\ h = queue[1] /\ queue' = Tail(queue)
           /\ UNCHANGED <<pc, asked>>
           /\ \/ h.op = "play" /\ game' = Launched(h.call)
              \/ h.op = "stop" /\ game' = NoGame
              \/ h.op \in {"poll", "capture"} /\ game' = game
    BY <1>5, RunMoves
  <2>2. /\ 1 \in DOMAIN queue
        /\ \A i \in DOMAIN queue :
              i # 1 => i - 1 \in DOMAIN Tail(queue) /\ Tail(queue)[i - 1] = queue[i]
    BY <2>1, Tailed DEF TypeInv
  <2>3. h.call \in Calls
    BY DEF Tasks
  <2>4. CASE h.op = "play" /\ game' = Launched(h.call)
    <3>1. game'.by = h.call
      BY <2>3, <2>4, NoGameTyped
    <3>2. Queued(h.call, "play")
      BY <2>1, <2>2, <2>4 DEF Queued
    <3>3. ~(asked[h.call] > 1) /\ asked[h.call] # 0
      <4>1. queue[1].number >= 1 /\ queue[1].number <= asked[queue[1].call] /\ h.number \in Nat
        BY <2>2 DEF QueueInv, Tasked, Tasks
      <4>2. asked[h.call] \in Nat
        BY <2>3 DEF TypeInv
      <4> QED
        BY <2>1, <2>3, <3>2, <4>1, <4>2 DEF QueueInv, Played
    <3>4. Stands(h.call)
      BY <2>3 DEF QueueInv
    <3>5. pc[h.call] \notin {"idle", "write"} /\ ~StopsAsked(h.call)
      BY <3>3, <3>4 DEF Stands, StopsAsked
    <3> QED
      BY <2>1, <3>1, <3>5 DEF GameInv, StopsAsked
  <2>5. CASE h.op = "stop" /\ game' = NoGame
    BY <2>5, NoGameTyped, NamesAssumption DEF GameInv
  <2>6. CASE h.op \in {"poll", "capture"} /\ game' = game
    <3>1. ASSUME NEW d \in Calls, Queued(d, "stop") PROVE Queued(d, "stop")'
      <4>1. PICK i \in DOMAIN queue : queue[i].call = d /\ queue[i].op = "stop"
        BY <3>1 DEF Queued
      <4>2. i # 1
        BY <2>1, <2>6, <4>1
      <4>3. i - 1 \in DOMAIN queue' /\ queue'[i - 1] = queue[i]
        BY <2>1, <2>2, <4>2
      <4>4. \E j \in DOMAIN queue' : queue'[j].call = d /\ queue'[j].op = "stop"
        BY <4>1, <4>3
      <4> QED
        BY <4>4 DEF Queued
    <3> QED
      BY <2>1, <2>6, <3>1 DEF GameInv, StopsAsked
  <2> QED
    BY <2>1, <2>4, <2>5, <2>6
<1> QED
  BY <1>2, <1>3, <1>4, <1>5 DEF Next

LEMMA GameInvariant == Spec => []GameInv
<1>1. Init => GameInv
  BY NoGameTyped, NamesAssumption DEF Init, GameInv
<1> QED
  BY <1>1, GameStep, QueueInvariant, TypeInvariant, PTL DEF Spec

----------------------------------------------------------------------------
(* A call that has the editor to itself                                    *)

Fallen(c) == pc[c] = "capture" \/ reply[c] \in {"fallback", "failed"}
Alone(c) ==
    /\ pc[c] # "idle" /\ \A d \in Calls \ {c} : ~Active(d)
    /\ \A i \in DOMAIN queue : queue[i].call = c
    /\ game.by \in {"nobody", c}
    /\ pc[c] # "write" => sidecar = Output[c]
    /\ game.target \in {"unread", Output[c]}
    /\ ~Fallen(c) => ~Queued(c, "capture") /\ shot[Output[c]] \in {"nobody", c}
    /\ reply[c] = "helper" => shot[Output[c]] = c
AloneInv == \A c \in alone : Alone(c)

LEMMA AloneKept ==
  ASSUME NEW x \in Calls, Alone(x), UNCHANGED <<handler, queue, sidecar>>,
         game'.by \in {"nobody", x}, game'.target \in {"unread", Output[x]},
         shot'[Output[x]] \in {x, shot[Output[x]]}
  PROVE  Alone(x)'
  BY DEF handler, Alone, Active, Fallen, Queued

\* A call that finds no other one at work, no task and no stray scene is alone.
LEMMA AloneBegins ==
  ASSUME TypeInv, QueueInv, GameInv, NEW c \in Calls, Begin(c), c \in alone'
  PROVE  Alone(c)'
<1>1. /\ pc[c] = "idle" /\ pc'[c] = "write" /\ \A d \in Calls \ {c} : pc'[d] = pc[d]
      /\ UNCHANGED <<asked, answer, reply, queue, game, shot>>
  BY Begun
<1>2. /\ \A d \in Calls : ~Active(d)
      /\ queue = <<>> /\ game.by # "user" /\ ~Stray /\ shot[Output[c]] = "nobody"
  BY DEF Begin
<1>3. game.by = "nobody"
  <2>1. ASSUME NEW d \in Calls, game.by = d PROVE FALSE
    <3>1. pc[d] = "done" /\ asked[d] # 0 /\ asked[d] # 1 /\ asked[d] \in Nat
      BY <1>2, <2>1 DEF Active, Stray, GameInv, QueueInv, Stands, TypeInv
    <3>2. Queued(d, "stop")
      BY <2>1, <3>1 DEF GameInv, StopsAsked
    <3> QED
      BY <1>2, <3>2 DEF Queued
  <2> QED
    BY <1>2, <2>1 DEF TypeInv, Games
<1>4. game.target = "unread"
  BY <1>3, NoGameTyped DEF TypeInv
<1>5. reply[c] = "none"
  BY <1>1 DEF QueueInv, Stands
<1> QED
  BY <1>1, <1>2, <1>3, <1>4, <1>5 DEF Alone, Active, Queued

LEMMA AloneHandler ==
  ASSUME TypeInv, QueueInv, NEW c \in Calls, Alone(c), Handler(c)
  PROVE  Alone(c)'
<1>0. /\ UNCHANGED <<game, shot>> /\ sidecar' = Output[c]
      /\ reply[c] \in {"none", "error", "helper", "fallback", "failed"} /\ Stands(c)
  BY HandlerMoves DEF TypeInv, QueueInv, Alone
<1>1. ASSUME NEW from, NEW op \in {"play", "poll", "stop", "capture"},
             NEW place \in Places \ {"idle", "write", "done"},
             NEW how \in {"none", "error", "helper", "fallback", "failed"},
             Asks(c, from, op, place, how),
             \/ place = "capture" /\ how # "helper"
             \/ how \in {"fallback", "failed"}
             \/ ~Fallen(c) /\ op # "capture" /\ (how = "helper" => shot[Output[c]] = c)
      PROVE  Alone(c)'
  <2>1. /\ pc'[c] = place /\ \A d \in Calls \ {c} : pc'[d] = pc[d]
        /\ DOMAIN queue' = DOMAIN queue \cup {Len(queue) + 1}
        /\ \A i \in DOMAIN queue : queue'[i] = queue[i]
        /\ queue'[Len(queue) + 1].call = c /\ queue'[Len(queue) + 1].op = op
    <3>1. Invoked(c, op, place)
      BY <1>1, InvokeMoves DEF Asks
    <3> QED
      BY <3>1 DEF Invoked
  <2>2. reply'[c] = how
    BY <1>1 DEF Asks, TypeInv
  <2>3. \A i \in DOMAIN queue' : queue'[i].call = c
    BY <2>1 DEF Alone
  <2>4. place \notin {"idle", "write"}
    BY <1>1
  <2>5. ~Fallen(c)' => ~Queued(c, "capture")' /\ shot[Output[c]] \in {"nobody", c}
    <3>1. CASE place = "capture" \/ how \in {"fallback", "failed"}
      BY <2>1, <2>2, <3>1 DEF Fallen
    <3>2. CASE ~Fallen(c) /\ op # "capture"
      <4>1. ~Queued(c, "capture") /\ shot[Output[c]] \in {"nobody", c}
        BY <3>2 DEF Alone
      <4>2. ~Queued(c, "capture")'
        BY <2>1, <3>2, <4>1 DEF Queued
      <4> QED
        BY <4>1, <4>2
    <3> QED
      BY <1>1, <3>1, <3>2
  <2>6. reply'[c] = "helper" => shot[Output[c]] = c
    BY <1>1, <2>2
  <2>7. \A d \in Calls \ {c} : ~Active(d)'
    BY <2>1 DEF Alone, Active
  <2> QED
    BY <1>0, <2>1, <2>3, <2>4, <2>5, <2>6, <2>7 DEF Alone
<1>2. ASSUME NEW from, NEW place \in Places \ {"idle", "write", "capture"},
             NEW how \in {"none", "error", "helper", "fallback", "failed"},
             Goes(c, from, place, how),
             pc[c] # "capture", how = reply[c] \/ (reply[c] = "none" /\ how # "helper")
      PROVE  Alone(c)'
  <2>1. /\ pc'[c] = place /\ reply'[c] = how /\ UNCHANGED queue
        /\ \A d \in Calls \ {c} : pc'[d] = pc[d]
    BY <1>2, GoesMoves
  <2>2. Queued(c, "capture")' = Queued(c, "capture")
    BY <2>1 DEF Queued
  <2>3. ~Fallen(c)' => ~Fallen(c)
    BY <1>2, <2>1 DEF Fallen
  <2>4. \A d \in Calls \ {c} : ~Active(d)'
    BY <2>1 DEF Alone, Active
  <2> QED
    BY <1>0, <1>2, <2>1, <2>2, <2>3, <2>4 DEF Alone
<1>3. Places = {"idle", "write", "launch", "poll", "giveup", "look", "watch", "capture", "stop", "done"}
  BY DEF Places
<1>4. pc[c] \notin {"capture", "stop", "done"} => reply[c] = "none" /\ ~Fallen(c)
  BY <1>0 DEF Stands, Fallen
<1>5. CASE \/ Asks(c, {"write"}, "play", "launch", reply[c])
           \/ Asks(c, {"launch"}, "poll", "poll", reply[c])
           \/ Asks(c, {"poll"}, "poll", "poll", reply[c])
           \/ Asks(c, {"poll"}, "stop", "giveup", reply[c])
           \/ Asks(c, {"watch"}, "capture", "capture", reply[c])
  <2>1. reply[c] = "none" /\ ~Fallen(c)
    BY <1>4, <1>5 DEF Asks
  <2> QED
    BY <1>0, <1>1, <1>3, <1>5, <2>1
<1>6. CASE Asks(c, {"look", "watch"}, "stop", "stop", "helper") /\ shot[Output[c]] # "nobody"
  <2>1. ~Fallen(c)
    BY <1>4, <1>6 DEF Asks
  <2>2. shot[Output[c]] = c
    BY <1>6, <2>1 DEF Alone
  <2> QED
    BY <1>1, <1>3, <1>6, <2>1, <2>2
<1>7. CASE \/ Asks(c, {"capture"}, "stop", "stop", "fallback")
           \/ Asks(c, {"capture"}, "stop", "stop", "failed")
  BY <1>1, <1>3, <1>7
<1>8. CASE \/ Goes(c, {"launch"}, "done", "error")
           \/ Goes(c, {"poll"}, "look", reply[c])
           \/ Goes(c, {"giveup"}, "done", "error")
           \/ Goes(c, {"look"}, "watch", reply[c])
  <2>1. reply[c] = "none" /\ pc[c] # "capture"
    BY <1>4, <1>8 DEF Goes
  <2> QED
    BY <1>0, <1>2, <1>3, <1>8, <2>1
<1>9. CASE Goes(c, {"stop"}, "done", reply[c])
  <2>1. pc[c] # "capture"
    BY <1>9 DEF Goes
  <2> QED
    BY <1>0, <1>2, <1>3, <1>9, <2>1
<1> QED
  BY <1>5, <1>6, <1>7, <1>8, <1>9, HandlerMoves

LEMMA AloneRuns ==
  ASSUME TypeInv, QueueInv, NEW x \in Calls, Alone(x), MainThread
  PROVE  Alone(x)'
<1>1. PICK h \in Tasks :
         /\ queue # <<>> /\ h = queue[1] /\ queue' = Tail(queue)
         /\ UNCHANGED <<pc, asked, polls, reply, sidecar, alone>>
         /\ \/ h.op = "play" /\ game' = Launched(h.call) /\ shot' = shot
            \/ h.op = "poll" /\ game' = game /\ shot' = shot
            \/ h.op = "stop" /\ game' = NoGame /\ shot' = shot
            \/ /\ h.op = "capture" /\ game' = game
               /\ shot' \in {shot, [shot EXCEPT ![Output[h.call]] = "editor"]}
  BY RunMoves
<1>2. /\ 1 \in DOMAIN queue
      /\ \A i \in DOMAIN queue' : i + 1 \in DOMAIN queue /\ queue'[i] = queue[i + 1]
  BY <1>1, Tailed DEF TypeInv
<1>3. h.call = x
  BY <1>1, <1>2 DEF Alone
<1>4. \A i \in DOMAIN queue' : queue'[i].call = x
  BY <1>2 DEF Alone
<1>5. Queued(x, "capture")' => Queued(x, "capture")
  BY <1>2 DEF Queued
<1>6. game'.by \in {"nobody", x} /\ game'.target \in {"unread", Output[x]}
  BY <1>1, <1>3, NoGameTyped DEF Alone
<1>7. /\ Active(x)' = Active(x) /\ Fallen(x)' = Fallen(x)
      /\ \A d \in Calls \ {x} : ~Active(d)'
  BY <1>1 DEF Alone, Active, Fallen
<1>8. CASE shot' = shot
  BY <1>1, <1>4, <1>5, <1>6, <1>7, <1>8 DEF Alone
<1>9. CASE h.op = "capture"
  <2>1. Queued(x, "capture")
    BY <1>1, <1>2, <1>3, <1>9 DEF Queued
  <2>2. Fallen(x)
    BY <2>1 DEF Alone
  <2>3. reply[x] # "helper"
    BY <2>2 DEF Fallen, QueueInv, Stands
  <2> QED
    BY <1>1, <1>4, <1>6, <1>7, <2>2, <2>3 DEF Alone
<1> QED
  BY <1>1, <1>8, <1>9

LEMMA AloneStep == TypeInv /\ QueueInv /\ GameInv /\ AloneInv /\ [Next]_vars => AloneInv'
<1> SUFFICES ASSUME TypeInv, QueueInv, GameInv, AloneInv, [Next]_vars, NEW x \in alone'
             PROVE  Alone(x)'
  BY DEF AloneInv
<1>1. alone \subseteq Calls /\ \A c \in alone : alone = {c}
  BY DEF TypeInv
<1>2. ASSUME UNCHANGED <<handler, queue, sidecar, alone>>, game'.by \in {game.by, "nobody"},
             game.by \in {"nobody", x} => game'.target \in {"unread", game.target, Output[x]},
             game.by \in {"nobody", x} /\ game.target \in {"unread", Output[x]} =>
                 shot'[Output[x]] \in {x, shot[Output[x]]}
      PROVE  Alone(x)'
  <2>1. x \in Calls /\ Alone(x)
    BY <1>1, <1>2 DEF AloneInv
  <2>2. /\ game'.by \in {"nobody", x} /\ game'.target \in {"unread", Output[x]}
        /\ shot'[Output[x]] \in {x, shot[Output[x]]}
    BY <1>2, <2>1 DEF Alone
  <2> QED
    BY <1>2, <2>1, <2>2, AloneKept
<1>3. CASE UNCHANGED vars
  BY <1>2, <1>3 DEF vars
<1>4. ASSUME NEW c \in Calls, Begin(c) PROVE Alone(x)'
  <2>1. x = c
    BY <1>4 DEF Begin
  <2> QED
    BY <1>4, <2>1, AloneBegins
<1>5. ASSUME NEW c \in Calls, Handler(c) PROVE Alone(x)'
  <2>1. x \in Calls /\ Alone(x)
    BY <1>1, <1>5, HandlerMoves DEF AloneInv
  <2>2. Active(c)
    BY <1>5, HandlerMoves DEF Asks, Goes, Active
  <2>3. x = c
    BY <2>1, <2>2 DEF Alone
  <2> QED
    BY <1>5, <2>1, <2>3, AloneHandler
<1>6. CASE MainThread
  <2>1. alone' = alone
    BY <1>6, RunMoves
  <2> QED
    BY <1>1, <1>6, <2>1, AloneRuns DEF AloneInv
<1>7. CASE RunProject
  BY <1>7 DEF RunProject
<1>8. CASE StopProject \/ GameEnds
  BY <1>2, <1>8, NoGameTyped DEF StopProject, GameEnds
<1>9. CASE GameStarts
  <2>1. game'.by = game.by /\ game'.target = game.target
    BY <1>9 DEF GameStarts, TypeInv, Games
  <2> QED
    BY <1>2, <1>9, <2>1 DEF GameStarts
<1>10. CASE HelperReady
  <2>1. UNCHANGED <<handler, queue, sidecar, shot, alone>> /\ game.by # "nobody"
    BY <1>10 DEF HelperReady, TypeInv, NoGame
  <2>2. game'.by = game.by /\ game'.target = IF sidecar \in Paths THEN sidecar ELSE DefaultPath
    BY <1>10 DEF HelperReady, TypeInv, Games
  <2>3. x \in Calls /\ Alone(x)
    BY <1>1, <2>1 DEF AloneInv
  <2>4. game.by = x /\ pc[x] # "write"
    BY <2>1, <2>3 DEF Alone, GameInv
  <2>5. sidecar = Output[x] /\ Output[x] \in Paths
    BY <2>3, <2>4 DEF Alone, Paths
  <2> QED
    BY <1>2, <2>1, <2>2, <2>5
<1>11. CASE HelperCaptures
  <2>1. /\ UNCHANGED <<handler, queue, sidecar, alone>> /\ game.by # "nobody"
        /\ game.target # "unread" /\ shot' = [shot EXCEPT ![game.target] = game.by]
    BY <1>11 DEF HelperCaptures, TypeInv, NoGame
  <2>2. game'.by = game.by /\ game'.target = game.target
    BY <1>11 DEF HelperCaptures, TypeInv, Games
  <2>3. x \in Calls
    BY <1>1, <2>1
  <2>4. game.by = x /\ game.target = Output[x] => shot'[Output[x]] = x
    BY <2>1, <2>3 DEF TypeInv, Paths
  <2> QED
    BY <1>2, <2>1, <2>2, <2>4
<1> QED
  BY <1>3, <1>4, <1>5, <1>6, <1>7, <1>8, <1>9, <1>10, <1>11 DEF Next, Game

LEMMA AloneInvariant == Spec => []AloneInv
<1>1. Init => AloneInv
  BY DEF Init, AloneInv
<1> QED
  BY <1>1, AloneStep, GameInvariant, QueueInvariant, TypeInvariant, PTL DEF Spec

----------------------------------------------------------------------------

\* The scene a call plays undisturbed reads that call's path from the sidecar
\* file, never an older path or an empty file.
THEOREM HelperReadsOwnPath == Spec => []HelperAgrees
<1>1. AloneInv => HelperAgrees
  BY DEF AloneInv, Alone, HelperAgrees
<1> QED
  BY <1>1, AloneInvariant, PTL

\* A call that had the editor to itself and found its path free does not report
\* another scene's picture as its own.
THEOREM ScreenshotIsOwn == Spec => []OwnScreenshot
<1>1. AloneInv => OwnScreenshot
  BY DEF AloneInv, Alone, OwnScreenshot
<1> QED
  BY <1>1, AloneInvariant, PTL
=============================================================================
