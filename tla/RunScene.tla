------------------------------ MODULE RunScene ------------------------------
(***************************************************************************)
(* The tools that play a scene (src/tools/editor/editor_tools.cpp).        *)
(* run_scene_with_timeout runs on its client's thread: it leaves the       *)
(* output path in a sidecar file, has the main thread play the scene, polls*)
(* it until the game is up, waits for the screenshot that a helper script  *)
(* inside the game writes, and has the main thread stop the game.          *)
(*                                                                         *)
(* The main thread's queue is the one of module MainThreadQueue: a task    *)
(* runs even when the thread that waited for it has given up. The game is  *)
(* a process of its own; the editor plays one at a time. It, and the user, *)
(* are external; the helper (screenshot_helper.gd) is the project's.       *)
(***************************************************************************)
EXTENDS Naturals, Sequences, SequencesExt

CONSTANTS
    Calls,          \* calls of run_scene_with_timeout, each by its own thread
    Output,         \* [call -> output_path]
    DefaultPath,    \* the helper's own screenshot_path
    Helped,         \* whose scenes have the helper: calls and "user"
    MaxPolls,       \* bound: polls of is_playing_scene (60 in the code)
    MaxUser         \* bound: run_project calls

Paths == {Output[c] : c \in Calls} \cup {DefaultPath}

ASSUME RunAssumption == MaxPolls \in Nat \ {0} /\ MaxUser \in Nat
ASSUME NamesAssumption == {"user", "nobody"} \cap Calls = {}   \* who plays a scene, if no call does

VARIABLES
    pc,         \* [call -> where the handler is]
    asked,      \* [call -> tasks it has queued]
    polls,      \* [call -> polls done]
    answer,     \* [call -> what its newest task returned, or "none"]
    reply,      \* [call -> "none", "error", "helper", "fallback" or "failed"]
    queue,      \* the main thread's tasks: [call, op, number]
    game,       \* the running game: [by, phase, target, captured]
    sidecar,    \* mcp_screenshot_target.txt: a path, "empty" or "absent"
    shot,       \* [path -> whose picture the file is, "nobody" if there is none]
    user,       \* run_project calls so far
    alone       \* history: the calls that had the editor to themselves

handler == <<pc, asked, polls, answer, reply>>
vars == <<handler, queue, game, sidecar, shot, user, alone>>

NoGame == [by |-> "nobody", phase |-> "none", target |-> "unread", captured |-> FALSE]
Launched(by) == [NoGame EXCEPT !.by = by, !.phase = "starting"]
Waiting == {"launch", "poll", "giveup", "capture", "stop"}
Active(c) == pc[c] \notin {"idle", "done"}

----------------------------------------------------------------------------
(* MainThreadQueue::invoke_on_main                                         *)

\* The task is queued, and the call waits for it at the place.
Invoke(c, op, place) ==
    /\ queue' = Append(queue, [call |-> c, op |-> op, number |-> asked[c] + 1])
    /\ asked' = [asked EXCEPT ![c] = @ + 1]
    /\ answer' = [answer EXCEPT ![c] = "none"]
    /\ pc' = [pc EXCEPT ![c] = place]

\* What invoke_on_main returns: without an answer, the 10 s are over.
Heard(c) == IF answer[c] = "none" THEN "timeout" ELSE answer[c]

Awaited(task) == pc[task.call] \in Waiting /\ task.number = asked[task.call]
Answer(task, value) ==
    answer' = IF Awaited(task) THEN [answer EXCEPT ![task.call] = value] ELSE answer

----------------------------------------------------------------------------
(* run_scene_with_timeout                                                  *)

\* The scene of a call that gave up waiting for its launch: nothing stops it.
Stray == game.by \in Calls /\ pc[game.by] = "done" /\ asked[game.by] = 1

\* A call is alone as long as no other call or user plays a scene, if it finds
\* nothing left to do for the main thread and no file at its output path.
Begin(c) ==
    /\ pc[c] = "idle"
    /\ pc' = [pc EXCEPT ![c] = "write"]
    /\ sidecar' = "empty"                      \* std::ios::trunc
    /\ alone' = IF /\ \A d \in Calls : ~Active(d)
                   /\ queue = <<>> /\ game.by # "user" /\ ~Stray /\ shot[Output[c]] = "nobody"
                THEN {c} ELSE {}
    /\ UNCHANGED <<asked, polls, answer, reply, queue, game, shot, user>>

WriteTargetBuffered(c) ==
    /\ pc[c] = "write"
    /\ Invoke(c, "play", "launch")
    /\ UNCHANGED <<polls, reply, game, sidecar, shot, user, alone>>

WriteTarget(c) ==
    /\ pc[c] = "write"
    /\ sidecar' = Output[c]
    /\ Invoke(c, "play", "launch")
    /\ UNCHANGED <<polls, reply, game, shot, user, alone>>

Done(c, how) ==
    /\ pc' = [pc EXCEPT ![c] = "done"]
    /\ reply' = [reply EXCEPT ![c] = how]

\* A launch that timed out is an error; its task stays queued.
LaunchReturns(c) ==
    /\ pc[c] = "launch"
    /\ \/ Heard(c) = "done" /\ Invoke(c, "poll", "poll") /\ UNCHANGED reply
       \/ Heard(c) = "timeout" /\ Done(c, "error") /\ UNCHANGED <<asked, answer, queue>>
    /\ UNCHANGED <<polls, game, sidecar, shot, user, alone>>

\* Any answer but "true" is a poll that has not found a game.
GiveUpQuietly(c) ==
    /\ pc[c] = "poll" /\ Heard(c) # "true" /\ polls[c] + 1 = MaxPolls
    /\ Done(c, "error")
    /\ UNCHANGED <<asked, polls, answer, queue, game, sidecar, shot, user, alone>>

GiveUp(c) ==
    /\ pc[c] = "poll" /\ Heard(c) # "true" /\ polls[c] + 1 = MaxPolls
    /\ Invoke(c, "stop", "giveup")
    /\ UNCHANGED <<polls, reply, game, sidecar, shot, user, alone>>

PollAgain(c) ==
    /\ pc[c] = "poll" /\ Heard(c) # "true" /\ polls[c] + 1 < MaxPolls
    /\ polls' = [polls EXCEPT ![c] = @ + 1]
    /\ Invoke(c, "poll", "poll")
    /\ UNCHANGED <<reply, game, sidecar, shot, user, alone>>

PollFinds(c) ==
    /\ pc[c] = "poll" /\ Heard(c) = "true"
    /\ pc' = [pc EXCEPT ![c] = "look"]
    /\ UNCHANGED <<asked, polls, answer, reply, queue, game, sidecar, shot, user, alone>>

GiveUpReturns(c) ==
    /\ pc[c] = "giveup"
    /\ Done(c, "error")
    /\ UNCHANGED <<asked, polls, answer, queue, game, sidecar, shot, user, alone>>

\* The file is looked for at once and then until timeout_ms: one that exists
\* with a byte in it is the screenshot.
SeesFile(c) ==
    /\ pc[c] \in {"look", "watch"} /\ shot[Output[c]] # "nobody"
    /\ reply' = [reply EXCEPT ![c] = "helper"]
    /\ Invoke(c, "stop", "stop")
    /\ UNCHANGED <<polls, game, sidecar, shot, user, alone>>

LooksInVain(c) ==
    /\ pc[c] = "look" /\ shot[Output[c]] = "nobody"
    /\ pc' = [pc EXCEPT ![c] = "watch"]
    /\ UNCHANGED <<asked, polls, answer, reply, queue, game, sidecar, shot, user, alone>>

WatchForever(c) == FALSE

WatchEnds(c) ==
    /\ pc[c] = "watch"
    /\ Invoke(c, "capture", "capture")
    /\ UNCHANGED <<polls, reply, game, sidecar, shot, user, alone>>

\* captured is a local of the handler that the capture task writes.
CaptureReturns(c) ==
    /\ pc[c] = "capture"
    /\ reply' = [reply EXCEPT ![c] = IF answer[c] = "captured" THEN "fallback" ELSE "failed"]
    /\ Invoke(c, "stop", "stop")
    /\ UNCHANGED <<polls, game, sidecar, shot, user, alone>>

StopReturns(c) ==
    /\ pc[c] = "stop"
    /\ pc' = [pc EXCEPT ![c] = "done"]
    /\ UNCHANGED <<asked, polls, answer, reply, queue, game, sidecar, shot, user, alone>>

Handler(c) ==
    \/ WriteTarget(c) \/ LaunchReturns(c) \/ PollAgain(c) \/ PollFinds(c)
    \/ GiveUp(c) \/ GiveUpReturns(c) \/ SeesFile(c) \/ LooksInVain(c)
    \/ WatchEnds(c) \/ CaptureReturns(c) \/ StopReturns(c)

----------------------------------------------------------------------------
(* The main thread                                                         *)

Run(op) == queue # <<>> /\ Head(queue).op = op /\ queue' = Tail(queue)

\* play_custom_scene: the game that runs is stopped first.
RunPlay ==
    /\ Run("play")
    /\ game' = Launched(Head(queue).call)
    /\ Answer(Head(queue), "done")
    /\ UNCHANGED <<pc, asked, polls, reply, sidecar, shot, user, alone>>

RunPoll ==
    /\ Run("poll")
    /\ Answer(Head(queue), IF game.phase = "running" THEN "true" ELSE "false")
    /\ UNCHANGED <<pc, asked, polls, reply, game, sidecar, shot, user, alone>>

RunStop ==
    /\ Run("stop")
    /\ game' = NoGame
    /\ Answer(Head(queue), "done")
    /\ UNCHANGED <<pc, asked, polls, reply, sidecar, shot, user, alone>>

\* A viewport of the editor is saved at the call's path, or none can be.
RunCapture ==
    /\ Run("capture")
    /\ \/ /\ shot' = [shot EXCEPT ![Output[Head(queue).call]] = "editor"]
          /\ Answer(Head(queue), "captured")
       \/ Answer(Head(queue), "failed") /\ UNCHANGED shot
    /\ UNCHANGED <<pc, asked, polls, reply, game, sidecar, user, alone>>

MainThread == RunPlay \/ RunPoll \/ RunStop \/ RunCapture

----------------------------------------------------------------------------
(* Other clients' tools, between two tasks of the main thread              *)

RunProject ==
    /\ user < MaxUser
    /\ user' = user + 1
    /\ game' = Launched("user")
    /\ alone' = {}
    /\ UNCHANGED <<handler, queue, sidecar, shot>>

StopProject ==
    /\ game' = NoGame
    /\ UNCHANGED <<handler, queue, sidecar, shot, user, alone>>

----------------------------------------------------------------------------
(* The game and its helper                                                 *)

GameStarts ==
    /\ game.phase = "starting"
    /\ game' = [game EXCEPT !.phase = "running"]
    /\ UNCHANGED <<handler, queue, sidecar, shot, user, alone>>

\* The scene does not load, or the game ends by itself.
GameEnds ==
    /\ game.phase # "none"
    /\ game' = NoGame
    /\ UNCHANGED <<handler, queue, sidecar, shot, user, alone>>

HelperReady ==
    /\ game.by \in Helped /\ game.phase = "running" /\ game.target = "unread"
    /\ game' = [game EXCEPT !.target = IF sidecar \in Paths THEN sidecar ELSE DefaultPath]
    /\ UNCHANGED <<handler, queue, sidecar, shot, user, alone>>

\* save_png, once, after wait_frames frames. The file is there, for the handler,
\* from its first byte on; the game may be stopped before the last one.
HelperCaptures ==
    /\ game.target # "unread" /\ ~game.captured
    /\ game' = [game EXCEPT !.captured = TRUE]
    /\ shot' = [shot EXCEPT ![game.target] = game.by]
    /\ UNCHANGED <<handler, queue, sidecar, user, alone>>

Game == GameStarts \/ GameEnds \/ HelperReady \/ HelperCaptures

----------------------------------------------------------------------------

Init ==
    /\ pc = [c \in Calls |-> "idle"]
    /\ asked = [c \in Calls |-> 0] /\ polls = [c \in Calls |-> 0]
    /\ answer = [c \in Calls |-> "none"] /\ reply = [c \in Calls |-> "none"]
    /\ queue = <<>> /\ game = NoGame
    /\ sidecar = "absent" /\ shot = [p \in Paths |-> "nobody"]
    /\ user = 0 /\ alone = {}

Next ==
    \/ \E c \in Calls : Begin(c) \/ Handler(c)
    \/ MainThread \/ RunProject \/ StopProject \/ Game

\* The editor draws frames, and so runs its queue; a client's thread goes on.
Spec ==
    /\ Init /\ [][Next]_vars
    /\ WF_vars(MainThread)
    /\ \A c \in Calls : WF_vars(Handler(c))

----------------------------------------------------------------------------

\* Every call is answered: each wait has a deadline, and so has each loop.
CallReturns == \A c \in Calls : pc[c] = "write" ~> pc[c] = "done"

\* A call whose launch was answered does not leave its scene running, whichever
\* of its later waits times out: the task that stops it stays in the queue
\* ("the sole owner of the play loop", screenshot_helper.gd:11).
StopsWhatItStarted ==
    \A c \in Calls : pc[c] \in Waiting \ {"launch"} /\ game.by = c ~> game.by # c

\* The scene a call plays undisturbed reads that call's path from the sidecar
\* file, never an older path or an empty file.
HelperAgrees ==
    \A c \in alone : game.by = c => game.target \in {"unread", Output[c]}

\* A call that had the editor to itself and found its path free does not report
\* another scene's picture as its own.
OwnScreenshot ==
    \A c \in alone : pc[c] = "done" /\ reply[c] = "helper" => shot[Output[c]] = c
=============================================================================
