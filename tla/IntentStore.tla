---------------------------- MODULE IntentStore ----------------------------
(***************************************************************************)
(* The intent tools' state (src/tools/intent/intent_tools.cpp): arrays of  *)
(* entries and a recording switch, kept in memory under g_state_mutex and  *)
(* rewritten to .gear_mcp/intent_state.json by every mutation.  The        *)
(* handlers run on the client threads; the editor may crash at any moment, *)
(* and the next one reads the file.                                        *)
(*                                                                         *)
(* A file is absent, whole, or cut off: a text that does not parse (the    *)
(* empty one included).                                                    *)
(***************************************************************************)
EXTENDS Naturals, Sequences, FiniteSets

CONSTANTS
    Threads,     \* client threads
    Kinds,       \* the arrays
    Unguarded,   \* those whose handler does not look at the switch: {"snapshots"}
    MaxKept,     \* MaxKept[k]: entries trim_array keeps (200, 500, 1000, 5000)
    MaxRequests, \* bound: requests of one thread
    MaxCrashes,  \* bound: crashes of the editor
    MaxFaults    \* bound: file operations that fail

ASSUME IntentAssumption ==
    /\ Unguarded \subseteq Kinds
    /\ MaxKept \in [Kinds -> Nat \ {0}]
    /\ MaxRequests \in Nat /\ MaxCrashes \in Nat /\ MaxFaults \in Nat

Entries == [thread : Threads, n : 1..MaxRequests]
States == [arr : [Kinds -> Seq(Entries)], recording : BOOLEAN]
Default == [arr |-> [k \in Kinds |-> <<>>], recording |-> TRUE]
NoThread == "nobody"
ASSUME NobodyAssumption == NoThread \notin Threads

Files == [text : {"absent", "cut", "whole"}, state : States]
NoFile == [text |-> "absent", state |-> Default]
Cut == [text |-> "cut", state |-> Default]
Whole(s) == [text |-> "whole", state |-> s]

Requests ==
    [type : {"append"}, kind : Kinds]
    \cup [type : {"mode"}, on : BOOLEAN]
    \cup {[type |-> "inspect"]}

VARIABLES
    file,      \* intent_state.json
    tmp,       \* intent_state.json.tmp
    mem,       \* g_state
    loaded,    \* g_loaded
    lock,      \* the thread that holds g_state_mutex
    pc,        \* pc[t]: where t is in its handler
    req,       \* req[t]: its present (or last) request
    nreq,      \* nreq[t]: requests of t so far
    crashes,   \* crashes so far
    faults,    \* file operations that failed so far
    recorded,  \* history: recorded[k], the entries ever appended, in order
    acked,     \* history: the entries whose append was answered with success
    modes      \* history: the settings of the switch its users must reckon with

vars == <<file, tmp, mem, loaded, lock, pc, req, nreq, crashes, faults, recorded, acked, modes>>
fileVars == <<file, tmp>>
memVars == <<mem, loaded>>
requestVars == <<req, nreq, crashes>>
histVars == <<recorded, acked, modes>>

Present(t) == [thread |-> t, n |-> nreq[t]]
Goto(t, label) == pc' = [pc EXCEPT ![t] = label]

\* The state a new process makes of a file: a fresh one when there is none or
\* when it does not parse.
Contents(f) == IF f.text = "whole" THEN f.state ELSE Default

Init ==
    /\ file \in {NoFile, Cut} \cup {Whole([Default EXCEPT !.recording = b]) : b \in BOOLEAN}
    /\ tmp = NoFile
    /\ mem = Default /\ loaded = FALSE
    /\ lock = NoThread
    /\ pc = [t \in Threads |-> "idle"]
    /\ req = [t \in Threads |-> [type |-> "inspect"]]
    /\ nreq = [t \in Threads |-> 0]
    /\ crashes = 0 /\ faults = 0
    /\ recorded = [k \in Kinds |-> <<>>]
    /\ acked = {}
    /\ modes = {Contents(file).recording}

----------------------------------------------------------------------------
(* The handlers                                                            *)

Request(t, r) ==
    /\ pc[t] = "idle" /\ nreq[t] < MaxRequests
    /\ req' = [req EXCEPT ![t] = r]
    /\ nreq' = [nreq EXCEPT ![t] = @ + 1]
    /\ modes' = IF r.type = "mode" THEN modes \cup {r.on} ELSE modes
    /\ Goto(t, "load")
    /\ UNCHANGED <<fileVars, memVars, lock, crashes, faults, recorded, acked>>

TrimNothing(k, s) == s

\* trim_array: the last MaxKept[k] entries stay.
Trim(k, s) ==
    IF Len(s) > MaxKept[k] THEN SubSeq(s, Len(s) - MaxKept[k] + 1, Len(s)) ELSE s

LoadForgetsMode(t) ==
    /\ pc[t] = "load"
    /\ loaded \/ lock = NoThread
    /\ mem' = IF loaded THEN mem ELSE [mem EXCEPT !.arr = Contents(file).arr]
    /\ loaded' = TRUE
    /\ Goto(t, "lock")
    /\ UNCHANGED <<faults, fileVars, lock, requestVars, histVars>>

LoadMerges(t) ==
    /\ pc[t] = "load"
    /\ lock = NoThread
    /\ mem' = [Contents(file) EXCEPT !.arr = [k \in Kinds |-> Trim(k, mem.arr[k] \o @[k])]]
    /\ loaded' = TRUE
    /\ Goto(t, "lock")
    /\ UNCHANGED <<faults, fileVars, lock, requestVars, histVars>>

\* load_state: the first thread to come reads the file, under the mutex.
Load(t) ==
    /\ pc[t] = "load"
    /\ loaded \/ lock = NoThread
    /\ mem' = IF loaded THEN mem ELSE Contents(file)
    /\ loaded' = TRUE
    /\ Goto(t, "lock")
    /\ UNCHANGED <<faults, fileVars, lock, requestVars, histVars>>

RecordsAlways(k) == TRUE

\* is_recording, in the handlers that ask.
Records(k) == mem.recording \/ k \in Unguarded

\* An append-op under the mutex: the entry goes into memory ...
Enter(t) ==
    /\ pc[t] = "lock" /\ lock = NoThread
    /\ req[t].type = "append" /\ Records(req[t].kind)
    /\ LET k == req[t].kind
       IN  /\ mem' = [mem EXCEPT !.arr[k] = Trim(k, Append(@, Present(t)))]
           /\ recorded' = [recorded EXCEPT ![k] = Append(@, Present(t))]
    /\ lock' = t
    /\ Goto(t, "open")
    /\ UNCHANGED <<faults, fileVars, loaded, requestVars, acked, modes>>

\* ... or nothing is recorded.
EnterOff(t) ==
    /\ pc[t] = "lock" /\ lock = NoThread
    /\ req[t].type = "append" /\ ~Records(req[t].kind)
    /\ Goto(t, "idle")
    /\ UNCHANGED <<faults, fileVars, memVars, lock, requestVars, histVars>>

SetRecordingMode(t) ==
    /\ pc[t] = "lock" /\ lock = NoThread
    /\ req[t].type = "mode"
    /\ mem' = [mem EXCEPT !.recording = req[t].on]
    /\ lock' = t
    /\ Goto(t, "open")
    /\ UNCHANGED <<faults, fileVars, loaded, requestVars, histVars>>

\* summarize_intent_context, generate_handoff_brief, export_handoff_pack and
\* get_recording_mode read the state under the mutex.
Inspect(t) ==
    /\ pc[t] = "lock" /\ lock = NoThread
    /\ req[t].type = "inspect"
    /\ Goto(t, "idle")
    /\ UNCHANGED <<faults, fileVars, memVars, lock, requestVars, histVars>>

----------------------------------------------------------------------------
(* persist_state, under the mutex                                          *)

\* Does a file operation fail?
Fault(fails) ==
    /\ fails => faults < MaxFaults
    /\ faults' = IF fails THEN faults + 1 ELSE faults

OpenInPlace(t) ==
    /\ pc[t] = "open"
    /\ file' = Cut /\ Goto(t, "write")
    /\ UNCHANGED <<tmp, faults, memVars, lock, requestVars, histVars>>

\* Truncate the temporary file; when that fails nothing is written at all.
Open(t) ==
    /\ pc[t] = "open"
    /\ \/ Fault(FALSE) /\ tmp' = Cut /\ Goto(t, "write")
       \/ Fault(TRUE) /\ UNCHANGED tmp /\ Goto(t, "unlock")
    /\ UNCHANGED <<file, memVars, lock, requestVars, histVars>>

\* The write is not checked.
Write(t) ==
    /\ pc[t] = "write"
    /\ \/ Fault(FALSE) /\ tmp' = Whole(mem)
       \/ Fault(TRUE) /\ tmp' = Cut
    /\ Goto(t, "rename")
    /\ UNCHANGED <<file, memVars, lock, requestVars, histVars>>

Rename(t) ==
    /\ pc[t] = "rename"
    /\ \/ Fault(FALSE) /\ file' = tmp /\ tmp' = NoFile /\ Goto(t, "unlock")
       \/ Fault(TRUE) /\ UNCHANGED fileVars /\ Goto(t, "copy")
    /\ UNCHANGED <<memVars, lock, requestVars, histVars>>

\* The fallback: the target is truncated, then filled; dst's state is not
\* looked at.
CopyOpen(t) ==
    /\ pc[t] = "copy"
    /\ \/ Fault(FALSE) /\ file' = Cut /\ Goto(t, "copyWrite")
       \/ Fault(TRUE) /\ UNCHANGED file /\ Goto(t, "unlink")
    /\ UNCHANGED <<tmp, memVars, lock, requestVars, histVars>>

CopyWrite(t) ==
    /\ pc[t] = "copyWrite"
    /\ \/ Fault(FALSE) /\ file' = tmp
       \/ Fault(TRUE) /\ file' = Cut
    /\ Goto(t, "unlink")
    /\ UNCHANGED <<tmp, memVars, lock, requestVars, histVars>>

Unlink(t) ==
    /\ pc[t] = "unlink"
    /\ \/ Fault(FALSE) /\ tmp' = NoFile
       \/ Fault(TRUE) /\ UNCHANGED tmp
    /\ Goto(t, "unlock")
    /\ UNCHANGED <<file, memVars, lock, requestVars, histVars>>

\* The settings that the mode requests of the threads ts may yet make.
Pending(ts) == {req[u].on : u \in {v \in ts : pc[v] # "idle" /\ req[v].type = "mode"}}

\* Success is answered whatever became of the file.
Unlock(t) ==
    /\ pc[t] = "unlock"
    /\ lock' = NoThread
    /\ acked' = IF req[t].type = "append" THEN acked \cup {Present(t)} ELSE acked
    /\ modes' = IF req[t].type = "mode" THEN {req[t].on} \cup Pending(Threads \ {t}) ELSE modes
    /\ Goto(t, "idle")
    /\ UNCHANGED <<faults, fileVars, memVars, requestVars, recorded>>

----------------------------------------------------------------------------

\* The editor dies and is started again: only the files are left.
Crash ==
    /\ crashes < MaxCrashes
    /\ crashes' = crashes + 1
    /\ mem' = Default /\ loaded' = FALSE /\ lock' = NoThread
    /\ pc' = [t \in Threads |-> "idle"]
    /\ UNCHANGED <<faults, fileVars, req, nreq, histVars>>

Handler(t) ==
    \/ \E r \in Requests : Request(t, r)
    \/ Load(t) \/ Enter(t) \/ EnterOff(t) \/ SetRecordingMode(t) \/ Inspect(t)
    \/ Open(t) \/ Write(t) \/ Rename(t) \/ CopyOpen(t) \/ CopyWrite(t) \/ Unlink(t) \/ Unlock(t)

Next == Crash \/ \E t \in Threads : Handler(t)

Spec == Init /\ [][Next]_vars

----------------------------------------------------------------------------
(* Properties                                                              *)

\* Every variable has its type, and no array outgrows what trim_array keeps.
TypeOK ==
    /\ file \in Files /\ tmp \in Files
    /\ mem \in States /\ \A k \in Kinds : Len(mem.arr[k]) <= MaxKept[k]
    /\ loaded \in BOOLEAN
    /\ lock \in Threads \cup {NoThread}
    /\ pc \in [Threads -> {"idle", "load", "lock", "open", "write", "rename", "copy",
                           "copyWrite", "unlink", "unlock"}]
    /\ req \in [Threads -> Requests]
    /\ nreq \in [Threads -> 0..MaxRequests]
    /\ crashes \in 0..MaxCrashes /\ faults \in 0..MaxFaults
    /\ recorded \in [Kinds -> Seq(Entries)]
    /\ acked \in SUBSET Entries
    /\ modes \in SUBSET BOOLEAN

OnFile(k, e) == \E i \in DOMAIN Contents(file).arr[k] : Contents(file).arr[k][i] = e

\* The entries of kind k that came after recorded[k][i] and were kept.
Newer(k, i) ==
    {j \in DOMAIN recorded[k] :
        j > i /\ (recorded[k][j] \in acked \/ OnFile(k, recorded[k][j]))}

\* An entry whose recording was answered with success is found by the next
\* editor after a crash, unless enough newer ones pushed it out.  (A failed
\* file operation is not noticed, and is followed by the same answer.)
AckedSurvive ==
    faults = 0 => \A k \in Kinds : \A i \in DOMAIN recorded[k] :
        recorded[k][i] \in acked =>
            OnFile(k, recorded[k][i]) \/ Cardinality(Newer(k, i)) >= MaxKept[k]

\* What the tools answer from memory is what a restart would answer.
MemoryMatchesFile == faults = 0 /\ loaded /\ lock = NoThread => mem = Contents(file)

\* Entries keep the order in which they were recorded, over crashes and
\* whatever a failed write or copy left behind; none is doubled.
FileInOrder ==
    \A k \in Kinds :
        LET s == Contents(file).arr[k]
        IN  \A i, j \in DOMAIN s : i < j =>
                \E a, b \in DOMAIN recorded[k] :
                    a < b /\ recorded[k][a] = s[i] /\ recorded[k][b] = s[j]

\* Once turning the switch off was answered, and until somebody asks to turn
\* it on, no decision, work step or trace is recorded: by a call that was
\* already on its way to the mutex no more than by the editor after a crash.
OffIsOff ==
    [][faults = 0 /\ modes = {FALSE} => \A k \in Kinds \ Unguarded : recorded'[k] = recorded[k]]_vars
============================================================================
