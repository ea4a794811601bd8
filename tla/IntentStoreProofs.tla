-------------------------- MODULE IntentStoreProofs --------------------------
(***************************************************************************)
(* Theorems about IntentStore, for every set of threads and of arrays,     *)
(* every length an array is trimmed to and every bound on requests,        *)
(* crashes and faults.                                                     *)
(***************************************************************************)
EXTENDS IntentStore, SequenceTheorems, FunctionTheorems, FiniteSetTheorems, TLAPS

----------------------------------------------------------------------------
(* Arrays, states and files                                                *)

Lengths(s) == \A k \in Kinds : Len(s.arr[k]) <= MaxKept[k]

LEMMA KeptIsPositive == \A k \in Kinds : MaxKept[k] \in Nat \ {0}
  BY IntentAssumption

\* trim_array returns the last entries, as many as it keeps.
LEMMA TrimKeepsLast ==
  ASSUME NEW k \in Kinds, NEW S, NEW s \in Seq(S)
  PROVE  /\ Trim(k, s) \in Seq(S)
         /\ Len(Trim(k, s)) = IF Len(s) > MaxKept[k] THEN MaxKept[k] ELSE Len(s)
         /\ \A i \in 1..Len(Trim(k, s)) : Trim(k, s)[i] = s[Len(s) - Len(Trim(k, s)) + i]
<1>1. MaxKept[k] \in Nat \ {0} /\ Len(s) \in Nat
  BY KeptIsPositive
<1>2. CASE Len(s) > MaxKept[k]
  <2>1. Trim(k, s) = SubSeq(s, Len(s) - MaxKept[k] + 1, Len(s))
    BY <1>2 DEF Trim
  <2>2. PICK n \in Nat, m \in Nat : n = Len(s) /\ m = MaxKept[k] /\ n > m
    BY <1>1, <1>2
  <2>3. /\ SubSeq(s, n - m + 1, n) \in Seq(S) /\ Len(SubSeq(s, n - m + 1, n)) = m
        /\ \A i \in 1..m : SubSeq(s, n - m + 1, n)[i] = s[n - m + i]
    BY <2>2
  <2> QED
    BY <1>2, <2>1, <2>2, <2>3
<1>3. CASE ~(Len(s) > MaxKept[k])
  <2>1. Trim(k, s) = s
    BY <1>3 DEF Trim
  <2> QED
    BY <1>1, <1>3, <2>1
<1> QED
  BY <1>2, <1>3

LEMMA DefaultTyped ==
  /\ Default \in States /\ Lengths(Default) /\ Default.recording = TRUE
  /\ \A k \in Kinds : Default.arr[k] = <<>>
<1>1. [k \in Kinds |-> <<>>] \in [Kinds -> Seq(Entries)]
  OBVIOUS
<1>2. \A k \in Kinds : Default.arr[k] = <<>>
  BY DEF Default
<1> QED
  BY <1>1, <1>2, KeptIsPositive DEF Default, States, Lengths

LEMMA FilesTyped ==
  /\ NoFile \in Files /\ NoFile.state = Default /\ Contents(NoFile) = Default
  /\ Cut \in Files /\ Cut.state = Default /\ Contents(Cut) = Default
  /\ \A s \in States : Whole(s) \in Files /\ Whole(s).state = s /\ Contents(Whole(s)) = s
  BY DefaultTyped DEF Files, NoFile, Cut, Whole, Contents

LEMMA ContentsTyped ==
  ASSUME NEW f \in Files, Lengths(f.state)
  PROVE  Contents(f) \in States /\ Lengths(Contents(f)) /\ Contents(f) \in {f.state, Default}
  BY DefaultTyped DEF Files, Contents

----------------------------------------------------------------------------
(* What the steps change                                                   *)

Saving(t) ==
    Open(t) \/ Write(t) \/ Rename(t) \/ CopyOpen(t) \/ CopyWrite(t) \/ Unlink(t)
Holding == {"open", "write", "rename", "copy", "copyWrite", "unlink", "unlock"}

\* A request that is not "idle" was counted.
Counted == \A t \in Threads : pc[t] # "idle" => nreq[t] > 0
TypeInv == TypeOK /\ Lengths(file.state) /\ Lengths(tmp.state) /\ Counted

LEMMA RequestsTyped ==
  ASSUME NEW r \in Requests
  PROVE  /\ r.type \in {"append", "mode", "inspect"}
         /\ r.type = "append" => r.kind \in Kinds
         /\ r.type = "mode" => r.on \in BOOLEAN
  BY DEF Requests

LEMMA PresentTyped ==
  ASSUME TypeInv, NEW t \in Threads, pc[t] # "idle"
  PROVE  Present(t) \in Entries /\ Present(t).thread = t /\ Present(t).n = nreq[t]
<1>1. nreq[t] \in 1..MaxRequests
  BY IntentAssumption DEF TypeInv, TypeOK, Counted
<1> QED
  BY <1>1 DEF Present, Entries

\* persist_state moves its thread and touches the files and nothing else.
LEMMA SaveMoves ==
  ASSUME TypeInv, NEW t \in Threads, Saving(t)
  PROVE  /\ pc[t] \in Holding /\ pc'[t] \in Holding
         /\ \A u \in Threads \ {t} : pc'[u] = pc[u]
         /\ pc' \in [Threads -> Holding \cup {"idle", "load", "lock"}]
         /\ UNCHANGED <<memVars, lock, requestVars, histVars>>
         /\ file' \in {file, tmp, Cut}
         /\ tmp' \in {tmp, Cut, NoFile, Whole(mem)}
         /\ faults' \in 0..MaxFaults /\ (faults' = 0 => faults = 0)
<1>1. pc \in [Threads -> Holding \cup {"idle", "load", "lock"}] /\ faults \in 0..MaxFaults
  BY DEF TypeInv, TypeOK, Holding
<1>2. MaxFaults \in Nat
  BY IntentAssumption
<1>3. ASSUME NEW fails \in BOOLEAN, Fault(fails)
      PROVE  faults' \in 0..MaxFaults /\ (faults' = 0 => faults = 0)
  BY <1>1, <1>2, <1>3 DEF Fault
<1>4. faults' \in 0..MaxFaults /\ (faults' = 0 => faults = 0)
  BY <1>3 DEF Saving, Open, Write, Rename, CopyOpen, CopyWrite, Unlink
<1>5. \E label \in Holding : pc' = [pc EXCEPT ![t] = label]
  BY DEF Saving, Open, Write, Rename, CopyOpen, CopyWrite, Unlink, Goto, Holding
<1>6. /\ pc'[t] \in Holding /\ \A u \in Threads \ {t} : pc'[u] = pc[u]
      /\ pc' \in [Threads -> Holding \cup {"idle", "load", "lock"}]
  BY <1>1, <1>5
<1>7. /\ pc[t] \in Holding
      /\ UNCHANGED <<memVars, lock, requestVars, histVars>>
      /\ file' \in {file, tmp, Cut}
      /\ tmp' \in {tmp, Cut, NoFile, Whole(mem)}
  BY DEF Saving, Open, Write, Rename, CopyOpen, CopyWrite, Unlink, Holding, fileVars
<1> QED
  BY <1>4, <1>6, <1>7

\* An append under the mutex: the entry ends up last in its array, if the array
\* keeps anything, and last in what was recorded.
LEMMA EnterMoves ==
  ASSUME TypeInv, NEW t \in Threads, Enter(t)
  PROVE  \E k \in Kinds :
           /\ k = req[t].kind /\ req[t].type = "append" /\ Records(k)
           /\ Present(t) \in Entries /\ Present(t).thread = t /\ Present(t).n = nreq[t]
           /\ mem' \in States /\ mem'.recording = mem.recording
           /\ mem'.arr[k] = Trim(k, Append(mem.arr[k], Present(t)))
           /\ \A j \in Kinds \ {k} : mem'.arr[j] = mem.arr[j]
           /\ recorded' \in [Kinds -> Seq(Entries)]
           /\ recorded'[k] = Append(recorded[k], Present(t))
           /\ \A j \in Kinds \ {k} : recorded'[j] = recorded[j]
<1>1. /\ pc[t] = "lock" /\ req[t].type = "append" /\ Records(req[t].kind)
      /\ mem' = [mem EXCEPT !.arr[req[t].kind] = Trim(req[t].kind, Append(@, Present(t)))]
      /\ recorded' = [recorded EXCEPT ![req[t].kind] = Append(@, Present(t))]
  BY DEF Enter
<1>2. PICK k \in Kinds : k = req[t].kind
  BY <1>1, RequestsTyped DEF TypeInv, TypeOK
<1>3. Present(t) \in Entries /\ Present(t).thread = t /\ Present(t).n = nreq[t]
  BY <1>1, PresentTyped
<1>4. mem \in States /\ mem.arr \in [Kinds -> Seq(Entries)] /\ mem.recording \in BOOLEAN
  BY DEF TypeInv, TypeOK, States
<1>5. PICK new \in Seq(Entries) : new = Trim(k, Append(mem.arr[k], Present(t)))
  <2>1. Append(mem.arr[k], Present(t)) \in Seq(Entries)
    BY <1>3, <1>4
  <2> QED
    BY <2>1, TrimKeepsLast
<1>6. mem' = [mem EXCEPT !.arr = [mem.arr EXCEPT ![k] = new]]
  BY <1>1, <1>2, <1>5
<1>7. /\ mem'.recording = mem.recording /\ mem'.arr = [mem.arr EXCEPT ![k] = new]
      /\ mem' \in States
  BY <1>4, <1>6 DEF States
<1>8. mem'.arr[k] = new /\ \A j \in Kinds \ {k} : mem'.arr[j] = mem.arr[j]
  BY <1>4, <1>7
<1>9. recorded \in [Kinds -> Seq(Entries)]
  BY DEF TypeInv, TypeOK
<1>10. /\ recorded' \in [Kinds -> Seq(Entries)]
       /\ recorded'[k] = Append(recorded[k], Present(t))
       /\ \A j \in Kinds \ {k} : recorded'[j] = recorded[j]
  BY <1>1, <1>2, <1>3, <1>9
<1> QED
  BY <1>1, <1>2, <1>3, <1>5, <1>7, <1>8, <1>10

----------------------------------------------------------------------------
(* Type correctness                                                        *)

LEMMA TypeInit == Init => TypeInv
<1> SUFFICES ASSUME Init PROVE TypeInv
  OBVIOUS
<1>1. Default \in States /\ Lengths(Default)
  BY DefaultTyped
<1>2. file \in Files /\ Lengths(file.state)
  <2>1. CASE file \in {NoFile, Cut}
    BY <1>1, <2>1, FilesTyped
  <2>2. ASSUME NEW b \in BOOLEAN, file = Whole([Default EXCEPT !.recording = b])
        PROVE  file \in Files /\ Lengths(file.state)
    <3>1. /\ [Default EXCEPT !.recording = b] \in States
          /\ [Default EXCEPT !.recording = b].arr = Default.arr
      BY <1>1 DEF States
    <3> QED
      BY <1>1, <2>2, <3>1, FilesTyped DEF Lengths
  <2> QED
    BY <2>1, <2>2 DEF Init
<1>3. Contents(file).recording \in BOOLEAN
  BY <1>2, ContentsTyped DEF States
<1>4. tmp \in Files /\ Lengths(tmp.state) /\ mem \in States /\ Lengths(mem)
  BY <1>1, FilesTyped DEF Init
<1>5. [type |-> "inspect"] \in Requests
  BY DEF Requests
<1>6. recorded \in [Kinds -> Seq(Entries)]
  BY DEF Init
<1>7. Counted
  BY DEF Init, Counted
<1>8. /\ crashes \in 0..MaxCrashes /\ faults \in 0..MaxFaults
      /\ nreq \in [Threads -> 0..MaxRequests]
  BY IntentAssumption DEF Init
<1> QED
  BY <1>2, <1>3, <1>4, <1>5, <1>6, <1>7, <1>8 DEF Init, TypeInv, TypeOK, Lengths

LEMMA TypeHandler ==
  ASSUME TypeInv, NEW t \in Threads, Handler(t)
  PROVE  TypeInv'
<1>0. /\ TypeOK /\ Lengths(file.state) /\ Lengths(tmp.state) /\ Counted
      /\ pc \in [Threads -> Holding \cup {"idle", "load", "lock"}]
  BY DEF TypeInv, TypeOK, Holding
<1>1. ASSUME NEW r \in Requests, Request(t, r) PROVE TypeInv'
  <2>1. nreq[t] \in Nat /\ nreq[t] < MaxRequests /\ nreq' = [nreq EXCEPT ![t] = nreq[t] + 1]
    BY <1>0, <1>1 DEF Request, TypeOK
  <2>2. nreq' \in [Threads -> 0..MaxRequests] /\ nreq'[t] > 0
        /\ \A u \in Threads \ {t} : nreq'[u] = nreq[u]
    BY <1>0, <2>1, IntentAssumption DEF TypeOK
  <2>3. /\ pc' \in [Threads -> Holding \cup {"idle", "load", "lock"}]
        /\ \A u \in Threads \ {t} : pc'[u] = pc[u]
    BY <1>0, <1>1 DEF Request, Goto
  <2>4. modes' \in SUBSET BOOLEAN
    BY <1>0, <1>1, RequestsTyped DEF Request, TypeOK
  <2>5. req' \in [Threads -> Requests]
    BY <1>0, <1>1 DEF Request, TypeOK
  <2>6. Counted'
    BY <1>0, <2>2, <2>3 DEF Counted
  <2> QED
    BY <1>0, <1>1, <2>2, <2>3, <2>4, <2>5, <2>6 DEF Request, TypeInv, TypeOK, Holding, fileVars,
       memVars
<1>2. CASE Load(t)
  <2>1. /\ mem' \in States /\ Lengths(mem')
        /\ pc' \in [Threads -> Holding \cup {"idle", "load", "lock"}]
        /\ pc[t] = "load" /\ \A u \in Threads \ {t} : pc'[u] = pc[u]
    BY <1>0, <1>2, ContentsTyped DEF Load, Goto, TypeOK, Lengths
  <2>2. Counted'
    BY <1>0, <1>2, <2>1 DEF Load, Counted, requestVars
  <2> QED
    BY <1>0, <1>2, <2>1, <2>2 DEF Load, TypeInv, TypeOK, Holding, Lengths, fileVars, requestVars,
       histVars
<1>3. CASE Enter(t)
  <2>1. PICK k \in Kinds :
           /\ mem' \in States /\ mem'.arr[k] = Trim(k, Append(mem.arr[k], Present(t)))
           /\ \A j \in Kinds \ {k} : mem'.arr[j] = mem.arr[j]
           /\ recorded' \in [Kinds -> Seq(Entries)] /\ Present(t) \in Entries
    BY <1>3, EnterMoves
  <2>2. mem.arr[k] \in Seq(Entries)
    BY <1>0 DEF TypeOK, States
  <2>3. Len(mem'.arr[k]) <= MaxKept[k]
    <3>0. Append(mem.arr[k], Present(t)) \in Seq(Entries)
      BY <2>1, <2>2
    <3>1. PICK s \in Seq(Entries) : s = Append(mem.arr[k], Present(t))
      BY <3>0, Zenon
    <3>2. Len(Trim(k, s)) = IF Len(s) > MaxKept[k] THEN MaxKept[k] ELSE Len(s)
      BY TrimKeepsLast
    <3>3. MaxKept[k] \in Nat /\ Len(s) \in Nat
      BY KeptIsPositive
    <3> QED
      BY <2>1, <3>1, <3>2, <3>3
  <2>4. Lengths(mem')
    BY <1>0, <2>1, <2>3 DEF TypeOK, Lengths
  <2>5. /\ pc' \in [Threads -> Holding \cup {"idle", "load", "lock"}]
        /\ pc[t] = "lock" /\ \A u \in Threads \ {t} : pc'[u] = pc[u]
    BY <1>0, <1>3 DEF Enter, Goto, Holding
  <2>6. Counted'
    BY <1>0, <1>3, <2>5 DEF Enter, Counted, requestVars
  <2> QED
    BY <1>0, <1>3, <2>1, <2>4, <2>5, <2>6 DEF Enter, TypeInv, TypeOK, Holding, Lengths, fileVars,
       requestVars
<1>4. CASE EnterOff(t) \/ Inspect(t)
  <2>1. /\ pc' \in [Threads -> Holding \cup {"idle", "load", "lock"}]
        /\ pc'[t] = "idle" /\ \A u \in Threads \ {t} : pc'[u] = pc[u]
        /\ UNCHANGED <<faults, fileVars, memVars, lock, requestVars, histVars>>
    BY <1>0, <1>4 DEF EnterOff, Inspect, Goto
  <2>2. Counted'
    BY <1>0, <2>1 DEF Counted, requestVars
  <2> QED
    BY <1>0, <2>1, <2>2 DEF TypeInv, TypeOK, Holding, Lengths, fileVars, memVars, requestVars,
       histVars
<1>5. CASE SetRecordingMode(t)
  <2>1. req[t].on \in BOOLEAN
    BY <1>0, <1>5, RequestsTyped DEF SetRecordingMode, TypeOK
  <2>2. mem' \in States /\ mem'.arr = mem.arr
    BY <1>0, <1>5, <2>1 DEF SetRecordingMode, TypeOK, States
  <2>3. /\ pc' \in [Threads -> Holding \cup {"idle", "load", "lock"}]
        /\ pc[t] = "lock" /\ \A u \in Threads \ {t} : pc'[u] = pc[u]
    BY <1>0, <1>5 DEF SetRecordingMode, Goto, Holding
  <2>4. Counted'
    BY <1>0, <1>5, <2>3 DEF SetRecordingMode, Counted, requestVars
  <2> QED
    BY <1>0, <1>5, <2>2, <2>3, <2>4 DEF SetRecordingMode, TypeInv, TypeOK, Holding, Lengths,
       fileVars, requestVars, histVars
<1>6. CASE Saving(t)
  <2>1. /\ pc[t] # "idle" /\ \A u \in Threads \ {t} : pc'[u] = pc[u]
        /\ pc' \in [Threads -> Holding \cup {"idle", "load", "lock"}]
        /\ UNCHANGED <<memVars, lock, requestVars, histVars>>
        /\ file' \in {file, tmp, Cut}
        /\ tmp' \in {tmp, Cut, NoFile, Whole(mem)}
        /\ faults' \in 0..MaxFaults
    BY <1>6, SaveMoves DEF Holding
  <2>2. file' \in Files /\ Lengths(file'.state)
    BY <1>0, <2>1, FilesTyped, DefaultTyped DEF TypeOK
  <2>3. tmp' \in Files /\ Lengths(tmp'.state)
    <3>1. mem \in States /\ Lengths(mem)
      BY <1>0 DEF TypeOK, Lengths
    <3>2. CASE tmp' = Whole(mem)
      <4>1. Whole(mem) \in Files /\ Whole(mem).state = mem
        BY <3>1, FilesTyped
      <4> QED
        BY <3>1, <3>2, <4>1 DEF Lengths
    <3>3. CASE tmp' \in {tmp, Cut, NoFile}
      BY <1>0, <3>3, FilesTyped, DefaultTyped DEF TypeOK
    <3> QED
      BY <2>1, <3>2, <3>3
  <2>4. Counted'
    BY <1>0, <2>1 DEF Counted, requestVars
  <2> QED
    BY <1>0, <2>1, <2>2, <2>3, <2>4 DEF TypeInv, TypeOK, Holding, Lengths, memVars, requestVars,
       histVars
<1>7. CASE Unlock(t)
  <2>1. pc[t] = "unlock" /\ Present(t) \in Entries
    BY <1>7, PresentTyped DEF Unlock
  <2>2. acked' \in SUBSET Entries
    BY <1>0, <1>7, <2>1 DEF Unlock, TypeOK
  <2>3. \A u \in Threads : req[u].type = "mode" => req[u].on \in BOOLEAN
    BY <1>0, RequestsTyped DEF TypeOK
  <2>4. modes' \in SUBSET BOOLEAN
    BY <1>0, <1>7, <2>3 DEF Unlock, Pending, TypeOK
  <2>5. /\ pc' \in [Threads -> Holding \cup {"idle", "load", "lock"}]
        /\ pc'[t] = "idle" /\ \A u \in Threads \ {t} : pc'[u] = pc[u]
    BY <1>0, <1>7 DEF Unlock, Goto
  <2>6. Counted'
    BY <1>0, <1>7, <2>5 DEF Unlock, Counted, requestVars
  <2> QED
    BY <1>0, <1>7, <2>2, <2>4, <2>5, <2>6 DEF Unlock, TypeInv, TypeOK, Holding, Lengths, fileVars,
       memVars, requestVars
<1> QED
  BY <1>1, <1>2, <1>3, <1>4, <1>5, <1>6, <1>7 DEF Handler, Saving

LEMMA TypeStep == TypeInv /\ [Next]_vars => TypeInv'
<1> SUFFICES ASSUME TypeInv, [Next]_vars PROVE TypeInv'
  OBVIOUS
<1>1. CASE UNCHANGED vars
  BY <1>1 DEF vars, TypeInv, TypeOK, Lengths, Counted
<1>2. CASE Crash
  <2>1. crashes' \in 0..MaxCrashes
    BY <1>2, IntentAssumption DEF Crash, TypeInv, TypeOK
  <2>2. Default \in States /\ Lengths(Default)
    BY DefaultTyped
  <2>3. Counted'
    BY <1>2 DEF Crash, Counted
  <2> QED
    BY <1>2, <2>1, <2>2, <2>3 DEF Crash, TypeInv, TypeOK, Lengths, fileVars, histVars
<1> QED
  BY <1>1, <1>2, TypeHandler DEF Next

LEMMA TypeInvariant == Spec => []TypeInv
  BY TypeInit, TypeStep, PTL DEF Spec

\* Every variable has its type, and no array outgrows what trim_array keeps.
THEOREM IntentStoreTyped == Spec => []TypeOK
<1>1. TypeInv => TypeOK
  BY DEF TypeInv
<1> QED
  BY <1>1, TypeInvariant, PTL

----------------------------------------------------------------------------
(* The mutex                                                               *)

LockInv ==
    /\ \A t \in Threads : pc[t] \in Holding <=> lock = t
    /\ \A t \in Threads : pc[t] \in Holding \cup {"lock"} => loaded
    /\ \A t \in Threads : pc[t] \in Holding => req[t].type \in {"append", "mode"}

LEMMA LockFree == LockInv /\ lock = NoThread => \A t \in Threads : pc[t] \notin Holding
  BY NobodyAssumption DEF LockInv

\* Where a thread stands after a step of its handler.
LEMMA HandlerMoves ==
  ASSUME TypeInv, NEW t \in Threads, Handler(t)
  PROVE  /\ \A u \in Threads \ {t} : pc'[u] = pc[u]
         /\ (\E r \in Requests : Request(t, r)) => pc[t] = "idle" /\ pc'[t] = "load"
         /\ Load(t) => pc[t] = "load" /\ pc'[t] = "lock"
         /\ Enter(t) \/ SetRecordingMode(t) => pc[t] = "lock" /\ pc'[t] = "open"
         /\ EnterOff(t) \/ Inspect(t) => pc[t] = "lock" /\ pc'[t] = "idle"
         /\ Unlock(t) => pc[t] = "unlock" /\ pc'[t] = "idle"
<1>1. pc \in [Threads -> Holding \cup {"idle", "load", "lock"}]
  BY DEF TypeInv, TypeOK, Holding
<1>2. Saving(t) => \A u \in Threads \ {t} : pc'[u] = pc[u]
  BY SaveMoves
<1>3. ~Saving(t) => \A u \in Threads \ {t} : pc'[u] = pc[u]
  BY <1>1 DEF Handler, Saving, Request, Load, Enter, SetRecordingMode, EnterOff, Inspect, Unlock, Goto
<1>4. /\ (\E r \in Requests : Request(t, r)) => pc[t] = "idle" /\ pc'[t] = "load"
      /\ Load(t) => pc[t] = "load" /\ pc'[t] = "lock"
      /\ Enter(t) \/ SetRecordingMode(t) => pc[t] = "lock" /\ pc'[t] = "open"
      /\ EnterOff(t) \/ Inspect(t) => pc[t] = "lock" /\ pc'[t] = "idle"
      /\ Unlock(t) => pc[t] = "unlock" /\ pc'[t] = "idle"
  BY <1>1 DEF Request, Load, Enter, SetRecordingMode, EnterOff, Inspect, Unlock, Goto
<1> QED
  BY <1>2, <1>3, <1>4

LEMMA LockStep == TypeInv /\ LockInv /\ [Next]_vars => LockInv'
<1> SUFFICES ASSUME TypeInv, LockInv, [Next]_vars PROVE LockInv'
  OBVIOUS
<1>1. CASE UNCHANGED vars
  BY <1>1 DEF vars, LockInv
<1>2. CASE Crash
  BY <1>2, NobodyAssumption DEF Crash, LockInv, Holding
<1>3. ASSUME NEW t \in Threads, Handler(t) PROVE LockInv'
  <2>0. \A u \in Threads \ {t} : pc'[u] = pc[u]
    BY <1>3, HandlerMoves
  <2>1. CASE \E r \in Requests : Request(t, r)
    <3>1. /\ pc[t] = "idle" /\ pc'[t] = "load" /\ UNCHANGED <<lock, loaded>>
          /\ \A u \in Threads \ {t} : req'[u] = req[u]
      BY <1>3, <2>1, HandlerMoves DEF Request, memVars, TypeInv, TypeOK
    <3> QED
      BY <2>0, <3>1 DEF LockInv, Holding
  <2>2. CASE Load(t)
    <3>1. pc[t] = "load" /\ pc'[t] = "lock" /\ UNCHANGED <<lock, req>> /\ loaded'
      BY <1>3, <2>2, HandlerMoves DEF Load, requestVars
    <3> QED
      BY <2>0, <3>1 DEF LockInv, Holding
  <2>3. CASE Enter(t) \/ SetRecordingMode(t)
    <3>1. /\ pc[t] = "lock" /\ pc'[t] = "open" /\ UNCHANGED <<loaded, req>>
          /\ lock = NoThread /\ lock' = t /\ req[t].type \in {"append", "mode"}
      BY <1>3, <2>3, HandlerMoves DEF Enter, SetRecordingMode, requestVars
    <3>2. \A u \in Threads : pc[u] \notin Holding
      BY <3>1, LockFree
    <3> QED
      BY <2>0, <3>1, <3>2 DEF LockInv, Holding
  <2>4. CASE EnterOff(t) \/ Inspect(t)
    <3>1. pc[t] = "lock" /\ pc'[t] = "idle" /\ UNCHANGED <<loaded, req, lock>>
      BY <1>3, <2>4, HandlerMoves DEF EnterOff, Inspect, requestVars, memVars
    <3> QED
      BY <2>0, <3>1 DEF LockInv, Holding
  <2>5. CASE Saving(t)
    <3>1. pc[t] \in Holding /\ pc'[t] \in Holding /\ UNCHANGED <<loaded, req, lock>>
      BY <2>5, SaveMoves DEF requestVars, memVars
    <3> QED
      BY <2>0, <3>1 DEF LockInv
  <2>6. CASE Unlock(t)
    <3>1. /\ pc[t] = "unlock" /\ pc'[t] = "idle" /\ UNCHANGED <<loaded, req>> /\ lock' = NoThread
      BY <1>3, <2>6, HandlerMoves DEF Unlock, requestVars, memVars
    <3>2. lock = t
      BY <3>1 DEF LockInv, Holding
    <3> QED
      BY <2>0, <3>1, <3>2, NobodyAssumption DEF LockInv, Holding
  <2> QED
    BY <1>3, <2>1, <2>2, <2>3, <2>4, <2>5, <2>6 DEF Handler, Saving
<1> QED
  BY <1>1, <1>2, <1>3 DEF Next

LEMMA LockInvariant == Spec => []LockInv
<1>1. Init => LockInv
  BY NobodyAssumption DEF Init, LockInv, Holding
<1> QED
  BY <1>1, LockStep, TypeInvariant, PTL DEF Spec

----------------------------------------------------------------------------
(* Memory and file                                                         *)

\* As long as no file operation failed, persist_state carries the memory over
\* the temporary file into the file.
Carried(t) ==
    /\ pc[t] \notin {"copy", "copyWrite", "unlink"}
    /\ pc[t] = "rename" => tmp = Whole(mem)
    /\ pc[t] = "unlock" => file = Whole(mem)
SaveInv == MemoryMatchesFile /\ (faults = 0 => \A t \in Threads : Carried(t))

LEMMA SaveWorks ==
  ASSUME TypeInv, NEW t \in Threads, Saving(t), faults' = 0,
         pc[t] \notin {"copy", "copyWrite", "unlink"}
  PROVE  \/ pc[t] = "open" /\ pc'[t] = "write" /\ tmp' = Cut /\ file' = file
         \/ pc[t] = "write" /\ pc'[t] = "rename" /\ tmp' = Whole(mem) /\ file' = file
         \/ pc[t] = "rename" /\ pc'[t] = "unlock" /\ file' = tmp
<1>1. faults \in Nat /\ t \in DOMAIN pc
  BY IntentAssumption DEF TypeInv, TypeOK
<1>2. ~Fault(TRUE)
  BY <1>1 DEF Fault
<1> QED
  BY <1>1, <1>2 DEF Saving, Open, Write, Rename, CopyOpen, CopyWrite, Unlink, Goto

LEMMA FaultsStay ==
  ASSUME TypeInv, NEW t \in Threads, Handler(t), faults' = 0
  PROVE  faults = 0
<1>1. Saving(t) => faults = 0
  BY SaveMoves
<1> QED
  BY <1>1 DEF Handler, Saving, Request, Load, Enter, SetRecordingMode, EnterOff, Inspect, Unlock

LEMMA SaveStep == TypeInv /\ LockInv /\ SaveInv /\ [Next]_vars => SaveInv'
<1> SUFFICES ASSUME TypeInv, LockInv, SaveInv, [Next]_vars PROVE SaveInv'
  OBVIOUS
<1>1. CASE UNCHANGED vars
  BY <1>1 DEF vars, SaveInv, MemoryMatchesFile, Carried
<1>2. CASE Crash
  BY <1>2 DEF Crash, SaveInv, MemoryMatchesFile, Carried
<1>3. ASSUME NEW t \in Threads, Handler(t), faults' = 0 PROVE SaveInv'
  <2>0. faults = 0 /\ \A u \in Threads \ {t} : pc'[u] = pc[u]
    BY <1>3, HandlerMoves, FaultsStay
  <2>1. /\ \A u \in Threads : Carried(u)
        /\ loaded /\ lock = NoThread => mem = Contents(file)
    BY <2>0 DEF SaveInv, MemoryMatchesFile
  <2>2. CASE /\ pc'[t] \in {"idle", "load", "lock"}
             /\ UNCHANGED <<file, tmp, mem, loaded, lock>>
    BY <2>0, <2>1, <2>2 DEF SaveInv, MemoryMatchesFile, Carried
  <2>3. CASE \E r \in Requests : Request(t, r)
    BY <1>3, <2>2, <2>3, HandlerMoves DEF Request, fileVars, memVars
  <2>4. CASE EnterOff(t) \/ Inspect(t)
    BY <1>3, <2>2, <2>4, HandlerMoves DEF EnterOff, Inspect, fileVars, memVars
  <2>5. CASE Load(t)
    <3>1. /\ pc'[t] = "lock" /\ UNCHANGED <<file, tmp, lock>>
          /\ loaded => mem' = mem /\ loaded' = loaded
          /\ ~loaded => lock = NoThread /\ mem' = Contents(file)
      BY <1>3, <2>5, HandlerMoves DEF Load, fileVars, TypeInv, TypeOK
    <3>2. CASE loaded
      BY <2>2, <3>1, <3>2
    <3>3. CASE ~loaded
      <4>1. \A u \in Threads : pc[u] \notin Holding
        BY <3>1, <3>3, LockFree
      <4> QED
        BY <2>0, <3>1, <3>3, <4>1 DEF SaveInv, MemoryMatchesFile, Carried, Holding
    <3> QED
      BY <3>2, <3>3
  <2>6. CASE Enter(t) \/ SetRecordingMode(t)
    <3>1. pc'[t] = "open" /\ lock = NoThread /\ lock' = t
      BY <1>3, <2>6, HandlerMoves DEF Enter, SetRecordingMode
    <3>2. \A u \in Threads : pc[u] \notin Holding
      BY <3>1, LockFree
    <3> QED
      BY <2>0, <3>1, <3>2, NobodyAssumption DEF SaveInv, MemoryMatchesFile, Carried, Holding
  <2>7. CASE Saving(t)
    <3>1. pc[t] \in Holding /\ UNCHANGED <<mem, lock>>
      BY <2>7, SaveMoves DEF memVars
    <3>2. lock = t /\ lock # NoThread
      BY <3>1, NobodyAssumption DEF LockInv
    <3>3. \A u \in Threads \ {t} : pc[u] \notin Holding
      BY <3>2 DEF LockInv
    <3>4. \/ pc[t] = "open" /\ pc'[t] = "write" /\ tmp' = Cut /\ file' = file
          \/ pc[t] = "write" /\ pc'[t] = "rename" /\ tmp' = Whole(mem) /\ file' = file
          \/ pc[t] = "rename" /\ pc'[t] = "unlock" /\ file' = tmp
      BY <1>3, <2>1, <2>7, SaveWorks DEF Carried
    <3>5. Carried(t)'
      BY <2>1, <3>1, <3>4 DEF Carried, Whole
    <3>6. \A u \in Threads \ {t} : Carried(u)'
      BY <2>0, <3>3 DEF Carried, Holding
    <3> QED
      BY <3>1, <3>2, <3>5, <3>6 DEF SaveInv, MemoryMatchesFile
  <2>8. CASE Unlock(t)
    <3>1. /\ pc[t] = "unlock" /\ pc'[t] = "idle" /\ UNCHANGED <<file, tmp, mem>>
      BY <1>3, <2>8, HandlerMoves DEF Unlock, fileVars, memVars
    <3>2. mem = Contents(file)
      BY <2>1, <3>1, FilesTyped DEF Carried, TypeInv, TypeOK
    <3> QED
      BY <2>0, <2>1, <3>1, <3>2 DEF SaveInv, MemoryMatchesFile, Carried
  <2> QED
    BY <1>3, <2>3, <2>4, <2>5, <2>6, <2>7, <2>8 DEF Handler, Saving
<1>4. CASE faults' # 0
  BY <1>4 DEF SaveInv, MemoryMatchesFile
<1> QED
  BY <1>1, <1>2, <1>3, <1>4 DEF Next

LEMMA SaveInvariant == Spec => []SaveInv
<1>1. Init => SaveInv
  BY DEF Init, SaveInv, MemoryMatchesFile, Carried
<1> QED
  BY <1>1, SaveStep, LockInvariant, TypeInvariant, PTL DEF Spec

\* While no file operation has failed, what the tools answer from memory is what
\* a restarted editor would answer.
THEOREM MemoryIsOnFile == Spec => []MemoryMatchesFile
<1>1. SaveInv => MemoryMatchesFile
  BY DEF SaveInv
<1> QED
  BY <1>1, SaveInvariant, PTL

----------------------------------------------------------------------------
(* The recording switch                                                    *)

\* modes holds what the users of the switch must reckon with: the requests on
\* their way, the setting in memory and, while nothing failed, the one on file.
ModeInv ==
    /\ \A t \in Threads : pc[t] # "idle" /\ req[t].type = "mode" => req[t].on \in modes
    /\ \A t \in Threads : pc[t] \in Holding /\ req[t].type = "mode" => mem.recording = req[t].on
    /\ faults = 0 => /\ Contents(file).recording \in modes
                     /\ loaded => mem.recording \in modes

LEMMA ModeStep == TypeInv /\ LockInv /\ SaveInv /\ ModeInv /\ [Next]_vars => ModeInv'
<1> SUFFICES ASSUME TypeInv, LockInv, SaveInv, ModeInv, [Next]_vars PROVE ModeInv'
  OBVIOUS
<1>1. CASE UNCHANGED vars
  BY <1>1 DEF vars, ModeInv
<1>2. CASE Crash
  BY <1>2 DEF Crash, ModeInv, Holding, fileVars, histVars
<1>3. ASSUME NEW t \in Threads, Handler(t) PROVE ModeInv'
  <2>0. \A u \in Threads \ {t} : pc'[u] = pc[u]
    BY <1>3, HandlerMoves
  <2>1. faults' = 0 => faults = 0
    BY <1>3, FaultsStay
  <2>2. ASSUME NEW r \in Requests, Request(t, r) PROVE ModeInv'
    <3>1. /\ pc'[t] = "load" /\ UNCHANGED <<file, mem, loaded, faults>>
          /\ req'[t] = r /\ \A u \in Threads \ {t} : req'[u] = req[u]
          /\ modes \subseteq modes' /\ (r.type = "mode" => r.on \in modes')
      BY <1>3, <2>2, HandlerMoves DEF Request, fileVars, memVars, TypeInv, TypeOK
    <3> QED
      BY <2>0, <3>1 DEF ModeInv, Holding
  <2>3. CASE Load(t)
    <3>1. /\ pc[t] = "load" /\ pc'[t] = "lock" /\ UNCHANGED <<file, lock, faults, req, modes>>
          /\ loaded => mem' = mem
          /\ ~loaded => lock = NoThread /\ mem' = Contents(file)
      BY <1>3, <2>3, HandlerMoves DEF Load, fileVars, requestVars, histVars
    <3>2. CASE loaded
      BY <2>0, <3>1, <3>2 DEF ModeInv, Holding
    <3>3. CASE ~loaded
      <4>1. \A u \in Threads : pc[u] \notin Holding
        BY <3>1, <3>3, LockFree
      <4> QED
        BY <2>0, <3>1, <3>3, <4>1 DEF ModeInv, Holding
    <3> QED
      BY <3>2, <3>3
  <2>4. CASE Enter(t)
    <3>1. /\ pc[t] = "lock" /\ pc'[t] = "open" /\ req[t].type = "append"
          /\ UNCHANGED <<file, faults, req, modes, loaded>>
          /\ mem'.recording = mem.recording
      BY <1>3, <2>4, HandlerMoves, EnterMoves DEF Enter, fileVars, requestVars
    <3> QED
      BY <2>0, <3>1 DEF ModeInv
  <2>5. CASE SetRecordingMode(t)
    <3>1. /\ pc[t] = "lock" /\ pc'[t] = "open" /\ req[t].type = "mode" /\ lock = NoThread
          /\ UNCHANGED <<file, faults, req, modes, loaded>>
          /\ mem'.recording = req[t].on
      BY <1>3, <2>5, HandlerMoves DEF SetRecordingMode, fileVars, requestVars, histVars, TypeInv,
         TypeOK, States
    <3>2. \A u \in Threads : pc[u] \notin Holding
      BY <3>1, LockFree
    <3> QED
      BY <2>0, <3>1, <3>2 DEF ModeInv
  <2>6. CASE EnterOff(t) \/ Inspect(t)
    <3>1. pc'[t] = "idle" /\ UNCHANGED <<file, mem, faults, req, modes, loaded>>
      BY <1>3, <2>6, HandlerMoves DEF EnterOff, Inspect, fileVars, memVars, requestVars, histVars
    <3> QED
      BY <2>0, <3>1 DEF ModeInv, Holding
  <2>7. CASE Saving(t)
    <3>1. /\ pc[t] \in Holding /\ pc'[t] \in Holding /\ loaded
          /\ UNCHANGED <<mem, req, modes, loaded>>
      BY <2>7, SaveMoves DEF memVars, requestVars, histVars, LockInv
    <3>2. ASSUME faults' = 0
          PROVE  Contents(file').recording \in modes
      <4>1. faults = 0 /\ Carried(t)
        BY <2>1, <3>2 DEF SaveInv
      <4>2. file' = file \/ file' = Whole(mem)
        BY <2>7, <3>2, <4>1, SaveWorks DEF Carried
      <4>3. Contents(Whole(mem)) = mem
        BY FilesTyped DEF TypeInv, TypeOK
      <4> QED
        BY <3>1, <4>1, <4>2, <4>3 DEF ModeInv
    <3>3. pc[t] # "idle"
      BY <3>1 DEF Holding
    <3> QED
      BY <2>0, <2>1, <3>1, <3>2, <3>3 DEF ModeInv
  <2>8. CASE Unlock(t)
    <3>1. /\ pc[t] = "unlock" /\ pc'[t] = "idle" /\ UNCHANGED <<file, mem, faults, req, loaded>>
          /\ modes' = IF req[t].type = "mode" THEN {req[t].on} \cup Pending(Threads \ {t}) ELSE modes
      BY <1>3, <2>8, HandlerMoves DEF Unlock, fileVars, memVars, requestVars
    <3>2. CASE req[t].type = "mode"
      <4>1. \A u \in Threads \ {t} : pc[u] # "idle" /\ req[u].type = "mode" => req[u].on \in modes'
        BY <3>1, <3>2 DEF Pending
      <4>2. mem.recording = req[t].on /\ req[t].on \in modes'
        BY <3>1, <3>2 DEF ModeInv, Holding
      <4>3. faults = 0 => Contents(file) = mem
        BY <3>1, FilesTyped DEF SaveInv, Carried, TypeInv, TypeOK
      <4> QED
        BY <2>0, <3>1, <4>1, <4>2, <4>3 DEF ModeInv, Holding
    <3>3. CASE req[t].type # "mode"
      BY <2>0, <3>1, <3>3 DEF ModeInv, Holding
    <3> QED
      BY <3>2, <3>3
  <2> QED
    BY <1>3, <2>2, <2>3, <2>4, <2>5, <2>6, <2>7, <2>8 DEF Handler, Saving
<1> QED
  BY <1>1, <1>2, <1>3 DEF Next

\* Only an append that finds the switch on, or does not look at it, records.
LEMMA OffRecordsNothing ==
  ASSUME TypeInv, LockInv, ModeInv, [Next]_vars, faults = 0, modes = {FALSE},
         NEW k \in Kinds \ Unguarded
  PROVE  recorded'[k] = recorded[k]
<1>1. CASE UNCHANGED vars
  BY <1>1 DEF vars
<1>2. CASE Crash
  BY <1>2 DEF Crash, histVars
<1>3. ASSUME NEW t \in Threads, Enter(t) PROVE recorded'[k] = recorded[k]
  <2>1. pc[t] = "lock"
    BY <1>3 DEF Enter
  <2>2. mem.recording = FALSE
    BY <2>1 DEF LockInv, ModeInv
  <2> QED
    BY <1>3, <2>2, EnterMoves DEF Records
<1>4. ASSUME NEW t \in Threads, Handler(t), ~Enter(t) PROVE recorded' = recorded
  <2>1. Saving(t) => recorded' = recorded
    BY SaveMoves DEF histVars
  <2> QED
    BY <1>4, <2>1 DEF Handler, Saving, Request, Load, SetRecordingMode, EnterOff, Inspect, Unlock,
       histVars
<1> QED
  BY <1>1, <1>2, <1>3, <1>4 DEF Next

\* Once turning the switch off was answered, and until somebody asks to turn it
\* on, no decision, work step or trace is recorded.
THEOREM OffStaysOff == Spec => OffIsOff
<1>1. Init => ModeInv
  BY DEF Init, ModeInv, Holding
<1>2. TypeInv /\ LockInv /\ ModeInv /\ [Next]_vars =>
        [faults = 0 /\ modes = {FALSE} =>
            \A k \in Kinds \ Unguarded : recorded'[k] = recorded[k]]_vars
  BY OffRecordsNothing
<1> QED
  BY <1>1, <1>2, ModeStep, SaveInvariant, LockInvariant, TypeInvariant, PTL DEF Spec, OffIsOff

----------------------------------------------------------------------------
(* What was recorded                                                       *)

\* A recorded entry names a request that has passed the mutex; a request records
\* one entry, in the array it names.
RecordedPast ==
    \A k \in Kinds : \A i \in DOMAIN recorded[k] : LET e == recorded[k][i] IN
        /\ e.n <= nreq[e.thread]
        /\ e.n = nreq[e.thread] => /\ pc[e.thread] \notin {"load", "lock"}
                                   /\ req[e.thread].type = "append" /\ req[e.thread].kind = k
Once(r) == \A i, j \in DOMAIN r : r[i] = r[j] => i = j
RecordedOnce == \A k \in Kinds : Once(recorded[k])
AckedPast ==
    \A e \in acked : /\ e.n <= nreq[e.thread]
                     /\ e.n = nreq[e.thread] => pc[e.thread] = "idle"
RecordInv == RecordedPast /\ RecordedOnce /\ AckedPast

LEMMA RecordedTyped ==
  ASSUME TypeInv, NEW k \in Kinds
  PROVE  /\ recorded[k] \in Seq(Entries)
         /\ \A i \in DOMAIN recorded[k] : /\ recorded[k][i] \in Entries
                                          /\ recorded[k][i].thread \in Threads
                                          /\ recorded[k][i].n \in Nat
<1>1. recorded[k] \in Seq(Entries)
  BY DEF TypeInv, TypeOK
<1>2. \A i \in DOMAIN recorded[k] : recorded[k][i] \in Entries
  BY <1>1
<1>3. \A e \in Entries : e.thread \in Threads /\ e.n \in Nat
  BY IntentAssumption DEF Entries
<1> QED
  BY <1>1, <1>2, <1>3

\* What an Append adds to a sequence.
LEMMA Appended ==
  ASSUME NEW S, NEW r \in Seq(S), NEW e
  PROVE  /\ Len(r) \in Nat /\ DOMAIN r = 1..Len(r) /\ DOMAIN Append(r, e) = 1..(Len(r) + 1)
         /\ DOMAIN Append(r, e) = DOMAIN r \cup {Len(r) + 1}
         /\ \A i \in DOMAIN r : Append(r, e)[i] = r[i] /\ i < Len(r) + 1
         /\ Append(r, e)[Len(r) + 1] = e
  OBVIOUS

\* A step after which the threads' requests and records are the same, and none
\* has gone back before the mutex.
LEMMA RecordUnmoved ==
  ASSUME TypeInv, RecordInv, UNCHANGED <<req, nreq, recorded, acked>>,
         \A u \in Threads : \/ pc'[u] = pc[u]
                            \/ pc[u] \in {"load", "lock"}
                            \/ pc'[u] = "idle"
                            \/ pc[u] \in Holding /\ pc'[u] \in Holding
  PROVE  RecordInv'
<1>1. \A e \in acked : e.thread \in Threads
  BY DEF TypeInv, TypeOK, Entries
<1>2. AckedPast'
  BY <1>1 DEF RecordInv, AckedPast, Holding
<1>3. \A u \in Threads : pc[u] \notin {"load", "lock"} => pc'[u] \notin {"load", "lock"}
  BY DEF Holding
<1>4. RecordedPast'
  BY <1>3, RecordedTyped DEF RecordInv, RecordedPast
<1>5. RecordedOnce'
  BY DEF RecordInv, RecordedOnce, Once
<1> QED
  BY <1>2, <1>4, <1>5 DEF RecordInv

LEMMA RecordEnter ==
  ASSUME TypeInv, RecordInv, NEW t \in Threads, Enter(t)
  PROVE  RecordInv'
<1>1. PICK k \in Kinds : /\ k = req[t].kind /\ req[t].type = "append"
                         /\ Present(t).thread = t /\ Present(t).n = nreq[t]
                         /\ recorded'[k] = Append(recorded[k], Present(t))
                         /\ \A j \in Kinds \ {k} : recorded'[j] = recorded[j]
  BY EnterMoves
<1>2. PICK e, r : e = Present(t) /\ r = recorded[k]
  OBVIOUS
<1>3. /\ r \in Seq(Entries)
      /\ \A i \in DOMAIN r : r[i].thread \in Threads /\ r[i].n \in Nat
  BY <1>2, RecordedTyped
<1>4. /\ pc[t] = "lock" /\ pc'[t] = "open" /\ UNCHANGED <<req, nreq, acked>>
      /\ \A u \in Threads \ {t} : pc'[u] = pc[u]
  BY HandlerMoves DEF Handler, Enter, requestVars
<1>5. /\ recorded'[k] = Append(r, e) /\ DOMAIN recorded'[k] = DOMAIN r \cup {Len(r) + 1}
      /\ \A i \in DOMAIN r : recorded'[k][i] = r[i] /\ i # Len(r) + 1
      /\ recorded'[k][Len(r) + 1] = e
  BY <1>1, <1>2, <1>3, Appended
<1>6. \A i \in DOMAIN r : r[i] # e
  BY <1>1, <1>2, <1>4 DEF RecordInv, RecordedPast
<1>7. RecordedOnce'
  <2>1. Once(recorded'[k])
    BY <1>2, <1>5, <1>6 DEF RecordInv, RecordedOnce, Once
  <2>2. ASSUME NEW j \in Kinds \ {k} PROVE Once(recorded'[j])
    BY <1>1, <2>2 DEF RecordInv, RecordedOnce
  <2> QED
    BY <2>1, <2>2 DEF RecordedOnce
<1>8. AckedPast'
  <2>1. \A x \in acked : x.thread \in Threads
    BY DEF TypeInv, TypeOK, Entries
  <2> QED
    BY <1>4, <2>1 DEF RecordInv, AckedPast
<1>9. RecordedPast'
  <2>1. ASSUME NEW j \in Kinds, NEW i \in DOMAIN recorded[j], recorded'[j][i] = recorded[j][i]
        PROVE  LET x == recorded'[j][i] IN
                  /\ x.n <= nreq'[x.thread]
                  /\ x.n = nreq'[x.thread] => /\ pc'[x.thread] \notin {"load", "lock"}
                                              /\ req'[x.thread].type = "append"
                                              /\ req'[x.thread].kind = j
    BY <1>4, <2>1, RecordedTyped DEF RecordInv, RecordedPast
  <2>2. nreq[t] \in Nat
    BY IntentAssumption DEF TypeInv, TypeOK
  <2>3. ASSUME NEW i \in DOMAIN recorded'[k], i = Len(r) + 1
        PROVE  LET x == recorded'[k][i] IN
                  /\ x.n <= nreq'[x.thread]
                  /\ x.n = nreq'[x.thread] => /\ pc'[x.thread] \notin {"load", "lock"}
                                              /\ req'[x.thread].type = "append"
                                              /\ req'[x.thread].kind = k
    BY <1>1, <1>2, <1>4, <1>5, <2>2, <2>3
  <2>4. \A j \in Kinds \ {k} : \A i \in DOMAIN recorded'[j] :
           i \in DOMAIN recorded[j] /\ recorded'[j][i] = recorded[j][i]
    BY <1>1
  <2>5. \A i \in DOMAIN recorded'[k] :
           (i \in DOMAIN recorded[k] /\ recorded'[k][i] = recorded[k][i]) \/ i = Len(r) + 1
    BY <1>2, <1>5
  <2> QED
    BY <2>1, <2>3, <2>4, <2>5 DEF RecordedPast
<1> QED
  BY <1>7, <1>8, <1>9 DEF RecordInv

LEMMA RecordStep == TypeInv /\ RecordInv /\ [Next]_vars => RecordInv'
<1> SUFFICES ASSUME TypeInv, RecordInv, [Next]_vars PROVE RecordInv'
  OBVIOUS
<1>1. CASE UNCHANGED vars
  BY <1>1, RecordUnmoved DEF vars
<1>2. CASE Crash
  BY <1>2, RecordUnmoved DEF Crash, histVars
<1>3. ASSUME NEW t \in Threads, NEW r \in Requests, Request(t, r) PROVE RecordInv'
  <2>1. /\ pc[t] = "idle" /\ UNCHANGED <<recorded, acked>>
        /\ nreq'[t] = nreq[t] + 1 /\ nreq[t] \in Nat
        /\ \A u \in Threads \ {t} : pc'[u] = pc[u] /\ nreq'[u] = nreq[u] /\ req'[u] = req[u]
    <3>1. nreq \in [Threads -> 0..MaxRequests] /\ MaxRequests \in Nat /\ req \in [Threads -> Requests]
      BY IntentAssumption DEF TypeInv, TypeOK
    <3>2. /\ nreq' = [nreq EXCEPT ![t] = nreq[t] + 1] /\ req' = [req EXCEPT ![t] = r]
          /\ UNCHANGED <<recorded, acked>>
      BY <1>3 DEF Request
    <3>3. pc[t] = "idle" /\ \A u \in Threads \ {t} : pc'[u] = pc[u]
      BY <1>3, HandlerMoves DEF Handler
    <3> QED
      BY <3>1, <3>2, <3>3
  <2>2. \A e \in acked : e.thread \in Threads /\ e.n \in Nat
    BY IntentAssumption DEF TypeInv, TypeOK, Entries
  <2>3. AckedPast'
    BY <2>1, <2>2 DEF RecordInv, AckedPast
  <2>4. RecordedPast'
    <3>1. ASSUME NEW k \in Kinds, NEW i \in DOMAIN recorded[k], NEW e, e = recorded[k][i]
          PROVE  /\ e.n <= nreq'[e.thread]
                 /\ e.n = nreq'[e.thread] => /\ pc'[e.thread] \notin {"load", "lock"}
                                             /\ req'[e.thread].type = "append"
                                             /\ req'[e.thread].kind = k
      <4>1. e.thread \in Threads /\ e.n \in Nat
        BY <3>1, RecordedTyped
      <4>2. /\ e.n <= nreq[e.thread]
            /\ e.n = nreq[e.thread] => /\ pc[e.thread] \notin {"load", "lock"}
                                       /\ req[e.thread].type = "append" /\ req[e.thread].kind = k
        BY <3>1 DEF RecordInv, RecordedPast
      <4>3. CASE e.thread = t
        BY <2>1, <4>1, <4>2, <4>3
      <4>4. CASE e.thread # t
        BY <2>1, <4>1, <4>2, <4>4
      <4> QED
        BY <4>3, <4>4
    <3> QED
      BY <2>1, <3>1 DEF RecordedPast
  <2>5. RecordedOnce'
    BY <2>1 DEF RecordInv, RecordedOnce, Once
  <2> QED
    BY <2>3, <2>4, <2>5 DEF RecordInv
<1>4. ASSUME NEW t \in Threads, Load(t) \/ SetRecordingMode(t) \/ EnterOff(t) \/ Inspect(t)
      PROVE  RecordInv'
  <2>1. /\ pc[t] \in {"load", "lock"} /\ \A u \in Threads \ {t} : pc'[u] = pc[u]
    BY <1>4, HandlerMoves DEF Handler
  <2> QED
    BY <1>4, <2>1, RecordUnmoved DEF Load, SetRecordingMode, EnterOff, Inspect, requestVars,
       histVars
<1>5. ASSUME NEW t \in Threads, Saving(t) PROVE RecordInv'
  BY <1>5, SaveMoves, RecordUnmoved DEF requestVars, histVars
<1>6. ASSUME NEW t \in Threads, Unlock(t) PROVE RecordInv'
  <2>1. /\ pc[t] = "unlock" /\ pc'[t] = "idle" /\ UNCHANGED <<req, nreq, recorded>>
        /\ acked' \subseteq acked \cup {Present(t)}
        /\ \A u \in Threads \ {t} : pc'[u] = pc[u]
    BY <1>6, HandlerMoves DEF Handler, Unlock, requestVars
  <2>2. Present(t).thread = t /\ Present(t).n = nreq[t] /\ nreq[t] \in Nat
    BY <2>1, PresentTyped, IntentAssumption DEF TypeInv, TypeOK
  <2>3. \A e \in acked : e.thread \in Threads
    BY DEF TypeInv, TypeOK, Entries
  <2>4. AckedPast'
    BY <2>1, <2>2, <2>3 DEF RecordInv, AckedPast
  <2>5. RecordedPast'
    BY <2>1, RecordedTyped DEF RecordInv, RecordedPast
  <2>6. RecordedOnce'
    BY <2>1 DEF RecordInv, RecordedOnce, Once
  <2> QED
    BY <2>4, <2>5, <2>6 DEF RecordInv
<1> QED
  BY <1>1, <1>2, <1>3, <1>4, <1>5, <1>6, RecordEnter DEF Next, Handler, Saving

LEMMA RecordInvariant == Spec => []RecordInv
<1>1. Init => RecordInv
  <2>1. Init => acked = {} /\ \A k \in Kinds : recorded[k] = <<>>
    BY DEF Init
  <2> QED
    BY <2>1 DEF RecordInv, RecordedPast, RecordedOnce, Once, AckedPast
<1> QED
  BY <1>1, RecordStep, TypeInvariant, PTL DEF Spec

----------------------------------------------------------------------------
(* The order of the entries                                                *)

\* The elements of s are elements of r, and follow each other as in r.
Ordered(s, r) ==
    /\ \A i \in DOMAIN s : \E a \in DOMAIN r : r[a] = s[i]
    /\ \A i, j \in DOMAIN s : i < j => \E a, b \in DOMAIN r : a < b /\ r[a] = s[i] /\ r[b] = s[j]

LEMMA OrderedGrows ==
  ASSUME NEW S, NEW s \in Seq(S), NEW r \in Seq(S), NEW e \in S, Ordered(s, r)
  PROVE  Ordered(s, Append(r, e))
<1>1. \A a \in DOMAIN r : a \in DOMAIN Append(r, e) /\ Append(r, e)[a] = r[a]
  BY Appended
<1>2. PICK q : q = Append(r, e)
  OBVIOUS
<1>3. \A i \in DOMAIN s : \E a \in DOMAIN q : q[a] = s[i]
  BY <1>1, <1>2 DEF Ordered
<1>4. ASSUME NEW i \in DOMAIN s, NEW j \in DOMAIN s, i < j
      PROVE  \E a, b \in DOMAIN q : a < b /\ q[a] = s[i] /\ q[b] = s[j]
  <2>1. PICK a, b \in DOMAIN r : a < b /\ r[a] = s[i] /\ r[b] = s[j]
    BY <1>4 DEF Ordered
  <2>2. a \in DOMAIN q /\ b \in DOMAIN q /\ q[a] = s[i] /\ q[b] = s[j]
    BY <1>1, <1>2, <2>1
  <2> QED
    BY <2>1, <2>2
<1>5. Ordered(s, q)
  BY <1>3, <1>4, Zenon DEF Ordered
<1> QED
  BY <1>2, <1>5, Zenon

LEMMA OrderedAppend ==
  ASSUME NEW S, NEW s \in Seq(S), NEW r \in Seq(S), NEW e \in S, Ordered(s, r)
  PROVE  Ordered(Append(s, e), Append(r, e))
<1> DEFINE t == Append(s, e)
<1> DEFINE q == Append(r, e)
<1> DEFINE n == Len(r) + 1
<1>1. /\ DOMAIN q = DOMAIN r \cup {n} /\ q[n] = e
      /\ \A a \in DOMAIN r : q[a] = r[a] /\ a < n
  BY Appended
<1>2. /\ DOMAIN t = DOMAIN s \cup {Len(s) + 1} /\ t[Len(s) + 1] = e
      /\ \A i \in DOMAIN s : t[i] = s[i] /\ ~(Len(s) + 1 < i)
      /\ ~(Len(s) + 1 < Len(s) + 1)
  BY Appended
<1> HIDE DEF t, q, n
<1>3. \A i \in DOMAIN t : \E a \in DOMAIN q : q[a] = t[i]
  <2>1. ASSUME NEW i \in DOMAIN s PROVE \E a \in DOMAIN q : q[a] = t[i]
    <3>1. PICK a \in DOMAIN r : r[a] = s[i]
      BY DEF Ordered
    <3> QED
      BY <1>1, <1>2, <3>1
  <2> QED
    BY <1>1, <1>2, <2>1
<1>4. ASSUME NEW i \in DOMAIN t, NEW j \in DOMAIN t, i < j
      PROVE  \E a, b \in DOMAIN q : a < b /\ q[a] = t[i] /\ q[b] = t[j]
  <2>1. i \in DOMAIN s
    BY <1>2, <1>4
  <2>2. CASE j \in DOMAIN s
    BY <1>1, <1>2, <1>4, <2>1, <2>2 DEF Ordered
  <2>3. CASE j = Len(s) + 1
    BY <1>1, <1>2, <2>1, <2>3 DEF Ordered
  <2> QED
    BY <1>2, <2>2, <2>3
<1>5. Ordered(t, q)
  BY <1>3, <1>4 DEF Ordered
<1> QED
  BY <1>5 DEF t, q

LEMMA OrderedTrim ==
  ASSUME NEW k \in Kinds, NEW S, NEW s \in Seq(S), NEW r, Ordered(s, r)
  PROVE  Ordered(Trim(k, s), r)
<1>1. PICK t \in Seq(S) : t = Trim(k, s)
  BY TrimKeepsLast
<1>2. Len(t) \in Nat /\ Len(s) \in Nat /\ Len(t) <= Len(s)
  BY <1>1, TrimKeepsLast, KeptIsPositive
<1>3. PICK d \in Nat : d = Len(s) - Len(t)
  BY <1>2
<1>4. \A i \in DOMAIN t : i \in Nat /\ d + i \in DOMAIN s /\ t[i] = s[d + i]
  BY <1>1, <1>2, <1>3, TrimKeepsLast
<1>5. \A i, j \in DOMAIN t : i < j => d + i < d + j
  BY <1>4
<1> QED
  BY <1>1, <1>4, <1>5 DEF Ordered

OrderInv ==
    \A k \in Kinds : /\ Ordered(mem.arr[k], recorded[k])
                     /\ Ordered(file.state.arr[k], recorded[k])
                     /\ Ordered(tmp.state.arr[k], recorded[k])

LEMMA EmptyOrdered == \A r : \A k \in Kinds : Ordered(Default.arr[k], r)
  BY DefaultTyped DEF Ordered

LEMMA OrderStep == TypeInv /\ OrderInv /\ [Next]_vars => OrderInv'
<1> SUFFICES ASSUME TypeInv, OrderInv, [Next]_vars PROVE OrderInv'
  OBVIOUS
<1>1. ASSUME UNCHANGED recorded,
             mem' \in {mem, Default, Contents(file)} \/ mem'.arr = mem.arr,
             file' \in {file, tmp, Cut}, tmp' \in {tmp, Cut, NoFile, Whole(mem)}
      PROVE  OrderInv'
  <2> SUFFICES ASSUME NEW k \in Kinds
               PROVE  /\ Ordered(mem'.arr[k], recorded[k])
                      /\ Ordered(file'.state.arr[k], recorded[k])
                      /\ Ordered(tmp'.state.arr[k], recorded[k])
    BY <1>1 DEF OrderInv
  <2>1. Contents(file) \in {file.state, Default}
    BY ContentsTyped DEF TypeInv, TypeOK
  <2>2. Ordered(mem'.arr[k], recorded[k])
    BY <1>1, <2>1, EmptyOrdered DEF OrderInv
  <2>3. Ordered(file'.state.arr[k], recorded[k])
    BY <1>1, EmptyOrdered, FilesTyped DEF OrderInv
  <2>4. Whole(mem).state = mem
    BY DEF Whole
  <2>5. Ordered(tmp'.state.arr[k], recorded[k])
    BY <1>1, <2>4, EmptyOrdered, FilesTyped DEF OrderInv
  <2> QED
    BY <2>2, <2>3, <2>5
<1>2. CASE UNCHANGED vars
  BY <1>1, <1>2 DEF vars
<1>3. CASE Crash
  BY <1>1, <1>3 DEF Crash, fileVars, histVars
<1>4. ASSUME NEW t \in Threads, Enter(t) PROVE OrderInv'
  <2>1. PICK k \in Kinds : /\ Present(t) \in Entries
                           /\ mem'.arr[k] = Trim(k, Append(mem.arr[k], Present(t)))
                           /\ \A j \in Kinds \ {k} : mem'.arr[j] = mem.arr[j]
                           /\ recorded'[k] = Append(recorded[k], Present(t))
                           /\ \A j \in Kinds \ {k} : recorded'[j] = recorded[j]
    BY <1>4, EnterMoves
  <2>2. /\ recorded[k] \in Seq(Entries) /\ mem.arr[k] \in Seq(Entries)
        /\ file.state.arr[k] \in Seq(Entries) /\ tmp.state.arr[k] \in Seq(Entries)
    BY DEF TypeInv, TypeOK, States, Files
  <2>3. UNCHANGED <<file, tmp>>
    BY <1>4 DEF Enter, fileVars
  <2>4. Append(mem.arr[k], Present(t)) \in Seq(Entries)
    BY <2>1, <2>2
  <2>5. Ordered(mem'.arr[k], recorded'[k])
    BY <2>1, <2>2, <2>4, OrderedAppend, OrderedTrim DEF OrderInv
  <2>6. Ordered(file'.state.arr[k], recorded'[k]) /\ Ordered(tmp'.state.arr[k], recorded'[k])
    BY <2>1, <2>2, <2>3, OrderedGrows DEF OrderInv
  <2> QED
    BY <2>1, <2>3, <2>5, <2>6 DEF OrderInv
<1>5. ASSUME NEW t \in Threads, Handler(t), ~Enter(t) PROVE OrderInv'
  <2>1. CASE Saving(t)
    BY <1>1, <2>1, SaveMoves DEF memVars, histVars
  <2>2. CASE Load(t)
    BY <1>1, <2>2 DEF Load, fileVars, histVars
  <2>3. CASE SetRecordingMode(t)
    <3>1. mem'.arr = mem.arr
      BY <2>3 DEF SetRecordingMode, TypeInv, TypeOK, States
    <3> QED
      BY <1>1, <2>3, <3>1 DEF SetRecordingMode, fileVars, histVars
  <2>4. CASE Unlock(t) \/ EnterOff(t) \/ Inspect(t) \/ \E r \in Requests : Request(t, r)
    BY <1>1, <2>4 DEF Unlock, EnterOff, Inspect, Request, fileVars, memVars, histVars
  <2> QED
    BY <1>5, <2>1, <2>2, <2>3, <2>4 DEF Handler, Saving
<1> QED
  BY <1>2, <1>3, <1>4, <1>5 DEF Next

LEMMA OrderInvariant == Spec => []OrderInv
<1>1. Init => OrderInv
  <2> SUFFICES ASSUME Init PROVE OrderInv
    OBVIOUS
  <2>1. file.state.arr = Default.arr
    <3>1. ASSUME NEW b \in BOOLEAN
          PROVE  Whole([Default EXCEPT !.recording = b]).state.arr = Default.arr
      BY DEF Whole, Default
    <3> QED
      BY <3>1, FilesTyped DEF Init
  <2> QED
    BY <2>1, EmptyOrdered, FilesTyped DEF Init, OrderInv
<1> QED
  BY <1>1, OrderStep, TypeInvariant, PTL DEF Spec

\* On file, entries keep the order in which they were recorded, over crashes and
\* whatever a failed write or copy left behind.
THEOREM FileKeepsOrder == Spec => []FileInOrder
<1>1. TypeInv /\ OrderInv => FileInOrder
  <2> SUFFICES ASSUME TypeInv, OrderInv, NEW k \in Kinds
               PROVE  Ordered(Contents(file).arr[k], recorded[k])
    BY DEF FileInOrder, Ordered
  <2>1. Contents(file) \in {file.state, Default}
    BY ContentsTyped DEF TypeInv, TypeOK
  <2> QED
    BY <2>1, EmptyOrdered DEF OrderInv
<1> QED
  BY <1>1, OrderInvariant, TypeInvariant, PTL

----------------------------------------------------------------------------
(* What survives a crash                                                   *)

\* The elements of s that follow i in r fill the array of kind k: what stood at i
\* has been pushed out by newer ones.
Holds(s, x) == \E p \in DOMAIN s : s[p] = x
PushedOut(k, i, s, r) ==
    /\ Len(s) = MaxKept[k]
    /\ \A p \in DOMAIN s : \E a \in DOMAIN r : a > i /\ r[a] = s[p]

\* An append to an array whose entries are ordered as they were recorded keeps
\* every entry, or pushes it out for good.
LEMMA PushKeeps ==
  ASSUME NEW k \in Kinds, NEW S, NEW s \in Seq(S), NEW r \in Seq(S), NEW e \in S,
         Len(s) <= MaxKept[k], Ordered(s, r), Once(r),
         r # <<>>, r[Len(r)] = e, NEW i \in DOMAIN r,
         Holds(s, r[i]) \/ PushedOut(k, i, s, r)
  PROVE  LET t == Trim(k, Append(s, e))
         IN  Holds(t, r[i]) \/ PushedOut(k, i, t, r)
<1>1. PICK M \in Nat \ {0} : M = MaxKept[k]
  BY KeptIsPositive
<1>2. PICK n \in Nat : n = Len(s) /\ n <= M /\ DOMAIN s = 1..n
  BY <1>1
<1>3. PICK q \in Seq(S) : q = Append(s, e)
  <2>1. Append(s, e) \in Seq(S)
    OBVIOUS
  <2> QED
    BY <2>1, Zenon
<1>4. /\ Len(q) = n + 1 /\ q[n + 1] = e /\ DOMAIN q = 1..(n + 1)
      /\ \A p \in 1..n : q[p] = s[p]
  BY <1>2, <1>3, Appended
<1>5. PICK t \in Seq(S) : t = Trim(k, q)
  BY TrimKeepsLast
<1>6. /\ n < M => Len(t) = n + 1 /\ \A p \in 1..(n + 1) : t[p] = q[p]
      /\ n = M => Len(t) = M /\ \A p \in 1..M : t[p] = q[p + 1]
  <2>1. /\ Len(t) = IF Len(q) > M THEN M ELSE Len(q)
        /\ \A p \in 1..Len(t) : t[p] = q[Len(q) - Len(t) + p]
    BY <1>1, <1>5, TrimKeepsLast
  <2>2. CASE n < M
    <3>1. Len(t) = n + 1
      BY <1>4, <2>1, <2>2
    <3>2. ASSUME NEW p \in 1..(n + 1) PROVE t[p] = q[p]
      <4>1. Len(q) - Len(t) + p = p /\ p \in 1..Len(t)
        BY <1>4, <3>1
      <4> QED
        BY <2>1, <4>1
    <3> QED
      BY <2>2, <3>1, <3>2
  <2>3. CASE n = M
    <3>1. Len(t) = M
      BY <1>4, <2>1, <2>3
    <3>2. ASSUME NEW p \in 1..M PROVE t[p] = q[p + 1]
      <4>1. Len(q) - Len(t) + p = p + 1 /\ p \in 1..Len(t)
        BY <1>4, <2>3, <3>1
      <4> QED
        BY <2>1, <4>1
    <3> QED
      BY <2>3, <3>1, <3>2
  <2> QED
    BY <2>2, <2>3
<1>7. DOMAIN t = 1..Len(t)
  OBVIOUS
<1>8. Len(r) \in Nat /\ Len(r) \in DOMAIN r /\ DOMAIN r = 1..Len(r)
  OBVIOUS
<1>9. Holds(t, e)
  <2>1. CASE n < M
    BY <1>4, <1>6, <1>7, <2>1 DEF Holds
  <2>2. CASE n = M
    BY <1>4, <1>6, <1>7, <2>2 DEF Holds
  <2> QED
    BY <1>2, <2>1, <2>2
<1>10. Holds(t, r[i]) \/ PushedOut(k, i, t, r)
  <2>1. CASE i = Len(r)
    BY <1>9, <2>1
  <2>2. CASE i # Len(r) /\ PushedOut(k, i, s, r)
    <3>1. n = M /\ \A p \in 1..n : \E a \in DOMAIN r : a > i /\ r[a] = s[p]
      BY <1>1, <1>2, <2>2 DEF PushedOut
    <3>2. i < Len(r)
      BY <1>8, <2>2
    <3>3. ASSUME NEW p \in 1..M PROVE \E a \in DOMAIN r : a > i /\ r[a] = t[p]
      <4>1. CASE p = M
        BY <1>4, <1>6, <1>8, <3>1, <3>2, <4>1
      <4>2. CASE p # M
        <5>1. p + 1 \in 1..n /\ t[p] = s[p + 1]
          BY <1>4, <1>6, <3>1, <4>2
        <5> QED
          BY <3>1, <5>1
      <4> QED
        BY <4>1, <4>2
    <3> QED
      BY <1>1, <1>6, <1>7, <3>1, <3>3 DEF PushedOut
  <2>3. CASE i # Len(r) /\ Holds(s, r[i])
    <3>1. PICK p \in 1..n : s[p] = r[i]
      BY <1>2, <2>3 DEF Holds
    <3>2. CASE n < M
      <4>1. p \in 1..(n + 1) /\ t[p] = r[i] /\ p \in DOMAIN t
        BY <1>4, <1>6, <1>7, <3>1, <3>2
      <4> QED
        BY <4>1 DEF Holds
    <3>3. CASE n = M /\ p > 1
      <4>1. p - 1 \in 1..M /\ (p - 1) + 1 = p
        BY <3>3
      <4>2. t[p - 1] = r[i]
        BY <1>4, <1>6, <3>1, <3>3, <4>1
      <4> QED
        BY <1>6, <1>7, <3>3, <4>1, <4>2 DEF Holds
    <3>4. CASE n = M /\ p = 1
      <4>1. i < Len(r)
        BY <1>8, <2>3
      <4>2. ASSUME NEW j \in 1..M PROVE \E a \in DOMAIN r : a > i /\ r[a] = t[j]
        <5>1. CASE j = M
          BY <1>4, <1>6, <1>8, <3>4, <4>1, <5>1
        <5>2. CASE j # M
          <6>1. j + 1 \in 1..n /\ 1 < j + 1 /\ t[j] = s[j + 1]
            BY <1>4, <1>6, <3>4, <5>2
          <6>2. PICK a, b \in DOMAIN r : a < b /\ r[a] = s[1] /\ r[b] = s[j + 1]
            <7>1. 1 \in DOMAIN s /\ j + 1 \in DOMAIN s
              BY <1>2, <3>4, <6>1
            <7>2. \E a, b \in DOMAIN r : a < b /\ r[a] = s[1] /\ r[b] = s[j + 1]
              BY <6>1, <7>1 DEF Ordered
            <7> QED
              BY <7>2
          <6>3. a = i
            BY <3>1, <3>4, <6>2 DEF Once
          <6> QED
            BY <6>1, <6>2, <6>3
        <5> QED
          BY <5>1, <5>2
      <4> QED
        BY <1>1, <1>6, <1>7, <3>4, <4>2 DEF PushedOut
    <3> QED
      BY <1>2, <3>2, <3>3, <3>4
  <2> QED
    BY <2>1, <2>2, <2>3
<1> QED
  BY <1>3, <1>5, <1>10, Zenon

\* While its thread holds the mutex, an append is one entry ahead of the file,
\* until the renamed file has it.
Grown(t) ==
    \A k \in Kinds : mem.arr[k] =
        IF req[t].type = "append" /\ req[t].kind = k
        THEN Trim(k, Append(Contents(file).arr[k], Present(t)))
        ELSE Contents(file).arr[k]
NewestIsPresent(t) ==
    req[t].type = "append" =>
        LET r == recorded[req[t].kind] IN r # <<>> /\ r[Len(r)] = Present(t)
AheadAt(t) ==
    /\ pc[t] \in Holding => NewestIsPresent(t)
    /\ faults = 0 /\ pc[t] \in {"open", "write", "rename"} => Grown(t)
    /\ faults = 0 /\ pc[t] = "unlock" /\ req[t].type = "append" =>
          Holds(Contents(file).arr[req[t].kind], Present(t))
AheadInv == \A t \in Threads : AheadAt(t)

LEMMA AheadOutside ==
  ASSUME NEW u, pc'[u] \notin Holding
  PROVE  AheadAt(u)'
  BY DEF AheadAt, Holding

LEMMA AheadKept ==
  ASSUME NEW u, AheadAt(u), UNCHANGED <<mem, file, recorded>>, faults' = 0 => faults = 0,
         req'[u] = req[u], nreq'[u] = nreq[u], pc'[u] = pc[u]
  PROVE  AheadAt(u)'
<1>1. Present(u)' = Present(u)
  BY DEF Present
<1>2. NewestIsPresent(u)' = NewestIsPresent(u)
  BY <1>1 DEF NewestIsPresent
<1>3. Grown(u)' = Grown(u)
  BY <1>1 DEF Grown
<1> QED
  BY <1>1, <1>2, <1>3 DEF AheadAt

LEMMA AheadStep ==
  TypeInv /\ LockInv /\ SaveInv /\ AheadInv /\ [Next]_vars => AheadInv'
<1> SUFFICES ASSUME TypeInv, LockInv, SaveInv, AheadInv, [Next]_vars PROVE AheadInv'
  OBVIOUS
<1>1. CASE UNCHANGED vars
  BY <1>1, AheadKept DEF vars, AheadInv
<1>2. CASE Crash
  BY <1>2, AheadOutside DEF Crash, AheadInv, Holding
<1>3. ASSUME NEW t \in Threads, Handler(t) PROVE AheadInv'
  <2>0. (\A u \in Threads \ {t} : pc'[u] = pc[u]) /\ (faults' = 0 => faults = 0)
    BY <1>3, HandlerMoves, FaultsStay
  <2>1. ASSUME UNCHANGED <<mem, file, recorded>>, pc'[t] \notin Holding,
               \A u \in Threads \ {t} : req'[u] = req[u] /\ nreq'[u] = nreq[u]
        PROVE  AheadInv'
    BY <2>0, <2>1, AheadOutside, AheadKept DEF AheadInv
  <2>2. ASSUME NEW r \in Requests, Request(t, r) PROVE AheadInv'
    <3>1. \A u \in Threads \ {t} : req'[u] = req[u] /\ nreq'[u] = nreq[u]
      BY <2>2 DEF Request, TypeInv, TypeOK
    <3>2. pc'[t] = "load"
      BY <1>3, <2>2, HandlerMoves
    <3> QED
      BY <2>1, <2>2, <3>1, <3>2 DEF Request, fileVars, memVars, Holding
  <2>3. CASE Load(t)
    <3>1. /\ pc[t] = "load" /\ pc'[t] = "lock" /\ UNCHANGED <<file, recorded, req, nreq>>
          /\ loaded => mem' = mem
          /\ ~loaded => lock = NoThread
      BY <1>3, <2>3, HandlerMoves DEF Load, fileVars, requestVars, histVars
    <3>2. CASE loaded
      BY <2>1, <3>1, <3>2 DEF Holding
    <3>3. CASE ~loaded
      <4>1. \A u \in Threads : pc[u] \notin Holding
        BY <3>1, <3>3, LockFree
      <4>2. \A u \in Threads : pc'[u] \notin Holding
        BY <2>0, <3>1, <4>1 DEF Holding
      <4> QED
        BY <4>2, AheadOutside DEF AheadInv
    <3> QED
      BY <3>2, <3>3
  <2>4. CASE Enter(t)
    <3>1. PICK k \in Kinds :
             /\ k = req[t].kind /\ req[t].type = "append" /\ Present(t) \in Entries
             /\ mem'.arr[k] = Trim(k, Append(mem.arr[k], Present(t)))
             /\ \A j \in Kinds \ {k} : mem'.arr[j] = mem.arr[j]
             /\ recorded'[k] = Append(recorded[k], Present(t))
      BY <2>4, EnterMoves
    <3>2. /\ pc[t] = "lock" /\ pc'[t] = "open" /\ UNCHANGED <<file, faults, req, nreq>>
          /\ lock = NoThread /\ loaded
      BY <1>3, <2>4, HandlerMoves DEF Enter, fileVars, requestVars, LockInv
    <3>3. \A u \in Threads \ {t} : pc'[u] \notin Holding
      BY <2>0, <3>2, LockFree
    <3>4. Present(t)' = Present(t)
      BY <3>2 DEF Present
    <3>5. recorded[k] \in Seq(Entries)
      BY DEF TypeInv, TypeOK
    <3>6. NewestIsPresent(t)'
      <4>1. /\ Append(recorded[k], Present(t)) # <<>>
            /\ Len(Append(recorded[k], Present(t))) = Len(recorded[k]) + 1
            /\ Append(recorded[k], Present(t))[Len(recorded[k]) + 1] = Present(t)
        BY <3>1, <3>5
      <4> QED
        BY <3>1, <3>2, <3>4, <4>1 DEF NewestIsPresent
    <3>7. faults = 0 => Grown(t)'
      <4>1. faults = 0 => mem = Contents(file)
        BY <3>2 DEF SaveInv, MemoryMatchesFile
      <4> QED
        BY <3>1, <3>2, <3>4, <4>1 DEF Grown
    <3>8. AheadAt(t)'
      BY <3>2, <3>6, <3>7 DEF AheadAt
    <3> QED
      BY <3>3, <3>8, AheadOutside DEF AheadInv
  <2>5. CASE SetRecordingMode(t)
    <3>1. /\ pc[t] = "lock" /\ pc'[t] = "open" /\ UNCHANGED <<file, faults, req, nreq>>
          /\ lock = NoThread /\ loaded /\ req[t].type = "mode" /\ mem'.arr = mem.arr
      BY <1>3, <2>5, HandlerMoves DEF SetRecordingMode, fileVars, requestVars, LockInv, TypeInv,
         TypeOK, States
    <3>2. \A u \in Threads \ {t} : pc'[u] \notin Holding
      BY <2>0, <3>1, LockFree
    <3>3. faults = 0 => mem = Contents(file)
      BY <3>1 DEF SaveInv, MemoryMatchesFile
    <3>4. AheadAt(t)'
      BY <3>1, <3>3 DEF AheadAt, NewestIsPresent, Grown
    <3> QED
      BY <3>2, <3>4, AheadOutside DEF AheadInv
  <2>6. CASE EnterOff(t) \/ Inspect(t) \/ Unlock(t)
    <3>1. pc'[t] = "idle" /\ UNCHANGED <<mem, file, recorded, req, nreq>>
      BY <1>3, <2>6, HandlerMoves DEF EnterOff, Inspect, Unlock, fileVars, memVars, requestVars,
         histVars
    <3> QED
      BY <2>1, <3>1 DEF Holding
  <2>7. CASE Saving(t)
    <3>1. /\ pc[t] \in Holding /\ UNCHANGED <<mem, lock, req, nreq, recorded>>
      BY <2>7, SaveMoves DEF memVars, requestVars, histVars
    <3>2. \A u \in Threads \ {t} : pc'[u] \notin Holding
      BY <2>0, <3>1, NobodyAssumption DEF LockInv
    <3>3. Present(t)' = Present(t)
      BY <3>1 DEF Present
    <3>4. NewestIsPresent(t)'
      BY <3>1, <3>3 DEF AheadInv, AheadAt, NewestIsPresent
    <3>5. ASSUME faults' = 0
          PROVE  /\ pc'[t] \in {"open", "write", "rename"} => Grown(t)'
                 /\ pc'[t] = "unlock" /\ req[t].type = "append" =>
                       Holds(Contents(file').arr[req[t].kind], Present(t))
      <4>1. faults = 0 /\ Carried(t)
        BY <2>0, <3>5 DEF SaveInv
      <4>2. \/ pc[t] = "open" /\ pc'[t] = "write" /\ file' = file
            \/ pc[t] = "write" /\ pc'[t] = "rename" /\ file' = file
            \/ pc[t] = "rename" /\ pc'[t] = "unlock" /\ file' = tmp
        BY <2>7, <3>5, <4>1, SaveWorks DEF Carried
      <4>3. Grown(t)
        BY <4>1, <4>2 DEF AheadInv, AheadAt
      <4>4. CASE file' = file /\ pc'[t] # "unlock"
        BY <3>1, <3>3, <4>3, <4>4 DEF Grown
      <4>5. CASE pc[t] = "rename" /\ pc'[t] = "unlock" /\ file' = tmp
        <5>1. Contents(file') = mem
          BY <4>1, <4>5, FilesTyped DEF Carried, TypeInv, TypeOK
        <5>2. ASSUME req[t].type = "append"
              PROVE  Holds(mem.arr[req[t].kind], Present(t))
          <6>1. PICK k \in Kinds : k = req[t].kind
            BY <5>2, RequestsTyped DEF TypeInv, TypeOK
          <6>2. Present(t) \in Entries
            BY <4>5, PresentTyped
          <6>3. Contents(file).arr[k] \in Seq(Entries)
            BY ContentsTyped DEF TypeInv, TypeOK, States
          <6>4. PICK s \in Seq(Entries) : s = Append(Contents(file).arr[k], Present(t))
            <7>1. Append(Contents(file).arr[k], Present(t)) \in Seq(Entries)
              BY <6>2, <6>3
            <7> QED
              BY <7>1, Zenon
          <6>5. Len(s) > 0 /\ s[Len(s)] = Present(t)
            BY <6>2, <6>3, <6>4
          <6>6. mem.arr[k] = Trim(k, s)
            BY <4>3, <5>2, <6>1, <6>4 DEF Grown
          <6>7. PICK q \in Seq(Entries) : q = Trim(k, s)
            BY TrimKeepsLast
          <6>8. /\ Len(q) \in 1..Len(s)
                /\ \A i \in 1..Len(q) : q[i] = s[Len(s) - Len(q) + i]
            BY <6>5, <6>7, TrimKeepsLast, KeptIsPositive
          <6>9. Len(q) \in DOMAIN q /\ q[Len(q)] = s[Len(s)]
            BY <6>8
          <6> QED
            BY <6>1, <6>5, <6>6, <6>7, <6>9 DEF Holds
        <5> QED
          BY <4>5, <5>1, <5>2
      <4> QED
        BY <4>2, <4>4, <4>5
    <3>6. AheadAt(t)'
      BY <3>1, <3>3, <3>4, <3>5 DEF AheadAt
    <3> QED
      BY <3>2, <3>6, AheadOutside DEF AheadInv
  <2> QED
    BY <1>3, <2>2, <2>3, <2>4, <2>5, <2>6, <2>7 DEF Handler, Saving
<1> QED
  BY <1>1, <1>2, <1>3 DEF Next

LEMMA AheadInvariant == Spec => []AheadInv
<1>1. Init => AheadInv
  BY DEF Init, AheadInv, AheadAt, Holding
<1> QED
  BY <1>1, AheadStep, SaveInvariant, LockInvariant, TypeInvariant, PTL DEF Spec

\* What was answered with success is on file or was pushed out, as long as nothing
\* failed.
SurviveInv ==
    faults = 0 => \A k \in Kinds : \A i \in DOMAIN recorded[k] :
        recorded[k][i] \in acked =>
            \/ Holds(Contents(file).arr[k], recorded[k][i])
            \/ PushedOut(k, i, Contents(file).arr[k], recorded[k])

\* More recorded entries push out no fewer.
LEMMA PushedOutGrows ==
  ASSUME NEW k, NEW s, NEW S, NEW r \in Seq(S), NEW e, NEW i \in DOMAIN r, PushedOut(k, i, s, r)
  PROVE  PushedOut(k, i, s, Append(r, e))
<1>1. \A a \in DOMAIN r : a \in DOMAIN Append(r, e) /\ Append(r, e)[a] = r[a]
  BY Appended
<1>2. PICK q : q = Append(r, e)
  OBVIOUS
<1>3. ASSUME NEW p \in DOMAIN s PROVE \E a \in DOMAIN q : a > i /\ q[a] = s[p]
  BY <1>1, <1>2 DEF PushedOut
<1>4. PushedOut(k, i, s, q)
  BY <1>3 DEF PushedOut
<1> QED
  BY <1>2, <1>4, Zenon

LEMMA SurviveStep ==
  /\ TypeInv /\ LockInv /\ SaveInv /\ RecordInv /\ OrderInv /\ AheadInv /\ SurviveInv
  /\ [Next]_vars
  => SurviveInv'
<1> SUFFICES ASSUME TypeInv, LockInv, SaveInv, RecordInv, OrderInv, AheadInv, SurviveInv,
                    [Next]_vars, faults' = 0
             PROVE  SurviveInv'
  BY DEF SurviveInv
<1>1. ASSUME UNCHANGED <<file, recorded, acked>>, faults = 0 PROVE SurviveInv'
  BY <1>1 DEF SurviveInv
<1>2. CASE UNCHANGED vars
  BY <1>1, <1>2 DEF vars
<1>3. CASE Crash
  BY <1>1, <1>3 DEF Crash, fileVars, histVars
<1>4. ASSUME NEW t \in Threads, Handler(t) PROVE SurviveInv'
  <2>0. faults = 0
    BY <1>4, FaultsStay
  <2>1. CASE \/ \E r \in Requests : Request(t, r)
             \/ Load(t) \/ SetRecordingMode(t) \/ EnterOff(t) \/ Inspect(t)
    BY <1>1, <2>0, <2>1 DEF Request, Load, SetRecordingMode, EnterOff, Inspect, fileVars, histVars
  <2>2. CASE Enter(t)
    <3>1. PICK k \in Kinds :
             /\ Present(t).thread = t /\ Present(t).n = nreq[t]
             /\ recorded'[k] = Append(recorded[k], Present(t))
             /\ \A j \in Kinds \ {k} : recorded'[j] = recorded[j]
      BY <2>2, EnterMoves
    <3>2. pc[t] = "lock" /\ UNCHANGED <<file, acked>>
      BY <2>2 DEF Enter, fileVars
    <3>3. Present(t) \notin acked
      BY <3>1, <3>2 DEF RecordInv, AckedPast
    <3>4. PICK r \in Seq(Entries) : r = recorded[k]
      BY RecordedTyped
    <3>5. /\ DOMAIN recorded'[k] = DOMAIN r \cup {Len(r) + 1}
          /\ \A i \in DOMAIN r : recorded'[k][i] = r[i]
          /\ recorded'[k][Len(r) + 1] = Present(t)
      BY <3>1, <3>4, Appended
    <3>6. ASSUME NEW i \in DOMAIN recorded'[k], recorded'[k][i] \in acked
          PROVE  \/ Holds(Contents(file).arr[k], recorded'[k][i])
                 \/ PushedOut(k, i, Contents(file).arr[k], recorded'[k])
      <4>1. i \in DOMAIN r /\ recorded'[k][i] = r[i]
        BY <3>3, <3>5, <3>6
      <4>2. \/ Holds(Contents(file).arr[k], r[i])
            \/ PushedOut(k, i, Contents(file).arr[k], r)
        BY <2>0, <3>4, <3>6, <4>1 DEF SurviveInv
      <4>3. PushedOut(k, i, Contents(file).arr[k], r) =>
              PushedOut(k, i, Contents(file).arr[k], recorded'[k])
        BY <3>1, <3>4, <4>1, PushedOutGrows
      <4> QED
        BY <4>1, <4>2, <4>3
    <3> QED
      BY <2>0, <3>1, <3>2, <3>6 DEF SurviveInv
  <2>3. CASE Unlock(t)
    <3>1. /\ pc[t] = "unlock" /\ UNCHANGED <<file, recorded>>
          /\ acked' = IF req[t].type = "append" THEN acked \cup {Present(t)} ELSE acked
      BY <2>3 DEF Unlock, fileVars
    <3>2. Present(t).thread = t /\ Present(t).n = nreq[t]
      BY <3>1, PresentTyped
    <3>3. ASSUME NEW k \in Kinds, NEW i \in DOMAIN recorded[k], recorded[k][i] \in acked'
          PROVE  \/ Holds(Contents(file).arr[k], recorded[k][i])
                 \/ PushedOut(k, i, Contents(file).arr[k], recorded[k])
      <4>1. CASE recorded[k][i] \in acked
        BY <2>0, <4>1 DEF SurviveInv
      <4>2. CASE recorded[k][i] = Present(t)
        <5>1. req[t].type = "append" /\ req[t].kind = k
          BY <3>2, <4>2 DEF RecordInv, RecordedPast
        <5> QED
          BY <2>0, <3>1, <4>2, <5>1 DEF AheadInv, AheadAt
      <4> QED
        BY <3>1, <3>3, <4>1, <4>2
    <3> QED
      BY <3>1, <3>3 DEF SurviveInv
  <2>4. CASE Saving(t)
    <3>1. UNCHANGED <<mem, recorded, acked>> /\ Carried(t)
      BY <2>0, <2>4, SaveMoves DEF memVars, histVars, SaveInv
    <3>2. CASE file' = file
      BY <1>1, <2>0, <3>1, <3>2
    <3>3. CASE pc[t] = "rename" /\ file' = tmp
      <4>1. Contents(file') = mem
        BY <3>1, <3>3, FilesTyped DEF Carried, TypeInv, TypeOK
      <4>2. Grown(t) /\ NewestIsPresent(t)
        BY <2>0, <3>3 DEF AheadInv, AheadAt, Holding
      <4>3. ASSUME NEW k \in Kinds, NEW i \in DOMAIN recorded[k], recorded[k][i] \in acked
            PROVE  \/ Holds(mem.arr[k], recorded[k][i])
                   \/ PushedOut(k, i, mem.arr[k], recorded[k])
        <5>1. \/ Holds(Contents(file).arr[k], recorded[k][i])
              \/ PushedOut(k, i, Contents(file).arr[k], recorded[k])
          BY <2>0, <4>3 DEF SurviveInv
        <5>2. CASE ~(req[t].type = "append" /\ req[t].kind = k)
          <6>1. mem.arr[k] = Contents(file).arr[k]
            BY <4>2, <5>2 DEF Grown
          <6> QED
            BY <5>1, <6>1
        <5>3. CASE req[t].type = "append" /\ req[t].kind = k
          <6>1. PICK s, r, e : /\ s = Contents(file).arr[k] /\ r = recorded[k]
                               /\ e = Present(t)
            OBVIOUS
          <6>2. Contents(file) \in States /\ Lengths(Contents(file))
                /\ Contents(file) \in {file.state, Default}
            BY ContentsTyped DEF TypeInv, TypeOK
          <6>3. /\ s \in Seq(Entries) /\ r \in Seq(Entries) /\ e \in Entries
                /\ Len(s) <= MaxKept[k]
            BY <3>3, <6>1, <6>2, PresentTyped, RecordedTyped DEF States, Lengths
          <6>4. Ordered(s, r)
            BY <6>1, <6>2, EmptyOrdered DEF OrderInv
          <6>5. Once(r) /\ r # <<>> /\ r[Len(r)] = e
            BY <4>2, <5>3, <6>1 DEF RecordInv, RecordedOnce, NewestIsPresent
          <6>6. Holds(s, r[i]) \/ PushedOut(k, i, s, r)
            BY <5>1, <6>1
          <6>7. PICK q : q = Trim(k, Append(s, e))
            OBVIOUS
          <6>8. Holds(q, r[i]) \/ PushedOut(k, i, q, r)
            BY <6>1, <6>3, <6>4, <6>5, <6>6, <6>7, PushKeeps
          <6>9. mem.arr[k] = q
            BY <4>2, <5>3, <6>1, <6>7 DEF Grown
          <6> QED
            BY <6>1, <6>8, <6>9
        <5> QED
          BY <5>2, <5>3
      <4> QED
        BY <3>1, <4>1, <4>3 DEF SurviveInv
    <3> QED
      BY <2>4, <3>1, <3>2, <3>3, SaveWorks DEF Carried
  <2> QED
    BY <1>4, <2>1, <2>2, <2>3, <2>4 DEF Handler, Saving
<1> QED
  BY <1>2, <1>3, <1>4 DEF Next

LEMMA SurviveInvariant == Spec => []SurviveInv
<1>1. Init => SurviveInv
  BY DEF Init, SurviveInv
<1> QED
  BY <1>1, SurviveStep, AheadInvariant, OrderInvariant, RecordInvariant, SaveInvariant,
     LockInvariant, TypeInvariant, PTL DEF Spec

\* The entries that fill an array which has pushed out the one at i are all newer
\* than it, and no two of them are the same.
LEMMA PushedOutByMany ==
  ASSUME TypeInv, OrderInv, RecordInv, NEW k \in Kinds, NEW i \in DOMAIN recorded[k],
         PushedOut(k, i, Contents(file).arr[k], recorded[k])
  PROVE  Cardinality(Newer(k, i)) >= MaxKept[k]
<1>1. PICK s, r : s = Contents(file).arr[k] /\ r = recorded[k]
  OBVIOUS
<1>2. PICK M \in Nat \ {0} : M = MaxKept[k]
  BY KeptIsPositive
<1>3. /\ Contents(file) \in States /\ Contents(file) \in {file.state, Default}
      /\ s \in Seq(Entries) /\ r \in Seq(Entries)
  BY <1>1, ContentsTyped, RecordedTyped DEF TypeInv, TypeOK, States
<1>4. Ordered(s, r) /\ Once(r)
  BY <1>1, <1>3, EmptyOrdered DEF OrderInv, RecordInv, RecordedOnce
<1>5. DOMAIN s = 1..M /\ \A p \in 1..M : \E a \in DOMAIN r : a > i /\ r[a] = s[p]
  BY <1>1, <1>2, <1>3 DEF PushedOut
<1> DEFINE f == [p \in 1..M |-> CHOOSE a \in DOMAIN r : a > i /\ r[a] = s[p]]
<1>6. \A p \in 1..M : f[p] \in DOMAIN r /\ f[p] > i /\ r[f[p]] = s[p]
  BY <1>5
<1> HIDE DEF f
<1>7. \A p \in 1..M : f[p] \in Newer(k, i)
  BY <1>1, <1>5, <1>6 DEF Newer, OnFile
<1>8. ASSUME NEW p \in 1..M, NEW q \in 1..M, p < q PROVE f[p] # f[q]
  <2>1. PICK a, b \in DOMAIN r : a < b /\ r[a] = s[p] /\ r[b] = s[q]
    <3>1. p \in DOMAIN s /\ q \in DOMAIN s
      BY <1>5
    <3>2. \E a, b \in DOMAIN r : a < b /\ r[a] = s[p] /\ r[b] = s[q]
      BY <1>4, <1>8, <3>1 DEF Ordered
    <3> QED
      BY <3>2
  <2>2. a = f[p] /\ b = f[q]
    BY <1>4, <1>6, <2>1 DEF Once
  <2>3. a \in Nat /\ b \in Nat
    BY <1>3, <2>1
  <2> QED
    BY <2>1, <2>2, <2>3
<1>9. f \in Injection(1..M, Newer(k, i))
  <2>1. f \in [1..M -> Newer(k, i)]
    BY <1>7 DEF f
  <2>2. ASSUME NEW p \in 1..M, NEW q \in 1..M, f[p] = f[q] PROVE p = q
    <3>1. ~(p < q) /\ ~(q < p)
      BY <1>8, <2>2
    <3> QED
      BY <3>1
  <2> QED
    BY <2>1, <2>2, Fun_IsInj
<1>10. IsFiniteSet(Newer(k, i)) /\ IsFiniteSet(1..M) /\ Cardinality(1..M) = M
  <2>1. IsFiniteSet(1..Len(r)) /\ IsFiniteSet(1..M) /\ Cardinality(1..M) = M
    <3>1. Len(r) \in Int /\ M \in Int /\ M - 1 + 1 = M /\ 1 <= M
      BY <1>3
    <3> QED
      BY <3>1, FS_Interval
  <2>2. Newer(k, i) \subseteq 1..Len(r)
    BY <1>1, <1>3 DEF Newer
  <2> QED
    BY <2>1, <2>2, FS_Subset
<1>11. Cardinality(1..M) <= Cardinality(Newer(k, i))
  BY <1>9, <1>10, FS_Injection
<1>12. Cardinality(Newer(k, i)) \in Nat
  BY <1>10, FS_CardinalityType
<1> QED
  BY <1>2, <1>10, <1>11, <1>12

\* While no file operation has failed, an entry whose recording was answered with
\* success is on file, or enough newer ones pushed it out: over crashes at any
\* point of any thread's save.
THEOREM AckedEntriesSurvive == Spec => []AckedSurvive
<1>1. TypeInv /\ OrderInv /\ RecordInv /\ SurviveInv => AckedSurvive
  <2> SUFFICES ASSUME TypeInv, OrderInv, RecordInv, SurviveInv, faults = 0,
                      NEW k \in Kinds, NEW i \in DOMAIN recorded[k], recorded[k][i] \in acked
               PROVE  OnFile(k, recorded[k][i]) \/ Cardinality(Newer(k, i)) >= MaxKept[k]
    BY DEF AckedSurvive
  <2>1. Holds(Contents(file).arr[k], recorded[k][i]) => OnFile(k, recorded[k][i])
    BY DEF Holds, OnFile
  <2> QED
    BY <2>1, PushedOutByMany DEF SurviveInv
<1> QED
  BY <1>1, SurviveInvariant, OrderInvariant, RecordInvariant, TypeInvariant, PTL
=============================================================================
