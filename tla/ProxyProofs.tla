----------------------------- MODULE ProxyProofs -----------------------------
(***************************************************************************)
(* Theorems about Proxy, for every number of requests and retries and any  *)
(* room in the pipe.                                                       *)
(***************************************************************************)
EXTENDS Proxy, SequenceTheorems, TLAPS

----------------------------------------------------------------------------
(* Runs of consecutive numbers                                             *)

\* s counts on from n: n + 1, n + 2, ...
CountsOn(s, n) == \A i \in 1..Len(s) : s[i] = n + i

LEMMA CountsOnAppend ==
  ASSUME NEW s \in Seq(Nat), NEW n \in Nat, CountsOn(s, n), NEW e \in Nat, e = n + Len(s) + 1
  PROVE  /\ Append(s, e) \in Seq(Nat) /\ Len(Append(s, e)) = Len(s) + 1
         /\ CountsOn(Append(s, e), n)
<1>1. Len(s) \in Nat /\ Append(s, e) \in Seq(Nat) /\ Len(Append(s, e)) = Len(s) + 1
  OBVIOUS
<1>2. /\ \A i \in 1..Len(s) : Append(s, e)[i] = s[i]
      /\ Append(s, e)[Len(s) + 1] = e
  OBVIOUS
<1>3. \A i \in 1..(Len(s) + 1) : i \in 1..Len(s) \/ i = Len(s) + 1
  BY <1>1
<1> QED
  BY <1>1, <1>2, <1>3 DEF CountsOn

LEMMA CountsOnTail ==
  ASSUME NEW s \in Seq(Nat), NEW n \in Nat, CountsOn(s, n), s # <<>>
  PROVE  /\ Head(s) = n + 1 /\ Len(s) \in Nat \ {0}
         /\ Tail(s) \in Seq(Nat) /\ Len(Tail(s)) = Len(s) - 1 /\ CountsOn(Tail(s), n + 1)
<1>1. Len(s) \in Nat \ {0} /\ Tail(s) \in Seq(Nat) /\ Len(Tail(s)) = Len(s) - 1
  OBVIOUS
<1>2. Head(s) = s[1] /\ \A i \in 1..(Len(s) - 1) : Tail(s)[i] = s[i + 1]
  OBVIOUS
<1>3. \A i \in 1..(Len(s) - 1) : s[i + 1] = n + 1 + i
  BY <1>1 DEF CountsOn
<1> QED
  BY <1>1, <1>2, <1>3 DEF CountsOn

----------------------------------------------------------------------------
(* The inductive invariant                                                 *)

TypeInv ==
    /\ written \in Nat /\ stdinOpen \in BOOLEAN
    /\ stdin \in Seq(Nat) /\ upstream \in Seq(Nat)
    /\ downstream \in Seq(Nat) /\ stdout \in Seq(Nat) /\ pending \in Seq(Nat)
    /\ read \in Nat /\ full \in BOOLEAN
    /\ sock \in {"connecting", "open", "ended", "closed"}
    /\ server \in {"down", "up", "serving", "done", "lost"}
    /\ retries \in Nat /\ exit \in {"no", "0", "1"}

\* What was replied counts up from 1, in stdout's pipe and behind it; nothing
\* waits for a pipe that never was full ...
RepliesCount ==
    /\ CountsOn(stdout, 0)
    /\ CountsOn(pending, Len(stdout))
    /\ CountsOn(downstream, Len(stdout) + Len(pending))
    /\ pending # <<>> => full

\* ... and unless the editor left, so does all that is still on its way.
Replied == Len(stdout) + Len(pending) + Len(downstream)
RequestsCount ==
    server # "lost" =>
        /\ CountsOn(upstream, Replied)
        /\ CountsOn(stdin, Replied + Len(upstream))
        /\ written = Replied + Len(upstream) + Len(stdin)

\* The connection ends in order: the client's side first, then the server's,
\* and the proxy exits last.
EndsInOrder ==
    /\ server = "lost" => upstream = <<>>
    /\ sock = "ended" => ~stdinOpen /\ stdin = <<>>
    /\ server = "serving" => sock \in {"open", "ended"}
    /\ server = "done" => ~stdinOpen /\ stdin = <<>> /\ upstream = <<>>
    /\ sock = "closed" => exit # "no"
    /\ exit # "no" => sock = "closed"
    /\ exit # "no" /\ server = "done" => downstream = <<>>

ProxyInv == TypeInv /\ RepliesCount /\ RequestsCount /\ EndsInOrder

LEMMA ProxyInit == Init => ProxyInv
<1> SUFFICES ASSUME Init PROVE ProxyInv
  OBVIOUS
<1>1. EndsInOrder
  BY DEF Init, EndsInOrder
<1>3. TypeInv
  <2>1. <<>> \in Seq(Nat)
    OBVIOUS
  <2> QED
    BY <2>1 DEF Init, TypeInv
<1>2. RepliesCount /\ RequestsCount
  BY DEF Init, RepliesCount, RequestsCount, CountsOn, Replied
<1> QED
  BY <1>1, <1>2, <1>3 DEF ProxyInv

streams == <<written, stdin, upstream, downstream, stdout, pending, full>>

\* A step that leaves every stream alone, and does not bring a lost editor back.
LEMMA StreamsUnmoved ==
  ASSUME RepliesCount, RequestsCount, UNCHANGED streams,
         server' # "lost" => server # "lost"
  PROVE  RepliesCount' /\ RequestsCount'
  BY DEF RepliesCount, RequestsCount, CountsOn, Replied, streams

LEMMA ProxyStep == ProxyInv /\ [Next]_vars => ProxyInv'
<1> SUFFICES ASSUME ProxyInv, [Next]_vars PROVE ProxyInv'
  OBVIOUS
<1>0. TypeInv /\ RepliesCount /\ RequestsCount /\ EndsInOrder
  BY DEF ProxyInv
<1>1. /\ Len(stdout) \in Nat /\ Len(downstream) \in Nat /\ Len(upstream) \in Nat
      /\ Len(stdin) \in Nat /\ Len(pending) \in Nat /\ Replied \in Nat
      /\ Replied = Len(stdout) + Len(pending) + Len(downstream)
  BY <1>0 DEF TypeInv, Replied
<1>2. CASE ClientWrites
  <2>1. /\ written' = written + 1 /\ stdin' = Append(stdin, written + 1)
        /\ UNCHANGED <<upstream, downstream, stdout, pending, full, server>>
    BY <1>2 DEF ClientWrites, outVars
  <2>2. TypeInv'
    BY <1>0, <1>2 DEF ClientWrites, outVars, TypeInv
  <2>3. RepliesCount'
    BY <1>0, <2>1 DEF RepliesCount, CountsOn
  <2>4. RequestsCount'
    <3>1. CASE server = "lost"
      BY <2>1, <3>1 DEF RequestsCount
    <3>2. CASE server # "lost"
      <4>1. /\ CountsOn(stdin, Replied + Len(upstream))
            /\ CountsOn(upstream, Replied)
            /\ written = Replied + Len(upstream) + Len(stdin)
        BY <1>0, <3>2 DEF RequestsCount
      <4>2. /\ CountsOn(Append(stdin, written + 1), Replied + Len(upstream))
            /\ Len(Append(stdin, written + 1)) = Len(stdin) + 1
        BY <1>0, <1>1, <4>1, CountsOnAppend DEF TypeInv
      <4>3. Replied' = Replied /\ Len(upstream)' = Len(upstream)
        BY <2>1 DEF Replied
      <4>4. CountsOn(upstream, Replied)'
        BY <2>1, <4>1, <4>3 DEF CountsOn
      <4>5. CountsOn(stdin, Replied + Len(upstream))'
        BY <2>1, <4>2, <4>3 DEF CountsOn
      <4>6. written' = Replied' + Len(upstream)' + Len(stdin)'
        BY <1>0, <1>1, <2>1, <4>1, <4>2, <4>3
      <4> QED
        BY <4>4, <4>5, <4>6 DEF RequestsCount
    <3> QED
      BY <3>1, <3>2
  <2>5. EndsInOrder'
    BY <1>0, <1>2 DEF ClientWrites, EndsInOrder
  <2> QED
    BY <2>2, <2>3, <2>4, <2>5 DEF ProxyInv
<1>3. CASE ClientCloses \/ ClientReads \/ EditorStarts \/ OnConnect \/ OnRefused \/ OnInputClose
           \/ OnClose \/ ServerCloses \/ UNCHANGED vars
  <2>1. /\ UNCHANGED streams
        /\ server' # "lost" => server # "lost"
    BY <1>3 DEF ClientCloses, ClientReads, EditorStarts, OnConnect, OnRefused, OnInputClose,
       OnClose, ServerCloses, vars, clientVars, outVars, streams
  <2>2. TypeInv'
    <3>1. CASE ClientCloses \/ EditorStarts \/ UNCHANGED vars
      BY <1>0, <3>1 DEF ClientCloses, EditorStarts, vars, clientVars, outVars, TypeInv
    <3>6. CASE ClientReads
      BY <1>0, <3>6 DEF ClientReads, clientVars, TypeInv
    <3>2. CASE OnRefused
      <4>1. retries' \in Nat /\ exit' \in {"0", "1"} /\ sock' = "closed"
        BY <1>0, <3>2 DEF OnRefused, TypeInv
      <4> QED
        BY <1>0, <3>2, <4>1 DEF OnRefused, clientVars, outVars, TypeInv
    <3>3. CASE OnInputClose \/ ServerCloses
      BY <1>0, <3>3 DEF OnInputClose, ServerCloses, clientVars, outVars, TypeInv
    <3>4. CASE OnClose
      BY <1>0, <3>4 DEF OnClose, clientVars, outVars, TypeInv
    <3>5. CASE OnConnect
      BY <1>0, <3>5 DEF OnConnect, clientVars, outVars, TypeInv
    <3> QED
      BY <1>3, <3>1, <3>2, <3>3, <3>4, <3>5, <3>6
  <2>3. RepliesCount' /\ RequestsCount'
    BY <1>0, <2>1, StreamsUnmoved
  <2>4. EndsInOrder'
    <3>1. CASE ClientCloses \/ ClientReads \/ EditorStarts \/ OnConnect \/ UNCHANGED vars
      BY <1>0, <3>1 DEF ClientCloses, ClientReads, EditorStarts, OnConnect, vars, clientVars, EndsInOrder,
         Running
    <3>2. CASE OnRefused
      BY <1>0, <3>2 DEF OnRefused, clientVars, EndsInOrder, Running
    <3>3. CASE OnInputClose \/ ServerCloses
      BY <1>0, <3>3 DEF OnInputClose, ServerCloses, clientVars, EndsInOrder, Running
    <3>4. CASE OnClose
      BY <1>0, <3>4 DEF OnClose, clientVars, EndsInOrder, Running
    <3> QED
      BY <1>3, <3>1, <3>2, <3>3, <3>4
  <2> QED
    BY <2>2, <2>3, <2>4 DEF ProxyInv
<1>4. CASE EditorQuits
  <2>1. TypeInv'
    BY <1>0, <1>4 DEF EditorQuits, TypeInv, clientVars, outVars
  <2>2. RepliesCount'
    BY <1>0, <1>4 DEF EditorQuits, RepliesCount, CountsOn, outVars
  <2>3. RequestsCount'
    <3>1. CASE server = "up"
      <4>1. UNCHANGED streams /\ server' = "down"
        BY <1>4, <3>1 DEF EditorQuits, clientVars, outVars, streams
      <4> QED
        BY <1>0, <3>1, <4>1, StreamsUnmoved
    <3>2. CASE server # "up"
      <4>1. server' = "lost"
        BY <1>4, <3>2 DEF EditorQuits
      <4> QED
        BY <4>1 DEF RequestsCount
    <3> QED
      BY <3>1, <3>2
  <2>4. EndsInOrder'
    BY <1>0, <1>4 DEF EditorQuits, TypeInv, EndsInOrder, clientVars
  <2> QED
    BY <2>1, <2>2, <2>3, <2>4 DEF ProxyInv
<1>5. CASE ServerReplies
  <2>1. /\ server = "serving" /\ upstream # <<>>
        /\ downstream' = Append(downstream, Head(upstream)) /\ upstream' = Tail(upstream)
        /\ UNCHANGED <<written, stdinOpen, stdin, sock, outVars, server, retries, exit>>
        /\ UNCHANGED <<stdout, pending, full, read>>
    BY <1>5 DEF ServerReplies, clientVars, outVars
  <2>2. /\ CountsOn(upstream, Replied) /\ CountsOn(stdin, Replied + Len(upstream))
        /\ written = Replied + Len(upstream) + Len(stdin)
        /\ CountsOn(downstream, Len(stdout) + Len(pending)) /\ CountsOn(stdout, 0)
        /\ CountsOn(pending, Len(stdout)) /\ (pending # <<>> => full)
    BY <1>0, <2>1 DEF RequestsCount, RepliesCount
  <2>3. /\ Head(upstream) = Replied + 1 /\ Len(upstream) \in Nat \ {0}
        /\ Tail(upstream) \in Seq(Nat) /\ Len(Tail(upstream)) = Len(upstream) - 1
        /\ CountsOn(Tail(upstream), Replied + 1)
    BY <1>0, <1>1, <2>1, <2>2, CountsOnTail DEF TypeInv
  <2>4. /\ downstream' \in Seq(Nat) /\ Len(downstream') = Len(downstream) + 1
        /\ CountsOn(downstream', Len(stdout) + Len(pending))
    <3>1. /\ Len(stdout) + Len(pending) \in Nat /\ Head(upstream) \in Nat
          /\ Head(upstream) = (Len(stdout) + Len(pending)) + Len(downstream) + 1
      BY <1>1, <2>3
    <3>2. downstream \in Seq(Nat) /\ CountsOn(downstream, Len(stdout) + Len(pending))
      BY <1>0, <2>2 DEF TypeInv
    <3> QED
      BY <2>1, <3>1, <3>2, CountsOnAppend
  <2>5. Replied' = Replied + 1 /\ Len(upstream') = Len(upstream) - 1
    BY <1>1, <2>1, <2>3, <2>4 DEF Replied
  <2>6. TypeInv'
    BY <1>0, <2>1, <2>3, <2>4 DEF TypeInv
  <2>7. RepliesCount'
    BY <2>1, <2>2, <2>4 DEF RepliesCount, CountsOn
  <2>8. RequestsCount'
    <3>1. CountsOn(upstream, Replied)'
      BY <2>1, <2>3, <2>5 DEF CountsOn
    <3>2. Replied' + Len(upstream') = Replied + Len(upstream)
      BY <1>1, <2>5
    <3>3. CountsOn(stdin, Replied + Len(upstream))'
      BY <2>1, <2>2, <3>2 DEF CountsOn
    <3> QED
      BY <2>1, <2>2, <3>1, <3>2, <3>3 DEF RequestsCount
  <2>9. EndsInOrder'
    BY <1>0, <2>1 DEF EndsInOrder
  <2> QED
    BY <2>6, <2>7, <2>8, <2>9 DEF ProxyInv
<1>6. CASE OnInput
  <2>1. /\ exit = "no" /\ stdin # <<>> /\ stdin' = Tail(stdin)
        /\ server = "lost" => upstream' = upstream
        /\ server # "lost" => upstream' = Append(upstream, Head(stdin))
        /\ UNCHANGED <<written, stdinOpen, sock, downstream, server, retries, exit>>
        /\ UNCHANGED <<stdout, pending, full, read>>
    BY <1>6 DEF OnInput, Running, clientVars, outVars
  <2>2. RepliesCount'
    BY <1>0, <2>1 DEF RepliesCount, CountsOn
  <2>3. EndsInOrder'
    BY <1>0, <2>1 DEF EndsInOrder
  <2>4. Replied' = Replied
    BY <2>1 DEF Replied
  <2>5. CASE server = "lost"
    <3>1. Tail(stdin) \in Seq(Nat)
      BY <1>0, <2>1 DEF TypeInv
    <3>2. TypeInv'
      BY <1>0, <2>1, <2>5, <3>1 DEF TypeInv
    <3>3. RequestsCount'
      BY <2>1, <2>5 DEF RequestsCount
    <3> QED
      BY <2>2, <2>3, <3>2, <3>3 DEF ProxyInv
  <2>6. CASE server # "lost"
    <3>1. /\ CountsOn(upstream, Replied) /\ CountsOn(stdin, Replied + Len(upstream))
          /\ written = Replied + Len(upstream) + Len(stdin)
      BY <1>0, <2>6 DEF RequestsCount
    <3>2. /\ Head(stdin) = Replied + Len(upstream) + 1 /\ Len(stdin) \in Nat \ {0}
          /\ Tail(stdin) \in Seq(Nat) /\ Len(Tail(stdin)) = Len(stdin) - 1
          /\ CountsOn(Tail(stdin), Replied + Len(upstream) + 1)
      BY <1>0, <1>1, <2>1, <3>1, CountsOnTail DEF TypeInv
    <3>3. /\ upstream' \in Seq(Nat) /\ Len(upstream') = Len(upstream) + 1
          /\ CountsOn(upstream', Replied)
      <4>1. Head(stdin) \in Nat /\ upstream' = Append(upstream, Head(stdin)) /\ upstream \in Seq(Nat)
        BY <1>0, <1>1, <2>1, <2>6, <3>2 DEF TypeInv
      <4> QED
        BY <1>1, <3>1, <3>2, <4>1, CountsOnAppend
    <3>4. TypeInv'
      BY <1>0, <2>1, <3>2, <3>3 DEF TypeInv
    <3>5. Replied' + Len(upstream') = Replied + Len(upstream) + 1
      BY <1>1, <2>4, <3>3
    <3>6. CountsOn(upstream, Replied)' /\ CountsOn(stdin, Replied + Len(upstream))'
      BY <2>1, <2>4, <3>2, <3>3, <3>5 DEF CountsOn
    <3>7. written' = Replied' + Len(upstream') + Len(stdin')
      BY <1>1, <2>1, <3>1, <3>2, <3>5
    <3> QED
      BY <2>2, <2>3, <3>4, <3>6, <3>7 DEF RequestsCount, ProxyInv
  <2> QED
    BY <2>5, <2>6
<1>7. CASE OnData
  <2>1. /\ exit = "no" /\ downstream # <<>> /\ downstream' = Tail(downstream)
        /\ UNCHANGED <<written, stdinOpen, stdin, sock, upstream, read, server, retries, exit>>
    BY <1>7 DEF OnData, Running, clientVars
  <2>2. \/ /\ pending = <<>> /\ stdout' = Append(stdout, Head(downstream))
           /\ UNCHANGED <<pending, full>>
        \/ /\ pending' = Append(pending, Head(downstream)) /\ full' = TRUE
           /\ UNCHANGED stdout
    BY <1>7 DEF OnData
  <2>3. /\ CountsOn(stdout, 0) /\ CountsOn(pending, Len(stdout))
        /\ CountsOn(downstream, Len(stdout) + Len(pending)) /\ (pending # <<>> => full)
    BY <1>0 DEF RepliesCount
  <2>4. /\ Head(downstream) = Len(stdout) + Len(pending) + 1 /\ Len(downstream) \in Nat \ {0}
        /\ Tail(downstream) \in Seq(Nat) /\ Len(Tail(downstream)) = Len(downstream) - 1
        /\ CountsOn(Tail(downstream), Len(stdout) + Len(pending) + 1)
    BY <1>0, <1>1, <2>1, <2>3, CountsOnTail DEF TypeInv
  <2>5. /\ stdout' \in Seq(Nat) /\ pending' \in Seq(Nat) /\ full' \in BOOLEAN
        /\ Len(stdout') + Len(pending') = Len(stdout) + Len(pending) + 1
        /\ CountsOn(stdout', 0) /\ CountsOn(pending', Len(stdout'))
        /\ pending' # <<>> => full'
    <3>1. CASE /\ pending = <<>> /\ stdout' = Append(stdout, Head(downstream))
               /\ UNCHANGED <<pending, full>>
      <4>1. Head(downstream) = 0 + Len(stdout) + 1 /\ Head(downstream) \in Nat
        BY <1>1, <2>4, <3>1
      <4>2. /\ stdout' \in Seq(Nat) /\ Len(stdout') = Len(stdout) + 1 /\ CountsOn(stdout', 0)
        BY <1>0, <3>1, <4>1, <2>3, CountsOnAppend DEF TypeInv
      <4>3. CountsOn(pending', Len(stdout'))
        BY <3>1 DEF CountsOn
      <4> QED
        BY <1>0, <1>1, <3>1, <4>2, <4>3 DEF TypeInv
    <3>2. CASE /\ pending' = Append(pending, Head(downstream)) /\ full' = TRUE
               /\ UNCHANGED stdout
      <4>1. Head(downstream) \in Nat
        BY <1>1, <2>4
      <4>2. /\ pending' \in Seq(Nat) /\ Len(pending') = Len(pending) + 1
            /\ CountsOn(pending', Len(stdout))
        BY <1>0, <1>1, <2>3, <2>4, <3>2, <4>1, CountsOnAppend DEF TypeInv
      <4> QED
        BY <1>0, <1>1, <2>3, <3>2, <4>2 DEF TypeInv
    <3> QED
      BY <2>2, <3>1, <3>2
  <2>6. Len(stdout') \in Nat /\ Len(pending') \in Nat /\ Len(downstream') = Len(downstream) - 1
    BY <2>1, <2>4, <2>5
  <2>7. Replied' = Replied
    <3>1. PICK a, b, c, d, e, f \in Nat :
              /\ a = Len(stdout) /\ b = Len(pending) /\ c = Len(downstream)
              /\ d = Len(stdout') /\ e = Len(pending') /\ f = Len(downstream')
      <4>1. Len(downstream') \in Nat
        BY <2>4, <2>6
      <4> QED
        BY <1>1, <2>6, <4>1
    <3>2. d + e = a + b + 1 /\ f = c - 1
      BY <2>5, <2>6, <3>1
    <3>3. d + e + f = a + b + c
      BY <3>2
    <3> QED
      BY <3>1, <3>3 DEF Replied
  <2>8. TypeInv'
    BY <1>0, <2>1, <2>4, <2>5 DEF TypeInv
  <2>9. RepliesCount'
    BY <2>1, <2>4, <2>5 DEF RepliesCount
  <2>10. RequestsCount'
    BY <1>0, <2>1, <2>7 DEF RequestsCount, CountsOn
  <2>11. EndsInOrder'
    BY <1>0, <2>1 DEF EndsInOrder
  <2> QED
    BY <2>8, <2>9, <2>10, <2>11 DEF ProxyInv
<1>8. CASE OnDrain
  <2>1. /\ exit = "no" /\ pending # <<>>
        /\ stdout' = Append(stdout, Head(pending)) /\ pending' = Tail(pending)
        /\ UNCHANGED <<written, stdinOpen, stdin, sock, upstream, downstream, read, full, server,
                       retries, exit>>
    BY <1>8 DEF OnDrain, Running, clientVars
  <2>2. /\ CountsOn(stdout, 0) /\ CountsOn(pending, Len(stdout))
        /\ CountsOn(downstream, Len(stdout) + Len(pending)) /\ full
    BY <1>0, <2>1 DEF RepliesCount
  <2>3. /\ Head(pending) = Len(stdout) + 1 /\ Len(pending) \in Nat \ {0}
        /\ Tail(pending) \in Seq(Nat) /\ Len(Tail(pending)) = Len(pending) - 1
        /\ CountsOn(Tail(pending), Len(stdout) + 1)
    BY <1>0, <1>1, <2>1, <2>2, CountsOnTail DEF TypeInv
  <2>4. /\ stdout' \in Seq(Nat) /\ Len(stdout') = Len(stdout) + 1 /\ CountsOn(stdout', 0)
    BY <1>0, <1>1, <2>1, <2>2, <2>3, CountsOnAppend DEF TypeInv
  <2>5. Len(stdout') + Len(pending') = Len(stdout) + Len(pending)
    BY <1>1, <2>1, <2>3, <2>4
  <2>6. Replied' = Replied
    BY <2>1, <2>5 DEF Replied
  <2>7. TypeInv'
    BY <1>0, <2>1, <2>3, <2>4 DEF TypeInv
  <2>8. RepliesCount'
    <3>1. CountsOn(downstream', Len(stdout') + Len(pending'))
      BY <2>1, <2>2, <2>5 DEF CountsOn
    <3> QED
      BY <2>1, <2>2, <2>3, <2>4, <3>1 DEF RepliesCount
  <2>9. RequestsCount'
    BY <1>0, <2>1, <2>6 DEF RequestsCount, CountsOn
  <2>10. EndsInOrder'
    BY <1>0, <2>1 DEF EndsInOrder
  <2> QED
    BY <2>7, <2>8, <2>9, <2>10 DEF ProxyInv
<1> QED
  BY <1>2, <1>3, <1>4, <1>5, <1>6, <1>7, <1>8 DEF Next, Server, EventLoop

LEMMA ProxyInvariant == FairSpec => []ProxyInv
  BY ProxyInit, ProxyStep, PTL DEF FairSpec, Spec

\* The replies come out in the order of the requests, none twice and none left
\* out.
THEOREM ProxyKeepsOrder == FairSpec => []RepliesInOrder
<1>1. ProxyInv => RepliesInOrder
  <2> SUFFICES ASSUME ProxyInv PROVE RepliesInOrder
    OBVIOUS
  <2>1. stdout \in Seq(Nat) /\ CountsOn(stdout, 0)
    BY DEF ProxyInv, TypeInv, RepliesCount
  <2>2. \A k \in 1..Len(stdout) : stdout[k] = k
    BY <2>1 DEF CountsOn
  <2> QED
    BY <2>1, <2>2 DEF RepliesInOrder
<1> QED
  BY <1>1, ProxyInvariant, PTL

\* When the server ends the connection itself, the proxy has given a reply to
\* every request to process.stdout.write before it exits, and they are all in
\* stdout's pipe unless one of these writes found it full.
THEOREM ProxyLosesNothing == FairSpec => []NoReplyLost
<1>1. ProxyInv => NoReplyLost
  <2> SUFFICES ASSUME ProxyInv, exit # "no", server = "done"
               PROVE  Len(stdout) + Len(pending) = written /\ (~full => Len(stdout) = written)
    BY DEF NoReplyLost
  <2>1. stdin = <<>> /\ upstream = <<>> /\ downstream = <<>>
    BY DEF ProxyInv, EndsInOrder
  <2>2. /\ Len(stdout) \in Nat /\ Len(pending) \in Nat
        /\ written = Replied + Len(upstream) + Len(stdin)
    BY DEF ProxyInv, RequestsCount, TypeInv
  <2>3. ~full => Len(pending) = 0
    BY DEF ProxyInv, RepliesCount
  <2> QED
    BY <2>1, <2>2, <2>3 DEF Replied
<1> QED
  BY <1>1, ProxyInvariant, PTL
=============================================================================
