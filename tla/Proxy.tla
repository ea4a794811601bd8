------------------------------- MODULE Proxy -------------------------------
(***************************************************************************)
(* gear-mcp-proxy (proxy/index.js) between an MCP client's stdio and the   *)
(* server's socket.  One process, one event loop: every handler is a step. *)
(* The k-th request and its reply are both called k.                       *)
(***************************************************************************)
EXTENDS Naturals, Sequences

CONSTANTS
    Total,      \* bound: requests the client may write
    MaxRetries, \* MAX_RETRIES
    PipeRoom    \* replies the pipe between the proxy and the client holds

ASSUME ProxyAssumption == Total \in Nat /\ MaxRetries \in Nat /\ PipeRoom \in Nat \ {0}

VARIABLES
    written,    \* requests the client has written to stdin
    stdinOpen,  \* the client has not closed stdin
    stdin,      \* requests in stdin's pipe
    sock,       \* the socket: "connecting", "open", "ended" (FIN queued), "closed"
    upstream,   \* requests written to the socket and not received by the server
    downstream, \* replies sent by the server and not read by the proxy
    stdout,     \* replies that went into stdout's pipe
    read,       \* how many of them the client has read
    pending,    \* replies given to process.stdout.write that wait for the pipe
    full,       \* history: such a write once found the pipe full
    server,     \* "down", "up"; "serving" this connection; "done" with it; "lost"
    retries,    \* retries
    exit        \* "no", or the exit code

clientVars == <<written, stdinOpen>>
outVars == <<stdout, read, pending, full>>
vars == <<clientVars, stdin, sock, upstream, downstream, outVars, server, retries, exit>>
Running == exit = "no"

Init ==
    /\ written = 0 /\ stdinOpen = TRUE /\ stdin = <<>>
    /\ sock = "connecting" /\ upstream = <<>> /\ downstream = <<>> 
    /\ stdout = <<>> /\ read = 0 /\ pending = <<>> /\ full = FALSE
    /\ server \in {"down", "up"}
    /\ retries = 0 /\ exit = "no"

----------------------------------------------------------------------------
(* The MCP client and the editor                                           *)

ClientWrites ==
    /\ stdinOpen /\ written < Total
    /\ written' = written + 1 /\ stdin' = Append(stdin, written + 1)
    /\ UNCHANGED <<stdinOpen, sock, upstream, downstream, outVars, server, retries, exit>>

ClientCloses ==
    /\ stdinOpen /\ stdinOpen' = FALSE
    /\ UNCHANGED <<written, stdin, sock, upstream, downstream, outVars, server, retries, exit>>

ClientReads ==
    /\ read < Len(stdout) /\ read' = read + 1
    /\ UNCHANGED <<clientVars, stdin, sock, upstream, downstream, stdout, pending, full, server,
                   retries, exit>>

EditorStarts ==
    /\ server = "down" /\ server' = "up"
    /\ UNCHANGED <<clientVars, stdin, sock, upstream, downstream, outVars, retries, exit>>

\* The editor is gone: what was on its way is lost.
EditorQuits ==
    /\ server \in {"up", "serving"}
    /\ server' = IF server = "up" THEN "down" ELSE "lost"
    /\ upstream' = IF server = "up" THEN upstream ELSE <<>>
    /\ UNCHANGED <<clientVars, stdin, sock, downstream, outVars, retries, exit>>

\* The connection's thread: recv, handle, send; recv returns 0 only after the
\* last request, and then it closes the socket.
ServerReplies ==
    /\ server = "serving" /\ upstream # <<>>
    /\ downstream' = Append(downstream, Head(upstream)) /\ upstream' = Tail(upstream)
    /\ UNCHANGED <<clientVars, stdin, sock, outVars, server, retries, exit>>

ServerCloses ==
    /\ server = "serving" /\ upstream = <<>> /\ sock \in {"ended", "closed"}
    /\ server' = "done"
    /\ UNCHANGED <<clientVars, stdin, sock, upstream, downstream, outVars, retries, exit>>

----------------------------------------------------------------------------
(* The proxy's handlers                                                    *)

\* socket 'connect'; what was written before is sent now, a FIN included.
OnConnect ==
    /\ Running /\ sock \in {"connecting", "ended"} /\ server = "up"
    /\ sock' = IF sock = "connecting" THEN "open" ELSE sock
    /\ server' = "serving" /\ retries' = 0
    /\ UNCHANGED <<clientVars, stdin, upstream, downstream, outVars, exit>>

\* socket 'error' with ECONNREFUSED sets the timer (or exits); the 'close'
\* that Node emits right after it exits before the timer can fire.
OnRefused ==
    /\ Running /\ sock \in {"connecting", "ended"} /\ server = "down"
    /\ IF retries < MaxRetries THEN retries' = retries + 1 /\ exit' = "0"
       ELSE UNCHANGED retries /\ exit' = "1"
    /\ sock' = "closed"
    /\ UNCHANGED <<clientVars, stdin, upstream, downstream, outVars, server>>

OnInputKeeps ==
    /\ Running /\ stdin # <<>> /\ Len(upstream) < Total
    /\ upstream' = Append(upstream, Head(stdin))
    /\ UNCHANGED <<clientVars, stdin, sock, downstream, outVars, server, retries, exit>>

OnInputDropsEarly ==
    /\ Running /\ stdin # <<>>
    /\ upstream' = IF server = "serving" THEN Append(upstream, Head(stdin)) ELSE upstream
    /\ stdin' = Tail(stdin)
    /\ UNCHANGED <<clientVars, sock, downstream, outVars, server, retries, exit>>

\* stdin 'data'
OnInput ==
    /\ Running /\ stdin # <<>>
    /\ upstream' = IF server = "lost" THEN upstream ELSE Append(upstream, Head(stdin))
    /\ stdin' = Tail(stdin)
    /\ UNCHANGED <<clientVars, sock, downstream, outVars, server, retries, exit>>

\* stdin 'close': socket.end(), a half-close behind what was written.
OnInputClose ==
    /\ Running /\ ~stdinOpen /\ stdin = <<>> /\ sock \in {"connecting", "open"}
    /\ sock' = "ended"
    /\ UNCHANGED <<clientVars, stdin, upstream, downstream, outVars, server, retries, exit>>

\* socket 'data': process.stdout.write tries the pipe at once unless earlier
\* replies wait for it; what finds no room waits in the stream.
PipeHasRoom == Len(stdout) - read < PipeRoom

OnData ==
    /\ Running /\ downstream # <<>>
    /\ IF pending = <<>> /\ PipeHasRoom
       THEN stdout' = Append(stdout, Head(downstream)) /\ UNCHANGED <<pending, full>>
       ELSE pending' = Append(pending, Head(downstream)) /\ full' = TRUE /\ UNCHANGED stdout
    /\ downstream' = Tail(downstream)
    /\ UNCHANGED <<clientVars, stdin, sock, upstream, read, server, retries, exit>>

\* stdout becomes writable again.
OnDrain ==
    /\ Running /\ pending # <<>> /\ PipeHasRoom
    /\ stdout' = Append(stdout, Head(pending)) /\ pending' = Tail(pending)
    /\ UNCHANGED <<clientVars, stdin, sock, upstream, downstream, read, full, server, retries,
                   exit>>

OnCloseEarly ==
    /\ Running /\ server \in {"done", "lost"}
    /\ sock' = "closed" /\ exit' = "0"
    /\ UNCHANGED <<clientVars, stdin, upstream, downstream, outVars, server, retries>>

\* socket 'close', after the last 'data'; or 'error' on a reset connection.
\* process.exit waits for nothing: what is pending then is never written.
OnClose ==
    /\ Running /\ server \in {"done", "lost"}
    /\ \/ downstream = <<>> /\ exit' = "0"
       \/ server = "lost" /\ exit' = "1"
    /\ sock' = "closed"
    /\ UNCHANGED <<clientVars, stdin, upstream, downstream, outVars, server, retries>>

----------------------------------------------------------------------------

Server == EditorStarts \/ ServerReplies \/ ServerCloses
EventLoop == OnConnect \/ OnRefused \/ OnInput \/ OnInputClose \/ OnData \/ OnDrain
             \/ OnClose

Next == ClientWrites \/ ClientCloses \/ ClientReads \/ EditorQuits \/ Server \/ EventLoop

Spec == Init /\ [][Next]_vars

(* Node runs its event loop and the server its thread.                      *)
FairSpec == Spec /\ WF_vars(EventLoop) /\ WF_vars(ServerReplies) /\ WF_vars(ServerCloses)

(* The client goes on reading what the proxy writes. *)
ClientKeepsReading == WF_vars(ClientReads)

----------------------------------------------------------------------------
(* Properties                                                              *)

\* The replies come out in the order of the requests, none twice.
RepliesInOrder == stdout = [k \in 1..Len(stdout) |-> k]

\* A client that closes stdin right behind its requests gets all the replies:
\* when the server ends the connection itself, the proxy has given them all to
\* stdout before it exits, and they are all in the pipe unless the pipe was full
\* at one of these writes: the exit drops what was pending then.
NoReplyLost ==
    exit # "no" /\ server = "done" =>
        Len(stdout) + Len(pending) = written /\ (~full => Len(stdout) = written)

\* A request is answered in the end if the client goes on reading, unless the
\* editor is not there, or no longer, or the proxy has exited (NoReplyLost says
\* what that means).
RequestAnswered ==
    ClientKeepsReading => \A k \in 1..Total :
        written >= k ~> (Len(stdout) >= k \/ server \in {"down", "lost"} \/ exit # "no")
============================================================================
