----------------------------- MODULE DebugClient -----------------------------
(***************************************************************************)
(* The client of Godot's language server and debug adapter                 *)
(* (src/shared/json_rpc_client.cpp) and the tools that use it              *)
(* (src/tools/debug/debug_tools.cpp). A tool makes a few calls; each opens *)
(* a connection of its own, sends one framed request and takes the first   *)
(* framed message that comes back for the response.                        *)
(*                                                                         *)
(* A frame travels in pieces that recv returns one or several at a time. A *)
(* frame's first piece is shorter than four bytes, the last of its header  *)
(* holds the terminator. The peer is external: it answers, pushes events,  *)
(* sends a header without an end, stays silent or closes.                  *)
(***************************************************************************)
EXTENDS Naturals, Sequences, SequencesExt

CONSTANTS
    HeaderPieces,   \* pieces of a header
    BodyPieces,     \* pieces of a body
    MaxHeaderReads, \* bound: reads for a header (50 in the code)
    MaxReads,       \* bound: reads for a message (500 in the code)
    MaxSent         \* bound: messages of the peer on a connection

ASSUME ClientAssumption ==
    /\ {HeaderPieces, BodyPieces, MaxHeaderReads, MaxReads} \subseteq Nat \ {0}
    /\ HeaderPieces > 1 /\ MaxHeaderReads <= MaxReads /\ MaxSent \in Nat

VARIABLES
    tool,       \* "none", "diagnostics", "query" or "debugger"
    pc,         \* "idle", "reach", "connect", "headers", "body" or "done"
    step,       \* the number of the tool's current call
    sent,       \* the messages the peer began to send on the connection
    wire,       \* pieces that are sent and not received
    closed,     \* the peer has closed the connection
    buf,        \* pieces received
    safety,     \* reads done by the call
    response,   \* the body that the newest call parsed, or <<>>
    reply       \* "none", "success" or "error"

connection == <<sent, wire, closed, buf, safety>>
vars == <<tool, pc, step, connection, response, reply>>

----------------------------------------------------------------------------
(* The tools                                                               *)

\* The lsp_ tools that ask about a document, lsp_get_diagnostics, the dap_ tools.
Requests ==
    [query |-> <<"initialize", "initialized", "request">>,
     diagnostics |-> <<"initialize", "initialized", "workspace/symbol">>,
     debugger |-> <<"request">>]

\* The failure of any other call is ignored.
Needed == IF tool = "diagnostics" THEN "initialize" ELSE "request"

Piece(message, number) == [message |-> message, number |-> number]
Frame(n, message) == [i \in 1 .. HeaderPieces + BodyPieces |-> Piece(<<n, message>>, i)]
Body(n, message) == SubSeq(Frame(n, message), HeaderPieces + 1, HeaderPieces + BodyPieces)

Start(t) ==
    /\ pc = "idle"
    /\ tool' = t /\ pc' = "reach" /\ step' = 1
    /\ UNCHANGED <<connection, response, reply>>

Done(how) == pc' = "done" /\ reply' = how

\* is_reachable: a connection that is closed again.
Reach ==
    /\ pc = "reach"
    /\ \/ pc' = "connect" /\ UNCHANGED reply
       \/ Done("error")
    /\ UNCHANGED <<tool, step, connection, response>>

\* What the tool does after a call.
CallReturned(ok) ==
    /\ IF ~ok /\ Requests[tool][step] = Needed THEN Done("error") /\ UNCHANGED step
       ELSE IF step = Len(Requests[tool]) THEN Done("success") /\ UNCHANGED step
       ELSE pc' = "connect" /\ step' = step + 1 /\ UNCHANGED reply
    /\ UNCHANGED tool

Fail == CallReturned(FALSE) /\ response' = <<>>

----------------------------------------------------------------------------
(* JsonRpcTcpClient::call                                                  *)

\* A socket and a buffer of the call's own.
Fresh == sent' = <<>> /\ wire' = <<>> /\ closed' = FALSE /\ buf' = <<>> /\ safety' = 0

\* connect and send_all.
Connect ==
    /\ pc = "connect"
    /\ pc' = "headers"
    /\ Fresh /\ response' = <<>>
    /\ UNCHANGED <<tool, step, reply>>

ConnectFails ==
    /\ pc = "connect"
    /\ Fresh /\ Fail

\* The header holds the body's length; substr ends at the end of what is there.
\* Text that is not one whole body is not valid JSON.
Substr(pieces, from, to) == SubSeq(pieces, from, IF to > Len(pieces) THEN Len(pieces) ELSE to)
RestOf(received) == Substr(received, HeaderPieces + 1, Len(received))
BodyOf(received) == Substr(received, HeaderPieces + 1, HeaderPieces + BodyPieces)
ValidJson(pieces) == Len(pieces) = BodyPieces

HasHeader(received) == Len(received) >= HeaderPieces /\ received[HeaderPieces].number = HeaderPieces
HasBody(received) == Len(received) >= HeaderPieces + BodyPieces

Parse(received) ==
    IF ValidJson(BodyOf(received)) THEN CallReturned(TRUE) /\ response' = BodyOf(received) ELSE Fail

\* recv returns what is there, or a part of it. Fewer than four bytes in a first
\* read are a failure, and so are too many reads.
Receive(n) ==
    LET received == buf \o SubSeq(wire, 1, n)
        reads == safety + 1
    IN
    /\ pc \in {"headers", "body"} /\ n \in 1 .. Len(wire)
    /\ buf' = received /\ safety' = reads
    /\ wire' = SubSeq(wire, n + 1, Len(wire))
    /\ \/ pc = "headers" /\ Len(received) = 1 /\ Fail
       \/ /\ pc = "headers" /\ Len(received) > 1 /\ ~HasHeader(received)
          /\ IF reads = MaxHeaderReads THEN Fail
             ELSE UNCHANGED <<tool, pc, step, response, reply>>
       \/ /\ Len(received) > 1 /\ (pc = "body" \/ HasHeader(received))
          /\ IF HasBody(received) \/ reads = MaxReads THEN Parse(received)
             ELSE pc' = "body" /\ UNCHANGED <<tool, step, response, reply>>
    /\ UNCHANGED <<sent, closed>>

ReceiveWaits == FALSE

\* SO_RCVTIMEO, or the end of the connection: what is on the wire has not come.
ReceiveFails ==
    /\ pc \in {"headers", "body"}
    /\ Fail
    /\ UNCHANGED connection

Client ==
    \/ Reach \/ Connect \/ ConnectFails \/ ReceiveFails
    \/ \E n \in 1 .. Len(wire) : Receive(n)

----------------------------------------------------------------------------
(* The peer                                                                *)

Open == pc \in {"headers", "body"} /\ ~closed

PeerSends(message) ==
    /\ Open /\ Len(sent) < MaxSent /\ sent # <<"endless">>
    /\ sent' = Append(sent, message)
    /\ wire' = wire \o Frame(Len(sent) + 1, message)
    /\ UNCHANGED <<tool, pc, step, closed, buf, safety, response, reply>>

\* A header without an end, again and again.
PeerDrips ==
    /\ Open /\ wire = <<>> /\ sent \in {<<>>, <<"endless">>}
    /\ sent' = <<"endless">>
    /\ wire' = <<Piece(<<1, "endless">>, 1), Piece(<<1, "endless">>, 1)>>
    /\ UNCHANGED <<tool, pc, step, closed, buf, safety, response, reply>>

PeerCloses ==
    /\ Open
    /\ closed' = TRUE
    /\ UNCHANGED <<tool, pc, step, sent, wire, buf, safety, response, reply>>

Peer == PeerSends("answer") \/ PeerSends("event") \/ PeerDrips \/ PeerCloses

----------------------------------------------------------------------------

Init ==
    /\ tool = "none" /\ pc = "idle" /\ step = 0
    /\ sent = <<>> /\ wire = <<>> /\ closed = FALSE /\ buf = <<>> /\ safety = 0
    /\ response = <<>> /\ reply = "none"

Next == (\E t \in DOMAIN Requests : Start(t)) \/ Client \/ Peer

\* A client's thread goes on; recv returns by its timeout.
Spec == Init /\ [][Next]_vars /\ WF_vars(Client)

----------------------------------------------------------------------------

\* A call that has received the connection's first message whole takes exactly
\* it for the response, however it was cut up and whatever came behind it in the
\* same read, and a call that has not takes nothing. (The first message may be an
\* event: json_rpc_client.cpp:226 compares no ids.)
FirstMessageWhole ==
    pc \notin {"headers", "body"} =>
        response = IF HasHeader(buf) /\ HasBody(buf) THEN Body(1, sent[1]) ELSE <<>>

\* A tool ends whatever the peer does: silence, an endless header, half a body.
ToolEnds == (pc = "reach") ~> (pc = "done")
=============================================================================
