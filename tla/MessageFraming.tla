--------------------------- MODULE MessageFraming ---------------------------
(***************************************************************************)
(* The client thread's read loop of TCPServer (src/server/tcp_server.cpp): *)
(* bytes arrive in chunks of any size, are appended to line_buffer, and    *)
(* extract_next_message cuts depth-balanced {...} objects out of it, which *)
(* go to the message handler one after the other.                          *)
(*                                                                         *)
(* A byte is a member of Chars: the characters the code tells apart (" "   *)
(* for every blank but the newline), and "x" for every other one.  What a  *)
(* client sends is a sequence of messages, each with what it puts in front *)
(* of it.                                                                  *)
(***************************************************************************)
EXTENDS Integers, Sequences, FiniteSets, SequencesExt

CONSTANTS
    Sessions,   \* what a client may send: sequences of [lead, msg] records
    MaxChunk    \* bound: bytes one recv() returns (4095 in the code)

Newline == "\n"
Quote == "\""
Backslash == "\\"
Open == "{"
Close == "}"

Whitespace == {" ", Newline}
Chars == Whitespace \cup {Open, Close, Quote, Backslash, "x"}

----------------------------------------------------------------------------
(* What a client sends: JSON objects.  Said of a message as a whole, and   *)
(* not by a scan of it: a character is escaped when the one before it is a *)
(* backslash that is not, a string runs from one quote that is not escaped *)
(* to the next, and the braces outside of strings balance at the last      *)
(* character and not before.                                               *)

Escaped(m) ==
    LET escaped[i \in 0..Len(m)] == i > 1 /\ m[i - 1] = Backslash /\ ~escaped[i - 1]
    IN  escaped

Plain(m, ch, i) == {j \in 1..i : m[j] = ch /\ ~Escaped(m)[j]}

InString(m, i) == Cardinality(Plain(m, Quote, i)) % 2 = 1

Braces(m, ch, i) == {j \in Plain(m, ch, i) : ~InString(m, j)}

Depth(m, i) == Cardinality(Braces(m, Open, i)) - Cardinality(Braces(m, Close, i))

IsObject(m) ==
    /\ m # <<>> /\ m[1] = Open
    /\ Depth(m, Len(m)) = 0
    /\ \A i \in 1..(Len(m) - 1) : Depth(m, i) > 0

ASSUME SessionsAssumption ==
    /\ Sessions \subseteq Seq([lead : Seq(Whitespace), msg : Seq(Chars)])
    /\ \A s \in Sessions : \A i \in DOMAIN s : IsObject(s[i].msg)
    /\ MaxChunk \in Nat \ {0}

----------------------------------------------------------------------------
VARIABLES
    session,    \* what the client sends
    received,   \* how many bytes of it recv() has returned
    buffer,     \* line_buffer
    handled     \* the messages passed to the handler, in order

vars == <<session, received, buffer, handled>>

\* The bytes of the first n messages of a session, with their leads.
Bytes(s, n) ==
    LET sent[i \in 0..Len(s)] == IF i = 0 THEN <<>> ELSE sent[i - 1] \o s[i].lead \o s[i].msg
    IN  sent[n]

Wire(s) == Bytes(s, Len(s))

----------------------------------------------------------------------------
(* extract_next_message                                                    *)

ScanCharNoEscape(st, ch) ==
    LET at == [st EXCEPT !.pos = @ + 1]
    IN  CASE st.end > 0                -> st
          [] st.end = 0 /\ ch = Quote  -> [at EXCEPT !.str = ~@]
          [] st.end = 0 /\ ch = Open /\ ~st.str -> [at EXCEPT !.depth = @ + 1]
          [] st.end = 0 /\ ch = Close /\ ~st.str ->
               [at EXCEPT !.depth = @ - 1, !.end = IF st.depth = 1 THEN at.pos ELSE 0]
          [] OTHER                     -> at

\* One round of the scan: depth, in_string and escaped after ch, and the
\* position of the brace that closes the object (0 before it).
ScanChar(st, ch) ==
    LET at == [st EXCEPT !.pos = @ + 1]
    IN  CASE st.end > 0                                -> st
          [] st.end = 0 /\ st.esc                      -> [at EXCEPT !.esc = FALSE]
          [] st.end = 0 /\ ~st.esc /\ ch = Backslash   -> [at EXCEPT !.esc = TRUE]
          [] st.end = 0 /\ ~st.esc /\ ch = Quote       -> [at EXCEPT !.str = ~@]
          [] st.end = 0 /\ ~st.esc /\ ch = Open /\ ~st.str -> [at EXCEPT !.depth = @ + 1]
          [] st.end = 0 /\ ~st.esc /\ ch = Close /\ ~st.str ->
               [at EXCEPT !.depth = @ - 1, !.end = IF st.depth = 1 THEN at.pos ELSE 0]
          [] OTHER                                     -> at

ScanStart == [depth |-> 0, str |-> FALSE, esc |-> FALSE, pos |-> 0, end |-> 0]

\* What the scan knows after each character of s.
Scan(s) ==
    LET scan[i \in 0..Len(s)] == IF i = 0 THEN ScanStart ELSE ScanChar(scan[i - 1], s[i])
    IN  scan

\* Length of the object s begins with, 0 while it is incomplete.
ObjectEnd(s) == Scan(s)[Len(s)].end

SkipWhitespace(s) ==
    LET ink == SelectInSeq(s, LAMBDA ch : ch \notin Whitespace)
    IN  IF ink = 0 THEN <<>> ELSE SubSeq(s, ink, Len(s))

ExtractNextDropsTail(buf) ==
    LET s == SkipWhitespace(buf)
        end == ObjectEnd(s)
    IN  IF end = 0 THEN [msg |-> <<>>, rest |-> s]
        ELSE [msg |-> SubSeq(s, 1, end), rest |-> <<>>]

\* What one call returns and leaves in the buffer: no message from blanks,
\* from a line of garbage (dropped up to its newline, or whole when it has
\* none yet), and from an object that is not complete.
ExtractNext(buf) ==
    LET s == SkipWhitespace(buf)
        newline == SelectInSeq(s, LAMBDA ch : ch = Newline)
        end == ObjectEnd(s)
    IN  CASE s = <<>>                           -> [msg |-> <<>>, rest |-> <<>>]
          [] s # <<>> /\ s[1] # Open             ->
               [msg |-> <<>>, rest |-> IF newline = 0 THEN <<>> ELSE SubSeq(s, newline + 1, Len(s))]
          [] s # <<>> /\ s[1] = Open /\ end = 0  -> [msg |-> <<>>, rest |-> s]
          [] OTHER                              ->
               [msg |-> SubSeq(s, 1, end), rest |-> SubSeq(s, end + 1, Len(s))]

----------------------------------------------------------------------------
(* The loops around it                                                     *)

DrainStepNoBreak(st) ==
    LET x == ExtractNext(st.buf)
    IN  [st EXCEPT !.buf = x.rest, !.msgs = Append(@, x.msg)]

\* Extract and handle, until a call returns no message.
DrainStep(st) ==
    LET x == ExtractNext(st.buf)
    IN  CASE st.stop                   -> st
          [] ~st.stop /\ x.msg = <<>>  -> [st EXCEPT !.buf = x.rest, !.stop = TRUE]
          [] ~st.stop /\ x.msg # <<>>  -> [st EXCEPT !.buf = x.rest, !.msgs = Append(@, x.msg)]

\* Every round but the last takes a character, so Len + 1 rounds are enough.
Drain(buf) ==
    LET round[i \in 0..(Len(buf) + 1)] ==
            IF i = 0 THEN [buf |-> buf, msgs |-> <<>>, stop |-> FALSE] ELSE DrainStep(round[i - 1])
    IN  round[Len(buf) + 1]

Init ==
    /\ session \in Sessions
    /\ received = 0
    /\ buffer = <<>>
    /\ handled = <<>>

\* recv() returns the next n bytes and the loop runs on the whole buffer.
Recv(n) ==
    /\ received + n <= Len(Wire(session))
    /\ LET d == Drain(buffer \o SubSeq(Wire(session), received + 1, received + n))
       IN  buffer' = d.buf /\ handled' = handled \o d.msgs
    /\ received' = received + n
    /\ UNCHANGED session

Next == \E n \in 1..MaxChunk : Recv(n)

Spec == Init /\ [][Next]_vars

----------------------------------------------------------------------------
(* Properties                                                              *)

\* Every variable has its type; the handler is never given an empty message.
TypeOK ==
    /\ session \in Sessions
    /\ received \in 0..Len(Wire(session))
    /\ buffer \in Seq(Chars)
    /\ \A i \in DOMAIN handled : handled[i] \in Seq(Chars) /\ handled[i] # <<>>

\* How many messages have been received to their last byte.
Complete ==
    LET ends == {n \in 0..Len(session) : Len(Bytes(session, n)) <= received}
    IN  CHOOSE n \in ends : \A m \in ends : m <= n

\* However recv() cuts the stream: the handler has had exactly the messages
\* received to their last byte, in their order -- braces, quotes and newlines
\* inside them notwithstanding, and none waits for a later recv().
HandledAsReceived == handled = [i \in 1..Complete |-> session[i].msg]

\* ... and the buffer keeps what has arrived of the next one, and only that.
BufferIsUnfinished ==
    SkipWhitespace(buffer) =
        SkipWhitespace(SubSeq(Wire(session), Len(Bytes(session, Complete)) + 1, received))
============================================================================
