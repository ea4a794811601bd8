-------------------------- MODULE DebugClientProofs --------------------------
(***************************************************************************)
(* A theorem about DebugClient, for every number of pieces a message is    *)
(* cut into, every way they are received and every bound on reads and on   *)
(* the peer's messages.                                                    *)
(***************************************************************************)
EXTENDS DebugClient, SequenceTheorems, TLAPS

Messages == {"answer", "event", "endless"}
Pieces == [message : Nat \X Messages, number : Nat]
Size == HeaderPieces + BodyPieces

TypeInv == sent \in Seq(Messages) /\ wire \in Seq(Pieces) /\ buf \in Seq(Pieces)

\* The connection's stream: what is received, and behind it what is on the wire.
StreamLen == Len(buf) + Len(wire)
At(i) == IF i <= Len(buf) THEN buf[i] ELSE wire[i - Len(buf)]

\* Nothing, headers without an end, or the first message and what follows it.
Nothing == sent = <<>> /\ StreamLen = 0
Endless == sent = <<"endless">> /\ \A i \in 1..StreamLen : At(i).number = 1
Framed ==
    /\ sent # <<>> /\ sent[1] # "endless" /\ StreamLen >= Size
    /\ \A i \in 1..Size : At(i) = Piece(<<1, sent[1]>>, i)
StreamInv == Nothing \/ Endless \/ Framed

LEMMA PiecesCounted ==
  /\ HeaderPieces \in Nat /\ HeaderPieces > 1 /\ BodyPieces \in Nat /\ BodyPieces > 0
  /\ Size \in Nat /\ Size > HeaderPieces /\ Size = HeaderPieces + BodyPieces
<1>1. HeaderPieces \in Nat \ {0} /\ BodyPieces \in Nat \ {0} /\ HeaderPieces > 1
  BY ClientAssumption
<1> QED
  BY <1>1 DEF Size

LEMMA FrameHas ==
  ASSUME NEW n \in Nat, NEW m \in Messages
  PROVE  /\ Frame(n, m) \in Seq(Pieces) /\ Len(Frame(n, m)) = Size
         /\ \A i \in 1..Size : Frame(n, m)[i] = Piece(<<n, m>>, i)
<1>1. Frame(n, m) = [i \in 1..Size |-> Piece(<<n, m>>, i)] /\ Size \in Nat
  BY PiecesCounted DEF Frame, Size
<1>2. \A i \in 1..Size : Piece(<<n, m>>, i) \in Pieces
  BY PiecesCounted DEF Piece, Pieces
<1>3. [i \in 1..Size |-> Piece(<<n, m>>, i)] \in Seq(Pieces)
  BY <1>1, <1>2
<1> QED
  BY <1>1, <1>3

\* recv moves the first n pieces from the wire, w, into the buffer, b; c and v are
\* buffer and wire after it.
Shifted(S, b, w, n, c, v) ==
    /\ c \in Seq(S) /\ Len(c) = Len(b) + n
    /\ \A i \in 1..(Len(b) + n) : c[i] = IF i <= Len(b) THEN b[i] ELSE w[i - Len(b)]
    /\ v \in Seq(S) /\ Len(v) = Len(w) - n
    /\ \A i \in 1..(Len(w) - n) : v[i] = w[n + i]

LEMMA Moved ==
  ASSUME NEW S, NEW b \in Seq(S), NEW w \in Seq(S), NEW n \in 1..Len(w),
         NEW c, c = b \o SubSeq(w, 1, n), NEW v, v = SubSeq(w, n + 1, Len(w))
  PROVE  Shifted(S, b, w, n, c, v)
<1>0. n \in Nat /\ n >= 1 /\ n <= Len(w) /\ Len(w) \in Nat /\ Len(b) \in Nat
  OBVIOUS
<1>1. PICK s \in Seq(S) : s = SubSeq(w, 1, n) /\ Len(s) = n /\ \A i \in 1..n : s[i] = w[i]
  <2>1. /\ SubSeq(w, 1, n) \in Seq(S) /\ Len(SubSeq(w, 1, n)) = n
        /\ \A i \in 1..n : SubSeq(w, 1, n)[i] = w[i]
    BY <1>0
  <2> QED
    BY <2>1, Zenon
<1>2. /\ b \o s \in Seq(S) /\ Len(b \o s) = Len(b) + Len(s)
      /\ \A i \in 1..Len(b) : (b \o s)[i] = b[i]
      /\ \A i \in 1..Len(s) : (b \o s)[Len(b) + i] = s[i]
  BY <1>1
<1>3. ASSUME NEW i \in 1..(Len(b) + n)
      PROVE  (b \o s)[i] = IF i <= Len(b) THEN b[i] ELSE w[i - Len(b)]
  <2>1. CASE i <= Len(b)
    BY <1>2, <2>1
  <2>2. CASE ~(i <= Len(b))
    <3>1. i - Len(b) \in 1..n /\ Len(b) + (i - Len(b)) = i
      BY <1>0, <2>2
    <3>2. (b \o s)[i] = s[i - Len(b)] /\ s[i - Len(b)] = w[i - Len(b)]
      BY <1>1, <1>2, <3>1
    <3> QED
      BY <2>2, <3>2
  <2> QED
    BY <2>1, <2>2
<1>4. c = b \o s
  BY <1>1
<1>5. /\ SubSeq(w, n + 1, Len(w)) \in Seq(S) /\ Len(SubSeq(w, n + 1, Len(w))) = Len(w) - n
      /\ \A i \in 1..(Len(w) - n) : SubSeq(w, n + 1, Len(w))[i] = w[n + i]
  OBVIOUS
<1>6. /\ c \in Seq(S) /\ Len(c) = Len(b) + n
      /\ \A i \in 1..(Len(b) + n) : c[i] = IF i <= Len(b) THEN b[i] ELSE w[i - Len(b)]
  BY <1>1, <1>2, <1>3, <1>4
<1>7. /\ v \in Seq(S) /\ Len(v) = Len(w) - n
      /\ \A i \in 1..(Len(w) - n) : v[i] = w[n + i]
  BY <1>5, Zenon
<1> QED
  BY <1>6, <1>7, Zenon DEF Shifted

LEMMA Received ==
  ASSUME TypeInv, NEW n \in 1 .. Len(wire), Receive(n)
  PROVE  UNCHANGED sent /\ Shifted(Pieces, buf, wire, n, buf', wire')
<1>1. buf \in Seq(Pieces) /\ wire \in Seq(Pieces)
  BY DEF TypeInv
<1>2. /\ buf' = buf \o SubSeq(wire, 1, n) /\ wire' = SubSeq(wire, n + 1, Len(wire))
      /\ UNCHANGED sent
  BY DEF Receive
<1> QED
  BY <1>1, <1>2, Moved, Zenon

LEMMA TypeStep == TypeInv /\ [Next]_vars => TypeInv'
<1> SUFFICES ASSUME TypeInv, [Next]_vars PROVE TypeInv'
  OBVIOUS
<1>1. CASE \/ UNCHANGED vars \/ (\E t \in DOMAIN Requests : Start(t)) \/ Reach \/ ReceiveFails
           \/ PeerCloses
  <2>1. UNCHANGED <<sent, wire, buf>>
    BY <1>1 DEF vars, connection, Start, Reach, ReceiveFails, PeerCloses
  <2> QED
    BY <2>1 DEF TypeInv
<1>2. ASSUME NEW n \in 1 .. Len(wire), Receive(n) PROVE TypeInv'
  BY <1>2, Received DEF TypeInv, Shifted
<1>3. ASSUME NEW message \in {"answer", "event"}, PeerSends(message) PROVE TypeInv'
  <2>1. Len(sent) + 1 \in Nat /\ message \in Messages
    BY DEF TypeInv, Messages
  <2>2. PICK frame \in Seq(Pieces) : frame = Frame(Len(sent) + 1, message)
    BY <2>1, FrameHas
  <2> QED
    BY <1>3, <2>1, <2>2 DEF PeerSends, TypeInv
<1>4. CASE PeerDrips
  <2>1. PICK piece \in Pieces : piece = Piece(<<1, "endless">>, 1)
    BY DEF Piece, Pieces, Messages
  <2>2. <<piece, piece>> \in Seq(Pieces) /\ <<"endless">> \in Seq(Messages)
    BY DEF Messages
  <2> QED
    BY <1>4, <2>1, <2>2 DEF PeerDrips, TypeInv
<1>5. CASE Connect \/ ConnectFails
  <2>1. sent' = <<>> /\ wire' = <<>> /\ buf' = <<>>
    BY <1>5 DEF Connect, ConnectFails, Fresh
  <2> QED
    BY <2>1 DEF TypeInv
<1> QED
  BY <1>1, <1>2, <1>3, <1>4, <1>5 DEF Next, Client, Peer

LEMMA TypeInvariant == Spec => []TypeInv
<1>1. Init => TypeInv
  BY DEF Init, TypeInv
<1> QED
  BY <1>1, TypeStep, PTL DEF Spec

----------------------------------------------------------------------------
(* The stream                                                              *)

\* Receiving changes nothing about it.
LEMMA StreamReceived ==
  ASSUME TypeInv, NEW n \in 1 .. Len(wire), Receive(n)
  PROVE  StreamLen' = StreamLen /\ \A i \in 1..StreamLen : At(i)' = At(i)
<1>1. /\ Len(buf') = Len(buf) + n /\ Len(wire') = Len(wire) - n
      /\ \A i \in 1..(Len(buf) + n) : buf'[i] = IF i <= Len(buf) THEN buf[i] ELSE wire[i - Len(buf)]
      /\ \A i \in 1..(Len(wire) - n) : wire'[i] = wire[n + i]
  BY Received DEF Shifted
<1>2. Len(buf) \in Nat /\ Len(wire) \in Nat /\ n \in Nat /\ n <= Len(wire)
  BY DEF TypeInv
<1>3. ASSUME NEW i \in 1..StreamLen PROVE At(i)' = At(i)
  <2>1. CASE i <= Len(buf) + n
    BY <1>1, <1>2, <2>1 DEF At, StreamLen
  <2>2. CASE ~(i <= Len(buf) + n)
    <3>1. i - (Len(buf) + n) \in 1..(Len(wire) - n) /\ n + (i - (Len(buf) + n)) = i - Len(buf)
      BY <1>2, <2>2 DEF StreamLen
    <3>2. wire'[i - (Len(buf) + n)] = wire[i - Len(buf)]
      BY <1>1, <3>1
    <3> QED
      BY <1>1, <1>2, <2>2, <3>2 DEF At
  <2> QED
    BY <2>1, <2>2
<1> QED
  BY <1>1, <1>2, <1>3 DEF StreamLen

\* What is sent is put behind it.
LEMMA StreamSent ==
  ASSUME TypeInv, NEW more \in Seq(Pieces), wire' = wire \o more, buf' = buf
  PROVE  /\ StreamLen' = StreamLen + Len(more)
         /\ \A i \in 1..StreamLen : At(i)' = At(i)
         /\ \A i \in (StreamLen + 1)..(StreamLen + Len(more)) : At(i)' = more[i - StreamLen]
<1>1. /\ Len(buf) \in Nat /\ Len(wire) \in Nat /\ Len(more) \in Nat
      /\ Len(wire') = Len(wire) + Len(more)
      /\ \A i \in 1..Len(wire) : wire'[i] = wire[i]
      /\ \A i \in 1..Len(more) : wire'[Len(wire) + i] = more[i]
  BY DEF TypeInv
<1>2. ASSUME NEW i \in 1..StreamLen PROVE At(i)' = At(i)
  BY <1>1 DEF At, StreamLen
<1>3. ASSUME NEW i \in (StreamLen + 1)..(StreamLen + Len(more)) PROVE At(i)' = more[i - StreamLen]
  <2>1. /\ ~(i <= Len(buf)) /\ i - StreamLen \in 1..Len(more)
        /\ i - Len(buf) = Len(wire) + (i - StreamLen)
    BY <1>1 DEF StreamLen
  <2>2. At(i)' = wire'[i - Len(buf)]
    BY <2>1 DEF At
  <2> QED
    BY <1>1, <2>1, <2>2
<1> QED
  BY <1>1, <1>2, <1>3 DEF StreamLen

LEMMA StreamStep == TypeInv /\ StreamInv /\ [Next]_vars => StreamInv'
<1> SUFFICES ASSUME TypeInv, StreamInv, [Next]_vars PROVE StreamInv'
  OBVIOUS
<1>0. StreamLen \in Nat /\ Len(buf) \in Nat /\ Len(wire) \in Nat
  BY DEF TypeInv, StreamLen
<1>1. ASSUME UNCHANGED sent, StreamLen' = StreamLen, \A i \in 1..StreamLen : At(i)' = At(i)
      PROVE  StreamInv'
  <2>1. Nothing => Nothing'
    BY <1>1 DEF Nothing
  <2>2. Endless => Endless'
    BY <1>1 DEF Endless
  <2>3. Framed => Framed'
    <3>1. Framed => 1..Size \subseteq 1..StreamLen
      BY <1>0, PiecesCounted DEF Framed
    <3> QED
      BY <1>1, <3>1 DEF Framed
  <2> QED
    BY <2>1, <2>2, <2>3 DEF StreamInv
<1>2. CASE \/ UNCHANGED vars \/ (\E t \in DOMAIN Requests : Start(t)) \/ Reach \/ ReceiveFails
           \/ PeerCloses
  <2>1. UNCHANGED <<sent, wire, buf>>
    BY <1>2 DEF vars, connection, Start, Reach, ReceiveFails, PeerCloses
  <2> QED
    BY <1>1, <2>1 DEF StreamLen, At
<1>3. CASE Connect \/ ConnectFails
  <2>1. sent' = <<>> /\ wire' = <<>> /\ buf' = <<>>
    BY <1>3 DEF Connect, ConnectFails, Fresh
  <2> QED
    BY <2>1 DEF StreamInv, Nothing, StreamLen
<1>4. ASSUME NEW n \in 1 .. Len(wire), Receive(n) PROVE StreamInv'
  BY <1>1, <1>4, StreamReceived DEF Receive
<1>5. ASSUME NEW message \in {"answer", "event"}, PeerSends(message) PROVE StreamInv'
  <2>1. /\ Len(sent) \in Nat /\ message \in Messages /\ buf' = buf
        /\ sent' = Append(sent, message) /\ sent # <<"endless">>
        /\ wire' = wire \o Frame(Len(sent) + 1, message)
    BY <1>5 DEF PeerSends, TypeInv, Messages
  <2>2. PICK frame \in Seq(Pieces) : /\ frame = Frame(Len(sent) + 1, message) /\ Len(frame) = Size
                                     /\ \A i \in 1..Size : frame[i] = Piece(<<Len(sent) + 1, message>>, i)
    BY <2>1, FrameHas
  <2>3. /\ StreamLen' = StreamLen + Size
        /\ \A i \in 1..StreamLen : At(i)' = At(i)
        /\ \A i \in (StreamLen + 1)..(StreamLen + Size) : At(i)' = frame[i - StreamLen]
    BY <2>1, <2>2, StreamSent
  <2>4. Size \in Nat
    BY PiecesCounted
  <2>5. CASE Nothing
    <3>1. sent' # <<>> /\ sent'[1] = message /\ message # "endless" /\ Len(sent) + 1 = 1
      BY <2>1, <2>5 DEF Nothing
    <3>2. \A i \in 1..Size : At(i)' = Piece(<<1, message>>, i)
      BY <2>2, <2>3, <2>4, <2>5, <3>1 DEF Nothing
    <3>3. StreamLen' >= Size
      BY <2>3, <2>4, <2>5 DEF Nothing
    <3>4. Framed'
      BY <3>1, <3>2, <3>3 DEF Framed
    <3> QED
      BY <3>4 DEF StreamInv
  <2>6. CASE Framed
    <3>1. sent' # <<>> /\ sent'[1] = sent[1]
      <4>1. sent \in Seq(Messages) /\ message \in Messages /\ sent # <<>>
        BY <2>1, <2>6 DEF Framed, TypeInv
      <4>2. Append(sent, message) # <<>> /\ Append(sent, message)[1] = sent[1]
        BY <4>1
      <4> QED
        BY <2>1, <4>2
    <3>2. StreamLen >= Size /\ StreamLen' >= Size
      BY <1>0, <2>3, <2>4, <2>6 DEF Framed
    <3>3. 1..Size \subseteq 1..StreamLen
      BY <1>0, <2>4, <3>2
    <3>4. Framed'
      BY <2>3, <2>6, <3>1, <3>2, <3>3 DEF Framed
    <3> QED
      BY <3>4 DEF StreamInv
  <2> QED
    BY <2>1, <2>5, <2>6 DEF StreamInv, Endless
<1>6. CASE PeerDrips
  <2>1. PICK piece \in Pieces : piece = Piece(<<1, "endless">>, 1) /\ piece.number = 1
    <3>1. Piece(<<1, "endless">>, 1) \in Pieces /\ Piece(<<1, "endless">>, 1).number = 1
      BY DEF Piece, Pieces, Messages
    <3> QED
      BY <3>1, Zenon
  <2>2. PICK more \in Seq(Pieces) : more = <<piece, piece>> /\ Len(more) = 2
                                    /\ more[1] = piece /\ more[2] = piece
    <3>1. /\ <<piece, piece>> \in Seq(Pieces) /\ Len(<<piece, piece>>) = 2
          /\ <<piece, piece>>[1] = piece /\ <<piece, piece>>[2] = piece
      OBVIOUS
    <3> QED
      BY <3>1, Zenon
  <2>3. /\ buf' = buf /\ wire' = wire \o more /\ sent' = <<"endless">>
        /\ sent \in {<<>>, <<"endless">>}
    BY <1>6, <2>1, <2>2 DEF PeerDrips
  <2>4. /\ StreamLen' = StreamLen + 2
        /\ \A i \in 1..StreamLen : At(i)' = At(i)
        /\ \A i \in (StreamLen + 1)..(StreamLen + 2) : At(i)' = more[i - StreamLen]
    BY <2>2, <2>3, StreamSent
  <2>5. \A i \in 1..StreamLen : At(i).number = 1
    BY <2>3 DEF StreamInv, Nothing, Endless, Framed
  <2>6. ASSUME NEW i \in 1..(StreamLen + 2) PROVE At(i)'.number = 1
    <3>1. CASE i \in 1..StreamLen
      BY <2>4, <2>5, <3>1
    <3>2. CASE i \in (StreamLen + 1)..(StreamLen + 2)
      <4>1. i - StreamLen \in 1..2
        BY <1>0, <3>2
      <4> QED
        BY <2>1, <2>2, <2>4, <3>2, <4>1
    <3> QED
      BY <1>0, <3>1, <3>2
  <2>7. Endless'
    BY <2>3, <2>4, <2>6 DEF Endless
  <2> QED
    BY <2>7 DEF StreamInv
<1> QED
  BY <1>2, <1>3, <1>4, <1>5, <1>6 DEF Next, Client, Peer

LEMMA StreamInvariant == Spec => []StreamInv
<1>1. Init => StreamInv
  BY DEF Init, StreamInv, Nothing, StreamLen
<1> QED
  BY <1>1, StreamStep, TypeInvariant, PTL DEF Spec

----------------------------------------------------------------------------
(* The call                                                                *)

\* A call that still reads has not got its message; it knows when the header is
\* there.
CallInv ==
    /\ pc \in {"headers", "body"} => response = <<>> /\ ~(HasHeader(buf) /\ HasBody(buf))
    /\ pc = "body" => HasHeader(buf)
    /\ FirstMessageWhole

\* A header that is there belongs to the connection's first message.
HeaderOfFirst ==
    HasHeader(buf) => /\ sent # <<>>
                      /\ \A i \in 1..Size : i <= Len(buf) => buf[i] = Piece(<<1, sent[1]>>, i)

LEMMA HeaderIsFirst == TypeInv /\ StreamInv => HeaderOfFirst
<1> SUFFICES ASSUME TypeInv, StreamInv, HasHeader(buf)
             PROVE  /\ sent # <<>>
                    /\ \A i \in 1..Size : i <= Len(buf) => buf[i] = Piece(<<1, sent[1]>>, i)
  BY DEF HeaderOfFirst
<1>1. /\ Len(buf) \in Nat /\ Len(wire) \in Nat /\ Len(buf) >= HeaderPieces
      /\ buf[HeaderPieces].number = HeaderPieces
  BY DEF HasHeader, TypeInv
<1>2. HeaderPieces \in 1..StreamLen /\ At(HeaderPieces) = buf[HeaderPieces]
  BY <1>1, PiecesCounted DEF StreamLen, At
<1>3. ~Nothing /\ ~Endless
  BY <1>1, <1>2, PiecesCounted DEF Nothing, Endless
<1>4. Framed
  BY <1>3 DEF StreamInv
<1> QED
  BY <1>1, <1>4 DEF Framed, At

LEMMA HeaderStaysFirst == TypeInv' /\ StreamInv' => HeaderOfFirst'
  BY HeaderIsFirst, PTL

\* What is parsed of a whole first message is its body.
LEMMA BodyIsFirst ==
  ASSUME NEW b \in Seq(Pieces), NEW m \in Messages, HasBody(b),
         \A i \in 1..Size : i <= Len(b) => b[i] = Piece(<<1, m>>, i)
  PROVE  BodyOf(b) = Body(1, m) /\ ValidJson(BodyOf(b))
<1>1. PICK f \in Seq(Pieces) : /\ f = Frame(1, m) /\ Len(f) = Size
                               /\ \A i \in 1..Size : f[i] = Piece(<<1, m>>, i)
  <2>1. 1 \in Nat
    OBVIOUS
  <2> QED
    BY <2>1, FrameHas, Zenon
<1>2. PICK h \in Nat, z \in Nat : h = HeaderPieces /\ z = Size /\ z > h /\ z - h = BodyPieces
  BY PiecesCounted
<1>3. Len(b) \in Nat /\ Len(b) >= z
  BY <1>2, PiecesCounted DEF HasBody
<1>4. ASSUME NEW i \in 1..z PROVE f[i] = b[i]
  <2>1. i \in 1..Size /\ i <= Len(b)
    BY <1>2, <1>3
  <2> QED
    BY <1>1, <2>1
<1>5. BodyOf(b) = SubSeq(b, h + 1, z) /\ Body(1, m) = SubSeq(f, h + 1, z)
  <2>1. ~(HeaderPieces + BodyPieces > Len(b)) /\ HeaderPieces + BodyPieces = z
    BY <1>2, <1>3, PiecesCounted
  <2> QED
    BY <1>1, <1>2, <2>1 DEF BodyOf, Substr, Body
<1>6. PICK p \in Seq(Pieces), q \in Seq(Pieces) :
         /\ p = SubSeq(b, h + 1, z) /\ q = SubSeq(f, h + 1, z)
         /\ Len(p) = z - h /\ Len(q) = z - h
         /\ \A i \in 1..(z - h) : p[i] = b[h + i] /\ q[i] = f[h + i]
  <2>1. /\ SubSeq(b, h + 1, z) \in Seq(Pieces) /\ Len(SubSeq(b, h + 1, z)) = z - h
        /\ \A i \in 1..(z - h) : SubSeq(b, h + 1, z)[i] = b[h + i]
    BY <1>2, <1>3
  <2>2. /\ SubSeq(f, h + 1, z) \in Seq(Pieces) /\ Len(SubSeq(f, h + 1, z)) = z - h
        /\ \A i \in 1..(z - h) : SubSeq(f, h + 1, z)[i] = f[h + i]
    BY <1>1, <1>2
  <2> QED
    BY <2>1, <2>2, Zenon
<1>7. \A i \in 1..(z - h) : h + i \in 1..z
  BY <1>2
<1>8. p = q
  BY <1>4, <1>6, <1>7
<1> QED
  BY <1>2, <1>5, <1>6, <1>8 DEF ValidJson

\* A part of a body is no JSON.
LEMMA PartIsInvalid ==
  ASSUME NEW b \in Seq(Pieces), Len(b) >= HeaderPieces, ~HasBody(b)
  PROVE  ~ValidJson(BodyOf(b))
<1>1. Len(b) \in Nat /\ ~(Len(b) >= HeaderPieces + BodyPieces)
  BY DEF HasBody
<1>2. BodyOf(b) = SubSeq(b, HeaderPieces + 1, Len(b))
  BY <1>1, PiecesCounted DEF BodyOf, Substr
<1>3. PICK h \in Nat, n \in Nat : h = HeaderPieces /\ n = Len(b) /\ n >= h /\ n - h # BodyPieces
  <2>1. HeaderPieces \in Nat /\ BodyPieces \in Nat
    BY PiecesCounted
  <2>2. Len(b) - HeaderPieces # BodyPieces
    BY <1>1, <2>1
  <2> QED
    BY <1>1, <2>1, <2>2
<1>4. Len(SubSeq(b, h + 1, n)) = n - h
  BY <1>1, <1>3
<1> QED
  BY <1>2, <1>3, <1>4 DEF ValidJson

LEMMA CallEnds ==
  ASSUME NEW ok, CallReturned(ok)
  PROVE  pc' \in {"connect", "done"}
  BY DEF CallReturned, Done

\* A buffer shorter than a header has none.
LEMMA ShortHasNone ==
  ASSUME NEW pieces, Len(pieces) \in {0, 1}
  PROVE  ~HasHeader(pieces)
  BY PiecesCounted DEF HasHeader

LEMMA CallReceives ==
  ASSUME TypeInv, TypeInv', StreamInv', CallInv, NEW n \in 1 .. Len(wire), Receive(n)
  PROVE  CallInv'
<1>1. PICK received, reads :
         /\ received = buf \o SubSeq(wire, 1, n) /\ buf' = received /\ reads = safety + 1
         /\ pc \in {"headers", "body"} /\ UNCHANGED sent
         /\ \/ pc = "headers" /\ Len(received) = 1 /\ Fail
            \/ /\ pc = "headers" /\ Len(received) > 1 /\ ~HasHeader(received)
               /\ IF reads = MaxHeaderReads THEN Fail
                  ELSE UNCHANGED <<tool, pc, step, response, reply>>
            \/ /\ Len(received) > 1 /\ (pc = "body" \/ HasHeader(received))
               /\ IF HasBody(received) \/ reads = MaxReads THEN Parse(received)
                  ELSE pc' = "body" /\ UNCHANGED <<tool, step, response, reply>>
  BY DEF Receive
<1>2. HasHeader(buf)' = HasHeader(received) /\ HasBody(buf)' = HasBody(received)
  BY <1>1 DEF HasHeader, HasBody
<1>3. Fail => pc' \in {"connect", "done"} /\ response' = <<>>
  BY CallEnds DEF Fail
<1>4. response = <<>>
  BY <1>1 DEF CallInv
<1>5. ASSUME Fail, ~(HasHeader(received) /\ HasBody(received)) PROVE CallInv'
  BY <1>2, <1>3, <1>5 DEF CallInv, FirstMessageWhole
<1>6. CASE pc = "headers" /\ Len(received) = 1 /\ Fail
  BY <1>5, <1>6, ShortHasNone
<1>7. CASE pc = "headers" /\ ~HasHeader(received)
           /\ (Fail \/ UNCHANGED <<tool, pc, step, response, reply>>)
  BY <1>1, <1>2, <1>4, <1>5, <1>7 DEF CallInv, FirstMessageWhole
<1>8. CASE pc = "body" \/ HasHeader(received)
  <2>1. HasHeader(received)
    <3>1. ASSUME HasHeader(buf) PROVE HasHeader(received)
      <4>1. /\ Len(buf) \in Nat /\ Len(buf) >= HeaderPieces /\ Len(received) = Len(buf) + n
            /\ received[HeaderPieces] = buf[HeaderPieces]
        BY <1>1, <3>1, Received, PiecesCounted DEF HasHeader, TypeInv, Shifted
      <4> QED
        BY <3>1, <4>1, PiecesCounted DEF HasHeader
    <3> QED
      BY <1>8, <3>1 DEF CallInv
  <2>2. HasHeader(buf)' /\ Len(buf') >= HeaderPieces
    BY <1>1, <1>2, <2>1 DEF HasHeader
  <2>3. CASE HasBody(received) /\ Parse(received)
    <3>1. received \in Seq(Pieces) /\ sent[1] \in Messages
          /\ \A i \in 1..Size : i <= Len(received) => received[i] = Piece(<<1, sent[1]>>, i)
      <4>1. HeaderOfFirst' /\ buf' = received /\ sent' = sent
        BY <1>1, HeaderStaysFirst
      <4>2. /\ sent # <<>>
            /\ \A i \in 1..Size : i <= Len(received) => received[i] = Piece(<<1, sent[1]>>, i)
        BY <2>2, <4>1 DEF HeaderOfFirst
      <4>3. received \in Seq(Pieces) /\ sent \in Seq(Messages)
        BY <4>1 DEF TypeInv
      <4>4. sent[1] \in Messages
        BY <4>2, <4>3
      <4> QED
        BY <4>2, <4>3, <4>4
    <3>2. BodyOf(received) = Body(1, sent[1]) /\ ValidJson(BodyOf(received))
      BY <2>3, <3>1, BodyIsFirst
    <3>3. pc' \in {"connect", "done"} /\ response' = BodyOf(received)
      BY <2>3, <3>2, CallEnds DEF Parse
    <3> QED
      <4>1. (Body(1, sent[1]))' = Body(1, sent[1])
        BY <1>1 DEF Body, Frame
      <4> QED
        BY <1>2, <2>1, <2>3, <3>2, <3>3, <4>1 DEF CallInv, FirstMessageWhole
  <2>4. CASE ~HasBody(received) /\ Parse(received)
    <3>1. received \in Seq(Pieces) /\ Len(received) >= HeaderPieces
      BY <1>1, <2>2 DEF TypeInv
    <3>2. ~ValidJson(BodyOf(received))
      BY <2>4, <3>1, PartIsInvalid
    <3>3. Fail
      BY <2>4, <3>2 DEF Parse
    <3> QED
      BY <1>5, <2>4, <3>3
  <2>5. CASE ~HasBody(received) /\ pc' = "body" /\ UNCHANGED response
    BY <1>2, <1>4, <2>1, <2>5 DEF CallInv, FirstMessageWhole
  <2>6. ~HasHeader(received) => FALSE
    BY <2>1
  <2> QED
    BY <1>1, <1>6, <2>1, <2>3, <2>4, <2>5
<1> QED
  BY <1>1, <1>6, <1>7, <1>8

LEMMA CallStep == TypeInv /\ TypeInv' /\ StreamInv' /\ CallInv /\ [Next]_vars => CallInv'
<1> SUFFICES ASSUME TypeInv, TypeInv', StreamInv', CallInv, [Next]_vars PROVE CallInv'
  OBVIOUS
<1>1. CASE Open /\ UNCHANGED <<pc, buf, response>>
  <2>1. HasHeader(buf)' = HasHeader(buf) /\ HasBody(buf)' = HasBody(buf)
    BY <1>1 DEF HasHeader, HasBody
  <2> QED
    BY <1>1, <2>1 DEF Open, CallInv, FirstMessageWhole
<1>2. CASE UNCHANGED <<sent, buf, response>> /\ pc \notin {"headers", "body"}
           /\ pc' \notin {"headers", "body"}
  <2>1. HasHeader(buf)' = HasHeader(buf) /\ HasBody(buf)' = HasBody(buf)
    BY <1>2 DEF HasHeader, HasBody
  <2>2. Body(1, sent[1])' = Body(1, sent[1])
    BY <1>2 DEF Body, Frame
  <2> QED
    BY <1>2, <2>1, <2>2 DEF CallInv, FirstMessageWhole
<1>3. CASE UNCHANGED vars
  <2>1. HasHeader(buf)' = HasHeader(buf) /\ HasBody(buf)' = HasBody(buf)
    BY <1>3 DEF HasHeader, HasBody, vars, connection
  <2>2. Body(1, sent[1])' = Body(1, sent[1])
    BY <1>3 DEF Body, Frame, vars, connection
  <2> QED
    BY <1>3, <2>1, <2>2 DEF vars, connection, CallInv, FirstMessageWhole
<1>4. CASE (\E t \in DOMAIN Requests : Start(t)) \/ Reach
  BY <1>2, <1>4 DEF Start, Reach, Done, connection
<1>5. CASE Connect \/ ConnectFails
  <2>1. /\ buf' = <<>> /\ response' = <<>> /\ pc' \in {"headers", "connect", "done"}
    BY <1>5, CallEnds DEF Connect, ConnectFails, Fresh, Fail
  <2>2. ~HasHeader(buf)'
    BY <2>1, ShortHasNone
  <2> QED
    BY <2>1, <2>2 DEF CallInv, FirstMessageWhole
<1>6. CASE ReceiveFails
  <2>1. /\ pc \in {"headers", "body"} /\ UNCHANGED buf
        /\ response' = <<>> /\ pc' \in {"connect", "done"}
    BY <1>6, CallEnds DEF ReceiveFails, Fail, connection
  <2>2. HasHeader(buf)' = HasHeader(buf) /\ HasBody(buf)' = HasBody(buf)
    BY <2>1 DEF HasHeader, HasBody
  <2> QED
    BY <2>1, <2>2 DEF CallInv, FirstMessageWhole
<1>7. CASE Peer
  BY <1>1, <1>7 DEF Peer, PeerSends, PeerDrips, PeerCloses
<1> QED
  BY <1>3, <1>4, <1>5, <1>6, <1>7, CallReceives DEF Next, Client

\* A call that has received the connection's first message whole takes exactly
\* it for the response, however it was cut up and whatever came behind it in the
\* same read, and a call that has not takes nothing.
THEOREM FirstMessageIsWhole == Spec => []FirstMessageWhole
<1>1. Init => CallInv
  <2>1. Init => ~HasHeader(buf)
    BY ShortHasNone DEF Init
  <2> QED
    BY <2>1 DEF Init, CallInv, FirstMessageWhole
<1>2. CallInv => FirstMessageWhole
  BY DEF CallInv
<1> QED
  BY <1>1, <1>2, CallStep, StreamInvariant, TypeInvariant, PTL DEF Spec
=============================================================================
