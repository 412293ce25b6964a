------------------------------- MODULE Framing -------------------------------
(***************************************************************************)
(* The byte stream between the desktop client (TcpMgr) and the chat server *)
(* (CSession, MsgNode): a frame is the id and the length of a message, two *)
(* bytes each, high byte first, and its body.  TCP keeps the order of the  *)
(* bytes but not the boundaries, so each end reads whatever has arrived.   *)
(*                                                                         *)
(* The server reads the head and the body into a fixed buffer of           *)
(* MAX_LENGTH bytes and closes the connection if a field exceeds that; its *)
(* lengths are shorts.  The client collects what it reads in _buffer, with *)
(* unsigned lengths, and cuts frames out of it in a loop.                  *)
(*                                                                         *)
(* Writes are whole frames in order (CSession refines OrderedChannel).  A  *)
(* byte is a digit of base Base, so that small fields still overflow.      *)
(***************************************************************************)
EXTENDS Integers, Sequences

CONSTANTS
  Base,        \* values of a byte, 256
  MAX_LENGTH,  \* bound on both fields at the server, 2048
  Requests,    \* messages [id, body] that the client sends
  Replies,     \* messages [id, body, deferred] that the server sends
  MaxSends,    \* bound: messages sent, by both
  MaxConns     \* bound: connections, one after the other

HEAD_TOTAL_LEN == 4
Byte == 0 .. Base - 1
Width == Base * Base   \* values of a field

\* Conversion to short.
Short(n) == LET m == n % Width IN IF m >= Width \div 2 THEN m - Width ELSE m

\* The client sends no more than a short holds.  A reply whose length leaves a
\* node too small for its own head is left out.
ASSUME FramingAssumption ==
  /\ Base \in Nat /\ Base >= HEAD_TOTAL_LEN /\ Base % 2 = 0
  /\ MAX_LENGTH \in 0 .. Width \div 2 - 1 /\ MaxSends \in Nat /\ MaxConns \in Nat
  /\ Requests \subseteq [id: 0 .. Width \div 2 - 1, body: Seq(Byte)]
  /\ Replies \subseteq [id: 0 .. Width \div 2 - 1, body: Seq(Byte), deferred: BOOLEAN]
  /\ \A m \in Requests : Len(m.body) < Width \div 2
  /\ \A m \in Replies : Short(Len(m.body)) \notin -HEAD_TOTAL_LEN - 1 .. -1

VARIABLES
  up,       \* bytes from the client to the server
  down,     \* bytes from the server to the client
  session,  \* the server's CSession: open, what it reads and what it has of it
  tcp,      \* the client's TcpMgr: connected, _buffer, _b_recv_pending, _message_id,
            \* _message_len, and whether its loop is running
  sends,    \* number of messages sent so far
  conns,    \* number of connections so far
  asked, posted,    \* history of this connection: sent by the client, posted to LogicSystem
  replied, handled, \* history of this connection: sent by the server, given to handleMsg
  stale     \* history: this connection began with the rest of an earlier one in _buffer

streams == <<up, down>>
history == <<asked, posted, replied, handled>>
framingVars == <<streams, session, tcp, sends, conns, history, stale>>

Messages == [id: 0 .. Width - 1, body: Seq(Byte)]
Start == [open |-> TRUE, at |-> "head", got |-> <<>>, id |-> 0, len |-> HEAD_TOTAL_LEN]

FramingTypeOK ==
  /\ up \in Seq(Byte) /\ down \in Seq(Byte)
  /\ session \in [open: BOOLEAN, at: {"head", "body"}, got: Seq(Byte),
                  id: 0 .. MAX_LENGTH, len: 0 .. Width \div 2 - 1]
  /\ tcp \in [connected: BOOLEAN, buffer: Seq(Byte), pending: BOOLEAN, id: 0 .. Width - 1,
              len: 0 .. Width - 1, loop: BOOLEAN]
  /\ sends \in 0 .. MaxSends /\ conns \in 0 .. MaxConns /\ stale \in BOOLEAN
  /\ \A h \in {asked, posted, replied, handled} : h \in Seq(Messages)
  \* the fixed buffer holds what is read
  /\ session.at = "body" => session.len <= MAX_LENGTH
  /\ Len(session.got) <= session.len
  \* the loop leaves no whole frame behind
  /\ ~tcp.loop => Len(tcp.buffer) < IF tcp.pending THEN tcp.len ELSE HEAD_TOTAL_LEN

FramingInit ==
  /\ up = <<>> /\ down = <<>>
  /\ session = [Start EXCEPT !.open = FALSE]
  /\ tcp = [connected |-> FALSE, buffer |-> <<>>, pending |-> FALSE, id |-> 0, len |-> 0,
            loop |-> FALSE]
  /\ sends = 0 /\ conns = 0
  /\ asked = <<>> /\ posted = <<>> /\ replied = <<>> /\ handled = <<>>
  /\ stale = FALSE

-----------------------------------------------------------------------------
(***************************************************************************)
(* Fields and frames.                                                      *)
(***************************************************************************)
Field(n) == <<(n % Width) \div Base, n % Base>>
FieldAt(s, i) == s[i] * Base + s[i + 1]
Take(s, n) == SubSeq(s, 1, n)
Rest(s, n) == SubSeq(s, n + 1, Len(s))

\* The frame of slot_send_data.
ClientFrame(m) == Field(m.id) \o Field(Len(m.body)) \o m.body

\* SendNode: new throws if the length and the head exceed a short; a length
\* beyond Width is cut.
NodeThrows(m) == Short(Short(Len(m.body)) + HEAD_TOTAL_LEN) + 1 < 0

\* A mistake: the length in the header is that of the whole frame.
WholeFrame(m) ==
  LET len == Short(Len(m.body)) IN
  Field(m.id) \o Field(len + HEAD_TOTAL_LEN) \o Take(m.body, len)

SendNode(m) ==
  LET len == Short(Len(m.body)) IN Field(m.id) \o Field(len) \o Take(m.body, len)

Plain(m) == [id |-> m.id, body |-> m.body]

-----------------------------------------------------------------------------
(***************************************************************************)
(* The connection.                                                         *)
(***************************************************************************)

\* slot_tcp_connect after a login; the server makes a new CSession, the client
\* goes on with its _buffer and _b_recv_pending.
Connect ==
  /\ ~tcp.connected /\ ~tcp.loop /\ conns < MaxConns
  /\ conns' = conns + 1
  /\ tcp' = [tcp EXCEPT !.connected = TRUE]
  /\ session' = Start
  /\ stale' = (tcp.pending \/ tcp.buffer # <<>>)
  /\ asked' = <<>> /\ posted' = <<>> /\ replied' = <<>> /\ handled' = <<>>
  /\ UNCHANGED <<streams, sends>>

\* Either end closes or the network fails; what was under way is lost.
Disconnect ==
  /\ tcp.connected
  /\ tcp' = [tcp EXCEPT !.connected = FALSE]
  /\ session' = [session EXCEPT !.open = FALSE]
  /\ up' = <<>> /\ down' = <<>>
  /\ UNCHANGED <<sends, conns, history, stale>>

-----------------------------------------------------------------------------
(***************************************************************************)
(* Requests.                                                               *)
(***************************************************************************)
ClientSend(m) ==
  /\ tcp.connected /\ ~tcp.loop /\ sends < MaxSends
  /\ sends' = sends + 1
  /\ up' = up \o ClientFrame(m)
  /\ asked' = Append(asked, m)
  /\ UNCHANGED <<down, session, tcp, conns, posted, replied, handled, stale>>

\* A mistake: as many bytes as the buffer has room for.
ReadBeyond(k) ==
  /\ session.open
  /\ k <= Len(up) /\ k <= HEAD_TOTAL_LEN + MAX_LENGTH - Len(session.got)
  /\ k = 0 => session.len = 0
  /\ up' = Rest(up, k)

\* asyncReadLen: some of the bytes that are missing; none if none are.
ReadSome(k) ==
  /\ session.open
  /\ k <= Len(up) /\ k <= session.len - Len(session.got)
  /\ k = 0 => session.len = 0
  /\ up' = Rest(up, k)

Have(k) == session.got \o Take(up, k)

\* Not enough: asyncReadLen again.
ReadMore(k) ==
  /\ ReadSome(k) /\ Len(Have(k)) < session.len
  /\ session' = [session EXCEPT !.got = Have(k)]
  /\ UNCHANGED <<down, tcp, sends, conns, history, stale>>

\* A mistake: the length is not looked at.
HeadReadUnchecked(k) ==
  LET id == Short(FieldAt(Have(k), 1))
      len == Short(FieldAt(Have(k), 3))
  IN
  /\ session.at = "head"
  /\ ReadSome(k) /\ Len(Have(k)) >= session.len
  /\ session' = IF id > MAX_LENGTH THEN [session EXCEPT !.open = FALSE]
                ELSE [session EXCEPT !.at = "body", !.got = <<>>, !.id = id, !.len = len]
  /\ UNCHANGED <<down, tcp, sends, conns, history, stale>>

\* The head is complete: the connection is closed, or the body awaited.
HeadRead(k) ==
  LET id == Short(FieldAt(Have(k), 1))
      len == Short(FieldAt(Have(k), 3))
  IN
  /\ session.at = "head"
  /\ ReadSome(k) /\ Len(Have(k)) >= session.len
  /\ session' = IF id > MAX_LENGTH \/ len > MAX_LENGTH THEN [session EXCEPT !.open = FALSE]
                ELSE [session EXCEPT !.at = "body", !.got = <<>>, !.id = id, !.len = len]
  /\ UNCHANGED <<down, tcp, sends, conns, history, stale>>

\* asyncReadBody: the message is posted and the next head awaited.
BodyRead(k) ==
  /\ session.at = "body"
  /\ ReadSome(k) /\ Len(Have(k)) >= session.len
  /\ posted' = Append(posted, [id |-> session.id, body |-> Have(k)])
  /\ session' = Start
  /\ UNCHANGED <<down, tcp, sends, conns, asked, replied, handled, stale>>

ServerReads == \E k \in 0 .. Len(up) : ReadMore(k) \/ HeadRead(k) \/ BodyRead(k)

-----------------------------------------------------------------------------
(***************************************************************************)
(* Replies.                                                                *)
(***************************************************************************)

\* CSession::send.
ServerSend(m) ==
  /\ session.open /\ sends < MaxSends /\ ~NodeThrows(m)
  /\ sends' = sends + 1
  /\ down' = down \o SendNode(m)
  /\ replied' = Append(replied, Plain(m))
  /\ UNCHANGED <<up, session, tcp, conns, asked, posted, handled, stale>>

\* Nothing is sent.  Thrown by a Defer's destructor, the exception ends the
\* process and with it the connection; else the thread pool drops it.
ServerSendThrows(m) ==
  /\ session.open /\ sends < MaxSends /\ NodeThrows(m)
  /\ sends' = sends + 1
  /\ session' = [session EXCEPT !.open = ~m.deferred]
  /\ UNCHANGED <<streams, tcp, conns, history, stale>>

\* readyRead: readAll gives what has arrived.
ReadyRead(k) ==
  /\ tcp.connected /\ ~tcp.loop
  /\ tcp' = [tcp EXCEPT !.buffer = @ \o Take(down, k), !.loop = TRUE]
  /\ down' = Rest(down, k)
  /\ UNCHANGED <<up, session, sends, conns, history, stale>>

\* One turn of the loop, after which it goes on if a frame was whole.
Turn(goesOn) ==
  LET head == IF tcp.pending THEN [id |-> tcp.id, len |-> tcp.len, rest |-> tcp.buffer]
              ELSE [id |-> FieldAt(tcp.buffer, 1), len |-> FieldAt(tcp.buffer, 3),
                    rest |-> Rest(tcp.buffer, HEAD_TOTAL_LEN)]
      short == ~tcp.pending /\ Len(tcp.buffer) < HEAD_TOTAL_LEN
      whole == ~short /\ Len(head.rest) >= head.len
  IN
  /\ tcp.loop
  /\ tcp' = [tcp EXCEPT !.loop = whole /\ goesOn, !.pending = ~short /\ ~whole,
               !.id = IF short THEN @ ELSE head.id, !.len = IF short THEN @ ELSE head.len,
               !.buffer = IF short THEN @ ELSE IF whole THEN Rest(head.rest, head.len) ELSE head.rest]
  /\ handled' = IF whole THEN Append(handled, [id |-> head.id, body |-> Take(head.rest, head.len)])
                ELSE handled
  /\ UNCHANGED <<streams, session, sends, conns, asked, posted, replied, stale>>

\* A mistake: one frame is taken out of what has arrived, not all of them.
ParseOnce == Turn(FALSE)

Parse == Turn(TRUE)

ClientReads == Parse \/ \E k \in 1 .. Len(down) : ReadyRead(k)

-----------------------------------------------------------------------------
FramingNext ==
  \/ Connect \/ Disconnect
  \/ \E m \in Requests : ClientSend(m)
  \/ \E m \in Replies : ServerSend(m) \/ ServerSendThrows(m)
  \/ ServerReads \/ ClientReads

\* Bytes that have arrived are read.
FramingSpec == FramingInit /\ [][FramingNext]_framingVars /\ WF_framingVars(ServerReads) /\ WF_framingVars(ClientReads)

-----------------------------------------------------------------------------
IsPrefixOf(s, t) == Len(s) <= Len(t) /\ s = Take(t, Len(s))

\* Wherever TCP cuts the stream, and whatever the bodies look like, the server
\* posts exactly the messages of this connection, in order.
ServerReceives == IsPrefixOf(posted, asked)

\* The client hands over exactly the replies of this connection, in order; of a
\* reply longer than the field can tell, a part.  Excepted is a connection
\* that begins in the middle of a frame of the one before it.
ClientReceives ==
  ~stale =>
    /\ Len(handled) <= Len(replied)
    /\ \A i \in 1 .. Len(handled) :
         /\ handled[i].id = replied[i].id
         /\ IsPrefixOf(handled[i].body, replied[i].body)
         /\ Len(replied[i].body) < Width => handled[i] = replied[i]

\* While the connection lasts everything sent arrives: neither end waits for
\* bytes that it already has.
FramesArrive ==
  /\ session.open /\ posted # asked ~> ~session.open \/ posted = asked
  /\ tcp.connected /\ ~stale /\ Len(handled) < Len(replied)
       ~> ~tcp.connected \/ Len(handled) = Len(replied)
=============================================================================
