---------------------------- MODULE TcpTransport ----------------------------
(***************************************************************************)
(* TcpTransport: messages over a byte stream, each behind its length.      *)
(*                                                                         *)
(* One process sends (several publishers share its socket, and nothing     *)
(* keeps them apart), the inbound loop of another receives, both with      *)
(* TcpTransport; the other direction is the same.  A byte is <<s, k>>, the *)
(* k-th byte of the frame of send s.  The socket is blocking, so send()    *)
(* waits for room without any deadline: only the select() before it has    *)
(* one, and each wait of a call gets the whole timeout.  A descriptor is a *)
(* number: after close() and socket() it names the new connection.  Two    *)
(* things end a process: SIGPIPE, which send() raises on a connection that *)
(* the peer has closed and nobody handles, and an allocation that fails in *)
(* a noexcept function.  The locals of its threads stay as they were then. *)
(* The Windows half of the file does the same steps, without the signal.   *)
(***************************************************************************)
EXTENDS Integers, FiniteSets, SequencesExt

CONSTANTS
  Publishers,
  Header,      \* sizeof(net_len)
  Lengths,     \* sizes of messages
  Huge,        \* a number that no message has as its length
  Capacity,    \* bytes the connection holds between the two ends
  MaxSends, MaxConnections, MaxSignals   \* bounds

ASSUME TcpAssumption ==
  /\ {Header, Capacity} \subseteq Nat \ {0} /\ Lengths \subseteq Nat
  /\ Huge \in Nat \ Lengths

VARIABLES
  sock,       \* the sender's socket_fd_: a connection, or 0 for -1
  peer,       \* the receiver's socket_fd_
  owner,      \* whether the sender's Connect is waiting for the handshake, or
              \* its process has ended
  gone,       \* connections that the receiver has closed, the last one when
              \* its process has ended
  pipe,       \* bytes on their way, by connection
  pub,        \* locals of the publishers
  reader,     \* locals of ReceiveWithTimeout
  length,     \* message sizes, by send
  acked,      \* history: sends that returned kOk
  log,        \* history, by connection: the sends that began to write, the
              \* messages returned with kOk; or that a frame was not written
              \* or not read in one piece
  signals

ends == <<sock, peer, owner, gone>>
sending == <<pub, length, acked>>
vars == <<sock, peer, owner, gone, pipe, pub, reader, length, acked, log, signals>>

Idle == [pc |-> "idle"]
Cut == [sent |-> <<>>, received |-> <<>>, cut |-> TRUE]
Fresh == [sent |-> <<>>, received |-> <<>>, cut |-> FALSE]
Frame(s) == [k \in 1 .. Header + length[s] |-> <<s, k>>]
Body(s) == SubSeq(Frame(s), Header + 1, Header + length[s])
Room(c) == Capacity - Len(pipe[c])
SenderEnded == owner = "ended"
ReceiverEnded == peer \in gone
\* A call that is inside send() keeps its connection open.
Kept(c) ==
  /\ ~SenderEnded
  /\ c = sock \/ \E p \in Publishers : pub[p].pc = "send" /\ pub[p].conn = c
CutOff(connections) ==
  log' = [c \in DOMAIN log |-> IF c \in connections THEN Cut ELSE log[c]]

Init ==
  /\ sock = 0 /\ peer = 0 /\ owner = "idle" /\ gone = {}
  /\ pipe = <<>> /\ log = <<>> /\ length = <<>> /\ acked = {}
  /\ pub = [p \in Publishers |-> Idle]
  /\ reader = Idle
  /\ signals = 0

-----------------------------------------------------------------------------
(* Create and Close, by the thread that owns the sending transport.        *)

\* CloseSocket, and then the wait for the new connection.
ConnectBegin ==
  /\ owner = "idle" /\ Len(pipe) < MaxConnections
  /\ owner' = "connecting" /\ sock' = 0
  /\ UNCHANGED <<peer, gone, pipe, sending, reader, log, signals>>

\* Any step of it may fail, and then there is no socket.
ConnectEnd ==
  /\ owner = "connecting"
  /\ owner' = "idle"
  /\ \/ /\ pipe' = Append(pipe, <<>>) /\ log' = Append(log, Fresh)
        /\ sock' = Len(pipe) + 1
     \/ UNCHANGED <<sock, pipe, log>>
  /\ UNCHANGED <<peer, gone, sending, reader, signals>>

Close ==
  /\ owner = "idle" /\ sock # 0
  /\ sock' = 0
  /\ UNCHANGED <<peer, owner, gone, pipe, sending, reader, log, signals>>

-----------------------------------------------------------------------------
(* SendWithTimeout.                                                        *)

SendBegin(p, n) ==
  /\ pub[p] = Idle /\ sock # 0 /\ Len(length) < MaxSends
  /\ length' = Append(length, n)
  /\ pub' = [pub EXCEPT ![p] =
               [pc |-> "wait", send |-> Len(length) + 1, total |-> 0, conn |-> 0]]
  /\ UNCHANGED <<ends, pipe, reader, acked, log, signals>>

\* A call that gives up in the middle of its frame leaves the rest unwritten.
SendFails(p) ==
  /\ pub' = [pub EXCEPT ![p] = Idle]
  /\ CutOff(IF pub[p].total > 0 THEN {pub[p].conn} ELSE {})

Signal == signals < MaxSignals /\ signals' = signals + 1

\* WaitForSocket finds the socket writable.  The body goes to whatever
\* socket_fd_ names by then.
SendReady(p) ==
  /\ pub[p].pc = "wait" /\ sock # 0 /\ (Room(sock) > 0 \/ sock \in gone)
  /\ pub' = [pub EXCEPT ![p] =
               [pc |-> "send", send |-> @.send, total |-> @.total, conn |-> sock]]
  /\ CutOff(IF pub[p].total > 0 /\ pub[p].conn # sock
            THEN {pub[p].conn, sock} ELSE {})
  /\ UNCHANGED <<ends, pipe, reader, length, acked, signals>>

\* It finds no room before the deadline, a descriptor that is no longer open,
\* or a signal: an interrupted select() is an error, not another round.
SendGivesUp(p) ==
  /\ pub[p].pc = "wait"
  /\ \/ sock = 0 /\ UNCHANGED signals
     \/ sock # 0 /\ Room(sock) = 0 /\ sock \notin gone /\ UNCHANGED signals
     \/ Signal
  /\ SendFails(p)
  /\ UNCHANGED <<ends, pipe, reader, length, acked>>

\* A byte moves when there is room; send() returns when the part that SendAll
\* was called with, the length or the body, is all there.
SendPut(p) ==
  /\ pub[p].pc = "send" /\ pub[p].conn \notin gone /\ Room(pub[p].conn) > 0
  /\ LET c == pub[p].conn
         s == pub[p].send
         total == pub[p].total + 1
         alone == \A q \in Publishers \ {p} :
                    pub[q] = Idle \/ pub[q].total = 0 \/ pub[q].conn # c
     IN /\ pipe' = [pipe EXCEPT ![c] = Append(@, <<s, total>>)]
        /\ IF total > 1 \/ log[c].cut THEN UNCHANGED log
           ELSE IF alone THEN log' = [log EXCEPT ![c].sent = Append(@, s)]
           ELSE CutOff({c})
        /\ IF total = Header + length[s]
           THEN pub' = [pub EXCEPT ![p] = Idle] /\ acked' = acked \cup {s}
           ELSE /\ pub' = [pub EXCEPT ![p] =
                             [pc |-> IF total = Header THEN "wait" ELSE "send",
                              send |-> s, total |-> total, conn |-> c]]
                /\ UNCHANGED acked
  /\ UNCHANGED <<ends, reader, length, signals>>

\* A signal ends send() early: with what it has written, or with EINTR.
SendInterrupted(p) ==
  /\ pub[p].pc = "send" /\ Signal
  /\ pub' = [pub EXCEPT ![p].pc = "wait"]
  /\ UNCHANGED <<ends, pipe, reader, length, acked, log>>

\* The peer has closed and its reset has come, ECONNRESET: MapSocketError.
SendBroken(p) ==
  /\ pub[p].pc = "send" /\ pub[p].conn \in gone
  /\ SendFails(p)
  /\ UNCHANGED <<ends, pipe, reader, length, acked, signals>>

\* Or EPIPE: send() has no MSG_NOSIGNAL, and the default action of SIGPIPE
\* ends the process in the middle of all its calls.
SendKilled(p) ==
  /\ pub[p].pc = "send" /\ pub[p].conn \in gone
  /\ owner' = "ended" /\ sock' = 0
  /\ UNCHANGED <<peer, gone, pipe, sending, reader, log, signals>>

-----------------------------------------------------------------------------
(* The receiving end.                                                      *)

\* The receiver's own Connect: it closes what it had, with what is unread.
PeerConnect ==
  /\ reader = Idle /\ peer # Len(pipe)
  /\ peer' = Len(pipe)
  /\ gone' = gone \cup 1 .. Len(pipe) - 1
  /\ pipe' = [c \in DOMAIN pipe |-> IF c = Len(pipe) THEN pipe[c] ELSE <<>>]
  /\ UNCHANGED <<sock, owner, sending, reader, log, signals>>

RecvBegin ==
  /\ reader = Idle /\ peer # 0
  /\ reader' = [pc |-> "header", need |-> Header, got |-> <<>>]
  /\ UNCHANGED <<ends, pipe, sending, log, signals>>

LengthsUnconverted(bytes) ==
  LET s == bytes[1][1]
  IN IF bytes = SubSeq(Frame(s), 1, Header)
     THEN {IF length[s] = 0 THEN 0 ELSE Huge}
     ELSE Lengths \cup {Huge}
\* ntohl: a length only if these are the bytes of one; else any number.
LengthsIn(bytes) ==
  LET s == bytes[1][1]
  IN IF bytes = SubSeq(Frame(s), 1, Header) THEN {length[s]}
     ELSE Lengths \cup {Huge}

Deliver(message) ==
  /\ log' = IF log[peer].cut THEN log
            ELSE [log EXCEPT ![peer].received = Append(@, message)]
  /\ reader' = Idle

ReadShort(bytes) ==
  IF reader.pc = "header"
  THEN \E n \in LengthsIn(bytes) :
         IF n = 0 THEN Deliver(<<>>)
         ELSE /\ reader' = [pc |-> "body", need |-> n, got |-> <<>>]
              /\ UNCHANGED log
  ELSE Deliver(bytes)

ReadRefusesEmpty(bytes) ==
  IF Len(bytes) < reader.need
  THEN reader' = [reader EXCEPT !.got = bytes] /\ UNCHANGED log
  ELSE IF reader.pc = "header"
  THEN \E n \in LengthsIn(bytes) :
         /\ reader' = IF n = 0 THEN Idle
                      ELSE [pc |-> "body", need |-> n, got |-> <<>>]
         /\ UNCHANGED log
  ELSE Deliver(bytes)

\* What the call does with the bytes it has: RecvAll goes on until it has all.
Read(bytes) ==
  IF Len(bytes) < reader.need
  THEN reader' = [reader EXCEPT !.got = bytes] /\ UNCHANGED log
  ELSE IF reader.pc = "header"
  THEN \E n \in LengthsIn(bytes) :
         IF n = 0 THEN Deliver(<<>>)
         ELSE /\ reader' = [pc |-> "body", need |-> n, got |-> <<>>]
              /\ UNCHANGED log
  ELSE Deliver(bytes)

\* select() finds bytes; recv() returns some, one at a time in the model.
RecvSome ==
  /\ reader # Idle /\ pipe[peer] # <<>>
  /\ pipe' = [pipe EXCEPT ![peer] = Tail(@)]
  /\ Read(Append(reader.got, Head(pipe[peer])))
  /\ UNCHANGED <<ends, sending, signals>>

\* message->assign(len, '\0') of up to 4 GB finds no memory, inside noexcept.
RecvKilled ==
  /\ reader # Idle /\ pipe[peer] # <<>>
  /\ LET bytes == Append(reader.got, Head(pipe[peer]))
     IN reader.pc = "header" /\ Len(bytes) = Header /\ Huge \in LengthsIn(bytes)
  /\ gone' = gone \cup {peer}
  /\ pipe' = [pipe EXCEPT ![peer] = <<>>]
  /\ UNCHANGED <<sock, peer, owner, sending, reader, log, signals>>

\* A call that gives up in the middle of a frame has lost what it read.
RecvFails ==
  /\ reader' = Idle
  /\ CutOff(IF reader.pc = "body" \/ reader.got # <<>> THEN {peer} ELSE {})
  /\ UNCHANGED <<ends, pipe, sending>>

RecvTimeout ==
  /\ reader # Idle /\ pipe[peer] = <<>> /\ Kept(peer)
  /\ RecvFails /\ UNCHANGED signals

RecvClosedIgnored == FALSE /\ UNCHANGED vars
\* recv() returns 0.
RecvClosed ==
  /\ reader # Idle /\ pipe[peer] = <<>> /\ ~Kept(peer)
  /\ RecvFails /\ UNCHANGED signals

RecvInterrupted ==
  /\ reader # Idle /\ Signal
  /\ RecvFails

-----------------------------------------------------------------------------

SendStep(p) ==
  /\ ~SenderEnded
  /\ \/ SendReady(p) \/ SendGivesUp(p) \/ SendPut(p) \/ SendInterrupted(p)
     \/ SendBroken(p) \/ SendKilled(p)
RecvStep ==
  /\ ~ReceiverEnded
  /\ \/ RecvSome \/ RecvKilled \/ RecvTimeout \/ RecvClosed \/ RecvInterrupted

Next ==
  \/ ConnectBegin \/ ConnectEnd \/ Close
  \/ \E p \in Publishers : SendStep(p) \/ \E n \in Lengths : SendBegin(p, n)
  \/ PeerConnect \/ RecvBegin \/ RecvStep

\* Threads that can run do, and the inbound loop of the receiver calls again
\* whatever the last call returned.  Nobody has to connect or to close.
Fairness ==
  /\ \A p \in Publishers : WF_vars(SendStep(p))
  /\ WF_vars(RecvBegin) /\ WF_vars(RecvStep)

Spec == Init /\ [][Next]_vars /\ Fairness

-----------------------------------------------------------------------------
(* Properties.                                                             *)

\* What ReceiveWithTimeout returns are the messages, whole, once and in the
\* order they were sent, until a frame is cut: by a send that gave up between
\* its bytes, by a receive that did, by a publisher that sent at the same time
\* as another or by a reconnection inside a send.  Short writes and reads,
\* signals inside send(), timeouts between frames, empty messages and a peer
\* that closes do not cut one.
FramesIntact ==
  \A c \in DOMAIN log :
    /\ Len(log[c].received) <= Len(log[c].sent)
    /\ \A i \in 1 .. Len(log[c].received) : log[c].received[i] = Body(log[c].sent[i])

\* A message whose send returned kOk is received (it never happens that one is
\* missing for good), unless a frame of the connection was cut, one of its ends
\* was closed, or no receiver is attached to it.
SentArrives ==
  []<>(\/ sock = 0 \/ sock # peer \/ log[sock].cut
       \/ \A i \in 1 .. Len(log[sock].sent) :
            log[sock].sent[i] \in acked => i <= Len(log[sock].received))

\* A receiver's process ends only after a frame of its connection was cut: as
\* long as none is, what it takes for a length is one, and never Huge.
EndsAfterCut == ReceiverEnded => log[peer].cut

\* A receive returns: it times out, or sees the end of the connection, unless
\* the receiver's process has ended.  A send does not always: its process may be
\* killed because the peer has closed, and in send(), which has no deadline, it
\* may sit for ever, but only on a connection that no receiver reads and none
\* has closed.
CallsReturn ==
  /\ \A p \in Publishers :
       []<>(\/ pub[p] = Idle
            \/ SenderEnded
            \/ pub[p].pc = "send" /\ pub[p].conn # peer /\ pub[p].conn \notin gone)
  /\ []<>(reader = Idle \/ ReceiverEnded)
=============================================================================
