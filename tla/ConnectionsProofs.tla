------------------------- MODULE ConnectionsProofs --------------------------
(***************************************************************************)
(* Proofs about module Connections: for every number of connections,       *)
(* requests and events, the TCP server keeps the one connection it serves. *)
(***************************************************************************)
EXTENDS Connections, TLAPS

ConnStates == {"unused", "pending", "accepted", "closed"}

(* The serial line is no connection of the server. *)
TcpTypeOK == /\ conn \in [Conn -> ConnStates] /\ conn[Line] = "unused"
             /\ socket \in Conn \cup {None}
             /\ backlog \in Seq(Conn)

(* What the server has queued is pending, and queued once.  Without this a *)
(* connection could be handed out that is served already, and closed.      *)
BacklogInv == /\ \A i \in DOMAIN backlog : conn[backlog[i]] = "pending"
              /\ \A i, j \in DOMAIN backlog : backlog[i] = backlog[j] => i = j

ServerInv == TcpTypeOK /\ BacklogInv /\ OneHost
-----------------------------------------------------------------------------
(* A step of the server keeps its invariant: one lemma per kind of step. *)
LEMMA TcpInitially == Init => ServerInv
  BY NoneIsNoConn, LineIsConn
     DEF Init, WorkerInit, TcpInit, ServerInv, TcpTypeOK, ConnStates, BacklogInv, OneHost

(* What Close makes of the server's ends. *)
LEMMA CloseCloses ==
    ASSUME TcpTypeOK, NEW S, Close(S)
    PROVE  /\ conn' \in [Conn -> ConnStates] /\ conn'[Line] = "unused"
           /\ \A c \in Conn \ S : conn'[c] = conn[c]
           /\ \A c \in Conn \cap S : conn'[c] \in {"closed", "unused"}
  BY LineIsConn DEF TcpTypeOK, ConnStates, Close

(* When all that is pending or served is closed, nothing is kept. *)
LEMMA ClosingAll ==
    ASSUME ServerInv, NEW S, Close(S),
           \A c \in Conn : conn[c] \in {"accepted", "pending"} => c \in S,
           socket' = None, backlog' = <<>>
    PROVE  ServerInv'
  <1>1. \A c \in Conn : conn'[c] \in {"closed", "unused"}
    BY CloseCloses DEF ServerInv, TcpTypeOK, ConnStates
  <1>2. TcpTypeOK'
    BY CloseCloses DEF ServerInv, TcpTypeOK
  <1> QED
    BY <1>1, <1>2, NoneIsNoConn DEF ServerInv, BacklogInv, OneHost

(* A connection that is served, or was never, goes. *)
LEMMA Discarding ==
    ASSUME ServerInv, NEW c \in Conn, conn[c] = "accepted", DiscardSocket(c)
    PROVE  ServerInv'
  <1>1. c = socket
    BY DEF ServerInv, OneHost
  <1>2. socket' = None /\ backlog' = backlog /\ Close({c})
    BY <1>1 DEF DiscardSocket
  <1>3. TcpTypeOK'
    BY <1>2, CloseCloses DEF ServerInv, TcpTypeOK
  <1>4. BacklogInv'
    BY <1>2, CloseCloses DEF ServerInv, TcpTypeOK, BacklogInv
  <1>5. OneHost'
    BY <1>1, <1>2, CloseCloses, NoneIsNoConn DEF ServerInv, OneHost
  <1> QED
    BY <1>3, <1>4, <1>5 DEF ServerInv

LEMMA Accepting == ServerInv /\ OnNewConnection => ServerInv'
  <1> SUFFICES ASSUME ServerInv, OnNewConnection PROVE ServerInv'
    OBVIOUS
  <1> DEFINE c == Head(backlog)
  <1>1. /\ backlog \in Seq(Conn) /\ backlog # <<>> /\ c = backlog[1] /\ 1 \in DOMAIN backlog
        /\ c \in Conn /\ conn[c] = "pending" /\ c # Line
    BY DEF OnNewConnection, ServerInv, TcpTypeOK, BacklogInv
  <1>2. /\ backlog' \in Seq(Conn) /\ Len(backlog') = Len(backlog) - 1
        /\ \A i \in DOMAIN backlog' : /\ i + 1 \in DOMAIN backlog
                                      /\ backlog'[i] = backlog[i + 1]
    BY <1>1 DEF OnNewConnection
  <1>3. /\ \A i \in DOMAIN backlog' : backlog'[i] # c /\ conn[backlog'[i]] = "pending"
        /\ \A i, j \in DOMAIN backlog' : backlog'[i] = backlog'[j] => i = j
    BY <1>1, <1>2 DEF ServerInv, BacklogInv
  <1>4. Serve(c)
    BY DEF OnNewConnection
  <1>5. CASE socket # None
    <2>1. Close({c}) /\ socket' = socket
      BY <1>4, <1>5 DEF Serve
    <2>2. TcpTypeOK'
      BY <1>2, <2>1, CloseCloses DEF ServerInv, TcpTypeOK
    <2>3. BacklogInv'
      <3>1. \A i \in DOMAIN backlog' : backlog'[i] \in Conn \ {c}
        BY <1>2, <1>3
      <3>2. \A i \in DOMAIN backlog' : conn'[backlog'[i]] = "pending"
        BY <1>3, <2>1, <3>1, CloseCloses DEF ServerInv
      <3> QED
        BY <1>3, <3>2 DEF BacklogInv
    <2>4. OneHost'
      BY <1>1, <2>1, CloseCloses DEF ServerInv, OneHost
    <2> QED
      BY <2>2, <2>3, <2>4 DEF ServerInv
  <1>6. CASE socket = None
    <2>1. socket' = c /\ conn' = [conn EXCEPT ![c] = "accepted"]
      BY <1>4, <1>6 DEF Serve
    <2>2. TcpTypeOK'
      BY <1>1, <1>2, <2>1 DEF ServerInv, TcpTypeOK, ConnStates
    <2>3. BacklogInv'
      BY <1>1, <1>2, <1>3, <2>1 DEF ServerInv, TcpTypeOK, BacklogInv
    <2>4. OneHost'
      BY <1>1, <1>6, <2>1, NoneIsNoConn DEF ServerInv, TcpTypeOK, OneHost
    <2> QED
      BY <2>2, <2>3, <2>4 DEF ServerInv
  <1> QED
    BY <1>5, <1>6

LEMMA ConnectingTcp == ServerInv /\ ConnectTcp /\ UNCHANGED socket => ServerInv'
  <1> SUFFICES ASSUME ServerInv, ConnectTcp, UNCHANGED socket PROVE ServerInv'
    OBVIOUS
  <1> DEFINE c == CHOOSE u \in Unused : TRUE
  <1>1. c \in Conn /\ c # Line /\ conn[c] = "unused"
    BY DEF ConnectTcp, Unused
  <1>2. conn' = [conn EXCEPT ![c] = "pending"] /\ backlog' = Append(backlog, c)
    BY DEF ConnectTcp
  <1> HIDE DEF c
  <1>3. /\ backlog' \in Seq(Conn) /\ DOMAIN backlog' = 1..(Len(backlog) + 1)
        /\ DOMAIN backlog = 1..Len(backlog) /\ Len(backlog) \in Nat
        /\ backlog'[Len(backlog) + 1] = c
        /\ \A i \in DOMAIN backlog : backlog'[i] = backlog[i] /\ backlog[i] # c
    BY <1>1, <1>2 DEF ServerInv, TcpTypeOK, BacklogInv
  <1>4. TcpTypeOK'
    BY <1>1, <1>2, <1>3 DEF ServerInv, TcpTypeOK, ConnStates
  <1>5. BacklogInv'
    BY <1>1, <1>2, <1>3 DEF ServerInv, TcpTypeOK, BacklogInv
  <1>6. OneHost'
    BY <1>1, <1>2 DEF ServerInv, TcpTypeOK, OneHost
  <1> QED
    BY <1>4, <1>5, <1>6 DEF ServerInv

(* The host sees that its connection is closed, and may use it again. *)
LEMMA LeavingClosed ==
    ASSUME ServerInv, NEW c \in Conn, conn[c] = "closed",
           conn' = [conn EXCEPT ![c] = "unused"], UNCHANGED <<socket, backlog>>
    PROVE  ServerInv'
  <1>1. TcpTypeOK'
    BY DEF ServerInv, TcpTypeOK, ConnStates
  <1>2. BacklogInv' /\ OneHost'
    BY DEF ServerInv, TcpTypeOK, BacklogInv, OneHost
  <1> QED
    BY <1>1, <1>2 DEF ServerInv

LEMMA ServerStutters == ServerInv /\ UNCHANGED <<conn, socket, backlog>> => ServerInv'
  BY DEF ServerInv, TcpTypeOK, BacklogInv, OneHost

LEMMA Transmitting == ServerInv /\ (\E m : Transmit(m)) => ServerInv'
  <1> SUFFICES ASSUME ServerInv, NEW m, Transmit(m) PROVE ServerInv'
    OBVIOUS
  <1>1. CASE UNCHANGED <<conn, socket, backlog>>
    BY <1>1, ServerStutters
  <1>2. CASE socket # None /\ DiscardSocket(socket)
    BY <1>2, Discarding DEF ServerInv, TcpTypeOK, OneHost
  <1> QED
    BY <1>1, <1>2 DEF Transmit, SendBytes, tcpVars, linkVars

-----------------------------------------------------------------------------
(* The host uses a connection or the line, or none. *)
HostConnOK == hostConn \in Conn \cup {None}

LEMMA HostConnStep == HostConnOK /\ [Next]_vars => HostConnOK'
  <1> SUFFICES ASSUME HostConnOK, [Next]_vars PROVE HostConnOK'
    OBVIOUS
  <1>1. CASE UNCHANGED hostConn
    BY <1>1 DEF HostConnOK
  <1>2. CASE hostConn' = None
    BY <1>2 DEF HostConnOK
  <1>3. CASE Connect
    BY <1>3, LineIsConn DEF HostConnOK, Connect, ConnectTcp, OpenLine, Unused
  <1>4. CASE Host
    BY <1>1, <1>2, <1>3, <1>4
       DEF Host, hostVars, NewRequest, Retry, Receive, Reconnect, Lose, Drop, HostRestarts
  <1> QED
    BY <1>1, <1>4 DEF Next, Click, JobEnds, hostVars, vars

LEMMA ServerStep == ServerInv /\ HostConnOK /\ [Next]_vars => ServerInv'
  <1> SUFFICES ASSUME ServerInv, HostConnOK, [Next]_vars PROVE ServerInv'
    OBVIOUS
  <1>1. CASE UNCHANGED <<conn, socket, backlog>>
    BY <1>1, ServerStutters
  <1>2. CASE Host
    <2>1. CASE NewRequest \/ Retry \/ Receive \/ Drop \/ Lose
      BY <1>1, <2>1 DEF NewRequest, Retry, Receive, Drop, Lose, Send, Break
    <2>2. CASE Connect
      BY <1>1, <2>2, ConnectingTcp DEF Connect, OpenLine
    <2>3. CASE Reconnect
      <3>1. CASE hostConn = Line
        BY <1>1, <2>3, <3>1 DEF Reconnect, linkVars
      <3>2. CASE hostConn # Line
        BY <2>3, <3>2, LeavingClosed DEF Reconnect, HostConnOK
      <3> QED
        BY <3>1, <3>2
    <2>4. CASE HostRestarts
      BY <1>1, <2>4 DEF HostRestarts, Break, linkVars
    <2> QED
      BY <1>2, <2>1, <2>2, <2>3, <2>4 DEF Host
  <1>3. CASE Click
    <2>1. PICK kind \in Kinds : StartTransport(kind)
      BY <1>3 DEF Click
    <2>2. \A c \in Conn : conn[c] \in {"accepted", "pending"} => c \in Held \cup {Line}
      BY DEF Held, ServerInv, OneHost
    <2> QED
      BY <2>1, <2>2, ClosingAll DEF StartTransport
  <1>4. CASE JobEnds
    BY <1>1, <1>4 DEF JobEnds, Notify, tcpVars, linkVars
  <1>5. CASE Slot
    <2>1. CASE Read
      BY <1>1, <2>1 DEF Read
    <2>2. CASE Accept
      BY <2>2, Accepting DEF Accept
    <2>3. CASE \E c \in Conn : Discard(c)
      BY <2>3, Discarding DEF Discard, Disconnected
    <2> QED
      BY <1>5, <2>1, <2>2, <2>3 DEF Slot
  <1>6. CASE Running
    <2>1. CASE Tx
      BY <2>1, Transmitting DEF Tx
    <2>2. CASE ParseMessage \/ ParseSkip \/ ParseEnds \/ TxEnds
      BY <1>1, <2>2 DEF ParseMessage, ParseSkip, ParseEnds, TxEnds, tcpVars, linkVars
    <2> QED
      BY <1>6, <2>1, <2>2 DEF Running
  <1>7. CASE Relaunch
    BY <1>7, ClosingAll DEF Relaunch
  <1>8. CASE UNCHANGED vars
    BY <1>1, <1>8 DEF vars, workerVars, tcpVars, linkVars
  <1> QED
    BY <1>2, <1>3, <1>4, <1>5, <1>6, <1>7, <1>8 DEF Next, Worker

-----------------------------------------------------------------------------
(* The server keeps m_socket, and no other connection, however hosts come, *)
(* leave and fall silent and whenever the transport is started or stopped  *)
(* (TcpTransport::onNewConnection, discardSocket, stop).                   *)
THEOREM OneHostOnly == Spec => []OneHost
  <1>1. Init => HostConnOK
    BY DEF Init, HostConnOK
  <1>2. Spec => [](ServerInv /\ HostConnOK)
    BY <1>1, TcpInitially, ServerStep, HostConnStep, PTL DEF Spec
  <1>3. ServerInv => OneHost
    BY DEF ServerInv
  <1> QED
    BY <1>2, <1>3, PTL
-----------------------------------------------------------------------------
(* What is on its way to the firmware: in the parser, and on connections.  *)
Requests == {RequestOf(s, n) : s \in 0..MaxEvents, n \in 1..MaxRequests}
Piece == [req : Requests, piece : Nat]

Elems(s) == {s[i] : i \in DOMAIN s}
InPipe == Elems(buffer) \cup UNION {Elems(toDevice[c]) : c \in Conn}

(* The order in which a host makes requests.  Only who has the answer to   *)
(* its handshake sends another request, and then nothing of an earlier     *)
(* session but handshakes is on its way.                                   *)
NotAfter(q, r) == \/ q.session < r.session
                  \/ q.session = r.session /\ q.txid <= r.txid
Follows(q, r) == NotAfter(q, r) /\ (r.txid # 1 => q.txid = 1 \/ q.session = r.session)

Ordered(s) == \A i, j \in DOMAIN s : i <= j => Follows(s[i].req, s[j].req)
Flows(s, t) == \A p \in Elems(s), q \in Elems(t) : Follows(p.req, q.req)

(* The order in which the server reads connections. *)
Ahead(c, d) == \/ c = socket /\ d \in Elems(backlog)
               \/ \E i, j \in DOMAIN backlog : i < j /\ c = backlog[i] /\ d = backlog[j]

Sent(r) == \/ r.session < session
           \/ r.session = session /\ r.txid <= number

HostTypeOK == /\ HostConnOK
              /\ session \in 0..events /\ events \in 0..MaxEvents
              /\ number \in 0..MaxRequests /\ answered \in BOOLEAN
              /\ ~answered => number # 0
              /\ toDevice \in [Conn -> Seq(Piece)] /\ buffer \in Seq(Piece)

(* Only the transport there is has something to read. *)
TransportInv == /\ transport # "Tcp" => ~listening /\ socket = None /\ backlog = <<>>
                /\ transport # "Serial" => ~port
                /\ ~port => toDevice[Line] = <<>>

(* What is left of a connection that is closed, and who may still use one. *)
EndOK(c) == /\ conn[c] \in {"unused", "closed"} => toDevice[c] = <<>>
            /\ conn[c] = "pending" => c \in Elems(backlog)
            /\ conn[c] = "unused" => toHost[c] = <<>>
            /\ peer[c] # "up" => conn[c] \in {"pending", "accepted"} /\ c # hostConn
EndsInv == \A c \in Conn \ {Line} : EndOK(c)

(* The host's connection is the newest, and the session's. *)
NewestInv == /\ hostConn = socket /\ socket # None => backlog = <<>>
             /\ \A i \in DOMAIN backlog : backlog[i] = hostConn => i = Len(backlog)
SessionInv == \A c \in {hostConn, Line} \ {None} :
                 \A p \in Elems(toDevice[c]) : p.req.session = session

LinksInv == TransportInv /\ EndsInv /\ NewestInv /\ SessionInv

OrderInv ==
    /\ \A p \in InPipe : Sent(p.req)
    /\ Ordered(buffer)
    /\ \A c \in Conn : Ordered(toDevice[c]) /\ Flows(buffer, toDevice[c])
    /\ \A c, d \in Conn : Ahead(c, d) => Flows(toDevice[c], toDevice[d])

(* A request that took effect is the last the firmware processed, for as   *)
(* long as it may come again.                                              *)
MayComeAgain(r) == (\E p \in InPipe : p.req = r) \/ (~answered /\ r = Current)
OnceInv ==
    /\ acted \subseteq Requests
    /\ \A r \in acted :
          /\ Sent(r) /\ \A p \in InPipe : NotAfter(r, p.req)
          /\ MayComeAgain(r) => lastTxid = r.txid /\ lastResponse.txid = r.txid
    /\ ~twice

(* What the host will read on the connection it uses. *)
OnWay == IF hostConn = None THEN <<>>
         ELSE IF Endpoint = hostConn THEN toHost[hostConn] \o outq
         ELSE toHost[hostConn]

IsFor(m, op) == m.cmd = op \/ m.of = op
AptIn(s, m) == m.txid >= 2 => IsFor(m, RequestOf(s, m.txid).op)
Apt(m) == AptIn(session, m)
Settled(s) == \A i, j \in DOMAIN s : i < j /\ s[i].txid = 1 => Apt(s[j])

(* The host has the answer to its handshake, or will have it. *)
ShookHands == number >= 2 \/ (number = 1 /\ answered)
Greeted == ShookHands \/ \E m \in Elems(OnWay) : m.txid = 1
Clean == \A p \in InPipe : p.req.txid = 1 \/ p.req.session = session

AnswerTypeOK == /\ outq \in Seq(Message) /\ lastResponse \in Message
                /\ toHost \in [Conn -> Seq(Message)]
                /\ phase \in Phases

ParserInv ==
    /\ phase \in {"loop", "crashed"} => outq = <<>>
    /\ phase # "read" => buffer = <<>> \/ buffer[1].req.txid # 1
    /\ phase = "read" /\ Endpoint = hostConn =>
          \A i, j \in DOMAIN buffer : i < j /\ buffer[i].req.txid = 1 =>
             buffer[j].req.txid = 1 \/ buffer[j].req.session = session

IsHandshakeAnswer(m) == m.txid = 1 => m.cmd = "handshake"
HandshakeInv == /\ IsHandshakeAnswer(lastResponse)
                /\ \A m \in Elems(outq) : IsHandshakeAnswer(m)
                /\ \A c \in Conn : \A m \in Elems(toHost[c]) : IsHandshakeAnswer(m)

AnswersInv ==
    /\ Greeted => Clean /\ Apt(lastResponse)
    /\ ShookHands => \A m \in Elems(OnWay) : Apt(m)
    /\ Settled(OnWay)
    /\ ~stray

-----------------------------------------------------------------------------
(* Sequences that only lose elements. *)
Thins(t, s) == Elems(t) \subseteq Elems(s) /\ (Ordered(s) => Ordered(t))

LEMMA ThinsItself == \A s : Thins(s, s) /\ Thins(<<>>, s)
  BY DEF Thins, Elems, Ordered

LEMMA SubSeqIs ==
    ASSUME NEW S, NEW s \in Seq(S), NEW m \in 1..(Len(s) + 1), NEW n \in 0..Len(s)
    PROVE  /\ SubSeq(s, m, n) \in Seq(S)
           /\ \A i \in DOMAIN SubSeq(s, m, n) :
                 /\ m + i - 1 \in DOMAIN s /\ m + i - 1 >= m /\ m + i - 1 <= n
                 /\ SubSeq(s, m, n)[i] = s[m + i - 1]
  OBVIOUS

LEMMA SubSeqThins ==
    ASSUME NEW S, NEW s \in Seq(S), NEW m \in 1..(Len(s) + 1), NEW n \in 0..Len(s)
    PROVE  Thins(SubSeq(s, m, n), s)
  <1> DEFINE t == SubSeq(s, m, n)
  <1>1. \A i \in DOMAIN t : m + i - 1 \in DOMAIN s /\ t[i] = s[m + i - 1]
    BY SubSeqIs
  <1>2. \A i, j \in DOMAIN t : i <= j => m + i - 1 <= m + j - 1
    OBVIOUS
  <1> HIDE DEF t
  <1>3. Elems(t) \subseteq Elems(s)
    BY <1>1 DEF Elems
  <1>4. ASSUME Ordered(s), NEW i \in DOMAIN t, NEW j \in DOMAIN t, i <= j
        PROVE  Follows(t[i].req, t[j].req)
    BY <1>1, <1>2, <1>4 DEF Ordered
  <1> QED
    BY <1>3, <1>4 DEF Thins, Ordered, t

LEMMA TailThins ==
    ASSUME NEW S, NEW s \in Seq(S), s # <<>>
    PROVE  Tail(s) \in Seq(S) /\ Thins(Tail(s), s)
  <1>1. /\ Tail(s) \in Seq(S)
        /\ \A i \in DOMAIN Tail(s) : i + 1 \in DOMAIN s /\ Tail(s)[i] = s[i + 1]
    OBVIOUS
  <1>2. \A i, j \in DOMAIN Tail(s) : i <= j => i + 1 <= j + 1
    OBVIOUS
  <1> QED
    BY <1>1, <1>2 DEF Thins, Elems, Ordered

LEMMA ElemsOfConcat ==
    ASSUME NEW S, NEW s \in Seq(S), NEW t \in Seq(S)
    PROVE  s \o t \in Seq(S) /\ Elems(s \o t) = Elems(s) \cup Elems(t)
  <1>1. /\ s \o t \in Seq(S) /\ Len(s \o t) = Len(s) + Len(t)
        /\ Len(s) \in Nat /\ Len(t) \in Nat
        /\ DOMAIN s = 1..Len(s) /\ DOMAIN t = 1..Len(t)
        /\ DOMAIN (s \o t) = 1..(Len(s) + Len(t))
        /\ \A i \in 1..Len(s) : (s \o t)[i] = s[i]
        /\ \A i \in 1..Len(t) : (s \o t)[Len(s) + i] = t[i]
    OBVIOUS
  <1>2. \A i \in DOMAIN (s \o t) :
           i \in 1..Len(s) \/ (i - Len(s) \in 1..Len(t) /\ Len(s) + (i - Len(s)) = i)
    BY <1>1
  <1>3. Elems(s \o t) \subseteq Elems(s) \cup Elems(t)
    BY <1>1, <1>2 DEF Elems
  <1>4. Elems(s) \subseteq Elems(s \o t)
    BY <1>1 DEF Elems
  <1>5. Elems(t) \subseteq Elems(s \o t)
    <2>1. \A i \in DOMAIN t : Len(s) + i \in DOMAIN (s \o t)
      BY <1>1
    <2> QED
      BY <1>1, <2>1 DEF Elems
  <1> QED
    BY <1>1, <1>3, <1>4, <1>5

LEMMA MessageAppended ==
    ASSUME NEW s \in Seq(Message), NEW e \in Message
    PROVE  /\ Append(s, e) \in Seq(Message)
           /\ Elems(Append(s, e)) = Elems(s) \cup {e}
  <1>1. /\ Append(s, e) \in Seq(Message) /\ Append(s, e) = s \o <<e>>
        /\ <<e>> \in Seq(Message)
    OBVIOUS
  <1>2. Elems(s \o <<e>>) = Elems(s) \cup Elems(<<e>>)
    BY <1>1, ElemsOfConcat
  <1>3. Elems(<<e>>) = {e}
    BY DEF Elems
  <1> QED
    BY <1>1, <1>2, <1>3

LEMMA AppendBehind ==
    ASSUME NEW s \in Seq(Message), NEW t \in Seq(Message), NEW e \in Message
    PROVE  s \o Append(t, e) = Append(s \o t, e)
  OBVIOUS

LEMMA OrderedConcat ==
    ASSUME NEW S, NEW s \in Seq(S), NEW t \in Seq(S), Ordered(s), Ordered(t), Flows(s, t)
    PROVE  Ordered(s \o t)
  <1> DEFINE u == s \o t
  <1>1. /\ Len(s) \in Nat /\ Len(t) \in Nat
        /\ DOMAIN s = 1..Len(s) /\ DOMAIN t = 1..Len(t)
        /\ DOMAIN u = 1..(Len(s) + Len(t))
        /\ \A i \in 1..Len(s) : u[i] = s[i]
        /\ \A i \in 1..Len(t) : u[Len(s) + i] = t[i]
    OBVIOUS
  <1> HIDE DEF u
  <1> SUFFICES ASSUME NEW i \in DOMAIN u, NEW j \in DOMAIN u, i <= j
               PROVE  Follows(u[i].req, u[j].req)
    BY DEF Ordered, u
  <1>2. CASE j <= Len(s)
    <2>1. i \in 1..Len(s) /\ j \in 1..Len(s)
      BY <1>1, <1>2
    <2> QED
      BY <1>1, <2>1 DEF Ordered
  <1>3. CASE i <= Len(s) /\ j > Len(s)
    <2>1. i \in 1..Len(s) /\ j - Len(s) \in 1..Len(t) /\ Len(s) + (j - Len(s)) = j
      BY <1>1, <1>3
    <2>2. u[i] \in Elems(s) /\ u[j] \in Elems(t)
      BY <1>1, <2>1 DEF Elems
    <2> QED
      BY <2>2 DEF Flows
  <1>4. CASE i > Len(s)
    <2> DEFINE a == i - Len(s)
               b == j - Len(s)
    <2>1. a \in 1..Len(t) /\ b \in 1..Len(t) /\ Len(s) + a = i /\ Len(s) + b = j /\ a <= b
      <3>1. i \in Nat /\ j \in Nat /\ j > Len(s) /\ i <= Len(s) + Len(t) /\ j <= Len(s) + Len(t)
        BY <1>1, <1>4
      <3> QED
        BY <1>1, <1>4, <3>1
    <2>2. u[i] = t[a] /\ u[j] = t[b]
      BY <1>1, <2>1
    <2> HIDE DEF a, b
    <2> QED
      BY <1>1, <2>1, <2>2 DEF Ordered
  <1> QED
    BY <1>1, <1>2, <1>3, <1>4

(* The two ends of an ordered sequence. *)
LEMMA EndsFlow ==
    ASSUME NEW S, NEW s \in Seq(S), Ordered(s), NEW m \in 0..Len(s),
           NEW n \in 1..(Len(s) + 1), m < n
    PROVE  Flows(SubSeq(s, 1, m), SubSeq(s, n, Len(s)))
  <1> SUFFICES ASSUME NEW i \in DOMAIN SubSeq(s, 1, m),
                      NEW j \in DOMAIN SubSeq(s, n, Len(s))
               PROVE  Follows(SubSeq(s, 1, m)[i].req, SubSeq(s, n, Len(s))[j].req)
    BY DEF Flows, Elems
  <1>1. i \in DOMAIN s /\ i <= m /\ SubSeq(s, 1, m)[i] = s[i]
    OBVIOUS
  <1>2. /\ n + j - 1 \in DOMAIN s /\ n + j - 1 >= n
        /\ SubSeq(s, n, Len(s))[j] = s[n + j - 1]
    OBVIOUS
  <1>3. i <= n + j - 1
    BY <1>1, <1>2
  <1> QED
    BY <1>1, <1>2, <1>3 DEF Ordered

(* A sequence without one of its elements. *)
LEMMA DropThins ==
    ASSUME NEW S, NEW s \in Seq(S), NEW n \in DOMAIN s
    PROVE  LET t == SubSeq(s, 1, n - 1) \o SubSeq(s, n + 1, Len(s))
           IN  t \in Seq(S) /\ Thins(t, s)
  <1>1. n - 1 \in 0..Len(s) /\ n + 1 \in 1..(Len(s) + 1) /\ Len(s) \in 0..Len(s)
        /\ 1 \in 1..(Len(s) + 1) /\ n - 1 < n + 1
    OBVIOUS
  <1> DEFINE p == SubSeq(s, 1, n - 1)
             q == SubSeq(s, n + 1, Len(s))
  <1>2. p \in Seq(S) /\ q \in Seq(S)
    BY <1>1, SubSeqIs
  <1>3. Thins(p, s) /\ Thins(q, s)
    BY <1>1, SubSeqThins
  <1>4. Ordered(s) => Flows(p, q)
    BY <1>1, EndsFlow
  <1> HIDE DEF p, q
  <1>5. p \o q \in Seq(S) /\ Elems(p \o q) = Elems(p) \cup Elems(q)
    BY <1>2, ElemsOfConcat
  <1>6. Ordered(p) /\ Ordered(q) /\ Flows(p, q) => Ordered(p \o q)
    BY <1>2, OrderedConcat
  <1>7. Thins(p \o q, s)
    BY <1>3, <1>4, <1>5, <1>6 DEF Thins
  <1> QED
    BY <1>5, <1>7 DEF p, q
-----------------------------------------------------------------------------
(* What a request says of itself, and what its pieces are. *)
LEMMA RequestIs ==
    ASSUME NEW r \in Requests
    PROVE  /\ r.session \in 0..MaxEvents /\ r.txid \in 1..MaxRequests
           /\ r = RequestOf(r.session, r.txid)
           /\ r.op \in KnownOps /\ r.size \in Nat
           /\ r.txid = 1 => r.op = "handshake" /\ r.size = 0
  <1>1. PICK s \in 0..MaxEvents, n \in 1..MaxRequests : r = RequestOf(s, n)
    BY DEF Requests
  <1> QED
    BY <1>1, ConnectionsAssumption

LEMMA PiecesAre ==
    ASSUME NEW r \in Requests
    PROVE  /\ Pieces(r) \in Seq(Piece) /\ Ordered(Pieces(r))
           /\ \A p \in Elems(Pieces(r)) : p.req = r
  <1>1. r.size + 1 \in Nat /\ r.txid \in Nat /\ r.session \in Nat
    BY RequestIs, ConnectionsAssumption
  <1>2. /\ DOMAIN Pieces(r) = 1..(r.size + 1)
        /\ \A i \in 1..(r.size + 1) : Pieces(r)[i] = [req |-> r, piece |-> i]
    BY DEF Pieces
  <1>3. \A i \in 1..(r.size + 1) : [req |-> r, piece |-> i] \in Piece
    BY <1>1 DEF Piece
  <1>4. Pieces(r) \in Seq(Piece)
    BY <1>1, <1>3 DEF Pieces
  <1>5. Follows(r, r)
    BY <1>1 DEF Follows, NotAfter
  <1>6. \A i \in DOMAIN Pieces(r) : Pieces(r)[i].req = r
    BY DEF Pieces
  <1>7. \A p \in Elems(Pieces(r)) : p.req = r
    BY <1>6 DEF Elems
  <1>8. Ordered(Pieces(r))
    BY <1>5, <1>6 DEF Ordered
  <1> QED
    BY <1>4, <1>7, <1>8

LEMMA CurrentIs ==
    ASSUME HostTypeOK, number # 0
    PROVE  Current \in Requests /\ Current.session = session /\ Current.txid = number
  <1>1. session \in 0..MaxEvents /\ number \in 1..MaxRequests
    BY ConnectionsAssumption DEF HostTypeOK
  <1> QED
    BY <1>1, ConnectionsAssumption DEF Current, Requests

LEMMA NextIs ==
    ASSUME HostTypeOK, NewRequest
    PROVE  LET r == RequestOf(session, number + 1)
           IN  r \in Requests /\ r.session = session /\ r.txid = number + 1
  <1>1. session \in 0..MaxEvents /\ number + 1 \in 1..MaxRequests
    BY ConnectionsAssumption DEF HostTypeOK, NewRequest
  <1> QED
    BY <1>1, ConnectionsAssumption DEF Requests

LEMMA HostTypeInitially == Init => HostTypeOK
  BY ConnectionsAssumption
     DEF Init, WorkerInit, TcpInit, FirmwareInit, HostTypeOK, HostConnOK

LEMMA BufferTypes ==
    ASSUME HostTypeOK, CanParse
    PROVE  /\ buffer # <<>> /\ 1 \in DOMAIN buffer /\ buffer[1] \in Piece
           /\ buffer[1].req \in Requests /\ buffer[1].req.size \in Nat
           /\ Tail(buffer) = SubSeq(buffer, 2, Len(buffer))
           /\ 2 \in 1..(Len(buffer) + 1) /\ Len(buffer) \in 0..Len(buffer)
           /\ IsMessage => buffer[1].req.size + 2 \in 1..(Len(buffer) + 1)
  <1>1. /\ buffer \in Seq(Piece) /\ buffer # <<>> /\ 1 \in DOMAIN buffer /\ buffer[1] \in Piece
        /\ Len(buffer) \in Nat /\ Len(buffer) >= 1
    BY DEF HostTypeOK, CanParse
  <1>2. buffer[1].req \in Requests
    BY <1>1 DEF Piece
  <1>3. buffer[1].req.size \in Nat
    BY <1>2, RequestIs
  <1>4. Tail(buffer) = SubSeq(buffer, 2, Len(buffer))
    BY <1>1
  <1>5. IsMessage => Len(buffer) > buffer[1].req.size
    BY DEF IsMessage, CanParse
  <1> QED
    BY <1>1, <1>2, <1>3, <1>4, <1>5

(* Parsing uses up the buffer from its front. *)
LEMMA ParsingIs ==
    ASSUME HostTypeOK, ParseMessage \/ ParseSkip
    PROVE  /\ buffer # <<>> /\ 1 \in DOMAIN buffer /\ buffer[1] \in Piece
           /\ buffer[1].req \in Requests /\ buffer[1] \in Elems(buffer)
           /\ buffer' \in Seq(Piece) /\ Thins(buffer', buffer)
           /\ \E k \in 2..(Len(buffer) + 1) :
                \A i \in DOMAIN buffer' :
                   k + i - 1 \in DOMAIN buffer /\ buffer'[i] = buffer[k + i - 1]
           /\ Ordered(buffer) =>
                \A p \in Elems(buffer') : Follows(buffer[1].req, p.req)
  <1>1. CanParse
    BY DEF ParseMessage, ParseSkip
  <1>2. buffer \in Seq(Piece) /\ Len(buffer) \in 0..Len(buffer)
    BY DEF HostTypeOK
  <1>3. PICK k \in 2..(Len(buffer) + 1) : buffer' = SubSeq(buffer, k, Len(buffer))
    <2>1. CASE ParseMessage
      <3>1. buffer[1].req.size + 2 \in 2..(Len(buffer) + 1)
        BY <1>1, <1>2, <2>1, BufferTypes DEF ParseMessage
      <3> QED
        BY <2>1, <3>1 DEF ParseMessage
    <2>2. CASE ParseSkip
      <3>1. 2 \in 2..(Len(buffer) + 1)
        BY <1>1, BufferTypes
      <3> QED
        BY <1>1, <2>2, <3>1, BufferTypes DEF ParseSkip
    <2> QED
      BY <2>1, <2>2
  <1>4. k \in 1..(Len(buffer) + 1)
    BY <1>3
  <1>5. buffer' \in Seq(Piece) /\ Thins(buffer', buffer)
    BY <1>2, <1>3, <1>4, SubSeqIs, SubSeqThins
  <1>6. ASSUME Ordered(buffer), NEW p \in Elems(buffer')
        PROVE  Follows(buffer[1].req, p.req)
    <2>1. PICK i \in DOMAIN buffer' : p = buffer'[i]
      BY DEF Elems
    <2>2. k + i - 1 \in DOMAIN buffer /\ p = buffer[k + i - 1]
      BY <1>2, <1>3, <1>4, <2>1, SubSeqIs
    <2>3. 1 \in DOMAIN buffer /\ 1 <= k + i - 1
      BY <1>2, <2>2
    <2> QED
      BY <1>6, <2>2, <2>3 DEF Ordered
  <1>7. /\ buffer # <<>> /\ 1 \in DOMAIN buffer /\ buffer[1] \in Piece
        /\ buffer[1].req \in Requests
    BY <1>1, BufferTypes
  <1>8. buffer[1] \in Elems(buffer)
    BY <1>7 DEF Elems
  <1>9. \A i \in DOMAIN buffer' :
           k + i - 1 \in DOMAIN buffer /\ buffer'[i] = buffer[k + i - 1]
    BY <1>2, <1>3, <1>4, SubSeqIs
  <1> QED
    BY <1>5, <1>6, <1>7, <1>8, <1>9

LEMMA CloseTypes ==
    ASSUME HostTypeOK, NEW S, Close(S)
    PROVE  toDevice' \in [Conn -> Seq(Piece)]
  <1>1. \A c \in Conn : (IF c \in S THEN <<>> ELSE toDevice[c]) \in Seq(Piece)
    BY DEF HostTypeOK
  <1> QED
    BY <1>1 DEF Close

LEMMA BreakTypes ==
    ASSUME HostTypeOK, NEW how, Break(how)
    PROVE  toDevice' \in [Conn -> Seq(Piece)]
  <1>1. hostConn \in Conn
    BY DEF HostTypeOK, HostConnOK, Break
  <1>2. PICK n \in 0..Len(toDevice[hostConn]) :
           toDevice' = [toDevice EXCEPT ![hostConn] = SubSeq(@, 1, n)]
    BY DEF Break
  <1>3. toDevice[hostConn] \in Seq(Piece)
    BY <1>1 DEF HostTypeOK
  <1>4. SubSeq(toDevice[hostConn], 1, n) \in Seq(Piece)
    BY <1>3
  <1> QED
    BY <1>1, <1>2, <1>4 DEF HostTypeOK

LEMMA SendTypes ==
    ASSUME HostTypeOK, NEW r \in Requests, Send(r)
    PROVE  toDevice' \in [Conn -> Seq(Piece)]
  <1>1. hostConn \in Conn
    BY DEF HostTypeOK, HostConnOK, Send
  <1>2. toDevice[hostConn] \o Pieces(r) \in Seq(Piece)
    BY <1>1, PiecesAre, ElemsOfConcat DEF HostTypeOK
  <1> QED
    BY <1>1, <1>2 DEF Send, HostTypeOK
LEMMA EndpointIs == ServerInv => Endpoint \in Conn \cup {None}
  BY LineIsConn DEF Endpoint, ServerInv, TcpTypeOK

LEMMA HostTypeStep == ServerInv /\ HostTypeOK /\ [Next]_vars => HostTypeOK'
  <1> SUFFICES ASSUME ServerInv, HostTypeOK, [Next]_vars PROVE HostTypeOK'
    OBVIOUS
  <1>a. HostConnOK'
    BY HostConnStep DEF HostTypeOK
  <1>b. /\ session \in Nat /\ events \in Nat /\ session <= events /\ events <= MaxEvents
        /\ MaxEvents \in Nat
    BY ConnectionsAssumption DEF HostTypeOK
  <1> DEFINE Counts == /\ session' \in 0..events' /\ events' \in 0..MaxEvents
                       /\ number' \in 0..MaxRequests /\ answered' \in BOOLEAN
                       /\ ~answered' => number' # 0
             Flow == toDevice' \in [Conn -> Seq(Piece)] /\ buffer' \in Seq(Piece)
  <1>c. UNCHANGED <<session, number, answered, events>> => Counts
    BY DEF HostTypeOK
  <1>d. Event /\ UNCHANGED <<session, number, answered>> => Counts
    BY <1>b DEF HostTypeOK, Event
  <1>e. UNCHANGED <<toDevice, buffer>> => Flow
    BY DEF HostTypeOK
  <1>f. buffer' = buffer /\ toDevice' \in [Conn -> Seq(Piece)] => Flow
    BY DEF HostTypeOK
  <1> HIDE DEF Counts, Flow
  <1>1. CASE NewRequest
    <2>1. Send(RequestOf(session, number + 1)) /\ UNCHANGED <<session, events>>
      BY <1>1 DEF NewRequest, Send
    <2>2. Counts
      <3>1. /\ number < MaxRequests /\ number' = number + 1 /\ answered' = FALSE
            /\ number \in Nat /\ session' = session /\ events' = events /\ MaxRequests \in Nat
        BY <1>1, <2>1, ConnectionsAssumption DEF NewRequest, HostTypeOK
      <3>2. number' \in 0..MaxRequests /\ number' # 0
        BY <3>1
      <3> QED
        BY <3>1, <3>2 DEF HostTypeOK, Counts
    <2>3. Flow
      BY <1>1, <1>f, <2>1, NextIs, SendTypes DEF Send, firmwareVars
    <2> QED
      BY <1>a, <2>2, <2>3 DEF HostTypeOK, Counts, Flow
  <1>2. CASE Retry
    <2>1. Counts
      BY <1>2, <1>c DEF Retry, Send, hostVars
    <2>2. Flow
      BY <1>2, <1>f, CurrentIs, SendTypes DEF Retry, Send, firmwareVars, HostTypeOK
    <2> QED
      BY <1>a, <2>1, <2>2 DEF HostTypeOK, Counts, Flow
  <1>3. CASE Receive
    <2>1. Counts
      <3>1. answered' \in BOOLEAN /\ (answered => answered')
        BY <1>3 DEF Receive, HostTypeOK
      <3> QED
        BY <1>3, <3>1 DEF Receive, HostTypeOK, Counts
    <2>2. Flow
      BY <1>3, <1>e DEF Receive, firmwareVars
    <2> QED
      BY <1>a, <2>1, <2>2 DEF HostTypeOK, Counts, Flow
  <1>4. CASE Connect \/ Reconnect
    <2>1. Counts
      BY <1>4, <1>c DEF Connect, Reconnect
    <2>2. Flow
      BY <1>4, <1>e DEF Connect, Reconnect, firmwareVars, linkVars
    <2> QED
      BY <1>a, <2>1, <2>2 DEF HostTypeOK, Counts, Flow
  <1>5. CASE Lose
    <2>1. Counts
      BY <1>5, <1>d DEF Lose
    <2>2. Flow
      BY <1>5, <1>f, BreakTypes DEF Lose, firmwareVars
    <2> QED
      BY <1>a, <2>1, <2>2 DEF HostTypeOK, Counts, Flow
  <1>6. CASE Drop
    <2>1. Counts
      BY <1>6, <1>d DEF Drop, hostVars
    <2>2. PICK n \in DOMAIN toDevice[Line] :
             toDevice' = [toDevice EXCEPT ![Line] =
                             SubSeq(@, 1, n - 1) \o SubSeq(@, n + 1, Len(@))]
      BY <1>6 DEF Drop
    <2>3. toDevice[Line] \in Seq(Piece)
      BY LineIsConn DEF HostTypeOK
    <2>4. SubSeq(toDevice[Line], 1, n - 1) \o SubSeq(toDevice[Line], n + 1, Len(toDevice[Line]))
             \in Seq(Piece)
      BY <2>3, DropThins
    <2>5. Flow
      BY <1>6, <1>f, <2>2, <2>4 DEF Drop, firmwareVars, HostTypeOK
    <2> QED
      BY <1>a, <2>1, <2>5 DEF HostTypeOK, Counts, Flow
  <1>7. CASE HostRestarts
    <2>1. Counts
      BY <1>7, <1>b, ConnectionsAssumption DEF HostRestarts, Event, Counts
    <2>2. Flow
      BY <1>7, <1>e, <1>f, BreakTypes DEF HostRestarts, firmwareVars, linkVars
    <2> QED
      BY <1>a, <2>1, <2>2 DEF HostTypeOK, Counts, Flow
  <1>8. CASE Click
    <2>1. Counts
      BY <1>8, <1>d DEF Click, hostVars
    <2>2. Flow
      BY <1>8, <1>f, CloseTypes DEF Click, StartTransport, firmwareVars
    <2> QED
      BY <1>a, <2>1, <2>2 DEF HostTypeOK, Counts, Flow
  <1>9. CASE JobEnds
    <2>1. Counts
      BY <1>9, <1>d DEF JobEnds, hostVars
    <2>2. Flow
      BY <1>9, <1>e DEF JobEnds, Notify, tcpVars, linkVars
    <2> QED
      BY <1>a, <2>1, <2>2 DEF HostTypeOK, Counts, Flow
  <1>10. CASE Worker /\ UNCHANGED <<hostVars, events>>
    <2>1. Counts
      BY <1>10, <1>c DEF hostVars
    <2>2. Read => Flow
      <3> SUFFICES ASSUME Read PROVE Flow
        OBVIOUS
      <3>1. PICK n \in 1..Len(toDevice[Endpoint]) :
               /\ buffer' = buffer \o SubSeq(toDevice[Endpoint], 1, n)
               /\ toDevice' = [toDevice EXCEPT ![Endpoint] = SubSeq(@, n + 1, Len(@))]
        BY DEF Read
      <3>2. Endpoint \in Conn
        BY EndpointIs DEF Read
      <3>3. toDevice[Endpoint] \in Seq(Piece)
        BY <3>2 DEF HostTypeOK
      <3>4. /\ SubSeq(toDevice[Endpoint], 1, n) \in Seq(Piece)
            /\ SubSeq(toDevice[Endpoint], n + 1, Len(toDevice[Endpoint])) \in Seq(Piece)
        BY <3>3
      <3>5. buffer' \in Seq(Piece)
        BY <3>1, <3>4, ElemsOfConcat DEF HostTypeOK
      <3> QED
        BY <3>1, <3>2, <3>4, <3>5 DEF Flow, HostTypeOK
    <2>3. Accept \/ (\E c \in Conn : Discard(c)) \/ Tx => Flow
      BY <1>e, <1>f, CloseTypes
         DEF Accept, OnNewConnection, Serve, Discard, Disconnected, DiscardSocket, Tx, Transmit,
             SendBytes, firmwareVars, tcpVars, linkVars
    <2>4. ParseMessage \/ ParseSkip => Flow
      <3> SUFFICES ASSUME ParseMessage \/ ParseSkip PROVE Flow
        OBVIOUS
      <3>2. buffer' \in Seq(Piece)
        BY ParsingIs
      <3> QED
        BY <3>2 DEF ParseMessage, ParseSkip, tcpVars, linkVars, HostTypeOK, Flow
    <2>5. ParseEnds \/ TxEnds => Flow
      BY <1>e DEF ParseEnds, TxEnds, firmwareVars, tcpVars, linkVars
    <2>6. Relaunch => Flow
      <3>1. Relaunch => toDevice' \in [Conn -> Seq(Piece)] /\ buffer' = <<>>
        BY CloseTypes DEF Relaunch
      <3> QED
        BY <3>1 DEF Flow
    <2>7. Flow
      BY <1>10, <2>2, <2>3, <2>4, <2>5, <2>6 DEF Worker, Slot, Running
    <2> QED
      BY <1>a, <2>1, <2>7 DEF HostTypeOK, Counts, Flow
  <1>11. CASE UNCHANGED vars
    <2>1. Counts /\ Flow
      BY <1>11, <1>c, <1>e DEF vars, workerVars, tcpVars, linkVars, hostVars, firmwareVars
    <2> QED
      BY <1>a, <2>1 DEF HostTypeOK, Counts, Flow
  <1> QED
    BY <1>1, <1>2, <1>3, <1>4, <1>5, <1>6, <1>7, <1>8, <1>9, <1>10, <1>11 DEF Next, Host
-----------------------------------------------------------------------------
(* The types of what travels to the host. *)
LEMMA AnswersAreMessages ==
    ASSUME NEW r \in Requests
    PROVE  /\ Ack(r) \in Message /\ Ack(r).txid = r.txid /\ Ack(r).cmd = r.op
           /\ Ack(r).cmd # "nack" /\ Ack(r).txid # NoTxid
           /\ \A err \in Errors : /\ NackTo(r, err) \in Message
                                  /\ NackTo(r, err).txid = r.txid /\ NackTo(r, err).of = r.op
                                  /\ NackTo(r, err).cmd = "nack"
  <1>1. r.op \in KnownOps /\ r.txid \in Nat /\ r.txid # 0
    BY RequestIs, ConnectionsAssumption
  <1>2. KnownOps \subseteq Ops /\ "nack" \notin KnownOps
    BY DEF Ops, KnownOps, FileOps, JogOps, QueuedOps, MoveOps, TopOps, PlainOps
  <1>4. Ack(r) \in Message
    BY <1>1, <1>2 DEF Ack, AckFlags, Message
  <1>5. Ack(r).txid = r.txid /\ Ack(r).cmd = r.op
    BY DEF Ack, AckFlags
  <1>6. Ack(r).cmd # "nack" /\ Ack(r).txid # NoTxid
    BY <1>1, <1>2, <1>5 DEF NoTxid
  <1>7. ASSUME NEW err \in Errors
        PROVE  /\ NackTo(r, err) \in Message
               /\ NackTo(r, err).txid = r.txid /\ NackTo(r, err).of = r.op
               /\ NackTo(r, err).cmd = "nack"
    BY <1>1, <1>2 DEF NackTo, Message
  <1> QED
    BY <1>4, <1>5, <1>6, <1>7

LEMMA NoticeIsMessage ==
    /\ JobEndNotice \in Message /\ JobEndNotice.txid = 0 /\ JobEndNotice.cmd # "nack"
    /\ NoResponse \in Message /\ NoResponse.txid = 0
  <1>1. "job_end" \in Ops
    BY DEF Ops, KnownOps, QueuedOps
  <1> QED
    BY <1>1 DEF JobEndNotice, NoResponse, Message, NoTxid

AnswerStays == outq \in Seq(Message) /\ lastResponse \in Message

LEMMA PushTypes ==
    ASSUME AnswerStays, NEW m \in Message, Push(m)
    PROVE  AnswerStays'
  <1>1. lastResponse' \in Message
    BY DEF Push, Remembered, AnswerStays
  <1>2. Append(outq, m) \in Seq(Message)
    BY DEF AnswerStays
  <1>3. outq' = outq \/ outq' = Append(outq, m)
    BY DEF Push
  <1> QED
    BY <1>1, <1>2, <1>3 DEF AnswerStays

(* What processing a request answers. *)
LEMMA ProcessIs ==
    ASSUME NEW r \in Requests, Process(r)
    PROVE  \/ /\ Repeated(r) /\ Push(lastResponse)
              /\ UNCHANGED <<lastTxid, acted, twice>>
           \/ /\ ~Repeated(r) /\ lastTxid' = r.txid /\ Push(Ack(r))
              /\ \/ r.op \in Effectless /\ UNCHANGED <<acted, twice>>
                 \/ /\ r.op \notin Effectless /\ acted' = acted \cup {r}
                    /\ twice' = (twice \/ r \in acted)
           \/ /\ ~Repeated(r) /\ lastTxid' = r.txid /\ Push(NackTo(r, "err_queue_full"))
              /\ r.op \notin Effectless /\ UNCHANGED <<acted, twice>>
  BY DEF Process, Evaluate, Respond, Nack

LEMMA CloseAnswerTypes ==
    ASSUME AnswerTypeOK, NEW S, Close(S)
    PROVE  toHost' \in [Conn -> Seq(Message)]
  <1>1. \A c \in Conn : (IF c \in S /\ peer[c] # "up" THEN <<>> ELSE toHost[c]) \in Seq(Message)
    BY DEF AnswerTypeOK
  <1> QED
    BY <1>1 DEF Close

LEMMA TransmitTypes ==
    ASSUME ServerInv, AnswerTypeOK, NEW m \in Message, Transmit(m)
    PROVE  toHost' \in [Conn -> Seq(Message)]
  <1>1. ASSUME NEW c \in Conn, toHost' = [toHost EXCEPT ![c] = Append(@, m)]
        PROVE  toHost' \in [Conn -> Seq(Message)]
    <2>1. Append(toHost[c], m) \in Seq(Message)
      BY DEF AnswerTypeOK
    <2> QED
      BY <1>1, <2>1 DEF AnswerTypeOK
  <1>2. CASE UNCHANGED toHost
    BY <1>2 DEF AnswerTypeOK
  <1>3. CASE socket # None /\ DiscardSocket(socket)
    BY <1>3, CloseAnswerTypes DEF DiscardSocket
  <1>4. socket \in Conn \cup {None}
    BY DEF ServerInv, TcpTypeOK
  <1> QED
    BY <1>1, <1>2, <1>3, <1>4, LineIsConn DEF Transmit, SendBytes, tcpVars, linkVars

LEMMA AnswerTypeInitially == Init => AnswerTypeOK
  BY NoticeIsMessage
     DEF Init, WorkerInit, TcpInit, FirmwareInit, OutInit, AnswerTypeOK, Phases

LEMMA AnswerTypeStep ==
    ServerInv /\ HostTypeOK /\ AnswerTypeOK /\ [Next]_vars => AnswerTypeOK'
  <1> SUFFICES ASSUME ServerInv, HostTypeOK, AnswerTypeOK, [Next]_vars PROVE AnswerTypeOK'
    OBVIOUS
  <1> DEFINE There == toHost' \in [Conn -> Seq(Message)]
             Here == AnswerStays' /\ phase' \in Phases
  <1>a. There /\ Here => AnswerTypeOK'
    BY DEF AnswerTypeOK, AnswerStays
  <1>b. UNCHANGED toHost => There
    BY DEF AnswerTypeOK
  <1>c. AnswerStays /\ (UNCHANGED outVars => AnswerStays')
    BY DEF AnswerTypeOK, AnswerStays, outVars
  <1>d. UNCHANGED phase => phase' \in Phases
    BY DEF AnswerTypeOK
  <1> HIDE DEF There, Here
  <1>1. CASE Host /\ phase = "loop"
    <2>1. Here
      BY <1>1, <1>c, <1>d
         DEF Host, NewRequest, Retry, Receive, Connect, Reconnect, Lose, Drop, HostRestarts,
             Send, firmwareVars, Here
    <2>2. NewRequest \/ Retry \/ Drop => There
      BY <1>b DEF NewRequest, Retry, Drop, Send
    <2>3. Receive => There
      BY TailThins DEF Receive, AnswerTypeOK, There
    <2>4. ASSUME NEW c, toHost' = [toHost EXCEPT ![c] = <<>>] PROVE There
      <3>1. <<>> \in Seq(Message) /\ toHost \in [Conn -> Seq(Message)]
        BY DEF AnswerTypeOK
      <3> QED
        BY <2>4, <3>1 DEF There
    <2>5. Connect \/ Reconnect \/ Lose \/ HostRestarts => There
      BY <2>4, <1>b DEF Connect, ConnectTcp, OpenLine, Reconnect, Lose, HostRestarts, Break,
                        linkVars
    <2> QED
      BY <1>1, <1>a, <2>1, <2>2, <2>3, <2>5 DEF Host
  <1>2. CASE Click
    <2>1. Here
      BY <1>2, <1>c, <1>d DEF Click, StartTransport, firmwareVars, Here
    <2>2. There
      BY <1>2, CloseAnswerTypes DEF Click, StartTransport, There
    <2> QED
      BY <1>a, <2>1, <2>2
  <1>3. CASE JobEnds
    <2>1. Push(JobEndNotice) /\ phase' = "notify" /\ UNCHANGED toHost
      BY <1>3 DEF JobEnds, Notify, tcpVars, linkVars
    <2>2. AnswerStays'
      BY <1>c, <2>1, PushTypes, NoticeIsMessage
    <2> QED
      BY <1>a, <1>b, <2>1, <2>2 DEF Here, Phases
  <1>4. CASE Slot
    <2>1. Here
      BY <1>4, <1>c, <1>d DEF Slot, Read, Accept, Discard, firmwareVars, Here, Phases
    <2>2. There
      BY <1>4, <1>b, CloseAnswerTypes
         DEF Slot, Read, Accept, OnNewConnection, Serve, Discard, Disconnected, DiscardSocket,
             There
    <2> QED
      BY <1>a, <2>1, <2>2
  <1>5. CASE ParseMessage
    <2>1. buffer[1].req \in Requests /\ Process(buffer[1].req)
      BY <1>5, ParsingIs DEF ParseMessage
    <2>2. "err_queue_full" \in Errors
      BY DEF Errors
    <2>3. PICK m \in Message : Push(m)
      BY <1>c, <2>1, <2>2, ProcessIs, AnswersAreMessages DEF AnswerStays
    <2>4. AnswerStays'
      BY <1>c, <2>3, PushTypes
    <2> QED
      BY <1>5, <1>a, <1>b, <1>d, <2>4 DEF ParseMessage, tcpVars, linkVars, Here
  <1>6. CASE ParseSkip \/ ParseEnds \/ TxEnds
    <2>1. UNCHANGED <<outVars, toHost>> /\ phase' \in Phases
      BY <1>6, <1>d DEF ParseSkip, ParseEnds, TxEnds, firmwareVars, tcpVars, linkVars, Phases
    <2> QED
      BY <1>a, <1>b, <1>c, <2>1 DEF Here
  <1>7. CASE Tx
    <2>1. outq \in Seq(Message) /\ outq # <<>> /\ lastResponse \in Message
      BY <1>7 DEF Tx, AnswerTypeOK
    <2>2. Head(outq) \in Message /\ Tail(outq) \in Seq(Message)
      BY <2>1
    <2>3. There
      BY <1>7, <2>2, TransmitTypes DEF Tx, There
    <2>4. Here
      BY <1>7, <1>d, <2>1, <2>2 DEF Tx, Here, AnswerStays
    <2> QED
      BY <1>a, <2>3, <2>4
  <1>8. CASE Relaunch
    <2>1. There
      BY <1>8, CloseAnswerTypes DEF Relaunch, There
    <2>2. Here
      BY <1>8, NoticeIsMessage DEF Relaunch, Here, AnswerStays, Phases
    <2> QED
      BY <1>a, <2>1, <2>2
  <1>9. CASE UNCHANGED vars
    BY <1>9 DEF vars, workerVars, tcpVars, linkVars, firmwareVars, outVars, AnswerTypeOK
  <1> QED
    BY <1>1, <1>2, <1>3, <1>4, <1>5, <1>6, <1>7, <1>8, <1>9 DEF Next, Worker, Running

-----------------------------------------------------------------------------
(* The connections, step by step. *)
LEMMA LinksInitially == Init => LinksInv
  BY LineIsConn
     DEF Init, WorkerInit, TcpInit, LinksInv, TransportInv, EndsInv, EndOK, NewestInv,
         SessionInv, Elems

LEMMA LinksStutter ==
    ASSUME LinksInv, UNCHANGED <<tcpVars, transport, port, hostConn, session>>
    PROVE  LinksInv'
  BY DEF LinksInv, TransportInv, EndsInv, EndOK, NewestInv, SessionInv, tcpVars, linkVars

(* Closing leaves nothing on a connection, and lets the host hear of it.   *)
LEMMA ClosedEnds ==
    ASSUME ServerInv, EndsInv, NEW S, Close(S), UNCHANGED hostConn,
           \A c \in Conn \ (S \cup {Line}) : c \in Elems(backlog) => c \in Elems(backlog')
    PROVE  EndsInv'
  <1> SUFFICES ASSUME NEW c \in Conn \ {Line} PROVE EndOK(c)'
    BY DEF EndsInv
  <1>1. EndOK(c)
    BY DEF EndsInv
  <1>2. CASE c \in S /\ conn[c] # "unused"
    <2>1. /\ conn'[c] = IF peer[c] = "up" THEN "closed" ELSE "unused"
          /\ peer'[c] = "up" /\ toDevice'[c] = <<>>
          /\ peer[c] # "up" => toHost'[c] = <<>>
      BY <1>2 DEF Close
    <2> QED
      BY <2>1 DEF EndOK
  <1>3. CASE c \in S /\ conn[c] = "unused"
    <2>1. conn'[c] = "unused" /\ peer'[c] = "up" /\ toDevice'[c] = <<>>
      BY <1>3 DEF Close
    <2>2. toHost'[c] = toHost[c]
      BY <1>1, <1>3 DEF Close, EndOK
    <2> QED
      BY <1>1, <1>3, <2>1, <2>2 DEF EndOK
  <1>4. CASE c \notin S
    <2>1. /\ conn'[c] = conn[c] /\ peer'[c] = peer[c] /\ toDevice'[c] = toDevice[c]
          /\ toHost'[c] = toHost[c]
      BY <1>4 DEF Close
    <2> QED
      BY <1>1, <1>4, <2>1 DEF EndOK
  <1> QED
    BY <1>2, <1>3, <1>4

(* Of what is on its way to the device, closing keeps all or nothing.      *)
LEMMA CloseKeepsOrClears ==
    ASSUME NEW S, Close(S)
    PROVE  \A c \in Conn : toDevice'[c] = <<>> \/ toDevice'[c] = toDevice[c]
  BY DEF Close

LEMMA SessionKept ==
    ASSUME SessionInv, UNCHANGED session, hostConn' \in {hostConn, None},
           LineIsConn, HostConnOK,
           \A c \in Conn : Elems(toDevice'[c]) \subseteq Elems(toDevice[c])
    PROVE  SessionInv'
  BY DEF SessionInv, HostConnOK

LEMMA ClosedSession ==
    ASSUME SessionInv, HostConnOK, NEW S, Close(S), UNCHANGED <<session, hostConn>>
    PROVE  SessionInv'
  <1>1. \A c \in Conn : Elems(toDevice'[c]) \subseteq Elems(toDevice[c])
    BY CloseKeepsOrClears DEF Elems
  <1> QED
    BY <1>1, SessionKept, LineIsConn

LEMMA LinksDiscard ==
    ASSUME ServerInv, HostTypeOK, LinksInv, NEW c \in Conn, conn[c] = "accepted",
           DiscardSocket(c), UNCHANGED <<transport, port, hostConn, session>>
    PROVE  LinksInv'
  <1>1. c = socket /\ c # Line /\ socket' = None /\ backlog' = backlog /\ listening' = listening
    BY DEF ServerInv, OneHost, TcpTypeOK, DiscardSocket
  <1>2. Close({c})
    BY DEF DiscardSocket
  <1>3. TransportInv'
    <2>1. toDevice'[Line] = toDevice[Line]
      BY <1>1, <1>2, LineIsConn DEF Close
    <2> QED
      BY <1>1, <2>1 DEF LinksInv, TransportInv
  <1>4. EndsInv'
    BY <1>1, <1>2, ClosedEnds DEF LinksInv
  <1>5. NewestInv'
    BY <1>1 DEF LinksInv, NewestInv
  <1>6. SessionInv'
    BY <1>2, ClosedSession DEF LinksInv, HostTypeOK
  <1> QED
    BY <1>3, <1>4, <1>5, <1>6 DEF LinksInv

LEMMA LinksClosing ==
    ASSUME ServerInv, HostTypeOK, LinksInv, NEW S, Close(S), Line \in S,
           \A c \in Conn : conn[c] = "pending" => c \in S,
           socket' = None, backlog' = <<>>,
           transport' # "Tcp" => ~listening', transport' # "Serial" => ~port',
           UNCHANGED <<hostConn, session>>
    PROVE  LinksInv'
  <1>1. TransportInv'
    <2>1. toDevice'[Line] = <<>>
      BY LineIsConn DEF Close
    <2> QED
      BY <2>1 DEF TransportInv
  <1>2. EndsInv'
    <2>1. \A c \in Elems(backlog) : conn[c] = "pending" /\ c \in Conn
      BY DEF ServerInv, TcpTypeOK, BacklogInv, Elems
    <2> QED
      BY <2>1, ClosedEnds DEF LinksInv
  <1>3. NewestInv'
    BY DEF NewestInv
  <1>4. SessionInv'
    BY ClosedSession DEF LinksInv, HostTypeOK
  <1> QED
    BY <1>1, <1>2, <1>3, <1>4 DEF LinksInv

LEMMA LinksAccept ==
    ASSUME ServerInv, HostTypeOK, LinksInv, Accept, UNCHANGED <<hostConn, session>>
    PROVE  LinksInv'
  <1> DEFINE c == Head(backlog)
  <1>1. /\ backlog \in Seq(Conn) /\ backlog # <<>> /\ c = backlog[1] /\ 1 \in DOMAIN backlog
        /\ c \in Conn /\ conn[c] = "pending" /\ c # Line /\ Serve(c)
        /\ backlog' = Tail(backlog) /\ UNCHANGED <<listening, transport, port>>
    BY DEF Accept, OnNewConnection, ServerInv, TcpTypeOK, BacklogInv
  <1>2. /\ \A i \in DOMAIN backlog' : /\ i + 1 \in DOMAIN backlog
                                      /\ backlog'[i] = backlog[i + 1]
        /\ Len(backlog) \in Nat /\ Len(backlog') = Len(backlog) - 1
        /\ \A i \in DOMAIN backlog : i # 1 => /\ i - 1 \in DOMAIN backlog'
                                              /\ backlog'[i - 1] = backlog[i]
    BY <1>1
  <1>3. ASSUME NEW d \in Elems(backlog), d # c PROVE d \in Elems(backlog')
    <2>1. PICK i \in DOMAIN backlog : d = backlog[i]
      BY DEF Elems
    <2>2. i - 1 \in DOMAIN backlog' /\ backlog'[i - 1] = d
      BY <1>1, <1>2, <1>3, <2>1
    <2> QED
      BY <2>2 DEF Elems
  <1>4. TransportInv'
    <2>1. transport = "Tcp"
      BY <1>1 DEF LinksInv, TransportInv
    <2>2. toDevice'[Line] = toDevice[Line]
      BY <1>1, LineIsConn DEF Serve, Close
    <2> QED
      BY <1>1, <2>1, <2>2 DEF LinksInv, TransportInv
  <1>5. EndsInv'
    <2>1. CASE socket # None
      <3>1. Close({c})
        BY <1>1, <2>1 DEF Serve
      <3> QED
        BY <1>3, <3>1, ClosedEnds DEF LinksInv
    <2>2. CASE socket = None
      <3>1. /\ conn' = [conn EXCEPT ![c] = "accepted"] /\ UNCHANGED <<peer, toDevice, toHost>>
        BY <1>1, <2>2 DEF Serve
      <3>2. conn \in [Conn -> ConnStates]
        BY DEF ServerInv, TcpTypeOK
      <3> SUFFICES ASSUME NEW d \in Conn \ {Line} PROVE EndOK(d)'
        BY DEF EndsInv
      <3>3. EndOK(d)
        BY DEF LinksInv, EndsInv
      <3>4. CASE d = c
        BY <1>1, <3>1, <3>2, <3>3, <3>4 DEF EndOK
      <3>5. CASE d # c
        BY <1>1, <1>3, <3>1, <3>2, <3>3, <3>5 DEF EndOK
      <3> QED
        BY <3>4, <3>5
    <2> QED
      BY <2>1, <2>2
  <1>6. NewestInv'
    <2>1. \A i \in DOMAIN backlog' : backlog'[i] = hostConn' => i = Len(backlog')
      BY <1>1, <1>2 DEF LinksInv, NewestInv
    <2>2. CASE socket # None
      <3>1. socket' = socket
        BY <1>1, <2>2 DEF Serve
      <3>2. ~(hostConn = socket)
        BY <1>1, <2>2 DEF LinksInv, NewestInv
      <3> QED
        BY <2>1, <3>1, <3>2 DEF NewestInv
    <2>3. CASE socket = None
      <3>1. socket' = c
        BY <1>1, <2>3 DEF Serve
      <3>2. c = hostConn => Len(backlog) = 1
        BY <1>1 DEF LinksInv, NewestInv
      <3>3. c = hostConn => backlog' = <<>>
        BY <1>1, <1>2, <3>2
      <3> QED
        BY <2>1, <3>1, <3>3 DEF NewestInv
    <2> QED
      BY <2>2, <2>3
  <1>7. SessionInv'
    <2>1. \A d \in Conn : Elems(toDevice'[d]) \subseteq Elems(toDevice[d])
      BY <1>1, CloseKeepsOrClears DEF Elems, Serve
    <2> QED
      BY <2>1, SessionKept, LineIsConn DEF LinksInv, HostTypeOK
  <1> QED
    BY <1>4, <1>5, <1>6, <1>7 DEF LinksInv
LEMMA LinksSend ==
    ASSUME ServerInv, HostTypeOK, LinksInv, NEW r \in Requests, r.session = session, Send(r),
           UNCHANGED <<hostConn, session>>
    PROVE  LinksInv'
  <1>1. CASE UNCHANGED toDevice
    BY <1>1, LinksStutter DEF Send, tcpVars, linkVars
  <1>2. CASE ~UNCHANGED toDevice
    <2>1. /\ hostConn \in Conn /\ Arrives(hostConn)
          /\ toDevice' = [toDevice EXCEPT ![hostConn] = @ \o Pieces(r)]
          /\ UNCHANGED <<listening, socket, backlog, conn, peer, toHost, transport, port>>
      BY <1>2 DEF Send, HostTypeOK, HostConnOK
    <2>2. toDevice \in [Conn -> Seq(Piece)]
      BY DEF HostTypeOK
    <2>3. TransportInv'
      <3>1. hostConn = Line => port
        BY <2>1 DEF Arrives
      <3>2. hostConn # Line => toDevice'[Line] = toDevice[Line]
        BY <2>1, <2>2, LineIsConn
      <3> QED
        BY <2>1, <3>1, <3>2 DEF LinksInv, TransportInv
    <2>4. EndsInv'
      <3> SUFFICES ASSUME NEW c \in Conn \ {Line} PROVE EndOK(c)'
        BY DEF EndsInv
      <3>1. EndOK(c)
        BY DEF LinksInv, EndsInv
      <3>2. c = hostConn => conn[c] \in {"pending", "accepted"}
        BY <2>1 DEF Arrives
      <3>3. c # hostConn => toDevice'[c] = toDevice[c]
        BY <2>1, <2>2
      <3> QED
        BY <2>1, <3>1, <3>2, <3>3 DEF EndOK
    <2>5. NewestInv'
      BY <2>1 DEF LinksInv, NewestInv
    <2>6. SessionInv'
      <3>1. /\ toDevice[hostConn] \in Seq(Piece) /\ Pieces(r) \in Seq(Piece)
            /\ \A p \in Elems(Pieces(r)) : p.req.session = session
        BY <2>1, <2>2, PiecesAre
      <3>2. toDevice'[hostConn] = toDevice[hostConn] \o Pieces(r)
        BY <2>1, <2>2
      <3>3. Elems(toDevice'[hostConn]) = Elems(toDevice[hostConn]) \cup Elems(Pieces(r))
        BY <3>1, <3>2, ElemsOfConcat
      <3>4. \A p \in Elems(toDevice'[hostConn]) : p.req.session = session
        BY <2>1, <3>1, <3>3, NoneIsNoConn DEF LinksInv, SessionInv
      <3>5. Line # hostConn => toDevice'[Line] = toDevice[Line]
        BY <2>1, <2>2, LineIsConn
      <3> QED
        BY <2>1, <3>4, <3>5, LineIsConn, NoneIsNoConn DEF LinksInv, SessionInv
    <2> QED
      BY <2>3, <2>4, <2>5, <2>6 DEF LinksInv
  <1> QED
    BY <1>1, <1>2

LEMMA LinksConnect ==
    ASSUME ServerInv, HostTypeOK, LinksInv, Connect
    PROVE  LinksInv'
  <1>1. /\ hostConn = None /\ UNCHANGED <<listening, socket, peer, toDevice, transport, port>>
        /\ UNCHANGED session
    BY DEF Connect
  <1>2. CASE ConnectTcp
    <2> DEFINE c == CHOOSE u \in Unused : TRUE
    <2>1. c \in Conn /\ c # Line /\ conn[c] = "unused"
      BY <1>2 DEF ConnectTcp, Unused
    <2>2. /\ conn' = [conn EXCEPT ![c] = "pending"] /\ backlog' = Append(backlog, c)
          /\ hostConn' = c /\ listening /\ UNCHANGED toHost
      BY <1>2 DEF ConnectTcp
    <2> HIDE DEF c
    <2>3. /\ backlog \in Seq(Conn) /\ conn \in [Conn -> ConnStates]
          /\ \A i \in DOMAIN backlog : conn[backlog[i]] = "pending"
          /\ socket # None => conn[socket] = "accepted"
      BY DEF ServerInv, TcpTypeOK, BacklogInv, OneHost
    <2>4. /\ Len(backlog) \in Nat /\ DOMAIN backlog = 1..Len(backlog)
          /\ DOMAIN backlog' = 1..(Len(backlog) + 1) /\ Len(backlog') = Len(backlog) + 1
          /\ backlog'[Len(backlog) + 1] = c
          /\ \A i \in DOMAIN backlog : backlog'[i] = backlog[i]
      BY <2>1, <2>2, <2>3
    <2>5. c \in Elems(backlog') /\ Elems(backlog) \subseteq Elems(backlog')
      BY <2>4 DEF Elems
    <2>6. EndsInv'
      <3> SUFFICES ASSUME NEW d \in Conn \ {Line} PROVE EndOK(d)'
        BY DEF EndsInv
      <3>1. EndOK(d) /\ EndOK(c)
        BY <2>1 DEF LinksInv, EndsInv
      <3>2. CASE d = c
        BY <1>1, <2>1, <2>2, <2>3, <2>5, <3>1, <3>2 DEF EndOK
      <3>3. CASE d # c
        BY <1>1, <2>1, <2>2, <2>3, <2>5, <3>1, <3>3 DEF EndOK
      <3> QED
        BY <3>2, <3>3
    <2>7. NewestInv'
      <3>1. socket # c \/ socket = None
        BY <2>1, <2>3
      <3>2. \A i \in DOMAIN backlog' : backlog'[i] = c => i = Len(backlog')
        BY <2>1, <2>3, <2>4
      <3> QED
        BY <1>1, <2>1, <2>2, <3>1, <3>2, NoneIsNoConn DEF NewestInv
    <2>8. SessionInv'
      <3>1. toDevice[c] = <<>>
        BY <2>1 DEF LinksInv, EndsInv, EndOK
      <3>2. Elems(toDevice[c]) = {}
        BY <3>1 DEF Elems
      <3> QED
        BY <1>1, <2>2, <3>2, LineIsConn, NoneIsNoConn DEF LinksInv, SessionInv
    <2>9. TransportInv'
      BY <1>1, <2>2 DEF LinksInv, TransportInv
    <2> QED
      BY <2>6, <2>7, <2>8, <2>9 DEF LinksInv
  <1>3. CASE OpenLine
    <2>1. /\ hostConn' = Line /\ toHost' = [toHost EXCEPT ![Line] = <<>>]
          /\ UNCHANGED <<conn, backlog>>
      BY <1>3 DEF OpenLine
    <2>2. Line # None /\ socket # Line /\ \A i \in DOMAIN backlog : backlog[i] # Line
      BY LineIsConn, NoneIsNoConn DEF ServerInv, TcpTypeOK, BacklogInv, OneHost
    <2>3. TransportInv' /\ NewestInv'
      BY <1>1, <2>1, <2>2 DEF LinksInv, TransportInv, NewestInv
    <2>4. EndsInv'
      BY <1>1, <2>1 DEF LinksInv, EndsInv, EndOK
    <2>5. SessionInv'
      BY <1>1, <2>1, <2>2 DEF LinksInv, SessionInv
    <2> QED
      BY <2>3, <2>4, <2>5 DEF LinksInv
  <1> QED
    BY <1>2, <1>3 DEF Connect
LEMMA LinksReceive ==
    ASSUME ServerInv, HostTypeOK, LinksInv, Receive
    PROVE  LinksInv'
  <1>1. /\ hostConn # None /\ toHost[hostConn] # <<>>
        /\ toHost' = [toHost EXCEPT ![hostConn] = Tail(@)]
        /\ UNCHANGED <<listening, socket, backlog, conn, peer, toDevice, transport, port,
                       hostConn, session>>
    BY DEF Receive
  <1>2. EndsInv'
    BY <1>1 DEF LinksInv, EndsInv, EndOK
  <1> QED
    BY <1>1, <1>2 DEF LinksInv, TransportInv, NewestInv, SessionInv

LEMMA LinksReconnect ==
    ASSUME ServerInv, HostTypeOK, AnswerTypeOK, LinksInv, Reconnect
    PROVE  LinksInv'
  <1>1. /\ hostConn # None /\ hostConn' = None
        /\ UNCHANGED <<listening, socket, backlog, transport, port, session, peer, toDevice>>
    BY DEF Reconnect, linkVars
  <1>2. TransportInv' /\ NewestInv'
    <2>1. \A i \in DOMAIN backlog : backlog[i] # None
      BY NoneIsNoConn DEF ServerInv, TcpTypeOK
    <2> QED
      BY <1>1, <2>1 DEF LinksInv, TransportInv, NewestInv
  <1>3. SessionInv'
    BY <1>1 DEF LinksInv, SessionInv
  <1>4. EndsInv'
    <2> SUFFICES ASSUME NEW c \in Conn \ {Line} PROVE EndOK(c)'
      BY DEF EndsInv
    <2>1. EndOK(c) /\ c # None
      BY NoneIsNoConn DEF LinksInv, EndsInv
    <2>2. CASE hostConn = Line
      <3>1. UNCHANGED <<conn, toHost>>
        BY <2>2 DEF Reconnect, linkVars
      <3> QED
        BY <1>1, <2>1, <3>1 DEF EndOK
    <2>3. CASE hostConn # Line
      <3>1. /\ conn[hostConn] = "closed" /\ conn' = [conn EXCEPT ![hostConn] = "unused"]
            /\ toHost' = [toHost EXCEPT ![hostConn] = <<>>]
        BY <2>3 DEF Reconnect
      <3> QED
        <4>1. CASE c = hostConn
          <5>3. peer[c] = "up"
            BY <2>1, <3>1, <4>1 DEF EndOK
          <5>4. conn \in [Conn -> ConnStates]
            BY DEF ServerInv, TcpTypeOK
          <5>5. conn'[c] = "unused" /\ conn[c] = "closed"
            BY <3>1, <4>1, <5>4
          <5>6. toHost'[c] = <<>>
            BY <3>1, <4>1 DEF AnswerTypeOK
          <5> QED
            BY <1>1, <2>1, <5>3, <5>5, <5>6 DEF EndOK
        <4>2. CASE c # hostConn
          <5>1. conn'[c] = conn[c] /\ (toHost[c] = <<>> => toHost'[c] = <<>>)
            BY <3>1, <4>2 DEF ServerInv, TcpTypeOK
          <5> QED
            BY <1>1, <2>1, <5>1 DEF EndOK
        <4> QED
          BY <4>1, <4>2
    <2> QED
      BY <2>2, <2>3
  <1> QED
    BY <1>2, <1>3, <1>4 DEF LinksInv

(* The host leaves: what it sent last may be lost. *)
LEMMA BreakIs ==
    ASSUME HostTypeOK, NEW how, Break(how)
    PROVE  /\ hostConn \in Conn /\ hostConn # Line /\ conn[hostConn] \in {"pending", "accepted"}
           /\ \A c \in Conn : c # hostConn => /\ toDevice'[c] = toDevice[c]
                                              /\ peer'[c] = peer[c]
           /\ \A c \in Conn : Thins(toDevice'[c], toDevice[c])
           /\ \A c \in Conn : toHost[c] = <<>> => toHost'[c] = <<>>
  <1>1. /\ hostConn \in Conn /\ hostConn # Line /\ conn[hostConn] \in {"pending", "accepted"}
        /\ peer' = [peer EXCEPT ![hostConn] = how]
        /\ toHost' = [toHost EXCEPT ![hostConn] = <<>>]
    BY DEF Break, HostTypeOK, HostConnOK
  <1>2. PICK n \in 0..Len(toDevice[hostConn]) :
           toDevice' = [toDevice EXCEPT ![hostConn] = SubSeq(@, 1, n)]
    BY DEF Break
  <1>3. toDevice \in [Conn -> Seq(Piece)] /\ toDevice[hostConn] \in Seq(Piece)
    BY <1>1 DEF HostTypeOK
  <1>4. 1 \in 1..(Len(toDevice[hostConn]) + 1)
    BY <1>3
  <1>5. Thins(SubSeq(toDevice[hostConn], 1, n), toDevice[hostConn])
    BY <1>3, <1>4, SubSeqThins
  <1>6. \A c \in Conn : Thins(toDevice'[c], toDevice[c])
    BY <1>1, <1>2, <1>3, <1>5, ThinsItself
  <1>7. \A c \in Conn : c # hostConn => toDevice'[c] = toDevice[c]
    BY <1>2, <1>3
  <1>8. \A c \in Conn : c # hostConn => peer'[c] = peer[c]
    BY <1>1
  <1>9. \A c \in Conn : toHost[c] = <<>> => toHost'[c] = <<>>
    BY <1>1
  <1> QED
    BY <1>1, <1>6, <1>7, <1>8, <1>9

LEMMA EmptyElems == \A s : Elems(s) = {} <=> DOMAIN s = {}
  BY DEF Elems

LEMMA LinksBreak ==
    ASSUME ServerInv, HostTypeOK, LinksInv, NEW how, Break(how), hostConn' = None,
           UNCHANGED <<listening, socket, backlog, transport, port>>,
           session' = session \/ toDevice[Line] = <<>>
    PROVE  LinksInv'
  <1>1. conn' = conn
    BY DEF Break
  <1>2. toDevice'[Line] = toDevice[Line]
    BY BreakIs, LineIsConn
  <1>3. TransportInv' /\ NewestInv'
    <2>1. \A i \in DOMAIN backlog : backlog[i] # None
      BY NoneIsNoConn DEF ServerInv, TcpTypeOK
    <2> QED
      BY <1>2, <2>1 DEF LinksInv, TransportInv, NewestInv
  <1>4. EndsInv'
    <2> SUFFICES ASSUME NEW c \in Conn \ {Line} PROVE EndOK(c)'
      BY DEF EndsInv
    <2>1. EndOK(c) /\ c # None
      BY NoneIsNoConn DEF LinksInv, EndsInv
    <2>2. CASE c = hostConn
      BY <1>1, <2>1, <2>2, BreakIs DEF EndOK
    <2>3. CASE c # hostConn
      BY <1>1, <2>1, <2>3, BreakIs DEF EndOK
    <2> QED
      BY <2>2, <2>3
  <1>5. SessionInv'
    <2>1. CASE session' = session
      BY <1>2, <2>1 DEF LinksInv, SessionInv
    <2>2. CASE toDevice[Line] = <<>>
      BY <1>2, <2>2 DEF SessionInv, Elems
    <2> QED
      BY <2>1, <2>2
  <1> QED
    BY <1>3, <1>4, <1>5 DEF LinksInv

LEMMA LinksRestart ==
    ASSUME ServerInv, HostTypeOK, LinksInv, HostRestarts
    PROVE  LinksInv'
  <1>1. /\ hostConn' = None /\ toDevice[Line] = <<>>
        /\ UNCHANGED <<listening, socket, backlog, transport, port>>
    BY DEF HostRestarts
  <1>2. CASE Break("closed")
    BY <1>1, <1>2, LinksBreak
  <1>3. CASE UNCHANGED linkVars
    <2>1. UNCHANGED <<conn, peer, toDevice, toHost>>
      BY <1>3 DEF linkVars
    <2>2. TransportInv'
      BY <1>1, <2>1 DEF LinksInv, TransportInv
    <2>3. EndsInv'
      BY <1>1, <2>1, NoneIsNoConn DEF LinksInv, EndsInv, EndOK
    <2>4. NewestInv'
      BY <1>1, NoneIsNoConn DEF ServerInv, TcpTypeOK, NewestInv
    <2>5. SessionInv'
      BY <1>1, <2>1 DEF SessionInv, Elems
    <2> QED
      BY <2>2, <2>3, <2>4, <2>5 DEF LinksInv
  <1> QED
    BY <1>2, <1>3 DEF HostRestarts

(* What only thins what is sent to the device changes no link. *)
LEMMA LinksThin ==
    ASSUME ServerInv, HostTypeOK, LinksInv, NEW e \in Conn, NEW s,
           toDevice' = [toDevice EXCEPT ![e] = s], Thins(s, toDevice[e]),
           toDevice[e] # <<>>,
           UNCHANGED <<listening, socket, backlog, conn, peer, toHost, transport, port,
                       hostConn, session>>
    PROVE  LinksInv'
  <1>1. /\ \A c \in Conn : toDevice[c] = <<>> => toDevice'[c] = <<>>
        /\ \A c \in Conn : Thins(toDevice'[c], toDevice[c])
    BY ThinsItself DEF HostTypeOK
  <1>2. TransportInv'
    BY <1>1, LineIsConn DEF LinksInv, TransportInv
  <1>3. EndsInv'
    BY <1>1 DEF LinksInv, EndsInv, EndOK
  <1>4. SessionInv'
    BY <1>1, SessionKept, LineIsConn DEF LinksInv, HostTypeOK, Thins
  <1> QED
    BY <1>2, <1>3, <1>4 DEF LinksInv, NewestInv

LEMMA DropIs ==
    ASSUME HostTypeOK, Drop
    PROVE  \E s \in Seq(Piece) : /\ toDevice' = [toDevice EXCEPT ![Line] = s]
                                 /\ Thins(s, toDevice[Line]) /\ toDevice[Line] # <<>>
  <1>1. PICK n \in DOMAIN toDevice[Line] :
           toDevice' = [toDevice EXCEPT ![Line] =
                           SubSeq(@, 1, n - 1) \o SubSeq(@, n + 1, Len(@))]
    BY DEF Drop
  <1>2. toDevice[Line] \in Seq(Piece)
    BY LineIsConn DEF HostTypeOK
  <1> DEFINE s == SubSeq(toDevice[Line], 1, n - 1)
                     \o SubSeq(toDevice[Line], n + 1, Len(toDevice[Line]))
  <1>3. s \in Seq(Piece) /\ Thins(s, toDevice[Line])
    BY <1>2, DropThins
  <1>4. toDevice' = [toDevice EXCEPT ![Line] = s]
    BY <1>1
  <1> HIDE DEF s
  <1>5. toDevice[Line] # <<>>
    BY <1>1, <1>2
  <1> QED
    BY <1>3, <1>4, <1>5

LEMMA ReadIs ==
    ASSUME ServerInv, HostTypeOK, Read
    PROVE  /\ Endpoint \in Conn /\ toDevice[Endpoint] \in Seq(Piece)
           /\ \E n \in 1..Len(toDevice[Endpoint]) :
                LET s == toDevice[Endpoint]
                    p == SubSeq(s, 1, n)
                    q == SubSeq(s, n + 1, Len(s))
                IN  /\ p \in Seq(Piece) /\ Thins(p, s)
                    /\ q \in Seq(Piece) /\ Thins(q, s)
                    /\ buffer' = buffer \o p /\ toDevice' = [toDevice EXCEPT ![Endpoint] = q]
                    /\ Ordered(s) => Flows(p, q)
  <1>1. Endpoint \in Conn
    BY EndpointIs DEF Read
  <1> DEFINE s == toDevice[Endpoint]
  <1>2. s \in Seq(Piece)
    BY <1>1 DEF HostTypeOK
  <1>3. PICK n \in 1..Len(s) :
           /\ buffer' = buffer \o SubSeq(s, 1, n)
           /\ toDevice' = [toDevice EXCEPT ![Endpoint] = SubSeq(@, n + 1, Len(@))]
    BY DEF Read
  <1>4. toDevice' = [toDevice EXCEPT ![Endpoint] = SubSeq(s, n + 1, Len(s))]
    BY <1>3
  <1> HIDE DEF s
  <1>5. /\ n \in 0..Len(s) /\ n + 1 \in 1..(Len(s) + 1) /\ Len(s) \in 0..Len(s) /\ n < n + 1
        /\ 1 \in 1..(Len(s) + 1)
    BY <1>2, <1>3
  <1>6. /\ SubSeq(s, 1, n) \in Seq(Piece) /\ SubSeq(s, n + 1, Len(s)) \in Seq(Piece)
        /\ Thins(SubSeq(s, 1, n), s) /\ Thins(SubSeq(s, n + 1, Len(s)), s)
    BY <1>2, <1>5, SubSeqIs, SubSeqThins
  <1>7. Ordered(s) => Flows(SubSeq(s, 1, n), SubSeq(s, n + 1, Len(s)))
    BY <1>2, <1>5, EndsFlow
  <1> QED
    BY <1>1, <1>2, <1>3, <1>4, <1>6, <1>7 DEF s
LEMMA LinksTransmit ==
    ASSUME ServerInv, HostTypeOK, AnswerTypeOK, LinksInv, NEW m, Transmit(m),
           UNCHANGED <<transport, port, hostConn, session>>
    PROVE  LinksInv'
  <1>1. socket # None => socket \in Conn /\ conn[socket] = "accepted" /\ socket # Line
    BY DEF ServerInv, OneHost, TcpTypeOK
  <1>2. CASE UNCHANGED tcpVars
    BY <1>2, LinksStutter
  <1>3. ASSUME NEW c \in Conn, c = Line \/ conn[c] = "accepted",
               toHost' = [toHost EXCEPT ![c] = Append(@, m)],
               UNCHANGED <<listening, socket, backlog, conn, peer, toDevice>>
        PROVE  LinksInv'
    <2>1. EndsInv'
      <3> SUFFICES ASSUME NEW d \in Conn \ {Line} PROVE EndOK(d)'
        BY DEF EndsInv
      <3>1. conn[d] = "unused" => toHost'[d] = toHost[d]
        BY <1>3 DEF AnswerTypeOK
      <3> QED
        BY <1>3, <3>1 DEF LinksInv, EndsInv, EndOK
    <2> QED
      BY <1>3, <2>1 DEF LinksInv, TransportInv, NewestInv, SessionInv
  <1>4. CASE /\ socket # None /\ peer[socket] # "up"
             /\ peer' = [peer EXCEPT ![socket] = "closed"]
             /\ UNCHANGED <<listening, socket, backlog, conn, toDevice, toHost>>
    <2>1. EndsInv'
      <3> SUFFICES ASSUME NEW d \in Conn \ {Line} PROVE EndOK(d)'
        BY DEF EndsInv
      <3>1. EndOK(d)
        BY DEF LinksInv, EndsInv
      <3>2. peer'[d] # "up" => peer[d] # "up"
        BY <1>4
      <3> QED
        BY <1>4, <3>1, <3>2 DEF EndOK
    <2> QED
      BY <1>4, <2>1 DEF LinksInv, TransportInv, NewestInv, SessionInv
  <1>5. CASE socket # None /\ DiscardSocket(socket)
    BY <1>1, <1>5, LinksDiscard
  <1> QED
    BY <1>1, <1>2, <1>3, <1>4, <1>5, LineIsConn DEF Transmit, SendBytes, tcpVars, linkVars

LEMMA LinksStep ==
    ServerInv /\ HostTypeOK /\ AnswerTypeOK /\ LinksInv /\ [Next]_vars => LinksInv'
  <1> SUFFICES ASSUME ServerInv, HostTypeOK, AnswerTypeOK, LinksInv, [Next]_vars
               PROVE  LinksInv'
    OBVIOUS
  <1>1. CASE NewRequest
    BY <1>1, NextIs, LinksSend DEF NewRequest
  <1>2. CASE Retry
    BY <1>2, CurrentIs, LinksSend DEF Retry, hostVars, HostTypeOK
  <1>3. CASE Receive
    BY <1>3, LinksReceive
  <1>4. CASE Connect
    BY <1>4, LinksConnect
  <1>5. CASE Reconnect
    BY <1>5, LinksReconnect
  <1>6. CASE Lose
    BY <1>6, LinksBreak DEF Lose
  <1>7. CASE Drop
    <2>1. PICK s \in Seq(Piece) : /\ toDevice' = [toDevice EXCEPT ![Line] = s]
                                  /\ Thins(s, toDevice[Line]) /\ toDevice[Line] # <<>>
      BY <1>7, DropIs
    <2>2. UNCHANGED <<listening, socket, backlog, conn, peer, toHost, transport, port,
                      hostConn, session>>
      BY <1>7 DEF Drop, hostVars
    <2> QED
      BY <2>1, <2>2, LinksThin, LineIsConn
  <1>8. CASE HostRestarts
    BY <1>8, LinksRestart
  <1>9. CASE Click
    <2>1. PICK kind \in Kinds : StartTransport(kind)
      BY <1>9 DEF Click
    <2>2. \A c \in Conn : conn[c] = "pending" => c \in Held \cup {Line}
      BY DEF Held
    <2>3. /\ transport' # "Tcp" => ~listening'
          /\ transport' # "Serial" => ~port'
          /\ socket' = None /\ backlog' = <<>> /\ Close(Held \cup {Line})
      BY <2>1 DEF StartTransport
    <2>4. Line \in Held \cup {Line} /\ UNCHANGED <<hostConn, session>>
      BY <1>9 DEF Click, hostVars
    <2> DEFINE S == Held \cup {Line}
    <2>5. /\ Close(S) /\ Line \in S /\ \A c \in Conn : conn[c] = "pending" => c \in S
      BY <2>2, <2>3, <2>4
    <2>6. UNCHANGED hostConn /\ UNCHANGED session
      BY <2>4
    <2> HIDE DEF S
    <2> QED
      BY <2>3, <2>5, <2>6, LinksClosing
  <1>10. CASE JobEnds
    BY <1>10, LinksStutter DEF JobEnds, Notify, hostVars
  <1>11. CASE Worker /\ UNCHANGED <<hostVars, events>>
    <2>1. UNCHANGED <<hostConn, session>>
      BY <1>11 DEF hostVars
    <2>2. CASE Read
      <3>1. /\ Endpoint \in Conn
            /\ \E q \in Seq(Piece) : /\ Thins(q, toDevice[Endpoint])
                                     /\ toDevice' = [toDevice EXCEPT ![Endpoint] = q]
        BY <2>2, ReadIs
      <3>2. PICK q \in Seq(Piece) : /\ Thins(q, toDevice[Endpoint])
                                    /\ toDevice' = [toDevice EXCEPT ![Endpoint] = q]
        BY <3>1
      <3>3. toDevice[Endpoint] # <<>>
        BY <2>2, ReadIs
      <3> HIDE DEF Endpoint
      <3>4. UNCHANGED <<listening, socket, backlog, conn, peer, toHost, transport, port>>
        BY <2>2 DEF Read
      <3> QED
        BY <2>1, <3>1, <3>2, <3>3, <3>4, LinksThin
    <2>3. CASE Accept
      BY <2>1, <2>3, LinksAccept
    <2>4. CASE \E c \in Conn : Discard(c)
      BY <2>1, <2>4, LinksDiscard DEF Discard, Disconnected
    <2>5. CASE Tx
      BY <2>1, <2>5, LinksTransmit DEF Tx
    <2>6. CASE ParseMessage \/ ParseSkip \/ ParseEnds \/ TxEnds
      BY <2>1, <2>6, LinksStutter DEF ParseMessage, ParseSkip, ParseEnds, TxEnds
    <2>7. CASE Relaunch
      BY <2>1, <2>7, LinksClosing, LineIsConn DEF Relaunch
    <2> QED
      BY <1>11, <2>2, <2>3, <2>4, <2>5, <2>6, <2>7 DEF Worker, Slot, Running
  <1>12. CASE UNCHANGED vars
    BY <1>12, LinksStutter DEF vars, workerVars, hostVars
  <1> QED
    BY <1>1, <1>2, <1>3, <1>4, <1>5, <1>6, <1>7, <1>8, <1>9, <1>10, <1>11, <1>12
       DEF Next, Host
-----------------------------------------------------------------------------
(* The order of what is on its way to the firmware, step by step. *)
LEMMA PipeIs ==
    ASSUME HostTypeOK
    PROVE  /\ \A p \in InPipe : /\ p \in Piece /\ p.req \in Requests
                                /\ p.req.session \in Nat /\ p.req.txid \in Nat \ {0}
           /\ Elems(buffer) \subseteq InPipe
           /\ \A c \in Conn : Elems(toDevice[c]) \subseteq InPipe
  <1>1. \A p \in Elems(buffer) : p \in Piece
    BY DEF HostTypeOK, Elems
  <1>2. \A c \in Conn : \A p \in Elems(toDevice[c]) : p \in Piece
    BY DEF HostTypeOK, Elems
  <1>3. \A p \in InPipe : p \in Piece
    BY <1>1, <1>2 DEF InPipe
  <1>4. \A p \in Piece : p.req \in Requests
    BY DEF Piece
  <1>5. \A r \in Requests : r.session \in Nat /\ r.txid \in Nat \ {0}
    BY RequestIs, ConnectionsAssumption
  <1> QED
    BY <1>3, <1>4, <1>5 DEF InPipe

LEMMA OrderThins ==
    ASSUME OrderInv, Thins(buffer', buffer),
           \A c \in Conn : Thins(toDevice'[c], toDevice[c]),
           \A c, d \in Conn : Ahead(c, d)' => Ahead(c, d) \/ Elems(toDevice[d]) = {},
           \A p \in InPipe : Sent(p.req) => Sent(p.req)'
    PROVE  OrderInv' /\ InPipe' \subseteq InPipe
  <1>1. Elems(buffer') \subseteq Elems(buffer) /\ Ordered(buffer')
    BY DEF OrderInv, Thins
  <1>2. \A c \in Conn : Elems(toDevice'[c]) \subseteq Elems(toDevice[c]) /\ Ordered(toDevice'[c])
    BY DEF OrderInv, Thins
  <1>3. InPipe' \subseteq InPipe
    BY <1>1, <1>2 DEF InPipe
  <1>4. \A p \in InPipe' : Sent(p.req)'
    BY <1>3 DEF OrderInv
  <1>5. \A c \in Conn : Flows(buffer, toDevice[c])'
    BY <1>1, <1>2 DEF OrderInv, Flows
  <1>6. \A c, d \in Conn : Ahead(c, d)' => Flows(toDevice[c], toDevice[d])'
    BY <1>2 DEF OrderInv, Flows
  <1> QED
    BY <1>1, <1>2, <1>3, <1>4, <1>5, <1>6 DEF OrderInv

(* What a host sends comes behind all that is on its way. *)
LEMMA OrderSend ==
    ASSUME ServerInv, HostTypeOK, LinksInv, OrderInv, NEW r \in Requests, Send(r),
           \A p \in InPipe : Follows(p.req, r) /\ Sent(p.req)', Sent(r)'
    PROVE  OrderInv' /\ InPipe' \subseteq InPipe \cup Elems(Pieces(r))
  <1>1. UNCHANGED <<buffer, socket, backlog>>
    BY DEF Send, firmwareVars
  <1>2. \A c, d \in Conn : Ahead(c, d)' <=> Ahead(c, d)
    BY <1>1 DEF Ahead
  <1>3. CASE UNCHANGED toDevice
    <2>1. UNCHANGED InPipe
      BY <1>1, <1>3 DEF InPipe
    <2> QED
      BY <1>1, <1>2, <1>3, <2>1 DEF OrderInv
  <1>4. CASE toDevice' = [toDevice EXCEPT ![hostConn] = @ \o Pieces(r)]
    <2>1. hostConn \in Conn /\ toDevice \in [Conn -> Seq(Piece)]
      BY DEF Send, HostTypeOK, HostConnOK
    <2> DEFINE s == toDevice[hostConn]
    <2>2. /\ s \in Seq(Piece) /\ Pieces(r) \in Seq(Piece) /\ Ordered(Pieces(r))
          /\ \A p \in Elems(Pieces(r)) : p.req = r
      BY <2>1, PiecesAre
    <2>3. /\ toDevice'[hostConn] = s \o Pieces(r)
          /\ Elems(s \o Pieces(r)) = Elems(s) \cup Elems(Pieces(r))
      BY <1>4, <2>1, <2>2, ElemsOfConcat
    <2>4. \A c \in Conn : c # hostConn => toDevice'[c] = toDevice[c]
      BY <1>4, <2>1
    <2>5. \A c \in Conn : Elems(toDevice[c]) \subseteq InPipe
      BY DEF InPipe
    <2>6. InPipe' \subseteq InPipe \cup Elems(Pieces(r))
      BY <1>1, <2>1, <2>3, <2>4 DEF InPipe
    <2>7. \A c \in Conn : Ordered(toDevice[c])'
      <3>1. Flows(s, Pieces(r))
        BY <2>1, <2>2, <2>5 DEF Flows
      <3>2. Ordered(s \o Pieces(r))
        BY <2>1, <2>2, <3>1, OrderedConcat DEF OrderInv
      <3> QED
        BY <2>3, <2>4, <3>2 DEF OrderInv
    <2>8. \A c \in Conn : Flows(buffer, toDevice[c])'
      <3>1. \A p \in Elems(buffer) : Follows(p.req, r)
        BY DEF InPipe
      <3> QED
        BY <1>1, <2>1, <2>2, <2>3, <2>4, <3>1 DEF OrderInv, Flows
    <2>9. ASSUME NEW c \in Conn, NEW d \in Conn, Ahead(c, d)
          PROVE  Flows(toDevice[c], toDevice[d])'
      <3>1. c # hostConn
        BY <2>1, <2>9, NoneIsNoConn
           DEF Ahead, LinksInv, NewestInv, ServerInv, TcpTypeOK, Elems
      <3>2. Flows(toDevice[c], toDevice[d]) /\ toDevice'[c] = toDevice[c]
        BY <2>4, <2>9, <3>1 DEF OrderInv
      <3>3. \A p \in Elems(toDevice[c]) : Follows(p.req, r)
        BY <2>5
      <3> QED
        BY <2>2, <2>3, <2>4, <3>2, <3>3 DEF Flows
    <2>10. \A p \in InPipe' : Sent(p.req)'
      BY <2>2, <2>6
    <2> QED
      BY <1>1, <1>2, <2>6, <2>7, <2>8, <2>9, <2>10 DEF OrderInv
  <1> QED
    BY <1>3, <1>4 DEF Send

(* Behind a connection the server reads, there are only those it queued. *)
LEMMA OnlyReader ==
    ASSUME ServerInv, HostTypeOK, LinksInv, NEW e \in Conn, e = Endpoint,
           NEW c \in Conn, c # e, toDevice[c] # <<>>
    PROVE  Ahead(e, c)
  <1>1. CASE transport = "Tcp"
    <2>1. e = socket
      BY <1>1 DEF Endpoint
    <2>2. c # Line
      BY <1>1 DEF LinksInv, TransportInv
    <2>3. conn[c] \in {"pending", "accepted"}
      BY <2>2 DEF LinksInv, EndsInv, EndOK, ServerInv, TcpTypeOK, ConnStates
    <2>4. conn[c] # "accepted"
      BY <2>1 DEF ServerInv, OneHost
    <2>5. c \in Elems(backlog)
      BY <2>2, <2>3, <2>4 DEF LinksInv, EndsInv, EndOK
    <2> QED
      BY <2>1, <2>5 DEF Ahead
  <1>2. CASE transport # "Tcp"
    <2>1. socket = None /\ backlog = <<>>
      BY <1>2 DEF LinksInv, TransportInv
    <2>2. e = Line
      BY <1>2, NoneIsNoConn DEF Endpoint
    <2>3. conn[c] \in {"pending", "accepted"}
      BY <2>2 DEF LinksInv, EndsInv, EndOK, ServerInv, TcpTypeOK, ConnStates
    <2>4. conn[c] = "pending" => c \in Elems(backlog)
      BY <2>2 DEF LinksInv, EndsInv, EndOK
    <2>5. conn[c] = "accepted" => c = socket
      BY DEF ServerInv, OneHost
    <2> QED
      BY <2>1, <2>3, <2>4, <2>5, NoneIsNoConn DEF Elems
  <1> QED
    BY <1>1, <1>2

LEMMA OrderRead ==
    ASSUME ServerInv, HostTypeOK, LinksInv, OrderInv, Read,
           UNCHANGED <<session, number>>
    PROVE  OrderInv' /\ InPipe' \subseteq InPipe
  <1> DEFINE e == Endpoint
             s == toDevice[e]
  <1>1. /\ e \in Conn /\ s \in Seq(Piece)
        /\ \E p, q \in Seq(Piece) :
             /\ Thins(p, s) /\ Thins(q, s) /\ buffer' = buffer \o p
             /\ toDevice' = [toDevice EXCEPT ![e] = q] /\ (Ordered(s) => Flows(p, q))
    BY ReadIs
  <1>2. PICK p, q \in Seq(Piece) :
             /\ Thins(p, s) /\ Thins(q, s) /\ buffer' = buffer \o p
             /\ toDevice' = [toDevice EXCEPT ![e] = q] /\ (Ordered(s) => Flows(p, q))
    BY <1>1
  <1>3. \A c \in Conn : c # e /\ toDevice[c] # <<>> => Ahead(e, c)
    BY <1>1, OnlyReader
  <1>4. UNCHANGED <<socket, backlog>>
    BY DEF Read
  <1> HIDE DEF e
  <1>5. toDevice'[e] = q /\ \A c \in Conn : c # e => toDevice'[c] = toDevice[c]
    BY <1>1, <1>2 DEF HostTypeOK
  <1> HIDE DEF s
  <1>6. /\ Elems(p) \subseteq Elems(s) /\ Ordered(p) /\ Elems(q) \subseteq Elems(s)
        /\ Ordered(q) /\ Flows(p, q)
    BY <1>1, <1>2 DEF OrderInv, Thins, s
  <1>7. buffer \in Seq(Piece) /\ Elems(buffer') = Elems(buffer) \cup Elems(p)
    BY <1>2, ElemsOfConcat DEF HostTypeOK
  <1>8. InPipe' \subseteq InPipe
    <2>1. \A c \in Conn : Elems(toDevice'[c]) \subseteq Elems(toDevice[c])
      BY <1>5, <1>6 DEF s
    <2>2. Elems(buffer') \subseteq Elems(buffer) \cup Elems(toDevice[e])
      BY <1>6, <1>7 DEF s
    <2> QED
      BY <1>1, <2>1, <2>2 DEF InPipe
  <1>9. \A r \in InPipe' : Sent(r.req)'
    BY <1>8 DEF OrderInv, Sent
  <1>10. Ordered(buffer')
    <2>1. Flows(buffer, p)
      BY <1>1, <1>6 DEF OrderInv, Flows, s
    <2> QED
      BY <1>2, <1>6, <1>7, <2>1, OrderedConcat DEF OrderInv
  <1>11. \A c \in Conn : Ordered(toDevice'[c])
    BY <1>5, <1>6 DEF OrderInv
  <1>12. ASSUME NEW c \in Conn PROVE Flows(buffer', toDevice'[c])
    <2>1. CASE c = e
      <3>1. \A a \in Elems(buffer), b \in Elems(q) : Follows(a.req, b.req)
        BY <1>1, <1>6 DEF OrderInv, Flows, s
      <3> QED
        BY <1>5, <1>6, <1>7, <2>1, <3>1 DEF Flows
    <2>2. CASE c # e /\ toDevice[c] # <<>>
      <3>1. Flows(s, toDevice[c]) /\ Flows(buffer, toDevice[c])
        BY <1>1, <1>3, <2>2 DEF OrderInv, s
      <3> QED
        BY <1>5, <1>6, <1>7, <2>2, <3>1 DEF Flows
    <2>3. CASE c # e /\ toDevice[c] = <<>>
      BY <1>5, <2>3 DEF Flows, Elems
    <2> QED
      BY <2>1, <2>2, <2>3
  <1>13. ASSUME NEW c \in Conn, NEW d \in Conn, Ahead(c, d)'
         PROVE  Flows(toDevice'[c], toDevice'[d])
    <2>1. Flows(toDevice[c], toDevice[d])
      BY <1>4, <1>13 DEF OrderInv, Ahead
    <2>2. \A x \in Conn : Elems(toDevice'[x]) \subseteq Elems(toDevice[x])
      BY <1>5, <1>6 DEF s
    <2> QED
      BY <2>1, <2>2 DEF Flows
  <1> QED
    BY <1>8, <1>9, <1>10, <1>11, <1>12, <1>13 DEF OrderInv
LEMMA AheadAccept ==
    ASSUME ServerInv, Accept, NEW c \in Conn, NEW d \in Conn, Ahead(c, d)'
    PROVE  Ahead(c, d)
  <1>1. /\ backlog \in Seq(Conn) /\ backlog # <<>> /\ backlog' = Tail(backlog)
        /\ socket' \in {socket, Head(backlog)} /\ Head(backlog) = backlog[1]
    BY DEF Accept, OnNewConnection, Serve, ServerInv, TcpTypeOK
  <1>2. /\ \A i \in DOMAIN backlog' : /\ i + 1 \in DOMAIN backlog
                                      /\ backlog'[i] = backlog[i + 1] /\ 1 < i + 1
        /\ \A i, j \in DOMAIN backlog' : i < j => i + 1 < j + 1
        /\ 1 \in DOMAIN backlog
    BY <1>1
  <1>3. CASE c = socket' /\ d \in Elems(backlog')
    <2>1. PICK j \in DOMAIN backlog' : d = backlog'[j]
      BY <1>3 DEF Elems
    <2>2. j + 1 \in DOMAIN backlog /\ d = backlog[j + 1] /\ 1 < j + 1
      BY <1>2, <2>1
    <2>3. d \in Elems(backlog)
      BY <2>2 DEF Elems
    <2>4. CASE c = socket
      BY <2>3, <2>4 DEF Ahead
    <2>5. CASE c = backlog[1]
      BY <1>2, <2>2, <2>5 DEF Ahead
    <2> QED
      BY <1>1, <1>3, <2>4, <2>5
  <1>4. CASE \E i, j \in DOMAIN backlog' : i < j /\ c = backlog'[i] /\ d = backlog'[j]
    <2>1. PICK i, j \in DOMAIN backlog' : i < j /\ c = backlog'[i] /\ d = backlog'[j]
      BY <1>4
    <2>2. /\ i + 1 \in DOMAIN backlog /\ j + 1 \in DOMAIN backlog /\ i + 1 < j + 1
          /\ c = backlog[i + 1] /\ d = backlog[j + 1]
      BY <1>2, <2>1
    <2> QED
      BY <2>2 DEF Ahead
  <1> QED
    BY <1>3, <1>4 DEF Ahead

LEMMA AheadConnect ==
    ASSUME ServerInv, LinksInv, ConnectTcp, UNCHANGED socket,
           NEW c \in Conn, NEW d \in Conn, Ahead(c, d)'
    PROVE  Ahead(c, d) \/ Elems(toDevice[d]) = {}
  <1> DEFINE u == CHOOSE x \in Unused : TRUE
  <1>1. u \in Conn /\ u # Line /\ conn[u] = "unused" /\ backlog' = Append(backlog, u)
    BY DEF ConnectTcp, Unused
  <1> HIDE DEF u
  <1>2. /\ Len(backlog) \in Nat /\ DOMAIN backlog = 1..Len(backlog)
        /\ DOMAIN backlog' = 1..(Len(backlog) + 1)
        /\ backlog'[Len(backlog) + 1] = u
        /\ \A i \in DOMAIN backlog : backlog'[i] = backlog[i]
    BY <1>1 DEF ServerInv, TcpTypeOK
  <1>3. CASE d = u
    BY <1>1, <1>3 DEF LinksInv, EndsInv, EndOK, Elems
  <1>4. CASE d # u
    <2>1. \A j \in DOMAIN backlog' : backlog'[j] = d => j \in DOMAIN backlog /\ backlog[j] = d
      BY <1>2, <1>4
    <2>2. CASE c = socket' /\ d \in Elems(backlog')
      BY <2>1, <2>2 DEF Ahead, Elems
    <2>3. CASE \E i, j \in DOMAIN backlog' : i < j /\ c = backlog'[i] /\ d = backlog'[j]
      <3>1. PICK i, j \in DOMAIN backlog' : i < j /\ c = backlog'[i] /\ d = backlog'[j]
        BY <2>3
      <3>2. j \in DOMAIN backlog /\ backlog[j] = d
        BY <2>1, <3>1
      <3>3. i \in DOMAIN backlog /\ backlog[i] = c
        BY <1>2, <3>1, <3>2
      <3> QED
        BY <3>1, <3>2, <3>3 DEF Ahead
    <2> QED
      BY <2>2, <2>3 DEF Ahead
  <1> QED
    BY <1>3, <1>4

LEMMA CloseThins ==
    ASSUME NEW S, Close(S)
    PROVE  \A c \in Conn : Thins(toDevice'[c], toDevice[c])
  BY CloseKeepsOrClears, ThinsItself

(* Every step but the host's sending only takes from what is on its way. *)
LEMMA OrderQuiet ==
    ASSUME ServerInv, HostTypeOK, LinksInv, OrderInv, [Next]_vars,
           ~((NewRequest \/ Retry) /\ phase = "loop")
    PROVE  OrderInv' /\ InPipe' \subseteq InPipe
  <1> DEFINE Goal == OrderInv' /\ InPipe' \subseteq InPipe
  <1>a. UNCHANGED <<socket, backlog>> \/ (socket' \in {socket, None} /\ backlog' \in {backlog, <<>>})
        => \A c, d \in Conn : Ahead(c, d)' => Ahead(c, d) \/ Elems(toDevice[d]) = {}
    BY NoneIsNoConn DEF Ahead, Elems
  <1>b. UNCHANGED <<session, number>> => \A p \in InPipe : Sent(p.req) => Sent(p.req)'
    BY DEF Sent
  <1>c. UNCHANGED buffer => Thins(buffer', buffer)
    BY ThinsItself
  <1>d. UNCHANGED toDevice => \A c \in Conn : Thins(toDevice'[c], toDevice[c])
    BY ThinsItself
  <1>1. CASE Receive \/ Reconnect
    <2>1. UNCHANGED <<socket, backlog, session, number, buffer, toDevice>>
      BY <1>1 DEF Receive, Reconnect, firmwareVars, linkVars
    <2> QED
      BY <1>a, <1>b, <1>c, <1>d, <2>1, OrderThins
  <1>2. CASE Connect
    <2>1. UNCHANGED <<socket, session, number, buffer, toDevice>>
      BY <1>2 DEF Connect, firmwareVars
    <2>2. \A c, d \in Conn : Ahead(c, d)' => Ahead(c, d) \/ Elems(toDevice[d]) = {}
      BY <1>2, <1>a, <2>1, AheadConnect DEF Connect, OpenLine
    <2> QED
      BY <1>b, <1>c, <1>d, <2>1, <2>2, OrderThins
  <1>3. CASE Lose
    <2>1. UNCHANGED <<socket, backlog, session, number, buffer>>
      BY <1>3 DEF Lose, firmwareVars
    <2>2. \A c \in Conn : Thins(toDevice'[c], toDevice[c])
      BY <1>3, BreakIs DEF Lose
    <2> QED
      BY <1>a, <1>b, <1>c, <2>1, <2>2, OrderThins
  <1>4. CASE Drop
    <2>1. UNCHANGED <<socket, backlog, session, number, buffer>>
      BY <1>4 DEF Drop, firmwareVars, hostVars
    <2>2. \A c \in Conn : Thins(toDevice'[c], toDevice[c])
      <3>1. PICK s \in Seq(Piece) : /\ toDevice' = [toDevice EXCEPT ![Line] = s]
                                    /\ Thins(s, toDevice[Line])
        BY <1>4, DropIs
      <3> QED
        BY <3>1, ThinsItself DEF HostTypeOK
    <2> QED
      BY <1>a, <1>b, <1>c, <2>1, <2>2, OrderThins
  <1>5. CASE HostRestarts
    <2>1. UNCHANGED <<socket, backlog, buffer>> /\ session' = session + 1
      BY <1>5 DEF HostRestarts, firmwareVars
    <2>2. \A c \in Conn : Thins(toDevice'[c], toDevice[c])
      BY <1>5, <1>d, BreakIs DEF HostRestarts, linkVars
    <2>3. \A p \in InPipe : Sent(p.req) => Sent(p.req)'
      <3>1. session \in Nat /\ \A p \in InPipe : p.req.session \in Nat
        BY PipeIs DEF HostTypeOK
      <3>2. \A p \in InPipe : Sent(p.req) => p.req.session < session'
        BY <2>1, <3>1 DEF Sent
      <3> QED
        BY <3>2 DEF Sent
    <2> QED
      BY <1>a, <1>c, <2>1, <2>2, <2>3, OrderThins
  <1>6. CASE Click
    <2>1. UNCHANGED <<session, number, buffer>> /\ socket' = None /\ backlog' = <<>>
      BY <1>6 DEF Click, StartTransport, hostVars, firmwareVars
    <2>2. \A c \in Conn : Thins(toDevice'[c], toDevice[c])
      BY <1>6, CloseThins DEF Click, StartTransport
    <2> QED
      BY <1>a, <1>b, <1>c, <2>1, <2>2, OrderThins
  <1>7. CASE JobEnds
    <2>1. UNCHANGED <<socket, backlog, session, number, buffer, toDevice>>
      BY <1>7 DEF JobEnds, Notify, hostVars, tcpVars, linkVars
    <2> QED
      BY <1>a, <1>b, <1>c, <1>d, <2>1, OrderThins
  <1>8. CASE Worker /\ UNCHANGED <<hostVars, events>>
    <2>1. UNCHANGED <<session, number>>
      BY <1>8 DEF hostVars
    <2>2. CASE Read
      BY <2>1, <2>2, OrderRead
    <2>3. CASE Accept
      <3>1. UNCHANGED buffer /\ \A c \in Conn : Thins(toDevice'[c], toDevice[c])
        BY <2>3, <1>d, CloseThins DEF Accept, OnNewConnection, Serve, firmwareVars
      <3> QED
        BY <1>b, <1>c, <2>1, <2>3, <3>1, AheadAccept, OrderThins
    <2>4. CASE (\E c \in Conn : Discard(c)) \/ Tx
      <3>1. UNCHANGED buffer /\ \A c \in Conn : Thins(toDevice'[c], toDevice[c])
        BY <2>4, <1>d, CloseThins
           DEF Discard, Disconnected, DiscardSocket, Tx, Transmit, SendBytes, firmwareVars,
               tcpVars, linkVars
      <3>2. socket' \in {socket, None} /\ backlog' = backlog
        BY <2>4 DEF Discard, Disconnected, DiscardSocket, Tx, Transmit, SendBytes, tcpVars
      <3> QED
        BY <1>a, <1>b, <1>c, <2>1, <3>1, <3>2, OrderThins
    <2>5. CASE ParseMessage \/ ParseSkip
      <3>1. Thins(buffer', buffer)
        BY <2>5, ParsingIs
      <3>2. UNCHANGED <<socket, backlog, toDevice>>
        BY <2>5 DEF ParseMessage, ParseSkip, tcpVars, linkVars
      <3> QED
        BY <1>a, <1>b, <1>d, <2>1, <3>1, <3>2, OrderThins
    <2>6. CASE ParseEnds \/ TxEnds
      <3>1. UNCHANGED <<socket, backlog, toDevice, buffer>>
        BY <2>6 DEF ParseEnds, TxEnds, tcpVars, linkVars, firmwareVars
      <3> QED
        BY <1>a, <1>b, <1>c, <1>d, <2>1, <3>1, OrderThins
    <2>7. CASE Relaunch
      <3>1. /\ socket' = None /\ backlog' = <<>> /\ Thins(buffer', buffer)
            /\ \A c \in Conn : Thins(toDevice'[c], toDevice[c])
        BY <2>7, ThinsItself, CloseThins DEF Relaunch
      <3> QED
        BY <1>a, <1>b, <2>1, <3>1, OrderThins
    <2> QED
      BY <1>8, <2>2, <2>3, <2>4, <2>5, <2>6, <2>7 DEF Worker, Slot, Running
  <1>9. CASE UNCHANGED vars
    <2>1. UNCHANGED <<socket, backlog, session, number, buffer, toDevice>>
      BY <1>9 DEF vars, workerVars, hostVars, firmwareVars, tcpVars, linkVars
    <2> QED
      BY <1>a, <1>b, <1>c, <1>d, <2>1, OrderThins
  <1> QED
    BY <1>1, <1>2, <1>3, <1>4, <1>5, <1>6, <1>7, <1>8, <1>9 DEF Next, Host
-----------------------------------------------------------------------------
(* Effects, step by step. *)
LEMMA SamePlace ==
    ASSUME NEW q \in Requests, NEW r \in Requests, NotAfter(q, r), NotAfter(r, q)
    PROVE  q = r
  <1>1. /\ q.session \in Nat /\ r.session \in Nat /\ q.txid \in Nat /\ r.txid \in Nat
        /\ q = RequestOf(q.session, q.txid) /\ r = RequestOf(r.session, r.txid)
    BY RequestIs, ConnectionsAssumption
  <1>2. q.session = r.session /\ q.txid = r.txid
    BY <1>1 DEF NotAfter
  <1> QED
    BY <1>1, <1>2

LEMMA OnceQuiet ==
    ASSUME OnceInv, InPipe' \subseteq InPipe,
           UNCHANGED <<acted, twice, lastTxid, lastResponse>>,
           \A r \in acted : Sent(r) => Sent(r)',
           ~answered' => ~answered /\ Current' = Current
    PROVE  OnceInv'
  <1>1. \A r : MayComeAgain(r)' => MayComeAgain(r)
    BY DEF MayComeAgain
  <1> QED
    BY <1>1 DEF OnceInv

(* Nothing that is on its way is older than the request at the front.      *)
LEMMA FrontIsOldest ==
    ASSUME HostTypeOK, OrderInv, ParseMessage
    PROVE  /\ \A p \in InPipe' : Follows(buffer[1].req, p.req)
           /\ buffer[1].req \in Requests /\ buffer[1] \in InPipe /\ Sent(buffer[1].req)
           /\ InPipe' \subseteq InPipe
  <1>1. /\ buffer[1].req \in Requests /\ buffer[1] \in Elems(buffer)
        /\ Elems(buffer') \subseteq Elems(buffer)
        /\ \A p \in Elems(buffer') : Follows(buffer[1].req, p.req)
    BY ParsingIs DEF OrderInv, Thins
  <1>2. UNCHANGED toDevice
    BY DEF ParseMessage, tcpVars, linkVars
  <1>3. \A c \in Conn : \A p \in Elems(toDevice[c]) : Follows(buffer[1].req, p.req)
    BY <1>1 DEF OrderInv, Flows
  <1>4. buffer[1] \in InPipe
    BY <1>1 DEF InPipe
  <1>5. InPipe' \subseteq InPipe /\ \A p \in InPipe' : Follows(buffer[1].req, p.req)
    BY <1>1, <1>2, <1>3 DEF InPipe
  <1> QED
    BY <1>1, <1>4, <1>5 DEF OrderInv

LEMMA OnceProcess ==
    ASSUME HostTypeOK, AnswerTypeOK, OrderInv, OnceInv, ParseMessage,
           UNCHANGED <<hostVars, events>>
    PROVE  OnceInv'
  <1> DEFINE q == buffer[1].req
  <1>1. /\ q \in Requests /\ Sent(q) /\ InPipe' \subseteq InPipe /\ buffer[1] \in InPipe
        /\ \A p \in InPipe' : NotAfter(q, p.req)
    BY FrontIsOldest DEF Follows
  <1>2. Process(q) /\ UNCHANGED <<session, number, answered>> /\ Current' = Current
    BY DEF ParseMessage, hostVars, Current
  <1>3. \A r \in Requests : Sent(r)' <=> Sent(r)
    BY <1>2 DEF Sent
  <1>4. acted \subseteq Requests /\ ~twice
        /\ \A r \in acted : Sent(r) /\ NotAfter(r, q) /\ \A p \in InPipe : NotAfter(r, p.req)
    BY <1>1 DEF OnceInv
  <1>5. MayComeAgain(q)
    BY <1>1 DEF MayComeAgain
  <1>6. ~Repeated(q) => q \notin acted
    <2>1. q.txid # NoTxid
      BY <1>1, RequestIs DEF NoTxid
    <2> QED
      BY <1>5, <2>1 DEF OnceInv, Repeated, HasResponse
  <1> HIDE DEF q
  <1>7. ASSUME NEW r \in acted, MayComeAgain(r)' PROVE r = q
    <2>1. r \in Requests /\ NotAfter(r, q)
      BY <1>4
    <2>2. CASE \E p \in InPipe' : p.req = r
      BY <1>1, <2>1, <2>2, SamePlace
    <2>3. CASE ~answered /\ r = Current
      <3>1. number # 0
        BY <2>3 DEF HostTypeOK
      <3>2. r.session = session /\ r.txid = number
        BY <2>3, <3>1, CurrentIs
      <3>3. NotAfter(q, r)
        BY <1>1, <3>2 DEF Sent, NotAfter
      <3> QED
        BY <1>1, <2>1, <3>3, SamePlace
    <2> QED
      BY <1>2, <1>7, <2>2, <2>3 DEF MayComeAgain
  <1>8. CASE Repeated(q) /\ Push(lastResponse) /\ UNCHANGED <<lastTxid, acted, twice>>
    <2>1. lastResponse' = lastResponse
      BY <1>8 DEF Push, Remembered
    <2> QED
      BY <1>1, <1>2, <1>3, <1>4, <1>8, <2>1, OnceQuiet
  <1>9. CASE ~Repeated(q) /\ lastTxid' = q.txid /\ Push(Ack(q))
    <2>1. lastResponse'.txid = q.txid
      <3>1. Ack(q).txid = q.txid /\ Ack(q).cmd # "nack" /\ Ack(q).txid # NoTxid
        BY <1>1, AnswersAreMessages
      <3>2. lastResponse' = Ack(q)
        BY <1>9, <3>1 DEF Push, Remembered
      <3> QED
        BY <3>1, <3>2
    <2>2. CASE UNCHANGED <<acted, twice>>
      BY <1>1, <1>3, <1>4, <1>7, <1>9, <2>1, <2>2 DEF OnceInv
    <2>3. CASE acted' = acted \cup {q} /\ twice' = (twice \/ q \in acted)
      <3>1. ~twice'
        BY <1>4, <1>6, <1>9, <2>3
      <3>2. acted' \subseteq Requests
        BY <1>1, <1>4, <2>3
      <3>3. \A r \in acted' : Sent(r)' /\ \A p \in InPipe' : NotAfter(r, p.req)
        BY <1>1, <1>3, <1>4, <2>3
      <3>4. \A r \in acted' : MayComeAgain(r)' => r = q
        BY <1>7, <2>3
      <3> QED
        BY <1>9, <2>1, <3>1, <3>2, <3>3, <3>4 DEF OnceInv
    <2> QED
      BY <1>1, <1>2, <1>9, <2>2, <2>3, ProcessIs
  <1>10. CASE /\ ~Repeated(q) /\ lastTxid' = q.txid /\ Push(NackTo(q, "err_queue_full"))
              /\ UNCHANGED <<acted, twice>>
    <2>1. \A r \in acted : ~MayComeAgain(r)'
      BY <1>6, <1>7, <1>10
    <2> QED
      BY <1>1, <1>3, <1>4, <1>10, <2>1 DEF OnceInv
  <1> QED
    BY <1>1, <1>2, <1>8, <1>9, <1>10, ProcessIs
(* Sending: nothing but handshakes of earlier sessions is on its way, once *)
(* the host may send what is no handshake.                                 *)
LEMMA FollowsAll ==
    ASSUME HostTypeOK, OrderInv, AnswersInv, NEW r \in Requests, r.session = session,
           number <= r.txid, r.txid # 1 => ShookHands, NEW p \in InPipe
    PROVE  Follows(p.req, r)
  <1>1. /\ p.req.session \in Nat /\ p.req.txid \in Nat /\ session \in Nat /\ number \in Nat
        /\ r.txid \in Nat
    BY PipeIs, RequestIs, ConnectionsAssumption DEF HostTypeOK
  <1>2. NotAfter(p.req, r)
    BY <1>1 DEF OrderInv, Sent, NotAfter
  <1>3. r.txid # 1 => p.req.txid = 1 \/ p.req.session = r.session
    BY DEF AnswersInv, Clean, Greeted
  <1> QED
    BY <1>2, <1>3 DEF Follows

LEMMA SendsInOrder ==
    ASSUME ServerInv, HostTypeOK, LinksInv, OrderInv, AnswersInv, NewRequest \/ Retry
    PROVE  /\ OrderInv'
           /\ \E r \in Requests : /\ r.session = session /\ r = Current'
                                  /\ InPipe' \subseteq InPipe \cup Elems(Pieces(r))
  <1>1. CASE NewRequest
    <2>0. PICK r \in Requests : r = RequestOf(session, number + 1)
      BY <1>1, NextIs
    <2>1. /\ r.session = session /\ r.txid = number + 1
          /\ Send(r) /\ answered /\ session' = session /\ number' = number + 1
      BY <1>1, <2>0, NextIs DEF NewRequest
    <2>2. number \in Nat
      BY ConnectionsAssumption DEF HostTypeOK
    <2>3. number <= r.txid /\ (r.txid # 1 => ShookHands)
      BY <2>1, <2>2 DEF ShookHands
    <2>4. \A p \in InPipe : Sent(p.req)'
      <3>1. \A p \in InPipe : p.req.txid \in Nat /\ p.req.session \in Nat
        BY PipeIs
      <3> QED
        BY <2>1, <2>2, <3>1 DEF OrderInv, Sent
    <2>5. Sent(r)'
      BY <2>1, <2>2 DEF Sent
    <2>6. r = Current'
      BY <2>0, <2>1 DEF Current
    <2>7. \A p \in InPipe : Follows(p.req, r)
      BY <2>1, <2>3, FollowsAll
    <2> QED
      BY <2>1, <2>4, <2>5, <2>6, <2>7, OrderSend
  <1>2. CASE Retry
    <2>1. /\ ~answered /\ number # 0 /\ UNCHANGED <<session, number>> /\ Send(Current)
          /\ number \in Nat
      BY <1>2, ConnectionsAssumption DEF Retry, hostVars, HostTypeOK
    <2>0. PICK r \in Requests : r = Current
      BY <2>1, CurrentIs
    <2>2. r.session = session /\ r.txid = number /\ r = Current'
      <3>1. Current' = Current
        BY <2>1 DEF Current
      <3> QED
        BY <2>0, <2>1, <3>1, CurrentIs
    <2>3. number <= r.txid /\ (r.txid # 1 => ShookHands)
      BY <2>1, <2>2 DEF ShookHands
    <2>4. Sent(r)' /\ \A p \in InPipe : Sent(p.req)'
      BY <2>1, <2>2 DEF OrderInv, Sent
    <2>5. \A p \in InPipe : Follows(p.req, r)
      BY <2>2, <2>3, FollowsAll
    <2>6. Send(r)
      BY <2>0, <2>1
    <2> QED
      BY <2>2, <2>4, <2>5, <2>6, OrderSend
  <1> QED
    BY <1>1, <1>2

LEMMA OrderInitially == Init => OrderInv /\ OnceInv
  <1> SUFFICES ASSUME Init PROVE OrderInv /\ OnceInv
    OBVIOUS
  <1>1. /\ buffer = <<>> /\ toDevice = [c \in Conn |-> <<>>] /\ backlog = <<>>
        /\ acted = {} /\ twice = FALSE
    BY DEF Init, WorkerInit, TcpInit, FirmwareInit
  <1>2. InPipe = {} /\ \A c \in Conn : Elems(toDevice[c]) = {}
    BY <1>1 DEF InPipe, Elems
  <1>3. OrderInv
    BY <1>1, <1>2 DEF OrderInv, Ordered, Flows, Elems
  <1>4. OnceInv
    BY <1>1 DEF OnceInv
  <1> QED
    BY <1>3, <1>4

LEMMA OrderStep ==
    ASSUME ServerInv, HostTypeOK, LinksInv, OrderInv, AnswersInv, [Next]_vars
    PROVE  OrderInv'
  BY OrderQuiet, SendsInOrder

LEMMA OnceStep ==
    ASSUME ServerInv, HostTypeOK, AnswerTypeOK, LinksInv, OrderInv, OnceInv, AnswersInv,
           [Next]_vars
    PROVE  OnceInv'
  <1>a. \A r \in acted : r \in Requests /\ r.session \in Nat /\ r.txid \in Nat
    BY RequestIs, ConnectionsAssumption DEF OnceInv
  <1>b. session \in Nat /\ number \in Nat
    BY ConnectionsAssumption DEF HostTypeOK
  <1>1. CASE NewRequest \/ Retry
    <2>1. PICK r \in Requests : /\ r.session = session /\ r = Current'
                                /\ InPipe' \subseteq InPipe \cup Elems(Pieces(r))
      BY <1>1, SendsInOrder
    <2>2. \A p \in InPipe' : p \in InPipe \/ p.req = r
      BY <2>1, PiecesAre
    <2>3. UNCHANGED <<acted, twice, lastTxid, lastResponse>>
      BY <1>1 DEF NewRequest, Retry, Send, firmwareVars, outVars
    <2>4. CASE NewRequest
      <3>1. r.txid = number + 1 /\ number' = number + 1 /\ session' = session
        BY <2>1, <2>4, NextIs DEF NewRequest, Current
      <3>2. ASSUME NEW a \in acted
            PROVE  a # r /\ Sent(a)' /\ NotAfter(a, r)
        <4>1. Sent(a)
          BY DEF OnceInv
        <4> QED
          BY <1>a, <1>b, <2>1, <3>1, <4>1 DEF Sent, NotAfter
      <3>3. \A a \in acted : MayComeAgain(a)' => MayComeAgain(a)
        BY <2>1, <2>2, <3>2 DEF MayComeAgain
      <3>4. \A a \in acted : \A p \in InPipe' : NotAfter(a, p.req)
        BY <2>2, <3>2 DEF OnceInv
      <3> QED
        BY <2>3, <3>2, <3>3, <3>4 DEF OnceInv
    <2>5. CASE Retry
      <3>1. UNCHANGED <<number, session, answered>> /\ ~answered /\ r = Current
        BY <2>1, <2>5 DEF Retry, hostVars, Current
      <3>2. r.txid = number
        <4>1. number # 0
          BY <3>1 DEF HostTypeOK
        <4> QED
          BY <3>1, <4>1, CurrentIs
      <3>3. \A a \in acted : Sent(a)' /\ NotAfter(a, r)
        <4>1. \A a \in acted : Sent(a)
          BY DEF OnceInv
        <4> QED
          BY <2>1, <3>1, <3>2, <4>1 DEF Sent, NotAfter
      <3>4. \A a \in acted : MayComeAgain(a)' => MayComeAgain(a)
        BY <2>1, <2>2, <3>1 DEF MayComeAgain
      <3>5. \A a \in acted : \A p \in InPipe' : NotAfter(a, p.req)
        BY <2>2, <3>3 DEF OnceInv
      <3> QED
        BY <2>3, <3>3, <3>4, <3>5 DEF OnceInv
    <2> QED
      BY <1>1, <2>4, <2>5
  <1>2. CASE ParseMessage /\ UNCHANGED <<hostVars, events>>
    BY <1>2, OnceProcess
  <1>3. CASE Relaunch
    BY <1>3 DEF Relaunch, OnceInv
  <1>4. CASE ~(NewRequest \/ Retry) /\ ~ParseMessage /\ ~Relaunch
    <2>1. InPipe' \subseteq InPipe
      BY <1>4, OrderQuiet
    <2>2. CASE HostRestarts
      <3>1. UNCHANGED <<acted, twice, lastTxid, lastResponse>> /\ session' = session + 1
            /\ answered' = TRUE
        BY <2>2 DEF HostRestarts, firmwareVars, outVars
      <3>2. \A r \in acted : Sent(r) => Sent(r)'
        BY <1>a, <1>b, <3>1 DEF Sent
      <3> QED
        BY <2>1, <3>1, <3>2, OnceQuiet
    <2>3. CASE ~HostRestarts
      <3>1. UNCHANGED <<session, number>> /\ (~answered' => ~answered)
        <4>1. Receive => UNCHANGED <<session, number>> /\ (~answered' => ~answered)
          <5>1. Receive => (answered => answered')
            BY DEF Receive
          <5> QED
            BY <5>1 DEF Receive
        <4>2. Connect \/ Reconnect \/ Lose \/ Drop \/ Click \/ JobEnds
                => UNCHANGED <<session, number, answered>>
          BY DEF Connect, Reconnect, Lose, Drop, Click, JobEnds, hostVars
        <4>3. UNCHANGED vars \/ UNCHANGED hostVars => UNCHANGED <<session, number, answered>>
          BY DEF vars, hostVars
        <4> QED
          BY <1>4, <2>3, <4>1, <4>2, <4>3 DEF Next, Host
      <3>2. UNCHANGED <<acted, twice, lastTxid, lastResponse>>
        <4>1. Notify => UNCHANGED <<acted, twice, lastTxid, lastResponse>>
          BY NoticeIsMessage DEF Notify, Push, Remembered, NoTxid
        <4> QED
          BY <1>4, <2>3, <4>1
             DEF Next, Host, Receive, Connect, Reconnect, Lose, Drop, Click, JobEnds,
                 StartTransport, Worker, Slot, Running, Read, Accept, Discard, ParseSkip,
                 ParseEnds, Tx, TxEnds, firmwareVars, outVars, vars, workerVars
      <3>3. Current' = Current /\ \A r \in acted : Sent(r) => Sent(r)'
        BY <3>1 DEF Current, Sent
      <3> QED
        BY <2>1, <3>1, <3>2, <3>3, OnceQuiet
    <2> QED
      BY <2>2, <2>3
  <1> QED
    <2>1. ParseMessage => UNCHANGED <<hostVars, events>>
      <3>1. ParseMessage => phase = "read"
        BY DEF ParseMessage
      <3> QED
        BY <3>1
           DEF Next, Click, JobEnds, StartTransport, Notify, vars
    <2> QED
      BY <1>1, <1>2, <1>3, <1>4, <2>1
-----------------------------------------------------------------------------
(* The parser.  What waits in it is a request that has arrived in part,    *)
(* and behind it nothing but that session's requests and handshakes: so no *)
(* handshake is followed by a request of an earlier session.               *)
AfterHandshake(s) ==
    \A i, j \in DOMAIN s : i < j /\ s[i].req.txid = 1 =>
       s[j].req.txid = 1 \/ s[j].req.session = session

LEMMA WaitingIs ==
    ASSUME HostTypeOK, OrderInv, buffer = <<>> \/ buffer[1].req.txid # 1
    PROVE  \A i, j \in DOMAIN buffer :
              i < j /\ buffer[i].req.txid = 1 => buffer[j].req.txid = 1
  <1> SUFFICES ASSUME NEW i \in DOMAIN buffer, NEW j \in DOMAIN buffer, i < j,
                      buffer[i].req.txid = 1, buffer[j].req.txid # 1
               PROVE  FALSE
    OBVIOUS
  <1> DEFINE x == buffer[1].req
             a == buffer[i].req
             b == buffer[j].req
  <1>1. 1 \in DOMAIN buffer /\ 1 <= i /\ 1 <= j /\ i <= j /\ x.txid # 1
    BY DEF HostTypeOK
  <1>2. Follows(x, a) /\ Follows(x, b) /\ Follows(a, b)
    BY <1>1 DEF OrderInv, Ordered
  <1>3. /\ x.session \in Nat /\ x.txid \in Nat \ {0} /\ a.session \in Nat /\ b.session \in Nat
        /\ a.txid = 1 /\ b.txid # 1
    <2>1. buffer[1] \in InPipe /\ buffer[i] \in InPipe /\ buffer[j] \in InPipe
      BY <1>1 DEF InPipe, Elems
    <2> QED
      BY <2>1, PipeIs
  <1> HIDE DEF x, a, b
  <1>4. x.session = b.session
    BY <1>1, <1>2, <1>3 DEF Follows
  <1>5. x.session < a.session
    BY <1>1, <1>2, <1>3 DEF Follows, NotAfter
  <1>6. a.session <= b.session
    BY <1>2, <1>3 DEF Follows, NotAfter
  <1> QED
    BY <1>3, <1>4, <1>5, <1>6

LEMMA ParserRead ==
    ASSUME ServerInv, HostTypeOK, LinksInv, OrderInv, ParserInv, Read,
           UNCHANGED <<hostVars, events>>
    PROVE  ParserInv'
  <1>1. /\ phase = "loop" /\ phase' = "read" /\ outq' = outq
        /\ UNCHANGED <<socket, transport, port>> /\ UNCHANGED <<hostConn, session>>
    BY DEF Read, outVars, hostVars
  <1>2. Endpoint' = Endpoint
    BY <1>1 DEF Endpoint
  <1>3. ASSUME Endpoint = hostConn PROVE AfterHandshake(buffer')
    <2>1. /\ Endpoint \in Conn
          /\ \E p \in Seq(Piece) : Thins(p, toDevice[Endpoint]) /\ buffer' = buffer \o p
      BY ReadIs
    <2>2. PICK p \in Seq(Piece) : Thins(p, toDevice[Endpoint]) /\ buffer' = buffer \o p
      BY <2>1
    <2>3. \A x \in Elems(p) : x.req.session = session
      BY <1>3, <2>1, <2>2, NoneIsNoConn DEF LinksInv, SessionInv, Thins
    <2>4. \A i, j \in DOMAIN buffer :
              i < j /\ buffer[i].req.txid = 1 => buffer[j].req.txid = 1
      BY <1>1, WaitingIs DEF ParserInv
    <2>5. /\ buffer \in Seq(Piece) /\ Len(buffer) \in Nat /\ Len(p) \in Nat
          /\ DOMAIN buffer = 1..Len(buffer) /\ DOMAIN p = 1..Len(p)
          /\ DOMAIN buffer' = 1..(Len(buffer) + Len(p))
          /\ \A i \in 1..Len(buffer) : buffer'[i] = buffer[i]
          /\ \A i \in 1..Len(p) : buffer'[Len(buffer) + i] = p[i]
      BY <2>2 DEF HostTypeOK
    <2> SUFFICES ASSUME NEW i \in DOMAIN buffer', NEW j \in DOMAIN buffer', i < j,
                        buffer'[i].req.txid = 1
                 PROVE  buffer'[j].req.txid = 1 \/ buffer'[j].req.session = session
      BY DEF AfterHandshake
    <2>6. CASE j <= Len(buffer)
      <3>1. i \in 1..Len(buffer) /\ j \in 1..Len(buffer)
        BY <2>5, <2>6
      <3> QED
        BY <2>4, <2>5, <3>1
    <2>7. CASE j > Len(buffer)
      <3>1. j - Len(buffer) \in 1..Len(p) /\ Len(buffer) + (j - Len(buffer)) = j
        BY <2>5, <2>7
      <3>2. buffer'[j] \in Elems(p)
        BY <2>5, <3>1 DEF Elems
      <3> QED
        BY <2>3, <3>2
    <2> QED
      BY <2>5, <2>6, <2>7
  <1> QED
    BY <1>1, <1>2, <1>3 DEF ParserInv, AfterHandshake

LEMMA ParserParse ==
    ASSUME HostTypeOK, ParserInv, ParseMessage \/ ParseSkip, UNCHANGED <<hostVars, events>>
    PROVE  ParserInv'
  <1>1. /\ phase = "read" /\ phase' = "read" /\ UNCHANGED <<socket, transport, port>>
        /\ UNCHANGED <<hostConn, session>>
    BY DEF ParseMessage, ParseSkip, tcpVars, hostVars
  <1>2. Endpoint' = Endpoint
    BY <1>1 DEF Endpoint
  <1>3. ASSUME Endpoint = hostConn PROVE AfterHandshake(buffer')
    <2>1. AfterHandshake(buffer)
      BY <1>1, <1>3 DEF ParserInv, AfterHandshake
    <2>2. PICK k \in 2..(Len(buffer) + 1) :
             \A i \in DOMAIN buffer' :
                k + i - 1 \in DOMAIN buffer /\ buffer'[i] = buffer[k + i - 1]
      BY ParsingIs
    <2>3. buffer' \in Seq(Piece) /\ buffer \in Seq(Piece)
      BY ParsingIs DEF HostTypeOK
    <2>4. \A i, j \in DOMAIN buffer' : i < j => k + i - 1 < k + j - 1
      BY <2>3
    <2> QED
      BY <2>1, <2>2, <2>4 DEF AfterHandshake
  <1> QED
    BY <1>1, <1>2, <1>3 DEF ParserInv, AfterHandshake

LEMMA ParserInitially == Init => ParserInv
  BY DEF Init, WorkerInit, FirmwareInit, OutInit, ParserInv

LEMMA ParserStep ==
    ASSUME ServerInv, HostTypeOK, LinksInv, OrderInv, ParserInv, [Next]_vars
    PROVE  ParserInv'
  <1>1. CASE (Host /\ phase = "loop") \/ Click
    <2>1. UNCHANGED <<phase, outq, buffer>> /\ phase = "loop"
      BY <1>1
         DEF Host, NewRequest, Retry, Receive, Connect, Reconnect, Lose, Drop, HostRestarts,
             Click, StartTransport, Send, firmwareVars, outVars
    <2> QED
      BY <2>1 DEF ParserInv
  <1>2. CASE JobEnds
    <2>1. phase = "loop" /\ phase' = "notify" /\ UNCHANGED buffer
      BY <1>2 DEF JobEnds, Notify
    <2> QED
      BY <2>1 DEF ParserInv
  <1>3. CASE Worker /\ UNCHANGED <<hostVars, events>>
    <2>1. CASE Read
      BY <1>3, <2>1, ParserRead
    <2>2. CASE Accept \/ \E c \in Conn : Discard(c)
      <3>1. UNCHANGED <<phase, outq, buffer>> /\ phase = "loop"
        BY <2>2 DEF Accept, Discard, firmwareVars, outVars
      <3> QED
        BY <3>1 DEF ParserInv
    <2>3. CASE ParseMessage \/ ParseSkip
      BY <1>3, <2>3, ParserParse
    <2>4. CASE ParseEnds
      <3>1. phase' = "tx" /\ UNCHANGED buffer /\ ~CanParse
        BY <2>4 DEF ParseEnds, firmwareVars
      <3>2. ASSUME buffer # <<>> PROVE buffer[1].req.txid # 1
        <4>1. buffer[1] \in Piece /\ Len(buffer) \in Nat /\ Len(buffer) >= 1
          BY <3>2 DEF HostTypeOK
        <4>2. buffer[1].req \in Requests
          BY <4>1 DEF Piece
        <4>3. ~(Len(buffer) > buffer[1].req.size)
          BY <3>1, <3>2 DEF CanParse
        <4> QED
          BY <4>1, <4>2, <4>3, RequestIs
      <3> QED
        BY <3>1, <3>2 DEF ParserInv
    <2>5. CASE Tx
      <3>1. phase \in {"tx", "notify"} /\ UNCHANGED <<phase, buffer>>
        BY <2>5 DEF Tx
      <3> QED
        BY <3>1 DEF ParserInv
    <2>6. CASE TxEnds
      <3>1. /\ phase \in {"tx", "notify"} /\ outq = <<>> /\ phase' \in {"loop", "crashed"}
            /\ UNCHANGED <<outq, buffer>>
        BY <2>6 DEF TxEnds, firmwareVars, outVars
      <3> QED
        BY <3>1 DEF ParserInv
    <2>7. CASE Relaunch
      BY <2>7 DEF Relaunch, ParserInv
    <2> QED
      BY <1>3, <2>1, <2>2, <2>3, <2>4, <2>5, <2>6, <2>7 DEF Worker, Slot, Running
  <1>4. CASE UNCHANGED vars
    <2>1. UNCHANGED <<phase, outq, buffer, socket, transport, port, hostConn, session>>
      BY <1>4 DEF vars, workerVars, tcpVars, firmwareVars, outVars, hostVars
    <2>2. Endpoint' = Endpoint
      BY <2>1 DEF Endpoint
    <2> QED
      BY <2>1, <2>2 DEF ParserInv
  <1> QED
    BY <1>1, <1>2, <1>3, <1>4 DEF Next

-----------------------------------------------------------------------------
(* Answers to number 1 are answers to a handshake, wherever they are. *)
LEMMA HandshakePush ==
    ASSUME AnswerTypeOK, HandshakeInv, NEW m \in Message, Push(m), IsHandshakeAnswer(m)
    PROVE  IsHandshakeAnswer(lastResponse') /\ \A x \in Elems(outq') : IsHandshakeAnswer(x)
  <1>1. lastResponse' \in {m, lastResponse}
    BY DEF Push, Remembered
  <1>2. outq' = outq \/ outq' = Append(outq, m)
    BY DEF Push
  <1>3. outq \in Seq(Message)
    BY DEF AnswerTypeOK
  <1>4. Elems(outq') \subseteq Elems(outq) \cup {m}
    BY <1>2, <1>3, MessageAppended
  <1> QED
    BY <1>1, <1>4 DEF HandshakeInv

(* What processing a request pushes is for that request's number. *)
LEMMA ProcessPushes ==
    ASSUME AnswerTypeOK, HandshakeInv, NEW r \in Requests, Process(r)
    PROVE  \E m \in Message :
              /\ Push(m) /\ m.txid = r.txid /\ IsHandshakeAnswer(m)
              /\ \/ m = lastResponse /\ lastResponse' = lastResponse
                 \/ m = Ack(r) /\ lastResponse' = m
                 \/ /\ m.of = r.op /\ r.txid # 1 /\ lastResponse' = lastResponse
  <1>1. /\ r.txid # NoTxid
        /\ r.txid = 1 => r.op = "handshake" /\ r.op \in Effectless
    BY RequestIs, ConnectionsAssumption DEF NoTxid
  <1>2. CASE Repeated(r) /\ Push(lastResponse)
    <2>1. lastResponse \in Message /\ lastResponse.txid = r.txid
      BY <1>2 DEF AnswerTypeOK, Repeated, HasResponse
    <2>2. lastResponse' = lastResponse
      BY <1>2 DEF Push, Remembered
    <2> QED
      BY <1>2, <2>1, <2>2 DEF HandshakeInv
  <1>3. CASE Push(Ack(r))
    <2>1. /\ Ack(r) \in Message /\ Ack(r).txid = r.txid /\ Ack(r).cmd = r.op
          /\ Ack(r).cmd # "nack" /\ Ack(r).txid # NoTxid
      BY AnswersAreMessages
    <2>2. lastResponse' = Ack(r)
      BY <1>3, <2>1 DEF Push, Remembered
    <2>3. IsHandshakeAnswer(Ack(r))
      BY <1>1, <2>1 DEF IsHandshakeAnswer
    <2> QED
      BY <1>3, <2>1, <2>2, <2>3
  <1>4. CASE Push(NackTo(r, "err_queue_full")) /\ r.op \notin Effectless
    <2>1. "err_queue_full" \in Errors
      BY DEF Errors
    <2> DEFINE m == NackTo(r, "err_queue_full")
    <2>2. m \in Message /\ m.txid = r.txid /\ m.of = r.op /\ m.cmd = "nack"
      BY <2>1, AnswersAreMessages
    <2>3. Push(m)
      BY <1>4
    <2> HIDE DEF m
    <2>4. lastResponse' = lastResponse
      BY <2>2, <2>3 DEF Push, Remembered
    <2>5. r.txid # 1 /\ IsHandshakeAnswer(m)
      BY <1>1, <1>4, <2>2 DEF IsHandshakeAnswer
    <2> QED
      BY <2>2, <2>3, <2>4, <2>5
  <1> QED
    BY <1>2, <1>3, <1>4, ProcessIs
LEMMA HandshakeInitially == Init => HandshakeInv
  BY NoticeIsMessage
     DEF Init, WorkerInit, TcpInit, FirmwareInit, OutInit, HandshakeInv, IsHandshakeAnswer,
         Elems

LEMMA HandshakeStep ==
    ASSUME ServerInv, HostTypeOK, AnswerTypeOK, HandshakeInv, [Next]_vars
    PROVE  HandshakeInv'
  <1> DEFINE Ours == /\ IsHandshakeAnswer(lastResponse')
                     /\ \A m \in Elems(outq') : IsHandshakeAnswer(m)
             Theirs == \A c \in Conn : \A m \in Elems(toHost'[c]) : IsHandshakeAnswer(m)
  <1>a. Ours /\ Theirs => HandshakeInv'
    BY DEF HandshakeInv, IsHandshakeAnswer
  <1>b. UNCHANGED <<lastResponse, outq>> => Ours
    BY DEF HandshakeInv
  <1>c. (\A c \in Conn : Elems(toHost'[c]) \subseteq Elems(toHost[c])) => Theirs
    BY DEF HandshakeInv
  <1>d. Elems(<<>>) = {}
    BY DEF Elems
  <1>e. ASSUME NEW S, Close(S) PROVE Theirs
    <2>1. \A c \in Conn : toHost'[c] = <<>> \/ toHost'[c] = toHost[c]
      BY <1>e DEF Close
    <2> QED
      BY <1>c, <1>d, <2>1
  <1>f. UNCHANGED toHost => Theirs
    BY <1>c
  <1> HIDE DEF Ours, Theirs
  <1>1. CASE Host /\ phase = "loop"
    <2>1. Ours
      BY <1>1, <1>b
         DEF Host, NewRequest, Retry, Receive, Connect, Reconnect, Lose, Drop, HostRestarts,
             Send, firmwareVars, outVars
    <2>2. NewRequest \/ Retry \/ Drop => Theirs
      BY <1>f DEF NewRequest, Retry, Drop, Send
    <2>3. Receive => Theirs
      <3> SUFFICES ASSUME Receive PROVE Theirs
        OBVIOUS
      <3>1. /\ hostConn \in Conn /\ toHost[hostConn] # <<>> /\ toHost[hostConn] \in Seq(Message)
            /\ toHost' = [toHost EXCEPT ![hostConn] = Tail(@)]
        BY DEF Receive, HostTypeOK, HostConnOK, AnswerTypeOK
      <3>2. Elems(Tail(toHost[hostConn])) \subseteq Elems(toHost[hostConn])
        BY <3>1, TailThins DEF Thins
      <3> QED
        BY <1>c, <3>1, <3>2 DEF AnswerTypeOK
    <2>4. ASSUME NEW c, toHost' = [toHost EXCEPT ![c] = <<>>] PROVE Theirs
      <3>1. \A d \in Conn : toHost'[d] = toHost[d] \/ toHost'[d] = <<>>
        BY <2>4 DEF AnswerTypeOK
      <3> QED
        BY <1>c, <1>d, <3>1
    <2>5. Connect \/ Reconnect \/ Lose \/ HostRestarts => Theirs
      BY <2>4, <1>f DEF Connect, ConnectTcp, OpenLine, Reconnect, Lose, HostRestarts, Break,
                        linkVars
    <2> QED
      BY <1>1, <1>a, <2>1, <2>2, <2>3, <2>5 DEF Host
  <1>2. CASE Click
    <2>1. Ours /\ Theirs
      BY <1>2, <1>b, <1>e DEF Click, StartTransport, firmwareVars, outVars
    <2> QED
      BY <1>a, <2>1
  <1>3. CASE JobEnds
    <2>1. Push(JobEndNotice) /\ UNCHANGED toHost
      BY <1>3 DEF JobEnds, Notify, tcpVars, linkVars
    <2>2. Ours
      BY <2>1, NoticeIsMessage, HandshakePush DEF IsHandshakeAnswer, Ours
    <2> QED
      BY <1>a, <1>f, <2>1, <2>2
  <1>4. CASE Slot
    <2>1. Ours
      BY <1>4, <1>b DEF Slot, Read, Accept, Discard, firmwareVars, outVars
    <2>2. Theirs
      BY <1>4, <1>e, <1>f
         DEF Slot, Read, Accept, OnNewConnection, Serve, Discard, Disconnected, DiscardSocket
    <2> QED
      BY <1>a, <2>1, <2>2
  <1>5. CASE ParseMessage
    <2>1. buffer[1].req \in Requests /\ Process(buffer[1].req) /\ UNCHANGED toHost
      BY <1>5, ParsingIs DEF ParseMessage, tcpVars, linkVars
    <2>2. PICK m \in Message : Push(m) /\ IsHandshakeAnswer(m)
      BY <2>1, ProcessPushes
    <2>3. Ours
      BY <2>2, HandshakePush DEF Ours
    <2> QED
      BY <1>a, <1>f, <2>1, <2>3
  <1>6. CASE ParseSkip \/ ParseEnds \/ TxEnds \/ UNCHANGED vars
    <2>1. UNCHANGED <<lastResponse, outq, toHost>>
      BY <1>6 DEF ParseSkip, ParseEnds, TxEnds, firmwareVars, outVars, tcpVars, linkVars, vars,
                  workerVars
    <2> QED
      BY <1>a, <1>b, <1>f, <2>1
  <1>7. CASE Tx
    <2>1. /\ outq \in Seq(Message) /\ outq # <<>> /\ lastResponse' = lastResponse
          /\ outq' = Tail(outq) /\ Transmit(Head(outq))
      BY <1>7 DEF Tx, AnswerTypeOK
    <2>2. Head(outq) \in Elems(outq)
      <3>1. Head(outq) = outq[1] /\ 1 \in DOMAIN outq
        BY <2>1
      <3> QED
        BY <3>1 DEF Elems
    <2>3. Ours
      <3>1. Elems(Tail(outq)) \subseteq Elems(outq)
        BY <2>1, TailThins DEF Thins
      <3> QED
        BY <2>1, <3>1 DEF HandshakeInv, Ours
    <2>4. ASSUME NEW c \in Conn, toHost' = [toHost EXCEPT ![c] = Append(@, Head(outq))]
          PROVE  Theirs
      <3>1. toHost[c] \in Seq(Message) /\ Head(outq) \in Message
        BY <2>1 DEF AnswerTypeOK
      <3>2. toHost'[c] = Append(toHost[c], Head(outq))
        BY <2>4 DEF AnswerTypeOK
      <3>3. Elems(toHost'[c]) = Elems(toHost[c]) \cup {Head(outq)}
        BY <3>1, <3>2, MessageAppended
      <3>4. \A d \in Conn : d # c => toHost'[d] = toHost[d]
        BY <2>4 DEF AnswerTypeOK
      <3> QED
        BY <2>2, <3>3, <3>4 DEF HandshakeInv, Theirs
    <2>5. socket \in Conn \cup {None}
      BY DEF ServerInv, TcpTypeOK
    <2>6. Theirs
      BY <1>e, <1>f, <2>1, <2>4, <2>5, LineIsConn
         DEF Transmit, SendBytes, DiscardSocket, tcpVars, linkVars
    <2> QED
      BY <1>a, <2>3, <2>6
  <1>8. CASE Relaunch
    <2>1. Ours
      BY <1>8, <1>d, NoticeIsMessage DEF Relaunch, IsHandshakeAnswer, Ours
    <2>2. Theirs
      BY <1>8, <1>e DEF Relaunch
    <2> QED
      BY <1>a, <2>1, <2>2
  <1> QED
    BY <1>1, <1>2, <1>3, <1>4, <1>5, <1>6, <1>7, <1>8 DEF Next, Worker, Running
-----------------------------------------------------------------------------
(* What is on its way to the host, and what the host makes of it. *)
LEMMA OnWayIsMessages == HostTypeOK /\ AnswerTypeOK => OnWay \in Seq(Message)
  <1> SUFFICES ASSUME HostTypeOK, AnswerTypeOK PROVE OnWay \in Seq(Message)
    OBVIOUS
  <1>1. outq \in Seq(Message) /\ \A c \in Conn : toHost[c] \in Seq(Message)
    BY DEF AnswerTypeOK
  <1>2. hostConn = None \/ hostConn \in Conn
    BY DEF HostTypeOK, HostConnOK
  <1>3. hostConn \in Conn => toHost[hostConn] \o outq \in Seq(Message)
    BY <1>1
  <1> QED
    BY <1>1, <1>2, <1>3 DEF OnWay

(* When the queue of the firmware is empty, it is what the host can read. *)
LEMMA OnlyToRead ==
    ASSUME HostTypeOK, AnswerTypeOK, outq = <<>>
    PROVE  OnWay = IF hostConn = None THEN <<>> ELSE toHost[hostConn]
  <1>1. hostConn # None => toHost[hostConn] \in Seq(Message)
    BY DEF HostTypeOK, HostConnOK, AnswerTypeOK
  <1>2. hostConn # None => toHost[hostConn] \o <<>> = toHost[hostConn]
    BY <1>1
  <1> QED
    BY <1>2 DEF OnWay

LEMMA OnWayCleared ==
    ASSUME HostTypeOK, AnswerTypeOK, HostTypeOK', AnswerTypeOK', outq = <<>>, outq' = <<>>,
           hostConn' = hostConn, \A c \in Conn : toHost'[c] = toHost[c] \/ toHost'[c] = <<>>
    PROVE  OnWay' = OnWay \/ OnWay' = <<>>
  <1>1. OnWay' = IF hostConn' = None THEN <<>> ELSE toHost'[hostConn']
    <2>1. hostConn' # None => toHost'[hostConn'] \in Seq(Message)
      BY DEF HostTypeOK, HostConnOK, AnswerTypeOK
    <2>2. hostConn' # None => toHost'[hostConn'] \o <<>> = toHost'[hostConn']
      BY <2>1
    <2> QED
      BY <2>2 DEF OnWay
  <1>2. hostConn = None \/ hostConn \in Conn
    BY DEF HostTypeOK, HostConnOK
  <1> QED
    BY <1>1, <1>2, OnlyToRead

LEMMA OnWaySame ==
    ASSUME UNCHANGED <<hostConn, toHost, outq, socket, transport, port>>
    PROVE  OnWay' = OnWay
  <1>1. Endpoint' = Endpoint
    BY DEF Endpoint
  <1> QED
    BY <1>1 DEF OnWay

(* A step that brings nothing new. *)
LEMMA AnswersKept ==
    ASSUME AnswersInv, UNCHANGED <<session, stray>>, Clean => Clean',
           ShookHands' => ShookHands, OnWay' = OnWay \/ OnWay' = <<>>,
           lastResponse' = lastResponse \/ lastResponse' = NoResponse
    PROVE  AnswersInv'
  <1>1. Elems(OnWay') \subseteq Elems(OnWay) /\ Settled(OnWay)'
    <2>1. Elems(<<>>) = {} /\ \A i \in DOMAIN <<>> : FALSE
      BY DEF Elems
    <2>2. \A m : Apt(m) => AptIn(session', m)
      BY DEF Apt
    <2>3. CASE OnWay' = OnWay
      <3>1. \A i, j \in DOMAIN OnWay' : i < j /\ OnWay'[i].txid = 1 => AptIn(session', OnWay'[j])
        BY <2>3, <2>2 DEF AnswersInv, Settled
      <3> QED
        BY <2>3, <3>1 DEF Settled, Apt
    <2>4. CASE OnWay' = <<>>
      BY <2>1, <2>4 DEF Settled
    <2> QED
      BY <2>3, <2>4
  <1>2. Greeted' => Greeted
    BY <1>1 DEF Greeted
  <1>3. Apt(lastResponse) => Apt(lastResponse)'
    <2>1. NoResponse.txid = 0
      BY DEF NoResponse, NoTxid
    <2>2. lastResponse' = NoResponse => Apt(lastResponse)'
      BY <2>1 DEF Apt, AptIn
    <2> QED
      BY <2>2 DEF Apt
  <1>4. Greeted' => Clean' /\ Apt(lastResponse)'
    BY <1>2, <1>3 DEF AnswersInv
  <1>5. ShookHands' => \A m \in Elems(OnWay') : AptIn(session', m)
    BY <1>1 DEF AnswersInv, Apt
  <1>6. ~stray'
    BY DEF AnswersInv
  <1> QED
    BY <1>1, <1>4, <1>5, <1>6 DEF AnswersInv, Apt

(* An answer is put behind those the host has not read. *)
LEMMA AnswersGrow ==
    ASSUME AnswersInv, OnWay \in Seq(Message), NEW m \in Message,
           UNCHANGED <<session, number, answered, stray>>,
           OnWay' = OnWay \/ OnWay' = Append(OnWay, m),
           Greeted => Apt(m), Greeted' => Clean' /\ Apt(lastResponse)'
    PROVE  AnswersInv'
  <1>1. ShookHands' = ShookHands /\ (ShookHands => Greeted)
    BY DEF ShookHands, Greeted
  <1>2. Elems(OnWay') \subseteq Elems(OnWay) \cup {m}
    BY MessageAppended
  <1>3. ShookHands' => \A x \in Elems(OnWay') : AptIn(session', x)
    BY <1>1, <1>2 DEF AnswersInv, Apt
  <1>4. Settled(OnWay)'
    <2>1. CASE OnWay' = OnWay
      BY <2>1 DEF AnswersInv, Settled, Apt
    <2>2. CASE OnWay' = Append(OnWay, m)
      <3> SUFFICES ASSUME NEW i \in DOMAIN OnWay', NEW j \in DOMAIN OnWay', i < j,
                          OnWay'[i].txid = 1
                   PROVE  AptIn(session', OnWay'[j])
        BY DEF Settled, Apt
      <3>1. /\ Len(OnWay) \in Nat /\ i \in DOMAIN OnWay /\ OnWay'[i] = OnWay[i]
            /\ \/ j \in DOMAIN OnWay /\ OnWay'[j] = OnWay[j]
               \/ OnWay'[j] = m
        BY <2>2
      <3>2. Greeted
        BY <3>1 DEF Greeted, Elems
      <3> QED
        BY <3>1, <3>2 DEF AnswersInv, Settled, Apt
    <2> QED
      BY <2>1, <2>2
  <1>5. ~stray'
    BY DEF AnswersInv
  <1> QED
    BY <1>3, <1>4, <1>5 DEF AnswersInv, Apt
(* The host takes an answer. *)
LEMMA AnswersReceive ==
    ASSUME HostTypeOK, AnswerTypeOK, HandshakeInv, AnswersInv, outq = <<>>, Receive
    PROVE  AnswersInv'
  <1> DEFINE s == toHost[hostConn]
             m == Head(s)
             taken == ~answered /\ m.txid = number
  <1>1. /\ hostConn \in Conn /\ hostConn # None /\ s \in Seq(Message) /\ s # <<>>
        /\ toHost' = [toHost EXCEPT ![hostConn] = Tail(s)] /\ hostConn' = hostConn
        /\ UNCHANGED <<session, number, lastResponse, outq, buffer, toDevice>>
        /\ answered' = (answered \/ taken)
        /\ stray' = (stray \/ (taken /\ m.cmd # Current.op /\ m.of # Current.op))
    BY DEF Receive, HostTypeOK, HostConnOK, AnswerTypeOK, firmwareVars, outVars
  <1>2. OnWay = s
    BY <1>1, OnlyToRead
  <1>3. OnWay' = Tail(s)
    <2>1. toHost'[hostConn'] = Tail(s) /\ outq' = <<>> /\ Tail(s) \in Seq(Message)
      BY <1>1 DEF AnswerTypeOK
    <2>2. Tail(s) \o <<>> = Tail(s)
      BY <2>1
    <2> QED
      BY <1>1, <2>1, <2>2 DEF OnWay
  <1>4. /\ m = s[1] /\ 1 \in DOMAIN s
        /\ \A i \in DOMAIN Tail(s) : i + 1 \in DOMAIN s /\ Tail(s)[i] = s[i + 1] /\ i \in Nat
    BY <1>1
  <1>5. Elems(Tail(s)) \subseteq Elems(s) /\ m \in Elems(s)
    BY <1>4 DEF Elems
  <1> HIDE DEF s, m
  <1>6. number \in Nat /\ answered \in BOOLEAN /\ (taken => number # 0)
    BY DEF HostTypeOK
  <1>7. ShookHands' => ShookHands \/ (m.txid = 1)
    BY <1>1, <1>6 DEF ShookHands
  <1>8. Greeted' => Greeted
    BY <1>2, <1>3, <1>5, <1>7 DEF Greeted
  <1>9. InPipe' = InPipe
    BY <1>1 DEF InPipe
  <1>10. Greeted' => Clean' /\ Apt(lastResponse)'
    BY <1>1, <1>8, <1>9 DEF AnswersInv, Clean, Apt
  <1>11. ShookHands' => \A x \in Elems(OnWay') : AptIn(session', x)
    <2>1. CASE ShookHands
      BY <1>1, <1>2, <1>3, <1>5, <2>1 DEF AnswersInv, Apt
    <2>2. CASE m.txid = 1
      <3> SUFFICES ASSUME NEW x \in Elems(Tail(s)) PROVE AptIn(session, x)
        BY <1>1, <1>3
      <3>1. PICK i \in DOMAIN Tail(s) : x = Tail(s)[i]
        BY DEF Elems
      <3>2. x = s[i + 1] /\ i + 1 \in DOMAIN s /\ 1 < i + 1
        <4>1. i + 1 \in DOMAIN s /\ Tail(s)[i] = s[i + 1] /\ i \in Nat /\ i # 0
          BY <1>1, <1>4
        <4> QED
          BY <3>1, <4>1
      <3> QED
        BY <1>2, <1>4, <2>2, <3>2 DEF AnswersInv, Settled, Apt
    <2> QED
      BY <1>7, <2>1, <2>2
  <1>12. Settled(OnWay)'
    <2> SUFFICES ASSUME NEW i \in DOMAIN Tail(s), NEW j \in DOMAIN Tail(s), i < j,
                        Tail(s)[i].txid = 1
                 PROVE  AptIn(session, Tail(s)[j])
      BY <1>1, <1>3 DEF Settled, Apt
    <2>1. /\ i + 1 \in DOMAIN s /\ j + 1 \in DOMAIN s /\ i + 1 < j + 1
          /\ Tail(s)[i] = s[i + 1] /\ Tail(s)[j] = s[j + 1]
      BY <1>4
    <2> QED
      BY <1>2, <2>1 DEF AnswersInv, Settled, Apt
  <1>13. ~stray'
    <2>1. taken => m.cmd = Current.op \/ m.of = Current.op
      <3> SUFFICES ASSUME taken PROVE m.cmd = Current.op \/ m.of = Current.op
        OBVIOUS
      <3>1. /\ number # 0 /\ m.txid = number
            /\ Current \in Requests /\ Current.txid = number
        BY <1>6, CurrentIs
      <3>2. CASE number = 1
        <4>1. m.cmd = "handshake"
          BY <1>1, <1>5, <3>1, <3>2 DEF HandshakeInv, IsHandshakeAnswer, s
        <4>2. Current.op = "handshake"
          BY <3>1, <3>2, RequestIs
        <4> QED
          BY <4>1, <4>2
      <3>3. CASE number >= 2
        <4>1. Apt(m)
          BY <1>2, <1>5, <3>3 DEF AnswersInv, ShookHands
        <4> QED
          BY <3>1, <3>3, <4>1 DEF Apt, AptIn, IsFor, Current
      <3> QED
        BY <1>6, <3>1, <3>2, <3>3
    <2> QED
      BY <1>1, <2>1 DEF AnswersInv
  <1> QED
    BY <1>10, <1>11, <1>12, <1>13 DEF AnswersInv, Apt

(* Behind a handshake of the host's connection there is nothing else of an *)
(* earlier session.                                                        *)
LEMMA NothingBehind ==
    ASSUME ServerInv, HostTypeOK, LinksInv, ParserInv, ParseMessage,
           hostConn # None, Endpoint = hostConn, buffer[1].req.txid = 1, UNCHANGED session
    PROVE  Clean'
  <1>1. /\ phase = "read" /\ UNCHANGED toDevice /\ hostConn \in Conn
    BY DEF ParseMessage, tcpVars, linkVars, HostTypeOK, HostConnOK
  <1>2. ASSUME NEW p \in Elems(buffer') PROVE p.req.txid = 1 \/ p.req.session = session
    <2>1. PICK k \in 2..(Len(buffer) + 1) :
             \A i \in DOMAIN buffer' :
                k + i - 1 \in DOMAIN buffer /\ buffer'[i] = buffer[k + i - 1]
      BY ParsingIs
    <2>2. PICK i \in DOMAIN buffer' : p = buffer'[i]
      BY <1>2 DEF Elems
    <2>3. /\ k + i - 1 \in DOMAIN buffer /\ p = buffer[k + i - 1]
          /\ 1 \in DOMAIN buffer /\ buffer' \in Seq(Piece)
      BY <2>1, <2>2, ParsingIs
    <2>4. 1 < k + i - 1
      <3>1. i \in Nat \ {0}
        BY <2>3
      <3> QED
        BY <3>1
    <2> QED
      BY <1>1, <2>3, <2>4 DEF ParserInv
  <1>3. ASSUME NEW c \in Conn, NEW p \in Elems(toDevice[c])
        PROVE  p.req.session = session
    <2>1. CASE c = hostConn
      BY <2>1, <1>3, NoneIsNoConn DEF LinksInv, SessionInv
    <2>2. CASE c # hostConn
      <3>1. toDevice[c] # <<>>
        BY <1>3 DEF Elems
      <3>2. Ahead(hostConn, c)
        BY <1>1, <2>2, <3>1, OnlyReader
      <3>3. backlog \in Seq(Conn)
        BY DEF ServerInv, TcpTypeOK
      <3>4. ~(hostConn = socket /\ c \in Elems(backlog))
        BY DEF LinksInv, NewestInv, Elems
      <3>5. \A i, j \in DOMAIN backlog : i < j => hostConn # backlog[i]
        BY <3>3 DEF LinksInv, NewestInv
      <3> QED
        BY <3>2, <3>4, <3>5 DEF Ahead
    <2> QED
      BY <2>1, <2>2
  <1> QED
    BY <1>1, <1>2, <1>3 DEF Clean, InPipe
(* A message is parsed. *)
LEMMA AnswersParse ==
    ASSUME ServerInv, HostTypeOK, AnswerTypeOK, LinksInv, ParserInv, HandshakeInv, AnswersInv,
           ParseMessage, UNCHANGED <<hostVars, events>>, InPipe' \subseteq InPipe
    PROVE  AnswersInv'
  <1> DEFINE q == buffer[1].req
  <1>1. /\ q \in Requests /\ buffer[1] \in InPipe /\ Process(q)
        /\ UNCHANGED <<toHost, socket, transport, port, hostConn, session, number, answered,
                       stray>>
    BY ParsingIs, PipeIs DEF ParseMessage, tcpVars, linkVars, hostVars
  <1>2. PICK m \in Message :
           /\ Push(m) /\ m.txid = q.txid
           /\ \/ m = lastResponse /\ lastResponse' = lastResponse
              \/ m = Ack(q) /\ lastResponse' = m
              \/ m.of = q.op /\ q.txid # 1 /\ lastResponse' = lastResponse
    BY <1>1, ProcessPushes
  <1>3. OnWay \in Seq(Message)
    BY OnWayIsMessages
  <1>4. Endpoint' = Endpoint
    BY <1>1 DEF Endpoint
  <1>5. OnWay' = OnWay \/ (Endpoint = hostConn /\ hostConn # None /\ OnWay' = Append(OnWay, m))
    <2>1. outq' = outq \/ outq' = Append(outq, m)
      BY <1>2 DEF Push
    <2>2. hostConn # None =>
             toHost[hostConn] \o Append(outq, m) = Append(toHost[hostConn] \o outq, m)
      <3>1. hostConn # None => toHost[hostConn] \in Seq(Message) /\ outq \in Seq(Message)
        BY DEF HostTypeOK, HostConnOK, AnswerTypeOK
      <3> QED
        BY <3>1, AppendBehind
    <2> QED
      BY <1>1, <1>4, <2>1, <2>2 DEF OnWay
  <1>6. /\ q.txid \in Nat /\ q.txid # 0 /\ q = RequestOf(q.session, q.txid)
        /\ m.txid >= 2 => q.txid # 1
    BY <1>1, <1>2, RequestIs
  <1>7. IsFor(Ack(q), q.op) /\ (m.of = q.op => IsFor(m, q.op))
    BY <1>1, AnswersAreMessages DEF IsFor
  <1>8. Greeted => Apt(m) /\ AptIn(session', lastResponse')
    <2> SUFFICES ASSUME Greeted PROVE Apt(m) /\ Apt(lastResponse')
      BY <1>1 DEF Apt
    <2>1. Apt(lastResponse) /\ (q.txid = 1 \/ q.session = session)
      BY <1>1 DEF AnswersInv, Clean
    <2>2. CASE m = lastResponse
      BY <1>2, <2>1, <2>2
    <2>3. CASE m # lastResponse
      <3>1. IsFor(m, q.op)
        BY <1>2, <1>7, <2>3
      <3>2. m.txid >= 2 => RequestOf(session, m.txid) = q
        BY <1>2, <1>6, <2>1
      <3>3. Apt(m)
        BY <3>1, <3>2 DEF Apt, AptIn
      <3> QED
        BY <1>2, <2>1, <3>3
    <2> QED
      BY <2>2, <2>3
  <1>9. Greeted' => Clean' /\ Apt(lastResponse)'
    <2>1. CASE Greeted
      <3>1. Clean'
        BY <1>1, <2>1 DEF AnswersInv, Clean
      <3> QED
        BY <1>8, <2>1, <3>1 DEF Apt
    <2>2. CASE ~Greeted
      <3> SUFFICES ASSUME Greeted' PROVE Clean' /\ Apt(lastResponse)'
        OBVIOUS
      <3>1. ~ShookHands'
        BY <1>1, <2>2 DEF Greeted, ShookHands
      <3>2. /\ Endpoint = hostConn /\ hostConn # None /\ q.txid = 1
        <4>1. OnWay' # OnWay
          BY <2>2, <3>1 DEF Greeted
        <4>2. Elems(OnWay') = Elems(OnWay) \cup {m}
          BY <1>3, <1>5, <4>1, MessageAppended
        <4> QED
          BY <1>2, <1>5, <2>2, <3>1, <4>1, <4>2 DEF Greeted
      <3>3. Clean'
        BY <1>1, <3>2, NothingBehind
      <3>4. Apt(lastResponse')
        BY <1>2, <3>2 DEF Apt, AptIn
      <3> QED
        BY <1>1, <3>3, <3>4 DEF Apt
    <2> QED
      BY <2>1, <2>2
  <1> QED
    BY <1>1, <1>3, <1>5, <1>8, <1>9, AnswersGrow

(* An answer is sent: it leaves the queue for the connection there is. *)
LEMMA TransmitIs ==
    ASSUME ServerInv, HostTypeOK, LinksInv, NEW m, Transmit(m), UNCHANGED <<transport, port>>
    PROVE  \/ /\ Endpoint \in Conn /\ Endpoint' = Endpoint
              /\ toHost' = [toHost EXCEPT ![Endpoint] = Append(@, m)]
           \/ /\ Endpoint = None \/ Endpoint # hostConn
              /\ Endpoint' \in {Endpoint, None}
              /\ \A c \in Conn \ {Endpoint} : toHost'[c] = toHost[c]
  <1>1. socket \in Conn \cup {None} /\ (socket # None => socket # Line)
    BY DEF ServerInv, TcpTypeOK, OneHost
  <1>2. CASE transport = "Serial"
    <2>1. socket = None /\ Endpoint = (IF port THEN Line ELSE None)
      BY <1>2 DEF LinksInv, TransportInv, Endpoint
    <2>2. UNCHANGED socket /\ toHost' = IF port THEN [toHost EXCEPT ![Line] = Append(@, m)] ELSE toHost
      BY <1>2 DEF Transmit
    <2>3. Endpoint' = Endpoint
      BY <1>2, <2>2 DEF Endpoint
    <2> QED
      BY <2>1, <2>2, <2>3, LineIsConn
  <1>3. CASE transport # "Serial"
    <2>1. Endpoint = socket /\ Endpoint' = socket'
      <3>1. transport # "Tcp" => socket = None /\ SendBytes(m)
        BY <1>3 DEF LinksInv, TransportInv, Transmit
      <3>2. transport # "Tcp" => socket' = None
        BY <3>1 DEF SendBytes, tcpVars
      <3> QED
        BY <1>3, <3>1, <3>2 DEF Endpoint
    <2>2. SendBytes(m)
      BY <1>3 DEF Transmit
    <2>3. CASE socket = None
      <3>1. UNCHANGED <<socket, toHost>>
        BY <2>2, <2>3 DEF SendBytes, tcpVars, linkVars
      <3> QED
        BY <2>1, <2>3, <3>1
    <2>4. CASE socket # None /\ peer[socket] = "up"
      <3>1. UNCHANGED socket /\ toHost' = [toHost EXCEPT ![socket] = Append(@, m)]
        BY <2>2, <2>4 DEF SendBytes
      <3> QED
        BY <1>1, <2>1, <2>4, <3>1
    <2>5. CASE socket # None /\ peer[socket] # "up"
      <3>1. socket # hostConn
        BY <1>1, <2>5 DEF LinksInv, EndsInv, EndOK
      <3>2. /\ socket' \in {socket, None}
            /\ \A c \in Conn \ {socket} : toHost'[c] = toHost[c]
        BY <2>2, <2>5 DEF SendBytes, DiscardSocket, Close
      <3> QED
        BY <2>1, <3>1, <3>2
    <2> QED
      BY <2>3, <2>4, <2>5
  <1> QED
    BY <1>2, <1>3

LEMMA OnWaySent ==
    ASSUME ServerInv, HostTypeOK, AnswerTypeOK, LinksInv, Tx, UNCHANGED hostConn
    PROVE  OnWay' = OnWay
  <1>1. /\ outq \in Seq(Message) /\ outq # <<>> /\ outq' = Tail(outq)
        /\ Transmit(Head(outq)) /\ UNCHANGED <<transport, port>>
        /\ hostConn = None \/ hostConn \in Conn
    BY DEF Tx, AnswerTypeOK, HostTypeOK, HostConnOK
  <1>2. CASE Endpoint \in Conn /\ Endpoint' = Endpoint
             /\ toHost' = [toHost EXCEPT ![Endpoint] = Append(@, Head(outq))]
    <2>1. CASE hostConn = Endpoint
      <3>1. toHost[hostConn] \in Seq(Message) /\ hostConn # None
        BY <1>2, <2>1, NoneIsNoConn DEF AnswerTypeOK
      <3>2. toHost'[hostConn] = Append(toHost[hostConn], Head(outq))
        BY <1>2, <2>1 DEF AnswerTypeOK
      <3>3. Append(toHost[hostConn], Head(outq)) \o Tail(outq) = toHost[hostConn] \o outq
        BY <1>1, <3>1
      <3> QED
        BY <1>1, <1>2, <2>1, <3>1, <3>2, <3>3 DEF OnWay
    <2>2. CASE hostConn # Endpoint
      <3>1. hostConn # None => toHost'[hostConn] = toHost[hostConn]
        BY <1>1, <1>2, <2>2 DEF AnswerTypeOK
      <3> QED
        BY <1>2, <2>2, <3>1 DEF OnWay
    <2> QED
      BY <2>1, <2>2
  <1>3. CASE /\ Endpoint = None \/ Endpoint # hostConn
             /\ Endpoint' \in {Endpoint, None}
             /\ \A c \in Conn \ {Endpoint} : toHost'[c] = toHost[c]
    BY <1>1, <1>3, NoneIsNoConn DEF OnWay
  <1> QED
    BY <1>1, <1>2, <1>3, TransmitIs
LEMMA AnswersInitially == Init => AnswersInv
  <1> SUFFICES ASSUME Init PROVE AnswersInv
    OBVIOUS
  <1>1. OnWay = <<>> /\ ~ShookHands /\ ~stray
    BY DEF Init, OnWay, ShookHands
  <1>2. Elems(<<>>) = {} /\ \A i \in DOMAIN <<>> : FALSE
    BY DEF Elems
  <1>3. ~Greeted /\ Settled(OnWay)
    BY <1>1, <1>2 DEF Greeted, Settled
  <1> QED
    BY <1>1, <1>3 DEF AnswersInv

(* A request is sent: only by a host that has what it waited for. *)
LEMMA AnswersSend ==
    ASSUME ServerInv, HostTypeOK, LinksInv, OrderInv, AnswersInv, NewRequest \/ Retry
    PROVE  AnswersInv'
  <1>1. /\ UNCHANGED <<hostConn, toHost, outq, socket, transport, port, session, stray,
                       lastResponse>>
        /\ NewRequest => answered /\ number' = number + 1 /\ ~answered'
        /\ Retry => UNCHANGED <<number, answered>>
    BY DEF NewRequest, Retry, Send, hostVars, firmwareVars, outVars
  <1>2. number \in Nat
    BY DEF HostTypeOK
  <1>3. ShookHands' => ShookHands
    BY <1>1, <1>2 DEF ShookHands
  <1>4. OnWay' = OnWay
    BY <1>1, OnWaySame
  <1>5. Clean => Clean'
    <2>1. PICK r \in Requests : /\ r.session = session
                                /\ InPipe' \subseteq InPipe \cup Elems(Pieces(r))
      BY SendsInOrder
    <2>2. \A p \in Elems(Pieces(r)) : p.req = r
      BY PiecesAre
    <2>3. Clean => \A p \in InPipe' : p.req.txid = 1 \/ p.req.session = session
      BY <2>1, <2>2 DEF Clean
    <2> QED
      BY <1>1, <2>3 DEF Clean
  <1> QED
    BY <1>1, <1>3, <1>4, <1>5, AnswersKept

LEMMA AnswersStep ==
    ASSUME ServerInv, HostTypeOK, AnswerTypeOK, LinksInv, OrderInv, ParserInv, HandshakeInv,
           AnswersInv, [Next]_vars
    PROVE  AnswersInv'
  <1>a. HostTypeOK' /\ AnswerTypeOK'
    BY HostTypeStep, AnswerTypeStep
  <1>b. ~((NewRequest \/ Retry) /\ phase = "loop") => InPipe' \subseteq InPipe
    BY OrderQuiet
  <1>c. UNCHANGED session /\ InPipe' \subseteq InPipe => (Clean => Clean')
    BY DEF Clean
  <1>d. UNCHANGED <<number, answered>> => (ShookHands' => ShookHands)
    BY DEF ShookHands
  <1>e. phase \in {"loop", "crashed"} => outq = <<>>
    BY DEF ParserInv
  <1>f. ASSUME NEW S, Close(S) PROVE \A c \in Conn : toHost'[c] = toHost[c] \/ toHost'[c] = <<>>
    BY <1>f DEF Close
  <1>1. CASE (NewRequest \/ Retry) /\ phase = "loop"
    BY <1>1, AnswersSend
  <1> DEFINE Others == ~((NewRequest \/ Retry) /\ phase = "loop")
             Same == /\ UNCHANGED <<session, number, answered, stray>>
                     /\ lastResponse' = lastResponse \/ lastResponse' = NoResponse
                     /\ OnWay' = OnWay \/ OnWay' = <<>>
  <1>g. Others /\ Same => AnswersInv'
    BY <1>b, <1>c, <1>d, AnswersKept
  <1> HIDE DEF Others, Same
  <1>2. CASE Others /\ phase = "loop" /\ Receive
    BY <1>2, <1>e, AnswersReceive
  <1>3. CASE Others /\ phase = "loop" /\ (Connect \/ Reconnect \/ Lose)
    <2>1. /\ UNCHANGED <<session, number, answered, stray, lastResponse, outq>>
          /\ outq = <<>>
      BY <1>3, <1>e DEF Connect, Reconnect, Lose, firmwareVars, outVars
    <2>2. CASE Connect
      <3>1. hostConn' \in Conn /\ toHost'[hostConn'] = <<>>
        <4>1. CASE ConnectTcp
          <5>1. /\ hostConn' \in Conn \ {Line} /\ conn[hostConn'] = "unused"
                /\ UNCHANGED toHost
            BY <4>1 DEF ConnectTcp, Unused
          <5> QED
            BY <5>1 DEF LinksInv, EndsInv, EndOK
        <4>2. CASE OpenLine
          BY <4>2, LineIsConn DEF OpenLine, AnswerTypeOK
        <4> QED
          BY <2>2, <4>1, <4>2 DEF Connect
      <3>2. <<>> \o <<>> = <<>>
        OBVIOUS
      <3>3. OnWay' = <<>>
        BY <2>1, <3>1, <3>2 DEF OnWay
      <3> QED
        BY <1>3, <1>g, <2>1, <3>3 DEF Same
    <2>3. CASE Reconnect \/ Lose
      <3>1. hostConn' = None
        BY <2>3 DEF Reconnect, Lose
      <3>2. OnWay' = <<>>
        BY <3>1 DEF OnWay
      <3> QED
        BY <1>3, <1>g, <2>1, <3>2 DEF Same
    <2> QED
      BY <1>3, <2>2, <2>3
  <1>4. CASE Others /\ phase = "loop" /\ Drop
    <2>1. UNCHANGED <<session, number, answered, stray, lastResponse, hostConn, toHost, outq,
                      socket, transport, port>>
      BY <1>4 DEF Drop, hostVars, firmwareVars, outVars
    <2> QED
      BY <1>4, <1>g, <2>1, OnWaySame DEF Same
  <1>5. CASE phase = "loop" /\ HostRestarts
    <2>1. number' = 0 /\ hostConn' = None /\ UNCHANGED stray
      BY <1>5 DEF HostRestarts
    <2>2. OnWay' = <<>> /\ ~ShookHands'
      BY <2>1 DEF OnWay, ShookHands
    <2>3. Elems(<<>>) = {} /\ \A i \in DOMAIN <<>> : FALSE
      BY DEF Elems
    <2>4. ~Greeted' /\ Settled(OnWay)'
      BY <2>2, <2>3 DEF Greeted, Settled
    <2> QED
      BY <2>1, <2>2, <2>4 DEF AnswersInv
  <1>6. CASE /\ Others
             /\ \/ Click
                \/ UNCHANGED <<hostVars, events>> /\ (Accept \/ \E c \in Conn : Discard(c))
    <2>1. /\ UNCHANGED <<session, number, answered, stray, lastResponse, hostConn, outq>>
          /\ phase = "loop"
      BY <1>6 DEF Click, StartTransport, Accept, Discard, hostVars, firmwareVars, outVars
    <2>2. \A c \in Conn : toHost'[c] = toHost[c] \/ toHost'[c] = <<>>
      BY <1>6, <1>f DEF Click, StartTransport, Accept, OnNewConnection, Serve, Discard,
                        Disconnected, DiscardSocket
    <2>3. OnWay' = OnWay \/ OnWay' = <<>>
      BY <1>a, <1>e, <2>1, <2>2, OnWayCleared
    <2> QED
      BY <1>6, <1>g, <2>1, <2>3 DEF Same
  <1>7. CASE Others /\ JobEnds
    <2>1. /\ UNCHANGED <<session, number, answered, stray, hostConn, toHost>>
          /\ Push(JobEndNotice) /\ UNCHANGED <<socket, transport, port>>
      BY <1>7 DEF JobEnds, Notify, hostVars, tcpVars, linkVars
    <2>2. /\ JobEndNotice \in Message /\ JobEndNotice.txid = 0 /\ lastResponse' = lastResponse
          /\ outq' = outq \/ outq' = Append(outq, JobEndNotice)
      BY <2>1, NoticeIsMessage DEF Push, Remembered, NoTxid, JobEndNotice
    <2>3. Endpoint' = Endpoint
      BY <2>1 DEF Endpoint
    <2>4. OnWay' = OnWay \/ OnWay' = Append(OnWay, JobEndNotice)
      <3>1. hostConn # None =>
               toHost[hostConn] \o Append(outq, JobEndNotice)
                  = Append(toHost[hostConn] \o outq, JobEndNotice)
        <4>1. hostConn # None => toHost[hostConn] \in Seq(Message) /\ outq \in Seq(Message)
          BY DEF HostTypeOK, HostConnOK, AnswerTypeOK
        <4> QED
          BY <2>2, <4>1, AppendBehind
      <3> QED
        BY <2>1, <2>2, <2>3, <3>1 DEF OnWay
    <2>5. OnWay \in Seq(Message)
      BY OnWayIsMessages
    <2>6. Greeted' => Greeted
      <3>1. Elems(OnWay') \subseteq Elems(OnWay) \cup {JobEndNotice}
        BY <2>2, <2>4, <2>5, MessageAppended
      <3> QED
        BY <2>1, <2>2, <3>1 DEF Greeted, ShookHands
    <2>7. Apt(JobEndNotice)
      BY <2>2 DEF Apt, AptIn
    <2>8. Greeted' => Clean' /\ Apt(lastResponse)'
      BY <1>7, <1>b, <1>c, <2>1, <2>2, <2>6 DEF AnswersInv, Apt, Others
    <2> QED
      BY <2>1, <2>2, <2>4, <2>5, <2>7, <2>8, AnswersGrow
  <1>8. CASE Others /\ UNCHANGED <<hostVars, events>>
             /\ (Read \/ ParseSkip \/ ParseEnds \/ TxEnds)
    <2>1. UNCHANGED <<session, number, answered, stray, lastResponse, hostConn, toHost, outq,
                      socket, transport, port>>
      BY <1>8 DEF Read, ParseSkip, ParseEnds, TxEnds, hostVars, firmwareVars, outVars, tcpVars,
                  linkVars
    <2> QED
      BY <1>8, <1>g, <2>1, OnWaySame DEF Same
  <1>9. CASE Others /\ UNCHANGED <<hostVars, events>> /\ ParseMessage
    <2>1. InPipe' \subseteq InPipe
      BY <1>9, <1>b DEF Others
    <2> QED
      BY <1>9, <2>1, AnswersParse
  <1>10. CASE Others /\ UNCHANGED <<hostVars, events>> /\ Tx
    <2>1. UNCHANGED <<session, number, answered, stray, lastResponse, hostConn>>
      BY <1>10 DEF Tx, hostVars
    <2>2. OnWay' = OnWay
      BY <1>10, <2>1, OnWaySent
    <2> QED
      BY <1>10, <1>g, <2>1, <2>2 DEF Same
  <1>11. CASE Others /\ UNCHANGED <<hostVars, events>> /\ Relaunch
    <2>1. /\ UNCHANGED <<session, number, answered, stray, hostConn>>
          /\ lastResponse' = NoResponse /\ outq' = <<>> /\ phase = "crashed" /\ Close(Conn)
      BY <1>11 DEF Relaunch, hostVars
    <2>2. OnWay' = OnWay \/ OnWay' = <<>>
      BY <1>a, <1>e, <1>f, <2>1, OnWayCleared
    <2> QED
      BY <1>11, <1>g, <2>1, <2>2 DEF Same
  <1>12. CASE Others /\ UNCHANGED vars
    <2>1. UNCHANGED <<session, number, answered, stray, lastResponse, hostConn, toHost, outq,
                      socket, transport, port>>
      BY <1>12 DEF vars, workerVars, hostVars, firmwareVars, outVars, tcpVars, linkVars
    <2> QED
      BY <1>12, <1>g, <2>1, OnWaySame DEF Same
  <1>13. CASE Others /\ phase = "loop" /\ Host
    <2>1. ~NewRequest /\ ~Retry
      BY <1>13 DEF Others
    <2> QED
      BY <1>2, <1>3, <1>4, <1>5, <1>13, <2>1 DEF Host
  <1>14. CASE Others /\ UNCHANGED <<hostVars, events>> /\ Worker
    BY <1>6, <1>8, <1>9, <1>10, <1>11, <1>14 DEF Worker, Slot, Running
  <1>15. CASE Others
    BY <1>6, <1>7, <1>12, <1>13, <1>14, <1>15 DEF Next
  <1> QED
    BY <1>1, <1>15 DEF Others

-----------------------------------------------------------------------------
(* All of it together. *)
ConnectionsInv == /\ ServerInv /\ HostTypeOK /\ AnswerTypeOK /\ LinksInv
                  /\ OrderInv /\ OnceInv /\ ParserInv /\ HandshakeInv /\ AnswersInv

(* What holds of a worker and its hosts in every reachable state: the      *)
(* server's books (SimWorker, TcpTransport), the order of the requests on  *)
(* their way, what the firmware remembers of them, and the answers that    *)
(* wait (FirmwareSim::process(), CmdQueue).                                *)
THEOREM ConnectionsInvariant == Spec => []ConnectionsInv
  <1>1. Init => ConnectionsInv
    BY TcpInitially, HostTypeInitially, AnswerTypeInitially, LinksInitially, OrderInitially,
       ParserInitially, HandshakeInitially, AnswersInitially DEF ConnectionsInv
  <1>2. ConnectionsInv /\ [Next]_vars => ConnectionsInv'
    <2> SUFFICES ASSUME ConnectionsInv, [Next]_vars PROVE ConnectionsInv'
      OBVIOUS
    <2>1. /\ ServerInv /\ HostTypeOK /\ AnswerTypeOK /\ LinksInv
          /\ OrderInv /\ OnceInv /\ ParserInv /\ HandshakeInv /\ AnswersInv
      BY DEF ConnectionsInv
    <2>2. ServerInv'
      BY <2>1, ServerStep DEF HostTypeOK
    <2>3. HostTypeOK' /\ AnswerTypeOK' /\ LinksInv'
      BY <2>1, HostTypeStep, AnswerTypeStep, LinksStep
    <2>4. OrderInv' /\ OnceInv'
      BY <2>1, OrderStep, OnceStep
    <2>5. ParserInv' /\ HandshakeInv' /\ AnswersInv'
      BY <2>1, ParserStep, HandshakeStep, AnswersStep
    <2> QED
      BY <2>2, <2>3, <2>4, <2>5 DEF ConnectionsInv
  <1> QED
    BY <1>1, <1>2, PTL DEF Spec

(* An answer the host takes for the answer to its last request is one,     *)
(* over any number of connections, restarts of the host and of the         *)
(* transport, for any number of requests (the retry memory of              *)
(* FirmwareSim::process()).                                                *)
THEOREM AnswersStayHome == Spec => []AnswersGoHome
  <1>1. ConnectionsInv => AnswersGoHome
    BY DEF ConnectionsInv, AnswersInv, AnswersGoHome
  <1> QED
    BY <1>1, ConnectionsInvariant, PTL

(* A request that is sent again, on whatever connection, has its effect    *)
(* once (m_last_txid and m_last_response outlive a connection).            *)
THEOREM OnceOnly == Spec => []OnceAcrossConnections
  <1>1. ConnectionsInv => OnceAcrossConnections
    BY DEF ConnectionsInv, OnceInv, OnceAcrossConnections
  <1> QED
    BY <1>1, ConnectionsInvariant, PTL
=============================================================================
