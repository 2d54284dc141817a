---------------------------- MODULE Connections -----------------------------
(***************************************************************************)
(* The worker with a host that talks to it over connections that break.    *)
(* The host (external) connects, numbers its requests from 1, waits for    *)
(* the answer before it makes the next, and sends a request again, on a    *)
(* new connection if need be, until it is answered (lbp/spec.md, "Rules    *)
(* for LightBurn").  A host that is started again begins with a handshake  *)
(* under number 1.  The operator starts and stops the transport.           *)
(***************************************************************************)
EXTENDS SimWorker

CONSTANTS MaxRequests,       \* requests the host numbers in one session
          MaxEvents,         \* connections that break, hosts that restart,
                             \* transports that are started, jobs that end
          MaxInFlight,       \* pieces on their way on one connection
          MaxUnread,         \* answers it has not read when more are on their way
          Kinds,             \* the transports the operator may choose
          RequestOf(_, _)    \* the request of a session with a number

(* Requests of different sessions are told apart here, not by the code.    *)
ASSUME ConnectionsAssumption ==
    /\ MaxRequests \in Nat /\ MaxEvents \in Nat
    /\ "handshake" \in Effectless
    /\ \A s \in 0..MaxEvents, n \in 1..MaxRequests :
          LET r == RequestOf(s, n)
          IN  /\ r.session = s /\ r.txid = n /\ r.op \in KnownOps /\ r.size \in Nat
              /\ n = 1 => r.op = "handshake" /\ r.size = 0

VARIABLES hostConn,          \* the connection the host uses
          session, number,   \* its number of restarts, and of requests
          answered,          \* has it the answer to the last of these?
          stray,             \* history: an answer it took was not to that
          events            \* how many there were

hostVars == <<hostConn, session, number, answered, stray>>
vars == <<workerVars, hostVars, events>>

Init == /\ WorkerInit
        /\ hostConn = None /\ session = 0 /\ number = 0
        /\ answered = TRUE /\ stray = FALSE
        /\ events = 0

Current == RequestOf(session, number)

-----------------------------------------------------------------------------
(* Sending: what is written to a closed connection or port is lost. *)
Arrives(c) == IF c = Line THEN port ELSE conn[c] \in {"pending", "accepted"}

Send(req) ==
    /\ hostConn # None
    /\ Len(toDevice[hostConn]) + req.size < MaxInFlight
    /\ Len(toHost[hostConn]) <= MaxUnread
    /\ toDevice' = IF Arrives(hostConn)
                   THEN [toDevice EXCEPT ![hostConn] = @ \o Pieces(req)] ELSE toDevice
    /\ UNCHANGED <<listening, socket, backlog, conn, peer, toHost, transport, port, phase,
                   firmwareVars, events>>

NewRequest == /\ answered /\ number < MaxRequests
              /\ number' = number + 1 /\ answered' = FALSE
              /\ Send(RequestOf(session, number + 1))
              /\ UNCHANGED <<hostConn, session, stray>>

Retry == ~answered /\ Send(Current) /\ UNCHANGED hostVars

(* An answer with the number of the last request is taken to be for it. *)
Receive ==
    /\ hostConn # None /\ toHost[hostConn] # <<>>
    /\ toHost' = [toHost EXCEPT ![hostConn] = Tail(@)]
    /\ LET m == Head(toHost[hostConn])
           taken == ~answered /\ m.txid = number
       IN  /\ answered' = (answered \/ taken)
           /\ stray' = (stray \/ (taken /\ m.cmd # Current.op /\ m.of # Current.op))
    /\ UNCHANGED <<listening, socket, backlog, conn, peer, toDevice, transport, port, phase,
                   firmwareVars, hostConn, session, number, events>>

-----------------------------------------------------------------------------
(* Connections come and go.  One that breaks may lose the end of what was  *)
(* sent on it, in the middle of a message.  A serial port that is opened   *)
(* has nothing to read yet.                                                *)
Unused == {c \in Conn \ {Line} : conn[c] = "unused"}

ConnectTcp == /\ listening /\ Unused # {}
              /\ LET c == CHOOSE u \in Unused : TRUE
                 IN  /\ hostConn' = c
                     /\ conn' = [conn EXCEPT ![c] = "pending"]
                     /\ backlog' = Append(backlog, c)
              /\ UNCHANGED toHost

OpenLine == /\ "Serial" \in Kinds /\ hostConn' = Line
            /\ toHost' = [toHost EXCEPT ![Line] = <<>>]
            /\ UNCHANGED <<conn, backlog>>

Connect == /\ hostConn = None
           /\ ConnectTcp \/ OpenLine
           /\ UNCHANGED <<listening, socket, peer, toDevice, transport, port, phase,
                          firmwareVars, session, number, answered, stray, events>>

(* The host sees that the server has closed, or drops a line that is dead. *)
Reconnect ==
    /\ hostConn # None /\ hostConn' = None
    /\ IF hostConn = Line
       THEN ~port /\ UNCHANGED linkVars
       ELSE /\ conn[hostConn] = "closed"
            /\ conn' = [conn EXCEPT ![hostConn] = "unused"]
            /\ toHost' = [toHost EXCEPT ![hostConn] = <<>>]
            /\ UNCHANGED <<peer, toDevice>>
    /\ UNCHANGED <<listening, socket, backlog, transport, port, phase, firmwareVars,
                   session, number, answered, stray, events>>

(* The host leaves: the server is told, or it is not. *)
Break(how) ==
    /\ hostConn \notin {None, Line} /\ conn[hostConn] \in {"pending", "accepted"}
    /\ peer' = [peer EXCEPT ![hostConn] = how]
    /\ \E n \in 0..Len(toDevice[hostConn]) :
          toDevice' = [toDevice EXCEPT ![hostConn] = SubSeq(@, 1, n)]
    /\ toHost' = [toHost EXCEPT ![hostConn] = <<>>]
    /\ UNCHANGED conn

Event == events < MaxEvents /\ events' = events + 1

Lose == /\ Event /\ hostConn' = None
        /\ \E how \in {"closed", "silent"} : Break(how)
        /\ UNCHANGED <<listening, socket, backlog, transport, port, phase, firmwareVars,
                       session, number, answered, stray>>

(* A serial line without flow control drops a piece. *)
Drop == /\ Event
        /\ \E n \in DOMAIN toDevice[Line] :
              toDevice' = [toDevice EXCEPT ![Line] =
                              SubSeq(@, 1, n - 1) \o SubSeq(@, n + 1, Len(@))]
        /\ UNCHANGED <<listening, socket, backlog, conn, peer, toHost, transport, port, phase,
                       firmwareVars, hostVars>>

(* Starting a host again takes longer than what is on a serial line.       *)
HostRestarts == /\ Event /\ session' = session + 1
                /\ number' = 0 /\ answered' = TRUE
                /\ hostConn' = None
                /\ \/ Break("closed")
                   \/ hostConn \in {None, Line} /\ UNCHANGED linkVars
                /\ toDevice[Line] = <<>>
                /\ UNCHANGED <<listening, socket, backlog, transport, port, phase,
                               firmwareVars, stray>>

Click == /\ Event
         /\ \E kind \in Kinds : StartTransport(kind)
         /\ UNCHANGED hostVars

JobEnds == Event /\ Notify /\ UNCHANGED hostVars

(* What the host does while a slot runs is as if it were done before the   *)
(* slot began or after it returned: a slot only appends to what the host   *)
(* reads, and reads what has arrived at its beginning.                     *)
Host == \/ NewRequest \/ Retry \/ Receive
        \/ Connect \/ Reconnect
        \/ Lose \/ Drop \/ HostRestarts

Next == \/ phase = "loop" /\ Host
        \/ Click
        \/ JobEnds
        \/ Worker /\ UNCHANGED <<hostVars, events>>

(* The event loop serves its slots, what a slot calls returns, and a       *)
(* patient host tries again.  That a connection ended must be noticed      *)
(* however often new ones are turned away meanwhile.  Nobody has to break  *)
(* or restart anything.                                                    *)
Fairness ==
    /\ WF_vars(Running /\ UNCHANGED <<hostVars, events>>)
    /\ SF_vars(Read /\ UNCHANGED <<hostVars, events>>)
    /\ SF_vars(Accept /\ UNCHANGED <<hostVars, events>>)
    /\ SF_vars((\E c \in Conn : Discard(c)) /\ UNCHANGED <<hostVars, events>>)
    /\ SF_vars(phase = "loop" /\ (Receive \/ Connect \/ Reconnect))
    /\ SF_vars(phase = "loop" /\ Retry)

Spec == Init /\ [][Next]_vars /\ Fairness

-----------------------------------------------------------------------------
(* An answer the host takes for the answer to its last request is one: not *)
(* one of an earlier session that used the number, though the firmware     *)
(* remembers an answer over any number of connections.                     *)
AnswersGoHome == ~stray

(* A request that is sent again over a new connection, because the old one *)
(* broke before its answer came, has its effect once.                      *)
OnceAcrossConnections == ~twice

(* Hosts come back: a request is answered in the end, over whatever        *)
(* connections, unless the host is started again, the transport is deaf or *)
(* of the other kind, the program is gone, or the server still holds a     *)
(* connection whose host fell silent.  Half a message that an earlier      *)
(* connection left in the parser delays an answer, but only by retries.    *)
Deaf == \/ transport = "Tcp" /\ ~listening
        \/ transport = "Serial" /\ ~port
        \/ transport = "None"
        \/ transport = "Tcp" /\ hostConn = Line
        \/ transport = "Serial" /\ hostConn # Line
Blocked == phase = "crashed" \/ Deaf \/ (socket # None /\ peer[socket] = "silent")

EventuallyAnswered == ~answered ~> answered \/ Blocked
=============================================================================
