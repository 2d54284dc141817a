----------------------------- MODULE SimWorker ------------------------------
(***************************************************************************)
(* The worker (lbp-simulator/simworker.cpp) between a transport and the    *)
(* firmware: the user interface starts and stops the transport, bytes go   *)
(* to the firmware's parser, answers go to the transport there is.  What   *)
(* the firmware remembers outlives every connection: the bytes its parser  *)
(* has not used, the last transaction id and the last response.            *)
(*                                                                         *)
(* A message travels as pieces: a head, which says how many follow, and    *)
(* these.  A parser that finds other pieces behind a head (by the          *)
(* checksum) goes on behind that head, as module Parser shows.  What a     *)
(* request does to the machine is module FirmwareSim; here it has an       *)
(* effect, or is rejected.                                                 *)
(***************************************************************************)
EXTENDS TcpTransport, OutputQueue, FiniteSets

CONSTANTS Line,              \* the serial line, one of Conn
          Effectless         \* commands without an effect

ASSUME LineIsConn == Line \in Conn

VARIABLES transport,         \* m_transport: "None", "Tcp" or "Serial"
          port,              \* is the serial port open?
          phase,             \* what the worker's thread is in
          buffer,            \* in the firmware's parser, not yet used
          lastTxid,          \* m_last_txid
          acted, twice       \* history: the requests that took effect, and
                             \* whether one of them did so again

firmwareVars == <<buffer, lastTxid, acted, twice, outVars>>
workerVars == <<tcpVars, transport, port, phase, firmwareVars>>

(* "read": a slot of the transport, parsing in rxCallback(), and "tx":     *)
(* sending what that left to send.  "notify": sending from step().         *)
Phases == {"loop", "read", "tx", "notify", "crashed"}

FirmwareInit == /\ buffer = <<>> /\ lastTxid = NoTxid
                /\ acted = {} /\ twice = FALSE
                /\ OutInit

WorkerInit == /\ TcpInit /\ FirmwareInit
              /\ transport = "None" /\ port = FALSE /\ phase = "loop"

(* Where bytes come from and answers go to. *)
Endpoint == CASE transport = "Tcp"             -> socket
              [] transport = "Serial" /\ port  -> Line
              [] OTHER                         -> None

-----------------------------------------------------------------------------
(* Starting stops first, and a kind "None" only stops.  A port that cannot *)
(* be taken leaves a transport that is deaf, until it is started again.    *)
StartTransport(kind) ==
    /\ phase = "loop"
    /\ transport' = kind
    /\ socket' = None /\ backlog' = <<>>
    /\ listening' \in (IF kind = "Tcp" THEN BOOLEAN ELSE {FALSE})
    /\ port' \in (IF kind = "Serial" THEN BOOLEAN ELSE {FALSE})
    /\ Close(Held \cup {Line})
    /\ UNCHANGED <<phase, firmwareVars>>

-----------------------------------------------------------------------------
(* readSocket(), onBytesReady(): all that has arrived goes to the parser.  *)
Read == /\ phase = "loop" /\ phase' = "read"
        /\ Endpoint # None
        /\ \E n \in 1..Len(toDevice[Endpoint]) :
              /\ buffer' = buffer \o SubSeq(toDevice[Endpoint], 1, n)
              /\ toDevice' = [toDevice EXCEPT ![Endpoint] = SubSeq(@, n + 1, Len(@))]
        /\ UNCHANGED <<listening, socket, backlog, conn, peer, toHost, transport, port,
                       lastTxid, acted, twice, outVars>>

Pieces(req) == [i \in 1..(req.size + 1) |-> [req |-> req, piece |-> i]]

IsHead(p) == p.piece = 1
CanParse == buffer # <<>> /\ (IsHead(buffer[1]) => Len(buffer) > buffer[1].req.size)
IsMessage == /\ IsHead(buffer[1])
             /\ SubSeq(buffer, 1, buffer[1].req.size + 1) = Pieces(buffer[1].req)

Repeated(req) == req.txid = lastTxid /\ HasResponse(req.txid)

(* Mutant: a handshake is answered before the memory of retries is asked.  *)
MutEvaluate(req) ==
    IF req.op \in Effectless
    THEN /\ outq' = Append(outq, Ack(req))
         /\ UNCHANGED <<lastResponse, overflowed, lastTxid, acted, twice>>
    ELSE /\ lastTxid' = req.txid
         /\ Respond(req)
         /\ acted' = acted \cup {req} /\ twice' = (twice \/ req \in acted)

Evaluate(req) ==
    /\ lastTxid' = req.txid
    /\ \/ /\ Respond(req)
          /\ IF req.op \in Effectless THEN UNCHANGED <<acted, twice>>
             ELSE acted' = acted \cup {req} /\ twice' = (twice \/ req \in acted)
       \/ /\ req.op \notin Effectless
          /\ Nack(req, "err_queue_full")
          /\ UNCHANGED <<acted, twice>>

(* FirmwareSim::process(). *)
Process(req) == IF Repeated(req)
                THEN Push(lastResponse) /\ UNCHANGED <<lastTxid, acted, twice>>
                ELSE Evaluate(req)

ParseMessage == /\ phase = "read" /\ CanParse /\ IsMessage
                /\ Process(buffer[1].req)
                /\ buffer' = SubSeq(buffer, buffer[1].req.size + 2, Len(buffer))
                /\ UNCHANGED <<tcpVars, transport, port, phase>>

ParseSkip == /\ phase = "read" /\ CanParse /\ ~IsMessage
             /\ buffer' = Tail(buffer)
             /\ UNCHANGED <<tcpVars, transport, port, phase, lastTxid, acted, twice,
                            outVars>>

ParseEnds == /\ phase = "read" /\ ~CanParse
             /\ phase' = "tx"
             /\ UNCHANGED <<tcpVars, transport, port, firmwareVars>>

-----------------------------------------------------------------------------
(* The end of a job, which step() tells the host on its own. *)
Notify == /\ phase = "loop" /\ phase' = "notify"
          /\ Push(JobEndNotice)
          /\ UNCHANGED <<tcpVars, transport, port, buffer, lastTxid, acted, twice>>

(* onTransportTx(), for one message: without a transport it is dropped. *)
Transmit(m) ==
    IF transport = "Serial"
    THEN /\ toHost' = IF port THEN [toHost EXCEPT ![Line] = Append(@, m)] ELSE toHost
         /\ UNCHANGED <<listening, socket, backlog, conn, peer, toDevice>>
    ELSE SendBytes(m)

Tx == /\ phase \in {"tx", "notify"}
      /\ outq # <<>>
      /\ Transmit(Head(outq))
      /\ outq' = Tail(outq)
      /\ UNCHANGED <<lastResponse, overflowed, transport, port, phase, buffer,
                     lastTxid, acted, twice>>

(* readSocket() asks m_socket for more when rxBytes() returns, though the  *)
(* answers may have been the end of it.                                    *)
TxEnds == /\ phase \in {"tx", "notify"}
          /\ outq = <<>>
          /\ phase' = IF phase = "tx" /\ transport = "Tcp" /\ socket = None
                      THEN "crashed" ELSE "loop"
          /\ UNCHANGED <<tcpVars, transport, port, firmwareVars>>

(* The program is started again: nothing of the above survives. *)
Relaunch == /\ phase = "crashed" /\ phase' = "loop"
            /\ transport' = "None" /\ port' = FALSE
            /\ listening' = FALSE /\ socket' = None /\ backlog' = <<>>
            /\ Close(Conn)
            /\ buffer' = <<>> /\ lastTxid' = NoTxid /\ acted' = {} /\ twice' = FALSE
            /\ outq' = <<>> /\ lastResponse' = NoResponse /\ overflowed' = FALSE

(* The slots of the event loop, and what a slot calls until it returns.    *)
Accept == /\ phase = "loop" /\ OnNewConnection
          /\ UNCHANGED <<transport, port, phase, firmwareVars>>

Discard(c) == /\ phase = "loop" /\ Disconnected(c)
              /\ UNCHANGED <<transport, port, phase, firmwareVars>>

Running == ParseMessage \/ ParseSkip \/ ParseEnds \/ Tx \/ TxEnds

Slot == Read \/ Accept \/ \E c \in Conn : Discard(c)

Worker == Slot \/ Running \/ Relaunch
=============================================================================
