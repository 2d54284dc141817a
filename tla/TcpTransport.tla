---------------------------- MODULE TcpTransport ----------------------------
(***************************************************************************)
(* The TCP server of the simulator (lbp-simulator/tcptransport.cpp): it    *)
(* serves one connection, m_socket, and closes every other.  Its slots run *)
(* in the event loop of the worker's thread, one at a time and in an order *)
(* that is not known.                                                      *)
(*                                                                         *)
(* A connection is seen from both ends: what the server makes of it        *)
(* (conn), whether the peer is still there (peer), and what is on its way. *)
(* What travels to the device are pieces of messages, in order.  A peer    *)
(* that is "closed" will be noticed by the server, one that is "silent"    *)
(* (its host lost power, the cable is cut) only when something is sent.    *)
(***************************************************************************)
EXTENDS Integers, Sequences

CONSTANTS Conn,              \* connections: each may be opened again later
          None

ASSUME NoneIsNoConn == None \notin Conn

VARIABLES listening,         \* m_server->isListening()
          socket,            \* m_socket
          backlog,           \* connections not yet handed to the server
          conn,              \* "unused", "pending", "accepted", "closed"
          peer,              \* "up", "closed", "silent"
          toDevice, toHost   \* what each side sent and the other has not read

linkVars == <<conn, peer, toDevice, toHost>>
tcpVars == <<listening, socket, backlog, linkVars>>

TcpInit == /\ listening = FALSE /\ socket = None /\ backlog = <<>>
           /\ conn = [c \in Conn |-> "unused"] /\ peer = [c \in Conn |-> "up"]
           /\ toDevice = [c \in Conn |-> <<>>] /\ toHost = [c \in Conn |-> <<>>]

(* The server's end of these connections is closed.  A peer that is still  *)
(* there may read what was sent before.                                    *)
Close(S) ==
    /\ conn' = [c \in Conn |-> IF c \notin S \/ conn[c] = "unused" THEN conn[c]
                               ELSE IF peer[c] = "up" THEN "closed" ELSE "unused"]
    /\ peer' = [c \in Conn |-> IF c \in S THEN "up" ELSE peer[c]]
    /\ toDevice' = [c \in Conn |-> IF c \in S THEN <<>> ELSE toDevice[c]]
    /\ toHost' = [c \in Conn |-> IF c \in S /\ peer[c] # "up" THEN <<>> ELSE toHost[c]]

-----------------------------------------------------------------------------
(* Mutant: the newest connection is served. *)
MutServe(c) == /\ socket' = c
               /\ conn' = [conn EXCEPT ![c] = "accepted"]
               /\ UNCHANGED <<peer, toDevice, toHost>>

(* Mutant: nobody tells the host that it was turned away. *)
MutTurnAway(c) == IF socket # None
                  THEN UNCHANGED <<socket, linkVars>>
                  ELSE /\ socket' = c
                       /\ conn' = [conn EXCEPT ![c] = "accepted"]
                       /\ UNCHANGED <<peer, toDevice, toHost>>

Serve(c) == IF socket # None
            THEN Close({c}) /\ UNCHANGED socket
            ELSE /\ socket' = c
                 /\ conn' = [conn EXCEPT ![c] = "accepted"]
                 /\ UNCHANGED <<peer, toDevice, toHost>>

(* One turn of the loop: connections are handed out in the order in which  *)
(* they were made.                                                         *)
OnNewConnection == /\ backlog # <<>>
                   /\ Serve(Head(backlog))
                   /\ backlog' = Tail(backlog)
                   /\ UNCHANGED listening

DiscardSocket(c) == /\ Close({c})
                    /\ socket' = IF socket = c THEN None ELSE socket
                    /\ UNCHANGED <<listening, backlog>>

(* The socket's disconnected signal, after all that had arrived was read.  *)
Disconnected(c) == /\ conn[c] = "accepted" /\ peer[c] = "closed"
                   /\ toDevice[c] = <<>>
                   /\ DiscardSocket(c)

(* What stop() closes: the socket, and with the server what it queued.     *)
Held == {c \in Conn : c = socket \/ conn[c] = "pending"}

(* sendBytes(): a message for a peer that is there arrives.  Otherwise it  *)
(* is lost, and the write may be what finds the socket broken: flush()     *)
(* then aborts it, which emits disconnected at once.                       *)
SendBytes(m) ==
    \/ /\ socket = None
       /\ UNCHANGED tcpVars
    \/ /\ socket # None /\ peer[socket] = "up"
       /\ toHost' = [toHost EXCEPT ![socket] = Append(@, m)]
       /\ UNCHANGED <<listening, socket, backlog, conn, peer, toDevice>>
    \/ /\ socket # None /\ peer[socket] # "up"
       /\ peer' = [peer EXCEPT ![socket] = "closed"]
       /\ UNCHANGED <<listening, socket, backlog, conn, toDevice, toHost>>
    \/ /\ socket # None /\ peer[socket] = "closed"
       /\ DiscardSocket(socket)

(* Exactly the connections the server keeps are those it serves: m_socket, *)
(* and nothing else.  A connection that stayed open behind m_socket would  *)
(* be heard by nobody, and an m_socket that is closed would keep every     *)
(* later host out (TcpTransport::onNewConnection, discardSocket, stop).    *)
OneHost == {c \in Conn : conn[c] = "accepted"}
              = {c \in Conn : c = socket}
=============================================================================
