---------------------------- MODULE OutputQueue -----------------------------
(***************************************************************************)
(* The queue of messages waiting to be sent, and the memory of the last    *)
(* response, from which a retried request is answered                      *)
(* (lbp-simulator/simutils.cpp, lbp/include/lbp/queue.h).                  *)
(*                                                                         *)
(* A request is a record: its command op, an argument arg, whether its     *)
(* argument size is the one the command expects (ok), its transaction id,  *)
(* and, for a file chunk, the job commands in it (body).  A message is a   *)
(* command, a transaction id, the rejected command and the error of a      *)
(* nack, and the flags of an answer to cmd_get_state.                      *)
(***************************************************************************)
EXTENDS Integers, Sequences

CONSTANT OutCap              \* Queue<CmdMsg, 512>

ASSUME OutCapIsNat == OutCap \in Nat \ {0}

VARIABLES outq,              \* m_q
          lastResponse,      \* m_last_response
          overflowed         \* m_overflowed

outVars == <<outq, lastResponse, overflowed>>

NoTxid == 0                  \* txid_none

(* The flags of cmd_get_state. *)
Flags == {"moving", "executing_job", "executing_frame", "paused", "receiving",
          "fault"}

(* The command codes, told apart where some handler does.  A request with  *)
(* any other code is "unknown".                                            *)
FileOps   == {"file_begin", "file_chunk", "file_end"}
JogOps    == {"jog_start", "jog_stop"}
MoveOps   == {"move_rel", "move_abs", "home"}
QueuedOps == MoveOps \cup {"speed", "laser_on", "laser_off", "dwell", "cut_from",
                           "frame_begin", "frame_end", "job_begin", "job_end"}
PlainOps  == {"handshake", "commit_cfg", "config"}
TopOps    == PlainOps \cup {"stop", "pause", "continue", "get_state", "execute"}
KnownOps  == FileOps \cup JogOps \cup QueuedOps \cup TopOps \cup {"pos"}
Ops       == KnownOps \cup {"unknown"}
Errors    == {"err_invalid_cmd", "err_invalid_length", "err_queue_full",
              "err_wrong_state", "err_fault", "err_storage_full", "err_transfer",
              "err_unknown"}

Message == [cmd : Ops \cup {"", "nack"}, txid : Nat, of : Ops \cup {""},
            err : Errors \cup {""}, flags : SUBSET Flags]

(* The part of a request that a command in a job file has too.  The        *)
(* argument of a dwell is an unsigned number of microseconds.              *)
IsCommand(c) == /\ c.op \in Ops /\ c.arg \in Int /\ c.ok \in BOOLEAN
                /\ c.txid \in Nat
                /\ c.op = "dwell" => c.arg \in Nat

AckFlags(req, flags) == [cmd |-> req.op, txid |-> req.txid, of |-> "", err |-> "",
                         flags |-> flags]

Ack(req) == AckFlags(req, {})

NackTo(req, err) == [cmd |-> "nack", txid |-> req.txid, of |-> req.op,
                     err |-> err, flags |-> {}]

(* A message the firmware originates: cmd_job_end, transaction id 0. *)
JobEndNotice == [cmd |-> "job_end", txid |-> NoTxid, of |-> "", err |-> "",
                 flags |-> {}]

NoResponse == [cmd |-> "", txid |-> NoTxid, of |-> "", err |-> "", flags |-> {}]

OutInit == outq = <<>> /\ lastResponse = NoResponse /\ overflowed = FALSE

(* Mutant: answers without a number are remembered too. *)
MutRemembered(m) == IF m.cmd # "nack" THEN m ELSE lastResponse

(* What a retry must be answered with: every response but a nack. *)
Remembered(m) == IF m.txid # NoTxid /\ m.cmd # "nack" THEN m ELSE lastResponse

Push(m) == /\ lastResponse' = Remembered(m)
           /\ \/ /\ Len(outq) < OutCap
                 /\ outq' = Append(outq, m)
                 /\ UNCHANGED overflowed
              \/ /\ Len(outq) >= OutCap
                 /\ overflowed' = TRUE
                 /\ UNCHANGED outq

Respond(req) == Push(Ack(req))

Nack(req, err) == Push(NackTo(req, err))

(* Mutant: the answer is looked for in the queue it was sent from. *)
MutHasResponse(t) == t # NoTxid /\ outq # <<>> /\ outq[Len(outq)].txid = t

(* lastResponse(txid) *)
HasResponse(t) == t # NoTxid /\ lastResponse.txid = t

(* FirmwareSim::tx(): pop and send until the queue is empty. *)
PopAll == outq' = <<>> /\ UNCHANGED <<lastResponse, overflowed>>

OutTypeOK == /\ outq \in Seq(Message) /\ lastResponse \in Message
             /\ overflowed \in BOOLEAN
=============================================================================
