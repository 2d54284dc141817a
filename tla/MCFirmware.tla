----------------------------- MODULE MCFirmware -----------------------------
(***************************************************************************)
(* Instances of the firmware and its host for TLC: the requests the host   *)
(* may send and the job files left on disk, one pair for each question.    *)
(***************************************************************************)
EXTENDS FirmwareClaims

Req(op, arg) == [op |-> op, arg |-> arg, ok |-> TRUE, txid |-> NoTxid,
                 body |-> <<>>]
Malformed(op) == [Req(op, 0) EXCEPT !.ok = FALSE]
Job(op, arg) == [op |-> op, arg |-> arg, ok |-> TRUE, txid |-> NoTxid]
BadJob(op) == [Job(op, 0) EXCEPT !.ok = FALSE]
Chunk(cmds) == [Req("file_chunk", 0) EXCEPT !.body = cmds]

-----------------------------------------------------------------------------
(* Retries, rejections and file transfer, with a disk that may fail and a  *)
(* job that may be there already. *)
TransferRequests ==
    {Req("file_begin", 0), Malformed("file_begin"), Req("file_end", 0),
     Chunk(<<Job("laser_on", 0), Job("laser_off", 0)>>), Chunk(<<Job("laser_off", 0)>>),
     Req("move_rel", 1),
     Req("execute", 0), Req("stop", 0), Req("unknown", 0), Malformed("config"),
     Req("get_state", 0)}
TransferFiles == {<<Job("speed", 1), Job("move_rel", 1)>>}

-----------------------------------------------------------------------------
(* A job, and an operator who pauses it, jogs and queues moves meanwhile. *)
LongJob == <<Job("speed", 1), BadJob("dwell"), Job("laser_on", 0), Job("cut_from", 0),
             Job("move_rel", 2), Job("dwell", 1), Job("move_abs", -1),
             Job("job_end", 0)>>
EndlessJob == <<Job("speed", 1), Job("pos", 0), Job("home", 0), Job("frame_begin", 0),
                Job("move_abs", 1)>>
JobFiles == {LongJob, EndlessJob}
JobRequests ==
    {Req("execute", 0), Req("stop", 0), Req("pause", 0), Req("continue", 0),
     Req("jog_start", -1), Req("jog_stop", 0), Req("move_rel", 1), Req("job_end", 0),
     Req("laser_on", 0), Req("file_begin", 0)}

-----------------------------------------------------------------------------
(* The requests that show where the code departs from its specification.   *)
TransferClaimRequests ==
    {Req("execute", 0), Req("file_begin", 0), Malformed("file_begin"), Chunk(<<>>)}
=============================================================================
