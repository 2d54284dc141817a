---------------------------- MODULE FirmwareSim -----------------------------
(***************************************************************************)
(* The firmware (lbp-simulator/firmwaresim.cpp): requests from the wire,   *)
(* the timer's step(), and the fault switch, over the movement simulation, *)
(* the file system and the output queue.  One thread runs all of them, so  *)
(* rxCallback(), step() and setFault() never overlap; phase says which is  *)
(* running.  Inside step(), each iteration of its loops is an action.      *)
(***************************************************************************)
EXTENDS FileSystem, MovementSim

CONSTANTS Request,           \* what the wire may carry
          LeftFiles          \* job files an earlier run may have left

VARIABLES phase,             \* what the worker thread is running
          fwState,           \* m_fw_state, as the set of its flags
          lastTxid,          \* m_last_txid
          fault              \* m_fault

topVars == <<phase, fwState, lastTxid, fault>>
machineVars == <<mvVars, fsVars>>
vars == <<mvVars, fsVars, outVars, topVars>>

(* "loop": none of them.  "rx": rxCallback(), between two messages.        *)
(* "pump", "move", "finish": the three parts of step().  "tx": sending.    *)
Phases == {"loop", "rx", "pump", "move", "finish", "tx"}

executing == "executing_job" \in fwState

Init == /\ MvInit /\ FsInit(LeftFiles) /\ OutInit
        /\ phase = "loop" /\ fwState = {} /\ lastTxid = NoTxid /\ fault = FALSE

-----------------------------------------------------------------------------
(* process(): the handlers of the top-level commands.                      *)

Stopped(state) == state \ {"executing_job", "executing_frame"}

Stop == MvStop /\ FsStop /\ fwState' = Stopped(fwState)

(* beginJob(): a job that cannot be read leaves executing_job as it was.   *)
BeginJob == /\ MvStop
            /\ \E opens \in DiskOutcomes :
                  /\ StartReading(opens /\ onDisk)
                  /\ fwState' = IF opens /\ onDisk
                                THEN fwState \cup {"executing_job"} ELSE fwState

TopProcess(req) ==
    \* Configuration, which changes nothing modelled here, and the handshake.
    \/ /\ req.op \in PlainOps
       /\ IF req.op = "config" /\ ~req.ok THEN Nack(req, "err_invalid_length")
          ELSE Respond(req)
       /\ UNCHANGED <<machineVars, fwState>>
    \/ req.op = "stop" /\ Stop /\ Respond(req)
    \/ req.op = "pause" /\ Pause /\ Respond(req) /\ UNCHANGED <<fsVars, fwState>>
    \/ req.op = "continue" /\ Resume /\ Respond(req) /\ UNCHANGED <<fsVars, fwState>>
    \/ /\ req.op = "get_state"
       /\ Push(AckFlags(req, fwState))
       /\ UNCHANGED <<machineVars, fwState>>
    \/ req.op = "execute" /\ BeginJob /\ Respond(req)
    \/ /\ req.op \notin KnownOps
       /\ Nack(req, "err_invalid_cmd")
       /\ UNCHANGED <<machineVars, fwState>>

(* Mutant: whatever was answered last answers a retry. *)
MutRepeated(req) == req.txid # NoTxid /\ req.txid = lastTxid

(* A retry of the request answered last: send that answer again.           *)
Repeated(req) == /\ req.txid # NoTxid
                 /\ req.txid = lastTxid
                 /\ HasResponse(req.txid)

(* Mutant: the class of the command is not looked at. *)
MutStartsMotion(req) == req.op \in {"execute", "continue"}

StartsMotion(req) == req.op \in MoveOps \cup JogOps \cup {"execute", "continue"}

Resend(req) == /\ Repeated(req)
               /\ Push(lastResponse)
               /\ UNCHANGED <<machineVars, fwState, lastTxid>>

Evaluate(req) ==
    /\ ~Repeated(req)
    /\ lastTxid' = IF req.txid # NoTxid THEN req.txid ELSE lastTxid
    /\ IF fault /\ StartsMotion(req)
       THEN Nack(req, "err_fault") /\ UNCHANGED <<machineVars, fwState>>
       ELSE \/ FsProcess(req) /\ UNCHANGED <<mvVars, fwState>>
            \/ MvProcess(req, "Wire") /\ UNCHANGED <<fsVars, fwState>>
            \/ TopProcess(req)

(* rxCallback(): the messages that one read from the wire completes.       *)
RxBegin == phase = "loop" /\ phase' = "rx"
           /\ UNCHANGED <<mvVars, fsVars, outVars, fwState, lastTxid, fault>>

Process(req) == /\ phase = "rx"
                /\ Resend(req) \/ Evaluate(req)
                /\ UNCHANGED <<phase, fault>>

RxEnd == phase = "rx" /\ phase' = "tx"
         /\ UNCHANGED <<mvVars, fsVars, outVars, fwState, lastTxid, fault>>

Tx == /\ phase = "tx" /\ phase' = "loop"
      /\ PopAll
      /\ UNCHANGED <<mvVars, fsVars, fwState, lastTxid, fault>>

-----------------------------------------------------------------------------
(* step(dt): feed the job, move, report, send.                             *)
StepBegin(dt) == /\ phase = "loop"
                 /\ phase' = IF executing THEN "pump" ELSE "move"
                 /\ BeginStep(dt)
                 /\ UNCHANGED <<fsVars, outVars, fwState, lastTxid, fault>>

(* Mutant: commands are parsed though the command queue is full. *)
MutPumpCommand == /\ phase = "pump"
                  /\ fbuf # <<>>
                  /\ fbuf' = Tail(fbuf)
                  /\ MvProcess(Head(fbuf), "File")
                  /\ UNCHANGED <<fstate, file, onDisk, rd, topVars>>

(* pumpJob(): while the command queue has room, one command of the job...  *)
PumpCommand == /\ phase = "pump" /\ canEnqueue
               /\ fbuf # <<>>
               /\ fbuf' = Tail(fbuf)
               /\ IF Head(fbuf).op \in QueuedOps \cup JogOps \cup {"pos"}
                  THEN MvProcess(Head(fbuf), "File")
                  ELSE UNCHANGED <<mvVars, outVars>>
               /\ UNCHANGED <<fstate, file, onDisk, rd, topVars>>

(* ... and when the parser is empty, more of the file.                     *)
PumpFeed == /\ phase = "pump" /\ canEnqueue
            /\ fbuf = <<>>
            /\ \/ FeedParser /\ UNCHANGED phase
               \/ FeedNothing /\ phase' = "move"
            /\ UNCHANGED <<mvVars, outVars, fwState, lastTxid, fault>>

PumpFull == /\ phase = "pump" /\ ~canEnqueue
            /\ phase' = "move"
            /\ UNCHANGED <<mvVars, fsVars, outVars, fwState, lastTxid, fault>>

MoveIterate == /\ phase = "move"
               /\ MvIterate
               /\ UNCHANGED <<fsVars, outVars, topVars>>

MoveDone == /\ phase = "move" /\ phase' = "finish"
            /\ EndStep
            /\ UNCHANGED <<fsVars, outVars, fwState, lastTxid, fault>>

(* Mutant: a component's flags are only added to the old ones. *)
MutReported(state, isFault) ==
    (state \ {"paused"}) \cup {f \in Flags : \/ f = "moving" /\ mstate \in InMotion
                                             \/ f = "fault" /\ isFault}

(* The flags of getFwState() of the two components, and of the fault.      *)
Reported(state, isFault) ==
    (state \cap {"executing_job"})
      \cup {f \in Flags : \/ f = "receiving" /\ fstate = "Receiving"
                          \/ f = "moving" /\ mstate \in InMotion
                          \/ f = "executing_frame" /\ inFrame
                          \/ f = "paused" /\ mstate = "Paused"
                          \/ f = "fault" /\ isFault}

(* checkJobComplete(): takeJobEnded(), or a job that ran dry. *)
RanDry == ~isReading /\ isIdle

(* Mutant: only cmd_job_end completes a job. *)
MutJobComplete == jobEnded

JobComplete == jobEnded \/ RanDry

(* updateFwState() and, when the job is complete, endJob().                *)
Update ==
    /\ phase = "finish" /\ phase' = "tx"
    /\ IF executing /\ JobComplete
       THEN /\ fwState' = Reported(fwState, fault) \ {"executing_job"}
            /\ FsStop
            /\ Push(JobEndNotice)
       ELSE /\ fwState' = Reported(fwState, fault)
            /\ UNCHANGED <<fsVars, outVars>>
    /\ jobEnded' = (jobEnded /\ ~executing)
    /\ UNCHANGED <<mstate, cmdq, headVars, laser, paused, inFrame, budget,
                   lastTxid, fault>>

Step == \/ PumpCommand
        \/ PumpFeed
        \/ PumpFull
        \/ MoveIterate
        \/ MoveDone
        \/ Update
        \/ Tx

-----------------------------------------------------------------------------
(* setFault(): a new fault stops everything first.  updateFwState() then   *)
(* sees an idle, empty machine; the job flag is off, so no job completes.  *)
RaiseFault == /\ phase = "loop" /\ ~fault /\ fault' = TRUE
              /\ MvStop /\ FsStop
              /\ fwState' = {"fault"}
              /\ UNCHANGED <<outVars, phase, lastTxid>>

ClearFault == /\ phase = "loop" /\ fault /\ fault' = FALSE
              /\ fwState' = Reported(fwState, FALSE)
              /\ UNCHANGED <<machineVars, outVars, phase, lastTxid>>

Internal == \/ RxBegin
            \/ RxEnd
            \/ \E dt \in 1..MaxTicks : StepBegin(dt)
            \/ Step
            \/ RaiseFault
            \/ ClearFault

Next == Internal \/ \E req \in Request : Process(req)

Spec == Init /\ [][Next]_vars

(* The worker's timer keeps calling step(), and what it calls returns.     *)
Fairness == /\ WF_vars(Step)
            /\ WF_vars(RxEnd)
            /\ SF_vars(\E dt \in 1..MaxTicks : StepBegin(dt))

FairSpec == Spec /\ Fairness

-----------------------------------------------------------------------------
WireRequest == {req \in [op : Ops, arg : Int, ok : BOOLEAN, txid : Nat,
                         body : Seq(JobCommand)] : IsCommand(req)}

ASSUME RequestAssumption ==
    /\ Request \subseteq WireRequest
    /\ \A f \in LeftFiles : f \in Seq(JobCommand)

TypeOK == /\ MvTypeOK /\ FsTypeOK /\ OutTypeOK
          /\ phase \in Phases /\ fwState \in SUBSET Flags
          /\ lastTxid \in Nat /\ fault \in BOOLEAN

(* While a fault is active the head does not move, no job is executing,    *)
(* and the host is told so (spec.md, state_fault).                         *)
FaultSafe == fault => /\ mstate \notin InMotion
                      /\ ~executing
                      /\ "fault" \in fwState

(* What makes FaultSafe inductive: nothing that a fault leaves behind can  *)
(* start a motion.  No move is queued, no pause hides one, and pumpJob()   *)
(* only runs while a job executes.                                         *)
HeadRests == /\ mstate \notin InMotion
             /\ mstate = "Paused" => paused.state \notin InMotion
             /\ \A i \in 1..Len(cmdq) : cmdq[i].op \notin MoveOps

FaultInv == /\ fault => HeadRests /\ ~executing /\ "fault" \in fwState
            /\ phase = "pump" => executing
=============================================================================
