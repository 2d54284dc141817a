--------------------------- MODULE FirmwareProofs ---------------------------
(***************************************************************************)
(* The firmware, whatever requests arrive, whatever the capacities, and    *)
(* however long a step of the timer is: it keeps its types, switches the   *)
(* lasers off while paused, and stays still while a fault is active.       *)
(*                                                                         *)
(* Then the firmware under a host that numbers and retries its requests:   *)
(* what an answer may do, what a transfer leaves on the disk, how a job    *)
(* runs, and what a pause, a jog that ended and a fault leave as they are, *)
(* for every set of requests and every job file.                           *)
(***************************************************************************)
EXTENDS FirmwareHost, SequenceTheorems, TLAPS

-----------------------------------------------------------------------------
(* The firmware with whatever the wire may carry: what holds of its steps  *)
(* holds of those of every set of requests, numbered or not.               *)
WireNext == Internal \/ \E req \in WireRequest : Process(req)

LEMMA NextIsWireNext ==
    ASSUME [Next]_vars
    PROVE  [WireNext]_vars
  BY RequestAssumption DEF Next, WireNext

LEMMA WireRequestType ==
    ASSUME NEW req \in WireRequest
    PROVE  IsCommand(req) /\ req.body \in Seq(JobCommand)
  BY DEF WireRequest

-----------------------------------------------------------------------------
(* The output queue.                                                       *)

LEMMA NackToType ==
    ASSUME NEW req, IsCommand(req), NEW err \in Errors
    PROVE  NackTo(req, err) \in Message
  BY DEF IsCommand, NackTo, Message

LEMMA AckType ==
    ASSUME NEW req, IsCommand(req), NEW flags \in SUBSET Flags
    PROVE  AckFlags(req, flags) \in Message
  BY DEF IsCommand, AckFlags, Message

LEMMA OwnMessages == JobEndNotice \in Message /\ NoResponse \in Message
  BY DEF JobEndNotice, NoResponse, Message, NoTxid, Ops, KnownOps, QueuedOps

LEMMA PushType ==
    ASSUME OutTypeOK, NEW m \in Message, Push(m)
    PROVE  OutTypeOK'
  <1>1. lastResponse' \in Message
    BY DEF OutTypeOK, Push, Remembered
  <1>2. CASE Len(outq) < OutCap
    <2>1. Append(outq, m) \in Seq(Message)
      BY DEF OutTypeOK
    <2> QED
      BY <1>1, <1>2, <2>1, OutCapIsNat DEF OutTypeOK, Push
  <1>3. CASE ~(Len(outq) < OutCap)
    BY <1>1, <1>3 DEF OutTypeOK, Push
  <1> QED
    BY <1>2, <1>3

LEMMA RespondType ==
    ASSUME OutTypeOK, NEW req, IsCommand(req), Respond(req)
    PROVE  OutTypeOK'
  <1>1. Ack(req) \in Message
    BY AckType DEF Ack
  <1> QED
    BY <1>1, PushType DEF Respond

LEMMA NackType ==
    ASSUME OutTypeOK, NEW req, IsCommand(req), NEW err \in Errors, Nack(req, err)
    PROVE  OutTypeOK'
  <1>1. NackTo(req, err) \in Message
    BY NackToType
  <1> QED
    BY <1>1, PushType DEF Nack

-----------------------------------------------------------------------------
(* The file system.                                                        *)

LEMMA FsStopType ==
    ASSUME FsTypeOK, FsStop
    PROVE  FsTypeOK'
  BY DEF FsTypeOK, FsStop, FileStates

LEMMA FsProcessType ==
    ASSUME FsTypeOK, OutTypeOK,
           NEW req, IsCommand(req), req.body \in Seq(JobCommand), FsProcess(req)
    PROVE  FsTypeOK' /\ OutTypeOK'
  <1>1. CASE FileBegin(req)
    <2>1. FsTypeOK'
      <3>1. CASE UNCHANGED fsVars
        BY <3>1 DEF FsTypeOK, fsVars
      <3>2. CASE FsStop
        BY <3>2, FsStopType
      <3>3. CASE /\ fbuf' = <<>>
                 /\ UNCHANGED rd
                 /\ fstate' = "Receiving" \/ fstate' = "Idle"
                 /\ file' = <<>> \/ file' = file
                 /\ onDisk' = TRUE \/ onDisk' = onDisk
        <4>1. onDisk' \in BOOLEAN
          BY <3>3, Zenon DEF FsTypeOK
        <4>2. fstate' \in FileStates
          BY <3>3 DEF FileStates
        <4>3. <<>> \in Seq(JobCommand)
          OBVIOUS
        <4>4. file' \in Seq(JobCommand)
          BY <3>3, <4>3, Zenon DEF FsTypeOK
        <4> QED
          BY <3>3, <4>1, <4>2, <4>3, <4>4 DEF FsTypeOK
      <3> QED
        BY <1>1, <3>1, <3>2, <3>3 DEF FileBegin
    <2>2. Respond(req) \/ \E err \in Errors : Nack(req, err)
      BY <1>1 DEF FileBegin, Errors
    <2> QED
      BY <2>1, <2>2, RespondType, NackType
  <1>2. CASE FileChunk(req)
    <2>1. file' \in Seq(JobCommand)
      <3>1. \A n \in 0..Len(req.body) :
               file \o SubSeq(req.body, 1, n) \in Seq(JobCommand)
        BY DEF FsTypeOK
      <3>2. file \o req.body \in Seq(JobCommand)
        BY DEF FsTypeOK
      <3> QED
        BY <1>2, <3>1, <3>2 DEF FileChunk, FsTypeOK
    <2>2. Respond(req) \/ \E err \in Errors : Nack(req, err)
      BY <1>2 DEF FileChunk, Errors
    <2>3. OutTypeOK'
      BY <2>2, RespondType, NackType
    <2> QED
      BY <1>2, <2>1, <2>3 DEF FileChunk, FsTypeOK
  <1>3. CASE FileEnd(req)
    <2>1. FsTypeOK'
      BY <1>3 DEF FileEnd, FsTypeOK, FileStates
    <2>2. Respond(req) \/ \E err \in Errors : Nack(req, err)
      BY <1>3 DEF FileEnd, Errors
    <2> QED
      BY <2>1, <2>2, RespondType, NackType
  <1> QED
    BY <1>1, <1>2, <1>3 DEF FsProcess

LEMMA StartReadingType ==
    ASSUME FsTypeOK, NEW opens \in BOOLEAN, StartReading(opens)
    PROVE  FsTypeOK'
  BY DEF FsTypeOK, StartReading, FileStates

LEMMA FeedType ==
    ASSUME FsTypeOK, FeedParser \/ FeedNothing
    PROVE  FsTypeOK'
  <1>1. CASE FeedParser
    <2>1. /\ Readable \in Nat
          /\ rd + Readable <= Len(file)
      BY <1>1, FileSystemAssumption DEF FeedParser, Readable, isReading, FsTypeOK
    <2>2. SubSeq(file, rd + 1, rd + Readable) \in Seq(JobCommand)
      BY <2>1 DEF FsTypeOK
    <2>3. fbuf \o SubSeq(file, rd + 1, rd + Readable) \in Seq(JobCommand)
      BY <2>2 DEF FsTypeOK
    <2> QED
      BY <1>1, <2>1, <2>3 DEF FeedParser, FsTypeOK
  <1>2. CASE FeedNothing
    BY <1>2 DEF FeedNothing, FsTypeOK, FileStates
  <1> QED
    BY <1>1, <1>2

-----------------------------------------------------------------------------
(* The movement simulation.                                                *)

LEMMA ControlType ==
    ASSUME MvTypeOK, MvStop \/ Pause \/ Resume \/ EndJog
    PROVE  MvTypeOK'
  <1>1. CASE MvStop
    <2>1. <<>> \in Seq(QueuedCommand)
      OBVIOUS
    <2>2. 0 \in 0..MaxDwell
      BY MovementAssumption
    <2>3. cmdq' \in Seq(QueuedCommand) /\ dwell' \in 0..MaxDwell
      BY <1>1, <2>1, <2>2 DEF MvStop
    <2>4. mstate' \in MoveStates
      BY <1>1 DEF MvStop, MoveStates
    <2> QED
      BY <1>1, <2>3, <2>4 DEF MvTypeOK, MvStop
  <1>2. CASE Pause
    <2>1. CASE mstate # "Paused"
      <3>1. mstate \in MoveStates \ {"Paused"} /\ laser \in BOOLEAN
        BY <2>1 DEF MvTypeOK
      <3>2. paused' \in [state : MoveStates \ {"Paused"}, laser : BOOLEAN]
        BY <1>2, <2>1, <3>1 DEF Pause, EnterPause
      <3>3. mstate' \in MoveStates /\ laser' \in BOOLEAN
        BY <1>2, <2>1 DEF Pause, EnterPause, MoveStates
      <3> QED
        BY <1>2, <3>2, <3>3 DEF MvTypeOK, Pause, headVars
    <2>2. CASE mstate = "Paused"
      BY <1>2, <2>2 DEF MvTypeOK, Pause, headVars, MoveStates
    <2> QED
      BY <2>1, <2>2
  <1>3. CASE Resume
    <2>1. CASE mstate # "Paused"
      BY <1>3, <2>1 DEF MvTypeOK, Resume, headVars, MoveStates
    <2>2. CASE mstate = "Paused"
      BY <1>3, <2>2 DEF MvTypeOK, Resume, headVars, MoveStates
    <2> QED
      BY <2>1, <2>2
  <1>4. CASE EndJog
    BY <1>4 DEF MvTypeOK, EndJog, headVars, MoveStates
  <1> QED
    BY <1>1, <1>2, <1>3, <1>4

LEMMA BeginJogType ==
    ASSUME MvTypeOK, NEW d \in Int, BeginJog(d)
    PROVE  MvTypeOK'
  BY DEF MvTypeOK, BeginJog, MoveStates

LEMMA MvProcessType ==
    ASSUME MvTypeOK, OutTypeOK, NEW req, IsCommand(req),
           NEW source, MvProcess(req, source)
    PROVE  MvTypeOK' /\ OutTypeOK'
  <1>1. CASE Respond(req) /\ UNCHANGED mvVars
    BY <1>1, RespondType DEF MvTypeOK, mvVars, headVars
  <1>2. CASE BeginJog(req.arg) /\ Respond(req)
    BY <1>2, RespondType, BeginJogType DEF IsCommand
  <1>3. CASE EndJog /\ Respond(req)
    BY <1>3, RespondType, ControlType
  <1>4. CASE MvAccept(req, source)
    <2>1. Queued(req) \in QueuedCommand
      BY <1>4 DEF MvAccept, Queued, QueuedCommand, IsCommand
    <2>2. cmdq' \in Seq(QueuedCommand)
      <3>1. cmdq \in Seq(QueuedCommand)
        BY DEF MvTypeOK
      <3> QED
        BY <1>4, <2>1, <3>1 DEF MvAccept, Enqueue
    <2>3. MvTypeOK'
      BY <1>4, <2>2 DEF MvAccept, Enqueue, MvTypeOK, headVars
    <2>4. OutTypeOK'
      BY <1>4, RespondType DEF MvAccept, OutTypeOK, outVars
    <2> QED
      BY <2>3, <2>4
  <1>5. CASE MvRefuse(req, source)
    <2>1. MvTypeOK'
      BY <1>5 DEF MvRefuse, MvTypeOK, mvVars, headVars
    <2>2. (\E err \in Errors : Nack(req, err)) \/ UNCHANGED outVars
      BY <1>5 DEF MvRefuse, Errors
    <2>3. OutTypeOK'
      BY <2>2, NackType DEF OutTypeOK, outVars
    <2> QED
      BY <2>1, <2>3
  <1> QED
    BY <1>1, <1>2, <1>3, <1>4, <1>5 DEF MvProcess

LEMMA ClipInRange ==
    ASSUME NEW v \in Int
    PROVE  Clip(v) \in 0..MaxPos
  BY MovementAssumption DEF Clip

(* A move is decoded to a distance from where the head is. *)
LEMMA DeltaIsInt ==
    ASSUME MvTypeOK, NEW c \in QueuedCommand, c.op \in MoveOps
    PROVE  Delta(c) \in Int
  <1>1. /\ pos \in Int /\ jobOrigin \in Int /\ c.arg \in Int
    BY MovementAssumption DEF MvTypeOK, QueuedCommand
  <1>2. /\ Clip(pos + c.arg) \in Int
        /\ Clip(c.arg + jobOrigin) \in Int
    BY <1>1, ClipInRange, MovementAssumption
  <1> QED
    BY <1>1, <1>2 DEF Delta, MoveOps

LEMMA IterateType ==
    ASSUME MvTypeOK, MvIterate
    PROVE  MvTypeOK'
  <1>1. CASE TakeNext
    <2> DEFINE c == Head(cmdq)
    <2>1. /\ c \in QueuedCommand
          /\ Tail(cmdq) \in Seq(QueuedCommand)
      BY <1>1 DEF TakeNext, MvTypeOK
    <2>2. cmdq' \in Seq(QueuedCommand) /\ UNCHANGED <<paused, budget>>
      BY <1>1, <2>1 DEF TakeNext
    <2>3. CASE TakeMove(c)
      <3>1. Delta(c) \in Int
        BY <2>1, <2>3, DeltaIsInt DEF TakeMove
      <3>2. /\ move' \in [dir : {1, -1}, left : Nat]
            /\ mstate' \in MoveStates
        BY <2>3, <3>1 DEF TakeMove, MvTypeOK, MoveStates
      <3> QED
        BY <2>2, <2>3, <3>2 DEF TakeMove, MvTypeOK
    <2>4. CASE TakeDwell(c)
      <3>1. c.arg \in Nat
        BY <2>1, <2>4 DEF TakeDwell, QueuedCommand
      <3> QED
        BY <2>2, <2>4, <3>1, MovementAssumption DEF TakeDwell, MvTypeOK, MoveStates
    <2>5. CASE TakeSetting(c)
      <3>1. rate' \in Int
        BY <2>1, <2>5 DEF TakeSetting, MvTypeOK, QueuedCommand
      <3>2. jobOrigin' \in Int
        BY <2>5, MovementAssumption DEF TakeSetting, MvTypeOK
      <3>3. laser' \in BOOLEAN /\ inFrame' \in BOOLEAN /\ jobEnded' \in BOOLEAN
        BY <2>5 DEF TakeSetting, MvTypeOK
      <3> QED
        BY <2>2, <2>5, <3>1, <3>2, <3>3 DEF TakeSetting, MvTypeOK
    <2> QED
      BY <1>1, <2>3, <2>4, <2>5 DEF TakeNext
  <1>2. CASE AdvanceMove
    <2> DEFINE d == Least(budget, move.left)
    <2>1. /\ d \in 0..budget
          /\ move.left - d \in Nat
      BY DEF MvTypeOK, Least
    <2>2. pos' \in 0..MaxPos
      <3>1. pos + move.dir * d \in Int
        BY <2>1, MovementAssumption DEF MvTypeOK
      <3> QED
        BY <1>2, <3>1, ClipInRange DEF AdvanceMove
    <2>3. move' \in [dir : {1, -1}, left : Nat]
      BY <1>2, <2>1 DEF AdvanceMove, MvTypeOK
    <2>4. budget' \in 0..MaxTicks
      <3>1. budget' = budget - d /\ budget \in 0..MaxTicks /\ MaxTicks \in Nat
        BY <1>2, MovementAssumption DEF AdvanceMove, MvTypeOK
      <3> QED
        BY <2>1, <3>1
    <2>5. mstate' \in MoveStates
      BY <1>2 DEF AdvanceMove, MoveStates
    <2> QED
      BY <1>2, <2>2, <2>3, <2>4, <2>5 DEF AdvanceMove, MvTypeOK
  <1>3. CASE AdvanceJog
    <2>1. pos + jogDir * budget \in Int
      BY MovementAssumption DEF MvTypeOK
    <2> QED
      BY <1>3, <2>1, ClipInRange, MovementAssumption DEF AdvanceJog, MvTypeOK
  <1>4. CASE AdvanceDwell
    <2>1. /\ Least(budget, dwell) \in 0..budget
          /\ Least(budget, dwell) \in 0..dwell
      BY MovementAssumption DEF MvTypeOK, Least
    <2> QED
      BY <1>4, <2>1, MovementAssumption DEF AdvanceDwell, MvTypeOK, MoveStates
  <1> QED
    BY <1>1, <1>2, <1>3, <1>4 DEF MvIterate

-----------------------------------------------------------------------------
(* The firmware: one lemma for the requests, one for its own steps.        *)

LEMMA InitType == Init => TypeOK
  <1> SUFFICES ASSUME Init PROVE TypeOK
    OBVIOUS
  <1>1. MvTypeOK
    <2>1. <<>> \in Seq(QueuedCommand)
      OBVIOUS
    <2>2. /\ pos \in 0..MaxPos /\ dwell \in 0..MaxDwell /\ budget \in 0..MaxTicks
          /\ jobOrigin \in Int /\ rate \in Int /\ jogDir \in Int
      BY MovementAssumption DEF Init, MvInit
    <2>3. /\ move \in [dir : {1, -1}, left : Nat]
          /\ paused \in [state : MoveStates \ {"Paused"}, laser : BOOLEAN]
          /\ mstate \in MoveStates
      BY DEF Init, MvInit, MoveStates
    <2> QED
      BY <2>1, <2>2, <2>3 DEF Init, MvInit, MvTypeOK
  <1>2. FsTypeOK
    <2>1. <<>> \in Seq(JobCommand)
      OBVIOUS
    <2>2. file \in Seq(JobCommand)
      BY <2>1, RequestAssumption DEF Init, FsInit
    <2> QED
      BY <2>1, <2>2 DEF Init, FsInit, FsTypeOK, FileStates
  <1>3. OutTypeOK
    <2>1. <<>> \in Seq(Message)
      OBVIOUS
    <2> QED
      BY <2>1, OwnMessages DEF Init, OutInit, OutTypeOK
  <1> QED
    BY <1>1, <1>2, <1>3 DEF Init, TypeOK, Phases, NoTxid

LEMMA TopType ==
    ASSUME TypeOK, NEW req, IsCommand(req), TopProcess(req)
    PROVE  /\ MvTypeOK' /\ FsTypeOK' /\ OutTypeOK'
           /\ fwState' \in SUBSET Flags
  <1> USE DEF TypeOK
  <1>1. CASE UNCHANGED <<machineVars, fwState>>
    <2>1. \/ Respond(req)
          \/ \E err \in Errors : Nack(req, err)
          \/ Push(AckFlags(req, fwState))
      BY <1>1 DEF TopProcess, Errors
    <2>2. OutTypeOK'
      BY <2>1, RespondType, NackType, AckType, PushType
    <2> QED
      BY <1>1, <2>2 DEF machineVars, mvVars, headVars, fsVars, MvTypeOK, FsTypeOK
  <1>2. CASE Stop /\ Respond(req)
    BY <1>2, RespondType, ControlType, FsStopType DEF Stop, Stopped
  <1>3. CASE (Pause \/ Resume) /\ Respond(req) /\ UNCHANGED <<fsVars, fwState>>
    BY <1>3, RespondType, ControlType DEF fsVars, FsTypeOK
  <1>4. CASE BeginJob /\ Respond(req)
    <2>1. MvTypeOK' /\ OutTypeOK'
      BY <1>4, RespondType, ControlType DEF BeginJob
    <2>2. FsTypeOK'
      <3>1. PICK opens \in BOOLEAN : StartReading(opens)
        BY <1>4 DEF BeginJob, DiskOutcomes
      <3> QED
        BY <3>1, StartReadingType
    <2>3. fwState' \in SUBSET Flags
      BY <1>4 DEF BeginJob, Flags
    <2> QED
      BY <2>1, <2>2, <2>3
  <1> QED
    BY <1>1, <1>2, <1>3, <1>4 DEF TopProcess

LEMMA ProcessType ==
    ASSUME TypeOK, NEW req \in WireRequest, Process(req)
    PROVE  TypeOK'
  <1>1. IsCommand(req) /\ req.body \in Seq(JobCommand)
    BY WireRequestType
  <1>2. CASE Resend(req)
    <2>1. OutTypeOK'
      BY <1>2, PushType DEF Resend, TypeOK, OutTypeOK
    <2> QED
      BY <1>2, <2>1 DEF Resend, Process, TypeOK, machineVars, mvVars, headVars,
                        fsVars, MvTypeOK, FsTypeOK
  <1>3. CASE Evaluate(req)
    <2>1. lastTxid' \in Nat
      BY <1>1, <1>3 DEF Evaluate, TypeOK, IsCommand
    <2>2. /\ MvTypeOK' /\ FsTypeOK' /\ OutTypeOK'
          /\ fwState' \in SUBSET Flags
      <3>1. CASE Nack(req, "err_fault") /\ UNCHANGED <<machineVars, fwState>>
        <4>1. OutTypeOK'
          BY <1>1, <3>1, NackType DEF TypeOK, Errors
        <4> QED
          BY <3>1, <4>1 DEF TypeOK, machineVars, mvVars, headVars, fsVars,
                            MvTypeOK, FsTypeOK
      <3>2. CASE FsProcess(req) /\ UNCHANGED <<mvVars, fwState>>
        <4>1. FsTypeOK' /\ OutTypeOK'
          BY <1>1, <3>2, FsProcessType DEF TypeOK
        <4> QED
          BY <3>2, <4>1 DEF TypeOK, mvVars, headVars, MvTypeOK
      <3>3. CASE MvProcess(req, "Wire") /\ UNCHANGED <<fsVars, fwState>>
        <4>1. MvTypeOK' /\ OutTypeOK'
          BY <1>1, <3>3, MvProcessType DEF TypeOK
        <4> QED
          BY <3>3, <4>1 DEF TypeOK, fsVars, FsTypeOK
      <3>4. CASE TopProcess(req)
        BY <1>1, <3>4, TopType
      <3> QED
        BY <1>3, <3>1, <3>2, <3>3, <3>4 DEF Evaluate
    <2> QED
      BY <2>1, <2>2 DEF Process, TypeOK
  <1> QED
    BY <1>2, <1>3 DEF Process

LEMMA PumpCommandType ==
    ASSUME TypeOK, PumpCommand
    PROVE  TypeOK'
  <1>1. /\ Head(fbuf) \in JobCommand
        /\ fbuf' \in Seq(JobCommand)
    BY DEF PumpCommand, TypeOK, FsTypeOK
  <1>2. IsCommand(Head(fbuf))
    BY <1>1 DEF JobCommand
  <1>3. FsTypeOK'
    BY <1>1 DEF PumpCommand, TypeOK, FsTypeOK
  <1>4. MvTypeOK' /\ OutTypeOK'
    <2>1. MvProcess(Head(fbuf), "File") \/ UNCHANGED <<mvVars, outVars>>
      BY DEF PumpCommand
    <2>2. CASE MvProcess(Head(fbuf), "File")
      BY <1>2, <2>2, MvProcessType DEF TypeOK
    <2>3. CASE UNCHANGED <<mvVars, outVars>>
      BY <2>3 DEF TypeOK, mvVars, headVars, outVars, MvTypeOK, OutTypeOK
    <2> QED
      BY <2>1, <2>2, <2>3
  <1> QED
    BY <1>3, <1>4 DEF PumpCommand, TypeOK, topVars

LEMMA UpdateType ==
    ASSUME TypeOK, Update
    PROVE  TypeOK'
  <1>1. MvTypeOK'
    BY DEF Update, TypeOK, MvTypeOK, headVars
  <1>2. FsTypeOK' /\ OutTypeOK'
    <2>1. \/ FsStop /\ Push(JobEndNotice)
          \/ UNCHANGED <<fsVars, outVars>>
      BY DEF Update
    <2>2. CASE FsStop /\ Push(JobEndNotice)
      BY <2>2, FsStopType, PushType, OwnMessages DEF TypeOK
    <2>3. CASE UNCHANGED <<fsVars, outVars>>
      BY <2>3 DEF TypeOK, fsVars, outVars, FsTypeOK, OutTypeOK
    <2> QED
      BY <2>1, <2>2, <2>3
  <1>3. fwState' \in SUBSET Flags
    BY DEF Update, Reported, TypeOK
  <1> QED
    BY <1>1, <1>2, <1>3 DEF Update, TypeOK, Phases

LEMMA InternalType ==
    ASSUME TypeOK, Internal
    PROVE  TypeOK'
  <1> USE DEF TypeOK
  <1>1. CASE RxBegin \/ RxEnd \/ PumpFull
    BY <1>1 DEF RxBegin, RxEnd, PumpFull, mvVars, headVars, fsVars, outVars,
                MvTypeOK, FsTypeOK, OutTypeOK, Phases
  <1>2. ASSUME NEW dt \in 1..MaxTicks, StepBegin(dt)
        PROVE  TypeOK'
    <2>1. dt \in 0..MaxTicks
      BY MovementAssumption
    <2> QED
      BY <1>2, <2>1 DEF StepBegin, BeginStep, headVars, fsVars, outVars, MvTypeOK,
                        FsTypeOK, OutTypeOK, Phases
  <1>3. CASE PumpCommand
    BY <1>3, PumpCommandType
  <1>4. CASE PumpFeed
    <2>1. FsTypeOK'
      BY <1>4, FeedType DEF PumpFeed
    <2> QED
      BY <1>4, <2>1 DEF PumpFeed, mvVars, headVars, outVars, MvTypeOK, OutTypeOK,
                        Phases
  <1>5. CASE MoveIterate
    BY <1>5, IterateType DEF MoveIterate, fsVars, outVars, topVars, FsTypeOK, OutTypeOK
  <1>6. CASE MoveDone
    <2>1. 0 \in 0..MaxTicks
      BY MovementAssumption
    <2> QED
      BY <1>6, <2>1 DEF MoveDone, EndStep, BeginStep, headVars, fsVars, outVars,
                        MvTypeOK, FsTypeOK, OutTypeOK, Phases
  <1>7. CASE Update
    BY <1>7, UpdateType
  <1>8. CASE Tx
    <2>1. <<>> \in Seq(Message)
      OBVIOUS
    <2> QED
      BY <1>8, <2>1 DEF Tx, PopAll, mvVars, headVars, fsVars, MvTypeOK, FsTypeOK,
                        OutTypeOK, Phases
  <1>9. CASE RaiseFault
    <2>1. MvTypeOK' /\ FsTypeOK'
      BY <1>9, ControlType, FsStopType DEF RaiseFault
    <2> QED
      BY <1>9, <2>1 DEF RaiseFault, outVars, OutTypeOK, Flags
  <1>10. CASE ClearFault
    BY <1>10 DEF ClearFault, Reported, machineVars, mvVars, headVars, fsVars, outVars,
                 MvTypeOK, FsTypeOK, OutTypeOK
  <1> QED
    BY <1>1, <1>2, <1>3, <1>4, <1>5, <1>6, <1>7, <1>8, <1>9, <1>10
       DEF Internal, Step

LEMMA TypeStep ==
    ASSUME TypeOK, [WireNext]_vars
    PROVE  TypeOK'
  <1>1. CASE WireNext
    BY <1>1, ProcessType, InternalType DEF WireNext
  <1>2. CASE UNCHANGED vars
    BY <1>2 DEF vars, mvVars, headVars, fsVars, outVars, topVars, TypeOK, MvTypeOK,
                FsTypeOK, OutTypeOK
  <1> QED
    BY <1>1, <1>2

(* The firmware keeps its types: in particular the head stays within its   *)
(* travel and a step never spends more time than it was given.             *)
THEOREM FirmwareTyped == Spec => []TypeOK
  <1>1. TypeOK /\ [Next]_vars => TypeOK'
    BY TypeStep, NextIsWireNext
  <1> QED
    BY InitType, <1>1, PTL DEF Spec

-----------------------------------------------------------------------------
(* What a step of the firmware may do to the head and its queue.           *)

KeepsQueue == cmdq' = cmdq
KeepsHead  == UNCHANGED <<mstate, laser, paused>>

LEMMA MvProcessSteps ==
    ASSUME NEW req, NEW source, MvProcess(req, source)
    PROVE  \/ KeepsHead /\ KeepsQueue
           \/ req.op = "jog_start" /\ KeepsQueue /\ BeginJog(req.arg)
           \/ req.op = "jog_stop" /\ KeepsQueue /\ EndJog
           \/ KeepsHead /\ cmdq' = Append(cmdq, Queued(req))
  BY DEF MvProcess, MvAccept, MvRefuse, Enqueue, BeginJog, EndJog, KeepsHead,
         KeepsQueue, mvVars

LEMMA TopSteps ==
    ASSUME NEW req, TopProcess(req)
    PROVE  \/ KeepsHead /\ KeepsQueue
           \/ MvStop
           \/ KeepsQueue /\ Pause
           \/ req.op = "continue" /\ KeepsQueue /\ Resume
  BY DEF TopProcess, Stop, BeginJob, Pause, Resume, KeepsHead, KeepsQueue,
         machineVars, mvVars

LEMMA NextSteps ==
    ASSUME [WireNext]_vars
    PROVE  \/ KeepsHead
           \/ MvStop \/ Pause \/ Resume \/ EndJog \/ MvIterate
           \/ \E d : BeginJog(d)
  <1>1. ASSUME NEW req \in WireRequest, Process(req)
        PROVE  \/ KeepsHead
               \/ MvStop \/ Pause \/ Resume \/ EndJog
               \/ \E d : BeginJog(d)
    <2>1. \/ UNCHANGED mvVars
          \/ MvProcess(req, "Wire")
          \/ TopProcess(req)
      BY <1>1 DEF Process, Resend, Evaluate, machineVars
    <2> QED
      BY <2>1, MvProcessSteps, TopSteps DEF KeepsHead, mvVars
  <1>2. CASE PumpCommand
    <2>1. MvProcess(Head(fbuf), "File") \/ UNCHANGED mvVars
      BY <1>2 DEF PumpCommand
    <2> QED
      BY <2>1, MvProcessSteps DEF KeepsHead, mvVars
  <1>3. CASE MoveIterate
    BY <1>3 DEF MoveIterate
  <1>4. CASE Update \/ MoveDone
    BY <1>4 DEF Update, MoveDone, EndStep, BeginStep, KeepsHead
  <1>5. CASE RaiseFault
    BY <1>5 DEF RaiseFault
  <1>6. CASE RxBegin \/ RxEnd \/ PumpFeed \/ PumpFull \/ Tx \/ ClearFault
    BY <1>6 DEF RxBegin, RxEnd, PumpFeed, PumpFull, Tx, ClearFault, KeepsHead,
                machineVars, mvVars
  <1>7. ASSUME NEW dt \in 1..MaxTicks, StepBegin(dt)
        PROVE  KeepsHead
    BY <1>7 DEF StepBegin, BeginStep, KeepsHead
  <1>8. CASE UNCHANGED vars
    BY <1>8 DEF vars, mvVars, KeepsHead
  <1> QED
    BY <1>1, <1>2, <1>3, <1>4, <1>5, <1>6, <1>7, <1>8 DEF WireNext, Internal, Step

LEMMA PausedStep ==
    ASSUME TypeOK, PausedLaserOff, [WireNext]_vars
    PROVE  PausedLaserOff'
  <1>1. CASE KeepsHead
    BY <1>1 DEF KeepsHead, PausedLaserOff
  <1>2. CASE MvStop
    BY <1>2 DEF MvStop, PausedLaserOff
  <1>3. CASE Pause
    BY <1>3 DEF Pause, EnterPause, PausedLaserOff
  <1>4. CASE Resume
    <2>1. paused.state # "Paused"
      BY DEF TypeOK, MvTypeOK
    <2> QED
      BY <1>4, <2>1 DEF Resume, PausedLaserOff
  <1>5. CASE EndJog
    BY <1>5 DEF EndJog, PausedLaserOff
  <1>6. CASE MvIterate
    <2>1. mstate' # "Paused"
      BY <1>6 DEF MvIterate, TakeNext, TakeMove, TakeDwell, TakeSetting, AdvanceMove,
                  AdvanceJog, AdvanceDwell
    <2> QED
      BY <2>1 DEF PausedLaserOff
  <1>7. CASE \E d : BeginJog(d)
    BY <1>7 DEF BeginJog, PausedLaserOff
  <1> QED
    BY <1>1, <1>2, <1>3, <1>4, <1>5, <1>6, <1>7, NextSteps

(* While paused the lasers are off: whatever the host sends and whatever   *)
(* is queued, no command executes that switches one on, and the laser that *)
(* pause() saved comes back with continue only (MovementSim::pause).       *)
THEOREM PausedIsDark == Spec => []PausedLaserOff
  <1>1. Init => PausedLaserOff
    BY DEF Init, MvInit, PausedLaserOff
  <1>2. TypeOK /\ PausedLaserOff /\ [Next]_vars => PausedLaserOff'
    BY PausedStep, NextIsWireNext
  <1> QED
    BY <1>1, <1>2, FirmwareTyped, PTL DEF Spec

-----------------------------------------------------------------------------
(* Faults.                                                                 *)

LEMMA StopRests ==
    ASSUME MvStop
    PROVE  HeadRests'
  BY DEF MvStop, HeadRests, InMotion

LEMMA PauseRests ==
    ASSUME HeadRests, Pause
    PROVE  HeadRests'
  BY DEF HeadRests, Pause, EnterPause, InMotion

LEMMA SameRests ==
    ASSUME HeadRests, KeepsHead, KeepsQueue
    PROVE  HeadRests'
  BY DEF HeadRests, KeepsHead, KeepsQueue

LEMMA EnqueueRests ==
    ASSUME HeadRests, cmdq \in Seq(QueuedCommand), KeepsHead,
           NEW req, req.op \notin MoveOps, cmdq' = Append(cmdq, Queued(req))
    PROVE  HeadRests'
  <1>1. \A i \in 1..Len(cmdq') : cmdq'[i].op \notin MoveOps
    <2> SUFFICES ASSUME NEW i \in 1..Len(cmdq')
                 PROVE  cmdq'[i].op \notin MoveOps
      OBVIOUS
    <2>1. Len(cmdq') = Len(cmdq) + 1
      OBVIOUS
    <2>2. CASE i \in 1..Len(cmdq)
      BY <2>2 DEF HeadRests
    <2>3. CASE i = Len(cmdq) + 1
      BY <2>3 DEF Queued
    <2> QED
      BY <2>1, <2>2, <2>3
  <1> QED
    BY <1>1 DEF HeadRests, KeepsHead

LEMMA IterateRests ==
    ASSUME MvTypeOK, HeadRests, MvIterate
    PROVE  HeadRests'
  <1>1. CASE TakeNext
    <2>1. Head(cmdq) = cmdq[1] /\ cmdq[1].op \notin MoveOps
      BY <1>1 DEF TakeNext, HeadRests, MvTypeOK
    <2>2. mstate' \in {"Idle", "Dwelling"}
      BY <1>1, <2>1 DEF TakeNext, TakeMove, TakeDwell, TakeSetting
    <2>3. \A i \in 1..Len(cmdq') : cmdq'[i].op \notin MoveOps
      BY <1>1 DEF TakeNext, HeadRests, MvTypeOK
    <2> QED
      BY <2>2, <2>3 DEF HeadRests, InMotion
  <1>2. CASE AdvanceDwell
    BY <1>2 DEF AdvanceDwell, HeadRests, InMotion
  <1>3. ~AdvanceMove /\ ~AdvanceJog
    BY DEF AdvanceMove, AdvanceJog, HeadRests, InMotion
  <1> QED
    BY <1>1, <1>2, <1>3 DEF MvIterate

LEMMA RequestUnderFault ==
    ASSUME TypeOK, FaultInv, fault, NEW req \in WireRequest, Process(req)
    PROVE  HeadRests' /\ ~executing' /\ ("fault" \in fwState)'
  <1>1. HeadRests /\ ~executing /\ "fault" \in fwState
    BY DEF FaultInv
  <1>2. CASE UNCHANGED <<mvVars, fwState>>
    BY <1>1, <1>2, SameRests DEF mvVars, KeepsHead, KeepsQueue, executing
  <1>3. CASE ~StartsMotion(req) /\ MvProcess(req, "Wire") /\ UNCHANGED fwState
    <2>1. /\ req.op \notin MoveOps
          /\ req.op # "jog_start" /\ req.op # "jog_stop"
      BY <1>3 DEF StartsMotion, JogOps
    <2>2. \/ KeepsHead /\ KeepsQueue
          \/ KeepsHead /\ cmdq' = Append(cmdq, Queued(req))
      BY <1>3, <2>1, MvProcessSteps
    <2>3. cmdq \in Seq(QueuedCommand)
      BY DEF TypeOK, MvTypeOK
    <2>4. HeadRests'
      BY <1>1, <2>1, <2>2, <2>3, SameRests, EnqueueRests
    <2> QED
      BY <1>1, <1>3, <2>4 DEF executing
  <1>4. CASE ~StartsMotion(req) /\ TopProcess(req)
    <2>1. req.op # "continue" /\ req.op # "execute"
      BY <1>4 DEF StartsMotion
    <2>2. (KeepsHead /\ KeepsQueue) \/ MvStop \/ Pause
      BY <1>4, <2>1, TopSteps
    <2>3. HeadRests'
      BY <1>1, <2>2, SameRests, StopRests, PauseRests
    <2>4. fwState' = fwState \/ fwState' = Stopped(fwState)
      BY <1>4, <2>1 DEF TopProcess, Stop
    <2> QED
      BY <1>1, <2>3, <2>4 DEF executing, Stopped
  <1> QED
    BY <1>2, <1>3, <1>4 DEF Process, Resend, Evaluate, machineVars

LEMMA FaultStep ==
    ASSUME TypeOK, FaultInv, [WireNext]_vars
    PROVE  FaultInv'
  <1>1. ASSUME NEW req \in WireRequest, Process(req)
        PROVE  FaultInv'
    BY <1>1, RequestUnderFault DEF FaultInv, Process
  <1>2. CASE UNCHANGED <<mvVars, fwState, fault>> /\ phase' # "pump"
    BY <1>2, SameRests DEF FaultInv, mvVars, KeepsHead, KeepsQueue, executing
  <1>3. ASSUME NEW dt \in 1..MaxTicks, StepBegin(dt)
        PROVE  FaultInv'
    BY <1>3, SameRests DEF StepBegin, BeginStep, FaultInv, KeepsHead, KeepsQueue,
                           executing
  <1>4. CASE PumpCommand \/ (PumpFeed /\ UNCHANGED phase)
    <2>1. executing /\ ~fault
      BY <1>4 DEF PumpCommand, PumpFeed, FaultInv
    <2> QED
      BY <1>4, <2>1 DEF PumpCommand, PumpFeed, FaultInv, executing, topVars
  <1>5. CASE MoveIterate
    BY <1>5, IterateRests DEF MoveIterate, FaultInv, TypeOK, executing, topVars
  <1>6. CASE MoveDone
    BY <1>6, SameRests DEF MoveDone, EndStep, BeginStep, FaultInv, KeepsHead,
                           KeepsQueue, executing
  <1>7. CASE Update
    <2>1. phase' = "tx" /\ KeepsHead /\ KeepsQueue /\ UNCHANGED fault
      BY <1>7 DEF Update, KeepsHead, KeepsQueue
    <2>2. ASSUME fault
          PROVE  ~executing' /\ ("fault" \in fwState)'
      BY <1>7, <2>2 DEF Update, Reported, FaultInv, executing, Flags
    <2> QED
      BY <2>1, <2>2, SameRests DEF FaultInv
  <1>8. CASE RaiseFault
    BY <1>8, StopRests DEF RaiseFault, FaultInv, executing
  <1>9. CASE ClearFault
    BY <1>9 DEF ClearFault, FaultInv
  <1>10. CASE UNCHANGED vars
    BY <1>10, SameRests DEF vars, mvVars, topVars, FaultInv, KeepsHead, KeepsQueue,
                            executing
  <1> QED
    BY <1>1, <1>2, <1>3, <1>4, <1>5, <1>6, <1>7, <1>8, <1>9, <1>10
       DEF WireNext, Internal, Step, RxBegin, RxEnd, PumpFeed, PumpFull, Tx

(* While a fault is active the head neither moves nor jogs, no job is      *)
(* executing, and the state that is reported says so: no request, retry,   *)
(* queued command or pause can bring a motion back before it is cleared    *)
(* (FirmwareSim::setFault, FirmwareSim::process).                          *)
THEOREM FaultIsSafe == Spec => []FaultSafe
  <1>1. Init => FaultInv
    BY DEF Init, FaultInv
  <1>2. TypeOK /\ FaultInv /\ [Next]_vars => FaultInv'
    BY FaultStep, NextIsWireNext
  <1>3. FaultInv => FaultSafe
    BY DEF FaultInv, FaultSafe, HeadRests
  <1> QED
    BY <1>1, <1>2, <1>3, FirmwareTyped, PTL DEF Spec

-----------------------------------------------------------------------------
(* The inductive invariants.                                               *)

(* `last' is the request with the last number. *)
HostTypeOK == /\ numbered \in Nat /\ sends \in Nat
              /\ last.txid = numbered
              /\ numbered > 0 => last \in WireRequest /\ Unnumbered(last.body)
              /\ torn \in BOOLEAN /\ endTaken \in BOOLEAN /\ held \in BOOLEAN
              /\ jogOff \in BOOLEAN /\ lit \in BOOLEAN

(* What is in the file, and in its parser when the file is read. *)
FilesInv == /\ Unnumbered(file) /\ Unnumbered(fbuf)
            /\ ~isReading => fbuf = <<>>

(* `last' took effect exactly if the response that is remembered is to it; *)
(* it is then the request that was processed last.                         *)
RetryInv == /\ lastResponse.txid <= numbered
            /\ evaluations = IF numbered > 0 /\ lastResponse.txid = numbered
                             THEN 1 ELSE 0
            /\ evaluations = 1 => lastTxid = numbered /\ lastResponse.cmd = last.op
            /\ confirmed \in BOOLEAN
            /\ confirmed => evaluations = 1

(* What is on the disk when the answer to `last' was not sent. *)
TransferInv == /\ TransferExact
               /\ evaluations = 1 /\ ~confirmed =>
                     /\ last.op = "file_begin" => file = <<>>
                     /\ last.op = "file_chunk" => torn \/ last.body = <<>>

(* A job that executes was read from a file, and the latch of job_end is   *)
(* its own.                                                                *)
JobInv == executing => /\ onDisk
                       /\ jobEnded => phase \in {"move", "finish"} /\ endTaken

(* What holds the head. *)
HeldInv == held => mstate = "Paused"

HostInv == /\ TypeOK /\ HostTypeOK /\ FilesInv /\ RetryInv /\ TransferInv /\ JobInv
           /\ HeldInv /\ PausedLaserOff /\ FaultInv /\ JogStaysOff /\ FaultDark

-----------------------------------------------------------------------------
(* The host's messages, by what they carry.                                *)

LEMMA Renumbered ==
    ASSUME NEW req \in WireRequest, NEW t \in Nat
    PROVE  LET r == [req EXCEPT !.txid = t]
           IN  r \in WireRequest /\ r.txid = t /\ r.body = req.body
  BY DEF WireRequest, IsCommand

Sending(req) == Process(req) /\ sends' = sends + 1

(* A request with a new number, the last one again, and one without. *)
Asks(req) == /\ Sending(req)
             /\ req.txid = numbered + 1 /\ numbered' = numbered + 1
             /\ last' = req /\ Unnumbered(req.body)
             /\ Counted(req, 0, FALSE)
             /\ Observed(req, Confirmation)

AsksAgain(req) == /\ Sending(req)
                  /\ numbered > 0 /\ req = last
                  /\ Counted(req, evaluations, confirmed)
                  /\ Observed(req, Confirmation /\ ~confirmed)
                  /\ UNCHANGED <<numbered, last>>

Calls(req) == /\ Sending(req)
              /\ req.txid = NoTxid /\ req.op \notin FileOps
              /\ Observed(req, FALSE)
              /\ UNCHANGED <<numbered, last, evaluations, confirmed>>

LEMMA HostSteps ==
    ASSUME HostTypeOK, [HostNext]_allVars
    PROVE  \/ \E req \in WireRequest : Asks(req) \/ AsksAgain(req) \/ Calls(req)
           \/ Firmware
           \/ UNCHANGED allVars
  <1>1. ASSUME NEW q \in Request, NewRequest(q)
        PROVE  \E req \in WireRequest : Asks(req)
    <2> DEFINE r == [q EXCEPT !.txid = numbered + 1]
    <2>1. q \in WireRequest /\ Unnumbered(q.body)
      <3>1. q \in WireRequest
        BY RequestAssumption
      <3>2. Unnumbered(q.body)
        BY NumbersAssumption
      <3> QED
        BY <3>1, <3>2
    <2>2. r \in WireRequest /\ r.txid = numbered + 1 /\ r.body = q.body
      <3>1. numbered + 1 \in Nat
        BY DEF HostTypeOK
      <3> QED
        BY <2>1, <3>1, Renumbered
    <2>3. Asks(r)
      <3> HIDE DEF r
      <3>1. /\ MaySend /\ numbered' = numbered + 1 /\ last' = r
            /\ Process(r) /\ Counted(r, 0, FALSE) /\ Observed(r, Confirmation)
        BY <1>1 DEF NewRequest, r
      <3> QED
        BY <2>1, <2>2, <3>1 DEF Asks, Sending, MaySend
    <2> QED
      BY <2>2, <2>3
  <1>2. ASSUME Retry
        PROVE  \E req \in WireRequest : AsksAgain(req)
    <2>1. numbered > 0 /\ last \in WireRequest
      BY <1>2 DEF Retry, HostTypeOK, NoTxid
    <2>2. AsksAgain(last)
      BY <1>2, <2>1 DEF Retry, AsksAgain, Sending, MaySend
    <2> QED
      BY <2>1, <2>2
  <1>3. ASSUME NEW q \in Request, Anonymous(q)
        PROVE  \E req \in WireRequest : Calls(req)
    <2> DEFINE r == [q EXCEPT !.txid = NoTxid]
    <2>1. r \in WireRequest /\ r.txid = NoTxid
      BY RequestAssumption, Renumbered DEF NoTxid
    <2>2. Calls(r)
      <3> HIDE DEF r
      <3>1. /\ MaySend /\ r.op \in AnonymousOps
            /\ Process(r) /\ Observed(r, FALSE)
            /\ UNCHANGED <<numbered, last, evaluations, confirmed>>
        BY <1>3 DEF Anonymous, r
      <3>2. r.op \notin FileOps
        <4>1. AnonymousOps \cap FileOps = {}
          BY NumbersAssumption
        <4> QED
          BY <3>1, <4>1
      <3> QED
        BY <2>1, <3>1, <3>2 DEF Calls, Sending, MaySend
    <2> QED
      BY <2>1, <2>2
  <1> QED
    BY <1>1, <1>2, <1>3 DEF HostNext

(* The host adds nothing to what the firmware does. *)
LEMMA HostStepIsWireStep ==
    ASSUME HostTypeOK, [HostNext]_allVars
    PROVE  [WireNext]_vars
  BY HostSteps DEF Asks, AsksAgain, Calls, Sending, Firmware, WireNext, allVars

LEMMA FirmwareKeepsHost ==
    ASSUME Firmware \/ UNCHANGED allVars
    PROVE  UNCHANGED <<hostVars, evaluations, confirmed, content, torn>>
  BY DEF Firmware, allVars, hostVars, historyVars

-----------------------------------------------------------------------------
(* Answers.                                                                *)

(* A message that is pushed is the last of the queue, if it is there.      *)
LEMMA PushedIsAnswer ==
    ASSUME OutTypeOK, NEW m \in Message, Push(m)
    PROVE  Pushed => Answer = m
  BY OutCapIsNat DEF OutTypeOK, Push, Pushed, Answer

(* A request is evaluated and not rejected, *)
Acknowledged(req) == /\ ~Repeated(req)
                     /\ \E flags \in SUBSET Flags : Push(AckFlags(req, flags))

(* rejected, *)
Refused(req) == /\ ~Repeated(req)
                /\ \E err \in Errors : Push(NackTo(req, err))

(* or recognised and answered as before. *)
LEMMA ProcessOutcome ==
    ASSUME TypeOK, NEW req \in WireRequest, Process(req)
    PROVE  \/ Resend(req)
           \/ Acknowledged(req)
           \/ Refused(req)
  <1> USE DEF Acknowledged, Refused
  <1>1. fwState \in SUBSET Flags /\ {} \in SUBSET Flags
    BY DEF TypeOK
  <1>2. Respond(req) => \E flags \in SUBSET Flags : Push(AckFlags(req, flags))
    BY <1>1 DEF Respond, Ack
  <1>3. \A err \in Errors : Nack(req, err) => \E e \in Errors : Push(NackTo(req, e))
    BY DEF Nack
  <1>4. ASSUME Evaluate(req)
        PROVE  \/ Respond(req)
               \/ \E err \in Errors : Nack(req, err)
               \/ Push(AckFlags(req, fwState))
    <2>1. CASE FsProcess(req)
      BY <2>1 DEF FsProcess, FileBegin, FileChunk, FileEnd, Errors
    <2>2. CASE MvProcess(req, "Wire")
      BY <2>2 DEF MvProcess, MvAccept, MvRefuse, Errors
    <2>3. CASE TopProcess(req)
      BY <2>3 DEF TopProcess, Errors
    <2> QED
      BY <1>4, <2>1, <2>2, <2>3 DEF Evaluate, Errors
  <1> QED
    BY <1>1, <1>2, <1>3, <1>4 DEF Process, Evaluate

LEMMA AnswerTypes ==
    ASSUME TypeOK, NEW req \in WireRequest
    PROVE  /\ \A flags \in SUBSET Flags : AckFlags(req, flags) \in Message
           /\ \A err \in Errors : NackTo(req, err) \in Message
           /\ lastResponse \in Message
  BY WireRequestType, AckType, NackToType DEF TypeOK, OutTypeOK

LEMMA AckIsRemembered ==
    ASSUME TypeOK, NEW req \in WireRequest, Acknowledged(req)
    PROVE  /\ Pushed => Answer.cmd = req.op /\ Answer.txid = req.txid
           /\ req.txid # NoTxid => /\ lastResponse'.txid = req.txid
                                   /\ lastResponse'.cmd = req.op
           /\ req.txid = NoTxid => lastResponse' = lastResponse
           /\ req.op # "nack"
  <1>1. PICK flags \in SUBSET Flags : Push(AckFlags(req, flags))
    BY DEF Acknowledged
  <1>2. AckFlags(req, flags) \in Message
    BY AnswerTypes
  <1>3. Pushed => Answer = AckFlags(req, flags)
    BY <1>1, <1>2, PushedIsAnswer DEF TypeOK
  <1>4. req.op # "nack"
    BY DEF WireRequest, Ops, KnownOps, FileOps, JogOps, QueuedOps, MoveOps, TopOps,
           PlainOps
  <1> DEFINE m == AckFlags(req, flags)
  <1>5. m.txid = req.txid /\ m.cmd = req.op
    BY DEF AckFlags
  <1>6. lastResponse' = IF req.txid # NoTxid THEN m ELSE lastResponse
    <2>1. lastResponse' = Remembered(m)
      BY <1>1 DEF Push
    <2> QED
      BY <1>4, <1>5, <2>1 DEF Remembered
  <1> HIDE DEF m
  <1> QED
    BY <1>3, <1>4, <1>5, <1>6 DEF m

LEMMA NackIsForgotten ==
    ASSUME TypeOK, NEW req \in WireRequest, Refused(req)
    PROVE  /\ Pushed => /\ Answer.cmd = "nack" /\ Answer.txid = req.txid
                        /\ Answer.of = req.op
           /\ lastResponse' = lastResponse
  <1>1. PICK err \in Errors : Push(NackTo(req, err))
    BY DEF Refused
  <1>2. NackTo(req, err) \in Message
    BY AnswerTypes
  <1>3. Pushed => Answer = NackTo(req, err)
    BY <1>1, <1>2, PushedIsAnswer DEF TypeOK
  <1> QED
    BY <1>1, <1>3 DEF Push, Remembered, NackTo

LEMMA ResentIsTheSame ==
    ASSUME TypeOK, NEW req \in WireRequest, Resend(req)
    PROVE  /\ Pushed => Answer = lastResponse
           /\ lastResponse' = lastResponse
           /\ lastResponse.txid = req.txid /\ req.txid # NoTxid
  BY PushedIsAnswer, AnswerTypes
     DEF TypeOK, Resend, Repeated, HasResponse, Push, Remembered

LEMMA ProcessTxid ==
    ASSUME NEW req, Process(req)
    PROVE  lastTxid' = IF ~Repeated(req) /\ req.txid # NoTxid THEN req.txid
                       ELSE lastTxid
  BY DEF Process, Resend, Evaluate

-----------------------------------------------------------------------------
(* Types and files.                                                        *)

LEMMA ObservedType ==
    ASSUME HostTypeOK, NEW req, NEW first, Observed(req, first)
    PROVE  /\ torn' \in BOOLEAN /\ endTaken' \in BOOLEAN /\ held' \in BOOLEAN
           /\ jogOff' \in BOOLEAN /\ lit' \in BOOLEAN
  BY DEF HostTypeOK, Observed, EndsJog

LEMMA HostTypeStep ==
    ASSUME HostTypeOK, [HostNext]_allVars
    PROVE  HostTypeOK'
  <1>1. ASSUME NEW req \in WireRequest, Asks(req)
        PROVE  HostTypeOK'
    <2>1. /\ last' = req /\ numbered' = numbered + 1 /\ req.txid = numbered + 1
          /\ Unnumbered(req.body) /\ sends' = sends + 1
          /\ Observed(req, Confirmation)
      BY <1>1 DEF Asks, Sending
    <2> QED
      BY <2>1, ObservedType DEF HostTypeOK
  <1>2. ASSUME NEW req \in WireRequest, AsksAgain(req) \/ Calls(req)
        PROVE  HostTypeOK'
    <2>1. /\ UNCHANGED <<numbered, last>> /\ sends' = sends + 1
          /\ \E first : Observed(req, first)
      BY <1>2 DEF AsksAgain, Calls, Sending
    <2> QED
      BY <2>1, ObservedType DEF HostTypeOK
  <1>3. CASE Firmware
    <2>1. /\ endTaken' \in BOOLEAN /\ held' \in BOOLEAN /\ jogOff' \in BOOLEAN
          /\ lit' \in BOOLEAN
      BY <1>3 DEF Firmware, HostTypeOK
    <2> QED
      BY <1>3, <2>1, FirmwareKeepsHost DEF hostVars, HostTypeOK
  <1>4. CASE UNCHANGED allVars
    BY <1>4 DEF allVars, hostVars, historyVars, HostTypeOK
  <1> QED
    BY <1>1, <1>2, <1>3, <1>4, HostSteps

(* What a request may do to the file and to what is read of it. *)
LEMMA FileSteps ==
    ASSUME NEW req, Process(req)
    PROVE  \/ UNCHANGED fsVars
           \/ FsProcess(req) /\ UNCHANGED <<mvVars, fwState>>
           \/ FsStop
           \/ req.op = "execute" /\ BeginJob
  BY DEF Process, Resend, Evaluate, TopProcess, Stop, machineVars

LEMMA UnnumberedJoin ==
    ASSUME NEW s \in Seq(JobCommand), NEW t \in Seq(JobCommand),
           Unnumbered(s), Unnumbered(t)
    PROVE  Unnumbered(s \o t)
  BY DEF Unnumbered

LEMMA UnnumberedPart ==
    ASSUME NEW s \in Seq(JobCommand), Unnumbered(s),
           NEW m \in Nat, NEW n \in Nat, n <= Len(s)
    PROVE  /\ SubSeq(s, m + 1, n) \in Seq(JobCommand)
           /\ Unnumbered(SubSeq(s, m + 1, n))
  BY DEF Unnumbered

LEMMA FilesProcessStep ==
    ASSUME TypeOK, FilesInv, NEW req \in WireRequest, Process(req),
           req.op \in FileOps => Unnumbered(req.body)
    PROVE  FilesInv'
  <1>1. /\ Unnumbered(<<>>)
        /\ file \in Seq(JobCommand) /\ fbuf \in Seq(JobCommand)
    BY DEF Unnumbered, TypeOK, FsTypeOK
  <1>2. CASE UNCHANGED fsVars
    BY <1>2 DEF FilesInv, fsVars, isReading
  <1>3. CASE FileBegin(req)
    <2>1. ~isReading \/ UNCHANGED fsVars
      BY <1>3 DEF FileBegin, CannotBegin
    <2>2. CASE ~isReading /\ ~(UNCHANGED fsVars)
      <3>1. fbuf' = <<>> /\ (file' = file \/ file' = <<>>)
        BY <1>3, <2>2 DEF FileBegin, FsStop
      <3> QED
        BY <1>1, <3>1 DEF FilesInv
    <2> QED
      BY <1>2, <2>1, <2>2
  <1>4. CASE FileChunk(req)
    <2>1. req.body \in Seq(JobCommand) /\ Unnumbered(req.body)
      BY <1>4, WireRequestType DEF FileChunk, FileOps
    <2>2. Unnumbered(file')
      <3>1. CASE UNCHANGED file
        BY <3>1 DEF FilesInv
      <3>2. CASE file' = file \o req.body
        BY <1>1, <2>1, <3>2, UnnumberedJoin DEF FilesInv
      <3>3. ASSUME NEW n \in 0..Len(req.body), file' = file \o SubSeq(req.body, 1, n)
            PROVE  Unnumbered(file')
        <4>1. /\ SubSeq(req.body, 0 + 1, n) \in Seq(JobCommand)
              /\ Unnumbered(SubSeq(req.body, 0 + 1, n))
          BY <2>1, UnnumberedPart
        <4>2. 0 + 1 = 1
          OBVIOUS
        <4>3. Unnumbered(file \o SubSeq(req.body, 1, n))
          BY <1>1, <4>1, <4>2, UnnumberedJoin DEF FilesInv
        <4> QED
          BY <3>3, <4>3
      <3> QED
        BY <1>4, <3>1, <3>2, <3>3 DEF FileChunk
    <2> QED
      BY <1>4, <2>2 DEF FileChunk, FilesInv, isReading
  <1>5. CASE FileEnd(req)
    BY <1>5 DEF FileEnd, FilesInv, isReading
  <1>6. CASE FsStop \/ (req.op = "execute" /\ BeginJob)
    BY <1>1, <1>6 DEF FsStop, BeginJob, StartReading, FilesInv
  <1> QED
    BY <1>2, <1>3, <1>4, <1>5, <1>6, FileSteps DEF FsProcess

LEMMA FilesInternalStep ==
    ASSUME TypeOK, FilesInv, Internal
    PROVE  FilesInv'
  <1>1. /\ Unnumbered(<<>>)
        /\ file \in Seq(JobCommand) /\ fbuf \in Seq(JobCommand)
    BY DEF Unnumbered, TypeOK, FsTypeOK
  <1>2. CASE UNCHANGED fsVars
    BY <1>2 DEF FilesInv, fsVars, isReading
  <1>3. CASE PumpCommand
    <2>1. fbuf # <<>> /\ fbuf' = Tail(fbuf) /\ UNCHANGED <<fstate, file>>
      BY <1>3 DEF PumpCommand
    <2>2. Unnumbered(Tail(fbuf))
      BY <1>1, <2>1 DEF FilesInv, Unnumbered
    <2> QED
      BY <2>1, <2>2 DEF FilesInv, isReading
  <1>4. CASE PumpFeed
    <2>1. CASE FeedParser
      <3>1. /\ Readable \in Nat /\ rd \in Nat
            /\ rd + Readable <= Len(file) /\ isReading
        BY <2>1, FileSystemAssumption
           DEF FeedParser, Readable, isReading, TypeOK, FsTypeOK
      <3>2. /\ SubSeq(file, rd + 1, rd + Readable) \in Seq(JobCommand)
            /\ Unnumbered(SubSeq(file, rd + 1, rd + Readable))
        <4>1. rd + Readable \in Nat
          BY <3>1
        <4> QED
          BY <1>1, <3>1, <4>1, UnnumberedPart DEF FilesInv
      <3>3. Unnumbered(fbuf')
        BY <1>1, <2>1, <3>2, UnnumberedJoin DEF FilesInv, FeedParser
      <3> QED
        BY <2>1, <3>1, <3>3 DEF FilesInv, FeedParser, isReading
    <2>2. CASE FeedNothing
      BY <1>4, <2>2 DEF PumpFeed, FeedNothing, FilesInv
    <2> QED
      BY <1>4, <2>1, <2>2 DEF PumpFeed
  <1>5. CASE FsStop
    BY <1>1, <1>5 DEF FsStop, FilesInv
  <1> QED
    BY <1>2, <1>3, <1>4, <1>5
       DEF Internal, Step, RxBegin, RxEnd, StepBegin, PumpFull, MoveIterate, MoveDone,
           Update, Tx, RaiseFault, ClearFault, machineVars

LEMMA FilesStep ==
    ASSUME TypeOK, HostTypeOK, FilesInv, [HostNext]_allVars
    PROVE  FilesInv'
  <1>1. ASSUME NEW req \in WireRequest, Asks(req) \/ AsksAgain(req) \/ Calls(req)
        PROVE  FilesInv'
    <2>1. req.op \in FileOps => Unnumbered(req.body)
      BY <1>1 DEF Asks, AsksAgain, Calls, HostTypeOK
    <2> QED
      BY <1>1, <2>1, FilesProcessStep DEF Asks, AsksAgain, Calls, Sending
  <1>2. CASE Firmware
    BY <1>2, FilesInternalStep DEF Firmware
  <1>3. CASE UNCHANGED allVars
    BY <1>3 DEF allVars, vars, fsVars, FilesInv, isReading
  <1> QED
    BY <1>1, <1>2, <1>3, HostSteps

-----------------------------------------------------------------------------
(* Retries.                                                                *)

(* The firmware's own steps remember nothing: what they push has no number.*)
LEMMA InternalMemory ==
    ASSUME FilesInv, Internal, TypeOK
    PROVE  lastResponse' = lastResponse /\ lastTxid' = lastTxid
  <1>1. CASE UNCHANGED <<lastResponse, lastTxid>>
    BY <1>1
  <1>2. CASE PumpCommand
    <2>1. Head(fbuf).txid = NoTxid
      BY <1>2 DEF PumpCommand, FilesInv, Unnumbered, TypeOK, FsTypeOK
    <2>2. Respond(Head(fbuf)) \/ UNCHANGED outVars
      BY <1>2 DEF PumpCommand, MvProcess, MvAccept, MvRefuse
    <2>3. lastResponse' = lastResponse
      BY <2>1, <2>2 DEF Respond, Ack, AckFlags, Push, Remembered, outVars
    <2> QED
      BY <1>2, <2>3 DEF PumpCommand, topVars
  <1>3. CASE Update
    <2>1. Push(JobEndNotice) \/ UNCHANGED outVars
      BY <1>3 DEF Update
    <2> QED
      BY <1>3, <2>1 DEF Update, Push, JobEndNotice, Remembered, outVars
  <1> QED
    BY <1>1, <1>2, <1>3
       DEF Internal, Step, RxBegin, RxEnd, StepBegin, PumpFeed, PumpFull, MoveIterate,
           MoveDone, Tx, PopAll, RaiseFault, ClearFault, outVars, topVars

(* A request that is recognised is the last one, and took effect. *)
LEMMA RecognisedRetry ==
    ASSUME HostTypeOK, RetryInv, TypeOK, NEW req, req.txid = numbered,
           req.txid # NoTxid
    PROVE  Repeated(req) <=> evaluations = 1
  BY DEF HostTypeOK, RetryInv, Repeated, HasResponse, NoTxid

LEMMA NewIsNotRecognised ==
    ASSUME HostTypeOK, RetryInv, NEW req,
           req.txid = numbered + 1 \/ req.txid = NoTxid
    PROVE  ~Repeated(req)
  BY DEF HostTypeOK, RetryInv, Repeated, HasResponse, NoTxid

LEMMA RetryStep ==
    ASSUME TypeOK, HostTypeOK, FilesInv, RetryInv, [HostNext]_allVars
    PROVE  RetryInv'
  <1>1. /\ numbered \in Nat /\ evaluations \in {0, 1}
        /\ lastResponse.txid \in Nat
    BY DEF HostTypeOK, RetryInv, TypeOK, OutTypeOK, Message
  <1>2. Confirmation \in BOOLEAN /\ confirmed \in BOOLEAN
    BY DEF Confirmation, RetryInv
  <1>3. ASSUME NEW req \in WireRequest, Asks(req)
        PROVE  RetryInv'
    <2>1. /\ Process(req) /\ req.txid = numbered + 1 /\ numbered' = numbered + 1
          /\ last' = req /\ req.txid # NoTxid
          /\ evaluations' = IF ~Repeated(req) /\ lastResponse'.txid = req.txid
                            THEN 1 ELSE 0
          /\ confirmed' = Confirmation
      BY <1>1, <1>2, <1>3 DEF Asks, Sending, Counted, NoTxid
    <2>2. ~Repeated(req)
      BY <2>1, NewIsNotRecognised
    <2>3. lastTxid' = numbered + 1
      BY <2>1, <2>2, ProcessTxid
    <2>4. Acknowledged(req) \/ Refused(req)
      BY <2>1, <2>2, ProcessOutcome DEF Resend
    <2>5. CASE Acknowledged(req)
      BY <1>1, <1>2, <2>1, <2>2, <2>3, <2>5, AckIsRemembered DEF RetryInv
    <2>6. CASE Refused(req)
      <3>1. lastResponse'.txid # req.txid
        BY <1>1, <2>1, <2>6, NackIsForgotten DEF RetryInv
      <3>2. ~Confirmation /\ lastResponse' = lastResponse
        BY <2>6, NackIsForgotten DEF Confirmation
      <3>3. evaluations' = 0 /\ ~confirmed' /\ confirmed' \in BOOLEAN
        BY <1>2, <2>1, <2>2, <3>1, <3>2
      <3>4. lastResponse'.txid <= numbered' /\ lastResponse'.txid # numbered'
        BY <1>1, <2>1, <3>1, <3>2 DEF RetryInv
      <3> QED
        BY <3>3, <3>4 DEF RetryInv
    <2> QED
      BY <2>4, <2>5, <2>6
  <1>4. ASSUME NEW req \in WireRequest, AsksAgain(req)
        PROVE  RetryInv'
    <2>1. /\ Process(req) /\ numbered > 0 /\ req.txid = numbered /\ req = last
          /\ UNCHANGED <<numbered, last>> /\ req.txid # NoTxid
          /\ evaluations' = IF ~Repeated(req) /\ lastResponse'.txid = req.txid
                            THEN evaluations + 1 ELSE evaluations
          /\ confirmed' = (confirmed \/ Confirmation)
      BY <1>1, <1>4 DEF AsksAgain, Sending, Counted, HostTypeOK, NoTxid
    <2>2. CASE Resend(req)
      <3>1. Repeated(req) /\ lastResponse' = lastResponse
        BY <2>2, ResentIsTheSame DEF Resend
      <3>2. evaluations = 1 /\ evaluations' = 1 /\ lastTxid' = lastTxid
        BY <2>1, <3>1, RecognisedRetry, ProcessTxid
      <3> QED
        BY <1>2, <2>1, <3>1, <3>2 DEF RetryInv
    <2>3. CASE Acknowledged(req)
      <3>1. ~Repeated(req) /\ evaluations = 0
        BY <1>1, <2>1, <2>3, RecognisedRetry DEF Acknowledged
      <3>2. lastTxid' = numbered
        BY <2>1, <3>1, ProcessTxid
      <3> QED
        BY <1>1, <1>2, <2>1, <2>3, <3>1, <3>2, AckIsRemembered DEF RetryInv
    <2>4. CASE Refused(req)
      <3>1. ~Repeated(req) /\ evaluations = 0
        BY <1>1, <2>1, <2>4, RecognisedRetry DEF Refused
      <3>2. ~Confirmation /\ lastResponse' = lastResponse
        BY <2>4, NackIsForgotten DEF Confirmation
      <3>3. evaluations' = 0
        BY <2>1, <3>1, <3>2 DEF RetryInv
      <3> QED
        BY <1>1, <2>1, <3>1, <3>2, <3>3 DEF RetryInv
    <2> QED
      BY <2>1, <2>2, <2>3, <2>4, ProcessOutcome
  <1>5. ASSUME NEW req \in WireRequest, Calls(req)
        PROVE  RetryInv'
    <2>1. /\ Process(req) /\ req.txid = NoTxid
          /\ UNCHANGED <<numbered, last, evaluations, confirmed>>
      BY <1>5 DEF Calls, Sending
    <2>2. ~Repeated(req)
      BY <2>1, NewIsNotRecognised
    <2>3. lastTxid' = lastTxid
      BY <2>1, ProcessTxid
    <2>4. lastResponse' = lastResponse
      BY <2>1, <2>2, ProcessOutcome, AckIsRemembered, NackIsForgotten DEF Resend
    <2> QED
      BY <2>1, <2>3, <2>4 DEF RetryInv
  <1>6. CASE Firmware \/ UNCHANGED allVars
    <2>1. lastResponse' = lastResponse /\ lastTxid' = lastTxid
      BY <1>6, InternalMemory DEF Firmware, allVars, vars, outVars, topVars
    <2> QED
      BY <1>6, <2>1, FirmwareKeepsHost DEF hostVars, RetryInv
  <1> QED
    BY <1>3, <1>4, <1>5, <1>6, HostSteps

-----------------------------------------------------------------------------
(* Transfers.                                                              *)

LEMMA FileOutcome ==
    ASSUME TypeOK, NEW req \in WireRequest, Process(req)
    PROVE  \/ Resend(req) /\ file' = file
           \/ /\ req.op \notin {"file_begin", "file_chunk"} /\ file' = file
              /\ Acknowledged(req) \/ Refused(req)
           \/ req.op = "file_begin" /\ Acknowledged(req) /\ file' = <<>>
           \/ req.op = "file_begin" /\ Refused(req) /\ file' = file
           \/ req.op = "file_chunk" /\ Acknowledged(req) /\ file' = file \o req.body
           \/ req.op = "file_chunk" /\ Refused(req)
  <1>1. CASE Resend(req)
    BY <1>1 DEF Resend, machineVars, fsVars
  <1>2. ASSUME ~Resend(req), Respond(req)
        PROVE  Acknowledged(req)
    <2>1. {} \in SUBSET Flags
      OBVIOUS
    <2> QED
      BY <1>2, <2>1 DEF Acknowledged, Respond, Ack, Process, Evaluate
  <1>3. ASSUME ~Resend(req), NEW err \in Errors, Nack(req, err)
        PROVE  Refused(req)
    BY <1>3 DEF Refused, Nack, Process, Evaluate
  <1>4. CASE ~Resend(req) /\ FileBegin(req)
    <2>1. req.op = "file_begin"
      BY <1>4 DEF FileBegin
    <2>2. \/ Respond(req) /\ file' = <<>>
          \/ (\E err \in Errors : Nack(req, err)) /\ file' = file
      BY <1>4 DEF FileBegin, FsStop, fsVars, Errors
    <2> QED
      BY <1>2, <1>3, <1>4, <2>1, <2>2
  <1>5. CASE ~Resend(req) /\ FileChunk(req)
    <2>1. req.op = "file_chunk"
      BY <1>5 DEF FileChunk
    <2>2. \/ Respond(req) /\ file' = file \o req.body
          \/ \E err \in Errors : Nack(req, err)
      BY <1>5 DEF FileChunk, Errors
    <2> QED
      BY <1>2, <1>3, <1>5, <2>1, <2>2
  <1>6. CASE ~Resend(req) /\ ~FileBegin(req) /\ ~FileChunk(req)
    <2>1. Acknowledged(req) \/ Refused(req)
      BY <1>6, ProcessOutcome
    <2>2. CASE Evaluate(req) /\ Nack(req, "err_fault") /\ UNCHANGED machineVars
      <3>1. "err_fault" \in Errors
        BY DEF Errors
      <3> QED
        BY <1>3, <1>6, <2>1, <2>2, <3>1 DEF machineVars, fsVars
    <2>3. CASE FileEnd(req)
      BY <2>1, <2>3 DEF FileEnd
    <2>4. CASE MvProcess(req, "Wire") /\ UNCHANGED fsVars
      <3>1. req.op \notin {"file_begin", "file_chunk"}
        BY <2>4 DEF MvProcess, MvAccept, MvRefuse, QueuedOps, MoveOps
      <3> QED
        BY <2>1, <2>4, <3>1 DEF fsVars
    <2>5. CASE TopProcess(req)
      <3>1. req.op \notin {"file_begin", "file_chunk"}
        BY <2>5 DEF TopProcess, PlainOps, KnownOps, FileOps
      <3>2. file' = file
        BY <2>5 DEF TopProcess, Stop, FsStop, BeginJob, StartReading, machineVars, fsVars
      <3> QED
        BY <2>1, <3>1, <3>2
    <2> QED
      BY <1>6, <2>2, <2>3, <2>4, <2>5 DEF Process, Evaluate, FsProcess
  <1> QED
    BY <1>1, <1>4, <1>5, <1>6

LEMMA InternalKeepsFile ==
    ASSUME Internal
    PROVE  UNCHANGED <<file, onDisk>>
  BY DEF Internal, Step, RxBegin, RxEnd, StepBegin, PumpCommand, PumpFeed, FeedParser,
         FeedNothing, PumpFull, MoveIterate, MoveDone, Update, FsStop, Tx, RaiseFault,
         ClearFault, machineVars, fsVars

(* The answer to an evaluated request, and its record. *)
LEMMA EvaluatedTransfer ==
    ASSUME TypeOK, HostTypeOK, TransferExact, NEW req \in WireRequest, Process(req),
           NEW first \in BOOLEAN, Observed(req, first), ~Resend(req),
           first = Confirmation
    PROVE  /\ TransferExact'
           /\ Acknowledged(req) /\ ~Confirmation =>
                 /\ req.op = "file_begin" => file' = <<>> \/ Refused(req)
                 /\ req.op = "file_chunk" => torn' \/ req.body = <<>> \/ Refused(req)
  <1>1. /\ file \in Seq(JobCommand) /\ req.body \in Seq(JobCommand)
        /\ torn \in BOOLEAN /\ torn' \in BOOLEAN
    BY WireRequestType, ObservedType DEF TypeOK, FsTypeOK, HostTypeOK
  <1>2. Confirmation \in BOOLEAN
    BY DEF Confirmation
  <1>3. Refused(req) => ~Confirmation
    BY NackIsForgotten DEF Confirmation
  <1>4. CASE req.op \notin {"file_begin", "file_chunk"} /\ file' = file
    BY <1>1, <1>4 DEF Observed, TransferExact
  <1>5. CASE req.op = "file_begin" /\ Acknowledged(req) /\ file' = <<>>
    BY <1>1, <1>2, <1>5 DEF Observed, TransferExact
  <1>6. CASE req.op = "file_begin" /\ Refused(req) /\ file' = file
    BY <1>1, <1>3, <1>6 DEF Observed, TransferExact
  <1>7. CASE req.op = "file_chunk" /\ Acknowledged(req) /\ file' = file \o req.body
    <2>1. file' = file => req.body = <<>>
      <3>1. file \o req.body = file <=> req.body = <<>>
        BY <1>1, ConcatEqualIffEmpty
      <3> QED
        BY <1>7, <3>1
    <2> QED
      BY <1>1, <1>2, <1>7, <2>1 DEF Observed, TransferExact
  <1>8. CASE req.op = "file_chunk" /\ Refused(req)
    BY <1>1, <1>3, <1>8 DEF Observed, TransferExact
  <1> QED
    BY <1>4, <1>5, <1>6, <1>7, <1>8, FileOutcome

LEMMA TransferStep ==
    ASSUME TypeOK, HostTypeOK, FilesInv, RetryInv, RetryInv', TransferInv,
           [HostNext]_allVars
    PROVE  TransferInv'
  <1>1. Confirmation \in BOOLEAN
    BY DEF Confirmation
  <1>2. ASSUME NEW req \in WireRequest, Asks(req)
        PROVE  TransferInv'
    <2>1. /\ Process(req) /\ last' = req /\ req.txid = numbered + 1
          /\ numbered' = numbered + 1
          /\ Observed(req, Confirmation)
          /\ confirmed' = Confirmation
          /\ evaluations' = 1 => lastResponse'.txid = numbered + 1
      BY <1>1, <1>2 DEF Asks, Sending, Counted, HostTypeOK, RetryInv
    <2>2. ~Resend(req)
      BY <2>1, NewIsNotRecognised DEF Resend
    <2>3. Acknowledged(req) \/ Refused(req)
      BY <2>1, <2>2, ProcessOutcome
    <2>4. evaluations' = 1 => ~Refused(req)
      BY <2>1, NackIsForgotten DEF RetryInv, HostTypeOK
    <2> QED
      BY <1>1, <2>1, <2>2, <2>3, <2>4, EvaluatedTransfer DEF TransferInv
  <1>3. ASSUME NEW req \in WireRequest, AsksAgain(req)
        PROVE  TransferInv'
    <2>1. /\ Process(req) /\ numbered > 0 /\ req = last /\ UNCHANGED <<numbered, last>>
          /\ req.txid = numbered /\ req.txid # NoTxid
          /\ Observed(req, Confirmation /\ ~confirmed)
          /\ confirmed' = (confirmed \/ Confirmation)
      BY <1>3 DEF AsksAgain, Sending, Counted, HostTypeOK, NoTxid
    <2>2. CASE Resend(req)
      <3>1. /\ file' = file /\ evaluations = 1
            /\ file \in Seq(JobCommand) /\ torn \in BOOLEAN
        BY <2>1, <2>2, RecognisedRetry
           DEF Resend, machineVars, fsVars, TypeOK, FsTypeOK, HostTypeOK
      <3>2. torn' = IF Confirmation /\ ~confirmed /\ req.op = "file_begin" THEN FALSE
                    ELSE torn
        BY <2>1, <3>1 DEF Observed
      <3>3. ~confirmed' => ~confirmed /\ ~Confirmation
        BY <1>1, <2>1 DEF RetryInv
      <3>4. TransferExact'
        <4>1. CASE ~(Confirmation /\ ~confirmed)
          BY <2>1, <3>1, <3>2, <4>1 DEF Observed, TransferInv, TransferExact
        <4>2. CASE Confirmation /\ ~confirmed /\ req.op = "file_begin"
          BY <2>1, <3>1, <4>2 DEF Observed, TransferInv, TransferExact
        <4>3. CASE Confirmation /\ ~confirmed /\ req.op = "file_chunk"
          <5>1. content' = content \o req.body
            BY <2>1, <4>3 DEF Observed
          <5>2. ~torn' => content = file /\ req.body = <<>>
            BY <2>1, <3>1, <3>2, <4>3 DEF TransferInv, TransferExact
          <5> QED
            BY <3>1, <5>1, <5>2 DEF TransferExact
        <4>4. CASE req.op \notin {"file_begin", "file_chunk"}
          BY <2>1, <3>1, <3>2, <4>4 DEF Observed, TransferInv, TransferExact
        <4> QED
          BY <4>1, <4>2, <4>3, <4>4
      <3> QED
        BY <2>1, <3>1, <3>2, <3>3, <3>4 DEF TransferInv
    <2>3. CASE ~Resend(req)
      <3>1. evaluations = 0 /\ ~confirmed
        BY <2>1, <2>3, RecognisedRetry DEF Process, Evaluate, RetryInv
      <3>2. (Confirmation /\ ~confirmed) = Confirmation
        BY <1>1, <3>1
      <3>3. Observed(req, Confirmation)
        BY <2>1, <3>2
      <3>4. evaluations' = 1 => ~Refused(req)
        <4>1. Refused(req) => lastResponse' = lastResponse
          BY NackIsForgotten
        <4> QED
          BY <2>1, <3>1, <4>1 DEF RetryInv
      <3>5. Acknowledged(req) \/ Refused(req)
        BY <2>1, <2>3, ProcessOutcome
      <3>6. ~confirmed' => ~Confirmation
        BY <1>1, <2>1, <3>1
      <3> QED
        BY <1>1, <2>1, <2>3, <3>3, <3>4, <3>5, <3>6, EvaluatedTransfer DEF TransferInv
    <2> QED
      BY <2>2, <2>3
  <1>4. ASSUME NEW req \in WireRequest, Calls(req)
        PROVE  TransferInv'
    <2>1. /\ Process(req) /\ req.op \notin {"file_begin", "file_chunk"}
          /\ Observed(req, FALSE)
          /\ UNCHANGED <<numbered, last, evaluations, confirmed>>
      BY <1>4 DEF Calls, Sending, FileOps
    <2>2. file' = file
      BY <2>1, FileOutcome
    <2>3. torn' = torn /\ content' = content
      BY <2>1, <2>2 DEF Observed, HostTypeOK
    <2> QED
      BY <2>1, <2>2, <2>3 DEF TransferInv, TransferExact
  <1>5. CASE Firmware \/ UNCHANGED allVars
    <2>1. file' = file
      BY <1>5, InternalKeepsFile DEF Firmware, allVars, vars, fsVars
    <2> QED
      BY <1>5, <2>1, FirmwareKeepsHost DEF hostVars, TransferInv, TransferExact
  <1> QED
    BY <1>2, <1>3, <1>4, <1>5, HostSteps

-----------------------------------------------------------------------------
(* Jobs, jogs and pauses.                                                  *)

ControlOps == {"jog_start", "jog_stop", "stop", "pause", "continue", "execute"}

(* What a request does to the head: what its handler says, or nothing. *)
LEMMA HeadOutcome ==
    ASSUME NEW req \in WireRequest, Process(req)
    PROVE  \/ Repeated(req) /\ UNCHANGED <<machineVars, fwState>>
           \/ fault /\ StartsMotion(req) /\ UNCHANGED <<machineVars, fwState>>
           \/ /\ ~Repeated(req)
              /\ \/ /\ req.op \notin ControlOps
                    /\ UNCHANGED <<fwState, headVars, laser, mstate, paused, jobEnded>>
                    /\ cmdq' = cmdq \/ cmdq' = Append(cmdq, Queued(req))
                 \/ /\ req.op = "jog_start" /\ ~fault
                    /\ BeginJog(req.arg) /\ UNCHANGED <<fsVars, fwState>>
                 \/ req.op = "jog_stop" /\ EndJog /\ UNCHANGED <<fsVars, fwState>>
                 \/ req.op = "stop" /\ Stop
                 \/ req.op = "pause" /\ Pause /\ UNCHANGED <<fsVars, fwState>>
                 \/ req.op = "continue" /\ ~fault /\ Resume /\ UNCHANGED <<fsVars, fwState>>
                 \/ req.op = "execute" /\ ~fault /\ BeginJob
  <1>1. CASE Resend(req)
    BY <1>1 DEF Resend
  <1>2. CASE Evaluate(req) /\ fault /\ StartsMotion(req)
    BY <1>2 DEF Evaluate
  <1>3. CASE FsProcess(req) /\ UNCHANGED <<mvVars, fwState>> /\ ~Repeated(req)
    <2>1. req.op \notin ControlOps
      BY <1>3 DEF FsProcess, FileBegin, FileChunk, FileEnd, ControlOps
    <2> QED
      BY <1>3, <2>1 DEF mvVars
  <1>4. CASE /\ MvProcess(req, "Wire") /\ UNCHANGED <<fsVars, fwState>>
             /\ ~Repeated(req) /\ ~(fault /\ StartsMotion(req))
    <2>1. req.op = "jog_start" => ~fault
      BY <1>4 DEF StartsMotion, JogOps
    <2>2. CASE req.op = "jog_start"
      BY <1>4, <2>1, <2>2 DEF MvProcess, MvAccept, MvRefuse, QueuedOps, MoveOps
    <2>3. CASE req.op = "jog_stop"
      BY <1>4, <2>3 DEF MvProcess, MvAccept, MvRefuse, QueuedOps, MoveOps
    <2>4. CASE req.op \notin JogOps
      <3>1. /\ UNCHANGED <<headVars, laser, mstate, paused, jobEnded>>
            /\ cmdq' = cmdq \/ cmdq' = Append(cmdq, Queued(req))
        BY <1>4, <2>4 DEF MvProcess, MvAccept, MvRefuse, Enqueue, mvVars, JogOps
      <3>2. req.op \notin ControlOps
        BY <1>4, <2>4 DEF MvProcess, MvAccept, MvRefuse, QueuedOps, MoveOps, JogOps,
                         ControlOps
      <3> QED
        BY <1>4, <3>1, <3>2
    <2> QED
      BY <2>2, <2>3, <2>4 DEF JogOps
  <1>5. CASE TopProcess(req) /\ ~Repeated(req) /\ ~(fault /\ StartsMotion(req))
    <2>1. req.op \in {"execute", "continue"} => ~fault
      BY <1>5 DEF StartsMotion
    <2>2. CASE req.op \in PlainOps \cup {"get_state"} \/ req.op \notin KnownOps
      <3>1. req.op \notin ControlOps
        BY <2>2 DEF PlainOps, KnownOps, JogOps, TopOps, ControlOps
      <3>2. UNCHANGED <<mvVars, fwState>>
        BY <1>5, <3>1 DEF TopProcess, ControlOps, machineVars
      <3> QED
        BY <1>5, <3>1, <3>2 DEF mvVars
    <2> QED
      BY <1>5, <2>1, <2>2 DEF TopProcess
  <1> QED
    BY <1>1, <1>2, <1>3, <1>4, <1>5 DEF Process, Evaluate

LEMMA JobStep ==
    ASSUME TypeOK, HostTypeOK, JobInv, [HostNext]_allVars
    PROVE  JobInv'
  <1> USE DEF executing
  <1>1. ASSUME NEW req \in WireRequest, Process(req)
        PROVE  JobInv'
    <2>1. phase = "rx" /\ phase' = "rx"
      BY <1>1 DEF Process
    <2>2. onDisk => onDisk'
      BY <1>1, FileSteps
         DEF fsVars, FsProcess, FileBegin, FileChunk, FileEnd, FsStop, BeginJob,
             StartReading
    <2>3. CASE UNCHANGED <<fwState, jobEnded>>
      BY <2>1, <2>2, <2>3 DEF JobInv
    <2>4. CASE Stop \/ BeginJob
      <3>1. ~jobEnded'
        BY <2>4 DEF Stop, BeginJob, MvStop
      <3>2. executing' => executing \/ onDisk
        BY <2>4 DEF Stop, BeginJob, Stopped
      <3> QED
        BY <2>2, <3>1, <3>2 DEF JobInv
    <2> QED
      BY <1>1, <2>3, <2>4, HeadOutcome
         DEF machineVars, mvVars, BeginJog, EndJog, Pause, Resume
  <1>2. ASSUME Firmware
        PROVE  JobInv'
    <2>1. onDisk' = onDisk /\ (endTaken => endTaken')
      BY <1>2, InternalKeepsFile DEF Firmware
    <2>2. CASE MoveIterate
      <3>1. UNCHANGED fwState /\ phase = "move" /\ phase' = "move"
        BY <2>2 DEF MoveIterate, topVars
      <3>2. jobEnded' => jobEnded \/ Takes("job_end")
        BY <2>2, <3>1
           DEF MoveIterate, MvIterate, TakeNext, TakeMove, TakeDwell, TakeSetting,
               AdvanceMove, AdvanceJog, AdvanceDwell, Takes
      <3> QED
        BY <1>2, <2>1, <3>1, <3>2 DEF Firmware, JobInv
    <2>3. CASE Update
      <3>1. executing' => executing
        BY <2>3 DEF Update, Reported
      <3>2. executing => ~jobEnded'
        BY <2>3 DEF Update
      <3> QED
        BY <2>1, <3>1, <3>2 DEF JobInv
    <2>4. CASE RaiseFault
      BY <2>4 DEF RaiseFault, JobInv
    <2>5. CASE ClearFault
      BY <2>1, <2>5 DEF ClearFault, Reported, JobInv, machineVars, mvVars
    <2>6. CASE MoveDone
      BY <2>1, <2>6 DEF MoveDone, EndStep, BeginStep, JobInv
    <2>7. CASE /\ UNCHANGED <<fwState, jobEnded>>
               /\ phase \notin {"move", "finish"} \/ UNCHANGED phase
      BY <2>1, <2>7 DEF JobInv
    <2>8. Internal
      BY <1>2 DEF Firmware
    <2>9. CASE PumpCommand
      BY <2>7, <2>9
         DEF PumpCommand, MvProcess, MvAccept, MvRefuse, BeginJog, EndJog, Enqueue,
             mvVars, topVars
    <2> QED
      BY <2>2, <2>3, <2>4, <2>5, <2>6, <2>7, <2>8, <2>9
         DEF Internal, Step, RxBegin, RxEnd, StepBegin, BeginStep, PumpFeed,
             PumpFull, Tx, mvVars
  <1>3. CASE UNCHANGED allVars
    BY <1>3 DEF allVars, vars, fsVars, mvVars, topVars, historyVars, JobInv
  <1> QED
    BY <1>1, <1>2, <1>3, HostSteps DEF Asks, AsksAgain, Calls, Sending

(* What the firmware's own steps do to the head. *)
LEMMA HeadInternal ==
    ASSUME Internal
    PROVE  \/ UNCHANGED <<mstate, laser, paused>> /\ (fault' => fault)
           \/ Pumps("jog_start") /\ (\E d : BeginJog(d)) /\ UNCHANGED fault
           \/ EndJog /\ UNCHANGED fault
           \/ MoveIterate /\ UNCHANGED fault
           \/ ~fault /\ MvStop /\ fault'
  <1>1. CASE PumpCommand
    <2>1. phase = "pump" /\ canEnqueue /\ fbuf # <<>> /\ UNCHANGED fault
      BY <1>1 DEF PumpCommand, topVars
    <2>2. MvProcess(Head(fbuf), "File") \/ UNCHANGED mvVars
      BY <1>1 DEF PumpCommand
    <2> QED
      BY <2>1, <2>2, MvProcessSteps DEF Pumps, KeepsHead, mvVars
  <1>2. CASE MoveIterate \/ RaiseFault
    BY <1>2 DEF MoveIterate, RaiseFault, topVars
  <1>3. CASE Update \/ MoveDone \/ ClearFault
    BY <1>3 DEF Update, MoveDone, EndStep, BeginStep, ClearFault, machineVars, mvVars
  <1>4. CASE \E dt \in 1..MaxTicks : StepBegin(dt)
    BY <1>4 DEF StepBegin, BeginStep
  <1>5. CASE RxBegin \/ RxEnd \/ PumpFeed \/ PumpFull \/ Tx
    BY <1>5 DEF RxBegin, RxEnd, PumpFeed, PumpFull, Tx, mvVars
  <1> QED
    BY <1>1, <1>2, <1>3, <1>4, <1>5 DEF Internal, Step

LEMMA IterateWakesNothing ==
    ASSUME MvIterate
    PROVE  /\ mstate # "Paused" /\ mstate' # "Paused" /\ paused' = paused
           /\ mstate' = "Jogging" => mstate = "Jogging"
           /\ laser' => laser \/ (TakeNext /\ Head(cmdq).op = "laser_on")
  <1>1. /\ mstate # "Paused" /\ mstate' # "Paused" /\ paused' = paused
        /\ mstate' = "Jogging" => mstate = "Jogging"
    BY DEF MvIterate, TakeNext, TakeMove, TakeDwell, TakeSetting, AdvanceMove,
           AdvanceJog, AdvanceDwell
  <1>2. laser' = laser \/ (TakeNext /\ TakeSetting(Head(cmdq)))
    BY DEF MvIterate, TakeNext, TakeMove, TakeDwell, AdvanceMove, AdvanceJog,
           AdvanceDwell
  <1>3. ASSUME TakeSetting(Head(cmdq))
        PROVE  laser' = laser \/ laser' = (Head(cmdq).op = "laser_on")
    BY <1>3 DEF TakeSetting
  <1>4. laser' => laser \/ (TakeNext /\ Head(cmdq).op = "laser_on")
    <2>1. CASE laser' = laser
      BY <2>1, Zenon
    <2>2. CASE TakeNext /\ laser' = (Head(cmdq).op = "laser_on")
      BY <2>2, Zenon
    <2> QED
      BY <1>2, <1>3, <2>1, <2>2
  <1> QED
    BY <1>1, <1>4

LEMMA HeldStep ==
    ASSUME HostTypeOK, HeldInv, [HostNext]_allVars
    PROVE  HeldInv'
  <1>1. ASSUME NEW req \in WireRequest, NEW first, Process(req), Observed(req, first)
        PROVE  HeldInv'
    <2>1. held' = IF Repeated(req) THEN held
                  ELSE req.op = "pause" \/ (held /\ ~LetsGo(req))
      BY <1>1 DEF Observed
    <2>2. CASE UNCHANGED mstate /\ (req.op # "pause" \/ Repeated(req))
      BY <2>1, <2>2 DEF HeldInv
    <2>3. CASE req.op = "pause" /\ Pause
      BY <2>3 DEF Pause, EnterPause, HeldInv
    <2>4. CASE ~Repeated(req) /\ LetsGo(req)
      BY <2>1, <2>4 DEF LetsGo, HeldInv
    <2>5. CASE req.op = "jog_stop" /\ EndJog
      BY <2>1, <2>5 DEF EndJog, HeldInv
    <2> QED
      BY <1>1, <2>2, <2>3, <2>4, <2>5, HeadOutcome
         DEF machineVars, mvVars, LetsGo, StartsMotion, MoveOps, JogOps, ControlOps
  <1>2. CASE Firmware
    <2>1. held' => held /\ ~fault' /\ ~Pumps("jog_start")
      BY <1>2 DEF Firmware
    <2>2. MoveIterate => mstate # "Paused"
      BY IterateWakesNothing DEF MoveIterate
    <2> QED
      BY <1>2, <2>1, <2>2, HeadInternal DEF Firmware, HeldInv, EndJog
  <1>3. CASE UNCHANGED allVars
    BY <1>3 DEF allVars, vars, mvVars, historyVars, HeldInv
  <1> QED
    BY <1>1, <1>2, <1>3, HostSteps DEF Asks, AsksAgain, Calls, Sending

LEMMA JogStep ==
    ASSUME TypeOK, HostTypeOK, FaultInv, JogStaysOff, [HostNext]_allVars
    PROVE  JogStaysOff'
  <1>1. paused.state # "Paused"
    BY DEF TypeOK, MvTypeOK
  <1>2. fault => JogStaysOff /\ mstate # "Jogging"
                 /\ (mstate = "Paused" => paused.state # "Jogging")
    BY DEF FaultInv, HeadRests, InMotion
  <1>3. ASSUME NEW req \in WireRequest, NEW first, Process(req), Observed(req, first)
        PROVE  JogStaysOff'
    <2>1. jogOff' = IF Repeated(req) THEN jogOff
                    ELSE EndsJog(req) \/ (jogOff /\ ~StartsJog(req))
      BY <1>3 DEF Observed
    <2>2. CASE /\ UNCHANGED <<mstate, paused>>
               /\ Repeated(req) \/ fault \/ (req.op \notin ControlOps)
      <3>1. fault => JogStaysOff'
        BY <1>2, <2>2 DEF JogStaysOff
      <3>2. ~fault => (jogOff' => jogOff)
        BY <2>1, <2>2 DEF EndsJog, ControlOps
      <3> QED
        BY <2>2, <3>1, <3>2 DEF JogStaysOff
    <2>3. CASE ~Repeated(req) /\ StartsJog(req)
      BY <2>1, <2>3 DEF StartsJog, EndsJog, JogStaysOff
    <2>4. CASE ~Repeated(req) /\ req.op = "jog_stop" /\ EndJog
      BY <2>1, <2>4 DEF EndJog, EndsJog, StartsJog, JogStaysOff
    <2>5. CASE Stop \/ BeginJob
      BY <2>5 DEF Stop, BeginJob, MvStop, JogStaysOff
    <2>6. CASE ~Repeated(req) /\ req.op = "pause" /\ Pause
      <3>1. jogOff' => jogOff
        BY <2>1, <2>6 DEF EndsJog
      <3> QED
        BY <2>6, <3>1 DEF Pause, EnterPause, JogStaysOff
    <2>7. CASE ~Repeated(req) /\ req.op = "continue" /\ Resume
      <3>1. jogOff' => jogOff
        BY <2>1, <2>7 DEF EndsJog
      <3> QED
        BY <1>1, <2>7, <3>1 DEF Resume, JogStaysOff
    <2> QED
      BY <1>3, <2>2, <2>3, <2>4, <2>5, <2>6, <2>7, HeadOutcome
         DEF machineVars, mvVars, StartsJog
  <1>4. CASE Firmware
    <2>1. jogOff' = ((jogOff /\ ~Pumps("jog_start")) \/ (fault' /\ ~fault))
      BY <1>4 DEF Firmware
    <2>2. CASE MvStop
      BY <2>2 DEF MvStop, JogStaysOff
    <2>3. CASE MoveIterate /\ UNCHANGED fault
      BY <2>1, <2>3, IterateWakesNothing DEF MoveIterate, JogStaysOff
    <2>4. CASE EndJog /\ UNCHANGED fault
      BY <2>1, <2>4 DEF EndJog, JogStaysOff
    <2>5. CASE Pumps("jog_start") /\ UNCHANGED fault
      BY <2>1, <2>5 DEF JogStaysOff
    <2>6. CASE UNCHANGED <<mstate, laser, paused>> /\ (fault' => fault)
      BY <2>1, <2>6 DEF JogStaysOff
    <2> QED
      BY <1>4, <2>2, <2>3, <2>4, <2>5, <2>6, HeadInternal DEF Firmware
  <1>5. CASE UNCHANGED allVars
    BY <1>5 DEF allVars, vars, mvVars, historyVars, JogStaysOff
  <1> QED
    BY <1>3, <1>4, <1>5, HostSteps DEF Asks, AsksAgain, Calls, Sending

LEMMA DarkStep ==
    ASSUME HostTypeOK, FaultDark, [HostNext]_allVars
    PROVE  FaultDark'
  <1>1. ASSUME NEW req \in WireRequest, NEW first, Process(req), Observed(req, first)
        PROVE  FaultDark'
    <2>1. UNCHANGED <<lit, fault>>
      BY <1>1 DEF Observed, Process
    <2>2. fault /\ laser' => laser
      BY <1>1, HeadOutcome
         DEF machineVars, mvVars, BeginJog, EndJog, Stop, MvStop, Pause, EnterPause
    <2> QED
      BY <2>1, <2>2 DEF FaultDark
  <1>2. CASE Firmware
    <2>1. lit' = (fault /\ fault' /\ (lit \/ Takes("laser_on")))
      BY <1>2 DEF Firmware
    <2>2. CASE MvStop
      BY <2>2 DEF MvStop, FaultDark
    <2>3. CASE MoveIterate /\ UNCHANGED fault
      <3>1. laser' => laser \/ Takes("laser_on")
        BY <2>3, IterateWakesNothing DEF MoveIterate, Takes, TakeNext
      <3> QED
        BY <2>1, <2>3, <3>1 DEF FaultDark
    <2>4. CASE UNCHANGED laser /\ (fault' => fault)
      BY <2>1, <2>4 DEF FaultDark
    <2> QED
      BY <1>2, <2>2, <2>3, <2>4, HeadInternal DEF Firmware, BeginJog, EndJog
  <1>3. CASE UNCHANGED allVars
    BY <1>3 DEF allVars, vars, mvVars, topVars, historyVars, FaultDark
  <1> QED
    BY <1>1, <1>2, <1>3, HostSteps DEF Asks, AsksAgain, Calls, Sending

-----------------------------------------------------------------------------
(* The invariant.                                                          *)

LEMMA HostInitially ==
    ASSUME HostInit
    PROVE  HostInv
  <1>1. TypeOK
    BY InitType DEF HostInit
  <1>2. HostTypeOK
    <2>1. /\ numbered = 0 /\ sends = 0 /\ last = NoRequest
          /\ torn = FALSE /\ endTaken = FALSE /\ held = FALSE
          /\ jogOff = TRUE /\ lit = FALSE
      BY DEF HostInit
    <2>2. last.txid = numbered
      BY <2>1 DEF NoRequest, NoTxid
    <2>3. numbered \in Nat /\ sends \in Nat /\ ~(numbered > 0)
      BY <2>1
    <2> QED
      BY <2>1, <2>2, <2>3 DEF HostTypeOK
  <1>3. FilesInv
    <2>1. Unnumbered(<<>>)
      BY DEF Unnumbered
    <2>2. file = <<>> \/ file \in LeftFiles
      BY DEF HostInit, Init, FsInit
    <2>3. Unnumbered(file)
      <3>1. \A f \in LeftFiles : Unnumbered(f)
        BY NumbersAssumption
      <3> QED
        BY <2>1, <2>2, <3>1
    <2> QED
      BY <2>1, <2>3 DEF HostInit, Init, FsInit, FilesInv
  <1>4. RetryInv /\ TransferInv
    <2>1. lastResponse.txid = 0
      BY DEF HostInit, Init, OutInit, NoResponse, NoTxid
    <2>2. /\ numbered = 0 /\ evaluations = 0 /\ content = file
          /\ ~confirmed /\ confirmed \in BOOLEAN
      BY DEF HostInit
    <2>3. RetryInv
      BY <2>1, <2>2 DEF RetryInv
    <2> QED
      BY <2>2, <2>3 DEF TransferInv, TransferExact
  <1>5. JobInv /\ HeldInv /\ JogStaysOff /\ FaultDark /\ PausedLaserOff /\ FaultInv
    BY DEF HostInit, Init, MvInit, JobInv, HeldInv, JogStaysOff, FaultDark,
           PausedLaserOff, FaultInv, executing
  <1> QED
    BY <1>1, <1>2, <1>3, <1>4, <1>5 DEF HostInv

LEMMA HostStep ==
    ASSUME HostInv, [HostNext]_allVars
    PROVE  HostInv'
  <1> USE DEF HostInv
  <1>1. [WireNext]_vars
    BY HostStepIsWireStep
  <1>2. TypeOK' /\ PausedLaserOff' /\ FaultInv'
    BY <1>1, TypeStep, PausedStep, FaultStep
  <1>3. HostTypeOK' /\ FilesInv' /\ RetryInv'
    BY HostTypeStep, FilesStep, RetryStep
  <1>4. TransferInv'
    BY <1>3, TransferStep
  <1>5. JobInv' /\ HeldInv'
    BY JobStep, HeldStep
  <1>6. JogStaysOff' /\ FaultDark'
    BY JogStep, DarkStep
  <1> QED
    BY <1>2, <1>3, <1>4, <1>5, <1>6

(* What holds of the firmware, of the host's record of it, and between the *)
(* two, at every moment: the invariant the theorems below follow from.     *)
THEOREM HostInvariant == HostSpec => []HostInv
  BY HostInitially, HostStep, PTL DEF HostSpec

-----------------------------------------------------------------------------
(* What a host may rely on.                                                *)

(* However often a numbered request is retried, and whatever comes in      *)
(* between, it takes effect at most once (FirmwareSim::process,            *)
(* OutputQueue::m_last_response).                                          *)
THEOREM RequestsAtMostOnce == HostSpec => []AtMostOnce
  <1>1. HostInv => AtMostOnce
    BY DEF HostInv, RetryInv, AtMostOnce
  <1> QED
    BY <1>1, HostInvariant, PTL

(* The file on the disk is what was confirmed of it, chunk by chunk, until *)
(* the disk takes a part of one or an answer is dropped, and again from    *)
(* the next file on (FileSystem::receive).                                 *)
THEOREM TransfersExact == HostSpec => []TransferExact
  <1>1. HostInv => TransferExact
    BY DEF HostInv, TransferInv
  <1> QED
    BY <1>1, HostInvariant, PTL

(* A jog that was ended stays so until the next is started, whatever is    *)
(* paused and continued meanwhile (endJog, resume, stop).                  *)
THEOREM JogsStayOff == HostSpec => []JogStaysOff
  <1>1. HostInv => JogStaysOff
    BY DEF HostInv
  <1> QED
    BY <1>1, HostInvariant, PTL

(* After a fault the laser is dark until a laser_on is executed that was   *)
(* queued later (setFault, MovementSim::stop, FirmwareSim::process).       *)
THEOREM FaultsAreDark == HostSpec => []FaultDark
  <1>1. HostInv => FaultDark
    BY DEF HostInv
  <1> QED
    BY <1>1, HostInvariant, PTL

-----------------------------------------------------------------------------
(* What a step may do.                                                     *)

(* A message is new, or the last one, or has no number. *)
Known(req) == \/ req.txid = numbered + 1 \/ req.txid = NoTxid
              \/ numbered > 0 /\ req = last

LEMMA StepKinds ==
    ASSUME HostTypeOK, [HostNext]_allVars
    PROVE  \/ /\ Processing
              /\ \E req \in WireRequest : Process(req) /\ now' = req /\ Known(req)
           \/ ~Processing /\ (Firmware \/ UNCHANGED allVars)
  <1>1. ASSUME NEW req \in WireRequest, Asks(req) \/ AsksAgain(req) \/ Calls(req)
        PROVE  Processing /\ Process(req) /\ now' = req /\ Known(req)
    <2>1. sends' = sends + 1 /\ Process(req) /\ Known(req)
      BY <1>1 DEF Asks, AsksAgain, Calls, Sending, Known
    <2>2. now' = req
      BY <1>1 DEF Asks, AsksAgain, Calls, Observed
    <2> QED
      BY <2>1, <2>2 DEF Processing, HostTypeOK
  <1>2. ASSUME Firmware \/ UNCHANGED allVars
        PROVE  ~Processing
    BY <1>2, FirmwareKeepsHost DEF hostVars, Processing, HostTypeOK
  <1> QED
    BY <1>1, <1>2, HostSteps

LEMMA AnswerFits ==
    ASSUME HostInv, NEW req \in WireRequest, Process(req), Known(req), Pushed
    PROVE  /\ Answer.txid = req.txid
           /\ \/ Answer.cmd = req.op
              \/ Answer.cmd = "nack" /\ Answer.of = req.op
  <1> USE DEF HostInv
  <1>1. CASE Resend(req)
    <2>1. req.txid # numbered + 1 /\ req.txid # NoTxid
      BY <1>1, NewIsNotRecognised DEF Resend
    <2>2. req = last /\ req.txid = numbered
      BY <2>1 DEF Known, HostTypeOK
    <2>3. evaluations = 1
      BY <1>1, <2>1, <2>2, RecognisedRetry DEF Resend
    <2> QED
      BY <1>1, <2>2, <2>3, ResentIsTheSame DEF RetryInv
  <1> QED
    BY <1>1, ProcessOutcome, AckIsRemembered, NackIsForgotten

(* Every answer, repeated or not, carries the number of the request it is  *)
(* sent for, and its command or the rejection of it (sendResponse,         *)
(* resendResponse).                                                        *)
THEOREM AnswersFit == HostSpec => AnswersTheRequest
  <1>1. HostInv /\ [HostNext]_allVars
        => [Processing /\ Pushed =>
              /\ Answer.txid = now'.txid
              /\ \/ Answer.cmd = now'.op
                 \/ Answer.cmd = "nack" /\ Answer.of = now'.op]_allVars
    BY StepKinds, AnswerFits DEF HostInv
  <1> QED
    BY <1>1, HostInvariant, PTL DEF HostSpec, AnswersTheRequest

LEMMA NackKeeps ==
    ASSUME HostInv, NEW req \in WireRequest, Process(req), Known(req),
           Pushed, Answer.cmd = "nack"
    PROVE  /\ UNCHANGED <<mvVars, fwState, onDisk, rd, fbuf>>
           /\ fstate' # fstate => fstate = "Receiving" /\ req.op = "file_begin"
           /\ file' # file => req.op = "file_chunk"
  <1> USE DEF HostInv
  <1>1. ~Acknowledged(req)
    BY AckIsRemembered
  <1>2. CASE UNCHANGED <<machineVars, fwState>>
    BY <1>2 DEF machineVars, fsVars
  <1>3. CASE ~Repeated(req) /\ FsProcess(req) /\ UNCHANGED <<mvVars, fwState>>
    <2>1. ~Respond(req)
      <3>1. {} \in SUBSET Flags
        OBVIOUS
      <3> QED
        BY <1>1, <1>3, <3>1 DEF Respond, Ack, Acknowledged
    <2>2. CASE FileBegin(req)
      <3>1. req.op = "file_begin" /\ file' = file /\ onDisk' = onDisk /\ rd' = rd
        BY <2>1, <2>2 DEF FileBegin, FsStop, fsVars
      <3>2. CASE UNCHANGED fsVars
        BY <1>3, <3>2 DEF fsVars
      <3>3. CASE ~isReading /\ fbuf' = <<>> /\ fstate' = "Idle"
        <4>1. fbuf' = fbuf
          BY <3>3 DEF FilesInv
        <4>2. fstate' # fstate => fstate = "Receiving"
          BY <3>3 DEF TypeOK, FsTypeOK, FileStates, isReading
        <4> QED
          BY <1>3, <3>1, <4>1, <4>2
      <3> QED
        BY <2>1, <2>2, <3>2, <3>3 DEF FileBegin, CannotBegin, FsStop
    <2>3. CASE FileChunk(req)
      BY <1>3, <2>3 DEF FileChunk
    <2>4. CASE FileEnd(req)
      BY <1>3, <2>1, <2>4 DEF FileEnd
    <2> QED
      BY <1>3, <2>2, <2>3, <2>4 DEF FsProcess
  <1>4. CASE /\ ~Repeated(req)
             /\ \/ MvProcess(req, "Wire") /\ UNCHANGED <<fsVars, fwState>>
                \/ TopProcess(req)
    <2>1. {} \in SUBSET Flags /\ fwState \in SUBSET Flags
      BY DEF TypeOK
    <2>2. ~Respond(req) /\ ~Push(AckFlags(req, fwState))
      BY <1>1, <1>4, <2>1 DEF Respond, Ack, Acknowledged
    <2>3. MvProcess(req, "Wire") => MvRefuse(req, "Wire")
      BY <2>2 DEF MvProcess, MvAccept
    <2>4. TopProcess(req) => UNCHANGED <<machineVars, fwState>>
      BY <2>2 DEF TopProcess
    <2> QED
      BY <1>2, <1>4, <2>3, <2>4 DEF MvRefuse, machineVars
  <1> QED
    BY <1>2, <1>3, <1>4 DEF Process, Resend, Evaluate
(* A rejected request changed nothing, but for a file_begin that ended a   *)
(* transfer first and a chunk the disk took a part of (sendNack, in every  *)
(* handler).                                                               *)
THEOREM NacksHarmless == HostSpec => NackHarmless
  <1>1. HostInv /\ [HostNext]_allVars
        => [Processing /\ Pushed /\ Answer.cmd = "nack" =>
              /\ UNCHANGED <<mvVars, fwState, onDisk, rd, fbuf>>
              /\ fstate' # fstate => fstate = "Receiving" /\ now'.op = "file_begin"
              /\ file' # file => now'.op = "file_chunk"]_allVars
    BY StepKinds, NackKeeps DEF HostInv
  <1> QED
    BY <1>1, HostInvariant, PTL DEF HostSpec, NackHarmless

LEMMA PauseKeeps ==
    ASSUME HostInv, NEW req \in WireRequest, Process(req),
           req.op \in {"pause", "continue"}
    PROVE  Effective' = Effective /\ UNCHANGED <<cmdq, pos, move, dwell>>
  <1>1. paused.state # "Paused" /\ mstate \in MoveStates
        /\ paused = [state |-> paused.state, laser |-> paused.laser]
    BY DEF HostInv, TypeOK, MvTypeOK
  <1>2. CASE UNCHANGED <<machineVars, fwState>>
    BY <1>2 DEF machineVars, mvVars, headVars, Effective
  <1>3. CASE Pause
    BY <1>3 DEF Pause, EnterPause, headVars, Effective
  <1>4. CASE Resume
    BY <1>1, <1>4 DEF Resume, headVars, Effective
  <1> QED
    BY <1>2, <1>3, <1>4, HeadOutcome DEF ControlOps

(* Neither a pause nor a continue, however they are repeated, loses what   *)
(* the head and the laser were doing (MovementSim::pause, resume).         *)
THEOREM PausesTransparent == HostSpec => PauseTransparent
  <1>1. HostInv /\ [HostNext]_allVars
        => [Processing /\ now'.op \in {"pause", "continue"} =>
              Effective' = Effective /\ UNCHANGED <<cmdq, pos, move, dwell>>]_allVars
    BY StepKinds, PauseKeeps DEF HostInv
  <1> QED
    BY <1>1, HostInvariant, PTL DEF HostSpec, PauseTransparent

LEMMA AppendKeepsFront ==
    ASSUME NEW S, NEW s \in Seq(S), NEW t, t = s \/ \E e \in S : t = Append(s, e)
    PROVE  Len(s) <= Len(t) /\ s = SubSeq(t, 1, Len(s))
  <1>1. CASE t = s
    <2>1. \A i \in 1..Len(s) : SubSeq(s, 1, Len(s))[i] = s[i]
      OBVIOUS
    <2>2. /\ SubSeq(s, 1, Len(s)) \in Seq(S)
          /\ Len(SubSeq(s, 1, Len(s))) = Len(s)
      OBVIOUS
    <2> QED
      BY <1>1, <2>1, <2>2
  <1>2. ASSUME NEW e \in S, t = Append(s, e)
        PROVE  Len(s) <= Len(t) /\ s = SubSeq(t, 1, Len(s))
    <2>1. t \in Seq(S) /\ Len(t) = Len(s) + 1 /\ \A i \in 1..Len(s) : t[i] = s[i]
      BY <1>2
    <2>2. /\ SubSeq(t, 1, Len(s)) \in Seq(S)
          /\ Len(SubSeq(t, 1, Len(s))) = Len(s)
          /\ \A i \in 1..Len(s) : SubSeq(t, 1, Len(s))[i] = t[i]
      BY <2>1
    <2> QED
      BY <2>1, <2>2
  <1> QED
    BY <1>1, <1>2

LEMMA QueuedType ==
    ASSUME NEW req, IsCommand(req), req.op \in QueuedOps
    PROVE  Queued(req) \in QueuedCommand
  BY DEF IsCommand, Queued, QueuedCommand

LEMMA HoldStep ==
    ASSUME HostInv, HostInv', [HostNext]_allVars, held, held'
    PROVE  /\ ~laser' /\ UNCHANGED pos
           /\ cmdq' = cmdq \/ \E c \in QueuedCommand : cmdq' = Append(cmdq, c)
  <1> USE DEF HostInv
  <1>1. mstate = "Paused" /\ mstate' = "Paused" /\ ~laser'
    BY DEF HeldInv, PausedLaserOff
  <1>2. ASSUME NEW req \in WireRequest, NEW first, Process(req), Observed(req, first)
        PROVE  /\ UNCHANGED pos
               /\ cmdq' = cmdq \/ \E c \in QueuedCommand : cmdq' = Append(cmdq, c)
    <2>1. Repeated(req) \/ req.op = "pause" \/ ~LetsGo(req)
      BY <1>2 DEF Observed
    <2>2. CASE MvProcess(req, "Wire")
      <3>1. IsCommand(req)
        BY WireRequestType
      <3> QED
        BY <2>2, <3>1, QueuedType
           DEF MvProcess, MvAccept, MvRefuse, Enqueue, BeginJog, EndJog, mvVars, headVars
    <2>3. CASE ~MvProcess(req, "Wire")
      <3>1. \/ UNCHANGED mvVars
            \/ TopProcess(req) /\ ~Repeated(req)
        BY <1>2, <2>3 DEF Process, Resend, Evaluate, machineVars
      <3>2. CASE TopProcess(req) /\ ~Repeated(req)
        <4>1. req.op \notin {"stop", "execute"}
          BY <2>1, <3>2 DEF LetsGo
        <4> QED
          BY <3>2, <4>1
             DEF TopProcess, Pause, Resume, machineVars, mvVars, headVars
      <3> QED
        BY <3>1, <3>2 DEF mvVars, headVars
    <2> QED
      BY <2>2, <2>3
  <1>3. CASE Firmware
    <2>1. ~fault' /\ Internal
      BY <1>3 DEF Firmware
    <2>2. CASE PumpCommand
      <3>1. IsCommand(Head(fbuf))
        BY <2>2 DEF PumpCommand, TypeOK, FsTypeOK, JobCommand
      <3>2. MvProcess(Head(fbuf), "File") \/ UNCHANGED mvVars
        BY <2>2 DEF PumpCommand
      <3> QED
        BY <1>1, <3>1, <3>2, QueuedType
           DEF MvProcess, MvAccept, MvRefuse, Enqueue, BeginJog, EndJog, mvVars, headVars
    <2>3. ~MoveIterate
      BY <1>1, IterateWakesNothing DEF MoveIterate
    <2>4. CASE RaiseFault
      BY <2>1, <2>4 DEF RaiseFault
    <2> QED
      BY <1>1, <2>1, <2>2, <2>3, <2>4
         DEF Internal, Step, RxBegin, RxEnd, StepBegin, BeginStep, PumpFeed, PumpFull,
             MoveDone, EndStep, Update, Tx, ClearFault, machineVars, mvVars, headVars
  <1>4. CASE UNCHANGED allVars
    BY <1>1, <1>4 DEF allVars, vars, mvVars, headVars
  <1> QED
    BY <1>1, <1>2, <1>3, <1>4, HostSteps DEF Asks, AsksAgain, Calls, Sending

(* While a pause holds, nothing moves or lights and no queued command is   *)
(* lost or taken, whatever is queued, jogged, resent or reported meanwhile *)
(* (MovementSim::pause, step).                                             *)
THEOREM PausesHold == HostSpec => PauseHolds
  <1>1. HostInv /\ HostInv' /\ [HostNext]_allVars
        => [held /\ held' => /\ ~laser' /\ UNCHANGED pos
                             /\ Len(cmdq) <= Len(cmdq')
                             /\ cmdq = SubSeq(cmdq', 1, Len(cmdq))]_allVars
    <2>1. HostInv => cmdq \in Seq(QueuedCommand)
      BY DEF HostInv, TypeOK, MvTypeOK
    <2> QED
      BY <2>1, HoldStep, AppendKeepsFront
  <1> QED
    BY <1>1, HostInvariant, PTL DEF HostSpec, PauseHolds

LEMMA OwnStepEndsTransfer ==
    ASSUME TypeOK, Internal, fstate = "Receiving", fstate' # "Receiving"
    PROVE  \/ "fault" \in fwState'
           \/ Pushed /\ Answer = JobEndNotice
           \/ overflowed'
  <1>1. CASE Update
    <2>1. Push(JobEndNotice)
      BY <1>1 DEF Update, fsVars
    <2>2. Pushed => Answer = JobEndNotice
      BY <2>1, OwnMessages, PushedIsAnswer DEF TypeOK
    <2>3. Pushed \/ overflowed'
      BY <2>1, OutCapIsNat, OwnMessages DEF Push, Pushed, TypeOK, OutTypeOK
    <2> QED
      BY <2>2, <2>3
  <1>2. CASE RaiseFault
    BY <1>2 DEF RaiseFault
  <1> QED
    BY <1>1, <1>2
       DEF Internal, Step, RxBegin, RxEnd, StepBegin, PumpCommand, PumpFeed, FeedParser,
           FeedNothing, isReading, PumpFull, MoveIterate, MoveDone, Tx, ClearFault,
           machineVars, fsVars

(* No transfer ends behind the host's back: the job end that takes it is   *)
(* announced, or latched as lost, and a fault is shown (endJob, setFault). *)
THEOREM TransferEndsSeen == HostSpec => TransferEndsAnnounced
  <1>1. HostInv /\ [HostNext]_allVars
        => [~Processing /\ fstate = "Receiving" /\ fstate' # "Receiving" =>
              \/ "fault" \in fwState'
              \/ Pushed /\ Answer = JobEndNotice
              \/ overflowed']_allVars
    BY StepKinds, OwnStepEndsTransfer DEF HostInv, Firmware
  <1> QED
    BY <1>1, HostInvariant, PTL DEF HostSpec, TransferEndsAnnounced

LEMMA JobCompletes ==
    ASSUME HostInv, [HostNext]_allVars, phase = "finish", executing, ~executing'
    PROVE  \/ endTaken
           \/ Unparsed = <<>> /\ cmdq = <<>> /\ mstate = "Idle"
  <1> USE DEF HostInv
  <1>1. ~(UNCHANGED fwState)
    BY DEF executing
  <1>2. Update
    BY <1>1, HostStepIsWireStep
       DEF WireNext, Process, Internal, Step, RxBegin, RxEnd, StepBegin, PumpCommand,
           PumpFeed, PumpFull, MoveIterate, MoveDone, Tx, RaiseFault, ClearFault,
           topVars, vars
  <1>3. JobComplete
    BY <1>2 DEF Update, Reported, executing
  <1>4. CASE jobEnded
    BY <1>4 DEF JobInv
  <1>5. CASE RanDry
    <2>1. fbuf = <<>> /\ Unread = <<>>
      BY <1>5 DEF RanDry, FilesInv, Unread
    <2> QED
      BY <1>5, <2>1 DEF RanDry, isIdle, Unparsed
  <1> QED
    BY <1>3, <1>4, <1>5 DEF JobComplete

(* A job is reported to be over only when its own job_end was executed, or *)
(* when nothing of it is left anywhere and the head stands still           *)
(* (checkJobComplete, m_job_ended).                                        *)
THEOREM CompletionsJustified == HostSpec => CompletionJustified
  <1>1. HostInv /\ [HostNext]_allVars
        => [phase = "finish" /\ executing /\ ~executing' =>
              \/ endTaken
              \/ Unparsed = <<>> /\ cmdq = <<>> /\ mstate = "Idle"]_allVars
    BY JobCompletes
  <1> QED
    BY <1>1, HostInvariant, PTL DEF HostSpec, CompletionJustified

-----------------------------------------------------------------------------
(* A job, command by command.                                              *)

LEMMA FirstOfJoin ==
    ASSUME NEW S, NEW s \in Seq(S), NEW t \in Seq(S), s # <<>>
    PROVE  /\ s \o t # <<>> /\ Head(s \o t) = Head(s)
           /\ Tail(s \o t) = Tail(s) \o t
  OBVIOUS

LEMMA CutAndJoin ==
    ASSUME NEW S, NEW s \in Seq(S), NEW m \in 0..Len(s), NEW n \in m..Len(s)
    PROVE  SubSeq(s, m + 1, n) \o SubSeq(s, n + 1, Len(s))
             = SubSeq(s, m + 1, Len(s))
  <1>1. /\ m + 1 \in 1..(Len(s) + 1) /\ n \in (m + 1 - 1)..Len(s)
        /\ Len(s) \in n..Len(s)
    OBVIOUS
  <1>2. \A l \in n..Len(s) :
           SubSeq(s, m + 1, n) \o SubSeq(s, n + 1, l) = SubSeq(s, m + 1, l)
    BY <1>1, ConcatAdjacentSubSeq
  <1> QED
    BY <1>1, <1>2

LEMMA UnreadType ==
    ASSUME TypeOK
    PROVE  Unread \in Seq(JobCommand) /\ fbuf \in Seq(JobCommand)
  BY DEF TypeOK, FsTypeOK, Unread

LEMMA NothingRead ==
    ASSUME ~isReading, fbuf = <<>>
    PROVE  Unparsed = <<>>
  <1>1. Unread = <<>>
    BY DEF Unread
  <1> QED
    BY <1>1 DEF Unparsed

(* What a request may do to the job that executes. *)
LEMMA JobUnderRequest ==
    ASSUME HostInv, NEW req \in WireRequest, Process(req), executing'
    PROVE  \/ Unparsed' = Unparsed
           \/ /\ req.op = "execute"
              /\ \/ Unparsed' = file /\ cmdq' = <<>>
                 \/ Unparsed' = <<>> /\ cmdq' = <<>> /\ DiskMayFail
  <1> USE DEF HostInv
  <1>1. CASE UNCHANGED fsVars
    BY <1>1 DEF fsVars, Unparsed, Unread, isReading
  <1>2. CASE FsProcess(req) /\ ~UNCHANGED <<fstate, file, rd, fbuf>>
    <2>1. ~isReading /\ ~isReading'
      BY <1>2
         DEF FsProcess, FileBegin, FileChunk, FileEnd, CannotBegin, FsStop, isReading, fsVars
    <2>2. fbuf = <<>> /\ fbuf' = <<>>
      BY <1>2, <2>1
         DEF FilesInv, FsProcess, FileBegin, FileChunk, FileEnd, FsStop, fsVars
    <2>3. Unparsed = <<>>
      BY <2>1, <2>2, NothingRead
    <2>4. Unparsed' = <<>>
      <3>1. Unread' = <<>>
        BY <2>1 DEF Unread
      <3> QED
        BY <2>2, <3>1 DEF Unparsed
    <2> QED
      BY <2>3, <2>4
  <1>3. CASE UNCHANGED <<fstate, file, rd, fbuf>>
    BY <1>3 DEF Unparsed, Unread, isReading
  <1>4. CASE Stop
    BY <1>4 DEF Stop, Stopped, executing
  <1>5. CASE req.op = "execute" /\ BeginJob
    <2>1. PICK opens \in DiskOutcomes :
             /\ StartReading(opens /\ onDisk)
             /\ fwState' = IF opens /\ onDisk
                           THEN fwState \cup {"executing_job"} ELSE fwState
      BY <1>5 DEF BeginJob
    <2>2. cmdq' = <<>> /\ fbuf' = <<>> /\ file' = file
      BY <1>5, <2>1 DEF BeginJob, MvStop, StartReading
    <2>3. CASE opens /\ onDisk
      <3>1. isReading' /\ rd' = 0
        BY <2>1, <2>3 DEF StartReading, isReading
      <3>2. 0 + 1 = 1 /\ SubSeq(file, 1, Len(file)) = file
        BY DEF TypeOK, FsTypeOK
      <3>3. Unread' = file
        BY <2>2, <3>1, <3>2 DEF Unread
      <3>4. Unparsed' = file
        BY <2>2, <3>3 DEF Unparsed, TypeOK, FsTypeOK
      <3> QED
        BY <1>5, <2>2, <3>4
    <2>4. CASE ~(opens /\ onDisk)
      <3>1. ~isReading'
        BY <2>1, <2>4 DEF StartReading, isReading
      <3>2. Unread' = <<>>
        BY <3>1 DEF Unread
      <3>3. Unparsed' = <<>>
        BY <2>2, <3>2 DEF Unparsed
      <3>4. executing /\ onDisk
        BY <2>1, <2>4 DEF executing, JobInv
      <3>5. DiskMayFail
        BY <2>4, <3>4 DEF DiskOutcomes
      <3> QED
        BY <1>5, <2>2, <3>3, <3>5
    <2> QED
      BY <2>3, <2>4
  <1> QED
    BY <1>1, <1>2, <1>3, <1>4, <1>5, FileSteps DEF Process, Resend, Evaluate, TopProcess,
       machineVars
(* The firmware's own steps: the first command of what is not parsed goes  *)
(* to the end of the queue, or the first of the queue to the head.         *)
LEMMA JobByItself ==
    ASSUME TypeOK, FilesInv, Internal, executing'
    PROVE  \/ UNCHANGED <<Unparsed, cmdq>>
           \/ /\ Unparsed' = Unparsed
              /\ cmdq # <<>> /\ cmdq' = Tail(cmdq)
           \/ /\ Unparsed # <<>> /\ Unparsed' = Tail(Unparsed)
              /\ cmdq' = cmdq \o QueuedPart(Head(Unparsed))
  <1>1. CASE PumpCommand
    <2>1. /\ fbuf # <<>> /\ fbuf' = Tail(fbuf) /\ UNCHANGED <<fstate, file, rd>>
          /\ canEnqueue
      BY <1>1 DEF PumpCommand
    <2>2. Unread' = Unread
      BY <2>1 DEF Unread, isReading
    <2>3. /\ Unparsed # <<>> /\ Head(Unparsed) = Head(fbuf)
          /\ Tail(Unparsed) = Tail(fbuf) \o Unread
      BY <2>1, UnreadType, FirstOfJoin DEF Unparsed
    <2>4. Unparsed' = Tail(Unparsed)
      BY <2>1, <2>2, <2>3 DEF Unparsed
    <2>5. cmdq' = cmdq \o QueuedPart(Head(fbuf))
      <3> DEFINE c == Head(fbuf)
      <3>1. IsCommand(c) /\ cmdq \in Seq(QueuedCommand)
        BY <2>1 DEF TypeOK, FsTypeOK, MvTypeOK, JobCommand
      <3>2. c.op \notin QueuedOps \/ ~c.ok => cmdq' = cmdq
        BY <1>1
           DEF PumpCommand, MvProcess, MvAccept, MvRefuse, BeginJog, EndJog, mvVars
      <3>3. c.op \in QueuedOps /\ c.ok => cmdq' = Append(cmdq, Queued(c))
        <4>1. c.op \in QueuedOps =>
                 c.op \notin {"pos", "jog_start", "jog_stop"}
          BY DEF QueuedOps, MoveOps
        <4> QED
          BY <1>1, <2>1, <4>1 DEF PumpCommand, MvProcess, MvAccept, MvRefuse, Enqueue
      <3>4. ASSUME c.op \in QueuedOps, c.ok
            PROVE  cmdq' = cmdq \o QueuedPart(c)
        <4>1. Queued(c) \in QueuedCommand
          BY <3>1, <3>4, QueuedType
        <4>2. Append(cmdq, Queued(c)) = cmdq \o <<Queued(c)>>
          BY <3>1, <4>1
        <4> QED
          BY <3>3, <3>4, <4>2 DEF QueuedPart
      <3>5. ASSUME ~(c.op \in QueuedOps /\ c.ok)
            PROVE  cmdq' = cmdq \o QueuedPart(c)
        <4>1. QueuedPart(c) = <<>>
          BY <3>5 DEF QueuedPart
        <4> QED
          BY <3>1, <3>2, <3>5, <4>1
      <3> QED
        BY <3>4, <3>5
    <2> QED
      BY <2>3, <2>4, <2>5
  <1>2. CASE PumpFeed
    <2>1. cmdq' = cmdq
      BY <1>2 DEF PumpFeed, mvVars
    <2>2. CASE FeedParser
      <3> DEFINE next == SubSeq(file, rd + 1, rd + Readable)
                 rest == SubSeq(file, rd + Readable + 1, Len(file))
      <3>1. /\ Readable \in Nat /\ rd \in Nat /\ rd + Readable \in Nat
            /\ rd + Readable <= Len(file) /\ rd <= rd + Readable /\ isReading
        BY <2>2, FileSystemAssumption
           DEF FeedParser, Readable, isReading, TypeOK, FsTypeOK
      <3>2. isReading' /\ file' = file /\ rd' = rd + Readable /\ fbuf' = fbuf \o next
        BY <2>2, <3>1 DEF FeedParser, isReading
      <3>3. Unread = next \o rest
        <4>1. file \in Seq(JobCommand) /\ Len(file) \in Nat
          BY DEF TypeOK, FsTypeOK
        <4>2. rd \in 0..Len(file) /\ rd + Readable \in rd..Len(file)
          BY <3>1, <4>1
        <4> QED
          BY <3>1, <4>1, <4>2, CutAndJoin DEF Unread
      <3>4. Unread' = rest
        BY <3>2 DEF Unread
      <3>5. next \in Seq(JobCommand) /\ rest \in Seq(JobCommand)
        BY <3>1 DEF TypeOK, FsTypeOK
      <3> HIDE DEF next, rest
      <3>6. Unparsed' = Unparsed
        BY <3>2, <3>3, <3>4, <3>5, UnreadType, ConcatAssociative DEF Unparsed
      <3> QED
        BY <2>1, <3>6
    <2>3. CASE FeedNothing
      <3>1. CASE fstate' = fstate
        BY <2>1, <2>3, <3>1 DEF FeedNothing, Unparsed, Unread, isReading
      <3>2. CASE fstate' = "Idle" /\ rd = Len(file)
        <4>1. Unread' = <<>>
          BY <3>2 DEF Unread, isReading
        <4>2. Unread = <<>>
          BY <3>2 DEF Unread, TypeOK, FsTypeOK
        <4> QED
          BY <2>1, <2>3, <4>1, <4>2 DEF FeedNothing, Unparsed
      <3> QED
        BY <2>3, <3>1, <3>2 DEF FeedNothing
    <2> QED
      BY <1>2, <2>2, <2>3 DEF PumpFeed
  <1>3. CASE MoveIterate
    <2>1. Unparsed' = Unparsed
      BY <1>3 DEF MoveIterate, fsVars, Unparsed, Unread, isReading
    <2>2. cmdq' = cmdq \/ (cmdq # <<>> /\ cmdq' = Tail(cmdq))
      BY <1>3 DEF MoveIterate, MvIterate, TakeNext, AdvanceMove, AdvanceJog, AdvanceDwell
    <2> QED
      BY <2>1, <2>2
  <1>4. CASE Update
    <2>1. UNCHANGED fsVars
      BY <1>4 DEF Update, executing
    <2> QED
      BY <1>4, <2>1 DEF Update, fsVars, Unparsed, Unread, isReading
  <1>5. ~RaiseFault
    BY DEF RaiseFault, executing
  <1>6. CASE UNCHANGED <<fsVars, cmdq>>
    BY <1>6 DEF fsVars, Unparsed, Unread, isReading
  <1> QED
    BY <1>1, <1>2, <1>3, <1>4, <1>5, <1>6
       DEF Internal, Step, RxBegin, RxEnd, StepBegin, BeginStep, PumpFull, MoveDone,
           EndStep, Tx, ClearFault, machineVars, mvVars

(* A job that executes is the commands of its file, each of which goes     *)
(* through the queue to the head, in order and once (beginJob, pumpJob,    *)
(* feedParser, takeNextCommand).                                           *)
THEOREM JobsInOrder == HostSpec => JobInOrder
  <1>1. HostInv /\ [HostNext]_allVars
        => [executing' =>
              IF Processing
              THEN \/ Unparsed' = Unparsed
                   \/ /\ now'.op = "execute"
                      /\ \/ Unparsed' = file /\ cmdq' = <<>>
                         \/ Unparsed' = <<>> /\ cmdq' = <<>> /\ DiskMayFail
              ELSE \/ UNCHANGED <<Unparsed, cmdq>>
                   \/ /\ Unparsed' = Unparsed
                      /\ cmdq # <<>> /\ cmdq' = Tail(cmdq)
                   \/ /\ Unparsed # <<>> /\ Unparsed' = Tail(Unparsed)
                      /\ cmdq' = cmdq \o QueuedPart(Head(Unparsed))]_allVars
    BY StepKinds, JobUnderRequest, JobByItself DEF HostInv, Firmware
  <1> QED
    BY <1>1, HostInvariant, PTL DEF HostSpec, JobInOrder

-----------------------------------------------------------------------------
(* The firmware is the service that the protocol promises.                 *)

LEMMA ServiceStep ==
    ASSUME HostInv, HostInv', [HostNext]_allVars
    PROVE  [Service!Next]_(Service!vars)
  <1> USE DEF HostInv
  <1>1. /\ evaluations \in {0, 1} /\ evaluations' \in {0, 1}
        /\ confirmed \in BOOLEAN /\ confirmed' \in BOOLEAN
        /\ confirmed => evaluations = 1
        /\ confirmed' => evaluations' = 1
    BY DEF RetryInv
  <1>2. ASSUME numbered' = numbered + 1
        PROVE  Service!Ask
    <2>1. confirmed' \in {FALSE, evaluations' = 1}
      BY <1>1
    <2> QED
      BY <1>1, <1>2, <2>1 DEF Service!Ask
  <1>3. ASSUME NEW req \in WireRequest, AsksAgain(req)
        PROVE  Service!Serve \/ Service!Repeat \/ UNCHANGED Service!vars
    <2>1. /\ UNCHANGED numbered /\ (confirmed => confirmed')
          /\ evaluations' \in {evaluations, evaluations + 1}
      BY <1>3 DEF AsksAgain, Counted
    <2>2. CASE evaluations = 1
      <3>1. evaluations' = 1
        BY <1>1, <2>1, <2>2
      <3>2. CASE confirmed'
        <4>1. confirmed' = TRUE
          BY <1>1, <3>2
        <4> QED
          BY <2>1, <2>2, <3>1, <4>1 DEF Service!Repeat
      <3>3. CASE ~confirmed'
        <4>1. confirmed' = confirmed
          BY <1>1, <2>1, <3>3
        <4> QED
          BY <2>1, <2>2, <3>1, <4>1 DEF Service!vars
      <3> QED
        BY <3>2, <3>3
    <2>3. CASE evaluations = 0
      <3>1. confirmed = FALSE
        BY <1>1, <2>3
      <3>2. CASE evaluations' = 1
        <4>1. confirmed' \in {confirmed, evaluations' = 1}
          BY <1>1, <3>1, <3>2
        <4> QED
          BY <2>1, <2>3, <3>2, <4>1 DEF Service!Serve, Service!Told
      <3>3. CASE evaluations' = 0
        <4>1. confirmed' = FALSE
          BY <1>1, <3>3
        <4> QED
          BY <2>1, <2>3, <3>1, <3>3, <4>1 DEF Service!vars
      <3> QED
        BY <1>1, <3>2, <3>3
    <2> QED
      BY <1>1, <2>2, <2>3
  <1>4. ASSUME UNCHANGED <<numbered, evaluations, confirmed>>
        PROVE  UNCHANGED Service!vars
    BY <1>4 DEF Service!vars
  <1> QED
    BY <1>2, <1>3, <1>4, HostSteps, FirmwareKeepsHost
       DEF Asks, Calls, hostVars, Service!Next

(* The firmware, with its one remembered response, is a service in which a *)
(* request takes effect once and only what took effect is confirmed        *)
(* (lbp/spec.md, "Transaction IDs").                                       *)
THEOREM FirmwareIsService == HostSpec => ImplementsService
  <1>1. HostInit => Service!Init
    BY DEF HostInit, Service!Init
  <1>2. HostInv /\ HostInv' /\ [HostNext]_allVars => [Service!Next]_(Service!vars)
    BY ServiceStep
  <1> QED
    BY <1>1, <1>2, HostInvariant, PTL DEF HostSpec, ImplementsService, Service!Spec
=============================================================================
