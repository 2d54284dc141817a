---------------------------- MODULE MovementSim -----------------------------
(***************************************************************************)
(* The simulated head and laser (lbp-simulator/movement.cpp): a queue of   *)
(* commands, a state machine that executes them, and jogs that act at      *)
(* once.  One axis and one laser stand for four and two, which the code    *)
(* treats alike; time is counted in ticks and distance in what the head    *)
(* travels in one, so a rate is either set (1) or not (0).                 *)
(*                                                                         *)
(* step() runs its loop one iteration at a time, from BeginStep until      *)
(* StepReturns.                                                            *)
(***************************************************************************)
EXTENDS OutputQueue

CONSTANTS QueueCap,          \* Queue<CmdPayload, 512>
          MaxPos,            \* m_max_pos: the travel of the axis
          MaxDwell,          \* max_dwell, in ticks
          MaxTicks,          \* the longest dt of a step()
          UserOrigin         \* cfg_user_origin_x, as committed

ASSUME MovementAssumption ==
    /\ QueueCap \in Nat \ {0} /\ MaxPos \in Nat \ {0} /\ MaxDwell \in Nat
    /\ MaxTicks \in Nat \ {0} /\ UserOrigin \in Int

VARIABLES mstate,            \* m_state
          cmdq,              \* m_cmd_q
          pos,               \* m_pos
          jobOrigin,         \* m_job_origin
          rate,              \* m_target_vel_xy
          move,              \* m_move: direction and distance still to go
          jogDir,            \* m_jog.dir
          dwell,             \* m_dwell_remaining_s
          laser,             \* m_laser_1.on
          paused,            \* m_paused: the state and laser to resume
          inFrame,           \* m_in_frame
          jobEnded,          \* m_job_ended, a latch
          budget             \* budget_s: what is left of dt inside step()

headVars == <<pos, jobOrigin, rate, move, jogDir, dwell>>
mvVars == <<mstate, cmdq, headVars, laser, paused, inFrame, jobEnded, budget>>

MoveStates == {"Idle", "Jogging", "Moving", "Dwelling", "Paused"}
InMotion   == {"Jogging", "Moving"}
(* cmd_cut_from codes *)
CurrentPosition == 0
UserOriginCode  == 1

MvInit == /\ mstate = "Idle" /\ cmdq = <<>>
          /\ pos = 0 /\ jobOrigin = 0 /\ rate = 0
          /\ move = [dir |-> 1, left |-> 0] /\ jogDir = 1 /\ dwell = 0
          /\ laser = FALSE /\ paused = [state |-> "Idle", laser |-> FALSE]
          /\ inFrame = FALSE /\ jobEnded = FALSE
          /\ budget = 0

Clip(v) == IF v < 0 THEN 0 ELSE IF v > MaxPos THEN MaxPos ELSE v

canEnqueue == Len(cmdq) < QueueCap
isIdle     == mstate = "Idle" /\ cmdq = <<>>

-----------------------------------------------------------------------------
(* Mutant: the job_end of the job before stays latched. *)
MutMvStop == /\ mstate' = "Idle" /\ cmdq' = <<>>
             /\ inFrame' = FALSE
             /\ laser' = FALSE /\ dwell' = 0
             /\ UNCHANGED <<jobEnded, pos, jobOrigin, rate, move, jogDir, paused,
                            budget>>

(* Mutant: the lasers are left as they are. *)
MutStopLit == /\ mstate' = "Idle" /\ cmdq' = <<>>
              /\ inFrame' = FALSE /\ jobEnded' = FALSE
              /\ dwell' = 0
              /\ UNCHANGED <<laser, pos, jobOrigin, rate, move, jogDir, paused, budget>>

(* stop(): jobOrigin, rate, the pause record and the position survive it.  *)
MvStop == /\ mstate' = "Idle" /\ cmdq' = <<>>
          /\ inFrame' = FALSE /\ jobEnded' = FALSE
          /\ laser' = FALSE /\ dwell' = 0
          /\ UNCHANGED <<pos, jobOrigin, rate, move, jogDir, paused, budget>>

(* Mutant: the laser is saved, and left on. *)
MutEnterPause == /\ paused' = [state |-> mstate, laser |-> laser]
                 /\ mstate' = "Paused"
                 /\ UNCHANGED laser

(* What pause() saves and switches off. *)
EnterPause == /\ paused' = [state |-> mstate, laser |-> laser]
              /\ laser' = FALSE
              /\ mstate' = "Paused"

(* Mutant: a second pause is not ignored. *)
MutPause == EnterPause
            /\ UNCHANGED <<cmdq, headVars, inFrame, jobEnded, budget>>

Pause == /\ IF mstate # "Paused"
            THEN EnterPause
            ELSE UNCHANGED <<paused, laser, mstate>>
         /\ UNCHANGED <<cmdq, headVars, inFrame, jobEnded, budget>>

(* Mutant: what was saved is restored, paused or not. *)
MutResume == /\ laser' = paused.laser /\ mstate' = paused.state
             /\ UNCHANGED <<cmdq, headVars, paused, inFrame, jobEnded, budget>>

Resume == /\ IF mstate = "Paused"
             THEN laser' = paused.laser /\ mstate' = paused.state
             ELSE UNCHANGED <<laser, mstate>>
          /\ UNCHANGED <<cmdq, headVars, paused, inFrame, jobEnded, budget>>

(* beginJog(): in whatever state the head is; no rate, no jog. *)
BeginJog(d) == /\ IF rate > 0 THEN mstate' = "Jogging" /\ jogDir' = d
                  ELSE UNCHANGED <<mstate, jogDir>>
               /\ UNCHANGED <<cmdq, pos, jobOrigin, rate, move, dwell, laser,
                              paused, inFrame, jobEnded, budget>>

EndJog == /\ mstate' = IF mstate = "Jogging" THEN "Idle" ELSE mstate
          /\ UNCHANGED <<cmdq, headVars, laser, paused, inFrame, jobEnded, budget>>

-----------------------------------------------------------------------------
(* process(): queries and jogs act and answer at once, wherever the        *)
(* command comes from; everything else is queued, and only a command from  *)
(* the wire is answered.                                                   *)
Queued(req) == [op |-> req.op, arg |-> req.arg, txid |-> req.txid]

(* Mutant: a new command wakes the head. *)
MutEnqueue(req) == /\ cmdq' = Append(cmdq, Queued(req))
                   /\ mstate' = IF mstate = "Paused" THEN "Idle" ELSE mstate
                   /\ UNCHANGED <<headVars, laser, paused, inFrame, jobEnded, budget>>

Enqueue(req) == /\ cmdq' = Append(cmdq, Queued(req))
                /\ UNCHANGED <<mstate, headVars, laser, paused, inFrame, jobEnded,
                               budget>>

MvAccept(req, source) ==
    /\ req.op \in QueuedOps
    /\ req.ok /\ canEnqueue
    /\ Enqueue(req)
    /\ IF source = "Wire" THEN Respond(req) ELSE UNCHANGED outVars

MvRefuse(req, source) ==
    /\ req.op \in QueuedOps
    /\ ~(req.ok /\ canEnqueue)
    /\ UNCHANGED mvVars
    /\ IF source = "Wire"
       THEN Nack(req, IF ~req.ok THEN "err_invalid_length" ELSE "err_queue_full")
       ELSE UNCHANGED outVars

MvProcess(req, source) ==
    \/ req.op = "pos" /\ Respond(req) /\ UNCHANGED mvVars
    \/ req.op = "jog_start" /\ BeginJog(req.arg) /\ Respond(req)
    \/ req.op = "jog_stop" /\ EndJog /\ Respond(req)
    \/ MvAccept(req, source)
    \/ MvRefuse(req, source)

-----------------------------------------------------------------------------
(* takeNextCommand() pops commands until one takes time.                   *)

(* decodeMoveDelta(): where the move asks the head to be, less where it is.*)
Delta(c) == [move_rel |-> Clip(pos + c.arg), move_abs |-> Clip(c.arg + jobOrigin),
             home |-> 0][c.op] - pos

TakeMove(c) ==
    LET d == Delta(c)
    IN  /\ c.op \in MoveOps
        /\ IF d # 0 /\ rate > 0
           THEN /\ move' = [dir |-> IF d > 0 THEN 1 ELSE -1,
                            left |-> IF d > 0 THEN d ELSE -d]
                /\ mstate' = "Moving"
           ELSE UNCHANGED <<move, mstate>>
        /\ UNCHANGED <<pos, jobOrigin, rate, jogDir, dwell, laser, inFrame, jobEnded>>

TakeDwell(c) == /\ c.op = "dwell"
                /\ dwell' = IF c.arg <= MaxDwell THEN c.arg ELSE MaxDwell
                /\ mstate' = "Dwelling"
                /\ UNCHANGED <<pos, jobOrigin, rate, move, jogDir, laser, inFrame,
                               jobEnded>>

(* The commands that only change a setting. *)
TakeSetting(c) ==
    /\ c.op \in QueuedOps \ (MoveOps \cup {"dwell"})
    /\ rate' = IF c.op = "speed" THEN c.arg ELSE rate
    /\ laser' = IF c.op \in {"laser_on", "laser_off"} THEN c.op = "laser_on" ELSE laser
    /\ inFrame' = IF c.op \in {"frame_begin", "frame_end"} THEN c.op = "frame_begin"
                  ELSE inFrame
    /\ jobEnded' = (jobEnded \/ c.op = "job_end")
    /\ jobOrigin' = IF c.op = "job_end" THEN 0
                    ELSE IF c.op = "cut_from"
                    THEN CASE c.arg = CurrentPosition -> pos
                           [] c.arg = UserOriginCode  -> UserOrigin
                           [] OTHER                   -> 0
                    ELSE jobOrigin
    /\ UNCHANGED <<pos, move, jogDir, dwell, mstate>>

TakeNext == /\ mstate = "Idle" /\ budget > 0
            /\ cmdq # <<>>
            /\ cmdq' = Tail(cmdq)
            /\ \/ TakeMove(Head(cmdq))
               \/ TakeDwell(Head(cmdq))
               \/ TakeSetting(Head(cmdq))
            /\ UNCHANGED <<paused, budget>>

(* Mutant: a step is not cut at the end of the move. *)
MutLeast(a, b) == a

Least(a, b) == IF a <= b THEN a ELSE b

(* The other iterations of step(). *)
AdvanceMove == /\ mstate = "Moving" /\ budget > 0
               /\ LET d == Least(budget, move.left)
                  IN  /\ pos' = Clip(pos + move.dir * d)
                      /\ move' = [move EXCEPT !.left = @ - d]
                      /\ budget' = budget - d
                      /\ mstate' = IF d = move.left THEN "Idle" ELSE "Moving"
               /\ UNCHANGED <<cmdq, jobOrigin, rate, jogDir, dwell, laser, paused,
                              inFrame, jobEnded>>

AdvanceJog == /\ mstate = "Jogging" /\ budget > 0
              /\ pos' = Clip(pos + jogDir * budget)
              /\ budget' = 0
              /\ UNCHANGED <<mstate, cmdq, jobOrigin, rate, move, jogDir, dwell,
                             laser, paused, inFrame, jobEnded>>

AdvanceDwell == /\ mstate = "Dwelling" /\ budget > 0
                /\ LET d == Least(budget, dwell)
                   IN  /\ dwell' = dwell - d
                       /\ budget' = budget - d
                       /\ mstate' = IF dwell > budget THEN "Dwelling" ELSE "Idle"
                /\ UNCHANGED <<cmdq, pos, jobOrigin, rate, move, jogDir, laser,
                               paused, inFrame, jobEnded>>

MvIterate == TakeNext \/ AdvanceMove \/ AdvanceJog \/ AdvanceDwell

(* Mutant: an idle head keeps spinning. *)
MutStepReturns == budget = 0 \/ mstate = "Paused"

StepReturns == budget = 0 \/ isIdle \/ mstate = "Paused"

(* Entering and leaving step(). *)
BeginStep(dt) == /\ budget' = dt
                 /\ UNCHANGED <<mstate, cmdq, headVars, laser, paused, inFrame,
                                jobEnded>>

EndStep == /\ StepReturns
           /\ BeginStep(0)

QueuedCommand == {c \in [op : QueuedOps, arg : Int, txid : Nat] :
                     c.op = "dwell" => c.arg \in Nat}

MvTypeOK == /\ mstate \in MoveStates /\ cmdq \in Seq(QueuedCommand)
            /\ pos \in 0..MaxPos /\ jobOrigin \in Int /\ rate \in Int
            /\ move \in [dir : {1, -1}, left : Nat] /\ jogDir \in Int
            /\ dwell \in 0..MaxDwell /\ budget \in 0..MaxTicks
            /\ laser \in BOOLEAN /\ inFrame \in BOOLEAN /\ jobEnded \in BOOLEAN
            /\ paused \in [state : MoveStates \ {"Paused"}, laser : BOOLEAN]

(* While paused the lasers are off, whatever is queued or was on before    *)
(* (MovementSim::pause; a jog that ends the pause leaves them off).        *)
PausedLaserOff == mstate = "Paused" => ~laser
=============================================================================
