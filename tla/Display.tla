------------------------------ MODULE Display -------------------------------
(***************************************************************************)
(* The two threads of the program (lbp-simulator/simworker.cpp and         *)
(* mainwindow.cpp).  The worker's timer advances the firmware by the time  *)
(* that has passed and keeps what step() returns; the user interface's     *)
(* timer takes these points and draws them.  m_lock guards the list.       *)
(*                                                                         *)
(* A point is known by the simulated time at which it was made.            *)
(***************************************************************************)
EXTENDS Integers, Sequences

CONSTANTS StepLen,           \* sim_step_ns
          MaxTick,           \* sim_max_tick_ns
          MaxGap,            \* longest time between two ticks
          MaxClock           \* when the clock stops

ASSUME DisplayAssumption == /\ StepLen \in Nat \ {0} /\ MaxTick \in Nat \ {0}
                            /\ MaxGap \in Nat /\ MaxClock \in Nat

VARIABLES clock,             \* m_sim_timer
          last,              \* m_last_ns
          left,              \* dt_ns, while the worker is in its loop
          locked,            \* does the worker hold m_lock?
          simTime,           \* history: all the time that was simulated
          skipped,           \* history: gaps that were too long for a tick
          points,            \* SimWorker::m_points
          taken,             \* MainWindow::m_points
          ui, next,          \* where the timer of the user interface is
          shown,             \* history: points that were drawn
          made               \* history: points that were made

workerVars == <<clock, last, left, locked, simTime, skipped, made>>
uiVars == <<taken, ui, next, shown>>
vars == <<workerVars, uiVars, points>>

Init == /\ clock = 0 /\ last = 0 /\ left = 0 /\ locked = FALSE
        /\ simTime = 0 /\ skipped = FALSE /\ made = <<>>
        /\ points = <<>> /\ taken = <<>> /\ ui = "idle" /\ next = 1 /\ shown = <<>>

Least(a, b) == IF a <= b THEN a ELSE b

Pass(d) == /\ clock + d <= MaxClock /\ clock + d - last <= MaxGap
           /\ clock' = clock + d
           /\ UNCHANGED <<last, left, locked, simTime, skipped, made, points, uiVars>>

-----------------------------------------------------------------------------
(* The worker: SimWorker::timerEvent().                                    *)

(* Mutant: after a gap the time of the last tick is not noted. *)
MutTick == /\ ~locked /\ locked' = TRUE
           /\ last' = IF clock - last > MaxTick THEN last ELSE clock
           /\ left' = Least(clock - last, MaxTick)
           /\ skipped' = (skipped \/ clock - last > MaxTick)
           /\ UNCHANGED <<clock, simTime, made, points, uiVars>>

Tick == /\ ~locked /\ locked' = TRUE
        /\ last' = clock
        /\ left' = Least(clock - last, MaxTick)
        /\ skipped' = (skipped \/ clock - last > MaxTick)
        /\ UNCHANGED <<clock, simTime, made, points, uiVars>>

SubStep == /\ locked /\ left > 0
           /\ LET sub == Least(left, StepLen)
              IN  /\ simTime' = simTime + sub
                  /\ left' = left - sub
           /\ points' = Append(points, simTime')
           /\ made' = Append(made, simTime')
           /\ UNCHANGED <<clock, last, locked, skipped, uiVars>>

TickEnds == /\ locked /\ left = 0
            /\ locked' = FALSE
            /\ UNCHANGED <<clock, last, left, simTime, skipped, made, points, uiVars>>

-----------------------------------------------------------------------------
(* The user interface: MainWindow::timerEvent().                           *)

(* Mutant: what was drawn is not cleared, and goes back with the swap. *)
MutRefresh == /\ ui = "idle" /\ ui' = "swap"
              /\ UNCHANGED <<workerVars, points, taken, next, shown>>

Refresh == /\ ui = "idle" /\ ui' = "swap"
           /\ taken' = <<>>
           /\ UNCHANGED <<workerVars, points, next, shown>>

(* Mutant: a single point is left to wait for company. *)
MutGetSimPoints == /\ ui = "swap" /\ ui' = "heat"
                   /\ ~locked
                   /\ IF Len(points) > 1 THEN points' = taken /\ taken' = points
                      ELSE UNCHANGED <<points, taken>>
                   /\ next' = 1
                   /\ UNCHANGED <<workerVars, shown>>

(* getSimPoints(), which waits for the lock. *)
GetSimPoints == /\ ui = "swap" /\ ui' = "heat"
                /\ ~locked
                /\ points' = taken /\ taken' = points
                /\ next' = 1
                /\ UNCHANGED <<workerVars, shown>>

Heat == /\ ui = "heat"
        /\ IF next <= Len(taken)
           THEN /\ shown' = Append(shown, taken[next])
                /\ next' = next + 1
                /\ UNCHANGED ui
           ELSE ui' = "idle" /\ UNCHANGED <<shown, next>>
        /\ UNCHANGED <<workerVars, points, taken>>

Next == \/ \E d \in 1..MaxGap : Pass(d)
        \/ Tick \/ SubStep \/ TickEnds
        \/ Refresh \/ GetSimPoints \/ Heat

(* Both threads run.  The worker leaves the lock alone between its ticks,  *)
(* and the user interface takes it then, sooner or later.                  *)
Fairness == /\ WF_vars(SubStep) /\ WF_vars(TickEnds)
            /\ WF_vars(Refresh) /\ WF_vars(Heat)
            /\ SF_vars(GetSimPoints)

Spec == Init /\ [][Next]_vars /\ Fairness

-----------------------------------------------------------------------------
(* A point is drawn once and in its turn: what was drawn, what is being    *)
(* drawn and what waits is what was made, though the two lists change      *)
(* hands while the worker goes on (SimWorker::getSimPoints).               *)
PointsOnce ==
    made = shown \o (IF ui = "heat" THEN SubSeq(taken, next, Len(taken)) ELSE <<>>) \o points

(* The simulation is never ahead of the clock and, unless a gap was too    *)
(* long to be made up for, not behind it between two ticks; each point is  *)
(* at most StepLen of simulated time after the one before.                 *)
TimeKept == /\ simTime + left <= last
            /\ ~skipped => simTime + left = last
            /\ \A i \in DOMAIN made :
                  made[i] - (IF i = 1 THEN 0 ELSE made[i - 1]) \in 1..StepLen

(* Every point is drawn in the end, however often the worker has the lock. *)
EventuallyDrawn == \A n \in 1..MaxClock : Len(made) >= n ~> Len(shown) >= n
=============================================================================
