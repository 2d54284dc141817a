---------------------------- MODULE DisplayProofs ----------------------------
(***************************************************************************)
(* The two threads, for every length of a step and of a tick, and however  *)
(* long the clock runs: a point is drawn once and in its turn, and the     *)
(* simulation keeps the time of the clock.                                 *)
(***************************************************************************)
EXTENDS Display, SequenceTheorems, TLAPS

Points == Seq(Nat)

DisplayTypeOK ==
    /\ clock \in Nat /\ last \in Nat /\ left \in 0..MaxTick /\ simTime \in Nat
    /\ locked \in BOOLEAN /\ skipped \in BOOLEAN
    /\ points \in Points /\ taken \in Points /\ shown \in Points /\ made \in Points
    /\ ui \in {"idle", "swap", "heat"} /\ next \in Nat \ {0}

(* What is drawn now. *)
Drawing == IF ui = "heat" THEN SubSeq(taken, next, Len(taken)) ELSE <<>>

(* Between Refresh and GetSimPoints there is nothing in the list that the  *)
(* worker is about to be given.                                            *)
HandsInv == /\ ui = "swap" => taken = <<>>
            /\ ui = "heat" => next <= Len(taken) + 1

(* Outside a tick nothing of it is left over, and the newest point was     *)
(* made at the time that is simulated now.                                 *)
ClockInv == /\ last <= clock
            /\ ~locked => left = 0
            /\ simTime = IF made = <<>> THEN 0 ELSE made[Len(made)]

DisplayInv == DisplayTypeOK /\ HandsInv /\ PointsOnce /\ ClockInv /\ TimeKept

-----------------------------------------------------------------------------
LEMMA LeastIsLeast ==
    ASSUME NEW a \in Nat, NEW b \in Nat
    PROVE  /\ Least(a, b) \in Nat /\ Least(a, b) <= a /\ Least(a, b) <= b
           /\ a > 0 /\ b > 0 => Least(a, b) > 0
           /\ a <= b => Least(a, b) = a
           /\ Least(a, b) \in 0..b
  BY DEF Least

LEMMA SubStepAdvances ==
    ASSUME DisplayTypeOK, SubStep
    PROVE  \E sub \in 1..StepLen :
              /\ sub <= left
              /\ simTime' = simTime + sub /\ left' = left - sub
              /\ points' = Append(points, simTime') /\ made' = Append(made, simTime')
  <1> DEFINE sub == Least(left, StepLen)
  <1>1. left \in Nat /\ StepLen \in Nat /\ StepLen > 0 /\ left > 0
    BY DisplayAssumption DEF DisplayTypeOK, SubStep
  <1>2. sub \in 1..StepLen /\ sub <= left
    BY <1>1, LeastIsLeast
  <1>3. simTime' = simTime + sub /\ left' = left - sub
    BY DEF SubStep
  <1> HIDE DEF sub
  <1> QED
    BY <1>2, <1>3 DEF SubStep

LEMMA DisplayInitially ==
    ASSUME Init
    PROVE  DisplayInv
  <1>1. DisplayTypeOK
    <2>1. 0 \in 0..MaxTick /\ <<>> \in Points
      BY DisplayAssumption DEF Points
    <2>2. /\ clock = 0 /\ last = 0 /\ left = 0 /\ simTime = 0 /\ next = 1
          /\ points = <<>> /\ taken = <<>> /\ shown = <<>> /\ made = <<>>
          /\ ui = "idle"
      BY DEF Init
    <2>3. locked \in BOOLEAN /\ skipped \in BOOLEAN
      BY DEF Init
    <2> QED
      BY <2>1, <2>2, <2>3 DEF DisplayTypeOK
  <1>2. HandsInv /\ PointsOnce /\ ClockInv /\ TimeKept
    BY DEF Init, HandsInv, PointsOnce, ClockInv, TimeKept
  <1> QED
    BY <1>1, <1>2 DEF DisplayInv

LEMMA DisplayTypeStep ==
    ASSUME DisplayTypeOK, ClockInv, [Next]_vars
    PROVE  DisplayTypeOK'
  <1> USE DEF DisplayTypeOK, Points
  <1>1. ASSUME NEW d \in 1..MaxGap, Pass(d)
        PROVE  DisplayTypeOK'
    BY <1>1, DisplayAssumption DEF Pass, uiVars
  <1>2. CASE Tick
    <2>1. clock - last \in Nat /\ MaxTick \in Nat
      BY DisplayAssumption DEF ClockInv
    <2>2. Least(clock - last, MaxTick) \in 0..MaxTick
      BY <2>1, LeastIsLeast
    <2>3. left' \in 0..MaxTick /\ last' \in Nat /\ skipped' \in BOOLEAN
      BY <1>2, <2>2 DEF Tick
    <2> QED
      BY <1>2, <2>3 DEF Tick, uiVars
  <1>3. CASE SubStep
    <2>1. PICK sub \in 1..StepLen :
             /\ sub <= left
             /\ simTime' = simTime + sub /\ left' = left - sub
             /\ points' = Append(points, simTime') /\ made' = Append(made, simTime')
      BY <1>3, SubStepAdvances
    <2>2. simTime' \in Nat /\ left' \in 0..MaxTick
      BY <2>1, DisplayAssumption
    <2>3. points' \in Points /\ made' \in Points
      BY <2>1, <2>2
    <2> QED
      BY <1>3, <2>2, <2>3 DEF SubStep, uiVars
  <1>4. CASE TickEnds
    BY <1>4 DEF TickEnds, uiVars
  <1>5. CASE Refresh \/ GetSimPoints
    <2>1. <<>> \in Points /\ 1 \in Nat \ {0}
      OBVIOUS
    <2>2. /\ UNCHANGED workerVars /\ ui' \in {"idle", "swap", "heat"}
          /\ points' \in Points /\ taken' \in Points
      BY <1>5, <2>1 DEF Refresh, GetSimPoints
    <2>3. shown' = shown /\ next' \in {next, 1}
      BY <1>5 DEF Refresh, GetSimPoints
    <2> QED
      BY <2>1, <2>2, <2>3 DEF workerVars
  <1>6. CASE Heat
    <2>1. ASSUME next <= Len(taken)
          PROVE  Append(shown, taken[next]) \in Points /\ next + 1 \in Nat \ {0}
      BY <2>1
    <2> QED
      BY <1>6, <2>1 DEF Heat, workerVars
  <1>7. CASE UNCHANGED vars
    BY <1>7 DEF vars, workerVars, uiVars
  <1> QED
    BY <1>1, <1>2, <1>3, <1>4, <1>5, <1>6, <1>7 DEF Next

-----------------------------------------------------------------------------
(* The points.                                                             *)

LEMMA DrawingType ==
    ASSUME DisplayTypeOK
    PROVE  Drawing \in Points
  BY DEF DisplayTypeOK, Points, Drawing

LEMMA AppendLast ==
    ASSUME NEW f \in Points, NEW b \in Points, NEW e \in Nat
    PROVE  Append(f \o b, e) = f \o Append(b, e)
  <1>1. /\ f \in Seq(Nat) /\ b \in Seq(Nat) /\ <<e>> \in Seq(Nat)
        /\ f \o b \in Seq(Nat)
    BY DEF Points
  <1>2. (f \o b) \o <<e>> = f \o (b \o <<e>>)
    BY <1>1, ConcatAssociative
  <1> QED
    BY <1>1, <1>2, AppendIsConcat

LEMMA DrawFirst ==
    ASSUME NEW f \in Points, NEW b \in Points, NEW e \in Nat
    PROVE  Append(f, e) \o b = f \o (<<e>> \o b)
  <1>1. f \in Seq(Nat) /\ b \in Seq(Nat) /\ <<e>> \in Seq(Nat)
    BY DEF Points
  <1>2. (f \o <<e>>) \o b = f \o (<<e>> \o b)
    BY <1>1, ConcatAssociative
  <1> QED
    BY <1>1, <1>2, AppendIsConcat

LEMMA PointsStep ==
    ASSUME DisplayTypeOK, DisplayTypeOK', HandsInv, PointsOnce, [Next]_vars
    PROVE  HandsInv' /\ PointsOnce'
  <1> USE DEF Points
  <1>1. /\ made = (shown \o Drawing) \o points
        /\ PointsOnce' <=> made' = (shown' \o Drawing') \o points'
    BY DEF PointsOnce, Drawing
  <1>2. /\ shown \in Points /\ taken \in Points /\ points \in Points
        /\ next \in Nat \ {0} /\ Drawing \in Points
    BY DrawingType DEF DisplayTypeOK
  <1>3. CASE SubStep
    <2>1. PICK s \in Nat : points' = Append(points, s) /\ made' = Append(made, s)
      BY <1>3 DEF SubStep, DisplayTypeOK
    <2>2. UNCHANGED <<shown, Drawing, taken, ui, next>>
      BY <1>3 DEF SubStep, uiVars, Drawing
    <2>3. (shown \o Drawing) \in Points
      BY <1>2
    <2>4. Append((shown \o Drawing) \o points, s) = (shown \o Drawing) \o Append(points, s)
      BY <1>2, <2>3, AppendLast
    <2> QED
      BY <1>1, <2>1, <2>2, <2>4 DEF HandsInv
  <1>4. CASE Refresh
    <2>1. Drawing = <<>> /\ Drawing' = <<>>
      BY <1>4 DEF Refresh, Drawing
    <2> QED
      BY <1>1, <1>4, <2>1 DEF Refresh, HandsInv, workerVars
  <1>5. CASE GetSimPoints
    <2>1. Drawing = <<>> /\ points' = <<>> /\ made' = made /\ shown' = shown
      BY <1>5 DEF GetSimPoints, HandsInv, workerVars, Drawing
    <2>2. Drawing' = points
      BY <1>2, <1>5 DEF GetSimPoints, Drawing
    <2>3. (shown \o <<>>) \o points = (shown \o points) \o <<>>
      BY <1>2
    <2>4. HandsInv'
      BY <1>2, <1>5 DEF GetSimPoints, HandsInv
    <2> QED
      BY <1>1, <2>1, <2>2, <2>3, <2>4
  <1>6. CASE Heat /\ next <= Len(taken)
    <2>1. /\ shown' = Append(shown, taken[next]) /\ next' = next + 1
          /\ UNCHANGED <<made, points, taken, ui>> /\ ui = "heat"
      BY <1>6 DEF Heat, workerVars
    <2>2. next \in 1..Len(taken) /\ Len(taken) \in next..Len(taken)
      BY <1>2, <1>6
    <2>3. Drawing = <<taken[next]>> \o Drawing'
      <3>1. SubSeq(taken, next, Len(taken))
              = <<taken[next]>> \o SubSeq(taken, next + 1, Len(taken))
        BY <1>2, <2>2, SubSeqRecursiveFirst
      <3> QED
        BY <2>1, <3>1 DEF Drawing
    <2>4. taken[next] \in Nat /\ Drawing' \in Points
      <3>1. taken[next] \in Nat
        BY <1>2, <2>2
      <3>2. SubSeq(taken, next + 1, Len(taken)) \in Points
        BY <1>2, <2>2
      <3> QED
        BY <2>1, <3>1, <3>2 DEF Drawing
    <2>5. shown' \o Drawing' = shown \o Drawing
      BY <1>2, <2>1, <2>3, <2>4, DrawFirst
    <2>6. HandsInv'
      BY <2>1, <2>2 DEF HandsInv
    <2> QED
      BY <1>1, <2>1, <2>5, <2>6
  <1>7. CASE Heat /\ ~(next <= Len(taken))
    <2>1. Drawing = <<>> /\ Drawing' = <<>>
      BY <1>2, <1>7 DEF Heat, Drawing
    <2> QED
      BY <1>1, <1>7, <2>1 DEF Heat, HandsInv, workerVars
  <1>8. CASE UNCHANGED <<uiVars, points, made>>
    BY <1>1, <1>8 DEF uiVars, HandsInv, Drawing
  <1> QED
    BY <1>3, <1>4, <1>5, <1>6, <1>7, <1>8
       DEF Next, Pass, Tick, TickEnds, vars, workerVars

-----------------------------------------------------------------------------
(* The time.                                                               *)

LEMMA TimeStep ==
    ASSUME DisplayTypeOK, ClockInv, TimeKept, [Next]_vars
    PROVE  ClockInv' /\ TimeKept'
  <1>1. /\ clock \in Nat /\ last \in Nat /\ left \in Nat /\ simTime \in Nat
        /\ made \in Seq(Nat) /\ MaxTick \in Nat
    BY DisplayAssumption DEF DisplayTypeOK, Points
  <1>2. ASSUME NEW d \in 1..MaxGap, Pass(d)
        PROVE  ClockInv' /\ TimeKept'
    BY <1>1, <1>2, DisplayAssumption DEF Pass, ClockInv, TimeKept
  <1>3. CASE Tick
    <2>1. clock - last \in Nat /\ left = 0
      BY <1>1, <1>3 DEF Tick, ClockInv
    <2>2. /\ left' \in Nat /\ left' <= clock - last
          /\ clock - last <= MaxTick => left' = clock - last
      <3>1. left' = Least(clock - last, MaxTick)
        BY <1>3 DEF Tick
      <3> QED
        BY <1>1, <2>1, <3>1, LeastIsLeast
    <2>3. ~skipped' => ~skipped /\ clock - last <= MaxTick
      <3>1. skipped' = (skipped \/ clock - last > MaxTick)
        BY <1>3 DEF Tick
      <3>2. clock - last > MaxTick \/ clock - last <= MaxTick
        BY <1>1
      <3> QED
        BY <3>1, <3>2
    <2>4. UNCHANGED <<simTime, made, clock>> /\ last' = clock /\ locked'
      BY <1>3 DEF Tick
    <2>5. simTime <= last /\ (~skipped => simTime = last)
      BY <1>1, <2>1 DEF TimeKept
    <2>6. simTime' + left' <= last' /\ (~skipped' => simTime' + left' = last')
      <3>1. simTime' + left' <= last'
        <4>1. simTime <= last
          BY <2>5
        <4>2. left' \in Nat /\ left' <= clock - last
          BY <2>2
        <4>3. simTime \in Nat /\ last \in Nat /\ clock \in Nat
          BY <1>1
        <4>4. \A a, b, c, d \in Nat : a <= b /\ d <= c - b => a + d <= c
          OBVIOUS
        <4>5. simTime + left' <= clock
          BY <4>1, <4>2, <4>3, <4>4
        <4> QED
          BY <2>4, <4>5
      <3>2. ~skipped' => simTime = last /\ left' = clock - last
        BY <2>2, <2>3, <2>5
      <3>3. last + (clock - last) = clock
        BY <1>1
      <3> QED
        BY <2>4, <3>1, <3>2, <3>3
    <2>7. ClockInv'
      BY <1>1, <2>4 DEF ClockInv
    <2> QED
      BY <2>4, <2>6, <2>7 DEF TimeKept
  <1>4. CASE SubStep
    <2>1. PICK sub \in 1..StepLen :
             /\ sub <= left
             /\ simTime' = simTime + sub /\ left' = left - sub
             /\ points' = Append(points, simTime') /\ made' = Append(made, simTime')
      BY <1>4, SubStepAdvances
    <2>2. UNCHANGED <<clock, last, locked, skipped>> /\ locked
      BY <1>4 DEF SubStep
    <2>3. simTime' \in Nat /\ simTime' + left' = simTime + left
      BY <1>1, <2>1, DisplayAssumption
    <2>4. /\ made' \in Seq(Nat) /\ Len(made') = Len(made) + 1
          /\ made'[Len(made')] = simTime'
          /\ \A i \in 1..Len(made) : made'[i] = made[i]
      BY <1>1, <2>1, <2>3
    <2>5. ClockInv'
      BY <1>1, <2>2, <2>4 DEF ClockInv
    <2>6. ASSUME NEW i \in DOMAIN made'
          PROVE  made'[i] - (IF i = 1 THEN 0 ELSE made'[i - 1]) \in 1..StepLen
      <3>1. CASE i \in 1..Len(made)
        <4>1. i # 1 => i - 1 \in 1..Len(made)
          BY <1>1, <3>1
        <4>2. made[i] - (IF i = 1 THEN 0 ELSE made[i - 1]) \in 1..StepLen
          BY <1>1, <3>1 DEF TimeKept
        <4> QED
          BY <2>4, <3>1, <4>1, <4>2
      <3>2. CASE i = Len(made) + 1
        <4>1. i # 1 => /\ made # <<>> /\ i - 1 = Len(made) /\ i - 1 \in 1..Len(made)
          BY <1>1, <3>2
        <4>2. i = 1 => made = <<>>
          BY <1>1, <3>2
        <4>3. (IF i = 1 THEN 0 ELSE made'[i - 1]) = simTime
          BY <2>4, <4>1, <4>2 DEF ClockInv
        <4>4. made'[i] = simTime + sub
          BY <2>1, <2>4, <3>2
        <4>5. (simTime + sub) - simTime \in 1..StepLen
          BY <1>1, DisplayAssumption
        <4>6. CASE i = 1
          <5>1. simTime = 0
            BY <4>3, <4>6
          <5> QED
            BY <4>4, <4>5, <4>6, <5>1
        <4>7. CASE i # 1
          <5>1. made'[i - 1] = simTime
            BY <4>3, <4>7
          <5> QED
            BY <4>4, <4>5, <4>7, <5>1
        <4> QED
          BY <4>6, <4>7
      <3> QED
        BY <1>1, <2>4, <3>1, <3>2
    <2>7. simTime' + left' <= last' /\ (~skipped' => simTime' + left' = last')
      BY <2>2, <2>3 DEF TimeKept
    <2> QED
      BY <2>5, <2>6, <2>7 DEF TimeKept
  <1>5. CASE TickEnds
    BY <1>1, <1>5 DEF TickEnds, ClockInv, TimeKept
  <1>6. CASE UNCHANGED workerVars
    BY <1>6 DEF workerVars, ClockInv, TimeKept
  <1> QED
    BY <1>2, <1>3, <1>4, <1>5, <1>6
       DEF Next, Refresh, GetSimPoints, Heat, vars

-----------------------------------------------------------------------------
(* The invariant of the two threads, which the theorems below follow from. *)
THEOREM DisplayInvariant == Spec => []DisplayInv
  <1>1. DisplayInv /\ [Next]_vars => DisplayInv'
    BY DisplayTypeStep, PointsStep, TimeStep DEF DisplayInv
  <1> QED
    BY <1>1, DisplayInitially, PTL DEF Spec

(* A point is drawn once and in its turn, though the two lists change      *)
(* hands while the worker goes on (SimWorker::getSimPoints).               *)
THEOREM PointsDrawnOnce == Spec => []PointsOnce
  <1>1. DisplayInv => PointsOnce
    BY DEF DisplayInv
  <1> QED
    BY <1>1, DisplayInvariant, PTL

(* The simulation is never ahead of the clock, nor behind it unless a gap  *)
(* was cut short, and advances by at most one step between two points      *)
(* (SimWorker::timerEvent).                                                *)
THEOREM SimulationKeepsTime == Spec => []TimeKept
  <1>1. DisplayInv => TimeKept
    BY DEF DisplayInv
  <1> QED
    BY <1>1, DisplayInvariant, PTL
=============================================================================
